------------------------- MODULE SessionPlaceProofs -------------------------
(***************************************************************************)
(* A connection on which every call was answered never loses its place:    *)
(* the streams carry one exchange, or nothing.                             *)
(***************************************************************************)
EXTENDS SessionProofs

\* A connection on which all calls were answered carries one exchange.
Pending(n) == call # idle /\ call.conn = n
asked == body_of(call.cmd, call.r)

frame3(t, b, c) == <<head(t), size(b), correlate(c)>>
frame4(t, b, c) == <<head(t), size(b), correlate(c), payload(b)>>
frame(t, b, c) == IF b = nothing THEN frame3(t, b, c) ELSE frame4(t, b, c)
header(t, b, c) == [ok |-> TRUE, type |-> t, body |-> b, correlation |-> c]

Quiet(n) == c2s[n] = <<>> /\ s2c[n] = <<>> /\ worker[n] \in {listening, gone}

Arriving(n) ==
  /\ call.at = "header" /\ s2c[n] = <<>>
  /\ \/ worker[n] = listening /\ c2s[n] = frame(call.cmd, asked, last_correlation[n])
     \/ /\ worker[n] = [at |-> "body", header |-> header(call.cmd, asked, last_correlation[n])]
        /\ c2s[n] = IF asked = nothing THEN <<>> ELSE <<payload(asked)>>
     \/ /\ worker[n].at = "answer" /\ c2s[n] = <<>>
        /\ worker[n].header = header(call.cmd, asked, last_correlation[n])

Returning(n) ==
  /\ worker[n] \in {listening, gone} /\ c2s[n] = <<>>
  /\ \E t \in {error_type, ack(call.cmd)}, b \in Answers :
       \/ /\ call.at = "header"
          /\ s2c[n] \in {<<>>, frame3(t, b, last_correlation[n]), frame4(t, b, last_correlation[n])}
       \/ /\ call.at = "body" /\ call.header = header(t, b, last_correlation[n])
          /\ s2c[n] \in {<<>>, <<payload(b)>>}

Place(n) == IF Pending(n) THEN Arriving(n) \/ Returning(n) ELSE Quiet(n)

InPlace == \A n \in Conns \ spoiled : Place(n)

PInv == IInv /\ InPlace /\ PlaceKept

-----------------------------------------------------------------------------
(* The place in the streams.                                               *)

\* Frames as tuples, and what reading makes of them.
LEMMA FrameTuples ==
  ASSUME NEW t, NEW c, NEW b
  PROVE  /\ encode_frame(t, c, b) = frame(t, b, c)
         /\ Len(frame3(t, b, c)) = 3 /\ Len(frame4(t, b, c)) = 4
         /\ drop(frame3(t, b, c), 3) = <<>> /\ drop(frame4(t, b, c), 3) = <<payload(b)>>
         /\ keep(frame4(t, b, c), 0) = <<>> /\ keep(frame4(t, b, c), 3) = frame3(t, b, c)
         /\ decode_frame_header(keep(frame3(t, b, c), 3)) = header(t, b, c)
         /\ decode_frame_header(keep(frame4(t, b, c), 3)) = header(t, b, c)
         /\ drop(<<payload(b)>>, 1) = <<>> /\ drop(<<>>, 0) = <<>>
<1> DEFINE u1 == head(t)
           u2 == size(b)
           u3 == correlate(c)
           u4 == payload(b)
           U == {u1, u2, u3, u4}
           f3 == <<u1, u2, u3>>
           f4 == <<u1, u2, u3, u4>>
           l == <<u4>>
<1>1. frame3(t, b, c) = f3 /\ frame4(t, b, c) = f4
  BY DEF frame3, frame4
<1>2. encode_frame(t, c, b) = IF b = nothing THEN f3 \o <<>> ELSE f3 \o l
  BY Zenon DEF encode_frame
<1>3. <<payload(b)>> = l
  OBVIOUS
<1>4. decode_frame_header(f3) = header(t, b, c)
  BY Zenon DEF decode_frame_header, header, head, size, correlate
<1> HIDE DEF u1, u2, u3, u4
<1>5. /\ f3 \in Seq(U) /\ Len(f3) = 3 /\ f3[1] = u1 /\ f3[2] = u2 /\ f3[3] = u3
      /\ f4 \in Seq(U) /\ Len(f4) = 4 /\ f4[1] = u1 /\ f4[2] = u2 /\ f4[3] = u3 /\ f4[4] = u4
      /\ l \in Seq(U) /\ Len(l) = 1 /\ l[1] = u4
      /\ <<>> \in Seq(U) /\ Len(<<>>) = 0
  BY EmptySeq
<1> HIDE DEF f3, f4, l, U
<1>6. f3 \o <<>> = f3
  BY <1>5, ConcatEmptySeq
<1>7. f3 \o l = f4
  <2>0. f3 \in Seq(U) /\ l \in Seq(U)
    BY <1>5
  <2>1. /\ f3 \o l \in Seq(U) /\ Len(f3 \o l) = Len(f3) + Len(l)
        /\ \A i \in 1 .. Len(f3) + Len(l) :
             (f3 \o l)[i] = IF i <= Len(f3) THEN f3[i] ELSE l[i - Len(f3)]
    BY <2>0, ConcatProperties
  <2> DEFINE w == f3 \o l
  <2> HIDE DEF w
  <2>2. w \in Seq(U) /\ Len(w) = 4 /\ w[1] = u1 /\ w[2] = u2 /\ w[3] = u3 /\ w[4] = u4
    BY <1>5, <2>1 DEF w
  <2>3. \A i \in 1 .. Len(w) : w[i] = f4[i]
    BY <1>5, <2>2
  <2>4. w \in Seq(U) /\ f4 \in Seq(U) /\ Len(w) = Len(f4)
    BY <1>5, <2>2
  <2>5. w = f4
    BY <2>3, <2>4, SeqEqual
  <2> QED
    BY <2>5 DEF w
<1>8. drop(f3, 3) = <<>> /\ drop(l, 1) = <<>> /\ drop(<<>>, 0) = <<>>
  <2>1. Len(drop(f3, 3)) = 0 /\ drop(f3, 3) \in Seq(U)
    <3>1. f3 \in Seq(U) /\ 3 \in 0 .. Len(f3)
      BY <1>5
    <3>2. /\ drop(f3, 3) \in Seq(U) /\ Len(drop(f3, 3)) = Len(f3) - 3
          /\ \A i \in 1 .. Len(f3) - 3 : drop(f3, 3)[i] = f3[i + 3]
      BY <3>1, DropFacts
    <3> QED
      BY <1>5, <3>2
  <2>2. Len(drop(l, 1)) = 0 /\ drop(l, 1) \in Seq(U)
    <3>1. l \in Seq(U) /\ 1 \in 0 .. Len(l)
      BY <1>5
    <3>2. /\ drop(l, 1) \in Seq(U) /\ Len(drop(l, 1)) = Len(l) - 1
          /\ \A i \in 1 .. Len(l) - 1 : drop(l, 1)[i] = l[i + 1]
      BY <3>1, DropFacts
    <3> QED
      BY <1>5, <3>2
  <2>3. Len(drop(<<>>, 0)) = 0 /\ drop(<<>>, 0) \in Seq(U)
    <3>1. <<>> \in Seq(U) /\ 0 \in 0 .. Len(<<>>)
      BY <1>5
    <3>2. /\ drop(<<>>, 0) \in Seq(U) /\ Len(drop(<<>>, 0)) = Len(<<>>) - 0
          /\ \A i \in 1 .. Len(<<>>) - 0 : drop(<<>>, 0)[i] = <<>>[i + 0]
      BY <3>1, DropFacts, Zenon
    <3> QED
      BY <1>5, <3>2
  <2> QED
    BY <2>1, <2>2, <2>3, EmptySeq
<1>9. drop(f4, 3) = l
  <2>1. drop(f4, 3) \in Seq(U) /\ Len(drop(f4, 3)) = 1 /\ drop(f4, 3)[1] = f4[4]
    <3>1. f4 \in Seq(U) /\ 3 \in 0 .. Len(f4)
      BY <1>5
    <3>2. /\ drop(f4, 3) \in Seq(U) /\ Len(drop(f4, 3)) = Len(f4) - 3
          /\ \A i \in 1 .. Len(f4) - 3 : drop(f4, 3)[i] = f4[i + 3]
      BY <3>1, DropFacts
    <3> QED
      BY <1>5, <3>2
  <2>2. \A i \in 1 .. 1 : drop(f4, 3)[i] = l[i]
    BY <1>5, <2>1
  <2> QED
    BY <1>5, <2>1, <2>2, SeqEqual
<1>10. keep(f4, 0) = <<>>
  <2>1. Len(keep(f4, 0)) = 0 /\ keep(f4, 0) \in Seq(U)
    <3>1. f4 \in Seq(U) /\ 0 \in 0 .. Len(f4)
      BY <1>5
    <3> QED
      BY <1>5, <3>1, KeepFacts
  <2> QED
    BY <2>1, EmptySeq
<1>11. keep(f4, 3) = f3
  <2>1. keep(f4, 3) \in Seq(U) /\ Len(keep(f4, 3)) = 3 /\ \A i \in 1 .. 3 : keep(f4, 3)[i] = f4[i]
    <3>1. f4 \in Seq(U) /\ 3 \in 0 .. Len(f4)
      BY <1>5
    <3> QED
      BY <3>1, KeepFacts, Zenon
  <2>2. \A i \in 1 .. 3 : keep(f4, 3)[i] = f3[i]
    BY <1>5, <2>1
  <2> QED
    BY <1>5, <2>1, <2>2, SeqEqual, Zenon
<1>12. keep(f3, 3) = f3
  <2>1. keep(f3, 3) \in Seq(U) /\ Len(keep(f3, 3)) = 3 /\ \A i \in 1 .. 3 : keep(f3, 3)[i] = f3[i]
    <3>1. f3 \in Seq(U) /\ 3 \in 0 .. Len(f3)
      BY <1>5
    <3> QED
      BY <3>1, KeepFacts, Zenon
  <2> QED
    BY <1>5, <2>1, SeqEqual
<1>13. encode_frame(t, c, b) = frame(t, b, c)
  BY <1>1, <1>2, <1>6, <1>7 DEF frame
<1> QED
  BY <1>1, <1>3, <1>4, <1>5, <1>8, <1>9, <1>10, <1>11, <1>12, <1>13

\* Where the request is, by what the worker waits for.
LEMMA ArrivingCases ==
  ASSUME NEW n, Arriving(n)
  PROVE  LET c == last_correlation[n] IN
         /\ call.at = "header" /\ s2c[n] = <<>>
         /\ worker[n].at \in {"header", "body", "answer"}
         /\ worker[n].at = "header" => c2s[n] = frame(call.cmd, asked, c)
         /\ worker[n].at # "header" => worker[n].header = header(call.cmd, asked, c)
         /\ worker[n].at = "body" =>
              c2s[n] = IF asked = nothing THEN <<>> ELSE <<payload(asked)>>
         /\ worker[n].at = "answer" => c2s[n] = <<>>
<1> DEFINE f == frame(call.cmd, asked, last_correlation[n])
           h == header(call.cmd, asked, last_correlation[n])
           l == IF asked = nothing THEN <<>> ELSE <<payload(asked)>>
<1>1. /\ call.at = "header" /\ s2c[n] = <<>>
      /\ \/ worker[n] = listening /\ c2s[n] = f
         \/ worker[n] = [at |-> "body", header |-> h] /\ c2s[n] = l
         \/ worker[n].at = "answer" /\ c2s[n] = <<>> /\ worker[n].header = h
  BY Zenon DEF Arriving
<1> HIDE DEF f, h, l
<1>2. /\ worker[n].at \in {"header", "body", "answer"}
      /\ worker[n].at = "header" => c2s[n] = f
      /\ worker[n].at # "header" => worker[n].header = h
      /\ worker[n].at = "body" => c2s[n] = l
      /\ worker[n].at = "answer" => c2s[n] = <<>>
  BY <1>1 DEF listening
<1> QED
  BY <1>1, <1>2 DEF f, h, l

\* A step of the worker of n changes no other connection.
LEMMA WorkerPlace ==
  ASSUME PInv, NEW n \in Conns, UNCHANGED <<call, last_correlation, spoiled, last>>,
         \A m \in Conns \ {n} : c2s'[m] = c2s[m] /\ s2c'[m] = s2c[m] /\ worker'[m] = worker[m],
         n \notin spoiled => Place(n)'
  PROVE  InPlace' /\ PlaceKept'
<1>1. ASSUME NEW m \in Conns \ spoiled, m # n PROVE Place(m)'
  <2>1. Place(m)
    BY <1>1 DEF PInv, InPlace
  <2>2. c2s'[m] = c2s[m] /\ s2c'[m] = s2c[m] /\ worker'[m] = worker[m]
    BY <1>1
  <2> QED
    BY <2>1, <2>2 DEF Place, Pending, Arriving, Returning, Quiet, asked
<1> QED
  BY <1>1 DEF PInv, InPlace, PlaceKept

\* The initial states.
LEMMA InitPlace == Init => PInv
<1> SUFFICES ASSUME Init PROVE PInv
  OBVIOUS
<1>1. InPlace
  BY DEF Init, InPlace, Place, Pending, Quiet
<1>2. PlaceKept
  BY DEF Init, PlaceKept, no_result
<1> QED
  BY <1>1, <1>2, InitExchange DEF PInv

\* Opening and closing.
LEMMA OpenPlace ==
  ASSUME PInv, NEW n \in Conns, Connect(n) \/ Close(n)
  PROVE  InPlace' /\ PlaceKept'
<1>1. /\ UNCHANGED <<call, spoiled, last, last_correlation, c2s>> /\ call = idle
      /\ worker' \in {worker, [worker EXCEPT ![n] = listening]}
      /\ s2c' \in {s2c, [s2c EXCEPT ![n] = <<>>]}
  BY DEF Connect, Close, caller, ghosts
<1>2. ASSUME NEW m \in Conns \ spoiled PROVE Place(m)'
  <2>1. Quiet(m)
    BY <1>1, <1>2 DEF PInv, InPlace, Place, Pending
  <2>2. s2c'[m] = <<>> /\ worker'[m] \in {listening, gone}
    BY <1>1, <2>1 DEF Quiet, PInv, IInv, TypeOK
  <2> QED
    BY <1>1, <2>1, <2>2 DEF Place, Pending, Quiet
<1> QED
  BY <1>1, <1>2 DEF InPlace, PInv, PlaceKept

\* A call on a quiet connection.
LEMMA CallPlace ==
  ASSUME PInv, NEW n \in Conns, NEW cmd \in Commands, NEW r \in Requests, Call(n, cmd, r)
  PROVE  InPlace' /\ PlaceKept'
<1> DEFINE x == last_correlation[n] + 1
           b == body_of(cmd, r)
           f == encode_frame(cmd, x, b)
<1>1. /\ call = idle /\ call' = reading(n, cmd, r) /\ last' = no_result
      /\ c2s' = [c2s EXCEPT ![n] = delivered(n, f)]
      /\ last_correlation' = [last_correlation EXCEPT ![n] = @ + 1]
      /\ UNCHANGED <<s2c, worker, spoiled>>
  BY DEF Call, Begin
<1>2. /\ call'.at = "header" /\ call'.conn = n /\ call'.cmd = cmd /\ call'.r = r /\ call' # idle
      /\ asked' = b /\ last_correlation'[n] = x /\ c2s'[n] = delivered(n, f)
      /\ \A m \in Conns \ {n} : c2s'[m] = c2s[m]
  BY <1>1 DEF reading, idle, asked, PInv, IInv, TypeOK
<1>3. \A m \in Conns \ spoiled : Quiet(m)
  BY <1>1 DEF PInv, InPlace, Place, Pending
<1>4. ASSUME NEW m \in Conns \ spoiled, m # n PROVE Place(m)'
  BY <1>1, <1>2, <1>3, <1>4 DEF Place, Pending, Quiet
<1>5. x \in Nat /\ cmd \in Types /\ b \in Bodies
  BY RequestTypes DEF PInv, IInv, TypeOK
<1> HIDE DEF x, b
<1>6. ASSUME n \notin spoiled PROVE Arriving(n)' \/ Returning(n)'
  <2>1. c2s[n] = <<>> /\ s2c'[n] = <<>> /\ worker'[n] = worker[n] /\ worker[n] \in {listening, gone}
    BY <1>1, <1>3, <1>6 DEF Quiet
  <2>2. CASE worker[n] = listening
    <3>1. listening # gone
      BY DEF listening, gone
    <3>2. f \in Seq(Unit) /\ f = frame(cmd, b, x)
      BY <1>5, FrameFacts, FrameTuples, Zenon
    <3>3. delivered(n, f) = f
      BY <2>1, <2>2, <3>1, <3>2, ConcatEmptySeq DEF delivered
    <3> QED
      BY <1>2, <2>1, <2>2, <3>2, <3>3 DEF Arriving
  <2>3. CASE worker[n] = gone
    <3>1. c2s'[n] = <<>>
      BY <1>2, <2>1, <2>3 DEF delivered
    <3>2. error_type \in {error_type, ack(call'.cmd)} /\ failure \in Answers
      BY DEF Answers
    <3> QED
      BY <1>2, <2>1, <3>1, <3>2 DEF Returning
  <2> QED
    BY <2>1, <2>2, <2>3
<1>7. n \notin spoiled => Place(n)'
  BY <1>2, <1>6 DEF Place, Pending
<1> QED
  BY <1>1, <1>4, <1>7 DEF InPlace, PlaceKept, no_result

\* A call that ends without an answer, on n, leaves the rest alone.
LEMMA FailPlace ==
  ASSUME PInv, NEW n \in Conns, call = idle \/ call.conn = n, call' = idle,
         spoiled' = spoiled \union {n},
         last'.how = "foreign" => ~last'.clean,
         UNCHANGED worker,
         \A m \in Conns \ {n} : c2s'[m] = c2s[m] /\ s2c'[m] = s2c[m]
  PROVE  InPlace' /\ PlaceKept'
<1>1. ASSUME NEW m \in Conns \ spoiled, m # n PROVE Place(m)'
  <2>1. Quiet(m)
    BY <1>1 DEF PInv, InPlace, Place, Pending
  <2>2. c2s'[m] = c2s[m] /\ s2c'[m] = s2c[m]
    BY <1>1
  <2> QED
    BY <2>1, <2>2 DEF Place, Pending, Quiet
<1> QED
  BY <1>1 DEF InPlace, PlaceKept

\* A part of a frame is sent.
LEMMA SendFailsPlace ==
  ASSUME PInv, NEW n \in Conns, NEW cmd \in Commands, NEW r \in Requests, SendFails(n, cmd, r)
  PROVE  InPlace' /\ PlaceKept'
<1>1. /\ call = idle /\ call' = idle /\ spoiled' = spoiled \union {n} /\ last'.how = "lost"
      /\ UNCHANGED <<worker, s2c>>
      /\ \E y : c2s' = [c2s EXCEPT ![n] = y]
  BY Zenon DEF SendFails, Begin, fails
<1>2. \A m \in Conns \ {n} : c2s'[m] = c2s[m] /\ s2c'[m] = s2c[m]
  BY <1>1 DEF PInv, IInv, TypeOK
<1> QED
  BY <1>1, <1>2, FailPlace

\* The caller gives up in the middle of a frame.
LEMMA ReadFailsPlace ==
  ASSUME PInv, ReadFails
  PROVE  InPlace' /\ PlaceKept'
<1> DEFINE n == call.conn
<1>1. n \in Conns
  BY CallFacts DEF ReadFails, PInv, IInv, TypeOK, idle
<1>2. /\ call' = idle /\ spoiled' = spoiled \union {n} /\ last'.how = "lost"
      /\ UNCHANGED <<worker, c2s>>
      /\ \E y : s2c' = [s2c EXCEPT ![n] = y]
  BY Zenon DEF ReadFails, fails
<1>3. \A m \in Conns \ {n} : c2s'[m] = c2s[m] /\ s2c'[m] = s2c[m]
  BY <1>2 DEF PInv, IInv, TypeOK
<1> QED
  BY <1>1, <1>2, <1>3, FailPlace

\* The caller finds a header where it looks for one.
LEMMA ReadHeaderPlace ==
  ASSUME PInv, ReadHeader
  PROVE  InPlace' /\ PlaceKept'
<1> USE DEF PInv
<1> DEFINE n == call.conn
           c == last_correlation[n]
           h == decode_frame_header(keep(s2c[n], HeaderUnits))
<1>1. call # idle /\ n \in Conns /\ call.at = "header"
  BY CallFacts DEF ReadHeader, IInv, TypeOK, idle
<1>2. /\ Len(s2c[n]) >= 3
      /\ s2c' = [s2c EXCEPT ![n] = drop(s2c[n], 3)]
      /\ UNCHANGED <<c2s, worker, last_correlation>>
      /\ \/ /\ h.ok
            /\ call' = [at |-> "body", header |-> h, conn |-> n, cmd |-> call.cmd, r |-> call.r]
            /\ UNCHANGED <<last, spoiled>>
         \/ ~h.ok /\ fails(n, "foreign")
  BY DEF ReadHeader, HeaderUnits
<1>3. /\ s2c'[n] = drop(s2c[n], 3)
      /\ \A m \in Conns \ {n} : s2c'[m] = s2c[m] /\ c2s'[m] = c2s[m] /\ worker'[m] = worker[m]
  BY <1>1, <1>2 DEF IInv, TypeOK
<1>4. ASSUME n \notin spoiled
      PROVE  /\ worker[n] \in {listening, gone} /\ c2s[n] = <<>>
             /\ \E t \in {error_type, ack(call.cmd)}, b \in Answers :
                  h = header(t, b, c) /\ s2c'[n] \in {<<>>, <<payload(b)>>}
  <2>1. s2c[n] # <<>>
    BY <1>2, EmptySeq
  <2>2. Returning(n)
    BY <1>1, <1>4, <2>1, Zenon DEF InPlace, Place, Pending, Arriving
  <2>3. PICK t \in {error_type, ack(call.cmd)}, b \in Answers :
             s2c[n] \in {frame3(t, b, c), frame4(t, b, c)}
    BY <1>1, <2>1, <2>2 DEF Returning
  <2> HIDE DEF c, n
  <2>4. /\ drop(frame3(t, b, c), 3) = <<>> /\ drop(frame4(t, b, c), 3) = <<payload(b)>>
        /\ decode_frame_header(keep(frame3(t, b, c), 3)) = header(t, b, c)
        /\ decode_frame_header(keep(frame4(t, b, c), 3)) = header(t, b, c)
    <3> HIDE DEF PInv, h
    <3> QED
      BY FrameTuples, ZenonT(60)
  <2>5. h = header(t, b, c) /\ drop(s2c[n], 3) \in {<<>>, <<payload(b)>>}
    BY <2>3, <2>4 DEF HeaderUnits
  <2> QED
    BY <1>3, <2>2, <2>3, <2>5 DEF Returning
<1> HIDE DEF h, c
<1>5. CASE /\ h.ok
           /\ call' = [at |-> "body", header |-> h, conn |-> n, cmd |-> call.cmd, r |-> call.r]
           /\ UNCHANGED <<last, spoiled>>
  <2>1. /\ call' # idle /\ call'.at = "body" /\ call'.header = h /\ call'.conn = n
        /\ call'.cmd = call.cmd
    BY <1>5 DEF idle
  <2>2. n \notin spoiled => Place(n)'
    <3> SUFFICES ASSUME n \notin spoiled PROVE Returning(n)'
      BY <2>1 DEF Place, Pending
    <3> QED
      BY <1>2, <1>4, <2>1 DEF Returning, c
  <2>3. ASSUME NEW m \in Conns \ spoiled, m # n PROVE Place(m)'
    <3>1. Quiet(m)
      BY <1>1, <2>3 DEF InPlace, Place, Pending
    <3> QED
      BY <1>3, <2>1, <2>3, <3>1 DEF Place, Pending, Quiet
  <2> QED
    BY <1>5, <2>2, <2>3 DEF InPlace, PlaceKept
<1>6. CASE ~h.ok /\ fails(n, "foreign")
  <2>1. n \in spoiled
    <3> SUFFICES ASSUME n \notin spoiled PROVE h.ok
      BY <1>6
    <3> QED
      BY <1>4 DEF header
  <2>2. /\ call' = idle /\ spoiled' = spoiled \union {n} /\ ~last'.clean
    BY <1>6, <2>1, Zenon DEF fails
  <2> QED
    BY <1>1, <1>2, <1>3, <2>2, FailPlace
<1> QED
  BY <1>2, <1>5, <1>6

\* The caller finds the body of the answer to its call.
LEMMA ReadBodyPlace ==
  ASSUME PInv, ReadBody
  PROVE  InPlace' /\ PlaceKept'
<1> USE DEF PInv
<1>0. call # idle /\ call.conn \in Conns /\ call.at = "body"
  BY CallFacts DEF ReadBody, IInv, TypeOK, idle
<1>1. PICK n \in Conns : n = call.conn /\ call # idle /\ call.at = "body"
  BY <1>0
<1> DEFINE c == last_correlation[n]
           h == call.header
<1>2. /\ Len(s2c[n]) >= length(h)
      /\ s2c' = [s2c EXCEPT ![n] = drop(s2c[n], length(h))]
      /\ UNCHANGED <<c2s, worker>>
      /\ call' = idle
      /\ \/ last'.how = "answer" /\ UNCHANGED spoiled
         \/ ~(crc_matches(h, s2c[n]) /\ belongs(h)) /\ fails(n, "foreign")
  BY <1>1 DEF ReadBody, fails
<1>3. /\ s2c'[n] = drop(s2c[n], length(h))
      /\ \A m \in Conns \ {n} : s2c'[m] = s2c[m] /\ c2s'[m] = c2s[m] /\ worker'[m] = worker[m]
  BY <1>1, <1>2 DEF IInv, TypeOK
<1>4. ASSUME n \notin spoiled
      PROVE  /\ worker[n] \in {listening, gone} /\ c2s[n] = <<>>
             /\ s2c'[n] = <<>> /\ crc_matches(h, s2c[n]) /\ belongs(h)
  <2>1. Returning(n)
    BY <1>1, <1>4 DEF InPlace, Place, Pending, Arriving
  <2>2. PICK t \in {error_type, ack(call.cmd)}, b \in Answers :
             h = header(t, b, c) /\ s2c[n] \in {<<>>, <<payload(b)>>}
    BY <1>1, <2>1 DEF Returning
  <2>3. length(h) = 1 /\ h.body = b /\ h.type = t /\ h.correlation = c
    BY <2>2, RequestTypes DEF length, header
  <2>4. s2c[n] # <<>>
    BY <1>2, <2>3, EmptySeq
  <2>5. s2c[n] = <<payload(b)>>
    BY <2>2, <2>4
  <2>6. s2c'[n] = <<>>
    BY <1>3, <2>3, <2>5, FrameTuples
  <2>7. crc_matches(h, s2c[n])
    <3>1. s2c[n][1] = payload(b)
      BY <2>5
    <3> QED
      BY <2>3, <3>1, UnitFacts DEF crc_matches
  <2>8. belongs(h)
    BY <1>1, <2>2, <2>3 DEF belongs
  <2> QED
    BY <2>1, <2>6, <2>7, <2>8 DEF Returning
<1> HIDE DEF h
<1>5. CASE last'.how = "answer" /\ UNCHANGED spoiled
  <2>1. n \notin spoiled => Place(n)'
    BY <1>2, <1>4 DEF Place, Pending, Quiet
  <2>2. ASSUME NEW m \in Conns \ spoiled, m # n PROVE Place(m)'
    <3>1. Quiet(m)
      BY <1>1, <2>2 DEF InPlace, Place, Pending
    <3> QED
      BY <1>2, <1>3, <2>2, <3>1 DEF Place, Pending, Quiet
  <2> QED
    BY <1>5, <2>1, <2>2 DEF InPlace, PlaceKept
<1>6. CASE ~(crc_matches(h, s2c[n]) /\ belongs(h)) /\ fails(n, "foreign")
  <2>1. n \in spoiled
    BY <1>4, <1>6
  <2>2. /\ call' = idle /\ spoiled' = spoiled \union {n} /\ ~last'.clean
    BY <1>6, <2>1, Zenon DEF fails
  <2> QED
    BY <1>1, <1>2, <1>3, <2>2, FailPlace
<1> QED
  BY <1>2, <1>5, <1>6

\* The worker finds the header of the request.
LEMMA WorkerHeaderPlace ==
  ASSUME PInv, NEW n \in Conns, WorkerHeader(n)
  PROVE  InPlace' /\ PlaceKept'
<1> USE DEF PInv
<1> DEFINE c == last_correlation[n]
           h == decode_frame_header(keep(c2s[n], HeaderUnits))
<1>1. /\ worker[n].at = "header" /\ Len(c2s[n]) >= 3
      /\ UNCHANGED <<call, last_correlation, spoiled, last>>
  BY DEF WorkerHeader, HeaderUnits, caller, ghosts
<1>2. \A m \in Conns \ {n} : c2s'[m] = c2s[m] /\ s2c'[m] = s2c[m] /\ worker'[m] = worker[m]
  BY DEF WorkerHeader, leave, IInv, TypeOK
<1>3. ASSUME n \notin spoiled PROVE Place(n)'
  <2>1. c2s[n] # <<>>
    BY <1>1, EmptySeq
  <2>2. Pending(n) /\ Arriving(n)
    BY <1>3, <2>1 DEF InPlace, Place, Quiet, Returning
  <2>3. call.at = "header" /\ s2c[n] = <<>> /\ c2s[n] = frame(call.cmd, asked, c)
    BY <1>1, <2>2, ArrivingCases
  <2>4. /\ h = header(call.cmd, asked, c)
        /\ drop(c2s[n], 3) = IF asked = nothing THEN <<>> ELSE <<payload(asked)>>
    <3> DEFINE t == call.cmd
               b == asked
    <3> HIDE DEF t, b, c
    <3>1. /\ drop(frame3(t, b, c), 3) = <<>> /\ drop(frame4(t, b, c), 3) = <<payload(b)>>
          /\ decode_frame_header(keep(frame3(t, b, c), 3)) = header(t, b, c)
          /\ decode_frame_header(keep(frame4(t, b, c), 3)) = header(t, b, c)
      BY FrameTuples, Zenon
    <3> QED
      BY <2>3, <3>1 DEF frame, HeaderUnits, t, b
  <2>5. h.ok
    BY <2>4 DEF header
  <2>6. /\ worker' = [worker EXCEPT ![n] = [at |-> "body", header |-> h]]
        /\ c2s' = [c2s EXCEPT ![n] = drop(c2s[n], 3)] /\ s2c' = s2c
    BY <2>5 DEF WorkerHeader, HeaderUnits
  <2> HIDE DEF h
  <2>7. worker'[n] = [at |-> "body", header |-> h] /\ c2s'[n] = drop(c2s[n], 3) /\ s2c'[n] = <<>>
    BY <2>3, <2>6 DEF IInv, TypeOK
  <2> QED
    BY <1>1, <2>2, <2>3, <2>4, <2>7 DEF Place, Pending, Arriving, asked
<1> QED
  BY <1>1, <1>2, <1>3, WorkerPlace

\* The worker finds the body of the request.
LEMMA WorkerBodyPlace ==
  ASSUME PInv, NEW n \in Conns, WorkerBody(n)
  PROVE  InPlace' /\ PlaceKept'
<1> USE DEF PInv
<1> DEFINE c == last_correlation[n]
           h == worker[n].header
<1>1. /\ worker[n].at = "body" /\ Len(c2s[n]) >= length(h)
      /\ UNCHANGED <<call, last_correlation, spoiled, last>>
  BY DEF WorkerBody, caller
<1>2. \A m \in Conns \ {n} : c2s'[m] = c2s[m] /\ s2c'[m] = s2c[m] /\ worker'[m] = worker[m]
  BY DEF WorkerBody, leave, IInv, TypeOK
<1>3. ASSUME n \notin spoiled PROVE Place(n)'
  <2>1. worker[n] # listening /\ worker[n] # gone
    BY <1>1 DEF listening, gone
  <2>2. Pending(n) /\ Arriving(n)
    BY <1>3, <2>1 DEF InPlace, Place, Quiet, Returning
  <2>3. /\ call.at = "header" /\ s2c[n] = <<>> /\ h = header(call.cmd, asked, c)
        /\ c2s[n] = IF asked = nothing THEN <<>> ELSE <<payload(asked)>>
    BY <1>1, <2>2, ArrivingCases
  <2>4. length(h) = (IF asked = nothing THEN 0 ELSE 1) /\ h.body = asked
    <3> HIDE DEF h, c
    <3>0. h = header(call.cmd, asked, c)
      BY <2>3, Zenon
    <3>1. h.body = asked
      BY <3>0 DEF header
    <3> QED
      BY <3>1, Zenon DEF length
  <2>5. crc_matches(h, c2s[n])
    <3>1. asked # nothing => c2s[n] = <<payload(asked)>>
      BY <2>3
    <3>2. asked # nothing => c2s[n][1] = payload(asked)
      BY <3>1
    <3> QED
      BY <2>4, <3>2, UnitFacts DEF crc_matches
  <2>6. drop(c2s[n], length(h)) = <<>>
    BY <2>3, <2>4, FrameTuples
  <2>7. /\ worker' = [worker EXCEPT ![n] =
                       [at |-> "answer", header |-> h, body |-> result(h.type, h.body[2])]]
        /\ c2s' = [c2s EXCEPT ![n] = drop(c2s[n], length(h))] /\ s2c' = s2c
    BY <2>5 DEF WorkerBody
  <2> DEFINE a == result(h.type, h.body[2])
  <2> HIDE DEF a
  <2>8. /\ worker'[n] = [at |-> "answer", header |-> h, body |-> a]
        /\ c2s'[n] = <<>> /\ s2c'[n] = <<>>
    BY <2>3, <2>6, <2>7 DEF IInv, TypeOK, a
  <2>9. worker'[n].at = "answer" /\ worker'[n].header = h
    BY <2>8
  <2>10. /\ call' = call /\ asked' = asked /\ last_correlation'[n] = c /\ Pending(n)'
         /\ call'.at = "header" /\ worker'[n].header = header(call'.cmd, asked', c)
    BY <1>1, <2>2, <2>3, <2>9, Zenon DEF Pending, asked
  <2>11. Arriving(n)'
    BY <2>8, <2>9, <2>10, Zenon DEF Arriving
  <2> QED
    BY <2>10, <2>11, Zenon DEF Place
<1> QED
  BY <1>1, <1>2, <1>3, WorkerPlace

\* The caller's connection when the worker has an answer ready.
LEMMA AnswerReady ==
  ASSUME PInv, NEW n \in Conns \ spoiled, worker[n].at = "answer"
  PROVE  /\ Pending(n) /\ call.at = "header" /\ s2c[n] = <<>> /\ c2s[n] = <<>>
         /\ \E t \in {error_type, ack(call.cmd)}, b \in Answers :
              answer(n) = frame4(t, b, last_correlation[n]) /\ answer(n) \in Seq(Unit)
<1> USE DEF PInv
<1> DEFINE c == last_correlation[n]
           w == worker[n]
           t == IF w.body = failure THEN error_type ELSE ack(w.header.type)
<1>1. w # listening /\ w # gone
  BY DEF listening, gone
<1>2. Pending(n) /\ Arriving(n)
  BY <1>1 DEF InPlace, Place, Quiet, Returning
<1>3. /\ call.at = "header" /\ s2c[n] = <<>> /\ c2s[n] = <<>>
      /\ w.header = header(call.cmd, asked, c)
  BY <1>2, ArrivingCases
<1>4. w.header.type = call.cmd /\ w.header.correlation = c
  BY <1>3 DEF header
<1>5. t \in Types /\ w.header.correlation \in Nat /\ w.body \in Bodies /\ w.body # nothing
  BY AnswerFrame
<1>6. w.body \in Answers
  BY WorkerFacts DEF IInv, TypeOK
<1>7. t \in {error_type, ack(call.cmd)}
  BY <1>4
<1>8. answer(n) = encode_frame(t, c, w.body)
  BY <1>4 DEF answer
<1> HIDE DEF t, w, c
<1>9. answer(n) \in Seq(Unit)
  BY <1>4, <1>5, <1>8, FrameFacts
<1>10. encode_frame(t, c, w.body) = frame(t, w.body, c)
  BY FrameTuples, Zenon
<1>11. answer(n) = frame4(t, w.body, c)
  BY <1>5, <1>8, <1>10 DEF frame
<1> QED
  BY <1>2, <1>3, <1>6, <1>7, <1>9, <1>11 DEF c

\* The worker sends its answer.
LEMMA WorkerAnswersPlace ==
  ASSUME PInv, NEW n \in Conns, WorkerAnswers(n)
  PROVE  InPlace' /\ PlaceKept'
<1> USE DEF PInv
<1>1. /\ worker[n].at = "answer" /\ UNCHANGED <<call, last_correlation, spoiled, last, c2s>>
      /\ worker' = [worker EXCEPT ![n] = listening]
      /\ s2c' = [s2c EXCEPT ![n] = received(n, s2c[n] \o answer(n))]
  BY DEF WorkerAnswers, caller, ghosts
<1>2. /\ \A m \in Conns \ {n} : c2s'[m] = c2s[m] /\ s2c'[m] = s2c[m] /\ worker'[m] = worker[m]
      /\ worker'[n] = listening /\ s2c'[n] = received(n, s2c[n] \o answer(n))
  BY <1>1 DEF IInv, TypeOK
<1>3. ASSUME n \notin spoiled PROVE Place(n)'
  <2>1. Pending(n) /\ call.at = "header" /\ s2c[n] = <<>> /\ c2s[n] = <<>>
    BY <1>1, <1>3, AnswerReady
  <2>2. PICK t \in {error_type, ack(call.cmd)}, b \in Answers :
             answer(n) = frame4(t, b, last_correlation[n]) /\ answer(n) \in Seq(Unit)
    BY <1>1, <1>3, AnswerReady
  <2>3. s2c[n] \o answer(n) = answer(n)
    BY <2>1, <2>2, ConcatEmptySeq
  <2>4. s2c'[n] \in {<<>>, frame4(t, b, last_correlation[n])}
    BY <1>2, <2>2, <2>3 DEF received
  <2>5. Returning(n)'
    BY <1>1, <1>2, <2>1, <2>2, <2>4 DEF Returning
  <2> QED
    BY <1>1, <2>1, <2>5 DEF Place, Pending
<1> QED
  BY <1>1, <1>2, <1>3, WorkerPlace

\* The worker sends nothing, or the header of its answer only.
LEMMA WorkerFailsPlace ==
  ASSUME PInv, NEW n \in Conns, WorkerFails(n)
  PROVE  InPlace' /\ PlaceKept'
<1> USE DEF PInv
<1>1. worker[n].at = "answer" /\ UNCHANGED <<call, last_correlation, spoiled, last>>
  BY DEF WorkerFails, caller, ghosts
<1>2. PICK k \in {0, 3} : leave(n, s2c[n] \o keep(answer(n), k), c2s[n])
  BY DEF WorkerFails, HeaderUnits
<1>3. /\ \A m \in Conns \ {n} : c2s'[m] = c2s[m] /\ s2c'[m] = s2c[m] /\ worker'[m] = worker[m]
      /\ worker'[n] = gone /\ c2s'[n] = <<>>
      /\ s2c'[n] \in {<<>>, s2c[n] \o keep(answer(n), k)}
  BY <1>2 DEF leave, received, IInv, TypeOK
<1>4. ASSUME n \notin spoiled PROVE Place(n)'
  <2>1. Pending(n) /\ call.at = "header" /\ s2c[n] = <<>> /\ c2s[n] = <<>>
    BY <1>1, <1>4, AnswerReady
  <2>2. PICK t \in {error_type, ack(call.cmd)}, b \in Answers :
             answer(n) = frame4(t, b, last_correlation[n]) /\ answer(n) \in Seq(Unit)
    BY <1>1, <1>4, AnswerReady
  <2> DEFINE c == last_correlation[n]
             x == keep(answer(n), k)
  <2>3. x \in {<<>>, frame3(t, b, c)}
    <3> HIDE DEF c
    <3>1. keep(frame4(t, b, c), 0) = <<>> /\ keep(frame4(t, b, c), 3) = frame3(t, b, c)
      BY FrameTuples, Zenon
    <3> QED
      BY <1>2, <2>2, <3>1 DEF c
  <2>4. \E S : x \in Seq(S)
    <3>1. <<>> \in Seq(Unit)
      BY EmptySeq
    <3>2. frame3(t, b, c) \in Seq({head(t), size(b), correlate(c)})
      BY DEF frame3
    <3> QED
      BY <2>3, <3>1, <3>2, Zenon
  <2> HIDE DEF x, c
  <2>5. s2c[n] \o x = x
    BY <2>1, <2>4, ConcatEmptySeq
  <2>6. s2c'[n] \in {<<>>, frame3(t, b, c)}
    BY <1>3, <2>3, <2>5 DEF x
  <2>7. Returning(n)'
    BY <1>1, <1>3, <2>1, <2>2, <2>6 DEF Returning, c
  <2> QED
    BY <1>1, <2>1, <2>7 DEF Place, Pending
<1> QED
  BY <1>1, <1>3, <1>4, WorkerPlace

\* The worker leaves between requests.
LEMMA WorkerLeavesPlace ==
  ASSUME PInv, NEW n \in Conns, WorkerLeaves(n)
  PROVE  InPlace' /\ PlaceKept'
<1> USE DEF PInv
<1>1. /\ worker[n].at \in {"header", "body"} /\ UNCHANGED <<call, last_correlation, spoiled, last>>
      /\ Len(c2s[n]) < (IF worker[n].at = "header" THEN 3 ELSE length(worker[n].header))
  BY DEF WorkerLeaves, caller, ghosts, HeaderUnits
<1>2. /\ \A m \in Conns \ {n} : c2s'[m] = c2s[m] /\ s2c'[m] = s2c[m] /\ worker'[m] = worker[m]
      /\ worker'[n] = gone /\ c2s'[n] = <<>> /\ s2c'[n] \in {<<>>, s2c[n]}
  BY DEF WorkerLeaves, leave, received, IInv, TypeOK
<1>3. ASSUME n \notin spoiled PROVE Place(n)'
  <2>1. Place(n)
    BY <1>3 DEF InPlace
  <2>2. CASE ~Pending(n)
    BY <1>1, <1>2, <2>1, <2>2 DEF Place, Pending, Quiet
  <2>3. CASE Pending(n)
    <3>1. ~Arriving(n)
      <4> DEFINE c == last_correlation[n]
                 b == asked
                 t == call.cmd
      <4> SUFFICES ASSUME Arriving(n) PROVE FALSE
        OBVIOUS
      <4>1. CASE worker[n].at = "header"
        <5>1. c2s[n] = frame(t, b, c)
          BY <4>1, ArrivingCases
        <5>2. Len(c2s[n]) = 3 \/ Len(c2s[n]) = 4
          <6> HIDE DEF c, b, t
          <6> QED
            BY <5>1, FrameTuples, Zenon DEF frame
        <5>3. Len(c2s[n]) < 3
          BY <1>1, <4>1
        <5> QED
          BY <5>2, <5>3
      <4>2. CASE worker[n].at = "body"
        <5>1. /\ worker[n].header = header(t, b, c)
              /\ c2s[n] = IF b = nothing THEN <<>> ELSE <<payload(b)>>
          BY <4>2, ArrivingCases
        <5>2. length(worker[n].header) = IF b = nothing THEN 0 ELSE 1
          BY <5>1 DEF length, header
        <5>3. Len(c2s[n]) = IF b = nothing THEN 0 ELSE 1
          BY <5>1
        <5> QED
          BY <1>1, <4>2, <5>2, <5>3
      <4> QED
        BY <1>1, <4>1, <4>2
    <3>2. Returning(n)
      BY <2>1, <2>3, <3>1 DEF Place
    <3>3. Returning(n)'
      BY <1>1, <1>2, <3>2 DEF Returning
    <3> QED
      BY <1>1, <2>3, <3>3 DEF Place, Pending
  <2> QED
    BY <2>2, <2>3
<1> QED
  BY <1>1, <1>2, <1>3, WorkerPlace

\* All workers leave at once.
LEMMA RestartPlace ==
  ASSUME PInv, Restart
  PROVE  InPlace' /\ PlaceKept'
<1> USE DEF PInv
<1>1. UNCHANGED <<call, last_correlation, spoiled, last>>
  BY DEF Restart, caller, ghosts
<1>2. \A n \in Conns : /\ worker'[n] = gone /\ c2s'[n] = <<>>
                       /\ s2c'[n] = s2c[n] \/ s2c'[n] = <<>>
  BY DEF Restart, IInv, TypeOK
<1>3. ASSUME NEW n \in Conns \ spoiled PROVE Place(n)'
  <2>1. Place(n)
    BY <1>3 DEF InPlace
  <2>2. worker'[n] = gone /\ c2s'[n] = <<>> /\ (s2c'[n] = s2c[n] \/ s2c'[n] = <<>>)
    BY <1>2
  <2>3. CASE ~Pending(n)
    BY <1>1, <2>1, <2>2, <2>3 DEF Place, Pending, Quiet
  <2>4. CASE Pending(n) /\ Arriving(n)
    <3>1. call.at = "header" /\ s2c'[n] = <<>>
      BY <2>2, <2>4 DEF Arriving
    <3>2. error_type \in {error_type, ack(call'.cmd)} /\ failure \in Answers
      BY DEF Answers
    <3>3. Returning(n)'
      BY <1>1, <2>2, <3>1, <3>2 DEF Returning
    <3> QED
      BY <1>1, <2>4, <3>3 DEF Place, Pending
  <2>5. CASE Pending(n) /\ Returning(n)
    <3>1. Returning(n)'
      BY <1>1, <2>2, <2>5 DEF Returning
    <3> QED
      BY <1>1, <2>5, <3>1 DEF Place, Pending
  <2> QED
    BY <2>1, <2>3, <2>4, <2>5 DEF Place
<1> QED
  BY <1>1, <1>3 DEF InPlace, PlaceKept

\* Every step keeps the place.
LEMMA PlaceStep == PInv /\ [Next]_vars => PInv'
<1> SUFFICES ASSUME PInv, [Next]_vars PROVE InPlace' /\ PlaceKept'
  BY ExchangeStep DEF PInv
<1>1. CASE Next
  BY <1>1, OpenPlace, CallPlace, SendFailsPlace, ReadHeaderPlace, ReadBodyPlace, ReadFailsPlace,
     WorkerHeaderPlace, WorkerBodyPlace, WorkerAnswersPlace, WorkerFailsPlace, WorkerLeavesPlace,
     RestartPlace DEF Next, Serves, Reads
<1>2. CASE UNCHANGED vars
  <2>1. UNCHANGED <<c2s, s2c, worker, call, last_correlation, spoiled, last>>
    BY <1>2 DEF vars, net, caller, ghosts
  <2>2. ASSUME NEW n \in Conns \ spoiled PROVE Place(n)'
    <3>1. Place(n)
      BY <2>2 DEF PInv, InPlace
    <3> QED
      BY <2>1, <3>1, Zenon DEF Place, Pending, Arriving, Returning, Quiet, asked
  <2> QED
    BY <2>1, <2>2 DEF PInv, InPlace, PlaceKept
<1> QED
  BY <1>1, <1>2

\* On a connection whose calls were all answered the next header is where the
\* caller looks for it, and the frame is the answer to its call: recv_exact
\* loses the place only when it gives up.
THEOREM PlaceIsKept == Spec => []PlaceKept
<1>1. PInv => PlaceKept
  BY DEF PInv
<1> QED
  BY <1>1, InitPlace, PlaceStep, PTL DEF Spec
=============================================================================
