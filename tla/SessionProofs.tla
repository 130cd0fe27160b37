--------------------------- MODULE SessionProofs ---------------------------
(***************************************************************************)
(* For any number of connections, requests, calls and restarts: a call     *)
(* returns its own answer only, and a request is decided once and all a    *)
(* caller learns of it is that decision.                                   *)
(***************************************************************************)
EXTENDS Session, SequenceTheorems, FiniteSetTheorems, TLAPS

Answers == Outcomes \union {unknown, failure, view}
Asked   == {nothing} \union {<<"request", r>> : r \in Requests}
Bodies  == Asked \union Answers
Types   == Commands \union {ack(cmd) : cmd \in Commands} \union {error_type}

Unit ==
  {head(t) : t \in Types} \union {size(b) : b \in Bodies}
  \union {correlate(c) : c \in Nat} \union {payload(b) : b \in Bodies}

Header == [ok : {TRUE}, type : Types, body : Bodies, correlation : Nat]

-----------------------------------------------------------------------------
(* Streams.                                                                *)

\* What is left of a stream once k units were read.
LEMMA DropFacts ==
  ASSUME NEW S, NEW s \in Seq(S), NEW k \in 0 .. Len(s)
  PROVE  /\ drop(s, k) \in Seq(S)
         /\ Len(drop(s, k)) = Len(s) - k
         /\ \A i \in 1 .. Len(s) - k : drop(s, k)[i] = s[i + k]
<1>1. \A i \in k + 1 .. Len(s) : s[i] \in S
  BY ElementOfSeq, LenProperties
<1>2. Len(s) \in Nat
  BY LenProperties
<1> QED
  BY <1>1, <1>2, SubSeqProperties DEF drop

\* The first k units of a stream.
LEMMA KeepFacts ==
  ASSUME NEW S, NEW s \in Seq(S), NEW k \in 0 .. Len(s)
  PROVE  /\ keep(s, k) \in Seq(S)
         /\ Len(keep(s, k)) = k
         /\ \A i \in 1 .. k : keep(s, k)[i] = s[i]
<1>1. \A i \in 1 .. k : s[i] \in S
  BY ElementOfSeq, LenProperties
<1>2. Len(s) \in Nat
  BY LenProperties
<1> QED
  BY <1>1, <1>2, SubSeqProperties DEF keep

\* The units of a frame.
LEMMA FrameFacts ==
  ASSUME NEW t \in Types, NEW c \in Nat, NEW b \in Bodies
  PROVE  LET f == encode_frame(t, c, b) IN
         /\ f \in Seq(Unit)
         /\ Len(f) = IF b = nothing THEN 3 ELSE 4
         /\ f[1] = head(t) /\ f[2] = size(b) /\ f[3] = correlate(c)
         /\ b # nothing => f[4] = payload(b)
<1> DEFINE front == <<head(t), size(b), correlate(c)>>
           back == IF b = nothing THEN <<>> ELSE <<payload(b)>>
<1>1. head(t) \in Unit /\ size(b) \in Unit /\ correlate(c) \in Unit /\ payload(b) \in Unit
  BY DEF Unit
<1>2. front \in Seq(Unit) /\ Len(front) = 3
  BY <1>1
<1>3. back \in Seq(Unit) /\ Len(back) = (IF b = nothing THEN 0 ELSE 1)
  BY <1>1
<1>4. encode_frame(t, c, b) = front \o back
  BY DEF encode_frame
<1> HIDE DEF front, back
<1>5. /\ front \o back \in Seq(Unit)
      /\ Len(front \o back) = Len(front) + Len(back)
      /\ \A i \in 1 .. Len(front) + Len(back) :
            (front \o back)[i] = IF i <= Len(front) THEN front[i] ELSE back[i - Len(front)]
  BY <1>2, <1>3, ConcatProperties, Zenon
<1>6. front[1] = head(t) /\ front[2] = size(b) /\ front[3] = correlate(c)
  BY DEF front
<1>7. b # nothing => back[1] = payload(b)
  BY DEF back
<1> QED
  BY <1>2, <1>3, <1>4, <1>5, <1>6, <1>7

\* The parts of units.
LEMMA UnitFacts ==
  /\ \A t : head(t).part = "head" /\ head(t).of = t
  /\ \A b : size(b).part = "size" /\ size(b).of = b
  /\ \A c : correlate(c).part = "corr" /\ correlate(c).of = c
  /\ \A b : payload(b).part = "body" /\ payload(b).of = b
BY DEF head, size, correlate, payload

\* Which unit it is, from its part.
LEMMA UnitCases ==
  ASSUME NEW u \in Unit
  PROVE  /\ u.part = "head" => u.of \in Types /\ u = head(u.of)
         /\ u.part = "size" => u.of \in Bodies /\ u = size(u.of)
         /\ u.part = "corr" => u.of \in Nat /\ u = correlate(u.of)
         /\ u.part = "body" => u.of \in Bodies /\ u = payload(u.of)
BY DEF Unit, head, size, correlate, payload

-----------------------------------------------------------------------------
(* The inductive invariant.                                                *)

\* Correlations are at most c, and a correlation follows the rest of its
\* header, as far as that has not been read.
WellFormed(s, c) ==
  /\ s \in Seq(Unit)
  /\ \A i \in 1 .. Len(s) : s[i].part = "corr" => s[i].of <= c
  /\ \A i, j \in 1 .. Len(s) : s[j].part = "corr" =>
       /\ i + 1 = j => s[i].part = "size"
       /\ i + 2 = j => s[i].part = "head"

\* A request the client library makes.
Requested(t, b) == t \in Commands /\ \E r \in Requests : b = body_of(t, r)

\* A type and a size that follow each other are of one request.
RequestsOnly(s) ==
  \A i, j \in 1 .. Len(s) :
    i + 1 = j /\ s[i].part = "head" /\ s[j].part = "size" => Requested(s[i].of, s[j].of)

WorkerType ==
  {listening, gone} \union [at : {"body"}, header : Header]
  \union [at : {"answer"}, header : Header, body : Answers]

CallType ==
  {idle} \union [at : {"header"}, conn : Conns, cmd : Commands, r : Requests]
  \union [at : {"body"}, header : Header, conn : Conns, cmd : Commands, r : Requests]

TypeOK ==
  /\ up \in [Conns -> {"unused", "open", "closed"}]
  /\ c2s \in [Conns -> Seq(Unit)] /\ s2c \in [Conns -> Seq(Unit)]
  /\ worker \in [Conns -> WorkerType]
  /\ last_correlation \in [Conns -> Nat]
  /\ call \in CallType
  /\ core \in [Requests -> Outcomes \union {nothing}]
  /\ learned \in [Requests -> SUBSET Outcomes]

\* A worker with a request.
Serving(w) == w.at \in {"body", "answer"}

\* What a connection carries, when c is the last number used on it.
Carried(cs, sc, w, c) ==
  /\ WellFormed(cs, c) /\ RequestsOnly(cs) /\ WellFormed(sc, c)
  /\ Serving(w) => w.header.correlation <= c /\ Requested(w.header.type, w.header.body)

Traffic == \A n \in Conns : Carried(c2s[n], s2c[n], worker[n], last_correlation[n])

\* The frame of request c, wherever it is met, is whole and the last of its
\* stream.
SentWhole(s, c, cmd, b) ==
  \A j \in 1 .. Len(s) : s[j] = correlate(c) =>
    /\ Len(s) = j + (IF b = nothing THEN 0 ELSE 1)
    /\ \A i \in 1 .. Len(s) : /\ i + 2 = j => s[i] = head(cmd)
                              /\ i + 1 = j => s[i] = size(b)
                              /\ j + 1 = i => s[i] = payload(b)

\* A worker that has request c has all of it; o is what the core answered.
ServedWhole(cs, w, c, cmd, b, o) ==
  Serving(w) /\ w.header.correlation = c =>
    /\ w.header.type = cmd /\ w.header.body = b
    /\ w.at = "body" => /\ Len(cs) = (IF b = nothing THEN 0 ELSE 1)
                        /\ b # nothing => cs[1] = payload(b)
    /\ w.at = "answer" => w.body \in o

\* A frame with number c carries what the core answered.
AnswersOwed(s, c, o) ==
  \A i, j \in 1 .. Len(s) : i + 1 = j /\ s[j] = correlate(c) => s[i].of \in o

\* The connection of the call in progress.
Matched(cs, sc, w, c, cl, o) ==
  /\ c >= 1
  /\ SentWhole(cs, c, cl.cmd, body_of(cl.cmd, cl.r))
  /\ ServedWhole(cs, w, c, cl.cmd, body_of(cl.cmd, cl.r), o)
  /\ AnswersOwed(sc, c, o)
  /\ cl.at = "body" /\ cl.header.correlation = c => cl.header.body \in o

\* The outcomes among the answers to a call are what was decided.
OwedDecided == \A a \in owed : a \in Outcomes => a = core[call.r]

Exchanged ==
  call # idle =>
    /\ Matched(c2s[call.conn], s2c[call.conn], worker[call.conn], last_correlation[call.conn],
               call, owed)
    /\ OwedDecided

\* The grants that exist are the ones that were decided.
DecidedRequests == {r \in Requests : core[r] # nothing}
GrantsCounted == grants \in Nat /\ grants <= Cardinality(DecidedRequests)

IInv == TypeOK /\ Traffic /\ Exchanged /\ GrantsCounted /\ AnswerBelongs

-----------------------------------------------------------------------------
(* What reading and writing do to streams.                                 *)

\* An empty stream.
LEMMA EmptyStream ==
  ASSUME NEW c, NEW cmd, NEW b, NEW o
  PROVE  /\ WellFormed(<<>>, c) /\ RequestsOnly(<<>>)
         /\ SentWhole(<<>>, c, cmd, b) /\ AnswersOwed(<<>>, c, o)
<1>1. <<>> \in Seq(Unit) /\ Len(<<>>) = 0
  BY EmptySeq
<1> QED
  BY <1>1 DEF WellFormed, RequestsOnly, SentWhole, AnswersOwed

\* Reading from the front.
LEMMA DropStream ==
  ASSUME NEW s \in Seq(Unit), NEW k \in 0 .. Len(s), NEW c, NEW cmd, NEW b, NEW o
  PROVE  /\ WellFormed(s, c) => WellFormed(drop(s, k), c)
         /\ RequestsOnly(s) => RequestsOnly(drop(s, k))
         /\ SentWhole(s, c, cmd, b) => SentWhole(drop(s, k), c, cmd, b)
         /\ AnswersOwed(s, c, o) => AnswersOwed(drop(s, k), c, o)
<1> DEFINE d == drop(s, k)
           at(i) == i + k
<1>1. Len(s) \in Nat /\ k \in Nat
  BY LenProperties
<1>2. d \in Seq(Unit) /\ Len(d) = Len(s) - k /\ \A i \in 1 .. Len(s) - k : d[i] = s[i + k]
  BY DropFacts
<1> HIDE DEF d
<1>3. ASSUME NEW i \in 1 .. Len(d)
      PROVE  at(i) \in 1 .. Len(s) /\ d[i] = s[at(i)]
  BY <1>1, <1>2
<1>4. ASSUME NEW i \in 1 .. Len(d), NEW j \in 1 .. Len(d)
      PROVE  /\ i + 1 = j => at(i) + 1 = at(j)
             /\ i + 2 = j => at(i) + 2 = at(j)
             /\ j + 1 = i => at(j) + 1 = at(i)
  BY <1>1, <1>2
<1> HIDE DEF at
<1>5. ASSUME WellFormed(s, c) PROVE WellFormed(d, c)
  <2>1. ASSUME NEW i \in 1 .. Len(d), d[i].part = "corr" PROVE d[i].of <= c
    BY <1>3, <1>5, <2>1 DEF WellFormed
  <2>2. ASSUME NEW i \in 1 .. Len(d), NEW j \in 1 .. Len(d), d[j].part = "corr"
        PROVE  (i + 1 = j => d[i].part = "size") /\ (i + 2 = j => d[i].part = "head")
    <3>1. /\ at(i) \in 1 .. Len(s) /\ at(j) \in 1 .. Len(s)
          /\ d[i] = s[at(i)] /\ d[j] = s[at(j)]
          /\ i + 1 = j => at(i) + 1 = at(j)
          /\ i + 2 = j => at(i) + 2 = at(j)
      BY <1>3, <1>4
    <3> QED
      BY <1>5, <2>2, <3>1 DEF WellFormed
  <2> QED
    BY <1>2, <2>1, <2>2 DEF WellFormed
<1>6. ASSUME RequestsOnly(s) PROVE RequestsOnly(d)
  <2>1. ASSUME NEW i \in 1 .. Len(d), NEW j \in 1 .. Len(d),
               i + 1 = j, d[i].part = "head", d[j].part = "size"
        PROVE  Requested(d[i].of, d[j].of)
    <3>1. /\ at(i) \in 1 .. Len(s) /\ at(j) \in 1 .. Len(s)
          /\ d[i] = s[at(i)] /\ d[j] = s[at(j)] /\ at(i) + 1 = at(j)
      BY <1>3, <1>4, <2>1
    <3> QED
      BY <1>6, <2>1, <3>1 DEF RequestsOnly
  <2> QED
    BY <2>1 DEF RequestsOnly
<1>7. ASSUME SentWhole(s, c, cmd, b) PROVE SentWhole(d, c, cmd, b)
  BY <1>1, <1>2, <1>7 DEF SentWhole
<1>8. ASSUME AnswersOwed(s, c, o) PROVE AnswersOwed(d, c, o)
  <2>1. ASSUME NEW i \in 1 .. Len(d), NEW j \in 1 .. Len(d), i + 1 = j, d[j] = correlate(c)
        PROVE  d[i].of \in o
    <3>1. /\ at(i) \in 1 .. Len(s) /\ at(j) \in 1 .. Len(s)
          /\ d[i] = s[at(i)] /\ d[j] = s[at(j)] /\ at(i) + 1 = at(j)
      BY <1>3, <1>4, <2>1
    <3> QED
      BY <1>8, <2>1, <3>1 DEF AnswersOwed
  <2> QED
    BY <2>1 DEF AnswersOwed
<1> QED
  BY <1>5, <1>6, <1>7, <1>8 DEF d

\* The first k units of a frame, all of them included.
Piece(f, t, d, b) == \E k \in 0 .. Len(encode_frame(t, d, b)) : f = keep(encode_frame(t, d, b), k)

\* The units of a piece of a frame.
LEMMA PieceFacts ==
  ASSUME NEW t \in Types, NEW d \in Nat, NEW b \in Bodies, NEW f, Piece(f, t, d, b)
  PROVE  /\ f \in Seq(Unit)
         /\ Len(f) \in 0 .. (IF b = nothing THEN 3 ELSE 4)
         /\ Len(f) >= 1 => f[1] = head(t)
         /\ Len(f) >= 2 => f[2] = size(b)
         /\ Len(f) >= 3 => f[3] = correlate(d)
         /\ Len(f) >= 4 => f[4] = payload(b)
<1> DEFINE e == encode_frame(t, d, b)
<1>1. /\ e \in Seq(Unit)
      /\ Len(e) = IF b = nothing THEN 3 ELSE 4
      /\ e[1] = head(t) /\ e[2] = size(b) /\ e[3] = correlate(d)
      /\ b # nothing => e[4] = payload(b)
  BY FrameFacts
<1>2. PICK k \in 0 .. Len(e) : f = keep(e, k)
  BY DEF Piece
<1> HIDE DEF e
<1>3. f \in Seq(Unit) /\ Len(f) = k /\ \A i \in 1 .. k : f[i] = e[i]
  BY <1>1, <1>2, KeepFacts
<1> QED
  BY <1>1, <1>2, <1>3

\* A whole frame is a piece of itself.
LEMMA WholeFrame ==
  ASSUME NEW t \in Types, NEW d \in Nat, NEW b \in Bodies
  PROVE  Piece(encode_frame(t, d, b), t, d, b)
<1> DEFINE e == encode_frame(t, d, b)
<1>1. e \in Seq(Unit)
  BY FrameFacts
<1> HIDE DEF e
<1>2. Len(e) \in Nat /\ keep(e, Len(e)) = e
  BY <1>1, LenProperties, SubSeqFull DEF keep
<1> QED
  BY <1>2 DEF Piece, e

\* Writing a piece of frame d behind a stream.
LEMMA WritePiece ==
  ASSUME NEW s, NEW c \in Nat, WellFormed(s, c),
         NEW t \in Types, NEW d \in Nat, d <= c, NEW b \in Bodies,
         NEW f, Piece(f, t, d, b), NEW o
  PROVE  /\ WellFormed(s \o f, c)
         /\ RequestsOnly(s) /\ Requested(t, b) => RequestsOnly(s \o f)
         /\ AnswersOwed(s, c, o) /\ (d = c => b \in o) => AnswersOwed(s \o f, c, o)
<1> DEFINE w == s \o f
           n == Len(s)
<1>1. s \in Seq(Unit) /\ n \in Nat
  BY LenProperties DEF WellFormed
<1>2. /\ f \in Seq(Unit)
      /\ Len(f) \in 0 .. (IF b = nothing THEN 3 ELSE 4)
      /\ Len(f) >= 1 => f[1] = head(t)
      /\ Len(f) >= 2 => f[2] = size(b)
      /\ Len(f) >= 3 => f[3] = correlate(d)
      /\ Len(f) >= 4 => f[4] = payload(b)
  BY PieceFacts
<1> HIDE DEF n
<1>3. /\ w \in Seq(Unit) /\ Len(w) = n + Len(f)
      /\ \A i \in 1 .. n + Len(f) : w[i] = IF i <= n THEN s[i] ELSE f[i - n]
  <2>1. s \in Seq(Unit) /\ f \in Seq(Unit)
    BY <1>1, <1>2
  <2> QED
    BY <2>1, ConcatProperties DEF n
<1> HIDE DEF w
\* The units of w, old and new.
<1>4. ASSUME NEW i \in 1 .. Len(w)
      PROVE  \/ i \in 1 .. n /\ w[i] = s[i]
             \/ i = n + 1 /\ w[i] = head(t)
             \/ i = n + 2 /\ w[i] = size(b)
             \/ i = n + 3 /\ w[i] = correlate(d)
             \/ i = n + 4 /\ w[i] = payload(b)
  <2>1. CASE i <= n
    BY <1>1, <1>3, <2>1
  <2>2. CASE i > n
    <3> DEFINE m == i - n
    <3>1. m \in 1 .. Len(f) /\ w[i] = f[m] /\ i = n + m
      BY <1>1, <1>2, <1>3, <2>2
    <3> HIDE DEF m
    <3>2. m = 1 \/ m = 2 \/ m = 3 \/ m = 4
      BY <1>2, <3>1
    <3> QED
      BY <1>2, <3>1, <3>2
  <2> QED
    BY <1>1, <1>3, <2>1, <2>2
<1>5. WellFormed(w, c)
  <2>1. ASSUME NEW i \in 1 .. Len(w), w[i].part = "corr" PROVE w[i].of <= c
    <3>1. (i \in 1 .. n /\ w[i] = s[i]) \/ w[i] = correlate(d)
      BY <1>4, <2>1, UnitFacts
    <3> QED
      BY <2>1, <3>1, UnitFacts DEF WellFormed, n
  <2>2. ASSUME NEW i \in 1 .. Len(w), NEW j \in 1 .. Len(w), w[j].part = "corr"
        PROVE  (i + 1 = j => w[i].part = "size") /\ (i + 2 = j => w[i].part = "head")
    <3>1. CASE j \in 1 .. n /\ w[j] = s[j]
      <4>1. i + 1 = j \/ i + 2 = j => i \in 1 .. n /\ w[i] = s[i]
        BY <1>1, <1>3, <1>4, <3>1
      <4> QED
        BY <2>2, <3>1, <4>1 DEF WellFormed, n
    <3>2. CASE j = n + 3
      <4>1. (i + 1 = j => i = n + 2) /\ (i + 2 = j => i = n + 1)
        BY <1>1, <1>3, <3>2
      <4>2. (i + 1 = j => w[i] = size(b)) /\ (i + 2 = j => w[i] = head(t))
        BY <1>1, <1>4, <4>1
      <4> QED
        BY <4>2, UnitFacts
    <3> QED
      BY <1>4, <2>2, <3>1, <3>2, UnitFacts
  <2> QED
    BY <1>3, <2>1, <2>2 DEF WellFormed
<1>6. ASSUME RequestsOnly(s), Requested(t, b) PROVE RequestsOnly(w)
  <2>1. ASSUME NEW i \in 1 .. Len(w), NEW j \in 1 .. Len(w),
               i + 1 = j, w[i].part = "head", w[j].part = "size"
        PROVE  Requested(w[i].of, w[j].of)
    <3>1. CASE j \in 1 .. n /\ w[j] = s[j]
      <4>1. i \in 1 .. n /\ w[i] = s[i]
        BY <1>1, <1>3, <1>4, <2>1, <3>1
      <4> QED
        BY <1>6, <2>1, <3>1, <4>1 DEF RequestsOnly, n
    <3>2. CASE j = n + 2 /\ w[j] = size(b)
      <4>1. w[i] = head(t)
        BY <1>1, <1>3, <1>4, <2>1, <3>2
      <4> QED
        BY <1>6, <3>2, <4>1, UnitFacts
    <3> QED
      BY <1>4, <2>1, <3>1, <3>2, UnitFacts
  <2> QED
    BY <2>1 DEF RequestsOnly
<1>7. ASSUME AnswersOwed(s, c, o), d = c => b \in o PROVE AnswersOwed(w, c, o)
  <2>1. ASSUME NEW i \in 1 .. Len(w), NEW j \in 1 .. Len(w), i + 1 = j, w[j] = correlate(c)
        PROVE  w[i].of \in o
    <3>1. CASE j \in 1 .. n /\ w[j] = s[j]
      <4>1. i \in 1 .. n /\ w[i] = s[i]
        BY <1>1, <1>3, <1>4, <2>1, <3>1
      <4> QED
        BY <1>7, <2>1, <3>1, <4>1 DEF AnswersOwed, n
    <3>2. CASE j = n + 3 /\ w[j] = correlate(d)
      <4>1. w[i] = size(b)
        BY <1>1, <1>3, <1>4, <2>1, <3>2
      <4>2. d = c
        BY <2>1, <3>2, UnitFacts
      <4> QED
        BY <1>7, <4>1, <4>2, UnitFacts
    <3>3. w[j].part = "corr"
      BY <2>1, UnitFacts
    <3> QED
      BY <1>4, <3>1, <3>2, <3>3, UnitFacts
  <2> QED
    BY <2>1 DEF AnswersOwed
<1> QED
  BY <1>5, <1>6, <1>7 DEF w

\* Numbers that were not used yet.
LEMMA FreshNumber ==
  ASSUME NEW s, NEW c \in Nat, WellFormed(s, c), NEW cmd, NEW b, NEW o
  PROVE  /\ WellFormed(s, c + 1)
         /\ SentWhole(s, c + 1, cmd, b) /\ AnswersOwed(s, c + 1, o)
<1>1. s \in Seq(Unit) /\ Len(s) \in Nat
  BY LenProperties DEF WellFormed
<1>2. \A i \in 1 .. Len(s) : s[i].part = "corr" => s[i].of \in Nat /\ s[i].of <= c
  BY <1>1, ElementOfSeq, UnitCases DEF WellFormed
<1>3. WellFormed(s, c + 1)
  BY <1>1, <1>2 DEF WellFormed
<1>4. \A i \in 1 .. Len(s) : s[i] # correlate(c + 1)
  BY <1>2, UnitFacts
<1> QED
  BY <1>1, <1>3, <1>4 DEF SentWhole, AnswersOwed

\* The frame of a new call.
LEMMA SendWhole ==
  ASSUME NEW s, NEW c \in Nat, WellFormed(s, c), NEW cmd \in Types, NEW b \in Bodies
  PROVE  SentWhole(s \o encode_frame(cmd, c + 1, b), c + 1, cmd, b)
<1> DEFINE x == c + 1
           f == encode_frame(cmd, x, b)
           w == s \o f
           n == Len(s)
<1>1. s \in Seq(Unit) /\ n \in Nat /\ x \in Nat
  BY LenProperties DEF WellFormed
<1> HIDE DEF x
<1>2. /\ f \in Seq(Unit)
      /\ Len(f) = IF b = nothing THEN 3 ELSE 4
      /\ f[1] = head(cmd) /\ f[2] = size(b) /\ f[3] = correlate(x)
      /\ b # nothing => f[4] = payload(b)
  BY <1>1, FrameFacts
<1> HIDE DEF f, n
<1>3. /\ w \in Seq(Unit) /\ Len(w) = n + Len(f)
      /\ \A i \in 1 .. n + Len(f) : w[i] = IF i <= n THEN s[i] ELSE f[i - n]
  <2>1. s \in Seq(Unit) /\ f \in Seq(Unit)
    BY <1>1, <1>2
  <2> QED
    BY <2>1, ConcatProperties DEF n
<1> HIDE DEF w
<1>4. ASSUME NEW i \in 1 .. Len(w)
      PROVE  /\ i = n + 1 => w[i] = head(cmd)
             /\ i = n + 2 => w[i] = size(b)
             /\ i = n + 3 => w[i] = correlate(x)
             /\ i = n + 4 => w[i] = payload(b)
             /\ w[i] = correlate(x) => i = n + 3
  <2>1. CASE i <= n
    <3>1. i \in 1 .. n /\ w[i] = s[i] /\ s[i] \in Unit
      BY <1>1, <1>3, <2>1, ElementOfSeq DEF n
    <3>2. s[i].part = "corr" => s[i].of \in Nat /\ s[i].of <= c
      BY <3>1, UnitCases DEF WellFormed, n
    <3>3. s[i] # correlate(x)
      BY <3>2, UnitFacts DEF x
    <3> QED
      BY <1>1, <2>1, <3>1, <3>3
  <2>2. CASE i > n
    <3> DEFINE m == i - n
    <3>0. Len(f) \in Nat
      BY <1>2
    <3>1. m \in 1 .. Len(f) /\ w[i] = f[m] /\ i = n + m
      BY <3>0, <1>1, <1>3, <2>2
    <3> HIDE DEF m
    <3>2. m = 1 \/ m = 2 \/ m = 3 \/ (m = 4 /\ b # nothing)
      BY <1>2, <3>1
    <3>3. f[m].part = "corr" => m = 3
      BY <1>2, <3>2, UnitFacts
    <3> QED
      BY <1>1, <1>2, <3>1, <3>2, <3>3, UnitFacts
  <2> QED
    BY <1>1, <1>3, <2>1, <2>2
<1>5. ASSUME NEW j \in 1 .. Len(w), w[j] = correlate(x)
      PROVE  /\ Len(w) = j + (IF b = nothing THEN 0 ELSE 1)
             /\ \A i \in 1 .. Len(w) : /\ i + 2 = j => w[i] = head(cmd)
                                       /\ i + 1 = j => w[i] = size(b)
                                       /\ j + 1 = i => w[i] = payload(b)
  <2>1. j = n + 3
    BY <1>4, <1>5
  <2> QED
    BY <1>1, <1>2, <1>3, <1>4, <2>1
<1> QED
  BY <1>5 DEF SentWhole, w, f, x

\* The header a reader takes from the front of a stream.
LEMMA HeaderFacts ==
  ASSUME NEW s, NEW c \in Nat, WellFormed(s, c), Len(s) >= HeaderUnits
  PROVE  LET h == decode_frame_header(keep(s, HeaderUnits)) IN
         /\ h.correlation \in Nat /\ h.correlation <= c
         /\ h.ok \in BOOLEAN
         /\ h.ok => h \in Header
         /\ h.ok => s[1].part = "head" /\ s[2].part = "size"
         /\ h.type = s[1].of /\ h.body = s[2].of
         /\ h.correlation >= 1 => h.ok /\ s[3] = correlate(h.correlation)
<1> DEFINE k == keep(s, HeaderUnits)
           h == decode_frame_header(k)
<1>1. s \in Seq(Unit) /\ Len(s) \in Nat /\ 3 \in 0 .. Len(s)
  BY LenProperties DEF WellFormed, HeaderUnits
<1>2. \A i \in 1 .. 3 : k[i] = s[i]
  BY <1>1, KeepFacts DEF HeaderUnits
<1>3. k[1] = s[1] /\ k[2] = s[2] /\ k[3] = s[3]
  BY <1>2
<1>4. s[1] \in Unit /\ s[2] \in Unit /\ s[3] \in Unit
  BY <1>1, ElementOfSeq
<1> HIDE DEF k
<1>5. h = [ok |-> s[1].part = "head" /\ s[2].part = "size", type |-> s[1].of, body |-> s[2].of,
           correlation |-> IF s[3].part = "corr" THEN s[3].of ELSE 0]
  BY <1>3 DEF decode_frame_header
<1> HIDE DEF h
<1>6. s[3].part = "corr" => /\ s[3].of \in Nat /\ s[3].of <= c /\ s[3] = correlate(s[3].of)
                           /\ s[2].part = "size" /\ s[1].part = "head"
  BY <1>1, <1>4, UnitCases DEF WellFormed
<1>7. h.ok => h.type \in Types /\ h.body \in Bodies
  BY <1>4, <1>5, UnitCases, Zenon
<1>8. h.correlation \in Nat /\ h.correlation <= c
  BY <1>5, <1>6
<1>9. h.ok => h \in Header
  BY <1>5, <1>7, <1>8, Zenon DEF Header
<1>10. /\ h.ok \in BOOLEAN
       /\ h.ok => s[1].part = "head" /\ s[2].part = "size"
       /\ h.type = s[1].of /\ h.body = s[2].of
  BY <1>5, Zenon
<1>11. h.correlation >= 1 => h.ok /\ s[3] = correlate(h.correlation)
  <2>1. CASE s[3].part = "corr"
    <3>1. h.correlation = s[3].of
      BY <1>5, <2>1
    <3>2. h.ok
      BY <1>5, <1>6, <2>1, Zenon
    <3> QED
      BY <1>6, <2>1, <3>1, <3>2
  <2>2. CASE s[3].part # "corr"
    <3>1. h.correlation = 0
      BY <1>5, <2>2
    <3> QED
      BY <3>1
  <2> QED
    BY <2>1, <2>2
<1>12. /\ h.correlation \in Nat /\ h.correlation <= c
       /\ h.ok \in BOOLEAN
       /\ h.ok => h \in Header
       /\ h.ok => s[1].part = "head" /\ s[2].part = "size"
       /\ h.type = s[1].of /\ h.body = s[2].of
       /\ h.correlation >= 1 => h.ok /\ s[3] = correlate(h.correlation)
  BY <1>8, <1>9, <1>10, <1>11
<1> QED
  BY <1>12, Zenon DEF h, k

\* A header with the number of a call, in the stream to the daemon.
LEMMA HeaderSent ==
  ASSUME NEW s, NEW c \in Nat \ {0}, WellFormed(s, c), Len(s) >= HeaderUnits,
         NEW cmd, NEW b, SentWhole(s, c, cmd, b),
         decode_frame_header(keep(s, HeaderUnits)).correlation = c
  PROVE  LET h == decode_frame_header(keep(s, HeaderUnits))
             d == drop(s, HeaderUnits)
         IN  /\ h.ok /\ h.type = cmd /\ h.body = b
             /\ Len(d) = (IF b = nothing THEN 0 ELSE 1)
             /\ b # nothing => d[1] = payload(b)
<1> DEFINE h == decode_frame_header(keep(s, HeaderUnits))
           d == drop(s, HeaderUnits)
<1>1. s \in Seq(Unit) /\ Len(s) \in Nat /\ Len(s) >= 3 /\ 3 \in 0 .. Len(s)
  BY LenProperties DEF WellFormed, HeaderUnits
<1>2. h.ok /\ h.type = s[1].of /\ h.body = s[2].of /\ s[3] = correlate(c)
  BY HeaderFacts
<1>3. /\ Len(d) = Len(s) - 3
      /\ \A i \in 1 .. Len(s) - 3 : d[i] = s[i + 3]
  BY <1>1, DropFacts DEF HeaderUnits
<1> HIDE DEF h, d
<1>4. /\ Len(s) = 3 + (IF b = nothing THEN 0 ELSE 1)
      /\ \A i \in 1 .. Len(s) : /\ i + 2 = 3 => s[i] = head(cmd)
                                /\ i + 1 = 3 => s[i] = size(b)
                                /\ 3 + 1 = i => s[i] = payload(b)
  <2>1. 3 \in 1 .. Len(s)
    BY <1>1
  <2> QED
    BY <1>2, <2>1, Zenon DEF SentWhole
<1>5. s[1] = head(cmd) /\ s[2] = size(b) /\ (b # nothing => s[4] = payload(b))
  BY <1>4
<1> QED
  BY <1>2, <1>3, <1>4, <1>5, UnitFacts DEF h, d

\* A header with the number of a call, in the stream to the caller.
LEMMA HeaderOwed ==
  ASSUME NEW s, NEW c \in Nat \ {0}, WellFormed(s, c), Len(s) >= HeaderUnits,
         NEW o, AnswersOwed(s, c, o),
         decode_frame_header(keep(s, HeaderUnits)).correlation = c
  PROVE  decode_frame_header(keep(s, HeaderUnits)).body \in o
<1> DEFINE h == decode_frame_header(keep(s, HeaderUnits))
<1>1. Len(s) \in Nat /\ Len(s) >= 3
  BY LenProperties DEF WellFormed, HeaderUnits
<1>2. h.body = s[2].of /\ s[3] = correlate(c)
  BY HeaderFacts
<1> HIDE DEF h
<1>3. 2 \in 1 .. Len(s) /\ 3 \in 1 .. Len(s) /\ 2 + 1 = 3
  BY <1>1
<1>4. s[2].of \in o
  BY <1>2, <1>3 DEF AnswersOwed
<1> QED
  BY <1>2, <1>4 DEF h

\* A header a worker can use is one of a request.
LEMMA HeaderRequested ==
  ASSUME NEW s, NEW c \in Nat, WellFormed(s, c), Len(s) >= HeaderUnits, RequestsOnly(s),
         decode_frame_header(keep(s, HeaderUnits)).ok
  PROVE  LET h == decode_frame_header(keep(s, HeaderUnits)) IN Requested(h.type, h.body)
<1> DEFINE h == decode_frame_header(keep(s, HeaderUnits))
<1>1. Len(s) \in Nat /\ Len(s) >= 3
  BY LenProperties DEF WellFormed, HeaderUnits
<1>2. h.type = s[1].of /\ h.body = s[2].of /\ s[1].part = "head" /\ s[2].part = "size"
  BY HeaderFacts
<1> HIDE DEF h
<1>3. 1 \in 1 .. Len(s) /\ 2 \in 1 .. Len(s) /\ 1 + 1 = 2
  BY <1>1
<1>4. Requested(s[1].of, s[2].of)
  BY <1>2, <1>3 DEF RequestsOnly
<1> QED
  BY <1>2, <1>4 DEF h

\* Requests and answers have the types of frames.
LEMMA RequestTypes ==
  /\ \A cmd \in Commands, r \in Requests :
       /\ cmd \in Types /\ ack(cmd) \in Types /\ body_of(cmd, r) \in Bodies
       /\ Requested(cmd, body_of(cmd, r))
  /\ error_type \in Types
  /\ \A t, b : Requested(t, b) => t \in Types /\ ack(t) \in Types /\ b \in Bodies
  /\ Answers \subseteq Bodies /\ failure \in Answers /\ nothing \notin Answers
<1>1. \A cmd \in Commands, r \in Requests :
       /\ cmd \in Types /\ ack(cmd) \in Types /\ body_of(cmd, r) \in Bodies
  BY DEF Types, Bodies, Asked, body_of
<1>2. nothing \notin Answers
  BY DEF nothing, Answers, Outcomes, granted, refused, unknown, failure, view
<1> QED
  BY <1>1, <1>2 DEF Requested, Types, Bodies, Answers

\* The shapes of a call.
LEMMA CallFacts ==
  ASSUME NEW x \in CallType
  PROVE  /\ x.at = "idle" <=> x = idle
         /\ x # idle => /\ x.at \in {"header", "body"}
                        /\ x.conn \in Conns /\ x.cmd \in Commands /\ x.r \in Requests
         /\ x.at = "body" => x.header \in Header
BY DEF CallType, idle

\* The shapes of a worker.
LEMMA WorkerFacts ==
  ASSUME NEW w \in WorkerType
  PROVE  /\ Serving(w) => w.header \in Header /\ w # gone /\ w # listening
         /\ w.at = "answer" => w.body \in Answers
         /\ w.at = "header" <=> w = listening
         /\ ~Serving(listening) /\ ~Serving(gone)
BY DEF WorkerType, Serving, gone, listening

-----------------------------------------------------------------------------
(* The invariant of the exchange, one lemma for each action.               *)

\* There are finitely many decided requests.
LEMMA DecidedFinite ==
  /\ IsFiniteSet(DecidedRequests) /\ Cardinality(DecidedRequests) \in Nat
  /\ Cardinality(DecidedRequests) <= Cardinality(Requests)
<1>1. IsFiniteSet(Requests) /\ DecidedRequests \subseteq Requests
  BY SessionAssumption DEF DecidedRequests
<1> QED
  BY <1>1, FS_Subset, FS_CardinalityType

\* The initial states.
LEMMA InitExchange == Init => IInv
<1> SUFFICES ASSUME Init PROVE IInv
  OBVIOUS
<1>1. TypeOK
  BY EmptySeq DEF Init, TypeOK, WorkerType, CallType
<1>2. Traffic
  <2>1. \A c : WellFormed(<<>>, c) /\ RequestsOnly(<<>>)
    BY EmptyStream
  <2> QED
    BY <2>1 DEF Init, Traffic, Carried, Serving, gone
<1>3. Exchanged
  BY DEF Init, Exchanged
<1>4. GrantsCounted
  BY DecidedFinite DEF Init, GrantsCounted
<1>5. AnswerBelongs
  BY DEF Init, AnswerBelongs, no_result
<1> QED
  BY <1>1, <1>2, <1>3, <1>4, <1>5 DEF IInv

\* A new connection carries nothing.
LEMMA ConnectExchange ==
  ASSUME IInv, NEW n \in Conns, Connect(n)
  PROVE  IInv'
<1> USE DEF IInv
<1>1. TypeOK'
  BY DEF Connect, TypeOK, WorkerType, caller, daemon, ghosts
<1>2. Traffic'
  <2>1. ~Serving(listening)
    BY DEF Serving, listening
  <2> QED
    BY <2>1 DEF Connect, Traffic, Carried, TypeOK, caller
<1>3. call' = idle
  BY DEF Connect, caller
<1> QED
  BY <1>1, <1>2, <1>3 DEF Connect, Exchanged, GrantsCounted, DecidedRequests, AnswerBelongs,
                          daemon, ghosts

\* The caller closes its end.
LEMMA CloseExchange ==
  ASSUME IInv, NEW n \in Conns, Close(n)
  PROVE  IInv'
<1> USE DEF IInv
<1>1. TypeOK'
  BY EmptySeq DEF Close, TypeOK, caller, daemon, ghosts
<1>2. Traffic'
  <2>1. \A c : WellFormed(<<>>, c)
    BY EmptyStream
  <2> QED
    BY <2>1 DEF Close, Traffic, Carried, TypeOK, caller
<1>3. call' = idle
  BY DEF Close, caller
<1> QED
  BY <1>1, <1>2, <1>3 DEF Close, Exchanged, GrantsCounted, DecidedRequests, AnswerBelongs,
                          daemon, ghosts

\* What a call, or a part of one, adds to the stream to the daemon.
LEMMA BeginCarried ==
  ASSUME TypeOK, Traffic, NEW n \in Conns, NEW cmd \in Commands, NEW r \in Requests,
         NEW f, Piece(f, cmd, last_correlation[n] + 1, body_of(cmd, r)),
         last_correlation' = [last_correlation EXCEPT ![n] = @ + 1],
         c2s' = [c2s EXCEPT ![n] = delivered(n, f)], UNCHANGED <<s2c, worker>>
  PROVE  Traffic' /\ c2s' \in [Conns -> Seq(Unit)] /\ last_correlation' \in [Conns -> Nat]
<1> DEFINE c == last_correlation[n]
           x == c + 1
           b == body_of(cmd, r)
<1>1. c \in Nat /\ x \in Nat /\ c <= x /\ x <= x /\ x = c + 1
  BY DEF TypeOK
<1>2. Carried(c2s[n], s2c[n], worker[n], c)
  BY DEF Traffic
<1>3. cmd \in Types /\ b \in Bodies /\ Requested(cmd, b)
  BY RequestTypes
<1>4. /\ last_correlation' \in [Conns -> Nat] /\ last_correlation'[n] = x
      /\ \A m \in Conns \ {n} : last_correlation'[m] = last_correlation[m]
  BY <1>1 DEF TypeOK
<1>5. Piece(f, cmd, x, b)
  OBVIOUS
<1>6. /\ c2s'[n] = delivered(n, f)
      /\ \A m \in Conns \ {n} : c2s'[m] = c2s[m]
      /\ c2s' = [c2s EXCEPT ![n] = delivered(n, f)]
  BY DEF TypeOK
<1>7. WellFormed(c2s[n], x) /\ WellFormed(s2c[n], x)
  BY <1>1, <1>2, FreshNumber DEF Carried
<1> HIDE DEF x, b
<1>8. WellFormed(c2s[n] \o f, x) /\ RequestsOnly(c2s[n] \o f)
  BY <1>1, <1>2, <1>3, <1>5, <1>7, WritePiece DEF Carried
<1>9. WellFormed(delivered(n, f), x) /\ RequestsOnly(delivered(n, f))
  BY <1>2, <1>7, <1>8 DEF delivered, Carried
<1>10. c2s' \in [Conns -> Seq(Unit)]
  BY <1>6, <1>9 DEF WellFormed, TypeOK
<1>11. Serving(worker[n]) => /\ worker[n].header.correlation <= x
                            /\ Requested(worker[n].header.type, worker[n].header.body)
  <2>1. Serving(worker[n]) => worker[n].header.correlation \in Nat
    BY WorkerFacts, Zenon DEF TypeOK, Header
  <2>2. Serving(worker[n]) => /\ worker[n].header.correlation <= c
                             /\ Requested(worker[n].header.type, worker[n].header.body)
    BY <1>2 DEF Carried
  <2>3. \A y \in Nat : y <= c => y <= x
    BY <1>1
  <2> QED
    BY <2>1, <2>2, <2>3
<1>12. Carried(c2s'[n], s2c'[n], worker'[n], last_correlation'[n])
  BY <1>4, <1>6, <1>7, <1>9, <1>11 DEF Carried
<1>13. \A m \in Conns \ {n} : Carried(c2s'[m], s2c'[m], worker'[m], last_correlation'[m])
  BY <1>4, <1>6 DEF Traffic
<1> QED
  BY <1>4, <1>10, <1>12, <1>13 DEF Traffic

\* A call sends its frame, under a number not used before.
LEMMA CallExchange ==
  ASSUME IInv, NEW n \in Conns, NEW cmd \in Commands, NEW r \in Requests, Call(n, cmd, r)
  PROVE  IInv'
<1> USE DEF IInv
<1> DEFINE c == last_correlation[n]
           x == c + 1
           b == body_of(cmd, r)
           f == encode_frame(cmd, x, b)
<1>1. c \in Nat /\ x \in Nat /\ x >= 1
  BY DEF TypeOK
<1>2. cmd \in Types /\ b \in Bodies /\ Requested(cmd, b)
  BY RequestTypes
<1>3. /\ last_correlation' = [last_correlation EXCEPT ![n] = @ + 1]
      /\ c2s' = [c2s EXCEPT ![n] = delivered(n, f)]
      /\ call' = reading(n, cmd, r)
      /\ owed' = {} /\ last' = no_result
      /\ UNCHANGED <<up, s2c, worker, core, grants, learned>>
  BY DEF Call, Begin, daemon
<1> HIDE DEF c, x, b
<1>4. Piece(f, cmd, x, b)
  BY <1>1, <1>2, WholeFrame
<1> HIDE DEF f
<1>5. Traffic' /\ c2s' \in [Conns -> Seq(Unit)] /\ last_correlation' \in [Conns -> Nat]
  BY <1>3, <1>4, BeginCarried, Zenon DEF x, b, c
<1>6. call' \in CallType
  BY <1>3 DEF reading, CallType
<1>7. TypeOK'
  BY <1>3, <1>5, <1>6 DEF TypeOK
<1>8. /\ call'.conn = n /\ call'.cmd = cmd /\ call'.r = r /\ call'.at = "header"
      /\ last_correlation'[n] = x /\ c2s'[n] = delivered(n, f)
      /\ s2c'[n] = s2c[n] /\ worker'[n] = worker[n]
  BY <1>3 DEF reading, TypeOK, x, c
<1>9. WellFormed(c2s[n], c) /\ WellFormed(s2c[n], c)
      /\ (Serving(worker[n]) => worker[n].header.correlation <= c)
  BY DEF Traffic, Carried, c
<1>10. SentWhole(c2s[n] \o f, x, cmd, b)
  BY <1>1, <1>2, <1>9, SendWhole DEF f, x
<1>11. SentWhole(c2s[n], x, cmd, b) /\ AnswersOwed(s2c[n], x, {})
  BY <1>1, <1>9, FreshNumber DEF x
<1>12. SentWhole(delivered(n, f), x, cmd, b)
  BY <1>10, <1>11 DEF delivered
<1>13. ServedWhole(c2s'[n], worker[n], x, cmd, b, {})
  <2>1. Serving(worker[n]) => worker[n].header.correlation \in Nat
    BY WorkerFacts, Zenon DEF TypeOK, Header
  <2>2. Serving(worker[n]) => worker[n].header.correlation # x
    BY <1>1, <1>9, <2>1 DEF x
  <2> QED
    BY <2>2 DEF ServedWhole
<1>14. Matched(c2s'[n], s2c'[n], worker'[n], last_correlation'[n], call', owed')
  BY <1>1, <1>3, <1>8, <1>11, <1>12, <1>13 DEF Matched, b
<1>15. Exchanged'
  BY <1>3, <1>8, <1>14 DEF Exchanged, OwedDecided
<1> QED
  BY <1>3, <1>5, <1>7, <1>15 DEF GrantsCounted, DecidedRequests, AnswerBelongs, no_result

\* A part of a frame is sent.
LEMMA SendFailsExchange ==
  ASSUME IInv, NEW n \in Conns, NEW cmd \in Commands, NEW r \in Requests, SendFails(n, cmd, r)
  PROVE  IInv'
<1> USE DEF IInv
<1> DEFINE x == last_correlation[n] + 1
           b == body_of(cmd, r)
           f == encode_frame(cmd, x, b)
<1>1. x \in Nat /\ cmd \in Types /\ b \in Bodies
  BY RequestTypes DEF TypeOK
<1>2. PICK k \in 0 .. Len(f) - 1 : c2s' = [c2s EXCEPT ![n] = delivered(n, keep(f, k))]
  BY Zenon DEF SendFails
<1>3. /\ last_correlation' = [last_correlation EXCEPT ![n] = @ + 1]
      /\ call' = idle /\ last'.how = "lost"
      /\ UNCHANGED <<up, s2c, worker, core, grants, learned>>
  BY DEF SendFails, Begin, daemon, fails
<1> HIDE DEF x, b
<1>4. Len(f) \in Nat
  BY <1>1, FrameFacts
<1>5. Piece(keep(f, k), cmd, x, b)
  BY <1>2, <1>4 DEF Piece
<1> HIDE DEF f
<1>6. Traffic' /\ c2s' \in [Conns -> Seq(Unit)] /\ last_correlation' \in [Conns -> Nat]
  BY <1>2, <1>3, <1>5, BeginCarried, Zenon DEF x, b
<1>7. TypeOK'
  BY <1>3, <1>6 DEF TypeOK, CallType
<1> QED
  BY <1>3, <1>6, <1>7 DEF Exchanged, GrantsCounted, DecidedRequests, AnswerBelongs

\* Reading k units from the stream to the caller.
LEMMA ReadCarried ==
  ASSUME TypeOK, Traffic, NEW n \in Conns, NEW k \in 0 .. Len(s2c[n]),
         s2c' = [s2c EXCEPT ![n] = drop(@, k)], UNCHANGED <<c2s, worker, last_correlation>>
  PROVE  /\ Traffic' /\ s2c' \in [Conns -> Seq(Unit)] /\ s2c'[n] = drop(s2c[n], k)
         /\ \A c, o : AnswersOwed(s2c[n], c, o) => AnswersOwed(s2c'[n], c, o)
<1>1. s2c[n] \in Seq(Unit)
  BY DEF TypeOK
<1>2. s2c'[n] = drop(s2c[n], k) /\ \A m \in Conns \ {n} : s2c'[m] = s2c[m]
  BY DEF TypeOK
<1>3. \A c : WellFormed(s2c[n], c) => WellFormed(drop(s2c[n], k), c)
  BY <1>1, DropStream, Zenon
<1>4. \A c, o : AnswersOwed(s2c[n], c, o) => AnswersOwed(drop(s2c[n], k), c, o)
  BY <1>1, DropStream, Zenon
<1>5. drop(s2c[n], k) \in Seq(Unit)
  BY <1>1, DropFacts
<1>6. \A m \in Conns : Carried(c2s'[m], s2c'[m], worker'[m], last_correlation'[m])
  BY <1>2, <1>3 DEF Traffic, Carried
<1> QED
  BY <1>2, <1>4, <1>5, <1>6 DEF Traffic, TypeOK

\* The caller takes a header, its own or not, from its stream.
LEMMA ReadHeaderExchange ==
  ASSUME IInv, ReadHeader
  PROVE  IInv'
<1> USE DEF IInv
<1> DEFINE n == call.conn
           s == s2c[n]
           c == last_correlation[n]
           h == decode_frame_header(keep(s, HeaderUnits))
<1>1. call # idle /\ n \in Conns /\ call.cmd \in Commands /\ call.r \in Requests
  BY CallFacts DEF ReadHeader, TypeOK, idle
<1>2. /\ Len(s) >= HeaderUnits
      /\ s2c' = [s2c EXCEPT ![n] = drop(@, HeaderUnits)]
      /\ UNCHANGED <<up, c2s, worker, last_correlation, core, grants, owed, learned>>
      /\ \/ /\ h.ok
            /\ call' = [at |-> "body", header |-> h, conn |-> n, cmd |-> call.cmd, r |-> call.r]
            /\ UNCHANGED last
         \/ call' = idle /\ last'.how = "foreign"
  BY DEF ReadHeader, daemon, fails
<1>3. c \in Nat /\ s \in Seq(Unit) /\ WellFormed(s, c)
  BY <1>1 DEF TypeOK, Traffic, Carried
<1>4. HeaderUnits \in 0 .. Len(s)
  BY <1>2, <1>3, LenProperties DEF HeaderUnits
<1>5. h.ok => h \in Header
  BY <1>2, <1>3, HeaderFacts
<1>6. Matched(c2s[n], s, worker[n], c, call, owed) /\ OwedDecided
  BY <1>1 DEF Exchanged
<1>7. c \in Nat \ {0}
  BY <1>3, <1>6 DEF Matched
<1>8. h.correlation = c => h.body \in owed
  BY <1>2, <1>3, <1>6, <1>7, HeaderOwed, Zenon DEF Matched
<1>9. /\ Traffic' /\ s2c' \in [Conns -> Seq(Unit)]
      /\ AnswersOwed(s, c, owed) => AnswersOwed(s2c'[n], c, owed)
  BY <1>1, <1>2, <1>4, ReadCarried, Zenon
<1> HIDE DEF h, s, c, n
<1>10. CASE h.ok /\ UNCHANGED last
            /\ call' = [at |-> "body", header |-> h, conn |-> n, cmd |-> call.cmd, r |-> call.r]
  <2>1. call' \in CallType
    BY <1>1, <1>5, <1>10 DEF CallType
  <2>2. TypeOK'
    BY <1>2, <1>9, <2>1 DEF TypeOK
  <2>3. /\ call'.conn = n /\ call'.cmd = call.cmd /\ call'.r = call.r
        /\ call'.at = "body" /\ call'.header = h
    BY <1>10
  <2>4. Matched(c2s'[n], s2c'[n], worker'[n], last_correlation'[n], call', owed')
    BY <1>2, <1>6, <1>8, <1>9, <2>3 DEF Matched, c
  <2>5. Exchanged'
    BY <1>2, <1>6, <2>3, <2>4 DEF Exchanged, OwedDecided
  <2> QED
    BY <1>2, <1>9, <1>10, <2>2, <2>5 DEF GrantsCounted, DecidedRequests, AnswerBelongs
<1>11. CASE call' = idle /\ last'.how = "foreign"
  <2>1. TypeOK'
    BY <1>2, <1>9, <1>11 DEF TypeOK, CallType
  <2> QED
    BY <1>2, <1>9, <1>11, <2>1 DEF Exchanged, GrantsCounted, DecidedRequests, AnswerBelongs
<1> QED
  BY <1>2, <1>10, <1>11

\* The caller takes a body, and the answer only when it belongs.
LEMMA ReadBodyExchange ==
  ASSUME IInv, ReadBody
  PROVE  IInv'
<1> USE DEF IInv
<1> DEFINE n == call.conn
           s == s2c[n]
           h == call.header
           c == last_correlation[n]
<1>1. call # idle /\ n \in Conns /\ call.r \in Requests /\ call.at = "body"
  BY CallFacts DEF ReadBody, TypeOK, idle
<1>2. /\ Len(s) >= length(h)
      /\ s2c' = [s2c EXCEPT ![n] = drop(@, length(h))]
      /\ call' = idle
      /\ UNCHANGED <<up, c2s, worker, last_correlation, core, grants, owed>>
      /\ \/ h.correlation = c /\ last'.answer = h.body /\ learn(call.r, h.body)
         \/ last'.how = "foreign" /\ UNCHANGED learned
  BY DEF ReadBody, daemon, fails, belongs
<1>3. length(h) \in 0 .. Len(s)
  BY <1>1, <1>2, LenProperties DEF length, TypeOK
<1>4. Traffic' /\ s2c' \in [Conns -> Seq(Unit)]
  BY <1>1, <1>2, <1>3, ReadCarried, Zenon
<1>5. learned' \in [Requests -> SUBSET Outcomes]
  <2>1. CASE h.body \in Outcomes /\ learned' = [learned EXCEPT ![call.r] = @ \union {h.body}]
    <3>1. learned[call.r] \union {h.body} \in SUBSET Outcomes
      BY <1>1, <2>1 DEF TypeOK
    <3> QED
      BY <2>1, <3>1, Zenon DEF TypeOK
  <2>2. CASE learned' = learned
    BY <2>2 DEF TypeOK
  <2> QED
    BY <1>2, <2>1, <2>2 DEF learn
<1>6. TypeOK'
  BY <1>2, <1>4, <1>5 DEF TypeOK, CallType
<1>7. h.correlation = c => h.body \in owed
  BY <1>1 DEF Exchanged, Matched
<1>8. AnswerBelongs'
  BY <1>2, <1>7 DEF AnswerBelongs
<1> QED
  BY <1>2, <1>4, <1>6, <1>8 DEF Exchanged, GrantsCounted, DecidedRequests

\* The caller gives up in the middle of a frame.
LEMMA ReadFailsExchange ==
  ASSUME IInv, ReadFails
  PROVE  IInv'
<1> USE DEF IInv
<1> DEFINE n == call.conn
<1>1. n \in Conns
  BY CallFacts DEF ReadFails, TypeOK, idle
<1>2. /\ call' = idle /\ last'.how = "lost"
      /\ UNCHANGED <<up, c2s, worker, last_correlation, core, grants, owed, learned>>
  BY DEF ReadFails, daemon, fails
<1>3. PICK k \in 0 .. wanted - 1 : k <= Len(s2c[n]) /\ s2c' = [s2c EXCEPT ![n] = drop(@, k)]
  BY Zenon DEF ReadFails
<1>4. k \in 0 .. Len(s2c[n])
  <2>1. wanted \in Nat
    BY DEF wanted, HeaderUnits, length
  <2>2. Len(s2c[n]) \in Nat
    BY <1>1, LenProperties DEF TypeOK
  <2> QED
    BY <1>3, <2>1, <2>2
<1>5. Traffic' /\ s2c' \in [Conns -> Seq(Unit)]
  BY <1>1, <1>2, <1>3, <1>4, ReadCarried, Zenon
<1>6. TypeOK'
  BY <1>2, <1>5 DEF TypeOK, CallType
<1> QED
  BY <1>2, <1>5, <1>6 DEF Exchanged, GrantsCounted, DecidedRequests, AnswerBelongs

\* A worker leaves, out being the bytes to the caller before it does.
LEMMA LeaveExchange ==
  ASSUME IInv, NEW n \in Conns, NEW out, NEW unread, leave(n, out, unread),
         WellFormed(out, last_correlation[n]),
         call # idle /\ call.conn = n => AnswersOwed(out, last_correlation[n], owed),
         UNCHANGED <<up, caller, core, grants, ghosts>>
  PROVE  IInv'
<1> USE DEF IInv
<1> DEFINE c == last_correlation[n]
<1>1. PICK rest \in {out, <<>>} : s2c' = [s2c EXCEPT ![n] = rest]
  BY Zenon DEF leave, received
<1>2. /\ worker' = [worker EXCEPT ![n] = gone] /\ c2s' = [c2s EXCEPT ![n] = <<>>]
      /\ UNCHANGED <<up, call, last_correlation, core, grants, owed, last, learned>>
  BY DEF leave, caller, ghosts
<1>3. \A x : /\ WellFormed(<<>>, x) /\ RequestsOnly(<<>>)
             /\ \A cmd, b, o : SentWhole(<<>>, x, cmd, b) /\ AnswersOwed(<<>>, x, o)
  BY EmptyStream
<1>4. /\ WellFormed(rest, c)
      /\ call # idle /\ call.conn = n => AnswersOwed(rest, c, owed)
  BY <1>1, <1>3
<1>5. /\ s2c'[n] = rest /\ c2s'[n] = <<>> /\ worker'[n] = gone
      /\ \A m \in Conns \ {n} : s2c'[m] = s2c[m] /\ c2s'[m] = c2s[m] /\ worker'[m] = worker[m]
  BY <1>1, <1>2 DEF TypeOK
<1>6. ~Serving(gone)
  BY DEF Serving, gone
<1>7. TypeOK'
  <2>1. rest \in Seq(Unit) /\ <<>> \in Seq(Unit) /\ gone \in WorkerType
    BY <1>4, EmptySeq DEF WellFormed, WorkerType
  <2> QED
    BY <1>1, <1>2, <2>1 DEF TypeOK
<1>8. Traffic'
  <2>1. Carried(c2s'[n], s2c'[n], worker'[n], last_correlation'[n])
    BY <1>2, <1>3, <1>4, <1>5, <1>6, Zenon DEF Carried
  <2>2. \A m \in Conns \ {n} : Carried(c2s'[m], s2c'[m], worker'[m], last_correlation'[m])
    BY <1>2, <1>5 DEF Traffic
  <2> QED
    BY <2>1, <2>2 DEF Traffic
<1>9. Exchanged'
  <2> SUFFICES ASSUME call # idle
               PROVE  /\ Matched(c2s'[call.conn], s2c'[call.conn], worker'[call.conn],
                                 last_correlation[call.conn], call, owed)
                      /\ OwedDecided
    BY <1>2, Zenon DEF Exchanged, OwedDecided
  <2>1. call.conn \in Conns
    BY CallFacts DEF TypeOK
  <2>2. /\ Matched(c2s[call.conn], s2c[call.conn], worker[call.conn],
                   last_correlation[call.conn], call, owed)
        /\ OwedDecided
    BY DEF Exchanged
  <2>3. CASE call.conn = n
    BY <1>3, <1>4, <1>5, <1>6, <2>2, <2>3, Zenon DEF Matched, ServedWhole
  <2>4. CASE call.conn # n
    BY <1>5, <2>1, <2>2, <2>4, Zenon
  <2> QED
    BY <2>2, <2>3, <2>4
<1> QED
  BY <1>2, <1>7, <1>8, <1>9 DEF GrantsCounted, DecidedRequests, AnswerBelongs

\* A worker that waited in vain leaves.
LEMMA WorkerLeavesExchange ==
  ASSUME IInv, NEW n \in Conns, WorkerLeaves(n)
  PROVE  IInv'
<1>1. WellFormed(s2c[n], last_correlation[n])
  BY DEF IInv, Traffic, Carried
<1>2. call # idle /\ call.conn = n => AnswersOwed(s2c[n], last_correlation[n], owed)
  BY DEF IInv, Exchanged, Matched
<1>3. leave(n, s2c[n], <<>>) /\ UNCHANGED <<up, caller, core, grants, ghosts>>
  BY DEF WorkerLeaves, daemon
<1> QED
  BY <1>1, <1>2, <1>3, LeaveExchange

\* A piece of a frame the worker of n writes.
LEMMA WriteExchange ==
  ASSUME IInv, NEW n \in Conns, NEW t \in Types, NEW d \in Nat, d <= last_correlation[n],
         NEW b \in Bodies, NEW f, Piece(f, t, d, b),
         call # idle /\ call.conn = n /\ d = last_correlation[n] => b \in owed
  PROVE  /\ WellFormed(s2c[n] \o f, last_correlation[n])
         /\ call # idle /\ call.conn = n
            => AnswersOwed(s2c[n] \o f, last_correlation[n], owed)
<1>1. last_correlation[n] \in Nat /\ WellFormed(s2c[n], last_correlation[n])
  BY DEF IInv, TypeOK, Traffic, Carried
<1>2. call # idle /\ call.conn = n => AnswersOwed(s2c[n], last_correlation[n], owed)
  BY DEF IInv, Exchanged, Matched
<1>3. WellFormed(s2c[n] \o f, last_correlation[n])
  BY <1>1, WritePiece
<1>4. ASSUME call # idle /\ call.conn = n
      PROVE  AnswersOwed(s2c[n] \o f, last_correlation[n], owed)
  BY <1>1, <1>2, <1>4, WritePiece
<1> QED
  BY <1>3, <1>4

\* A worker takes a header: one with the number of the call is that of the
\* call, and an error that answers another has another number.
LEMMA WorkerHeaderExchange ==
  ASSUME IInv, NEW n \in Conns, WorkerHeader(n)
  PROVE  IInv'
<1> USE DEF IInv
<1> DEFINE s == c2s[n]
           c == last_correlation[n]
           h == decode_frame_header(keep(s, HeaderUnits))
<1>1. Len(s) >= HeaderUnits /\ UNCHANGED <<up, caller, daemon, ghosts>>
  BY DEF WorkerHeader
<1>2. c \in Nat /\ WellFormed(s, c) /\ RequestsOnly(s) /\ WellFormed(s2c[n], c)
  BY DEF TypeOK, Traffic, Carried
<1>3. /\ h.correlation \in Nat /\ h.correlation <= c
      /\ h.ok => h \in Header
      /\ h.correlation >= 1 => h.ok
  BY <1>1, <1>2, HeaderFacts
<1>4. h.ok => Requested(h.type, h.body)
  BY <1>1, <1>2, HeaderRequested
<1>5. ASSUME call # idle, call.conn = n
      PROVE  c >= 1 /\ SentWhole(s, c, call.cmd, body_of(call.cmd, call.r))
  BY <1>5 DEF Exchanged, Matched
<1>6. CASE ~h.ok /\ leave(n, s2c[n] \o send_error(h.correlation), drop(c2s[n], HeaderUnits))
  <2>1. error_type \in Types /\ failure \in Bodies
    BY RequestTypes
  <2>2. Piece(send_error(h.correlation), error_type, h.correlation, failure)
    BY <1>3, <2>1, WholeFrame DEF send_error
  <2>3. call # idle /\ call.conn = n /\ h.correlation = c => failure \in owed
    BY <1>3, <1>5, <1>6
  <2> DEFINE out == s2c[n] \o send_error(h.correlation)
  <2>4. /\ WellFormed(out, c)
        /\ call # idle /\ call.conn = n => AnswersOwed(out, c, owed)
    BY <1>3, <2>1, <2>2, <2>3, WriteExchange, Zenon
  <2>5. leave(n, out, drop(c2s[n], HeaderUnits)) /\ UNCHANGED <<up, caller, core, grants, ghosts>>
    BY <1>1, <1>6 DEF daemon
  <2> HIDE DEF out
  <2> QED
    BY <2>4, <2>5, LeaveExchange, Zenon
<1>7. CASE /\ h.ok
           /\ worker' = [worker EXCEPT ![n] = [at |-> "body", header |-> h]]
           /\ c2s' = [c2s EXCEPT ![n] = drop(@, HeaderUnits)]
           /\ UNCHANGED s2c
  <2> DEFINE d == drop(s, HeaderUnits)
             w == [at |-> "body", header |-> h]
  <2>1. HeaderUnits \in 0 .. Len(s) /\ s \in Seq(Unit)
    BY <1>1, <1>2, LenProperties DEF HeaderUnits, WellFormed
  <2>2. WellFormed(d, c) /\ RequestsOnly(d)
    BY <1>2, <2>1, DropStream, Zenon
  <2>3. \A cmd, b : SentWhole(s, c, cmd, b) => SentWhole(d, c, cmd, b)
    BY <2>1, DropStream, Zenon
  <2>4. ASSUME call # idle, call.conn = n, h.correlation = c
        PROVE  LET b == body_of(call.cmd, call.r) IN
               /\ h.type = call.cmd /\ h.body = b
               /\ Len(d) = (IF b = nothing THEN 0 ELSE 1)
               /\ b # nothing => d[1] = payload(b)
    <3>1. c \in Nat \ {0}
      <4>1. c \in Nat /\ c >= 1
        BY <1>2, <1>5, <2>4, Zenon
      <4> HIDE DEF c
      <4> QED
        BY <4>1
    <3>2. SentWhole(s, c, call.cmd, body_of(call.cmd, call.r))
      BY <1>5, <2>4
    <3>3. Len(s) >= HeaderUnits /\ WellFormed(s, c) /\ h.correlation = c
      BY <1>1, <1>2, <2>4
    <3> DEFINE b == body_of(call.cmd, call.r)
    <3> HIDE DEF s, c, b
    <3>4. /\ h.type = call.cmd /\ h.body = b
          /\ Len(d) = (IF b = nothing THEN 0 ELSE 1)
          /\ b # nothing => d[1] = payload(b)
      BY <3>1, <3>2, <3>3, HeaderSent DEF b
    <3> QED
      BY <3>4 DEF b
  <2> HIDE DEF h, d, c, s
  <2>5. /\ c2s'[n] = d /\ worker'[n] = w /\ s2c' = s2c
        /\ \A m \in Conns \ {n} : c2s'[m] = c2s[m] /\ worker'[m] = worker[m]
    BY <1>7 DEF TypeOK, d, s
  <2>6. UNCHANGED <<up, call, last_correlation, core, grants, owed, last, learned>>
    BY <1>1 DEF caller, daemon, ghosts
  <2>7. w \in WorkerType /\ w.header = h /\ w.at = "body"
    BY <1>3, <1>7 DEF WorkerType
  <2> HIDE DEF w
  <2>8. TypeOK'
    <3>1. d \in Seq(Unit) /\ c2s' = [c2s EXCEPT ![n] = d]
      BY <1>7, <2>2 DEF WellFormed, d, s
    <3>2. c2s' \in [Conns -> Seq(Unit)]
      BY <3>1 DEF TypeOK
    <3>3. worker' \in [Conns -> WorkerType]
      BY <1>7, <2>7 DEF TypeOK, w
    <3> QED
      BY <2>5, <2>6, <3>2, <3>3 DEF TypeOK
  <2>9. Traffic'
    <3>1. Carried(c2s'[n], s2c'[n], worker'[n], last_correlation'[n])
      BY <1>2, <1>3, <1>4, <1>7, <2>2, <2>5, <2>6, <2>7, Zenon DEF Carried, c
    <3>2. \A m \in Conns \ {n} : Carried(c2s'[m], s2c'[m], worker'[m], last_correlation'[m])
      BY <2>5, <2>6, Zenon DEF Traffic
    <3> QED
      BY <3>1, <3>2 DEF Traffic
  <2>10. Exchanged'
    <3> SUFFICES ASSUME call # idle
                 PROVE  /\ Matched(c2s'[call.conn], s2c'[call.conn], worker'[call.conn],
                                   last_correlation[call.conn], call, owed)
                        /\ OwedDecided
      BY <2>6 DEF Exchanged, OwedDecided
    <3>1. call.conn \in Conns
      BY CallFacts DEF TypeOK
    <3>2. /\ Matched(c2s[call.conn], s2c[call.conn], worker[call.conn],
                     last_correlation[call.conn], call, owed)
          /\ OwedDecided
      BY DEF Exchanged
    <3>3. CASE call.conn = n
      <4>1. ServedWhole(d, w, c, call.cmd, body_of(call.cmd, call.r), owed)
        BY <2>4, <2>7, <3>3 DEF ServedWhole
      <4>2. SentWhole(d, c, call.cmd, body_of(call.cmd, call.r))
        BY <1>5, <2>3, <3>3
      <4> QED
        BY <2>5, <3>2, <3>3, <4>1, <4>2, Zenon DEF Matched, c
    <3>4. CASE call.conn # n
      BY <2>5, <3>1, <3>2, <3>4
    <3> QED
      BY <3>2, <3>3, <3>4
  <2> QED
    BY <2>6, <2>8, <2>9, <2>10 DEF GrantsCounted, DecidedRequests, AnswerBelongs
<1> QED
  BY <1>6, <1>7 DEF WorkerHeader

\* Which answers are outcomes.
LEMMA AnswerKinds ==
  /\ nothing \notin Outcomes /\ failure \notin Outcomes
  /\ unknown \notin Outcomes /\ view \notin Outcomes
BY DEF nothing, Outcomes, granted, refused, unknown, failure, view

\* Running a command: a decided request stays decided, there is a number left
\* for the grant of an undecided one, and the outcome answered is the decision.
LEMMA CommandFacts ==
  ASSUME TypeOK, GrantsCounted, NEW t, NEW b, Requested(t, b),
         IF t = "acquire" THEN acquire(b[2]) ELSE UNCHANGED <<core, grants>>
  PROVE  /\ core' \in [Requests -> Outcomes \union {nothing}]
         /\ GrantsCounted'
         /\ \A q \in Requests : core[q] # nothing => core'[q] = core[q]
         /\ result(t, b[2]) \in Answers
         /\ \A q \in Requests : b = body_of(t, q) /\ result(t, b[2]) \in Outcomes
                                  => result(t, b[2]) = core'[q]
<1> DEFINE r == b[2]
<1>1. t \in {"acquire", "lookup", "query_state"}
  BY DEF Requested, Commands
<1>2. \A q \in Requests : t # "query_state" /\ b = body_of(t, q) => r = q
  BY DEF body_of
<1>3. t # "query_state" => r \in Requests
  BY <1>2 DEF Requested
<1>4. CASE core' = core /\ grants' = grants
  <2>1. GrantsCounted'
    BY <1>4 DEF GrantsCounted, DecidedRequests
  <2>2. core' \in [Requests -> Outcomes \union {nothing}]
    BY <1>4 DEF TypeOK
  <2>3. t # "query_state" => core[r] \in Outcomes \union {nothing}
    BY <1>3 DEF TypeOK
  <2> HIDE DEF r
  <2>4. /\ t = "acquire" => result(t, r) = IF core[r] = nothing THEN failure ELSE core[r]
        /\ t = "lookup" => result(t, r) = IF core[r] = nothing THEN unknown ELSE core[r]
        /\ t = "query_state" => result(t, r) = view
    BY <1>1, <1>4 DEF result
  <2>5. result(t, r) \in Answers
    BY <1>1, <2>3, <2>4 DEF Answers
  <2>6. result(t, r) \in Outcomes => t # "query_state" /\ result(t, r) = core[r]
    BY <1>1, <2>4, AnswerKinds
  <2> QED
    BY <1>2, <1>4, <2>1, <2>2, <2>5, <2>6 DEF r
<1>5. CASE /\ t = "acquire" /\ core[r] = nothing
           /\ \/ grants' = grants + 1 /\ core' = [core EXCEPT ![r] = granted(grants + 1)]
              \/ grants' = grants /\ core' = [core EXCEPT ![r] = refused]
  <2> DEFINE D == DecidedRequests
             a == core'[r]
  <2>1. r \in Requests /\ r \notin D /\ D \union {r} \subseteq Requests
    BY <1>3, <1>5 DEF DecidedRequests
  <2>2. IsFiniteSet(D) /\ Cardinality(D) \in Nat
    BY DecidedFinite
  <2>3. IsFiniteSet(Requests)
    BY SessionAssumption
  <2> HIDE DEF D
  <2>4. Cardinality(D \union {r}) = Cardinality(D) + 1
    BY <2>1, <2>2, FS_AddElement
  <2>5. Cardinality(D) + 1 <= Cardinality(Requests) /\ Cardinality(Requests) \in Nat
    BY <2>1, <2>3, <2>4, FS_Subset, FS_CardinalityType
  <2>6. grants \in Nat /\ grants <= Cardinality(D)
    BY DEF GrantsCounted, D
  <2>7. grants + 1 \in 1 .. Cardinality(Requests)
    BY <2>2, <2>5, <2>6
  <2>8. granted(grants + 1) \in Outcomes /\ refused \in Outcomes
    BY <2>7 DEF Outcomes
  <2>9. /\ a \in Outcomes /\ core' = [core EXCEPT ![r] = a]
    BY <1>5, <2>1, <2>8 DEF TypeOK
  <2> HIDE DEF a, r
  <2>10. /\ core' \in [Requests -> Outcomes \union {nothing}] /\ core'[r] = a
         /\ \A q \in Requests \ {r} : core'[q] = core[q]
    BY <2>1, <2>9 DEF TypeOK
  <2>11. DecidedRequests' = D \union {r}
    BY <2>1, <2>9, <2>10, AnswerKinds DEF DecidedRequests, D
  <2>12. GrantsCounted'
    <3>1. grants' \in Nat /\ grants' <= Cardinality(D) + 1
      BY <1>5, <2>2, <2>6
    <3> QED
      BY <2>4, <2>11, <3>1 DEF GrantsCounted
  <2>13. result(t, r) = a
    BY <1>5, <2>9, <2>10, AnswerKinds DEF result
  <2> QED
    BY <1>2, <1>5, <2>9, <2>10, <2>12, <2>13 DEF Answers, r
<1> QED
  BY <1>1, <1>4, <1>5 DEF acquire

\* A worker runs a command, or finds that the body is not the one announced,
\* which cannot happen to the frame of the call.
LEMMA WorkerBodyExchange ==
  ASSUME IInv, NEW n \in Conns, WorkerBody(n)
  PROVE  IInv'
<1> USE DEF IInv
<1> DEFINE s == c2s[n]
           c == last_correlation[n]
           h == worker[n].header
           mine == call # idle /\ call.conn = n
           b == body_of(call.cmd, call.r)
<1>1. /\ worker[n].at = "body" /\ Len(s) >= length(h)
      /\ UNCHANGED <<up, caller, restarts, last, learned, absent, spoiled>>
  BY DEF WorkerBody
<1>2. Serving(worker[n]) /\ h \in Header
  BY <1>1, WorkerFacts DEF TypeOK, Serving
<1>3. /\ c \in Nat /\ h.correlation \in Nat /\ h.correlation <= c
      /\ Requested(h.type, h.body)
      /\ WellFormed(s, c) /\ RequestsOnly(s) /\ WellFormed(s2c[n], c)
  BY <1>2, Zenon DEF TypeOK, Traffic, Carried, Header
<1>4. ASSUME mine, h.correlation = c
      PROVE  /\ h.type = call.cmd /\ h.body = b
             /\ Len(s) = (IF b = nothing THEN 0 ELSE 1)
             /\ b # nothing => s[1] = payload(b)
  BY <1>1, <1>2, <1>4, Zenon DEF Exchanged, Matched, ServedWhole
<1>5. CASE /\ ~crc_matches(h, s)
           /\ leave(n, s2c[n] \o send_error(h.correlation), drop(c2s[n], length(h)))
           /\ UNCHANGED <<core, grants, owed>>
  <2>1. error_type \in Types /\ failure \in Bodies
    BY RequestTypes
  <2>2. Piece(send_error(h.correlation), error_type, h.correlation, failure)
    BY <1>3, <2>1, WholeFrame DEF send_error
  <2>3. ~(mine /\ h.correlation = c)
    <3> SUFFICES ASSUME mine, h.correlation = c PROVE crc_matches(h, s)
      BY <1>5
    <3>1. h.body = b /\ (b # nothing => s[1] = payload(b))
      BY <1>4, Zenon
    <3>2. payload(b).part = "body" /\ payload(b).of = b
      BY UnitFacts, Zenon
    <3> HIDE DEF s, h, b
    <3> QED
      BY <3>1, <3>2 DEF crc_matches, length
  <2> DEFINE out == s2c[n] \o send_error(h.correlation)
  <2>4. /\ WellFormed(out, c)
        /\ call # idle /\ call.conn = n => AnswersOwed(out, c, owed)
    BY <1>3, <2>1, <2>2, <2>3, WriteExchange, Zenon
  <2>5. leave(n, out, drop(c2s[n], length(h))) /\ UNCHANGED <<up, caller, core, grants, ghosts>>
    BY <1>1, <1>5 DEF ghosts
  <2> HIDE DEF out
  <2> QED
    BY <2>4, <2>5, LeaveExchange, Zenon
<1>6. CASE /\ IF h.type = "acquire" THEN acquire(h.body[2]) ELSE UNCHANGED <<core, grants>>
           /\ worker' = [worker EXCEPT ![n] =
                            [at |-> "answer", header |-> h, body |-> result(h.type, h.body[2])]]
           /\ c2s' = [c2s EXCEPT ![n] = drop(@, length(h))]
           /\ owed' = IF h.correlation = last_correlation[n] /\ call # idle /\ call.conn = n
                      THEN owed \union {result(h.type, h.body[2])} ELSE owed
           /\ UNCHANGED s2c
  <2> DEFINE d == drop(s, length(h))
             a == result(h.type, h.body[2])
             w == [at |-> "answer", header |-> h, body |-> a]
  <2>1. length(h) \in 0 .. Len(s) /\ s \in Seq(Unit)
    <3>1. s \in Seq(Unit)
      BY <1>3 DEF WellFormed
    <3>2. Len(s) \in Nat /\ length(h) \in {0, 1}
      BY <3>1, LenProperties DEF length
    <3> QED
      BY <1>1, <3>1, <3>2
  <2>2. WellFormed(d, c) /\ RequestsOnly(d)
    BY <1>3, <2>1, DropStream, Zenon
  <2>3. \A cmd, body : SentWhole(s, c, cmd, body) => SentWhole(d, c, cmd, body)
    BY <2>1, DropStream, Zenon
  <2>4. /\ core' \in [Requests -> Outcomes \union {nothing}]
        /\ GrantsCounted'
        /\ \A q \in Requests : core[q] # nothing => core'[q] = core[q]
        /\ a \in Answers
        /\ \A q \in Requests : h.body = body_of(h.type, q) /\ a \in Outcomes => a = core'[q]
    <3> DEFINE t == h.type
               body == h.body
    <3>1. TypeOK /\ GrantsCounted /\ Requested(t, body)
      BY <1>3
    <3>2. IF t = "acquire" THEN acquire(body[2]) ELSE UNCHANGED <<core, grants>>
      BY <1>6
    <3>3. a = result(t, body[2])
      OBVIOUS
    <3> HIDE DEF a, t, body
    <3>4. /\ core' \in [Requests -> Outcomes \union {nothing}]
          /\ GrantsCounted'
          /\ \A q \in Requests : core[q] # nothing => core'[q] = core[q]
          /\ a \in Answers
          /\ \A q \in Requests : body = body_of(t, q) /\ a \in Outcomes => a = core'[q]
      BY <3>1, <3>2, <3>3, CommandFacts
    <3> QED
      BY <3>4 DEF t, body
  <2>5. /\ worker' = [worker EXCEPT ![n] = w] /\ c2s' = [c2s EXCEPT ![n] = d]
        /\ owed' = IF h.correlation = c /\ mine THEN owed \union {a} ELSE owed
        /\ s2c' = s2c
    BY <1>6
  <2> HIDE DEF a, d, h
  <2>6. w \in WorkerType /\ w.header = h /\ w.at = "answer" /\ w.body = a
    BY <1>2, <2>4 DEF WorkerType
  <2> HIDE DEF w
  <2>7. /\ c2s'[n] = d /\ worker'[n] = w
        /\ \A m \in Conns \ {n} : c2s'[m] = c2s[m] /\ worker'[m] = worker[m]
    BY <2>5 DEF TypeOK
  <2>8. UNCHANGED <<up, call, last_correlation, last, learned>>
    BY <1>1 DEF caller
  <2>9. TypeOK'
    <3>1. d \in Seq(Unit)
      BY <2>2 DEF WellFormed
    <3>2. c2s' \in [Conns -> Seq(Unit)] /\ worker' \in [Conns -> WorkerType]
      BY <2>5, <2>6, <3>1, Zenon DEF TypeOK
    <3> QED
      BY <2>4, <2>5, <2>8, <3>2 DEF TypeOK
  <2>10. Traffic'
    <3>1. Carried(c2s'[n], s2c'[n], worker'[n], last_correlation'[n])
      BY <1>3, <2>2, <2>5, <2>6, <2>7, <2>8, Zenon DEF Carried
    <3>2. \A m \in Conns \ {n} : Carried(c2s'[m], s2c'[m], worker'[m], last_correlation'[m])
      BY <2>5, <2>7, <2>8 DEF Traffic
    <3> QED
      BY <3>1, <3>2 DEF Traffic
  <2>11. Exchanged'
    <3> SUFFICES ASSUME call # idle
                 PROVE  /\ Matched(c2s'[call.conn], s2c'[call.conn], worker'[call.conn],
                                   last_correlation[call.conn], call, owed')
                        /\ \A x \in owed' : x \in Outcomes => x = core'[call.r]
      BY <2>8, Zenon DEF Exchanged, OwedDecided
    <3>1. call.conn \in Conns /\ call.r \in Requests
      BY CallFacts DEF TypeOK
    <3>2. /\ Matched(c2s[call.conn], s2c[call.conn], worker[call.conn],
                     last_correlation[call.conn], call, owed)
          /\ OwedDecided
      BY DEF Exchanged
    <3>3. owed \subseteq owed'
      BY <2>5, Zenon
    <3>4. ASSUME NEW x \in owed', x \in Outcomes PROVE x = core'[call.r]
      <4>1. CASE x \in owed
        <5>1. x = core[call.r] /\ x # nothing
          BY <3>2, <3>4, <4>1, AnswerKinds DEF OwedDecided
        <5> QED
          BY <2>4, <3>1, <5>1
      <4>2. CASE x = a /\ h.correlation = c /\ mine
        <5>1. h.body = body_of(h.type, call.r)
          BY <1>4, <4>2
        <5> QED
          BY <2>4, <3>1, <3>4, <4>2, <5>1
      <4> QED
        BY <2>5, <3>4, <4>1, <4>2
    <3>5. CASE call.conn = n
      <4>1. ServedWhole(d, w, c, call.cmd, b, owed')
        <5> SUFFICES ASSUME h.correlation = c
                     PROVE  h.type = call.cmd /\ h.body = b /\ a \in owed'
          BY <2>6 DEF ServedWhole
        <5> QED
          BY <1>4, <2>5, <3>5
      <4>2. SentWhole(d, c, call.cmd, b)
        BY <2>3, <3>2, <3>5, Zenon DEF Matched
      <4>3. AnswersOwed(s2c[n], c, owed')
        BY <3>2, <3>3, <3>5, Zenon DEF Matched, AnswersOwed
      <4>4. /\ c >= 1
            /\ call.at = "body" /\ call.header.correlation = c => call.header.body \in owed'
        BY <3>2, <3>3, <3>5 DEF Matched
      <4>5. Matched(d, s2c[n], w, c, call, owed')
        BY <4>1, <4>2, <4>3, <4>4, Zenon DEF Matched
      <4> QED
        BY <2>5, <2>7, <3>4, <3>5, <4>5
    <3>6. CASE call.conn # n
      <4>1. /\ owed' = owed /\ c2s'[call.conn] = c2s[call.conn]
            /\ s2c'[call.conn] = s2c[call.conn] /\ worker'[call.conn] = worker[call.conn]
        BY <2>5, <2>7, <3>1, <3>6
      <4> QED
        BY <3>2, <3>4, <4>1, Zenon
    <3> QED
      BY <3>5, <3>6
  <2>12. AnswerBelongs'
    BY <2>5, <2>8 DEF AnswerBelongs
  <2> QED
    BY <2>4, <2>9, <2>10, <2>11, <2>12
<1> QED
  BY <1>5, <1>6, Zenon DEF WorkerBody

\* The frame of an answer.
LEMMA AnswerFrame ==
  ASSUME IInv, NEW n \in Conns, worker[n].at = "answer"
  PROVE  /\ Piece(answer(n), IF worker[n].body = failure THEN error_type
                             ELSE ack(worker[n].header.type),
                  worker[n].header.correlation, worker[n].body)
         /\ Len(answer(n)) = 4
         /\ (IF worker[n].body = failure THEN error_type ELSE ack(worker[n].header.type)) \in Types
         /\ worker[n].header.correlation \in Nat
         /\ worker[n].header.correlation <= last_correlation[n]
         /\ worker[n].body \in Bodies /\ worker[n].body # nothing
         /\ call # idle /\ call.conn = n /\ worker[n].header.correlation = last_correlation[n]
            => worker[n].body \in owed
<1> DEFINE w == worker[n]
           t == IF w.body = failure THEN error_type ELSE ack(w.header.type)
<1>1. Serving(w) /\ w.header \in Header /\ w.body \in Answers
  BY WorkerFacts DEF IInv, TypeOK, Serving
<1>2. /\ w.header.correlation \in Nat /\ w.header.correlation <= last_correlation[n]
      /\ Requested(w.header.type, w.header.body)
  BY <1>1, Zenon DEF IInv, Traffic, Carried, Header
<1>3. t \in Types /\ w.body \in Bodies /\ w.body # nothing
  BY <1>1, <1>2, RequestTypes
<1>4. call # idle /\ call.conn = n /\ w.header.correlation = last_correlation[n] => w.body \in owed
  BY <1>1, Zenon DEF IInv, Exchanged, Matched, ServedWhole
<1>5. answer(n) = encode_frame(t, w.header.correlation, w.body)
  BY DEF answer
<1> HIDE DEF t, w
<1>6. Piece(answer(n), t, w.header.correlation, w.body) /\ Len(answer(n)) = 4
  <2> DEFINE e == w.header.correlation
             b == w.body
  <2>1. t \in Types /\ e \in Nat /\ b \in Bodies /\ b # nothing
    BY <1>2, <1>3
  <2> HIDE DEF e, b
  <2>2. Piece(encode_frame(t, e, b), t, e, b)
    BY <2>1, WholeFrame
  <2>3. Len(encode_frame(t, e, b)) = 4
    BY <2>1, FrameFacts
  <2> QED
    BY <1>5, <2>2, <2>3 DEF e, b
<1> QED
  BY <1>2, <1>3, <1>4, <1>6, Zenon DEF t, w

\* A worker sends its answer.
LEMMA WorkerAnswersExchange ==
  ASSUME IInv, NEW n \in Conns, WorkerAnswers(n)
  PROVE  IInv'
<1> USE DEF IInv
<1> DEFINE c == last_correlation[n]
           out == s2c[n] \o answer(n)
           rest == received(n, out)
<1>1. /\ worker' = [worker EXCEPT ![n] = listening] /\ s2c' = [s2c EXCEPT ![n] = rest]
      /\ UNCHANGED <<up, c2s, call, last_correlation, core, grants, owed, last, learned>>
  BY DEF WorkerAnswers, caller, daemon, ghosts
<1>2. /\ WellFormed(out, c)
      /\ call # idle /\ call.conn = n => AnswersOwed(out, c, owed)
  BY AnswerFrame, WriteExchange, Zenon DEF WorkerAnswers
<1>3. \A x : WellFormed(<<>>, x) /\ \A o : AnswersOwed(<<>>, x, o)
  BY EmptyStream
<1>4. /\ WellFormed(rest, c)
      /\ call # idle /\ call.conn = n => AnswersOwed(rest, c, owed)
  BY <1>2, <1>3 DEF received
<1> HIDE DEF rest
<1>5. /\ s2c'[n] = rest /\ worker'[n] = listening
      /\ \A m \in Conns \ {n} : s2c'[m] = s2c[m] /\ worker'[m] = worker[m]
  BY <1>1 DEF TypeOK
<1>6. ~Serving(listening)
  BY DEF Serving, listening
<1>7. TypeOK'
  <2>1. rest \in Seq(Unit) /\ listening \in WorkerType
    BY <1>4 DEF WellFormed, WorkerType
  <2> QED
    BY <1>1, <2>1 DEF TypeOK
<1>8. Traffic'
  <2>1. Carried(c2s'[n], s2c'[n], worker'[n], last_correlation'[n])
    BY <1>1, <1>4, <1>5, <1>6, Zenon DEF Carried, Traffic
  <2>2. \A m \in Conns \ {n} : Carried(c2s'[m], s2c'[m], worker'[m], last_correlation'[m])
    BY <1>1, <1>5 DEF Traffic
  <2> QED
    BY <2>1, <2>2 DEF Traffic
<1>9. Exchanged'
  <2> SUFFICES ASSUME call # idle
               PROVE  /\ Matched(c2s[call.conn], s2c'[call.conn], worker'[call.conn],
                                 last_correlation[call.conn], call, owed)
                      /\ OwedDecided
    BY <1>1, Zenon DEF Exchanged, OwedDecided
  <2>1. call.conn \in Conns
    BY CallFacts DEF TypeOK
  <2>2. /\ Matched(c2s[call.conn], s2c[call.conn], worker[call.conn],
                   last_correlation[call.conn], call, owed)
        /\ OwedDecided
    BY DEF Exchanged
  <2>3. CASE call.conn = n
    BY <1>4, <1>5, <1>6, <2>2, <2>3, Zenon DEF Matched, ServedWhole
  <2>4. CASE call.conn # n
    BY <1>5, <2>1, <2>2, <2>4, Zenon
  <2> QED
    BY <2>2, <2>3, <2>4, Zenon
<1> QED
  BY <1>1, <1>7, <1>8, <1>9 DEF GrantsCounted, DecidedRequests, AnswerBelongs

\* A worker sends nothing, or the header of its answer only.
LEMMA WorkerFailsExchange ==
  ASSUME IInv, NEW n \in Conns, WorkerFails(n)
  PROVE  IInv'
<1> DEFINE t == IF worker[n].body = failure THEN error_type ELSE ack(worker[n].header.type)
           d == worker[n].header.correlation
           b == worker[n].body
<1>1. worker[n].at = "answer" /\ UNCHANGED <<up, caller, core, grants, ghosts>>
  BY DEF WorkerFails, daemon
<1>2. PICK k \in {0, HeaderUnits} : leave(n, s2c[n] \o keep(answer(n), k), c2s[n])
  BY DEF WorkerFails
<1>3. /\ Len(answer(n)) = 4 /\ t \in Types /\ d \in Nat /\ d <= last_correlation[n] /\ b \in Bodies
      /\ call # idle /\ call.conn = n /\ d = last_correlation[n] => b \in owed
  BY <1>1, AnswerFrame
<1>4. answer(n) = encode_frame(t, d, b)
  BY DEF answer
<1> HIDE DEF t, d, b
<1>5. Piece(keep(answer(n), k), t, d, b)
  <2>1. Len(encode_frame(t, d, b)) = 4 /\ (k = 0 \/ k = 3)
    BY <1>2, <1>3, <1>4 DEF HeaderUnits
  <2>2. k \in 0 .. Len(encode_frame(t, d, b))
    BY <2>1
  <2> QED
    BY <1>4, <2>2 DEF Piece
<1> DEFINE f == keep(answer(n), k)
           out == s2c[n] \o f
<1> HIDE DEF f
<1>6. /\ WellFormed(out, last_correlation[n])
      /\ call # idle /\ call.conn = n => AnswersOwed(out, last_correlation[n], owed)
  BY <1>3, <1>5, WriteExchange, Zenon DEF f
<1>7. leave(n, out, c2s[n])
  BY <1>2 DEF f
<1> HIDE DEF out
<1> QED
  BY <1>1, <1>6, <1>7, LeaveExchange

\* All workers leave at once.
LEMMA RestartExchange ==
  ASSUME IInv, Restart
  PROVE  IInv'
<1> USE DEF IInv
<1>1. /\ worker' = [n \in Conns |-> gone] /\ c2s' = [n \in Conns |-> <<>>]
      /\ s2c' = s2c \/ s2c' = [n \in Conns |-> <<>>]
      /\ UNCHANGED <<up, call, last_correlation, core, grants, owed, last, learned>>
  BY DEF Restart, caller, ghosts
<1>2. \A x : /\ WellFormed(<<>>, x) /\ RequestsOnly(<<>>)
             /\ \A cmd, b, o : SentWhole(<<>>, x, cmd, b) /\ AnswersOwed(<<>>, x, o)
  BY EmptyStream
<1>3. ~Serving(gone) /\ gone \in WorkerType
  BY DEF Serving, gone, WorkerType
<1>4. \A n \in Conns : /\ worker'[n] = gone /\ c2s'[n] = <<>>
                       /\ s2c'[n] = s2c[n] \/ s2c'[n] = <<>>
  BY <1>1
<1>5. TypeOK'
  BY <1>1, <1>3, EmptySeq, Zenon DEF TypeOK
<1>6. Traffic'
  BY <1>1, <1>2, <1>3, <1>4, Zenon DEF Traffic, Carried
<1>7. Exchanged'
  <2> SUFFICES ASSUME call # idle
               PROVE  /\ Matched(c2s'[call.conn], s2c'[call.conn], worker'[call.conn],
                                 last_correlation[call.conn], call, owed)
                      /\ OwedDecided
    BY <1>1, Zenon DEF Exchanged, OwedDecided
  <2>1. call.conn \in Conns
    BY CallFacts DEF TypeOK
  <2>2. /\ Matched(c2s[call.conn], s2c[call.conn], worker[call.conn],
                   last_correlation[call.conn], call, owed)
        /\ OwedDecided
    BY DEF Exchanged
  <2> QED
    BY <1>2, <1>3, <1>4, <2>1, <2>2, Zenon DEF Matched, ServedWhole
<1> QED
  BY <1>1, <1>5, <1>6, <1>7 DEF GrantsCounted, DecidedRequests, AnswerBelongs

\* Every step keeps the invariant.
LEMMA ExchangeStep == IInv /\ [Next]_vars => IInv'
<1> SUFFICES ASSUME IInv, [Next]_vars PROVE IInv'
  OBVIOUS
<1>1. CASE Next
  BY <1>1, ConnectExchange, CloseExchange, CallExchange, SendFailsExchange, ReadHeaderExchange,
     ReadBodyExchange, ReadFailsExchange, WorkerHeaderExchange, WorkerBodyExchange,
     WorkerAnswersExchange, WorkerFailsExchange, WorkerLeavesExchange, RestartExchange
     DEF Next, Serves, Reads
<1>2. CASE UNCHANGED vars
  BY <1>2 DEF IInv, TypeOK, Traffic, Exchanged, OwedDecided, GrantsCounted, DecidedRequests,
              AnswerBelongs, vars, net, caller, daemon, ghosts
<1> QED
  BY <1>1, <1>2

\* What a call returns is what the core answered to that call: the check of
\* correlation and type in receive_raw is enough, although reads and writes
\* that time out leave streams off their frame boundaries.
THEOREM AnswersBelong == Spec => []AnswerBelongs
<1>1. IInv => AnswerBelongs
  BY DEF IInv
<1> QED
  BY <1>1, InitExchange, ExchangeStep, PTL DEF Spec

-----------------------------------------------------------------------------
(* The promise of Exchange.                                                *)

\* Only running an undecided acquire, and an answer that belongs, are steps of
\* Exchange.
LEMMA ExchangeRefined ==
  ASSUME IInv, [Next]_vars
  PROVE  [Promise!Next]_<<core, learned>>
<1> USE DEF IInv
<1>1. CASE ReadBody
  <2> DEFINE a == call.header.body
             r == call.r
  <2>1. call # idle /\ r \in Requests /\ call.at = "body" /\ core' = core
    BY <1>1, CallFacts DEF ReadBody, TypeOK, idle, daemon
  <2>2. \/ call.header.correlation = last_correlation[call.conn] /\ learn(r, a)
        \/ learned' = learned
    BY <1>1, Zenon DEF ReadBody, belongs
  <2>3. call.header.correlation = last_correlation[call.conn] /\ a \in Outcomes
        => a = core[r] /\ core[r] # nothing
    BY <2>1, AnswerKinds, Zenon DEF Exchanged, Matched, OwedDecided
  <2>4. CASE learned' = learned
    BY <2>1, <2>4
  <2>5. CASE /\ call.header.correlation = last_correlation[call.conn]
             /\ a \in Outcomes /\ learned' = [learned EXCEPT ![r] = @ \union {a}]
    <3>1. Promise!Learn(r)
      BY <2>1, <2>3, <2>5, Zenon DEF Promise!Learn
    <3> QED
      BY <2>1, <3>1 DEF Promise!Next
  <2> QED
    BY <2>2, <2>4, <2>5 DEF learn
<1>2. ASSUME NEW n \in Conns, WorkerBody(n)
      PROVE  [Promise!Next]_<<core, learned>>
  <2> DEFINE h == worker[n].header
             r == h.body[2]
  <2>1. Serving(worker[n]) /\ learned' = learned
    BY <1>2 DEF WorkerBody, Serving
  <2>2. Requested(h.type, h.body)
    BY <2>1 DEF Traffic, Carried
  <2>3. CASE UNCHANGED <<core, grants>>
    BY <2>1, <2>3
  <2>4. CASE h.type = "acquire" /\ acquire(r)
    <3>1. r \in Requests
      BY <2>2, <2>4 DEF Requested, body_of
    <3>2. /\ core' \in [Requests -> Outcomes \union {nothing}]
          /\ \A q \in Requests : core[q] # nothing => core'[q] = core[q]
      BY <2>2, <2>4, CommandFacts
    <3> HIDE DEF r
    <3>3. \/ core' = core
          \/ /\ core[r] = nothing
             /\ \E o \in {granted(grants + 1), refused} : core' = [core EXCEPT ![r] = o]
      BY <2>4 DEF acquire
    <3>4. CASE core' = core
      BY <2>1, <3>4
    <3>5. CASE /\ core[r] = nothing
               /\ \E o \in {granted(grants + 1), refused} : core' = [core EXCEPT ![r] = o]
      <4>1. PICK o : core' = [core EXCEPT ![r] = o]
        BY <3>5, Zenon
      <4>2. core'[r] = o /\ o \in Outcomes \union {nothing}
        BY <3>1, <3>2, <4>1 DEF TypeOK
      <4>3. CASE o \in Outcomes
        BY <2>1, <3>1, <3>5, <4>1, <4>3, Zenon DEF Promise!Decide, Promise!Next
      <4>4. CASE o = nothing
        <5>1. core' = core
          BY <3>1, <3>5, <4>1, <4>4 DEF TypeOK
        <5> QED
          BY <2>1, <5>1
      <4> QED
        BY <4>2, <4>3, <4>4
    <3> QED
      BY <3>3, <3>4, <3>5
  <2> QED
    BY <1>2, <2>3, <2>4 DEF WorkerBody
<1>3. ASSUME NEW n \in Conns,
             \/ Connect(n) \/ Close(n)
             \/ \E cmd \in Commands, r \in Requests : Call(n, cmd, r) \/ SendFails(n, cmd, r)
             \/ WorkerHeader(n) \/ WorkerAnswers(n) \/ WorkerFails(n) \/ WorkerLeaves(n)
      PROVE  UNCHANGED <<core, learned>>
  BY <1>3, Zenon DEF Connect, Close, Call, SendFails, Begin, WorkerHeader, WorkerAnswers, WorkerFails,
              WorkerLeaves, daemon, ghosts
<1>4. ASSUME ReadHeader \/ ReadFails \/ Restart \/ UNCHANGED vars
      PROVE  UNCHANGED <<core, learned>>
  BY <1>4 DEF ReadHeader, ReadFails, Restart, vars, daemon, ghosts
<1> QED
  BY <1>1, <1>2, <1>3, <1>4 DEF Next, Serves, Reads

\* A request is decided once, and all the caller learns of it is that: an
\* acquire is answered from memory when it was decided before, and an answer
\* is used only when it belongs to the call.
THEOREM DecidedOnce == Spec => ImplementsExchange
<1>1. Init => Promise!Init
  BY DEF Init, Promise!Init
<1>2. IInv /\ [Next]_vars => [Promise!Next]_<<core, learned>>
  BY ExchangeRefined
<1> QED
  BY <1>1, <1>2, InitExchange, ExchangeStep, PTL DEF Spec, ImplementsExchange, Promise!Spec
=============================================================================
