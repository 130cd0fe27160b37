------------------------------- MODULE Codec -------------------------------
(***************************************************************************)
(* ByteWriter and ByteReader (include/rnf/core/bytes.hpp) and the way the  *)
(* encoders and decoders of the program use them.                          *)
(*                                                                         *)
(* An encoder or a decoder is a layout: the sequence of the fields it      *)
(* writes or reads, in its order.  A message is a function from field      *)
(* names to values.  An encoding is a sequence of units <<width, value>>,  *)
(* one per call of raw(): widths are the real ones in bytes, values are    *)
(* kept whole.  A read whose width is not that of the next unit would take *)
(* parts of several values; it counts as failed.                           *)
(***************************************************************************)
EXTENDS Integers, Sequences, TLC

-----------------------------------------------------------------------------
(* Fields.                                                                 *)

U8(n)     == [kind |-> "int", name |-> n, width |-> 1]
U16(n)    == [kind |-> "int", name |-> n, width |-> 2]
U32(n)    == [kind |-> "int", name |-> n, width |-> 4]
U64(n)    == [kind |-> "int", name |-> n, width |-> 8]
Digest(n) == [kind |-> "int", name |-> n, width |-> 32]
Bool(n)   == [kind |-> "bool", name |-> n]

\* A byte the decoder accepts only between lo and hi.
Ranged(n, lo, hi) == [kind |-> "ranged", name |-> n, lo |-> lo, hi |-> hi]

\* Bytes with one legal value: a magic number or a version.
Fixed(width, value) == [kind |-> "fixed", width |-> width, value |-> value]

\* Bytes written as zeros and not looked at.
Reserved(width) == [kind |-> "reserved", width |-> width]

Text(n, max_len)  == [kind |-> "text", name |-> n, max |-> max_len]
Bytes(n, max_len) == [kind |-> "bytes", name |-> n, max |-> max_len]

\* A count and that many elements; the bound is the decoder's.
List(n, max_count, layout) ==
  [kind |-> "list", name |-> n, max |-> max_count, layout |-> layout]

\* A flag, and a message when the flag is set.
Option(n, layout) == [kind |-> "option", name |-> n, layout |-> layout]

\* A message encoded on its own and written as a blob.
Blob(n, max_len, layout) == [kind |-> "blob", name |-> n, max |-> max_len, layout |-> layout]

\* The layout named by a field that comes before.
Switch(n, layouts) == [kind |-> "switch", name |-> n, layouts |-> layouts]

\* The length field n must be what is left.
Rest(n) == [kind |-> "rest", name |-> n]

\* The value of an option that is not there.
none == <<>>

-----------------------------------------------------------------------------
(* Texts and byte strings: how long they are and whether they are          *)
(* well-formed UTF-8.                                                      *)

text_of(len, utf8) == [len |-> len, utf8 |-> utf8]

-----------------------------------------------------------------------------
(* ByteWriter.                                                             *)

ByteWriter(limit) == [ok |-> TRUE, limit |-> limit, size |-> 0, out |-> <<>>]

raw(w, n, v) ==
  IF ~w.ok \/ n > w.limit - w.size THEN [w EXCEPT !.ok = FALSE]
  ELSE IF n = 0 THEN w
  ELSE [w EXCEPT !.size = @ + n, !.out = Append(@, <<n, v>>)]

write_blob(w, n, v, max_len) ==
  IF n > max_len THEN [w EXCEPT !.ok = FALSE] ELSE raw(raw(w, 4, n), n, v)

write_text(w, t, max_len) ==
  IF ~t.utf8 THEN [w EXCEPT !.ok = FALSE] ELSE write_blob(w, t.len, t, max_len)

\* Encode message m.
RECURSIVE encode(_, _, _), write_all(_, _, _)

put(w, f, m) ==
  CASE f.kind \in {"int", "ranged"} ->
         raw(w, IF f.kind = "int" THEN f.width ELSE 1, m[f.name])
    [] f.kind = "bool"   -> raw(w, 1, IF m[f.name] THEN 1 ELSE 0)
    [] f.kind = "fixed"  -> raw(w, f.width, f.value)
    [] f.kind = "reserved" -> raw(w, f.width, 0)
    [] f.kind = "text"   -> write_text(w, m[f.name], f.max)
    [] f.kind = "bytes"  -> write_blob(w, m[f.name].len, m[f.name], f.max)
    [] f.kind = "list"   -> write_all(raw(w, 4, Len(m[f.name])), f.layout, m[f.name])
    [] f.kind = "option" ->
         IF m[f.name] = none THEN raw(w, 1, 0) ELSE encode(raw(w, 1, 1), f.layout, m[f.name])
    [] f.kind = "blob"   ->
         LET entry == encode(ByteWriter(f.max), f.layout, m[f.name])
         IN  IF entry.ok THEN write_blob(w, entry.size, entry.out, f.max)
             ELSE [w EXCEPT !.ok = FALSE]
    [] f.kind = "switch" -> encode(w, f.layouts[m[f.name]], m)
    [] f.kind = "rest"   -> w

encode(w, layout, m) ==
  IF layout = <<>> \/ ~w.ok THEN w ELSE encode(put(w, Head(layout), m), Tail(layout), m)

write_all(w, layout, ms) ==
  IF ms = <<>> \/ ~w.ok THEN w ELSE write_all(encode(w, layout, Head(ms)), layout, Tail(ms))

-----------------------------------------------------------------------------
(* ByteReader: what is left to read, and the message read so far.          *)

ByteReader(units) == [ok |-> TRUE, left |-> units, m |-> <<>>]

failed(r) == [r EXCEPT !.ok = FALSE]

at_end(r) == r.left = <<>>

RECURSIVE width_of(_)

width_of(units) == IF units = <<>> THEN 0 ELSE Head(units)[1] + width_of(Tail(units))

\* The next unit is a whole value of n bytes.
has(r, n) == r.left # <<>> /\ Head(r.left)[1] = n

\* Store the next unit's value, converted, under name.
take(r, name, value) == [r EXCEPT !.left = Tail(@), !.m = @ @@ (name :> value)]

RECURSIVE decode(_, _), read_all(_, _, _, _)

\* A length prefix and its bytes: the reader past the prefix, or failed.
read_length(r, max_len) ==
  IF ~has(r, 4) \/ Head(r.left)[2] > max_len \/ width_of(Tail(r.left)) < Head(r.left)[2]
  THEN failed(r) ELSE [r EXCEPT !.left = Tail(@)]

read_text(r, f) ==
  LET n == Head(r.left)[2]
      p == read_length(r, f.max)
  IN  IF ~has(r, 4) \/ ~p.ok THEN failed(r)
      ELSE IF n = 0 THEN [p EXCEPT !.m = @ @@ (f.name :> text_of(0, TRUE))]
      ELSE IF ~has(p, n) \/ (f.kind = "text" /\ ~Head(p.left)[2].utf8) THEN failed(r)
      ELSE take(p, f.name, Head(p.left)[2])

read_blob(r, f) ==
  LET n == Head(r.left)[2]
      p == read_length(r, f.max)
      e == decode(ByteReader(Head(p.left)[2]), f.layout)
  IN  IF ~has(r, 4) \/ ~p.ok \/ ~has(p, n) \/ ~e.ok THEN failed(r) ELSE take(p, f.name, e.m)

read_list(r, f) ==
  IF ~has(r, 4) \/ Head(r.left)[2] > f.max THEN failed(r)
  ELSE LET e == read_all([r EXCEPT !.left = Tail(@)], f.layout, Head(r.left)[2], <<>>)
       IN  IF ~e.ok THEN failed(r)
           ELSE [e EXCEPT !.m = r.m @@ (f.name :> e.m)]

read_option(r, f) ==
  IF ~has(r, 1) \/ Head(r.left)[2] > 1 THEN failed(r)
  ELSE IF Head(r.left)[2] = 0 THEN take(r, f.name, none)
  ELSE LET e == decode(ByteReader(Tail(r.left)), f.layout)
       IN  IF ~e.ok THEN failed(r)
           ELSE [e EXCEPT !.m = r.m @@ (f.name :> e.m)]

get(r, f) ==
  CASE f.kind = "int"    -> IF has(r, f.width) THEN take(r, f.name, Head(r.left)[2]) ELSE failed(r)
    [] f.kind = "ranged" -> IF has(r, 1) /\ Head(r.left)[2] \in f.lo .. f.hi
                            THEN take(r, f.name, Head(r.left)[2]) ELSE failed(r)
    [] f.kind = "bool"   -> IF has(r, 1) /\ Head(r.left)[2] <= 1
                            THEN take(r, f.name, Head(r.left)[2] # 0) ELSE failed(r)
    [] f.kind = "fixed"  -> IF has(r, f.width) /\ Head(r.left)[2] = f.value
                            THEN [r EXCEPT !.left = Tail(@)] ELSE failed(r)
    [] f.kind = "reserved" -> IF has(r, f.width) THEN [r EXCEPT !.left = Tail(@)] ELSE failed(r)
    [] f.kind \in {"text", "bytes"} -> read_text(r, f)
    [] f.kind = "list"   -> read_list(r, f)
    [] f.kind = "option" -> read_option(r, f)
    [] f.kind = "blob"   -> read_blob(r, f)
    [] f.kind = "switch" -> IF r.m[f.name] \in DOMAIN f.layouts
                            THEN decode(r, f.layouts[r.m[f.name]]) ELSE failed(r)
    [] f.kind = "rest"   -> IF width_of(r.left) = r.m[f.name] THEN r ELSE failed(r)

decode(r, layout) ==
  IF layout = <<>> \/ ~r.ok THEN r ELSE decode(get(r, Head(layout)), Tail(layout))

read_all(r, layout, n, done) ==
  IF ~r.ok THEN r
  ELSE IF n = 0 THEN [r EXCEPT !.m = done]
  ELSE LET e == decode([r EXCEPT !.m = <<>>], layout)
       IN  read_all(e, layout, n - 1, Append(done, e.m))
=============================================================================
