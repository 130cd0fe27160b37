---------------------------- MODULE MCEncodings ----------------------------
(***************************************************************************)
(* Encodings for TLC.  The inputs of a codec are one value of its message  *)
(* in which fields differ from their neighbours, and every value that      *)
(* differs from it in one field: zero, the ends of a range, both Booleans, *)
(* texts of length 0, 1, the bound and one more and one that is not UTF-8, *)
(* lists of every length the program builds.                               *)
(***************************************************************************)
EXTENDS Encodings

CONSTANT
  RackSize     \* the most members of a rack

MCKinds == {"evidence", "grant"} \union (DOMAIN codecs \ {"SubmitEvidenceRequest", "Checkpoint"})

RECURSIVE Typical(_, _), Variants(_, _)

\* The longest list the program builds.
built(f) == IF f.name = "devices" THEN RackSize ELSE f.max

\* A value for the field at position i: a byte is an enumeration, whose
\* members 1 and 2 always exist.
typical(f, i) ==
  CASE f.kind = "int" /\ f.width > 1 -> 10 + i
    [] f.kind = "int" /\ f.width = 1 -> 1 + (i % 2)
    [] f.kind = "ranged" -> f.hi
    [] f.kind = "bool" -> i % 2 = 0
    [] f.kind \in {"text", "bytes"} -> text_of(i, TRUE)
    [] f.kind = "list" -> <<Typical(f.layout, i)>>
    [] f.kind = "option" -> Typical(f.layout, i)
    [] f.kind = "blob" -> Typical(f.layout, i)

variants(f, i) ==
  CASE f.kind = "int" /\ f.width > 1 -> {0, 10 + i}
    [] f.kind = "int" /\ f.width = 1 -> {1, 2}
    [] f.kind = "ranged" -> {f.lo, f.hi}
    [] f.kind = "bool" -> BOOLEAN
    [] f.kind = "text" -> {text_of(n, TRUE) : n \in {0, 1, f.max, f.max + 1}}
                          \union {text_of(3, FALSE)}
    [] f.kind = "bytes" -> {text_of(n, FALSE) : n \in {0, 100}}
    [] f.kind = "list" -> {[j \in 1 .. n |-> Typical(f.layout, i + j)] : n \in 0 .. built(f)}
                          \union {<<v>> : v \in Variants(f.layout, i)}
    [] f.kind = "option" -> {none} \union Variants(f.layout, i)

named(layout) == {i \in DOMAIN layout : layout[i].kind \notin {"fixed", "reserved", "rest", "switch"}}

Typical(layout, base) ==
  [n \in {layout[i].name : i \in named(layout)} |->
     LET i == CHOOSE j \in named(layout) : layout[j].name = n IN typical(layout[i], base + i)]

Variants(layout, base) ==
  {Typical(layout, base)} \union
  UNION {{[Typical(layout, base) EXCEPT ![layout[i].name] = v] : v \in variants(layout[i], base + i)}
         : i \in named(layout)}

\* A capacity ledger that closes.
closing == [total |-> 10, unavailable |-> 3, usable |-> 7, obligated |-> 1, headroom_floor |-> 2,
            uncommitted |-> 4, deficit |-> 0]

\* The first resource of a snapshot is the rack, which all members own.
rack_owned(s) ==
  LET owners == [i \in DOMAIN s.devices |->
                   [device |-> s.devices[i].id, incarnation |-> s.devices[i].incarnation]]
  IN  IF s.resources = <<>> THEN s ELSE [s EXCEPT !.resources[1].owners = owners]

evidence_inputs ==
  LET header == SubSeq(decode_evidence, 1, Len(decode_evidence) - 1)
  IN  UNION {{[h EXCEPT !["kind"] = k] @@ Typical(decode_claim[k], 7) : h \in Variants(header, 0)}
             \union {[Typical(header, 0) EXCEPT !["kind"] = k] @@ c : c \in Variants(decode_claim[k], 7)}
             : k \in DOMAIN decode_claim}

MCInputs(k) ==
  CASE k = "evidence" -> evidence_inputs
    [] k = "grant" -> Variants(decode_grant, 0)
    [] k = "StoreRecord" ->
         UNION {{[type |-> t] @@ v : v \in Variants(decode_record_body[t], 0)}
                : t \in DOMAIN decode_record_body \ {3, 7}}
    [] k = "Snapshot" -> {rack_owned(closing @@ v) : v \in Variants(decode_snapshot, 0)}
    [] OTHER -> Variants(codecs[k].dec, 0)
=============================================================================
