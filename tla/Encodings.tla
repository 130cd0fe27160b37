----------------------------- MODULE Encodings -----------------------------
(***************************************************************************)
(* What becomes of a message, a record or an image between the process     *)
(* that encodes it and the one that decodes it.                            *)
(*                                                                         *)
(* A payload travels through one or more stages.  Most have one: a message *)
(* goes over a connection, an image to a file and back.  Evidence has      *)
(* three: a client submits it, the daemon logs it, and the next checkpoint *)
(* carries it.  A grant has two: it is logged, and shown in an answer.  At *)
(* every stage the bytes may arrive whole, cut short, or followed by       *)
(* others.                                                                 *)
(***************************************************************************)
EXTENDS Images

CONSTANTS
  Kinds,       \* the payloads that are sent
  Inputs(_)    \* the values of a kind of payload

VARIABLES
  kind, value,     \* the payload
  stage,           \* where it is on its way
  phase,           \* "made", "encoded", "decoded", "refused" or "unencodable"
  units,           \* its encoding, as it arrives
  intact,          \* nothing was lost or added on the way
  got              \* the message the decoder returned

vars == <<kind, value, stage, phase, units, intact, got>>

-----------------------------------------------------------------------------
(* The codec of each stage.                                                *)

codecs == [
  HelloRequest          |-> [enc |-> HelloRequest_encode, dec |-> HelloRequest_decode],
  HelloResponse         |-> [enc |-> HelloResponse_encode, dec |-> HelloResponse_decode],
  SubmitEvidenceRequest |-> [enc |-> SubmitEvidenceRequest_encode,
                             dec |-> SubmitEvidenceRequest_decode],
  EvidenceAckResponse   |-> [enc |-> EvidenceAckResponse_encode,
                             dec |-> EvidenceAckResponse_decode],
  ComposeCommand        |-> [enc |-> ComposeCommand_encode, dec |-> ComposeCommand_decode],
  ComposeResponse       |-> [enc |-> ComposeResponse_encode, dec |-> ComposeResponse_decode],
  AcquireRequest        |-> [enc |-> AcquireRequest_encode, dec |-> AcquireRequest_decode],
  GrantResponse         |-> [enc |-> GrantResponse_encode, dec |-> GrantResponse_decode],
  TokenMessage          |-> [enc |-> TokenMessage_encode, dec |-> TokenMessage_decode],
  RenewRequest          |-> [enc |-> RenewRequest_encode, dec |-> RenewRequest_decode],
  LookupRequest         |-> [enc |-> LookupRequest_encode, dec |-> LookupRequest_decode],
  LookupResponse        |-> [enc |-> LookupResponse_encode, dec |-> LookupResponse_decode],
  StateResponse         |-> [enc |-> StateResponse_encode, dec |-> StateResponse_decode],
  ResourceQuery         |-> [enc |-> ResourceQuery_encode, dec |-> ResourceQuery_decode],
  ResourcesResponse     |-> [enc |-> ResourcesResponse_encode, dec |-> ResourcesResponse_decode],
  PathsResponse         |-> [enc |-> PathsResponse_encode, dec |-> PathsResponse_decode],
  GrantsResponse        |-> [enc |-> GrantsResponse_encode, dec |-> GrantsResponse_decode],
  LifecycleRequest      |-> [enc |-> LifecycleRequest_encode, dec |-> LifecycleRequest_decode],
  LifecycleResponse     |-> [enc |-> LifecycleResponse_encode, dec |-> LifecycleResponse_decode],
  StatsResponse         |-> [enc |-> StatsResponse_encode, dec |-> StatsResponse_decode],
  AckResponse           |-> [enc |-> AckResponse_encode, dec |-> AckResponse_decode],
  StoreRecord           |-> [enc |-> encode_record, dec |-> decode_record],
  Snapshot              |-> [enc |-> encode_snapshot, dec |-> decode_snapshot],
  Checkpoint            |-> [enc |-> build_checkpoint_bytes, dec |-> parse_checkpoint],
  Manifest              |-> [enc |-> encode_meta, dec |-> decode_meta]]

\* The stages of a payload.
route(k) ==
  CASE k = "evidence" -> <<"SubmitEvidenceRequest", "StoreRecord", "Checkpoint">>
    [] k = "grant"    -> <<"StoreRecord", "GrantsResponse">>
    [] OTHER          -> <<k>>

codec == route(kind)[stage]

\* The header fields of a checkpoint that holds one record.
checkpoint_of(r) ==
  LET m == [ledger |-> <<[entry |-> r]>>, snapshot_bytes |-> text_of(100, FALSE)]
  IN  m @@ [body_crc |-> 1, body_length |-> body_length(m), snapshot_digest |-> 2,
            ledger_digest |-> 3, wal_offset |-> 4, generation |-> 5, epoch |-> 6,
            incarnation |-> 7, header_crc |-> 8, lifecycle |-> 2, member_set_digest |-> 9]

\* The message that carries the payload at this stage.
message ==
  CASE kind = "evidence" /\ codec = "SubmitEvidenceRequest" -> [records |-> <<value>>]
    [] kind = "evidence" /\ codec = "StoreRecord" -> [type |-> 3] @@ value
    [] kind = "evidence" /\ codec = "Checkpoint"  -> checkpoint_of(value)
    [] kind = "grant" /\ codec = "StoreRecord"    -> [type |-> 7] @@ value
    [] kind = "grant" /\ codec = "GrantsResponse" ->
         [code |-> 0, truncated |-> FALSE, grants |-> <<GrantSummary_from(value)>>,
          detail |-> text_of(0, TRUE)]
    [] OTHER -> value

\* Variant: a decoder is content with a prefix of its input.
complete_prefix(c, r) ==
  /\ c = "Snapshot" => closes(r.m)
  /\ c = "StoreRecord" /\ r.m.type = 3 => validate_evidence(r.m)
  /\ c = "SubmitEvidenceRequest" =>
       \A i \in DOMAIN r.m.records : validate_evidence(r.m.records[i])
  /\ c = "Checkpoint" => \A i \in DOMAIN r.m.ledger : validate_evidence(r.m.ledger[i].entry)

\* What a decoder asks of a message it has read to the end: trailing() or
\* at_end(), then the checks on values.
complete(c, r) ==
  /\ at_end(r)
  /\ c = "Snapshot" => closes(r.m)
  /\ c = "StoreRecord" /\ r.m.type = 3 => validate_evidence(r.m)
  /\ c = "SubmitEvidenceRequest" =>
       \A i \in DOMAIN r.m.records : validate_evidence(r.m.records[i])
  /\ c = "Checkpoint" => \A i \in DOMAIN r.m.ledger : validate_evidence(r.m.ledger[i].entry)

\* The bound of the writer a stage uses: kDefaultMaxFramePayload,
\* max_record_bytes, max_encoded_snapshot and max_checkpoint_bytes are all
\* at least this.
writer_limit == 2 ^ 20

-----------------------------------------------------------------------------
Init ==
  /\ kind \in Kinds
  /\ value \in Inputs(kind)
  /\ stage = 1 /\ phase = "made" /\ units = <<>> /\ intact = TRUE /\ got = <<>>

\* The sender encodes.
Encode ==
  /\ phase = "made"
  /\ LET w == encode(ByteWriter(writer_limit), codecs[codec].enc, message)
     IN  IF w.ok THEN phase' = "encoded" /\ units' = w.out
         ELSE phase' = "unencodable" /\ UNCHANGED units
  /\ UNCHANGED <<kind, value, stage, intact, got>>

\* Only a prefix arrives; it may end inside a value.
Cut ==
  /\ phase = "encoded" /\ intact
  /\ \E n \in 0 .. Len(units) - 1 :
       \/ units' = SubSeq(units, 1, n)
       \/ /\ units[n + 1][1] > 1
          /\ units' = Append(SubSeq(units, 1, n), <<units[n + 1][1] - 1, "cut">>)
  /\ intact' = FALSE
  /\ UNCHANGED <<kind, value, stage, phase, got>>

\* Other bytes follow.
Extend ==
  /\ phase = "encoded" /\ intact
  /\ \E width \in {1, 2, 4, 8} : units' = Append(units, <<width, 0>>)
  /\ intact' = FALSE
  /\ UNCHANGED <<kind, value, stage, phase, got>>

\* The receiver decodes.
Decode ==
  /\ phase = "encoded"
  /\ LET r == decode(ByteReader(units), codecs[codec].dec)
     IN  IF r.ok /\ complete(codec, r) THEN phase' = "decoded" /\ got' = r.m
         ELSE phase' = "refused" /\ UNCHANGED got
  /\ UNCHANGED <<kind, value, stage, units, intact>>

\* The receiver passes the payload on.
Forward ==
  /\ phase = "decoded" /\ intact /\ stage < Len(route(kind))
  /\ stage' = stage + 1 /\ phase' = "made" /\ units' = <<>> /\ got' = <<>>
  /\ UNCHANGED <<kind, value, intact>>

Next == Encode \/ Cut \/ Extend \/ Decode \/ Forward

Spec == Init /\ [][Next]_vars

-----------------------------------------------------------------------------
(* What is asked of every encoder and decoder.                             *)

\* RoundTrips: a message that its encoder accepts and that arrives whole
\* is decoded to the same message; the only ones refused are evidence
\* records that validate_evidence does not accept.
RoundTrips ==
  intact =>
    /\ phase = "decoded" => got = message
    /\ phase = "refused" => kind = "evidence" /\ stage = 1 /\ ~validate_evidence(value)

\* DamageIsSeen: bytes that were cut short, at any byte, or that others
\* follow are never decoded.
DamageIsSeen == ~intact => phase # "decoded"

\* AcceptedStaysEncodable: evidence the daemon accepted from a client can
\* be logged and checkpointed, and read back from both; a grant that was
\* logged can be shown.  The bounds of the later encoders are not below
\* those of the earlier ones.
AcceptedStaysEncodable == stage > 1 /\ intact => phase \notin {"refused", "unencodable"}
=============================================================================
