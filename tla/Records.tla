------------------------------ MODULE Records ------------------------------
(***************************************************************************)
(* The records the daemon logs: evidence (src/model/evidence.cpp), grants  *)
(* (src/authority/grant.cpp) and the log record that holds either or one   *)
(* of eight other things (src/persist/store.cpp).                          *)
(***************************************************************************)
EXTENDS Messages

CONSTANTS
  kMaxOwnersPerResource,   \* the most owners decode_resource accepts
  MaxSnapshotList,         \* stands for the ComposeLimits counts
  kMaxPoolRefs             \* the most pool references of a grant

ASSUME RecordsAssumption ==
  /\ kMaxOwnersPerResource \in Nat \ {0}
  /\ MaxSnapshotList \in Nat \ {0}
  /\ kMaxPoolRefs \in Nat \ {0}

max_host_key       == 128
max_reason         == 256
max_authority      == 128
max_encoded_record == 512
kMaxTextField      == 256
kMaxNameText       == 128
kMaxReasonText     == 128
kMaxDetailText     == 256

-----------------------------------------------------------------------------
(* Evidence.  Claims are numbered as EvidenceKind is.                      *)

encode_claim == <<
  <<U64("rack"), U64("device"), U64("incarnation")>>,
  <<U64("device"), U8("role"), U64("capacity"), Bool("capacity_known"), U8("availability")>>,
  <<U64("port"), U64("device"), U16("index"), U8("role"), U64("capacity"), Bool("capacity_known"),
    U8("admin"), U8("availability")>>,
  <<U64("link"), U64("port_a"), U64("port_b"), U8("link_kind"), U64("capacity"),
    Bool("capacity_known"), U8("availability")>>,
  <<U64("attachment"), U64("device"), U64("port"), Text("host_key", max_host_key)>>,
  <<U8("action"), U8("target_kind"), U64("target_id"), Text("reason", max_reason)>>,
  <<U64("obligation"), U8("target_kind"), U64("target_id"), U64("capacity"), U64("holder"),
    Text("authority", max_authority)>> >>

encode_evidence ==
  <<U8("kind"), U8("durability"), U64("generation"), U64("source"), U8("source_kind"),
    U64("sequence"), U64("observed_at_ms"), Switch("kind", encode_claim)>>

decode_claim == <<
  <<U64("rack"), U64("device"), U64("incarnation")>>,
  <<U64("device"), U8("role"), U64("capacity"), Bool("capacity_known"), U8("availability")>>,
  <<U64("port"), U64("device"), U16("index"), U8("role"), U64("capacity"), Bool("capacity_known"),
    U8("admin"), U8("availability")>>,
  <<U64("link"), U64("port_a"), U64("port_b"), U8("link_kind"), U64("capacity"),
    Bool("capacity_known"), U8("availability")>>,
  <<U64("attachment"), U64("device"), U64("port"), Text("host_key", max_host_key)>>,
  <<U8("action"), U8("target_kind"), U64("target_id"), Text("reason", max_reason)>>,
  <<U64("obligation"), U8("target_kind"), U64("target_id"), U64("capacity"), U64("holder"),
    Text("authority", max_authority)>> >>

decode_evidence ==
  <<U8("kind"), U8("durability"), U64("generation"), U64("source"), U8("source_kind"),
    U64("sequence"), U64("observed_at_ms"), Switch("kind", decode_claim)>>

is_set(r, names) == \A n \in names : r[n] # 0

fits(t, max_len) == t.len <= max_len /\ t.utf8

valid_claim(r) ==
  CASE r.kind = 1 -> is_set(r, {"rack", "device"})
    [] r.kind = 2 -> is_set(r, {"device"})
    [] r.kind = 3 -> is_set(r, {"port", "device"}) /\ r.index <= 65535
    [] r.kind = 4 -> is_set(r, {"link", "port_a", "port_b"}) /\ r.port_a # r.port_b
    [] r.kind = 5 -> is_set(r, {"attachment", "device", "port"}) /\ fits(r.host_key, max_host_key)
    [] r.kind = 6 -> (r.target_kind = 1 <=> r.target_id = 0) /\ fits(r.reason, max_reason)
    [] r.kind = 7 -> /\ is_set(r, {"obligation", "holder"})
                     /\ r.target_id = 0 => r.target_kind = 1
                     /\ fits(r.authority, max_authority)

\* decode_evidence ends with validate_evidence, which encodes the record
\* once more, into a writer of max_encoded_record bytes.
validate_evidence(r) ==
  /\ valid_claim(r)
  /\ r.durability \in 1 .. 2
  /\ r.source_kind \in 1 .. 4
  /\ is_set(r, {"source"})
  /\ encode(ByteWriter(max_encoded_record), encode_evidence, r).ok

SubmitEvidenceRequest_encode == <<List("records", MaxList, encode_evidence)>>
SubmitEvidenceRequest_decode == <<List("records", MaxList, decode_evidence)>>

-----------------------------------------------------------------------------
(* Grants.                                                                 *)

encode_grant ==
  <<U64("id"), U64("request_hi"), U64("request_lo"), U64("principal"), U8("scope_kind"),
    U64("scope_id"), U8("mode"), U64("capacity"), U64("generation"), U64("epoch"),
    U64("incarnation"), U64("fence"), U64("issued_at_ms"), U64("expires_at_ms"), U8("state"),
    Digest("authority_basis"),
    List("capacity_pool", kMaxPoolRefs, <<U8("ref_kind"), U64("ref_id")>>),
    Text("reason", kMaxReasonText)>>

decode_grant ==
  <<U64("id"), U64("request_hi"), U64("request_lo"), U64("principal"), U8("scope_kind"),
    U64("scope_id"), U8("mode"), U64("capacity"), U64("generation"), U64("epoch"),
    U64("incarnation"), U64("fence"), U64("issued_at_ms"), U64("expires_at_ms"), U8("state"),
    Digest("authority_basis"),
    List("capacity_pool", kMaxPoolRefs, <<U8("ref_kind"), U64("ref_id")>>),
    Text("reason", kMaxReasonText)>>

-----------------------------------------------------------------------------
(* Log records, numbered as RecordType is.                                 *)

encode_record_body == <<
  <<U64("rack"), Text("name", kMaxNameText)>>,
  <<U64("headroom_floor"), U64("max_paths_per_pair"), U64("max_path_hops")>>,
  encode_evidence,
  <<U8("state"), U64("generation"), U64("epoch")>>,
  <<U64("generation")>>,
  <<U64("epoch"), Digest("member_set_digest")>>,
  encode_grant,
  <<U64("id"), U8("state"), Text("reason", kMaxReasonText)>>,
  <<U64("request_hi"), U64("request_lo"), U16("code"), U64("grant"), U64("fence"),
    U64("incarnation"), Digest("request_digest"), Text("detail", kMaxDetailText)>>,
  <<U64("at_ms")>> >>

encode_record == <<U8("type"), Switch("type", encode_record_body)>>

decode_record_body == <<
  <<U64("rack"), Text("name", kMaxNameText)>>,
  <<U64("headroom_floor"), U64("max_paths_per_pair"), U64("max_path_hops")>>,
  decode_evidence,
  <<U8("state"), U64("generation"), U64("epoch")>>,
  <<U64("generation")>>,
  <<U64("epoch"), Digest("member_set_digest")>>,
  decode_grant,
  <<U64("id"), U8("state"), Text("reason", kMaxReasonText)>>,
  <<U64("request_hi"), U64("request_lo"), U16("code"), U64("grant"), U64("fence"),
    U64("incarnation"), Digest("request_digest"), Text("detail", kMaxDetailText)>>,
  <<U64("at_ms")>> >>

decode_record == <<U8("type"), Switch("type", decode_record_body)>>
=============================================================================
