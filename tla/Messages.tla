------------------------------ MODULE Messages ------------------------------
(***************************************************************************)
(* The message bodies of the daemon protocol (src/net/protocol.cpp): for   *)
(* each struct the layout its encode() writes and the one its decode()     *)
(* reads, each taken from its own function.  Every decoder but the ones    *)
(* nested in another message ends with trailing(): see Encodings.          *)
(***************************************************************************)
EXTENDS Codec

CONSTANT
  MaxList       \* stands for each of ProtocolLimits' counts

ASSUME MessagesAssumption == MaxList \in Nat \ {0}

max_detail_text == 512

-----------------------------------------------------------------------------
(* Small value helpers.                                                    *)

put_ref(kind, id) == <<U8(kind), U64(id)>>
get_ref(kind, id) == <<Ranged(kind, 1, 6), U64(id)>>

-----------------------------------------------------------------------------
(* Hello, evidence, compose.                                               *)

HelloRequest_encode == <<U16("protocol_version"), U32("client_id")>>
HelloRequest_decode == <<U16("protocol_version"), U32("client_id")>>

HelloResponse_encode ==
  <<U16("protocol_version"), Bool("accepted"), U64("rack"), U64("epoch"), U64("generation"),
    U64("incarnation"), U8("lifecycle"), Digest("snapshot_digest"), Text("detail", max_detail_text)>>
HelloResponse_decode ==
  <<U16("protocol_version"), Bool("accepted"), U64("rack"), U64("epoch"), U64("generation"),
    U64("incarnation"), U8("lifecycle"), Digest("snapshot_digest"), Text("detail", max_detail_text)>>

EvidenceAckEntry_encode ==
  <<U8("outcome"), U16("code"), Digest("digest"), Text("detail", max_detail_text)>>
EvidenceAckResponse_encode == <<List("entries", MaxList, EvidenceAckEntry_encode)>>
EvidenceAckResponse_decode ==
  <<List("entries", MaxList,
         <<U8("outcome"), U16("code"), Digest("digest"), Text("detail", max_detail_text)>>)>>

ComposeCommand_encode == <<U64("generation")>>
ComposeCommand_decode == <<U64("generation")>>

ComposeResponse_encode ==
  <<U16("code"), U64("generation"), U64("epoch"), U64("incarnation"), Digest("digest"),
    U32("diagnostics"), Text("detail", max_detail_text)>>
ComposeResponse_decode ==
  <<U16("code"), U64("generation"), U64("epoch"), U64("incarnation"), Digest("digest"),
    U32("diagnostics"), Text("detail", max_detail_text)>>

-----------------------------------------------------------------------------
(* Grants.                                                                 *)

AcquireRequest_encode ==
  <<U64("request_hi"), U64("request_lo"), U64("principal")>> \o put_ref("scope_kind", "scope_id")
  \o <<U8("mode"), U64("capacity"), U64("ttl_ms")>>
AcquireRequest_decode ==
  <<U64("request_hi"), U64("request_lo"), U64("principal")>> \o get_ref("scope_kind", "scope_id")
  \o <<Ranged("mode", 1, 2), U64("capacity"), U64("ttl_ms")>>

\* GrantSummary::from: what an answer shows of a grant; the pool is left out.
GrantSummary_from(grant) ==
  [n \in DOMAIN grant \ {"capacity_pool", "authority_basis"} |-> grant[n]]
  @@ ("basis" :> grant["authority_basis"])

GrantSummary_encode ==
  <<U64("id"), U64("request_hi"), U64("request_lo"), U64("principal")>>
  \o put_ref("scope_kind", "scope_id")
  \o <<U8("mode"), U64("capacity"), U64("generation"), U64("epoch"), U64("incarnation"),
       U64("fence"), U64("issued_at_ms"), U64("expires_at_ms"), U8("state"), Digest("basis"),
       Text("reason", max_detail_text)>>
\* Variant: the fence and the incarnation are read in the other order.
GrantSummary_decode_swapped ==
  <<U64("id"), U64("request_hi"), U64("request_lo"), U64("principal")>>
  \o get_ref("scope_kind", "scope_id")
  \o <<U8("mode"), U64("capacity"), U64("generation"), U64("epoch"), U64("fence"),
       U64("incarnation"), U64("issued_at_ms"), U64("expires_at_ms"), U8("state"), Digest("basis"),
       Text("reason", max_detail_text)>>

GrantSummary_decode ==
  <<U64("id"), U64("request_hi"), U64("request_lo"), U64("principal")>>
  \o get_ref("scope_kind", "scope_id")
  \o <<U8("mode"), U64("capacity"), U64("generation"), U64("epoch"), U64("incarnation"),
       U64("fence"), U64("issued_at_ms"), U64("expires_at_ms"), U8("state"), Digest("basis"),
       Text("reason", max_detail_text)>>

GrantResponse_encode ==
  <<U16("code"), Option("grant", GrantSummary_encode), Text("detail", max_detail_text)>>
GrantResponse_decode ==
  <<U16("code"), Option("grant", GrantSummary_decode), Text("detail", max_detail_text)>>

TokenMessage_encode ==
  <<U64("grant"), U64("fence"), U64("incarnation"), Digest("scope_basis")>>
TokenMessage_decode ==
  <<U64("grant"), U64("fence"), U64("incarnation"), Digest("scope_basis")>>

RenewRequest_encode == TokenMessage_encode \o <<U64("ttl_ms")>>
RenewRequest_decode == TokenMessage_decode \o <<U64("ttl_ms")>>

LookupRequest_encode == <<U64("request_hi"), U64("request_lo")>>
LookupRequest_decode == <<U64("request_hi"), U64("request_lo")>>

LookupResponse_encode ==
  <<U16("code"), Bool("remembered"), U16("outcome_code"), U64("grant"), U64("fence"),
    U64("incarnation"), Text("detail", max_detail_text)>>
LookupResponse_decode ==
  <<U16("code"), Bool("remembered"), U16("outcome_code"), U64("grant"), U64("fence"),
    U64("incarnation"), Text("detail", max_detail_text)>>

-----------------------------------------------------------------------------
(* Inspection.                                                             *)

DiagnosticEntry_encode ==
  <<U8("kind"), U8("subject_kind"), U64("subject_id"), U64("source"),
    Text("detail", max_detail_text)>>
DiagnosticEntry_decode ==
  <<U8("kind"), U8("subject_kind"), U64("subject_id"), U64("source"),
    Text("detail", max_detail_text)>>

CapacityMessage_encode ==
  <<U64("total"), U64("unavailable"), U64("usable"), U64("obligated"), U64("headroom_floor"),
    U64("uncommitted"), U64("deficit"), U64("committed_grants")>>
CapacityMessage_decode ==
  <<U64("total"), U64("unavailable"), U64("usable"), U64("obligated"), U64("headroom_floor"),
    U64("uncommitted"), U64("deficit"), U64("committed_grants")>>

StateResponse_encode ==
  <<U16("code"), U64("rack"), U64("generation"), U64("epoch"), U64("incarnation"),
    U8("lifecycle"), Digest("snapshot_digest"), Digest("evidence_digest"),
    Digest("member_set_digest")>>
  \o CapacityMessage_encode
  \o <<U32("devices"), U32("ports"), U32("links"), U32("attachments"), U32("paths"),
       U32("live_grants"), U32("recovering_grants"), Bool("clean_shutdown"),
       Bool("recovered_from_dirty_shutdown"), U32("total_diagnostics"),
       List("diagnostics", MaxList, DiagnosticEntry_encode), Text("detail", max_detail_text)>>
StateResponse_decode ==
  <<U16("code"), U64("rack"), U64("generation"), U64("epoch"), U64("incarnation"),
    U8("lifecycle"), Digest("snapshot_digest"), Digest("evidence_digest"),
    Digest("member_set_digest")>>
  \o CapacityMessage_decode
  \o <<U32("devices"), U32("ports"), U32("links"), U32("attachments"), U32("paths"),
       U32("live_grants"), U32("recovering_grants"), Bool("clean_shutdown"),
       Bool("recovered_from_dirty_shutdown"), U32("total_diagnostics"),
       List("diagnostics", MaxList, DiagnosticEntry_decode), Text("detail", max_detail_text)>>

ResourceQuery_encode == <<U32("limit"), U8("kind_filter")>>
ResourceQuery_decode == <<U32("limit"), U8("kind_filter")>>

ResourceEntry_encode ==
  put_ref("ref_kind", "ref_id")
  \o <<U8("eligibility"), U8("availability"), Bool("capacity_known"), U64("capacity"),
       U64("obligated"), U64("committed"), U64("available"), Bool("available_known"),
       U16("available_code"), Bool("maintenance")>>
ResourceEntry_decode ==
  get_ref("ref_kind", "ref_id")
  \o <<U8("eligibility"), U8("availability"), Bool("capacity_known"), U64("capacity"),
       U64("obligated"), U64("committed"), U64("available"), Bool("available_known"),
       U16("available_code"), Bool("maintenance")>>

\* ResourcesResponse, PathsResponse and GrantsResponse are built alike.
ListResponse(list, entry) ==
  <<U16("code"), Bool("truncated"), List(list, MaxList, entry), Text("detail", max_detail_text)>>

ResourcesResponse_encode == ListResponse("resources", ResourceEntry_encode)
ResourcesResponse_decode == ListResponse("resources", ResourceEntry_decode)

PathEntry_encode ==
  <<U64("id"), U64("start_port"), U64("end_port"), U32("hops"), U64("bottleneck"),
    Bool("bottleneck_known"), U8("eligibility")>>
PathEntry_decode ==
  <<U64("id"), U64("start_port"), U64("end_port"), U32("hops"), U64("bottleneck"),
    Bool("bottleneck_known"), U8("eligibility")>>

PathsResponse_encode == ListResponse("paths", PathEntry_encode)
PathsResponse_decode == ListResponse("paths", PathEntry_decode)

GrantsResponse_encode == ListResponse("grants", GrantSummary_encode)
GrantsResponse_decode == ListResponse("grants", GrantSummary_decode)

-----------------------------------------------------------------------------
(* Control.                                                                *)

LifecycleRequest_encode == <<U8("target")>>
LifecycleRequest_decode == <<Ranged("target", 1, 7)>>

LifecycleResponse_encode == <<U16("code"), U8("lifecycle"), Text("detail", max_detail_text)>>
LifecycleResponse_decode == <<U16("code"), U8("lifecycle"), Text("detail", max_detail_text)>>

StatsResponse_encode ==
  <<U16("code"), U64("uptime_ms"), U64("evidence_records"), U64("evidence_sources"),
    U64("evidence_conflicts"), U64("evidence_superseded"), U64("log_records"), U64("log_bytes"),
    U64("checkpoints"), U64("requests_served"), U64("connections_accepted"),
    U64("connections_rejected"), U64("frames_rejected"), U64("bytes_sent"),
    U64("bytes_received"), U64("composes"), U64("grants_issued"), U64("grants_refused"),
    U64("grants_fenced"), Text("detail", max_detail_text)>>
StatsResponse_decode ==
  <<U16("code"), U64("uptime_ms"), U64("evidence_records"), U64("evidence_sources"),
    U64("evidence_conflicts"), U64("evidence_superseded"), U64("log_records"), U64("log_bytes"),
    U64("checkpoints"), U64("requests_served"), U64("connections_accepted"),
    U64("connections_rejected"), U64("frames_rejected"), U64("bytes_sent"),
    U64("bytes_received"), U64("composes"), U64("grants_issued"), U64("grants_refused"),
    U64("grants_fenced"), Text("detail", max_detail_text)>>

AckResponse_encode == <<U16("code"), Text("detail", max_detail_text)>>
AckResponse_decode == <<U16("code"), Text("detail", max_detail_text)>>
=============================================================================
