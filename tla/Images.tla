------------------------------- MODULE Images -------------------------------
(***************************************************************************)
(* The three images that are written whole: the snapshot                   *)
(* (src/compose/snapshot.cpp), the checkpoint that carries it and the      *)
(* manifest (src/persist/store.cpp).  The last two have fields at fixed    *)
(* offsets; their layouts list them in the order of the offsets, reserved  *)
(* bytes included.  A checksum over bytes nothing damaged matches, and one *)
(* over damaged bytes does not: see Encodings.                             *)
(***************************************************************************)
EXTENDS Records

kStateFormatVersion == 1

max_checkpoint_bytes == 64 * 2 ^ 20

-----------------------------------------------------------------------------
(* The snapshot.                                                           *)

encode_resource ==
  <<U8("ref_kind"), U64("ref_id"), U8("eligibility"), U8("availability"), Bool("capacity_known"),
    U64("capacity"), U64("obligated"), Bool("maintenance"),
    List("owners", kMaxOwnersPerResource, <<U64("device"), U64("incarnation")>>)>>

decode_resource ==
  <<U8("ref_kind"), U64("ref_id"), U8("eligibility"), U8("availability"), Bool("capacity_known"),
    U64("capacity"), U64("obligated"), Bool("maintenance"),
    List("owners", kMaxOwnersPerResource, <<U64("device"), U64("incarnation")>>)>>

encode_snapshot ==
  <<U64("rack"), U64("generation"), U64("epoch"), U8("lifecycle"), Digest("evidence_digest"),
    Digest("member_set_digest"),
    U64("total"), U64("unavailable"), U64("usable"), U64("obligated"), U64("headroom_floor"),
    U64("uncommitted"), U64("deficit"),
    List("devices", MaxSnapshotList,
      <<U64("id"), U8("role"), U64("incarnation"), U64("capacity"), Bool("capacity_known"),
        U8("eligibility"), U8("availability")>>),
    List("ports", MaxSnapshotList,
      <<U64("id"), U64("device"), U16("index"), U8("role"), U64("capacity"),
        Bool("capacity_known"), U8("availability"), U8("admin"), U8("eligibility")>>),
    List("links", MaxSnapshotList,
      <<U64("id"), U64("port_a"), U64("port_b"), U8("kind"), U64("capacity"),
        Bool("capacity_known"), U8("availability"), U8("eligibility")>>),
    List("attachments", MaxSnapshotList,
      <<U64("id"), U64("device"), U64("port"), Text("host_key", kMaxTextField),
        U8("eligibility")>>),
    List("paths", MaxSnapshotList,
      <<U64("id"), U64("start_port"), U64("end_port"), List("links", MaxSnapshotList, <<U64("link")>>),
        U64("bottleneck"), Bool("bottleneck_known"), U8("eligibility")>>),
    List("maintenance", MaxSnapshotList,
      <<U8("action"), U8("target_kind"), U64("target_id"), U64("source"), U64("sequence"),
        Text("reason", kMaxTextField)>>),
    List("obligations", MaxSnapshotList,
      <<U64("id"), U8("target_kind"), U64("target_id"), U64("capacity"), U64("holder"),
        U64("source"), Text("authority", kMaxTextField)>>),
    List("resources", MaxSnapshotList, encode_resource),
    List("diagnostics", MaxSnapshotList,
      <<U8("kind"), U8("subject_kind"), U64("subject_id"), U64("source"), Text("detail", 256)>>)>>

decode_snapshot ==
  <<U64("rack"), U64("generation"), U64("epoch"), U8("lifecycle"), Digest("evidence_digest"),
    Digest("member_set_digest"),
    U64("total"), U64("unavailable"), U64("usable"), U64("obligated"), U64("headroom_floor"),
    U64("uncommitted"), U64("deficit"),
    List("devices", MaxSnapshotList,
      <<U64("id"), U8("role"), U64("incarnation"), U64("capacity"), Bool("capacity_known"),
        U8("eligibility"), U8("availability")>>),
    List("ports", MaxSnapshotList,
      <<U64("id"), U64("device"), U16("index"), U8("role"), U64("capacity"),
        Bool("capacity_known"), U8("availability"), U8("admin"), U8("eligibility")>>),
    List("links", MaxSnapshotList,
      <<U64("id"), U64("port_a"), U64("port_b"), U8("kind"), U64("capacity"),
        Bool("capacity_known"), U8("availability"), U8("eligibility")>>),
    List("attachments", MaxSnapshotList,
      <<U64("id"), U64("device"), U64("port"), Text("host_key", kMaxTextField),
        U8("eligibility")>>),
    List("paths", MaxSnapshotList,
      <<U64("id"), U64("start_port"), U64("end_port"), List("links", MaxSnapshotList, <<U64("link")>>),
        U64("bottleneck"), Bool("bottleneck_known"), U8("eligibility")>>),
    List("maintenance", MaxSnapshotList,
      <<U8("action"), U8("target_kind"), U64("target_id"), U64("source"), U64("sequence"),
        Text("reason", kMaxTextField)>>),
    List("obligations", MaxSnapshotList,
      <<U64("id"), U8("target_kind"), U64("target_id"), U64("capacity"), U64("holder"),
        U64("source"), Text("authority", kMaxTextField)>>),
    List("resources", MaxSnapshotList, decode_resource),
    List("diagnostics", MaxSnapshotList,
      <<U8("kind"), U8("subject_kind"), U64("subject_id"), U64("source"), Text("detail", 256)>>)>>

\* CapacityLedger::closes, the last thing decode_snapshot asks.
closes(c) ==
  /\ c.unavailable + c.usable = c.total
  /\ c.usable + c.deficit = c.obligated + c.headroom_floor + c.uncommitted

-----------------------------------------------------------------------------
(* The checkpoint: a header of kCheckpointHeaderSize bytes and a body.     *)

checkpoint_header(version) ==
  <<Fixed(8, "RNFCHK01"), Fixed(4, version), U32("body_crc"),
    U64("body_length"), Digest("snapshot_digest"), Digest("ledger_digest"), U64("wal_offset"),
    U64("generation"), U64("epoch"), U64("incarnation"), U32("header_crc"), U8("lifecycle"),
    Reserved(3), Digest("member_set_digest"), Reserved(32)>>

\* Variant: an entry is bounded as a text field is.
build_checkpoint_body_short ==
  <<List("ledger", MaxList, <<Blob("entry", kMaxTextField, encode_evidence)>>),
    Bytes("snapshot_bytes", max_checkpoint_bytes)>>

build_checkpoint_body ==
  <<List("ledger", MaxList, <<Blob("entry", 512, encode_evidence)>>),
    Bytes("snapshot_bytes", max_checkpoint_bytes)>>

build_checkpoint_bytes == checkpoint_header(kStateFormatVersion) \o build_checkpoint_body

parse_checkpoint ==
  checkpoint_header(kStateFormatVersion)
  \o <<Rest("body_length"), List("ledger", MaxList, <<Blob("entry", 512, decode_evidence)>>),
       Bytes("snapshot_bytes", max_checkpoint_bytes)>>

\* The length the header records for a body.
body_length(m) == encode(ByteWriter(max_checkpoint_bytes), build_checkpoint_body, m).size

-----------------------------------------------------------------------------
(* The manifest, kMetaSize bytes.                                          *)

encode_meta ==
  <<Fixed(8, "RNFSTOR1"), Fixed(4, kStateFormatVersion), U32("crc"),
    U64("rack"), U64("incarnation_counter"), U64("epoch"), U64("generation"),
    U64("checkpoint_offset"), U64("checkpoint_length"), Digest("snapshot_digest"),
    Digest("ledger_digest"), Bool("clean_shutdown"), Reserved(7),
    U64("clean_shutdown_at_ms"), Reserved(112)>>

decode_meta ==
  <<Fixed(8, "RNFSTOR1"), Fixed(4, kStateFormatVersion), U32("crc"),
    U64("rack"), U64("incarnation_counter"), U64("epoch"), U64("generation"),
    U64("checkpoint_offset"), U64("checkpoint_length"), Digest("snapshot_digest"),
    Digest("ledger_digest"), Bool("clean_shutdown"), Reserved(7),
    U64("clean_shutdown_at_ms"), Reserved(112)>>
=============================================================================
