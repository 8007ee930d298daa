--------------------------- MODULE ProfileFormat ---------------------------
(***************************************************************************)
(* The native profile as the plugin encodes it (plugin/src/output.rs) and  *)
(* as the converter decodes it (convert/src/native.rs).                    *)
(*                                                                         *)
(* A file is a sequence of units: the file header, a record's 4-byte tag   *)
(* and length, the count of a batch, one entry, the totals of the footer.  *)
(* The fields of an entry are one unit: a unit cut short by a truncation   *)
(* reads like one that is missing, for every read is exact.  Of the footer *)
(* the two record totals are kept, not the execution total and the time.   *)
(* Lengths are in units, so the 24-bit limit of the length field becomes a *)
(* limit on the entries of a record.                                       *)
(***************************************************************************)
EXTENDS Naturals, Sequences, SequencesExt

CONSTANT MaxPerRecord   \* entries that fit in one TLV record

ASSUME MaxPerRecordAssumption == MaxPerRecord \in Nat \ {0}

(* Records that hold a batch, and records that hold one item. *)
BatchTags == {"TbExecBatch", "BranchEdgeBatch", "FallThroughBatch",
              "DirectCallBatch", "IndirectCallBatch"}
ItemTags == {"StringMeta", "SymbolEntry", "TbResource", "DeviceAccess", "Discontinuity"}

(* The data records native::parse has a case for; it skips the others. *)
ReadTags == (BatchTags \cup ItemTags) \ {"DeviceAccess"}

(* An entry: its kind and an identity. *)
Entry(tag, id) == [tag |-> tag, id |-> id]

FileHeader == [u |-> "file"]
TlvHeader(tag, len) == [u |-> "tlv", tag |-> tag, len |-> len]
CountUnit(n) == [u |-> "count", n |-> n]
(* `closes` is the number of entries the record is credited with once this *)
(* entry, its last one, is written: total_tb_count, total_edge_records.    *)
EntryUnit(e, closes) == [u |-> "entry", e |-> e, closes |-> closes]
MarkUnit == [u |-> "mark"]
FooterUnit(tb, edge) == [u |-> "footer", tb |-> tb, edge |-> edge]

(* write_string_meta, write_symbol_entry, write_tb_resource, *)
(* write_device_access, write_discontinuity                  *)
ItemRecord(e) == <<TlvHeader(e.tag, 1), EntryUnit(e, 0)>>

(* Mutant: the length leaves out the count field. *)
BatchRecord_ShortLength(tag, chunk) ==
    <<TlvHeader(tag, Len(chunk)), CountUnit(Len(chunk))>>
        \o [i \in 1 .. Len(chunk) |->
              EntryUnit(chunk[i], IF i = Len(chunk) THEN Len(chunk) ELSE 0)]

(* One record of a batch: header, count, entries. *)
BatchRecord(tag, chunk) ==
    <<TlvHeader(tag, 1 + Len(chunk)), CountUnit(Len(chunk))>>
        \o [i \in 1 .. Len(chunk) |->
              EntryUnit(chunk[i], IF i = Len(chunk) THEN Len(chunk) ELSE 0)]

(* write_flush_marker and write_footer, without the flush they end with. *)
MarkerRecord == <<TlvHeader("FlushMarker", 1), MarkUnit>>
FooterRecord(tb, edge) == <<TlvHeader("Footer", 1), FooterUnit(tb, edge)>>

NoFooter == <<>>
Empty == [entries |-> <<>>, footer |-> NoFooter, garbled |-> FALSE, err |-> FALSE]
Garbled == [Empty EXCEPT !.garbled = TRUE]
HeaderError == [Empty EXCEPT !.err = TRUE]

(* The entries of a payload: after the count in a batch, the payload of an item. *)
PayloadEntries(h, payload) ==
    CASE h.tag \in BatchTags -> [i \in 1 .. Len(payload) - 1 |-> payload[i + 1].e]
      [] h.tag \in ItemTags \cap ReadTags -> <<payload[1].e>>
      [] OTHER -> <<>>

(* A payload that is not what its header announced. *)
PayloadOK(h, payload) ==
    CASE h.tag \in BatchTags ->
            /\ payload # <<>> /\ payload[1] = CountUnit(Len(payload) - 1)
            /\ \A i \in 2 .. Len(payload) : payload[i].u = "entry" /\ payload[i].e.tag = h.tag
      [] h.tag \in ItemTags \cap ReadTags ->
            Len(payload) = 1 /\ payload[1].u = "entry" /\ payload[1].e.tag = h.tag
      [] h.tag = "Footer" -> Len(payload) = 1 /\ payload[1].u = "footer"
      [] OTHER -> TRUE      \* a tag the reader skips

(***************************************************************************)
(* native::parse: an error if the file header is missing, otherwise the    *)
(* records up to the end of the file or the first truncated one.  When the *)
(* framing is lost, what the reader makes of the bytes is not modelled:    *)
(* the result is marked as garbled and ends there.                         *)
(***************************************************************************)
Parse(file) ==
    LET From[i \in 1 .. Len(file) + 1] ==
            IF i > Len(file) THEN Empty
            ELSE IF file[i].u # "tlv" THEN Garbled
            ELSE LET end == i + file[i].len
                     payload == SubSeq(file, i + 1, end)
                 IN  IF end > Len(file) THEN Empty
                     ELSE IF ~PayloadOK(file[i], payload) THEN Garbled
                     ELSE LET rest == From[end + 1]
                          IN  [entries |-> PayloadEntries(file[i], payload) \o rest.entries,
                               footer |-> IF file[i].tag = "Footer" /\ rest.footer = NoFooter
                                          THEN payload ELSE rest.footer,
                               garbled |-> rest.garbled,
                               err |-> FALSE]
    IN  IF file = <<>> THEN HeaderError ELSE From[2]
=============================================================================
