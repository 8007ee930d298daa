----------------------------- MODULE ProfileLog -----------------------------
(***************************************************************************)
(* The profile from ProfileWriter::new to the footer: the calls that       *)
(* init_writer_if_needed, flush_edges and plugin_exit make on the writer,  *)
(* the BufWriter between them and the file, failing writes and a process   *)
(* that dies; what native::parse makes of the file at any moment.          *)
(*                                                                         *)
(* The writer's lock serialises the calls.  A call writes a record for     *)
(* each chunk of its entries, unit by unit; the first error abandons the   *)
(* rest of that call only, for every caller ignores the result and goes on *)
(* with its next call.  BufWriter (external, std) writes its buffer out    *)
(* when the next unit does not fit and on flush; a write may fail after a  *)
(* part of the buffer has gone out, and the buffer then keeps the rest.    *)
(***************************************************************************)
EXTENDS ProfileFormat, FiniteSets

CONSTANTS
    Tier,          \* 0 .. 3 (3: built with the tier3 feature)
    BufUnits,      \* units the BufWriter holds
    MaxBatch,      \* bound: entries of a batch
    MaxFlushes,    \* bound: streaming flushes
    MaxFailures    \* bound: failing writes

ASSUME TierAssumption == Tier \in 0 .. 3
ASSUME BufUnitsAssumption == BufUnits \in Nat \ {0}
ASSUME BoundsAssumption == MaxBatch \in Nat /\ MaxFlushes \in Nat /\ MaxFailures \in Nat

VARIABLES
    stage,      \* "open", "run", "exit", "done", "dead"
    file,       \* what is in the file
    buf,        \* what is in the BufWriter
    todo,       \* parts of the profile the callback has still to write
    call,       \* the call under way: entries left to write, flush left to do
    record,     \* units left to write of the record under way
    tbTotal,    \* total_tb_count
    edgeTotal,  \* total_edge_records
    flushes,    \* streaming flushes so far
    failures,   \* writes that failed
    logged,     \* history: entries handed to the writer that the reader has a case for
    synced      \* history: Len(logged) when flush last succeeded, before any failure

totals == <<tbTotal, edgeTotal>>
history == <<failures, logged, synced>>
vars == <<stage, file, buf, todo, call, record, totals, flushes, history>>

(* A part of the profile: a kind and how many entries of it.  It is one call *)
(* for a batch, one for each entry of another kind.                          *)
Part(tag, n) == [tag |-> tag, n |-> n]

(* New entries, told apart by their place in the log. *)
NewEntries(part) == [i \in 1 .. part.n |-> Entry(part.tag, Len(logged) + i)]

NoCall == [tag |-> "none", rest |-> <<>>, flush |-> FALSE]

Init ==
    /\ stage = "open"
    /\ file = <<>>
    /\ buf = <<>>
    /\ todo = <<>>
    /\ call = NoCall
    /\ record = <<>>
    /\ tbTotal = 0
    /\ edgeTotal = 0
    /\ flushes = 0
    /\ failures = 0
    /\ logged = <<>>
    /\ synced = 0

(* All records of the call are written; and it has returned. *)
Written == record = <<>> /\ call.rest = <<>>
Idle == Written /\ ~call.flush

(* ProfileWriter::new and the three metadata records of init_writer_if_needed. *)
OpenLog ==
    /\ stage = "open"
    /\ stage' = "run"
    /\ todo' = <<Part("FileHeader", 1), Part("StringMeta", 3)>>
    /\ UNCHANGED <<file, buf, call, record, totals, flushes, history>>

(* flush_edges under the writer lock: a batch, then its marker. *)
FlushEdges(n) ==
    /\ stage = "run"
    /\ Tier >= 1
    /\ todo = <<>> /\ Idle
    /\ flushes < MaxFlushes
    /\ flushes' = flushes + 1
    /\ todo' = <<Part("BranchEdgeBatch", n), Part("FlushMarker", 1)>>
    /\ UNCHANGED <<stage, file, buf, call, record, totals, history>>

(* What plugin_exit writes, in its order: at each tier, and of each kind. *)
ExitParts(nTb, nEdge) ==
    <<Part("SymbolEntry", 1), Part("TbExecBatch", nTb)>>
    \o (IF Tier >= 1
        THEN <<Part("BranchEdgeBatch", nEdge), Part("FallThroughBatch", 1)>> ELSE <<>>)
    \o (IF Tier >= 2
        THEN <<Part("DirectCallBatch", 1), Part("IndirectCallBatch", nEdge)>> ELSE <<>>)
    \o (IF Tier >= 3
        THEN <<Part("TbResource", 1), Part("DeviceAccess", 1), Part("Discontinuity", 1)>>
        ELSE <<>>)
    \o <<Part("Footer", 1)>>

(* plugin_exit: the parts of the tier, then the footer; ... *)
PluginExit(nTb, nEdge) ==
    /\ stage = "run"
    /\ todo = <<>> /\ Idle
    /\ stage' = "exit"
    /\ todo' = ExitParts(nTb, nEdge)
    /\ UNCHANGED <<file, buf, call, record, totals, flushes, history>>

(* ... and it returns. *)
ExitReturns ==
    /\ stage = "exit"
    /\ todo = <<>> /\ Idle
    /\ stage' = "done"
    /\ UNCHANGED <<file, buf, todo, call, record, totals, flushes, history>>

(* The next part is handed to the writer. *)
StartCall ==
    /\ todo # <<>> /\ Idle
    /\ LET tag == Head(todo).tag
           new == NewEntries(Head(todo))
       IN  /\ call' = [tag |-> tag, rest |-> new, flush |-> tag \in {"FlushMarker", "Footer"}]
           /\ logged' = IF tag \in ReadTags THEN logged \o new ELSE logged
    /\ todo' = Tail(todo)
    /\ UNCHANGED <<stage, file, buf, record, totals, flushes, failures, synced>>

(* slice::chunks: as many entries as fit in a record. *)
ChunkLen ==
    LET fit == IF call.tag \in BatchTags THEN MaxPerRecord ELSE 1
    IN  IF fit < Len(call.rest) THEN fit ELSE Len(call.rest)

(* The record of a chunk.  The footer carries the totals of this moment. *)
Record(chunk) ==
    CASE call.tag \in BatchTags -> BatchRecord(call.tag, chunk)
      [] call.tag \in ItemTags -> ItemRecord(chunk[1])
      [] call.tag = "FileHeader" -> <<FileHeader>>
      [] call.tag = "FlushMarker" -> MarkerRecord
      [] call.tag = "Footer" -> FooterRecord(tbTotal, edgeTotal)

(* Mutant: slice::chunks_exact, which leaves out a shorter last chunk. *)
NextRecord_Exact ==
    /\ record = <<>> /\ call.rest # <<>>
    /\ LET whole == call.tag \in BatchTags => Len(call.rest) >= MaxPerRecord
       IN  /\ record' = IF whole THEN Record(SubSeq(call.rest, 1, ChunkLen)) ELSE <<>>
           /\ call' = [call EXCEPT !.rest = SubSeq(@, ChunkLen + 1, Len(@))]
    /\ UNCHANGED <<stage, file, buf, todo, totals, flushes, history>>

(* One turn of the loop over the chunks of a batch, or the one record of another kind. *)
NextRecord ==
    /\ record = <<>> /\ call.rest # <<>>
    /\ record' = Record(SubSeq(call.rest, 1, ChunkLen))
    /\ call' = [call EXCEPT !.rest = SubSeq(@, ChunkLen + 1, Len(@))]
    /\ UNCHANGED <<stage, file, buf, todo, totals, flushes, history>>

(* Mutant: the fall-through records are not added to the total. *)
Credit_BranchOnly(x) ==
    /\ tbTotal' = IF x.u = "entry" /\ x.e.tag = "TbExecBatch"
                  THEN tbTotal + x.closes ELSE tbTotal
    /\ edgeTotal' = IF x.u = "entry" /\ x.e.tag = "BranchEdgeBatch"
                    THEN edgeTotal + x.closes ELSE edgeTotal

(* After the last entry of a record its count is added to the totals. *)
Credit(x) ==
    /\ tbTotal' = IF x.u = "entry" /\ x.e.tag = "TbExecBatch"
                  THEN tbTotal + x.closes ELSE tbTotal
    /\ edgeTotal' = IF x.u = "entry" /\ x.e.tag \in {"BranchEdgeBatch", "FallThroughBatch"}
                    THEN edgeTotal + x.closes ELSE edgeTotal

(* write_all: into the buffer, after writing the buffer out if it is full. *)
WriteUnit ==
    /\ record # <<>>
    /\ IF Len(buf) < BufUnits
       THEN /\ buf' = Append(buf, Head(record))
            /\ UNCHANGED file
       ELSE /\ buf' = <<Head(record)>>
            /\ file' = file \o buf
    /\ Credit(Head(record))
    /\ record' = Tail(record)
    /\ UNCHANGED <<stage, todo, call, flushes, history>>

(* BufWriter::flush at the end of a marker or of the footer. *)
FlushBuffer ==
    /\ Written /\ call.flush
    /\ file' = file \o buf
    /\ buf' = <<>>
    /\ synced' = IF failures = 0 THEN Len(logged) ELSE synced
    /\ call' = [call EXCEPT !.flush = FALSE]
    /\ UNCHANGED <<stage, todo, record, totals, flushes, failures, logged>>

(* The buffer has to be written out and the file takes only a part of it: *)
(* the call returns an error, which its caller ignores.                   *)
WriteFails(n) ==
    /\ (record # <<>> /\ Len(buf) = BufUnits) \/ (Written /\ call.flush)
    /\ failures < MaxFailures
    /\ n < Len(buf)
    /\ file' = file \o SubSeq(buf, 1, n)
    /\ buf' = SubSeq(buf, n + 1, Len(buf))
    /\ failures' = failures + 1
    /\ record' = <<>>
    /\ call' = [call EXCEPT !.rest = IF call.tag \in BatchTags THEN <<>> ELSE @, !.flush = FALSE]
    /\ UNCHANGED <<stage, todo, totals, flushes, logged, synced>>

(* The process is killed: the buffer is gone, the file stays. *)
Crash ==
    /\ stage \in {"run", "exit"}
    /\ stage' = "dead"
    /\ buf' = <<>>
    /\ todo' = <<>>
    /\ call' = NoCall
    /\ record' = <<>>
    /\ UNCHANGED <<file, totals, flushes, history>>

Next ==
    \/ OpenLog
    \/ \E n \in 1 .. MaxBatch : FlushEdges(n)
    \/ \E nTb \in 1 .. MaxBatch, nEdge \in 0 .. MaxBatch : PluginExit(nTb, nEdge)
    \/ ExitReturns
    \/ StartCall
    \/ NextRecord
    \/ WriteUnit
    \/ FlushBuffer
    \/ \E n \in 0 .. BufUnits - 1 : WriteFails(n)
    \/ Crash

Spec == Init /\ [][Next]_vars
-----------------------------------------------------------------------------
(***************************************************************************)
(* Crash tolerance of the append-only log: whatever part of the buffer has *)
(* reached the file when the process dies, the reader gets a prefix of     *)
(* what was logged, whole entries in order, and never misreads a record.   *)
(***************************************************************************)
CrashLeavesPrefix ==
    failures = 0 =>
        LET p == Parse(file)
        IN  ~p.garbled /\ IsPrefix(p.entries, logged)

(***************************************************************************)
(* What a flush marker has made durable stays readable: neither a crash    *)
(* nor a later failing write can take it back.                             *)
(***************************************************************************)
FlushedStaysReadable ==
    synced > 0 => IsPrefix(SubSeq(logged, 1, synced), Parse(file).entries)

(* The entries of some kinds. *)
Count(entries, tags) == Cardinality({i \in DOMAIN entries : entries[i].tag \in tags})

(***************************************************************************)
(* Round trip: after an exit without failing writes the reader gets every  *)
(* entry it has a case for, over all chunk boundaries, and a footer whose  *)
(* totals are the numbers of blocks and edges it read.                     *)
(***************************************************************************)
RoundTrip ==
    stage = "done" /\ failures = 0 =>
        LET p == Parse(file)
        IN  /\ p.entries = logged
            /\ p.footer = <<FooterUnit(Count(logged, {"TbExecBatch"}),
                                       Count(logged, {"BranchEdgeBatch", "FallThroughBatch"}))>>
=============================================================================
