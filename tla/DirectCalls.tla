---------------------------- MODULE DirectCalls ----------------------------
(***************************************************************************)
(* plugin_exit (plugin/src/lib.rs): the execution count given to a direct  *)
(* call, looked up in the blocks of tb_map by the address of the call.     *)
(*                                                                         *)
(* The code sorts the blocks by start address and takes the one before the *)
(* partition point of `start <= cs`.  The sort is unstable, so among the   *)
(* blocks that start at one address any may come last: `last` is that      *)
(* choice, one block per start address, the same for every call site.      *)
(***************************************************************************)
EXTENDS Naturals

(* The orders the unstable sort may leave: which block is last at each start. *)
LastAtStart(tbs) ==
    {f \in [{b.start : b \in tbs} -> tbs] : \A s \in DOMAIN f : f[s].start = s}

(* partition_point(start <= cs) - 1: the largest start, if there is one. *)
IndexedStarts(last, cs) ==
    {s \in DOMAIN last : s <= cs /\ \A r \in DOMAIN last : r <= cs => r <= s}

(* Mutant: the address of a block's last instruction is taken for its open end. *)
CallCount_OpenEnd(last, exec, cs) ==
    IF \E s \in IndexedStarts(last, cs) : cs < last[s].end
    THEN exec[last[CHOOSE s \in IndexedStarts(last, cs) : TRUE]]
    ELSE 0

(* The count of the indexed block if it reaches the call site, else 0. *)
CallCount(last, exec, cs) ==
    IF \E s \in IndexedStarts(last, cs) : cs <= last[s].end
    THEN exec[last[CHOOSE s \in IndexedStarts(last, cs) : TRUE]]
    ELSE 0

(* The blocks that contain the call site. *)
Containing(tbs, cs) == {b \in tbs : b.start <= cs /\ cs <= b.end}

(* No other block starts between the start of b and the call site. *)
Unshadowed(tbs, b, cs) ==
    \A c \in tbs \ {b} : ~(b.start <= c.start /\ c.start <= cs)
=============================================================================
