----------------------------- MODULE EdgeLedger -----------------------------
(***************************************************************************)
(* What recording edges promises, whatever tables, batches and locks it is *)
(* done with: an edge is entered once; it stays pending on its vCPU until  *)
(* that vCPU is settled, which leaves nothing pending there.  Each edge    *)
(* settled is delivered to the profile or given up, with its whole count,  *)
(* never both and never twice.  The end settles all vCPUs at once, with    *)
(* one decision for each edge, or (no profile) nothing any more.           *)
(***************************************************************************)
EXTENDS Naturals

CONSTANTS Vcpus, Edges

VARIABLES
    pending,     \* pending[v][e]: taken on v, neither delivered nor given up
    delivered,   \* delivered[v][e]: in the profile
    lost,        \* lost[v][e]: given up
    closed       \* no more edges

vars == <<pending, delivered, lost, closed>>

None == [v \in Vcpus |-> [e \in Edges |-> 0]]

Init == pending = None /\ delivered = None /\ lost = None /\ closed = FALSE

(* The guest takes edge e on vCPU v. *)
Record(v, e) ==
    /\ ~closed
    /\ pending' = [pending EXCEPT ![v][e] = @ + 1]
    /\ UNCHANGED <<delivered, lost, closed>>

(* Everything pending on the vCPUs in V leaves: the edges in D are delivered, *)
(* the others given up.                                                       *)
Settle(V, D) ==
    /\ ~closed
    /\ delivered' = [v \in Vcpus |-> [e \in Edges |->
                        delivered[v][e] + IF v \in V /\ e \in D THEN pending[v][e] ELSE 0]]
    /\ lost' = [v \in Vcpus |-> [e \in Edges |->
                        lost[v][e] + IF v \in V /\ e \notin D THEN pending[v][e] ELSE 0]]
    /\ pending' = [v \in Vcpus |-> IF v \in V THEN [e \in Edges |-> 0] ELSE pending[v]]

(* One vCPU is settled: a write may keep some edges and fail on the rest, *)
(* or there is no writer.                                                 *)
Flush(v) == UNCHANGED closed /\ \E D \in SUBSET Edges : Settle({v}, D)

(* The end: all vCPUs are settled, by one write that may fail half-way ... *)
Close == closed' = TRUE /\ \E D \in SUBSET Edges : Settle(Vcpus, D)

(* ... or there is no profile to deliver it to. *)
Abandon == ~closed /\ closed' = TRUE /\ UNCHANGED <<pending, delivered, lost>>

Next ==
    \/ \E v \in Vcpus, e \in Edges : Record(v, e)
    \/ \E v \in Vcpus : Flush(v)
    \/ Close
    \/ Abandon

Spec == Init /\ [][Next]_vars
=============================================================================
