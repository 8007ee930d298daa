---------------------------- MODULE MCConverter ----------------------------
(***************************************************************************)
(* Workloads for Converter.  Tables: every sequence of up to three symbols *)
(* from candidates that share addresses, overlap, have no size, reach the  *)
(* end of the address space or are not indexed; no guest run.  Runs:       *)
(* binaries of two functions with loops, recursion, a call of a third, a   *)
(* fall-through between functions, unnamed code, a block inside another    *)
(* or at the start of another and a block translated again, at tiers 0 to  *)
(* 2, on one vCPU and on two.                                              *)
(***************************************************************************)
EXTENDS Converter

MCNameLen == "" :> 0 @@ "f" :> 1 @@ "g" :> 1 @@ "main" :> 4

Func(value, size, name) == [func |-> TRUE, value |-> value, size |-> size, name |-> name]

Candidates ==
    { Func(2, 4, "f"), Func(2, 4, "main"), Func(2, 2, "g"), Func(2, 0, "main"),
      Func(6, 0, "g"), Func(12, 4, "g"), Func(6, 3, "f"),
      Func(0, 4, "f"), Func(9, 0, ""), [Func(8, 2, "main") EXCEPT !.func = FALSE] }

Work(symbols, base, tbs, tier, vcpus, len, retrans) ==
    {[ symbols |-> symbols, segments |-> <<[exec |-> FALSE, vaddr |-> 0], [exec |-> TRUE, vaddr |-> 2]>>,
       load_addr |-> base, tbs |-> tbs, tier |-> tier, vcpus |-> vcpus, len |-> len,
       retrans |-> retrans, last |-> CHOOSE f \in LastAtStart(tbs) : TRUE, pred |-> pred ] :
        pred \in Predecessors(tbs)}

Tables ==
    UNION {Work(s, 0, {}, 1, {0}, 0, {}) : s \in UNION {[1 .. n -> Candidates] : n \in 0 .. 3}}

Block(start, end, kind, target, succ) ==
    [start |-> start, end |-> end, fall_through_addr |-> end + 1,
     kind |-> kind, target |-> target, succ |-> succ]

B2 == Block(2, 3, "direct", 6, {6})             \* calls the second function
B2C == Block(2, 3, "direct", 6, {4, 6})         \* calls it on a condition
B4 == Block(4, 5, "other", 0, {2, 6})           \* loops or runs into the next function
B4J == Block(4, 5, "direct", 2, {2})            \* jumps back
B6 == Block(6, 7, "indirect", 0, {2, 4, 6, 12}) \* returns or calls through a pointer
B6X == Block(6, 7, "indirect", 0, {2, 4, 5, 6}) \* also into the middle of a block
B4S == [B4 EXCEPT !.end = 4, !.fall_through_addr = 5, !.succ = {6}] \* a shorter B4
B5 == Block(5, 5, "other", 0, {2, 6})           \* the end of B4
B12 == Block(12, 12, "direct", 6, {6})          \* code without a symbol

TwoFunctions == <<Func(2, 4, "f"), Func(6, 3, "main")>>
SameName == <<Func(2, 4, "f"), Func(6, 3, "f")>>

Runs ==
    UNION {Work(TwoFunctions, base, {B2, B4, B6, B12}, tier, {0}, 5, retrans) :
        base \in {0, 4}, tier \in 0 .. 2, retrans \in {{}, {B6}}}
    \cup UNION {Work(s, 4, {B2, B4J, B6}, 2, {0}, 5, {}) : s \in {TwoFunctions, SameName}}
    \cup Work(TwoFunctions, 4, {B2C, B4, B6}, 2, {0}, 5, {})
    \cup Work(TwoFunctions, 0, {B2, B4, B5, B6X}, 2, {0}, 5, {B4})
    \cup Work(TwoFunctions, 0, {B2, B4, B4S, B6}, 1, {0}, 5, {})
    \cup UNION {Work(TwoFunctions, 0, {B2, B6}, tier, {0, 1}, 4, {B6}) : tier \in {0, 2}}

MCWorkloads == Tables \cup Runs
=============================================================================
