------------------------------ MODULE ElfIndex ------------------------------
(***************************************************************************)
(* The converter's symbol index (convert/src/elf_index.rs) as operators:   *)
(* which of the ELF's symbols it keeps, the sizes it infers and how it     *)
(* finds the symbol of an address.                                         *)
(*                                                                         *)
(* A symbol is [func, value, size, name], as the loop over .symtab and     *)
(* .dynsym sees it; both tables' names are looked up in .strtab.  An index *)
(* is a function from addresses to symbols.  Addresses wrap at AddrSpace.  *)
(* Parsing the file itself (goblin) and the build id are left out.         *)
(***************************************************************************)
EXTENDS Integers, Sequences

CONSTANTS
    AddrSpace,     \* 2^64
    SizeCap,       \* 0x10000: the largest inferred size
    LastSize,      \* 0x1000: the size inferred for the last symbol
    NameLen,       \* length of each symbol name
    NoName         \* the empty name

ASSUME SizesAssumption ==
    /\ AddrSpace \in Nat \ {0}
    /\ SizeCap \in Nat \ {0}
    /\ LastSize \in 1 .. SizeCap
ASSUME NameLenAssumption == \A n \in DOMAIN NameLen : NameLen[n] \in Nat

Unknown == "[unknown]"

(* The loop skips everything but named functions at a non-zero address. *)
Indexable(s) == s.func /\ s.value # 0 /\ s.name # NoName

(* Mutant: a name of the same length also replaces. *)
Replaces_Ties(new, old) ==
    \/ old.size = 0 /\ new.size > 0
    \/ (old.size > 0 <=> new.size > 0) /\ NameLen[new.name] >= NameLen[old.name]

(* Does a symbol displace the one already indexed at its address? *)
Replaces(new, old) ==
    \/ old.size = 0 /\ new.size > 0
    \/ (old.size > 0 <=> new.size > 0) /\ NameLen[new.name] > NameLen[old.name]

(* One turn of the loop over the ELF's symbols. *)
AddSymbol(index, s) ==
    IF Indexable(s) /\ (s.value \in DOMAIN index => Replaces(s, index[s.value]))
    THEN [a \in DOMAIN index \cup {s.value} |-> IF a = s.value THEN s ELSE index[a]]
    ELSE index

(* The gap to the next symbol, capped. *)
InferredSize(addrs, a) ==
    LET later == {b \in addrs : b > a}
        next == CHOOSE b \in later : \A c \in later : b <= c
    IN  IF later = {} THEN LastSize
        ELSE IF next - a <= SizeCap THEN next - a ELSE SizeCap

(* The second loop: symbols without a size get one. *)
InferSizes(index) ==
    [a \in DOMAIN index |->
        IF index[a].size = 0
        THEN [index[a] EXCEPT !.size = InferredSize(DOMAIN index, a)]
        ELSE index[a]]

(* The first executable PT_LOAD segment. *)
LoadAddr(segments) ==
    LET code == {i \in DOMAIN segments : segments[i].exec}
    IN  IF code = {} THEN 0
        ELSE segments[CHOOSE i \in code : \A j \in code : i <= j].vaddr

(* Mutant: the address just behind the symbol still belongs to it. *)
SymbolAt_Inclusive(index, a) ==
    {index[b] : b \in {b \in DOMAIN index :
                         /\ b <= a
                         /\ \A c \in DOMAIN index : c <= a => c <= b
                         /\ a <= (index[b].value + index[b].size) % AddrSpace}}

(* symbol_at: the symbol with the largest address <= a, if it reaches a. *)
SymbolAt(index, a) ==
    {index[b] : b \in {b \in DOMAIN index :
                         /\ b <= a
                         /\ \A c \in DOMAIN index : c <= a => c <= b
                         /\ a < (index[b].value + index[b].size) % AddrSpace}}

(* name_at *)
NameAt(index, a) ==
    IF SymbolAt(index, a) = {} THEN Unknown ELSE (CHOOSE s \in SymbolAt(index, a) : TRUE).name
=============================================================================
