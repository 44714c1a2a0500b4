----------------------------- MODULE TypeLists -----------------------------
(***************************************************************************)
(* A list of type names that are counted (UniqueStringList in              *)
(* include/ServerStore.h): a function from the pointer of each name to the *)
(* name and the count.                                                     *)
(*                                                                         *)
(* A name is freed when its count drops to zero, and a later name may be   *)
(* allocated at the same address, whoever still points there.              *)
(***************************************************************************)
EXTENDS Maps, Integers, FiniteSets

CONSTANT Pointer    \* what new char[] may return

\* Fault for TypeOK: the list is not searched first.
PushBlindly(list, name, effectRef) ==
    {[ptr |-> p, list |-> Put(list, p, [name |-> name, refCount |-> 1])] :
        p \in Pointer \ DOMAIN list}

\* Push: the pointer of the name and the list afterwards.  A name that is new
\* is stored at any free pointer, with a count of 1 whatever effectRef is.
Push(list, name, effectRef) ==
    LET found == {p \in DOMAIN list : list[p].name = name}
    IN  IF found # {}
        THEN {[ptr  |-> p,
               list |-> Put(list, p, [name |-> name,
                                      refCount |-> list[p].refCount + (IF effectRef THEN 1 ELSE 0)])] :
                  p \in found}
        ELSE {[ptr  |-> p,
               list |-> Put(list, p, [name |-> name, refCount |-> 1])] :
                  p \in Pointer \ DOMAIN list}

\* PopRef once for each of the servers in S, whose pointers are ptr[s]; a
\* pointer that is not in the list is not noticed.
PopRefs(list, S, ptr) ==
    LET pops(p) == Cardinality({s \in S : ptr[s] = p})
    IN  [p \in {q \in DOMAIN list : list[q].refCount > pops(q)} |->
            [list[p] EXCEPT !.refCount = @ - pops(p)]]

\* GetRef: the pointer of a name, none when the list does not have it.
GetRef(list, name) == {p \in DOMAIN list : list[p].name = name}

\* Fault for TypesInUse: the old name keeps its reference.
ReleaseNever(list, old, new) == list

\* Drop one reference to the old pointer, unless the record still has it.
Release(list, old, new) ==
    IF old = new THEN list ELSE PopRefs(list, {old}, [p \in {old} |-> p])

\* A type list holds each name once, with a positive count.
IsTypeList(list, Name) ==
    /\ DOMAIN list \subseteq Pointer
    /\ \A p \in DOMAIN list : list[p] \in [name : Name, refCount : Nat \ {0}]
    /\ \A p, q \in DOMAIN list : list[p].name = list[q].name => p = q

=============================================================================
