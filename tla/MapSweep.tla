------------------------------ MODULE MapSweep ------------------------------
(***************************************************************************)
(* The sweep that FloodControl::DoProcessing and                           *)
(* ServerStoreRAM::DoProcessing share: an iterator into a std::map is kept *)
(* between calls, each call goes through the next few entries, erases some *)
(* of them, and goes back to begin() once it is at end().                  *)
(*                                                                         *)
(* A map is given by the set S of its keys, numbers in the order of the    *)
(* map; an iterator is a key or End.                                       *)
(***************************************************************************)
EXTENDS Maps, Integers, FiniteSets

CONSTANT End    \* end(), after every key

ASSUME EndAssumption == End \in Nat

\* The first key at or after place k, else end().
FirstFrom(S, k) == CHOOSE a \in S \cup {End} :
                      /\ a >= k
                      /\ \A b \in S : b >= k => a <= b

\* The keys one call goes through: --count is tested before each of them, so
\* count - 1 keys, fewer when the iterator reaches end().
VisitedFrom(S, it, count) ==
    {a \in S : a >= it /\ Cardinality({b \in S : it <= b /\ b <= a}) < count}

\* Where the iterator is after the call: past the keys visited; from end() back
\* to the beginning of what is left.
PlaceAfter(S, it, count, erased) ==
    LET next == FirstFrom(S \ VisitedFrom(S, it, count), it)
    IN  IF next = End THEN FirstFrom(S \ erased, 0) ELSE next

=============================================================================
