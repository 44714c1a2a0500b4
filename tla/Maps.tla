-------------------------------- MODULE Maps --------------------------------
(***************************************************************************)
(* A std::map as a function on the keys it has.                            *)
(***************************************************************************)

\* f with a mapped to v, whether or not a was in its domain.
Put(f, a, v) == [b \in DOMAIN f \cup {a} |-> IF b = a THEN v ELSE f[b]]

=============================================================================
