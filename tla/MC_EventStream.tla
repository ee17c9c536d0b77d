--------------------------- MODULE MC_EventStream ---------------------------
(***************************************************************************)
(* Instance of EventStream for TLC: two operations in each of two projects,*)
(* which the collation of the database and JavaScript order oppositely.    *)
(***************************************************************************)
EXTENDS EventStream, TLC

CONSTANTS p1, p2, o1, o2, o3, o4

HomeOfFour == (o1 :> p1) @@ (o2 :> p1) @@ (o3 :> p2) @@ (o4 :> p2)
Ascending  == (p1 :> 1) @@ (p2 :> 2)
Descending == (p1 :> 2) @@ (p2 :> 1)

\* Operations of one project are alike.
Symmetry == Permutations(Writer) \cup Permutations(Cleaner)
              \cup Permutations({o1, o2}) \cup Permutations({o3, o4})
=============================================================================
