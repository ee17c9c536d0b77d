---------------------------- MODULE MC_Callbacks ----------------------------
(***************************************************************************)
(* Instance of Callbacks for TLC: two attempts through one provider, two   *)
(* sending numbers and two identifiers.                                    *)
(***************************************************************************)
EXTENDS Callbacks, TLC

Symmetry == Permutations(Attempt)

\* A length every adapter sends, and one only the Gateway does.
MCCodeLength == {4, 6}

\* Enough for every adapter, and less than the Gateway asks for.
MCRemainingMs == {29999, 60000}

\* Meta with two sending numbers, naming the attempt in no report or in some, and
\* with reports that differ in their seconds or not; the others with one sender.
instance(adapter, echo, second, coincide) ==
  [adapter |-> adapter, echo |-> echo, coincide |-> coincide,
   sender |-> [r \in 1 .. MaxRevision |-> IF r = 1 THEN "n1" ELSE second]]
MCEnvironment ==
  {instance("meta", {}, "n2", FALSE), instance("meta", {}, "n2", TRUE),
   instance("meta", {"delivered"}, "n2", FALSE),
   instance("telegram", {"delivered", "expired"}, "n1", FALSE),
   instance("custom", {}, "n1", FALSE), instance("play_mobile", {}, "n1", FALSE)}

\* Two of each adapter: one ends as delivered, one as failed.
MCObserved == {"delivered", "deleted", "expired", "cancelled"}
=============================================================================
