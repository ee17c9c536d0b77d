---------------------------- MODULE MC_Admission ----------------------------
(* Instances of Admission for TLC. *)
EXTENDS Admission, TLC

CONSTANTS r1, r2, c1, c2

\* A request that names an operation brings no recipient and no deadline.
to(name, key, target, code) ==
  [name |-> name, key |-> key, target |-> target, recipient |-> r1, code |-> code,
   expiresAt |-> 0]
new(name, key, who, code, expiresAt) ==
  [name |-> name, key |-> key, target |-> None, recipient |-> who, code |-> code,
   expiresAt |-> expiresAt]

\* A creation sent again with the same code and with another one, a user's send, and
\* the end of the operation.
Repeated == {new("create", "k1", r1, c1, 4), new("create", "k1", r1, c2, 4),
             to("deliver", "k3", 1, NoCode), to("close", "k6", 1, NoCode)}
\* A preparation, two clients that submit its code, and a second operation for the
\* same recipient.
Submitted == {new("prepare", "k4", r1, NoCode, 4), to("submit", "k5", 1, c1),
              to("submit", "k5", 1, c2), new("create", "k2", r1, c1, 5)}
\* The same code submitted twice, and a user's send of what may have been rejected.
Rejected == {new("prepare", "k4", r1, NoCode, 4), to("submit", "k5", 1, c1),
             to("submit", "k8", 1, c1), to("deliver", "k3", 1, NoCode)}
\* Two recipients that share the limits of the provider and the deployment.
Crowded == {new("create", "k1", r1, c1, 4), new("create", "k7", r2, c1, 5),
            to("deliver", "k3", 1, NoCode)}
Instances == {Repeated, Submitted, Rejected, Crowded}

Recipients == {r1, r2}
Codes      == {c1, c2}
Symmetric  == Permutations(Session)
=============================================================================
