---------------------------- MODULE SendContract ----------------------------
(***************************************************************************)
(* What the delivery of one operation promises about provider calls, with  *)
(* no queue, worker, crash, routing or evidence in sight.  Each attempt    *)
(* has one entry in a ledger:                                              *)
(*                                                                         *)
(*   open     no right to call the provider                                *)
(*   granted  the one right to call it, counted against the budget         *)
(*   sent     called                                                       *)
(*   spent    granted, and certain never to be called                      *)
(*   void     never granted, and certain never to be                       *)
(***************************************************************************)
EXTENDS Integers, FiniteSets

CONSTANTS AttemptId, MaxSends

VARIABLES ledger, phase

Entry == {"open", "granted", "sent", "spent", "void"}
Phase == {"new", "sending", "ended"}

\* The moves of one entry.  There is no way out of sent, spent and void.
Move == {<<"open", "granted">>, <<"open", "void">>, <<"granted", "sent">>,
         <<"granted", "spent">>}

counted == {a \in AttemptId : ledger[a] \in {"granted", "sent", "spent"}}
grants  == {a \in AttemptId : ledger[a] # "granted" /\ ledger'[a] = "granted"}

Init ==
  /\ ledger = [a \in AttemptId |-> "open"]
  /\ phase = "new"

\* One step may settle several attempts, and end the operation, at once.
Next ==
  /\ ledger' \in [AttemptId -> Entry]
  /\ \A a \in AttemptId : ledger'[a] = ledger[a] \/ <<ledger[a], ledger'[a]>> \in Move
  /\ \/ phase' = phase
     \/ phase = "new" /\ phase' \in {"sending", "ended"}
     \/ phase = "sending" /\ phase' = "ended"
  /\ grants # {} =>
       /\ phase = "sending" /\ phase' = "sending"
       /\ Cardinality(grants) = 1
       /\ Cardinality(counted) < MaxSends

Spec == Init /\ [][Next]_<<ledger, phase>>
=============================================================================
