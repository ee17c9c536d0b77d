------------------------- MODULE AdmissionContract -------------------------
(***************************************************************************)
(* What the delivery service promises about requests and sends, as if one  *)
(* clerk did one thing at a time and kept a record of all of it: there are *)
(* no sessions, locks, receipts, quota events, expiry jobs or retention,   *)
(* and every decision is made from the record alone.                       *)
(***************************************************************************)
EXTENDS Integers, FiniteSets

CONSTANTS
  Command,       \* what a client asks for, but for the code it brings
  Result,        \* what a command comes to: an operation and its attempt
  None, NoAnswer,
  recipientCreateLimit15m, recipientSendLimit15m, deploymentSendLimit15m,
  sharedSendLimit24h, AdmissionWindow, Window, Day

VARIABLES
  done,          \* the commands executed, each with its result
  log,           \* the admissions, the sends users asked for and the sends
  rejected,      \* the operations whose code was taken and will never be sent
  answer,        \* the answer just given, if any
  now

Init == done = {} /\ log = {} /\ rejected = {} /\ answer = NoAnswer /\ now = 0

-----------------------------------------------------------------------------
closed(o) == \E d \in done : d.command.name = "close" /\ d.command.target = o

\* What the record d admitted is o, and it may still be worked on.
open(d, o) ==
  /\ d.command.target = None /\ d.result.operation = o
  /\ now < d.command.expiresAt
  /\ ~closed(o)

newOperation(o) == \A d \in done : d.result.operation # o
newAttempt(a)   == a # None /\ \A d \in done : d.result.attempt # a
known(result)   == \E d \in done : d.result = result

\* The code of o has been submitted: some command came to an attempt of it.
coded(o) == \E d \in done : d.result.operation = o /\ d.result.attempt # None

-----------------------------------------------------------------------------
since(window) == {e \in log : e.at > now - window}

leftAlone(who) == \A e \in since(AdmissionWindow) : e.who # who

roomToAdmit(who) ==
  /\ leftAlone(who)
  /\ Cardinality({e \in since(Window) : e.what = "create" /\ e.who = who})
       < recipientCreateLimit15m

sends(window) == {e \in since(window) : e.what = "send"}

roomToSend(who) ==
  /\ Cardinality({e \in sends(Window) : e.who = who}) < recipientSendLimit15m
  /\ Cardinality(sends(Window)) < deploymentSendLimit15m
  /\ Cardinality(sends(Day)) < sharedSendLimit24h

-----------------------------------------------------------------------------
notes(what, who, o, id) ==
  log' = log \cup {[what |-> what, who |-> who, operation |-> o, id |-> id, at |-> now]}

\* A command is executed once; only closing again is harmless.
executes(c, result) ==
  /\ c.name # "close" => \A d \in done : d.command # c
  /\ done' = done \cup {[command |-> c, result |-> result]}
  /\ answer' = [command |-> c, result |-> result]
  /\ UNCHANGED <<rejected, now>>

Admit(c, result) ==
  /\ c.name \in {"prepare", "create"}
  /\ now < c.expiresAt
  /\ newOperation(result.operation)
  /\ IF c.name = "create" THEN newAttempt(result.attempt) ELSE result.attempt = None
  /\ roomToAdmit(c.recipient)
  /\ executes(c, result)
  /\ notes("create", c.recipient, result.operation, <<"operation", result.operation>>)

\* The code of an operation makes one attempt, however many clients submit it, and none
\* when it was rejected.
Submit(c, result) ==
  /\ c.name = "submit" /\ result.operation = c.target
  /\ \E d \in done : open(d, c.target)
  /\ \/ c.target \in rejected /\ known(result) /\ result.attempt = None
     \/ c.target \notin rejected /\ coded(c.target) /\ known(result) /\ result.attempt # None
     \/ c.target \notin rejected /\ ~coded(c.target) /\ newAttempt(result.attempt)
  /\ executes(c, result)
  /\ log' = log

\* The first code may be taken without an attempt: the client hears of no success, and
\* nothing is ever sent for the operation.
Reject(c) ==
  /\ c.name = "submit"
  /\ c.target \notin rejected /\ ~coded(c.target)
  /\ \E d \in done : open(d, c.target)
  /\ rejected' = rejected \cup {c.target}
  /\ answer' = NoAnswer
  /\ UNCHANGED <<done, log, now>>

Deliver(c, result) ==
  /\ c.name = "deliver" /\ result.operation = c.target
  /\ coded(c.target) /\ newAttempt(result.attempt)
  /\ \E d \in done :
       /\ open(d, c.target)
       /\ leftAlone(d.command.recipient)
       /\ notes("deliver", d.command.recipient, c.target, <<"attempt", result.attempt>>)
  /\ executes(c, result)

Close(c, result) ==
  /\ c.name = "close" /\ result.operation = c.target
  /\ known(result)
  /\ executes(c, result)
  /\ log' = log

\* A send is the only one of an attempt that some command came to, and goes to the
\* recipient the operation was admitted for.
Send ==
  /\ \E d, x \in done :
       LET o  == x.result.operation
           id == <<"attempt", x.result.attempt>>
       IN  /\ x.result.attempt # None
           /\ open(d, o)
           /\ \A e \in log : ~(e.what = "send" /\ e.id = id)
           /\ roomToSend(d.command.recipient)
           /\ notes("send", d.command.recipient, o, id)
  /\ answer' = NoAnswer
  /\ UNCHANGED <<done, rejected, now>>

Repeat == answer' \in done /\ UNCHANGED <<done, log, rejected, now>>

\* A refusal, or something no client notices.
Nothing == answer' = NoAnswer /\ UNCHANGED <<done, log, rejected, now>>

Tick == now' = now + 1 /\ answer' = NoAnswer /\ UNCHANGED <<done, log, rejected>>

Next ==
  \/ Nothing \/ Repeat \/ Tick \/ Send
  \/ \E c \in Command :
       \/ Reject(c)
       \/ \E result \in Result :
            Admit(c, result) \/ Submit(c, result) \/ Deliver(c, result) \/ Close(c, result)

Spec == Init /\ [][Next]_<<done, log, rejected, answer, now>>
=============================================================================
