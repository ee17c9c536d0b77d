----------------------------- MODULE EventStream -----------------------------
(***************************************************************************)
(* The event streams of the projects: domain transactions that publish     *)
(* events, clients that page through the feed and the operation listing    *)
(* with cursors, and the cleanup that deletes old events.                  *)
(*                                                                         *)
(* A transaction is several steps here.  What it writes is its own until   *)
(* it commits; what it locks (one row of project_streams for each project) *)
(* stays locked until then; it may be rolled back at any time.             *)
(***************************************************************************)
EXTENDS Integers, FiniteSets

CONSTANTS
  Project,
  Operation,     \* identifiers an operation can be given
  Home,          \* the project of each operation
  Writer,        \* domain transactions under way
  Cleaner,       \* cleanups of events under way
  Reader,        \* clients of the event feed
  Lister,        \* clients of the operation listing
  SqlRank,       \* ORDER BY project_id, in the collation of the database
  JsRank,        \* Array.prototype.sort on project identifiers, by UTF-16 units
  Limit,         \* page size
  MaxSequence    \* bound: writers start no transaction beyond this head

ASSUME HomeAssumption  == Home \in [Operation -> Project]
ASSUME RankAssumption  == SqlRank \in [Project -> Nat] /\ JsRank \in [Project -> Nat]
ASSUME LimitAssumption == Limit \in Nat \ {0}
ASSUME BoundAssumption == MaxSequence \in Nat
ASSUME ActorAssumption == Writer \cap Cleaner = {}

VARIABLES
  head, floor,   \* project_streams: committed
  events,        \* committed and retained events
  creation,      \* creation_sequence of each operation, 0 before it is created
  existing,      \* operations in the database
  todo,          \* of each writer: operations whose event has no sequence yet
  done,          \* of each writer: its events with a sequence, not committed
  heads,         \* of each writer: the heads it advanced and holds, 0 elsewhere
  candidates,    \* of each cleaner: the events it found
  locked,        \* of each cleaner: the streams it holds
  reader,        \* clients of the feed
  lister,        \* clients of the listing
  log            \* history: every event ever committed

streamVars == <<head, floor, events, creation, existing, log>>
writerVars == <<todo, done, heads>>
cleanVars  == <<candidates, locked>>
vars == <<streamVars, writerVars, cleanVars, reader, lister>>

Event == [operation : Operation, sequence : Nat]
of(E, p) == {e \in E : Home[e.operation] = p}
sequences(E) == {e.sequence : e \in E}

\* A client holds a cursor unless it is fresh; while a request of it is open, the
\* window is what readWindow returned.
Feed == [project : Project, filter : SUBSET Operation, fresh : BOOLEAN,
         after : Nat, ceiling : Nat, open : BOOLEAN, from : Nat, to : Nat,
         start : Nat, seen : SUBSET Nat]
List == [project : Project, fresh : BOOLEAN, finished : BOOLEAN,
         after : Nat, ceiling : Nat, open : BOOLEAN, from : Nat, to : Nat,
         seen : SUBSET Operation]

TypeOK ==
  /\ head \in [Project -> Nat] /\ floor \in [Project -> Nat]
  /\ \A p \in Project : floor[p] <= head[p]
  /\ events \subseteq log /\ log \subseteq Event
  /\ creation \in [Operation -> Nat] /\ existing \subseteq Operation
  /\ todo \in [Writer -> SUBSET Operation]
  /\ done \in [Writer -> SUBSET Event]
  /\ heads \in [Writer -> [Project -> Nat]]
  /\ candidates \in [Cleaner -> SUBSET log]
  /\ locked \in [Cleaner -> SUBSET Project]
  /\ reader \in [Reader -> Feed]
  /\ lister \in [Lister -> List]

newFeed(p, F) == [project |-> p, filter |-> F, fresh |-> TRUE, after |-> 0, ceiling |-> 0,
                  open |-> FALSE, from |-> 0, to |-> 0, start |-> 0, seen |-> {}]
newList(p) == [project |-> p, fresh |-> TRUE, finished |-> FALSE, after |-> 0, ceiling |-> 0,
               open |-> FALSE, from |-> 0, to |-> 0, seen |-> {}]

\* A feed is read whole or for one operation.
Filter(p) == {Operation} \cup {{o} : o \in {x \in Operation : Home[x] = p}}

Init ==
  /\ head = [p \in Project |-> 0] /\ floor = [p \in Project |-> 0]
  /\ events = {} /\ log = {}
  /\ creation = [o \in Operation |-> 0] /\ existing = {}
  /\ todo = [w \in Writer |-> {}] /\ done = [w \in Writer |-> {}]
  /\ heads = [w \in Writer |-> [p \in Project |-> 0]]
  /\ candidates = [c \in Cleaner |-> {}] /\ locked = [c \in Cleaner |-> {}]
  /\ \E p \in Project : \E F \in Filter(p) :
       /\ reader = [r \in Reader |-> newFeed(p, F)]
       /\ lister = [l \in Lister |-> newList(p)]

-----------------------------------------------------------------------------
(***************************************************************************)
(* Row locks of project_streams.  A client locks nothing while the project *)
(* has no stream yet: its window is then empty.                            *)
(***************************************************************************)
holds(a, p) == IF a \in Writer THEN heads[a][p] # 0 ELSE p \in locked[a]

\* Mutant: readWindow reads the stream without FOR SHARE.
sharing_none(p) == FALSE
sharing(p) ==
  \/ \E r \in Reader : reader[r].open /\ reader[r].to # 0 /\ reader[r].project = p
  \/ \E l \in Lister : lister[l].open /\ lister[l].to # 0 /\ lister[l].project = p

available(a, p) ==
  /\ \A b \in (Writer \cup Cleaner) \ {a} : ~holds(b, p)
  /\ ~sharing(p)

readable(p) == head[p] = 0 \/ \A b \in Writer \cup Cleaner : ~holds(b, p)

-----------------------------------------------------------------------------
(***************************************************************************)
(* Domain transactions.                                                    *)
(***************************************************************************)
idle(w)   == todo[w] = {} /\ done[w] = {}
rows(w)   == todo[w] \cup {e.operation : e \in done[w]}
unborn(o) == creation[o] = 0

\* The transaction has changed these operations, whose rows it holds, and publishes an
\* event for each.
Write(w, O) ==
  /\ idle(w)
  /\ \A o \in O :
       /\ unborn(o) \/ o \in existing
       /\ \A v \in Writer \ {w} : o \notin rows(v)
  /\ \A o \in O : head[Home[o]] + Cardinality({x \in O : Home[x] = Home[o]}) <= MaxSequence
  /\ todo' = [todo EXCEPT ![w] = O]
  /\ UNCHANGED <<streamVars, done, heads, cleanVars, reader, lister>>

\* Mutant: events are numbered in the order they were written.
turn_byOrdinal(w, p) == \E o \in todo[w] : Home[o] = p
turn(w, p) ==
  /\ \E o \in todo[w] : Home[o] = p
  /\ \A o \in todo[w] : SqlRank[p] <= SqlRank[Home[o]]

\* The row is locked by its update and read as it was last committed.
advanced(w, p) == (IF heads[w][p] = 0 THEN head[p] ELSE heads[w][p]) + 1

\* Mutant: numbers come from a counter that no rollback takes back.
Finalize_atOnce(w, o) ==
  /\ o \in todo[w]
  /\ turn(w, Home[o])
  /\ available(w, Home[o])
  /\ head' = [head EXCEPT ![Home[o]] = @ + 1]
  /\ todo' = [todo EXCEPT ![w] = @ \ {o}]
  /\ done' = [done EXCEPT ![w] = @ \cup {[operation |-> o, sequence |-> head[Home[o]] + 1]}]
  /\ UNCHANGED <<floor, events, creation, existing, log, heads, cleanVars, reader, lister>>
\* finalizeEvents, one event: advance the head, number the event.
Finalize(w, o) ==
  /\ o \in todo[w]
  /\ turn(w, Home[o])
  /\ available(w, Home[o])
  /\ heads' = [heads EXCEPT ![w] = [heads[w] EXCEPT ![Home[o]] = advanced(w, Home[o])]]
  /\ todo' = [todo EXCEPT ![w] = todo[w] \ {o}]
  /\ done' = [done EXCEPT ![w] =
       done[w] \cup {[operation |-> o, sequence |-> advanced(w, Home[o])]}]
  /\ UNCHANGED <<streamVars, cleanVars, reader, lister>>

released(w) ==
  /\ todo' = [todo EXCEPT ![w] = {}]
  /\ done' = [done EXCEPT ![w] = {}]
  /\ heads' = [heads EXCEPT ![w] = [p \in Project |-> 0]]

\* Operations are listed in the order of their first event.
Commit(w) ==
  /\ todo[w] = {} /\ done[w] # {}
  /\ head' = [p \in Project |-> IF heads[w][p] = 0 THEN head[p] ELSE heads[w][p]]
  /\ events' = events \cup done[w]
  /\ log' = log \cup done[w]
  /\ creation' = [o \in Operation |->
       IF unborn(o) /\ o \in rows(w)
       THEN CHOOSE n \in sequences(done[w]) : [operation |-> o, sequence |-> n] \in done[w]
       ELSE creation[o]]
  /\ existing' = existing \cup rows(w)
  /\ released(w)
  /\ UNCHANGED <<floor, cleanVars, reader, lister>>

\* A fault, a timeout or an interruption.
Abort(w) ==
  /\ ~idle(w)
  /\ released(w)
  /\ UNCHANGED <<streamVars, cleanVars, reader, lister>>

\* The retention of operations, which ends with the commit of its own transaction.
DeleteOperation(o) ==
  /\ o \in existing
  /\ \A w \in Writer : o \notin rows(w)
  /\ existing' = existing \ {o}
  /\ UNCHANGED <<head, floor, events, creation, log, writerVars, cleanVars, reader, lister>>

-----------------------------------------------------------------------------
(***************************************************************************)
(* cleanupEvents.  Which events of deleted operations are old enough, and  *)
(* delivered, and within the batch, is left open.                          *)
(***************************************************************************)
Select(c, E) ==
  /\ candidates[c] = {}
  /\ E # {}
  /\ \A e \in E : e.operation \notin existing
  /\ candidates' = [candidates EXCEPT ![c] = E]
  /\ UNCHANGED <<streamVars, writerVars, locked, reader, lister>>

wanted(c) == {Home[e.operation] : e \in candidates[c]} \ locked[c]

Lock(c, p) ==
  /\ p \in wanted(c)
  /\ \A q \in wanted(c) : JsRank[p] <= JsRank[q]
  /\ available(c, p)
  /\ locked' = [locked EXCEPT ![c] = locked[c] \cup {p}]
  /\ UNCHANGED <<streamVars, writerVars, candidates, reader, lister>>

\* The floor rises to the last deleted event; a concurrent cleanup may have taken some.
raised(p, E) ==
  CHOOSE n \in {floor[p]} \cup sequences(of(E, p)) :
    \A m \in {floor[p]} \cup sequences(of(E, p)) : m <= n

Delete(c) ==
  /\ candidates[c] # {} /\ wanted(c) = {}
  /\ floor' = [p \in Project |-> raised(p, candidates[c] \cap events)]
  /\ events' = events \ candidates[c]
  /\ candidates' = [candidates EXCEPT ![c] = {}]
  /\ locked' = [locked EXCEPT ![c] = {}]
  /\ UNCHANGED <<head, creation, existing, log, writerVars, reader, lister>>

AbortCleanup(c) ==
  /\ candidates[c] # {}
  /\ candidates' = [candidates EXCEPT ![c] = {}]
  /\ locked' = [locked EXCEPT ![c] = {}]
  /\ UNCHANGED <<streamVars, writerVars, reader, lister>>

-----------------------------------------------------------------------------
(***************************************************************************)
(* The clients.  A request is open from the reading of the stream row to   *)
(* the page; the answer may get lost, and the client then repeats it.      *)
(***************************************************************************)
setReader(r, f) == reader' = [reader EXCEPT ![r] = f] /\ UNCHANGED <<streamVars, writerVars,
                                                                   cleanVars, lister>>
setLister(l, f) == lister' = [lister EXCEPT ![l] = f] /\ UNCHANGED <<streamVars, writerVars,
                                                                   cleanVars, reader>>

opened(f, from, to)  == [f EXCEPT !.open = TRUE, !.from = from, !.to = to]
closed(f)            == [f EXCEPT !.open = FALSE, !.from = 0, !.to = 0]

ceilingOf(f, p) == IF f.fresh \/ f.after = f.ceiling THEN head[p] ELSE f.ceiling

OpenFeed(r) ==
  LET f == reader[r] IN
  /\ ~f.open
  /\ readable(f.project)
  /\ f.fresh \/ f.after >= floor[f.project]
  /\ setReader(r, opened(f, IF f.fresh THEN floor[f.project] ELSE f.after,
                            ceilingOf(f, f.project)))

\* history_cursor_expired: the client knows, and starts again.
CursorExpired(r) ==
  LET f == reader[r] IN
  /\ ~f.open /\ ~f.fresh
  /\ readable(f.project)
  /\ f.after < floor[f.project]
  /\ setReader(r, newFeed(f.project, f.filter))

inWindow(f) == {e \in of(events, f.project) :
                  e.operation \in f.filter /\ f.from < e.sequence /\ e.sequence <= f.to}
firstOf(S) == {n \in S : Cardinality({m \in S : m <= n}) <= Limit}

\* Behind the last event of a full page, behind the window otherwise.
continuation(f, found) ==
  IF firstOf(found) = found THEN f.to
  ELSE CHOOSE n \in firstOf(found) : \A m \in firstOf(found) : m <= n

FeedPage(r) ==
  LET f == reader[r]
      found == sequences(inWindow(f))
  IN
  /\ f.open
  /\ setReader(r, [closed(f) EXCEPT
       !.fresh = FALSE, !.after = continuation(f, found), !.ceiling = f.to,
       !.start = IF f.fresh THEN f.from ELSE f.start,
       !.seen = f.seen \cup firstOf(found)])

FeedLost(r) == reader[r].open /\ setReader(r, closed(reader[r]))

\* Mutant: the listing starts at the replay floor, as the feed does.
listStart_floor(p) == floor[p]
listStart(p) == 0

OpenList(l) ==
  LET f == lister[l] IN
  /\ ~f.open /\ ~f.finished
  /\ readable(f.project)
  /\ setLister(l, opened(f, IF f.fresh THEN listStart(f.project) ELSE f.after,
                            IF f.fresh THEN head[f.project] ELSE f.ceiling))

listed(f) == {o \in existing : Home[o] = f.project /\ f.from < creation[o] /\ creation[o] <= f.to}

ListPage(l) ==
  LET f == lister[l]
      found == {creation[o] : o \in listed(f)}
  IN
  /\ f.open
  /\ setLister(l, [closed(f) EXCEPT
       !.fresh = FALSE, !.finished = (firstOf(found) = found),
       !.after = continuation(f, found), !.ceiling = f.to,
       !.seen = f.seen \cup {o \in listed(f) : creation[o] \in firstOf(found)}])

ListAgain(l) == lister[l].finished /\ setLister(l, newList(lister[l].project))

ListLost(l) == lister[l].open /\ setLister(l, closed(lister[l]))

-----------------------------------------------------------------------------
Publish(w) ==
  \/ \E O \in (SUBSET Operation) \ {{}} : Write(w, O)
  \/ \E o \in Operation : Finalize(w, o)
  \/ Commit(w)
  \/ Abort(w)

Clean(c) ==
  \/ \E E \in SUBSET events : Select(c, E)
  \/ \E p \in Project : Lock(c, p)
  \/ Delete(c)
  \/ AbortCleanup(c)

Next ==
  \/ \E w \in Writer : Publish(w)
  \/ \E o \in Operation : DeleteOperation(o)
  \/ \E c \in Cleaner : Clean(c)
  \/ \E r \in Reader : OpenFeed(r) \/ CursorExpired(r) \/ FeedPage(r) \/ FeedLost(r)
  \/ \E l \in Lister : OpenList(l) \/ ListPage(l) \/ ListLost(l) \/ ListAgain(l)

Spec == Init /\ [][Next]_vars

-----------------------------------------------------------------------------
(***************************************************************************)
(* Properties.                                                             *)
(***************************************************************************)
\* The committed sequence of a project has no gap and no number twice, whatever
\* transactions overlap or roll back, and nothing above the replay floor is missing
\* (history.md, sequences and the conservative floor).
StreamIsGapless ==
  \A p \in Project :
    /\ sequences(of(log, p)) = 1 .. head[p]
    /\ \A e, f \in of(log, p) : e.sequence = f.sequence => e = f
    /\ \A e \in of(log, p) : e.sequence > floor[p] => e \in events

\* A client that follows cursors has received every event of its filter committed
\* behind its starting point, up to its cursor, or is told that its cursor expired: it
\* never skips, however publication, cleanup and lost answers interleave.
FeedIsComplete ==
  \A r \in Reader : LET f == reader[r] IN
    ~f.fresh =>
      f.seen = sequences({e \in of(log, f.project) :
                            e.operation \in f.filter /\ f.start < e.sequence
                                                     /\ e.sequence <= f.after})

\* Nothing is ever published at or below a high-water mark that a client was given.
HighWaterIsFinal ==
  [][\A e \in log' \ log :
       /\ \A r \in Reader : Home[e.operation] = reader[r].project
                              => e.sequence > reader[r].ceiling
       /\ \A l \in Lister : Home[e.operation] = lister[l].project
                              => e.sequence > lister[l].ceiling]_vars

\* A listing contains every operation that existed at its high-water mark and still
\* does, although the feed has been cleaned up meanwhile.
ListingIsComplete ==
  \A l \in Lister : LET f == lister[l] IN
    \A o \in existing :
      (Home[o] = f.project /\ ~f.fresh
        /\ creation[o] <= (IF f.finished THEN f.ceiling ELSE f.after)) => o \in f.seen

\* Each transaction of S waits for a stream that another one of S holds.
wants(a, p) == IF a \in Writer THEN turn(a, p)
               ELSE p \in wanted(a) /\ \A q \in wanted(a) : JsRank[p] <= JsRank[q]
stuck(S) == \A a \in S : \E b \in S \ {a}, p \in Project : wants(a, p) /\ holds(b, p)

opposed == \E p, q \in Project : SqlRank[p] < SqlRank[q] /\ JsRank[q] < JsRank[p]

\* Transactions that publish take the stream heads in the order of SQL, and cleanups
\* in the order of JavaScript (finalizeEvents, cleanupEvents).  Neither kind can wait
\* for its own in a circle.  A circle takes both kinds, and two projects that the two
\* orders put the other way round; a lock timeout of the database then ends it.
CirclesNeedBothOrders ==
  \A S \in (SUBSET (Writer \cup Cleaner)) \ {{}} :
    stuck(S) => S \cap Writer # {} /\ S \cap Cleaner # {} /\ opposed
=============================================================================
