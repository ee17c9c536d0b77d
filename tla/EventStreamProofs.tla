-------------------------- MODULE EventStreamProofs --------------------------
(***************************************************************************)
(* Proofs about the event streams for any number of projects, operations,  *)
(* transactions, cleanups and clients, and every page size: the stream has *)
(* no gap, clients of the feed skip nothing, listings are complete.        *)
(***************************************************************************)
EXTENDS EventStream, FiniteSetTheorems, WellFoundedInduction, TLAPS

-----------------------------------------------------------------------------
(***************************************************************************)
(* Sets of numbers and pages of them.                                      *)
(***************************************************************************)
LEMMA Lowest ==
  ASSUME NEW S \in SUBSET Nat, S # {}
  PROVE  \E n \in S : \A m \in S : n <= m
<1>. DEFINE T == {0 .. n : n \in S}
<1>1. T \subseteq FiniteSubsetsOf(Nat)
  <2>. SUFFICES ASSUME NEW n \in S PROVE 0 .. n \in FiniteSubsetsOf(Nat)
    OBVIOUS
  <2>. QED BY FS_Interval DEF FiniteSubsetsOf
<1>2. T # {}
  OBVIOUS
<1>. HIDE DEF T
<1>3. PICK I \in T : \A J \in T : <<J, I>> \notin StrictSubsetOrdering(Nat)
  BY <1>1, <1>2, FS_StrictSubsetOrderingWellFounded, WFMin, Zenon
<1>4. PICK n \in S : I = 0 .. n
  BY DEF T
<1>5. ASSUME NEW m \in S, m < n PROVE FALSE
  <2>1. 0 .. m \in T
    BY DEF T
  <2>2. m \in Nat /\ n \in Nat
    OBVIOUS
  <2>3. 0 .. m \in SUBSET I /\ 0 .. m # I
    BY <1>4, <1>5, <2>2
  <2>4. 0 .. m \in SUBSET Nat /\ I \in SUBSET Nat
    BY <1>4, <2>2
  <2>5. <<0 .. m, I>> \in StrictSubsetOrdering(Nat)
    BY <2>3, <2>4 DEF StrictSubsetOrdering
  <2>. QED BY <1>3, <2>1, <2>5
<1>6. \A m \in S : m \in Nat /\ n \in Nat
  OBVIOUS
<1>. QED BY <1>5, <1>6

LEMMA Highest ==
  ASSUME NEW S \in SUBSET Nat, S # {}, NEW b \in Nat, \A n \in S : n <= b
  PROVE  \E n \in S : \A m \in S : m <= n
<1>. DEFINE T == {b - n : n \in S}
<1>1. T \in SUBSET Nat /\ T # {}
  <2>1. T # {}
    OBVIOUS
  <2>2. \A n \in S : b - n \in Nat
    OBVIOUS
  <2>. QED BY <2>1, <2>2
<1>2. PICK t \in T : \A u \in T : t <= u
  BY <1>1, Lowest
<1>3. PICK n \in S : t = b - n
  OBVIOUS
<1>4. \A m \in S : m <= n
  <2>. SUFFICES ASSUME NEW m \in S PROVE m <= n
    OBVIOUS
  <2>1. b - n <= b - m
    BY <1>2, <1>3
  <2>. QED BY <2>1
<1>. QED BY <1>4

\* The first Limit numbers of S are those up to the last of them.
LEMMA FirstOfIsPrefix ==
  ASSUME NEW S \in SUBSET Nat, NEW b \in Nat, \A n \in S : n <= b,
         firstOf(S) # S
  PROVE  \E n \in firstOf(S) : /\ \A m \in firstOf(S) : m <= n
                               /\ firstOf(S) = {m \in S : m <= n}
<1>. DEFINE upTo(n) == {m \in S : m <= n}
<1>1. ASSUME NEW n \in S
      PROVE  IsFiniteSet(upTo(n)) /\ Cardinality(upTo(n)) \in Nat
  <2>1. IsFiniteSet(upTo(n))
    BY FS_BoundedSetOfNaturals
  <2>. QED BY <2>1, FS_CardinalityType
<1>2. S # {}
  BY DEF firstOf
<1>3. firstOf(S) # {}
  <2>1. PICK n \in S : \A m \in S : n <= m
    BY <1>2, Lowest
  <2>2. upTo(n) = {n}
    <3>1. \A m \in S : m <= n => m = n
      <4>. \A m \in S : m \in Nat /\ n \in Nat
        OBVIOUS
      <4>. QED BY <2>1
    <3>. QED BY <3>1, n <= n
  <2>3. Cardinality(upTo(n)) = 1
    BY <2>2, FS_Singleton
  <2>. QED BY <2>3, LimitAssumption DEF firstOf
<1>4. firstOf(S) \in SUBSET Nat /\ \A n \in firstOf(S) : n <= b
  BY DEF firstOf
<1>5. PICK n \in firstOf(S) : \A m \in firstOf(S) : m <= n
  BY <1>3, <1>4, Highest
<1>6. ASSUME NEW m \in S, m <= n PROVE m \in firstOf(S)
  <2>1. n \in S /\ Cardinality(upTo(n)) <= Limit
    BY DEF firstOf
  <2>2. upTo(m) \in SUBSET upTo(n)
    <3>. SUFFICES ASSUME NEW k \in S, k <= m PROVE k <= n
      OBVIOUS
    <3>1. k \in Nat /\ m \in Nat /\ n \in Nat
      BY <2>1
    <3>. QED BY <1>6, <3>1
  <2>3. Cardinality(upTo(m)) <= Cardinality(upTo(n))
    BY <1>1, <2>1, <2>2, FS_Subset
  <2>4. Cardinality(upTo(m)) <= Limit
    BY <1>1, <2>1, <2>3, LimitAssumption
  <2>. QED BY <2>4 DEF firstOf
<1>. QED BY <1>5, <1>6 DEF firstOf

\* A page is what there is of the window up to its continuation.
LEMMA PageIsPrefix ==
  ASSUME NEW f, f.from \in Nat, f.to \in Nat, f.from <= f.to,
         NEW S \in SUBSET Nat, \A n \in S : f.from < n /\ n <= f.to
  PROVE  /\ continuation(f, S) \in Nat
         /\ f.from <= continuation(f, S) /\ continuation(f, S) <= f.to
         /\ firstOf(S) = {n \in S : n <= continuation(f, S)}
<1>1. CASE firstOf(S) = S
  <2>1. continuation(f, S) = f.to
    BY <1>1 DEF continuation
  <2>2. f.to <= f.to
    OBVIOUS
  <2>3. S = {n \in S : n <= f.to}
    OBVIOUS
  <2>. QED BY <1>1, <2>1, <2>2, <2>3
<1>2. CASE firstOf(S) # S
  <2>1. PICK k \in firstOf(S) : /\ \A m \in firstOf(S) : m <= k
                                /\ firstOf(S) = {m \in S : m <= k}
    BY <1>2, FirstOfIsPrefix
  <2>2. firstOf(S) \in SUBSET Nat /\ k \in S
    BY DEF firstOf
  <2>3. continuation(f, S) = k
    <3>1. \A n \in firstOf(S) : (\A m \in firstOf(S) : m <= n) => n = k
      <4>. SUFFICES ASSUME NEW n \in firstOf(S), \A m \in firstOf(S) : m <= n PROVE n = k
        OBVIOUS
      <4>1. n \in Nat /\ k \in Nat /\ k <= n /\ n <= k
        BY <2>1, <2>2
      <4>. QED BY <4>1
    <3>. QED BY <1>2, <2>1, <3>1 DEF continuation
  <2>4. k \in Nat /\ f.from < k /\ k <= f.to
    BY <2>2
  <2>. QED BY <2>1, <2>3, <2>4
<1>. QED BY <1>1, <1>2

-----------------------------------------------------------------------------
(***************************************************************************)
(* The inductive invariant.                                                *)
(***************************************************************************)
Actor == Writer \cup Cleaner

\* A stream has one holder, and none while a client reads it.
LockInv ==
  \A p \in Project :
    /\ \A a, b \in Actor : holds(a, p) /\ holds(b, p) => a = b
    /\ \A a \in Actor : holds(a, p) => ~sharing(p)

\* What a transaction has numbered continues the committed stream without a gap.
WriterInv ==
  \A w \in Writer, p \in Project :
    /\ sequences(of(done[w], p)) = IF heads[w][p] = 0 THEN {} ELSE (head[p] + 1) .. heads[w][p]
    /\ heads[w][p] # 0 => heads[w][p] > head[p]
    /\ \A e, f \in of(done[w], p) : e.sequence = f.sequence => e = f

\* A transaction changes operations that it creates or that exist.
RowInv ==
  /\ \A w \in Writer : \A o \in rows(w) : unborn(o) \/ o \in existing
  /\ \A o \in existing : 0 < creation[o] /\ creation[o] <= head[Home[o]]

\* The cursor is behind the head, and the floor does not pass an open window.
soundFeed(f) ==
  /\ f.fresh => f.seen = {}
  /\ f.ceiling <= head[f.project]
  /\ ~f.fresh => f.start <= f.after /\ f.after <= f.ceiling
  /\ f.open =>
       /\ f.from <= f.to
       /\ f.to <= head[f.project]
       /\ ~f.fresh => f.from = f.after
       /\ f.to # 0 => floor[f.project] <= f.from
CursorInv == \A r \in Reader : soundFeed(reader[r])

soundList(f) ==
  /\ f.ceiling <= head[f.project]
  /\ ~f.fresh => f.after <= f.ceiling
  /\ f.open =>
       /\ ~f.finished
       /\ f.from <= f.to
       /\ f.to <= head[f.project]
       /\ f.from = (IF f.fresh THEN 0 ELSE f.after)
       /\ ~f.fresh => f.to = f.ceiling
ListInv == \A l \in Lister : soundList(lister[l])

StreamInv ==
  TypeOK /\ LockInv /\ WriterInv /\ RowInv /\ CursorInv /\ ListInv
    /\ StreamIsGapless /\ FeedIsComplete /\ ListingIsComplete

\* What a part of the invariant depends on.
LEMMA LockSame == LockInv /\ UNCHANGED <<heads, locked, reader, lister>> => LockInv'
BY DEF LockInv, holds, sharing

LEMMA WriterSame == WriterInv /\ UNCHANGED <<heads, done, head>> => WriterInv'
BY DEF WriterInv

LEMMA RowSame == RowInv /\ UNCHANGED <<todo, done, creation, existing, head>> => RowInv'
BY DEF RowInv, rows, unborn

LEMMA StreamSame ==
  StreamIsGapless /\ UNCHANGED <<head, floor, events, log>> => StreamIsGapless'
BY DEF StreamIsGapless

LEMMA CursorSame ==
  CursorInv /\ FeedIsComplete /\ UNCHANGED <<reader, head, floor, log>>
    => CursorInv' /\ FeedIsComplete'
BY DEF CursorInv, soundFeed, FeedIsComplete

LEMMA ListSame ==
  ListInv /\ ListingIsComplete /\ UNCHANGED <<lister, head, existing, creation>>
    => ListInv' /\ ListingIsComplete'
BY DEF ListInv, soundList, ListingIsComplete

LEMMA AddEvent ==
  ASSUME NEW E, NEW e
  PROVE  /\ sequences(E \cup {e}) = sequences(E) \cup {e.sequence}
         /\ {d.operation : d \in E \cup {e}} = {d.operation : d \in E} \cup {e.operation}
<1>1. \A x : x \in sequences(E \cup {e}) <=> x \in sequences(E) \/ x = e.sequence
  BY DEF sequences
<1>2. \A x : x \in {d.operation : d \in E \cup {e}}
               <=> x \in {d.operation : d \in E} \/ x = e.operation
  OBVIOUS
<1>. QED BY <1>1, <1>2

LEMMA Holds ==
  /\ \A w \in Writer : \A p : holds(w, p) <=> heads[w][p] # 0
  /\ \A c \in Cleaner : \A p : holds(c, p) <=> p \in locked[c]
BY ActorAssumption DEF holds

LEMMA InitInv == Init => StreamInv
<1>. SUFFICES ASSUME Init PROVE StreamInv
  OBVIOUS
<1>1. PICK p \in Project : \E F \in Filter(p) :
        /\ reader = [r \in Reader |-> newFeed(p, F)]
        /\ lister = [l \in Lister |-> newList(p)]
  BY DEF Init
<1>2. PICK F \in Filter(p) :
        /\ reader = [r \in Reader |-> newFeed(p, F)]
        /\ lister = [l \in Lister |-> newList(p)]
  BY <1>1
<1>3. F \in SUBSET Operation
  BY DEF Filter
<1>4. newFeed(p, F) \in Feed /\ newList(p) \in List
  BY <1>3 DEF newFeed, newList, Feed, List
<1>5. TypeOK
  BY <1>2, <1>4 DEF Init, TypeOK, Event
<1>6. LockInv
  BY Holds DEF Init, LockInv, Actor
<1>7. WriterInv
  BY DEF Init, WriterInv, sequences, of
<1>8. RowInv
  BY DEF Init, RowInv, rows
<1>9. CursorInv /\ FeedIsComplete
  BY <1>2 DEF Init, CursorInv, soundFeed, FeedIsComplete, newFeed
<1>10. ListInv /\ ListingIsComplete
  BY <1>2 DEF Init, ListInv, soundList, ListingIsComplete, newList
<1>11. StreamIsGapless
  <2>1. ASSUME NEW q \in Project PROVE sequences(of(log, q)) = 1 .. head[q]
    BY DEF Init, sequences, of
  <2>. QED BY <2>1 DEF Init, StreamIsGapless, of
<1>. QED BY <1>5, <1>6, <1>7, <1>8, <1>9, <1>10, <1>11 DEF StreamInv

-----------------------------------------------------------------------------
(***************************************************************************)
(* Transactions.                                                           *)
(***************************************************************************)
LEMMA WriteKeeps ==
  ASSUME StreamInv, NEW w \in Writer, NEW O \in SUBSET Operation, Write(w, O)
  PROVE  StreamInv'
<1>1. TypeOK'
  BY DEF StreamInv, Write, TypeOK, streamVars, cleanVars
<1>2. RowInv'
  <2>1. \A v \in Writer : \A o \in rows(v)' : unborn(o)' \/ o \in existing'
    <3>. SUFFICES ASSUME NEW v \in Writer, NEW o \in rows(v)'
                  PROVE  unborn(o) \/ o \in existing
      BY DEF Write, streamVars, unborn
    <3>1. CASE v = w
      BY <3>1 DEF StreamInv, TypeOK, Write, streamVars, rows, idle
    <3>2. CASE v # w
      BY <3>2 DEF StreamInv, TypeOK, RowInv, Write, streamVars, rows
    <3>. QED BY <3>1, <3>2
  <2>. QED BY <2>1 DEF StreamInv, RowInv, Write, streamVars
<1>. QED BY <1>1, <1>2, LockSame, WriterSame, StreamSame, CursorSame, ListSame
         DEF StreamInv, Write, streamVars, cleanVars

LEMMA FinalizeKeeps ==
  ASSUME StreamInv, NEW w \in Writer, NEW o \in Operation, Finalize(w, o)
  PROVE  StreamInv'
<1>. DEFINE p == Home[o]
            n == advanced(w, p)
            e == [operation |-> o, sequence |-> n]
<1>. USE HomeAssumption
<1>1. /\ p \in Project /\ n \in Nat /\ n > head[p] /\ n # 0 /\ head[p] \in Nat
      /\ n = IF heads[w][p] = 0 THEN head[p] + 1 ELSE heads[w][p] + 1
  BY DEF StreamInv, TypeOK, WriterInv, advanced
<1>2. e \in Event
  BY <1>1 DEF Event
<1>. HIDE DEF n
<1>3. TypeOK'
  BY <1>1, <1>2 DEF StreamInv, Finalize, TypeOK, streamVars, cleanVars, n
<1>4. LockInv'
  <2>1. \A q \in Project, a \in Actor : holds(a, q)' => holds(a, q) \/ (a = w /\ q = p)
    BY Holds DEF StreamInv, Finalize, TypeOK, Actor, cleanVars, holds
  <2>2. \A b \in Actor \ {w} : ~holds(b, p)
    BY DEF Finalize, available, Actor
  <2>3. ~sharing(p) /\ \A q : sharing(q)' <=> sharing(q)
    BY DEF Finalize, available, sharing
  <2>. QED BY <2>1, <2>2, <2>3 DEF StreamInv, LockInv, Actor
<1>5. WriterInv'
  <2>. SUFFICES ASSUME NEW v \in Writer, NEW q \in Project
                PROVE  /\ sequences(of(done'[v], q))
                            = IF heads'[v][q] = 0 THEN {} ELSE (head[q] + 1) .. heads'[v][q]
                       /\ heads'[v][q] # 0 => heads'[v][q] > head[q]
                       /\ \A d, f \in of(done'[v], q) : d.sequence = f.sequence => d = f
    <3>1. head' = head
      BY DEF Finalize, streamVars
    <3>. QED BY <3>1, Zenon DEF WriterInv
  <2>1. CASE v # w \/ q # p
    <3>1. of(done'[v], q) = of(done[v], q) /\ heads'[v][q] = heads[v][q]
      BY <2>1, <1>1 DEF StreamInv, Finalize, TypeOK, of, n
    <3>. QED BY <3>1 DEF StreamInv, WriterInv
  <2>2. CASE v = w /\ q = p
    <3>1. of(done'[w], p) = of(done[w], p) \cup {e} /\ heads'[w][p] = n
      BY <1>1 DEF StreamInv, Finalize, TypeOK, of, n
    <3>2. sequences(of(done'[w], p)) = sequences(of(done[w], p)) \cup {n}
      <4>1. sequences(of(done[w], p) \cup {e}) = sequences(of(done[w], p)) \cup {e.sequence}
        BY AddEvent
      <4>. QED BY <3>1, <4>1
    <3>3. sequences(of(done[w], p))
            = IF heads[w][p] = 0 THEN {} ELSE (head[p] + 1) .. heads[w][p]
      BY <1>1 DEF StreamInv, WriterInv
    <3>4. heads[w][p] \in Nat /\ (heads[w][p] # 0 => heads[w][p] > head[p])
      BY <1>1 DEF StreamInv, TypeOK, WriterInv
    <3>5. sequences(of(done'[w], p)) = (head[p] + 1) .. n
      <4>1. CASE heads[w][p] = 0
        <5>1. (head[p] + 1) .. n = {n}
          BY <4>1, <1>1
        <5>. QED BY <4>1, <3>2, <3>3, <5>1
      <4>2. CASE heads[w][p] # 0
        <5>1. (head[p] + 1) .. n = ((head[p] + 1) .. heads[w][p]) \cup {n}
          BY <4>2, <1>1, <3>4
        <5>. QED BY <4>2, <3>2, <3>3, <5>1
      <4>. QED BY <4>1, <4>2
    <3>6. \A d \in of(done[w], p) : d.sequence # n
      <4>. SUFFICES ASSUME NEW d \in of(done[w], p), d.sequence = n PROVE FALSE
        OBVIOUS
      <4>1. n \in sequences(of(done[w], p))
        BY DEF sequences
      <4>. QED BY <4>1, <3>3, <3>4, <1>1
    <3>7. \A d, f \in of(done[w], p) : d.sequence = f.sequence => d = f
      BY <1>1 DEF StreamInv, WriterInv
    <3>. QED BY <2>2, <3>1, <3>5, <3>6, <3>7, <1>1
  <2>. QED BY <2>1, <2>2
<1>6. RowInv'
  <2>. SUFFICES ASSUME NEW v \in Writer PROVE rows(v)' = rows(v)
    BY DEF StreamInv, RowInv, Finalize, streamVars, unborn
  <2>1. CASE v # w
    BY <2>1 DEF StreamInv, Finalize, TypeOK, rows
  <2>2. CASE v = w
    <3>1. /\ todo'[w] = todo[w] \ {o} /\ done'[w] = done[w] \cup {e} /\ o \in todo[w]
      BY DEF StreamInv, Finalize, TypeOK, n
    <3>2. {d.operation : d \in done'[w]} = {d.operation : d \in done[w]} \cup {o}
      <4>1. {d.operation : d \in done[w] \cup {e}}
              = {d.operation : d \in done[w]} \cup {e.operation}
        BY AddEvent
      <4>. QED BY <3>1, <4>1
    <3>. QED BY <2>2, <3>1, <3>2 DEF rows
  <2>. QED BY <2>1, <2>2
<1>. QED BY <1>3, <1>4, <1>5, <1>6, StreamSame, CursorSame, ListSame
         DEF StreamInv, Finalize, streamVars, cleanVars

\* What a commit publishes: the numbers from the old head to the new one.
LEMMA Committed ==
  ASSUME StreamInv, NEW w \in Writer, Commit(w)
  PROVE  /\ head' \in [Project -> Nat]
         /\ \A p \in Project : head[p] <= head'[p]
         /\ \A p \in Project : heads[w][p] = 0 => head'[p] = head[p]
         /\ \A p \in Project : sequences(of(done[w], p)) = (head[p] + 1) .. head'[p]
         /\ \A e \in done[w] : /\ e.operation \in Operation /\ e.sequence \in Nat
                               /\ head[Home[e.operation]] < e.sequence
                               /\ e.sequence <= head'[Home[e.operation]]
<1>. USE HomeAssumption
<1>1. head' = [p \in Project |-> IF heads[w][p] = 0 THEN head[p] ELSE heads[w][p]]
  BY DEF Commit
<1>2. \A p \in Project : /\ heads[w][p] \in Nat /\ head[p] \in Nat
                         /\ heads[w][p] # 0 => heads[w][p] > head[p]
  BY DEF StreamInv, TypeOK, WriterInv
<1>3. \A p \in Project : head'[p] \in Nat /\ head[p] <= head'[p]
  BY <1>1, <1>2
<1>4. ASSUME NEW p \in Project
      PROVE  sequences(of(done[w], p)) = (head[p] + 1) .. head'[p]
  <2>1. sequences(of(done[w], p)) = IF heads[w][p] = 0 THEN {} ELSE (head[p] + 1) .. heads[w][p]
    BY DEF StreamInv, WriterInv
  <2>2. head[p] \in Nat => (head[p] + 1) .. head[p] = {}
    OBVIOUS
  <2>. QED BY <1>1, <1>2, <2>1, <2>2
<1>5. ASSUME NEW e \in done[w]
      PROVE  /\ e.operation \in Operation /\ e.sequence \in Nat
             /\ head[Home[e.operation]] < e.sequence
             /\ e.sequence <= head'[Home[e.operation]]
  <2>1. e.operation \in Operation /\ e.sequence \in Nat
    BY DEF StreamInv, TypeOK, Event
  <2>2. e.sequence \in sequences(of(done[w], Home[e.operation]))
    BY DEF sequences, of
  <2>. QED BY <1>2, <1>3, <1>4, <2>1, <2>2
<1>. QED BY <1>1, <1>3, <1>4, <1>5

\* A new operation is listed under the number of an event that the transaction publishes.
LEMMA Born ==
  ASSUME StreamInv, NEW w \in Writer, Commit(w)
  PROVE  /\ \A o \in Operation :
              IF unborn(o) /\ o \in rows(w)
              THEN [operation |-> o, sequence |-> creation'[o]] \in done[w]
              ELSE creation'[o] = creation[o]
         /\ creation' \in [Operation -> Nat]
<1>1. ASSUME NEW o \in Operation, unborn(o), o \in rows(w)
      PROVE  [operation |-> o, sequence |-> creation'[o]] \in done[w] /\ creation'[o] \in Nat
  <2>1. PICK e \in done[w] : e.operation = o
    BY <1>1 DEF Commit, rows
  <2>2. e \in Event
    BY DEF StreamInv, TypeOK
  <2>3. e = [operation |-> o, sequence |-> e.sequence]
    BY <2>1, <2>2 DEF Event
  <2>4. \E n \in sequences(done[w]) : [operation |-> o, sequence |-> n] \in done[w]
    BY <2>3 DEF sequences
  <2>5. creation'[o] = CHOOSE n \in sequences(done[w]) :
                         [operation |-> o, sequence |-> n] \in done[w]
    BY <1>1 DEF Commit
  <2>6. creation'[o] \in sequences(done[w])
          /\ [operation |-> o, sequence |-> creation'[o]] \in done[w]
    BY <2>4, <2>5
  <2>7. \A d \in done[w] : d.sequence \in Nat
    BY DEF StreamInv, TypeOK, Event
  <2>. QED BY <2>6, <2>7 DEF sequences
<1>2. ASSUME NEW o \in Operation, ~(unborn(o) /\ o \in rows(w))
      PROVE  creation'[o] = creation[o] /\ creation[o] \in Nat
  BY <1>2 DEF Commit, StreamInv, TypeOK
<1>3. creation' = [o \in Operation |-> creation'[o]]
  BY DEF Commit
<1>. HIDE DEF unborn
<1>4. \A o \in Operation : creation'[o] \in Nat
  BY <1>1, <1>2
<1>. QED BY <1>1, <1>2, <1>3, <1>4

LEMMA CommitKeeps ==
  ASSUME StreamInv, NEW w \in Writer, Commit(w)
  PROVE  StreamInv'
<1>. USE HomeAssumption
<1>1. /\ head \in [Project -> Nat] /\ head' \in [Project -> Nat]
      /\ floor' = floor /\ floor \in [Project -> Nat]
      /\ \A p \in Project : head[p] <= head'[p]
  BY Committed DEF StreamInv, TypeOK, Commit
<1>2. log' = log \cup done[w] /\ events' = events \cup done[w] /\ existing' = existing \cup rows(w)
  BY DEF Commit
<1>3. /\ todo' = [todo EXCEPT ![w] = {}] /\ done' = [done EXCEPT ![w] = {}]
      /\ heads' = [heads EXCEPT ![w] = [p \in Project |-> 0]]
  BY DEF Commit, released
<1>4. UNCHANGED <<candidates, locked, reader, lister>>
  BY DEF Commit, cleanVars
<1>5. /\ \A r \in Reader : reader[r] \in Feed
      /\ \A l \in Lister : lister[l] \in List
  BY DEF StreamInv, TypeOK
<1>6. rows(w) \subseteq Operation
  BY DEF StreamInv, TypeOK, rows, Event
<1>7. TypeOK'
  <2>1. \A p \in Project : floor[p] <= head'[p]
    <3>1. \A p \in Project : floor[p] <= head[p]
      BY DEF StreamInv, TypeOK
    <3>. QED BY <1>1, <3>1
  <2>2. events' \subseteq log' /\ log' \subseteq Event
    BY <1>2 DEF StreamInv, TypeOK
  <2>3. candidates' \in [Cleaner -> SUBSET log']
    BY <1>2, <1>4 DEF StreamInv, TypeOK
  <2>4. /\ todo' \in [Writer -> SUBSET Operation] /\ done' \in [Writer -> SUBSET Event]
        /\ heads' \in [Writer -> [Project -> Nat]]
    BY <1>3 DEF StreamInv, TypeOK
  <2>5. existing' \subseteq Operation
    BY <1>2, <1>6 DEF StreamInv, TypeOK
  <2>6. /\ locked' \in [Cleaner -> SUBSET Project]
        /\ reader' \in [Reader -> Feed] /\ lister' \in [Lister -> List]
    BY <1>4 DEF StreamInv, TypeOK
  <2>. QED BY <1>1, <2>1, <2>2, <2>3, <2>4, <2>5, <2>6, Born DEF TypeOK
<1>8. LockInv'
  <2>1. \A q \in Project, a \in Actor : holds(a, q)' => holds(a, q)
    BY <1>3, <1>4 DEF StreamInv, TypeOK, Actor, holds
  <2>2. \A q : sharing(q)' <=> sharing(q)
    BY <1>4 DEF sharing
  <2>. QED BY <2>1, <2>2 DEF StreamInv, LockInv
<1>9. WriterInv'
  <2>. SUFFICES ASSUME NEW v \in Writer, NEW q \in Project
                PROVE  /\ sequences(of(done'[v], q))
                            = IF heads'[v][q] = 0 THEN {} ELSE (head'[q] + 1) .. heads'[v][q]
                       /\ heads'[v][q] # 0 => heads'[v][q] > head'[q]
                       /\ \A d, f \in of(done'[v], q) : d.sequence = f.sequence => d = f
    BY Zenon DEF WriterInv
  <2>1. CASE v = w
    <3>1. done'[w] = {} /\ heads'[w][q] = 0
      BY <1>3 DEF StreamInv, TypeOK
    <3>2. of({}, q) = {} /\ sequences({}) = {}
      BY DEF of, sequences
    <3>. QED BY <2>1, <3>1, <3>2
  <2>2. CASE v # w
    <3>1. done'[v] = done[v] /\ heads'[v] = heads[v]
      BY <1>3, <2>2 DEF StreamInv, TypeOK
    <3>2. heads[v][q] # 0 => heads[w][q] = 0
      BY <2>2, Holds DEF StreamInv, LockInv, Actor
    <3>3. heads[v][q] # 0 => head'[q] = head[q]
      BY <3>2, Committed
    <3>. QED BY <3>1, <3>3 DEF StreamInv, WriterInv
  <2>. QED BY <2>1, <2>2
<1>10. \A o \in existing' \ existing :
         /\ head[Home[o]] < creation'[o] /\ creation'[o] <= head'[Home[o]]
  <2>. SUFFICES ASSUME NEW o \in existing', o \notin existing
                PROVE  head[Home[o]] < creation'[o] /\ creation'[o] <= head'[Home[o]]
    OBVIOUS
  <2>1. o \in rows(w) /\ o \in Operation
    BY <1>2, <1>6
  <2>2. unborn(o)
    BY <2>1 DEF StreamInv, RowInv
  <2>3. [operation |-> o, sequence |-> creation'[o]] \in done[w]
    BY <2>1, <2>2, Born
  <2>. QED BY <2>3, Committed
<1>11. \A o \in existing : creation'[o] = creation[o] /\ creation[o] \in Nat /\ o \in Operation
  <2>1. \A o \in existing : ~unborn(o) /\ creation[o] \in Nat /\ o \in Operation
    BY DEF StreamInv, TypeOK, RowInv, unborn
  <2>. QED BY <2>1, Born
<1>12. RowInv'
  <2>1. \A o \in existing' : 0 < creation'[o] /\ creation'[o] <= head'[Home[o]]
    <3>. SUFFICES ASSUME NEW o \in existing'
                  PROVE  0 < creation'[o] /\ creation'[o] <= head'[Home[o]]
      OBVIOUS
    <3>1. /\ o \in Operation /\ Home[o] \in Project /\ creation'[o] \in Nat
          /\ head[Home[o]] \in Nat /\ head'[Home[o]] \in Nat
      BY <1>1, <1>2, <1>6, <1>11, Born
    <3>2. CASE o \in existing
      <4>1. 0 < creation[o] /\ creation[o] <= head[Home[o]]
        BY <3>2 DEF StreamInv, RowInv
      <4>. QED BY <1>1, <1>11, <3>1, <3>2, <4>1
    <3>3. CASE o \notin existing
      BY <1>10, <3>1, <3>3
    <3>. QED BY <3>2, <3>3
  <2>2. ASSUME NEW v \in Writer, NEW o \in rows(v)' PROVE unborn(o)' \/ o \in existing'
    <3>1. CASE v = w
      BY <1>3, <3>1 DEF StreamInv, TypeOK, rows
    <3>2. CASE v # w
      <4>1. o \in rows(v) /\ o \in Operation
        BY <1>3, <3>2 DEF StreamInv, TypeOK, rows, Event
      <4>2. CASE o \in existing
        BY <1>2, <4>2
      <4>3. CASE unborn(o) /\ o \notin rows(w)
        BY <4>1, <4>3, Born DEF unborn
      <4>4. CASE o \in rows(w)
        BY <1>2, <4>4
      <4>. QED BY <4>1, <4>2, <4>3, <4>4 DEF StreamInv, RowInv
    <3>. QED BY <3>1, <3>2
  <2>. QED BY <2>1, <2>2 DEF RowInv
<1>13. StreamIsGapless'
  <2>. SUFFICES ASSUME NEW p \in Project
                PROVE  /\ sequences(of(log', p)) = 1 .. head'[p]
                       /\ \A e, f \in of(log', p) : e.sequence = f.sequence => e = f
                       /\ \A e \in of(log', p) : e.sequence > floor'[p] => e \in events'
    BY Zenon DEF StreamIsGapless
  <2>1. /\ sequences(of(log, p)) = 1 .. head[p]
        /\ \A e, f \in of(log, p) : e.sequence = f.sequence => e = f
        /\ \A e \in of(log, p) : e.sequence > floor[p] => e \in events
    BY DEF StreamInv, StreamIsGapless
  <2>2. of(log', p) = of(log, p) \cup of(done[w], p)
    BY <1>2 DEF of
  <2>3. sequences(of(log', p)) = sequences(of(log, p)) \cup sequences(of(done[w], p))
    BY <2>2 DEF sequences
  <2>4. sequences(of(done[w], p)) = (head[p] + 1) .. head'[p]
    BY Committed
  <2>5. (1 .. head[p]) \cup ((head[p] + 1) .. head'[p]) = 1 .. head'[p]
    BY <1>1
  <2>6. /\ \A e \in of(log, p) : e.sequence \in 1 .. head[p]
        /\ \A e \in of(done[w], p) : e.sequence \in (head[p] + 1) .. head'[p]
    BY <2>1, <2>4 DEF sequences
  <2>7. \A e, f \in of(done[w], p) : e.sequence = f.sequence => e = f
    BY DEF StreamInv, WriterInv
  <2>8. \A e, f \in of(log', p) : e.sequence = f.sequence => e = f
    BY <1>1, <2>1, <2>2, <2>6, <2>7
  <2>9. \A e \in of(log', p) : e.sequence > floor'[p] => e \in events'
    BY <1>1, <1>2, <2>1, <2>2 DEF of
  <2>. QED BY <2>1, <2>3, <2>4, <2>5, <2>8, <2>9
<1>14. CursorInv'
  <2>. SUFFICES ASSUME NEW r \in Reader
                PROVE  LET f == reader[r] IN
                         /\ f.ceiling <= head'[f.project]
                         /\ f.open => f.to <= head'[f.project]
    BY <1>1, <1>4 DEF StreamInv, CursorInv, soundFeed
  <2>1. /\ reader[r].project \in Project /\ reader[r].ceiling \in Nat /\ reader[r].to \in Nat
    BY <1>5 DEF Feed
  <2>. QED BY <1>1, <2>1 DEF StreamInv, CursorInv, soundFeed
<1>15. FeedIsComplete'
  <2>. SUFFICES ASSUME NEW r \in Reader, ~reader[r].fresh, NEW e \in done[w],
                       e.sequence <= reader[r].after,
                       Home[e.operation] = reader[r].project
                PROVE  FALSE
    BY <1>2, <1>4 DEF StreamInv, FeedIsComplete, of, sequences
  <2>1. /\ reader[r].project \in Project /\ reader[r].ceiling \in Nat
        /\ reader[r].after \in Nat
    BY <1>5 DEF Feed
  <2>2. /\ reader[r].after <= reader[r].ceiling
        /\ reader[r].ceiling <= head[reader[r].project]
    BY DEF StreamInv, CursorInv, soundFeed
  <2>3. head[reader[r].project] < e.sequence /\ e.sequence \in Nat
    BY Committed
  <2>. QED BY <1>1, <2>1, <2>2, <2>3
<1>16. ListInv'
  <2>. SUFFICES ASSUME NEW l \in Lister
                PROVE  LET f == lister[l] IN
                         /\ f.ceiling <= head'[f.project]
                         /\ f.open => f.to <= head'[f.project]
    BY <1>4 DEF StreamInv, ListInv, soundList
  <2>1. /\ lister[l].project \in Project /\ lister[l].ceiling \in Nat /\ lister[l].to \in Nat
    BY <1>5 DEF List
  <2>. QED BY <1>1, <2>1 DEF StreamInv, ListInv, soundList
<1>17. ListingIsComplete'
  <2>. SUFFICES ASSUME NEW l \in Lister, NEW o \in existing',
                       Home[o] = lister[l].project, ~lister[l].fresh,
                       creation'[o] <= (IF lister[l].finished THEN lister[l].ceiling
                                        ELSE lister[l].after)
                PROVE  o \in lister[l].seen
    BY <1>4 DEF ListingIsComplete
  <2>1. CASE o \in existing
    BY <2>1, <1>11 DEF StreamInv, ListingIsComplete
  <2>2. CASE o \notin existing
    <3>1. /\ lister[l].project \in Project /\ lister[l].ceiling \in Nat
          /\ lister[l].after \in Nat /\ o \in Operation
      BY <1>2, <1>5, <1>6, <2>2 DEF List
    <3>2. /\ lister[l].after <= lister[l].ceiling
          /\ lister[l].ceiling <= head[lister[l].project]
      BY DEF StreamInv, ListInv, soundList
    <3>3. head[Home[o]] < creation'[o] /\ creation'[o] \in Nat
      BY <1>10, <2>2, <3>1, Born
    <3>. QED BY <1>1, <3>1, <3>2, <3>3
  <2>. QED BY <2>1, <2>2
<1>. QED BY <1>7, <1>8, <1>9, <1>12, <1>13, <1>14, <1>15, <1>16, <1>17 DEF StreamInv

LEMMA AbortKeeps ==
  ASSUME StreamInv, NEW w \in Writer, Abort(w)
  PROVE  StreamInv'
<1>1. /\ todo' = [todo EXCEPT ![w] = {}] /\ done' = [done EXCEPT ![w] = {}]
      /\ heads' = [heads EXCEPT ![w] = [p \in Project |-> 0]]
  BY DEF Abort, released
<1>2. UNCHANGED <<streamVars, candidates, locked, reader, lister>>
  BY DEF Abort, cleanVars
<1>3. TypeOK'
  BY <1>1, <1>2 DEF StreamInv, TypeOK, streamVars
<1>4. LockInv'
  <2>1. \A q \in Project, a \in Actor : holds(a, q)' => holds(a, q)
    BY <1>1, <1>2 DEF StreamInv, TypeOK, Actor, holds
  <2>2. \A q : sharing(q)' <=> sharing(q)
    BY <1>2 DEF sharing
  <2>. QED BY <2>1, <2>2 DEF StreamInv, LockInv
<1>5. WriterInv'
  <2>1. done'[w] = {} /\ \A q \in Project : heads'[w][q] = 0
    BY <1>1 DEF StreamInv, TypeOK
  <2>2. \A q : of({}, q) = {} /\ sequences({}) = {}
    BY DEF of, sequences
  <2>3. \A v \in Writer \ {w} : done'[v] = done[v] /\ heads'[v] = heads[v]
    BY <1>1 DEF StreamInv, TypeOK
  <2>4. head' = head
    BY <1>2 DEF streamVars
  <2>. QED BY <2>1, <2>2, <2>3, <2>4 DEF StreamInv, WriterInv
<1>6. RowInv'
  <2>1. \A v \in Writer : \A o \in rows(v)' : o \in rows(v)
    BY <1>1 DEF StreamInv, TypeOK, rows
  <2>. QED BY <1>2, <2>1 DEF StreamInv, RowInv, streamVars, unborn
<1>. QED BY <1>2, <1>3, <1>4, <1>5, <1>6, StreamSame, CursorSame, ListSame
         DEF StreamInv, streamVars

LEMMA DeleteOperationKeeps ==
  ASSUME StreamInv, NEW o \in Operation, DeleteOperation(o)
  PROVE  StreamInv'
<1>1. existing' = existing \ {o} /\ \A w \in Writer : o \notin rows(w)
  BY DEF DeleteOperation
<1>2. /\ UNCHANGED <<head, floor, events, creation, log, todo, done, heads>>
      /\ UNCHANGED <<candidates, locked, reader, lister>>
  BY DEF DeleteOperation, writerVars, cleanVars
<1>3. TypeOK'
  BY <1>1, <1>2 DEF StreamInv, TypeOK
<1>4. RowInv'
  BY <1>1, <1>2 DEF StreamInv, RowInv, rows, unborn
<1>5. ListInv' /\ ListingIsComplete'
  BY <1>1, <1>2 DEF StreamInv, ListInv, soundList, ListingIsComplete
<1>. QED BY <1>2, <1>3, <1>4, <1>5, LockSame, WriterSame, StreamSame, CursorSame DEF StreamInv

-----------------------------------------------------------------------------
(***************************************************************************)
(* Cleanup.                                                                *)
(***************************************************************************)
LEMMA SelectKeeps ==
  ASSUME StreamInv, NEW c \in Cleaner, NEW E \in SUBSET events, Select(c, E)
  PROVE  StreamInv'
<1>1. TypeOK'
  BY DEF StreamInv, Select, TypeOK, streamVars, writerVars
<1>. QED BY <1>1, LockSame, WriterSame, RowSame, StreamSame, CursorSame, ListSame
         DEF StreamInv, Select, streamVars, writerVars

LEMMA LockKeeps ==
  ASSUME StreamInv, NEW c \in Cleaner, NEW p \in Project, Lock(c, p)
  PROVE  StreamInv'
<1>1. TypeOK'
  BY DEF StreamInv, Lock, TypeOK, streamVars, writerVars
<1>2. LockInv'
  <2>1. \A q \in Project, a \in Actor : holds(a, q)' => holds(a, q) \/ (a = c /\ q = p)
    BY DEF StreamInv, Lock, TypeOK, Actor, writerVars, holds
  <2>2. \A b \in Actor \ {c} : ~holds(b, p)
    BY DEF Lock, available, Actor
  <2>3. ~sharing(p) /\ \A q : sharing(q)' <=> sharing(q)
    BY DEF Lock, available, sharing
  <2>. QED BY <2>1, <2>2, <2>3 DEF StreamInv, LockInv, Actor
<1>. QED BY <1>1, <1>2, WriterSame, RowSame, StreamSame, CursorSame, ListSame
         DEF StreamInv, Lock, streamVars, writerVars

LEMMA Unlocked ==
  ASSUME StreamInv, NEW c \in Cleaner, locked' = [locked EXCEPT ![c] = {}],
         UNCHANGED <<heads, reader, lister>>
  PROVE  LockInv'
<1>1. \A q \in Project, a \in Actor : holds(a, q)' => holds(a, q)
  BY DEF StreamInv, TypeOK, Actor, holds
<1>2. \A q : sharing(q)' <=> sharing(q)
  BY DEF sharing
<1>. QED BY <1>1, <1>2 DEF StreamInv, LockInv

LEMMA AbortCleanupKeeps ==
  ASSUME StreamInv, NEW c \in Cleaner, AbortCleanup(c)
  PROVE  StreamInv'
<1>1. TypeOK'
  BY DEF StreamInv, AbortCleanup, TypeOK, streamVars, writerVars
<1>2. LockInv'
  BY Unlocked DEF AbortCleanup, writerVars
<1>. QED BY <1>1, <1>2, WriterSame, RowSame, StreamSame, CursorSame, ListSame
         DEF StreamInv, AbortCleanup, streamVars, writerVars

\* The new floor is the highest of the old one and the deleted events.
LEMMA Raised ==
  ASSUME StreamInv, NEW p \in Project, NEW E \in SUBSET events
  PROVE  /\ raised(p, E) \in Nat
         /\ floor[p] <= raised(p, E) /\ raised(p, E) <= head[p]
         /\ \A e \in of(E, p) : e.sequence <= raised(p, E)
         /\ of(E, p) = {} => raised(p, E) = floor[p]
<1>. DEFINE S == {floor[p]} \cup sequences(of(E, p))
<1>1. floor[p] \in Nat /\ head[p] \in Nat /\ floor[p] <= head[p]
  BY DEF StreamInv, TypeOK
<1>2. sequences(of(E, p)) \subseteq 1 .. head[p]
  <2>1. sequences(of(E, p)) \subseteq sequences(of(log, p))
    BY DEF StreamInv, TypeOK, sequences, of
  <2>. QED BY <2>1 DEF StreamInv, StreamIsGapless
<1>3. S \in SUBSET Nat /\ S # {} /\ \A n \in S : n <= head[p]
  BY <1>1, <1>2
<1>4. \E n \in S : \A m \in S : m <= n
  <2>. HIDE DEF S
  <2>. QED BY <1>1, <1>3, Highest
<1>5. raised(p, E) \in S /\ \A m \in S : m <= raised(p, E)
  BY <1>4 DEF raised
<1>6. \A e \in of(E, p) : e.sequence \in S
  BY DEF sequences
<1>7. of(E, p) = {} => S = {floor[p]}
  BY DEF sequences
<1>. QED BY <1>3, <1>5, <1>6, <1>7

LEMMA DeleteKeeps ==
  ASSUME StreamInv, NEW c \in Cleaner, Delete(c)
  PROVE  StreamInv'
<1>. USE HomeAssumption
<1>. DEFINE E == candidates[c] \cap events
<1>1. /\ floor' = [p \in Project |-> raised(p, E)]
      /\ events' = events \ candidates[c]
      /\ candidates' = [candidates EXCEPT ![c] = {}]
      /\ locked' = [locked EXCEPT ![c] = {}]
  BY DEF Delete
<1>2. UNCHANGED <<head, creation, existing, log, todo, done, heads, reader, lister>>
  BY DEF Delete, writerVars
<1>3. \A p \in Project : /\ floor'[p] \in Nat
                         /\ floor[p] <= floor'[p] /\ floor'[p] <= head[p]
                         /\ \A e \in of(E, p) : e.sequence <= floor'[p]
                         /\ of(E, p) = {} => floor'[p] = floor[p]
  <2>. E \in SUBSET events
    OBVIOUS
  <2>. HIDE DEF E
  <2>. QED BY <1>1, Raised
<1>4. TypeOK'
  BY <1>1, <1>2, <1>3 DEF StreamInv, TypeOK
<1>5. LockInv'
  BY <1>1, <1>2, Unlocked
<1>6. StreamIsGapless'
  <2>. SUFFICES ASSUME NEW p \in Project, NEW e \in of(log, p), e.sequence > floor'[p]
                PROVE  e \in events'
    BY <1>2 DEF StreamInv, StreamIsGapless
  <2>1. e.sequence \in Nat /\ floor[p] \in Nat /\ floor'[p] \in Nat
    BY <1>3 DEF StreamInv, TypeOK, Event, of
  <2>2. e.sequence > floor[p]
    BY <1>3, <2>1
  <2>3. e \in events
    BY <2>2 DEF StreamInv, StreamIsGapless
  <2>4. e \notin E
    BY <1>3, <2>1 DEF of
  <2>. QED BY <1>1, <2>3, <2>4
<1>7. CursorInv'
  <2>. SUFFICES ASSUME NEW r \in Reader, reader[r].open, reader[r].to # 0
                PROVE  floor'[reader[r].project] = floor[reader[r].project]
    BY <1>2 DEF StreamInv, CursorInv, soundFeed
  <2>. DEFINE p == reader[r].project
  <2>1. p \in Project /\ sharing(p)
    BY DEF StreamInv, TypeOK, Feed, sharing
  <2>2. p \notin locked[c]
    BY <2>1, Holds DEF StreamInv, LockInv, Actor
  <2>3. of(E, p) = {}
    BY <2>2 DEF Delete, wanted, of
  <2>. QED BY <1>3, <2>1, <2>3
<1>8. FeedIsComplete'
  BY <1>2 DEF StreamInv, FeedIsComplete
<1>. QED BY <1>2, <1>4, <1>5, <1>6, <1>7, <1>8, WriterSame, RowSame, ListSame DEF StreamInv

-----------------------------------------------------------------------------
(***************************************************************************)
(* Clients of the feed.                                                    *)
(***************************************************************************)
\* The numbers of the events of a filter behind a and up to b.
span(p, F, a, b) ==
  sequences({e \in of(log, p) : e.operation \in F /\ a < e.sequence /\ e.sequence <= b})

LEMMA SpanMember ==
  ASSUME NEW p, NEW F, NEW a, NEW b, NEW n
  PROVE  n \in span(p, F, a, b)
           <=> \E e \in of(log, p) : /\ e.operation \in F /\ e.sequence = n
                                     /\ a < n /\ n <= b
BY DEF span, sequences

\* What is to be shown of a step of one client.
LEMMA FeedMoves ==
  ASSUME StreamInv, NEW r \in Reader, NEW g \in Feed, setReader(r, g),
         g.project = reader[r].project,
         g.open /\ g.to # 0 => \A a \in Actor : ~holds(a, g.project),
         soundFeed(g),
         ~g.fresh => g.seen = span(g.project, g.filter, g.start, g.after)
  PROVE  StreamInv'
<1>1. reader' = [reader EXCEPT ![r] = g]
  BY DEF setReader
<1>2. UNCHANGED <<streamVars, writerVars, cleanVars, lister>>
  BY DEF setReader
<1>3. reader \in [Reader -> Feed]
  BY DEF StreamInv, TypeOK
<1>4. TypeOK'
  BY <1>1, <1>2, <1>3 DEF StreamInv, TypeOK, streamVars, writerVars, cleanVars
<1>5. LockInv'
  <2>1. \A q \in Project, a \in Actor : holds(a, q)' <=> holds(a, q)
    BY <1>2 DEF holds, writerVars, cleanVars
  <2>2. \A q \in Project : sharing(q)' => sharing(q) \/ (g.open /\ g.to # 0 /\ g.project = q)
    BY <1>1, <1>2, <1>3 DEF sharing
  <2>. QED BY <2>1, <2>2 DEF StreamInv, LockInv
<1>6. CursorInv'
  <2>1. \A s \in Reader : soundFeed(reader'[s])
    BY <1>1, <1>3 DEF StreamInv, CursorInv
  <2>. QED BY <1>2, <2>1 DEF CursorInv, soundFeed, streamVars
<1>7. FeedIsComplete'
  <2>. SUFFICES ASSUME NEW s \in Reader, ~reader'[s].fresh
                PROVE  reader'[s].seen = span(reader'[s].project, reader'[s].filter,
                                              reader'[s].start, reader'[s].after)
    BY <1>2 DEF FeedIsComplete, span, streamVars
  <2>. QED BY <1>1, <1>3 DEF StreamInv, FeedIsComplete, span
<1>. QED BY <1>2, <1>4, <1>5, <1>6, <1>7, WriterSame, RowSame, StreamSame, ListSame
         DEF StreamInv, streamVars, writerVars

LEMMA OpenFeedKeeps ==
  ASSUME StreamInv, NEW r \in Reader, OpenFeed(r)
  PROVE  StreamInv'
<1>. DEFINE f == reader[r]
            p == f.project
            from == IF f.fresh THEN floor[p] ELSE f.after
            to == ceilingOf(f, p)
            g == opened(f, from, to)
<1>1. f \in Feed /\ p \in Project
  BY DEF StreamInv, TypeOK, Feed
<1>2. /\ floor[p] \in Nat /\ head[p] \in Nat /\ floor[p] <= head[p]
      /\ f.after \in Nat /\ f.ceiling \in Nat
  BY <1>1 DEF StreamInv, TypeOK, Feed
<1>3. soundFeed(f) /\ (~f.fresh => f.after >= floor[p])
  BY DEF StreamInv, CursorInv, OpenFeed
<1>4. /\ from \in Nat /\ to \in Nat
      /\ from <= to /\ to <= head[p] /\ floor[p] <= from
  BY <1>2, <1>3 DEF ceilingOf, soundFeed
<1>5. /\ g \in Feed /\ g.open /\ g.from = from /\ g.to = to /\ g.project = p
      /\ g.fresh = f.fresh /\ g.seen = f.seen /\ g.start = f.start /\ g.after = f.after
      /\ g.ceiling = f.ceiling /\ g.filter = f.filter
  BY <1>1, <1>4 DEF opened, Feed
<1>. HIDE DEF g
<1>6. soundFeed(g)
  BY <1>3, <1>4, <1>5 DEF soundFeed
<1>7. g.to # 0 => \A a \in Actor : ~holds(a, p)
  BY <1>2, <1>4, <1>5 DEF OpenFeed, readable, Actor
<1>8. ~g.fresh => g.seen = span(p, g.filter, g.start, g.after)
  BY <1>5 DEF StreamInv, FeedIsComplete, span
<1>9. setReader(r, g)
  BY DEF OpenFeed, g
<1>. QED BY <1>5, <1>6, <1>7, <1>8, <1>9, FeedMoves

LEMMA FreshFeedKeeps ==
  ASSUME StreamInv, NEW r \in Reader, CursorExpired(r) \/ FeedLost(r)
  PROVE  StreamInv'
<1>. DEFINE f == reader[r]
<1>1. f \in Feed /\ head[f.project] \in Nat
  BY DEF StreamInv, TypeOK, Feed
<1>2. CASE CursorExpired(r)
  <2>. DEFINE g == newFeed(f.project, f.filter)
  <2>1. g \in Feed
    BY <1>1 DEF newFeed, Feed
  <2>2. soundFeed(g) /\ g.project = f.project /\ g.fresh /\ ~g.open
    BY <1>1 DEF newFeed, soundFeed
  <2>3. setReader(r, g)
    BY <1>2 DEF CursorExpired
  <2>. HIDE DEF g
  <2>. QED BY <2>1, <2>2, <2>3, FeedMoves
<1>3. CASE FeedLost(r)
  <2>. DEFINE g == closed(f)
  <2>1. /\ g \in Feed /\ ~g.open /\ g.project = f.project
        /\ g.fresh = f.fresh /\ g.seen = f.seen /\ g.start = f.start /\ g.after = f.after
        /\ g.ceiling = f.ceiling /\ g.filter = f.filter
    BY <1>1 DEF closed, Feed
  <2>2. setReader(r, g)
    BY <1>3 DEF FeedLost
  <2>. HIDE DEF g
  <2>3. soundFeed(f)
    BY DEF StreamInv, CursorInv
  <2>4. soundFeed(g)
    BY <2>1, <2>3 DEF soundFeed
  <2>5. ~g.fresh => g.seen = span(g.project, g.filter, g.start, g.after)
    BY <2>1 DEF StreamInv, FeedIsComplete, span
  <2>. QED BY <2>1, <2>2, <2>4, <2>5, FeedMoves
<1>. QED BY <1>2, <1>3

\* Nothing in an open window has been cleaned up.
LEMMA WindowIsWhole ==
  ASSUME StreamInv, NEW r \in Reader, reader[r].open
  PROVE  LET f == reader[r] IN
           sequences(inWindow(f)) = span(f.project, f.filter, f.from, f.to)
<1>. DEFINE f == reader[r]
<1>1. f \in Feed /\ f.project \in Project /\ f.from \in Nat /\ f.to \in Nat
  BY DEF StreamInv, TypeOK, Feed
<1>2. \A e \in of(log, f.project) :
        f.from < e.sequence /\ e.sequence <= f.to => e \in of(events, f.project)
  <2>. SUFFICES ASSUME NEW e \in of(log, f.project),
                       f.from < e.sequence, e.sequence <= f.to
                PROVE  e \in events
    BY DEF of
  <2>1. e.sequence \in Nat /\ floor[f.project] \in Nat
    BY <1>1 DEF StreamInv, TypeOK, Event, of
  <2>2. f.to # 0
    BY <1>1, <2>1
  <2>3. floor[f.project] <= f.from
    BY <2>2 DEF StreamInv, CursorInv, soundFeed
  <2>4. e.sequence > floor[f.project]
    BY <1>1, <2>1, <2>3
  <2>. QED BY <1>1, <2>4 DEF StreamInv, StreamIsGapless
<1>3. of(events, f.project) \subseteq of(log, f.project)
  BY DEF StreamInv, TypeOK, of
<1>4. inWindow(f) = {e \in of(log, f.project) : e.operation \in f.filter
                                             /\ f.from < e.sequence /\ e.sequence <= f.to}
  BY <1>2, <1>3 DEF inWindow
<1>. QED BY <1>4 DEF span

LEMMA FeedPageKeeps ==
  ASSUME StreamInv, NEW r \in Reader, FeedPage(r)
  PROVE  StreamInv'
<1>. DEFINE f == reader[r]
            p == f.project
            found == sequences(inWindow(f))
            c == continuation(f, found)
            g == [closed(f) EXCEPT
                    !.fresh = FALSE, !.after = c, !.ceiling = f.to,
                    !.start = IF f.fresh THEN f.from ELSE f.start,
                    !.seen = f.seen \cup firstOf(found)]
<1>1. /\ f \in Feed /\ p \in Project /\ f.open
      /\ f.from \in Nat /\ f.to \in Nat /\ f.start \in Nat /\ f.after \in Nat
  BY DEF StreamInv, TypeOK, Feed, FeedPage
<1>2. soundFeed(f)
  BY DEF StreamInv, CursorInv
<1>3. found = span(p, f.filter, f.from, f.to)
  BY <1>1, WindowIsWhole
<1>4. \A e \in of(log, p) : e.sequence \in Nat
  BY DEF StreamInv, TypeOK, Event, of
<1>5. found \in SUBSET Nat /\ \A n \in found : f.from < n /\ n <= f.to
  BY <1>3, <1>4, SpanMember
<1>. HIDE DEF found
<1>6. /\ c \in Nat /\ f.from <= c /\ c <= f.to
      /\ firstOf(found) = {n \in found : n <= c}
  BY <1>1, <1>2, <1>5, PageIsPrefix DEF soundFeed
<1>. HIDE DEF c
<1>7. firstOf(found) \in SUBSET Nat
  BY <1>5, <1>6
<1>8. /\ g \in Feed /\ ~g.open /\ ~g.fresh /\ g.project = p /\ g.filter = f.filter
      /\ g.after = c /\ g.ceiling = f.to
      /\ g.start = (IF f.fresh THEN f.from ELSE f.start)
      /\ g.seen = f.seen \cup firstOf(found)
  BY <1>1, <1>6, <1>7 DEF closed, Feed
<1>9. setReader(r, g)
  BY DEF FeedPage, c, found
<1>. HIDE DEF g
<1>10. soundFeed(g)
  BY <1>1, <1>2, <1>6, <1>8 DEF soundFeed
<1>11. firstOf(found) = span(p, f.filter, f.from, c)
  <2>1. \A n : n \in firstOf(found) <=> n \in span(p, f.filter, f.from, c)
    <3>. SUFFICES ASSUME NEW n
                  PROVE  n \in firstOf(found) <=> n \in span(p, f.filter, f.from, c)
      OBVIOUS
    <3>1. n \in firstOf(found) <=> n \in span(p, f.filter, f.from, f.to) /\ n <= c
      BY <1>3, <1>6
    <3>. QED BY <1>1, <1>4, <1>6, <3>1, SpanMember
  <2>. QED BY <2>1
<1>12. g.seen = span(p, f.filter, g.start, c)
  <2>1. CASE f.fresh
    <3>1. f.seen = {}
      BY <1>2, <2>1 DEF soundFeed
    <3>. QED BY <1>8, <1>11, <2>1, <3>1
  <2>2. CASE ~f.fresh
    <3>1. f.seen = span(p, f.filter, f.start, f.after)
      BY <2>2 DEF StreamInv, FeedIsComplete, span
    <3>2. f.from = f.after /\ f.start <= f.after
      BY <1>1, <1>2, <2>2 DEF soundFeed
    <3>3. \A n : n \in span(p, f.filter, f.start, c)
                   <=> n \in span(p, f.filter, f.start, f.after)
                         \/ n \in span(p, f.filter, f.after, c)
      <4>. SUFFICES ASSUME NEW n
                    PROVE  n \in span(p, f.filter, f.start, c)
                             <=> n \in span(p, f.filter, f.start, f.after)
                                   \/ n \in span(p, f.filter, f.after, c)
        OBVIOUS
      <4>. QED BY <1>1, <1>4, <1>6, <3>2, SpanMember
    <3>. QED BY <1>8, <1>11, <2>2, <3>1, <3>2, <3>3
  <2>. QED BY <2>1, <2>2
<1>. QED BY <1>8, <1>9, <1>10, <1>12, FeedMoves

-----------------------------------------------------------------------------
(***************************************************************************)
(* Clients of the listing.                                                 *)
(***************************************************************************)
LEMMA ListMoves ==
  ASSUME StreamInv, NEW l \in Lister, NEW g \in List, setLister(l, g),
         g.project = lister[l].project,
         g.open /\ g.to # 0 => \A a \in Actor : ~holds(a, g.project),
         soundList(g),
         \A o \in existing :
           (Home[o] = g.project /\ ~g.fresh
             /\ creation[o] <= (IF g.finished THEN g.ceiling ELSE g.after)) => o \in g.seen
  PROVE  StreamInv'
<1>1. lister' = [lister EXCEPT ![l] = g]
  BY DEF setLister
<1>2. UNCHANGED <<streamVars, writerVars, cleanVars, reader>>
  BY DEF setLister
<1>3. lister \in [Lister -> List]
  BY DEF StreamInv, TypeOK
<1>4. TypeOK'
  BY <1>1, <1>2, <1>3 DEF StreamInv, TypeOK, streamVars, writerVars, cleanVars
<1>5. LockInv'
  <2>1. \A q \in Project, a \in Actor : holds(a, q)' <=> holds(a, q)
    BY <1>2 DEF holds, writerVars, cleanVars
  <2>2. \A q \in Project : sharing(q)' => sharing(q) \/ (g.open /\ g.to # 0 /\ g.project = q)
    BY <1>1, <1>2, <1>3 DEF sharing
  <2>. QED BY <2>1, <2>2 DEF StreamInv, LockInv
<1>6. ListInv'
  <2>1. \A s \in Lister : soundList(lister'[s])
    BY <1>1, <1>3 DEF StreamInv, ListInv
  <2>. QED BY <1>2, <2>1 DEF ListInv, soundList, streamVars
<1>7. ListingIsComplete'
  BY <1>1, <1>2, <1>3 DEF StreamInv, ListingIsComplete, streamVars
<1>. QED BY <1>2, <1>4, <1>5, <1>6, <1>7, WriterSame, RowSame, StreamSame, CursorSame
         DEF StreamInv, streamVars, writerVars

LEMMA OpenListKeeps ==
  ASSUME StreamInv, NEW l \in Lister, OpenList(l)
  PROVE  StreamInv'
<1>. DEFINE f == lister[l]
            p == f.project
            from == IF f.fresh THEN listStart(p) ELSE f.after
            to == IF f.fresh THEN head[p] ELSE f.ceiling
            g == opened(f, from, to)
<1>1. /\ f \in List /\ p \in Project /\ head[p] \in Nat
      /\ f.after \in Nat /\ f.ceiling \in Nat
  BY DEF StreamInv, TypeOK, List
<1>2. soundList(f) /\ ~f.finished
  BY DEF StreamInv, ListInv, OpenList
<1>3. /\ from \in Nat /\ to \in Nat /\ from <= to /\ to <= head[p]
      /\ from = IF f.fresh THEN 0 ELSE f.after
  BY <1>1, <1>2 DEF listStart, soundList
<1>4. /\ g \in List /\ g.open /\ g.from = from /\ g.to = to /\ g.project = p
      /\ g.fresh = f.fresh /\ g.seen = f.seen /\ g.after = f.after
      /\ g.ceiling = f.ceiling /\ g.finished = f.finished
  BY <1>1, <1>3 DEF opened, List
<1>. HIDE DEF g
<1>5. soundList(g)
  BY <1>2, <1>3, <1>4 DEF soundList
<1>6. g.to # 0 => \A a \in Actor : ~holds(a, p)
  BY <1>1, <1>3, <1>4 DEF OpenList, readable, Actor
<1>7. setLister(l, g)
  BY DEF OpenList, g
<1>8. \A o \in existing :
        (Home[o] = g.project /\ ~g.fresh
          /\ creation[o] <= (IF g.finished THEN g.ceiling ELSE g.after)) => o \in g.seen
  BY <1>4 DEF StreamInv, ListingIsComplete
<1>. QED BY <1>4, <1>5, <1>6, <1>7, <1>8, ListMoves

LEMMA ListRestKeeps ==
  ASSUME StreamInv, NEW l \in Lister, ListAgain(l) \/ ListLost(l)
  PROVE  StreamInv'
<1>. DEFINE f == lister[l]
<1>1. f \in List /\ head[f.project] \in Nat
  BY DEF StreamInv, TypeOK, List
<1>2. CASE ListAgain(l)
  <2>. DEFINE g == newList(f.project)
  <2>1. g \in List
    BY <1>1 DEF newList, List
  <2>2. soundList(g) /\ g.project = f.project /\ g.fresh /\ ~g.open
    BY <1>1 DEF newList, soundList
  <2>3. setLister(l, g)
    BY <1>2 DEF ListAgain
  <2>. HIDE DEF g
  <2>. QED BY <2>1, <2>2, <2>3, ListMoves
<1>3. CASE ListLost(l)
  <2>. DEFINE g == closed(f)
  <2>1. /\ g \in List /\ ~g.open /\ g.project = f.project
        /\ g.fresh = f.fresh /\ g.seen = f.seen /\ g.after = f.after
        /\ g.ceiling = f.ceiling /\ g.finished = f.finished
    BY <1>1 DEF closed, List
  <2>2. setLister(l, g)
    BY <1>3 DEF ListLost
  <2>. HIDE DEF g
  <2>3. soundList(f)
    BY DEF StreamInv, ListInv
  <2>4. soundList(g)
    BY <2>1, <2>3 DEF soundList
  <2>5. \A o \in existing :
          (Home[o] = g.project /\ ~g.fresh
            /\ creation[o] <= (IF g.finished THEN g.ceiling ELSE g.after)) => o \in g.seen
    BY <2>1 DEF StreamInv, ListingIsComplete
  <2>. QED BY <2>1, <2>2, <2>4, <2>5, ListMoves
<1>. QED BY <1>2, <1>3

LEMMA ListPageKeeps ==
  ASSUME StreamInv, NEW l \in Lister, ListPage(l)
  PROVE  StreamInv'
<1>. DEFINE f == lister[l]
            found == {creation[o] : o \in listed(f)}
            c == continuation(f, found)
            g == [closed(f) EXCEPT
                    !.fresh = FALSE, !.finished = (firstOf(found) = found),
                    !.after = c, !.ceiling = f.to,
                    !.seen = f.seen \cup {o \in listed(f) : creation[o] \in firstOf(found)}]
<1>1. /\ f \in List /\ f.open /\ f.from \in Nat /\ f.to \in Nat /\ f.after \in Nat
  BY DEF StreamInv, TypeOK, List, ListPage
<1>2. soundList(f)
  BY DEF StreamInv, ListInv
<1>3. /\ listed(f) \in SUBSET Operation
      /\ \A o \in existing : creation[o] \in Nat /\ 0 < creation[o]
  BY DEF StreamInv, TypeOK, RowInv, listed
<1>4. found \in SUBSET Nat /\ \A n \in found : f.from < n /\ n <= f.to
  BY <1>3 DEF listed
<1>5. \A o \in listed(f) : creation[o] \in found
  OBVIOUS
<1>. HIDE DEF found
<1>6. /\ c \in Nat /\ f.from <= c /\ c <= f.to
      /\ firstOf(found) = {n \in found : n <= c}
  BY <1>1, <1>2, <1>4, PageIsPrefix DEF soundList
<1>. HIDE DEF c
<1>7. /\ g \in List /\ ~g.open /\ ~g.fresh /\ g.project = f.project
      /\ g.after = c /\ g.ceiling = f.to
      /\ g.finished = (firstOf(found) = found)
      /\ g.seen = f.seen \cup {o \in listed(f) : creation[o] \in firstOf(found)}
  BY <1>1, <1>3, <1>6 DEF closed, List
<1>8. setLister(l, g)
  BY DEF ListPage, c, found
<1>. HIDE DEF g
<1>9. soundList(g)
  BY <1>1, <1>2, <1>6, <1>7 DEF soundList
<1>10. ASSUME NEW o \in existing, Home[o] = f.project,
              creation[o] <= (IF g.finished THEN g.ceiling ELSE g.after)
       PROVE  o \in g.seen
  <2>1. creation[o] <= f.to
    BY <1>1, <1>3, <1>6, <1>7, <1>10
  <2>2. CASE creation[o] <= f.from
    <3>1. ~f.fresh /\ f.from = f.after /\ ~f.finished
      BY <1>1, <1>2, <1>3, <2>2 DEF soundList
    <3>2. o \in f.seen
      BY <1>10, <2>2, <3>1 DEF StreamInv, ListingIsComplete
    <3>. QED BY <1>7, <3>2
  <2>3. CASE f.from < creation[o]
    <3>1. o \in listed(f)
      BY <1>10, <2>1, <2>3 DEF listed
    <3>2. creation[o] \in firstOf(found)
      BY <1>5, <1>6, <1>7, <1>10, <3>1
    <3>. QED BY <1>7, <3>1, <3>2
  <2>. QED BY <1>1, <1>3, <2>2, <2>3
<1>. QED BY <1>7, <1>8, <1>9, <1>10, ListMoves

-----------------------------------------------------------------------------
(***************************************************************************)
(* The theorems.                                                           *)
(***************************************************************************)
LEMMA StepKeeps == StreamInv /\ [Next]_vars => StreamInv'
<1>. SUFFICES ASSUME StreamInv, [Next]_vars PROVE StreamInv'
  OBVIOUS
<1>1. CASE \E w \in Writer : Publish(w)
  BY <1>1, WriteKeeps, FinalizeKeeps, CommitKeeps, AbortKeeps DEF Publish
<1>2. CASE \E o \in Operation : DeleteOperation(o)
  BY <1>2, DeleteOperationKeeps
<1>3. CASE \E c \in Cleaner : Clean(c)
  BY <1>3, SelectKeeps, LockKeeps, DeleteKeeps, AbortCleanupKeeps DEF Clean
<1>4. CASE \E r \in Reader : OpenFeed(r) \/ CursorExpired(r) \/ FeedPage(r) \/ FeedLost(r)
  BY <1>4, OpenFeedKeeps, FreshFeedKeeps, FeedPageKeeps
<1>5. CASE \E l \in Lister : OpenList(l) \/ ListPage(l) \/ ListLost(l) \/ ListAgain(l)
  BY <1>5, OpenListKeeps, ListPageKeeps, ListRestKeeps
<1>6. CASE UNCHANGED vars
  <2>1. /\ UNCHANGED <<head, floor, events, creation, existing, log, todo, done, heads>>
        /\ UNCHANGED <<candidates, locked, reader, lister>>
    BY <1>6 DEF vars, streamVars, writerVars, cleanVars
  <2>2. TypeOK'
    BY <2>1 DEF StreamInv, TypeOK
  <2>. QED BY <2>1, <2>2, LockSame, WriterSame, RowSame, StreamSame, CursorSame, ListSame
           DEF StreamInv
<1>. QED BY <1>1, <1>2, <1>3, <1>4, <1>5, <1>6 DEF Next

LEMMA StreamInvHolds == Spec => []StreamInv
BY InitInv, StepKeeps, PTL DEF Spec

\* TypeOK (migration 0001: project_streams, CHECK floor <= head): every reachable state is
\* well typed, and no floor passes its head.
THEOREM TypeCorrect == Spec => []TypeOK
<1>1. StreamInv => TypeOK
  BY DEF StreamInv
<1>. QED BY <1>1, StreamInvHolds, PTL

\* StreamIsGapless (finalizeEvents, cleanupEvents): whatever transactions overlap and roll
\* back, the committed numbers of a project are 1 up to its head, each once, and only
\* cleanup takes events away, below the floor.
THEOREM StreamHasNoGap == Spec => []StreamIsGapless
<1>1. StreamInv => StreamIsGapless
  BY DEF StreamInv
<1>. QED BY <1>1, StreamInvHolds, PTL

\* FeedIsComplete (readWindow and the page of events): a client that follows its cursor
\* has every event of its filter between its start and its cursor.
THEOREM FeedSkipsNothing == Spec => []FeedIsComplete
<1>1. StreamInv => FeedIsComplete
  BY DEF StreamInv
<1>. QED BY <1>1, StreamInvHolds, PTL

\* ListingIsComplete (operations): a listing contains every operation that was there
\* throughout.
THEOREM ListingSkipsNothing == Spec => []ListingIsComplete
<1>1. StreamInv => ListingIsComplete
  BY DEF StreamInv
<1>. QED BY <1>1, StreamInvHolds, PTL

\* HighWaterIsFinal (finalizeEvents under the stream lock, readWindow): what a commit
\* publishes is above every high-water mark that was given out.
THEOREM HighWaterStaysFinal == Spec => HighWaterIsFinal
<1>. DEFINE Above ==
       \A e \in log' \ log :
         /\ \A r \in Reader : Home[e.operation] = reader[r].project
                                => e.sequence > reader[r].ceiling
         /\ \A l \in Lister : Home[e.operation] = lister[l].project
                                => e.sequence > lister[l].ceiling
<1>1. StreamInv /\ [Next]_vars => [Above]_vars
  <2>. SUFFICES ASSUME StreamInv, Next, NEW e \in log' \ log PROVE
         /\ \A r \in Reader : Home[e.operation] = reader[r].project
                                => e.sequence > reader[r].ceiling
         /\ \A l \in Lister : Home[e.operation] = lister[l].project
                                => e.sequence > lister[l].ceiling
    OBVIOUS
  <2>1. PICK w \in Writer : Commit(w)
    BY DEF Next, Publish, Write, Finalize, Abort, DeleteOperation, Clean, Select, Lock,
           Delete, AbortCleanup, OpenFeed, CursorExpired, FeedPage, FeedLost, OpenList,
           ListPage, ListLost, ListAgain, setReader, setLister, streamVars
  <2>2. e \in done[w]
    BY <2>1 DEF Commit
  <2>3. e.sequence \in Nat /\ head[Home[e.operation]] < e.sequence
          /\ head[Home[e.operation]] \in Nat
    BY <2>1, <2>2, Committed, HomeAssumption DEF StreamInv, TypeOK
  <2>4. /\ \A r \in Reader : reader[r].ceiling \in Nat
                                /\ reader[r].ceiling <= head[reader[r].project]
        /\ \A l \in Lister : lister[l].ceiling \in Nat
                                /\ lister[l].ceiling <= head[lister[l].project]
    BY DEF StreamInv, TypeOK, CursorInv, soundFeed, ListInv, soundList, Feed, List
  <2>. QED BY <2>3, <2>4
<1>. QED BY <1>1, StreamInvHolds, PTL DEF Spec, HighWaterIsFinal

-----------------------------------------------------------------------------
(***************************************************************************)
(* The order of locks.                                                     *)
(***************************************************************************)
\* Both orders of project identifiers are strict, and the projects are finitely many.
\* Nothing is assumed of how the two orders agree.
StrictOrders ==
  /\ \A p, q \in Project : SqlRank[p] = SqlRank[q] => p = q
  /\ \A p, q \in Project : JsRank[p] = JsRank[q] => p = q
  /\ \E b \in Nat : \A p \in Project : SqlRank[p] <= b /\ JsRank[p] <= b

\* Nobody holds a stream behind one it has still to take.
OrderInv ==
  /\ \A w \in Writer : \A o \in todo[w] : \A p \in Project :
       heads[w][p] # 0 => SqlRank[p] <= SqlRank[Home[o]]
  /\ \A c \in Cleaner : \A p \in locked[c] : \A q \in wanted(c) : JsRank[p] <= JsRank[q]
  /\ \A c \in Cleaner : candidates[c] = {} => locked[c] = {}

LEMMA OrderSame ==
  OrderInv /\ UNCHANGED <<todo, heads, candidates, locked>> => OrderInv'
BY DEF OrderInv, wanted

LEMMA IdleHoldsNothing ==
  ASSUME StreamInv, NEW w \in Writer, idle(w), NEW p \in Project
  PROVE  heads[w][p] = 0
<1>1. sequences(of(done[w], p)) = {}
  BY DEF idle, sequences, of
<1>2. heads[w][p] # 0 => (head[p] + 1) .. heads[w][p] = {} /\ heads[w][p] > head[p]
  BY <1>1 DEF StreamInv, WriterInv
<1>3. heads[w][p] \in Nat /\ head[p] \in Nat
  BY DEF StreamInv, TypeOK
<1>. QED BY <1>2, <1>3

LEMMA OrderKeeps == StreamInv /\ OrderInv /\ [Next]_vars => OrderInv'
<1>. SUFFICES ASSUME StreamInv, OrderInv, [Next]_vars PROVE OrderInv'
  OBVIOUS
<1>. USE HomeAssumption, RankAssumption
<1>1. ASSUME NEW w \in Writer, NEW O \in SUBSET Operation, Write(w, O) PROVE OrderInv'
  <2>1. \A p \in Project : heads[w][p] = 0
    BY <1>1, IdleHoldsNothing DEF Write
  <2>. QED BY <1>1, <2>1 DEF StreamInv, TypeOK, OrderInv, wanted, Write, cleanVars
<1>2. ASSUME NEW w \in Writer, NEW o \in Operation, Finalize(w, o) PROVE OrderInv'
  <2>1. UNCHANGED <<candidates, locked>>
    BY <1>2 DEF Finalize, cleanVars
  <2>2. ASSUME NEW v \in Writer, NEW x \in todo'[v], NEW p \in Project, heads'[v][p] # 0
        PROVE  SqlRank[p] <= SqlRank[Home[x]]
    <3>1. x \in todo[v]
      BY <1>2, <2>2 DEF StreamInv, TypeOK, Finalize
    <3>2. CASE heads[v][p] # 0
      BY <3>1, <3>2 DEF OrderInv
    <3>3. CASE heads[v][p] = 0
      <4>1. v = w /\ p = Home[o]
        BY <1>2, <2>2, <3>3 DEF StreamInv, TypeOK, Finalize
      <4>. QED BY <1>2, <3>1, <4>1 DEF Finalize, turn
    <3>. QED BY <3>2, <3>3
  <2>. QED BY <2>1, <2>2 DEF OrderInv, wanted
<1>3. ASSUME NEW w \in Writer, Commit(w) \/ Abort(w) PROVE OrderInv'
  <2>1. UNCHANGED <<candidates, locked>>
    BY <1>3 DEF Commit, Abort, cleanVars
  <2>2. todo' = [todo EXCEPT ![w] = {}] /\ heads' = [heads EXCEPT ![w] = [p \in Project |-> 0]]
    BY <1>3 DEF Commit, Abort, released
  <2>. QED BY <2>1, <2>2 DEF StreamInv, TypeOK, OrderInv, wanted
<1>4. ASSUME NEW c \in Cleaner, NEW E \in SUBSET events, Select(c, E) PROVE OrderInv'
  <2>1. UNCHANGED <<todo, heads, locked>> /\ locked[c] = {}
    BY <1>4 DEF Select, writerVars, OrderInv
  <2>2. candidates' = [candidates EXCEPT ![c] = E]
    BY <1>4 DEF Select
  <2>. QED BY <2>1, <2>2 DEF StreamInv, TypeOK, OrderInv, wanted
<1>5. ASSUME NEW c \in Cleaner, NEW p \in Project, Lock(c, p) PROVE OrderInv'
  <2>1. UNCHANGED <<todo, heads, candidates>>
    BY <1>5 DEF Lock, writerVars
  <2>2. /\ locked' = [locked EXCEPT ![c] = locked[c] \cup {p}]
        /\ p \in wanted(c) /\ \A q \in wanted(c) : JsRank[p] <= JsRank[q]
    BY <1>5 DEF Lock
  <2>3. ASSUME NEW d \in Cleaner, NEW x \in locked'[d], NEW q \in wanted(d)'
        PROVE  JsRank[x] <= JsRank[q]
    <3>1. q \in wanted(d) /\ (x \in locked[d] \/ (d = c /\ x = p))
      BY <2>1, <2>2, <2>3 DEF StreamInv, TypeOK, wanted
    <3>. QED BY <2>2, <3>1 DEF OrderInv
  <2>4. candidates[c] # {}
    BY <2>2 DEF wanted
  <2>. QED BY <2>1, <2>2, <2>3, <2>4 DEF StreamInv, TypeOK, OrderInv
<1>6. ASSUME NEW c \in Cleaner, Delete(c) \/ AbortCleanup(c) PROVE OrderInv'
  <2>1. UNCHANGED <<todo, heads>>
    BY <1>6 DEF Delete, AbortCleanup, writerVars
  <2>2. locked' = [locked EXCEPT ![c] = {}] /\ candidates' = [candidates EXCEPT ![c] = {}]
    BY <1>6 DEF Delete, AbortCleanup
  <2>. QED BY <2>1, <2>2 DEF StreamInv, TypeOK, OrderInv, wanted
<1>7. CASE UNCHANGED <<todo, heads, candidates, locked>>
  BY <1>7, OrderSame
<1>. QED
  BY <1>1, <1>2, <1>3, <1>4, <1>5, <1>6, <1>7
     DEF Next, Publish, Clean, DeleteOperation, OpenFeed, CursorExpired, FeedPage, FeedLost,
         OpenList, ListPage, ListLost, ListAgain, setReader, setLister, vars, writerVars,
         cleanVars

\* Some stream that S holds has the highest rank of those.
LEMMA LastHeld ==
  ASSUME StrictOrders, NEW S \in SUBSET Actor, S # {}, stuck(S),
         NEW rank \in [Project -> Nat], rank = SqlRank \/ rank = JsRank
  PROVE  \E a \in S, p \in Project :
           /\ holds(a, p)
           /\ \A c \in S, q \in Project : holds(c, q) => rank[q] <= rank[p]
<1>. DEFINE held == {p \in Project : \E a \in S : holds(a, p)}
            ranks == {rank[p] : p \in held}
<1>1. ranks \in SUBSET Nat /\ ranks # {}
  BY DEF stuck
<1>2. PICK b \in Nat : \A n \in ranks : n <= b
  BY DEF StrictOrders
<1>3. PICK p \in held : \A q \in held : rank[q] <= rank[p]
  <2>. HIDE DEF held
  <2>1. PICK n \in ranks : \A m \in ranks : m <= n
    <3>. HIDE DEF ranks
    <3>. QED BY <1>1, <1>2, Highest
  <2>. QED BY <2>1
<1>. QED BY <1>3

\* A transaction that waits behind what it holds ranks the stream it wants higher.
LEMMA WaitsAhead ==
  ASSUME StreamInv, OrderInv, StrictOrders, NEW a \in Actor, NEW c \in Actor, c # a,
         NEW p \in Project, holds(a, p), NEW q \in Project, wants(a, q), holds(c, q)
  PROVE  /\ p # q
         /\ a \in Writer => SqlRank[p] < SqlRank[q]
         /\ a \in Cleaner => JsRank[p] < JsRank[q]
<1>1. p # q
  BY DEF StreamInv, LockInv
<1>2. ASSUME a \in Writer PROVE SqlRank[p] < SqlRank[q]
  <2>1. turn(a, q) /\ heads[a][p] # 0
    BY <1>2, Holds DEF wants
  <2>2. SqlRank[p] <= SqlRank[q]
    BY <1>2, <2>1 DEF turn, OrderInv
  <2>. QED BY <1>1, <2>2, RankAssumption DEF StrictOrders
<1>3. ASSUME a \in Cleaner PROVE JsRank[p] < JsRank[q]
  <2>1. q \in wanted(a) /\ p \in locked[a]
    BY <1>3, Holds, ActorAssumption DEF wants
  <2>2. JsRank[p] <= JsRank[q]
    BY <1>3, <2>1 DEF OrderInv
  <2>. QED BY <1>1, <2>2, RankAssumption DEF StrictOrders
<1>. QED BY <1>1, <1>2, <1>3

\* CirclesNeedBothOrders (finalizeEvents, cleanupEvents): however the two orders of
\* project identifiers differ, transactions that wait for each other's streams in a
\* circle are of both kinds, and some two projects are ordered the other way round.
THEOREM CirclesTakeBothKinds ==
  ASSUME StrictOrders PROVE Spec => []CirclesNeedBothOrders
<1>1. Init => OrderInv
  BY DEF Init, OrderInv
<1>2. StreamInv /\ OrderInv => CirclesNeedBothOrders
  <2>. SUFFICES ASSUME StreamInv, OrderInv, NEW S \in SUBSET Actor, S # {}, stuck(S)
                PROVE  S \cap Writer # {} /\ S \cap Cleaner # {} /\ opposed
    BY DEF CirclesNeedBothOrders, Actor
  <2>1. PICK a \in S, p \in Project :
          holds(a, p) /\ \A c \in S, q \in Project : holds(c, q) => SqlRank[q] <= SqlRank[p]
    BY LastHeld, RankAssumption
  <2>2. PICK c \in S \ {a}, q \in Project : wants(a, q) /\ holds(c, q)
    BY DEF stuck
  <2>3. SqlRank[q] <= SqlRank[p]
    BY <2>1, <2>2
  <2>4. a \notin Writer /\ p # q /\ (a \in Cleaner => JsRank[p] < JsRank[q])
    BY <2>1, <2>2, <2>3, WaitsAhead, RankAssumption
  <2>5. a \in Cleaner /\ SqlRank[q] < SqlRank[p]
    BY <2>3, <2>4, RankAssumption DEF Actor, StrictOrders
  <2>6. opposed
    BY <2>4, <2>5 DEF opposed
  <2>7. PICK d \in S, x \in Project :
          holds(d, x) /\ \A e \in S, y \in Project : holds(e, y) => JsRank[y] <= JsRank[x]
    BY LastHeld, RankAssumption
  <2>8. PICK e \in S \ {d}, y \in Project : wants(d, y) /\ holds(e, y)
    BY DEF stuck
  <2>9. JsRank[y] <= JsRank[x]
    BY <2>7, <2>8
  <2>10. d \in Writer
    BY <2>7, <2>8, <2>9, WaitsAhead, RankAssumption DEF Actor
  <2>. QED BY <2>5, <2>6, <2>10
<1>. QED BY <1>1, <1>2, OrderKeeps, StreamInvHolds, PTL DEF Spec
=============================================================================
