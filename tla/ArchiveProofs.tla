---------------------------- MODULE ArchiveProofs ----------------------------
(***************************************************************************)
(* What the archive promises its clients, for every number of writers,     *)
(* readers, keys and ids: the current insight a client polls is never      *)
(* replaced by an older one, and a history followed to its end left out no *)
(* row.  What carries both: ids drawn are not drawn again, so a row once   *)
(* committed stays as it is and where it is in the order of the pages.     *)
(***************************************************************************)
EXTENDS Archive, TLAPS

\* The row of an insert in progress is not in the table, nor another's.
IdsApart ==
  /\ \A w \in Writers : writing[w].pc = "inserted" =>
       writing[w].id \in 1..drawn /\ writing[w].id \notin DOMAIN table
  /\ \A v, w \in Writers : v # w /\ writing[v].pc = "inserted" /\ writing[w].pc = "inserted" =>
       writing[v].id # writing[w].id

\* What the client was shown is stored, and of the scope it polls.
ShownIsStored ==
  polling.shown # None => \E i \in InsightsOf("pair") : polling.shown = Cursor(i)

ArchiveInv == TypeOK /\ IdsApart /\ ShownIsStored

\* No row, no request and nothing shown.
LEMMA InitInv == Init => ArchiveInv
BY ArchiveAssumption DEF Init, ArchiveInv, TypeOK, Attempt, IdsApart, ShownIsStored, Idle, Unread, Request, Cursors

\* An insert takes an id that no other has.
LEMMA InsertKeeps ==
  ASSUME ArchiveInv, NEW w \in Writers, Insert(w)
  PROVE  ArchiveInv'
<1> USE DEF ArchiveInv
<1>0. /\ drawn' = drawn + 1 /\ drawn \in Nat /\ UNCHANGED <<kind, table, reading, polling, now>>
      /\ writing' \in [Writers -> Attempt]
      /\ \A v \in Writers \ {w} : writing'[v] = writing[v]
      /\ writing'[w].id = drawn + 1 /\ writing'[w].key = writing[w].key
      /\ writing[w].pc = "stamped"
  <2>1. writing[w] \in Attempt
    BY DEF TypeOK, Attempt
  <2>2. writing'[w] = [pc |-> "inserted", key |-> writing[w].key, stamp |-> writing[w].stamp,
                       id |-> drawn + 1]
    BY <2>1 DEF Insert, TypeOK, Attempt
  <2>3. writing'[w] \in Attempt
    BY <2>1, <2>2 DEF TypeOK, Attempt
  <2>4. \A v \in Writers \ {w} : writing'[v] = writing[v]
    BY DEF Insert, TypeOK, Attempt
  <2>5. writing' \in [Writers -> Attempt]
    BY <2>3 DEF Insert, TypeOK, Attempt
  <2>6. writing'[w].id = drawn + 1 /\ writing'[w].key = writing[w].key
    BY <2>1, <2>2
  <2>7. /\ drawn' = drawn + 1 /\ drawn \in Nat /\ UNCHANGED <<kind, table, reading, polling, now>>
        /\ writing[w].pc = "stamped"
    BY DEF Insert, TypeOK, Attempt
  <2> QED
    BY <2>4, <2>5, <2>6, <2>7
<1>1. TypeOK'
  BY <1>0 DEF TypeOK
<1>2. IdsApart'
  <2>1. \A v \in Writers : v # w => writing'[v] = writing[v]
    BY <1>0
  <2> QED
    BY <1>0, <2>1 DEF TypeOK, IdsApart
<1>3. ShownIsStored'
  BY DEF ShownIsStored, Insert, InsightsOf, Cursor
<1> QED
  BY <1>1, <1>2, <1>3

\* A commit adds a row at most, and changes none.
LEMMA CommitKeeps ==
  ASSUME ArchiveInv, NEW w \in Writers, Commit(w)
  PROVE  ArchiveInv'
<1> USE DEF ArchiveInv
<1> DEFINE new == writing[w].id
<1>1. CASE Known(writing[w].key)
  BY <1>1 DEF Commit, TypeOK, Attempt, IdsApart, ShownIsStored, InsightsOf, Cursor, Idle
<1>2. CASE ~Known(writing[w].key)
  <2>1. /\ DOMAIN table' = DOMAIN table \cup {new}
        /\ new \notin DOMAIN table /\ new \in 1..drawn
        /\ \A i \in DOMAIN table : table'[i] = table[i]
        /\ table'[new].key = writing[w].key /\ table'[new].stamp = writing[w].stamp
        /\ writing[w].key \in Keys /\ writing[w].stamp \in Nat
    BY <1>2 DEF Commit, IdsApart, TypeOK, Attempt, Row
  <2>2. TypeOK'
    <3>1. \A i \in DOMAIN table : table[i].key # writing[w].key
      BY <1>2 DEF Known
    <3>2. writing' \in [Writers -> Attempt]
          /\ \A v \in Writers : writing'[v].pc # "idle" => writing'[v].key \in Keys
      BY DEF Commit, TypeOK, Attempt, Idle
    <3> QED
      BY <2>1, <3>1, <3>2 DEF Commit, TypeOK, Attempt
  <2>3. IdsApart'
    BY <2>1 DEF Commit, TypeOK, Attempt, IdsApart, Idle
  <2>4. ShownIsStored'
    BY <2>1 DEF Commit, ShownIsStored, InsightsOf, Cursor
  <2> QED
    BY <2>2, <2>3, <2>4
<1> QED
  BY <1>1, <1>2

\* The insight that is read is a row of the scope polled.
LEMMA ReadKeeps ==
  ASSUME ArchiveInv, ReadCurrent
  PROVE  ArchiveInv'
<1> USE DEF ArchiveInv
<1>1. CASE \E i \in Newest("pair") : Projects({i}, polling.at)
  <2>1. PICK i \in Newest("pair") : polling'.shown = Cursor(i)
    BY <1>1 DEF ReadCurrent, TypeOK, Attempt
  <2>2. i \in InsightsOf("pair") /\ i \in DOMAIN table /\ i \in Nat /\ table[i].stamp \in Nat
    BY DEF Newest, InsightsOf, TypeOK, Attempt
  <2>3. polling' = [pc |-> "idle", at |-> 0, shown |-> Cursor(i)]
    BY <2>1 DEF ReadCurrent, TypeOK, Attempt
  <2>4. Cursor(i) \in Cursors
    BY <2>2 DEF Cursor, Cursors, TypeOK
  <2>5. TypeOK'
    BY <2>3, <2>4 DEF ReadCurrent, TypeOK, Attempt
  <2>6. IdsApart' /\ ShownIsStored'
    BY <2>1, <2>2 DEF ReadCurrent, IdsApart, ShownIsStored, InsightsOf, Cursor
  <2> QED
    BY <2>5, <2>6
<1>2. CASE ~\E i \in Newest("pair") : Projects({i}, polling.at)
  BY <1>2 DEF ReadCurrent, TypeOK, Attempt, IdsApart, ShownIsStored, InsightsOf, Cursor
<1> QED
  BY <1>1, <1>2

\* A request of a history is answered with rows of the table, and a cursor at one.
LEMMA FollowTyped ==
  ASSUME TypeOK, NEW r \in Readers, Follow(r)
  PROVE  reading' \in [Readers -> Request]
<1>1. reading[r] \in Request /\ DOMAIN table \subseteq Nat
  BY DEF TypeOK
<1>2. \A q \in Queries, c \in Cursors \cup {None} : Listed(q, c) \in SUBSET Nat
  BY <1>1 DEF Listed, BundlesListed, InsightsListed
<1>3. \A i \in DOMAIN table : Cursor(i) \in Cursors
  BY DEF TypeOK, Cursor, Cursors
<1>4. SUFFICES \E x \in Request : reading' = [reading EXCEPT ![r] = x]
  BY DEF TypeOK
<1>5. ASSUME NEW q \in Queries, Begin(r, q) PROVE \E x \in Request : reading' = [reading EXCEPT ![r] = x]
  <2>1. q.cursor \in Cursors \cup {None}
    BY ArchiveAssumption DEF Cursors
  <2>2. Listed(q, q.cursor) \in SUBSET Nat /\ now \in Nat
    BY <1>2, <2>1 DEF TypeOK
  <2>3. [pc |-> "asked", query |-> q, cursor |-> q.cursor, at |-> now, seen |-> <<>>,
         owed |-> Listed(q, q.cursor)] \in Request
    BY <2>1, <2>2 DEF Request
  <2>4. [Unread EXCEPT !.pc = "badRequest"] \in Request
    <3>1. Unread \in Request
      BY DEF Unread, Request
    <3> QED
      BY <3>1 DEF Request
  <2> QED
    BY <1>5, <2>3, <2>4 DEF Begin
<1>6. ASSUME NEW items \in SUBSET Nat, NEW listed, items \subseteq DOMAIN table, Answer(r, listed, items)
      PROVE  \E x \in Request : reading' = [reading EXCEPT ![r] = x]
  <2> DEFINE given == [reading[r] EXCEPT !.at = 0, !.seen = Append(@, items)]
  <2>1. Append(reading[r].seen, items) \in Seq(SUBSET Nat)
    BY <1>1 DEF Request
  <2>2. given \in Request
    BY <1>1, <2>1 DEF Request
  <2> HIDE DEF given
  <2>3. [given EXCEPT !.pc = "done"] \in Request
    BY <2>2 DEF Request
  <2>4. \A last \in items : [given EXCEPT !.pc = "between", !.cursor = Cursor(last)] \in Request
    BY <1>3, <1>6, <2>2 DEF Request
  <2>5. CASE reading' = [reading EXCEPT ![r] = [given EXCEPT !.pc = "done"]]
    BY <2>3, <2>5
  <2>6. CASE \E last \in items : reading' = [reading EXCEPT ![r] =
                  [given EXCEPT !.pc = "between", !.cursor = Cursor(last)]]
    BY <2>4, <2>6
  <2> QED
    BY <1>6, <2>5, <2>6 DEF Answer, given
<1>7. ASSUME Refuse(r) PROVE \E x \in Request : reading' = [reading EXCEPT ![r] = x]
  <2>1. [reading[r] EXCEPT !.pc = "between", !.at = 0] \in Request
    BY <1>1 DEF Request
  <2>2. reading' = [reading EXCEPT ![r] = [reading[r] EXCEPT !.pc = "between", !.at = 0]]
    BY <1>7 DEF Refuse
  <2> QED
    BY <2>1, <2>2
<1>8. ASSUME Ask(r) PROVE \E x \in Request : reading' = [reading EXCEPT ![r] = x]
  <2>1. [reading[r] EXCEPT !.pc = "asked", !.at = now] \in Request
    BY <1>1 DEF Request, TypeOK
  <2>2. reading' = [reading EXCEPT ![r] = [reading[r] EXCEPT !.pc = "asked", !.at = now]]
    BY <1>8 DEF Ask
  <2> QED
    BY <2>1, <2>2
<1>9. \A items : items \in SUBSET Listed(reading[r].query, reading[r].cursor)
         => items \in SUBSET Nat /\ items \subseteq DOMAIN table
  BY <1>1 DEF Listed, BundlesListed, InsightsListed
<1>10. ASSUME ReadBundles(r) \/ ReadInsights(r) PROVE \E x \in Request : reading' = [reading EXCEPT ![r] = x]
  <2>1. PICK items \in SUBSET Listed(reading[r].query, reading[r].cursor) :
          Answer(r, Listed(reading[r].query, reading[r].cursor), items) \/ Refuse(r)
    BY <1>10 DEF ReadBundles, ReadInsights
  <2> QED
    BY <1>6, <1>7, <1>9, <2>1
<1> QED
  BY <1>5, <1>7, <1>8, <1>10 DEF Follow, ReadFails

\* Clients change no row; of the writers' steps only a commit does.
LEMMA StepInv == ArchiveInv /\ [Next]_vars => ArchiveInv'
<1> SUFFICES ASSUME ArchiveInv, [Next]_vars PROVE ArchiveInv'
  OBVIOUS
<1> USE DEF ArchiveInv
<1>1. CASE Tick
  BY <1>1, ArchiveAssumption DEF Tick, TypeOK, Attempt, IdsApart, ShownIsStored, InsightsOf, Cursor
<1>2. ASSUME NEW w \in Writers, NEW k \in Keys, Stamp(w, k) PROVE ArchiveInv'
  BY <1>2 DEF Stamp, TypeOK, Attempt, IdsApart, ShownIsStored, InsightsOf, Cursor
<1>3. ASSUME NEW w \in Writers, GiveUp(w) PROVE ArchiveInv'
  BY <1>3 DEF GiveUp, TypeOK, Attempt, IdsApart, ShownIsStored, InsightsOf, Cursor, Idle
<1>4. ASSUME NEW r \in Readers, Follow(r) PROVE ArchiveInv'
  <2>1. UNCHANGED <<kind, drawn, table, writing, polling, now>>
    BY <1>4 DEF Follow, Begin, ReadBundles, ReadInsights, Ask, ReadFails
  <2>2. reading' \in [Readers -> Request]
    BY <1>4, FollowTyped
  <2> QED
    BY <2>1, <2>2 DEF TypeOK, Attempt, IdsApart, ShownIsStored, InsightsOf, Cursor
<1>5. CASE AskCurrent
  BY <1>5 DEF AskCurrent, TypeOK, Attempt, IdsApart, ShownIsStored, InsightsOf, Cursor
<1>6. CASE UNCHANGED vars
  BY <1>6 DEF vars, TypeOK, Attempt, IdsApart, ShownIsStored, InsightsOf, Cursor
<1> QED
  BY <1>1, <1>2, <1>3, <1>4, <1>5, <1>6, InsertKeeps, CommitKeeps, ReadKeeps DEF Next, Write

\* The invariant of the writers and of the client that polls.
LEMMA Inductive == Spec => []ArchiveInv
BY InitInv, StepInv, PTL DEF Spec

\* The types hold in every reachable state, and no key has two rows: neither
\* the race of two inserts nor a retried one stores a run or an input twice.
THEOREM TypeCorrect == Spec => []TypeOK
BY Inductive, PTL DEF ArchiveInv

\* The insight shown is one step older than the next at most by the order of
\* the pages: the newest by stamp and id of a table that only grows.
THEOREM CurrentMonotone == Spec => CurrentNeverOlder
<1> DEFINE Forward == polling.shown # None =>
       \/ polling'.shown = polling.shown
       \/ polling'.shown.stamp > polling.shown.stamp
       \/ polling'.shown.stamp = polling.shown.stamp /\ polling'.shown.id > polling.shown.id
<1>1. ArchiveInv /\ [Next]_vars => [Forward]_vars
  <2> SUFFICES ASSUME ArchiveInv, Next, polling.shown # None PROVE Forward
    OBVIOUS
  <2>1. CASE ReadCurrent
    <3>1. CASE \E i \in Newest("pair") : Projects({i}, polling.at)
      <4>1. PICK n \in Newest("pair") : polling'.shown = Cursor(n)
        BY <2>1, <3>1 DEF ReadCurrent, ArchiveInv, TypeOK, Attempt
      <4>2. PICK i \in InsightsOf("pair") : polling.shown = Cursor(i)
        BY DEF ArchiveInv, ShownIsStored
      <4>3. i = n \/ Newer(n, i)
        BY <4>2 DEF Newest
      <4>4. i \in Nat /\ n \in Nat /\ table[i].stamp \in Nat /\ table[n].stamp \in Nat
        BY DEF ArchiveInv, TypeOK, Attempt, Newest, InsightsOf
      <4> QED
        BY <4>1, <4>2, <4>3, <4>4 DEF Newer, Cursor
    <3>2. CASE ~\E i \in Newest("pair") : Projects({i}, polling.at)
      BY <2>1, <3>2 DEF ReadCurrent, ArchiveInv, TypeOK, Attempt
    <3> QED
      BY <3>1, <3>2
  <2>2. CASE ~ReadCurrent
    <3>1. polling'.shown = polling.shown
      BY <2>2 DEF Next, Tick, Write, Stamp, Insert, Commit, GiveUp, Follow, Begin, ReadBundles,
                  ReadInsights, Ask, ReadFails, AskCurrent, ArchiveInv, TypeOK, Attempt
    <3> QED
      BY <3>1
  <2> QED
    BY <2>1, <2>2
<1> QED
  BY <1>1, Inductive, PTL DEF Spec, CurrentNeverOlder

-----------------------------------------------------------------------------
(* Histories.  Behind the cursor lies what the pages held, and after it    *)
(* what they have still to hold.  Neither the order of two rows nor a      *)
(* row's place before or after a cursor ever changes.                      *)

Given(x, i) == \E n \in DOMAIN x.seen : i \in x.seen[n]

PagesStored(x) == \A n \in DOMAIN x.seen : x.seen[n] \subseteq DOMAIN table

PagesBehind(x) == x.pc \in {"asked", "between"} =>
  \A n \in DOMAIN x.seen : \A i \in x.seen[n] : x.cursor # None /\ ~Follows(i, x.cursor)

PagesOrdered(x) == \A m, n \in DOMAIN x.seen : m < n =>
  \A i \in x.seen[m], j \in x.seen[n] : Newer(i, j)

RestListed(x) == \A i \in x.owed :
  Given(x, i) \/ (x.pc \in {"asked", "between"} /\ i \in Listed(x.query, x.cursor))

Sound(x) == PagesStored(x) /\ PagesBehind(x) /\ PagesOrdered(x) /\ RestListed(x)

PagesInv == \A r \in Readers : Sound(reading[r])

\* No step changes a row, or takes one away.
LEMMA TableGrows ==
  ASSUME ArchiveInv, [Next]_vars
  PROVE  /\ kind' = kind /\ DOMAIN table \subseteq DOMAIN table'
         /\ \A i \in DOMAIN table : table'[i] = table[i]
<1>1. ASSUME NEW w \in Writers, Commit(w)
      PROVE  /\ kind' = kind /\ DOMAIN table \subseteq DOMAIN table'
             /\ \A i \in DOMAIN table : table'[i] = table[i]
  BY <1>1 DEF Commit, ArchiveInv, IdsApart
<1>2. CASE UNCHANGED <<kind, table>>
  BY <1>2
<1> QED
  BY <1>1, <1>2 DEF Next, vars, Tick, Write, Stamp, Insert, GiveUp, Follow, Begin, ReadBundles,
                    ReadInsights, Ask, ReadFails, AskCurrent, ReadCurrent

\* Rows that arrive leave a history sound.
LEMMA SoundInGrowth ==
  ASSUME NEW x, Sound(x), kind' = kind, DOMAIN table \subseteq DOMAIN table',
         \A i \in DOMAIN table : table'[i] = table[i]
  PROVE  Sound(x)'
<1>1. PagesStored(x)'
  BY DEF Sound, PagesStored
<1>2. PagesBehind(x)'
  BY DEF Sound, PagesStored, PagesBehind, Follows
<1>3. PagesOrdered(x)'
  BY DEF Sound, PagesStored, PagesOrdered, Newer
<1>4. RestListed(x)'
  BY DEF Sound, RestListed, Given, Listed, BundlesListed, InsightsListed, Follows
<1> QED
  BY <1>1, <1>2, <1>3, <1>4 DEF Sound

\* A page more leaves it sound: its rows are after the cursor, the rows left
\* are after its last.
LEMMA SoundWithPage ==
  ASSUME TypeOK, NEW r \in Readers, reading[r].pc = "asked", Sound(reading[r]),
         NEW items \in SUBSET Listed(reading[r].query, reading[r].cursor),
         IsPage(reading[r].query, Listed(reading[r].query, reading[r].cursor), items),
         Answer(r, Listed(reading[r].query, reading[r].cursor), items)
  PROVE  Sound(reading'[r])
<1> DEFINE x == reading[r]
           y == reading'[r]
           listed == Listed(x.query, x.cursor)
           k == Len(x.seen) + 1
<1>1. /\ x \in Request /\ DOMAIN table \subseteq Nat /\ listed \subseteq DOMAIN table
      /\ \A i \in DOMAIN table : table[i].stamp \in Nat
  BY DEF TypeOK, Listed, BundlesListed, InsightsListed
<1>2. /\ y.seen = Append(x.seen, items) /\ y.owed = x.owed /\ y.query = x.query
      /\ \/ y.pc = "done" /\ items = listed
         \/ /\ y.pc = "between"
            /\ \E last \in items : y.cursor = Cursor(last) /\ \A i \in items : i = last \/ Newer(i, last)
  <2> DEFINE given == [x EXCEPT !.at = 0, !.seen = Append(@, items)]
  <2>1. /\ given.seen = Append(x.seen, items) /\ given.owed = x.owed /\ given.query = x.query
        /\ given \in Request
    <3>1. items \in SUBSET Nat
      BY <1>1
    <3>2. Append(x.seen, items) \in Seq(SUBSET Nat)
      BY <1>1, <3>1 DEF Request
    <3> QED
      BY <1>1, <3>2 DEF Request
  <2> HIDE DEF given
  <2>2. CASE items = listed /\ reading' = [reading EXCEPT ![r] = [given EXCEPT !.pc = "done"]]
    BY <2>1, <2>2 DEF Request, TypeOK
  <2>3. ASSUME NEW last \in items, \A i \in items : i = last \/ Newer(i, last),
               reading' = [reading EXCEPT ![r] = [given EXCEPT !.pc = "between", !.cursor = Cursor(last)]]
        PROVE  /\ y.seen = Append(x.seen, items) /\ y.owed = x.owed /\ y.query = x.query
               /\ y.pc = "between" /\ y.cursor = Cursor(last)
    <3>1. y = [given EXCEPT !.pc = "between", !.cursor = Cursor(last)]
      BY <2>3 DEF TypeOK
    <3> QED
      BY <2>1, <3>1 DEF Request
  <2> QED
    BY <2>2, <2>3 DEF Answer, given
<1>3. /\ x.seen \in Seq(SUBSET Nat) /\ k \in Nat
      /\ DOMAIN x.seen = 1..(k - 1) /\ DOMAIN y.seen = 1..k
      /\ \A n \in DOMAIN x.seen : y.seen[n] = x.seen[n]
      /\ y.seen[k] = items
  BY <1>1, <1>2 DEF Request
<1>4. \A n \in DOMAIN y.seen : n \in DOMAIN x.seen \/ n = k
  BY <1>3
<1>5. \A n \in DOMAIN x.seen : \A i \in x.seen[n] :
         /\ i \in DOMAIN table
         /\ \A j \in listed : Newer(i, j)
  <2> SUFFICES ASSUME NEW n \in DOMAIN x.seen, NEW i \in x.seen[n]
               PROVE  i \in DOMAIN table /\ \A j \in listed : Newer(i, j)
    OBVIOUS
  <2>1. i \in DOMAIN table /\ x.cursor # None /\ ~Follows(i, x.cursor)
    BY DEF Sound, PagesStored, PagesBehind
  <2>2. \A j \in listed : Follows(j, x.cursor)
    BY <2>1 DEF Listed, BundlesListed, InsightsListed
  <2>3. x.cursor.stamp \in Int /\ x.cursor.id \in Int
    BY <1>1, <2>1 DEF Request, Cursors
  <2> QED
    BY <1>1, <2>1, <2>2, <2>3 DEF Follows, Newer
<1>6. PagesStored(y)
  BY <1>1, <1>3, <1>4 DEF Sound, PagesStored
<1>7. PagesOrdered(y)
  BY <1>3, <1>4, <1>5 DEF Sound, PagesOrdered
<1>8. \A i \in x.owed : Given(y, i) \/ i \in listed \ items
  BY <1>3, <1>4 DEF Sound, RestListed, Given
<1>9. CASE y.pc = "done" /\ items = listed
  BY <1>2, <1>6, <1>7, <1>8, <1>9 DEF Sound, PagesBehind, RestListed
<1>10. ASSUME y.pc = "between", NEW last \in items, y.cursor = Cursor(last),
              \A i \in items : i = last \/ Newer(i, last)
       PROVE  Sound(y)
  <2>1. y.cursor # None /\ y.cursor.stamp = table[last].stamp /\ y.cursor.id = last
        /\ last \in DOMAIN table
    BY <1>1, <1>10, ArchiveAssumption DEF Cursor, TypeOK
  <2>2. \A i \in DOMAIN table : i = last \/ Newer(i, last) => ~Follows(i, y.cursor)
    BY <1>1, <2>1 DEF Newer, Follows
  <2>3. PagesBehind(y)
    BY <1>1, <1>3, <1>4, <1>5, <1>10, <2>1, <2>2 DEF PagesBehind
  <2>4. \A i \in listed \ items : i \in Listed(y.query, y.cursor)
    <3> SUFFICES ASSUME NEW i \in listed \ items PROVE i \in Listed(x.query, y.cursor)
      BY <1>2
    <3>1. Newer(last, i)
      BY DEF IsPage
    <3>2. Follows(i, y.cursor)
      BY <1>1, <2>1, <3>1 DEF Newer, Follows
    <3> QED
      BY <3>2 DEF Listed, BundlesListed, InsightsListed
  <2>5. RestListed(y)
    BY <1>2, <1>8, <1>10, <2>4 DEF RestListed
  <2> QED
    BY <1>6, <1>7, <2>3, <2>5 DEF Sound
<1> QED
  BY <1>2, <1>9, <1>10

\* A request made again, refused or failed is the same history still.
LEMMA SoundAgain ==
  ASSUME NEW x, NEW y, Sound(x), x.pc \in {"asked", "between"}, y.pc \in {"asked", "between"},
         y.seen = x.seen, y.owed = x.owed, y.query = x.query, y.cursor = x.cursor
  PROVE  Sound(y)
BY DEF Sound, PagesStored, PagesBehind, PagesOrdered, RestListed, Given

\* No request of one client touches another's history.
LEMMA FollowSound ==
  ASSUME TypeOK, PagesInv, NEW r \in Readers, Follow(r)
  PROVE  Sound(reading'[r]) /\ \A s \in Readers \ {r} : reading'[s] = reading[s]
<1>0. reading[r] \in Request /\ Sound(reading[r])
  BY DEF TypeOK, PagesInv
<1>1. ASSUME NEW q \in Queries, Begin(r, q)
      PROVE  Sound(reading'[r]) /\ \A s \in Readers \ {r} : reading'[s] = reading[s]
  <2>1. \A s \in Readers \ {r} : reading'[s] = reading[s]
    BY <1>1 DEF Begin, TypeOK
  <2>2. \/ reading'[r] = [pc |-> "asked", query |-> q, cursor |-> q.cursor, at |-> now, seen |-> <<>>,
                          owed |-> Listed(q, q.cursor)]
        \/ reading'[r] = [Unread EXCEPT !.pc = "badRequest"]
    BY <1>1 DEF Begin, TypeOK
  <2>3. DOMAIN reading'[r].seen = {} /\ \A i \in reading'[r].owed :
          reading'[r].pc = "asked" /\ i \in Listed(reading'[r].query, reading'[r].cursor)
    BY <2>2 DEF Unread
  <2> QED
    BY <2>1, <2>3 DEF Sound, PagesStored, PagesBehind, PagesOrdered, RestListed
<1>2. ASSUME ReadFails(r) \/ Ask(r) \/ (reading[r].pc = "asked" /\ Refuse(r))
      PROVE  Sound(reading'[r]) /\ \A s \in Readers \ {r} : reading'[s] = reading[s]
  <2>1. \A s \in Readers \ {r} : reading'[s] = reading[s]
    BY <1>2 DEF ReadFails, Ask, Refuse, TypeOK
  <2>2. \/ reading'[r] = [reading[r] EXCEPT !.pc = "between", !.at = 0]
        \/ reading'[r] = [reading[r] EXCEPT !.pc = "asked", !.at = now]
    BY <1>2 DEF ReadFails, Ask, Refuse, TypeOK
  <2>3. reading[r].pc \in {"asked", "between"}
    BY <1>2 DEF ReadFails, Ask
  <2>4. /\ reading'[r].pc \in {"asked", "between"} /\ reading'[r].seen = reading[r].seen
        /\ reading'[r].owed = reading[r].owed /\ reading'[r].query = reading[r].query
        /\ reading'[r].cursor = reading[r].cursor
    BY <1>0, <2>2 DEF Request
  <2> QED
    BY <1>0, <2>1, <2>3, <2>4, SoundAgain
<1>3. ASSUME ReadBundles(r) \/ ReadInsights(r)
      PROVE  Sound(reading'[r]) /\ \A s \in Readers \ {r} : reading'[s] = reading[s]
  <2>1. PICK items \in SUBSET Listed(reading[r].query, reading[r].cursor) :
          /\ IsPage(reading[r].query, Listed(reading[r].query, reading[r].cursor), items)
          /\ \/ Answer(r, Listed(reading[r].query, reading[r].cursor), items)
             \/ Refuse(r)
    BY <1>3 DEF ReadBundles, ReadInsights
  <2>2. reading[r].pc = "asked"
    BY <1>3 DEF ReadBundles, ReadInsights
  <2>3. CASE Answer(r, Listed(reading[r].query, reading[r].cursor), items)
    <3>1. \A s \in Readers \ {r} : reading'[s] = reading[s]
      BY <2>3 DEF Answer, TypeOK
    <3> QED
      BY <1>0, <2>1, <2>2, <2>3, <3>1, SoundWithPage
  <2> QED
    BY <1>2, <2>1, <2>2, <2>3
<1> QED
  BY <1>1, <1>2, <1>3 DEF Follow

\* Either the table moves or a history does.
LEMMA StepPages == ArchiveInv /\ PagesInv /\ [Next]_vars => PagesInv'
<1> SUFFICES ASSUME ArchiveInv, PagesInv, [Next]_vars, NEW s \in Readers PROVE Sound(reading[s])'
  BY DEF PagesInv
<1>1. ASSUME NEW r \in Readers, Follow(r) PROVE Sound(reading[s])'
  <2>1. kind' = kind /\ table' = table
    BY <1>1 DEF Follow, Begin, ReadBundles, ReadInsights, Ask, ReadFails
  <2>2. Sound(reading'[s])
    BY <1>1, FollowSound DEF ArchiveInv, PagesInv
  <2> QED
    BY <2>1, <2>2 DEF Sound, PagesStored, PagesBehind, PagesOrdered, RestListed, Given, Follows,
                      Newer, Listed, BundlesListed, InsightsListed
<1>2. CASE reading' = reading
  <2> DEFINE x == reading[s]
  <2>1. Sound(x)
    BY DEF PagesInv
  <2>2. x' = x
    BY <1>2
  <2> QED
    BY <2>1, <2>2, TableGrows, SoundInGrowth
<1> QED
  BY <1>1, <1>2 DEF Next, vars, Tick, Write, Stamp, Insert, Commit, GiveUp, AskCurrent, ReadCurrent

\* No page has been given.
LEMMA InitPages == Init => PagesInv
BY DEF Init, Unread, PagesInv, Sound, PagesStored, PagesBehind, PagesOrdered, RestListed

\* A client that follows the cursors to the end has been given every row that
\* was committed when it began, each once and newest first, for every page
\* size, every number of writers and readers, and every order of commits.
THEOREM HistoryComplete == Spec => []HistoryIsComplete
<1>1. PagesInv => HistoryIsComplete
  <2> SUFFICES ASSUME PagesInv, NEW r \in Readers, reading[r].pc = "done"
               PROVE  LET seen == reading[r].seen
                      IN /\ \A i \in reading[r].owed : \E n \in DOMAIN seen : i \in seen[n]
                         /\ \A m, n \in DOMAIN seen : m < n =>
                              \A i \in seen[m], j \in seen[n] : Newer(i, j)
    BY DEF HistoryIsComplete
  <2> QED
    BY DEF PagesInv, Sound, PagesOrdered, RestListed, Given
<1> QED
  BY <1>1, InitPages, StepPages, Inductive, PTL DEF Spec
=============================================================================
