------------------------ MODULE QueueRefinementProofs ------------------------
(***************************************************************************)
(* With whole statements the request table implements LeasedWork.  Each    *)
(* step either leaves the rows with both halves alone, or gives one row    *)
(* its second half, or rewrites one such row: a job posted, or taken,      *)
(* handed back or closed.                                                  *)
(***************************************************************************)
EXTENDS QueueRefinement, RequestQueueProofs

\* The mapping as a function of a table, so that it can be used before and
\* after a step.
Has(row, j) == row.scope = j[1] /\ row.ruleset = j[2] /\ row.sel = j[3] /\ row.plan = j[4]

IdsIn(t, j) == {i \in DOMAIN t : Has(t[i], j)}

View(row) == [state |-> StateOf(row.status), holder |-> row.owner, until |-> row.leaseExpires]

NoView == [state |-> "absent", holder |-> Null, until |-> Null]

JobIn(t, j) == IF IdsIn(t, j) = {} THEN NoView ELSE View(t[CHOOSE i \in IdsIn(t, j) : TRUE])

LEMMA Mapping ==
  ASSUME NEW j PROVE JobOf(j) = JobIn(rows, j) /\ JobOf(j)' = JobIn(rows', j)
<1>1. RowsOf(j) = IdsIn(rows, j) /\ RowsOf(j)' = IdsIn(rows', j)
  BY DEF RowsOf, Ready, Of, IdsIn, Has
<1> QED BY <1>1 DEF JobOf, JobIn, View, NoView

\* A table's only row for a job shows its state.
LEMMA OneView ==
  ASSUME NEW t, NEW j, NEW i, IdsIn(t, j) = {i} PROVE JobIn(t, j) = View(t[i])
<1>1. (CHOOSE k \in IdsIn(t, j) : TRUE) = i
  OBVIOUS
<1> QED BY <1>1 DEF JobIn

\* Where two tables have the same rows for a job they show the same.
LEMMA SameView ==
  ASSUME NEW t, NEW u, NEW j, IdsIn(t, j) = IdsIn(u, j), \A i \in IdsIn(t, j) : t[i] = u[i]
  PROVE  JobIn(t, j) = JobIn(u, j)
<1>1. CASE IdsIn(t, j) = {}
  BY <1>1 DEF JobIn
<1>2. CASE IdsIn(t, j) # {}
  <2>1. (CHOOSE i \in IdsIn(t, j) : TRUE) \in IdsIn(t, j)
    BY <1>2
  <2> QED BY <1>2, <2>1 DEF JobIn
<1> QED BY <1>1, <1>2

\* At most one job changes: that is a step of one job.
LEMMA OneJob ==
  ASSUME NEW k \in Jobs, \A j \in Jobs \ {k} : JobIn(rows', j) = JobIn(rows, j)
  PROVE  [j \in Jobs |-> JobOf(j)]' = [[j \in Jobs |-> JobOf(j)] EXCEPT ![k] = JobIn(rows', k)]
<1>1. Jobs' = Jobs
  BY DEF Jobs
<1> QED BY <1>1, Mapping

LEMMA NoJobChanges ==
  ASSUME \A j \in Jobs : JobIn(rows', j) = JobIn(rows, j), UNCHANGED now
  PROVE  UNCHANGED Leases!jobVars
<1>1. Jobs' = Jobs
  BY DEF Jobs
<1>2. [j \in Jobs |-> JobOf(j)]' = [j \in Jobs |-> JobOf(j)]
  BY <1>1, Mapping
<1> QED BY <1>2 DEF Leases!jobVars

-----------------------------------------------------------------------------
\* Only rows that lack a half come or go.
LEMMA WaitingOnly ==
  ASSUME UNCHANGED now, QueueAssumption,
         \A i \in DOMAIN rows \cap DOMAIN rows' : rows'[i] = rows[i],
         \A i \in DOMAIN rows \ DOMAIN rows' : rows[i].sel = Null \/ rows[i].plan = Null,
         \A i \in DOMAIN rows' \ DOMAIN rows : rows'[i].sel = Null \/ rows'[i].plan = Null
  PROVE  UNCHANGED Leases!jobVars
<1>1. ASSUME NEW j \in Jobs PROVE JobIn(rows', j) = JobIn(rows, j)
  <2>1. j[3] # Null /\ j[4] # Null
    BY DEF Jobs, QueueAssumption
  <2>2. IdsIn(rows', j) = IdsIn(rows, j) /\ IdsIn(rows, j) \subseteq DOMAIN rows \cap DOMAIN rows'
    BY <2>1 DEF IdsIn, Has
  <2> QED BY <2>2, SameView
<1> QED BY <1>1, NoJobChanges

\* A job that had no row gets row i, pending.
LEMMA PostSound ==
  ASSUME QueueAssumption, UNCHANGED now, NEW k \in Jobs, NEW i \in DOMAIN rows',
         IdsIn(rows, k) = {}, Has(rows'[i], k), rows'[i].status = "pending",
         rows'[i].owner = Null, rows'[i].leaseExpires = Null,
         i \in DOMAIN rows => rows[i].sel = Null \/ rows[i].plan = Null,
         \A n \in (DOMAIN rows \cap DOMAIN rows') \ {i} : rows'[n] = rows[n],
         \A n \in DOMAIN rows \ DOMAIN rows' : rows[n].sel = Null \/ rows[n].plan = Null,
         DOMAIN rows' \ DOMAIN rows \subseteq {i}
  PROVE  Leases!Post(k)
<1>1. \A j \in Jobs : j[3] # Null /\ j[4] # Null
  BY DEF Jobs, QueueAssumption
<1>2. ASSUME NEW j \in Jobs \ {k} PROVE JobIn(rows', j) = JobIn(rows, j)
  <2>1. ~ Has(rows'[i], j)
    <3>1. j # k => j[1] # k[1] \/ j[2] # k[2] \/ j[3] # k[3] \/ j[4] # k[4]
      BY DEF Jobs
    <3> QED BY <3>1 DEF Has
  <2>2. i \in DOMAIN rows => ~ Has(rows[i], j)
    BY <1>1 DEF Has
  <2>3. IdsIn(rows', j) = IdsIn(rows, j) /\ \A n \in IdsIn(rows, j) : rows'[n] = rows[n]
    BY <1>1, <2>1, <2>2 DEF IdsIn, Has
  <2> QED BY <2>3, SameView
<1>3. IdsIn(rows', k) = {i}
  BY <1>1 DEF IdsIn, Has
<1>4. JobIn(rows', k) = Leases!Open
  BY <1>3, OneView DEF View, StateOf, Waiting, Leases!Open
<1>5. [j \in Jobs |-> JobOf(j)][k] = Leases!Absent
  BY Mapping DEF JobIn, NoView, Leases!Absent
<1>6. [j \in Jobs |-> JobOf(j)]' = [[j \in Jobs |-> JobOf(j)] EXCEPT ![k] = Leases!Open]
  BY <1>2, <1>4, OneJob
<1> QED BY <1>5, <1>6 DEF Leases!Post, Leases!Become

\* A row with both halves is rewritten: its job, which shows that row, changes.
LEMMA RewriteSound ==
  ASSUME QueueAssumption, QueueInv, NEW i \in DOMAIN rows, NEW new, rows'[i] = new,
         DOMAIN rows' = DOMAIN rows, \A n \in DOMAIN rows \ {i} : rows'[n] = rows[n],
         new.scope = rows[i].scope, new.ruleset = rows[i].ruleset,
         new.sel = rows[i].sel, new.plan = rows[i].plan,
         rows[i].sel # Null, rows[i].plan # Null
  PROVE  \E k \in Jobs :
           /\ [j \in Jobs |-> JobOf(j)][k] = View(rows[i])
           /\ [j \in Jobs |-> JobOf(j)]' = [[j \in Jobs |-> JobOf(j)] EXCEPT ![k] = View(new)]
<1> DEFINE k == <<rows[i].scope, rows[i].ruleset, rows[i].sel, rows[i].plan>>
<1>1. k \in Jobs
  BY DEF QueueInv, TypeOK, Row, Jobs
<1>2. \A j : IdsIn(rows', j) = IdsIn(rows, j)
  BY DEF IdsIn, Has
<1>3. IdsIn(rows, k) = {i}
  BY DEF IdsIn, Has, QueueInv, SchemaHolds, Identity
<1>4. ASSUME NEW j \in Jobs \ {k} PROVE JobIn(rows', j) = JobIn(rows, j)
  <2>1. i \notin IdsIn(rows, j)
    BY DEF IdsIn, Has, Jobs
  <2>2. IdsIn(rows', j) = IdsIn(rows, j) /\ \A n \in IdsIn(rows, j) : rows'[n] = rows[n]
    BY <1>2, <2>1 DEF IdsIn
  <2> QED BY <2>2, SameView
<1>5. JobIn(rows, k) = View(rows[i]) /\ JobIn(rows', k) = View(rows'[i])
  BY <1>2, <1>3, OneView
<1> HIDE DEF k
<1>6. [j \in Jobs |-> JobOf(j)][k] = View(rows[i])
  BY <1>1, <1>5, Mapping
<1>7. [j \in Jobs |-> JobOf(j)]' = [[j \in Jobs |-> JobOf(j)] EXCEPT ![k] = View(new)]
  BY <1>1, <1>4, <1>5, OneJob
<1> QED BY <1>1, <1>6, <1>7

-----------------------------------------------------------------------------
LEMMA RequestPosts ==
  ASSUME QueueAssumption, QueueInv, NEW s \in Scopes, NEW r \in Rulesets,
         NEW sel \in Selections \cup {Null}, NEW p \in Plans \cup {Null},
         EnqueueOrReconcile(s, r, sel, p)
  PROVE  UNCHANGED Leases!jobVars \/ \E k \in Jobs : Leases!Post(k)
<1> DEFINE k == <<s, r, sel, p>>
<1>0. UNCHANGED now /\ lastId \in Nat /\ DOMAIN rows \subseteq 1..lastId
  BY DEF EnqueueOrReconcile, QueueInv, TypeOK
<1>1. \A i \in DOMAIN rows : rows[i].status \in Waiting => rows[i].sel = Null \/ rows[i].plan = Null
  BY DEF QueueInv, SchemaHolds, RowCheck, HashesCheck, Waiting
<1>2. ASSUME NEW row, Insert(row), row.sel = Null \/ row.plan = Null
      PROVE  UNCHANGED Leases!jobVars
  BY <1>0, <1>2, WaitingOnly DEF Insert
<1>3. ASSUME sel # Null, p # Null, Ready(s, r, sel, p) = {} PROVE k \in Jobs /\ IdsIn(rows, k) = {}
  BY <1>3 DEF Jobs, Ready, Of, IdsIn, Has
<1>4. ASSUME sel # Null, p # Null, Ready(s, r, sel, p) = {},
             NEW i \in Of(s, r), rows[i].status \in Waiting,
             NEW ids \in SUBSET DOMAIN rows, i \notin ids, Promote(i, sel, p, ids),
             \A n \in ids : rows[n].status \in Waiting
      PROVE  \E j \in Jobs : Leases!Post(j)
  <2>1. i \in DOMAIN rows /\ rows[i] \in Row /\ rows[i].scope = s /\ rows[i].ruleset = r
    BY DEF Of, QueueInv, TypeOK
  <2>2. DOMAIN rows' = DOMAIN rows \ ids /\ \A n \in DOMAIN rows' \ {i} : rows'[n] = rows[n]
    BY <1>4 DEF Promote
  <2>3. rows'[i] = [rows[i] EXCEPT !.sel = sel, !.plan = p, !.status = "pending"]
    BY <1>4, <2>1 DEF Promote
  <2>4. /\ Has(rows'[i], k) /\ rows'[i].status = "pending"
        /\ rows'[i].owner = rows[i].owner /\ rows'[i].leaseExpires = rows[i].leaseExpires
    BY <2>1, <2>3 DEF Has, Row
  <2>5. rows[i].owner = Null /\ rows[i].leaseExpires = Null
    BY <1>4, <2>1 DEF QueueInv, SchemaHolds, RowCheck, LeaseCheck, Waiting
  <2>6. k \in Jobs /\ IdsIn(rows, k) = {}
    BY <1>3, <1>4
  <2> HIDE DEF k
  <2> QED BY <1>0, <1>1, <1>4, <2>1, <2>2, <2>4, <2>5, <2>6, PostSound
<1>5. \A n \in AwaitingPlan(s, r, sel) \cup AwaitingEvidence(s, r, p) :
        n \in Of(s, r) /\ n \in DOMAIN rows /\ rows[n].status \in Waiting
  BY DEF AwaitingPlan, AwaitingEvidence, Of, Waiting
<1>6. AwaitingPlan(s, r, sel) \cap AwaitingEvidence(s, r, p) = {}
  BY DEF AwaitingPlan, AwaitingEvidence
<1>7. CASE sel # Null /\ p # Null /\ EnqueueBoth(s, r, sel, p)
  <2>1. CASE ReuseReady(s, r, sel, p)
    <3>1. /\ DOMAIN rows' = DOMAIN rows \ (AwaitingPlan(s, r, sel) \cup AwaitingEvidence(s, r, p))
          /\ \A n \in DOMAIN rows' : rows'[n] = rows[n]
      BY <2>1 DEF ReuseReady, Delete, Restrict
    <3> QED BY <1>0, <1>1, <1>5, <3>1, WaitingOnly
  <2>2. CASE PromoteAwaitingPlan(s, r, sel, p)
    BY <1>4, <1>5, <1>6, <1>7, <2>2 DEF PromoteAwaitingPlan
  <2>3. CASE PromoteAwaitingEvidence(s, r, sel, p)
    BY <1>4, <1>5, <1>6, <1>7, <2>3 DEF PromoteAwaitingEvidence
  <2>4. CASE InsertPending(s, r, sel, p)
    <3> DEFINE row == NewRow(s, r, sel, p, "pending")
    <3>1. /\ lastId' \notin DOMAIN rows /\ DOMAIN rows' = DOMAIN rows \cup {lastId'}
          /\ rows'[lastId'] = row /\ \A n \in DOMAIN rows : rows'[n] = rows[n]
      BY <1>0, <2>4 DEF InsertPending, Insert
    <3>2. Has(row, k) /\ row.status = "pending" /\ row.owner = Null /\ row.leaseExpires = Null
      BY DEF NewRow, Has
    <3>3. k \in Jobs /\ IdsIn(rows, k) = {}
      BY <1>3, <1>7, <2>4 DEF InsertPending
    <3> HIDE DEF row, k
    <3> QED BY <1>0, <3>1, <3>2, <3>3, PostSound
  <2> QED BY <1>7, <2>1, <2>2, <2>3, <2>4 DEF EnqueueBoth
<1>8. CASE sel # Null /\ p = Null /\ EnqueueSelection(s, r, sel)
  BY <1>0, <1>2, <1>8, WaitingOnly DEF EnqueueSelection, NewRow
<1>9. CASE sel = Null /\ p # Null /\ EnqueuePlan(s, r, p)
  BY <1>0, <1>2, <1>9, WaitingOnly DEF EnqueuePlan, NewRow
<1> QED BY <1>7, <1>8, <1>9 DEF EnqueueOrReconcile

\* What a worker does with a row is to take, hand back or close its job.
LEMMA TakeSound ==
  ASSUME QueueAssumption, QueueInv, SerialInv, NEW c \in Sessions, ClaimLock(c), rows' # rows
  PROVE  \E k \in Jobs : Leases!Take(k, c)
<1>1. PICK i \in snapshot[c].ids : rows' = [rows EXCEPT ![i] = Claimed(@, c, snapshot[c].at)]
  BY DEF ClaimLock
<1>2. i \in DOMAIN rows /\ i \in Candidates /\ snapshot[c].at = now /\ UNCHANGED now
  BY DEF ClaimLock, SerialInv, Candidates, Heads
<1> DEFINE new == Claimed(rows[i], c, now)
<1>3. rows[i] \in Row /\ RowCheck(rows[i]) /\ rows[i].status \in InFlight
  BY <1>2 DEF QueueInv, TypeOK, SchemaHolds, Candidates, Heads
<1>4. /\ rows' = [rows EXCEPT ![i] = new]
      /\ new.scope = rows[i].scope /\ new.ruleset = rows[i].ruleset
      /\ new.sel = rows[i].sel /\ new.plan = rows[i].plan
      /\ View(new) = Leases!Held(c, now + LeaseMs)
  BY <1>1, <1>2, <1>3 DEF Claimed, Row, View, StateOf, Leases!Held
<1>5. rows[i].sel # Null /\ rows[i].plan # Null
  BY <1>3 DEF RowCheck, HashesCheck, InFlight
<1>6. \/ View(rows[i]).state = "open"
      \/ View(rows[i]).state = "held" /\ View(rows[i]).until <= now
  BY <1>2, <1>3 DEF Candidates, Due, View, StateOf
<1> HIDE DEF new
<1>7. PICK k \in Jobs :
        /\ [j \in Jobs |-> JobOf(j)][k] = View(rows[i])
        /\ [j \in Jobs |-> JobOf(j)]' = [[j \in Jobs |-> JobOf(j)] EXCEPT ![k] = View(new)]
  BY <1>2, <1>4, <1>5, RewriteSound
<1> QED BY <1>2, <1>4, <1>6, <1>7 DEF Leases!Take, Leases!Become

LEMMA LetGoSound ==
  ASSUME QueueAssumption, QueueInv, NEW c \in Sessions, NEW i, NEW status, NEW next,
         Owns(c, i), status \in Terminal \cup {"pending"}, UNCHANGED now,
         rows' = [rows EXCEPT ![i] = Unleased(@, status, next)]
  PROVE  \E k \in Jobs : Leases!Return(k, c) \/ Leases!Close(k, c)
<1> DEFINE new == Unleased(rows[i], status, next)
<1>1. /\ i \in DOMAIN rows /\ rows[i] \in Row /\ RowCheck(rows[i])
      /\ rows[i].owner = c /\ rows[i].status = "processing"
  BY DEF Owns, QueueInv, TypeOK, SchemaHolds
<1>2. /\ rows' = [rows EXCEPT ![i] = new]
      /\ new.scope = rows[i].scope /\ new.ruleset = rows[i].ruleset
      /\ new.sel = rows[i].sel /\ new.plan = rows[i].plan
      /\ View(new) \in {Leases!Open, Leases!Closed}
  BY <1>1 DEF Unleased, Row, View, StateOf, Terminal, Leases!Open, Leases!Closed
<1>3. rows[i].sel # Null /\ rows[i].plan # Null
  BY <1>1 DEF RowCheck, HashesCheck
<1>4. View(rows[i]).state = "held" /\ View(rows[i]).holder = c
  BY <1>1 DEF View, StateOf
<1> HIDE DEF new
<1>5. PICK k \in Jobs :
        /\ [j \in Jobs |-> JobOf(j)][k] = View(rows[i])
        /\ [j \in Jobs |-> JobOf(j)]' = [[j \in Jobs |-> JobOf(j)] EXCEPT ![k] = View(new)]
  BY <1>1, <1>2, <1>3, RewriteSound
<1> QED BY <1>2, <1>4, <1>5 DEF Leases!Return, Leases!Close, Leases!HeldBy, Leases!Become

LEMMA FinishCloses ==
  ASSUME QueueAssumption, QueueInv, NEW c \in Sessions, NEW i, NEW status \in Terminal,
         Finish(c, i, status) \/ ReleaseForRetry(c, i)
  PROVE  \/ UNCHANGED Leases!jobVars
         \/ \E k \in Jobs : Leases!Return(k, c) \/ Leases!Close(k, c)
<1>1. ASSUME NEW st \in Terminal, Finish(c, i, st)
      PROVE  \/ UNCHANGED Leases!jobVars
             \/ \E k \in Jobs : Leases!Return(k, c) \/ Leases!Close(k, c)
  <2>1. CASE Owns(c, i)
    <3>1. rows' = [rows EXCEPT ![i] = Unleased(@, st, rows[i].nextAttempt)] /\ UNCHANGED now
      BY <1>1, <2>1 DEF Finish
    <3> QED BY <2>1, <3>1, LetGoSound
  <2>2. CASE ~ Owns(c, i)
    BY <1>1, <2>2, WaitingOnly DEF Finish
  <2> QED BY <2>1, <2>2
<1>2. CASE /\ Owns(c, i) /\ UNCHANGED now
           /\ rows' = [rows EXCEPT ![i] = Unleased(@, "pending", now + RetryMs)]
  BY <1>2, LetGoSound
<1> QED BY <1>1, <1>2 DEF ReleaseForRetry, Terminal

LEMMA StepImplements ==
  ASSUME QueueAssumption, QueueInv, SerialInv, [Next]_queueVars
  PROVE  [Leases!Next]_(Leases!jobVars)
<1>0. UNCHANGED <<rows, now>> => UNCHANGED Leases!jobVars
  BY WaitingOnly
<1>1. CASE Request
  BY <1>1, RequestPosts DEF Request, Leases!Next
<1>2. ASSUME NEW c \in Sessions, Operation(c) PROVE [Leases!Next]_(Leases!jobVars)
  <2>1. CASE ClaimLock(c)
    BY <1>0, <2>1, TakeSound DEF ClaimLock, Leases!Next
  <2>2. CASE FailWaitingLock(c)
    <3>1. \A i \in snapshot[c].ids : ~ RowCheck(FailedWaiting(i))
      <4> TAKE i \in snapshot[c].ids
      <4>1. i \in DOMAIN rows /\ rows[i] \in Row /\ rows[i].plan = Null
        BY <2>2 DEF FailWaitingLock, SerialInv, QueueInv, TypeOK, SchemaHolds, RowCheck, HashesCheck
      <4> QED BY <4>1 DEF FailedWaiting, Row, RowCheck, HashesCheck
    <3>2. rows' = rows /\ now' = now
      <4>1. rows = [i \in DOMAIN rows |-> rows[i]]
        BY DEF QueueInv, TypeOK
      <4> QED BY <2>2, <3>1, <4>1 DEF FailWaitingLock
    <3> QED BY <1>0, <3>2
  <2>3. CASE \/ Abandon(c) \/ ClaimSnapshot(c)
             \/ \E s \in Scopes, r \in Rulesets, sel \in Selections \cup {Null} :
                   FailWaitingSnapshot(c, s, r, sel)
    BY <1>0, <2>3 DEF Abandon, ClaimSnapshot, FailWaitingSnapshot
  <2>4. ASSUME NEW i \in DOMAIN rows,
               Complete(c, i) \/ Fail(c, i) \/ Supersede(c, i) \/ ReleaseForRetry(c, i)
        PROVE  [Leases!Next]_(Leases!jobVars)
    BY <2>4, FinishCloses DEF Complete, Fail, Supersede, Terminal, Leases!Next
  <2> QED BY <1>2, <2>1, <2>2, <2>3, <2>4 DEF Operation
<1>3. CASE Tick
  <2>1. [j \in Jobs |-> JobOf(j)]' = [j \in Jobs |-> JobOf(j)]
    <3>1. Jobs' = Jobs /\ \A j \in Jobs : JobOf(j)' = JobOf(j)
      BY <1>3, Mapping DEF Tick, Jobs
    <3> QED BY <3>1
  <2> QED BY <1>3, <2>1 DEF Tick, QueueInv, TypeOK, Leases!Next, Leases!Advance
<1>4. CASE UNCHANGED queueVars
  BY <1>0, <1>4 DEF queueVars
<1> QED BY <1>1, <1>2, <1>3, <1>4 DEF Next

\* With whole statements the request table implements leased work, for every
\* set of scopes, hashes and workers and every lease, delay and cap.
THEOREM LeasesImplemented ==
  ASSUME QueueAssumption, Overlap = FALSE PROVE Spec => ImplementsLeases
<1>1. Init => Leases!Init
  BY Mapping DEF Init, JobIn, IdsIn, NoView, Leases!Init, Leases!Absent
<1> QED BY <1>1, InitSound, StepSound, SerialInit, SerialStep, StepImplements, PTL
        DEF Spec, ImplementsLeases, Leases!Spec
=============================================================================
