----------------------- MODULE PositionSynthesisProofs -----------------------
(***************************************************************************)
(* Theorems of PositionSynthesis.  The queue inside it is an instance of   *)
(* RequestQueue, so QueueInv and the lemmas proved of it for any constants *)
(* are instantiated here and not proved again.  PipelineInv adds what the  *)
(* calls, the sweeps and the workers remember between two steps, WakeInv   *)
(* what they have read since the last write.                               *)
(***************************************************************************)
EXTENDS PositionSynthesis, TLAPS

\* What is proved of the queue for any constants, for the queue of the pipeline.
QP == INSTANCE RequestQueueProofs WITH Selections <- Hashes, Plans <- PlanHashes,
                                       Rulesets <- {Ruleset}, Overlap <- TRUE

\* The pipeline's constants meet what the queue assumes of its own.
LEMMA QueueAssumed == QP!QueueAssumption
BY FactsAssumption, ReconcileAssumption DEF QP!QueueAssumption

\* Both instances of the queue have the same definitions, ...
LEMMA SameHelpers ==
  /\ QP!NoStatement = Queue!NoStatement /\ QP!queueVars = queueVars /\ QP!Row = Queue!Row
  /\ QP!Waiting = Queue!Waiting /\ QP!Candidates = Queue!Candidates
  /\ \A row : QP!RowCheck(row) <=> Queue!RowCheck(row)
BY DEF QP!NoStatement, Queue!NoStatement, QP!queueVars, queueVars, QP!Row, Queue!Row,
  QP!Waiting, Queue!Waiting, QP!InFlight, Queue!InFlight, QP!Terminal, Queue!Terminal,
  QP!Candidates, Queue!Candidates, QP!Heads, Queue!Heads, QP!Due, Queue!Due,
  QP!RowCheck, Queue!RowCheck, QP!HashesCheck, Queue!HashesCheck, QP!LeaseCheck, Queue!LeaseCheck

\* ... the same requests, ...
LEMMA SameRequest ==
  ASSUME NEW s, NEW r, NEW sel, NEW p
  PROVE  Queue!EnqueueOrReconcile(s, r, sel, p) <=> QP!EnqueueOrReconcile(s, r, sel, p)
<1>1. /\ Queue!Ready(s, r, sel, p) = QP!Ready(s, r, sel, p)
      /\ Queue!AwaitingPlan(s, r, sel) = QP!AwaitingPlan(s, r, sel)
      /\ Queue!AwaitingEvidence(s, r, p) = QP!AwaitingEvidence(s, r, p)
      /\ Queue!Of(s, r) = QP!Of(s, r)
  BY DEF Queue!Of, QP!Of, Queue!Ready, QP!Ready, Queue!AwaitingPlan, QP!AwaitingPlan,
         Queue!AwaitingEvidence, QP!AwaitingEvidence
<1>2. \A row : Queue!Insert(row) <=> QP!Insert(row)
  BY DEF Queue!Insert, QP!Insert
<1>3. \A i, ids : Queue!Promote(i, sel, p, ids) <=> QP!Promote(i, sel, p, ids)
  BY DEF Queue!Promote, QP!Promote
<1>4. \A ids : Queue!Delete(ids) = QP!Delete(ids)
  BY DEF Queue!Delete, QP!Delete, Queue!Restrict, QP!Restrict
<1>5. \A e, h, st : Queue!NewRow(s, r, e, h, st) = QP!NewRow(s, r, e, h, st)
  BY DEF Queue!NewRow, QP!NewRow
<1>6. Queue!EnqueueBoth(s, r, sel, p) <=> QP!EnqueueBoth(s, r, sel, p)
  BY <1>1, <1>2, <1>3, <1>4, <1>5
  DEF Queue!EnqueueBoth, QP!EnqueueBoth, Queue!ReuseReady, QP!ReuseReady,
      Queue!PromoteAwaitingPlan, QP!PromoteAwaitingPlan, Queue!PromoteAwaitingEvidence,
      QP!PromoteAwaitingEvidence, Queue!InsertPending, QP!InsertPending
<1> QED BY <1>1, <1>2, <1>5, <1>6
        DEF Queue!EnqueueOrReconcile, QP!EnqueueOrReconcile, Queue!EnqueueSelection,
            QP!EnqueueSelection, Queue!EnqueuePlan, QP!EnqueuePlan

\* ... the same operations of a session, ...
LEMMA SameOperations ==
  ASSUME NEW c
  PROVE  /\ Queue!ClaimSnapshot(c) <=> QP!ClaimSnapshot(c)
         /\ Queue!ClaimLock(c) <=> QP!ClaimLock(c)
         /\ Queue!FailWaitingLock(c) <=> QP!FailWaitingLock(c)
         /\ Queue!Abandon(c) <=> QP!Abandon(c)
         /\ \A i, st : Queue!Finish(c, i, st) <=> QP!Finish(c, i, st)
         /\ \A i : Queue!ReleaseForRetry(c, i) <=> QP!ReleaseForRetry(c, i)
         /\ \A s, r, sel : Queue!FailWaitingSnapshot(c, s, r, sel)
                             <=> QP!FailWaitingSnapshot(c, s, r, sel)
<1>1. Queue!ClaimSnapshot(c) <=> QP!ClaimSnapshot(c)
  BY SameHelpers DEF Queue!ClaimSnapshot, QP!ClaimSnapshot
<1>2. Queue!ClaimLock(c) <=> QP!ClaimLock(c)
  BY DEF Queue!ClaimLock, QP!ClaimLock, Queue!Claimed, QP!Claimed, Queue!MayBeLocked,
         QP!MayBeLocked, Queue!NoStatement, QP!NoStatement
<1>3. \A i : Queue!FailedWaiting(i) = QP!FailedWaiting(i)
  BY DEF Queue!FailedWaiting, QP!FailedWaiting
<1>4. Queue!FailWaitingLock(c) <=> QP!FailWaitingLock(c)
  BY SameHelpers, <1>3 DEF Queue!FailWaitingLock, QP!FailWaitingLock
<1>5. Queue!Abandon(c) <=> QP!Abandon(c)
  BY SameHelpers DEF Queue!Abandon, QP!Abandon
<1>6. \A i : Queue!Owns(c, i) <=> QP!Owns(c, i)
  BY DEF Queue!Owns, QP!Owns
<1>7. \A row, st, next : Queue!Unleased(row, st, next) = QP!Unleased(row, st, next)
  BY DEF Queue!Unleased, QP!Unleased
<1>8. \A i, st : Queue!Finish(c, i, st) <=> QP!Finish(c, i, st)
  BY <1>6, <1>7 DEF Queue!Finish, QP!Finish
<1>9. \A i : Queue!ReleaseForRetry(c, i) <=> QP!ReleaseForRetry(c, i)
  BY <1>6, <1>7, <1>8 DEF Queue!ReleaseForRetry, QP!ReleaseForRetry
<1>10. \A s, r, sel : Queue!FailWaitingSnapshot(c, s, r, sel)
                        <=> QP!FailWaitingSnapshot(c, s, r, sel)
  BY SameHelpers DEF Queue!FailWaitingSnapshot, QP!FailWaitingSnapshot, Queue!Of, QP!Of
<1> QED BY <1>1, <1>2, <1>4, <1>5, <1>8, <1>9, <1>10

\* ... and the same steps.
LEMMA SameNext == [Queue!Next]_queueVars => [QP!Next]_(QP!queueVars)
<1>1. Queue!Request => QP!Request
  BY SameRequest DEF Queue!Request, QP!Request, Queue!Quiet, QP!Quiet
<1>2. \A c : Queue!Operation(c) => QP!Operation(c)
  BY SameOperations, SameHelpers
  DEF Queue!Operation, QP!Operation, Queue!Quiet, QP!Quiet, Queue!Complete, QP!Complete,
      Queue!Fail, QP!Fail, Queue!Supersede, QP!Supersede
<1>3. Queue!Tick => QP!Tick
  BY DEF Queue!Tick, QP!Tick
<1>4. QP!queueVars = queueVars
  BY SameHelpers
<1>5. Queue!Next => QP!Next
  BY <1>1, <1>2, <1>3 DEF Queue!Next, QP!Next, Queue!Quiet, QP!Quiet
<1> QED BY <1>5 DEF queueVars, QP!queueVars

-----------------------------------------------------------------------------
(* What holds of the pipeline in every reachable state.                    *)

\* A statement is begun by the worker that claims, or by the call that fails
\* what waits for a plan.
StatementsSound ==
  /\ \A c \in Callers : snapshot[c] # Queue!NoStatement =>
        c \in Workers /\ work[c].pc = "claiming"
  /\ \A c \in Callers, s \in Scopes : snapshot[Session(c, s)] # Queue!NoStatement =>
        job[c, s].pc = "failing"

\* A call knows what it stores, and past its first read the instant it is for.
JobReady(j) ==
  /\ j.pc = "append" => j.post \in Bundles
  /\ j.pc \in {"append", "waiting", "expired", "failing", "evidence", "enqueue"} => j.at \in Nat

JobsSound == \A c \in Callers, s \in Scopes : JobReady(job[c, s])

\* While a caller lists the work of a sweep, none of its calls is under way.
SweepsSound ==
  \A c \in Callers, s \in Scopes :
    sweep[c].pc \in {"forPlan", "eligible", "plans"} => job[c, s].pc \in {"idle", "failed"}

\* LatestPlan's choice: the index of the newest plan of scope s.
NewestPlan(s, i) ==
  /\ i \in DOMAIN plans /\ plans[i].scope = s
  /\ \A j \in DOMAIN plans : plans[j].scope = s =>
        plans[i].asOf > plans[j].asOf \/ (plans[i].asOf = plans[j].asOf /\ i >= j)

PlansOrdered ==
  \A s \in Scopes : (\E i \in DOMAIN plans : plans[i].scope = s) =>
    \E i \in DOMAIN plans : NewestPlan(s, i)

Answers(x, i) == x.scope = rows[i].scope /\ x.sel = rows[i].sel /\ x.plan = rows[i].plan

\* A worker's request is in the table with both hashes, and what the worker
\* has read is what the request is for.
WorkerSound(w) ==
  LET k == work[w] i == work[w].id
  IN /\ k.pc \in {"plan", "market", "evidence", "insert", "complete"} =>
          i \in DOMAIN rows /\ rows[i].sel # Null /\ rows[i].plan # Null
     /\ k.pc \in {"market", "evidence", "insert", "complete"} =>
          k.plan \in Plans /\ k.plan.scope = rows[i].scope /\ k.plan.hash = rows[i].plan
     /\ k.pc \in {"insert", "complete"} => k.sel = rows[i].sel
     /\ k.pc = "complete" => \E x \in insights : Answers(x, i)

WorkersSound == \A w \in Workers : WorkerSound(w)

PipelineInv ==
  /\ TypeOK /\ QP!QueueInv
  /\ StatementsSound /\ JobsSound /\ SweepsSound /\ PlansOrdered /\ WorkersSound
  /\ InsightsAnswerRequests

-----------------------------------------------------------------------------
\* The actions, by who takes them.
CallStep(c, s) == (Reconcile(c, s) \/ CallFails(c, s)) /\ UNCHANGED cycleVars
SweepStep(c) == (Start(c) \/ ListWaiting(c) \/ Sweep(c) \/ SweepFails(c)) /\ UNCHANGED cycleVars
WorkerStep(w) == Boot(w) \/ Cycle(w) \/ CycleFails(w) \/ Crash(w)
WorldStep ==
  \/ MarketMoves
  \/ Queue!Tick /\ UNCHANGED <<facts, job, sweep, settled, cycleVars>>

\* Every step is one of a call, of a sweep, of a worker, or of the world.
LEMMA NextCases ==
  ASSUME Next
  PROVE  \/ \E c \in Callers, s \in Scopes : CallStep(c, s)
         \/ \E c \in Callers : SweepStep(c)
         \/ \E w \in Workers : WorkerStep(w)
         \/ WorldStep
<1>1. CASE Fault
  BY <1>1 DEF Fault, CallStep, SweepStep, WorkerStep
<1>2. ASSUME NEW h \in Handlers, Serve(h)
      PROVE  (\E s \in Scopes : CallStep(h, s)) \/ SweepStep(h)
  BY <1>2 DEF Serve, CallStep, SweepStep
<1>3. ASSUME NEW w \in Workers, Run(w)
      PROVE  (\E s \in Scopes : CallStep(w, s)) \/ SweepStep(w) \/ WorkerStep(w)
  BY <1>3 DEF Run, CallStep, SweepStep, WorkerStep
<1>4. CASE MarketMoves \/ Tick
  BY <1>4 DEF Tick, WorldStep
<1> QED BY <1>1, <1>2, <1>3, <1>4, SynthesisAssumption DEF Next

\* What the type says of one call, ...
LEMMA JobType == ASSUME TypeOK, NEW c \in Callers, NEW s \in Scopes PROVE job[c, s] \in Job
BY DEF TypeOK, ReconcileTypeOK

\* ... and of one worker.
LEMMA WorkType == ASSUME TypeOK, NEW w \in Workers PROVE work[w] \in Work
BY DEF TypeOK, CycleTypeOK

-----------------------------------------------------------------------------
(* The queue does nothing but what RequestQueue says of it.                *)

\* A call uses the table only through the queue's operations.
LEMMA CallQueues ==
  ASSUME PipelineInv, NEW c \in Callers, NEW s \in Scopes, CallStep(c, s)
  PROVE  Queue!Next \/ UNCHANGED queueVars
<1>1. Session(c, s) \in Sessions
  BY DEF Session, Sessions
<1>2. CASE ChooseWaiting(c, s) \/ FailWaiting(c, s) \/ CallFails(c, s)
  BY <1>1, <1>2 DEF ChooseWaiting, FailWaiting, CallFails, Queue!Next, Queue!Operation,
                    Queue!Quiet
<1>3. CASE Enqueue(c, s)
  <2>1. job[c, s] \in Job
    BY JobType DEF PipelineInv
  <2> DEFINE hash == IF job[c, s].plan = Null THEN Null ELSE job[c, s].plan.hash
  <2>2. job[c, s].sel \in Hashes \cup {Null} /\ hash \in PlanHashes \cup {Null}
    BY <2>1 DEF Job, PlanHashes
  <2>3. Queue!EnqueueOrReconcile(s, Ruleset, job[c, s].sel, hash)
    BY <1>3 DEF Enqueue
  <2> QED BY <2>2, <2>3 DEF Queue!Next, Queue!Request, Queue!Quiet
<1> QED BY <1>2, <1>3 DEF CallStep, Reconcile, IngestEvidence, ReadPlan, AskWaiting,
                          CheckExpired, ReadEvidence, NothingToDo

\* So does a worker: it records outcomes between two of its statements.
LEMMA WorkerQueues ==
  ASSUME PipelineInv, NEW w \in Workers, WorkerStep(w)
  PROVE  Queue!Next \/ UNCHANGED queueVars
<1>1. w \in Sessions /\ w \in Callers
  BY SynthesisAssumption DEF Sessions
<1>2. CASE Poll(w) \/ Claim(w) \/ CycleFails(w) \/ Crash(w)
  BY <1>1, <1>2 DEF Poll, Claim, CycleFails, Crash, Queue!Next, Queue!Operation, Queue!Quiet
<1>3. CASE Record(w)
  <2> DEFINE i == work[w].id
  <2>1. snapshot[w] = Queue!NoStatement
    BY <1>1, <1>3 DEF Record, PipelineInv, StatementsSound
  <2>2. Queue!Complete(w, i) \/ Queue!Supersede(w, i) \/ Queue!Fail(w, i)
          \/ Queue!ReleaseForRetry(w, i)
    BY <1>3 DEF Record
  <2>3. CASE i \in DOMAIN rows
    BY <1>1, <2>1, <2>2, <2>3 DEF Queue!Next, Queue!Operation, Queue!Quiet
  <2>4. CASE i \notin DOMAIN rows
    BY <2>2, <2>4 DEF Queue!Complete, Queue!Supersede, Queue!Fail, Queue!ReleaseForRetry,
                      Queue!Finish, Queue!Owns, queueVars
  <2> QED BY <2>3, <2>4
<1> QED BY <1>2, <1>3 DEF WorkerStep, Boot, Cycle, ListWaiting, BeginPolling, CheckPlan,
                          ReadMarket, SelectEvidence, InsertInsight, Reject, reconcileVars

\* Every step of the pipeline is a step of the queue or leaves it alone.
LEMMA QueueStep ==
  ASSUME PipelineInv, [Next]_allVars PROVE [Queue!Next]_queueVars
<1>1. ASSUME NEW c \in Callers, SweepStep(c) PROVE UNCHANGED queueVars
  BY <1>1 DEF SweepStep, Start, ReceiveEvidence, GeneratePlan, WakeScope, ListWaiting, Sweep,
              ListWaitingForPlan, ListEligible, ListPlans, EndSweep, SweepFails
<1>2. CASE WorldStep
  BY <1>2 DEF WorldStep, MarketMoves, reconcileVars, Queue!Next, Queue!Quiet
<1>3. CASE UNCHANGED allVars
  BY <1>3 DEF allVars, vars, reconcileVars
<1> QED BY <1>1, <1>2, <1>3, NextCases, CallQueues, WorkerQueues

\* Hence the queue's invariant holds in the pipeline.
LEMMA QueueSound ==
  ASSUME PipelineInv, [Next]_allVars PROVE QP!QueueInv' /\ Queue!TypeOK'
<1>1. QP!QueueInv'
  BY QueueStep, SameNext, QueueAssumed, QP!StepSound DEF PipelineInv
<1>2. (QP!TypeOK => Queue!TypeOK)'
  BY DEF QP!TypeOK, Queue!TypeOK, QP!Row, Queue!Row, QP!Waiting, Queue!Waiting, QP!InFlight,
         Queue!InFlight, QP!Terminal, Queue!Terminal
<1> QED BY <1>1, <1>2 DEF QP!QueueInv

-----------------------------------------------------------------------------
(* What the reads return.                                                  *)

\* LatestPlan returns the newest plan of the scope, ...
LEMMA LatestPlanIs ==
  ASSUME FactsTypeOK, NEW s, NEW i, NewestPlan(s, i) PROVE LatestPlan(s) = plans[i]
<1> DEFINE among == {k \in DOMAIN plans : plans[k].scope = s}
           later(k, j) == \/ plans[k].asOf > plans[j].asOf
                          \/ plans[k].asOf = plans[j].asOf /\ k >= j
           newest == CHOOSE k \in among : \A j \in among : later(k, j)
<1>1. among \subseteq Nat /\ \A k \in among : plans[k].asOf \in Nat
  <2>1. DOMAIN plans \subseteq Nat /\ \A k \in DOMAIN plans : plans[k] \in Plans
    BY DEF FactsTypeOK
  <2> QED BY <2>1, FactsAssumption
<1>2. i \in among /\ \A j \in among : later(i, j)
  BY <1>1 DEF NewestPlan
<1>3. newest \in among /\ \A j \in among : later(newest, j)
  BY <1>2
<1>4. newest = i
  <2>1. later(newest, i) /\ later(i, newest) /\ newest \in Nat /\ i \in Nat
        /\ plans[newest].asOf \in Nat /\ plans[i].asOf \in Nat
    BY <1>1, <1>2, <1>3
  <2> HIDE DEF newest
  <2> QED BY <2>1
<1>5. among # {}
  BY <1>2
<1>6. LatestPlan(s) = plans[newest]
  BY <1>5 DEF LatestPlan
<1> QED BY <1>4, <1>6

\* ... and nothing for a scope without a plan.
LEMMA LatestPlanNull ==
  ASSUME NEW s, ~ \E i \in DOMAIN plans : plans[i].scope = s PROVE LatestPlan(s) = Null
BY DEF LatestPlan

\* The latest plan is a plan of the scope, if the scope has one.
LEMMA LatestPlanType ==
  ASSUME FactsTypeOK, PlansOrdered, NEW s \in Scopes
  PROVE  /\ LatestPlan(s) \in Plans \cup {Null}
         /\ LatestPlan(s) = Null <=> ~ \E i \in DOMAIN plans : plans[i].scope = s
<1>1. CASE \E i \in DOMAIN plans : plans[i].scope = s
  <2>1. PICK i : NewestPlan(s, i)
    BY <1>1 DEF PlansOrdered
  <2>2. plans[i] \in Plans
    BY <2>1 DEF NewestPlan, FactsTypeOK
  <2> QED BY <1>1, <2>1, <2>2, LatestPlanIs, FactsAssumption
<1>2. CASE ~ \E i \in DOMAIN plans : plans[i].scope = s
  BY <1>2, LatestPlanNull
<1> QED BY <1>1, <1>2

\* A newly written plan is the newest of its scope, or what was still is.
LEMMA WriteOrdered ==
  ASSUME FactsTypeOK, PlansOrdered, NEW p \in Plans, WritePlan(p)
  PROVE  FactsTypeOK' /\ PlansOrdered'
<1>1. FactsTypeOK'
  BY DEF FactsTypeOK, WritePlan
<1>0. PICK n \in Nat : n = Len(plans) + 1
  BY DEF FactsTypeOK
<1>2. /\ Len(plans) \in Nat /\ DOMAIN plans = 1..Len(plans)
      /\ plans' = Append(plans, p) /\ DOMAIN plans' = 1..n
      /\ plans'[n] = p /\ \A i \in DOMAIN plans : plans'[i] = plans[i]
  BY <1>0 DEF FactsTypeOK, WritePlan
<1>3. \A i \in DOMAIN plans' : plans'[i].asOf \in Nat
  BY <1>1, FactsAssumption DEF FactsTypeOK
<1>4. /\ n \in Nat /\ n \in DOMAIN plans'
      /\ \A i \in DOMAIN plans' : i \in Nat /\ i <= n /\ (i \in DOMAIN plans \/ i = n)
  BY <1>0, <1>2
<1>5. ASSUME NEW s \in Scopes, NEW k \in DOMAIN plans', plans'[k].scope = s
      PROVE  \E i \in DOMAIN plans' : NewestPlan(s, i)'
  <2>1. CASE p.scope # s
    <3>1. k \in DOMAIN plans /\ plans[k].scope = s
      BY <1>2, <1>4, <1>5, <2>1
    <3>2. PICK i : NewestPlan(s, i)
      BY <3>1 DEF PlansOrdered
    <3>3. NewestPlan(s, i)'
      BY <1>2, <1>4, <2>1, <3>2 DEF NewestPlan
    <3> QED BY <3>3 DEF NewestPlan
  <2>2. CASE p.scope = s /\ ~ \E i \in DOMAIN plans : plans[i].scope = s
    <3>1. NewestPlan(s, n)'
      BY <1>2, <1>3, <1>4, <2>2 DEF NewestPlan
    <3> QED BY <3>1 DEF NewestPlan
  <2>3. CASE p.scope = s /\ \E i \in DOMAIN plans : plans[i].scope = s
    <3>1. PICK i : NewestPlan(s, i)
      BY <2>3 DEF PlansOrdered
    <3>2. i \in DOMAIN plans /\ i \in Nat /\ i < n
      BY <1>0, <1>2, <1>4, <3>1 DEF NewestPlan
    <3>3. CASE p.asOf >= plans[i].asOf
      <4>1. \A j \in DOMAIN plans' : plans'[j].scope = s => p.asOf >= plans'[j].asOf
        BY <1>2, <1>3, <1>4, <3>1, <3>2, <3>3 DEF NewestPlan
      <4>2. NewestPlan(s, n)'
        BY <1>2, <1>3, <1>4, <2>3, <4>1 DEF NewestPlan
      <4> QED BY <4>2 DEF NewestPlan
    <3>4. CASE plans[i].asOf > p.asOf
      <4>1. NewestPlan(s, i)'
        BY <1>2, <1>3, <1>4, <3>1, <3>2, <3>4 DEF NewestPlan
      <4> QED BY <4>1 DEF NewestPlan
    <3>5. plans[i].asOf \in Nat /\ p.asOf \in Nat
    BY <1>2, <1>3, <1>4, <3>2
    <3> QED BY <3>3, <3>4, <3>5
  <2> QED BY <2>1, <2>2, <2>3
<1> QED BY <1>1, <1>5 DEF PlansOrdered

\* The evidence read is evidence.
LEMMA LatestType ==
  ASSUME FactsTypeOK, NEW s, NEW p
  PROVE  Latest(s, p) \in SUBSET Bundles
<1>1. \A i \in DOMAIN evidence : evidence[i] \in Receipt
  BY DEF FactsTypeOK
<1> QED BY <1>1 DEF Latest, Receipt

\* A selection is a hash a request may have.
LEMMA SelectionType ==
  ASSUME NEW bundles \in SUBSET Bundles, NEW t
  PROVE  Selection(bundles, t) \in Hashes
<1>1. \A b : Lifecycle(b, t) \in Lifecycles
  BY DEF Lifecycle, Lifecycles
<1> QED BY <1>1 DEF Selection, Hashes

\* The plan found by its hash has that hash and scope.
LEMMA StoresPlan ==
  ASSUME NEW s, NEW h, PlanByHash(s, h) # Null
  PROVE  PlanByHash(s, h) \in Plans /\ PlanByHash(s, h).scope = s /\ PlanByHash(s, h).hash = h
<1> DEFINE Is(p) == p.scope = s /\ p.hash = h /\ \E i \in DOMAIN plans : plans[i] = p
<1>1. \E p \in Plans : Is(p)
  BY DEF PlanByHash
<1>2. PlanByHash(s, h) = CHOOSE p \in Plans : Is(p)
  BY <1>1 DEF PlanByHash
<1>3. (CHOOSE p \in Plans : Is(p)) \in Plans /\ Is(CHOOSE p \in Plans : Is(p))
  BY <1>1
<1> QED BY <1>2, <1>3

-----------------------------------------------------------------------------
(* The calls of reconcileSingle.                                           *)

\* The states a call begins and ends in are well formed: idle, ...
LEMMA NoJobReady == NoJob \in Job /\ JobReady(NoJob) /\ NoJob.pc = "idle"
BY DEF NoJob, Job, JobPcs, JobReady

\* ... thrown, ...
LEMMA ThrowReady ==
  ASSUME NEW c, NEW s, Throw(c, s)
  PROVE  \E j \in Job : Go(c, s, j) /\ JobReady(j) /\ j.pc \in {"idle", "failed"}
<1>1. [NoJob EXCEPT !.pc = "failed"] \in Job /\ JobReady([NoJob EXCEPT !.pc = "failed"])
  BY DEF NoJob, Job, JobPcs, JobReady
<1>2. [NoJob EXCEPT !.pc = "failed"].pc = "failed"
  BY DEF NoJob
<1> QED BY NoJobReady, <1>1, <1>2 DEF Throw

\* ... and about to read its plan.
LEMMA PlanReady ==
  /\ [NoJob EXCEPT !.pc = "plan"] \in Job /\ JobReady([NoJob EXCEPT !.pc = "plan"])
  /\ [NoJob EXCEPT !.pc = "plan"].pc = "plan"
BY DEF NoJob, Job, JobPcs, JobReady

\* The writes so far are counted by a natural number.
LEMMA WritesNat == ASSUME FactsTypeOK PROVE Writes \in Nat
BY DEF FactsTypeOK, Writes

\* Each step of a call leaves it well formed.
LEMMA CallJob ==
  ASSUME PipelineInv, NEW c \in Callers, NEW s \in Scopes, CallStep(c, s)
  PROVE  /\ job[c, s].pc \notin {"idle", "failed"}
         /\ \/ job[c, s].pc = "failing" /\ UNCHANGED job
            \/ \E j \in Job : JobReady(j) /\ Go(c, s, j)
<1> DEFINE j == job[c, s]
<1>1. j \in Job /\ JobReady(j) /\ now \in Nat
  BY JobType DEF PipelineInv, JobsSound, TypeOK, ReconcileTypeOK, Queue!TypeOK
<1>2. FactsTypeOK /\ PlansOrdered
  BY DEF PipelineInv, TypeOK, ReconcileTypeOK
<1>3. CASE IngestEvidence(c, s) \/ FailWaiting(c, s) \/ CallFails(c, s)
  <2>1. [j EXCEPT !.pc = "evidence"] \in Job /\ (j.pc = "failing" => JobReady([j EXCEPT !.pc = "evidence"]))
    BY <1>1 DEF Job, JobPcs, JobReady
  <2> QED BY <1>3, <2>1, PlanReady, ThrowReady DEF IngestEvidence, FailWaiting, CallFails
<1>4. CASE ReadPlan(c, s)
  <2>1. LatestPlan(s) \in Plans \cup {Null} /\ Writes \in Nat
    BY <1>2, LatestPlanType, WritesNat
  <2>2. PICK pc \in {"evidence", "expired", "waiting"} :
           Go(c, s, [j EXCEPT !.plan = LatestPlan(s), !.seen = Writes,
                              !.at = IF j.at = Null THEN now ELSE j.at, !.pc = pc])
    <3>1. j.waits \in {TRUE, FALSE, Null}
      BY <1>1 DEF Job
    <3> QED BY <1>4, <3>1 DEF ReadPlan
  <2> DEFINE new == [j EXCEPT !.plan = LatestPlan(s), !.seen = Writes,
                              !.at = IF j.at = Null THEN now ELSE j.at, !.pc = pc]
  <2>3. new \in Job /\ new.at \in Nat /\ new.pc = pc
    BY <1>1, <2>1, <2>2 DEF Job, JobPcs
  <2>4. JobReady(new)
    BY <2>3 DEF JobReady
  <2>5. j.pc = "plan" /\ Go(c, s, new)
    BY <1>4, <2>2 DEF ReadPlan
  <2> QED BY <2>3, <2>4, <2>5
<1>5. CASE AskWaiting(c, s) \/ CheckExpired(c, s)
  <2>1. PICK pc \in {"expired", "evidence", "failing"} : Go(c, s, [j EXCEPT !.pc = pc])
    BY <1>5 DEF AskWaiting, CheckExpired
  <2>2. j.pc \in {"waiting", "expired"}
    BY <1>5 DEF AskWaiting, CheckExpired
  <2>3. [j EXCEPT !.pc = pc] \in Job /\ JobReady([j EXCEPT !.pc = pc])
    BY <1>1, <2>2 DEF Job, JobPcs, JobReady
  <2> QED BY <2>1, <2>2, <2>3
<1>6. CASE ChooseWaiting(c, s)
  <2>1. [j EXCEPT !.pc = "evidence"] \in Job
        /\ (j.pc = "failing" => JobReady([j EXCEPT !.pc = "evidence"]))
    BY <1>1 DEF Job, JobPcs, JobReady
  <2> QED BY <1>6, <2>1 DEF ChooseWaiting
<1>7. CASE ReadEvidence(c, s)
  <2> DEFINE found == Latest(s, j.plan)
             sel == IF AllExpired(found, j.at) THEN Null ELSE Selection(found, j.at)
  <2>1. sel \in Hashes \cup {Null}
    BY <1>2, LatestType, SelectionType
  <2>2. j.pc = "evidence" /\ Go(c, s, [j EXCEPT !.pc = "enqueue", !.sel = sel])
    BY <1>7 DEF ReadEvidence
  <2> HIDE DEF sel
  <2>3. [j EXCEPT !.pc = "enqueue", !.sel = sel] \in Job
        /\ JobReady([j EXCEPT !.pc = "enqueue", !.sel = sel])
    BY <1>1, <2>1, <2>2 DEF Job, JobPcs, JobReady
  <2> QED BY <2>2, <2>3
<1>8. CASE Enqueue(c, s) \/ NothingToDo(c, s)
  BY <1>8, NoJobReady DEF Enqueue, NothingToDo
<1> QED BY <1>3, <1>4, <1>5, <1>6, <1>7, <1>8 DEF CallStep, Reconcile

\* Everything about the calls and sweeps that the queue's part leaves open.
CallsSound ==
  /\ FactsTypeOK /\ job \in [Callers \X Scopes -> Job] /\ sweep \in [Callers -> Sweeping]
  /\ settled \in [Scopes -> Nat]
  /\ StatementsSound /\ JobsSound /\ SweepsSound /\ PlansOrdered

\* The statements begun are a function of the sessions.
LEMMA SnapshotType == PipelineInv => snapshot = [x \in Sessions |-> snapshot[x]]
BY DEF PipelineInv, TypeOK, ReconcileTypeOK, Queue!TypeOK

\* A call stores only well-formed evidence, and no plan.
LEMMA CallFacts ==
  ASSUME PipelineInv, NEW c \in Callers, NEW s \in Scopes, CallStep(c, s)
  PROVE  FactsTypeOK' /\ PlansOrdered'
<1>0. FactsTypeOK /\ PlansOrdered
  BY DEF PipelineInv, TypeOK, ReconcileTypeOK
<1>1. CASE UNCHANGED facts
  BY <1>0, <1>1 DEF facts, FactsTypeOK, PlansOrdered, NewestPlan
<1>2. CASE IngestEvidence(c, s) /\ AppendBundle(job[c, s].post, job[c, s].at)
  <2> DEFINE j == job[c, s] item == [bundle |-> j.post, received |-> j.at]
  <2>1. j.post \in Bundles /\ j.at \in Nat
    BY <1>2 DEF PipelineInv, JobsSound, JobReady, IngestEvidence
  <2>2. evidence' = evidence \/ evidence' = Append(evidence, item)
    BY <1>2 DEF AppendBundle
  <2>3. item \in Receipt
    BY <2>1 DEF Receipt
  <2> HIDE DEF item
  <2>4. evidence' \in Seq(Receipt)
    BY <1>0, <2>2, <2>3 DEF FactsTypeOK
  <2>5. UNCHANGED plans
    BY <1>2 DEF AppendBundle
  <2> QED BY <1>0, <2>4, <2>5 DEF FactsTypeOK, PlansOrdered, NewestPlan
<1> QED BY <1>1, <1>2 DEF CallStep, Reconcile, IngestEvidence, ReadPlan, AskWaiting,
        CheckExpired, ChooseWaiting, FailWaiting, ReadEvidence, Enqueue, NothingToDo, CallFails

\* A call leaves the statements of the other sessions alone.
LEMMA CallStatements ==
  ASSUME PipelineInv, NEW c \in Callers, NEW s \in Scopes, CallStep(c, s)
  PROVE  StatementsSound'
<1> DEFINE x == Session(c, s)
<1>0. /\ x \in Sessions /\ \A d \in Callers : d # x /\ d \in Sessions
      /\ \A d \in Callers, t \in Scopes :
            Session(d, t) \in Sessions /\ (Session(d, t) = x => d = c /\ t = s)
  BY ReconcileAssumption DEF Session, Sessions
<1>1. job = [y \in Callers \X Scopes |-> job[y]] /\ snapshot = [y \in Sessions |-> snapshot[y]]
  BY SnapshotType DEF PipelineInv, TypeOK, ReconcileTypeOK
<1>2. UNCHANGED work
  BY DEF CallStep, cycleVars
<1>3. \A y \in Sessions : y # x => snapshot'[y] = snapshot[y]
  BY <1>0, <1>1
  DEF CallStep, Reconcile, IngestEvidence, ReadPlan, AskWaiting, CheckExpired, ChooseWaiting,
      FailWaiting, ReadEvidence, Enqueue, NothingToDo, CallFails, queueVars,
      Queue!FailWaitingSnapshot, Queue!FailWaitingLock, Queue!EnqueueOrReconcile, Queue!Abandon
<1>4. \/ job[c, s].pc = "failing" /\ UNCHANGED job
      \/ snapshot'[x] = Queue!NoStatement /\ \E j \in Job : Go(c, s, j)
  <2>1. CASE ChooseWaiting(c, s)
    BY <1>0, <2>1, CallJob DEF ChooseWaiting, queueVars
  <2>2. CASE FailWaiting(c, s) \/ CallFails(c, s)
    <3>1. snapshot'[x] = Queue!NoStatement
      BY <1>0, <1>1, <2>2
      DEF FailWaiting, CallFails, Queue!FailWaitingLock, Queue!Abandon, queueVars
    <3>2. (\E j \in Job : Go(c, s, j)) \/ (CallFails(c, s) /\ UNCHANGED job)
            \/ (FailWaiting(c, s) /\ UNCHANGED job)
      BY <2>2, CallJob
    <3> QED BY <3>1, <3>2, CallJob
  <2>3. CASE job[c, s].pc # "failing" /\ UNCHANGED snapshot
    BY <1>0, <2>3, CallJob DEF PipelineInv, StatementsSound
  <2> QED BY <2>1, <2>2, <2>3
          DEF CallStep, Reconcile, IngestEvidence, ReadPlan, AskWaiting, CheckExpired,
              ReadEvidence, Enqueue, NothingToDo, queueVars, Queue!EnqueueOrReconcile
<1>5. \A d \in Callers, t \in Scopes :
        snapshot'[Session(d, t)] # Queue!NoStatement => job'[d, t].pc = "failing"
  <2> SUFFICES ASSUME NEW d \in Callers, NEW t \in Scopes,
                      snapshot'[Session(d, t)] # Queue!NoStatement
               PROVE  job'[d, t].pc = "failing"
    OBVIOUS
  <2>1. CASE d = c /\ t = s
    BY <1>4, <2>1
  <2>2. CASE ~ (d = c /\ t = s)
    <3>1. job[d, t].pc = "failing"
      BY <1>0, <1>3, <2>2 DEF PipelineInv, StatementsSound
    <3>2. job'[d, t] = job[d, t]
      BY <1>1, <1>4, <2>2 DEF Go
    <3> QED BY <3>1, <3>2
  <2> QED BY <2>1, <2>2
<1>6. \A d \in Callers : snapshot'[d] = snapshot[d]
  BY <1>0, <1>3
<1> QED BY <1>2, <1>5, <1>6 DEF PipelineInv, StatementsSound

\* A step of a call keeps all calls and sweeps well formed.
LEMMA CallSound ==
  ASSUME PipelineInv, NEW c \in Callers, NEW s \in Scopes, CallStep(c, s)
  PROVE  CallsSound' /\ UNCHANGED sweep
<1>1. FactsTypeOK /\ job \in [Callers \X Scopes -> Job] /\ sweep \in [Callers -> Sweeping]
      /\ settled \in [Scopes -> Nat]
  BY DEF PipelineInv, TypeOK, ReconcileTypeOK
<1>2. UNCHANGED sweep
  BY DEF CallStep, Reconcile, IngestEvidence, ReadPlan, AskWaiting, CheckExpired,
         ChooseWaiting, FailWaiting, ReadEvidence, Enqueue, NothingToDo, CallFails
<1>3. settled' \in [Scopes -> Nat]
  <2>1. CASE Enqueue(c, s)
    <3>1. job[c, s].seen \in Nat
      BY <1>1 DEF Job
    <3> QED BY <1>1, <2>1, <3>1 DEF Enqueue
  <2>2. CASE UNCHANGED settled
    BY <1>1, <2>2
  <2> QED BY <2>1, <2>2 DEF CallStep, Reconcile, IngestEvidence, ReadPlan, AskWaiting,
             CheckExpired, ChooseWaiting, FailWaiting, ReadEvidence, NothingToDo, CallFails
<1>4. job' \in [Callers \X Scopes -> Job] /\ JobsSound'
  <2>1. CASE UNCHANGED job
    BY <1>1, <2>1 DEF PipelineInv, JobsSound
  <2>2. ASSUME NEW j \in Job, JobReady(j), Go(c, s, j)
        PROVE  job' \in [Callers \X Scopes -> Job] /\ JobsSound'
    <3>1. job' \in [Callers \X Scopes -> Job]
      BY <1>1, <2>2 DEF Go
    <3>2. \A d \in Callers, t \in Scopes : job'[d, t] \in {j, job[d, t]}
      BY <1>1, <2>2 DEF Go
    <3>3. \A d \in Callers, t \in Scopes : JobReady(job'[d, t])
      BY <2>2, <3>2 DEF PipelineInv, JobsSound
    <3> QED BY <3>1, <3>3 DEF JobsSound, JobReady
  <2> QED BY <2>1, <2>2, CallJob
<1>5. SweepsSound'
  <2>1. sweep[c].pc \notin {"forPlan", "eligible", "plans"}
    BY CallJob DEF PipelineInv, SweepsSound
  <2>2. \A d \in Callers, t \in Scopes : d # c => job'[d, t] = job[d, t]
    BY <1>1, CallJob DEF Go
  <2> QED BY <1>2, <2>1, <2>2 DEF PipelineInv, SweepsSound
<1> QED BY <1>1, <1>2, <1>3, <1>4, <1>5, CallFacts, CallStatements DEF CallsSound

\* A caller that does not sweep is well typed.
LEMMA NoSweepTyped == NoSweep \in Sweeping /\ NoSweep.pc = "idle"
BY DEF NoSweep, Sweeping

\* What starts a call, and what lists the work of a sweep.
LEMMA SweepCalls ==
  ASSUME PipelineInv, NEW c \in Callers,
         Start(c) \/ ListWaiting(c) \/ Sweep(c) \/ SweepFails(c),
         \A d \in Callers : snapshot[d] # Queue!NoStatement =>
            d \in Workers /\ work'[d].pc = "claiming"
  PROVE  CallsSound'
<1>1. /\ FactsTypeOK /\ PlansOrdered /\ now \in Nat
      /\ job \in [Callers \X Scopes -> Job] /\ sweep \in [Callers -> Sweeping]
      /\ settled \in [Scopes -> Nat]
  BY DEF PipelineInv, TypeOK, ReconcileTypeOK, Queue!TypeOK
<1>2. UNCHANGED <<queueVars, settled>>
  BY DEF Start, ReceiveEvidence, GeneratePlan, WakeScope, ListWaiting, Sweep,
         ListWaitingForPlan, ListEligible, ListPlans, EndSweep, SweepFails
\* It is enough to look at the calls of c.
<1>3. ASSUME UNCHANGED job \/ \A t \in Scopes : job[c, t].pc \in {"idle", "failed"},
             job' \in [Callers \X Scopes -> Job],
             \A t \in Scopes : JobReady(job'[c, t]),
             \A d \in Callers, t \in Scopes : d # c => job'[d, t] = job[d, t],
             sweep' \in [Callers -> Sweeping],
             \A d \in Callers : d # c => sweep'[d] = sweep[d],
             \A t \in Scopes : sweep'[c].pc \in {"forPlan", "eligible", "plans"} =>
                job'[c, t].pc \in {"idle", "failed"},
             FactsTypeOK' /\ PlansOrdered'
      PROVE  CallsSound'
  <2>1. settled' \in [Scopes -> Nat]
    BY <1>1, <1>2
  <2>2. \A d \in Callers, t \in Scopes : JobReady(job'[d, t])
    BY <1>3 DEF PipelineInv, JobsSound
  <2>3. \A d \in Callers, t \in Scopes :
          snapshot[Session(d, t)] # Queue!NoStatement => job'[d, t].pc = "failing"
    <3> SUFFICES ASSUME NEW d \in Callers, NEW t \in Scopes,
                        snapshot[Session(d, t)] # Queue!NoStatement
                 PROVE  job'[d, t].pc = "failing"
      OBVIOUS
    <3>1. job[d, t].pc = "failing"
      BY DEF PipelineInv, StatementsSound
    <3>2. job'[d, t] = job[d, t]
      BY <1>3, <3>1
    <3> QED BY <3>1, <3>2
  <2>4. JobsSound'
    BY <2>2 DEF JobsSound, JobReady
  <2>5. StatementsSound'
    BY <1>2, <2>3 DEF StatementsSound, queueVars, Queue!NoStatement
  <2>6. SweepsSound'
    BY <1>3 DEF PipelineInv, SweepsSound
  <2> QED BY <1>3, <2>1, <2>4, <2>5, <2>6 DEF CallsSound
<1>4. UNCHANGED facts => FactsTypeOK' /\ PlansOrdered'
  BY <1>1 DEF facts, FactsTypeOK, PlansOrdered, NewestPlan
<1>5. CASE Start(c)
  <2>1. Idle(c) /\ UNCHANGED sweep
    BY <1>5 DEF Start, ReceiveEvidence, GeneratePlan, WakeScope
  <2>2. PICK s \in Scopes, j \in Job : JobReady(j) /\ Go(c, s, j)
    <3>1. CASE \E b \in Bundles : ReceiveEvidence(c, b)
      <4>1. PICK b \in Bundles : ReceiveEvidence(c, b)
        BY <3>1
      <4> DEFINE j == [NoJob EXCEPT !.pc = "append", !.post = b, !.at = now]
      <4>2. j \in Job /\ JobReady(j)
        BY <1>1, <4>1 DEF NoJob, Job, JobPcs, JobReady
      <4>3. b.scope \in Scopes /\ Go(c, b.scope, j)
        BY <4>1, ReconcileAssumption DEF ReceiveEvidence
      <4> QED BY <4>2, <4>3
    <3>2. CASE \E p \in Plans : GeneratePlan(c, p)
      BY <3>2, PlanReady, ReconcileAssumption DEF GeneratePlan
    <3>3. CASE \E s \in Scopes : WakeScope(c, s)
      BY <3>3, PlanReady DEF WakeScope
    <3> QED BY <1>5, <3>1, <3>2, <3>3 DEF Start
  <2>3. FactsTypeOK' /\ PlansOrdered'
    BY <1>1, <1>4, <1>5, WriteOrdered DEF Start, ReceiveEvidence, GeneratePlan, WakeScope
  <2>4. job' \in [Callers \X Scopes -> Job]
    BY <1>1, <2>2 DEF Go
  <2>5. \A t \in Scopes : JobReady(job'[c, t])
    BY <1>1, <2>2 DEF Go, PipelineInv, JobsSound
  <2>6. \A d \in Callers, t \in Scopes : d # c => job'[d, t] = job[d, t]
    BY <1>1, <2>2 DEF Go
  <2>7. sweep'[c].pc = "idle" /\ \A t \in Scopes : job[c, t].pc \in {"idle", "failed"}
    BY <2>1, NoSweepTyped DEF Idle
  <2> QED BY <1>1, <1>3, <2>1, <2>3, <2>4, <2>5, <2>6, <2>7
<1>6. CASE ListPlans(c)
  <2> DEFINE w == sweep[c]
             todo == w.todo \cup {s \in Scopes : LatestPlan(s) # Null}
             start(s) == [NoJob EXCEPT !.pc = "plan", !.at = w.at, !.waits = s \in w.forPlan]
  <2>1. w \in Sweeping /\ w.pc = "plans"
    BY <1>1, <1>6 DEF ListPlans
  <2>2. \A s \in Scopes : start(s) \in Job /\ JobReady(start(s))
    <3>1. \A b \in BOOLEAN : LET j == [NoJob EXCEPT !.pc = "plan", !.at = w.at, !.waits = b]
                            IN j \in Job /\ JobReady(j)
      BY <2>1 DEF NoJob, Job, JobPcs, JobReady, Sweeping
    <3>2. \A s \in Scopes : (s \in w.forPlan) \in BOOLEAN
      OBVIOUS
    <3> QED BY <3>1, <3>2, Zenon
  <2>3. /\ job' = [x \in Callers \X Scopes |->
                    CASE x[1] # c -> job[x]
                      [] x[1] = c -> IF x[2] \in todo THEN start(x[2]) ELSE NoJob]
        /\ sweep' = [sweep EXCEPT ![c].pc = "jobs"] /\ UNCHANGED facts
    BY <1>6 DEF ListPlans
  <2> HIDE DEF start, todo
  <2>4. \A d \in Callers, t \in Scopes :
          job'[d, t] = IF d # c THEN job[d, t] ELSE IF t \in todo THEN start(t) ELSE NoJob
    BY <2>3
  <2>5. job' \in [Callers \X Scopes -> Job]
    <3>1. job' = [x \in Callers \X Scopes |-> job'[x]]
      BY <2>3
    <3>2. \A d \in Callers, t \in Scopes : job'[<<d, t>>] \in Job
      BY <1>1, <2>2, <2>4, NoJobReady
    <3> QED BY <3>1, <3>2
  <2>6. \A t \in Scopes : JobReady(job'[c, t])
    BY <2>2, <2>4, NoJobReady
  <2>7. sweep' \in [Callers -> Sweeping] /\ sweep'[c].pc = "jobs"
        /\ \A d \in Callers : d # c => sweep'[d] = sweep[d]
    BY <1>1, <2>1, <2>3 DEF Sweeping
  <2>8. \A t \in Scopes : job[c, t].pc \in {"idle", "failed"}
    BY <2>1 DEF PipelineInv, SweepsSound
  <2> QED BY <1>3, <1>4, <2>3, <2>4, <2>5, <2>6, <2>7, <2>8
<1>7. CASE ListWaiting(c) \/ ListWaitingForPlan(c) \/ ListEligible(c) \/ EndSweep(c)
             \/ SweepFails(c)
  <2>0. UNCHANGED <<facts, job>>
    BY <1>7 DEF ListWaiting, ListWaitingForPlan, ListEligible, EndSweep, SweepFails
  <2>1. /\ sweep' \in [Callers -> Sweeping]
        /\ \A d \in Callers : d # c => sweep'[d] = sweep[d]
        /\ sweep'[c].pc \in {"forPlan", "eligible", "plans"} =>
              Idle(c) \/ sweep[c].pc \in {"forPlan", "eligible"}
    <3>1. sweep[c] \in Sweeping /\ Writes \in Nat
      BY <1>1, WritesNat
    <3>2. CASE ListWaiting(c)
      <4> DEFINE new == [NoSweep EXCEPT !.pc = "forPlan", !.at = now,
                                        !.todo = WaitingScopes(Queue!Waiting), !.seen = Writes]
      <4>1. WaitingScopes(Queue!Waiting) \subseteq Scopes
        BY DEF WaitingScopes
      <4>2. new \in Sweeping
        BY <1>1, <3>1, <4>1 DEF NoSweep, Sweeping
      <4> QED BY <1>1, <3>2, <4>2 DEF ListWaiting
    <3>3. CASE ListWaitingForPlan(c)
      <4>1. WaitingScopes({"waiting_for_plan"}) \subseteq Scopes
        BY DEF WaitingScopes
      <4> QED BY <1>1, <3>1, <3>3, <4>1 DEF ListWaitingForPlan, Sweeping
    <3>4. CASE ListEligible(c)
      <4>1. Eligible(sweep[c].at) \subseteq Scopes
        BY DEF Eligible
      <4> QED BY <1>1, <3>1, <3>4, <4>1 DEF ListEligible, Sweeping
    <3>5. CASE EndSweep(c) \/ SweepFails(c)
      BY <1>1, <3>5, NoSweepTyped DEF EndSweep, SweepFails
    <3> QED BY <1>7, <3>2, <3>3, <3>4, <3>5
  <2>2. \A t \in Scopes : sweep'[c].pc \in {"forPlan", "eligible", "plans"} =>
          job'[c, t].pc \in {"idle", "failed"}
    BY <2>0, <2>1 DEF Idle, PipelineInv, SweepsSound
  <2>3. \A t \in Scopes : JobReady(job'[c, t])
    BY <2>0 DEF PipelineInv, JobsSound
  <2> QED BY <1>1, <1>3, <1>4, <2>0, <2>1, <2>2, <2>3
<1> QED BY <1>5, <1>6, <1>7 DEF Sweep

-----------------------------------------------------------------------------
(* The table's rows, as the workers see them.                              *)

\* A request with both hashes keeps them, and only such a one is ever started.
LEMMA RowsKept ==
  ASSUME PipelineInv, [Next]_allVars, NEW i \in DOMAIN rows
  PROVE  /\ rows[i].sel # Null /\ rows[i].plan # Null =>
              /\ i \in DOMAIN rows' /\ rows'[i].scope = rows[i].scope
              /\ rows'[i].sel = rows[i].sel /\ rows'[i].plan = rows[i].plan
         /\ i \in DOMAIN rows' /\ rows'[i].attempts > rows[i].attempts =>
              rows[i].sel # Null /\ rows[i].plan # Null
<1>1. QP!RowStep(i)
  BY QueueStep, SameNext, QueueAssumed, QP!StepRows DEF PipelineInv
<1>2. rows[i].attempts \in Nat
  BY DEF PipelineInv, QP!QueueInv, QP!TypeOK, QP!Row
<1>3. rows[i].status \in QP!Waiting => rows[i].sel = Null \/ rows[i].plan = Null
  BY DEF PipelineInv, QP!QueueInv, QP!SchemaHolds, QP!RowCheck, QP!HashesCheck, QP!Waiting
<1>4. CASE QP!Kept(i)
  BY <1>2, <1>4 DEF QP!Kept
<1>5. CASE QP!Answered(i)
  BY <1>2, <1>3, <1>5 DEF QP!Answered
<1>6. CASE QP!Started(i)
  BY <1>6 DEF QP!Started, QP!SameHashes, PipelineInv, QP!QueueInv, QP!ClaimsSound
<1>7. CASE QP!Unstarted(i) \/ QP!Refused(i)
  BY <1>2, <1>7 DEF QP!Unstarted, QP!Refused, QP!SameHashes
<1> QED BY <1>1, <1>4, <1>5, <1>6, <1>7 DEF QP!RowStep

\* A request is completed by the worker that completes it, and by nothing else.
LEMMA Completions ==
  ASSUME PipelineInv, Next, NEW i \in DOMAIN rows', rows'[i].status = "completed"
  PROVE  \/ i \in DOMAIN rows /\ rows[i].status = "completed"
         \/ \E w \in Workers : work[w].pc = "complete" /\ work[w].id = i /\ Record(w)
<1>1. i \in DOMAIN rows
  BY QueueStep, SameNext, QueueAssumed, QP!StepNew DEF PipelineInv, QP!Waiting
<1>2. rows[i] \in QP!Row
  BY <1>1 DEF PipelineInv, QP!QueueInv, QP!TypeOK
<1>3. SUFFICES ASSUME rows'[i] # rows[i]
               PROVE  \/ rows'[i].status # "completed"
                      \/ \E w \in Workers : work[w].pc = "complete" /\ work[w].id = i /\ Record(w)
  BY <1>1
<1>4. ASSUME NEW c \in Callers, NEW s \in Scopes, CallStep(c, s)
      PROVE  rows'[i].status # "completed"
  <2>1. CASE Enqueue(c, s)
    <3> DEFINE hash == IF job[c, s].plan = Null THEN Null ELSE job[c, s].plan.hash
    <3>1. job[c, s] \in Job
      BY JobType DEF PipelineInv
    <3>2. job[c, s].sel \in Hashes \cup {Null} /\ hash \in PlanHashes \cup {Null}
      BY <3>1 DEF Job, PlanHashes
    <3>3. QP!EnqueueOrReconcile(s, Ruleset, job[c, s].sel, hash)
      BY <2>1, SameRequest DEF Enqueue
    <3>4. QP!Kept(i) \/ QP!Answered(i)
      BY <1>1, <3>2, <3>3, QueueAssumed, QP!EnqueueRows DEF PipelineInv
    <3> QED BY <1>3, <3>4 DEF QP!Kept, QP!Answered
  <2>2. CASE FailWaiting(c, s)
    <3>1. rows'[i] = Queue!FailedWaiting(i)
      BY <1>1, <1>3, <2>2 DEF FailWaiting, Queue!FailWaitingLock
    <3> QED BY <1>2, <3>1 DEF Queue!FailedWaiting, QP!Row
  <2>3. CASE UNCHANGED rows
    BY <1>3, <2>3
  <2> QED BY <1>4, <2>1, <2>2, <2>3
          DEF CallStep, Reconcile, IngestEvidence, ReadPlan, AskWaiting, CheckExpired,
              ChooseWaiting, ReadEvidence, NothingToDo, CallFails, queueVars,
              Queue!FailWaitingSnapshot, Queue!Abandon
<1>5. ASSUME NEW w \in Workers, WorkerStep(w)
      PROVE  \/ rows'[i].status # "completed"
             \/ work[w].pc = "complete" /\ work[w].id = i /\ Record(w)
  <2>1. CASE Claim(w)
    <3>1. PICK k : rows' = [rows EXCEPT ![k] = Queue!Claimed(@, w, snapshot[w].at)]
      BY <1>3, <2>1 DEF Claim, Queue!ClaimLock
    <3>2. rows'[i] = Queue!Claimed(rows[i], w, snapshot[w].at)
      BY <1>1, <1>3, <3>1
    <3> QED BY <1>2, <3>2 DEF Queue!Claimed, QP!Row
  <2>2. CASE Record(w)
    <3>1. ASSUME NEW st, NEW k, Queue!Finish(w, k, st)
          PROVE  i = k /\ rows'[i].status = st
      <4>1. rows' = [rows EXCEPT ![k] = Queue!Unleased(@, st, @.nextAttempt)]
        BY <1>3, <3>1 DEF Queue!Finish
      <4>2. i = k /\ rows'[i] = Queue!Unleased(rows[i], st, rows[i].nextAttempt)
        BY <1>1, <1>3, <4>1
      <4> QED BY <1>2, <4>2 DEF Queue!Unleased, QP!Row
    <3>2. ASSUME NEW k, Queue!ReleaseForRetry(w, k), ~ Queue!Finish(w, k, "failed")
          PROVE  rows'[i].status # "completed"
      <4>1. rows' = [rows EXCEPT ![k] = Queue!Unleased(@, "pending", now + RetryMs)]
        BY <3>2 DEF Queue!ReleaseForRetry
      <4>2. rows'[i] = Queue!Unleased(rows[i], "pending", now + RetryMs)
        BY <1>1, <1>3, <4>1
      <4> QED BY <1>2, <4>2 DEF Queue!Unleased, QP!Row
    <3> QED BY <2>2, <3>1, <3>2
            DEF Record, Queue!Complete, Queue!Supersede, Queue!Fail
  <2>3. CASE UNCHANGED rows
    BY <1>3, <2>3
  <2> QED BY <1>5, <2>1, <2>2, <2>3
          DEF WorkerStep, Boot, Cycle, ListWaiting, BeginPolling, Poll, CheckPlan, ReadMarket,
              SelectEvidence, InsertInsight, Reject, CycleFails, Crash, reconcileVars, queueVars,
              Queue!ClaimSnapshot, Queue!Abandon
<1>6. ASSUME NEW c \in Callers, SweepStep(c) PROVE FALSE
  BY <1>3, <1>6
  DEF SweepStep, Start, ReceiveEvidence, GeneratePlan, WakeScope, ListWaiting, Sweep,
      ListWaitingForPlan, ListEligible, ListPlans, EndSweep, SweepFails, queueVars
<1>7. ~ WorldStep
  BY <1>3 DEF WorldStep, MarketMoves, Queue!Tick, reconcileVars, queueVars
<1> QED BY <1>4, <1>5, <1>6, <1>7, NextCases

-----------------------------------------------------------------------------
(* The workers.                                                            *)

Bound == {"plan", "market", "evidence", "insert", "complete"}

\* A worker without a request is well typed.
LEMMA AsleepTyped ==
  /\ Asleep \in Work /\ [Asleep EXCEPT !.pc = "poll"] \in Work
  /\ [Asleep EXCEPT !.pc = "dead"] \in Work
  /\ Asleep.pc = "off" /\ [Asleep EXCEPT !.pc = "poll"].pc = "poll"
  /\ [Asleep EXCEPT !.pc = "dead"].pc = "dead"
BY DEF Asleep, Work, WorkPcs

\* A worker moves by itself, and to a well-formed state.
LEMMA WorkMoves ==
  ASSUME PipelineInv, NEW w \in Workers, WorkerStep(w)
  PROVE  \E k \in Work : work' = [work EXCEPT ![w] = k]
<1>0. work \in [Workers -> Work] /\ work[w] \in Work /\ market \in Nat /\ now \in Nat
  BY WorkType DEF PipelineInv, TypeOK, CycleTypeOK, ReconcileTypeOK, Queue!TypeOK
<1>1. ASSUME NEW pc \in WorkPcs, Become(w, pc)
      PROVE  \E k \in Work : work' = [work EXCEPT ![w] = k]
  <2>1. [work[w] EXCEPT !.pc = pc] \in Work
    BY <1>0, <1>1 DEF Work
  <2> QED BY <1>0, <1>1, <2>1 DEF Become
<1>2. ASSUME NEW v \in {"superseded", "failed", "retry"}, Catch(w, v)
      PROVE  \E k \in Work : work' = [work EXCEPT ![w] = k]
  <2>1. [work[w] EXCEPT !.pc = "recover", !.verdict = v] \in Work
    BY <1>0, <1>2 DEF Work, WorkPcs
  <2> QED BY <1>0, <1>2, <2>1 DEF Catch
<1>3. ASSUME Rest(w) PROVE \E k \in Work : work' = [work EXCEPT ![w] = k]
  BY <1>3, AsleepTyped DEF Rest
<1>4. CASE Boot(w) \/ Poll(w) \/ BeginPolling(w) \/ Reject(w) \/ Record(w) \/ CycleFails(w)
  BY <1>1, <1>2, <1>3, <1>4
  DEF Boot, Poll, BeginPolling, Reject, Record, CycleFails, WorkPcs
<1>5. CASE Claim(w)
  <2>1. CASE Rest(w)
    BY <1>3, <2>1
  <2>2. ASSUME NEW i \in DOMAIN rows, work' = [work EXCEPT ![w].pc = "plan", ![w].id = i]
        PROVE  \E k \in Work : work' = [work EXCEPT ![w] = k]
    <3>1. i \in Nat
      BY DEF PipelineInv, QP!QueueInv, QP!TypeOK
    <3>2. [work[w] EXCEPT !.pc = "plan", !.id = i] \in Work
      BY <1>0, <3>1 DEF Work, WorkPcs
    <3> QED BY <1>0, <2>2, <3>2
  <2> QED BY <1>5, <2>1, <2>2 DEF Claim
<1>6. CASE CheckPlan(w)
  <2> DEFINE stored == PlanByHash(Request(w).scope, Request(w).plan)
  <2>1. CASE stored # Null /\ work' = [work EXCEPT ![w].pc = "market", ![w].plan = stored, ![w].at = now]
    <3>1. stored \in Plans
      BY <2>1, StoresPlan
    <3>2. [work[w] EXCEPT !.pc = "market", !.plan = stored, !.at = now] \in Work
      BY <1>0, <3>1 DEF Work, WorkPcs
    <3> QED BY <1>0, <2>1, <3>2
  <2> QED BY <1>1, <1>2, <1>6, <2>1 DEF CheckPlan, WorkPcs
<1>7. CASE ReadMarket(w)
  <2>1. [work[w] EXCEPT !.pc = "evidence", !.market = market] \in Work
    BY <1>0 DEF Work, WorkPcs
  <2> QED BY <1>0, <1>7, <2>1 DEF ReadMarket
<1>8. CASE SelectEvidence(w)
  <2> DEFINE selected == Selection(Latest(Request(w).scope, work[w].plan), work[w].at)
  <2>1. selected \in Hashes
    BY LatestType, SelectionType DEF PipelineInv, TypeOK, ReconcileTypeOK
  <2>2. [work[w] EXCEPT !.pc = "insert", !.sel = selected] \in Work
    BY <1>0, <2>1 DEF Work, WorkPcs
  <2> QED BY <1>0, <1>2, <1>8, <2>2 DEF SelectEvidence
<1>9. CASE InsertInsight(w)
  BY <1>1, <1>9 DEF InsertInsight, WorkPcs
<1>10. CASE Crash(w)
  BY <1>10, AsleepTyped DEF Crash
<1> QED BY <1>4, <1>5, <1>6, <1>7, <1>8, <1>9, <1>10 DEF WorkerStep, Cycle

\* Whatever a worker does, it is bound to a request only as WorkerSound says.
LEMMA WorkerKeeps ==
  ASSUME PipelineInv, Next, NEW w \in Workers, WorkerStep(w)
  PROVE  WorkerSound(w)'
<1>0. work \in [Workers -> Work] /\ work[w] \in Work /\ WorkerSound(w)
  BY WorkType DEF PipelineInv, TypeOK, CycleTypeOK, WorkersSound
<1>1. work'[w].pc \notin Bound => WorkerSound(w)'
  BY DEF WorkerSound, Bound
<1>2. CASE Boot(w) \/ Poll(w) \/ BeginPolling(w) \/ Reject(w) \/ Record(w) \/ CycleFails(w)
           \/ Crash(w)
  <2>1. work'[w].pc \in {"sweep", "claiming", "poll", "recover", "dead"}
    BY <1>0, <1>2, AsleepTyped
    DEF Boot, Poll, BeginPolling, Reject, Record, CycleFails, Crash, Become, Rest, Catch, Work
  <2> QED BY <1>1, <2>1 DEF Bound
<1>3. CASE Claim(w)
  <2>1. CASE Rest(w)
    BY <1>0, <1>1, <2>1, AsleepTyped DEF Rest, Bound
  <2>2. ASSUME NEW i \in DOMAIN rows, rows'[i].attempts > rows[i].attempts,
               work' = [work EXCEPT ![w].pc = "plan", ![w].id = i]
        PROVE  WorkerSound(w)'
    <3>1. i \in DOMAIN rows'
      BY <1>3 DEF Claim, Queue!ClaimLock
    <3>2. rows'[i].sel # Null /\ rows'[i].plan # Null
      BY <2>2, <3>1, RowsKept
    <3>3. work'[w].pc = "plan" /\ work'[w].id = i
      BY <1>0, <2>2 DEF Work
    <3> QED BY <3>1, <3>2, <3>3 DEF WorkerSound
  <2> QED BY <1>3, <2>1, <2>2 DEF Claim
<1>4. CASE CheckPlan(w)
  <2> DEFINE stored == PlanByHash(Request(w).scope, Request(w).plan)
  <2>1. CASE stored # Null /\ work' = [work EXCEPT ![w].pc = "market", ![w].plan = stored, ![w].at = now]
    <3>1. stored \in Plans /\ stored.scope = Request(w).scope /\ stored.hash = Request(w).plan
      BY <2>1, StoresPlan
    <3>2. work'[w].pc = "market" /\ work'[w].id = work[w].id /\ work'[w].plan = stored
      BY <1>0, <2>1 DEF Work
    <3>3. work[w].pc = "plan" /\ UNCHANGED rows
      BY <1>4 DEF CheckPlan, reconcileVars, queueVars
    <3> QED BY <1>0, <3>1, <3>2, <3>3 DEF WorkerSound, Request
  <2>2. CASE Become(w, "supersede") \/ Become(w, "fail") \/ Catch(w, "failed")
    <3>1. work'[w].pc \in {"supersede", "fail", "recover"}
      BY <1>0, <2>2 DEF Become, Catch, Work
    <3> QED BY <1>1, <3>1 DEF Bound
  <2> QED BY <1>4, <2>1, <2>2 DEF CheckPlan
<1>5. CASE ReadMarket(w)
  <2>1. /\ work'[w].pc = "evidence" /\ work'[w].id = work[w].id /\ work'[w].plan = work[w].plan
        /\ work[w].pc = "market" /\ UNCHANGED rows
    BY <1>0, <1>5 DEF ReadMarket, Work, reconcileVars, queueVars
  <2> QED BY <1>0, <2>1 DEF WorkerSound
<1>6. CASE SelectEvidence(w)
  <2> DEFINE selected == Selection(Latest(Request(w).scope, work[w].plan), work[w].at)
  <2>1. CASE selected = Request(w).sel /\ work' = [work EXCEPT ![w].pc = "insert", ![w].sel = selected]
    <3>1. /\ work'[w].pc = "insert" /\ work'[w].id = work[w].id
          /\ work'[w].plan = work[w].plan /\ work'[w].sel = Request(w).sel
          /\ work[w].pc = "evidence" /\ UNCHANGED rows
      BY <1>0, <1>6, <2>1 DEF SelectEvidence, Work, reconcileVars, queueVars
    <3> QED BY <1>0, <3>1 DEF WorkerSound, Request
  <2>2. CASE Catch(w, "superseded")
    BY <1>0, <1>1, <2>2 DEF Catch, Work, Bound
  <2> QED BY <1>6, <2>1, <2>2 DEF SelectEvidence
<1>7. CASE InsertInsight(w)
  <2> DEFINE x == [scope |-> work[w].plan.scope, sel |-> work[w].sel,
                   plan |-> work[w].plan.hash, market |-> work[w].market]
  <2>1. /\ work'[w].pc = "complete" /\ work'[w].id = work[w].id
        /\ work'[w].plan = work[w].plan /\ work'[w].sel = work[w].sel
        /\ work[w].pc = "insert" /\ UNCHANGED rows /\ x \in insights'
    BY <1>0, <1>7 DEF InsertInsight, Become, Work, reconcileVars, queueVars
  <2>2. Answers(x, work[w].id)
    BY <1>0, <2>1 DEF WorkerSound, Answers
  <2>3. \E y \in insights' :
          /\ y.scope = rows'[work'[w].id].scope
          /\ y.sel = rows'[work'[w].id].sel
          /\ y.plan = rows'[work'[w].id].plan
    BY <2>1, <2>2 DEF Answers
  <2> QED BY <1>0, <2>1, <2>3 DEF WorkerSound, Answers
<1> QED BY <1>2, <1>3, <1>4, <1>5, <1>6, <1>7 DEF WorkerStep, Cycle

\* The other workers are not disturbed.
LEMMA WorkerStays ==
  ASSUME PipelineInv, [Next]_allVars, NEW w \in Workers, work'[w] = work[w],
         insights \subseteq insights'
  PROVE  WorkerSound(w)'
<1>1. WorkerSound(w)
  BY DEF PipelineInv, WorkersSound
<1>2. CASE work[w].pc \in Bound
  <2>1. LET i == work[w].id
        IN /\ i \in DOMAIN rows' /\ rows'[i].scope = rows[i].scope
           /\ rows'[i].sel = rows[i].sel /\ rows'[i].plan = rows[i].plan
    BY <1>1, <1>2, RowsKept DEF WorkerSound, Bound
  <2> QED BY <1>1, <2>1 DEF WorkerSound, Answers
<1>3. CASE work[w].pc \notin Bound
  BY <1>3 DEF WorkerSound, Bound
<1> QED BY <1>2, <1>3

\* A worker's step and the calls: only a boot and a crash touch them.
LEMMA WorkerCalls ==
  ASSUME PipelineInv, NEW w \in Workers, WorkerStep(w)
  PROVE  CallsSound'
<1>0. /\ FactsTypeOK /\ PlansOrdered /\ job \in [Callers \X Scopes -> Job]
      /\ sweep \in [Callers -> Sweeping] /\ settled \in [Scopes -> Nat]
      /\ StatementsSound /\ JobsSound /\ SweepsSound
      /\ work \in [Workers -> Work] /\ work[w] \in Work
  BY WorkType DEF PipelineInv, TypeOK, ReconcileTypeOK, CycleTypeOK
<1>1. /\ w \in Callers /\ w \in Sessions
      /\ \A c \in Callers : c \in Sessions
      /\ \A c \in Callers, s \in Scopes : Session(c, s) \in Sessions /\ Session(c, s) # w
  BY SynthesisAssumption, ReconcileAssumption DEF Session, Sessions
<1>2. snapshot = [x \in Sessions |-> snapshot[x]]
  BY SnapshotType
<1>3. PICK k \in Work : work' = [work EXCEPT ![w] = k]
  BY WorkMoves
<1>4. \A v \in Workers : v # w => work'[v] = work[v]
  BY <1>0, <1>3
<1>5. CASE Boot(w)
  <2>1. \A d \in Callers : snapshot[d] # Queue!NoStatement =>
          d \in Workers /\ work'[d].pc = "claiming"
    BY <1>0, <1>4, <1>5 DEF Boot, StatementsSound
  <2> QED BY <1>1, <1>5, <2>1, SweepCalls DEF Boot
\* What is left: the worker's own statement, and the statements of others.
<1>6. ASSUME \A x \in Sessions : x # w => snapshot'[x] = snapshot[x],
             snapshot'[w] # Queue!NoStatement => work'[w].pc = "claiming",
             UNCHANGED <<facts, settled>>,
             UNCHANGED <<job, sweep>> \/ Crash(w)
      PROVE  CallsSound'
  <2>1. FactsTypeOK' /\ PlansOrdered' /\ settled' \in [Scopes -> Nat]
    BY <1>0, <1>6 DEF facts, FactsTypeOK, PlansOrdered, NewestPlan
  <2>2. /\ job' \in [Callers \X Scopes -> Job]
        /\ \A c \in Callers, s \in Scopes :
              \/ job'[c, s] = job[c, s]
              \/ job'[c, s] = NoJob /\ snapshot[Session(c, s)] = Queue!NoStatement
    <3>1. CASE Crash(w)
      <4>1. job' = [x \in Callers \X Scopes |-> IF x[1] = w THEN NoJob ELSE job[x]]
        BY <3>1 DEF Crash
      <4>2. job' \in [Callers \X Scopes -> Job]
        BY <1>0, <4>1, NoJobReady
      <4>3. \A s \in Scopes : snapshot[Session(w, s)] = Queue!NoStatement
        BY <3>1 DEF Crash
      <4> QED BY <4>1, <4>2, <4>3
    <3> QED BY <1>0, <1>6, <3>1
  <2>3. /\ sweep' \in [Callers -> Sweeping]
        /\ \A c \in Callers : sweep'[c] = sweep[c] \/ sweep'[c].pc = "idle"
    BY <1>0, <1>6, NoSweepTyped DEF Crash
  <2>4. JobsSound'
    <3>1. \A c \in Callers, s \in Scopes : JobReady(job'[c, s])
      BY <1>0, <2>2, NoJobReady DEF JobsSound
    <3> QED BY <3>1 DEF JobsSound, JobReady
  <2>5. SweepsSound'
    BY <1>0, <2>2, <2>3, NoJobReady DEF SweepsSound
  <2>6. StatementsSound'
    <3>1. \A c \in Callers, s \in Scopes :
            snapshot'[Session(c, s)] # Queue!NoStatement => job'[c, s].pc = "failing"
      BY <1>0, <1>1, <1>6, <2>2 DEF StatementsSound
    <3>2. \A c \in Callers : snapshot'[c] # Queue!NoStatement =>
            c \in Workers /\ work'[c].pc = "claiming"
      BY <1>0, <1>1, <1>4, <1>6 DEF StatementsSound
    <3> QED BY <3>1, <3>2 DEF StatementsSound, Queue!NoStatement
  <2> QED BY <2>1, <2>2, <2>3, <2>4, <2>5, <2>6 DEF CallsSound
<1>7. CASE Poll(w)
  <2>1. \A x \in Sessions : x # w => snapshot'[x] = snapshot[x]
    BY <1>2, <1>7 DEF Poll, Queue!ClaimSnapshot
  <2>2. work'[w].pc = "claiming"
    BY <1>0, <1>7 DEF Poll, Become, Work
  <2> QED BY <1>6, <1>7, <2>1, <2>2 DEF Poll
<1>8. CASE Claim(w) \/ Crash(w) \/ CycleFails(w)
  <2>1. \A x \in Sessions : x # w => snapshot'[x] = snapshot[x]
    BY <1>2, <1>8
    DEF Claim, Crash, CycleFails, Queue!ClaimLock, Queue!Abandon, queueVars
  <2>2. snapshot'[w] = Queue!NoStatement
    BY <1>0, <1>1, <1>2, <1>8
    DEF Claim, Crash, CycleFails, Queue!ClaimLock, Queue!Abandon, queueVars, StatementsSound
  <2> QED BY <1>6, <1>8, <2>1, <2>2 DEF Claim, Crash, CycleFails
<1>9. CASE BeginPolling(w) \/ CheckPlan(w) \/ ReadMarket(w) \/ SelectEvidence(w)
           \/ InsertInsight(w) \/ Reject(w) \/ Record(w)
  <2>1. UNCHANGED <<facts, settled, job, sweep, snapshot>> /\ work[w].pc # "claiming"
    BY <1>9
    DEF BeginPolling, CheckPlan, ReadMarket, SelectEvidence, InsertInsight, Reject, Record,
        reconcileVars, queueVars, Queue!Complete, Queue!Supersede, Queue!Fail,
        Queue!ReleaseForRetry, Queue!Finish
  <2>2. snapshot'[w] = Queue!NoStatement
    BY <1>0, <1>1, <2>1 DEF StatementsSound
  <2> QED BY <1>6, <2>1, <2>2
<1> QED BY <1>5, <1>7, <1>8, <1>9 DEF WorkerStep, Cycle

\* What a worker inserts is an insight.
LEMMA InsertTyped ==
  ASSUME PipelineInv, NEW w \in Workers, InsertInsight(w)
  PROVE  \E x \in Insight, i \in DOMAIN rows :
            insights' = insights \cup {x} /\ UNCHANGED rows /\ Answers(x, i)
<1> DEFINE i == work[w].id
           x == [scope |-> work[w].plan.scope, sel |-> work[w].sel,
                 plan |-> work[w].plan.hash, market |-> work[w].market]
<1>1. work[w] \in Work /\ WorkerSound(w) /\ work[w].pc = "insert"
  BY WorkType DEF PipelineInv, WorkersSound, InsertInsight
<1>2. /\ i \in DOMAIN rows /\ rows[i].sel # Null
      /\ work[w].plan \in Plans /\ work[w].plan.scope = rows[i].scope
      /\ work[w].plan.hash = rows[i].plan /\ work[w].sel = rows[i].sel
  BY <1>1 DEF WorkerSound
<1>3. x \in Insight
  BY <1>1, <1>2, ReconcileAssumption DEF Insight, Work, PlanHashes
<1>4. insights' = insights \cup {x} /\ UNCHANGED rows
  BY DEF InsertInsight, reconcileVars, queueVars
<1> QED BY <1>2, <1>3, <1>4 DEF Answers

\* Insights are only added to, and each answers the request it was made for.
LEMMA InsightsStep ==
  ASSUME PipelineInv, Next
  PROVE  /\ insights \subseteq insights' /\ insights' \subseteq Insight
         /\ \A x \in insights' : \E i \in DOMAIN rows' : Answers(x, i)'
<1>0. insights \subseteq Insight
  BY DEF PipelineInv, TypeOK, CycleTypeOK
<1>1. \A x \in insights : \E i \in DOMAIN rows' : Answers(x, i)'
  <2> TAKE x \in insights
  <2>1. PICK i \in DOMAIN rows : Answers(x, i)
    BY DEF PipelineInv, InsightsAnswerRequests, Answers
  <2>2. rows[i].sel # Null /\ rows[i].plan # Null
    BY <1>0, <2>1, FactsAssumption DEF Answers, Insight
  <2>3. i \in DOMAIN rows' /\ rows'[i].scope = rows[i].scope
        /\ rows'[i].sel = rows[i].sel /\ rows'[i].plan = rows[i].plan
    BY <2>2, RowsKept
  <2>4. Answers(x, i)'
    BY <2>1, <2>3 DEF Answers
  <2> QED BY <2>3, <2>4
<1>2. CASE \E w \in Workers : InsertInsight(w)
  <2>1. PICK w \in Workers : InsertInsight(w)
    BY <1>2
  <2>2. PICK x \in Insight, i \in DOMAIN rows :
               insights' = insights \cup {x} /\ UNCHANGED rows /\ Answers(x, i)
    BY <2>1, InsertTyped
  <2>3. i \in DOMAIN rows' /\ Answers(x, i)'
    BY <2>2 DEF Answers
  <2> QED BY <1>0, <1>1, <2>2, <2>3
<1>3. CASE UNCHANGED insights
  BY <1>0, <1>1, <1>3
<1>4. (\E w \in Workers : InsertInsight(w)) \/ UNCHANGED insights
  <2>1. ASSUME NEW w \in Workers, WorkerStep(w), ~ InsertInsight(w) PROVE UNCHANGED insights
    BY <2>1 DEF WorkerStep, Boot, Cycle, BeginPolling, Poll, Claim, CheckPlan, ReadMarket,
                SelectEvidence, Reject, Record, CycleFails, Crash
  <2> QED BY <2>1, NextCases DEF CallStep, SweepStep, WorldStep, MarketMoves, cycleVars
<1> QED BY <1>2, <1>3, <1>4

\* Every request recorded as completed has its insight.
LEMMA CompletedStep ==
  ASSUME PipelineInv, Next, NEW i \in DOMAIN rows', rows'[i].status = "completed"
  PROVE  \E x \in insights' : Answers(x, i)'
<1>1. i \in DOMAIN rows /\ \E x \in insights : Answers(x, i)
  <2>1. CASE i \in DOMAIN rows /\ rows[i].status = "completed"
    BY <2>1 DEF PipelineInv, InsightsAnswerRequests, Answers
  <2>2. ASSUME NEW w \in Workers, work[w].pc = "complete", work[w].id = i
        PROVE  i \in DOMAIN rows /\ \E x \in insights : Answers(x, i)
    BY <2>2 DEF PipelineInv, WorkersSound, WorkerSound
  <2> QED BY <2>1, <2>2, Completions
<1>2. PICK x \in insights : Answers(x, i)
  BY <1>1
<1>3. x \in Insight
  BY DEF PipelineInv, TypeOK, CycleTypeOK
<1>4. rows[i].sel # Null /\ rows[i].plan # Null
  BY <1>2, <1>3, FactsAssumption DEF Answers, Insight
<1>5. rows'[i].scope = rows[i].scope /\ rows'[i].sel = rows[i].sel /\ rows'[i].plan = rows[i].plan
  BY <1>1, <1>4, RowsKept
<1>6. Answers(x, i)'
  BY <1>2, <1>5 DEF Answers
<1> QED BY <1>6, InsightsStep

-----------------------------------------------------------------------------
\* What concerns neither calls nor sweeps keeps them well formed, ...
LEMMA CallsStay ==
  ASSUME PipelineInv, UNCHANGED <<facts, job, sweep, settled, snapshot, work>>
  PROVE  CallsSound'
<1>1. FactsTypeOK' /\ PlansOrdered'
  BY DEF PipelineInv, TypeOK, ReconcileTypeOK, facts, FactsTypeOK, PlansOrdered, NewestPlan
<1>2. /\ job' \in [Callers \X Scopes -> Job] /\ sweep' \in [Callers -> Sweeping]
      /\ settled' \in [Scopes -> Nat]
  BY DEF PipelineInv, TypeOK, ReconcileTypeOK
<1>3. StatementsSound'
  BY DEF PipelineInv, StatementsSound, Queue!NoStatement
<1>4. JobsSound' /\ SweepsSound'
  BY DEF PipelineInv, JobsSound, JobReady, SweepsSound
<1> QED BY <1>1, <1>2, <1>3, <1>4 DEF CallsSound

\* ... as do the clock and the market.
LEMMA WorldCalls == ASSUME PipelineInv, WorldStep PROVE CallsSound' /\ work' = work
<1>1. UNCHANGED <<facts, job, sweep, settled, snapshot, work>>
  BY DEF WorldStep, MarketMoves, Queue!Tick, reconcileVars, queueVars, cycleVars
<1> QED BY <1>1, CallsStay

\* The invariant holds at the start.
LEMMA PipelineInit == Init => PipelineInv
<1> SUFFICES ASSUME Init PROVE PipelineInv
  OBVIOUS
<1>1. QP!QueueInv
  <2>1. QP!Init
    BY DEF Init, ReconcileInit, Queue!Init, QP!Init, Queue!NoStatement, QP!NoStatement
  <2> QED BY <2>1, QueueAssumed, QP!InitSound
<1>2. Queue!TypeOK
  BY <1>1 DEF QP!QueueInv, QP!TypeOK, Queue!TypeOK, QP!Row, Queue!Row, QP!Waiting,
              Queue!Waiting, QP!InFlight, Queue!InFlight, QP!Terminal, Queue!Terminal
<1>3. ReconcileTypeOK
  BY <1>2, NoJobReady, NoSweepTyped DEF Init, ReconcileInit, FactsInit, ReconcileTypeOK, FactsTypeOK
<1>4. TypeOK
  BY <1>3, AsleepTyped DEF Init, CycleInit, TypeOK, CycleTypeOK
<1>5. StatementsSound
  BY DEF Init, ReconcileInit, Queue!Init, StatementsSound, Session, Sessions
<1>6. JobsSound /\ SweepsSound
  BY NoJobReady DEF Init, ReconcileInit, JobsSound, SweepsSound
<1>7. PlansOrdered
  BY DEF Init, ReconcileInit, FactsInit, PlansOrdered
<1>8. WorkersSound
  BY AsleepTyped DEF Init, CycleInit, WorkersSound, WorkerSound
<1>9. InsightsAnswerRequests
  BY DEF Init, CycleInit, ReconcileInit, Queue!Init, InsightsAnswerRequests
<1> QED BY <1>1, <1>4, <1>5, <1>6, <1>7, <1>8, <1>9 DEF PipelineInv

\* Every step of the pipeline preserves the invariant.
LEMMA PipelineStep == ASSUME PipelineInv, [Next]_allVars PROVE PipelineInv'
<1>1. QP!QueueInv' /\ Queue!TypeOK'
  BY QueueSound
<1>2. CASE Next
  <2>1. CallsSound'
    <3>1. ASSUME NEW c \in Callers, SweepStep(c) PROVE CallsSound'
      BY <3>1, SweepCalls DEF SweepStep, cycleVars, PipelineInv, StatementsSound
    <3> QED BY <1>2, <3>1, NextCases, CallSound, WorkerCalls, WorldCalls
  <2>2. insights \subseteq insights' /\ insights' \subseteq Insight
    BY <1>2, InsightsStep
  <2>3. /\ work' \in [Workers -> Work]
        /\ \A w \in Workers : WorkerStep(w) \/ work'[w] = work[w]
    <3>0. work \in [Workers -> Work]
      BY DEF PipelineInv, TypeOK, CycleTypeOK
    <3>1. ASSUME NEW w \in Workers, WorkerStep(w)
          PROVE  work' \in [Workers -> Work] /\ \A v \in Workers : v = w \/ work'[v] = work[v]
      BY <3>0, <3>1, WorkMoves
    <3>2. CASE work' = work
      BY <3>0, <3>2
    <3> QED BY <1>2, <3>1, <3>2, NextCases, WorldCalls DEF CallStep, SweepStep, cycleVars
  <2>4. \A w \in Workers : WorkerSound(w)'
    BY <1>2, <2>2, <2>3, WorkerKeeps, WorkerStays
  <2>5. WorkersSound'
    BY <2>4 DEF WorkersSound, WorkerSound, Answers
  <2>6. InsightsAnswerRequests'
    BY <1>2, InsightsStep, CompletedStep DEF InsightsAnswerRequests, Answers
  <2>7. market' \in Nat /\ faults' \in Nat
    <3>1. market \in Nat /\ faults \in Nat
      BY DEF PipelineInv, TypeOK, CycleTypeOK
    <3>2. faults' \in {faults, faults + 1}
      BY <1>2 DEF Next, Fault
    <3>3. market' \in {market, market + 1}
      <4>1. ASSUME NEW w \in Workers, WorkerStep(w) PROVE market' = market
        BY <4>1 DEF WorkerStep, Boot, Cycle, BeginPolling, Poll, Claim, CheckPlan, ReadMarket,
                    SelectEvidence, InsertInsight, Reject, Record, CycleFails, Crash
      <4> QED BY <1>2, <4>1, NextCases DEF CallStep, SweepStep, WorldStep, MarketMoves, cycleVars
    <3> QED BY <3>1, <3>2, <3>3
  <2>8. TypeOK'
    BY <1>1, <2>1, <2>2, <2>3, <2>7 DEF CallsSound, TypeOK, ReconcileTypeOK, CycleTypeOK
  <2> QED BY <1>1, <2>1, <2>5, <2>6, <2>8 DEF CallsSound, PipelineInv
<1>3. CASE UNCHANGED allVars
  <2>1. /\ UNCHANGED <<facts, job, sweep, settled, snapshot, work>>
        /\ UNCHANGED <<rows, insights, market, faults>>
    BY <1>3 DEF allVars, vars, reconcileVars, queueVars, cycleVars
  <2>2. CallsSound'
    BY <2>1, CallsStay
  <2>3. WorkersSound' /\ InsightsAnswerRequests'
    BY <2>1 DEF PipelineInv, WorkersSound, WorkerSound, Answers, InsightsAnswerRequests
  <2>4. TypeOK'
    BY <1>1, <2>1, <2>2 DEF CallsSound, PipelineInv, TypeOK, ReconcileTypeOK, CycleTypeOK
  <2> QED BY <1>1, <2>2, <2>3, <2>4 DEF CallsSound, PipelineInv
<1> QED BY <1>2, <1>3

\* In every reachable state the pipeline has its type: no call acts on a plan,
\* an instant or a bundle that it has not read.
THEOREM TypeCorrect == Spec => []TypeOK
<1>1. PipelineInv => TypeOK
  BY DEF PipelineInv
<1> QED BY <1>1, PipelineInit, PipelineStep, PTL DEF Spec

\* Handlers, workers and crashes use the table only as RequestQueue says, so
\* what is proved of the queue holds of it in the pipeline.
THEOREM QueueCorrect == Spec => QueueImplemented
<1>1. Init => Queue!Init
  BY DEF Init, ReconcileInit
<1>2. PipelineInv /\ [Next]_allVars => [Queue!Next]_(Queue!queueVars)
  BY QueueStep DEF Queue!queueVars, queueVars
<1> QED BY <1>1, <1>2, PipelineInit, PipelineStep, PTL DEF Spec, QueueImplemented, Queue!Spec

\* Every insight answers a request of the queue, and every request recorded as
\* completed has its insight, whichever worker recorded it and however often
\* the request changed hands.
THEOREM InsightsCorrect == Spec => []InsightsAnswerRequests
<1>1. PipelineInv => InsightsAnswerRequests
  BY DEF PipelineInv
<1> QED BY <1>1, PipelineInit, PipelineStep, PTL DEF Spec

-----------------------------------------------------------------------------
(* Wake-ups.                                                               *)

\* What a call of scope s asks for, given the plan it read and its instant.
SelectionFor(s, p, t) ==
  IF AllExpired(Latest(s, p), t) THEN Null ELSE Selection(Latest(s, p), t)

Past == {"waiting", "expired", "failing", "evidence", "enqueue"}

\* A call since whose first read nothing was written has read what is there.
Current(j, s) ==
  /\ j.at # Null => j.at <= now
  /\ j.seen <= Writes
  /\ j.pc \in Past /\ j.seen = Writes =>
       /\ j.plan = LatestPlan(s)
       /\ j.pc = "enqueue" => j.sel = SelectionFor(s, j.plan, j.at)

\* A call that a sweep made never passes over its scope in silence.
Swept(j, seen) ==
  j.pc \notin {"idle", "failed"} =>
    j.waits \in BOOLEAN /\ j.pc # "append" /\ (j.pc \in Past => seen <= j.seen)

Outdated(s, t) ==
  \A i \in DOMAIN evidence : evidence[i].bundle.scope = s => evidence[i].bundle.expires <= t

\* A sweep since whose first read nothing was written has left out only scopes
\* without a plan and with nothing but expired evidence, and is done with a
\* scope only once the scope is requested.
SweepCurrent(c) ==
  LET v == sweep[c]
  IN /\ v.at <= now /\ v.seen <= Writes
     /\ v.pc = "plans" /\ v.seen = Writes =>
          \A s \in Scopes \ v.todo : Outdated(s, v.at)
     /\ v.pc = "jobs" => \A s \in Scopes :
          /\ Swept(job[c, s], v.seen)
          /\ v.seen = Writes /\ job[c, s].pc = "idle" => Requested(s, now + 1)

WakeInv ==
  /\ PipelineInv /\ NoLostWakeup
  /\ \A s \in Scopes : settled[s] <= Writes
  /\ \A c \in Callers, s \in Scopes : \A j \in {job[c, s]} : Current(j, s)
  /\ \A c \in Callers : SweepCurrent(c)

-----------------------------------------------------------------------------
\* What the invariant says of types.
LEMMA TypeFacts ==
  ASSUME PipelineInv
  PROVE  /\ FactsTypeOK /\ PlansOrdered /\ Writes \in Nat /\ now \in Nat
         /\ job \in [Callers \X Scopes -> Job] /\ sweep \in [Callers -> Sweeping]
         /\ settled \in [Scopes -> Nat]
BY WritesNat DEF PipelineInv, TypeOK, ReconcileTypeOK, Queue!TypeOK

\* Arithmetic for the leaves whose other terms the SMT encoding lacks.
LEMMA Order ==
  /\ \A a \in Nat : a <= a /\ a + 1 \in Nat
  /\ \A a, b \in Nat : a <= b => a # b + 1 /\ a + 1 <= b + 1 /\ a <= b + 1
  /\ \A a, b, d \in Nat : a <= b /\ b <= d => a <= d
  /\ \A a, b \in Nat : a <= b /\ b <= a => a = b
OBVIOUS

\* Membership is a truth value: it may be stored in a field.
LEMMA IsBoolean == \A x, y : (x \in y) \in BOOLEAN
OBVIOUS

\* An instant is never SQL's NULL.
LEMMA NullIsNoTime == \A t \in Nat : t # Null
BY ReconcileAssumption, Zenon

\* What is expired stays so.
LEMMA StaysExpired ==
  ASSUME NEW bundles \in SUBSET Bundles, NEW t \in Nat, NEW u \in Nat, t <= u,
         AllExpired(bundles, t)
  PROVE  AllExpired(bundles, u)
<1> SUFFICES ASSUME NEW b \in bundles PROVE Lifecycle(b, u) = "EXPIRED"
  BY DEF AllExpired
<1>1. b.fresh \in Nat /\ b.expires \in Nat /\ Lifecycle(b, t) = "EXPIRED"
  BY FactsAssumption DEF AllExpired
<1>2. ~ (t <= b.fresh) /\ ~ (b.fresh < t /\ t <= b.expires)
  BY <1>1 DEF Lifecycle
<1> QED BY <1>1, <1>2 DEF Lifecycle

\* Without a write, the reads return what they did.
LEMMA SameReads ==
  ASSUME UNCHANGED facts, NEW s, NEW p, NEW t
  PROVE  /\ Writes' = Writes /\ LatestPlan(s)' = LatestPlan(s)
         /\ Latest(s, p)' = Latest(s, p)
         /\ SelectionFor(s, p, t)' = SelectionFor(s, p, t)
         /\ Outdated(s, t)' <=> Outdated(s, t)
BY DEF facts, Writes, LatestPlan, Latest, Newer, SelectionFor, Outdated

\* A step writes nothing, or one plan or bundle; time does not go back.
LEMMA FactsGrow ==
  ASSUME PipelineInv, [Next]_allVars
  PROVE  /\ UNCHANGED facts \/ Writes' = Writes + 1
         /\ now' \in Nat /\ now <= now' /\ now' <= now + 1
<1>1. now' \in Nat /\ now <= now' /\ now' <= now + 1
  <2>1. now' = now \/ now' = now + 1
    <3>1. ASSUME NEW c \in Sessions, Queue!Operation(c) PROVE now' = now
      BY <3>1 DEF Queue!Operation, Queue!ClaimLock, Queue!FailWaitingLock, Queue!Abandon,
                  Queue!ClaimSnapshot, Queue!FailWaitingSnapshot, Queue!Complete, Queue!Fail,
                  Queue!Supersede, Queue!ReleaseForRetry, Queue!Finish
    <3> QED BY <3>1, QueueStep
            DEF Queue!Next, Queue!Request, Queue!EnqueueOrReconcile, Queue!Tick, queueVars
  <2> QED BY <2>1, TypeFacts
<1>2. ASSUME NEW x, NEW y, evidence' = Append(evidence, x) \/ plans' = Append(plans, y),
             evidence' \in {evidence, Append(evidence, x)}, plans' \in {plans, Append(plans, y)},
             UNCHANGED evidence \/ UNCHANGED plans
      PROVE  Writes' = Writes + 1
  <2>1. evidence \in Seq(Receipt) /\ plans \in Seq(Plans)
    BY TypeFacts DEF FactsTypeOK
  <2>2. Len(evidence) \in Nat /\ Len(plans) \in Nat
        /\ Len(Append(evidence, x)) = Len(evidence) + 1
        /\ Len(Append(plans, y)) = Len(plans) + 1
    BY <2>1
  <2>3. Append(evidence, x) # evidence /\ Append(plans, y) # plans
    BY <2>2
  <2> QED BY <1>2, <2>2, <2>3 DEF Writes
<1>3. ASSUME NEW c \in Callers, NEW s \in Scopes, CallStep(c, s)
      PROVE  UNCHANGED facts \/ Writes' = Writes + 1
  <2>1. CASE IngestEvidence(c, s)
    BY <1>2, <2>1 DEF IngestEvidence, AppendBundle, facts
  <2> QED BY <1>3, <2>1 DEF CallStep, Reconcile, ReadPlan, AskWaiting, CheckExpired,
             ChooseWaiting, FailWaiting, ReadEvidence, Enqueue, NothingToDo, CallFails
<1>4. ASSUME NEW c \in Callers, SweepStep(c) PROVE UNCHANGED facts \/ Writes' = Writes + 1
  <2>1. CASE \E p \in Plans : GeneratePlan(c, p)
    BY <1>2, <2>1 DEF GeneratePlan, WritePlan
  <2> QED BY <1>4, <2>1 DEF SweepStep, Start, ReceiveEvidence, WakeScope, ListWaiting, Sweep,
              ListWaitingForPlan, ListEligible, ListPlans, EndSweep, SweepFails
<1>5. ASSUME NEW w \in Workers, WorkerStep(w) PROVE UNCHANGED facts
  BY <1>5 DEF WorkerStep, Boot, Cycle, ListWaiting, BeginPolling, Poll, Claim, CheckPlan,
              ReadMarket, SelectEvidence, InsertInsight, Reject, Record, CycleFails, Crash,
              reconcileVars
<1>6. WorldStep => UNCHANGED facts
  BY DEF WorldStep, MarketMoves, reconcileVars
<1>7. UNCHANGED allVars => UNCHANGED facts
  BY DEF allVars, vars, reconcileVars
<1> QED BY <1>1, <1>3, <1>4, <1>5, <1>6, <1>7, NextCases

\* A scope that is requested stays requested until something is written.
LEMMA RequestedKept ==
  ASSUME PipelineInv, [Next]_allVars, UNCHANGED facts, NEW s \in Scopes,
         NEW t \in Nat, NEW u \in Nat, t <= u, Requested(s, t)
  PROVE  Requested(s, u)'
<1>1. PICK p : p = LatestPlan(s)
  OBVIOUS
<1>2. PICK found : found = Latest(s, p)
  OBVIOUS
<1>3. LatestPlan(s)' = p /\ Latest(s, p)' = found
  BY <1>1, <1>2, SameReads
<1>4. \A i \in DOMAIN rows : QP!Answers(i)
  BY QueueStep, SameNext, QueueAssumed, QP!StepAnswers DEF PipelineInv
<1>5. p # Null => p.hash # Null
  BY <1>1, TypeFacts, LatestPlanType, FactsAssumption DEF PlanHashes
<1>6. AllExpired(found, t) => AllExpired(found, u)
  BY <1>2, TypeFacts, LatestType, StaysExpired
<1>7. p # Null => \E i \in DOMAIN rows' : rows'[i].scope = s /\ rows'[i].plan = p.hash
  BY <1>1, <1>4, <1>5 DEF Requested, QP!Answers
<1>8. ~ AllExpired(found, u) =>
        \E i \in DOMAIN rows' :
           /\ rows'[i].scope = s /\ rows'[i].sel # Null
           /\ Runs(rows'[i].sel) = {b.run : b \in found}
           /\ p # Null => rows'[i].plan = p.hash
  <2> SUFFICES ASSUME ~ AllExpired(found, t)
               PROVE  \E i \in DOMAIN rows' :
                        /\ rows'[i].scope = s /\ rows'[i].sel # Null
                        /\ Runs(rows'[i].sel) = {b.run : b \in found}
                        /\ p # Null => rows'[i].plan = p.hash
    BY <1>6
  <2>1. PICK i \in DOMAIN rows :
          /\ rows[i].scope = s /\ rows[i].sel # Null
          /\ Runs(rows[i].sel) = {b.run : b \in found}
          /\ p # Null => rows[i].plan = p.hash
    BY <1>1, <1>2 DEF Requested
  <2>2. PICK k \in DOMAIN rows' :
          /\ rows'[k].scope = rows[i].scope
          /\ rows[i].sel # Null => rows'[k].sel = rows[i].sel
          /\ rows[i].plan # Null => rows'[k].plan = rows[i].plan
    BY <1>4 DEF QP!Answers
  <2>3. rows'[k].sel = rows[i].sel
    BY <2>1, <2>2
  <2>4. Runs(rows'[k].sel) = {b.run : b \in found}
    BY <2>1, <2>3 DEF Runs
  <2> QED BY <1>5, <2>1, <2>2, <2>3, <2>4
<1>9. LET q == LatestPlan(s) f == Latest(s, q)
      IN q' = p /\ f' = found /\ (AllExpired(f, u)' <=> AllExpired(found, u))
  BY <1>3 DEF Latest, AllExpired
<1> HIDE DEF AllExpired
<1> QED BY <1>7, <1>8, <1>9 DEF Requested

\* A selection names the runs it was made of.
LEMMA RunsSelected ==
  ASSUME NEW bundles, NEW t PROVE Runs(Selection(bundles, t)) = {b.run : b \in bundles}
<1>1. \A b \in bundles : <<b.run, Lifecycle(b, t)>> \in Selection(bundles, t)
  BY DEF Selection
<1>2. \A b \in bundles : b.run \in Runs(Selection(bundles, t))
  <2> TAKE b \in bundles
  <2>1. <<b.run, Lifecycle(b, t)>>[1] = b.run
    OBVIOUS
  <2> QED BY <1>1, <2>1 DEF Runs
<1>3. \A x \in Selection(bundles, t) : \E b \in bundles : x[1] = b.run
  BY DEF Selection
<1>4. \A r \in Runs(Selection(bundles, t)) : \E b \in bundles : r = b.run
  BY <1>3 DEF Runs
<1> QED BY <1>2, <1>4

\* A request for what a current call has read is what the facts of its scope
\* call for.
LEMMA CurrentServes ==
  ASSUME PipelineInv, NEW s \in Scopes, NEW j \in Job, j.pc = "enqueue", JobReady(j),
         Current(j, s), j.seen = Writes, UNCHANGED facts, NEW t \in Nat, now <= t,
         QP!EnqueueOrReconcile(s, Ruleset, j.sel, IF j.plan = Null THEN Null ELSE j.plan.hash)
  PROVE  Requested(s, t)'
<1>1. PICK p \in Plans \cup {Null} : p = LatestPlan(s)
  BY TypeFacts, LatestPlanType
<1>2. PICK found \in SUBSET Bundles : found = Latest(s, p)
  BY TypeFacts, LatestType
<1>3. PICK hash : hash = IF p = Null THEN Null ELSE p.hash
  OBVIOUS
<1>4. j.plan = p /\ j.sel = SelectionFor(s, p, j.at)
  BY <1>1 DEF Current, Past
<1>5. j.at \in Nat /\ j.at <= t
  BY TypeFacts, NullIsNoTime DEF JobReady, Current
<1>6. j.sel \in Hashes \cup {Null} /\ hash \in PlanHashes \cup {Null} /\ (p # Null => hash # Null)
  BY <1>3, FactsAssumption DEF Job, PlanHashes
<1>7. PICK sel \in Hashes \cup {Null} : sel = j.sel
  BY <1>6
<1>8. PICK i \in DOMAIN rows' :
        /\ rows'[i].scope = s
        /\ sel # Null => rows'[i].sel = sel
        /\ hash # Null => rows'[i].plan = hash
  <2>1. QP!EnqueueOrReconcile(s, Ruleset, sel, hash) /\ QP!QueueInv
    BY <1>3, <1>4, <1>7 DEF PipelineInv
  <2>2. \E i \in DOMAIN rows' :
          /\ rows'[i].scope = s
          /\ sel # Null => rows'[i].sel = sel
          /\ hash # Null => rows'[i].plan = hash
    BY <1>6, <2>1, QueueAssumed, QP!EnqueueAsked
  <2> QED BY <2>2
<1>9. p # Null => rows'[i].plan = p.hash
  BY <1>3, <1>6, <1>8
<1>10. ASSUME ~ AllExpired(found, t)
       PROVE  rows'[i].sel # Null /\ Runs(rows'[i].sel) = {b.run : b \in found}
  <2>1. ~ AllExpired(found, j.at)
    BY <1>5, <1>10, StaysExpired
  <2>2. sel = Selection(found, j.at) /\ sel # Null
    BY <1>2, <1>4, <1>7, <2>1, SelectionType, FactsAssumption DEF SelectionFor
  <2>3. rows'[i].sel = Selection(found, j.at)
    BY <1>8, <2>2
  <2> QED BY <2>2, <2>3, RunsSelected
<1>11. LET q == LatestPlan(s) f == Latest(s, q)
       IN q' = p /\ f' = found /\ (AllExpired(f, t)' <=> AllExpired(found, t))
  <2>1. LatestPlan(s)' = p /\ Latest(s, p)' = found
    BY <1>1, <1>2, SameReads
  <2> QED BY <2>1 DEF Latest, AllExpired
<1> HIDE DEF AllExpired
<1> QED BY <1>8, <1>9, <1>10, <1>11 DEF Requested

\* So a call that enqueues and is current leaves its scope requested, ...
LEMMA EnqueueServes ==
  ASSUME PipelineInv, NEW c \in Callers, NEW s \in Scopes, Enqueue(c, s),
         Current(job[c, s], s), job[c, s].seen = Writes, NEW t \in Nat, now <= t
  PROVE  Requested(s, t)'
<1>1. job[c, s] \in Job /\ JobReady(job[c, s])
  BY JobType DEF PipelineInv, JobsSound
<1>2. job[c, s].pc = "enqueue" /\ UNCHANGED facts
  BY DEF Enqueue
<1>3. QP!EnqueueOrReconcile(s, Ruleset, job[c, s].sel,
                            IF job[c, s].plan = Null THEN Null ELSE job[c, s].plan.hash)
  BY SameRequest DEF Enqueue
<1> QED BY <1>1, <1>2, <1>3, CurrentServes

\* Where there is neither a plan nor evidence that is not expired, nothing is
\* called for.
LEMMA NothingCalledFor ==
  ASSUME PipelineInv, NEW s \in Scopes, NEW t \in Nat, NEW u \in Nat, t <= u,
         LatestPlan(s) = Null, AllExpired(Latest(s, Null), t)
  PROVE  Requested(s, u)
<1>1. Latest(s, Null) \in SUBSET Bundles
  BY TypeFacts, LatestType
<1>2. AllExpired(Latest(s, Null), u)
  BY <1>1, StaysExpired
<1> QED BY <1>2 DEF Requested

\* ... and one that has nothing to enqueue finds nothing called for.
LEMMA NothingToDoServes ==
  ASSUME PipelineInv, NEW c \in Callers, NEW s \in Scopes, NothingToDo(c, s),
         Current(job[c, s], s), job[c, s].seen = Writes, NEW t \in Nat, now <= t
  PROVE  Requested(s, t)
<1>1. PICK j \in Job : j = job[c, s]
  BY TypeFacts
<1>2. j.pc = "enqueue" /\ j.sel = Null /\ j.plan = Null
  BY <1>1 DEF NothingToDo
<1>3. LatestPlan(s) = Null /\ SelectionFor(s, Null, j.at) = Null
  BY <1>1, <1>2 DEF Current, Past
<1>4. j.at \in Nat /\ j.at <= t
  <2>1. j.at \in Nat
    BY <1>1, <1>2 DEF PipelineInv, JobsSound, JobReady
  <2>2. j.at # Null => j.at <= now
    BY <1>1 DEF Current
  <2>3. j.at # Null
    BY <2>1, NullIsNoTime
  <2>4. now \in Nat
    BY TypeFacts
  <2>5. j.at <= now
    BY <2>2, <2>3
  <2> QED BY <2>1, <2>4, <2>5, Order
<1>5. AllExpired(Latest(s, Null), j.at)
  BY <1>3, TypeFacts, LatestType, SelectionType, FactsAssumption DEF SelectionFor
<1> QED BY <1>3, <1>4, <1>5, NothingCalledFor

\* A call that does not move stays current.
LEMMA CurrentKept ==
  ASSUME PipelineInv, [Next]_allVars, NEW j \in Job, NEW s \in Scopes, Current(j, s)
  PROVE  Current(j, s)'
<1>1. (j.at # Null => j.at <= now') /\ j.seen <= Writes'
  <2>1. j.seen \in Nat /\ j.at \in Nat \cup {Null}
    BY DEF Job
  <2>2. Writes' = Writes \/ Writes' = Writes + 1
    BY FactsGrow, SameReads
  <2> QED BY <2>1, <2>2, FactsGrow, TypeFacts DEF Current
<1>2. CASE UNCHANGED facts
  <2>1. /\ Writes' = Writes /\ LatestPlan(s)' = LatestPlan(s)
        /\ SelectionFor(s, j.plan, j.at)' = SelectionFor(s, j.plan, j.at)
    BY <1>2, SameReads
  <2> QED BY <1>1, <2>1 DEF Current
<1>3. CASE Writes' = Writes + 1
  <2>1. j.seen # Writes'
    BY <1>3, TypeFacts DEF Current, Job
  <2> QED BY <1>1, <2>1 DEF Current
<1> QED BY <1>2, <1>3, FactsGrow

\* A call that has read nothing is current.
LEMMA NoJobCurrent ==
  ASSUME PipelineInv, NEW s \in Scopes, NEW pc \in {"idle", "failed", "plan"}
  PROVE  Current([NoJob EXCEPT !.pc = pc], s) /\ Current(NoJob, s)
BY TypeFacts DEF Current, Past, NoJob

\* A call's own steps keep it current.
LEMMA CurrentMoves ==
  ASSUME PipelineInv, NEW c \in Callers, NEW s \in Scopes, CallStep(c, s),
         Current(job[c, s], s), NEW j \in Job, Go(c, s, j)
  PROVE  Current(j, s)
<1>1. PICK i \in Job : i = job[c, s]
  BY TypeFacts
<1>2. job \in [Callers \X Scopes -> Job]
  BY TypeFacts
<1>3. \A k : Go(c, s, k) => k = j
  BY <1>2 DEF Go
<1>4. ASSUME NEW pc \in Past \ {"enqueue"}, j = [i EXCEPT !.pc = pc], i.pc \in Past
      PROVE  Current(j, s)
  <2>1. /\ j.pc = pc /\ j.at = i.at /\ j.seen = i.seen /\ j.plan = i.plan
    BY <1>1, <1>4 DEF Job
  <2> QED BY <1>1, <1>4, <2>1 DEF Current, Past
<1>5. \A k : Go(c, s, k) /\ Current(k, s) => Current(j, s)
  BY <1>3
<1>6. CASE IngestEvidence(c, s) \/ CallFails(c, s) \/ Enqueue(c, s) \/ NothingToDo(c, s)
  BY <1>3, <1>5, <1>6, NoJobCurrent DEF IngestEvidence, CallFails, Enqueue, NothingToDo, Throw
<1>7. CASE FailWaiting(c, s)
  BY <1>1, <1>3, <1>4, <1>5, <1>7, NoJobCurrent DEF FailWaiting, Throw, Past
<1>8. CASE ReadPlan(c, s)
  <2>1. /\ j.seen = Writes /\ j.plan = LatestPlan(s) /\ j.pc # "enqueue"
        /\ j.at = IF i.at = Null THEN now ELSE i.at
    <3>1. i.waits \in {TRUE, FALSE, Null}
      BY <1>1 DEF Job
    <3>2. PICK pc \in {"evidence", "expired", "waiting"} :
            Go(c, s, [i EXCEPT !.plan = LatestPlan(s), !.seen = Writes,
                               !.at = IF i.at = Null THEN now ELSE i.at, !.pc = pc])
      BY <1>1, <1>8, <3>1 DEF ReadPlan
    <3>3. j = [i EXCEPT !.plan = LatestPlan(s), !.seen = Writes,
                        !.at = IF i.at = Null THEN now ELSE i.at, !.pc = pc]
      BY <1>3, <3>2
    <3> QED BY <1>1, <3>2, <3>3 DEF Job
  <2>0. now \in Nat /\ Writes \in Nat
    BY TypeFacts
  <2>2. j.at # Null => j.at <= now
    <3>1. CASE i.at = Null
      BY <2>0, <2>1, <3>1, Order
    <3>2. CASE i.at # Null
      BY <1>1, <2>1, <3>2 DEF Current
    <3> QED BY <3>1, <3>2
  <2>3. j.seen <= Writes
    BY <2>0, <2>1, Order
  <2> QED BY <2>1, <2>2, <2>3 DEF Current
<1>9. CASE AskWaiting(c, s) \/ CheckExpired(c, s)
  <2>1. PICK pc \in {"expired", "evidence", "failing"} : Go(c, s, [i EXCEPT !.pc = pc])
    BY <1>1, <1>9 DEF AskWaiting, CheckExpired
  <2>2. i.pc \in {"waiting", "expired"}
    BY <1>1, <1>9 DEF AskWaiting, CheckExpired
  <2> QED BY <1>3, <1>4, <2>1, <2>2 DEF Past
<1>10. CASE ChooseWaiting(c, s)
  <2>1. i.pc = "failing"
    BY <1>1, <1>10 DEF ChooseWaiting
  <2>2. CASE j = i
    BY <1>1, <2>2
  <2>3. CASE Go(c, s, [i EXCEPT !.pc = "evidence"])
    BY <1>3, <1>4, <2>1, <2>3 DEF Past
  <2>4. UNCHANGED job => j = i
    BY <1>1, <1>2 DEF Go
  <2> QED BY <1>1, <1>10, <2>2, <2>3, <2>4 DEF ChooseWaiting
<1>11. CASE ReadEvidence(c, s)
  <2>1. j = [i EXCEPT !.pc = "enqueue", !.sel = SelectionFor(s, i.plan, i.at)]
    BY <1>1, <1>3, <1>11 DEF ReadEvidence, SelectionFor
  <2>2. /\ j.pc = "enqueue" /\ j.at = i.at /\ j.seen = i.seen /\ j.plan = i.plan
        /\ j.sel = SelectionFor(s, i.plan, i.at) /\ i.pc = "evidence"
    BY <1>1, <1>11, <2>1 DEF Job, ReadEvidence
  <2> QED BY <1>1, <2>2 DEF Current, Past
<1> QED BY <1>6, <1>7, <1>8, <1>9, <1>10, <1>11 DEF CallStep, Reconcile

\* What starts a call gives it an instant that has come.
LEMMA CurrentStarts ==
  ASSUME PipelineInv, NEW c \in Callers, SweepCurrent(c), NEW d \in Callers, NEW s \in Scopes,
         Start(c) \/ ListPlans(c), job'[<<d, s>>] # job[<<d, s>>]
  PROVE  \E j \in Job :
            /\ j = job'[<<d, s>>] /\ j.pc \notin Past /\ j.seen = 0
            /\ j.at # Null => j.at \in Nat /\ j.at <= now
<1>1. /\ job \in [Callers \X Scopes -> Job] /\ sweep[c] \in Sweeping /\ now \in Nat
      /\ now <= now
  BY TypeFacts, Order
<1>2. [NoJob EXCEPT !.pc = "plan"].at = Null /\ NoJob.at = Null /\ NoJob.seen = 0
      /\ [NoJob EXCEPT !.pc = "plan"].seen = 0
  BY DEF NoJob
<1>3. CASE \E b \in Bundles : ReceiveEvidence(c, b)
  <2>1. PICK b \in Bundles : ReceiveEvidence(c, b)
    BY <1>3
  <2> DEFINE j == [NoJob EXCEPT !.pc = "append", !.post = b, !.at = now]
  <2>2. job'[<<d, s>>] = j
    BY <1>1, <2>1 DEF ReceiveEvidence, Go
  <2>3. j \in Job /\ j.pc = "append" /\ j.seen = 0 /\ j.at = now
    BY <1>1, <2>1 DEF NoJob, Job, JobPcs
  <2> QED BY <1>1, <2>2, <2>3 DEF Past
<1>4. CASE (\E p \in Plans : GeneratePlan(c, p)) \/ (\E t \in Scopes : WakeScope(c, t))
  <2>1. job'[<<d, s>>] = [NoJob EXCEPT !.pc = "plan"]
    BY <1>1, <1>4 DEF GeneratePlan, WakeScope, Go
  <2> QED BY <1>2, <2>1, PlanReady DEF Past
<1>5. CASE ListPlans(c)
  <2> DEFINE v == sweep[c]
             todo == v.todo \cup {t \in Scopes : LatestPlan(t) # Null}
             start(t) == [NoJob EXCEPT !.pc = "plan", !.at = v.at, !.waits = t \in v.forPlan]
  <2>1. job' = [x \in Callers \X Scopes |->
                  CASE x[1] # c -> job[x]
                    [] x[1] = c -> IF x[2] \in todo THEN start(x[2]) ELSE NoJob]
    BY <1>5 DEF ListPlans
  <2>2. start(s) \in Job /\ start(s).pc = "plan" /\ start(s).at = v.at /\ start(s).seen = 0
    <3>1. \A b \in BOOLEAN : LET j == [NoJob EXCEPT !.pc = "plan", !.at = v.at, !.waits = b]
                            IN j \in Job /\ j.pc = "plan" /\ j.at = v.at /\ j.seen = 0
      BY <1>1 DEF NoJob, Job, JobPcs, Sweeping
    <3> QED BY <3>1, IsBoolean, Zenon
  <2>3. v.at \in Nat /\ v.at <= now
    BY <1>1 DEF Sweeping, SweepCurrent
  <2> HIDE DEF start, todo
  <2>4. job'[<<d, s>>] \in {start(s), NoJob}
    BY <2>1
  <2> QED BY <1>2, <2>2, <2>3, <2>4, NoJobReady DEF Past
<1> QED BY <1>3, <1>4, <1>5 DEF Start

\* Every call stays current, whoever takes the step.
LEMMA AllCurrent ==
  ASSUME WakeInv, [Next]_allVars, NEW d \in Callers, NEW t \in Scopes,
         NEW j, j = job'[<<d, t>>]
  PROVE  Current(j, t)'
<1>0. PipelineInv /\ PipelineInv'
  BY PipelineStep DEF WakeInv
<1>1. PICK i \in Job : i = job[d, t]
  BY <1>0, TypeFacts
<1>2. j \in Job /\ j = job'[<<d, t>>]
  BY <1>0, PipelineStep DEF PipelineInv, TypeOK, ReconcileTypeOK
<1>3. Current(i, t)
  BY <1>1 DEF WakeInv
<1>4. Current(j, t) \/ i = j => Current(j, t)'
  BY <1>0, <1>2, <1>3, CurrentKept
<1>5. CASE Current(j, t) \/ i = j
  BY <1>4, <1>5
<1>6. ASSUME NEW c \in Callers, Start(c) \/ ListPlans(c), i # j PROVE Current(j, t)
  <2>1. SweepCurrent(c)
    BY DEF WakeInv
  <2>2. j.pc \notin Past /\ j.seen = 0 /\ (j.at # Null => j.at <= now)
    <3>1. job'[<<d, t>>] # job[<<d, t>>]
      BY <1>1, <1>2, <1>6
    <3>2. \E k \in Job :
             /\ k = job'[<<d, t>>] /\ k.pc \notin Past /\ k.seen = 0
             /\ k.at # Null => k.at \in Nat /\ k.at <= now
      BY <1>0, <1>6, <2>1, <3>1, CurrentStarts
    <3> QED BY <1>2, <3>2
  <2> QED BY <1>0, <2>2, TypeFacts DEF Current
<1>7. ASSUME NEW c \in Callers, NEW s \in Scopes, CallStep(c, s), i # j PROVE Current(j, t)
  <2>1. PICK k \in Job : Go(c, s, k)
    BY <1>0, <1>1, <1>2, <1>7, CallJob
  <2>2. c = d /\ s = t /\ k = j
    BY <1>0, <1>1, <1>2, <1>7, <2>1, TypeFacts DEF Go
  <2> QED BY <1>0, <1>1, <1>3, <1>7, <2>1, <2>2, CurrentMoves
<1>8. ASSUME NEW w \in Workers, WorkerStep(w), i # j PROVE Current(j, t)
  <2>1. j = NoJob
    BY <1>1, <1>2, <1>8
    DEF WorkerStep, Boot, Cycle, ListWaiting, BeginPolling, Poll, Claim, CheckPlan,
        ReadMarket, SelectEvidence, InsertInsight, Reject, Record, CycleFails, Crash,
        reconcileVars
  <2> QED BY <1>0, <2>1, NoJobCurrent
<1>9. WorldStep \/ UNCHANGED allVars => i = j
  BY <1>1, <1>2 DEF WorldStep, MarketMoves, reconcileVars, allVars, vars
<1>10. ASSUME NEW c \in Callers, SweepStep(c), i # j PROVE Start(c) \/ ListPlans(c)
  BY <1>1, <1>2, <1>10
  DEF SweepStep, ListWaiting, Sweep, ListWaitingForPlan, ListEligible, EndSweep, SweepFails
<1> QED BY <1>5, <1>6, <1>7, <1>8, <1>9, <1>10, NextCases

\* A finished reconciliation that began after the last write has left its
\* scope requested, and it stays so until the next write.
LEMMA SettledStep ==
  ASSUME WakeInv, [Next]_allVars, NEW s \in Scopes
  PROVE  settled'[s] <= Writes' /\ (settled'[s] = Writes' => Requested(s, now)')
<1>0. PipelineInv /\ settled[s] \in Nat /\ Writes \in Nat /\ now \in Nat
      /\ settled[s] <= Writes
  BY TypeFacts DEF WakeInv
<1>1. PICK n \in Nat : n = now' /\ now <= n
  BY <1>0, FactsGrow
<1>2. Requested(s, n)' => Requested(s, now)'
  BY <1>1 DEF Requested
<1>3. CASE \E c \in Callers, t \in Scopes : Enqueue(c, t)
  <2>1. PICK c \in Callers, t \in Scopes : Enqueue(c, t)
    BY <1>3
  <2>2. UNCHANGED facts /\ Writes' = Writes
    BY <2>1, SameReads DEF Enqueue
  <2>3. PICK j \in Job : j = job[c, t]
    BY <1>0, TypeFacts
  <2>4. Current(job[c, t], t)
    BY DEF WakeInv
  <2>5. settled[s] = Writes => Requested(s, n)'
    <3>1. settled[s] = Writes => Requested(s, now)
      BY DEF WakeInv, NoLostWakeup
    <3> QED BY <1>0, <1>1, <2>2, <3>1, RequestedKept
  <2>6. t = s /\ j.seen = Writes => Requested(s, n)'
    BY <1>0, <1>1, <2>1, <2>3, <2>4, EnqueueServes
  <2>7. settled'[s] = settled[s] \/ (t = s /\ settled'[s] = j.seen)
    BY <1>0, <2>1, <2>3, TypeFacts DEF Enqueue
  <2>8. j.seen <= Writes
    BY <2>3, <2>4 DEF Current
  <2> QED BY <1>0, <1>2, <2>2, <2>5, <2>6, <2>7, <2>8
<1>4. CASE ~ \E c \in Callers, t \in Scopes : Enqueue(c, t)
  <2>1. UNCHANGED settled
    <3>1. ASSUME NEW c \in Callers, NEW t \in Scopes, CallStep(c, t) PROVE UNCHANGED settled
      BY <1>4, <3>1 DEF CallStep, Reconcile, IngestEvidence, ReadPlan, AskWaiting,
                        CheckExpired, ChooseWaiting, FailWaiting, ReadEvidence, NothingToDo,
                        CallFails
    <3>2. ASSUME NEW c \in Callers, SweepStep(c) PROVE UNCHANGED settled
      BY <3>2 DEF SweepStep, Start, ReceiveEvidence, GeneratePlan, WakeScope, ListWaiting,
                  Sweep, ListWaitingForPlan, ListEligible, ListPlans, EndSweep, SweepFails
    <3>3. ASSUME NEW w \in Workers, WorkerStep(w) PROVE UNCHANGED settled
      BY <3>3 DEF WorkerStep, Boot, Cycle, ListWaiting, BeginPolling, Poll, Claim, CheckPlan,
                  ReadMarket, SelectEvidence, InsertInsight, Reject, Record, CycleFails, Crash,
                  reconcileVars
    <3>4. WorldStep \/ UNCHANGED allVars => UNCHANGED settled
      BY DEF WorldStep, MarketMoves, reconcileVars, allVars, vars
    <3> QED BY <3>1, <3>2, <3>3, <3>4, NextCases
  <2>2. CASE UNCHANGED facts
    <3>1. Writes' = Writes
      BY <2>2, SameReads
    <3>2. settled[s] = Writes => Requested(s, n)'
      BY <1>0, <1>1, <2>2, RequestedKept DEF WakeInv, NoLostWakeup
    <3> QED BY <1>0, <1>2, <2>1, <3>1, <3>2
  <2>3. CASE Writes' = Writes + 1
    BY <1>0, <2>1, <2>3
  <2> QED BY <1>0, <2>2, <2>3, FactsGrow
<1> QED BY <1>3, <1>4

\* What a sweep remembers lies in the past; if it is as new as the last write,
\* the step writes nothing.
LEMMA SweepBounds ==
  ASSUME WakeInv, [Next]_allVars, NEW d \in Callers, NEW v \in Sweeping, v = sweep[d]
  PROVE  /\ v.at <= now' /\ v.seen <= Writes'
         /\ v.seen = Writes' => UNCHANGED facts /\ v.seen = Writes /\ Writes' = Writes
<1>1. PipelineInv /\ now \in Nat /\ now' \in Nat /\ now <= now' /\ Writes \in Nat
  BY TypeFacts, FactsGrow DEF WakeInv
<1>2. v.at \in Nat /\ v.seen \in Nat /\ v.at <= now /\ v.seen <= Writes
  BY DEF WakeInv, Sweeping, SweepCurrent
<1>3. (UNCHANGED facts /\ Writes' = Writes) \/ Writes' = Writes + 1
  BY <1>1, FactsGrow, SameReads
<1> QED BY <1>1, <1>2, <1>3

\* A scope that the sweep is done with stays requested.
LEMMA SweptStays ==
  ASSUME WakeInv, [Next]_allVars, NEW d \in Callers, NEW v \in Sweeping, v = sweep[d],
         v.pc = "jobs", NEW t \in Scopes, job'[<<d, t>>] = job[<<d, t>>]
  PROVE  /\ Swept(job'[<<d, t>>], v.seen)
         /\ v.seen = Writes' /\ job'[<<d, t>>].pc = "idle" =>
              \A n \in Nat : n = now' + 1 => Requested(t, n)'
<1>1. SweepCurrent(d)
  BY DEF WakeInv
<1>2. Swept(job'[<<d, t>>], v.seen)
  BY <1>1 DEF SweepCurrent
<1>3. ASSUME v.seen = Writes', job'[<<d, t>>].pc = "idle", NEW n \in Nat, n = now' + 1
      PROVE  Requested(t, n)'
  <2>1. PipelineInv /\ now \in Nat /\ now' \in Nat /\ now <= now'
    BY TypeFacts, FactsGrow DEF WakeInv
  <2>2. now + 1 \in Nat /\ now + 1 <= n
    BY <1>3, <2>1, Order, Zenon
  <2>3. UNCHANGED facts /\ v.seen = Writes
    BY <1>3, SweepBounds
  <2>4. Requested(t, now + 1)
    BY <1>1, <1>3, <2>3 DEF SweepCurrent
  <2> QED BY <2>1, <2>2, <2>3, <2>4, RequestedKept
<1> QED BY <1>2, <1>3

\* What is to be shown of a sweep after a step, with its record at hand.
LEMMA SweepBecomes ==
  ASSUME NEW d \in Callers, NEW v, v = sweep'[d], v.at <= now', v.seen <= Writes',
         NEW n, n = now' + 1,
         v.pc = "plans" /\ v.seen = Writes' =>
           \A t \in Scopes \ v.todo : Outdated(t, v.at)',
         v.pc = "jobs" => \A t \in Scopes :
           /\ Swept(job'[<<d, t>>], v.seen)
           /\ v.seen = Writes' /\ job'[<<d, t>>].pc = "idle" => Requested(t, n)'
  PROVE  SweepCurrent(d)'
<1>1. \A t \in Scopes : Requested(t, n)' => Requested(t, now + 1)'
  BY DEF Requested
<1>2. \A t \in Scopes : Outdated(t, v.at)' => Outdated(t, sweep[d].at)'
  BY DEF Outdated
<1> QED BY <1>1, <1>2 DEF SweepCurrent, Swept

\* A sweep whose calls and listing do not move stays current.
LEMMA SweepStays ==
  ASSUME WakeInv, [Next]_allVars, NEW d \in Callers, sweep'[d] = sweep[d],
         \A t \in Scopes : job'[<<d, t>>] = job[<<d, t>>]
  PROVE  SweepCurrent(d)'
<1>0. PipelineInv /\ SweepCurrent(d)
  BY DEF WakeInv
<1>1. PICK v \in Sweeping : v = sweep[d] /\ v = sweep'[d]
  BY <1>0, TypeFacts
<1>2. PICK n \in Nat : n = now' + 1
  BY <1>0, FactsGrow
<1>3. /\ v.at <= now' /\ v.seen <= Writes'
      /\ v.seen = Writes' => UNCHANGED facts /\ v.seen = Writes /\ Writes' = Writes
  BY <1>1, SweepBounds
<1>4. ASSUME v.pc = "plans", v.seen = Writes', NEW t \in Scopes \ v.todo
      PROVE  Outdated(t, v.at)'
  BY <1>0, <1>1, <1>3, <1>4, SameReads DEF SweepCurrent
<1>5. ASSUME v.pc = "jobs", NEW t \in Scopes
      PROVE  /\ Swept(job'[<<d, t>>], v.seen)
             /\ v.seen = Writes' /\ job'[<<d, t>>].pc = "idle" => Requested(t, n)'
  BY <1>1, <1>2, <1>5, SweptStays
<1> QED BY <1>1, <1>2, <1>3, <1>4, <1>5, SweepBecomes

\* A call of a sweep goes on with what it has read, or fails, or is done with
\* its scope by a request or because there is nothing to do.
LEMMA SweptMoves ==
  ASSUME PipelineInv, NEW c \in Callers, NEW s \in Scopes, CallStep(c, s),
         NEW i \in Job, i = job[<<c, s>>], NEW j \in Job, j = job'[<<c, s>>],
         NEW seen \in Nat, seen <= Writes, Swept(i, seen)
  PROVE  /\ Swept(j, seen)
         /\ j.pc = "idle" => (Enqueue(c, s) \/ NothingToDo(c, s)) /\ seen <= i.seen
<1>1. /\ i.pc \notin {"idle", "failed"} /\ i.waits \in BOOLEAN /\ i.pc # "append"
      /\ i.pc \in Past => seen <= i.seen
  BY CallJob DEF Swept
<1>2. job \in [Callers \X Scopes -> Job]
  BY TypeFacts
<1>3. \A k : Go(c, s, k) => j = k
  BY <1>2 DEF Go
<1>4. UNCHANGED job => j = i
  OBVIOUS
<1>5. ASSUME NEW pc \in Past, j = [i EXCEPT !.pc = pc], i.pc \in Past
      PROVE  Swept(j, seen) /\ j.pc # "idle"
  <2>1. j.pc = pc /\ j.waits = i.waits /\ j.seen = i.seen
    BY <1>5 DEF Job
  <2> QED BY <1>1, <1>5, <2>1 DEF Swept, Past
<1>6. ASSUME Throw(c, s) PROVE j.pc = "failed"
  <2>1. i.waits # Null
    BY <1>1, ReconcileAssumption
  <2>2. [NoJob EXCEPT !.pc = "failed"].pc = "failed"
    BY DEF NoJob
  <2> QED BY <1>3, <1>6, <2>1, <2>2 DEF Throw
<1>7. CASE j.pc = "failed"
  BY <1>7 DEF Swept
<1>8. CASE IngestEvidence(c, s)
  BY <1>1, <1>8 DEF IngestEvidence
<1>9. CASE CallFails(c, s)
  BY <1>6, <1>7, <1>9 DEF CallFails
<1>10. CASE FailWaiting(c, s)
  <2>1. i.pc = "failing"
    BY <1>10 DEF FailWaiting
  <2> QED BY <1>3, <1>5, <1>6, <1>7, <1>10, <2>1 DEF FailWaiting, Past
<1>11. CASE ReadPlan(c, s)
  <2>1. PICK pc \in {"evidence", "expired", "waiting"} :
          Go(c, s, [i EXCEPT !.plan = LatestPlan(s), !.seen = Writes,
                             !.at = IF i.at = Null THEN now ELSE i.at, !.pc = pc])
    BY <1>1, <1>11 DEF ReadPlan
  <2>2. j = [i EXCEPT !.plan = LatestPlan(s), !.seen = Writes,
                      !.at = IF i.at = Null THEN now ELSE i.at, !.pc = pc]
    BY <1>3, <2>1
  <2>3. j.pc = pc /\ j.waits = i.waits /\ j.seen = Writes
    BY <2>2 DEF Job
  <2> QED BY <1>1, <2>1, <2>3 DEF Swept
<1>12. CASE AskWaiting(c, s) \/ CheckExpired(c, s)
  <2>1. PICK pc \in {"expired", "evidence", "failing"} : Go(c, s, [i EXCEPT !.pc = pc])
    BY <1>12 DEF AskWaiting, CheckExpired
  <2>2. i.pc \in {"waiting", "expired"}
    BY <1>12 DEF AskWaiting, CheckExpired
  <2> QED BY <1>3, <1>5, <2>1, <2>2 DEF Past
<1>13. CASE ChooseWaiting(c, s)
  <2>1. i.pc = "failing"
    BY <1>13 DEF ChooseWaiting
  <2>2. CASE j = i
    BY <1>1, <2>2
  <2>3. CASE Go(c, s, [i EXCEPT !.pc = "evidence"])
    BY <1>3, <1>5, <2>1, <2>3 DEF Past
  <2> QED BY <1>4, <1>13, <2>2, <2>3 DEF ChooseWaiting
<1>14. CASE ReadEvidence(c, s)
  <2>1. PICK sel : Go(c, s, [i EXCEPT !.pc = "enqueue", !.sel = sel])
    BY <1>14 DEF ReadEvidence
  <2>2. j.pc = "enqueue" /\ j.waits = i.waits /\ j.seen = i.seen /\ i.pc = "evidence"
    BY <1>3, <1>14, <2>1 DEF Job, ReadEvidence
  <2> QED BY <1>1, <2>2 DEF Swept, Past
<1>15. CASE Enqueue(c, s) \/ NothingToDo(c, s)
  <2>1. i.pc = "enqueue" /\ j = NoJob
    BY <1>3, <1>15 DEF Enqueue, NothingToDo
  <2> QED BY <1>1, <1>15, <2>1, NoJobReady DEF Swept, Past
<1> QED BY <1>8, <1>9, <1>10, <1>11, <1>12, <1>13, <1>14, <1>15 DEF CallStep, Reconcile

\* Any step of a call of its own keeps a sweep current.
LEMMA SweepCall ==
  ASSUME WakeInv, [Next]_allVars, NEW c \in Callers, NEW s \in Scopes, CallStep(c, s)
  PROVE  SweepCurrent(c)'
<1>0. PipelineInv /\ SweepCurrent(c)
  BY DEF WakeInv
<1>1. PICK v \in Sweeping : v = sweep[c] /\ v = sweep'[c]
  BY <1>0, TypeFacts, CallSound
<1>2. PICK m, n \in Nat : m = now + 1 /\ n = now' + 1 /\ now <= m /\ m <= n /\ now <= n
  <2>1. now \in Nat /\ now' \in Nat /\ now <= now'
    BY <1>0, TypeFacts, FactsGrow
  <2>2. now <= now + 1 /\ now + 1 <= now' + 1 /\ now <= now' + 1
    BY <2>1, Order, Zenon
  <2> QED BY <2>1, <2>2, Order
<1>3. /\ v.at <= now' /\ v.seen <= Writes'
      /\ v.seen = Writes' => UNCHANGED facts /\ v.seen = Writes /\ Writes' = Writes
  BY <1>1, SweepBounds
<1>4. v.pc # "plans"
  BY <1>0, <1>1, CallJob DEF PipelineInv, SweepsSound
<1>5. ASSUME v.pc = "jobs", NEW t \in Scopes
      PROVE  /\ Swept(job'[<<c, t>>], v.seen)
             /\ v.seen = Writes' /\ job'[<<c, t>>].pc = "idle" => Requested(t, n)'
  <2>1. CASE t # s
    <3>1. job'[<<c, t>>] = job[<<c, t>>]
      BY <1>0, <2>1, CallJob, TypeFacts DEF Go
    <3> QED BY <1>1, <1>2, <1>5, <3>1, SweptStays
  <2>2. CASE t = s
    <3>1. PICK i \in Job : i = job[<<c, s>>] /\ Current(i, s)
      BY <1>0, TypeFacts DEF WakeInv
    <3>2. PICK j \in Job : j = job'[<<c, s>>]
      BY <1>0, CallSound DEF CallsSound
    <3>3. Swept(i, v.seen) /\ v.seen \in Nat /\ v.seen <= Writes
      BY <1>0, <1>1, <1>5, <3>1 DEF SweepCurrent, Sweeping
    <3>4. /\ Swept(j, v.seen)
          /\ j.pc = "idle" => (Enqueue(c, s) \/ NothingToDo(c, s)) /\ v.seen <= i.seen
      BY <1>0, <3>1, <3>2, <3>3, SweptMoves
    <3>5. ASSUME v.seen = Writes', j.pc = "idle" PROVE Requested(s, n)'
      <4>1. /\ now \in Nat /\ now' \in Nat /\ now <= now' /\ Writes \in Nat
            /\ UNCHANGED facts /\ v.seen = Writes
        BY <1>0, <1>3, <3>5, TypeFacts, FactsGrow
      <4>2. i.seen = Writes /\ i = job[c, s]
        <5>1. i.seen <= Writes /\ i.seen \in Nat /\ v.seen <= i.seen
          BY <3>1, <3>4, <3>5 DEF Current, Job
        <5>2. i.seen = Writes
          BY <4>1, <5>1, Order, Zenon
        <5> QED BY <3>1, <5>2
      <4>4. CASE Enqueue(c, s)
        BY <1>0, <3>1, <4>2, <1>2, <4>4, EnqueueServes
      <4>5. CASE NothingToDo(c, s)
        <5>1. Requested(s, m)
          BY <1>0, <3>1, <4>2, <1>2, <4>5, NothingToDoServes
        <5> QED BY <1>0, <4>1, <1>2, <5>1, RequestedKept
      <4> QED BY <3>4, <3>5, <4>4, <4>5
    <3> QED BY <2>2, <3>2, <3>4, <3>5
  <2> QED BY <2>1, <2>2
<1> QED BY <1>1, <1>2, <1>3, <1>4, <1>5, SweepBecomes

\* A caller without a sweep has nothing to keep.
LEMMA NoSweepCurrent ==
  ASSUME WakeInv, [Next]_allVars, NEW d \in Callers, sweep'[d] = NoSweep
  PROVE  SweepCurrent(d)'
<1>0. PipelineInv /\ PipelineInv'
  BY PipelineStep DEF WakeInv
<1>1. NoSweep.at = 0 /\ NoSweep.seen = 0 /\ NoSweep.pc = "idle"
  BY DEF NoSweep
<1>2. now' \in Nat /\ Writes' \in Nat /\ (\A k \in Nat : 0 <= k) /\ now' + 1 \in Nat
  BY <1>0, TypeFacts, FactsGrow, SameReads
<1> QED BY <1>1, <1>2, SweepBecomes

\* A scope is left out by the sweep for good reason: it has no plan, and no
\* evidence that is not expired.
LEMMA LeftOut ==
  ASSUME PipelineInv, NEW s \in Scopes, NEW t \in Nat, NEW u \in Nat, t < u,
         Outdated(s, t), LatestPlan(s) = Null
  PROVE  Requested(s, u)
<1>0. \A i \in DOMAIN evidence : evidence[i] \in Receipt
  BY TypeFacts DEF FactsTypeOK
<1>1. \A i \in DOMAIN evidence : evidence[i].bundle \in Bundles
  BY <1>0 DEF Receipt
<1>2. \A b \in Latest(s, Null) : b \in Bundles /\ b.expires <= t
  BY <1>1 DEF Latest, Outdated
<1>3. PICK found : found = Latest(s, Null)
  OBVIOUS
<1>4. ASSUME NEW b \in found PROVE Lifecycle(b, u) = "EXPIRED"
  <2>1. b \in Bundles /\ b.expires <= t
    BY <1>2, <1>3
  <2>2. b.fresh \in Nat /\ b.expires \in Nat /\ b.fresh <= b.expires
    BY <2>1, FactsAssumption
  <2>3. ~ (u <= b.fresh) /\ ~ (u <= b.expires)
    BY <2>1, <2>2
  <2> QED BY <2>3 DEF Lifecycle
<1>5. AllExpired(Latest(s, Null), u)
  BY <1>3, <1>4 DEF AllExpired
<1> QED BY <1>5 DEF Requested

\* What a sweep lists, it lists of the facts as they are.
LEMMA SweepLists ==
  ASSUME WakeInv, [Next]_allVars, NEW c \in Callers,
         ListWaiting(c) \/ ListWaitingForPlan(c) \/ ListEligible(c)
  PROVE  SweepCurrent(c)'
<1>0. PipelineInv /\ PipelineInv' /\ SweepCurrent(c)
  BY PipelineStep DEF WakeInv
<1>1. /\ sweep \in [Callers -> Sweeping] /\ now \in Nat /\ Writes \in Nat /\ now <= now
      /\ Writes <= Writes
  BY <1>0, TypeFacts, Order
<1>2. UNCHANGED facts /\ now' = now /\ Writes' = Writes
  BY SameReads DEF ListWaiting, ListWaitingForPlan, ListEligible, queueVars
<1>3. PICK w \in Sweeping : w = sweep[c] /\ w.at <= now /\ w.seen <= Writes
  BY <1>0, <1>1 DEF SweepCurrent
<1>4. PICK v \in Sweeping : v = sweep'[c]
  BY PipelineStep DEF WakeInv, PipelineInv, TypeOK, ReconcileTypeOK
<1>5. PICK n : n = now' + 1
  OBVIOUS
<1>6. CASE ListWaiting(c)
  <2>1. v = [NoSweep EXCEPT !.pc = "forPlan", !.at = now,
                            !.todo = WaitingScopes(Queue!Waiting), !.seen = Writes]
    BY <1>1, <1>4, <1>6 DEF ListWaiting
  <2>2. v.pc = "forPlan" /\ v.at = now /\ v.seen = Writes
    BY <2>1 DEF NoSweep
  <2> QED BY <1>1, <1>2, <1>4, <1>5, <2>2, SweepBecomes
<1>7. CASE ListWaitingForPlan(c)
  <2>1. v = [w EXCEPT !.pc = "eligible", !.forPlan = WaitingScopes({"waiting_for_plan"})]
    BY <1>1, <1>3, <1>4, <1>7 DEF ListWaitingForPlan
  <2>2. v.pc = "eligible" /\ v.at = w.at /\ v.seen = w.seen
    BY <2>1 DEF Sweeping
  <2> QED BY <1>2, <1>3, <1>4, <1>5, <2>2, SweepBecomes
<1>8. CASE ListEligible(c)
  <2>1. v = [w EXCEPT !.pc = "plans", !.todo = @ \cup Eligible(w.at)]
    BY <1>1, <1>3, <1>4, <1>8 DEF ListEligible
  <2>2. v.pc = "plans" /\ v.at = w.at /\ v.seen = w.seen /\ v.todo = w.todo \cup Eligible(w.at)
    BY <2>1 DEF Sweeping
  <2>3. ASSUME NEW t \in Scopes \ v.todo PROVE Outdated(t, v.at)'
    <3>1. t \notin Eligible(v.at)
      BY <2>2, <2>3
    <3>2. \A i \in DOMAIN evidence : evidence[i].bundle.scope = t => ~ (evidence[i].bundle.expires > v.at)
      BY <3>1 DEF Eligible
    <3>3. \A i \in DOMAIN evidence : evidence[i].bundle \in Bundles
      <4>1. \A i \in DOMAIN evidence : evidence[i] \in Receipt
        BY <1>0, TypeFacts DEF FactsTypeOK
      <4> QED BY <4>1 DEF Receipt
    <3>4. \A i \in DOMAIN evidence : evidence[i].bundle.expires \in Nat
      BY <3>3, FactsAssumption
    <3>5. v.at \in Nat
      BY DEF Sweeping
    <3>6. Outdated(t, v.at)
      BY <3>2, <3>4, <3>5 DEF Outdated
    <3> QED BY <1>2, <3>6, SameReads
  <2> QED BY <1>2, <1>3, <1>4, <1>5, <2>2, <2>3, SweepBecomes
<1> QED BY <1>6, <1>7, <1>8

\* When the calls of a sweep are made, each scope has one or needs none.
LEMMA SweepPlans ==
  ASSUME WakeInv, [Next]_allVars, NEW c \in Callers, ListPlans(c)
  PROVE  SweepCurrent(c)'
<1>0. PipelineInv /\ SweepCurrent(c)
  BY DEF WakeInv
<1>1. /\ sweep \in [Callers -> Sweeping] /\ job \in [Callers \X Scopes -> Job]
      /\ now \in Nat /\ Writes \in Nat /\ now <= now
  BY <1>0, TypeFacts, Order
<1>2. UNCHANGED facts /\ now' = now /\ Writes' = Writes
  BY SameReads DEF ListPlans, queueVars
<1>3. PICK w \in Sweeping : w = sweep[c] /\ w.at <= now /\ w.seen <= Writes /\ w.pc = "plans"
  BY <1>0, <1>1 DEF SweepCurrent, ListPlans
<1>4. PICK v : v = [w EXCEPT !.pc = "jobs"]
  OBVIOUS
<1>5. v = sweep'[c] /\ v.pc = "jobs" /\ v.at = w.at /\ v.seen = w.seen
  BY <1>1, <1>3, <1>4 DEF ListPlans, Sweeping
<1>6. PICK n : n = now' + 1
  OBVIOUS
<1> DEFINE todo == w.todo \cup {t \in Scopes : LatestPlan(t) # Null}
           start(t) == [NoJob EXCEPT !.pc = "plan", !.at = w.at, !.waits = t \in w.forPlan]
<1>7. \A t \in Scopes : job'[<<c, t>>] = IF t \in todo THEN start(t) ELSE NoJob
  BY <1>3 DEF ListPlans
<1>8. \A t \in Scopes : start(t).pc = "plan" /\ start(t).waits \in BOOLEAN
  <2>1. \A b \in BOOLEAN : LET j == [NoJob EXCEPT !.pc = "plan", !.at = w.at, !.waits = b]
                           IN j.pc = "plan" /\ j.waits \in BOOLEAN
    BY DEF NoJob
  <2> QED BY <2>1, IsBoolean, Zenon
<1> HIDE DEF start
<1>9. ASSUME NEW t \in Scopes
      PROVE  /\ Swept(job'[<<c, t>>], v.seen)
             /\ v.seen = Writes' /\ job'[<<c, t>>].pc = "idle" => Requested(t, n)'
  <2>1. CASE t \in todo
    BY <1>7, <1>8, <2>1 DEF Swept, Past
  <2>2. CASE t \notin todo
    <3>1. job'[<<c, t>>].pc = "idle"
      BY <1>7, <2>2, NoJobReady
    <3>2. ASSUME v.seen = Writes' PROVE Requested(t, n)'
      <4>1. Outdated(t, w.at)
        BY <1>0, <1>2, <1>3, <1>5, <2>2, <3>2 DEF SweepCurrent
      <4>2. LatestPlan(t) = Null
        BY <2>2
      <4>3. w.at \in Nat /\ now + 1 \in Nat /\ w.at < now + 1 /\ now + 1 <= now + 1
        BY <1>1, <1>3 DEF Sweeping
      <4>4. Requested(t, now + 1)
        BY <1>0, <4>1, <4>2, <4>3, LeftOut
      <4> QED BY <1>0, <1>2, <1>6, <4>3, <4>4, RequestedKept
    <3> QED BY <3>1, <3>2 DEF Swept
  <2> QED BY <2>1, <2>2
<1> QED BY <1>2, <1>3, <1>5, <1>6, <1>9, SweepBecomes
\* Every sweep stays current, whoever takes the step.
LEMMA AllSweeps ==
  ASSUME WakeInv, [Next]_allVars, NEW d \in Callers
  PROVE  SweepCurrent(d)'
<1>0. PipelineInv /\ job \in [Callers \X Scopes -> Job] /\ sweep \in [Callers -> Sweeping]
  BY TypeFacts DEF WakeInv
<1>1. ASSUME NEW c \in Callers, NEW s \in Scopes, CallStep(c, s) PROVE SweepCurrent(d)'
  <2>1. CASE c = d
    BY <1>1, <2>1, SweepCall
  <2>2. CASE c # d
    <3>1. UNCHANGED sweep /\ \A t \in Scopes : job'[<<d, t>>] = job[<<d, t>>]
      BY <1>0, <1>1, <2>2, CallSound, CallJob DEF Go
    <3> QED BY <3>1, SweepStays
  <2> QED BY <2>1, <2>2
<1>2. ASSUME NEW c \in Callers, SweepStep(c) PROVE SweepCurrent(d)'
  <2>1. CASE c # d
    <3>1. sweep'[d] = sweep[d] /\ \A t \in Scopes : job'[<<d, t>>] = job[<<d, t>>]
      <4>1. CASE Start(c)
        BY <1>0, <2>1, <4>1 DEF Start, ReceiveEvidence, GeneratePlan, WakeScope, Go
      <4>2. CASE ListPlans(c)
        BY <1>0, <2>1, <4>2 DEF ListPlans
      <4> QED BY <1>0, <1>2, <2>1, <4>1, <4>2
              DEF SweepStep, ListWaiting, Sweep, ListWaitingForPlan, ListEligible, EndSweep,
                  SweepFails
    <3> QED BY <3>1, SweepStays
  <2>2. CASE c = d
    <3>1. CASE Start(d) \/ EndSweep(d) \/ SweepFails(d)
      <4>1. sweep'[d] = NoSweep
        BY <1>0, <3>1 DEF Start, ReceiveEvidence, GeneratePlan, WakeScope, Idle, EndSweep,
                          SweepFails
      <4> QED BY <4>1, NoSweepCurrent
    <3> QED BY <1>2, <2>2, <3>1, SweepLists, SweepPlans DEF SweepStep, Sweep
  <2> QED BY <2>1, <2>2
<1>3. ASSUME NEW w \in Workers, WorkerStep(w) PROVE SweepCurrent(d)'
  <2>0. w \in Callers
    BY SynthesisAssumption
  <2>1. CASE Boot(w)
    <3>1. CASE w = d
      BY <2>1, <3>1, SweepLists DEF Boot
    <3>2. CASE w # d
      <4>1. sweep'[d] = sweep[d] /\ \A t \in Scopes : job'[<<d, t>>] = job[<<d, t>>]
        BY <1>0, <2>1, <3>2 DEF Boot, ListWaiting
      <4> QED BY <4>1, SweepStays
    <3> QED BY <3>1, <3>2
  <2>2. CASE Crash(w)
    <3>1. CASE w = d
      <4>1. sweep'[d] = NoSweep
        BY <1>0, <2>2, <3>1 DEF Crash
      <4> QED BY <4>1, NoSweepCurrent
    <3>2. CASE w # d
      <4>1. sweep'[d] = sweep[d] /\ \A t \in Scopes : job'[<<d, t>>] = job[<<d, t>>]
        BY <1>0, <2>2, <3>2 DEF Crash
      <4> QED BY <4>1, SweepStays
    <3> QED BY <3>1, <3>2
  <2>3. CASE UNCHANGED <<job, sweep>>
    BY <2>3, SweepStays
  <2> QED BY <1>3, <2>1, <2>2, <2>3
          DEF WorkerStep, Cycle, BeginPolling, Poll, Claim, CheckPlan, ReadMarket,
              SelectEvidence, InsertInsight, Reject, Record, CycleFails, reconcileVars
<1>4. CASE WorldStep \/ UNCHANGED allVars
  <2>1. UNCHANGED <<job, sweep>>
    BY <1>4 DEF WorldStep, MarketMoves, reconcileVars, allVars, vars
  <2> QED BY <2>1, SweepStays
<1> QED BY <1>1, <1>2, <1>3, <1>4, NextCases

\* Before the first write nothing is called for.
LEMMA WakeInit == Init => WakeInv
<1> SUFFICES ASSUME Init PROVE WakeInv
  OBVIOUS
<1>0. PipelineInv
  BY PipelineInit
<1>1. evidence = <<>> /\ plans = <<>> /\ now = 0
  BY DEF Init, ReconcileInit, Queue!Init, FactsInit
<1>2. /\ \A c \in Callers : sweep[c] = NoSweep
      /\ \A s \in Scopes : settled[s] = 0
  BY DEF Init, ReconcileInit
<1>3. \A c \in Callers, s \in Scopes : job[c, s] = NoJob
  BY DEF Init, ReconcileInit
<1>4. Writes = 0
  <2>1. Len(<<>>) = 0
    OBVIOUS
  <2> QED BY <1>1, <2>1 DEF Writes
<1>5. \A s \in Scopes : Requested(s, now)
  <2>1. DOMAIN evidence = {} /\ DOMAIN plans = {}
    BY <1>1
  <2>2. \A s \in Scopes : LatestPlan(s) = Null
    BY <2>1, LatestPlanNull
  <2>3. \A s \in Scopes : \A b \in Latest(s, Null) : FALSE
    BY <2>1 DEF Latest
  <2> QED BY <2>2, <2>3 DEF Requested, AllExpired
<1>6. \A s \in Scopes : Current(NoJob, s)
  BY <1>0, NoJobCurrent
<1>7. \A c \in Callers : SweepCurrent(c)
  <2>1. NoSweep.at = 0 /\ NoSweep.seen = 0 /\ NoSweep.pc = "idle"
    BY DEF NoSweep
  <2>2. \A c \in Callers : /\ sweep[c].at = 0 /\ sweep[c].seen = 0
                           /\ sweep[c].pc = "idle"
    BY <1>2, <2>1
  <2> QED BY <1>1, <1>4, <2>2, Order DEF SweepCurrent
<1>8. NoLostWakeup /\ \A s \in Scopes : settled[s] <= Writes
  <2>1. \A s \in Scopes : settled[s] <= Writes
    BY <1>2, <1>4
  <2> QED BY <1>5, <2>1 DEF NoLostWakeup
<1> QED BY <1>0, <1>3, <1>6, <1>7, <1>8 DEF WakeInv

\* Every step of the pipeline keeps calls and sweeps current.
LEMMA WakeStep == ASSUME WakeInv, [Next]_allVars PROVE WakeInv'
<1>1. PipelineInv'
  BY PipelineStep DEF WakeInv
<1>2. \A s \in Scopes : settled'[s] <= Writes' /\ (settled'[s] = Writes' => Requested(s, now)')
  BY SettledStep
<1>3. NoLostWakeup'
  BY <1>2 DEF NoLostWakeup
<1>4. \A c \in Callers, s \in Scopes : \A j \in {job'[<<c, s>>]} : Current(j, s)'
  BY AllCurrent
<1>5. \A c \in Callers : SweepCurrent(c)'
  BY AllSweeps
<1> QED BY <1>1, <1>2, <1>3, <1>4, <1>5 DEF WakeInv

\* Once a reconciliation that began after the last write has finished, the
\* queue has the request its scope's facts call for, and keeps it: whatever
\* the order of arrivals, replays and failures, no wake-up is lost.
THEOREM WakeupsKept == Spec => []NoLostWakeup
<1>1. WakeInv => NoLostWakeup
  BY DEF WakeInv
<1> QED BY <1>1, WakeInit, WakeStep, PTL DEF Spec

\* A sweep that began after the last write and none of whose calls threw has
\* left every scope requested, those without a call of their own included.
THEOREM SweepsRepair == Spec => SweepRepairs
<1>1. ASSUME WakeInv, NEW c \in Callers, EndSweep(c), sweep[c].seen = Writes,
             \A s \in Scopes : job[c, s].pc = "idle", NEW s \in Scopes
      PROVE  Requested(s, now + 1)
  <2>1. sweep[c].pc = "jobs"
    BY <1>1 DEF EndSweep, SweepOver
  <2> QED BY <1>1, <2>1 DEF WakeInv, SweepCurrent
<1>2. WakeInv => \A c \in Callers :
        /\ EndSweep(c) /\ sweep[c].seen = Writes
        /\ \A s \in Scopes : job[c, s].pc = "idle"
        => \A s \in Scopes : Requested(s, now + 1)
  BY <1>1
<1> QED BY <1>2, WakeInit, WakeStep, PTL DEF Spec, SweepRepairs
=============================================================================
