---------------------------- MODULE Reconciliation ----------------------------
(***************************************************************************)
(* requestPositionPolicyInsightSynthesisUseCase and its callers.  A caller *)
(* is a request being served (evidence, plan, or the internal trigger) or  *)
(* a worker at startup; it stores what it was given and then reconciles a  *)
(* scope, or sweeps every scope there is work for.  Each await of the code *)
(* ends a step, so the facts and the queue may change between any two.     *)
(***************************************************************************)
EXTENDS PositionFacts

CONSTANTS
  Callers, Scopes, Ruleset,
  LeaseMs, RetryMs, MaxAttempts, MaxTime  \* of the queue

VARIABLES
  rows, lastId, snapshot, now,  \* of the queue
  job,     \* caller and scope -> the call of reconcileSingle
  sweep,   \* caller -> the call of reconcileStartup
  settled  \* scope -> writes that had happened when a finished call began (history)

\* Each call has a database connection of its own; a worker claims with another.
Session(c, s) == <<c, s>>
Sessions      == (Callers \X Scopes) \cup Callers

ASSUME ReconcileAssumption ==
  /\ \A x \in Bundles \cup Plans : x.scope \in Scopes
  /\ Null \notin Nat \cup BOOLEAN \cup Sessions /\ (Callers \X Scopes) \cap Callers = {}
  /\ LeaseMs \in Nat \ {0} /\ RetryMs \in Nat /\ MaxAttempts \in Nat \ {0}
  /\ MaxTime \in Nat

Queue == INSTANCE RequestQueue WITH Selections <- Hashes, Plans <- PlanHashes,
                                    Rulesets <- {Ruleset}, Overlap <- TRUE

queueVars     == <<rows, lastId, snapshot, now>>
reconcileVars == <<queueVars, facts, job, sweep, settled>>

NoJob   == [pc |-> "idle", post |-> Null, at |-> Null, waits |-> Null,
            plan |-> Null, sel |-> Null, seen |-> 0]
NoSweep == [pc |-> "idle", at |-> 0, todo |-> {}, forPlan |-> {}, seen |-> 0]

JobPcs == {"idle", "failed", "append", "plan", "waiting", "expired", "failing",
           "evidence", "enqueue"}

Job == [pc : JobPcs, post : Bundles \cup {Null}, at : Nat \cup {Null},
        waits : BOOLEAN \cup {Null}, plan : Plans \cup {Null},
        sel : Hashes \cup {Null}, seen : Nat]

Sweeping == [pc : {"idle", "forPlan", "eligible", "plans", "jobs"}, at : Nat,
             todo : SUBSET Scopes, forPlan : SUBSET Scopes, seen : Nat]

ReconcileTypeOK ==
  /\ FactsTypeOK
  /\ Queue!TypeOK
  /\ job \in [Callers \X Scopes -> Job]
  /\ sweep \in [Callers -> Sweeping]
  /\ settled \in [Scopes -> Nat]

ReconcileInit ==
  /\ Queue!Init /\ FactsInit
  /\ job = [x \in Callers \X Scopes |-> NoJob]
  /\ sweep = [c \in Callers |-> NoSweep]
  /\ settled = [s \in Scopes |-> 0]

Writes == Len(evidence) + Len(plans)

Idle(c) ==
  /\ sweep[c] = NoSweep
  /\ \A s \in Scopes : job[c, s].pc \in {"idle", "failed"}

Go(c, s, j) == job' = [job EXCEPT ![<<c, s>>] = j]

\* An error ends the call; a sweep remembers it.
Throw(c, s) ==
  Go(c, s, IF job[c, s].waits = Null THEN NoJob ELSE [NoJob EXCEPT !.pc = "failed"])

-----------------------------------------------------------------------------
(* What starts a reconciliation                                            *)

\* POST evidence: the time of receipt is taken before the bundle is stored.
ReceiveEvidence(c, b) ==
  /\ Idle(c)
  /\ Go(c, b.scope, [NoJob EXCEPT !.pc = "append", !.post = b, !.at = now])
  /\ UNCHANGED <<facts, queueVars, sweep, settled>>

\* A new bundle and a replayed one both wake the scope; a conflict does not.
IngestEvidence(c, s) ==
  LET j == job[c, s]
  IN /\ j.pc = "append"
     /\ \/ /\ AppendBundle(j.post, j.at)
           /\ Go(c, s, [NoJob EXCEPT !.pc = "plan"])
        \/ /\ Conflict(j.post) /\ UNCHANGED facts
           /\ Throw(c, s)
     /\ UNCHANGED <<queueVars, sweep, settled>>

\* POST plan: the plan is written, then its scope is woken.
GeneratePlan(c, p) ==
  /\ Idle(c)
  /\ WritePlan(p)
  /\ Go(c, p.scope, [NoJob EXCEPT !.pc = "plan"])
  /\ UNCHANGED <<queueVars, sweep, settled>>

\* The internal trigger with mode "scope".
WakeScope(c, s) ==
  /\ Idle(c)
  /\ Go(c, s, [NoJob EXCEPT !.pc = "plan"])
  /\ UNCHANGED <<facts, queueVars, sweep, settled>>

-----------------------------------------------------------------------------
(* reconcileStartup: the internal trigger with mode "eligible", and every  *)
(* worker before it polls.  One instant is used for all the scopes, which  *)
(* of them wait for a plan is asked once, and the work is listed by four   *)
(* reads, one after the other.                                             *)

WaitingScopes(statuses) ==
  {s \in Scopes : \E i \in DOMAIN rows : rows[i].scope = s /\ rows[i].status \in statuses}

ListWaiting(c) ==
  /\ Idle(c)
  /\ sweep' = [sweep EXCEPT ![c] = [NoSweep EXCEPT !.pc = "forPlan", !.at = now,
                                      !.todo = WaitingScopes(Queue!Waiting),
                                      !.seen = Writes]]
  /\ UNCHANGED <<facts, queueVars, job, settled>>

ListWaitingForPlan(c) ==
  /\ sweep[c].pc = "forPlan"
  /\ sweep' = [sweep EXCEPT ![c].pc = "eligible",
                            ![c].forPlan = WaitingScopes({"waiting_for_plan"})]
  /\ UNCHANGED <<facts, queueVars, job, settled>>

\* Mutant: stale evidence is passed over.
EligibleFresh(t) ==
  {s \in Scopes : \E i \in DOMAIN evidence :
                     evidence[i].bundle.scope = s /\ evidence[i].bundle.fresh > t}

Eligible(t) ==
  {s \in Scopes : \E i \in DOMAIN evidence :
                     evidence[i].bundle.scope = s /\ evidence[i].bundle.expires > t}

ListEligible(c) ==
  /\ sweep[c].pc = "eligible"
  /\ sweep' = [sweep EXCEPT ![c].pc = "plans", ![c].todo = @ \cup Eligible(sweep[c].at)]
  /\ UNCHANGED <<facts, queueVars, job, settled>>

ListPlans(c) ==
  LET w     == sweep[c]
      todo  == w.todo \cup {s \in Scopes : LatestPlan(s) # Null}
      start(s) == [NoJob EXCEPT !.pc = "plan", !.at = w.at, !.waits = s \in w.forPlan]
  IN /\ w.pc = "plans"
     /\ job' = [x \in Callers \X Scopes |->
                  CASE x[1] # c -> job[x]
                    [] x[1] = c -> IF x[2] \in todo THEN start(x[2]) ELSE NoJob]
     /\ sweep' = [sweep EXCEPT ![c].pc = "jobs"]
     /\ UNCHANGED <<facts, queueVars, settled>>

\* The sweep ends with its last call, or with the first that throws.
SweepOver(c) ==
  /\ sweep[c].pc = "jobs"
  /\ \/ \A s \in Scopes : job[c, s].pc \in {"idle", "failed"}
     \/ \E s \in Scopes : job[c, s].pc = "failed"

EndSweep(c) ==
  /\ SweepOver(c)
  /\ sweep' = [sweep EXCEPT ![c] = NoSweep]
  /\ UNCHANGED <<facts, queueVars, job, settled>>

\* One of the reads fails before any call is made.
SweepFails(c) ==
  /\ sweep[c].pc \in {"forPlan", "eligible", "plans"}
  /\ sweep' = [sweep EXCEPT ![c] = NoSweep]
  /\ UNCHANGED <<facts, queueVars, job, settled>>

-----------------------------------------------------------------------------
(* reconcileSingle                                                         *)

ReadPlan(c, s) ==
  LET j == job[c, s] p == LatestPlan(s)
  IN /\ j.pc = "plan"
     /\ Go(c, s, [j EXCEPT !.plan = p, !.seen = Writes,
                           !.at = IF j.at = Null THEN now ELSE j.at,
                           !.pc = CASE p = Null \/ j.waits = FALSE -> "evidence"
                                    [] p # Null /\ j.waits = TRUE  -> "expired"
                                    [] p # Null /\ j.waits = Null  -> "waiting"])
     /\ UNCHANGED <<facts, queueVars, sweep, settled>>

AskWaiting(c, s) ==
  /\ job[c, s].pc = "waiting"
  /\ Go(c, s, [job[c, s] EXCEPT !.pc = IF s \in WaitingScopes({"waiting_for_plan"})
                                       THEN "expired" ELSE "evidence"])
  /\ UNCHANGED <<facts, queueVars, sweep, settled>>

\* Every source's newest bundle is expired, or there is none: whatever waits
\* for a plan is to be failed.
CheckExpired(c, s) ==
  LET j == job[c, s]
  IN /\ j.pc = "expired"
     /\ Go(c, s, [j EXCEPT !.pc = IF AllExpired(Latest(s, Null), j.at)
                                  THEN "failing" ELSE "evidence"])
     /\ UNCHANGED <<facts, queueVars, sweep, settled>>

\* failWaitingForPlan finds its row, or finds none.
ChooseWaiting(c, s) ==
  /\ job[c, s].pc = "failing"
  /\ \/ Queue!FailWaitingSnapshot(Session(c, s), s, Ruleset, Null) /\ UNCHANGED job
     \/ /\ s \notin WaitingScopes({"waiting_for_plan"}) /\ UNCHANGED queueVars
        /\ snapshot[Session(c, s)] = Queue!NoStatement
        /\ Go(c, s, [job[c, s] EXCEPT !.pc = "evidence"])
  /\ UNCHANGED <<facts, sweep, settled>>

\* It throws when the database refuses the update.
FailWaiting(c, s) ==
  /\ job[c, s].pc = "failing"
  /\ Queue!FailWaitingLock(Session(c, s))
  /\ IF Queue!CheckRefuses(Session(c, s)) THEN Throw(c, s)
     ELSE Go(c, s, [job[c, s] EXCEPT !.pc = "evidence"])
  /\ UNCHANGED <<facts, sweep, settled>>

\* Mutant: the newest bundles are taken, however far from the plan.
ReadAnyEvidence(c, s) ==
  LET j == job[c, s] found == Latest(s, Null)
  IN /\ j.pc = "evidence"
     /\ Go(c, s, [j EXCEPT !.pc = "enqueue",
                           !.sel = IF AllExpired(found, j.at) THEN Null
                                   ELSE Selection(found, j.at)])
     /\ UNCHANGED <<facts, queueVars, sweep, settled>>

\* A selection needs a bundle near the plan that is not expired.
ReadEvidence(c, s) ==
  LET j == job[c, s] found == Latest(s, j.plan)
  IN /\ j.pc = "evidence"
     /\ Go(c, s, [j EXCEPT !.pc = "enqueue",
                           !.sel = IF AllExpired(found, j.at) THEN Null
                                   ELSE Selection(found, j.at)])
     /\ UNCHANGED <<facts, queueVars, sweep, settled>>

\* Mutant: a request is inserted without a look at those that are there.
EnqueueBlindly(c, s) ==
  LET j == job[c, s]
  IN /\ j.pc = "enqueue" /\ j.sel # Null /\ j.plan # Null
     /\ Queue!Insert(Queue!NewRow(s, Ruleset, j.sel, j.plan.hash, "pending"))
     /\ Go(c, s, NoJob)
     /\ UNCHANGED <<facts, snapshot, now, sweep, settled>>

Enqueue(c, s) ==
  LET j == job[c, s] hash == IF j.plan = Null THEN Null ELSE j.plan.hash
  IN /\ j.pc = "enqueue"
     /\ Queue!EnqueueOrReconcile(s, Ruleset, j.sel, hash)
     /\ Go(c, s, NoJob)
     /\ settled' = [settled EXCEPT ![s] = IF j.seen > @ THEN j.seen ELSE @]
     /\ UNCHANGED <<facts, sweep>>

\* Neither half: a sweep passes over the scope, a single call throws.
NothingToDo(c, s) ==
  /\ job[c, s].pc = "enqueue" /\ job[c, s].sel = Null /\ job[c, s].plan = Null
  /\ Go(c, s, NoJob)
  /\ UNCHANGED <<facts, queueVars, sweep, settled>>

\* A store is unavailable: the call throws, and with it the sweep.
CallFails(c, s) ==
  /\ job[c, s].pc \notin {"idle", "failed"}
  /\ Throw(c, s)
  /\ \/ Queue!Abandon(Session(c, s))
     \/ snapshot[Session(c, s)] = Queue!NoStatement /\ UNCHANGED queueVars
  /\ UNCHANGED <<facts, sweep, settled>>

Start(c) ==
  \/ \E b \in Bundles : ReceiveEvidence(c, b)
  \/ \E p \in Plans : GeneratePlan(c, p)
  \/ \E s \in Scopes : WakeScope(c, s)

Reconcile(c, s) ==
  \/ IngestEvidence(c, s) \/ ReadPlan(c, s) \/ AskWaiting(c, s) \/ CheckExpired(c, s)
  \/ ChooseWaiting(c, s) \/ FailWaiting(c, s) \/ ReadEvidence(c, s)
  \/ Enqueue(c, s) \/ NothingToDo(c, s)

Sweep(c) == ListWaitingForPlan(c) \/ ListEligible(c) \/ ListPlans(c) \/ EndSweep(c)
=============================================================================
