---------------------------- MODULE SynthesisCycle ----------------------------
(***************************************************************************)
(* The position synthesizer: a worker process that sweeps once, then       *)
(* claims one request at a time, synthesizes its insight from the facts of *)
(* the moment and records the outcome.  A worker's lease owner is a UUID   *)
(* of its own, so a process that dies never comes back under its name.     *)
(***************************************************************************)
EXTENDS Reconciliation

CONSTANTS
  Workers,  \* worker processes, each run once
  MaxAge    \* ruleset.positionMaxAgeMs

VARIABLES
  work,     \* worker -> where it is in its cycle, and what it has read
  market,   \* version of the market regime
  insights  \* the policy insights stored, by what their input hash covers

cycleVars == <<work, market, insights>>
vars      == <<reconcileVars, cycleVars>>

Insight == [scope : Scopes, sel : Hashes, plan : PlanHashes, market : Nat]

Asleep == [pc |-> "off", id |-> 0, plan |-> Null, at |-> 0, market |-> 0, sel |-> Null,
           verdict |-> "none"]

WorkPcs == {"off", "sweep", "poll", "claiming", "plan", "market", "evidence", "insert",
            "supersede", "fail", "complete", "recover", "dead"}

Work == [pc : WorkPcs, id : Nat, plan : Plans \cup {Null}, at : Nat, market : Nat,
         sel : Hashes \cup {Null}, verdict : {"none", "superseded", "failed", "retry"}]

CycleTypeOK ==
  /\ work \in [Workers -> Work]
  /\ market \in Nat
  /\ insights \subseteq Insight

CycleInit ==
  /\ work = [w \in Workers |-> Asleep]
  /\ market = 0
  /\ insights = {}

Become(w, pc)    == work' = [work EXCEPT ![w].pc = pc]
Rest(w)          == work' = [work EXCEPT ![w] = [Asleep EXCEPT !.pc = "poll"]]
Catch(w, verdict) == work' = [work EXCEPT ![w].pc = "recover", ![w].verdict = verdict]

\* The request w has claimed, as the claim returned it: hashes never change.
Request(w) == rows[work[w].id]

-----------------------------------------------------------------------------
(* A worker's life                                                         *)

Boot(w) ==
  /\ work[w].pc = "off"
  /\ ListWaiting(w)
  /\ Become(w, "sweep")
  /\ UNCHANGED <<market, insights>>

\* The sweep's error is logged and polling begins all the same.
BeginPolling(w) ==
  /\ work[w].pc = "sweep" /\ sweep[w].pc = "idle"
  /\ Rest(w)
  /\ UNCHANGED <<reconcileVars, market, insights>>

\* Nothing of the process is left but its lease.
Crash(w) ==
  /\ work[w].pc \notin {"off", "dead"}
  /\ \A s \in Scopes : snapshot[Session(w, s)] = Queue!NoStatement
  /\ \/ Queue!Abandon(w)
     \/ snapshot[w] = Queue!NoStatement /\ UNCHANGED queueVars
  /\ work' = [work EXCEPT ![w] = [Asleep EXCEPT !.pc = "dead"]]
  /\ job' = [x \in Callers \X Scopes |-> IF x[1] = w THEN NoJob ELSE job[x]]
  /\ sweep' = [sweep EXCEPT ![w] = NoSweep]
  /\ UNCHANGED <<facts, settled, market, insights>>

-----------------------------------------------------------------------------
(* runPositionPolicyInsightSynthesisCycle                                  *)

Poll(w) ==
  /\ work[w].pc = "poll"
  /\ Queue!ClaimSnapshot(w)
  /\ Become(w, "claiming")
  /\ UNCHANGED <<facts, job, sweep, settled, market, insights>>

Claim(w) ==
  /\ work[w].pc = "claiming"
  /\ Queue!ClaimLock(w)
  /\ LET claimed == {i \in DOMAIN rows : rows'[i].attempts > rows[i].attempts}
     IN \/ claimed = {} /\ Rest(w)
        \/ \E i \in claimed : work' = [work EXCEPT ![w].pc = "plan", ![w].id = i]
  /\ UNCHANGED <<facts, job, sweep, settled, market, insights>>

\* The plan must still be the latest of its scope, and its position recent.
CheckPlan(w) ==
  LET scope  == Request(w).scope
      latest == LatestPlan(scope)
      stored == PlanByHash(scope, Request(w).plan)
      newer  == latest # Null /\ latest.hash # Request(w).plan
  IN /\ work[w].pc = "plan"
     /\ \/ newer /\ Become(w, "supersede")
        \/ ~newer /\ stored = Null /\ Become(w, "fail")
        \/ /\ ~newer /\ stored # Null
           /\ IF now - stored.observed > MaxAge \/ stored.observed > now
              THEN Catch(w, "failed")
              ELSE work' = [work EXCEPT ![w].pc = "market", ![w].plan = stored, ![w].at = now]
     /\ UNCHANGED <<reconcileVars, market, insights>>

ReadMarket(w) ==
  /\ work[w].pc = "market"
  /\ work' = [work EXCEPT ![w].pc = "evidence", ![w].market = market]
  /\ UNCHANGED <<reconcileVars, market, insights>>

\* Mutant: what the evidence selects now is used, whatever the request says.
SelectAnyEvidence(w) ==
  LET selected == Selection(Latest(Request(w).scope, work[w].plan), work[w].at)
  IN /\ work[w].pc = "evidence"
     /\ work' = [work EXCEPT ![w].pc = "insert", ![w].sel = selected]
     /\ UNCHANGED <<reconcileVars, market, insights>>

\* The evidence must still select as it did when the request was made.
SelectEvidence(w) ==
  LET selected == Selection(Latest(Request(w).scope, work[w].plan), work[w].at)
  IN /\ work[w].pc = "evidence"
     /\ IF selected = Request(w).sel
        THEN work' = [work EXCEPT ![w].pc = "insert", ![w].sel = selected]
        ELSE Catch(w, "superseded")
     /\ UNCHANGED <<reconcileVars, market, insights>>

\* insertOrGet: the same inputs again give the insight that is there.  (The
\* S/R theses, read before it, are one more version in the input's hash.)
InsertInsight(w) ==
  /\ work[w].pc = "insert"
  /\ insights' = insights \cup {[scope |-> work[w].plan.scope, sel |-> work[w].sel,
                                 plan |-> work[w].plan.hash, market |-> work[w].market]}
  /\ Become(w, "complete")
  /\ UNCHANGED <<reconcileVars, market>>

\* The plan is of a pool that is not the worker's, or the output of the
\* reducer fails its schema.
Reject(w) ==
  /\ work[w].pc \in {"market", "insert"}
  /\ Catch(w, "failed")
  /\ UNCHANGED <<reconcileVars, market, insights>>

\* Whether the row was still this worker's or not, it polls again.
Record(w) ==
  LET i == work[w].id v == work[w].verdict pc == work[w].pc
  IN /\ \/ pc = "complete" /\ Queue!Complete(w, i)
        \/ (pc = "supersede" \/ (pc = "recover" /\ v = "superseded")) /\ Queue!Supersede(w, i)
        \/ (pc = "fail" \/ (pc = "recover" /\ v = "failed")) /\ Queue!Fail(w, i)
        \/ pc = "recover" /\ v = "retry" /\ Queue!ReleaseForRetry(w, i)
     /\ Rest(w)
     /\ UNCHANGED <<facts, job, sweep, settled, market, insights>>

\* An error inside the try is retried; one of the catch leaves the lease behind.
CycleFails(w) ==
  /\ \/ /\ work[w].pc \in {"plan", "market", "evidence", "insert", "supersede", "fail", "complete"}
        /\ Catch(w, "retry") /\ UNCHANGED queueVars
     \/ work[w].pc = "recover" /\ Rest(w) /\ UNCHANGED queueVars
     \/ work[w].pc = "claiming" /\ Rest(w) /\ Queue!Abandon(w)
  /\ UNCHANGED <<facts, job, sweep, settled, market, insights>>

Cycle(w) ==
  \/ BeginPolling(w) \/ Poll(w) \/ Claim(w) \/ CheckPlan(w) \/ ReadMarket(w)
  \/ SelectEvidence(w) \/ InsertInsight(w) \/ Reject(w) \/ Record(w)
=============================================================================
