-------------------------- MODULE PositionSynthesis --------------------------
(***************************************************************************)
(* The position pipeline: requests served by the HTTP handlers, the queue, *)
(* and the workers that run alongside, with the failures the code handles. *)
(***************************************************************************)
EXTENDS SynthesisCycle

CONSTANTS
  Handlers,                       \* requests served at once
  Solo,                           \* TRUE: a worker only starts when no other runs
  MaxPlans, MaxMarket, MaxFaults  \* bounds

ASSUME SynthesisAssumption == Callers = Handlers \cup Workers

VARIABLE faults  \* failures of a store, and crashes of a worker, so far

allVars == <<vars, faults>>

TypeOK == ReconcileTypeOK /\ CycleTypeOK /\ faults \in Nat

Init == ReconcileInit /\ CycleInit /\ faults = 0

MarketMoves ==
  /\ market < MaxMarket
  /\ market' = market + 1
  /\ UNCHANGED <<reconcileVars, work, insights>>

\* Time passes as long as it brings something about.
Deadlines ==
  {rows[i].leaseExpires : i \in DOMAIN rows} \cup {rows[i].nextAttempt : i \in DOMAIN rows}
  \cup UNION {{b.fresh + 1, b.expires + 1, b.asOf} : b \in Bundles}
  \cup UNION {{p.observed, p.observed + MaxAge + 1} : p \in Plans}

Tick ==
  /\ \E t \in Deadlines \ {Null} : now < t
  /\ Queue!Tick
  /\ UNCHANGED <<facts, job, sweep, settled, cycleVars>>

Serve(h) ==
  \/ /\ Start(h) \/ ListWaiting(h)
     /\ Len(plans') <= MaxPlans
     /\ UNCHANGED cycleVars
  \/ (Sweep(h) \/ \E s \in Scopes : Reconcile(h, s)) /\ UNCHANGED cycleVars

Run(w) ==
  \/ Boot(w) /\ (Solo => \A v \in Workers : work[v].pc \in {"off", "dead"})
  \/ Cycle(w)
  \/ (Sweep(w) \/ \E s \in Scopes : Reconcile(w, s)) /\ UNCHANGED cycleVars

Fault ==
  /\ faults < MaxFaults
  /\ faults' = faults + 1
  /\ \/ \E c \in Callers : SweepFails(c) /\ UNCHANGED cycleVars
     \/ \E c \in Callers, s \in Scopes : CallFails(c, s) /\ UNCHANGED cycleVars
     \/ \E w \in Workers : CycleFails(w) \/ Crash(w)

Next ==
  \/ Fault
  \/ /\ (\E h \in Handlers : Serve(h)) \/ (\E w \in Workers : Run(w)) \/ MarketMoves \/ Tick
     /\ UNCHANGED faults

Spec == Init /\ [][Next]_allVars

\* Every worker that is up goes on, a dead one is replaced, and a row is not
\* found locked at every attempt to claim it.
Fairness ==
  /\ WF_allVars(Tick /\ UNCHANGED faults)
  /\ \A w \in Workers :
       /\ WF_allVars(Run(w) /\ UNCHANGED faults)
       /\ SF_allVars(Claim(w) /\ rows' # rows /\ UNCHANGED faults)

FairSpec == Spec /\ Fairness
-----------------------------------------------------------------------------
(* Safety                                                                  *)

\* The queue does nothing here but what RequestQueue says of it.
QueueImplemented == Queue!Spec

Runs(sel) == {x[1] : x \in sel}

\* The queue has the request that the facts of scope s call for at time t.
Requested(s, t) ==
  LET p == LatestPlan(s) found == Latest(s, p)
  IN /\ ~AllExpired(found, t) =>
          \E i \in DOMAIN rows :
            /\ rows[i].scope = s /\ rows[i].sel # Null
            /\ Runs(rows[i].sel) = {b.run : b \in found}
            /\ p # Null => rows[i].plan = p.hash
     /\ p # Null => \E i \in DOMAIN rows : rows[i].scope = s /\ rows[i].plan = p.hash

\* Once a reconciliation that began after the last write has finished, the
\* queue has the request for the latest plan and the evidence near it: no
\* order of arrivals, replays and failures loses a wake-up.
NoLostWakeup == \A s \in Scopes : settled[s] = Writes => Requested(s, now)

\* "source-write replay/startup reconciliation repairs the unavoidable
\* SQLite/Postgres dual-write gap": a sweep none of whose calls threw leaves
\* every scope requested, whichever wake-ups were lost before it.
SweepRepairs ==
  [][\A c \in Callers :
       /\ EndSweep(c) /\ sweep[c].seen = Writes
       /\ \A s \in Scopes : job[c, s].pc = "idle"
       => \A s \in Scopes : Requested(s, now + 1)]_allVars

\* Every insight stored answers a request of the queue, and every request
\* recorded as completed has its insight, whichever worker recorded it.
InsightsAnswerRequests ==
  /\ \A x \in insights : \E i \in DOMAIN rows :
        rows[i].scope = x.scope /\ rows[i].sel = x.sel /\ rows[i].plan = x.plan
  /\ \A i \in DOMAIN rows : rows[i].status = "completed" =>
        \E x \in insights :
          x.scope = rows[i].scope /\ x.sel = rows[i].sel /\ x.plan = rows[i].plan

-----------------------------------------------------------------------------
(* Liveness                                                                *)

\* As long as some worker survives, every request that is ready gets an
\* outcome: no crash, failed store or older request holds it back for ever.
\* Arrivals are bounded here, so the queue drains.
RequestsEnd == []<>(\A i \in DOMAIN rows : rows[i].status \notin Queue!InFlight)

-----------------------------------------------------------------------------
(* What the repository's documents say, and the code does not do           *)

\* "an expired waiting evidence request fails with POSITION_STALE when a plan
\* arrives" (task-context-step-5.md).
ExpiredWaitingFails ==
  [][\A c \in Callers, s \in Scopes : \A i \in snapshot[c, s].ids \cap DOMAIN rows :
       FailWaiting(c, s) => rows'[i].status = "failed"]_allVars
=============================================================================
