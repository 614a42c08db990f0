------------------------- MODULE MCPositionSynthesis -------------------------
(* Finite instances of PositionSynthesis: see the runs position_*.           *)
EXTENDS PositionSynthesis, TLC

Bundle(run, scope, asOf, fresh, expires) ==
  [run |-> run, scope |-> scope, source |-> "agent", asOf |-> asOf, fresh |-> fresh,
   expires |-> expires]

Plan(hash, scope, asOf) == [hash |-> hash, scope |-> scope, asOf |-> asOf, observed |-> 0]

Drifting == Bundle("drifting", "s1", 0, 0, 1)  \* stale after 0, expired after 1
Distant  == Bundle("distant", "s1", 2, 2, 2)   \* too late for a plan as of 0
Forged   == Bundle("drifting", "s1", 1, 2, 2)  \* another payload for the first run
Lasting  == Bundle("lasting", "s1", 0, 2, 2)   \* fresh until the end

Early == Plan("early", "s1", 0)
Late  == Plan("late", "s1", 1)

OneScope  == {"s1"}
MCCallers == Handlers \cup Workers
Symmetric == Permutations(Handlers) \cup Permutations(Workers)

WakeupBundles == {Drifting, Forged, Distant}
ManyPlans     == {Early, Late}
OneDrifting   == {Drifting}
OneLasting    == {Lasting}
OnePlan       == {Early}

\* A restart: the facts are stored, and the queue holds the requests given.
Restarted(bundles, planned, requests) ==
  /\ evidence = [i \in DOMAIN bundles |-> [bundle |-> bundles[i], received |-> 0]]
  /\ plans = planned
  /\ rows = requests /\ lastId = Len(requests)
  /\ snapshot = [c \in Sessions |-> Queue!NoStatement] /\ now = 0
  /\ job = [x \in Callers \X Scopes |-> NoJob]
  /\ sweep = [c \in Callers |-> NoSweep]
  /\ settled = [s \in Scopes |-> 0]
  /\ CycleInit /\ faults = 0

\* Every handler failed between its write and its wake-up.
RestartSpec == Restarted(<<Drifting>>, <<Early>>, <<>>) /\ [][Next]_allVars

\* An empty system, and one in which a handler stored a bundle and failed.
LostSpec ==
  /\ Init \/ Restarted(<<Drifting>>, <<>>, <<>>)
  /\ [][Next]_allVars

\* No worker ran while a plan and the one that replaced it were requested.
Pending(p) == Queue!NewRow("s1", Ruleset, Selection({Lasting}, 0), p.hash, "pending")

BacklogSpec ==
  /\ Restarted(<<Lasting>>, <<Early, Late>>, <<Pending(Early), Pending(Late)>>)
  /\ [][Next]_allVars /\ Fairness
=============================================================================
