------------------------------ MODULE LeasedWork ------------------------------
(***************************************************************************)
(* What a queue of leased work promises: each job is posted once, is in    *)
(* the hands of one holder at a time, goes to another only when it is      *)
(* handed back or its lease is over, and is closed once, by its holder.    *)
(***************************************************************************)
EXTENDS Integers

CONSTANTS
  Jobs, Holders, Nobody,
  LeaseMs  \* how long a lease lasts

VARIABLES
  jobs,  \* job -> its state, its holder and when the lease ends
  clock

jobVars == <<jobs, clock>>

Absent         == [state |-> "absent", holder |-> Nobody, until |-> Nobody]
Open           == [state |-> "open", holder |-> Nobody, until |-> Nobody]
Closed         == [state |-> "closed", holder |-> Nobody, until |-> Nobody]
Held(h, until) == [state |-> "held", holder |-> h, until |-> until]

HeldBy(j, h) == jobs[j].state = "held" /\ jobs[j].holder = h

Init == jobs = [j \in Jobs |-> Absent] /\ clock = 0

Become(j, state) == jobs' = [jobs EXCEPT ![j] = state] /\ UNCHANGED clock

Post(j) == jobs[j] = Absent /\ Become(j, Open)

Take(j, h) ==
  /\ jobs[j].state = "open" \/ (jobs[j].state = "held" /\ jobs[j].until <= clock)
  /\ Become(j, Held(h, clock + LeaseMs))

Return(j, h) == HeldBy(j, h) /\ Become(j, Open)

Close(j, h) == HeldBy(j, h) /\ Become(j, Closed)

Advance == clock' \in Nat /\ clock' > clock /\ UNCHANGED jobs

Next ==
  \/ \E j \in Jobs : Post(j)
  \/ \E j \in Jobs, h \in Holders : Take(j, h) \/ Return(j, h) \/ Close(j, h)
  \/ Advance

Spec == Init /\ [][Next]_jobVars
=============================================================================
