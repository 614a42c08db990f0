---------------------------- MODULE RequestQueue ----------------------------
(***************************************************************************)
(* The table regime_engine.policy_insight_synthesis_requests and the       *)
(* operations of its Postgres adapter.  A request is one synthesis to run  *)
(* for a position scope: it needs a selection of evidence and a plan, and  *)
(* waits for the half that is missing.                                     *)
(*                                                                         *)
(* The adapter runs at READ COMMITTED.  enqueueOrReconcile is serialised   *)
(* by an advisory lock, and the owner-checked updates put their whole      *)
(* condition in the WHERE clause of the row they lock, so each is one      *)
(* step.  claimBatch and failWaitingForPlan choose the row in a            *)
(* sub-select and lock it afterwards without repeating the condition:      *)
(* each is two steps, a snapshot and a locked update.                      *)
(***************************************************************************)
EXTENDS Integers, FiniteSets, Functions

CONSTANTS
  Scopes, Selections, Plans, Rulesets,  \* scope_key, the hashes, ruleset_version
  Sessions,     \* database sessions; also the lease_owner UUIDs
  Null,         \* SQL NULL
  LeaseMs, RetryMs, MaxAttempts,
  Overlap,      \* TRUE: statements may commit between a snapshot and its lock
  MaxTime       \* bound of the clock

ASSUME QueueAssumption ==
  /\ Null \notin Nat \cup Selections \cup Plans \cup Sessions
  /\ LeaseMs \in Nat \ {0} /\ RetryMs \in Nat /\ MaxAttempts \in Nat \ {0}
  /\ Overlap \in BOOLEAN /\ MaxTime \in Nat

VARIABLES
  rows,      \* id -> row, for the ids present in the table
  lastId,    \* the serial's last value
  snapshot,  \* session -> the statement it has begun
  now        \* the workers' clock

queueVars == <<rows, lastId, snapshot, now>>

Waiting  == {"waiting_for_plan", "waiting_for_evidence"}
InFlight == {"pending", "processing"}
Terminal == {"completed", "failed", "superseded"}

Row == [scope : Scopes, sel : Selections \cup {Null}, plan : Plans \cup {Null},
        ruleset : Rulesets, status : Waiting \cup InFlight \cup Terminal,
        attempts : Nat, nextAttempt : Nat \cup {Null},
        owner : Sessions \cup {Null}, leaseExpires : Nat \cup {Null}]

NoStatement == [op |-> "none", ids |-> {}, at |-> 0]

TypeOK ==
  /\ lastId \in Nat
  /\ DOMAIN rows \subseteq 1..lastId
  /\ rows \in [DOMAIN rows -> Row]
  /\ snapshot \in [Sessions -> [op : {"none", "claim", "fail"},
                                ids : SUBSET Nat, at : Nat]]
  /\ now \in Nat

Init ==
  /\ rows = [i \in {} |-> NoStatement]
  /\ lastId = 0
  /\ snapshot = [c \in Sessions |-> NoStatement]
  /\ now = 0

-----------------------------------------------------------------------------
(* The CHECK constraints and partial unique indexes of the migration.      *)

HashesCheck(row) ==
  /\ row.sel  = Null <=> row.status = "waiting_for_evidence"
  /\ row.plan = Null <=> row.status = "waiting_for_plan"

LeaseCheck(row) ==
  /\ row.owner = Null <=> row.status # "processing"
  /\ row.leaseExpires = Null <=> row.status # "processing"

RowCheck(row) == HashesCheck(row) /\ LeaseCheck(row)

Identity(row) == <<row.scope, row.ruleset, row.sel, row.plan>>

-----------------------------------------------------------------------------
(* enqueueOrReconcile                                                      *)

Of(s, r) == {i \in DOMAIN rows : rows[i].scope = s /\ rows[i].ruleset = r}
\* Mutant: a request that has its outcome no longer answers a replay.
ReadyUnfinished(s, r, sel, p) ==
  {i \in Of(s, r) : rows[i].sel = sel /\ rows[i].plan = p /\ rows[i].status \in InFlight}

Ready(s, r, sel, p) == {i \in Of(s, r) : rows[i].sel = sel /\ rows[i].plan = p}
AwaitingPlan(s, r, sel) ==
  {i \in Of(s, r) : rows[i].status = "waiting_for_plan" /\ rows[i].sel = sel}
AwaitingEvidence(s, r, p) ==
  {i \in Of(s, r) : rows[i].status = "waiting_for_evidence" /\ rows[i].plan = p}

NewRow(s, r, sel, p, status) ==
  [scope |-> s, ruleset |-> r, sel |-> sel, plan |-> p, status |-> status,
   attempts |-> 0, nextAttempt |-> Null, owner |-> Null, leaseExpires |-> Null]

\* Mutant: the row is written before the serial is drawn.
InsertEarly(row) ==
  /\ lastId' = lastId + 1
  /\ rows' = [i \in DOMAIN rows \cup {lastId} |-> IF i = lastId THEN row ELSE rows[i]]

Insert(row) ==
  /\ lastId' = lastId + 1
  /\ rows' = [i \in DOMAIN rows \cup {lastId'} |->
                IF i = lastId' THEN row ELSE rows[i]]

Delete(ids) == Restrict(rows, DOMAIN rows \ ids)

\* The request is there already: what was left waiting for either half goes.
ReuseReady(s, r, sel, p) ==
  /\ Ready(s, r, sel, p) # {}
  /\ rows' = Delete(AwaitingPlan(s, r, sel) \cup AwaitingEvidence(s, r, p))
  /\ UNCHANGED lastId

\* Mutant: the counterparts are not deleted.
PromoteAlone(i, sel, p, counterparts) ==
  /\ rows' = [rows EXCEPT ![i].sel = sel, ![i].plan = p, ![i].status = "pending"]
  /\ UNCHANGED lastId

\* Row i becomes pending with both hashes; its counterparts are deleted.
Promote(i, sel, p, counterparts) ==
  /\ rows' = [k \in DOMAIN rows \ counterparts |->
                IF k = i THEN [rows[k] EXCEPT !.sel = sel, !.plan = p,
                                              !.status = "pending"]
                         ELSE rows[k]]
  /\ UNCHANGED lastId

PromoteAwaitingPlan(s, r, sel, p) ==
  /\ Ready(s, r, sel, p) = {}
  /\ \E i \in AwaitingPlan(s, r, sel) :
        Promote(i, sel, p, AwaitingEvidence(s, r, p))

PromoteAwaitingEvidence(s, r, sel, p) ==
  /\ Ready(s, r, sel, p) = {} /\ AwaitingPlan(s, r, sel) = {}
  /\ \E i \in AwaitingEvidence(s, r, p) : 
        Promote(i, sel, p, AwaitingPlan(s, r, sel))

InsertPending(s, r, sel, p) ==
  /\ Ready(s, r, sel, p) = {}
  /\ AwaitingPlan(s, r, sel) = {} /\ AwaitingEvidence(s, r, p) = {}
  /\ Insert(NewRow(s, r, sel, p, "pending"))

EnqueueBoth(s, r, sel, p) ==
  \/ ReuseReady(s, r, sel, p)
  \/ PromoteAwaitingPlan(s, r, sel, p)
  \/ PromoteAwaitingEvidence(s, r, sel, p)
  \/ InsertPending(s, r, sel, p)

\* Any row with the half that is known answers a call without the other half.
EnqueueSelection(s, r, sel) ==
  IF \E i \in Of(s, r) : rows[i].sel = sel
  THEN UNCHANGED <<rows, lastId>>
  ELSE Insert(NewRow(s, r, sel, Null, "waiting_for_plan"))

EnqueuePlan(s, r, p) ==
  IF \E i \in Of(s, r) : rows[i].plan = p
  THEN UNCHANGED <<rows, lastId>>
  ELSE Insert(NewRow(s, r, Null, p, "waiting_for_evidence"))

EnqueueOrReconcile(s, r, sel, p) ==
  /\ \/ sel # Null /\ p # Null /\ EnqueueBoth(s, r, sel, p)
     \/ sel # Null /\ p = Null /\ EnqueueSelection(s, r, sel)
     \/ sel = Null /\ p # Null /\ EnqueuePlan(s, r, p)
  /\ UNCHANGED <<snapshot, now>>

-----------------------------------------------------------------------------
(* claimBatch, with the batch size of one that the worker uses             *)

\* Mutants: a lease is not looked at, or never runs out.
DueUnderLease(row) == row.status \in InFlight
DueOnlyPending(row) ==
  row.status = "pending" /\ (row.nextAttempt = Null \/ row.nextAttempt <= now)

Due(row) ==
  \/ row.status = "pending"
     /\ (row.nextAttempt = Null \/ row.nextAttempt <= now)
  \/ row.status = "processing" /\ row.leaseExpires <= now

\* Mutant: the head of a scope is picked among the rows that are due.
DueHeads ==
  {i \in DOMAIN rows :
     /\ rows[i].status \in InFlight /\ Due(rows[i])
     /\ \A j \in DOMAIN rows :
          /\ rows[j].status \in InFlight /\ Due(rows[j])
          /\ rows[j].scope = rows[i].scope
          => i <= j}

Heads ==
  {i \in DOMAIN rows :
     /\ rows[i].status \in InFlight
     /\ \A j \in DOMAIN rows :
          rows[j].status \in InFlight /\ rows[j].scope = rows[i].scope => i <= j}

Candidates == {i \in Heads : Due(rows[i])}

ClaimSnapshot(c) ==
  /\ snapshot[c] = NoStatement
  /\ Candidates # {}
  /\ snapshot' = [snapshot EXCEPT ![c] = [op |-> "claim", ids |-> Candidates, at |-> now]]
  /\ UNCHANGED <<rows, lastId, now>>

\* SKIP LOCKED: another session may hold the row's lock at this moment.
MayBeLocked(i, c) ==
  \/ \E d \in Sessions \ {c} : snapshot[d].op = "claim" /\ i \in snapshot[d].ids
  \/ Overlap /\ rows[i].owner \in Sessions \ {c}

Claimed(row, c, at) ==
  [row EXCEPT !.status = "processing", !.owner = c, !.leaseExpires = at + LeaseMs,
              !.attempts = @ + 1, !.nextAttempt = Null]

ClaimLock(c) ==
  /\ snapshot[c].op = "claim"
  /\ \/ \E i \in snapshot[c].ids :
          /\ \A j \in snapshot[c].ids : j < i => MayBeLocked(j, c)
          /\ rows' = [rows EXCEPT ![i] = Claimed(@, c, snapshot[c].at)]
     \/ (\A j \in snapshot[c].ids : MayBeLocked(j, c)) /\ UNCHANGED rows
  /\ snapshot' = [snapshot EXCEPT ![c] = NoStatement]
  /\ UNCHANGED <<lastId, now>>

-----------------------------------------------------------------------------
(* complete, fail, supersede, releaseForRetry: nothing happens, and the    *)
(* caller is told so, unless the row is still the caller's.                *)

\* Mutant: the update names the row only.
OwnsAny(c, i) == i \in DOMAIN rows

Owns(c, i) == i \in DOMAIN rows /\ rows[i].owner = c /\ rows[i].status = "processing"

\* Mutants: the lease's end stays, or the attempts are counted afresh.
UnleasedInPart(row, status, next) ==
  [row EXCEPT !.status = status, !.owner = Null, !.nextAttempt = next]
UnleasedAfresh(row, status, next) ==
  [row EXCEPT !.status = status, !.owner = Null, !.leaseExpires = Null,
              !.nextAttempt = next, !.attempts = 0]

Unleased(row, status, next) ==
  [row EXCEPT !.status = status, !.owner = Null, !.leaseExpires = Null,
              !.nextAttempt = next]

Finish(c, i, status) ==
  /\ rows' = IF Owns(c, i)
             THEN [rows EXCEPT ![i] = Unleased(@, status, @.nextAttempt)]
             ELSE rows
  /\ UNCHANGED <<lastId, snapshot, now>>

Complete(c, i)  == Finish(c, i, "completed")
Fail(c, i)      == Finish(c, i, "failed")
Supersede(c, i) == Finish(c, i, "superseded")

\* Mutant: one attempt too many.
ReleaseOnceMore(c, i) ==
  IF Owns(c, i) /\ rows[i].attempts <= MaxAttempts
  THEN /\ rows' = [rows EXCEPT ![i] = Unleased(@, "pending", now + RetryMs)]
       /\ UNCHANGED <<lastId, snapshot, now>>
  ELSE Finish(c, i, "failed")

ReleaseForRetry(c, i) ==
  IF Owns(c, i) /\ rows[i].attempts < MaxAttempts
  THEN /\ rows' = [rows EXCEPT ![i] = Unleased(@, "pending", now + RetryMs)]
       /\ UNCHANGED <<lastId, snapshot, now>>
  ELSE Finish(c, i, "failed")

-----------------------------------------------------------------------------
(* failWaitingForPlan: the newest waiting row of the selection, or of the  *)
(* whole scope when the caller has no selection.                           *)

FailWaitingSnapshot(c, s, r, sel) ==
  LET waiting == {i \in Of(s, r) : /\ rows[i].status = "waiting_for_plan"
                                   /\ sel # Null => rows[i].sel = sel}
  IN /\ snapshot[c] = NoStatement
     /\ \E i \in waiting :
          /\ \A j \in waiting : j <= i
          /\ snapshot' = [snapshot EXCEPT ![c] = [op |-> "fail", ids |-> {i}, at |-> now]]
     /\ UNCHANGED <<rows, lastId, now>>

\* The database refuses the update when the new row fails a CHECK.
FailedWaiting(i) == [rows[i] EXCEPT !.status = "failed"]

CheckRefuses(c) == \E i \in snapshot[c].ids \cap DOMAIN rows : ~RowCheck(FailedWaiting(i))

FailWaitingLock(c) ==
  /\ snapshot[c].op = "fail"
  /\ rows' = [i \in DOMAIN rows |->
                IF i \in snapshot[c].ids /\ RowCheck(FailedWaiting(i))
                THEN FailedWaiting(i) ELSE rows[i]]
  /\ snapshot' = [snapshot EXCEPT ![c] = NoStatement]
  /\ UNCHANGED <<lastId, now>>

-----------------------------------------------------------------------------
\* The session ends before its statement does: the transaction is rolled back.
Abandon(c) ==
  /\ snapshot[c] # NoStatement
  /\ snapshot' = [snapshot EXCEPT ![c] = NoStatement]
  /\ UNCHANGED <<rows, lastId, now>>

Tick ==
  /\ now < MaxTime
  /\ now' = now + 1
  /\ UNCHANGED <<rows, lastId, snapshot>>

\* Without Overlap, a statement begun is finished before anything else happens.
Quiet == Overlap \/ \A d \in Sessions : snapshot[d] = NoStatement

Operation(c) ==
  \/ ClaimLock(c)
  \/ FailWaitingLock(c)
  \/ Abandon(c)
  \/ Quiet /\ ClaimSnapshot(c)
  \/ Quiet /\ \E s \in Scopes, r \in Rulesets, sel \in Selections \cup {Null} :
                 FailWaitingSnapshot(c, s, r, sel)
  \/ /\ Quiet /\ snapshot[c] = NoStatement
     /\ \E i \in DOMAIN rows :
           Complete(c, i) \/ Fail(c, i) \/ Supersede(c, i) \/ ReleaseForRetry(c, i)

Request ==
  Quiet /\ \E s \in Scopes, r \in Rulesets,
              sel \in Selections \cup {Null}, p \in Plans \cup {Null} :
                 EnqueueOrReconcile(s, r, sel, p)

Next == Request \/ (\E c \in Sessions : Operation(c)) \/ (Quiet /\ Tick)

Spec == Init /\ [][Next]_queueVars
-----------------------------------------------------------------------------
(* Safety                                                                  *)

\* What the migration's CHECK constraints and unique indexes demand holds of
\* the rows the adapter computes: no statement of it but failWaitingForPlan's
\* is ever refused, and no two rows stand for the same synthesis.
SchemaHolds ==
  /\ \A i \in DOMAIN rows : RowCheck(rows[i])
  /\ \A i, j \in DOMAIN rows : Identity(rows[i]) = Identity(rows[j]) => i = j

\* A request that waits for a plan is the only row of its selection, and one
\* that waits for evidence the only row of its plan: reconciliation never
\* leaves a waiting duplicate beside the request that answers it.
WaitingAlone ==
  \A i, j \in DOMAIN rows :
    /\ i # j
    /\ rows[i].scope = rows[j].scope /\ rows[i].ruleset = rows[j].ruleset
    => /\ rows[i].status = "waiting_for_plan" => rows[i].sel # rows[j].sel
       /\ rows[i].status = "waiting_for_evidence" => rows[i].plan # rows[j].plan

\* A request handed back to the queue has an attempt left, and one that was
\* never ready has used none.
AttemptsLeft ==
  \A i \in DOMAIN rows :
    /\ rows[i].status = "pending" => rows[i].attempts < MaxAttempts
    /\ rows[i].status \in Waiting => rows[i].attempts = 0

\* A hash once known never changes, a request with both is never deleted, and
\* the count of its attempts is never lost: replays of the same wake-up find
\* the same row whatever became of it.
KeepsIdentity(i) ==
  /\ rows[i].status \notin Waiting => i \in DOMAIN rows'
  /\ i \in DOMAIN rows' =>
       /\ rows[i].sel # Null => rows'[i].sel = rows[i].sel
       /\ rows[i].plan # Null => rows'[i].plan = rows[i].plan
       /\ rows[i].attempts <= rows'[i].attempts

IdentityPermanent == [][\A i \in DOMAIN rows : KeepsIdentity(i)]_queueVars

\* A completed, failed or superseded request stays exactly as it is.
KeepsOutcome(i) ==
  rows[i].status \in Terminal => i \in DOMAIN rows' /\ rows'[i] = rows[i]

TerminalFinal == [][\A i \in DOMAIN rows : KeepsOutcome(i)]_queueVars

\* "does not steal an unexpired processing lease": a row changes hands only
\* through its owner's release or after its lease has run out.
KeepsLease(i) ==
  rows[i].status = "processing" /\ now < rows[i].leaseExpires =>
    i \in DOMAIN rows' /\ rows'[i].owner \in {rows[i].owner, Null}

NoLiveLeaseStolen == [][\A i \in DOMAIN rows : KeepsLease(i)]_queueVars

\* "prevents newer requests for the same scope from bypassing a delayed head
\* request (FIFO)": no request is started while an older one of its scope is
\* pending, delayed for a retry or in process.
Blocks(i, j) ==
  /\ i < j /\ rows[i].scope = rows[j].scope
  /\ rows[i].status \in InFlight
  => (j \in DOMAIN rows' => rows'[j].attempts = rows[j].attempts)

HeadBlocks == [][\A i, j \in DOMAIN rows : Blocks(i, j)]_queueVars
=============================================================================
