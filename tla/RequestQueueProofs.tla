------------------------- MODULE RequestQueueProofs -------------------------
(***************************************************************************)
(* Theorems of RequestQueue.  The invariants SchemaHolds, WaitingAlone and *)
(* AttemptsLeft are inductive together with one fact about statements in   *)
(* flight: a claim's candidates stay in the table with both hashes.        *)
(***************************************************************************)
EXTENDS RequestQueue, TLAPS

\* Whatever commits between a claim's snapshot and its lock, the rows it
\* chose keep both hashes and are not deleted.
ClaimsSound ==
  \A c \in Sessions : snapshot[c].op = "claim" =>
    \A i \in snapshot[c].ids :
      i \in DOMAIN rows /\ rows[i].sel # Null /\ rows[i].plan # Null

QueueInv == TypeOK /\ SchemaHolds /\ WaitingAlone /\ AttemptsLeft /\ ClaimsSound

-----------------------------------------------------------------------------
\* A step that keeps the table's rows and their hashes, and writes only rows
\* that satisfy the CHECKs, cannot break uniqueness.
LEMMA SameKeys ==
  ASSUME QueueInv, DOMAIN rows' = DOMAIN rows,
         \A i \in DOMAIN rows :
            /\ rows'[i].scope = rows[i].scope /\ rows'[i].ruleset = rows[i].ruleset
            /\ rows'[i].sel = rows[i].sel /\ rows'[i].plan = rows[i].plan
            /\ RowCheck(rows'[i])
  PROVE  SchemaHolds' /\ WaitingAlone'
<1>1. SchemaHolds'
  BY DEF QueueInv, SchemaHolds, RowCheck, HashesCheck, LeaseCheck, Identity
<1>2. \A i \in DOMAIN rows : 
        /\ rows'[i].status = "waiting_for_plan" => rows[i].status = "waiting_for_plan"
        /\ rows'[i].status = "waiting_for_evidence" => rows[i].status = "waiting_for_evidence"
  BY DEF QueueInv, SchemaHolds, RowCheck, HashesCheck
<1>3. WaitingAlone'
  BY <1>2 DEF QueueInv, WaitingAlone
<1> QED BY <1>1, <1>3

\* One row is rewritten, its identity kept.
LEMMA OneRow ==
  ASSUME QueueAssumption, QueueInv, NEW i \in DOMAIN rows, NEW new \in Row,
         rows' = [rows EXCEPT ![i] = new],
         new.scope = rows[i].scope, new.ruleset = rows[i].ruleset,
         new.sel = rows[i].sel, new.plan = rows[i].plan, RowCheck(new),
         new.status = "pending" => new.attempts < MaxAttempts,
         new.status \in Waiting => new.attempts = 0,
         UNCHANGED <<lastId, now>>,
         \/ UNCHANGED snapshot
         \/ \E c \in Sessions : snapshot' = [snapshot EXCEPT ![c] = NoStatement]
  PROVE  QueueInv'
<1>1. TypeOK'
  BY DEF QueueInv, TypeOK, NoStatement
<1>2. SchemaHolds' /\ WaitingAlone'
  BY SameKeys DEF QueueInv, SchemaHolds
<1>3. AttemptsLeft'
  BY DEF QueueInv, AttemptsLeft
<1>4. ClaimsSound'
  BY DEF QueueInv, TypeOK, ClaimsSound, NoStatement
<1> QED BY <1>1, <1>2, <1>3, <1>4 DEF QueueInv

-----------------------------------------------------------------------------
\* A fresh row may be added when nothing in the table answers its halves.
LEMMA InsertSound ==
  ASSUME QueueAssumption, QueueInv, NEW row \in Row, Insert(row), RowCheck(row),
         row.status \in Waiting \cup {"pending"}, row.attempts = 0,
         UNCHANGED <<snapshot, now>>,
         \A i \in Of(row.scope, row.ruleset) :
            /\ rows[i].sel # row.sel \/ rows[i].plan # row.plan
            /\ row.status = "waiting_for_plan" => rows[i].sel # row.sel
            /\ row.status = "waiting_for_evidence" => rows[i].plan # row.plan
            /\ rows[i].status = "waiting_for_plan" => rows[i].sel # row.sel
            /\ rows[i].status = "waiting_for_evidence" => rows[i].plan # row.plan
  PROVE  QueueInv'
<1> DEFINE n == lastId'
<1>0. n = lastId + 1 /\ n \in Nat /\ n \notin DOMAIN rows
  BY DEF Insert, QueueInv, TypeOK
<1>1. /\ DOMAIN rows' = DOMAIN rows \cup {n}
      /\ rows'[n] = row
      /\ \A i \in DOMAIN rows : rows'[i] = rows[i]
  BY <1>0 DEF Insert
<1> HIDE DEF n
<1>2. TypeOK'
  <2>1. DOMAIN rows' \subseteq 1..lastId'
    BY <1>0, <1>1 DEF QueueInv, TypeOK, n
  <2>2. rows' \in [DOMAIN rows' -> Row]
    <3>1. rows' = [i \in DOMAIN rows' |-> rows'[i]]
      BY <1>1 DEF Insert, n
    <3>2. \A i \in DOMAIN rows' : rows'[i] \in Row
      BY <1>0, <1>1 DEF QueueInv, TypeOK
    <3> QED BY <3>1, <3>2
  <2> QED BY <2>1, <2>2, <1>0 DEF QueueInv, TypeOK, n
<1>3. SchemaHolds'
  <2>1. \A i \in DOMAIN rows' : RowCheck(rows'[i])
    BY <1>0, <1>1 DEF QueueInv, SchemaHolds
  <2>2. \A i \in DOMAIN rows : Identity(rows[i]) # Identity(row)
    BY DEF Of, Identity
  <2> QED BY <1>0, <1>1, <2>1, <2>2 DEF QueueInv, SchemaHolds
<1>4. WaitingAlone'
  BY <1>0, <1>1 DEF QueueInv, WaitingAlone, Of, Waiting
<1>5. AttemptsLeft'
  BY <1>0, <1>1 DEF QueueInv, AttemptsLeft, QueueAssumption
<1>6. ClaimsSound'
  BY <1>0, <1>1 DEF QueueInv, ClaimsSound
<1> QED BY <1>2, <1>3, <1>4, <1>5, <1>6 DEF QueueInv

-----------------------------------------------------------------------------
\* Row i gets its missing half; what waited for either half is deleted, so no
\* row with the new identity and no waiting duplicate remains.
LEMMA PromoteSound ==
  ASSUME QueueAssumption, QueueInv,
         NEW s, NEW r, NEW sel \in Selections, NEW p \in Plans,
         Ready(s, r, sel, p) = {}, UNCHANGED <<snapshot, now>>,
         NEW i \in Of(s, r), NEW counterparts \in SUBSET DOMAIN rows,
         i \notin counterparts, Promote(i, sel, p, counterparts),
         rows[i].status \in Waiting,
         AwaitingPlan(s, r, sel) \cup AwaitingEvidence(s, r, p)
           \subseteq counterparts \cup {i},
         \A k \in counterparts : rows[k].status \in Waiting
  PROVE  QueueInv'
<1> DEFINE new == [rows[i] EXCEPT !.sel = sel, !.plan = p, !.status = "pending"]
<1>1. i \in DOMAIN rows /\ rows[i].scope = s /\ rows[i].ruleset = r /\ rows[i] \in Row
  BY DEF Of, QueueInv, TypeOK
<1>2. /\ new \in Row
      /\ new.scope = s /\ new.ruleset = r /\ new.sel = sel /\ new.plan = p
      /\ new.status = "pending" /\ new.attempts = rows[i].attempts
      /\ new.owner = rows[i].owner /\ new.leaseExpires = rows[i].leaseExpires
  BY <1>1 DEF Row, InFlight
<1>3. /\ DOMAIN rows' = DOMAIN rows \ counterparts
      /\ rows'[i] = new
      /\ \A k \in DOMAIN rows' : k # i => rows'[k] = rows[k]
      /\ lastId' = lastId
  BY <1>1 DEF Promote
<1> HIDE DEF new
<1>4. TypeOK'
  <2>1. rows' = [k \in DOMAIN rows' |-> rows'[k]]
    BY <1>3 DEF Promote
  <2>2. \A k \in DOMAIN rows' : rows'[k] \in Row
    BY <1>2, <1>3 DEF QueueInv, TypeOK
  <2> QED BY <1>3, <2>1, <2>2 DEF QueueInv, TypeOK
<1>5. SchemaHolds'
  <2>1. RowCheck(new)
    BY <1>1, <1>2 DEF QueueInv, SchemaHolds, RowCheck, HashesCheck, LeaseCheck,
                      Waiting, QueueAssumption
  <2>2. \A k \in DOMAIN rows : Identity(rows[k]) # Identity(new)
    BY <1>2 DEF Ready, Of, Identity
  <2> QED BY <1>3, <2>1, <2>2 DEF QueueInv, SchemaHolds
<1>6. WaitingAlone'
  <2>1. \A k \in DOMAIN rows' : k # i /\ rows[k].scope = s /\ rows[k].ruleset = r =>
          /\ rows[k].status = "waiting_for_plan" => rows[k].sel # sel
          /\ rows[k].status = "waiting_for_evidence" => rows[k].plan # p
    BY <1>3 DEF AwaitingPlan, AwaitingEvidence, Of
  <2> QED BY <1>2, <1>3, <2>1 DEF QueueInv, WaitingAlone
<1>7. AttemptsLeft'
  BY <1>1, <1>2, <1>3 DEF QueueInv, AttemptsLeft, QueueAssumption
<1>8. ClaimsSound'
  BY <1>1, <1>2, <1>3
  DEF QueueInv, ClaimsSound, SchemaHolds, RowCheck, HashesCheck, Waiting, QueueAssumption
<1> QED BY <1>4, <1>5, <1>6, <1>7, <1>8 DEF QueueInv

LEMMA EnqueueSound ==
  ASSUME QueueAssumption, QueueInv, NEW s \in Scopes, NEW r \in Rulesets,
         NEW sel \in Selections \cup {Null}, NEW p \in Plans \cup {Null},
         EnqueueOrReconcile(s, r, sel, p)
  PROVE  QueueInv'
<1>0. UNCHANGED <<snapshot, now>>
  BY DEF EnqueueOrReconcile
<1>1. CASE sel # Null /\ p # Null /\ EnqueueBoth(s, r, sel, p)
  <2>1. CASE ReuseReady(s, r, sel, p)
    <3> DEFINE gone == AwaitingPlan(s, r, sel) \cup AwaitingEvidence(s, r, p)
    <3>1. /\ DOMAIN rows' = DOMAIN rows \ gone /\ lastId' = lastId
          /\ \A i \in DOMAIN rows' : rows'[i] = rows[i]
          /\ rows' = [i \in DOMAIN rows' |-> rows'[i]]
      BY <2>1 DEF ReuseReady, Delete, Restrict
    <3>2. \A i \in gone : rows[i].sel = Null \/ rows[i].plan = Null
      BY DEF QueueInv, SchemaHolds, RowCheck, HashesCheck, AwaitingPlan, AwaitingEvidence, Of
    <3> HIDE DEF gone
    <3>3. TypeOK'
      BY <1>0, <3>1 DEF QueueInv, TypeOK
    <3>4. SchemaHolds' /\ WaitingAlone' /\ AttemptsLeft'
      BY <3>1 DEF QueueInv, SchemaHolds, WaitingAlone, AttemptsLeft
    <3>5. ClaimsSound'
      BY <1>0, <3>1, <3>2 DEF QueueInv, ClaimsSound
    <3> QED BY <3>3, <3>4, <3>5 DEF QueueInv
  <2>2. CASE PromoteAwaitingPlan(s, r, sel, p)
    <3>1. PICK i \in AwaitingPlan(s, r, sel) :
                 Promote(i, sel, p, AwaitingEvidence(s, r, p))
      BY <2>2 DEF PromoteAwaitingPlan
    <3>2. AwaitingPlan(s, r, sel) = {i}
      BY DEF QueueInv, WaitingAlone, AwaitingPlan, Of
    <3> QED BY <1>0, <1>1, <2>2, <3>1, <3>2, PromoteSound
            DEF PromoteAwaitingPlan, AwaitingPlan, AwaitingEvidence, Of, Waiting
  <2>3. CASE PromoteAwaitingEvidence(s, r, sel, p)
    <3>1. PICK i \in AwaitingEvidence(s, r, p) :
                 Promote(i, sel, p, AwaitingPlan(s, r, sel))
      BY <2>3 DEF PromoteAwaitingEvidence
    <3>2. AwaitingEvidence(s, r, p) = {i}
      BY DEF QueueInv, WaitingAlone, AwaitingEvidence, Of
    <3> QED BY <1>0, <1>1, <2>3, <3>1, <3>2, PromoteSound
            DEF PromoteAwaitingEvidence, AwaitingPlan, AwaitingEvidence, Of, Waiting
  <2>4. CASE InsertPending(s, r, sel, p)
    <3> DEFINE row == NewRow(s, r, sel, p, "pending")
    <3>1. row \in Row /\ RowCheck(row)
      BY <1>1 DEF NewRow, Row, RowCheck, HashesCheck, LeaseCheck, InFlight
    <3>2. \A i \in Of(s, r) :
            /\ rows[i].sel # sel \/ rows[i].plan # p
            /\ rows[i].status = "waiting_for_plan" => rows[i].sel # sel
            /\ rows[i].status = "waiting_for_evidence" => rows[i].plan # p
      BY <2>4 DEF InsertPending, Ready, AwaitingPlan, AwaitingEvidence
    <3>3. Insert(row)
      BY <2>4 DEF InsertPending
    <3>4. /\ row.scope = s /\ row.ruleset = r /\ row.sel = sel /\ row.plan = p
          /\ row.status = "pending" /\ row.attempts = 0
      BY DEF NewRow
    <3> HIDE DEF row
    <3> QED BY <1>0, <3>1, <3>2, <3>3, <3>4, InsertSound
  <2> QED BY <1>1, <2>1, <2>2, <2>3, <2>4 DEF EnqueueBoth
<1>2. CASE sel # Null /\ p = Null /\ EnqueueSelection(s, r, sel)
  <2>1. CASE UNCHANGED <<rows, lastId>>
    BY <1>0, <2>1 DEF QueueInv, TypeOK, SchemaHolds, WaitingAlone, AttemptsLeft, ClaimsSound
  <2>2. CASE /\ ~ \E i \in Of(s, r) : rows[i].sel = sel
             /\ Insert(NewRow(s, r, sel, Null, "waiting_for_plan"))
    <3> DEFINE row == NewRow(s, r, sel, Null, "waiting_for_plan")
    <3>1. row \in Row /\ RowCheck(row)
      BY <1>2 DEF NewRow, Row, RowCheck, HashesCheck, LeaseCheck, Waiting
    <3>2. \A i \in Of(s, r) : rows[i].status = "waiting_for_evidence" => rows[i].plan # Null
      BY DEF QueueInv, SchemaHolds, RowCheck, HashesCheck, Of
    <3>3. /\ row.scope = s /\ row.ruleset = r /\ row.sel = sel /\ row.plan = Null
          /\ row.status = "waiting_for_plan" /\ row.attempts = 0
      BY DEF NewRow
    <3>4. Insert(row)
      BY <2>2
    <3> HIDE DEF row
    <3> QED BY <1>0, <2>2, <3>1, <3>2, <3>3, <3>4, InsertSound DEF Waiting
  <2> QED BY <1>2, <2>1, <2>2 DEF EnqueueSelection
<1>3. CASE sel = Null /\ p # Null /\ EnqueuePlan(s, r, p)
  <2>1. CASE UNCHANGED <<rows, lastId>>
    BY <1>0, <2>1 DEF QueueInv, TypeOK, SchemaHolds, WaitingAlone, AttemptsLeft, ClaimsSound
  <2>2. CASE /\ ~ \E i \in Of(s, r) : rows[i].plan = p
             /\ Insert(NewRow(s, r, Null, p, "waiting_for_evidence"))
    <3> DEFINE row == NewRow(s, r, Null, p, "waiting_for_evidence")
    <3>1. row \in Row /\ RowCheck(row)
      BY <1>3 DEF NewRow, Row, RowCheck, HashesCheck, LeaseCheck, Waiting
    <3>2. \A i \in Of(s, r) : rows[i].status = "waiting_for_plan" => rows[i].sel # Null
      BY DEF QueueInv, SchemaHolds, RowCheck, HashesCheck, Of
    <3>3. /\ row.scope = s /\ row.ruleset = r /\ row.sel = Null /\ row.plan = p
          /\ row.status = "waiting_for_evidence" /\ row.attempts = 0
      BY DEF NewRow
    <3>4. Insert(row)
      BY <2>2
    <3> HIDE DEF row
    <3> QED BY <1>0, <2>2, <3>1, <3>2, <3>3, <3>4, InsertSound DEF Waiting
  <2> QED BY <1>3, <2>1, <2>2 DEF EnqueuePlan
<1> QED BY <1>1, <1>2, <1>3 DEF EnqueueOrReconcile

-----------------------------------------------------------------------------
LEMMA ClaimSound ==
  ASSUME QueueAssumption, QueueInv, NEW c \in Sessions, ClaimLock(c)
  PROVE  QueueInv'
<1>0. /\ UNCHANGED <<lastId, now>>
      /\ snapshot' = [snapshot EXCEPT ![c] = NoStatement]
      /\ snapshot[c].op = "claim" /\ snapshot[c].at \in Nat
  BY DEF ClaimLock, QueueInv, TypeOK
<1>1. CASE UNCHANGED rows
  BY <1>0, <1>1
  DEF QueueInv, TypeOK, NoStatement, SchemaHolds, WaitingAlone, AttemptsLeft, ClaimsSound
<1>2. ASSUME NEW i \in snapshot[c].ids,
             rows' = [rows EXCEPT ![i] = Claimed(@, c, snapshot[c].at)]
      PROVE  QueueInv'
  <2> DEFINE new == Claimed(rows[i], c, snapshot[c].at)
  <2>1. /\ i \in DOMAIN rows /\ rows[i] \in Row
        /\ rows[i].sel # Null /\ rows[i].plan # Null
    BY <1>0, <1>2 DEF QueueInv, ClaimsSound, TypeOK
  <2>2. /\ new \in Row /\ new.status = "processing"
        /\ new.owner = c /\ new.leaseExpires \in Nat
        /\ new.scope = rows[i].scope /\ new.ruleset = rows[i].ruleset
        /\ new.sel = rows[i].sel /\ new.plan = rows[i].plan
    <3>1. snapshot[c].at + LeaseMs \in Nat /\ rows[i].attempts + 1 \in Nat
      BY <1>0, <2>1 DEF QueueAssumption, Row
    <3> QED BY <2>1, <3>1 DEF Claimed, Row, InFlight
  <2>3. RowCheck(new)
    BY <2>1, <2>2 DEF RowCheck, HashesCheck, LeaseCheck, QueueAssumption
  <2>4. rows' = [rows EXCEPT ![i] = new]
    BY <1>2
  <2> HIDE DEF new
  <2> QED BY <1>0, <2>1, <2>2, <2>3, <2>4, OneRow DEF Waiting
<1> QED BY <1>1, <1>2 DEF ClaimLock

LEMMA FinishSound ==
  ASSUME QueueAssumption, QueueInv, NEW c \in Sessions, NEW i, NEW status \in Terminal,
         Finish(c, i, status)
  PROVE  QueueInv'
<1>1. CASE ~ Owns(c, i)
  BY <1>1 DEF Finish, QueueInv, TypeOK, SchemaHolds, WaitingAlone, AttemptsLeft, ClaimsSound
<1>2. CASE Owns(c, i)
  <2> DEFINE new == Unleased(rows[i], status, rows[i].nextAttempt)
  <2>1. i \in DOMAIN rows /\ rows[i] \in Row /\ rows[i].status = "processing"
    BY <1>2 DEF Owns, QueueInv, TypeOK
  <2>2. /\ new \in Row /\ new.status = status
        /\ new.owner = Null /\ new.leaseExpires = Null
        /\ new.scope = rows[i].scope /\ new.ruleset = rows[i].ruleset
        /\ new.sel = rows[i].sel /\ new.plan = rows[i].plan
    BY <2>1 DEF Unleased, Row
  <2>3. RowCheck(new)
    BY <2>1, <2>2
    DEF QueueInv, SchemaHolds, RowCheck, HashesCheck, LeaseCheck, Terminal
  <2>4. rows' = [rows EXCEPT ![i] = new] /\ UNCHANGED <<lastId, snapshot, now>>
    BY <1>2 DEF Finish
  <2> HIDE DEF new
  <2> QED BY <2>1, <2>2, <2>3, <2>4, OneRow DEF Waiting, Terminal
<1> QED BY <1>1, <1>2

LEMMA ReleaseSound ==
  ASSUME QueueAssumption, QueueInv, NEW c \in Sessions, NEW i, ReleaseForRetry(c, i)
  PROVE  QueueInv'
<1>1. CASE ~ (Owns(c, i) /\ rows[i].attempts < MaxAttempts)
  BY <1>1, FinishSound DEF ReleaseForRetry, Terminal
<1>2. CASE Owns(c, i) /\ rows[i].attempts < MaxAttempts
  <2> DEFINE new == Unleased(rows[i], "pending", now + RetryMs)
  <2>1. i \in DOMAIN rows /\ rows[i] \in Row /\ rows[i].status = "processing"
    BY <1>2 DEF Owns, QueueInv, TypeOK
  <2>2. /\ new \in Row /\ new.status = "pending" /\ new.attempts = rows[i].attempts
        /\ new.owner = Null /\ new.leaseExpires = Null
        /\ new.scope = rows[i].scope /\ new.ruleset = rows[i].ruleset
        /\ new.sel = rows[i].sel /\ new.plan = rows[i].plan
    <3>1. now + RetryMs \in Nat
      BY DEF QueueInv, TypeOK, QueueAssumption
    <3> QED BY <2>1, <3>1 DEF Unleased, Row, InFlight
  <2>3. RowCheck(new)
    BY <2>1, <2>2 DEF QueueInv, SchemaHolds, RowCheck, HashesCheck, LeaseCheck
  <2>4. rows' = [rows EXCEPT ![i] = new] /\ UNCHANGED <<lastId, snapshot, now>>
    BY <1>2 DEF ReleaseForRetry
  <2> HIDE DEF new
  <2> QED BY <1>2, <2>1, <2>2, <2>3, <2>4, OneRow DEF Waiting
<1> QED BY <1>1, <1>2

LEMMA FailWaitingSound ==
  ASSUME QueueAssumption, QueueInv, NEW c \in Sessions, FailWaitingLock(c)
  PROVE  QueueInv'
<1> DEFINE failed(i) == FailedWaiting(i)
<1>0. /\ UNCHANGED <<lastId, now>>
      /\ snapshot' = [snapshot EXCEPT ![c] = NoStatement]
      /\ DOMAIN rows' = DOMAIN rows
      /\ rows' = [i \in DOMAIN rows |-> rows'[i]]
      /\ \A i \in DOMAIN rows :
           rows'[i] = rows[i] \/ (rows'[i] = failed(i) /\ RowCheck(failed(i)))
  BY DEF FailWaitingLock
<1>1. \A i \in DOMAIN rows :
        /\ failed(i) \in Row /\ failed(i).status = "failed"
        /\ failed(i).scope = rows[i].scope /\ failed(i).ruleset = rows[i].ruleset
        /\ failed(i).sel = rows[i].sel /\ failed(i).plan = rows[i].plan
  BY DEF FailedWaiting, QueueInv, TypeOK, Row, Terminal
<1> HIDE DEF failed
<1>2. TypeOK'
  BY <1>0, <1>1 DEF QueueInv, TypeOK, NoStatement
<1>3. SchemaHolds' /\ WaitingAlone'
  BY <1>0, <1>1, SameKeys DEF QueueInv, SchemaHolds
<1>4. AttemptsLeft'
  BY <1>0, <1>1 DEF QueueInv, AttemptsLeft, Waiting
<1>5. ClaimsSound'
  <2>1. \A i \in DOMAIN rows : rows'[i].sel = rows[i].sel /\ rows'[i].plan = rows[i].plan
    BY <1>0, <1>1
  <2>2. \A d \in Sessions : snapshot'[d] = snapshot[d] \/ snapshot'[d].op = "none"
    BY <1>0 DEF QueueInv, TypeOK, NoStatement
  <2> QED BY <1>0, <2>1, <2>2 DEF QueueInv, ClaimsSound
<1> QED BY <1>2, <1>3, <1>4, <1>5 DEF QueueInv

LEMMA SnapshotSound ==
  ASSUME QueueAssumption, QueueInv, NEW c \in Sessions,
         \/ ClaimSnapshot(c)
         \/ \E s \in Scopes, r \in Rulesets, sel \in Selections \cup {Null} :
               FailWaitingSnapshot(c, s, r, sel)
  PROVE  QueueInv'
<1>1. DOMAIN rows \subseteq Nat
  BY DEF QueueInv, TypeOK
<1>2. \A i \in Candidates : i \in DOMAIN rows /\ rows[i].sel # Null /\ rows[i].plan # Null
  BY DEF QueueInv, SchemaHolds, RowCheck, HashesCheck, Candidates, Heads, InFlight
<1>3. Candidates \subseteq DOMAIN rows
  BY DEF Candidates, Heads
<1>4. UNCHANGED <<rows, lastId, now>>
  BY DEF ClaimSnapshot, FailWaitingSnapshot
<1>5. \E op \in {"claim", "fail"} : \E ids \in SUBSET DOMAIN rows :
        /\ snapshot' = [snapshot EXCEPT ![c] = [op |-> op, ids |-> ids, at |-> now]]
        /\ op = "claim" => ids = Candidates
  BY <1>3 DEF ClaimSnapshot, FailWaitingSnapshot, Of
<1>6. TypeOK'
  BY <1>1, <1>4, <1>5 DEF QueueInv, TypeOK
<1>7. ClaimsSound'
  BY <1>2, <1>4, <1>5 DEF QueueInv, TypeOK, ClaimsSound
<1> QED BY <1>4, <1>6, <1>7 DEF QueueInv, SchemaHolds, WaitingAlone, AttemptsLeft

LEMMA AbandonSound == ASSUME QueueInv, NEW c \in Sessions, Abandon(c) PROVE QueueInv'
BY DEF Abandon, NoStatement, QueueInv, TypeOK, SchemaHolds, WaitingAlone, AttemptsLeft,
       ClaimsSound

LEMMA InitSound == ASSUME QueueAssumption, Init PROVE QueueInv
BY DEF QueueAssumption, Init, QueueInv, TypeOK, SchemaHolds, WaitingAlone, AttemptsLeft,
       ClaimsSound, NoStatement

\* Every step of the table preserves the invariant, one action at a time.
LEMMA StepSound == ASSUME QueueAssumption, QueueInv, [Next]_queueVars PROVE QueueInv'
<1>1. CASE Request
  BY <1>1, EnqueueSound DEF Request
<1>2. ASSUME NEW c \in Sessions, Operation(c) PROVE QueueInv'
  <2>1. CASE ClaimLock(c)
    BY <2>1, ClaimSound
  <2>2. CASE FailWaitingLock(c)
    BY <2>2, FailWaitingSound
  <2>3. CASE \/ ClaimSnapshot(c)
             \/ \E s \in Scopes, r \in Rulesets, sel \in Selections \cup {Null} :
                   FailWaitingSnapshot(c, s, r, sel)
    BY <2>3, SnapshotSound
  <2>4. ASSUME NEW i \in DOMAIN rows,
               Complete(c, i) \/ Fail(c, i) \/ Supersede(c, i) \/ ReleaseForRetry(c, i)
        PROVE  QueueInv'
    BY <2>4, FinishSound, ReleaseSound DEF Complete, Fail, Supersede, Terminal
  <2>5. CASE Abandon(c)
    BY <2>5, AbandonSound
  <2> QED BY <1>2, <2>1, <2>2, <2>3, <2>4, <2>5 DEF Operation
<1>3. CASE Tick
  BY <1>3 DEF Tick, QueueInv, TypeOK, SchemaHolds, WaitingAlone, AttemptsLeft, ClaimsSound
<1>4. CASE UNCHANGED queueVars
  BY <1>4 DEF queueVars, QueueInv, TypeOK, SchemaHolds, WaitingAlone, AttemptsLeft, ClaimsSound
<1> QED BY <1>1, <1>2, <1>3, <1>4 DEF Next

\* In every reachable state the table has its type.
THEOREM TypeCorrect == ASSUME QueueAssumption PROVE Spec => []TypeOK
<1>1. QueueInv => TypeOK
  BY DEF QueueInv
<1> QED BY <1>1, InitSound, StepSound, PTL DEF Spec

\* The constraints of the migration hold of every row the adapter writes.
THEOREM SchemaCorrect == ASSUME QueueAssumption PROVE Spec => []SchemaHolds
<1>1. QueueInv => SchemaHolds
  BY DEF QueueInv
<1> QED BY <1>1, InitSound, StepSound, PTL DEF Spec

\* No waiting duplicate survives beside the request that answers it.
THEOREM WaitingUnique == ASSUME QueueAssumption PROVE Spec => []WaitingAlone
<1>1. QueueInv => WaitingAlone
  BY DEF QueueInv
<1> QED BY <1>1, InitSound, StepSound, PTL DEF Spec

\* The retry cap: a request is only handed back with an attempt left.
THEOREM RetriesCapped == ASSUME QueueAssumption PROVE Spec => []AttemptsLeft
<1>1. QueueInv => AttemptsLeft
  BY DEF QueueInv
<1> QED BY <1>1, InitSound, StepSound, PTL DEF Spec

-----------------------------------------------------------------------------
(* What a step does to one row of the table.                               *)

Kept(i) == i \in DOMAIN rows' /\ rows'[i] = rows[i]

\* A waiting row is deleted, or gets its missing half.
Answered(i) ==
  /\ rows[i].status \in Waiting
  /\ i \in DOMAIN rows' =>
       /\ rows'[i].attempts = rows[i].attempts /\ rows'[i].status = "pending"
       /\ rows'[i].scope = rows[i].scope
       /\ rows[i].sel # Null => rows'[i].sel = rows[i].sel
       /\ rows[i].plan # Null => rows'[i].plan = rows[i].plan

SameHashes(i) ==
  /\ i \in DOMAIN rows' /\ rows'[i].scope = rows[i].scope
  /\ rows'[i].sel = rows[i].sel /\ rows'[i].plan = rows[i].plan

Started(i) ==
  /\ SameHashes(i) /\ rows'[i].attempts = rows[i].attempts + 1
  /\ rows'[i].status = "processing"
  /\ \E c \in Sessions : snapshot[c].op = "claim" /\ i \in snapshot[c].ids

Unstarted(i) ==
  /\ SameHashes(i) /\ rows'[i].attempts = rows[i].attempts
  /\ rows'[i].owner = Null /\ rows[i].status = "processing"

Refused(i) ==
  /\ SameHashes(i) /\ rows'[i].attempts = rows[i].attempts
  /\ rows'[i].status = "failed" /\ RowCheck(FailedWaiting(i))
  /\ \E c \in Sessions : snapshot[c].op = "fail" /\ i \in snapshot[c].ids

RowStep(i) == Kept(i) \/ Answered(i) \/ Started(i) \/ Unstarted(i) \/ Refused(i)

LEMMA EnqueueRows ==
  ASSUME QueueAssumption, QueueInv, NEW s \in Scopes, NEW r \in Rulesets,
         NEW sel \in Selections \cup {Null}, NEW p \in Plans \cup {Null},
         EnqueueOrReconcile(s, r, sel, p), NEW i \in DOMAIN rows
  PROVE  Kept(i) \/ Answered(i)
<1>1. ASSUME NEW row, Insert(row) PROVE Kept(i)
  BY <1>1 DEF Insert, Kept, QueueInv, TypeOK
<1>2. ASSUME NEW ids, \A k \in ids : rows[k].status \in Waiting, rows' = Delete(ids)
      PROVE  Kept(i) \/ Answered(i)
  BY <1>2 DEF Delete, Restrict, Kept, Answered
<1>3. ASSUME NEW k, NEW ids, Promote(k, sel, p, ids), k \in DOMAIN rows,
             rows[k].status \in Waiting, rows[k].sel \in {sel, Null}, rows[k].plan \in {p, Null},
             \A j \in ids : rows[j].status \in Waiting
      PROVE  Kept(i) \/ Answered(i)
  <2>1. CASE i \in ids
    BY <1>3, <2>1 DEF Promote, Answered
  <2>2. CASE i \notin ids /\ i # k
    BY <1>3, <2>2 DEF Promote, Kept
  <2>3. CASE i \notin ids /\ i = k
    <3>1. rows[i] \in Row
      BY DEF QueueInv, TypeOK
    <3>2. rows'[i] = [rows[i] EXCEPT !.sel = sel, !.plan = p, !.status = "pending"]
      BY <1>3, <2>3 DEF Promote
    <3>3. /\ rows'[i].attempts = rows[i].attempts /\ rows'[i].status = "pending"
          /\ rows'[i].scope = rows[i].scope
          /\ rows'[i].sel = sel /\ rows'[i].plan = p
      BY <3>1, <3>2 DEF Row
    <3> QED BY <1>3, <2>3, <3>3 DEF Answered
  <2> QED BY <2>1, <2>2, <2>3
<1>4. /\ \A k \in AwaitingPlan(s, r, sel) :
           /\ k \in DOMAIN rows /\ rows[k].status \in Waiting
           /\ rows[k].sel = sel /\ rows[k].plan = Null
      /\ \A k \in AwaitingEvidence(s, r, p) :
           /\ k \in DOMAIN rows /\ rows[k].status \in Waiting
           /\ rows[k].sel = Null /\ rows[k].plan = p
  BY DEF AwaitingPlan, AwaitingEvidence, Of, Waiting, QueueInv, SchemaHolds,
         RowCheck, HashesCheck
<1>5. CASE EnqueueBoth(s, r, sel, p)
  <2>1. CASE ReuseReady(s, r, sel, p)
    BY <1>2, <1>4, <2>1 DEF ReuseReady
  <2>2. CASE PromoteAwaitingPlan(s, r, sel, p)
    BY <1>3, <1>4, <2>2 DEF PromoteAwaitingPlan
  <2>3. CASE PromoteAwaitingEvidence(s, r, sel, p)
    BY <1>3, <1>4, <2>3 DEF PromoteAwaitingEvidence
  <2>4. CASE InsertPending(s, r, sel, p)
    BY <1>1, <2>4 DEF InsertPending
  <2> QED BY <1>5, <2>1, <2>2, <2>3, <2>4 DEF EnqueueBoth
<1>6. CASE EnqueueSelection(s, r, sel)
  BY <1>1, <1>6 DEF EnqueueSelection, Kept
<1>7. CASE EnqueuePlan(s, r, p)
  BY <1>1, <1>7 DEF EnqueuePlan, Kept
<1> QED BY <1>5, <1>6, <1>7 DEF EnqueueOrReconcile

LEMMA FinishRows ==
  ASSUME QueueAssumption, QueueInv, NEW c \in Sessions, NEW k, NEW i \in DOMAIN rows,
         NEW status, Finish(c, k, status) \/ ReleaseForRetry(c, k)
  PROVE  Kept(i) \/ Unstarted(i)
<1>0. rows[i] \in Row
  BY DEF QueueInv, TypeOK
<1>1. ASSUME NEW st, NEW next,
             rows' = [rows EXCEPT ![k] = Unleased(@, st, next)], Owns(c, k)
      PROVE  Kept(i) \/ Unstarted(i)
  <2>1. CASE i # k
    BY <1>1, <2>1 DEF Kept
  <2>2. CASE i = k
    BY <1>0, <1>1, <2>2 DEF Unstarted, SameHashes, Unleased, Owns, Row
  <2> QED BY <2>1, <2>2
<1>2. ASSUME NEW st, Finish(c, k, st) PROVE Kept(i) \/ Unstarted(i)
  <2>1. CASE Owns(c, k)
    <3>1. rows' = [rows EXCEPT ![k] = Unleased(@, st, rows[k].nextAttempt)]
      BY <1>2, <2>1 DEF Finish
    <3> QED BY <1>1, <2>1, <3>1
  <2> QED BY <1>2, <2>1 DEF Finish, Kept
<1> QED BY <1>1, <1>2 DEF ReleaseForRetry

LEMMA StepRows ==
  ASSUME QueueAssumption, QueueInv, [Next]_queueVars, NEW i \in DOMAIN rows
  PROVE  RowStep(i)
<1>0. rows[i] \in Row
  BY DEF QueueInv, TypeOK
<1>1. CASE UNCHANGED rows
  BY <1>1 DEF RowStep, Kept
<1>2. CASE Request
  BY <1>2, EnqueueRows DEF Request, RowStep
<1>3. ASSUME NEW c \in Sessions, Operation(c), rows' # rows PROVE RowStep(i)
  <2>1. CASE ClaimLock(c)
    <3>1. PICK k \in snapshot[c].ids :
                 rows' = [rows EXCEPT ![k] = Claimed(@, c, snapshot[c].at)]
      BY <1>3, <2>1 DEF ClaimLock
    <3>2. CASE i # k
      BY <3>1, <3>2 DEF Kept, RowStep
    <3>3. CASE i = k
      <4>1. rows'[i] = Claimed(rows[i], c, snapshot[c].at)
        BY <3>1, <3>3
      <4> QED BY <1>0, <2>1, <3>1, <3>3, <4>1
              DEF ClaimLock, Claimed, Row, Started, SameHashes, RowStep
    <3> QED BY <3>2, <3>3
  <2>2. CASE FailWaitingLock(c)
    <3> DEFINE failed == FailedWaiting(i)
    <3>1. \/ rows'[i] = rows[i]
          \/ i \in snapshot[c].ids /\ RowCheck(failed) /\ rows'[i] = failed
      BY <2>2 DEF FailWaitingLock
    <3>2. i \in DOMAIN rows' /\ snapshot[c].op = "fail"
      BY <2>2 DEF FailWaitingLock
    <3>3. /\ failed.sel = rows[i].sel /\ failed.plan = rows[i].plan
          /\ failed.attempts = rows[i].attempts
          /\ failed.scope = rows[i].scope /\ failed.status = "failed"
      BY <1>0 DEF FailedWaiting, Row
    <3> QED BY <3>1, <3>2, <3>3 DEF Kept, Refused, SameHashes, RowStep
  <2>3. CASE ClaimSnapshot(c)
    BY <1>3, <2>3 DEF ClaimSnapshot
  <2>4. ASSUME NEW k \in DOMAIN rows,
               Complete(c, k) \/ Fail(c, k) \/ Supersede(c, k) \/ ReleaseForRetry(c, k)
        PROVE  RowStep(i)
    BY <2>4, FinishRows DEF Complete, Fail, Supersede, RowStep
  <2> QED BY <1>3, <2>1, <2>2, <2>3, <2>4 DEF Operation, FailWaitingSnapshot, Abandon
<1> QED BY <1>1, <1>2, <1>3 DEF Next, Tick, queueVars

\* A request with both hashes is permanent, and so are the hashes and the
\* attempts of every request.
THEOREM IdentityKept == ASSUME QueueAssumption PROVE Spec => IdentityPermanent
<1>1. ASSUME QueueInv, [Next]_queueVars
      PROVE  \A i \in DOMAIN rows : KeepsIdentity(i)
  <2> TAKE i \in DOMAIN rows
  <2>1. rows[i].attempts \in Nat
    BY <1>1 DEF QueueInv, TypeOK, Row
  <2>2. RowStep(i)
    BY <1>1, StepRows
  <2> QED BY <2>1, <2>2
          DEF RowStep, Kept, Answered, Started, Unstarted, Refused, SameHashes, KeepsIdentity
<1> QED BY <1>1, InitSound, StepSound, PTL DEF Spec, IdentityPermanent

\* A row that a step adds is a request that nobody has worked on.
LEMMA StepNew ==
  ASSUME QueueAssumption, QueueInv, [Next]_queueVars, NEW i \in DOMAIN rows' \ DOMAIN rows
  PROVE  rows'[i].status \in Waiting \cup {"pending"}
<1>1. ASSUME NEW c \in Sessions, Operation(c) PROVE DOMAIN rows' = DOMAIN rows
  BY <1>1
  DEF Operation, ClaimLock, FailWaitingLock, Abandon, ClaimSnapshot, FailWaitingSnapshot,
      Complete, Fail, Supersede, ReleaseForRetry, Finish
<1>2. PICK s \in Scopes, r \in Rulesets, sel \in Selections \cup {Null}, p \in Plans \cup {Null} :
        EnqueueOrReconcile(s, r, sel, p)
  BY <1>1 DEF Next, Tick, queueVars, Request
<1>3. ASSUME NEW row, Insert(row) PROVE rows'[i] = row
  BY <1>3 DEF Insert
<1>4. ~ ReuseReady(s, r, sel, p)
  BY DEF ReuseReady, Delete, Restrict
<1>5. \A k, ids : ~ Promote(k, sel, p, ids)
  BY DEF Promote
<1> QED BY <1>2, <1>3, <1>4, <1>5
        DEF EnqueueOrReconcile, EnqueueBoth, EnqueueSelection, EnqueuePlan, InsertPending,
            PromoteAwaitingPlan, PromoteAwaitingEvidence, NewRow, Waiting

\* What row i stands for is still asked for: a row of its scope has each half
\* that i has.
Answers(i) ==
  \E k \in DOMAIN rows' :
    /\ rows'[k].scope = rows[i].scope
    /\ rows[i].sel # Null => rows'[k].sel = rows[i].sel
    /\ rows[i].plan # Null => rows'[k].plan = rows[i].plan

\* A reconciliation that deletes a waiting row leaves one that has its half.
LEMMA EnqueueAnswers ==
  ASSUME QueueAssumption, QueueInv, NEW s \in Scopes, NEW r \in Rulesets,
         NEW sel \in Selections \cup {Null}, NEW p \in Plans \cup {Null},
         EnqueueOrReconcile(s, r, sel, p), NEW i \in DOMAIN rows
  PROVE  Answers(i)
<1>1. Kept(i) \/ Answered(i)
  BY EnqueueRows
<1>2. CASE i \in DOMAIN rows'
  BY <1>1, <1>2 DEF Kept, Answered, Answers
<1>3. CASE i \notin DOMAIN rows'
  <2>1. /\ \A k \in AwaitingPlan(s, r, sel) :
             rows[k].scope = s /\ rows[k].sel = sel /\ rows[k].plan = Null
        /\ \A k \in AwaitingEvidence(s, r, p) :
             rows[k].scope = s /\ rows[k].sel = Null /\ rows[k].plan = p
    BY DEF AwaitingPlan, AwaitingEvidence, Of, QueueInv, SchemaHolds, RowCheck, HashesCheck
  <2>2. ASSUME NEW row, Insert(row) PROVE FALSE
    BY <1>3, <2>2 DEF Insert
  <2>3. CASE ReuseReady(s, r, sel, p)
    <3>1. i \in AwaitingPlan(s, r, sel) \cup AwaitingEvidence(s, r, p)
      BY <1>3, <2>3 DEF ReuseReady, Delete, Restrict
    <3>2. PICK k \in Ready(s, r, sel, p) : TRUE
      BY <2>3 DEF ReuseReady
    <3>3. CASE sel # Null /\ p # Null
      <4>1. k \in DOMAIN rows /\ rows[k].scope = s /\ rows[k].sel = sel /\ rows[k].plan = p
        BY <3>2 DEF Ready, Of
      <4>2. k \in DOMAIN rows' /\ rows'[k] = rows[k]
        BY <2>1, <2>3, <3>3, <4>1 DEF ReuseReady, Delete, Restrict
      <4> QED BY <2>1, <3>1, <4>1, <4>2 DEF Answers
    <3> QED BY <1>3, <2>2, <3>3 DEF EnqueueOrReconcile, EnqueueSelection, EnqueuePlan
  <2>4. ASSUME NEW k \in DOMAIN rows, NEW ids, Promote(k, sel, p, ids), k \notin ids,
               rows[k].scope = s,
               ids \subseteq AwaitingPlan(s, r, sel) \cup AwaitingEvidence(s, r, p)
        PROVE  Answers(i)
    <3>1. rows[k] \in Row
      BY DEF QueueInv, TypeOK
    <3>2. /\ k \in DOMAIN rows' /\ rows'[k].scope = s
          /\ rows'[k].sel = sel /\ rows'[k].plan = p
      BY <2>4, <3>1 DEF Promote, Row
    <3>3. i \in AwaitingPlan(s, r, sel) \cup AwaitingEvidence(s, r, p)
      BY <1>3, <2>4 DEF Promote
    <3> QED BY <2>1, <3>2, <3>3 DEF Answers
  <2>5. CASE PromoteAwaitingPlan(s, r, sel, p) /\ sel # Null
    <3>1. PICK k \in AwaitingPlan(s, r, sel) : Promote(k, sel, p, AwaitingEvidence(s, r, p))
      BY <2>5 DEF PromoteAwaitingPlan
    <3>2. k \in DOMAIN rows /\ k \notin AwaitingEvidence(s, r, p)
      BY <2>1, <2>5 DEF AwaitingPlan, Of
    <3> QED BY <2>1, <2>4, <3>1, <3>2
  <2>6. CASE PromoteAwaitingEvidence(s, r, sel, p) /\ sel # Null
    <3>1. PICK k \in AwaitingEvidence(s, r, p) : Promote(k, sel, p, AwaitingPlan(s, r, sel))
      BY <2>6 DEF PromoteAwaitingEvidence
    <3>2. k \in DOMAIN rows /\ k \notin AwaitingPlan(s, r, sel)
      BY <2>1, <2>6 DEF AwaitingEvidence, Of
    <3> QED BY <2>1, <2>4, <3>1, <3>2
  <2> QED BY <1>3, <2>2, <2>3, <2>5, <2>6
          DEF EnqueueOrReconcile, EnqueueBoth, EnqueueSelection, EnqueuePlan, InsertPending
<1> QED BY <1>2, <1>3

\* No step of the table forgets a half: what was asked for of a scope, some row
\* of that scope still asks for.
LEMMA StepAnswers ==
  ASSUME QueueAssumption, QueueInv, [Next]_queueVars, NEW i \in DOMAIN rows
  PROVE  Answers(i)
<1>1. CASE Request
  BY <1>1, EnqueueAnswers DEF Request
<1>2. CASE ~ Answered(i)
  BY <1>2, StepRows DEF RowStep, Kept, Started, Unstarted, Refused, SameHashes, Answers
<1>3. CASE i \in DOMAIN rows'
  BY <1>3, StepRows
  DEF RowStep, Kept, Answered, Started, Unstarted, Refused, SameHashes, Answers
<1>4. CASE ~ Request /\ i \notin DOMAIN rows'
  <2>1. ASSUME NEW c \in Sessions, Operation(c) PROVE DOMAIN rows' = DOMAIN rows
    BY <2>1
    DEF Operation, ClaimLock, FailWaitingLock, Abandon, ClaimSnapshot, FailWaitingSnapshot,
        Complete, Fail, Supersede, ReleaseForRetry, Finish
  <2> QED BY <1>4, <2>1 DEF Next, Tick, queueVars
<1> QED BY <1>1, <1>2, <1>3, <1>4

\* Whatever the table held, after a request is made some row asks for all that
\* it asked for.
LEMMA EnqueueAsked ==
  ASSUME QueueAssumption, QueueInv, NEW s \in Scopes, NEW r \in Rulesets,
         NEW sel \in Selections \cup {Null}, NEW p \in Plans \cup {Null},
         EnqueueOrReconcile(s, r, sel, p)
  PROVE  \E i \in DOMAIN rows' :
            /\ rows'[i].scope = s
            /\ sel # Null => rows'[i].sel = sel
            /\ p # Null => rows'[i].plan = p
<1> DEFINE Asked == \E i \in DOMAIN rows' :
                      /\ rows'[i].scope = s
                      /\ sel # Null => rows'[i].sel = sel
                      /\ p # Null => rows'[i].plan = p
<1>1. /\ \A k \in AwaitingPlan(s, r, sel) :
           k \in DOMAIN rows /\ rows[k].scope = s /\ rows[k].plan = Null
      /\ \A k \in AwaitingEvidence(s, r, p) :
           k \in DOMAIN rows /\ rows[k].scope = s /\ rows[k].sel = Null
  BY DEF AwaitingPlan, AwaitingEvidence, Of, QueueInv, SchemaHolds, RowCheck, HashesCheck
<1>2. ASSUME NEW e, NEW h, NEW st, Insert(NewRow(s, r, e, h, st)), e = sel, h = p PROVE Asked
  BY <1>2 DEF Insert, NewRow
<1>3. CASE sel # Null /\ p # Null /\ ReuseReady(s, r, sel, p)
  <2>1. PICK k \in Ready(s, r, sel, p) : TRUE
    BY <1>3 DEF ReuseReady
  <2>2. k \in DOMAIN rows /\ rows[k].scope = s /\ rows[k].sel = sel /\ rows[k].plan = p
    BY <2>1 DEF Ready, Of
  <2>3. k \in DOMAIN rows' /\ rows'[k] = rows[k]
    BY <1>1, <1>3, <2>2 DEF ReuseReady, Delete, Restrict
  <2> QED BY <2>2, <2>3
<1>4. ASSUME NEW k \in DOMAIN rows, NEW ids, Promote(k, sel, p, ids), k \notin ids,
             rows[k].scope = s
      PROVE  Asked
  <2>1. rows[k] \in Row
    BY DEF QueueInv, TypeOK
  <2> QED BY <1>4, <2>1 DEF Promote, Row
<1>5. CASE sel # Null /\ p # Null /\ PromoteAwaitingPlan(s, r, sel, p)
  <2>1. PICK k \in AwaitingPlan(s, r, sel) : Promote(k, sel, p, AwaitingEvidence(s, r, p))
    BY <1>5 DEF PromoteAwaitingPlan
  <2>2. k \notin AwaitingEvidence(s, r, p)
    BY <1>1, <1>5 DEF AwaitingPlan
  <2> QED BY <1>1, <1>4, <2>1, <2>2
<1>6. CASE sel # Null /\ p # Null /\ PromoteAwaitingEvidence(s, r, sel, p)
  <2>1. PICK k \in AwaitingEvidence(s, r, p) : Promote(k, sel, p, AwaitingPlan(s, r, sel))
    BY <1>6 DEF PromoteAwaitingEvidence
  <2>2. k \notin AwaitingPlan(s, r, sel)
    BY <1>1, <1>6 DEF AwaitingEvidence
  <2> QED BY <1>1, <1>4, <2>1, <2>2
<1>7. CASE sel # Null /\ p = Null /\ EnqueueSelection(s, r, sel)
  BY <1>2, <1>7 DEF EnqueueSelection, Of
<1>8. CASE sel = Null /\ p # Null /\ EnqueuePlan(s, r, p)
  BY <1>2, <1>8 DEF EnqueuePlan, Of
<1> QED BY <1>2, <1>3, <1>5, <1>6, <1>7, <1>8 DEF EnqueueOrReconcile, EnqueueBoth, InsertPending

-----------------------------------------------------------------------------
(* One statement at a time.                                                *)

\* A statement begun is the only one, and what it chose still stands.
SerialInv ==
  /\ \A c, d \in Sessions :
        snapshot[c] # NoStatement /\ snapshot[d] # NoStatement => c = d
  /\ \A c \in Sessions :
        /\ snapshot[c].op = "claim" => /\ snapshot[c].ids \subseteq Candidates
                                       /\ snapshot[c].at = now
        /\ snapshot[c].op = "fail" => \A i \in snapshot[c].ids :
              rows[i].status = "waiting_for_plan" /\ i \in DOMAIN rows

LEMMA SerialInit == Init => SerialInv
BY DEF Init, SerialInv, NoStatement

LEMMA SerialStep ==
  ASSUME QueueAssumption, Overlap = FALSE, QueueInv, SerialInv, [Next]_queueVars
  PROVE  SerialInv'
<1> DEFINE None == \A d \in Sessions : snapshot[d] = NoStatement
<1>0. None /\ UNCHANGED snapshot => SerialInv'
  BY DEF SerialInv, NoStatement
<1>1. ASSUME NEW c \in Sessions, snapshot[c] # NoStatement,
             snapshot' = [snapshot EXCEPT ![c] = NoStatement]
      PROVE  SerialInv'
  <2>1. \A d \in Sessions : snapshot'[d] = NoStatement
    BY <1>1 DEF SerialInv, QueueInv, TypeOK
  <2> QED BY <2>1 DEF SerialInv, NoStatement
<1>2. CASE Request
  BY <1>0, <1>2 DEF Request, Quiet, EnqueueOrReconcile
<1>3. ASSUME NEW c \in Sessions, Operation(c) PROVE SerialInv'
  <2>1. CASE ClaimLock(c) \/ FailWaitingLock(c) \/ Abandon(c)
    BY <1>1, <2>1 DEF ClaimLock, FailWaitingLock, Abandon, NoStatement
  <2>2. CASE Quiet /\ ClaimSnapshot(c)
    <3>1. None /\ Candidates' = Candidates
      BY <2>2 DEF Quiet, ClaimSnapshot, Candidates, Heads, Due
    <3>2. /\ \A d \in Sessions : d # c => snapshot'[d] = NoStatement
          /\ snapshot'[c].op = "claim" /\ snapshot'[c].ids = Candidates
          /\ snapshot'[c].at = now /\ now' = now
      BY <2>2, <3>1 DEF ClaimSnapshot, QueueInv, TypeOK
    <3> QED BY <3>1, <3>2 DEF SerialInv, NoStatement
  <2>3. CASE Quiet /\ \E s \in Scopes, r \in Rulesets, sel \in Selections \cup {Null} :
                         FailWaitingSnapshot(c, s, r, sel)
    <3>1. None /\ UNCHANGED rows
      BY <2>3 DEF Quiet, FailWaitingSnapshot
    <3>2. PICK i \in DOMAIN rows :
            /\ rows[i].status = "waiting_for_plan"
            /\ snapshot' = [snapshot EXCEPT ![c] = [op |-> "fail", ids |-> {i}, at |-> now]]
      BY <2>3 DEF FailWaitingSnapshot, Of
    <3>3. /\ \A d \in Sessions : d # c => snapshot'[d] = NoStatement
          /\ snapshot'[c].op = "fail" /\ snapshot'[c].ids = {i}
      BY <3>1, <3>2 DEF QueueInv, TypeOK
    <3> QED BY <3>1, <3>2, <3>3 DEF SerialInv, NoStatement
  <2>4. ASSUME Quiet, NEW i \in DOMAIN rows,
               Complete(c, i) \/ Fail(c, i) \/ Supersede(c, i) \/ ReleaseForRetry(c, i)
        PROVE  SerialInv'
    BY <1>0, <2>4 DEF Quiet, Complete, Fail, Supersede, ReleaseForRetry, Finish
  <2> QED BY <1>3, <2>1, <2>2, <2>3, <2>4 DEF Operation
<1>4. CASE Quiet /\ Tick
  BY <1>0, <1>4 DEF Quiet, Tick
<1>5. CASE UNCHANGED queueVars
  BY <1>5 DEF queueVars, SerialInv, Candidates, Heads, Due
<1> QED BY <1>2, <1>3, <1>4, <1>5 DEF Next

\* With whole statements, a row only starts when it is the due head of its
\* scope, and failWaitingForPlan never gets past the CHECK.
LEMMA SerialRows ==
  ASSUME QueueAssumption, QueueInv, SerialInv, [Next]_queueVars, NEW i \in DOMAIN rows
  PROVE  Kept(i) \/ Answered(i) \/ (Started(i) /\ i \in Candidates) \/ Unstarted(i)
<1>1. RowStep(i)
  BY StepRows
<1>2. Started(i) => i \in Candidates
  BY DEF Started, SerialInv
<1>3. ~ Refused(i)
  <2>1. rows[i] \in Row /\ RowCheck(rows[i])
    BY DEF QueueInv, TypeOK, SchemaHolds
  <2>2. Refused(i) => rows[i].plan = Null
    BY <2>1 DEF Refused, SerialInv, RowCheck, HashesCheck
  <2> QED BY <2>1, <2>2 DEF Refused, FailedWaiting, Row, RowCheck, HashesCheck
<1> QED BY <1>1, <1>2, <1>3 DEF RowStep

\* Where statements do not overlap, an outcome is final, a live lease is never
\* stolen and the head of a scope holds back the rest.
LEMMA SerialActions ==
  ASSUME QueueAssumption, QueueInv, SerialInv, [Next]_queueVars
  PROVE  /\ \A i \in DOMAIN rows : KeepsOutcome(i) /\ KeepsLease(i)
         /\ \A i, j \in DOMAIN rows : Blocks(i, j)
<1>1. ASSUME NEW i \in DOMAIN rows PROVE KeepsOutcome(i) /\ KeepsLease(i)
  <2>1. Kept(i) => KeepsOutcome(i) /\ KeepsLease(i)
    BY DEF Kept, KeepsOutcome, KeepsLease
  <2>2. Answered(i) => KeepsOutcome(i) /\ KeepsLease(i)
    BY DEF Answered, KeepsOutcome, KeepsLease, Waiting, Terminal
  <2>3. Started(i) /\ i \in Candidates => KeepsOutcome(i) /\ KeepsLease(i)
    <3>1. rows[i] \in Row /\ LeaseCheck(rows[i]) /\ now \in Nat
      BY DEF QueueInv, TypeOK, SchemaHolds, RowCheck
    <3> QED BY <3>1 DEF Candidates, Heads, Due, KeepsOutcome, KeepsLease, InFlight,
                        Terminal, LeaseCheck, Row
  <2>4. Unstarted(i) => KeepsOutcome(i) /\ KeepsLease(i)
    BY DEF Unstarted, SameHashes, KeepsOutcome, KeepsLease, Terminal
  <2> QED BY <2>1, <2>2, <2>3, <2>4, SerialRows
<1>2. ASSUME NEW i \in DOMAIN rows, NEW j \in DOMAIN rows PROVE Blocks(i, j)
  <2>1. i \in Int /\ j \in Int
    BY DEF QueueInv, TypeOK
  <2>2. Kept(j) \/ Answered(j) \/ Unstarted(j) => Blocks(i, j)
    BY DEF Kept, Answered, Unstarted, SameHashes, Blocks
  <2>3. j \in Candidates => Blocks(i, j)
    BY <2>1 DEF Candidates, Heads, Blocks
  <2> QED BY <2>2, <2>3, SerialRows
<1> QED BY <1>1, <1>2

\* An outcome is final when statements do not overlap.
THEOREM OutcomeFinal ==
  ASSUME QueueAssumption, Overlap = FALSE PROVE Spec => TerminalFinal
<1>1. QueueInv /\ SerialInv /\ [Next]_queueVars => \A i \in DOMAIN rows : KeepsOutcome(i)
  BY SerialActions
<1> QED BY <1>1, InitSound, StepSound, SerialInit, SerialStep, PTL DEF Spec, TerminalFinal

\* A live lease is never taken over when statements do not overlap: the race
\* inside claimBatch is the only way to lose one.
THEOREM LeaseRespected ==
  ASSUME QueueAssumption, Overlap = FALSE PROVE Spec => NoLiveLeaseStolen
<1>1. QueueInv /\ SerialInv /\ [Next]_queueVars => \A i \in DOMAIN rows : KeepsLease(i)
  BY SerialActions
<1> QED BY <1>1, InitSound, StepSound, SerialInit, SerialStep, PTL DEF Spec, NoLiveLeaseStolen

\* A younger request of a scope never overtakes an older one in flight when
\* statements do not overlap.
THEOREM HeadOfLine ==
  ASSUME QueueAssumption, Overlap = FALSE PROVE Spec => HeadBlocks
<1>1. QueueInv /\ SerialInv /\ [Next]_queueVars => \A i, j \in DOMAIN rows : Blocks(i, j)
  BY SerialActions
<1> QED BY <1>1, InitSound, StepSound, SerialInit, SerialStep, PTL DEF Spec, HeadBlocks
=============================================================================
