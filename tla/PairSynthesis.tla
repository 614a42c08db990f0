---------------------------- MODULE PairSynthesis ----------------------------
(***************************************************************************)
(* The pair insight's trigger: one cursor row with a lease, which follows  *)
(* the largest ids of two append-only tables, and the workers that claim   *)
(* it, synthesise from what is stored by then and move it forward.         *)
(*                                                                         *)
(* An id is drawn before its row commits, so rows may appear out of the    *)
(* order of their ids.  The claim is a transaction that locks the cursor   *)
(* and then reads the two maxima, one statement after the other.           *)
(***************************************************************************)
EXTENDS Integers

CONSTANTS
  Workers,   \* processes; also their lease_owner UUIDs
  Null,      \* SQL NULL
  LeaseMs, RetryMs, MaxAttempts,
  Prompt,    \* TRUE: no lease ends while its holder is at work
  MaxIds, MaxTime, MaxFaults  \* bounds; the first for each feed

ASSUME PairAssumption ==
  /\ Null \notin Workers \cup Nat /\ Null \notin [{"evidence", "theses"} -> Nat]
  /\ LeaseMs \in Nat \ {0} /\ RetryMs \in Nat /\ MaxAttempts \in Nat \ {0}
  /\ Prompt \in BOOLEAN

VARIABLES
  drawn,     \* feed -> the serial's last value
  open,      \* feed -> ids drawn by transactions that have not committed
  stored,    \* feed -> ids of the rows committed
  cursor,    \* the row of policy_insight_synthesis_cursor
  work,      \* worker -> where it is in its cycle, its claim and what it has read
  now,
  faults,    \* failures and crashes so far
  answered,  \* feed -> ids an insight was made from, or given up (history)
  late       \* feed -> ids committed after a larger one (history)

tables  == <<drawn, open, stored, late>>
pairVars == <<tables, cursor, work, now, faults, answered>>

Feeds == {"evidence", "theses"}
Ids   == [Feeds -> Nat]
Sets  == [Feeds -> SUBSET Nat]

None == [f \in Feeds |-> 0]
Nil  == [f \in Feeds |-> {}]

Cursor == [last : Ids, target : Ids \cup {Null}, owner : Workers \cup {Null},
           expires : Nat \cup {Null}, attempts : Nat, next : Nat \cup {Null}]

Resting == [pc |-> "poll", at |-> 0, target |-> None, attempts |-> 0, read |-> Nil]

WorkPcs == {"poll", "locking", "claiming", "evidence", "theses", "insert", "complete",
            "giveUp", "release"}

TypeOK ==
  /\ drawn \in Ids /\ open \in Sets /\ stored \in Sets /\ late \in Sets
  /\ cursor \in Cursor
  /\ work \in [Workers -> [pc : WorkPcs, at : Nat, target : Ids, attempts : Nat, read : Sets]]
  /\ now \in Nat /\ faults \in Nat /\ answered \in Sets

Init ==
  /\ drawn = None /\ open = Nil /\ stored = Nil /\ late = Nil /\ answered = Nil
  /\ cursor = [last |-> None, target |-> Null, owner |-> Null, expires |-> Null,
               attempts |-> 0, next |-> Null]
  /\ work = [w \in Workers |-> Resting]
  /\ now = 0 /\ faults = 0

-----------------------------------------------------------------------------
(* The tables evidence_bundles (of the pair's scope) and sr_theses_v2      *)

Draw(f) ==
  /\ drawn[f] < MaxIds[f]
  /\ drawn' = [drawn EXCEPT ![f] = @ + 1]
  /\ open' = [open EXCEPT ![f] = @ \cup {drawn[f] + 1}]
  /\ UNCHANGED <<stored, late, cursor, work, now, faults, answered>>

Commit(f, i) ==
  /\ i \in open[f]
  /\ open' = [open EXCEPT ![f] = @ \ {i}]
  /\ stored' = [stored EXCEPT ![f] = @ \cup {i}]
  /\ late' = IF \E j \in stored[f] : i < j THEN [late EXCEPT ![f] = @ \cup {i}] ELSE late
  /\ UNCHANGED <<drawn, cursor, work, now, faults, answered>>

\* A rollback, or ON CONFLICT DO NOTHING: the id is never used.
Discard(f, i) ==
  /\ i \in open[f]
  /\ open' = [open EXCEPT ![f] = @ \ {i}]
  /\ UNCHANGED <<drawn, stored, late, cursor, work, now, faults, answered>>

-----------------------------------------------------------------------------
(* claimLatestPairEvidence                                                 *)

Go(w, pc) == work' = [work EXCEPT ![w].pc = pc]
Rest(w)   == work' = [work EXCEPT ![w] = Resting]

\* SELECT ... FOR UPDATE: a claim in progress keeps everyone else waiting.
Unlocked == \A w \in Workers : work[w].pc # "claiming"

\* Mutants: a lease is not looked at, or never ends.
FreeOfDelay(at) == cursor.next # Null => cursor.next <= at
FreeOfHolder(at) == (cursor.next # Null => cursor.next <= at) /\ cursor.owner = Null

Free(at) ==
  /\ cursor.next # Null => cursor.next <= at
  /\ cursor.owner # Null => cursor.expires <= at

\* Mutant: the largest id of an empty table is NULL.
TopsOrNull(f) == IF stored[f] = {} THEN {Null} ELSE {t \in stored[f] : \A i \in stored[f] : i <= t}

\* COALESCE(MAX(id), 0)
Tops(f) == {t \in stored[f] \cup {0} : \A i \in stored[f] : i <= t}

Poll(w) ==
  /\ work[w].pc = "poll"
  /\ work' = [work EXCEPT ![w].pc = "locking", ![w].at = now]
  /\ UNCHANGED <<tables, cursor, now, faults, answered>>

ClaimLock(w) ==
  /\ work[w].pc = "locking" /\ Unlocked
  /\ IF Free(work[w].at)
     THEN \E t \in Tops("evidence") :
            work' = [work EXCEPT ![w].pc = "claiming", ![w].target["evidence"] = t]
     ELSE Rest(w)
  /\ UNCHANGED <<tables, cursor, now, faults, answered>>

\* Attempts are counted as long as the target stays the same.
AttemptsAt(target) == IF cursor.target = target THEN cursor.attempts + 1 ELSE 1

ClaimUpdate(w) ==
  /\ work[w].pc = "claiming"
  /\ \E t \in Tops("theses") :
       LET target == [work[w].target EXCEPT !["theses"] = t]
       IN IF \A f \in Feeds : target[f] <= cursor.last[f]
          THEN Rest(w) /\ UNCHANGED cursor
          ELSE /\ cursor' = [last |-> cursor.last, target |-> target, owner |-> w,
                             expires |-> work[w].at + LeaseMs,
                             attempts |-> AttemptsAt(target), next |-> Null]
               /\ work' = [work EXCEPT ![w].pc = "evidence", ![w].target = target,
                                       ![w].attempts = AttemptsAt(target)]
  /\ UNCHANGED <<tables, now, faults, answered>>

-----------------------------------------------------------------------------
(* The cycle: what the synthesis reads, and how its outcome is recorded    *)

Reading == {"evidence", "theses", "insert"}

ReadEvidence(w) ==
  /\ work[w].pc = "evidence"
  /\ work' = [work EXCEPT ![w].pc = "theses", ![w].read["evidence"] = stored["evidence"]]
  /\ UNCHANGED <<tables, cursor, now, faults, answered>>

ReadTheses(w) ==
  /\ work[w].pc = "theses"
  /\ work' = [work EXCEPT ![w].pc = "insert", ![w].read["theses"] = stored["theses"]]
  /\ UNCHANGED <<tables, cursor, now, faults, answered>>

InsertInsight(w) ==
  /\ work[w].pc = "insert"
  /\ answered' = [f \in Feeds |-> answered[f] \cup work[w].read[f]]
  /\ Go(w, "complete")
  /\ UNCHANGED <<tables, cursor, now, faults>>

\* A PolicyInsightValidationError, TypeError or RangeError is permanent.
Reject(w) ==
  /\ work[w].pc \in Reading
  /\ Go(w, "giveUp")
  /\ UNCHANGED <<tables, cursor, now, faults, answered>>

\* Mutant: the update names the cursor only.
OwnsAny(w) == w \in Workers

Owns(w) == cursor.owner = w /\ cursor.target = work[w].target

\* Mutant: the cursor moves to the largest ids there are by now.
CompleteToLatest(w) ==
  /\ work[w].pc \in {"complete", "giveUp"} /\ Unlocked
  /\ cursor' = IF Owns(w)
               THEN [last |-> [f \in Feeds |-> CHOOSE t \in Tops(f) : TRUE], target |-> Null,
                     owner |-> Null, expires |-> Null, attempts |-> 0, next |-> Null]
               ELSE cursor
  /\ Rest(w)
  /\ UNCHANGED <<tables, now, faults, answered>>

\* Success and permanent failure both move the cursor to the claimed target.
Complete(w) ==
  /\ work[w].pc \in {"complete", "giveUp"} /\ Unlocked
  /\ IF Owns(w)
     THEN /\ cursor' = [last |-> work[w].target, target |-> Null, owner |-> Null,
                        expires |-> Null, attempts |-> 0, next |-> Null]
          /\ answered' = [f \in Feeds |-> answered[f] \cup
                            {i \in stored[f] : work[w].pc = "giveUp" /\ i <= work[w].target[f]}]
     ELSE UNCHANGED <<cursor, answered>>
  /\ Rest(w)
  /\ UNCHANGED <<tables, now, faults>>

ReleaseForRetry(w) ==
  /\ work[w].pc = "release" /\ Unlocked
  /\ cursor' = IF Owns(w)
               THEN [cursor EXCEPT !.owner = Null, !.expires = Null, !.next = now + RetryMs]
               ELSE cursor
  /\ Rest(w)
  /\ UNCHANGED <<tables, now, faults, answered>>

-----------------------------------------------------------------------------
(* Failures                                                                *)

Fault == faults < MaxFaults /\ faults' = faults + 1

\* Mutant: one attempt too many.
FailsOnceMore(w) ==
  /\ Fault
  /\ work[w].pc \in Reading \cup {"complete"}
  /\ Go(w, IF work[w].attempts > MaxAttempts THEN "giveUp" ELSE "release")
  /\ UNCHANGED <<tables, cursor, now, answered>>

\* A store is unavailable inside the try: once more, or never again.
Fails(w) ==
  /\ Fault
  /\ work[w].pc \in Reading \cup {"complete"}
  /\ Go(w, IF work[w].attempts >= MaxAttempts THEN "giveUp" ELSE "release")
  /\ UNCHANGED <<tables, cursor, now, answered>>

\* A claim or a record that fails, or a crash: the cycle is over, its open
\* transaction rolled back, its lease left behind.  (A restarted worker has
\* a new owner id, but nothing that used the old one is left.)
Drop(w) ==
  /\ Fault
  /\ work[w].pc # "poll"
  /\ Rest(w)
  /\ UNCHANGED <<tables, cursor, now, answered>>

Deadlines == {cursor.expires, cursor.next} \ {Null}

Working(w) == work[w].pc \notin {"poll", "locking"}

Tick ==
  /\ now < MaxTime
  /\ \E t \in Deadlines : now < t
  /\ Prompt => \A w \in Workers : ~(Working(w) /\ cursor.owner = w)
  /\ now' = now + 1
  /\ UNCHANGED <<tables, cursor, work, faults, answered>>

Cycle(w) ==
  \/ Poll(w) \/ ClaimLock(w) \/ ClaimUpdate(w) \/ ReadEvidence(w) \/ ReadTheses(w)
  \/ InsertInsight(w) \/ Reject(w) \/ Complete(w) \/ ReleaseForRetry(w)

Write(f) == Draw(f) \/ \E i \in open[f] : Commit(f, i) \/ Discard(f, i)

Next ==
  \/ \E f \in Feeds : Write(f)
  \/ \E w \in Workers : Cycle(w) \/ Fails(w) \/ Drop(w)
  \/ Tick

Spec == Init /\ [][Next]_pairVars

Fairness ==
  /\ WF_pairVars(Tick)
  /\ \A w \in Workers :
       /\ WF_pairVars(Cycle(w))
       /\ SF_pairVars(ClaimLock(w) \/ Complete(w) \/ ReleaseForRetry(w))

\* Time passes, a worker that is up goes on, and a lock is granted to those
\* who wait for it.
FairSpec == Spec /\ Fairness
-----------------------------------------------------------------------------
(* Properties                                                              *)

\* What the migration's lease coherence CHECK demands of the cursor: no update
\* of it is refused, and a retry is only pending for a target and with an
\* attempt left.
CursorCoherent ==
  LET held == cursor.owner # Null
  IN /\ held <=> cursor.expires # Null
     /\ held => cursor.target # Null
     /\ ~held => (cursor.target # Null <=> cursor.next # Null)
     /\ ~held /\ cursor.next # Null => cursor.attempts < MaxAttempts

\* Everything the cursor has passed was read for an insight that was stored or
\* given up with its target, save rows that committed after one with a larger
\* id: those, and only those, can be passed over.
NothingSkipped ==
  \A f \in Feeds : \A i \in stored[f] \ late[f] : i <= cursor.last[f] => i \in answered[f]

\* The cursor never moves back, however late a worker records its outcome.
NeverBack == [][\A f \in Feeds : cursor.last[f] <= cursor'.last[f]]_pairVars

\* "returns idle while another unexpired lease owns the claim": a lease that
\* has not ended passes to nobody.
LeaseKept ==
  [][cursor.owner # Null /\ now < cursor.expires =>
       cursor'.owner \in {cursor.owner, Null}]_pairVars

\* The cursor catches up with the tables, whatever worker dies on the way.
CatchesUp == []<>(\A f \in Feeds : \A i \in stored[f] : i <= cursor.last[f])
=============================================================================
