-------------------------- MODULE PairSynthesisProofs --------------------------
(***************************************************************************)
(* Theorems of PairSynthesis, for any workers, bounds and timings.         *)
(***************************************************************************)
EXTENDS PairSynthesis, TLAPS

\* A target is an id that is stored, or none.  What may still commit below a
\* stored id is late: so what a target covers never grows, save by late rows.
Known(f, t)     == t \in stored[f] \cup {0}
Covers(f, t, S) == \A i \in stored[f] \ late[f] : i <= t => i \in S

TablesSound ==
  \A f \in Feeds :
    /\ open[f] \cup stored[f] \subseteq {i \in Nat : 0 < i /\ i <= drawn[f]}
    /\ open[f] \cap stored[f] = {}

Holding == {"evidence", "theses", "insert", "complete", "giveUp", "release"}

\* A claim under way still finds the cursor as it was when it took the lock.
ClaimSound(w) ==
  work[w].pc = "claiming" =>
    /\ Free(work[w].at)
    /\ Known("evidence", work[w].target["evidence"])
    /\ cursor.last["evidence"] <= work[w].target["evidence"]
    /\ \A v \in Workers : work[v].pc = "claiming" => v = w

\* What a worker has read covers its target.
ReadSound(w) ==
  /\ work[w].at <= now
  /\ work[w].pc \in Holding => \A f \in Feeds : Known(f, work[w].target[f])
  /\ work[w].pc \in {"theses", "insert"} =>
       Covers("evidence", work[w].target["evidence"], work[w].read["evidence"])
  /\ work[w].pc = "insert" =>
       Covers("theses", work[w].target["theses"], work[w].read["theses"])
  /\ work[w].pc = "complete" => \A f \in Feeds : Covers(f, work[w].target[f], answered[f])

\* The worker and the cursor agree on the attempts of a claim still held.
AttemptsSound(w) ==
  /\ work[w].pc \in Holding /\ Owns(w) => cursor.attempts = work[w].attempts
  /\ work[w].pc = "release" => work[w].attempts < MaxAttempts

CursorSound ==
  /\ CursorCoherent
  /\ \A f \in Feeds : /\ Known(f, cursor.last[f])
                      /\ Covers(f, cursor.last[f], answered[f])
                      /\ cursor.target # Null => cursor.last[f] <= cursor.target[f]

PairInv ==
  /\ TypeOK /\ TablesSound /\ CursorSound
  /\ \A w \in Workers : ClaimSound(w) /\ ReadSound(w) /\ AttemptsSound(w)

-----------------------------------------------------------------------------
\* A new row disturbs nothing that is known of a target.
LEMMA CommitKeeps ==
  ASSUME TypeOK, TablesSound, NEW g \in Feeds, NEW j, Commit(g, j)
  PROVE  \A f \in Feeds, t \in Nat : Known(f, t) =>
            /\ t \in stored'[f] \cup {0}
            /\ \A S : Covers(f, t, S) => \A i \in stored'[f] \ late'[f] : i <= t => i \in S
<1> SUFFICES ASSUME NEW f \in Feeds, NEW t \in Nat, Known(f, t)
             PROVE  /\ t \in stored'[f] \cup {0}
                    /\ \A S : Covers(f, t, S) =>
                         \A i \in stored'[f] \ late'[f] : i <= t => i \in S
  OBVIOUS
<1>1. /\ stored[f] \subseteq stored'[f] /\ late[f] \subseteq late'[f]
      /\ stored'[f] \subseteq stored[f] \cup {j}
      /\ f # g => stored'[f] = stored[f]
  BY DEF Commit, TypeOK, Sets
<1>2. ASSUME f = g, j <= t PROVE j \in late'[f]
  <2>1. j \in Nat /\ 0 < j /\ j \notin stored[f]
    BY <1>2 DEF Commit, TablesSound
  <2>2. t \in stored[f] /\ j < t
    BY <1>2, <2>1 DEF Known
  <2> QED BY <1>2, <2>2 DEF Commit, TypeOK, Sets
<1>3. ASSUME NEW S, Covers(f, t, S), NEW i \in stored'[f] \ late'[f], i <= t PROVE i \in S
  BY <1>1, <1>2, <1>3 DEF Covers
<1> QED BY <1>1, <1>3 DEF Known

LEMMA CommitSound ==
  ASSUME PairInv, NEW g \in Feeds, NEW j, Commit(g, j) PROVE PairInv'
<1> USE DEF PairInv
<1>0. UNCHANGED <<drawn, cursor, work, now, faults, answered>>
  BY DEF Commit
<1>1. TypeOK'
  BY DEF TypeOK, Commit, Sets, TablesSound
<1>2. TablesSound'
  BY DEF TypeOK, Commit, Sets, TablesSound
<1>3. CursorSound'
  <2>1. CursorCoherent'
    BY <1>0 DEF CursorSound, CursorCoherent
  <2>2. \A f \in Feeds : cursor.last[f] \in Nat
    BY DEF TypeOK, Cursor, Ids
  <2> QED BY <1>0, <2>1, <2>2, CommitKeeps DEF CursorSound, Known, Covers
<1>4. ASSUME NEW w \in Workers PROVE ClaimSound(w)' /\ ReadSound(w)' /\ AttemptsSound(w)'
  <2>1. \A f \in Feeds : work[w].target[f] \in Nat
    BY DEF TypeOK, Ids
  <2>2. "evidence" \in Feeds /\ "theses" \in Feeds
    BY DEF Feeds
  <2>3. ClaimSound(w)'
    BY <1>0, <2>1, <2>2, CommitKeeps DEF ClaimSound, Free, Known
  <2>4. ReadSound(w)'
    BY <1>0, <2>1, <2>2, CommitKeeps DEF ReadSound, Known, Covers, Holding
  <2>5. AttemptsSound(w)'
    BY <1>0 DEF AttemptsSound, Owns
  <2> QED BY <2>3, <2>4, <2>5
<1> QED BY <1>1, <1>2, <1>3, <1>4

\* A step that leaves the rows and the cursor alone, and answers no less.
LEMMA FrameSound ==
  ASSUME PairInv, UNCHANGED <<stored, late, cursor>>, TypeOK', TablesSound',
         \A f \in Feeds : answered[f] \subseteq answered'[f],
         \A w \in Workers : ClaimSound(w)' /\ ReadSound(w)' /\ AttemptsSound(w)'
  PROVE  PairInv'
<1>1. CursorSound'
  BY DEF PairInv, CursorSound, CursorCoherent, Known, Covers
<1> QED BY <1>1 DEF PairInv

LEMMA SerialSound ==
  ASSUME PairInv, NEW f \in Feeds, Draw(f) \/ \E i \in open[f] : Discard(f, i)
  PROVE  PairInv'
<1> USE DEF PairInv
<1>0. UNCHANGED <<stored, late, cursor, work, now, faults, answered>>
  BY DEF Draw, Discard
<1>1. TypeOK' /\ TablesSound'
  <2>1. \A g \in Feeds : drawn[g] \in Nat /\ open[g] \subseteq Nat /\ stored[g] \subseteq Nat
    BY DEF TypeOK, Ids, Sets
  <2>2. CASE Draw(f)
    <3>1. /\ drawn'[f] = drawn[f] + 1 /\ open'[f] = open[f] \cup {drawn[f] + 1}
          /\ \A g \in Feeds \ {f} : drawn'[g] = drawn[g] /\ open'[g] = open[g]
      BY <2>2 DEF Draw, TypeOK, Ids, Sets
    <3>2. TablesSound'
      BY <1>0, <2>1, <3>1 DEF TablesSound
    <3> QED BY <1>0, <2>1, <2>2, <3>1, <3>2 DEF Draw, TypeOK, Ids, Sets
  <2>3. ASSUME NEW i \in open[f], Discard(f, i) PROVE TypeOK' /\ TablesSound'
    <3>1. /\ drawn' = drawn /\ open'[f] \subseteq open[f]
          /\ \A g \in Feeds \ {f} : open'[g] = open[g]
      BY <2>3 DEF Discard, TypeOK, Ids, Sets
    <3>2. TablesSound'
      BY <1>0, <2>1, <3>1 DEF TablesSound
    <3> QED BY <1>0, <2>1, <2>3, <3>1, <3>2 DEF Discard, TypeOK, Sets
  <2> QED BY <2>2, <2>3
<1>3. \A w \in Workers : ClaimSound(w)' /\ ReadSound(w)' /\ AttemptsSound(w)'
  BY <1>0 DEF ClaimSound, ReadSound, AttemptsSound, Free, Known, Covers, Owns
<1> QED BY <1>0, <1>1, <1>3, FrameSound

LEMMA TickSound == ASSUME PairInv, Tick PROVE PairInv'
<1> USE DEF PairInv
<1>0. UNCHANGED <<drawn, open, stored, late, cursor, work, faults, answered>> /\ now' = now + 1
  BY DEF Tick, tables
<1>1. TypeOK' /\ TablesSound'
  BY <1>0 DEF TypeOK, TablesSound
<1>2. \A w \in Workers : work[w].at \in Nat /\ now \in Nat
  BY DEF TypeOK
<1>3. \A w \in Workers : ClaimSound(w)' /\ ReadSound(w)' /\ AttemptsSound(w)'
  BY <1>0, <1>2 DEF ClaimSound, ReadSound, AttemptsSound, Free, Known, Covers, Owns
<1> QED BY <1>0, <1>1, <1>3, FrameSound

-----------------------------------------------------------------------------
(* A worker's steps.                                                       *)

\* The others see nothing of a step that changes only w's own record, and
\* starts no claim but under the lock.
LEMMA OthersSound ==
  ASSUME PairInv, NEW w \in Workers, UNCHANGED <<stored, late, cursor, now>>,
         NEW mine, work' = [work EXCEPT ![w] = mine],
         mine.pc = "claiming" => Unlocked,
         \A f \in Feeds : answered[f] \subseteq answered'[f]
  PROVE  \A v \in Workers \ {w} : ClaimSound(v)' /\ ReadSound(v)' /\ AttemptsSound(v)'
<1> SUFFICES ASSUME NEW v \in Workers \ {w}
             PROVE  ClaimSound(v)' /\ ReadSound(v)' /\ AttemptsSound(v)'
  OBVIOUS
<1>1. work'[v] = work[v] /\ work'[w] = mine /\ \A u \in Workers \ {w} : work'[u] = work[u]
  BY DEF PairInv, TypeOK
<1>2. ClaimSound(v)'
  BY <1>1 DEF PairInv, ClaimSound, Free, Known, Unlocked
<1>3. ReadSound(v)'
  BY <1>1 DEF PairInv, ReadSound, Known, Covers
<1>4. AttemptsSound(v)'
  BY <1>1 DEF PairInv, AttemptsSound, Owns
<1> QED BY <1>2, <1>3, <1>4

\* A step of w's own record.
LEMMA OwnSound ==
  ASSUME PairInv, NEW w \in Workers, UNCHANGED <<tables, cursor, now>>, faults' \in Nat,
         NEW mine, work' = [work EXCEPT ![w] = mine],
         mine.pc = "claiming" => Unlocked,
         answered' \in Sets, \A f \in Feeds : answered[f] \subseteq answered'[f],
         mine \in [pc : WorkPcs, at : Nat, target : Ids, attempts : Nat, read : Sets],
         ClaimSound(w)', ReadSound(w)', AttemptsSound(w)'
  PROVE  PairInv'
<1>1. UNCHANGED <<drawn, open, stored, late>>
  BY DEF tables
<1>2. TypeOK'
  BY <1>1 DEF PairInv, TypeOK
<1>3. TablesSound'
  BY <1>1 DEF PairInv, TablesSound
<1>4. \A v \in Workers \ {w} : ClaimSound(v)' /\ ReadSound(v)' /\ AttemptsSound(v)'
  BY <1>1, OthersSound
<1> QED BY <1>1, <1>2, <1>3, <1>4, FrameSound

LEMMA RestSound ==
  ASSUME PairInv, NEW w \in Workers, Rest(w), UNCHANGED <<tables, cursor, now, answered>>,
         faults' \in Nat
  PROVE  PairInv'
<1>1. work'[w] = Resting
  BY DEF PairInv, TypeOK, Rest
<1>2. Resting \in [pc : WorkPcs, at : Nat, target : Ids, attempts : Nat, read : Sets]
  BY DEF Resting, WorkPcs, Ids, Sets, None, Nil
<1>3. answered' \in Sets /\ now \in Nat
  BY DEF PairInv, TypeOK
<1>4. ClaimSound(w)' /\ ReadSound(w)' /\ AttemptsSound(w)'
  BY <1>1, <1>3 DEF ClaimSound, ReadSound, AttemptsSound, Resting, Holding
<1> QED BY <1>2, <1>3, <1>4, OwnSound DEF Rest, Resting

LEMMA PollSound == ASSUME PairInv, NEW w \in Workers, Poll(w) PROVE PairInv'
<1> DEFINE mine == [work[w] EXCEPT !.pc = "locking", !.at = now]
<1>1. mine \in [pc : WorkPcs, at : Nat, target : Ids, attempts : Nat, read : Sets]
  BY DEF PairInv, TypeOK, WorkPcs
<1>2. work' = [work EXCEPT ![w] = mine] /\ work'[w] = mine
  BY DEF PairInv, TypeOK, Poll
<1>3. ClaimSound(w)' /\ ReadSound(w)' /\ AttemptsSound(w)' /\ answered' \in Sets /\ faults' \in Nat
  BY <1>2 DEF Poll, PairInv, TypeOK, ClaimSound, ReadSound, AttemptsSound, Holding
<1> QED BY <1>1, <1>2, <1>3, OwnSound DEF Poll

LEMMA ClaimLockSound == ASSUME PairInv, NEW w \in Workers, ClaimLock(w) PROVE PairInv'
<1>1. CASE Rest(w)
  BY <1>1, RestSound DEF ClaimLock, PairInv, TypeOK
<1>2. ASSUME Free(work[w].at), NEW t \in Tops("evidence"),
             work' = [work EXCEPT ![w].pc = "claiming", ![w].target["evidence"] = t]
      PROVE  PairInv'
  <2> DEFINE mine == [work[w] EXCEPT !.pc = "claiming", !.target["evidence"] = t]
  <2>0. /\ "evidence" \in Feeds /\ t \in Nat /\ Known("evidence", t)
        /\ cursor.last["evidence"] <= t
    BY <1>2 DEF PairInv, CursorSound, Known, Tops, Feeds, TypeOK, Sets, Cursor, Ids
  <2>1. mine \in [pc : WorkPcs, at : Nat, target : Ids, attempts : Nat, read : Sets]
    BY <2>0 DEF PairInv, TypeOK, WorkPcs, Ids
  <2>2. work' = [work EXCEPT ![w] = mine] /\ work'[w] = mine
    BY <1>2 DEF PairInv, TypeOK
  <2>3. mine.target["evidence"] = t /\ mine.at = work[w].at /\ mine.pc = "claiming"
    BY <2>0 DEF PairInv, TypeOK, Ids
  <2>4. ClaimSound(w)'
    <3>1. \A v \in Workers : work'[v].pc = "claiming" => v = w
      BY <1>2 DEF ClaimLock, Unlocked, PairInv, TypeOK
    <3> QED BY <1>2, <2>0, <2>2, <2>3, <3>1 DEF ClaimLock, ClaimSound, Free, Known, tables
  <2>5. ReadSound(w)' /\ AttemptsSound(w)' /\ answered' \in Sets /\ faults' \in Nat
    BY <2>2, <2>3 DEF ClaimLock, PairInv, TypeOK, ReadSound, AttemptsSound, Holding
  <2> QED BY <2>1, <2>2, <2>4, <2>5, OwnSound DEF ClaimLock
<1> QED BY <1>1, <1>2 DEF ClaimLock

LEMMA ReadEvidenceSound == ASSUME PairInv, NEW w \in Workers, ReadEvidence(w) PROVE PairInv'
<1> DEFINE mine == [work[w] EXCEPT !.pc = "theses", !.read["evidence"] = stored["evidence"]]
<1>0. "evidence" \in Feeds /\ UNCHANGED <<stored, late, cursor, now, answered, faults>>
  BY DEF Feeds, ReadEvidence, tables
<1>1. mine \in [pc : WorkPcs, at : Nat, target : Ids, attempts : Nat, read : Sets]
  <2>1. [work[w].read EXCEPT !["evidence"] = stored["evidence"]] \in Sets
    BY <1>0 DEF PairInv, TypeOK, Sets
  <2> QED BY <2>1 DEF PairInv, TypeOK, WorkPcs
<1>2. work' = [work EXCEPT ![w] = mine] /\ work'[w] = mine
  BY DEF PairInv, TypeOK, ReadEvidence
<1>3. /\ mine.read["evidence"] = stored["evidence"] /\ mine.pc = "theses"
      /\ mine.at = work[w].at /\ mine.target = work[w].target /\ mine.attempts = work[w].attempts
  BY <1>0 DEF PairInv, TypeOK, Sets
<1> HIDE DEF mine
<1>4. ClaimSound(w)' /\ AttemptsSound(w)'
  <2>1. AttemptsSound(w) /\ work[w].pc = "evidence"
    BY DEF PairInv, ReadEvidence
  <2> QED BY <1>0, <1>2, <1>3, <2>1 DEF ClaimSound, AttemptsSound, Holding, Owns
<1>5. ReadSound(w)'
  <2>1. ReadSound(w) /\ work[w].pc = "evidence"
    BY DEF PairInv, ReadEvidence
  <2> QED BY <1>0, <1>2, <1>3, <2>1 DEF ReadSound, Holding, Known, Covers
<1>6. answered' \in Sets /\ faults' \in Nat
  BY <1>0 DEF PairInv, TypeOK
<1> QED BY <1>0, <1>1, <1>2, <1>3, <1>4, <1>5, <1>6, OwnSound DEF ReadEvidence

LEMMA ReadThesesSound == ASSUME PairInv, NEW w \in Workers, ReadTheses(w) PROVE PairInv'
<1> DEFINE mine == [work[w] EXCEPT !.pc = "insert", !.read["theses"] = stored["theses"]]
<1>0. "theses" \in Feeds /\ UNCHANGED <<stored, late, cursor, now, answered, faults>>
  BY DEF Feeds, ReadTheses, tables
<1>1. mine \in [pc : WorkPcs, at : Nat, target : Ids, attempts : Nat, read : Sets]
  <2>1. [work[w].read EXCEPT !["theses"] = stored["theses"]] \in Sets
    BY <1>0 DEF PairInv, TypeOK, Sets
  <2> QED BY <2>1 DEF PairInv, TypeOK, WorkPcs
<1>2. work' = [work EXCEPT ![w] = mine] /\ work'[w] = mine
  BY DEF PairInv, TypeOK, ReadTheses
<1>3. /\ mine.read["theses"] = stored["theses"] /\ mine.pc = "insert"
      /\ mine.read["evidence"] = work[w].read["evidence"]
      /\ mine.at = work[w].at /\ mine.target = work[w].target /\ mine.attempts = work[w].attempts
  BY <1>0 DEF PairInv, TypeOK, Sets
<1> HIDE DEF mine
<1>4. ClaimSound(w)' /\ AttemptsSound(w)'
  <2>1. AttemptsSound(w) /\ work[w].pc = "theses"
    BY DEF PairInv, ReadTheses
  <2> QED BY <1>0, <1>2, <1>3, <2>1 DEF ClaimSound, AttemptsSound, Holding, Owns
<1>5. ReadSound(w)'
  <2>1. ReadSound(w) /\ work[w].pc = "theses"
    BY DEF PairInv, ReadTheses
  <2> QED BY <1>0, <1>2, <1>3, <2>1 DEF ReadSound, Holding, Known, Covers
<1>6. answered' \in Sets /\ faults' \in Nat
  BY <1>0 DEF PairInv, TypeOK
<1> QED BY <1>0, <1>1, <1>2, <1>3, <1>4, <1>5, <1>6, OwnSound DEF ReadTheses

LEMMA InsertSound == ASSUME PairInv, NEW w \in Workers, InsertInsight(w) PROVE PairInv'
<1> DEFINE mine == [work[w] EXCEPT !.pc = "complete"]
<1>0. UNCHANGED <<stored, late, cursor, now, faults>>
  BY DEF InsertInsight, tables
<1>1. mine \in [pc : WorkPcs, at : Nat, target : Ids, attempts : Nat, read : Sets]
  BY DEF PairInv, TypeOK, WorkPcs
<1>2. work' = [work EXCEPT ![w] = mine] /\ work'[w] = mine
  BY DEF PairInv, TypeOK, InsertInsight, Go
<1>3. /\ mine.pc = "complete" /\ mine.read = work[w].read
      /\ mine.at = work[w].at /\ mine.target = work[w].target /\ mine.attempts = work[w].attempts
  BY DEF PairInv, TypeOK
<1>4. /\ answered' \in Sets /\ faults' \in Nat
      /\ \A f \in Feeds : answered'[f] = answered[f] \cup work[w].read[f]
  BY <1>0 DEF InsertInsight, PairInv, TypeOK, Sets
<1> HIDE DEF mine
<1>5. work[w].pc = "insert" /\ ReadSound(w) /\ AttemptsSound(w)
  BY DEF InsertInsight, PairInv
<1>6. ClaimSound(w)' /\ AttemptsSound(w)'
  BY <1>0, <1>2, <1>3, <1>5 DEF ClaimSound, AttemptsSound, Holding, Owns
<1>7. ReadSound(w)'
  BY <1>0, <1>2, <1>3, <1>4, <1>5 DEF ReadSound, Holding, Known, Covers, Feeds
<1> QED BY <1>0, <1>1, <1>2, <1>3, <1>4, <1>6, <1>7, OwnSound DEF InsertInsight

\* Reject and Fails: the claim is held, and given up or handed back.
LEMMA TurnSound ==
  ASSUME PairInv, NEW w \in Workers, NEW pc \in {"giveUp", "release"}, Go(w, pc),
         work[w].pc \in Holding, pc = "release" => work[w].attempts < MaxAttempts,
         UNCHANGED <<tables, cursor, now, answered>>, faults' \in Nat
  PROVE  PairInv'
<1> DEFINE mine == [work[w] EXCEPT !.pc = pc]
<1>0. UNCHANGED <<stored, late>>
  BY DEF tables
<1>1. mine \in [pc : WorkPcs, at : Nat, target : Ids, attempts : Nat, read : Sets]
  BY DEF PairInv, TypeOK, WorkPcs
<1>2. work' = [work EXCEPT ![w] = mine] /\ work'[w] = mine
  BY DEF PairInv, TypeOK, Go
<1>3. /\ mine.pc = pc /\ mine.at = work[w].at /\ mine.target = work[w].target
      /\ mine.attempts = work[w].attempts
  BY DEF PairInv, TypeOK
<1>4. answered' \in Sets
  BY DEF PairInv, TypeOK
<1> HIDE DEF mine
<1>5. ReadSound(w) /\ AttemptsSound(w)
  BY DEF PairInv
<1>6. ClaimSound(w)' /\ AttemptsSound(w)' /\ ReadSound(w)'
  BY <1>0, <1>2, <1>3, <1>5 DEF ClaimSound, AttemptsSound, ReadSound, Holding, Owns, Known
<1> QED BY <1>1, <1>2, <1>3, <1>4, <1>6, OwnSound

LEMMA FailsSound ==
  ASSUME PairAssumption, PairInv, NEW w \in Workers, Reject(w) \/ Fails(w) PROVE PairInv'
<1>1. CASE Reject(w)
  BY <1>1, TurnSound DEF Reject, Reading, Holding, PairInv, TypeOK
<1>2. CASE Fails(w)
  <2>1. work[w].attempts \in Nat /\ MaxAttempts \in Nat /\ faults' \in Nat
    BY <1>2 DEF Fails, Fault, PairInv, TypeOK, PairAssumption
  <2>2. work[w].pc \in Holding
    BY <1>2 DEF Fails, Reading, Holding
  <2> QED BY <1>2, <2>1, <2>2, TurnSound DEF Fails
<1> QED BY <1>1, <1>2

-----------------------------------------------------------------------------
(* The steps that write the cursor.                                        *)

LEMMA ClaimUpdateSound ==
  ASSUME PairAssumption, PairInv, NEW w \in Workers, ClaimUpdate(w) PROVE PairInv'
<1>0. UNCHANGED <<drawn, open, stored, late, now, faults, answered>> /\ work[w].pc = "claiming"
  BY DEF ClaimUpdate, tables
<1>1. CASE Rest(w) /\ UNCHANGED cursor
  BY <1>0, <1>1, RestSound DEF PairInv, TypeOK, tables
<1>2. ASSUME NEW t \in Tops("theses"), NEW target, target = [work[w].target EXCEPT !["theses"] = t],
             cursor' = [last |-> cursor.last, target |-> target, owner |-> w,
                        expires |-> work[w].at + LeaseMs,
                        attempts |-> AttemptsAt(target), next |-> Null],
             work' = [work EXCEPT ![w].pc = "evidence", ![w].target = target,
                                  ![w].attempts = AttemptsAt(target)]
      PROVE  PairInv'
  <2> DEFINE mine == [work[w] EXCEPT !.pc = "evidence", !.target = target,
                                     !.attempts = AttemptsAt(target)]
  <2>0. /\ t \in Nat /\ "theses" \in Feeds /\ Known("theses", t)
        /\ cursor.last["theses"] <= t /\ cursor.last \in Ids
    BY <1>2 DEF PairInv, CursorSound, Known, Tops, Feeds, TypeOK, Sets, Cursor, Ids
  <2>1. /\ target \in Ids /\ target["theses"] = t
        /\ target["evidence"] = work[w].target["evidence"]
    BY <1>2, <2>0 DEF PairInv, TypeOK, Ids, Feeds
  <2>2. AttemptsAt(target) \in Nat /\ work[w].at + LeaseMs \in Nat
    BY DEF AttemptsAt, PairInv, TypeOK, Cursor, PairAssumption
  <2>3. \A f \in Feeds : Known(f, target[f]) /\ cursor.last[f] <= target[f]
    BY <1>0, <2>0, <2>1 DEF PairInv, ClaimSound, Feeds
  <2>4. mine \in [pc : WorkPcs, at : Nat, target : Ids, attempts : Nat, read : Sets]
    BY <2>1, <2>2 DEF PairInv, TypeOK, WorkPcs
  <2>5. /\ work' = [work EXCEPT ![w] = mine] /\ work'[w] = mine
        /\ \A v \in Workers \ {w} : work'[v] = work[v]
    BY <1>2 DEF PairInv, TypeOK
  <2>6. /\ mine.pc = "evidence" /\ mine.at = work[w].at /\ mine.target = target
        /\ mine.attempts = AttemptsAt(target)
    BY DEF PairInv, TypeOK
  <2> HIDE DEF mine
  <2>7. /\ cursor'.last = cursor.last /\ cursor'.target = target /\ cursor'.owner = w
        /\ cursor'.expires = work[w].at + LeaseMs /\ cursor'.attempts = AttemptsAt(target)
        /\ cursor'.next = Null /\ cursor' \in Cursor
    BY <1>2, <2>0, <2>1, <2>2 DEF Cursor
  <2>8. TypeOK' /\ TablesSound'
    BY <1>0, <2>4, <2>5, <2>7 DEF PairInv, TypeOK, TablesSound
  <2>9. CursorSound'
    <3>1. w # Null /\ work[w].at + LeaseMs # Null /\ target # Null
      BY <2>1, <2>2 DEF PairAssumption, Ids, Feeds
    <3>2. CursorCoherent'
      BY <2>7, <3>1 DEF CursorCoherent
    <3> QED BY <1>0, <2>3, <2>7, <3>2 DEF PairInv, CursorSound, Known, Covers
  <2>10. ASSUME NEW v \in Workers PROVE ClaimSound(v)' /\ ReadSound(v)' /\ AttemptsSound(v)'
    <3>1. CASE v = w
      <4>1. work[w].at <= now
        BY DEF PairInv, ReadSound
      <4> QED BY <1>0, <2>3, <2>5, <2>6, <2>7, <3>1, <4>1
              DEF ClaimSound, ReadSound, AttemptsSound, Holding, Known
    <3>2. CASE v # w
      <4>1. work[v].pc # "claiming" /\ ReadSound(v) /\ AttemptsSound(v) /\ work'[v] = work[v]
        BY <1>0, <2>5, <3>2 DEF PairInv, ClaimSound
      <4> QED BY <1>0, <2>7, <3>2, <4>1
              DEF ClaimSound, ReadSound, AttemptsSound, Owns, Known, Covers
    <3> QED BY <3>1, <3>2
  <2> QED BY <2>8, <2>9, <2>10 DEF PairInv
<1> QED BY <1>1, <1>2 DEF ClaimUpdate

\* The cursor is written by a worker that rests, and ends up held by nobody.
LEMMA LetGoSound ==
  ASSUME PairAssumption, PairInv, NEW w \in Workers, Rest(w), Unlocked,
         UNCHANGED <<tables, now, faults>>, cursor' \in Cursor, cursor'.owner = Null,
         CursorSound', answered' \in Sets, \A f \in Feeds : answered[f] \subseteq answered'[f]
  PROVE  PairInv'
<1>0. UNCHANGED <<drawn, open, stored, late, now, faults>>
  BY DEF tables
<1>1. /\ work'[w] = Resting /\ \A v \in Workers \ {w} : work'[v] = work[v]
      /\ Resting \in [pc : WorkPcs, at : Nat, target : Ids, attempts : Nat, read : Sets]
  BY DEF PairInv, TypeOK, Rest, Resting, WorkPcs, Ids, Sets, None, Nil
<1>2. TypeOK' /\ TablesSound'
  BY <1>0, <1>1 DEF PairInv, TypeOK, TablesSound, Rest
<1>3. now \in Nat
  BY DEF PairInv, TypeOK
<1>4. ASSUME NEW v \in Workers PROVE ClaimSound(v)' /\ ReadSound(v)' /\ AttemptsSound(v)'
  <2>1. CASE v = w
    BY <1>0, <1>1, <1>3, <2>1 DEF ClaimSound, ReadSound, AttemptsSound, Resting, Holding
  <2>2. CASE v # w
    <3>1. work'[v] = work[v] /\ work[v].pc # "claiming" /\ ReadSound(v) /\ AttemptsSound(v)
      BY <1>1, <2>2 DEF PairInv, Unlocked
    <3>2. cursor'.owner # v
      BY DEF PairAssumption
    <3> QED BY <1>0, <3>1, <3>2 DEF ClaimSound, ReadSound, AttemptsSound, Owns, Known, Covers
  <2> QED BY <2>1, <2>2
<1> QED BY <1>2, <1>4 DEF PairInv

LEMMA CompleteSound ==
  ASSUME PairAssumption, PairInv, NEW w \in Workers, Complete(w) PROVE PairInv'
<1>0. UNCHANGED <<tables, now, faults>> /\ Rest(w) /\ Unlocked
  BY DEF Complete
<1>1. CASE UNCHANGED <<cursor, answered>>
  BY <1>0, <1>1, RestSound DEF PairInv, TypeOK
<1>2. ASSUME Owns(w),
             cursor' = [last |-> work[w].target, target |-> Null, owner |-> Null,
                        expires |-> Null, attempts |-> 0, next |-> Null],
             answered' = [f \in Feeds |-> answered[f] \cup
                            {i \in stored[f] : work[w].pc = "giveUp" /\ i <= work[w].target[f]}]
      PROVE  PairInv'
  <2>1. work[w].pc \in {"complete", "giveUp"} /\ ReadSound(w) /\ work[w].target \in Ids
    BY DEF Complete, PairInv, TypeOK
  <2>2. /\ cursor'.last = work[w].target /\ cursor'.target = Null /\ cursor'.owner = Null
        /\ cursor'.expires = Null /\ cursor'.next = Null /\ cursor' \in Cursor
    BY <1>2, <2>1 DEF Cursor
  <2>3. /\ answered' \in Sets
        /\ \A f \in Feeds : /\ answered[f] \subseteq answered'[f]
                            /\ work[w].pc = "giveUp" =>
                                 \A i \in stored[f] : i <= work[w].target[f] => i \in answered'[f]
    BY <1>2 DEF PairInv, TypeOK, Sets
  <2>4. CursorSound'
    <3>1. CursorCoherent'
      BY <2>2 DEF CursorCoherent
    <3>2. stored' = stored /\ late' = late
      BY <1>0 DEF tables
    <3> QED BY <2>1, <2>2, <2>3, <3>1, <3>2 DEF CursorSound, ReadSound, Known, Covers, Holding
  <2> QED BY <1>0, <2>2, <2>3, <2>4, LetGoSound
<1> QED BY <1>1, <1>2 DEF Complete

LEMMA ReleaseSound ==
  ASSUME PairAssumption, PairInv, NEW w \in Workers, ReleaseForRetry(w) PROVE PairInv'
<1>0. UNCHANGED <<tables, now, faults, answered>> /\ Rest(w) /\ Unlocked
  BY DEF ReleaseForRetry
<1>1. CASE ~Owns(w)
  BY <1>0, <1>1, RestSound DEF ReleaseForRetry, PairInv, TypeOK
<1>2. CASE Owns(w)
  <2>1. /\ cursor.attempts < MaxAttempts /\ cursor.owner # Null /\ now + RetryMs \in Nat
    BY <1>2 DEF ReleaseForRetry, PairInv, TypeOK, AttemptsSound, Holding, Owns, PairAssumption
  <2>2. /\ cursor'.last = cursor.last /\ cursor'.target = cursor.target /\ cursor'.owner = Null
        /\ cursor'.expires = Null /\ cursor'.next = now + RetryMs /\ cursor' \in Cursor
        /\ cursor'.attempts = cursor.attempts
    BY <1>2, <2>1 DEF ReleaseForRetry, PairInv, TypeOK, Cursor
  <2>3. CursorSound'
    <3>1. cursor.target # Null /\ now + RetryMs # Null
      BY <2>1 DEF PairInv, CursorSound, CursorCoherent, PairAssumption
    <3>2. CursorCoherent'
      BY <2>1, <2>2, <3>1 DEF CursorCoherent
    <3> QED BY <1>0, <2>2, <3>2 DEF PairInv, CursorSound, Known, Covers, tables
  <2> QED BY <1>0, <2>2, <2>3, LetGoSound DEF PairInv, TypeOK
<1> QED BY <1>1, <1>2

-----------------------------------------------------------------------------
(* The invariant, and what follows from it.                                *)

LEMMA InitSound == ASSUME PairAssumption, Init PROVE PairInv
<1>1. TypeOK
  BY DEF Init, TypeOK, None, Nil, Resting, Ids, Sets, Cursor, WorkPcs
<1>2. TablesSound /\ CursorSound
  BY DEF Init, TablesSound, CursorSound, CursorCoherent, Known, Covers, None, Nil
<1>3. \A w \in Workers : ClaimSound(w) /\ ReadSound(w) /\ AttemptsSound(w)
  <2>1. \A w \in Workers : work[w].pc = "poll" /\ work[w].at = now
    BY DEF Init, Resting
  <2>2. now \in Nat
    BY DEF Init
  <2>3. \A w \in Workers : ClaimSound(w)
    BY <2>1 DEF ClaimSound
  <2>4. \A w \in Workers : ReadSound(w)
    <3> TAKE w \in Workers
    <3>1. work[w].pc = "poll" /\ work[w].at <= now
      BY <2>1, <2>2
    <3>2. work[w].pc \notin Holding /\ work[w].pc \notin {"theses", "insert", "complete"}
      BY <3>1 DEF Holding
    <3> QED BY <3>1, <3>2 DEF ReadSound
  <2>5. \A w \in Workers : AttemptsSound(w)
    BY <2>1 DEF AttemptsSound, Holding
  <2> QED BY <2>3, <2>4, <2>5
<1> QED BY <1>1, <1>2, <1>3 DEF PairInv

LEMMA StepSound == ASSUME PairAssumption, PairInv, [Next]_pairVars PROVE PairInv'
<1>1. ASSUME NEW f \in Feeds, Write(f) PROVE PairInv'
  BY <1>1, SerialSound, CommitSound DEF Write
<1>2. ASSUME NEW w \in Workers, Cycle(w) PROVE PairInv'
  BY <1>2, PollSound, ClaimLockSound, ClaimUpdateSound, ReadEvidenceSound, ReadThesesSound,
     InsertSound, FailsSound, CompleteSound, ReleaseSound DEF Cycle
<1>3. ASSUME NEW w \in Workers, Fails(w) PROVE PairInv'
  BY <1>3, FailsSound
<1>4. ASSUME NEW w \in Workers, Drop(w) PROVE PairInv'
  BY <1>4, RestSound DEF Drop, Fault, PairInv, TypeOK
<1>5. CASE Tick
  BY <1>5, TickSound
<1>6. CASE UNCHANGED pairVars
  <2>1. TypeOK' /\ TablesSound' /\ CursorSound'
    BY <1>6 DEF pairVars, tables, PairInv, TypeOK, TablesSound, CursorSound, CursorCoherent,
                Known, Covers
  <2>2. \A w \in Workers : ClaimSound(w)' /\ ReadSound(w)' /\ AttemptsSound(w)'
    BY <1>6 DEF pairVars, tables, PairInv, ClaimSound, ReadSound, AttemptsSound, Free, Owns,
                Known, Covers
  <2> QED BY <2>1, <2>2 DEF PairInv
<1> QED BY <1>1, <1>2, <1>3, <1>4, <1>5, <1>6 DEF Next

\* In every reachable state the cursor, the tables and the workers have their types.
THEOREM TypeCorrect == ASSUME PairAssumption PROVE Spec => []TypeOK
<1>1. PairInv => TypeOK
  BY DEF PairInv
<1> QED BY <1>1, InitSound, StepSound, PTL DEF Spec

\* The migration's CHECK on the cursor holds of every update, and a retry
\* always has an attempt left.
THEOREM CursorCorrect == ASSUME PairAssumption PROVE Spec => []CursorCoherent
<1>1. PairInv => CursorCoherent
  BY DEF PairInv, CursorSound
<1> QED BY <1>1, InitSound, StepSound, PTL DEF Spec

\* What the cursor has passed was answered or given up, save late rows.
THEOREM NothingLost == ASSUME PairAssumption PROVE Spec => []NothingSkipped
<1>1. PairInv => NothingSkipped
  BY DEF PairInv, CursorSound, Covers, NothingSkipped
<1> QED BY <1>1, InitSound, StepSound, PTL DEF Spec

\* The cursor only moves forward: a worker that has lost its lease, and one
\* whose target is behind, cannot set it back.
THEOREM OnlyForward == ASSUME PairAssumption PROVE Spec => NeverBack
<1>1. ASSUME PairInv, [Next]_pairVars PROVE \A f \in Feeds : cursor.last[f] <= cursor'.last[f]
  <2>0. \A f \in Feeds : cursor.last[f] \in Nat
    BY <1>1 DEF PairInv, TypeOK, Cursor, Ids
  <2>1. ASSUME NEW w \in Workers, ClaimUpdate(w) PROVE cursor'.last = cursor.last
    BY <2>1 DEF ClaimUpdate
  <2>2. ASSUME NEW w \in Workers, ReleaseForRetry(w) PROVE cursor'.last = cursor.last
    BY <1>1, <2>2 DEF ReleaseForRetry, PairInv, TypeOK, Cursor
  <2>3. ASSUME NEW w \in Workers, Complete(w)
        PROVE  \A f \in Feeds : cursor.last[f] <= cursor'.last[f]
    <3>1. CASE Owns(w)
      <4>1. cursor'.last = work[w].target /\ cursor.target = work[w].target
        BY <2>3, <3>1 DEF Complete, Owns
      <4>2. cursor.target # Null
        BY <1>1, <2>3, <4>1 DEF PairInv, TypeOK, PairAssumption, Ids, Feeds
      <4> QED BY <1>1, <4>1, <4>2 DEF PairInv, CursorSound
    <3>2. CASE ~Owns(w)
      BY <2>0, <2>3, <3>2 DEF Complete
    <3> QED BY <3>1, <3>2
  <2>4. cursor' = cursor \/ \E w \in Workers :
           ClaimUpdate(w) \/ ReleaseForRetry(w) \/ Complete(w)
    BY <1>1 DEF Next, Write, Draw, Commit, Discard, Cycle, Poll, ClaimLock, ReadEvidence,
               ReadTheses, InsertInsight, Reject, Fails, Drop, Tick, pairVars
  <2> QED BY <2>0, <2>1, <2>2, <2>3, <2>4
<1> QED BY <1>1, InitSound, StepSound, PTL DEF Spec, NeverBack

\* A lease that has not ended passes to no other worker: the claim's check
\* still holds when it writes, for it keeps the row locked in between.
THEOREM LeaseRespected == ASSUME PairAssumption PROVE Spec => LeaseKept
<1>1. ASSUME PairInv, [Next]_pairVars, cursor.owner # Null, now < cursor.expires
      PROVE  cursor'.owner \in {cursor.owner, Null}
  <2>1. ASSUME NEW w \in Workers, ClaimUpdate(w) PROVE cursor' = cursor
    <3>1. /\ cursor.expires <= work[w].at /\ work[w].at <= now
          /\ cursor.expires \in Nat /\ work[w].at \in Nat /\ now \in Nat
      BY <1>1, <2>1 DEF ClaimUpdate, PairInv, TypeOK, Cursor, ClaimSound, ReadSound, Free,
                       CursorSound, CursorCoherent
    <3> QED BY <1>1, <3>1
  <2>2. ASSUME NEW w \in Workers, ReleaseForRetry(w) PROVE cursor'.owner \in {cursor.owner, Null}
    BY <1>1, <2>2 DEF ReleaseForRetry, PairInv, TypeOK, Cursor
  <2>3. ASSUME NEW w \in Workers, Complete(w) PROVE cursor'.owner \in {cursor.owner, Null}
    BY <2>3 DEF Complete
  <2>4. cursor' = cursor \/ \E w \in Workers :
           ClaimUpdate(w) \/ ReleaseForRetry(w) \/ Complete(w)
    BY <1>1 DEF Next, Write, Draw, Commit, Discard, Cycle, Poll, ClaimLock, ReadEvidence,
               ReadTheses, InsertInsight, Reject, Fails, Drop, Tick, pairVars
  <2> QED BY <2>1, <2>2, <2>3, <2>4
<1> QED BY <1>1, InitSound, StepSound, PTL DEF Spec, LeaseKept
=============================================================================
