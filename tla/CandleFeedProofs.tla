--------------------------- MODULE CandleFeedProofs ---------------------------
(***************************************************************************)
(* What the candle table may be relied on for, however posts are delayed,  *)
(* repeated, lost or overtaken, whatever the provider corrects and however *)
(* often the collector restarts: every candle stored was reported, and a   *)
(* slot never turns back to an earlier version of its candle.              *)
(*                                                                         *)
(* Every report that is still about, in the table, on the net or in the    *)
(* collector's hands, is a sighting of a candle at an instant.  What       *)
(* carries the proofs is that sightings are genuine and in order: of two   *)
(* of a slot the later one is not of an older version.                     *)
(***************************************************************************)
EXTENDS CandleFeed, FiniteSetTheorems, TLAPS

Sighting(s, value, at) == [slot |-> s, value |-> value, at |-> at]

SightingsOf(m) == {Sighting(s, m.candles[s], m.at) : s \in DOMAIN m.candles}

Seen ==
  {rows[i] : i \in DOMAIN rows}
  \cup (UNION {SightingsOf(m) : m \in net})
  \cup (IF pc = "post" THEN SightingsOf(batch) ELSE {})

SightingsSound ==
  /\ \A x \in Seen :
       /\ x = Sighting(x.slot, x.value, x.at)
       /\ x.slot \in Slots /\ x.at \in Nat /\ x.slot <= x.at /\ x.at <= now
       /\ x.value \in Nat /\ x.value <= provider[x.slot]
  /\ \A x, y \in Seen : x.slot = y.slot /\ x.at < y.at => x.value <= y.value

\* A slot that has revisions has a newest one.
NewestThere == \A s \in Stored : Latest(s) # {}

Revision == [slot : Slots, value : Int, at : Nat]

\* The inductive invariant.
FeedInv ==
  /\ TypeOK
  /\ rows \in Seq(Revision)
  /\ \A m \in net : m.at \in Nat
  /\ SightingsSound /\ NewestThere

-----------------------------------------------------------------------------
(* Sets made into sequences                                                *)

\* A finite set has a sequence of exactly its members, each of them once.
LEMMA SeqOfSet ==
  ASSUME NEW S, IsFiniteSet(S)
  PROVE  /\ SetToSeq(S) \in Seq(S) /\ Len(SetToSeq(S)) = Cardinality(S)
         /\ {SetToSeq(S)[k] : k \in DOMAIN SetToSeq(S)} = S
         /\ \A j, k \in DOMAIN SetToSeq(S) : SetToSeq(S)[j] = SetToSeq(S)[k] => j = k
<1> DEFINE n == Cardinality(S)
           f == SetToSeq(S)
<1>1. n \in Nat /\ ExistsBijection(1..n, S)
  BY FS_CardinalityType
<1>2. PICK g : g \in Bijection(1..n, S)
  BY <1>1 DEF ExistsBijection
<1>3. g \in [1..n -> S] /\ IsInjective(g)
  BY <1>2 DEF Bijection, Injection
<1>4. f \in [1..n -> S] /\ IsInjective(f)
  BY <1>3 DEF SetToSeq
<1>5. f \in Injection(1..n, S)
  BY <1>4 DEF Injection
<1>6. IsFiniteSet(1..n) /\ Cardinality(1..n) = n
  BY <1>1, FS_Interval
<1>7. f \in Surjection(1..n, S)
  BY <1>5, <1>6, FS_Injection
<1> HIDE DEF f, n
<1>8. f \in Seq(S) /\ Len(f) = n /\ DOMAIN f = 1..n
  BY <1>1, <1>4
<1>9. {f[k] : k \in DOMAIN f} = S
  BY <1>4, <1>7, <1>8 DEF Surjection
<1> QED
  BY <1>4, <1>8, <1>9 DEF IsInjective, f, n

-----------------------------------------------------------------------------
(* What the collector makes of an answer                                   *)

\* Of every answer, faulty or not, only candles as they are at the provider
\* are kept, and only of slots that have begun.
LEMMA CandlesGenuine ==
  ASSUME TypeOK, NEW table \in {Genuine} \cup Answers
  PROVE  /\ DOMAIN Candles(table) \subseteq Recent
         /\ \A s \in DOMAIN Candles(table) : Candles(table)[s] = provider[s]
<1> DEFINE fine(t, r) ==
             /\ r.slot \in Recent
             /\ r.value \in {provider[r.slot], Garbage, Wrong}
             /\ r.value = Wrong => \E q \in t : q.slot = r.slot /\ q.value = provider[r.slot]
<1>1. \A r \in table : fine(table, r)
  <2>1. \A r \in Genuine : r.slot \in Recent /\ r.value = provider[r.slot]
    BY DEF Genuine, Row
  <2>2. \A s \in Recent : Row(s, provider[s], 1) \in Genuine
    BY DEF Genuine
  <2>3. \A s \in Recent : provider[s] \in Nat
    BY DEF Recent, TypeOK
  <2>4. \A t : \A r \in Genuine : fine(t, r)
    BY <2>1, <2>3 DEF Wrong
  <2>5. ASSUME NEW s \in Recent, table = Genuine \cup {Row(s, provider[s], 2)}
        PROVE  \A r \in table : fine(table, r)
    BY <2>3, <2>4, <2>5 DEF Row, Wrong
  <2>6. ASSUME NEW s \in Recent, table = Genuine \cup {Row(s, Wrong, 2)}
        PROVE  \A r \in table : fine(table, r)
    <3>1. Row(s, provider[s], 1) \in table
      BY <2>2, <2>6
    <3> QED
      BY <2>4, <2>6, <3>1 DEF Row
  <2>7. ASSUME NEW s \in Recent,
               table = (Genuine \ {Row(s, provider[s], 1)}) \cup {Row(s, Garbage, 1)}
        PROVE  \A r \in table : fine(table, r)
    BY <2>4, <2>7 DEF Row, Wrong, Garbage
  <2> QED
    BY <2>4, <2>5, <2>6, <2>7 DEF Answers
<1>2. \A s \in Recent : provider[s] \in Nat
  BY DEF Recent, TypeOK
<1> DEFINE good == {r.slot : r \in table} \cap {s \in Slots : Group(table, s) # {} /\ ~Conflicting(table, s)}
<1>3. DOMAIN Candles(table) = good
  BY DEF Candles
<1>4. ASSUME NEW s \in good PROVE Candles(table)[s] = provider[s]
  <2>1. s \in Recent
    BY <1>1
  <2>2. \A r \in Group(table, s) : r.value = provider[s]
    <3> SUFFICES ASSUME NEW r \in Group(table, s), r.value # provider[s] PROVE FALSE
      OBVIOUS
    <3>1. r.value = Wrong
      BY <1>1 DEF Group
    <3>2. PICK q \in table : q.slot = s /\ q.value = provider[s]
      BY <1>1, <3>1 DEF Group
    <3>3. q \in Group(table, s)
      BY <1>2, <2>1, <3>2 DEF Group, Garbage
    <3> QED
      BY <3>2, <3>3 DEF Conflicting
  <2>3. \E r \in Group(table, s) : \A q \in Group(table, s) : r.value <= q.value
    BY <1>2, <2>1, <2>2
  <2> QED
    BY <1>3, <2>2, <2>3 DEF Candles
<1> QED
  BY <1>1, <1>3, <1>4

-----------------------------------------------------------------------------
(* Steps that make no new revision                                         *)

\* Sightings stay sound when the only new ones are of candles as they are at
\* the provider, reported now.
LEMMA SightingsKept ==
  ASSUME TypeOK, SightingsSound, now' \in Nat, now <= now',
         \A s \in Slots : provider'[s] \in Nat /\ provider[s] <= provider'[s],
         \A x \in Seen' : \/ x \in Seen
                          \/ \E s \in Slots : s <= now /\ x = Sighting(s, provider[s], now)
  PROVE  SightingsSound'
<1>1. \A s \in Slots : s \in Nat /\ provider[s] \in Nat
  BY FeedAssumption DEF TypeOK
<1>2. now \in Nat
  BY DEF TypeOK
<1>3. \A x \in Seen' :
        /\ x = Sighting(x.slot, x.value, x.at)
        /\ x.slot \in Slots /\ x.at \in Nat /\ x.slot <= x.at /\ x.at <= now'
        /\ x.value \in Nat /\ x.value <= provider'[x.slot]
        /\ x.value <= provider[x.slot] /\ x.at <= now
        /\ x \in Seen \/ (x.at = now /\ x.value = provider[x.slot])
  BY <1>1, <1>2 DEF SightingsSound, Sighting
<1>4. ASSUME NEW x \in Seen', NEW y \in Seen', x.slot = y.slot, x.at < y.at
      PROVE  x.value <= y.value
  BY <1>2, <1>3, <1>4 DEF SightingsSound
<1> QED
  BY <1>3, <1>4 DEF SightingsSound

\* Without a new row, every slot shows what it did.
LEMMA RowsStay ==
  ASSUME UNCHANGED rows
  PROVE  /\ NewestThere => NewestThere'
         /\ \A s \in Slots : Shown(s)' = Shown(s)
BY DEF NewestThere, Stored, Latest, Newer, Shown

\* A step of the collector or of the network that reports only what was seen,
\* or what the provider shows now, keeps the invariant.
LEMMA NoRevision ==
  ASSUME FeedInv, UNCHANGED <<provider, rows, now>>, TypeOK', \A m \in net' : m.at \in Nat,
         \A x \in Seen' : \/ x \in Seen
                          \/ \E s \in Slots : s <= now /\ x = Sighting(s, provider[s], now)
  PROVE  FeedInv'
<1>1. now' \in Nat /\ now <= now'
  BY DEF FeedInv, TypeOK
<1>2. \A s \in Slots : provider'[s] \in Nat /\ provider[s] <= provider'[s]
  BY FeedAssumption DEF FeedInv, TypeOK
<1>3. SightingsSound'
  BY <1>1, <1>2, SightingsKept DEF FeedInv
<1> QED
  BY <1>3, RowsStay DEF FeedInv

\* What is on the net was seen, and so is what the collector posts again.
LEMMA MessagesSeen ==
  /\ \A m \in net : SightingsOf(m) \subseteq Seen
  /\ pc = "post" => SightingsOf(batch) \subseteq Seen
  /\ \A i \in DOMAIN rows : rows[i] \in Seen
BY DEF Seen

\* The collector reads an answer, and posts it if it is worth it.
LEMMA TakeKeeps ==
  ASSUME FeedInv, pc = "fetch", NEW table \in {Genuine} \cup Answers, Take(table),
         faults' \in 0..MaxFaults
  PROVE  FeedInv'
<1>1. UNCHANGED <<provider, rows, now>>
  BY DEF Take
<1>2. CASE ~Postable(table)
  <2>1. pc' = "sleep" /\ wake' = now + 1 /\ tries' = 0 /\ reply' = "none" /\ net' = net
    BY <1>2 DEF Take, Sleep
  <2>2. TypeOK'
    BY <1>1, <2>1, FeedAssumption DEF FeedInv, TypeOK
  <2>3. Seen' \subseteq Seen
    BY <1>1, <2>1 DEF Seen, SightingsOf
  <2> QED
    BY <1>1, <2>1, <2>2, <2>3, NoRevision DEF FeedInv
<1>3. CASE Postable(table)
  <2> DEFINE m == [candles |-> Candles(table), at |-> now, try |-> 1]
  <2>1. /\ pc' = "post" /\ tries' = 1 /\ wake' = wake /\ reply' = "none"
        /\ batch'.candles = Candles(table) /\ batch'.at = now
        /\ net' = net \cup {m}
    BY <1>3 DEF Take
  <2>2. m.at = now /\ m.try = 1 /\ m.candles = Candles(table)
    OBVIOUS
  <2> HIDE DEF m
  <2>3. TypeOK'
    BY <1>1, <1>3, <2>1, <2>2, FeedAssumption DEF FeedInv, TypeOK, Postable
  <2>4. SightingsOf(m) = {Sighting(s, provider[s], now) : s \in DOMAIN Candles(table)}
    BY <2>2, CandlesGenuine DEF FeedInv, SightingsOf
  <2>5. SightingsOf(batch') = SightingsOf(m)
    BY <2>1, <2>2 DEF SightingsOf
  <2>6. Seen' \subseteq Seen \cup SightingsOf(m)
    BY <1>1, <2>1, <2>5 DEF Seen, SightingsOf
  <2>7. \A x \in SightingsOf(m) : \E s \in Slots : s <= now /\ x = Sighting(s, provider[s], now)
    BY <2>4, CandlesGenuine DEF FeedInv, Recent
  <2> QED
    BY <1>1, <2>1, <2>2, <2>3, <2>6, <2>7, NoRevision DEF FeedInv, TypeOK
<1> QED
  BY <1>2, <1>3

\* What is posted again was in the collector's hands.
LEMMA AgainKeeps ==
  ASSUME FeedInv, pc = "post", Again, UNCHANGED <<provider, rows, now>>, faults' \in 0..MaxFaults
  PROVE  FeedInv'
<1>1. CASE tries < MaxTries
  <2> DEFINE m == [Message EXCEPT !.try = tries + 1]
  <2>1. /\ pc' = pc /\ tries' = tries + 1 /\ wake' = wake /\ reply' = "none" /\ batch' = batch
        /\ net' = net \cup {m}
    BY <1>1 DEF Again
  <2>2. m.at = batch.at /\ m.try = tries + 1 /\ m.candles = batch.candles
    BY DEF Message
  <2> HIDE DEF m
  <2>3. \E s \in DOMAIN batch.candles : Sighting(s, batch.candles[s], batch.at) \in Seen
    BY MessagesSeen DEF FeedInv, TypeOK, SightingsOf
  <2>4. batch.at \in Nat /\ batch.at <= now
    BY <2>3 DEF FeedInv, SightingsSound, Sighting
  <2>5. TypeOK'
    BY <1>1, <2>1, <2>2, <2>4, FeedAssumption DEF FeedInv, TypeOK
  <2>6. SightingsOf(m) = SightingsOf(batch)
    BY <2>2 DEF SightingsOf
  <2>7. Seen' \subseteq Seen
    BY <2>1, <2>6 DEF Seen, SightingsOf
  <2> QED
    BY <2>1, <2>2, <2>4, <2>5, <2>7, NoRevision DEF FeedInv
<1>2. CASE ~(tries < MaxTries)
  <2>1. pc' = "sleep" /\ wake' = now + 1 /\ tries' = 0 /\ reply' = "none" /\ net' = net
    BY <1>2 DEF Again, Sleep
  <2>2. TypeOK'
    BY <2>1, FeedAssumption DEF FeedInv, TypeOK
  <2>3. Seen' \subseteq Seen
    BY <2>1 DEF Seen, SightingsOf
  <2> QED
    BY <2>1, <2>2, <2>3, NoRevision DEF FeedInv
<1> QED
  BY <1>1, <1>2

-----------------------------------------------------------------------------
(* New revisions                                                           *)

Kept(m) == {s \in DOMAIN m.candles : Keep(s, m.candles[s], m.at)}

Added(m) == {[slot |-> s, value |-> m.candles[s], at |-> m.at] : s \in Kept(m)}

\* A batch appends one row for each slot it brings something newer of.
LEMMA IngestRows ==
  ASSUME FeedInv, NEW m \in net, Ingest(m)
  PROVE  /\ rows' \in Seq(Revision)
         /\ Len(rows) <= Len(rows')
         /\ \A i \in 1..Len(rows) : rows'[i] = rows[i]
         /\ \A i \in (Len(rows) + 1)..Len(rows') :
              /\ rows'[i].slot \in Kept(m) /\ rows'[i].at = m.at
              /\ rows'[i].value = m.candles[rows'[i].slot] /\ rows'[i] \in SightingsOf(m)
         /\ \A s \in Kept(m) : \E i \in (Len(rows) + 1)..Len(rows') : rows'[i].slot = s
         /\ \A i, j \in (Len(rows) + 1)..Len(rows') : rows'[i].slot = rows'[j].slot => i = j
<1> DEFINE D == DOMAIN m.candles
           f == SetToSeq(Added(m))
           n == Len(rows)
<1>0. n \in Nat /\ rows \in Seq(Revision)
  BY DEF FeedInv
<1>1. \A s \in D : /\ s \in Slots /\ s \in Nat /\ s <= now
                   /\ m.candles[s] \in Int /\ m.at \in Nat
  <2>0. \A s \in D : Sighting(s, m.candles[s], m.at) \in SightingsOf(m)
    BY DEF SightingsOf
  <2>1. \A s \in D : Sighting(s, m.candles[s], m.at) \in Seen
    BY <2>0, MessagesSeen
  <2> SUFFICES ASSUME NEW s \in D
               PROVE  /\ s \in Slots /\ s \in Nat /\ s <= now
                      /\ m.candles[s] \in Int /\ m.at \in Nat
    OBVIOUS
  <2> DEFINE x == Sighting(s, m.candles[s], m.at)
  <2>2. x.slot = s /\ x.value = m.candles[s] /\ x.at = m.at
    BY DEF Sighting
  <2>3. /\ x.slot \in Slots /\ x.at \in Nat /\ x.slot <= x.at /\ x.at <= now /\ x.value \in Nat
    BY <2>1 DEF FeedInv, SightingsSound
  <2>4. now \in Nat /\ x.slot \in Nat
    BY <2>3, FeedAssumption DEF FeedInv, TypeOK
  <2> HIDE DEF x
  <2> QED
    BY <2>2, <2>3, <2>4
<1>2. IsFiniteSet(Kept(m))
  <2>0. now \in Nat
    BY DEF FeedInv, TypeOK
  <2>1. now \in Nat /\ IsFiniteSet(0..now)
    BY <2>0, FS_Interval
  <2>2. Kept(m) \subseteq 0..now
    BY <1>1, <2>1 DEF Kept
  <2> QED
    BY <2>1, <2>2, FS_Subset
<1>3. IsFiniteSet(Added(m))
  <2> DEFINE g == [s \in Kept(m) |-> [slot |-> s, value |-> m.candles[s], at |-> m.at]]
  <2>1. g \in Surjection(Kept(m), Added(m))
    BY DEF Surjection, Added
  <2> QED
    BY <1>2, <2>1, FS_Surjection
<1>4. /\ f \in Seq(Added(m))
      /\ {f[k] : k \in DOMAIN f} = Added(m)
      /\ \A j, k \in DOMAIN f : f[j] = f[k] => j = k
  BY <1>3, SeqOfSet
<1>5. rows' = rows \o f
  BY DEF Ingest, Added, Kept
<1>6. Added(m) \subseteq Revision
  BY <1>1 DEF Added, Kept, Revision
<1> HIDE DEF f
<1>7. f \in Seq(Revision) /\ DOMAIN f = 1..Len(f) /\ Len(f) \in Nat
  <2>1. f \in Seq(Added(m)) /\ Added(m) \subseteq Revision
    BY <1>4, <1>6
  <2>2. f \in Seq(Revision) /\ DOMAIN f = 1..Len(f) /\ Len(f) \in Nat
    BY <2>1
  <2> QED
    BY <2>2
<1>8. /\ rows' \in Seq(Revision) /\ Len(rows') = n + Len(f)
      /\ \A i \in 1..n : rows'[i] = rows[i]
      /\ \A i \in (n + 1)..(n + Len(f)) : rows'[i] = f[i - n]
  <2>1. rows \in Seq(Revision) /\ f \in Seq(Revision)
    BY <1>0, <1>7
  <2>2. /\ rows \o f \in Seq(Revision) /\ Len(rows \o f) = n + Len(f)
        /\ \A i \in 1..(n + Len(f)) : (rows \o f)[i] = IF i <= n THEN rows[i] ELSE f[i - n]
    BY <2>1
  <2> QED
    BY <1>0, <1>5, <1>7, <2>2
<1>9. \A k \in DOMAIN f : /\ f[k].slot \in Kept(m) /\ f[k].at = m.at
                          /\ f[k].value = m.candles[f[k].slot]
                          /\ f[k] \in SightingsOf(m)
                          /\ f[k] = [slot |-> f[k].slot, value |-> m.candles[f[k].slot], at |-> m.at]
  <2>1. \A x \in Added(m) : /\ x.slot \in Kept(m) /\ x.at = m.at
                            /\ x.value = m.candles[x.slot] /\ x \in SightingsOf(m)
                            /\ x = [slot |-> x.slot, value |-> m.candles[x.slot], at |-> m.at]
    BY DEF Added, Kept, SightingsOf, Sighting
  <2> QED
    BY <1>4, <2>1
<1>10. ASSUME NEW s \in Kept(m) PROVE \E k \in DOMAIN f : f[k].slot = s
  <2>1. [slot |-> s, value |-> m.candles[s], at |-> m.at] \in Added(m)
    BY DEF Added
  <2> QED
    BY <1>4, <2>1
<1>11. \A i \in (n + 1)..(n + Len(f)) : i - n \in DOMAIN f
  BY <1>0, <1>7
<1>12. \A k \in DOMAIN f : k + n \in (n + 1)..(n + Len(f)) /\ (k + n) - n = k
  BY <1>0, <1>7
<1>13. \A i, j \in (n + 1)..(n + Len(f)) : rows'[i].slot = rows'[j].slot => i = j
  <2> SUFFICES ASSUME NEW i \in (n + 1)..(n + Len(f)), NEW j \in (n + 1)..(n + Len(f)),
                      rows'[i].slot = rows'[j].slot
               PROVE  i = j
    OBVIOUS
  <2>1. f[i - n].slot = f[j - n].slot
    BY <1>8
  <2>2. f[i - n] = f[j - n]
    BY <1>9, <1>11, <2>1
  <2>3. i - n = j - n
    BY <1>4, <1>11, <2>2
  <2> QED
    BY <1>0, <1>7, <2>3
<1>14. ASSUME NEW i \in (n + 1)..Len(rows')
       PROVE  /\ rows'[i].slot \in Kept(m) /\ rows'[i].at = m.at
              /\ rows'[i].value = m.candles[rows'[i].slot] /\ rows'[i] \in SightingsOf(m)
  BY <1>8, <1>9, <1>11
<1>15. ASSUME NEW s \in Kept(m) PROVE \E i \in (n + 1)..Len(rows') : rows'[i].slot = s
  <2>1. PICK k \in DOMAIN f : f[k].slot = s
    BY <1>10
  <2> QED
    BY <1>8, <1>12, <2>1
<1> QED
  BY <1>0, <1>7, <1>8, <1>13, <1>14, <1>15

\* What a sequence of revisions holds.
LEMMA RevisionTypes ==
  ASSUME NEW r \in Seq(Revision)
  PROVE  /\ Len(r) \in Nat /\ DOMAIN r = 1..Len(r)
         /\ \A i \in 1..Len(r) : i \in Nat /\ r[i].slot \in Slots /\ r[i].value \in Int /\ r[i].at \in Nat
<1>1. /\ Len(r) \in Nat /\ DOMAIN r = 1..Len(r)
      /\ \A i \in 1..Len(r) : i \in Nat /\ r[i] \in Revision
  OBVIOUS
<1> QED
  BY <1>1 DEF Revision

\* No two revisions are both the newest of a slot.
LEMMA LatestIsOne ==
  rows \in Seq(Revision) =>
    \A s : \A i, j \in Latest(s) : i = j
<1> SUFFICES ASSUME rows \in Seq(Revision),
                    NEW s, NEW i \in Latest(s), NEW j \in Latest(s), i # j
             PROVE  FALSE
  OBVIOUS
<1>1. /\ i \in DOMAIN rows /\ j \in DOMAIN rows /\ Newer(i, j) /\ Newer(j, i)
      /\ i \in Nat /\ j \in Nat
  BY RevisionTypes DEF Latest
<1>2. rows[i].at \in Nat /\ rows[j].at \in Nat
  BY <1>1, RevisionTypes
<1> QED
  BY <1>1, <1>2 DEF Newer

\* The newest revision is the one that is shown.
LEMMA ShownIsLatest ==
  rows \in Seq(Revision) =>
    \A s : \A i \in Latest(s) : Shown(s) = rows[i].value
<1> SUFFICES ASSUME rows \in Seq(Revision),
                    NEW s, NEW i \in Latest(s)
             PROVE  Shown(s) = rows[i].value
  OBVIOUS
<1>1. s \in Stored
  BY DEF Latest, Stored
<1>2. (CHOOSE j \in Latest(s) : TRUE) = i
  BY LatestIsOne
<1> QED
  BY <1>1, <1>2 DEF Shown

\* ShownIsLatest, of the next state.
LEMMA ShownIsLatestNext ==
  (rows \in Seq(Revision) => \A s : \A i \in Latest(s) : Shown(s) = rows[i].value)'
BY ShownIsLatest, PTL

\* A post that adds a revision of a slot adds one that is newer, and of a
\* version that is not older.
LEMMA IngestForward ==
  ASSUME FeedInv, NEW m \in net, Ingest(m), NEW s \in Stored
  PROVE  Latest(s)' # {} /\ Shown(s)' >= Shown(s)
<1> DEFINE n == Len(rows)
<1>1. PICK i \in Latest(s) : TRUE
  BY DEF FeedInv, NewestThere
<1>2. /\ rows \in Seq(Revision) /\ rows' \in Seq(Revision)
      /\ n \in Nat /\ Len(rows') \in Nat /\ n <= Len(rows')
      /\ DOMAIN rows = 1..n /\ DOMAIN rows' = 1..Len(rows')
  BY IngestRows, RevisionTypes DEF FeedInv
<1>3. /\ i \in 1..n /\ rows[i].slot = s /\ rows[i].at \in Nat /\ rows[i].value \in Int
      /\ \A j \in 1..n : rows[j].slot = s => j = i \/ Newer(i, j)
  BY <1>1, <1>2, RevisionTypes DEF Latest
<1>4. \A j \in 1..Len(rows') : rows'[j].at \in Nat /\ rows'[j].value \in Int /\ j \in Nat
  BY <1>2, RevisionTypes
<1>5. \A j \in 1..n : rows'[j] = rows[j]
  BY IngestRows
<1>6. \A j \in 1..Len(rows') : ~(j \in 1..n) => j \in (n + 1)..Len(rows')
  BY <1>2
<1>7. CASE s \in Kept(m)
  <2>1. PICK k \in (n + 1)..Len(rows') : rows'[k].slot = s
    BY <1>7, IngestRows
  <2>2. rows'[k].at = m.at /\ rows'[k].value = m.candles[s] /\ k \in 1..Len(rows')
    BY <1>2, <2>1, IngestRows
  <2>3. rows[i].at < m.at
    BY <1>1, <1>7 DEF Kept, Keep
  <2>4. \A j \in 1..Len(rows') : rows'[j].slot = s => j = k \/ rows'[k].at > rows'[j].at
    <3> SUFFICES ASSUME NEW j \in 1..Len(rows'), rows'[j].slot = s, j # k
                 PROVE  rows'[k].at > rows'[j].at
      OBVIOUS
    <3>1. j \in 1..n
      BY <1>6, <2>1, IngestRows
    <3>2. rows[j].at <= rows[i].at /\ rows'[j] = rows[j]
      BY <1>2, <1>3, <1>4, <1>5, <3>1 DEF Newer
    <3> QED
      BY <1>3, <1>4, <2>2, <2>3, <3>2
  <2>5. k \in Latest(s)'
    BY <1>2, <2>1, <2>2, <2>4 DEF Latest, Newer
  <2>6. rows[i].value <= m.candles[s]
    <3>1. rows[i] \in Seen /\ Sighting(s, m.candles[s], m.at) \in SightingsOf(m)
      BY <1>2, <1>3, <1>7, MessagesSeen DEF SightingsOf, Kept
    <3>2. Sighting(s, m.candles[s], m.at) \in Seen
      BY <3>1, MessagesSeen
    <3> DEFINE x == rows[i]
               y == Sighting(s, m.candles[s], m.at)
    <3>3. x \in Seen /\ y \in Seen /\ x.slot = y.slot /\ x.at < y.at /\ y.value = m.candles[s]
      BY <1>3, <2>3, <3>1, <3>2 DEF Sighting
    <3> HIDE DEF y
    <3> QED
      BY <3>3 DEF FeedInv, SightingsSound
  <2>7. Shown(s) = rows[i].value
    BY <1>1, <1>2, ShownIsLatest
  <2>8. Shown(s)' = rows'[k].value
    BY ShownIsLatestNext, <1>2, <2>5
  <2> QED
    BY <1>3, <1>4, <2>2, <2>5, <2>6, <2>7, <2>8
<1>8. CASE s \notin Kept(m)
  <2>1. \A j \in 1..Len(rows') : rows'[j].slot = s => j \in 1..n
    BY <1>6, <1>8, IngestRows
  <2>2. i \in Latest(s)'
    BY <1>2, <1>3, <1>5, <2>1 DEF Latest, Newer
  <2>3. Shown(s) = rows[i].value
    BY <1>1, <1>2, ShownIsLatest
  <2>4. Shown(s)' = rows'[i].value
    BY ShownIsLatestNext, <1>2, <2>2
  <2> QED
    BY <1>3, <1>5, <2>2, <2>3, <2>4
<1> QED
  BY <1>7, <1>8

\* A slot that gets its first revision has a newest one.
LEMMA IngestNewest ==
  ASSUME FeedInv, NEW m \in net, Ingest(m)
  PROVE  NewestThere'
<1> DEFINE n == Len(rows)
<1> SUFFICES ASSUME NEW s \in Stored' PROVE Latest(s)' # {}
  BY DEF NewestThere
<1>1. CASE s \in Stored
  BY <1>1, IngestForward
<1>2. CASE s \notin Stored
  <2>1. /\ rows \in Seq(Revision) /\ rows' \in Seq(Revision) /\ n \in Nat /\ Len(rows') \in Nat
        /\ DOMAIN rows = 1..n /\ DOMAIN rows' = 1..Len(rows')
        /\ \A i \in 1..n : rows'[i] = rows[i]
    BY IngestRows, RevisionTypes DEF FeedInv
  <2>2. PICK k \in 1..Len(rows') : rows'[k].slot = s
    BY <2>1 DEF Stored
  <2>3. \A j \in 1..Len(rows') : rows'[j].slot = s => j \in (n + 1)..Len(rows')
    BY <1>2, <2>1, IngestRows DEF Stored
  <2>4. \A j \in 1..Len(rows') : rows'[j].slot = s => j = k
    BY <2>2, <2>3, IngestRows
  <2> QED
    BY <2>1, <2>2, <2>4 DEF Latest
<1> QED
  BY <1>1, <1>2

\* A delivery keeps what the invariant says of the table.
LEMMA DeliverKeeps ==
  ASSUME FeedInv, NEW m \in net, Deliver(m)
  PROVE  FeedInv'
<1>1. Ingest(m) /\ UNCHANGED <<provider, pc, wake, tries, batch, now, faults>>
  BY DEF Deliver, collector
<1>2. net' \subseteq net /\ reply' \in {reply, "ok"}
  BY DEF Deliver, Answer
<1>3. TypeOK'
  <2>1. \A i \in DOMAIN rows' : rows'[i].slot \in Slots /\ rows'[i].value \in Int /\ rows'[i].at \in Nat
    BY <1>1, IngestRows, RevisionTypes
  <2> QED
    BY <1>1, <1>2, <2>1 DEF FeedInv, TypeOK
<1>4. \A i \in DOMAIN rows' : rows'[i] \in Seen
  <2>1. /\ rows \in Seq(Revision) /\ rows' \in Seq(Revision)
        /\ DOMAIN rows = 1..Len(rows) /\ DOMAIN rows' = 1..Len(rows')
        /\ Len(rows) \in Nat /\ Len(rows') \in Nat
    BY <1>1, IngestRows, RevisionTypes DEF FeedInv
  <2>2. ASSUME NEW i \in 1..Len(rows') PROVE rows'[i] \in Seen
    <3>1. CASE i \in 1..Len(rows)
      BY <1>1, <2>1, <3>1, IngestRows, MessagesSeen
    <3>2. CASE i \notin 1..Len(rows)
      <4>1. i \in (Len(rows) + 1)..Len(rows')
        BY <2>1, <3>2
      <4> QED
        BY <1>1, <4>1, IngestRows, MessagesSeen
    <3> QED
      BY <3>1, <3>2
  <2> QED
    BY <2>1, <2>2
<1>5. Seen' \subseteq Seen
  BY <1>1, <1>2, <1>4 DEF Seen, SightingsOf
<1>6. SightingsSound'
  <2>1. now' \in Nat /\ now <= now'
    BY <1>1 DEF FeedInv, TypeOK
  <2>2. \A s \in Slots : provider'[s] \in Nat /\ provider[s] <= provider'[s]
    BY <1>1, FeedAssumption DEF FeedInv, TypeOK
  <2> QED
    BY <1>5, <2>1, <2>2, SightingsKept DEF FeedInv
<1> QED
  BY <1>1, <1>2, <1>3, <1>6, IngestRows, IngestNewest DEF FeedInv

-----------------------------------------------------------------------------
(* The theorems                                                            *)

\* The invariant holds at the start, ...
LEMMA InitFeed == Init => FeedInv
<1> SUFFICES ASSUME Init PROVE FeedInv
  OBVIOUS
<1>1. Seen = {} /\ rows = <<>> /\ rows \in Seq(Revision) /\ DOMAIN rows = {}
  BY DEF Init, Seen
<1>2. TypeOK
  BY <1>1, FeedAssumption DEF Init, TypeOK
<1> QED
  BY <1>1, <1>2 DEF Init, FeedInv, SightingsSound, NewestThere, Stored

\* A step that does not concern the table: the provider's and the clock's.
LEMMA WorldKeeps ==
  ASSUME FeedInv, Tick \/ \E s \in Slots : Revise(s)
  PROVE  FeedInv'
<1>1. /\ UNCHANGED <<rows, pc, wake, tries, batch, net, reply, faults>>
      /\ now' \in Nat /\ now <= now'
      /\ provider' \in [Slots -> 0..MaxVersion]
      /\ \A s \in Slots : provider'[s] \in Nat /\ provider[s] <= provider'[s]
  <2>1. CASE Tick
    BY <2>1, FeedAssumption DEF Tick, collector, FeedInv, TypeOK
  <2>2. ASSUME NEW s \in Slots, Revise(s)
        PROVE  <1>1
    BY <2>2, FeedAssumption DEF Revise, collector, FeedInv, TypeOK
  <2> QED
    BY <2>1, <2>2
<1>2. TypeOK'
  BY <1>1 DEF FeedInv, TypeOK
<1>3. Seen' \subseteq Seen
  BY <1>1 DEF Seen, SightingsOf
<1>4. SightingsSound'
  BY <1>1, <1>3, SightingsKept DEF FeedInv
<1> QED
  BY <1>1, <1>2, <1>4, RowsStay DEF FeedInv

\* Posts that are lost or refused add nothing.
LEMMA LossKeeps ==
  ASSUME FeedInv, NEW m \in net, IngestFails(m) \/ Lose(m)
  PROVE  FeedInv'
<1>1. /\ UNCHANGED <<provider, rows, pc, wake, tries, batch, now>>
      /\ net' \subseteq net /\ reply' \in {reply, "error"} /\ faults' \in 0..MaxFaults
  BY FeedAssumption DEF IngestFails, Lose, Answer, Fault, collector, FeedInv, TypeOK
<1>2. TypeOK'
  BY <1>1 DEF FeedInv, TypeOK
<1>3. Seen' \subseteq Seen
  BY <1>1 DEF Seen, SightingsOf
<1> QED
  BY <1>1, <1>2, <1>3, NoRevision DEF FeedInv

\* The collector's steps other than reading an answer and posting again drop
\* what it had in its hands, at most.
LEMMA PauseKeeps ==
  ASSUME FeedInv, Wake \/ FetchFails \/ Posted \/ Crash
  PROVE  FeedInv'
<1>1. /\ UNCHANGED <<provider, rows, net, now>>
      /\ pc' \in {"sleep", "fetch"} /\ wake' \in Nat /\ tries' \in 0..MaxTries
      /\ reply' \in {"none", "ok", "error"} /\ faults' \in 0..MaxFaults
  BY FeedAssumption DEF Wake, FetchFails, Posted, Crash, Sleep, Fault, FeedInv, TypeOK
<1>2. TypeOK'
  BY <1>1 DEF FeedInv, TypeOK
<1>3. Seen' \subseteq Seen
  BY <1>1 DEF Seen, SightingsOf
<1> QED
  BY <1>1, <1>2, <1>3, NoRevision DEF FeedInv

\* ... is kept by every step, ...
LEMMA StepFeed == FeedInv /\ [Next]_vars => FeedInv'
<1> SUFFICES ASSUME FeedInv, [Next]_vars PROVE FeedInv'
  OBVIOUS
<1>1. CASE Tick \/ \E s \in Slots : Revise(s)
  BY <1>1, WorldKeeps
<1>2. CASE Collect
  <2>1. CASE Wake \/ FetchFails \/ Posted \/ Crash
    BY <2>1, PauseKeeps
  <2>2. CASE Fetched \/ FetchedFaulty
    <3>1. faults' \in 0..MaxFaults
      BY <2>2, FeedAssumption DEF Fetched, FetchedFaulty, Fault, FeedInv, TypeOK
    <3>2. \E table \in {Genuine} \cup Answers : pc = "fetch" /\ Take(table)
      BY <2>2 DEF Fetched, FetchedFaulty
    <3> QED
      BY <3>1, <3>2, TakeKeeps
  <2>3. CASE PostFails \/ PostLost \/ PostTimesOut
    BY <2>3, AgainKeeps, FeedAssumption
    DEF PostFails, PostLost, PostTimesOut, Fault, FeedInv, TypeOK
  <2> QED
    BY <1>2, <2>1, <2>2, <2>3 DEF Collect
<1>3. CASE Serve
  BY <1>3, DeliverKeeps, LossKeeps DEF Serve
<1>4. CASE UNCHANGED vars
  <2>1. UNCHANGED <<provider, rows, pc, wake, tries, batch, net, reply, now, faults>>
    BY <1>4 DEF vars, collector
  <2>2. TypeOK'
    BY <2>1 DEF FeedInv, TypeOK
  <2>3. Seen' \subseteq Seen
    BY <2>1 DEF Seen, SightingsOf
  <2> QED
    BY <2>1, <2>2, <2>3, NoRevision DEF FeedInv
<1> QED
  BY <1>1, <1>2, <1>3, <1>4 DEF Next

\* ... and so holds in every reachable state.
LEMMA InductiveFeed == Spec => []FeedInv
BY InitFeed, StepFeed, PTL DEF Spec

\* Collector, network and table keep their types: attempts stay within the
\* limit, and nothing is posted without a candle.
THEOREM TypeCorrect == Spec => []TypeOK
<1>1. FeedInv => TypeOK
  BY DEF FeedInv
<1> QED
  BY <1>1, InductiveFeed, PTL

\* However garbled, repeated or late the answers and the posts: what is stored
\* of a slot was once what the provider reported.
THEOREM StoredGenuine == Spec => []StoredIsGenuine
<1>1. FeedInv => StoredIsGenuine
  BY MessagesSeen DEF FeedInv, SightingsSound, StoredIsGenuine
<1> QED
  BY <1>1, InductiveFeed, PTL

\* No post, however late, repeated or overtaken, and no restart of the
\* collector turns a slot back to an earlier version of its candle.
THEOREM NeverSetBack == Spec => NeverRegresses
<1>1. FeedInv /\ [Next]_vars => [\A s \in Stored : Shown(s)' >= Shown(s)]_vars
  <2> SUFFICES ASSUME FeedInv, Next, NEW s \in Stored PROVE Shown(s)' >= Shown(s)
    OBVIOUS
  <2>1. CASE \E m \in net : Deliver(m)
    BY <2>1, IngestForward DEF Deliver
  <2>2. CASE UNCHANGED rows
    <3>1. PICK i \in Latest(s) : TRUE
      BY DEF FeedInv, NewestThere
    <3>2. Shown(s) \in Int
      BY <3>1, ShownIsLatest, RevisionTypes DEF FeedInv, Latest
    <3>3. Shown(s)' = Shown(s)
      BY <2>2 DEF Shown, Stored, Latest, Newer
    <3> QED
      BY <3>2, <3>3
  <2>3. (\E m \in net : Deliver(m)) \/ UNCHANGED rows
    BY DEF Next, Collect, Serve, Tick, Revise, Wake, Fetched, FetchedFaulty, Take, FetchFails,
           Posted, PostFails, PostLost, PostTimesOut, Crash, IngestFails, Lose
  <2> QED
    BY <2>1, <2>2, <2>3
<1> QED
  BY <1>1, InductiveFeed, PTL DEF Spec, NeverRegresses

-----------------------------------------------------------------------------
(* Freshness                                                               *)

\* The limits allow for a bar and its delay, an hour is not read before its
\* last quarter: 25, 75, 15, 60, 2 and 5 minutes in MARKET_REGIME_CONFIG.
LimitsAllowForDelay ==
  /\ \A tf \in Timeframes : Config[tf].delay + Config[tf].bar <= Config[tf].soft
  /\ Config["15m"].delay <= Config["1h"].delay

\* The instance leaves out no slot between the first and the last that closes.
SlotsHaveNoGap ==
  \A o \in Slots, t \in 0..MaxTime, n \in Nat :
    (o <= n * BarMs /\ n * BarMs <= Cutoff(t, Config["15m"])) => n * BarMs \in Slots

\* A cut-off is the open of a bar, and of the last one closed for the delay.
LEMMA CutoffIsLast ==
  ASSUME NEW at \in Int, NEW bar \in Nat \ {0}, NEW delay \in Nat
  PROVE  LET cut == ((at - delay) \div bar) * bar - bar
         IN /\ \E k \in Int : cut = k * bar
            /\ cut \in Int /\ cut + bar + delay <= at /\ at < cut + 2 * bar + delay
            /\ \A n \in Int : n * bar + bar + delay <= at => n * bar <= cut
<1> DEFINE q == (at - delay) \div bar
<1>1. q \in Int /\ bar * q <= at - delay /\ at - delay < bar * q + bar
  OBVIOUS
<1> HIDE DEF q
<1>2. q * bar - bar = (q - 1) * bar /\ q - 1 \in Int /\ q * bar \in Int
  BY <1>1
<1>3. ASSUME NEW n \in Int, n * bar + bar + delay <= at PROVE n * bar <= q * bar - bar
  <2>1. n + 1 <= q
    <3> SUFFICES ASSUME n + 1 >= q + 1 PROVE FALSE
      BY <1>1
    <3>1. (n + 1) * bar >= (q + 1) * bar
      BY <1>1
    <3>2. (n + 1) * bar = n * bar + bar /\ (q + 1) * bar = bar * q + bar
      BY <1>1
    <3> QED
      BY <1>1, <1>3, <3>1, <3>2
  <2>2. (n + 1) * bar <= q * bar
    BY <1>1, <2>1
  <2>3. (n + 1) * bar = n * bar + bar
    OBVIOUS
  <2> QED
    BY <1>2, <2>2, <2>3
<1> DEFINE cut == q * bar - bar
<1>4. q * bar = bar * q
  BY <1>1
<1>5. cut \in Int /\ cut + bar + delay <= at /\ at < cut + 2 * bar + delay
  BY <1>1, <1>2, <1>4
<1>6. \E k \in Int : cut = k * bar
  BY <1>2
<1> QED
  BY <1>3, <1>5, <1>6 DEF q

\* The greatest element is what Max chooses.
LEMMA MaxIs ==
  ASSUME NEW S \in SUBSET Int, NEW m \in S, \A x \in S : x <= m
  PROVE  Max(S) = m
<1>1. \A x \in S : (\A y \in S : x >= y) => x = m
  OBVIOUS
<1>2. m \in S /\ \A y \in S : m >= y
  OBVIOUS
<1>3. Max(S) = CHOOSE x \in S : \A y \in S : x >= y
  BY DEF Max
<1> QED
  BY <1>1, <1>2, <1>3

\* What is read at its cut-off is fresh.
LEMMA FreshAtCutoff ==
  ASSUME NEW tf \in Timeframes, LimitsAllowForDelay, NEW at \in Nat
  PROVE  ~Freshness(at, Cutoff(at, Config[tf]), Config[tf]).soft
<1> DEFINE c == Config[tf]
           cut == Cutoff(at, c)
           age == at - (cut + c.bar)
<1>1. c.bar \in Nat \ {0} /\ c.delay \in Nat /\ c.soft \in Nat /\ c.delay + c.bar <= c.soft
  BY MarketAssumption DEF LimitsAllowForDelay
<1>2. cut \in Int /\ cut + c.bar + c.delay <= at /\ at < cut + 2 * c.bar + c.delay
  <2>1. at \in Int
    OBVIOUS
  <2> QED
    BY <1>1, <2>1, CutoffIsLast DEF Cutoff
<1> HIDE DEF cut
<1>3. age \in Int /\ age >= 0 /\ age < c.soft
  BY <1>1, <1>2
<1> HIDE DEF age
<1>4. Max({0, age}) = age
  BY <1>3, MaxIs
<1>5. Freshness(at, cut, c).soft <=> Max({0, age}) >= c.soft
  BY DEF Freshness, age
<1>6. ~Freshness(at, cut, c).soft
  BY <1>1, <1>3, <1>4, <1>5
<1> QED
  BY <1>6 DEF cut

\* Every closed slot from a stored one to the cut-off is stored, if all are
\* that were due.
LEMMA NoGap ==
  ASSUME SlotsHaveNoGap, now \in 0..MaxTime, Stored \subseteq Slots,
         {o \in Slots : o <= Cutoff(now, Config["15m"])} \subseteq Stored,
         NEW o \in Stored, NEW k \in Int, o <= k * BarMs, k * BarMs <= Cutoff(now, Config["15m"])
  PROVE  k * BarMs \in {x \in Stored : x <= Cutoff(now, Config["15m"])}
<1>1. BarMs \in Nat \ {0} /\ o \in Slots /\ o \in Nat
  BY MarketAssumption, FeedAssumption DEF BarMs, Timeframes
<1>2. k \in Nat
  <2> SUFFICES ASSUME k < 0 PROVE FALSE
    OBVIOUS
  <2>1. k * BarMs < 0
    BY <1>1
  <2> QED
    BY <1>1, <2>1
<1>3. k * BarMs \in Slots
  BY <1>1, <1>2 DEF SlotsHaveNoGap
<1> QED
  BY <1>3

\* The quarters read end at the cut-off.
LEMMA QuartersReachCutoff ==
  ASSUME SlotsHaveNoGap, now \in 0..MaxTime, Stored \subseteq Slots,
         {o \in Slots : o <= Cutoff(now, Config["15m"])} \subseteq Stored,
         Bars("15m", Stored, now) # {}
  PROVE  Max(Bars("15m", Stored, now)) = Cutoff(now, Config["15m"])
<1> DEFINE cut == Cutoff(now, Config["15m"])
           closed == {x \in Stored : x <= cut}
<1>1. Bars("15m", Stored, now) = closed
  BY DEF Bars
<1>2. PICK o \in Stored : o <= cut
  BY <1>1
<1>3. BarMs \in Nat \ {0} /\ Config["15m"].delay \in Nat /\ now \in Int
  BY MarketAssumption, FeedAssumption DEF BarMs, Timeframes
<1>4. PICK k \in Int : cut = k * BarMs
  BY <1>3, CutoffIsLast DEF Cutoff, BarMs
<1>5. k * BarMs \in closed
  <2>1. k * BarMs \in Int /\ o <= k * BarMs /\ k * BarMs <= cut
    BY <1>2, <1>3, <1>4
  <2> HIDE DEF closed
  <2> QED
    BY <1>2, <2>1, NoGap DEF closed
<1>6. closed \in SUBSET Int /\ cut \in closed /\ \A x \in closed : x <= cut
  BY <1>4, <1>5, FeedAssumption
<1> HIDE DEF closed, cut
<1> QED
  BY <1>1, <1>6, MaxIs DEF cut

\* A multiple of the hour is its own hour.
LEMMA HourOfHour ==
  ASSUME NEW k \in Int, NEW bar \in Nat \ {0}
  PROVE  ((k * bar) \div bar) * bar = k * bar
<1> DEFINE q == (k * bar) \div bar
<1>1. q \in Int /\ bar * q <= k * bar /\ k * bar < bar * q + bar
  OBVIOUS
<1> HIDE DEF q
<1>2. q <= k
  <2> SUFFICES ASSUME q >= k + 1 PROVE FALSE
    BY <1>1
  <2>1. q * bar >= (k + 1) * bar
    BY <1>1
  <2> QED
    BY <1>1, <2>1
<1>3. q >= k
  <2> SUFFICES ASSUME k >= q + 1 PROVE FALSE
    BY <1>1
  <2>1. k * bar >= (q + 1) * bar
    BY <1>1
  <2> QED
    BY <1>1, <2>1
<1>4. q = k
  BY <1>1, <1>2, <1>3
<1> QED
  BY <1>4 DEF q

\* So do the hours derived from them.
LEMMA HoursReachCutoff ==
  ASSUME LimitsAllowForDelay, SlotsHaveNoGap, now \in 0..MaxTime, Stored \subseteq Slots,
         {o \in Slots : o <= Cutoff(now, Config["15m"])} \subseteq Stored,
         Bars("1h", Stored, now) # {}
  PROVE  Max(Bars("1h", Stored, now)) = Cutoff(now, Config["1h"])
<1> DEFINE cut == Cutoff(now, Config["1h"])
           closed == {x \in Stored : x <= Cutoff(now, Config["15m"])}
           hour == Config["1h"].bar
           Complete(h) == \A i \in 0..(PerHour - 1) : h + i * BarMs \in closed
<1>1. \A h : h \in Bars("1h", Stored, now) <=>
               h \in {(o \div hour) * hour : o \in closed} /\ Complete(h) /\ h <= cut
  BY DEF Bars, Aggregate, BarMs
<1>2. /\ BarMs \in Nat \ {0} /\ PerHour \in Nat \ {0} /\ hour = PerHour * BarMs /\ hour \in Nat \ {0}
      /\ Config["15m"].delay \in Nat /\ Config["1h"].delay \in Nat
      /\ Config["15m"].delay <= Config["1h"].delay /\ now \in Int
  BY MarketAssumption, FeedAssumption DEF BarMs, Timeframes, LimitsAllowForDelay
<1>3. closed \subseteq Nat
  BY FeedAssumption
<1>4. PICK k \in Int : cut = k * hour
  BY <1>2, CutoffIsLast DEF Cutoff
<1>5. cut \in Int /\ cut + hour + Config["1h"].delay <= now
  BY <1>2, CutoffIsLast DEF Cutoff
<1>6. PICK h \in Bars("1h", Stored, now) : TRUE
  OBVIOUS
<1>7. h \in closed /\ h <= cut
  <2>1. PICK o \in closed : h = (o \div hour) * hour
    BY <1>1, <1>6
  <2>2. h \in Int
    BY <1>2, <1>3, <2>1
  <2>3. 0 \in 0..(PerHour - 1) /\ h + 0 * BarMs = h
    BY <1>2, <2>2
  <2>4. h + 0 * BarMs \in closed
    BY <1>1, <1>6, <2>3
  <2> QED
    BY <1>1, <1>6, <2>3, <2>4
<1>8. ASSUME NEW i \in 0..(PerHour - 1) PROVE cut + i * BarMs \in closed
  <2>1. i \in Int /\ i + 1 <= PerHour /\ i >= 0
    BY <1>2
  <2>2. (i + 1) * BarMs <= PerHour * BarMs /\ i * BarMs >= 0
    BY <1>2, <2>1
  <2>3. (i + 1) * BarMs = i * BarMs + BarMs /\ i * BarMs \in Int
    BY <1>2, <2>1
  <2>4. k * PerHour + i \in Int /\ (k * PerHour + i) * BarMs = k * (PerHour * BarMs) + i * BarMs
    BY <1>2, <2>1
  <2>5. cut + i * BarMs = (k * PerHour + i) * BarMs
    BY <1>2, <1>4, <2>4
  <2>6. cut + i * BarMs + BarMs + Config["15m"].delay <= now
    BY <1>2, <1>5, <2>2, <2>3
  <2>7. (k * PerHour + i) * BarMs <= Cutoff(now, Config["15m"])
    BY <1>2, <2>4, <2>5, <2>6, CutoffIsLast DEF Cutoff, BarMs
  <2>8. h <= (k * PerHour + i) * BarMs
    BY <1>3, <1>5, <1>7, <2>2, <2>3, <2>5
  <2>9. h \in Stored
    BY <1>7
  <2> HIDE DEF cut, hour
  <2> QED
    BY <2>4, <2>5, <2>7, <2>8, <2>9, NoGap
<1>9. cut \in Bars("1h", Stored, now)
  <2>1. cut \in closed
    <3>1. 0 \in 0..(PerHour - 1) /\ cut + 0 * BarMs = cut
      BY <1>2, <1>5
    <3>2. cut + 0 * BarMs \in closed
      BY <1>8, <3>1
    <3> QED
      BY <3>1, <3>2
  <2>2. cut = (cut \div hour) * hour
    BY <1>2, <1>4, HourOfHour
  <2>3. Complete(cut)
    BY <1>8
  <2>4. cut <= cut
    BY <1>5
  <2> HIDE DEF cut, hour, closed, Complete
  <2> QED
    BY <1>1, <2>1, <2>2, <2>3, <2>4
<1>10. \A x \in Bars("1h", Stored, now) : x \in Int /\ x <= cut
  <2> SUFFICES ASSUME NEW x \in Bars("1h", Stored, now) PROVE x \in Int /\ x <= cut
    OBVIOUS
  <2>1. PICK o \in closed : x = (o \div hour) * hour
    BY <1>1
  <2> QED
    BY <1>1, <1>2, <1>3, <2>1
<1> HIDE DEF cut
<1>11. Bars("1h", Stored, now) \in SUBSET Int
  BY <1>10
<1> QED
  BY <1>9, <1>10, <1>11, MaxIs DEF cut

\* The clock keeps to its bound.
LEMMA ClockBounded == Spec => [](now \in 0..MaxTime)
<1>1. Init => now \in 0..MaxTime
  BY FeedAssumption DEF Init
<1>2. now \in 0..MaxTime /\ [Next]_vars => (now \in 0..MaxTime)'
  BY FeedAssumption DEF Next, vars, Tick, Revise, Collect, Serve, Wake, Fetched, FetchedFaulty, Take,
     FetchFails, Posted, PostFails, PostLost, PostTimesOut, Crash, Deliver, IngestFails, Lose
<1> QED
  BY <1>1, <1>2, PTL DEF Spec

\* A market is called stale only when a candle that was due is missing.
THEOREM StaleOnlyMissing ==
  ASSUME LimitsAllowForDelay, SlotsHaveNoGap
  PROVE  Spec => []StaleOnlyWhenCandlesMissing
<1>1. TypeOK /\ now \in 0..MaxTime => StaleOnlyWhenCandlesMissing
  <2> SUFFICES ASSUME TypeOK, now \in 0..MaxTime, NEW tf \in Timeframes,
                      Bars(tf, Stored, now) # {},
                      {o \in Slots : o <= Cutoff(now, Config["15m"])} \subseteq Stored
               PROVE  ~Freshness(now, Max(Bars(tf, Stored, now)), Config[tf]).soft
    BY DEF StaleOnlyWhenCandlesMissing
  <2>1. Stored \subseteq Slots
    BY DEF Stored, TypeOK
  <2>2. tf = "15m" \/ tf = "1h"
    BY DEF Timeframes
  <2>3. Max(Bars(tf, Stored, now)) = Cutoff(now, Config[tf])
    BY <2>1, <2>2, QuartersReachCutoff, HoursReachCutoff
  <2>4. now \in Nat
    BY DEF TypeOK
  <2>5. ~Freshness(now, Cutoff(now, Config[tf]), Config[tf]).soft
    BY <2>4, FreshAtCutoff
  <2> QED
    BY <2>3, <2>5
<1> QED
  BY <1>1, TypeCorrect, ClockBounded, PTL

=============================================================================
