----------------------------- MODULE CandleFeed -----------------------------
(***************************************************************************)
(* The Gecko collector, the table candle_revisions and the reads of it.    *)
(*                                                                         *)
(* A provider reports the candles of the recent slots; a candle changes    *)
(* while its slot is open and a little after.  The collector polls it,     *)
(* drops rows it cannot trust, stamps what is left and posts it, again on  *)
(* an error, so that a post may reach the service late, twice, or behind a *)
(* newer one.  The service keeps a revision of a slot unless its content   *)
(* is the newest one's or its stamp is not newer.                          *)
(***************************************************************************)
EXTENDS MarketRead, Sequences, SequencesExt

CONSTANTS
  MaxTries,      \* attempts of withRetry
  Lookback,      \* slots asked for
  Enough,        \* a longer look back must yield this many candles
  Tolerance,     \* one corrupt row in so many is too much
  Slots,         \* opens of the slots there are (bound)
  MaxVersion, MaxFaults, MaxTime  \* bounds

BarMs == Config["15m"].bar

ASSUME FeedAssumption ==
  /\ MaxTries \in Nat \ {0} /\ Tolerance \in Nat \ {0} /\ Lookback \in Nat /\ Enough \in Nat
  /\ \A s \in Slots : s \in Nat /\ s % BarMs = 0
  /\ MaxVersion \in Nat /\ MaxFaults \in Nat /\ MaxTime \in Nat

VARIABLES
  provider,   \* slot -> version of its candle at the provider (external)
  rows,       \* candle_revisions: [slot, value, at]
  pc,         \* of the collector: "sleep", "fetch" or "post"
  wake,       \* when its sleep ends
  tries,      \* attempts made of the call it is in
  batch,      \* what it posts: candles by slot, and their stamp
  net,        \* posts on their way: [candles, at, try]
  reply,      \* answer to the attempt under way: "none", "ok" or "error"
  now, faults

collector == <<pc, wake, tries, batch>>
vars == <<provider, rows, collector, net, reply, now, faults>>

Garbage == -1   \* a row that does not parse, is misaligned or is no candle
Wrong   == -2   \* a well-formed candle that never was

Nothing == [candles |-> <<>>, at |-> 0]

TypeOK ==
  /\ provider \in [Slots -> 0..MaxVersion]
  /\ \A i \in DOMAIN rows : rows[i].slot \in Slots /\ rows[i].value \in Int /\ rows[i].at \in Nat
  /\ pc \in {"sleep", "fetch", "post"} /\ wake \in Nat /\ tries \in 0..MaxTries
  /\ pc = "post" => DOMAIN batch.candles # {}
  /\ \A m \in net : m.try \in 1..MaxTries /\ m.at <= now
  /\ reply \in {"none", "ok", "error"} /\ now \in Nat /\ faults \in 0..MaxFaults

Init ==
  /\ provider = [s \in Slots |-> 0] /\ rows = <<>>
  /\ pc = "sleep" /\ wake = 0 /\ tries = 0 /\ batch = Nothing
  /\ net = {} /\ reply = "none" /\ now = 0 /\ faults = 0

Fault == faults < MaxFaults /\ faults' = faults + 1

-----------------------------------------------------------------------------
(* The provider and the clock                                              *)

\* A trade, or a late correction within the delay the reads allow for.
Revise(s) ==
  /\ s <= now /\ now < s + BarMs + Config["15m"].delay /\ now < MaxTime
  /\ provider[s] < MaxVersion
  /\ provider' = [provider EXCEPT ![s] = @ + 1]
  /\ UNCHANGED <<rows, collector, net, reply, now, faults>>

\* The collector's calls take less time than its sleep, which is one tick; at
\* the horizon MaxTime sleeps end without the clock.
Tick ==
  /\ now < MaxTime /\ pc = "sleep" /\ wake > now
  /\ now' = now + 1
  /\ UNCHANGED <<provider, rows, collector, net, reply, faults>>

-----------------------------------------------------------------------------
(* fetchGeckoOhlcv, normalizeGeckoOhlcv, shouldPostNormalizedBatch         *)

Recent == {s \in Slots : s <= now /\ s > now - Lookback * BarMs}

\* Rows are told apart by a serial number; copy 2 is the duplicate.
Row(s, v, n) == [slot |-> s, value |-> v, copy |-> n]

Genuine == {Row(s, provider[s], 1) : s \in Recent}

\* What a faulty answer has besides, or in the place of a row.
Answers ==
  UNION {{Genuine \cup {Row(s, provider[s], 2)}, Genuine \cup {Row(s, Wrong, 2)},
          (Genuine \ {Row(s, provider[s], 1)}) \cup {Row(s, Garbage, 1)}} : s \in Recent}

Group(table, s) == {r \in table : r.slot = s /\ r.value # Garbage}

\* Mutant: of conflicting rows the first is kept.
Contradicted(table, s) == FALSE

Conflicting(table, s) == \E q, r \in Group(table, s) : q.value # r.value

Candles(table) ==
  [s \in {r.slot : r \in table} \cap {s \in Slots : Group(table, s) # {} /\ ~Conflicting(table, s)}
     |-> (CHOOSE r \in Group(table, s) : \A q \in Group(table, s) : r.value <= q.value).value]

Corrupt(table) ==
  {r \in table : r.value = Garbage \/ Conflicting(table, r.slot)}

Postable(table) ==
  /\ DOMAIN Candles(table) # {}
  /\ Cardinality(Corrupt(table)) * Tolerance <= Cardinality(table)
  /\ Lookback >= Enough => Cardinality(DOMAIN Candles(table)) >= Enough

Sleep ==
  /\ pc' = "sleep" /\ wake' = now + 1 /\ tries' = 0 /\ batch' = Nothing /\ reply' = "none"

Wake ==
  /\ pc = "sleep" /\ (wake <= now \/ now = MaxTime)
  /\ pc' = "fetch" /\ tries' = 1
  /\ UNCHANGED <<provider, rows, wake, batch, net, reply, now, faults>>

\* From here to the first post nothing is awaited: the stamp is the instant
\* the answer was read.
Take(table) ==
  /\ IF Postable(table)
     THEN /\ pc' = "post" /\ tries' = 1 /\ UNCHANGED wake
          /\ batch' = [candles |-> Candles(table), at |-> now]
          /\ net' = net \cup {[candles |-> Candles(table), at |-> now, try |-> 1]}
          /\ reply' = "none"
     ELSE Sleep /\ UNCHANGED net
  /\ UNCHANGED <<provider, rows, now>>

Fetched == pc = "fetch" /\ Take(Genuine) /\ UNCHANGED faults

FetchedFaulty == pc = "fetch" /\ Fault /\ \E table \in Answers : Take(table)

\* A timeout, a transport error or a status worth a retry; or one that is not.
FetchFails ==
  /\ pc = "fetch" /\ Fault
  /\ \/ tries < MaxTries /\ tries' = tries + 1 /\ UNCHANGED <<pc, wake, batch, reply>>
     \/ Sleep
  /\ UNCHANGED <<provider, rows, net, now>>

-----------------------------------------------------------------------------
(* postCandles and withRetry                                               *)

Posted == pc = "post" /\ reply = "ok" /\ Sleep /\ UNCHANGED <<provider, rows, net, now, faults>>

Message == [candles |-> batch.candles, at |-> batch.at, try |-> tries]

\* Mutant: one attempt too many.
OneMore ==
  IF tries <= MaxTries
  THEN /\ tries' = tries + 1 /\ reply' = "none" /\ UNCHANGED <<pc, wake, batch>>
       /\ net' = net \cup {[Message EXCEPT !.try = tries + 1]}
  ELSE Sleep /\ UNCHANGED net

Again ==
  IF tries < MaxTries
  THEN /\ tries' = tries + 1 /\ reply' = "none" /\ UNCHANGED <<pc, wake, batch>>
       /\ net' = net \cup {[Message EXCEPT !.try = tries + 1]}
  ELSE Sleep /\ UNCHANGED net

PostFails == pc = "post" /\ reply = "error" /\ Again /\ UNCHANGED <<provider, rows, now, faults>>

\* A request that was lost is given up by the timeout; one that was not may be.
PostLost ==
  /\ pc = "post" /\ reply = "none" /\ Message \notin net
  /\ Again /\ UNCHANGED <<provider, rows, now, faults>>

PostTimesOut == pc = "post" /\ Fault /\ Again /\ UNCHANGED <<provider, rows, now>>

\* The process ends and is started again; what it sent is still on its way.
Crash ==
  /\ pc # "sleep" /\ Fault
  /\ pc' = "sleep" /\ wake' = now /\ tries' = 0 /\ batch' = Nothing /\ reply' = "none"
  /\ UNCHANGED <<provider, rows, net, now>>

-----------------------------------------------------------------------------
(* POST /v1/candles: ingestCandles under the feed's advisory lock          *)

\* The newest revision of a slot: ORDER BY source_recorded_at DESC, id DESC.
Newer(i, j) == rows[i].at > rows[j].at \/ (rows[i].at = rows[j].at /\ i > j)

Latest(s) ==
  {i \in DOMAIN rows : rows[i].slot = s /\ \A j \in DOMAIN rows : rows[j].slot = s => i = j \/ Newer(i, j)}

\* Mutants: a stamp as old as the newest will do; a candle is stored only once.
KeepAtSameStamp(s, value, at) == \A i \in Latest(s) : rows[i].value # value /\ rows[i].at <= at

KeepFirst(s, value, at) == Latest(s) = {}

\* classifyCandle: insert or revise, as against idempotent and stale.
Keep(s, value, at) ==
  \A i \in Latest(s) : rows[i].value # value /\ rows[i].at < at

\* The slots of a batch differ, so the order within it does not matter.
Ingest(m) ==
  LET kept == {s \in DOMAIN m.candles : Keep(s, m.candles[s], m.at)}
  IN rows' = rows \o SetToSeq({[slot |-> s, value |-> m.candles[s], at |-> m.at] : s \in kept})

Answer(m, status) ==
  reply' = IF pc = "post" /\ batch.at = m.at /\ tries = m.try THEN status ELSE reply

Deliver(m) ==
  /\ m \in net /\ net' = net \ {m}
  /\ Ingest(m) /\ Answer(m, "ok")
  /\ UNCHANGED <<provider, collector, now, faults>>

\* The transaction is rolled back.
IngestFails(m) ==
  /\ m \in net /\ net' = net \ {m} /\ Fault
  /\ Answer(m, "error")
  /\ UNCHANGED <<provider, rows, collector, now>>

Lose(m) ==
  /\ m \in net /\ net' = net \ {m} /\ Fault
  /\ UNCHANGED <<provider, rows, collector, reply, now>>

-----------------------------------------------------------------------------
(* The reads                                                               *)

Stored == {rows[i].slot : i \in DOMAIN rows}

Shown(s) == IF s \in Stored THEN rows[CHOOSE i \in Latest(s) : TRUE].value ELSE Garbage

Collect ==
  \/ Wake \/ Fetched \/ FetchedFaulty \/ FetchFails
  \/ Posted \/ PostFails \/ PostLost \/ PostTimesOut \/ Crash

Serve == \E m \in net : Deliver(m) \/ IngestFails(m) \/ Lose(m)

Next == Tick \/ (\E s \in Slots : Revise(s)) \/ Collect \/ Serve

Spec == Init /\ [][Next]_vars

\* The collector's loop runs on, a request that is not lost arrives, time passes.
Fairness ==
  /\ WF_vars(Tick) /\ WF_vars(Wake) /\ WF_vars(Fetched) /\ WF_vars(Posted) /\ WF_vars(PostFails)
  /\ WF_vars(PostLost) /\ WF_vars(\E m \in net : Deliver(m))

FairSpec == Spec /\ Fairness

-----------------------------------------------------------------------------
(* Properties                                                              *)

\* Every candle stored was reported by the provider: a slot with contradictory
\* rows yields none, so the choice between them is never made.
StoredIsGenuine ==
  \A i \in DOMAIN rows : 0 <= rows[i].value /\ rows[i].value <= provider[rows[i].slot]

\* A candle never turns back to an earlier version: a post that arrives late,
\* twice or after a restart does not undo a newer one.
NeverRegresses == [][\A s \in Stored : Shown(s)' >= Shown(s)]_vars

\* Once the provider has settled, so does the table, whatever was lost before.
Converges == \A s \in Slots : <>[](Shown(s) = provider[s])

\* A market is called stale only when a candle that was due is missing: with
\* every closed candle stored, for quarters and for the hours derived from
\* them, the age at any instant stays below the soft limit.
StaleOnlyWhenCandlesMissing ==
  \A tf \in Timeframes :
    LET bars == Bars(tf, Stored, now)
        due  == {o \in Slots : o <= Cutoff(now, Config["15m"])}
    IN (bars # {} /\ due \subseteq Stored)
         => ~Freshness(now, Max(bars), Config[tf]).soft

=============================================================================
