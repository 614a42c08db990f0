------------------------------- MODULE Archive -------------------------------
(***************************************************************************)
(* The two append-only archives clients page through, evidence_bundles and *)
(* policy_insights, while rows keep arriving: writers that take a stamp    *)
(* long before their row commits, clients that follow cursors from page to *)
(* page, and one that polls the current insight.  A behaviour is about one *)
(* of the two, which share nothing, and either pages or polls: clients     *)
(* only read.                                                              *)
(***************************************************************************)
EXTENDS Integers, Sequences, FiniteSets, FiniteSetsExt

CONSTANTS
  Writers, Readers,
  Keys,       \* what a row is unique by: a publisher's run, an input hash
  AboutOf,    \* key -> [scope, source] of its row
  Queries,    \* first requests of a history (bound):
              \* [scope, given, source, limit, cursor], an absent limit as its default
  MaxLimit,   \* the largest page there is
  None,       \* no cursor, no source, nothing shown
  MaxTime, MaxId  \* bounds

ASSUME ArchiveAssumption ==
  /\ MaxLimit \in Nat \ {0} /\ MaxTime \in Nat /\ MaxId \in Nat
  /\ None \notin [of : {"evidence", "insights"}, stamp : Int, id : Int]
  /\ \A q \in Queries : q.cursor \in {None} \cup [of : {"evidence", "insights"}, stamp : Int, id : Int]

VARIABLES
  kind,     \* which of the archives
  drawn,    \* the last id drawn
  table,    \* id -> row committed
  writing,  \* writer -> [pc, key, stamp, id]
  reading,  \* reader -> its request, and what it has been given
  polling,  \* the client of the current insight: [pc, at, shown]
  now

vars == <<kind, drawn, table, writing, reading, polling, now>>

Cursors == [of : {"evidence", "insights"}, stamp : Int, id : Int]
Attempt == [pc : {"idle", "stamped", "inserted"}, key : Keys \cup {None}, stamp : Nat, id : Nat]

Request == [pc : {"new", "badRequest", "asked", "between", "done"}, query : Queries \cup {None},
            cursor : Cursors \cup {None}, at : Nat, seen : Seq(SUBSET Nat), owed : SUBSET Nat]

Idle   == [pc |-> "idle", key |-> None, stamp |-> 0, id |-> 0]
Unread == [pc |-> "new", query |-> None, cursor |-> None, at |-> 0, seen |-> <<>>, owed |-> {}]

Init ==
  /\ kind \in {"evidence", "insights"}
  /\ drawn = 0 /\ table = <<>> /\ now = 0
  /\ writing = [w \in Writers |-> Idle]
  /\ reading = [r \in Readers |-> Unread]
  /\ polling = [pc |-> "idle", at |-> 0, shown |-> None]

Tick ==
  /\ now < MaxTime /\ now' = now + 1
  /\ UNCHANGED <<kind, drawn, table, writing, reading, polling>>

-----------------------------------------------------------------------------
(* The writers                                                             *)

\* The instant a bundle is received, or a synthesis begins: awaits later the
\* row is inserted under it.
Stamp(w, k) ==
  /\ writing[w].pc = "idle"
  /\ writing' = [writing EXCEPT ![w] = [pc |-> "stamped", key |-> k, stamp |-> now, id |-> 0]]
  /\ UNCHANGED <<kind, drawn, table, reading, polling, now>>

\* INSERT ... ON CONFLICT DO NOTHING, which draws its id in any case.
Insert(w) ==
  /\ writing[w].pc = "stamped" /\ drawn < MaxId
  /\ drawn' = drawn + 1
  /\ writing' = [writing EXCEPT ![w] = [@ EXCEPT !.pc = "inserted", !.id = drawn + 1]]
  /\ UNCHANGED <<kind, table, reading, polling, now>>

Known(k) == \E i \in DOMAIN table : table[i].key = k

Row(w) == [key |-> writing[w].key, about |-> AboutOf[writing[w].key], stamp |-> writing[w].stamp]

\* Of the rows of one key the first to commit wins: the insert of another waits
\* for it and is answered with it.
Commit(w) ==
  /\ writing[w].pc = "inserted"
  /\ table' = IF Known(writing[w].key) THEN table
              ELSE [i \in DOMAIN table \cup {writing[w].id} |->
                      IF i = writing[w].id THEN Row(w) ELSE table[i]]
  /\ writing' = [writing EXCEPT ![w] = Idle]
  /\ UNCHANGED <<kind, drawn, reading, polling, now>>

\* The store fails or the process ends: an id drawn is not used again.
GiveUp(w) ==
  /\ writing[w].pc # "idle"
  /\ writing' = [writing EXCEPT ![w] = Idle]
  /\ UNCHANGED <<kind, drawn, table, reading, polling, now>>

-----------------------------------------------------------------------------
(* The requests of a history                                               *)

Cursor(i) == [of |-> kind, stamp |-> table[i].stamp, id |-> i]

\* The parameters a scope needs, and takes.
EvidenceParams(scope) ==
  CASE scope = "pair" -> {}
    [] scope = "whirlpool" -> {"whirlpoolAddress"}
    [] scope = "wallet" -> {"walletAddress"}
    [] scope = "position" -> {"walletAddress", "whirlpoolAddress", "positionId"}

InsightParams(scope) ==
  IF scope = "pair" THEN {} ELSE {"walletAddress", "whirlpoolAddress", "positionId"}

GoodLimit(n) == n \in 1..MaxLimit

\* The fields of a cursor are named for the archive's stamp, so that each
\* archive refuses the other's cursors; evidence asks for a plausible id too.
DecodesEvidence(c) == c.of = "evidence" /\ c.stamp >= 0 /\ c.id > 0
DecodesInsight(c)  == c.of = "insights"

EvidenceQuery(q) ==
  /\ q.scope \in {"pair", "whirlpool", "wallet", "position"}
  /\ q.given = EvidenceParams(q.scope)
  /\ GoodLimit(q.limit)
  /\ q.cursor # None => DecodesEvidence(q.cursor)

\* Insights are of the pair or of a position, and of one source.
InsightQuery(q) ==
  /\ q.scope \in {"pair", "position"}
  /\ q.given = InsightParams(q.scope) /\ q.source = None
  /\ GoodLimit(q.limit)
  /\ q.cursor # None => DecodesInsight(q.cursor)

-----------------------------------------------------------------------------
(* getHistory                                                              *)

\* ORDER BY stamp DESC, id DESC
Newer(i, j) == table[i].stamp > table[j].stamp \/ (table[i].stamp = table[j].stamp /\ i > j)

\* Mutant: a page begins below the stamp of the cursor.
BelowStamp(i, c) == table[i].stamp < c.stamp

\* Strictly after the cursor in that order.
Follows(i, c) == table[i].stamp < c.stamp \/ (table[i].stamp = c.stamp /\ i < c.id)

BundlesListed(q, c) ==
  {i \in DOMAIN table :
     /\ table[i].about.scope = q.scope
     /\ q.source # None => table[i].about.source = q.source
     /\ c # None => Follows(i, c)}

InsightsListed(q, c) ==
  {i \in DOMAIN table : table[i].about.scope = q.scope /\ (c # None => Follows(i, c))}

Listed(q, c) == IF kind = "evidence" THEN BundlesListed(q, c) ELSE InsightsListed(q, c)

\* The rows of a page, LIMIT of those listed: none left out comes before one.
IsPage(q, listed, items) ==
  /\ Cardinality(items) = Min({q.limit, Cardinality(listed)})
  /\ \A i \in items, j \in listed \ items : Newer(i, j)

-----------------------------------------------------------------------------
(* The answers                                                             *)

\* The reducer dates an insight a second before its synthesis at the latest.
AsOf(i) == table[i].stamp - 1

\* An insight as of a later instant than the reader's is refused, and with it
\* the page it is on; a bundle is not.
Projects(items, at) == \A i \in items : at - AsOf(i) >= 0

\* A history is begun.  What is owed (history): the rows committed by then.
Begin(r, q) ==
  /\ reading[r].pc = "new" /\ polling.shown = None /\ polling.pc = "idle"
  /\ reading' = [reading EXCEPT ![r] =
       IF (kind = "evidence" /\ EvidenceQuery(q)) \/ (kind = "insights" /\ InsightQuery(q))
       THEN [pc |-> "asked", query |-> q, cursor |-> q.cursor, at |-> now, seen |-> <<>>,
             owed |-> Listed(q, q.cursor)]
       ELSE [Unread EXCEPT !.pc = "badRequest"]]
  /\ UNCHANGED <<kind, drawn, table, writing, polling, now>>

\* The page, and a cursor at its last row where one row more was found.
Answer(r, listed, items) ==
  LET given == [reading[r] EXCEPT !.at = 0, !.seen = Append(@, items)]
  IN \/ /\ items = listed
        /\ reading' = [reading EXCEPT ![r] = [given EXCEPT !.pc = "done"]]
     \/ /\ items # listed
        /\ \E last \in items :
             /\ \A i \in items : i = last \/ Newer(i, last)
             /\ reading' = [reading EXCEPT ![r] =
                  [given EXCEPT !.pc = "between", !.cursor = Cursor(last)]]

Refuse(r) == reading' = [reading EXCEPT ![r] = [@ EXCEPT !.pc = "between", !.at = 0]]

\* The store is read now, though the clock was read when the request came.
ReadBundles(r) ==
  LET listed == Listed(reading[r].query, reading[r].cursor)
  IN /\ kind = "evidence" /\ reading[r].pc = "asked"
     /\ \E items \in SUBSET listed :
          IsPage(reading[r].query, listed, items) /\ Answer(r, listed, items)
     /\ UNCHANGED <<kind, drawn, table, writing, polling, now>>

\* A client whose page was refused asks for it again.
ReadInsights(r) ==
  LET listed == Listed(reading[r].query, reading[r].cursor)
  IN /\ kind = "insights" /\ reading[r].pc = "asked"
     /\ \E items \in SUBSET listed :
          /\ IsPage(reading[r].query, listed, items)
          /\ IF Projects(items, reading[r].at) THEN Answer(r, listed, items) ELSE Refuse(r)
     /\ UNCHANGED <<kind, drawn, table, writing, polling, now>>

\* The next page, or the same one again.
Ask(r) ==
  /\ reading[r].pc = "between"
  /\ reading' = [reading EXCEPT ![r] = [@ EXCEPT !.pc = "asked", !.at = now]]
  /\ UNCHANGED <<kind, drawn, table, writing, polling, now>>

\* The store does not answer: 503.
ReadFails(r) ==
  /\ reading[r].pc = "asked"
  /\ Refuse(r)
  /\ UNCHANGED <<kind, drawn, table, writing, polling, now>>

-----------------------------------------------------------------------------
(* getCurrent                                                              *)

InsightsOf(scope) == {i \in DOMAIN table : table[i].about.scope = scope}

\* Mutant: the row stored last.
StoredLast(scope) ==
  {i \in InsightsOf(scope) : \A j \in InsightsOf(scope) : j <= i}

Newest(scope) ==
  {i \in InsightsOf(scope) : \A j \in InsightsOf(scope) : i = j \/ Newer(i, j)}

AskCurrent ==
  /\ kind = "insights" /\ polling.pc = "idle" /\ \A r \in Readers : reading[r] = Unread
  /\ polling' = [polling EXCEPT !.pc = "asked", !.at = now]
  /\ UNCHANGED <<kind, drawn, table, writing, reading, now>>

\* 200 with the insight; 404 when there is none, 400 when it is refused.
ReadCurrent ==
  /\ polling.pc = "asked"
  /\ polling' = [polling EXCEPT !.pc = "idle", !.at = 0,
                   !.shown = IF \E i \in Newest("pair") : Projects({i}, polling.at)
                             THEN Cursor(CHOOSE i \in Newest("pair") : TRUE) ELSE @]
  /\ UNCHANGED <<kind, drawn, table, writing, reading, now>>

Write(w) == (\E k \in Keys : Stamp(w, k)) \/ Insert(w) \/ Commit(w) \/ GiveUp(w)

Follow(r) ==
  \/ \E q \in Queries : Begin(r, q)
  \/ ReadBundles(r) \/ ReadInsights(r) \/ Ask(r) \/ ReadFails(r)

Next ==
  \/ Tick
  \/ \E w \in Writers : Write(w)
  \/ \E r \in Readers : Follow(r)
  \/ AskCurrent \/ ReadCurrent

Spec == Init /\ [][Next]_vars

-----------------------------------------------------------------------------
(* Properties                                                              *)

\* The types, and one row for a key.
TypeOK ==
  /\ kind \in {"evidence", "insights"} /\ drawn \in Nat /\ now \in Nat
  /\ DOMAIN table \subseteq 1..drawn
  /\ \A i \in DOMAIN table : table[i].key \in Keys /\ table[i].stamp \in Nat
  /\ \A i, j \in DOMAIN table : table[i].key = table[j].key => i = j
  /\ writing \in [Writers -> Attempt]
  /\ \A w \in Writers : writing[w].pc # "idle" => writing[w].key \in Keys
  /\ reading \in [Readers -> Request]
  /\ polling \in [pc : {"idle", "asked"}, at : Nat,
                  shown : Cursors \cup {None}]

\* "Pagination uses keyset cursors, not offsets": a client that follows the
\* cursors to the end has been given every row that was committed when it
\* began, each row once and newest first over all its pages, whatever was
\* committed meanwhile under stamps and ids of any order, and however often a
\* page was refused or the store did not answer.
HistoryIsComplete ==
  \A r \in Readers : reading[r].pc = "done" =>
    LET seen == reading[r].seen
    IN /\ \A i \in reading[r].owed : \E n \in DOMAIN seen : i \in seen[n]
       /\ \A m, n \in DOMAIN seen : m < n =>
            \A i \in seen[m], j \in seen[n] : Newer(i, j)

\* The current insight a client polls is never replaced by one synthesised
\* earlier, though that one may be stored later.
CurrentNeverOlder ==
  [][polling.shown # None =>
       \/ polling'.shown = polling.shown
       \/ polling'.shown.stamp > polling.shown.stamp
       \/ polling'.shown.stamp = polling.shown.stamp /\ polling'.shown.id > polling.shown.id]_vars
=============================================================================
