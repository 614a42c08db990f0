------------------------ MODULE EvidenceSelection ------------------------
(***************************************************************************)
(* Which stored evidence a synthesis rests on.                             *)
(*                                                                         *)
(* Publishers append bundles; at some instant the synthesis reads the      *)
(* newest bundle of every source (getLatest of the evidence repository),   *)
(* and selectEvidence decides the fate of every item in them: whole        *)
(* bundles are rejected, items are scored and ranked under a threshold and *)
(* a cap per family, features that depend on a dropped feature are dropped *)
(* pass after pass, and the research briefs are judged last, against what  *)
(* survived.  Publishing and the clock interleave with the selections; a   *)
(* selection itself is split at its loop (Begin, ClosurePass, JudgeBriefs).*)
(*                                                                         *)
(* Times are small integers; basis points are scaled from 10000 to Bps.    *)
(***************************************************************************)
EXTENDS Integers, Sequences, FiniteSets, FiniteSetsExt, Functions

CONSTANTS
  Sources,       \* publisher/source pairs, numbered in the order they sort
  Offers,        \* Offers[s]: the bundles source s may post
  Windows,       \* the as-of windows <<from, to>> a synthesis may ask for
  Contexts,      \* the families of contextual claims
  SourceQuality, \* sourceQualityBps, per source
  MethodQuality, \* provenanceQualityBps, per provenance method
  Bps,           \* the full score (10 000 in the code)
  MinScore,      \* minimumEffectiveScoreBps
  StaleWeight,   \* staleWeightBps
  Cap,           \* maxSelectedPerFamily
  MaxRows,       \* bound: bundles stored
  Horizon        \* bound: the last instant

Never == Horizon + 1   \* expiresAt = null

\* validateEvidenceSelectionPolicy: a policy outside these ranges is refused.
ASSUME PolicyIsValid ==
  /\ Bps \in Nat \ {0} /\ MinScore \in 0..Bps /\ StaleWeight \in 0..Bps
  /\ Cap \in Nat \ {0}
  /\ SourceQuality \in [Sources -> 0..Bps]
  /\ \A m \in DOMAIN MethodQuality : MethodQuality[m] \in 0..Bps

ASSUME BoundsAreNatural ==
  Sources \subseteq Nat /\ IsFiniteSet(Sources) /\ MaxRows \in Nat /\ Horizon \in Nat

\* What the schema of a bundle asks of its fields; 0 is no id, it stands for
\* the brief.  A feature is always computed from something.
FollowsSchema(b) ==
  /\ {b.asOf, b.createdAt, b.freshUntil, b.expiresAt} \subseteq Nat /\ b.confidence \in 0..Bps
  /\ IsFiniteSet(b.features)
  /\ \A f \in b.features : /\ f.id \in Nat \ {0} /\ f.conf \in 0..Bps /\ f.lineage # {}
                           /\ f.family \notin Contexts
                           /\ f.status \in {"available", "unavailable", "invalid"}
                           /\ f.status = "available" => f.freshUntil \in Nat /\ f.observedAt \in Nat
  /\ IsFiniteSet(b.claims)
  /\ \A c \in b.claims : /\ c.id \in Nat \ {0} /\ c.conf \in 0..Bps /\ c.method \in DOMAIN MethodQuality
                         /\ c.family \in Contexts
                         /\ c.expiresAt \in Nat /\ c.observedAt \in Nat
ASSUME OffersFollowSchema ==
  /\ "calculator" \in DOMAIN MethodQuality /\ {"deterministic", "researchBrief"} \cap Contexts = {}
  /\ \A s \in Sources : \A b \in Offers[s] : FollowsSchema(b)

VARIABLES
  rows,     \* evidence_bundles: the stored bundles, in the order they came
  clock,    \* the time
  pc,       \* where the selection is: "idle", "closing", "briefs" or "done"
  at,       \* selectedAtUnixMs of the selection
  records,  \* the records it works on: source -> [bundle, lifecycle]
  kept,     \* preliminaryInclusions: the candidates still in
  verdict,  \* decisionMap: item -> decision
  last      \* history: the selection before this one
vars == <<rows, clock, pc, at, records, kept, verdict, last>>

----------------------------------------------------------------------------
(* The bundle contract.                                                    *)

FeatureIds(b) == {f.id : f \in b.features}
ClaimIds(b)   == {c.id : c \in b.claims}
HasBrief(b)   == b.cites # {}

\* Mutant: a lineage that runs in a circle is accepted.
AnyLineage(b) == TRUE
\* No feature is computed, over any number of steps, from itself.
AcyclicLineage(b) ==
  \A S \in SUBSET FeatureIds(b) \ {{}} :
    \E f \in b.features : f.id \in S /\ f.lineage \cap S = {}

\* Every id is declared once, over features, claims and references together.
UniqueIds(b) ==
  /\ Cardinality(FeatureIds(b)) = Cardinality(b.features)
  /\ Cardinality(ClaimIds(b)) = Cardinality(b.claims)
  /\ FeatureIds(b) \cap ClaimIds(b) = {}
  /\ b.refs \cap (FeatureIds(b) \cup ClaimIds(b)) = {}

\* Whatever an item names is declared in the same bundle.
ResolvesIds(b) ==
  /\ \A f \in b.features : f.lineage \subseteq FeatureIds(b) \cup b.refs
  /\ \A c \in b.claims : c.refs \subseteq b.refs
  /\ b.cites \subseteq FeatureIds(b) \cup ClaimIds(b)

OrdersTimes(b) ==
  /\ b.asOf <= b.createdAt /\ b.createdAt <= b.freshUntil /\ b.freshUntil <= b.expiresAt
  /\ \A f \in b.features : f.status = "available" =>
       f.observedAt <= b.asOf /\ b.asOf <= f.freshUntil

Supplies(b, family) ==
  IF family = "researchBrief" THEN HasBrief(b) ELSE \E c \in b.claims : c.family = family
\* The families the publisher's assessment calls unavailable are those it
\* sends nothing of.
CoverageAgrees(b) == \A f \in Contexts \cup {"researchBrief"} : Supplies(b, f) <=> f \notin b.unavailable

WarnsOfGaps(b) ==
  /\ b.claims = {} => "CONTEXTUAL_EVIDENCE_UNAVAILABLE" \in b.warnings
  /\ ~HasBrief(b) => "RESEARCH_BRIEF_UNAVAILABLE" \in b.warnings

QualityAgrees(b) == b.quality = "complete" => b.unavailable = {}

ValidBundle(b) ==
  /\ OrdersTimes(b) /\ UniqueIds(b) /\ ResolvesIds(b) /\ AcyclicLineage(b)
  /\ CoverageAgrees(b) /\ WarnsOfGaps(b) /\ QualityAgrees(b)

----------------------------------------------------------------------------
(* Reading the repository.                                                 *)

\* deriveLifecycle of the repository.
DeriveLifecycle(b, now) ==
  IF now <= b.freshUntil THEN "FRESH" ELSE IF now <= b.expiresAt THEN "STALE" ELSE "EXPIRED"

\* The row ORDER BY as_of DESC, received_at DESC, id DESC puts first.
NewestOf(s, w) ==
  LET of == {i \in DOMAIN rows : /\ rows[i].source = s
                                 /\ w[1] <= rows[i].bundle.asOf /\ rows[i].bundle.asOf <= w[2]}
  IN {i \in of : \A j \in of : \/ rows[j].bundle.asOf < rows[i].bundle.asOf
                               \/ rows[j].bundle.asOf = rows[i].bundle.asOf /\ j <= i}

\* getLatest: one record per source that has a row in the window.
GetLatest(w, now) ==
  [s \in {x \in Sources : NewestOf(x, w) # {}} |->
     LET b == rows[CHOOSE i \in NewestOf(s, w) : TRUE].bundle
     IN [bundle |-> b, lifecycle |-> DeriveLifecycle(b, now)]]

----------------------------------------------------------------------------
(* Scoring.  An item is <<source, id>>; ids are numbers, and 0 stands for  *)
(* the brief of the bundle, present or not.                                *)

Brief == 0

Included(score)      == [status |-> "INCLUDED", why |-> "none", score |-> score]
Excluded(why, score) == [status |-> "EXCLUDED", why |-> why, score |-> score]
NoScore == -1

ItemsOf(s, b) == {<<s, id>> : id \in FeatureIds(b) \cup ClaimIds(b) \cup {Brief}}
AllItems(recs) == UNION {ItemsOf(s, recs[s].bundle) : s \in DOMAIN recs}

LifecycleAt(b, t) ==
  IF t <= b.freshUntil THEN "FRESH" ELSE IF t <= b.expiresAt THEN "STALE" ELSE "EXPIRED"

\* Why the whole record is turned away, if it is; the first check that fails.
Rejection(s, rec, t) ==
  LET life == LifecycleAt(rec.bundle, t) IN
  IF rec.lifecycle # life THEN "record_mismatch"
  ELSE IF SourceQuality[s] = 0 THEN "BUNDLE_DISABLED"
  ELSE IF life = "EXPIRED" THEN "BUNDLE_EXPIRED" ELSE "none"

Accepted(recs, t) == {s \in DOMAIN recs : Rejection(s, recs[s], t) = "none"}

\* Mutant: the product of the four is divided by one full score too few.
Unscaled(s, confidence, provenance, weight) ==
  (confidence * SourceQuality[s] * provenance * weight) \div (Bps * Bps)
\* The product of four basis-point fractions, truncated.
Score(s, confidence, provenance, weight) ==
  (confidence * SourceQuality[s] * provenance * weight) \div (Bps * Bps * Bps)
\* Mutant: a stale bundle loses weight as it ages.
AgeingWeight(b, t) == IF LifecycleAt(b, t) = "FRESH" THEN Bps ELSE Bps - (t - b.asOf)
BundleWeight(b, t) == IF LifecycleAt(b, t) = "FRESH" THEN Bps ELSE StaleWeight
FeatureWeight(b, f, t) == IF t <= f.freshUntil THEN BundleWeight(b, t) ELSE StaleWeight

ClaimExpired(c, t) == t > c.expiresAt

\* What registerCandidate keeps of an item: its family and its ranking keys.
FeatureCandidate(s, b, f, t) ==
  [item |-> <<s, f.id>>, family |-> f.family, asOf |-> b.asOf, observedAt |-> f.observedAt,
   score |-> Score(s, f.conf, MethodQuality["calculator"], FeatureWeight(b, f, t))]
ClaimCandidate(s, b, c, t) ==
  [item |-> <<s, c.id>>, family |-> c.family, asOf |-> b.asOf, observedAt |-> c.observedAt,
   score |-> Score(s, c.conf, MethodQuality[c.method], BundleWeight(b, t))]
CandidatesOf(s, b, t) ==
  {FeatureCandidate(s, b, f, t) : f \in {x \in b.features : x.status = "available"}}
    \cup {ClaimCandidate(s, b, c, t) : c \in {x \in b.claims : ~ClaimExpired(x, t)}}
Candidates(recs, t) == UNION {CandidatesOf(s, recs[s].bundle, t) : s \in Accepted(recs, t)}
CandidateFor(cands, i) == CHOOSE c \in cands : c.item = i

\* Mutant: a bundle without a brief leaves no trace of its absence.
OnlyPresentItems(recs, t, s, id) ==
  LET b == recs[s].bundle IN
  IF Rejection(s, recs[s], t) # "none" THEN Rejection(s, recs[s], t)
  ELSE IF \E c \in b.claims : c.id = id /\ ClaimExpired(c, t) THEN "CLAIM_EXPIRED"
  ELSE IF \E f \in b.features : f.id = id /\ f.status # "available" THEN "FEATURE_UNAVAILABLE"
  ELSE "none"
\* Why an item is out before any ranking, if it is.
WhyOut(recs, t, s, id) ==
  LET b == recs[s].bundle IN
  IF Rejection(s, recs[s], t) # "none" THEN Rejection(s, recs[s], t)
  ELSE IF id = Brief /\ ~HasBrief(b) THEN "RESEARCH_BRIEF_UNAVAILABLE"
  ELSE IF \E c \in b.claims : c.id = id /\ ClaimExpired(c, t) THEN "CLAIM_EXPIRED"
  ELSE IF \E f \in b.features : f.id = id /\ f.status = "invalid" THEN "FEATURE_INVALID"
  ELSE IF \E f \in b.features : f.id = id /\ f.status # "available" THEN "FEATURE_UNAVAILABLE"
  ELSE "none"
Unranked(recs, t) ==
  [i \in {j \in AllItems(recs) : WhyOut(recs, t, j[1], j[2]) # "none"} |->
     Excluded(WhyOut(recs, t, i[1], i[2]), NoScore)]

LexLess(k, l) == \E i \in DOMAIN k : k[i] < l[i] /\ \A j \in 1..(i - 1) : k[j] = l[j]
\* Mutant: recent evidence is ranked before strong evidence.
RecencyKey(c) == <<-c.asOf, -c.observedAt, -c.score, c.item[1], c.item[2]>>
\* The tie-breaks: score, the bundle's asOf, observedAt, source, id.
RankKey(c) == <<-c.score, -c.asOf, -c.observedAt, c.item[1], c.item[2]>>
Outranks(c, d) == LexLess(RankKey(c), RankKey(d))

\* Of the candidates that clear the threshold, the Cap best of each family.
Eligible(cands) == {c \in cands : c.score >= MinScore}
WithinCap(cands) ==
  {c \in Eligible(cands) :
     Cardinality({d \in Eligible(cands) : d.family = c.family /\ Outranks(d, c)}) < Cap}
RankedOut(cands) ==
  [i \in {c.item : c \in cands \ WithinCap(cands)} |->
     LET c == CandidateFor(cands, i)
     IN Excluded(IF c \in Eligible(cands) THEN "FAMILY_SELECTION_LIMIT" ELSE "score_threshold", c.score)]

----------------------------------------------------------------------------
(* The selection.                                                          *)

\* decisionMap.set, for every item of new.
With(decided, new) ==
  [i \in DOMAIN decided \cup DOMAIN new |-> IF i \in DOMAIN new THEN new[i] ELSE decided[i]]

NoRun == [at |-> -1, records |-> <<>>, verdict |-> <<>>]

Init ==
  /\ rows = <<>> /\ clock = 0 /\ pc = "idle"
  /\ at = 0 /\ records = <<>> /\ kept = {} /\ verdict = <<>> /\ last = NoRun

Selection == <<pc, at, records, kept, verdict, last>>

\* A source posts a bundle; what the contract refuses is not stored.  (What is
\* posted while a selection runs is not read by it: posts wait for it here.)
Post(s, b) ==
  /\ pc = "idle" /\ Len(rows) < MaxRows /\ ValidBundle(b)
  /\ rows' = Append(rows, [source |-> s, bundle |-> b])
  /\ UNCHANGED <<clock, Selection>>

Tick ==
  /\ pc = "idle" /\ clock < Horizon /\ clock' = clock + 1
  /\ UNCHANGED <<rows, Selection>>

\* The records are read and everything but the closure and the briefs is
\* decided: rejections, exclusions, the threshold and the family cap.
Begin(w) ==
  /\ pc = "idle"
  /\ LET recs  == GetLatest(w, clock)
         cands == Candidates(recs, clock)
     IN /\ at' = clock /\ records' = recs /\ kept' = WithinCap(cands)
        /\ verdict' = With(Unranked(recs, clock), RankedOut(cands))
  /\ pc' = "closing"
  /\ UNCHANGED <<rows, clock, last>>

FeatureOf(recs, i) == {f \in recs[i[1]].bundle.features : f.id = i[2]}
IsFeature(recs, i) == FeatureOf(recs, i) # {}
DependsOn(recs, i) ==
  LET f == CHOOSE x \in FeatureOf(recs, i) : TRUE
  IN {<<i[1], d>> : d \in f.lineage \cap FeatureIds(recs[i[1]].bundle)}

\* What one pass leaves of the items still in.  It visits the features in the
\* order of their ids and drops at once each that depends on a feature no
\* longer in: for a feature visited before it that is decided by this pass,
\* for the others by the passes before.
Pass(recs, in) ==
  {out \in SUBSET in : \A i \in in :
     i \in out <=> (IsFeature(recs, i) =>
                      \A d \in DependsOn(recs, i) : d \in IF LexLess(d, i) THEN out ELSE in)}

Items(cands) == {c.item : c \in cands}
Dropped(cands) ==
  [i \in Items(cands) |-> Excluded("FEATURE_DEPENDENCY_EXCLUDED", CandidateFor(cands, i).score)]
Selected(cands) == [i \in Items(cands) |-> Included(CandidateFor(cands, i).score)]

\* Mutant: one pass is taken to be enough.
SinglePass ==
  /\ pc = "closing" /\ pc' = "briefs"
  /\ \E out \in Pass(records, Items(kept)) : kept' = {c \in kept : c.item \in out}
  /\ verdict' = With(With(verdict, Dropped(kept \ kept')), Selected(kept'))
  /\ UNCHANGED <<rows, clock, at, records, last>>
\* Mutant: a pass that dropped nothing calls for another one.
RestlessPass ==
  /\ pc = "closing"
  /\ \E out \in Pass(records, Items(kept)) : kept' = {c \in kept : c.item \in out}
  /\ verdict' = With(verdict, Dropped(kept \ kept'))
  /\ UNCHANGED <<rows, clock, pc, at, records, last>>
\* A pass that drops something is followed by another; the pass that drops
\* nothing ends the loop, and what is still in is selected.
ClosurePass ==
  /\ pc = "closing"
  /\ \E out \in Pass(records, Items(kept)) : kept' = {c \in kept : c.item \in out}
  /\ IF kept' = kept THEN pc' = "briefs" /\ verdict' = With(verdict, Selected(kept))
     ELSE UNCHANGED pc /\ verdict' = With(verdict, Dropped(kept \ kept'))
  /\ UNCHANGED <<rows, clock, at, records, last>>

\* A brief stands when everything it cites does; it scores the average of
\* those, and no more than the publisher's own confidence in the bundle.
Total(scores) == FoldFunction(+, 0, scores)
BriefScore(recs, dec, s) ==
  LET b == recs[s].bundle
      sum == Total([i \in b.cites |-> dec[<<s, i>>].score])
  IN Min({b.confidence, sum \div Cardinality(b.cites)})
JudgeBrief(recs, dec, s) ==
  LET score == BriefScore(recs, dec, s)
  IN IF \E i \in recs[s].bundle.cites : dec[<<s, i>>].status # "INCLUDED"
     THEN Excluded("BRIEF_REFERENCES_EXCLUDED_EVIDENCE", NoScore)
     ELSE IF score >= MinScore THEN Included(score) ELSE Excluded("score_threshold", score)
Briefs(recs, t) == {<<s, Brief>> : s \in {x \in Accepted(recs, t) : HasBrief(recs[x].bundle)}}

JudgeBriefs ==
  /\ pc = "briefs" /\ pc' = "done"
  /\ verdict' = With(verdict, [i \in Briefs(records, at) |-> JudgeBrief(records, verdict, i[1])])
  /\ UNCHANGED <<rows, clock, at, records, kept, last>>

----------------------------------------------------------------------------
(* The summary derived from the decisions.                                 *)

In(i) == verdict[i].status = "INCLUDED"
ClaimsIn(family) ==
  UNION {{<<s, c>> : c \in {x \in records[s].bundle.claims : x.family = family /\ In(<<s, x.id>>)}}
           : s \in DOMAIN records}
Leaning(family, way) == {x \in ClaimsIn(family) : x[2].direction = way}
BriefsIn == {i \in DOMAIN verdict : i[2] = Brief /\ In(i)}

FamilyStatus(family) ==
  IF \A c \in Candidates(records, at) : c.family # family THEN "MISSING"
  ELSE IF ClaimsIn(family) = {} THEN "REJECTED"
  ELSE IF Leaning(family, "bullish") # {} /\ Leaning(family, "bearish") # {} THEN "CONFLICTED"
  ELSE "AVAILABLE"

\* Mutant: a contested family counts as covered.
LenientMode ==
  IF BriefsIn # {} /\ \A f \in Contexts : FamilyStatus(f) \in {"AVAILABLE", "CONFLICTED"} THEN "FULL"
  ELSE IF BriefsIn # {} \/ \E f \in Contexts : ClaimsIn(f) # {} THEN "PARTIAL"
  ELSE "DEGRADED_NO_RESEARCH"
Mode ==
  IF BriefsIn # {} /\ \A f \in Contexts : FamilyStatus(f) = "AVAILABLE" THEN "FULL"
  ELSE IF BriefsIn # {} \/ \E f \in Contexts : ClaimsIn(f) # {} THEN "PARTIAL"
  ELSE "DEGRADED_NO_RESEARCH"

\* How far the stronger side of a contested family outweighs the weaker.
Consensus(family) ==
  LET weight(way) == Total([x \in Leaning(family, way) |-> verdict[<<x[1], x[2].id>>].score])
      bull == weight("bullish")
      bear == weight("bearish")
  IN IF bull + bear = 0 THEN 0
     ELSE ((IF bull > bear THEN bull - bear ELSE bear - bull) * Bps) \div (bull + bear)

DeterministicStatus ==
  IF \A s \in Accepted(records, at) : {f \in records[s].bundle.features : f.status = "available"} = {}
  THEN "MISSING"
  ELSE IF \E i \in DOMAIN verdict : In(i) /\ IsFeature(records, i) THEN "AVAILABLE" ELSE "REJECTED"

\* Something that was selected carries only the weight of stale evidence.
HasStaleInput ==
  \E i \in DOMAIN verdict : /\ In(i)
    /\ StaleWeight = IF IsFeature(records, i) THEN FeatureWeight(records[i[1]].bundle, CHOOSE f \in FeatureOf(records, i) : TRUE, at)
                     ELSE BundleWeight(records[i[1]].bundle, at)

Statuses == With([f \in Contexts |-> FamilyStatus(f)], [f \in {"deterministic"} |-> DeterministicStatus])

Warnings ==
  {[code |-> Statuses[f], family |-> f] :
     f \in {g \in DOMAIN Statuses : Statuses[g] \in {"CONFLICTED", "MISSING", "REJECTED"}}}
  \cup (IF HasStaleInput THEN {[code |-> "stale_input", family |-> ""]} ELSE {})
  \cup (IF BriefsIn = {} THEN {[code |-> "no_selected_research", family |-> ""]} ELSE {})

Using(s, ref) ==
  {<<s, f.id>> : f \in {x \in records[s].bundle.features : ref \in x.lineage}}
    \cup {<<s, c.id>> : c \in {x \in records[s].bundle.claims : ref \in x.refs}}
\* The union of source references, each marked by what uses it.
SourceReferences ==
  UNION {{[source |-> s, ref |-> r,
           selectedLineage |-> \E i \in Using(s, r) : In(i),
           auditOnly |-> \E i \in Using(s, r) : ~In(i)]
            : r \in {x \in records[s].bundle.refs : Using(s, x) # {}}} : s \in DOMAIN records}

\* The summary goes to the caller; the next selection starts afresh.
Return ==
  /\ pc = "done" /\ pc' = "idle"
  /\ last' = [at |-> at, records |-> records, verdict |-> verdict]
  /\ at' = 0 /\ records' = <<>> /\ kept' = {} /\ verdict' = <<>>
  /\ UNCHANGED <<rows, clock>>

Next ==
  \/ \E s \in Sources : \E b \in Offers[s] : Post(s, b)
  \/ Tick
  \/ \E w \in Windows : Begin(w)
  \/ ClosurePass \/ JudgeBriefs \/ Return

Spec == Init /\ [][Next]_vars
\* selectEvidence is one synchronous call: once begun, it runs to its end.
FairSpec == Spec /\ WF_vars(ClosurePass) /\ WF_vars(JudgeBriefs)

----------------------------------------------------------------------------
(* Properties                                                              *)

TypeOK ==
  /\ \A i \in DOMAIN rows : rows[i].source \in Sources /\ rows[i].bundle \in Offers[rows[i].source]
  /\ clock \in 0..Horizon /\ at \in 0..Horizon
  /\ pc \in {"idle", "closing", "briefs", "done"}
  /\ \A i \in DOMAIN verdict : /\ verdict[i].status \in {"INCLUDED", "EXCLUDED"}
                               /\ verdict[i].score \in NoScore..Bps

\* What the loop is for, without a loop: the features that can be built up
\* from the ranked ones, each on features built before it.
Features(recs, cands) == {i \in Items(cands) : IsFeature(recs, i)}
Closed(recs, cands, S) == \A i \in Features(recs, cands) : DependsOn(recs, i) \subseteq S => i \in S
Grounded(recs, cands) ==
  {i \in Features(recs, cands) : \A S \in SUBSET Features(recs, cands) : Closed(recs, cands, S) => i \in S}

\* The loop ends with exactly the features that rest on selected features all
\* the way down: none that depends on a dropped one survives, however long the
\* chain, and none is dropped without such a reason.
ClosureIsExact ==
  pc = "done" =>
    {i \in DOMAIN verdict : In(i) /\ IsFeature(records, i)} = Grounded(records, WithinCap(Candidates(records, at)))

BriefsRestOnSelected ==
  \A i \in DOMAIN verdict : i[2] = Brief /\ In(i) =>
    /\ HasBrief(records[i[1]].bundle)
    /\ \A id \in records[i[1]].bundle.cites : In(<<i[1], id>>)

FeaturesRestOnSources ==
  \A i \in DOMAIN verdict : In(i) /\ IsFeature(records, i) =>
    LET f == CHOOSE x \in FeatureOf(records, i) : TRUE
        features == records[i[1]].bundle.features
        closed(S) == \A g \in features : g.id \in S => g.lineage \cap FeatureIds(records[i[1]].bundle) \subseteq S
    IN \A S \in SUBSET FeatureIds(records[i[1]].bundle) :
         f.id \in S /\ closed(S) =>
           \E r \in SourceReferences, g \in features :
             r.source = i[1] /\ r.selectedLineage /\ g.id \in S /\ r.ref \in g.lineage

\* No conclusion rests on nothing: a selected brief cites only selected items
\* of its own bundle, and a selected feature leads, down its lineage and over
\* any number of computed features, to an outside source the summary lists.
ConclusionsRestOnSources == pc = "done" => BriefsRestOnSelected /\ FeaturesRestOnSources

\* Every item of every record read ends with a decision, so that the stored
\* lineage accounts for all the evidence there was; and the repository and the
\* selector, each with its own derivation of a lifecycle, agree on it at the
\* boundary instants too, so that no bundle is lost to a mismatch.
NothingLost ==
  pc = "done" => /\ DOMAIN verdict = AllItems(records)
                 /\ \A i \in DOMAIN verdict : verdict[i].why # "record_mismatch"

\* Within a family no item is left out for the limit while a weaker one is in.
NoBetterItemLeftOut ==
  pc = "done" => \A c, d \in Candidates(records, at) :
    (c.family = d.family /\ In(d.item) /\ verdict[c.item].why = "FAMILY_SELECTION_LIMIT")
      => c.score >= MinScore /\ c.score <= d.score

Boundaries(recs) ==
  UNION {LET b == recs[s].bundle IN
           {b.freshUntil, b.expiresAt}
             \cup {f.freshUntil : f \in {x \in b.features : x.status = "available"}}
             \cup {c.expiresAt : c \in b.claims} : s \in DOMAIN recs}

\* Two selections over the same bundles decide alike as long as no freshness
\* or expiry instant passed between them: the selection's hash, by which a
\* synthesis is recognised as already done, changes only when the evidence does.
SameEvidenceSameVerdict ==
  (/\ pc = "done" /\ last.at >= 0
   /\ DOMAIN records = DOMAIN last.records
   /\ \A s \in DOMAIN records : records[s].bundle = last.records[s].bundle
   /\ \A t \in Boundaries(records) : ~(last.at <= t /\ t < at))
  => verdict = last.verdict

\* A contested family is never reported with full consensus: every claim that
\* contests it carries weight.
ContestedIsNeverUnanimous == \A f \in Contexts : FamilyStatus(f) = "CONFLICTED" => Consensus(f) < Bps

\* A family every accepted publisher declared unavailable is reported MISSING,
\* one somebody declared present only if all of its claims have expired.
MissingAgreesWithPublishers ==
  \A f \in Contexts :
    LET senders == {s \in Accepted(records, at) : f \notin records[s].bundle.unavailable}
    IN FamilyStatus(f) = "MISSING" <=>
         \A s \in senders : \A c \in records[s].bundle.claims : c.family = f => ClaimExpired(c, at)

\* FULL promises a brief and research on every family, none of which leans
\* both ways; DEGRADED admits there is none.
ModeTellsTheTruth ==
  /\ Mode = "FULL" =>
       /\ \E i \in DOMAIN verdict : In(i) /\ i[2] = Brief
       /\ \A f \in Contexts : /\ ClaimsIn(f) # {}
                             /\ \E way \in {"bullish", "bearish"} : Leaning(f, way) = {}
  /\ Mode = "DEGRADED_NO_RESEARCH" <=> \A i \in DOMAIN verdict : In(i) => IsFeature(records, i)

\* A summary without a warning is of full research and of features, all of it
\* from bundles and features still fresh; every other one warns.
SilenceIsEarned ==
  Warnings = {} <=>
    /\ Mode = "FULL"
    /\ \E i \in DOMAIN verdict : In(i) /\ IsFeature(records, i)
    /\ \A i \in {j \in DOMAIN verdict : In(j)} :
         /\ at <= records[i[1]].bundle.freshUntil
         /\ \A f \in FeatureOf(records, i) : at <= f.freshUntil

\* What the summary says of the families agrees with the decisions and with
\* what the publishers declared.
SummaryIsTrue ==
  pc = "done" => /\ ContestedIsNeverUnanimous /\ MissingAgreesWithPublishers
                 /\ ModeTellsTheTruth /\ SilenceIsEarned

\* A selection once begun ends, whatever the bundles' lineage.
SelectionEnds == pc = "closing" ~> pc = "done"

============================================================================
