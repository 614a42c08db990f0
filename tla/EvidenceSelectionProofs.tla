------------------------- MODULE EvidenceSelectionProofs -------------------------
(***************************************************************************)
(* What holds of a selection for every set of sources and of bundles that  *)
(* follow the schema.  The candidates are a set given by the records and   *)
(* the instant; the loop takes away features from it until what is left is *)
(* what can be built up from the ranked ones, so that the verdict is given *)
(* by the records and the instant too, and every property reads it off.    *)
(***************************************************************************)
EXTENDS EvidenceSelection, FiniteSetTheorems, TLAPS

----------------------------------------------------------------------------
(* Records and candidates.                                                 *)

\* Records as getLatest hands them out at t.
IsRecords(recs, t) ==
  /\ DOMAIN recs \subseteq Sources
  /\ recs = [s \in DOMAIN recs |->
               [bundle |-> recs[s].bundle, lifecycle |-> LifecycleAt(recs[s].bundle, t)]]
  /\ \A s \in DOMAIN recs : recs[s].bundle \in Offers[s] /\ ValidBundle(recs[s].bundle)

\* The candidates the ranking leaves in.
Best(recs, t) == WithinCap(Candidates(recs, t))

\* The two derivations of a lifecycle agree.
LEMMA OneLifecycle ==
  ASSUME NEW b, NEW t
  PROVE  DeriveLifecycle(b, t) = LifecycleAt(b, t)
  BY DEF DeriveLifecycle, LifecycleAt

\* The bundle of a record follows the schema and the contract.
LEMMA RecordBundle ==
  ASSUME NEW recs, NEW t, IsRecords(recs, t), NEW s \in DOMAIN recs
  PROVE  FollowsSchema(recs[s].bundle) /\ ValidBundle(recs[s].bundle)
  BY OffersFollowSchema DEF IsRecords

\* A set with as many images as members is mapped one to one.
LEMMA AsManyImages ==
  ASSUME NEW f, IsFiniteSet(DOMAIN f), f = [x \in DOMAIN f |-> f[x]],
         Cardinality({f[x] : x \in DOMAIN f}) = Cardinality(DOMAIN f),
         NEW x \in DOMAIN f, NEW y \in DOMAIN f, f[x] = f[y]
  PROVE  x = y
<1> DEFINE T == {f[z] : z \in DOMAIN f}
<1>1. f \in Surjection(DOMAIN f, T)
  BY DEF Surjection
<1>2. f \in Injection(DOMAIN f, T)
  BY <1>1, FS_Surjection
<1> QED
  BY <1>2 DEF Injection, IsInjective

\* The image of a finite set is finite.
LEMMA ImageIsFinite ==
  ASSUME NEW f, IsFiniteSet(DOMAIN f), f = [x \in DOMAIN f |-> f[x]]
  PROVE  IsFiniteSet({f[x] : x \in DOMAIN f})
<1> DEFINE T == {f[z] : z \in DOMAIN f}
<1>1. f \in Surjection(DOMAIN f, T)
  BY DEF Surjection
<1> QED
  BY <1>1, FS_Surjection

\* A bundle has finitely many ids.
LEMMA IdsAreFinite ==
  ASSUME NEW b, FollowsSchema(b)
  PROVE  IsFiniteSet(FeatureIds(b)) /\ IsFiniteSet(ClaimIds(b))
<1> DEFINE f == [x \in b.features |-> x.id]
           c == [x \in b.claims |-> x.id]
<1>1. FeatureIds(b) = {f[x] : x \in DOMAIN f} /\ ClaimIds(b) = {c[x] : x \in DOMAIN c}
  BY DEF FeatureIds, ClaimIds
<1>2. /\ IsFiniteSet(DOMAIN f) /\ f = [x \in DOMAIN f |-> f[x]]
      /\ IsFiniteSet(DOMAIN c) /\ c = [x \in DOMAIN c |-> c[x]]
  BY DEF FollowsSchema
<1> HIDE DEF f, c
<1> QED
  BY <1>1, <1>2, ImageIsFinite

\* In a bundle an id names one feature or one claim, and never the brief.
LEMMA OneItemPerId ==
  ASSUME NEW b, FollowsSchema(b), UniqueIds(b)
  PROVE  /\ \A f, g \in b.features : f.id = g.id => f = g
         /\ \A c, d \in b.claims : c.id = d.id => c = d
         /\ \A f \in b.features, c \in b.claims : f.id # c.id
         /\ Brief \notin FeatureIds(b) \cup ClaimIds(b)
<1>1. \A f, g \in b.features : f.id = g.id => f = g
  <2> DEFINE id == [f \in b.features |-> f.id]
  <2>1. {id[f] : f \in DOMAIN id} = FeatureIds(b)
    BY DEF FeatureIds
  <2>2. IsFiniteSet(DOMAIN id) /\ Cardinality({id[f] : f \in DOMAIN id}) = Cardinality(DOMAIN id)
    BY <2>1 DEF UniqueIds, FollowsSchema
  <2>3. id = [f \in DOMAIN id |-> id[f]]
    OBVIOUS
  <2> HIDE DEF id
  <2>4. \A f, g \in DOMAIN id : id[f] = id[g] => f = g
    BY <2>2, <2>3, AsManyImages
  <2> QED
    BY <2>4 DEF id
<1>2. \A c, d \in b.claims : c.id = d.id => c = d
  <2> DEFINE id == [c \in b.claims |-> c.id]
  <2>1. {id[c] : c \in DOMAIN id} = ClaimIds(b)
    BY DEF ClaimIds
  <2>2. IsFiniteSet(DOMAIN id) /\ Cardinality({id[c] : c \in DOMAIN id}) = Cardinality(DOMAIN id)
    BY <2>1 DEF UniqueIds, FollowsSchema
  <2>3. id = [c \in DOMAIN id |-> id[c]]
    OBVIOUS
  <2> HIDE DEF id
  <2>4. \A c, d \in DOMAIN id : id[c] = id[d] => c = d
    BY <2>2, <2>3, AsManyImages
  <2> QED
    BY <2>4 DEF id
<1>3. \A f \in b.features, c \in b.claims : f.id # c.id
  BY DEF UniqueIds, FeatureIds, ClaimIds
<1>4. Brief \notin FeatureIds(b) \cup ClaimIds(b)
  BY DEF FollowsSchema, FeatureIds, ClaimIds, Brief
<1> QED
  BY <1>1, <1>2, <1>3, <1>4

\* What a candidate is: an available feature or a claim not expired, of an
\* accepted record.
LEMMA CandidateForm ==
  ASSUME NEW recs, NEW t, NEW c
  PROVE  c \in Candidates(recs, t) <=>
           \E s \in Accepted(recs, t) :
             \/ \E f \in recs[s].bundle.features :
                  f.status = "available" /\ c = FeatureCandidate(s, recs[s].bundle, f, t)
             \/ \E m \in recs[s].bundle.claims :
                  ~ClaimExpired(m, t) /\ c = ClaimCandidate(s, recs[s].bundle, m, t)
  BY DEF Candidates, CandidatesOf

\* What a candidate says of its item.
LEMMA CandidateItem ==
  ASSUME NEW s, NEW b, NEW x, NEW t
  PROVE  /\ FeatureCandidate(s, b, x, t).item = <<s, x.id>>
         /\ FeatureCandidate(s, b, x, t).item[1] = s
         /\ FeatureCandidate(s, b, x, t).item[2] = x.id
         /\ ClaimCandidate(s, b, x, t).item = <<s, x.id>>
         /\ ClaimCandidate(s, b, x, t).item[1] = s
         /\ ClaimCandidate(s, b, x, t).item[2] = x.id
  BY DEF FeatureCandidate, ClaimCandidate

\* An item has at most one candidate.
LEMMA OneCandidatePerItem ==
  ASSUME NEW recs, NEW t, IsRecords(recs, t),
         NEW c \in Candidates(recs, t), NEW d \in Candidates(recs, t), c.item = d.item
  PROVE  c = d
<1>1. PICK s \in Accepted(recs, t) :
        \/ \E f \in recs[s].bundle.features :
             f.status = "available" /\ c = FeatureCandidate(s, recs[s].bundle, f, t)
        \/ \E m \in recs[s].bundle.claims :
             ~ClaimExpired(m, t) /\ c = ClaimCandidate(s, recs[s].bundle, m, t)
  BY CandidateForm
<1>2. PICK r \in Accepted(recs, t) :
        \/ \E f \in recs[r].bundle.features :
             f.status = "available" /\ d = FeatureCandidate(r, recs[r].bundle, f, t)
        \/ \E m \in recs[r].bundle.claims :
             ~ClaimExpired(m, t) /\ d = ClaimCandidate(r, recs[r].bundle, m, t)
  BY CandidateForm
<1> DEFINE b == recs[s].bundle
<1>3. s = r
  BY <1>1, <1>2, CandidateItem
<1>4. FollowsSchema(b) /\ UniqueIds(b)
  BY RecordBundle DEF Accepted, ValidBundle
<1>5. /\ \A f, g \in b.features : f.id = g.id => f = g
      /\ \A m, n \in b.claims : m.id = n.id => m = n
      /\ \A f \in b.features, m \in b.claims : f.id # m.id
  BY <1>4, OneItemPerId
<1>. /\ \A x : FeatureCandidate(s, b, x, t).item[2] = x.id
     /\ \A x : ClaimCandidate(s, b, x, t).item[2] = x.id
  BY CandidateItem
<1>. HIDE DEF b
<1>6. CASE \E f \in b.features : c = FeatureCandidate(s, b, f, t)
  <2>1. PICK f \in b.features : c = FeatureCandidate(s, b, f, t)
    BY <1>6
  <2>2. c.item[2] = f.id
    BY <2>1
  <2>3. ASSUME NEW m \in b.claims, d = ClaimCandidate(s, b, m, t)
        PROVE  FALSE
    <3>1. d.item[2] = m.id
      BY <2>3
    <3> QED
      BY <3>1, <2>2, <1>5
  <2>4. PICK g \in b.features : d = FeatureCandidate(s, b, g, t)
    BY <1>2, <1>3, <2>3 DEF b
  <2>5. f = g
    BY <2>2, <2>4, <1>5
  <2> QED
    BY <2>1, <2>4, <2>5
<1>7. CASE \E m \in b.claims : c = ClaimCandidate(s, b, m, t)
  <2>1. PICK m \in b.claims : c = ClaimCandidate(s, b, m, t)
    BY <1>7
  <2>2. c.item[2] = m.id
    BY <2>1
  <2>3. ASSUME NEW f \in b.features, d = FeatureCandidate(s, b, f, t)
        PROVE  FALSE
    <3>1. d.item[2] = f.id
      BY <2>3
    <3> QED
      BY <3>1, <2>2, <1>5
  <2>4. PICK n \in b.claims : d = ClaimCandidate(s, b, n, t)
    BY <1>2, <1>3, <2>3 DEF b
  <2>5. m = n
    BY <2>2, <2>4, <1>5
  <2> QED
    BY <2>1, <2>4, <2>5
<1> QED
  BY <1>1, <1>6, <1>7 DEF b

\* So a candidate is found by its item in any set of candidates it is in.
LEMMA FoundByItem ==
  ASSUME NEW recs, NEW t, IsRecords(recs, t),
         NEW cands \in SUBSET Candidates(recs, t), NEW c \in cands
  PROVE  CandidateFor(cands, c.item) = c
<1> DEFINE d == CandidateFor(cands, c.item)
<1>1. d \in cands /\ d.item = c.item
  BY DEF CandidateFor
<1> QED
  BY <1>1, OneCandidatePerItem

----------------------------------------------------------------------------
(* Every item of a record is a candidate, a brief to be judged or out.     *)

\* The items of the records, one by one.
LEMMA ItemForm ==
  ASSUME NEW recs, NEW i
  PROVE  i \in AllItems(recs) <=>
           \E s \in DOMAIN recs :
             \E id \in FeatureIds(recs[s].bundle) \cup ClaimIds(recs[s].bundle) \cup {Brief} :
               i = <<s, id>> /\ i[1] = s /\ i[2] = id
  BY DEF AllItems, ItemsOf

\* Nothing speaks against a candidate before the ranking, and none is a brief.
LEMMA CandidateIsUndecided ==
  ASSUME NEW recs, NEW t, IsRecords(recs, t), NEW c \in Candidates(recs, t)
  PROVE  /\ c.item \in AllItems(recs)
         /\ c.item = <<c.item[1], c.item[2]>>
         /\ c.item[1] \in Accepted(recs, t)
         /\ c.item[2] # Brief
         /\ WhyOut(recs, t, c.item[1], c.item[2]) = "none"
<1>1. PICK s \in Accepted(recs, t) :
        \/ \E f \in recs[s].bundle.features :
             f.status = "available" /\ c = FeatureCandidate(s, recs[s].bundle, f, t)
        \/ \E m \in recs[s].bundle.claims :
             ~ClaimExpired(m, t) /\ c = ClaimCandidate(s, recs[s].bundle, m, t)
  BY CandidateForm
<1> DEFINE b == recs[s].bundle
<1>2. s \in DOMAIN recs /\ Rejection(s, recs[s], t) = "none"
  BY DEF Accepted
<1>3. FollowsSchema(b) /\ UniqueIds(b)
  BY <1>2, RecordBundle DEF ValidBundle
<1>4. /\ \A f, g \in b.features : f.id = g.id => f = g
      /\ \A m, n \in b.claims : m.id = n.id => m = n
      /\ \A f \in b.features, m \in b.claims : f.id # m.id
      /\ Brief \notin FeatureIds(b) \cup ClaimIds(b)
  BY <1>3, OneItemPerId
<1>5. CASE \E f \in b.features : f.status = "available" /\ c = FeatureCandidate(s, b, f, t)
  <2>1. PICK f \in b.features : f.status = "available" /\ c = FeatureCandidate(s, b, f, t)
    BY <1>5
  <2>2. c.item = <<s, f.id>> /\ c.item[1] = s /\ c.item[2] = f.id
    BY <2>1, CandidateItem
  <2>3. f.id \in FeatureIds(b)
    BY DEF FeatureIds
  <2>4. f.id # Brief
    BY <2>3, <1>4
  <2>5. WhyOut(recs, t, s, f.id) = "none"
    BY <1>2, <1>4, <2>1, <2>4 DEF WhyOut
  <2>6. c.item \in AllItems(recs)
    BY <1>2, <2>2, <2>3, ItemForm
  <2> QED
    BY <2>2, <2>4, <2>5, <2>6
<1>6. CASE \E m \in b.claims : ~ClaimExpired(m, t) /\ c = ClaimCandidate(s, b, m, t)
  <2>1. PICK m \in b.claims : ~ClaimExpired(m, t) /\ c = ClaimCandidate(s, b, m, t)
    BY <1>6
  <2>2. c.item = <<s, m.id>> /\ c.item[1] = s /\ c.item[2] = m.id
    BY <2>1, CandidateItem
  <2>3. m.id \in ClaimIds(b)
    BY DEF ClaimIds
  <2>4. m.id # Brief
    BY <2>3, <1>4
  <2>5. WhyOut(recs, t, s, m.id) = "none"
    BY <1>2, <1>4, <2>1, <2>4 DEF WhyOut
  <2>6. c.item \in AllItems(recs)
    BY <1>2, <2>2, <2>3, ItemForm
  <2> QED
    BY <2>2, <2>4, <2>5, <2>6
<1> QED
  BY <1>1, <1>5, <1>6

\* Nor against a brief that is there.
LEMMA BriefIsUndecided ==
  ASSUME NEW recs, NEW t, IsRecords(recs, t), NEW i \in Briefs(recs, t)
  PROVE  /\ i \in AllItems(recs)
         /\ i[1] \in Accepted(recs, t) /\ i[2] = Brief /\ HasBrief(recs[i[1]].bundle)
         /\ WhyOut(recs, t, i[1], i[2]) = "none"
<1>1. PICK s \in Accepted(recs, t) : HasBrief(recs[s].bundle) /\ i = <<s, Brief>>
  BY DEF Briefs
<1> DEFINE b == recs[s].bundle
<1>2. s \in DOMAIN recs /\ Rejection(s, recs[s], t) = "none"
  BY DEF Accepted
<1>3. FollowsSchema(b) /\ UniqueIds(b)
  BY <1>2, RecordBundle DEF ValidBundle
<1>4. Brief \notin FeatureIds(b) \cup ClaimIds(b)
  BY <1>3, OneItemPerId
<1>5. \A c \in b.claims : c.id # Brief
  BY <1>4 DEF ClaimIds
<1>6. \A f \in b.features : f.id # Brief
  BY <1>4 DEF FeatureIds
<1>7. i[1] = s /\ i[2] = Brief
  BY <1>1
<1>8. WhyOut(recs, t, s, Brief) = "none"
  BY <1>1, <1>2, <1>5, <1>6 DEF WhyOut
<1>9. i \in AllItems(recs)
  BY <1>1, <1>2, <1>7, ItemForm
<1> QED
  BY <1>1, <1>7, <1>8, <1>9

\* And whatever nothing speaks against is one or the other.
LEMMA UndecidedItem ==
  ASSUME NEW recs, NEW t, IsRecords(recs, t), NEW i \in AllItems(recs),
         WhyOut(recs, t, i[1], i[2]) = "none"
  PROVE  i \in Items(Candidates(recs, t)) \cup Briefs(recs, t)
<1>1. PICK s \in DOMAIN recs :
        \E id \in FeatureIds(recs[s].bundle) \cup ClaimIds(recs[s].bundle) \cup {Brief} :
          i = <<s, id>> /\ i[1] = s /\ i[2] = id
  BY ItemForm
<1>2. PICK id \in FeatureIds(recs[s].bundle) \cup ClaimIds(recs[s].bundle) \cup {Brief} :
        i = <<s, id>> /\ i[1] = s /\ i[2] = id
  BY <1>1
<1> DEFINE b == recs[s].bundle
<1>3. WhyOut(recs, t, s, id) = "none"
  BY <1>2
<1>4. Rejection(s, recs[s], t) = "none"
  BY <1>3 DEF WhyOut
<1>5. s \in Accepted(recs, t)
  BY <1>4 DEF Accepted
<1>6. CASE id = Brief
  <2>1. HasBrief(b)
    BY <1>3, <1>4, <1>6 DEF WhyOut
  <2> QED
    BY <1>2, <1>5, <1>6, <2>1 DEF Briefs
<1>7. CASE id \in FeatureIds(b)
  <2>1. PICK f \in b.features : f.id = id
    BY <1>7 DEF FeatureIds
  <2>2. f.status = "available"
    BY <1>3, <1>4, <2>1 DEF WhyOut
  <2>3. FeatureCandidate(s, b, f, t) \in Candidates(recs, t)
    BY <1>5, <2>2, CandidateForm
  <2>4. FeatureCandidate(s, b, f, t).item = i
    BY <1>2, <2>1, CandidateItem
  <2> QED
    BY <2>3, <2>4 DEF Items
<1>8. CASE id \in ClaimIds(b)
  <2>1. PICK m \in b.claims : m.id = id
    BY <1>8 DEF ClaimIds
  <2>2. ~ClaimExpired(m, t)
    BY <1>3, <1>4, <2>1 DEF WhyOut
  <2>3. ClaimCandidate(s, b, m, t) \in Candidates(recs, t)
    BY <1>5, <2>2, CandidateForm
  <2>4. ClaimCandidate(s, b, m, t).item = i
    BY <1>2, <2>1, CandidateItem
  <2> QED
    BY <2>3, <2>4 DEF Items
<1> QED
  BY <1>6, <1>7, <1>8

----------------------------------------------------------------------------
(* The loop over the lineage.                                              *)

\* The features that can be built up are closed: one all of whose lineage is
\* built up is built up.
LEMMA GroundedIsClosed ==
  ASSUME NEW recs, NEW cands
  PROVE  Closed(recs, cands, Grounded(recs, cands))
<1> DEFINE G == Grounded(recs, cands)
<1> SUFFICES ASSUME NEW i \in Features(recs, cands), DependsOn(recs, i) \subseteq G,
                    NEW S \in SUBSET Features(recs, cands), Closed(recs, cands, S)
             PROVE  i \in S
  BY DEF Closed, Grounded
<1>1. G \subseteq S
  BY DEF Grounded
<1> QED
  BY <1>1 DEF Closed

\* They are the least such set.
LEMMA GroundedIsLeast ==
  ASSUME NEW recs, NEW cands, NEW S \in SUBSET Features(recs, cands), Closed(recs, cands, S)
  PROVE  Grounded(recs, cands) \subseteq S
  BY DEF Grounded

\* And what one of them depends on is among them.
LEMMA GroundedDependsOn ==
  ASSUME NEW recs, NEW cands, NEW i \in Grounded(recs, cands)
  PROVE  DependsOn(recs, i) \subseteq Grounded(recs, cands)
<1> DEFINE G == Grounded(recs, cands)
           S == {j \in G : DependsOn(recs, j) \subseteq G}
<1>1. Closed(recs, cands, G)
  BY GroundedIsClosed
<1>2. S \in SUBSET Features(recs, cands)
  BY DEF Grounded
<1>3. Closed(recs, cands, S)
  BY <1>1 DEF Closed
<1> QED
  BY <1>2, <1>3, GroundedIsLeast

\* So a pass never drops one of them.
LEMMA PassKeepsGrounded ==
  ASSUME NEW recs, NEW cands, NEW in, NEW out \in Pass(recs, in), Grounded(recs, cands) \subseteq in
  PROVE  Grounded(recs, cands) \subseteq out
<1> DEFINE G == Grounded(recs, cands)
           S == G \cap out
<1>1. Closed(recs, cands, G)
  BY GroundedIsClosed
<1>2. ASSUME NEW i \in Features(recs, cands), DependsOn(recs, i) \subseteq S
      PROVE  i \in S
  <2>1. i \in G
    BY <1>1, <1>2 DEF Closed
  <2>2. \A d \in DependsOn(recs, i) : d \in out /\ d \in in
    BY <1>2
  <2>3. i \in out
    BY <2>1, <2>2 DEF Pass
  <2> QED
    BY <2>1, <2>3
<1>3. S \in SUBSET Features(recs, cands)
  BY DEF Grounded
<1>4. Closed(recs, cands, S)
  BY <1>2 DEF Closed
<1> QED
  BY <1>3, <1>4, GroundedIsLeast

\* A pass takes nothing but features.
LEMMA PassKeepsOthers ==
  ASSUME NEW recs, NEW in, NEW out \in Pass(recs, in)
  PROVE  /\ out \subseteq in
         /\ \A i \in in : ~IsFeature(recs, i) => i \in out
  BY DEF Pass

\* An id of a feature makes an item a feature.
LEMMA FeatureById ==
  ASSUME NEW recs, NEW i
  PROVE  IsFeature(recs, i) <=> i[2] \in FeatureIds(recs[i[1]].bundle)
  BY DEF IsFeature, FeatureOf, FeatureIds

\* What the feature of an item depends on.
LEMMA DependsOnLineage ==
  ASSUME NEW recs, NEW t, IsRecords(recs, t), NEW s \in DOMAIN recs, NEW f \in recs[s].bundle.features
  PROVE  /\ IsFeature(recs, <<s, f.id>>)
         /\ FeatureOf(recs, <<s, f.id>>) = {f}
         /\ DependsOn(recs, <<s, f.id>>) =
              {<<s, d>> : d \in f.lineage \cap FeatureIds(recs[s].bundle)}
<1> DEFINE b == recs[s].bundle
           i == <<s, f.id>>
<1>1. FollowsSchema(b) /\ UniqueIds(b)
  BY RecordBundle DEF ValidBundle
<1>2. \A g \in b.features : g.id = f.id => g = f
  BY <1>1, OneItemPerId
<1>3. i[1] = s /\ i[2] = f.id
  OBVIOUS
<1> HIDE DEF i
<1>4. FeatureOf(recs, i) = {f}
  BY <1>2, <1>3 DEF FeatureOf
<1>5. IsFeature(recs, i)
  BY <1>4 DEF IsFeature
<1>6. (CHOOSE x \in FeatureOf(recs, i) : TRUE) = f
  BY <1>4
<1>7. DependsOn(recs, i) = {<<s, d>> : d \in f.lineage \cap FeatureIds(b)}
  BY <1>3, <1>6 DEF DependsOn
<1> QED
  BY <1>4, <1>5, <1>7 DEF i

\* When a pass drops nothing, every feature still in can be built up: among
\* those of a bundle that could not, one would depend on none of them, since
\* no lineage runs in a circle.
LEMMA FixedPassIsGrounded ==
  ASSUME NEW recs, NEW t, IsRecords(recs, t), NEW cands \in SUBSET Candidates(recs, t),
         NEW in \in SUBSET Items(cands), in \in Pass(recs, in),
         NEW i \in in, IsFeature(recs, i)
  PROVE  i \in Grounded(recs, cands)
<1> DEFINE G == Grounded(recs, cands)
           s == i[1]
           b == recs[s].bundle
           S == {id \in FeatureIds(b) : <<s, id>> \in in /\ <<s, id>> \notin G}
<1> SUFFICES ASSUME i \notin G PROVE FALSE
  OBVIOUS
<1>1. i = <<i[1], i[2]>> /\ i[1] \in Accepted(recs, t)
  <2>1. PICK c \in cands : c.item = i
    BY DEF Items
  <2> QED
    BY <2>1, CandidateIsUndecided
<1>2. s \in DOMAIN recs
  BY <1>1 DEF Accepted
<1>3. i[2] \in S
  BY <1>1, FeatureById
<1>4. AcyclicLineage(b)
  BY <1>2, RecordBundle DEF ValidBundle
<1>5. PICK f \in b.features : f.id \in S /\ f.lineage \cap S = {}
  BY <1>3, <1>4 DEF AcyclicLineage
<1> DEFINE j == <<s, f.id>>
<1>6. /\ IsFeature(recs, j)
      /\ DependsOn(recs, j) = {<<s, d>> : d \in f.lineage \cap FeatureIds(b)}
  BY <1>2, DependsOnLineage
<1>7. j \in in /\ j \notin G
  BY <1>5
<1>8. DependsOn(recs, j) \subseteq in
  BY <1>6, <1>7 DEF Pass
<1>9. DependsOn(recs, j) \subseteq G
  <2> SUFFICES ASSUME NEW d \in f.lineage \cap FeatureIds(b) PROVE <<s, d>> \in G
    BY <1>6
  <2>1. <<s, d>> \in in
    BY <1>6, <1>8
  <2>2. d \notin S
    BY <1>5
  <2> QED
    BY <2>1, <2>2
<1>10. j \in Features(recs, cands)
  BY <1>6, <1>7 DEF Features
<1>11. j \in G
  BY <1>9, <1>10, GroundedIsClosed DEF Closed
<1> QED
  BY <1>7, <1>11

----------------------------------------------------------------------------
(* The verdict, as the records and the instant give it.                    *)

\* What is in when the loop ends.
Surviving(recs, t) ==
  {c \in Best(recs, t) : IsFeature(recs, c.item) => c.item \in Grounded(recs, Best(recs, t))}

\* What the loop may have in: what is no feature, and what can be built up.
LoopState(recs, t, in) ==
  /\ in \subseteq Best(recs, t)
  /\ \A c \in Best(recs, t) : ~IsFeature(recs, c.item) => c \in in
  /\ Grounded(recs, Best(recs, t)) \subseteq Items(in)

\* The decisions against what is not in.
Exclusions(v, recs, t, in) ==
  /\ \A i \in DOMAIN Unranked(recs, t) : v[i] = Unranked(recs, t)[i]
  /\ \A c \in Candidates(recs, t) \ Best(recs, t) :
       v[c.item] = Excluded(IF c \in Eligible(Candidates(recs, t)) THEN "FAMILY_SELECTION_LIMIT"
                            ELSE "score_threshold", c.score)
  /\ \A c \in Best(recs, t) \ in : v[c.item] = Excluded("FEATURE_DEPENDENCY_EXCLUDED", c.score)
\* What the loop has decided so far: everything that is not in.
LoopVerdict(v, recs, t, in) ==
  /\ v = [i \in DOMAIN v |-> v[i]]
  /\ DOMAIN v = DOMAIN Unranked(recs, t) \cup Items(Candidates(recs, t) \ in)
  /\ Exclusions(v, recs, t, in)

\* The decisions when only the briefs are left, and all of them.
Settled(v, recs, t) ==
  /\ v = [i \in DOMAIN v |-> v[i]]
  /\ DOMAIN v = DOMAIN Unranked(recs, t) \cup Items(Candidates(recs, t))
  /\ Exclusions(v, recs, t, Surviving(recs, t))
  /\ \A c \in Surviving(recs, t) : v[c.item] = Included(c.score)
\* ... with the briefs judged against them.
Judgement(w, recs, t) == With(w, [i \in Briefs(recs, t) |-> JudgeBrief(recs, w, i[1])])
Judged(v, recs, t) == \E w : Settled(w, recs, t) /\ v = Judgement(w, recs, t)

\* The fields of a decision.
LEMMA DecisionFields ==
  ASSUME NEW why, NEW score
  PROVE  /\ Included(score).status = "INCLUDED" /\ Included(score).why = "none"
         /\ Excluded(why, score).status = "EXCLUDED" /\ Excluded(why, score).why = why
         /\ Included(score).score = score /\ Excluded(why, score).score = score
  BY DEF Included, Excluded

\* The later of two decisions on an item counts, and no other is touched.
LEMMA WithForm ==
  ASSUME NEW v, NEW w
  PROVE  /\ DOMAIN With(v, w) = DOMAIN v \cup DOMAIN w
         /\ \A i \in DOMAIN w : With(v, w)[i] = w[i]
         /\ \A i \in DOMAIN v : i \notin DOMAIN w => With(v, w)[i] = v[i]
         /\ With(v, w) = [i \in DOMAIN With(v, w) |-> With(v, w)[i]]
  BY DEF With

\* The ranked are candidates.
LEMMA BestIsIn ==
  ASSUME NEW recs, NEW t
  PROVE  Best(recs, t) \subseteq Candidates(recs, t) /\ Surviving(recs, t) \subseteq Best(recs, t)
  BY DEF Best, WithinCap, Eligible, Surviving

\* No candidate has been decided on before the ranking.
LEMMA UnrankedApart ==
  ASSUME NEW recs, NEW t, IsRecords(recs, t), NEW c \in Candidates(recs, t)
  PROVE  c.item \notin DOMAIN Unranked(recs, t)
  BY CandidateIsUndecided DEF Unranked

\* When the loop begins, the ranked are in.
LEMMA LoopBegins ==
  ASSUME NEW recs, NEW t, IsRecords(recs, t)
  PROVE  /\ LoopState(recs, t, Best(recs, t))
         /\ LoopVerdict(With(Unranked(recs, t), RankedOut(Candidates(recs, t))), recs, t, Best(recs, t))
<1> DEFINE cands == Candidates(recs, t)
           out == RankedOut(cands)
           v == With(Unranked(recs, t), out)
<1>1. LoopState(recs, t, Best(recs, t))
  BY DEF LoopState, Grounded, Features
<1>2. DOMAIN out = Items(cands \ Best(recs, t))
  BY DEF RankedOut, Items, Best
<1>3. \A c \in cands \ Best(recs, t) :
        out[c.item] = Excluded(IF c \in Eligible(cands) THEN "FAMILY_SELECTION_LIMIT"
                               ELSE "score_threshold", c.score)
  <2> SUFFICES ASSUME NEW c \in cands \ Best(recs, t)
               PROVE  out[c.item] = Excluded(IF c \in Eligible(cands) THEN "FAMILY_SELECTION_LIMIT"
                                             ELSE "score_threshold", c.score)
    OBVIOUS
  <2>1. c.item \in {d.item : d \in cands \ WithinCap(cands)}
    BY DEF Best
  <2>2. CandidateFor(cands, c.item) = c
    BY FoundByItem
  <2> QED
    BY <2>1, <2>2 DEF RankedOut
<1> HIDE DEF out
<1>4. /\ DOMAIN v = DOMAIN Unranked(recs, t) \cup DOMAIN out
      /\ \A i \in DOMAIN out : v[i] = out[i]
      /\ \A i \in DOMAIN Unranked(recs, t) : i \notin DOMAIN out => v[i] = Unranked(recs, t)[i]
      /\ v = [i \in DOMAIN v |-> v[i]]
  BY WithForm
<1> HIDE DEF v
<1>5. \A i \in DOMAIN out : i \notin DOMAIN Unranked(recs, t)
  BY <1>2, UnrankedApart DEF Items
<1>6. \A c \in cands \ Best(recs, t) : c.item \in DOMAIN out
  BY <1>2 DEF Items
<1>7. Exclusions(v, recs, t, Best(recs, t))
  BY <1>3, <1>4, <1>5, <1>6 DEF Exclusions
<1>8. LoopVerdict(v, recs, t, Best(recs, t))
  BY <1>2, <1>4, <1>7 DEF LoopVerdict
<1> QED
  BY <1>1, <1>8 DEF v, out

\* A pass moves what it drops from what is in to what is decided.
LEMMA LoopDrops ==
  ASSUME NEW recs, NEW t, IsRecords(recs, t), NEW in, NEW out \in SUBSET in, NEW v,
         LoopState(recs, t, in), LoopVerdict(v, recs, t, in)
  PROVE  LoopVerdict(With(v, Dropped(in \ out)), recs, t, out)
<1> DEFINE cands == Candidates(recs, t)
           drop == Dropped(in \ out)
           w == With(v, drop)
<1>1. in \subseteq Best(recs, t) /\ in \subseteq cands
  BY BestIsIn DEF LoopState
<1>2. DOMAIN drop = Items(in \ out)
  BY DEF Dropped
<1>3. \A c \in in \ out : c.item \in DOMAIN drop
  BY <1>2 DEF Items
<1>4. \A c \in in \ out : drop[c.item] = Excluded("FEATURE_DEPENDENCY_EXCLUDED", c.score)
  <2> SUFFICES ASSUME NEW c \in in \ out
               PROVE  drop[c.item] = Excluded("FEATURE_DEPENDENCY_EXCLUDED", c.score)
    OBVIOUS
  <2>1. CandidateFor(in \ out, c.item) = c
    BY <1>1, FoundByItem
  <2> QED
    BY <1>3, <2>1 DEF Dropped
<1> HIDE DEF drop
<1>5. /\ DOMAIN w = DOMAIN v \cup DOMAIN drop
      /\ \A i \in DOMAIN drop : w[i] = drop[i]
      /\ \A i \in DOMAIN v : i \notin DOMAIN drop => w[i] = v[i]
      /\ w = [i \in DOMAIN w |-> w[i]]
  BY WithForm
<1> HIDE DEF w
<1>6. DOMAIN w = DOMAIN Unranked(recs, t) \cup Items(cands \ out)
  BY <1>1, <1>2, <1>5 DEF LoopVerdict, Items
<1>7. \A i \in DOMAIN Unranked(recs, t) : i \in DOMAIN v /\ i \notin DOMAIN drop
  BY <1>1, <1>2, UnrankedApart DEF LoopVerdict, Items
<1>8. \A c \in cands \ in : c.item \in DOMAIN v /\ c.item \notin DOMAIN drop
  BY <1>1, <1>2, OneCandidatePerItem DEF LoopVerdict, Items
<1>9. /\ \A i \in DOMAIN Unranked(recs, t) : w[i] = v[i]
      /\ \A c \in cands \ in : w[c.item] = v[c.item]
      /\ \A c \in in \ out : w[c.item] = drop[c.item]
  BY <1>3, <1>5, <1>7, <1>8
<1>10. Exclusions(w, recs, t, out)
  BY <1>1, <1>4, <1>9, BestIsIn DEF LoopVerdict, Exclusions
<1> QED
  BY <1>5, <1>6, <1>10 DEF LoopVerdict, w, drop

\* What a pass leaves is again what the loop may have in.
LEMMA LoopGoesOn ==
  ASSUME NEW recs, NEW t, NEW in, LoopState(recs, t, in), NEW out \in Pass(recs, Items(in))
  PROVE  LoopState(recs, t, {c \in in : c.item \in out})
<1> DEFINE rest == {c \in in : c.item \in out}
<1>1. Grounded(recs, Best(recs, t)) \subseteq out
  BY PassKeepsGrounded DEF LoopState
<1>2. Grounded(recs, Best(recs, t)) \subseteq Items(rest)
  BY <1>1 DEF LoopState, Items
<1>3. ASSUME NEW c \in Best(recs, t), ~IsFeature(recs, c.item)
      PROVE  c \in rest
  <2>1. c \in in /\ c.item \in Items(in)
    BY <1>3 DEF LoopState, Items
  <2> QED
    BY <1>3, <2>1, PassKeepsOthers
<1> QED
  BY <1>2, <1>3 DEF LoopState

\* When a pass drops nothing, what is in is what survives.
LEMMA LoopEnds ==
  ASSUME NEW recs, NEW t, IsRecords(recs, t), NEW in, LoopState(recs, t, in),
         Items(in) \in Pass(recs, Items(in))
  PROVE  in = Surviving(recs, t)
<1> DEFINE best == Best(recs, t)
<1>1. in \subseteq best /\ best \subseteq Candidates(recs, t)
  BY BestIsIn DEF LoopState
<1>2. ASSUME NEW c \in in PROVE c \in Surviving(recs, t)
  <2>1. c.item \in Items(in) /\ Items(in) \subseteq Items(best)
    BY <1>1 DEF Items
  <2>2. IsFeature(recs, c.item) => c.item \in Grounded(recs, best)
    BY <1>1, <2>1, FixedPassIsGrounded
  <2> QED
    BY <1>1, <2>2 DEF Surviving
<1>3. ASSUME NEW c \in Surviving(recs, t) PROVE c \in in
  <2>1. c \in best
    BY BestIsIn
  <2>2. CASE ~IsFeature(recs, c.item)
    BY <2>1, <2>2 DEF LoopState
  <2>3. CASE IsFeature(recs, c.item)
    <3>1. c.item \in Items(in)
      BY <2>3 DEF Surviving, LoopState
    <3>2. PICK d \in in : d.item = c.item
      BY <3>1 DEF Items
    <3> QED
      BY <1>1, <2>1, <3>2, OneCandidatePerItem
  <2> QED
    BY <2>2, <2>3
<1> QED
  BY <1>2, <1>3

\* Then everything but the briefs is settled.
LEMMA LoopSettles ==
  ASSUME NEW recs, NEW t, IsRecords(recs, t), NEW v, LoopVerdict(v, recs, t, Surviving(recs, t))
  PROVE  Settled(With(v, Selected(Surviving(recs, t))), recs, t)
<1> DEFINE cands == Candidates(recs, t)
           in == Surviving(recs, t)
           sel == Selected(in)
           w == With(v, sel)
<1>1. in \subseteq Best(recs, t) /\ in \subseteq cands
  BY BestIsIn
<1>2. DOMAIN sel = Items(in)
  BY DEF Selected
<1>3. \A c \in in : c.item \in DOMAIN sel
  BY <1>2 DEF Items
<1>4. \A c \in in : sel[c.item] = Included(c.score)
  <2> SUFFICES ASSUME NEW c \in in PROVE sel[c.item] = Included(c.score)
    OBVIOUS
  <2>1. CandidateFor(in, c.item) = c
    BY <1>1, FoundByItem
  <2> QED
    BY <1>3, <2>1 DEF Selected
<1> HIDE DEF sel
<1>5. /\ DOMAIN w = DOMAIN v \cup DOMAIN sel
      /\ \A i \in DOMAIN sel : w[i] = sel[i]
      /\ \A i \in DOMAIN v : i \notin DOMAIN sel => w[i] = v[i]
      /\ w = [i \in DOMAIN w |-> w[i]]
  BY WithForm
<1> HIDE DEF w
<1>6. DOMAIN w = DOMAIN Unranked(recs, t) \cup Items(cands)
  BY <1>1, <1>2, <1>5 DEF LoopVerdict, Items
<1>7. \A i \in DOMAIN Unranked(recs, t) : i \in DOMAIN v /\ i \notin DOMAIN sel
  BY <1>1, <1>2, UnrankedApart DEF LoopVerdict, Items
<1>8. \A c \in cands \ in : c.item \in DOMAIN v /\ c.item \notin DOMAIN sel
  BY <1>1, <1>2, OneCandidatePerItem DEF LoopVerdict, Items
<1>9. /\ \A i \in DOMAIN Unranked(recs, t) : w[i] = v[i]
      /\ \A c \in cands \ in : w[c.item] = v[c.item]
      /\ \A c \in in : w[c.item] = Included(c.score)
  BY <1>3, <1>4, <1>5, <1>7, <1>8
<1>10. Exclusions(w, recs, t, in)
  BY <1>1, <1>9, BestIsIn DEF LoopVerdict, Exclusions
<1> QED
  BY <1>5, <1>6, <1>9, <1>10 DEF Settled, w, sel, in

----------------------------------------------------------------------------
(* The inductive invariant.                                                *)

\* The rows the contract lets in.
ValidRows ==
  UNION {{[source |-> s, bundle |-> b] : b \in {x \in Offers[s] : ValidBundle(x)}} : s \in Sources}

\* The selection works on records as they were at its instant, and has decided
\* what those records decide.
SelectionInv ==
  /\ pc # "idle" => IsRecords(records, at)
  /\ pc = "closing" => LoopState(records, at, kept) /\ LoopVerdict(verdict, records, at, kept)
  /\ pc = "briefs" => Settled(verdict, records, at)
  /\ pc = "done" => Judged(verdict, records, at)

\* So did the one before it, no later.
LastInv ==
  last.at >= 0 => /\ last.at <= clock
                  /\ IsRecords(last.records, last.at)
                  /\ Judged(last.verdict, last.records, last.at)

\* The inductive invariant.
Inv ==
  /\ rows \in Seq(ValidRows)
  /\ clock \in 0..Horizon /\ at \in 0..Horizon /\ last.at \in -1..Horizon
  /\ pc \in {"idle", "closing", "briefs", "done"}
  /\ pc # "idle" => at = clock
  /\ pc = "idle" => verdict = <<>>
  /\ SelectionInv
  /\ LastInv

\* Every record getLatest returns is a bundle its source offered.
LEMMA LatestAreRecords ==
  ASSUME rows \in Seq(ValidRows), NEW w, NEW t
  PROVE  IsRecords(GetLatest(w, t), t)
<1> DEFINE recs == GetLatest(w, t)
           b(s) == rows[CHOOSE i \in NewestOf(s, w) : TRUE].bundle
<1>1. /\ DOMAIN recs = {x \in Sources : NewestOf(x, w) # {}}
      /\ \A s \in DOMAIN recs : recs[s] = [bundle |-> b(s), lifecycle |-> LifecycleAt(b(s), t)]
      /\ recs = [s \in DOMAIN recs |-> recs[s]]
  BY OneLifecycle DEF GetLatest
<1> HIDE DEF recs
<1>2. ASSUME NEW s \in DOMAIN recs PROVE b(s) \in Offers[s] /\ ValidBundle(b(s))
  <2>1. PICK i \in NewestOf(s, w) : i = (CHOOSE j \in NewestOf(s, w) : TRUE)
    BY <1>1, <1>2
  <2>2. i \in DOMAIN rows /\ rows[i].source = s
    BY DEF NewestOf
  <2>3. rows[i] \in ValidRows
    BY <2>2
  <2>4. PICK r \in Sources : \E x \in Offers[r] : ValidBundle(x) /\ rows[i] = [source |-> r, bundle |-> x]
    BY <2>3 DEF ValidRows
  <2>5. PICK x \in Offers[r] : ValidBundle(x) /\ rows[i] = [source |-> r, bundle |-> x]
    BY <2>4
  <2>6. r = s /\ rows[i].bundle = x
    BY <2>2, <2>5
  <2> QED
    BY <2>1, <2>5, <2>6
<1> HIDE DEF b
<1>3. ASSUME NEW s \in DOMAIN recs PROVE recs[s].bundle = b(s)
  <2>1. recs[s] = [bundle |-> b(s), lifecycle |-> LifecycleAt(b(s), t)]
    BY <1>1
  <2> QED
    BY <2>1
<1>4. recs = [s \in DOMAIN recs |->
                [bundle |-> recs[s].bundle, lifecycle |-> LifecycleAt(recs[s].bundle, t)]]
  BY <1>1, <1>3
<1> QED
  BY <1>1, <1>2, <1>3, <1>4 DEF IsRecords, recs

\* Inv holds at the start and every step keeps it.
LEMMA InvHolds == Spec => []Inv
<1>1. Init => Inv
  <2> SUFFICES ASSUME Init PROVE Inv
    OBVIOUS
  <2>1. rows \in Seq(ValidRows)
    BY DEF Init
  <2> QED
    BY <2>1, BoundsAreNatural DEF Init, Inv, SelectionInv, LastInv, NoRun
<1>2. Inv /\ [Next]_vars => Inv'
  <2> SUFFICES ASSUME Inv, [Next]_vars PROVE Inv'
    OBVIOUS
  <2> USE BoundsAreNatural
  <2>1. ASSUME NEW s \in Sources, NEW b \in Offers[s], Post(s, b) PROVE Inv'
    <3>1. [source |-> s, bundle |-> b] \in ValidRows
      <4>1. b \in {x \in Offers[s] : ValidBundle(x)}
        BY <2>1 DEF Post
      <4>2. [source |-> s, bundle |-> b] \in {[source |-> s, bundle |-> x] : x \in {y \in Offers[s] : ValidBundle(y)}}
        BY <4>1
      <4> QED
        BY <4>2, Zenon DEF ValidRows
    <3>2. rows' \in Seq(ValidRows)
      BY <2>1, <3>1 DEF Post, Inv
    <3> QED
      BY <2>1, <3>2 DEF Post, Selection, Inv, SelectionInv, LastInv
  <2>2. ASSUME Tick PROVE Inv'
    BY <2>2 DEF Tick, Selection, Inv, SelectionInv, LastInv
  <2>3. ASSUME NEW w \in Windows, Begin(w) PROVE Inv'
    <3>1. IsRecords(GetLatest(w, clock), clock)
      BY LatestAreRecords DEF Inv
    <3>2. /\ pc' = "closing" /\ at' = clock /\ records' = GetLatest(w, clock)
          /\ kept' = Best(records', at')
          /\ verdict' = With(Unranked(records', at'), RankedOut(Candidates(records', at')))
          /\ UNCHANGED <<rows, clock, last>>
      BY <2>3 DEF Begin, Best
    <3>3. IsRecords(records', at')
      BY <3>1, <3>2
    <3>4. LoopState(records', at', kept') /\ LoopVerdict(verdict', records', at', kept')
      BY <3>2, <3>3, LoopBegins
    <3> QED
      BY <3>2, <3>3, <3>4 DEF Inv, SelectionInv, LastInv
  <2>4. ASSUME ClosurePass PROVE Inv'
    <3>1. PICK out \in Pass(records, Items(kept)) : kept' = {c \in kept : c.item \in out}
      BY <2>4 DEF ClosurePass
    <3>2. /\ IsRecords(records, at) /\ LoopState(records, at, kept)
          /\ LoopVerdict(verdict, records, at, kept)
      BY <2>4 DEF ClosurePass, Inv, SelectionInv
    <3>3. UNCHANGED <<rows, clock, at, records, last>> /\ pc = "closing"
      BY <2>4 DEF ClosurePass
    <3>4. CASE kept' = kept
      <4>1. pc' = "briefs" /\ verdict' = With(verdict, Selected(kept))
        BY <2>4, <3>4 DEF ClosurePass
      <4>2. Items(kept) \subseteq out
        BY <3>1, <3>4 DEF Items
      <4>3. out = Items(kept)
        BY <4>2, PassKeepsOthers
      <4>4. kept = Surviving(records, at)
        BY <3>1, <3>2, <4>3, LoopEnds
      <4>5. Settled(verdict', records, at)
        BY <3>2, <4>1, <4>4, LoopSettles
      <4> QED
        BY <3>2, <3>3, <4>1, <4>5 DEF Inv, SelectionInv, LastInv
    <3>5. CASE kept' # kept
      <4>1. pc' = pc /\ verdict' = With(verdict, Dropped(kept \ kept'))
        BY <2>4, <3>5 DEF ClosurePass
      <4>2. PICK rest : rest = kept'
        OBVIOUS
      <4>3. LoopState(records, at, rest)
        BY <3>1, <3>2, <4>2, LoopGoesOn
      <4>4. LoopVerdict(With(verdict, Dropped(kept \ rest)), records, at, rest)
        BY <3>1, <3>2, <4>2, LoopDrops
      <4>5. LoopState(records, at, kept') /\ LoopVerdict(verdict', records, at, kept')
        BY <4>1, <4>2, <4>3, <4>4
      <4> QED
        BY <3>2, <3>3, <4>1, <4>5 DEF Inv, SelectionInv, LastInv
    <3> QED
      BY <3>4, <3>5
  <2>5. ASSUME JudgeBriefs PROVE Inv'
    <3>1. /\ pc = "briefs" /\ pc' = "done" /\ UNCHANGED <<rows, clock, at, records, kept, last>>
          /\ verdict' = Judgement(verdict, records, at)
      BY <2>5 DEF JudgeBriefs, Judgement
    <3>2. IsRecords(records, at) /\ Settled(verdict, records, at)
      BY <3>1 DEF Inv, SelectionInv
    <3>3. Judged(verdict', records, at)
      BY <3>1, <3>2 DEF Judged
    <3> QED
      BY <3>1, <3>2, <3>3 DEF Inv, SelectionInv, LastInv
  <2>6. ASSUME Return PROVE Inv'
    <3>1. /\ pc' = "idle" /\ at' = 0 /\ verdict' = <<>> /\ UNCHANGED <<rows, clock>>
          /\ last' = [at |-> at, records |-> records, verdict |-> verdict]
      BY <2>6 DEF Return
    <3>2. IsRecords(records, at) /\ Judged(verdict, records, at) /\ at = clock
      BY <2>6 DEF Return, Inv, SelectionInv
    <3>3. last'.at = at /\ last'.records = records /\ last'.verdict = verdict
      BY <3>1
    <3>4. LastInv'
      BY <3>1, <3>2, <3>3 DEF LastInv, Inv
    <3> QED
      BY <3>1, <3>3, <3>4 DEF Inv, SelectionInv
  <2>7. ASSUME UNCHANGED vars PROVE Inv'
    BY <2>7 DEF vars, Inv, SelectionInv, LastInv
  <2> QED
    BY <2>1, <2>2, <2>3, <2>4, <2>5, <2>6, <2>7 DEF Next
<1> QED
  BY <1>1, <1>2, PTL DEF Spec

----------------------------------------------------------------------------
(* Sums of scores.                                                         *)

\* A set of naturals has a least member.
LEMMA LeastNatural ==
  ASSUME NEW S, S \subseteq Nat, S # {}
  PROVE  \E n \in S : \A m \in S : n <= m
<1>1. PICK top \in S : TRUE
  OBVIOUS
<1> DEFINE T        == {y \in S : y <= top}
           Below(y) == {z \in T : z <= y}
           F        == {Below(y) : y \in T}
           R        == StrictSubsetOrdering(T)
<1>2. IsFiniteSet(T)
  BY <1>1, FS_BoundedSetOfNaturals
<1>3. F \subseteq FiniteSubsetsOf(T) /\ F # {}
  <2>1. \A y \in T : IsFiniteSet(Below(y)) /\ Below(y) \in SUBSET T
    BY <1>2, FS_Subset
  <2>2. T # {}
    BY <1>1
  <2> QED
    BY <2>1, <2>2 DEF FiniteSubsetsOf
<1>4. \E U \in F : \A V \in F : ~ (<<V, U>> \in R)
  <2> HIDE DEF F, R
  <2>1. IsWellFoundedOn(R, FiniteSubsetsOf(T))
    BY FS_StrictSubsetOrderingWellFounded DEF R
  <2> QED
    BY <1>3, <2>1, WFMin
<1>5. PICK m \in T : \A V \in F : ~ (<<V, Below(m)>> \in R)
  BY <1>4
<1>6. \A y \in T : m <= y
  <2>0. T \subseteq Nat /\ m \in Nat
    OBVIOUS
  <2> SUFFICES ASSUME NEW y \in T, y < m PROVE FALSE
    BY <2>0
  <2>1. Below(y) \subseteq Below(m) /\ m \in Below(m) /\ m \notin Below(y)
    BY <2>0
  <2>2. <<Below(y), Below(m)>> \in R
    BY <2>1 DEF StrictSubsetOrdering
  <2> QED
    BY <1>5, <2>2
<1>7. m \in S /\ \A y \in S : m <= y
  BY <1>1, <1>6
<1> QED
  BY <1>7

\* The step of a sum over the scores: a set is summed by taking out one item.
First(s) == CHOOSE x \in s : TRUE
IsSum(g, scores, D) ==
  g = [s \in D |-> IF s = {} THEN 0 ELSE scores[First(s)] + g[s \ {First(s)}]]

\* The fold behind Total is such a sum.
LEMMA TotalForm ==
  ASSUME NEW scores
  PROVE  Total(scores) = (CHOOSE g : IsSum(g, scores, SUBSET DOMAIN scores))[DOMAIN scores]
  BY DEF Total, FoldFunction, FoldFunctionOnSet, MapThenFoldSet, IsSum, First

\* There is one: over the sets of n + 1 items it is built from one over those of
\* n items, and there would be a least n without.
LEMMA SumExists ==
  ASSUME NEW scores, IsFiniteSet(DOMAIN scores)
  PROVE  \E g : IsSum(g, scores, SUBSET DOMAIN scores)
<1> DEFINE C == DOMAIN scores
           Small(n) == {s \in SUBSET C : Cardinality(s) <= n}
           bad == {n \in Nat : ~\E g : IsSum(g, scores, Small(n))}
<1>0. \A s \in SUBSET C : /\ IsFiniteSet(s) /\ Cardinality(s) \in Nat /\ Cardinality(s) <= Cardinality(C)
                          /\ Cardinality(s) = 0 <=> s = {}
  BY FS_Subset, FS_CardinalityType, FS_EmptySet
<1>1. \A s \in SUBSET C : s # {} => /\ s \ {First(s)} \in SUBSET C
                                    /\ Cardinality(s \ {First(s)}) = Cardinality(s) - 1
                                    /\ First(s) \in s
  BY <1>0, FS_RemoveElement DEF First
<1>2. 0 \notin bad
  <2> DEFINE g == [s \in Small(0) |-> 0]
  <2>1. IsSum(g, scores, Small(0))
    BY <1>0 DEF IsSum
  <2> QED
    BY <2>1
<1>3. ASSUME NEW n \in Nat, NEW g, IsSum(g, scores, Small(n))
      PROVE  \E h : IsSum(h, scores, Small(n + 1))
  <2> DEFINE h == [s \in Small(n + 1) |-> IF s = {} THEN 0 ELSE scores[First(s)] + g[s \ {First(s)}]]
  <2>1. ASSUME NEW s \in Small(n + 1), s # {} PROVE h[s \ {First(s)}] = g[s \ {First(s)}]
    <3>1. PICK u : u = s \ {First(s)}
      OBVIOUS
    <3>2. u \in Small(n) /\ u \in Small(n + 1)
      BY <1>0, <1>1, <2>1, <3>1
    <3>3. h[u] = IF u = {} THEN 0 ELSE scores[First(u)] + g[u \ {First(u)}]
      BY <3>2
    <3>4. g[u] = IF u = {} THEN 0 ELSE scores[First(u)] + g[u \ {First(u)}]
      BY <1>3, <3>2 DEF IsSum
    <3> QED
      BY <3>1, <3>3, <3>4
  <2>2. IsSum(h, scores, Small(n + 1))
    BY <2>1 DEF IsSum
  <2> QED
    BY <2>2
<1>4. bad = {}
  <2> SUFFICES ASSUME bad # {} PROVE FALSE
    OBVIOUS
  <2>1. PICK n \in bad : \A m \in bad : n <= m
    <3> HIDE DEF bad
    <3>1. bad \subseteq Nat
      BY DEF bad
    <3> QED
      BY <3>1, LeastNatural
  <2>2. n - 1 \in Nat /\ n - 1 \notin bad
    <3>1. n \in Nat /\ n # 0
      BY <1>2, <2>1
    <3> HIDE DEF bad
    <3> QED
      BY <2>1, <3>1
  <2>3. PICK g : IsSum(g, scores, Small(n - 1))
    BY <2>2
  <2>4. PICK m \in Nat : m = n - 1 /\ n = m + 1
    BY <2>1, <2>2
  <2>5. \E h : IsSum(h, scores, Small(m + 1))
    <3> HIDE DEF Small
    <3> QED
      BY <1>3, <2>3, <2>4
  <2> QED
    BY <2>1, <2>4, <2>5
<1>5. Cardinality(C) \in Nat /\ Small(Cardinality(C)) = SUBSET C
  BY <1>0
<1> QED
  BY <1>4, <1>5

\* A sum of naturals is a natural, no less than any of them.
LEMMA TotalBounds ==
  ASSUME NEW scores, IsFiniteSet(DOMAIN scores), \A x \in DOMAIN scores : scores[x] \in Nat
  PROVE  Total(scores) \in Nat /\ \A x \in DOMAIN scores : scores[x] <= Total(scores)
<1> DEFINE C == DOMAIN scores
<1>1. PICK g : IsSum(g, scores, SUBSET C) /\ Total(scores) = g[C]
  <2>1. PICK g : g = (CHOOSE x : IsSum(x, scores, SUBSET C))
    OBVIOUS
  <2>2. IsSum(g, scores, SUBSET C)
    BY <2>1, SumExists
  <2> QED
    BY <2>1, <2>2, TotalForm
<1> DEFINE good(s) == g[s] \in Nat /\ \A x \in s : scores[x] <= g[s]
           bad == {n \in Nat : \E s \in SUBSET C : Cardinality(s) = n /\ ~good(s)}
<1>2. \A s \in SUBSET C : IsFiniteSet(s) /\ Cardinality(s) \in Nat
  BY FS_Subset, FS_CardinalityType
<1>3. ASSUME NEW n \in bad, \A m \in bad : n <= m PROVE FALSE
  <2>1. PICK s \in SUBSET C : Cardinality(s) = n /\ ~good(s)
    OBVIOUS
  <2>2. CASE s = {}
    BY <1>1, <2>1, <2>2 DEF IsSum
  <2>3. CASE s # {}
    <3>1. PICK x \in s : x = First(s)
      BY <2>3 DEF First
    <3>2. PICK u : u = s \ {x}
      OBVIOUS
    <3>3. u \in SUBSET C /\ Cardinality(u) = n - 1
      BY <1>2, <2>1, <3>1, <3>2, FS_RemoveElement
    <3>4. good(u)
      <4>1. Cardinality(u) \in Nat
        BY <1>2, <3>3
      <4>2. n - 1 \notin bad
        BY <1>3, <3>3, <4>1
      <4> QED
        BY <3>3, <4>1, <4>2
    <3>5. g[s] = scores[x] + g[u]
      BY <1>1, <2>3, <3>1, <3>2 DEF IsSum
    <3>6. scores[x] \in Nat
      BY <3>1
    <3>7. \A y \in s : y = x \/ y \in u
      BY <3>2
    <3>8. \A y \in u : scores[y] \in Nat
      BY <3>3
    <3>9. g[s] \in Nat /\ scores[x] <= g[s] /\ \A y \in u : scores[y] <= g[s]
      BY <3>4, <3>5, <3>6, <3>8
    <3> QED
      BY <2>1, <3>7, <3>9
  <2> QED
    BY <2>2, <2>3
<1>4. bad = {}
  <2> SUFFICES ASSUME bad # {} PROVE FALSE
    OBVIOUS
  <2>1. bad \subseteq Nat
    OBVIOUS
  <2> HIDE DEF bad
  <2>2. PICK n \in bad : \A m \in bad : n <= m
    BY <2>1, LeastNatural
  <2> QED
    BY <1>3, <2>2
<1>5. good(C)
  BY <1>2, <1>4
<1> QED
  BY <1>1, <1>5

\* The quotient of naturals is bounded by any factor that covers it.
LEMMA QuotientBound ==
  ASSUME NEW x \in Nat, NEW n \in Nat, n > 0, NEW k \in Nat, x <= k * n
  PROVE  x \div n \in 0..k
<1> DEFINE q == x \div n
<1>1. q \in Int /\ n * q <= x /\ x < n * (q + 1)
  OBVIOUS
<1> HIDE DEF q
<1>2. q >= 0
  <2> SUFFICES ASSUME q + 1 <= 0 PROVE FALSE
    BY <1>1
  <2>1. n * (q + 1) <= 0
    BY <1>1
  <2> QED
    BY <1>1, <2>1
<1>3. q <= k
  <2> SUFFICES ASSUME q >= k + 1 PROVE FALSE
    BY <1>1
  <2>1. n * q >= n * (k + 1)
    BY <1>1
  <2>2. n * (k + 1) = k * n + n
    OBVIOUS
  <2> QED
    BY <1>1, <2>1, <2>2
<1> QED
  BY <1>1, <1>2, <1>3 DEF q

----------------------------------------------------------------------------
(* Types: every score is a share of the full score.                        *)

\* The product of four fractions is a fraction.
LEMMA ScoreBounds ==
  ASSUME NEW s \in Sources, NEW conf \in 0..Bps, NEW prov \in 0..Bps, NEW weight \in 0..Bps
  PROVE  Score(s, conf, prov, weight) \in 0..Bps
<1>1. Bps \in Nat /\ Bps > 0 /\ SourceQuality[s] \in 0..Bps
  BY PolicyIsValid
<1>2. \A a, b, k, l \in Nat : a <= k /\ b <= l => a * b \in Nat /\ k * l \in Nat /\ a * b <= k * l
  <2> SUFFICES ASSUME NEW a \in Nat, NEW b \in Nat, NEW k \in Nat, NEW l \in Nat, a <= k, b <= l
               PROVE  a * b \in Nat /\ k * l \in Nat /\ a * b <= k * l
    OBVIOUS
  <2>1. a * b <= k * b /\ k * b <= k * l
    OBVIOUS
  <2> QED
    BY <2>1
<1>3. \A k, l \in Nat : k > 0 /\ l > 0 => k * l > 0
  OBVIOUS
<1> DEFINE q == SourceQuality[s]
<1>4. conf * q \in Nat /\ Bps * Bps \in Nat /\ conf * q <= Bps * Bps /\ Bps * Bps > 0
  BY <1>1, <1>2, <1>3
<1>5. /\ (conf * q) * prov \in Nat /\ (Bps * Bps) * Bps \in Nat
      /\ (conf * q) * prov <= (Bps * Bps) * Bps /\ (Bps * Bps) * Bps > 0
  BY <1>1, <1>2, <1>3, <1>4
<1>6. ((conf * q) * prov) * weight \in Nat /\ ((conf * q) * prov) * weight <= ((Bps * Bps) * Bps) * Bps
  BY <1>1, <1>2, <1>5
<1>7. ((Bps * Bps) * Bps) * Bps = Bps * ((Bps * Bps) * Bps)
  BY <1>1, <1>5
<1>8. (((conf * q) * prov) * weight) \div ((Bps * Bps) * Bps) \in 0..Bps
  BY <1>1, <1>5, <1>6, <1>7, QuotientBound
<1> QED
  BY <1>8 DEF Score

\* A candidate scores a share of the full score.
LEMMA CandidateScore ==
  ASSUME NEW recs, NEW t, IsRecords(recs, t), NEW c \in Candidates(recs, t)
  PROVE  c.score \in 0..Bps
<1>1. PICK s \in Accepted(recs, t) :
        \/ \E f \in recs[s].bundle.features :
             f.status = "available" /\ c = FeatureCandidate(s, recs[s].bundle, f, t)
        \/ \E m \in recs[s].bundle.claims :
             ~ClaimExpired(m, t) /\ c = ClaimCandidate(s, recs[s].bundle, m, t)
  BY CandidateForm
<1> DEFINE b == recs[s].bundle
<1>2. s \in Sources /\ FollowsSchema(b)
  BY RecordBundle DEF Accepted, IsRecords
<1>3. BundleWeight(b, t) \in 0..Bps /\ \A f \in b.features : FeatureWeight(b, f, t) \in 0..Bps
  BY PolicyIsValid DEF BundleWeight, FeatureWeight
<1>4. \A m \in DOMAIN MethodQuality : MethodQuality[m] \in 0..Bps
  BY PolicyIsValid
<1>5. CASE \E f \in b.features : c = FeatureCandidate(s, b, f, t)
  <2>1. PICK f \in b.features : c = FeatureCandidate(s, b, f, t)
    BY <1>5
  <2>2. c.score = Score(s, f.conf, MethodQuality["calculator"], FeatureWeight(b, f, t))
    BY <2>1 DEF FeatureCandidate
  <2>3. f.conf \in 0..Bps /\ MethodQuality["calculator"] \in 0..Bps
    BY <1>2, <1>4, OffersFollowSchema DEF FollowsSchema
  <2> QED
    BY <1>2, <1>3, <2>2, <2>3, ScoreBounds
<1>6. CASE \E m \in b.claims : c = ClaimCandidate(s, b, m, t)
  <2>1. PICK m \in b.claims : c = ClaimCandidate(s, b, m, t)
    BY <1>6
  <2>2. c.score = Score(s, m.conf, MethodQuality[m.method], BundleWeight(b, t))
    BY <2>1 DEF ClaimCandidate
  <2>3. m.conf \in 0..Bps /\ m.method \in DOMAIN MethodQuality
    BY <1>2 DEF FollowsSchema
  <2> QED
    BY <1>2, <1>3, <1>4, <2>2, <2>3, ScoreBounds
<1> QED
  BY <1>1, <1>5, <1>6

\* A decision as it should be.
IsDecision(d) == d.status \in {"INCLUDED", "EXCLUDED"} /\ d.score \in NoScore..Bps

\* So decided, with a score in range, it is as it should be.
LEMMA DecisionType ==
  ASSUME NEW why, NEW score \in NoScore..Bps
  PROVE  IsDecision(Included(score)) /\ IsDecision(Excluded(why, score))
  BY DecisionFields DEF IsDecision

\* What a brief cites is decided when it is judged, and is no brief.
LEMMA CitesAreSettled ==
  ASSUME NEW recs, NEW t, IsRecords(recs, t), NEW w, Settled(w, recs, t),
         NEW s \in Accepted(recs, t), NEW id \in recs[s].bundle.cites
  PROVE  <<s, id>> \in DOMAIN w
<1> DEFINE b == recs[s].bundle
<1>1. FollowsSchema(b) /\ UniqueIds(b) /\ ResolvesIds(b)
  BY RecordBundle DEF Accepted, ValidBundle
<1>2. id \in FeatureIds(b) \cup ClaimIds(b) /\ id # Brief
  BY <1>1, OneItemPerId DEF ResolvesIds
<1>3. <<s, id>>[1] = s /\ <<s, id>>[2] = id
  OBVIOUS
<1>4. PICK j : j = <<s, id>>
  OBVIOUS
<1>5. j \in AllItems(recs) /\ j \notin Briefs(recs, t) /\ j[1] = s /\ j[2] = id
  BY <1>2, <1>3, <1>4, ItemForm, BriefIsUndecided DEF Accepted
<1>6. CASE WhyOut(recs, t, j[1], j[2]) = "none"
  BY <1>4, <1>5, <1>6, UndecidedItem DEF Settled
<1>7. CASE WhyOut(recs, t, j[1], j[2]) # "none"
  BY <1>4, <1>5, <1>7 DEF Settled, Unranked
<1> QED
  BY <1>6, <1>7

\* Settled decisions are decisions; what is included has its candidate's score.
LEMMA SettledTypes ==
  ASSUME NEW recs, NEW t, IsRecords(recs, t), NEW w, Settled(w, recs, t), NEW i \in DOMAIN w
  PROVE  /\ IsDecision(w[i])
         /\ w[i].status = "INCLUDED" => w[i].score \in 0..Bps
<1>1. NoScore \in NoScore..Bps /\ 0..Bps \subseteq NoScore..Bps
  BY PolicyIsValid DEF NoScore
<1>2. CASE i \in DOMAIN Unranked(recs, t)
  <2>1. PICK why : w[i] = Excluded(why, NoScore)
    BY <1>2 DEF Settled, Exclusions, Unranked
  <2> QED
    BY <1>1, <2>1, DecisionType, DecisionFields
<1>3. CASE i \in Items(Candidates(recs, t))
  <2>1. PICK c \in Candidates(recs, t) : c.item = i
    BY <1>3 DEF Items
  <2>2. w[i] = Included(c.score) \/ \E why : w[i] = Excluded(why, c.score)
    BY <2>1 DEF Settled, Exclusions
  <2>3. c.score \in 0..Bps
    BY CandidateScore
  <2> QED
    BY <1>1, <2>2, <2>3, DecisionType, DecisionFields
<1> QED
  BY <1>2, <1>3 DEF Settled

\* So are the judgements of the briefs: an average of scores, or the
\* publisher's confidence if that is less.
LEMMA JudgementTypes ==
  ASSUME NEW recs, NEW t, IsRecords(recs, t), NEW w, Settled(w, recs, t), NEW i \in Briefs(recs, t)
  PROVE  IsDecision(JudgeBrief(recs, w, i[1]))
<1> DEFINE s == i[1]
           b == recs[s].bundle
           scores == [x \in b.cites |-> w[<<s, x>>].score]
           sum == Total(scores)
<1>1. s \in Accepted(recs, t) /\ HasBrief(b)
  BY BriefIsUndecided
<1>2. CASE \E x \in b.cites : w[<<s, x>>].status # "INCLUDED"
  <2>1. JudgeBrief(recs, w, s) = Excluded("BRIEF_REFERENCES_EXCLUDED_EVIDENCE", NoScore)
    BY <1>2 DEF JudgeBrief
  <2>2. NoScore \in NoScore..Bps
    BY PolicyIsValid DEF NoScore
  <2> QED
    BY <2>1, <2>2, DecisionType
<1>3. CASE ~\E x \in b.cites : w[<<s, x>>].status # "INCLUDED"
  <2>1. \A x \in b.cites : w[<<s, x>>].score \in 0..Bps
    BY <1>1, <1>3, CitesAreSettled, SettledTypes
  <2>2. DOMAIN scores = b.cites /\ \A x \in DOMAIN scores : scores[x] \in Nat
    BY <2>1, PolicyIsValid
  <2>3. IsFiniteSet(b.cites)
    <3>1. FollowsSchema(b) /\ ResolvesIds(b)
      BY <1>1, RecordBundle DEF Accepted, ValidBundle
    <3>2. IsFiniteSet(FeatureIds(b)) /\ IsFiniteSet(ClaimIds(b))
      BY <3>1, IdsAreFinite
    <3> QED
      BY <3>1, <3>2, FS_Union, FS_Subset DEF ResolvesIds
  <2> HIDE DEF scores
  <2>4. sum \in Nat
    BY <2>2, <2>3, TotalBounds
  <2>5. Cardinality(b.cites) \in Nat /\ Cardinality(b.cites) > 0
    BY <1>1, <2>3, FS_CardinalityType, FS_EmptySet DEF HasBrief
  <2>6. sum \div Cardinality(b.cites) \in Nat
    <3>1. \A n \in Nat, k \in Nat : k > 0 => n <= n * k
      OBVIOUS
    <3> QED
      BY <2>4, <2>5, <3>1, QuotientBound
  <2>7. b.confidence \in 0..Bps
    BY <1>1, RecordBundle DEF Accepted, FollowsSchema
  <2>8. PICK mean \in Nat : mean = sum \div Cardinality(b.cites)
    BY <2>6
  <2>9. BriefScore(recs, w, s) = Min({b.confidence, mean})
    BY <2>8 DEF BriefScore, scores
  <2>10. Min({b.confidence, mean}) \in 0..Bps
    <3>1. \E x \in {b.confidence, mean} : \A y \in {b.confidence, mean} : x <= y
      BY <2>7, PolicyIsValid
    <3>2. PICK x : x = Min({b.confidence, mean})
      OBVIOUS
    <3>3. x \in {b.confidence, mean} /\ x <= b.confidence
      BY <3>1, <3>2 DEF Min
    <3> QED
      BY <2>7, <3>2, <3>3, PolicyIsValid
  <2>11. BriefScore(recs, w, s) \in NoScore..Bps
    BY <2>9, <2>10, PolicyIsValid DEF NoScore
  <2>12. \/ JudgeBrief(recs, w, s) = Included(BriefScore(recs, w, s))
         \/ JudgeBrief(recs, w, s) = Excluded("score_threshold", BriefScore(recs, w, s))
    BY <1>3 DEF JudgeBrief
  <2> QED
    BY <2>11, <2>12, DecisionType
<1> QED
  BY <1>2, <1>3

----------------------------------------------------------------------------
(* What the verdict says.                                                  *)

\* The decisions that are settled before the briefs are judged stand after it.
LEMMA SettledStands ==
  ASSUME NEW recs, NEW t, IsRecords(recs, t), NEW v, Judged(v, recs, t)
  PROVE  /\ DOMAIN v = AllItems(recs)
         /\ \E w : /\ Settled(w, recs, t)
                   /\ \A i \in Briefs(recs, t) : v[i] = JudgeBrief(recs, w, i[1])
                   /\ \A i \in DOMAIN w : i \notin Briefs(recs, t) /\ w[i] = v[i]
<1>1. PICK w : Settled(w, recs, t) /\ v = Judgement(w, recs, t)
  BY DEF Judged
<1> DEFINE briefs == [i \in Briefs(recs, t) |-> JudgeBrief(recs, w, i[1])]
<1>2. v = With(w, briefs)
  BY <1>1 DEF Judgement
<1>3. DOMAIN briefs = Briefs(recs, t) /\ \A i \in Briefs(recs, t) : briefs[i] = JudgeBrief(recs, w, i[1])
  OBVIOUS
<1> HIDE DEF briefs
<1>4. /\ DOMAIN v = DOMAIN w \cup Briefs(recs, t)
      /\ \A i \in Briefs(recs, t) : v[i] = briefs[i]
      /\ \A i \in DOMAIN w : i \notin Briefs(recs, t) => v[i] = w[i]
  <2>1. /\ DOMAIN With(w, briefs) = DOMAIN w \cup DOMAIN briefs
        /\ \A i \in DOMAIN briefs : With(w, briefs)[i] = briefs[i]
        /\ \A i \in DOMAIN w : i \notin DOMAIN briefs => With(w, briefs)[i] = w[i]
    BY DEF With
  <2> QED
    BY <1>2, <1>3, <2>1
<1>5. \A i \in DOMAIN w : i \notin Briefs(recs, t)
  <2>1. \A i \in DOMAIN Unranked(recs, t) : WhyOut(recs, t, i[1], i[2]) # "none"
    BY DEF Unranked
  <2>2. \A c \in Candidates(recs, t) : c.item \notin Briefs(recs, t)
    BY CandidateIsUndecided, BriefIsUndecided
  <2> QED
    BY <1>1, <2>1, <2>2, BriefIsUndecided DEF Settled, Items
<1>6. DOMAIN v = AllItems(recs)
  <2>1. DOMAIN w \subseteq AllItems(recs)
    BY <1>1, CandidateIsUndecided DEF Settled, Items, Unranked
  <2>2. Briefs(recs, t) \subseteq AllItems(recs)
    BY BriefIsUndecided
  <2>3. ASSUME NEW i \in AllItems(recs) PROVE i \in DOMAIN w \cup Briefs(recs, t)
    <3>1. CASE WhyOut(recs, t, i[1], i[2]) = "none"
      BY <1>1, <3>1, UndecidedItem DEF Settled
    <3>2. CASE WhyOut(recs, t, i[1], i[2]) # "none"
      BY <1>1, <3>2 DEF Settled, Unranked
    <3> QED
      BY <3>1, <3>2
  <2> QED
    BY <1>4, <2>1, <2>2, <2>3
<1> QED
  BY <1>1, <1>3, <1>4, <1>5, <1>6

\* What is decided of each kind of item.
LEMMA VerdictForm ==
  ASSUME NEW recs, NEW t, IsRecords(recs, t), NEW v, Judged(v, recs, t)
  PROVE  /\ \A i \in AllItems(recs) : WhyOut(recs, t, i[1], i[2]) # "none" =>
              v[i] = Excluded(WhyOut(recs, t, i[1], i[2]), NoScore)
         /\ \A c \in Candidates(recs, t) \ Best(recs, t) :
              v[c.item] = Excluded(IF c \in Eligible(Candidates(recs, t)) THEN "FAMILY_SELECTION_LIMIT"
                                   ELSE "score_threshold", c.score)
         /\ \A c \in Best(recs, t) \ Surviving(recs, t) :
              v[c.item] = Excluded("FEATURE_DEPENDENCY_EXCLUDED", c.score)
         /\ \A c \in Surviving(recs, t) : v[c.item] = Included(c.score)
<1>1. PICK w : /\ Settled(w, recs, t)
               /\ \A i \in DOMAIN w : w[i] = v[i]
  BY SettledStands
<1>2. \A i \in DOMAIN Unranked(recs, t) : v[i] = Unranked(recs, t)[i]
  BY <1>1 DEF Settled, Exclusions
<1>3. \A c \in Candidates(recs, t) : c.item \in DOMAIN w
  BY <1>1 DEF Settled, Items
<1> QED
  BY <1>1, <1>2, <1>3, BestIsIn DEF Settled, Exclusions, Unranked

\* A candidate is selected when it survives.
LEMMA SelectedCandidate ==
  ASSUME NEW recs, NEW t, IsRecords(recs, t), NEW v, Judged(v, recs, t), NEW c \in Candidates(recs, t)
  PROVE  v[c.item].status = "INCLUDED" <=> c \in Surviving(recs, t)
<1>1. CASE c \in Surviving(recs, t)
  BY <1>1, VerdictForm, DecisionFields
<1>2. CASE c \in Best(recs, t) \ Surviving(recs, t)
  BY <1>2, VerdictForm, DecisionFields
<1>3. CASE c \notin Best(recs, t)
  BY <1>3, VerdictForm, DecisionFields
<1> QED
  BY <1>1, <1>2, <1>3

\* Only survivors and briefs are selected, and no feature is a brief.
LEMMA SelectedItem ==
  ASSUME NEW recs, NEW t, IsRecords(recs, t), NEW v, Judged(v, recs, t),
         NEW i \in DOMAIN v, v[i].status = "INCLUDED"
  PROVE  /\ i \in AllItems(recs)
         /\ \/ \E c \in Surviving(recs, t) : c.item = i /\ i[2] # Brief
            \/ i \in Briefs(recs, t) /\ i[2] = Brief /\ ~IsFeature(recs, i)
<1>1. i \in AllItems(recs)
  BY SettledStands
<1>2. WhyOut(recs, t, i[1], i[2]) = "none"
  BY <1>1, VerdictForm, DecisionFields
<1>3. CASE i \in Items(Candidates(recs, t))
  <2>1. PICK c \in Candidates(recs, t) : c.item = i
    BY <1>3 DEF Items
  <2> QED
    BY <1>1, <2>1, SelectedCandidate, CandidateIsUndecided
<1>4. CASE i \in Briefs(recs, t)
  <2>1. i[1] \in Accepted(recs, t) /\ i[2] = Brief
    BY <1>4, BriefIsUndecided
  <2>2. FollowsSchema(recs[i[1]].bundle) /\ UniqueIds(recs[i[1]].bundle)
    BY <2>1, RecordBundle DEF Accepted, ValidBundle
  <2>3. ~IsFeature(recs, i)
    BY <2>1, <2>2, OneItemPerId, FeatureById
  <2> QED
    BY <1>1, <1>4, <2>1, <2>3
<1> QED
  BY <1>1, <1>2, <1>3, <1>4, UndecidedItem

----------------------------------------------------------------------------
(* The theorems.                                                           *)

\* What a finished selection knows.
LEMMA DoneInv ==
  ASSUME Inv, pc = "done"
  PROVE  IsRecords(records, at) /\ Judged(verdict, records, at)
  BY DEF Inv, SelectionInv

\* The features selected are those that can be built up from the ranked ones,
\* for any lineage without circles and however the passes went.
THEOREM ClosureExact == Spec => []ClosureIsExact
<1>1. Inv => ClosureIsExact
  <2> SUFFICES ASSUME Inv, pc = "done"
               PROVE  {i \in DOMAIN verdict : In(i) /\ IsFeature(records, i)}
                        = Grounded(records, Best(records, at))
    BY DEF ClosureIsExact, Best
  <2>1. IsRecords(records, at) /\ Judged(verdict, records, at)
    BY DoneInv
  <2>2. ASSUME NEW i \in DOMAIN verdict, In(i), IsFeature(records, i)
        PROVE  i \in Grounded(records, Best(records, at))
    BY <2>1, <2>2, SelectedItem DEF In, Surviving
  <2>3. ASSUME NEW i \in Grounded(records, Best(records, at))
        PROVE  i \in DOMAIN verdict /\ In(i) /\ IsFeature(records, i)
    <3>1. IsFeature(records, i) /\ i \in Items(Best(records, at))
      BY DEF Grounded, Features
    <3>2. PICK c \in Best(records, at) : c.item = i
      BY <3>1 DEF Items
    <3>3. c \in Surviving(records, at) /\ c \in Candidates(records, at)
      BY <3>2, BestIsIn DEF Surviving
    <3> QED
      BY <2>1, <3>1, <3>2, <3>3, SelectedCandidate, SettledStands, CandidateIsUndecided DEF In
  <2> QED
    BY <2>2, <2>3
<1> QED
  BY <1>1, InvHolds, PTL

\* Every item there was is decided on, and none for a mismatch of lifecycles.
THEOREM NothingIsLost == Spec => []NothingLost
<1>1. Inv => NothingLost
  <2> SUFFICES ASSUME Inv, pc = "done"
               PROVE  /\ DOMAIN verdict = AllItems(records)
                      /\ \A i \in DOMAIN verdict : verdict[i].why # "record_mismatch"
    BY DEF NothingLost
  <2>1. IsRecords(records, at) /\ Judged(verdict, records, at)
    BY DoneInv
  <2>2. DOMAIN verdict = AllItems(records)
    BY <2>1, SettledStands
  <2>3. \A s \in DOMAIN records : Rejection(s, records[s], at) # "record_mismatch"
    <3>1. \A s \in DOMAIN records : records[s].lifecycle = LifecycleAt(records[s].bundle, at)
      BY <2>1 DEF IsRecords
    <3> QED
      BY <3>1 DEF Rejection
  <2>4. ASSUME NEW i \in AllItems(records) PROVE verdict[i].why # "record_mismatch"
    <3>1. i[1] \in DOMAIN records
      BY ItemForm
    <3>2. CASE WhyOut(records, at, i[1], i[2]) # "none"
      <4>1. WhyOut(records, at, i[1], i[2]) # "record_mismatch"
        BY <2>3, <3>1 DEF WhyOut
      <4> QED
        BY <2>1, <3>2, <4>1, VerdictForm, DecisionFields
    <3>3. CASE i \in Items(Candidates(records, at))
      <4>1. PICK c \in Candidates(records, at) : c.item = i
        BY <3>3 DEF Items
      <4>2. CASE c \in Surviving(records, at)
        BY <2>1, <4>1, <4>2, VerdictForm, DecisionFields
      <4>3. CASE c \in Best(records, at) \ Surviving(records, at)
        BY <2>1, <4>1, <4>3, VerdictForm, DecisionFields
      <4>4. CASE c \notin Best(records, at)
        BY <2>1, <4>1, <4>4, VerdictForm, DecisionFields
      <4> QED
        BY <4>2, <4>3, <4>4
    <3>4. CASE i \in Briefs(records, at)
      <4>1. PICK w : verdict[i] = JudgeBrief(records, w, i[1])
        BY <2>1, <3>4, SettledStands
      <4> QED
        BY <4>1 DEF JudgeBrief, Included, Excluded
    <3> QED
      BY <2>1, <3>2, <3>3, <3>4, UndecidedItem
  <2> QED
    BY <2>2, <2>4
<1> QED
  BY <1>1, InvHolds, PTL

\* There are finitely many candidates.
LEMMA FinitelyManyCandidates ==
  ASSUME NEW recs, NEW t, IsRecords(recs, t)
  PROVE  IsFiniteSet(Candidates(recs, t))
<1>1. ASSUME NEW s \in Accepted(recs, t)
      PROVE  IsFiniteSet(CandidatesOf(s, recs[s].bundle, t))
  <2> DEFINE b == recs[s].bundle
             F == {x \in b.features : x.status = "available"}
             C == {x \in b.claims : ~ClaimExpired(x, t)}
             f == [x \in F |-> FeatureCandidate(s, b, x, t)]
             c == [x \in C |-> ClaimCandidate(s, b, x, t)]
  <2>1. FollowsSchema(b)
    BY RecordBundle DEF Accepted
  <2>2. IsFiniteSet(F) /\ IsFiniteSet(C)
    BY <2>1, FS_Subset DEF FollowsSchema
  <2>3. CandidatesOf(s, b, t) = {f[x] : x \in DOMAIN f} \cup {c[x] : x \in DOMAIN c}
    BY DEF CandidatesOf
  <2>4. /\ DOMAIN f = F /\ f = [x \in DOMAIN f |-> f[x]]
        /\ DOMAIN c = C /\ c = [x \in DOMAIN c |-> c[x]]
    OBVIOUS
  <2> HIDE DEF f, c, F, C
  <2>5. IsFiniteSet({f[x] : x \in DOMAIN f}) /\ IsFiniteSet({c[x] : x \in DOMAIN c})
    BY <2>2, <2>4, ImageIsFinite
  <2> QED
    BY <2>3, <2>5, FS_Union
<1> DEFINE of == [s \in Accepted(recs, t) |-> CandidatesOf(s, recs[s].bundle, t)]
<1>2. IsFiniteSet(Accepted(recs, t))
  BY BoundsAreNatural, FS_Subset DEF IsRecords, Accepted
<1>3. /\ DOMAIN of = Accepted(recs, t) /\ of = [s \in DOMAIN of |-> of[s]]
      /\ \A s \in DOMAIN of : IsFiniteSet(of[s])
      /\ Candidates(recs, t) = UNION {of[s] : s \in DOMAIN of}
  BY <1>1 DEF Candidates
<1> HIDE DEF of
<1>4. IsFiniteSet({of[s] : s \in DOMAIN of})
  BY <1>2, <1>3, ImageIsFinite
<1>5. \A T \in {of[s] : s \in DOMAIN of} : IsFiniteSet(T)
  BY <1>3
<1>6. IsFiniteSet(UNION {of[s] : s \in DOMAIN of})
  BY <1>4, <1>5, FS_UNION
<1> QED
  BY <1>3, <1>6

\* What outranks the stronger of two candidates outranks the weaker.
LEMMA OutranksWeaker ==
  ASSUME NEW e, NEW c, NEW d, e.score \in Int, c.score \in Int, d.score \in Int,
         c.score > d.score, Outranks(e, c)
  PROVE  Outranks(e, d)
<1>1. PICK i \in DOMAIN RankKey(e) :
        RankKey(e)[i] < RankKey(c)[i] /\ \A j \in 1..(i - 1) : RankKey(e)[j] = RankKey(c)[j]
  BY DEF Outranks, LexLess
<1>2. \A x : DOMAIN RankKey(x) = 1..5 /\ RankKey(x)[1] = -x.score
  BY DEF RankKey
<1>3. -e.score <= -c.score
  <2>1. CASE i = 1
    BY <1>1, <1>2, <2>1
  <2>2. CASE i # 1
    <3>1. 1 \in 1..(i - 1)
      BY <1>2, <2>2
    <3> QED
      BY <1>1, <1>2, <3>1
  <2> QED
    BY <2>1, <2>2
<1>4. RankKey(e)[1] < RankKey(d)[1]
  BY <1>2, <1>3
<1>5. 1 \in DOMAIN RankKey(e) /\ \A j \in 1..(1 - 1) : RankKey(e)[j] = RankKey(d)[j]
  BY <1>2
<1> QED
  BY <1>4, <1>5 DEF Outranks, LexLess

\* No item is left out for the limit of its family while a weaker one is in,
\* whatever the cap and the number of candidates.
THEOREM RankedRight == Spec => []NoBetterItemLeftOut
<1>1. Inv => NoBetterItemLeftOut
  <2> SUFFICES ASSUME Inv, pc = "done",
                      NEW c \in Candidates(records, at), NEW d \in Candidates(records, at),
                      c.family = d.family, In(d.item), verdict[c.item].why = "FAMILY_SELECTION_LIMIT"
               PROVE  c.score >= MinScore /\ c.score <= d.score
    BY DEF NoBetterItemLeftOut
  <2> DEFINE cands == Candidates(records, at)
             ahead(x) == {e \in Eligible(cands) : e.family = x.family /\ Outranks(e, x)}
  <2>1. IsRecords(records, at) /\ Judged(verdict, records, at)
    BY DoneInv
  <2>2. d \in Best(records, at)
    BY <2>1, SelectedCandidate, BestIsIn DEF In
  <2>3. c \notin Best(records, at) /\ c \in Eligible(cands)
    <3>1. c \notin Surviving(records, at)
      BY <2>1, VerdictForm, DecisionFields
    <3>2. c \notin Best(records, at) \ Surviving(records, at)
      BY <2>1, VerdictForm, DecisionFields
    <3>3. c \notin Best(records, at)
      BY <3>1, <3>2
    <3> QED
      BY <2>1, <3>3, VerdictForm, DecisionFields
  <2>4. Cardinality(ahead(d)) < Cap /\ ~(Cardinality(ahead(c)) < Cap)
    BY <2>2, <2>3 DEF Best, WithinCap
  <2>5. c.score \in Int /\ d.score \in Int /\ \A e \in Eligible(cands) : e.score \in Int
    BY <2>1, CandidateScore, PolicyIsValid DEF Eligible
  <2>6. c.score >= MinScore
    BY <2>3 DEF Eligible
  <2>7. ASSUME c.score > d.score PROVE FALSE
    <3>1. ahead(c) \in SUBSET ahead(d)
      BY <2>5, <2>7, OutranksWeaker
    <3>2. IsFiniteSet(ahead(d))
      BY <2>1, FinitelyManyCandidates, FS_Subset DEF Eligible
    <3> HIDE DEF ahead
    <3>3. Cardinality(ahead(c)) <= Cardinality(ahead(d)) /\ IsFiniteSet(ahead(c))
      BY <3>1, <3>2, FS_Subset
    <3>4. Cardinality(ahead(c)) \in Nat /\ Cardinality(ahead(d)) \in Nat
      BY <3>2, <3>3, FS_CardinalityType
    <3> QED
      BY <2>4, <3>3, <3>4, PolicyIsValid
  <2> QED
    BY <2>5, <2>6, <2>7
<1> QED
  BY <1>1, InvHolds, PTL

\* A brief that is selected rests on selected items of its bundle.
LEMMA BriefsRest ==
  ASSUME Inv, pc = "done"
  PROVE  BriefsRestOnSelected
<1> SUFFICES ASSUME NEW i \in DOMAIN verdict, i[2] = Brief, In(i)
             PROVE  /\ HasBrief(records[i[1]].bundle)
                    /\ \A id \in records[i[1]].bundle.cites : In(<<i[1], id>>)
  BY DEF BriefsRestOnSelected
<1> DEFINE s == i[1]
           b == records[s].bundle
<1>1. IsRecords(records, at) /\ Judged(verdict, records, at)
  BY DoneInv
<1>2. i \in Briefs(records, at)
  BY <1>1, SelectedItem DEF In
<1>3. s \in Accepted(records, at) /\ HasBrief(b)
  BY <1>1, <1>2, BriefIsUndecided
<1>4. PICK w : /\ Settled(w, records, at)
               /\ verdict[i] = JudgeBrief(records, w, s)
               /\ \A j \in DOMAIN w : w[j] = verdict[j]
  BY <1>1, <1>2, SettledStands
<1>5. ASSUME NEW id \in b.cites PROVE In(<<s, id>>)
  <2>1. w[<<s, id>>].status = "INCLUDED"
    <3>1. CASE \E x \in b.cites : w[<<s, x>>].status # "INCLUDED"
      <4>1. verdict[i] = Excluded("BRIEF_REFERENCES_EXCLUDED_EVIDENCE", NoScore)
        BY <1>4, <3>1 DEF JudgeBrief
      <4> QED
        BY <4>1, DecisionFields DEF In
    <3> QED
      BY <3>1
  <2>2. <<s, id>> \in DOMAIN w
    BY <1>1, <1>3, <1>4, CitesAreSettled
  <2> QED
    BY <1>4, <2>1, <2>2 DEF In
<1> QED
  BY <1>3, <1>5

\* A feature that is selected leads down its lineage to a listed source: the
\* selected features of any set closed under lineage are closed too, one of
\* them depends on none of the others, and that one uses a source.
LEMMA FeaturesRest ==
  ASSUME Inv, pc = "done"
  PROVE  FeaturesRestOnSources
<1>1. IsRecords(records, at) /\ Judged(verdict, records, at)
  BY DoneInv
<1> SUFFICES ASSUME NEW i \in DOMAIN verdict, In(i), IsFeature(records, i)
             PROVE  LET f == CHOOSE x \in FeatureOf(records, i) : TRUE
                        features == records[i[1]].bundle.features
                        closed(S) == \A g \in features : g.id \in S =>
                                       g.lineage \cap FeatureIds(records[i[1]].bundle) \subseteq S
                    IN \A S \in SUBSET FeatureIds(records[i[1]].bundle) :
                         f.id \in S /\ closed(S) =>
                           \E r \in SourceReferences, g \in features :
                             r.source = i[1] /\ r.selectedLineage /\ g.id \in S /\ r.ref \in g.lineage
  BY DEF FeaturesRestOnSources
<1> DEFINE s == i[1]
           b == records[s].bundle
           best == Best(records, at)
<1>2. PICK c \in Surviving(records, at) : c.item = i
  BY <1>1, SelectedItem DEF In
<1>3. c \in Candidates(records, at) /\ i = <<s, i[2]>> /\ s \in Accepted(records, at)
  BY <1>1, <1>2, BestIsIn, CandidateIsUndecided
<1>4. s \in DOMAIN records
  BY <1>3 DEF Accepted
<1>5. FollowsSchema(b) /\ ResolvesIds(b) /\ AcyclicLineage(b)
  BY <1>1, <1>4, RecordBundle DEF ValidBundle
<1>6. (CHOOSE x \in FeatureOf(records, i) : TRUE).id = i[2]
  BY DEF IsFeature, FeatureOf
<1> SUFFICES ASSUME NEW S \in SUBSET FeatureIds(b), i[2] \in S,
                    \A g \in b.features : g.id \in S => g.lineage \cap FeatureIds(b) \subseteq S
             PROVE  \E r \in SourceReferences, g \in b.features :
                      r.source = s /\ r.selectedLineage /\ g.id \in S /\ r.ref \in g.lineage
  BY <1>6
<1> DEFINE T == {id \in S : <<s, id>> \in Grounded(records, best)}
<1>7. i \in Grounded(records, best)
  BY <1>2 DEF Surviving
<1>8. i[2] \in T
  BY <1>3, <1>7
<1>9. PICK g \in b.features : g.id \in T /\ g.lineage \cap T = {}
  BY <1>5, <1>8 DEF AcyclicLineage
<1> DEFINE j == <<s, g.id>>
<1>10. DependsOn(records, j) \subseteq Grounded(records, best)
  BY <1>9, GroundedDependsOn
<1>11. g.lineage \cap FeatureIds(b) = {}
  <2> SUFFICES ASSUME NEW d \in g.lineage \cap FeatureIds(b) PROVE FALSE
    OBVIOUS
  <2>1. <<s, d>> \in DependsOn(records, j)
    BY <1>1, <1>4, DependsOnLineage
  <2>2. d \in T
    BY <1>9, <1>10, <2>1
  <2> QED
    BY <1>9, <2>2
<1>12. PICK r \in g.lineage : r \in b.refs
  BY <1>5, <1>11 DEF FollowsSchema, ResolvesIds
<1>13. j \in Using(s, r)
  BY <1>12 DEF Using
<1>14. In(j)
  <2>1. PICK e \in best : e.item = j
    BY <1>9 DEF Grounded, Features, Items
  <2>2. e \in Surviving(records, at) /\ e \in Candidates(records, at)
    BY <1>9, <2>1, BestIsIn DEF Surviving
  <2> QED
    BY <1>1, <2>1, <2>2, SelectedCandidate DEF In
<1> DEFINE ref == [source |-> s, ref |-> r,
                   selectedLineage |-> \E x \in Using(s, r) : In(x),
                   auditOnly |-> \E x \in Using(s, r) : ~In(x)]
<1>15. ref \in SourceReferences
  <2>1. r \in {x \in b.refs : Using(s, x) # {}}
    BY <1>12, <1>13
  <2> DEFINE listed(x) ==
        {[source |-> x, ref |-> y,
          selectedLineage |-> \E k \in Using(x, y) : In(k),
          auditOnly |-> \E k \in Using(x, y) : ~In(k)]
           : y \in {z \in records[x].bundle.refs : Using(x, z) # {}}}
  <2>2. SourceReferences = UNION {listed(x) : x \in DOMAIN records}
    BY DEF SourceReferences
  <2>3. ref \in listed(s)
    BY <2>1
  <2> HIDE DEF listed, ref
  <2> QED
    BY <1>4, <2>2, <2>3
<1>16. ref.source = s /\ ref.ref = r /\ ref.selectedLineage
  BY <1>13, <1>14
<1> QED
  BY <1>9, <1>12, <1>15, <1>16

\* No conclusion rests on nothing, for any bundles the contract accepts.
THEOREM ConclusionsRest == Spec => []ConclusionsRestOnSources
<1>1. Inv => ConclusionsRestOnSources
  BY BriefsRest, FeaturesRest DEF ConclusionsRestOnSources
<1> QED
  BY <1>1, InvHolds, PTL

----------------------------------------------------------------------------
(* The verdict is a function of the records and of the boundaries passed.  *)

\* Two instants with no boundary of the records between them.
Quiet(recs, t, u) == t <= u /\ \A x \in Boundaries(recs) : ~(t <= x /\ x < u)

\* They lie on the same side of every boundary.
LEMMA SameSide ==
  ASSUME NEW recs, NEW t \in Int, NEW u \in Int, Quiet(recs, t, u), NEW x \in Boundaries(recs), x \in Int
  PROVE  t <= x <=> u <= x
  BY DEF Quiet

\* So they give a bundle of the records the same lifecycle, weights and
\* expired claims.
LEMMA QuietBundle ==
  ASSUME NEW recs, NEW t \in Int, NEW u \in Int, Quiet(recs, t, u),
         NEW s \in DOMAIN recs, FollowsSchema(recs[s].bundle)
  PROVE  LET b == recs[s].bundle
         IN /\ LifecycleAt(b, t) = LifecycleAt(b, u)
            /\ BundleWeight(b, t) = BundleWeight(b, u)
            /\ \A f \in b.features :
                 f.status = "available" => FeatureWeight(b, f, t) = FeatureWeight(b, f, u)
            /\ \A c \in b.claims : ClaimExpired(c, t) <=> ClaimExpired(c, u)
<1> DEFINE b == recs[s].bundle
           bounds == {b.freshUntil, b.expiresAt}
                       \cup {f.freshUntil : f \in {x \in b.features : x.status = "available"}}
                       \cup {c.expiresAt : c \in b.claims}
<1>1. bounds \subseteq Boundaries(recs)
  BY DEF Boundaries
<1>2. bounds \subseteq Int
  BY DEF FollowsSchema
<1>3. \A x \in bounds : t <= x <=> u <= x
  BY <1>1, <1>2, SameSide
<1>4. LifecycleAt(b, t) = LifecycleAt(b, u)
  BY <1>3 DEF LifecycleAt
<1>5. BundleWeight(b, t) = BundleWeight(b, u)
  BY <1>4 DEF BundleWeight
<1>6. \A f \in b.features :
        f.status = "available" => FeatureWeight(b, f, t) = FeatureWeight(b, f, u)
  BY <1>3, <1>5 DEF FeatureWeight
<1>7. \A c \in b.claims : ClaimExpired(c, t) <=> ClaimExpired(c, u)
  <2> SUFFICES ASSUME NEW c \in b.claims PROVE ClaimExpired(c, t) <=> ClaimExpired(c, u)
    OBVIOUS
  <2>1. c.expiresAt \in bounds /\ c.expiresAt \in Int
    BY <1>2
  <2>2. t <= c.expiresAt <=> u <= c.expiresAt
    BY <1>3, <2>1
  <2> HIDE DEF bounds
  <2> QED
    BY <2>1, <2>2 DEF ClaimExpired
<1> QED
  BY <1>4, <1>5, <1>6, <1>7

\* And the records the same candidates and the same items out.
LEMMA QuietRecords ==
  ASSUME NEW recs, NEW t \in Int, NEW u \in Int, Quiet(recs, t, u), IsRecords(recs, t)
  PROVE  /\ Accepted(recs, t) = Accepted(recs, u)
         /\ Candidates(recs, t) = Candidates(recs, u)
         /\ Unranked(recs, t) = Unranked(recs, u)
         /\ Briefs(recs, t) = Briefs(recs, u)
<1>1. \A s \in DOMAIN recs : FollowsSchema(recs[s].bundle)
  BY RecordBundle
<1>2. \A s \in DOMAIN recs : Rejection(s, recs[s], t) = Rejection(s, recs[s], u)
  BY <1>1, QuietBundle DEF Rejection
<1>3. Accepted(recs, t) = Accepted(recs, u)
  BY <1>2 DEF Accepted
<1>4. ASSUME NEW s \in DOMAIN recs
      PROVE  CandidatesOf(s, recs[s].bundle, t) = CandidatesOf(s, recs[s].bundle, u)
  <2> DEFINE b == recs[s].bundle
  <2>1. \A f \in {x \in b.features : x.status = "available"} :
          FeatureCandidate(s, b, f, t) = FeatureCandidate(s, b, f, u)
    BY <1>1, QuietBundle DEF FeatureCandidate
  <2>2. \A c \in b.claims : ClaimCandidate(s, b, c, t) = ClaimCandidate(s, b, c, u)
    BY <1>1, QuietBundle DEF ClaimCandidate
  <2>3. \A c \in b.claims : ClaimExpired(c, t) <=> ClaimExpired(c, u)
    BY <1>1, QuietBundle
  <2> HIDE DEF b
  <2> QED
    BY <2>1, <2>2, <2>3 DEF CandidatesOf, b
<1>5. Candidates(recs, t) = Candidates(recs, u)
  <2>1. \A s \in Accepted(recs, t) : s \in DOMAIN recs
    BY DEF Accepted
  <2> QED
    BY <1>3, <1>4, <2>1 DEF Candidates
<1>6. \A i \in AllItems(recs) : WhyOut(recs, t, i[1], i[2]) = WhyOut(recs, u, i[1], i[2])
  <2> SUFFICES ASSUME NEW i \in AllItems(recs)
               PROVE  WhyOut(recs, t, i[1], i[2]) = WhyOut(recs, u, i[1], i[2])
    OBVIOUS
  <2>1. i[1] \in DOMAIN recs
    BY ItemForm
  <2>2. \A c \in recs[i[1]].bundle.claims : ClaimExpired(c, t) <=> ClaimExpired(c, u)
    BY <1>1, <2>1, QuietBundle
  <2> QED
    BY <1>2, <2>1, <2>2 DEF WhyOut
<1>7. Unranked(recs, t) = Unranked(recs, u)
  BY <1>6 DEF Unranked
<1>8. Briefs(recs, t) = Briefs(recs, u)
  BY <1>3 DEF Briefs
<1> QED
  BY <1>3, <1>5, <1>7, <1>8

\* The records and the instant settle every decision.
LEMMA OneSettlement ==
  ASSUME NEW recs, NEW t, NEW v, NEW w, Settled(v, recs, t), Settled(w, recs, t)
  PROVE  v = w
<1>1. DOMAIN v = DOMAIN w
  BY DEF Settled
<1>2. \A i \in DOMAIN Unranked(recs, t) : v[i] = w[i]
  BY DEF Settled, Exclusions
<1>3. \A c \in Candidates(recs, t) : v[c.item] = w[c.item]
  BY DEF Settled, Exclusions
<1>4. \A i \in DOMAIN v : v[i] = w[i]
  BY <1>2, <1>3 DEF Settled, Items
<1> QED
  BY <1>1, <1>4 DEF Settled

\* And so does any instant with no boundary between.
LEMMA OneVerdict ==
  ASSUME NEW recs, NEW t \in Int, NEW u \in Int, Quiet(recs, t, u), IsRecords(recs, t),
         NEW v, NEW w, Judged(v, recs, t), Judged(w, recs, u)
  PROVE  v = w
<1>1. PICK x : Settled(x, recs, t) /\ v = Judgement(x, recs, t)
  BY DEF Judged
<1>2. PICK y : Settled(y, recs, u) /\ w = Judgement(y, recs, u)
  BY DEF Judged
<1>3. /\ Candidates(recs, t) = Candidates(recs, u) /\ Unranked(recs, t) = Unranked(recs, u)
      /\ Briefs(recs, t) = Briefs(recs, u)
  BY QuietRecords
<1>4. Best(recs, t) = Best(recs, u) /\ Surviving(recs, t) = Surviving(recs, u)
  BY <1>3 DEF Best, Surviving
<1>5. Settled(y, recs, t)
  BY <1>2, <1>3, <1>4 DEF Settled, Exclusions
<1>6. x = y
  BY <1>1, <1>5, OneSettlement
<1>7. v = Judgement(x, recs, u)
  BY <1>1, <1>3 DEF Judgement
<1> QED
  BY <1>2, <1>6, <1>7

\* The same bundles get the same verdict until a boundary passes.
THEOREM SameVerdict == Spec => []SameEvidenceSameVerdict
<1>1. Inv => SameEvidenceSameVerdict
  <2> SUFFICES ASSUME Inv, pc = "done", last.at >= 0, DOMAIN records = DOMAIN last.records,
                      \A s \in DOMAIN records : records[s].bundle = last.records[s].bundle,
                      \A t \in Boundaries(records) : ~(last.at <= t /\ t < at)
               PROVE  verdict = last.verdict
    BY DEF SameEvidenceSameVerdict
  <2>1. IsRecords(records, at) /\ Judged(verdict, records, at)
    BY DoneInv
  <2>2. /\ IsRecords(last.records, last.at) /\ Judged(last.verdict, last.records, last.at)
        /\ last.at <= at /\ last.at \in Int /\ at \in Int
    BY BoundsAreNatural DEF Inv, LastInv
  <2>3. Quiet(records, last.at, at)
    BY <2>2 DEF Quiet
  <2>4. \A s \in DOMAIN records :
          LifecycleAt(records[s].bundle, last.at) = LifecycleAt(records[s].bundle, at)
    BY <2>1, <2>2, <2>3, RecordBundle, QuietBundle
  <2>5. last.records = records
    <3>1. \A s \in DOMAIN records :
            [bundle |-> records[s].bundle, lifecycle |-> LifecycleAt(records[s].bundle, at)]
              = [bundle |-> last.records[s].bundle,
                 lifecycle |-> LifecycleAt(last.records[s].bundle, last.at)]
      BY <2>4
    <3>2. records = [s \in DOMAIN records |->
                       [bundle |-> last.records[s].bundle,
                        lifecycle |-> LifecycleAt(last.records[s].bundle, last.at)]]
      BY <2>1, <3>1 DEF IsRecords
    <3>3. last.records = [s \in DOMAIN last.records |->
                       [bundle |-> last.records[s].bundle,
                        lifecycle |-> LifecycleAt(last.records[s].bundle, last.at)]]
      BY <2>2 DEF IsRecords
    <3> QED
      BY <3>2, <3>3
  <2> QED
    BY <2>1, <2>2, <2>3, <2>5, OneVerdict
<1> QED
  BY <1>1, InvHolds, PTL

----------------------------------------------------------------------------
(* The type invariant.                                                     *)

\* What the loop has decided are decisions.
LEMMA LoopTypes ==
  ASSUME NEW recs, NEW t, IsRecords(recs, t), NEW v, NEW in, LoopVerdict(v, recs, t, in),
         NEW i \in DOMAIN v
  PROVE  IsDecision(v[i])
<1>1. NoScore \in NoScore..Bps /\ 0..Bps \subseteq NoScore..Bps
  BY PolicyIsValid DEF NoScore
<1>2. CASE i \in DOMAIN Unranked(recs, t)
  <2>1. PICK why : v[i] = Excluded(why, NoScore)
    BY <1>2 DEF LoopVerdict, Exclusions, Unranked
  <2> QED
    BY <1>1, <2>1, DecisionType
<1>3. CASE i \in Items(Candidates(recs, t) \ in)
  <2>1. PICK c \in Candidates(recs, t) \ in : c.item = i
    BY <1>3 DEF Items
  <2>2. \E why : v[i] = Excluded(why, c.score)
    BY <2>1 DEF LoopVerdict, Exclusions
  <2>3. c.score \in 0..Bps
    BY CandidateScore
  <2> QED
    BY <1>1, <2>2, <2>3, DecisionType
<1> QED
  BY <1>2, <1>3 DEF LoopVerdict

\* So are those of a finished verdict.
LEMMA JudgedTypes ==
  ASSUME NEW recs, NEW t, IsRecords(recs, t), NEW v, Judged(v, recs, t), NEW i \in DOMAIN v
  PROVE  IsDecision(v[i])
<1>1. PICK w : Settled(w, recs, t) /\ v = Judgement(w, recs, t)
  BY DEF Judged
<1>2. CASE i \in Briefs(recs, t)
  <2>1. v[i] = JudgeBrief(recs, w, i[1])
    BY <1>1, <1>2 DEF Judgement, With
  <2> QED
    BY <1>1, <1>2, <2>1, JudgementTypes
<1>3. CASE i \notin Briefs(recs, t)
  <2>1. i \in DOMAIN w /\ v[i] = w[i]
    BY <1>1, <1>3 DEF Judgement, With
  <2> QED
    BY <1>1, <2>1, SettledTypes
<1> QED
  BY <1>2, <1>3

\* Only offered bundles are stored, and every score decided is a share of the
\* full score or none: no product of weights and no average of scores escapes.
THEOREM TypeCorrect == Spec => []TypeOK
<1>1. Inv => TypeOK
  <2> SUFFICES ASSUME Inv PROVE TypeOK
    OBVIOUS
  <2>1. ASSUME NEW i \in DOMAIN rows
        PROVE  rows[i].source \in Sources /\ rows[i].bundle \in Offers[rows[i].source]
    <3>1. rows[i] \in ValidRows
      BY <2>1 DEF Inv
    <3>2. PICK s \in Sources : \E b \in Offers[s] : rows[i] = [source |-> s, bundle |-> b]
      BY <3>1 DEF ValidRows
    <3> QED
      BY <3>2
  <2>2. ASSUME NEW i \in DOMAIN verdict PROVE IsDecision(verdict[i])
    <3>1. CASE pc = "idle"
      BY <2>2, <3>1 DEF Inv
    <3>2. CASE pc = "closing"
      BY <2>2, <3>2, LoopTypes DEF Inv, SelectionInv
    <3>3. CASE pc = "briefs"
      BY <2>2, <3>3, SettledTypes DEF Inv, SelectionInv
    <3>4. CASE pc = "done"
      BY <2>2, <3>4, JudgedTypes DEF Inv, SelectionInv
    <3> QED
      BY <3>1, <3>2, <3>3, <3>4 DEF Inv
  <2> QED
    BY <2>1, <2>2 DEF TypeOK, IsDecision, Inv
<1> QED
  BY <1>1, InvHolds, PTL

----------------------------------------------------------------------------
(* The summary.                                                            *)

\* The claims selected of a family.
LEMMA ClaimsInForm ==
  ASSUME NEW family, NEW x
  PROVE  x \in ClaimsIn(family) <=>
           \E s \in DOMAIN records : \E c \in records[s].bundle.claims :
             c.family = family /\ In(<<s, c.id>>) /\ x = <<s, c>>
  BY DEF ClaimsIn

\* A claim that is selected is a candidate that survived, with its score.
LEMMA SelectedClaim ==
  ASSUME Inv, pc = "done", NEW s \in DOMAIN records, NEW c \in records[s].bundle.claims, In(<<s, c.id>>)
  PROVE  /\ s \in Accepted(records, at) /\ ~ClaimExpired(c, at)
         /\ ClaimCandidate(s, records[s].bundle, c, at) \in Candidates(records, at)
         /\ <<s, c.id>> \in DOMAIN verdict /\ ~IsFeature(records, <<s, c.id>>)
         /\ verdict[<<s, c.id>>].score \in Nat /\ verdict[<<s, c.id>>].score >= MinScore
<1> DEFINE b == records[s].bundle
<1>1. IsRecords(records, at) /\ Judged(verdict, records, at)
  BY DoneInv
<1>2. FollowsSchema(b) /\ UniqueIds(b)
  BY <1>1, RecordBundle DEF ValidBundle
<1>3. /\ \A m, n \in b.claims : m.id = n.id => m = n
      /\ \A f \in b.features, m \in b.claims : f.id # m.id
      /\ Brief \notin FeatureIds(b) \cup ClaimIds(b)
  BY <1>2, OneItemPerId
<1>4. PICK i : i = <<s, c.id>> /\ i[1] = s /\ i[2] = c.id
  OBVIOUS
<1>5. c.id \in ClaimIds(b) /\ c.id \notin FeatureIds(b)
  BY <1>3 DEF FeatureIds, ClaimIds
<1>6. i \in AllItems(records) /\ i \in DOMAIN verdict
  BY <1>1, <1>4, <1>5, ItemForm, SettledStands
<1>7. ~IsFeature(records, i)
  BY <1>4, <1>5, FeatureById
<1>8. PICK d \in Surviving(records, at) : d.item = i
  BY <1>1, <1>3, <1>4, <1>5, <1>6, SelectedItem DEF In
<1>9. d \in Candidates(records, at) /\ d \in Eligible(Candidates(records, at))
  BY BestIsIn DEF Surviving, Best, WithinCap
<1>10. PICK r \in Accepted(records, at) :
        \/ \E f \in records[r].bundle.features :
             f.status = "available" /\ d = FeatureCandidate(r, records[r].bundle, f, at)
        \/ \E m \in records[r].bundle.claims :
             ~ClaimExpired(m, at) /\ d = ClaimCandidate(r, records[r].bundle, m, at)
  BY <1>9, CandidateForm
<1>11. r = s
  BY <1>4, <1>8, <1>10, CandidateItem
<1>12. ~\E f \in b.features : d = FeatureCandidate(s, b, f, at)
  <2> SUFFICES ASSUME NEW f \in b.features, d = FeatureCandidate(s, b, f, at) PROVE FALSE
    OBVIOUS
  <2>1. f.id = c.id
    BY <1>4, <1>8, CandidateItem
  <2> QED
    BY <1>3, <2>1
<1>13. PICK m \in b.claims : ~ClaimExpired(m, at) /\ d = ClaimCandidate(s, b, m, at)
  BY <1>10, <1>11, <1>12
<1>14. m = c
  BY <1>3, <1>4, <1>8, <1>13, CandidateItem
<1>15. verdict[i] = Included(d.score)
  BY <1>1, <1>8, VerdictForm
<1>16. verdict[i].score = d.score /\ d.score \in Nat /\ d.score >= MinScore
  BY <1>1, <1>9, <1>15, DecisionFields, CandidateScore, PolicyIsValid DEF Eligible
<1> QED
  BY <1>4, <1>6, <1>7, <1>9, <1>10, <1>11, <1>13, <1>14, <1>16

\* There are finitely many claims.
LEMMA FinitelyManyClaims ==
  ASSUME NEW family, IsRecords(records, at)
  PROVE  IsFiniteSet(ClaimsIn(family))
<1> DEFINE of == [s \in DOMAIN records |-> {<<s, c>> : c \in records[s].bundle.claims}]
<1>1. ASSUME NEW s \in DOMAIN records PROVE IsFiniteSet({<<s, c>> : c \in records[s].bundle.claims})
  <2> DEFINE g == [c \in records[s].bundle.claims |-> <<s, c>>]
  <2>1. IsFiniteSet(DOMAIN g) /\ g = [c \in DOMAIN g |-> g[c]]
    BY RecordBundle DEF FollowsSchema
  <2>2. {<<s, c>> : c \in records[s].bundle.claims} = {g[c] : c \in DOMAIN g}
    OBVIOUS
  <2> HIDE DEF g
  <2> QED
    BY <2>1, <2>2, ImageIsFinite
<1>2. /\ DOMAIN of = DOMAIN records /\ of = [s \in DOMAIN of |-> of[s]]
      /\ \A s \in DOMAIN of : IsFiniteSet(of[s])
  BY <1>1
<1>3. ClaimsIn(family) \subseteq UNION {of[s] : s \in DOMAIN of}
  <2> SUFFICES ASSUME NEW x \in ClaimsIn(family) PROVE x \in UNION {of[s] : s \in DOMAIN of}
    OBVIOUS
  <2>1. PICK s \in DOMAIN records : \E c \in records[s].bundle.claims : x = <<s, c>>
    BY DEF ClaimsIn
  <2>2. x \in of[s] /\ s \in DOMAIN of
    BY <2>1
  <2> HIDE DEF of
  <2> QED
    BY <2>2
<1> HIDE DEF of
<1>4. IsFiniteSet(DOMAIN records)
  BY BoundsAreNatural, FS_Subset DEF IsRecords
<1>5. IsFiniteSet({of[s] : s \in DOMAIN of})
  BY <1>2, <1>4, ImageIsFinite
<1>6. IsFiniteSet(UNION {of[s] : s \in DOMAIN of})
  BY <1>2, <1>5, FS_UNION
<1> QED
  BY <1>3, <1>6, FS_Subset

\* A share of less than the whole is less than the full score.
LEMMA ShareBelow ==
  ASSUME NEW part \in Nat, NEW whole \in Nat, part < whole, NEW k \in Nat, k > 0
  PROVE  (part * k) \div whole < k
<1> DEFINE q == (part * k) \div whole
<1>1. part * k \in Nat /\ part * k < whole * k
  OBVIOUS
<1>2. q \in Int /\ whole * q <= part * k
  BY <1>1
<1> HIDE DEF q
<1>3. q < k
  <2> SUFFICES ASSUME q >= k PROVE FALSE
    BY <1>2
  <2>1. whole * q >= whole * k
    BY <1>2
  <2> QED
    BY <1>1, <1>2, <2>1
<1> QED
  BY <1>3 DEF q

\* The lead of one side over another that is not nothing is less than the whole.
LEMMA LeadBelow ==
  ASSUME NEW bull \in Nat, NEW bear \in Nat, bull > 0, bear > 0, NEW k \in Nat, k > 0
  PROVE  ((IF bull > bear THEN bull - bear ELSE bear - bull) * k) \div (bull + bear) < k
<1>1. CASE bull > bear
  <2>1. ((bull - bear) * k) \div (bull + bear) < k
    BY <1>1, ShareBelow
  <2> QED
    BY <1>1, <2>1
<1>2. CASE ~(bull > bear)
  <2>1. ((bear - bull) * k) \div (bull + bear) < k
    BY <1>2, ShareBelow
  <2> QED
    BY <1>2, <2>1
<1> QED
  BY <1>1, <1>2

\* Both sides of a contested family weigh something, when the threshold is
\* not nothing.
LEMMA Contested ==
  ASSUME Inv, pc = "done", MinScore > 0
  PROVE  ContestedIsNeverUnanimous
<1> SUFFICES ASSUME NEW family \in Contexts, FamilyStatus(family) = "CONFLICTED"
             PROVE  Consensus(family) < Bps
  BY DEF ContestedIsNeverUnanimous
<1> DEFINE scores(way) == [x \in Leaning(family, way) |-> verdict[<<x[1], x[2].id>>].score]
<1>1. IsRecords(records, at)
  BY DoneInv
<1>2. Leaning(family, "bullish") # {} /\ Leaning(family, "bearish") # {}
  BY DEF FamilyStatus
<1>3. ASSUME NEW way, Leaning(family, way) # {}
      PROVE  Total(scores(way)) \in Nat /\ Total(scores(way)) > 0
  <2> DEFINE f == scores(way)
  <2>1. DOMAIN f = Leaning(family, way)
    OBVIOUS
  <2>2. ASSUME NEW x \in Leaning(family, way) PROVE f[x] \in Nat /\ f[x] > 0
    <3>1. PICK s \in DOMAIN records : \E c \in records[s].bundle.claims : In(<<s, c.id>>) /\ x = <<s, c>>
      BY ClaimsInForm DEF Leaning
    <3>2. PICK c \in records[s].bundle.claims : In(<<s, c.id>>) /\ x = <<s, c>>
      BY <3>1
    <3>3. verdict[<<s, c.id>>].score \in Nat /\ verdict[<<s, c.id>>].score >= MinScore
      BY <3>2, SelectedClaim
    <3>4. f[x] = verdict[<<s, c.id>>].score
      BY <3>2
    <3> QED
      BY <3>3, <3>4, PolicyIsValid
  <2>3. IsFiniteSet(DOMAIN f)
    BY <1>1, <2>1, FinitelyManyClaims, FS_Subset DEF Leaning
  <2> HIDE DEF f
  <2>4. \A x \in DOMAIN f : f[x] \in Nat /\ f[x] > 0
    BY <2>1, <2>2
  <2>5. Total(f) \in Nat /\ \A x \in DOMAIN f : f[x] <= Total(f)
    BY <2>3, <2>4, TotalBounds
  <2>6. PICK x \in DOMAIN f : TRUE
    BY <1>3, <2>1
  <2>7. Total(f) \in Nat /\ Total(f) > 0
    BY <2>4, <2>5, <2>6
  <2> QED
    BY <2>7 DEF f
<1>4. PICK bull \in Nat : bull = Total(scores("bullish")) /\ bull > 0
  BY <1>2, <1>3
<1>5. PICK bear \in Nat : bear = Total(scores("bearish")) /\ bear > 0
  BY <1>2, <1>3
<1>6. Consensus(family) = IF bull + bear = 0 THEN 0
        ELSE ((IF bull > bear THEN bull - bear ELSE bear - bull) * Bps) \div (bull + bear)
  BY <1>4, <1>5 DEF Consensus
<1> HIDE DEF scores
<1>7. ((IF bull > bear THEN bull - bear ELSE bear - bull) * Bps) \div (bull + bear) < Bps
  <2>1. Bps \in Nat /\ Bps > 0 /\ bull \in Nat /\ bull > 0 /\ bear \in Nat /\ bear > 0
    BY <1>4, <1>5, PolicyIsValid
  <2> QED
    BY <2>1, LeadBelow
<1>8. bull + bear # 0
  BY <1>4, <1>5
<1> QED
  BY <1>6, <1>7, <1>8

\* A family is missing when nobody who was accepted sent a claim still valid.
LEMMA Missing ==
  ASSUME Inv, pc = "done"
  PROVE  MissingAgreesWithPublishers
<1> SUFFICES ASSUME NEW family \in Contexts
             PROVE  FamilyStatus(family) = "MISSING" <=>
                      \A s \in {r \in Accepted(records, at) : family \notin records[r].bundle.unavailable} :
                        \A c \in records[s].bundle.claims : c.family = family => ClaimExpired(c, at)
  BY DEF MissingAgreesWithPublishers
<1>1. IsRecords(records, at)
  BY DoneInv
<1>2. \A s \in Accepted(records, at) : FollowsSchema(records[s].bundle) /\ CoverageAgrees(records[s].bundle)
  BY <1>1, RecordBundle DEF Accepted, ValidBundle
<1>3. FamilyStatus(family) = "MISSING" <=> \A d \in Candidates(records, at) : d.family # family
  BY DEF FamilyStatus
<1>4. ASSUME NEW s \in Accepted(records, at), family \in records[s].bundle.unavailable,
             NEW c \in records[s].bundle.claims
      PROVE  c.family # family
  BY <1>2, <1>4, OffersFollowSchema DEF CoverageAgrees, Supplies
<1>5. ASSUME NEW d \in Candidates(records, at), d.family = family
      PROVE  \E s \in Accepted(records, at) : \E c \in records[s].bundle.claims :
               c.family = family /\ ~ClaimExpired(c, at)
  <2>1. PICK s \in Accepted(records, at) :
          \/ \E f \in records[s].bundle.features :
               f.status = "available" /\ d = FeatureCandidate(s, records[s].bundle, f, at)
          \/ \E m \in records[s].bundle.claims :
               ~ClaimExpired(m, at) /\ d = ClaimCandidate(s, records[s].bundle, m, at)
    BY CandidateForm
  <2>2. ASSUME NEW f \in records[s].bundle.features, d = FeatureCandidate(s, records[s].bundle, f, at)
        PROVE  FALSE
    <3>1. d.family = f.family
      BY <2>2 DEF FeatureCandidate
    <3> QED
      BY <1>2, <1>5, <3>1 DEF FollowsSchema
  <2>3. PICK m \in records[s].bundle.claims :
          ~ClaimExpired(m, at) /\ d = ClaimCandidate(s, records[s].bundle, m, at)
    BY <2>1, <2>2
  <2>4. d.family = m.family
    BY <2>3 DEF ClaimCandidate
  <2> QED
    BY <1>5, <2>3, <2>4
<1>6. ASSUME NEW s \in Accepted(records, at), NEW c \in records[s].bundle.claims,
             c.family = family, ~ClaimExpired(c, at)
      PROVE  \E d \in Candidates(records, at) : d.family = family
  <2>1. ClaimCandidate(s, records[s].bundle, c, at) \in Candidates(records, at)
    BY <1>6, CandidateForm
  <2>2. ClaimCandidate(s, records[s].bundle, c, at).family = family
    BY <1>6 DEF ClaimCandidate
  <2> QED
    BY <2>1, <2>2
<1> QED
  BY <1>3, <1>4, <1>5, <1>6

\* What is selected is an available feature, a claim still valid, or the brief,
\* of a record that was accepted.
LEMMA SelectedForm ==
  ASSUME Inv, pc = "done", NEW i \in DOMAIN verdict, In(i)
  PROVE  \/ \E s \in Accepted(records, at) : \E f \in records[s].bundle.features :
              f.status = "available" /\ i[1] = s /\ FeatureOf(records, i) = {f}
         \/ \E s \in Accepted(records, at) : \E m \in records[s].bundle.claims :
              i = <<s, m.id>> /\ i[1] = s /\ FeatureOf(records, i) = {}
         \/ i[1] \in Accepted(records, at) /\ i \in BriefsIn /\ FeatureOf(records, i) = {}
<1>1. IsRecords(records, at) /\ Judged(verdict, records, at)
  BY DoneInv
<1>2. CASE i \in Briefs(records, at) /\ i[2] = Brief /\ ~IsFeature(records, i)
  BY <1>1, <1>2, BriefIsUndecided DEF BriefsIn, IsFeature
<1>3. ASSUME NEW d \in Surviving(records, at), d.item = i
      PROVE  \E s \in Accepted(records, at) :
               \/ \E f \in records[s].bundle.features :
                    f.status = "available" /\ i[1] = s /\ FeatureOf(records, i) = {f}
               \/ \E m \in records[s].bundle.claims :
                    i = <<s, m.id>> /\ i[1] = s /\ FeatureOf(records, i) = {}
  <2>1. PICK s \in Accepted(records, at) :
          \/ \E f \in records[s].bundle.features :
               f.status = "available" /\ d = FeatureCandidate(s, records[s].bundle, f, at)
          \/ \E m \in records[s].bundle.claims :
               ~ClaimExpired(m, at) /\ d = ClaimCandidate(s, records[s].bundle, m, at)
    BY BestIsIn, CandidateForm
  <2>2. s \in DOMAIN records
    BY DEF Accepted
  <2>3. CASE \E f \in records[s].bundle.features :
               f.status = "available" /\ d = FeatureCandidate(s, records[s].bundle, f, at)
    <3>1. PICK f \in records[s].bundle.features :
            f.status = "available" /\ d = FeatureCandidate(s, records[s].bundle, f, at)
      BY <2>3
    <3>2. i = <<s, f.id>> /\ i[1] = s
      <4>1. d.item = <<s, f.id>> /\ d.item[1] = s
        BY <3>1, CandidateItem
      <4> QED
        BY <1>3, <4>1
    <3>3. FeatureOf(records, i) = {f}
      BY <1>1, <2>2, <3>2, DependsOnLineage
    <3> QED
      BY <3>1, <3>2, <3>3
  <2>4. CASE \E m \in records[s].bundle.claims :
               ~ClaimExpired(m, at) /\ d = ClaimCandidate(s, records[s].bundle, m, at)
    <3>1. PICK m \in records[s].bundle.claims : d = ClaimCandidate(s, records[s].bundle, m, at)
      BY <2>4
    <3>2. i = <<s, m.id>> /\ i[1] = s
      BY <1>3, <3>1, CandidateItem
    <3>3. ~IsFeature(records, i)
      BY <2>2, <3>2, SelectedClaim
    <3> QED
      BY <3>1, <3>2, <3>3 DEF IsFeature
  <2> QED
    BY <2>1, <2>3, <2>4
<1> QED
  BY <1>1, <1>2, <1>3, SelectedItem DEF In

\* What the families' conditions say.
LEMMA AvailableFamily ==
  ASSUME NEW family, FamilyStatus(family) = "AVAILABLE"
  PROVE  /\ ClaimsIn(family) # {}
         /\ \E way \in {"bullish", "bearish"} : Leaning(family, way) = {}
BY DEF FamilyStatus

\* The mode is FULL only with a brief and claims on every family, none of them
\* contested, and DEGRADED exactly when nothing but features is in.
LEMMA ModeIsTrue ==
  ASSUME Inv, pc = "done"
  PROVE  ModeTellsTheTruth
<1>1. IsRecords(records, at) /\ Judged(verdict, records, at)
  BY DoneInv
<1>2. ASSUME Mode = "FULL"
      PROVE  /\ \E i \in DOMAIN verdict : In(i) /\ i[2] = Brief
             /\ \A f \in Contexts : /\ ClaimsIn(f) # {}
                                    /\ \E way \in {"bullish", "bearish"} : Leaning(f, way) = {}
  <2>1. BriefsIn # {} /\ \A f \in Contexts : FamilyStatus(f) = "AVAILABLE"
    BY <1>2 DEF Mode
  <2>2. \E i \in DOMAIN verdict : In(i) /\ i[2] = Brief
    BY <2>1 DEF BriefsIn
  <2> QED
    BY <2>1, <2>2, AvailableFamily
<1>3. Mode = "DEGRADED_NO_RESEARCH" <=> BriefsIn = {} /\ \A f \in Contexts : ClaimsIn(f) = {}
  BY DEF Mode
<1>4. ASSUME BriefsIn = {}, \A f \in Contexts : ClaimsIn(f) = {}, NEW i \in DOMAIN verdict, In(i)
      PROVE  IsFeature(records, i)
  <2>1. ASSUME NEW s \in Accepted(records, at), NEW m \in records[s].bundle.claims, i = <<s, m.id>>
        PROVE  FALSE
    <3>1. s \in DOMAIN records
      BY DEF Accepted
    <3>2. m.family \in Contexts
      BY <1>1, <3>1, RecordBundle DEF FollowsSchema
    <3>3. <<s, m>> \in ClaimsIn(m.family)
      BY <1>4, <2>1, <3>1, ClaimsInForm
    <3> QED
      BY <1>4, <3>2, <3>3
  <2> QED
    BY <1>4, <2>1, SelectedForm DEF IsFeature
<1>5. ASSUME NEW i \in BriefsIn PROVE i \in DOMAIN verdict /\ In(i) /\ ~IsFeature(records, i)
  <2>1. i \in DOMAIN verdict /\ In(i) /\ i[2] = Brief
    BY DEF BriefsIn
  <2> QED
    BY <1>1, <2>1, SelectedItem DEF In
<1>6. ASSUME NEW f \in Contexts, NEW x \in ClaimsIn(f)
      PROVE  \E i \in DOMAIN verdict : In(i) /\ ~IsFeature(records, i)
  <2>1. PICK s \in DOMAIN records : \E c \in records[s].bundle.claims : In(<<s, c.id>>)
    BY ClaimsInForm
  <2>2. PICK c \in records[s].bundle.claims : In(<<s, c.id>>)
    BY <2>1
  <2>3. <<s, c.id>> \in DOMAIN verdict /\ ~IsFeature(records, <<s, c.id>>)
    BY <2>2, SelectedClaim
  <2> QED
    BY <2>2, <2>3
<1> QED
  BY <1>2, <1>3, <1>4, <1>5, <1>6 DEF ModeTellsTheTruth

\* The features' condition is AVAILABLE exactly when one of them is in.
LEMMA DeterministicIsTrue ==
  ASSUME Inv, pc = "done"
  PROVE  DeterministicStatus = "AVAILABLE" <=> \E i \in DOMAIN verdict : In(i) /\ IsFeature(records, i)
<1>1. ASSUME NEW i \in DOMAIN verdict, In(i), IsFeature(records, i)
      PROVE  \E s \in Accepted(records, at) :
               {f \in records[s].bundle.features : f.status = "available"} # {}
  BY <1>1, SelectedForm DEF IsFeature
<1> QED
  BY <1>1 DEF DeterministicStatus

\* What weighs as stale evidence is stale, when that weight is not the full one.
LEMMA StaleIsTrue ==
  ASSUME Inv, pc = "done", StaleWeight # Bps
  PROVE  ~HasStaleInput <=> \A i \in {j \in DOMAIN verdict : In(j)} :
           /\ at <= records[i[1]].bundle.freshUntil
           /\ \A f \in FeatureOf(records, i) : at <= f.freshUntil
<1> DEFINE Weight(i) == IF IsFeature(records, i)
                        THEN FeatureWeight(records[i[1]].bundle, CHOOSE f \in FeatureOf(records, i) : TRUE, at)
                        ELSE BundleWeight(records[i[1]].bundle, at)
           Fresh(i) == /\ at <= records[i[1]].bundle.freshUntil
                       /\ \A f \in FeatureOf(records, i) : at <= f.freshUntil
<1>1. \A b : BundleWeight(b, at) = StaleWeight <=> ~(at <= b.freshUntil)
  BY DEF BundleWeight, LifecycleAt
<1>2. ASSUME NEW i \in DOMAIN verdict, In(i)
      PROVE  StaleWeight = Weight(i) <=> ~Fresh(i)
  <2>1. CASE FeatureOf(records, i) = {}
    BY <1>1, <2>1 DEF IsFeature
  <2>2. ASSUME NEW f, FeatureOf(records, i) = {f}
        PROVE  StaleWeight = Weight(i) <=> ~Fresh(i)
    <3>1. IsFeature(records, i) /\ (CHOOSE x \in FeatureOf(records, i) : TRUE) = f
      BY <2>2 DEF IsFeature
    <3>2. FeatureWeight(records[i[1]].bundle, f, at) = StaleWeight
            <=> ~(at <= f.freshUntil) \/ ~(at <= records[i[1]].bundle.freshUntil)
      BY <1>1 DEF FeatureWeight
    <3> QED
      BY <2>2, <3>1, <3>2
  <2> QED
    BY <1>2, <2>1, <2>2, SelectedForm
<1>3. HasStaleInput <=> \E i \in DOMAIN verdict : In(i) /\ StaleWeight = Weight(i)
  BY DEF HasStaleInput
<1> HIDE DEF Weight
<1>4. HasStaleInput <=> \E i \in DOMAIN verdict : In(i) /\ ~Fresh(i)
  BY <1>2, <1>3
<1> QED
  BY <1>4

\* The summary is silent exactly when there is nothing to warn of.
LEMMA Silence ==
  ASSUME Inv, pc = "done", StaleWeight # Bps
  PROVE  SilenceIsEarned
<1> DEFINE Bad == {"CONFLICTED", "MISSING", "REJECTED"}
<1>1. DOMAIN Statuses = Contexts \cup {"deterministic"}
  BY DEF Statuses, With
<1>2. \A f \in Contexts : Statuses[f] = FamilyStatus(f)
  BY OffersFollowSchema DEF Statuses, With
<1>3. Statuses["deterministic"] = DeterministicStatus
  BY DEF Statuses, With
<1>4. \A f \in Contexts : FamilyStatus(f) \notin Bad <=> FamilyStatus(f) = "AVAILABLE"
  BY DEF FamilyStatus
<1>5. DeterministicStatus \notin Bad <=> DeterministicStatus = "AVAILABLE"
  BY DEF DeterministicStatus
<1>6. Warnings = {} <=> /\ \A f \in DOMAIN Statuses : Statuses[f] \notin Bad
                        /\ ~HasStaleInput /\ BriefsIn # {}
  BY DEF Warnings
<1>7. Mode = "FULL" <=> BriefsIn # {} /\ \A f \in Contexts : FamilyStatus(f) = "AVAILABLE"
  BY DEF Mode
<1>8. (\A f \in DOMAIN Statuses : Statuses[f] \notin Bad)
        <=> /\ \A f \in Contexts : FamilyStatus(f) = "AVAILABLE"
            /\ DeterministicStatus = "AVAILABLE"
  BY <1>1, <1>2, <1>3, <1>4, <1>5
<1>9. Warnings = {} <=> Mode = "FULL" /\ DeterministicStatus = "AVAILABLE" /\ ~HasStaleInput
  BY <1>6, <1>7, <1>8
<1> QED
  BY <1>9, DeterministicIsTrue, StaleIsTrue DEF SilenceIsEarned

\* The summary agrees with the decisions and with what the publishers declared.
\* Two things are asked of the policy, and the shipped one has them (2500 and
\* 5000 of 10000): with no threshold a claim of no weight could contest a family
\* that still reads as unanimous, and where stale evidence weighs as much as
\* fresh the selector, which tells them apart by weight, calls all of it stale.
THEOREM SummaryTrue ==
  ASSUME MinScore > 0, StaleWeight < Bps
  PROVE  Spec => []SummaryIsTrue
<1>1. StaleWeight # Bps
  BY PolicyIsValid
<1>2. Inv => SummaryIsTrue
  BY <1>1, Contested, Missing, ModeIsTrue, Silence DEF SummaryIsTrue
<1> QED
  BY <1>2, InvHolds, PTL

============================================================================
