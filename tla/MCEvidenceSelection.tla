---------------------- MODULE MCEvidenceSelection ----------------------
(* Two sources: one whose bundles exercise ranking, lineage and briefs, *)
(* one that competes with it for the places of a family.                *)
EXTENDS EvidenceSelection

\* Features 1..3, claims 11 and 12, references 21 and 22.
Feature(id, status, conf, fresh, lineage) ==
  [id |-> id, status |-> status, family |-> "market_state", conf |-> conf,
   freshUntil |-> fresh, observedAt |-> 0, lineage |-> lineage]
Claim(id, family, way, conf, expires) ==
  [id |-> id, family |-> family, direction |-> way, method |-> "collected", conf |-> conf,
   expiresAt |-> expires, observedAt |-> 0, refs |-> {21}]
MCContexts == {"flows", "events"}
Bundle(asOf, fresh, expires, features, claims, cites) ==
  [asOf |-> asOf, createdAt |-> asOf, freshUntil |-> fresh, expiresAt |-> expires,
   features |-> features, claims |-> claims, cites |-> cites, refs |-> {21, 22}, confidence |-> 3,
   quality |-> "partial",
   unavailable |-> (MCContexts \ {c.family : c \in claims}) \cup (IF cites = {} THEN {"researchBrief"} ELSE {}),
   warnings |-> IF cites = {} THEN {"RESEARCH_BRIEF_UNAVAILABLE"} ELSE {}]

\* Lineages of features 1, 2 and 3: independent, a chain either way, a circle.
Lineages == {<<{21}, {21}, {22}>>, <<{2}, {3}, {21}>>, <<{21}, {1}, {2, 22}>>, <<{2}, {1}, {21}>>}

MCSources == {1, 2}
Chained(asOf, l, st, conf, way, cites) ==
  Bundle(asOf, 1, 2,
    {Feature(1, "available", 4, 1, l[1]), Feature(2, st, 4, 2, l[2]), Feature(3, "available", conf, 2, l[3])},
    {Claim(11, "flows", way, 4, 1 + asOf)}, cites)
\* A publisher that denies what it sends, one that warns of nothing and one
\* that overstates its quality are refused.
Misstated ==
  LET b == Chained(0, <<{21}, {21}, {22}>>, "available", 4, "bullish", {})
  IN {[b EXCEPT !.unavailable = @ \cup {"flows"}], [b EXCEPT !.warnings = {}], [b EXCEPT !.quality = "complete"]}
MCOffers == <<
  {Chained(0, l, st, conf, "bullish", {1, 11}) : l \in Lineages, st \in {"available", "unavailable"}, conf \in {1, 4}}
    \cup {Chained(1, l, "available", 4, "neutral", {}) : l \in Lineages} \cup Misstated,
  {Bundle(0, fresh, 2, {Feature(1, "available", 3, 2, {21}), Feature(2, "invalid", 4, 2, {21})},
          {Claim(11, "flows", "bearish", c, Never), Claim(12, "events", "mixed", 4, Never)}, {12}) : fresh \in {0, 2}, c \in {1, 4}}
  >>
MCWindows == {<<0, 3>>, <<0, 0>>}
MCSourceQuality == <<3, 4>>
MCMethodQuality == [calculator |-> 4, collected |-> 3]
=========================================================================
