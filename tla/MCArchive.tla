------------------------------ MODULE MCArchive ------------------------------
(* A finite instance of Archive: see the run archive.                       *)
EXTENDS Archive, TLC

CONSTANTS k1, k2, k3

MCKeys    == {k1, k2, k3}
MCAboutOf == [k \in MCKeys |-> [scope |-> "pair", source |-> IF k = k3 THEN "s2" ELSE "s1"]]

Query(scope, given, source, limit, cursor) ==
  [scope |-> scope, given |-> given, source |-> source, limit |-> limit, cursor |-> cursor]
Kept(of, id) == [of |-> of, stamp |-> 1, id |-> id]

\* Pages of one and of two, one cut to nothing and one too large, a source, a
\* scope of evidence only with and without its address, cursors kept from an
\* earlier visit, and one that no archive gave out.
MCQueries ==
  {Query("pair", {}, None, n, None) : n \in 0..3}
  \cup {Query("pair", {}, "s1", 1, None),
        Query("wallet", {}, None, 1, None), Query("wallet", {"walletAddress"}, None, 1, None),
        Query("pair", {}, None, 1, Kept("evidence", 2)),
        Query("pair", {}, None, 1, Kept("insights", 2)),
        Query("pair", {}, None, 1, Kept("evidence", 0))}

Symmetric == Permutations(Writers) \cup Permutations({k1, k2})
=============================================================================
