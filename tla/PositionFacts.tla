---------------------------- MODULE PositionFacts ----------------------------
(***************************************************************************)
(* What a position synthesis is made from: the evidence store (Postgres,   *)
(* append-only) and the plan ledger (SQLite), with the reads that the      *)
(* reconciliation and the worker share.  A bundle or a plan is a record of *)
(* the times the reads compare.  The hash of a selection of evidence is    *)
(* the selection itself without the instant it was made at: which bundles, *)
(* and whether each was fresh, stale or expired.                           *)
(***************************************************************************)
EXTENDS Integers, Sequences, FiniteSets

CONSTANTS
  Bundles,   \* [run, scope, source, asOf, fresh, expires]: EvidenceBundleV1
  Plans,     \* [hash, scope, asOf, observed]: a plan and its position
  Window,    \* 300_000 ms: how far evidence may be from the plan's asOf
  Null

VARIABLES
  evidence,  \* the bundles with their time of receipt; the index is the id
  plans      \* the plan_requests joined with their plans; the index is the id

facts == <<evidence, plans>>

Lifecycles == {"FRESH", "STALE", "EXPIRED"}
Hashes     == SUBSET ({b.run : b \in Bundles} \X Lifecycles)
PlanHashes == {p.hash : p \in Plans}

\* The contract refuses evidence that expires before it goes stale.
ASSUME FactsAssumption ==
  /\ \A b \in Bundles : {b.asOf, b.fresh, b.expires} \subseteq Nat /\ b.fresh <= b.expires
  /\ \A p \in Plans : p.asOf \in Nat
  /\ Null \notin Bundles /\ Null \notin Plans
  /\ Null \notin PlanHashes /\ \A h \in Hashes : h # Null

Receipt == [bundle : Bundles, received : Nat]

FactsTypeOK ==
  /\ evidence \in Seq(Receipt)
  /\ plans \in Seq(Plans)

FactsInit == evidence = <<>> /\ plans = <<>>

-----------------------------------------------------------------------------
(* The evidence repository                                                 *)

Stored(b)   == \E i \in DOMAIN evidence : evidence[i].bundle = b
Conflict(b) == ~Stored(b) /\ \E i \in DOMAIN evidence : evidence[i].bundle.run = b.run

\* One run is stored once; the same payload again is answered with its row.
AppendBundle(b, received) ==
  /\ ~Conflict(b)
  /\ evidence' = IF Stored(b) THEN evidence
                 ELSE Append(evidence, [bundle |-> b, received |-> received])
  /\ UNCHANGED plans

Lifecycle(b, t) ==
  CASE t <= b.fresh -> "FRESH"
    [] b.fresh < t /\ t <= b.expires -> "STALE"
    [] OTHER -> "EXPIRED"

\* ORDER BY as_of_unix_ms DESC, received_at_unix_ms DESC, id DESC
Newer(i, j) ==
  LET a == evidence[i] b == evidence[j]
  IN \/ a.bundle.asOf > b.bundle.asOf
     \/ a.bundle.asOf = b.bundle.asOf /\ a.received > b.received
     \/ a.bundle.asOf = b.bundle.asOf /\ a.received = b.received /\ i > j

\* The newest bundle of each source of scope s, of those near plan p if given.
Latest(s, p) ==
  LET among == {i \in DOMAIN evidence :
                  /\ evidence[i].bundle.scope = s
                  /\ p # Null => /\ evidence[i].bundle.asOf >= p.asOf - Window
                                 /\ evidence[i].bundle.asOf <= p.asOf + Window}
  IN {evidence[i].bundle : i \in {i \in among : \A j \in among :
         evidence[j].bundle.source = evidence[i].bundle.source => ~Newer(j, i)}}

AllExpired(bundles, t) == \A b \in bundles : Lifecycle(b, t) = "EXPIRED"

Selection(bundles, t) == {<<b.run, Lifecycle(b, t)>> : b \in bundles}

-----------------------------------------------------------------------------
(* The plan ledger                                                         *)

WritePlan(p) == plans' = Append(plans, p) /\ UNCHANGED evidence

\* ORDER BY as_of_unix_ms DESC, id DESC LIMIT 1
LatestPlan(s) ==
  LET among == {i \in DOMAIN plans : plans[i].scope = s}
      later(i, j) == \/ plans[i].asOf > plans[j].asOf
                     \/ plans[i].asOf = plans[j].asOf /\ i >= j
  IN IF among = {} THEN Null
     ELSE plans[CHOOSE i \in among : \A j \in among : later(i, j)]

PlanByHash(s, h) ==
  IF \E p \in Plans : p.scope = s /\ p.hash = h /\ \E i \in DOMAIN plans : plans[i] = p
  THEN CHOOSE p \in Plans : p.scope = s /\ p.hash = h /\ \E i \in DOMAIN plans : plans[i] = p
  ELSE Null
=============================================================================
