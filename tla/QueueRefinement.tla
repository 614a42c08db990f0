--------------------------- MODULE QueueRefinement ---------------------------
(***************************************************************************)
(* The request table as leased work: a job is what a synthesis is made     *)
(* from, and its state that of the row that has both its halves.           *)
(***************************************************************************)
EXTENDS RequestQueue

Jobs == Scopes \X Rulesets \X Selections \X Plans

RowsOf(j) == Ready(j[1], j[2], j[3], j[4])

StateOf(status) == IF status = "pending" THEN "open"
                   ELSE IF status = "processing" THEN "held"
                   ELSE IF status \in Terminal THEN "closed" ELSE "absent"

JobOf(j) ==
  IF RowsOf(j) = {} THEN [state |-> "absent", holder |-> Null, until |-> Null]
  ELSE LET row == rows[CHOOSE i \in RowsOf(j) : TRUE]
       IN [state |-> StateOf(row.status), holder |-> row.owner, until |-> row.leaseExpires]

Leases == INSTANCE LeasedWork WITH
            Holders <- Sessions, Nobody <- Null,
            jobs <- [j \in Jobs |-> JobOf(j)], clock <- now

\* The queue keeps the promises of leased work: a synthesis is requested once,
\* one worker at a time has it, and it is closed once, by the worker that has it.
ImplementsLeases == Leases!Spec
=============================================================================
