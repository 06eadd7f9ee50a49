---------------------------- MODULE Maintenance ----------------------------
(* What operators start in processes that serve: the cleanup                   *)
(* (workers/cleanup_worker.py), the deletion and the anonymization of a        *)
(* customer (services/data_subject_service.py), the reset of all customer data *)
(* (services/customer_data_reset.py). Each is one transaction over many        *)
(* tables that goes on after an error it has caught, as if PostgreSQL did.     *)
(* Beside them turns write new rows.                                           *)
EXTENDS Bootstrap

CONSTANT Script   \* the tables of each operation, in its order

Operation == {"cleanup", "erase", "anonymize", "reset"}

ASSUME MaintenanceAssumption == Script \in [Operation -> Seq(STRING)]

VARIABLES
  rows,   \* tables with rows that the operations are to remove
  tx      \* each process's operation

vars == <<bootVars, rows, tx>>

NoTx == [op |-> None, k |-> 1, done |-> {}, spared |-> {}, aborted |-> FALSE, missing |-> None,
         errors |-> FALSE, outcome |-> None]

Running(p) == tx[p].op # None /\ tx[p].outcome = None
Table(p) == Script[tx[p].op][tx[p].k]
AtEnd(p) == tx[p].k > Len(Script[tx[p].op])

Begin(p, op) ==
  /\ At(p, "up") /\ tx[p].op = None
  /\ tx' = [tx EXCEPT ![p] = [NoTx EXCEPT !.op = op]]
  /\ UNCHANGED <<bootVars, rows>>

\* Slip: on a connection that commits every statement.
StatementCommitted(p) ==
  /\ Running(p) /\ ~AtEnd(p) /\ ~tx[p].aborted /\ Table(p) \in schema
  /\ tx' = [tx EXCEPT ![p].k = @ + 1, ![p].done = @ \cup {Table(p)}]
  /\ rows' = rows \ {Table(p)} /\ UNCHANGED bootVars

\* Its effect is seen by others at the commit.
Statement(p) ==
  /\ Running(p) /\ ~AtEnd(p) /\ ~tx[p].aborted /\ Table(p) \in schema
  /\ tx' = [tx EXCEPT ![p].k = @ + 1, ![p].done = @ \cup {Table(p)}]
  /\ UNCHANGED <<bootVars, rows>>

Raise(p) == tx' = [tx EXCEPT ![p].outcome = "raised"]

\* Slip: the cleanup takes it for an empty table, as the others do.
TableIsEmpty(p) ==
  /\ Running(p) /\ ~AtEnd(p) /\ ~tx[p].aborted /\ Table(p) \notin schema
  /\ tx' = [tx EXCEPT ![p].k = @ + 1, ![p].aborted = TRUE, ![p].missing = Table(p)]
  /\ UNCHANGED <<bootVars, rows>>

\* UndefinedTable. The cleanup notes it with every other error, and a deletion does
\* not catch it for its first table.
TableIsMissing(p) ==
  /\ Running(p) /\ ~AtEnd(p) /\ ~tx[p].aborted /\ Table(p) \notin schema
  /\ IF tx[p].op = "erase" /\ tx[p].k = 1 THEN Raise(p)
     ELSE tx' = [tx EXCEPT ![p].k = @ + 1, ![p].aborted = TRUE, ![p].missing = Table(p),
                           ![p].errors = tx[p].op = "cleanup"]
  /\ UNCHANGED <<bootVars, rows>>

\* Any other error; in an aborted transaction every statement has one.
StatementFails(p) ==
  /\ Running(p) /\ ~AtEnd(p) /\ (tx[p].aborted \/ Table(p) \in schema)
  /\ IF tx[p].op = "cleanup"
     THEN tx' = [tx EXCEPT ![p].k = @ + 1, ![p].aborted = TRUE, ![p].errors = TRUE]
     ELSE Raise(p)
  /\ UNCHANGED <<bootVars, rows>>

\* The reset counts rows before it commits: in an aborted transaction that raises.
CountFails(p) ==
  /\ Running(p) /\ AtEnd(p) /\ tx[p].op = "reset" /\ tx[p].aborted
  /\ Raise(p) /\ UNCHANGED <<bootVars, rows>>

\* COMMIT of an aborted transaction rolls back, and raises nothing.
Commit(p) ==
  /\ Running(p) /\ AtEnd(p) /\ (tx[p].op = "reset" => ~tx[p].aborted)
  /\ rows' = IF tx[p].aborted THEN rows ELSE rows \ tx[p].done
  /\ tx' = [tx EXCEPT ![p].outcome = "returned"]
  /\ UNCHANGED bootVars

Answer(p) ==
  /\ tx[p].outcome # None /\ tx' = [tx EXCEPT ![p] = NoTx]
  /\ UNCHANGED <<bootVars, rows>>

\* A turn writes: a statement that has already run does not remove the new row.
Arrive(t) ==
  /\ t \in schema
  /\ rows' = rows \cup {t}
  /\ tx' = [p \in Procs |-> [tx[p] EXCEPT !.done = @ \ {t}, !.spared = @ \cup ({t} \cap tx[p].done)]]
  /\ UNCHANGED bootVars

Init ==
  /\ BootInit /\ tx = [p \in Procs |-> NoTx]
  /\ rows = schema

OpStep(p) ==
  \/ Statement(p) \/ TableIsMissing(p) \/ StatementFails(p) \/ CountFails(p)
  \/ Commit(p) \/ Answer(p)

BootAction(p) ==
  /\ StartBootstrap(p) \/ StartWithoutBootstrap(p) \/ BootStep(p) \/ Dies(p)
  /\ tx' = [tx EXCEPT ![p] = NoTx]
  /\ UNCHANGED rows

Next ==
  \/ \E p \in Procs : BootAction(p) \/ OpStep(p) \/ \E op \in Operation : Begin(p, op)
  \/ \E t \in schema : Arrive(t)

Fairness == \A p \in Procs : SF_bootVars(BootStep(p))

Spec == Init /\ [][Next]_vars /\ Fairness

(* ---- what must hold --------------------------------------------------------- *)

(* A deletion, an anonymization or a reset, each inside conn.transaction(),     *)
(* removes its rows from all of its tables in one step, or none: only rows that *)
(* a turn wrote after its statement stay.                                       *)
DeletionsAreWhole ==
  [][\A p \in Procs : tx[p].op # "cleanup" /\ rows \ rows' # {} /\ tx'[p] # tx[p] =>
       \A i \in DOMAIN Script[tx[p].op] :
         Script[tx[p].op][i] \in rows' => Script[tx[p].op][i] \in tx[p].spared]_vars

(* An operation that reports success without an error did what it reports,     *)
(* unless the last table of a deletion or an anonymization is missing: then     *)
(* nothing was done. With any other table missing none of them succeeds.        *)
ReportsAreTrue ==
  \A p \in Procs : tx[p].outcome = "returned" /\ ~tx[p].errors =>
    \/ ~tx[p].aborted
    \/ tx[p].op \in {"erase", "anonymize"} /\ tx[p].missing = Script[tx[p].op][Len(Script[tx[p].op])]

(* What cleanup_worker.py:130 says of the cleanup, "Each task is isolated":     *)
(* what a task deleted and the report counts is gone once the cleanup returns,  *)
(* whatever became of the other tasks. The code does not keep it: the tasks     *)
(* share a transaction, and a later error aborts that.                          *)
CleanupTasksAreIsolated ==
  \A p \in Procs : tx[p].op = "cleanup" /\ tx[p].outcome = "returned" => tx[p].done \cap rows = {}
=============================================================================
