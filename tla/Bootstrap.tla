----------------------------- MODULE Bootstrap -----------------------------
(* Processes that start at once on one database (app/db_init.py, main.py):     *)
(* the legacy tables, the migrations in order, each pass under a session-level *)
(* advisory lock that the server releases when the connection ends, and the    *)
(* backfill of the profiles. The worker, and a web process that is told to     *)
(* skip the bootstrap, serve on what they find.                                *)
EXTENDS Naturals, Sequences, FiniteSets

CONSTANTS
  Procs,      \* processes of the web service and of the worker
  Creates,    \* the table that each migration creates
  MaxDeaths

Legacy == <<"sessions", "readings">>
Versions == DOMAIN Creates
None == "none"

ASSUME BootstrapAssumption ==
  /\ Creates \in Seq(STRING) /\ MaxDeaths \in Nat
  /\ None \notin Procs /\ "profiles" \in {Creates[v] : v \in DOMAIN Creates}
  /\ \A v \in DOMAIN Creates : Creates[v] \notin {"sessions", "readings"}

\* Migration 025 alters the legacy table of the sessions; here the last one does.
AltersSessions(v) == v = Len(Creates)

VARIABLES
  files,    \* the legacy tables whose SQL file is deployed
  schema,   \* the tables there are
  applied,  \* schema_migrations
  lock,     \* the process whose connection has the advisory lock
  boot,     \* where each process is
  half,     \* were the legacy tables left with only the first one there?
  filled,   \* was a backfill committed?
  deaths

bootVars == <<files, schema, applied, lock, boot, half, filled, deaths>>

Off == [pc |-> "off", k |-> 1, booted |-> FALSE, failing |-> FALSE, own |-> FALSE]
Go(p, pc) == boot' = [boot EXCEPT ![p].pc = pc, ![p].k = 1]
At(p, pc) == boot[p].pc = pc
Fails(p, pc, own) == boot' = [boot EXCEPT ![p].pc = pc, ![p].failing = TRUE, ![p].own = own]

BootInit ==
  /\ files \in SUBSET {Legacy[i] : i \in DOMAIN Legacy}
  /\ schema \in {{}, {"sessions"}, {"sessions", "readings"}}
  /\ applied = {} /\ lock = None /\ deaths = 0 /\ filled = FALSE
  /\ half = (schema = {"sessions"})
  /\ boot = [p \in Procs |-> Off]

StartBootstrap(p) ==
  /\ At(p, "off")
  /\ boot' = [boot EXCEPT ![p] = [Off EXCEPT !.pc = "lock legacy", !.booted = TRUE]]
  /\ UNCHANGED <<files, schema, applied, lock, half, filled, deaths>>

\* SKIP_DB_BOOTSTRAP, or python -m app.workers.runner.
StartWithoutBootstrap(p) ==
  /\ At(p, "off")
  /\ boot' = [boot EXCEPT ![p] = [Off EXCEPT !.pc = "up"]]
  /\ UNCHANGED <<files, schema, applied, lock, half, filled, deaths>>

AfterLock(p) == IF At(p, "lock legacy") THEN "legacy" ELSE "next"

\* Slip: pg_try_advisory_lock, and on whatever it answers.
TryAdvisoryLock(p) ==
  /\ boot[p].pc \in {"lock legacy", "lock"}
  /\ lock' = IF lock = None THEN p ELSE lock
  /\ Go(p, AfterLock(p))
  /\ UNCHANGED <<files, schema, applied, half, filled, deaths>>

AdvisoryLock(p) ==
  /\ boot[p].pc \in {"lock legacy", "lock"} /\ lock = None /\ lock' = p
  /\ Go(p, AfterLock(p))
  /\ UNCHANGED <<files, schema, applied, half, filled, deaths>>

LegacyTablesExist(p) ==
  /\ At(p, "legacy")
  /\ Go(p, IF "sessions" \in schema THEN "unlock legacy" ELSE "legacy files")
  /\ UNCHANGED <<files, schema, applied, lock, half, filled, deaths>>

\* Each file is committed for itself. After an error the unlock in the finally
\* fails in the aborted transaction, and the pooled connection keeps the lock.
ApplyLegacyFile(p) ==
  /\ At(p, "legacy files")
  /\ LET k == boot[p].k
     IN \/ /\ k > Len(Legacy) /\ Go(p, "unlock legacy") /\ UNCHANGED schema
        \/ /\ k <= Len(Legacy)
           /\ schema' = schema \cup ({Legacy[k]} \cap files)
           /\ boot' = [boot EXCEPT ![p].k = k + 1]
        \/ /\ k <= Len(Legacy) /\ Legacy[k] \in files
           /\ Fails(p, "failed", TRUE) /\ UNCHANGED schema
  /\ half' = (half \/ (boot'[p].failing /\ "sessions" \in schema))
  /\ UNCHANGED <<files, applied, lock, filled, deaths>>

IsApplied(p) ==
  /\ At(p, "next")
  /\ LET k == boot[p].k
     IN IF k \notin Versions THEN Go(p, "unlock")
        ELSE boot' = [boot EXCEPT ![p].pc = IF k \in applied THEN "next" ELSE "execute",
                                  ![p].k = IF k \in applied THEN k + 1 ELSE k]
  /\ UNCHANGED <<files, schema, applied, lock, half, filled, deaths>>

\* The SQL and its row are one transaction: a version that another process has
\* recorded meanwhile, a missing table or any error rolls both back.
ApplyMigration(p) ==
  /\ At(p, "execute")
  /\ LET k == boot[p].k
     IN \/ /\ k \notin applied /\ (AltersSessions(k) => "sessions" \in schema)
           /\ applied' = applied \cup {k} /\ schema' = schema \cup {Creates[k]}
           /\ boot' = [boot EXCEPT ![p].pc = "next", ![p].k = k + 1]
        \/ /\ Fails(p, "unlock", k \notin applied) /\ UNCHANGED <<applied, schema>>
  /\ UNCHANGED <<files, lock, half, filled, deaths>>

AfterUnlock(p) ==
  IF At(p, "unlock legacy") THEN "lock" ELSE IF boot[p].failing THEN "failed" ELSE "backfill"

\* Slip: no unlock after the migrations; the connection goes back to the pool.
UnlockLegacyOnly(p) ==
  /\ boot[p].pc \in {"unlock legacy", "unlock"}
  /\ lock' = IF lock = p /\ At(p, "unlock legacy") THEN None ELSE lock
  /\ Go(p, AfterUnlock(p))
  /\ UNCHANGED <<files, schema, applied, half, filled, deaths>>

AdvisoryUnlock(p) ==
  /\ boot[p].pc \in {"unlock legacy", "unlock"}
  /\ lock' = IF lock = p THEN None ELSE lock
  /\ Go(p, AfterUnlock(p))
  /\ UNCHANGED <<files, schema, applied, half, filled, deaths>>

\* Two statements, one transaction: the sessions' profiles, then those of the
\* readings. A missing table is caught, but the transaction is lost: after the
\* first one the second raises, after the second one the commit rolls back.
Backfill(p) ==
  /\ At(p, "backfill")
  /\ IF "profiles" \in schema /\ "sessions" \in schema
     THEN Go(p, "up") /\ filled' = (filled \/ "readings" \in schema)
     ELSE Fails(p, "failed", TRUE) /\ UNCHANGED filled
  /\ UNCHANGED <<files, schema, applied, lock, half, deaths>>

Gone(p) ==
  /\ boot' = [boot EXCEPT ![p] = Off]
  /\ lock' = IF lock = p THEN None ELSE lock
  /\ UNCHANGED <<files, schema, applied, filled>>

\* The exception leaves the lifespan, and the process ends.
ExitFailed(p) == At(p, "failed") /\ Gone(p) /\ UNCHANGED <<half, deaths>>

Dies(p) ==
  /\ ~At(p, "off") /\ deaths < MaxDeaths /\ deaths' = deaths + 1 /\ Gone(p)
  /\ half' = (half \/ (At(p, "legacy files") /\ "sessions" \in schema /\ boot[p].k <= Len(Legacy)))

BootStep(p) ==
  \/ AdvisoryLock(p) \/ LegacyTablesExist(p) \/ ApplyLegacyFile(p) \/ IsApplied(p)
  \/ ApplyMigration(p) \/ AdvisoryUnlock(p) \/ Backfill(p) \/ ExitFailed(p)

BootNext ==
  \E p \in Procs : StartBootstrap(p) \/ StartWithoutBootstrap(p) \/ BootStep(p) \/ Dies(p)

\* What other operations do beside it is in Maintenance.
BootSpec == BootInit /\ [][BootNext]_bootVars

(* ---- what must hold --------------------------------------------------------- *)

(* A process that serves after its bootstrap has every migration and the legacy *)
(* tables that are deployed, unless a bootstrap was once cut or failed between  *)
(* the two legacy files: the next ones see the sessions and leave the readings  *)
(* out. The profiles of old sessions are filled in just if the readings are     *)
(* there.                                                                       *)
ServesWhatItNeeds ==
  \A p \in Procs : At(p, "up") /\ boot[p].booted =>
    /\ applied = Versions
    /\ "readings" \in files => "readings" \in schema \/ half
    /\ "readings" \in schema <=> filled

(* No bootstrap fails because of another one: a process that gives up had an    *)
(* error of its own statements.                                                 *)
BootsFailAlone == \A p \in Procs : boot[p].failing => boot[p].own

(* Both: however bootstraps meet, what serves is whole and what fails is at     *)
(* fault itself.                                                                *)
BootsAreSound == ServesWhatItNeeds /\ BootsFailAlone

(* Whoever dies, fails or keeps the lock: a bootstrap that began comes to an    *)
(* end, and a process whose bootstrap failed is gone.                           *)
BootsEnd ==
  \A p \in Procs : ~(boot[p].pc \in {"off", "up"}) ~> boot[p].pc \in {"off", "up"}
=============================================================================
