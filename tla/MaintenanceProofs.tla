------------------------- MODULE MaintenanceProofs -------------------------
(* However many processes start at once, with any migrations, deaths and       *)
(* failures: what serves after its bootstrap is whole, and no bootstrap fails  *)
(* because of another one. The operations beside them, for any processes and   *)
(* any tables in any order. And the uploads of pictures, for any number.       *)
EXTENDS Maintenance, Media, TLAPS

(* ---- bootstrap, by itself ---------------------------------------------------- *)

Locked == {"legacy", "legacy files", "unlock legacy", "next", "execute", "unlock"}
PCs == Locked \cup {"off", "lock legacy", "lock", "backfill", "up", "failed"}

Process == [pc : PCs, k : Nat \ {0}, booted : BOOLEAN, failing : BOOLEAN, own : BOOLEAN]

BootTypeOK ==
  /\ boot \in [Procs -> Process]
  /\ lock \in Procs \cup {None}
  /\ applied \subseteq Versions
  /\ half \in BOOLEAN /\ filled \in BOOLEAN

\* Who is between the lock and the unlock has the lock.
LockIsHeld == \A p \in Procs : boot[p].pc \in Locked => lock = p

\* The migrations before k are recorded, and k is not while it is executed.
Ordered(p) ==
  /\ boot[p].pc \notin {"unlock", "failed"} => ~boot[p].failing
  /\ boot[p].pc \in {"next", "execute"} => \A v \in Versions : v < boot[p].k => v \in applied
  /\ boot[p].pc = "execute" => boot[p].k \in Versions /\ boot[p].k \notin applied
  /\ boot[p].pc = "unlock" /\ ~boot[p].failing => applied = Versions
  /\ boot[p].pc = "backfill" => applied = Versions
  /\ boot[p].pc = "up" /\ boot[p].booted => applied = Versions

InOrder == \A p \in Procs : Ordered(p)

\* The legacy files run only where the sessions were missing, so before the
\* migration that alters them was ever applied.
LegacyComesFirst ==
  /\ Len(Creates) \in applied => "sessions" \in schema
  /\ \A p \in Procs : boot[p].pc = "legacy files" =>
       /\ Len(Creates) \notin applied
       /\ boot[p].k = 1 => "sessions" \notin schema

\* Sessions without readings: somebody is just between the two files, or was cut there.
HalfIsKnown ==
  "sessions" \in schema /\ "readings" \in files /\ "readings" \notin schema /\ ~half =>
    \E q \in Procs : boot[q].pc = "legacy files" /\ boot[q].k = 2

FilledIsReal ==
  /\ filled => "readings" \in schema
  /\ \A p \in Procs : boot[p].pc = "up" /\ boot[p].booted => ("readings" \in schema => filled)

BootInv ==
  /\ BootTypeOK /\ LockIsHeld /\ InOrder /\ LegacyComesFirst /\ HalfIsKnown /\ FilledIsReal
  /\ BootsFailAlone

LEMMA CreatesFacts ==
  /\ Len(Creates) \in Versions /\ Versions \subseteq Nat
  /\ \A v \in Versions : Creates[v] # "sessions" /\ Creates[v] # "readings"
  /\ \A v \in Versions : v \in Nat /\ ~(v < 1)
  /\ \A k \in Nat \ {0} : k \notin Versions => \A v \in Versions : v < k
BY BootstrapAssumption DEF Versions

LEMMA TwoLegacyFiles ==
  /\ Len(Legacy) = 2 /\ Legacy[1] = "sessions" /\ Legacy[2] = "readings"
  /\ 2 <= Len(Legacy)
  /\ \A k \in Nat \ {0} : k <= Len(Legacy) <=> k = 1 \/ k = 2
  /\ \A k \in Nat \ {0} : k > Len(Legacy) => k # 2
BY DEF Legacy

LEMMA FreshIsAProcess ==
  ASSUME NEW pc \in PCs, NEW booted \in BOOLEAN
  PROVE  [pc |-> pc, k |-> 1, booted |-> booted, failing |-> FALSE, own |-> FALSE] \in Process
BY DEF Process

LEMMA OffIsAProcess == Off \in Process
<1>1. "off" \in PCs  BY DEF PCs
<1> QED BY <1>1, FreshIsAProcess DEF Off

LEMMA BootStarts == BootInit => BootInv
<1> SUFFICES ASSUME BootInit PROVE BootInv
  OBVIOUS
<1>1. BootTypeOK
  <2>1. boot \in [Procs -> Process]  BY OffIsAProcess DEF BootInit
  <2>2. half \in BOOLEAN /\ filled \in BOOLEAN  BY Zenon DEF BootInit
  <2> QED BY <2>1, <2>2 DEF BootTypeOK, BootInit
<1>2. \A p \in Procs : boot[p].pc = "off" /\ boot[p].failing = FALSE  BY DEF BootInit, Off
<1>3. LockIsHeld /\ InOrder  BY <1>2 DEF LockIsHeld, InOrder, Ordered, Locked
<1>4. LegacyComesFirst  BY <1>2 DEF LegacyComesFirst, BootInit
<1>5. HalfIsKnown  BY DEF HalfIsKnown, BootInit
<1>6. FilledIsReal  BY <1>2 DEF FilledIsReal, BootInit
<1>7. BootsFailAlone  BY <1>2 DEF BootsFailAlone
<1> QED BY <1>1, <1>3, <1>4, <1>5, <1>6, <1>7 DEF BootInv

(* ---- how one process moves ---------------------------------------------------- *)

\* Nobody but p moves, and what p is now is a process.
Alone(p) ==
  /\ boot' \in [Procs -> Process]
  /\ \A q \in Procs : q # p => boot'[q] = boot[q]

\* What an action that does not fail leaves of the record of p.
KeepsFlags(p) ==
  /\ boot'[p].booted = boot[p].booted
  /\ boot'[p].failing = boot[p].failing
  /\ boot'[p].own = boot[p].own

LEMMA StepMoves ==
  ASSUME BootTypeOK, NEW p \in Procs, NEW pc \in PCs, NEW k \in Nat \ {0},
         boot' = [boot EXCEPT ![p].pc = pc, ![p].k = k]
  PROVE  Alone(p) /\ KeepsFlags(p) /\ boot'[p].pc = pc /\ boot'[p].k = k
<1>1. PICK r \in Process : r = [[boot[p] EXCEPT !.pc = pc] EXCEPT !.k = k]
  BY DEF BootTypeOK, Process
<1>2. boot' = [boot EXCEPT ![p] = r]  BY <1>1 DEF BootTypeOK
<1>3. r.booted = boot[p].booted /\ r.failing = boot[p].failing /\ r.own = boot[p].own
      /\ r.pc = pc /\ r.k = k
  BY <1>1 DEF BootTypeOK, Process
<1>4. Alone(p) /\ boot'[p] = r  BY <1>2 DEF Alone, BootTypeOK
<1> QED BY <1>3, <1>4 DEF KeepsFlags
LEMMA GoMoves ==
  ASSUME BootTypeOK, NEW p \in Procs, NEW pc \in PCs, Go(p, pc)
  PROVE  Alone(p) /\ KeepsFlags(p) /\ boot'[p].pc = pc /\ boot'[p].k = 1
<1>1. boot' = [boot EXCEPT ![p].pc = pc, ![p].k = 1]  BY DEF Go
<1>2. 1 \in Nat \ {0}  OBVIOUS
<1> QED BY <1>1, <1>2, StepMoves

LEMMA FailMoves ==
  ASSUME BootTypeOK, NEW p \in Procs, NEW pc \in PCs, NEW own \in BOOLEAN, Fails(p, pc, own)
  PROVE  /\ Alone(p) /\ boot'[p].booted = boot[p].booted
         /\ boot'[p].failing = TRUE /\ boot'[p].own = own
         /\ boot'[p].pc = pc /\ boot'[p].k = boot[p].k
<1>1. PICK r \in Process : r = [[[boot[p] EXCEPT !.pc = pc] EXCEPT !.failing = TRUE] EXCEPT !.own = own]
  BY DEF BootTypeOK, Process
<1>2. boot' = [boot EXCEPT ![p] = r]  BY <1>1 DEF Fails, BootTypeOK
<1>3. r.booted = boot[p].booted /\ r.failing = TRUE /\ r.own = own /\ r.pc = pc /\ r.k = boot[p].k
  BY <1>1 DEF BootTypeOK, Process
<1>4. Alone(p) /\ boot'[p] = r  BY <1>2 DEF Alone, BootTypeOK
<1> QED BY <1>3, <1>4

\* A process that starts or is gone.
LEMMA FreshMoves ==
  ASSUME BootTypeOK, NEW p \in Procs, NEW r \in Process, boot' = [boot EXCEPT ![p] = r]
  PROVE  Alone(p) /\ boot'[p] = r
BY DEF Alone, BootTypeOK

LEMMA GoneMoves ==
  ASSUME BootTypeOK, NEW p \in Procs, Gone(p)
  PROVE  Alone(p) /\ boot'[p].pc = "off" /\ boot'[p].failing = FALSE
<1>1. Alone(p) /\ boot'[p] = Off  BY OffIsAProcess, FreshMoves DEF Gone
<1> QED BY <1>1 DEF Off

LEMMA StartMoves ==
  ASSUME BootTypeOK, NEW p \in Procs, StartBootstrap(p)
  PROVE  Alone(p) /\ boot'[p].pc = "lock legacy" /\ boot'[p].failing = FALSE
<1>1. PICK r : r = [Off EXCEPT !.pc = "lock legacy", !.booted = TRUE]  OBVIOUS
<1>2. "lock legacy" \in PCs  BY DEF PCs
<1>3. r \in Process  BY <1>1, <1>2, OffIsAProcess DEF Process
<1>4. r.pc = "lock legacy" /\ r.failing = FALSE  BY <1>1 DEF Off
<1>5. boot' = [boot EXCEPT ![p] = r]  BY <1>1 DEF StartBootstrap
<1>6. Alone(p) /\ boot'[p] = r  BY <1>3, <1>5, FreshMoves
<1> QED BY <1>4, <1>6

LEMMA StartWithoutMoves ==
  ASSUME BootTypeOK, NEW p \in Procs, StartWithoutBootstrap(p)
  PROVE  Alone(p) /\ boot'[p].pc = "up" /\ boot'[p].failing = FALSE /\ boot'[p].booted = FALSE
<1>1. PICK r : r = [Off EXCEPT !.pc = "up"]  OBVIOUS
<1>2. "up" \in PCs  BY DEF PCs
<1>3. r \in Process  BY <1>1, <1>2, OffIsAProcess DEF Process
<1>4. r.pc = "up" /\ r.failing = FALSE /\ r.booted = FALSE  BY <1>1 DEF Off
<1>5. boot' = [boot EXCEPT ![p] = r]  BY <1>1 DEF StartWithoutBootstrap
<1>6. Alone(p) /\ boot'[p] = r  BY <1>3, <1>5, FreshMoves
<1> QED BY <1>4, <1>6

(* ---- every step keeps the invariant ------------------------------------- *)

LEMMA StartKeeps == ASSUME BootInv, NEW p \in Procs, StartBootstrap(p) PROVE BootInv'
<1>1. Alone(p) /\ boot[p].pc = "off" /\ boot'[p].pc = "lock legacy" /\ boot'[p].failing = FALSE
  BY StartMoves DEF StartBootstrap, At, BootInv, AfterLock
<1>2. BootTypeOK'  BY <1>1 DEF BootInv, BootTypeOK, Alone, StartBootstrap, Versions
<1>3. LockIsHeld'  BY <1>1, BootstrapAssumption DEF BootInv, BootTypeOK, LockIsHeld, Locked, Alone, KeepsFlags, StartBootstrap
<1>4. InOrder'
  <2>1. ASSUME NEW q \in Procs, q # p PROVE Ordered(q)'
    BY <1>1, <2>1 DEF BootInv, InOrder, Ordered, Alone, StartBootstrap
  <2>2. Ordered(p)'
    BY <1>1, CreatesFacts DEF BootInv, BootTypeOK, InOrder, Ordered, Alone, KeepsFlags, StartBootstrap
  <2> QED BY <2>1, <2>2 DEF InOrder
<1>5. LegacyComesFirst'  BY <1>1 DEF BootInv, BootTypeOK, LegacyComesFirst, Alone, KeepsFlags, StartBootstrap
<1>6. HalfIsKnown'  BY <1>1 DEF BootInv, BootTypeOK, HalfIsKnown, Alone, KeepsFlags, StartBootstrap
<1>7. FilledIsReal'  BY <1>1 DEF BootInv, BootTypeOK, FilledIsReal, Alone, KeepsFlags, StartBootstrap
<1>8. BootsFailAlone'  BY <1>1 DEF BootInv, BootTypeOK, BootsFailAlone, Alone, KeepsFlags, StartBootstrap
<1> QED BY <1>2, <1>3, <1>4, <1>5, <1>6, <1>7, <1>8 DEF BootInv

LEMMA StartWithoutKeeps == ASSUME BootInv, NEW p \in Procs, StartWithoutBootstrap(p) PROVE BootInv'
<1>1. Alone(p) /\ boot[p].pc = "off" /\ boot'[p].pc = "up" /\ boot'[p].failing = FALSE /\ boot'[p].booted = FALSE
  BY StartWithoutMoves DEF StartWithoutBootstrap, At, BootInv, AfterLock
<1>2. BootTypeOK'  BY <1>1 DEF BootInv, BootTypeOK, Alone, StartWithoutBootstrap, Versions
<1>3. LockIsHeld'  BY <1>1, BootstrapAssumption DEF BootInv, BootTypeOK, LockIsHeld, Locked, Alone, KeepsFlags, StartWithoutBootstrap
<1>4. InOrder'
  <2>1. ASSUME NEW q \in Procs, q # p PROVE Ordered(q)'
    BY <1>1, <2>1 DEF BootInv, InOrder, Ordered, Alone, StartWithoutBootstrap
  <2>2. Ordered(p)'
    BY <1>1, CreatesFacts DEF BootInv, BootTypeOK, InOrder, Ordered, Alone, KeepsFlags, StartWithoutBootstrap
  <2> QED BY <2>1, <2>2 DEF InOrder
<1>5. LegacyComesFirst'  BY <1>1 DEF BootInv, BootTypeOK, LegacyComesFirst, Alone, KeepsFlags, StartWithoutBootstrap
<1>6. HalfIsKnown'  BY <1>1 DEF BootInv, BootTypeOK, HalfIsKnown, Alone, KeepsFlags, StartWithoutBootstrap
<1>7. FilledIsReal'  BY <1>1 DEF BootInv, BootTypeOK, FilledIsReal, Alone, KeepsFlags, StartWithoutBootstrap
<1>8. BootsFailAlone'  BY <1>1 DEF BootInv, BootTypeOK, BootsFailAlone, Alone, KeepsFlags, StartWithoutBootstrap
<1> QED BY <1>2, <1>3, <1>4, <1>5, <1>6, <1>7, <1>8 DEF BootInv

LEMMA LockKeeps == ASSUME BootInv, NEW p \in Procs, AdvisoryLock(p) PROVE BootInv'
<1>0. AfterLock(p) \in PCs  BY DEF AfterLock, PCs, Locked
<1>1. Alone(p) /\ KeepsFlags(p) /\ boot[p].pc \in {"lock legacy", "lock"} /\ boot'[p].pc \in {"legacy", "next"} /\ boot'[p].k = 1
  BY <1>0, GoMoves DEF AdvisoryLock, At, BootInv, AfterLock
<1>2. BootTypeOK'  BY <1>1 DEF BootInv, BootTypeOK, Alone, AdvisoryLock, Versions
<1>3. LockIsHeld'  BY <1>1, BootstrapAssumption DEF BootInv, BootTypeOK, LockIsHeld, Locked, Alone, KeepsFlags, AdvisoryLock
<1>4. InOrder'
  <2>1. ASSUME NEW q \in Procs, q # p PROVE Ordered(q)'
    BY <1>1, <2>1 DEF BootInv, InOrder, Ordered, Alone, AdvisoryLock
  <2>2. Ordered(p)'
    <3>1. ~boot'[p].failing  BY <1>1 DEF BootInv, InOrder, Ordered, KeepsFlags
    <3>2. \A v \in Versions : ~(v < boot'[p].k)  BY <1>1, CreatesFacts
    <3> QED BY <1>1, <3>1, <3>2 DEF Ordered
  <2> QED BY <2>1, <2>2 DEF InOrder
<1>5. LegacyComesFirst'  BY <1>1 DEF BootInv, BootTypeOK, LegacyComesFirst, Alone, KeepsFlags, AdvisoryLock
<1>6. HalfIsKnown'  BY <1>1 DEF BootInv, BootTypeOK, HalfIsKnown, Alone, KeepsFlags, AdvisoryLock
<1>7. FilledIsReal'  BY <1>1 DEF BootInv, BootTypeOK, FilledIsReal, Alone, KeepsFlags, AdvisoryLock
<1>8. BootsFailAlone'  BY <1>1 DEF BootInv, BootTypeOK, BootsFailAlone, Alone, KeepsFlags, AdvisoryLock
<1> QED BY <1>2, <1>3, <1>4, <1>5, <1>6, <1>7, <1>8 DEF BootInv
LEMMA LookKeeps == ASSUME BootInv, NEW p \in Procs, LegacyTablesExist(p) PROVE BootInv'
<1>0. "unlock legacy" \in PCs /\ "legacy files" \in PCs  BY DEF PCs, Locked
<1>1. /\ Alone(p) /\ KeepsFlags(p) /\ boot[p].pc = "legacy" /\ boot'[p].k = 1
      /\ boot'[p].pc = IF "sessions" \in schema THEN "unlock legacy" ELSE "legacy files"
  BY <1>0, GoMoves DEF LegacyTablesExist, At, BootInv
<1>2. BootTypeOK'  BY <1>1 DEF BootInv, BootTypeOK, Alone, LegacyTablesExist, Versions
<1>3. LockIsHeld'  BY <1>1, BootstrapAssumption DEF BootInv, BootTypeOK, LockIsHeld, Locked, Alone, KeepsFlags, LegacyTablesExist
<1>4. InOrder'
  <2>1. ASSUME NEW q \in Procs, q # p PROVE Ordered(q)'
    BY <1>1, <2>1 DEF BootInv, InOrder, Ordered, Alone, LegacyTablesExist
  <2>2. Ordered(p)'
    BY <1>1, CreatesFacts DEF BootInv, BootTypeOK, InOrder, Ordered, Alone, KeepsFlags, LegacyTablesExist
  <2> QED BY <2>1, <2>2 DEF InOrder
<1>5. LegacyComesFirst'  BY <1>1 DEF BootInv, BootTypeOK, LegacyComesFirst, Alone, KeepsFlags, LegacyTablesExist
<1>6. HalfIsKnown'  BY <1>1 DEF BootInv, BootTypeOK, HalfIsKnown, Alone, KeepsFlags, LegacyTablesExist
<1>7. FilledIsReal'  BY <1>1 DEF BootInv, BootTypeOK, FilledIsReal, Alone, KeepsFlags, LegacyTablesExist
<1>8. BootsFailAlone'  BY <1>1 DEF BootInv, BootTypeOK, BootsFailAlone, Alone, KeepsFlags, LegacyTablesExist
<1> QED BY <1>2, <1>3, <1>4, <1>5, <1>6, <1>7, <1>8 DEF BootInv

LEMMA UnlockKeeps == ASSUME BootInv, NEW p \in Procs, AdvisoryUnlock(p) PROVE BootInv'
<1>0. AfterUnlock(p) \in PCs  BY DEF AfterUnlock, PCs, Locked
<1>1. /\ Alone(p) /\ KeepsFlags(p) /\ boot[p].pc \in {"unlock legacy", "unlock"} /\ boot'[p].pc = AfterUnlock(p)
      /\ boot'[p].k = 1
  BY <1>0, GoMoves DEF AdvisoryUnlock, At, BootInv
<1>2. BootTypeOK'  BY <1>1 DEF BootInv, BootTypeOK, Alone, AdvisoryUnlock, Versions
<1>3. LockIsHeld'  BY <1>1, BootstrapAssumption DEF BootInv, BootTypeOK, LockIsHeld, Locked, Alone, KeepsFlags, AdvisoryUnlock, AfterUnlock, At
<1>4. InOrder'
  <2>1. ASSUME NEW q \in Procs, q # p PROVE Ordered(q)'
    BY <1>1, <2>1 DEF BootInv, InOrder, Ordered, Alone, AdvisoryUnlock
  <2>2. Ordered(p)'
    BY <1>1, CreatesFacts DEF BootInv, BootTypeOK, InOrder, Ordered, Alone, KeepsFlags, AdvisoryUnlock, AfterUnlock, At
  <2> QED BY <2>1, <2>2 DEF InOrder
<1>5. LegacyComesFirst'  BY <1>1 DEF BootInv, BootTypeOK, LegacyComesFirst, Alone, KeepsFlags, AdvisoryUnlock, AfterUnlock, At
<1>6. HalfIsKnown'  BY <1>1 DEF BootInv, BootTypeOK, HalfIsKnown, Alone, KeepsFlags, AdvisoryUnlock, AfterUnlock, At
<1>7. FilledIsReal'  BY <1>1 DEF BootInv, BootTypeOK, FilledIsReal, Alone, KeepsFlags, AdvisoryUnlock, AfterUnlock, At
<1>8. BootsFailAlone'  BY <1>1 DEF BootInv, BootTypeOK, BootsFailAlone, Alone, KeepsFlags, AdvisoryUnlock, AfterUnlock, At
<1> QED BY <1>2, <1>3, <1>4, <1>5, <1>6, <1>7, <1>8 DEF BootInv

LEMMA BackfillKeeps == ASSUME BootInv, NEW p \in Procs, Backfill(p) PROVE BootInv'
<1>0. "up" \in PCs /\ "failed" \in PCs /\ TRUE \in BOOLEAN  BY DEF PCs
<1>1. /\ Alone(p) /\ boot[p].pc = "backfill" /\ boot'[p].booted = boot[p].booted
      /\ \/ boot'[p].pc = "up" /\ KeepsFlags(p) /\ filled' = (filled \/ "readings" \in schema)
         \/ boot'[p].pc = "failed" /\ boot'[p].failing = TRUE /\ boot'[p].own = TRUE /\ UNCHANGED filled
  BY <1>0, GoMoves, FailMoves DEF Backfill, At, BootInv, KeepsFlags
<1>2. BootTypeOK'  BY <1>1 DEF BootInv, BootTypeOK, Alone, Backfill, Versions
<1>3. LockIsHeld'  BY <1>1, BootstrapAssumption DEF BootInv, BootTypeOK, LockIsHeld, Locked, Alone, KeepsFlags, Backfill
<1>4. InOrder'
  <2>1. ASSUME NEW q \in Procs, q # p PROVE Ordered(q)'
    BY <1>1, <2>1 DEF BootInv, InOrder, Ordered, Alone, Backfill
  <2>2. Ordered(p)'
    BY <1>1, CreatesFacts DEF BootInv, BootTypeOK, InOrder, Ordered, Alone, KeepsFlags, Backfill
  <2> QED BY <2>1, <2>2 DEF InOrder
<1>5. LegacyComesFirst'  BY <1>1 DEF BootInv, BootTypeOK, LegacyComesFirst, Alone, KeepsFlags, Backfill
<1>6. HalfIsKnown'  BY <1>1 DEF BootInv, BootTypeOK, HalfIsKnown, Alone, KeepsFlags, Backfill
<1>7. FilledIsReal'
  <2>1. (filled => "readings" \in schema)'  BY <1>1 DEF BootInv, FilledIsReal, Backfill
  <2>2. ASSUME NEW q \in Procs, q # p, boot'[q].pc = "up", boot'[q].booted, "readings" \in schema'
        PROVE  filled'
    <3>1. boot[q].pc = "up" /\ boot[q].booted /\ "readings" \in schema
      BY <1>1, <2>2 DEF Alone, Backfill
    <3>2. filled  BY <3>1 DEF BootInv, FilledIsReal
    <3> QED BY <1>1, <3>2
  <2>3. boot'[p].pc = "up" /\ "readings" \in schema' => filled'  BY <1>1 DEF Backfill
  <2> QED BY <2>1, <2>2, <2>3 DEF FilledIsReal
<1>8. BootsFailAlone'  BY <1>1 DEF BootInv, BootTypeOK, BootsFailAlone, Alone, KeepsFlags, Backfill
<1> QED BY <1>2, <1>3, <1>4, <1>5, <1>6, <1>7, <1>8 DEF BootInv

LEMMA ExitKeeps == ASSUME BootInv, NEW p \in Procs, ExitFailed(p) PROVE BootInv'
<1>1. /\ Alone(p) /\ boot'[p].pc = "off" /\ boot'[p].failing = FALSE /\ boot[p].pc = "failed"
  BY GoneMoves DEF ExitFailed, At, BootInv
<1>2. BootTypeOK'  BY <1>1 DEF BootInv, BootTypeOK, Alone, ExitFailed, Gone, Versions
<1>3. LockIsHeld'  BY <1>1, BootstrapAssumption DEF BootInv, BootTypeOK, LockIsHeld, Locked, Alone, KeepsFlags, ExitFailed, Gone, At
<1>4. InOrder'
  <2>1. ASSUME NEW q \in Procs, q # p PROVE Ordered(q)'
    BY <1>1, <2>1 DEF BootInv, InOrder, Ordered, Alone, ExitFailed, Gone
  <2>2. Ordered(p)'
    BY <1>1, CreatesFacts DEF BootInv, BootTypeOK, InOrder, Ordered, Alone, KeepsFlags, ExitFailed, Gone, At
  <2> QED BY <2>1, <2>2 DEF InOrder
<1>5. LegacyComesFirst'  BY <1>1 DEF BootInv, BootTypeOK, LegacyComesFirst, Alone, KeepsFlags, ExitFailed, Gone, At
<1>6. HalfIsKnown'  BY <1>1 DEF BootInv, BootTypeOK, HalfIsKnown, Alone, KeepsFlags, ExitFailed, Gone, At
<1>7. FilledIsReal'  BY <1>1 DEF BootInv, BootTypeOK, FilledIsReal, Alone, KeepsFlags, ExitFailed, Gone, At
<1>8. BootsFailAlone'  BY <1>1 DEF BootInv, BootTypeOK, BootsFailAlone, Alone, KeepsFlags, ExitFailed, Gone, At
<1> QED BY <1>2, <1>3, <1>4, <1>5, <1>6, <1>7, <1>8 DEF BootInv

LEMMA DeathKeeps == ASSUME BootInv, NEW p \in Procs, Dies(p) PROVE BootInv'
<1>1. /\ Alone(p) /\ boot'[p].pc = "off" /\ boot'[p].failing = FALSE /\ boot[p].pc # "off"
  BY GoneMoves DEF Dies, At, BootInv
<1>2. BootTypeOK'  BY <1>1 DEF BootInv, BootTypeOK, Alone, Dies, Gone, Versions
<1>3. LockIsHeld'  BY <1>1, BootstrapAssumption DEF BootInv, BootTypeOK, LockIsHeld, Locked, Alone, KeepsFlags, Dies, Gone, At
<1>4. InOrder'
  <2>1. ASSUME NEW q \in Procs, q # p PROVE Ordered(q)'
    BY <1>1, <2>1 DEF BootInv, InOrder, Ordered, Alone, Dies, Gone
  <2>2. Ordered(p)'
    BY <1>1, CreatesFacts DEF BootInv, BootTypeOK, InOrder, Ordered, Alone, KeepsFlags, Dies, Gone, At
  <2> QED BY <2>1, <2>2 DEF InOrder
<1>5. LegacyComesFirst'  BY <1>1 DEF BootInv, BootTypeOK, LegacyComesFirst, Alone, KeepsFlags, Dies, Gone, At
<1>6. HalfIsKnown'
  <2> SUFFICES ASSUME "sessions" \in schema, "readings" \in files, "readings" \notin schema, ~half'
               PROVE  \E q \in Procs : boot'[q].pc = "legacy files" /\ boot'[q].k = 2
    BY DEF HalfIsKnown, Dies, Gone
  <2>0. ~half /\ ~(boot[p].pc = "legacy files" /\ boot[p].k <= Len(Legacy))  BY DEF Dies, At
  <2>1. ~half /\ ~(boot[p].pc = "legacy files" /\ boot[p].k = 2)  BY <2>0, TwoLegacyFiles
  <2>2. PICK q \in Procs : boot[q].pc = "legacy files" /\ boot[q].k = 2
    BY <2>1 DEF BootInv, HalfIsKnown
  <2>3. q # p  BY <2>1, <2>2
  <2> QED BY <1>1, <2>2, <2>3 DEF Alone
<1>7. FilledIsReal'  BY <1>1 DEF BootInv, BootTypeOK, FilledIsReal, Alone, KeepsFlags, Dies, Gone, At
<1>8. BootsFailAlone'  BY <1>1 DEF BootInv, BootTypeOK, BootsFailAlone, Alone, KeepsFlags, Dies, Gone, At
<1> QED BY <1>2, <1>3, <1>4, <1>5, <1>6, <1>7, <1>8 DEF BootInv

\* One process at most is between the lock and the unlock.
LEMMA OthersAreOutside ==
  ASSUME BootInv, NEW p \in Procs, boot[p].pc \in Locked, NEW q \in Procs, q # p
  PROVE  boot[q].pc \notin Locked
BY DEF BootInv, LockIsHeld

LEMMA Counting == (\A k \in Nat \ {0} : k + 1 \in Nat \ {0} /\ k + 1 # 1) /\ 1 + 1 = 2
OBVIOUS

\* Who is at the legacy files sees a database nobody serves after a bootstrap.
LEMMA NobodyServesYet ==
  ASSUME BootInv, NEW p \in Procs, boot[p].pc = "legacy files", NEW q \in Procs
  PROVE  ~(boot[q].pc = "up" /\ boot[q].booted)
BY CreatesFacts DEF BootInv, InOrder, Ordered, LegacyComesFirst

LEMMA LegacyFileKeeps == ASSUME BootInv, NEW p \in Procs, ApplyLegacyFile(p) PROVE BootInv'
<1>1. boot[p].pc = "legacy files" /\ boot[p].pc \in Locked /\ boot[p].failing = FALSE
      /\ boot[p].k \in Nat \ {0} /\ UNCHANGED <<files, applied, lock, filled>>
  <2>1. ~boot[p].failing /\ boot[p].failing \in BOOLEAN
    BY DEF ApplyLegacyFile, At, BootInv, BootTypeOK, Process, InOrder, Ordered
  <2>2. boot[p].k \in Nat \ {0}  BY DEF BootInv, BootTypeOK, Process
  <2> QED BY <2>1, <2>2 DEF ApplyLegacyFile, At, Locked
<1>2. \A q \in Procs : q # p => boot[q].pc \notin Locked  BY <1>1, OthersAreOutside
<1>3. half' \in BOOLEAN /\ (half => half')
      /\ (boot'[p].failing /\ "sessions" \in schema => half')
  BY Zenon DEF ApplyLegacyFile
<1>4. CASE boot[p].k > Len(Legacy) /\ Go(p, "unlock legacy") /\ UNCHANGED schema
  <2>1. Alone(p) /\ KeepsFlags(p) /\ boot'[p].pc = "unlock legacy"
    BY <1>4, GoMoves DEF BootInv, PCs, Locked
  <2>2. BootTypeOK'  BY <1>1, <1>3, <2>1 DEF BootInv, BootTypeOK, Alone, Versions
  <2>3. LockIsHeld'  BY <1>1, <2>1 DEF BootInv, LockIsHeld, Locked, Alone
  <2>4. InOrder'  BY <1>1, <2>1 DEF BootInv, InOrder, Ordered, Alone, KeepsFlags
  <2>5. LegacyComesFirst'  BY <1>1, <1>4, <2>1 DEF BootInv, LegacyComesFirst, Alone
  <2>6. boot[p].k # 2  BY <1>1, <1>4, TwoLegacyFiles
  <2>7. HalfIsKnown'  BY <1>1, <1>3, <1>4, <2>1, <2>6 DEF BootInv, HalfIsKnown, Alone
  <2>8. FilledIsReal'  BY <1>1, <1>4, <2>1 DEF BootInv, FilledIsReal, Alone
  <2>9. BootsFailAlone'  BY <2>1 DEF BootInv, BootsFailAlone, Alone, KeepsFlags
  <2> QED BY <2>2, <2>3, <2>4, <2>5, <2>7, <2>8, <2>9 DEF BootInv
<1>5. CASE /\ boot[p].k <= Len(Legacy)
           /\ schema' = schema \cup ({Legacy[boot[p].k]} \cap files)
           /\ boot' = [boot EXCEPT ![p].k = boot[p].k + 1]
  <2>0. boot' = [boot EXCEPT ![p].pc = boot[p].pc, ![p].k = boot[p].k + 1]
    BY <1>5 DEF BootInv, BootTypeOK, Process
  <2>1. Alone(p) /\ KeepsFlags(p) /\ boot'[p].pc = "legacy files" /\ boot'[p].k = boot[p].k + 1
    <3>1. boot[p].pc \in PCs  BY <1>1 DEF PCs
    <3>2. boot[p].k + 1 \in Nat \ {0}  BY <1>1, Counting
    <3> QED BY <1>1, <2>0, <3>1, <3>2, StepMoves DEF BootInv
  <2>2. BootTypeOK'  BY <1>1, <1>3, <2>1 DEF BootInv, BootTypeOK, Alone, Versions
  <2>3. LockIsHeld'  BY <1>1, <2>1 DEF BootInv, LockIsHeld, Locked, Alone
  <2>4. InOrder'  BY <1>1, <2>1 DEF BootInv, InOrder, Ordered, Alone, KeepsFlags
  <2>5. LegacyComesFirst'
    <3>1. boot'[p].k # 1  BY <1>1, <2>1, Counting
    <3>2. (Len(Creates) \in applied => "sessions" \in schema)' /\ Len(Creates) \notin applied'
      BY <1>1, <1>5 DEF BootInv, LegacyComesFirst
    <3>3. \A q \in Procs : q # p => boot'[q].pc # "legacy files"
      BY <1>2, <2>1 DEF Alone, Locked
    <3> QED BY <3>1, <3>2, <3>3 DEF LegacyComesFirst
  <2>6. boot[p].k = 1 \/ boot[p].k = 2  BY <1>1, <1>5, TwoLegacyFiles
  <2>7. HalfIsKnown'
    <3>1. CASE boot[p].k = 1
      <4>1. boot'[p].k = 2  BY <2>1, <3>1, Counting
      <4> QED BY <2>1, <4>1 DEF HalfIsKnown
    <3>2. CASE boot[p].k = 2  BY <1>1, <1>5, <3>2, TwoLegacyFiles DEF HalfIsKnown
    <3> QED BY <2>6, <3>1, <3>2
  <2>8. FilledIsReal'
    BY <1>1, <1>5, <2>1, NobodyServesYet DEF BootInv, FilledIsReal, Alone
  <2>9. BootsFailAlone'  BY <2>1 DEF BootInv, BootsFailAlone, Alone, KeepsFlags
  <2> QED BY <2>2, <2>3, <2>4, <2>5, <2>7, <2>8, <2>9 DEF BootInv
<1>6. CASE /\ boot[p].k <= Len(Legacy) /\ Legacy[boot[p].k] \in files
           /\ Fails(p, "failed", TRUE) /\ UNCHANGED schema
  <2>1. Alone(p) /\ boot'[p].pc = "failed" /\ boot'[p].failing = TRUE /\ boot'[p].own = TRUE
    <3>1. "failed" \in PCs /\ TRUE \in BOOLEAN  BY DEF PCs
    <3> QED BY <1>6, <3>1, FailMoves DEF BootInv
  <2>2. BootTypeOK'  BY <1>1, <1>3, <2>1 DEF BootInv, BootTypeOK, Alone, Versions
  <2>3. LockIsHeld'  BY <1>1, <2>1 DEF BootInv, LockIsHeld, Locked, Alone
  <2>4. InOrder'  BY <1>1, <2>1 DEF BootInv, InOrder, Ordered, Alone
  <2>5. LegacyComesFirst'  BY <1>1, <1>6, <2>1 DEF BootInv, LegacyComesFirst, Alone
  <2>6. HalfIsKnown'  BY <1>3, <1>6, <2>1 DEF HalfIsKnown
  <2>7. FilledIsReal'  BY <1>1, <1>6, <2>1 DEF BootInv, FilledIsReal, Alone
  <2>8. BootsFailAlone'  BY <2>1 DEF BootInv, BootsFailAlone, Alone
  <2> QED BY <2>2, <2>3, <2>4, <2>5, <2>6, <2>7, <2>8 DEF BootInv
<1> QED BY <1>4, <1>5, <1>6 DEF ApplyLegacyFile

LEMMA IsAppliedKeeps == ASSUME BootInv, NEW p \in Procs, IsApplied(p) PROVE BootInv'
<1>1. /\ boot[p].pc = "next" /\ boot[p].pc \in Locked /\ ~boot[p].failing
      /\ boot[p].k \in Nat \ {0} /\ boot[p].k + 1 \in Nat \ {0}
      /\ UNCHANGED <<files, schema, applied, lock, half, filled>>
      /\ \A v \in Versions : v < boot[p].k => v \in applied
  BY DEF IsApplied, At, Locked, BootInv, BootTypeOK, Process, InOrder, Ordered
<1>2. /\ Alone(p) /\ KeepsFlags(p) /\ boot'[p].pc \in {"next", "execute", "unlock"}
      /\ boot'[p].pc = "unlock" => boot[p].k \notin Versions
      /\ boot'[p].pc = "execute" =>
           boot'[p].k = boot[p].k /\ boot[p].k \in Versions /\ boot[p].k \notin applied
      /\ boot'[p].pc = "next" => boot'[p].k = boot[p].k + 1 /\ boot[p].k \in applied
  <2>0. "next" \in PCs /\ "execute" \in PCs /\ "unlock" \in PCs  BY DEF PCs, Locked
  <2>1. CASE boot[p].k \notin Versions
    BY <2>0, <2>1, GoMoves DEF IsApplied, BootInv
  <2>2. CASE boot[p].k \in Versions /\ boot[p].k \in applied
    <3>1. boot' = [boot EXCEPT ![p].pc = "next", ![p].k = boot[p].k + 1]
      BY <2>2 DEF IsApplied
    <3> QED BY <1>1, <2>0, <2>2, <3>1, StepMoves DEF BootInv
  <2>3. CASE boot[p].k \in Versions /\ boot[p].k \notin applied
    <3>1. boot' = [boot EXCEPT ![p].pc = "execute", ![p].k = boot[p].k]
      BY <2>3 DEF IsApplied
    <3>2. Alone(p) /\ KeepsFlags(p) /\ boot'[p].pc = "execute" /\ boot'[p].k = boot[p].k
      BY <1>1, <2>0, <3>1, StepMoves DEF BootInv
    <3> QED BY <2>3, <3>2
  <2> QED BY <2>1, <2>2, <2>3
<1>3. BootTypeOK'  BY <1>1, <1>2 DEF BootInv, BootTypeOK, Alone, Versions
<1>4. LockIsHeld'  BY <1>1, <1>2 DEF BootInv, LockIsHeld, Locked, Alone
<1>5. InOrder'
  <2>1. ASSUME NEW q \in Procs, q # p PROVE Ordered(q)'
    BY <1>1, <1>2, <2>1 DEF BootInv, InOrder, Ordered, Alone
  <2>2. ~boot'[p].failing  BY <1>1, <1>2 DEF KeepsFlags
  <2>3. ASSUME boot'[p].pc = "unlock" PROVE Ordered(p)'
    <3>1. Versions \subseteq applied  BY <1>1, <1>2, <2>3, CreatesFacts
    <3>2. applied' = Versions  BY <1>1, <3>1 DEF BootInv, BootTypeOK
    <3> QED BY <2>3, <3>2 DEF Ordered
  <2>4. ASSUME boot'[p].pc = "execute" PROVE Ordered(p)'
    BY <1>1, <1>2, <2>2, <2>4 DEF Ordered
  <2>5. ASSUME boot'[p].pc = "next" PROVE Ordered(p)'
    <3>1. ASSUME NEW v \in Versions, v < boot'[p].k PROVE v \in applied
      <4>1. v < boot[p].k \/ v = boot[p].k  BY <1>1, <1>2, <2>5, <3>1, CreatesFacts
      <4> QED BY <1>1, <1>2, <2>5, <4>1
    <3> QED BY <1>1, <2>2, <2>5, <3>1 DEF Ordered
  <2>6. Ordered(p)'  BY <1>2, <2>3, <2>4, <2>5
  <2> QED BY <2>1, <2>6 DEF InOrder
<1>6. LegacyComesFirst'  BY <1>1, <1>2 DEF BootInv, LegacyComesFirst, Alone
<1>7. HalfIsKnown'  BY <1>1, <1>2 DEF BootInv, HalfIsKnown, Alone
<1>8. FilledIsReal'  BY <1>1, <1>2 DEF BootInv, FilledIsReal, Alone
<1>9. BootsFailAlone'  BY <1>1, <1>2 DEF BootInv, BootsFailAlone, Alone, KeepsFlags
<1> QED BY <1>3, <1>4, <1>5, <1>6, <1>7, <1>8, <1>9 DEF BootInv

LEMMA MigrationKeeps == ASSUME BootInv, NEW p \in Procs, ApplyMigration(p) PROVE BootInv'
<1>1. /\ boot[p].pc = "execute" /\ boot[p].pc \in Locked /\ ~boot[p].failing
      /\ boot[p].k \in Nat \ {0} /\ boot[p].k + 1 \in Nat \ {0}
      /\ boot[p].k \in Versions /\ boot[p].k \notin applied
      /\ UNCHANGED <<files, lock, half, filled>>
      /\ \A v \in Versions : v < boot[p].k => v \in applied
  BY DEF ApplyMigration, At, Locked, BootInv, BootTypeOK, Process, InOrder, Ordered
<1>2. \A q \in Procs : q # p => boot[q].pc \notin Locked  BY <1>1, OthersAreOutside
<1>3. CASE /\ AltersSessions(boot[p].k) => "sessions" \in schema
           /\ applied' = applied \cup {boot[p].k} /\ schema' = schema \cup {Creates[boot[p].k]}
           /\ boot' = [boot EXCEPT ![p].pc = "next", ![p].k = boot[p].k + 1]
  <2>1. Alone(p) /\ KeepsFlags(p) /\ boot'[p].pc = "next" /\ boot'[p].k = boot[p].k + 1
    <3>1. "next" \in PCs  BY DEF PCs, Locked
    <3>2. boot' = [boot EXCEPT ![p].pc = "next", ![p].k = boot[p].k + 1]  BY <1>3
    <3>3. boot[p].k + 1 \in Nat \ {0}  BY <1>1
    <3> QED BY <3>1, <3>2, <3>3, StepMoves DEF BootInv
  <2>2. /\ "sessions" \in schema' <=> "sessions" \in schema
        /\ "readings" \in schema' <=> "readings" \in schema
    BY <1>1, <1>3, CreatesFacts
  <2>3. BootTypeOK'  BY <1>1, <1>3, <2>1 DEF BootInv, BootTypeOK, Alone, Versions
  <2>4. LockIsHeld'  BY <1>1, <2>1 DEF BootInv, LockIsHeld, Locked, Alone
  <2>5. InOrder'
    <3>1. ASSUME NEW q \in Procs, q # p PROVE Ordered(q)'
      <4>1. boot[q].pc \notin {"next", "execute", "unlock"}  BY <1>2, <3>1 DEF Locked
      <4>2. Ordered(q) /\ boot'[q] = boot[q]  BY <2>1, <3>1 DEF BootInv, InOrder, Alone
      <4>3. applied # Versions  BY <1>1
      <4> QED BY <4>1, <4>2, <4>3 DEF Ordered
    <3>2. ~boot'[p].failing  BY <1>1, <2>1 DEF KeepsFlags
    <3>3. ASSUME NEW v \in Versions, v < boot'[p].k PROVE v \in applied'
      <4>1. v < boot[p].k \/ v = boot[p].k  BY <1>1, <2>1, <3>3, CreatesFacts
      <4> QED BY <1>1, <1>3, <4>1
    <3>4. Ordered(p)'  BY <2>1, <3>2, <3>3 DEF Ordered
    <3> QED BY <3>1, <3>4 DEF InOrder
  <2>6. LegacyComesFirst'
    <3>1. (Len(Creates) \in applied => "sessions" \in schema)'
      BY <1>3, <2>2 DEF BootInv, LegacyComesFirst, AltersSessions
    <3>2. \A q \in Procs : boot'[q].pc # "legacy files"
      BY <1>2, <2>1 DEF Alone, Locked
    <3> QED BY <3>1, <3>2 DEF LegacyComesFirst
  <2>7. HalfIsKnown'  BY <1>1, <2>1, <2>2 DEF BootInv, HalfIsKnown, Alone
  <2>8. FilledIsReal'  BY <1>1, <2>1, <2>2 DEF BootInv, FilledIsReal, Alone
  <2>9. BootsFailAlone'  BY <2>1 DEF BootInv, BootsFailAlone, Alone, KeepsFlags
  <2> QED BY <2>3, <2>4, <2>5, <2>6, <2>7, <2>8, <2>9 DEF BootInv
<1>4. CASE Fails(p, "unlock", boot[p].k \notin applied) /\ UNCHANGED <<applied, schema>>
  <2>1. Alone(p) /\ boot'[p].pc = "unlock" /\ boot'[p].failing = TRUE /\ boot'[p].own = TRUE
    <3>1. "unlock" \in PCs /\ TRUE \in BOOLEAN  BY DEF PCs, Locked
    <3>2. (boot[p].k \notin applied) = TRUE  BY <1>1
    <3>3. Fails(p, "unlock", TRUE)  BY <1>4, <3>2
    <3> QED BY <3>1, <3>3, FailMoves DEF BootInv
  <2>2. BootTypeOK'  BY <1>1, <1>4, <2>1 DEF BootInv, BootTypeOK, Alone, Versions
  <2>3. LockIsHeld'  BY <1>1, <2>1 DEF BootInv, LockIsHeld, Locked, Alone
  <2>4. InOrder'  BY <1>1, <1>4, <2>1 DEF BootInv, InOrder, Ordered, Alone
  <2>5. LegacyComesFirst'  BY <1>1, <1>4, <2>1 DEF BootInv, LegacyComesFirst, Alone
  <2>6. HalfIsKnown'  BY <1>1, <1>4, <2>1 DEF BootInv, HalfIsKnown, Alone
  <2>7. FilledIsReal'  BY <1>1, <1>4, <2>1 DEF BootInv, FilledIsReal, Alone
  <2>8. BootsFailAlone'  BY <2>1 DEF BootInv, BootsFailAlone, Alone
  <2> QED BY <2>2, <2>3, <2>4, <2>5, <2>6, <2>7, <2>8 DEF BootInv
<1> QED BY <1>3, <1>4 DEF ApplyMigration

(* ---- the theorem ---------------------------------------------------------------- *)

LEMMA BootStepKeeps == BootInv /\ [BootNext]_bootVars => BootInv'
<1> SUFFICES ASSUME BootInv, [BootNext]_bootVars PROVE BootInv'
  OBVIOUS
<1>1. CASE BootNext
  <2>1. PICK p \in Procs : StartBootstrap(p) \/ StartWithoutBootstrap(p) \/ BootStep(p) \/ Dies(p)
    BY <1>1 DEF BootNext
  <2> QED BY <2>1, StartKeeps, StartWithoutKeeps, LockKeeps, LookKeeps, LegacyFileKeeps,
             IsAppliedKeeps, MigrationKeeps, UnlockKeeps, BackfillKeeps, ExitKeeps, DeathKeeps
          DEF BootStep
<1>2. CASE UNCHANGED bootVars
  BY <1>2 DEF bootVars, BootInv, BootTypeOK, Versions, LockIsHeld, InOrder, Ordered, LegacyComesFirst,
              HalfIsKnown, FilledIsReal, BootsFailAlone
<1> QED BY <1>1, <1>2

LEMMA BootInvIsEnough == BootInv => BootsAreSound
<1> SUFFICES ASSUME BootInv PROVE ServesWhatItNeeds
  BY DEF BootsAreSound, BootInv
<1>1. SUFFICES ASSUME NEW p \in Procs, boot[p].pc = "up", boot[p].booted
               PROVE  /\ applied = Versions
                      /\ "readings" \in files => "readings" \in schema \/ half
                      /\ "readings" \in schema <=> filled
  BY DEF ServesWhatItNeeds, At
<1>2. applied = Versions  BY <1>1 DEF BootInv, InOrder, Ordered
<1>3. Len(Creates) \in applied  BY <1>2, CreatesFacts
<1>4. "sessions" \in schema /\ \A q \in Procs : boot[q].pc # "legacy files"
  BY <1>3 DEF BootInv, LegacyComesFirst
<1>5. "readings" \in files => "readings" \in schema \/ half  BY <1>4 DEF BootInv, HalfIsKnown
<1>6. "readings" \in schema <=> filled  BY <1>1 DEF BootInv, FilledIsReal
<1> QED BY <1>2, <1>5, <1>6

(* However many processes start, die, fail and keep the lock: a process that    *)
(* serves after run_schema_bootstrap has all migrations, the deployed legacy    *)
(* tables unless they were once left half applied, and the backfill just if     *)
(* there are readings; and none fails because another one was faster.           *)
THEOREM BootsStaySound == BootSpec => []BootsAreSound
<1>1. BootInit => BootInv  BY BootStarts
<1>2. BootInv /\ [BootNext]_bootVars => BootInv'  BY BootStepKeeps
<1>3. BootInv => BootsAreSound  BY BootInvIsEnough
<1> QED BY <1>1, <1>2, <1>3, PTL DEF BootSpec

(* ---- maintenance ------------------------------------------------------------- *)

(* ---- the bootstraps, with the operations beside them ---------------------------- *)

LEMMA OpLeavesBoots == ASSUME NEW p \in Procs, OpStep(p) PROVE UNCHANGED bootVars
BY DEF OpStep, Statement, TableIsMissing, StatementFails, CountFails, Commit, Answer

LEMMA NextIsABootStep == Next => [BootNext]_bootVars
<1> SUFFICES ASSUME Next PROVE [BootNext]_bootVars
  OBVIOUS
<1>1. CASE \E p \in Procs : BootAction(p)
  BY <1>1 DEF BootAction, BootNext
<1>2. CASE \E p \in Procs : OpStep(p)
  BY <1>2, OpLeavesBoots
<1>3. CASE \E p \in Procs : \E op \in Operation : Begin(p, op)
  BY <1>3 DEF Begin
<1>4. CASE \E t \in schema : Arrive(t)
  BY <1>4 DEF Arrive
<1> QED BY <1>1, <1>2, <1>3, <1>4 DEF Next

(* The operations take nothing from what bootstraps promise.                     *)
THEOREM ServingIsSound == Spec => []BootsAreSound
<1>1. Init => BootInit  BY DEF Init
<1>2. [Next]_vars => [BootNext]_bootVars
  BY NextIsABootStep DEF vars
<1>3. BootSpec => []BootsAreSound  BY BootsStaySound
<1> QED BY <1>1, <1>2, <1>3, PTL DEF Spec, BootSpec

(* ---- what a running operation knows --------------------------------------------- *)

Outcome == {None, "raised", "returned"}

TxType ==
  [op : Operation \cup {None}, k : Nat \ {0}, done : SUBSET STRING, spared : SUBSET STRING,
   aborted : BOOLEAN, missing : STRING \cup {None}, errors : BOOLEAN, outcome : Outcome]

\* An aborted transaction has noted an error, or has just skipped a missing table.
AbortIsKnown(p) ==
  tx[p].aborted =>
    /\ tx[p].op \in Operation
    /\ tx[p].op = "cleanup" => tx[p].errors
    /\ tx[p].op # "cleanup" =>
         /\ tx[p].k - 1 \in DOMAIN Script[tx[p].op]
         /\ tx[p].missing = Script[tx[p].op][tx[p].k - 1]

\* What returned went through its tables, and the reset only if its counts did.
ReturnIsAtEnd(p) ==
  tx[p].outcome = "returned" => AtEnd(p) /\ (tx[p].op = "reset" => ~tx[p].aborted)

\* Every table before k was emptied, but for rows that came later.
TablesAreDone(p) ==
  Running(p) /\ ~tx[p].aborted =>
    \A i \in DOMAIN Script[tx[p].op] : i < tx[p].k => Script[tx[p].op][i] \in tx[p].done \cup tx[p].spared

Known(p) == AbortIsKnown(p) /\ ReturnIsAtEnd(p) /\ TablesAreDone(p)

TxInv == tx \in [Procs -> TxType] /\ \A p \in Procs : Known(p)

LEMMA ScriptFacts ==
  ASSUME NEW op \in Operation
  PROVE  /\ Script[op] \in Seq(STRING) /\ Len(Script[op]) \in Nat
         /\ DOMAIN Script[op] = 1..Len(Script[op])
         /\ \A i \in DOMAIN Script[op] : Script[op][i] \in STRING
BY MaintenanceAssumption

LEMMA NoTxIsATx == NoTx \in TxType
<1>1. 1 \in Nat \ {0} /\ {} \in SUBSET STRING  OBVIOUS
<1>2. None \in STRING \cup {None}  OBVIOUS
<1>3. None \in Outcome /\ None \in Operation \cup {None}  BY DEF Outcome
<1> QED BY <1>1, <1>2, <1>3 DEF NoTx, TxType

LEMMA OthersStayKnown ==
  ASSUME TxInv, NEW p \in Procs, NEW t \in TxType, tx' = [tx EXCEPT ![p] = t], Known(p)'
  PROVE  TxInv'
<1>1. tx' \in [Procs -> TxType]  BY DEF TxInv
<1>2. ASSUME NEW q \in Procs, q # p PROVE Known(q)'
  <2>1. tx'[q] = tx[q]  BY <1>2 DEF TxInv
  <2>2. Known(q)  BY DEF TxInv
  <2> QED BY <2>1, <2>2 DEF Known, AbortIsKnown, ReturnIsAtEnd, TablesAreDone, Running, AtEnd
<1> QED BY <1>1, <1>2 DEF TxInv

\* An operation that has just begun, or none.
LEMMA FreshIsKnown ==
  ASSUME TxInv, NEW p \in Procs, NEW t \in TxType, tx' = [tx EXCEPT ![p] = t],
         t.aborted = FALSE, t.outcome = None, t.k = 1
  PROVE  TxInv'
<1>1. tx'[p] = t  BY DEF TxInv
<1>2. AbortIsKnown(p)' /\ ReturnIsAtEnd(p)'  BY <1>1 DEF AbortIsKnown, ReturnIsAtEnd, None
<1>3. TablesAreDone(p)'
  <2>1. ASSUME Running(p)' PROVE \A i \in DOMAIN Script[t.op] : ~(i < t.k)
    <3>1. t.op \in Operation  BY <1>1, <2>1 DEF Running, TxType
    <3> QED BY <3>1, ScriptFacts
  <2> QED BY <1>1, <2>1 DEF TablesAreDone
<1> QED BY <1>2, <1>3, OthersStayKnown DEF Known

LEMMA BeginKeeps == ASSUME TxInv, NEW p \in Procs, NEW op \in Operation, Begin(p, op) PROVE TxInv'
<1>1. PICK t : t = [NoTx EXCEPT !.op = op]  OBVIOUS
<1>2. t \in TxType  BY <1>1, NoTxIsATx DEF TxType
<1>3. t.aborted = FALSE /\ t.outcome = None /\ t.k = 1  BY <1>1 DEF NoTx
<1>4. tx' = [tx EXCEPT ![p] = t]  BY <1>1 DEF Begin
<1> QED BY <1>2, <1>3, <1>4, FreshIsKnown

LEMMA NoTxKeeps == ASSUME TxInv, NEW p \in Procs, tx' = [tx EXCEPT ![p] = NoTx] PROVE TxInv'
<1>1. NoTx.aborted = FALSE /\ NoTx.outcome = None /\ NoTx.k = 1  BY DEF NoTx
<1> QED BY <1>1, NoTxIsATx, FreshIsKnown

\* What the step of an operation leaves: the record it becomes, field by field.
LEMMA StatementKeeps == ASSUME TxInv, NEW p \in Procs, Statement(p) PROVE TxInv'
<1>1. PICK t : t = [[tx[p] EXCEPT !.k = @ + 1] EXCEPT !.done = @ \cup {Table(p)}]  OBVIOUS
<1>2. /\ tx[p] \in TxType /\ tx[p].op \in Operation /\ tx[p].outcome = None /\ tx[p].aborted = FALSE
      /\ Known(p)
  BY DEF TxInv, Statement, Running, TxType
<1>3. Table(p) \in STRING /\ tx[p].k \in DOMAIN Script[tx[p].op] /\ tx[p].k + 1 \in Nat \ {0}
  BY <1>2, ScriptFacts DEF Statement, Table, AtEnd, TxType
<1>4. /\ t \in TxType /\ t.op = tx[p].op /\ t.k = tx[p].k + 1 /\ t.done = tx[p].done \cup {Table(p)}
      /\ t.spared = tx[p].spared /\ t.aborted = FALSE /\ t.outcome = None
  BY <1>1, <1>2, <1>3 DEF TxType
<1>5. tx' = [tx EXCEPT ![p] = t]  BY <1>1 DEF Statement, TxInv
<1>6. tx'[p] = t  BY <1>5 DEF TxInv
<1>7. AbortIsKnown(p)' /\ ReturnIsAtEnd(p)'  BY <1>4, <1>6 DEF AbortIsKnown, ReturnIsAtEnd, None
<1>8. TablesAreDone(p)'
  <2>1. ASSUME NEW i \in DOMAIN Script[t.op], i < t.k
        PROVE  Script[t.op][i] \in t.done \cup t.spared
    <3>1. i < tx[p].k \/ i = tx[p].k  BY <1>2, <1>3, <1>4, <2>1, ScriptFacts DEF TxType
    <3>2. CASE i < tx[p].k
      BY <1>2, <1>4, <2>1, <3>2 DEF Known, TablesAreDone, Statement
    <3>3. CASE i = tx[p].k  BY <1>4, <3>3 DEF Table
    <3> QED BY <3>1, <3>2, <3>3
  <2> QED BY <1>6, <2>1 DEF TablesAreDone
<1> QED BY <1>4, <1>5, <1>7, <1>8, OthersStayKnown DEF Known

LEMMA RaiseKeeps == ASSUME TxInv, NEW p \in Procs, Raise(p) PROVE TxInv'
<1>1. PICK t : t = [tx[p] EXCEPT !.outcome = "raised"]  OBVIOUS
<1>2. tx[p] \in TxType /\ Known(p) /\ "raised" \in Outcome  BY DEF TxInv, Outcome
<1>3. /\ t \in TxType /\ t.op = tx[p].op /\ t.k = tx[p].k /\ t.aborted = tx[p].aborted
      /\ t.errors = tx[p].errors /\ t.missing = tx[p].missing /\ t.outcome = "raised"
  BY <1>1, <1>2 DEF TxType
<1>4. tx' = [tx EXCEPT ![p] = t]  BY <1>1 DEF Raise, TxInv
<1>5. tx'[p] = t  BY <1>4 DEF TxInv
<1>6. AbortIsKnown(p)'  BY <1>2, <1>3, <1>5 DEF Known, AbortIsKnown
<1>7. ReturnIsAtEnd(p)' /\ TablesAreDone(p)'
  BY <1>3, <1>5 DEF ReturnIsAtEnd, TablesAreDone, Running, None
<1> QED BY <1>3, <1>4, <1>6, <1>7, OthersStayKnown DEF Known

LEMMA BackAndForth == \A k \in Nat \ {0} : k + 1 \in Nat \ {0} /\ (k + 1) - 1 = k
OBVIOUS

LEMMA MissingKeeps == ASSUME TxInv, NEW p \in Procs, TableIsMissing(p) PROVE TxInv'
<1>1. CASE tx[p].op = "erase" /\ tx[p].k = 1
  BY <1>1, RaiseKeeps DEF TableIsMissing
<1>2. CASE ~(tx[p].op = "erase" /\ tx[p].k = 1)
  <2>1. PICK t : t = [[[[tx[p] EXCEPT !.k = @ + 1] EXCEPT !.aborted = TRUE] EXCEPT !.missing = Table(p)]
                         EXCEPT !.errors = (tx[p].op = "cleanup")]
    OBVIOUS
  <2>2. /\ tx[p] \in TxType /\ tx[p].op \in Operation /\ tx[p].outcome = None /\ Known(p)
        /\ (tx[p].op = "cleanup") \in BOOLEAN
    BY DEF TxInv, TableIsMissing, Running, TxType
  <2>a. tx[p].k + 1 \in Nat \ {0} /\ (tx[p].k + 1) - 1 = tx[p].k  BY <2>2, BackAndForth DEF TxType
  <2>3. Table(p) \in STRING /\ tx[p].k \in DOMAIN Script[tx[p].op]
    BY <2>2, ScriptFacts DEF TableIsMissing, Table, AtEnd, TxType
  <2>4. /\ t \in TxType /\ t.op = tx[p].op /\ t.k = tx[p].k + 1 /\ t.aborted = TRUE
        /\ t.missing = Table(p) /\ t.errors = (tx[p].op = "cleanup") /\ t.outcome = None
    BY <2>1, <2>2, <2>3, <2>a DEF TxType
  <2>5. tx' = [tx EXCEPT ![p] = t]  BY <1>2, <2>1 DEF TableIsMissing, TxInv
  <2>6. tx'[p] = t  BY <2>5 DEF TxInv
  <2>7. t.op = "cleanup" => t.errors  BY <2>4
  <2>8. t.k - 1 \in DOMAIN Script[t.op] /\ t.missing = Script[t.op][t.k - 1]
    BY <2>3, <2>4, <2>a DEF Table
  <2>9. AbortIsKnown(p)'  BY <2>2, <2>4, <2>6, <2>7, <2>8 DEF AbortIsKnown
  <2>10. ReturnIsAtEnd(p)' /\ TablesAreDone(p)'
    BY <2>4, <2>6 DEF ReturnIsAtEnd, TablesAreDone, None
  <2> QED BY <2>4, <2>5, <2>9, <2>10, OthersStayKnown DEF Known
<1> QED BY <1>1, <1>2

LEMMA FailureKeeps == ASSUME TxInv, NEW p \in Procs, StatementFails(p) PROVE TxInv'
<1>1. CASE tx[p].op # "cleanup"
  BY <1>1, RaiseKeeps DEF StatementFails
<1>2. CASE tx[p].op = "cleanup"
  <2>1. PICK t : t = [[[tx[p] EXCEPT !.k = @ + 1] EXCEPT !.aborted = TRUE] EXCEPT !.errors = TRUE]
    OBVIOUS
  <2>2. /\ tx[p] \in TxType /\ tx[p].op \in Operation /\ tx[p].outcome = None
        /\ tx[p].k + 1 \in Nat \ {0}
    BY Counting DEF TxInv, StatementFails, Running, TxType
  <2>3. /\ t \in TxType /\ t.op = "cleanup" /\ t.aborted = TRUE /\ t.errors = TRUE /\ t.outcome = None
    BY <1>2, <2>1, <2>2 DEF TxType
  <2>4. tx' = [tx EXCEPT ![p] = t]  BY <1>2, <2>1 DEF StatementFails, TxInv
  <2>5. tx'[p] = t  BY <2>4 DEF TxInv
  <2>6. AbortIsKnown(p)'  BY <2>3, <2>5 DEF AbortIsKnown, Operation
  <2>7. ReturnIsAtEnd(p)' /\ TablesAreDone(p)'
    BY <2>3, <2>5 DEF ReturnIsAtEnd, TablesAreDone, None
  <2> QED BY <2>3, <2>4, <2>6, <2>7, OthersStayKnown DEF Known
<1> QED BY <1>1, <1>2

LEMMA CommitKeeps == ASSUME TxInv, NEW p \in Procs, Commit(p) PROVE TxInv'
<1>1. PICK t : t = [tx[p] EXCEPT !.outcome = "returned"]  OBVIOUS
<1>2. tx[p] \in TxType /\ Known(p) /\ "returned" \in Outcome  BY DEF TxInv, Outcome
<1>3. /\ t \in TxType /\ t.op = tx[p].op /\ t.k = tx[p].k /\ t.aborted = tx[p].aborted
      /\ t.errors = tx[p].errors /\ t.missing = tx[p].missing /\ t.outcome = "returned"
  BY <1>1, <1>2 DEF TxType
<1>4. tx' = [tx EXCEPT ![p] = t]  BY <1>1 DEF Commit, TxInv
<1>5. tx'[p] = t  BY <1>4 DEF TxInv
<1>6. AbortIsKnown(p)'  BY <1>2, <1>3, <1>5 DEF Known, AbortIsKnown
<1>7. ReturnIsAtEnd(p)'  BY <1>3, <1>5 DEF ReturnIsAtEnd, AtEnd, Commit
<1>8. TablesAreDone(p)'  BY <1>3, <1>5 DEF TablesAreDone, Running, None
<1> QED BY <1>3, <1>4, <1>6, <1>7, <1>8, OthersStayKnown DEF Known

\* Rows that turns write move tables from done to spared.
LEMMA ArrivalKeeps == ASSUME TxInv, NEW t, Arrive(t) PROVE TxInv'
<1>1. ASSUME NEW p \in Procs PROVE tx'[p] \in TxType /\ Known(p)'
  <2>1. tx[p] \in TxType /\ Known(p)  BY DEF TxInv
  <2>2. PICK r : r = [[tx[p] EXCEPT !.done = @ \ {t}] EXCEPT !.spared = @ \cup ({t} \cap tx[p].done)]
    OBVIOUS
  <2>3. tx'[p] = r  BY <2>2 DEF Arrive
  <2>4. /\ r \in TxType /\ r.op = tx[p].op /\ r.k = tx[p].k /\ r.aborted = tx[p].aborted
        /\ r.errors = tx[p].errors /\ r.missing = tx[p].missing /\ r.outcome = tx[p].outcome
        /\ r.done \cup r.spared = tx[p].done \cup tx[p].spared
    BY <2>1, <2>2 DEF TxType
  <2>5. Known(p)'
    BY <2>1, <2>3, <2>4 DEF Known, AbortIsKnown, ReturnIsAtEnd, TablesAreDone, Running, AtEnd
  <2> QED BY <2>3, <2>4, <2>5
<1>2. tx' = [p \in Procs |-> tx'[p]]  BY DEF Arrive
<1> QED BY <1>1, <1>2 DEF TxInv

LEMMA TxInvHolds == Spec => []TxInv
<1>1. Init => TxInv
  <2> SUFFICES ASSUME Init PROVE TxInv
    OBVIOUS
  <2>1. \A p \in Procs : tx[p].aborted = FALSE /\ tx[p].outcome = None /\ tx[p].op = None
    BY DEF Init, NoTx
  <2>2. tx \in [Procs -> TxType]  BY NoTxIsATx DEF Init
  <2>3. \A p \in Procs : Known(p)
    BY <2>1 DEF Known, AbortIsKnown, ReturnIsAtEnd, TablesAreDone, Running, None
  <2> QED BY <2>2, <2>3 DEF TxInv
<1>2. TxInv /\ [Next]_vars => TxInv'
  <2> SUFFICES ASSUME TxInv, [Next]_vars PROVE TxInv'
    OBVIOUS
  <2>1. CASE \E p \in Procs : BootAction(p)
    BY <2>1, NoTxKeeps DEF BootAction
  <2>2. CASE \E p \in Procs : OpStep(p)
    <3>1. PICK p \in Procs : OpStep(p)  BY <2>2
    <3>2. CASE Answer(p)  BY <3>2, NoTxKeeps DEF Answer
    <3>3. CASE CountFails(p)  BY <3>3, RaiseKeeps DEF CountFails
    <3> QED BY <3>1, <3>2, <3>3, StatementKeeps, MissingKeeps, FailureKeeps, CommitKeeps DEF OpStep
  <2>3. CASE \E p \in Procs : \E op \in Operation : Begin(p, op)
    BY <2>3, BeginKeeps
  <2>4. CASE \E t \in schema : Arrive(t)
    BY <2>4, ArrivalKeeps
  <2>5. CASE UNCHANGED vars
    BY <2>5 DEF vars, TxInv, Known, AbortIsKnown, ReturnIsAtEnd, TablesAreDone, Running, AtEnd
  <2> QED BY <2>1, <2>2, <2>3, <2>4, <2>5 DEF Next
<1> QED BY <1>1, <1>2, PTL DEF Spec

(* ---- the theorems ---------------------------------------------------------------- *)

(* Whatever tables an operation has, in whatever order, and whichever of them   *)
(* are missing: one that returns without an error has done its work, unless the *)
(* last table of a deletion or an anonymization was the missing one.            *)
THEOREM ReportsStayTrue == Spec => []ReportsAreTrue
<1>1. TxInv => ReportsAreTrue
  <2> SUFFICES ASSUME TxInv, NEW p \in Procs, tx[p].outcome = "returned", ~tx[p].errors, tx[p].aborted
               PROVE  /\ tx[p].op \in {"erase", "anonymize"}
                      /\ tx[p].missing = Script[tx[p].op][Len(Script[tx[p].op])]
    BY DEF ReportsAreTrue
  <2>1. /\ tx[p].op \in Operation /\ tx[p].op # "cleanup" /\ tx[p].op # "reset" /\ tx[p].k \in Nat
        /\ tx[p].k - 1 \in DOMAIN Script[tx[p].op] /\ tx[p].missing = Script[tx[p].op][tx[p].k - 1]
        /\ tx[p].k > Len(Script[tx[p].op])
    BY DEF TxInv, Known, AbortIsKnown, ReturnIsAtEnd, AtEnd, TxType
  <2>2. tx[p].k - 1 = Len(Script[tx[p].op])  BY <2>1, ScriptFacts
  <2> QED BY <2>1, <2>2 DEF Operation
<1> QED BY <1>1, TxInvHolds, PTL

(* A deletion takes rows from all of its tables at once: only rows that came    *)
(* after its statement for their table are left.                                *)
THEOREM DeletionsStayWhole == Spec => DeletionsAreWhole
<1> DEFINE Whole ==
      \A p \in Procs : tx[p].op # "cleanup" /\ rows \ rows' # {} /\ tx'[p] # tx[p] =>
        \A i \in DOMAIN Script[tx[p].op] :
          Script[tx[p].op][i] \in rows' => Script[tx[p].op][i] \in tx[p].spared
<1>1. TxInv /\ [Next]_vars => [Whole]_vars
  <2> SUFFICES ASSUME TxInv, Next, NEW p \in Procs, rows \ rows' # {}, tx'[p] # tx[p]
               PROVE  \A i \in DOMAIN Script[tx[p].op] :
                        Script[tx[p].op][i] \in rows' => Script[tx[p].op][i] \in tx[p].spared
    OBVIOUS
  <2>1. PICK q \in Procs : Commit(q)
    <3>1. ~(rows \subseteq rows')  OBVIOUS
    <3>2. ~\E q \in Procs : BootAction(q)  BY <3>1 DEF BootAction
    <3>3. ~\E q \in Procs : \E op \in Operation : Begin(q, op)  BY <3>1 DEF Begin
    <3>4. ~\E t \in schema : Arrive(t)  BY <3>1 DEF Arrive
    <3>5. PICK q \in Procs : OpStep(q)  BY <3>2, <3>3, <3>4 DEF Next
    <3> QED BY <3>1, <3>5 DEF OpStep, Statement, TableIsMissing, StatementFails, CountFails, Answer
  <2>2. p = q  BY <2>1 DEF Commit, TxInv
  <2>3. ~tx[p].aborted /\ rows' = rows \ tx[p].done  BY <2>1, <2>2 DEF Commit
  <2>4. Running(p) /\ AtEnd(p) /\ tx[p] \in TxType /\ TablesAreDone(p)
    BY <2>1, <2>2 DEF Commit, TxInv, Known
  <2>5. tx[p].op \in Operation /\ tx[p].k \in Nat  BY <2>4 DEF Running, TxType
  <2>6. \A i \in DOMAIN Script[tx[p].op] : i < tx[p].k  BY <2>4, <2>5, ScriptFacts DEF AtEnd
  <2> QED BY <2>3, <2>4, <2>6 DEF TablesAreDone
<1> QED BY <1>1, TxInvHolds, PTL DEF Spec, DeletionsAreWhole

(* ---- the uploads of pictures, by themselves ---------------------------------- *)

\* Where the object and the row of an upload are, at each of its steps.
UploadOK(a) ==
  /\ up[a] \notin Over => a \notin old \cup left
  /\ up[a] \in {"idle", "download", "validate", "put"} => a \notin objects \cup assets
  /\ up[a] = "insert" => a \in objects \ assets
  /\ up[a] = "undo" => a \in objects
  /\ up[a] \in {"undo", "failed", "cut"} /\ a \in assets => a \in unsure
  /\ up[a] = "success" => (a \in objects \/ a \in old) /\ (a \in assets \/ a \in removed)
  /\ up[a] \in {"failed", "cut"} /\ a \in objects => a \in left

MediaInv ==
  /\ up \in [Asset -> UploadPc] /\ objects \subseteq Asset /\ assets \subseteq Asset
  /\ \A a \in Asset : UploadOK(a)

LEMMA UploadFrame ==
  ASSUME NEW a \in Asset, UploadOK(a), up'[a] = up[a],
         (a \in objects') <=> (a \in objects), (a \in assets') <=> (a \in assets),
         (a \in old') <=> (a \in old), (a \in left') <=> (a \in left),
         (a \in unsure') <=> (a \in unsure), (a \in removed') <=> (a \in removed)
  PROVE  UploadOK(a)'
BY DEF UploadOK

\* A step of one upload.
LEMMA UploadKeepsInv ==
  ASSUME MediaInv, NEW a \in Asset, NEW pc \in UploadPc, UploadGo(a, pc),
         objects' \in {objects, objects \cup {a}, objects \ {a}},
         assets' \in {assets, assets \cup {a}}, unsure' \in {unsure, unsure \cup {a}},
         left' \in {left, left \cup {a}}, UNCHANGED <<old, removed>>,
         UploadOK(a)'
  PROVE  MediaInv'
<1>1. up' \in [Asset -> UploadPc] /\ \A b \in Asset : b # a => up'[b] = up[b]
  BY DEF MediaInv, UploadGo
<1>2. objects' \subseteq Asset /\ assets' \subseteq Asset  BY DEF MediaInv
<1>3. ASSUME NEW b \in Asset, b # a PROVE UploadOK(b)'
  BY <1>1, <1>3, UploadFrame DEF MediaInv
<1> QED BY <1>1, <1>2, <1>3 DEF MediaInv

LEMMA UploadSteps ==
  ASSUME MediaInv, NEW a \in Asset,
         \/ IngestImage(a) \/ IngestImageBytes(a) \/ DownloadImageFromUrl(a) \/ ValidateImage(a)
         \/ Put(a) \/ Insert(a) \/ Undo(a) \/ Cut(a)
  PROVE  MediaInv'
<1>1. up \in [Asset -> UploadPc] /\ UploadOK(a)  BY DEF MediaInv
<1>2. ASSUME NEW pc \in UploadPc, UploadGo(a, pc) PROVE up'[a] = pc
  BY <1>1, <1>2 DEF UploadGo
<1>3. CASE \/ IngestImage(a) \/ IngestImageBytes(a) \/ DownloadImageFromUrl(a) \/ ValidateImage(a)
  <2>1. PICK pc \in {"failed", "download", "validate", "put"} : UploadGo(a, pc)
    BY <1>3 DEF IngestImage, IngestImageBytes, DownloadImageFromUrl, ValidateImage
  <2>2. /\ up[a] \in {"idle", "download", "validate"}
        /\ UNCHANGED <<objects, assets, old, unsure, left, removed>>
    BY <1>3 DEF IngestImage, IngestImageBytes, DownloadImageFromUrl, ValidateImage, UploadAt
  <2>3. pc \in UploadPc  BY DEF UploadPc
  <2>4. up'[a] = pc  BY <1>2, <2>1, <2>3
  <2>5. UploadOK(a)'  BY <1>1, <2>2, <2>4 DEF UploadOK, Over
  <2> QED BY <2>1, <2>2, <2>3, <2>5, UploadKeepsInv
<1>4. CASE Put(a)
  <2>1. up[a] = "put" /\ UNCHANGED <<assets, old, unsure, removed>>  BY <1>4 DEF Put, UploadAt
  <2>2. PICK pc \in {"insert", "failed"} :
          /\ UploadGo(a, pc)
          /\ \/ pc = "insert" /\ objects' = objects \cup {a} /\ left' = left
             \/ pc = "failed" /\ objects' = objects /\ left' = left
             \/ pc = "failed" /\ objects' = objects \cup {a} /\ left' = left \cup {a}
    BY <1>4 DEF Put
  <2>3. pc \in UploadPc  BY DEF UploadPc
  <2>4. up'[a] = pc  BY <1>2, <2>2, <2>3
  <2>5. UploadOK(a)'  BY <1>1, <2>1, <2>2, <2>4 DEF UploadOK, Over
  <2> QED BY <2>1, <2>2, <2>3, <2>5, UploadKeepsInv
<1>5. CASE Insert(a)
  <2>1. up[a] = "insert" /\ UNCHANGED <<objects, old, left, removed>>  BY <1>5 DEF Insert, UploadAt
  <2>2. PICK pc \in {"success", "undo"} :
          /\ UploadGo(a, pc)
          /\ \/ pc = "success" /\ assets' = assets \cup {a} /\ unsure' = unsure
             \/ pc = "undo" /\ assets' = assets /\ unsure' = unsure
             \/ pc = "undo" /\ assets' = assets \cup {a} /\ unsure' = unsure \cup {a}
    BY <1>5 DEF Insert
  <2>3. pc \in UploadPc  BY DEF UploadPc
  <2>4. up'[a] = pc  BY <1>2, <2>2, <2>3
  <2>5. UploadOK(a)'  BY <1>1, <2>1, <2>2, <2>4 DEF UploadOK, Over
  <2> QED BY <2>1, <2>2, <2>3, <2>5, UploadKeepsInv
<1>6. CASE Undo(a)
  <2>1. /\ up[a] = "undo" /\ UNCHANGED <<assets, old, unsure, removed>> /\ UploadGo(a, "failed")
        /\ \/ objects' = objects \ {a} /\ left' = left
           \/ left' = left \cup {a} /\ objects' = objects
    BY <1>6 DEF Undo, UploadAt
  <2>3. "failed" \in UploadPc  BY DEF UploadPc
  <2>4. up'[a] = "failed"  BY <1>2, <2>1, <2>3
  <2>5. UploadOK(a)'  BY <1>1, <2>1, <2>4 DEF UploadOK, Over
  <2> QED BY <2>1, <2>3, <2>5, UploadKeepsInv
<1>7. CASE Cut(a)
  <2>1. /\ up[a] \notin Over \cup {"idle"} /\ UNCHANGED <<objects, assets, old, unsure, removed>>
        /\ UploadGo(a, "cut") /\ left' = IF a \in objects THEN left \cup {a} ELSE left
    BY <1>7 DEF Cut
  <2>2. up[a] \in {"download", "validate", "put", "insert", "undo"}  BY <1>1, <2>1 DEF UploadPc, Over
  <2>3. "cut" \in UploadPc  BY DEF UploadPc
  <2>4. up'[a] = "cut"  BY <1>2, <2>1, <2>3
  <2>5. UploadOK(a)'  BY <1>1, <2>1, <2>2, <2>4 DEF UploadOK, Over
  <2> QED BY <2>1, <2>3, <2>5, UploadKeepsInv
<1> QED BY <1>3, <1>4, <1>5, <1>6, <1>7

\* What becomes of uploads that are over.
LEMMA RetentionKeepsInv ==
  ASSUME MediaInv,
         (\E a \in Asset : Ages(a)) \/ PurgeOldInputAssets \/ EraseAssets \/ LifecycleRemoves
  PROVE  MediaInv'
<1>1. CASE \E a \in Asset : Ages(a)
  <2>1. PICK a \in Asset : Ages(a)  BY <1>1
  <2>2. ASSUME NEW b \in Asset PROVE UploadOK(b)'
    BY <2>1 DEF MediaInv, UploadOK, Ages
  <2> QED BY <2>1, <2>2 DEF MediaInv, Ages
<1>2. ASSUME NEW S, DeleteRows(S) PROVE MediaInv'
  <2>1. ASSUME NEW b \in Asset PROVE UploadOK(b)'
    <3>1. UploadOK(b)  BY DEF MediaInv
    <3> QED BY <1>2, <3>1 DEF UploadOK, DeleteRows
  <2> QED BY <1>2, <2>1 DEF MediaInv, DeleteRows
<1>3. CASE LifecycleRemoves
  <2>1. PICK a \in objects \cap old : /\ objects' = objects \ {a}
                                      /\ UNCHANGED <<up, assets, old, unsure, left, removed>>
    BY <1>3 DEF LifecycleRemoves
  <2>2. ASSUME NEW b \in Asset PROVE UploadOK(b)'
    <3>1. UploadOK(b)  BY DEF MediaInv
    <3>2. up[b] \in UploadPc  BY DEF MediaInv
    <3> QED BY <2>1, <3>1, <3>2 DEF UploadOK, UploadPc, Over
  <2> QED BY <2>1, <2>2 DEF MediaInv
<1> QED BY <1>1, <1>2, <1>3 DEF PurgeOldInputAssets, EraseAssets

(* Whatever fails, is cut, purged or erased: a picture that may be used has its  *)
(* object, and an object without a row is accounted for.                         *)
THEOREM AssetsStayAgreed == MediaSpec => []AssetsAgree
<1>1. MediaInit => MediaInv
  BY DEF MediaInit, MediaInv, UploadOK, UploadPc, Over
<1>2. MediaInv /\ [MediaNext]_mediaVars => MediaInv'
  <2> SUFFICES ASSUME MediaInv, [MediaNext]_mediaVars PROVE MediaInv'  OBVIOUS
  <2>1. CASE UNCHANGED mediaVars  BY <2>1 DEF mediaVars, MediaInv, UploadOK
  <2> QED BY <2>1, UploadSteps, RetentionKeepsInv DEF MediaNext
<1>3. MediaInv => AssetsAgree
  <2> SUFFICES ASSUME MediaInv PROVE AssetsAgree  OBVIOUS
  <2>1. ASSUME NEW a \in Asset PROVE UploadOK(a) /\ up[a] \in UploadPc  BY DEF MediaInv
  <2>2. UsableRowsHaveObjects  BY <2>1 DEF UsableRowsHaveObjects, Usable, UploadOK, UploadPc
  <2>3. ObjectsAreAccountedFor
    <3> SUFFICES ASSUME NEW a \in objects \ assets
                 PROVE  up[a] \in {"insert", "undo"} \/ a \in left \/ a \in removed
      BY DEF ObjectsAreAccountedFor
    <3>1. a \in Asset  BY DEF MediaInv
    <3> QED BY <2>1, <3>1 DEF UploadOK, UploadPc
  <2> QED BY <2>2, <2>3 DEF AssetsAgree
<1> QED BY <1>1, <1>2, <1>3, PTL DEF MediaSpec

=============================================================================
