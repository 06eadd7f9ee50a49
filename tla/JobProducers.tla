---------------------------- MODULE JobProducers ----------------------------
(***************************************************************************)
(* enqueue_with_status of app/workers/queue.py, run by several producers   *)
(* at once over the job queue. A call reads the table up to three times    *)
(* and inserts once, each in a transaction of its own, so a row may be     *)
(* inserted, run, settled or purged between any two of them.               *)
(*                                                                         *)
(* Key of the queue is the set of effective keys: <<b, NoToken>> is the    *)
(* caller's key b, <<b, t>> is the key "b:retry:t" of a retry.             *)
(***************************************************************************)
EXTENDS JobQueue

CONSTANTS
  Producer,
  BaseKey,
  Token,         \* retry tokens
  NoToken

ASSUME EffectiveKeys == NoToken \notin Token /\ Key = BaseKey \X (Token \cup {NoToken})

VARIABLE call    \* [Producer -> Call]

allVars == <<row, slot, call>>

UserStatus == {"new", "already_running", "retry_pending", "dead", "completed", "enqueue_error"}

\* key is effective_key; id and answer are the EnqueueResult once pc is done.
Call == [pc : {"idle", "chooseKey", "lookup", "insert", "lookAgain", "done"},
         base : BaseKey, token : Token \cup {NoToken}, key : Key \cup {NoKey},
         id : Id \cup {NoId}, answer : UserStatus]

ProducersInit ==
  /\ Init
  /\ call \in [Producer -> [pc : {"idle"}, base : BaseKey, token : Token \cup {NoToken},
                            key : {NoKey}, id : {NoId}, answer : {"enqueue_error"}]]

-----------------------------------------------------------------------------
\* The rows lookup_job_by_idempotency_key finds; a failed lookup finds none.
Found(k) == {i \in Id : IsPresent(i) /\ row[i].key = k}

\* Slip: a failed job is final.
StatusFailedIsDead(i) ==
  CASE row[i].status \in {"pending", "running"} -> "already_running"
    [] row[i].status \in {"failed", "dead"} -> "dead"
    [] row[i].status = "completed" -> "completed"
    [] OTHER -> "already_running"

StatusFromExisting(i) ==
  CASE row[i].status \in {"pending", "running"} -> "already_running"
    [] row[i].status = "failed" /\ row[i].attempt < row[i].max -> "retry_pending"
    [] row[i].status = "dead" -> "dead"
    [] row[i].status = "completed" -> "completed"
    [] OTHER -> "already_running"

Goto(p, pc) == call' = [call EXCEPT ![p].pc = pc]

Answer(p, i, a) ==
  call' = [call EXCEPT ![p].pc = "done", ![p].id = i, ![p].answer = a]

-----------------------------------------------------------------------------
\* A call with a retry token (allow_retry) looks at its base key first.
Begin(p) ==
  /\ call[p].pc = "idle"
  /\ call' = [call EXCEPT ![p].pc = IF call[p].token = NoToken THEN "lookup" ELSE "chooseKey",
                          ![p].key = <<call[p].base, NoToken>>]
  /\ UNCHANGED vars

\* Slip: a retry token always makes a fresh key, whatever became of the job.
ChooseKeyBlindly(p) ==
  /\ call[p].pc = "chooseKey"
  /\ call' = [call EXCEPT ![p].pc = "lookup", ![p].key = <<call[p].base, call[p].token>>]
  /\ UNCHANGED vars

\* Only a dead base job gets the fresh retry key.
ChooseKey(p) ==
  /\ call[p].pc = "chooseKey"
  /\ \/ /\ \E i \in Found(call[p].key) : row[i].status = "dead"
        /\ call' = [call EXCEPT ![p].pc = "lookup", ![p].key = <<call[p].base, call[p].token>>]
     \/ /\ \A i \in Found(call[p].key) : row[i].status # "dead"
        /\ Goto(p, "lookup")
  /\ UNCHANGED vars

LookUp(p) ==
  /\ call[p].pc = "lookup"
  /\ \/ \E i \in Found(call[p].key) : Answer(p, i, StatusFromExisting(i))
     \/ Found(call[p].key) = {} /\ Goto(p, "insert")
  /\ UNCHANGED vars

\* enqueue: a new row, or nothing when the key is taken by now.
Insert(p) ==
  /\ call[p].pc = "insert"
  /\ \/ \E i \in Id, m \in Budgets, due \in BOOLEAN :
          /\ Enqueue(i, call[p].key, m, due)
          /\ Answer(p, i, "new")
     \/ /\ Found(call[p].key) # {}
        /\ Goto(p, "lookAgain")
        /\ UNCHANGED vars

\* The row that took the key answers, unless it was deleted meanwhile.
LookAgain(p) ==
  /\ call[p].pc = "lookAgain"
  /\ \/ \E i \in Found(call[p].key) : Answer(p, i, StatusFromExisting(i))
     \/ Found(call[p].key) = {} /\ Answer(p, NoId, "enqueue_error")
  /\ UNCHANGED vars

\* The database fails: a lookup that raises counts as not found, an insert that
\* raises is reported.
StatementFails(p) ==
  /\ \/ call[p].pc = "chooseKey" /\ Goto(p, "lookup")
     \/ call[p].pc = "lookup" /\ Goto(p, "insert")
     \/ call[p].pc \in {"insert", "lookAgain"} /\ Answer(p, NoId, "enqueue_error")
  /\ UNCHANGED vars

ProducersNext ==
  \/ \E p \in Producer : \/ Begin(p) \/ ChooseKey(p) \/ LookUp(p)
                         \/ Insert(p) \/ LookAgain(p) \/ StatementFails(p)
  \/ Serve /\ UNCHANGED call

ProducersSpec == ProducersInit /\ [][ProducersNext]_allVars

-----------------------------------------------------------------------------
Answered(p, a) == call[p].pc = "done" /\ call[p].answer = a

\* Two producers are both told "new" for one key only if the first one's row was
\* deleted in between, and each of them owns a row of its own under that key.
NewIsExclusive ==
  \A p \in Producer : Answered(p, "new") =>
    /\ IsPresent(call[p].id) => row[call[p].id].key = call[p].key
    /\ \A q \in Producer \ {p} :
         Answered(q, "new") /\ call[q].key = call[p].key =>
           call[q].id # call[p].id /\ ~(IsPresent(call[q].id) /\ IsPresent(call[p].id))

\* A retry never runs beside the job it retries: while a row with a retry key
\* exists, the row with the base key, if there is one, is dead.
RetryReplacesDead ==
  \A i, j \in Id : \A b \in BaseKey, t \in Token :
    /\ IsPresent(i) /\ row[i].key = <<b, t>>
    /\ IsPresent(j) /\ row[j].key = <<b, NoToken>>
    => row[j].status = "dead"

\* Together: whoever is told of a new job owns it, and no job runs beside the retry
\* that replaces it.
KeysAreExclusive == NewIsExclusive /\ RetryReplacesDead

\* A final answer stays true: a job reported dead or completed never comes back.
FinalAnswersHold ==
  \A p \in Producer, a \in {"dead", "completed"} :
    Answered(p, a) => row[call[p].id].status = a

\* What the producers are told holds: whom a key belongs to, and what became of its job.
AnswersHold == KeysAreExclusive /\ FinalAnswersHold

\* A row that a statement may still claim, or a slot has claimed.
MayRun(r) ==
  \/ r.status = "running"
  \/ r.status \in {"pending", "failed"} /\ r.attempt < r.max

\* Who is told to wait is told of a job that may still run, through failures, crashes
\* and reclaims of it, or of a cancelled one, which the answers do not tell apart.
WaitersHaveAJob ==
  [][\A p \in Producer :
       call[p].pc # "done" /\ call'[p].pc = "done"
         /\ call'[p].answer \in {"new", "already_running", "retry_pending"} =>
       MayRun(row'[call'[p].id]) \/ row'[call'[p].id].status = "cancelled"]_allVars
=============================================================================
