---------------------------- MODULE BoundedRetry ----------------------------
(***************************************************************************)
(* What the job queue promises its producers, with no workers, leases or   *)
(* statements in sight: a submitted job is started at most budget times,   *)
(* it waits only while a start is left, and once done it is never started  *)
(* again. Several jobs may move in one step, because one statement of the  *)
(* queue may move several rows.                                            *)
(***************************************************************************)
EXTENDS Naturals

CONSTANTS Id, Budgets

VARIABLES phase, starts, budget

vars == <<phase, starts, budget>>

Phases == {"unborn", "waiting", "running", "done", "deleted"}

Init == /\ phase = [i \in Id |-> "unborn"]
        /\ starts = [i \in Id |-> 0]
        /\ budget = [i \in Id |-> 0]

\* Job i moves from one phase to another, its starts and budget as given.
Move(i, from, to, newStarts, newBudget) ==
  /\ phase[i] = from
  /\ phase'[i] = to
  /\ starts'[i] = newStarts
  /\ budget'[i] = newBudget

Submit(i)   == \E m \in Budgets : Move(i, "unborn", "waiting", 0, m)
Start(i)    == /\ starts[i] < budget[i]
               /\ Move(i, "waiting", "running", starts[i] + 1, budget[i])
GiveBack(i) == /\ starts[i] < budget[i]
               /\ Move(i, "running", "waiting", starts[i], budget[i])
Finish(i)   == Move(i, "running", "done", starts[i], budget[i])
Forget(i)   == \E p \in {"waiting", "running", "done"} : Move(i, p, "deleted", 0, 0)
Stay(i)     == Move(i, phase[i], phase[i], starts[i], budget[i])

Step(i) == Submit(i) \/ Start(i) \/ GiveBack(i) \/ Finish(i) \/ Forget(i) \/ Stay(i)

Next == /\ phase' \in [Id -> Phases]
        /\ starts' \in [Id -> Nat]
        /\ budget' \in [Id -> Nat]
        /\ \A i \in Id : Step(i)

Spec == Init /\ [][Next]_vars
=============================================================================
