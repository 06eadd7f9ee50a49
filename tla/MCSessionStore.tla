--------------------------- MODULE MCSessionStore ---------------------------
(* Instances of the session row with chat turns and unguarded writers, for TLC. *)
EXTENDS SessionStore, TLC

Interchangeable == Permutations(Gen) \cup Permutations(Turn) \cup Permutations(Writer)

\* The guarantees end with the first write around the guard.
UntilBypassed == ~bypassed
=============================================================================
