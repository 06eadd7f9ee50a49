--------------------------- MODULE MCJobProducers ---------------------------
(* Instances of concurrent enqueue_with_status calls for TLC. *)
EXTENDS JobProducers, TLC

\* The effective keys of the instance: every base key, plain and with each token.
EffectiveKey == BaseKey \X (Token \cup {NoToken})

Interchangeable == Permutations(Id) \cup Permutations(Producer) \cup Permutations(Token)
=============================================================================
