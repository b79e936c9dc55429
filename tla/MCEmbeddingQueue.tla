-------------------------- MODULE MCEmbeddingQueue --------------------------
(* Instances of EmbeddingQueue for TLC: which pod a worker runs in and the   *)
(* model each pod is configured with.                                        *)
EXTENDS EmbeddingQueue, TLC

CONSTANTS old, new, w1, w2, w3, small, large

\* A rollout: the old pod and the new one use different models, and the new
\* one has two workers that may take over each other's claims.
RolloutPodOf == w1 :> old @@ w2 :> new @@ w3 :> new
RolloutModelOf == old :> small @@ new :> large
=============================================================================
