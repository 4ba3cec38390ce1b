-------------------------- MODULE MCValidatorCache --------------------------
(* Two validator-set versions of different lengths, so that a torn read   *)
(* is observable, and three ticks of the refresh loop.                     *)
EXTENDS ValidatorCache

MCSetLen == [v \in 1 .. 2 |-> v + 1]

=============================================================================
