----------------------------- MODULE MCRelayer -----------------------------
(* One voter's browser, with up to two handlers running for it. *)
EXTENDS Relayer

CONSTANT v1

MCHandler == {v1} \X {1, 2}
=============================================================================
