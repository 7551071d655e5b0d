-------------------------- MODULE MCMetricsFactory --------------------------
(***************************************************************************)
(* Four handlers of one job.                                               *)
(***************************************************************************)
EXTENDS MetricsFactory, TLC

HandlerSymmetry == Permutations(Handler)
=============================================================================
