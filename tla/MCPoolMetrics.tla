--------------------------- MODULE MCPoolMetrics ---------------------------
(***************************************************************************)
(* The metrics of a small pool.                                            *)
(***************************************************************************)
EXTENDS PoolMetrics, TLC

ConnSymmetry == Permutations(Conn)
=============================================================================
