----------------------------- MODULE MCExecutor -----------------------------
(* Executor on small instances for TLC.                                    *)
EXTENDS Executor, TLC

\* Positions of calls are only copied and compared.
SiteSymmetry == Permutations(Sites)
=============================================================================
