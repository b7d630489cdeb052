----------------------------- MODULE MCAnalyzer -----------------------------
(* Analyzer on small instances for TLC: programs without the constructs    *)
(* that the analyzer misjudges, and with all but the one whose names it    *)
(* does not capture.                                                       *)
EXTENDS Analyzer, TLC

NoConstructs == {}
AllButFalseWhile == OddConstructs \ {"call in a false while"}

\* Integers are only copied and compared.
IntSymmetry == Permutations(Ints)
=============================================================================
