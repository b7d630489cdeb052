----------------------------- MODULE MCObjects ------------------------------
(* Two variables and three objects for TLC.                                *)
EXTENDS Objects

TwoFields == <<"a", "b">>

\* Variables are only compared.
NameSymmetry == Permutations(Names)
=============================================================================
