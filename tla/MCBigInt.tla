------------------------------ MODULE MCBigInt ------------------------------
(* BigInt on chunks of four bits, for TLC: a long is one of -128 .. 127.   *)
EXTENDS BigInt

\* Numbers around the ends of one, two and three chunks, and small ones.
Boundaries ==
  {0, 1, -1, -3, 10, 15, -16, 240, -255, 256, -3855, 4095, -4096}
=============================================================================
