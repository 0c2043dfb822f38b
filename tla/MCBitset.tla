----------------------------- MODULE MCBitset -----------------------------
(* Bitset for TLC.                                                         *)
EXTENDS Bitset
=============================================================================
