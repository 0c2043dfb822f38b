----------------------------- MODULE MCAsyncFD -----------------------------
(* AsyncFD for TLC: buffers are numbered, so no symmetry applies.          *)
EXTENDS AsyncFD
=============================================================================
