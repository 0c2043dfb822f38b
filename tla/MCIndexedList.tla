--------------------------- MODULE MCIndexedList ---------------------------
(* Model-checking instance of IndexedList: the constants are given in the *)
(* .cfg files beside this module.  The list never looks inside a payload, *)
(* so payloads are interchangeable model values.                          *)
EXTENDS IndexedList, TLC

DataSymmetry == Permutations(Data)
=============================================================================
