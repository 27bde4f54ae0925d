------------------------------ MODULE MCFat16 ------------------------------
(* Files that differ in the extension only, one of them confusable with a  *)
(* directory.  What is written to files is opaque to Fat16: its values are *)
(* model values that may be exchanged.                                     *)
EXTENDS Fat16, TLC

FileNamesValue == [name : {"a"}, ext : {"", "x"}]

ValuesSymmetry == Permutations(Values)
=============================================================================
