----------------------------- MODULE MCTerminal -----------------------------
(* The files of /bin for model checking Terminal: a program, and one that  *)
(* is empty.                                                               *)
EXTENDS Terminal

FilesValue == [name \in {<<"x">>, <<"x", "x">>} |-> IF name = <<"x">> THEN 24 ELSE 0]
=============================================================================
