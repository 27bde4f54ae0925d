------------------------------- MODULE MCVga -------------------------------
(* What programs print for model checking Vga: the ends of lines, a tab in *)
(* every column, and text longer than a line.                              *)
EXTENDS Vga

StringsValue == {<<"\n", "\n">>, <<"a", "\t">>, <<"a", "a", "a", "\n", "a", "a">>}

PlacesValue == {<<0, 0>>, <<1, 2>>, <<3, 2>>}
=============================================================================
