------------------------------- MODULE MCIde --------------------------------
(***************************************************************************)
(* Two tasks, sectors numbered by two registers of one bit: two good ones  *)
(* that differ in both registers, and a bad one; sectors of two words.     *)
(***************************************************************************)
EXTENDS Ide

MCSectors == {<<0, 1>>, <<1, 0>>, <<1, 1>>}
MCBuffers == {<<0, 1>>, <<1, 0>>}
MCBad == {<<1, 1>>}

=============================================================================
