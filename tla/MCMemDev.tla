------------------------------ MODULE MCMemDev ------------------------------
(***************************************************************************)
(* An instance of MemDev for TLC.                                          *)
(***************************************************************************)
EXTENDS MemDev

\* Nothing, one byte, more than a word.
Strings == {<<>>, <<1>>, <<2, 1, 2>>}

Escape == {<<1, 2>>}

\* Back and forth, inside, to the end of and past the data.
Moves == -2 .. 3

=============================================================================
