------------------------------ MODULE MCLibrary ------------------------------
(***************************************************************************)
(* An instance of Library for TLC: the integers that are printed have six  *)
(* bits, and every one is; words have the bits they have in the code.      *)
(***************************************************************************)
EXTENDS Library

(* Delimiters that differ, and none at all.                                *)
MCDelimiters == {<<44, NUL>>, <<97, 44, NUL>>, <<NUL>>}

LOCAL Char(c) == <<"char", c>>
LOCAL Conv(letter) == <<"%", letter>>

(* "0x%x %d %s%% %c%q", every number twice, and the level that is dropped; *)
(* the level that is the end of its string, and what happens to lie there. *)
LOCAL Format == <<Char(Zero), Char(Lowerx), Conv("x"), Char(Space), Conv("d"), Char(Space),
                  Conv("s"), Conv("%"), Conv("c"), Conv("q")>>

MCMessages ==
    {[level |-> level, format |-> Format, args |-> <<d, d, <<97, 44>>, 97>>] :
        level \in {"4", "6"}, d \in -(2 ^ (WIDTH - 1)) .. 2 ^ (WIDTH - 1) - 1}
    \cup {[level |-> "NUL", format |-> <<Char(97), Conv("%")>>, args |-> <<>>]}

=============================================================================
