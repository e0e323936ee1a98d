------------------------------ MODULE MCConsole ------------------------------
(* Instances of Console for TLC                                             *)
EXTENDS Console

\* u, l, blank, backspace, Enter, both control keys, a shift and an alt key
MCKey == {Key_u, Key_l, Blank, Backspace, Enter, ctrl_l_make, ctrl_r_make, shift_l_make, alt_r_make}
=============================================================================
