------------------------------- MODULE MCPages -------------------------------
(* Instances of Pages for TLC                                               *)
EXTENDS Pages

\* A segment in page 0, and one of two pages that starts inside page 1.
MCSegments == {<<1, 2>>, <<7, 3>>}
=============================================================================
