--------------------------- MODULE MCServiceRouting ---------------------------
(***************************************************************************)
(* Instances of ServiceRouting for TLC.                                    *)
(***************************************************************************)
EXTENDS ServiceRouting

CONSTANTS b1, b2, r1, r2

\* Every Bento has the same runner; or the second lacks the first's first runner,
\* so that what is left changes its place.
OneRunner == [b \in Bentos |-> <<r1>>]
Moved     == [b \in Bentos |-> IF b = b1 THEN <<r1, r2>> ELSE <<r2>>]
=============================================================================
