----------------------------- MODULE MCSegment -----------------------------
(***************************************************************************)
(* An instance of Segment: two threads execute the code of the version.    *)
(***************************************************************************)
EXTENDS Segment, TLC

CONSTANTS t1, t2

MCThread == {t1, t2}

=============================================================================
