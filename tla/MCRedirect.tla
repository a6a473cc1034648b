---------------------------- MODULE MCRedirect ----------------------------
(* Instance of Redirect in which rip is behind the trap (MODE_BREAKPOINT_TRAP) *)
EXTENDS Redirect

CONSTANTS t1, t2, f
=============================================================================
