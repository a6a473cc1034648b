------------------------------ MODULE Versions ------------------------------
(***************************************************************************)
(* What the update machinery promises, without saying how: every file has  *)
(* a newest loaded version and a version the process is linked to.  New    *)
(* versions are loaded one at a time, and a switch links ALL files to      *)
(* their newest version in one step; nothing is linked piecemeal and no    *)
(* version is ever unlinked in favour of an older one.                     *)
(***************************************************************************)
EXTENDS Naturals

CONSTANT File

VARIABLES
  loaded,   \* File -> version number of ObjectIdentity::current
  linked    \* File -> version number the process is linked against

vars == <<loaded, linked>>

Init ==
  /\ loaded = [f \in File |-> 1]
  /\ linked = [f \in File |-> 1]

(* ObjectIdentity::load succeeded: a newer version exists, nobody uses it. *)
Load(f) ==
  /\ loaded' = [loaded EXCEPT ![f] = @ + 1]
  /\ UNCHANGED linked

(* Loader::update: all files at once.                                      *)
Switch ==
  /\ linked' = loaded
  /\ UNCHANGED loaded

Next ==
  \/ \E f \in File : Load(f)
  \/ Switch

Spec == Init /\ [][Next]_vars
=============================================================================
