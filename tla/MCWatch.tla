------------------------------ MODULE MCWatch -------------------------------
(***************************************************************************)
(* A library and the executed binary for TLC.                              *)
(***************************************************************************)
EXTENDS Watch

CONSTANTS lib, exe

MCFile == {lib, exe}
MCLib == {lib}
MCExec == {exe}
MCNone == {}
MCOverwrite == {"write", "replace"}
MCAny == {"write", "replace", "remove", "move"}
MCMove == {"write", "move"}
=============================================================================
