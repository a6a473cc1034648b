------------------------------ MODULE MCUpdate ------------------------------
(***************************************************************************)
(* An application and a library for TLC.  The application calls the        *)
(* library lazily (call), refers to it from read-only memory (ref) and, in *)
(* its newest build, needs a symbol only some library builds have (extra). *)
(* The library keeps a pointer to itself in writable data (self).  Build   *)
(* a1 of the application defines an update point, a0 imports the symbol.   *)
(***************************************************************************)
EXTENDS Update, TLC

CONSTANTS app, lib, a0, a1, a2, l1, l2, l3, call, ref, extra, self, t1, t2

MCFile == {app, lib}
MCThread == {t1, t2}
MCSite == {call, ref, extra, self}
MCBuild == {a0, a1, a2, l1, l2, l3}
MCSrc == [s \in MCSite |-> IF s = self THEN lib ELSE app]
MCDst == [s \in MCSite |-> lib]
MCShared == {call, self}
MCLazy == {call}
MCLooked == {ref}
MCOf == [b \in MCBuild |-> IF b \in {a0, a1, a2} THEN app ELSE lib]
MCNeeds == [b \in MCBuild |->
  CASE b \in {a0, a1} -> {call, ref}
    [] b = a2 -> {call, ref, extra}
    [] OTHER -> {self}]
MCProvides == [b \in MCBuild |->
  CASE b = l1 -> {call, ref, self}
    [] b = l2 -> {call, ref, self, extra}
    [] b = l3 -> {ref, self}
    [] OTHER -> {}]
MCSerialize == {l1, l2}
MCDeserialize == {l1, l3}
MCPoint == {a1}
MCUses == {a0, a1}
MCCompatible == {<<a0, a2>>, <<a1, a2>>} \cup {<<l1, l2>>, <<l1, l3>>, <<l2, l3>>, <<l3, l2>>}
MCInitial == {a0, a1, l1}

Symmetry == Permutations(MCThread)
=============================================================================
