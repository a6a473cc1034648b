-------------------------------- MODULE Patch --------------------------------
(***************************************************************************)
(* The patches of glibc, applied when libc is loaded: functions that would *)
(* bypass the loader are overwritten with a jump to its own, and the clone *)
(* in fork is replaced by a call of __fork_syscall.  The functions are     *)
(* found by the build id of a known libc, or else by their symbols.        *)
(*                                                                         *)
(* A state is one input.  An element of the code stands for a few bytes: a *)
(* jump needs JumpSize of them, the search for the clone looks for two.    *)
(***************************************************************************)
EXTENDS Naturals, Sequences, SequencesExt, FiniteSetsExt

CONSTANTS
  Jumps,     \* bodies of the function to be replaced
  Forks,     \* bodies of fork
  JumpSize,  \* size of a jump
  Offsets,   \* fixes by build id: lists of the names of functions
  Tables     \* what a symbol table has: sets of names

VARIABLES input

patchVars == <<input>>

Byte(b) == [op |-> b, to |-> ""]
Missing == {"no table"}

(* Code of libc: the two functions to be patched, and another one          *)
PatchInit ==
  input \in [jump : Jumps, fork : Forks, broken : SUBSET {"dlsym", "fork"},
             build_id : Offsets, symtab : Tables \cup {Missing}, dynsym : Tables \cup {Missing}]

Text == input.jump \o input.fork \o <<Byte("op"), Byte("ret")>>
Function(n) == IF n = "dlsym" THEN [at |-> 1, size |-> Len(input.jump)]
               ELSE [at |-> Len(input.jump) + 1, size |-> Len(input.fork)]

Clone == <<Byte("mov clone"), Byte("syscall")>>
Matches(code, at, size) ==
  {i \in at .. at + size - 1 : i < Len(code) /\ SubSeq(code, i, i + 1) = Clone}

Write(code, at, bytes) ==
  [i \in DOMAIN code |-> IF i \in at .. at + Len(bytes) - 1 THEN bytes[i - at + 1] ELSE code[i]]

-----------------------------------------------------------------------------
(* Each operation takes the code, and returns it with its success.         *)

(* The first clone becomes a call of arg, which is as long.                *)
redirect_fork_syscall(code, address, size, arg) ==
  LET found == Matches(code, address, size)
      call == <<[op |-> "call", to |-> arg], Byte("nop")>>
  IN  IF found = {} THEN [code |-> code, ok |-> FALSE]
      ELSE [code |-> Write(code, Min(found), call), ok |-> TRUE]

(* nops, and a jump to arg at the end of the function                      *)
nops_jmp(code, address, size, arg) ==
  LET body == [i \in 1 .. size |-> IF i <= size - JumpSize THEN Byte("nop")
                                   ELSE [op |-> "jmp", to |-> arg]]
  IN  IF size < JumpSize THEN [code |-> code, ok |-> FALSE]
      ELSE [code |-> Write(code, address, body), ok |-> TRUE]

(* Patch::apply: without a compose buffer there is nothing to write to; a  *)
(* leading endbr64 is kept.                                                *)
apply(code, n) ==
  LET fn == Function(n)
      skip == IF code[fn.at] = Byte("endbr64") THEN 1 ELSE 0
  IN  CASE n \in input.broken -> [code |-> code, ok |-> FALSE]
        [] n \notin input.broken /\ n = "fork" ->
             redirect_fork_syscall(code, fn.at + skip, fn.size - skip, n)
        [] OTHER -> nops_jmp(code, fn.at + skip, fn.size - skip, n)

(* PatchSymbol::apply: the symbol has to be in the table.                  *)
applySymbol(code, n, table) ==
  IF n \in table THEN apply(code, n) ELSE [code |-> code, ok |-> FALSE]

(* Fixes are applied in turn, and all have to succeed.                     *)
Also(r, s) == [code |-> s.code, ok |-> r.ok /\ s.ok]

patch_using_symbol_fixes(code) ==
  LET fix(c, n) == LET s == applySymbol(c, n, input.symtab)
                   IN  IF s.ok THEN s ELSE applySymbol(s.code, n, input.dynsym)
  IN  IF input.symtab = Missing /\ input.dynsym = Missing
      THEN [code |-> code, ok |-> FALSE]
      ELSE FoldLeft(LAMBDA r, n : Also(r, fix(r.code, n)), [code |-> code, ok |-> TRUE],
                    <<"dlsym", "fork">>)

(* The empty list: this build id is not known.                             *)
patch_using_offset_fixes(code) ==
  IF input.build_id = <<>> THEN [code |-> code, ok |-> FALSE]
  ELSE FoldLeft(LAMBDA r, n : Also(r, apply(r.code, n)), [code |-> code, ok |-> TRUE],
                input.build_id)

patch ==
  LET s == patch_using_offset_fixes(Text)
  IN  IF s.ok THEN s ELSE patch_using_symbol_fixes(s.code)

-----------------------------------------------------------------------------
(* What the processor does from the begin of a function on: endbr64 and    *)
(* nops are passed.                                                        *)
Body(code, n) == SubSeq(code, Function(n).at, Function(n).at + Function(n).size - 1)
FirstOp(s) ==
  s[Min({i \in DOMAIN s : s[i] \notin {Byte("nop"), Byte("endbr64")}})]

(* A whole jump is in the function, and is reached first.                  *)
Jumped(code, n) ==
  LET s == Body(code, n)
  IN  /\ FirstOp(s) = [op |-> "jmp", to |-> n]
      /\ \A i \in DOMAIN s : s[i] = [op |-> "jmp", to |-> n] <=> i > Len(s) - JumpSize

(* The first clone is replaced, and other elements only if they were one.  *)
Called(code) ==
  LET fn == Function("fork")
      old == Matches(Text, fn.at, fn.size)
      changed == {i \in DOMAIN code : i \in fn.at .. fn.at + fn.size - 1 /\ code[i] # Text[i]}
  IN  /\ old # {} /\ code[Min(old)] = [op |-> "call", to |-> "fork"]
      /\ \A i \in changed : i \in old \/ i - 1 \in old

(***************************************************************************)
(* GLIBC::patch, whatever of it fails: each function is as it was, or is   *)
(* redirected as a whole, also if it is patched by build id and then again *)
(* by symbol; no other code is changed.  If it reports success, then all   *)
(* functions of the table that was used are redirected; and it succeeds if *)
(* all can be patched and a symbol table has them.  (With a known build id *)
(* it may report a failure although all are redirected in the end: a clone *)
(* is not found a second time.)                                            *)
(***************************************************************************)
PatchSound ==
  LET r == patch
      redirected(n) == IF n = "fork" THEN Called(r.code) ELSE Jumped(r.code, n)
      known == patch_using_offset_fixes(Text).ok
  IN  /\ Len(r.code) = Len(Text)
      /\ \A n \in {"dlsym", "fork"} : Body(r.code, n) = Body(Text, n) \/ redirected(n)
      /\ SubSeq(r.code, Len(Text) - 1, Len(Text)) = SubSeq(Text, Len(Text) - 1, Len(Text))
      /\ r.ok => \A n \in IF known THEN ToSet(input.build_id) ELSE {"dlsym", "fork"} : redirected(n)
      /\ /\ input.build_id = <<>> /\ input.broken = {}
         /\ {"dlsym", "fork"} \in {input.symtab, input.dynsym}
         /\ \A n \in {"dlsym", "fork"} : apply(Text, n).ok
         => r.ok
==============================================================================
