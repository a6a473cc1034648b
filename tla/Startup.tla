------------------------------- MODULE Startup -------------------------------
(***************************************************************************)
(* What the loader computes once, before the program runs: its options and *)
(* search paths, the environment and the initial stack of the program, and *)
(* the secure mode of glibc.  A state is one input of these computations.  *)
(***************************************************************************)
EXTENDS Integers, Sequences, SequencesExt, FiniteSets, FiniteSetsExt, Functions

CONSTANTS
  Option,     \* options
  Gated,      \* those that are read only if dynamic updates are enabled
  update,     \* the option that enables dynamic updates
  skip,       \* the option to skip identical updates
  Directory,  \* directories
  MaxStrings, \* bound on the length of an environment or a list of arguments
  MaxLength,  \* bound on the length of a string
  StackTop    \* where the stack begins

VARIABLES input

startupVars == <<input>>

SeqsUpTo(S, n) == UNION {[1 .. k -> S] : k \in 0 .. n}

(* Auxiliary vectors: user and group, real and effective, and AT_SECURE.   *)
Ids == {"UID", "EUID", "GID", "EGID"}
Auxv == {a \in SeqsUpTo([type : Ids \cup {"SECURE"}, value : 0 .. 1], 5) :
           /\ \A i, j \in DOMAIN a : a[i].type = a[j].type => i = j
           /\ Len(a) >= 3}

(* Ways to detect the use of outdated code; the empty one is not given.    *)
Mode == {"", "disabled", "userfaultfd", "uprobes", "uprobes_deps", "uprobes_other", "ptrace"}

StartupInit ==
  \/ input \in [about : {"environment"}, envp : SeqsUpTo({"", "A=1", "B=2"}, 5)]
  \/ input \in [about : {"stack"}, args : SeqsUpTo(0 .. MaxLength, MaxStrings),
                env : SeqsUpTo(0 .. MaxLength, MaxStrings), auxv : SeqsUpTo({"a", "b"}, 2)]
  \/ input \in [about : {"paths"}, opts : [runtime : SeqsUpTo(Directory, 3), config : SeqsUpTo(Directory, 1)],
                conf : [runtime : SeqsUpTo(Directory, 2), config : SeqsUpTo(Directory, 2)]]
  \/ input \in [about : {"options"}, opts : SUBSET Option, conf : SUBSET Option,
                optMode : Mode, confMode : Mode]
  \/ input \in [about : {"secure"}, auxv : Auxv]

-----------------------------------------------------------------------------
(***************************************************************************)
(* Loader::run as interpreter: each empty variable is swapped with the     *)
(* last one that is not empty.  Indices count from 0 as in the code.       *)
(***************************************************************************)
RECURSIVE Reorder(_, _, _)

Swap(s, i, j) == [s EXCEPT ![i + 1] = s[j + 1], ![j + 1] = s[i + 1]]

(* Mutant: does not skip empty variables at the end.                       *)
LastFullAny(envp, curr, envc) == envc - 1

LastFull(envp, curr, envc) ==
  Max({curr} \cup {i \in curr .. envc - 1 : envp[i + 1] # ""})

Reorder(envp, curr, envc) ==
  CASE curr >= envc -> envp
    [] curr < envc /\ envp[curr + 1] # "" -> Reorder(envp, curr + 1, envc)
    [] OTHER -> LET last == LastFull(envp, curr, envc)
                IN  Reorder(Swap(envp, curr, last), curr + 1, last)

-----------------------------------------------------------------------------
(***************************************************************************)
(* Process::init: strings are given by their lengths, and are copied below *)
(* each other, last one first; then follow auxiliary vectors (two words    *)
(* each), pointers to the environment and to the arguments, and their      *)
(* number.  The result has the strings, and the words from low to high     *)
(* addresses, which end below bottom.                                      *)
(***************************************************************************)
copy_strings(lengths, top) ==
  LET step(p, n) == [at |-> p.at - (n + 1), ptr |-> Append(p.ptr, p.at - (n + 1))]
  IN  FoldLeft(step, [at |-> top, ptr |-> <<>>], Reverse(lengths))

(* Variables that are empty are not taken over.                            *)
Process(environ) == SelectSeq(environ, LAMBDA n : n > 0)

init(args, env, auxv) ==
  LET env_str == copy_strings(env, StackTop - 8)
      arg_str == copy_strings(args, env_str.at)
      aux == FoldLeft(LAMBDA w, a : w \o <<"value", a>>, <<0, "NULL">>, auxv)
      down == aux \o <<0>> \o env_str.ptr \o <<0>> \o arg_str.ptr \o <<Len(args)>>
  IN  [env |-> Reverse(env_str.ptr), arg |-> Reverse(arg_str.ptr),
       bottom |-> arg_str.at - (arg_str.at % 16), words |-> Reverse(down)]

-----------------------------------------------------------------------------
(* A directory is added to the search path unless it is in it already.     *)
vector_append_unique(dest, src) ==
  FoldLeft(LAMBDA d, s : IF s \in ToSet(d) THEN d ELSE Append(d, s), dest, src)

(* setup: what is given by argument comes before what the configuration    *)
(* names, in the path of the process and in that of the system.            *)
library_path(opts, conf) ==
  [p \in {"runtime", "config"} |->
     vector_append_unique(vector_append_unique(<<>>, opts[p]), conf[p])]

(***************************************************************************)
(* An option is set on the command line or in the configuration.  The one  *)
(* to skip identical updates is read only if it is set already, which it   *)
(* is not by default.                                                      *)
(***************************************************************************)
setup(opts, conf) ==
  LET set(o) == o \in opts \/ o \in conf
  IN  [o \in Option |-> /\ o # skip
                        /\ set(o)
                        /\ o \in Gated => set(update)]

(* The mode is that of the command line or else that of the configuration; *)
(* unknown ones fall back to uprobes or leave the detection disabled.      *)
detect_outdated(dynamic_update, optMode, confMode) ==
  LET given == IF optMode = "" THEN confMode ELSE optMode
  IN  CASE ~dynamic_update -> "disabled"
        [] dynamic_update /\ given \in {"userfaultfd", "uprobes", "uprobes_deps"} -> given
        [] dynamic_update /\ given = "uprobes_other" -> "uprobes"
        [] OTHER -> "disabled"

(***************************************************************************)
(* init_globals: the ids are combined by exclusive or (of one bit here)    *)
(* and noted as seen, in the order of the vector; AT_SECURE overrides.     *)
(***************************************************************************)
init_globals(auxv) ==
  LET xor(a, b) == (a + b) % 2
      step(g, a) ==
        CASE a.type \in {"UID", "EUID"} ->
               [g EXCEPT !.uid = xor(@, a.value), !.seen = @ \cup {a.type}]
          [] a.type \in {"GID", "EGID"} ->
               [g EXCEPT !.gid = xor(@, a.value), !.seen = @ \cup {a.type}]
          [] OTHER -> [g EXCEPT !.seen = Ids \cup {"SECURE"}, !.secure = a.value]
      g == FoldLeft(step, [uid |-> 0, gid |-> 0, seen |-> {}, secure |-> 0], auxv)
  IN  IF g.seen = Ids
      THEN IF g.uid # 0 \/ g.gid # 0 THEN 1 ELSE 0
      ELSE g.secure

-----------------------------------------------------------------------------
(* No string of a process overlaps another one or the words below them.    *)
StringsApart(p, lengths) ==
  LET at == p.arg \o p.env
  IN  \A i \in DOMAIN at :
        /\ p.bottom <= at[i] /\ at[i] + lengths[i] < StackTop
        /\ \A j \in DOMAIN at : i < j => at[i] + lengths[i] < at[j]

(***************************************************************************)
(* What the program finds when it starts:                                  *)
(*  - (Loader::run) getenv, which stops at an empty entry, sees each       *)
(*    variable that is not empty, and none is lost;                        *)
(*  - (Process::init) reading the stack upwards gives the number of        *)
(*    arguments, the arguments and the environment in their order, each    *)
(*    with a null, and the auxiliary vectors up to the end mark;           *)
(*  - (setup, vector_append_unique) each directory is searched once, where *)
(*    it has first been named, those given by argument first;              *)
(*  - (setup) an option has an effect whether it is given by argument or   *)
(*    by configuration, and those for updates only if updates are enabled  *)
(*    (but for the one to skip identical updates, which has none); outdated*)
(*    code is not looked for unless asked to, and the command line decides;*)
(*  - (init_globals) the process is secure if AT_SECURE says so, or if     *)
(*    real and effective ids differ, in whatever order they are listed.    *)
(***************************************************************************)
StartupCorrect ==
  CASE input.about = "environment" ->
         LET e == Reorder(input.envp, 0, Len(input.envp))
             n == Len(SelectSeq(input.envp, LAMBDA v : v # ""))
         IN  /\ \A i \in DOMAIN e : e[i] # "" <=> i <= n
             /\ \A v \in ToSet(input.envp) :
                  Cardinality({i \in DOMAIN e : e[i] = v})
                    = Cardinality({i \in DOMAIN e : input.envp[i] = v})
    [] input.about = "stack" ->
         LET env == Process(input.env)
             p == init(input.args, env, input.auxv)
             auxv == FoldLeft(LAMBDA w, a : <<a, "value">> \o w, <<"NULL", 0>>, input.auxv)
         IN  /\ p.words = <<Len(input.args)>> \o p.arg \o <<0>> \o p.env \o <<0>> \o auxv
             /\ StringsApart(p, input.args \o env)
    [] input.about = "paths" ->
         \A kind \in {"runtime", "config"} :
           LET p == library_path(input.opts, input.conf)[kind]
               all == input.opts[kind] \o input.conf[kind]
               first(d) == Min({i \in DOMAIN all : all[i] = d})
           IN  /\ ToSet(p) = ToSet(all) /\ IsInjective(p)
               /\ \A i, j \in DOMAIN p : i < j => first(p[i]) < first(p[j])
    [] input.about = "options" ->
         LET c == setup(input.opts, input.conf)
             d == detect_outdated(c[update], input.optMode, input.confMode)
         IN  /\ \A o \in Option \ {skip} :
                  c[o] <=> /\ o \in input.opts \cup input.conf
                           /\ o \in Gated => c[update]
             /\ d # "disabled" => c[update] /\ {input.optMode, input.confMode} # {""}
             /\ input.optMode = "disabled" => d = "disabled"
    [] input.about = "secure" ->
         LET value(t) == LET i == CHOOSE i \in DOMAIN input.auxv : input.auxv[i].type = t
                         IN  input.auxv[i].value
             types == {input.auxv[i].type : i \in DOMAIN input.auxv}
         IN  init_globals(input.auxv) =
               CASE "SECURE" \in types -> value("SECURE")
                 [] "SECURE" \notin types /\ Ids \subseteq types ->
                      IF value("UID") # value("EUID") \/ value("GID") # value("EGID") THEN 1 ELSE 0
                 [] OTHER -> 0
=============================================================================
