----------------------------- MODULE MCServices -----------------------------
(***************************************************************************)
(* Instances of the components that work beside the update: redirection,   *)
(* thread-local storage, fork, loading, symbol lookup, the dl interface,   *)
(* relocatable files, stdlog, the patches of glibc and the start of a      *)
(* process.  They share no state, so a behaviour is one of one component,  *)
(* chosen at the beginning; the variables of the others keep their initial *)
(* values, or are Off where there are too many of them.                    *)
(***************************************************************************)
EXTENDS Redirect, TLS, Fork, Relocatable, Interface, Stdlog, TLC

CONSTANTS t1, t2, site1, site2

Off == "off"

VARIABLES
  component,
  needs, kind, preloads, progressed, ld,
  question,
  input

(* Sizes and alignments of the thread-local storage of three objects       *)
MCSize == [o1 |-> 3, o2 |-> 4, o3 |-> 1]
MCAlign == [o1 |-> 1, o2 |-> 4, o3 |-> 2]

(* Lists without repetition of at most two libraries                       *)
Lists(S) == {<<>>} \cup {<<x>> : x \in S} \cup {s \in S \X S : s[1] # s[2]}

L == INSTANCE Loading WITH
  Lib <- {"a", "b", "c"}, exe <- "exe", none <- "none",
  Pages <- [exe |-> 2, a |-> 1, b |-> 2, c |-> 1],
  Graphs <- [exe : {<<"a">>, <<"b", "a">>}, a : Lists({"b", "c"}), b : {<<"c">>, <<"a">>},
             c : {<<>>, <<"a">>}],
  Preloads <- {<<>>, <<"c", "b">>}, LibAddress <- 1, MaxVersions <- 2,
  phase <- progressed

(* Two symbols of n bytes, one behind the other                            *)
Names(from, n) == <<[at |-> from, size |-> n], [at |-> from + n, size |-> n]>>

LibVersions(n) == [i \in 1 .. n |-> [name |-> <<"v1", "v2">>[i], index |-> i + 1]]

Y == INSTANCE Lookup WITH
  Ident <- {"x", "y", "z"}, None <- "none", Name <- {"v1", "v2"}, Soname <- {"la", "lb"},
  Lookups <- {<<"x", "y", "z">>},
  Needs <- {<<>>, <<"x">>, <<"z", "y">>, <<"y", "x", "z">>},
  Tables <- [own : {"none", "la"}, defined : {LibVersions(n) : n \in 0 .. 2},
             needed : {<<>>} \cup {<<[name |-> v, file |-> l, index |-> 4],
                                     [name |-> "v2", file |-> "lb", index |-> 5]>> :
                                   <<v, l>> \in {<<"v1", "lb">>, <<"v2", "la">>}}],
  Layouts <- {<<[at |-> b, size |-> 3, symbols |-> Names(0, 1)],
                [at |-> c, size |-> 2, symbols |-> Names(s, 1)],
                [at |-> 10, size |-> 2, symbols |-> <<>>]>> :
              b \in {3, 7}, c \in {1, 12}, s \in 0 .. 1},
  MaxAddr <- 15

(* Two files, of which the first has versions that differ in functions and *)
(* search paths                                                            *)
MCDef == [a |-> <<{"f", "g"}, {"g", "x"}, {"f", "g"}>>, b |-> <<{"f", "x"}>>]
MCRpath == [a |-> <<<<"/o">>, <<"/o">>, <<"/opt">>>>, b |-> <<<<>>>>]
MCRunpath == [a |-> <<<<>>, <<"/r", "/o">>, <<>>>>, b |-> <<<<"/r">>>>]
MCSearchPaths == [runtime |-> <<"/opt">>, config |-> <<>>, default |-> <<"/lib">>]
MCLength == "/o" :> 2 @@ "/r" :> 2 @@ "/opt" :> 4 @@ "/lib" :> 4

MCStreamOf ==
  [log |-> "out", tty |-> "out", errlog |-> "error", inlog |-> "in", command |-> "in"]

S == INSTANCE Startup WITH
  Option <- {"update", "force", "debug", "skip"}, Gated <- {"force"}, update <- "update",
  skip <- "skip", Directory <- {"/lib", "/opt"}, MaxStrings <- 2, MaxLength <- 2, StackTop <- 64

(* The two ways a function begins, and its code                            *)
Begins == {<<>>, <<[op |-> "endbr64", to |-> ""]>>}
Ops(n, ops) == [1 .. n -> [op : ops, to : {""}]]
Ret == <<[op |-> "ret", to |-> ""]>>

P == INSTANCE Patch WITH
  Jumps <- {b \o o \o Ret : b \in Begins, o \in UNION {Ops(n, {"op"}) : n \in 0 .. 2}},
  Forks <- {b \o o \o Ret : b \in Begins, o \in UNION {Ops(n, {"mov clone", "syscall", "op"}) : n \in {2, 4}}},
  JumpSize <- 2, Offsets <- {<<>>, <<"dlsym">>, <<"dlsym", "fork">>, <<"fork", "dlsym">>},
  Tables <- {{"dlsym"}, {"dlsym", "fork"}}

-----------------------------------------------------------------------------
loadingState == <<needs, kind, preloads, progressed, ld>>
others == <<question, input>>
allVars == <<vars, component, tlsVars, forkVars, loadingState, interfaceVars,
             relocatableVars, stdlogVars, others>>

LoadingOff == needs = Off /\ kind = Off /\ preloads = Off /\ progressed = Off /\ ld = Off

MCInit ==
  /\ component \in {"redirect", "tls", "fork", "loading", "lookup", "interface",
                    "relocatable", "stdlog", "startup", "patch"}
  /\ Init /\ (component # "redirect" => alive = Task)
  /\ TlsInit /\ ForkInit /\ RelocatableInit /\ InterfaceInit
  /\ StdlogInit /\ (component # "stdlog" => stdin = "open")
  /\ IF component = "loading" THEN L!LoadingInit ELSE LoadingOff
  /\ IF component = "lookup" THEN Y!LookupInit ELSE question = Off
  /\ CASE component = "startup" -> S!StartupInit
       [] component = "patch" -> P!PatchInit
       [] OTHER -> input = Off

RedirectStep ==
  /\ component = "redirect" /\ Next
  /\ UNCHANGED <<component, others, tlsVars, forkVars, loadingState,
                 interfaceVars, relocatableVars, stdlogVars>>
TlsStep ==
  /\ component = "tls" /\ TlsNext
  /\ UNCHANGED <<component, others, vars, forkVars, loadingState,
                 interfaceVars, relocatableVars, stdlogVars>>
ForkStep ==
  /\ component = "fork" /\ ForkNext
  /\ UNCHANGED <<component, others, vars, tlsVars, loadingState,
                 interfaceVars, relocatableVars, stdlogVars>>
LoadingStep ==
  /\ component = "loading" /\ L!LoadingNext
  /\ UNCHANGED <<component, others, vars, tlsVars, forkVars,
                 interfaceVars, relocatableVars, stdlogVars>>
InterfaceStep ==
  /\ component = "interface" /\ InterfaceNext
  /\ UNCHANGED <<component, others, vars, tlsVars, forkVars,
                 loadingState, relocatableVars, stdlogVars>>
RelocatableStep ==
  /\ component = "relocatable" /\ RelocatableNext
  /\ UNCHANGED <<component, others, vars, tlsVars, forkVars,
                 loadingState, interfaceVars, stdlogVars>>
StdlogStep ==
  /\ component = "stdlog" /\ StdlogNext
  /\ UNCHANGED <<component, others, vars, tlsVars, forkVars,
                 loadingState, interfaceVars, relocatableVars>>

MCNext ==
  \/ RedirectStep \/ TlsStep \/ ForkStep \/ LoadingStep
  \/ InterfaceStep \/ RelocatableStep \/ StdlogStep

MCSpec == MCInit /\ [][MCNext]_allVars /\ Fairness

-----------------------------------------------------------------------------
(* Loading: a library is initialised after those it needs, and once.       *)
InitOrder == component = "loading" => L!InitOrder

(* Loading: preloaded libraries come before others in the search order,    *)
(* and the debugger's list has the objects in that order, each once.       *)
ListsExact == component = "loading" => L!SearchOrder /\ L!GdbListExact

(* Loading: no two objects share an address.                               *)
NoOverlap == component = "loading" => L!NoOverlap

(* Lookup: symbols are found where the mode says, with the right version,  *)
(* and addresses in the object and symbol they belong to.                  *)
LookupCorrect == component = "lookup" => Y!LookupCorrect

(* Start: the program finds its options, paths, environment and stack, and *)
(* the functions of libc are patched as a whole or not at all.             *)
StartupCorrect ==
  /\ component = "startup" => S!StartupCorrect
  /\ component = "patch" => P!PatchSound
=============================================================================
