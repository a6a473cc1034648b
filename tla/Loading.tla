------------------------------- MODULE Loading -------------------------------
(***************************************************************************)
(* How files become loaded objects: Loader::open, library and dlopen, the  *)
(* recursive loading of needed libraries, the preparation and the          *)
(* initialisation of a dependency graph, the choice of addresses, and the  *)
(* flat list of versions kept for a debugger.                              *)
(*                                                                         *)
(* Each action is one call made under lookup_sync; the recursion of the    *)
(* code is the recursion of the operators, which take and return the state *)
(* of the loader.  The files on disk (needs, kind, preloads) are chosen in *)
(* the initial state and do not change, except that new versions of them   *)
(* appear.  There is one namespace.                                        *)
(***************************************************************************)
EXTENDS Integers, Sequences, SequencesExt, FiniteSets, FiniteSetsExt

CONSTANTS
  Lib,         \* shared libraries
  exe,         \* the executable
  none,        \* no object
  Pages,       \* file -> pages of an object loaded from it
  Graphs,      \* the dependency graphs looked at
  Preloads,    \* the lists of libraries to preload looked at
  LibAddress,  \* LIBADDRESS, in pages
  MaxVersions  \* bound on the versions of a file

VARIABLES
  needs,    \* file -> sequence of the libraries it needs
  kind,     \* file -> "elf", "excluded", "invalid" or "missing"
  preloads, \* sequence of libraries to be preloaded
  phase,    \* "start", "running" or "failed" (the loader has given up)
  ld        \* the state of the loader

loadingVars == <<needs, kind, preloads, phase, ld>>

File == Lib \cup {exe}

-----------------------------------------------------------------------------
(* The files on disk. *)

(* Libraries on the exclude list are skipped when they are needed. *)
dependencies(f) == SelectSeq(needs[f], LAMBDA g : kind[g] # "excluded")

(* Files that the dependencies of f lead to, f included. *)
Reach(f) ==
  LET more(F) == F \cup UNION {ToSet(dependencies(g)) : g \in F}
      reach[n \in Nat] == IF n = 0 THEN {f} ELSE more(reach[n - 1])
  IN  reach[Cardinality(File)]

Fails(f) == \E g \in Reach(f) : kind[g] \in {"invalid", "missing"}

(***************************************************************************)
(* The failures looked at: a file is invalid, or all that it needs is      *)
(* missing.  If a file had loaded others before it failed, or was put      *)
(* before the dependencies, the code would remove the wrong element from   *)
(* lookup; if the file it needs was itself loaded and removed, it would    *)
(* stay in the list of the debugger.                                       *)
(***************************************************************************)
CleanFailures ==
  /\ \A f \in File : Fails(f) => \A g \in ToSet(dependencies(f)) : kind[g] = "missing"
  /\ \A f \in ToSet(preloads) : Fails(f) => kind[f] = "missing"

NoObjects ==
  [lookup  |-> <<>>,                      \* identities, in search order
   first   |-> none,                      \* Loader::dependencies
   objects |-> [f \in File |-> <<>>],     \* versions, the current one first
   next    |-> 0,                         \* next_library_address
   inited  |-> [f \in File |-> FALSE],    \* flags.initialized
   order   |-> <<>>,                      \* initialisers run so far
   gdb     |-> <<>>,                      \* flat_link_map
   brk     |-> FALSE,                     \* r_brk is set
   ok      |-> TRUE]                      \* result of the last call

LoadingInit ==
  /\ needs \in Graphs
  /\ kind \in [File -> {"elf", "excluded", "invalid", "missing"}]
  /\ kind[exe] = "elf"
  /\ Cardinality({f \in File : kind[f] # "elf"}) <= 1
  /\ preloads \in Preloads
  /\ CleanFailures
  /\ phase = "start"
  /\ ld = NoObjects

-----------------------------------------------------------------------------
(* Addresses *)

Ends(s) == {s.objects[f][i].end : <<f, i>> \in
              {<<f, i>> \in File \X (1 .. MaxVersions) : i \in DOMAIN s.objects[f]}}

(* Mutant: an end within a page is rounded down. *)
next_addressDown(s) ==
  LET top == Max({s.next} \cup Ends(s)) IN IF top = 0 THEN LibAddress ELSE top - 1

next_address(s) ==
  LET top == Max({s.next} \cup Ends(s)) IN IF top = 0 THEN LibAddress ELSE top

(* Creates the next version of f, and makes it the current one. *)
create(s, f) ==
  LET base == next_address(s)
      o == [base |-> base, end |-> base + Pages[f],
            status |-> IF s.inited[f] THEN "prepared" ELSE "mapped"]
  IN  [s EXCEPT !.objects[f] = <<o>> \o @, !.next = base + Pages[f]]

(* Deletes the current version of f. *)
Delete(s, f) ==
  [s EXCEPT !.objects[f] = Tail(@),
            !.next = Min({@, s.objects[f][1].base})]

-----------------------------------------------------------------------------
(* The list for the debugger *)

Versions(s) ==
  FlattenSeq([i \in DOMAIN s.lookup |->
    LET f == s.lookup[i]
    IN  [j \in DOMAIN s.objects[f] |-> <<f, s.objects[f][j].base>>]])

(* Mutant: adds new versions at the end of the list. *)
refreshAppends(s) ==
  IF s.brk
  THEN [s EXCEPT !.gdb = @ \o SelectSeq(Versions(s), LAMBDA v : v \notin ToSet(s.gdb))]
  ELSE s

(* Goes through both lists in parallel, inserting what is missing. *)
refresh(s) ==
  LET step(list, i) ==
        IF i <= Len(list) /\ list[i] = Versions(s)[i]
        THEN list
        ELSE InsertAt(list, i, Versions(s)[i])
      upto[i \in 0 .. Len(Versions(s))] ==
        IF i = 0 THEN s.gdb ELSE step(upto[i - 1], i)
  IN  IF s.brk THEN [s EXCEPT !.gdb = upto[Len(Versions(s))]] ELSE s

-----------------------------------------------------------------------------
(* Opening files *)

Index(seq, e) == CHOOSE i \in DOMAIN seq : seq[i] = e

emplace(s, f, priority) ==
  [s EXCEPT !.lookup = IF priority /\ s.first # none
                       THEN InsertAt(@, Index(@, s.first), f)
                       ELSE Append(@, f),
            !.first = IF ~priority /\ @ = none THEN f ELSE @]

RECURSIVE open(_, _, _), preload_libraries(_, _, _)

library(s, f, priority) ==
  IF f \in ToSet(s.lookup) THEN [s EXCEPT !.ok = TRUE] ELSE open(s, f, priority)

preload_libraries(s, libs, success) ==
  IF libs = <<>>
  THEN [s EXCEPT !.ok = success]
  ELSE LET l == library(s, Head(libs), FALSE)
       IN  preload_libraries(l, Tail(libs), success /\ l.ok)

load(s, f) ==
  IF kind[f] = "invalid"
  THEN [s EXCEPT !.ok = FALSE]
  ELSE LET l == preload_libraries(create(s, f), dependencies(f), TRUE)
       IN  IF l.ok THEN l ELSE Delete(l, f)

open(s, f, priority) ==
  IF kind[f] = "missing"
  THEN [s EXCEPT !.ok = FALSE]
  ELSE LET l == refresh(load(emplace(s, f, priority), f))
       IN  IF l.ok THEN l ELSE [l EXCEPT !.lookup = Front(@)]

-----------------------------------------------------------------------------
(* Preparation and initialisation of the dependency graph *)

RECURSIVE prepare(_, _), initialize(_, _), initializeFirst(_, _)

prepare(s, f) ==
  IF s.objects[f][1].status # "mapped"   \* preparing: circular dependency
  THEN s
  ELSE [FoldLeft(prepare, [s EXCEPT !.objects[f][1].status = "preparing"],
                 dependencies(f))
          EXCEPT !.objects[f][1].status = "prepared"]

Initializer(s, f) ==
  [file |-> f,
   ready |-> \A g \in Reach(f) : /\ s.objects[g] # <<>>
                                 /\ s.objects[g][1].status = "prepared"]

(* Mutant: runs the initialisers of an object before its dependencies'. *)
initializeFirst(s, f) ==
  IF s.inited[f]
  THEN s
  ELSE FoldLeft(initializeFirst,
         [s EXCEPT !.inited[f] = TRUE, !.order = Append(@, Initializer(s, f))],
         dependencies(f))

initialize(s, f) ==
  IF s.inited[f]
  THEN s
  ELSE LET d == FoldLeft(initialize, [s EXCEPT !.inited[f] = TRUE], dependencies(f))
       IN  [d EXCEPT !.order = Append(@, Initializer(d, f))]

-----------------------------------------------------------------------------
(* The operations *)

(***************************************************************************)
(* The start of the program: open the executable and the libraries to be   *)
(* preloaded, put the executable first, prepare everything, and run the    *)
(* initialisers of the libraries.  Those of the executable are run by its  *)
(* own _start.                                                             *)
(***************************************************************************)
run(s) ==
  LET target == [s EXCEPT !.lookup = <<exe>> \o SelectSeq(@, LAMBDA f : f # exe),
                          !.inited[exe] = TRUE]
      relocated == FoldLeft(prepare, target, Reverse(target.lookup))
      traced == refresh([relocated EXCEPT !.brk = TRUE])
      ready == FoldLeft(initialize, traced, Reverse(traced.lookup))
  IN  [ready EXCEPT !.order = Append(@, Initializer(ready, exe))]

main ==
  /\ phase = "start"
  /\ LET opened == open(ld, exe, TRUE)
         preloaded == FoldLeft(LAMBDA s, f : library(s, f, TRUE), opened, preloads)
     IN  IF opened.ok
         THEN phase' = "running" /\ ld' = run(preloaded)
         ELSE phase' = "failed" /\ ld' = opened
  /\ UNCHANGED <<needs, kind, preloads>>

dlopen(f) ==
  /\ phase = "running"
  /\ LET l == library(ld, f, FALSE)
     IN  ld' = IF l.ok THEN initialize(prepare(l, f), f) ELSE l
  /\ UNCHANGED <<needs, kind, preloads, phase>>

(***************************************************************************)
(* A new version of a file is loaded; if it is not compatible with the     *)
(* current one it is deleted again.                                        *)
(***************************************************************************)
NewVersion(f, compatible) ==
  /\ phase = "running"
  /\ f \in ToSet(ld.lookup) /\ Len(ld.objects[f]) < MaxVersions
  /\ ld' = refresh(IF compatible THEN load(ld, f) ELSE Delete(create(ld, f), f))
  /\ UNCHANGED <<needs, kind, preloads, phase>>

LoadingNext ==
  \/ main
  \/ \E f \in Lib : dlopen(f)
  \/ \E f \in File, compatible \in BOOLEAN : NewVersion(f, compatible)

LoadingSpec == LoadingInit /\ [][LoadingNext]_loadingVars

-----------------------------------------------------------------------------
(***************************************************************************)
(* ObjectIdentity::initialize runs the initialisers of an object once,     *)
(* after everything that can be reached from it has been relocated, and    *)
(* after those of each library it needs, unless that library needs it in   *)
(* turn; once main or dlopen returns, none is left out.                    *)
(***************************************************************************)
InitOrder ==
  LET ran == [i \in DOMAIN ld.order |-> ld.order[i].file]
  IN  /\ IsInjective(ran)
      /\ \A i \in DOMAIN ran :
           /\ ld.order[i].ready
           /\ \A g \in ToSet(dependencies(ran[i])) :
                ran[i] \in Reach(g) \/ \E j \in 1 .. i - 1 : ran[j] = g
      /\ phase = "running" => ToSet(ran) = ToSet(ld.lookup)

(***************************************************************************)
(* What Loader::open and library maintain of the search order: no file     *)
(* twice, each with a version and with all it needs; the executable first, *)
(* and preloaded libraries, in their order, before anything that has only  *)
(* been loaded because it was needed.                                      *)
(***************************************************************************)
SearchOrder ==
  LET l == ld.lookup
      before(f) == {exe} \cup {preloads[i] : i \in 1 .. Index(preloads, f) - 1}
      needed(f) == \E g \in before(f) : kind[g] # "missing" /\ f \in Reach(g)
      chosen == SelectSeq(preloads, LAMBDA f : kind[f] # "missing" /\ ~needed(f))
  IN  /\ IsInjective(l)
      /\ \A f \in ToSet(l) : /\ ld.objects[f] # <<>>
                             /\ ToSet(dependencies(f)) \subseteq ToSet(l)
      /\ phase = "running" => IsPrefix(<<exe>> \o chosen, l)

(***************************************************************************)
(* GDB::refresh only inserts, and yet the list shown to the debugger is    *)
(* that of all versions of all files in search order, whatever has been    *)
(* loaded, replaced or rejected.                                           *)
(***************************************************************************)
GdbListExact == phase = "running" => ld.gdb = Versions(ld)

(***************************************************************************)
(* next_address and reset_address never let two objects overlap, be they   *)
(* versions of one file or not, whatever has been deleted in between.      *)
(***************************************************************************)
NoOverlap ==
  \A f, g \in File : \A i \in DOMAIN ld.objects[f], j \in DOMAIN ld.objects[g] :
    <<f, i>> = <<g, j>> \/ LET o == ld.objects[f][i] p == ld.objects[g][j]
                           IN  o.end <= p.base \/ p.end <= o.base
=============================================================================
