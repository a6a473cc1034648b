------------------------------ MODULE Interface ------------------------------
(***************************************************************************)
(* The dl interface as a program uses it while its libraries are updated:  *)
(* dlopen, dlsym with trampolines, dlinfo with its two calls for the       *)
(* search path, dlerror and dlclose.  A trampoline is an entry of a block, *)
(* a jump through a cell that Trampoline::update directs to new versions.  *)
(*                                                                         *)
(* Each function holds lookup_sync, and is one step here; dlerror holds    *)
(* nothing.  Symbols are resolved in the file they are asked from.         *)
(***************************************************************************)
EXTENDS Integers, Sequences, SequencesExt

CONSTANTS
  Openable,          \* what can be opened
  Caller,            \* threads that use the interface
  SymbolName,        \* names of symbols
  Callable,          \* those of functions
  Def,               \* file -> version -> the names it defines
  rpath, runpath,    \* file -> version -> directories it names
  search_paths,      \* the paths of the loader: runtime, config, default
  Length,            \* directory -> length of its name
  SerinfoSize,       \* size of a Serinfo without directories
  SerpathSize,       \* and that of an entry in it
  entries_per_block, \* trampolines in a block
  MaxSymbols         \* bound on the trampolines

ASSUME InterfaceAssumption ==
  /\ entries_per_block \in Nat \ {0}
  /\ Def \in [Openable -> Seq(SUBSET SymbolName)]

VARIABLES
  loaded,      \* file -> current version (0: not loaded)
  updates,     \* a version has been loaded and not yet been applied
  trampolines, \* the symbols with trampolines, by index
  blocks,      \* number of blocks
  address,     \* [block, entry] -> symbol of a version the cell leads to
  pointers,    \* what dlsym has returned: [symbol, at]
  error_msg,   \* whether there is a message for dlerror
  info         \* thread -> the Serinfo it has, and the result of dlinfo

interfaceVars == <<loaded, updates, trampolines, blocks, address, pointers, error_msg, info>>

NoInfo == [result |-> "none"]

InterfaceInit ==
  /\ loaded = [f \in Openable |-> 0] /\ updates = FALSE
  /\ trampolines = <<>> /\ blocks = 0 /\ address = [at \in {} |-> 0] /\ pointers = {}
  /\ error_msg = FALSE /\ info = [t \in Caller |-> NoInfo]

is_loaded(f) == loaded[f] # 0

(* resolve_symbol in the current version of the file                       *)
Resolves(f, n) == is_loaded(f) /\ n \in Def[f][loaded[f]]
VersionedSymbol(f, n) == [file |-> f, version |-> loaded[f], name |-> n]

-----------------------------------------------------------------------------
(* Trampoline: indices count from 0 as in the code.                        *)

pointer(i) == [block |-> (i \div entries_per_block) + 1, entry |-> i % entries_per_block]

(* Where a symbol has its trampoline; none has two.                        *)
index(sym) == {i \in DOMAIN trampolines : trampolines[i] = sym}

(* Another block is needed for the next symbol.                            *)
Full == (Len(trampolines) + 1) \div entries_per_block >= blocks

Assigned(cells, at, sym) == [a \in DOMAIN cells \cup {at} |-> IF a = at THEN sym ELSE cells[a]]

(***************************************************************************)
(* Trampoline::set: the symbol of a version that has no trampoline yet     *)
(* gets one, for which memory may be missing (then nullptr is returned).   *)
(***************************************************************************)
set(sym, memory) ==
  LET known == index(sym)
      at == pointer(IF known # {} THEN (CHOOSE i \in known : TRUE) - 1 ELSE Len(trampolines))
  IN  IF known = {} /\ Full /\ ~memory
      THEN UNCHANGED <<trampolines, blocks, address, pointers>>
      ELSE /\ trampolines' = IF known # {} THEN trampolines ELSE Append(trampolines, sym)
           /\ blocks' = IF known = {} /\ Full THEN blocks + 1 ELSE blocks
           /\ address' = Assigned(address, at, VersionedSymbol(sym.file, sym.name))
           /\ pointers' = pointers \cup {[symbol |-> sym, at |-> at]}

(* Mutant: stops before the last symbol.                                   *)
RefreshedEarly == 1 .. Len(trampolines) - 1

Refreshed == 1 .. Len(trampolines)

(* Trampoline::update: a symbol the current version lacks stays as it is.  *)
trampoline_update ==
  [at \in DOMAIN address |->
     LET here == {trampolines[i] : i \in {j \in Refreshed : pointer(j - 1) = at}}
         found == {s \in here : Resolves(s.file, s.name)}
     IN  IF found = {} THEN address[at]
         ELSE LET s == CHOOSE s \in found : TRUE IN VersionedSymbol(s.file, s.name)]

-----------------------------------------------------------------------------
(* Loader: a new version of a file, and later its application.             *)

Load(f) ==
  /\ is_loaded(f) /\ loaded[f] < Len(Def[f])
  /\ loaded' = [loaded EXCEPT ![f] = @ + 1] /\ updates' = TRUE
  /\ UNCHANGED <<trampolines, blocks, address, pointers, error_msg, info>>

Relocate ==
  /\ updates /\ updates' = FALSE /\ address' = trampoline_update
  /\ UNCHANGED <<loaded, trampolines, blocks, pointers, error_msg, info>>

-----------------------------------------------------------------------------
(* The functions of libdl *)

dlmopen(f, found) ==
  /\ IF is_loaded(f) THEN UNCHANGED <<loaded, error_msg>>
     ELSE IF found THEN loaded' = [loaded EXCEPT ![f] = 1] /\ UNCHANGED error_msg
     ELSE error_msg' = TRUE /\ UNCHANGED loaded
  /\ UNCHANGED <<updates, trampolines, blocks, address, pointers, info>>

dlclose ==
  /\ error_msg' = TRUE
  /\ UNCHANGED <<loaded, updates, trampolines, blocks, address, pointers, info>>

dlerror ==
  /\ error_msg /\ error_msg' = FALSE
  /\ UNCHANGED <<loaded, updates, trampolines, blocks, address, pointers, info>>

dlsym(f, n, memory) ==
  /\ Len(trampolines) < MaxSymbols
  /\ IF Resolves(f, n)
     THEN /\ IF n \in Callable
             THEN set(VersionedSymbol(f, n), memory)
             ELSE UNCHANGED <<trampolines, blocks, address, pointers>>
          /\ UNCHANGED error_msg
     ELSE error_msg' = TRUE /\ UNCHANGED <<trampolines, blocks, address, pointers>>
  /\ UNCHANGED <<loaded, updates, info>>

(* The directories searched for what the file needs, in their order        *)
Path(f) ==
  rpath[f][loaded[f]] \o search_paths.runtime \o runpath[f][loaded[f]]
    \o search_paths.config \o search_paths.default

(* Mutant: forgets the null bytes that end the names.                      *)
BytesUnended(path) == FoldLeft(LAMBDA n, d : n + Length[d], 0, path)

Bytes(path) == FoldLeft(LAMBDA n, d : n + Length[d] + 1, 0, path)

SerinfoStart(cnt) == SerinfoSize + cnt * SerpathSize

(* dlinfo with RTLD_DI_SERINFOSIZE                                         *)
Serinfosize(t, f) ==
  info' = [info EXCEPT ![t] =
    [result |-> "sized", file |-> f, path |-> Path(f), cnt |-> Len(Path(f)),
     size |-> SerinfoStart(Len(Path(f))) + Bytes(Path(f))]]

(***************************************************************************)
(* dlinfo with RTLD_DI_SERINFO, for a buffer of the size asked before: the *)
(* names are written behind the entries as long as there is space.         *)
(***************************************************************************)
Serinfo(t) ==
  LET i == info[t]
      step(r, d) ==
        CASE r.result = "error" -> r
          [] r.result # "error" /\ (i.cnt <= Len(r.names) \/ i.size < r.buf_pos + Length[d] + 1) ->
               [r EXCEPT !.result = "error"]
          [] OTHER -> [r EXCEPT !.names = Append(@, [dir |-> d, at |-> r.buf_pos]),
                                !.buf_pos = @ + Length[d] + 1]
      r == FoldLeft(step, [result |-> "filled", names |-> <<>>, buf_pos |-> SerinfoStart(i.cnt)],
                    Path(i.file))
  IN  /\ info' = [info EXCEPT ![t] = [result |-> r.result, names |-> r.names, sized |-> i,
                                      path |-> Path(i.file)]]
      /\ error_msg' = (error_msg \/ r.result = "error")

(* dlinfo; requests that only read the object are left out.                *)
dlinfo(t, f, request) ==
  /\ CASE ~is_loaded(f) \/ request = "unknown" -> error_msg' = TRUE /\ UNCHANGED info
       [] is_loaded(f) /\ request = "SERINFOSIZE" -> Serinfosize(t, f) /\ UNCHANGED error_msg
       [] is_loaded(f) /\ request = "SERINFO" ->
            info[t].result = "sized" /\ info[t].file = f /\ Serinfo(t)
  /\ UNCHANGED <<loaded, updates, trampolines, blocks, address, pointers>>

InterfaceNext ==
  \/ \E f \in Openable : Load(f) \/ \E found \in BOOLEAN : dlmopen(f, found)
  \/ Relocate \/ dlclose \/ dlerror
  \/ \E f \in Openable, n \in SymbolName, memory \in BOOLEAN : dlsym(f, n, memory)
  \/ \E t \in Caller, f \in Openable, r \in {"SERINFOSIZE", "SERINFO", "unknown"} : dlinfo(t, f, r)

InterfaceSpec == InterfaceInit /\ [][InterfaceNext]_interfaceVars

-----------------------------------------------------------------------------
(***************************************************************************)
(* A function pointer obtained by dlsym (_dlvsym, Trampoline::set) stays   *)
(* usable: it is in a block that has been allocated, no other symbol uses  *)
(* it, it never leads to another function or to an older version than it   *)
(* did at first, and once an update is over it leads to the current one if *)
(* that has the function.                                                  *)
(***************************************************************************)
PointersLead ==
  \A p \in pointers :
    LET to == address[p.at]
    IN  /\ p.at.block <= blocks
        /\ \A q \in pointers : p.at = q.at => p.symbol = q.symbol
        /\ to.file = p.symbol.file /\ to.name = p.symbol.name
        /\ to.version >= p.symbol.version /\ to.name \in Def[to.file][to.version]
        /\ ~updates /\ Resolves(to.file, to.name) => to.version = loaded[to.file]

(***************************************************************************)
(* The two calls of dlinfo for the search path fit together although files *)
(* may be updated in between: no name is written outside of the buffer or  *)
(* over entries or other names, a call that succeeds delivers the whole    *)
(* path, and one fails only if the path has changed since its size was     *)
(* asked.  (A path that has become shorter leaves entries unset, as dls_cnt*)
(* is not corrected.)                                                      *)
(***************************************************************************)
SerinfoSound ==
  \A t \in Caller : info[t].result \in {"filled", "error"} =>
    LET i == info[t]
        end(k) == i.names[k].at + Length[i.names[k].dir] + 1
    IN  /\ Len(i.names) <= i.sized.cnt
        /\ \A k \in DOMAIN i.names :
             /\ SerinfoStart(i.sized.cnt) <= i.names[k].at /\ end(k) <= i.sized.size
             /\ \A l \in 1 .. k - 1 : end(l) <= i.names[k].at
        /\ i.result = "filled" => [k \in DOMAIN i.names |-> i.names[k].dir] = i.path
        /\ i.path = i.sized.path => i.result = "filled" /\ Len(i.names) = i.sized.cnt
==============================================================================
