----------------------------- MODULE Relocatable -----------------------------
(***************************************************************************)
(* Updates of a relocatable object (an .o file, with Luci as linker): each *)
(* version is laid out behind the previous one, variables that have not    *)
(* changed stay where they are, and calls in all versions are bound to the *)
(* functions of the latest one.  A shared library provides what the object *)
(* does not define itself; it is updated, too.                             *)
(***************************************************************************)
EXTENDS Integers, Sequences

CONSTANTS
  Func,          \* names of functions, in a section of code
  Var,           \* names of variables, in a writable section
  External,      \* names the shared library defines
  MaxFileVersion,\* bound on the versions of the object
  MaxExternal    \* bound on the versions of the shared library

ASSUME RelocatableAssumption == Func \cap Var = {}

VARIABLES
  file,      \* the versions: name -> "absent", "undefined", or the size
  symbols,   \* version -> name -> version whose memory holds the symbol, or 0
  writable,  \* version -> whether its writable section has been mapped
  link,      \* version -> name -> the target of the references in its code
  external,  \* version of the shared library
  pending    \* a new version has been loaded, and not yet been applied

relocatableVars == <<file, symbols, writable, link, external, pending>>

Symbol == Func \cup Var
Defined == {"small", "large"}

(* Contents of a file; functions are compared by type only.                *)
Content == {c \in [Symbol -> {"absent", "undefined"} \cup Defined] :
              /\ \A s \in Func : c[s] # "large"
              /\ \A s \in Symbol : c[s] = "undefined" => s \in Func}

Own(v) == [object |-> "own", version |-> v]
Library(v) == [object |-> "library", version |-> v]
Unlinked == [object |-> "none", version |-> 0]

Latest == Len(file)

-----------------------------------------------------------------------------
(***************************************************************************)
(* adjust_offsets: where each symbol of the new content c is.  A variable  *)
(* with the type and size of one in the previous version uses its memory.  *)
(***************************************************************************)
Kept(c, s) == /\ s \in Var /\ file # <<>>
              /\ symbols[Latest][s] # 0
              /\ file[Latest][s] = c[s]

adjust_offsets(c) ==
  [s \in Symbol |-> CASE c[s] \notin Defined -> 0
                      [] c[s] \in Defined /\ Kept(c, s) -> symbols[Latest][s]
                      [] OTHER -> Latest + 1]

(* Mutant: maps the writable section of the first version only.            *)
MapsWritableFirst(c, hasRelocations) == file = <<>>

(* The writable section is mapped unless nothing in it is new.             *)
MapsWritable(c, hasRelocations) ==
  \/ file = <<>>
  \/ hasRelocations
  \/ \E s \in Var : c[s] \in Defined /\ ~Kept(c, s)

(* Updates with unknown external symbols are rejected.                     *)
Resolvable(c) == file = <<>> \/ \A s \in Symbol : c[s] = "undefined" => s \in External

-----------------------------------------------------------------------------
(***************************************************************************)
(* relocate: the target of a reference to s in version v, given the files  *)
(* fs and the symbols of their versions syms.                              *)
(***************************************************************************)
relocate(fs, syms, v, s) ==
  LET current == Len(fs)
  IN  CASE fs[v][s] \in Defined ->
             IF v # current /\ s \in Func /\ syms[current][s] # 0
             THEN Own(syms[current][s])
             ELSE Own(syms[v][s])
        [] fs[v][s] = "undefined" /\ s \in External -> Library(external)
        [] OTHER -> Unlinked

(* Creates, preloads and prepares a version with content c.                *)
preload(c, hasRelocations) ==
  /\ Latest < MaxFileVersion
  /\ Resolvable(c)
  /\ LET fs == Append(file, c)
         syms == Append(symbols, adjust_offsets(c))
     IN  /\ file' = fs
         /\ symbols' = syms
         /\ writable' = Append(writable, MapsWritable(c, hasRelocations))
         /\ link' = Append(link, [s \in Symbol |-> relocate(fs, syms, Len(fs), s)])
  /\ pending' = TRUE
  /\ UNCHANGED external

(* A new version of the shared library is loaded.                          *)
UpdateLibrary ==
  /\ file # <<>> /\ external < MaxExternal
  /\ external' = external + 1
  /\ pending' = TRUE
  /\ UNCHANGED <<file, symbols, writable, link>>

(* Whether a target is in the latest version of its object.                *)
is_latest_version(t) ==
  CASE t.object = "own" -> t.version = Latest
    [] t.object = "library" -> t.version = external
    [] OTHER -> TRUE

(* Mutant: references of outdated versions are left alone.                 *)
updateCurrent ==
  /\ pending
  /\ link' = [v \in DOMAIN link |-> [s \in Symbol |->
       IF v = Latest /\ s \in Func /\ ~is_latest_version(link[v][s])
       THEN relocate(file, symbols, v, s)
       ELSE link[v][s]]]
  /\ pending' = FALSE
  /\ UNCHANGED <<file, symbols, writable, external>>

(* ObjectRelocatable::update for all versions (update_outdated is set).    *)
update ==
  /\ pending
  /\ link' = [v \in DOMAIN link |-> [s \in Symbol |->
       IF s \in Func /\ ~is_latest_version(link[v][s])
       THEN relocate(file, symbols, v, s)
       ELSE link[v][s]]]
  /\ pending' = FALSE
  /\ UNCHANGED <<file, symbols, writable, external>>

RelocatableInit ==
  /\ file = <<>> /\ symbols = <<>> /\ writable = <<>> /\ link = <<>>
  /\ external = 1 /\ pending = FALSE

RelocatableNext ==
  \/ \E c \in Content, hasRelocations \in BOOLEAN : preload(c, hasRelocations)
  \/ UpdateLibrary
  \/ update

RelocatableSpec == RelocatableInit /\ [][RelocatableNext]_relocatableVars

-----------------------------------------------------------------------------
(***************************************************************************)
(* ObjectRelocatable::update leaves each call, in whichever version it is, *)
(* at the latest version of the function: in the object itself if it still *)
(* defines the function, else in the shared library.                       *)
(***************************************************************************)
CallsFollowLatest ==
  ~pending => \A v \in DOMAIN file : \A s \in Func :
    /\ file[v][s] \in Defined /\ file[Latest][s] \in Defined
         => link[v][s] = Own(Latest)
    /\ file[v][s] = "undefined" /\ s \in External => link[v][s] = Library(external)

(***************************************************************************)
(* The state of a program survives an update: as long as a variable exists *)
(* unchanged in successive versions, code of all of these uses the same    *)
(* memory, which is mapped, though ObjectRelocatable::preload may leave    *)
(* out the whole section; and one that has another size gets other memory. *)
(***************************************************************************)
VariablesKept ==
  \A v, w \in DOMAIN file : \A s \in Var :
    file[v][s] \in Defined /\ file[w][s] \in Defined =>
      /\ writable[link[v][s].version]
      /\ (\A u \in v .. w : file[u][s] = file[v][s]) => link[w][s] = link[v][s] \/ w < v
      /\ file[w][s] # file[v][s] => link[w][s] # link[v][s]
=============================================================================
