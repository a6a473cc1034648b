------------------------------- MODULE Lookup -------------------------------
(***************************************************************************)
(* Symbol lookup: the scopes searched by Loader::resolve_symbol, the       *)
(* numbers a shared object gives to symbol versions, and what dladdr finds *)
(* at an address.  All are functions of the loaded objects; a state is one *)
(* question asked about them.                                              *)
(***************************************************************************)
EXTENDS Integers, Sequences, SequencesExt

CONSTANTS
  Ident,    \* loaded files (of one namespace)
  None,     \* no file, no symbol
  Name,     \* names of symbol versions
  Soname,   \* names of libraries
  Lookups,  \* the search orders looked at
  Needs,    \* the lists of dependencies looked at
  Tables,   \* the version tables looked at
  Layouts,  \* the lists of objects in memory looked at
  MaxAddr   \* bound on addresses

VARIABLES question

lookupVars == <<question>>

(* ResolveSymbolMode *)
Mode == {"DEFAULT", "AFTER_OBJECT", "EXCEPT_OBJECT", "OBJECT_FIRST", "NO_DEPENDENCIES"}

(* A lookup of one symbol by the file obj (or by none of them). *)
ScopeQuestion ==
  [about : {"scope"}, lookup : Lookups, bind_global : SUBSET Ident,
   def : [Ident -> {"none", "weak", "strong"}], dynamic_weak : BOOLEAN,
   dependencies : Needs, obj : Ident \cup {None}, mode : Mode]

(***************************************************************************)
(* Versions: own is the name of the library in its base definition (None   *)
(* if it defines no versions), defined and needed are its version sections *)
(* with the version index of each entry.                                   *)
(***************************************************************************)
Version == [name : Name, file : Soname \cup {None}]
VersionQuestion == [about : {"version"}, table : Tables, version : Version]

(***************************************************************************)
(* Addresses: the objects in the order in which they are searched (the     *)
(* versions of a file from the current one backwards), each with its base, *)
(* size and symbols, and each symbol with its offset and size.             *)
(***************************************************************************)
AddressQuestion == [about : {"address"}, objects : Layouts, addr : 0 .. MaxAddr]

LookupInit ==
  \/ /\ question \in ScopeQuestion
     /\ question.obj = None => question.mode = "DEFAULT" /\ question.dependencies = <<>>
  \/ question \in VersionQuestion
  \/ question \in AddressQuestion

-----------------------------------------------------------------------------
(***************************************************************************)
(* Object::has_symbol with the best result so far: a result is final if it *)
(* is strong, or if weak symbols are not told apart from strong ones.      *)
(***************************************************************************)
has_symbol(q, r, o) ==
  IF r.final \/ q.def[o] = "none"
  THEN r
  ELSE LET strong == q.def[o] = "strong" \/ ~q.dynamic_weak
       IN  IF strong \/ r.object = None THEN [object |-> o, final |-> strong] ELSE r

Search(q, r, objects) == FoldLeft(LAMBDA s, o : has_symbol(q, s, o), r, objects)

(* Mutant: dependencies that are in the global scope are searched again,   *)
(* and before it.                                                          *)
resolve_symbolDeps(q) ==
  Search(q, [object |-> None, final |-> FALSE],
         q.dependencies \o q.lookup).object

resolve_symbol(q) ==
  LET nothing == [object |-> None, final |-> FALSE]
      deep == IF q.mode = "OBJECT_FIRST" THEN has_symbol(q, nothing, q.obj) ELSE nothing
      globals == SelectSeq(q.lookup, LAMBDA o : o \in q.bind_global)
      at == IF q.obj \in ToSet(globals)
            THEN CHOOSE i \in DOMAIN globals : globals[i] = q.obj
            ELSE Len(globals)
      global == CASE q.mode = "AFTER_OBJECT"  -> SubSeq(globals, at + 1, Len(globals))
                  [] q.mode = "EXCEPT_OBJECT" -> SelectSeq(globals, LAMBDA o : o # q.obj)
                  [] OTHER                    -> globals
      needed(o) == /\ q.mode # "NO_DEPENDENCIES"
                   /\ q.mode = "AFTER_OBJECT" \/ o \notin q.bind_global
                   /\ q.mode # "EXCEPT_OBJECT" \/ o # q.obj
      own == IF q.obj = None \/ q.mode = "OBJECT_FIRST" THEN <<>> ELSE <<q.obj>>
  IN  Search(q, deep, global \o SelectSeq(q.dependencies, needed) \o own).object

-----------------------------------------------------------------------------
VER_NDX_GLOBAL == 1

(* VersionedSymbol::Version::operator== *)
SameVersion(a, b) ==
  a.name = b.name /\ (a.file = None \/ b.file = None \/ a.file = b.file)

(* The index of the first of the versions that match                       *)
FirstIndex(match) == IF match = <<>> THEN VER_NDX_GLOBAL ELSE Head(match).index

version_index(t, v) ==
  LET skip == v.file # None /\ t.own # None /\ v.file # t.own
      own == FirstIndex(SelectSeq(t.defined, LAMBDA d : ~skip /\ d.name = v.name))
      foreign == FirstIndex(SelectSeq(t.needed, LAMBDA n : n.name = v.name /\ v.file \in {None, n.file}))
  IN  IF own # VER_NDX_GLOBAL THEN own ELSE foreign

(* The version with the given index, or an invalid one.                    *)
get_version(t, index) ==
  LET needed == {i \in DOMAIN t.needed : t.needed[i].index = index}
      defined == {i \in DOMAIN t.defined : t.defined[i].index = index}
  IN  CASE needed # {}  -> LET n == t.needed[CHOOSE i \in needed : TRUE]
                           IN  [name |-> n.name, file |-> n.file]
        [] needed = {} /\ defined # {} ->
             [name |-> t.defined[CHOOSE i \in defined : TRUE].name, file |-> t.own]
        [] OTHER -> [name |-> None, file |-> None]

-----------------------------------------------------------------------------
(* The first of the ranges the address is in, or 0.  The address behind a  *)
(* range counts as part of it.                                             *)
FirstAt(ranges, addr) ==
  SelectInSeq(ranges, LAMBDA r : r.at <= addr /\ addr <= r.at + r.size)

resolve_object(q) == FirstAt(q.objects, q.addr)

(* ObjectDynamic::resolve_symbol for an address                            *)
SymbolAt(o, addr) == IF addr > o.at THEN FirstAt(o.symbols, addr - o.at) ELSE 0

dladdr1(q) ==
  LET o == resolve_object(q)
  IN  [object |-> o, symbol |-> IF o = 0 THEN 0 ELSE SymbolAt(q.objects[o], q.addr)]

-----------------------------------------------------------------------------
Definers(q) == {o \in Ident : q.def[o] # "none"}
Strong(q) == {o \in Ident : q.def[o] = "strong" \/ (q.def[o] = "weak" /\ ~q.dynamic_weak)}

(***************************************************************************)
(* What code may rely on when Loader::resolve_symbol binds a symbol:       *)
(*  - a symbol that the global scope or the own file defines is found, and *)
(*    a weak definition is taken only if none of these is strong;          *)
(*  - (interposition) files agree: whoever asks, and whatever else it      *)
(*    needs, a strong definition in the global scope is the one taken, and *)
(*    it is the first, unless the file asks for itself first or for what   *)
(*    comes after it;                                                      *)
(*  - otherwise what is found is in the own file or in its dependencies.   *)
(***************************************************************************)
ScopeCorrect(q) ==
  LET r == resolve_symbol(q)
      reachable == q.bind_global \cup {q.obj}
      before(o) == {q.lookup[i] : i \in 1 .. (CHOOSE i \in DOMAIN q.lookup : q.lookup[i] = o) - 1}
  IN  /\ r # None => q.def[r] # "none" /\ r \in reachable \cup ToSet(q.dependencies)
      /\ q.mode # "AFTER_OBJECT" =>
           /\ reachable \cap Definers(q) # {} => r # None
           /\ reachable \cap Strong(q) # {} => r \in Strong(q)
      /\ q.mode \in {"DEFAULT", "NO_DEPENDENCIES"} /\ q.bind_global \cap Strong(q) # {} =>
           r \in q.bind_global /\ before(r) \cap q.bind_global \cap Strong(q) = {}

(***************************************************************************)
(* ObjectDynamic::version_index and get_version agree: a version gets an   *)
(* index of its own if, and only if, the object defines or needs it, and   *)
(* that index stands for it again.                                         *)
(***************************************************************************)
VersionsCorrect(q) ==
  LET i == version_index(q.table, q.version)
      known == {q.table.needed[j].index : j \in DOMAIN q.table.needed}
               \cup {q.table.defined[j].index : j \in DOMAIN q.table.defined}
  IN  IF i # VER_NDX_GLOBAL
      THEN SameVersion(get_version(q.table, i), q.version)
      ELSE \A j \in known : ~SameVersion(get_version(q.table, j), q.version)

(***************************************************************************)
(* dladdr finds the object and the symbol an address belongs to, in old    *)
(* versions as well, and finds none where there is none, but for addresses *)
(* right behind an object or a symbol and for the base of an object.       *)
(***************************************************************************)
AddressCorrect(q) ==
  LET found == dladdr1(q)
      within(r, a) == r.at <= a /\ a < r.at + r.size
      ends(ranges, a) == \E i \in DOMAIN ranges : a = ranges[i].at + ranges[i].size
      right(i, ranges, a) == IF i = 0 THEN \A j \in DOMAIN ranges : ~within(ranges[j], a)
                             ELSE within(ranges[i], a)
  IN  ~ends(q.objects, q.addr) =>
        /\ right(found.object, q.objects, q.addr)
        /\ found.object # 0 =>
             LET o == q.objects[found.object]
                 offset == q.addr - o.at
             IN  offset = 0 \/ ends(o.symbols, offset) \/ right(found.symbol, o.symbols, offset)

(***************************************************************************)
(* Loader::resolve_symbol, the version tables of ObjectDynamic and dladdr  *)
(* answer every question correctly, in the sense of the definitions above. *)
(***************************************************************************)
LookupCorrect ==
  CASE question.about = "scope"   -> ScopeCorrect(question)
    [] question.about = "version" -> VersionsCorrect(question)
    [] question.about = "address" -> AddressCorrect(question)
=============================================================================
