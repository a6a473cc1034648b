------------------------------- MODULE Update -------------------------------
(***************************************************************************)
(* The update cycle of Luci: the helper thread loads new versions of       *)
(* changed files, an update relinks the process to them, either at once    *)
(* (by the helper) or when the application reaches its update point        *)
(* (__luci_update), and old versions are disabled some time later.         *)
(*                                                                         *)
(* A version of a file is the number of its Object in the chain that       *)
(* starts at ObjectIdentity::current (1 = first loaded), its content is a  *)
(* Build.  A Site is one relocation that refers to a symbol of another (or *)
(* the same) file: the symbol is needed by Src[s] and defined, if at all,  *)
(* by Dst[s].  A site in the writable data of a file is one memory cell    *)
(* that all versions of the file share (data alias); a site in read-only   *)
(* (RELRO) memory has a cell of its own in every version.                  *)
(***************************************************************************)
EXTENDS Naturals, Sequences, FiniteSets

CONSTANTS
  File,          \* identities in Loader::lookup
  Thread,        \* threads of the application
  Site,          \* relocations with a symbol
  Build,         \* file contents
  Src, Dst,      \* [Site -> File]: who needs / who defines the symbol
  Shared,        \* sites in (aliased) writable data
  Looked,        \* sites whose symbol the application looks up with dlsym
  Lazy,          \* PLT sites, bound on first call in the first version
  Of,            \* [Build -> File]
  Needs,         \* [Build -> SUBSET Site]
  Provides,      \* [Build -> SUBSET Site]
  Serialize,     \* builds that define __luci_serialize
  Deserialize,   \* builds that define __luci_deserialize
  Point,         \* builds that define __luci_update
  Uses,          \* builds that refer to __luci_update
  Compatible,    \* pairs <<old, new>> accepted by Bean and the DWARF hash
  Initial,       \* builds a file may have when the process starts
  MaxVersion,    \* bound on the number of versions of a file
  SkipIdentical, \* flags.skip_identical
  UpdateOutdated,\* flags.update_outdated
  DlUpdate,      \* config.dynamic_dlupdate
  Detect,        \* config.detect_outdated is DETECT_OUTDATED_VIA_USERFAULTFD
  Helper, NoOne  \* the helper thread; "nobody holds lookup_sync"

Version == 1 .. MaxVersion
Target == 0 .. MaxVersion      \* 0: not bound (yet)

ASSUME ConstantsAssumption ==
  /\ MaxVersion \in Nat \ {0}
  /\ Src \in [Site -> File] /\ Dst \in [Site -> File]
  /\ Shared \subseteq Site /\ Lazy \subseteq Shared /\ Looked \subseteq Site
  /\ Of \in [Build -> File]
  /\ Needs \in [Build -> SUBSET Site]
  /\ Provides \in [Build -> SUBSET Site]
  /\ Compatible \subseteq Build \X Build
  /\ Initial \subseteq Build
  /\ {SkipIdentical, UpdateOutdated, DlUpdate, Detect} \subseteq BOOLEAN
  /\ Helper \notin Thread /\ NoOne \notin Thread /\ Helper # NoOne

ASSUME SitesBelongToBuilds ==
  \A b \in Build :
    /\ \A s \in Needs[b] : Src[s] = Of[b]
    /\ \A s \in Provides[b] : Dst[s] = Of[b]

VARIABLES
  chain,     \* File -> Seq(Build): loaded versions, oldest first
  updatable, \* File -> flags.updatable
  reloc,     \* Site -> Version -> Target: Object::relocations (cache)
  got,       \* Site -> Version -> Target: what running code reads
  back,      \* Site -> Version -> Target: composed, not yet finalized
  plt,       \* File -> Version: the object in got[1], used by __dlresolve
  tramp,     \* Site -> Version -> Target: dlsym trampolines, by the version
             \*   of the defining object at the time of the dlsym
  hook,      \* File -> ObjectIdentity::hook
  pending,   \* Loader::update_pending
  lock,      \* writer of Loader::lookup_sync
  due,       \* files of worklist_load the helper loads in this pass
  updated,   \* local of filemodification_load
  phase,     \* progress of Loader::relocate(true)
  left,      \* files not yet handled in this phase
  applied,   \* File -> version that was current at the last finalize
  pc,        \* Thread -> "run" or "entered" (saw update_pending)
  protect,   \* worklist_protect: pairs <<file, version>>
  disabled   \* pairs <<file, version>> whose code pages are withdrawn

links == <<reloc, got, back, plt, tramp>>
helperVars == <<due, updated>>
phaseVars == <<phase, left>>
outdatedVars == <<protect, disabled>>
vars == <<chain, updatable, reloc, got, back, plt, tramp, hook, pending, lock,
          due, updated, phase, left, applied, pc, protect, disabled>>

-----------------------------------------------------------------------------
(* Version chains and symbols.                                             *)

Current(f) == Len(chain[f])
Latest(f) == chain[f][Len(chain[f])]

(* Loader::resolve_symbol only looks at the current version of each file.  *)
ResolvesIn(ch, s) == s \in Provides[ch[Dst[s]][Len(ch[Dst[s]])]]
Resolves(s) == ResolvesIn(chain, s)

(* Versions of a file alias their writable data: one cell for all of them. *)
Cell(s, v) == IF s \in Shared THEN 1 ELSE v

(* Mutant: the version number is one too high.                             *)
RefreshedOffByOne(h, b, v) ==
  [object       |-> v + 1,
   serialize    |-> IF b \in Serialize THEN v ELSE h.serialize,
   deserialize  |-> IF b \in Deserialize THEN v ELSE h.deserialize,
   update_point |-> b \in Point]

(* The hooks once they belong to version v with content b.  A function     *)
(* the new version does not define keeps its old address.                  *)
Refreshed(h, b, v) ==
  [object       |-> v,
   serialize    |-> IF b \in Serialize THEN v ELSE h.serialize,
   deserialize  |-> IF b \in Deserialize THEN v ELSE h.deserialize,
   update_point |-> b \in Point]

(* Mutant: the hooks are only set when the file is loaded first.           *)
HookKept(f) == hook[f]

hook_refresh(f) ==
  IF updatable[f] THEN Refreshed(hook[f], Latest(f), Current(f)) ELSE hook[f]

NoHook == [object |-> 0, serialize |-> 0, deserialize |-> 0, update_point |-> FALSE]

(* The process has started: one version of every file, all relocations     *)
(* bound except those of the PLT, which are bound on their first call.     *)
Init ==
  /\ chain \in [File -> {<<b>> : b \in Initial}]
  /\ \A f \in File : Of[chain[f][1]] = f
  /\ \A f \in File : \A s \in Needs[chain[f][1]] : Resolves(s)
  /\ updatable = [f \in File |-> TRUE]
  /\ reloc = [s \in Site |-> [v \in Version |->
                IF v = 1 /\ s \in Needs[chain[Src[s]][1]] \ Lazy THEN 1 ELSE 0]]
  /\ got = reloc
  /\ back = [s \in Site |-> [v \in Version |-> 0]]
  /\ plt = [f \in File |-> 1]
  /\ tramp = [s \in Site |-> [v \in Version |-> 0]]
  /\ hook = [f \in File |-> Refreshed(NoHook, chain[f][1], 1)]
  /\ pending = FALSE
  /\ lock = NoOne
  /\ due = {} /\ updated = FALSE
  /\ phase = "idle" /\ left = {}
  /\ applied = [f \in File |-> 1]
  /\ pc = [t \in Thread |-> "run"]
  /\ protect = {} /\ disabled = {}

-----------------------------------------------------------------------------
(* The helper thread: filemodification_load.                               *)

(* The lock is taken, the due entries of the worklist are known.           *)
LoadBegin ==
  /\ lock = NoOne
  /\ \E d \in SUBSET File \ {{}} : due' = d
  /\ lock' = Helper
  /\ updated' = FALSE
  /\ UNCHANGED <<chain, updatable, links, hook, pending, phaseVars, applied, pc,
                 outdatedVars>>

(* Mutant: the check of the referenced symbols is missing.                 *)
PatchableByBean(f, b) == <<Latest(f), b>> \in Compatible

(* ObjectDynamic::patchable: what Bean says, and every cached relocation   *)
(* (of any version of any file) that refers to the previous version must   *)
(* find its symbol in the new one.                                         *)
patchable(f, b) ==
  /\ <<Latest(f), b>> \in Compatible
  /\ \A s \in Site, v \in Version :
       (Dst[s] = f /\ reloc[s][v] = Current(f)) => s \in Provides[b]

(* Outcomes of ObjectDynamic::prepare for a new version: the sites it has  *)
(* relocated.  It stops at the first symbol it cannot resolve, and does    *)
(* not start with the PLT after such an error.  A new version is never     *)
(* bound lazily.                                                           *)
Prepared(ch, b) ==
  LET ok == {s \in Needs[b] : ResolvesIn(ch, s)}
      eager == Needs[b] \ Lazy
  IN IF eager \subseteq ok
     THEN {d \in SUBSET ok : eager \subseteq d /\ (Needs[b] \subseteq ok => d = Needs[b])}
     ELSE SUBSET (ok \cap eager)

(* Mutant: the lock is not needed to load, an update may be in progress.   *)
LoadingAnytime == lock # NoOne

Loading == lock = Helper /\ phase = "idle"

(* Mutant: the new version is scheduled, not the one it replaces.          *)
OutdatedOffByOne(f) == <<f, Current(f) + 1>>

(* current->file_previous once the new version is current                  *)
Outdated(f) == <<f, Current(f)>>

(* ObjectIdentity::load of a changed file succeeds (open, create with its  *)
(* compatibility checks, prepare of the new version).                      *)
LoadUpdate(f, b) ==
  LET v == Current(f) + 1
      ch == [chain EXCEPT ![f] = Append(@, b)]
  IN /\ Loading /\ f \in due
     /\ Of[b] = f
     /\ v \in Version
     /\ updatable[f]
     /\ SkipIdentical => \A i \in 1 .. Current(f) : chain[f][i] # b
     /\ patchable(f, b)
     /\ chain' = ch
     /\ \E d \in Prepared(ch, b) :
          /\ reloc' = [s \in Site |-> IF s \in d
                         THEN [reloc[s] EXCEPT ![v] = Len(ch[Dst[s]])] ELSE reloc[s]]
          /\ got' = [s \in Site |-> IF s \in d
                         THEN [got[s] EXCEPT ![Cell(s, v)] = Len(ch[Dst[s]])] ELSE got[s]]
     /\ plt' = IF \A s \in Needs[b] \ Lazy : ResolvesIn(ch, s)
               THEN [plt EXCEPT ![f] = v] ELSE plt
     /\ updated' = TRUE
     /\ due' = due \ {f}
     /\ protect' = IF Detect THEN protect \cup {Outdated(f)} ELSE protect
     /\ UNCHANGED <<updatable, back, tramp, hook, pending, lock, phaseVars, applied,
                    pc, disabled>>

(* The file could not be read, is identical or incompatible to a loaded    *)
(* version, or its segments could not be loaded: the entry is dropped.     *)
LoadRejected(f) ==
  /\ Loading /\ f \in due
  /\ due' = due \ {f}
  /\ UNCHANGED <<chain, updatable, links, hook, pending, lock, updated, phaseVars,
                 applied, pc, outdatedVars>>

(* Mutant: the update waits, but the flag is not set.                      *)
DeferSilently ==
  /\ lock' = NoOne
  /\ UNCHANGED <<pending, phaseVars>>

(* An application with an update point gets the update there.              *)
Defer ==
  /\ pending' = TRUE
  /\ lock' = NoOne
  /\ UNCHANGED phaseVars

(* End of the batch: nothing new, wait for the update point, or update.    *)
LoadEnd ==
  /\ Loading /\ due = {}
  /\ updated' = FALSE
  /\ \/ /\ ~updated
        /\ lock' = NoOne
        /\ UNCHANGED <<pending, phaseVars>>
     \/ /\ updated /\ \E f \in File : hook[f].update_point
        /\ Defer
     \/ /\ updated /\ \A f \in File : ~hook[f].update_point
        /\ phase' = "relocate" /\ left' = File
        /\ UNCHANGED <<pending, lock>>
  /\ UNCHANGED <<chain, updatable, links, hook, due, applied, pc, outdatedVars>>

-----------------------------------------------------------------------------
(* Loader::update, run by whoever holds the lock.  The files are visited   *)
(* in any order (the code uses the reverse lookup order).                  *)

(* Code of a disabled version waits for a page from the helper, which      *)
(* cannot supply it while the lock is held (userfault_handle).             *)
Runnable(f, v) == v # 0 => <<f, v>> \notin disabled

(* Mutant: shared cells are left to the outdated versions.                 *)
RelinkedPrivate(f) ==
  {p \in Site \X Version :
     LET s == p[1] v == p[2] IN
     /\ Src[s] = f /\ s \notin Shared
     /\ v = Current(f) \/ (UpdateOutdated /\ v < Current(f))
     /\ reloc[s][v] # 0 /\ reloc[s][v] # Current(Dst[s])
     /\ Resolves(s)}

(* Relocations ObjectDynamic::update binds again: targets that are not     *)
(* the latest version; the shared cells only on behalf of the latest       *)
(* version of the file; outdated versions only if configured.              *)
Relinked(f) ==
  {p \in Site \X Version :
     LET s == p[1] v == p[2] IN
     /\ Src[s] = f
     /\ v = Current(f) \/ (UpdateOutdated /\ v < Current(f) /\ s \notin Shared)
     /\ reloc[s][v] # 0 /\ reloc[s][v] # Current(Dst[s])
     /\ Resolves(s)}

(* Mutant: read-only memory is made writable and changed in place.         *)
InPlaceAlways(s, v) == TRUE

(* Memory that is still writable (data, or a version not yet finalized) is *)
(* changed in place, read-only memory in its compose buffer.               *)
InPlace(s, v) == s \in Shared \/ v > applied[Src[s]]

(* ObjectIdentity::update: serialize, relocate, refresh hooks, deserialize *)
UpdateFile(f) ==
  /\ phase = "relocate" /\ f \in left
  /\ Runnable(f, hook[f].serialize)
  /\ Runnable(f, hook_refresh(f).deserialize)
  /\ LET R == Relinked(f) IN
     /\ reloc' = [s \in Site |-> [v \in Version |->
                    IF <<s, v>> \in R THEN Current(Dst[s]) ELSE reloc[s][v]]]
     /\ got' = [s \in Site |-> [v \in Version |->
                    IF \E w \in Version : <<s, w>> \in R /\ InPlace(s, w) /\ Cell(s, w) = v
                    THEN Current(Dst[s]) ELSE got[s][v]]]
     /\ back' = [s \in Site |-> [v \in Version |->
                    IF <<s, v>> \in R /\ ~InPlace(s, v) THEN Current(Dst[s]) ELSE back[s][v]]]
  /\ hook' = [hook EXCEPT ![f] = hook_refresh(f)]
  /\ left' = left \ {f}
  /\ UNCHANGED <<chain, updatable, plt, tramp, pending, lock, helperVars, phase,
                 applied, pc, outdatedVars>>

(* Mutant: a trampoline keeps the target it got from dlsym.                *)
TrampolineKept(s, v) == tramp[s][v]

(* Trampoline::update; a symbol the current version lacks keeps its target *)
TrampolineTarget(s, v) ==
  IF tramp[s][v] # 0 /\ Resolves(s) THEN Current(Dst[s]) ELSE tramp[s][v]

UpdateTrampolines ==
  /\ phase = "relocate" /\ left = {}
  /\ tramp' = [s \in Site |-> [v \in Version |-> TrampolineTarget(s, v)]]
  /\ phase' = "finalize" /\ left' = File
  /\ UNCHANGED <<chain, updatable, reloc, got, back, plt, hook, pending, lock,
                 helperVars, applied, pc, outdatedVars>>

(* Mutants: the buffer is used although there is none; it is discarded.    *)
FinalizedBlindly(s, v) == back[s][v]
FinalizedNever(s, v) == got[s][v]

Finalized(s, v) == IF back[s][v] # 0 THEN back[s][v] ELSE got[s][v]

(* Mutant: the replaced memory stays behind as the next compose buffer.    *)
FinalizeFileSwaps(f) ==
  /\ phase = "finalize" /\ f \in left
  /\ got' = [s \in Site |-> [v \in Version |->
               IF Src[s] = f THEN Finalized(s, v) ELSE got[s][v]]]
  /\ back' = [s \in Site |-> [v \in Version |->
                IF Src[s] = f /\ back[s][v] # 0 THEN got[s][v] ELSE back[s][v]]]
  /\ applied' = [applied EXCEPT ![f] = Current(f)]
  /\ left' = left \ {f}
  /\ UNCHANGED <<chain, updatable, reloc, plt, tramp, hook, pending, lock, helperVars,
                 phase, pc, outdatedVars>>

(* ObjectIdentity::finalize: composed memory replaces the active one.      *)
FinalizeFile(f) ==
  /\ phase = "finalize" /\ f \in left
  /\ got' = [s \in Site |-> [v \in Version |->
               IF Src[s] = f THEN Finalized(s, v) ELSE got[s][v]]]
  /\ back' = [s \in Site |-> IF Src[s] = f THEN [v \in Version |-> 0] ELSE back[s]]
  /\ applied' = [applied EXCEPT ![f] = Current(f)]
  /\ left' = left \ {f}
  /\ UNCHANGED <<chain, updatable, reloc, plt, tramp, hook, pending, lock, helperVars,
                 phase, pc, outdatedVars>>

(* Mutant: the lock is not released.                                       *)
UpdateEndLocked ==
  /\ phase = "finalize" /\ left = {}
  /\ pending' = FALSE
  /\ phase' = "idle"
  /\ pc' = [t \in Thread |-> IF t = lock THEN "run" ELSE pc[t]]
  /\ UNCHANGED <<chain, updatable, links, hook, lock, helperVars, left, applied,
                 outdatedVars>>

(* The flag is cleared and the lock released; __luci_update returns 1.     *)
UpdateEnd ==
  /\ phase = "finalize" /\ left = {}
  /\ pending' = FALSE
  /\ phase' = "idle"
  /\ lock' = NoOne
  /\ pc' = [t \in Thread |-> IF t = lock THEN "run" ELSE pc[t]]
  /\ UNCHANGED <<chain, updatable, links, hook, helperVars, left, applied, outdatedVars>>

-----------------------------------------------------------------------------
(* The application.                                                        *)

(* __luci_update reads the flag before it takes the lock; with no update   *)
(* pending it returns 0.                                                   *)
UpdatePoint(t) ==
  /\ pc[t] = "run" /\ pending
  /\ pc' = [pc EXCEPT ![t] = "entered"]
  /\ UNCHANGED <<chain, updatable, links, hook, pending, lock, helperVars, phaseVars,
                 applied, outdatedVars>>

UpdateEnter(t) ==
  /\ pc[t] = "entered" /\ lock = NoOne
  /\ lock' = t
  /\ phase' = "relocate" /\ left' = File
  /\ UNCHANGED <<chain, updatable, links, hook, pending, helperVars, applied, pc,
                 outdatedVars>>

(* __dlresolve: first call through a PLT cell.  The lock is recursive, so  *)
(* hook functions may get here during an update, too.                      *)
LazyResolve(s) ==
  LET f == Src[s] v == plt[Src[s]] IN
  /\ lock = NoOne \/ phase = "relocate"
  /\ s \in Lazy /\ got[s][1] = 0
  /\ s \in Needs[chain[f][v]] /\ Resolves(s)
  /\ reloc' = [reloc EXCEPT ![s][v] = Current(Dst[s])]
  /\ got' = [got EXCEPT ![s][1] = Current(Dst[s])]
  /\ UNCHANGED <<chain, updatable, back, plt, tramp, hook, pending, lock, helperVars,
                 phaseVars, applied, pc, outdatedVars>>

(* dlsym with dynamic_dlupdate: Trampoline::set                            *)
Dlsym(s) ==
  /\ lock = NoOne /\ DlUpdate
  /\ Resolves(s)
  /\ tramp' = [tramp EXCEPT ![s][Current(Dst[s])] = Current(Dst[s])]
  /\ UNCHANGED <<chain, updatable, reloc, got, back, plt, hook, pending, lock,
                 helperVars, phaseVars, applied, pc, outdatedVars>>

(* dlopen of a file that is already loaded overwrites its flags.           *)
Dlopen(f) ==
  /\ lock = NoOne
  /\ updatable' = [updatable EXCEPT ![f] = DlUpdate]
  /\ UNCHANGED <<chain, links, hook, pending, lock, helperVars, phaseVars, applied, pc,
                 outdatedVars>>

-----------------------------------------------------------------------------
(* Detection of outdated code.                                             *)

(* filemodification_protect: the delay has passed since the version was    *)
(* replaced as current.                                                    *)
Protect(f, v) ==
  /\ lock = NoOne
  /\ <<f, v>> \in protect
  /\ protect' = protect \ {<<f, v>>}
  /\ disabled' = disabled \cup {<<f, v>>}
  /\ UNCHANGED <<chain, updatable, links, hook, pending, lock, helperVars, phaseVars,
                 applied, pc>>

(* userfault_handle: running code hit a withdrawn page and gets it back.   *)
Reactivate(f, v) ==
  /\ lock = NoOne
  /\ <<f, v>> \in disabled
  /\ disabled' = disabled \ {<<f, v>>}
  /\ UNCHANGED <<chain, updatable, links, hook, pending, lock, helperVars, phaseVars,
                 applied, pc, protect>>

-----------------------------------------------------------------------------
HelperStep ==
  \/ \E f \in File : LoadRejected(f) \/ \E b \in Build : LoadUpdate(f, b)
  \/ LoadEnd

UpdateStep ==
  \/ \E f \in File : UpdateFile(f) \/ FinalizeFile(f)
  \/ UpdateTrampolines
  \/ UpdateEnd

Next ==
  \/ LoadBegin
  \/ HelperStep
  \/ UpdateStep
  \/ \E t \in Thread : UpdatePoint(t) \/ UpdateEnter(t)
  \/ \E s \in Site : LazyResolve(s)
  \/ \E s \in Looked : Dlsym(s)
  \/ \E f \in File : Dlopen(f)
  \/ \E f \in File, v \in Version : Protect(f, v) \/ Reactivate(f, v)

Spec == Init /\ [][Next]_vars

(* A pass of the helper and an update run to their end; a thread that      *)
(* waits for the lock gets it (the helper sleeps up to a second between    *)
(* its passes); every thread keeps reaching its update point.              *)
Fairness ==
  /\ WF_vars(HelperStep)
  /\ WF_vars(UpdateStep)
  /\ \A t \in Thread : WF_vars(UpdatePoint(t)) /\ SF_vars(UpdateEnter(t))

FairSpec == Spec /\ Fairness

-----------------------------------------------------------------------------
(* Properties.                                                             *)

ChainType ==
  /\ chain \in [File -> Seq(Build)]
  /\ \A f \in File : Current(f) \in Version
  /\ updatable \in [File -> BOOLEAN]

LinkType ==
  /\ reloc \in [Site -> [Version -> Target]]
  /\ got \in [Site -> [Version -> Target]]
  /\ back \in [Site -> [Version -> Target]]
  /\ tramp \in [Site -> [Version -> Target]]
  /\ plt \in [File -> Version]

HookType ==
  hook \in [File -> [object : Version, serialize : Target, deserialize : Target,
                    update_point : BOOLEAN]]

ControlType ==
  /\ pending \in BOOLEAN
  /\ lock \in Thread \cup {Helper, NoOne}
  /\ due \subseteq File /\ updated \in BOOLEAN
  /\ phase \in {"idle", "relocate", "finalize"} /\ left \subseteq File
  /\ applied \in [File -> Version]
  /\ pc \in [Thread -> {"run", "entered"}]
  /\ protect \subseteq File \X Version /\ disabled \subseteq File \X Version

(* Every variable has its type: chains of loaded builds that are never     *)
(* empty, links and hooks to version numbers, the state of the helper, of  *)
(* the update in progress and of the threads.                              *)
TypeOK == ChainType /\ LinkType /\ HookType /\ ControlType

(* Nobody is loading or updating and no update waits for an update point.  *)
Quiescent == lock = NoOne /\ ~pending

(* In a quiescent state every cached relocation of the latest version of a *)
(* file refers to the latest version of the file that defines its symbol,  *)
(* unless that version has dropped the symbol (Loader::update).            *)
LinksFollowCurrent ==
  Quiescent => \A s \in Site :
    \/ reloc[s][Current(Src[s])] \in {0, Current(Dst[s])}
    \/ ~Resolves(s)

NoPoint == \A f \in File : \A i \in 1 .. Current(f) : chain[f][i] \notin Point

(* As long as no loaded version has an update point, the check in          *)
(* ObjectDynamic::patchable suffices: no symbol in use is ever dropped, in *)
(* a quiescent state nothing refers to an outdated version.                *)
NothingDropped ==
  (Quiescent /\ NoPoint) =>
    \A s \in Site : reloc[s][Current(Src[s])] \in {0, Current(Dst[s])}

(* The cache of relocations agrees with memory: what the latest version of *)
(* a file believes to have bound is in its cell or its compose buffer.     *)
CacheMatchesMemory ==
  \A s \in Site : LET v == Current(Src[s]) IN
    reloc[s][v] # 0 =>
      reloc[s][v] = IF back[s][v] # 0 THEN back[s][v] ELSE got[s][Cell(s, v)]

(* In a quiescent state the update hooks belong to the latest version, so  *)
(* that an update passes 1 to serialize (ObjectIdentity::update) only for  *)
(* a file with a version that has not been announced before.               *)
HooksFollowCurrent ==
  Quiescent => \A f \in File : updatable[f] => hook[f].object = Current(f)

(* In a quiescent state every dlsym trampoline jumps to the latest version *)
(* that defines its symbol or, if dropped, to an older one.                *)
TrampolinesFollowCurrent ==
  Quiescent => \A s \in Site, v \in Version :
    tramp[s][v] \in {0, Current(Dst[s])} \/ ~Resolves(s)

(* Without update points the pages of an outdated version are withdrawn    *)
(* (filemodification_protect) only when no relocation of the latest        *)
(* version of any file leads there any more.                               *)
WithdrawnIsUnlinked ==
  (Quiescent /\ NoPoint) => \A s \in Site, v \in Version :
    <<Dst[s], v>> \in disabled => reloc[s][Current(Src[s])] # v

(* No step binds a cell to an older version than before: neither lazy      *)
(* binding, nor a load, nor a late finalize can undo an update.            *)
CellsMoveForward ==
  [][\A s \in Site, v \in Version : got'[s][v] >= got[s][v]]_vars

(* Read-only memory of a version in use changes only when an update        *)
(* finalizes it, whatever is loaded or resolved in the meantime.           *)
ReadOnlyCellsWait ==
  [][\A s \in Site \ Shared, v \in Version :
       (v <= applied[Src[s]] /\ got'[s][v] # got[s][v]) => phase = "finalize"]_vars

(* Two threads can see the same pending flag; the second one then performs *)
(* an update with nothing left to update.  It does not change a link.      *)
RedundantUpdateHarmless ==
  [][(phase # "idle" /\ lock \in Thread /\ ~pending /\ phaseVars' # phaseVars)
       => UNCHANGED links]_vars

(* What a version promises: see Versions.  The process switches to the     *)
(* loaded versions in one step, after all files have been relocated.       *)
Abstract == INSTANCE Versions WITH
  loaded <- [f \in File |-> Current(f)],
  linked <- [f \in File |-> IF phase = "finalize" THEN Current(f) ELSE applied[f]]

SwitchesAtOnce == Abstract!Spec

(* "While new files are automatically detected and parsed, they are not    *)
(* applied to applications using this symbol until the update point is     *)
(* reached" (README.md): while an update is pending, memory of the         *)
(* versions in use refers to versions that were applied before.            *)
LinksWaitForUpdatePoint ==
  (pending /\ phase = "idle") => \A s \in Site :
    \A v \in 1 .. applied[Src[s]] : got[s][Cell(s, v)] <= applied[Dst[s]]

(* The same sentence of README.md, about "applications using this symbol": *)
(* the helper does not update a process whose code in use refers to        *)
(* __luci_update (but hook_refresh looks for a definition of the symbol).  *)
UpdateWaitsForUsers ==
  (phase = "relocate" /\ lock = Helper) => \A f \in File : chain[f][applied[f]] \notin Uses

(* Every loaded version is eventually applied.                             *)
LoadedIsApplied ==
  \A f \in File, n \in Version : Current(f) = n ~> applied[f] >= n

(* A call of __luci_update that has seen the flag eventually returns.      *)
UpdatePointReturns ==
  \A t \in Thread : pc[t] = "entered" ~> pc[t] = "run"
=============================================================================
