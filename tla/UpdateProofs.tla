---------------------------- MODULE UpdateProofs ----------------------------
(***************************************************************************)
(* The update cycle is correct, for any files, builds, sites, threads and  *)
(* any number of versions.  First the types, the parts of the inductive    *)
(* invariant, and that each step keeps those about the lock, the links,    *)
(* hooks and trampolines; then those about loaded versions, back buffers,  *)
(* update points, replaced versions and symbols in use; last the theorems. *)
(***************************************************************************)
EXTENDS Update, TLAPS

(* Version numbers are what Version and Target say.                        *)
LEMMA VersionFacts ==
  /\ MaxVersion \in Nat /\ 1 \in Version
  /\ Version \subseteq Target /\ 0 \in Target
  /\ \A v \in Version : v \in Nat /\ v # 0
  /\ \A v \in Target : v \in Nat
  BY ConstantsAssumption DEF Version, Target

(* The current version of a file exists and has a content.                 *)
LEMMA LatestIsBuild ==
  ASSUME ChainType, NEW f \in File
  PROVE  /\ Current(f) \in Version
         /\ Latest(f) \in Build
  BY ConstantsAssumption DEF ChainType, Current, Latest, Version

(* Refreshing the hooks of a file keeps their type.                        *)
LEMMA RefreshType ==
  ASSUME ChainType, HookType, NEW f \in File
  PROVE  hook_refresh(f) \in [object : Version, serialize : Target,
                              deserialize : Target, update_point : BOOLEAN]
  BY LatestIsBuild, VersionFacts DEF HookType, hook_refresh, Refreshed

(* Init establishes the types.                                             *)
LEMMA InitTypeOK == Init => TypeOK
<1> SUFFICES ASSUME Init PROVE TypeOK
  BY Zenon
<1> USE ConstantsAssumption, VersionFacts
<1>1. \A f \in File : chain[f] \in Seq(Build) /\ Len(chain[f]) = 1 /\ chain[f][1] \in Build
  <2> SUFFICES ASSUME NEW f \in File
               PROVE  chain[f] \in Seq(Build) /\ Len(chain[f]) = 1 /\ chain[f][1] \in Build
    BY Zenon
  <2>1. PICK b \in Initial : chain[f] = <<b>>
    BY DEF Init
  <2> QED BY <2>1
<1>2. ChainType
  <2>1. chain = [f \in File |-> chain[f]]
    BY Zenon DEF Init
  <2> QED BY Zenon, <1>1, <2>1 DEF Init, ChainType, Current
<1>3. LinkType
  BY Zenon DEF Init, LinkType
<1>4. HookType
  BY DEF Init, HookType, Refreshed, NoHook
<1>5. ControlType
  BY Zenon DEF Init, ControlType
<1> QED BY <1>2, <1>3, <1>4, <1>5, Zenon DEF TypeOK

(* Every step keeps the types.                                             *)
LEMMA NextTypeOK == TypeOK /\ [Next]_vars => TypeOK'
<1> SUFFICES ASSUME TypeOK, [Next]_vars PROVE TypeOK'
  BY Zenon
<1> USE ConstantsAssumption, VersionFacts
<1> USE DEF links, helperVars, phaseVars, outdatedVars
<1>0. ChainType /\ LinkType /\ HookType /\ ControlType
  BY Zenon DEF TypeOK
<1>1. CASE LoadBegin
  BY Zenon, <1>0, <1>1 DEF LoadBegin, TypeOK, ChainType, LinkType, HookType, ControlType, Current
<1>2. ASSUME NEW f \in File, NEW b \in Build, LoadUpdate(f, b) PROVE TypeOK'
  <2> DEFINE ch == [chain EXCEPT ![f] = Append(@, b)]
  <2>1. /\ Current(f) + 1 \in Version
        /\ chain' = ch
        /\ updatable' = updatable /\ hook' = hook
    BY <1>2, Zenon DEF LoadUpdate
  <2>2. \A g \in File : ch[g] \in Seq(Build) /\ Len(ch[g]) \in Version
    <3> SUFFICES ASSUME NEW g \in File
                 PROVE  ch[g] \in Seq(Build) /\ Len(ch[g]) \in Version
      BY Zenon
    <3>1. CASE g = f
      BY <1>0, <2>1, <3>1 DEF ChainType, Current
    <3>2. CASE g # f
      BY <1>0, <3>2, Zenon DEF ChainType, Current
    <3> QED BY <3>1, <3>2, Zenon
  <2>3. ChainType'
    BY <1>0, <2>1, <2>2, Zenon DEF ChainType, Current
  <2>4. LinkType'
    <3> HIDE DEF ch
    <3>1. PICK d \in Prepared(ch, b) :
            /\ reloc' = [s \in Site |-> IF s \in d
                 THEN [reloc[s] EXCEPT ![Current(f) + 1] = Len(ch[Dst[s]])] ELSE reloc[s]]
            /\ got' = [s \in Site |-> IF s \in d
                 THEN [got[s] EXCEPT ![Cell(s, Current(f) + 1)] = Len(ch[Dst[s]])] ELSE got[s]]
      BY <1>2, Zenon DEF LoadUpdate, ch
    <3>2. \A s \in Site : Len(ch[Dst[s]]) \in Target
      BY <2>2, Zenon
    <3>3. /\ plt' \in [File -> Version]
          /\ back' = back /\ tramp' = tramp
      BY Zenon, <1>0, <1>2, <2>1 DEF LoadUpdate, LinkType
    <3>4. \A s \in Site : Cell(s, Current(f) + 1) \in Version
      BY <2>1, Zenon DEF Cell
    <3> QED BY Zenon, <1>0, <2>1, <3>1, <3>2, <3>3, <3>4 DEF LinkType
  <2>5. HookType'
    BY <1>0, <2>1, Zenon DEF HookType
  <2>6. ControlType'
    <3>1. Outdated(f) \in File \X Version
      BY <1>0, LatestIsBuild, Zenon DEF Outdated
    <3>2. protect' \subseteq protect \cup {Outdated(f)} /\ disabled' = disabled
      BY <1>2, Zenon DEF LoadUpdate
    <3>3. /\ due' \subseteq due /\ updated' = TRUE
          /\ pending' = pending /\ lock' = lock /\ phase' = phase /\ left' = left
          /\ applied' = applied /\ pc' = pc
      BY <1>2, Zenon DEF LoadUpdate
    <3> QED BY <1>0, <3>1, <3>2, <3>3, Zenon DEF ControlType
  <2> QED BY <2>3, <2>4, <2>5, <2>6, Zenon DEF TypeOK
<1>3. ASSUME NEW f \in File, LoadRejected(f) PROVE TypeOK'
  BY Zenon, <1>0, <1>3 DEF LoadRejected, TypeOK, ChainType, LinkType, HookType, ControlType, Current
<1>4. CASE LoadEnd
  BY Zenon, <1>0, <1>4 DEF LoadEnd, Defer, TypeOK, ChainType, LinkType, HookType, ControlType, Current
<1>5. ASSUME NEW f \in File, UpdateFile(f) PROVE TypeOK'
  <2>1. ChainType'
    BY <1>0, <1>5, Zenon DEF UpdateFile, ChainType, Current
  <2>2. LinkType'
    <3>1. \A s \in Site : Current(Dst[s]) \in Target
      BY <1>0, LatestIsBuild, Zenon
    <3> QED BY Zenon, <1>0, <1>5, <3>1 DEF UpdateFile, LinkType
  <2>3. HookType'
    BY <1>0, <1>5, RefreshType, Zenon DEF UpdateFile, HookType
  <2>4. ControlType'
    BY <1>0, <1>5, Zenon DEF UpdateFile, ControlType
  <2> QED BY <2>1, <2>2, <2>3, <2>4, Zenon DEF TypeOK
<1>6. CASE UpdateTrampolines
  <2>1. \A s \in Site : Current(Dst[s]) \in Target
    BY <1>0, LatestIsBuild, Zenon
  <2>2. LinkType'
    BY <1>0, <1>6, <2>1, Zenon DEF UpdateTrampolines, TrampolineTarget, LinkType
  <2> QED BY Zenon, <1>0, <1>6, <2>2
          DEF UpdateTrampolines, TypeOK, ChainType, HookType, ControlType, Current
<1>7. ASSUME NEW f \in File, FinalizeFile(f) PROVE TypeOK'
  <2>1. LinkType'
    BY <1>0, <1>7, Zenon DEF FinalizeFile, Finalized, LinkType
  <2>2. ControlType'
    BY <1>0, <1>7, LatestIsBuild, Zenon DEF FinalizeFile, ControlType
  <2> QED BY <1>0, <1>7, <2>1, <2>2, Zenon DEF FinalizeFile, TypeOK, ChainType, HookType, Current
<1>8. CASE UpdateEnd
  BY Zenon, <1>0, <1>8 DEF UpdateEnd, TypeOK, ChainType, LinkType, HookType, ControlType, Current
<1>9. ASSUME NEW t \in Thread, UpdatePoint(t) PROVE TypeOK'
  BY Zenon, <1>0, <1>9 DEF UpdatePoint, TypeOK, ChainType, LinkType, HookType, ControlType, Current
<1>10. ASSUME NEW t \in Thread, UpdateEnter(t) PROVE TypeOK'
  BY <1>0, <1>10, Zenon DEF UpdateEnter, TypeOK, ChainType, LinkType, HookType, ControlType, Current
<1>11. ASSUME NEW s \in Site, LazyResolve(s) PROVE TypeOK'
  <2>1. Current(Dst[s]) \in Target /\ plt[Src[s]] \in Version
    BY <1>0, LatestIsBuild, Zenon DEF LinkType
  <2>2. LinkType'
    BY <1>0, <1>11, <2>1, Zenon DEF LazyResolve, LinkType
  <2> QED BY Zenon, <1>0, <1>11, <2>2 DEF LazyResolve, TypeOK, ChainType, HookType, ControlType, Current
<1>12. ASSUME NEW s \in Looked, Dlsym(s) PROVE TypeOK'
  <2>1. Current(Dst[s]) \in Version
    BY <1>0, LatestIsBuild, Zenon
  <2>2. LinkType'
    BY <1>0, <1>12, <2>1, Zenon DEF Dlsym, LinkType
  <2> QED BY Zenon, <1>0, <1>12, <2>2 DEF Dlsym, TypeOK, ChainType, HookType, ControlType, Current
<1>13. ASSUME NEW f \in File, Dlopen(f) PROVE TypeOK'
  BY <1>0, <1>13, Zenon DEF Dlopen, TypeOK, ChainType, LinkType, HookType, ControlType, Current
<1>14. ASSUME NEW f \in File, NEW v \in Version, Protect(f, v) \/ Reactivate(f, v)
       PROVE  TypeOK'
  BY Zenon, <1>0, <1>14
     DEF Protect, Reactivate, TypeOK, ChainType, LinkType, HookType, ControlType, Current
<1>15. CASE UNCHANGED vars
  BY Zenon, <1>0, <1>15 DEF vars, TypeOK, ChainType, LinkType, HookType, ControlType, Current
<1> QED
  BY Zenon, <1>1, <1>2, <1>3, <1>4, <1>5, <1>6, <1>7, <1>8, <1>9, <1>10, <1>11, <1>12, <1>13,
     <1>14, <1>15 DEF Next, HelperStep, UpdateStep


-----------------------------------------------------------------------------
(* The inductive invariant, in parts.                                      *)

(* An update is performed under the lock, a batch of loads under the       *)
(* helper's.                                                               *)
LockInv ==
  /\ phase # "idle" => lock # NoOne
  /\ (updated \/ due # {}) => lock = Helper /\ phase = "idle"

(* Nothing has been loaded since the last update.  An update a thread      *)
(* performs in such a state is redundant.                                  *)
Clean == ~pending /\ ~updated /\ (phase = "idle" \/ lock \in Thread)

(* The update in progress has handled the file, or there is none to do.    *)
Settled(f) == Clean \/ phase = "finalize" \/ (phase = "relocate" /\ f \notin left)

(* The versions of a file whose link at site s an update refreshes.        *)
Refreshes(s, v) ==
  v = Current(Src[s]) \/ (UpdateOutdated /\ v < Current(Src[s]) /\ s \notin Shared)

(* What an update has handled is linked to the latest versions.            *)
LinkInv ==
  \A s \in Site, v \in Version : Settled(Src[s]) /\ Refreshes(s, v) =>
    reloc[s][v] \in {0, Current(Dst[s])} \/ ~Resolves(s)

(* What an update has handled has the hooks of its latest version.         *)
HookInv ==
  /\ DlUpdate => \A f \in File : updatable[f]
  /\ \A f \in File : Settled(f) /\ updatable[f] => hook[f].object = Current(f)

(* Trampolines are at the latest versions after relocation.                *)
TrampolineInv ==
  (Clean \/ phase = "finalize") => \A s \in Site, v \in Version :
    tramp[s][v] \in {0, Current(Dst[s])} \/ ~Resolves(s)

(* Versions that are not loaded yet have no links.                         *)
FreshInv ==
  \A s \in Site, v \in Version : v > Current(Src[s]) =>
    reloc[s][v] = 0 /\ back[s][v] = 0

(* A compose buffer exists only between relocation and finalize of a file, *)
(* for read-only memory, and never during a redundant update.              *)
BackInv ==
  \A s \in Site, v \in Version : back[s][v] # 0 =>
    /\ ~Clean
    /\ \/ phase = "relocate" /\ Src[s] \notin left
       \/ phase = "finalize" /\ Src[s] \in left
    /\ s \notin Shared
    /\ v <= applied[Src[s]]

(* Cells never refer to a version that is not loaded, buffers are newer.   *)
CellInv ==
  \A s \in Site, v \in Version :
    /\ got[s][v] <= Current(Dst[s])
    /\ back[s][v] # 0 => back[s][v] >= got[s][v]
    /\ back[s][v] <= Current(Dst[s])

(* What is applied or used for lazy binding is loaded; a finalized file is *)
(* applied.                                                                *)
LoadedInv ==
  \A f \in File :
    /\ applied[f] <= Current(f) /\ plt[f] <= Current(f)
    /\ phase = "finalize" /\ f \notin left => applied[f] = Current(f)

-----------------------------------------------------------------------------
(* Every step keeps each part.                                             *)

(* The steps outside loading and updating.                                 *)
Other ==
  \/ \E s \in Site : LazyResolve(s)
  \/ \E s \in Looked : Dlsym(s)
  \/ \E f \in File : Dlopen(f)
  \/ \E f \in File, v \in Version : Protect(f, v) \/ Reactivate(f, v)

(* What the steps of the application and of the outdated-code detection    *)
(* leave alone.                                                            *)
LEMMA OtherFrame ==
  ASSUME Other
  PROVE  UNCHANGED <<chain, hook, back, plt, pending, lock, due, updated, phase, left,
                     applied, pc>>
<1> USE DEF links, helperVars, phaseVars, outdatedVars
<1>1. ASSUME NEW s \in Site, LazyResolve(s)
      PROVE  UNCHANGED <<chain, hook, back, plt, pending, lock, due, updated, phase, left,
                         applied, pc>>
  BY <1>1, Zenon DEF LazyResolve
<1>2. ASSUME NEW s \in Looked, Dlsym(s)
      PROVE  UNCHANGED <<chain, hook, back, plt, pending, lock, due, updated, phase, left,
                         applied, pc>>
  BY <1>2, Zenon DEF Dlsym
<1>3. ASSUME NEW f \in File, Dlopen(f)
      PROVE  UNCHANGED <<chain, hook, back, plt, pending, lock, due, updated, phase, left,
                         applied, pc>>
  BY <1>3, Zenon DEF Dlopen
<1>4. ASSUME NEW f \in File, NEW v \in Version, Protect(f, v) \/ Reactivate(f, v)
      PROVE  UNCHANGED <<chain, hook, back, plt, pending, lock, due, updated, phase, left,
                         applied, pc>>
  BY <1>4, Zenon DEF Protect, Reactivate
<1> QED BY <1>1, <1>2, <1>3, <1>4, Zenon DEF Other

(* Whoever updates holds lookup_sync, and the helper's batch is empty      *)
(* otherwise.                                                              *)
LEMMA NextLockInv == TypeOK /\ LockInv /\ [Next]_vars => LockInv'
<1> SUFFICES ASSUME TypeOK, LockInv, [Next]_vars PROVE LockInv'
  BY Zenon
<1> USE ConstantsAssumption DEF LockInv, helperVars, phaseVars
<1>0. \A t \in Thread : t # NoOne
  BY Zenon
<1>1. CASE LoadBegin
  BY <1>1, Zenon DEF LoadBegin
<1>2. CASE HelperStep
  BY Zenon, <1>2 DEF HelperStep, LoadUpdate, LoadRejected, LoadEnd, Defer, Loading
<1>3. CASE UpdateStep
  BY <1>3 DEF UpdateStep, UpdateFile, FinalizeFile, UpdateTrampolines, UpdateEnd
<1>4. CASE \E t \in Thread : UpdatePoint(t) \/ UpdateEnter(t)
  BY <1>0, <1>4 DEF UpdatePoint, UpdateEnter
<1>5. CASE Other
  BY <1>5, OtherFrame
<1>6. CASE UNCHANGED vars
  BY <1>6, Zenon DEF vars
<1> QED BY <1>1, <1>2, <1>3, <1>4, <1>5, <1>6, Zenon DEF Next, Other

(* Only loading a new version changes a chain, and only outside an update. *)
LEMMA OnlyLoadsChange ==
  ASSUME [Next]_vars, ~ \E f \in File, b \in Build : LoadUpdate(f, b)
  PROVE  /\ chain' = chain
         /\ \A f : Current(f)' = Current(f)
         /\ \A s : Resolves(s)' = Resolves(s)
<1>1. chain' = chain
  BY Zenon DEF Next, vars, HelperStep, UpdateStep, LoadBegin, LoadRejected, LoadEnd, UpdateFile,
         FinalizeFile, UpdateTrampolines, UpdateEnd, UpdatePoint, UpdateEnter, LazyResolve,
         Dlsym, Dlopen, Protect, Reactivate
<1> QED BY <1>1, Zenon DEF Current, Resolves, ResolvesIn

(* A load appends one version to the chain of its file and to no other.    *)
LEMMA LoadChangesChain ==
  ASSUME ChainType, NEW f \in File, NEW b \in Build, LoadUpdate(f, b)
  PROVE  /\ Current(f)' = Current(f) + 1
         /\ \A g \in File \ {f} : Current(g)' = Current(g)
         /\ updated' /\ phase' = "idle" /\ phase = "idle" /\ ~Clean'
         /\ \A g \in File : ~Settled(g)'
<1>1. chain' = [chain EXCEPT ![f] = Append(@, b)] /\ updated' /\ phase' = "idle" /\ phase = "idle"
  BY Zenon DEF LoadUpdate, Loading, phaseVars
<1>2. chain[f] \in Seq(Build) /\ chain'[f] = Append(chain[f], b)
  BY <1>1, Zenon DEF ChainType
<1>3. Current(f)' = Current(f) + 1
  BY <1>2 DEF Current
<1>4. \A g \in File \ {f} : Current(g)' = Current(g)
  BY <1>1, Zenon DEF ChainType, Current
<1> QED BY <1>1, <1>3, <1>4, Zenon DEF Clean, Settled

(* What becomes settled was settled, unless the step itself handles it.    *)
LEMMA SettledBefore ==
  ASSUME TypeOK, LockInv, [Next]_vars, NEW f \in File, Settled(f)', ~UpdateFile(f)
  PROVE  Settled(f)
<1> USE ConstantsAssumption DEF Settled, Clean, LockInv, helperVars, phaseVars
<1>1. CASE LoadBegin
  BY <1>1, Zenon DEF LoadBegin
<1>2. CASE HelperStep
  BY Zenon, <1>2 DEF HelperStep, LoadUpdate, LoadRejected, LoadEnd, Defer, Loading
<1>3. CASE UpdateStep
  <2>1. ASSUME NEW g \in File, UpdateFile(g) PROVE Settled(f)
    BY Zenon, <2>1 DEF UpdateFile
  <2>2. ASSUME NEW g \in File, FinalizeFile(g) PROVE Settled(f)
    BY <2>2, Zenon DEF FinalizeFile
  <2>3. CASE UpdateTrampolines \/ UpdateEnd
    BY <2>3, Zenon DEF UpdateTrampolines, UpdateEnd
  <2> QED BY <1>3, <2>1, <2>2, <2>3, Zenon DEF UpdateStep
<1>4. CASE \E t \in Thread : UpdatePoint(t) \/ UpdateEnter(t)
  BY <1>4, Zenon DEF UpdatePoint, UpdateEnter
<1>5. CASE Other
  BY <1>5, OtherFrame, Zenon
<1>6. CASE UNCHANGED vars
  BY <1>6, Zenon DEF vars
<1> QED BY <1>1, <1>2, <1>3, <1>4, <1>5, <1>6, Zenon DEF Next, Other

(* Links change when a version is loaded, when an update relocates or      *)
(* finalizes a file, and when the PLT is bound; trampolines in an update   *)
(* and in dlsym; the hooks of a file when it is updated.                   *)
LEMMA LinkFrame ==
  ASSUME [Next]_vars, ~ \E f \in File, b \in Build : LoadUpdate(f, b),
         ~ \E f \in File : UpdateFile(f)
  PROVE  /\ hook' = hook
         /\ (~ \E s \in Site : LazyResolve(s)) => reloc' = reloc
         /\ \/ UNCHANGED <<got, back, applied>>
            \/ \E f \in File : FinalizeFile(f)
            \/ \E s \in Site : LazyResolve(s)
         /\ tramp' = tramp \/ UpdateTrampolines \/ \E s \in Looked : Dlsym(s)
<1> USE DEF links
<1>1. CASE LoadBegin
  BY <1>1, Zenon DEF LoadBegin
<1>2. CASE HelperStep
  BY <1>2, Zenon DEF HelperStep, LoadRejected, LoadEnd
<1>3. CASE UpdateStep
  <2>1. ASSUME NEW g \in File, FinalizeFile(g) PROVE UNCHANGED <<hook, reloc, tramp>>
    BY <2>1, Zenon DEF FinalizeFile
  <2>2. CASE UpdateTrampolines \/ UpdateEnd
    BY <2>2, Zenon DEF UpdateTrampolines, UpdateEnd
  <2> QED BY <1>3, <2>1, <2>2, Zenon DEF UpdateStep
<1>4. CASE \E t \in Thread : UpdatePoint(t) \/ UpdateEnter(t)
  BY <1>4, Zenon DEF UpdatePoint, UpdateEnter
<1>5. CASE Other
  <2>1. ASSUME NEW s \in Site, LazyResolve(s) PROVE UNCHANGED <<hook, tramp>>
    BY <2>1, Zenon DEF LazyResolve
  <2>2. ASSUME NEW s \in Looked, Dlsym(s) PROVE UNCHANGED <<hook, reloc, got, back, applied>>
    BY <2>2, Zenon DEF Dlsym
  <2>3. ASSUME NEW f \in File, Dlopen(f)
        PROVE  UNCHANGED <<hook, reloc, tramp, got, back, applied>>
    BY <2>3, Zenon DEF Dlopen
  <2>4. ASSUME NEW f \in File, NEW v \in Version, Protect(f, v) \/ Reactivate(f, v)
        PROVE  UNCHANGED <<hook, reloc, tramp, got, back, applied>>
    BY <2>4, Zenon DEF Protect, Reactivate
  <2> QED BY <1>5, <2>1, <2>2, <2>3, <2>4, Zenon DEF Other
<1>6. CASE UNCHANGED vars
  BY <1>6, Zenon DEF vars
<1> QED BY <1>1, <1>2, <1>3, <1>4, <1>5, <1>6, Zenon DEF Next, Other

(* An update in progress has relinked every file it has left behind.       *)
LEMMA NextLinkInv ==
  TypeOK /\ LockInv /\ LinkInv /\ [Next]_vars => LinkInv'
<1> SUFFICES ASSUME TypeOK, LockInv, LinkInv, [Next]_vars,
                    NEW s \in Site, NEW v \in Version,
                    Settled(Src[s])', Refreshes(s, v)'
             PROVE  reloc'[s][v] \in {0, Current(Dst[s])'} \/ ~Resolves(s)'
  BY Zenon DEF LinkInv
<1> USE ConstantsAssumption
<1>0. ChainType /\ LinkType /\ Src[s] \in File /\ Dst[s] \in File
  BY Zenon DEF TypeOK
<1>1. ASSUME NEW f \in File, NEW b \in Build, LoadUpdate(f, b) PROVE FALSE
  BY <1>0, <1>1, LoadChangesChain, Zenon
<1>2. /\ Current(Src[s])' = Current(Src[s]) /\ Current(Dst[s])' = Current(Dst[s])
      /\ Resolves(s)' = Resolves(s)
      /\ Refreshes(s, v)
  BY <1>1, OnlyLoadsChange, Zenon DEF Refreshes
<1>3. CASE UpdateFile(Src[s])
  <2>1. reloc'[s][v] = IF <<s, v>> \in Relinked(Src[s]) THEN Current(Dst[s]) ELSE reloc[s][v]
    BY <1>3, Zenon DEF UpdateFile
  <2>2. <<s, v>> \in Relinked(Src[s]) <=>
          reloc[s][v] # 0 /\ reloc[s][v] # Current(Dst[s]) /\ Resolves(s)
    BY <1>2, Zenon DEF Relinked, Refreshes
  <2> QED BY <1>2, <2>1, <2>2, Zenon
<1>4. CASE ~UpdateFile(Src[s])
  <2>1. reloc[s][v] \in {0, Current(Dst[s])} \/ ~Resolves(s)
    BY <1>0, <1>2, <1>4, SettledBefore, Zenon DEF LinkInv
  <2>2. ASSUME NEW f \in File, UpdateFile(f) PROVE reloc'[s][v] = reloc[s][v]
    <3>1. Src[s] # f
      BY <1>4, <2>2, Zenon
    <3>2. <<s, v>> \notin Relinked(f)
      BY <3>1, Zenon DEF Relinked
    <3> QED BY <2>2, <3>2, Zenon DEF UpdateFile
  <2>3. ASSUME NEW r \in Site, LazyResolve(r)
        PROVE  reloc'[s][v] = reloc[s][v] \/ reloc'[s][v] = Current(Dst[s])
    <3>1. /\ reloc' = [reloc EXCEPT ![r][plt[Src[r]]] = Current(Dst[r])]
          /\ reloc \in [Site -> [Version -> Target]]
      BY <1>0, <2>3, Zenon DEF LazyResolve, LinkType
    <3>2. CASE r = s
      BY <3>1, <3>2, Zenon
    <3>3. CASE r # s
      BY <3>1, <3>3, Zenon
    <3> QED BY <3>2, <3>3, Zenon
  <2> QED BY <1>1, <1>2, <2>1, <2>2, <2>3, LinkFrame, Zenon
<1> QED BY <1>3, <1>4, Zenon

(* An update in progress has refreshed the hooks of every file it has left *)
(* behind.                                                                 *)
LEMMA NextHookInv ==
  TypeOK /\ LockInv /\ HookInv /\ [Next]_vars => HookInv'
<1> SUFFICES ASSUME TypeOK, LockInv, HookInv, [Next]_vars PROVE HookInv'
  BY Zenon
<1> USE ConstantsAssumption
<1>0. ChainType /\ HookType
  BY Zenon DEF TypeOK
<1>1. \/ updatable' = updatable
      \/ \E f \in File : updatable' = [updatable EXCEPT ![f] = DlUpdate]
  BY Zenon DEF Next, vars, HelperStep, UpdateStep, LoadBegin, LoadUpdate, LoadRejected, LoadEnd,
         UpdateFile, FinalizeFile, UpdateTrampolines, UpdateEnd, UpdatePoint, UpdateEnter,
         LazyResolve, Dlsym, Dlopen, Protect, Reactivate
<1>2. DlUpdate => \A f \in File : updatable'[f]
  BY Zenon, <1>0, <1>1 DEF HookInv, ChainType
<1>3. \A f \in File : updatable'[f] => updatable[f]
  BY Zenon, <1>0, <1>1 DEF HookInv, ChainType
<1>4. ASSUME NEW f \in File, Settled(f)', updatable'[f]
      PROVE  hook'[f].object = Current(f)'
  <2>1. ASSUME NEW g \in File, NEW b \in Build, LoadUpdate(g, b) PROVE FALSE
    BY <1>0, <1>4, <2>1, LoadChangesChain, Zenon
  <2>2. Current(f)' = Current(f)
    BY <2>1, OnlyLoadsChange, Zenon
  <2>3. CASE UpdateFile(f)
    BY <1>0, <1>3, <1>4, <2>2, <2>3, Zenon DEF UpdateFile, hook_refresh, Refreshed, HookType
  <2>4. CASE ~UpdateFile(f)
    <3>1. hook[f].object = Current(f)
      BY <1>3, <1>4, <2>4, SettledBefore, Zenon DEF HookInv
    <3>2. ASSUME NEW g \in File, UpdateFile(g) PROVE hook'[f] = hook[f]
      BY Zenon, <1>0, <2>4, <3>2 DEF UpdateFile, HookType
    <3> QED BY <2>1, <2>2, <3>1, <3>2, LinkFrame, Zenon
  <2> QED BY <2>3, <2>4, Zenon
<1> QED BY <1>2, <1>4, Zenon DEF HookInv

(* Once the trampolines are updated they lead to the current versions.     *)
LEMMA NextTrampolineInv ==
  TypeOK /\ LockInv /\ TrampolineInv /\ [Next]_vars => TrampolineInv'
<1> SUFFICES ASSUME TypeOK, LockInv, TrampolineInv, [Next]_vars,
                    NEW s \in Site, NEW v \in Version,
                    Clean' \/ phase' = "finalize"
             PROVE  tramp'[s][v] \in {0, Current(Dst[s])'} \/ ~Resolves(s)'
  BY Zenon DEF TrampolineInv
<1> USE ConstantsAssumption
<1>0. ChainType /\ LinkType /\ ControlType /\ Src[s] \in File /\ Dst[s] \in File
  BY Zenon DEF TypeOK
<1>1. ASSUME NEW f \in File, NEW b \in Build, LoadUpdate(f, b) PROVE FALSE
  BY <1>0, <1>1, LoadChangesChain, Zenon
<1>2. Current(Dst[s])' = Current(Dst[s]) /\ Resolves(s)' = Resolves(s)
  BY <1>1, OnlyLoadsChange, Zenon
<1>3. CASE UpdateTrampolines
  BY <1>2, <1>3, Zenon DEF UpdateTrampolines, TrampolineTarget
<1>4. CASE ~UpdateTrampolines
  <2>1. Clean \/ phase = "finalize"
    <3> USE DEF Clean, LockInv, helperVars, phaseVars
    <3>1. CASE LoadBegin
      BY <3>1, Zenon DEF LoadBegin
    <3>2. CASE HelperStep
      BY Zenon, <3>2 DEF HelperStep, LoadUpdate, LoadRejected, LoadEnd, Defer, Loading
    <3>3. CASE UpdateStep
      BY <1>4, <3>3, Zenon DEF UpdateStep, UpdateFile, FinalizeFile, UpdateEnd
    <3>4. CASE \E t \in Thread : UpdatePoint(t) \/ UpdateEnter(t)
      BY <3>4, Zenon DEF UpdatePoint, UpdateEnter
    <3>5. CASE Other
      BY <3>5, OtherFrame, Zenon
    <3>6. CASE UNCHANGED vars
      BY <3>6, Zenon DEF vars
    <3> QED BY <3>1, <3>2, <3>3, <3>4, <3>5, <3>6, Zenon DEF Next, Other
  <2>2. tramp[s][v] \in {0, Current(Dst[s])} \/ ~Resolves(s)
    BY <2>1, Zenon DEF TrampolineInv
  <2>3. ASSUME NEW r \in Looked, Dlsym(r)
        PROVE  tramp'[s][v] = tramp[s][v] \/ tramp'[s][v] = Current(Dst[s])
    <3>1. /\ tramp' = [tramp EXCEPT ![r][Current(Dst[r])] = Current(Dst[r])]
          /\ tramp \in [Site -> [Version -> Target]]
      BY <1>0, <2>3, Zenon DEF Dlsym, LinkType
    <3>2. CASE r = s
      BY <3>1, <3>2, Zenon
    <3>3. CASE r # s
      BY <3>1, <3>3, Zenon
    <3> QED BY <3>2, <3>3, Zenon
  <2>4. ASSUME NEW f \in File, UpdateFile(f) PROVE tramp' = tramp
    BY <2>4, Zenon DEF UpdateFile
  <2> QED BY <1>1, <1>2, <1>4, <2>2, <2>3, <2>4, LinkFrame, Zenon
<1> QED BY <1>3, <1>4, Zenon

-----------------------------------------------------------------------------
(* A new version of f brings links of f only, at its own number.           *)
LEMMA LoadChangesLinks ==
  ASSUME TypeOK, NEW f \in File, NEW b \in Build, LoadUpdate(f, b),
         NEW s \in Site, NEW v \in Version
  PROVE  /\ back' = back
         /\ reloc'[s][v] # reloc[s][v] =>
              /\ Src[s] = f /\ v = Current(f) + 1
              /\ reloc'[s][v] = Current(Dst[s])' /\ Resolves(s)'
         /\ got'[s][v] # got[s][v] =>
              /\ Src[s] = f /\ v = Cell(s, Current(f) + 1)
              /\ got'[s][v] = Current(Dst[s])' /\ reloc'[s][Current(f) + 1] = Current(Dst[s])'
         /\ (Src[s] = f /\ v = Current(f) + 1 /\ reloc'[s][v] # reloc[s][v]) =>
              reloc'[s][v] = got'[s][Cell(s, v)]
<1> DEFINE n == Current(f) + 1
           ch == [chain EXCEPT ![f] = Append(@, b)]
<1> USE ConstantsAssumption, VersionFacts
<1>0. ChainType /\ LinkType
  BY Zenon DEF TypeOK
<1>1. PICK d \in Prepared(ch, b) :
         /\ reloc' = [r \in Site |-> IF r \in d
                         THEN [reloc[r] EXCEPT ![n] = Len(ch[Dst[r]])] ELSE reloc[r]]
         /\ got' = [r \in Site |-> IF r \in d
                         THEN [got[r] EXCEPT ![Cell(r, n)] = Len(ch[Dst[r]])] ELSE got[r]]
  BY Zenon DEF LoadUpdate
<1>2. chain' = ch /\ back' = back /\ Of[b] = f /\ n \in Version
  BY Zenon DEF LoadUpdate
<1>3. \A r \in d : r \in Needs[b] /\ ResolvesIn(ch, r)
  <2>1. d \subseteq {r \in Needs[b] : ResolvesIn(ch, r)}
    BY Zenon DEF Prepared
  <2> QED BY <2>1, Zenon
<1>4. s \in d => Src[s] = f
  BY <1>2, <1>3, SitesBelongToBuilds, Zenon
<1>5. Len(ch[Dst[s]]) = Current(Dst[s])'
  BY <1>2, Zenon DEF Current
<1>6. Cell(s, n) \in Version
  BY <1>2, Zenon DEF Cell
<1>7. reloc[s] \in [Version -> Target] /\ got[s] \in [Version -> Target]
  BY Zenon, <1>0 DEF LinkType
<1> HIDE DEF n, ch
<1>8. CASE s \in d
  <2>1. /\ reloc'[s] = [reloc[s] EXCEPT ![n] = Current(Dst[s])']
        /\ got'[s] = [got[s] EXCEPT ![Cell(s, n)] = Current(Dst[s])']
    BY <1>1, <1>5, <1>8, Zenon
  <2>2. reloc'[s][n] = Current(Dst[s])' /\ got'[s][Cell(s, n)] = Current(Dst[s])'
    BY <1>2, <1>6, <1>7, <2>1, Zenon
  <2>3. reloc'[s][v] # reloc[s][v] => v = n
    BY <1>7, <2>1, Zenon
  <2>4. got'[s][v] # got[s][v] => v = Cell(s, n)
    BY <1>7, <2>1, Zenon
  <2>5. Resolves(s)'
    BY <1>2, <1>3, <1>8, Zenon DEF Resolves
  <2> QED BY <1>2, <1>4, <1>8, <2>2, <2>3, <2>4, <2>5, Zenon DEF n
<1>9. CASE s \notin d
  BY <1>1, <1>2, <1>9, Zenon
<1> QED BY <1>8, <1>9, Zenon

(* What ObjectIdentity::update does to one link.                           *)
LEMMA UpdateChangesLinks ==
  ASSUME TypeOK, NEW f \in File, UpdateFile(f), NEW s \in Site, NEW v \in Version
  PROVE  /\ reloc'[s][v] = IF <<s, v>> \in Relinked(f) THEN Current(Dst[s]) ELSE reloc[s][v]
         /\ back'[s][v] = IF <<s, v>> \in Relinked(f) /\ ~InPlace(s, v)
                          THEN Current(Dst[s]) ELSE back[s][v]
         /\ got'[s][v] = IF \E w \in Version : <<s, w>> \in Relinked(f) /\ InPlace(s, w)
                                                /\ Cell(s, w) = v
                         THEN Current(Dst[s]) ELSE got[s][v]
  BY Zenon DEF UpdateFile

(* No version is applied (finalized) that is newer than the loaded ones.   *)
LEMMA NextLoadedInv == TypeOK /\ LoadedInv /\ [Next]_vars => LoadedInv'
<1> SUFFICES ASSUME TypeOK, LoadedInv, [Next]_vars, NEW g \in File
             PROVE  /\ applied'[g] <= Current(g)' /\ plt'[g] <= Current(g)'
                    /\ phase' = "finalize" /\ g \notin left' => applied'[g] = Current(g)'
  BY Zenon DEF LoadedInv
<1> USE ConstantsAssumption, VersionFacts DEF LoadedInv, links, phaseVars
<1>0. /\ ChainType /\ LinkType /\ ControlType
      /\ Current(g) \in Nat /\ applied[g] \in Nat /\ plt[g] \in Nat
  BY Zenon DEF TypeOK, ChainType, LinkType, ControlType
<1>1. ASSUME NEW f \in File, NEW b \in Build, LoadUpdate(f, b)
      PROVE  /\ applied'[g] <= Current(g)' /\ plt'[g] <= Current(g)'
             /\ phase' = "finalize" /\ g \notin left' => applied'[g] = Current(g)'
  <2>1. /\ phase' = "idle" /\ applied' = applied
        /\ plt' = plt \/ plt' = [plt EXCEPT ![f] = Current(f) + 1]
    BY Zenon, <1>0, <1>1, LoadChangesChain DEF LoadUpdate
  <2>2. Current(f)' = Current(f) + 1 /\ (g # f => Current(g)' = Current(g))
    BY <1>0, <1>1, LoadChangesChain, Zenon
  <2> QED BY <1>0, <2>1, <2>2 DEF LinkType
<1>2. CASE ~ \E f \in File, b \in Build : LoadUpdate(f, b)
  <2>0. Current(g)' = Current(g)
    BY <1>2, OnlyLoadsChange, Zenon
  <2>1. CASE LoadBegin
    BY <2>0, <2>1, Zenon DEF LoadBegin
  <2>2. CASE HelperStep
    BY <1>2, <2>0, <2>2, Zenon DEF HelperStep, LoadRejected, LoadEnd, Defer, Loading
  <2>3. ASSUME NEW f \in File, UpdateFile(f) PROVE UNCHANGED <<applied, plt, phase>> /\ phase = "relocate"
    BY <2>3, Zenon DEF UpdateFile
  <2>4. ASSUME NEW f \in File, FinalizeFile(f)
        PROVE  /\ applied'[g] <= Current(g)' /\ plt'[g] <= Current(g)'
               /\ phase' = "finalize" /\ g \notin left' => applied'[g] = Current(g)'
    BY <1>0, <2>0, <2>4 DEF FinalizeFile, ControlType
  <2>5. CASE UpdateTrampolines \/ UpdateEnd
    BY <2>0, <2>5, Zenon DEF UpdateTrampolines, UpdateEnd
  <2>6. CASE \E t \in Thread : UpdatePoint(t) \/ UpdateEnter(t)
    BY <2>0, <2>6, Zenon DEF UpdatePoint, UpdateEnter
  <2>7. CASE Other
    BY <2>0, <2>7, OtherFrame, Zenon
  <2>8. CASE UNCHANGED vars
    BY <2>0, <2>8, Zenon DEF vars
  <2> QED BY <2>0, <2>1, <2>2, <2>3, <2>4, <2>5, <2>6, <2>7, <2>8, Zenon DEF Next, UpdateStep, Other
<1> QED BY <1>1, <1>2, Zenon

(* Versions that have not been loaded have no relocations yet.             *)
LEMMA NextFreshInv == TypeOK /\ LoadedInv /\ FreshInv /\ [Next]_vars => FreshInv'
<1> SUFFICES ASSUME TypeOK, LoadedInv, FreshInv, [Next]_vars,
                    NEW s \in Site, NEW v \in Version, v > Current(Src[s])'
             PROVE  reloc'[s][v] = 0 /\ back'[s][v] = 0
  BY Zenon DEF FreshInv
<1> USE ConstantsAssumption, VersionFacts
<1>0. ChainType /\ LinkType /\ Current(Src[s]) \in Nat
  BY Zenon DEF TypeOK, ChainType
<1>1. ASSUME NEW f \in File, NEW b \in Build, LoadUpdate(f, b)
      PROVE  reloc'[s][v] = 0 /\ back'[s][v] = 0
  <2>1. v > Current(Src[s]) /\ ~(Src[s] = f /\ v = Current(f) + 1)
    BY <1>0, <1>1, LoadChangesChain
  <2> QED BY <1>1, <2>1, LoadChangesLinks DEF FreshInv
<1>2. CASE ~ \E f \in File, b \in Build : LoadUpdate(f, b)
  <2>1. v > Current(Src[s]) /\ reloc[s][v] = 0 /\ back[s][v] = 0
    BY <1>2, OnlyLoadsChange DEF FreshInv
  <2>2. ASSUME NEW f \in File, UpdateFile(f) PROVE reloc'[s][v] = 0 /\ back'[s][v] = 0
    <3>1. <<s, v>> \notin Relinked(f)
      BY <1>0, <2>1, Zenon DEF Relinked
    <3> QED BY <2>1, <2>2, <3>1, UpdateChangesLinks
  <2>3. ASSUME NEW r \in Site, LazyResolve(r) PROVE reloc'[s][v] = 0 /\ back'[s][v] = 0
    <3>1. /\ reloc' = [reloc EXCEPT ![r][plt[Src[r]]] = Current(Dst[r])]
          /\ reloc \in [Site -> [Version -> Target]] /\ back' = back
      BY <1>0, <2>3, Zenon DEF LazyResolve, LinkType
    <3>2. CASE r = s
      <4>1. plt[Src[s]] # v
        BY <1>0, <2>1 DEF LoadedInv, LinkType
      <4> QED BY <2>1, <3>1, <3>2, <4>1, Zenon
    <3>3. CASE r # s
      BY <2>1, <3>1, <3>3, Zenon
    <3> QED BY <3>2, <3>3, Zenon
  <2>4. ASSUME NEW f \in File, FinalizeFile(f) PROVE reloc'[s][v] = 0 /\ back'[s][v] = 0
    BY <2>1, <2>4, Zenon DEF FinalizeFile
  <2> QED BY <1>2, <2>1, <2>2, <2>3, <2>4, LinkFrame, Zenon
<1> QED BY <1>1, <1>2, Zenon

(* Back buffers are filled by relocate and empty again after finalize.     *)
LEMMA NextBackInv ==
  TypeOK /\ LockInv /\ LinkInv /\ BackInv /\ [Next]_vars => BackInv'
<1> DEFINE Composed(s, v) ==
             /\ ~Clean
             /\ \/ phase = "relocate" /\ Src[s] \notin left
                \/ phase = "finalize" /\ Src[s] \in left
             /\ s \notin Shared
             /\ v <= applied[Src[s]]
<1> SUFFICES ASSUME TypeOK, LockInv, LinkInv, BackInv, [Next]_vars,
                    NEW s \in Site, NEW v \in Version, back'[s][v] # 0
             PROVE  Composed(s, v)'
  BY Zenon DEF BackInv
<1> USE ConstantsAssumption, VersionFacts
<1> HIDE DEF Composed
<1>0. /\ ControlType /\ LinkType /\ Src[s] \in File
      /\ back[s][v] # 0 => Composed(s, v)
      /\ applied[Src[s]] \in Nat
  BY Zenon DEF TypeOK, ControlType, BackInv, Composed
<1> USE DEF links, helperVars, phaseVars
<1>1. ASSUME NEW f \in File, UpdateFile(f) PROVE Composed(s, v)'
  <2>1. /\ UNCHANGED <<applied, phase, pending, updated, lock>> /\ left' = left \ {f}
        /\ phase = "relocate" /\ f \in left
    BY <1>1, Zenon DEF UpdateFile
  <2>2. Clean' = Clean
    BY <2>1, Zenon DEF Clean
  <2>3. CASE <<s, v>> \in Relinked(f) /\ ~InPlace(s, v)
    <3>1. /\ Src[s] = f /\ s \notin Shared /\ v <= applied[Src[s]]
          /\ Refreshes(s, v)
          /\ ~(reloc[s][v] \in {0, Current(Dst[s])} \/ ~Resolves(s))
      BY <1>0, <2>3 DEF Relinked, InPlace, Refreshes
    <3>2. ~Clean
      BY <3>1, Zenon DEF LinkInv, Settled
    <3> QED BY <2>1, <2>2, <3>1, <3>2, Zenon DEF Composed
  <2>4. CASE ~(<<s, v>> \in Relinked(f) /\ ~InPlace(s, v))
    <3>1. back[s][v] # 0
      BY <1>1, <2>4, UpdateChangesLinks, Zenon
    <3> QED BY <1>0, <2>1, <2>2, <3>1, Zenon DEF Composed
  <2> QED BY <2>3, <2>4, Zenon
<1>2. ASSUME NEW f \in File, FinalizeFile(f) PROVE Composed(s, v)'
  <2>1. back'[s][v] = IF Src[s] = f THEN 0 ELSE back[s][v]
    BY <1>2, Zenon DEF FinalizeFile
  <2>2. /\ UNCHANGED <<phase, pending, updated, lock>> /\ left' = left \ {f}
        /\ applied' = [applied EXCEPT ![f] = Current(f)] /\ phase = "finalize"
    BY <1>2, Zenon DEF FinalizeFile
  <2>3. back[s][v] # 0 /\ Src[s] # f
    BY <2>1, Zenon
  <2>4. applied'[Src[s]] = applied[Src[s]]
    BY <1>0, <2>2, <2>3, Zenon DEF ControlType
  <2> QED BY <1>0, <2>2, <2>3, <2>4, Zenon DEF Composed, Clean
<1>3. CASE UpdateTrampolines
  BY <1>0, <1>3, Zenon DEF UpdateTrampolines, Composed, Clean
<1>4. CASE UpdateEnd
  BY <1>0, <1>4, Zenon DEF UpdateEnd, Composed
<1>5. CASE Other
  BY <1>0, <1>5, OtherFrame, Zenon DEF Composed, Clean
<1>6. CASE LoadBegin \/ \E t \in Thread : UpdateEnter(t)
  BY <1>0, <1>6, Zenon DEF LoadBegin, UpdateEnter, Composed, LockInv
<1>7. CASE HelperStep
  <2>1. phase = "idle" /\ back' = back
    BY Zenon, <1>7 DEF HelperStep, LoadUpdate, LoadRejected, LoadEnd, Loading
  <2> QED BY <1>0, <2>1, Zenon DEF Composed
<1>8. CASE (\E t \in Thread : UpdatePoint(t)) \/ UNCHANGED vars
  BY <1>0, <1>8, Zenon DEF UpdatePoint, vars, Composed, Clean
<1> QED BY <1>1, <1>2, <1>3, <1>4, <1>5, <1>6, <1>7, <1>8, Zenon DEF Next, UpdateStep, Other

-----------------------------------------------------------------------------
(* Without update points no update waits and no symbol in use is dropped,  *)
(* and only replaced versions are withdrawn.                               *)

(* An update point the hooks know of belongs to a loaded version, and only *)
(* an update point makes an update wait.                                   *)
PointInv ==
  /\ \A f \in File : hook[f].update_point => \E i \in 1 .. Current(f) : chain[f][i] \in Point
  /\ NoPoint => ~pending

(* Only versions that have been replaced are withdrawn, or will be.        *)
OutdatedInv ==
  \A f \in File, v \in Version : <<f, v>> \in protect \cup disabled => v < Current(f)

(* Without update points, a symbol in use is one the current version has,  *)
(* and what the batch of the helper has still to load is linked as of now. *)
DropInv ==
  NoPoint => \A s \in Site :
    /\ reloc[s][Current(Src[s])] # 0 => Resolves(s)
    /\ Dst[s] \in due => reloc[s][Current(Src[s])] \in {0, Current(Dst[s])}

(* Versions are only added: without update points now, there were none.    *)
LEMMA NoPointBefore ==
  ASSUME TypeOK, [Next]_vars
  PROVE  /\ \A f \in File : \A i \in 1 .. Current(f) :
              i \in 1 .. Current(f)' /\ chain'[f][i] = chain[f][i]
         /\ NoPoint' => NoPoint
<1>0. ChainType
  BY Zenon DEF TypeOK
<1>1. \A f \in File : \A i \in 1 .. Current(f) :
        i \in 1 .. Current(f)' /\ chain'[f][i] = chain[f][i]
  <2>1. ASSUME NEW g \in File, NEW b \in Build, LoadUpdate(g, b),
               NEW f \in File, NEW i \in 1 .. Current(f)
        PROVE  i \in 1 .. Current(f)' /\ chain'[f][i] = chain[f][i]
    <3>1. chain' = [chain EXCEPT ![g] = Append(@, b)]
      BY <2>1, Zenon DEF LoadUpdate
    <3>2. chain[f] \in Seq(Build) /\ chain[g] \in Seq(Build)
      BY <1>0, Zenon DEF ChainType
    <3>3. CASE f = g
      <4>1. chain'[f] = Append(chain[f], b)
        BY <1>0, <3>1, <3>3, Zenon DEF ChainType
      <4> QED BY <2>1, <3>2, <4>1 DEF Current
    <3>4. CASE f # g
      BY <1>0, <3>1, <3>4, Zenon DEF ChainType, Current
    <3> QED BY <3>3, <3>4, Zenon
  <2>2. CASE ~ \E f \in File, b \in Build : LoadUpdate(f, b)
    BY <2>2, OnlyLoadsChange, Zenon
  <2> QED BY <2>1, <2>2, Zenon
<1> QED BY <1>1, Zenon DEF NoPoint

(* The hooks of a file come from its versions (hook_refresh), and the      *)
(* helper defers an update only because of a hook.                         *)
LEMMA NextPointInv == TypeOK /\ PointInv /\ [Next]_vars => PointInv'
<1> SUFFICES ASSUME TypeOK, PointInv, [Next]_vars PROVE PointInv'
  BY Zenon
<1>0. ChainType /\ HookType
  BY Zenon DEF TypeOK
<1>1. ASSUME NEW f \in File, hook'[f].update_point
      PROVE  \E i \in 1 .. Current(f)' : chain'[f][i] \in Point
  <2>1. CASE hook'[f] = hook[f]
    BY <1>1, <2>1, NoPointBefore, Zenon DEF PointInv
  <2>2. CASE hook'[f] # hook[f]
    <3>1. UpdateFile(f)
      <4>1. ASSUME NEW g \in File, UpdateFile(g) PROVE g = f
        BY <1>0, <2>2, <4>1, Zenon DEF UpdateFile, HookType
      <4>2. ASSUME NEW g \in File, NEW b \in Build, LoadUpdate(g, b) PROVE FALSE
        BY <2>2, <4>2, Zenon DEF LoadUpdate
      <4> QED BY <2>2, <4>1, <4>2, LinkFrame, Zenon
    <3>2. hook'[f] = hook_refresh(f) /\ chain' = chain
      BY <1>0, <3>1, Zenon DEF UpdateFile, HookType
    <3>3. Latest(f) \in Point
      <4>1. hook'[f] = Refreshed(hook[f], Latest(f), Current(f))
        BY <2>2, <3>2, Zenon DEF hook_refresh
      <4>2. Refreshed(hook[f], Latest(f), Current(f)).update_point => Latest(f) \in Point
        BY Zenon DEF Refreshed
      <4> QED BY <1>1, <4>1, <4>2, Zenon
    <3>4. Current(f) \in 1 .. Current(f)
      BY <1>0, VersionFacts DEF ChainType
    <3> QED BY <3>2, <3>3, <3>4, Zenon DEF Latest, Current
  <2> QED BY <2>1, <2>2, Zenon
<1>2. ASSUME NoPoint' PROVE ~pending'
  <2>1. ~pending /\ \A f \in File : ~hook[f].update_point
    BY <1>2, NoPointBefore, Zenon DEF PointInv, NoPoint
  <2> QED BY Zenon, <2>1 DEF Next, vars, HelperStep, UpdateStep, LoadBegin, LoadUpdate,
         LoadRejected, LoadEnd, Defer, UpdateFile, FinalizeFile, UpdateTrampolines, UpdateEnd,
         UpdatePoint, UpdateEnter, LazyResolve, Dlsym, Dlopen, Protect, Reactivate
<1> QED BY <1>1, <1>2, Zenon DEF PointInv

(* A version is scheduled to be withdrawn when it has been replaced.       *)
LEMMA NextOutdatedInv == TypeOK /\ OutdatedInv /\ [Next]_vars => OutdatedInv'
<1> SUFFICES ASSUME TypeOK, OutdatedInv, [Next]_vars,
                    NEW f \in File, NEW v \in Version, <<f, v>> \in protect' \cup disabled'
             PROVE  v < Current(f)'
  BY Zenon DEF OutdatedInv
<1> USE ConstantsAssumption, VersionFacts DEF outdatedVars
<1>0. ChainType /\ Current(f) \in Nat
  BY Zenon DEF TypeOK, ChainType
<1>1. ASSUME NEW g \in File, NEW b \in Build, LoadUpdate(g, b) PROVE v < Current(f)'
  <2>1. protect' \subseteq protect \cup {<<g, Current(g)>>} /\ disabled' = disabled
    BY <1>1, Zenon DEF LoadUpdate, Outdated
  <2>2. CASE <<f, v>> \in protect \cup disabled
    BY <1>0, <1>1, <2>2, LoadChangesChain DEF OutdatedInv
  <2>3. CASE <<f, v>> = <<g, Current(g)>>
    BY <1>0, <1>1, <2>3, LoadChangesChain
  <2> QED BY <2>1, <2>2, <2>3, Zenon
<1>2. CASE ~ \E g \in File, b \in Build : LoadUpdate(g, b)
  <2>1. protect' \cup disabled' \subseteq protect \cup disabled
    BY Zenon, <1>2 DEF Next, vars, HelperStep, UpdateStep, LoadBegin,
         LoadRejected, LoadEnd, UpdateFile, FinalizeFile, UpdateTrampolines, UpdateEnd,
         UpdatePoint, UpdateEnter, LazyResolve, Dlsym, Dlopen, Protect, Reactivate
  <2> QED BY <1>2, <2>1, OnlyLoadsChange, Zenon DEF OutdatedInv
<1> QED BY <1>1, <1>2, Zenon

(* ObjectDynamic::patchable lets no version pass that lacks a symbol which *)
(* is linked to the previous one; as every batch of loads without update   *)
(* points ends with an update, there are no links to older ones.           *)
LEMMA NextDropInv ==
  TypeOK /\ LockInv /\ LinkInv /\ FreshInv /\ PointInv /\ DropInv /\ [Next]_vars => DropInv'
<1> SUFFICES ASSUME TypeOK, LockInv, LinkInv, FreshInv, PointInv, DropInv, [Next]_vars,
                    NoPoint', NEW s \in Site
             PROVE  LET v == Current(Src[s])' IN
                    /\ reloc'[s][v] # 0 => Resolves(s)'
                    /\ Dst[s] \in due' => reloc'[s][v] \in {0, Current(Dst[s])'}
  BY Zenon DEF DropInv
<1> USE ConstantsAssumption, VersionFacts
<1> DEFINE v == Current(Src[s])
<1>0. /\ ChainType /\ LinkType /\ ControlType /\ Src[s] \in File /\ Dst[s] \in File
      /\ Current(Src[s]) \in Version /\ Current(Dst[s]) \in Version
  BY Zenon DEF TypeOK, ChainType
<1>1. /\ NoPoint /\ ~pending
      /\ reloc[s][v] # 0 => Resolves(s)
      /\ Dst[s] \in due => reloc[s][v] \in {0, Current(Dst[s])}
  BY NoPointBefore, Zenon DEF PointInv, DropInv
<1>2. ASSUME NEW f \in File, NEW b \in Build, LoadUpdate(f, b)
      PROVE  /\ reloc'[s][v'] # 0 => Resolves(s)'
             /\ Dst[s] \in due' => reloc'[s][v'] \in {0, Current(Dst[s])'}
  <2>1. /\ f \in due /\ due' = due \ {f} /\ patchable(f, b)
        /\ chain' = [chain EXCEPT ![f] = Append(@, b)] /\ Current(f) + 1 \in Version
    BY <1>2, Zenon DEF LoadUpdate
  <2>2. Current(f)' = Current(f) + 1 /\ \A g \in File \ {f} : Current(g)' = Current(g)
    BY <1>0, <1>2, LoadChangesChain, Zenon
  <2>3. CASE Src[s] = f
    <3>1. v' = Current(f) + 1 /\ reloc[s][v'] = 0
      BY <1>0, <2>1, <2>2, <2>3 DEF FreshInv
    <3>2. reloc'[s][v'] # 0 => reloc'[s][v'] = Current(Dst[s])' /\ Resolves(s)'
      BY <1>2, <2>1, <3>1, LoadChangesLinks
    <3> QED BY <3>2, Zenon
  <2>4. CASE Src[s] # f
    <3>1. v' = v /\ reloc'[s][v] = reloc[s][v]
      BY <1>0, <1>2, <2>2, <2>4, LoadChangesLinks
    <3>2. CASE Dst[s] = f
      <4>1. reloc[s][v] # 0 => s \in Provides[b]
        BY <1>0, <1>1, <2>1, <3>2, Zenon DEF patchable
      <4>2. chain'[f] = Append(chain[f], b) /\ chain[f] \in Seq(Build)
        BY <1>0, <2>1, Zenon DEF ChainType
      <4>3. chain'[f][Len(chain'[f])] = b
        BY <4>2
      <4> QED BY <2>1, <3>1, <3>2, <4>1, <4>3, Zenon DEF Resolves, ResolvesIn
    <3>3. CASE Dst[s] # f
      <4>1. chain'[Dst[s]] = chain[Dst[s]]
        BY <1>0, <2>1, <3>3, Zenon DEF ChainType
      <4> QED BY <1>1, <2>1, <3>1, <4>1, Zenon DEF Resolves, ResolvesIn, Current
    <3> QED BY <3>2, <3>3, Zenon
  <2> QED BY <2>3, <2>4, Zenon
<1>3. CASE ~ \E f \in File, b \in Build : LoadUpdate(f, b)
  <2>1. v' = v /\ Current(Dst[s])' = Current(Dst[s]) /\ Resolves(s)' = Resolves(s)
    BY <1>3, OnlyLoadsChange, Zenon
  <2>2. ASSUME NEW f \in File, UpdateFile(f)
        PROVE  /\ reloc'[s][v] # 0 => Resolves(s)
               /\ Dst[s] \in due' => reloc'[s][v] \in {0, Current(Dst[s])}
    <3>1. due' = due
      BY <2>2, Zenon DEF UpdateFile, helperVars
    <3>2. reloc'[s][v] = IF <<s, v>> \in Relinked(f) THEN Current(Dst[s]) ELSE reloc[s][v]
      <4>1. v \in Version
        BY <1>0, Zenon
      <4> QED BY <2>2, <4>1, UpdateChangesLinks
    <3>3. CASE <<s, v>> \in Relinked(f)
      BY <3>2, <3>3, Zenon DEF Relinked
    <3>4. CASE <<s, v>> \notin Relinked(f)
      BY <1>1, <3>1, <3>2, <3>4, Zenon
    <3> QED BY <3>3, <3>4, Zenon
  <2>3. ASSUME NEW r \in Site, LazyResolve(r)
        PROVE  /\ reloc'[s][v] # 0 => Resolves(s)
               /\ Dst[s] \in due' => reloc'[s][v] \in {0, Current(Dst[s])}
    <3>1. /\ reloc' = [reloc EXCEPT ![r][plt[Src[r]]] = Current(Dst[r])]
          /\ reloc \in [Site -> [Version -> Target]] /\ due' = due /\ Resolves(r)
      BY <1>0, <2>3, Zenon DEF LazyResolve, LinkType, helperVars
    <3>2. CASE r = s /\ plt[Src[r]] = v
      BY <1>0, <3>1, <3>2, Zenon
    <3>3. CASE ~(r = s /\ plt[Src[r]] = v)
      <4>1. reloc'[s][v] = reloc[s][v]
        BY <1>0, <3>1, <3>3, Zenon
      <4> QED BY <1>1, <3>1, <4>1, Zenon
    <3> QED BY <3>2, <3>3, Zenon
  <2>4. CASE LoadBegin
    <3>1. reloc' = reloc /\ lock = NoOne
      BY <2>4, Zenon DEF LoadBegin, links
    <3>2. Settled(Src[s]) /\ Refreshes(s, v)
      BY <1>1, <3>1, Zenon DEF LockInv, Settled, Clean, Refreshes
    <3>3. reloc[s][v] \in {0, Current(Dst[s])}
      BY <1>0, <1>1, <3>2, Zenon DEF LinkInv
    <3> QED BY <1>1, <2>1, <3>1, <3>3, Zenon
  <2>5. CASE ~LoadBegin /\ ~(\E f \in File : UpdateFile(f)) /\ ~(\E r \in Site : LazyResolve(r))
    <3>1. reloc' = reloc
      BY <1>3, <2>5, LinkFrame, Zenon
    <3>2. due' \subseteq due
      BY Zenon, <1>3, <2>5 DEF Next, vars, helperVars, HelperStep, UpdateStep,
         LoadRejected, LoadEnd, FinalizeFile, UpdateTrampolines, UpdateEnd,
         UpdatePoint, UpdateEnter, Dlsym, Dlopen, Protect, Reactivate
    <3> QED BY <1>1, <2>1, <3>1, <3>2, Zenon
  <2> QED BY <2>1, <2>2, <2>3, <2>4, <2>5, Zenon
<1> QED BY <1>2, <1>3, Zenon

-----------------------------------------------------------------------------
(* No link of the process moves back; see CellsMoveForward.                *)
LEMMA NextCellInv ==
  ASSUME TypeOK, LockInv, BackInv, CellInv, [Next]_vars
  PROVE  CellInv' /\ \A s \in Site, v \in Version : got'[s][v] >= got[s][v]
<1> SUFFICES ASSUME NEW s \in Site, NEW v \in Version
             PROVE  /\ got'[s][v] <= Current(Dst[s])' /\ got'[s][v] >= got[s][v]
                    /\ back'[s][v] # 0 => back'[s][v] >= got'[s][v]
                    /\ back'[s][v] <= Current(Dst[s])'
  BY Zenon DEF CellInv
<1> DEFINE Forward == /\ got'[s][v] <= Current(Dst[s])' /\ got'[s][v] >= got[s][v]
                      /\ back'[s][v] # 0 => back'[s][v] >= got'[s][v]
                      /\ back'[s][v] <= Current(Dst[s])'
<1> USE ConstantsAssumption, VersionFacts
<1>0. /\ ChainType /\ LinkType
      /\ Current(Dst[s]) \in Nat /\ got[s][v] \in Nat /\ back[s][v] \in Nat
      /\ got[s][v] <= Current(Dst[s]) /\ (back[s][v] # 0 => back[s][v] >= got[s][v])
      /\ back[s][v] <= Current(Dst[s])
  <2>1. ChainType /\ LinkType /\ Dst[s] \in File
    BY Zenon DEF TypeOK
  <2>2. Current(Dst[s]) \in Nat
    BY <2>1, Zenon DEF ChainType
  <2>3. got[s][v] \in Target /\ back[s][v] \in Target
    BY <2>1 DEF LinkType
  <2> QED BY <2>1, <2>2, <2>3, Zenon DEF CellInv
<1>1. ASSUME NEW f \in File, NEW b \in Build, LoadUpdate(f, b)
      PROVE  Forward
  <2>1. Current(Dst[s])' >= Current(Dst[s]) /\ Current(Dst[s])' \in Nat /\ phase = "idle"
    BY <1>0, <1>1, LoadChangesChain
  <2>2. back'[s][v] = 0
    BY <1>1, <2>1, LoadChangesLinks DEF BackInv
  <2>3. got'[s][v] = got[s][v] \/ got'[s][v] = Current(Dst[s])'
    BY <1>1, LoadChangesLinks, Zenon
  <2> QED BY <1>0, <2>1, <2>2, <2>3
<1>2. CASE ~ \E f \in File, b \in Build : LoadUpdate(f, b)
  <2>0. Current(Dst[s])' = Current(Dst[s])
    BY <1>2, OnlyLoadsChange, Zenon
  <2>1. ASSUME NEW f \in File, UpdateFile(f)
        PROVE  Forward
    <3>1. /\ got'[s][v] \in {got[s][v], Current(Dst[s])}
          /\ back'[s][v] \in {back[s][v], Current(Dst[s])}
      BY Zenon, <2>1, UpdateChangesLinks
    <3>2. ASSUME got'[s][v] # got[s][v], back[s][v] # 0 PROVE FALSE
      <4> DEFINE Rebound == \E w \in Version : <<s, w>> \in Relinked(f) /\ InPlace(s, w)
                                               /\ Cell(s, w) = v
      <4>0. got'[s][v] = IF Rebound THEN Current(Dst[s]) ELSE got[s][v]
        BY <2>1, Zenon DEF UpdateFile
      <4>1. PICK w \in Version : <<s, w>> \in Relinked(f) /\ InPlace(s, w) /\ Cell(s, w) = v
        BY <3>2, <4>0, Zenon
      <4>2. s \notin Shared /\ v <= applied[Src[s]] /\ v = w
        BY <3>2, <4>1, Zenon DEF BackInv, Cell
      <4>3. v > applied[Src[s]]
        BY <4>1, <4>2, Zenon DEF InPlace
      <4>4. applied[Src[s]] \in Nat /\ v \in Nat
        BY Zenon DEF TypeOK, ControlType
      <4> QED BY <4>2, <4>3, <4>4
    <3> QED BY <1>0, <2>0, <3>1, <3>2
  <2>2. ASSUME NEW f \in File, FinalizeFile(f)
        PROVE  Forward
    <3>1. /\ got'[s][v] = IF Src[s] = f THEN Finalized(s, v) ELSE got[s][v]
          /\ back'[s][v] = IF Src[s] = f THEN 0 ELSE back[s][v]
      BY <2>2, Zenon DEF FinalizeFile
    <3> QED BY <1>0, <2>0, <3>1 DEF Finalized
  <2>3. ASSUME NEW r \in Site, LazyResolve(r)
        PROVE  Forward
    <3>1. /\ got' = [got EXCEPT ![r][1] = Current(Dst[r])]
          /\ got \in [Site -> [Version -> Target]] /\ back' = back /\ r \in Shared
      BY <1>0, <2>3, Zenon DEF LazyResolve, LinkType
    <3>2. CASE r = s
      <4>1. got'[s][v] \in {got[s][v], Current(Dst[s])}
        BY <3>1, <3>2, Zenon
      <4>2. back'[s][v] = 0
        BY <3>1, <3>2, Zenon DEF BackInv
      <4> QED BY <1>0, <2>0, <4>1, <4>2
    <3>3. CASE r # s
      BY <1>0, <2>0, <3>1, <3>3
    <3> QED BY <3>2, <3>3, Zenon
  <2> QED BY <1>0, <1>2, <2>0, <2>1, <2>2, <2>3, LinkFrame
<1> QED BY <1>1, <1>2, Zenon

(* Every step keeps the relocation cache and the memory in agreement.      *)
LEMMA NextCacheMatchesMemory ==
  ASSUME TypeOK, BackInv, FreshInv, CacheMatchesMemory, [Next]_vars
  PROVE  CacheMatchesMemory'
<1> USE ConstantsAssumption, VersionFacts
<1> SUFFICES ASSUME NEW s \in Site, NEW v \in Version, v = Current(Src[s])',
                    reloc'[s][v] # 0
             PROVE  reloc'[s][v] = IF back'[s][v] # 0 THEN back'[s][v] ELSE got'[s][Cell(s, v)]
  <2>1. \A s \in Site : Current(Src[s])' \in Version
    BY NextTypeOK, Zenon DEF TypeOK, ChainType
  <2> QED BY <2>1, Zenon DEF CacheMatchesMemory, Cell
<1> DEFINE Agrees == reloc'[s][v] = IF back'[s][v] # 0 THEN back'[s][v] ELSE got'[s][Cell(s, v)]
<1>0. /\ ChainType /\ LinkType /\ Src[s] \in File /\ Cell(s, v) \in Version
      /\ reloc \in [Site -> [Version -> Target]] /\ got \in [Site -> [Version -> Target]]
  BY Zenon DEF TypeOK, LinkType, Cell
<1>1. ASSUME NEW f \in File, NEW b \in Build, LoadUpdate(f, b) PROVE Agrees
  <2>1. phase = "idle" /\ back' = back
    BY <1>0, <1>1, LoadChangesChain, LoadChangesLinks, Zenon
  <2>2. back'[s][v] = 0 /\ back[s][v] = 0
    BY <2>1, Zenon DEF BackInv
  <2>3. CASE Src[s] = f
    <3>1. v = Current(f) + 1 /\ v > Current(Src[s])
      BY <1>0, <1>1, <2>3, LoadChangesChain, LatestIsBuild
    <3>2. reloc[s][v] = 0
      BY <3>1, Zenon DEF FreshInv
    <3> QED BY <1>1, <2>2, <2>3, <3>1, <3>2, LoadChangesLinks
  <2>4. CASE Src[s] # f
    <3>1. v = Current(Src[s])
      BY <1>0, <1>1, <2>4, LoadChangesChain, Zenon
    <3>2. reloc'[s][v] = reloc[s][v] /\ got'[s][Cell(s, v)] = got[s][Cell(s, v)]
      BY <1>0, <1>1, <2>4, LoadChangesLinks
    <3> QED BY <2>2, <3>1, <3>2, Zenon DEF CacheMatchesMemory
  <2> QED BY <2>3, <2>4, Zenon
<1>2. CASE ~ \E f \in File, b \in Build : LoadUpdate(f, b)
  <2>0. /\ v = Current(Src[s])
        /\ reloc[s][v] # 0 =>
             reloc[s][v] = IF back[s][v] # 0 THEN back[s][v] ELSE got[s][Cell(s, v)]
    <3>1. v = Current(Src[s])
      BY <1>2, OnlyLoadsChange, Zenon
    <3> QED BY <3>1, Zenon DEF CacheMatchesMemory
  <2>1. ASSUME NEW f \in File, UpdateFile(f) PROVE Agrees
    <3> DEFINE Rebound == \E w \in Version : <<s, w>> \in Relinked(f) /\ InPlace(s, w)
                                             /\ Cell(s, w) = Cell(s, v)
    <3>1. got'[s][Cell(s, v)] = IF Rebound THEN Current(Dst[s]) ELSE got[s][Cell(s, v)]
      BY <1>0, <2>1, Zenon DEF UpdateFile
    <3>2. Rebound <=> <<s, v>> \in Relinked(f) /\ InPlace(s, v)
      <4>1. ASSUME NEW w \in Version, <<s, w>> \in Relinked(f), Cell(s, w) = Cell(s, v)
            PROVE  w = v
        BY <2>0, <4>1, Zenon DEF Relinked, Cell
      <4> QED BY Zenon, <4>1
    <3>3. /\ reloc'[s][v] = IF <<s, v>> \in Relinked(f) THEN Current(Dst[s]) ELSE reloc[s][v]
          /\ back'[s][v] = IF <<s, v>> \in Relinked(f) /\ ~InPlace(s, v)
                           THEN Current(Dst[s]) ELSE back[s][v]
      BY <2>1, UpdateChangesLinks
    <3>4. InPlace(s, v) => back[s][v] = 0
      <4>1. applied[Src[s]] \in Nat /\ v \in Nat
        BY Zenon DEF TypeOK, ControlType
      <4> QED BY <4>1 DEF InPlace, BackInv
    <3>5. Current(Dst[s]) # 0
      BY <1>0, Zenon DEF ChainType
    <3> HIDE DEF Rebound
    <3> QED BY <2>0, <3>1, <3>2, <3>3, <3>4, <3>5, Zenon
  <2>2. ASSUME NEW f \in File, FinalizeFile(f) PROVE Agrees
    <3>1. /\ reloc' = reloc
          /\ \A w \in Version : got'[s][w] = IF Src[s] = f THEN Finalized(s, w) ELSE got[s][w]
          /\ back'[s][v] = IF Src[s] = f THEN 0 ELSE back[s][v]
      BY <2>2, Zenon DEF FinalizeFile
    <3>2. s \in Shared => back[s][v] = 0 /\ back[s][Cell(s, v)] = 0
      BY <1>0, Zenon DEF BackInv
    <3>3. s \notin Shared => Cell(s, v) = v
      BY Zenon DEF Cell
    <3> QED BY <1>0, <2>0, <3>1, <3>2, <3>3, Zenon DEF Finalized
  <2>3. ASSUME NEW r \in Site, LazyResolve(r) PROVE Agrees
    <3>1. /\ got' = [got EXCEPT ![r][1] = Current(Dst[r])]
          /\ reloc' = [reloc EXCEPT ![r][plt[Src[r]]] = Current(Dst[r])]
          /\ back' = back /\ r \in Shared /\ got[r][1] = 0
      BY <2>3, Zenon DEF LazyResolve
    <3>2. CASE r = s
      <4>1. back[s][v] = 0 /\ Cell(s, v) = 1
        BY <3>1, <3>2, Zenon DEF BackInv, Cell
      <4>2. got'[s][1] = Current(Dst[s])
        BY <1>0, <3>1, <3>2, Zenon
      <4>3. reloc'[s][v] = Current(Dst[s]) \/ reloc'[s][v] = reloc[s][v]
        BY <1>0, <3>1, <3>2, Zenon
      <4>4. reloc[s][v] = 0
        BY <2>0, <3>1, <3>2, <4>1, Zenon
      <4> QED BY <3>1, <4>1, <4>2, <4>3, <4>4, Zenon
    <3>3. CASE r # s
      BY <1>0, <2>0, <3>1, <3>3, Zenon
    <3> QED BY <3>2, <3>3, Zenon
  <2> QED BY <1>2, <2>0, <2>1, <2>2, <2>3, LinkFrame, Zenon
<1> QED BY <1>1, <1>2, Zenon

-----------------------------------------------------------------------------
(* The theorems.                                                           *)

Inv ==
  /\ TypeOK /\ LockInv /\ LinkInv /\ HookInv /\ TrampolineInv
  /\ LoadedInv /\ FreshInv /\ BackInv /\ CellInv /\ CacheMatchesMemory
  /\ PointInv /\ OutdatedInv /\ DropInv

(* The inductive invariant holds when the process has started.             *)
LEMMA InitInv == Init => Inv
<1> SUFFICES ASSUME Init PROVE Inv
  BY Zenon
<1> USE ConstantsAssumption, VersionFacts
<1>1. TypeOK
  BY InitTypeOK, Zenon
<1>2. \A f \in File : Current(f) = 1
  <2> SUFFICES ASSUME NEW f \in File PROVE Current(f) = 1
    BY Zenon
  <2>1. PICK b \in Initial : chain[f] = <<b>>
    BY DEF Init
  <2> QED BY <2>1 DEF Current
<1>3. \A s \in Site, v \in Version :
        /\ reloc[s][v] \in {0, 1} /\ (v # 1 => reloc[s][v] = 0)
        /\ got[s][v] = reloc[s][v] /\ back[s][v] = 0 /\ tramp[s][v] = 0
  BY Zenon DEF Init
<1>4. LockInv /\ HookInv
  BY <1>2, Zenon DEF Init, LockInv, HookInv, Refreshed
<1>5. LinkInv /\ TrampolineInv /\ FreshInv /\ BackInv /\ CellInv
  BY <1>2, <1>3 DEF LinkInv, TrampolineInv, FreshInv, BackInv, CellInv
<1>6. LoadedInv
  BY <1>2 DEF Init, LoadedInv
<1>7. CacheMatchesMemory
  BY <1>2, <1>3 DEF CacheMatchesMemory, Cell
<1>8. PointInv /\ OutdatedInv
  <2>1. \A f \in File : hook[f].update_point => chain[f][1] \in Point
    BY Zenon DEF Init, Refreshed
  <2> QED BY <1>2, <2>1 DEF Init, PointInv, OutdatedInv
<1>9. DropInv
  <2>1. \A s \in Site : reloc[s][1] # 0 => Resolves(s)
    BY Zenon DEF Init
  <2> QED BY <1>2, <2>1, Zenon DEF Init, DropInv
<1> QED BY <1>1, <1>4, <1>5, <1>6, <1>7, <1>8, <1>9, Zenon DEF Inv

(* The inductive invariant is preserved by every step of the loader and    *)
(* the application.                                                        *)
LEMMA NextInv == Inv /\ [Next]_vars => Inv'
  BY Zenon, NextTypeOK, NextLockInv, NextLinkInv, NextHookInv, NextTrampolineInv, NextLoadedInv,
     NextFreshInv, NextBackInv, NextCellInv, NextCacheMatchesMemory,
     NextPointInv, NextOutdatedInv, NextDropInv DEF Inv

(* The inductive invariant holds in every reachable state of the update    *)
(* cycle.                                                                  *)
THEOREM Invariance == Spec => []Inv
  BY InitInv, NextInv, PTL DEF Spec

(* Type correctness of the update cycle.                                   *)
THEOREM TypeCorrect == Spec => []TypeOK
  BY Invariance, PTL DEF Inv

(* A quiescent process is linked to the latest version that still defines  *)
(* the symbol (Loader::update).                                            *)
THEOREM LinksCorrect == Spec => []LinksFollowCurrent
<1>1. Inv => LinksFollowCurrent
  <2> SUFFICES ASSUME Inv, Quiescent, NEW s \in Site
               PROVE  reloc[s][Current(Src[s])] \in {0, Current(Dst[s])} \/ ~Resolves(s)
    BY Zenon DEF LinksFollowCurrent
  <2>1. phase = "idle" /\ ~updated /\ ~pending
    BY ConstantsAssumption, Zenon DEF Inv, LockInv, Quiescent, TypeOK, ControlType
  <2>2. Current(Src[s]) \in Version
    BY ConstantsAssumption, Zenon DEF Inv, TypeOK, ChainType
  <2> QED BY <2>1, <2>2, Zenon DEF Inv, LinkInv, Settled, Clean, Refreshes
<1> QED BY <1>1, Invariance, PTL

(* As long as no version has an update point, no symbol in use is dropped  *)
(* (ObjectDynamic::patchable): in a quiescent process each relocation of a *)
(* latest version leads to a latest version.                               *)
THEOREM NothingIsDropped == Spec => []NothingDropped
<1>1. Inv /\ LinksFollowCurrent => NothingDropped
  BY Zenon DEF Inv, DropInv, LinksFollowCurrent, NothingDropped
<1> QED BY <1>1, Invariance, LinksCorrect, PTL

(* Without update points, code that filemodification_protect withdraws is  *)
(* code no relocation of a latest version leads to.                        *)
THEOREM WithdrawnCorrect == Spec => []WithdrawnIsUnlinked
<1>1. Inv /\ NothingDropped => WithdrawnIsUnlinked
  <2> SUFFICES ASSUME Inv, NothingDropped, Quiescent, NoPoint,
                      NEW s \in Site, NEW v \in Version, <<Dst[s], v>> \in disabled
               PROVE  reloc[s][Current(Src[s])] # v
    BY Zenon DEF WithdrawnIsUnlinked
  <2>1. v < Current(Dst[s]) /\ Dst[s] \in File
    BY ConstantsAssumption, Zenon DEF Inv, OutdatedInv
  <2>2. reloc[s][Current(Src[s])] \in {0, Current(Dst[s])}
    BY Zenon DEF NothingDropped
  <2>3. Current(Dst[s]) \in Nat /\ v \in Nat /\ v # 0
    BY <2>1, VersionFacts, Zenon DEF Inv, TypeOK, ChainType
  <2> QED BY <2>1, <2>2, <2>3
<1> QED BY <1>1, Invariance, NothingIsDropped, PTL

(* A quiescent process has announced its latest versions to their hooks.   *)
THEOREM HooksCorrect == Spec => []HooksFollowCurrent
<1>1. Inv => HooksFollowCurrent
  BY Zenon, ConstantsAssumption
     DEF Inv, LockInv, HookInv, Settled, Clean, Quiescent, HooksFollowCurrent
<1> QED BY <1>1, Invariance, PTL

(* A quiescent process jumps through trampolines to the latest versions.   *)
THEOREM TrampolinesCorrect == Spec => []TrampolinesFollowCurrent
<1>1. Inv => TrampolinesFollowCurrent
  BY Zenon, ConstantsAssumption
     DEF Inv, LockInv, TrampolineInv, Clean, Quiescent, TrampolinesFollowCurrent
<1> QED BY <1>1, Invariance, PTL

(* The relocation cache always agrees with memory (or its new content).    *)
THEOREM CacheCorrect == Spec => []CacheMatchesMemory
  BY Invariance, PTL DEF Inv

(* No step binds a cell to an older version.                               *)
THEOREM ForwardOnly == Spec => CellsMoveForward
<1>1. Inv /\ [Next]_vars => [\A s \in Site, v \in Version : got'[s][v] >= got[s][v]]_vars
  BY NextCellInv, Zenon DEF Inv
<1> QED BY <1>1, Invariance, PTL DEF Spec, CellsMoveForward

(* Read-only memory in use changes in finalize only.                       *)
THEOREM ReadOnlyWaits == Spec => ReadOnlyCellsWait
<1>1. ASSUME Inv, [Next]_vars, NEW s \in Site \ Shared, NEW v \in Version,
             v <= applied[Src[s]], got'[s][v] # got[s][v]
      PROVE  phase = "finalize"
  <2> USE ConstantsAssumption, VersionFacts
  <2>0. /\ TypeOK /\ Src[s] \in File
        /\ applied[Src[s]] \in Nat /\ Current(Src[s]) \in Nat
        /\ applied[Src[s]] <= Current(Src[s])
    BY <1>1, Zenon DEF Inv, TypeOK, ControlType, ChainType, LoadedInv
  <2>1. ASSUME NEW f \in File, NEW b \in Build, LoadUpdate(f, b) PROVE FALSE
    <3>1. Src[s] = f /\ v = Current(f) + 1
      BY <1>1, <2>0, <2>1, LoadChangesLinks DEF Cell
    <3> QED BY <1>1, <2>0, <3>1
  <2>2. ASSUME NEW f \in File, UpdateFile(f) PROVE FALSE
    <3> DEFINE Rebound == \E w \in Version : <<s, w>> \in Relinked(f) /\ InPlace(s, w)
                                             /\ Cell(s, w) = v
    <3>1. got'[s][v] = IF Rebound THEN Current(Dst[s]) ELSE got[s][v]
      BY <2>2, Zenon DEF UpdateFile
    <3>2. PICK w \in Version : InPlace(s, w) /\ Cell(s, w) = v
      BY Zenon, <1>1, <3>1
    <3> QED BY <1>1, <2>0, <3>2 DEF InPlace, Cell
  <2>3. ASSUME NEW f \in File, FinalizeFile(f) PROVE phase = "finalize"
    BY <2>3, Zenon DEF FinalizeFile
  <2>4. ASSUME NEW r \in Site, LazyResolve(r) PROVE FALSE
    <3>1. r # s /\ got' = [got EXCEPT ![r][1] = Current(Dst[r])]
      BY <2>4, Zenon DEF LazyResolve
    <3> QED BY <1>1, <2>0, <3>1, Zenon DEF TypeOK, LinkType
  <2> QED BY <1>1, <2>1, <2>2, <2>3, <2>4, LinkFrame, Zenon
<1>2. Inv /\ [Next]_vars =>
        [\A s \in Site \ Shared, v \in Version :
           (v <= applied[Src[s]] /\ got'[s][v] # got[s][v]) => phase = "finalize"]_vars
  BY <1>1, Zenon
<1> QED BY <1>2, Invariance, PTL DEF Spec, ReadOnlyCellsWait

(* The second of two threads that saw the same pending update changes no   *)
(* link.                                                                   *)
THEOREM RedundantUpdate == Spec => RedundantUpdateHarmless
<1>1. ASSUME Inv, [Next]_vars, phase # "idle", lock \in Thread, ~pending,
             phaseVars' # phaseVars
      PROVE  UNCHANGED links
  <2> USE ConstantsAssumption, VersionFacts
  <2>0. /\ TypeOK /\ ChainType /\ LinkType /\ Clean /\ lock # NoOne /\ lock # Helper
        /\ reloc = [s \in Site |-> [v \in Version |-> reloc[s][v]]]
        /\ got = [s \in Site |-> [v \in Version |-> got[s][v]]]
        /\ back = [s \in Site |-> [v \in Version |-> back[s][v]]]
        /\ tramp = [s \in Site |-> [v \in Version |-> tramp[s][v]]]
    BY <1>1 DEF Inv, TypeOK, LinkType, Clean, LockInv
  <2>1. \A s \in Site, v \in Version : back[s][v] = 0
    BY <1>1, <2>0, Zenon DEF Inv, BackInv
  <2>2. ASSUME NEW f \in File, UpdateFile(f) PROVE UNCHANGED links
    <3>1. \A s \in Site, v \in Version : <<s, v>> \notin Relinked(f)
      <4> SUFFICES ASSUME NEW s \in Site, NEW v \in Version, <<s, v>> \in Relinked(f)
                   PROVE  FALSE
        BY Zenon
      <4>1. /\ Refreshes(s, v)
            /\ ~(reloc[s][v] \in {0, Current(Dst[s])} \/ ~Resolves(s))
        BY Zenon DEF Relinked, Refreshes
      <4> QED BY <1>1, <2>0, <4>1, Zenon DEF Inv, LinkInv, Settled
    <3>2. /\ reloc' = [s \in Site |-> [v \in Version |-> reloc[s][v]]]
          /\ got' = [s \in Site |-> [v \in Version |-> got[s][v]]]
          /\ back' = [s \in Site |-> [v \in Version |-> back[s][v]]]
          /\ plt' = plt /\ tramp' = tramp
      BY Zenon, <2>2, <3>1 DEF UpdateFile
    <3> QED BY <2>0, <3>2, Zenon DEF links
  <2>3. ASSUME NEW f \in File, FinalizeFile(f) PROVE UNCHANGED links
    <3>1. \A s \in Site, v \in Version : Finalized(s, v) = got[s][v]
      BY <2>1, Zenon DEF Finalized
    <3>2. got' = [s \in Site |-> [v \in Version |-> got[s][v]]]
      BY <2>3, <3>1, Zenon DEF FinalizeFile
    <3>3. back' = [s \in Site |-> [v \in Version |-> back[s][v]]]
      <4>1. \A s \in Site : back[s] = [v \in Version |-> 0]
        <5> SUFFICES ASSUME NEW s \in Site PROVE back[s] = [v \in Version |-> 0]
          BY Zenon
        <5>1. back[s] = [v \in Version |-> back[s][v]]
          BY <2>0, Zenon
        <5> QED BY <2>1, <5>1, Zenon
      <4>2. back' = [s \in Site |-> back[s]]
        BY <2>3, <4>1, Zenon DEF FinalizeFile
      <4> QED BY <2>0, <4>2, Zenon
    <3>4. UNCHANGED <<reloc, plt, tramp>>
      BY <2>3, Zenon DEF FinalizeFile
    <3> QED BY <2>0, <3>2, <3>3, <3>4, Zenon DEF links
  <2>4. CASE UpdateTrampolines
    <3>1. \A s \in Site, v \in Version : TrampolineTarget(s, v) = tramp[s][v]
      BY <1>1, <2>0, Zenon DEF Inv, TrampolineInv, TrampolineTarget
    <3>2. tramp' = [s \in Site |-> [v \in Version |-> tramp[s][v]]]
      BY <2>4, <3>1, Zenon DEF UpdateTrampolines
    <3> QED BY <2>0, <2>4, <3>2, Zenon DEF UpdateTrampolines, links
  <2>5. CASE UpdateEnd
    BY <2>5, Zenon DEF UpdateEnd
  <2>6. CASE LoadBegin \/ HelperStep
    BY Zenon, <2>0, <2>6 DEF LoadBegin, HelperStep, LoadUpdate, LoadRejected, LoadEnd, Loading
  <2>7. CASE \E t \in Thread : UpdatePoint(t) \/ UpdateEnter(t)
    BY <2>7, Zenon DEF UpdatePoint, UpdateEnter
  <2>8. CASE Other
    BY <1>1, <2>8, OtherFrame, Zenon DEF phaseVars
  <2>9. CASE UNCHANGED vars
    BY <2>9, Zenon DEF vars, links
  <2> QED BY <1>1, <2>2, <2>3, <2>4, <2>5, <2>6, <2>7, <2>8, <2>9, Zenon DEF Next, UpdateStep, Other
<1>2. Inv /\ [Next]_vars =>
        [(phase # "idle" /\ lock \in Thread /\ ~pending /\ phaseVars' # phaseVars)
           => UNCHANGED links]_vars
  BY <1>1, Zenon
<1> QED BY <1>2, Invariance, PTL DEF Spec, RedundantUpdateHarmless

(* The update cycle implements Versions: new versions are loaded one by    *)
(* one, the process switches to all of them in one step.                   *)
THEOREM Refinement == Spec => SwitchesAtOnce
<1> DEFINE loaded == [f \in File |-> Current(f)]
           linked == [f \in File |-> IF phase = "finalize" THEN Current(f) ELSE applied[f]]
<1> USE ConstantsAssumption, VersionFacts
<1>1. Init => Abstract!Init
  <2> SUFFICES ASSUME Init PROVE Abstract!Init
    BY Zenon
  <2>1. \A f \in File : Current(f) = 1
    <3> SUFFICES ASSUME NEW f \in File PROVE Current(f) = 1
      BY Zenon
    <3>1. PICK b \in Initial : chain[f] = <<b>>
      BY DEF Init
    <3> QED BY <3>1 DEF Current
  <2>2. phase = "idle" /\ applied = [f \in File |-> 1]
    BY Zenon DEF Init
  <2> QED BY <2>1, <2>2, Zenon DEF Abstract!Init
<1>2. Inv /\ [Next]_vars => [Abstract!Next]_(Abstract!vars)
  <2> SUFFICES ASSUME Inv, [Next]_vars
               PROVE  Abstract!Next \/ (loaded' = loaded /\ linked' = linked)
    BY Zenon DEF Abstract!vars
  <2>0. TypeOK /\ ChainType /\ ControlType
    BY Zenon DEF Inv, TypeOK
  <2>1. ASSUME NEW f \in File, NEW b \in Build, LoadUpdate(f, b) PROVE Abstract!Load(f)
    <3>1. /\ Current(f)' = Current(f) + 1
          /\ \A g \in File \ {f} : Current(g)' = Current(g)
          /\ phase' = "idle" /\ phase = "idle" /\ applied' = applied
      BY Zenon, <2>0, <2>1, LoadChangesChain DEF LoadUpdate
    <3>2. loaded' = [loaded EXCEPT ![f] = @ + 1]
      BY Zenon, <3>1
    <3>3. linked' = linked
      BY <3>1, Zenon
    <3> QED BY <3>2, <3>3, Zenon DEF Abstract!Load
  <2>2. CASE UpdateTrampolines
    <3>1. phase' = "finalize" /\ chain' = chain
      BY <2>2, Zenon DEF UpdateTrampolines
    <3>2. linked' = loaded /\ loaded' = loaded
      BY <3>1, Zenon DEF Current
    <3> QED BY <3>2, Zenon DEF Abstract!Next, Abstract!Switch
  <2>3. CASE ~UpdateTrampolines /\ ~ \E f \in File, b \in Build : LoadUpdate(f, b)
    <3>1. chain' = chain /\ \A f \in File : Current(f)' = Current(f)
      BY <2>3, OnlyLoadsChange, Zenon
    <3>2. \A g \in File : linked'[g] = linked[g]
      <4> SUFFICES ASSUME NEW g \in File
                   PROVE  (IF phase' = "finalize" THEN Current(g)' ELSE applied'[g])
                          = (IF phase = "finalize" THEN Current(g) ELSE applied[g])
        BY Zenon
      <4> USE DEF phaseVars
      <4>1. CASE LoadBegin
        BY <3>1, <4>1, Zenon DEF LoadBegin
      <4>2. CASE HelperStep
        BY <2>3, <3>1, <4>2, Zenon DEF HelperStep, LoadRejected, LoadEnd, Defer, Loading
      <4>3. ASSUME NEW f \in File, UpdateFile(f) PROVE UNCHANGED <<phase, applied>>
        BY <4>3, Zenon DEF UpdateFile
      <4>4. ASSUME NEW f \in File, FinalizeFile(f) PROVE phase = "finalize" /\ phase' = "finalize"
        BY <4>4, Zenon DEF FinalizeFile
      <4>5. CASE UpdateEnd
        <5>1. applied[g] = Current(g)
          BY <4>5, Zenon DEF UpdateEnd, Inv, LoadedInv
        <5> QED BY <3>1, <4>5, <5>1, Zenon DEF UpdateEnd
      <4>6. CASE \E t \in Thread : UpdatePoint(t) \/ UpdateEnter(t)
        <5>1. \/ phase # "finalize" /\ phase' # "finalize" /\ applied' = applied
              \/ UNCHANGED <<phase, applied>>
          BY <4>6, Zenon DEF UpdatePoint, UpdateEnter, Inv, LockInv
        <5> QED BY <3>1, <5>1, Zenon
      <4>7. CASE Other
        BY <3>1, <4>7, OtherFrame, Zenon
      <4>8. CASE UNCHANGED vars
        BY <3>1, <4>8, Zenon DEF vars
      <4> QED BY Zenon, <2>3, <3>1, <4>1, <4>2, <4>3, <4>4, <4>5, <4>6, <4>7, <4>8
              DEF Next, UpdateStep, Other
    <3> QED BY <3>1, <3>2, Zenon
  <2> QED BY <2>1, <2>2, <2>3, Zenon DEF Abstract!Next
<1> QED BY <1>1, <1>2, Invariance, PTL DEF Spec, SwitchesAtOnce, Abstract!Spec
=============================================================================
