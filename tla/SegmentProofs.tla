--------------------------- MODULE SegmentProofs ---------------------------
(***************************************************************************)
(* Proofs about Segment, for any number of threads, patches and updates.   *)
(*                                                                         *)
(* CodeKept is not inductive: that disable() keeps every patch depends on  *)
(* where the helper thread is, on who holds lookup_sync, and on finalize() *)
(* having emptied the back buffer of a mapped segment by the end of the    *)
(* last update.  Inv states these facts.                                   *)
(***************************************************************************)
EXTENDS Segment, TLAPS

\* What the fields of the segment say about each other.
SegInv ==
    /\ seg.status = "NOT_MAPPED" <=> seg.page = Unmapped
    /\ seg.status = "NOT_MAPPED" =>
            seg.buffer = NoBuffer /\ ~seg.privanon /\ patches = 0
    /\ seg.status = "INACTIVE" => seg.buffer # NoBuffer
    /\ seg.page = Missing => seg.status = "INACTIVE"
    /\ seg.buffer # NoBuffer => ~seg.writable

\* The phases of a version: a version in use is mapped and read-only.
PhaseInv ==
    /\ linked => started /\ ~seg.writable /\ seg.status # "NOT_MAPPED"
    /\ successor # "none" => started /\ seg.status # "NOT_MAPPED"
    /\ successor # "handled" => seg.status \in {"NOT_MAPPED", "MAPPED"}

\* Who holds the lock, and what the helper thread relies on in its steps.
HelperInv ==
    /\ lock = "helper" <=> helper \in {"update", "replace", "move"}
    /\ lock = "app" => started /\ seg.status # "NOT_MAPPED"
    /\ helper # "idle" => started /\ seg.status # "NOT_MAPPED"
    /\ helper \in {"replace", "move"} =>
            seg.status = "MAPPED" /\ successor = "handled"
    /\ helper = "replace" => seg.buffer # NoBuffer \/ seg.writable
    /\ helper = "move" => seg.buffer = NoBuffer
    /\ helper = "copy" => /\ seg.status = "INACTIVE" /\ seg.page = Missing
                          /\ src = "buffer"
    /\ helper = "mark" => seg.status = "INACTIVE" /\ seg.page # Missing
    /\ \A t \in Thread : thread[t] = "fault" => seg.page = Missing
    /\ seg.status = "INACTIVE" /\ helper # "mark" => seg.page = Missing

\* Outside of an update, a mapped segment with a back buffer has been patched
\* by fix() only, and never been finalized.
BufferInv ==
    seg.status = "MAPPED" /\ seg.privanon /\ seg.buffer # NoBuffer =>
        lock = "app" \/ helper = "update"

\* The executed contents are not ahead of those that can be executed next.
RanInv ==
    /\ ran <= patches
    /\ seg.buffer # NoBuffer => ran <= seg.buffer /\ seg.buffer <= patches
    /\ seg.page \in Content => ran <= seg.page /\ seg.page <= patches
    /\ seg.buffer # NoBuffer /\ seg.page \in Content => seg.page <= seg.buffer

Inv ==
    /\ TypeOK /\ SegInv /\ PhaseInv /\ HelperInv /\ BufferInv /\ RanInv
    /\ CodeKept

-----------------------------------------------------------------------------
(* What the operations do to the fields.                                   *)

\* map() of a segment that has no mapping yet.
LEMMA MapFields ==
    ASSUME NEW s \in MemorySegment, s.page = Unmapped, copied \in BOOLEAN
    PROVE  /\ map(s) \in MemorySegment
           /\ map(s).status = "MAPPED" /\ map(s).page = 0
           /\ map(s).writable = copied
           /\ map(s).buffer = s.buffer /\ map(s).privanon = s.privanon
<1> DEFINE m == [s EXCEPT !.status = "MAPPED", !.page = 0, !.writable = copied]
<1>1. map(s) = m
  BY Zenon DEF map
<1>0. 0 \in Content
  BY SegmentAssumption DEF Content
<1>2. m \in MemorySegment
  BY Zenon, <1>0 DEF MemorySegment, Status
<1>3. /\ m.status = "MAPPED" /\ m.page = 0 /\ m.writable = copied
      /\ m.buffer = s.buffer /\ m.privanon = s.privanon
  BY Zenon DEF MemorySegment
<1> QED
  BY <1>1, <1>2, <1>3, Zenon

\* compose() of a segment with contents, and of one that is withdrawn.
LEMMA ComposeFields ==
    ASSUME NEW s \in MemorySegment, started \in BOOLEAN,
           s.page # Unmapped, s.page = Missing => s.buffer # NoBuffer
    PROVE  /\ compose(s) \in MemorySegment
           /\ compose(s).status = s.status /\ compose(s).page = s.page
           /\ compose(s).privanon = s.privanon
           /\ s.buffer # NoBuffer => compose(s) = s
           /\ s.writable => compose(s) = s
           /\ started => compose(s).writable = s.writable
           /\ s.buffer = NoBuffer /\ s.status = "MAPPED" =>
                  compose(s).buffer = s.page \/ compose(s).buffer = NoBuffer
           /\ s.buffer = NoBuffer /\ s.status = "MAPPED" =>
                  (compose(s).buffer = NoBuffer <=> compose(s).writable)
           /\ s.buffer = NoBuffer /\ s.status # "MAPPED" => compose(s) = s
BY Zenon DEF compose, map, MemorySegment, Status, Content, Unmapped, Missing,
    NoBuffer

\* The patch goes to the back buffer if there is one.
LEMMA PatchedFields ==
    ASSUME NEW s \in MemorySegment, patches \in Content, patches < MaxPatches
    PROVE  /\ Patched(s) \in MemorySegment
           /\ Patched(s).status = s.status
           /\ Patched(s).writable = s.writable
           /\ Patched(s).privanon = s.privanon
           /\ s.buffer # NoBuffer => /\ Patched(s).buffer = patches + 1
                                     /\ Patched(s).page = s.page
           /\ s.buffer = NoBuffer => /\ Patched(s).buffer = NoBuffer
                                     /\ Patched(s).page = patches + 1
BY SegmentAssumption DEF Patched, MemorySegment, Status, Content, Unmapped,
    Missing, NoBuffer

\* finalize() replaces the memory by the back buffer and resets protection,
\* unless the segment is withdrawn or not mapped.
LEMMA FinalizeFields ==
    ASSUME NEW s \in MemorySegment
    PROVE  /\ finalize(s) \in MemorySegment
           /\ finalize(s).status = s.status
           /\ s.status \in {"INACTIVE", "NOT_MAPPED"} => finalize(s) = s
           /\ s.status \in {"MAPPED", "REACTIVATED"} =>
                  /\ finalize(s).buffer = NoBuffer
                  /\ finalize(s).writable = FALSE
                  /\ s.buffer # NoBuffer => finalize(s).page = s.buffer
                  /\ s.buffer = NoBuffer => finalize(s).page = s.page
BY Zenon DEF finalize, MemorySegment, Status, Content, Unmapped, Missing, NoBuffer

\* The last step of disable() moves the contents into the back buffer.
LEMMA MovedFields ==
    ASSUME NEW s \in MemorySegment, s.page \in Content
    PROVE  /\ Moved(s) \in MemorySegment
           /\ Moved(s).status = "INACTIVE" /\ Moved(s).page = Missing
           /\ Moved(s).buffer = s.page /\ Moved(s).writable = FALSE
BY Zenon DEF Moved, MemorySegment, Status, Content, Unmapped, Missing, NoBuffer

-----------------------------------------------------------------------------
(* The invariant is established and kept by every action.                  *)

\* No segment is mapped yet, and nobody is at work.
LEMMA InitInv ==
    Init => Inv
<1> SUFFICES ASSUME Init PROVE Inv
  BY Zenon
<1>0. 0 \in Content
  BY SegmentAssumption DEF Content
<1>1. seg \in MemorySegment
  BY Zenon DEF Init, MemorySegment, Status
<1>2. TypeOK
  <2>1. /\ copied \in BOOLEAN /\ started \in BOOLEAN /\ linked \in BOOLEAN
        /\ successor \in {"none", "loaded", "handled"}
        /\ lock \in {"none", "app", "helper"}
        /\ helper \in {"idle", "update", "replace", "move", "copy", "mark"}
        /\ spare \in BOOLEAN /\ src \in {"buffer", "source"}
        /\ wild \in BOOLEAN
    BY Zenon DEF Init
  <2>2. patches \in Content /\ ran \in Content /\ updates \in 0 .. MaxUpdates
    BY <1>0, SegmentAssumption DEF Init
  <2>3. thread \in [Thread -> {"run", "fault"}]
    BY Zenon DEF Init
  <2> QED
    BY <1>1, <2>1, <2>2, <2>3, Zenon DEF TypeOK
<1> QED
  BY <1>0, <1>2 DEF Init, Inv, SegInv, PhaseInv, HelperInv, BufferInv, RanInv,
     CodeKept, Content, Unmapped, Missing, NoBuffer

\* map() and a first patch by fix().
LEMMA LoadInv ==
    ASSUME Inv, Load
    PROVE  Inv'
<1>0. /\ seg.page = Unmapped /\ seg.buffer = NoBuffer /\ patches = 0
      /\ ~seg.privanon
      /\ seg \in MemorySegment /\ copied \in BOOLEAN /\ started \in BOOLEAN
      /\ ~linked /\ successor = "none"
  BY Zenon DEF Inv, TypeOK, Load, SegInv, PhaseInv
<1>a. /\ copied' \in BOOLEAN /\ started' \in BOOLEAN /\ linked' \in BOOLEAN
      /\ successor' \in {"none", "loaded", "handled"}
      /\ updates' \in 0 .. MaxUpdates
      /\ lock' \in {"none", "app", "helper"}
      /\ helper' \in {"idle", "update", "replace", "move", "copy", "mark"}
      /\ spare' \in BOOLEAN /\ src' \in {"buffer", "source"}
      /\ thread' \in [Thread -> {"run", "fault"}]
      /\ ran' \in Content /\ wild' \in BOOLEAN
  BY Zenon DEF Inv, TypeOK, Load
<1> DEFINE m == map(seg)
<1>1. /\ m \in MemorySegment /\ m.status = "MAPPED" /\ m.page = 0
      /\ m.writable = copied /\ m.buffer = NoBuffer
      /\ m.privanon = seg.privanon
  BY <1>0, MapFields, Zenon
<1>2. CASE seg' = m /\ UNCHANGED patches
  <2>1. TypeOK'
    BY <1>a, <1>1, <1>2, Zenon DEF Inv, TypeOK
  <2> QED
    BY <1>0, <1>1, <1>2, <2>1 DEF Inv, TypeOK, Load, SegInv, PhaseInv, HelperInv, BufferInv,
     RanInv, CodeKept, Content, Unmapped, Missing, NoBuffer
<1>3. CASE /\ patches < MaxPatches
           /\ seg' = Patched(compose(m))
           /\ patches' = patches + 1
  <2> DEFINE c == compose(m)
  <2>1. /\ c \in MemorySegment /\ c.status = "MAPPED" /\ c.page = 0
        /\ c.privanon = seg.privanon
        /\ c.buffer = 0 \/ c.buffer = NoBuffer
        /\ c.buffer = NoBuffer <=> c.writable
    BY <1>0, <1>1, ComposeFields DEF Unmapped, Missing
  <2>2. /\ seg' \in MemorySegment /\ seg'.status = "MAPPED"
        /\ seg'.writable = c.writable /\ seg'.privanon = c.privanon
        /\ c.buffer # NoBuffer => seg'.buffer = 1 /\ seg'.page = 0
        /\ c.buffer = NoBuffer => seg'.buffer = NoBuffer /\ seg'.page = 1
    BY <1>0, <1>3, <2>1, PatchedFields DEF Inv, TypeOK
  <2>3. patches' \in Content
    BY <1>0, <1>3, SegmentAssumption DEF Content
  <2>4. TypeOK'
    BY <1>a, <2>2, <2>3, Zenon DEF Inv, TypeOK
  <2> QED
    BY <1>0, <1>3, <2>1, <2>2, <2>4 DEF Inv, TypeOK, Load, SegInv, PhaseInv, HelperInv, BufferInv,
     RanInv, CodeKept, Content, Unmapped, Missing, NoBuffer
<1> QED
  BY <1>2, <1>3, Zenon DEF Load

\* The first finalize().
LEMMA StartInv ==
    ASSUME Inv, Start
    PROVE  Inv'
<1>1. /\ seg' \in MemorySegment /\ seg'.status = seg.status
      /\ seg.status = "INACTIVE" => seg' = seg
      /\ seg.status \in {"MAPPED", "REACTIVATED"} =>
             /\ seg'.buffer = NoBuffer /\ seg'.writable = FALSE
             /\ seg.buffer # NoBuffer => seg'.page = seg.buffer
             /\ seg.buffer = NoBuffer => seg'.page = seg.page
  BY Zenon, FinalizeFields DEF Inv, TypeOK, Start
<1>2. TypeOK'
  BY <1>1, Zenon DEF Inv, TypeOK, Start
<1>3. seg.status \in Status
  BY Zenon DEF Inv, TypeOK, MemorySegment
<1> QED
  BY <1>1, <1>2, <1>3 DEF Inv, TypeOK, Start, Updating, Status, MemorySegment,
     SegInv, PhaseInv, HelperInv, BufferInv,
     RanInv, CodeKept, Content, Unmapped, Missing, NoBuffer

\* A successor is loaded.
LEMMA SupersedeInv ==
    ASSUME Inv, Supersede
    PROVE  Inv'
BY SegmentAssumption DEF Inv, TypeOK, SegInv, PhaseInv, HelperInv, BufferInv,
    RanInv, CodeKept, Status, Content, Unmapped, Missing, NoBuffer,
    Supersede, segvars, Updating, MemorySegment

\* The lock is taken for an update.
LEMMA UpdateBeginInv ==
    ASSUME NEW who \in {"app", "helper"}, Inv, UpdateBegin(who)
    PROVE  Inv'
BY SegmentAssumption DEF Inv, TypeOK, SegInv, PhaseInv, HelperInv, BufferInv,
    RanInv, CodeKept, Status, Content, Unmapped, Missing, NoBuffer,
    UpdateBegin, segvars, Updating, MemorySegment

\* A patch, which fails after a reactivation.
LEMMA PatchInv ==
    ASSUME Inv, Patch
    PROVE  Inv'
<1> DEFINE c == compose(seg)
<1>a. /\ copied' \in BOOLEAN /\ started' \in BOOLEAN /\ linked' \in BOOLEAN
      /\ successor' \in {"none", "loaded", "handled"}
      /\ updates' \in 0 .. MaxUpdates
      /\ lock' \in {"none", "app", "helper"}
      /\ helper' \in {"idle", "update", "replace", "move", "copy", "mark"}
      /\ spare' \in BOOLEAN /\ src' \in {"buffer", "source"}
      /\ thread' \in [Thread -> {"run", "fault"}]
      /\ ran' \in Content
  BY Zenon DEF Inv, TypeOK, Patch
<1>0. /\ seg \in MemorySegment /\ started \in BOOLEAN /\ started
      /\ seg.page # Unmapped
      /\ seg.page = Missing => seg.buffer # NoBuffer
      /\ patches \in Content /\ patches + 1 \in Content
      /\ seg.status \in Status \ {"NOT_MAPPED"}
  BY SegmentAssumption DEF Inv, TypeOK, MemorySegment, Patch, Updating, SegInv,
     PhaseInv, Content
<1>1. /\ c \in MemorySegment /\ c.status = seg.status /\ c.page = seg.page
      /\ c.privanon = seg.privanon /\ c.writable = seg.writable
      /\ seg.buffer # NoBuffer => c = seg
      /\ seg.buffer = NoBuffer /\ seg.status = "MAPPED" =>
             /\ c.buffer = seg.page \/ c.buffer = NoBuffer
             /\ c.buffer = NoBuffer <=> c.writable
      /\ seg.buffer = NoBuffer /\ seg.status # "MAPPED" => c = seg
  BY <1>0, ComposeFields, Zenon
<1>2. CASE composed(c)
  <2>1. seg' = Patched(c) /\ wild' = wild
    BY <1>2, Zenon DEF Patch
  <2>2. /\ seg' \in MemorySegment /\ seg'.status = seg.status
        /\ seg'.writable = seg.writable /\ seg'.privanon = seg.privanon
        /\ c.buffer # NoBuffer => /\ seg'.buffer = patches + 1
                                  /\ seg'.page = seg.page
        /\ c.buffer = NoBuffer => /\ seg'.buffer = NoBuffer
                                  /\ seg'.page = patches + 1
    BY <1>0, <1>1, <2>1, PatchedFields, Zenon DEF Patch
  <2>3. TypeOK'
    BY <1>a, <1>0, <2>1, <2>2, Zenon DEF Inv, TypeOK, Patch
  <2> QED
    BY <1>0, <1>1, <1>2, <2>1, <2>2, <2>3 DEF Inv, TypeOK, MemorySegment,
     Status, Patch, Updating, composed, SegInv, PhaseInv, HelperInv, BufferInv,
     RanInv, CodeKept, Content, Unmapped, Missing, NoBuffer
<1>3. CASE ~composed(c)
  <2>1. seg' = seg /\ wild' = TRUE
    BY <1>0, <1>1, <1>3, Zenon DEF Patch, composed
  <2>2. TypeOK'
    BY <1>a, <1>0, <2>1, Zenon DEF Inv, TypeOK, Patch
  <2> QED
    BY <1>0, <2>1, <2>2 DEF Inv, TypeOK, MemorySegment, Status, Patch, SegInv, PhaseInv, HelperInv, BufferInv,
     RanInv, CodeKept, Content, Unmapped, Missing, NoBuffer
<1> QED
  BY <1>2, <1>3, Zenon

\* finalize() of an update.
LEMMA UpdateEndInv ==
    ASSUME Inv, UpdateEnd
    PROVE  Inv'
<1>1. /\ seg' \in MemorySegment /\ seg'.status = seg.status
      /\ seg.status = "INACTIVE" => seg' = seg
      /\ seg.status \in {"MAPPED", "REACTIVATED"} =>
             /\ seg'.buffer = NoBuffer /\ seg'.writable = FALSE
             /\ seg.buffer # NoBuffer => seg'.page = seg.buffer
             /\ seg.buffer = NoBuffer => seg'.page = seg.page
  BY Zenon, FinalizeFields DEF Inv, TypeOK, UpdateEnd
<1>2. TypeOK'
  BY <1>1, Zenon DEF Inv, TypeOK, UpdateEnd
<1>3. seg.status \in Status
  BY DEF Inv, TypeOK, MemorySegment
<1> QED
  BY <1>1, <1>2, <1>3 DEF Inv, TypeOK, UpdateEnd, Updating, Status, MemorySegment,
     SegInv, PhaseInv, HelperInv, BufferInv,
     RanInv, CodeKept, Content, Unmapped, Missing, NoBuffer

\* disable(): compose().
LEMMA DisableBeginInv ==
    ASSUME Inv, DisableBegin
    PROVE  Inv'
<1> DEFINE c == compose(seg)
<1>0. /\ seg \in MemorySegment /\ started \in BOOLEAN /\ started
      /\ seg.status = "MAPPED" /\ seg.page \in Content
  BY Zenon DEF Inv, TypeOK, MemorySegment, DisableBegin, SegInv, PhaseInv
<1>1. CASE seg.privanon
  <2>1. seg' = seg /\ spare' = TRUE /\ helper' = "move"
    BY Zenon, <1>1 DEF DisableBegin
  <2>2. TypeOK'
    BY <2>1, Zenon DEF Inv, TypeOK, DisableBegin
  <2> QED
    BY <1>0, <1>1, <2>1, <2>2 DEF Inv, TypeOK, DisableBegin, SegInv, PhaseInv, HelperInv, BufferInv,
     RanInv, CodeKept, Content, Unmapped, Missing, NoBuffer
<1>2. CASE ~seg.privanon
  <2>1. seg' = c /\ spare' = (c.buffer # NoBuffer) /\ helper' = "replace"
    BY <1>2, Zenon DEF DisableBegin
  <2>2. /\ c \in MemorySegment /\ c.status = seg.status /\ c.page = seg.page
        /\ c.privanon = seg.privanon /\ c.writable = seg.writable
        /\ seg.buffer # NoBuffer => c = seg
        /\ seg.buffer = NoBuffer =>
               /\ c.buffer = seg.page \/ c.buffer = NoBuffer
               /\ c.buffer = NoBuffer <=> c.writable
    BY <1>0, ComposeFields DEF Content, Unmapped, Missing
  <2>3. TypeOK'
    BY <2>1, <2>2, Zenon DEF Inv, TypeOK, DisableBegin
  <2> QED
    BY <1>0, <1>2, <2>1, <2>2, <2>3 DEF Inv, TypeOK, DisableBegin,
     SegInv, PhaseInv, HelperInv, BufferInv,
     RanInv, CodeKept, Content, Unmapped, Missing, NoBuffer
<1> QED
  BY <1>1, <1>2, Zenon

\* disable(): finalize().
LEMMA DisableReplaceInv ==
    ASSUME Inv, DisableReplace
    PROVE  Inv'
<1>1. /\ seg' \in MemorySegment /\ seg'.status = seg.status
      /\ seg.status = "INACTIVE" => seg' = seg
      /\ seg.status \in {"MAPPED", "REACTIVATED"} =>
             /\ seg'.buffer = NoBuffer /\ seg'.writable = FALSE
             /\ seg.buffer # NoBuffer => seg'.page = seg.buffer
             /\ seg.buffer = NoBuffer => seg'.page = seg.page
  BY Zenon, FinalizeFields DEF Inv, TypeOK, DisableReplace
<1>2. TypeOK'
  BY <1>1, Zenon DEF Inv, TypeOK, DisableReplace
<1>3. seg.status \in Status
  BY DEF Inv, TypeOK, MemorySegment
<1> QED
  BY <1>1, <1>2, <1>3 DEF Inv, TypeOK, DisableReplace, Updating, Status, MemorySegment,
     SegInv, PhaseInv, HelperInv, BufferInv,
     RanInv, CodeKept, Content, Unmapped, Missing, NoBuffer

\* disable(): mremap() and the new status.
LEMMA DisableMoveInv ==
    ASSUME Inv, DisableMove
    PROVE  Inv'
<1>0. seg.page \in Content
  BY Zenon DEF Inv, TypeOK, MemorySegment, SegInv, HelperInv, DisableMove, Unmapped,
     Missing, NoBuffer
<1>1. CASE spare
  <2>1. /\ seg' \in MemorySegment /\ seg'.status = "INACTIVE"
        /\ seg'.page = Missing /\ seg'.buffer = seg.page
        /\ seg'.writable = FALSE
    BY Zenon, <1>0, <1>1, MovedFields DEF Inv, TypeOK, DisableMove
  <2>2. TypeOK'
    BY <2>1, Zenon DEF Inv, TypeOK, DisableMove
  <2> QED
    BY <1>0, <2>1, <2>2 DEF Inv, TypeOK, DisableMove, SegInv, PhaseInv, HelperInv, BufferInv,
     RanInv, CodeKept, Content, Unmapped, Missing, NoBuffer
<1>2. CASE ~spare
  BY <1>2, Zenon DEF Inv, TypeOK, DisableMove, SegInv, PhaseInv, HelperInv, BufferInv,
     RanInv, CodeKept, Content, Unmapped, Missing, NoBuffer
<1> QED
  BY <1>1, <1>2, Zenon DEF Inv, TypeOK

\* A thread executes the code.
LEMMA ExecuteInv ==
    ASSUME NEW t \in Thread, Inv, Execute(t)
    PROVE  Inv'
BY SegmentAssumption DEF Inv, TypeOK, SegInv, PhaseInv, HelperInv, BufferInv,
    RanInv, CodeKept, Status, Content, Unmapped, Missing, NoBuffer,
    Execute, segvars, Updating, MemorySegment

\* A thread runs into a withdrawn segment.
LEMMA FaultInv ==
    ASSUME NEW t \in Thread, Inv, Fault(t)
    PROVE  Inv'
BY SegmentAssumption DEF Inv, TypeOK, SegInv, PhaseInv, HelperInv, BufferInv,
    RanInv, CodeKept, Status, Content, Unmapped, Missing, NoBuffer,
    Fault, segvars, Updating, MemorySegment

\* The helper thread looks for the segment and its contents.
LEMMA UserfaultLookupInv ==
    ASSUME Inv, UserfaultLookup
    PROVE  Inv'
BY SegmentAssumption, Zenon DEF Inv, TypeOK, SegInv, PhaseInv, HelperInv, BufferInv,
    RanInv, CodeKept, Status, Content, Unmapped, Missing, NoBuffer,
    UserfaultLookup, segvars, Updating, MemorySegment, cpysrc

\* The helper thread puts back the contents.
LEMMA UserfaultCopyInv ==
    ASSUME Inv, UserfaultCopy
    PROVE  Inv'
BY SegmentAssumption DEF Inv, TypeOK, SegInv, PhaseInv, HelperInv, BufferInv,
    RanInv, CodeKept, Status, Content, Unmapped, Missing, NoBuffer,
    UserfaultCopy, segvars, Updating, MemorySegment, Woken

\* The helper thread notes the reactivation.
LEMMA UserfaultMarkInv ==
    ASSUME Inv, UserfaultMark
    PROVE  Inv'
BY SegmentAssumption, Zenon DEF Inv, TypeOK, SegInv, PhaseInv, HelperInv, BufferInv,
    RanInv, CodeKept, Status, Content, Unmapped, Missing, NoBuffer,
    UserfaultMark, segvars, Updating, MemorySegment

\* Every step keeps the invariant.
LEMMA NextInv ==
    Inv /\ [Next]_vars => Inv'
<1> SUFFICES ASSUME Inv, [Next]_vars PROVE Inv'
  BY Zenon
<1>1. CASE Load \/ Start \/ Supersede \/ DisableBegin
  BY <1>1, LoadInv, StartInv, SupersedeInv, DisableBeginInv, Zenon
<1>2. CASE Updater
  BY <1>2, UpdateBeginInv, PatchInv, UpdateEndInv, Zenon DEF Updater
<1>3. CASE Helper
  BY Zenon, <1>3, DisableReplaceInv, DisableMoveInv, UserfaultLookupInv,
     UserfaultCopyInv, UserfaultMarkInv DEF Helper
<1>4. CASE \E t \in Thread : Execute(t) \/ Fault(t)
  BY <1>4, ExecuteInv, FaultInv, Zenon
<1>5. CASE UNCHANGED vars
  BY <1>5 DEF Inv, TypeOK, SegInv, PhaseInv, HelperInv, BufferInv, RanInv,
     CodeKept, vars
<1> QED
  BY <1>1, <1>2, <1>3, <1>4, <1>5, Zenon DEF Next

\* The inductive invariant holds in every reachable state of the segment.
THEOREM Invariance ==
    Spec => []Inv
<1> QED
  BY InitInv, NextInv, PTL DEF Spec

-----------------------------------------------------------------------------
(* What follows from it.                                                   *)

\* The fields of the segment and the parties keep their types.
THEOREM TypeCorrect ==
    Spec => []TypeOK
<1>1. Inv => TypeOK
  BY Zenon DEF Inv
<1> QED
  BY <1>1, Invariance, PTL

\* Withdrawing, reactivating and updating in any order never lose code or
\* patches.
THEOREM CodeKeptCorrect ==
    Spec => []CodeKept
<1>1. Inv => CodeKept
  BY Zenon DEF Inv
<1> QED
  BY <1>1, Invariance, PTL

\* Code of a version in use is never mapped writable.
THEOREM ReadOnlyCorrect ==
    Spec => []RunningCodeReadOnly
<1>1. Inv => RunningCodeReadOnly
  BY Zenon DEF Inv, PhaseInv, RunningCodeReadOnly
<1> QED
  BY <1>1, Invariance, PTL

\* Executed code never falls behind an earlier patch, since what
\* userfault_handle puts back is the withdrawn contents.
THEOREM NeverReverts ==
    Spec => CodeNeverReverts
<1>1. Inv /\ [Next]_vars => [ran' >= ran]_vars
  <2> SUFFICES ASSUME Inv, Next PROVE ran' >= ran
    BY Zenon DEF vars
  <2>0. ran \in Content
    BY Zenon DEF Inv, TypeOK
  <2>1. CASE \E t \in Thread : Execute(t)
    BY <2>0, <2>1, Zenon DEF Execute, Inv, RanInv, Content
  <2>2. CASE ran' = ran
    BY <2>0, <2>2 DEF Content
  <2> QED
    BY <2>1, <2>2, Zenon DEF Next, Updater, Helper, Load, Start, Supersede,
       DisableBegin, UpdateBegin, Patch, UpdateEnd, DisableReplace,
       DisableMove, Fault, UserfaultLookup, UserfaultCopy, UserfaultMark
<1> QED
  BY <1>1, Invariance, PTL DEF Spec, CodeNeverReverts

\* When an update ends, the code in memory has all patches; the one exception
\* is the window between the helper's copy and its write of the status.
THEOREM UpdateComplete ==
    Spec => UpdateCompletes
<1> DEFINE P == UpdateEnd => \/ seg'.page \in {patches, Missing}
                            \/ helper = "mark"
<1>1. Inv /\ [Next]_vars => [P]_vars
  <2> SUFFICES ASSUME Inv, UpdateEnd, helper # "mark"
               PROVE  seg'.page \in {patches, Missing}
    BY Zenon
  <2>1. seg \in MemorySegment /\ seg.status \in Status
    BY Zenon DEF Inv, TypeOK, MemorySegment
  <2>2. ~wild /\ seg.status # "NOT_MAPPED"
    BY Zenon DEF Inv, TypeOK, HelperInv, UpdateEnd, Updating
  <2>3. CASE seg.status = "INACTIVE"
    <3>1. seg' = seg
      BY Zenon, <2>1, <2>3, FinalizeFields DEF UpdateEnd
    <3> QED
      BY <2>3, <3>1, Zenon DEF Inv, HelperInv
  <2>4. CASE seg.status \in {"MAPPED", "REACTIVATED"}
    <3>1. /\ seg.buffer # NoBuffer => seg'.page = seg.buffer
          /\ seg.buffer = NoBuffer => seg'.page = seg.page
      BY Zenon, <2>1, <2>4, FinalizeFields DEF UpdateEnd
    <3>2. seg.page # Unmapped
      BY <2>2, Zenon DEF Inv, SegInv
    <3> QED
      BY <2>2, <3>1, <3>2, Zenon DEF Inv, CodeKept
  <2> QED
    BY <2>1, <2>2, <2>3, <2>4, Zenon DEF Status
<1> QED
  BY <1>1, Invariance, PTL DEF Spec, UpdateCompletes

=============================================================================
