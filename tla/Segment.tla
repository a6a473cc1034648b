------------------------------ MODULE Segment ------------------------------
(***************************************************************************)
(* The life of one executable memory segment of an object version          *)
(* (memory_segment.cpp): it is mapped, patched through a back buffer       *)
(* ("compose" and "finalize"), withdrawn once a newer version of the file  *)
(* has been loaded ("disable", detection of outdated code by userfaultfd), *)
(* and put back when a thread still runs into it (userfault_handle).       *)
(*                                                                         *)
(* Three parties work on it: application threads that execute the code,    *)
(* whoever performs an update (an application thread in __luci_update or   *)
(* the helper thread), and the helper thread that withdraws and            *)
(* reactivates.  The latter two synchronise by lookup_sync, except for     *)
(* the part of userfault_handle after its read_unlock.                     *)
(*                                                                         *)
(* The contents of a page is the number of patches it has received.        *)
(***************************************************************************)
EXTENDS Integers

CONSTANTS
    Thread,      \* application threads that execute code of this version
    MaxPatches,  \* bound: patches written into this segment
    MaxUpdates   \* bound: updates performed while it exists

ASSUME SegmentAssumption ==
    /\ MaxPatches \in Nat
    /\ MaxUpdates \in Nat

Content == 0 .. MaxPatches
Unmapped == -1          \* no mapping at the target address
Missing == -2           \* mapped and registered, but without a page
NoBuffer == -1          \* buffer == 0

VARIABLES
    seg,        \* the MemorySegment and the memory at its target address
    copied,     \* map() copies the contents (no file to map from)
    started,    \* Loader::process_started
    linked,     \* this version has been put to use (finalized once)
    successor,  \* "none", "loaded" (on the protect worklist), "handled"
    patches,    \* patches written by relocations so far
    updates,    \* updates performed so far
    lock,       \* writer of lookup_sync: "none", "app", "helper"
    helper,     \* where the helper thread is
    spare,      \* disable(): there is a range to move the contents to
    src,        \* userfault_handle(): cpy.src
    thread,     \* "run" or "fault" for each thread
    ran,        \* contents executed last
    wild        \* a patch was written to an address outside the segment

segvars == <<seg, copied, started, linked, successor, patches, updates>>
vars == <<seg, copied, started, linked, successor, patches, updates, lock,
          helper, spare, src, thread, ran, wild>>

Status == {"NOT_MAPPED", "MAPPED", "INACTIVE", "REACTIVATED"}

\* The fields are target.status, PROT_WRITE in target.effective_protection,
\* flags_privanon in target.flags, buffer, and the memory at page_start().
MemorySegment ==
    [status: Status, writable: BOOLEAN, privanon: BOOLEAN,
     buffer: Content \cup {NoBuffer}, page: Content \cup {Unmapped, Missing}]

\* Every variable has its type.
TypeOK ==
    /\ seg \in MemorySegment
    /\ copied \in BOOLEAN /\ started \in BOOLEAN /\ linked \in BOOLEAN
    /\ successor \in {"none", "loaded", "handled"}
    /\ patches \in Content
    /\ updates \in 0 .. MaxUpdates
    /\ lock \in {"none", "app", "helper"}
    /\ helper \in {"idle", "update", "replace", "move", "copy", "mark"}
    /\ spare \in BOOLEAN
    /\ src \in {"buffer", "source"}
    /\ thread \in [Thread -> {"run", "fault"}]
    /\ ran \in Content
    /\ wild \in BOOLEAN

-----------------------------------------------------------------------------
(* MemorySegment's operations on its fields and its memory.                *)

\* A mapping never replaces another one (MAP_FIXED_NOREPLACE).
map(s) ==
    IF s.page = Unmapped
    THEN [s EXCEPT !.status = "MAPPED", !.page = 0, !.writable = copied]
    ELSE s

\* Mutant: running code is made writable and changed in place.
composeInPlace(s) ==
    [s EXCEPT !.writable = TRUE]

\* The segment after compose(), and whether it delivered an address.
compose(s) ==
    LET m == IF s.status = "MAPPED" THEN s ELSE map(s)
    IN  IF s.buffer # NoBuffer \/ m.status # "MAPPED" \/ m.writable THEN m
        ELSE IF ~started THEN [m EXCEPT !.writable = TRUE]
        ELSE [m EXCEPT !.buffer = m.page]

composed(s) == s.buffer # NoBuffer \/ s.status = "MAPPED"

\* Mutant: the back buffer is ignored and the count is off by one.
PatchedOffByOne(s) ==
    [s EXCEPT !.page = patches + 2]

\* A patch goes to the back buffer, or in place if there is none.
Patched(s) ==
    IF s.buffer # NoBuffer THEN [s EXCEPT !.buffer = patches + 1]
                           ELSE [s EXCEPT !.page = patches + 1]

\* Mutant: the back buffer is not swapped in.
finalizeNever(s) ==
    IF s.buffer # NoBuffer THEN s ELSE [s EXCEPT !.writable = FALSE]

\* The back buffer replaces the memory at the target address.
finalize(s) ==
    IF s.status \in {"INACTIVE", "NOT_MAPPED"} THEN s
    ELSE IF s.buffer # NoBuffer
         THEN [s EXCEPT !.page = s.buffer, !.buffer = NoBuffer,
                        !.privanon = TRUE, !.writable = FALSE]
         ELSE [s EXCEPT !.writable = FALSE]

\* Mutant: the moved contents are not remembered as the back buffer.
MovedBlindly(s) ==
    [s EXCEPT !.page = Missing, !.status = "INACTIVE", !.writable = FALSE]

\* mremap(MREMAP_DONTUNMAP) of the registered range and what follows it.
Moved(s) ==
    [s EXCEPT !.page = Missing, !.buffer = s.page, !.status = "INACTIVE",
              !.writable = FALSE]

-----------------------------------------------------------------------------
(* Loading and updating.                                                   *)

Init ==
    /\ seg = [status |-> "NOT_MAPPED", writable |-> FALSE, privanon |-> FALSE,
              buffer |-> NoBuffer, page |-> Unmapped]
    /\ copied \in BOOLEAN
    /\ started \in BOOLEAN
    /\ linked = FALSE
    /\ successor = "none"
    /\ patches = 0 /\ updates = 0
    /\ lock = "none" /\ helper = "idle"
    /\ spare = FALSE /\ src = "buffer"
    /\ thread = [t \in Thread |-> "run"]
    /\ ran = 0
    /\ wild = FALSE

\* The version is loaded: map(), and fix() may patch the code at once.
Load ==
    /\ seg.status = "NOT_MAPPED"
    /\ lock = "none" /\ helper = "idle"
    /\ \/ seg' = map(seg) /\ UNCHANGED patches
       \/ /\ patches < MaxPatches
          /\ seg' = Patched(compose(map(seg)))
          /\ patches' = patches + 1
    /\ UNCHANGED <<copied, started, linked, successor, updates, lock, helper,
                   spare, src, thread, ran, wild>>

\* prepare() finalizes everything, then the process is started.
Start ==
    /\ ~started /\ seg.status = "MAPPED"
    /\ seg' = finalize(seg)
    /\ started' = TRUE /\ linked' = TRUE
    /\ UNCHANGED <<copied, successor, patches, updates, lock, helper, spare,
                   src, thread, ran, wild>>

\* The helper loads a newer version and schedules this one for protection.
Supersede ==
    /\ started /\ seg.status = "MAPPED" /\ successor = "none"
    /\ lock = "none" /\ helper = "idle"
    /\ successor' = "loaded"
    /\ UNCHANGED <<seg, copied, started, linked, patches, updates, lock,
                   helper, spare, src, thread, ran, wild>>

UpdateBegin(who) ==
    /\ started /\ seg.status # "NOT_MAPPED"
    /\ updates < MaxUpdates
    /\ lock = "none"
    /\ who = "helper" => helper = "idle"
    /\ lock' = who
    /\ helper' = IF who = "helper" THEN "update" ELSE helper
    /\ updates' = updates + 1
    /\ UNCHANGED <<seg, copied, started, linked, successor, patches, spare,
                   src, thread, ran, wild>>

\* A write outside the segment ends the process, so the update goes no further.
Updating == ~wild /\ (lock = "app" \/ helper = "update")

\* A relocation in the code of this outdated version is bent to the newest
\* one; the address compose() delivers is used as it is.
Patch ==
    /\ Updating
    /\ successor # "none"
    /\ patches < MaxPatches
    /\ patches' = patches + 1
    /\ IF composed(compose(seg))
       THEN seg' = Patched(compose(seg)) /\ wild' = wild
       ELSE seg' = compose(seg) /\ wild' = TRUE
    /\ UNCHANGED <<copied, started, linked, successor, updates, lock, helper,
                   spare, src, thread, ran>>

UpdateEnd ==
    /\ Updating
    /\ seg' = finalize(seg)
    /\ linked' = TRUE
    /\ lock' = "none"
    /\ helper' = IF lock = "helper" THEN "idle" ELSE helper
    /\ UNCHANGED <<copied, started, successor, patches, updates, spare, src,
                   thread, ran, wild>>

-----------------------------------------------------------------------------
(* Withdrawing the segment: Object::disable in filemodification_protect.   *)

\* Either the back buffer's range becomes free by the following finalize(),
\* or a fresh range is mapped.
DisableBegin ==
    /\ successor = "loaded"
    /\ lock = "none" /\ helper = "idle"
    /\ successor' = "handled"
    /\ lock' = "helper"
    /\ seg' = IF seg.privanon THEN seg ELSE compose(seg)
    /\ spare' = (seg.privanon \/ compose(seg).buffer # NoBuffer)
    /\ helper' = IF seg.privanon THEN "move" ELSE "replace"
    /\ UNCHANGED <<copied, started, linked, patches, updates, src, thread,
                   ran, wild>>

DisableReplace ==
    /\ helper = "replace"
    /\ seg' = finalize(seg)
    /\ helper' = "move"
    /\ UNCHANGED <<copied, started, linked, successor, patches, updates, lock,
                   spare, src, thread, ran, wild>>

\* Without a range, the destination of mremap is address 0, which fails.
DisableMove ==
    /\ helper = "move"
    /\ seg' = IF spare THEN Moved(seg) ELSE seg
    /\ lock' = "none"
    /\ helper' = "idle"
    /\ UNCHANGED <<copied, started, linked, successor, patches, updates,
                   spare, src, thread, ran, wild>>

-----------------------------------------------------------------------------
(* Executing the code and reactivating it.                                 *)

Execute(t) ==
    /\ linked /\ thread[t] = "run"
    /\ seg.page \in Content
    /\ ran' = seg.page
    /\ UNCHANGED <<segvars, lock, helper, spare, src, thread, wild>>

Fault(t) ==
    /\ linked /\ thread[t] = "run"
    /\ seg.page = Missing
    /\ thread' = [thread EXCEPT ![t] = "fault"]
    /\ UNCHANGED <<segvars, lock, helper, spare, src, ran, wild>>

\* Mutant: the page is always filled from the file.
cpysrcFile(s) == "source"

\* The choice of what the page is filled with.
cpysrc(s) == IF s.buffer = NoBuffer THEN "source" ELSE "buffer"

UserfaultLookup ==
    /\ helper = "idle"
    /\ \E t \in Thread : thread[t] = "fault"
    /\ lock = "none"
    /\ src' = cpysrc(seg)
    /\ helper' = "copy"
    /\ UNCHANGED <<segvars, lock, spare, thread, ran, wild>>

\* Mutant: the range that is filled misses the page of the fault.
WokenNever(th) == th

\* UFFDIO_COPY wakes every thread that waits for a page of the range (dst
\* and len cover the whole segment).
Woken(th) == [t \in Thread |-> "run"]

\* It fills the whole range, and fails if there are pages already or if the
\* buffer is gone.
UserfaultCopy ==
    /\ helper = "copy"
    /\ IF seg.page = Missing /\ (src = "buffer" => seg.buffer # NoBuffer)
       THEN /\ seg' = [seg EXCEPT !.page =
                                IF src = "buffer" THEN seg.buffer ELSE 0]
            /\ thread' = Woken(thread)
            /\ helper' = "mark"
       ELSE UNCHANGED <<seg, thread>> /\ helper' = "idle"
    /\ UNCHANGED <<copied, started, linked, successor, patches, updates, lock,
                   spare, src, ran, wild>>

\* The status is written after the copy, and without the lock.
UserfaultMark ==
    /\ helper = "mark"
    /\ seg' = [seg EXCEPT !.status = "REACTIVATED"]
    /\ helper' = "idle"
    /\ UNCHANGED <<copied, started, linked, successor, patches, updates, lock,
                   spare, src, thread, ran, wild>>

-----------------------------------------------------------------------------
Helper ==
    \/ DisableReplace \/ DisableMove
    \/ UserfaultLookup \/ UserfaultCopy \/ UserfaultMark

Updater == Patch \/ UpdateEnd \/ \E who \in {"app", "helper"} : UpdateBegin(who)

Next ==
    \/ Load \/ Start \/ Supersede \/ DisableBegin
    \/ Updater
    \/ Helper
    \/ \E t \in Thread : Execute(t) \/ Fault(t)

Spec == Init /\ [][Next]_vars

\* The helper thread keeps running its loop, and an update comes to its end.
FairSpec ==
    /\ Spec
    /\ WF_vars(Helper)
    /\ WF_vars(UpdateEnd)

-----------------------------------------------------------------------------
(* Properties.                                                             *)

\* Neither the code nor a patch gets lost: contents that were withdrawn from
\* the target address (disable) are in the back buffer, and the newest patch
\* is in memory or will get there by the next finalize or reactivation.
CodeKept ==
    /\ seg.page = Missing => seg.buffer # NoBuffer
    /\ ~wild => patches = IF seg.buffer # NoBuffer THEN seg.buffer
                          ELSE IF seg.page = Unmapped THEN 0 ELSE seg.page

\* Code in use is never writable: compose() turns to the back buffer once the
\* process has started, and finalize() has reset the protection before the
\* version is used.
RunningCodeReadOnly ==
    linked => ~seg.writable

\* A thread never executes code with fewer patches than code of this segment
\* that was executed earlier, withdrawn and reactivated or not.
CodeNeverReverts ==
    [][ran' >= ran]_vars

\* At the end of an update (finalize in Loader::relocate) the code at the
\* target address has every patch, unless the segment is withdrawn, or the
\* helper has just put back the page and not yet written the status.
UpdateCompletes ==
    [][UpdateEnd => \/ seg'.page \in {patches, Missing}
                    \/ helper = "mark"]_vars

\* A thread that runs into a withdrawn segment can go on eventually: the
\* helper thread finds the segment and fills it (userfault_handle).
FaultServed ==
    \A t \in Thread : thread[t] = "fault" ~> thread[t] = "run" \/ wild

\* compose() of a segment that has been mapped delivers a back buffer
\* ("Allocate/get address of temporary (back) buffer to modify contents
\* offline", memory_segment.hpp:115), so that no patch is written elsewhere.
ComposeDelivers ==
    ~wild

=============================================================================
