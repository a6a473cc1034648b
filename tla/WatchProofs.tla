---------------------------- MODULE WatchProofs -----------------------------
(***************************************************************************)
(* Proofs about Watch, for any files, bounds and limits: its types, that a *)
(* file has one entry in the worklist, that a file is left alone for a     *)
(* second before it is loaded, and what a step adds to the events on their *)
(* way to the helper; then that no change of a file is missed, as long as  *)
(* the queue of the kernel does not overflow.                              *)
(***************************************************************************)
EXTENDS Watch, FiniteSetTheorems, TLAPS

(* Inodes are numbers, and the next one is among those modelled.           *)
LEMMA InodeFacts ==
  /\ Cardinality(File) \in Nat
  /\ changes \in 0 .. MaxChanges /\ changes < MaxChanges => New \in Inode
<1>1. Cardinality(File) \in Nat
  BY FS_CardinalityType, WatchAssumption, Zenon
<1> QED BY <1>1, WatchAssumption DEF New, Inode

(* An event, and the one that says that the queue is full                  *)
Ev(w, m) == [wd |-> w, mask |-> m]
Full == Ev(0, "overflow")

(* Queue r is q with event e of watch w, unless there is none or no room   *)
Extended(r, q, w, e) ==
  /\ r \in Seq(Event) /\ Len(r) \in Len(q) .. Len(q) + 1
  /\ \A i \in 1 .. Len(q) : r[i] = q[i]
  /\ w = 0 => r = q
  /\ w # 0 => Len(r) > 0 /\ r[Len(r)] \in {e, Full}

(* This is what the kernel does with an event.                             *)
LEMMA QueuedFacts ==
  ASSUME NEW q \in Seq(Event), NEW w, NEW m, Ev(w, m) \in Event, Full \in Event
  PROVE  Extended(Queued(q, w, m), q, w, Ev(w, m))
<1> DEFINE r == Queued(q, w, m)
<1> DEFINE e == IF Len(q) >= QueueLimit THEN Full
                ELSE Ev(w, m)
<1>1. e \in Event
  BY Zenon
<1>2. \/ r = q /\ (w = 0 \/ (q # <<>> /\ q[Len(q)] = e))
      \/ w # 0 /\ r = Append(q, e)
  BY Zenon DEF Queued, Ev, Full
<1>3. q # <<>> => Len(q) > 0
  OBVIOUS
<1>4. e \in {Ev(w, m), Full}
  BY Zenon
<1> HIDE DEF e
<1>5. /\ Append(q, e) \in Seq(Event) /\ Len(Append(q, e)) = Len(q) + 1
      /\ \A i \in 1 .. Len(q) : Append(q, e)[i] = q[i]
      /\ Append(q, e)[Len(q) + 1] = e
  BY <1>1
<1> SUFFICES Extended(r, q, w, Ev(w, m))
  BY Zenon
<1> HIDE DEF r
<1>6. CASE r = q /\ (w = 0 \/ (q # <<>> /\ q[Len(q)] = e))
  <2>1. r \in Seq(Event) /\ Len(r) \in Len(q) .. Len(q) + 1
    BY <1>6
  <2>2. w # 0 => Len(r) > 0 /\ r[Len(r)] \in {Ev(w, m), Full}
    BY <1>3, <1>4, <1>6, Zenon
  <2> QED BY <1>6, <2>1, <2>2, Zenon DEF Extended
<1>7. CASE w # 0 /\ r = Append(q, e)
  <2>1. r \in Seq(Event) /\ Len(r) \in Len(q) .. Len(q) + 1 /\ Len(r) > 0
    BY <1>5, <1>7
  <2>2. r[Len(r)] \in {Ev(w, m), Full}
    BY <1>4, <1>5, <1>7, Zenon
  <2> QED BY <1>5, <1>7, <2>1, <2>2, Zenon DEF Extended
<1> QED BY <1>2, <1>6, <1>7, Zenon
-----------------------------------------------------------------------------
(* The worklist is a map: an entry is known by its file.                   *)
OneInv == \A d, e \in worklist : d[2] = e[2] => d = e

(* Events of the watches there are stay such when there are more watches.  *)
LEMMA EventGrows ==
  ASSUME lastwd \in Nat, lastwd' \in Nat, lastwd <= lastwd', NEW q \in Seq(Event)
  PROVE  q \in Seq(Event')
<1>1. Event \subseteq Event'
  BY DEF Event
<1> QED BY <1>1

(* The kernel's share of the types, when the path of an inode goes away    *)
LEMMA UnlinkedTypes ==
  ASSUME TypeOK, NEW i \in Inode, NEW busy \in BOOLEAN, Unlinked(i, busy), lastwd' = lastwd
  PROVE  mark' \in [Inode -> 0 .. lastwd'] /\ queue' \in Seq(Event')
<1>1. /\ Event' = Event /\ mark[i] \in 0 .. lastwd /\ queue \in Seq(Event) /\ lastwd \in Nat
      /\ mark \in [Inode -> 0 .. lastwd]
  BY Zenon DEF TypeOK, Types, Event
<1>2. \A m \in Mask : Ev(mark[i], m) \in Event
  BY <1>1, Zenon DEF Event, Ev
<1>3. Full \in Event
  BY <1>1 DEF Event, Mask, Ev, Full
<1>4. ASSUME NEW q \in Seq(Event), NEW m \in Mask
      PROVE  Queued(q, mark[i], m) \in Seq(Event)
  <2>1. Ev(mark[i], m) \in Event
    BY <1>2, Zenon
  <2> QED BY <1>3, <2>1, QueuedFacts, Zenon DEF Extended
<1>5. {"attrib", "delete", "ignored"} \subseteq Mask
  BY Zenon DEF Mask
<1>6. queue' \in Seq(Event)
  BY <1>1, <1>4, <1>5, Zenon DEF Unlinked
<1> QED BY <1>1, <1>6 DEF Unlinked

(* The same when a file is watched                                         *)
LEMMA WatchStepTypes ==
  ASSUME TypeOK, NEW f \in File, NEW b \in BOOLEAN, NEW c \in BOOLEAN, watch(f, b, c)
  PROVE  /\ lastwd' \in Nat /\ lastwd <= lastwd'
         /\ wd' \in [File -> 0 .. lastwd'] /\ mark' \in [Inode -> 0 .. lastwd']
         /\ queue' \in Seq(Event')
<1>1. /\ queue \in Seq(Event) /\ lastwd \in Nat /\ mark \in [Inode -> 0 .. lastwd]
      /\ wd \in [File -> 0 .. lastwd] /\ path[f] \in Inode \cup {0}
  BY Zenon DEF TypeOK, Types
<1>2. 0 \notin Inode
  BY DEF Inode
<1>3. Ev(wd[f], "ignored") \in Event /\ Full \in Event
  BY <1>1 DEF Event, Mask, Ev, Full
<1>4. Queued(queue, wd[f], "ignored") \in Seq(Event)
  BY <1>1, <1>3, QueuedFacts, Zenon DEF Extended
<1>5. ASSUME NEW m \in [Inode -> 0 .. lastwd], NEW q \in Seq(Event), AddWatch(f, m, q)
      PROVE  /\ lastwd' \in Nat /\ lastwd <= lastwd' /\ queue' \in Seq(Event)
             /\ wd' \in [File -> 0 .. lastwd'] /\ mark' \in [Inode -> 0 .. lastwd']
  <2>0. queue' \in Seq(Event)
    BY <1>5, Zenon DEF AddWatch
  <2>1. CASE path[f] = 0
    <3>1. lastwd' = lastwd /\ mark' = m /\ wd' = [wd EXCEPT ![f] = 0]
      BY <1>5, <2>1, Zenon DEF AddWatch
    <3>2. 0 \in 0 .. lastwd
      BY <1>1
    <3> QED BY <1>1, <2>0, <3>1, <3>2
  <2>3. CASE path[f] # 0 /\ m[path[f]] # 0
    <3>1. lastwd' = lastwd /\ mark' = m /\ wd' = [wd EXCEPT ![f] = m[path[f]]]
      BY <1>5, <2>3, Zenon DEF AddWatch
    <3>2. m[path[f]] \in 0 .. lastwd
      BY <1>1, <2>3, Zenon
    <3> QED BY <1>1, <2>0, <3>1, <3>2
  <2>2. CASE path[f] # 0 /\ m[path[f]] = 0
    <3>1. /\ lastwd' = lastwd + 1 /\ wd' = [wd EXCEPT ![f] = lastwd + 1]
          /\ mark' = [m EXCEPT ![path[f]] = lastwd + 1]
      BY <1>5, <2>2, Zenon DEF AddWatch
    <3>2. 0 .. lastwd \subseteq 0 .. lastwd + 1
      BY <1>1
    <3>3. wd' \in [File -> 0 .. lastwd + 1] /\ mark' \in [Inode -> 0 .. lastwd + 1]
      BY <1>1, <2>2, <3>1, <3>2
    <3> QED BY <1>1, <2>0, <3>1, <3>3
  <2> QED BY <2>1, <2>2, <2>3, Zenon
<1>6. /\ lastwd' \in Nat /\ lastwd <= lastwd' /\ queue' \in Seq(Event)
      /\ wd' \in [File -> 0 .. lastwd'] /\ mark' \in [Inode -> 0 .. lastwd']
  <2>1. CASE wd[f] = 0 \/ b
    <3> DEFINE old == {i \in Inode : c /\ wd[f] # 0 /\ mark[i] = wd[f]}
               m == [i \in Inode |-> IF i \in old THEN 0 ELSE mark[i]]
               q == IF old = {} THEN queue ELSE Queued(queue, wd[f], "ignored")
    <3>1. m \in [Inode -> 0 .. lastwd] /\ q \in Seq(Event)
      BY <1>1, <1>4
    <3>2. AddWatch(f, m, q)
      BY <2>1, Zenon DEF watch
    <3> HIDE DEF m, q
    <3> QED BY <1>5, <3>1, <3>2, Zenon
  <2>2. CASE ~(wd[f] = 0 \/ b)
    BY <1>1, <2>2 DEF watch, kernelVars
  <2> QED BY <2>1, <2>2, Zenon
<1> QED BY <1>1, <1>6, EventGrows, Zenon

(* ObjectIdentity::load forces the watch of the executed binary.           *)
LEMMA WatchForced ==
  ASSUME NEW f \in File, LoadWatch(f)
  PROVE  IF f \in Exec THEN watch(f, TRUE, TRUE) ELSE watch(f, FALSE, FALSE)
BY Zenon DEF LoadWatch, watch

(* A map from files has one entry for a file.                              *)
LEMMA OneEach ==
  ASSUME NEW W, \A d, e \in W : d[2] = e[2] => d = e, NEW f
  PROVE  Cardinality({e \in W : e[2] = f}) <= 1
<1>1. CASE {e \in W : e[2] = f} = {}
  BY <1>1, FS_EmptySet
<1>2. CASE {e \in W : e[2] = f} # {}
  <2>1. PICK d \in W : d[2] = f
    BY <1>2, Zenon
  <2>2. {e \in W : e[2] = f} = {d}
    BY <2>1, Zenon
  <2>3. Cardinality({d}) = 1
    BY Zenon, FS_Singleton
  <2> QED BY <2>2, <2>3
<1> QED BY <1>1, <1>2, Zenon

(* A change of the file system keeps the types.                            *)
LEMMA EnvironmentTypes ==
  ASSUME TypeOK, NEW f \in File,
         Write(f) \/ Replace(f) \/ Remove(f) \/ MoveAway(f) \/ Create(f)
  PROVE  /\ path' \in [File -> Inode \cup {0}] /\ content' \in [Inode -> Inode \cup {0}]
         /\ mark' \in [Inode -> 0 .. lastwd'] /\ queue' \in Seq(Event')
         /\ changes' \in 0 .. MaxChanges /\ gone' \subseteq File
         /\ UNCHANGED <<lastwd, wd, opened, seen, worklist, quiet, buf, pc, loading>>
<1>1. /\ changes' = changes + 1 /\ changes < MaxChanges
      /\ UNCHANGED <<lastwd, wd, opened, seen, worklist, quiet, buf, pc, loading>>
  BY Zenon DEF Write, Replace, Remove, MoveAway, Create, Changed
<1>2. /\ path \in [File -> Inode \cup {0}] /\ content \in [Inode -> Inode \cup {0}]
      /\ changes \in 0 .. MaxChanges /\ gone \subseteq File /\ lastwd \in Nat
      /\ mark \in [Inode -> 0 .. lastwd] /\ queue \in Seq(Event)
  BY Zenon DEF TypeOK, Types
<1>3. Event' = Event /\ New \in Inode /\ 0 \notin Inode
  BY <1>1, <1>2, InodeFacts DEF Event, Inode
<1>4. changes' \in 0 .. MaxChanges
  BY <1>1, <1>2, WatchAssumption
<1>5. Full \in Event
  BY <1>2 DEF Event, Mask, Ev, Full
<1>6. ASSUME path[f] # 0, NEW m \in Mask
      PROVE  Queued(queue, mark[path[f]], m) \in Seq(Event')
  <2>1. Ev(mark[path[f]], m) \in Event
    BY <1>2, <1>6, Zenon DEF Event, Ev
  <2> QED BY <1>2, <1>3, <1>5, <2>1, QueuedFacts, Zenon DEF Extended
<1>7. {"modify", "move"} \subseteq Mask
  BY Zenon DEF Mask
<1>8. CASE Write(f)
  BY <1>1, <1>2, <1>3, <1>4, <1>6, <1>7, <1>8, Zenon DEF Write
<1>9. CASE Replace(f)
  <2>1. path[f] \in Inode /\ Running(f) \in BOOLEAN /\ Unlinked(path[f], Running(f))
    BY <1>2, <1>9, Zenon DEF Replace, Running
  <2> QED BY <1>1, <1>2, <1>3, <1>4, <1>9, <2>1, UnlinkedTypes, Zenon DEF Replace
<1>10. CASE Remove(f)
  <2>1. path[f] \in Inode /\ Running(f) \in BOOLEAN /\ Unlinked(path[f], Running(f))
    BY <1>2, <1>10, Zenon DEF Remove, Running
  <2> QED BY <1>1, <1>2, <1>4, <1>10, <2>1, UnlinkedTypes, Zenon DEF Remove
<1>11. CASE MoveAway(f)
  BY <1>1, <1>2, <1>4, <1>6, <1>7, <1>11, Zenon DEF MoveAway
<1>12. CASE Create(f)
  BY <1>1, <1>2, <1>3, <1>4, <1>12, Zenon DEF Create
<1> QED BY <1>8, <1>9, <1>10, <1>11, <1>12, Zenon

(* Every step keeps the types, and the worklist a map.                     *)
LEMMA NextTypeOK == TypeOK /\ OneInv /\ [Next]_vars => TypeOK' /\ OneInv'
<1> SUFFICES ASSUME TypeOK, OneInv, [Next]_vars
             PROVE  TypeOK' /\ OneInv'
  BY Zenon
<1>0. /\ path \in [File -> Inode \cup {0}] /\ content \in [Inode -> Inode \cup {0}]
      /\ mark \in [Inode -> 0 .. lastwd] /\ lastwd \in Nat
      /\ queue \in Seq(Event) /\ buf \in Seq(Event)
      /\ wd \in [File -> 0 .. lastwd] /\ opened \subseteq File
      /\ seen \in [File -> Inode \cup {0}]
      /\ worklist \subseteq (0 .. Delay) \X File /\ quiet \in [File -> 0 .. Delay]
      /\ Delay \in Nat \ {0} /\ 0 \notin Inode
  BY WatchAssumption DEF TypeOK, Types, Inode
<1>1. SUFFICES Types' /\ OneInv'
  <2>1. ASSUME OneInv', NEW f \in File PROVE (Cardinality(Entries(f)) <= 1)'
    <3>1. \A d, e \in worklist' : d[2] = e[2] => d = e
      BY <2>1, Zenon DEF OneInv
    <3>2. Cardinality({e \in worklist' : e[2] = f}) <= 1
      BY <3>1, OneEach, Zenon
    <3> QED BY <3>2, Zenon DEF Entries
  <2> QED BY <2>1, Zenon DEF TypeOK, OneEntry
<1>2. CASE Environment
  <2>1. PICK f \in File : Write(f) \/ Replace(f) \/ Remove(f) \/ MoveAway(f) \/ Create(f)
    BY <1>2, Zenon DEF Environment
  <2>2. Event' = Event
    BY <2>1, EnvironmentTypes, Zenon DEF Event
  <2> QED BY <1>0, <2>1, <2>2, EnvironmentTypes, Zenon DEF TypeOK, Types, OneInv
<1>3. CASE Tick
  <2>1. Event' = Event
    BY <1>3, Zenon DEF Tick, kernelVars, Event
  <2>2. worklist' \subseteq (0 .. Delay) \X File
    BY <1>0, <1>3 DEF Tick
  <2>3. quiet' \in [File -> 0 .. Delay]
    BY <1>0, <1>3 DEF Tick
  <2>4. OneInv'
    <3> SUFFICES ASSUME NEW d \in worklist', NEW e \in worklist', d[2] = e[2]
                 PROVE  d = e
      BY Zenon DEF OneInv
    <3>1. PICK c \in worklist : d = <<IF c[1] = 0 THEN 0 ELSE c[1] - 1, c[2]>>
      BY <1>3, Zenon DEF Tick
    <3>2. PICK b \in worklist : e = <<IF b[1] = 0 THEN 0 ELSE b[1] - 1, b[2]>>
      BY <1>3, Zenon DEF Tick
    <3>3. b = c
      BY <3>1, <3>2, Zenon DEF OneInv
    <3> QED BY <3>1, <3>2, <3>3, Zenon
  <2> QED BY <1>0, <1>3, <2>1, <2>2, <2>3, <2>4, Zenon DEF Tick, fsVars, kernelVars, TypeOK, Types
<1>4. CASE Poll
  <2>1. Event' = Event
    BY <1>4, Zenon DEF Poll, Event
  <2>2. queue' \in Seq(Event) /\ buf' \in Seq(Event)
    BY <1>0, <1>4, WatchAssumption DEF Poll
  <2> QED BY <1>0, <1>4, <2>1, <2>2, Zenon DEF Poll, fsVars, TypeOK, Types, OneInv
<1>5. CASE HandleEvent
  <2>1. buf' \in Seq(Event) /\ UNCHANGED <<fsVars, opened, seen, pc, loading>>
    BY <1>0, <1>5 DEF HandleEvent
  <2>2. CASE UNCHANGED <<kernelVars, wd, worklist, quiet>>
    <3>1. Event' = Event
      BY <2>2, Zenon DEF kernelVars, Event
    <3> QED BY <1>0, <2>1, <2>2, <3>1, Zenon DEF kernelVars, fsVars, TypeOK, Types, OneInv
  <2>3. ASSUME NEW f \in opened, watch(f, TRUE, TRUE), UNCHANGED <<worklist, quiet>>
        PROVE  Types' /\ OneInv'
    <3>1. lastwd' \in Nat /\ lastwd <= lastwd' /\ wd' \in [File -> 0 .. lastwd']
          /\ mark' \in [Inode -> 0 .. lastwd'] /\ queue' \in Seq(Event')
      BY <1>0, <2>3, WatchStepTypes, Zenon
    <3>2. buf' \in Seq(Event')
      BY <1>0, <2>1, <3>1, EventGrows, Zenon
    <3> QED BY <2>1, <2>3, <3>1, <3>2, Zenon DEF fsVars, TypeOK, Types, OneInv
  <2>4. ASSUME NEW f \in opened, worklist' = Postponed(f), quiet' = [quiet EXCEPT ![f] = 0],
               UNCHANGED <<kernelVars, wd>>
        PROVE  Types' /\ OneInv'
    <3>1. Event' = Event
      BY <2>4, Zenon DEF kernelVars, Event
    <3>2. worklist' \subseteq (0 .. Delay) \X File /\ quiet' \in [File -> 0 .. Delay]
      BY <1>0, <2>4 DEF Postponed, Entries
    <3>3. OneInv'
      <4>1. \A e \in worklist' : e = <<Delay, f>> \/ (e \in worklist /\ e[2] # f)
        BY <2>4, Zenon DEF Postponed, Entries
      <4>2. <<Delay, f>>[2] = f
        BY Zenon
      <4> QED BY Zenon, <4>1, <4>2 DEF OneInv
    <3> QED BY <1>0, <2>1, <2>4, <3>1, <3>2, <3>3, Zenon DEF fsVars, kernelVars, TypeOK, Types
  <2> QED BY <1>5, <2>2, <2>3, <2>4, Zenon DEF HandleEvent
<1>6. CASE \E f \in File : LoadRead(f) \/ LoadRefused(f) \/ Open(f)
  <2>1. PICK f \in File : LoadRead(f) \/ LoadRefused(f) \/ Open(f)
    BY <1>6, Zenon
  <2>2. UNCHANGED <<fsVars, kernelVars, wd, quiet, buf, pc>> /\ worklist' \subseteq worklist
    BY <2>1, Zenon DEF LoadRead, LoadRefused, Open, Read
  <2>3. Event' = Event
    BY <2>2, Zenon DEF kernelVars, Event
  <2>4. Content(f) \in Inode \cup {0}
    BY <1>0, Zenon DEF Content
  <2>5. seen' \in [File -> Inode \cup {0}] /\ opened' \subseteq File
    <3>1. seen' = [seen EXCEPT ![f] = Content(f)] /\ opened' \in {opened, opened \cup {f}}
      BY <2>1, Zenon DEF LoadRead, LoadRefused, Open, Read
    <3> QED BY <1>0, <2>4, <3>1, Zenon
  <2>6. loading' \in {Nobody} \cup [file : File, by : {"helper", "application"}]
    BY <2>1 DEF LoadRead, LoadRefused, Open, Read, TypeOK, Types
  <2>7. OneInv'
    BY <2>2, Zenon DEF OneInv
  <2> QED BY <1>0, <2>2, <2>3, <2>5, <2>6, <2>7, Zenon DEF fsVars, kernelVars, TypeOK, Types
<1>7. CASE \E f \in File : LoadWatch(f)
  <2>1. PICK f \in File : LoadWatch(f)
    BY <1>7, Zenon
  <2>2. worklist' \subseteq worklist /\ loading' = Nobody
        /\ UNCHANGED <<fsVars, opened, seen, quiet, buf, pc>>
    BY <2>1, Zenon DEF LoadWatch
  <2>3. lastwd' \in Nat /\ lastwd <= lastwd' /\ wd' \in [File -> 0 .. lastwd']
        /\ mark' \in [Inode -> 0 .. lastwd'] /\ queue' \in Seq(Event')
    BY <2>1, WatchForced, WatchStepTypes, Zenon
  <2>4. buf' \in Seq(Event')
    BY <1>0, <2>2, <2>3, EventGrows, Zenon
  <2>5. OneInv'
    BY <2>2, Zenon DEF OneInv
  <2> QED BY <1>0, <2>2, <2>3, <2>4, <2>5, Zenon DEF fsVars, TypeOK, Types
<1>8. CASE DetectEnd \/ LoadEnd \/ UNCHANGED vars
  <2>1. UNCHANGED <<fsVars, kernelVars, wd, opened, seen, worklist, quiet, buf, loading>>
        /\ pc' \in {"poll", "detect", "load"}
    BY <1>8, Zenon DEF DetectEnd, LoadEnd, vars, fsVars, kernelVars, TypeOK, Types
  <2>2. Event' = Event
    BY <2>1, Zenon DEF kernelVars, Event
  <2> QED BY <1>0, <2>1, <2>2, Zenon DEF fsVars, kernelVars, TypeOK, Types, OneInv
<1> QED BY <1>2, <1>3, <1>4, <1>5, <1>6, <1>7, <1>8, Zenon DEF Next, Helper

(* The initial state has these types.                                      *)
LEMMA InitTypeOK == Init => TypeOK /\ OneInv
<1> SUFFICES ASSUME Init PROVE TypeOK /\ OneInv
  BY Zenon
<1>1. Cardinality(File) \in Nat /\ MaxChanges \in Nat /\ Delay \in Nat
  BY InodeFacts, WatchAssumption, Zenon
<1>2. OneInv /\ worklist = {}
  BY Zenon DEF Init, OneInv
<1>3. OneEntry
  BY <1>2, OneEach, Zenon DEF OneInv, OneEntry, Entries
<1>4. path \in [File -> Inode \cup {0}] /\ content \in [Inode -> Inode \cup {0}]
  BY <1>1 DEF Init, Inode
<1>5. queue \in Seq(Event) /\ buf \in Seq(Event)
  BY DEF Init
<1> QED BY <1>1, <1>2, <1>3, <1>4, <1>5 DEF Init, TypeOK, Types
-----------------------------------------------------------------------------
(* The deadline of an entry is not before a second has passed since the    *)
(* last event of its file was handled.                                     *)
QuietInv == \A e \in worklist : quiet[e[2]] + e[1] >= Delay

(* Every step keeps this: an event moves the deadline, time both.          *)
LEMMA NextQuietInv == TypeOK /\ QuietInv /\ [Next]_vars => QuietInv'
<1> SUFFICES ASSUME TypeOK, QuietInv, [Next]_vars
             PROVE  QuietInv'
  BY Zenon
<1>0. /\ worklist \subseteq (0 .. Delay) \X File /\ quiet \in [File -> 0 .. Delay]
      /\ opened \subseteq File /\ Delay \in Nat
  BY WatchAssumption, Zenon DEF TypeOK, Types
<1>1. CASE Tick
  <2> SUFFICES ASSUME NEW e \in worklist' PROVE quiet'[e[2]] + e[1] >= Delay
    BY Zenon DEF QuietInv
  <2>1. PICK d \in worklist : e = <<IF d[1] = 0 THEN 0 ELSE d[1] - 1, d[2]>>
    BY <1>1, Zenon DEF Tick
  <2>2. quiet[d[2]] + d[1] >= Delay /\ d[1] \in 0 .. Delay /\ d[2] \in File
    BY <1>0, Zenon DEF QuietInv
  <2>3. quiet'[d[2]] = IF quiet[d[2]] = Delay THEN Delay ELSE quiet[d[2]] + 1
    BY <1>1, <2>2, Zenon DEF Tick
  <2>4. quiet[d[2]] \in 0 .. Delay
    BY <1>0, <2>2, Zenon
  <2>5. e[1] = (IF d[1] = 0 THEN 0 ELSE d[1] - 1) /\ e[2] = d[2]
    BY <2>1, Zenon
  <2> QED BY <1>0, <2>2, <2>3, <2>4, <2>5
<1>2. ASSUME NEW f \in opened, worklist' = Postponed(f), quiet' = [quiet EXCEPT ![f] = 0]
      PROVE  QuietInv'
  <2> SUFFICES ASSUME NEW e \in worklist' PROVE quiet'[e[2]] + e[1] >= Delay
    BY Zenon DEF QuietInv
  <2>1. CASE e = <<Delay, f>>
    BY <1>0, <1>2, <2>1
  <2>2. CASE e \in worklist /\ e[2] # f
    BY <1>0, <1>2, <2>2, Zenon DEF QuietInv
  <2> QED BY <1>2, <2>1, <2>2, Zenon DEF Postponed, Entries
<1>3. CASE worklist' \subseteq worklist /\ quiet' = quiet
  BY <1>3, Zenon DEF QuietInv
<1>4. CASE HandleEvent
  BY <1>2, <1>3, <1>4, Zenon DEF HandleEvent
<1>5. Tick \/ HandleEvent \/ (worklist' \subseteq worklist /\ quiet' = quiet)
  <2>1. CASE Environment \/ Poll \/ DetectEnd \/ LoadEnd
    BY Zenon, <2>1 DEF Environment, Write, Replace, Remove, MoveAway, Create, Changed,
       Poll, DetectEnd, LoadEnd
  <2>2. CASE \E f \in File : LoadRead(f) \/ LoadRefused(f) \/ Open(f) \/ LoadWatch(f)
    BY <2>2, Zenon DEF LoadRead, LoadRefused, Open, Read, LoadWatch
  <2>3. CASE UNCHANGED vars
    BY <2>3, Zenon DEF vars
  <2> QED BY <2>1, <2>2, <2>3, Zenon DEF Next, Helper
<1> QED BY <1>1, <1>3, <1>4, <1>5, Zenon

(* The helper reads a file it has loaded only when it is due.              *)
LEMMA ReadWhenDue ==
  ASSUME TypeOK, QuietInv, [Next]_vars, NEW f \in opened, seen'[f] # seen[f]
  PROVE  quiet[f] = Delay
<1>0. /\ worklist \subseteq (0 .. Delay) \X File /\ quiet \in [File -> 0 .. Delay]
      /\ opened \subseteq File /\ Delay \in Nat /\ seen \in [File -> Inode \cup {0}]
  BY WatchAssumption, Zenon DEF TypeOK, Types
<1>1. \E g \in File : LoadRead(g) \/ LoadRefused(g) \/ Open(g)
  BY Zenon DEF Next, Helper, Environment, Write, Replace, Remove, MoveAway, Create, Changed,
     Tick, Poll, HandleEvent, DetectEnd, LoadEnd, LoadWatch, vars
<1>2. Due(f)
  BY <1>0, <1>1, Zenon DEF LoadRead, LoadRefused, Open, Read
<1>3. <<0, f>> \in worklist
  BY <1>2, Zenon DEF Due
<1>4. quiet[f] + 0 >= Delay
  BY <1>3, Zenon DEF QuietInv
<1> QED BY <1>0, <1>4

(* Types and deadlines, in every state                                     *)
TimerInv == TypeOK /\ OneInv /\ QuietInv

(* The invariant holds in every state.                                     *)
THEOREM Timers == Spec => []TimerInv
<1>1. Init => TimerInv
  BY InitTypeOK, Zenon DEF TimerInv, QuietInv, Init
<1>2. TimerInv /\ [Next]_vars => TimerInv'
  BY NextTypeOK, NextQuietInv, Zenon DEF TimerInv
<1> QED BY <1>1, <1>2, PTL DEF Spec

(* Every variable keeps its type, and worklist_load of the helper has one  *)
(* entry for a file, however its events come in (filemodification_detect). *)
THEOREM TypeCorrect == Spec => []TypeOK
<1>1. TimerInv => TypeOK
  BY Zenon DEF TimerInv
<1> QED BY <1>1, Timers, PTL

(* helper_loop loads a file again only a second after the last event of it *)
(* was handled: no version is read while it is still being written.        *)
THEOREM QuietLoads == Spec => LoadsAreQuiet
<1>1. TimerInv /\ [Next]_vars =>
        [\A f \in File : (seen'[f] # seen[f] /\ f \in opened) => quiet[f] = Delay]_vars
  BY ReadWhenDue, Zenon DEF TimerInv
<1> QED BY <1>1, Timers, PTL DEF Spec, LoadsAreQuiet

-----------------------------------------------------------------------------
(* The events on their way to filemodification_detect, in order: those the *)
(* helper has read, then those in the kernel                               *)
Pending == 1 .. Len(buf) + Len(queue)
At(i) == IF i <= Len(buf) THEN buf[i] ELSE queue[i - Len(buf)]

NoOverflow == \A i \in 1 .. Len(queue) : queue[i].mask # "overflow"

(* The two parts of a sequence of which n elements are taken               *)
Split(q, n) ==
  /\ Len(SubSeq(q, 1, n)) = n
  /\ \A i \in 1 .. n : SubSeq(q, 1, n)[i] = q[i]
  /\ Len(SubSeq(q, n + 1, Len(q))) = Len(q) - n
  /\ \A i \in 1 .. Len(q) - n : SubSeq(q, n + 1, Len(q))[i] = q[i + n]

(* Reading events takes the first ones out of the queue of the kernel.     *)
LEMMA SplitFacts ==
  ASSUME NEW S, NEW q \in Seq(S), NEW n \in Nat, n <= Len(q)
  PROVE  Split(q, n)
<1>1. Len(q) \in Nat
  OBVIOUS
<1>2. Len(SubSeq(q, 1, n)) = n /\ \A i \in 1 .. n : SubSeq(q, 1, n)[i] = q[i]
  BY <1>1
<1>3. /\ Len(SubSeq(q, n + 1, Len(q))) = Len(q) - n
      /\ \A i \in 1 .. Len(q) - n : SubSeq(q, n + 1, Len(q))[i] = q[i + n]
  BY <1>1
<1> QED BY <1>2, <1>3, Zenon DEF Split

(* Events are only added.                                                  *)
Grows == \A i \in Pending : i \in Pending' /\ At(i)' = At(i)

(* An event that is queued is the last one on its way.                     *)
LEMMA OneQueued ==
  ASSUME TypeOK, NoOverflow', buf' = buf, NEW w, NEW m, Ev(w, m) \in Event,
         queue' = Queued(queue, w, m)
  PROVE  /\ Grows
         /\ \A i \in Pending' : i \in Pending \/ (w # 0 /\ At(i)' = Ev(w, m))
         /\ w # 0 => \E i \in Pending' : At(i)' = Ev(w, m)
<1>1. queue \in Seq(Event) /\ buf \in Seq(Event) /\ lastwd \in Nat
  BY Zenon DEF TypeOK, Types
<1>2. Ev(w, m) \in Event /\ Full \in Event /\ Full.mask = "overflow"
  BY <1>1 DEF Event, Mask, Ev, Full
<1>3. /\ queue' \in Seq(Event) /\ Len(queue') \in Len(queue) .. Len(queue) + 1
      /\ \A i \in 1 .. Len(queue) : queue'[i] = queue[i]
      /\ w = 0 => queue' = queue
      /\ w # 0 => Len(queue') > 0 /\ queue'[Len(queue')] = Ev(w, m)
  <2>1. /\ queue' \in Seq(Event) /\ Len(queue') \in Len(queue) .. Len(queue) + 1
        /\ \A i \in 1 .. Len(queue) : queue'[i] = queue[i]
        /\ w = 0 => queue' = queue
        /\ w # 0 => Len(queue') > 0 /\ queue'[Len(queue')] \in {Ev(w, m), Full}
    <3>1. Extended(queue', queue, w, Ev(w, m))
      BY <1>1, <1>2, QueuedFacts, Zenon
    <3> QED BY <3>1, Zenon DEF Extended
  <2>2. w # 0 => queue'[Len(queue')].mask # "overflow"
    BY <1>1, <2>1 DEF NoOverflow
  <2> QED BY <1>2, <2>1, <2>2, Zenon
<1>4. Len(queue) \in Nat /\ Len(queue') \in Nat /\ Len(buf) \in Nat
  BY <1>1, <1>3
<1>5. Grows
  BY <1>3, <1>4 DEF Grows, Pending, At
<1>6. ASSUME NEW i \in Pending', i \notin Pending
      PROVE  w # 0 /\ At(i)' = Ev(w, m)
  <2>1. i = Len(buf) + Len(queue') /\ Len(queue') = Len(queue) + 1
    BY <1>3, <1>4, <1>6 DEF Pending
  <2> QED BY <1>3, <1>4, <2>1 DEF At
<1>7. ASSUME w # 0
      PROVE  \E i \in Pending' : At(i)' = Ev(w, m)
  <2>1. PICK n \in Nat : n = Len(buf) + Len(queue')
    BY <1>4
  <2>2. n \in Pending' /\ At(n)' = queue'[Len(queue')]
    BY <1>3, <1>4, <1>7, <2>1 DEF Pending, At
  <2> QED BY <1>3, <1>7, <2>2, Zenon
<1> QED BY <1>5, <1>6, <1>7, Zenon

(* An inode that vanishes queues two events, one behind the other.         *)
LEMMA TwoQueued ==
  ASSUME TypeOK, NoOverflow', buf' = buf, NEW w \in 0 .. lastwd,
         queue' = Queued(Queued(queue, w, "delete"), w, "ignored")
  PROVE  /\ Grows
         /\ \A i \in Pending' : i \in Pending \/
              (w # 0 /\ \/ At(i)' = Ev(w, "delete")
                        \/ /\ At(i)' = Ev(w, "ignored")
                           /\ i > 1 /\ At(i - 1)' = Ev(w, "delete"))
         /\ w # 0 => /\ \E i \in Pending' : At(i)' = Ev(w, "delete")
                     /\ \E i \in Pending' : At(i)' = Ev(w, "ignored")
<1> DEFINE q == Queued(queue, w, "delete")
           e == Ev(w, "delete")
           g == Ev(w, "ignored")
<1>1. queue \in Seq(Event) /\ buf \in Seq(Event) /\ lastwd \in Nat
  BY Zenon DEF TypeOK, Types
<1>2. e \in Event /\ g \in Event /\ Full \in Event /\ Full.mask = "overflow" /\ e # g
  BY <1>1 DEF Event, Mask, Ev, Full
<1>3. /\ q \in Seq(Event) /\ Len(q) \in Len(queue) .. Len(queue) + 1
      /\ \A i \in 1 .. Len(queue) : q[i] = queue[i]
      /\ w = 0 => q = queue
      /\ w # 0 => Len(q) > 0 /\ q[Len(q)] \in {e, Full}
  <2>1. Extended(q, queue, w, e)
    BY <1>1, <1>2, QueuedFacts, Zenon
  <2> QED BY <2>1, Zenon DEF Extended
<1>4. queue' = Queued(q, w, "ignored")
  BY Zenon
<1> HIDE DEF q, e, g
<1>5. /\ queue' \in Seq(Event) /\ Len(queue') \in Len(q) .. Len(q) + 1
      /\ \A i \in 1 .. Len(q) : queue'[i] = q[i]
      /\ w = 0 => queue' = q
      /\ w # 0 => Len(queue') > 0 /\ queue'[Len(queue')] \in {g, Full}
  <2>1. Extended(queue', q, w, g)
    BY <1>2, <1>3, <1>4, QueuedFacts, Zenon DEF g
  <2> QED BY <2>1, Zenon DEF Extended
<1>6. Len(queue) \in Nat /\ Len(queue') \in Nat /\ Len(buf) \in Nat /\ Len(q) \in Nat
  BY <1>1, <1>3, <1>5
<1>7. ASSUME w # 0
      PROVE  /\ Len(q) > 0 /\ queue'[Len(q)] = e
             /\ Len(queue') = Len(q) + 1 /\ queue'[Len(q) + 1] = g
  BY <1>2, <1>3, <1>5, <1>6, <1>7 DEF NoOverflow
<1>8. Grows
  <2>1. \A j \in 1 .. Len(queue) : queue'[j] = queue[j]
    <3>1. 1 .. Len(queue) \subseteq 1 .. Len(q)
      BY <1>3, <1>6
    <3> QED BY <1>3, <1>5, <3>1, Zenon
  <2>2. Len(queue') >= Len(queue)
    BY <1>3, <1>5, <1>6
  <2> QED BY <1>6, <2>1, <2>2 DEF Grows, Pending, At
<1>9. ASSUME NEW i \in Pending', i \notin Pending
      PROVE  w # 0 /\ (At(i)' = e \/ (At(i)' = g /\ i > 1 /\ At(i - 1)' = e))
  <2>1. w # 0
    BY <1>3, <1>5, <1>6, <1>9, Zenon DEF Pending
  <2>2. i = Len(buf) + Len(q) + 1 \/ (i = Len(buf) + Len(q) /\ Len(q) = Len(queue) + 1)
    <3>1. Len(queue') = Len(q) + 1 /\ (Len(q) = Len(queue) \/ Len(q) = Len(queue) + 1)
      BY <1>3, <1>6, <1>7, <2>1
    <3> QED BY <1>6, <1>9, <3>1 DEF Pending
  <2> QED BY <1>6, <1>7, <2>1, <2>2 DEF At
<1>10. ASSUME w # 0
       PROVE  (\E i \in Pending' : At(i)' = e) /\ (\E i \in Pending' : At(i)' = g)
  <2>1. PICK n \in Nat : n = Len(buf) + Len(q)
    BY <1>6
  <2>2. n \in Pending' /\ n + 1 \in Pending'
    BY <1>6, <1>7, <1>10, <2>1 DEF Pending
  <2>3. At(n)' = e /\ At(n + 1)' = g
    BY <1>6, <1>7, <1>10, <2>1 DEF At
  <2> QED BY <2>2, <2>3, Zenon
<1> QED BY <1>8, <1>9, <1>10, Zenon DEF e, g
-----------------------------------------------------------------------------
(* An inode is at one path at most and does not come back, and inodes that *)
(* have not been used are not watched.                                     *)
PathInv ==
  /\ \A f \in File : path[f] <= Cardinality(File) + changes
  /\ \A f \in File : f \notin gone => path[f] # 0
  /\ \A f, g \in File : path[f] = path[g] /\ path[f] # 0 => f = g
  /\ \A i \in Inode : i > Cardinality(File) + changes => mark[i] = 0

(* A watch is of one inode and belongs to one file; that of the inode at a *)
(* path belongs to the file of this path.                                  *)
MarkInv ==
  /\ \A f \in File : path[f] # 0 => mark[path[f]] \in {0, wd[f]}
  /\ \A f, g \in File : wd[f] = wd[g] /\ wd[f] # 0 => f = g
  /\ \A i, j \in Inode : mark[i] = mark[j] /\ mark[i] # 0 => i = j

(* File f gets a new watch, if it exists, and its old one is closed.       *)
Rewatched(f) ==
  /\ lastwd' = IF path[f] = 0 THEN lastwd ELSE lastwd + 1
  /\ wd' = [wd EXCEPT ![f] = IF path[f] = 0 THEN 0 ELSE lastwd + 1]
  /\ mark' = [i \in Inode |-> IF i = path[f] THEN lastwd + 1
                              ELSE IF wd[f] # 0 /\ mark[i] = wd[f] THEN 0 ELSE mark[i]]

(* ObjectIdentity::watch either keeps the watch there is, or installs a    *)
(* new one and closes the old one.                                         *)
LEMMA WatchAgain ==
  ASSUME TypeOK, MarkInv, NEW f \in File, NEW b \in BOOLEAN, watch(f, b, b)
  PROVE  \/ ~b /\ wd[f] # 0 /\ UNCHANGED <<mark, queue, lastwd, wd>>
         \/ /\ b \/ wd[f] = 0
            /\ Rewatched(f)
            /\ \/ queue' = queue
               \/ /\ wd[f] # 0 /\ \E n \in Inode : mark[n] = wd[f]
                  /\ queue' = Queued(queue, wd[f], "ignored")
<1>0. /\ path[f] \in Inode \cup {0} /\ 0 \notin Inode /\ mark \in [Inode -> 0 .. lastwd]
      /\ wd \in [File -> 0 .. lastwd]
  BY DEF TypeOK, Types, Inode
<1>1. CASE ~(wd[f] = 0 \/ b)
  BY <1>1, Zenon DEF watch, kernelVars
<1>2. CASE wd[f] = 0 \/ b
  <2> DEFINE old == {i \in Inode : b /\ wd[f] # 0 /\ mark[i] = wd[f]}
             m == [i \in Inode |-> IF i \in old THEN 0 ELSE mark[i]]
             q == IF old = {} THEN queue ELSE Queued(queue, wd[f], "ignored")
  <2>1. AddWatch(f, m, q)
    BY <1>2, Zenon DEF watch
  <2>2. m = [i \in Inode |-> IF wd[f] # 0 /\ mark[i] = wd[f] THEN 0 ELSE mark[i]]
    BY <1>2, Zenon
  <2>3. path[f] # 0 => m[path[f]] = 0
    BY <1>0, <1>2, Zenon DEF MarkInv
  <2>4. \/ q = queue
        \/ /\ wd[f] # 0 /\ \E n \in Inode : mark[n] = wd[f]
           /\ q = Queued(queue, wd[f], "ignored")
    BY Zenon
  <2> HIDE DEF m, q
  <2>5. queue' = q
    BY <2>1, Zenon DEF AddWatch
  <2>6. CASE path[f] = 0
    <3>1. lastwd' = lastwd /\ mark' = m /\ wd' = [wd EXCEPT ![f] = 0]
      BY <2>1, <2>6, Zenon DEF AddWatch
    <3>2. mark' = [i \in Inode |-> IF i = path[f] THEN lastwd + 1
                                  ELSE IF wd[f] # 0 /\ mark[i] = wd[f] THEN 0 ELSE mark[i]]
      BY <1>0, <2>2, <2>6, <3>1, Zenon
    <3> QED BY <1>2, <2>4, <2>5, <2>6, <3>1, <3>2, Zenon DEF Rewatched
  <2>7. CASE path[f] # 0
    <3>1. /\ lastwd' = lastwd + 1 /\ wd' = [wd EXCEPT ![f] = lastwd + 1]
          /\ mark' = [m EXCEPT ![path[f]] = lastwd + 1]
      BY <2>1, <2>3, <2>7, Zenon DEF AddWatch
    <3>2. mark' = [i \in Inode |-> IF i = path[f] THEN lastwd + 1
                                  ELSE IF wd[f] # 0 /\ mark[i] = wd[f] THEN 0 ELSE mark[i]]
      BY <1>0, <2>2, <2>7, <3>1, Zenon
    <3> QED BY <1>2, <2>4, <2>5, <2>7, <3>1, <3>2, Zenon DEF Rewatched
  <2> QED BY <2>6, <2>7, Zenon
<1> QED BY <1>1, <1>2, Zenon

(* What a change of file f does: other files keep what they have, events   *)
(* are of the watch of its inode, and if it always exists, a watched file  *)
(* gets one; its watch vanishes only with another one behind it.           *)
ChangedFile(f) ==
  /\ UNCHANGED <<lastwd, wd, opened, seen, worklist, quiet, buf, pc, loading>>
  /\ changes' = changes + 1 /\ gone \subseteq gone' /\ (QuietLoad => loading.file # f)
  /\ \A g \in File \ {f} : path'[g] = path[g] /\ Content(g)' = Content(g)
  /\ path'[f] \in {0, path[f], New} /\ (f \notin gone' => path'[f] # 0)
  /\ \A i \in Inode : mark'[i] = mark[i] \/ (mark'[i] = 0 /\ i = path[f])
  /\ Grows
  /\ \A i \in Pending' : i \in Pending \/
       /\ path[f] # 0 /\ mark[path[f]] # 0 /\ At(i)'.wd = mark[path[f]]
       /\ At(i)'.mask = "ignored" =>
            /\ i > 1 /\ At(i - 1)' = Ev(mark[path[f]], "delete")
            /\ mark'[path[f]] = 0
  /\ f \notin gone' /\ mark[path[f]] # 0 =>
       /\ \E i \in Pending' : At(i)'.wd = mark[path[f]] /\ At(i)'.mask # "ignored"
       /\ \/ path'[f] = path[f] /\ mark'[path[f]] = mark[path[f]]
          \/ \E i \in Pending' : At(i)' = Ev(mark[path[f]], "ignored")
          \/ f \in Exec

(* A new watch is the file's own, and leaves those of other files alone.   *)
LEMMA RewatchedKeeps ==
  ASSUME TypeOK, PathInv, MarkInv, NEW f \in File, Rewatched(f), UNCHANGED fsVars
  PROVE  /\ PathInv' /\ MarkInv' /\ wd'[f] \notin 1 .. lastwd
         /\ path[f] # 0 => wd'[f] # 0 /\ mark'[path[f]] = wd'[f]
         /\ \A g \in File \ {f} : wd'[g] = wd[g] /\ (path[g] # 0 => mark'[path[g]] = mark[path[g]])
         /\ \A g \in File \ {f}, n \in Inode : wd[g] # 0 /\ mark'[n] = wd[g] => mark[n] = wd[g]
<1>0. /\ path \in [File -> Inode \cup {0}] /\ mark \in [Inode -> 0 .. lastwd] /\ 0 \notin Inode
      /\ wd \in [File -> 0 .. lastwd] /\ lastwd \in Nat
  BY DEF TypeOK, Types, Inode
<1>1. path' = path /\ changes' = changes /\ gone' = gone
  BY Zenon DEF fsVars
<1>2. wd'[f] = (IF path[f] = 0 THEN 0 ELSE lastwd + 1) /\ \A g \in File \ {f} : wd'[g] = wd[g]
  BY <1>0, Zenon DEF Rewatched
<1>3. path[f] # 0 => path[f] \in Inode /\ mark'[path[f]] = lastwd + 1
  BY <1>0, Zenon DEF Rewatched
<1>4. \A i \in Inode : i # path[f] => mark'[i] = IF wd[f] # 0 /\ mark[i] = wd[f] THEN 0 ELSE mark[i]
  BY Zenon DEF Rewatched
<1>5. \A i \in Inode : mark[i] \in 0 .. lastwd
  BY <1>0, Zenon
<1>6. \A g \in File : wd[g] \in 0 .. lastwd
  BY <1>0, Zenon
<1>7. \A g \in File \ {f} : path[g] # 0 => path[g] \in Inode /\ path[g] # path[f]
  BY <1>0, Zenon DEF PathInv
<1>8. \A g \in File \ {f} : path[g] # 0 => mark'[path[g]] = mark[path[g]]
  BY <1>4, <1>7 DEF MarkInv
<1>9. PathInv'
  <2>1. \A i \in Inode : i > Cardinality(File) + changes => i # path[f]
    <3>1. path[f] <= Cardinality(File) + changes /\ changes \in Nat
      BY DEF PathInv, TypeOK, Types
    <3> QED BY <3>1, InodeFacts DEF Inode
  <2>2. \A i \in Inode : i > Cardinality(File) + changes => mark'[i] = 0
    BY <1>4, <2>1, Zenon DEF PathInv
  <2> QED BY <1>1, <2>2, Zenon DEF PathInv
<1>10. MarkInv'
  <2>1. \A g \in File : path[g] # 0 => mark'[path[g]] \in {0, wd'[g]}
    BY <1>2, <1>3, <1>8, Zenon DEF MarkInv
  <2>2. \A g, h \in File : wd'[g] = wd'[h] /\ wd'[g] # 0 => g = h
    BY <1>0, <1>2, <1>6 DEF MarkInv
  <2>3. \A i, j \in Inode : mark'[i] = mark'[j] /\ mark'[i] # 0 => i = j
    BY <1>0, <1>3, <1>4, <1>5 DEF MarkInv
  <2> QED BY <1>1, <2>1, <2>2, <2>3, Zenon DEF MarkInv
<1>11. \A g \in File \ {f}, n \in Inode : wd[g] # 0 /\ mark'[n] = wd[g] => mark[n] = wd[g]
  BY <1>0, <1>3, <1>4, <1>6
<1> QED BY <1>0, <1>2, <1>3, <1>8, <1>9, <1>10, <1>11

(* This is what the file system does.                                      *)
LEMMA EnvironmentStep ==
  ASSUME TypeOK, PathInv, NoOverflow', NEW f \in File,
         Write(f) \/ Replace(f) \/ Remove(f) \/ MoveAway(f) \/ Create(f)
  PROVE  ChangedFile(f)
<1> DEFINE w == mark[path[f]]
<1>1. /\ changes' = changes + 1 /\ changes < MaxChanges /\ (QuietLoad => loading.file # f)
      /\ UNCHANGED <<lastwd, wd, opened, seen, worklist, quiet, buf, pc, loading>>
  BY Zenon DEF Write, Replace, Remove, MoveAway, Create, Changed
<1>2. /\ path \in [File -> Inode \cup {0}] /\ content \in [Inode -> Inode \cup {0}]
      /\ changes \in 0 .. MaxChanges /\ mark \in [Inode -> 0 .. lastwd] /\ 0 \notin Inode
      /\ lastwd \in Nat
  BY DEF TypeOK, Types, Inode
<1>3. New \in Inode /\ \A g \in File : path[g] # New
  BY <1>1, <1>2, InodeFacts DEF PathInv, New
<1>4. \A m \in Mask : path[f] # 0 => Ev(w, m) \in Event /\ w \in 0 .. lastwd
  BY <1>2, Zenon DEF Event, Ev
<1>5. \A m : Ev(w, m).wd = w /\ Ev(w, m).mask = m
  BY Zenon DEF Ev
<1>6. {"modify", "attrib", "delete", "move", "ignored"} \subseteq Mask
  BY Zenon DEF Mask
<1> HIDE DEF w
<1>7. CASE Write(f)
  <2>1. /\ path[f] # 0 /\ UNCHANGED <<path, mark, gone>>
        /\ content' = [content EXCEPT ![path[f]] = New]
        /\ queue' = Queued(queue, w, "modify")
    BY <1>7, Zenon DEF Write, w
  <2>2. /\ Grows /\ \A i \in Pending' : i \in Pending \/ (w # 0 /\ At(i)' = Ev(w, "modify"))
        /\ w # 0 => \E i \in Pending' : At(i)' = Ev(w, "modify")
    BY <1>1, <1>4, <1>6, <2>1, OneQueued, Zenon
  <2>3. \A g \in File \ {f} : Content(g)' = Content(g)
    BY <1>2, <2>1, Zenon DEF Content, PathInv
  <2>4. \A i \in Pending' : i \in Pending \/ (w # 0 /\ At(i)'.wd = w /\ At(i)'.mask # "ignored")
    BY <1>5, <2>2, Zenon
  <2>5. w # 0 => \E i \in Pending' : At(i)'.wd = w /\ At(i)'.mask # "ignored"
    BY <1>5, <2>2, Zenon
  <2>6. f \notin gone' => path'[f] # 0
    BY <2>1, Zenon
  <2> QED BY <1>1, <2>1, <2>2, <2>3, <2>4, <2>5, <2>6, Zenon DEF ChangedFile, w
<1>8. CASE Replace(f)
  <2>1. /\ path[f] # 0 /\ gone' = gone /\ path' = [path EXCEPT ![f] = New]
        /\ content' = [content EXCEPT ![New] = New] /\ Unlinked(path[f], Running(f))
    BY <1>8, Zenon DEF Replace
  <2>2. path'[f] = New /\ New # 0 /\ \A g \in File \ {f} : path'[g] = path[g]
    BY <1>2, <1>3, <2>1, Zenon
  <2>3. \A g \in File \ {f} : Content(g)' = Content(g)
    BY <1>2, <1>3, <2>1, <2>2, Zenon DEF Content
  <2>4. CASE Running(f)
    <3>1. queue' = Queued(queue, w, "attrib") /\ mark' = mark /\ f \in Exec
      BY <2>1, <2>4, Zenon DEF Unlinked, Running, w
    <3>2. /\ Grows /\ \A i \in Pending' : i \in Pending \/ (w # 0 /\ At(i)' = Ev(w, "attrib"))
          /\ w # 0 => \E i \in Pending' : At(i)' = Ev(w, "attrib")
      BY <1>1, <1>4, <1>6, <2>1, <3>1, OneQueued, Zenon
    <3>3. \A i \in Pending' : i \in Pending \/ (w # 0 /\ At(i)'.wd = w /\ At(i)'.mask # "ignored")
      BY <1>5, <3>2, Zenon
    <3>4. w # 0 => \E i \in Pending' : At(i)'.wd = w /\ At(i)'.mask # "ignored"
      BY <1>5, <3>2, Zenon
    <3> QED BY <1>1, <2>1, <2>2, <2>3, <3>1, <3>2, <3>3, <3>4, Zenon DEF ChangedFile, w
  <2>5. CASE ~Running(f)
    <3>1. /\ queue' = Queued(Queued(queue, w, "delete"), w, "ignored")
          /\ mark' = [mark EXCEPT ![path[f]] = 0]
      BY <2>1, <2>5, Zenon DEF Unlinked, w
    <3>2. /\ Grows
          /\ \A i \in Pending' : i \in Pending \/
               (w # 0 /\ \/ At(i)' = Ev(w, "delete")
                         \/ /\ At(i)' = Ev(w, "ignored")
                            /\ i > 1 /\ At(i - 1)' = Ev(w, "delete"))
          /\ w # 0 => /\ \E i \in Pending' : At(i)' = Ev(w, "delete")
                      /\ \E i \in Pending' : At(i)' = Ev(w, "ignored")
      BY <1>1, <1>4, <1>6, <2>1, <3>1, TwoQueued, Zenon
    <3>3. mark'[path[f]] = 0 /\ \A i \in Inode : mark'[i] = mark[i] \/ (mark'[i] = 0 /\ i = path[f])
      BY <1>2, <2>1, <3>1, Zenon
    <3>4. \A i \in Pending' : i \in Pending \/
            (w # 0 /\ At(i)'.wd = w
             /\ (At(i)'.mask = "ignored" => i > 1 /\ At(i - 1)' = Ev(w, "delete")))
      BY <1>5, <3>2, Zenon
    <3>5. w # 0 => \E i \in Pending' : At(i)'.wd = w /\ At(i)'.mask # "ignored"
      BY <1>5, <3>2, Zenon
    <3> QED BY <1>1, <2>1, <2>2, <2>3, <3>2, <3>3, <3>4, <3>5, Zenon DEF ChangedFile, w
  <2> QED BY <2>4, <2>5, Zenon
<1>9. CASE Remove(f)
  <2>1. /\ path[f] # 0 /\ gone' = gone \cup {f} /\ path' = [path EXCEPT ![f] = 0]
        /\ content' = content /\ Unlinked(path[f], Running(f))
    BY <1>9, Zenon DEF Remove
  <2>2. path'[f] = 0 /\ \A g \in File \ {f} : path'[g] = path[g] /\ Content(g)' = Content(g)
    BY <1>2, <2>1, Zenon DEF Content
  <2>3. CASE Running(f)
    <3>1. queue' = Queued(queue, w, "attrib") /\ mark' = mark
      BY <2>1, <2>3, Zenon DEF Unlinked, w
    <3>2. Grows /\ \A i \in Pending' : i \in Pending \/ (w # 0 /\ At(i)' = Ev(w, "attrib"))
      BY <1>1, <1>4, <1>6, <2>1, <3>1, OneQueued, Zenon
    <3>3. \A i \in Pending' : i \in Pending \/ (w # 0 /\ At(i)'.wd = w /\ At(i)'.mask # "ignored")
      BY <1>5, <3>2, Zenon
    <3> QED BY <1>1, <2>1, <2>2, <3>1, <3>2, <3>3, Zenon DEF ChangedFile, w
  <2>4. CASE ~Running(f)
    <3>1. /\ queue' = Queued(Queued(queue, w, "delete"), w, "ignored")
          /\ mark' = [mark EXCEPT ![path[f]] = 0]
      BY <2>1, <2>4, Zenon DEF Unlinked, w
    <3>2. /\ Grows
          /\ \A i \in Pending' : i \in Pending \/
               (w # 0 /\ \/ At(i)' = Ev(w, "delete")
                         \/ /\ At(i)' = Ev(w, "ignored")
                            /\ i > 1 /\ At(i - 1)' = Ev(w, "delete"))
      BY <1>1, <1>4, <1>6, <2>1, <3>1, TwoQueued, Zenon
    <3>3. mark'[path[f]] = 0 /\ \A i \in Inode : mark'[i] = mark[i] \/ (mark'[i] = 0 /\ i = path[f])
      BY <1>2, <2>1, <3>1, Zenon
    <3>4. \A i \in Pending' : i \in Pending \/
            (w # 0 /\ At(i)'.wd = w
             /\ (At(i)'.mask = "ignored" => i > 1 /\ At(i - 1)' = Ev(w, "delete")))
      BY <1>5, <3>2, Zenon
    <3> QED BY <1>1, <2>1, <2>2, <3>2, <3>3, <3>4, Zenon DEF ChangedFile, w
  <2> QED BY <2>3, <2>4
<1>10. CASE MoveAway(f)
  <2>1. /\ path[f] # 0 /\ gone' = gone \cup {f} /\ path' = [path EXCEPT ![f] = 0]
        /\ content' = content /\ mark' = mark /\ queue' = Queued(queue, w, "move")
    BY <1>10, Zenon DEF MoveAway, w
  <2>2. path'[f] = 0 /\ \A g \in File \ {f} : path'[g] = path[g] /\ Content(g)' = Content(g)
    BY <1>2, <2>1, Zenon DEF Content
  <2>3. Grows /\ \A i \in Pending' : i \in Pending \/ (w # 0 /\ At(i)' = Ev(w, "move"))
    BY <1>1, <1>4, <1>6, <2>1, OneQueued, Zenon
  <2>4. \A i \in Pending' : i \in Pending \/ (w # 0 /\ At(i)'.wd = w /\ At(i)'.mask # "ignored")
    BY <1>5, <2>3, Zenon
  <2> QED BY <1>1, <2>1, <2>2, <2>3, <2>4, Zenon DEF ChangedFile, w
<1>11. CASE Create(f)
  <2>1. /\ path[f] = 0 /\ path' = [path EXCEPT ![f] = New] /\ gone' = gone
        /\ content' = [content EXCEPT ![New] = New] /\ mark' = mark /\ queue' = queue
    BY <1>11, Zenon DEF Create
  <2>2. path'[f] = New /\ \A g \in File \ {f} : path'[g] = path[g] /\ Content(g)' = Content(g)
    BY <1>2, <1>3, <2>1, Zenon DEF Content
  <2>3. Pending' = Pending /\ \A i : At(i)' = At(i)
    BY <1>1, <2>1, Zenon DEF Pending, At
  <2>4. f \in gone
    BY <2>1, Zenon DEF PathInv
  <2> QED BY <1>1, <2>1, <2>2, <2>3, <2>4, Zenon DEF ChangedFile, Grows
<1> QED BY <1>7, <1>8, <1>9, <1>10, <1>11, Zenon

-----------------------------------------------------------------------------
(* Events of the watch of a file, other than that it is no longer watched, *)
(* and this one                                                            *)
Of(i, f) == wd[f] # 0 /\ At(i).wd = wd[f]
Noticed(f) == \E i \in Pending : Of(i, f) /\ At(i).mask # "ignored"
Ignored(f) == \E i \in Pending : Of(i, f) /\ At(i).mask = "ignored"

Listed(f) == \E e \in worklist : e[2] = f

(* Files that were never opened are unknown; one that is being loaded was  *)
(* read as it is now, and has its entry or is opened for the first time.   *)
LoadingInv ==
  /\ pc # "detect" => buf = <<>>
  /\ \A f \in File \ opened : wd[f] = 0 /\ ~Listed(f)
  /\ \A f \in File : loading.file = f =>
       /\ f \in opened /\ path[f] # 0 /\ seen[f] = Content(f)
       /\ loading.by = "helper" => pc = "load" /\ <<0, f>> \in worklist
       /\ loading.by = "application" => wd[f] = 0 /\ ~Listed(f)

(* When a watch has vanished, the event of this comes directly behind one  *)
(* that puts the file in the worklist, or is the next one, and the entry   *)
(* is not due before it is handled.                                        *)
IgnoredInv ==
  \A f \in File, i \in Pending : Of(i, f) /\ At(i).mask = "ignored" =>
    /\ \A n \in Inode : mark[n] # wd[f]
    /\ \/ i > 1 /\ Of(i - 1, f) /\ At(i - 1).mask # "ignored"
       \/ /\ i = 1 /\ Listed(f)
          /\ pc # "poll" /\ buf = <<>> => <<0, f>> \notin worklist

(* The inode at the path of a loaded file is watched, or will be: when the *)
(* helper learns that the watch has vanished, or loads the binary again.   *)
WatchInv ==
  \A f \in opened \ gone :
    \/ loading.file = f /\ loading.by = "application"
    \/ /\ wd[f] # 0
       /\ \/ mark[path[f]] = wd[f]
          \/ Ignored(f)
          \/ f \in Exec /\ (Listed(f) \/ Noticed(f))

(* What was read last is there still, or the helper will look again.       *)
SeenInv ==
  \A f \in opened \ gone : seen[f] = Content(f) \/ Listed(f) \/ Noticed(f)

MissInv == PathInv /\ MarkInv /\ LoadingInv /\ IgnoredInv /\ WatchInv /\ SeenInv

(* An event stays on its way when others are added.                        *)
LEMMA StaysPending ==
  ASSUME Grows, NEW f, wd'[f] = wd[f]
  PROVE  (Noticed(f) => Noticed(f)') /\ (Ignored(f) => Ignored(f)')
BY Zenon DEF Grows, Noticed, Ignored, Of

(* A file that is not watched has an entry or an event.                    *)
LEMMA Unwatched ==
  ASSUME TypeOK, MissInv, NEW f \in opened \ gone, loading.file # f, mark[path[f]] = 0
  PROVE  Listed(f) \/ Noticed(f)
<1>1. Ignored(f) => Listed(f) \/ Noticed(f)
  <2> SUFFICES ASSUME NEW i \in Pending, Of(i, f), At(i).mask = "ignored"
               PROVE  Listed(f) \/ Noticed(f)
    BY Zenon DEF Ignored
  <2>1. f \in File /\ Len(buf) + Len(queue) \in Nat
    BY DEF TypeOK, Types
  <2>2. i > 1 => i - 1 \in Pending
    BY <2>1 DEF Pending
  <2> QED BY <2>1, <2>2, Zenon DEF MissInv, IgnoredInv, Noticed
<1> QED BY <1>1, Zenon DEF MissInv, WatchInv

(* A change of the file system keeps the invariant.                        *)
LEMMA EnvironmentMiss ==
  ASSUME QuietLoad, TypeOK, TypeOK', MissInv, NEW f \in File, ChangedFile(f)
  PROVE  MissInv'
<1>0. /\ path \in [File -> Inode \cup {0}] /\ mark \in [Inode -> 0 .. lastwd] /\ 0 \notin Inode
      /\ opened \subseteq File /\ changes \in Nat /\ Cardinality(File) \in Nat
      /\ Inode \subseteq Nat /\ path' \in [File -> Inode \cup {0}]
  BY InodeFacts DEF TypeOK, Types, Inode
<1>1. /\ PathInv /\ MarkInv /\ LoadingInv /\ IgnoredInv /\ WatchInv /\ SeenInv
      /\ New = Cardinality(File) + changes + 1 /\ Grows
      /\ wd' = wd /\ opened' = opened /\ seen' = seen /\ worklist' = worklist
      /\ buf' = buf /\ pc' = pc /\ loading' = loading
      /\ changes' = changes + 1 /\ gone \subseteq gone' /\ loading.file # f
  BY Zenon DEF MissInv, New, ChangedFile
<1>2. /\ \A g \in File \ {f} : path'[g] = path[g] /\ Content(g)' = Content(g)
      /\ path'[f] \in {0, path[f], New} /\ (f \notin gone' => path'[f] # 0)
      /\ \A i \in Inode : mark'[i] = mark[i] \/ (mark'[i] = 0 /\ i = path[f])
  BY Zenon DEF ChangedFile
<1>3. PathInv'
  <2>0. \A g \in File : path[g] \in Nat
    <3>1. \A g \in File : path[g] \in Inode \cup {0}
      BY <1>0, Zenon
    <3> QED BY <3>1 DEF Inode
  <2>1. \A g \in File : path[g] <= Cardinality(File) + changes /\ path[g] \in Nat
    BY <1>1, <2>0, Zenon DEF PathInv
  <2>2. \A g \in File : path'[g] <= Cardinality(File) + changes'
    BY <1>0, <1>1, <1>2, <2>1
  <2>3. \A g \in File : g \notin gone' => path'[g] # 0
    BY <1>1, <1>2, Zenon DEF PathInv
  <2>4. \A g, h \in File : path'[g] = path'[h] /\ path'[g] # 0 => g = h
    <3>1. \A g \in File : path[g] # New
      BY <1>0, <1>1, <2>1
    <3>2. \A g, h \in File : path[g] = path[h] /\ path[g] # 0 => g = h
      BY <1>1, Zenon DEF PathInv
    <3>3. \A g \in File \ {f} : path'[g] = path'[f] => path'[g] = 0
      BY <1>2, <3>1, <3>2, Zenon
    <3> QED BY <1>2, <3>2, <3>3, Zenon
  <2>5. \A i \in Inode : i > Cardinality(File) + changes' => mark'[i] = 0
    <3> SUFFICES ASSUME NEW i \in Inode, i > Cardinality(File) + changes' PROVE mark'[i] = 0
      BY Zenon
    <3>1. i > Cardinality(File) + changes
      BY <1>0, <1>1
    <3> QED BY <1>1, <1>2, <3>1, Zenon DEF PathInv
  <2> QED BY <2>2, <2>3, <2>4, <2>5, Zenon DEF PathInv
<1>4. MarkInv'
  <2>1. ASSUME NEW g \in File, path'[g] # 0 PROVE mark'[path'[g]] \in {0, wd[g]}
    <3>1. CASE path'[g] = path[g]
      BY <1>0, <1>1, <1>2, <2>1, <3>1, Zenon DEF MarkInv
    <3>2. CASE g = f /\ path'[f] = New
      <4>1. New \in Inode /\ New > Cardinality(File) + changes
        BY <1>0, <1>1, <2>1, <3>2
      <4>2. mark[New] = 0
        BY <1>1, <4>1, Zenon DEF PathInv
      <4> QED BY <1>2, <3>2, <4>1, <4>2, Zenon
    <3> QED BY <1>2, <2>1, <3>1, <3>2, Zenon
  <2>2. \A i, j \in Inode : mark'[i] = mark'[j] /\ mark'[i] # 0 => i = j
    BY <1>1, <1>2 DEF MarkInv
  <2> QED BY <1>1, <2>1, <2>2, Zenon DEF MarkInv
<1>5. LoadingInv'
  BY <1>1, <1>2, Zenon DEF LoadingInv, Listed
<1>6. IgnoredInv'
  <2> SUFFICES ASSUME NEW g \in File, NEW i \in Pending', Of(i, g)', At(i)'.mask = "ignored"
               PROVE  /\ \A n \in Inode : mark'[n] # wd[g]
                      /\ \/ i > 1 /\ Of(i - 1, g)' /\ At(i - 1)'.mask # "ignored"
                         \/ /\ i = 1 /\ Listed(g)
                            /\ pc # "poll" /\ buf = <<>> => <<0, g>> \notin worklist
    BY <1>1, Zenon DEF IgnoredInv, Listed
  <2>1. wd[g] # 0 /\ At(i)'.wd = wd[g]
    BY <1>1, Zenon DEF Of
  <2>2. CASE i \in Pending
    <3>1. Of(i, g) /\ At(i).mask = "ignored"
      BY <1>1, <2>1, <2>2, Zenon DEF Grows, Of
    <3>2. /\ \A n \in Inode : mark[n] # wd[g]
          /\ \/ i > 1 /\ Of(i - 1, g) /\ At(i - 1).mask # "ignored"
             \/ /\ i = 1 /\ Listed(g)
                /\ pc # "poll" /\ buf = <<>> => <<0, g>> \notin worklist
      BY <1>1, <2>2, <3>1, Zenon DEF IgnoredInv
    <3>3. i > 1 => i - 1 \in Pending
      BY <2>2 DEF Pending
    <3> QED BY <1>1, <1>2, <2>1, <3>2, <3>3, Zenon DEF Grows, Of
  <2>3. CASE i \notin Pending
    <3>1. /\ path[f] # 0 /\ mark[path[f]] # 0 /\ At(i)'.wd = mark[path[f]]
          /\ i > 1 /\ At(i - 1)' = Ev(mark[path[f]], "delete") /\ mark'[path[f]] = 0
      BY <2>3, Zenon DEF ChangedFile
    <3>2. At(i - 1)'.wd = wd[g] /\ At(i - 1)'.mask # "ignored"
      BY <2>1, <3>1 DEF Ev
    <3>3. \A n \in Inode : mark'[n] # wd[g]
      <4>1. path[f] \in Inode /\ mark[path[f]] = wd[g]
        BY <1>0, <2>1, <3>1, Zenon
      <4>2. \A n \in Inode : mark[n] = wd[g] => n = path[f]
        BY <1>1, <2>1, <4>1, Zenon DEF MarkInv
      <4> QED BY <1>2, <2>1, <3>1, <4>2, Zenon
    <3> QED BY <1>1, <2>1, <3>1, <3>2, <3>3, Zenon DEF Of
  <2> QED BY <2>2, <2>3, Zenon
<1>7. ASSUME NEW g \in opened \ gone', g # f
      PROVE  mark'[path'[g]] = mark[path[g]] /\ path[g] # 0
  <2>1. g \in File /\ g \notin gone /\ path'[g] = path[g]
    BY <1>0, <1>1, <1>2, <1>7, Zenon
  <2>2. path[g] # 0 /\ path[g] # path[f] /\ path[g] \in Inode
    BY <1>0, <1>1, <1>7, <2>1, Zenon DEF PathInv
  <2> QED BY <1>2, <2>1, <2>2, Zenon
<1>8. WatchInv'
  <2> SUFFICES ASSUME NEW g \in opened \ gone', ~(loading.file = g /\ loading.by = "application")
               PROVE  /\ wd[g] # 0
                      /\ \/ mark'[path'[g]] = wd[g]
                         \/ Ignored(g)'
                         \/ g \in Exec /\ (Listed(g) \/ Noticed(g)')
    BY <1>1, Zenon DEF WatchInv, Listed
  <2>1. /\ wd[g] # 0
        /\ \/ mark[path[g]] = wd[g]
           \/ Ignored(g)
           \/ g \in Exec /\ (Listed(g) \/ Noticed(g))
    BY <1>1, Zenon DEF WatchInv
  <2>2. (Noticed(g) => Noticed(g)') /\ (Ignored(g) => Ignored(g)')
    BY <1>1, StaysPending, Zenon
  <2>3. CASE g = f /\ mark[path[g]] = wd[g]
    <3>1. /\ \E i \in Pending' : At(i)'.wd = wd[g] /\ At(i)'.mask # "ignored"
          /\ \/ path'[f] = path[f] /\ mark'[path[f]] = mark[path[f]]
             \/ \E i \in Pending' : At(i)' = Ev(wd[g], "ignored")
             \/ f \in Exec
      BY <2>1, <2>3, Zenon DEF ChangedFile
    <3>2. Noticed(g)'
      BY <1>1, <2>1, <3>1, Zenon DEF Noticed, Of
    <3>3. (\E i \in Pending' : At(i)' = Ev(wd[g], "ignored")) => Ignored(g)'
      BY <1>1, <2>1 DEF Ignored, Of, Ev
    <3> QED BY <2>1, <2>3, <3>1, <3>2, <3>3, Zenon
  <2> QED BY <1>7, <2>1, <2>2, <2>3, Zenon
<1>9. SeenInv'
  <2> SUFFICES ASSUME NEW g \in opened \ gone'
               PROVE  seen[g] = Content(g)' \/ Listed(g) \/ Noticed(g)'
    BY <1>1, Zenon DEF SeenInv, Listed
  <2>1. (Noticed(g) => Noticed(g)') /\ (Ignored(g) => Ignored(g)')
    BY <1>1, StaysPending, Zenon
  <2>2. CASE g # f
    BY <1>0, <1>1, <1>2, <2>1, <2>2, Zenon DEF SeenInv
  <2>3. CASE g = f /\ mark[path[f]] # 0
    <3>1. mark[path[f]] = wd[f]
      BY <1>0, <1>1, <2>3, Zenon DEF MarkInv, PathInv
    <3>2. \E i \in Pending' : At(i)'.wd = wd[f] /\ At(i)'.mask # "ignored"
      BY <2>3, <3>1, Zenon DEF ChangedFile
    <3> QED BY <1>1, <2>3, <3>1, <3>2, Zenon DEF Noticed, Of
  <2>4. CASE g = f /\ mark[path[f]] = 0
    BY <1>1, <2>1, <2>4, Unwatched, Zenon
  <2> QED BY <2>2, <2>3, <2>4, Zenon
<1> QED BY <1>3, <1>4, <1>5, <1>6, <1>8, <1>9, Zenon DEF MissInv

(* The events on their way are those of before.                            *)
SameEvents ==
  /\ UNCHANGED <<fsVars, mark, lastwd, wd>>
  /\ \A i : i \in Pending' <=> i \in Pending
  /\ \A i \in Pending : At(i)' = At(i)

(* The entry of f is not due before an event that has been read is handled.*)
Waits(f) == Listed(f) /\ (pc # "poll" /\ buf = <<>> => <<0, f>> \notin worklist)

(* What a step of the helper that handles no event has to keep.            *)
KeepsWaiting == \A f \in File : 1 \in Pending /\ Waits(f) => Waits(f)'
KeepsSeen ==
  \A f \in opened' \ gone :
    \/ /\ f \in opened /\ seen'[f] \in {seen[f], Content(f)}
       /\ loading.file = f => loading' = loading
       /\ (Listed(f) => Listed(f)') \/ (seen'[f] = Content(f) /\ f \notin Exec)
    \/ seen'[f] = Content(f) /\ loading' = [file |-> f, by |-> "application"]

(* Such a step keeps the invariant.                                        *)
LEMMA SameMiss ==
  ASSUME TypeOK, MissInv, SameEvents, LoadingInv', KeepsWaiting, KeepsSeen
  PROVE  MissInv'
<1>0. /\ PathInv /\ MarkInv /\ LoadingInv /\ IgnoredInv /\ WatchInv /\ SeenInv
      /\ wd' = wd /\ mark' = mark /\ path' = path /\ content' = content
      /\ changes' = changes /\ gone' = gone /\ opened \subseteq File
  BY Zenon DEF MissInv, SameEvents, fsVars, TypeOK, Types
<1>1. PathInv' /\ MarkInv' /\ \A f \in File : Content(f)' = Content(f)
  BY <1>0, Zenon DEF PathInv, MarkInv, Content
<1>2. \A f, i : i \in Pending => (Of(i, f)' <=> Of(i, f)) /\ At(i)' = At(i)
  BY <1>0, Zenon DEF SameEvents, Of
<1>3. \A f : (Noticed(f) => Noticed(f)') /\ (Ignored(f) => Ignored(f)')
  BY <1>2, Zenon DEF SameEvents, Noticed, Ignored
<1>4. IgnoredInv'
  <2> SUFFICES ASSUME NEW f \in File, NEW i \in Pending', Of(i, f)', At(i)'.mask = "ignored"
               PROVE  /\ \A n \in Inode : mark[n] # wd[f]
                      /\ \/ i > 1 /\ Of(i - 1, f)' /\ At(i - 1)'.mask # "ignored"
                         \/ i = 1 /\ Waits(f)'
    BY <1>0, Zenon DEF IgnoredInv, Waits
  <2>1. i \in Pending /\ Of(i, f) /\ At(i).mask = "ignored"
    BY <1>2, Zenon DEF SameEvents
  <2>2. /\ \A n \in Inode : mark[n] # wd[f]
        /\ \/ i > 1 /\ Of(i - 1, f) /\ At(i - 1).mask # "ignored"
           \/ i = 1 /\ Waits(f)
    BY <1>0, <2>1, Zenon DEF IgnoredInv, Waits
  <2>3. i > 1 => i - 1 \in Pending
    <3>1. Len(buf) + Len(queue) \in Nat
      BY DEF TypeOK, Types
    <3> QED BY <2>1, <3>1 DEF Pending
  <2> QED BY <1>2, <2>1, <2>2, <2>3, Zenon DEF KeepsWaiting
<1>5. WatchInv'
  <2> SUFFICES ASSUME NEW f \in opened', f \notin gone
               PROVE  \/ loading'.file = f /\ loading'.by = "application"
                      \/ /\ wd[f] # 0
                         /\ \/ mark[path[f]] = wd[f]
                            \/ Ignored(f)'
                            \/ f \in Exec /\ (Listed(f)' \/ Noticed(f)')
    BY <1>0, Zenon DEF WatchInv
  <2>1. \/ f \in opened /\ (loading.file = f => loading' = loading)
           /\ ((Listed(f) => Listed(f)') \/ f \notin Exec)
        \/ loading'.file = f /\ loading'.by = "application"
    BY DEF KeepsSeen
  <2> QED BY <1>0, <1>3, <2>1, Zenon DEF WatchInv
<1>6. SeenInv'
  <2> SUFFICES ASSUME NEW f \in opened', f \notin gone
               PROVE  seen'[f] = Content(f)' \/ Listed(f)' \/ Noticed(f)'
    BY <1>0, Zenon DEF SeenInv
  <2>1. Content(f)' = Content(f)
    BY <1>0, Zenon DEF Content
  <2> QED BY <1>0, <1>3, <2>1, Zenon DEF SeenInv, KeepsSeen
<1> QED BY <1>1, <1>4, <1>5, <1>6, Zenon DEF MissInv

(* The steps of the helper that handle no event and install no watch, and  *)
(* those of the clock and of dlopen.                                       *)
LEMMA QuietMiss ==
  ASSUME Exec \cap Reject = {}, TypeOK, TypeOK', MissInv,
         \/ Tick \/ Poll \/ DetectEnd \/ LoadEnd \/ UNCHANGED vars
         \/ \E f \in File : LoadRead(f) \/ LoadRefused(f) \/ Open(f)
  PROVE  MissInv'
<1>0. /\ worklist \subseteq (0 .. Delay) \X File /\ opened \subseteq File
      /\ seen \in [File -> Inode \cup {0}] /\ 0 \notin File
      /\ loading \in {Nobody} \cup [file : File, by : {"helper", "application"}]
      /\ LoadingInv /\ Nobody.file = 0 /\ Nobody.by = "nobody"
  BY WatchAssumption, Zenon DEF TypeOK, Types, MissInv, Nobody
<1>1. UNCHANGED <<fsVars, kernelVars, wd, buf>> => SameEvents
  BY Zenon DEF SameEvents, kernelVars, Pending, At
<1>2. CASE Tick
  <2>1. \A f : Listed(f) <=> Listed(f)'
    <3>1. \A e \in worklist : <<IF e[1] = 0 THEN 0 ELSE e[1] - 1, e[2]>> \in worklist'
      BY <1>2, Zenon DEF Tick
    <3>2. \A d \in worklist' : \E e \in worklist : d[2] = e[2]
      BY <1>2 DEF Tick
    <3> QED BY <3>1, <3>2, Zenon DEF Listed
  <2>2. UNCHANGED <<fsVars, kernelVars, wd, opened, seen, buf, pc, loading>> /\ pc = "poll"
    BY <1>2, Zenon DEF Tick
  <2>3. LoadingInv'
    BY <1>0, <2>1, <2>2, Zenon DEF LoadingInv, fsVars, Content
  <2>4. KeepsWaiting /\ KeepsSeen
    BY <2>1, <2>2, Zenon DEF KeepsWaiting, KeepsSeen, Waits
  <2> QED BY <1>1, <2>2, <2>3, <2>4, SameMiss, Zenon
<1>3. CASE DetectEnd \/ LoadEnd
  <2>1. /\ UNCHANGED <<fsVars, kernelVars, wd, opened, seen, worklist, buf, loading>>
        /\ buf = <<>> /\ pc # "poll" /\ (pc = "load" => loading.by # "helper")
        /\ pc' \in {"poll", "load"}
    BY <1>0, <1>3, Zenon DEF DetectEnd, LoadEnd, LoadingInv
  <2>2. \A f : (Listed(f) <=> Listed(f)') /\ (Waits(f) => Waits(f)')
    BY <2>1, Zenon DEF Listed, Waits
  <2>3. LoadingInv'
    BY <1>0, <2>1, <2>2, Zenon DEF LoadingInv, fsVars, Content
  <2>4. KeepsWaiting /\ KeepsSeen
    BY <2>1, <2>2, Zenon DEF KeepsWaiting, KeepsSeen
  <2> QED BY <1>1, <2>1, <2>3, <2>4, SameMiss, Zenon
<1>4. CASE Poll
  <2>0. queue \in Seq(Event) /\ buf = <<>> /\ Batch \in Nat \ {0}
    BY <1>0, <1>4, WatchAssumption, Zenon DEF TypeOK, Types, Poll, LoadingInv
  <2>1. UNCHANGED <<fsVars, mark, lastwd, wd, opened, seen, worklist, quiet, loading>>
        /\ pc = "poll" /\ pc' = "detect"
    BY <1>4, Zenon DEF Poll
  <2>2. PICK n \in Nat : /\ n <= Len(queue) /\ (Len(queue) > 0 => n > 0)
                         /\ buf' = SubSeq(queue, 1, n)
                         /\ queue' = SubSeq(queue, n + 1, Len(queue))
    <3> DEFINE m == IF Len(queue) < Batch THEN Len(queue) ELSE Batch
    <3>1. m \in Nat /\ m <= Len(queue) /\ (Len(queue) > 0 => m > 0)
      BY <2>0
    <3>2. buf' = SubSeq(queue, 1, m) /\ queue' = SubSeq(queue, m + 1, Len(queue))
      BY <1>4, Zenon DEF Poll
    <3> QED BY <3>1, <3>2, Zenon
  <2>3. /\ Len(buf') = n /\ \A i \in 1 .. n : buf'[i] = queue[i]
        /\ Len(queue') = Len(queue) - n
        /\ \A i \in 1 .. Len(queue) - n : queue'[i] = queue[i + n]
    <3>1. Split(queue, n)
      BY <2>0, <2>2, SplitFacts, Zenon
    <3> QED BY <2>2, <3>1, Zenon DEF Split
  <2>4. Len(buf) = 0 /\ Len(queue) \in Nat
    BY <2>0
  <2>5. SameEvents
    <3>1. \A i : i \in Pending' <=> i \in Pending
      <4>1. Len(buf') + Len(queue') = Len(buf) + Len(queue)
        BY <2>3, <2>4
      <4> QED BY <4>1, Zenon DEF Pending
    <3>2. ASSUME NEW i \in Pending PROVE At(i)' = At(i)
      <4>0. i \in 1 .. Len(queue) /\ At(i) = queue[i]
        BY <2>4, <3>2 DEF Pending, At
      <4>1. CASE i <= n
        <5>1. At(i)' = buf'[i]
          BY <2>3, <4>1, Zenon DEF At
        <5>2. i \in 1 .. n
          BY <4>0, <4>1
        <5> QED BY <2>3, <4>0, <5>1, <5>2, Zenon
      <4>2. CASE i > n
        <5>1. i - n \in 1 .. Len(queue) - n /\ At(i)' = queue'[i - n]
          BY <2>2, <2>3, <2>4, <4>0, <4>2 DEF At
        <5> QED BY <2>2, <2>3, <2>4, <4>0, <5>1
      <4> QED BY <2>2, <2>4, <4>0, <4>1, <4>2
    <3> QED BY <2>1, <3>1, <3>2, Zenon DEF SameEvents
  <2>6. \A f : (Listed(f) <=> Listed(f)') /\ (1 \in Pending /\ Waits(f) => Waits(f)')
    <3>1. 1 \in Pending => buf' # <<>>
      BY <2>2, <2>3, <2>4 DEF Pending
    <3> QED BY <2>1, <3>1, Zenon DEF Listed, Waits
  <2>7. LoadingInv'
    BY <1>0, <2>1, <2>6, Zenon DEF LoadingInv, fsVars, Content
  <2>8. KeepsWaiting /\ KeepsSeen
    BY <2>1, <2>6, Zenon DEF KeepsWaiting, KeepsSeen
  <2> QED BY <2>5, <2>7, <2>8, SameMiss, Zenon
<1>5. ASSUME NEW f \in File, LoadRead(f) \/ Open(f)
      PROVE  MissInv'
  <2>1. /\ UNCHANGED <<fsVars, kernelVars, wd, worklist, buf, pc>> /\ loading = Nobody
        /\ path[f] # 0 /\ seen' = [seen EXCEPT ![f] = Content(f)]
    BY <1>5, Zenon DEF LoadRead, Open, Read
  <2>2. \A g \in File : seen'[g] = IF g = f THEN Content(f) ELSE seen[g]
    BY <1>0, <2>1, Zenon
  <2>3. \A g : (Listed(g) <=> Listed(g)') /\ (Waits(g) => Waits(g)')
    BY <2>1, Zenon DEF Listed, Waits
  <2>4. CASE LoadRead(f)
    <3>1. /\ loading' = [file |-> f, by |-> "helper"] /\ opened' = opened
          /\ pc = "load" /\ <<0, f>> \in worklist
      BY <2>4, Zenon DEF LoadRead, Read, Due
    <3>2. f \in opened
      BY <1>0, <3>1, Zenon DEF LoadingInv, Listed
    <3>3. LoadingInv'
      BY <1>0, <2>1, <2>2, <2>3, <3>1, <3>2 DEF LoadingInv, fsVars, Content
    <3>4. KeepsWaiting /\ KeepsSeen
      BY <1>0, <2>1, <2>2, <2>3, <3>1, Zenon DEF KeepsWaiting, KeepsSeen
    <3> QED BY <1>1, <2>1, <3>3, <3>4, SameMiss, Zenon
  <2>5. CASE Open(f)
    <3>1. /\ loading' = [file |-> f, by |-> "application"] /\ opened' = opened \cup {f}
          /\ f \notin opened
      BY <2>5, Zenon DEF Open, Read
    <3>3. LoadingInv'
      BY <1>0, <2>1, <2>2, <2>3, <3>1 DEF LoadingInv, fsVars, Content
    <3>4. KeepsWaiting /\ KeepsSeen
      BY <1>0, <2>1, <2>2, <2>3, <3>1, Zenon DEF KeepsWaiting, KeepsSeen
    <3> QED BY <1>1, <2>1, <3>3, <3>4, SameMiss
  <2> QED BY <1>5, <2>4, <2>5, Zenon
<1>6. ASSUME NEW f \in File, LoadRefused(f)
      PROVE  MissInv'
  <2>1. /\ UNCHANGED <<fsVars, kernelVars, wd, opened, buf, pc, loading>> /\ loading = Nobody
        /\ seen' = [seen EXCEPT ![f] = Content(f)] /\ worklist' = worklist \ Entries(f)
        /\ path[f] = 0 \/ f \in Reject
        /\ pc = "load" /\ <<0, f>> \in worklist
    BY <1>6, Zenon DEF LoadRefused, Due
  <2>2. \A g \in File : seen'[g] = IF g = f THEN Content(f) ELSE seen[g]
    BY <1>0, <2>1, Zenon
  <2>3. \A g : (Listed(g)' => Listed(g)) /\ (g # f => (Listed(g) => Listed(g)'))
    BY <2>1, Zenon DEF Listed, Entries
  <2>4. \A g : Waits(g) => Waits(g)'
    BY <1>0, <2>1, <2>3, Zenon DEF Waits, LoadingInv
  <2>5. LoadingInv'
    BY <1>0, <2>1, <2>2, <2>3, Zenon DEF LoadingInv, fsVars, Content
  <2>6. f \in opened
    BY <1>0, <2>1, Zenon DEF LoadingInv, Listed
  <2>7. KeepsWaiting
    BY <2>4, Zenon DEF KeepsWaiting
  <2>8. KeepsSeen
    <3>1. path[f] = 0 => f \in gone
      BY Zenon DEF MissInv, PathInv
    <3> QED BY <1>0, <2>1, <2>2, <2>3, <2>6, <3>1, Zenon DEF KeepsSeen
  <2> QED BY <1>1, <2>1, <2>5, <2>7, <2>8, SameMiss, Zenon
<1>7. CASE UNCHANGED vars
  <2>1. UNCHANGED <<fsVars, kernelVars, wd, opened, seen, worklist, buf, pc, loading>>
    BY <1>7, Zenon DEF vars, fsVars, kernelVars
  <2>2. \A f : (Listed(f) <=> Listed(f)') /\ (Waits(f) => Waits(f)')
    BY <2>1, Zenon DEF Listed, Waits
  <2>3. LoadingInv'
    BY <1>0, <2>1, <2>2, Zenon DEF LoadingInv, fsVars, Content
  <2>4. KeepsWaiting /\ KeepsSeen
    BY <2>1, <2>2, Zenon DEF KeepsWaiting, KeepsSeen
  <2> QED BY <1>1, <2>1, <2>3, <2>4, SameMiss, Zenon
<1> QED BY <1>2, <1>3, <1>4, <1>5, <1>6, <1>7, Zenon

(* What is on its way is an event.                                         *)
LEMMA PendingEvent ==
  ASSUME TypeOK, NEW i \in Pending PROVE At(i) \in Event
<1>1. buf \in Seq(Event) /\ queue \in Seq(Event) /\ Len(buf) \in Nat /\ Len(queue) \in Nat
  BY DEF TypeOK, Types
<1> QED BY <1>1 DEF Pending, At

(* The helper takes the first event, and the others move up.               *)
LEMMA Shifted ==
  ASSUME TypeOK, buf # <<>>, buf' = Tail(buf), queue' = queue
  PROVE  /\ 1 \in Pending /\ At(1) = Head(buf)
         /\ \A i \in Pending' : i \in Nat /\ i > 0 /\ i + 1 \in Pending /\ At(i)' = At(i + 1)
         /\ \A i \in Pending : i > 1 => i - 1 \in Pending' /\ At(i - 1)' = At(i)
<1>1. buf \in Seq(Event) /\ queue \in Seq(Event)
  BY Zenon DEF TypeOK, Types
<1>2. /\ Len(buf) \in Nat /\ Len(queue) \in Nat /\ Len(buf) > 0 /\ Len(buf') = Len(buf) - 1
      /\ Head(buf) = buf[1] /\ \A i \in 1 .. Len(buf) - 1 : buf'[i] = buf[i + 1]
  BY <1>1
<1>3. 1 \in Pending /\ At(1) = Head(buf)
  BY <1>2 DEF Pending, At
<1>4. ASSUME NEW i \in Pending'
      PROVE  i \in Nat /\ i > 0 /\ i + 1 \in Pending /\ At(i)' = At(i + 1)
  <2>1. i \in Nat /\ i > 0 /\ i + 1 \in Pending
    BY <1>2, <1>4 DEF Pending
  <2>2. i - Len(buf') = (i + 1) - Len(buf)
    BY <1>2, <2>1
  <2> QED BY <1>2, <2>1, <2>2 DEF At
<1>5. ASSUME NEW i \in Pending, i > 1
      PROVE  i - 1 \in Pending' /\ At(i - 1)' = At(i)
  <2>1. i - 1 \in Pending' /\ i = (i - 1) + 1
    BY <1>2, <1>5 DEF Pending
  <2> QED BY <1>4, <2>1, Zenon
<1> QED BY <1>3, <1>4, <1>5, Zenon

(* What handling the first event leaves as it is for file f, of which this *)
(* event is not.                                                           *)
LEMMA ShiftedOther ==
  ASSUME TypeOK, IgnoredInv, buf # <<>>, buf' = Tail(buf), queue' = queue,
         NEW f \in File, ~Of(1, f), wd'[f] = wd[f]
  PROVE  /\ Noticed(f) => Noticed(f)'
         /\ Ignored(f) => Ignored(f)'
         /\ \A i \in Pending' : Of(i, f)' /\ At(i)'.mask = "ignored" =>
              /\ wd[f] # 0 /\ \A n \in Inode : mark[n] # wd[f]
              /\ i > 1 /\ Of(i - 1, f)' /\ At(i - 1)'.mask # "ignored"
<1>1. \A i \in Pending : Of(i, f) => i > 1 /\ i - 1 \in Pending' /\ Of(i - 1, f)' /\ At(i - 1)' = At(i)
  <2>1. \A i \in Pending : i > 1 \/ i = 1
    <3>1. Len(buf) + Len(queue) \in Nat
      BY DEF TypeOK, Types
    <3> QED BY <3>1 DEF Pending
  <2> QED BY <2>1, Shifted, Zenon DEF Of
<1>2. (Noticed(f) => Noticed(f)') /\ (Ignored(f) => Ignored(f)')
  BY <1>1, Zenon DEF Noticed, Ignored
<1>3. ASSUME NEW i \in Pending', Of(i, f)', At(i)'.mask = "ignored"
      PROVE  /\ wd[f] # 0 /\ \A n \in Inode : mark[n] # wd[f]
             /\ i > 1 /\ Of(i - 1, f)' /\ At(i - 1)'.mask # "ignored"
  <2>1. /\ i \in Nat /\ i > 0 /\ i + 1 \in Pending /\ At(i)' = At(i + 1)
        /\ Of(i + 1, f) /\ At(i + 1).mask = "ignored"
    BY <1>3, Shifted, Zenon DEF Of
  <2>2. /\ \A n \in Inode : mark[n] # wd[f]
        /\ Of((i + 1) - 1, f) /\ At((i + 1) - 1).mask # "ignored"
    BY <2>1, Zenon DEF IgnoredInv
  <2>3. (i + 1) - 1 = i /\ i \in Pending
    <3>1. Len(buf) + Len(queue) \in Nat
      BY DEF TypeOK, Types
    <3> QED BY <2>1, <3>1 DEF Pending
  <2> QED BY <1>1, <2>2, <2>3, Zenon DEF Of
<1> QED BY <1>2, <1>3, Zenon

(* filemodification_detect keeps the invariant.                            *)
LEMMA HandleMiss ==
  ASSUME TypeOK, TypeOK', MissInv, HandleEvent
  PROVE  MissInv'
<1>0. /\ PathInv /\ MarkInv /\ LoadingInv /\ IgnoredInv /\ WatchInv /\ SeenInv
      /\ opened \subseteq File /\ wd \in [File -> 0 .. lastwd] /\ lastwd \in Nat
      /\ worklist \subseteq (0 .. Delay) \X File /\ Delay # 0
  BY WatchAssumption, Zenon DEF MissInv, TypeOK, Types
<1>1. /\ pc = "detect" /\ pc' = "detect" /\ buf # <<>> /\ buf' = Tail(buf)
      /\ loading = Nobody /\ UNCHANGED <<fsVars, opened, seen, loading>>
  BY Zenon DEF HandleEvent
<1>2. /\ path' = path /\ gone' = gone /\ changes' = changes
      /\ \A g \in File : Content(g)' = Content(g) /\ loading.file # g
  BY <1>1, WatchAssumption, Zenon DEF fsVars, Content, Nobody
<1>3. CASE /\ \A f \in opened : Head(buf).wd = 0 \/ wd[f] # Head(buf).wd
           /\ UNCHANGED <<kernelVars, wd, worklist>>
  <2>1. queue' = queue /\ mark' = mark /\ wd' = wd /\ worklist' = worklist
    BY <1>3, Zenon DEF kernelVars
  <2>2. \A f \in File : ~Of(1, f)
    BY <1>0, <1>1, <1>3, <2>1, Shifted, Zenon DEF Of, LoadingInv
  <2>3. \A f \in File : (Noticed(f) => Noticed(f)') /\ (Ignored(f) => Ignored(f)')
    BY <1>0, <1>1, <2>1, <2>2, ShiftedOther, Zenon
  <2>4. IgnoredInv'
    BY <1>0, <1>1, <2>1, <2>2, ShiftedOther, Zenon DEF IgnoredInv
  <2>5. \A f : Listed(f) <=> Listed(f)'
    BY <2>1, Zenon DEF Listed
  <2>6. PathInv' /\ MarkInv' /\ LoadingInv'
    BY <1>0, <1>1, <1>2, <2>1, <2>5, Zenon DEF PathInv, MarkInv, LoadingInv
  <2>7. WatchInv' /\ SeenInv'
    BY <1>0, <1>1, <1>2, <2>1, <2>3, <2>5, Zenon DEF WatchInv, SeenInv
  <2> QED BY <2>4, <2>6, <2>7, Zenon DEF MissInv
<1>4. ASSUME NEW f \in opened, Head(buf).wd # 0, wd[f] = Head(buf).wd, Head(buf).mask # "ignored",
             worklist' = Postponed(f), UNCHANGED <<kernelVars, wd>>
      PROVE  MissInv'
  <2>1. queue' = queue /\ mark' = mark /\ wd' = wd
    BY <1>4, Zenon DEF kernelVars
  <2>2. Of(1, f) /\ At(1).mask # "ignored" /\ \A g \in File \ {f} : ~Of(1, g)
    BY <1>0, <1>1, <1>4, <2>1, Shifted, Zenon DEF Of, MarkInv
  <2>3. \A g \in File \ {f} : (Noticed(g) => Noticed(g)') /\ (Ignored(g) => Ignored(g)')
    BY <1>0, <1>1, <2>1, <2>2, ShiftedOther, Zenon
  <2>4. Listed(f)' /\ <<0, f>> \notin worklist'
    <3>1. <<Delay, f>> \in worklist' /\ <<Delay, f>>[2] = f
      BY <1>4, Zenon DEF Postponed
    <3>2. <<0, f>> \notin Entries(f) => <<0, f>> \notin worklist
      BY Zenon DEF Entries
    <3>3. <<0, f>> # <<Delay, f>>
      BY <1>0, Zenon
    <3>4. <<0, f>> \notin worklist'
      BY <1>4, <3>2, <3>3, Zenon DEF Postponed
    <3> QED BY <3>1, <3>4, Zenon DEF Listed
  <2>5. \A g : (Listed(g) => Listed(g)') /\ (g # f /\ Listed(g)' => Listed(g))
    BY <1>4, <2>4, Zenon DEF Listed, Postponed, Entries
  <2>6. PathInv' /\ MarkInv' /\ LoadingInv'
    BY <1>0, <1>1, <1>2, <2>1, <2>5, Zenon DEF PathInv, MarkInv, LoadingInv
  <2>7. ASSUME NEW i \in Pending', Of(i, f)', At(i)'.mask = "ignored"
        PROVE  /\ \A n \in Inode : mark[n] # wd[f]
               /\ (i > 1 /\ Of(i - 1, f)' /\ At(i - 1)'.mask # "ignored") \/ i = 1
    <3>1. /\ i \in Nat /\ i > 0 /\ i + 1 \in Pending
          /\ Of(i + 1, f) /\ At(i + 1).mask = "ignored"
      BY <1>1, <2>1, <2>7, Shifted, Zenon DEF Of
    <3>2. /\ \A n \in Inode : mark[n] # wd[f]
          /\ Of((i + 1) - 1, f) /\ At((i + 1) - 1).mask # "ignored"
      <4>1. f \in File /\ i + 1 # 1
        BY <1>0, <3>1
      <4> QED BY <1>0, <3>1, <4>1, Zenon DEF IgnoredInv
    <3>3. (i + 1) - 1 = i /\ i \in Pending
      <4>1. Len(buf) + Len(queue) \in Nat
        BY DEF TypeOK, Types
      <4> QED BY <3>1, <4>1 DEF Pending
    <3>4. i > 1 => Of(i - 1, f)' /\ At(i - 1)'.mask # "ignored"
      BY <1>1, <2>1, <3>2, <3>3, Shifted, Zenon DEF Of
    <3>5. i > 1 \/ i = 1
      BY <3>1
    <3> QED BY <3>2, <3>4, <3>5, Zenon
  <2>8. IgnoredInv'
    <3> SUFFICES ASSUME NEW g \in File, NEW i \in Pending', Of(i, g)', At(i)'.mask = "ignored"
                 PROVE  /\ \A n \in Inode : mark[n] # wd[g]
                        /\ \/ i > 1 /\ Of(i - 1, g)' /\ At(i - 1)'.mask # "ignored"
                           \/ i = 1 /\ Listed(g)' /\ <<0, g>> \notin worklist'
      BY <2>1, Zenon DEF IgnoredInv
    <3>1. CASE g = f
      BY <2>4, <2>7, <3>1, Zenon
    <3>2. CASE g # f
      BY <1>0, <1>1, <2>1, <2>2, <3>2, ShiftedOther, Zenon
    <3> QED BY <3>1, <3>2, Zenon
  <2>9. \A g \in File \ {f} : Ignored(g) => Ignored(g)'
    BY <2>3, Zenon
  <2>10. Ignored(f) => Ignored(f)'
    BY <1>0, <1>1, <2>1, <2>2, Shifted DEF Ignored, Of, Pending
  <2>11. WatchInv' /\ SeenInv'
    BY <1>0, <1>1, <1>2, <2>1, <2>3, <2>4, <2>5, <2>10, Zenon DEF WatchInv, SeenInv
  <2> QED BY <2>6, <2>8, <2>11, Zenon DEF MissInv
<1>5. ASSUME NEW f \in opened, Head(buf).wd # 0, wd[f] = Head(buf).wd, Head(buf).mask = "ignored",
             watch(f, TRUE, TRUE), worklist' = worklist
      PROVE  MissInv'
  <2>0. 1 \in Pending /\ At(1) = Head(buf)
    <3>1. buf \in Seq(Event) /\ queue \in Seq(Event) /\ Len(buf) > 0
      BY <1>1 DEF TypeOK, Types
    <3> QED BY <3>1 DEF Pending, At
  <2>1. Of(1, f) /\ At(1).mask = "ignored"
    BY <1>5, <2>0, Zenon DEF Of
  <2>2. Listed(f) /\ \A n \in Inode : mark[n] # wd[f]
    <3>1. f \in File
      BY <1>0, Zenon
    <3>2. ~(1 > 1)
      OBVIOUS
    <3> QED BY <1>0, <2>0, <2>1, <3>1, <3>2, Zenon DEF IgnoredInv
  <2>3. Rewatched(f) /\ queue' = queue
    BY <1>0, <1>5, <2>2, WatchAgain, Zenon
  <2>4. /\ PathInv' /\ MarkInv' /\ wd'[f] \notin 1 .. lastwd
        /\ path[f] # 0 => wd'[f] # 0 /\ mark'[path[f]] = wd'[f]
        /\ \A g \in File \ {f} : wd'[g] = wd[g] /\ (path[g] # 0 => mark'[path[g]] = mark[path[g]])
        /\ \A g \in File \ {f}, n \in Inode : wd[g] # 0 /\ mark'[n] = wd[g] => mark[n] = wd[g]
    BY <1>0, <1>1, <2>3, RewatchedKeeps, Zenon
  <2>5. \A g \in File \ {f} : ~Of(1, g)
    BY <1>0, <2>1, Zenon DEF Of, MarkInv
  <2>6. \A g \in File \ {f} : (Noticed(g) => Noticed(g)') /\ (Ignored(g) => Ignored(g)')
    BY <1>0, <1>1, <2>3, <2>4, <2>5, ShiftedOther, Zenon
  <2>7. \A g : Listed(g) <=> Listed(g)'
    BY <1>5, Zenon DEF Listed
  <2>8. IgnoredInv'
    <3> SUFFICES ASSUME NEW g \in File, NEW i \in Pending', Of(i, g)', At(i)'.mask = "ignored"
                 PROVE  /\ \A n \in Inode : mark'[n] # wd'[g]
                        /\ i > 1 /\ Of(i - 1, g)' /\ At(i - 1)'.mask # "ignored"
      BY Zenon DEF IgnoredInv
    <3>1. g # f
      <4>1. At(i)' \in Event
        <5>1. i + 1 \in Pending /\ At(i)' = At(i + 1)
          BY <1>1, <2>3, Shifted, Zenon
        <5> QED BY <5>1, PendingEvent, Zenon
      <4> QED BY <1>0, <2>4, <4>1 DEF Of, Event
    <3> QED BY <1>0, <1>1, <2>3, <2>4, <2>5, <3>1, ShiftedOther
  <2>9. LoadingInv'
    BY <1>0, <1>1, <1>2, <2>4, <2>7, Zenon DEF LoadingInv
  <2>10. WatchInv'
    BY <1>0, <1>1, <1>2, <2>4, <2>6, <2>7 DEF WatchInv, PathInv
  <2>11. SeenInv'
    BY <1>0, <1>1, <1>2, <2>2, <2>6, <2>7, Zenon DEF SeenInv
  <2> QED BY <2>4, <2>8, <2>9, <2>10, <2>11, Zenon DEF MissInv
<1> QED BY <1>3, <1>4, <1>5, Zenon DEF HandleEvent

(* The watch that ObjectIdentity::load ends with keeps the invariant.      *)
LEMMA WatchMiss ==
  ASSUME TypeOK, TypeOK', NoOverflow', MissInv, NEW f \in File, LoadWatch(f)
  PROVE  MissInv'
<1>0. /\ PathInv /\ MarkInv /\ LoadingInv /\ IgnoredInv /\ WatchInv /\ SeenInv
      /\ opened \subseteq File /\ wd \in [File -> 0 .. lastwd] /\ lastwd \in Nat
  BY Zenon DEF MissInv, TypeOK, Types
<1>1. /\ loading.file = f /\ loading' = Nobody /\ UNCHANGED <<fsVars, opened, seen, buf, pc>>
      /\ worklist' = IF loading.by = "helper" THEN worklist \ Entries(f) ELSE worklist
  BY Zenon DEF LoadWatch
<1>2. /\ path' = path /\ gone' = gone /\ changes' = changes
      /\ \A g \in File : Content(g)' = Content(g) /\ loading'.file # g
  BY <1>1, WatchAssumption, Zenon DEF fsVars, Content, Nobody
<1>3. /\ f \in opened /\ path[f] # 0 /\ seen[f] = Content(f)
      /\ loading.by = "helper" => pc = "load" /\ <<0, f>> \in worklist
      /\ loading.by = "application" => wd[f] = 0 /\ ~Listed(f)
      /\ loading.by \in {"helper", "application"}
  <2>1. loading.by \in {"helper", "application"}
    BY <1>1, WatchAssumption DEF TypeOK, Types, Nobody
  <2> QED BY <1>0, <1>1, <2>1, Zenon DEF LoadingInv
<1>4. /\ \A g : Listed(g)' => Listed(g)
      /\ \A g \in File \ {f} : (Listed(g) => Listed(g)') /\ (Waits(g) => Waits(g)')
  BY <1>1, Zenon DEF Listed, Waits, Entries
<1>5. ~Waits(f) \/ wd[f] = 0
  BY <1>0, <1>3, Zenon DEF Waits, LoadingInv
<1>6. CASE f \notin Exec /\ wd[f] # 0 /\ UNCHANGED <<mark, queue, lastwd, wd>>
  <2>1. /\ queue' = queue /\ mark' = mark /\ wd' = wd /\ buf' = buf
        /\ Pending' = Pending /\ \A i : At(i)' = At(i)
    BY <1>1, <1>6, Zenon DEF Pending, At
  <2>2. \A g, i : Of(i, g)' <=> Of(i, g)
    BY <2>1, Zenon DEF Of
  <2>3. \A g : (Noticed(g)' <=> Noticed(g)) /\ (Ignored(g)' <=> Ignored(g))
    BY <2>1, <2>2, Zenon DEF Noticed, Ignored
  <2>4. PathInv' /\ MarkInv'
    BY <1>0, <1>2, <2>1, Zenon DEF PathInv, MarkInv
  <2>5. LoadingInv'
    BY <1>0, <1>1, <1>2, <1>4, <2>1, Zenon DEF LoadingInv
  <2>6. IgnoredInv'
    <3> SUFFICES ASSUME NEW g \in File, NEW i \in Pending, Of(i, g), At(i).mask = "ignored"
                 PROVE  /\ \A n \in Inode : mark[n] # wd[g]
                        /\ \/ i > 1 /\ Of(i - 1, g) /\ At(i - 1).mask # "ignored"
                           \/ i = 1 /\ Waits(g)'
      BY <2>1, <2>2, Zenon DEF IgnoredInv, Waits
    <3>1. /\ \A n \in Inode : mark[n] # wd[g]
          /\ \/ i > 1 /\ Of(i - 1, g) /\ At(i - 1).mask # "ignored"
             \/ i = 1 /\ Waits(g)
      BY <1>0, Zenon DEF IgnoredInv, Waits
    <3> QED BY <1>4, <1>5, <1>6, <3>1, Zenon
  <2>7. WatchInv'
    BY <1>0, <1>1, <1>2, <1>3, <1>4, <1>6, <2>1, <2>3, Zenon DEF WatchInv
  <2>8. SeenInv'
    BY <1>0, <1>1, <1>2, <1>3, <1>4, <2>3, Zenon DEF SeenInv
  <2> QED BY <2>4, <2>5, <2>6, <2>7, <2>8, Zenon DEF MissInv
<1>7. CASE /\ Rewatched(f)
           /\ \/ queue' = queue
              \/ wd[f] # 0 /\ queue' = Queued(queue, wd[f], "ignored")
  <2>1. Grows /\ \A i \in Pending' : i \in Pending \/ (wd[f] # 0 /\ At(i)' = Ev(wd[f], "ignored"))
    <3>1. CASE queue' = queue
      BY <1>1, <3>1, Zenon DEF Grows, Pending, At
    <3>2. CASE wd[f] # 0 /\ queue' = Queued(queue, wd[f], "ignored")
      <4>1. Ev(wd[f], "ignored") \in Event
        BY <1>0, Zenon DEF Ev, Event, Mask
      <4> QED BY <1>1, <3>2, <4>1, OneQueued, Zenon
    <3> QED BY <1>7, <3>1, <3>2, Zenon
  <2>2. /\ PathInv' /\ MarkInv' /\ wd'[f] \notin 1 .. lastwd
        /\ path[f] # 0 => wd'[f] # 0 /\ mark'[path[f]] = wd'[f]
        /\ \A g \in File \ {f} : wd'[g] = wd[g] /\ (path[g] # 0 => mark'[path[g]] = mark[path[g]])
        /\ \A g \in File \ {f}, n \in Inode : wd[g] # 0 /\ mark'[n] = wd[g] => mark[n] = wd[g]
    BY <1>0, <1>1, <1>7, RewatchedKeeps, Zenon
  <2>3. \A g \in File \ {f} : (Noticed(g) => Noticed(g)') /\ (Ignored(g) => Ignored(g)')
    BY <2>1, <2>2, StaysPending, Zenon
  <2>4. LoadingInv'
    <3>1. pc' # "detect" => buf' = <<>>
      BY <1>0, <1>1, Zenon DEF LoadingInv
    <3>2. \A g \in File \ opened : wd'[g] = 0 /\ ~Listed(g)'
      <4> SUFFICES ASSUME NEW g \in File \ opened PROVE wd'[g] = 0 /\ ~Listed(g)'
        BY Zenon
      <4>1. g # f /\ wd[g] = 0 /\ ~Listed(g)
        BY <1>0, <1>3, Zenon DEF LoadingInv
      <4> QED BY <1>4, <2>2, <4>1, Zenon
    <3> QED BY <1>1, <1>2, <3>1, <3>2, Zenon DEF LoadingInv
  <2>5. IgnoredInv'
    <3> SUFFICES ASSUME NEW g \in File, NEW i \in Pending', Of(i, g)', At(i)'.mask = "ignored"
                 PROVE  /\ \A n \in Inode : mark'[n] # wd'[g]
                        /\ \/ i > 1 /\ Of(i - 1, g)' /\ At(i - 1)'.mask # "ignored"
                           \/ i = 1 /\ Waits(g)'
      BY Zenon DEF IgnoredInv, Waits
    <3>1. At(i)'.wd \in 0 .. lastwd /\ (i \in Pending \/ (wd[f] # 0 /\ At(i)'.wd = wd[f]))
      <4>1. CASE i \in Pending
        BY <2>1, <4>1, PendingEvent, Zenon DEF Grows, Event
      <4>2. CASE At(i)' = Ev(wd[f], "ignored") /\ wd[f] # 0
        BY <1>0, <4>2 DEF Ev
      <4> QED BY <2>1, <4>1, <4>2, Zenon
    <3>2. g # f /\ wd'[g] = wd[g]
      BY <1>0, <2>2, <3>1 DEF Of
    <3>3. i \in Pending /\ Of(i, g) /\ At(i).mask = "ignored"
      <4>1. i \in Pending
        BY <1>0, <3>1, <3>2, Zenon DEF Of, MarkInv
      <4> QED BY <2>1, <3>2, <4>1, Zenon DEF Grows, Of
    <3>4. /\ \A n \in Inode : mark[n] # wd[g]
          /\ \/ i > 1 /\ Of(i - 1, g) /\ At(i - 1).mask # "ignored"
             \/ i = 1 /\ Waits(g)
      BY <1>0, <3>3, Zenon DEF IgnoredInv, Waits
    <3>5. i > 1 => i - 1 \in Pending
      <4>1. Len(buf) + Len(queue) \in Nat
        BY DEF TypeOK, Types
      <4> QED BY <3>3, <4>1 DEF Pending
    <3>6. i > 1 /\ Of(i - 1, g) => Of(i - 1, g)' /\ At(i - 1)' = At(i - 1)
      BY <2>1, <3>2, <3>5, Zenon DEF Grows, Of
    <3>7. \A n \in Inode : mark'[n] # wd'[g]
      BY <2>2, <3>2, <3>3, <3>4, Zenon DEF Of
    <3> QED BY <1>4, <3>2, <3>4, <3>6, <3>7, Zenon
  <2>6. WatchInv'
    <3> SUFFICES ASSUME NEW g \in opened, g \notin gone
                 PROVE  /\ wd'[g] # 0
                        /\ \/ mark'[path[g]] = wd'[g]
                           \/ Ignored(g)'
                           \/ g \in Exec /\ (Listed(g)' \/ Noticed(g)')
      BY <1>1, <1>2, Zenon DEF WatchInv
    <3>1. CASE g = f
      BY <1>3, <2>2, <3>1, Zenon
    <3>2. CASE g # f
      <4>1. g \in File \ {f} /\ path[g] # 0
        BY <1>0, <3>2, Zenon DEF PathInv
      <4>2. /\ wd[g] # 0
            /\ mark[path[g]] = wd[g] \/ Ignored(g) \/ (g \in Exec /\ (Listed(g) \/ Noticed(g)))
        BY <1>0, <1>1, <3>2, Zenon DEF WatchInv
      <4> QED BY <1>4, <2>2, <2>3, <4>1, <4>2, Zenon
    <3> QED BY <3>1, <3>2, Zenon
  <2>7. SeenInv'
    BY <1>0, <1>1, <1>2, <1>3, <1>4, <2>3, Zenon DEF SeenInv
  <2> QED BY <2>2, <2>4, <2>5, <2>6, <2>7, Zenon DEF MissInv
<1>8. CASE f \in Exec
  <2>1. watch(f, TRUE, TRUE)
    BY <1>8, WatchForced, Zenon
  <2> QED BY <1>0, <1>7, <2>1, WatchAgain, Zenon
<1>9. CASE f \notin Exec
  <2>1. watch(f, FALSE, FALSE)
    BY <1>9, WatchForced, Zenon
  <2> QED BY <1>0, <1>6, <1>7, <1>9, <2>1, WatchAgain, Zenon
<1> QED BY <1>8, <1>9, Zenon

(* Nothing is loaded at first.                                             *)
LEMMA InitMiss ==
  ASSUME Init PROVE MissInv
<1>1. /\ path \in [File -> 1 .. Cardinality(File)]
      /\ \A f, g \in File : path[f] = path[g] => f = g
      /\ \A i \in Inode : mark[i] = 0
      /\ changes = 0 /\ gone = {} /\ opened = {} /\ worklist = {}
      /\ \A f \in File : wd[f] = 0 /\ loading.file # f
      /\ buf = <<>> /\ pc = "poll"
  BY WatchAssumption, Zenon DEF Init, Nobody
<1>2. PathInv
  <2>1. \A f \in File : path[f] \in 1 .. Cardinality(File)
    BY <1>1, Zenon
  <2> QED BY <1>1, <2>1, InodeFacts DEF PathInv
<1>3. MarkInv
  <2>1. \A f \in File : path[f] # 0 => path[f] \in Inode
    <3>1. \A f \in File : path[f] \in 1 .. Cardinality(File)
      BY <1>1
    <3> QED BY <3>1, InodeFacts, WatchAssumption DEF Inode
  <2> QED BY <1>1, <2>1, Zenon DEF MarkInv
<1>4. LoadingInv /\ IgnoredInv /\ WatchInv /\ SeenInv
  BY <1>1, Zenon DEF LoadingInv, IgnoredInv, WatchInv, SeenInv, Of, Listed
<1> QED BY <1>2, <1>3, <1>4, Zenon DEF MissInv

(* Every step keeps the invariant unless the queue overflows.              *)
LEMMA NextMiss ==
  ASSUME QuietLoad, Exec \cap Reject = {}, TypeOK, TypeOK', NoOverflow', MissInv, [Next]_vars
  PROVE  MissInv'
<1>1. CASE Environment
  <2>1. PICK f \in File : ChangedFile(f)
    BY <1>1, EnvironmentStep, Zenon DEF Environment, MissInv
  <2> QED BY <2>1, EnvironmentMiss, Zenon
<1>2. CASE \/ Tick \/ Poll \/ DetectEnd \/ LoadEnd \/ UNCHANGED vars
           \/ \E f \in File : LoadRead(f) \/ LoadRefused(f) \/ Open(f)
  BY <1>2, QuietMiss, Zenon
<1>3. CASE HandleEvent
  BY <1>3, HandleMiss, Zenon
<1>4. CASE \E f \in File : LoadWatch(f)
  BY <1>4, WatchMiss, Zenon
<1> QED BY <1>1, <1>2, <1>3, <1>4, Zenon DEF Next, Helper

(* What the invariant says once nothing is on its way.                     *)
LEMMA MissNone ==
  ASSUME TypeOK, MissInv PROVE NoChangeMissed
<1> SUFFICES ASSUME NEW f \in opened \ gone, Entries(f) = {}, Events(f) = {}, loading.file # f
             PROVE  /\ seen[f] = Content(f)
                    /\ path[f] # 0 /\ wd[f] # 0 /\ mark[path[f]] = wd[f]
  BY Zenon DEF NoChangeMissed
<1>1. f \in File /\ ~Listed(f)
  BY Zenon DEF TypeOK, Types, Entries, Listed
<1>2. \A i \in Pending : ~Of(i, f)
  <2> SUFFICES ASSUME NEW i \in Pending, Of(i, f) PROVE FALSE
    BY Zenon
  <2>1. buf \in Seq(Event) /\ queue \in Seq(Event) /\ Len(buf) \in Nat /\ Len(queue) \in Nat
    BY DEF TypeOK, Types
  <2>2. At(i) \in {queue[j] : j \in DOMAIN queue} \cup {buf[j] : j \in DOMAIN buf}
    BY <2>1 DEF At, Pending
  <2> QED BY <2>2, Zenon DEF Events, Of
<1> QED BY <1>1, <1>2, Zenon DEF MissInv, PathInv, WatchInv, SeenInv, Noticed, Ignored

(* No change of a file that is loaded is missed (filemodification_detect,  *)
(* filemodification_load and ObjectIdentity::load with its watch): as long *)
(* as no event is lost to an overflow, no file changes between its read    *)
(* and its watch, and no version of an executed binary is refused.         *)
THEOREM ChangesAreNotMissed ==
  ASSUME QuietLoad, Exec \cap Reject = {}
  PROVE  Spec /\ []NoOverflow => []NoChangeMissed
<1>1. Init => MissInv
  BY InitMiss, Zenon
<1>2. TypeOK /\ TypeOK' /\ NoOverflow' /\ MissInv /\ [Next]_vars => MissInv'
  BY NextMiss, Zenon
<1>3. TypeOK /\ MissInv => NoChangeMissed
  BY MissNone, Zenon
<1> QED BY <1>1, <1>2, <1>3, TypeCorrect, PTL DEF Spec
=============================================================================
