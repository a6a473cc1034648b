------------------------------- MODULE Watch --------------------------------
(***************************************************************************)
(* How Luci notices that a file has changed: the inotify watch of every    *)
(* ObjectIdentity, the events the helper thread reads, its worklist with   *)
(* the one second a file must be left alone before it is loaded, and the   *)
(* file system that changes at any time in between.                        *)
(*                                                                         *)
(* Every change of the file system gets a number.  It names the content    *)
(* the change gives to a file and, if it makes a new file, its inode.      *)
(***************************************************************************)
EXTENDS Naturals, Sequences, FiniteSets

CONSTANTS
  File,       \* paths of (regular) files, one ObjectIdentity each
  Exec,       \* files with flags.executed_binary
  Reject,     \* files of which a version may be refused when opened
  Change,     \* subset of {"write", "replace", "remove", "move"}
  QuietLoad,  \* nobody changes a file between the read and the watch in load
  Delay,      \* SECOND_NS, in ticks
  QueueLimit, \* max_queued_events of inotify
  Batch,      \* events that fit in the buffer of filemodification_detect
  MaxChanges  \* bound on the changes of the file system

ASSUME WatchAssumption ==
  /\ IsFiniteSet(File) /\ 0 \notin File
  /\ Exec \subseteq File /\ Reject \subseteq File
  /\ Change \subseteq {"write", "replace", "remove", "move"}
  /\ QuietLoad \in BOOLEAN
  /\ Delay \in Nat \ {0} /\ QueueLimit \in Nat \ {0} /\ Batch \in Nat \ {0}
  /\ MaxChanges \in Nat

VARIABLES
  path,      \* File -> inode, 0 if there is no such file
  content,   \* inode -> content
  mark,      \* inode -> watch descriptor, 0 if it is not watched
  queue,     \* events in the kernel
  changes,   \* number of changes so far
  gone,      \* files that did not exist for a while
  lastwd,    \* watch descriptor handed out last
  wd,        \* File -> ObjectIdentity::wd, 0 for -1
  opened,    \* files in Loader::lookup
  seen,      \* File -> content read last, 0 before
  worklist,  \* worklist_load: pairs <<ticks until the deadline, file>>
  quiet,     \* File -> ticks since an event of it was handled, at most Delay
  buf,       \* events the helper has read
  pc,        \* helper: "poll", "detect" or "load"
  loading    \* the file being loaded (under lookup_sync) and by whom

fsVars == <<path, content, changes, gone>>
kernelVars == <<mark, queue, lastwd>>
vars == <<path, content, mark, queue, changes, gone, lastwd, wd, opened, seen,
          worklist, quiet, buf, pc, loading>>

Inode == 1 .. Cardinality(File) + MaxChanges
Mask == {"modify", "attrib", "delete", "move", "ignored", "overflow"}
Event == [wd : 0 .. lastwd, mask : Mask]
Nobody == [file |-> 0, by |-> "nobody"]
Content(f) == IF path[f] = 0 THEN 0 ELSE content[path[f]]
Entries(f) == {e \in worklist : e[2] = f}

-----------------------------------------------------------------------------
(* The kernel.                                                             *)

(* An event is merged with an identical one before it; when the queue is   *)
(* full a single overflow event (of no watch) takes its place.             *)
Queued(q, w, m) ==
  LET e == IF Len(q) >= QueueLimit THEN [wd |-> 0, mask |-> "overflow"]
           ELSE [wd |-> w, mask |-> m]
  IN IF w = 0 \/ (q # <<>> /\ q[Len(q)] = e) THEN q ELSE Append(q, e)

(* The path of inode i goes away.  A running binary keeps its inode, which *)
(* only changes its attributes; any other inode and its watch vanish.      *)
Unlinked(i, busy) ==
  IF busy
  THEN /\ queue' = Queued(queue, mark[i], "attrib")
       /\ UNCHANGED mark
  ELSE /\ queue' = Queued(Queued(queue, mark[i], "delete"), mark[i], "ignored")
       /\ mark' = [mark EXCEPT ![i] = 0]

Changed(f, kind) ==
  /\ kind \in Change /\ changes < MaxChanges
  /\ changes' = changes + 1
  /\ QuietLoad => loading.file # f
  /\ UNCHANGED <<lastwd, wd, opened, seen, worklist, quiet, buf, pc, loading>>

Running(f) == f \in Exec /\ f \in opened /\ path[f] <= Cardinality(File)
New == Cardinality(File) + changes + 1

(* The file is written (no one can write to a running binary).             *)
Write(f) ==
  /\ Changed(f, "write")
  /\ path[f] # 0 /\ ~Running(f)
  /\ content' = [content EXCEPT ![path[f]] = New]
  /\ queue' = Queued(queue, mark[path[f]], "modify")
  /\ UNCHANGED <<path, mark, gone>>

(* Another file is renamed to this path.                                   *)
Replace(f) ==
  /\ Changed(f, "replace")
  /\ path[f] # 0
  /\ path' = [path EXCEPT ![f] = New]
  /\ content' = [content EXCEPT ![New] = New]
  /\ Unlinked(path[f], Running(f))
  /\ UNCHANGED gone

Remove(f) ==
  /\ Changed(f, "remove")
  /\ path[f] # 0
  /\ path' = [path EXCEPT ![f] = 0] /\ gone' = gone \cup {f}
  /\ Unlinked(path[f], Running(f))
  /\ UNCHANGED content

(* The file is renamed to something else, its watch goes with it.          *)
MoveAway(f) ==
  /\ Changed(f, "move")
  /\ path[f] # 0
  /\ path' = [path EXCEPT ![f] = 0] /\ gone' = gone \cup {f}
  /\ queue' = Queued(queue, mark[path[f]], "move")
  /\ UNCHANGED <<content, mark>>

Create(f) ==
  /\ \E kind \in {"remove", "move"} : Changed(f, kind)
  /\ path[f] = 0
  /\ path' = [path EXCEPT ![f] = New]
  /\ content' = [content EXCEPT ![New] = New]
  /\ UNCHANGED <<mark, queue, gone>>

-----------------------------------------------------------------------------
(* ObjectIdentity::watch                                                   *)

(* Mutant: the descriptor is not stored.                                   *)
AddWatchForgets(f, m, q) ==
  /\ queue' = q
  /\ IF path[f] = 0 \/ m[path[f]] # 0
     THEN mark' = m /\ UNCHANGED lastwd
     ELSE /\ lastwd' = lastwd + 1
          /\ mark' = [m EXCEPT ![path[f]] = lastwd + 1]
  /\ UNCHANGED wd

(* inotify_add_watch for a path; the watch of a watched inode is reused.   *)
AddWatch(f, m, q) ==
  /\ queue' = q
  /\ IF path[f] = 0
     THEN /\ wd' = [wd EXCEPT ![f] = 0]
          /\ mark' = m /\ UNCHANGED lastwd
     ELSE IF m[path[f]] # 0
     THEN /\ wd' = [wd EXCEPT ![f] = m[path[f]]]
          /\ mark' = m /\ UNCHANGED lastwd
     ELSE /\ lastwd' = lastwd + 1
          /\ wd' = [wd EXCEPT ![f] = lastwd + 1]
          /\ mark' = [m EXCEPT ![path[f]] = lastwd + 1]

(* Mutant: an existing watch is always good enough.                        *)
watchOnce(f, force, close_existing) ==
  IF wd[f] = 0 THEN AddWatch(f, mark, queue) ELSE UNCHANGED <<kernelVars, wd>>

watch(f, force, close_existing) ==
  IF wd[f] = 0 \/ force
  THEN LET old == {i \in Inode : close_existing /\ wd[f] # 0 /\ mark[i] = wd[f]}
       IN AddWatch(f, [i \in Inode |-> IF i \in old THEN 0 ELSE mark[i]],
                   IF old = {} THEN queue ELSE Queued(queue, wd[f], "ignored"))
  ELSE UNCHANGED <<kernelVars, wd>>

-----------------------------------------------------------------------------
(* The helper thread: helper_loop.  A pass is short: the clock ticks only  *)
(* while it waits in poll.                                                 *)

Init ==
  /\ path \in [File -> 1 .. Cardinality(File)]
  /\ \A f, g \in File : path[f] = path[g] => f = g
  /\ content = [i \in Inode |-> IF i <= Cardinality(File) THEN i ELSE 0]
  /\ mark = [i \in Inode |-> 0]
  /\ queue = <<>> /\ changes = 0 /\ gone = {} /\ lastwd = 0
  /\ wd = [f \in File |-> 0]
  /\ opened = {}
  /\ seen = [f \in File |-> 0]
  /\ worklist = {}
  /\ quiet = [f \in File |-> Delay]
  /\ buf = <<>> /\ pc = "poll" /\ loading = Nobody

Tick ==
  /\ pc = "poll"
  /\ \E e \in worklist : e[1] > 0
  /\ worklist' = {<<IF e[1] = 0 THEN 0 ELSE e[1] - 1, e[2]>> : e \in worklist}
  /\ quiet' = [f \in File |-> IF quiet[f] = Delay THEN Delay ELSE quiet[f] + 1]
  /\ UNCHANGED <<fsVars, kernelVars, wd, opened, seen, buf, pc, loading>>

(* poll returns: there are events or time has passed.                      *)
Poll ==
  /\ pc = "poll"
  /\ queue # <<>> \/ \E e \in worklist : e[1] = 0
  /\ LET n == IF Len(queue) < Batch THEN Len(queue) ELSE Batch
     IN buf' = SubSeq(queue, 1, n) /\ queue' = SubSeq(queue, n + 1, Len(queue))
  /\ pc' = "detect"
  /\ UNCHANGED <<fsVars, mark, lastwd, wd, opened, seen, worklist, quiet, loading>>

(* Mutants: the deadline of an entry is not moved; the entry is not found. *)
PostponedNever(f) == IF Entries(f) = {} THEN worklist \cup {<<Delay, f>>} ELSE worklist
PostponedTwice(f) == worklist \cup {<<Delay, f>>}

(* A file that is in the list already gets a new deadline.                 *)
Postponed(f) == (worklist \ Entries(f)) \cup {<<Delay, f>>}

(* filemodification_detect, one event (under lookup_sync)                  *)
HandleEvent ==
  /\ pc = "detect" /\ buf # <<>> /\ loading = Nobody
  /\ buf' = Tail(buf)
  /\ LET e == Head(buf)
         hit == {f \in opened : e.wd # 0 /\ wd[f] = e.wd}
     IN \/ /\ hit = {}
           /\ UNCHANGED <<kernelVars, wd, worklist, quiet>>
        \/ \E f \in hit :
             /\ e.mask = "ignored"
             /\ watch(f, TRUE, TRUE)
             /\ UNCHANGED <<worklist, quiet>>
        \/ \E f \in hit :
             /\ e.mask # "ignored"
             /\ worklist' = Postponed(f)
             /\ quiet' = [quiet EXCEPT ![f] = 0]
             /\ UNCHANGED <<kernelVars, wd>>
  /\ UNCHANGED <<fsVars, opened, seen, pc, loading>>

DetectEnd ==
  /\ pc = "detect" /\ buf = <<>>
  /\ pc' = "load"
  /\ UNCHANGED <<fsVars, kernelVars, wd, opened, seen, worklist, quiet, buf, loading>>

(* The file is read for load(); by the helper because it is due, or by the *)
(* application, which opens it for the first time.                         *)
Read(f, who) ==
  /\ loading = Nobody
  /\ loading' = [file |-> f, by |-> who]
  /\ path[f] # 0
  /\ seen' = [seen EXCEPT ![f] = Content(f)]
  /\ UNCHANGED <<fsVars, kernelVars, wd, worklist, quiet, buf, pc>>

Due(f) == pc = "load" /\ <<0, f>> \in worklist

LoadRead(f) ==
  /\ Due(f)
  /\ Read(f, "helper")
  /\ UNCHANGED opened

(* The file is missing, or refused when opened (unsupported header, same   *)
(* time of modification): the entry is dropped, no watch is installed.     *)
LoadRefused(f) ==
  /\ Due(f) /\ loading = Nobody
  /\ path[f] = 0 \/ f \in Reject
  /\ seen' = [seen EXCEPT ![f] = Content(f)]
  /\ worklist' = worklist \ Entries(f)
  /\ UNCHANGED <<fsVars, kernelVars, wd, opened, quiet, buf, pc, loading>>

Open(f) ==
  /\ f \notin opened
  /\ Read(f, "application")
  /\ opened' = opened \cup {f}

(* The rest of ObjectIdentity::load, with its watch.                       *)
LoadWatch(f) ==
  /\ loading.file = f
  /\ watch(f, f \in Exec, f \in Exec)
  /\ worklist' = IF loading.by = "helper" THEN worklist \ Entries(f) ELSE worklist
  /\ loading' = Nobody
  /\ UNCHANGED <<fsVars, opened, seen, quiet, buf, pc>>

LoadEnd ==
  /\ pc = "load" /\ loading.by # "helper"
  /\ \A f \in File : <<0, f>> \notin worklist
  /\ pc' = "poll"
  /\ UNCHANGED <<fsVars, kernelVars, wd, opened, seen, worklist, quiet, buf, loading>>

Helper ==
  \/ Poll \/ HandleEvent \/ DetectEnd \/ LoadEnd
  \/ \E f \in File : LoadRead(f) \/ LoadRefused(f)

Environment ==
  \E f \in File : Write(f) \/ Replace(f) \/ Remove(f) \/ MoveAway(f) \/ Create(f)

Next ==
  \/ Tick \/ Helper \/ Environment
  \/ \E f \in File : Open(f) \/ LoadWatch(f)

Spec == Init /\ [][Next]_vars

(* Time passes, the helper is scheduled, a load that has begun ends.       *)
FairSpec ==
  /\ Spec
  /\ WF_vars(Tick) /\ WF_vars(Helper)
  /\ \A f \in File : WF_vars(LoadWatch(f))

-----------------------------------------------------------------------------
(* Properties.                                                             *)

(* A file has at most one entry in the worklist, so a batch of events      *)
(* leads to one load (filemodification_detect).                            *)
OneEntry == \A f \in File : Cardinality(Entries(f)) <= 1

Types ==
  /\ path \in [File -> Inode \cup {0}]
  /\ content \in [Inode -> Inode \cup {0}]
  /\ mark \in [Inode -> 0 .. lastwd] /\ lastwd \in Nat
  /\ queue \in Seq(Event) /\ buf \in Seq(Event)
  /\ changes \in 0 .. MaxChanges /\ gone \subseteq File
  /\ wd \in [File -> 0 .. lastwd]
  /\ opened \subseteq File
  /\ seen \in [File -> Inode \cup {0}]
  /\ worklist \subseteq (0 .. Delay) \X File
  /\ quiet \in [File -> 0 .. Delay]
  /\ pc \in {"poll", "detect", "load"}
  /\ loading \in {Nobody} \cup [file : File, by : {"helper", "application"}]

(* Every variable has its type, and worklist_load that of a map: one entry *)
(* for each file.                                                          *)
TypeOK == OneEntry /\ Types

(* An event of the watch of a file that the helper has still to handle     *)
Events(f) ==
  {e \in {queue[i] : i \in DOMAIN queue} \cup {buf[i] : i \in DOMAIN buf} :
     wd[f] # 0 /\ e.wd = wd[f]}

(* When a file that is loaded has no entry in the worklist and no event on *)
(* the way, then what was read is what is there, and the file at its path  *)
(* is watched: no change can be missed (of a file that always exists).     *)
NoChangeMissed ==
  \A f \in opened \ gone :
    (Entries(f) = {} /\ Events(f) = {} /\ loading.file # f) =>
      /\ seen[f] = Content(f)
      /\ path[f] # 0 /\ wd[f] # 0 /\ mark[path[f]] = wd[f]

(* The helper reads a file only if no event of it was handled for a second *)
LoadsAreQuiet ==
  [][\A f \in File : (seen'[f] # seen[f] /\ f \in opened) => quiet[f] = Delay]_vars

(* "new files are automatically detected and parsed" (README.md): the      *)
(* content a loaded file gets is read, unless it changes again before.     *)
NewFilesDetected ==
  \A f \in File, c \in Inode :
    (f \in opened /\ Content(f) = c) ~> (seen[f] = c \/ Content(f) # c)

(* The same for files that always exist.                                   *)
ChangesDetected ==
  \A f \in File, c \in Inode :
    (f \in opened /\ Content(f) = c) ~> (seen[f] = c \/ Content(f) # c \/ f \in gone)

(* "Notification event queue overflow -- will check all objects!"          *)
(* (filemodification_detect): an overflow puts every file in the worklist. *)
OverflowChecksAll ==
  [][(pc = "detect" /\ buf # <<>> /\ buf' = Tail(buf) /\ Head(buf).mask = "overflow")
       => \A f \in opened : \E e \in worklist' : e[2] = f]_vars
=============================================================================
