-------------------------------- MODULE Fork --------------------------------
(***************************************************************************)
(* fork in a process with dynamic updates: all versions of an object share *)
(* their writable data in a memory file, which a child would share with    *)
(* its parent.  The replacement of the fork system call copies each file   *)
(* before the clone, and the child maps the copies.                        *)
(*                                                                         *)
(* The thread that forks is the only one that writes data; the helper and  *)
(* other threads load objects and versions, which needs lookup_sync.       *)
(***************************************************************************)
EXTENDS Naturals, FiniteSets

CONSTANTS
  Pid,         \* processes; root is the first one
  root,
  Data,        \* objects with writable data
  MaxVersion,  \* bound on the versions of an object
  MaxValue,    \* values the data of an object may have: 0 .. MaxValue
  MaxFile      \* bound on the memory files (and descriptors of a process)

ASSUME ForkAssumption ==
  root \in Pid /\ MaxVersion \in Nat /\ MaxValue \in Nat /\ MaxFile \in Nat

Seg == Data \X (1 .. MaxVersion)   \* memory segments with data
None == 0                          \* no descriptor (-1 in the code), no file

VARIABLES
  phase,    \* Pid -> "none", "running", "dup", "remap", "close"
  reader,   \* Pid -> does its fork hold lookup_sync (as reader)?
  fd,       \* Pid -> Seg -> target.fd
  mapped,   \* Pid -> Seg -> the file that is mapped
  open,     \* Pid -> descriptor -> file
  replace,  \* Pid -> old descriptor -> new one (replace_fd)
  content,  \* file -> value, for the files that exist
  failed,   \* Pid -> has a clone failed in it (or its ancestors)?
  written   \* Pid -> Data -> value the program has written last

forkVars == <<phase, reader, fd, mapped, open, replace, content, failed, written>>

Empty == [x \in {} |-> None]
With(f, x, y) == [z \in DOMAIN f \cup {x} |-> IF z = x THEN y ELSE f[z]]
Without(f, S) == [z \in DOMAIN f \ S |-> f[z]]
Values(f) == {f[x] : x \in DOMAIN f}

Loaded(p) == {s \in Seg : fd[p][s] # None}
Fresh(S) == CHOOSE n \in 1 .. MaxFile : n \notin S
NewFile == Fresh(DOMAIN content)
NewFd(p) == Fresh(DOMAIN open[p])

ForkInit ==
  /\ phase = [p \in Pid |-> IF p = root THEN "running" ELSE "none"]
  /\ reader = [p \in Pid |-> FALSE]
  /\ fd = [p \in Pid |-> [s \in Seg |-> None]]
  /\ mapped = [p \in Pid |-> [s \in Seg |-> None]]
  /\ open = [p \in Pid |-> Empty]
  /\ replace = [p \in Pid |-> Empty]
  /\ content = Empty
  /\ failed = [p \in Pid |-> FALSE]
  /\ written = [p \in Pid |-> [d \in Data |-> 0]]

(* MemorySegment::map of the data of an object: the first version creates  *)
(* a memory file, the others take over its descriptor.  Objects are loaded *)
(* with lookup_sync held as writer.                                        *)
map(p, d) ==
  /\ phase[p] # "none" /\ ~reader[p]
  /\ LET v == Cardinality({s \in Loaded(p) : s[1] = d}) + 1
     IN /\ v <= MaxVersion
        /\ IF v = 1
           THEN /\ Cardinality(DOMAIN content) < MaxFile
                /\ fd' = [fd EXCEPT ![p][<<d, v>>] = NewFd(p)]
                /\ open' = [open EXCEPT ![p] = With(@, NewFd(p), NewFile)]
                /\ mapped' = [mapped EXCEPT ![p][<<d, v>>] = NewFile]
                /\ content' = With(content, NewFile, 0)
           ELSE /\ fd' = [fd EXCEPT ![p][<<d, v>>] = fd[p][<<d, v - 1>>]]
                /\ mapped' = [mapped EXCEPT ![p][<<d, v>>] = open[p][fd[p][<<d, v - 1>>]]]
                /\ UNCHANGED <<open, content>>
  /\ UNCHANGED <<phase, reader, replace, failed, written>>

(* The program writes the data through some version of the object.         *)
Write(p, s) ==
  /\ phase[p] = "running" /\ s \in Loaded(p)
  /\ \E x \in 0 .. MaxValue :
       /\ content' = [content EXCEPT ![mapped[p][s]] = x]
       /\ written' = [written EXCEPT ![p][s[1]] = x]
  /\ UNCHANGED <<phase, reader, fd, mapped, open, replace, failed>>

(* Bound: there is a process and there are files for the fork.             *)
Room(p) ==
  /\ \E c \in Pid : phase[c] = "none"
  /\ Cardinality(DOMAIN content) + Cardinality({fd[p][s] : s \in Loaded(p)}) <= MaxFile

(* __fork_syscall begins: lookup_sync.read_lock()                          *)
fork(p) ==
  /\ phase[p] = "running" /\ Room(p)
  /\ phase' = [phase EXCEPT ![p] = "dup"]
  /\ reader' = [reader EXCEPT ![p] = TRUE]
  /\ UNCHANGED <<fd, mapped, open, replace, content, failed, written>>

(* shmemdup of the next segment whose file has no copy yet                 *)
shmemdup(p) ==
  /\ phase[p] = "dup"
  /\ Cardinality(DOMAIN content) < MaxFile
  /\ \E s \in Loaded(p) :
       /\ fd[p][s] \notin DOMAIN replace[p]
       /\ content' = With(content, NewFile, content[open[p][fd[p][s]]])
       /\ open' = [open EXCEPT ![p] = With(@, NewFd(p), NewFile)]
       /\ replace' = [replace EXCEPT ![p] = With(@, fd[p][s], NewFd(p))]
  /\ UNCHANGED <<phase, reader, fd, mapped, failed, written>>

AllCopied(p) == phase[p] = "dup" /\ \A s \in Loaded(p) : fd[p][s] \in DOMAIN replace[p]

(* clone: the child begins as a copy of its parent                         *)
clone(p, c) ==
  /\ AllCopied(p) /\ phase[c] = "none"
  /\ phase' = [phase EXCEPT ![p] = "close", ![c] = "remap"]
  /\ reader' = [reader EXCEPT ![c] = reader[p]]
  /\ fd' = [fd EXCEPT ![c] = fd[p]]
  /\ mapped' = [mapped EXCEPT ![c] = mapped[p]]
  /\ open' = [open EXCEPT ![c] = open[p]]
  /\ replace' = [replace EXCEPT ![c] = replace[p]]
  /\ failed' = [failed EXCEPT ![c] = failed[p]]
  /\ written' = [written EXCEPT ![c] = written[p]]
  /\ UNCHANGED content

(* clone fails: the copies stay open                                       *)
clone_fails(p) ==
  /\ AllCopied(p)
  /\ phase' = [phase EXCEPT ![p] = "running"]
  /\ reader' = [reader EXCEPT ![p] = FALSE]
  /\ failed' = [failed EXCEPT ![p] = TRUE]
  /\ replace' = [replace EXCEPT ![p] = Empty]
  /\ UNCHANGED <<fd, mapped, open, content, written>>

(* Mutant: the child remaps one version of each object only.               *)
remapFirst(c) ==
  /\ phase[c] = "remap"
  /\ \E s \in Loaded(c) :
       /\ s[2] = 1 /\ fd[c][s] \in DOMAIN replace[c]
       /\ fd' = [fd EXCEPT ![c] = [x \in Seg |-> IF x[1] = s[1] /\ @[x] # None THEN replace[c][fd[c][s]] ELSE @[x]]]
       /\ mapped' = [mapped EXCEPT ![c][s] = open[c][replace[c][fd[c][s]]]]
  /\ UNCHANGED <<phase, reader, open, replace, content, failed, written>>

(* The child: unmap, new descriptor, map and finalize of the next segment  *)
remap(c) ==
  /\ phase[c] = "remap"
  /\ \E s \in Loaded(c) :
       /\ fd[c][s] \in DOMAIN replace[c]
       /\ fd' = [fd EXCEPT ![c][s] = replace[c][fd[c][s]]]
       /\ mapped' = [mapped EXCEPT ![c][s] = open[c][replace[c][fd[c][s]]]]
  /\ UNCHANGED <<phase, reader, open, replace, content, failed, written>>

(* The child closes the files of its parent, starts its helper and returns *)
ChildReturns(c) ==
  /\ phase[c] = "remap"
  /\ \A s \in Loaded(c) : fd[c][s] \notin DOMAIN replace[c]
  /\ open' = [open EXCEPT ![c] = Without(@, DOMAIN replace[c])]
  /\ phase' = [phase EXCEPT ![c] = "running"]
  /\ reader' = [reader EXCEPT ![c] = FALSE]
  /\ replace' = [replace EXCEPT ![c] = Empty]
  /\ UNCHANGED <<fd, mapped, content, failed, written>>

(* Mutant: the parent leaves the files of its child open.                  *)
ParentKeeps(p) ==
  /\ phase[p] = "close"
  /\ phase' = [phase EXCEPT ![p] = "running"]
  /\ reader' = [reader EXCEPT ![p] = FALSE]
  /\ replace' = [replace EXCEPT ![p] = Empty]
  /\ UNCHANGED <<fd, mapped, open, content, failed, written>>

(* The parent closes the files of its child and returns.                   *)
ParentReturns(p) ==
  /\ phase[p] = "close"
  /\ open' = [open EXCEPT ![p] = Without(@, Values(replace[p]))]
  /\ phase' = [phase EXCEPT ![p] = "running"]
  /\ reader' = [reader EXCEPT ![p] = FALSE]
  /\ replace' = [replace EXCEPT ![p] = Empty]
  /\ UNCHANGED <<fd, mapped, content, failed, written>>

(* A process ends, and with it the files only it has used.                 *)
ProcessExit(p) ==
  /\ phase[p] = "running" /\ \E q \in Pid \ {p} : phase[q] # "none"
  /\ phase' = [phase EXCEPT ![p] = "none"]
  /\ fd' = [fd EXCEPT ![p] = [s \in Seg |-> None]]
  /\ mapped' = [mapped EXCEPT ![p] = [s \in Seg |-> None]]
  /\ open' = [open EXCEPT ![p] = Empty]
  /\ failed' = [failed EXCEPT ![p] = FALSE]
  /\ written' = [written EXCEPT ![p] = [d \in Data |-> 0]]
  /\ content' = [f \in DOMAIN content \cap UNION {Values(open'[q]) \cup Values(mapped'[q]) : q \in Pid}
                   |-> content[f]]
  /\ UNCHANGED <<reader, replace>>

ForkNext ==
  \/ \E p \in Pid : \E d \in Data : map(p, d)
  \/ \E p \in Pid : \E s \in Seg : Write(p, s)
  \/ \E p, c \in Pid : clone(p, c)
  \/ \E p \in Pid : \/ fork(p) \/ shmemdup(p) \/ clone_fails(p)
                        \/ remap(p) \/ ChildReturns(p) \/ ParentReturns(p) \/ ProcessExit(p)

ForkSpec == ForkInit /\ [][ForkNext]_forkVars

-----------------------------------------------------------------------------
(* A process sees what it (or, before the fork, its parent) has written    *)
(* last, in whatever version of the object: data is shared between the     *)
(* versions of an object and never between processes.                      *)
SeesOwnData ==
  \A p \in Pid : phase[p] = "running" =>
    \A s \in Loaded(p) : content[mapped[p][s]] = written[p][s[1]]

(* After fork the open memory files of a process are those of its          *)
(* segments, each once: a chain of forks does not collect descriptors.     *)
DescriptorsMatch ==
  \A p \in Pid : phase[p] = "running" /\ ~failed[p] =>
    /\ DOMAIN open[p] = {fd[p][s] : s \in Loaded(p)}
    /\ \A s \in Loaded(p) : mapped[p][s] = open[p][fd[p][s]]
=============================================================================
