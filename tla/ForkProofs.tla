----------------------------- MODULE ForkProofs -----------------------------
(***************************************************************************)
(* Proofs about Fork, for any processes, objects, versions and files: a    *)
(* process sees the data it has written, whoever else has forked from it,  *)
(* and has a descriptor for each memory file it uses and for no other.     *)
(* First the parts of the inductive invariant, then that each step keeps it.*)
(***************************************************************************)
EXTENDS Fork, FiniteSetTheorems, TLAPS

(* The segments of a process that are loaded, its descriptors, and their   *)
(* targets: in the child the copies.                                       *)
Segs(f) == {s \in Seg : f[s] # None}
Fds(f) == {f[s] : s \in Segs(f)}
Target(ph, f, r, s) == IF ph = "remap" /\ f[s] \in DOMAIN r THEN r[f[s]] ELSE f[s]

(* The files that no other process uses                                    *)
Private(ph, f, o, r) ==
  {o[x] : x \in CASE ph = "dup" -> Fds(f) \cup Values(r)
                  [] ph = "remap" -> Values(r)
                  [] OTHER -> Fds(f)}

(* The versions of an object are loaded one after the other.               *)
Versions(f) ==
  \A d \in Data : \E k \in 0 .. MaxVersion : \A v \in 1 .. MaxVersion : f[<<d, v>>] # None <=> v <= k

(* Each segment has a descriptor, for the file it maps.                    *)
Descriptors(f, m, o) ==
  /\ DOMAIN o \subseteq 1 .. MaxFile
  /\ \A x, y \in DOMAIN o : o[x] = o[y] => x = y
  /\ \A s \in Segs(f) : f[s] \in DOMAIN o /\ m[s] = o[f[s]]

(* The copies of a fork                                                    *)
Copies(ph, f, o, r) ==
  /\ ph = "running" => DOMAIN r = {}
  /\ \A x, y \in DOMAIN r : r[x] \in DOMAIN o /\ r[x] \notin DOMAIN r /\ (r[x] = r[y] => x = y)
  /\ ph \in {"dup", "close"} => DOMAIN r \subseteq Fds(f) /\ Fds(f) \cap Values(r) = {}
  /\ ph = "remap" => /\ Fds(f) \subseteq DOMAIN r \cup Values(r)
                     /\ \A x \in DOMAIN r : x \in Fds(f) \/ r[x] \in Fds(f)

(* No other descriptors are open, unless a clone has failed.               *)
Exact(ph, f, o, r, fl) ==
  ~fl => DOMAIN o = (IF ph = "remap" THEN DOMAIN r ELSE Fds(f)) \cup Values(r)

(* The targets of the versions of an object are the same, and hold what    *)
(* the program has written.                                                *)
Holds(ph, f, o, r, w, c) ==
  /\ \A s, t \in Segs(f) : Target(ph, f, r, s) = Target(ph, f, r, t) <=> s[1] = t[1]
  /\ \A s \in Segs(f) : c[o[Target(ph, f, r, s)]] = w[s[1]]
  /\ ph = "dup" => \A x \in DOMAIN r : c[o[r[x]]] = c[o[x]]
  /\ \A d \in Data : (\A s \in Segs(f) : s[1] # d) => w[d] = 0

(* Where a process can be in __fork_syscall                                *)
Phases == {"running", "dup", "remap", "close"}
Alive(p) == phase[p] \in Phases

(* What holds of a living process by itself; it has the reader lock during *)
(* a fork.                                                                 *)
LocalInv(p) ==
  /\ reader[p] <=> phase[p] # "running"
  /\ Versions(fd[p])
  /\ Descriptors(fd[p], mapped[p], open[p])
  /\ Copies(phase[p], fd[p], open[p], replace[p])
  /\ Exact(phase[p], fd[p], open[p], replace[p], failed[p])
  /\ Holds(phase[p], fd[p], open[p], replace[p], written[p], content)
  /\ Values(open[p]) \subseteq DOMAIN content

(* Living processes share no files but those that a child is still to give *)
(* up.                                                                     *)
PrivateInv ==
  \A p, q \in Pid : Alive(p) /\ Alive(q) /\ p # q =>
    Private(phase[p], fd[p], open[p], replace[p]) \cap Private(phase[q], fd[q], open[q], replace[q]) = {}

(* The types of what belongs to a process                                  *)
ForkTypes ==
  /\ phase \in [Pid -> Phases \cup {"none"}]
  /\ reader \in [Pid -> BOOLEAN] /\ failed \in [Pid -> BOOLEAN]
  /\ fd \in [Pid -> [Seg -> 0 .. MaxFile]] /\ mapped \in [Pid -> [Seg -> 0 .. MaxFile]]
  /\ DOMAIN open = Pid /\ DOMAIN replace = Pid
  /\ written \in [Pid -> [Data -> 0 .. MaxValue]]
  /\ DOMAIN content \subseteq 1 .. MaxFile

(* The inductive invariant of fork                                         *)
ForkInv ==
  /\ ForkTypes
  /\ \A p \in Pid : Alive(p) => LocalInv(p)
  /\ PrivateInv

(* There is a descriptor or file left.                                     *)
LEMMA FreshOne ==
  ASSUME NEW S \in SUBSET (1 .. MaxFile), Cardinality(S) < MaxFile
  PROVE  Fresh(S) \in 1 .. MaxFile /\ Fresh(S) \notin S
<1>1. Cardinality(1 .. MaxFile) = MaxFile
  BY ForkAssumption, FS_Interval
<1>2. S # 1 .. MaxFile
  <2>1. ~(MaxFile < MaxFile)
    BY ForkAssumption
  <2> QED BY <1>1, <2>1, Zenon
<1>3. \E n \in 1 .. MaxFile : n \notin S
  BY <1>2, Zenon
<1> QED BY <1>3, Zenon DEF Fresh

(* A process has no more descriptors than there are files.                 *)
LEMMA FewDescriptors ==
  ASSUME NEW c, NEW f, NEW m, NEW o, DOMAIN c \subseteq 1 .. MaxFile,
         Descriptors(f, m, o), Values(o) \subseteq DOMAIN c
  PROVE  DOMAIN o \subseteq 1 .. MaxFile /\ Cardinality(DOMAIN o) <= Cardinality(DOMAIN c)
<1> DEFINE g == [x \in DOMAIN o |-> o[x]]
<1>1. DOMAIN o \subseteq 1 .. MaxFile
  BY Zenon DEF Descriptors
<1>2. g \in [DOMAIN o -> DOMAIN c]
  BY Zenon DEF Values
<1>3. \A x, y \in DOMAIN o : g[x] = g[y] => x = y
  BY Zenon DEF Descriptors
<1>4. g \in Injection(DOMAIN o, DOMAIN c)
  BY <1>2, <1>3, Zenon DEF Injection, IsInjective
<1>5. IsFiniteSet(DOMAIN c)
  <2>1. IsFiniteSet(1 .. MaxFile)
    BY ForkAssumption, FS_Interval
  <2> QED BY <2>1, FS_Subset, Zenon
<1> QED BY <1>1, <1>4, <1>5, FS_Injection, Zenon

(* The versions of an object are numbered by how many there are.           *)
LEMMA CountVersions ==
  ASSUME NEW f, Versions(f), NEW d \in Data,
         NEW k, k = Cardinality({s \in Segs(f) : s[1] = d})
  PROVE  k \in 0 .. MaxVersion /\ \A v \in 1 .. MaxVersion : f[<<d, v>>] # None <=> v <= k
<1>1. PICK n \in 0 .. MaxVersion : \A v \in 1 .. MaxVersion : f[<<d, v>>] # None <=> v <= n
  BY Zenon DEF Versions
<1> DEFINE S == {s \in Segs(f) : s[1] = d}
           g == [i \in 1 .. n |-> <<d, i>>]
<1>2. \A i \in 1 .. n : i \in 1 .. MaxVersion /\ i <= n
  BY ForkAssumption
<1>3. \A i \in 1 .. n : <<d, i>> \in S
  BY <1>1, <1>2, Zenon DEF Segs, Seg
<1>4. ASSUME NEW s \in S PROVE s[2] \in 1 .. n /\ s = <<d, s[2]>>
  <2>1. s \in Data \X (1 .. MaxVersion) /\ s[1] = d /\ f[s] # None
    BY Zenon DEF Segs, Seg
  <2>2. s = <<d, s[2]>> /\ s[2] \in 1 .. MaxVersion
    BY <2>1
  <2> QED BY <1>1, <2>1, <2>2, ForkAssumption
<1>5. g \in Bijection(1 .. n, S)
  <2>1. g \in [1 .. n -> S]
    BY <1>3, Zenon
  <2>2. \A i, j \in 1 .. n : g[i] = g[j] => i = j
    BY Zenon
  <2>3. \A s \in S : \E i \in 1 .. n : g[i] = s
    BY <1>4, Zenon
  <2>4. g \in Injection(1 .. n, S)
    BY <2>1, <2>2, Zenon DEF Injection, IsInjective
  <2>5. g \in Surjection(1 .. n, S)
    BY <2>1, <2>3, Zenon DEF Surjection
  <2> QED BY <2>4, <2>5, Zenon DEF Bijection
<1>6. IsFiniteSet(1 .. n) /\ Cardinality(1 .. n) = n
  BY FS_Interval, ForkAssumption
<1>7. Cardinality(S) = n
  <2> HIDE DEF S, g
  <2>1. ExistsBijection(1 .. n, S)
    BY <1>5, Zenon DEF ExistsBijection
  <2> QED BY <1>6, <2>1, FS_Bijection, Zenon
<1> QED BY <1>1, <1>7, Zenon

(* The targets are files no other process uses.                            *)
LEMMA TargetsPrivate ==
  ASSUME NEW ph \in Phases, NEW f, NEW m, NEW o, NEW r, Descriptors(f, m, o), Copies(ph, f, o, r)
  PROVE  /\ \A s \in Segs(f) : /\ Target(ph, f, r, s) \in DOMAIN o
                               /\ o[Target(ph, f, r, s)] \in Private(ph, f, o, r)
         /\ Private(ph, f, o, r) \subseteq Values(o)
         /\ ph = "dup" => \A x \in DOMAIN r : /\ o[x] \in Private(ph, f, o, r)
                                              /\ o[r[x]] \in Private(ph, f, o, r)
<1>1. \A x \in Fds(f) : x \in DOMAIN o
  BY DEF Fds, Descriptors
<1>2. \A x \in Values(r) : x \in DOMAIN o
  BY DEF Values, Copies
<1>3. \A s \in Segs(f) : f[s] \in Fds(f)
  BY Zenon DEF Fds
<1>4. \A x \in DOMAIN r : r[x] \in Values(r)
  BY Zenon DEF Values
<1>5. CASE ph = "remap"
  <2>1. Private(ph, f, o, r) = {o[x] : x \in Values(r)}
    BY <1>5, Zenon DEF Private
  <2>2. \A s \in Segs(f) : Target(ph, f, r, s) \in Values(r)
    BY <1>3, <1>4, <1>5, Zenon DEF Target, Copies
  <2>3. Private(ph, f, o, r) \subseteq Values(o)
    BY <1>2, <2>1, Zenon DEF Values
  <2> QED BY <1>2, <1>5, <2>1, <2>2, <2>3, Zenon
<1>6. CASE ph = "dup"
  <2>1. Private(ph, f, o, r) = {o[x] : x \in Fds(f) \cup Values(r)}
    BY <1>6, Zenon DEF Private
  <2>2. \A s \in Segs(f) : Target(ph, f, r, s) \in Fds(f)
    BY <1>3, <1>6, Zenon DEF Target
  <2>3. Private(ph, f, o, r) \subseteq Values(o)
    BY <1>1, <1>2, <2>1, Zenon DEF Values
  <2>4. DOMAIN r \subseteq Fds(f)
    BY <1>6, Zenon DEF Copies
  <2> QED BY <1>1, <1>4, <2>1, <2>2, <2>3, <2>4, Zenon
<1>7. CASE ph \in {"running", "close"}
  <2>1. Private(ph, f, o, r) = {o[x] : x \in Fds(f)}
    BY <1>7, Zenon DEF Private
  <2>2. \A s \in Segs(f) : Target(ph, f, r, s) \in Fds(f)
    BY <1>3, <1>7, Zenon DEF Target
  <2>3. Private(ph, f, o, r) \subseteq Values(o)
    BY <1>1, <2>1, Zenon DEF Values
  <2> QED BY <1>1, <1>7, <2>1, <2>2, <2>3, Zenon
<1> QED BY <1>5, <1>6, <1>7, Zenon DEF Phases

(* What the files of other processes contain does not matter.              *)
LEMMA HoldsStill ==
  ASSUME NEW ph \in Phases, NEW f, NEW m, NEW o, NEW r, NEW w, NEW c, NEW d,
         Descriptors(f, m, o), Copies(ph, f, o, r), Holds(ph, f, o, r, w, c),
         \A x \in Private(ph, f, o, r) : d[x] = c[x]
  PROVE  Holds(ph, f, o, r, w, d)
<1>1. \A s \in Segs(f) : d[o[Target(ph, f, r, s)]] = c[o[Target(ph, f, r, s)]]
  BY TargetsPrivate, Zenon
<1>2. ph = "dup" => \A x \in DOMAIN r : d[o[r[x]]] = c[o[r[x]]] /\ d[o[x]] = c[o[x]]
  BY TargetsPrivate, Zenon
<1> QED BY <1>1, <1>2, Zenon DEF Holds

(* The state of one process, and the files it uses                         *)
Files(p) == Private(phase[p], fd[p], open[p], replace[p])

(* Only the state of process p changes.                                    *)
Others(p) ==
  \A q \in Pid \ {p} :
    /\ phase'[q] = phase[q] /\ reader'[q] = reader[q] /\ fd'[q] = fd[q] /\ mapped'[q] = mapped[q]
    /\ open'[q] = open[q] /\ replace'[q] = replace[q] /\ failed'[q] = failed[q]
    /\ written'[q] = written[q]

(* A step of process p that changes files no other process uses            *)
LEMMA OneProcess ==
  ASSUME ForkInv, NEW p \in Pid, Others(p), ForkTypes', Alive(p)' => LocalInv(p)',
         \A q \in Pid \ {p} : Alive(q) =>
           /\ Values(open[q]) \subseteq DOMAIN content'
           /\ \A x \in Files(q) : content'[x] = content[x],
         Alive(p)' => Alive(p) /\ \A x \in Files(p)' : x \in Files(p) \/ x \notin DOMAIN content
  PROVE  ForkInv'
<1>1. ASSUME NEW q \in Pid \ {p}
      PROVE  /\ Alive(q)' => Alive(q)
             /\ Files(q)' = Files(q)
             /\ Alive(q) => LocalInv(q)' /\ Files(q) \subseteq DOMAIN content
  <2>1. /\ phase'[q] = phase[q] /\ reader'[q] = reader[q] /\ fd'[q] = fd[q] /\ mapped'[q] = mapped[q]
        /\ open'[q] = open[q] /\ replace'[q] = replace[q] /\ failed'[q] = failed[q]
        /\ written'[q] = written[q]
    BY Zenon DEF Others
  <2>2. Files(q)' = Files(q) /\ (Alive(q)' => Alive(q))
    BY <2>1, Zenon DEF Files, Alive
  <2> SUFFICES ASSUME Alive(q) PROVE LocalInv(q)' /\ Files(q) \subseteq DOMAIN content
    BY <2>2, Zenon
  <2>3. LocalInv(q) /\ phase[q] \in Phases
    BY Zenon DEF ForkInv, Alive
  <2>4. Files(q) \subseteq DOMAIN content
    BY <2>3, TargetsPrivate, Zenon DEF LocalInv, Files
  <2>5. Holds(phase[q], fd[q], open[q], replace[q], written[q], content')
    BY <2>3, HoldsStill, Zenon DEF LocalInv, Files
  <2>6. Values(open[q]) \subseteq DOMAIN content'
    BY Zenon
  <2>7. LocalInv(q)'
    BY <2>1, <2>3, <2>5, <2>6, Zenon DEF LocalInv
  <2> QED BY <2>4, <2>7, Zenon
<1>2. \A q \in Pid : Alive(q)' => LocalInv(q)'
  BY <1>1, Zenon
<1>3. PrivateInv'
  <2> SUFFICES ASSUME NEW q \in Pid, NEW t \in Pid, Alive(q)', Alive(t)', q # t
               PROVE  Files(q)' \cap Files(t)' = {}
    BY Zenon DEF PrivateInv, Files
  <2>1. Alive(q) /\ Alive(t)
    BY <1>1, Zenon
  <2>2. Files(q) \cap Files(t) = {}
    BY <2>1, Zenon DEF ForkInv, PrivateInv, Files
  <2>3. CASE q = p
    BY <1>1, <2>1, <2>2, <2>3, Zenon
  <2>4. CASE t = p
    BY <1>1, <2>1, <2>2, <2>4, Zenon
  <2>5. CASE q # p /\ t # p
    BY <1>1, <2>2, <2>5, Zenon
  <2> QED BY <2>3, <2>4, <2>5, Zenon
<1> QED BY <1>2, <1>3, Zenon DEF ForkInv

(* __fork_syscall takes the lock.                                          *)
LEMMA ForkStep ==
  ASSUME ForkInv, NEW p \in Pid, fork(p)
  PROVE  ForkInv'
<1>1. /\ phase[p] = "running" /\ phase'[p] = "dup" /\ reader'[p] = TRUE
      /\ UNCHANGED <<fd, mapped, open, replace, content, failed, written>>
  BY Zenon DEF fork, ForkInv, ForkTypes
<1>2. ForkTypes'
  BY Zenon DEF fork, ForkInv, ForkTypes, Phases
<1>3. Others(p)
  BY Zenon DEF fork, Others, ForkInv, ForkTypes
<1>4. Alive(p) /\ LocalInv(p)
  BY <1>1, Zenon DEF ForkInv, Alive, Phases
<1>5. DOMAIN replace[p] = {} /\ Values(replace[p]) = {}
  BY <1>1, <1>4, Zenon DEF LocalInv, Copies, Values
<1>6. Files(p)' = Files(p)
  BY <1>1, <1>5, Zenon DEF Files, Private
<1>7. LocalInv(p)'
  <2>1. Copies("dup", fd[p], open[p], replace[p])
    BY <1>5, Zenon DEF Copies
  <2>2. Exact("dup", fd[p], open[p], replace[p], failed[p])
    BY <1>1, <1>4, Zenon DEF LocalInv, Exact
  <2>3. Holds("dup", fd[p], open[p], replace[p], written[p], content)
    BY <1>1, <1>4, <1>5 DEF LocalInv, Holds, Target
  <2> QED BY <1>1, <1>4, <2>1, <2>2, <2>3, Zenon DEF LocalInv
<1>8. \A q \in Pid \ {p} : Alive(q) => /\ Values(open[q]) \subseteq DOMAIN content'
                                          /\ \A x \in Files(q) : content'[x] = content[x]
  BY <1>1, Zenon DEF ForkInv, LocalInv
<1> QED BY <1>2, <1>3, <1>4, <1>6, <1>7, <1>8, OneProcess, Zenon

(* The program writes data.                                                *)
LEMMA WriteStep ==
  ASSUME ForkInv, NEW p \in Pid, NEW s \in Seg, Write(p, s)
  PROVE  ForkInv'
<1> DEFINE f == fd[p]
           o == open[p]
<1>1. /\ phase[p] = "running" /\ s \in Segs(f)
      /\ UNCHANGED <<phase, reader, fd, mapped, open, replace, failed>>
  BY Zenon DEF Write, Loaded, Segs
<1>2. PICK x \in 0 .. MaxValue : /\ content' = [content EXCEPT ![mapped[p][s]] = x]
                                 /\ written' = [written EXCEPT ![p][s[1]] = x]
  BY Zenon DEF Write
<1>3. s[1] \in Data
  BY Zenon DEF Seg
<1>4. ForkTypes'
  BY <1>1, <1>2, <1>3, Zenon DEF ForkInv, ForkTypes
<1>5. Others(p)
  BY <1>1, <1>2, Zenon DEF Others, ForkInv, ForkTypes
<1>6. Alive(p) /\ LocalInv(p)
  BY <1>1, Zenon DEF ForkInv, Alive, Phases
<1>7. Descriptors(f, mapped[p], o) /\ Copies("running", f, o, replace[p])
  BY <1>1, <1>6, Zenon DEF LocalInv
<1>8. /\ f[s] \in DOMAIN o /\ mapped[p][s] = o[f[s]] /\ o[f[s]] \in Files(p)
      /\ o[f[s]] \in DOMAIN content
  <2>1. f[s] \in DOMAIN o /\ mapped[p][s] = o[f[s]]
    BY <1>1, <1>7, Zenon DEF Descriptors
  <2>2. o[f[s]] \in Files(p)
    BY <1>1, Zenon DEF Files, Private, Fds
  <2> QED BY <1>6, <2>1, <2>2, Zenon DEF LocalInv, Values
<1>9. /\ DOMAIN content' = DOMAIN content /\ content'[o[f[s]]] = x
      /\ \A y \in DOMAIN content : y # o[f[s]] => content'[y] = content[y]
  BY <1>2, <1>8, Zenon
<1>10. Files(p)' = Files(p)
  BY <1>1, Zenon DEF Files
<1>11. Holds("running", f, o, replace[p], written'[p], content')
  <2>1. Holds("running", f, o, replace[p], written[p], content)
    BY <1>1, <1>6, Zenon DEF LocalInv
  <2>2. \A t \in Segs(f) : Target("running", f, replace[p], t) = f[t]
    BY Zenon DEF Target
  <2>3. \A d \in Data : written'[p][d] = IF d = s[1] THEN x ELSE written[p][d]
    BY <1>2, <1>3, Zenon DEF ForkInv, ForkTypes
  <2>4. ASSUME NEW t \in Segs(f) PROVE content'[o[f[t]]] = written'[p][t[1]]
    <3>1. t[1] \in Data /\ f[t] \in DOMAIN o /\ o[f[t]] \in DOMAIN content
      BY <1>6, <1>7, Zenon DEF Segs, Seg, Descriptors, LocalInv, Values
    <3>2. f[t] = f[s] <=> t[1] = s[1]
      BY <1>1, <2>1, <2>2 DEF Holds
    <3>3. o[f[t]] = o[f[s]] <=> t[1] = s[1]
      BY <1>7, <1>8, <3>1, <3>2, Zenon DEF Descriptors
    <3>4. content[o[f[t]]] = written[p][t[1]]
      BY <2>1, <2>2, Zenon DEF Holds
    <3> QED BY <1>9, <2>3, <3>1, <3>3, <3>4, Zenon
  <2>5. ASSUME NEW d \in Data, \A t \in Segs(f) : t[1] # d PROVE written'[p][d] = 0
    BY <1>1, <2>1, <2>3, <2>5, Zenon DEF Holds
  <2> QED BY <2>1, <2>2, <2>4, <2>5, Zenon DEF Holds
<1>12. LocalInv(p)'
  BY <1>1, <1>6, <1>9, <1>11, Zenon DEF LocalInv
<1>13. ASSUME NEW q \in Pid \ {p}, Alive(q)
       PROVE  /\ Values(open[q]) \subseteq DOMAIN content'
              /\ \A y \in Files(q) : content'[y] = content[y]
  <2>1. LocalInv(q) /\ Files(q) \cap Files(p) = {}
    BY <1>6, <1>13, Zenon DEF ForkInv, PrivateInv, Files
  <2>2. Files(q) \subseteq DOMAIN content
    BY <1>13, <2>1, TargetsPrivate, Zenon DEF LocalInv, Files, Alive
  <2>3. Values(open[q]) \subseteq DOMAIN content
    BY <2>1, Zenon DEF LocalInv
  <2> QED BY <1>8, <1>9, <2>1, <2>2, <2>3, Zenon
<1> QED BY <1>4, <1>5, <1>6, <1>10, <1>12, <1>13, OneProcess, Zenon

(* A clone that fails leaves the copies open.                              *)
LEMMA FailStep ==
  ASSUME ForkInv, NEW p \in Pid, clone_fails(p)
  PROVE  ForkInv'
<1>1. /\ phase[p] = "dup" /\ phase'[p] = "running" /\ reader'[p] = FALSE /\ failed'[p] = TRUE
      /\ replace'[p] = Empty
      /\ UNCHANGED <<fd, mapped, open, content, written>>
  BY Zenon DEF clone_fails, AllCopied, ForkInv, ForkTypes
<1>2. ForkTypes'
  BY Zenon DEF clone_fails, ForkInv, ForkTypes, Phases
<1>3. Others(p)
  BY Zenon DEF clone_fails, Others, ForkInv, ForkTypes
<1>4. Alive(p) /\ LocalInv(p)
  BY <1>1, Zenon DEF ForkInv, Alive, Phases
<1>5. DOMAIN Empty = {} /\ Values(Empty) = {}
  BY Zenon DEF Empty, Values
<1>6. Files(p)' \subseteq Files(p)
  BY <1>1, Zenon DEF Files, Private
<1>7. LocalInv(p)'
  <2>1. Copies("running", fd[p], open[p], Empty)
    BY <1>5, Zenon DEF Copies
  <2>2. Exact("running", fd[p], open[p], Empty, TRUE)
    BY Zenon DEF Exact
  <2>3. Holds("running", fd[p], open[p], Empty, written[p], content)
    BY <1>1, <1>4, <1>5, Zenon DEF LocalInv, Holds, Target
  <2> QED BY <1>1, <1>4, <2>1, <2>2, <2>3, Zenon DEF LocalInv
<1>8. \A q \in Pid \ {p} : Alive(q) => /\ Values(open[q]) \subseteq DOMAIN content'
                                          /\ \A x \in Files(q) : content'[x] = content[x]
  BY <1>1, Zenon DEF ForkInv, LocalInv
<1> QED BY <1>2, <1>3, <1>4, <1>6, <1>7, <1>8, OneProcess, Zenon

(* The child maps the copy of the next segment.                            *)
LEMMA RemapStep ==
  ASSUME ForkInv, NEW p \in Pid, remap(p)
  PROVE  ForkInv'
<1> DEFINE f == fd[p]
           o == open[p]
           r == replace[p]
<1>1. PICK s \in Segs(f) : /\ f[s] \in DOMAIN r
                           /\ fd' = [fd EXCEPT ![p][s] = r[f[s]]]
                           /\ mapped' = [mapped EXCEPT ![p][s] = o[r[f[s]]]]
  BY Zenon DEF remap, Loaded, Segs
<1>2. phase[p] = "remap" /\ UNCHANGED <<phase, reader, open, replace, content, failed, written>>
  BY Zenon DEF remap
<1>3. Alive(p) /\ LocalInv(p)
  BY <1>2, Zenon DEF ForkInv, Alive, Phases
<1>4. /\ Descriptors(f, mapped[p], o) /\ Copies("remap", f, o, r)
      /\ Values(o) \subseteq DOMAIN content /\ DOMAIN content \subseteq 1 .. MaxFile
  BY <1>2, <1>3, Zenon DEF LocalInv, ForkInv, ForkTypes
<1> DEFINE n == r[f[s]]
           g == fd'[p]
<1>5. /\ n \in DOMAIN o /\ n \notin DOMAIN r /\ n \in 1 .. MaxFile /\ o[n] \in 1 .. MaxFile
      /\ n # None
  <2>1. n \in DOMAIN o /\ n \notin DOMAIN r
    BY <1>1, <1>4, Zenon DEF Copies
  <2>2. n \in 1 .. MaxFile
    BY <1>4, <2>1, Zenon DEF Descriptors
  <2>3. o[n] \in Values(o)
    BY <2>1, Zenon DEF Values
  <2> QED BY <1>4, <2>1, <2>2, <2>3, ForkAssumption DEF None
<1>6. s \in Seg /\ s \in Segs(f)
  BY Zenon DEF Segs
<1>7. /\ \A t \in Seg : g[t] = IF t = s THEN n ELSE f[t]
      /\ \A t \in Seg : mapped'[p][t] = IF t = s THEN o[n] ELSE mapped[p][t]
  BY <1>1, <1>6, Zenon DEF ForkInv, ForkTypes
<1>8. ForkTypes'
  BY <1>1, <1>2, <1>5, <1>6 DEF ForkInv, ForkTypes
<1>9. Others(p)
  BY <1>1, <1>2, Zenon DEF Others, ForkInv, ForkTypes
<1> HIDE DEF n, g
<1>10. Segs(g) = Segs(f)
  BY <1>5, <1>6, <1>7, Zenon DEF Segs
<1>11. \A t \in Segs(f) : Target("remap", g, r, t) = Target("remap", f, r, t)
  BY <1>1, <1>5, <1>7, Zenon DEF Target, Segs, n
<1>12. Files(p)' = Files(p)
  BY <1>2, Zenon DEF Files, Private
<1>13. Versions(g)
  <2>1. \A d \in Data : \A v \in 1 .. MaxVersion : g[<<d, v>>] # None <=> f[<<d, v>>] # None
    <3>1. \A t \in Seg : g[t] # None <=> f[t] # None
      BY <1>10, Zenon DEF Segs
    <3> QED BY <3>1, Zenon DEF Seg
  <2> QED BY <1>3, <2>1, Zenon DEF LocalInv, Versions
<1>14. Descriptors(g, mapped'[p], o)
  BY <1>4, <1>5, <1>6, <1>7, <1>10, Zenon DEF Descriptors, Segs
<1>15. Copies("remap", g, o, r)
  <2>1. ASSUME NEW y \in Fds(g) PROVE y \in DOMAIN r \cup Values(r)
    <3>1. PICK t \in Segs(f) : y = g[t]
      BY <1>10, Zenon DEF Fds
    <3>2. CASE t = s
      BY <1>1, <1>6, <1>7, <3>1, <3>2, Zenon DEF n, Values
    <3>3. CASE t # s
      <4>1. y = f[t] /\ y \in Fds(f)
        BY <1>7, <3>1, <3>3, Zenon DEF Fds, Segs
      <4> QED BY <1>4, <4>1, Zenon DEF Copies
    <3> QED BY <3>2, <3>3, Zenon
  <2>2. ASSUME NEW x \in DOMAIN r PROVE x \in Fds(g) \/ r[x] \in Fds(g)
    <3>1. \A t \in Segs(f) : g[t] \in Fds(g)
      BY <1>10, Zenon DEF Fds
    <3>2. PICK t \in Segs(f) : f[t] = x \/ f[t] = r[x]
      BY <1>4 DEF Copies, Fds
    <3>3. CASE t = s
      <4>1. f[s] = x
        BY <1>1, <1>4, <3>2, <3>3, Zenon DEF Copies
      <4>2. g[s] = r[x]
        BY <1>6, <1>7, <4>1, Zenon DEF n
      <4> QED BY <1>6, <3>1, <4>2, Zenon
    <3>4. CASE t # s
      BY <1>7, <3>1, <3>2, <3>4, Zenon DEF Segs
    <3> QED BY <3>3, <3>4, Zenon
  <2> QED BY <1>4, <2>1, <2>2, Zenon DEF Copies
<1>16. Holds("remap", g, o, r, written[p], content)
  BY <1>2, <1>3, <1>10, <1>11 DEF LocalInv, Holds
<1>17. Exact("remap", g, o, r, failed[p])
  BY <1>2, <1>3, Zenon DEF LocalInv, Exact
<1>18. LocalInv(p)'
  BY <1>2, <1>3, <1>13, <1>14, <1>15, <1>16, <1>17, Zenon DEF LocalInv, g
<1>19. \A q \in Pid \ {p} : Alive(q) => /\ Values(open[q]) \subseteq DOMAIN content'
                                           /\ \A x \in Files(q) : content'[x] = content[x]
  BY <1>2, Zenon DEF ForkInv, LocalInv
<1> QED BY <1>3, <1>8, <1>9, <1>12, <1>18, <1>19, OneProcess, Zenon

(* The child closes the files of its parent.                               *)
LEMMA ChildStep ==
  ASSUME ForkInv, NEW p \in Pid, ChildReturns(p)
  PROVE  ForkInv'
<1> DEFINE f == fd[p]
           r == replace[p]
           o == open[p]
           n == Without(o, DOMAIN r)
<1>1. /\ phase[p] = "remap" /\ phase'[p] = "running" /\ reader'[p] = FALSE
      /\ open'[p] = n /\ replace'[p] = Empty
      /\ \A s \in Segs(f) : f[s] \notin DOMAIN r
      /\ UNCHANGED <<fd, mapped, content, failed, written>>
  BY Zenon DEF ChildReturns, ForkInv, ForkTypes, Loaded, Segs
<1>2. ForkTypes'
  BY Zenon DEF ChildReturns, ForkInv, ForkTypes, Phases
<1>3. Others(p)
  BY Zenon DEF ChildReturns, Others, ForkInv, ForkTypes
<1>4. Alive(p) /\ LocalInv(p)
  BY <1>1, Zenon DEF ForkInv, Alive, Phases
<1>5. DOMAIN Empty = {} /\ Values(Empty) = {}
  BY DEF Empty, Values
<1>6. DOMAIN n = DOMAIN o \ DOMAIN r /\ \A x \in DOMAIN n : n[x] = o[x]
  BY Zenon DEF Without
<1> HIDE DEF n
<1>7. Descriptors(f, mapped[p], o) /\ Copies("remap", f, o, r)
  BY <1>1, <1>4, Zenon DEF LocalInv
<1>8. \A x \in Fds(f) : x \in Values(r) /\ x \in DOMAIN n
  BY <1>1, <1>6, <1>7 DEF Fds, Descriptors, Copies
<1>9. Files(p)' \subseteq Files(p)
  <2>1. Files(p)' = {n[x] : x \in Fds(f)}
    BY <1>1, Zenon DEF Files, Private
  <2>2. Files(p) = {o[x] : x \in Values(r)}
    BY <1>1, Zenon DEF Files, Private
  <2> QED BY <1>6, <1>8, <2>1, <2>2, Zenon
<1>10. LocalInv(p)'
  <2>1. Descriptors(f, mapped[p], n)
    BY <1>6, <1>7, <1>8 DEF Descriptors, Fds
  <2>2. Copies("running", f, n, Empty)
    BY <1>5, Zenon DEF Copies
  <2>3. Exact("running", f, n, Empty, failed[p])
    <3> SUFFICES ASSUME ~failed[p] PROVE DOMAIN n = Fds(f)
      BY <1>5, Zenon DEF Exact
    <3>1. DOMAIN o = DOMAIN r \cup Values(r)
      BY <1>1, <1>4, Zenon DEF LocalInv, Exact
    <3>2. \A x \in DOMAIN r : r[x] \in Fds(f)
      BY <1>1, <1>7, Zenon DEF Copies, Fds
    <3> QED BY <1>6, <1>8, <3>1, <3>2, Zenon DEF Values
  <2>4. Holds("running", f, n, Empty, written[p], content)
    <3>1. Holds("remap", f, o, r, written[p], content)
      BY <1>1, <1>4, Zenon DEF LocalInv
    <3>2. \A s \in Segs(f) : /\ Target("remap", f, r, s) = f[s] /\ Target("running", f, Empty, s) = f[s]
                             /\ n[f[s]] = o[f[s]]
      BY <1>1, <1>6, <1>8, Zenon DEF Target, Fds
    <3> QED BY <3>1, <3>2 DEF Holds
  <2>5. Values(n) \subseteq DOMAIN content
    BY <1>4, <1>6, Zenon DEF LocalInv, Values
  <2> QED BY <1>1, <1>4, <2>1, <2>2, <2>3, <2>4, <2>5, Zenon DEF LocalInv
<1>11. \A q \in Pid \ {p} : Alive(q) => /\ Values(open[q]) \subseteq DOMAIN content'
                                           /\ \A x \in Files(q) : content'[x] = content[x]
  BY <1>1, Zenon DEF ForkInv, LocalInv
<1> QED BY <1>2, <1>3, <1>4, <1>9, <1>10, <1>11, OneProcess

(* The parent closes the files of its child.                               *)
LEMMA ParentStep ==
  ASSUME ForkInv, NEW p \in Pid, ParentReturns(p)
  PROVE  ForkInv'
<1> DEFINE f == fd[p]
           r == replace[p]
           o == open[p]
           n == Without(o, Values(r))
<1>1. /\ phase[p] = "close" /\ phase'[p] = "running" /\ reader'[p] = FALSE
      /\ open'[p] = n /\ replace'[p] = Empty
      /\ UNCHANGED <<fd, mapped, content, failed, written>>
  BY Zenon DEF ParentReturns, ForkInv, ForkTypes
<1>2. ForkTypes'
  BY Zenon DEF ParentReturns, ForkInv, ForkTypes, Phases
<1>3. Others(p)
  BY Zenon DEF ParentReturns, Others, ForkInv, ForkTypes
<1>4. Alive(p) /\ LocalInv(p)
  BY <1>1, Zenon DEF ForkInv, Alive, Phases
<1>5. DOMAIN Empty = {} /\ Values(Empty) = {}
  BY DEF Empty, Values
<1>6. DOMAIN n = DOMAIN o \ Values(r) /\ \A x \in DOMAIN n : n[x] = o[x]
  BY Zenon DEF Without
<1> HIDE DEF n
<1>7. Descriptors(f, mapped[p], o) /\ Copies("close", f, o, r)
  BY <1>1, <1>4, Zenon DEF LocalInv
<1>8. \A x \in Fds(f) : x \in DOMAIN n
  BY <1>6, <1>7 DEF Fds, Descriptors, Copies
<1>9. Files(p)' \subseteq Files(p)
  <2>1. Files(p)' = {n[x] : x \in Fds(f)}
    BY <1>1, Zenon DEF Files, Private
  <2>2. Files(p) = {o[x] : x \in Fds(f)}
    BY <1>1, Zenon DEF Files, Private
  <2> QED BY <1>6, <1>8, <2>1, <2>2, Zenon
<1>10. LocalInv(p)'
  <2>1. Descriptors(f, mapped[p], n)
    BY <1>6, <1>7, <1>8 DEF Descriptors, Fds
  <2>2. Copies("running", f, n, Empty)
    BY <1>5 DEF Copies
  <2>3. Exact("running", f, n, Empty, failed[p])
    <3> SUFFICES ASSUME ~failed[p] PROVE DOMAIN n = Fds(f)
      BY <1>5 DEF Exact
    <3>1. DOMAIN o = Fds(f) \cup Values(r)
      BY <1>1, <1>4, Zenon DEF LocalInv, Exact
    <3> QED BY <1>6, <1>8, <3>1, Zenon
  <2>4. Holds("running", f, n, Empty, written[p], content)
    <3>1. Holds("close", f, o, r, written[p], content)
      BY <1>1, <1>4, Zenon DEF LocalInv
    <3>2. \A s \in Segs(f) : /\ Target("close", f, r, s) = f[s] /\ Target("running", f, Empty, s) = f[s]
                             /\ n[f[s]] = o[f[s]]
      BY <1>6, <1>8, Zenon DEF Target, Fds
    <3> QED BY <3>1, <3>2 DEF Holds
  <2>5. Values(n) \subseteq DOMAIN content
    BY <1>4, <1>6, Zenon DEF LocalInv, Values
  <2> QED BY <1>1, <1>4, <2>1, <2>2, <2>3, <2>4, <2>5, Zenon DEF LocalInv
<1>11. \A q \in Pid \ {p} : Alive(q) => /\ Values(open[q]) \subseteq DOMAIN content'
                                           /\ \A x \in Files(q) : content'[x] = content[x]
  BY <1>1, Zenon DEF ForkInv, LocalInv
<1> QED BY <1>2, <1>3, <1>4, <1>9, <1>10, <1>11, OneProcess

(* A process ends.                                                         *)
LEMMA ExitStep ==
  ASSUME ForkInv, NEW p \in Pid, ProcessExit(p)
  PROVE  ForkInv'
<1>1. phase'[p] = "none" /\ ~Alive(p)'
  BY Zenon DEF ProcessExit, ForkInv, ForkTypes, Alive, Phases
<1>2. /\ DOMAIN content' =
           DOMAIN content \cap UNION {Values(open'[q]) \cup Values(mapped'[q]) : q \in Pid}
      /\ \A x \in DOMAIN content' : content'[x] = content[x]
  BY Zenon DEF ProcessExit
<1>3. Others(p)
  BY Zenon DEF ProcessExit, Others, ForkInv, ForkTypes
<1>4. ForkTypes'
  <2>1. phase' \in [Pid -> Phases \cup {"none"}] /\ failed' \in [Pid -> BOOLEAN]
    BY Zenon DEF ProcessExit, ForkInv, ForkTypes
  <2>2. /\ fd' \in [Pid -> [Seg -> 0 .. MaxFile]] /\ mapped' \in [Pid -> [Seg -> 0 .. MaxFile]]
        /\ written' \in [Pid -> [Data -> 0 .. MaxValue]]
    BY ForkAssumption DEF ProcessExit, ForkInv, ForkTypes, None
  <2>3. DOMAIN open' = Pid /\ UNCHANGED <<reader, replace>>
    BY Zenon DEF ProcessExit, ForkInv, ForkTypes
  <2>4. DOMAIN content' \subseteq 1 .. MaxFile
    BY <1>2, Zenon DEF ForkInv, ForkTypes
  <2> QED BY <2>1, <2>2, <2>3, <2>4, Zenon DEF ForkInv, ForkTypes
<1>5. ASSUME NEW q \in Pid \ {p}, Alive(q)
      PROVE  /\ Values(open[q]) \subseteq DOMAIN content'
             /\ \A x \in Files(q) : content'[x] = content[x]
  <2>1. LocalInv(q) /\ open'[q] = open[q]
    BY <1>3, <1>5, Zenon DEF ForkInv, Others
  <2>2. Values(open[q]) \subseteq DOMAIN content'
    BY <1>2, <2>1 DEF LocalInv
  <2>3. Files(q) \subseteq Values(open[q])
    BY <1>5, <2>1, TargetsPrivate, Zenon DEF LocalInv, Files, Alive
  <2> QED BY <1>2, <2>2, <2>3, Zenon
<1> QED BY <1>1, <1>3, <1>4, <1>5, OneProcess, Zenon

(* A new descriptor and a new file                                         *)
LEMMA NewOnes ==
  ASSUME ForkInv, NEW p \in Pid, Alive(p), Cardinality(DOMAIN content) < MaxFile
  PROVE  /\ NewFile \in 1 .. MaxFile /\ NewFile \notin DOMAIN content
         /\ NewFd(p) \in 1 .. MaxFile /\ NewFd(p) \notin DOMAIN open[p]
<1>1. /\ DOMAIN content \subseteq 1 .. MaxFile
      /\ Descriptors(fd[p], mapped[p], open[p]) /\ Values(open[p]) \subseteq DOMAIN content
  BY Zenon DEF ForkInv, ForkTypes, LocalInv
<1>2. DOMAIN open[p] \subseteq 1 .. MaxFile /\ Cardinality(DOMAIN open[p]) <= Cardinality(DOMAIN content)
  BY <1>1, FewDescriptors, Zenon
<1>3. IsFiniteSet(DOMAIN content) /\ IsFiniteSet(DOMAIN open[p])
  <2>1. IsFiniteSet(1 .. MaxFile)
    BY ForkAssumption, FS_Interval
  <2> QED BY <1>1, <1>2, <2>1, FS_Subset, Zenon
<1>4. Cardinality(DOMAIN content) \in Nat /\ Cardinality(DOMAIN open[p]) \in Nat
  BY <1>3, FS_CardinalityType, Zenon
<1>5. Cardinality(DOMAIN open[p]) < MaxFile
  BY <1>2, <1>4, ForkAssumption
<1> QED BY <1>1, <1>2, <1>5, FreshOne, Zenon DEF NewFile, NewFd

(* A new file is not one of another process.                               *)
LEMMA OthersFiles ==
  ASSUME ForkInv, NEW q \in Pid, Alive(q), NEW x, x \notin DOMAIN content, NEW y,
         NEW c, c = With(content, x, y)
  PROVE  /\ Values(open[q]) \subseteq DOMAIN c
         /\ \A z \in Files(q) : c[z] = content[z]
<1>1. LocalInv(q)
  BY Zenon DEF ForkInv
<1>2. Files(q) \subseteq Values(open[q]) /\ Values(open[q]) \subseteq DOMAIN content
  BY <1>1, TargetsPrivate, Zenon DEF LocalInv, Files, Alive
<1>3. DOMAIN c = DOMAIN content \cup {x} /\ \A z \in DOMAIN content : c[z] = content[z]
  BY Zenon DEF With
<1> QED BY <1>2, <1>3, Zenon

(* shmemdup copies the next file.                                          *)
LEMMA DupStep ==
  ASSUME ForkInv, NEW p \in Pid, shmemdup(p)
  PROVE  ForkInv'
<1> DEFINE f == fd[p]
           o == open[p]
           r == replace[p]
           n == NewFd(p)
           y == NewFile
<1>1. PICK s \in Segs(f) : /\ f[s] \notin DOMAIN r
                           /\ content' = With(content, y, content[o[f[s]]])
                           /\ open' = [open EXCEPT ![p] = With(o, n, y)]
                           /\ replace' = [replace EXCEPT ![p] = With(r, f[s], n)]
  BY Zenon DEF shmemdup, Loaded, Segs
<1>2. phase[p] = "dup" /\ UNCHANGED <<phase, reader, fd, mapped, failed, written>>
  BY Zenon DEF shmemdup
<1>3. Alive(p) /\ LocalInv(p)
  BY <1>2, Zenon DEF ForkInv, Alive, Phases
<1>4. /\ y \in 1 .. MaxFile /\ y \notin DOMAIN content
      /\ n \in 1 .. MaxFile /\ n \notin DOMAIN o
  BY <1>3, NewOnes, Zenon DEF shmemdup
<1> DEFINE x == f[s]
           o2 == With(o, n, y)
           r2 == With(r, x, n)
           c2 == With(content, y, content[o[x]])
<1>5. open'[p] = o2 /\ replace'[p] = r2 /\ content' = c2
  BY <1>1, Zenon DEF ForkInv, ForkTypes
<1> HIDE DEF n, y
<1>6. /\ DOMAIN o2 = DOMAIN o \cup {n} /\ o2[n] = y /\ (\A z \in DOMAIN o : o2[z] = o[z])
      /\ Values(o2) = Values(o) \cup {y}
  <2>1. DOMAIN o2 = DOMAIN o \cup {n} /\ o2[n] = y /\ (\A z \in DOMAIN o : o2[z] = o[z])
    BY <1>4, Zenon DEF With
  <2> HIDE DEF o2
  <2>2. Values(o2) = Values(o) \cup {y}
    BY <2>1 DEF Values
  <2> QED BY <2>1, <2>2, Zenon
<1>7. /\ DOMAIN r2 = DOMAIN r \cup {x} /\ r2[x] = n /\ (\A z \in DOMAIN r : r2[z] = r[z])
      /\ Values(r2) = Values(r) \cup {n}
  <2>1. DOMAIN r2 = DOMAIN r \cup {x} /\ r2[x] = n /\ (\A z \in DOMAIN r : r2[z] = r[z])
    BY <1>1, Zenon DEF With
  <2> HIDE DEF r2, x
  <2>2. Values(r2) = Values(r) \cup {n}
    BY <2>1 DEF Values
  <2> QED BY <2>1, <2>2, Zenon
<1>8. /\ DOMAIN c2 = DOMAIN content \cup {y} /\ c2[y] = content[o[x]]
      /\ \A z \in DOMAIN content : c2[z] = content[z]
  BY <1>4, Zenon DEF With
<1>9. ForkTypes'
  BY <1>1, <1>2, <1>4, <1>5, <1>8, Zenon DEF ForkInv, ForkTypes
<1>10. Others(p)
  BY <1>1, <1>2, Zenon DEF Others, ForkInv, ForkTypes
<1> HIDE DEF o2, r2, c2
<1>11. /\ Descriptors(f, mapped[p], o) /\ Copies("dup", f, o, r) /\ Exact("dup", f, o, r, failed[p])
       /\ Holds("dup", f, o, r, written[p], content) /\ Values(o) \subseteq DOMAIN content
  BY <1>2, <1>3, Zenon DEF LocalInv
<1>12. /\ x \in Fds(f) /\ Fds(f) \subseteq DOMAIN o /\ Values(r) \subseteq DOMAIN o
       /\ DOMAIN r \subseteq Fds(f) /\ Fds(f) \cap Values(r) = {}
  <2>1. x \in Fds(f) /\ Fds(f) \subseteq DOMAIN o
    BY <1>11 DEF Fds, Descriptors
  <2>2. Values(r) \subseteq DOMAIN o
    BY <1>11 DEF Copies, Values
  <2> QED BY <1>11, <2>1, <2>2, Zenon DEF Copies
<1>13. \A z \in DOMAIN o : o[z] \in DOMAIN content
  BY <1>11, Zenon DEF Values
<1>14. Descriptors(f, mapped[p], o2)
  <2>1. DOMAIN o2 \subseteq 1 .. MaxFile
    BY <1>4, <1>6, <1>11, Zenon DEF Descriptors
  <2>2. \A u, v \in DOMAIN o2 : o2[u] = o2[v] => u = v
    BY <1>4, <1>6, <1>11, <1>13, Zenon DEF Descriptors
  <2> QED BY <1>6, <1>11, <2>1, <2>2, Zenon DEF Descriptors
<1>15. Copies("dup", f, o2, r2)
  <2>1. \A u \in DOMAIN r : r[u] \in Values(r)
    BY Zenon DEF Values
  <2>2. \A u \in DOMAIN r2 : r2[u] \in DOMAIN o2 /\ r2[u] \notin DOMAIN r2
    BY <1>4, <1>6, <1>7, <1>11, <1>12, <2>1, Zenon DEF Copies
  <2>3. \A u, v \in DOMAIN r2 : r2[u] = r2[v] => u = v
    BY <1>4, <1>7, <1>11, <1>12, <2>1, Zenon DEF Copies
  <2>4. DOMAIN r2 \subseteq Fds(f) /\ Fds(f) \cap Values(r2) = {}
    BY <1>4, <1>7, <1>12, Zenon
  <2> QED BY <2>2, <2>3, <2>4, Zenon DEF Copies
<1>16. Exact("dup", f, o2, r2, failed[p])
  BY <1>6, <1>7, <1>11, Zenon DEF Exact
<1>17. Holds("dup", f, o2, r2, written[p], c2)
  <2>1. \A t \in Segs(f) : /\ Target("dup", f, r2, t) = f[t] /\ Target("dup", f, r, t) = f[t]
                           /\ f[t] \in DOMAIN o
    BY <1>12, Zenon DEF Target, Fds
  <2>2. \A z \in DOMAIN o : c2[o2[z]] = content[o[z]]
    BY <1>6, <1>8, <1>13, Zenon
  <2>3. ASSUME NEW u \in DOMAIN r2 PROVE c2[o2[r2[u]]] = c2[o2[u]]
    <3>1. u \in DOMAIN o
      BY <1>7, <1>12, Zenon
    <3>2. CASE u = x
      BY <1>6, <1>7, <1>8, <2>2, <3>1, <3>2, Zenon
    <3>3. CASE u \in DOMAIN r
      <4>1. r[u] \in DOMAIN o
        BY <1>11, <3>3, Zenon DEF Copies
      <4>2. content[o[r[u]]] = content[o[u]]
        BY <1>11, <3>3, Zenon DEF Holds
      <4> QED BY <1>7, <2>2, <3>1, <3>3, <4>1, <4>2, Zenon
    <3> QED BY <1>7, <3>2, <3>3, Zenon
  <2> QED BY <1>11, <2>1, <2>2, <2>3 DEF Holds
<1>18. LocalInv(p)'
  <2>1. Values(o2) \subseteq DOMAIN c2
    BY <1>6, <1>8, <1>11, Zenon
  <2> QED BY <1>2, <1>3, <1>5, <1>14, <1>15, <1>16, <1>17, <2>1, Zenon DEF LocalInv
<1>19. ASSUME NEW z \in Files(p)' PROVE z \in Files(p) \/ z \notin DOMAIN content
  <2>1. Files(p)' = {o2[u] : u \in Fds(f) \cup Values(r2)}
    BY <1>2, <1>5, Zenon DEF Files, Private
  <2>2. Files(p) = {o[u] : u \in Fds(f) \cup Values(r)}
    BY <1>2, Zenon DEF Files, Private
  <2> QED BY <1>4, <1>6, <1>7, <1>12, <1>19, <2>1, <2>2
<1>20. \A q \in Pid \ {p} : Alive(q) => /\ Values(open[q]) \subseteq DOMAIN content'
                                           /\ \A z \in Files(q) : content'[z] = content[z]
  BY <1>1, <1>4, OthersFiles
<1> QED BY <1>3, <1>9, <1>10, <1>18, <1>19, <1>20, OneProcess, Zenon

(* The first version of an object creates a file.                          *)
LEMMA MapFirstStep ==
  ASSUME ForkInv, NEW p \in Pid, NEW d \in Data, Alive(p), ~reader[p], 1 <= MaxVersion,
         Cardinality({s \in Segs(fd[p]) : s[1] = d}) = 0,
         Cardinality(DOMAIN content) < MaxFile,
         fd' = [fd EXCEPT ![p][<<d, 1>>] = NewFd(p)],
         open' = [open EXCEPT ![p] = With(open[p], NewFd(p), NewFile)],
         mapped' = [mapped EXCEPT ![p][<<d, 1>>] = NewFile],
         content' = With(content, NewFile, 0),
         UNCHANGED <<phase, reader, replace, failed, written>>
  PROVE  ForkInv'
<1> DEFINE f == fd[p]
           g == fd'[p]
           o == open[p]
           r == replace[p]
           n == NewFd(p)
           y == NewFile
           a == <<d, 1>>
           o2 == With(o, n, y)
           c2 == With(content, y, 0)
<1>1. LocalInv(p) /\ phase[p] = "running"
  BY Zenon DEF ForkInv, LocalInv
<1>2. /\ y \in 1 .. MaxFile /\ y \notin DOMAIN content
      /\ n \in 1 .. MaxFile /\ n \notin DOMAIN o
  BY NewOnes, Zenon
<1>3. n # None /\ n \in 0 .. MaxFile /\ y \in 0 .. MaxFile
  BY <1>2, ForkAssumption DEF None
<1>4. a \in Seg
  BY ForkAssumption DEF Seg
<1>5. /\ Descriptors(f, mapped[p], o) /\ Copies("running", f, o, r)
      /\ Exact("running", f, o, r, failed[p])
      /\ Holds("running", f, o, r, written[p], content) /\ Values(o) \subseteq DOMAIN content
      /\ DOMAIN r = {} /\ Values(r) = {}
  BY <1>1, Zenon DEF LocalInv, Copies, Values
<1>6. open'[p] = o2 /\ content' = c2
  BY Zenon DEF ForkInv, ForkTypes
<1>7. /\ \A t \in Seg : g[t] = IF t = a THEN n ELSE f[t]
      /\ \A t \in Seg : mapped'[p][t] = IF t = a THEN y ELSE mapped[p][t]
  BY <1>4, Zenon DEF ForkInv, ForkTypes
<1>8. /\ DOMAIN o2 = DOMAIN o \cup {n} /\ o2[n] = y /\ (\A z \in DOMAIN o : o2[z] = o[z])
  BY <1>2, Zenon DEF With
<1>9. /\ DOMAIN c2 = DOMAIN content \cup {y} /\ c2[y] = 0
      /\ \A z \in DOMAIN content : c2[z] = content[z]
  BY <1>2, Zenon DEF With
<1>10. ForkTypes'
  <2>1. fd' \in [Pid -> [Seg -> 0 .. MaxFile]] /\ mapped' \in [Pid -> [Seg -> 0 .. MaxFile]]
    BY <1>3, <1>4, Zenon DEF ForkInv, ForkTypes
  <2>2. DOMAIN open' = Pid /\ DOMAIN content' \subseteq 1 .. MaxFile
    BY <1>2, <1>6, <1>9, Zenon DEF ForkInv, ForkTypes
  <2> QED BY <2>1, <2>2, Zenon DEF ForkInv, ForkTypes
<1>11. Others(p)
  BY Zenon DEF Others, ForkInv, ForkTypes
<1>12. \A q \in Pid \ {p} : Alive(q) => /\ Values(open[q]) \subseteq DOMAIN content'
                                           /\ \A z \in Files(q) : content'[z] = content[z]
  BY <1>2, OthersFiles
<1>13. \A v \in 1 .. MaxVersion : f[<<d, v>>] = None
  <2>1. \A v \in 1 .. MaxVersion : f[<<d, v>>] # None <=> v <= 0
    BY <1>1, CountVersions, Zenon DEF LocalInv
  <2> QED BY <2>1
<1>14. \A s \in Segs(f) : s[1] # d
  BY <1>13 DEF Segs, Seg
<1> HIDE DEF n, y, o2, c2, g
<1>15. a \notin Segs(f) /\ Segs(g) = Segs(f) \cup {a} /\ g[a] = n /\ \A t \in Segs(f) : g[t] = f[t]
  <2>1. a \notin Segs(f) /\ a[1] = d
    BY <1>14, Zenon
  <2> HIDE DEF a
  <2> QED BY <1>3, <1>4, <1>7, <2>1, Zenon DEF Segs
<1>16. Fds(g) = Fds(f) \cup {n} /\ Fds(f) \subseteq DOMAIN o
  BY <1>5, <1>15 DEF Fds, Descriptors
<1>17. \A z \in DOMAIN o : o[z] \in DOMAIN content
  BY <1>5, Zenon DEF Values
<1>18. Versions(g)
  <2> SUFFICES ASSUME NEW e \in Data
               PROVE  \E k \in 0 .. MaxVersion : \A v \in 1 .. MaxVersion : g[<<e, v>>] # None <=> v <= k
    BY Zenon DEF Versions
  <2>1. CASE e = d
    <3>1. ASSUME NEW v \in 1 .. MaxVersion PROVE g[<<e, v>>] # None <=> v <= 1
      <4>1. <<d, v>> \in Seg /\ (<<d, v>> = a <=> v = 1)
        BY Zenon DEF Seg
      <4>2. v <= 1 <=> v = 1
        BY ForkAssumption
      <4> QED BY <1>3, <1>7, <1>13, <2>1, <4>1, <4>2, Zenon
    <3>2. 1 \in 0 .. MaxVersion
      BY ForkAssumption
    <3> QED BY <3>1, <3>2, Zenon
  <2>2. CASE e # d
    <3>1. \A v \in 1 .. MaxVersion : <<e, v>> \in Seg /\ <<e, v>> # a
      BY <2>2, Zenon DEF Seg
    <3>2. \A v \in 1 .. MaxVersion : g[<<e, v>>] = f[<<e, v>>]
      BY <1>7, <3>1, Zenon
    <3> QED BY <1>1, <3>2, Zenon DEF LocalInv, Versions
  <2> QED BY <2>1, <2>2, Zenon
<1>19. Descriptors(g, mapped'[p], o2)
  <2>1. DOMAIN o2 \subseteq 1 .. MaxFile
    BY <1>2, <1>5, <1>8, Zenon DEF Descriptors
  <2>2. \A u, v \in DOMAIN o2 : o2[u] = o2[v] => u = v
    BY <1>2, <1>5, <1>8, <1>17 DEF Descriptors
  <2>3. ASSUME NEW t \in Segs(g) PROVE g[t] \in DOMAIN o2 /\ mapped'[p][t] = o2[g[t]]
    <3>1. CASE t = a
      BY <1>4, <1>7, <1>8, <1>15, <3>1, Zenon
    <3>2. CASE t \in Segs(f)
      <4>1. t \in Seg /\ t # a /\ f[t] \in DOMAIN o /\ mapped[p][t] = o[f[t]]
        BY <1>5, <1>15, <3>2, Zenon DEF Descriptors, Segs
      <4> QED BY <1>7, <1>8, <4>1, Zenon
    <3> QED BY <1>15, <3>1, <3>2, Zenon
  <2> QED BY <2>1, <2>2, <2>3, Zenon DEF Descriptors
<1>20. Copies("running", g, o2, r)
  BY <1>5, Zenon DEF Copies
<1>21. Exact("running", g, o2, r, failed[p])
  BY <1>5, <1>8, <1>16, Zenon DEF Exact
<1>22. Holds("running", g, o2, r, written[p], c2)
  <2>1. \A t \in Segs(g) : Target("running", g, r, t) = g[t]
    BY Zenon DEF Target
  <2>2. \A t \in Segs(f) : Target("running", f, r, t) = f[t] /\ f[t] \in DOMAIN o
    BY <1>16, Zenon DEF Target, Fds
  <2>3. a[1] = d
    BY Zenon
  <2> HIDE DEF a
  <2>4. \A s, t \in Segs(g) : g[s] = g[t] <=> s[1] = t[1]
    BY <1>2, <1>5, <1>14, <1>15, <2>2, <2>3 DEF Holds
  <2>5. ASSUME NEW t \in Segs(g) PROVE c2[o2[g[t]]] = written[p][t[1]]
    <3>1. CASE t = a
      BY <1>5, <1>8, <1>9, <1>14, <1>15, <2>3, <3>1, Zenon DEF Holds
    <3>2. CASE t \in Segs(f)
      BY <1>5, <1>8, <1>9, <1>15, <1>17, <2>2, <3>2 DEF Holds
    <3> QED BY <1>15, <3>1, <3>2, Zenon
  <2>6. \A e \in Data : (\A s \in Segs(g) : s[1] # e) => written[p][e] = 0
    BY <1>5, <1>15, Zenon DEF Holds
  <2> QED BY <2>1, <2>4, <2>5, <2>6 DEF Holds
<1>23. LocalInv(p)'
  <2>1. Values(o2) \subseteq DOMAIN c2
    BY <1>8, <1>9, <1>17, Zenon DEF Values
  <2> QED BY <1>1, <1>6, <1>18, <1>19, <1>20, <1>21, <1>22, <2>1, Zenon DEF LocalInv, g
<1>24. ASSUME NEW z \in Files(p)' PROVE z \in Files(p) \/ z \notin DOMAIN content
  <2>1. Files(p)' = {o2[u] : u \in Fds(g)}
    BY <1>1, <1>6, Zenon DEF Files, Private, g
  <2>2. Files(p) = {o[u] : u \in Fds(f)}
    BY <1>1, Zenon DEF Files, Private
  <2> QED BY <1>2, <1>8, <1>16, <1>24, <2>1, <2>2, Zenon
<1> QED BY <1>10, <1>11, <1>12, <1>23, <1>24, OneProcess, Zenon

(* The other versions take over its descriptor.                            *)
LEMMA MapNextStep ==
  ASSUME ForkInv, NEW p \in Pid, NEW d \in Data, Alive(p), ~reader[p],
         NEW v, v = Cardinality({s \in Segs(fd[p]) : s[1] = d}) + 1, v <= MaxVersion, v # 1,
         fd' = [fd EXCEPT ![p][<<d, v>>] = fd[p][<<d, v - 1>>]],
         mapped' = [mapped EXCEPT ![p][<<d, v>>] = open[p][fd[p][<<d, v - 1>>]]],
         UNCHANGED <<open, content, phase, reader, replace, failed, written>>
  PROVE  ForkInv'
<1> DEFINE f == fd[p]
           g == fd'[p]
           o == open[p]
           r == replace[p]
           b == <<d, v - 1>>
           a == <<d, v>>
<1>1. LocalInv(p) /\ phase[p] = "running"
  BY Zenon DEF ForkInv, LocalInv
<1>2. v \in Int /\ v - 1 \in 0 .. MaxVersion /\ \A i \in 1 .. MaxVersion : f[<<d, i>>] # None <=> i <= v - 1
  <2> DEFINE k == Cardinality({s \in Segs(f) : s[1] = d})
  <2>1. k \in 0 .. MaxVersion /\ \A i \in 1 .. MaxVersion : f[<<d, i>>] # None <=> i <= k
    BY <1>1, CountVersions, Zenon DEF LocalInv
  <2>2. v \in Int /\ v - 1 = k
    BY <2>1
  <2> QED BY <2>1, <2>2, Zenon
<1>3. v \in 1 .. MaxVersion /\ v - 1 \in 1 .. MaxVersion
  BY <1>2, ForkAssumption
<1>4. a \in Seg /\ b \in Seg /\ b # a /\ a[1] = d /\ b[1] = d
  BY <1>3 DEF Seg
<1>5. b \in Segs(f) /\ a \notin Segs(f)
  <2>1. v - 1 <= v - 1 /\ ~(v <= v - 1)
    BY <1>2
  <2>2. f[b] # None /\ f[a] = None
    BY <1>2, <1>3, <2>1, Zenon
  <2> QED BY <1>4, <2>2, Zenon DEF Segs
<1>6. /\ Descriptors(f, mapped[p], o) /\ Copies("running", f, o, r)
      /\ Exact("running", f, o, r, failed[p])
      /\ Holds("running", f, o, r, written[p], content) /\ Values(o) \subseteq DOMAIN content
  BY <1>1, Zenon DEF LocalInv
<1>7. /\ \A t \in Seg : g[t] = IF t = a THEN f[b] ELSE f[t]
      /\ \A t \in Seg : mapped'[p][t] = IF t = a THEN o[f[b]] ELSE mapped[p][t]
  BY <1>4, Zenon DEF ForkInv, ForkTypes
<1>8. Others(p)
  BY Zenon DEF Others, ForkInv, ForkTypes
<1>9. ForkTypes'
  <2>1. f[b] \in DOMAIN o /\ f[b] \in 0 .. MaxFile
    BY <1>4, <1>5, <1>6 DEF Descriptors, ForkInv, ForkTypes
  <2>2. o[f[b]] \in DOMAIN content
    BY <1>6, <2>1, Zenon DEF Values
  <2>3. o[f[b]] \in 0 .. MaxFile
    BY <2>2, ForkAssumption DEF ForkInv, ForkTypes
  <2> QED BY <1>4, <2>1, <2>3, Zenon DEF ForkInv, ForkTypes
<1>10. \A i \in 1 .. MaxVersion : g[<<d, i>>] # None <=> i <= v
  <2> SUFFICES ASSUME NEW i \in 1 .. MaxVersion PROVE g[<<d, i>>] # None <=> i <= v
    BY Zenon
  <2>1. <<d, i>> \in Seg /\ (<<d, i>> = a <=> i = v)
    BY Zenon DEF Seg
  <2>2. i <= v <=> i = v \/ i <= v - 1
    BY <1>3
  <2>3. f[b] # None
    BY <1>5, Zenon DEF Segs
  <2> QED BY <1>2, <1>7, <2>1, <2>2, <2>3, Zenon
<1>11. Versions(g)
  <2> SUFFICES ASSUME NEW e \in Data
               PROVE  \E k \in 0 .. MaxVersion : \A i \in 1 .. MaxVersion : g[<<e, i>>] # None <=> i <= k
    BY Zenon DEF Versions
  <2>1. CASE e = d
    <3>1. v \in 0 .. MaxVersion
      BY <1>3
    <3> QED BY <1>10, <2>1, <3>1, Zenon
  <2>2. CASE e # d
    <3>1. \A i \in 1 .. MaxVersion : <<e, i>> \in Seg /\ <<e, i>> # a
      BY <2>2, Zenon DEF Seg
    <3>2. \A i \in 1 .. MaxVersion : g[<<e, i>>] = f[<<e, i>>]
      BY <1>7, <3>1, Zenon
    <3> QED BY <1>1, <3>2, Zenon DEF LocalInv, Versions
  <2> QED BY <2>1, <2>2, Zenon
<1> HIDE DEF a, b, g
<1>12. Segs(g) = Segs(f) \cup {a} /\ g[a] = f[b] /\ \A t \in Segs(f) : g[t] = f[t]
  BY <1>4, <1>5, <1>7, Zenon DEF Segs
<1>13. Fds(g) = Fds(f)
  BY <1>5, <1>12, Zenon DEF Fds
<1>14. Descriptors(g, mapped'[p], o)
  <2>1. ASSUME NEW t \in Segs(g) PROVE g[t] \in DOMAIN o /\ mapped'[p][t] = o[g[t]]
    <3>1. CASE t = a
      BY <1>4, <1>5, <1>6, <1>7, <1>12, <3>1, Zenon DEF Descriptors
    <3>2. CASE t \in Segs(f)
      <4>1. t \in Seg /\ t # a /\ f[t] \in DOMAIN o /\ mapped[p][t] = o[f[t]]
        BY <1>5, <1>6, <3>2, Zenon DEF Descriptors, Segs
      <4> QED BY <1>7, <4>1, Zenon
    <3> QED BY <1>12, <3>1, <3>2, Zenon
  <2> QED BY <1>6, <2>1, Zenon DEF Descriptors
<1>15. Copies("running", g, o, r) /\ Exact("running", g, o, r, failed[p])
  BY <1>6, <1>13, Zenon DEF Copies, Exact
<1>16. Holds("running", g, o, r, written[p], content)
  <2>1. \A t \in Segs(g) : Target("running", g, r, t) = g[t]
    BY Zenon DEF Target
  <2>2. \A t \in Segs(f) : Target("running", f, r, t) = f[t]
    BY Zenon DEF Target
  <2>3. \A s, t \in Segs(f) : f[s] = f[t] <=> s[1] = t[1]
    BY <1>6, <2>2 DEF Holds
  <2>4. \A s, t \in Segs(g) : g[s] = g[t] <=> s[1] = t[1]
    BY <1>4, <1>5, <1>12, <2>3
  <2>5. \A t \in Segs(g) : content[o[g[t]]] = written[p][t[1]]
    BY <1>4, <1>5, <1>6, <1>12, <2>2 DEF Holds
  <2>6. \A e \in Data : (\A s \in Segs(g) : s[1] # e) => written[p][e] = 0
    BY <1>6, <1>12, Zenon DEF Holds
  <2> QED BY <2>1, <2>4, <2>5, <2>6 DEF Holds
<1>17. LocalInv(p)'
  BY <1>1, <1>6, <1>11, <1>14, <1>15, <1>16, Zenon DEF LocalInv, g
<1>18. Files(p)' = Files(p)
  BY <1>1, <1>13, Zenon DEF Files, Private, g
<1>19. \A q \in Pid \ {p} : Alive(q) => /\ Values(open[q]) \subseteq DOMAIN content'
                                           /\ \A z \in Files(q) : content'[z] = content[z]
  BY Zenon DEF ForkInv, LocalInv
<1> QED BY <1>8, <1>9, <1>17, <1>18, <1>19, OneProcess, Zenon

(* MemorySegment::map                                                      *)
LEMMA MapStep ==
  ASSUME ForkInv, NEW p \in Pid, NEW d \in Data, map(p, d)
  PROVE  ForkInv'
<1> DEFINE k == Cardinality({s \in Segs(fd[p]) : s[1] = d})
           v == k + 1
<1>1. Loaded(p) = Segs(fd[p])
  BY Zenon DEF Loaded, Segs
<1>2. Alive(p) /\ ~reader[p] /\ UNCHANGED <<phase, reader, replace, failed, written>>
  BY Zenon DEF map, ForkInv, ForkTypes, Alive
<1>3. k \in 0 .. MaxVersion
  BY <1>2, CountVersions, Zenon DEF ForkInv, LocalInv
<1>4. /\ v <= MaxVersion
      /\ IF v = 1
         THEN /\ Cardinality(DOMAIN content) < MaxFile
              /\ fd' = [fd EXCEPT ![p][<<d, v>>] = NewFd(p)]
              /\ open' = [open EXCEPT ![p] = With(open[p], NewFd(p), NewFile)]
              /\ mapped' = [mapped EXCEPT ![p][<<d, v>>] = NewFile]
              /\ content' = With(content, NewFile, 0)
         ELSE /\ fd' = [fd EXCEPT ![p][<<d, v>>] = fd[p][<<d, v - 1>>]]
              /\ mapped' = [mapped EXCEPT ![p][<<d, v>>] = open[p][fd[p][<<d, v - 1>>]]]
              /\ UNCHANGED <<open, content>>
  BY <1>1, Zenon DEF map
<1>5. CASE v = 1
  <2>1. k = 0 /\ 1 <= MaxVersion
    BY <1>3, <1>4, <1>5
  <2> HIDE DEF k
  <2>2. fd' = [fd EXCEPT ![p][<<d, 1>>] = NewFd(p)] /\ mapped' = [mapped EXCEPT ![p][<<d, 1>>] = NewFile]
    BY <1>4, <1>5, Zenon
  <2> QED BY <1>2, <1>4, <1>5, <2>1, <2>2, MapFirstStep, Zenon DEF k
<1>6. CASE v # 1
  BY <1>2, <1>4, <1>6, MapNextStep, Zenon
<1> QED BY <1>5, <1>6, Zenon

(* The child begins as a copy of its parent.                               *)
LEMMA CloneStep ==
  ASSUME ForkInv, NEW p \in Pid, NEW c \in Pid, clone(p, c)
  PROVE  ForkInv'
<1> DEFINE f == fd[p]
           o == open[p]
           r == replace[p]
<1>1. phase[p] = "dup" /\ phase[c] = "none" /\ p # c /\ Fds(f) \subseteq DOMAIN r
  BY Zenon DEF clone, AllCopied, Loaded, Fds, Segs
<1>2. /\ phase'[p] = "close" /\ reader'[p] = reader[p] /\ fd'[p] = f /\ mapped'[p] = mapped[p]
      /\ open'[p] = o /\ replace'[p] = r /\ failed'[p] = failed[p] /\ written'[p] = written[p]
  BY <1>1, Zenon DEF clone, ForkInv, ForkTypes
<1>3. /\ phase'[c] = "remap" /\ reader'[c] = reader[p] /\ fd'[c] = f /\ mapped'[c] = mapped[p]
      /\ open'[c] = o /\ replace'[c] = r /\ failed'[c] = failed[p] /\ written'[c] = written[p]
  BY <1>1, Zenon DEF clone, ForkInv, ForkTypes
<1>4. /\ content' = content
      /\ \A q \in Pid \ {p, c} :
           /\ phase'[q] = phase[q] /\ reader'[q] = reader[q] /\ fd'[q] = fd[q] /\ mapped'[q] = mapped[q]
           /\ open'[q] = open[q] /\ replace'[q] = replace[q] /\ failed'[q] = failed[q]
           /\ written'[q] = written[q]
  BY Zenon DEF clone, ForkInv, ForkTypes
<1>5. ForkTypes'
  BY Zenon DEF clone, ForkInv, ForkTypes, Phases
<1>6. Alive(p) /\ LocalInv(p)
  BY <1>1, Zenon DEF ForkInv, Alive, Phases
<1>7. /\ Descriptors(f, mapped[p], o) /\ Copies("dup", f, o, r) /\ Exact("dup", f, o, r, failed[p])
      /\ Holds("dup", f, o, r, written[p], content) /\ reader[p]
  BY <1>1, <1>6, Zenon DEF LocalInv
<1>8. Fds(f) = DOMAIN r
  BY <1>1, <1>7, Zenon DEF Copies
<1>9. LocalInv(p)'
  <2>1. Copies("close", f, o, r) /\ Exact("close", f, o, r, failed[p])
    BY <1>7, Zenon DEF Copies, Exact
  <2>2. Holds("close", f, o, r, written[p], content)
    BY <1>7 DEF Holds, Target
  <2> QED BY <1>2, <1>4, <1>6, <1>7, <2>1, <2>2, Zenon DEF LocalInv
<1>10. LocalInv(c)'
  <2>1. Copies("remap", f, o, r) /\ Exact("remap", f, o, r, failed[p])
    BY <1>7, <1>8, Zenon DEF Copies, Exact
  <2>2. Holds("remap", f, o, r, written[p], content)
    <3>1. \A s \in Segs(f) : /\ f[s] \in DOMAIN r /\ Target("dup", f, r, s) = f[s]
                             /\ Target("remap", f, r, s) = r[f[s]]
      BY <1>8, Zenon DEF Target, Fds
    <3>2. \A s, t \in Segs(f) : r[f[s]] = r[f[t]] <=> f[s] = f[t]
      BY <1>7, <3>1, Zenon DEF Copies
    <3>3. \A s \in Segs(f) : content[o[r[f[s]]]] = content[o[f[s]]]
      BY <1>7, <3>1, Zenon DEF Holds
    <3>4. \A s, t \in Segs(f) : f[s] = f[t] <=> s[1] = t[1]
      BY <1>7, <3>1 DEF Holds
    <3>5. \A s \in Segs(f) : content[o[f[s]]] = written[p][s[1]]
      BY <1>7, <3>1, Zenon DEF Holds
    <3>6. \A d \in Data : (\A s \in Segs(f) : s[1] # d) => written[p][d] = 0
      BY <1>7, Zenon DEF Holds
    <3>7. \A s, t \in Segs(f) : Target("remap", f, r, s) = Target("remap", f, r, t) <=> s[1] = t[1]
      BY <3>1, <3>2, <3>4
    <3>8. \A s \in Segs(f) : content[o[Target("remap", f, r, s)]] = written[p][s[1]]
      BY <3>1, <3>3, <3>5, Zenon
    <3>9. "remap" # "dup"
      BY Zenon
    <3> QED BY <3>6, <3>7, <3>8, <3>9, Zenon DEF Holds
  <2> QED BY <1>3, <1>4, <1>6, <1>7, <2>1, <2>2, Zenon DEF LocalInv
<1>11. /\ Files(p)' = {o[x] : x \in Fds(f)} /\ Files(c)' = {o[x] : x \in Values(r)}
       /\ Files(p) = {o[x] : x \in Fds(f) \cup Values(r)}
  BY <1>1, <1>2, <1>3, Zenon DEF Files, Private
<1>12. Files(p)' \cap Files(c)' = {}
  <2>1. Fds(f) \cap Values(r) = {} /\ Fds(f) \subseteq DOMAIN o /\ Values(r) \subseteq DOMAIN o
    BY <1>7 DEF Copies, Descriptors, Fds, Values
  <2> QED BY <1>7, <1>11, <2>1 DEF Descriptors
<1>13. ASSUME NEW q \in Pid \ {p, c}, Alive(q)'
       PROVE  LocalInv(q)' /\ Files(q)' \cap Files(p) = {} /\ Alive(q) /\ Files(q)' = Files(q)
  <2>1. Files(q)' = Files(q) /\ Alive(q)
    BY <1>4, <1>13, Zenon DEF Files, Alive
  <2>2. LocalInv(q)'
    BY <1>4, <2>1, Zenon DEF LocalInv, ForkInv
  <2> QED BY <1>6, <2>1, <2>2, Zenon DEF ForkInv, PrivateInv, Files
<1>14. \A q \in Pid : Alive(q)' => LocalInv(q)'
  BY <1>9, <1>10, <1>13, Zenon
<1>15. PrivateInv'
  <2> SUFFICES ASSUME NEW q \in Pid, NEW t \in Pid, Alive(q)', Alive(t)', q # t
               PROVE  Files(q)' \cap Files(t)' = {}
    BY Zenon DEF PrivateInv, Files
  <2>1. Files(p)' \subseteq Files(p) /\ Files(c)' \subseteq Files(p)
    BY <1>11, Zenon
  <2>2. CASE q \in {p, c} /\ t \in {p, c}
    BY <1>12, <2>2
  <2>3. CASE q \in {p, c} /\ t \notin {p, c}
    BY <1>13, <2>1, <2>3, Zenon
  <2>4. CASE q \notin {p, c} /\ t \in {p, c}
    BY <1>13, <2>1, <2>4, Zenon
  <2>5. CASE q \notin {p, c} /\ t \notin {p, c}
    <3>1. Alive(q) /\ Alive(t) /\ Files(q)' = Files(q) /\ Files(t)' = Files(t)
      BY <1>13, <2>5, Zenon
    <3> QED BY <3>1, Zenon DEF ForkInv, PrivateInv, Files
  <2> QED BY <2>2, <2>3, <2>4, <2>5, Zenon
<1> QED BY <1>5, <1>14, <1>15, Zenon DEF ForkInv

(* ForkInv holds in all states.                                            *)
LEMMA ForkInvariant == ForkSpec => []ForkInv
<1>1. ForkInit => ForkInv
  <2> SUFFICES ASSUME ForkInit PROVE ForkInv
    BY Zenon
  <2>1. ForkTypes
    BY ForkAssumption DEF ForkInit, ForkTypes, Phases, None, Empty
  <2>2. \A q \in Pid : Alive(q) => q = root
    BY Zenon DEF ForkInit, Alive, Phases
  <2>3. /\ phase[root] = "running" /\ reader[root] = FALSE /\ failed[root] = FALSE
        /\ open[root] = Empty /\ replace[root] = Empty /\ content = Empty
        /\ (\A s \in Seg : fd[root][s] = None) /\ \A d \in Data : written[root][d] = 0
    BY ForkAssumption, Zenon DEF ForkInit
  <2>4. DOMAIN Empty = {} /\ Values(Empty) = {} /\ Segs(fd[root]) = {} /\ Fds(fd[root]) = {}
    BY <2>3, Zenon DEF Empty, Values, Segs, Fds
  <2>5. Versions(fd[root])
    <3>1. \A d \in Data : \A v \in 1 .. MaxVersion : fd[root][<<d, v>>] = None /\ ~(v <= 0)
      BY <2>3 DEF Seg
    <3>2. 0 \in 0 .. MaxVersion
      BY ForkAssumption
    <3> QED BY <3>1, <3>2, Zenon DEF Versions
  <2>6. LocalInv(root)
    BY <2>3, <2>4, <2>5, Zenon DEF LocalInv, Descriptors, Copies, Exact, Holds
  <2> QED BY <2>1, <2>2, <2>6, Zenon DEF ForkInv, PrivateInv
<1>2. ForkInv /\ [ForkNext]_forkVars => ForkInv'
  <2> SUFFICES ASSUME ForkInv, [ForkNext]_forkVars
               PROVE  ForkInv'
    BY Zenon
  <2>1. ASSUME NEW p \in Pid, NEW d \in Data, map(p, d) PROVE ForkInv'
    BY <2>1, MapStep, Zenon
  <2>2. ASSUME NEW p \in Pid, NEW s \in Seg, Write(p, s) PROVE ForkInv'
    BY <2>2, WriteStep, Zenon
  <2>3. ASSUME NEW p \in Pid, NEW c \in Pid, clone(p, c) PROVE ForkInv'
    BY <2>3, CloneStep, Zenon
  <2>4. ASSUME NEW p \in Pid, fork(p) \/ shmemdup(p) \/ clone_fails(p) PROVE ForkInv'
    BY <2>4, ForkStep, DupStep, FailStep, Zenon
  <2>5. ASSUME NEW p \in Pid, remap(p) \/ ChildReturns(p) \/ ParentReturns(p) \/ ProcessExit(p)
        PROVE  ForkInv'
    BY <2>5, RemapStep, ChildStep, ParentStep, ExitStep, Zenon
  <2>6. CASE UNCHANGED forkVars
    BY <2>6, Zenon DEF forkVars, ForkInv, ForkTypes, LocalInv, PrivateInv, Alive
  <2> QED BY <2>1, <2>2, <2>3, <2>4, <2>5, <2>6, Zenon DEF ForkNext
<1> QED BY <1>1, <1>2, PTL DEF ForkSpec

(* The copies __fork_syscall makes keep the data of processes apart, and   *)
(* the data of the versions of an object together.                         *)
THEOREM OwnData == ForkSpec => []SeesOwnData
<1>1. ForkInv => SeesOwnData
  <2> SUFFICES ASSUME ForkInv, NEW p \in Pid, phase[p] = "running", NEW s \in Loaded(p)
               PROVE  content[mapped[p][s]] = written[p][s[1]]
    BY Zenon DEF SeesOwnData
  <2>1. LocalInv(p) /\ s \in Segs(fd[p])
    BY Zenon DEF ForkInv, Alive, Phases, Loaded, Segs
  <2>2. mapped[p][s] = open[p][fd[p][s]]
    BY <2>1, Zenon DEF LocalInv, Descriptors
  <2>3. Target("running", fd[p], replace[p], s) = fd[p][s]
    BY Zenon DEF Target
  <2> QED BY <2>1, <2>2, <2>3 DEF LocalInv, Holds
<1> QED BY <1>1, ForkInvariant, PTL

(* __fork_syscall leaves no descriptors open in the parent and the child   *)
(* but those of their segments, unless a clone has failed.                 *)
THEOREM DescriptorsExact == ForkSpec => []DescriptorsMatch
<1>1. ForkInv => DescriptorsMatch
  <2> SUFFICES ASSUME ForkInv, NEW p \in Pid, phase[p] = "running", ~failed[p]
               PROVE  /\ DOMAIN open[p] = {fd[p][s] : s \in Loaded(p)}
                      /\ \A s \in Loaded(p) : mapped[p][s] = open[p][fd[p][s]]
    BY Zenon DEF DescriptorsMatch
  <2>1. LocalInv(p) /\ Loaded(p) = Segs(fd[p])
    BY Zenon DEF ForkInv, Alive, Phases, Loaded, Segs
  <2>2. Values(replace[p]) = {}
    BY <2>1, Zenon DEF LocalInv, Copies, Values
  <2> QED BY <2>1, <2>2 DEF LocalInv, Descriptors, Exact, Fds
<1> QED BY <1>1, ForkInvariant, PTL
=============================================================================
