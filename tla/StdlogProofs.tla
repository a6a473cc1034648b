---------------------------- MODULE StdlogProofs ----------------------------
(***************************************************************************)
(* What stdlog writes is the output of the command, for any targets and    *)
(* prefixes, any sizes of chunks and pipes, and any output.                *)
(***************************************************************************)
EXTENDS Stdlog, SequenceTheorems, FiniteSetTheorems, TLAPS

(* What a target may hold: bytes, with or without the mark of a prefix     *)
Item == Byte \cup [prefix : BOOLEAN, byte : Byte]

(* What epoll_wait reports                                                 *)
Event == {"in", "out", "error", "HUP", "IN|HUP", "command"}

(* What a target has to get of the output out                              *)
Expected(t, out) == IF t \in Prefixed THEN WithPrefix(out, TRUE) ELSE out

(* A line starts after the first k bytes of out.                           *)
AtStart(out, k) == IF k = 0 THEN TRUE ELSE out[k] = "\n"

(* How much of a stream has been read from its pipe                        *)
Taken(s) == Len(output[s]) - Len(pipe[s])

(* The types of what the targets get and how far they have got.            *)
StdlogTypes ==
  /\ output \in [Stream -> Seq(Byte)] /\ pipe \in [Stream -> Seq(Byte)]
  /\ newline \in [Target -> BOOLEAN] /\ logged \in [Target -> Seq(Item)]
  /\ events \in Seq(Event)

(* A pipe holds the end of the output that has not been read yet.          *)
PipeInv ==
  \A s \in Stream :
    /\ Len(pipe[s]) <= Len(output[s])
    /\ \A i \in 1 .. Len(pipe[s]) : pipe[s][i] = output[s][Taken(s) + i]

(* A target has what has been read.                                        *)
LoggedInv ==
  \A t \in Target : LET s == stream_of[t] IN
    /\ Len(logged[t]) = Taken(s)
    /\ \A i \in 1 .. Taken(s) : logged[t][i] = Expected(t, output[s])[i]

(* The next byte of a target starts a line if the last one has ended one.  *)
NewlineInv ==
  \A t \in Target \cap Prefixed : LET s == stream_of[t] IN
    newline[t] = AtStart(output[s], Taken(s))

(* The loop is left only after the command has ended, and the tool ends    *)
(* with empty pipes.                                                       *)
EndInv ==
  /\ command = "running" =>
       /\ active /\ stage \in {"loop", "handle"}
       /\ \A i \in 1 .. Len(events) : events[i] # "command"
  /\ stage = "drain" => ~active
  /\ stage = "done" => pipe["out"] = <<>> /\ pipe["error"] = <<>>

(* The inductive invariant of stdlog.                                      *)
StdlogInv == StdlogTypes /\ PipeInv /\ LoggedInv /\ NewlineInv /\ EndInv

-----------------------------------------------------------------------------
(* A byte more at the end of a sequence.                                   *)
LEMMA AppendAt ==
  ASSUME NEW q \in Seq(Byte), NEW b \in Byte
  PROVE  /\ Append(q, b) \in Seq(Byte) /\ Len(Append(q, b)) = Len(q) + 1
         /\ \A i \in 1 .. Len(q) : Append(q, b)[i] = q[i]
         /\ Append(q, b)[Len(q) + 1] = b
  BY AppendProperties

(* The length of a part.                                                   *)
LEMMA Difference ==
  ASSUME NEW a \in Nat, NEW b \in Nat, b <= a
  PROVE  a - b \in Nat /\ (a - b) + b = a /\ a - b <= a
  OBVIOUS

(* A part is not longer than the whole.                                    *)
LEMMA Below ==
  ASSUME NEW a \in Nat, NEW b \in Nat, a - b \in Nat
  PROVE  b <= a
  OBVIOUS

(* The prefixes of a part of the output are those of the whole output, if  *)
(* newline is right where the part begins.                                 *)
LEMMA PartPrefixed ==
  ASSUME NEW out \in Seq(Byte), NEW buf \in Seq(Byte), NEW k \in Nat,
         k + Len(buf) <= Len(out),
         \A i \in 1 .. Len(buf) : buf[i] = out[k + i],
         NEW i \in 1 .. Len(buf)
  PROVE  WithPrefix(buf, AtStart(out, k))[i] = WithPrefix(out, TRUE)[k + i]
  <1>1. /\ i \in DOMAIN buf /\ k + i \in DOMAIN out /\ i \in Nat /\ i # 0
        /\ Len(buf) \in Nat /\ i <= Len(buf)
    OBVIOUS
  <1>2. WithPrefix(out, TRUE)[k + i] =
          [prefix |-> IF k + i = 1 THEN TRUE ELSE out[(k + i) - 1] = "\n", byte |-> out[k + i]]
    BY <1>1, Zenon DEF WithPrefix
  <1>3. CASE i = 1
    <2>1. WithPrefix(buf, AtStart(out, k))[i] =
            [prefix |-> AtStart(out, k), byte |-> buf[i]]
      BY <1>1, <1>3, Zenon DEF WithPrefix
    <2>2. (k + i) - 1 = k /\ (k + i = 1 <=> k = 0)
      BY <1>3
    <2> QED
      BY <1>2, <2>1, <2>2, Zenon DEF AtStart
  <1>4. CASE i # 1
    <2>1. WithPrefix(buf, AtStart(out, k))[i] =
            [prefix |-> buf[i - 1] = "\n", byte |-> buf[i]]
      BY <1>1, <1>4, Zenon DEF WithPrefix
    <2>2. (k + i) - 1 = k + (i - 1) /\ k + i # 1
      BY <1>1, <1>4
    <2>3. i - 1 \in 1 .. Len(buf)
      BY <1>1, <1>4
    <2>4. buf[i - 1] = out[(k + i) - 1] /\ buf[i] = out[k + i]
      BY <2>2, <2>3, Zenon
    <2> QED
      BY <1>2, <2>1, <2>2, <2>4, Zenon
  <1> QED
    BY <1>3, <1>4, Zenon

(* What is expected of a beginning of the output does not change when the  *)
(* output grows.                                                           *)
LEMMA ExpectedGrows ==
  ASSUME NEW t, NEW out \in Seq(Byte), NEW b \in Byte, NEW i \in 1 .. Len(out)
  PROVE  Expected(t, Append(out, b))[i] = Expected(t, out)[i]
  <1>1. /\ i \in DOMAIN out /\ i \in DOMAIN Append(out, b)
        /\ Append(out, b)[i] = out[i] /\ (i # 1 => Append(out, b)[i - 1] = out[i - 1])
    OBVIOUS
  <1>2. WithPrefix(Append(out, b), TRUE)[i] = WithPrefix(out, TRUE)[i]
    BY <1>1, Zenon DEF WithPrefix
  <1> QED
    BY <1>1, <1>2, Zenon DEF Expected

(* A byte more at the end of the output and of its pipe.                   *)
LEMMA PipeGrows ==
  ASSUME NEW o \in Seq(Byte), NEW p \in Seq(Byte), NEW b \in Byte, NEW k \in Nat,
         k = Len(o) - Len(p), \A i \in 1 .. Len(p) : p[i] = o[k + i]
  PROVE  /\ k = Len(Append(o, b)) - Len(Append(p, b))
         /\ \A i \in 1 .. Len(Append(p, b)) : Append(p, b)[i] = Append(o, b)[k + i]
  <1>1. /\ Len(o) \in Nat /\ Len(p) \in Nat
        /\ Len(Append(o, b)) = Len(o) + 1 /\ Len(Append(p, b)) = Len(p) + 1
    BY AppendAt
  <1>2. ASSUME NEW i \in 1 .. Len(p) PROVE Append(p, b)[i] = Append(o, b)[k + i]
    <2>1. k + i \in 1 .. Len(o)
      BY <1>1
    <2>2. Append(p, b)[i] = p[i] /\ Append(o, b)[k + i] = o[k + i]
      BY <2>1, AppendAt, Zenon
    <2> QED
      BY <2>2, Zenon
  <1>3. Append(p, b)[Len(p) + 1] = Append(o, b)[k + (Len(p) + 1)]
    <2>1. k + (Len(p) + 1) = Len(o) + 1
      BY <1>1
    <2>2. Append(p, b)[Len(p) + 1] = b /\ Append(o, b)[Len(o) + 1] = b
      BY AppendAt, Zenon
    <2> QED
      BY <2>1, <2>2, Zenon
  <1>4. 1 .. Len(Append(p, b)) = (1 .. Len(p)) \cup {Len(p) + 1}
    BY <1>1
  <1>5. k = Len(Append(o, b)) - Len(Append(p, b))
    BY <1>1
  <1> QED
    BY <1>2, <1>3, <1>4, <1>5, Zenon

(* The prefixes of redirect add no bytes and leave none out.               *)
LEMMA WithPrefixType ==
  ASSUME NEW buf \in Seq(Byte), NEW nl \in BOOLEAN
  PROVE  WithPrefix(buf, nl) \in Seq(Item) /\ Len(WithPrefix(buf, nl)) = Len(buf)
  <1>1. DOMAIN WithPrefix(buf, nl) = 1 .. Len(buf) /\ Len(buf) \in Nat
    BY DEF WithPrefix
  <1>2. ASSUME NEW i \in 1 .. Len(buf) PROVE WithPrefix(buf, nl)[i] \in Item
    <2>1. (IF i = 1 THEN nl ELSE buf[i - 1] = "\n") \in BOOLEAN
      BY Zenon
    <2>2. buf[i] \in Byte /\ i \in DOMAIN buf
      OBVIOUS
    <2>3. WithPrefix(buf, nl)[i] =
            [prefix |-> IF i = 1 THEN nl ELSE buf[i - 1] = "\n", byte |-> buf[i]]
      BY <2>2, Zenon DEF WithPrefix
    <2> QED
      BY <2>1, <2>2, <2>3 DEF Item
  <1>3. WithPrefix(buf, nl) = [i \in 1 .. Len(buf) |-> WithPrefix(buf, nl)[i]]
    BY <1>1, Zenon DEF WithPrefix
  <1>4. WithPrefix(buf, nl) \in Seq(Item)
    BY <1>1, <1>2, <1>3
  <1> QED
    BY <1>1, <1>4

(* A read takes a chunk from the front of the pipe.                        *)
LEMMA PipeTaken ==
  ASSUME NEW o \in Seq(Byte), NEW p \in Seq(Byte), NEW k \in Nat, k = Len(o) - Len(p),
         \A i \in 1 .. Len(p) : p[i] = o[k + i],
         NEW n \in 1 .. Len(p)
  PROVE  LET buf == SubSeq(p, 1, n)
             rest == SubSeq(p, n + 1, Len(p))
         IN  /\ buf \in Seq(Byte) /\ Len(buf) = n
             /\ \A i \in 1 .. n : buf[i] = o[k + i]
             /\ rest \in Seq(Byte) /\ Len(o) - Len(rest) = k + n /\ k + n <= Len(o)
             /\ \A i \in 1 .. Len(rest) : rest[i] = o[(k + n) + i]
  <1> DEFINE buf == SubSeq(p, 1, n)
             rest == SubSeq(p, n + 1, Len(p))
  <1>1. /\ Len(o) \in Nat /\ Len(p) \in Nat /\ n \in Nat
        /\ n >= 1 /\ n <= Len(p) /\ k = Len(o) - Len(p)
    OBVIOUS
  <1>2. buf \in Seq(Byte) /\ Len(buf) = n /\ \A i \in 1 .. n : buf[i] = p[i]
    OBVIOUS
  <1>3. /\ rest \in Seq(Byte) /\ Len(rest) = Len(p) - n
        /\ \A i \in 1 .. Len(rest) : rest[i] = p[n + i]
    OBVIOUS
  <1>4. ASSUME NEW i \in 1 .. n PROVE buf[i] = o[k + i]
    <2>1. i \in 1 .. Len(p)
      BY <1>1
    <2> QED
      BY <1>2, <2>1, Zenon
  <1>5. ASSUME NEW i \in 1 .. Len(rest) PROVE rest[i] = o[(k + n) + i]
    <2>1. n + i \in 1 .. Len(p) /\ k + (n + i) = (k + n) + i
      BY <1>1, <1>3
    <2>2. rest[i] = p[n + i] /\ p[n + i] = o[k + (n + i)]
      BY <1>3, <2>1, Zenon
    <2> QED
      BY <2>1, <2>2, Zenon
  <1>6. Len(o) - (Len(p) - n) = k + n /\ k + n <= Len(o)
    BY <1>1
  <1> QED
    BY <1>2, <1>3, <1>4, <1>5, <1>6, Zenon

(* Writing behind what a target has.                                       *)
LEMMA ConcatItems ==
  ASSUME NEW log \in Seq(Item), NEW add \in Seq(Item)
  PROVE  /\ log \o add \in Seq(Item) /\ Len(log \o add) = Len(log) + Len(add)
         /\ \A i \in 1 .. Len(log) + Len(add) :
              (log \o add)[i] = IF i <= Len(log) THEN log[i] ELSE add[i - Len(log)]
  BY ConcatProperties, Zenon

(* A target has what is expected of the first k bytes of o.                *)
Begins(t, o, k, log) ==
  log \in Seq(Item) /\ Len(log) = k /\ \A i \in 1 .. k : log[i] = Expected(t, o)[i]

(* What redirect writes to a target for a chunk                            *)
Added(t, buf, nl) == IF t \in Prefixed THEN WithPrefix(buf, nl) ELSE buf

(* The chunk buf follows the first k bytes of o, which are in log, and nl  *)
(* says whether it starts a line.                                          *)
Follows(t, o, buf, k, log, nl) ==
  /\ o \in Seq(Byte) /\ buf \in Seq(Byte) /\ k \in Nat
  /\ k + Len(buf) <= Len(o) /\ \A i \in 1 .. Len(buf) : buf[i] = o[k + i]
  /\ Begins(t, o, k, log)
  /\ nl \in BOOLEAN /\ (t \in Prefixed => nl = AtStart(o, k))

(* What agrees with the beginning of a sequence is a prefix of it.         *)
LEMMA PrefixOf ==
  ASSUME NEW a \in Seq(Item), NEW e \in Seq(Item), Len(a) <= Len(e),
         \A i \in 1 .. Len(a) : a[i] = e[i]
  PROVE  IsPrefix(a, e)
  <1>1. SubSeq(a, 1, Len(a)) = SubSeq(e, 1, Len(a))
    OBVIOUS
  <1> QED
    BY <1>1, Zenon DEF IsPrefix

(* What agrees with a sequence of the same length is that sequence.        *)
LEMMA SameItems ==
  ASSUME NEW a \in Seq(Item), NEW e \in Seq(Item), Len(a) = Len(e),
         \A i \in 1 .. Len(a) : a[i] = e[i]
  PROVE  a = e
  BY SeqEqual, Zenon

(* Writing a chunk to a target that has what was read before.              *)
LEMMA LoggedTaken ==
  ASSUME NEW t, NEW o, NEW buf, NEW k, NEW log, NEW nl, Follows(t, o, buf, k, log, nl)
  PROVE  Begins(t, o, k + Len(buf), log \o Added(t, buf, nl))
  <1> DEFINE add == Added(t, buf, nl)
             new == log \o add
  <1>0. /\ o \in Seq(Byte) /\ buf \in Seq(Byte) /\ k \in Nat
        /\ k + Len(buf) <= Len(o) /\ \A i \in 1 .. Len(buf) : buf[i] = o[k + i]
        /\ log \in Seq(Item) /\ Len(log) = k /\ \A i \in 1 .. k : log[i] = Expected(t, o)[i]
        /\ nl \in BOOLEAN /\ (t \in Prefixed => nl = AtStart(o, k))
    BY Zenon DEF Follows, Begins
  <1>1. add \in Seq(Item) /\ Len(add) = Len(buf)
    <2>1. CASE t \in Prefixed
      BY <1>0, <2>1, WithPrefixType, Zenon DEF Added
    <2>2. CASE t \notin Prefixed
      <3>1. buf \in Seq(Item)
        BY <1>0 DEF Item
      <3> QED
        BY <2>2, <3>1, Zenon DEF Added
    <2> QED
      BY <2>1, <2>2, Zenon
  <1>2. ASSUME NEW i \in 1 .. Len(buf) PROVE add[i] = Expected(t, o)[k + i]
    <2>1. CASE t \in Prefixed
      <3>1. WithPrefix(buf, AtStart(o, k))[i] = WithPrefix(o, TRUE)[k + i]
        BY <1>0, PartPrefixed, Zenon
      <3>2. add = WithPrefix(buf, AtStart(o, k))
        BY <1>0, <2>1, Zenon DEF Added
      <3> QED
        BY <2>1, <3>1, <3>2, Zenon DEF Expected, Added
    <2>2. CASE t \notin Prefixed
      BY <1>0, <2>2, Zenon DEF Expected, Added
    <2> QED
      BY <2>1, <2>2, Zenon
  <1> HIDE DEF add
  <1>3. /\ new \in Seq(Item) /\ Len(new) = Len(log) + Len(add)
        /\ \A i \in 1 .. Len(log) + Len(add) :
             new[i] = IF i <= Len(log) THEN log[i] ELSE add[i - Len(log)]
    BY <1>0, <1>1, ConcatItems, Zenon
  <1>4. ASSUME NEW i \in 1 .. k + Len(buf) PROVE new[i] = Expected(t, o)[i]
    <2>1. Len(buf) \in Nat
      BY <1>0, LenProperties, Zenon
    <2>2. new[i] = IF i <= k THEN log[i] ELSE add[i - k]
      BY <1>0, <1>1, <1>3, Zenon
    <2>3. CASE i <= k
      <3>1. i \in 1 .. k
        BY <1>0, <2>1, <2>3
      <3> QED
        BY <1>0, <2>2, <2>3, <3>1, Zenon
    <2>4. CASE ~(i <= k)
      <3>1. i - k \in 1 .. Len(buf) /\ k + (i - k) = i
        BY <1>0, <2>1, <2>4
      <3>2. add[i - k] = Expected(t, o)[k + (i - k)]
        BY <1>2, <3>1, Zenon
      <3> QED
        BY <2>2, <2>4, <3>1, <3>2, Zenon
    <2> QED
      BY <2>3, <2>4, Zenon
  <1> QED
    BY <1>0, <1>1, <1>3, <1>4, Zenon DEF add, Begins

-----------------------------------------------------------------------------
(* At first nothing has been written and nothing read.                     *)
LEMMA InitStdlog == StdlogInit => StdlogInv
  <1> SUFFICES ASSUME StdlogInit PROVE StdlogInv
    BY Zenon
  <1>1. /\ output = [s \in Stream |-> <<>>] /\ pipe = [s \in Stream |-> <<>>]
        /\ command = "running" /\ stage = "loop" /\ events = <<>> /\ active = TRUE
        /\ newline = [t \in Target |-> TRUE] /\ logged = [t \in Target |-> <<>>]
    BY Zenon DEF StdlogInit
  <1>2. StdlogTypes
    BY <1>1 DEF StdlogTypes
  <1>3. ASSUME NEW s \in Stream PROVE output[s] = <<>> /\ pipe[s] = <<>> /\ Taken(s) = 0
    BY <1>1 DEF Taken
  <1>4. PipeInv
    BY <1>3 DEF PipeInv
  <1>5. \A t \in Target : stream_of[t] \in Stream
    BY StdlogAssumption, Zenon DEF Stream
  <1>6. LoggedInv
    BY <1>1, <1>3, <1>5 DEF LoggedInv
  <1>7. NewlineInv
    BY <1>1, <1>3, <1>5, Zenon DEF NewlineInv, AtStart
  <1>8. EndInv
    BY <1>1 DEF EndInv
  <1> QED
    BY <1>2, <1>4, <1>6, <1>7, <1>8, Zenon DEF StdlogInv

(* What changes neither the output nor what has been read of it.           *)
LEMMA SameOutput ==
  ASSUME StdlogInv, UNCHANGED <<output, pipe, newline, logged>>
  PROVE  PipeInv' /\ LoggedInv' /\ NewlineInv'
  <1>1. output' = output /\ pipe' = pipe /\ newline' = newline /\ logged' = logged
    BY Zenon
  <1>2. ASSUME NEW s PROVE Taken(s)' = Taken(s)
    BY <1>1, Zenon DEF Taken
  <1>3. PipeInv'
    BY <1>1, Zenon DEF StdlogInv, PipeInv, Taken
  <1>4. LoggedInv'
    BY <1>1, Zenon DEF StdlogInv, LoggedInv, Taken
  <1>5. NewlineInv'
    BY <1>1, Zenon DEF StdlogInv, NewlineInv, Taken
  <1> QED
    BY <1>3, <1>4, <1>5, Zenon

(* How much has been read, in numbers                                      *)
LEMMA TakenType ==
  ASSUME StdlogTypes, PipeInv, NEW s \in Stream
  PROVE  /\ output[s] \in Seq(Byte) /\ pipe[s] \in Seq(Byte)
         /\ Len(output[s]) \in Nat /\ Len(pipe[s]) \in Nat /\ Taken(s) \in Nat
         /\ Taken(s) + Len(pipe[s]) = Len(output[s]) /\ Taken(s) <= Len(output[s])
  <1>1. output[s] \in Seq(Byte) /\ pipe[s] \in Seq(Byte)
    BY Zenon DEF StdlogTypes
  <1>2. Len(output[s]) \in Nat /\ Len(pipe[s]) \in Nat
    BY <1>1
  <1>3. Len(pipe[s]) <= Len(output[s])
    BY Zenon DEF PipeInv
  <1>4. Taken(s) = Len(output[s]) - Len(pipe[s])
    BY Zenon DEF Taken
  <1> QED
    BY <1>1, <1>2, <1>3, <1>4, Difference, Zenon

(* A byte more in the output and in the pipe: nothing more has been read.  *)
LEMMA GrowStep ==
  ASSUME StdlogInv, NEW s \in Stream, NEW b \in Byte,
         output' = [output EXCEPT ![s] = Append(@, b)],
         pipe' = [pipe EXCEPT ![s] = Append(@, b)],
         UNCHANGED <<newline, logged>>
  PROVE  /\ output' \in [Stream -> Seq(Byte)] /\ pipe' \in [Stream -> Seq(Byte)]
         /\ PipeInv' /\ LoggedInv' /\ NewlineInv'
  <1>1. output \in [Stream -> Seq(Byte)] /\ pipe \in [Stream -> Seq(Byte)]
    BY Zenon DEF StdlogInv, StdlogTypes
  <1>2. output' \in [Stream -> Seq(Byte)] /\ pipe' \in [Stream -> Seq(Byte)]
    BY <1>1
  <1>3. newline' = newline /\ logged' = logged
    BY Zenon
  <1>4. /\ output'[s] = Append(output[s], b) /\ pipe'[s] = Append(pipe[s], b)
        /\ output[s] \in Seq(Byte) /\ pipe[s] \in Seq(Byte)
    BY <1>1, Zenon
  <1>5. ASSUME NEW r \in Stream, r # s PROVE output'[r] = output[r] /\ pipe'[r] = pipe[r]
    BY <1>1, <1>5, Zenon
  <1>6. ASSUME NEW r \in Stream
        PROVE  /\ Taken(r)' = Taken(r)
               /\ \A i \in 1 .. Len(pipe'[r]) : pipe'[r][i] = output'[r][Taken(r) + i]
    <2>1. Taken(r) = Len(output[r]) - Len(pipe[r]) /\ Taken(r)' = Len(output'[r]) - Len(pipe'[r])
      BY Zenon DEF Taken
    <2>2. \A i \in 1 .. Len(pipe[r]) : pipe[r][i] = output[r][Taken(r) + i]
      BY Zenon DEF StdlogInv, PipeInv
    <2>3. CASE r # s
      BY <1>5, <2>1, <2>2, <2>3, Zenon
    <2>4. CASE r = s
      <3>1. Taken(s) \in Nat
        BY TakenType, Zenon DEF StdlogInv
      <3> QED
        <4> DEFINE o == output[s]
                   p == pipe[s]
                   k == Taken(s)
        <4>1. k = Len(o) - Len(p) /\ \A i \in 1 .. Len(p) : p[i] = o[k + i]
          BY <2>1, <2>2, <2>4, Zenon
        <4>2. /\ k = Len(Append(o, b)) - Len(Append(p, b))
              /\ \A i \in 1 .. Len(Append(p, b)) : Append(p, b)[i] = Append(o, b)[k + i]
          BY <1>4, <3>1, <4>1, PipeGrows, Zenon
        <4> QED
          BY <1>4, <2>1, <2>4, <4>2, Zenon
    <2> QED
      BY <2>3, <2>4, Zenon
  <1>7. PipeInv'
    <2>1. ASSUME NEW r \in Stream PROVE Len(pipe'[r]) <= Len(output'[r])
      <3>1. output'[r] \in Seq(Byte) /\ pipe'[r] \in Seq(Byte)
        BY <1>2, Zenon
      <3>2. Len(output'[r]) - Len(pipe'[r]) = Taken(r)
        BY <1>6, Zenon DEF Taken
      <3>3. Taken(r) \in Nat
        BY TakenType, Zenon DEF StdlogInv
      <3>4. Len(output'[r]) \in Nat /\ Len(pipe'[r]) \in Nat
        BY <3>1, LenProperties, Zenon
      <3> QED
        BY <3>2, <3>3, <3>4, Below, Zenon
    <2> QED
      BY <1>6, <2>1, Zenon DEF PipeInv
  <1>8. ASSUME NEW r \in Stream, NEW t, NEW i \in 1 .. Taken(r)
        PROVE  /\ Expected(t, output'[r])[i] = Expected(t, output[r])[i]
               /\ output'[r][i] = output[r][i]
    <2>1. CASE r # s
      BY <1>5, <2>1, Zenon
    <2>2. CASE r = s
      <3>1. /\ Taken(s) \in Nat /\ Len(output[s]) \in Nat /\ Taken(s) <= Len(output[s])
        BY TakenType, Zenon DEF StdlogInv
      <3>2. i \in 1 .. Len(output[s])
        BY <2>2, <3>1
      <3> QED
        <4>1. /\ Expected(t, Append(output[s], b))[i] = Expected(t, output[s])[i]
              /\ Append(output[s], b)[i] = output[s][i]
          <5>1. Expected(t, Append(output[s], b))[i] = Expected(t, output[s])[i]
            BY <1>4, <3>2, ExpectedGrows
          <5>2. Append(output[s], b)[i] = output[s][i]
            BY <1>4, <3>2, AppendAt, Zenon
          <5> QED
            BY <5>1, <5>2, Zenon
        <4> QED
          BY <1>4, <2>2, <4>1, Zenon
    <2> QED
      BY <2>1, <2>2, Zenon
  <1>9. \A t \in Target : stream_of[t] \in Stream
    BY StdlogAssumption, Zenon DEF Stream
  <1>10. LoggedInv'
    <2> SUFFICES ASSUME NEW t \in Target
                 PROVE  LET r == stream_of[t] IN
                          /\ Len(logged[t]) = Taken(r)
                          /\ \A i \in 1 .. Taken(r) : logged[t][i] = Expected(t, output'[r])[i]
      <3>1. \A t \in Target : Taken(stream_of[t])' = Taken(stream_of[t])
        BY <1>6, <1>9, Zenon
      <3> QED
        BY <1>3, <3>1, Zenon DEF LoggedInv
    <2>1. LET r == stream_of[t] IN
            /\ Len(logged[t]) = Taken(r)
            /\ \A i \in 1 .. Taken(r) : logged[t][i] = Expected(t, output[r])[i]
      BY Zenon DEF StdlogInv, LoggedInv
    <2> QED
      BY <1>8, <1>9, <2>1, Zenon
  <1>11. NewlineInv'
    <2> SUFFICES ASSUME NEW t \in Target \cap Prefixed
                 PROVE  LET r == stream_of[t] IN
                          newline[t] = AtStart(output'[r], Taken(r))
      BY <1>3, <1>6, <1>9, Zenon DEF NewlineInv
    <2>1. Taken(stream_of[t]) # 0 => Taken(stream_of[t]) \in 1 .. Taken(stream_of[t])
      <3>1. Taken(stream_of[t]) \in Nat
        BY <1>9, TakenType, Zenon DEF StdlogInv
      <3> QED
        BY <3>1
    <2> QED
      BY <1>8, <1>9, <2>1, Zenon DEF StdlogInv, NewlineInv, AtStart
  <1> QED
    BY <1>2, <1>7, <1>10, <1>11, Zenon

(* One round of redirect.                                                  *)
LEMMA ReadStep ==
  ASSUME StdlogInv, NEW s \in Stream, redirect(s), UNCHANGED output
  PROVE  /\ pipe' \in [Stream -> Seq(Byte)]
         /\ newline' \in [Target -> BOOLEAN] /\ logged' \in [Target -> Seq(Item)]
         /\ PipeInv' /\ LoggedInv' /\ NewlineInv'
  <1> DEFINE o == output[s]
             p == pipe[s]
             k == Taken(s)
             n == IF Len(p) < chunk_size THEN Len(p) ELSE chunk_size
             buf == SubSeq(p, 1, n)
             rest == SubSeq(p, n + 1, Len(p))
  <1>1. /\ output \in [Stream -> Seq(Byte)] /\ pipe \in [Stream -> Seq(Byte)]
        /\ newline \in [Target -> BOOLEAN] /\ logged \in [Target -> Seq(Item)]
    BY Zenon DEF StdlogInv, StdlogTypes
  <1>2. /\ o \in Seq(Byte) /\ p \in Seq(Byte) /\ Len(p) \in Nat /\ k \in Nat /\ k = Len(o) - Len(p)
        /\ \A i \in 1 .. Len(p) : p[i] = o[k + i]
    BY TakenType, Zenon DEF StdlogInv, PipeInv, Taken
  <1>3. n \in 1 .. Len(p)
    <2>1. Len(p) # 0
      <3>1. p # <<>>
        BY Zenon DEF redirect
      <3> QED
        BY <1>2, <3>1, EmptySeq, Zenon
    <2> QED
      BY <1>2, <2>1, StdlogAssumption
  <1>4. /\ buf \in Seq(Byte) /\ Len(buf) = n
        /\ \A i \in 1 .. n : buf[i] = o[k + i]
        /\ rest \in Seq(Byte) /\ Len(o) - Len(rest) = k + n /\ k + n <= Len(o)
        /\ \A i \in 1 .. Len(rest) : rest[i] = o[(k + n) + i]
    BY <1>2, <1>3, PipeTaken, Zenon
  <1>5. Chunk(s) = buf
    BY Zenon DEF Chunk
  <1>6. /\ pipe' = [pipe EXCEPT ![s] = SubSeq(@, Len(buf) + 1, Len(@))]
        /\ logged' = [t \in Target |->
             IF stream_of[t] = s
             THEN logged[t] \o Added(t, buf, newline[t])
             ELSE logged[t]]
        /\ newline' = [t \in Target |->
             IF stream_of[t] = s /\ t \in Prefixed THEN Last(buf) = "\n" ELSE newline[t]]
    BY <1>5, Zenon DEF redirect, Added
  <1> HIDE DEF n, buf
  <1>7. /\ pipe'[s] = rest
        /\ \A r \in Stream : r # s => pipe'[r] = pipe[r]
        /\ pipe' \in [Stream -> Seq(Byte)]
    <2>1. pipe' = [pipe EXCEPT ![s] = rest]
      BY <1>4, <1>6, Zenon
    <2> HIDE DEF rest
    <2> QED
      BY <1>1, <1>4, <2>1, Zenon
  <1>8. output' = output
    BY Zenon
  <1>9. Taken(s)' = k + n
    BY <1>4, <1>7, <1>8, Zenon DEF Taken
  <1>10. ASSUME NEW r \in Stream, r # s PROVE Taken(r)' = Taken(r)
    BY <1>7, <1>8, <1>10, Zenon DEF Taken
  <1>11. \A t \in Target : stream_of[t] \in Stream
    BY StdlogAssumption, Zenon DEF Stream
  <1>12. PipeInv'
    <2>1. ASSUME NEW r \in Stream
          PROVE  /\ Len(pipe'[r]) <= Len(output'[r])
                 /\ \A i \in 1 .. Len(pipe'[r]) : pipe'[r][i] = output'[r][Taken(r)' + i]
      <3>1. CASE r # s
        BY <1>7, <1>8, <1>10, <3>1, Zenon DEF StdlogInv, PipeInv
      <3>2. CASE r = s
        <4>1. Len(rest) <= Len(o)
          <5>1. Len(rest) \in Nat /\ Len(o) \in Nat
            BY <1>2, <1>4, LenProperties, Zenon
          <5>2. k + n \in Nat
            BY <1>2, <1>3
          <5> QED
            BY <1>4, <5>1, <5>2, Below, Zenon
        <4> QED
          BY <1>4, <1>7, <1>8, <1>9, <3>2, <4>1, Zenon
      <3> QED
        BY <3>1, <3>2, Zenon
    <2> QED
      BY <2>1, Zenon DEF PipeInv
  <1>13. ASSUME NEW t \in Target
         PROVE  /\ logged'[t] \in Seq(Item) /\ Len(logged'[t]) = Taken(stream_of[t])'
                /\ \A i \in 1 .. Taken(stream_of[t])' :
                     logged'[t][i] = Expected(t, output'[stream_of[t]])[i]
    <2>1. /\ logged[t] \in Seq(Item) /\ Len(logged[t]) = Taken(stream_of[t])
          /\ \A i \in 1 .. Taken(stream_of[t]) : logged[t][i] = Expected(t, output[stream_of[t]])[i]
      BY <1>1, Zenon DEF StdlogInv, LoggedInv
    <2>2. CASE stream_of[t] # s
      <3>1. logged'[t] = logged[t]
        BY <1>6, <2>2, Zenon
      <3> QED
        BY <1>8, <1>10, <1>11, <2>1, <2>2, <3>1, Zenon
    <2>3. CASE stream_of[t] = s
      <3> DEFINE new == logged[t] \o Added(t, buf, newline[t])
      <3>1. logged'[t] = new
        BY <1>6, <2>3, Zenon
      <3>2. t \in Prefixed => newline[t] = AtStart(o, k)
        BY <2>3, Zenon DEF StdlogInv, NewlineInv
      <3>3. newline[t] \in BOOLEAN
        BY <1>1, Zenon
      <3>4. /\ new \in Seq(Item) /\ Len(new) = k + Len(buf)
            /\ \A i \in 1 .. k + Len(buf) : new[i] = Expected(t, o)[i]
        <4>1. Len(logged[t]) = k /\ \A i \in 1 .. k : logged[t][i] = Expected(t, o)[i]
          BY <2>1, <2>3, Zenon
        <4>2. k + Len(buf) <= Len(o) /\ \A i \in 1 .. Len(buf) : buf[i] = o[k + i]
          BY <1>4, Zenon
        <4>3. /\ o \in Seq(Byte) /\ buf \in Seq(Byte) /\ k \in Nat /\ logged[t] \in Seq(Item)
          BY <1>2, <1>4, <2>1, Zenon
        <4>4. Follows(t, o, buf, k, logged[t], newline[t])
          BY <3>2, <3>3, <4>1, <4>2, <4>3, Zenon DEF Follows, Begins
        <4>5. Begins(t, o, k + Len(buf), new)
          BY <4>4, LoggedTaken, Zenon
        <4> QED
          BY <4>5, Zenon DEF Begins
      <3> QED
        BY <1>4, <1>8, <1>9, <2>3, <3>1, <3>4, Zenon
    <2> QED
      BY <2>2, <2>3, Zenon
  <1>14. LoggedInv'
    BY <1>13, Zenon DEF LoggedInv
  <1>15. logged' \in [Target -> Seq(Item)]
    BY <1>6, <1>13, Zenon
  <1>16. newline' \in [Target -> BOOLEAN]
    BY <1>1, <1>6, Zenon
  <1>17. NewlineInv'
    <2> SUFFICES ASSUME NEW t \in Target \cap Prefixed
                 PROVE  LET r == stream_of[t] IN
                          newline'[t] = AtStart(output'[r], Taken(r)')
      BY Zenon DEF NewlineInv
    <2>1. CASE stream_of[t] # s
      <3>1. newline'[t] = newline[t]
        BY <1>6, <2>1, Zenon
      <3> QED
        BY <1>8, <1>10, <1>11, <2>1, <3>1, Zenon DEF StdlogInv, NewlineInv
    <2>2. CASE stream_of[t] = s
      <3>1. newline'[t] = (Last(buf) = "\n")
        BY <1>6, <2>2, Zenon
      <3>2. Last(buf) = o[k + n]
        <4>1. n \in 1 .. n
          BY <1>2, <1>3
        <4> QED
          BY <1>4, <4>1, Zenon DEF Last
      <3>3. k + n # 0
        BY <1>2, <1>3
      <3> QED
        BY <1>8, <1>9, <2>2, <3>1, <3>2, <3>3, Zenon DEF AtStart
    <2> QED
      BY <2>1, <2>2, Zenon
  <1> QED
    BY <1>7, <1>12, <1>14, <1>15, <1>16, <1>17, Zenon

-----------------------------------------------------------------------------
(* The first event is handled.                                             *)
LEMMA TailEvents ==
  ASSUME events \in Seq(Event), events # <<>>, events' = Tail(events)
  PROVE  /\ events' \in Seq(Event)
         /\ \A i \in 1 .. Len(events') : \E j \in 1 .. Len(events) : events'[i] = events[j]
         /\ Head(events) = events[1] /\ 1 \in 1 .. Len(events)
  <1>1. Len(events) \in Nat /\ Len(events) # 0
    BY EmptySeq, Zenon
  <1>2. events' \in Seq(Event) /\ Len(events') = Len(events) - 1
    BY HeadTailProperties, Zenon
  <1>3. ASSUME NEW i \in 1 .. Len(events') PROVE \E j \in 1 .. Len(events) : events'[i] = events[j]
    <2>1. i + 1 \in 1 .. Len(events)
      BY <1>1, <1>2
    <2>2. events'[i] = events[i + 1]
      BY HeadTailProperties, Zenon
    <2> QED
      BY <2>1, <2>2, Zenon
  <1> QED
    BY <1>1, <1>2, <1>3

(* epoll_wait reports the end of the command only after it.                *)
LEMMA Waited ==
  ASSUME epoll_wait
  PROVE  /\ events' \in Seq(Event)
         /\ \A i \in 1 .. Len(events') : events'[i] = "command" => command = "ended"
  <1> DEFINE Ended == IF command = "ended" THEN {"command"} ELSE {}
             ready == Readable \cup HangUp \cup Ended
  <1>1. PICK some \in (SUBSET ready) \ {{}} :
          events' \in {e \in [1 .. Cardinality(some) -> some] : IsInjective(e)}
    BY Zenon DEF epoll_wait
  <1>2. /\ Readable \subseteq {"in", "out", "error"} /\ HangUp \subseteq {"HUP", "IN|HUP"}
        /\ Ended \subseteq {"command"}
    BY Zenon DEF Readable, HangUp, Stream
  <1>3. some \subseteq Event
    BY <1>1, <1>2, Zenon DEF Event
  <1>4. Cardinality(some) \in Nat
    <2> DEFINE Outputs == ({"in"} \cup {"out"}) \cup {"error"}
               Others == ({"HUP"} \cup {"IN|HUP"}) \cup {"command"}
    <2>1. IsFiniteSet(Outputs)
      BY FS_Singleton, FS_Union, Zenon
    <2>2. IsFiniteSet(Others)
      BY FS_Singleton, FS_Union, Zenon
    <2>3. some \in SUBSET (Outputs \cup Others)
      BY <1>3, Zenon DEF Event
    <2> HIDE DEF Outputs, Others
    <2>4. IsFiniteSet(Outputs \cup Others)
      BY <2>1, <2>2, FS_Union, Zenon
    <2>5. IsFiniteSet(some)
      BY <2>3, <2>4, FS_Subset, Zenon
    <2> QED
      BY <2>5, FS_CardinalityType, Zenon
  <1>5. "command" \in some => command = "ended"
    BY <1>1, <1>2, Zenon
  <1>6. events' \in [1 .. Cardinality(some) -> some]
    BY <1>1, Zenon
  <1>7. events' \in Seq(Event)
    <2>1. events' \in [1 .. Cardinality(some) -> Event]
      BY <1>3, <1>6, Zenon
    <2> QED
      BY <1>4, <2>1
  <1> QED
    BY <1>4, <1>5, <1>6, <1>7

(* The ends of the loop and of the tool.                                   *)
LEMMA NextStdlog ==
  ASSUME StdlogInv, [StdlogNext]_stdlogVars
  PROVE  StdlogInv'
  <1>1. /\ output \in [Stream -> Seq(Byte)] /\ pipe \in [Stream -> Seq(Byte)]
        /\ newline \in [Target -> BOOLEAN] /\ logged \in [Target -> Seq(Item)]
        /\ events \in Seq(Event)
    BY Zenon DEF StdlogInv, StdlogTypes
  <1>2. ASSUME NEW s \in Stream, NEW b \in Byte, CommandWrites(s, b) PROVE StdlogInv'
    <2>1. /\ command = "running" /\ command' = command /\ stage' = stage /\ events' = events
          /\ active' = active
          /\ output' = [output EXCEPT ![s] = Append(@, b)]
          /\ pipe' = [pipe EXCEPT ![s] = Append(@, b)]
          /\ newline' = newline /\ logged' = logged
      BY <1>2, Zenon DEF CommandWrites
    <2>2. /\ output' \in [Stream -> Seq(Byte)] /\ pipe' \in [Stream -> Seq(Byte)]
          /\ PipeInv' /\ LoggedInv' /\ NewlineInv'
      BY <2>1, GrowStep, Zenon
    <2>3. StdlogTypes'
      BY <1>1, <2>1, <2>2, Zenon DEF StdlogTypes
    <2>4. stage # "drain" /\ stage # "done"
      BY <2>1, Zenon DEF StdlogInv, EndInv
    <2>5. EndInv'
      BY <2>1, <2>4, Zenon DEF StdlogInv, EndInv
    <2> QED
      BY <2>2, <2>3, <2>5, Zenon DEF StdlogInv
  <1>3. ASSUME NEW b \in Byte, Input(b) PROVE StdlogInv'
    <2>1. /\ command' = command /\ stage' = stage /\ events' = events /\ active' = active
          /\ output' = [output EXCEPT !["in"] = Append(@, b)]
          /\ pipe' = [pipe EXCEPT !["in"] = Append(@, b)]
          /\ newline' = newline /\ logged' = logged
      BY <1>3, Zenon DEF Input
    <2>2. /\ output' \in [Stream -> Seq(Byte)] /\ pipe' \in [Stream -> Seq(Byte)]
          /\ PipeInv' /\ LoggedInv' /\ NewlineInv'
      <3>1. "in" \in Stream
        BY Zenon DEF Stream
      <3> QED
        BY <2>1, <3>1, GrowStep, Zenon
    <2>3. StdlogTypes'
      BY <1>1, <2>1, <2>2, Zenon DEF StdlogTypes
    <2>4. pipe'["out"] = pipe["out"] /\ pipe'["error"] = pipe["error"]
      BY <1>1, <2>1
    <2>5. EndInv'
      BY <2>1, <2>4, Zenon DEF StdlogInv, EndInv
    <2> QED
      BY <2>2, <2>3, <2>5, Zenon DEF StdlogInv
  <1>4. ASSUME UNCHANGED <<output, pipe, newline, logged>>, StdlogTypes', EndInv'
        PROVE  StdlogInv'
    BY <1>4, SameOutput, Zenon DEF StdlogInv
  <1>5. CASE End
    <2>1. /\ command' = "ended" /\ output' = output /\ pipe' = pipe /\ stage' = stage
          /\ events' = events /\ active' = active /\ newline' = newline /\ logged' = logged
      BY <1>5, Zenon DEF End
    <2>2. StdlogTypes'
      BY <1>1, <2>1, Zenon DEF StdlogTypes
    <2>3. EndInv'
      <3>1. command' # "running"
        BY <2>1, Zenon
      <3> QED
        BY <2>1, <3>1, Zenon DEF StdlogInv, EndInv
    <2> QED
      BY <1>4, <2>1, <2>2, <2>3, Zenon
  <1>6. CASE CloseInput \/ UNCHANGED stdlogVars
    <2>1. /\ command' = command /\ output' = output /\ pipe' = pipe /\ stage' = stage
          /\ events' = events /\ active' = active /\ newline' = newline /\ logged' = logged
      BY <1>6, Zenon DEF CloseInput, stdlogVars
    <2>2. StdlogTypes'
      BY <1>1, <2>1, Zenon DEF StdlogTypes
    <2>3. EndInv'
      BY <2>1, Zenon DEF StdlogInv, EndInv
    <2> QED
      BY <1>4, <2>1, <2>2, <2>3, Zenon
  <1>7. CASE epoll_wait
    <2>1. /\ command' = command /\ output' = output /\ pipe' = pipe /\ stage' = "handle"
          /\ active' = active /\ newline' = newline /\ logged' = logged
      BY <1>7, Zenon DEF epoll_wait
    <2>2. /\ events' \in Seq(Event)
          /\ \A i \in 1 .. Len(events') : events'[i] = "command" => command = "ended"
      BY <1>7, Waited, Zenon
    <2>3. StdlogTypes'
      BY <1>1, <2>1, <2>2, Zenon DEF StdlogTypes
    <2>4. EndInv'
      <3>1. command = "running" => active /\ \A i \in 1 .. Len(events') : events'[i] # "command"
        BY <2>2, Zenon DEF StdlogInv, EndInv
      <3>2. stage' # "drain" /\ stage' # "done" /\ stage' \in {"loop", "handle"}
        BY <2>1, Zenon
      <3> QED
        BY <2>1, <3>1, <3>2, Zenon DEF EndInv
    <2> QED
      BY <1>4, <2>1, <2>3, <2>4, Zenon
  <1>8. CASE InputHangsUp
    <2>1. /\ command' = command /\ output' = output /\ pipe' = pipe /\ stage' = stage
          /\ active' = active /\ newline' = newline /\ logged' = logged
          /\ events # <<>> /\ events' = Tail(events)
      BY <1>8, Zenon DEF InputHangsUp
    <2>2. StdlogTypes'
      BY <1>1, <2>1, TailEvents, Zenon DEF StdlogTypes
    <2>3. EndInv'
      <3>1. command = "running" => \A i \in 1 .. Len(events') : events'[i] # "command"
        BY <1>1, <2>1, TailEvents, Zenon DEF StdlogInv, EndInv
      <3> QED
        BY <2>1, <3>1, Zenon DEF StdlogInv, EndInv
    <2> QED
      BY <1>4, <2>1, <2>2, <2>3, Zenon
  <1>9. CASE CommandEvent
    <2>1. /\ command' = command /\ output' = output /\ pipe' = pipe /\ stage' = stage
          /\ active' = FALSE /\ newline' = newline /\ logged' = logged
          /\ events # <<>> /\ events' = Tail(events) /\ Head(events) = "command"
      BY <1>9, Zenon DEF CommandEvent
    <2>2. StdlogTypes'
      BY <1>1, <2>1, TailEvents, Zenon DEF StdlogTypes
    <2>3. command # "running"
      BY <1>1, <2>1, TailEvents, Zenon DEF StdlogInv, EndInv
    <2>4. EndInv'
      BY <2>1, <2>3, Zenon DEF StdlogInv, EndInv
    <2> QED
      BY <1>4, <2>1, <2>2, <2>4, Zenon
  <1>10. CASE EventsHandled
    <2>1. /\ command' = command /\ output' = output /\ pipe' = pipe /\ events' = events
          /\ active' = active /\ newline' = newline /\ logged' = logged
          /\ stage' = IF active THEN "loop" ELSE "drain"
      BY <1>10, Zenon DEF EventsHandled
    <2>2. StdlogTypes'
      BY <1>1, <2>1, Zenon DEF StdlogTypes
    <2>3. stage' # "done" /\ (stage' = "drain" => ~active) /\ (active => stage' = "loop")
      BY <2>1, Zenon
    <2>4. EndInv'
      BY <2>1, <2>3, Zenon DEF StdlogInv, EndInv
    <2> QED
      BY <1>4, <2>1, <2>2, <2>4, Zenon
  <1>11. ASSUME NEW s \in Stream, redirect(s), stage \in {"handle", "drain"},
                UNCHANGED <<output, command, stage, active, events>>
         PROVE  StdlogInv'
    <2>1. /\ pipe' \in [Stream -> Seq(Byte)]
          /\ newline' \in [Target -> BOOLEAN] /\ logged' \in [Target -> Seq(Item)]
          /\ PipeInv' /\ LoggedInv' /\ NewlineInv'
      BY <1>11, ReadStep, Zenon
    <2>2. /\ command' = command /\ output' = output /\ stage' = stage /\ events' = events
          /\ active' = active /\ stage # "done"
      BY <1>11, Zenon
    <2>3. StdlogTypes'
      BY <1>1, <2>1, <2>2, Zenon DEF StdlogTypes
    <2>4. EndInv'
      BY <2>2, Zenon DEF StdlogInv, EndInv
    <2> QED
      BY <2>1, <2>3, <2>4, Zenon DEF StdlogInv
  <1>12. CASE epoll_handle
    <2>1. /\ command' = command /\ output' = output /\ stage' = stage /\ active' = active
          /\ stage = "handle" /\ events # <<>> /\ Head(events) \in Stream
      BY <1>12, Zenon DEF epoll_handle
    <2>2. CASE redirect(Head(events)) /\ UNCHANGED events
      <3>1. stage \in {"handle", "drain"}
        BY <2>1, Zenon
      <3> QED
        BY <1>11, <2>1, <2>2, <3>1, Zenon
    <2>3. CASE events' = Tail(events) /\ UNCHANGED <<pipe, logged, newline>>
      <3>1. pipe' = pipe /\ logged' = logged /\ newline' = newline
        BY <2>3, Zenon
      <3>2. StdlogTypes'
        BY <1>1, <2>1, <2>3, <3>1, TailEvents, Zenon DEF StdlogTypes
      <3>3. EndInv'
        <4>1. command = "running" => \A i \in 1 .. Len(events') : events'[i] # "command"
          BY <1>1, <2>1, <2>3, TailEvents, Zenon DEF StdlogInv, EndInv
        <4> QED
          BY <2>1, <3>1, <4>1, Zenon DEF StdlogInv, EndInv
      <3> QED
        BY <1>4, <2>1, <3>1, <3>2, <3>3, Zenon
    <2> QED
      BY <1>12, <2>2, <2>3, Zenon DEF epoll_handle
  <1>13. CASE Drain
    <2>1. /\ command' = command /\ output' = output /\ events' = events /\ active' = active
          /\ stage = "drain"
      BY <1>13, Zenon DEF Drain
    <2>2. ASSUME NEW s \in {"out", "error"}, redirect(s), UNCHANGED stage PROVE StdlogInv'
      <3>1. s \in Stream /\ stage \in {"handle", "drain"}
        BY <2>1, Zenon DEF Stream
      <3> QED
        BY <1>11, <2>1, <2>2, <3>1, Zenon
    <2>3. CASE /\ pipe["out"] = <<>> /\ pipe["error"] = <<>> /\ stage' = "done"
               /\ UNCHANGED <<pipe, logged, newline>>
      <3>1. pipe' = pipe /\ logged' = logged /\ newline' = newline
        BY <2>3, Zenon
      <3>2. StdlogTypes'
        BY <1>1, <2>1, <3>1, Zenon DEF StdlogTypes
      <3>3. command # "running" /\ stage' # "drain"
        BY <2>1, <2>3, Zenon DEF StdlogInv, EndInv
      <3>4. EndInv'
        BY <2>1, <2>3, <3>1, <3>3, Zenon DEF EndInv
      <3> QED
        BY <1>4, <2>1, <3>1, <3>2, <3>4, Zenon
    <2> QED
      BY <1>13, <2>2, <2>3, Zenon DEF Drain
  <1> QED
    BY <1>2, <1>3, <1>5, <1>6, <1>7, <1>8, <1>9, <1>10, <1>12, <1>13, Zenon DEF StdlogNext

(***************************************************************************)
(* redirect, and the loop and the end of main in stdlog.c: every target    *)
(* holds a beginning of what its stream carried, line prefixes included,   *)
(* and all of it when the tool ends.                                       *)
(***************************************************************************)
THEOREM OutputIsComplete == StdlogSpec => []OutputComplete
  <1>1. StdlogInv => OutputComplete
    <2> SUFFICES ASSUME StdlogInv, NEW t \in Target
                 PROVE  /\ IsPrefix(logged[t], Expected(t, output[stream_of[t]]))
                        /\ stage = "done" /\ stream_of[t] # "in" =>
                             logged[t] = Expected(t, output[stream_of[t]])
      BY Zenon DEF OutputComplete, Expected
    <2> DEFINE s == stream_of[t]
               e == Expected(t, output[s])
    <2>1. s \in Stream
      BY StdlogAssumption, Zenon DEF Stream
    <2>2. /\ output[s] \in Seq(Byte) /\ Len(output[s]) \in Nat /\ Taken(s) \in Nat
          /\ Taken(s) + Len(pipe[s]) = Len(output[s]) /\ Taken(s) <= Len(output[s])
      BY <2>1, TakenType, Zenon DEF StdlogInv
    <2>3. e \in Seq(Item) /\ Len(e) = Len(output[s])
      <3>1. output[s] \in Seq(Item)
        BY <2>2 DEF Item
      <3> QED
        BY <2>2, <3>1, WithPrefixType, Zenon DEF Expected
    <2>4. /\ logged[t] \in Seq(Item) /\ Len(logged[t]) = Taken(s)
          /\ \A i \in 1 .. Taken(s) : logged[t][i] = e[i]
      BY Zenon DEF StdlogInv, StdlogTypes, LoggedInv
    <2>5. IsPrefix(logged[t], e)
      BY <2>2, <2>3, <2>4, PrefixOf, Zenon
    <2>6. ASSUME stage = "done", s # "in" PROVE logged[t] = e
      <3>1. pipe[s] = <<>>
        BY <2>1, <2>6, Zenon DEF StdlogInv, EndInv, Stream
      <3>2. Taken(s) = Len(output[s])
        BY <2>2, <3>1
      <3> QED
        BY <2>3, <2>4, <3>2, SameItems, Zenon
    <2> QED
      BY <2>5, <2>6, Zenon
  <1> QED
    BY <1>1, InitStdlog, NextStdlog, PTL DEF StdlogSpec
=============================================================================
