----------------------------- MODULE TlsProofs ------------------------------
(***************************************************************************)
(* Proofs about TLS, for any objects, sizes, alignments and threads: the   *)
(* blocks of the initial modules fit below a thread, a heap block belongs  *)
(* to one entry of one dtv, and a variable keeps its address.              *)
(***************************************************************************)
EXTENDS TLS, FiniteSetTheorems, TLAPS

(* A dtv has an entry for each number up to its size.                      *)
Dtvs == {d \in [gen : {0, 1}, size : Nat, val : Seq(Int)] : Len(d.val) = d.size}

Modules == [object : Object, offset : Nat]

(* The lists of modules and dtvs; before the start all modules are         *)
(* initial.                                                                *)
TlsTypes ==
  /\ gen \in {0, 1} /\ modules \in Seq(Modules) /\ Len(modules) <= MaxModules
  /\ initial_count \in 0 .. Len(modules) /\ (gen = 0 => initial_count = Len(modules))
  /\ initial_align \in Nat \ {0} /\ initial_size \in Nat
  /\ state \in [Thread -> {"none", "allocated", "running"}]
  /\ dtv \in [Thread -> Dtvs]

(* The initial blocks are one below the other.                             *)
OffsetInv ==
  /\ \A m \in 1 .. initial_count : /\ Size[modules[m].object] <= modules[m].offset
                                   /\ modules[m].offset <= initial_size
  /\ \A m, n \in 1 .. initial_count :
       m < n => modules[m].offset + Size[modules[n].object] <= modules[n].offset

(* The dtv of a running thread is as long as a dtv must be, is of the only *)
(* generation there is, and leads to the initial blocks.                   *)
DtvInv ==
  \A t \in Thread :
    /\ state[t] = "none" => dtv[t] = NoDtv
    /\ state[t] # "none" => MinDtv <= dtv[t].size
    /\ state[t] = "allocated" => \A m \in 1 .. dtv[t].size : dtv[t].val[m] = Unallocated
    /\ state[t] = "running" => /\ gen = 1 /\ dtv[t].gen = 1
                               /\ \A m \in 1 .. dtv[t].size : m <= initial_count => dtv[t].val[m] < 0

(* The positive entries of the dtvs are heap blocks, each another one, and *)
(* the others have been in the last entry of a dtv.                        *)
HeapInv ==
  /\ DOMAIN heap \subseteq Nat \ {0} /\ IsFiniteSet(DOMAIN heap)
  /\ \A t \in Thread : \A m \in 1 .. dtv[t].size : dtv[t].val[m] > 0 =>
       /\ dtv[t].val[m] \in DOMAIN heap /\ m \in initial_count + 1 .. Len(modules)
       /\ m = dtv[t].size => heap[dtv[t].val[m]]
       /\ \A s \in Thread : \A n \in 1 .. dtv[s].size : dtv[s].val[n] = dtv[t].val[m] => s = t /\ n = m
  /\ \A b \in DOMAIN heap :
       heap[b] \/ \E t \in Thread : \E m \in 1 .. dtv[t].size : dtv[t].val[m] = b

(* The inductive invariant of thread-local storage                         *)
TlsInv == TlsTypes /\ OffsetInv /\ DtvInv /\ HeapInv

(* What align_up adds is less than the alignment.                          *)
LEMMA AlignUp ==
  ASSUME NEW n \in Nat, NEW a \in Nat \ {0}
  PROVE  align_up(n, a) \in Nat /\ n <= align_up(n, a) /\ align_up(n, a) < n + a
<1> DEFINE q == (n + a - 1) \div a
<1>1. q \in Int
  OBVIOUS
<1>2. q * a <= n + a - 1 /\ n + a - 1 < q * a + a
  OBVIOUS
<1> QED BY <1>1, <1>2 DEF align_up

(* A new module                                                            *)
LEMMA AddStep ==
  ASSUME TlsInv, NEW o \in Object, add_module(o)
  PROVE  TlsInv'
<1> DEFINE n == Len(modules)
<1>1. TlsTypes /\ OffsetInv /\ DtvInv /\ HeapInv
  BY Zenon DEF TlsInv
<1>2. /\ n \in Nat /\ n < MaxModules /\ modules \in Seq(Modules)
      /\ initial_align \in Nat \ {0} /\ initial_size \in Nat /\ initial_count \in 0 .. n
      /\ UNCHANGED <<gen, state, dtv, heap>>
  BY <1>1 DEF TlsTypes, add_module
<1>3. Size[o] \in Nat \ {0} /\ Align[o] \in Nat
  BY TlsAssumption, Zenon
<1>4. \A i \in 1 .. n : modules[i].offset \in Nat /\ modules[i].object \in Object
  <2> SUFFICES ASSUME NEW i \in 1 .. n
               PROVE  modules[i].offset \in Nat /\ modules[i].object \in Object
    BY Zenon
  <2>1. modules[i] \in Modules
    BY <1>2
  <2> QED BY <2>1, Zenon DEF Modules
<1>5. CASE gen = 0
  <2> DEFINE a == Larger(initial_align, Align[o])
             e == [object |-> o, offset |-> initial_size + align_up(Size[o], a)]
  <2>1. /\ initial_count' = initial_count + 1 /\ initial_align' = a
        /\ initial_size' = initial_size + align_up(Size[o], a) /\ modules' = Append(modules, e)
    BY <1>5, Zenon DEF add_module
  <2>2. a \in Nat \ {0}
    BY <1>2, <1>3 DEF Larger
  <2>3. align_up(Size[o], a) \in Nat /\ Size[o] <= align_up(Size[o], a)
    BY <1>3, <2>2, AlignUp, Zenon
  <2>4. e \in Modules
    BY <1>2, <2>3 DEF Modules
  <2>5. initial_count = n
    BY <1>1, <1>5, Zenon DEF TlsTypes
  <2> HIDE DEF e, a
  <2>6. /\ modules' \in Seq(Modules) /\ Len(modules') = n + 1
        /\ modules'[n + 1] = e /\ \A i \in 1 .. n : modules'[i] = modules[i]
    BY <1>2, <2>1, <2>4
  <2>7. TlsTypes'
    BY <1>1, <1>2, <1>5, <2>1, <2>2, <2>3, <2>5, <2>6, TlsAssumption DEF TlsTypes
  <2>8. OffsetInv'
    <3>1. ASSUME NEW m \in 1 .. n + 1
          PROVE  /\ Size[modules'[m].object] <= modules'[m].offset
                 /\ modules'[m].offset <= initial_size'
      <4>1. CASE m = n + 1
        BY <1>2, <1>3, <2>1, <2>3, <2>6, <4>1 DEF e
      <4>2. CASE m \in 1 .. n
        <5>1. modules'[m] = modules[m] /\ modules[m].offset \in Nat
          BY <1>4, <2>6, <4>2, Zenon
        <5>2. Size[modules[m].object] <= modules[m].offset /\ modules[m].offset <= initial_size
          BY <1>1, <2>5, <4>2, Zenon DEF OffsetInv
        <5> QED BY <1>2, <2>1, <2>3, <5>1, <5>2
      <4> QED BY <1>2, <4>1, <4>2
    <3>2. ASSUME NEW m \in 1 .. n + 1, NEW k \in 1 .. n + 1, m < k
          PROVE  modules'[m].offset + Size[modules'[k].object] <= modules'[k].offset
      <4>1. m \in 1 .. n
        BY <1>2, <3>2
      <4>4. modules'[m] = modules[m] /\ modules[m].offset \in Nat
        BY <1>4, <2>6, <4>1, Zenon
      <4>2. CASE k = n + 1
        <5>1. modules[m].offset <= initial_size
          BY <1>1, <2>5, <4>1, Zenon DEF OffsetInv
        <5>2. modules'[k].offset = initial_size + align_up(Size[o], a) /\ modules'[k].object = o
          BY <2>6, <4>2 DEF e
        <5> QED BY <1>2, <1>3, <2>3, <4>4, <5>1, <5>2
      <4>3. CASE k \in 1 .. n
        BY <1>1, <2>5, <2>6, <3>2, <4>1, <4>3, <4>4, Zenon DEF OffsetInv
      <4> QED BY <1>2, <4>2, <4>3
    <3>3. initial_count' = n + 1
      BY <2>1, <2>5, Zenon
    <3> QED BY <3>1, <3>2, <3>3, Zenon DEF OffsetInv
  <2>9. DtvInv'
    BY <1>1, <1>2, <1>5 DEF DtvInv
  <2>10. HeapInv'
    <3>1. \A t \in Thread : \A m \in 1 .. dtv[t].size : ~(dtv[t].val[m] > 0)
      BY <1>1, <1>2, <2>5 DEF HeapInv
    <3> QED BY <1>1, <1>2, <3>1, Zenon DEF HeapInv
  <2> QED BY <2>7, <2>8, <2>9, <2>10, Zenon DEF TlsInv
<1>6. CASE gen = 1
  <2> DEFINE e == [object |-> o, offset |-> 0]
  <2>1. modules' = Append(modules, e) /\ UNCHANGED <<initial_count, initial_align, initial_size>>
    BY <1>6 DEF add_module, static
  <2>2. e \in Modules
    BY Zenon DEF Modules
  <2> HIDE DEF e
  <2>3. /\ modules' \in Seq(Modules) /\ Len(modules') = n + 1
        /\ \A i \in 1 .. n : modules'[i] = modules[i]
    BY <1>2, <2>1, <2>2
  <2>4. TlsTypes'
    BY <1>1, <1>2, <1>6, <2>1, <2>3, TlsAssumption DEF TlsTypes
  <2>5. OffsetInv'
    <3>1. \A i \in 1 .. initial_count : modules'[i] = modules[i]
      BY <1>2, <2>3
    <3> QED BY <1>1, <2>1, <3>1, Zenon DEF OffsetInv
  <2>6. DtvInv'
    BY <1>1, <1>2, <2>1, Zenon DEF DtvInv
  <2>7. HeapInv'
    <3>1. \A m \in initial_count + 1 .. n : m \in initial_count + 1 .. n + 1
      BY <1>2
    <3> QED BY <1>1, <1>2, <2>1, <2>3, <3>1 DEF HeapInv
  <2> QED BY <2>4, <2>5, <2>6, <2>7 DEF TlsInv
<1> QED BY <1>1, <1>5, <1>6, Zenon DEF TlsTypes

(* The entries of a dtv are numbers.                                       *)
LEMMA DtvFacts ==
  ASSUME TlsTypes, NEW t \in Thread
  PROVE  /\ dtv[t].size \in Nat /\ dtv[t].gen \in {0, 1} /\ DOMAIN dtv[t].val = 1 .. dtv[t].size
         /\ dtv[t].val \in [1 .. dtv[t].size -> Int]
         /\ dtv[t] = [gen |-> dtv[t].gen, size |-> dtv[t].size, val |-> dtv[t].val]
<1>1. dtv[t] \in [gen : {0, 1}, size : Nat, val : Seq(Int)] /\ Len(dtv[t].val) = dtv[t].size
  BY Zenon DEF TlsTypes, Dtvs
<1>2. dtv[t].val \in Seq(Int)
  BY <1>1, Zenon
<1> QED BY <1>1, <1>2

(* A dtv with numbers as entries                                           *)
LEMMA DtvMade ==
  ASSUME NEW g \in {0, 1}, NEW n \in Nat, NEW v \in [1 .. n -> Int]
  PROVE  [gen |-> g, size |-> n, val |-> v] \in Dtvs
<1>1. v \in Seq(Int) /\ Len(v) = n
  OBVIOUS
<1> QED BY <1>1, Zenon DEF Dtvs

(* A step that changes only entries of t that are no heap blocks           *)
LEMMA HeapKept ==
  ASSUME HeapInv, NEW t \in Thread, \A s \in Thread \ {t} : dtv'[s] = dtv[s],
         \A m \in 1 .. dtv[t].size : ~(dtv[t].val[m] > 0),
         \A m \in 1 .. dtv'[t].size : ~(dtv'[t].val[m] > 0),
         UNCHANGED <<modules, initial_count, heap>>
  PROVE  HeapInv'
<1>1. /\ DOMAIN heap \subseteq Nat \ {0} /\ IsFiniteSet(DOMAIN heap)
  BY Zenon DEF HeapInv
<1>2. ASSUME NEW s \in Thread, NEW m \in 1 .. dtv'[s].size, dtv'[s].val[m] > 0
      PROVE  /\ dtv'[s].val[m] \in DOMAIN heap /\ m \in initial_count + 1 .. Len(modules)
             /\ m = dtv'[s].size => heap[dtv'[s].val[m]]
             /\ \A r \in Thread : \A n \in 1 .. dtv'[r].size : dtv'[r].val[n] = dtv'[s].val[m] => r = s /\ n = m
  <2>1. s # t
    BY <1>2, Zenon
  <2>2. dtv'[s] = dtv[s]
    BY <2>1, Zenon
  <2>3. /\ dtv[s].val[m] \in DOMAIN heap /\ m \in initial_count + 1 .. Len(modules)
        /\ m = dtv[s].size => heap[dtv[s].val[m]]
        /\ \A r \in Thread : \A n \in 1 .. dtv[r].size : dtv[r].val[n] = dtv[s].val[m] => r = s /\ n = m
    BY <1>2, <2>2 DEF HeapInv
  <2> QED BY <1>2, <2>2, <2>3
<1>3. ASSUME NEW b \in DOMAIN heap, ~heap[b]
      PROVE  \E s \in Thread : \E m \in 1 .. dtv'[s].size : dtv'[s].val[m] = b
  <2>1. PICK s \in Thread : \E m \in 1 .. dtv[s].size : dtv[s].val[m] = b
    BY <1>3, Zenon DEF HeapInv
  <2>2. b > 0
    BY <1>1
  <2>3. s # t
    BY <2>1, <2>2, Zenon
  <2> QED BY <2>1, <2>3, Zenon
<1> QED BY <1>1, <1>2, <1>3 DEF HeapInv

(* A new thread                                                            *)
LEMMA AllocateStep ==
  ASSUME TlsInv, NEW t \in Thread, allocate(t)
  PROVE  TlsInv'
<1>1. TlsTypes /\ OffsetInv /\ DtvInv /\ HeapInv
  BY DEF TlsInv
<1>2. /\ state[t] = "none" /\ UNCHANGED <<gen, modules, initial_count, initial_size, heap>>
      /\ state' = [state EXCEPT ![t] = "allocated"] /\ dtv' = [dtv EXCEPT ![t] = dtv_allocate(dtv[t])]
  BY Zenon DEF allocate
<1>3. dtv[t] = NoDtv
  BY <1>1, <1>2, Zenon DEF DtvInv
<1>4. capacity \in Nat /\ MinDtv <= capacity
  BY <1>1, TlsAssumption DEF capacity, Larger, TlsTypes
<1> DEFINE v == [m \in 1 .. capacity |-> Unallocated]
           d == [gen |-> 0, size |-> capacity, val |-> v]
<1>5. dtv_allocate(dtv[t]) = d
  <2>1. ASSUME NEW m \in 1 .. capacity PROVE ~(m <= 0)
    BY <1>4
  <2>2. [m \in 1 .. capacity |-> IF m <= 0 THEN dtv[t].val[m] ELSE Unallocated] = v
    BY <2>1, Zenon
  <2>3. dtv[t].size = 0
    BY <1>3 DEF NoDtv
  <2>4. dtv_allocate(dtv[t]) = [NoDtv EXCEPT !.size = capacity, !.val = v]
    BY <1>3, <2>2, <2>3, Zenon DEF dtv_allocate
  <2> HIDE DEF v
  <2> QED BY <2>4, Zenon DEF NoDtv
<1>6. d \in Dtvs
  BY <1>4, DtvMade DEF Unallocated
<1>7. d.size = capacity /\ d.gen = 0 /\ \A m \in 1 .. capacity : d.val[m] = 0
  BY Zenon DEF Unallocated
<1> HIDE DEF d
<1>8. /\ state'[t] = "allocated" /\ dtv'[t] = d
      /\ \A s \in Thread \ {t} : state'[s] = state[s] /\ dtv'[s] = dtv[s]
  BY <1>1, <1>2, <1>5, Zenon DEF TlsTypes
<1>9. TlsTypes'
  <2>1. initial_align' \in Nat \ {0}
    BY <1>1, TlsAssumption DEF allocate, Larger, TlsTypes
  <2> QED BY <1>1, <1>2, <1>5, <1>6, <2>1, Zenon DEF TlsTypes
<1>10. OffsetInv'
  BY <1>1, <1>2, Zenon DEF OffsetInv
<1>11. DtvInv'
  <2> SUFFICES ASSUME NEW s \in Thread
               PROVE  /\ state'[s] = "none" => dtv'[s] = NoDtv
                      /\ state'[s] # "none" => MinDtv <= dtv'[s].size
                      /\ state'[s] = "allocated" => \A m \in 1 .. dtv'[s].size : dtv'[s].val[m] = Unallocated
                      /\ state'[s] = "running" =>
                           /\ gen = 1 /\ dtv'[s].gen = 1
                           /\ \A m \in 1 .. dtv'[s].size : m <= initial_count => dtv'[s].val[m] < 0
    BY <1>2, Zenon DEF DtvInv
  <2>1. CASE s = t
    BY <1>4, <1>7, <1>8, <2>1, Zenon DEF Unallocated
  <2>2. CASE s # t
    BY <1>1, <1>8, <2>2, Zenon DEF DtvInv
  <2> QED BY <2>1, <2>2, Zenon
<1>12. HeapInv'
  <2>1. \A m \in 1 .. dtv'[t].size : dtv'[t].val[m] = 0
    BY <1>7, <1>8, Zenon
  <2>2. \A m \in 1 .. dtv[t].size : FALSE
    BY <1>3 DEF NoDtv
  <2> QED BY <1>1, <1>2, <1>8, <2>1, <2>2, HeapKept
<1> QED BY <1>9, <1>10, <1>11, <1>12 DEF TlsInv

(* dtv_setup of a new thread                                               *)
LEMMA SetupStep ==
  ASSUME TlsInv, NEW t \in Thread, dtv_setup(t)
  PROVE  TlsInv'
<1>1. TlsTypes /\ OffsetInv /\ DtvInv /\ HeapInv
  BY DEF TlsInv
<1> DEFINE n == dtv[t].size
           v == [m \in DOMAIN dtv[t].val |-> IF m <= initial_count THEN -modules[m].offset ELSE dtv[t].val[m]]
           d == [gen |-> 1, size |-> n, val |-> v]
<1>2. /\ state[t] = "allocated" /\ gen' = 1 /\ state' = [state EXCEPT ![t] = "running"]
      /\ UNCHANGED <<modules, initial_count, initial_align, initial_size, heap>>
  BY Zenon DEF dtv_setup, static
<1>3. /\ n \in Nat /\ DOMAIN dtv[t].val = 1 .. n /\ dtv[t].val \in [1 .. n -> Int]
      /\ dtv[t] = [gen |-> dtv[t].gen, size |-> n, val |-> dtv[t].val]
  BY <1>1, DtvFacts, Zenon
<1>5. \A m \in 1 .. n : dtv[t].val[m] = 0 /\ MinDtv <= n
  BY <1>1, <1>2, Zenon DEF DtvInv, Unallocated
<1>6. ASSUME NEW m \in 1 .. n
      PROVE  v[m] \in Int /\ (m <= initial_count => v[m] < 0) /\ ~(v[m] > 0)
  <2>1. CASE m <= initial_count
    <3>1. m \in 1 .. initial_count /\ m \in 1 .. Len(modules)
      BY <1>1, <1>3, <2>1 DEF TlsTypes
    <3>2. modules[m] \in Modules
      BY <1>1, <3>1 DEF TlsTypes
    <3>3. modules[m].offset \in Nat /\ Size[modules[m].object] \in Nat \ {0}
      BY <3>2, TlsAssumption, Zenon DEF Modules
    <3>4. Size[modules[m].object] <= modules[m].offset
      BY <1>1, <3>1, Zenon DEF OffsetInv
    <3>5. v[m] = -modules[m].offset
      BY <1>3, <2>1, Zenon
    <3> QED BY <3>3, <3>4, <3>5
  <2>2. CASE ~(m <= initial_count)
    BY <1>3, <1>5, <2>2
  <2> QED BY <2>1, <2>2, Zenon
<1>7. DOMAIN v = 1 .. n /\ v \in [1 .. n -> Int]
  BY <1>3, <1>6, Zenon
<1>4. dtv' = [dtv EXCEPT ![t] = d]
  <2>1. dtv' = [dtv EXCEPT ![t] = [dtv[t] EXCEPT !.gen = 1, !.val = v]]
    BY <1>1, Zenon DEF dtv_setup, TlsTypes
  <2> HIDE DEF v
  <2>2. v \in Seq(Int) /\ dtv[t] \in [gen : {0, 1}, size : Nat, val : Seq(Int)]
    <3>1. v \in Seq(Int)
      BY <1>3, <1>7
    <3> QED BY <1>1, <3>1, Zenon DEF TlsTypes, Dtvs
  <2>3. PICK e : e = [dtv[t] EXCEPT !.gen = 1, !.val = v]
    BY Zenon
  <2>4. e \in [gen : {0, 1}, size : Nat, val : Seq(Int)]
    BY <2>2, <2>3, Zenon
  <2>5. e.gen = 1 /\ e.size = n /\ e.val = v
    BY <2>2, <2>3, Zenon
  <2>6. e = d
    BY <2>4, <2>5, Zenon
  <2> QED BY <2>1, <2>3, <2>6, Zenon
<1> HIDE DEF v
<1>8. d \in Dtvs
  BY <1>3, <1>7, DtvMade, Zenon
<1>9. d.size = n /\ d.gen = 1 /\ d.val = v
  BY Zenon
<1> HIDE DEF d
<1>10. /\ state'[t] = "running" /\ dtv'[t] = d
       /\ \A s \in Thread \ {t} : state'[s] = state[s] /\ dtv'[s] = dtv[s]
  BY <1>1, <1>2, <1>4, Zenon DEF TlsTypes
<1>11. TlsTypes'
  BY <1>1, <1>2, <1>4, <1>8, Zenon DEF TlsTypes
<1>12. OffsetInv'
  BY <1>1, <1>2, Zenon DEF OffsetInv
<1>13. DtvInv'
  <2> SUFFICES ASSUME NEW s \in Thread
               PROVE  /\ state'[s] = "none" => dtv'[s] = NoDtv
                      /\ state'[s] # "none" => MinDtv <= dtv'[s].size
                      /\ state'[s] = "allocated" => \A m \in 1 .. dtv'[s].size : dtv'[s].val[m] = Unallocated
                      /\ state'[s] = "running" =>
                           /\ dtv'[s].gen = 1
                           /\ \A m \in 1 .. dtv'[s].size : m <= initial_count => dtv'[s].val[m] < 0
    BY <1>2, Zenon DEF DtvInv
  <2>1. CASE s = t
    <3>1. MinDtv <= n
      BY <1>1, <1>2, Zenon DEF DtvInv
    <3> QED BY <1>6, <1>9, <1>10, <2>1, <3>1, Zenon
  <2>2. CASE s # t
    BY <1>1, <1>10, <2>2, Zenon DEF DtvInv
  <2> QED BY <2>1, <2>2, Zenon
<1>14. HeapInv'
  <2>1. \A m \in 1 .. dtv'[t].size : ~(dtv'[t].val[m] > 0)
    BY <1>6, <1>9, <1>10, Zenon
  <2>2. \A m \in 1 .. dtv[t].size : ~(dtv[t].val[m] > 0)
    BY <1>5
  <2> QED BY <1>1, <1>2, <1>10, <2>1, <2>2, HeapKept, Zenon
<1> QED BY <1>11, <1>12, <1>13, <1>14 DEF TlsInv

(* Memory::alloc finds a block.                                            *)
LEMMA NewBlockFacts ==
  ASSUME HeapInv
  PROVE  NewBlock \in Nat \ {0} /\ NewBlock \notin DOMAIN heap
<1> DEFINE c == Cardinality(DOMAIN heap)
<1>1. IsFiniteSet(DOMAIN heap) /\ c \in Nat
  BY FS_CardinalityType, Zenon DEF HeapInv
<1>2. IsFiniteSet(1 .. c + 1) /\ Cardinality(1 .. c + 1) = c + 1
  BY <1>1, FS_Interval
<1>3. ~(1 .. c + 1 \subseteq DOMAIN heap)
  <2>1. 1 .. c + 1 \subseteq DOMAIN heap => Cardinality(1 .. c + 1) <= c
    BY <1>1, FS_Subset, Zenon
  <2> QED BY <1>1, <1>2, <2>1
<1>4. \E b \in 1 .. c + 1 : b \notin DOMAIN heap
  BY <1>3, Zenon
<1>5. NewBlock \in 1 .. c + 1 /\ NewBlock \notin DOMAIN heap
  BY <1>4, Zenon DEF NewBlock
<1> QED BY <1>1, <1>5

(* A running thread has the current generation, and its dtv does not grow. *)
LEMMA GetAddr ==
  ASSUME TlsInv, NEW t \in Thread, NEW m, get_addr(t, m)
  PROVE  /\ state[t] = "running" /\ m \in 1 .. Len(modules) /\ m \in 1 .. dtv[t].size
         /\ UNCHANGED <<gen, modules, initial_count, initial_align, initial_size, state>>
         /\ \/ dtv' = dtv /\ heap' = heap
            \/ /\ dtv[t].val[m] = Unallocated
               /\ dtv' = [dtv EXCEPT ![t] = [gen |-> 1, size |-> dtv[t].size,
                                             val |-> [dtv[t].val EXCEPT ![m] = NewBlock]]]
               /\ Alloc(m, dtv[t].size)
<1>1. /\ state[t] = "running" /\ m \in DOMAIN modules
      /\ UNCHANGED <<gen, modules, initial_count, initial_align, initial_size, state>>
  BY Zenon DEF get_addr, static
<1>2. gen = 1 /\ dtv[t].gen = 1
  BY <1>1, Zenon DEF TlsInv, DtvInv
<1>3. /\ dtv[t].size \in Nat /\ dtv \in [Thread -> Dtvs]
      /\ dtv[t] = [gen |-> dtv[t].gen, size |-> dtv[t].size, val |-> dtv[t].val]
  BY DtvFacts, Zenon DEF TlsInv, TlsTypes
<1>4. /\ m <= dtv[t].size
      /\ IF dtv[t].val[m] = Unallocated
         THEN /\ Alloc(m, dtv[t].size)
              /\ dtv' = [dtv EXCEPT ![t] = [dtv[t] EXCEPT !.gen = gen, !.val[m] = NewBlock]]
         ELSE dtv' = [dtv EXCEPT ![t] = [dtv[t] EXCEPT !.gen = gen]] /\ UNCHANGED heap
  BY <1>2, Zenon DEF get_addr
<1>5. m \in 1 .. Len(modules) /\ m \in 1 .. dtv[t].size
  BY <1>1, <1>3, <1>4 DEF TlsInv, TlsTypes
<1>6. [dtv[t] EXCEPT !.gen = gen] = dtv[t]
  BY <1>2, <1>3, Zenon
<1>7. [dtv EXCEPT ![t] = dtv[t]] = dtv
  BY <1>3, Zenon
<1>8. [dtv[t] EXCEPT !.gen = gen, !.val[m] = NewBlock] =
        [gen |-> 1, size |-> dtv[t].size, val |-> [dtv[t].val EXCEPT ![m] = NewBlock]]
  <2>1. PICK e : e = [dtv[t] EXCEPT !.gen = gen, !.val[m] = NewBlock]
    BY Zenon
  <2>2. PICK w : w = [dtv[t].val EXCEPT ![m] = NewBlock]
    BY Zenon
  <2>3. dtv[t] \in [gen : {0, 1}, size : Nat, val : Seq(Int)] /\ w \in Seq(Int)
    <3>1. w \in [1 .. dtv[t].size -> Int]
      <4>1. dtv[t].val \in [1 .. dtv[t].size -> Int]
        BY DtvFacts, Zenon DEF TlsInv
      <4>2. NewBlock \in Int
        BY NewBlockFacts DEF TlsInv
      <4> QED BY <1>5, <2>2, <4>1, <4>2, Zenon
    <3> QED BY <1>3, <3>1 DEF Dtvs
  <2>4. e \in [gen : {0, 1}, size : Nat, val : Seq(Int)]
    BY <1>2, <2>1, <2>2, <2>3, Zenon
  <2>5. e.gen = 1 /\ e.size = dtv[t].size /\ e.val = w
    BY <1>2, <2>1, <2>2, <2>3, Zenon
  <2>6. e = [gen |-> 1, size |-> dtv[t].size, val |-> w]
    BY <2>4, <2>5, Zenon
  <2> QED BY <2>1, <2>2, <2>6, Zenon
<1> QED BY <1>1, <1>4, <1>5, <1>6, <1>7, <1>8, Zenon

(* get_addr allocates a missing block.                                     *)
LEMMA GetStep ==
  ASSUME TlsInv, NEW t \in Thread, NEW m, get_addr(t, m)
  PROVE  TlsInv'
<1>1. TlsTypes /\ OffsetInv /\ DtvInv /\ HeapInv
  BY Zenon DEF TlsInv
<1>2. /\ state[t] = "running" /\ m \in 1 .. Len(modules) /\ m \in 1 .. dtv[t].size
      /\ UNCHANGED <<gen, modules, initial_count, initial_align, initial_size, state>>
  BY GetAddr, Zenon
<1>3. CASE dtv' = dtv /\ heap' = heap
  BY <1>1, <1>2, <1>3 DEF TlsInv, TlsTypes, OffsetInv, DtvInv, HeapInv
<1> DEFINE B == NewBlock
           w == [dtv[t].val EXCEPT ![m] = B]
           d == [gen |-> 1, size |-> dtv[t].size, val |-> w]
<1>4. CASE dtv[t].val[m] = Unallocated /\ dtv' = [dtv EXCEPT ![t] = d] /\ Alloc(m, dtv[t].size)
  <2>1. /\ B \in Nat \ {0} /\ B \notin DOMAIN heap
        /\ dtv[t].size \in Nat /\ dtv[t].val \in [1 .. dtv[t].size -> Int]
    BY <1>1, NewBlockFacts, DtvFacts, Zenon
  <2> HIDE DEF B
  <2>2. /\ w \in [1 .. dtv[t].size -> Int]
        /\ \A k \in 1 .. dtv[t].size : w[k] = IF k = m THEN B ELSE dtv[t].val[k]
    BY <1>2, <2>1
  <2> HIDE DEF w
  <2>3. d \in Dtvs
    BY <2>1, <2>2, DtvMade, Zenon
  <2>4. d.size = dtv[t].size /\ d.gen = 1 /\ d.val = w
    BY Zenon
  <2> HIDE DEF d
  <2>5. dtv'[t] = d /\ \A s \in Thread \ {t} : dtv'[s] = dtv[s]
    BY <1>1, <1>4, Zenon DEF TlsTypes
  <2>6. ASSUME NEW s \in Thread
        PROVE  /\ dtv'[s].size = dtv[s].size
               /\ \A k \in 1 .. dtv[s].size : dtv'[s].val[k] = IF s = t /\ k = m THEN B ELSE dtv[s].val[k]
    BY <2>2, <2>4, <2>5, Zenon
  <2>7. /\ DOMAIN heap' = DOMAIN heap \cup {B} /\ (heap'[B] <=> m = dtv[t].size)
        /\ \A b \in DOMAIN heap : heap'[b] = heap[b]
    BY <1>4, <2>1, Zenon DEF Alloc, B
  <2>8. m \in initial_count + 1 .. Len(modules)
    <3>1. ~(m <= initial_count)
      BY <1>1, <1>2, <1>4 DEF DtvInv, Unallocated
    <3> QED BY <1>1, <1>2, <3>1 DEF TlsTypes
  <2>9. TlsTypes' /\ OffsetInv'
    BY <1>1, <1>2, <1>4, <2>3, Zenon DEF TlsTypes, OffsetInv
  <2>10. DtvInv'
    <3> SUFFICES ASSUME NEW s \in Thread
                 PROVE  /\ state[s] = "none" => dtv'[s] = NoDtv
                        /\ state[s] # "none" => MinDtv <= dtv'[s].size
                        /\ state[s] = "allocated" => \A k \in 1 .. dtv'[s].size : dtv'[s].val[k] = Unallocated
                        /\ state[s] = "running" =>
                             /\ gen = 1 /\ dtv'[s].gen = 1
                             /\ \A k \in 1 .. dtv'[s].size : k <= initial_count => dtv'[s].val[k] < 0
      BY <1>2, Zenon DEF DtvInv
    <3>1. CASE s = t
      <4>1. /\ MinDtv <= dtv[t].size /\ gen = 1
            /\ \A k \in 1 .. dtv[t].size : k <= initial_count => dtv[t].val[k] < 0
        BY <1>1, <1>2, Zenon DEF DtvInv
      <4>2. ~(m <= initial_count)
        BY <1>1, <2>8 DEF TlsTypes
      <4> QED BY <1>2, <2>4, <2>5, <2>6, <3>1, <4>1, <4>2, Zenon
    <3>2. CASE s # t
      BY <1>1, <2>5, <3>2 DEF DtvInv
    <3> QED BY <3>1, <3>2, Zenon
  <2>11. DOMAIN heap' \subseteq Nat \ {0} /\ IsFiniteSet(DOMAIN heap')
    BY <1>1, <2>1, <2>7, FS_AddElement DEF HeapInv
  <2>12. ASSUME NEW s \in Thread, NEW k \in 1 .. dtv[s].size, dtv[s].val[k] > 0
         PROVE  /\ dtv[s].val[k] \in DOMAIN heap /\ dtv[s].val[k] # B /\ k \in initial_count + 1 .. Len(modules)
                /\ k = dtv[s].size => heap[dtv[s].val[k]]
                /\ \A r \in Thread : \A n \in 1 .. dtv[r].size : dtv[r].val[n] = dtv[s].val[k] => r = s /\ n = k
    BY <1>1, <2>1, <2>12 DEF HeapInv
  <2>13. ASSUME NEW s \in Thread, NEW k \in 1 .. dtv[s].size, dtv'[s].val[k] > 0
         PROVE  /\ dtv'[s].val[k] \in DOMAIN heap' /\ k \in initial_count + 1 .. Len(modules)
                /\ k = dtv[s].size => heap'[dtv'[s].val[k]]
                /\ \A r \in Thread : \A n \in 1 .. dtv[r].size : dtv'[r].val[n] = dtv'[s].val[k] => r = s /\ n = k
    <3>1. CASE s = t /\ k = m
      <4>1. dtv'[s].val[k] = B
        BY <2>6, <3>1, Zenon
      <4>2. ASSUME NEW r \in Thread, NEW n \in 1 .. dtv[r].size, dtv'[r].val[n] = B PROVE r = s /\ n = k
        <5>1. B > 0
          BY <2>1
        <5> QED BY <2>6, <2>12, <3>1, <4>2, <5>1
      <4> QED BY <2>7, <2>8, <3>1, <4>1, <4>2, Zenon
    <3>2. CASE ~(s = t /\ k = m)
      <4>1. dtv'[s].val[k] = dtv[s].val[k]
        BY <2>6, <3>2, Zenon
      <4>2. dtv[s].val[k] > 0
        BY <2>13, <4>1, Zenon
      <4>3. /\ dtv[s].val[k] \in DOMAIN heap /\ dtv[s].val[k] # B /\ k \in initial_count + 1 .. Len(modules)
            /\ k = dtv[s].size => heap[dtv[s].val[k]]
            /\ \A r \in Thread : \A n \in 1 .. dtv[r].size : dtv[r].val[n] = dtv[s].val[k] => r = s /\ n = k
        BY <2>12, <4>2, Zenon
      <4>4. ASSUME NEW r \in Thread, NEW n \in 1 .. dtv[r].size, dtv'[r].val[n] = dtv[s].val[k]
            PROVE  r = s /\ n = k
        BY <2>6, <4>3, <4>4
      <4> QED BY <2>7, <4>1, <4>3, <4>4
    <3> QED BY <3>1, <3>2, Zenon
  <2>14. ASSUME NEW b \in DOMAIN heap', ~heap'[b]
         PROVE  \E s \in Thread : \E k \in 1 .. dtv[s].size : dtv'[s].val[k] = b
    <3>1. CASE b = B
      BY <1>2, <2>6, <3>1, Zenon
    <3>2. CASE b \in DOMAIN heap
      <4>1. ~heap[b] /\ b > 0
        BY <1>1, <2>7, <2>14, <3>2 DEF HeapInv
      <4>2. PICK s \in Thread : \E k \in 1 .. dtv[s].size : dtv[s].val[k] = b
        BY <1>1, <3>2, <4>1, Zenon DEF HeapInv
      <4>3. PICK k \in 1 .. dtv[s].size : dtv[s].val[k] = b
        BY <4>2, Zenon
      <4>4. ~(s = t /\ k = m)
        BY <1>4, <4>1, <4>3 DEF Unallocated
      <4>5. dtv'[s].val[k] = b
        BY <2>6, <4>3, <4>4, Zenon
      <4> QED BY <4>5, Zenon
    <3> QED BY <2>7, <3>1, <3>2, Zenon
  <2>15. HeapInv'
    <3>1. \A s \in Thread : dtv'[s].size = dtv[s].size
      BY <2>6, Zenon
    <3> QED BY <1>2, <2>11, <2>13, <2>14, <3>1 DEF HeapInv
  <2> QED BY <2>9, <2>10, <2>15, Zenon DEF TlsInv
<1> QED BY <1>3, <1>4, GetAddr, Zenon

(* The end of a thread                                                     *)
LEMMA FreeStep ==
  ASSUME TlsInv, NEW t \in Thread, free(t)
  PROVE  TlsInv'
<1>1. TlsTypes /\ OffsetInv /\ DtvInv /\ HeapInv
  BY DEF TlsInv
<1>2. /\ state[t] = "running" /\ dtv' = [dtv EXCEPT ![t] = NoDtv] /\ state' = [state EXCEPT ![t] = "none"]
      /\ UNCHANGED <<gen, modules, initial_count, initial_align, initial_size>>
  BY Zenon DEF free, static
<1>3. DOMAIN heap' = DOMAIN heap \ Freed(dtv[t]) /\ \A b \in DOMAIN heap' : heap'[b] = heap[b]
  BY Zenon DEF free
<1>4. NoDtv \in Dtvs /\ NoDtv.size = 0
  BY DEF NoDtv, Dtvs
<1>5. /\ state'[t] = "none" /\ dtv'[t] = NoDtv
      /\ \A s \in Thread \ {t} : state'[s] = state[s] /\ dtv'[s] = dtv[s]
  BY <1>1, <1>2, Zenon DEF TlsTypes
<1>6. TlsTypes' /\ OffsetInv'
  BY <1>1, <1>2, <1>4, Zenon DEF TlsTypes, OffsetInv
<1>7. DtvInv'
  BY <1>1, <1>2, <1>5 DEF DtvInv
<1>8. DOMAIN heap' \subseteq Nat \ {0} /\ IsFiniteSet(DOMAIN heap')
  BY <1>1, <1>3, FS_Subset, Zenon DEF HeapInv
<1>9. ASSUME NEW s \in Thread, NEW k \in 1 .. dtv'[s].size
      PROVE  s # t /\ dtv'[s] = dtv[s] /\ k \in 1 .. dtv[s].size
  <2>1. s # t
    BY <1>4, <1>5
  <2> QED BY <1>5, <2>1, Zenon
<1>10. ASSUME NEW s \in Thread, NEW k \in 1 .. dtv'[s].size, dtv'[s].val[k] > 0
       PROVE  /\ dtv'[s].val[k] \in DOMAIN heap' /\ k \in initial_count + 1 .. Len(modules)
              /\ k = dtv'[s].size => heap'[dtv'[s].val[k]]
              /\ \A r \in Thread : \A n \in 1 .. dtv'[r].size : dtv'[r].val[n] = dtv'[s].val[k] => r = s /\ n = k
  <2>1. s # t /\ dtv'[s] = dtv[s] /\ k \in 1 .. dtv[s].size /\ dtv[s].val[k] > 0
    BY <1>9, <1>10, Zenon
  <2>2. /\ dtv[s].val[k] \in DOMAIN heap /\ k \in initial_count + 1 .. Len(modules)
        /\ k = dtv[s].size => heap[dtv[s].val[k]]
        /\ \A r \in Thread : \A n \in 1 .. dtv[r].size : dtv[r].val[n] = dtv[s].val[k] => r = s /\ n = k
    BY <1>1, <2>1, Zenon DEF HeapInv
  <2>3. dtv[s].val[k] \notin Freed(dtv[t])
    <3>1. dtv[t].size \in Nat /\ initial_count \in Nat
      BY <1>1, DtvFacts DEF TlsTypes
    <3>2. \A n \in initial_count + 1 .. dtv[t].size - 1 : n \in 1 .. dtv[t].size
      BY <3>1
    <3> QED BY <2>1, <2>2, <3>2, Zenon DEF Freed
  <2> QED BY <1>3, <1>9, <2>1, <2>2, <2>3
<1>11. ASSUME NEW b \in DOMAIN heap', ~heap'[b]
       PROVE  \E s \in Thread : \E k \in 1 .. dtv'[s].size : dtv'[s].val[k] = b
  <2>1. b \in DOMAIN heap /\ ~heap[b] /\ b \notin Freed(dtv[t]) /\ b > 0
    BY <1>1, <1>3, <1>11 DEF HeapInv
  <2>2. PICK s \in Thread : \E k \in 1 .. dtv[s].size : dtv[s].val[k] = b
    BY <1>1, <2>1, Zenon DEF HeapInv
  <2>3. PICK k \in 1 .. dtv[s].size : dtv[s].val[k] = b
    BY <2>2, Zenon
  <2>4. k \in initial_count + 1 .. Len(modules) /\ k # dtv[s].size
    BY <1>1, <2>1, <2>3, Zenon DEF HeapInv
  <2>5. s # t
    <3>1. dtv[t].size \in Nat /\ initial_count \in Nat
      BY <1>1, DtvFacts DEF TlsTypes
    <3>2. s = t => k \in initial_count + 1 .. dtv[t].size - 1
      BY <2>4, <3>1
    <3> QED BY <2>1, <2>3, <3>2, Zenon DEF Freed
  <2> QED BY <1>5, <2>3, <2>5, Zenon
<1>12. HeapInv'
  BY <1>2, <1>8, <1>10, <1>11 DEF HeapInv
<1> QED BY <1>6, <1>7, <1>12, Zenon DEF TlsInv

(* TlsInv holds in all states.                                             *)
LEMMA TlsInvariant == TlsSpec => []TlsInv
<1>1. TlsInit => TlsInv
  <2> SUFFICES ASSUME TlsInit PROVE TlsInv
    BY Zenon
  <2>1. NoDtv \in Dtvs /\ NoDtv.size = 0
    BY DEF NoDtv, Dtvs
  <2>2. /\ initial_count = 0 /\ modules = <<>> /\ gen = 0 /\ initial_align = 1 /\ initial_size = 0
        /\ DOMAIN heap = {} /\ state \in [Thread -> {"none", "allocated", "running"}]
        /\ dtv \in [Thread -> Dtvs] /\ \A t \in Thread : state[t] = "none" /\ dtv[t] = NoDtv
    BY <2>1 DEF TlsInit
  <2>3. TlsTypes
    BY <2>2, TlsAssumption DEF TlsTypes
  <2>4. 1 .. initial_count = {} /\ 1 .. NoDtv.size = {}
    BY <2>1, <2>2
  <2>5. OffsetInv /\ DtvInv
    BY <2>2, <2>4, Zenon DEF OffsetInv, DtvInv
  <2>6. HeapInv
    BY <2>2, <2>4, FS_EmptySet, Zenon DEF HeapInv
  <2> QED BY <2>3, <2>5, <2>6, Zenon DEF TlsInv
<1>2. TlsInv /\ [TlsNext]_tlsVars => TlsInv'
  <2> SUFFICES ASSUME TlsInv, [TlsNext]_tlsVars
               PROVE  TlsInv'
    BY Zenon
  <2>1. ASSUME NEW o \in Object, add_module(o) PROVE TlsInv'
    BY <2>1, AddStep, Zenon
  <2>2. ASSUME NEW t \in Thread, allocate(t) \/ dtv_setup(t) \/ free(t) PROVE TlsInv'
    BY <2>2, AllocateStep, SetupStep, FreeStep, Zenon
  <2>3. ASSUME NEW t \in Thread, NEW m \in 1 .. MaxModules, get_addr(t, m) PROVE TlsInv'
    BY <2>3, GetStep, Zenon
  <2>4. CASE UNCHANGED tlsVars
    BY <2>4 DEF tlsVars, static, TlsInv, TlsTypes, OffsetInv, DtvInv, HeapInv
  <2> QED BY <2>1, <2>2, <2>3, <2>4, Zenon DEF TlsNext
<1> QED BY <1>1, <1>2, PTL DEF TlsSpec

(* The blocks TLS::add_module has placed are apart, and the memory that    *)
(* TLS::allocate and glibc reserve holds them.                             *)
LEMMA BlocksFit ==
  ASSUME TlsInv
  PROVE  StaticBlocksFit
<1>1. TlsTypes /\ OffsetInv
  BY Zenon DEF TlsInv
<1>2. /\ initial_size \in Nat /\ initial_align \in Nat \ {0} /\ Surplus \in Nat /\ ThreadSize \in Nat
  BY <1>1, TlsAssumption, Zenon DEF TlsTypes
<1>3. ASSUME NEW m \in 1 .. initial_count
      PROVE  /\ modules[m].offset \in Nat /\ Size[modules[m].object] \in Nat
             /\ Size[modules[m].object] <= modules[m].offset /\ modules[m].offset <= initial_size
  <2>1. m \in 1 .. Len(modules)
    BY <1>1 DEF TlsTypes
  <2>2. modules[m] \in Modules
    BY <1>1, <2>1 DEF TlsTypes
  <2>3. modules[m].offset \in Nat /\ Size[modules[m].object] \in Nat
    BY <2>2, TlsAssumption, Zenon DEF Modules
  <2> QED BY <1>1, <2>3, Zenon DEF OffsetInv
<1>4. ASSUME NEW m \in 1 .. initial_count, NEW n \in 1 .. initial_count, m < n
      PROVE  Block(m) \cap Block(n) = {}
  <2>1. modules[m].offset + Size[modules[n].object] <= modules[n].offset
    BY <1>1, <1>4, Zenon DEF OffsetInv
  <2> QED BY <1>3, <2>1 DEF Block
<1>5. ASSUME NEW m \in 1 .. initial_count, NEW n \in 1 .. initial_count, m # n
      PROVE  Block(m) \cap Block(n) = {}
  <2>1. m < n \/ n < m
    BY <1>1, <1>5 DEF TlsTypes
  <2> QED BY <1>4, <2>1, Zenon
<1>6. ASSUME NEW m \in 1 .. initial_count, NEW x \in Block(m)
      PROVE  x < 0
  BY <1>3 DEF Block
<1>7. ASSUME NEW m \in 1 .. initial_count
      PROVE  ThreadSize + modules[m].offset <= static_size
  <2> DEFINE up == align_up(initial_size + Surplus, initial_align)
  <2>1. initial_size + Surplus \in Nat
    BY <1>2
  <2>2. up \in Nat /\ initial_size + Surplus <= up
    BY <1>2, <2>1, AlignUp, Zenon
  <2>3. static_size = up + ThreadSize
    BY Zenon DEF static_size
  <2> HIDE DEF up
  <2> QED BY <1>2, <1>3, <2>2, <2>3
<1>8. ASSUME NEW m \in 1 .. initial_count, NEW mem \in 0 .. initial_align - 1
      PROVE  /\ mem <= ThreadAt(mem) - modules[m].offset
             /\ ThreadAt(mem) + ThreadSize <= mem + Allocated
  <2>1. mem \in Nat /\ mem + initial_size + Surplus \in Nat
    BY <1>2
  <2>2. /\ ThreadAt(mem) \in Nat /\ mem + initial_size + Surplus <= ThreadAt(mem)
        /\ ThreadAt(mem) < mem + initial_size + Surplus + initial_align
    BY <1>2, <2>1, AlignUp, Zenon DEF ThreadAt
  <2> QED BY <1>2, <1>3, <2>1, <2>2 DEF Allocated
<1> QED BY <1>5, <1>6, <1>7, <1>8, Zenon DEF StaticBlocksFit

(* Blocks that TLS::get_addr has allocated have one owner.                 *)
LEMMA OneOwner ==
  ASSUME TlsInv
  PROVE  DtvSound
<1>1. TlsTypes /\ DtvInv /\ HeapInv
  BY Zenon DEF TlsInv
<1>2. ASSUME NEW t \in Thread, state[t] = "running", Len(modules) <= MinDtv
      PROVE  Len(modules) <= dtv[t].size
  <2>1. MinDtv <= dtv[t].size
    BY <1>1, <1>2, Zenon DEF DtvInv
  <2>2. Len(modules) \in Nat /\ dtv[t].size \in Nat
    BY <1>1, DtvFacts DEF TlsTypes
  <2> QED BY <1>2, <2>1, <2>2, TlsAssumption
<1>3. ASSUME NEW b \in DOMAIN heap
      PROVE  Cardinality(Owners(b)) = 1 \/ (Cardinality(Owners(b)) = 0 /\ heap[b])
  <2>1. b > 0
    BY <1>1 DEF HeapInv
  <2>2. CASE Owners(b) = {}
    <3>1. Cardinality(Owners(b)) = 0
      BY <2>2, FS_EmptySet, Zenon
    <3>2. ASSUME NEW t \in Thread, NEW m \in 1 .. dtv[t].size, dtv[t].val[m] = b PROVE FALSE
      <4>1. m \in initial_count + 1 .. Len(modules)
        BY <1>1, <2>1, <3>2, Zenon DEF HeapInv
      <4>2. dtv[t].size \in Nat
        BY <1>1, DtvFacts, Zenon
      <4>3. m \in 1 .. MaxModules /\ m <= dtv[t].size
        BY <1>1, <4>1, <4>2, TlsAssumption DEF TlsTypes
      <4>4. <<t, m>> \in Owners(b)
        BY <3>2, <4>3, Zenon DEF Owners
      <4> QED BY <2>2, <4>4, Zenon
    <3> QED BY <1>1, <3>1, <3>2 DEF HeapInv
  <2>3. CASE Owners(b) # {}
    <3>1. ASSUME NEW e \in Owners(b)
          PROVE  /\ e = <<e[1], e[2]>> /\ e[1] \in Thread /\ e[2] \in 1 .. dtv[e[1]].size
                 /\ dtv[e[1]].val[e[2]] = b
      <4>1. e \in Thread \X (1 .. MaxModules) /\ e[2] <= dtv[e[1]].size /\ dtv[e[1]].val[e[2]] = b
        BY Zenon DEF Owners
      <4>2. e = <<e[1], e[2]>> /\ e[1] \in Thread /\ e[2] \in 1 .. MaxModules
        BY <4>1
      <4>3. dtv[e[1]].size \in Nat
        BY <1>1, <4>2, DtvFacts, Zenon
      <4> QED BY <4>1, <4>2, <4>3
    <3>2. PICK f \in Owners(b) : TRUE
      BY <2>3, Zenon
    <3>3. ASSUME NEW e \in Owners(b) PROVE e = f
      <4>1. e[1] = f[1] /\ e[2] = f[2]
        BY <1>1, <2>1, <3>1, <3>2 DEF HeapInv
      <4> QED BY <3>1, <3>2, <4>1, Zenon
    <3>4. Owners(b) = {f}
      BY <3>2, <3>3, Zenon
    <3> QED BY <3>4, FS_Singleton, Zenon
  <2> QED BY <2>2, <2>3, Zenon
<1> QED BY <1>2, <1>3, Zenon DEF DtvSound

(* TLS::add_module places the initial blocks apart, and TLS::get_addr      *)
(* finds an entry in the dtv and loses no block.                           *)
THEOREM BlocksCorrect == TlsSpec => []BlocksSound
<1>1. TlsInv => BlocksSound
  BY BlocksFit, OneOwner, Zenon DEF BlocksSound
<1> QED BY <1>1, TlsInvariant, PTL

(* TLS::get_addr: the address of a variable does not change while its      *)
(* thread runs.                                                            *)
THEOREM AddressesDoNotChange == TlsSpec => AddressesStable
<1>1. TlsInv /\ [TlsNext]_tlsVars => [AddressesKept]_tlsVars
  <2> SUFFICES ASSUME TlsInv, TlsNext, NEW t \in Thread, NEW k \in DOMAIN dtv[t].val,
                      state[t] = "running", state'[t] = "running", dtv[t].val[k] # Unallocated
               PROVE  dtv'[t].val[k] = dtv[t].val[k]
    BY Zenon DEF AddressesKept
  <2>1. /\ k \in 1 .. dtv[t].size /\ dtv \in [Thread -> Dtvs] /\ state \in [Thread -> {"none", "allocated", "running"}]
    BY DtvFacts, Zenon DEF TlsInv, TlsTypes
  <2>2. ASSUME NEW o \in Object, add_module(o) PROVE dtv' = dtv
    BY <2>2, Zenon DEF add_module
  <2>3. ASSUME NEW s \in Thread, allocate(s) PROVE dtv'[t] = dtv[t]
    <3>1. s # t
      BY <2>3, Zenon DEF allocate
    <3> QED BY <2>1, <2>3, <3>1, Zenon DEF allocate
  <2>4. ASSUME NEW s \in Thread, dtv_setup(s) PROVE dtv'[t] = dtv[t]
    <3>1. s # t
      BY <2>4, Zenon DEF dtv_setup
    <3> QED BY <2>1, <2>4, <3>1, Zenon DEF dtv_setup
  <2>5. ASSUME NEW s \in Thread, free(s) PROVE dtv'[t] = dtv[t]
    <3>1. s # t
      BY <2>1, <2>5, Zenon DEF free
    <3> QED BY <2>1, <2>5, <3>1, Zenon DEF free
  <2>6. ASSUME NEW s \in Thread, NEW m, get_addr(s, m) PROVE dtv'[t].val[k] = dtv[t].val[k]
    <3>1. CASE dtv' = dtv
      BY <3>1, Zenon
    <3>2. CASE dtv[s].val[m] = Unallocated /\
               dtv' = [dtv EXCEPT ![s] = [gen |-> 1, size |-> dtv[s].size,
                                          val |-> [dtv[s].val EXCEPT ![m] = NewBlock]]]
      <4>1. CASE s = t
        <5>1. k # m
          BY <3>2, <4>1, Zenon
        <5>2. dtv'[t].val = [dtv[t].val EXCEPT ![m] = NewBlock]
          BY <2>1, <3>2, <4>1, Zenon
        <5> QED BY <5>1, <5>2, Zenon
      <4>2. CASE s # t
        BY <2>1, <3>2, <4>2, Zenon
      <4> QED BY <4>1, <4>2, Zenon
    <3> QED BY <2>6, <3>1, <3>2, GetAddr, Zenon
  <2> QED BY <2>2, <2>3, <2>4, <2>5, <2>6, Zenon DEF TlsNext
<1> QED BY <1>1, TlsInvariant, PTL DEF TlsSpec, AddressesStable
=============================================================================
