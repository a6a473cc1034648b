-------------------------------- MODULE TLS --------------------------------
(***************************************************************************)
(* Thread-local storage: objects with a PT_TLS segment become modules.     *)
(* Those loaded before the start of the program have a block at a fixed    *)
(* distance below the thread pointer of each thread, the others get a heap *)
(* block in a thread when it first uses them.  The dtv of a thread has one *)
(* pointer for each module; its length is fixed when the thread starts.    *)
(*                                                                         *)
(* Each action is one critical section of TLS::lock.                       *)
(***************************************************************************)
EXTENDS Integers, Sequences, FiniteSets

CONSTANTS
  Object,      \* objects with thread-local storage
  Size,        \* Object -> size of its block
  Align,       \* Object -> alignment of its block
  Thread,      \* threads; main_thread is one of them
  main_thread,
  MinDtv,      \* 16 in the code: least capacity of a dtv
  MinAlign,    \* 64 in the code: least alignment of a thread structure
  Surplus,     \* bytes reserved for glibc
  ThreadSize,  \* sizeof(Thread)
  MaxModules,  \* bound on the number of modules
  MaxBlocks    \* bound on the number of heap blocks

(* Only segments with a size greater than 0 become modules.                *)
ASSUME TlsAssumption ==
  /\ Size \in [Object -> Nat \ {0}] /\ Align \in [Object -> Nat]
  /\ MinDtv \in Nat /\ MinAlign \in Nat /\ Surplus \in Nat /\ ThreadSize \in Nat
  /\ MaxModules \in Nat /\ main_thread \in Thread

VARIABLES
  gen,            \* 0 before the first dtv_setup, 1 from then on
  modules,        \* sequence of [object, offset]
  initial_count,
  initial_align,
  initial_size,
  state,          \* Thread -> "none", "allocated" (no dtv_setup yet), "running"
  dtv,            \* Thread -> [gen, size, val: module id -> pointer]
  heap            \* heap block -> is it for the last entry of a dtv?

static == <<initial_count, initial_align, initial_size>>
tlsVars == <<gen, modules, static, state, dtv, heap>>

Unallocated == 0
NoDtv == [gen |-> 0, size |-> 0, val |-> <<>>]

align_up(n, a) == ((n + a - 1) \div a) * a
Larger(a, b) == IF a < b THEN b ELSE a

WithModule == {modules[i].object : i \in DOMAIN modules}

TlsInit ==
  /\ gen = 0 /\ modules = <<>>
  /\ initial_count = 0 /\ initial_align = 1 /\ initial_size = 0
  /\ state = [t \in Thread |-> "none"]
  /\ dtv = [t \in Thread |-> NoDtv]
  /\ heap = <<>>

(* add_module, called when the first version of an object with PT_TLS is   *)
(* loaded; nothing is loaded while prepare sets up the main thread.        *)
add_module(o) ==
  /\ o \notin WithModule /\ Len(modules) < MaxModules
  /\ state[main_thread] # "allocated"
  /\ IF gen = 0
     THEN /\ initial_count' = initial_count + 1
          /\ initial_align' = Larger(initial_align, Align[o])
          /\ initial_size' = initial_size + align_up(Size[o], initial_align')
          /\ modules' = Append(modules, [object |-> o, offset |-> initial_size'])
     ELSE /\ modules' = Append(modules, [object |-> o, offset |-> 0])
          /\ UNCHANGED static
  /\ UNCHANGED <<gen, state, dtv, heap>>

(* The new size of a dtv                                                   *)
capacity == Larger(2 * Len(modules), MinDtv)

(* dtv_allocate: what is there is kept, the rest is unallocated            *)
dtv_allocate(d) ==
  [d EXCEPT !.size = capacity,
            !.val = [m \in 1 .. capacity |-> IF m <= d.size THEN d.val[m] ELSE Unallocated]]

(* TLS::allocate, by prepare for the main thread (with its structure) and  *)
(* by _dl_allocate_tls for a thread that a running one creates             *)
allocate(t) ==
  /\ state[t] = "none"
  /\ t = main_thread \/ \E s \in Thread : state[s] = "running"
  /\ initial_align' = IF t = main_thread THEN Larger(initial_align, MinAlign) ELSE initial_align
  /\ dtv' = [dtv EXCEPT ![t] = dtv_allocate(@)]
  /\ state' = [state EXCEPT ![t] = "allocated"]
  /\ UNCHANGED <<gen, modules, initial_count, initial_size, heap>>

(* dtv_setup: the pointers of the initial modules lead below the thread    *)
dtv_setup(t) ==
  /\ state[t] = "allocated"
  /\ gen' = 1
  /\ dtv' = [dtv EXCEPT ![t].gen = 1,
                        ![t].val = [m \in DOMAIN @ |-> IF m <= initial_count
                                                       THEN -modules[m].offset ELSE @[m]]]
  /\ state' = [state EXCEPT ![t] = "running"]
  /\ UNCHANGED <<modules, static, heap>>

(* Memory::alloc: a heap block that is not in use                          *)
NewBlock == CHOOSE b \in 1 .. Cardinality(DOMAIN heap) + 1 : b \notin DOMAIN heap

(* A new block for module m, in a dtv of some size                         *)
Alloc(m, size) ==
  /\ Cardinality(DOMAIN heap) < MaxBlocks
  /\ heap' = [b \in DOMAIN heap \cup {NewBlock} |->
                IF b = NewBlock THEN m = size ELSE heap[b]]

(* Mutant: a block is allocated on each access.                            *)
get_addrAlways(t, m) ==
  /\ state[t] = "running" /\ m \in DOMAIN modules /\ m <= dtv[t].size
  /\ IF m > initial_count
     THEN /\ Alloc(m, dtv[t].size)
          /\ dtv' = [dtv EXCEPT ![t].val[m] = NewBlock]
     ELSE UNCHANGED <<heap, dtv>>
  /\ UNCHANGED <<gen, modules, static, state>>

(* get_addr with alloc, by __tls_get_addr and tls_address: the dtv grows   *)
(* if its generation is old, and a missing block is allocated.             *)
get_addr(t, m) ==
  /\ state[t] = "running" /\ m \in DOMAIN modules
  /\ LET old == dtv[t].gen # gen
         d == IF old /\ dtv[t].size < Len(modules) THEN dtv_allocate(dtv[t]) ELSE dtv[t]
     IN /\ m <= d.size
        /\ IF d.val[m] = Unallocated
           THEN /\ Alloc(m, d.size)
                /\ dtv' = [dtv EXCEPT ![t] = [d EXCEPT !.gen = gen, !.val[m] = NewBlock]]
           ELSE dtv' = [dtv EXCEPT ![t] = [d EXCEPT !.gen = gen]] /\ UNCHANGED heap
  /\ UNCHANGED <<gen, modules, static, state>>

(* Mutant: the loop of dtv_free begins one late.                           *)
FreedLate(d) == {d.val[m] : m \in initial_count + 2 .. d.size - 1}

(* The blocks dtv_free frees: its loop ends before the last entry.         *)
Freed(d) == {d.val[m] : m \in initial_count + 1 .. d.size - 1}

(* TLS::free, by _dl_deallocate_tls for a thread that has ended            *)
free(t) ==
  /\ state[t] = "running" /\ t # main_thread
  /\ heap' = [b \in DOMAIN heap \ Freed(dtv[t]) |-> heap[b]]
  /\ dtv' = [dtv EXCEPT ![t] = NoDtv]
  /\ state' = [state EXCEPT ![t] = "none"]
  /\ UNCHANGED <<gen, modules, static>>

TlsNext ==
  \/ \E o \in Object : add_module(o)
  \/ \E t \in Thread : allocate(t) \/ dtv_setup(t) \/ free(t)
  \/ \E t \in Thread : \E m \in 1 .. MaxModules : get_addr(t, m)

TlsSpec == TlsInit /\ [][TlsNext]_tlsVars

-----------------------------------------------------------------------------
(* Where the thread structure ends up in memory of allocate that begins at *)
(* mem, and how much allocate asks for                                     *)
ThreadAt(mem) == align_up(mem + initial_size + Surplus, initial_align)
Allocated == initial_size + ThreadSize + Surplus + initial_align

(* init_globals_tls: _dl_tls_static_size, what glibc reserves for a thread *)
static_size == align_up(initial_size + Surplus, initial_align) + ThreadSize

Block(m) == (-modules[m].offset) .. (-modules[m].offset + Size[modules[m].object] - 1)

(* The blocks of the initial modules are disjoint and below the thread     *)
(* pointer, and the memory reserved for a thread holds all of them,        *)
(* whatever the order in which add_module has met sizes and alignments.    *)
StaticBlocksFit ==
  /\ \A m, n \in 1 .. initial_count : m # n => Block(m) \cap Block(n) = {}
  /\ \A m \in 1 .. initial_count :
       /\ \A x \in Block(m) : x < 0
       /\ ThreadSize + modules[m].offset <= static_size
       /\ \A mem \in 0 .. initial_align - 1 :
            /\ mem <= ThreadAt(mem) - modules[m].offset
            /\ ThreadAt(mem) + ThreadSize <= mem + Allocated

(* The entries of the dtvs with block b                                    *)
Owners(b) == {e \in Thread \X (1 .. MaxModules) :
                e[2] <= dtv[e[1]].size /\ dtv[e[1]].val[e[2]] = b}

(* get_addr's assert(module_id <= dtv_module_size(thread->dtv)): although  *)
(* gen is never raised and a dtv never grows, each running thread can use  *)
(* each of the first MinDtv modules (not more: the assertion fails for the *)
(* next one).  Each heap block belongs to one entry of one dtv of a running*)
(* thread: no access loses a block, and the end of a thread frees all of   *)
(* its blocks, but for the one in the last entry, which dtv_free leaves.   *)
DtvSound ==
  /\ \A t \in Thread : state[t] = "running" /\ Len(modules) <= MinDtv =>
       Len(modules) <= dtv[t].size
  /\ \A b \in DOMAIN heap :
       LET owners == Cardinality(Owners(b)) IN owners = 1 \/ (owners = 0 /\ heap[b])

(* TLS::add_module places the initial blocks apart, and TLS::get_addr      *)
(* finds an entry in the dtv and loses no block.                           *)
BlocksSound == StaticBlocksFit /\ DtvSound

(* The address of a variable is what it was                                *)
AddressesKept ==
  \A t \in Thread : \A m \in DOMAIN dtv[t].val :
    state[t] = "running" /\ state'[t] = "running" /\ dtv[t].val[m] # Unallocated =>
      dtv'[t].val[m] = dtv[t].val[m]

(* TLS::get_addr: the address of a thread-local variable never changes     *)
(* while its thread lives, whatever is loaded and whatever threads come    *)
(* and go.                                                                 *)
AddressesStable == [][AddressesKept]_tlsVars
=============================================================================
