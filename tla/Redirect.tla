------------------------------ MODULE Redirect ------------------------------
(***************************************************************************)
(* Redirection of code that is running: an update overwrites the start of  *)
(* an old function by a trap instruction; the signal handler of a thread   *)
(* that hits it continues in the new function; when every task has hit the *)
(* trap, the handler of the last one replaces it by a jump, which is       *)
(* longer than a trap and overwrites instructions a task might be in.      *)
(*                                                                         *)
(* Two locks are involved: redirection_sync guards the entries, while the  *)
(* update that adds them holds lookup_sync and finalizes the segment later.*)
(***************************************************************************)
EXTENDS Naturals, FiniteSets

CONSTANTS
  Task,       \* threads of the process, the helper excepted
  Site,       \* functions of one segment that get redirected
  StaticSite, \* those with enough room for a jump
  Offset,     \* traps[mode].offset: how far rip is past the trap
  MaxTarget   \* bound on the number of new versions

ASSUME RedirectAssumption ==
  /\ Site # {} /\ StaticSite \subseteq Site
  /\ Offset \in {0, 1}
  /\ MaxTarget \in Nat
  /\ "nobody" \notin Task

VARIABLES
  mem,      \* Site -> code at the start of the function, in memory
  buf,      \* the same in the back buffer of the segment
  composed, \* is there a back buffer?
  entry,    \* Site -> 1 .. MaxTarget -> the RedirectionEntry of that update
  current,  \* Site -> the one in redirection_entries, 0 if there is none
  writer,   \* who holds redirection_sync as writer
  updating, \* is an update running (under lookup_sync)?
  target,   \* latest version
  alive,    \* tasks in /proc/self/task
  pc,       \* Task -> where the task is
  at,       \* Task -> site it is at, if it is not outside
  ref       \* Task -> the entry its handler refers to

code == <<mem, buf, composed>>
table == <<entry, current, writer>>
progress == <<updating, target>>
tasks == <<alive, pc, at, ref>>
vars == <<code, table, progress, tasks>>

Version == 1 .. MaxTarget
Nobody == "nobody"

(* Code: the original function, the trap, or a jump to a version           *)
Old == [op |-> "old", to |-> 0]
Trap == [op |-> "trap", to |-> 0]
Jump(v) == [op |-> "jump", to |-> v]

(* Mutant: one task that has trapped is enough.                            *)
AnyTask(tids) == tids # {}
(* all_tasks: nobody is missing in tids                                    *)
all_tasks(tids) == alive \subseteq tids

(* compose_pointer and a write to it                                       *)
Composed(s, c) ==
  [x \in Site |-> IF x = s THEN c ELSE IF composed THEN buf[x] ELSE mem[x]]

-----------------------------------------------------------------------------
Init ==
  /\ mem = [s \in Site |-> Old]
  /\ buf = [s \in Site |-> Old] /\ composed = FALSE
  /\ entry = [s \in Site |-> [v \in Version |-> [to |-> v, type |-> "ONLY_DYNAMIC", tids |-> {}]]]
  /\ current = [s \in Site |-> 0]
  /\ writer = Nobody
  /\ updating = FALSE /\ target = 0
  /\ alive \in (SUBSET Task) \ {{}}
  /\ pc = [t \in Task |-> "outside"]
  /\ at = [t \in Task |-> CHOOSE s \in Site : TRUE]
  /\ ref = [t \in Task |-> 0]

(* A new version has been loaded and the update begins.                    *)
NewVersion ==
  /\ ~updating /\ target < MaxTarget
  /\ updating' = TRUE /\ target' = target + 1
  /\ UNCHANGED <<code, table, tasks>>

Current(s) == entry[s][current[s]]

(* Mutant: the entry of an earlier redirection is erased, and the new one  *)
(* is not inserted over it.                                                *)
addErases(s) ==
  /\ updating /\ writer = Nobody /\ current[s] < target
  /\ entry' = [entry EXCEPT ![s][target].type = IF s \in StaticSite THEN "MAKE_STATIC" ELSE "ONLY_DYNAMIC"]
  /\ current' = [current EXCEPT ![s] = IF @ = 0 THEN target ELSE 0]
  /\ buf' = Composed(s, Trap) /\ composed' = TRUE
  /\ UNCHANGED <<mem, writer, progress, tasks>>

(* Redirect::add, called by update_redirect without finalize: the new      *)
(* entry replaces an earlier one and forgets its tids.  A jump that is     *)
(* there already is changed at once, with whatever else is composed.       *)
add(s) ==
  /\ updating /\ writer = Nobody
  /\ IF current[s] # 0 /\ Current(s).type = "MADE_STATIC"
     THEN /\ Current(s).to < target
          /\ entry' = [entry EXCEPT ![s][current[s]].to = target]
          /\ mem' = Composed(s, Jump(target)) /\ composed' = FALSE
          /\ UNCHANGED <<buf, current>>
     ELSE /\ current[s] < target
          /\ entry' = [entry EXCEPT ![s][target].type =
                         IF s \in StaticSite THEN "MAKE_STATIC" ELSE "ONLY_DYNAMIC"]
          /\ current' = [current EXCEPT ![s] = target]
          /\ buf' = Composed(s, Trap) /\ composed' = TRUE
          /\ UNCHANGED mem
  /\ UNCHANGED <<writer, progress, tasks>>

(* The update ends: Loader::relocate finalizes the segment.                *)
Finalize ==
  /\ updating /\ updating' = FALSE
  /\ mem' = IF composed THEN buf ELSE mem
  /\ composed' = FALSE
  /\ UNCHANGED <<buf, table, target, tasks>>

-----------------------------------------------------------------------------
(* The tasks                                                               *)

Moved(t, place) == pc' = [pc EXCEPT ![t] = place]

Clone(t) ==
  /\ t \notin alive /\ alive # {}
  /\ alive' = alive \cup {t}
  /\ UNCHANGED <<code, table, progress, pc, at, ref>>

Exit(t) ==
  /\ t \in alive /\ pc[t] = "outside" /\ alive # {t}
  /\ alive' = alive \ {t}
  /\ UNCHANGED <<code, table, progress, pc, at, ref>>

Call(t, s) ==
  /\ t \in alive /\ pc[t] = "outside"
  /\ at' = [at EXCEPT ![t] = s]
  /\ Moved(t, "entry")
  /\ UNCHANGED <<code, table, progress, alive, ref>>

(* The first instruction of the function                                   *)
Execute(t) ==
  /\ pc[t] = "entry"
  /\ \/ mem[at[t]].op = "old" /\ Moved(t, "inside")
     \/ mem[at[t]].op = "trap" /\ Moved(t, "trapped")
     \/ mem[at[t]].op = "jump" /\ Moved(t, "outside")
  /\ UNCHANGED <<code, table, progress, alive, at, ref>>

(* The instructions after it, which a jump overwrites                      *)
Leave(t) ==
  /\ pc[t] = "inside" /\ mem[at[t]].op # "jump"
  /\ Moved(t, "outside")
  /\ UNCHANGED <<code, table, progress, alive, at, ref>>

(* Mutant: a trap that is gone is taken for one that has been handled.     *)
SkipInstruction(t) == Moved(t, "torn")
(* trap_handler returns and rip is what it was: at the instruction, or     *)
(* behind the trap and inside of what has replaced it.                     *)
NotRedirected(t) == Moved(t, IF Offset = 0 THEN "entry" ELSE "torn")

(* trap_handler up to read_lock: is the trap still there?                  *)
HandlerCheck(t) ==
  /\ pc[t] = "trapped"
  /\ IF mem[at[t]].op = "trap" THEN Moved(t, "checked") ELSE NotRedirected(t)
  /\ UNCHANGED <<code, table, progress, alive, at, ref>>

(* trap_handler with the read lock: rip becomes the target of the entry; a *)
(* task that is missing in tids goes on to take the write lock.            *)
HandlerRead(t) ==
  /\ pc[t] = "checked" /\ writer = Nobody
  /\ LET s == at[t]
         missing == Current(s).type = "MAKE_STATIC" /\ t \notin Current(s).tids
     IN IF current[s] = 0
        THEN NotRedirected(t) /\ UNCHANGED ref
        ELSE \/ missing /\ Moved(t, "gap") /\ ref' = [ref EXCEPT ![t] = current[s]]
             \/ ~missing /\ Moved(t, "outside") /\ UNCHANGED ref
  /\ UNCHANGED <<code, table, progress, alive, at>>

(* trap_handler with the write lock: the task is recorded, and the last    *)
(* one composes the jump.  If add has replaced the entry in between, the   *)
(* reference dangles and leads to what was there or to the entry that took *)
(* its place.                                                              *)
HandlerInsert(t) ==
  /\ pc[t] = "gap" /\ writer = Nobody
  /\ \E v \in {ref[t], current[at[t]]} :
       LET s == at[t]
           tids == entry[s][v].tids \cup {t}
       IN /\ entry' = [entry EXCEPT ![s][v].tids = tids]
          /\ ref' = [ref EXCEPT ![t] = v]
          /\ IF all_tasks(tids)
             THEN /\ writer' = t /\ Moved(t, "static")
                  /\ buf' = Composed(s, Jump(entry[s][v].to)) /\ composed' = TRUE
             ELSE /\ Moved(t, "outside")
                  /\ UNCHANGED <<writer, buf, composed>>
  /\ UNCHANGED <<mem, current, progress, alive, at>>

(* static_redirect ends with finalize, unless the update has been faster.  *)
HandlerStatic(t) ==
  /\ pc[t] = "static"
  /\ mem' = IF composed THEN buf ELSE mem
  /\ composed' = FALSE
  /\ entry' = [entry EXCEPT ![at[t]][ref[t]].type = "MADE_STATIC"]
  /\ writer' = Nobody
  /\ Moved(t, "outside")
  /\ UNCHANGED <<buf, current, progress, alive, at, ref>>

trap_handler(t) == HandlerCheck(t) \/ HandlerRead(t) \/ HandlerInsert(t) \/ HandlerStatic(t)

Next ==
  \/ NewVersion \/ Finalize
  \/ \E s \in Site : add(s)
  \/ \E t \in Task : \E s \in Site : Call(t, s)
  \/ \E t \in Task : Clone(t) \/ Exit(t) \/ Execute(t) \/ Leave(t) \/ trap_handler(t)

Spec == Init /\ [][Next]_vars

(* A task that can take a step takes one; the helper ends an update.       *)
Fairness ==
  /\ WF_vars(Finalize)
  /\ \A t \in Task : WF_vars(Execute(t)) /\ WF_vars(trap_handler(t))

-----------------------------------------------------------------------------
CodeType == [op : {"old", "trap", "jump"}, to : 0 .. MaxTarget]

EntryType == [to : Version, type : {"ONLY_DYNAMIC", "MAKE_STATIC", "MADE_STATIC"},
              tids : SUBSET Task]

RedirectTypeOK ==
  /\ mem \in [Site -> CodeType] /\ buf \in [Site -> CodeType] /\ composed \in BOOLEAN
  /\ entry \in [Site -> [Version -> EntryType]]
  /\ current \in [Site -> 0 .. MaxTarget]
  /\ writer \in Task \cup {Nobody}
  /\ updating \in BOOLEAN /\ target \in 0 .. MaxTarget
  /\ alive \subseteq Task
  /\ pc \in [Task -> {"outside", "entry", "inside", "trapped", "checked", "gap", "static", "torn"}]
  /\ at \in [Task -> Site] /\ ref \in [Task -> 0 .. MaxTarget]

(* No task executes overwritten code: when the jump replaces the trap, no  *)
(* task is among the instructions it covers, and no task resumes behind    *)
(* the first byte of it (trap_handler's "we have to wait until every task  *)
(* has reached this point, to ensure that we don't change code currently   *)
(* executed").                                                             *)
NoTornCode ==
  \A t \in Task : /\ pc[t] # "torn"
                  /\ pc[t] = "inside" => mem[at[t]].op # "jump"

(* Code and entries match, although entries are changed under              *)
(* redirection_sync and code is swapped under lookup_sync: a trap in       *)
(* memory always has an entry, so trap_handler's "Trap, but not            *)
(* registered" is never logged, and an entry that is MADE_STATIC has its   *)
(* jump in memory, which add relies on when it only changes the jump.      *)
CodeMatchesEntries ==
  \A s \in Site :
    /\ mem[s] = Trap => current[s] # 0
    /\ current[s] # 0 /\ Current(s).type = "MADE_STATIC" => mem[s] = Jump(Current(s).to)

(* A task that has hit a trap gets out of it, in spite of the handlers of  *)
(* the other tasks, updates and the jump that replaces the trap.           *)
HandlerReturns ==
  \A t \in Task : pc[t] = "trapped" ~> pc[t] = "outside"
=============================================================================
