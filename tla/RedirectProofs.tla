--------------------------- MODULE RedirectProofs ---------------------------
(***************************************************************************)
(* Proofs about Redirect, for any tasks, functions and number of updates:  *)
(* code and entries match, and no task executes overwritten code, unless   *)
(* its handler returns behind the trap (Offset 1). First the inductive     *)
(* invariant and the steps of an update, then the steps of a task that     *)
(* change neither code nor entries, then those of the trap handler and of  *)
(* a redirection becoming static, which change both.                       *)
(***************************************************************************)
EXTENDS Redirect, TLAPS

(* What will be in memory once a segment is finalized                      *)
Coming(s) == IF composed THEN buf[s] ELSE mem[s]

(* A task that is not alive is nowhere, and the writer is the task that    *)
(* makes a redirection static.                                             *)
TasksOK ==
  \A t \in Task : /\ pc[t] # "outside" => t \in alive
                  /\ pc[t] = "static" <=> writer = t
                  /\ pc[t] = "torn" => Offset = 1

(* Entries that have not been added have no tasks, and a handler refers to *)
(* one that has been added; before it has inserted its task, the task is   *)
(* missing in the latest entry.                                            *)
EntriesOK ==
  /\ \A s \in Site : /\ current[s] <= target
                     /\ \A v \in Version : v > current[s] => entry[s][v].tids = {}
  /\ \A t \in Task : pc[t] \in {"gap", "static"} => 0 < ref[t] /\ ref[t] <= current[at[t]]
  /\ \A t \in Task : pc[t] = "gap" => t \notin Current(at[t]).tids

(* The latest entry of s is static, or a task is making it so.             *)
Static(s) ==
  /\ current[s] # 0
  /\ \/ Current(s).type = "MADE_STATIC"
     \/ \E t \in Task : pc[t] = "static" /\ at[t] = s /\ ref[t] = current[s]

(* What a redirection that is static has in memory, now and after the next *)
(* finalize; no handler that refers to an older entry can overwrite it.    *)
StaticOK ==
  /\ \A s \in Site : Static(s) => \A t \in Task : ~(pc[t] = "gap" /\ at[t] = s)
  /\ \A s \in Site : current[s] # 0 /\ Current(s).type = "MADE_STATIC" =>
       mem[s] = Jump(Current(s).to) /\ Coming(s) = Jump(Current(s).to)
  /\ \A t \in Task : pc[t] = "static" => Coming(at[t]) = Jump(entry[at[t]][ref[t]].to)

(* A trap has an entry, now and after the next finalize.                   *)
TrapsOK ==
  \A s \in Site : (mem[s].op = "trap" \/ Coming(s).op = "trap") => current[s] # 0

(* Code is never restored: it is not the old one where a task has hit the  *)
(* trap, now and after the next finalize.                                  *)
HitOK ==
  /\ \A s \in Site : mem[s].op # "old" => Coming(s).op # "old"
  /\ \A t \in Task : pc[t] \in {"trapped", "checked", "gap", "static"} => mem[at[t]].op # "old"

(* A task that an entry has recorded is not in the function, and no task   *)
(* enters it any more.                                                     *)
RecordedOK ==
  \A s \in Site : \A v \in Version : \A t \in Task : t \in entry[s][v].tids =>
    mem[s].op # "old" /\ ~(pc[t] = "inside" /\ at[t] = s)

(* No task is in a function with a jump, now and after the next finalize.  *)
JumpOK ==
  \A s \in Site : mem[s].op = "jump" \/ Coming(s).op = "jump" =>
    mem[s].op # "old" /\ \A t \in Task : ~(pc[t] = "inside" /\ at[t] = s)

Inv ==
  /\ RedirectTypeOK /\ TasksOK /\ EntriesOK /\ StaticOK /\ TrapsOK
  /\ HitOK /\ RecordedOK /\ JumpOK

(* Replacing an entry keeps the type of the table.                         *)
LEMMA EntryReplaced ==
  ASSUME NEW E, NEW tab \in [Site -> [Version -> E]], NEW s \in Site, NEW v \in Version,
         NEW e \in E
  PROVE  [tab EXCEPT ![s][v] = e] \in [Site -> [Version -> E]]
BY Zenon

(* An update that begins changes no code and no entry.                     *)
LEMMA NewVersionStep ==
  ASSUME Inv, NewVersion
  PROVE  Inv'
<1> USE RedirectAssumption DEF Inv, NewVersion, Moved, Nobody, code, table, progress, tasks
<1>1. RedirectTypeOK'
  BY DEF RedirectTypeOK, CodeType, Jump, Trap, Version
<1>2. TasksOK'
  BY Zenon DEF RedirectTypeOK, TasksOK
<1>3. EntriesOK'
  <2>1. \A s \in Site : current[s] <= target'
    BY DEF RedirectTypeOK, EntriesOK
  <2> QED
    BY <2>1, Zenon DEF EntriesOK, Current
<1>4. StaticOK'
  BY Zenon DEF RedirectTypeOK, TasksOK, EntriesOK, StaticOK, Static, Coming, Current, Jump, Trap, Old, Version
<1>5. TrapsOK'
  BY Zenon DEF RedirectTypeOK, TrapsOK, Coming, Jump, Trap
<1>6. HitOK'
  BY Zenon DEF RedirectTypeOK, HitOK, Coming, Jump, Trap
<1>7. RecordedOK'
  BY Zenon DEF RedirectTypeOK, HitOK, RecordedOK
<1>8. JumpOK'
  BY Zenon DEF RedirectTypeOK, JumpOK, Coming, Jump, Trap
<1> QED
  BY <1>1, <1>2, <1>3, <1>4, <1>5, <1>6, <1>7, <1>8, Zenon

(* The update's finalize shows what is composed.                           *)
LEMMA FinalizeStep ==
  ASSUME Inv, Finalize
  PROVE  Inv'
<1> USE RedirectAssumption DEF Inv, Finalize, Moved, Nobody, code, table, progress, tasks
<1>1. RedirectTypeOK'
  BY Zenon DEF RedirectTypeOK, CodeType, Jump, Trap, Version
<1>2. TasksOK'
  BY Zenon DEF RedirectTypeOK, TasksOK
<1>3. EntriesOK'
  BY Zenon DEF RedirectTypeOK, TasksOK, EntriesOK, Current, Version
<1>4. StaticOK'
  BY Zenon DEF RedirectTypeOK, TasksOK, EntriesOK, StaticOK, Static, Coming, Current, Jump, Trap, Old, Version
<1>5. TrapsOK'
  BY Zenon DEF RedirectTypeOK, TrapsOK, Coming, Jump, Trap
<1>6. HitOK'
  BY Zenon DEF RedirectTypeOK, HitOK, Coming, Jump, Trap
<1>7. RecordedOK'
  BY Zenon DEF RedirectTypeOK, HitOK, RecordedOK, Coming
<1>8. JumpOK'
  BY Zenon DEF RedirectTypeOK, JumpOK, Coming, Jump, Trap
<1> QED
  BY <1>1, <1>2, <1>3, <1>4, <1>5, <1>6, <1>7, <1>8, Zenon

(* add to a redirection that is static: only the jump changes, and what is  *)
(* composed becomes visible.                                               *)
LEMMA addStaticStep ==
  ASSUME Inv, NEW s \in Site, add(s), current[s] # 0, Current(s).type = "MADE_STATIC"
  PROVE  Inv'
<1> USE RedirectAssumption
<1>1. /\ Current(s).to < target /\ writer = Nobody
      /\ entry' = [entry EXCEPT ![s][current[s]].to = target]
      /\ mem' = Composed(s, Jump(target)) /\ composed' = FALSE
      /\ UNCHANGED <<buf, current, writer, updating, target, alive, pc, at, ref>>
  BY Zenon DEF add, progress, tasks
<1>2. /\ RedirectTypeOK /\ TasksOK /\ EntriesOK /\ StaticOK /\ TrapsOK
      /\ HitOK /\ RecordedOK /\ JumpOK
  BY Zenon DEF Inv
<1>3. target \in Version /\ current[s] \in Version
  BY <1>1, <1>2 DEF RedirectTypeOK, EntryType, Current, Version
<1>4. \A x \in Site : /\ mem'[x] = IF x = s THEN Jump(target) ELSE Coming(x)
                      /\ Coming(x)' = mem'[x]
  BY <1>1, Zenon DEF Composed, Coming
<1>5. \A x \in Site : \A v \in Version :
        /\ entry'[x][v].tids = entry[x][v].tids /\ entry'[x][v].type = entry[x][v].type
        /\ entry'[x][v].to = IF x = s /\ v = current[s] THEN target ELSE entry[x][v].to
  BY <1>1, <1>2, <1>3 DEF RedirectTypeOK, EntryType
<1>6. RedirectTypeOK'
  <2>1. Jump(target) \in CodeType
    BY <1>3 DEF CodeType, Jump, Version
  <2>2. mem' \in [Site -> CodeType]
    BY <1>1, <1>2, <2>1, Zenon DEF Composed, RedirectTypeOK
  <2>3. [entry[s][current[s]] EXCEPT !.to = target] \in EntryType
    BY <1>2, <1>3 DEF RedirectTypeOK, EntryType
  <2>4. entry' \in [Site -> [Version -> EntryType]]
    BY <1>1, <1>2, <1>3, <2>3, EntryReplaced DEF RedirectTypeOK
  <2> QED
    BY <1>1, <1>2, <2>2, <2>4, Zenon DEF RedirectTypeOK
<1>7. TasksOK'
  BY <1>1, <1>2, Zenon DEF TasksOK
<1>8. \A x \in Site : current[x] # 0 => current[x] \in Version
  BY <1>2 DEF RedirectTypeOK, Version
<1>9. EntriesOK'
  <2>1. \A x \in Site : \A v \in Version : v > current'[x] => entry'[x][v].tids = {}
    BY <1>1, <1>2, <1>5, Zenon DEF EntriesOK
  <2>2. \A t \in Task : pc[t] = "gap" => current[at[t]] \in Version
    BY <1>2 DEF EntriesOK, RedirectTypeOK, Version
  <2>3. \A t \in Task : pc'[t] = "gap" => t \notin entry'[at'[t]][current'[at'[t]]].tids
    BY <1>1, <1>2, <1>5, <2>2 DEF EntriesOK, Current, RedirectTypeOK
  <2> QED
    BY <1>1, <1>2, <2>1, <2>3, Zenon DEF EntriesOK, Current
<1>10. \A t \in Task : pc[t] # "static"
  BY <1>1, <1>2, Zenon DEF TasksOK, Nobody
<1>11. StaticOK'
  <2>1. ASSUME NEW x \in Site, current'[x] # 0, entry'[x][current'[x]].type = "MADE_STATIC"
        PROVE  /\ Static(x) /\ Coming(x)' = Jump(entry'[x][current'[x]].to)
               /\ mem'[x] = Coming(x)'
    <3>1. current[x] \in Version /\ Current(x).type = "MADE_STATIC" /\ current[x] # 0
      BY <1>1, <1>5, <1>8, <2>1 DEF Current
    <3>2. Coming(x) = Jump(entry[x][current[x]].to) /\ Static(x)
      BY <1>2, <3>1, Zenon DEF StaticOK, Static, Current
    <3> QED
      BY <1>1, <1>4, <1>5, <3>1, <3>2
  <2>2. \A t \in Task : pc'[t] # "static"
    BY <1>1, <1>10, Zenon
  <2> QED
    BY <1>1, <1>2, <2>1, <2>2, Zenon DEF StaticOK, Static, Current
<1>12. TrapsOK'
  BY <1>1, <1>2, <1>4, Zenon DEF TrapsOK, Jump
<1>13. HitOK'
  <2>1. \A x \in Site : mem[x].op # "old" => mem'[x].op # "old"
    BY <1>2, <1>4 DEF HitOK, Jump
  <2>2. \A t \in Task : at[t] \in Site
    BY <1>2, Zenon DEF RedirectTypeOK
  <2> QED
    BY <1>1, <1>2, <1>4, <2>1, <2>2, Zenon DEF HitOK
<1>14. RecordedOK'
  BY <1>1, <1>2, <1>4, <1>5 DEF RecordedOK, HitOK, Jump
<1>15. JumpOK'
  <2>1. mem[s] = Jump(Current(s).to)
    BY <1>2, Zenon DEF StaticOK
  <2> QED
    BY <1>1, <1>2, <1>4, <2>1 DEF JumpOK, Jump
<1> QED
  BY <1>6, <1>7, <1>9, <1>11, <1>12, <1>13, <1>14, <1>15, Zenon DEF Inv

(* add of a new entry: the trap is composed, and the tasks of an earlier   *)
(* entry are forgotten.                                                    *)
LEMMA addNewStep ==
  ASSUME Inv, NEW s \in Site, add(s), ~(current[s] # 0 /\ Current(s).type = "MADE_STATIC")
  PROVE  Inv'
<1> USE RedirectAssumption
<1>1. /\ current[s] < target /\ writer = Nobody
      /\ entry' = [entry EXCEPT ![s][target].type =
                     IF s \in StaticSite THEN "MAKE_STATIC" ELSE "ONLY_DYNAMIC"]
      /\ current' = [current EXCEPT ![s] = target]
      /\ buf' = Composed(s, Trap) /\ composed' = TRUE
      /\ UNCHANGED <<mem, writer, updating, target, alive, pc, at, ref>>
  BY Zenon DEF add, progress, tasks
<1>2. /\ RedirectTypeOK /\ TasksOK /\ EntriesOK /\ StaticOK /\ TrapsOK
      /\ HitOK /\ RecordedOK /\ JumpOK
  BY Zenon DEF Inv
<1>3. target \in Version /\ target # 0
  BY <1>1, <1>2 DEF RedirectTypeOK, Version
<1>4. \A x \in Site : /\ Coming(x)' = IF x = s THEN Trap ELSE Coming(x)
                      /\ current'[x] = IF x = s THEN target ELSE current[x]
  BY <1>1, <1>2, Zenon DEF Composed, Coming, RedirectTypeOK
<1>5. \A x \in Site : \A v \in Version :
        /\ entry'[x][v].tids = entry[x][v].tids /\ entry'[x][v].to = entry[x][v].to
        /\ entry'[x][v].type = IF x = s /\ v = target
                               THEN IF s \in StaticSite THEN "MAKE_STATIC" ELSE "ONLY_DYNAMIC"
                               ELSE entry[x][v].type
  BY <1>1, <1>2, <1>3 DEF RedirectTypeOK, EntryType
<1>6. RedirectTypeOK'
  <2>1. Trap \in CodeType
    BY DEF CodeType, Trap
  <2>2. buf' \in [Site -> CodeType]
    BY <1>1, <1>2, <2>1, Zenon DEF Composed, RedirectTypeOK
  <2>3. [entry[s][target] EXCEPT !.type =
           IF s \in StaticSite THEN "MAKE_STATIC" ELSE "ONLY_DYNAMIC"] \in EntryType
    BY <1>2, <1>3 DEF RedirectTypeOK, EntryType
  <2>4. entry' \in [Site -> [Version -> EntryType]]
    BY <1>1, <1>2, <1>3, <2>3, EntryReplaced DEF RedirectTypeOK
  <2> QED
    BY <1>1, <1>2, <1>3, <2>2, <2>4, Zenon DEF RedirectTypeOK
<1>7. TasksOK'
  BY <1>1, <1>2, Zenon DEF TasksOK
<1>8. \A x \in Site : current[x] # 0 => current[x] \in Version
  BY <1>2 DEF RedirectTypeOK, Version
<1>9. EntriesOK'
  <2>1. entry[s][target].tids = {}
    BY <1>1, <1>2, <1>3, Zenon DEF EntriesOK
  <2>2. \A x \in Site : /\ current[x] <= current'[x] /\ current'[x] <= target'
                        /\ \A v \in Version : v > current'[x] => entry'[x][v].tids = {}
    BY <1>1, <1>2, <1>4, <1>5 DEF EntriesOK, RedirectTypeOK, Version
  <2>3. \A t \in Task : pc'[t] \in {"gap", "static"} =>
          0 < ref'[t] /\ ref'[t] <= current'[at'[t]]
    BY <1>1, <1>2, <1>4, <2>2 DEF EntriesOK, RedirectTypeOK
  <2>4. ASSUME NEW t \in Task, pc'[t] = "gap"
        PROVE  t \notin entry'[at'[t]][current'[at'[t]]].tids
    <3>1. at[t] \in Site /\ current[at[t]] \in Version /\ t \notin entry[at[t]][current[at[t]]].tids
      BY <1>1, <1>2, <2>4 DEF EntriesOK, RedirectTypeOK, Version, Current
    <3> QED
      BY <1>1, <1>3, <1>4, <1>5, <2>1, <3>1
  <2> QED
    BY <2>2, <2>3, <2>4, Zenon DEF EntriesOK, Current
<1>10. \A t \in Task : pc[t] # "static"
  BY <1>1, <1>2, Zenon DEF TasksOK, Nobody
<1>11. StaticOK'
  <2>1. ASSUME NEW x \in Site, current'[x] # 0, entry'[x][current'[x]].type = "MADE_STATIC"
        PROVE  /\ Static(x) /\ mem'[x] = Jump(entry'[x][current'[x]].to)
               /\ Coming(x)' = Jump(entry'[x][current'[x]].to)
    <3>1. x # s
      BY <1>3, <1>4, <1>5, <2>1, Zenon
    <3>2. current[x] \in Version /\ Current(x).type = "MADE_STATIC" /\ current[x] # 0
      BY <1>4, <1>5, <1>8, <2>1, <3>1 DEF Current
    <3>3. /\ mem[x] = Jump(entry[x][current[x]].to) /\ Coming(x) = Jump(entry[x][current[x]].to)
          /\ Static(x)
      BY <1>2, <3>2, Zenon DEF StaticOK, Static, Current
    <3> QED
      BY <1>1, <1>4, <1>5, <3>1, <3>2, <3>3
  <2>2. \A t \in Task : pc'[t] # "static"
    BY <1>1, <1>10, Zenon
  <2> QED
    BY <1>1, <1>2, <2>1, <2>2, Zenon DEF StaticOK, Static, Current
<1>12. TrapsOK'
  BY <1>1, <1>2, <1>3, <1>4, Zenon DEF TrapsOK
<1>13. HitOK'
  BY <1>1, <1>2, <1>4 DEF HitOK, Trap
<1>14. RecordedOK'
  BY <1>1, <1>2, <1>5 DEF RecordedOK
<1>15. JumpOK'
  BY <1>1, <1>2, <1>4 DEF JumpOK, Trap
<1> QED
  BY <1>6, <1>7, <1>9, <1>11, <1>12, <1>13, <1>14, <1>15, Zenon DEF Inv
-----------------------------------------------------------------------------
(* A new task is outside of every function.                                *)
LEMMA CloneStep ==
  ASSUME Inv, NEW t \in Task, Clone(t)
  PROVE  Inv'
<1> USE RedirectAssumption DEF Inv, Clone, Moved, Nobody, code, table, progress, tasks
<1>1. RedirectTypeOK'
  BY Zenon DEF RedirectTypeOK, CodeType, Jump, Trap, Version
<1>2. TasksOK'
  BY Zenon DEF RedirectTypeOK, TasksOK
<1>3. EntriesOK'
  BY Zenon DEF RedirectTypeOK, TasksOK, EntriesOK, Current, Version
<1>4. StaticOK'
  BY Zenon DEF RedirectTypeOK, TasksOK, EntriesOK, StaticOK, Static, Coming, Current, Jump, Trap, Old, Version
<1>5. TrapsOK'
  BY Zenon DEF RedirectTypeOK, TrapsOK, Coming, Jump, Trap
<1>6. HitOK'
  BY Zenon DEF RedirectTypeOK, HitOK, Coming, Jump, Trap
<1>7. RecordedOK'
  BY Zenon DEF RedirectTypeOK, HitOK, RecordedOK
<1>8. JumpOK'
  BY Zenon DEF RedirectTypeOK, JumpOK, Coming, Jump, Trap
<1> QED
  BY <1>1, <1>2, <1>3, <1>4, <1>5, <1>6, <1>7, <1>8, Zenon

(* A task that ends is outside of every function.                          *)
LEMMA ExitStep ==
  ASSUME Inv, NEW t \in Task, Exit(t)
  PROVE  Inv'
<1> USE RedirectAssumption DEF Inv, Exit, Moved, Nobody, code, table, progress, tasks
<1>1. RedirectTypeOK'
  BY Zenon DEF RedirectTypeOK, CodeType, Jump, Trap, Version
<1>2. TasksOK'
  BY Zenon DEF RedirectTypeOK, TasksOK
<1>3. EntriesOK'
  BY Zenon DEF RedirectTypeOK, TasksOK, EntriesOK, Current, Version
<1>4. StaticOK'
  BY Zenon DEF RedirectTypeOK, TasksOK, EntriesOK, StaticOK, Static, Coming, Current, Jump, Trap, Old, Version
<1>5. TrapsOK'
  BY Zenon DEF RedirectTypeOK, TrapsOK, Coming, Jump, Trap
<1>6. HitOK'
  BY Zenon DEF RedirectTypeOK, HitOK, Coming, Jump, Trap
<1>7. RecordedOK'
  BY Zenon DEF RedirectTypeOK, HitOK, RecordedOK
<1>8. JumpOK'
  BY Zenon DEF RedirectTypeOK, JumpOK, Coming, Jump, Trap
<1> QED
  BY <1>1, <1>2, <1>3, <1>4, <1>5, <1>6, <1>7, <1>8, Zenon

(* A task that calls a function has not executed any of it.                *)
LEMMA CallStep ==
  ASSUME Inv, NEW t \in Task, NEW s \in Site, Call(t, s)
  PROVE  Inv'
<1> USE RedirectAssumption DEF Inv, Call, Moved, Nobody, code, table, progress, tasks
<1>1. RedirectTypeOK'
  BY Zenon DEF RedirectTypeOK, CodeType, Jump, Trap, Version
<1>2. TasksOK'
  BY Zenon DEF RedirectTypeOK, TasksOK
<1>3. EntriesOK'
  BY Zenon DEF RedirectTypeOK, TasksOK, EntriesOK, Current, Version
<1>4. StaticOK'
  <2>1. \A u \in Task : pc'[u] \in {"gap", "static"} => pc[u] = pc'[u] /\ at'[u] = at[u]
    BY Zenon DEF RedirectTypeOK
  <2>2. \A x \in Site : Static(x)' => Static(x)
    BY <2>1, Zenon DEF Static, Current
  <2>3. \A x \in Site : Coming(x)' = Coming(x) /\ (current[x] # 0 => Current(x)' = Current(x))
    BY Zenon DEF Coming, Current
  <2>4. mem' = mem /\ entry' = entry /\ current' = current /\ ref' = ref /\ at \in [Task -> Site]
    BY Zenon DEF RedirectTypeOK
  <2> HIDE DEF Call, Inv
  <2>5. StaticOK
    BY Zenon DEF Inv
  <2> QED
    BY <2>1, <2>2, <2>3, <2>4, <2>5 DEF StaticOK
<1>5. TrapsOK'
  BY Zenon DEF RedirectTypeOK, TrapsOK, Coming, Jump, Trap
<1>6. HitOK'
  BY Zenon DEF RedirectTypeOK, HitOK, Coming, Jump, Trap
<1>7. RecordedOK'
  BY Zenon DEF RedirectTypeOK, HitOK, RecordedOK
<1>8. JumpOK'
  BY Zenon DEF RedirectTypeOK, JumpOK, Coming, Jump, Trap
<1> QED
  BY <1>1, <1>2, <1>3, <1>4, <1>5, <1>6, <1>7, <1>8, Zenon

(* A task enters a function only if its code is the old one.               *)
LEMMA ExecuteStep ==
  ASSUME Inv, NEW t \in Task, Execute(t)
  PROVE  Inv'
<1> USE RedirectAssumption DEF Inv, Execute, Moved, Nobody, code, table, progress, tasks
<1>1. RedirectTypeOK'
  BY Zenon DEF RedirectTypeOK, CodeType, Jump, Trap, Version
<1>2. TasksOK'
  BY Zenon DEF RedirectTypeOK, TasksOK
<1>3. EntriesOK'
  BY DEF RedirectTypeOK, TasksOK, EntriesOK, Current, Version
<1>4. StaticOK'
  <2>1. \A u \in Task : /\ pc'[u] = "gap" <=> pc[u] = "gap"
                        /\ pc'[u] = "static" <=> pc[u] = "static"
    BY Zenon DEF RedirectTypeOK
  <2>0. RedirectTypeOK
    BY Zenon
  <2>2. StaticOK /\ UNCHANGED <<mem, buf, composed, entry, current, at, ref>>
    BY Zenon
  <2> HIDE DEF Inv, Execute, Moved, code, table, progress, tasks
  <2>3. \A x \in Site : /\ Coming(x)' = Coming(x) /\ Current(x)' = Current(x)
                        /\ Static(x)' => Static(x)
    <3>1. \A x \in Site : Coming(x)' = Coming(x) /\ Current(x)' = Current(x)
      BY <2>2, Zenon DEF Coming, Current
    <3> QED
      BY <2>1, <2>2, <3>1, Zenon DEF Static
  <2>4. at[t] \in Site /\ \A u \in Task : at[u] \in Site
    BY <2>0, Zenon DEF RedirectTypeOK
  <2> QED
    BY <2>1, <2>2, <2>3, <2>4, Zenon DEF StaticOK
<1>5. TrapsOK'
  BY Zenon DEF RedirectTypeOK, TrapsOK, Coming, Jump, Trap
<1>6. HitOK'
  BY Zenon DEF RedirectTypeOK, HitOK, Coming, Jump, Trap
<1>7. RecordedOK'
  BY Zenon DEF RedirectTypeOK, HitOK, RecordedOK
<1>8. JumpOK'
  BY Zenon DEF RedirectTypeOK, JumpOK, Coming, Jump, Trap
<1> QED
  BY <1>1, <1>2, <1>3, <1>4, <1>5, <1>6, <1>7, <1>8, Zenon

(* A task that returns is outside of every function.                       *)
LEMMA LeaveStep ==
  ASSUME Inv, NEW t \in Task, Leave(t)
  PROVE  Inv'
<1> USE RedirectAssumption DEF Inv, Leave, Moved, Nobody, code, table, progress, tasks
<1>1. RedirectTypeOK'
  BY Zenon DEF RedirectTypeOK, CodeType, Jump, Trap, Version
<1>2. TasksOK'
  BY Zenon DEF RedirectTypeOK, TasksOK
<1>3. EntriesOK'
  BY Zenon DEF RedirectTypeOK, TasksOK, EntriesOK, Current, Version
<1>4. StaticOK'
  BY DEF RedirectTypeOK, TasksOK, EntriesOK, StaticOK, Static, Coming, Current, Jump, Trap, Old, Version
<1>5. TrapsOK'
  BY Zenon DEF RedirectTypeOK, TrapsOK, Coming, Jump, Trap
<1>6. HitOK'
  BY Zenon DEF RedirectTypeOK, HitOK, Coming, Jump, Trap
<1>7. RecordedOK'
  BY Zenon DEF RedirectTypeOK, HitOK, RecordedOK
<1>8. JumpOK'
  BY Zenon DEF RedirectTypeOK, JumpOK, Coming, Jump, Trap
<1> QED
  BY <1>1, <1>2, <1>3, <1>4, <1>5, <1>6, <1>7, <1>8, Zenon

(* The handler's check of the trap changes only its task.                  *)
LEMMA HandlerCheckStep ==
  ASSUME Inv, NEW t \in Task, HandlerCheck(t)
  PROVE  Inv'
<1> USE RedirectAssumption DEF Inv, HandlerCheck, NotRedirected, Moved, Nobody, code, table, progress, tasks
<1>1. RedirectTypeOK'
  BY Zenon DEF RedirectTypeOK, CodeType, Jump, Trap, Version
<1>2. TasksOK'
  BY Zenon DEF RedirectTypeOK, TasksOK
<1>3. EntriesOK'
  BY DEF RedirectTypeOK, TasksOK, EntriesOK, Current, Version
<1>4. StaticOK'
  <2>1. \A u \in Task : /\ pc'[u] = "gap" <=> pc[u] = "gap"
                        /\ pc'[u] = "static" <=> pc[u] = "static"
    BY Zenon DEF RedirectTypeOK
  <2>0. RedirectTypeOK
    BY Zenon
  <2>2. StaticOK /\ UNCHANGED <<mem, buf, composed, entry, current, at, ref>>
    BY Zenon
  <2> HIDE DEF Inv, HandlerCheck, NotRedirected, Moved, code, table, progress, tasks
  <2>3. \A x \in Site : /\ Coming(x)' = Coming(x) /\ Current(x)' = Current(x)
                        /\ Static(x)' => Static(x)
    <3>1. \A x \in Site : Coming(x)' = Coming(x) /\ Current(x)' = Current(x)
      BY <2>2 DEF Coming, Current
    <3> QED
      BY <2>1, <2>2, <3>1, Zenon DEF Static
  <2>4. at[t] \in Site /\ \A u \in Task : at[u] \in Site
    BY <2>0 DEF RedirectTypeOK
  <2> QED
    BY <2>1, <2>2, <2>3, <2>4, Zenon DEF StaticOK
<1>5. TrapsOK'
  BY Zenon DEF RedirectTypeOK, TrapsOK, Coming, Jump, Trap
<1>6. HitOK'
  BY Zenon DEF RedirectTypeOK, HitOK, Coming, Jump, Trap
<1>7. RecordedOK'
  BY Zenon DEF RedirectTypeOK, HitOK, RecordedOK
<1>8. JumpOK'
  BY Zenon DEF RedirectTypeOK, JumpOK, Coming, Jump, Trap
<1> QED
  BY <1>1, <1>2, <1>3, <1>4, <1>5, <1>6, <1>7, <1>8, Zenon

(* A handler that reads its entry refers to the latest one.                *)
LEMMA HandlerReadStep ==
  ASSUME Inv, NEW t \in Task, HandlerRead(t)
  PROVE  Inv'
<1> USE RedirectAssumption DEF Inv, HandlerRead, NotRedirected, Moved, Nobody, code, table, progress, tasks
<1>1. RedirectTypeOK'
  <2>1. pc' \in [Task -> {"outside", "entry", "inside", "trapped", "checked", "gap", "static", "torn"}]
    BY Zenon DEF RedirectTypeOK
  <2>2. ref' \in [Task -> 0 .. MaxTarget]
    BY Zenon DEF RedirectTypeOK
  <2> QED
    BY <2>1, <2>2, Zenon DEF RedirectTypeOK
<1>2. TasksOK'
  BY Zenon DEF RedirectTypeOK, TasksOK
<1>3. EntriesOK'
  <2>1. ASSUME NEW u \in Task, pc'[u] \in {"gap", "static"}
        PROVE  0 < ref'[u] /\ ref'[u] <= current[at[u]]
    <3>1. \/ pc[u] \in {"gap", "static"} /\ ref'[u] = ref[u]
          \/ u = t /\ current[at[u]] # 0 /\ ref'[u] = current[at[u]]
      BY <2>1, Zenon DEF RedirectTypeOK
    <3>2. current[at[u]] \in Nat
      BY DEF RedirectTypeOK
    <3> HIDE DEF HandlerRead, Inv
    <3> QED BY <3>1, <3>2 DEF Inv, EntriesOK
  <2>2. \A u \in Task : pc'[u] = "gap" => u \notin Current(at[u]).tids
    BY Zenon DEF RedirectTypeOK, EntriesOK, Current
  <2> QED
    BY <2>1, <2>2, Zenon DEF EntriesOK, Current
<1>4. StaticOK'
  <2>1. \A u \in Task : pc'[u] # "static" /\ pc[u] # "static"
    BY Zenon DEF RedirectTypeOK, TasksOK
  <2>2. \A x \in Site : Static(x)' => Static(x) /\ Current(x).type = "MADE_STATIC"
    BY <2>1, Zenon DEF Static, Current
  <2>3. \A u \in Task : pc'[u] = "gap" =>
          pc[u] = "gap" \/ (u = t /\ Current(at[t]).type = "MAKE_STATIC")
    BY Zenon DEF RedirectTypeOK
  <2> QED
    BY <2>1, <2>2, <2>3, Zenon DEF StaticOK, Coming, Current
<1>5. TrapsOK'
  BY Zenon DEF RedirectTypeOK, TrapsOK, Coming, Jump, Trap
<1>6. HitOK'
  BY Zenon DEF RedirectTypeOK, HitOK, Coming, Jump, Trap
<1>7. RecordedOK'
  BY Zenon DEF RedirectTypeOK, HitOK, RecordedOK
<1>8. JumpOK'
  BY Zenon DEF RedirectTypeOK, JumpOK, Coming, Jump, Trap
<1> QED
  BY <1>1, <1>2, <1>3, <1>4, <1>5, <1>6, <1>7, <1>8, Zenon
-----------------------------------------------------------------------------
(* The handler records its task, and the last one composes the jump.       *)
LEMMA HandlerInsertStep ==
  ASSUME Inv, NEW t \in Task, HandlerInsert(t)
  PROVE  Inv'
<1> USE RedirectAssumption
<1>1. /\ pc[t] = "gap" /\ writer = Nobody
      /\ UNCHANGED <<mem, current, updating, target, alive, at>>
  BY Zenon DEF HandlerInsert, progress
<1>2. /\ RedirectTypeOK /\ TasksOK /\ EntriesOK /\ StaticOK /\ TrapsOK
      /\ HitOK /\ RecordedOK /\ JumpOK
  BY Zenon DEF Inv
<1>0. PICK s \in Site : s = at[t]
  BY <1>2, Zenon DEF RedirectTypeOK
<1>3. PICK v \in {ref[t], current[s]} :
        /\ entry' = [entry EXCEPT ![s][v].tids = entry[s][v].tids \cup {t}]
        /\ ref' = [ref EXCEPT ![t] = v]
        /\ \/ /\ alive \subseteq entry[s][v].tids \cup {t}
              /\ writer' = t /\ pc' = [pc EXCEPT ![t] = "static"]
              /\ buf' = Composed(s, Jump(entry[s][v].to)) /\ composed' = TRUE
           \/ /\ pc' = [pc EXCEPT ![t] = "outside"]
              /\ UNCHANGED <<writer, buf, composed>>
  BY <1>0, Zenon DEF HandlerInsert, all_tasks, Moved
<1>4. /\ s \in Site /\ v \in Version /\ current[s] \in Version /\ v <= current[s]
      /\ t # Nobody
  BY <1>0, <1>1, <1>2, <1>3 DEF RedirectTypeOK, EntriesOK, Version, Nobody
<1>5. \A x \in Site : \A w \in Version :
        /\ entry'[x][w].to = entry[x][w].to /\ entry'[x][w].type = entry[x][w].type
        /\ entry'[x][w].tids = IF x = s /\ w = v THEN entry[x][w].tids \cup {t}
                                ELSE entry[x][w].tids
  <2> DEFINE new == entry[s][v].tids \cup {t}
  <2>1. entry' = [entry EXCEPT ![s][v].tids = new]
    BY <1>3, Zenon
  <2> HIDE DEF new
  <2>2. entry \in [Site -> [Version -> EntryType]]
    BY <1>2, Zenon DEF RedirectTypeOK
  <2>3. \A x \in Site : \A w \in Version :
          /\ entry'[x][w].to = entry[x][w].to /\ entry'[x][w].type = entry[x][w].type
          /\ entry'[x][w].tids = IF x = s /\ w = v THEN new ELSE entry[x][w].tids
    BY <1>4, <2>1, <2>2 DEF EntryType
  <2> QED
    BY <2>3, Zenon DEF new
<1>6. /\ \A u \in Task : /\ at[u] \in Site
                         /\ ref'[u] = IF u = t THEN v ELSE ref[u]
                         /\ u # t => pc'[u] = pc[u]
      /\ \/ pc'[t] = "static" /\ writer' = t /\ alive \subseteq entry[s][v].tids \cup {t}
         \/ pc'[t] = "outside" /\ writer' = Nobody
  BY <1>1, <1>2, <1>3, Zenon DEF RedirectTypeOK
<1>7. \A x \in Site :
        Coming(x)' = IF pc'[t] = "static" /\ x = s THEN Jump(entry[s][v].to) ELSE Coming(x)
  <2>1. CASE pc'[t] = "static"
    BY <1>1, <1>2, <1>3, <1>4, <2>1, Zenon DEF Coming, Composed, RedirectTypeOK
  <2>2. CASE pc'[t] # "static"
    BY <1>1, <1>2, <1>3, <1>4, <2>2 DEF Coming, RedirectTypeOK
  <2> QED
    BY <2>1, <2>2, Zenon
<1>8. s = at[t] /\ mem[s].op # "old"
  BY <1>0, <1>1, <1>2, Zenon DEF HitOK
<1>9. RedirectTypeOK'
  <2>1. Jump(entry[s][v].to) \in CodeType
    <3>1. entry[s][v] \in EntryType
      BY <1>2, <1>4 DEF RedirectTypeOK
    <3> QED
      BY <3>1 DEF EntryType, CodeType, Jump, Version
  <2>2. buf' \in [Site -> CodeType] /\ composed' \in BOOLEAN
    <3>1. buf \in [Site -> CodeType] /\ mem \in [Site -> CodeType] /\ composed \in BOOLEAN
      BY <1>2, Zenon DEF RedirectTypeOK
    <3> QED BY <1>3, <2>1, <3>1, Zenon DEF Composed
  <2>3. [entry[s][v] EXCEPT !.tids = entry[s][v].tids \cup {t}] \in EntryType
    <3>1. entry[s][v] \in EntryType
      BY <1>2, <1>4 DEF RedirectTypeOK
    <3> QED
      BY <3>1, Zenon DEF EntryType
  <2>4. entry' \in [Site -> [Version -> EntryType]]
    BY <1>2, <1>3, <1>4, <2>3, EntryReplaced DEF RedirectTypeOK
  <2>5. v \in 0 .. MaxTarget
    BY <1>4 DEF Version
  <2> QED
    BY <1>1, <1>2, <1>3, <2>2, <2>4, <2>5, Zenon DEF RedirectTypeOK
<1>10. TasksOK'
  BY <1>1, <1>2, <1>4, <1>6, Zenon DEF TasksOK, Nobody
<1>11. EntriesOK'
  <2>1. \A x \in Site : /\ current'[x] <= target'
                        /\ \A w \in Version : w > current'[x] => entry'[x][w].tids = {}
    <3>1. \A x \in Site : \A w \in Version : w > current[x] =>
            ~(x = s /\ w = v) /\ entry[x][w].tids = {}
      BY <1>2, <1>4 DEF EntriesOK, RedirectTypeOK, Version
    <3>2. \A x \in Site : \A w \in Version : w > current[x] => entry'[x][w].tids = {}
      <4>1. ASSUME NEW x \in Site, NEW w \in Version, w > current[x]
            PROVE  entry'[x][w].tids = {}
        <5>1. entry[x][w].tids = {} /\ ~(x = s /\ w = v)
          BY <3>1, <4>1, Zenon
        <5>2. entry'[x][w].tids = entry[x][w].tids
          BY <1>5, <5>1, Zenon
        <5> QED
          BY <5>1, <5>2, Zenon
      <4> QED
        BY <4>1, Zenon
    <3> QED
      BY <1>1, <1>2, <3>2, Zenon DEF EntriesOK
  <2>2. \A u \in Task : pc'[u] \in {"gap", "static"} =>
          0 < ref'[u] /\ ref'[u] <= current'[at'[u]]
    BY <1>1, <1>2, <1>4, <1>6, <1>8 DEF EntriesOK, Version
  <2>3. ASSUME NEW u \in Task, pc'[u] = "gap"
        PROVE  u \notin entry'[at'[u]][current'[at'[u]]].tids
    <3>1. u # t /\ pc[u] = "gap"
      BY <1>6, <2>3, Zenon
    <3>2. current[at[u]] \in Version /\ u \notin entry[at[u]][current[at[u]]].tids
      BY <1>2, <1>6, <3>1 DEF EntriesOK, RedirectTypeOK, Version, Current
    <3>3. entry'[at[u]][current[at[u]]].tids \subseteq entry[at[u]][current[at[u]]].tids \cup {t}
      <4>1. ASSUME NEW x \in Site, NEW w \in Version
            PROVE  entry'[x][w].tids \subseteq entry[x][w].tids \cup {t}
        <5>1. entry'[x][w].tids \in {entry[x][w].tids \cup {t}, entry[x][w].tids}
          BY <1>5, Zenon
        <5> QED
          BY <5>1, Zenon
      <4>2. at[u] \in Site
        BY <1>6, Zenon
      <4> QED
        BY <3>2, <4>1, <4>2, Zenon
    <3> QED
      BY <1>1, <3>1, <3>2, <3>3, Zenon
  <2> QED
    BY <2>1, <2>2, <2>3, Zenon DEF EntriesOK, Current
<1>12. ~Static(s)
  BY <1>1, <1>2, <1>4, <1>8, Zenon DEF StaticOK
<1>13. \A u \in Task : pc[u] # "static"
  BY <1>1, <1>2, Zenon DEF TasksOK, Nobody
<1>14. StaticOK'
  <2>1. ASSUME NEW x \in Site, current'[x] # 0, entry'[x][current'[x]].type = "MADE_STATIC"
        PROVE  /\ Static(x) /\ mem'[x] = Jump(entry'[x][current'[x]].to)
               /\ Coming(x)' = Jump(entry'[x][current'[x]].to)
    <3>1. current[x] \in Version /\ Current(x).type = "MADE_STATIC" /\ current[x] # 0
      <4>1. current[x] \in Version /\ current[x] # 0
        BY <1>1, <1>2, <2>1 DEF RedirectTypeOK, Version
      <4> QED
        BY <1>1, <1>5, <2>1, <4>1, Zenon DEF Current
    <3>2. /\ mem[x] = Jump(entry[x][current[x]].to) /\ Coming(x) = Jump(entry[x][current[x]].to)
          /\ Static(x) /\ x # s
      BY <1>2, <1>12, <3>1, Zenon DEF StaticOK, Static, Current
    <3> QED
      BY <1>1, <1>5, <1>7, <3>1, <3>2, Zenon
  <2>2. ASSUME pc'[t] = "static", NEW u \in Task, pc'[u] = "gap", at[u] = s
        PROVE  v # current[s]
    <3>1. u # t /\ pc[u] = "gap"
      BY <1>6, <2>2, Zenon
    <3>2. u \in alive
      BY <1>2, <3>1, Zenon DEF TasksOK
    <3>3. u \notin entry[s][current[s]].tids
      BY <1>2, <2>2, <3>1, Zenon DEF EntriesOK, Current
    <3> QED
      BY <1>6, <2>2, <3>1, <3>2, <3>3, Zenon
  <2>3. ASSUME NEW x \in Site, Static(x)', NEW u \in Task, pc'[u] = "gap", at'[u] = x
        PROVE  FALSE
    <3>1. pc[u] = "gap" /\ at[u] = x /\ u # t
      BY <1>1, <1>6, <2>3, Zenon
    <3>2. CASE entry'[x][current'[x]].type = "MADE_STATIC"
      BY <1>2, <2>1, <2>3, <3>1, <3>2, Zenon DEF Static, StaticOK
    <3>3. CASE \E w \in Task : pc'[w] = "static" /\ at'[w] = x /\ ref'[w] = current'[x]
      <4>1. pc'[t] = "static" /\ at[t] = x /\ v = current[x]
        BY <1>1, <1>6, <1>13, <3>3, Zenon
      <4> QED
        BY <1>8, <2>2, <2>3, <3>1, <4>1, Zenon
    <3> QED
      BY <2>3, <3>2, <3>3, Zenon DEF Static, Current
  <2>4. ASSUME NEW u \in Task, pc'[u] = "static"
        PROVE  Coming(at[u])' = Jump(entry'[at'[u]][ref'[u]].to)
    <3>1. u = t
      BY <1>6, <1>13, <2>4, Zenon
    <3>2. Coming(at[t])' = Jump(entry[s][v].to)
      BY <1>1, <1>4, <1>7, <1>8, <2>4, <3>1, Zenon
    <3>3. entry'[at'[u]][ref'[u]].to = entry[s][v].to
      <4>1. at'[u] = s /\ ref'[u] = v
        BY <1>1, <1>6, <1>8, <3>1, Zenon
      <4>2. entry'[s][v].to = entry[s][v].to
        BY <1>4, <1>5, Zenon
      <4> QED
        BY <4>1, <4>2, Zenon
    <3> QED
      BY <3>1, <3>2, <3>3, Zenon
  <2> QED
    BY <1>1, <2>1, <2>3, <2>4, Zenon DEF StaticOK, Current
<1>15. TrapsOK'
  BY <1>1, <1>2, <1>7 DEF TrapsOK, Jump
<1>16. HitOK'
  <2>1. \A x \in Site : mem'[x].op # "old" => Coming(x)'.op # "old"
    BY <1>1, <1>2, <1>7 DEF HitOK, Jump
  <2>2. \A u \in Task : pc'[u] \in {"trapped", "checked", "gap", "static"} => mem'[at'[u]].op # "old"
    BY <1>1, <1>2, <1>6, <1>8, Zenon DEF HitOK
  <2> QED
    BY <2>1, <2>2, Zenon DEF HitOK
<1>17. RecordedOK'
  <2>1. ASSUME NEW x \in Site, NEW w \in Version, NEW u \in Task, u \in entry'[x][w].tids
        PROVE  mem'[x].op # "old" /\ ~(pc'[u] = "inside" /\ at'[u] = x)
    <3>1. u \in entry[x][w].tids \/ (x = s /\ u = t)
      <4>1. CASE x = s /\ w = v
        <5>1. entry'[x][w].tids = entry[x][w].tids \cup {t}
          BY <1>5, <4>1, Zenon
        <5> QED
          BY <2>1, <4>1, <5>1, Zenon
      <4>2. CASE ~(x = s /\ w = v)
        <5>1. entry'[x][w].tids = entry[x][w].tids
          BY <1>5, <4>2, Zenon
        <5> QED
          BY <2>1, <5>1, Zenon
      <4> QED
        BY <4>1, <4>2, Zenon
    <3> QED
      BY <1>1, <1>2, <1>6, <1>8, <3>1, Zenon DEF RecordedOK
  <2> QED
    BY <2>1, Zenon DEF RecordedOK
<1>18. JumpOK'
  <2>1. ASSUME pc'[t] = "static", NEW u \in Task, pc'[u] = "inside", at[u] = s
        PROVE  FALSE
    <3>1. u # t /\ pc[u] = "inside"
      BY <1>6, <2>1, Zenon
    <3>2. u \in entry[s][v].tids
      BY <1>2, <1>6, <2>1, <3>1, Zenon DEF TasksOK
    <3> QED
      BY <1>2, <1>4, <2>1, <3>1, <3>2, Zenon DEF RecordedOK
  <2>2. \A u \in Task : pc'[u] = "inside" => pc[u] = "inside"
    BY <1>6, Zenon
  <2>3. ASSUME NEW x \in Site, mem'[x].op = "jump" \/ Coming(x)'.op = "jump"
        PROVE  mem'[x].op # "old" /\ \A u \in Task : ~(pc'[u] = "inside" /\ at'[u] = x)
    <3>1. CASE pc'[t] = "static" /\ x = s
      BY <1>1, <1>8, <2>1, <3>1, Zenon
    <3>2. CASE Coming(x)' = Coming(x)
      BY <1>1, <1>2, <2>2, <2>3, <3>2, Zenon DEF JumpOK
    <3> QED
      BY <1>7, <3>1, <3>2, Zenon
  <2> QED
    BY <2>3, Zenon DEF JumpOK
<1> QED
  BY <1>9, <1>10, <1>11, <1>14, <1>15, <1>16, <1>17, <1>18, Zenon DEF Inv

(* The handler's finalize makes the entry it refers to static.             *)
LEMMA HandlerStaticStep ==
  ASSUME Inv, NEW t \in Task, HandlerStatic(t)
  PROVE  Inv'
<1> USE RedirectAssumption DEF Inv, HandlerStatic, Moved, Nobody, code, table, progress, tasks
<1>1. RedirectTypeOK'
  <2>1. ref[t] \in Version
    BY DEF RedirectTypeOK, EntriesOK, Version
  <2>2. [entry[at[t]][ref[t]] EXCEPT !.type = "MADE_STATIC"] \in EntryType
    <3>1. entry[at[t]][ref[t]] \in EntryType
      BY <2>1 DEF RedirectTypeOK
    <3> QED
      BY <3>1, Zenon DEF EntryType
  <2>3. entry' \in [Site -> [Version -> EntryType]]
    BY <2>1, <2>2, EntryReplaced, Zenon DEF RedirectTypeOK
  <2> QED
    BY <2>1, <2>3, Zenon DEF RedirectTypeOK
<1>2. TasksOK'
  BY Zenon DEF RedirectTypeOK, TasksOK
<1>3. EntriesOK'
  BY DEF RedirectTypeOK, TasksOK, EntriesOK, Current, Version
<1>4. StaticOK'
  BY DEF RedirectTypeOK, TasksOK, EntriesOK, StaticOK, Static, Coming, Current, Jump, Trap, Old, Version
<1>5. TrapsOK'
  BY Zenon DEF RedirectTypeOK, TrapsOK, Coming, Jump, Trap
<1>6. HitOK'
  BY Zenon DEF RedirectTypeOK, HitOK, Coming, Jump, Trap
<1>7. RecordedOK'
  BY DEF RedirectTypeOK, HitOK, RecordedOK, Coming
<1>8. JumpOK'
  BY Zenon DEF RedirectTypeOK, JumpOK, Coming, Jump, Trap
<1> QED
  BY <1>1, <1>2, <1>3, <1>4, <1>5, <1>6, <1>7, <1>8, Zenon

(* The invariant holds before the first update.                            *)
LEMMA InvInit ==
  ASSUME Init
  PROVE  Inv
<1> USE RedirectAssumption DEF Init, Old
<1>1. Old \in CodeType
  BY DEF CodeType
<1>2. (CHOOSE s \in Site : TRUE) \in Site
  BY Zenon
<1>3. \A v \in Version : [to |-> v, type |-> "ONLY_DYNAMIC", tids |-> {}] \in EntryType
  BY Zenon DEF EntryType
<1>4. entry \in [Site -> [Version -> EntryType]]
  BY <1>3, Zenon
<1>5. RedirectTypeOK
  <2>1. mem \in [Site -> CodeType] /\ buf \in [Site -> CodeType]
    BY <1>1, Zenon
  <2>2. at \in [Task -> Site]
    BY <1>2, Zenon
  <2>3. /\ current \in [Site -> 0 .. MaxTarget] /\ target \in 0 .. MaxTarget
        /\ ref \in [Task -> 0 .. MaxTarget] /\ alive \subseteq Task
    OBVIOUS
  <2> QED
    BY <1>4, <2>1, <2>2, <2>3, Zenon DEF RedirectTypeOK
<1>6. TasksOK /\ EntriesOK
  BY DEF TasksOK, EntriesOK, Nobody
<1>7. StaticOK
  BY Zenon DEF StaticOK, Static
<1>8. TrapsOK /\ HitOK /\ RecordedOK /\ JumpOK
  BY Zenon DEF TrapsOK, HitOK, RecordedOK, JumpOK, Coming
<1> QED
  BY <1>5, <1>6, <1>7, <1>8, Zenon DEF Inv

(* Every step of an update or of a task keeps the invariant.               *)
LEMMA InvNext ==
  ASSUME Inv, [Next]_vars
  PROVE  Inv'
<1>1. CASE NewVersion
  BY <1>1, NewVersionStep, Zenon
<1>2. CASE Finalize
  BY <1>2, FinalizeStep
<1>3. ASSUME NEW s \in Site, add(s)
      PROVE  Inv'
  BY <1>3, addStaticStep, addNewStep, Zenon
<1>4. ASSUME NEW t \in Task, NEW s \in Site, Call(t, s)
      PROVE  Inv'
  BY <1>4, CallStep, Zenon
<1>5. ASSUME NEW t \in Task, Clone(t) \/ Exit(t) \/ Execute(t) \/ Leave(t)
      PROVE  Inv'
  BY <1>5, CloneStep, ExitStep, ExecuteStep, LeaveStep, Zenon
<1>6. ASSUME NEW t \in Task, trap_handler(t)
      PROVE  Inv'
  BY Zenon, <1>6, HandlerCheckStep, HandlerReadStep, HandlerInsertStep, HandlerStaticStep
     DEF trap_handler
<1>7. CASE UNCHANGED vars
  BY <1>7, Zenon DEF vars, code, table, progress, tasks, Inv, RedirectTypeOK, TasksOK, EntriesOK,
              StaticOK, Static, TrapsOK, HitOK, RecordedOK, JumpOK, Coming, Current
<1> QED
  BY <1>1, <1>2, <1>3, <1>4, <1>5, <1>6, <1>7, Zenon DEF Next

(* The invariant holds in every state.                                     *)
THEOREM Invariant == Spec => []Inv
<1> QED
  BY InvInit, InvNext, PTL DEF Spec

(* Code, entries, locks and tasks keep their types.                        *)
THEOREM TypeCorrect == Spec => []RedirectTypeOK
<1>1. Inv => RedirectTypeOK
  BY Zenon DEF Inv
<1> QED
  BY <1>1, Invariant, PTL

(* A trap in memory always has an entry, and an entry that is static has   *)
(* its jump in memory, in every mode.                                      *)
THEOREM CodeMatches == Spec => []CodeMatchesEntries
<1>1. Inv => CodeMatchesEntries
  <2>1. Trap.op = "trap"
    BY Zenon DEF Trap
  <2> QED BY Zenon, <2>1 DEF Inv, TrapsOK, StaticOK, CodeMatchesEntries
<1> QED
  BY <1>1, Invariant, PTL

(* In the modes whose handler resumes at the redirected instruction, no    *)
(* task executes code that static_redirect overwrites.                     *)
THEOREM NoTorn == Offset = 0 => (Spec => []NoTornCode)
<1> SUFFICES ASSUME Offset = 0
             PROVE  Spec => []NoTornCode
  BY Zenon
<1>1. Inv => NoTornCode
  BY DEF Inv, RedirectTypeOK, TasksOK, JumpOK, NoTornCode
<1> QED
  BY <1>1, Invariant, PTL
=============================================================================
