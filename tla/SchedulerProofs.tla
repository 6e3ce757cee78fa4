--------------------------- MODULE SchedulerProofs ---------------------------
(* Theorems about the scheduler, for every table size, heap and workload.   *)
EXTENDS Scheduler, BoundedSets, FiniteSetTheorems, TLAPS

-----------------------------------------------------------------------------
(* Lemmas about the operators of Schedule().                                *)

LEMMA PidsFacts ==
  /\ MAX_TASK_COUNT \in Nat
  /\ MAX_TASK_COUNT >= 2
  /\ Pids \subseteq Nat
  /\ 0 \in Pids
BY MaxTasksAssumption DEF Pids

(* The first empty slot is an empty slot.                                   *)
LEMMA FirstEmptyIsEmpty ==
  ASSUME EmptySlots # {}
  PROVE  FirstEmpty \in EmptySlots
<1>1. EmptySlots \subseteq 0 .. (MAX_TASK_COUNT - 1) /\ MAX_TASK_COUNT - 1 \in Nat
  BY PidsFacts DEF EmptySlots, Pids
<1>2. \E i \in EmptySlots : \A j \in EmptySlots : i <= j
  BY <1>1, LeastElement
<1> QED BY <1>2 DEF FirstEmpty

(* If any task waits, one of them has the highest priority.                 *)
LEMMA TopNonEmpty ==
  ASSUME NEW tt \in [Pids -> Task], Waiting(tt) # {}
  PROVE  Top(tt) # {}
<1>1. \A i \in Waiting(tt) : i \in Pids /\ tt[i].priority \in {0, 1}
  BY DEF Waiting, Task
<1>2. CASE \E i \in Waiting(tt) : tt[i].priority = 1
  BY <1>1, <1>2 DEF Top
<1>3. CASE \A i \in Waiting(tt) : tt[i].priority = 0
  BY <1>3 DEF Top
<1> QED BY <1>1, <1>2, <1>3

(* Schedule's search ends: with a waiting task if there is one, else with   *)
(* the running task, else with task 0.                                      *)
LEMMA PickFacts ==
  ASSUME NEW tt \in [Pids -> Task], NEW cur \in Pids
  PROVE  /\ Pick(tt, cur) \in Pids
         /\ Waiting(tt) # {} => Pick(tt, cur) \in Waiting(tt)
         /\ Waiting(tt) = {} => Pick(tt, cur) \in {0, cur}
         /\ Waiting(tt) = {} /\ tt[cur].state # "RUNNING" => Pick(tt, cur) = 0
<1>1. CASE Waiting(tt) = {}
  <2>1. Top(tt) = {}
    BY <1>1 DEF Top
  <2> QED BY <1>1, <2>1, PidsFacts DEF Pick
<1>2. CASE Waiting(tt) # {}
  <2> DEFINE T == {Turn(cur, i) : i \in Top(tt)}
  <2>1. Top(tt) # {} /\ Top(tt) \subseteq Waiting(tt) /\ Waiting(tt) \subseteq Pids
    BY <1>2, TopNonEmpty DEF Top, Waiting
  <2>2. \A i \in Pids : Turn(cur, i) \in 0 .. MAX_TASK_COUNT
    BY PidsFacts DEF Turn, Pids
  <2>3. T \subseteq 0 .. MAX_TASK_COUNT /\ T # {}
    BY <2>1, <2>2
  <2>4. PICK x \in T : \A y \in T : x <= y
    <3> HIDE DEF T
    <3> QED BY <2>3, LeastElement, PidsFacts
  <2>5. PICK i \in Top(tt) : x = Turn(cur, i)
    OBVIOUS
  <2>6. \A j \in Top(tt) : Turn(cur, i) <= Turn(cur, j)
    BY <2>4, <2>5
  <2>7. Pick(tt, cur) \in Top(tt)
    BY <2>1, <2>6 DEF Pick
  <2> QED BY <1>2, <2>1, <2>7
<1> QED BY <1>1, <1>2

-----------------------------------------------------------------------------
(* What the steps of Schedule() keep of a well-typed table.                 *)

(* The decrement of the word msleep wraps at 0 only.                        *)
LEMMA LessFacts ==
  ASSUME NEW n \in 0 .. (SLEEP_WORD - 1)
  PROVE  /\ Less(n) \in 0 .. (SLEEP_WORD - 1)
         /\ n > 0 => Less(n) = n - 1
<1>1. SLEEP_WORD \in Nat /\ SLEEP_WORD > 0
  BY SleepAssumption
<1>2. n - 1 \in Int /\ (n > 0 => n - 1 \in 0 .. (SLEEP_WORD - 1))
  BY <1>1
<1> QED BY <1>1, <1>2 DEF Less

LEMMA WokenType ==
  ASSUME NEW t \in Task
  PROVE  /\ Woken(t) \in Task
         /\ Woken(t).state \in {"WAITING", "SLEEPING"}
         /\ Woken(t).kstack = t.kstack /\ Woken(t).rsp = t.rsp
         /\ Woken(t).priority = t.priority
         /\ Woken(t).msleep <= t.msleep
<1> DEFINE left == IF t.msleep > 0 THEN Less(t.msleep) ELSE 0
           st   == IF left = 0 THEN "WAITING" ELSE "SLEEPING"
<1>1. t.msleep \in 0 .. (SLEEP_WORD - 1)
  BY DEF Task
<1>2. left \in 0 .. (SLEEP_WORD - 1) /\ left <= t.msleep
  BY <1>1, LessFacts, SleepAssumption
<1>3. st \in {"WAITING", "SLEEPING"} /\ st \in TaskStates
  BY DEF TaskStates
<1>4. Woken(t) = [t EXCEPT !.msleep = left, !.state = st]
  BY DEF Woken
<1> HIDE DEF left, st
<1> QED BY <1>2, <1>3, <1>4 DEF Task

LEMMA EmptyTaskType == EmptyTask \in Task
BY SleepAssumption DEF EmptyTask, Task, TaskStates

(* A round of the scan: a zombie's slot is empty afterwards, a sleeper      *)
(* sleeps on or waits, and no other slot changes.                           *)
LEMMA RoundFacts ==
  ASSUME NEW tt \in [Pids -> Task], NEW i \in Pids
  PROVE  /\ Round(tt, i) \in Task
         /\ i \in Zombies(tt) => Round(tt, i) = EmptyTask
         /\ i \notin Zombies(tt) =>
              /\ Round(tt, i).kstack = tt[i].kstack
              /\ Round(tt, i).rsp = tt[i].rsp
              /\ tt[i].state # "SLEEPING" => Round(tt, i) = tt[i]
              /\ tt[i].state = "SLEEPING" =>
                   Round(tt, i).state \in {"WAITING", "SLEEPING"}
         /\ Round(tt, i).msleep <= tt[i].msleep
<1>1. tt[i] \in Task /\ tt[i].msleep \in 0 .. (SLEEP_WORD - 1)
  BY DEF Task
<1>2. EmptyTask.msleep = 0
  BY DEF EmptyTask
<1> QED BY <1>1, <1>2, WokenType, EmptyTaskType, SleepAssumption DEF Round

LEMMA ScannedFacts ==
  ASSUME NEW tt \in [Pids -> Task]
  PROVE  /\ Scanned(tt) \in [Pids -> Task]
         /\ \A i \in Zombies(tt) : Scanned(tt)[i] = EmptyTask
         /\ \A i \in Pids \ Zombies(tt) :
              /\ Scanned(tt)[i].kstack = tt[i].kstack
              /\ Scanned(tt)[i].rsp = tt[i].rsp
              /\ tt[i].state # "SLEEPING" => Scanned(tt)[i] = tt[i]
              /\ tt[i].state = "SLEEPING" =>
                   Scanned(tt)[i].state \in {"WAITING", "SLEEPING"}
BY RoundFacts DEF Scanned, Zombies

WithState(t, st) == [t EXCEPT !.state = st]

LEMMA WithStateFacts ==
  ASSUME NEW t \in Task, NEW st \in TaskStates
  PROVE  /\ WithState(t, st) \in Task
         /\ WithState(t, st).state = st
         /\ WithState(t, st).kstack = t.kstack
         /\ WithState(t, st).rsp = t.rsp
         /\ WithState(t, st).msleep = t.msleep
BY DEF WithState, Task

LEMMA ParkedFacts ==
  ASSUME NEW tt \in [Pids -> Task], NEW p \in Pids
  PROVE  /\ Parked(tt, p) \in [Pids -> Task]
         /\ \A i \in Pids : /\ Parked(tt, p)[i].kstack = tt[i].kstack
                            /\ Parked(tt, p)[i].msleep = tt[i].msleep
                            /\ i # p => Parked(tt, p)[i] = tt[i]
         /\ Parked(tt, p)[p].state =
              IF tt[p].state = "RUNNING" THEN "WAITING" ELSE tt[p].state
<1> DEFINE st == IF tt[p].state = "RUNNING" THEN "WAITING" ELSE tt[p].state
<1>1. tt[p] \in Task
  OBVIOUS
<1>2. st \in TaskStates
  BY <1>1 DEF Task, TaskStates
<1>3. Parked(tt, p) = [tt EXCEPT ![p] = [tt[p] EXCEPT !.state = st]]
  BY DEF Parked
<1> HIDE DEF st
<1>4. [tt[p] EXCEPT !.state = st] \in Task
  BY <1>1, <1>2 DEF Task
<1>5. /\ [tt[p] EXCEPT !.state = st].state = st
      /\ [tt[p] EXCEPT !.state = st].kstack = tt[p].kstack
      /\ [tt[p] EXCEPT !.state = st].msleep = tt[p].msleep
  BY <1>1 DEF Task
<1> QED BY <1>3, <1>4, <1>5 DEF st

LEMMA CommitUnfolds ==
  ASSUME NEW tt \in [Pids -> Task], NEW p \in Pids, NEW n \in Pids
  PROVE  \E st \in TaskStates :
           /\ st = (IF tt[p].state = "RUNNING" THEN "WAITING" ELSE tt[p].state)
           /\ Commit(tt, p, n) =
                [[tt EXCEPT ![p] = WithState(tt[p], st)]
                   EXCEPT ![n] = WithState(IF n = p THEN WithState(tt[p], st)
                                           ELSE tt[n], "RUNNING")]
<1> DEFINE st == IF tt[p].state = "RUNNING" THEN "WAITING" ELSE tt[p].state
<1>1. tt[p] \in Task
  OBVIOUS
<1>2. st \in TaskStates
  BY <1>1 DEF Task, TaskStates
<1>3. Commit(tt, p, n) =
        [[tt EXCEPT ![p] = WithState(tt[p], st)]
           EXCEPT ![n] = WithState(IF n = p THEN WithState(tt[p], st)
                                   ELSE tt[n], "RUNNING")]
  BY DEF Commit, Parked, WithState
<1> QED BY <1>2, <1>3

LEMMA CommitFacts ==
  ASSUME NEW tt \in [Pids -> Task], NEW p \in Pids, NEW n \in Pids
  PROVE  /\ Commit(tt, p, n) \in [Pids -> Task]
         /\ \A i \in Pids : /\ Commit(tt, p, n)[i].kstack = tt[i].kstack
                            /\ Commit(tt, p, n)[i].rsp = tt[i].rsp
                            /\ Commit(tt, p, n)[i].msleep = tt[i].msleep
                            /\ i \notin {p, n} => Commit(tt, p, n)[i] = tt[i]
<1>1. PICK st \in TaskStates :
        Commit(tt, p, n) =
          [[tt EXCEPT ![p] = WithState(tt[p], st)]
             EXCEPT ![n] = WithState(IF n = p THEN WithState(tt[p], st)
                                     ELSE tt[n], "RUNNING")]
  BY CommitUnfolds
<1>2. "RUNNING" \in TaskStates
  BY DEF TaskStates
<1> QED BY <1>1, <1>2, WithStateFacts

LEMMA CommitStates ==
  ASSUME NEW tt \in [Pids -> Task], NEW p \in Pids, NEW n \in Pids
  PROVE  /\ Commit(tt, p, n)[n].state = "RUNNING"
         /\ p # n /\ tt[p].state = "RUNNING" => Commit(tt, p, n)[p].state = "WAITING"
         /\ p # n /\ tt[p].state # "RUNNING" => Commit(tt, p, n)[p].state = tt[p].state
<1>1. PICK st \in TaskStates :
        /\ st = (IF tt[p].state = "RUNNING" THEN "WAITING" ELSE tt[p].state)
        /\ Commit(tt, p, n) =
             [[tt EXCEPT ![p] = WithState(tt[p], st)]
                EXCEPT ![n] = WithState(IF n = p THEN WithState(tt[p], st)
                                        ELSE tt[n], "RUNNING")]
  BY CommitUnfolds
<1>2. "RUNNING" \in TaskStates
  BY DEF TaskStates
<1> QED BY <1>1, <1>2, WithStateFacts

LEMMA SavedFacts ==
  ASSUME NEW tt \in [Pids -> Task], NEW p \in Pids, cpu \in Threads
  PROVE  /\ Saved(tt, p) \in [Pids -> Task]
         /\ \A i \in Pids : /\ Saved(tt, p)[i].kstack = tt[i].kstack
                            /\ Saved(tt, p)[i].state = tt[i].state
                            /\ Saved(tt, p)[i].msleep = tt[i].msleep
                            /\ i # p => Saved(tt, p)[i] = tt[i]
         /\ Saved(tt, p)[p].rsp = cpu
BY DEF Saved, Task

LEMMA ReapedFacts ==
  ASSUME NEW tt \in [Pids -> Task]
  PROVE  Reaped(tt) \subseteq Stacks
BY DEF Reaped, Freed, Zombies, Task

LEMMA ZombiesFinite ==
  ASSUME NEW tt
  PROVE  IsFiniteSet(Zombies(tt)) /\ Cardinality(Zombies(tt)) \in Nat
<1>1. IsFiniteSet(Pids)
  BY PidsFacts, FS_Interval DEF Pids
<1>2. Zombies(tt) \in SUBSET Pids
  BY DEF Zombies
<1>3. IsFiniteSet(Zombies(tt))
  BY <1>1, <1>2, FS_Subset
<1> QED BY <1>3, FS_CardinalityType

LEMMA ResumeOnType ==
  ASSUME TypeOK, cpu \in Threads, NEW n \in Pids, NEW style \in {"iret", "ret"},
         NEW flag \in BOOLEAN, ResumeOn(n, style, flag)
  PROVE  /\ cpu' \in Threads \cup {NULL}
         /\ IF_flag' \in BOOLEAN
         /\ how' \in [Threads -> {"iret", "ret"}]
<1>1. TaskTable[n].rsp \in Threads \cup {NULL}
  BY DEF TypeOK, Task
<1>2. how' \in [Threads -> {"iret", "ret"}]
  BY DEF TypeOK, ResumeOn
<1> QED BY <1>1, <1>2 DEF ResumeOn

LEMMA MaskedScheduleType ==
  ASSUME TypeOK, cpu \in Threads, NEW tt \in [Pids -> Task],
         NEW style \in {"iret", "ret"}, MaskedSchedule(tt, style)
  PROVE  /\ TaskTable' \in [Pids -> Task]
         /\ TaskCount' \in Int
         /\ CurrentTaskPID' \in Pids
         /\ freeStacks' \subseteq Stacks
         /\ cpu' \in Threads \cup {NULL}
         /\ IF_flag' \in BOOLEAN
         /\ how' \in [Threads -> {"iret", "ret"}]
<1> DEFINE scanned == Scanned(tt)
           nxt     == Pick(scanned, CurrentTaskPID)
<1>1. CurrentTaskPID \in Pids /\ freeStacks \subseteq Stacks /\ TaskCount \in Int
      /\ how \in [Threads -> {"iret", "ret"}]
  BY DEF TypeOK
<1>2. scanned \in [Pids -> Task]
  BY ScannedFacts
<1>3. nxt \in Pids
  BY <1>1, <1>2, PickFacts
<1>4. /\ TaskCount' \in Int /\ CurrentTaskPID' \in Pids
      /\ freeStacks' \subseteq Stacks
  BY <1>1, <1>3, ZombiesFinite, ReapedFacts DEF MaskedSchedule
<1>5. CASE nxt = CurrentTaskPID
  <2>1. TaskTable' = scanned /\ IF_flag' = (style = "iret") /\ UNCHANGED <<cpu, how>>
    BY <1>5 DEF MaskedSchedule
  <2> QED BY <1>1, <1>2, <1>4, <2>1
<1>6. CASE nxt # CurrentTaskPID
  <2>1. /\ TaskTable' = Saved(Commit(scanned, CurrentTaskPID, nxt), CurrentTaskPID)
        /\ ResumeOn(nxt, style, FALSE)
    BY <1>6 DEF MaskedSchedule
  <2>2. TaskTable' \in [Pids -> Task]
    BY <1>1, <1>2, <1>3, <2>1, CommitFacts, SavedFacts
  <2> QED BY <1>3, <1>4, <2>1, <2>2, ResumeOnType
<1> QED BY <1>5, <1>6

-----------------------------------------------------------------------------
(* Type correctness.                                                        *)

LEMMA InitType == Init => TypeOK
<1> SUFFICES ASSUME Init PROVE TypeOK
  OBVIOUS
<1>1. EmptyTask \in Task /\ [EmptyTask EXCEPT !.state = "RUNNING"] \in Task
  BY SleepAssumption DEF EmptyTask, Task, TaskStates
<1>2. TaskTable \in [Pids -> Task]
  BY <1>1 DEF Init
<1>3. \A t \in Threads : pc[t] = "user"
  BY DEF Init
<1>4. pc \in [Threads -> Points]
  BY DEF Init, Points
<1> QED BY <1>2, <1>3, <1>4, PidsFacts
        DEF Init, TypeOK, Threads, AllocWindows, RoundWindows, CommitWindows

(* Record updates the actions make keep a slot well-typed.                  *)
LEMMA TaskUpdates ==
  ASSUME NEW t \in Task
  PROVE  /\ \A st \in TaskStates : [t EXCEPT !.state = st] \in Task
         /\ \A st \in TaskStates, p \in {0, 1} :
              [t EXCEPT !.state = st, !.priority = p] \in Task
         /\ \A st \in TaskStates, k \in 0 .. MaxSleep :
              [t EXCEPT !.msleep = k, !.state = st] \in Task
         /\ \A s \in Stacks \cup {NULL} : [t EXCEPT !.kstack = s] \in Task
         /\ \A s \in Threads \cup {NULL} : [t EXCEPT !.rsp = s] \in Task
<1>1. \A st \in TaskStates : [t EXCEPT !.state = st] \in Task
  BY DEF Task
<1>2. \A st \in TaskStates, p \in {0, 1} :
        [t EXCEPT !.state = st, !.priority = p] \in Task
  BY DEF Task
<1>3. \A st \in TaskStates, k \in 0 .. MaxSleep :
        [t EXCEPT !.msleep = k, !.state = st] \in Task
  <2>1. 0 .. MaxSleep \subseteq 0 .. (SLEEP_WORD - 1)
    BY SleepAssumption
  <2> QED BY <2>1 DEF Task
<1>4. \A s \in Stacks \cup {NULL} : [t EXCEPT !.kstack = s] \in Task
  BY DEF Task
<1>5. \A s \in Threads \cup {NULL} : [t EXCEPT !.rsp = s] \in Task
  BY DEF Task
<1> QED BY <1>1, <1>2, <1>3, <1>4, <1>5

LEMMA LessTask ==
  ASSUME NEW t \in Task
  PROVE  [t EXCEPT !.msleep = Less(@)] \in Task
<1>1. Less(t.msleep) \in 0 .. (SLEEP_WORD - 1)
  BY LessFacts DEF Task
<1> QED BY <1>1 DEF Task

(* What a thread at p holds in its locals.                                  *)
Holds(p, i, n, q, k, b) ==
  /\ p \in {"ct_claim", "ct_alloc", "ct_frame"} \cup AllocWindows => i \in Pids
  /\ p \in AllocWindows \cup {"sc_kfree"} => b # NULL
  /\ p \in {"sc_scan"} \cup RoundWindows => k \in Pids
  /\ p \in {"sc_zombie", "sc_kfree", "sc_clear", "sc_cleared"} => k # 0
  /\ p \in {"sc_commit", "sc_switch"} \cup CommitWindows => n \in Pids
  /\ p \in {"sc_switch"} \cup CommitWindows => q \in Pids

TableType ==
  /\ TaskTable \in [Pids -> Task]
  /\ TaskCount \in Int
  /\ CurrentTaskPID \in Pids
  /\ freeStacks \subseteq Stacks

CpuType ==
  /\ cpu \in Threads \cup {NULL}
  /\ IF_flag \in BOOLEAN
  /\ how \in [Threads -> {"iret", "ret"}]

LocalsType ==
  /\ pc \in [Threads -> Points]
  /\ id \in [Threads -> Pids \cup {-1}]
  /\ next_pid \in [Threads -> Pids \cup {-1}]
  /\ prev \in [Threads -> Pids \cup {-1}]
  /\ slot \in [Threads -> Pids \cup {-1}]
  /\ blk \in [Threads -> Stacks \cup {NULL}]

LEMMA TypeParts ==
  TypeOK <=> /\ TableType /\ CpuType /\ LocalsType
             /\ \A t \in Threads :
                  Holds(pc[t], id[t], next_pid[t], prev[t], slot[t], blk[t])
BY DEF TypeOK, TableType, CpuType, LocalsType, Holds

(* A step moves the thread on the CPU and touches the locals of no other.   *)
MovesCpuOnly ==
  /\ LocalsType'
  /\ \A t \in Threads \ {cpu} :
       /\ pc'[t] = pc[t] /\ id'[t] = id[t] /\ next_pid'[t] = next_pid[t]
       /\ prev'[t] = prev[t] /\ slot'[t] = slot[t] /\ blk'[t] = blk[t]

(* Such a step keeps the types if the table's and the CPU's are kept and    *)
(* the thread holds what its next program point needs.                      *)
LEMMA ThreadStepType ==
  ASSUME TypeOK, cpu \in Threads, TableType', CpuType', MovesCpuOnly,
         Holds(pc'[cpu], id'[cpu], next_pid'[cpu], prev'[cpu], slot'[cpu], blk'[cpu])
  PROVE  TypeOK'
<1>1. \A t \in Threads :
        Holds(pc[t], id[t], next_pid[t], prev[t], slot[t], blk[t])
  BY TypeParts
<1>2. \A t \in Threads :
        Holds(pc'[t], id'[t], next_pid'[t], prev'[t], slot'[t], blk'[t])
  BY <1>1 DEF MovesCpuOnly
<1> QED BY <1>2 DEF MovesCpuOnly, TypeOK, TableType, CpuType, LocalsType, Holds

(* Steps that leave every thread's locals alone.                            *)
LEMMA LocalsKeptType ==
  ASSUME TypeOK, cpu \in Threads, TableType', CpuType', UNCHANGED locals,
         \/ UNCHANGED pc
         \/ \E p \in {"user", "dead", "kt_exit"} : GoTo(p)
  PROVE  TypeOK'
<1>1. LocalsType /\ Holds(pc[cpu], id[cpu], next_pid[cpu], prev[cpu], slot[cpu], blk[cpu])
  BY TypeParts
<1>2. UNCHANGED <<id, next_pid, prev, slot, blk>>
  BY DEF locals
<1>3. CASE UNCHANGED pc
  <2>1. MovesCpuOnly
    BY <1>1, <1>2, <1>3 DEF MovesCpuOnly, LocalsType
  <2> QED BY <1>1, <1>2, <1>3, <2>1, ThreadStepType
<1>4. ASSUME NEW p \in {"user", "dead", "kt_exit"}, GoTo(p) PROVE TypeOK'
  <2>1. p \in Points
    BY DEF Points, Windows
  <2>2. pc' = [pc EXCEPT ![cpu] = p]
    BY <1>4 DEF GoTo
  <2>3. MovesCpuOnly /\ pc'[cpu] = p
    BY <1>1, <1>2, <2>1, <2>2 DEF MovesCpuOnly, LocalsType
  <2>4. Holds(p, id'[cpu], next_pid'[cpu], prev'[cpu], slot'[cpu], blk'[cpu])
    BY DEF Holds, AllocWindows, RoundWindows, CommitWindows
  <2> QED BY <2>3, <2>4, ThreadStepType
<1> QED BY <1>3, <1>4

LEMMA ExitType ==
  ASSUME TypeOK, cpu \in Threads, Exit
  PROVE  TypeOK'
<1>1. CASE CurrentTaskPID = 0
  <2>1. TableType' /\ CpuType'
    BY <1>1 DEF Exit, TypeOK, TableType, CpuType
  <2> QED BY <1>1, <2>1, LocalsKeptType DEF Exit
<1>2. CASE CurrentTaskPID # 0
  <2> DEFINE tt == [TaskTable EXCEPT ![CurrentTaskPID].state = "ZOMBIE"]
  <2>1. tt \in [Pids -> Task]
    BY TaskUpdates, Zenon DEF TypeOK, TaskStates
  <2>2. MaskedSchedule(tt, "ret") /\ GoTo("dead") /\ UNCHANGED locals
    BY <1>2 DEF Exit
  <2> HIDE DEF tt
  <2>3. TableType' /\ CpuType'
    BY <2>1, <2>2, MaskedScheduleType DEF TableType, CpuType
  <2> QED BY <2>2, <2>3, LocalsKeptType
<1> QED BY <1>1, <1>2

LEMMA KillType ==
  ASSUME TypeOK, cpu \in Threads, NEW pid \in Pids, Kill(pid)
  PROVE  TypeOK'
<1>1. TaskTable \in [Pids -> Task] /\ TaskTable[pid] \in Task
  BY DEF TypeOK
<1>2. [TaskTable EXCEPT ![pid].state = "ZOMBIE"] \in [Pids -> Task]
  <2>1. [TaskTable[pid] EXCEPT !.state = "ZOMBIE"] \in Task
    BY <1>1, TaskUpdates, Zenon DEF TaskStates
  <2> QED BY <1>1, <2>1
<1>3. \/ UNCHANGED TaskTable
      \/ TaskTable' = [TaskTable EXCEPT ![pid].state = "ZOMBIE"]
  BY DEF Kill
<1>4. TableType' /\ CpuType'
  BY <1>1, <1>2, <1>3 DEF Kill, TypeOK, TableType, CpuType
<1> QED BY <1>4, LocalsKeptType DEF Kill

\* Memberships among the program points that the provers need one by one.
LEMMA PointsFacts ==
  /\ {"user", "child", "dead", "kt_exit", "ct_claim", "ct_alloc", "ct_frame",
      "sc_scan", "sc_pick", "sc_commit", "sc_switch"} \subseteq Points
  /\ AllocWindows \subseteq Points /\ RoundWindows \subseteq Points
  /\ CommitWindows \subseteq Points
BY DEF Points, Windows

LEMMA CreateType ==
  ASSUME TypeOK, CreateFind \/ CreateClaim \/ CreateAlloc \/ CreateAllocSteps
  PROVE  TypeOK'
<1>0. /\ TaskTable \in [Pids -> Task] /\ TableType /\ CpuType /\ LocalsType
      /\ NULL \notin Stacks /\ cpu \in Threads
      /\ Holds(pc[cpu], id[cpu], next_pid[cpu], prev[cpu], slot[cpu], blk[cpu])
  <2>1. cpu \in Threads
    BY DEF CreateFind, CreateClaim, CreateAlloc, CreateAllocSteps, KmallocFind,
           KmallocClaim, StoreStack, UserCall, At, TypeOK
  <2> QED BY <2>1, TypeParts, StacksAssumption DEF TableType
<1>1. CASE CreateFind
  <2>1. FirstEmpty \in Pids
    BY <1>1, FirstEmptyIsEmpty DEF CreateFind, EmptySlots
  <2>2. MovesCpuOnly /\ pc'[cpu] = "ct_claim" /\ id'[cpu] \in Pids
    BY <1>0, <1>1, <2>1, PointsFacts DEF CreateFind, GoTo, MovesCpuOnly, LocalsType
  <2>3. Holds(pc'[cpu], id'[cpu], next_pid'[cpu], prev'[cpu], slot'[cpu], blk'[cpu])
    BY <2>2 DEF Holds, AllocWindows, RoundWindows, CommitWindows
  <2>4. TableType' /\ CpuType'
    BY <1>0, <1>1 DEF CreateFind, TableType, CpuType
  <2> QED BY <1>0, <2>2, <2>3, <2>4, ThreadStepType
<1>2. CASE CreateClaim
  <2>1. TaskTable' \in [Pids -> Task]
    BY <1>0, <1>2, TaskUpdates, Zenon DEF CreateClaim, TaskStates
  <2>2. id[cpu] \in Pids
    BY <1>0, <1>2 DEF CreateClaim, At, Holds
  <2>3. MovesCpuOnly /\ pc'[cpu] = "ct_alloc" /\ id'[cpu] \in Pids
    BY <1>0, <1>2, <2>2, PointsFacts DEF CreateClaim, GoTo, MovesCpuOnly, LocalsType, locals
  <2>4. Holds(pc'[cpu], id'[cpu], next_pid'[cpu], prev'[cpu], slot'[cpu], blk'[cpu])
    BY <2>3 DEF Holds, AllocWindows, RoundWindows, CommitWindows
  <2>5. TableType' /\ CpuType'
    BY <1>0, <1>2, <2>1 DEF CreateClaim, TableType, CpuType
  <2> QED BY <1>0, <2>3, <2>4, <2>5, ThreadStepType
<1>3. CASE CreateAlloc
  <2>1. PICK s \in freeStacks \cup {NULL} : AllocStack(TaskTable, id[cpu], s)
    BY <1>3 DEF CreateAlloc
  <2>2. TaskTable' \in [Pids -> Task] /\ freeStacks' \subseteq Stacks
    BY <1>0, <2>1, TaskUpdates DEF AllocStack, TableType
  <2>3. id[cpu] \in Pids
    BY <1>0, <1>3 DEF CreateAlloc, At, Holds
  <2>4. /\ MovesCpuOnly
        /\ pc'[cpu] = "user" \/ (pc'[cpu] = "ct_frame" /\ id'[cpu] \in Pids)
    BY <1>0, <1>3, <2>3, PointsFacts DEF CreateAlloc, GoTo, MovesCpuOnly, LocalsType
  <2>5. Holds(pc'[cpu], id'[cpu], next_pid'[cpu], prev'[cpu], slot'[cpu], blk'[cpu])
    BY <2>4 DEF Holds, AllocWindows, RoundWindows, CommitWindows
  <2>6. TableType' /\ CpuType'
    BY <1>0, <1>3, <2>2 DEF CreateAlloc, TableType, CpuType
  <2> QED BY <1>0, <2>4, <2>5, <2>6, ThreadStepType
<1>4. CASE CreateAllocSteps
  <2>0. id[cpu] \in Pids /\ pc[cpu] \in {"ct_alloc"} \cup AllocWindows
        /\ UNCHANGED <<CpuType, next_pid, prev, slot, TaskCount, CurrentTaskPID>>
    BY <1>0, <1>4 DEF CreateAllocSteps, KmallocFind, KmallocClaim, StoreStack, At,
         Holds, AllocWindows, CpuType
  <2>1. CASE KmallocFind
    <3>1. PICK s \in freeStacks : blk' = [blk EXCEPT ![cpu] = s]
      BY <2>1 DEF KmallocFind
    <3>2. s \in Stacks /\ s # NULL
      BY <1>0, <3>1 DEF TableType
    <3>3. pc' = [pc EXCEPT ![cpu] = "ct_kmalloc"] /\ UNCHANGED <<TaskTable, freeStacks, id>>
          /\ "ct_kmalloc" \in Points
      BY <2>1, PointsFacts DEF KmallocFind, GoTo, AllocWindows
    <3>4. /\ MovesCpuOnly /\ pc'[cpu] = "ct_kmalloc" /\ id'[cpu] \in Pids
          /\ blk'[cpu] # NULL
      BY <1>0, <2>0, <3>1, <3>2, <3>3 DEF MovesCpuOnly, LocalsType
    <3>5. Holds(pc'[cpu], id'[cpu], next_pid'[cpu], prev'[cpu], slot'[cpu], blk'[cpu])
      BY <3>4 DEF Holds, AllocWindows, RoundWindows, CommitWindows
    <3> QED BY <1>0, <2>0, <3>3, <3>4, <3>5, ThreadStepType DEF TableType
  <2>2. CASE KmallocClaim
    <3>1. pc' = [pc EXCEPT ![cpu] = "ct_store"] /\ UNCHANGED <<TaskTable, blk, id>>
          /\ "ct_store" \in Points /\ freeStacks' \subseteq freeStacks
      BY <2>2, PointsFacts DEF KmallocClaim, GoTo, AllocWindows
    <3>2. blk[cpu] # NULL
      BY <1>0, <2>2 DEF KmallocClaim, At, Holds, AllocWindows
    <3>3. /\ MovesCpuOnly /\ pc'[cpu] = "ct_store" /\ id'[cpu] \in Pids
          /\ blk'[cpu] # NULL
      BY <1>0, <2>0, <3>1, <3>2 DEF MovesCpuOnly, LocalsType
    <3>4. Holds(pc'[cpu], id'[cpu], next_pid'[cpu], prev'[cpu], slot'[cpu], blk'[cpu])
      BY <3>3 DEF Holds, AllocWindows, RoundWindows, CommitWindows
    <3> QED BY <1>0, <2>0, <3>1, <3>3, <3>4, ThreadStepType DEF TableType
  <2>3. CASE StoreStack
    <3>1. pc' = [pc EXCEPT ![cpu] = "ct_frame"] /\ UNCHANGED <<freeStacks, id>>
          /\ blk' = [blk EXCEPT ![cpu] = NULL]
          /\ TaskTable' = [TaskTable EXCEPT ![id[cpu]].kstack = blk[cpu]]
      BY <2>3 DEF StoreStack, GoTo
    <3>2. blk[cpu] \in Stacks \cup {NULL}
      BY <1>0 DEF LocalsType
    <3>3. TaskTable' \in [Pids -> Task]
      BY <1>0, <2>0, <3>1, <3>2, TaskUpdates
    <3>4. MovesCpuOnly /\ pc'[cpu] = "ct_frame" /\ id'[cpu] \in Pids
      BY <1>0, <2>0, <3>1, PointsFacts DEF MovesCpuOnly, LocalsType
    <3>5. Holds(pc'[cpu], id'[cpu], next_pid'[cpu], prev'[cpu], slot'[cpu], blk'[cpu])
      BY <3>4 DEF Holds, AllocWindows, RoundWindows, CommitWindows
    <3> QED BY <1>0, <2>0, <3>1, <3>3, <3>4, <3>5, ThreadStepType DEF TableType
  <2> QED BY <1>4, <2>1, <2>2, <2>3 DEF CreateAllocSteps
<1> QED BY <1>1, <1>2, <1>3, <1>4

LEMMA CreateFrameType ==
  ASSUME TypeOK, CreateFrame
  PROVE  TypeOK'
<1> DEFINE s == TaskTable[id[cpu]].kstack
<1>0. /\ TaskTable \in [Pids -> Task] /\ TableType /\ CpuType /\ LocalsType
      /\ cpu \in Threads
      /\ Holds(pc[cpu], id[cpu], next_pid[cpu], prev[cpu], slot[cpu], blk[cpu])
  BY TypeParts DEF TableType, CpuType, CreateFrame, At
<1>1. id[cpu] \in Pids /\ s \in Stacks \cup {NULL}
  BY <1>0 DEF CreateFrame, At, Holds, Task
<1>2. /\ id' = [id EXCEPT ![cpu] = -1]
      /\ UNCHANGED <<CurrentTaskPID, freeStacks, cpu, IF_flag, next_pid, prev, slot, blk>>
  BY DEF CreateFrame
<1>3. CASE s # NULL
  <2>1. s \in Threads /\ s \in Stacks
    BY <1>1, <1>3 DEF Threads
  <2>2. /\ TaskTable' = [TaskTable EXCEPT ![id[cpu]].rsp = s]
        /\ how' = [how EXCEPT ![s] = "iret"]
        /\ pc' = [pc EXCEPT ![s] = "user", ![cpu] = "user"]
        /\ TaskCount' = TaskCount + 1
    BY <1>3 DEF CreateFrame
  <2>3. TaskTable' \in [Pids -> Task]
    BY <1>0, <1>1, <2>1, <2>2, TaskUpdates
  <2> HIDE DEF s
  <2>4. TableType' /\ CpuType'
    BY <1>0, <1>2, <2>1, <2>2, <2>3 DEF TableType, CpuType
  <2>5. LocalsType'
    BY <1>0, <1>2, <2>1, <2>2, PointsFacts DEF LocalsType
  <2>6. \A t \in Threads :
          /\ pc'[t] = "user" \/ (pc'[t] = pc[t] /\ id'[t] = id[t])
          /\ next_pid'[t] = next_pid[t] /\ prev'[t] = prev[t]
          /\ slot'[t] = slot[t] /\ blk'[t] = blk[t]
    BY <1>0, <1>2, <2>1, <2>2 DEF LocalsType
  <2>7. \A t \in Threads :
          Holds(pc'[t], id'[t], next_pid'[t], prev'[t], slot'[t], blk'[t])
    <3> SUFFICES ASSUME NEW t \in Threads
                 PROVE  Holds(pc'[t], id'[t], next_pid'[t], prev'[t], slot'[t], blk'[t])
      OBVIOUS
    <3>1. CASE pc'[t] = "user"
      BY <3>1 DEF Holds, AllocWindows, RoundWindows, CommitWindows
    <3>2. CASE pc'[t] = pc[t] /\ id'[t] = id[t]
      BY <2>6, <3>2, TypeParts
    <3> QED BY <2>6, <3>1, <3>2
  <2> QED BY <2>4, <2>5, <2>7 DEF TypeOK, TableType, CpuType, LocalsType, Holds
<1>4. CASE s = NULL
  <2>1. pc' = [pc EXCEPT ![cpu] = "user"] /\ UNCHANGED <<TaskTable, TaskCount, how>>
    BY <1>4 DEF CreateFrame, GoTo
  <2>2. TableType' /\ CpuType'
    BY <1>0, <1>2, <2>1 DEF TableType, CpuType
  <2>3. MovesCpuOnly /\ pc'[cpu] = "user"
    BY <1>0, <1>2, <2>1, PointsFacts DEF MovesCpuOnly, LocalsType
  <2>4. Holds(pc'[cpu], id'[cpu], next_pid'[cpu], prev'[cpu], slot'[cpu], blk'[cpu])
    BY <2>3 DEF Holds, AllocWindows, RoundWindows, CommitWindows
  <2> QED BY <1>0, <2>2, <2>3, <2>4, ThreadStepType
<1> QED BY <1>3, <1>4

LEMMA TaskForkType ==
  ASSUME TypeOK, TaskFork
  PROVE  TypeOK'
<1>0. /\ TaskTable \in [Pids -> Task] /\ TableType /\ CpuType /\ LocalsType
      /\ cpu \in Threads /\ UNCHANGED locals
      /\ IF_flag' = TRUE /\ UNCHANGED <<CurrentTaskPID, cpu>>
  BY TypeParts DEF TableType, CpuType, TaskFork, UserCall, At
<1>1. CASE EmptySlots = {}
  <2>1. UNCHANGED <<TaskTable, TaskCount, freeStacks, pc, how>>
    BY <1>1 DEF TaskFork
  <2>2. TableType' /\ CpuType'
    BY <1>0, <2>1 DEF TableType, CpuType
  <2> QED BY <1>0, <2>1, <2>2, LocalsKeptType
<1>2. CASE EmptySlots # {}
  <2> DEFINE child == FirstEmpty
             claimed == [TaskTable EXCEPT
                           ![child].state = "WAITING",
                           ![child].priority = TaskTable[CurrentTaskPID].priority]
  <2>1. child \in Pids /\ TaskTable[CurrentTaskPID].priority \in {0, 1}
    BY <1>0, <1>2, FirstEmptyIsEmpty DEF EmptySlots, TableType, Task
  <2>2. claimed \in [Pids -> Task]
    BY <1>0, <2>1, TaskUpdates, Zenon DEF TaskStates
  <2> HIDE DEF claimed
  <2>3. ASSUME NEW s \in freeStacks,
               AllocStack([claimed EXCEPT ![child].rsp = s], child, s),
               pc' = [pc EXCEPT ![s] = "child"],
               how' = [how EXCEPT ![s] = "iret"],
               TaskCount' = TaskCount + 1
        PROVE  TypeOK'
    <3>1. s \in Stacks /\ s \in Threads
      BY <1>0 DEF TableType, Threads
    <3>2. [claimed EXCEPT ![child].rsp = s] \in [Pids -> Task]
      BY <2>1, <2>2, <3>1, TaskUpdates, Zenon
    <3>3. TableType' /\ CpuType'
      <4>1. TaskTable' \in [Pids -> Task] /\ freeStacks' \subseteq freeStacks
        BY <2>1, <2>3, <3>1, <3>2, TaskUpdates, Zenon DEF AllocStack
      <4> QED BY <1>0, <2>3, <3>1, <4>1 DEF TableType, CpuType
    <3>4. LocalsType'
      BY <1>0, <2>3, <3>1, PointsFacts DEF LocalsType, locals
    <3>5. \A t \in Threads :
            Holds(pc'[t], id'[t], next_pid'[t], prev'[t], slot'[t], blk'[t])
      <4> SUFFICES ASSUME NEW t \in Threads
                   PROVE  Holds(pc'[t], id'[t], next_pid'[t], prev'[t], slot'[t], blk'[t])
        OBVIOUS
      <4>1. CASE t = s
        <5>1. pc'[t] = "child"
          BY <1>0, <2>3, <3>1, <4>1 DEF LocalsType
        <5> QED BY <5>1 DEF Holds, AllocWindows, RoundWindows, CommitWindows
      <4>2. CASE t # s
        <5>1. pc'[t] = pc[t]
          BY <1>0, <2>3, <4>2 DEF LocalsType
        <5>2. Holds(pc[t], id[t], next_pid[t], prev[t], slot[t], blk[t])
          BY TypeParts
        <5> QED BY <1>0, <5>1, <5>2 DEF locals
      <4> QED BY <4>1, <4>2
    <3> QED BY <3>3, <3>4, <3>5 DEF TypeOK, TableType, CpuType, LocalsType, Holds
  <2>4. ASSUME AllocStack(claimed, child, NULL), UNCHANGED <<TaskCount, pc, how>>
        PROVE  TypeOK'
    <3>1. TableType' /\ CpuType'
      BY <1>0, <2>1, <2>2, <2>4, TaskUpdates DEF AllocStack, TableType, CpuType
    <3> QED BY <1>0, <2>4, <3>1, LocalsKeptType
  <2> QED BY <1>2, <2>3, <2>4 DEF TaskFork, claimed
<1> QED BY <1>1, <1>2

(* The end of a round keeps the thread inside the scan or takes it out.     *)
LEMMA EndRoundFacts ==
  ASSUME LocalsType, cpu \in Threads, slot[cpu] \in Pids, EndRound
  PROVE  /\ pc' \in [Threads -> Points]
         /\ slot' \in [Threads -> Pids \cup {-1}]
         /\ \/ pc'[cpu] = "sc_pick"
            \/ pc'[cpu] = "sc_scan" /\ slot'[cpu] \in Pids
         /\ \A t \in Threads \ {cpu} : pc'[t] = pc[t] /\ slot'[t] = slot[t]
<1>1. pc \in [Threads -> Points] /\ slot \in [Threads -> Pids \cup {-1}]
      /\ "sc_pick" \in Points /\ "sc_scan" \in Points
  BY PointsFacts DEF LocalsType
<1>2. CASE slot[cpu] = MAX_TASK_COUNT - 1
  <2>1. pc' = [pc EXCEPT ![cpu] = "sc_pick"] /\ slot' = [slot EXCEPT ![cpu] = -1]
    BY <1>2 DEF EndRound, GoTo
  <2> QED BY <1>1, <2>1
<1>3. CASE slot[cpu] # MAX_TASK_COUNT - 1
  <2>1. pc' = [pc EXCEPT ![cpu] = "sc_scan"]
        /\ slot' = [slot EXCEPT ![cpu] = slot[cpu] + 1]
    BY <1>3 DEF EndRound, GoTo
  <2>2. slot[cpu] + 1 \in Pids
    BY <1>3, PidsFacts DEF Pids
  <2> QED BY <1>1, <2>1, <2>2
<1> QED BY <1>2, <1>3

(* A step that ends a round and leaves the other locals alone.              *)
LEMMA EndRoundType ==
  ASSUME TypeOK, cpu \in Threads, slot[cpu] \in Pids, EndRound,
         UNCHANGED <<id, next_pid, prev, blk>>, TableType', CpuType'
  PROVE  TypeOK'
<1>1. LocalsType
  BY TypeParts
<1>2. MovesCpuOnly
  BY <1>1, EndRoundFacts DEF MovesCpuOnly, LocalsType
<1>3. Holds(pc'[cpu], id'[cpu], next_pid'[cpu], prev'[cpu], slot'[cpu], blk'[cpu])
  BY <1>1, EndRoundFacts DEF Holds, AllocWindows, RoundWindows, CommitWindows
<1> QED BY <1>2, <1>3, ThreadStepType

LEMMA ScanType ==
  ASSUME TypeOK, Msleep \/ ScheduleScan
  PROVE  TypeOK'
<1>0. /\ TaskTable \in [Pids -> Task] /\ TableType /\ CpuType /\ LocalsType
      /\ CurrentTaskPID \in Pids /\ TaskCount \in Int
      /\ cpu \in Threads
      /\ Holds(pc[cpu], id[cpu], next_pid[cpu], prev[cpu], slot[cpu], blk[cpu])
  BY TypeParts DEF TableType, CpuType, Msleep, ScheduleScan, UserCall, At
<1>1. CASE Msleep
  <2>1. PICK k \in 0 .. MaxSleep :
          TaskTable' = [TaskTable EXCEPT ![CurrentTaskPID].msleep = k,
                                         ![CurrentTaskPID].state = "SLEEPING"]
    BY <1>1 DEF Msleep
  <2>2. [TaskTable[CurrentTaskPID] EXCEPT !.msleep = k, !.state = "SLEEPING"] \in Task
    BY <1>0, TaskUpdates, Zenon DEF TaskStates
  <2>3. TaskTable' \in [Pids -> Task]
    BY <1>0, <2>1, <2>2
  <2>4. TableType' /\ CpuType'
    BY <1>0, <1>1, <2>3 DEF Msleep, TableType, CpuType
  <2>5. /\ MovesCpuOnly /\ pc'[cpu] = "sc_scan" /\ slot'[cpu] \in Pids
    BY <1>0, <1>1, PidsFacts, PointsFacts DEF Msleep, GoTo, MovesCpuOnly, LocalsType
  <2>6. Holds(pc'[cpu], id'[cpu], next_pid'[cpu], prev'[cpu], slot'[cpu], blk'[cpu])
    BY <2>5 DEF Holds, AllocWindows, RoundWindows, CommitWindows
  <2> QED BY <1>0, <2>4, <2>5, <2>6, ThreadStepType
<1>2. CASE ScheduleScan
  <2>1. slot[cpu] \in Pids
    BY <1>0, <1>2 DEF ScheduleScan, At, Holds
  <2>2. Round(TaskTable, slot[cpu]) \in Task
    BY <1>0, <2>1, RoundFacts
  <2>3. Freed(TaskTable, slot[cpu]) \subseteq Stacks
    BY <1>0, <2>1 DEF Freed, Task
  <2>4. TableType' /\ CpuType'
    BY <1>0, <1>2, <2>1, <2>2, <2>3 DEF ScheduleScan, TableType, CpuType
  <2> QED BY <1>0, <1>2, <2>1, <2>4, EndRoundType DEF ScheduleScan
<1> QED BY <1>1, <1>2

(* The statements of a round.                                               *)
LEMMA ScanStepsType ==
  ASSUME TypeOK, ScheduleScanSteps
  PROVE  TypeOK'
<1>0. /\ TaskTable \in [Pids -> Task] /\ TableType /\ CpuType /\ LocalsType
      /\ cpu \in Threads /\ NULL \notin Stacks /\ CpuType'
      /\ Holds(pc[cpu], id[cpu], next_pid[cpu], prev[cpu], slot[cpu], blk[cpu])
      /\ UNCHANGED <<CurrentTaskPID, id, next_pid, prev>>
      /\ TaskCount \in Int /\ freeStacks \subseteq Stacks
  BY TypeParts, StacksAssumption
     DEF TableType, CpuType, ScheduleScanSteps, RoundBegin, ZombieStack, ZombieFree,
         ZombieClear, ZombieEmpty, ZombieCount, SleeperTest, SleeperCount,
         SleeperOver, SleeperWake, At
<1>1. slot[cpu] \in Pids
  BY <1>0 DEF ScheduleScanSteps, RoundBegin, ZombieStack, ZombieFree, ZombieClear,
     ZombieEmpty, ZombieCount, SleeperTest, SleeperCount, SleeperOver, SleeperWake,
     At, Holds, RoundWindows
<1>2. TaskTable[slot[cpu]] \in Task
  BY <1>0, <1>1
\* A statement after which the thread is inside the same round.
<1>3. ASSUME NEW p \in RoundWindows, GoTo(p), UNCHANGED slot, TableType',
             blk' \in [Threads -> Stacks \cup {NULL}],
             \A t \in Threads \ {cpu} : blk'[t] = blk[t],
             p = "sc_kfree" => blk'[cpu] # NULL,
             p \in {"sc_zombie", "sc_kfree", "sc_clear", "sc_cleared"} => slot[cpu] # 0
      PROVE  TypeOK'
  <2>1. p \in Points /\ pc' = [pc EXCEPT ![cpu] = p]
    BY <1>3, PointsFacts DEF GoTo
  <2>2. MovesCpuOnly /\ pc'[cpu] = p /\ slot'[cpu] = slot[cpu]
    BY <1>0, <1>3, <2>1 DEF MovesCpuOnly, LocalsType
  <2>3. Holds(p, id'[cpu], next_pid'[cpu], prev'[cpu], slot'[cpu], blk'[cpu])
    BY <1>1, <1>3, <2>2 DEF Holds, AllocWindows, RoundWindows, CommitWindows
  <2> QED BY <1>0, <1>3, <2>2, <2>3, ThreadStepType
<1>4. ASSUME EndRound, UNCHANGED blk, TableType' PROVE TypeOK'
  BY <1>0, <1>1, <1>4, EndRoundType
<1>5. CASE RoundBegin
  <2>1. TableType' /\ UNCHANGED blk
    BY <1>0, <1>5 DEF RoundBegin, TableType
  <2>2. CASE slot[cpu] \in Zombies(TaskTable)
    <3>1. GoTo("sc_zombie") /\ UNCHANGED slot /\ slot[cpu] # 0
      BY <1>5, <2>2 DEF RoundBegin, Zombies
    <3> QED BY <1>0, <1>3, <2>1, <3>1 DEF RoundWindows, LocalsType
  <2>3. CASE slot[cpu] \notin Zombies(TaskTable) /\ TaskTable[slot[cpu]].state = "SLEEPING"
    <3>1. GoTo("sc_sleeper") /\ UNCHANGED slot
      BY <1>5, <2>3 DEF RoundBegin
    <3> QED BY <1>0, <1>3, <2>1, <3>1 DEF RoundWindows, LocalsType
  <2>4. CASE slot[cpu] \notin Zombies(TaskTable) /\ TaskTable[slot[cpu]].state # "SLEEPING"
    BY <1>4, <1>5, <2>1, <2>4 DEF RoundBegin
  <2> QED BY <2>2, <2>3, <2>4
<1>6. CASE ZombieStack
  <2> DEFINE s == TaskTable[slot[cpu]].kstack
             p == IF s = NULL THEN "sc_clear" ELSE "sc_kfree"
  <2>1. s \in Stacks \cup {NULL} /\ slot[cpu] # 0
    BY <1>0, <1>2, <1>6 DEF ZombieStack, At, Holds, Task
  <2>2. /\ GoTo(p) /\ blk' = [blk EXCEPT ![cpu] = s]
        /\ UNCHANGED <<TaskTable, TaskCount, freeStacks, slot>>
    BY <1>6 DEF ZombieStack
  <2>3. p \in RoundWindows /\ (p = "sc_kfree" => s # NULL)
    BY DEF RoundWindows
  <2> HIDE DEF s, p
  <2>4. /\ blk' \in [Threads -> Stacks \cup {NULL}] /\ blk'[cpu] = s
        /\ \A t \in Threads \ {cpu} : blk'[t] = blk[t]
    BY <1>0, <2>1, <2>2 DEF LocalsType
  <2>5. TableType'
    BY <1>0, <2>2 DEF TableType
  <2> QED BY <1>3, <2>1, <2>2, <2>3, <2>4, <2>5
<1>7. CASE ZombieFree
  <2>1. slot[cpu] # 0 /\ blk[cpu] \in Stacks
    BY <1>0, <1>7 DEF ZombieFree, At, Holds, LocalsType
  <2>2. /\ TableType' /\ GoTo("sc_clear") /\ UNCHANGED slot
        /\ blk' \in [Threads -> Stacks \cup {NULL}]
        /\ \A t \in Threads \ {cpu} : blk'[t] = blk[t]
    BY <1>0, <1>7, <2>1 DEF ZombieFree, TableType, LocalsType
  <2>3. "sc_clear" \in RoundWindows
    BY DEF RoundWindows
  <2> QED BY <1>3, <2>1, <2>2, <2>3
<1>8. CASE ZombieClear
  <2>1. slot[cpu] # 0
    BY <1>0, <1>8 DEF ZombieClear, At, Holds
  <2>2. TableType' /\ GoTo("sc_cleared") /\ UNCHANGED <<slot, blk>>
    BY <1>0, <1>1, <1>8, EmptyTaskType DEF ZombieClear, TableType
  <2>3. "sc_cleared" \in RoundWindows
    BY DEF RoundWindows
  <2> QED BY <1>0, <1>3, <2>1, <2>2, <2>3 DEF LocalsType
<1>9. CASE ZombieEmpty
  <2>1. [TaskTable[slot[cpu]] EXCEPT !.state = "EMPTY"] \in Task
    BY <1>2, TaskUpdates, Zenon DEF TaskStates
  <2>2. TableType' /\ GoTo("sc_erased") /\ UNCHANGED <<slot, blk>>
    BY <1>0, <1>1, <1>9, <2>1 DEF ZombieEmpty, TableType
  <2>3. "sc_erased" \in RoundWindows
    BY DEF RoundWindows
  <2> QED BY <1>0, <1>3, <2>2, <2>3 DEF LocalsType
<1>10. CASE ZombieCount
  <2>1. TableType' /\ EndRound /\ UNCHANGED blk
    BY <1>0, <1>10 DEF ZombieCount, TableType
  <2> QED BY <1>4, <2>1
<1>11. CASE SleeperTest
  <2>1. TableType' /\ UNCHANGED <<slot, blk>>
        /\ (GoTo("sc_dec") \/ GoTo("sc_test"))
    BY <1>0, <1>11 DEF SleeperTest, TableType
  <2>2. {"sc_dec", "sc_test"} \subseteq RoundWindows
    BY DEF RoundWindows
  <2> QED BY <1>0, <1>3, <2>1, <2>2 DEF LocalsType
<1>12. CASE SleeperCount
  <2>1. [TaskTable[slot[cpu]] EXCEPT !.msleep = Less(@)] \in Task
    BY <1>2, LessTask
  <2>2. TableType' /\ GoTo("sc_test") /\ UNCHANGED <<slot, blk>>
    BY <1>0, <1>1, <1>12, <2>1 DEF SleeperCount, TableType
  <2>3. "sc_test" \in RoundWindows
    BY DEF RoundWindows
  <2> QED BY <1>0, <1>3, <2>2, <2>3 DEF LocalsType
<1>13. CASE SleeperOver
  <2>1. TableType' /\ UNCHANGED blk
        /\ ((GoTo("sc_wake") /\ UNCHANGED slot) \/ EndRound)
    BY <1>0, <1>13 DEF SleeperOver, TableType
  <2>2. "sc_wake" \in RoundWindows
    BY DEF RoundWindows
  <2> QED BY <1>0, <1>3, <1>4, <2>1, <2>2 DEF LocalsType
<1>14. CASE SleeperWake
  <2>1. [TaskTable[slot[cpu]] EXCEPT !.state = "WAITING"] \in Task
    BY <1>2, TaskUpdates, Zenon DEF TaskStates
  <2>2. TableType' /\ EndRound /\ UNCHANGED blk
    BY <1>0, <1>1, <1>14, <2>1 DEF SleeperWake, TableType
  <2> QED BY <1>4, <2>2
<1> QED BY <1>5, <1>6, <1>7, <1>8, <1>9, <1>10, <1>11, <1>12, <1>13, <1>14
        DEF ScheduleScanSteps

LEMMA DispatchType ==
  ASSUME TypeOK, SchedulePick \/ ScheduleCommit \/ ScheduleCommitSteps \/ ScheduleSwitch
  PROVE  TypeOK'
<1>0. /\ TaskTable \in [Pids -> Task] /\ TableType /\ CpuType /\ LocalsType
      /\ cpu \in Threads /\ CurrentTaskPID \in Pids
      /\ Holds(pc[cpu], id[cpu], next_pid[cpu], prev[cpu], slot[cpu], blk[cpu])
  BY TypeParts DEF TableType, CpuType, SchedulePick, ScheduleCommit,
     ScheduleCommitSteps, CommitPark, CommitRun, CommitCurrent, ScheduleSwitch, At
<1>1. CASE SchedulePick
  <2>1. Pick(TaskTable, CurrentTaskPID) \in Pids
    BY <1>0, PickFacts
  <2>2. TableType' /\ CpuType'
    BY <1>0, <1>1 DEF SchedulePick, TableType, CpuType
  <2>3. /\ MovesCpuOnly
        /\ pc'[cpu] = "user" \/ (pc'[cpu] = "sc_commit" /\ next_pid'[cpu] \in Pids)
    BY <1>0, <1>1, <2>1, PointsFacts DEF SchedulePick, GoTo, MovesCpuOnly, LocalsType
  <2>4. Holds(pc'[cpu], id'[cpu], next_pid'[cpu], prev'[cpu], slot'[cpu], blk'[cpu])
    BY <2>3 DEF Holds, AllocWindows, RoundWindows, CommitWindows
  <2> QED BY <1>0, <2>2, <2>3, <2>4, ThreadStepType
<1>2. CASE ScheduleCommit
  <2>1. next_pid[cpu] \in Pids
    BY <1>0, <1>2 DEF ScheduleCommit, At, Holds
  <2>2. TaskTable' \in [Pids -> Task]
    BY <1>0, <1>2, <2>1, CommitFacts DEF ScheduleCommit
  <2>3. TableType' /\ CpuType'
    BY <1>0, <1>2, <2>1, <2>2 DEF ScheduleCommit, TableType, CpuType
  <2>4. /\ MovesCpuOnly
        /\ pc'[cpu] = "sc_switch" /\ next_pid'[cpu] \in Pids /\ prev'[cpu] \in Pids
    BY <1>0, <1>2, <2>1, PointsFacts DEF ScheduleCommit, GoTo, MovesCpuOnly, LocalsType
  <2>5. Holds(pc'[cpu], id'[cpu], next_pid'[cpu], prev'[cpu], slot'[cpu], blk'[cpu])
    BY <2>4 DEF Holds, AllocWindows, RoundWindows, CommitWindows
  <2> QED BY <1>0, <2>3, <2>4, <2>5, ThreadStepType
<1>3. CASE ScheduleCommitSteps
  <2>0. /\ next_pid[cpu] \in Pids /\ CpuType'
        /\ UNCHANGED <<TaskCount, freeStacks, id, next_pid, slot, blk>>
    BY <1>0, <1>3 DEF ScheduleCommitSteps, CommitPark, CommitRun, CommitCurrent, At,
       Holds, CommitWindows, CpuType
  <2>1. CASE CommitPark
    <3>1. TaskTable' \in [Pids -> Task]
      BY <1>0, <2>1, ParkedFacts DEF CommitPark
    <3>2. TableType'
      BY <1>0, <2>0, <2>1, <3>1 DEF CommitPark, TableType
    <3>3. MovesCpuOnly /\ pc'[cpu] = "sc_run" /\ prev'[cpu] \in Pids
      BY <1>0, <2>0, <2>1, PointsFacts DEF CommitPark, GoTo, MovesCpuOnly, LocalsType,
         CommitWindows
    <3>4. Holds(pc'[cpu], id'[cpu], next_pid'[cpu], prev'[cpu], slot'[cpu], blk'[cpu])
      BY <2>0, <3>3 DEF Holds, AllocWindows, RoundWindows, CommitWindows
    <3> QED BY <1>0, <2>0, <3>2, <3>3, <3>4, ThreadStepType
  <2>2. CASE CommitRun
    <3>1. [TaskTable[next_pid[cpu]] EXCEPT !.state = "RUNNING"] \in Task
      BY <1>0, <2>0, TaskUpdates, Zenon DEF TaskStates
    <3>2. TableType'
      BY <1>0, <2>0, <2>2, <3>1 DEF CommitRun, TableType
    <3>3. prev[cpu] \in Pids
      BY <1>0, <2>2 DEF CommitRun, At, Holds, CommitWindows
    <3>4. MovesCpuOnly /\ pc'[cpu] = "sc_current" /\ prev'[cpu] \in Pids
      BY <1>0, <2>0, <2>2, <3>3, PointsFacts DEF CommitRun, GoTo, MovesCpuOnly, LocalsType,
         CommitWindows
    <3>5. Holds(pc'[cpu], id'[cpu], next_pid'[cpu], prev'[cpu], slot'[cpu], blk'[cpu])
      BY <2>0, <3>4 DEF Holds, AllocWindows, RoundWindows, CommitWindows
    <3> QED BY <1>0, <2>0, <3>2, <3>4, <3>5, ThreadStepType
  <2>3. CASE CommitCurrent
    <3>1. TableType'
      BY <1>0, <2>0, <2>3 DEF CommitCurrent, TableType
    <3>2. prev[cpu] \in Pids
      BY <1>0, <2>3 DEF CommitCurrent, At, Holds, CommitWindows
    <3>3. MovesCpuOnly /\ pc'[cpu] = "sc_switch" /\ prev'[cpu] \in Pids
      BY <1>0, <2>0, <2>3, <3>2, PointsFacts DEF CommitCurrent, GoTo, MovesCpuOnly, LocalsType
    <3>4. Holds(pc'[cpu], id'[cpu], next_pid'[cpu], prev'[cpu], slot'[cpu], blk'[cpu])
      BY <2>0, <3>3 DEF Holds, AllocWindows, RoundWindows, CommitWindows
    <3> QED BY <1>0, <2>0, <3>1, <3>3, <3>4, ThreadStepType
  <2> QED BY <1>3, <2>1, <2>2, <2>3 DEF ScheduleCommitSteps
<1>4. CASE ScheduleSwitch
  <2>1. next_pid[cpu] \in Pids /\ prev[cpu] \in Pids
    BY <1>0, <1>4 DEF ScheduleSwitch, At, Holds
  <2>2. TaskTable' \in [Pids -> Task]
    BY <1>0, <1>4, <2>1, SavedFacts DEF ScheduleSwitch
  <2>3. CpuType'
    BY <1>0, <1>4, <2>1, ResumeOnType DEF ScheduleSwitch, CpuType
  <2>4. TableType'
    BY <1>0, <1>4, <2>2 DEF ScheduleSwitch, TableType
  <2>5. MovesCpuOnly /\ pc'[cpu] = "user"
    BY <1>0, <1>4, PointsFacts DEF ScheduleSwitch, GoTo, MovesCpuOnly, LocalsType
  <2>6. Holds(pc'[cpu], id'[cpu], next_pid'[cpu], prev'[cpu], slot'[cpu], blk'[cpu])
    BY <2>5 DEF Holds, AllocWindows, RoundWindows, CommitWindows
  <2> QED BY <1>0, <2>3, <2>4, <2>5, <2>6, ThreadStepType
<1> QED BY <1>1, <1>2, <1>3, <1>4

LEMMA TypeStep == TypeOK /\ [Next]_vars => TypeOK'
<1> SUFFICES ASSUME TypeOK, [Next]_vars PROVE TypeOK'
  OBVIOUS
<1>0. /\ TaskTable \in [Pids -> Task] /\ TableType /\ CpuType
      /\ NULL \notin Stacks
  BY TypeParts, StacksAssumption DEF TableType
<1>1. CASE Tick
  <2>1. cpu \in Threads
    BY <1>1 DEF Tick, TypeOK
  <2>2. MaskedSchedule(TaskTable, "iret") /\ UNCHANGED pc /\ UNCHANGED locals
    BY <1>1 DEF Tick
  <2>3. TableType' /\ CpuType'
    BY <1>0, <2>1, <2>2, MaskedScheduleType DEF TableType, CpuType
  <2> QED BY <2>1, <2>2, <2>3, LocalsKeptType
<1>2. CASE CreateFind \/ CreateClaim \/ CreateAlloc \/ CreateAllocSteps
  BY <1>2, CreateType
<1>3. CASE CreateFrame
  BY <1>3, CreateFrameType
<1>4. CASE TaskFork
  BY <1>4, TaskForkType
<1>5. CASE ForkReturn
  <2>1. cpu \in Threads /\ TableType' /\ CpuType'
    BY <1>0, <1>5 DEF ForkReturn, At, TableType, CpuType
  <2> QED BY <1>5, <2>1, LocalsKeptType DEF ForkReturn
<1>6. CASE Msleep \/ ScheduleScan
  BY <1>6, ScanType
<1>7. CASE ScheduleScanSteps
  BY <1>7, ScanStepsType
<1>8. CASE SchedulePick \/ ScheduleCommit \/ ScheduleCommitSteps \/ ScheduleSwitch
  BY <1>8, DispatchType
<1>12. CASE ExitTask
  BY <1>12, ExitType DEF ExitTask, UserCall, At, TypeOK
<1>13. CASE KillTask
  BY <1>13, KillType DEF KillTask, UserCall, At, TypeOK
<1>14. CASE Fault
  <2>1. cpu \in Threads /\ CurrentTaskPID \in Pids
    BY <1>14 DEF Fault, UserCall, At, TypeOK
  <2>2. CASE CurrentTaskPID = 0
    <3>1. TableType' /\ CpuType'
      BY <1>0, <1>14, <2>2 DEF Fault, TableType, CpuType
    <3> QED BY <1>14, <2>1, <2>2, <3>1, LocalsKeptType DEF Fault
  <2>3. CASE CurrentTaskPID # 0
    BY <1>14, <2>1, <2>3, ExitType, KillType DEF Fault
  <2> QED BY <2>2, <2>3
<1>15. CASE ThreadReturn
  <2>1. cpu \in Threads /\ TableType' /\ CpuType'
    BY <1>0, <1>15 DEF ThreadReturn, UserCall, At, TableType, CpuType
  <2> QED BY <1>15, <2>1, LocalsKeptType DEF ThreadReturn
<1>16. CASE UNCHANGED vars
  BY <1>16 DEF vars, TypeOK
<1> QED BY <1>1, <1>2, <1>3, <1>4, <1>5, <1>6, <1>7, <1>8,
           <1>12, <1>13, <1>14, <1>15, <1>16 DEF Next

(* The variables keep their types and a thread inside a kernel call holds   *)
(* the locals it will use, in whatever windows ticks are taken, between the *)
(* statements of a round, of the commit and of kmalloc as well: Schedule()  *)
(* never indexes the table out of range (task.c:137, 186-194).              *)
THEOREM TypeCorrect == Spec => []TypeOK
BY InitType, TypeStep, PTL DEF Spec

-----------------------------------------------------------------------------
(* What holds wherever ticks are taken.                                     *)

(* A masked Schedule(), slot by slot.                                       *)
LEMMA MaskedScheduleTable ==
  ASSUME TypeOK, cpu \in Threads, NEW tt \in [Pids -> Task],
         NEW style \in {"iret", "ret"}, MaskedSchedule(tt, style)
  PROVE  /\ CurrentTaskPID' \in Pids
         /\ \A i \in Pids : TaskTable'[i].kstack = Scanned(tt)[i].kstack
         /\ \A i \in Pids \ {CurrentTaskPID, CurrentTaskPID'} :
              TaskTable'[i].state = Scanned(tt)[i].state
         /\ CurrentTaskPID' = CurrentTaskPID =>
              TaskTable'[CurrentTaskPID].state = Scanned(tt)[CurrentTaskPID].state
         /\ CurrentTaskPID' # CurrentTaskPID =>
              /\ TaskTable'[CurrentTaskPID'].state = "RUNNING"
              /\ TaskTable'[CurrentTaskPID].state =
                   IF Scanned(tt)[CurrentTaskPID].state = "RUNNING" THEN "WAITING"
                   ELSE Scanned(tt)[CurrentTaskPID].state
<1> DEFINE cur == CurrentTaskPID
           scanned == Scanned(tt)
           nxt == Pick(scanned, cur)
<1>1. cur \in Pids /\ scanned \in [Pids -> Task]
  BY ScannedFacts DEF TypeOK
<1>2. nxt \in Pids /\ CurrentTaskPID' = nxt
  BY <1>1, PickFacts DEF MaskedSchedule
<1>3. CASE nxt = cur
  <2>1. TaskTable' = scanned
    BY <1>3 DEF MaskedSchedule
  <2> QED BY <1>2, <1>3, <2>1
<1>4. CASE nxt # cur
  <2>1. TaskTable' = Saved(Commit(scanned, cur, nxt), cur)
    BY <1>4 DEF MaskedSchedule
  <2> HIDE DEF scanned, nxt
  <2>2. Commit(scanned, cur, nxt) \in [Pids -> Task]
    BY <1>1, <1>2, CommitFacts
  <2>3. \A i \in Pids : /\ TaskTable'[i].kstack = Commit(scanned, cur, nxt)[i].kstack
                        /\ TaskTable'[i].state = Commit(scanned, cur, nxt)[i].state
    BY <1>1, <2>1, <2>2, SavedFacts
  <2>31. \A i \in Pids : /\ Commit(scanned, cur, nxt)[i].kstack = scanned[i].kstack
                         /\ i \notin {cur, nxt} =>
                              Commit(scanned, cur, nxt)[i] = scanned[i]
    BY <1>1, <1>2, CommitFacts
  <2>4. \A i \in Pids : TaskTable'[i].kstack = scanned[i].kstack
    BY <2>3, <2>31, Zenon
  <2>5. \A i \in Pids \ {cur, nxt} : TaskTable'[i].state = scanned[i].state
    BY <2>3, <2>31
  <2>6. TaskTable'[nxt].state = "RUNNING"
    BY <1>1, <1>2, <2>3, CommitStates
  <2>7. TaskTable'[cur].state = IF scanned[cur].state = "RUNNING" THEN "WAITING"
                                ELSE scanned[cur].state
    BY <1>1, <1>2, <1>4, <2>3, CommitStates
  <2> QED BY <1>2, <1>4, <2>4, <2>5, <2>6, <2>7 DEF scanned
<1> QED BY <1>3, <1>4

LEMMA RoundStates ==
  ASSUME NEW tt \in [Pids -> Task], NEW i \in Pids
  PROVE  /\ Round(tt, i).state = "RUNNING" => tt[i].state = "RUNNING"
         /\ i = 0 /\ tt[i].state \notin {"EMPTY", "ZOMBIE"} =>
              Round(tt, i).state \notin {"EMPTY", "ZOMBIE"}
         /\ Round(tt, i).kstack # NULL =>
              i \notin Zombies(tt) /\ Round(tt, i).kstack = tt[i].kstack
<1>1. EmptyTask.state = "EMPTY" /\ EmptyTask.kstack = NULL
  BY DEF EmptyTask
<1>2. CASE i \in Zombies(tt)
  BY <1>1, <1>2, RoundFacts DEF Zombies
<1>3. CASE i \notin Zombies(tt)
  BY <1>3, RoundFacts
<1> QED BY <1>2, <1>3

LEMMA ScannedStates ==
  ASSUME NEW tt \in [Pids -> Task], NEW i \in Pids
  PROVE  /\ Scanned(tt)[i].state = "RUNNING" => tt[i].state = "RUNNING"
         /\ i = 0 /\ tt[i].state \notin {"EMPTY", "ZOMBIE"} =>
              Scanned(tt)[i].state \notin {"EMPTY", "ZOMBIE"}
         /\ Scanned(tt)[i].kstack # NULL =>
              i \notin Zombies(tt) /\ Scanned(tt)[i].kstack = tt[i].kstack
BY RoundStates DEF Scanned

(* A round, and a statement of one, slot by slot.                           *)
LEMMA ScheduleScanTable ==
  ASSUME TypeOK, ScheduleScan
  PROVE  /\ slot[cpu] \in Pids
         /\ TaskTable'[slot[cpu]] = Round(TaskTable, slot[cpu])
         /\ \A i \in Pids \ {slot[cpu]} : TaskTable'[i] = TaskTable[i]
         /\ freeStacks' = freeStacks \cup Freed(TaskTable, slot[cpu])
         /\ CurrentTaskPID' = CurrentTaskPID
<1>1. slot[cpu] \in Pids /\ TaskTable \in [Pids -> Task]
  BY DEF ScheduleScan, At, TypeOK
<1> QED BY <1>1 DEF ScheduleScan

LEMMA ScanStepsTable ==
  ASSUME TypeOK, ScheduleScanSteps
  PROVE  /\ CurrentTaskPID' = CurrentTaskPID
         /\ \A i \in Pids :
              \/ TaskTable'[i].state \in {TaskTable[i].state, "WAITING"}
              \/ i # 0 /\ TaskTable'[i].state = "EMPTY"
<1>0. TaskTable \in [Pids -> Task] /\ CurrentTaskPID' = CurrentTaskPID
  BY DEF TypeOK, ScheduleScanSteps
<1>1. CASE UNCHANGED TaskTable
  BY <1>0, <1>1
<1>2. CASE ZombieClear
  <2>1. slot[cpu] # 0 /\ EmptyTask.state = "EMPTY"
        /\ TaskTable' = [TaskTable EXCEPT ![slot[cpu]] = EmptyTask]
    BY <1>2 DEF ZombieClear, At, TypeOK, EmptyTask
  <2> QED BY <1>0, <2>1
<1>3. CASE ZombieEmpty
  <2>1. slot[cpu] # 0
        /\ TaskTable' = [TaskTable EXCEPT ![slot[cpu]].state = "EMPTY"]
    BY <1>3 DEF ZombieEmpty, At, TypeOK
  <2> QED BY <1>0, <2>1 DEF Task
<1>4. CASE SleeperCount
  <2>1. \E l : TaskTable' = [TaskTable EXCEPT ![slot[cpu]].msleep = l]
    BY <1>4 DEF SleeperCount
  <2> QED BY <1>0, <2>1 DEF Task
<1>5. CASE SleeperWake
  <2>1. TaskTable' = [TaskTable EXCEPT ![slot[cpu]].state = "WAITING"]
    BY <1>5 DEF SleeperWake
  <2> QED BY <1>0, <2>1 DEF Task
<1> QED BY <1>1, <1>2, <1>3, <1>4, <1>5
        DEF ScheduleScanSteps, RoundBegin, ZombieStack, ZombieFree, ZombieCount,
            SleeperTest, SleeperOver

(* The statements of the commit.                                            *)
LEMMA CommitStepsTable ==
  ASSUME TypeOK, ScheduleCommitSteps
  PROVE  \A i \in Pids : /\ TaskTable'[i].state \in {TaskTable[i].state, "WAITING", "RUNNING"}
                         /\ TaskTable'[i].kstack = TaskTable[i].kstack
                         /\ TaskTable'[i].msleep = TaskTable[i].msleep
<1>0. TaskTable \in [Pids -> Task] /\ CurrentTaskPID \in Pids
  BY DEF TypeOK
<1>1. CASE CommitPark
  <2>1. TaskTable' = Parked(TaskTable, CurrentTaskPID)
    BY <1>1 DEF CommitPark
  <2>2. ASSUME NEW i \in Pids
        PROVE  /\ TaskTable'[i].state \in {TaskTable[i].state, "WAITING"}
               /\ TaskTable'[i].kstack = TaskTable[i].kstack
               /\ TaskTable'[i].msleep = TaskTable[i].msleep
    <3>1. CASE i = CurrentTaskPID
      BY <1>0, <2>1, <3>1, ParkedFacts
    <3>2. CASE i # CurrentTaskPID
      BY <1>0, <2>1, <3>2, ParkedFacts
    <3> QED BY <3>1, <3>2
  <2> QED BY <2>2
<1>2. CASE CommitRun
  <2>1. TaskTable' = [TaskTable EXCEPT ![next_pid[cpu]].state = "RUNNING"]
    BY <1>2 DEF CommitRun
  <2> QED BY <1>0, <2>1 DEF Task
<1>3. CASE CommitCurrent
  BY <1>3 DEF CommitCurrent
<1> QED BY <1>1, <1>2, <1>3 DEF ScheduleCommitSteps

(* The statements of kmalloc.                                               *)
LEMMA AllocStepsTable ==
  ASSUME TypeOK, CreateAllocSteps
  PROVE  /\ CurrentTaskPID' = CurrentTaskPID
         /\ \A i \in Pids : /\ TaskTable'[i].state = TaskTable[i].state
                            /\ TaskTable'[i].msleep = TaskTable[i].msleep
<1>0. TaskTable \in [Pids -> Task] /\ CurrentTaskPID' = CurrentTaskPID
  BY DEF TypeOK, CreateAllocSteps
<1>1. CASE UNCHANGED TaskTable
  BY <1>0, <1>1
<1>2. CASE StoreStack
  <2>1. TaskTable' = [TaskTable EXCEPT ![id[cpu]].kstack = blk[cpu]]
    BY <1>2 DEF StoreStack
  <2> QED BY <1>0, <2>1 DEF Task
<1> QED BY <1>1, <1>2 DEF CreateAllocSteps, KmallocFind, KmallocClaim

-----------------------------------------------------------------------------
(* An instance that takes no tick in a group of windows has no thread       *)
(* there: the code between them is one step.                                *)
Inner == {AllocWindows, RoundWindows, CommitWindows}

Whole(W) == \A t \in Threads : pc[t] \notin W

LEMMA PcStep ==
  ASSUME TypeOK, Next, NEW t \in Threads, NEW W \in Inner, pc'[t] \in W
  PROVE  Open(W) \/ (\E u \in Threads : pc[u] \in W)
<1>0. pc \in [Threads -> Points]
  BY DEF TypeOK
<1>1. CASE pc'[t] = pc[t]
  BY <1>1
<1>2. CASE pc'[t] # pc[t]
  <2> SUFFICES ASSUME ~Open(W), ~ \E u \in Threads : pc[u] \in W PROVE FALSE
    OBVIOUS
  <2>1. \A p : At(p) => p \notin W /\ cpu \in Threads
    BY DEF At, TypeOK
  <2>2. {"user", "child", "dead", "kt_exit", "ct_claim", "ct_alloc", "ct_frame",
         "sc_scan", "sc_pick", "sc_commit", "sc_switch"} \cap W = {}
    BY DEF Inner, AllocWindows, RoundWindows, CommitWindows
  <2>3. \A p : GoTo(p) => pc'[t] = p
    BY <1>0, <1>2 DEF GoTo
  <2>4. ~EndRound
    BY <2>2, <2>3 DEF EndRound
  <2>5. ~ (CreateFind \/ CreateClaim \/ CreateAlloc)
    BY <2>2, <2>3 DEF CreateFind, CreateClaim, CreateAlloc
  <2>6. ~ (CreateFrame \/ TaskFork)
    BY <1>0, <1>2, <2>2, <2>3 DEF CreateFrame, TaskFork
  <2>7. ~ (Msleep \/ ScheduleScan \/ SchedulePick \/ ScheduleCommit \/ ScheduleSwitch)
    BY <2>2, <2>3, <2>4 DEF Msleep, ScheduleScan, SchedulePick, ScheduleCommit, ScheduleSwitch
  <2>8. ~ (Tick \/ ForkReturn \/ ThreadReturn)
    BY <1>2 DEF Tick, ForkReturn, ThreadReturn
  <2>9. ~Exit /\ \A pid : ~Kill(pid)
    BY <1>2, <2>2, <2>3 DEF Exit, Kill
  <2>10. ~ (ExitTask \/ KillTask \/ Fault)
    BY <2>2, <2>3, <2>9 DEF ExitTask, KillTask, Fault
  <2>11. CASE W = AllocWindows
    <3>1. ~CreateAllocSteps
      BY <2>1, <2>11 DEF CreateAllocSteps, KmallocFind, KmallocClaim, StoreStack, AllocWindows
    <3>2. ~ScheduleScanSteps
      BY <2>3, <2>4, <2>11
         DEF AllocWindows, ScheduleScanSteps, RoundBegin, ZombieStack, ZombieFree, ZombieClear,
             ZombieEmpty, ZombieCount, SleeperTest, SleeperCount, SleeperOver, SleeperWake
    <3>3. ~ScheduleCommitSteps
      BY <2>3, <2>11
         DEF AllocWindows, ScheduleCommitSteps, CommitPark, CommitRun, CommitCurrent
    <3> QED BY <2>5, <2>6, <2>7, <2>8, <2>10, <3>1, <3>2, <3>3 DEF Next
  <2>12. CASE W = RoundWindows
    <3>1. ~CreateAllocSteps
      BY <2>3, <2>12 DEF CreateAllocSteps, KmallocFind, KmallocClaim, StoreStack, RoundWindows
    <3>2. ~ScheduleScanSteps
      BY <2>1, <2>12
         DEF RoundWindows, ScheduleScanSteps, RoundBegin, ZombieStack, ZombieFree, ZombieClear,
             ZombieEmpty, ZombieCount, SleeperTest, SleeperCount, SleeperOver, SleeperWake
    <3>3. ~ScheduleCommitSteps
      BY <2>3, <2>12
         DEF RoundWindows, ScheduleCommitSteps, CommitPark, CommitRun, CommitCurrent
    <3> QED BY <2>5, <2>6, <2>7, <2>8, <2>10, <3>1, <3>2, <3>3 DEF Next
  <2>13. CASE W = CommitWindows
    <3>1. ~CreateAllocSteps
      BY <2>3, <2>13 DEF CreateAllocSteps, KmallocFind, KmallocClaim, StoreStack, CommitWindows
    <3>2. ~ScheduleScanSteps
      BY <2>3, <2>4, <2>13
         DEF CommitWindows, ScheduleScanSteps, RoundBegin, ZombieStack, ZombieFree, ZombieClear,
             ZombieEmpty, ZombieCount, SleeperTest, SleeperCount, SleeperOver, SleeperWake
    <3>3. ~ScheduleCommitSteps
      BY <2>1, <2>13
         DEF CommitWindows, ScheduleCommitSteps, CommitPark, CommitRun, CommitCurrent
    <3> QED BY <2>5, <2>6, <2>7, <2>8, <2>10, <3>1, <3>2, <3>3 DEF Next
  <2> QED BY <2>11, <2>12, <2>13 DEF Inner
<1> QED BY <1>1, <1>2

LEMMA WholeInit ==
  ASSUME NEW W \in Inner, Init
  PROVE  Whole(W)
BY DEF Inner, AllocWindows, RoundWindows, CommitWindows, Whole, Init

LEMMA WholeStep ==
  ASSUME NEW W \in Inner, ~Open(W), TypeOK, Whole(W), [Next]_vars
  PROVE  Whole(W)'
<1>1. CASE Next
  BY <1>1, PcStep DEF Whole
<1>2. CASE UNCHANGED vars
  BY <1>2 DEF vars, Whole
<1> QED BY <1>1, <1>2

LEMMA NoInnerStep ==
  /\ ~Open(AllocWindows) /\ Whole(AllocWindows) /\ TypeOK => ~CreateAllocSteps
  /\ ~Open(RoundWindows) /\ Whole(RoundWindows) /\ TypeOK => ~ScheduleScanSteps
  /\ ~Open(CommitWindows) /\ Whole(CommitWindows) /\ TypeOK => ~ScheduleCommitSteps
<1>1. \A p : At(p) /\ TypeOK => cpu \in Threads /\ pc[cpu] = p
  BY DEF At, TypeOK
<1>2. ~Open(AllocWindows) /\ Whole(AllocWindows) /\ TypeOK => ~CreateAllocSteps
  BY <1>1 DEF Whole, CreateAllocSteps, KmallocFind, KmallocClaim, StoreStack, AllocWindows
<1>3. ~Open(RoundWindows) /\ Whole(RoundWindows) /\ TypeOK => ~ScheduleScanSteps
  BY <1>1 DEF Whole, ScheduleScanSteps, RoundBegin, ZombieStack, ZombieFree, ZombieClear,
     ZombieEmpty, ZombieCount, SleeperTest, SleeperCount, SleeperOver, SleeperWake, RoundWindows
<1>4. ~Open(CommitWindows) /\ Whole(CommitWindows) /\ TypeOK => ~ScheduleCommitSteps
  BY <1>1 DEF Whole, ScheduleCommitSteps, CommitPark, CommitRun, CommitCurrent, CommitWindows
<1> QED BY <1>2, <1>3, <1>4

-----------------------------------------------------------------------------

(* CreateTask's last step and TaskFork, slot by slot.                       *)
LEMMA CreateFrameTable ==
  ASSUME TypeOK, CreateFrame
  PROVE  \A i \in Pids : /\ TaskTable'[i].state = TaskTable[i].state
                         /\ TaskTable'[i].kstack = TaskTable[i].kstack
<1>1. \/ UNCHANGED TaskTable
      \/ \E s : TaskTable' = [TaskTable EXCEPT ![id[cpu]].rsp = s]
  BY DEF CreateFrame
<1>2. CASE UNCHANGED TaskTable
  BY <1>2
<1>3. ASSUME NEW s, TaskTable' = [TaskTable EXCEPT ![id[cpu]].rsp = s]
      PROVE  \A i \in Pids : /\ TaskTable'[i].state = TaskTable[i].state
                            /\ TaskTable'[i].kstack = TaskTable[i].kstack
  BY <1>3 DEF TypeOK, Task
<1> QED BY <1>1, <1>2, <1>3

LEMMA CreateAllocTable ==
  ASSUME TypeOK, CreateAlloc
  PROVE  /\ id[cpu] \in Pids
         /\ \E s \in freeStacks \cup {NULL} :
              /\ freeStacks' = freeStacks \ {s}
              /\ TaskTable'[id[cpu]].kstack = s
         /\ \A i \in Pids : TaskTable'[i].state = TaskTable[i].state
         /\ \A i \in Pids \ {id[cpu]} : TaskTable'[i] = TaskTable[i]
<1>1. PICK s \in freeStacks \cup {NULL} : AllocStack(TaskTable, id[cpu], s)
  BY DEF CreateAlloc
<1>2. id[cpu] \in Pids /\ TaskTable \in [Pids -> Task]
  BY DEF CreateAlloc, At, TypeOK
<1> QED BY <1>1, <1>2 DEF AllocStack, Task

LEMMA TaskForkTable ==
  ASSUME TypeOK, TaskFork
  PROVE  \/ TaskTable' = TaskTable /\ freeStacks' = freeStacks
         \/ \E child \in EmptySlots, s \in freeStacks \cup {NULL} :
              /\ freeStacks' = freeStacks \ {s}
              /\ TaskTable'[child].state = "WAITING"
              /\ TaskTable'[child].kstack = s
              /\ \A i \in Pids \ {child} : TaskTable'[i] = TaskTable[i]
<1>1. CASE EmptySlots = {}
  BY <1>1 DEF TaskFork
<1>2. CASE EmptySlots # {}
  <2> DEFINE child   == FirstEmpty
             claimed == [TaskTable EXCEPT
                           ![child].state = "WAITING",
                           ![child].priority = TaskTable[CurrentTaskPID].priority]
  <2>1. child \in EmptySlots /\ child \in Pids
    BY <1>2, FirstEmptyIsEmpty DEF EmptySlots
  <2>2. TaskTable \in [Pids -> Task] /\ TaskTable[child] \in Task
    BY <2>1 DEF TypeOK
  <2>3. PICK s \in freeStacks \cup {NULL} :
          \/ AllocStack([claimed EXCEPT ![child].rsp = s], child, s)
          \/ AllocStack(claimed, child, s)
    BY <1>2 DEF TaskFork
  <2>4. freeStacks' = freeStacks \ {s}
    BY <2>3 DEF AllocStack
  <2>5. TaskTable[CurrentTaskPID].priority \in {0, 1}
    BY <2>2 DEF TypeOK, Task
  <2>6. /\ claimed \in [Pids -> Task]
        /\ claimed[child].state = "WAITING"
        /\ \A i \in Pids \ {child} : claimed[i] = TaskTable[i]
    <3> DEFINE r == [TaskTable[child] EXCEPT
                       !.state = "WAITING",
                       !.priority = TaskTable[CurrentTaskPID].priority]
    <3>1. r \in Task /\ r.state = "WAITING"
      <4>1. "WAITING" \in TaskStates
        BY DEF TaskStates
      <4>2. r \in Task
        BY <2>2, <2>5, <4>1, TaskUpdates
      <4>3. r.state = "WAITING"
        BY <2>2 DEF Task
      <4> QED BY <4>2, <4>3
    <3>2. claimed = [TaskTable EXCEPT ![child] = r]
      BY <2>1, <2>2
    <3> HIDE DEF r
    <3> QED BY <2>1, <2>2, <3>1, <3>2
  <2> HIDE DEF claimed
  <2>7. PICK r \in Threads \cup {NULL} :
          /\ [claimed EXCEPT ![child].rsp = r] \in [Pids -> Task]
          /\ TaskTable' = [[claimed EXCEPT ![child].rsp = r] EXCEPT ![child].kstack = s]
    <3>1. s \in Threads \cup {NULL}
      BY DEF TypeOK, Threads
    <3>2. \A r \in Threads \cup {NULL} : [claimed EXCEPT ![child].rsp = r] \in [Pids -> Task]
      BY <2>1, <2>6, TaskUpdates
    <3>3. CASE AllocStack([claimed EXCEPT ![child].rsp = s], child, s)
      BY <3>1, <3>2, <3>3 DEF AllocStack
    <3>4. CASE AllocStack(claimed, child, s)
      <4>1. claimed[child].rsp \in Threads \cup {NULL}
        BY <2>1, <2>6 DEF Task
      <4>2. claimed = [claimed EXCEPT ![child].rsp = claimed[child].rsp]
        BY <2>1, <2>6 DEF Task
      <4> QED BY <3>2, <3>4, <4>1, <4>2 DEF AllocStack
    <3> QED BY <2>3, <3>3, <3>4
  <2>8. /\ TaskTable'[child].state = "WAITING"
        /\ TaskTable'[child].kstack = s
        /\ \A i \in Pids \ {child} : TaskTable'[i] = TaskTable[i]
    BY <2>1, <2>6, <2>7 DEF Task
  <2> QED BY <2>1, <2>4, <2>8
<1> QED BY <1>1, <1>2

-----------------------------------------------------------------------------
LEMMA ScheduleOneRunning ==
  ASSUME TypeOK, cpu \in Threads, NEW tt \in [Pids -> Task],
         NEW style \in {"iret", "ret"}, MaskedSchedule(tt, style),
         \A i \in Pids : tt[i].state = "RUNNING" => i = CurrentTaskPID
  PROVE  OneRunning'
<1> SUFFICES ASSUME NEW i \in Pids, TaskTable'[i].state = "RUNNING"
             PROVE  i = CurrentTaskPID'
  BY DEF OneRunning
<1>1. Scanned(tt)[i].state = "RUNNING" => i = CurrentTaskPID
  BY ScannedStates
<1> QED BY <1>1, MaskedScheduleTable

LEMMA OneRunningStep ==
  ASSUME ~Open(CommitWindows)
  PROVE  TypeOK /\ Whole(CommitWindows) /\ OneRunning /\ [Next]_vars => OneRunning'
<1> SUFFICES ASSUME TypeOK, Whole(CommitWindows), OneRunning, [Next]_vars
             PROVE  OneRunning'
  OBVIOUS
<1>0. TaskTable \in [Pids -> Task] /\ CurrentTaskPID \in Pids
  BY DEF TypeOK
<1>1. CASE Tick
  BY <1>0, <1>1, ScheduleOneRunning DEF Tick, OneRunning, TypeOK
<1>2. ASSUME Exit, cpu \in Threads PROVE OneRunning'
  <2>1. CASE CurrentTaskPID = 0
    BY <1>2, <2>1 DEF Exit, OneRunning
  <2>2. CASE CurrentTaskPID # 0
    <3> DEFINE tt == [TaskTable EXCEPT ![CurrentTaskPID].state = "ZOMBIE"]
    <3>1. /\ tt \in [Pids -> Task]
          /\ \A i \in Pids : tt[i].state = "RUNNING" => i = CurrentTaskPID
      BY <1>0, TaskUpdates, Zenon DEF OneRunning, TaskStates
    <3>2. MaskedSchedule(tt, "ret")
      BY <1>2, <2>2 DEF Exit
    <3> HIDE DEF tt
    <3> QED BY <1>2, <3>1, <3>2, ScheduleOneRunning
  <2> QED BY <2>1, <2>2
<1>3. ASSUME NEW pid \in Pids, Kill(pid) PROVE OneRunning'
  BY <1>0, <1>3 DEF Kill, OneRunning, Task
<1>4. CASE ScheduleScan
  BY <1>0, <1>4, ScheduleScanTable, RoundStates DEF OneRunning
<1>5. CASE ScheduleCommit
  <2>1. cpu \in Threads /\ next_pid[cpu] \in Pids
    BY <1>5 DEF ScheduleCommit, At, TypeOK
  <2> QED BY <1>0, <1>5, <2>1, CommitFacts, CommitStates DEF ScheduleCommit, OneRunning
<1>6. CASE ScheduleSwitch
  <2>1. cpu \in Threads /\ prev[cpu] \in Pids
    BY <1>6 DEF ScheduleSwitch, At, TypeOK
  <2> QED BY <1>0, <1>6, <2>1, SavedFacts DEF ScheduleSwitch, OneRunning
<1>7. CASE CreateFind \/ SchedulePick \/ ThreadReturn \/ ForkReturn \/ UNCHANGED vars
  BY <1>7 DEF CreateFind, SchedulePick, ThreadReturn, ForkReturn, vars, OneRunning
<1>8. CASE CreateClaim
  BY <1>0, <1>8 DEF CreateClaim, OneRunning, Task
<1>9. CASE CreateAlloc
  <2>1. CurrentTaskPID' = CurrentTaskPID
    BY <1>9 DEF CreateAlloc
  <2> QED BY <1>9, <2>1, CreateAllocTable DEF OneRunning
<1>10. CASE CreateFrame
  <2>1. CurrentTaskPID' = CurrentTaskPID
    BY <1>10 DEF CreateFrame
  <2> QED BY <1>0, <1>10, <2>1, CreateFrameTable DEF OneRunning
<1>11. CASE TaskFork
  <2>1. CurrentTaskPID' = CurrentTaskPID
    BY <1>11 DEF TaskFork
  <2> QED BY <1>0, <1>11, <2>1, TaskForkTable DEF OneRunning
<1>12. CASE Msleep
  BY <1>0, <1>12 DEF Msleep, OneRunning, Task
<1>13. CASE ExitTask
  BY <1>2, <1>13 DEF ExitTask, UserCall, At, TypeOK
<1>14. CASE KillTask
  BY <1>3, <1>14 DEF KillTask
<1>15. CASE Fault
  BY <1>0, <1>2, <1>3, <1>15 DEF Fault, UserCall, At, TypeOK, OneRunning
<1>16. CASE CreateAllocSteps
  BY <1>16, AllocStepsTable DEF OneRunning
<1>17. CASE ScheduleScanSteps
  BY <1>17, ScanStepsTable DEF OneRunning
<1> QED BY <1>1, <1>4, <1>5, <1>6, <1>7, <1>8, <1>9, <1>10, <1>11, <1>12, <1>13,
           <1>14, <1>15, <1>16, <1>17, NoInnerStep DEF Next

(* At most the current task is marked TASK_RUNNING, in an instance that     *)
(* takes no tick between the three assignments of the commit                *)
(* (task.c:189-194) and ticks in any of the other windows.                  *)
THEOREM OneRunningHolds ==
  ASSUME CommitWindows \cap Preemptible = {}
  PROVE  Spec => []OneRunning
<1>1. ~Open(CommitWindows)
  BY DEF Open
<1>2. Init => OneRunning
  BY PidsFacts DEF Init, OneRunning, EmptyTask
<1>3. Init => Whole(CommitWindows)
  BY WholeInit DEF Inner
<1>4. TypeOK /\ Whole(CommitWindows) /\ [Next]_vars => Whole(CommitWindows)'
  BY <1>1, WholeStep DEF Inner
<1>5. TypeOK /\ Whole(CommitWindows) /\ OneRunning /\ [Next]_vars => OneRunning'
  BY <1>1, OneRunningStep
<1> QED BY <1>2, <1>3, <1>4, <1>5, TypeCorrect, PTL DEF Spec

-----------------------------------------------------------------------------
LEMMA ScheduleIdleAlive ==
  ASSUME TypeOK, cpu \in Threads, NEW tt \in [Pids -> Task],
         NEW style \in {"iret", "ret"}, MaskedSchedule(tt, style),
         tt[0].state \notin {"EMPTY", "ZOMBIE"}
  PROVE  IdleAlive'
<1>1. Scanned(tt)[0].state \notin {"EMPTY", "ZOMBIE"}
  BY PidsFacts, ScannedStates
<1>2. 0 \in Pids
  BY PidsFacts
<1>3. CASE CurrentTaskPID' = 0
  BY <1>1, <1>3, MaskedScheduleTable DEF IdleAlive
<1>4. CASE CurrentTaskPID' # 0 /\ CurrentTaskPID = 0
  <2>1. TaskTable'[CurrentTaskPID].state =
          IF Scanned(tt)[CurrentTaskPID].state = "RUNNING" THEN "WAITING"
          ELSE Scanned(tt)[CurrentTaskPID].state
    BY <1>4, MaskedScheduleTable
  <2> QED BY <1>1, <1>4, <2>1 DEF IdleAlive
<1>5. CASE CurrentTaskPID' # 0 /\ CurrentTaskPID # 0
  BY <1>1, <1>2, <1>5, MaskedScheduleTable DEF IdleAlive
<1> QED BY <1>3, <1>4, <1>5

LEMMA IdleAliveStep == TypeOK /\ IdleAlive /\ [Next]_vars => IdleAlive'
<1> SUFFICES ASSUME TypeOK, IdleAlive, [Next]_vars PROVE IdleAlive'
  OBVIOUS
<1>0. TaskTable \in [Pids -> Task] /\ CurrentTaskPID \in Pids /\ 0 \in Pids
  BY PidsFacts DEF TypeOK
<1>1. CASE Tick
  BY <1>0, <1>1, ScheduleIdleAlive DEF Tick, IdleAlive, TypeOK
<1>2. ASSUME Exit, cpu \in Threads PROVE IdleAlive'
  <2>1. CASE CurrentTaskPID = 0
    BY <1>2, <2>1 DEF Exit, IdleAlive
  <2>2. CASE CurrentTaskPID # 0
    <3> DEFINE tt == [TaskTable EXCEPT ![CurrentTaskPID].state = "ZOMBIE"]
    <3>1. tt \in [Pids -> Task] /\ tt[0].state \notin {"EMPTY", "ZOMBIE"}
      BY <1>0, <2>2, TaskUpdates, Zenon DEF IdleAlive, TaskStates
    <3>2. MaskedSchedule(tt, "ret")
      BY <1>2, <2>2 DEF Exit
    <3> HIDE DEF tt
    <3> QED BY <1>2, <3>1, <3>2, ScheduleIdleAlive
  <2> QED BY <2>1, <2>2
<1>3. ASSUME NEW pid \in Pids \ {0}, Kill(pid) PROVE IdleAlive'
  BY <1>0, <1>3 DEF Kill, IdleAlive
<1>4. CASE ScheduleScan
  BY <1>0, <1>4, ScheduleScanTable, RoundStates DEF IdleAlive
<1>5. CASE ScheduleCommit
  <2>1. cpu \in Threads /\ next_pid[cpu] \in Pids
    BY <1>5 DEF ScheduleCommit, At, TypeOK
  <2>2. TaskTable' = Commit(TaskTable, CurrentTaskPID, next_pid[cpu])
    BY <1>5 DEF ScheduleCommit
  <2>3. CASE next_pid[cpu] = 0
    BY <1>0, <2>2, <2>3, CommitStates DEF IdleAlive
  <2>4. CASE next_pid[cpu] # 0 /\ CurrentTaskPID = 0
    <3>1. TaskTable'[0].state \in {"WAITING", TaskTable[0].state}
      <4> DEFINE n == next_pid[cpu]
      <4>1. TaskTable' = Commit(TaskTable, 0, n) /\ n \in Pids /\ n # 0
        BY <2>1, <2>2, <2>4
      <4> HIDE DEF n
      <4>2. Commit(TaskTable, 0, n)[0].state \in {"WAITING", TaskTable[0].state}
        BY <1>0, <4>1, CommitStates
      <4> QED BY <4>1, <4>2
    <3> QED BY <3>1 DEF IdleAlive
  <2>5. CASE next_pid[cpu] # 0 /\ CurrentTaskPID # 0
    BY <1>0, <2>1, <2>2, <2>5, CommitFacts DEF IdleAlive
  <2> QED BY <2>3, <2>4, <2>5
<1>6. CASE ScheduleSwitch
  <2>1. cpu \in Threads /\ prev[cpu] \in Pids
    BY <1>6 DEF ScheduleSwitch, At, TypeOK
  <2> QED BY <1>0, <1>6, <2>1, SavedFacts DEF ScheduleSwitch, IdleAlive
<1>7. CASE CreateFind \/ SchedulePick \/ ThreadReturn \/ ForkReturn \/ UNCHANGED vars
  BY <1>7 DEF CreateFind, SchedulePick, ThreadReturn, ForkReturn, vars, IdleAlive
<1>8. CASE CreateClaim
  BY <1>0, <1>8 DEF CreateClaim, IdleAlive, Task
<1>9. CASE CreateAlloc
  BY <1>0, <1>9, CreateAllocTable DEF IdleAlive
<1>10. CASE CreateFrame
  BY <1>0, <1>10, CreateFrameTable DEF IdleAlive
<1>11. CASE TaskFork
  <2>1. TaskTable'[0].state \in {"WAITING", TaskTable[0].state}
    BY <1>0, <1>11, TaskForkTable
  <2> QED BY <2>1 DEF IdleAlive
<1>12. CASE Msleep
  BY <1>0, <1>12 DEF Msleep, IdleAlive, Task
<1>13. CASE ExitTask
  BY <1>2, <1>13 DEF ExitTask, UserCall, At, TypeOK
<1>14. CASE KillTask
  BY <1>3, <1>14 DEF KillTask
<1>15. CASE Fault
  BY <1>0, <1>2, <1>3, <1>15 DEF Fault, UserCall, At, TypeOK, IdleAlive
<1>16. CASE CreateAllocSteps
  BY <1>0, <1>16, AllocStepsTable DEF IdleAlive
<1>17. CASE ScheduleScanSteps
  BY <1>0, <1>17, ScanStepsTable DEF IdleAlive
<1>18. CASE ScheduleCommitSteps
  BY <1>0, <1>18, CommitStepsTable DEF IdleAlive
<1> QED BY <1>1, <1>4, <1>5, <1>6, <1>7, <1>8, <1>9, <1>10, <1>11, <1>12, <1>13,
           <1>14, <1>15, <1>16, <1>17, <1>18 DEF Next

(* Task 0 is never killed, reaped or reused: Schedule's "next_pid = 0" is   *)
(* always a task, in whatever windows ticks are taken.                      *)
THEOREM IdleAliveHolds == Spec => []IdleAlive
<1>1. Init => IdleAlive
  BY PidsFacts DEF Init, IdleAlive, EmptyTask
<1> QED BY <1>1, TypeCorrect, IdleAliveStep, PTL DEF Spec

-----------------------------------------------------------------------------
(* The scan keeps stacks apart: what it frees it also takes from its slot.  *)
LEMMA ScanStacks ==
  ASSUME NEW tt \in [Pids -> Task], NEW free \in SUBSET Stacks,
         \A i, j \in Pids : tt[i].kstack = tt[j].kstack
                           => i = j \/ tt[i].kstack = NULL,
         \A i \in Pids : tt[i].kstack \notin free
  PROVE  /\ \A i, j \in Pids : Scanned(tt)[i].kstack = Scanned(tt)[j].kstack
                              => i = j \/ Scanned(tt)[i].kstack = NULL
         /\ \A i \in Pids : Scanned(tt)[i].kstack \notin free \cup Reaped(tt)
<1>1. ASSUME NEW i \in Pids, NEW j \in Pids, i # j,
             Scanned(tt)[i].kstack = Scanned(tt)[j].kstack,
             Scanned(tt)[i].kstack # NULL
      PROVE  FALSE
  BY <1>1, ScannedStates
<1>2. NULL \notin Stacks
  BY StacksAssumption
<1>3. ASSUME NEW i \in Pids, Scanned(tt)[i].kstack \in free \cup Reaped(tt)
      PROVE  FALSE
  <2>1. Scanned(tt)[i].kstack \in Stacks
    BY <1>3, ReapedFacts
  <2>2. i \notin Zombies(tt) /\ Scanned(tt)[i].kstack = tt[i].kstack
    BY <1>2, <2>1, ScannedStates
  <2>3. PICK j \in Zombies(tt) : tt[j].kstack = tt[i].kstack
    <3>1. PICK j \in Pids : tt[i].kstack \in Freed(tt, j)
      BY <1>3, <2>2 DEF Reaped
    <3> QED BY <3>1 DEF Freed
  <2>4. i # j /\ j \in Pids /\ tt[i].kstack # NULL
    BY <1>2, <2>1, <2>2, <2>3 DEF Zombies
  <2> QED BY <2>3, <2>4
<1> QED BY <1>1, <1>3

LEMMA ScheduleStacks ==
  ASSUME TypeOK, cpu \in Threads, NEW tt \in [Pids -> Task],
         NEW style \in {"iret", "ret"}, MaskedSchedule(tt, style), StacksNotShared,
         \A i \in Pids : tt[i].kstack = TaskTable[i].kstack
  PROVE  StacksNotShared'
<1>1. freeStacks' = freeStacks \cup Reaped(tt)
  BY DEF MaskedSchedule
<1>2. freeStacks \in SUBSET Stacks
  BY DEF TypeOK
<1>3. /\ \A i, j \in Pids : Scanned(tt)[i].kstack = Scanned(tt)[j].kstack
                            => i = j \/ Scanned(tt)[i].kstack = NULL
      /\ \A i \in Pids : Scanned(tt)[i].kstack \notin freeStacks \cup Reaped(tt)
  BY <1>2, ScanStacks DEF StacksNotShared
<1>4. \A i \in Pids : TaskTable'[i].kstack = Scanned(tt)[i].kstack
  BY MaskedScheduleTable
<1> QED BY <1>1, <1>3, <1>4 DEF StacksNotShared

LEMMA SameStacks ==
  ASSUME StacksNotShared, UNCHANGED freeStacks,
         \A i \in Pids : TaskTable'[i].kstack = TaskTable[i].kstack
  PROVE  StacksNotShared'
BY DEF StacksNotShared

LEMMA AllocStacks ==
  ASSUME TypeOK, StacksNotShared, NEW c \in Pids, NEW s \in freeStacks \cup {NULL},
         freeStacks' = freeStacks \ {s}, TaskTable'[c].kstack = s,
         \A i \in Pids \ {c} : TaskTable'[i] = TaskTable[i]
  PROVE  StacksNotShared'
<1>1. NULL \notin freeStacks
  BY StacksAssumption DEF TypeOK
<1> QED BY <1>1 DEF StacksNotShared

LEMMA StacksStep ==
  ASSUME ~Open(AllocWindows), ~Open(RoundWindows)
  PROVE  TypeOK /\ Whole(AllocWindows) /\ Whole(RoundWindows) /\ StacksNotShared
           /\ [Next]_vars => StacksNotShared'
<1> SUFFICES ASSUME TypeOK, Whole(AllocWindows), Whole(RoundWindows), StacksNotShared,
                    [Next]_vars
             PROVE  StacksNotShared'
  OBVIOUS
<1>0. TaskTable \in [Pids -> Task] /\ CurrentTaskPID \in Pids
  BY DEF TypeOK
<1>1. CASE Tick
  BY <1>0, <1>1, ScheduleStacks DEF Tick, TypeOK
<1>2. ASSUME Exit, cpu \in Threads PROVE StacksNotShared'
  <2>1. CASE CurrentTaskPID = 0
    BY <1>2, <2>1, SameStacks DEF Exit
  <2>2. CASE CurrentTaskPID # 0
    <3> DEFINE tt == [TaskTable EXCEPT ![CurrentTaskPID].state = "ZOMBIE"]
    <3>1. tt \in [Pids -> Task]
      BY <1>0, TaskUpdates, Zenon DEF TaskStates
    <3>2. \A i \in Pids : tt[i].kstack = TaskTable[i].kstack
      BY <1>0 DEF Task
    <3>3. MaskedSchedule(tt, "ret")
      BY <1>2, <2>2 DEF Exit
    <3> HIDE DEF tt
    <3> QED BY <1>2, <3>1, <3>2, <3>3, ScheduleStacks
  <2> QED BY <2>1, <2>2
<1>3. ASSUME NEW pid \in Pids, Kill(pid) PROVE StacksNotShared'
  <2>1. \A i \in Pids : TaskTable'[i].kstack = TaskTable[i].kstack
    BY <1>0, <1>3 DEF Kill, Task
  <2> QED BY <1>3, <2>1, SameStacks DEF Kill
<1>4. CASE ScheduleScan
  <2> DEFINE k == slot[cpu]
             gone == Freed(TaskTable, k)
  <2>1. /\ k \in Pids /\ freeStacks' = freeStacks \cup gone
        /\ TaskTable'[k] = Round(TaskTable, k)
        /\ \A i \in Pids \ {k} : TaskTable'[i] = TaskTable[i]
    BY <1>4, ScheduleScanTable
  <2>2. gone \in SUBSET {TaskTable[k].kstack} /\ NULL \notin gone
        /\ (gone # {} => k \in Zombies(TaskTable))
    BY DEF Freed
  <2>3. /\ TaskTable'[k].kstack # NULL =>
              gone = {} /\ TaskTable'[k].kstack = TaskTable[k].kstack
        /\ NULL \notin freeStacks
    BY <1>0, <2>1, <2>2, RoundStates, StacksAssumption DEF TypeOK
  <2> HIDE DEF k, gone
  <2> QED BY <2>1, <2>2, <2>3 DEF StacksNotShared
<1>5. CASE ScheduleCommit
  <2>1. cpu \in Threads /\ next_pid[cpu] \in Pids
    BY <1>5 DEF ScheduleCommit, At, TypeOK
  <2> QED BY <1>0, <1>5, <2>1, CommitFacts, SameStacks DEF ScheduleCommit
<1>6. CASE ScheduleSwitch
  <2>1. cpu \in Threads /\ prev[cpu] \in Pids
    BY <1>6 DEF ScheduleSwitch, At, TypeOK
  <2> QED BY <1>0, <1>6, <2>1, SavedFacts, SameStacks DEF ScheduleSwitch
<1>7. CASE CreateFind \/ SchedulePick \/ ThreadReturn \/ ForkReturn \/ UNCHANGED vars
  BY <1>7, SameStacks DEF CreateFind, SchedulePick, ThreadReturn, ForkReturn, vars
<1>8. CASE CreateClaim
  <2>1. \A i \in Pids : TaskTable'[i].kstack = TaskTable[i].kstack
    BY <1>0, <1>8 DEF CreateClaim, Task
  <2> QED BY <1>8, <2>1, SameStacks DEF CreateClaim
<1>9. CASE CreateAlloc
  BY <1>9, CreateAllocTable, AllocStacks
<1>10. CASE CreateFrame
  BY <1>10, CreateFrameTable, SameStacks DEF CreateFrame
<1>11. CASE TaskFork
  BY <1>11, TaskForkTable, AllocStacks, SameStacks DEF EmptySlots
<1>12. CASE Msleep
  <2>1. \A i \in Pids : TaskTable'[i].kstack = TaskTable[i].kstack
    BY <1>0, <1>12 DEF Msleep, Task
  <2> QED BY <1>12, <2>1, SameStacks DEF Msleep
<1>13. CASE ExitTask
  BY <1>2, <1>13 DEF ExitTask, UserCall, At, TypeOK
<1>14. CASE KillTask
  BY <1>3, <1>14 DEF KillTask
<1>15. CASE Fault
  BY <1>0, <1>2, <1>3, <1>15, SameStacks DEF Fault, UserCall, At, TypeOK
<1>16. CASE ScheduleCommitSteps
  BY <1>16, CommitStepsTable, SameStacks DEF ScheduleCommitSteps
<1> QED BY <1>1, <1>4, <1>5, <1>6, <1>7, <1>8, <1>9, <1>10, <1>11, <1>12, <1>13,
           <1>14, <1>15, <1>16, NoInnerStep DEF Next

(* No stack has two owners and none is free while a slot still names it,    *)
(* whatever the threads do, in an instance that takes no tick inside a      *)
(* round of the scan (task.c:138-155) nor inside kmalloc (heap.c:34-46);    *)
(* ticks in CreateTask's other windows and in the commit do not break it.   *)
THEOREM StacksNotSharedHolds ==
  ASSUME AllocWindows \cap Preemptible = {}, RoundWindows \cap Preemptible = {}
  PROVE  Spec => []StacksNotShared
<1>0. ~Open(AllocWindows) /\ ~Open(RoundWindows)
  BY DEF Open
<1>1. Init => StacksNotShared
  <2> SUFFICES ASSUME Init PROVE StacksNotShared
    OBVIOUS
  <2>1. \A i \in Pids : TaskTable[i].kstack = NULL
    <3>1. EmptyTask.kstack = NULL /\ [EmptyTask EXCEPT !.state = "RUNNING"].kstack = NULL
      BY DEF EmptyTask
    <3> QED BY <3>1 DEF Init
  <2>2. NULL \notin freeStacks
    BY StacksAssumption DEF Init
  <2> QED BY <2>1, <2>2 DEF StacksNotShared
<1>2. Init => Whole(AllocWindows) /\ Whole(RoundWindows)
  BY WholeInit DEF Inner
<1>3. TypeOK /\ Whole(AllocWindows) /\ [Next]_vars => Whole(AllocWindows)'
  BY <1>0, WholeStep DEF Inner
<1>4. TypeOK /\ Whole(RoundWindows) /\ [Next]_vars => Whole(RoundWindows)'
  BY <1>0, WholeStep DEF Inner
<1>5. TypeOK /\ Whole(AllocWindows) /\ Whole(RoundWindows) /\ StacksNotShared
        /\ [Next]_vars => StacksNotShared'
  BY <1>0, StacksStep
<1> QED BY <1>1, <1>2, <1>3, <1>4, <1>5, TypeCorrect, PTL DEF Spec

-----------------------------------------------------------------------------
LEMMA ScheduleSleep ==
  ASSUME TypeOK, cpu \in Threads, NEW tt \in [Pids -> Task],
         NEW style \in {"iret", "ret"}, MaskedSchedule(tt, style), NEW i \in Pids
  PROVE  TaskTable'[i].msleep <= tt[i].msleep
<1> DEFINE scanned == Scanned(tt)
           nxt == Pick(scanned, CurrentTaskPID)
<1>1. CurrentTaskPID \in Pids /\ scanned \in [Pids -> Task]
  BY ScannedFacts DEF TypeOK
<1>2. nxt \in Pids
  BY <1>1, PickFacts
<1>3. scanned[i].msleep <= tt[i].msleep
  BY RoundFacts DEF Scanned
<1>4. CASE nxt = CurrentTaskPID
  <2>1. TaskTable' = scanned
    BY <1>4 DEF MaskedSchedule
  <2> QED BY <1>3, <2>1
<1>5. CASE nxt # CurrentTaskPID
  <2>1. TaskTable' = Saved(Commit(scanned, CurrentTaskPID, nxt), CurrentTaskPID)
    BY <1>5 DEF MaskedSchedule
  <2> HIDE DEF scanned, nxt
  <2>2. /\ Commit(scanned, CurrentTaskPID, nxt) \in [Pids -> Task]
        /\ Commit(scanned, CurrentTaskPID, nxt)[i].msleep = scanned[i].msleep
    BY <1>1, <1>2, CommitFacts
  <2>3. TaskTable'[i].msleep = Commit(scanned, CurrentTaskPID, nxt)[i].msleep
    BY <1>1, <2>1, <2>2, SavedFacts
  <2> QED BY <1>3, <2>2, <2>3
<1> QED BY <1>4, <1>5

(* Every step but msleep's leaves a slot's msleep, or lowers it.            *)
LEMMA SleepLowers ==
  ASSUME ~Open(RoundWindows), TypeOK, Whole(RoundWindows), Next, ~Msleep, NEW i \in Pids
  PROVE  TaskTable'[i].msleep <= TaskTable[i].msleep
<1>0. TaskTable \in [Pids -> Task] /\ CurrentTaskPID \in Pids
      /\ TaskTable[i].msleep \in Nat
  BY SleepAssumption DEF TypeOK, Task
<1>1. CASE Tick
  BY <1>0, <1>1, ScheduleSleep DEF Tick, TypeOK
<1>2. ASSUME Exit, cpu \in Threads PROVE TaskTable'[i].msleep <= TaskTable[i].msleep
  <2>1. CASE CurrentTaskPID = 0
    BY <1>0, <1>2, <2>1 DEF Exit
  <2>2. CASE CurrentTaskPID # 0
    <3> DEFINE tt == [TaskTable EXCEPT ![CurrentTaskPID].state = "ZOMBIE"]
    <3>1. tt \in [Pids -> Task]
      BY <1>0, TaskUpdates, Zenon DEF TaskStates
    <3>2. tt[i].msleep = TaskTable[i].msleep
      BY <1>0 DEF Task
    <3>3. MaskedSchedule(tt, "ret")
      BY <1>2, <2>2 DEF Exit
    <3> HIDE DEF tt
    <3> QED BY <1>2, <3>1, <3>2, <3>3, ScheduleSleep
  <2> QED BY <2>1, <2>2
<1>3. ASSUME NEW pid \in Pids, Kill(pid) PROVE TaskTable'[i].msleep <= TaskTable[i].msleep
  BY <1>0, <1>3 DEF Kill, Task
<1>4. CASE ScheduleScan
  BY <1>0, <1>4, ScheduleScanTable, RoundFacts
<1>5. CASE ScheduleCommit
  <2>1. next_pid[cpu] \in Pids
    BY <1>5 DEF ScheduleCommit, At, TypeOK
  <2> QED BY <1>0, <1>5, <2>1, CommitFacts DEF ScheduleCommit
<1>6. CASE ScheduleSwitch
  <2>1. cpu \in Threads /\ prev[cpu] \in Pids
    BY <1>6 DEF ScheduleSwitch, At, TypeOK
  <2> QED BY <1>0, <1>6, <2>1, SavedFacts DEF ScheduleSwitch
<1>7. CASE CreateFind \/ SchedulePick \/ ThreadReturn \/ ForkReturn
  BY <1>0, <1>7 DEF CreateFind, SchedulePick, ThreadReturn, ForkReturn
<1>8. CASE CreateClaim
  BY <1>0, <1>8 DEF CreateClaim, Task
<1>9. CASE CreateAlloc
  <2>1. PICK s \in Stacks \cup {NULL} : TaskTable' = [TaskTable EXCEPT ![id[cpu]].kstack = s]
    BY <1>9 DEF CreateAlloc, AllocStack, TypeOK
  <2> QED BY <1>0, <2>1 DEF Task
<1>10. CASE CreateFrame
  <2>1. \/ UNCHANGED TaskTable
        \/ TaskTable' = [TaskTable EXCEPT ![id[cpu]].rsp = TaskTable[id[cpu]].kstack]
    BY <1>10 DEF CreateFrame
  <2>2. id[cpu] \in Pids
    BY <1>10 DEF CreateFrame, At, TypeOK
  <2>3. TaskTable[id[cpu]].kstack \in Stacks \cup {NULL}
    BY <1>0, <2>2 DEF Task
  <2>4. CASE UNCHANGED TaskTable
    BY <1>0, <2>4
  <2>5. CASE TaskTable' = [TaskTable EXCEPT ![id[cpu]].rsp = TaskTable[id[cpu]].kstack]
    BY <1>0, <2>2, <2>3, <2>5 DEF Task
  <2> QED BY <2>1, <2>4, <2>5
<1>11. CASE TaskFork
  <2>1. CASE EmptySlots = {}
    BY <1>0, <1>11, <2>1 DEF TaskFork
  <2>2. CASE EmptySlots # {}
    <3> DEFINE child   == FirstEmpty
               claimed == [TaskTable EXCEPT
                             ![child].state = "WAITING",
                             ![child].priority = TaskTable[CurrentTaskPID].priority]
    <3>1. \/ \E s \in Stacks :
               TaskTable' = [[claimed EXCEPT ![child].rsp = s] EXCEPT ![child].kstack = s]
          \/ TaskTable' = [claimed EXCEPT ![child].kstack = NULL]
      BY <1>11, <2>2 DEF TaskFork, AllocStack, TypeOK
    <3>2. child \in Pids /\ TaskTable[CurrentTaskPID].priority \in {0, 1}
      BY <1>0, <2>2, FirstEmptyIsEmpty DEF EmptySlots, Task
    <3> HIDE DEF child
    <3>3. claimed \in [Pids -> Task]
      BY <1>0, <3>2, TaskUpdates, Zenon DEF TaskStates
    <3>4. claimed[i].msleep = TaskTable[i].msleep
      BY <1>0 DEF Task
    <3> HIDE DEF claimed
    <3>5. ASSUME NEW s \in Stacks,
                 TaskTable' = [[claimed EXCEPT ![child].rsp = s] EXCEPT ![child].kstack = s]
          PROVE  TaskTable'[i].msleep = claimed[i].msleep
      <4> DEFINE copied == [claimed EXCEPT ![child].rsp = s]
      <4>1. copied \in [Pids -> Task]
        BY <3>2, <3>3, TaskUpdates, Zenon DEF Threads
      <4>2. copied[i].msleep = claimed[i].msleep
        BY <3>3 DEF Task
      <4>3. TaskTable' = [copied EXCEPT ![child].kstack = s]
        BY <3>5, Zenon
      <4> HIDE DEF copied
      <4> QED BY <4>1, <4>2, <4>3 DEF Task
    <3>6. ASSUME TaskTable' = [claimed EXCEPT ![child].kstack = NULL]
          PROVE  TaskTable'[i].msleep = claimed[i].msleep
      BY <3>3, <3>6 DEF Task
    <3>7. TaskTable'[i].msleep = TaskTable[i].msleep
      BY <3>1, <3>4, <3>5, <3>6, Zenon
    <3> QED BY <1>0, <3>7
  <2> QED BY <2>1, <2>2
<1>13. CASE ExitTask
  BY <1>2, <1>13 DEF ExitTask, UserCall, At, TypeOK
<1>14. CASE KillTask
  BY <1>3, <1>14 DEF KillTask
<1>15. CASE Fault
  BY <1>0, <1>2, <1>3, <1>15 DEF Fault, UserCall, At, TypeOK
<1>16. CASE CreateAllocSteps
  BY <1>0, <1>16, AllocStepsTable
<1>17. CASE ScheduleCommitSteps
  BY <1>0, <1>17, CommitStepsTable
<1> QED BY <1>1, <1>4, <1>5, <1>6, <1>7, <1>8, <1>9, <1>10, <1>11, <1>13,
           <1>14, <1>15, <1>16, <1>17, NoInnerStep DEF Next

(* No sleeper's counter passes below 0, in an instance that takes no tick   *)
(* inside a round of the scan: only between the test and the decrement      *)
(* (task.c:149-150) can another pass of Schedule() count it down.           *)
THEOREM SleepBoundedHolds ==
  ASSUME RoundWindows \cap Preemptible = {}
  PROVE  Spec => []SleepBounded
<1>1. ~Open(RoundWindows)
  BY DEF Open
<1>2. Init => SleepBounded
  BY SleepAssumption DEF Init, SleepBounded, EmptyTask
<1>3. Init => Whole(RoundWindows)
  BY WholeInit DEF Inner
<1>4. TypeOK /\ Whole(RoundWindows) /\ [Next]_vars => Whole(RoundWindows)'
  BY <1>1, WholeStep DEF Inner
<1>5. TypeOK /\ TypeOK' /\ Whole(RoundWindows) /\ SleepBounded /\ [Next]_vars
        => SleepBounded'
  <2> SUFFICES ASSUME TypeOK, TypeOK', Whole(RoundWindows), SleepBounded, [Next]_vars,
                      NEW i \in Pids
               PROVE  TaskTable'[i].msleep <= MaxSleep
    BY DEF SleepBounded
  <2>0. /\ TaskTable[i].msleep \in Nat /\ TaskTable'[i].msleep \in Nat /\ MaxSleep \in Nat
        /\ TaskTable[i].msleep <= MaxSleep
        /\ TaskTable \in [Pids -> Task] /\ CurrentTaskPID \in Pids
    BY SleepAssumption DEF TypeOK, Task, SleepBounded
  <2>1. CASE Msleep
    <3>1. PICK k \in 0 .. MaxSleep :
            TaskTable' = [TaskTable EXCEPT ![CurrentTaskPID].msleep = k,
                                           ![CurrentTaskPID].state = "SLEEPING"]
      BY <2>1 DEF Msleep
    <3>2. TaskTable'[i].msleep \in {k, TaskTable[i].msleep}
      BY <2>0, <3>1 DEF Task
    <3> QED BY <2>0, <3>2
  <2>2. CASE Next /\ ~Msleep
    <3>1. TaskTable'[i].msleep <= TaskTable[i].msleep
      BY <1>1, <2>2, SleepLowers
    <3> QED BY <2>0, <3>1
  <2>3. CASE UNCHANGED vars
    BY <2>0, <2>3 DEF vars
  <2> QED BY <2>1, <2>2, <2>3
<1> QED BY <1>2, <1>3, <1>4, <1>5, TypeCorrect, PTL DEF Spec
=============================================================================
