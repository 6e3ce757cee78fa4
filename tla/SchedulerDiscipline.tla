------------------------- MODULE SchedulerDiscipline -------------------------
(***************************************************************************)
(* Proofs about the context switch: which stack the CPU is on, what a task *)
(* that is not running can be resumed with, who owns which stack, and how  *)
(* many tasks there are, for every table size.  All of them suppose        *)
(* Disciplined, a condition that the kernel does not keep: its CreateTask, *)
(* the rounds of its scan and its commit run with interrupts enabled.  The *)
(* theorems say that to mask these three is enough for threads that        *)
(* neither return nor fork, with a stack for every slot.                   *)
(***************************************************************************)
EXTENDS SchedulerProofs, FunctionTheorems

(* Ticks only in front of a round of the scan, behind the scan and before a *)
(* suicide's ExitTask: none in CreateTask, inside a round, or from the      *)
(* choice of the next task to the switch (README.md says what a tick in     *)
(* each of these breaks); no thread function returns and none forks;        *)
(* kmalloc has a stack for every slot but the idle task's.                  *)
Disciplined ==
  /\ Preemptible \subseteq SafeWindows
  /\ Calls \cap {"Return", "TaskFork"} = {}
  /\ Cardinality(Stacks) >= MAX_TASK_COUNT - 1

\* Where a thread may be when it is switched away from and resumed later.
Settled == {"user"} \cup SafeWindows

\* Where the executing thread may be besides, until it switches.
Busy == {"ct_claim", "ct_alloc", "ct_frame", "sc_commit"}

Alive == {"RUNNING", "WAITING", "SLEEPING"}

Used(tt) == {i \in Pids : tt[i].state # "EMPTY"}

(* The tasks have a stack, the idle task and the empty slots none from the  *)
(* heap; the slot that CreateTask has claimed gets its own.                 *)
OwnStacks ==
  \A i \in Pids :
    TaskTable[i].kstack = NULL
      <=> i = 0 \/ TaskTable[i].state = "EMPTY"
            \/ (pc[cpu] = "ct_alloc" /\ i = id[cpu])

(* Only the executing thread is inside a window that ticks are kept out of, *)
(* and no thread of a task is behind its ExitTask.                          *)
ThreadPlaces ==
  /\ pc[cpu] \in Settled \cup Busy \cup {"sc_switch"}
  /\ \A t \in Threads \ {cpu} : pc[t] \in Settled \cup {"dead"}
  /\ \A i \in Live \ {Executing} : pc[StackOf(i)] \in Settled

(* What the executing thread found out at an earlier step is still so.      *)
LocalsFresh ==
  /\ pc[cpu] = "ct_claim" => TaskTable[id[cpu]].state = "EMPTY"
  /\ pc[cpu] \in {"ct_alloc", "ct_frame"} =>
       /\ TaskTable[id[cpu]].state = "WAITING"
       /\ id[cpu] \notin {0, CurrentTaskPID}
  /\ pc[cpu] = "sc_commit" =>
       /\ next_pid[cpu] # CurrentTaskPID
       /\ TaskTable[next_pid[cpu]].state \in Alive
  /\ pc[cpu] = "sc_switch" =>
       /\ next_pid[cpu] = CurrentTaskPID
       /\ prev[cpu] # CurrentTaskPID
       /\ TaskTable[prev[cpu]].state \in Alive

Discipline ==
  /\ CpuOnCurrentStack
  /\ SavedContexts
  /\ OwnStacks
  /\ ThreadPlaces
  /\ LocalsFresh

IInv ==
  /\ TypeOK
  /\ IdleAlive
  /\ StackOwnership
  /\ TaskCountExact
  /\ Discipline

StacksAccounted == Stacks \ freeStacks = {TaskTable[i].kstack : i \in Pids} \ {NULL}

\* The conjuncts of IInv that SchedulerProofs does not state.
Rest == StacksAccounted /\ TaskCountExact /\ Discipline

-----------------------------------------------------------------------------
(* Which slots are live.                                                    *)

LEMMA Builders ==
  ASSUME NEW places, NEW c \in Threads, NEW local,
         \A t \in Threads \ {c} : places[t] \in Settled \cup {"dead"},
         places[c] \notin AllocWindows
  PROVE  {local[t] : t \in {u \in Threads :
                             places[u] \in {"ct_alloc", "ct_frame"} \cup AllocWindows}}
           = IF places[c] \in {"ct_alloc", "ct_frame"} THEN {local[c]} ELSE {}
<1>1. \A t \in Threads \ {c} : places[t] \notin {"ct_alloc", "ct_frame"} \cup AllocWindows
  BY DEF Settled, SafeWindows, AllocWindows
<1> QED BY <1>1

LEMMA LiveIs ==
  ASSUME cpu \in Threads, ThreadPlaces
  PROVE  Live = Used(TaskTable)
                  \ (IF pc[cpu] \in {"ct_alloc", "ct_frame"} THEN {id[cpu]} ELSE {})
<1>1. UnderConstruction = IF pc[cpu] \in {"ct_alloc", "ct_frame"} THEN {id[cpu]} ELSE {}
  <2>1. pc[cpu] \notin AllocWindows
    BY DEF ThreadPlaces, Settled, SafeWindows, Busy, AllocWindows
  <2> QED BY <2>1, Builders DEF ThreadPlaces, UnderConstruction
<1> QED BY <1>1 DEF Live, Used

LEMMA LiveIsNext ==
  ASSUME cpu' \in Threads, pc'[cpu'] \in Settled \cup Busy \cup {"sc_switch"},
         \A t \in Threads \ {cpu'} : pc'[t] \in Settled \cup {"dead"}
  PROVE  Live' = Used(TaskTable')
                   \ (IF pc'[cpu'] \in {"ct_alloc", "ct_frame"} THEN {id'[cpu']} ELSE {})
<1>1. UnderConstruction' = IF pc'[cpu'] \in {"ct_alloc", "ct_frame"} THEN {id'[cpu']} ELSE {}
  <2>1. pc'[cpu'] \notin AllocWindows
    BY DEF Settled, SafeWindows, Busy, AllocWindows
  <2> QED BY <2>1, Builders, SMTT(30) DEF UnderConstruction
<1> QED BY <1>1 DEF Live, Used

(* The CPU is on a stack, its task and the task it is leaving are live.     *)
LEMMA Running ==
  ASSUME IInv
  PROVE  /\ cpu \in Threads /\ cpu # NULL
         /\ CurrentTaskPID \in Live /\ CurrentTaskPID \in Pids
         /\ Executing \in Live /\ Executing \in Pids
         /\ cpu = StackOf(Executing)
         /\ pc[cpu] # "sc_switch" => Executing = CurrentTaskPID
         /\ TaskTable[CurrentTaskPID].state \in Alive
         /\ TaskTable[Executing].state \in Alive
<1> USE DEF IInv, Discipline
<1>1. cpu \in Threads /\ cpu # NULL /\ CurrentTaskPID \in Pids
  BY DEF CpuOnCurrentStack, TypeOK
<1>2. TaskTable[CurrentTaskPID].state \in Alive
  BY DEF CpuOnCurrentStack, Alive
<1>3. Executing \in Pids /\ TaskTable[Executing].state \in Alive
  BY <1>1, <1>2 DEF Executing, LocalsFresh, TypeOK
<1>4. CurrentTaskPID \in Live
  BY <1>1, <1>2, LiveIs DEF LocalsFresh, Used, Alive
<1>5. Executing \in Live
  BY <1>1, <1>3, <1>4, LiveIs DEF Executing, Used, Alive
<1> QED BY <1>1, <1>2, <1>3, <1>4, <1>5 DEF Executing, CpuOnCurrentStack

(* A task has a stack of its own, and no two tasks the same.                *)
LEMMA StackOfFacts ==
  ASSUME IInv, NEW i \in Live
  PROVE  /\ i \in Pids /\ TaskTable[i] \in Task
         /\ StackOf(i) \in Threads /\ StackOf(i) # NULL
         /\ i # 0 => TaskTable[i].kstack \in Stacks
         /\ \A j \in Live : StackOf(j) = StackOf(i) => i = j
<1>1. cpu \in Threads
  BY Running
<1>2. \A j \in Live : /\ j \in Pids
                      /\ TaskTable[j].state # "EMPTY"
                      /\ ~(pc[cpu] = "ct_alloc" /\ j = id[cpu])
  BY <1>1, LiveIs DEF IInv, Discipline, Used
<1>3. \A j \in Live : j # 0 => TaskTable[j].kstack \in Stacks
  BY <1>2 DEF IInv, Discipline, OwnStacks, TypeOK, Task
<1>4. BootStack \notin Stacks /\ NULL \notin Threads
  BY StacksAssumption DEF Threads
<1>5. StackOf(i) \in Threads
  BY <1>3 DEF StackOf, Threads
<1>6. ASSUME NEW j \in Live, StackOf(j) = StackOf(i) PROVE i = j
  <2>1. CASE i = 0 \/ j = 0
    BY <1>3, <1>4, <1>6, <2>1 DEF StackOf
  <2>2. CASE i # 0 /\ j # 0
    <3>1. TaskTable[i].kstack = TaskTable[j].kstack /\ TaskTable[i].kstack # NULL
      BY <1>3, <1>4, <1>6, <2>2 DEF StackOf, Threads
    <3> QED BY <1>2, <3>1 DEF IInv, StackOwnership, StacksNotShared
  <2> QED BY <2>1, <2>2
<1> QED BY <1>2, <1>3, <1>4, <1>5, <1>6 DEF IInv, TypeOK

-----------------------------------------------------------------------------
(* Steps in which the CPU stays with its thread.                            *)

LEMMA StayKeeps ==
  ASSUME IInv, TypeOK', UNCHANGED <<cpu, CurrentTaskPID>>,
         NEW q \in Settled \cup Busy, GoTo(q), pc[cpu] # "sc_switch",
         Live' \subseteq Live, TaskTable'[CurrentTaskPID].state \in Alive,
         TaskTable'[CurrentTaskPID].kstack = TaskTable[CurrentTaskPID].kstack,
         \A i \in Live' : /\ TaskTable'[i].rsp = TaskTable[i].rsp
                          /\ TaskTable'[i].kstack = TaskTable[i].kstack
  PROVE  CpuOnCurrentStack' /\ SavedContexts' /\ ThreadPlaces'
<1>1. /\ cpu \in Threads /\ pc' = [pc EXCEPT ![cpu] = q] /\ pc'[cpu'] = q
      /\ pc \in [Threads -> Points]
  BY Running DEF GoTo, IInv, TypeOK
<1>2. Executing = CurrentTaskPID /\ Executing' = CurrentTaskPID
  <2>1. q # "sc_switch"
    BY DEF Settled, SafeWindows, Busy
  <2> QED BY <1>1, <2>1, Running DEF Executing
<1>3. \A i \in Live' : StackOf(i)' = StackOf(i)
  BY DEF StackOf
<1>4. CpuOnCurrentStack'
  BY <1>2, Running DEF CpuOnCurrentStack, Alive, StackOf
<1>5. SavedContexts'
  BY <1>2, <1>3 DEF SavedContexts, IInv, Discipline
<1>6. ThreadPlaces'
  <2>1. ASSUME NEW i \in Live' \ {Executing'} PROVE pc'[StackOf(i)'] \in Settled
    <3>1. i \in Live /\ i # Executing /\ StackOf(i)' = StackOf(i)
      BY <1>2, <1>3
    <3>2. StackOf(i) \in Threads /\ StackOf(i) # cpu /\ pc[StackOf(i)] \in Settled
      BY <3>1, Running, StackOfFacts DEF IInv, Discipline, ThreadPlaces
    <3> QED BY <1>1, <3>1, <3>2
  <2>2. \A t \in Threads \ {cpu'} : pc'[t] \in Settled \cup {"dead"}
    BY <1>1 DEF IInv, Discipline, ThreadPlaces
  <2> QED BY <1>1, <2>1, <2>2 DEF ThreadPlaces
<1> QED BY <1>4, <1>5, <1>6

(* Steps in which the CPU leaves its thread for another task's.  q is where *)
(* the thread is left: behind a call of Schedule() or in the middle of what *)
(* a tick interrupts, or behind the Schedule() of ExitTask, its slot empty. *)
LEMMA SwitchKeeps ==
  ASSUME IInv, TypeOK', pc[cpu] \notin {"ct_claim", "ct_alloc", "ct_frame"},
         NEW n \in Live, n # Executing, CurrentTaskPID' = n, cpu' = TaskTable[n].rsp,
         TaskTable'[n].state \in Alive, TaskTable'[n].kstack = TaskTable[n].kstack,
         NEW q \in Settled \cup {"dead"}, GoTo(q),
         q = "dead" => TaskTable'[Executing].state = "EMPTY",
         TaskTable'[Executing].rsp = cpu,
         \A i \in Used(TaskTable') :
           /\ i \in Live /\ TaskTable'[i].kstack = TaskTable[i].kstack
           /\ i # Executing => TaskTable'[i].rsp = TaskTable[i].rsp
  PROVE  OwnStacks' => Discipline'
<1>1. /\ cpu \in Threads /\ pc' = [pc EXCEPT ![cpu] = q]
      /\ pc \in [Threads -> Points]
  BY Running DEF GoTo, IInv, TypeOK
<1>2. cpu' = StackOf(n) /\ cpu' \in Threads /\ cpu' # cpu /\ cpu' # NULL
  BY Running, StackOfFacts DEF SavedContexts, IInv, Discipline
<1>3. pc'[cpu'] \in Settled
  BY <1>1, <1>2 DEF ThreadPlaces, IInv, Discipline
<1>4. \A t \in Threads : t # cpu => pc'[t] = pc[t] /\ pc[t] \in Settled \cup {"dead"}
  BY <1>1 DEF ThreadPlaces, IInv, Discipline
<1>5. Live' = Used(TaskTable')
  BY <1>1, <1>2, <1>3, <1>4, LiveIsNext DEF Settled, SafeWindows
<1>6. Executing' = n
  BY <1>3 DEF Executing, Settled, SafeWindows
<1>7. \A i \in Live' : i \in Live /\ StackOf(i)' = StackOf(i)
  BY <1>5 DEF StackOf
<1>8. CpuOnCurrentStack'
  BY <1>2, <1>6 DEF CpuOnCurrentStack, StackOf, Alive
<1>9. SavedContexts'
  BY <1>5, <1>6, <1>7, Running DEF SavedContexts, IInv, Discipline
<1>10. ThreadPlaces'
  <2>1. ASSUME NEW i \in Live' \ {Executing'} PROVE pc'[StackOf(i)'] \in Settled
    <3>1. CASE i = Executing
      <4>1. q # "dead"
        BY <1>5, <3>1 DEF Used
      <4>2. StackOf(i)' = cpu
        BY <1>7, <3>1, Running
      <4> QED BY <1>1, <4>1, <4>2
    <3>2. CASE i # Executing
      <4>1. StackOf(i) \in Threads /\ StackOf(i) # cpu /\ pc[StackOf(i)] \in Settled
        BY <1>7, <3>2, Running, StackOfFacts DEF IInv, Discipline, ThreadPlaces
      <4> QED BY <1>4, <1>7, <4>1
    <3> QED BY <3>1, <3>2
  <2>2. \A t \in Threads \ {cpu'} : pc'[t] \in Settled \cup {"dead"}
    BY <1>1, <1>4
  <2> QED BY <1>3, <2>1, <2>2 DEF ThreadPlaces
<1>11. LocalsFresh'
  BY <1>3 DEF LocalsFresh, Settled, SafeWindows
<1> QED BY <1>8, <1>9, <1>10, <1>11 DEF Discipline

(* Steps that change neither a stack's owner nor who is live.               *)
LEMMA SameTasks ==
  ASSUME IInv, UNCHANGED <<TaskCount, freeStacks>>, Live' = Live,
         \A i \in Pids : TaskTable'[i].kstack = TaskTable[i].kstack
  PROVE  StacksAccounted' /\ TaskCountExact'
BY DEF IInv, StackOwnership, StacksAccounted, TaskCountExact

(* A step of the current task that leaves it outside CreateTask and between *)
(* two passes of Schedule(), and at most marks tasks asleep or dead.        *)
LEMMA MarkKeeps ==
  ASSUME IInv, TypeOK',
         UNCHANGED <<TaskCount, CurrentTaskPID, freeStacks, cpu>>,
         NEW q \in Settled, GoTo(q), pc[cpu] \in Settled,
         TaskTable'[CurrentTaskPID].state \in Alive,
         \A i \in Pids : /\ TaskTable'[i].kstack = TaskTable[i].kstack
                         /\ TaskTable'[i].rsp = TaskTable[i].rsp
                         /\ TaskTable'[i].state = "EMPTY" <=> TaskTable[i].state = "EMPTY"
  PROVE  Rest'
<1> USE DEF Settled, SafeWindows
<1>1. /\ cpu \in Threads /\ pc' = [pc EXCEPT ![cpu] = q] /\ pc'[cpu] = q
      /\ pc \in [Threads -> Points]
  BY Running DEF GoTo, IInv, TypeOK
<1>2. Live' = Live
  <2>1. \A t \in Threads \ {cpu'} : pc'[t] \in Settled \cup {"dead"}
    BY <1>1 DEF IInv, Discipline, ThreadPlaces
  <2>2. Live' = Used(TaskTable') /\ Live = Used(TaskTable)
    BY <1>1, <2>1, LiveIs, LiveIsNext DEF IInv, Discipline, Busy
  <2> QED BY <2>2 DEF Used
<1>3. \A i \in Live : i \in Pids
  BY DEF Live
<1>4. StacksAccounted' /\ TaskCountExact'
  BY <1>2, SameTasks
<1>5. CpuOnCurrentStack' /\ SavedContexts' /\ ThreadPlaces'
  <2>1. q \in Settled \cup Busy /\ pc[cpu] # "sc_switch"
    OBVIOUS
  <2> QED BY <1>2, <1>3, <2>1, StayKeeps, Running
<1>6. OwnStacks'
  BY <1>1 DEF OwnStacks, IInv, Discipline
<1>7. LocalsFresh'
  BY <1>1 DEF LocalsFresh
<1> QED BY <1>4, <1>5, <1>6, <1>7 DEF Rest, Discipline

LEMMA MsleepKeeps ==
  ASSUME IInv, TypeOK', Msleep
  PROVE  Rest'
<1>1. PICK k \in 0 .. MaxSleep :
        TaskTable' = [TaskTable EXCEPT ![CurrentTaskPID].msleep = k,
                                       ![CurrentTaskPID].state = "SLEEPING"]
  BY DEF Msleep
<1>2. CurrentTaskPID \in Pids /\ TaskTable \in [Pids -> Task]
      /\ TaskTable[CurrentTaskPID].state \in Alive
  BY Running DEF IInv, TypeOK
<1>3. \A i \in Pids :
        /\ TaskTable'[i].kstack = TaskTable[i].kstack
        /\ TaskTable'[i].rsp = TaskTable[i].rsp
        /\ TaskTable'[i].state = (IF i = CurrentTaskPID THEN "SLEEPING"
                                  ELSE TaskTable[i].state)
  BY <1>1, <1>2 DEF Task
<1>4. pc[cpu] \in Settled /\ "sc_scan" \in Settled
  BY DEF Msleep, UserCall, At, Settled, SafeWindows
<1> QED BY <1>2, <1>3, <1>4, MarkKeeps DEF Msleep, locals, Alive

LEMMA StayAtPlace ==
  ASSUME IInv, UNCHANGED pc
  PROVE  GoTo(pc[cpu])
BY Running DEF GoTo, IInv, TypeOK

LEMMA KillKeeps ==
  ASSUME IInv, TypeOK', pc[cpu] = "user", NEW pid \in Pids \ {0}, Kill(pid)
  PROVE  Rest'
<1>1. CurrentTaskPID \in Pids /\ TaskTable \in [Pids -> Task]
      /\ TaskTable[CurrentTaskPID].state \in Alive
  BY Running DEF IInv, TypeOK
<1>2. UNCHANGED <<TaskCount, CurrentTaskPID, freeStacks, cpu>>
  BY DEF Kill, locals
<1>3. pc[cpu] \in Settled /\ "kt_exit" \in Settled
  BY DEF Settled, SafeWindows
<1>4. CASE UNCHANGED TaskTable
  <2>1. GoTo("kt_exit") \/ GoTo(pc[cpu])
    BY StayAtPlace DEF Kill
  <2> QED BY <1>1, <1>2, <1>3, <1>4, <2>1, MarkKeeps
<1>5. CASE ~UNCHANGED TaskTable
  <2>1. /\ pid # CurrentTaskPID /\ TaskTable[pid].state # "EMPTY"
        /\ TaskTable' = [TaskTable EXCEPT ![pid].state = "ZOMBIE"]
        /\ GoTo(pc[cpu])
    BY <1>5, StayAtPlace DEF Kill
  <2>2. \A i \in Pids :
          /\ TaskTable'[i].kstack = TaskTable[i].kstack
          /\ TaskTable'[i].rsp = TaskTable[i].rsp
          /\ TaskTable'[i].state = (IF i = pid THEN "ZOMBIE" ELSE TaskTable[i].state)
    BY <1>1, <2>1 DEF Task
  <2> QED BY <1>1, <1>2, <1>3, <2>1, <2>2, MarkKeeps
<1> QED BY <1>4, <1>5

LEMMA SchedulePickKeeps ==
  ASSUME IInv, TypeOK', SchedulePick
  PROVE  Rest'
<1> DEFINE nxt == Pick(TaskTable, CurrentTaskPID)
<1>0. /\ UNCHANGED <<TaskTable, TaskCount, CurrentTaskPID, freeStacks, cpu, id>>
      /\ pc[cpu] = "sc_pick" /\ cpu \in Threads
      /\ pc[cpu] \in Settled /\ "user" \in Settled
      /\ TaskTable[CurrentTaskPID].state \in Alive
      /\ pc \in [Threads -> Points] /\ next_pid \in [Threads -> Pids \cup {-1}]
  BY Running DEF SchedulePick, At, Settled, SafeWindows, IInv, TypeOK
<1>1. CASE nxt = CurrentTaskPID
  <2>1. GoTo("user")
    BY <1>1 DEF SchedulePick
  <2> QED BY <1>0, <2>1, MarkKeeps
<1>2. CASE nxt # CurrentTaskPID
  <2>1. GoTo("sc_commit") /\ next_pid' = [next_pid EXCEPT ![cpu] = nxt]
    BY <1>2 DEF SchedulePick
  <2>2. pc'[cpu'] = "sc_commit" /\ next_pid'[cpu'] = nxt
        /\ \A t \in Threads \ {cpu'} : pc'[t] = pc[t]
    BY <1>0, <2>1 DEF GoTo
  <2>3. TaskTable[nxt].state \in Alive
    <3>1. TaskTable \in [Pids -> Task] /\ CurrentTaskPID \in Pids /\ nxt \in Pids
      BY PickFacts DEF IInv, TypeOK
    <3>2. \/ nxt \in Waiting(TaskTable)
          \/ nxt = 0
      BY <1>2, <3>1, PickFacts
    <3> QED BY <3>1, <3>2 DEF Waiting, IInv, IdleAlive, Alive, TypeOK, Task, TaskStates
  <2> HIDE DEF nxt
  <2>4. Live' = Live
    <3>1. \A t \in Threads \ {cpu'} : pc'[t] \in Settled \cup {"dead"}
      BY <1>0, <2>2 DEF IInv, Discipline, ThreadPlaces
    <3> QED BY <1>0, <2>2, <3>1, LiveIs, LiveIsNext DEF IInv, Discipline, Busy
  <2>5. StacksAccounted' /\ TaskCountExact'
    BY <1>0, <2>4, SameTasks
  <2>6. CpuOnCurrentStack' /\ SavedContexts' /\ ThreadPlaces'
    <3>1. "sc_commit" \in Settled \cup Busy
      BY DEF Busy
    <3> QED BY <1>0, <2>1, <2>4, <3>1, StayKeeps
  <2>7. OwnStacks'
    BY <1>0, <2>2 DEF OwnStacks, IInv, Discipline
  <2>8. LocalsFresh'
    BY <1>0, <1>2, <2>2, <2>3 DEF LocalsFresh
  <2> QED BY <2>5, <2>6, <2>7, <2>8 DEF Rest, Discipline
<1> QED BY <1>1, <1>2

-----------------------------------------------------------------------------
(* CreateTask                                                               *)

(* kmalloc succeeds while a slot other than task 0's has no stack: else the *)
(* stacks would map one to one into too few slots.                          *)
LEMMA StackLeft ==
  ASSUME IInv, Disciplined, NEW i \in Pids \ {0}, TaskTable[i].kstack = NULL
  PROVE  freeStacks # {}
<1> SUFFICES ASSUME freeStacks = {} PROVE FALSE
  OBVIOUS
<1> DEFINE Holders == Pids \ {0, i}
           holder == [s \in Stacks |-> CHOOSE j \in Pids : TaskTable[j].kstack = s]
<1>1. TaskTable[0].kstack = NULL /\ 0 \in Pids /\ NULL \notin Stacks
  BY PidsFacts, StacksAssumption DEF IInv, Discipline, OwnStacks
<1>2. Stacks = {TaskTable[j].kstack : j \in Pids} \ {NULL}
  BY DEF IInv, StackOwnership
<1>3. \A s \in Stacks : \E j \in Pids : TaskTable[j].kstack = s
  BY <1>2
<1>4. \A s \in Stacks : holder[s] \in Pids /\ TaskTable[holder[s]].kstack = s
  BY <1>3
<1> HIDE DEF holder
<1>5. \A s \in Stacks : holder[s] \in Holders
  BY <1>1, <1>4
<1>6. holder \in Injection(Stacks, Holders)
  <2>1. holder \in [Stacks -> Holders]
    BY <1>5 DEF holder
  <2>2. \A r, s \in Stacks : holder[r] = holder[s] => r = s
    BY <1>4
  <2> QED BY <2>1, <2>2 DEF Injection, IsInjective
<1>7. IsFiniteSet(Holders) /\ Cardinality(Holders) = MAX_TASK_COUNT - 2
  <2>1. IsFiniteSet(Pids) /\ Cardinality(Pids) = MAX_TASK_COUNT
    BY PidsFacts, FS_Interval DEF Pids
  <2>2. IsFiniteSet(Pids \ {0}) /\ Cardinality(Pids \ {0}) = MAX_TASK_COUNT - 1
    BY <1>1, <2>1, FS_RemoveElement
  <2>3. IsFiniteSet((Pids \ {0}) \ {i})
        /\ Cardinality((Pids \ {0}) \ {i}) = (MAX_TASK_COUNT - 1) - 1
    BY <2>2, FS_RemoveElement
  <2>4. Holders = (Pids \ {0}) \ {i}
    OBVIOUS
  <2> QED BY <2>3, <2>4, PidsFacts
<1>8. Cardinality(Stacks) <= MAX_TASK_COUNT - 2
  BY <1>6, <1>7, FS_Injection
<1>9. Cardinality(Stacks) \in Nat
  BY StacksAssumption, FS_CardinalityType
<1> QED BY <1>8, <1>9, PidsFacts DEF Disciplined

LEMMA CreateFindKeeps ==
  ASSUME IInv, TypeOK', CreateFind
  PROVE  Rest'
<1>1. /\ UNCHANGED <<TaskTable, TaskCount, CurrentTaskPID, freeStacks, cpu>>
      /\ pc[cpu] = "user" /\ cpu \in Threads /\ GoTo("ct_claim")
      /\ TaskTable[CurrentTaskPID].state \in Alive
  BY Running DEF CreateFind, UserCall, At
<1>2. /\ pc'[cpu'] = "ct_claim" /\ id'[cpu'] = FirstEmpty
      /\ \A t \in Threads \ {cpu'} : pc'[t] = pc[t]
  BY <1>1 DEF CreateFind, GoTo, IInv, TypeOK
<1>3. TaskTable'[id'[cpu']].state = "EMPTY"
  BY <1>1, <1>2, FirstEmptyIsEmpty DEF CreateFind, EmptySlots
<1>4. Live' = Live
  <2>1. \A t \in Threads \ {cpu'} : pc'[t] \in Settled \cup {"dead"}
    BY <1>1, <1>2 DEF IInv, Discipline, ThreadPlaces
  <2> QED BY <1>1, <1>2, <2>1, LiveIs, LiveIsNext DEF IInv, Discipline, Busy
<1>5. StacksAccounted' /\ TaskCountExact'
  BY <1>1, <1>4, SameTasks
<1>6. CpuOnCurrentStack' /\ SavedContexts' /\ ThreadPlaces'
  <2>1. "ct_claim" \in Settled \cup Busy
    BY DEF Busy
  <2> QED BY <1>1, <1>4, <2>1, StayKeeps
<1>7. OwnStacks'
  BY <1>1, <1>2 DEF OwnStacks, IInv, Discipline
<1>8. LocalsFresh'
  BY <1>2, <1>3 DEF LocalsFresh
<1> QED BY <1>5, <1>6, <1>7, <1>8 DEF Rest, Discipline

LEMMA CreateClaimKeeps ==
  ASSUME IInv, TypeOK', CreateClaim
  PROVE  Rest'
<1> DEFINE new == id[cpu]
<1>1. /\ UNCHANGED <<TaskCount, CurrentTaskPID, freeStacks, cpu, id>>
      /\ pc[cpu] = "ct_claim" /\ cpu \in Threads /\ GoTo("ct_alloc")
      /\ TaskTable[CurrentTaskPID].state \in Alive /\ CurrentTaskPID \in Pids
      /\ TaskTable \in [Pids -> Task] /\ new \in Pids
      /\ TaskTable[new].state = "EMPTY" /\ new \notin {0, CurrentTaskPID}
  BY Running DEF CreateClaim, At, locals, IInv, TypeOK, Discipline, LocalsFresh,
                 IdleAlive, Alive
<1>2. /\ pc'[cpu'] = "ct_alloc" /\ id'[cpu'] = new
      /\ \A t \in Threads \ {cpu'} : pc'[t] = pc[t]
  BY <1>1 DEF GoTo, IInv, TypeOK
<1>3. \A i \in Pids :
        /\ TaskTable'[i].kstack = TaskTable[i].kstack
        /\ TaskTable'[i].rsp = TaskTable[i].rsp
        /\ TaskTable'[i].state = (IF i = new THEN "WAITING" ELSE TaskTable[i].state)
  BY <1>1 DEF CreateClaim, Task
<1>4. Live' = Live
  <2>1. \A t \in Threads \ {cpu'} : pc'[t] \in Settled \cup {"dead"}
    BY <1>1, <1>2 DEF IInv, Discipline, ThreadPlaces
  <2>2. Live = Used(TaskTable) /\ Live' = Used(TaskTable') \ {new}
    BY <1>1, <1>2, <2>1, LiveIs, LiveIsNext DEF IInv, Discipline, Busy
  <2> QED BY <1>1, <1>3, <2>2 DEF Used
<1>5. StacksAccounted' /\ TaskCountExact'
  BY <1>1, <1>3, <1>4, SameTasks
<1>6. CpuOnCurrentStack' /\ SavedContexts' /\ ThreadPlaces'
  <2>1. "ct_alloc" \in Settled \cup Busy
    BY DEF Busy
  <2>2. \A i \in Live : i \in Pids
    BY DEF Live
  <2> QED BY <1>1, <1>3, <1>4, <2>1, <2>2, StayKeeps
<1>7. OwnStacks'
  BY <1>1, <1>2, <1>3 DEF OwnStacks, IInv, Discipline
<1>8. LocalsFresh'
  BY <1>1, <1>2, <1>3 DEF LocalsFresh
<1> QED BY <1>5, <1>6, <1>7, <1>8 DEF Rest, Discipline

(* A stack that leaves the heap goes to a slot that had none.               *)
LEMMA AccountAlloc ==
  ASSUME IInv, NEW s \in freeStacks, freeStacks' = freeStacks \ {s},
         NEW c \in Pids, TaskTable[c].kstack = NULL, TaskTable'[c].kstack = s,
         \A i \in Pids \ {c} : TaskTable'[i].kstack = TaskTable[i].kstack
  PROVE  StacksAccounted'
<1> DEFINE held == {TaskTable[i].kstack : i \in Pids} \ {NULL}
           held2 == {TaskTable'[i].kstack : i \in Pids} \ {NULL}
<1>1. /\ s \in Stacks /\ s # NULL /\ freeStacks \subseteq Stacks
      /\ Stacks \ freeStacks = held
  BY StacksAssumption DEF IInv, TypeOK, StackOwnership
<1>2. held2 = held \cup {s}
  <2>1. held2 \subseteq held \cup {s}
    OBVIOUS
  <2>2. ASSUME NEW x \in held PROVE x \in held2
    <3>1. PICK i \in Pids : TaskTable[i].kstack = x /\ x # NULL
      OBVIOUS
    <3>2. i # c
      BY <3>1
    <3> QED BY <3>1, <3>2
  <2> QED BY <1>1, <2>1, <2>2
<1> HIDE DEF held, held2
<1>3. Stacks \ freeStacks' = held2
  BY <1>1, <1>2
<1> QED BY <1>3 DEF StacksAccounted, held2

LEMMA CreateAllocKeeps ==
  ASSUME IInv, Disciplined, TypeOK', CreateAlloc
  PROVE  Rest'
<1> DEFINE new == id[cpu]
<1>1. /\ UNCHANGED <<TaskCount, CurrentTaskPID, cpu>>
      /\ pc[cpu] = "ct_alloc" /\ cpu \in Threads
      /\ TaskTable[CurrentTaskPID].state \in Alive /\ CurrentTaskPID \in Pids
      /\ TaskTable \in [Pids -> Task] /\ new \in Pids
      /\ TaskTable[new].state = "WAITING" /\ new \notin {0, CurrentTaskPID}
      /\ TaskTable[new].kstack = NULL
  BY Running DEF CreateAlloc, At, IInv, TypeOK, Discipline, LocalsFresh, OwnStacks
<1>2. freeStacks # {}
  BY <1>1, StackLeft
<1>3. PICK s \in freeStacks :
        AllocStack(TaskTable, new, s) /\ GoTo("ct_frame") /\ UNCHANGED id
  BY <1>2 DEF CreateAlloc
<1>4. /\ pc'[cpu'] = "ct_frame" /\ id'[cpu'] = new
      /\ \A t \in Threads \ {cpu'} : pc'[t] = pc[t]
  BY <1>1, <1>3 DEF GoTo, IInv, TypeOK
<1>5. /\ freeStacks' = freeStacks \ {s} /\ TaskTable'[new].kstack = s
      /\ \A i \in Pids \ {new} : TaskTable'[i] = TaskTable[i]
      /\ \A i \in Pids : TaskTable'[i].state = TaskTable[i].state
  BY <1>1, <1>3 DEF AllocStack, Task
<1>6. Live = Used(TaskTable) \ {new} /\ Live' = Live
  <2>1. \A t \in Threads \ {cpu'} : pc'[t] \in Settled \cup {"dead"}
    BY <1>1, <1>4 DEF IInv, Discipline, ThreadPlaces
  <2>2. Live = Used(TaskTable) \ {new} /\ Live' = Used(TaskTable') \ {new}
    BY <1>1, <1>4, <2>1, LiveIs, LiveIsNext DEF IInv, Discipline, Busy
  <2> QED BY <1>5, <2>2 DEF Used
<1>7. StacksAccounted'
  BY <1>1, <1>5, AccountAlloc
<1>8. TaskCountExact'
  BY <1>1, <1>6 DEF TaskCountExact, IInv
<1>9. CpuOnCurrentStack' /\ SavedContexts' /\ ThreadPlaces'
  <2>1. "ct_frame" \in Settled \cup Busy
    BY DEF Busy
  <2>2. \A i \in Live : i \in Pids \ {new}
    BY <1>6 DEF Used
  <2> QED BY <1>1, <1>3, <1>5, <1>6, <2>1, <2>2, StayKeeps
<1>10. OwnStacks'
  <2>1. s # NULL
    BY StacksAssumption DEF IInv, TypeOK
  <2> QED BY <1>1, <1>4, <1>5, <2>1 DEF OwnStacks, IInv, Discipline
<1>11. LocalsFresh'
  BY <1>1, <1>4, <1>5 DEF LocalsFresh
<1> QED BY <1>7, <1>8, <1>9, <1>10, <1>11 DEF Rest, Discipline

(* A new task joins the live ones: its first context is a frame at the top  *)
(* of a stack that no task uses, counted once.                              *)
LEMMA JoinKeeps ==
  ASSUME IInv, TypeOK', UNCHANGED <<CurrentTaskPID, cpu>>,
         NEW c \in Pids, c # 0, c \notin Live, NEW s \in Stacks,
         \A i \in Live : StackOf(i) # s,
         pc[cpu] = "ct_frame", c = id[cpu],
         pc' = [pc EXCEPT ![s] = "user", ![cpu] = "user"],
         TaskTable'[c].state = "WAITING", TaskTable'[c].kstack = s,
         TaskTable'[c].rsp = s,
         \A i \in Pids \ {c} : TaskTable'[i] = TaskTable[i],
         TaskCount' = TaskCount + 1
  PROVE  TaskCountExact' /\ Discipline'
<1>1. /\ cpu \in Threads /\ cpu = StackOf(CurrentTaskPID)
      /\ Executing = CurrentTaskPID
      /\ CurrentTaskPID \in Live /\ TaskTable[CurrentTaskPID].state \in Alive
      /\ pc \in [Threads -> Points] /\ s \in Threads
  BY Running DEF IInv, TypeOK, Threads
<1>2. s # cpu /\ c # CurrentTaskPID
  BY <1>1
<1>3. /\ pc'[cpu'] = "user" /\ pc'[s] = "user"
      /\ \A t \in Threads \ {cpu, s} : pc'[t] = pc[t]
  BY <1>1, <1>2
<1>4. \A t \in Threads \ {cpu'} : pc'[t] \in Settled \cup {"dead"}
  BY <1>3 DEF IInv, Discipline, ThreadPlaces, Settled
<1>5. Live' = Live \cup {c}
  <2>1. Live' = Used(TaskTable')
    BY <1>1, <1>3, <1>4, LiveIsNext DEF Settled
  <2>2. Live = Used(TaskTable) \ {c}
    BY <1>1, LiveIs DEF IInv, Discipline
  <2> QED BY <2>1, <2>2 DEF Used
<1>6. Executing' = CurrentTaskPID
  BY <1>3 DEF Executing
<1>7. /\ StackOf(c)' = s
      /\ \A i \in Live : /\ i \in Pids /\ StackOf(i)' = StackOf(i)
                         /\ TaskTable'[i] = TaskTable[i]
  BY DEF StackOf, Live
<1>8. TaskCountExact'
  <2>1. IsFiniteSet(Pids)
    BY PidsFacts, FS_Interval DEF Pids
  <2>2. Live \in SUBSET Pids
    BY DEF Live
  <2>3. IsFiniteSet(Live)
    BY <2>1, <2>2, FS_Subset
  <2>4. Cardinality(Live \cup {c}) = Cardinality(Live) + 1
    BY <2>3, FS_AddElement
  <2> QED BY <1>5, <2>4 DEF TaskCountExact, IInv
<1>9. CpuOnCurrentStack'
  BY <1>1, <1>6, <1>7, Running DEF CpuOnCurrentStack, Alive
<1>10. SavedContexts'
  BY <1>1, <1>5, <1>6, <1>7 DEF SavedContexts, IInv, Discipline
<1>11. OwnStacks'
  <2>1. s # NULL
    BY StacksAssumption
  <2>2. \A i \in Pids \ {c} : TaskTable[i].kstack = NULL
                                <=> i = 0 \/ TaskTable[i].state = "EMPTY"
    BY DEF IInv, Discipline, OwnStacks
  <2> QED BY <1>3, <2>1, <2>2 DEF OwnStacks
<1>12. ThreadPlaces'
  <2>1. ASSUME NEW i \in Live' \ {Executing'} PROVE pc'[StackOf(i)'] \in Settled
    <3>1. CASE i = c
      BY <1>3, <1>7, <3>1 DEF Settled
    <3>2. CASE i # c
      <4>1. i \in Live /\ i # Executing /\ StackOf(i)' = StackOf(i) /\ StackOf(i) # s
        BY <1>1, <1>5, <1>6, <1>7, <3>2
      <4>2. StackOf(i) \in Threads /\ StackOf(i) # cpu /\ pc[StackOf(i)] \in Settled
        BY <4>1, Running, StackOfFacts DEF IInv, Discipline, ThreadPlaces
      <4> QED BY <1>3, <4>1, <4>2
    <3> QED BY <3>1, <3>2
  <2> QED BY <1>3, <1>4, <2>1 DEF ThreadPlaces, Settled
<1>13. LocalsFresh'
  BY <1>3 DEF LocalsFresh
<1> QED BY <1>8, <1>9, <1>10, <1>11, <1>12, <1>13 DEF Discipline

LEMMA CreateFrameKeeps ==
  ASSUME IInv, TypeOK', CreateFrame
  PROVE  Rest'
<1> DEFINE new == id[cpu]
           s == TaskTable[new].kstack
<1>1. /\ UNCHANGED <<CurrentTaskPID, freeStacks, cpu>>
      /\ pc[cpu] = "ct_frame" /\ cpu \in Threads
      /\ TaskTable \in [Pids -> Task] /\ new \in Pids
      /\ TaskTable[new].state = "WAITING" /\ new \notin {0, CurrentTaskPID}
  BY Running DEF CreateFrame, At, IInv, TypeOK, Discipline, LocalsFresh
<1>2. s \in Stacks /\ s # NULL
  <2>1. s # NULL
    BY <1>1 DEF IInv, Discipline, OwnStacks
  <2> QED BY <1>1, <2>1 DEF Task
<1>3. /\ TaskTable' = [TaskTable EXCEPT ![new].rsp = s]
      /\ pc' = [pc EXCEPT ![s] = "user", ![cpu] = "user"]
      /\ TaskCount' = TaskCount + 1
  BY <1>2 DEF CreateFrame
<1>4. /\ TaskTable'[new].state = "WAITING" /\ TaskTable'[new].kstack = s
      /\ TaskTable'[new].rsp = s
      /\ \A i \in Pids \ {new} : TaskTable'[i] = TaskTable[i]
  BY <1>1, <1>3 DEF Task
<1>5. new \notin Live
  BY <1>1, LiveIs DEF IInv, Discipline
<1>6. \A i \in Live : StackOf(i) # s
  <2>1. ASSUME NEW i \in Live PROVE StackOf(i) # s
    <3>1. i \in Pids /\ i # new
      BY <1>5, StackOfFacts
    <3>2. CASE i = 0
      BY <1>2, <3>2, StacksAssumption DEF StackOf
    <3>3. CASE i # 0
      BY <1>1, <1>2, <3>1, <3>3 DEF StackOf, IInv, StackOwnership, StacksNotShared
    <3> QED BY <3>2, <3>3
  <2> QED BY <2>1
<1>7. StacksAccounted'
  <2>1. \A i \in Pids : TaskTable'[i].kstack = TaskTable[i].kstack
    BY <1>4
  <2> QED BY <1>1, <2>1 DEF StacksAccounted, IInv, StackOwnership
<1>8. TaskCountExact' /\ Discipline'
  <2> HIDE DEF s
  <2>1. new = id[cpu]
    OBVIOUS
  <2> HIDE DEF new
  <2> QED BY <1>1, <1>2, <1>3, <1>4, <1>5, <1>6, <2>1, JoinKeeps
<1> QED BY <1>7, <1>8 DEF Rest

-----------------------------------------------------------------------------
(* Schedule()                                                               *)

(* The scan, slot by slot.                                                  *)
LEMMA ScannedSlots ==
  ASSUME NEW tt \in [Pids -> Task]
  PROVE  /\ Used(Scanned(tt)) = Used(tt) \ Zombies(tt)
         /\ Zombies(tt) \subseteq Used(tt)
         /\ \A i \in Zombies(tt) : /\ Scanned(tt)[i].state = "EMPTY"
                                   /\ Scanned(tt)[i].kstack = NULL
         /\ \A i \in Pids \ Zombies(tt) :
              /\ Scanned(tt)[i].kstack = tt[i].kstack
              /\ Scanned(tt)[i].rsp = tt[i].rsp
              /\ Scanned(tt)[i].state = "EMPTY" <=> tt[i].state = "EMPTY"
              /\ tt[i].state \in Alive => Scanned(tt)[i].state \in Alive
         /\ \A i \in Pids : Scanned(tt)[i].state = "ZOMBIE" => i = 0
<1>1. EmptyTask.state = "EMPTY" /\ EmptyTask.kstack = NULL
  BY DEF EmptyTask
<1>2. \A i \in Zombies(tt) : /\ i \in Pids /\ Scanned(tt)[i].state = "EMPTY"
                             /\ Scanned(tt)[i].kstack = NULL
  BY <1>1, ScannedFacts DEF Zombies
<1>3. ASSUME NEW i \in Pids \ Zombies(tt)
      PROVE  /\ Scanned(tt)[i].kstack = tt[i].kstack
             /\ Scanned(tt)[i].rsp = tt[i].rsp
             /\ Scanned(tt)[i].state = "EMPTY" <=> tt[i].state = "EMPTY"
             /\ tt[i].state \in Alive => Scanned(tt)[i].state \in Alive
             /\ Scanned(tt)[i].state = "ZOMBIE" => i = 0
  BY ScannedFacts DEF Alive, Zombies
<1> QED BY <1>2, <1>3 DEF Used, Zombies

(* The stacks that the scan gives to kfree are those of the zombies.        *)
LEMMA ReapedAre ==
  ASSUME NEW tt
  PROVE  Reaped(tt) = {tt[i].kstack : i \in Zombies(tt)} \ {NULL}
<1>1. Zombies(tt) \subseteq Pids
  BY DEF Zombies
<1> QED BY <1>1 DEF Reaped, Freed

(* Reaping the slots in Z moves their stacks to the heap.                   *)
LEMMA ScanAccount ==
  ASSUME IInv, NEW Z \in SUBSET Pids,
         freeStacks' = freeStacks \cup ({TaskTable[i].kstack : i \in Z} \ {NULL}),
         \A i \in Z : TaskTable'[i].kstack = NULL,
         \A i \in Pids \ Z : TaskTable'[i].kstack = TaskTable[i].kstack
  PROVE  StacksAccounted'
<1> DEFINE held   == {TaskTable[i].kstack : i \in Pids} \ {NULL}
           held2  == {TaskTable'[i].kstack : i \in Pids} \ {NULL}
           reaped == {TaskTable[i].kstack : i \in Z} \ {NULL}
<1>1. Stacks \ freeStacks = held
  BY DEF IInv, StackOwnership
<1>2. held2 = held \ reaped
  <2>1. ASSUME NEW x \in held2 PROVE x \in held \ reaped
    <3>1. PICK i \in Pids : TaskTable'[i].kstack = x /\ x # NULL
      OBVIOUS
    <3>2. i \notin Z /\ x = TaskTable[i].kstack
      BY <3>1
    <3>3. \A j \in Z : TaskTable[j].kstack # x
      BY <3>1, <3>2 DEF IInv, StackOwnership, StacksNotShared
    <3> QED BY <3>1, <3>2, <3>3
  <2>2. ASSUME NEW x \in held \ reaped PROVE x \in held2
    <3>1. PICK i \in Pids : TaskTable[i].kstack = x /\ x # NULL
      OBVIOUS
    <3>2. i \notin Z
      BY <3>1
    <3> QED BY <3>1, <3>2
  <2> QED BY <2>1, <2>2
<1> HIDE DEF held, held2, reaped
<1>3. Stacks \ freeStacks' = held2
  <2>1. freeStacks' = freeStacks \cup reaped
    BY DEF reaped
  <2> QED BY <1>1, <1>2, <2>1
<1> QED BY <1>3 DEF StacksAccounted, held2

LEMMA ScanCount ==
  ASSUME IInv, NEW Z, Z \subseteq Live, Live' = Live \ Z,
         TaskCount' = TaskCount - Cardinality(Z)
  PROVE  TaskCountExact'
<1>1. IsFiniteSet(Live)
  <2>1. IsFiniteSet(Pids) /\ Live \in SUBSET Pids
    BY PidsFacts, FS_Interval DEF Pids, Live
  <2> QED BY <2>1, FS_Subset
<1>2. Live \cap Z = Z
  OBVIOUS
<1>3. Cardinality(Live \ Z) = Cardinality(Live) - Cardinality(Z)
  BY <1>1, <1>2, FS_Difference
<1> QED BY <1>3 DEF TaskCountExact, IInv

(* One round of the scan, on a slot whose state is what it was before.      *)
LEMMA ScheduleScanKeeps ==
  ASSUME IInv, TypeOK', ScheduleScan
  PROVE  Rest'
<1> DEFINE i == slot[cpu]
           Z == IF i \in Zombies(TaskTable) THEN {i} ELSE {}
<1>1. /\ UNCHANGED <<CurrentTaskPID, cpu, id>>
      /\ pc[cpu] = "sc_scan" /\ cpu \in Threads
      /\ TaskTable[CurrentTaskPID].state \in Alive /\ CurrentTaskPID \in Pids
      /\ TaskTable \in [Pids -> Task] /\ i \in Pids
      /\ freeStacks' = freeStacks \cup Freed(TaskTable, i)
      /\ pc \in [Threads -> Points]
  BY Running DEF ScheduleScan, At, IInv, TypeOK
<1>2. PICK q \in {"sc_scan", "sc_pick"} : GoTo(q)
  BY DEF ScheduleScan, EndRound
<1>3. /\ pc'[cpu'] = q /\ q \in Settled
      /\ \A t \in Threads \ {cpu'} : pc'[t] = pc[t] /\ pc'[t] \in Settled \cup {"dead"}
  BY <1>1, <1>2 DEF GoTo, IInv, Discipline, ThreadPlaces, Settled, SafeWindows
<1>4. /\ TaskTable'[i] = Round(TaskTable, i)
      /\ \A j \in Pids \ {i} : TaskTable'[j] = TaskTable[j]
  BY ScheduleScanTable DEF IInv
<1>5. /\ \A j \in Z : /\ j \in Pids /\ j # 0 /\ TaskTable[j].state = "ZOMBIE"
                      /\ TaskTable'[j].state = "EMPTY" /\ TaskTable'[j].kstack = NULL
      /\ \A j \in Pids \ Z :
           /\ TaskTable'[j].kstack = TaskTable[j].kstack
           /\ TaskTable'[j].rsp = TaskTable[j].rsp
           /\ TaskTable'[j].state = "EMPTY" <=> TaskTable[j].state = "EMPTY"
           /\ TaskTable[j].state \in Alive => TaskTable'[j].state \in Alive
  <2>1. Round(TaskTable, i) = Scanned(TaskTable)[i]
    BY <1>1 DEF Scanned
  <2>2. Zombies(TaskTable) \subseteq Pids \ {0}
        /\ \A j \in Zombies(TaskTable) : TaskTable[j].state = "ZOMBIE"
    BY DEF Zombies
  <2>3. \A j \in Z : /\ j \in Pids /\ j # 0 /\ TaskTable[j].state = "ZOMBIE"
                    /\ TaskTable'[j].state = "EMPTY" /\ TaskTable'[j].kstack = NULL
    BY <1>1, <1>4, <2>1, <2>2, ScannedSlots
  <2>4. ASSUME NEW j \in Pids \ Z
        PROVE  /\ TaskTable'[j].kstack = TaskTable[j].kstack
               /\ TaskTable'[j].rsp = TaskTable[j].rsp
               /\ TaskTable'[j].state = "EMPTY" <=> TaskTable[j].state = "EMPTY"
               /\ TaskTable[j].state \in Alive => TaskTable'[j].state \in Alive
    <3>1. CASE j # i
      BY <1>4, <3>1
    <3>2. CASE j = i
      <4>1. i \in Pids \ Zombies(TaskTable) /\ TaskTable'[i] = Scanned(TaskTable)[i]
        BY <1>1, <1>4, <2>1, <3>2
      <4> QED BY <1>1, <3>2, <4>1, ScannedSlots
    <3> QED BY <3>1, <3>2
  <2> QED BY <2>3, <2>4
<1>6. /\ TaskCount' = TaskCount - Cardinality(Z)
      /\ freeStacks' = freeStacks \cup ({TaskTable[j].kstack : j \in Z} \ {NULL})
  <2>1. CASE i \in Zombies(TaskTable)
    <3>1. TaskCount' = TaskCount - 1
      BY <2>1 DEF ScheduleScan
    <3>2. Cardinality({i}) = 1
      BY FS_Singleton
    <3> QED BY <1>1, <2>1, <3>1, <3>2 DEF Freed
  <2>2. CASE i \notin Zombies(TaskTable)
    <3>1. TaskCount' = TaskCount - 0
      BY <2>2 DEF ScheduleScan
    <3>2. Cardinality({}) = 0
      BY FS_EmptySet
    <3> QED BY <1>1, <2>2, <3>1, <3>2 DEF Freed
  <2> QED BY <2>1, <2>2
<1> HIDE DEF Z, i
<1>7. Live = Used(TaskTable) /\ Live' = Used(TaskTable')
  BY <1>1, <1>3, LiveIs, LiveIsNext DEF IInv, Discipline, Settled, SafeWindows
<1>8. Z \subseteq Live /\ Live' = Live \ Z
  BY <1>5, <1>7 DEF Used
<1>9. CurrentTaskPID \notin Z /\ Z \in SUBSET Pids
  BY <1>1, <1>5 DEF Alive
<1>10. StacksAccounted'
  BY <1>5, <1>6, <1>9, ScanAccount
<1>11. TaskCountExact'
  BY <1>6, <1>8, ScanCount
<1>12. CpuOnCurrentStack' /\ SavedContexts' /\ ThreadPlaces'
  <2>1. \A j \in Live' : j \in Pids \ Z
    BY <1>7, <1>8 DEF Used
  <2> QED BY <1>1, <1>2, <1>3, <1>5, <1>8, <1>9, <2>1, StayKeeps
<1>13. OwnStacks'
  <2>1. \A j \in Pids : TaskTable[j].kstack = NULL
                          <=> j = 0 \/ TaskTable[j].state = "EMPTY"
    BY <1>1 DEF IInv, Discipline, OwnStacks
  <2>2. \A j \in Pids : TaskTable'[j].kstack = NULL
                          <=> j = 0 \/ TaskTable'[j].state = "EMPTY"
    BY <1>5, <2>1
  <2> QED BY <1>3, <2>2 DEF OwnStacks, Settled, SafeWindows
<1>14. LocalsFresh'
  BY <1>3 DEF LocalsFresh, Settled, SafeWindows
<1> QED BY <1>10, <1>11, <1>12, <1>13, <1>14 DEF Rest, Discipline

LEMMA ScheduleCommitKeeps ==
  ASSUME IInv, TypeOK', ScheduleCommit
  PROVE  Rest'
<1> DEFINE cur == CurrentTaskPID
           n   == next_pid[cpu]
<1>1. /\ UNCHANGED <<TaskCount, freeStacks, cpu, id, next_pid>>
      /\ pc[cpu] = "sc_commit" /\ cpu \in Threads
      /\ TaskTable \in [Pids -> Task] /\ n \in Pids /\ cur \in Pids
      /\ n # cur /\ TaskTable[n].state \in Alive /\ TaskTable[cur].state \in Alive
      /\ CurrentTaskPID' = n /\ TaskTable' = Commit(TaskTable, cur, n)
      /\ Executing = cur /\ cpu = StackOf(cur) /\ cur \in Live
  BY Running DEF ScheduleCommit, At, IInv, TypeOK, Discipline, LocalsFresh
<1>2. /\ pc'[cpu'] = "sc_switch" /\ prev'[cpu'] = cur
      /\ \A t \in Threads \ {cpu'} : pc'[t] = pc[t] /\ pc'[t] \in Settled \cup {"dead"}
  BY <1>1 DEF ScheduleCommit, GoTo, IInv, TypeOK, Discipline, ThreadPlaces
<1>3. /\ TaskTable'[n].state = "RUNNING" /\ TaskTable'[cur].state \in Alive
      /\ \A i \in Pids :
           /\ TaskTable'[i].kstack = TaskTable[i].kstack
           /\ TaskTable'[i].rsp = TaskTable[i].rsp
           /\ TaskTable'[i].state = "EMPTY" <=> TaskTable[i].state = "EMPTY"
  <2>1. /\ TaskTable'[n].state = "RUNNING"
        /\ TaskTable'[cur].state \in {"WAITING", TaskTable[cur].state}
    BY <1>1, CommitStates
  <2>2. \A i \in Pids : /\ TaskTable'[i].kstack = TaskTable[i].kstack
                        /\ TaskTable'[i].rsp = TaskTable[i].rsp
                        /\ i \notin {cur, n} => TaskTable'[i] = TaskTable[i]
    BY <1>1, CommitFacts
  <2> QED BY <1>1, <2>1, <2>2 DEF Alive
<1>4. Live' = Live /\ Live = Used(TaskTable)
  <2>1. Live = Used(TaskTable)
    BY <1>1, LiveIs DEF IInv, Discipline
  <2>2. Live' = Used(TaskTable')
    BY <1>1, <1>2, LiveIsNext
  <2> QED BY <1>3, <2>1, <2>2 DEF Used
<1>5. StacksAccounted' /\ TaskCountExact'
  BY <1>1, <1>3, <1>4, SameTasks
<1>6. Executing' = cur
  BY <1>2 DEF Executing
<1>7. \A i \in Live : i \in Pids /\ StackOf(i)' = StackOf(i)
  BY <1>3 DEF StackOf, Live
<1>8. CpuOnCurrentStack'
  BY <1>1, <1>3, <1>6, <1>7, Running DEF CpuOnCurrentStack
<1>9. SavedContexts'
  BY <1>1, <1>3, <1>4, <1>6, <1>7 DEF SavedContexts, IInv, Discipline
<1>10. ThreadPlaces'
  <2>1. ASSUME NEW i \in Live' \ {Executing'} PROVE pc'[StackOf(i)'] \in Settled
    <3>1. i \in Live /\ i # Executing /\ StackOf(i)' = StackOf(i)
      BY <1>1, <1>4, <1>6, <1>7
    <3>2. StackOf(i) \in Threads /\ StackOf(i) # cpu /\ pc[StackOf(i)] \in Settled
      BY <3>1, Running, StackOfFacts DEF IInv, Discipline, ThreadPlaces
    <3> QED BY <1>1, <1>2, <3>1, <3>2
  <2> QED BY <1>2, <2>1 DEF ThreadPlaces
<1>11. OwnStacks'
  BY <1>1, <1>2, <1>3 DEF OwnStacks, IInv, Discipline
<1>12. LocalsFresh'
  BY <1>1, <1>2, <1>3 DEF LocalsFresh
<1> QED BY <1>5, <1>8, <1>9, <1>10, <1>11, <1>12 DEF Rest, Discipline

LEMMA ScheduleSwitchKeeps ==
  ASSUME IInv, TypeOK', ScheduleSwitch
  PROVE  Rest'
<1> DEFINE n == CurrentTaskPID
           p == prev[cpu]
<1>1. /\ UNCHANGED <<TaskCount, CurrentTaskPID, freeStacks, id>>
      /\ pc[cpu] = "sc_switch" /\ cpu \in Threads /\ next_pid[cpu] = n
      /\ TaskTable \in [Pids -> Task] /\ n \in Pids /\ p \in Pids /\ p # n
      /\ TaskTable[n].state \in Alive
      /\ TaskTable' = Saved(TaskTable, p)
      /\ Executing = p /\ n \in Live /\ p \in Live
      /\ GoTo("user") /\ cpu' = TaskTable[n].rsp
      /\ pc \in [Threads -> Points]
  BY Running DEF ScheduleSwitch, At, IInv, TypeOK, Discipline, LocalsFresh, Executing,
                 ResumeOn
<1>2. /\ \A i \in Pids : /\ TaskTable'[i].kstack = TaskTable[i].kstack
                         /\ TaskTable'[i].state = TaskTable[i].state
                         /\ i # p => TaskTable'[i].rsp = TaskTable[i].rsp
      /\ TaskTable'[p].rsp = cpu
  BY <1>1, SavedFacts
<1>3. Live = Used(TaskTable) /\ Used(TaskTable') = Used(TaskTable)
  <2>1. Live = Used(TaskTable)
    BY <1>1, LiveIs DEF IInv, Discipline
  <2> QED BY <1>2, <2>1 DEF Used
<1>4. cpu' \in Threads /\ cpu' # cpu /\ pc[cpu'] \in Settled
  BY <1>1, Running, StackOfFacts DEF SavedContexts, ThreadPlaces, IInv, Discipline
<1>5. /\ pc'[cpu'] \in Settled
      /\ \A t \in Threads \ {cpu'} : pc'[t] \in Settled \cup {"dead"}
  BY <1>1, <1>4 DEF GoTo, IInv, Discipline, ThreadPlaces, Settled
<1>6. Live' = Live
  BY <1>3, <1>4, <1>5, LiveIsNext DEF Settled, SafeWindows
<1>7. StacksAccounted' /\ TaskCountExact'
  BY <1>1, <1>2, <1>6, SameTasks
<1>8. OwnStacks'
  BY <1>1, <1>2, <1>5 DEF OwnStacks, IInv, Discipline, Settled, SafeWindows
<1>9. Discipline'
  <2>1. "user" \in Settled \cup {"dead"} /\ pc[cpu] \notin {"ct_claim", "ct_alloc", "ct_frame"}
    BY <1>1 DEF Settled
  <2>2. TaskTable'[n].state \in Alive /\ TaskTable'[n].kstack = TaskTable[n].kstack
    <3>1. n \in Pids /\ TaskTable[n].state \in Alive
      BY <1>1
    <3> QED BY <1>2, <3>1
  <2>3. \A i \in Used(TaskTable') : i \in Live /\ i \in Pids
    BY <1>3 DEF Used
  <2> QED BY <1>1, <1>2, <1>8, <2>1, <2>2, <2>3, SwitchKeeps
<1> QED BY <1>7, <1>9 DEF Rest

(* Schedule() with interrupts masked, called by a tick (q: where the thread *)
(* was interrupted) or by ExitTask, which has marked its own slot.          *)
LEMMA MaskedKeeps ==
  ASSUME IInv, TypeOK', UNCHANGED id,
         NEW tt \in [Pids -> Task], NEW style \in {"iret", "ret"},
         MaskedSchedule(tt, style),
         pc[cpu] \in Settled, NEW q \in Settled \cup {"dead"}, GoTo(q),
         \A i \in Pids : /\ tt[i].kstack = TaskTable[i].kstack
                         /\ tt[i].rsp = TaskTable[i].rsp
                         /\ i # CurrentTaskPID => tt[i] = TaskTable[i],
         \/ q # "dead" /\ tt[CurrentTaskPID].state \in Alive
         \/ q = "dead" /\ tt[CurrentTaskPID].state = "ZOMBIE" /\ CurrentTaskPID # 0
  PROVE  Rest'
<1> DEFINE cur     == CurrentTaskPID
           scanned == Scanned(tt)
           nxt     == Pick(scanned, cur)
<1>1. /\ cpu \in Threads /\ cur \in Pids /\ cur \in Live /\ Executing = cur
      /\ cpu = StackOf(cur)
      /\ pc[cpu] \notin {"ct_claim", "ct_alloc", "ct_frame", "sc_switch"}
      /\ pc' = [pc EXCEPT ![cpu] = q] /\ pc \in [Threads -> Points]
  BY Running DEF Settled, SafeWindows, GoTo, IInv, TypeOK
<1>2. scanned \in [Pids -> Task] /\ nxt \in Pids /\ CurrentTaskPID' = nxt
  <2>1. scanned \in [Pids -> Task]
    BY ScannedFacts
  <2> QED BY <1>1, <2>1, PickFacts DEF MaskedSchedule
<1>3. Live = Used(tt)
  <2>1. Live = Used(TaskTable)
    BY <1>1, LiveIs DEF IInv, Discipline
  <2>2. tt[cur].state # "EMPTY" /\ TaskTable[cur].state # "EMPTY"
    BY <1>1, <2>1 DEF Used, Alive
  <2> QED BY <2>1, <2>2 DEF Used
<1>4. 0 \in Pids /\ scanned[0].state \notin {"EMPTY", "ZOMBIE"} /\ 0 \in Live
  <2>1. 0 \in Pids /\ TaskTable[0].state \notin {"EMPTY", "ZOMBIE"}
    BY PidsFacts DEF IInv, IdleAlive
  <2>2. tt[0].state \notin {"EMPTY", "ZOMBIE"}
    BY <1>1, <2>1 DEF Alive
  <2> QED BY <1>3, <2>1, <2>2, ScannedStates DEF Used
<1>5. /\ scanned[nxt].state \in Alive \/ nxt = cur
      /\ q = "dead" => nxt # cur /\ scanned[cur].state = "EMPTY"
  <2>1. /\ Waiting(scanned) # {} => nxt \in Waiting(scanned)
        /\ Waiting(scanned) = {} => nxt \in {0, cur}
        /\ Waiting(scanned) = {} /\ scanned[cur].state # "RUNNING" => nxt = 0
    BY <1>1, <1>2, PickFacts
  <2>2. scanned[0].state \in Alive
    BY <1>2, <1>4 DEF Task, TaskStates, Alive
  <2>3. \A i \in Waiting(scanned) : scanned[i].state = "WAITING"
    BY DEF Waiting
  <2>4. q = "dead" => scanned[cur].state = "EMPTY" /\ cur # 0
    <3>1. q = "dead" => cur \in Zombies(tt) /\ cur # 0
      BY <1>1 DEF Zombies, Alive
    <3> QED BY <3>1, ScannedSlots
  <2> HIDE DEF scanned, nxt
  <2> QED BY <2>1, <2>2, <2>3, <2>4 DEF Alive
<1>6. /\ \A i \in Pids : TaskTable'[i].kstack = scanned[i].kstack
      /\ \A i \in Pids : TaskTable'[i].state = "EMPTY" <=> scanned[i].state = "EMPTY"
      /\ nxt # cur => TaskTable'[nxt].state = "RUNNING"
  <2>1. /\ \A i \in Pids : TaskTable'[i].kstack = scanned[i].kstack
        /\ \A i \in Pids \ {cur, nxt} : TaskTable'[i].state = scanned[i].state
        /\ nxt = cur => TaskTable'[cur].state = scanned[cur].state
        /\ nxt # cur =>
             /\ TaskTable'[nxt].state = "RUNNING"
             /\ TaskTable'[cur].state = IF scanned[cur].state = "RUNNING" THEN "WAITING"
                                        ELSE scanned[cur].state
    BY <1>1, <1>2, MaskedScheduleTable DEF IInv
  <2>2. nxt # cur => scanned[nxt].state # "EMPTY"
    BY <1>5 DEF Alive
  <2> HIDE DEF scanned, nxt
  <2> QED BY <2>1, <2>2
<1>7. /\ \A i \in Pids \ {cur} : TaskTable'[i].rsp = scanned[i].rsp
      /\ nxt = cur => TaskTable' = scanned /\ cpu' = cpu
      /\ nxt # cur => TaskTable'[cur].rsp = cpu /\ cpu' = TaskTable[nxt].rsp
  <2>1. CASE nxt = cur
    BY <2>1 DEF MaskedSchedule
  <2>2. CASE nxt # cur
    <3>1. /\ TaskTable' = Saved(Commit(scanned, cur, nxt), cur)
          /\ cpu' = TaskTable[nxt].rsp
      BY <2>2 DEF MaskedSchedule, ResumeOn
    <3> HIDE DEF scanned, nxt
    <3>2. /\ Commit(scanned, cur, nxt) \in [Pids -> Task]
          /\ \A i \in Pids : Commit(scanned, cur, nxt)[i].rsp = scanned[i].rsp
      <4>1. scanned \in [Pids -> Task] /\ cur \in Pids /\ nxt \in Pids
        BY <1>1, <1>2
      <4> HIDE DEF cur
      <4> QED BY <4>1, CommitFacts
    <3> QED BY <1>1, <2>2, <3>1, <3>2, SavedFacts
  <2> QED BY <2>1, <2>2
<1>8. Used(TaskTable') = Live \ Zombies(tt) /\ Zombies(tt) \subseteq Live
  BY <1>3, <1>6, ScannedSlots DEF Used
<1>9. StacksAccounted'
  <2>1. freeStacks' = freeStacks \cup ({TaskTable[i].kstack : i \in Zombies(tt)} \ {NULL})
    <3>1. {tt[i].kstack : i \in Zombies(tt)} = {TaskTable[i].kstack : i \in Zombies(tt)}
      BY DEF Zombies
    <3> QED BY <3>1, ReapedAre DEF MaskedSchedule
  <2>2. /\ Zombies(tt) \in SUBSET Pids
        /\ \A i \in Zombies(tt) : scanned[i].kstack = NULL
        /\ \A i \in Pids \ Zombies(tt) : scanned[i].kstack = tt[i].kstack
    BY ScannedSlots DEF Zombies
  <2> HIDE DEF scanned
  <2>3. /\ \A i \in Zombies(tt) : TaskTable'[i].kstack = NULL
        /\ \A i \in Pids \ Zombies(tt) : TaskTable'[i].kstack = TaskTable[i].kstack
    BY <1>6, <2>2
  <2> QED BY <2>1, <2>2, <2>3, ScanAccount
<1>10. \A i \in Pids : TaskTable'[i].kstack = NULL
                         <=> i = 0 \/ TaskTable'[i].state = "EMPTY"
  <2>1. \A i \in Pids : tt[i].kstack = NULL <=> i = 0 \/ tt[i].state = "EMPTY"
    <3>1. \A i \in Pids : TaskTable[i].kstack = NULL
                            <=> i = 0 \/ TaskTable[i].state = "EMPTY"
      BY <1>1 DEF IInv, Discipline, OwnStacks
    <3>2. \A i \in Pids : tt[i].state = "EMPTY" <=> TaskTable[i].state = "EMPTY"
      <4>1. Live = Used(TaskTable)
        BY <1>1, LiveIs DEF IInv, Discipline
      <4> QED BY <1>3, <4>1 DEF Used
    <3> QED BY <3>1, <3>2
  <2>2. \A i \in Zombies(tt) : i \in Pids /\ i # 0
    BY DEF Zombies
  <2>3. /\ \A i \in Zombies(tt) : scanned[i].kstack = NULL /\ scanned[i].state = "EMPTY"
        /\ \A i \in Pids \ Zombies(tt) :
             /\ scanned[i].kstack = tt[i].kstack
             /\ scanned[i].state = "EMPTY" <=> tt[i].state = "EMPTY"
    BY ScannedSlots
  <2> HIDE DEF scanned
  <2> QED BY <1>6, <2>1, <2>2, <2>3
<1>11. CASE nxt = cur
  <2>1. cpu' = cpu /\ q \in Settled /\ tt[cur].state \in Alive /\ pc'[cpu'] = q
    BY <1>1, <1>5, <1>7, <1>11 DEF Settled, SafeWindows
  <2>2. \A t \in Threads \ {cpu'} : pc'[t] \in Settled \cup {"dead"}
    BY <1>1, <2>1 DEF IInv, Discipline, ThreadPlaces
  <2>3. Live' = Live \ Zombies(tt)
    BY <1>1, <1>8, <2>1, <2>2, LiveIsNext DEF Settled, SafeWindows
  <2>4. TaskCountExact'
    BY <1>8, <2>3, ScanCount DEF MaskedSchedule
  <2>5. cur \notin Zombies(tt)
    BY <2>1 DEF Zombies, Alive
  <2>6. CpuOnCurrentStack' /\ SavedContexts' /\ ThreadPlaces'
    <3>1. q \in Settled \cup Busy
      BY <2>1
    <3>2. TaskTable'[cur].state \in Alive /\ TaskTable'[cur].kstack = TaskTable[cur].kstack
      BY <1>1, <1>7, <1>11, <2>1, <2>5, ScannedSlots
    <3>3. \A i \in Live' : /\ TaskTable'[i].rsp = TaskTable[i].rsp
                           /\ TaskTable'[i].kstack = TaskTable[i].kstack
      <4>1. \A i \in Live' : i \in Pids \ Zombies(tt)
        BY <1>3, <2>3 DEF Used
      <4> QED BY <1>7, <1>11, <4>1, ScannedSlots
    <3> QED BY <1>1, <1>2, <1>11, <2>1, <2>3, <3>1, <3>2, <3>3, StayKeeps
  <2>7. OwnStacks'
    BY <1>10, <2>1 DEF OwnStacks, Settled, SafeWindows
  <2>8. LocalsFresh'
    BY <2>1 DEF LocalsFresh, Settled, SafeWindows
  <2> QED BY <1>9, <2>4, <2>6, <2>7, <2>8 DEF Rest, Discipline
<1>12. CASE nxt # cur
  <2>1. /\ nxt \in Live /\ nxt \notin Zombies(tt)
        /\ TaskTable'[nxt].kstack = TaskTable[nxt].kstack
    <3>1. scanned[nxt].state # "EMPTY"
      BY <1>5, <1>12 DEF Alive
    <3>2. nxt \notin Zombies(tt)
      BY <3>1, ScannedSlots
    <3>3. nxt \in Used(tt)
      BY <1>2, <3>1, <3>2, ScannedSlots DEF Used
    <3> QED BY <1>2, <1>3, <1>6, <3>2, <3>3, ScannedSlots
  <2>2. cpu' = TaskTable[nxt].rsp /\ TaskTable'[cur].rsp = cpu
    BY <1>7, <1>12
  <2>3. cpu' \in Threads /\ cpu' # cpu /\ pc[cpu'] \in Settled
    <3>1. cpu' = StackOf(nxt)
      BY <1>1, <1>12, <2>1, <2>2 DEF SavedContexts, IInv, Discipline
    <3>2. cpu' \in Threads /\ cpu' # cpu
      BY <1>1, <1>12, <2>1, <3>1, StackOfFacts
    <3> QED BY <1>1, <1>12, <2>1, <3>1, <3>2 DEF ThreadPlaces, IInv, Discipline
  <2>4. /\ pc'[cpu'] \in Settled
        /\ \A t \in Threads \ {cpu'} : pc'[t] \in Settled \cup {"dead"}
    BY <1>1, <2>3 DEF IInv, Discipline, ThreadPlaces
  <2>5. Live' = Live \ Zombies(tt)
    BY <1>8, <2>3, <2>4, LiveIsNext DEF Settled, SafeWindows
  <2>6. TaskCountExact'
    BY <1>8, <2>5, ScanCount DEF MaskedSchedule
  <2>7. OwnStacks'
    BY <1>10, <2>4 DEF OwnStacks, Settled, SafeWindows
  <2>8. \A i \in Used(TaskTable') :
          /\ i \in Live /\ TaskTable'[i].kstack = TaskTable[i].kstack
          /\ i # Executing => TaskTable'[i].rsp = TaskTable[i].rsp
    <3>1. \A i \in Used(TaskTable') : i \in Live /\ i \in Pids \ Zombies(tt)
      BY <1>8 DEF Used
    <3> QED BY <1>1, <1>6, <1>7, <3>1, ScannedSlots
  <2>9. q = "dead" => TaskTable'[cur].state = "EMPTY"
    BY <1>1, <1>5, <1>6
  <2>10. TaskTable'[nxt].state \in Alive
    BY <1>6, <1>12 DEF Alive
  <2>11. Discipline'
    <3> HIDE DEF nxt, scanned
    <3> QED BY <1>1, <1>2, <1>12, <2>1, <2>2, <2>7, <2>8, <2>9, <2>10, SwitchKeeps
  <2> QED BY <1>9, <2>6, <2>11 DEF Rest
<1> QED BY <1>11, <1>12

LEMMA TickKeeps ==
  ASSUME IInv, Disciplined, TypeOK', Tick
  PROVE  Rest'
<1> DEFINE q == pc[cpu]
<1>1. /\ MaskedSchedule(TaskTable, "iret") /\ UNCHANGED <<pc, id>>
      /\ TaskTable \in [Pids -> Task]
      /\ TaskTable[CurrentTaskPID].state \in Alive
  BY Running DEF Tick, locals, IInv, TypeOK
<1>2. q \in Settled /\ q # "dead" /\ GoTo(q)
  <2>1. q \in SafeWindows \cup {"user"}
    BY DEF Tick, Disciplined, IInv, Discipline, ThreadPlaces, Settled, SafeWindows, Busy
  <2> QED BY <1>1, <2>1, StayAtPlace DEF Settled, SafeWindows
<1> QED BY <1>1, <1>2, MaskedKeeps

LEMMA ExitKeeps ==
  ASSUME IInv, TypeOK', pc[cpu] \in {"user", "kt_exit"}, Exit
  PROVE  Rest'
<1>1. /\ TaskTable \in [Pids -> Task] /\ CurrentTaskPID \in Pids
      /\ TaskTable[CurrentTaskPID].state \in Alive
      /\ pc[cpu] \in Settled /\ "user" \in Settled
  BY Running DEF IInv, TypeOK, Settled, SafeWindows
<1>2. CASE CurrentTaskPID = 0
  <2>1. /\ GoTo("user")
        /\ UNCHANGED <<TaskTable, TaskCount, CurrentTaskPID, freeStacks, cpu>>
    BY <1>2 DEF Exit
  <2> QED BY <1>1, <2>1, MarkKeeps
<1>3. CASE CurrentTaskPID # 0
  <2> DEFINE tt == [TaskTable EXCEPT ![CurrentTaskPID].state = "ZOMBIE"]
  <2>1. /\ tt \in [Pids -> Task] /\ tt[CurrentTaskPID].state = "ZOMBIE"
        /\ \A i \in Pids : /\ tt[i].kstack = TaskTable[i].kstack
                           /\ tt[i].rsp = TaskTable[i].rsp
                           /\ i # CurrentTaskPID => tt[i] = TaskTable[i]
    <3>1. [TaskTable[CurrentTaskPID] EXCEPT !.state = "ZOMBIE"] \in Task
      BY <1>1, TaskUpdates, Zenon DEF TaskStates
    <3> QED BY <1>1, <3>1 DEF Task
  <2>2. MaskedSchedule(tt, "ret") /\ GoTo("dead") /\ UNCHANGED id
    BY <1>3 DEF Exit, locals
  <2> HIDE DEF tt
  <2> QED BY <1>1, <1>3, <2>1, <2>2, MaskedKeeps
<1> QED BY <1>2, <1>3

(* A fault is that of a created task: the boot thread, which task 0 runs    *)
(* on, has none.                                                            *)
LEMMA FaultKeeps ==
  ASSUME IInv, TypeOK', Fault
  PROVE  Rest'
<1>1. /\ pc[cpu] = "user" /\ cpu # BootStack /\ CurrentTaskPID \in Pids
      /\ cpu = StackOf(CurrentTaskPID)
  BY Running, BootCallsAssumption DEF Fault, UserCall, At
<1>2. CurrentTaskPID # 0
  BY <1>1 DEF StackOf
<1> QED BY <1>1, <1>2, ExitKeeps, KillKeeps DEF Fault

(* No thread is inside kmalloc, a round of the scan or the commit.          *)
LEMMA NoInnerPlaces ==
  ASSUME IInv
  PROVE  Whole(AllocWindows) /\ Whole(RoundWindows) /\ Whole(CommitWindows)
<1>1. \A t \in Threads : pc[t] \in Settled \cup Busy \cup {"sc_switch", "dead"}
  BY DEF IInv, Discipline, ThreadPlaces
<1> QED BY <1>1 DEF Whole, Settled, SafeWindows, Busy, AllocWindows, RoundWindows,
                    CommitWindows

LEMMA DisciplineStep == IInv /\ Disciplined /\ [Next]_vars => IInv'
<1> SUFFICES ASSUME IInv, Disciplined, [Next]_vars PROVE IInv'
  OBVIOUS
<1>0. /\ ~Open(AllocWindows) /\ ~Open(RoundWindows) /\ ~Open(CommitWindows)
      /\ Whole(AllocWindows) /\ Whole(RoundWindows) /\ Whole(CommitWindows)
  BY NoInnerPlaces DEF Disciplined, Open, SafeWindows, AllocWindows, RoundWindows, CommitWindows
<1>1. TypeOK' /\ IdleAlive' /\ StacksNotShared'
  BY <1>0, TypeStep, IdleAliveStep, StacksStep DEF IInv, StackOwnership
<1> SUFFICES Rest'
  BY <1>1 DEF Rest, StacksAccounted, IInv, StackOwnership
<1>2. CASE Tick
  BY <1>1, <1>2, TickKeeps
<1>3. CASE CreateFind \/ CreateClaim \/ CreateAlloc \/ CreateFrame
  BY <1>1, <1>3, CreateFindKeeps, CreateClaimKeeps, CreateAllocKeeps, CreateFrameKeeps
<1>4. CASE TaskFork
  BY <1>4, BootCallsAssumption DEF TaskFork, UserCall, Disciplined
<1>5. CASE Msleep \/ ScheduleScan \/ SchedulePick \/ ScheduleCommit \/ ScheduleSwitch
  BY <1>1, <1>5, MsleepKeeps, ScheduleScanKeeps, SchedulePickKeeps,
     ScheduleCommitKeeps, ScheduleSwitchKeeps
<1>6. CASE ExitTask
  BY <1>1, <1>6, ExitKeeps DEF ExitTask, UserCall, At
<1>7. CASE KillTask
  BY <1>1, <1>7, KillKeeps DEF KillTask, UserCall, At
<1>8. CASE Fault
  BY <1>1, <1>8, FaultKeeps
<1>9. CASE ThreadReturn
  BY <1>9, BootCallsAssumption DEF ThreadReturn, UserCall, Disciplined
<1>10. CASE CreateAllocSteps \/ ScheduleScanSteps \/ ScheduleCommitSteps
  BY <1>0, <1>10, NoInnerStep DEF IInv
<1>11. CASE ForkReturn
  BY <1>11 DEF ForkReturn, At, IInv, Discipline, ThreadPlaces, Settled, SafeWindows, Busy
<1>12. CASE UNCHANGED vars
  BY <1>12 DEF vars, IInv, StackOwnership, Rest, StacksAccounted, TaskCountExact, Live, UnderConstruction, Discipline, CpuOnCurrentStack,
     SavedContexts, OwnStacks, ThreadPlaces, LocalsFresh, Executing, StackOf
<1> QED BY <1>2, <1>3, <1>4, <1>5, <1>6, <1>7, <1>8, <1>9, <1>10,
           <1>11, <1>12 DEF Next

-----------------------------------------------------------------------------
(* The theorems.  Disciplined speaks of constants only.                     *)

LEMMA InitDiscipline == Init => IInv
<1> SUFFICES ASSUME Init PROVE IInv
  OBVIOUS
<1>1. TypeOK
  BY InitType
<1>2. /\ TaskTable[0].state = "RUNNING"
      /\ \A i \in Pids \ {0} : TaskTable[i].state = "EMPTY"
      /\ \A i \in Pids : TaskTable[i].kstack = NULL
      /\ 0 \in Pids /\ BootStack \in Threads
  BY PidsFacts DEF Init, EmptyTask, Threads
<1>3. Live = {0}
  <2>1. UnderConstruction = {}
    BY DEF Init, UnderConstruction, AllocWindows
  <2> QED BY <1>2, <2>1 DEF Live
<1>4. IdleAlive /\ StackOwnership
  <2>1. NULL \notin freeStacks /\ freeStacks = Stacks
    BY StacksAssumption DEF Init
  <2> QED BY <1>2, <2>1 DEF IdleAlive, StackOwnership, StacksNotShared
<1>5. TaskCountExact
  BY <1>3, FS_Singleton DEF TaskCountExact, Init
<1>6. Executing = 0
  BY <1>2 DEF Executing, Init
<1>7. CpuOnCurrentStack
  BY <1>2, <1>6, StacksAssumption DEF CpuOnCurrentStack, StackOf, Init
<1>8. SavedContexts /\ OwnStacks /\ ThreadPlaces /\ LocalsFresh
  BY <1>2, <1>3, <1>6
     DEF SavedContexts, OwnStacks, ThreadPlaces, LocalsFresh, Init, Settled
<1> QED BY <1>1, <1>4, <1>5, <1>7, <1>8 DEF IInv, Discipline

(* The inductive invariant of the context switch (task.c:134-197,           *)
(* switch.asm): what every step of every thread may rely on when no tick    *)
(* comes where Disciplined excludes it.                                     *)
THEOREM DisciplineInvariant ==
  ASSUME Disciplined
  PROVE  Spec => []IInv
<1>1. IInv /\ [Next]_vars => IInv'
  BY DisciplineStep
<1> QED BY <1>1, InitDiscipline, PTL DEF Spec

(* Under Disciplined, the CPU runs on the stack of the task that            *)
(* CurrentTaskPID names, and that task is alive: switch_to saves the right  *)
(* rsp in the right slot.                                                   *)
THEOREM CpuOnCurrentStackHolds ==
  ASSUME Disciplined
  PROVE  Spec => []CpuOnCurrentStack
<1>1. IInv => CpuOnCurrentStack
  BY DEF IInv, Discipline
<1> QED BY <1>1, DisciplineInvariant, PTL

(* Under Disciplined, every task that is not running can be switched to:    *)
(* the rsp that Schedule() reads from its slot points into its own stack.   *)
THEOREM SavedContextsHolds ==
  ASSUME Disciplined
  PROVE  Spec => []SavedContexts
<1>1. IInv => SavedContexts
  BY DEF IInv, Discipline
<1> QED BY <1>1, DisciplineInvariant, PTL

(* Under Disciplined, no kernel stack is lost or has two owners: what is    *)
(* not free belongs to one slot, through every creation, exit, kill and     *)
(* reaping.                                                                 *)
THEOREM StackOwnershipHolds ==
  ASSUME Disciplined
  PROVE  Spec => []StackOwnership
<1>1. IInv => StackOwnership
  BY DEF IInv
<1> QED BY <1>1, DisciplineInvariant, PTL

(* Under Disciplined, TaskCount is the number of tasks: CreateTask's limit  *)
(* test (task.c:33) refuses exactly when the table is full.                 *)
THEOREM TaskCountExactHolds ==
  ASSUME Disciplined
  PROVE  Spec => []TaskCountExact
<1>1. IInv => TaskCountExact
  BY DEF IInv
<1> QED BY <1>1, DisciplineInvariant, PTL

(* Under Disciplined, the CPU never comes back behind the Schedule() of     *)
(* ExitTask (task.c:220-222).                                               *)
THEOREM ExitNeverReturnsHolds ==
  ASSUME Disciplined
  PROVE  Spec => []ExitNeverReturns
<1>1. IInv => ExitNeverReturns
  BY DEF IInv, Discipline, ThreadPlaces, ExitNeverReturns, Settled, SafeWindows, Busy
<1> QED BY <1>1, DisciplineInvariant, PTL

-----------------------------------------------------------------------------
(* A dead task stays dead.                                                  *)

Buried(i) == TaskTable'[i].state \in {"ZOMBIE", "EMPTY"}

(* A pass of Schedule() empties the slot of every zombie but task 0's, and  *)
(* picks no empty one.                                                      *)
LEMMA MaskedBuries ==
  ASSUME IInv, NEW tt \in [Pids -> Task], NEW style \in {"iret", "ret"},
         MaskedSchedule(tt, style), tt[0].state \notin {"EMPTY", "ZOMBIE"},
         NEW i \in Pids \ {CurrentTaskPID}, tt[i].state = "ZOMBIE"
  PROVE  Buried(i)
<1> DEFINE cur     == CurrentTaskPID
           scanned == Scanned(tt)
           nxt     == Pick(scanned, cur)
<1>1. scanned[i].state = "EMPTY" /\ i # 0
  BY ScannedSlots DEF Zombies
<1>2. scanned \in [Pids -> Task] /\ cur \in Pids /\ cpu \in Threads
  BY ScannedFacts, Running
<1>3. nxt # i
  <2>1. /\ Waiting(scanned) # {} => nxt \in Waiting(scanned)
        /\ Waiting(scanned) = {} => nxt \in {0, cur}
    BY <1>2, PickFacts
  <2>2. \A j \in Waiting(scanned) : scanned[j].state = "WAITING"
    BY DEF Waiting
  <2> HIDE DEF scanned, nxt
  <2> QED BY <1>1, <2>1, <2>2
<1>4. CurrentTaskPID' = nxt
  BY DEF MaskedSchedule
<1>5. TaskTable'[i].state = scanned[i].state
  <2> HIDE DEF scanned, nxt
  <2>1. \A j \in Pids \ {cur, nxt} : TaskTable'[j].state = Scanned(tt)[j].state
    BY <1>2, <1>4, MaskedScheduleTable DEF IInv
  <2> QED BY <1>3, <2>1 DEF scanned
<1> QED BY <1>1, <1>5 DEF Buried

LEMMA BuriedStep ==
  ASSUME IInv, Disciplined, [Next]_vars, NEW i \in Pids, TaskTable[i].state = "ZOMBIE"
  PROVE  Buried(i)
<1>0. /\ TaskTable \in [Pids -> Task] /\ CurrentTaskPID \in Pids /\ cpu \in Threads
      /\ i # CurrentTaskPID /\ i # 0 /\ 0 \in Pids
      /\ TaskTable[0].state \notin {"EMPTY", "ZOMBIE"}
  BY Running, PidsFacts DEF IInv, TypeOK, IdleAlive, Alive
<1>1. CASE TaskTable'[i].state = TaskTable[i].state
  BY <1>1 DEF Buried
<1>2. CASE Tick
  BY <1>0, <1>2, MaskedBuries DEF Tick
<1>3. ASSUME Exit PROVE Buried(i)
  <2>1. CASE CurrentTaskPID = 0
    BY <1>1, <1>3, <2>1 DEF Exit
  <2>2. CASE CurrentTaskPID # 0
    <3> DEFINE tt == [TaskTable EXCEPT ![CurrentTaskPID].state = "ZOMBIE"]
    <3>1. [TaskTable[CurrentTaskPID] EXCEPT !.state = "ZOMBIE"] \in Task
      BY <1>0, TaskUpdates, Zenon DEF TaskStates
    <3>2. /\ tt \in [Pids -> Task] /\ tt[i].state = "ZOMBIE"
          /\ tt[0].state \notin {"EMPTY", "ZOMBIE"}
      BY <1>0, <2>2, <3>1
    <3>3. MaskedSchedule(tt, "ret")
      BY <1>3, <2>2 DEF Exit
    <3> HIDE DEF tt
    <3> QED BY <1>0, <3>2, <3>3, MaskedBuries
  <2> QED BY <2>1, <2>2
<1>4. ASSUME NEW pid \in Pids, Kill(pid) PROVE Buried(i)
  BY <1>0, <1>4 DEF Kill, Buried, Task
<1>5. CASE ScheduleScan
  <2>1. slot[cpu] = i => TaskTable'[i].state = "EMPTY"
    BY <1>0, <1>5, ScheduleScanTable DEF IInv, Round, Zombies, EmptyTask
  <2>2. slot[cpu] # i => TaskTable'[i] = TaskTable[i]
    BY <1>5, ScheduleScanTable DEF IInv
  <2> QED BY <1>1, <2>1, <2>2 DEF Buried
<1>6. CASE ScheduleCommit
  <2>1. /\ next_pid[cpu] \in Pids /\ TaskTable[next_pid[cpu]].state \in Alive
        /\ TaskTable' = Commit(TaskTable, CurrentTaskPID, next_pid[cpu])
    BY <1>6 DEF ScheduleCommit, At, IInv, TypeOK, Discipline, LocalsFresh
  <2>2. i \notin {CurrentTaskPID, next_pid[cpu]}
    BY <1>0, <2>1 DEF Alive
  <2> QED BY <1>0, <1>1, <2>1, <2>2, CommitFacts
<1>7. CASE ScheduleSwitch
  <2>1. prev[cpu] \in Pids
    BY <1>7 DEF ScheduleSwitch, At, IInv, TypeOK
  <2> QED BY <1>0, <1>1, <1>7, <2>1, SavedFacts DEF ScheduleSwitch
<1>8. CASE CreateFind \/ SchedulePick \/ ThreadReturn \/ UNCHANGED vars
  BY <1>1, <1>8 DEF CreateFind, SchedulePick, ThreadReturn, vars
<1>9. CASE CreateClaim
  <2>1. i # id[cpu]
    BY <1>9 DEF CreateClaim, At, IInv, Discipline, LocalsFresh
  <2> QED BY <1>0, <1>1, <1>9, <2>1 DEF CreateClaim
<1>10. CASE CreateAlloc
  BY <1>0, <1>1, <1>10, CreateAllocTable DEF IInv
<1>11. CASE CreateFrame
  BY <1>0, <1>1, <1>11, CreateFrameTable DEF IInv
<1>12. CASE TaskFork \/ ForkReturn
  BY <1>1, <1>12, BootCallsAssumption DEF TaskFork, ForkReturn, UserCall, Disciplined
<1>13. CASE Msleep
  BY <1>0, <1>1, <1>13 DEF Msleep
<1>14. CASE ExitTask \/ KillTask
  BY <1>3, <1>4, <1>14 DEF ExitTask, KillTask
<1>15. CASE Fault
  BY <1>0, <1>1, <1>3, <1>4, <1>15 DEF Fault
<1>16. CASE CreateAllocSteps \/ ScheduleScanSteps \/ ScheduleCommitSteps
  BY <1>16, NoInnerPlaces, NoInnerStep
     DEF IInv, Disciplined, Open, SafeWindows, AllocWindows, RoundWindows, CommitWindows
<1> QED BY <1>2, <1>5, <1>6, <1>7, <1>8, <1>9, <1>10, <1>11, <1>12, <1>13, <1>14,
           <1>15, <1>16 DEF Next

(* Under Disciplined, a killed task is never run again: its slot stays a    *)
(* zombie until it is emptied, and is not the current one (task.c:137-144,  *)
(* 162-176).                                                                *)
THEOREM ZombiesStayDeadHolds ==
  ASSUME Disciplined
  PROVE  Spec => ZombiesStayDead
<1>1. IInv /\ [Next]_vars =>
        [\A i \in Pids : TaskTable[i].state = "ZOMBIE"
           => /\ TaskTable'[i].state \in {"ZOMBIE", "EMPTY"}
              /\ CurrentTaskPID' # i]_vars
  <2> SUFFICES ASSUME IInv, [Next]_vars, NEW i \in Pids, TaskTable[i].state = "ZOMBIE"
               PROVE  /\ TaskTable'[i].state \in {"ZOMBIE", "EMPTY"}
                      /\ CurrentTaskPID' # i
    OBVIOUS
  <2>1. TaskTable'[i].state \in {"ZOMBIE", "EMPTY"}
    BY BuriedStep DEF Buried
  <2>2. TaskTable'[CurrentTaskPID'].state \in {"RUNNING", "WAITING", "SLEEPING"}
    BY DisciplineStep DEF IInv, Discipline, CpuOnCurrentStack
  <2> QED BY <2>1, <2>2
<1> QED BY <1>1, DisciplineInvariant, PTL DEF Spec, ZombiesStayDead

=============================================================================
