------------------------------ MODULE Scheduler ------------------------------
(***************************************************************************)
(* The LySystem task scheduler (kernel/sched/task.c, kernel/sched/         *)
(* switch.asm, kernel/IRQ/timer.c and the timer and fault handlers of      *)
(* kernel/IRQ/traps.c) on one CPU, with the timer interrupt as a second    *)
(* actor that may enter Schedule() wherever interrupts are enabled.        *)
(*                                                                         *)
(* A thread is identified with its kernel stack: CreateTask and TaskFork   *)
(* take one from the heap, the boot thread (task 0, "kernel_idle") runs on *)
(* the stack of boot/main.asm.  A saved stack pointer is abstracted to the *)
(* stack it points into; what lies on that stack is the thread's program   *)
(* point (pc), its locals, and the way it left the CPU (how): "iret" when  *)
(* it will come back through an iretq that restores RFLAGS (timer frame,   *)
(* thread_starter) or through child_return's sti, "ret" when it called     *)
(* Schedule() itself and comes back through switch_to's plain ret, which   *)
(* leaves the interrupt flag as the other thread set it.                   *)
(*                                                                         *)
(* A tick may be taken at the program points in Preemptible.  What a       *)
(* thread does between two of them nobody can observe, and is one step:    *)
(* a round of the scan, the commit and kmalloc are single actions in an    *)
(* instance that takes no tick inside them, and run statement by statement *)
(* in one that does.                                                       *)
(*                                                                         *)
(* Not represented: names, ppid, ExitCode, time (written, never read), the *)
(* stack's depth, TASK_BLOCKED (never assigned), and ticks inside a        *)
(* statement or inside the two loops that choose the next task.            *)
(***************************************************************************)
EXTENDS Integers, FiniteSets

CONSTANTS
  MAX_TASK_COUNT, \* size of TaskTable
  Stacks,         \* the 4096-byte blocks kmalloc can hand out as kernel stacks
  BootStack,      \* the stack of the boot thread, not from the heap
  NULL,           \* the pointer 0
  MaxSleep,       \* bound: the largest ms / 10 passed to msleep
  SLEEP_WORD,     \* the field msleep is a word with so many values: 2^64
  Calls,          \* what the threads of this instance do, among AllCalls
  BootCalls,      \* what its boot thread does after sched_init (start_kernel
                  \* calls CreateTask and spins)
  Preemptible     \* the program points inside kernel calls, among Windows, at
                  \* which a tick may be taken in this instance

(* Program points inside the kernel at which the code leaves interrupts as *)
(* the caller had them.  Inside CreateTask's kmalloc:                      *)
AllocWindows == {"ct_kmalloc", "ct_store"}

(* Inside a round of Schedule()'s scan, before lines 139, 140, 142, 143,   *)
(* 144 (a zombie) and 149, 150, 152, 153 (a sleeper) of task.c:            *)
RoundWindows == {"sc_zombie", "sc_kfree", "sc_clear", "sc_cleared", "sc_erased",
                 "sc_sleeper", "sc_dec", "sc_test", "sc_wake"}

(* Before task.c:193 and 194.                                              *)
CommitWindows == {"sc_run", "sc_current"}

Windows == {"kt_exit", "ct_claim", "ct_alloc", "ct_frame",
            "sc_scan", "sc_pick", "sc_commit", "sc_switch"}
           \cup AllocWindows \cup RoundWindows \cup CommitWindows

Points == Windows \cup {"user", "child", "dead"}

(* What a thread may do: call the API, run into a CPU exception, or return  *)
(* from the function CreateTask was given.                                  *)
AllCalls == {"CreateTask", "TaskFork", "msleep", "ExitTask", "KillTask",
             "Fault", "Return"}

ASSUME MaxTasksAssumption == MAX_TASK_COUNT \in Nat /\ MAX_TASK_COUNT >= 2
ASSUME StacksAssumption ==
  IsFiniteSet(Stacks) /\ BootStack \notin Stacks
    /\ NULL \notin Stacks \cup {BootStack}
ASSUME SleepAssumption ==
  MaxSleep \in Nat /\ SLEEP_WORD \in Nat /\ MaxSleep < SLEEP_WORD
ASSUME CallsAssumption == Calls \subseteq AllCalls
ASSUME BootCallsAssumption == BootCalls \subseteq AllCalls \ {"TaskFork", "Fault", "Return"}
ASSUME PreemptibleAssumption == Preemptible \subseteq Windows

Pids    == 0 .. (MAX_TASK_COUNT - 1)
Threads == Stacks \cup {BootStack}

VARIABLES
  TaskTable,      \* task.c:8
  TaskCount,      \* task.c:9
  CurrentTaskPID, \* task.c:10
  freeStacks,     \* the heap's free stack-sized blocks (kernel/mem/heap.c)
  cpu,            \* the stack the CPU's rsp points into; NULL once the machine
                  \* is lost (rsp is 0, or a return address is none)
  IF_flag,        \* RFLAGS.IF
  pc,             \* where each thread is (the return addresses on its stack)
  how,            \* how each thread that is off the CPU left it
  id,             \* CreateTask's local: the slot it found
  next_pid,       \* Schedule's local
  prev,           \* Schedule's local, a pointer to the slot it switches from
  slot,           \* the i of Schedule's first loop
  blk             \* the block kmalloc has found, or kfree was given

vars == <<TaskTable, TaskCount, CurrentTaskPID, freeStacks, cpu, IF_flag, pc,
          how, id, next_pid, prev, slot, blk>>
locals == <<id, next_pid, prev, slot, blk>>

TaskStates == {"EMPTY", "RUNNING", "WAITING", "SLEEPING", "ZOMBIE"}

Task == [state : TaskStates, priority : {0, 1}, msleep : 0 .. (SLEEP_WORD - 1),
         rsp : Threads \cup {NULL}, kstack : Stacks \cup {NULL}]

EmptyTask == [state |-> "EMPTY", priority |-> 0, msleep |-> 0,
              rsp |-> NULL, kstack |-> NULL]

-----------------------------------------------------------------------------
(* Schedule(), as functions of the table it works on.                      *)

ZombiesButLast(tt) == \* mutant: "i < MAX_TASK_COUNT - 1"
  {i \in Pids \ {0, MAX_TASK_COUNT - 1} : tt[i].state = "ZOMBIE"}

Zombies(tt) == {i \in Pids \ {0} : tt[i].state = "ZOMBIE"}

Less(n) == (n - 1) % SLEEP_WORD

WokenUnguarded(t) == \* mutant: "if (msleep > 0)" dropped
  [t EXCEPT !.msleep = Less(@),
            !.state  = IF Less(t.msleep) = 0 THEN "WAITING" ELSE "SLEEPING"]

WokenOnlyByCount(t) == \* mutant: the test for 0 moved into "if (msleep > 0)"
  IF t.msleep > 0
    THEN [t EXCEPT !.msleep = Less(@),
                   !.state  = IF Less(t.msleep) = 0 THEN "WAITING" ELSE "SLEEPING"]
    ELSE t

\* A sleeping task after one more pass of Schedule.
Woken(t) ==
  LET left == IF t.msleep > 0 THEN Less(t.msleep) ELSE 0
  IN  [t EXCEPT !.msleep = left,
                !.state  = IF left = 0 THEN "WAITING" ELSE "SLEEPING"]

\* Slot i after a round of the first loop: a zombie is erased, a sleeper counts.
Round(tt, i) ==
  IF i \in Zombies(tt) THEN EmptyTask
  ELSE IF tt[i].state = "SLEEPING" THEN Woken(tt[i])
  ELSE tt[i]

\* The table after the first loop.
Scanned(tt) == [i \in Pids |-> Round(tt, i)]

FreedNone(tt, i) == {} \* mutant: kfree forgotten

\* The kernel stack that a round gives to kfree.
Freed(tt, i) == IF i \in Zombies(tt) THEN {tt[i].kstack} \ {NULL} ELSE {}

Reaped(tt) == UNION {Freed(tt, i) : i \in Pids}

Waiting(tt) == {i \in Pids : tt[i].state = "WAITING"}

\* The waiting tasks of max_priority (the running task is not considered).
Top(tt) == {i \in Waiting(tt) :
              \A j \in Waiting(tt) : tt[j].priority <= tt[i].priority}

\* The i of the third loop at which it looks at slot j: the one with
\* (cur + i) % MAX_TASK_COUNT = j.
Turn(cur, j) == IF j > cur THEN j - cur ELSE j - cur + MAX_TASK_COUNT

PickLowest(tt, cur) == \* mutant: the search starts at slot 0
  IF Top(tt) # {} THEN CHOOSE i \in Top(tt) : \A j \in Top(tt) : i <= j
  ELSE IF tt[cur].state = "RUNNING" THEN cur
  ELSE 0

\* The next task; cur itself stands for "return without switching".
Pick(tt, cur) ==
  IF Top(tt) # {}
    THEN CHOOSE i \in Top(tt) :
           \A j \in Top(tt) : Turn(cur, i) <= Turn(cur, j)
  ELSE IF tt[cur].state = "RUNNING" THEN cur
  ELSE 0

Parked(tt, p) == [tt EXCEPT ![p].state = IF @ = "RUNNING" THEN "WAITING" ELSE @]

CommitNoPark(tt, p, n) == \* mutant: the old task stays TASK_RUNNING
  [tt EXCEPT ![n].state = "RUNNING"]

CommitAlwaysParks(tt, p, n) == \* mutant: "if (prev->state == TASK_RUNNING)" dropped
  [tt EXCEPT ![p].state = "WAITING", ![n].state = "RUNNING"]

\* The two state assignments before switch_to.
Commit(tt, p, n) ==
  [Parked(tt, p) EXCEPT ![n].state = "RUNNING"]

SavedInCurrent(tt, p) == \* mutant: prev read after CurrentTaskPID was assigned
  [tt EXCEPT ![CurrentTaskPID].rsp = cpu]

\* switch_to's store: the leaving thread's rsp goes to slot p.
Saved(tt, p) == [tt EXCEPT ![p].rsp = cpu]

(* switch_to's load: the CPU goes on with the stack of slot n.  flag is the *)
(* interrupt flag during the switch; only an "iret" return changes it.  Once *)
(* a thread runs, how it had left no longer matters.                        *)
ResumeOn(n, style, flag) ==
  LET left == [how EXCEPT ![cpu] = style]
  IN  /\ cpu' = TaskTable[n].rsp
      /\ IF_flag' = (cpu' # NULL /\ (left[cpu'] = "iret" \/ flag))
      /\ how' = [left EXCEPT ![cpu'] = "iret"]

(* A whole Schedule() with interrupts masked.  Returning without a switch   *)
(* leaves the flag to the caller: the timer handler's iretq sets it.        *)
MaskedSchedule(tt, style) ==
  LET scanned == Scanned(tt)
      nxt     == Pick(scanned, CurrentTaskPID)
  IN  /\ TaskCount' = TaskCount - Cardinality(Zombies(tt))
      /\ freeStacks' = freeStacks \cup Reaped(tt)
      /\ CurrentTaskPID' = nxt
      /\ IF nxt = CurrentTaskPID
           THEN /\ TaskTable' = scanned
                /\ IF_flag' = (style = "iret")
                /\ UNCHANGED <<cpu, how>>
           ELSE /\ TaskTable' = Saved(Commit(scanned, CurrentTaskPID, nxt),
                                      CurrentTaskPID)
                /\ ResumeOn(nxt, style, FALSE)

-----------------------------------------------------------------------------
At(p) == cpu # NULL /\ pc[cpu] = p

\* This instance takes ticks inside the code that has the windows W.
Open(W) == W \cap Preemptible # {}

GoTo(p) == pc' = [pc EXCEPT ![cpu] = p]

UserCall(name) ==
  At("user") /\ name \in (IF cpu = BootStack THEN BootCalls ELSE Calls)

EmptyOrDying == \* mutant: a killed slot is reused before it is reaped
  {i \in Pids : TaskTable[i].state \in {"EMPTY", "ZOMBIE"}}

EmptySlots == {i \in Pids : TaskTable[i].state = "EMPTY"}
FirstEmpty == CHOOSE i \in EmptySlots : \A j \in EmptySlots : i <= j

(* IRQ 0: timer_callback through an interrupt gate.  ticks is not           *)
(* represented: nothing in the scheduler reads it.                          *)
Tick ==
  /\ cpu # NULL
  /\ IF_flag
  /\ pc[cpu] \in Preemptible \cup {"user", "child", "dead"}
  /\ MaskedSchedule(TaskTable, "iret")
  /\ UNCHANGED <<pc, locals>>

(* CreateTask does not mask interrupts; its steps end at the writes a tick  *)
(* could observe.  Both "return -1" paths change nothing.                   *)
CreateFind ==
  /\ UserCall("CreateTask")
  /\ TaskCount < MAX_TASK_COUNT
  /\ EmptySlots # {}
  /\ id' = [id EXCEPT ![cpu] = FirstEmpty]
  /\ GoTo("ct_claim")
  /\ UNCHANGED <<TaskTable, TaskCount, CurrentTaskPID, freeStacks, cpu, IF_flag,
                 how, next_pid, prev, slot, blk>>

CreateClaim ==
  /\ At("ct_claim")
  /\ TaskTable' = [TaskTable EXCEPT ![id[cpu]].state = "WAITING",
                                    ![id[cpu]].priority = 1]
  /\ GoTo("ct_alloc")
  /\ UNCHANGED <<TaskCount, CurrentTaskPID, freeStacks, cpu, IF_flag, how, locals>>

\* kmalloc(4096) into slot i; on ENOMEM the slot keeps its state.
AllocStack(tt, i, s) ==
  /\ freeStacks' = freeStacks \ {s}
  /\ TaskTable' = [tt EXCEPT ![i].kstack = s]

CreateAlloc ==
  /\ At("ct_alloc")
  /\ \/ /\ ~Open(AllocWindows)
        /\ \E s \in freeStacks : /\ AllocStack(TaskTable, id[cpu], s)
                                /\ GoTo("ct_frame")
                                /\ UNCHANGED id
     \/ /\ freeStacks = {}    \* return -ENOMEM: the slot stays TASK_WAITING
        /\ AllocStack(TaskTable, id[cpu], NULL)
        /\ GoTo("user")
        /\ id' = [id EXCEPT ![cpu] = -1]
  /\ UNCHANGED <<TaskCount, CurrentTaskPID, cpu, IF_flag, how, next_pid, prev,
                 slot, blk>>

(* kmalloc with ticks inside: a block is found free, marked used, and its   *)
(* address stored in the slot.                                              *)
KmallocFind ==
  /\ At("ct_alloc") /\ Open(AllocWindows)
  /\ \E s \in freeStacks : blk' = [blk EXCEPT ![cpu] = s]
  /\ GoTo("ct_kmalloc")
  /\ UNCHANGED <<TaskTable, freeStacks, id>>

KmallocClaim ==
  /\ At("ct_kmalloc")
  /\ freeStacks' = freeStacks \ {blk[cpu]}
  /\ GoTo("ct_store")
  /\ UNCHANGED <<TaskTable, blk, id>>

StoreStack ==
  /\ At("ct_store")
  /\ TaskTable' = [TaskTable EXCEPT ![id[cpu]].kstack = blk[cpu]]
  /\ blk' = [blk EXCEPT ![cpu] = NULL]
  /\ GoTo("ct_frame")
  /\ UNCHANGED <<freeStacks, id>>

CreateAllocSteps ==
  /\ KmallocFind \/ KmallocClaim \/ StoreStack
  /\ UNCHANGED <<TaskCount, CurrentTaskPID, cpu, IF_flag, how, next_pid, prev, slot>>

\* The test of kstack, then the initial frame: switch_to's six registers,
\* thread_starter, iretq frame.
CreateFrame ==
  /\ At("ct_frame")
  /\ LET s == TaskTable[id[cpu]].kstack
     IN  \/ /\ s # NULL
            /\ TaskTable' = [TaskTable EXCEPT ![id[cpu]].rsp = s]
            /\ how' = [how EXCEPT ![s] = "iret"]
            /\ pc' = [pc EXCEPT ![s] = "user", ![cpu] = "user"]
            /\ TaskCount' = TaskCount + 1
         \/ /\ s = NULL    \* the slot was erased meanwhile: return -ENOMEM
            /\ GoTo("user")
            /\ UNCHANGED <<TaskTable, TaskCount, how>>
  /\ id' = [id EXCEPT ![cpu] = -1]
  /\ UNCHANGED <<CurrentTaskPID, freeStacks, cpu, IF_flag, next_pid, prev, slot, blk>>

(* TaskFork, whole call under cli ... sti; the child starts at child_return *)
(* in a copy of the caller's stack (the boot thread has none to copy).      *)
TaskFork ==
  /\ UserCall("TaskFork")
  /\ IF_flag' = TRUE
  /\ UNCHANGED <<CurrentTaskPID, cpu, locals>>
  /\ IF EmptySlots = {}
       THEN UNCHANGED <<TaskTable, TaskCount, freeStacks, pc, how>>
       ELSE LET child   == FirstEmpty
                claimed == [TaskTable EXCEPT
                              ![child].state = "WAITING",
                              ![child].priority = TaskTable[CurrentTaskPID].priority]
            IN  \/ \E s \in freeStacks :
                     /\ AllocStack([claimed EXCEPT ![child].rsp = s], child, s)
                     /\ pc' = [pc EXCEPT ![s] = "child"]
                     /\ how' = [how EXCEPT ![s] = "iret"]
                     /\ TaskCount' = TaskCount + 1
                \/ /\ freeStacks = {}
                   /\ AllocStack(claimed, child, NULL)
                   /\ UNCHANGED <<TaskCount, pc, how>>

(* The child at child_return.  The frame made for it holds rbp = 0, and the *)
(* Makefile's compiler call has no -O: "return 0" is leave and ret, which   *)
(* take the stack pointer from rbp and the return address from there.       *)
ForkReturn ==
  /\ At("child")
  /\ cpu' = NULL
  /\ UNCHANGED <<TaskTable, TaskCount, CurrentTaskPID, freeStacks, IF_flag, pc,
                 how, locals>>

(* msleep marks the caller under cli, then calls Schedule() after sti.      *)
Msleep ==
  /\ UserCall("msleep")
  /\ \E k \in 0 .. MaxSleep :
       TaskTable' = [TaskTable EXCEPT ![CurrentTaskPID].msleep = k,
                                      ![CurrentTaskPID].state = "SLEEPING"]
  /\ IF_flag' = TRUE
  /\ GoTo("sc_scan")
  /\ slot' = [slot EXCEPT ![cpu] = 0]
  /\ UNCHANGED <<TaskCount, CurrentTaskPID, freeStacks, cpu, how, id, next_pid,
                 prev, blk>>

RoundTooMany == \* mutant: "i <= MAX_TASK_COUNT"
  IF slot[cpu] = MAX_TASK_COUNT
    THEN GoTo("sc_pick") /\ slot' = [slot EXCEPT ![cpu] = -1]
    ELSE GoTo("sc_scan") /\ slot' = [slot EXCEPT ![cpu] = @ + 1]

EndRound ==
  IF slot[cpu] = MAX_TASK_COUNT - 1
    THEN GoTo("sc_pick") /\ slot' = [slot EXCEPT ![cpu] = -1]
    ELSE GoTo("sc_scan") /\ slot' = [slot EXCEPT ![cpu] = @ + 1]

(* Schedule() as msleep calls it, with interrupts enabled: a round of the   *)
(* first loop.                                                              *)
ScheduleScan ==
  /\ At("sc_scan") /\ ~Open(RoundWindows)
  /\ TaskTable' = [TaskTable EXCEPT ![slot[cpu]] = Round(TaskTable, slot[cpu])]
  /\ TaskCount' = TaskCount - (IF slot[cpu] \in Zombies(TaskTable) THEN 1 ELSE 0)
  /\ freeStacks' = freeStacks \cup Freed(TaskTable, slot[cpu])
  /\ EndRound
  /\ UNCHANGED <<CurrentTaskPID, cpu, IF_flag, how, id, next_pid, prev, blk>>

(* A round with ticks inside.  What it does to slot i depends on the slot   *)
(* as each statement finds it.                                              *)
RoundBegin ==
  /\ At("sc_scan") /\ Open(RoundWindows)
  /\ CASE slot[cpu] \in Zombies(TaskTable) -> GoTo("sc_zombie") /\ UNCHANGED slot
       [] TaskTable[slot[cpu]].state = "SLEEPING" ->
            GoTo("sc_sleeper") /\ UNCHANGED slot
       [] OTHER -> EndRound
  /\ UNCHANGED <<TaskTable, TaskCount, freeStacks, blk>>

ZombieStack ==
  /\ At("sc_zombie")
  /\ LET s == TaskTable[slot[cpu]].kstack
     IN  /\ blk' = [blk EXCEPT ![cpu] = s]
         /\ GoTo(IF s = NULL THEN "sc_clear" ELSE "sc_kfree")
  /\ UNCHANGED <<TaskTable, TaskCount, freeStacks, slot>>

ZombieFree ==
  /\ At("sc_kfree")
  /\ freeStacks' = freeStacks \cup {blk[cpu]}
  /\ blk' = [blk EXCEPT ![cpu] = NULL]
  /\ GoTo("sc_clear")
  /\ UNCHANGED <<TaskTable, TaskCount, slot>>

ZombieClear ==
  /\ At("sc_clear")
  /\ TaskTable' = [TaskTable EXCEPT ![slot[cpu]] = EmptyTask]
  /\ GoTo("sc_cleared")
  /\ UNCHANGED <<TaskCount, freeStacks, slot, blk>>

ZombieEmpty ==
  /\ At("sc_cleared")
  /\ TaskTable' = [TaskTable EXCEPT ![slot[cpu]].state = "EMPTY"]
  /\ GoTo("sc_erased")
  /\ UNCHANGED <<TaskCount, freeStacks, slot, blk>>

ZombieCount ==
  /\ At("sc_erased")
  /\ TaskCount' = TaskCount - 1
  /\ EndRound
  /\ UNCHANGED <<TaskTable, freeStacks, blk>>

SleeperTest ==
  /\ At("sc_sleeper")
  /\ GoTo(IF TaskTable[slot[cpu]].msleep > 0 THEN "sc_dec" ELSE "sc_test")
  /\ UNCHANGED <<TaskTable, TaskCount, freeStacks, slot, blk>>

SleeperCount ==
  /\ At("sc_dec")
  /\ TaskTable' = [TaskTable EXCEPT ![slot[cpu]].msleep = Less(@)]
  /\ GoTo("sc_test")
  /\ UNCHANGED <<TaskCount, freeStacks, slot, blk>>

SleeperOver ==
  /\ At("sc_test")
  /\ IF TaskTable[slot[cpu]].msleep = 0
       THEN GoTo("sc_wake") /\ UNCHANGED slot
       ELSE EndRound
  /\ UNCHANGED <<TaskTable, TaskCount, freeStacks, blk>>

SleeperWake ==
  /\ At("sc_wake")
  /\ TaskTable' = [TaskTable EXCEPT ![slot[cpu]].state = "WAITING"]
  /\ EndRound
  /\ UNCHANGED <<TaskCount, freeStacks, blk>>

ScheduleScanSteps ==
  /\ \/ RoundBegin
     \/ ZombieStack \/ ZombieFree \/ ZombieClear \/ ZombieEmpty \/ ZombieCount
     \/ SleeperTest \/ SleeperCount \/ SleeperOver \/ SleeperWake
  /\ UNCHANGED <<CurrentTaskPID, cpu, IF_flag, how, id, next_pid, prev>>

SchedulePick ==
  /\ At("sc_pick")
  /\ LET nxt == Pick(TaskTable, CurrentTaskPID)
     IN  IF nxt = CurrentTaskPID
           THEN GoTo("user") /\ UNCHANGED next_pid
           ELSE GoTo("sc_commit") /\ next_pid' = [next_pid EXCEPT ![cpu] = nxt]
  /\ UNCHANGED <<TaskTable, TaskCount, CurrentTaskPID, freeStacks, cpu, IF_flag,
                 how, id, prev, slot, blk>>

ScheduleCommit ==
  /\ At("sc_commit") /\ ~Open(CommitWindows)
  /\ TaskTable' = Commit(TaskTable, CurrentTaskPID, next_pid[cpu])
  /\ prev' = [prev EXCEPT ![cpu] = CurrentTaskPID]
  /\ CurrentTaskPID' = next_pid[cpu]
  /\ GoTo("sc_switch")
  /\ UNCHANGED <<TaskCount, freeStacks, cpu, IF_flag, how, id, next_pid, slot, blk>>

(* The commit with ticks inside.                                            *)
CommitPark ==
  /\ At("sc_commit") /\ Open(CommitWindows)
  /\ prev' = [prev EXCEPT ![cpu] = CurrentTaskPID]
  /\ TaskTable' = Parked(TaskTable, CurrentTaskPID)
  /\ GoTo("sc_run")
  /\ UNCHANGED CurrentTaskPID

CommitRun ==
  /\ At("sc_run")
  /\ TaskTable' = [TaskTable EXCEPT ![next_pid[cpu]].state = "RUNNING"]
  /\ GoTo("sc_current")
  /\ UNCHANGED <<CurrentTaskPID, prev>>

CommitCurrent ==
  /\ At("sc_current")
  /\ CurrentTaskPID' = next_pid[cpu]
  /\ GoTo("sc_switch")
  /\ UNCHANGED <<TaskTable, prev>>

ScheduleCommitSteps ==
  /\ CommitPark \/ CommitRun \/ CommitCurrent
  /\ UNCHANGED <<TaskCount, freeStacks, cpu, IF_flag, how, id, next_pid, slot, blk>>

ScheduleSwitch ==
  /\ At("sc_switch")
  /\ TaskTable' = Saved(TaskTable, prev[cpu])
  /\ ResumeOn(next_pid[cpu], "ret", IF_flag)
  /\ GoTo("user")
  /\ next_pid' = [next_pid EXCEPT ![cpu] = -1]
  /\ prev' = [prev EXCEPT ![cpu] = -1]
  /\ UNCHANGED <<TaskCount, CurrentTaskPID, freeStacks, id, slot, blk>>

ExitAnyone == \* mutant: "CurrentTaskPID == 0" not tested
  /\ MaskedSchedule([TaskTable EXCEPT ![CurrentTaskPID].state = "ZOMBIE"], "ret")
  /\ GoTo("dead")
  /\ UNCHANGED locals

(* ExitTask: under cli; Schedule() is not expected to return, behind it is  *)
(* "while(1);" with interrupts masked.                                      *)
Exit ==
  IF CurrentTaskPID = 0
    THEN /\ IF_flag' = TRUE   \* return -EACCES
         /\ GoTo("user")
         /\ UNCHANGED <<TaskTable, TaskCount, CurrentTaskPID, freeStacks, cpu,
                        how, locals>>
    ELSE /\ MaskedSchedule([TaskTable EXCEPT ![CurrentTaskPID].state = "ZOMBIE"],
                           "ret")
         /\ GoTo("dead")
         /\ UNCHANGED locals

KillAnyone(pid) == \* mutant: "pid == CurrentTaskPID" not tested
  /\ IF_flag' = TRUE
  /\ TaskTable' = IF TaskTable[pid].state = "EMPTY" THEN TaskTable
                  ELSE [TaskTable EXCEPT ![pid].state = "ZOMBIE"]
  /\ UNCHANGED <<TaskCount, CurrentTaskPID, freeStacks, cpu, pc, how, locals>>

(* KillTask(pid) for 0 < pid < MAX_TASK_COUNT: under cli ... sti.  Killing  *)
(* oneself enables interrupts before ExitTask masks them again.             *)
Kill(pid) ==
  /\ IF_flag' = TRUE
  /\ IF TaskTable[pid].state # "EMPTY" /\ pid = CurrentTaskPID
       THEN GoTo("kt_exit") /\ UNCHANGED TaskTable
       ELSE /\ UNCHANGED pc
            /\ TaskTable' = IF TaskTable[pid].state = "EMPTY" THEN TaskTable
                            ELSE [TaskTable EXCEPT ![pid].state = "ZOMBIE"]
  /\ UNCHANGED <<TaskCount, CurrentTaskPID, freeStacks, cpu, how, locals>>

ExitTask == (UserCall("ExitTask") \/ At("kt_exit")) /\ Exit

KillTask == UserCall("KillTask") /\ \E pid \in Pids \ {0} : Kill(pid)

(* The fault handlers: divide_by_zero_handler calls ExitTask, the GP and    *)
(* page-fault handlers kill the current task; for task 0 all three panic.   *)
Fault ==
  /\ UserCall("Fault")
  /\ IF CurrentTaskPID = 0
       THEN /\ GoTo("dead")
            /\ IF_flag' = FALSE
            /\ UNCHANGED <<TaskTable, TaskCount, CurrentTaskPID, freeStacks, cpu,
                           how, locals>>
       ELSE Exit \/ Kill(CurrentTaskPID)

(* The thread's function returns.  thread_starter's iretq has left it with  *)
(* no return address: ret pops what lies at the top of the stack block, and *)
(* the call of ExitTask behind the iretq is never reached.                  *)
ThreadReturn ==
  /\ UserCall("Return")
  /\ cpu' = NULL
  /\ UNCHANGED <<TaskTable, TaskCount, CurrentTaskPID, freeStacks, IF_flag, pc,
                 how, locals>>

-----------------------------------------------------------------------------
(* The state start_kernel is in after sched_init: interrupts are enabled    *)
(* since traps_init, the idle task runs.                                    *)
Init ==
  /\ TaskTable = [i \in Pids |->
                    IF i = 0 THEN [EmptyTask EXCEPT !.state = "RUNNING"]
                    ELSE EmptyTask]
  /\ TaskCount = 1
  /\ CurrentTaskPID = 0
  /\ freeStacks = Stacks
  /\ cpu = BootStack
  /\ IF_flag = TRUE
  /\ pc = [t \in Threads |-> "user"]
  /\ how = [t \in Threads |-> "iret"]
  /\ id = [t \in Threads |-> -1]
  /\ next_pid = [t \in Threads |-> -1]
  /\ prev = [t \in Threads |-> -1]
  /\ slot = [t \in Threads |-> -1]
  /\ blk = [t \in Threads |-> NULL]

\* Code of a kernel call in progress.
KernelStep ==
  \/ CreateClaim \/ CreateAlloc \/ CreateAllocSteps \/ CreateFrame
  \/ ForkReturn
  \/ ScheduleScan \/ ScheduleScanSteps \/ SchedulePick
  \/ ScheduleCommit \/ ScheduleCommitSteps \/ ScheduleSwitch
  \/ (At("kt_exit") /\ ExitTask)

Next ==
  \/ Tick
  \/ CreateFind \/ CreateClaim \/ CreateAlloc \/ CreateAllocSteps \/ CreateFrame
  \/ TaskFork \/ ForkReturn
  \/ Msleep \/ ScheduleScan \/ ScheduleScanSteps \/ SchedulePick
  \/ ScheduleCommit \/ ScheduleCommitSteps \/ ScheduleSwitch
  \/ ExitTask \/ KillTask \/ Fault \/ ThreadReturn

Spec == Init /\ [][Next]_vars

-----------------------------------------------------------------------------
(* Fairness.  A raised IRQ 0 stays latched in the PIC until interrupts are  *)
(* enabled, so a tick that is possible again and again is taken; code       *)
(* between two windows runs on.  What a thread calls is its own affair.     *)
FairSpec == Spec /\ SF_vars(Tick) /\ WF_vars(KernelStep)

(* Threads that go back to sleep: one that msleep returned to with          *)
(* interrupts masked eventually calls msleep again.                         *)
CoopSpec == FairSpec /\ WF_vars(~IF_flag /\ Msleep)

-----------------------------------------------------------------------------
(* The windows where a tick does no harm: Schedule() may run inside them    *)
(* without a half-built or half-erased slot or a half-made switch in the    *)
(* table.  The code takes ticks in the others as well; README.md says what  *)
(* each of them breaks.                                                     *)
SafeWindows == {"kt_exit", "sc_scan", "sc_pick"}

\* The stack that belongs to slot i.
StackOf(i) == IF i = 0 THEN BootStack ELSE TaskTable[i].kstack

\* Claimed by a CreateTask that has not counted it yet.
UnderConstruction ==
  {id[t] : t \in {u \in Threads :
                   pc[u] \in {"ct_alloc", "ct_frame"} \cup AllocWindows}}

Live == {i \in Pids : TaskTable[i].state # "EMPTY"} \ UnderConstruction

\* The slot whose thread is executing: until switch_to, still the old one.
Executing == IF pc[cpu] = "sc_switch" THEN prev[cpu] ELSE CurrentTaskPID

TypeOK ==
  /\ TaskTable \in [Pids -> Task]
  /\ TaskCount \in Int
  /\ CurrentTaskPID \in Pids
  /\ freeStacks \subseteq Stacks
  /\ cpu \in Threads \cup {NULL}
  /\ IF_flag \in BOOLEAN
  /\ pc \in [Threads -> Points]
  /\ how \in [Threads -> {"iret", "ret"}]
  /\ id \in [Threads -> Pids \cup {-1}]
  /\ next_pid \in [Threads -> Pids \cup {-1}]
  /\ prev \in [Threads -> Pids \cup {-1}]
  /\ slot \in [Threads -> Pids \cup {-1}]
  /\ blk \in [Threads -> Stacks \cup {NULL}]
  /\ \A t \in Threads :
       /\ pc[t] \in {"ct_claim", "ct_alloc", "ct_frame"} \cup AllocWindows
            => id[t] \in Pids
       /\ pc[t] \in AllocWindows \cup {"sc_kfree"} => blk[t] # NULL
       /\ pc[t] \in {"sc_scan"} \cup RoundWindows => slot[t] \in Pids
       /\ pc[t] \in {"sc_zombie", "sc_kfree", "sc_clear", "sc_cleared"}
            => slot[t] # 0
       /\ pc[t] \in {"sc_commit", "sc_switch"} \cup CommitWindows
            => next_pid[t] \in Pids
       /\ pc[t] \in {"sc_switch"} \cup CommitWindows => prev[t] \in Pids

(* The CPU runs on the stack of the task that CurrentTaskPID names (of the  *)
(* task being left, between the assignment of CurrentTaskPID and the        *)
(* switch), and that task is alive: switch_to saves the right rsp in the    *)
(* right slot, and a stack under a running thread is never given back.      *)
CpuOnCurrentStack ==
  /\ cpu # NULL
  /\ cpu = StackOf(Executing)
  /\ TaskTable[CurrentTaskPID].state \in {"RUNNING", "WAITING", "SLEEPING"}

(* Every task that is not executing can be switched to: its saved rsp       *)
(* points into its own stack (Schedule reads next->rsp blindly).            *)
SavedContexts ==
  \A i \in Live \ {Executing} : TaskTable[i].rsp = StackOf(i)

(* No kernel stack belongs to two slots, and none is free while a slot      *)
(* still points to it: kfree never gives away a stack someone runs on.      *)
StacksNotShared ==
  /\ \A i, j \in Pids : TaskTable[i].kstack = TaskTable[j].kstack
                         => i = j \/ TaskTable[i].kstack = NULL
  /\ \A i \in Pids : TaskTable[i].kstack \notin freeStacks

(* Moreover none is lost: what is not free belongs to a slot.               *)
StackOwnership ==
  /\ StacksNotShared
  /\ Stacks \ freeStacks = {TaskTable[i].kstack : i \in Pids} \ {NULL}

(* TaskCount, kept by increments and decrements, is the number of tasks:    *)
(* CreateTask's limit test refuses exactly when the table is full.          *)
TaskCountExact == TaskCount = Cardinality(Live)

(* A sleeper's counter never passes below 0, which in a 64-bit word is a    *)
(* sleep of billions of years (task.c:149-150).                             *)
SleepBounded == \A i \in Pids : TaskTable[i].msleep <= MaxSleep

(* At most the current task is marked TASK_RUNNING.                         *)
OneRunning ==
  \A i \in Pids : TaskTable[i].state = "RUNNING" => i = CurrentTaskPID

(* Task 0 can be neither killed nor reaped, so Schedule's last resort       *)
(* "next_pid = 0" always finds a task.                                      *)
IdleAlive == TaskTable[0].state \notin {"EMPTY", "ZOMBIE"}

(* ExitTask does not come back: no thread executes the "while(1)" behind    *)
(* its Schedule().                                                          *)
ExitNeverReturns == pc[cpu] # "dead"

(* A thread whose function returns ends in ExitTask or, should that come    *)
(* back, in the panic "Thread Leaked!": the CPU stays on a stack.           *)
ReturnIsCaught == cpu # NULL

(* TaskFork returns in the child, with 0 (child_return, task.c:129-131).    *)
ForkedChildRuns == [][At("child") => cpu' # NULL]_vars

(* Whoever Schedule() makes the current task can be resumed, on a stack     *)
(* that is its own and not the heap's, also when the tick falls into        *)
(* start_kernel's CreateTask (init.c:42) or into msleep's own pass.         *)
DispatchedTaskRuns ==
  [][CurrentTaskPID' # CurrentTaskPID => cpu' \in Threads \ freeStacks']_vars

(* A killed task is never run again: while it waits to be reaped its slot   *)
(* is neither current nor anything but a zombie.                            *)
ZombiesStayDead ==
  [][\A i \in Pids : TaskTable[i].state = "ZOMBIE"
       => /\ TaskTable'[i].state \in {"ZOMBIE", "EMPTY"}
          /\ CurrentTaskPID' # i]_vars

(* Round robin: a waiting task is dispatched.                               *)
ReadyRuns ==
  \A i \in Pids \ {0} :
    TaskTable[i].state = "WAITING"
      ~> (TaskTable[i].state # "WAITING" \/ CurrentTaskPID = i)

(* msleep ends.                                                             *)
SleeperWakes ==
  \A i \in Pids : TaskTable[i].state = "SLEEPING"
                     ~> TaskTable[i].state # "SLEEPING"

(* A killed task's slot and stack are given back.                           *)
ZombieReaped ==
  \A i \in Pids \ {0} : TaskTable[i].state = "ZOMBIE"
                           ~> TaskTable[i].state = "EMPTY"

=============================================================================
