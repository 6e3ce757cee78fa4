---------------------------- MODULE MCScheduler -----------------------------
(* Instances of Scheduler for TLC.                                          *)
EXTENDS Scheduler, TLC

CONSTANTS s1, s2, s3

TwoStacks == {s1, s2}
OneStack == {s1}
ThreeStacks == {s1, s2, s3}

\* No thread function returns, none forks.
SafeCalls == AllCalls \ {"Return", "TaskFork"}

\* What start_kernel does.
StartKernelCalls == {"CreateTask"}

\* A boot thread that kills leaves, in a table of three, a slot to be reaped and
\* an empty one: with callers in the other slots this takes a table of four.
KillerBootCalls == {"CreateTask", "KillTask"}

\* Enough for a thread to come back from msleep.
SleepCalls == {"CreateTask", "msleep"}

\* What leads through every statement of the scan, the commit and kmalloc.
OpenCalls == {"CreateTask", "TaskFork", "msleep", "ExitTask", "Return"}
OpenBootCalls == {"CreateTask", "ExitTask"}
OpenWindows == Windows \ {"ct_claim"}

\* Ticks inside a round of the scan as well.
RoundOpen == SafeWindows \cup RoundWindows
RoundCalls == {"CreateTask", "msleep", "ExitTask"}

ForkCalls == {"TaskFork"}
NoCalls == {}

ReturnCalls == {"Return"}

\* With ticks inside the scan two passes count one zombie, and reaping the slot
\* that a failed CreateTask leaves is counted too; the search goes on from no
\* state in which TaskCount has left the range of a true count.
NoDrift == TaskCount \in 1 .. MAX_TASK_COUNT

\* Heap blocks are interchangeable: FairSpec and the safety properties name none.
StackSymmetry == Permutations(Stacks)
=============================================================================
