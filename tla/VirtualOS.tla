----------------------------- MODULE VirtualOS -----------------------------
(***************************************************************************)
(* The concurrent heart of the virtual machine: the process table, the     *)
(* preemptive scheduler, the core threads and the thread that owns the     *)
(* VirtualOS object (the one that loads programs, calls run() and step()). *)
(*                                                                         *)
(* What a guest instruction computes is abstracted to what it does to      *)
(* scheduling, its kind:                                                   *)
(*   "Continue"  any instruction or system call that just goes on;         *)
(*   "Halt"      HALT; "Exit" the exit call; "Error" a handler that        *)
(*               reports ExecutionResult::Error;                           *)
(*   "Yield"     the yield call; "Load" the load call;                     *)
(*   "Throw"     anything that throws VmException (unknown opcode, address *)
(*               out of bounds, failed scan, missing file).                *)
(*                                                                         *)
(* A step is atomic when the code holds a mutex for all of it or touches   *)
(* shared data once: a test and a store without a mutex are two steps.     *)
(* halted_, shouldYield_ and the time slice of a process are used only by  *)
(* the core that executes it, so an access to them belongs to the step     *)
(* next to it.                                                             *)
(* The order in which run() and stop() visit the cores is left open: it    *)
(* permutes the names of the cores.                                        *)
(***************************************************************************)
EXTENDS Naturals, Sequences, FiniteSets

CONSTANTS
    Cores,        \* the core threads of one VirtualOS
    MaxProcs,     \* how many process regions physical memory can hold
    Quantum,      \* instructions per time slice
    Kinds,        \* the kinds of instruction the guest programs contain
    ClientSteps,  \* does the owner also single-step processes?
    MaxRuns       \* how often the owner calls run()

AllKinds == {"Continue", "Halt", "Exit", "Error", "Yield", "Load", "Throw"}

ASSUME ConstantsAssumption ==
    /\ IsFiniteSet(Cores)
    /\ MaxProcs \in Nat
    /\ Quantum \in Nat \ {0}
    /\ Kinds \subseteq AllKinds
    /\ ClientSteps \in BOOLEAN
    /\ MaxRuns \in Nat

Procs == 1..MaxProcs      \* slots of the process table, in table order
None  == 0                \* "no process"

VARIABLES
    \* process table, its id counter and the region allocator it draws on
    count,            \* number of PCBs in the table: slots 1..count are live
    regions,          \* number of regions handed out by allocateRegion
    nextId,           \* nextProcessId_
    id,               \* id[p]: the ProcessId of slot p
    \* process control blocks
    state,            \* state[p]: "Absent" before emplace, then a ProcessState
    halted,           \* halted[p]: halted_ of its CpuContext
    shouldYield,      \* shouldYield[p]: shouldYield_ of its CpuContext
    slice,            \* slice[p]: timeSliceLeft_ of its CpuContext
    \* scheduler
    readyQueue,       \* readyQueue_, a deque of ids
    roundRobinIndex,  \* roundRobinIndex_
    schedRunning,     \* running_ of the scheduler
    \* cores
    cpc,              \* cpc[c]: where core thread c is
    held,             \* held[c]: the local variable `process' of coreLoop
    stopRequested,    \* stopRequested[c]: stopRequested_
    newId, newSlot,   \* locals of a load call in progress on core c
    \* the owner thread
    mpc,              \* where the owner thread is
    runs,             \* calls of run() so far
    \* the whole program
    crashed           \* std::terminate was called

tableVars == <<count, regions, nextId, id>>
pcbVars   == <<state, halted, shouldYield, slice>>
schedVars == <<readyQueue, roundRobinIndex, schedRunning>>
loadVars  == <<newId, newSlot>>
coreVars  == <<cpc, held, stopRequested>>
mainVars  == <<mpc, runs>>
vars == <<tableVars, pcbVars, schedVars, coreVars, loadVars, mainVars, crashed>>

States == {"Absent", "Ready", "Running", "Halted"}

EndPCs == {"ending", "retire", "retireready", "retired", "shutdown"}
LoadPCs == {"alloc", "readid", "writeid", "emplace", "setready", "loadnotify",
            "loaded"}
HoldPCs == EndPCs \cup {"run", "preempt", "requeue", "skip", "skipready",
                        "skipped"}
FreePCs == {"off", "acquire", "blocking", "blocked", "idle", "done"}
CorePCs == LoadPCs \cup HoldPCs \cup FreePCs \cup {"loop"}
MainPCs == {"idle", "load_notify", "start", "check", "waiting", "stop",
            "stop_notify", "stop_cores", "join"}

TypeOK ==
    /\ count \in 0..MaxProcs
    /\ regions \in 0..MaxProcs
    /\ nextId \in Nat \ {0}
    /\ id \in [Procs -> Nat]
    /\ state \in [Procs -> States]
    /\ halted \in [Procs -> BOOLEAN]
    /\ shouldYield \in [Procs -> BOOLEAN]
    /\ slice \in [Procs -> 0..Quantum]
    /\ readyQueue \in Seq(Nat)
    /\ roundRobinIndex \in 0..MaxProcs
    /\ schedRunning \in BOOLEAN
    /\ cpc \in [Cores -> CorePCs]
    /\ held \in [Cores -> Procs \cup {None}]
    /\ stopRequested \in [Cores -> BOOLEAN]
    /\ newId \in [Cores -> Nat]
    /\ newSlot \in [Cores -> Procs \cup {None}]
    /\ mpc \in MainPCs
    /\ runs \in 0..MaxRuns
    /\ crashed \in BOOLEAN

Init ==
    /\ count = 0 /\ regions = 0 /\ nextId = 1
    /\ id = [p \in Procs |-> 0]
    /\ state = [p \in Procs |-> "Absent"]
    /\ halted = [p \in Procs |-> FALSE]
    /\ shouldYield = [p \in Procs |-> FALSE]
    /\ slice = [p \in Procs |-> 0]
    /\ readyQueue = <<>> /\ roundRobinIndex = 0 /\ schedRunning = TRUE
    /\ cpc = [c \in Cores |-> "off"]
    /\ held = [c \in Cores |-> None]
    /\ stopRequested = [c \in Cores |-> FALSE]
    /\ newId = [c \in Cores |-> 0] /\ newSlot = [c \in Cores |-> None]
    /\ mpc = "idle" /\ runs = 0
    /\ crashed = FALSE

-----------------------------------------------------------------------------
(* The process table. *)

InTable == 1..count

\* ProcessTable::allHalted
AllHalted == \A p \in InTable : state[p] = "Halted"

EmplaceForgets(i) == UNCHANGED <<count, id, state, slice>>         \* mutant

\* ProcessTable::emplace of a new PCB, which is born Ready with a full slice.
Emplace(i) ==
    /\ count' = count + 1
    /\ id' = [id EXCEPT ![count + 1] = i]
    /\ state' = [state EXCEPT ![count + 1] = "Ready"]
    /\ slice' = [slice EXCEPT ![count + 1] = Quantum]

-----------------------------------------------------------------------------
(* The scheduler's critical sections. *)

MutexIgnored == TRUE                                               \* mutant

\* mutex_ is free: the only step that keeps it across a state is that of a
\* core that found nothing to do and is about to sleep on cv_.
MutexFree == \A c \in Cores : cpc[c] # "blocking"

WokenNobody == cpc                                                 \* mutant

\* cv_.notify_all(): whoever sleeps on cv_ goes back to test its predicate.
Woken == [c \in Cores |-> IF cpc[c] = "blocked" THEN "acquire" ELSE cpc[c]]

Queued == {readyQueue[i] : i \in DOMAIN readyQueue}

\* p is the first Ready process of the table with id i.
FirstReady(st, i, p) ==
    /\ st[p] = "Ready" /\ id[p] = i
    /\ \A q \in InTable : q < p => ~(st[q] = "Ready" /\ id[q] = i)

UnqueuedUnchecked(st) == {p \in InTable : FirstReady(st, id[p], p)} \* mutant

\* The processes for which the loop of notifyProcessReady appends an id.
Unqueued(st) ==
    {p \in InTable : id[p] \notin Queued /\ FirstReady(st, id[p], p)}

\* notifyProcessReady: append the missing ids in table order.
EnqueueReady(st) ==
    \E n \in 0..MaxProcs : \E s \in [1..n -> Unqueued(st)] :
        /\ \A i, j \in 1..n : i < j => s[i] < s[j]
        /\ \A p \in Unqueued(st) : \E i \in 1..n : s[i] = p
        /\ readyQueue' = readyQueue \o [i \in 1..n |-> id[s[i]]]

\* A queue entry that pickNextProcess would drop: nobody Ready has that id.
Stale(i) == \A q \in InTable : ~(state[q] = "Ready" /\ id[q] = i)

\* What pickNextProcess does to the process it returns.
MarkRunningNot(p) == UNCHANGED state                               \* mutant
MarkRunning(p)    == state' = [state EXCEPT ![p] = "Running"]

ResetTimeSliceNot(p) == UNCHANGED slice                            \* mutant
ResetTimeSlice(p)    == slice' = [slice EXCEPT ![p] = Quantum]

\* pickNextProcess returns p to core c.
Dispatch(c, p) ==
    /\ MarkRunning(p)
    /\ ResetTimeSlice(p)
    /\ held' = [held EXCEPT ![c] = p]
    /\ cpc' = [cpc EXCEPT ![c] = "run"]
    /\ UNCHANGED <<tableVars, halted, shouldYield, schedRunning, stopRequested,
                   loadVars, mainVars, crashed>>

-----------------------------------------------------------------------------
(* acquireProcess on core c: one action per way out of it. *)

AcquireStopped(c) ==
    /\ cpc[c] = "acquire" /\ MutexFree /\ ~schedRunning
    /\ cpc' = [cpc EXCEPT ![c] = "idle"]
    /\ UNCHANGED <<tableVars, pcbVars, schedVars, held, stopRequested, loadVars,
                   mainVars, crashed>>

\* The predicate of cv_.wait is false: the core still holds mutex_ ...
AcquireWait(c) ==
    /\ cpc[c] = "acquire" /\ MutexFree /\ schedRunning /\ readyQueue = <<>>
    /\ cpc' = [cpc EXCEPT ![c] = "blocking"]
    /\ UNCHANGED <<tableVars, pcbVars, schedVars, held, stopRequested, loadVars,
                   mainVars, crashed>>

\* ... until wait() releases it and sleeps in one step.
AcquireBlock(c) ==
    /\ cpc[c] = "blocking"
    /\ cpc' = [cpc EXCEPT ![c] = "blocked"]
    /\ UNCHANGED <<tableVars, pcbVars, schedVars, held, stopRequested, loadVars,
                   mainVars, crashed>>

\* pickNextProcess, first loop: drop stale entries, take the first live one.
AcquireQueued(c) ==
    /\ cpc[c] = "acquire" /\ MutexFree /\ schedRunning
    /\ \E k \in DOMAIN readyQueue, p \in InTable :
        /\ \A j \in 1..k - 1 : Stale(readyQueue[j])
        /\ FirstReady(state, readyQueue[k], p)
        /\ readyQueue' = SubSeq(readyQueue, k + 1, Len(readyQueue))
        /\ UNCHANGED roundRobinIndex
        /\ Dispatch(c, p)

\* The queue held stale entries only: all are popped, then the table is
\* scanned once from roundRobinIndex_.
QueueStale == readyQueue # <<>> /\ \A j \in DOMAIN readyQueue : Stale(readyQueue[j])

Scan(i) == ((roundRobinIndex + i) % count) + 1

AcquireRoundRobin(c) ==
    /\ cpc[c] = "acquire" /\ MutexFree /\ schedRunning /\ QueueStale
    /\ \E i \in 0..count - 1 :
        /\ state[Scan(i)] = "Ready"
        /\ \A j \in 0..i - 1 : state[Scan(j)] # "Ready"
        /\ roundRobinIndex' = Scan(i)
        /\ readyQueue' = <<>>
        /\ Dispatch(c, Scan(i))

AcquireNothing(c) ==
    /\ cpc[c] = "acquire" /\ MutexFree /\ schedRunning /\ QueueStale
    /\ \A p \in InTable : state[p] # "Ready"
    /\ readyQueue' = <<>>
    /\ cpc' = [cpc EXCEPT ![c] = "idle"]
    /\ UNCHANGED <<tableVars, pcbVars, roundRobinIndex, schedRunning, held,
                   stopRequested, loadVars, mainVars, crashed>>

-----------------------------------------------------------------------------
(* coreLoop on core c. *)

LoopBranchNoTest(c) == IF stopRequested[c] THEN "done" ELSE "run"  \* mutant

\* The loop head: `while (!stopRequested_)' and `if (!process)'.
LoopBranch(c) ==
    IF stopRequested[c] THEN "done"
    ELSE IF held[c] = None THEN "acquire" ELSE "run"

CoreLoop(c) ==
    /\ cpc[c] = "loop"
    /\ cpc' = [cpc EXCEPT ![c] = LoopBranch(c)]
    /\ held' = [held EXCEPT ![c] = IF stopRequested[c] THEN None ELSE @]
    /\ UNCHANGED <<tableVars, pcbVars, schedVars, stopRequested, loadVars,
                   mainVars, crashed>>

\* acquireProcess returned nullptr: leave, or onCoreIdle and try again.
CoreIdleStop(c) ==
    /\ cpc[c] = "idle" /\ stopRequested[c]
    /\ cpc' = [cpc EXCEPT ![c] = "done"]
    /\ UNCHANGED <<tableVars, pcbVars, schedVars, held, stopRequested, loadVars,
                   mainVars, crashed>>

OnCoreIdle(c) ==
    /\ cpc[c] = "idle" /\ ~stopRequested[c] /\ MutexFree
    /\ EnqueueReady(state)
    /\ cpc' = [Woken EXCEPT ![c] = "loop"]
    /\ UNCHANGED <<tableVars, pcbVars, roundRobinIndex, schedRunning, held,
                   stopRequested, loadVars, mainVars, crashed>>

\* The test before executing: this process must not run any more.
Finished(p) == halted[p] \/ state[p] = "Halted"

CoreSkip(c) ==
    /\ cpc[c] = "run" /\ Finished(held[c])
    /\ cpc' = [cpc EXCEPT ![c] = "skip"]
    /\ UNCHANGED <<tableVars, pcbVars, schedVars, held, stopRequested, loadVars,
                   mainVars, crashed>>

Executing(c, k) == cpc[c] = "run" /\ ~Finished(held[c]) /\ k \in Kinds

\* executeInstruction uses up one unit of the slice, never going below 0.
Tick(p) == [slice EXCEPT ![p] = IF @ > 0 THEN @ - 1 ELSE 0]

\* What coreLoop does with process p once executeInstruction returned Continue.
AfterContinue(c, p) ==
    /\ slice' = Tick(p)
    /\ shouldYield' = [shouldYield EXCEPT ![p] = halted[p] /\ @]
    /\ cpc' = [cpc EXCEPT ![c] = IF halted[p] THEN "ending"
                                 ELSE IF shouldYield[p] \/ slice'[p] = 0
                                      THEN "preempt" ELSE "loop"]
    /\ UNCHANGED <<tableVars, state, halted, schedVars, held, stopRequested,
                   loadVars, mainVars, crashed>>

ExecContinue(c) ==
    /\ Executing(c, "Continue")
    /\ AfterContinue(c, held[c])

\* The last instruction of a process.  HALT sets halted_ and the exit call the
\* state too, a reported error neither; only the exit call returns before the
\* slice is charged.
ExecEnd(c, k) ==
    /\ Executing(c, k) /\ k \in {"Halt", "Exit", "Error"}
    /\ state' = [state EXCEPT ![held[c]] = IF k = "Exit" THEN "Halted" ELSE @]
    /\ halted' = [halted EXCEPT ![held[c]] = @ \/ k # "Error"]
    /\ slice' = IF k = "Exit" THEN slice ELSE Tick(held[c])
    /\ cpc' = [cpc EXCEPT ![c] = "ending"]
    /\ UNCHANGED <<tableVars, shouldYield, schedVars, held, stopRequested,
                   loadVars, mainVars, crashed>>

\* coreLoop then stores the state without a lock, and halted_ after an error.
StoreHalted(c) ==
    /\ cpc[c] = "ending"
    /\ state' = [state EXCEPT ![held[c]] = "Halted"]
    /\ halted' = [halted EXCEPT ![held[c]] = TRUE]
    /\ cpc' = [cpc EXCEPT ![c] = "retire"]
    /\ UNCHANGED <<tableVars, shouldYield, slice, schedVars, held,
                   stopRequested, loadVars, mainVars, crashed>>

\* The yield call sets shouldYield_, which coreLoop clears at once.
ExecYield(c) ==
    /\ Executing(c, "Yield")
    /\ shouldYield' = [shouldYield EXCEPT ![held[c]] = FALSE]
    /\ cpc' = [cpc EXCEPT ![c] = "preempt"]
    /\ UNCHANGED <<tableVars, state, halted, slice, schedVars, held,
                   stopRequested, loadVars, mainVars, crashed>>

\* Nothing on the core thread catches a VmException.
ExecThrow(c) ==
    /\ Executing(c, "Throw")
    /\ crashed' = TRUE
    /\ UNCHANGED <<tableVars, pcbVars, schedVars, coreVars, loadVars, mainVars>>

ExecLoad(c) ==
    /\ Executing(c, "Load")
    /\ cpc' = [cpc EXCEPT ![c] = "alloc"]
    /\ UNCHANGED <<tableVars, pcbVars, schedVars, held, stopRequested, loadVars,
                   mainVars, crashed>>

\* onPreempt: a process that is still Running goes to the back of the queue.
OnPreemptForgets(p) == UNCHANGED <<state, readyQueue>>             \* mutant
OnPreemptIfRunning(p) ==                                           \* mutant
    IF schedRunning /\ state[p] = "Running"
    THEN /\ state' = [state EXCEPT ![p] = "Ready"]
         /\ readyQueue' = Append(readyQueue, id[p])
    ELSE UNCHANGED <<state, readyQueue>>
OnPreemptFront(p) ==                                               \* mutant
    IF state[p] = "Running"
    THEN /\ state' = [state EXCEPT ![p] = "Ready"]
         /\ readyQueue' = <<id[p]>> \o readyQueue
    ELSE UNCHANGED <<state, readyQueue>>
OnPreemptSilent(p) ==                                              \* mutant
    /\ state' = IF state[p] = "Running"
                THEN [state EXCEPT ![p] = "Ready"] ELSE state
    /\ UNCHANGED readyQueue

OnPreempt(p) ==
    IF state[p] = "Running"
    THEN /\ state' = [state EXCEPT ![p] = "Ready"]
         /\ readyQueue' = Append(readyQueue, id[p])
    ELSE UNCHANGED <<state, readyQueue>>

UnfinishedAlways(p) == TRUE                                        \* mutant

\* The test of releaseProcess, made without mutex_.
Unfinished(p) == state[p] # "Halted"

ReleaseTo(c, unfinished, finished) ==
    cpc' = [cpc EXCEPT ![c] =
            IF Unfinished(held[c]) THEN unfinished ELSE finished]

\* releaseProcess: a preempted process is tested for onPreempt first, and like
\* any other for setState(Ready) if that fails.
ReleaseProcess(c) ==
    /\ \/ cpc[c] = "preempt" /\ ReleaseTo(c, "requeue", "skip")
       \/ cpc[c] = "skip" /\ ReleaseTo(c, "skipready", "skipped")
       \/ cpc[c] = "retire" /\ ReleaseTo(c, "retireready", "retired")
    /\ UNCHANGED <<tableVars, pcbVars, schedVars, held, stopRequested, loadVars,
                   mainVars, crashed>>

\* The store that follows the test, without mutex_ as well.
ReleaseReady(c) ==
    /\ cpc[c] \in {"skipready", "retireready"}
    /\ state' = [state EXCEPT ![held[c]] = "Ready"]
    /\ cpc' = [cpc EXCEPT ![c] =
                IF cpc[c] = "skipready" THEN "skipped" ELSE "retired"]
    /\ UNCHANGED <<tableVars, halted, shouldYield, slice, schedVars, held,
                   stopRequested, loadVars, mainVars, crashed>>

\* releaseProcess ends in onPreempt for a process that can go on ...
ReleasePreempt(c) ==
    /\ cpc[c] = "requeue" /\ MutexFree
    /\ OnPreempt(held[c])
    /\ cpc' = [Woken EXCEPT ![c] = "loop"]
    /\ held' = [held EXCEPT ![c] = None]
    /\ UNCHANGED <<tableVars, halted, shouldYield, slice, roundRobinIndex,
                   schedRunning, stopRequested, loadVars, mainVars, crashed>>

\* ... and notifyProcessReady otherwise.
ReleaseNotify(c) ==
    /\ cpc[c] \in {"skipped", "retired"} /\ MutexFree
    /\ EnqueueReady(state)
    /\ cpc' = [Woken EXCEPT ![c] =
                IF cpc[c] = "skipped" THEN "loop" ELSE "shutdown"]
    /\ held' = [held EXCEPT ![c] = IF cpc[c] = "skipped" THEN None ELSE @]
    /\ UNCHANGED <<tableVars, pcbVars, roundRobinIndex, schedRunning,
                   stopRequested, loadVars, mainVars, crashed>>

ShutdownUnnoticed == mpc                                           \* mutant

\* shutdownCv_.notify_all() if there is nothing left to run.
ShutdownNotified == IF AllHalted /\ mpc = "waiting" THEN "check" ELSE mpc

\* onProcessHalted_ = notifyPossibleShutdown, under shutdownMutex_.
NotifyPossibleShutdown(c) ==
    /\ cpc[c] = "shutdown"
    /\ mpc' = ShutdownNotified
    /\ cpc' = [cpc EXCEPT ![c] = "loop"]
    /\ held' = [held EXCEPT ![c] = None]
    /\ UNCHANGED <<tableVars, pcbVars, schedVars, stopRequested, loadVars, runs,
                   crashed>>

-----------------------------------------------------------------------------
(* The load call on core c: VirtualOS::loadProgram on a core thread. *)

RegionsUnlimited == TRUE                                           \* mutant

\* allocateRegion finds room for one more process,
RegionLeft == regions < MaxProcs

TakeRegionNot == UNCHANGED regions                                 \* mutant

\* ... and moves nextFreeAddress_, for good.
TakeRegion == regions' = regions + 1

\* programLoader_.load: allocateRegion throws when physical memory is used up,
\* writing data or code that does not fit throws after it, and nothing on the
\* core thread catches either.
LoadAlloc(c) ==
    /\ cpc[c] = "alloc"
    /\ \/ /\ RegionLeft /\ TakeRegion
          /\ cpc' = [cpc EXCEPT ![c] = "readid"]
          /\ UNCHANGED crashed
       \/ /\ RegionLeft /\ TakeRegion
          /\ crashed' = TRUE /\ UNCHANGED cpc
       \/ /\ ~RegionLeft
          /\ crashed' = TRUE /\ UNCHANGED <<regions, cpc>>
    /\ UNCHANGED <<count, nextId, id, pcbVars, schedVars, held, stopRequested,
                   loadVars, mainVars>>

\* nextProcessId_++ on a plain integer: a read and a write.
LoadReadId(c) ==
    /\ cpc[c] = "readid"
    /\ newId' = [newId EXCEPT ![c] = nextId]
    /\ cpc' = [cpc EXCEPT ![c] = "writeid"]
    /\ UNCHANGED <<tableVars, pcbVars, schedVars, held, stopRequested, newSlot,
                   mainVars, crashed>>

LoadWriteId(c) ==
    /\ cpc[c] = "writeid"
    /\ nextId' = newId[c] + 1
    /\ cpc' = [cpc EXCEPT ![c] = "emplace"]
    /\ UNCHANGED <<count, regions, id, pcbVars, schedVars, held, stopRequested,
                   loadVars, mainVars, crashed>>

\* From here on every other core can see the process, and it is Ready.
LoadEmplace(c) ==
    /\ cpc[c] = "emplace"
    /\ Emplace(newId[c])
    /\ newSlot' = [newSlot EXCEPT ![c] = count + 1]
    /\ cpc' = [cpc EXCEPT ![c] = "setready"]
    /\ UNCHANGED <<regions, nextId, halted, shouldYield, schedVars, held,
                   stopRequested, newId, mainVars, crashed>>

\* process.setState(Ready) in loadProgramFromSource, whatever happened since.
LoadSetReady(c) ==
    /\ cpc[c] = "setready"
    /\ state' = [state EXCEPT ![newSlot[c]] = "Ready"]
    /\ cpc' = [cpc EXCEPT ![c] = "loadnotify"]
    /\ UNCHANGED <<tableVars, halted, shouldYield, slice, schedVars, held,
                   stopRequested, loadVars, mainVars, crashed>>

LoadNotify(c) ==
    /\ cpc[c] = "loadnotify" /\ MutexFree
    /\ EnqueueReady(state)
    /\ newId' = [newId EXCEPT ![c] = 0]
    /\ newSlot' = [newSlot EXCEPT ![c] = None]
    /\ cpc' = [Woken EXCEPT ![c] = "loaded"]
    /\ UNCHANGED <<tableVars, pcbVars, roundRobinIndex, schedRunning, held,
                   stopRequested, mainVars, crashed>>

LoadReturn(c) ==
    /\ cpc[c] = "loaded"
    /\ AfterContinue(c, held[c])

-----------------------------------------------------------------------------
(* The owner thread.  While it is "idle" no core thread exists. *)

\* loadProgram / loadProgramFromSource up to its notifyProcessReady.  The
\* exception for a file that cannot be read or assembled, or for a memory that
\* is used up, goes to the client before anything here has changed.
MainLoad ==
    /\ mpc = "idle" /\ RegionLeft
    /\ TakeRegion
    /\ nextId' = nextId + 1
    /\ Emplace(nextId)
    /\ mpc' = "load_notify"
    /\ UNCHANGED <<halted, shouldYield, schedVars, coreVars, loadVars, runs,
                   crashed>>

\* The loader throws behind allocateRegion, for data or code that does not fit:
\* the client gets the exception, and nobody gives the region back.
MainLoadFails ==
    /\ mpc = "idle" /\ RegionLeft
    /\ TakeRegion
    /\ UNCHANGED <<count, nextId, id, pcbVars, schedVars, coreVars, loadVars,
                   mainVars, crashed>>

MainLoadNotify ==
    /\ mpc = "load_notify" /\ MutexFree
    /\ EnqueueReady(state)
    /\ cpc' = Woken
    /\ mpc' = "idle"
    /\ UNCHANGED <<tableVars, pcbVars, roundRobinIndex, schedRunning, held,
                   stopRequested, loadVars, runs, crashed>>

\* run(): running_ is false when nobody is inside run(), so it proceeds.
MainRun ==
    /\ mpc = "idle" /\ runs < MaxRuns /\ MutexFree
    /\ EnqueueReady(state)
    /\ cpc' = Woken
    /\ mpc' = "start"
    /\ runs' = runs + 1
    /\ UNCHANGED <<tableVars, pcbVars, roundRobinIndex, schedRunning, held,
                   stopRequested, loadVars, crashed>>

\* core->start(): its running_ is false, since join() cleared it.
MainStart(c) ==
    /\ mpc = "start" /\ cpc[c] = "off"
    /\ stopRequested' = [stopRequested EXCEPT ![c] = FALSE]
    /\ cpc' = [cpc EXCEPT ![c] = "loop"]
    /\ UNCHANGED <<tableVars, pcbVars, schedVars, held, loadVars, mainVars,
                   crashed>>

MainStarted ==
    /\ mpc = "start" /\ \A c \in Cores : cpc[c] # "off"
    /\ mpc' = "check"
    /\ UNCHANGED <<tableVars, pcbVars, schedVars, coreVars, loadVars, runs,
                   crashed>>

\* shutdownCv_.wait: the test and going to sleep are one step, because the
\* notifier holds shutdownMutex_ too.
MainCheck ==
    /\ mpc = "check"
    /\ mpc' = IF AllHalted THEN "stop" ELSE "waiting"
    /\ UNCHANGED <<tableVars, pcbVars, schedVars, coreVars, loadVars, runs,
                   crashed>>

\* scheduler_->stop(): a store and a notify_all, both without mutex_.
MainStopScheduler ==
    /\ mpc = "stop"
    /\ schedRunning' = FALSE
    /\ mpc' = "stop_notify"
    /\ UNCHANGED <<tableVars, pcbVars, readyQueue, roundRobinIndex, coreVars,
                   loadVars, runs, crashed>>

MainStopNotify ==
    /\ mpc = "stop_notify"
    /\ cpc' = Woken
    /\ mpc' = "stop_cores"
    /\ UNCHANGED <<tableVars, pcbVars, schedVars, held, stopRequested, loadVars,
                   runs, crashed>>

MainStopCore(c) ==
    /\ mpc = "stop_cores" /\ ~stopRequested[c]
    /\ stopRequested' = [stopRequested EXCEPT ![c] = TRUE]
    /\ UNCHANGED <<tableVars, pcbVars, schedVars, cpc, held, loadVars, mainVars,
                   crashed>>

MainStopped ==
    /\ mpc = "stop_cores" /\ \A c \in Cores : stopRequested[c]
    /\ mpc' = "join"
    /\ UNCHANGED <<tableVars, pcbVars, schedVars, coreVars, loadVars, runs,
                   crashed>>

MainJoin(c) ==
    /\ mpc = "join" /\ cpc[c] = "done"
    /\ cpc' = [cpc EXCEPT ![c] = "off"]
    /\ UNCHANGED <<tableVars, pcbVars, schedVars, held, stopRequested, loadVars,
                   mainVars, crashed>>

\* run() returns to the client.
MainReturn ==
    /\ mpc = "join" /\ \A c \in Cores : cpc[c] = "off"
    /\ mpc' = "idle"
    /\ UNCHANGED <<tableVars, pcbVars, schedVars, coreVars, loadVars, runs,
                   crashed>>

\* stepProcess: one instruction on the owner thread, of any process and in
\* whatever state it is.  An exception goes to the client.
MainStep(p, k) ==
    /\ mpc = "idle" /\ ClientSteps /\ k \in Kinds \ {"Load"}
    /\ state' = [state EXCEPT ![p] = IF k = "Exit" THEN "Halted" ELSE "Running"]
    /\ halted' = [halted EXCEPT ![p] = @ \/ k \in {"Halt", "Exit"}]
    /\ shouldYield' = [shouldYield EXCEPT ![p] = @ \/ k = "Yield"]
    /\ slice' = IF k \in {"Continue", "Halt", "Error"} THEN Tick(p) ELSE slice
    /\ UNCHANGED <<tableVars, schedVars, coreVars, loadVars, mainVars, crashed>>

\* stepProcess of a load call; the new process is complete before the tick,
\* which no other thread can see.
MainStepLoad(p) ==
    /\ mpc = "idle" /\ ClientSteps /\ "Load" \in Kinds /\ RegionLeft
    /\ TakeRegion
    /\ nextId' = nextId + 1
    /\ count' = count + 1
    /\ id' = [id EXCEPT ![count + 1] = nextId]
    /\ state' = [state EXCEPT ![p] = "Running", ![count + 1] = "Ready"]
    /\ slice' = [Tick(p) EXCEPT ![count + 1] = Quantum]
    /\ mpc' = "load_notify"
    /\ UNCHANGED <<halted, shouldYield, schedVars, coreVars, loadVars, runs,
                   crashed>>

\* stepProcess of a load call that throws, before allocateRegion or behind it:
\* the instruction is not charged.
MainStepLoadFails(p) ==
    /\ mpc = "idle" /\ ClientSteps /\ "Load" \in Kinds
    /\ state' = [state EXCEPT ![p] = "Running"]
    /\ \/ RegionLeft /\ TakeRegion
       \/ UNCHANGED regions
    /\ UNCHANGED <<count, nextId, id, halted, shouldYield, slice, schedVars,
                   coreVars, loadVars, mainVars, crashed>>

-----------------------------------------------------------------------------
(* What the condition variables may do by themselves. *)

SpuriousWake(c) ==
    /\ cpc[c] = "blocked"
    /\ cpc' = [cpc EXCEPT ![c] = "acquire"]
    /\ UNCHANGED <<tableVars, pcbVars, schedVars, held, stopRequested, loadVars,
                   mainVars, crashed>>

MainSpuriousProceeds ==                                            \* mutant
    /\ mpc = "waiting"
    /\ mpc' = "stop"
    /\ UNCHANGED <<tableVars, pcbVars, schedVars, coreVars, loadVars, runs,
                   crashed>>

MainSpuriousWake ==
    /\ mpc = "waiting"
    /\ mpc' = "check"
    /\ UNCHANGED <<tableVars, pcbVars, schedVars, coreVars, loadVars, runs,
                   crashed>>

-----------------------------------------------------------------------------

AcquireProcess(c) ==
    \/ AcquireStopped(c) \/ AcquireWait(c) \/ AcquireBlock(c)
    \/ AcquireQueued(c) \/ AcquireRoundRobin(c) \/ AcquireNothing(c)

LoadProgram(c) ==
    \/ LoadAlloc(c) \/ LoadReadId(c) \/ LoadWriteId(c) \/ LoadEmplace(c)
    \/ LoadSetReady(c) \/ LoadNotify(c) \/ LoadReturn(c)

ExecuteInstruction(c) ==
    \/ ExecContinue(c) \/ ExecYield(c) \/ ExecThrow(c) \/ ExecLoad(c)
    \/ \E k \in Kinds : ExecEnd(c, k)

\* One step of core thread c.
CoreStep(c) ==
    /\ ~crashed
    /\ \/ AcquireProcess(c) \/ LoadProgram(c) \/ ExecuteInstruction(c)
       \/ CoreLoop(c) \/ CoreIdleStop(c) \/ OnCoreIdle(c) \/ CoreSkip(c)
       \/ StoreHalted(c) \/ ReleaseProcess(c) \/ ReleaseReady(c)
       \/ ReleasePreempt(c) \/ ReleaseNotify(c) \/ NotifyPossibleShutdown(c)

\* One step of the owner thread inside a call.
OwnerStep ==
    /\ ~crashed
    /\ \/ MainLoadNotify \/ MainStarted \/ MainCheck \/ MainStopScheduler
       \/ MainStopNotify \/ MainStopped \/ MainReturn
       \/ \E c \in Cores : MainStart(c) \/ MainStopCore(c) \/ MainJoin(c)

\* A call the client decides to make.
ClientCall ==
    /\ ~crashed
    /\ \/ MainLoad \/ MainLoadFails \/ MainRun
       \/ \E p \in InTable :
            \/ MainStepLoad(p) \/ MainStepLoadFails(p)
            \/ \E k \in Kinds : MainStep(p, k)

Spurious ==
    /\ ~crashed
    /\ MainSpuriousWake \/ \E c \in Cores : SpuriousWake(c)

Next == OwnerStep \/ ClientCall \/ Spurious \/ \E c \in Cores : CoreStep(c)

Spec == Init /\ [][Next]_vars

\* A started thread keeps running, and a thread that keeps asking for mutex_
\* gets it; the client owes nothing and nothing wakes by itself.
Fairness == WF_vars(OwnerStep) /\ \A c \in Cores : SF_vars(CoreStep(c))

FairSpec == Spec /\ Fairness

-----------------------------------------------------------------------------
(* Safety. *)

\* No two cores execute the same process.
Exclusive ==
    \A c, d \in Cores : c # d /\ held[c] # None => held[c] # held[d]

\* A core that holds a process owns its life cycle: it holds it only while it
\* is Running or Halted, a process it gives up for good is Halted and
\* releaseProcess never sets it Ready again, a core that waits for work or has
\* left coreLoop holds none, and while the owner thread is outside run() no core
\* thread exists.
Ownership ==
    \A c \in Cores :
        /\ held[c] # None =>
            held[c] \in InTable /\ state[held[c]] \in {"Running", "Halted"}
        /\ cpc[c] \in {"skip", "skipped", "retire", "retired", "shutdown"} =>
            state[held[c]] = "Halted"
        /\ cpc[c] \notin {"skipready", "retireready"}
        /\ cpc[c] \in FreePCs => held[c] = None
        /\ cpc[c] \notin LoadPCs
        /\ mpc \in {"idle", "load_notify"} => cpc[c] = "off"

\* A process marked Running is really on some core: none is left behind in a
\* state in which nobody schedules it and allHalted() never becomes true.
RunningIsHeld ==
    \A p \in InTable : state[p] = "Running" => \E c \in Cores : held[c] = p

\* Outside loadProgram the ready queue holds the id of every Ready process,
\* exactly once, and nothing else: no Ready process is forgotten, no entry is
\* stale, and the round-robin fallback of pickNextProcess has nothing to do.
QueueExact ==
    /\ \A p \in InTable :
        state[p] = "Ready" /\ mpc # "load_notify" => id[p] \in Queued
    /\ \A i \in DOMAIN readyQueue : ~Stale(readyQueue[i])
    /\ \A i, j \in DOMAIN readyQueue : readyQueue[i] = readyQueue[j] => i = j

\* No core sleeps, or is about to sleep, while the ready queue has work:
\* every push happens under mutex_ and is followed by notify_all.
NoSleepOnWork ==
    \A c \in Cores : cpc[c] \in {"blocking", "blocked"} => readyQueue = <<>>

Done == \A p \in InTable : state[p] = "Halted"

\* The shutdown notification cannot be missed: when everything has halted and
\* run() sleeps, some core is still on its way to notifyPossibleShutdown.
ShutdownPending ==
    mpc = "waiting" /\ Done =>
        \E c \in Cores : cpc[c] \in EndPCs

\* run() starts to stop the machine only when every process has halted.
StopOnlyWhenHalted ==
    mpc \in {"stop", "stop_notify", "stop_cores", "join"} => Done

\* No instruction is executed on an exhausted time slice.
SliceBound == \A c \in Cores : cpc[c] = "run" => slice[held[c]] > 0

\* A Ready process that is not queued is about to be: some thread is on its
\* way to notifyProcessReady (or it shares its id with another process, which
\* racing load calls can bring about).
ReadyReachable ==
    \A p \in InTable : state[p] = "Ready" =>
        \/ id[p] \in Queued
        \/ mpc = "load_notify"
        \/ \E c \in Cores :
            cpc[c] \in {"setready", "loadnotify", "skipped", "retired"}
        \/ \E q \in InTable \ {p} : id[q] = id[p]

\* coreLoop never uses a null process, not even across a load call.
NoNullProcess ==
    \A c \in Cores : cpc[c] \in HoldPCs \cup LoadPCs => held[c] # None

\* The load calls that have a region but no table entry yet.
Loading == {c \in Cores : cpc[c] \in {"readid", "writeid", "emplace"}}

\* Every process of the table and every load call that is past the loader has a
\* region of its own, however many load calls overlap: so the table never
\* outgrows the memory.
RegionsAccounted == count + Cardinality(Loading) <= regions

\* The regions that belong to nobody.
Lost == regions - (count + Cardinality(Loading))

\* Only a load of the owner thread that fails outside run() loses a region, one
\* each time, unless the whole program ends: overlapping load calls on the
\* cores, and calls that create a process, lose none.
RegionsKept ==
    [][Lost' # Lost =>
        \/ mpc = "idle" /\ mpc' = "idle" /\ Lost' = Lost + 1
        \/ crashed']_vars

\* A Halted process stays Halted and executes nothing more.
HaltedIsFinal ==
    [][\A p \in InTable : state[p] = "Halted" =>
            state'[p] = "Halted" /\ slice'[p] = slice[p]]_vars

-----------------------------------------------------------------------------
(* Liveness. *)

\* While run() waits, a Ready process gets a core.
ReadyGetsRun ==
    \A p \in Procs :
        mpc \in {"check", "waiting"} /\ state[p] = "Ready" ~> state[p] # "Ready"

\* Once everything has halted, run() returns.
RunReturns == mpc = "waiting" /\ Done ~> mpc = "idle"
=============================================================================
