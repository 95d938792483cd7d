--------------------------- MODULE ScheduleProofs ---------------------------
(***************************************************************************)
(* Proofs about the schedule of VirtualOS when no guest uses the load      *)
(* call: which processes are queued, which are running, and how long.      *)
(*                                                                         *)
(*   SlicesLast           no instruction on an empty slice                 *)
(*   TableInOrder         ids are positions in the table, without holes    *)
(*   RunningAlwaysHeld    no Running process without a core     (no steps) *)
(*   QueueAlwaysExact     the queue is the set of Ready ids     (no steps) *)
(*   RefinesRoundRobin    the scheduler implements RoundRobin   (no steps) *)
(***************************************************************************)
EXTENDS MCVirtualOS, VirtualOSProofs

-----------------------------------------------------------------------------
(* The parts of the inductive invariant. *)

\* The ids are the positions in the table: nextProcessId_++ and emplace always
\* happen together on the owner thread.
IdsInOrder == nextId = count + 1 /\ \A p \in InTable : id[p] = p

\* The table has no holes.
TableFilled == \A p \in Procs : state[p] = "Absent" <=> p \notin InTable

\* A core that goes on with its process has some of the slice left.
SliceKept ==
    \A c \in Cores :
        cpc[c] \in {"loop", "run"} /\ held[c] # None => slice[held[c]] > 0

\* A core thread sees its stop flag only while run() is stopping the cores.
StopFlagFresh ==
    \A c \in Cores :
        stopRequested[c] /\ cpc[c] # "off" => mpc \in {"stop_cores", "join"}

\* The queue holds Ready processes, each once, and all of them but the one
\* that loadProgram has not announced yet.
QueueOfReady ==
    /\ \A i \in DOMAIN readyQueue :
        readyQueue[i] \in InTable /\ state[readyQueue[i]] = "Ready"
    /\ \A i, j \in DOMAIN readyQueue : readyQueue[i] = readyQueue[j] => i = j
    /\ \A p \in InTable :
        state[p] = "Ready" =>
            \/ \E i \in DOMAIN readyQueue : readyQueue[i] = p
            \/ mpc = "load_notify" /\ p = count

\* That one is not queued before.
NewUnqueued ==
    mpc = "load_notify" =>
        /\ count \in InTable /\ state[count] = "Ready"
        /\ \A i \in DOMAIN readyQueue : readyQueue[i] # count

-----------------------------------------------------------------------------
(* The steps that matter. *)

\* A step that touches neither the processes of the table, the queue, the states
\* and slices of the processes nor what the cores hold, and begins and ends no
\* call of run() or loadProgram.
Quiet ==
    /\ UNCHANGED <<count, nextId, id, state, slice, readyQueue, held>>
    /\ (mpc' = "load_notify") <=> (mpc = "load_notify")
    /\ mpc' \in {"idle", "load_notify"} <=> mpc \in {"idle", "load_notify"}
    /\ \A d \in Cores :
        held[d] # None /\ cpc'[d] \in {"loop", "run"} => cpc[d] \in {"loop", "run"}

\* The other steps of a core.
Loud(c) ==
    \/ AcquireQueued(c) \/ AcquireRoundRobin(c) \/ AcquireNothing(c)
    \/ ExecContinue(c) \/ (\E k \in Kinds : ExecEnd(c, k)) \/ StoreHalted(c)
    \/ CoreLoop(c) \/ OnCoreIdle(c) \/ ReleasePreempt(c) \/ ReleaseNotify(c)
    \/ NotifyPossibleShutdown(c)

\* The other steps of the owner thread.
LoudOwner ==
    \/ MainLoad \/ MainLoadNotify \/ MainRun \/ MainReturn
    \/ \E p \in InTable, k \in Kinds : MainStep(p, k)

\* Without load calls every step is quiet or one of those; releaseProcess is
\* quiet because it finds the processes it does not preempt Halted.
LEMMA LoudOrQuiet ==
    ASSUME "Load" \notin Kinds, TypeOK, NoNullProcess, OwnsCycle, Next
    PROVE  Quiet \/ (\E c \in Cores : Loud(c)) \/ LoudOwner
<1> USE DEF tableVars, pcbVars, schedVars, coreVars, loadVars, mainVars
<1>1. ASSUME NEW c \in Cores, AcquireStopped(c) PROVE Quiet
  BY <1>1 DEF TypeOK, Quiet, AcquireStopped
<1>2. ASSUME NEW c \in Cores, AcquireWait(c) PROVE Quiet
  BY <1>2 DEF TypeOK, Quiet, AcquireWait
<1>3. ASSUME NEW c \in Cores, AcquireBlock(c) PROVE Quiet
  BY <1>3 DEF TypeOK, Quiet, AcquireBlock
<1>4. ASSUME NEW c \in Cores, ExecThrow(c) PROVE Quiet
  BY <1>4 DEF TypeOK, Quiet, ExecThrow, Executing
<1>5. ASSUME NEW c \in Cores, ExecYield(c) PROVE Quiet
  BY <1>5 DEF TypeOK, Quiet, ExecYield, Executing
<1>6. ASSUME NEW c \in Cores, CoreIdleStop(c) PROVE Quiet
  BY <1>6 DEF TypeOK, Quiet, CoreIdleStop
<1>7. ASSUME NEW c \in Cores, CoreSkip(c) PROVE Quiet
  BY <1>7 DEF TypeOK, Quiet, CoreSkip
<1>8. ASSUME NEW c \in Cores, MainStart(c) PROVE Quiet
  BY <1>8 DEF TypeOK, Quiet, MainStart, OwnsCycle, FreePCs
<1>9. ASSUME NEW c \in Cores, MainStopCore(c) PROVE Quiet
  BY <1>9 DEF TypeOK, Quiet, MainStopCore
<1>10. ASSUME NEW c \in Cores, MainJoin(c) PROVE Quiet
  BY <1>10 DEF TypeOK, Quiet, MainJoin
<1>11. ASSUME NEW c \in Cores, SpuriousWake(c) PROVE Quiet
  BY <1>11 DEF TypeOK, Quiet, SpuriousWake
<1>12. ASSUME MainStarted PROVE Quiet
  BY <1>12 DEF TypeOK, Quiet, MainStarted
<1>13. ASSUME MainCheck PROVE Quiet
  BY <1>13 DEF TypeOK, Quiet, MainCheck
<1>14. ASSUME MainStopScheduler PROVE Quiet
  BY <1>14 DEF TypeOK, Quiet, MainStopScheduler
<1>15. ASSUME MainStopNotify PROVE Quiet
  BY <1>15 DEF TypeOK, Quiet, MainStopNotify, Woken
<1>16. ASSUME MainStopped PROVE Quiet
  BY <1>16 DEF TypeOK, Quiet, MainStopped
<1>17. ASSUME MainSpuriousWake PROVE Quiet
  BY <1>17 DEF TypeOK, Quiet, MainSpuriousWake
<1>18. ASSUME NEW c \in Cores, ReleaseProcess(c) PROVE Quiet
  BY <1>18 DEF TypeOK, Quiet, ReleaseProcess, ReleaseTo
<1>19. ASSUME NEW c \in Cores, LoadProgram(c) PROVE FALSE
  BY <1>19 DEF OwnsCycle, LoadPCs, LoadProgram, LoadAlloc, LoadReadId,
     LoadWriteId, LoadEmplace, LoadSetReady, LoadNotify, LoadReturn
<1>20. ASSUME NEW c \in Cores, ExecLoad(c) PROVE FALSE
  BY <1>20 DEF ExecLoad, Executing
<1>21. ASSUME NEW p \in InTable, MainStepLoad(p) \/ MainStepLoadFails(p)
       PROVE  FALSE
  BY <1>21 DEF MainStepLoad, MainStepLoadFails
<1>22. ASSUME NEW c \in Cores, ReleaseReady(c) PROVE FALSE
  BY <1>22 DEF OwnsCycle, ReleaseReady
<1>23. CASE MainLoadFails
  BY <1>23 DEF TypeOK, Quiet, MainLoadFails
<1> QED
  BY <1>1, <1>2, <1>3, <1>4, <1>5, <1>6, <1>7, <1>8, <1>9, <1>10, <1>11,
     <1>12, <1>13, <1>14, <1>15, <1>16, <1>17, <1>18, <1>19, <1>20, <1>21, <1>22,
     <1>23
  DEF Next, OwnerStep, ClientCall, Spurious, CoreStep, AcquireProcess,
      ExecuteInstruction, Loud, LoudOwner

-----------------------------------------------------------------------------
(* Every step preserves each part. *)

\* stop() sets the flags at its end, run() joins the threads before it returns,
\* and core->start() clears the flag of a new thread.
LEMMA FlagStep ==
    ASSUME TypeOK, StopFlagFresh, Next
    PROVE  StopFlagFresh'
<1> USE DEF tableVars, pcbVars, schedVars, coreVars, loadVars, mainVars, Woken
<1>1. ASSUME NEW c \in Cores, AcquireProcess(c) PROVE StopFlagFresh'
  BY <1>1 DEF TypeOK, StopFlagFresh, AcquireProcess, AcquireStopped, AcquireWait,
     AcquireBlock, AcquireQueued, AcquireRoundRobin, AcquireNothing, Dispatch
<1>2. ASSUME NEW c \in Cores, LoadProgram(c) PROVE StopFlagFresh'
  BY <1>2 DEF TypeOK, StopFlagFresh, LoadProgram, LoadAlloc, LoadReadId,
     LoadWriteId, LoadEmplace, LoadSetReady, LoadNotify, LoadReturn,
     AfterContinue
<1>3. ASSUME NEW c \in Cores, ExecuteInstruction(c) PROVE StopFlagFresh'
  BY <1>3 DEF TypeOK, StopFlagFresh, ExecuteInstruction, Executing,
     ExecContinue, ExecYield, ExecThrow, ExecLoad, ExecEnd, AfterContinue
<1>4. ASSUME NEW c \in Cores,
             CoreLoop(c) \/ CoreIdleStop(c) \/ OnCoreIdle(c) \/ CoreSkip(c)
      PROVE  StopFlagFresh'
  BY <1>4 DEF TypeOK, StopFlagFresh, CoreLoop, LoopBranch, CoreIdleStop,
     OnCoreIdle, CoreSkip
<1>5. ASSUME NEW c \in Cores,
             \/ StoreHalted(c) \/ ReleaseProcess(c) \/ ReleaseReady(c)
             \/ ReleasePreempt(c) \/ ReleaseNotify(c) \/ NotifyPossibleShutdown(c)
      PROVE  StopFlagFresh'
  BY <1>5 DEF TypeOK, StopFlagFresh, StoreHalted, ReleaseProcess, ReleaseTo,
     ReleaseReady, ReleasePreempt, ReleaseNotify, NotifyPossibleShutdown, ShutdownNotified
<1>6. ASSUME OwnerStep PROVE StopFlagFresh'
  BY <1>6 DEF TypeOK, StopFlagFresh, OwnerStep, MainLoadNotify, MainStarted,
     MainCheck, MainStopScheduler, MainStopNotify, MainStopped, MainReturn,
     MainStart, MainStopCore, MainJoin
<1>7. ASSUME ClientCall PROVE StopFlagFresh'
  BY <1>7 DEF TypeOK, StopFlagFresh, ClientCall, MainLoad, MainLoadFails,
     MainRun, MainStepLoad, MainStepLoadFails, MainStep
<1>8. ASSUME Spurious PROVE StopFlagFresh'
  BY <1>8 DEF TypeOK, StopFlagFresh, Spurious, MainSpuriousWake, SpuriousWake
<1> QED
  BY <1>1, <1>2, <1>3, <1>4, <1>5, <1>6, <1>7, <1>8 DEF Next, CoreStep

\* Only loadProgram changes the table, and it appends to it.
LEMMA TableStep ==
    ASSUME "Load" \notin Kinds, TypeOK, RegionsAccounted, NoNullProcess,
           OwnsCycle, IdsInOrder, TableFilled, Next
    PROVE  IdsInOrder' /\ TableFilled'
<1> USE DEF tableVars, pcbVars, schedVars, coreVars, loadVars, mainVars
<1>1. CASE Quiet
  BY <1>1 DEF Quiet, IdsInOrder, TableFilled, InTable
<1>2. ASSUME NEW c \in Cores, Loud(c) PROVE IdsInOrder' /\ TableFilled'
  <2>1. UNCHANGED tableVars
    BY <1>2 DEF Loud, AcquireQueued, AcquireRoundRobin, AcquireNothing, Dispatch,
       ExecContinue, ExecEnd, StoreHalted, AfterContinue, CoreLoop, OnCoreIdle,
       ReleasePreempt, ReleaseNotify, NotifyPossibleShutdown
  <2>2. \A p \in Procs : state'[p] # state[p] => p \in InTable
    <3>1. CASE AcquireQueued(c) \/ AcquireNothing(c)
      BY <3>1 DEF TypeOK, AcquireQueued, AcquireNothing, Dispatch, MarkRunning
    <3>2. CASE AcquireRoundRobin(c)
      BY <3>2, ScanType DEF TypeOK, AcquireRoundRobin, Dispatch, MarkRunning
    <3>3. CASE ExecContinue(c) \/ StoreHalted(c) \/ \E k \in Kinds : ExecEnd(c, k)
      BY <3>3 DEF TypeOK, NoNullProcess, HoldPCs, EndPCs, OwnsCycle,
         ExecContinue, ExecEnd, StoreHalted, Executing, AfterContinue
    <3>4. CASE ReleasePreempt(c)
      BY <3>4 DEF TypeOK, NoNullProcess, HoldPCs, EndPCs, OwnsCycle,
         ReleasePreempt, OnPreempt
    <3> QED
      BY <1>2, <3>1, <3>2, <3>3, <3>4 DEF Loud, CoreLoop, OnCoreIdle,
         ReleaseNotify, NotifyPossibleShutdown
  <2>3. \A p \in Procs : state'[p] # state[p] => state'[p] # "Absent"
    BY <1>2 DEF TypeOK, Loud, AcquireQueued, AcquireRoundRobin, AcquireNothing,
       Dispatch, MarkRunning, ExecContinue, ExecEnd, StoreHalted,
       AfterContinue, CoreLoop, OnCoreIdle, ReleasePreempt, OnPreempt, ReleaseNotify,
       NotifyPossibleShutdown
  <2> QED BY <2>1, <2>2, <2>3, InTableType DEF IdsInOrder, TableFilled, InTable
<1>3. CASE MainLoad
  <2>1. count + 1 \in Procs /\ count \in Nat
    BY <1>3, RoomInTable DEF MainLoad, TypeOK
  <2>2. InTable' = InTable \cup {count + 1}
    BY <1>3, <2>1 DEF MainLoad, Emplace, InTable
  <2> QED
    BY <1>3, <2>1, <2>2, InTableType
    DEF MainLoad, Emplace, TypeOK, IdsInOrder, TableFilled
<1>4. CASE MainLoadNotify \/ MainRun \/ MainReturn
  BY <1>4 DEF MainLoadNotify, MainRun, MainReturn, IdsInOrder, TableFilled, InTable
<1>5. ASSUME NEW p \in InTable, NEW k \in Kinds, MainStep(p, k)
      PROVE  IdsInOrder' /\ TableFilled'
  <2>1. p \in Procs BY InTableType
  <2> QED
    BY <1>5, <2>1 DEF MainStep, TypeOK, IdsInOrder, TableFilled, InTable
<1> QED BY <1>1, <1>2, <1>3, <1>4, <1>5, LoudOrQuiet DEF LoudOwner

\* A process gets a full slice with its core, and coreLoop preempts it when the
\* slice is used up.
LEMMA SliceStep ==
    ASSUME "Load" \notin Kinds, TypeOK, NoNullProcess, Exclusive, Ownership,
           SliceKept, Next
    PROVE  SliceKept'
<1> USE DEF tableVars, pcbVars, schedVars, coreVars, loadVars, mainVars, Woken
<1>1. CASE Quiet
  BY <1>1 DEF Quiet, SliceKept
<1>2. ASSUME NEW c \in Cores, NEW p \in InTable, Dispatch(c, p) PROVE SliceKept'
  BY <1>2, InTableType, ConstantsAssumption DEF Dispatch, ResetTimeSlice, TypeOK,
     SliceKept
<1>3. ASSUME NEW c \in Cores, ExecContinue(c) PROVE SliceKept'
  <2>1. held[c] \in Procs /\ slice' = Tick(held[c])
    BY <1>3 DEF TypeOK, NoNullProcess, HoldPCs, EndPCs, ExecContinue, Executing,
       AfterContinue
  <2>2. slice'[held[c]] \in 0..Quantum
    BY <2>1, TickType
  <2>3. \A d \in Cores \ {c} : held[d] # None => slice'[held[d]] = slice[held[d]]
    BY <2>1 DEF Exclusive, Tick, TypeOK
  <2> QED
    BY <1>3, <2>1, <2>2, <2>3, ConstantsAssumption
    DEF ExecContinue, Executing, Finished, AfterContinue, SliceKept, TypeOK
<1>4. ASSUME NEW c \in Cores, NEW k \in Kinds, ExecEnd(c, k) PROVE SliceKept'
  <2>1. held[c] \in Procs /\ (slice' = Tick(held[c]) \/ slice' = slice)
    BY <1>4 DEF TypeOK, NoNullProcess, HoldPCs, EndPCs, ExecEnd, Executing
  <2>2. \A d \in Cores \ {c} : held[d] # None => slice'[held[d]] = slice[held[d]]
    BY <2>1 DEF Exclusive, Tick, TypeOK
  <2> QED BY <1>4, <2>1, <2>2 DEF ExecEnd, SliceKept, TypeOK
<1>5. ASSUME NEW c \in Cores, AcquireNothing(c) \/ OnCoreIdle(c) PROVE SliceKept'
  <2>1. held[c] = None
    BY <1>5 DEF AcquireNothing, OnCoreIdle, Ownership, FreePCs
  <2> QED BY <1>5, <2>1 DEF AcquireNothing, OnCoreIdle, TypeOK, SliceKept
<1>10. ASSUME NEW c \in Cores, CoreLoop(c) \/ StoreHalted(c) PROVE SliceKept'
  BY <1>10 DEF CoreLoop, StoreHalted, LoopBranch, TypeOK, SliceKept
<1>11. ASSUME NEW c \in Cores, 
             ReleasePreempt(c) \/ ReleaseNotify(c) \/ NotifyPossibleShutdown(c)
      PROVE  SliceKept'
  BY <1>11 DEF ReleasePreempt, ReleaseNotify, NotifyPossibleShutdown, TypeOK, SliceKept
<1>6. CASE MainLoad
  BY <1>6 DEF MainLoad, Ownership, SliceKept
<1>7. CASE MainLoadNotify \/ MainRun \/ MainReturn
  BY <1>7 DEF MainLoadNotify, MainRun, MainReturn, TypeOK, Ownership, SliceKept
<1>8. ASSUME NEW p \in InTable, NEW k \in Kinds, MainStep(p, k) PROVE SliceKept'
  BY <1>8 DEF MainStep, Ownership, SliceKept
<1>9. ASSUME NEW c \in Cores, Loud(c) PROVE SliceKept'
  BY <1>2, <1>3, <1>4, <1>5, <1>9, <1>10, <1>11, ScanType
  DEF Loud, AcquireQueued, AcquireRoundRobin
<1> QED BY <1>1, <1>6, <1>7, <1>8, <1>9, LoudOrQuiet, OwnershipParts DEF LoudOwner

\* A process that is Running and on no core was so before the step, or its core
\* has just left coreLoop because it was asked to stop.
LeavesIt(p) ==
    \E c \in Cores :
        held[c] = p /\ stopRequested[c] /\ cpc[c] = "loop" /\ CoreLoop(c)

Uncored(p) == state[p] = "Running" /\ \A c \in Cores : held[c] # p

\* Whoever takes a process from a core stores its state: a Running process is
\* let go only by onPreempt, which makes it Ready, and by the loop head of a
\* core that is being stopped.
LEMMA LeftBehind ==
    ASSUME "Load" \notin Kinds, ~ClientSteps, TypeOK, RegionsAccounted,
           NoNullProcess, OwnsCycle, Next
    PROVE  \A p \in InTable' :
                state'[p] = "Running" /\ (\A c \in Cores : held'[c] # p) =>
                    /\ p \in InTable /\ state[p] = "Running"
                    /\ Uncored(p) \/ LeavesIt(p)
<1> DEFINE Behind == \A p \in 1..count' :
                state'[p] = "Running" /\ (\A c \in Cores : held'[c] # p) =>
                    /\ p \in 1..count /\ state[p] = "Running"
                    /\ Uncored(p) \/ LeavesIt(p)
<1> USE DEF tableVars, pcbVars, schedVars, coreVars, loadVars, mainVars, InTable
<1>1. CASE Quiet
  BY <1>1 DEF Quiet, Uncored
<1>2. ASSUME NEW c \in Cores, NEW q \in InTable, cpc[c] = "acquire", Dispatch(c, q)
      PROVE  Behind
  <2>1. held[c] = None
    BY <1>2 DEF OwnsCycle, FreePCs
  <2>2. /\ held' = [held EXCEPT ![c] = q]
        /\ state' = [state EXCEPT ![q] = "Running"] /\ count' = count
    BY <1>2 DEF Dispatch, MarkRunning
  <2>3. ASSUME NEW p \in InTable, state'[p] = "Running", \A d \in Cores : held'[d] # p
        PROVE  Uncored(p)
    <3>1. p # q
      BY <2>2, <2>3 DEF TypeOK
    <3>2. state[p] = "Running" /\ p # None
      BY <2>2, <2>3, <3>1, InTableType DEF TypeOK, None
    <3> QED BY <2>1, <2>2, <2>3, <3>2 DEF TypeOK, Uncored
  <2> QED BY <2>2, <2>3 DEF Uncored
<1>3. ASSUME NEW c \in Cores,
             ExecContinue(c) \/ StoreHalted(c) \/ \E k \in Kinds : ExecEnd(c, k)
      PROVE  Behind
  <2>1. /\ count' = count /\ held' = held
        /\ state' = state \/ state' = [state EXCEPT ![held[c]] = "Halted"]
    BY <1>3 DEF ExecContinue, ExecEnd, StoreHalted, AfterContinue, TypeOK
  <2>2. \A p \in InTable : state'[p] = "Running" => state[p] = "Running"
    BY <2>1, InTableType DEF TypeOK
  <2> QED BY <2>1, <2>2 DEF Uncored
<1>4. ASSUME NEW c \in Cores, AcquireNothing(c) \/ OnCoreIdle(c)
      PROVE  Behind
  BY <1>4 DEF AcquireNothing, OnCoreIdle, Uncored
<1>5. ASSUME NEW c \in Cores, CoreLoop(c) PROVE Behind
  <2>1. /\ count' = count /\ state' = state /\ cpc[c] = "loop"
        /\ held' = [held EXCEPT ![c] = IF stopRequested[c] THEN None ELSE @]
    BY <1>5 DEF CoreLoop
  <2>2. ASSUME NEW p \in InTable, state[p] = "Running",
               \A d \in Cores : held'[d] # p, ~Uncored(p)
        PROVE  LeavesIt(p)
    <3>1. PICK d \in Cores : held[d] = p
      BY <2>2 DEF Uncored
    <3>2. held'[d] # p
      BY <2>2
    <3>3. d = c /\ stopRequested[c]
      BY <2>1, <3>1, <3>2 DEF TypeOK
    <3> QED BY <1>5, <2>1, <3>1, <3>3 DEF LeavesIt
  <2> QED BY <2>1, <2>2 DEF Uncored
<1>6. ASSUME NEW c \in Cores, ReleaseNotify(c) \/ NotifyPossibleShutdown(c)
      PROVE  Behind
  <2>1. /\ state' = state /\ count' = count /\ state[held[c]] = "Halted"
        /\ held' = held \/ held' = [held EXCEPT ![c] = None]
    BY <1>6 DEF ReleaseNotify, NotifyPossibleShutdown, OwnsCycle, TypeOK
  <2> QED BY <2>1 DEF Uncored, TypeOK
<1>7. ASSUME NEW c \in Cores, ReleasePreempt(c) PROVE Behind
  <2>1. /\ count' = count /\ held' = [held EXCEPT ![c] = None]
        /\ state' = IF state[held[c]] = "Running"
                    THEN [state EXCEPT ![held[c]] = "Ready"] ELSE state
    BY <1>7 DEF ReleasePreempt, OnPreempt
  <2>2. \A p \in InTable : state'[p] = "Running" =>
            state[p] = "Running" /\ p # held[c]
    BY <2>1, InTableType DEF TypeOK
  <2> QED BY <2>1, <2>2 DEF Uncored, TypeOK
<1>8. CASE MainLoad
  <2>1. /\ count' = count + 1 /\ count \in Nat /\ held' = held
        /\ state' = [state EXCEPT ![count + 1] = "Ready"]
    BY <1>8 DEF MainLoad, Emplace, TypeOK
  <2>2. count + 1 \in Procs
    BY <1>8, RoomInTable DEF MainLoad
  <2>3. ASSUME NEW p \in 1..count + 1, state'[p] = "Running"
        PROVE  p \in 1..count /\ state[p] = "Running"
    <3>1. p # count + 1
      BY <2>1, <2>2, <2>3 DEF TypeOK
    <3>2. p \in 1..count
      BY <2>1, <3>1
    <3>3. p \in Procs
      BY <3>2, InTableType
    <3> QED BY <2>1, <2>3, <3>1, <3>2, <3>3 DEF TypeOK
  <2> QED BY <2>1, <2>3 DEF Uncored
<1>9. CASE MainLoadNotify \/ MainRun \/ MainReturn
  BY <1>9 DEF MainLoadNotify, MainRun, MainReturn, Uncored
<1>10. ASSUME NEW p \in InTable, NEW k \in Kinds, MainStep(p, k) PROVE FALSE
  BY <1>10 DEF MainStep
<1>11. ASSUME NEW c \in Cores, Loud(c) PROVE Behind
  <2>1. ASSUME AcquireQueued(c) \/ AcquireRoundRobin(c) PROVE Behind
    BY <1>2, <2>1, ScanType DEF AcquireQueued, AcquireRoundRobin
  <2> QED BY <1>3, <1>4, <1>5, <1>6, <1>7, <1>11, <2>1 DEF Loud
<1> QED BY <1>1, <1>8, <1>9, <1>10, <1>11, LoudOrQuiet DEF LoudOwner

\* As long as run() alone stops the cores, that is when nothing is Running.
LEMMA RunningStep ==
    ASSUME "Load" \notin Kinds, ~ClientSteps, TypeOK, RegionsAccounted,
           NoNullProcess, OwnsCycle, StopOnlyWhenHalted, StopFlagFresh,
           RunningIsHeld, Next
    PROVE  RunningIsHeld'
<1>1. ASSUME NEW p \in InTable, state[p] = "Running" PROVE ~Uncored(p) /\ ~LeavesIt(p)
  BY <1>1 DEF Uncored, LeavesIt, RunningIsHeld, StopFlagFresh, StopOnlyWhenHalted,
     Done
<1> QED BY <1>1, LeftBehind DEF RunningIsHeld

-----------------------------------------------------------------------------
(* The ready queue. *)

\* notifyProcessReady finds nothing to do but, inside loadProgram, the new process.
LEMMA UnqueuedReady ==
    ASSUME TypeOK, IdsInOrder
    PROVE  Unqueued(state) = {p \in InTable : p \notin Queued /\ state[p] = "Ready"}
<1>1. \A p \in InTable : id[p] = p
  BY DEF IdsInOrder
<1>2. \A p \in InTable : FirstReady(state, p, p) <=> state[p] = "Ready"
  BY <1>1 DEF FirstReady, TypeOK, InTable
<1> QED BY <1>1, <1>2 DEF Unqueued

LEMMA UnqueuedProcesses ==
    ASSUME TypeOK, IdsInOrder, QueueOfReady
    PROVE  /\ mpc # "load_notify" => Unqueued(state) = {}
           /\ Unqueued(state) \in {{}, {count}}
           /\ mpc = "load_notify" /\ NewUnqueued => Unqueued(state) = {count}
  BY UnqueuedReady DEF QueueOfReady, NewUnqueued, Queued

\* With nothing to append notifyProcessReady leaves the queue as it is.
LEMMA EnqueueNothing ==
    ASSUME TypeOK, Unqueued(state) = {}, EnqueueReady(state)
    PROVE  readyQueue' = readyQueue
<1>0. PICK n \in 0..MaxProcs : \E s \in [1..n -> Unqueued(state)] :
        readyQueue' = readyQueue \o [i \in 1..n |-> id[s[i]]]
  BY DEF EnqueueReady
<1>1. PICK s \in [1..n -> Unqueued(state)] :
        readyQueue' = readyQueue \o [i \in 1..n |-> id[s[i]]]
  BY <1>0
<1>2. n = 0
  BY ConstantsAssumption
<1>3. [i \in 1..n |-> id[s[i]]] = <<>>
  BY <1>2
<1>4. readyQueue \in Seq(Nat)
  BY DEF TypeOK
<1>5. readyQueue \o <<>> = readyQueue
  BY <1>4
<1> QED BY <1>1, <1>3, <1>5

\* One process to append goes to the end of the queue.
LEMMA EnqueueOne ==
    ASSUME TypeOK, NEW p \in Procs, Unqueued(state) = {p}, EnqueueReady(state)
    PROVE  readyQueue' = Append(readyQueue, id[p])
<1>0. PICK n \in 0..MaxProcs : \E s \in [1..n -> Unqueued(state)] :
        /\ \A i, j \in 1..n : i < j => s[i] < s[j]
        /\ \A q \in Unqueued(state) : \E i \in 1..n : s[i] = q
        /\ readyQueue' = readyQueue \o [i \in 1..n |-> id[s[i]]]
  BY DEF EnqueueReady
<1>1. PICK s \in [1..n -> Unqueued(state)] :
        /\ \A i, j \in 1..n : i < j => s[i] < s[j]
        /\ \A q \in Unqueued(state) : \E i \in 1..n : s[i] = q
        /\ readyQueue' = readyQueue \o [i \in 1..n |-> id[s[i]]]
  BY <1>0
<1>2. n \in Nat /\ p \in Nat
  BY ConstantsAssumption DEF Procs
<1>3. n # 0
  BY <1>1, <1>2
<1>4. ~(n >= 2)
  <2>1. SUFFICES ASSUME n >= 2 PROVE FALSE
    OBVIOUS
  <2>2. 1 \in 1..n /\ 2 \in 1..n
    BY <1>2, <2>1
  <2>3. s[1] = p /\ s[2] = p
    BY <2>2
  <2>4. s[1] < s[2]
    BY <1>1, <2>2
  <2> QED BY <1>2, <2>3, <2>4
<1>5. n = 1
  BY <1>2, <1>3, <1>4
<1>6. [i \in 1..n |-> id[s[i]]] = <<id[p]>>
  BY <1>5
<1>7. readyQueue \in Seq(Nat) /\ id[p] \in Nat
  BY DEF TypeOK
<1>8. readyQueue \o <<id[p]>> = Append(readyQueue, id[p])
  BY <1>7
<1> QED BY <1>1, <1>6, <1>8

\* pickNextProcess always takes the head of the queue: there are no stale
\* entries, and the round-robin fallback has nothing to do.
LEMMA HeadTaken ==
    ASSUME TypeOK, IdsInOrder, QueueOfReady, NEW c \in Cores
    PROVE  /\ AcquireQueued(c) =>
                /\ readyQueue # <<>> /\ readyQueue[1] \in InTable
                /\ state[readyQueue[1]] = "Ready"
                /\ Dispatch(c, readyQueue[1])
                /\ readyQueue' = Tail(readyQueue)
           /\ ~AcquireRoundRobin(c) /\ ~AcquireNothing(c)
<1>1. \A i \in DOMAIN readyQueue : ~Stale(readyQueue[i])
  BY DEF QueueOfReady, IdsInOrder, Stale
<1>2. ASSUME AcquireQueued(c)
      PROVE  /\ readyQueue # <<>> /\ readyQueue[1] \in InTable
             /\ state[readyQueue[1]] = "Ready"
             /\ Dispatch(c, readyQueue[1])
             /\ readyQueue' = Tail(readyQueue)
  <2>1. PICK k \in DOMAIN readyQueue : \E p \in InTable :
            /\ \A j \in 1..k - 1 : Stale(readyQueue[j])
            /\ FirstReady(state, readyQueue[k], p)
            /\ readyQueue' = SubSeq(readyQueue, k + 1, Len(readyQueue))
            /\ Dispatch(c, p)
    BY <1>2 DEF AcquireQueued
  <2>2. PICK p \in InTable :
            /\ \A j \in 1..k - 1 : Stale(readyQueue[j])
            /\ FirstReady(state, readyQueue[k], p)
            /\ readyQueue' = SubSeq(readyQueue, k + 1, Len(readyQueue))
            /\ Dispatch(c, p)
    BY <2>1
  <2>3. readyQueue \in Seq(Nat) /\ k \in 1..Len(readyQueue)
    BY DEF TypeOK
  <2>4. k = 1
    <3>1. SUFFICES ASSUME k # 1 PROVE FALSE
      OBVIOUS
    <3>2. 1 \in 1..k - 1 /\ 1 \in DOMAIN readyQueue
      BY <2>3, <3>1
    <3> QED BY <1>1, <2>2, <3>2
  <2>5. p = readyQueue[1] /\ state[p] = "Ready"
    BY <2>2, <2>4 DEF FirstReady, IdsInOrder
  <2>6. SubSeq(readyQueue, 2, Len(readyQueue)) = Tail(readyQueue)
    BY <2>3
  <2>7. readyQueue # <<>>
    BY <2>3
  <2> QED BY <2>2, <2>4, <2>5, <2>6, <2>7
<1>3. ~QueueStale
  <2>1. readyQueue # <<>> => 1 \in DOMAIN readyQueue
    BY DEF TypeOK
  <2> QED BY <1>1, <2>1 DEF QueueStale
<1> QED BY <1>2, <1>3 DEF AcquireRoundRobin, AcquireNothing

\* The process at the head leaves the queue as it becomes Running.
LEMMA HeadRemoved ==
    ASSUME TypeOK, QueueOfReady, readyQueue # <<>>, readyQueue[1] \in InTable,
           readyQueue' = Tail(readyQueue), mpc' = mpc, count' = count,
           state' = [state EXCEPT ![readyQueue[1]] = "Running"]
    PROVE  QueueOfReady'
<1> DEFINE q == readyQueue
<1>1. q \in Seq(Nat) /\ q # <<>> /\ q' = Tail(q)
  BY DEF TypeOK
<1>2. /\ DOMAIN q' = 1..Len(q) - 1 /\ DOMAIN q = 1..Len(q) /\ Len(q) \in Nat
      /\ \A i \in DOMAIN q' : i + 1 \in DOMAIN q /\ q'[i] = q[i + 1]
  BY <1>1
<1>3. \A i \in DOMAIN q : q[i] \in InTable /\ state[q[i]] = "Ready"
  BY DEF QueueOfReady
<1>4. \A i, j \in DOMAIN q : q[i] = q[j] => i = j
  BY DEF QueueOfReady
<1>5. \A p \in InTable : state[p] = "Ready" =>
        (\E i \in DOMAIN q : q[i] = p) \/ (mpc = "load_notify" /\ p = count)
  BY DEF QueueOfReady
<1>6. 1 \in DOMAIN q
  BY <1>1
<1>7. \A p \in InTable : state'[p] = IF p = q[1] THEN "Running" ELSE state[p]
  BY InTableType DEF TypeOK
<1> HIDE DEF q
<1>8. ASSUME NEW i \in DOMAIN q' PROVE q'[i] \in InTable /\ q'[i] # q[1]
  <2>1. i + 1 \in DOMAIN q /\ q'[i] = q[i + 1] /\ i + 1 # 1
    BY <1>2
  <2> QED BY <1>3, <1>4, <1>6, <2>1
<1>9. \A i, j \in DOMAIN q' : q'[i] = q'[j] => i = j
  BY <1>2, <1>4
<1>10. ASSUME NEW p \in InTable, state'[p] = "Ready",
              ~(mpc = "load_notify" /\ p = count)
       PROVE  \E i \in DOMAIN q' : q'[i] = p
  <2>1. p # q[1] /\ state[p] = "Ready"
    BY <1>7, <1>10
  <2>2. PICK i \in DOMAIN q : q[i] = p
    BY <1>5, <1>10, <2>1
  <2>3. i - 1 \in DOMAIN q' /\ (i - 1) + 1 = i
    BY <1>2, <2>1, <2>2
  <2> QED BY <1>2, <2>2, <2>3
<1>11. \A i \in DOMAIN q' : state'[q'[i]] = "Ready"
  BY <1>2, <1>3, <1>7, <1>8
<1> QED BY <1>8, <1>9, <1>10, <1>11 DEF QueueOfReady, InTable, q

\* A step that makes no process Ready, nor a Ready one something else, and leaves
\* the queue alone.
LEMMA QueueKept ==
    ASSUME QueueOfReady, readyQueue' = readyQueue, count' = count,
           (mpc' = "load_notify") <=> (mpc = "load_notify"),
           \A p \in InTable : state'[p] = "Ready" <=> state[p] = "Ready"
    PROVE  QueueOfReady'
  BY DEF QueueOfReady, InTable

\* A process goes to the end of the queue, where it was not yet: one that was
\* Running until now, or the one that loadProgram announces.
LEMMA QueueAppended ==
    ASSUME TypeOK, QueueOfReady, NEW p \in InTable,
           readyQueue' = Append(readyQueue, p), count' = count,
           mpc' = mpc \/ p = count,
           \A i \in DOMAIN readyQueue : readyQueue[i] # p,
           state'[p] = "Ready",
           \A q \in InTable \ {p} : state'[q] = state[q]
    PROVE  QueueOfReady'
<1> DEFINE q == readyQueue
           n == Len(readyQueue) + 1
<1>1. q \in Seq(Nat) /\ p \in Nat /\ q' = Append(q, p)
  BY ConstantsAssumption DEF TypeOK, InTable
<1>2. /\ DOMAIN q = 1..n - 1 /\ DOMAIN q' = 1..n /\ n \in Nat \ {0}
      /\ q'[n] = p /\ \A i \in DOMAIN q : q'[i] = q[i]
  BY <1>1
<1>3. \A i \in DOMAIN q : q[i] \in InTable /\ state[q[i]] = "Ready" /\ q[i] # p
  BY DEF QueueOfReady
<1>4. \A i, j \in DOMAIN q : q[i] = q[j] => i = j
  BY DEF QueueOfReady
<1>5. \A r \in InTable \ {p} : state[r] = "Ready" =>
        (\E i \in DOMAIN q : q[i] = r) \/ (mpc = "load_notify" /\ r = count)
  BY DEF QueueOfReady
<1> HIDE DEF q, n
<1>6. \A i \in DOMAIN q' : i = n \/ i \in DOMAIN q
  BY <1>2
<1>7. \A i \in DOMAIN q' : q'[i] \in InTable /\ state'[q'[i]] = "Ready"
  BY <1>2, <1>3, <1>6
<1>8. ASSUME NEW i \in DOMAIN q', NEW j \in DOMAIN q', q'[i] = q'[j] PROVE i = j
  <2>1. CASE i = n /\ j = n
    BY <2>1
  <2>2. CASE i # n /\ j # n
    BY <1>2, <1>4, <1>6, <1>8, <2>2
  <2>3. CASE i = n /\ j # n
    BY <1>2, <1>3, <1>6, <1>8, <2>3
  <2>4. CASE i # n /\ j = n
    BY <1>2, <1>3, <1>6, <1>8, <2>4
  <2> QED BY <2>1, <2>2, <2>3, <2>4
<1>9. ASSUME NEW r \in InTable, state'[r] = "Ready",
             ~(mpc' = "load_notify" /\ r = count)
      PROVE  \E i \in DOMAIN q' : q'[i] = r
  <2>1. CASE r = p
    BY <1>2, <2>1
  <2>2. CASE r # p
    <3>1. PICK i \in DOMAIN q : q[i] = r
      BY <1>5, <1>9, <2>2
    <3>2. i \in DOMAIN q'
      BY <1>2
    <3> QED BY <1>2, <3>1, <3>2
  <2> QED BY <2>1, <2>2
<1> QED BY <1>7, <1>8, <1>9 DEF QueueOfReady, InTable, q

\* notifyProcessReady leaves nobody out.
LEMMA QueueNotified ==
    ASSUME TypeOK, IdsInOrder, QueueOfReady, EnqueueReady(state),
           state' = state, count' = count
    PROVE  QueueOfReady'
<1>1. CASE Unqueued(state) = {}
  <2>1. readyQueue' = readyQueue
    BY <1>1, EnqueueNothing
  <2>2. \A p \in InTable : state[p] = "Ready" => \E i \in DOMAIN readyQueue : readyQueue[i] = p
    BY <1>1, UnqueuedReady DEF Queued
  <2> QED BY <2>1, <2>2 DEF QueueOfReady, InTable
<1>2. CASE Unqueued(state) = {count}
  <2>1. /\ count \in InTable /\ state[count] = "Ready"
        /\ \A i \in DOMAIN readyQueue : readyQueue[i] # count
    BY <1>2, UnqueuedReady DEF Queued
  <2>2. readyQueue' = Append(readyQueue, count)
    BY <1>2, <2>1, EnqueueOne, InTableType DEF IdsInOrder
  <2> QED BY <2>1, <2>2, QueueAppended
<1> QED BY <1>1, <1>2, UnqueuedProcesses

\* Every step keeps the queue equal to the set of announced Ready processes.
LEMMA QueueStep ==
    ASSUME "Load" \notin Kinds, ~ClientSteps, TypeOK, RegionsAccounted,
           NoNullProcess, OwnsCycle, IdsInOrder, TableFilled, QueueOfReady, Next
    PROVE  QueueOfReady'
<1> USE DEF tableVars, pcbVars, schedVars, coreVars, loadVars, mainVars
<1>1. CASE Quiet
  BY <1>1, QueueKept DEF Quiet
<1>2. ASSUME NEW c \in Cores, AcquireQueued(c) PROVE QueueOfReady'
  BY <1>2, HeadTaken, HeadRemoved DEF Dispatch, MarkRunning
<1>3. ASSUME NEW c \in Cores,
             ExecContinue(c) \/ StoreHalted(c) \/ \E k \in Kinds : ExecEnd(c, k)
      PROVE  QueueOfReady'
  <2>1. held[c] \in Procs /\ state[held[c]] # "Ready"
    <3>1. cpc[c] \in {"run", "ending"}
      BY <1>3 DEF ExecContinue, ExecEnd, StoreHalted, Executing
    <3>2. held[c] # None
      BY <3>1 DEF NoNullProcess, HoldPCs, EndPCs
    <3> QED BY <3>2, InTableType DEF OwnsCycle
  <2>2. /\ readyQueue' = readyQueue /\ count' = count /\ mpc' = mpc
        /\ state' = state \/ state' = [state EXCEPT ![held[c]] = "Halted"]
    BY <1>3 DEF ExecContinue, ExecEnd, StoreHalted, AfterContinue, TypeOK
  <2>3. \A p \in InTable : state'[p] = "Ready" <=> state[p] = "Ready"
    BY <2>1, <2>2, InTableType DEF TypeOK
  <2> QED BY <2>2, <2>3, QueueKept
<1>4. ASSUME NEW c \in Cores, CoreLoop(c) \/ NotifyPossibleShutdown(c)
      PROVE  QueueOfReady'
  BY <1>4, QueueKept DEF CoreLoop, NotifyPossibleShutdown, ShutdownNotified
<1>5. ASSUME NEW c \in Cores, OnCoreIdle(c) \/ ReleaseNotify(c)
      PROVE  QueueOfReady'
  BY <1>5, QueueNotified DEF OnCoreIdle, ReleaseNotify
<1>6. ASSUME NEW c \in Cores, ReleasePreempt(c) PROVE QueueOfReady'
  <2>1. mpc' = mpc /\ count' = count
    BY <1>6 DEF ReleasePreempt
  <2>2. held[c] \in InTable /\ held[c] \in Procs
    BY <1>6, InTableType DEF ReleasePreempt, NoNullProcess, HoldPCs, EndPCs, OwnsCycle
  <2>3. CASE state[held[c]] = "Running"
    <3>1. /\ readyQueue' = Append(readyQueue, held[c])
          /\ state' = [state EXCEPT ![held[c]] = "Ready"]
      BY <1>6, <2>2, <2>3 DEF ReleasePreempt, OnPreempt, IdsInOrder
    <3>2. \A i \in DOMAIN readyQueue : readyQueue[i] # held[c]
      BY <2>3 DEF QueueOfReady
    <3>3. \A q \in InTable \ {held[c]} : state'[q] = state[q]
      BY <3>1, InTableType DEF TypeOK
    <3> QED BY <2>1, <2>2, <3>1, <3>2, <3>3, QueueAppended DEF TypeOK
  <2>4. CASE state[held[c]] # "Running"
    BY <1>6, <2>1, <2>4, QueueKept DEF ReleasePreempt, OnPreempt
  <2> QED BY <2>3, <2>4
<1>7. CASE MainLoad
  <2>1. /\ count' = count + 1 /\ count \in Nat /\ count + 1 \in Procs
        /\ state' = [state EXCEPT ![count + 1] = "Ready"]
        /\ readyQueue' = readyQueue /\ mpc' = "load_notify" /\ mpc = "idle"
    BY <1>7, RoomInTable DEF MainLoad, Emplace, TypeOK
  <2>2. /\ InTable' = InTable \cup {count + 1} /\ count + 1 \notin InTable
        /\ state'[count + 1] = "Ready"
    BY <2>1 DEF InTable, TypeOK
  <2>3. \A p \in InTable : state'[p] = state[p]
    BY <2>1, <2>2, InTableType DEF TypeOK
  <2> QED BY <2>1, <2>2, <2>3 DEF QueueOfReady
<1>8. CASE MainLoadNotify \/ MainRun
  BY <1>8, QueueNotified DEF MainLoadNotify, MainRun
<1>10. CASE MainReturn
  BY <1>10, QueueKept DEF MainReturn
<1>11. ASSUME NEW c \in Cores, Loud(c) PROVE QueueOfReady'
  BY <1>2, <1>3, <1>4, <1>5, <1>6, <1>11, HeadTaken DEF Loud
<1> QED
  BY <1>1, <1>7, <1>8, <1>10, <1>11, LoudOrQuiet DEF LoudOwner, MainStep

\* While loadProgram runs on the owner thread there is no other.
LEMMA NewStep ==
    ASSUME "Load" \notin Kinds, ~ClientSteps, TypeOK, RegionsAccounted,
           NoNullProcess, Ownership, QueueOfReady, NewUnqueued, Next
    PROVE  NewUnqueued'
<1> USE DEF tableVars, pcbVars, schedVars, coreVars, loadVars, mainVars
<1>1. CASE Quiet
  BY <1>1 DEF Quiet, NewUnqueued, InTable
<1>2. CASE MainLoad
  <2>1. /\ count' = count + 1 /\ count \in Nat /\ count + 1 \in Procs
        /\ state' = [state EXCEPT ![count + 1] = "Ready"]
        /\ readyQueue' = readyQueue
    BY <1>2, RoomInTable DEF MainLoad, Emplace, TypeOK
  <2> QED BY <2>1 DEF NewUnqueued, QueueOfReady, InTable, TypeOK
<1>3. CASE MainLoadNotify \/ MainRun \/ MainReturn
  BY <1>3 DEF MainLoadNotify, MainRun, MainReturn, NewUnqueued
<1>4. ASSUME NEW c \in Cores, Loud(c) PROVE mpc' # "load_notify"
  <2>1. cpc[c] # "off"
    BY <1>4 DEF Loud, AcquireQueued, AcquireRoundRobin, AcquireNothing, ExecContinue,
       ExecEnd, Executing, StoreHalted, CoreLoop, OnCoreIdle, ReleasePreempt,
       ReleaseNotify, NotifyPossibleShutdown
  <2>2. mpc' \in {mpc, "check"}
    BY <1>4 DEF Loud, AcquireQueued, AcquireRoundRobin, AcquireNothing, Dispatch,
       ExecContinue, AfterContinue, ExecEnd, StoreHalted, CoreLoop, OnCoreIdle,
       ReleasePreempt, ReleaseNotify, NotifyPossibleShutdown, ShutdownNotified
  <2> QED BY <2>1, <2>2 DEF Ownership
<1> QED
  BY <1>1, <1>2, <1>3, <1>4, LoudOrQuiet, OwnershipParts
  DEF LoudOwner, MainStep, NewUnqueued

-----------------------------------------------------------------------------
(* The theorems. *)

\* If no guest uses the load call, no core starts an instruction on an exhausted
\* slice: acquireProcess refills it, coreLoop preempts when it is used up.
THEOREM SlicesLast ==
    ASSUME "Load" \notin Kinds
    PROVE  Spec => []SliceBound
<1>1. Init => SliceKept
  BY DEF Init, SliceKept
<1>2. /\ TypeOK /\ NoNullProcess /\ Exclusive /\ Ownership
      /\ SliceKept /\ [Next]_vars
      => SliceKept'
  <2>1. ASSUME SliceKept, UNCHANGED vars PROVE SliceKept'
    BY <2>1 DEF vars, pcbVars, coreVars, SliceKept
  <2> QED BY <2>1, SliceStep
<1>3. NoNullProcess /\ SliceKept => SliceBound
  BY DEF NoNullProcess, HoldPCs, EndPCs, SliceKept, SliceBound
<1> QED BY <1>1, <1>2, <1>3, TypeCorrect, ExclusiveCores, PTL DEF Spec

\* The ids are the table positions and the table has no holes, as long as only
\* the owner thread loads programs.
THEOREM TableInOrder ==
    ASSUME "Load" \notin Kinds
    PROVE  Spec => [](IdsInOrder /\ TableFilled)
<1>1. Init => IdsInOrder /\ TableFilled
  BY DEF Init, IdsInOrder, TableFilled, InTable
<1>2. /\ TypeOK /\ RegionsAccounted /\ NoNullProcess /\ Ownership
      /\ IdsInOrder /\ TableFilled /\ [Next]_vars
      => (IdsInOrder /\ TableFilled)'
  <2>1. ASSUME IdsInOrder, TableFilled, UNCHANGED vars
        PROVE  (IdsInOrder /\ TableFilled)'
    BY <2>1 DEF vars, tableVars, pcbVars, IdsInOrder, TableFilled, InTable
  <2> QED BY <2>1, TableStep, OwnershipParts
<1> QED BY <1>1, <1>2, TypeCorrect, CoresOwnProcesses, PTL DEF Spec

\* If no guest uses the load call and the owner does not single-step, a process
\* marked Running is on some core, also while the cores are being stopped.
THEOREM RunningAlwaysHeld ==
    ASSUME "Load" \notin Kinds, ~ClientSteps
    PROVE  Spec => []RunningIsHeld
<1>1. Init => RunningIsHeld /\ StopFlagFresh
  BY DEF Init, RunningIsHeld, StopFlagFresh, InTable
<1>2. /\ TypeOK /\ RegionsAccounted /\ NoNullProcess /\ Ownership
      /\ StopOnlyWhenHalted /\ StopFlagFresh /\ RunningIsHeld /\ [Next]_vars
      => (RunningIsHeld /\ StopFlagFresh)'
  <2>1. ASSUME RunningIsHeld, StopFlagFresh, UNCHANGED vars
        PROVE  (RunningIsHeld /\ StopFlagFresh)'
    BY <2>1 DEF vars, tableVars, pcbVars, coreVars, mainVars, RunningIsHeld,
       StopFlagFresh, InTable
  <2> QED BY <2>1, RunningStep, FlagStep, OwnershipParts
<1> QED
  BY <1>1, <1>2, TypeCorrect, CoresOwnProcesses, StopsWhenHalted, PTL DEF Spec

\* The inductive form of the next theorem.
LEMMA QueueInvariant ==
    ASSUME "Load" \notin Kinds, ~ClientSteps
    PROVE  Spec => [](QueueOfReady /\ NewUnqueued)
<1>1. Init => QueueOfReady /\ NewUnqueued
  BY DEF Init, QueueOfReady, NewUnqueued, InTable
<1>2. /\ TypeOK /\ RegionsAccounted /\ NoNullProcess /\ Ownership
      /\ IdsInOrder /\ TableFilled /\ QueueOfReady /\ NewUnqueued /\ [Next]_vars
      => (QueueOfReady /\ NewUnqueued)'
  <2>1. ASSUME QueueOfReady, NewUnqueued, UNCHANGED vars
        PROVE  (QueueOfReady /\ NewUnqueued)'
    BY <2>1 DEF vars, tableVars, pcbVars, schedVars, mainVars, QueueOfReady,
       NewUnqueued, InTable
  <2> QED BY <2>1, QueueStep, NewStep, OwnershipParts
<1> QED
  BY <1>1, <1>2, TypeCorrect, CoresOwnProcesses, TableInOrder, PTL DEF Spec

\* If no guest uses the load call and the owner does not single-step, the ready
\* queue holds the id of every announced Ready process once and nothing else:
\* nobody is forgotten and nobody gets two turns in a round.
THEOREM QueueAlwaysExact ==
    ASSUME "Load" \notin Kinds, ~ClientSteps
    PROVE  Spec => []QueueExact
<1>1. IdsInOrder /\ QueueOfReady => QueueExact
  BY DEF IdsInOrder, QueueOfReady, QueueExact, Queued, Stale
<1> QED BY <1>1, TableInOrder, QueueInvariant, PTL

-----------------------------------------------------------------------------
(* The refinement. *)

\* With ids equal to positions the line of RoundRobin is the ready queue and,
\* inside loadProgram, the process that is not announced yet.
LEMMA LineIsQueue ==
    TypeOK /\ IdsInOrder /\ QueueOfReady =>
        Line = IF mpc = "load_notify" THEN Append(readyQueue, count) ELSE readyQueue
<1> SUFFICES ASSUME TypeOK, IdsInOrder, QueueOfReady
             PROVE  Line = IF mpc = "load_notify" THEN Append(readyQueue, count)
                           ELSE readyQueue
  OBVIOUS
<1>1. \A i \in DOMAIN readyQueue : SlotOf(readyQueue[i]) = readyQueue[i]
  BY DEF IdsInOrder, QueueOfReady, SlotOf
<1>2. readyQueue \in Seq(Nat) /\ count \in Nat
  BY ConstantsAssumption DEF TypeOK
<1>3. [i \in DOMAIN readyQueue |-> SlotOf(readyQueue[i])] = readyQueue
  BY <1>1, <1>2
<1>4. /\ readyQueue \o <<>> = readyQueue
      /\ readyQueue \o <<count>> = Append(readyQueue, count)
  BY <1>2
<1> QED BY <1>3, <1>4 DEF Line

\* While a core has nothing fewer processes are Running than there are cores.
LEMMA CoreFree ==
    ASSUME TableFilled, RunningIsHeld, NEW c \in Cores, held[c] = None
    PROVE  Cardinality({p \in Procs : state[p] = "Running"}) < Cardinality(Cores)
<1> DEFINE R == {p \in Procs : state[p] = "Running"}
           core == [p \in R |-> CHOOSE d \in Cores : held[d] = p]
<1>1. \A p \in R : \E d \in Cores : held[d] = p
  BY DEF TableFilled, RunningIsHeld
<1>2. \A p \in R : core[p] \in Cores /\ held[core[p]] = p
  BY <1>1
<1>3. \A p \in R : core[p] # c
  BY <1>2 DEF None, Procs
<1>4. core \in [R -> Cores \ {c}] /\ \A p, q \in R : core[p] = core[q] => p = q
  BY <1>2, <1>3
<1>5. core \in Injection(R, Cores \ {c})
  BY <1>4 DEF Injection, IsInjective
<1>6. /\ IsFiniteSet(Cores \ {c}) /\ Cardinality(Cores) \in Nat
      /\ Cardinality(Cores \ {c}) = Cardinality(Cores) - 1
  BY FS_RemoveElement, FS_CardinalityType, ConstantsAssumption
<1>7. IsFiniteSet(R) /\ Cardinality(R) <= Cardinality(Cores \ {c})
  BY <1>5, <1>6, FS_Injection
<1> QED BY <1>6, <1>7, FS_CardinalityType

\* What the refinement needs to know of a state.
TurnsInv ==
    /\ TypeOK /\ RegionsAccounted /\ NoNullProcess
    /\ Exclusive /\ Ownership /\ StopOnlyWhenHalted
    /\ SliceBound /\ IdsInOrder /\ TableFilled /\ RunningIsHeld
    /\ QueueOfReady /\ NewUnqueued

\* Every step is a step of RoundRobin or changes nothing in its eyes.
LEMMA TurnsStep ==
    ASSUME "Load" \notin Kinds, ~ClientSteps, TurnsInv, TurnsInv', Next
    PROVE  Turns!Next \/ UNCHANGED Turns!vars
<1> USE DEF tableVars, pcbVars, schedVars, coreVars, loadVars, mainVars
<1> DEFINE on == mpc \notin {"idle", "load_notify"}
<1>0. /\ TypeOK /\ RegionsAccounted /\ NoNullProcess
      /\ Exclusive /\ Ownership /\ StopOnlyWhenHalted
      /\ SliceBound /\ IdsInOrder /\ TableFilled /\ RunningIsHeld
      /\ QueueOfReady /\ NewUnqueued
  BY DEF TurnsInv
<1>1. Line = IF mpc = "load_notify" THEN Append(readyQueue, count) ELSE readyQueue
  BY <1>0, LineIsQueue
<1>2. Line' = IF mpc' = "load_notify" THEN Append(readyQueue', count')
              ELSE readyQueue'
  <2>1. (TypeOK /\ IdsInOrder /\ QueueOfReady)'
    BY DEF TurnsInv
  <2>2. (TypeOK /\ IdsInOrder /\ QueueOfReady)' =>
            (Line = IF mpc = "load_notify" THEN Append(readyQueue, count)
                    ELSE readyQueue)'
    BY LineIsQueue, PTL
  <2> QED BY <2>1, <2>2
<1>3. \A c \in Cores : cpc[c] # "off" => on /\ mpc # "load_notify"
  BY <1>0 DEF Ownership
<1>4. \A c \in Cores : cpc[c] \in HoldPCs => held[c] \in Procs
  BY <1>0, InTableType DEF NoNullProcess, Ownership
<1>5. CASE Quiet
  BY <1>1, <1>2, <1>5 DEF Quiet, Turns!vars
<1>6. ASSUME NEW c \in Cores, AcquireQueued(c) PROVE Turns!Next
  <2> DEFINE p == readyQueue[1]
  <2>1. /\ readyQueue # <<>> /\ readyQueue' = Tail(readyQueue) /\ p \in Procs
        /\ Dispatch(c, p)
    BY <1>0, <1>6, HeadTaken, InTableType
  <2>2. mpc' = mpc /\ on /\ Line = readyQueue /\ Line' = readyQueue'
    BY <1>1, <1>2, <1>3, <1>6, <2>1 DEF AcquireQueued, Dispatch
  <2>3. Cardinality({q \in Procs : state[q] = "Running"}) < Cardinality(Cores)
    BY <1>0, <1>6, CoreFree DEF AcquireQueued, Ownership, FreePCs
  <2>4. Line # <<>> /\ p = Head(Line) /\ Line' = Tail(Line)
    BY <2>1, <2>2
  <2>5. /\ state' = [state EXCEPT ![p] = "Running"]
        /\ slice' = [slice EXCEPT ![p] = Quantum]
    BY <2>1 DEF Dispatch, MarkRunning, ResetTimeSlice
  <2> HIDE DEF p
  <2>6. Turns!Cardinality({q \in Procs : state[q] = "Running"}) =
            Cardinality({q \in Procs : state[q] = "Running"})
    BY DEF Turns!Cardinality, Cardinality
  <2>7. Turns!Dispatch(p)
    BY <2>2, <2>3, <2>4, <2>5, <2>6 DEF Turns!Dispatch
  <2> QED BY <2>1, <2>7 DEF Turns!Next
<1>7. ASSUME NEW c \in Cores, ExecContinue(c) PROVE Turns!Next
  <2>1. /\ held[c] \in Procs /\ state[held[c]] = "Running" /\ slice[held[c]] > 0
        /\ ~halted[held[c]]
    BY <1>0, <1>4, <1>7
    DEF ExecContinue, Executing, Finished, Ownership, NoNullProcess, HoldPCs,
        EndPCs, SliceBound
  <2>2. /\ state' = state /\ slice' = Tick(held[c]) /\ readyQueue' = readyQueue
        /\ count' = count /\ mpc' = mpc
    BY <1>7, <2>1 DEF ExecContinue, AfterContinue
  <2>3. slice' = [slice EXCEPT ![held[c]] = @ - 1] /\ Line' = Line
    BY <1>1, <1>2, <2>1, <2>2 DEF Tick
  <2> QED BY <2>1, <2>2, <2>3 DEF Turns!Next, Turns!Execute
<1>8. ASSUME NEW c \in Cores, NEW k \in Kinds, ExecEnd(c, k) PROVE Turns!Next
  <2>1. held[c] \in Procs /\ state[held[c]] = "Running" /\ slice[held[c]] > 0
    BY <1>0, <1>4, <1>8
    DEF ExecEnd, Executing, Finished, Ownership, NoNullProcess, HoldPCs, EndPCs,
        SliceBound
  <2>2. readyQueue' = readyQueue /\ count' = count /\ mpc' = mpc
    BY <1>8 DEF ExecEnd
  <2>3. Line' = Line
    BY <1>1, <1>2, <2>2
  <2>4. CASE k = "Exit"
    <3>1. state' = [state EXCEPT ![held[c]] = "Halted"] /\ slice' = slice
      BY <1>8, <2>4 DEF ExecEnd
    <3> QED BY <2>1, <2>2, <2>3, <3>1 DEF Turns!Next, Turns!Halt
  <2>5. CASE k # "Exit"
    <3>1. state' = state /\ slice' = Tick(held[c])
      BY <1>0, <1>8, <2>1, <2>5 DEF ExecEnd, TypeOK
    <3>2. slice' = [slice EXCEPT ![held[c]] = @ - 1]
      BY <2>1, <3>1 DEF Tick
    <3> QED BY <2>1, <2>2, <2>3, <3>1, <3>2 DEF Turns!Next, Turns!Execute
  <2> QED BY <2>4, <2>5
<1>16. ASSUME NEW c \in Cores, StoreHalted(c)
       PROVE  Turns!Next \/ UNCHANGED Turns!vars
  <2>1. held[c] \in Procs /\ state[held[c]] \in {"Running", "Halted"}
    BY <1>0, <1>4, <1>16
    DEF StoreHalted, HoldPCs, EndPCs, Ownership, NoNullProcess
  <2>2. /\ state' = [state EXCEPT ![held[c]] = "Halted"] /\ slice' = slice
        /\ readyQueue' = readyQueue /\ count' = count /\ mpc' = mpc
    BY <1>16 DEF StoreHalted
  <2>3. Line' = Line
    BY <1>1, <1>2, <2>2
  <2>4. CASE state[held[c]] = "Running"
    BY <2>1, <2>2, <2>3, <2>4 DEF Turns!Next, Turns!Halt
  <2>5. CASE state[held[c]] = "Halted"
    <3>1. state' = state
      BY <1>0, <2>1, <2>2, <2>5 DEF TypeOK
    <3> QED BY <2>2, <2>3, <3>1 DEF Turns!vars
  <2> QED BY <2>1, <2>4, <2>5
<1>9. ASSUME NEW c \in Cores,
             CoreLoop(c) \/ OnCoreIdle(c) \/ ReleaseNotify(c)
               \/ NotifyPossibleShutdown(c)
      PROVE  UNCHANGED Turns!vars
  <2>1. cpc[c] # "off"
    BY <1>9 DEF CoreLoop, OnCoreIdle, ReleaseNotify, NotifyPossibleShutdown
  <2>2. /\ state' = state /\ slice' = slice /\ count' = count
        /\ mpc' = mpc \/ (mpc = "waiting" /\ mpc' = "check")
    BY <1>9 DEF CoreLoop, OnCoreIdle, ReleaseNotify, NotifyPossibleShutdown,
       ShutdownNotified
  <2>3. readyQueue' = readyQueue
    BY <1>0, <1>3, <1>9, <2>1, UnqueuedProcesses, EnqueueNothing
    DEF CoreLoop, OnCoreIdle, ReleaseNotify, NotifyPossibleShutdown
  <2> QED BY <1>1, <1>2, <1>3, <2>1, <2>2, <2>3 DEF Turns!vars
<1>10. ASSUME NEW c \in Cores, ReleasePreempt(c)
       PROVE  Turns!Next \/ UNCHANGED Turns!vars
  <2>1. held[c] \in Procs /\ held[c] \in InTable /\ mpc # "load_notify"
    BY <1>0, <1>3, <1>4, <1>10
    DEF ReleasePreempt, HoldPCs, EndPCs, NoNullProcess, Ownership
  <2>2. mpc' = mpc /\ slice' = slice /\ OnPreempt(held[c])
    BY <1>10 DEF ReleasePreempt
  <2>3. Line = readyQueue /\ Line' = readyQueue' /\ id[held[c]] = held[c]
    BY <1>0, <1>1, <1>2, <2>1, <2>2 DEF IdsInOrder
  <2> QED
    BY <2>1, <2>2, <2>3 DEF OnPreempt, Turns!Next, Turns!EndTurn, Turns!vars
<1>11. CASE MainLoad
  <2>1. /\ count + 1 \in Procs /\ count \in Nat /\ mpc = "idle"
        /\ mpc' = "load_notify"
        /\ count' = count + 1 /\ readyQueue' = readyQueue
        /\ state' = [state EXCEPT ![count + 1] = "Ready"]
        /\ slice' = [slice EXCEPT ![count + 1] = Quantum]
    BY <1>0, <1>11, RoomInTable DEF MainLoad, Emplace, TypeOK
  <2>2. state[count + 1] = "Absent"
    BY <1>0, <2>1 DEF TableFilled, InTable
  <2>3. Line = readyQueue /\ Line' = Append(readyQueue, count + 1)
    BY <1>1, <1>2, <2>1
  <2> QED BY <2>1, <2>2, <2>3 DEF Turns!Next, Turns!Load
<1>12. CASE MainLoadNotify
  <2>1. /\ mpc = "load_notify" /\ mpc' = "idle" /\ count' = count
        /\ state' = state /\ slice' = slice /\ EnqueueReady(state)
    BY <1>12 DEF MainLoadNotify
  <2>2. count \in InTable /\ count \in Procs /\ id[count] = count
    BY <1>0, <2>1, InTableType DEF NewUnqueued, IdsInOrder
  <2>3. readyQueue' = Append(readyQueue, count)
    BY <1>0, <2>1, <2>2, UnqueuedProcesses, EnqueueOne
  <2> QED BY <1>1, <1>2, <2>1, <2>3 DEF Turns!vars
<1>13. CASE MainRun
  <2>1. /\ mpc = "idle" /\ mpc' = "start" /\ count' = count
        /\ state' = state /\ slice' = slice /\ EnqueueReady(state)
    BY <1>13 DEF MainRun
  <2>2. readyQueue' = readyQueue
    BY <1>0, <2>1, UnqueuedProcesses, EnqueueNothing
  <2> QED BY <1>1, <1>2, <2>1, <2>2 DEF Turns!Next, Turns!Start
<1>14. CASE MainReturn
  <2>1. /\ mpc = "join" /\ mpc' = "idle" /\ count' = count
        /\ state' = state /\ slice' = slice /\ readyQueue' = readyQueue
    BY <1>14 DEF MainReturn
  <2>2. \A p \in Procs : state[p] \in {"Absent", "Halted"}
    BY <1>0, <2>1 DEF StopOnlyWhenHalted, Done, TableFilled
  <2> QED BY <1>1, <1>2, <2>1, <2>2 DEF Turns!Next, Turns!Finish
<1>15. ASSUME NEW c \in Cores, Loud(c)
       PROVE  Turns!Next \/ UNCHANGED Turns!vars
  BY <1>0, <1>6, <1>7, <1>8, <1>9, <1>10, <1>15, <1>16, HeadTaken DEF Loud
<1> QED
  BY <1>0, <1>5, <1>11, <1>12, <1>13, <1>14, <1>15, LoudOrQuiet, OwnershipParts
  DEF LoudOwner, MainStep

\* If no guest uses the load call and the owner does not single-step, cores,
\* queue and notifications together implement RoundRobin: processes get turns in
\* the order in which they became Ready, at most one a core and at most Quantum
\* instructions long, and run() ends only when all have halted.
THEOREM RefinesRoundRobin ==
    ASSUME "Load" \notin Kinds, ~ClientSteps
    PROVE  Spec => ImplementsRoundRobin
<1>1. Init => Turns!Init
  BY DEF Init, Turns!Init, Line
<1>2. TurnsInv /\ TurnsInv' /\ [Next]_vars => [Turns!Next]_(Turns!vars)
  <2>1. ASSUME UNCHANGED vars PROVE UNCHANGED Turns!vars
    BY <2>1 DEF vars, tableVars, pcbVars, schedVars, mainVars, Turns!vars, Line,
       SlotOf, InTable
  <2> QED BY <2>1, TurnsStep
<1>3. Spec => []TurnsInv
  BY TypeCorrect, ExclusiveCores, StopsWhenHalted, SlicesLast, TableInOrder,
     RunningAlwaysHeld, QueueInvariant, PTL DEF TurnsInv
<1> QED BY <1>1, <1>2, <1>3, PTL DEF Spec, Turns!Spec, ImplementsRoundRobin
=============================================================================
