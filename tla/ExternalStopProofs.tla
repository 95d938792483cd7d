------------------------- MODULE ExternalStopProofs -------------------------
(***************************************************************************)
(* Proofs about ExternalStop: a second thread calls stop() at any time.    *)
(*                                                                         *)
(*   GuestsFreeze      nothing runs once stop() returned       (no steps)  *)
(*   NothingStranded   stop() loses no process but those its   (no load,   *)
(*                     cores were executing                     no steps)  *)
(*                                                                         *)
(* Every step is one of VirtualOS, for which the lemmas of VirtualOSProofs *)
(* and ScheduleProofs hold, or a step of stop() or run() that touches no   *)
(* process, no queue and nothing a core holds.                             *)
(***************************************************************************)
EXTENDS ExternalStop, ScheduleProofs

\* The values the new variables take.
StopTypes == /\ spc \in StopPCs /\ todo \subseteq Cores

\* A step of stop() or run() that is none of VirtualOS.
SideStep ==
    /\ UNCHANGED <<tableVars, pcbVars, readyQueue, roundRobinIndex, held,
                   loadVars, runs>>
    /\ schedRunning' \in {schedRunning, FALSE}
    /\ crashed' \in BOOLEAN
    /\ mpc' \in MainPCs
    /\ mpc' \in {"stop", "stop_notify", "stop_cores", "join"} => mpc' = mpc
    /\ mpc \in {"stop_cores", "join"} => mpc' = mpc
    /\ (mpc' = "load_notify") <=> (mpc = "load_notify")
    /\ stopRequested' \in [Cores -> BOOLEAN]
    /\ \A c \in Cores :
        \/ cpc'[c] = cpc[c]
        \/ cpc[c] = "blocked" /\ cpc'[c] = "acquire"
        \/ cpc[c] = "done" /\ cpc'[c] = "off"
    /\ cpc' \in [Cores -> CorePCs]

LEMMA StepOrSide ==
    ASSUME TypeOK, StopNext
    PROVE  Next \/ SideStep
<1> USE DEF vars, tableVars, pcbVars, schedVars, coreVars, loadVars, mainVars
<1>1. ASSUME \/ OwnerStop \/ OwnerOther \/ OwnerRun \/ Client
             \/ Spurious
             \/ \E c \in Cores : OwnerStart(c) \/ Core(c)
      PROVE  Next
  BY <1>1 DEF OwnerStop, OwnerOther, OwnerRun, Client, OwnerStart, Core, Next,
     OwnerStep, ClientCall
<1>2. ASSUME \/ OwnerStarted \/ OwnerEnter
             \/ \E c \in Cores : OwnerStartReturns(c)
      PROVE  SideStep
  BY <1>2 DEF OwnerStarted, OwnerEnter, OwnerStartReturns, SideStep, TypeOK, MainPCs
<1>3. ASSUME StopEnter \/ StopScheduler \/ StopStopped \/ DoubleJoin
      PROVE  SideStep
  BY <1>3 DEF StopEnter, StopScheduler, StopStopped, DoubleJoin, SideStep, TypeOK
<1>4. ASSUME StopNotify PROVE SideStep
  BY <1>4 DEF StopNotify, Woken, SideStep, TypeOK, CorePCs, FreePCs
<1>5. ASSUME NEW c \in Cores, StopCore(c) PROVE SideStep
  BY <1>5 DEF StopCore, SideStep, TypeOK
<1>6. ASSUME NEW c \in Cores, StopJoin(c) PROVE SideStep
  BY <1>6 DEF StopJoin, SideStep, TypeOK, CorePCs, FreePCs
<1>7. ASSUME StopReturn PROVE SideStep
  BY <1>7 DEF StopReturn, SideStep, TypeOK, MainPCs
<1> QED BY <1>1, <1>2, <1>3, <1>4, <1>5, <1>6, <1>7
        DEF StopNext, Owner, Stopper

\* Types, region accounting and absence of null processes survive stop().
LEMMA BaseStep ==
    ASSUME Inv, StopNext
    PROVE  Inv'
<1> USE DEF tableVars, pcbVars, loadVars
<1>1. CASE Next
  BY <1>1, TypeStep, AccountedStep, NoNullStep DEF Inv
<1>2. CASE SideStep
  <2>1. TypeOK'
    BY <1>2 DEF Inv, TypeOK, SideStep
  <2>2. RegionsAccounted'
    <3>1. Loading' = Loading
      BY <1>2 DEF Loading, SideStep
    <3> QED BY <1>2, <3>1 DEF Inv, RegionsAccounted, SideStep
  <2>3. NoNullProcess'
    BY <1>2 DEF Inv, NoNullProcess, SideStep, HoldPCs, EndPCs, LoadPCs
  <2> QED BY <2>1, <2>2, <2>3 DEF Inv
<1> QED BY <1>1, <1>2, StepOrSide DEF Inv

\* Only the second thread moves its program counter.
LEMMA StopperStep ==
    ASSUME StopTypes, StopNext
    PROVE  StopTypes'
<1> USE DEF StopTypes, StopPCs, stopVars
<1>1. ASSUME Owner \/ OwnerRun \/ Client PROVE UNCHANGED <<spc, todo>>
  BY <1>1 DEF Owner, OwnerStarted, OwnerEnter, OwnerStop, OwnerOther, OwnerStart,
     OwnerStartReturns, OwnerRun, Client
<1>2. ASSUME NEW c \in Cores, Core(c) PROVE UNCHANGED <<spc, todo>>
  BY <1>2 DEF Core
<1>3. ASSUME Stopper \/ StopEnter PROVE StopTypes'
  BY <1>3 DEF Stopper, StopEnter, StopScheduler, StopNotify, StopStopped,
     DoubleJoin, StopReturn, StopCore, StopJoin
<1> QED BY <1>1, <1>2, <1>3 DEF StopNext

-----------------------------------------------------------------------------
(* What a stopped machine does. *)

\* A core thread that waits for work or has left coreLoop holds no process.
FreeEmpty == \A c \in Cores : cpc[c] \in FreePCs => held[c] = None

LEMMA FreeStep ==
    ASSUME TypeOK, FreeEmpty, Next
    PROVE  FreeEmpty'
<1> USE DEF tableVars, pcbVars, schedVars, coreVars, loadVars, mainVars, Woken,
        FreePCs
<1>1. ASSUME NEW c \in Cores, AcquireProcess(c) PROVE FreeEmpty'
  BY <1>1 DEF TypeOK, FreeEmpty, AcquireProcess, AcquireStopped, AcquireWait,
     AcquireBlock, AcquireQueued, AcquireRoundRobin, AcquireNothing, Dispatch
<1>2. ASSUME NEW c \in Cores, LoadProgram(c) PROVE FreeEmpty'
  <2>1. ASSUME LoadAlloc(c) PROVE FreeEmpty'
    BY <2>1 DEF TypeOK, FreeEmpty, LoadAlloc
  <2>2. ASSUME LoadReadId(c) PROVE FreeEmpty'
    BY <2>2 DEF TypeOK, FreeEmpty, LoadReadId
  <2>3. ASSUME LoadWriteId(c) PROVE FreeEmpty'
    BY <2>3 DEF TypeOK, FreeEmpty, LoadWriteId
  <2>4. ASSUME LoadEmplace(c) PROVE FreeEmpty'
    BY <2>4 DEF TypeOK, FreeEmpty, LoadEmplace
  <2>5. ASSUME LoadSetReady(c) PROVE FreeEmpty'
    BY <2>5 DEF TypeOK, FreeEmpty, LoadSetReady
  <2>6. ASSUME LoadNotify(c) PROVE FreeEmpty'
    BY <2>6 DEF TypeOK, FreeEmpty, LoadNotify
  <2>7. ASSUME LoadReturn(c) PROVE FreeEmpty'
    BY <2>7 DEF TypeOK, FreeEmpty, LoadReturn, AfterContinue
  <2> QED
    BY <1>2, <2>1, <2>2, <2>3, <2>4, <2>5, <2>6, <2>7 DEF LoadProgram
<1>3. ASSUME NEW c \in Cores, ExecuteInstruction(c) PROVE FreeEmpty'
  BY <1>3 DEF TypeOK, FreeEmpty, ExecuteInstruction, Executing,
     ExecContinue, ExecYield, ExecThrow, ExecLoad, ExecEnd, AfterContinue
<1>4. ASSUME NEW c \in Cores,
             CoreLoop(c) \/ CoreIdleStop(c) \/ OnCoreIdle(c) \/ CoreSkip(c)
      PROVE  FreeEmpty'
  BY <1>4 DEF TypeOK, FreeEmpty, CoreLoop, LoopBranch, CoreIdleStop,
     OnCoreIdle, CoreSkip
<1>5. ASSUME NEW c \in Cores,
             \/ StoreHalted(c) \/ ReleaseProcess(c) \/ ReleaseReady(c)
             \/ ReleasePreempt(c) \/ ReleaseNotify(c) \/ NotifyPossibleShutdown(c)
      PROVE  FreeEmpty'
  <2>1. ASSUME StoreHalted(c) PROVE FreeEmpty'
    BY <2>1 DEF TypeOK, FreeEmpty, StoreHalted
  <2>2. ASSUME ReleaseProcess(c) PROVE FreeEmpty'
    BY <2>2 DEF TypeOK, FreeEmpty, ReleaseProcess, ReleaseTo
  <2>3. ASSUME ReleaseReady(c) PROVE FreeEmpty'
    BY <2>3 DEF TypeOK, FreeEmpty, ReleaseReady
  <2>4. ASSUME ReleasePreempt(c) PROVE FreeEmpty'
    BY <2>4 DEF TypeOK, FreeEmpty, ReleasePreempt
  <2>5. ASSUME ReleaseNotify(c) PROVE FreeEmpty'
    BY <2>5 DEF TypeOK, FreeEmpty, ReleaseNotify
  <2>6. ASSUME NotifyPossibleShutdown(c) PROVE FreeEmpty'
    BY <2>6 DEF TypeOK, FreeEmpty, NotifyPossibleShutdown
  <2> QED
    BY <1>5, <2>1, <2>2, <2>3, <2>4, <2>5, <2>6
<1>6. ASSUME OwnerStep PROVE FreeEmpty'
  BY <1>6 DEF TypeOK, FreeEmpty, OwnerStep, MainLoadNotify, MainStarted,
     MainCheck, MainStopScheduler, MainStopNotify, MainStopped, MainReturn,
     MainStart, MainStopCore, MainJoin
<1>7. ASSUME ClientCall PROVE FreeEmpty'
  BY <1>7 DEF TypeOK, FreeEmpty, ClientCall, MainLoad, MainLoadFails, MainRun,
     MainStepLoad, MainStepLoadFails, MainStep
<1>8. ASSUME Spurious PROVE FreeEmpty'
  BY <1>8 DEF TypeOK, FreeEmpty, Spurious, MainSpuriousWake, SpuriousWake
<1> QED
  BY <1>1, <1>2, <1>3, <1>4, <1>5, <1>6, <1>7, <1>8 DEF Next, CoreStep

\* Once running_ of the scheduler is false, it stays so, and a core without a
\* process gets none, not even one that run() starts after that.
LEMMA EmptyStays ==
    ASSUME TypeOK, Next, ~schedRunning
    PROVE  /\ ~schedRunning'
           /\ \A d \in Cores : held[d] = None => held'[d] = None
<1> USE DEF tableVars, pcbVars, schedVars, coreVars, loadVars, mainVars, TypeOK
<1> DEFINE P == /\ ~schedRunning'
                /\ \A d \in Cores : held[d] = None => held'[d] = None
<1>1. ASSUME NEW c \in Cores, AcquireProcess(c) PROVE P
  BY <1>1 DEF AcquireProcess, AcquireStopped, AcquireWait, AcquireBlock,
     AcquireQueued, AcquireRoundRobin, AcquireNothing
<1>2. ASSUME NEW c \in Cores, LoadProgram(c) PROVE P
  BY <1>2 DEF LoadProgram, LoadAlloc, LoadReadId, LoadWriteId, LoadEmplace,
     LoadSetReady, LoadNotify, LoadReturn, AfterContinue
<1>3. ASSUME NEW c \in Cores, ExecuteInstruction(c) PROVE P
  BY <1>3 DEF ExecuteInstruction, ExecContinue, ExecYield, ExecThrow, ExecLoad,
     ExecEnd, AfterContinue
<1>4. ASSUME NEW c \in Cores,
             CoreLoop(c) \/ CoreIdleStop(c) \/ OnCoreIdle(c) \/ CoreSkip(c)
      PROVE  P
  BY <1>4 DEF CoreLoop, CoreIdleStop, OnCoreIdle, CoreSkip
<1>5. ASSUME NEW c \in Cores,
             \/ StoreHalted(c) \/ ReleaseProcess(c) \/ ReleaseReady(c)
             \/ ReleasePreempt(c) \/ ReleaseNotify(c) \/ NotifyPossibleShutdown(c)
      PROVE  P
  BY <1>5 DEF StoreHalted, ReleaseProcess, ReleaseReady, ReleasePreempt,
     ReleaseNotify, NotifyPossibleShutdown
<1>6. ASSUME OwnerStep PROVE P
  BY <1>6 DEF OwnerStep, MainLoadNotify, MainStarted, MainCheck,
     MainStopScheduler, MainStopNotify, MainStopped, MainReturn, MainStart,
     MainStopCore, MainJoin
<1>7. ASSUME ClientCall PROVE P
  BY <1>7 DEF ClientCall, MainLoad, MainLoadFails, MainRun, MainStepLoad,
     MainStepLoadFails, MainStep
<1>8. ASSUME Spurious PROVE P
  BY <1>8 DEF Spurious, MainSpuriousWake, SpuriousWake
<1> QED
  BY <1>1, <1>2, <1>3, <1>4, <1>5, <1>6, <1>7, <1>8 DEF Next, CoreStep

\* How far stop() has brought the machine to rest: first pickNextProcess hands out
\* nothing any more, then the cores it has joined hold nothing, then no core does.
AtRest ==
    /\ spc \in {"notify", "cores", "join", "returned"} => ~schedRunning
    /\ spc = "join" => \A c \in Cores \ todo : held[c] = None
    /\ spc = "returned" => \A c \in Cores : held[c] = None

LEMMA AtRestStep ==
    ASSUME TypeOK, StopTypes, FreeEmpty, AtRest, StopNext
    PROVE  AtRest'
<1> USE DEF StopTypes, StopPCs, AtRest, vars, schedVars, coreVars, stopVars
<1>1. ASSUME Next, UNCHANGED <<spc, todo>> PROVE AtRest'
  BY <1>1, EmptyStays
<1>2. ASSUME OwnerStop \/ OwnerOther \/ OwnerRun \/ Client
      PROVE  Next /\ UNCHANGED <<spc, todo>>
  BY <1>2 DEF OwnerStop, OwnerOther, OwnerRun, Client, Next, OwnerStep, ClientCall
<1>3. ASSUME NEW c \in Cores, OwnerStart(c) \/ Core(c)
      PROVE  Next /\ UNCHANGED <<spc, todo>>
  BY <1>3 DEF OwnerStart, Core, Next, OwnerStep
<1>4. ASSUME Spurious /\ UNCHANGED stopVars
      PROVE  Next /\ UNCHANGED <<spc, todo>>
  BY <1>4 DEF Next
<1>5. ASSUME \/ OwnerStarted \/ OwnerEnter \/ StopEnter \/ StopScheduler
             \/ StopNotify \/ StopStopped \/ DoubleJoin \/ StopReturn
             \/ \E c \in Cores : OwnerStartReturns(c)
      PROVE  AtRest'
  BY <1>5 DEF OwnerStarted, OwnerStartReturns, OwnerEnter, StopEnter, StopScheduler, StopNotify,
     StopStopped, DoubleJoin, StopReturn
<1>6. ASSUME NEW c \in Cores, StopCore(c) PROVE AtRest'
  BY <1>6 DEF StopCore
<1>7. ASSUME NEW c \in Cores, StopJoin(c) PROVE AtRest'
  <2>1. held[c] = None
    BY <1>7 DEF StopJoin, Joined, FreeEmpty, FreePCs
  <2> QED BY <1>7, <2>1 DEF StopJoin
<1> QED BY <1>1, <1>2, <1>3, <1>4, <1>5, <1>6, <1>7 DEF StopNext, Owner, Stopper

\* A step of a machine whose cores hold nothing touches no process of the table.
LEMMA FrozenStep ==
    ASSUME ~ClientSteps, Inv, \A c \in Cores : held[c] = None, ~schedRunning,
           Next, NEW p \in InTable
    PROVE  state'[p] = state[p] /\ slice'[p] = slice[p]
<1> USE DEF tableVars, pcbVars, schedVars, coreVars, loadVars, mainVars
<1>0. \A c \in Cores : cpc[c] \notin HoldPCs \cup LoadPCs
  BY DEF Inv, NoNullProcess
<1>1. ASSUME NEW c \in Cores, AcquireProcess(c)
      PROVE  UNCHANGED <<state, slice>>
  BY <1>1 DEF AcquireProcess, AcquireStopped, AcquireWait, AcquireBlock,
     AcquireQueued, AcquireRoundRobin, AcquireNothing
<1>2. ASSUME NEW c \in Cores,
             \/ LoadProgram(c) \/ ExecuteInstruction(c) \/ CoreSkip(c)
             \/ StoreHalted(c) \/ ReleaseProcess(c) \/ ReleaseReady(c)
             \/ ReleasePreempt(c) \/ ReleaseNotify(c) \/ NotifyPossibleShutdown(c)
      PROVE  FALSE
  BY <1>0, <1>2 DEF HoldPCs, EndPCs, LoadPCs, LoadProgram, LoadAlloc, LoadReadId,
     LoadWriteId, LoadEmplace, LoadSetReady, LoadNotify, LoadReturn,
     ExecuteInstruction, Executing, ExecContinue, ExecYield, ExecThrow, ExecLoad,
     ExecEnd, CoreSkip, StoreHalted, ReleaseProcess, ReleaseReady, ReleasePreempt,
     ReleaseNotify, NotifyPossibleShutdown
<1>3. ASSUME NEW c \in Cores, CoreLoop(c) \/ CoreIdleStop(c) \/ OnCoreIdle(c)
      PROVE  UNCHANGED <<state, slice>>
  BY <1>3 DEF CoreLoop, CoreIdleStop, OnCoreIdle
<1>4. ASSUME OwnerStep \/ Spurious \/ MainRun \/ MainLoadFails
      PROVE  UNCHANGED <<state, slice>>
  BY <1>4 DEF OwnerStep, MainLoadNotify, MainStarted, MainCheck,
     MainStopScheduler, MainStopNotify, MainStopped, MainReturn, MainStart,
     MainStopCore, MainJoin, Spurious, MainSpuriousWake, SpuriousWake, MainRun,
     MainLoadFails
<1>5. CASE MainLoad
  <2>1. p # count + 1
    BY DEF Inv, TypeOK, InTable
  <2> QED BY <1>5, <2>1 DEF MainLoad, Emplace, Inv, TypeOK
<1>6. ASSUME NEW q \in InTable,
             \/ MainStepLoad(q) \/ MainStepLoadFails(q)
             \/ \E k \in Kinds : MainStep(q, k)
      PROVE  FALSE
  BY <1>6 DEF MainStepLoad, MainStepLoadFails, MainStep
<1> QED
  BY <1>1, <1>2, <1>3, <1>4, <1>5, <1>6 DEF Next, CoreStep, ClientCall

LEMMA FreeEmptyStep ==
    ASSUME TypeOK, FreeEmpty, StopNext
    PROVE  FreeEmpty'
<1>1. CASE SideStep
  BY <1>1 DEF SideStep, FreeEmpty, FreePCs
<1> QED BY <1>1, FreeStep, StepOrSide

RestInv == Inv /\ StopTypes /\ FreeEmpty /\ AtRest

LEMMA RestInvariant == StopSpec => []RestInv
<1>1. StopInit => RestInv
  <2>1. Init => Inv
    BY InitInv
  <2> QED BY <2>1 DEF StopInit, RestInv, StopTypes, StopPCs, FreeEmpty, AtRest, Init
<1>2. RestInv /\ [StopNext]_allVars => RestInv'
  <2>1. ASSUME RestInv, UNCHANGED allVars PROVE RestInv'
    <3>1. Inv'
      BY <2>1, InvStutter DEF RestInv, allVars
    <3> QED BY <2>1, <3>1 DEF RestInv, StopTypes, FreeEmpty, AtRest, allVars,
            stopVars, vars, schedVars, coreVars
  <2>2. ASSUME RestInv, StopNext PROVE RestInv'
    BY <2>2, BaseStep, StopperStep, FreeEmptyStep, AtRestStep DEF RestInv, Inv
  <2> QED BY <2>1, <2>2
<1> QED BY <1>1, <1>2, PTL DEF StopSpec

\* For any number of cores and processes, load calls included: when stop() has
\* returned, no process executes another instruction or changes its state, even
\* if run() starts its cores after that.
THEOREM GuestsFreeze ==
    ASSUME ~ClientSteps
    PROVE  StopSpec => StopFreezes
<1> DEFINE Frozen == spc = "returned" =>
                \A p \in InTable : state'[p] = state[p] /\ slice'[p] = slice[p]
<1>1. RestInv /\ [StopNext]_allVars => [Frozen]_allVars
  <2> SUFFICES ASSUME RestInv, StopNext, spc = "returned", NEW p \in InTable
               PROVE  state'[p] = state[p] /\ slice'[p] = slice[p]
    OBVIOUS
  <2>1. Inv /\ ~schedRunning /\ \A c \in Cores : held[c] = None
    BY DEF RestInv, AtRest
  <2>2. CASE Next
    BY <2>1, <2>2, FrozenStep
  <2>3. CASE SideStep
    BY <2>3 DEF SideStep, pcbVars
  <2> QED BY <2>1, <2>2, <2>3, StepOrSide DEF Inv
<1>2. StopSpec => [][Frozen]_allVars
  BY <1>1, RestInvariant, PTL DEF StopSpec
<1> QED BY <1>2 DEF StopFreezes

-----------------------------------------------------------------------------
(* What a stopped core leaves behind. *)

\* Where the machine is when a process can get a core, and when one can be left
\* behind: a core gets a process only in the first run, before which there is no
\* core thread; processes are Running only inside a run, and not on a core that
\* this run has still to start.
OnlyFirstRun ==
    /\ schedRunning =>
        /\ mpc \notin {"stop_notify", "stop_cores", "join"}
        /\ osRunning \/ mpc \in {"idle", "load_notify"}
        /\ \A c \in starting : cpc[c] = "off"
        /\ mpc \in {"idle", "load_notify"} => \A c \in Cores : cpc[c] = "off"
    /\ mpc \in {"idle", "load_notify"} => \A p \in InTable : state[p] # "Running"
    /\ starting \subseteq Cores
    /\ \A c \in starting : held[c] # None => state[held[c]] # "Running"

\* At most one process was left behind by each stopped core.
FewStranded == Cardinality(Stranded) <= Cardinality(StoppedCores)

\* How the owner thread and running_ move.
LEMMA OwnerMoves ==
    ASSUME TypeOK, ~ClientSteps, StopNext
    PROVE  /\ \/ mpc' \notin {"stop_notify", "stop_cores", "join"}
              \/ mpc \in {"stop_notify", "stop_cores", "join"} \/ ~schedRunning'
           /\ mpc' \notin {"idle", "load_notify"} =>
                mpc \notin {"idle", "load_notify"} \/ osRunning'
           /\ osRunning => osRunning' \/ ~schedRunning'
           /\ mpc' \in {"idle", "load_notify"} =>
                \/ mpc \in {"idle", "load_notify", "join"}
                \/ mpc = "stop" /\ ~osRunning
           /\ starting' \subseteq starting \/ (OwnerRun /\ starting' = Cores)
<1> USE DEF tableVars, pcbVars, schedVars, coreVars, loadVars, mainVars, vars,
            stopVars
<1> DEFINE P ==
           /\ \/ mpc' \notin {"stop_notify", "stop_cores", "join"}
              \/ mpc \in {"stop_notify", "stop_cores", "join"} \/ ~schedRunning'
           /\ mpc' \notin {"idle", "load_notify"} =>
                mpc \notin {"idle", "load_notify"} \/ osRunning'
           /\ osRunning => osRunning' \/ ~schedRunning'
           /\ mpc' \in {"idle", "load_notify"} =>
                \/ mpc \in {"idle", "load_notify", "join"}
                \/ mpc = "stop" /\ ~osRunning
           /\ starting' \subseteq starting \/ (OwnerRun /\ starting' = Cores)
<1>1. ASSUME NEW c \in Cores, Core(c) PROVE P
  <2>1. mpc' = mpc \/ (mpc = "waiting" /\ mpc' = "check")
    <3>1. ASSUME AcquireProcess(c) \/ LoadProgram(c) \/ ExecuteInstruction(c)
          PROVE  mpc' = mpc
      BY <3>1 DEF AcquireProcess, AcquireStopped, AcquireWait, AcquireBlock,
         AcquireQueued, AcquireRoundRobin, AcquireNothing, Dispatch, LoadProgram,
         LoadAlloc, LoadReadId, LoadWriteId, LoadEmplace, LoadSetReady, LoadNotify,
         LoadReturn, AfterContinue, ExecuteInstruction, ExecContinue, ExecYield,
         ExecThrow, ExecLoad, ExecEnd
    <3> QED
      BY <1>1, <3>1 DEF Core, CoreStep, CoreLoop, CoreIdleStop, OnCoreIdle, CoreSkip,
         StoreHalted, ReleaseProcess, ReleaseReady, ReleasePreempt, ReleaseNotify,
         NotifyPossibleShutdown, ShutdownNotified
  <2> QED BY <1>1, <2>1 DEF Core
<1>2. CASE Client
  BY <1>2 DEF Client, MainLoad, MainLoadFails, MainStepLoad, MainStepLoadFails,
     MainStep
<1>3. CASE OwnerRun
  BY <1>3 DEF OwnerRun, MainRun
<1>4. CASE OwnerOther
  BY <1>4 DEF OwnerOther, MainLoadNotify, MainCheck, MainStopNotify, MainStopped,
     MainReturn, MainStopCore, MainJoin
<1>5. CASE OwnerStarted \/ OwnerEnter \/ OwnerStop
  BY <1>5 DEF OwnerStarted, OwnerEnter, OwnerStop, MainStopScheduler
<1>6. ASSUME NEW c \in Cores, OwnerStart(c) \/ OwnerStartReturns(c) PROVE P
  BY <1>6 DEF OwnerStart, OwnerStartReturns, MainStart
<1>7. CASE Stopper \/ StopEnter
  BY <1>7 DEF Stopper, StopEnter, StopScheduler, StopNotify, StopStopped,
     DoubleJoin, StopReturn, StopCore, StopJoin
<1>8. CASE Spurious /\ UNCHANGED stopVars
  BY <1>8 DEF Spurious, MainSpuriousWake, SpuriousWake
<1> QED BY <1>1, <1>2, <1>3, <1>4, <1>5, <1>6, <1>7, <1>8 DEF StopNext, Owner

\* A core thread that has ended begins anew only in the loop of run(), and only
\* that takes back the request to stop.
LEMMA EndedStays ==
    ASSUME TypeOK, StopNext, NEW c \in Cores, cpc[c] \in {"off", "done"},
           mpc # "start" \/ (c \in starting => c \in starting')
    PROVE  /\ cpc'[c] \in {"off", "done"} /\ (cpc[c] = "off" => cpc'[c] = "off")
           /\ stopRequested[c] => stopRequested'[c]
<1> USE DEF tableVars, pcbVars, schedVars, coreVars, loadVars, mainVars, vars,
            stopVars, TypeOK
<1> DEFINE P ==
           /\ cpc'[c] \in {"off", "done"} /\ (cpc[c] = "off" => cpc'[c] = "off")
           /\ stopRequested[c] => stopRequested'[c]
<1>1. ASSUME NEW d \in Cores, AcquireProcess(d) PROVE P
  BY <1>1 DEF AcquireProcess, AcquireStopped, AcquireWait, AcquireBlock,
     AcquireQueued, AcquireRoundRobin, AcquireNothing, Dispatch
<1>2. ASSUME NEW d \in Cores, LoadProgram(d) PROVE P
  BY <1>2 DEF LoadProgram, LoadAlloc, LoadReadId, LoadWriteId, LoadEmplace,
     LoadSetReady, LoadNotify, LoadReturn, AfterContinue, Woken
<1>3. ASSUME NEW d \in Cores, ExecuteInstruction(d) PROVE P
  BY <1>3 DEF ExecuteInstruction, Executing, ExecContinue, ExecYield, ExecThrow,
     ExecLoad, ExecEnd, AfterContinue
<1>4. ASSUME NEW d \in Cores,
             CoreLoop(d) \/ CoreIdleStop(d) \/ OnCoreIdle(d) \/ CoreSkip(d)
      PROVE  P
  BY <1>4 DEF CoreLoop, CoreIdleStop, OnCoreIdle, CoreSkip, Woken
<1>5. ASSUME NEW d \in Cores,
             \/ StoreHalted(d) \/ ReleaseProcess(d) \/ ReleaseReady(d)
             \/ ReleasePreempt(d) \/ ReleaseNotify(d) \/ NotifyPossibleShutdown(d)
      PROVE  P
  BY <1>5 DEF StoreHalted, ReleaseProcess, ReleaseTo, ReleaseReady, ReleasePreempt,
     ReleaseNotify, NotifyPossibleShutdown, Woken
<1>6. ASSUME NEW d \in Cores, Core(d) PROVE P
  BY <1>1, <1>2, <1>3, <1>4, <1>5, <1>6 DEF Core, CoreStep
<1>7. CASE Client \/ OwnerRun
  BY <1>7 DEF Client, MainLoad, MainLoadFails, MainStepLoad, MainStepLoadFails,
     MainStep, OwnerRun, MainRun, Woken
<1>8. CASE OwnerOther
  BY <1>8 DEF OwnerOther, MainLoadNotify, MainCheck, MainStopNotify, MainStopped,
     MainReturn, MainStopCore, MainJoin, Woken
<1>9. CASE OwnerStarted \/ OwnerEnter \/ OwnerStop
  BY <1>9 DEF OwnerStarted, OwnerEnter, OwnerStop, MainStopScheduler
<1>10. ASSUME NEW d \in Cores, OwnerStart(d) \/ OwnerStartReturns(d) PROVE P
  BY <1>10 DEF OwnerStart, OwnerStartReturns, MainStart
<1>11. CASE Stopper \/ StopEnter
  BY <1>11 DEF Stopper, StopEnter, StopScheduler, StopNotify, StopStopped,
     DoubleJoin, StopReturn, StopCore, StopJoin, Woken
<1>12. CASE Spurious /\ UNCHANGED stopVars
  BY <1>12 DEF Spurious, MainSpuriousWake, SpuriousWake
<1> QED BY <1>6, <1>7, <1>8, <1>9, <1>10, <1>11, <1>12 DEF StopNext, Owner

\* Only pickNextProcess makes a process Running or gives it to a core.
LEMMA OnlyDispatch ==
    ASSUME "Load" \notin Kinds, ~ClientSteps, TypeOK, RegionsAccounted,
           NoNullProcess, OwnsCycle, Next
    PROVE  \/ /\ \A p \in Procs : state'[p] = "Running" => state[p] = "Running"
              /\ \A c \in Cores : held'[c] # None => held'[c] = held[c]
           \/ \E c \in Cores, p \in InTable :
                /\ schedRunning /\ cpc[c] = "acquire" /\ state[p] = "Ready"
                /\ Dispatch(c, p)
<1> USE DEF tableVars, pcbVars, schedVars, coreVars, loadVars, mainVars
<1> DEFINE Same ==
              /\ \A p \in Procs : state'[p] = "Running" => state[p] = "Running"
              /\ \A c \in Cores : held'[c] # None => held'[c] = held[c]
<1>1. CASE Quiet
  BY <1>1 DEF Quiet
<1>2. ASSUME NEW c \in Cores, Loud(c), ~AcquireQueued(c), ~AcquireRoundRobin(c)
      PROVE  Same
  BY <1>2 DEF Loud, TypeOK, AcquireNothing, ExecContinue, AfterContinue, ExecEnd,
     StoreHalted, CoreLoop, OnCoreIdle, ReleasePreempt, OnPreempt, ReleaseNotify,
     NotifyPossibleShutdown
<1>3. CASE MainLoad
  BY <1>3 DEF MainLoad, Emplace, TypeOK
<1>4. CASE MainLoadNotify \/ MainRun \/ MainReturn
  BY <1>4 DEF MainLoadNotify, MainRun, MainReturn
<1>5. ASSUME NEW p \in InTable, NEW k \in Kinds, MainStep(p, k) PROVE FALSE
  BY <1>5 DEF MainStep
<1>6. ASSUME NEW c \in Cores, AcquireQueued(c) \/ AcquireRoundRobin(c)
      PROVE  \E p \in InTable : /\ schedRunning /\ cpc[c] = "acquire"
                                /\ state[p] = "Ready" /\ Dispatch(c, p)
  BY <1>6, ScanType DEF AcquireQueued, AcquireRoundRobin, FirstReady
<1> QED BY <1>1, <1>2, <1>3, <1>4, <1>5, <1>6, LoudOrQuiet DEF LoudOwner

\* What is kept while the second thread calls stop().
StrandInv ==
    /\ Inv /\ StopTypes /\ Exclusive /\ OwnsCycle /\ HaltMarked /\ StopOnlyWhenHalted
    /\ IdsInOrder /\ TableFilled /\ QueueOfReady /\ OnlyFirstRun /\ FewStranded

\* Once the scheduler has stopped, it hands out nothing in any later run either.
LEMMA FirstRunStep ==
    ASSUME "Load" \notin Kinds, ~ClientSteps, StrandInv, StopNext
    PROVE  OnlyFirstRun'
<1>0. /\ TypeOK /\ RegionsAccounted /\ NoNullProcess /\ OwnsCycle
      /\ StopOnlyWhenHalted /\ OnlyFirstRun
  BY DEF StrandInv, Inv
<1>1. schedRunning' => schedRunning
  <2>1. CASE Next
    BY <1>0, <2>1, EmptyStays
  <2>2. CASE SideStep
    BY <2>2 DEF SideStep
  <2> QED BY <1>0, <2>1, <2>2, StepOrSide
<1>2. ASSUME schedRunning'
      PROVE  /\ mpc' \notin {"stop_notify", "stop_cores", "join"}
             /\ osRunning' \/ mpc' \in {"idle", "load_notify"}
             /\ \A c \in starting' : cpc'[c] = "off"
             /\ mpc' \in {"idle", "load_notify"} => \A c \in Cores : cpc'[c] = "off"
  <2>1. /\ mpc' \notin {"stop_notify", "stop_cores", "join"}
        /\ osRunning' \/ mpc' \in {"idle", "load_notify"}
    BY <1>0, <1>1, <1>2, OwnerMoves DEF OnlyFirstRun
  <2>2. ASSUME NEW c \in starting' PROVE cpc'[c] = "off"
    <3>1. CASE OwnerRun
      <4>1. mpc = "idle" /\ c \in Cores
        BY <1>0, <2>2, <3>1 DEF OwnerRun, MainRun, OnlyFirstRun
      <4> QED BY <1>0, <1>1, <1>2, <4>1, EndedStays DEF OnlyFirstRun
    <3>2. CASE c \in starting
      <4>1. cpc[c] = "off" /\ c \in Cores
        BY <1>0, <1>1, <1>2, <3>2 DEF OnlyFirstRun
      <4> QED BY <1>0, <2>2, <4>1, EndedStays
    <3> QED BY <1>0, <2>2, <3>1, <3>2, OwnerMoves
  <2>3. ASSUME mpc' \in {"idle", "load_notify"}, NEW c \in Cores
        PROVE  cpc'[c] = "off"
    <3>1. mpc \in {"idle", "load_notify"}
      BY <1>0, <1>1, <1>2, <2>3, OwnerMoves DEF OnlyFirstRun
    <3>2. cpc[c] = "off"
      BY <1>0, <1>1, <1>2, <3>1 DEF OnlyFirstRun
    <3> QED BY <1>0, <3>1, <3>2, EndedStays
  <2> QED BY <2>1, <2>2, <2>3
<1>3. ASSUME mpc' \in {"idle", "load_notify"}, NEW p \in InTable', p \in Procs
      PROVE  state'[p] # "Running"
  <2>1. p \in InTable => state[p] # "Running"
    BY <1>0, <1>3, OwnerMoves DEF OnlyFirstRun, StopOnlyWhenHalted, Done
  <2>2. state[p] # "Running"
    BY <1>3, <2>1 DEF StrandInv, TableFilled
  <2>3. CASE SideStep
    BY <2>2, <2>3 DEF SideStep, pcbVars
  <2>4. CASE Next
    <3>1. ASSUME NEW c \in Cores, NEW q \in InTable, schedRunning,
                 cpc[c] = "acquire", state[q] = "Ready"
          PROVE  FALSE
      BY <1>0, <1>3, <3>1, OwnerMoves DEF OnlyFirstRun, StopOnlyWhenHalted, Done
    <3> QED BY <1>0, <1>3, <2>2, <2>4, <3>1, OnlyDispatch
  <2> QED BY <1>0, <2>3, <2>4, StepOrSide
<1>4. \A p \in InTable' : p \in Procs
  <2>1. Inv'
    BY BaseStep DEF StrandInv
  <2> QED BY <2>1, ConstantsAssumption DEF Inv, TypeOK, InTable, Procs
<1>5. starting' \subseteq Cores
  BY <1>0, OwnerMoves DEF OnlyFirstRun
<1>6. ASSUME NEW c \in starting', held'[c] # None PROVE state'[held'[c]] # "Running"
  <2>0. c \in Cores
    BY <1>5
  <2>1. CASE OwnerRun
    <3>1. mpc = "idle" /\ state' = state /\ held' = held
      BY <2>1 DEF OwnerRun, MainRun, pcbVars
    <3> QED BY <1>0, <1>6, <2>0, <3>1 DEF OnlyFirstRun, OwnsCycle
  <2>2. CASE c \in starting /\ SideStep
    BY <1>0, <1>6, <2>2 DEF SideStep, pcbVars, OnlyFirstRun
  <2>3. CASE c \in starting /\ Next
    <3>1. ASSUME \A p \in Procs : state'[p] = "Running" => state[p] = "Running",
                 held'[c] = held[c]
          PROVE  state'[held'[c]] # "Running"
      BY <1>0, <1>6, <2>0, <2>3, <3>1, InTableType DEF OnlyFirstRun, OwnsCycle
    <3>2. ASSUME NEW d \in Cores, NEW p \in InTable, schedRunning,
                 cpc[d] = "acquire", state[p] = "Ready", Dispatch(d, p)
          PROVE  state'[held'[c]] # "Running"
      <4>1. c # d
        BY <1>0, <2>3, <3>2 DEF OnlyFirstRun
      <4>2. held'[c] = held[c] /\ held[c] \in InTable /\ held[c] # p
        BY <1>0, <1>6, <2>0, <3>2, <4>1 DEF Dispatch, TypeOK, OwnsCycle
      <4>3. state'[held[c]] = state[held[c]]
        BY <1>0, <3>2, <4>2, InTableType DEF Dispatch, MarkRunning, TypeOK
      <4> QED BY <1>0, <1>6, <2>3, <4>2, <4>3 DEF OnlyFirstRun
    <3> QED BY <1>0, <1>6, <2>0, <2>3, <3>1, <3>2, OnlyDispatch
  <2> QED BY <1>0, <1>6, <2>1, <2>2, <2>3, OwnerMoves, StepOrSide
<1> QED BY <1>2, <1>3, <1>4, <1>5, <1>6 DEF OnlyFirstRun

\* Only a core that obeys a stop request leaves a process behind, and a core does
\* so once: it begins anew only when nothing is Running any more.
LEMMA StrandStep ==
    ASSUME "Load" \notin Kinds, ~ClientSteps, StrandInv, StopNext, TypeOK'
    PROVE  FewStranded'
<1>0. /\ TypeOK /\ RegionsAccounted /\ NoNullProcess /\ OwnsCycle
      /\ OnlyFirstRun /\ FewStranded
  BY DEF StrandInv, Inv
<1>1. /\ IsFiniteSet(Stranded) /\ IsFiniteSet(Stranded')
      /\ IsFiniteSet(StoppedCores) /\ IsFiniteSet(StoppedCores')
  <2>1. IsFiniteSet(InTable) /\ IsFiniteSet(InTable')
    BY <1>0, FS_Interval, ConstantsAssumption DEF InTable, TypeOK
  <2> QED BY <2>1, FS_Subset, ConstantsAssumption DEF Stranded, StoppedCores
<1>2. /\ Cardinality(Stranded) \in Nat /\ Cardinality(Stranded') \in Nat
      /\ Cardinality(StoppedCores) \in Nat /\ Cardinality(StoppedCores') \in Nat
  BY <1>1, FS_CardinalityType
<1>3. CASE OwnerRun
  <2>1. /\ mpc = "idle" /\ state' = state /\ InTable' = InTable
    BY <1>3 DEF OwnerRun, MainRun, tableVars, pcbVars, InTable
  <2>2. Stranded' = {}
    BY <1>0, <2>1 DEF OnlyFirstRun, Stranded
  <2> QED BY <1>2, <2>2, FS_EmptySet DEF FewStranded
<1>4. ASSUME starting' \subseteq starting PROVE StoppedCores \subseteq StoppedCores'
  <2>1. ASSUME NEW c \in StoppedCores PROVE c \in StoppedCores'
    <3>1. /\ c \in Cores /\ c \notin starting /\ stopRequested[c]
          /\ cpc[c] \in {"off", "done"}
      BY DEF StoppedCores
    <3>2. cpc'[c] \in {"off", "done"} /\ stopRequested'[c]
      BY <1>0, <3>1, EndedStays
    <3> QED BY <1>4, <3>1, <3>2 DEF StoppedCores
  <2> QED BY <2>1
<1>5. ASSUME starting' \subseteq starting, Stranded' \subseteq Stranded
      PROVE  FewStranded'
  <2>1. /\ Cardinality(Stranded') <= Cardinality(Stranded)
        /\ Cardinality(StoppedCores) <= Cardinality(StoppedCores')
    BY <1>1, <1>4, <1>5, FS_Subset
  <2> QED BY <1>0, <1>2, <2>1 DEF FewStranded
<1>6. CASE SideStep
  <2>1. Stranded' = Stranded
    BY <1>6 DEF SideStep, Stranded, InTable, tableVars, pcbVars
  <2> QED BY <1>0, <1>3, <1>5, <2>1, OwnerMoves
<1>7. ASSUME Next, starting' \subseteq starting PROVE FewStranded'
  <2>1. \A p \in Stranded' : p \in Stranded \/ (state[p] = "Running" /\ LeavesIt(p))
    BY <1>0, <1>7, LeftBehind DEF Stranded, Uncored
  <2>2. ASSUME NEW p \in Stranded', p \notin Stranded PROVE FewStranded'
    <3>1. PICK c \in Cores :
            /\ held[c] = p /\ stopRequested[c] /\ cpc[c] = "loop"
            /\ CoreLoop(c)
      BY <2>1, <2>2 DEF LeavesIt
    <3>2. /\ \A d \in Cores \ {c} : held'[d] = held[d]
          /\ cpc'[c] = "done" /\ stopRequested' = stopRequested
      BY <1>0, <3>1 DEF CoreLoop, LoopBranch, TypeOK
    <3>3. p \in Procs /\ p # None /\ state[p] = "Running"
      <4>1. p \in InTable /\ state[p] = "Running"
        BY <1>0, <1>7, <2>2, LeftBehind DEF Stranded
      <4> QED BY <1>0, <4>1, InTableType DEF None, Procs
    <3>4. ASSUME NEW q \in Stranded', q \notin Stranded PROVE q = p
      <4>1. PICK d \in Cores : held[d] = q /\ d \in Cores
        BY <2>1, <3>4 DEF LeavesIt
      <4>2. held'[d] # q
        BY <3>4 DEF Stranded
      <4> QED BY <3>1, <3>2, <4>1, <4>2
    <3>5. c \notin starting /\ c \notin StoppedCores
      BY <1>0, <3>1, <3>3 DEF OnlyFirstRun, StoppedCores
    <3>6. c \in StoppedCores'
      BY <1>7, <3>1, <3>2, <3>5 DEF StoppedCores
    <3>7. /\ Stranded' \subseteq Stranded \cup {p}
          /\ StoppedCores \cup {c} \subseteq StoppedCores'
      BY <1>4, <1>7, <3>4, <3>6
    <3>8. /\ IsFiniteSet(Stranded \cup {p})
          /\ Cardinality(Stranded \cup {p}) = Cardinality(Stranded) + 1
          /\ Cardinality(StoppedCores \cup {c}) = Cardinality(StoppedCores) + 1
      BY <1>1, <2>2, <3>5, FS_AddElement
    <3>9. /\ Cardinality(Stranded') <= Cardinality(Stranded \cup {p})
          /\ Cardinality(StoppedCores \cup {c}) <= Cardinality(StoppedCores')
      BY <1>1, <3>7, <3>8, FS_Subset
    <3> QED BY <1>0, <1>2, <3>8, <3>9 DEF FewStranded
  <2> QED BY <1>5, <1>7, <2>2
<1> QED BY <1>0, <1>3, <1>6, <1>7, OwnerMoves, StepOrSide

\* The steps of VirtualOS keep the rest, as in its own proofs, and those of stop()
\* do not touch it.
LEMMA StrandInvStep ==
    ASSUME "Load" \notin Kinds, ~ClientSteps, StrandInv, StopNext
    PROVE  StrandInv'
<1>1. Inv' /\ StopTypes' /\ OnlyFirstRun'
  BY BaseStep, StopperStep, FirstRunStep DEF StrandInv
<1>2. FewStranded'
  BY <1>1, StrandStep DEF Inv
<1>3. TypeOK /\ RegionsAccounted /\ NoNullProcess
  BY DEF StrandInv, Inv
<1>4. CASE Next
  <2>1. (Exclusive /\ OwnsCycle)'
    BY <1>3, <1>4, OwnershipStep DEF StrandInv
  <2>2. HaltMarked'
    BY <1>3, <1>4, MarkedStep DEF StrandInv
  <2>3. StopOnlyWhenHalted'
    BY <1>3, <1>4, StopStep DEF StrandInv
  <2>4. (IdsInOrder /\ TableFilled)'
    BY <1>3, <1>4, TableStep DEF StrandInv
  <2>5. QueueOfReady'
    BY <1>3, <1>4, QueueStep DEF StrandInv
  <2> QED BY <1>1, <1>2, <2>1, <2>2, <2>3, <2>4, <2>5 DEF StrandInv
<1>5. CASE SideStep
  <2> USE <1>5 DEF tableVars, pcbVars
  <2>1. Exclusive'
    BY DEF StrandInv, Exclusive, SideStep
  <2>2. OwnsCycle'
    BY DEF StrandInv, OwnsCycle, SideStep, InTable, FreePCs, LoadPCs
  <2>3. HaltMarked'
    BY MarkedKept DEF StrandInv, SideStep
  <2>4. StopOnlyWhenHalted'
    BY DEF StrandInv, StopOnlyWhenHalted, SideStep, Done, InTable
  <2>5. (IdsInOrder /\ TableFilled)'
    BY DEF StrandInv, IdsInOrder, TableFilled, SideStep, InTable
  <2>6. QueueOfReady'
    BY QueueKept DEF StrandInv, SideStep
  <2> QED
    BY <1>1, <1>2, <2>1, <2>2, <2>3, <2>4, <2>5, <2>6 DEF StrandInv
<1> QED BY <1>3, <1>4, <1>5, StepOrSide

\* For any number of cores and processes, as long as no guest uses the load call:
\* wherever in run() the second thread's stop() hits the owner, no process is on
\* two cores, the queue holds every Ready one once and nothing else, and a
\* process is left behind Running only by a core that obeyed the stop, at most
\* one by each.
THEOREM NothingStranded ==
    ASSUME "Load" \notin Kinds, ~ClientSteps
    PROVE  StopSpec => []StopStrands
<1>1. StopInit => StrandInv
  <2>1. Init => Inv
    BY InitInv
  <2>2. Init => InTable = {}
    BY DEF Init, InTable
  <2>3. ASSUME StopInit PROVE FewStranded
    <3>1. Stranded = {} /\ StoppedCores \subseteq Cores
      BY <2>2, <2>3 DEF StopInit, Stranded, StoppedCores
    <3>2. Cardinality(StoppedCores) \in Nat
      BY <3>1, FS_Subset, FS_CardinalityType, ConstantsAssumption
    <3> QED BY <3>1, <3>2, FS_EmptySet DEF FewStranded
  <2>4. Init => Exclusive /\ OwnsCycle /\ HaltMarked /\ StopOnlyWhenHalted
    BY DEF Init, Exclusive, OwnsCycle, HaltMarked, StopOnlyWhenHalted, FreePCs,
       LoadPCs
  <2>5. Init => IdsInOrder /\ TableFilled /\ QueueOfReady
    BY <2>2 DEF Init, IdsInOrder, TableFilled, QueueOfReady
  <2>6. ASSUME StopInit PROVE OnlyFirstRun
    BY <2>2, <2>6 DEF StopInit, Init, OnlyFirstRun
  <2> QED
    BY <2>1, <2>3, <2>4, <2>5, <2>6 DEF StopInit, StrandInv, StopTypes, StopPCs
<1>2. StrandInv /\ [StopNext]_allVars => StrandInv'
  <2>1. ASSUME StrandInv, UNCHANGED allVars PROVE StrandInv'
    <3>1. Inv'
      BY <2>1, InvStutter DEF StrandInv, allVars
    <3>2. UNCHANGED <<Stranded, StoppedCores>>
      BY <2>1 DEF Stranded, StoppedCores, InTable, allVars, stopVars, vars,
         tableVars, pcbVars, coreVars
    <3> QED
      BY <2>1, <3>1, <3>2 DEF StrandInv, StopTypes, Exclusive, OwnsCycle, HaltMarked,
         Done, StopOnlyWhenHalted, IdsInOrder, TableFilled, QueueOfReady,
         OnlyFirstRun, FewStranded, InTable, allVars, stopVars, vars, tableVars,
         pcbVars, schedVars, coreVars, mainVars
  <2> QED BY <2>1, StrandInvStep
<1>3. StrandInv => StopStrands
  <2>1. IdsInOrder /\ QueueOfReady => QueueExact
    BY DEF IdsInOrder, QueueOfReady, QueueExact, Queued, Stale
  <2> QED BY <2>1 DEF StrandInv, FewStranded, StopStrands
<1> QED BY <1>1, <1>2, <1>3, PTL DEF StopSpec
=============================================================================
