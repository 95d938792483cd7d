-------------------------- MODULE VirtualOSProofs --------------------------
(***************************************************************************)
(* Proofs about VirtualOS for every set of cores, every physical memory,   *)
(* every quantum and every mix of guest instructions.                      *)
(*                                                                         *)
(*   TypeCorrect          types, region accounting, no null process        *)
(*   LosesNoRegion        only a failing load of the owner loses a region  *)
(*   NoSleep              no core sleeps while work is queued              *)
(*   ShutdownNeverMissed  the last halt is always reported to run()        *)
(*   ReadyNeverLost       a Ready process is queued or about to be         *)
(*   ExclusiveCores       a process is on one core at a time    (no load)  *)
(*   StopsWhenHalted      stop() follows the last halt          (no load)  *)
(*   HaltedForGood        Halted is final             (no load, no steps)  *)
(***************************************************************************)
EXTENDS VirtualOS, FiniteSetTheorems, WellFoundedInduction, TLAPS

\* A remainder lies below its divisor (roundRobinIndex_ % processes_.size()).
LEMMA ModRange ==
    ASSUME NEW a \in Nat, NEW n \in Nat \ {0}
    PROVE  a % n \in 0..n - 1
  OBVIOUS

\* What is left of the ready queue after pop_front is a queue of ids.
LEMMA SuffixType ==
    ASSUME NEW q \in Seq(Nat), NEW k \in DOMAIN q
    PROVE  SubSeq(q, k + 1, Len(q)) \in Seq(Nat)
  OBVIOUS

\* Charging an instruction to a time slice keeps every slice within 0..Quantum.
LEMMA TickType ==
    ASSUME TypeOK, NEW p
    PROVE  Tick(p) \in [Procs -> 0..Quantum]
<1>1. CASE p \in Procs
  <2>1. slice[p] \in 0..Quantum
    BY <1>1 DEF TypeOK
  <2>2. (IF slice[p] > 0 THEN slice[p] - 1 ELSE 0) \in 0..Quantum
    BY <2>1, ConstantsAssumption
  <2> QED BY <1>1, <2>2 DEF TypeOK, Tick
<1>2. CASE p \notin Procs
  BY <1>2 DEF TypeOK, Tick
<1> QED BY <1>1, <1>2

\* The round-robin scan of pickNextProcess stays inside the process table.
LEMMA ScanType ==
    ASSUME TypeOK, NEW i \in 0..count - 1
    PROVE  Scan(i) \in InTable
<1>1. roundRobinIndex + i \in Nat /\ count \in Nat \ {0}
  BY ConstantsAssumption DEF TypeOK
<1>2. (roundRobinIndex + i) % count \in 0..count - 1
  BY <1>1, ModRange
<1> QED BY <1>1, <1>2 DEF Scan, InTable

\* What coreLoop does after an instruction that continues keeps the types.
LEMMA AfterContinueType ==
    ASSUME TypeOK, NEW c \in Cores, AfterContinue(c, held[c])
    PROVE  TypeOK'
<1>1. slice' \in [Procs -> 0..Quantum]
  BY TickType DEF AfterContinue
<1>2. shouldYield' \in [Procs -> BOOLEAN]
  BY DEF AfterContinue, TypeOK
<1>3. state' \in [Procs -> States]
  BY DEF AfterContinue, TypeOK, States
<1>4. cpc' \in [Cores -> CorePCs]
  BY DEF AfterContinue, TypeOK, CorePCs, HoldPCs, EndPCs
<1> QED
  BY <1>1, <1>2, <1>3, <1>4
  DEF AfterContinue, TypeOK, tableVars, schedVars, loadVars, mainVars

\* notifyProcessReady appends process ids only.
LEMMA EnqueueType ==
    ASSUME TypeOK, NEW st, EnqueueReady(st)
    PROVE  readyQueue' \in Seq(Nat)
<1>1. PICK n \in 0..MaxProcs : \E s \in [1..n -> Unqueued(st)] :
        readyQueue' = readyQueue \o [i \in 1..n |-> id[s[i]]]
  BY DEF EnqueueReady
<1>2. PICK s \in [1..n -> Unqueued(st)] :
        readyQueue' = readyQueue \o [i \in 1..n |-> id[s[i]]]
  BY <1>1
<1>3. Unqueued(st) \subseteq Procs
  BY ConstantsAssumption DEF Unqueued, InTable, TypeOK, Procs
<1>4. [i \in 1..n |-> id[s[i]]] \in Seq(Nat)
  <2>1. n \in Nat
    BY ConstantsAssumption
  <2>2. \A i \in 1..n : id[s[i]] \in Nat
    BY <1>3 DEF TypeOK
  <2> QED BY <2>1, <2>2
<1> QED BY <1>2, <1>4 DEF TypeOK

\* The live slots of the process table are slots of physical memory's regions.
LEMMA InTableType ==
    ASSUME TypeOK
    PROVE  InTable \subseteq Procs
  BY ConstantsAssumption DEF TypeOK, InTable, Procs

\* The load calls in progress are finitely many.
LEMMA LoadingCount ==
    Cardinality(Loading) \in Nat /\ IsFiniteSet(Loading)
  BY ConstantsAssumption, FS_Subset, FS_CardinalityType DEF Loading

\* Whoever got a region from allocateRegion has a free slot in the table.
LEMMA RoomInTable ==
    ASSUME TypeOK, RegionsAccounted
    PROVE  /\ RegionLeft => count + 1 \in Procs
           /\ \A c \in Loading : count + 1 \in Procs
           /\ count + 1 \in Procs => count + 1 \in 0..MaxProcs
<1>1. ASSUME NEW c \in Loading PROVE Cardinality(Loading) # 0
  BY LoadingCount, FS_EmptySet
<1> QED BY <1>1, LoadingCount, ConstantsAssumption
        DEF TypeOK, RegionsAccounted, RegionLeft, Procs

\* Every step preserves the type invariant.  The table has room for the process
\* that is emplaced because regions are accounted for, and onPreempt pushes an id
\* because the core holds a process.
LEMMA TypeStep ==
    ASSUME TypeOK, RegionsAccounted, NoNullProcess, Next
    PROVE  TypeOK'
<1> USE ConstantsAssumption DEF tableVars, pcbVars, schedVars, coreVars, loadVars,
        mainVars, TakeRegion, None, States, CorePCs, LoadPCs, HoldPCs, EndPCs, FreePCs, MainPCs
<1>1. ASSUME NEW c \in Cores, AcquireStopped(c) PROVE TypeOK'
  BY <1>1 DEF TypeOK, AcquireStopped
<1>2. ASSUME NEW c \in Cores, AcquireWait(c) PROVE TypeOK'
  BY <1>2 DEF TypeOK, AcquireWait
<1>3. ASSUME NEW c \in Cores, AcquireBlock(c) PROVE TypeOK'
  BY <1>3 DEF TypeOK, AcquireBlock
<1>4. ASSUME NEW c \in Cores, AcquireQueued(c) PROVE TypeOK'
  <2>1. PICK k \in DOMAIN readyQueue, p \in InTable :
          /\ readyQueue' = SubSeq(readyQueue, k + 1, Len(readyQueue))
          /\ UNCHANGED roundRobinIndex
          /\ Dispatch(c, p)
    BY <1>4 DEF AcquireQueued
  <2>2. readyQueue' \in Seq(Nat)
    BY <2>1, SuffixType DEF TypeOK
  <2>3. p \in Procs /\ Quantum \in 0..Quantum
    BY InTableType
  <2> QED
    BY <2>1, <2>2, <2>3 DEF TypeOK, Dispatch, MarkRunning, ResetTimeSlice
<1>5. ASSUME NEW c \in Cores, AcquireRoundRobin(c) PROVE TypeOK'
  <2>1. PICK i \in 0..count - 1 :
          /\ roundRobinIndex' = Scan(i)
          /\ readyQueue' = <<>>
          /\ Dispatch(c, Scan(i))
    BY <1>5 DEF AcquireRoundRobin
  <2>2. Scan(i) \in Procs /\ Scan(i) \in 0..MaxProcs /\ Quantum \in 0..Quantum
    BY ScanType, InTableType DEF Procs
  <2> QED BY <2>1, <2>2 DEF TypeOK, Dispatch, MarkRunning, ResetTimeSlice
<1>6. ASSUME NEW c \in Cores, AcquireNothing(c) PROVE TypeOK'
  BY <1>6 DEF TypeOK, AcquireNothing
<1>7. ASSUME NEW c \in Cores, LoadAlloc(c) PROVE TypeOK'
  <2>1. RegionLeft => regions + 1 \in 0..MaxProcs
    BY DEF TypeOK, RegionLeft
  <2> QED BY <1>7, <2>1 DEF TypeOK, LoadAlloc
<1>8. ASSUME NEW c \in Cores, LoadReadId(c) PROVE TypeOK'
  BY <1>8 DEF TypeOK, LoadReadId
<1>9. ASSUME NEW c \in Cores, LoadWriteId(c) PROVE TypeOK'
  BY <1>9 DEF TypeOK, LoadWriteId
<1>10. ASSUME NEW c \in Cores, LoadEmplace(c) PROVE TypeOK'
  <2>1. c \in Loading
    BY <1>10 DEF LoadEmplace, Loading
  <2>2. count + 1 \in Procs
    BY <2>1, RoomInTable
  <2>3. count + 1 \in 0..MaxProcs /\ Quantum \in 0..Quantum
    BY <2>2, RoomInTable
  <2> QED BY <1>10, <2>2, <2>3 DEF TypeOK, LoadEmplace, Emplace
<1>11. ASSUME NEW c \in Cores, LoadSetReady(c) PROVE TypeOK'
  BY <1>11 DEF TypeOK, LoadSetReady
<1>12. ASSUME NEW c \in Cores, LoadNotify(c) PROVE TypeOK'
  BY <1>12, EnqueueType DEF TypeOK, LoadNotify, Woken
<1>13. ASSUME NEW c \in Cores, LoadReturn(c) PROVE TypeOK'
  BY <1>13, AfterContinueType DEF LoadReturn
<1>14. ASSUME NEW c \in Cores, ExecContinue(c) PROVE TypeOK'
  BY <1>14, AfterContinueType DEF ExecContinue
<1>15. ASSUME NEW c \in Cores, ExecYield(c) PROVE TypeOK'
  BY <1>15 DEF TypeOK, ExecYield, Executing
<1>16. ASSUME NEW c \in Cores, ExecThrow(c) PROVE TypeOK'
  BY <1>16 DEF TypeOK, ExecThrow, Executing
<1>17. ASSUME NEW c \in Cores, ExecLoad(c) PROVE TypeOK'
  BY <1>17 DEF TypeOK, ExecLoad, Executing
<1>18. ASSUME NEW c \in Cores, NEW k \in Kinds, ExecEnd(c, k) PROVE TypeOK'
  <2>1. slice' \in [Procs -> 0..Quantum]
    BY <1>18, TickType DEF TypeOK, ExecEnd
  <2> QED BY <1>18, <2>1 DEF TypeOK, ExecEnd
<1>19. ASSUME NEW c \in Cores, CoreLoop(c) PROVE TypeOK'
  BY <1>19 DEF TypeOK, CoreLoop, LoopBranch
<1>20. ASSUME NEW c \in Cores, CoreIdleStop(c) PROVE TypeOK'
  BY <1>20 DEF TypeOK, CoreIdleStop
<1>21. ASSUME NEW c \in Cores, OnCoreIdle(c) PROVE TypeOK'
  BY <1>21, EnqueueType DEF TypeOK, OnCoreIdle, Woken
<1>22. ASSUME NEW c \in Cores, CoreSkip(c) PROVE TypeOK'
  BY <1>22 DEF TypeOK, CoreSkip
<1>23. ASSUME NEW c \in Cores, ReleasePreempt(c) PROVE TypeOK'
  <2>1. held[c] \in Procs
    BY <1>23 DEF ReleasePreempt, NoNullProcess, TypeOK
  <2>2. CASE state[held[c]] = "Running"
    <3>1. readyQueue' = Append(readyQueue, id[held[c]])
      BY <1>23, <2>2 DEF ReleasePreempt, OnPreempt
    <3>2. readyQueue \in Seq(Nat) /\ id[held[c]] \in Nat
      BY <2>1 DEF TypeOK
    <3>3. readyQueue' \in Seq(Nat)
      BY <3>1, <3>2
    <3> QED BY <1>23, <2>2, <3>3 DEF ReleasePreempt, OnPreempt, Woken, TypeOK
  <2>3. CASE state[held[c]] # "Running"
    BY <1>23, <2>3 DEF ReleasePreempt, OnPreempt, Woken, TypeOK
  <2> QED BY <2>2, <2>3
<1>24. ASSUME NEW c \in Cores, ReleaseNotify(c) PROVE TypeOK'
  BY <1>24, EnqueueType DEF TypeOK, ReleaseNotify, Woken
<1>25. ASSUME NEW c \in Cores, NotifyPossibleShutdown(c) PROVE TypeOK'
  BY <1>25 DEF TypeOK, NotifyPossibleShutdown, ShutdownNotified
<1>26. ASSUME NEW c \in Cores, MainStart(c) PROVE TypeOK'
  BY <1>26 DEF TypeOK, MainStart
<1>27. ASSUME NEW c \in Cores, MainStopCore(c) PROVE TypeOK'
  BY <1>27 DEF TypeOK, MainStopCore
<1>28. ASSUME NEW c \in Cores, MainJoin(c) PROVE TypeOK'
  BY <1>28 DEF TypeOK, MainJoin
<1>29. ASSUME NEW c \in Cores, SpuriousWake(c) PROVE TypeOK'
  BY <1>29 DEF TypeOK, SpuriousWake
<1>30. ASSUME MainLoadNotify PROVE TypeOK'
  BY <1>30, EnqueueType DEF TypeOK, MainLoadNotify, Woken
<1>31. ASSUME MainStarted PROVE TypeOK'
  BY <1>31 DEF TypeOK, MainStarted
<1>32. ASSUME MainCheck PROVE TypeOK'
  BY <1>32 DEF TypeOK, MainCheck
<1>33. ASSUME MainStopScheduler PROVE TypeOK'
  BY <1>33 DEF TypeOK, MainStopScheduler
<1>34. ASSUME MainStopNotify PROVE TypeOK'
  BY <1>34 DEF TypeOK, MainStopNotify, Woken
<1>35. ASSUME MainStopped PROVE TypeOK'
  BY <1>35 DEF TypeOK, MainStopped
<1>36. ASSUME MainReturn PROVE TypeOK'
  BY <1>36 DEF TypeOK, MainReturn
<1>37. ASSUME MainLoad PROVE TypeOK'
  <2>1. count + 1 \in Procs
    BY <1>37, RoomInTable DEF MainLoad
  <2>2. /\ count + 1 \in 0..MaxProcs /\ regions + 1 \in 0..MaxProcs
        /\ nextId + 1 \in Nat \ {0} /\ nextId \in Nat /\ Quantum \in 0..Quantum
    BY <1>37, <2>1, RoomInTable DEF MainLoad, RegionLeft, TypeOK
  <2> QED BY <1>37, <2>1, <2>2 DEF TypeOK, MainLoad, Emplace
<1>38. ASSUME MainRun PROVE TypeOK'
  <2>1. readyQueue' \in Seq(Nat)
    BY <1>38, EnqueueType DEF MainRun
  <2>2. runs' \in 0..MaxRuns
    BY <1>38 DEF MainRun, TypeOK
  <2> QED BY <1>38, <2>1, <2>2 DEF TypeOK, MainRun, Woken
<1>39. ASSUME NEW p \in InTable, MainStepLoad(p) PROVE TypeOK'
  <2>1. count + 1 \in Procs
    BY <1>39, RoomInTable DEF MainStepLoad
  <2>2. /\ count + 1 \in 0..MaxProcs /\ regions + 1 \in 0..MaxProcs
        /\ nextId + 1 \in Nat \ {0} /\ nextId \in Nat /\ Quantum \in 0..Quantum
    BY <1>39, <2>1, RoomInTable DEF MainStepLoad, RegionLeft, TypeOK
  <2>3. Tick(p) \in [Procs -> 0..Quantum]
    BY TickType
  <2>4. slice' \in [Procs -> 0..Quantum]
    BY <1>39, <2>2, <2>3 DEF MainStepLoad
  <2> QED BY <1>39, <2>1, <2>2, <2>4 DEF TypeOK, MainStepLoad
<1>40. ASSUME NEW p \in InTable, NEW k \in Kinds, MainStep(p, k) PROVE TypeOK'
  <2>1. slice' \in [Procs -> 0..Quantum]
    BY <1>40, TickType DEF MainStep, TypeOK
  <2>2. halted' \in [Procs -> BOOLEAN] /\ shouldYield' \in [Procs -> BOOLEAN]
    BY <1>40 DEF MainStep, TypeOK
  <2> QED BY <1>40, <2>1, <2>2 DEF TypeOK, MainStep
<1>41. ASSUME MainSpuriousWake PROVE TypeOK'
  BY <1>41 DEF TypeOK, MainSpuriousWake
<1>42. ASSUME NEW c \in Cores, ReleaseProcess(c) PROVE TypeOK'
  BY <1>42 DEF TypeOK, ReleaseProcess, ReleaseTo
<1>43. ASSUME NEW c \in Cores, StoreHalted(c) PROVE TypeOK'
  BY <1>43 DEF TypeOK, StoreHalted
<1>44. ASSUME NEW c \in Cores, ReleaseReady(c) PROVE TypeOK'
  BY <1>44 DEF TypeOK, ReleaseReady
<1>45. ASSUME MainLoadFails PROVE TypeOK'
  BY <1>45 DEF TypeOK, MainLoadFails, RegionLeft
<1>46. ASSUME NEW p \in InTable, MainStepLoadFails(p) PROVE TypeOK'
  <2>1. regions' \in 0..MaxProcs
    BY <1>46 DEF TypeOK, MainStepLoadFails, RegionLeft
  <2>2. state' \in [Procs -> States]
    BY <1>46 DEF TypeOK, MainStepLoadFails
  <2> QED BY <1>46, <2>1, <2>2 DEF TypeOK, MainStepLoadFails
<1> QED
  BY <1>1, <1>2, <1>3, <1>4, <1>5, <1>6, <1>7, <1>8, <1>9, <1>10, <1>11,
     <1>12, <1>13, <1>14, <1>15, <1>16, <1>17, <1>18, <1>19, <1>20, <1>21,
     <1>22, <1>23, <1>24, <1>25, <1>26, <1>27, <1>28, <1>29, <1>30, <1>31,
     <1>32, <1>33, <1>34, <1>35, <1>36, <1>37, <1>38, <1>39, <1>40, <1>41,
     <1>42, <1>43, <1>44, <1>45, <1>46
  DEF Next, OwnerStep, ClientCall, Spurious, CoreStep, AcquireProcess,
      LoadProgram, ExecuteInstruction

\* No region is lost, or one by a failing load, or the program ends.
LostKept ==
    \/ Lost' = Lost
    \/ mpc = "idle" /\ mpc' = "idle" /\ Lost' = Lost + 1
    \/ crashed' /\ Lost' = Lost + 1

\* Steps that start or finish no load call lose no region.
LEMMA SameLoading ==
    ASSUME UNCHANGED <<count, regions>>,
           \A c \in Cores : cpc'[c] \in {"readid", "writeid", "emplace"}
                        <=> cpc[c] \in {"readid", "writeid", "emplace"}
    PROVE  LostKept
<1>1. Loading' = Loading
  BY DEF Loading
<1> QED BY <1>1 DEF Lost, LostKept

\* Every step accounts for its regions: allocateRegion adds a load in progress or
\* a loss, emplace turns a load in progress into a table entry.
LEMMA LostStep ==
    ASSUME TypeOK, Next
    PROVE  LostKept
<1> USE DEF tableVars, pcbVars, schedVars, coreVars, loadVars, mainVars,
        TakeRegion
<1>1. ASSUME NEW c \in Cores, AcquireStopped(c) PROVE LostKept
  BY <1>1, SameLoading DEF TypeOK, AcquireStopped
<1>2. ASSUME NEW c \in Cores, AcquireWait(c) PROVE LostKept
  BY <1>2, SameLoading DEF TypeOK, AcquireWait
<1>3. ASSUME NEW c \in Cores, AcquireBlock(c) PROVE LostKept
  BY <1>3, SameLoading DEF TypeOK, AcquireBlock
<1>4. ASSUME NEW c \in Cores, AcquireQueued(c) PROVE LostKept
  BY <1>4, SameLoading DEF TypeOK, AcquireQueued, Dispatch
<1>5. ASSUME NEW c \in Cores, AcquireRoundRobin(c) PROVE LostKept
  BY <1>5, SameLoading DEF TypeOK, AcquireRoundRobin, Dispatch
<1>6. ASSUME NEW c \in Cores, AcquireNothing(c) PROVE LostKept
  BY <1>6, SameLoading DEF TypeOK, AcquireNothing
<1>7. ASSUME NEW c \in Cores, LoadAlloc(c) PROVE LostKept
  <2>1. CASE cpc' = [cpc EXCEPT ![c] = "readid"] /\ TakeRegion
    <3>1. Loading' = Loading \cup {c} /\ c \notin Loading
      BY <1>7, <2>1 DEF LoadAlloc, Loading, TypeOK
    <3>2. Cardinality(Loading') = Cardinality(Loading) + 1
      BY <3>1, LoadingCount, FS_AddElement
    <3>3. count \in Nat /\ regions \in Nat /\ count' = count
      BY <1>7, ConstantsAssumption DEF LoadAlloc, TypeOK
    <3> QED BY <2>1, <3>2, <3>3, LoadingCount DEF Lost, LostKept
  <2>2. CASE crashed' /\ UNCHANGED cpc
    <3>1. Loading' = Loading
      BY <2>2 DEF Loading
    <3> QED BY <1>7, <2>2, <3>1, LoadingCount
            DEF LoadAlloc, Lost, LostKept, TypeOK
  <2> QED BY <1>7, <2>1, <2>2 DEF LoadAlloc
<1>8. ASSUME NEW c \in Cores, LoadReadId(c) PROVE LostKept
  BY <1>8, SameLoading DEF TypeOK, LoadReadId
<1>9. ASSUME NEW c \in Cores, LoadWriteId(c) PROVE LostKept
  BY <1>9, SameLoading DEF TypeOK, LoadWriteId
<1>10. ASSUME NEW c \in Cores, LoadEmplace(c) PROVE LostKept
  <2>1. Loading' = Loading \ {c} /\ c \in Loading
    BY <1>10 DEF LoadEmplace, Loading, TypeOK
  <2>2. Cardinality(Loading') = Cardinality(Loading) - 1
    BY <2>1, LoadingCount, FS_RemoveElement
  <2> QED BY <1>10, <2>2, LoadingCount
          DEF LoadEmplace, Emplace, Lost, LostKept, TypeOK
<1>11. ASSUME NEW c \in Cores, LoadSetReady(c) PROVE LostKept
  BY <1>11, SameLoading DEF TypeOK, LoadSetReady
<1>12. ASSUME NEW c \in Cores, LoadNotify(c) PROVE LostKept
  BY <1>12, SameLoading DEF TypeOK, LoadNotify, Woken
<1>13. ASSUME NEW c \in Cores, LoadReturn(c) PROVE LostKept
  BY <1>13, SameLoading DEF TypeOK, LoadReturn, AfterContinue
<1>14. ASSUME NEW c \in Cores, ExecContinue(c) PROVE LostKept
  BY <1>14, SameLoading DEF TypeOK, ExecContinue, Executing, AfterContinue
<1>15. ASSUME NEW c \in Cores, ExecYield(c) PROVE LostKept
  BY <1>15, SameLoading DEF TypeOK, ExecYield, Executing
<1>16. ASSUME NEW c \in Cores, ExecThrow(c) PROVE LostKept
  BY <1>16, SameLoading DEF TypeOK, ExecThrow, Executing
<1>17. ASSUME NEW c \in Cores, ExecLoad(c) PROVE LostKept
  BY <1>17, SameLoading DEF TypeOK, ExecLoad, Executing
<1>18. ASSUME NEW c \in Cores, NEW k \in Kinds, ExecEnd(c, k) PROVE LostKept
  BY <1>18, SameLoading DEF TypeOK, ExecEnd, Executing
<1>19. ASSUME NEW c \in Cores, CoreLoop(c) PROVE LostKept
  BY <1>19, SameLoading DEF TypeOK, CoreLoop, LoopBranch
<1>20. ASSUME NEW c \in Cores, CoreIdleStop(c) PROVE LostKept
  BY <1>20, SameLoading DEF TypeOK, CoreIdleStop
<1>21. ASSUME NEW c \in Cores, OnCoreIdle(c) PROVE LostKept
  BY <1>21, SameLoading DEF TypeOK, OnCoreIdle, Woken
<1>22. ASSUME NEW c \in Cores, CoreSkip(c) PROVE LostKept
  BY <1>22, SameLoading DEF TypeOK, CoreSkip
<1>23. ASSUME NEW c \in Cores, ReleasePreempt(c) PROVE LostKept
  BY <1>23, SameLoading DEF TypeOK, ReleasePreempt, Woken
<1>24. ASSUME NEW c \in Cores, ReleaseNotify(c) PROVE LostKept
  BY <1>24, SameLoading DEF TypeOK, ReleaseNotify, Woken
<1>25. ASSUME NEW c \in Cores, NotifyPossibleShutdown(c) PROVE LostKept
  BY <1>25, SameLoading DEF TypeOK, NotifyPossibleShutdown
<1>26. ASSUME NEW c \in Cores, MainStart(c) PROVE LostKept
  BY <1>26, SameLoading DEF TypeOK, MainStart
<1>27. ASSUME NEW c \in Cores, MainStopCore(c) PROVE LostKept
  BY <1>27, SameLoading DEF TypeOK, MainStopCore
<1>28. ASSUME NEW c \in Cores, MainJoin(c) PROVE LostKept
  BY <1>28, SameLoading DEF TypeOK, MainJoin
<1>29. ASSUME NEW c \in Cores, SpuriousWake(c) PROVE LostKept
  BY <1>29, SameLoading DEF TypeOK, SpuriousWake
<1>30. ASSUME MainLoadNotify PROVE LostKept
  BY <1>30, SameLoading DEF TypeOK, MainLoadNotify, Woken
<1>31. ASSUME MainStarted PROVE LostKept
  BY <1>31, SameLoading DEF TypeOK, MainStarted
<1>32. ASSUME MainCheck PROVE LostKept
  BY <1>32, SameLoading DEF TypeOK, MainCheck
<1>33. ASSUME MainStopScheduler PROVE LostKept
  BY <1>33, SameLoading DEF TypeOK, MainStopScheduler
<1>34. ASSUME MainStopNotify PROVE LostKept
  BY <1>34, SameLoading DEF TypeOK, MainStopNotify, Woken
<1>35. ASSUME MainStopped PROVE LostKept
  BY <1>35, SameLoading DEF TypeOK, MainStopped
<1>36. ASSUME MainReturn PROVE LostKept
  BY <1>36, SameLoading DEF TypeOK, MainReturn
<1>37. ASSUME MainLoad PROVE LostKept
  <2>1. Loading' = Loading
    BY <1>37 DEF MainLoad, Loading
  <2> QED BY <1>37, <2>1, LoadingCount
          DEF MainLoad, Emplace, Lost, LostKept, TypeOK
<1>38. ASSUME MainRun PROVE LostKept
  BY <1>38, SameLoading DEF TypeOK, MainRun, Woken
<1>39. ASSUME NEW p \in InTable, MainStepLoad(p) PROVE LostKept
  <2>1. Loading' = Loading
    BY <1>39 DEF MainStepLoad, Loading
  <2> QED BY <1>39, <2>1, LoadingCount DEF MainStepLoad, Lost, LostKept, TypeOK
<1>40. ASSUME NEW p \in InTable, NEW k \in Kinds, MainStep(p, k) PROVE LostKept
  BY <1>40, SameLoading DEF TypeOK, MainStep
<1>41. ASSUME MainSpuriousWake PROVE LostKept
  BY <1>41, SameLoading DEF TypeOK, MainSpuriousWake
<1>42. ASSUME NEW c \in Cores, ReleaseProcess(c) PROVE LostKept
  BY <1>42, SameLoading DEF TypeOK, ReleaseProcess, ReleaseTo
<1>43. ASSUME NEW c \in Cores, StoreHalted(c) PROVE LostKept
  BY <1>43, SameLoading DEF TypeOK, StoreHalted
<1>44. ASSUME NEW c \in Cores, ReleaseReady(c) PROVE LostKept
  BY <1>44, SameLoading DEF TypeOK, ReleaseReady
<1>45. ASSUME MainLoadFails PROVE LostKept
  <2>1. Loading' = Loading
    BY <1>45 DEF MainLoadFails, Loading
  <2> QED BY <1>45, <2>1, LoadingCount
          DEF MainLoadFails, Lost, LostKept, TypeOK
<1>46. ASSUME NEW p \in InTable, MainStepLoadFails(p) PROVE LostKept
  <2>1. Loading' = Loading
    BY <1>46 DEF MainStepLoadFails, Loading
  <2> QED BY <1>46, <2>1, LoadingCount
          DEF MainStepLoadFails, Lost, LostKept, TypeOK
<1> QED
  BY <1>1, <1>2, <1>3, <1>4, <1>5, <1>6, <1>7, <1>8, <1>9, <1>10, <1>11,
     <1>12, <1>13, <1>14, <1>15, <1>16, <1>17, <1>18, <1>19, <1>20, <1>21,
     <1>22, <1>23, <1>24, <1>25, <1>26, <1>27, <1>28, <1>29, <1>30, <1>31,
     <1>32, <1>33, <1>34, <1>35, <1>36, <1>37, <1>38, <1>39, <1>40, <1>41,
     <1>42, <1>43, <1>44, <1>45, <1>46
  DEF Next, OwnerStep, ClientCall, Spurious, CoreStep, AcquireProcess,
      LoadProgram, ExecuteInstruction

\* So the table and the load calls in progress never outnumber the regions.
LEMMA AccountedStep ==
    ASSUME TypeOK, RegionsAccounted, Next, TypeOK'
    PROVE  RegionsAccounted'
<1>1. LostKept
  BY LostStep
<1>2. Cardinality(Loading) \in Nat /\ Cardinality(Loading') \in Nat
  BY ConstantsAssumption, FS_Subset, FS_CardinalityType DEF Loading
<1>3. /\ count \in Int /\ regions \in Int /\ count' \in Int /\ regions' \in Int
  BY ConstantsAssumption DEF TypeOK
<1> QED BY <1>1, <1>2, <1>3 DEF Lost, LostKept, RegionsAccounted

\* Every step preserves that coreLoop works on a process: only a successful
\* acquireProcess leads to execution.
LEMMA NoNullStep ==
    ASSUME TypeOK, NoNullProcess, Next
    PROVE  NoNullProcess'
<1> USE DEF tableVars, pcbVars, schedVars, coreVars, loadVars, mainVars,
        HoldPCs, EndPCs, LoadPCs
<1>1. ASSUME NEW c \in Cores, AcquireStopped(c) PROVE NoNullProcess'
  BY <1>1 DEF TypeOK, NoNullProcess, AcquireStopped
<1>2. ASSUME NEW c \in Cores, AcquireWait(c) PROVE NoNullProcess'
  BY <1>2 DEF TypeOK, NoNullProcess, AcquireWait
<1>3. ASSUME NEW c \in Cores, AcquireBlock(c) PROVE NoNullProcess'
  BY <1>3 DEF TypeOK, NoNullProcess, AcquireBlock
<1>4. ASSUME NEW c \in Cores, AcquireQueued(c) PROVE NoNullProcess'
  <2>1. PICK k \in DOMAIN readyQueue, p \in InTable : Dispatch(c, p)
    BY <1>4 DEF AcquireQueued
  <2>2. p # None
    BY DEF InTable, None
  <2> QED BY <2>1, <2>2 DEF Dispatch, NoNullProcess, TypeOK
<1>5. ASSUME NEW c \in Cores, AcquireRoundRobin(c) PROVE NoNullProcess'
  <2>1. PICK i \in 0..count - 1 : Dispatch(c, Scan(i))
    BY <1>5 DEF AcquireRoundRobin
  <2>2. Scan(i) # None
    BY ScanType DEF InTable, None
  <2> QED BY <2>1, <2>2 DEF Dispatch, NoNullProcess, TypeOK
<1>6. ASSUME NEW c \in Cores, AcquireNothing(c) PROVE NoNullProcess'
  BY <1>6 DEF TypeOK, NoNullProcess, AcquireNothing
<1>7. ASSUME NEW c \in Cores, LoadAlloc(c) PROVE NoNullProcess'
  BY <1>7 DEF TypeOK, NoNullProcess, LoadAlloc
<1>8. ASSUME NEW c \in Cores, LoadReadId(c) PROVE NoNullProcess'
  BY <1>8 DEF TypeOK, NoNullProcess, LoadReadId
<1>9. ASSUME NEW c \in Cores, LoadWriteId(c) PROVE NoNullProcess'
  BY <1>9 DEF TypeOK, NoNullProcess, LoadWriteId
<1>10. ASSUME NEW c \in Cores, LoadEmplace(c) PROVE NoNullProcess'
  BY <1>10 DEF TypeOK, NoNullProcess, LoadEmplace
<1>11. ASSUME NEW c \in Cores, LoadSetReady(c) PROVE NoNullProcess'
  BY <1>11 DEF TypeOK, NoNullProcess, LoadSetReady
<1>12. ASSUME NEW c \in Cores, LoadNotify(c) PROVE NoNullProcess'
  BY <1>12 DEF TypeOK, NoNullProcess, LoadNotify, Woken
<1>13. ASSUME NEW c \in Cores, LoadReturn(c) PROVE NoNullProcess'
  BY <1>13 DEF TypeOK, NoNullProcess, LoadReturn, AfterContinue
<1>14. ASSUME NEW c \in Cores, ExecContinue(c) PROVE NoNullProcess'
  BY <1>14 DEF TypeOK, NoNullProcess, ExecContinue, Executing, AfterContinue
<1>15. ASSUME NEW c \in Cores, ExecYield(c) PROVE NoNullProcess'
  BY <1>15 DEF TypeOK, NoNullProcess, ExecYield, Executing
<1>16. ASSUME NEW c \in Cores, ExecThrow(c) PROVE NoNullProcess'
  BY <1>16 DEF TypeOK, NoNullProcess, ExecThrow, Executing
<1>17. ASSUME NEW c \in Cores, ExecLoad(c) PROVE NoNullProcess'
  BY <1>17 DEF TypeOK, NoNullProcess, ExecLoad, Executing
<1>18. ASSUME NEW c \in Cores, NEW k \in Kinds, ExecEnd(c, k) PROVE NoNullProcess'
  BY <1>18 DEF TypeOK, NoNullProcess, ExecEnd, Executing
<1>19. ASSUME NEW c \in Cores, CoreLoop(c) PROVE NoNullProcess'
  BY <1>19 DEF TypeOK, NoNullProcess, CoreLoop, LoopBranch
<1>20. ASSUME NEW c \in Cores, CoreIdleStop(c) PROVE NoNullProcess'
  BY <1>20 DEF TypeOK, NoNullProcess, CoreIdleStop
<1>21. ASSUME NEW c \in Cores, OnCoreIdle(c) PROVE NoNullProcess'
  BY <1>21 DEF TypeOK, NoNullProcess, OnCoreIdle, Woken
<1>22. ASSUME NEW c \in Cores, CoreSkip(c) PROVE NoNullProcess'
  BY <1>22 DEF TypeOK, NoNullProcess, CoreSkip
<1>23. ASSUME NEW c \in Cores, ReleasePreempt(c) PROVE NoNullProcess'
  BY <1>23 DEF TypeOK, NoNullProcess, ReleasePreempt, Woken
<1>24. ASSUME NEW c \in Cores, ReleaseNotify(c) PROVE NoNullProcess'
  BY <1>24 DEF TypeOK, NoNullProcess, ReleaseNotify, Woken
<1>25. ASSUME NEW c \in Cores, NotifyPossibleShutdown(c) PROVE NoNullProcess'
  BY <1>25 DEF TypeOK, NoNullProcess, NotifyPossibleShutdown
<1>26. ASSUME NEW c \in Cores, MainStart(c) PROVE NoNullProcess'
  BY <1>26 DEF TypeOK, NoNullProcess, MainStart
<1>27. ASSUME NEW c \in Cores, MainStopCore(c) PROVE NoNullProcess'
  BY <1>27 DEF TypeOK, NoNullProcess, MainStopCore
<1>28. ASSUME NEW c \in Cores, MainJoin(c) PROVE NoNullProcess'
  BY <1>28 DEF TypeOK, NoNullProcess, MainJoin
<1>29. ASSUME NEW c \in Cores, SpuriousWake(c) PROVE NoNullProcess'
  BY <1>29 DEF TypeOK, NoNullProcess, SpuriousWake
<1>30. ASSUME MainLoadNotify PROVE NoNullProcess'
  BY <1>30 DEF TypeOK, NoNullProcess, MainLoadNotify, Woken
<1>31. ASSUME MainStarted PROVE NoNullProcess'
  BY <1>31 DEF TypeOK, NoNullProcess, MainStarted
<1>32. ASSUME MainCheck PROVE NoNullProcess'
  BY <1>32 DEF TypeOK, NoNullProcess, MainCheck
<1>33. ASSUME MainStopScheduler PROVE NoNullProcess'
  BY <1>33 DEF TypeOK, NoNullProcess, MainStopScheduler
<1>34. ASSUME MainStopNotify PROVE NoNullProcess'
  BY <1>34 DEF TypeOK, NoNullProcess, MainStopNotify, Woken
<1>35. ASSUME MainStopped PROVE NoNullProcess'
  BY <1>35 DEF TypeOK, NoNullProcess, MainStopped
<1>36. ASSUME MainReturn PROVE NoNullProcess'
  BY <1>36 DEF TypeOK, NoNullProcess, MainReturn
<1>37. ASSUME MainLoad PROVE NoNullProcess'
  BY <1>37 DEF TypeOK, NoNullProcess, MainLoad
<1>38. ASSUME MainRun PROVE NoNullProcess'
  BY <1>38 DEF TypeOK, NoNullProcess, MainRun, Woken
<1>39. ASSUME NEW p \in InTable, MainStepLoad(p) PROVE NoNullProcess'
  BY <1>39 DEF TypeOK, NoNullProcess, MainStepLoad
<1>40. ASSUME NEW p \in InTable, NEW k \in Kinds, MainStep(p, k) PROVE NoNullProcess'
  BY <1>40 DEF TypeOK, NoNullProcess, MainStep
<1>41. ASSUME MainSpuriousWake PROVE NoNullProcess'
  BY <1>41 DEF TypeOK, NoNullProcess, MainSpuriousWake
<1>42. ASSUME NEW c \in Cores, ReleaseProcess(c) PROVE NoNullProcess'
  BY <1>42 DEF TypeOK, NoNullProcess, ReleaseProcess, ReleaseTo
<1>43. ASSUME NEW c \in Cores, StoreHalted(c) PROVE NoNullProcess'
  BY <1>43 DEF TypeOK, NoNullProcess, StoreHalted
<1>44. ASSUME NEW c \in Cores, ReleaseReady(c) PROVE NoNullProcess'
  BY <1>44 DEF TypeOK, NoNullProcess, ReleaseReady
<1>45. ASSUME MainLoadFails PROVE NoNullProcess'
  BY <1>45 DEF TypeOK, NoNullProcess, MainLoadFails
<1>46. ASSUME NEW p \in InTable, MainStepLoadFails(p) PROVE NoNullProcess'
  BY <1>46 DEF TypeOK, NoNullProcess, MainStepLoadFails
<1> QED
  BY <1>1, <1>2, <1>3, <1>4, <1>5, <1>6, <1>7, <1>8, <1>9, <1>10, <1>11,
     <1>12, <1>13, <1>14, <1>15, <1>16, <1>17, <1>18, <1>19, <1>20, <1>21,
     <1>22, <1>23, <1>24, <1>25, <1>26, <1>27, <1>28, <1>29, <1>30, <1>31,
     <1>32, <1>33, <1>34, <1>35, <1>36, <1>37, <1>38, <1>39, <1>40, <1>41,
     <1>42, <1>43, <1>44, <1>45, <1>46
  DEF Next, OwnerStep, ClientCall, Spurious, CoreStep, AcquireProcess,
      LoadProgram, ExecuteInstruction

\* The inductive invariant behind the theorems that hold without restriction.
Inv == TypeOK /\ RegionsAccounted /\ NoNullProcess

\* It holds before the first call, and as long as nothing moves.
LEMMA InitInv == ASSUME Init PROVE Inv
<1>1. TypeOK
  <2>1. 0 \in 0..MaxProcs /\ 0 \in 0..Quantum /\ 0 \in 0..MaxRuns /\ <<>> \in Seq(Nat)
    BY ConstantsAssumption
  <2>2. /\ count \in 0..MaxProcs /\ regions \in 0..MaxProcs
        /\ nextId \in Nat \ {0} /\ id \in [Procs -> Nat]
        /\ roundRobinIndex \in 0..MaxProcs /\ runs \in 0..MaxRuns
        /\ readyQueue \in Seq(Nat) /\ slice \in [Procs -> 0..Quantum]
    BY <2>1 DEF Init
  <2>3. /\ state \in [Procs -> States]
        /\ halted \in [Procs -> BOOLEAN] /\ shouldYield \in [Procs -> BOOLEAN]
        /\ schedRunning \in BOOLEAN /\ crashed \in BOOLEAN
    BY DEF Init, States
  <2>4. /\ cpc \in [Cores -> CorePCs] /\ mpc \in MainPCs
        /\ held \in [Cores -> Procs \cup {None}]
        /\ stopRequested \in [Cores -> BOOLEAN]
        /\ newId \in [Cores -> Nat] /\ newSlot \in [Cores -> Procs \cup {None}]
    BY DEF Init, CorePCs, FreePCs, MainPCs
  <2> QED BY <2>2, <2>3, <2>4 DEF TypeOK
<1>2. Loading = {}
  BY DEF Init, Loading
<1>3. RegionsAccounted
  BY <1>2, FS_EmptySet DEF Init, RegionsAccounted
<1>4. NoNullProcess
  BY DEF Init, NoNullProcess, HoldPCs, EndPCs, LoadPCs
<1> QED BY <1>1, <1>3, <1>4 DEF Inv

LEMMA InvStutter == ASSUME Inv, UNCHANGED vars PROVE Inv'
  BY DEF vars, tableVars, pcbVars, schedVars, coreVars, loadVars, mainVars,
     Inv, TypeOK, RegionsAccounted, Loading, NoNullProcess

\* Type correctness, region accounting and absence of null processes, for any
\* number of cores, regions, runs and any quantum.  The three are proved together:
\* none is inductive without the other two.
THEOREM TypeCorrect == Spec => [](TypeOK /\ RegionsAccounted /\ NoNullProcess)
<1>1. Init => Inv
  BY InitInv
<1>2. Inv /\ [Next]_vars => Inv'
  <2>1. ASSUME Inv, Next PROVE Inv'
    <3>1. TypeOK' /\ NoNullProcess'
      BY <2>1, TypeStep, NoNullStep DEF Inv
    <3> QED BY <2>1, <3>1, AccountedStep DEF Inv
  <2> QED BY <2>1, InvStutter
<1> QED BY <1>1, <1>2, PTL DEF Spec, Inv

\* Regions are lost only by loads of the owner thread that fail behind
\* allocateRegion, however many load calls overlap on the cores.
THEOREM LosesNoRegion == Spec => RegionsKept
<1> DEFINE Kept == Lost' # Lost =>
                      \/ mpc = "idle" /\ mpc' = "idle" /\ Lost' = Lost + 1
                      \/ crashed'
<1>1. TypeOK /\ [Next]_vars => [Kept]_vars
  BY LostStep DEF LostKept
<1>2. Spec => [][Kept]_vars
  BY <1>1, TypeCorrect, PTL DEF Spec
<1> QED BY <1>2 DEF RegionsKept

\* coreLoop never uses a null process, load calls and stops included.
THEOREM NeverNull == Spec => []NoNullProcess
<1> QED BY TypeCorrect, PTL

\* Every step preserves that no core sleeps while there is work: pushes happen
\* with mutex_ free, so nobody is between the test and the sleep, and notify_all
\* empties the wait set.
LEMMA NoSleepStep ==
    ASSUME TypeOK, NoSleepOnWork, Next
    PROVE  NoSleepOnWork'
<1> USE DEF tableVars, pcbVars, schedVars, coreVars, loadVars, mainVars,
        TakeRegion
<1>1. ASSUME NEW c \in Cores, AcquireStopped(c) PROVE NoSleepOnWork'
  BY <1>1 DEF TypeOK, NoSleepOnWork, AcquireStopped
<1>2. ASSUME NEW c \in Cores, AcquireWait(c) PROVE NoSleepOnWork'
  BY <1>2 DEF TypeOK, NoSleepOnWork, AcquireWait
<1>3. ASSUME NEW c \in Cores, AcquireBlock(c) PROVE NoSleepOnWork'
  BY <1>3 DEF TypeOK, NoSleepOnWork, AcquireBlock
<1>4. ASSUME NEW c \in Cores, AcquireQueued(c) PROVE NoSleepOnWork'
  <2>1. PICK k \in DOMAIN readyQueue, p \in InTable : Dispatch(c, p)
    BY <1>4 DEF AcquireQueued
  <2>2. readyQueue # <<>>
    BY <2>1
  <2> QED BY <2>1, <2>2 DEF Dispatch, NoSleepOnWork, TypeOK
<1>5. ASSUME NEW c \in Cores, AcquireRoundRobin(c) PROVE NoSleepOnWork'
  BY <1>5 DEF AcquireRoundRobin, NoSleepOnWork
<1>6. ASSUME NEW c \in Cores, AcquireNothing(c) PROVE NoSleepOnWork'
  BY <1>6 DEF AcquireNothing, NoSleepOnWork
<1>7. ASSUME NEW c \in Cores, LoadAlloc(c) PROVE NoSleepOnWork'
  BY <1>7 DEF TypeOK, NoSleepOnWork, LoadAlloc
<1>8. ASSUME NEW c \in Cores, LoadReadId(c) PROVE NoSleepOnWork'
  BY <1>8 DEF TypeOK, NoSleepOnWork, LoadReadId
<1>9. ASSUME NEW c \in Cores, LoadWriteId(c) PROVE NoSleepOnWork'
  BY <1>9 DEF TypeOK, NoSleepOnWork, LoadWriteId
<1>10. ASSUME NEW c \in Cores, LoadEmplace(c) PROVE NoSleepOnWork'
  BY <1>10 DEF TypeOK, NoSleepOnWork, LoadEmplace
<1>11. ASSUME NEW c \in Cores, LoadSetReady(c) PROVE NoSleepOnWork'
  BY <1>11 DEF TypeOK, NoSleepOnWork, LoadSetReady
<1>12. ASSUME NEW c \in Cores, LoadNotify(c) PROVE NoSleepOnWork'
  BY <1>12 DEF TypeOK, NoSleepOnWork, LoadNotify, Woken, MutexFree
<1>13. ASSUME NEW c \in Cores, LoadReturn(c) PROVE NoSleepOnWork'
  BY <1>13 DEF TypeOK, NoSleepOnWork, LoadReturn, AfterContinue
<1>14. ASSUME NEW c \in Cores, ExecContinue(c) PROVE NoSleepOnWork'
  BY <1>14 DEF TypeOK, NoSleepOnWork, ExecContinue, Executing, AfterContinue
<1>15. ASSUME NEW c \in Cores, ExecYield(c) PROVE NoSleepOnWork'
  BY <1>15 DEF TypeOK, NoSleepOnWork, ExecYield, Executing
<1>16. ASSUME NEW c \in Cores, ExecThrow(c) PROVE NoSleepOnWork'
  BY <1>16 DEF TypeOK, NoSleepOnWork, ExecThrow, Executing
<1>17. ASSUME NEW c \in Cores, ExecLoad(c) PROVE NoSleepOnWork'
  BY <1>17 DEF TypeOK, NoSleepOnWork, ExecLoad, Executing
<1>18. ASSUME NEW c \in Cores, NEW k \in Kinds, ExecEnd(c, k) PROVE NoSleepOnWork'
  BY <1>18 DEF TypeOK, NoSleepOnWork, ExecEnd, Executing
<1>19. ASSUME NEW c \in Cores, CoreLoop(c) PROVE NoSleepOnWork'
  BY <1>19 DEF TypeOK, NoSleepOnWork, CoreLoop, LoopBranch
<1>20. ASSUME NEW c \in Cores, CoreIdleStop(c) PROVE NoSleepOnWork'
  BY <1>20 DEF TypeOK, NoSleepOnWork, CoreIdleStop
<1>21. ASSUME NEW c \in Cores, OnCoreIdle(c) PROVE NoSleepOnWork'
  BY <1>21 DEF TypeOK, NoSleepOnWork, OnCoreIdle, Woken, MutexFree
<1>22. ASSUME NEW c \in Cores, CoreSkip(c) PROVE NoSleepOnWork'
  BY <1>22 DEF TypeOK, NoSleepOnWork, CoreSkip
<1>23. ASSUME NEW c \in Cores, ReleasePreempt(c) PROVE NoSleepOnWork'
  BY <1>23 DEF TypeOK, NoSleepOnWork, ReleasePreempt, Woken, MutexFree
<1>24. ASSUME NEW c \in Cores, ReleaseNotify(c) PROVE NoSleepOnWork'
  BY <1>24 DEF TypeOK, NoSleepOnWork, ReleaseNotify, Woken, MutexFree
<1>25. ASSUME NEW c \in Cores, NotifyPossibleShutdown(c) PROVE NoSleepOnWork'
  BY <1>25 DEF TypeOK, NoSleepOnWork, NotifyPossibleShutdown
<1>26. ASSUME NEW c \in Cores, MainStart(c) PROVE NoSleepOnWork'
  BY <1>26 DEF TypeOK, NoSleepOnWork, MainStart
<1>27. ASSUME NEW c \in Cores, MainStopCore(c) PROVE NoSleepOnWork'
  BY <1>27 DEF TypeOK, NoSleepOnWork, MainStopCore
<1>28. ASSUME NEW c \in Cores, MainJoin(c) PROVE NoSleepOnWork'
  BY <1>28 DEF TypeOK, NoSleepOnWork, MainJoin
<1>29. ASSUME NEW c \in Cores, SpuriousWake(c) PROVE NoSleepOnWork'
  BY <1>29 DEF TypeOK, NoSleepOnWork, SpuriousWake
<1>30. ASSUME MainLoadNotify PROVE NoSleepOnWork'
  BY <1>30 DEF TypeOK, NoSleepOnWork, MainLoadNotify, Woken, MutexFree
<1>31. ASSUME MainStarted PROVE NoSleepOnWork'
  BY <1>31 DEF TypeOK, NoSleepOnWork, MainStarted
<1>32. ASSUME MainCheck PROVE NoSleepOnWork'
  BY <1>32 DEF TypeOK, NoSleepOnWork, MainCheck
<1>33. ASSUME MainStopScheduler PROVE NoSleepOnWork'
  BY <1>33 DEF TypeOK, NoSleepOnWork, MainStopScheduler
<1>34. ASSUME MainStopNotify PROVE NoSleepOnWork'
  BY <1>34 DEF TypeOK, NoSleepOnWork, MainStopNotify, Woken
<1>35. ASSUME MainStopped PROVE NoSleepOnWork'
  BY <1>35 DEF TypeOK, NoSleepOnWork, MainStopped
<1>36. ASSUME MainReturn PROVE NoSleepOnWork'
  BY <1>36 DEF TypeOK, NoSleepOnWork, MainReturn
<1>37. ASSUME MainLoad PROVE NoSleepOnWork'
  BY <1>37 DEF TypeOK, NoSleepOnWork, MainLoad
<1>38. ASSUME MainRun PROVE NoSleepOnWork'
  BY <1>38 DEF TypeOK, NoSleepOnWork, MainRun, Woken, MutexFree
<1>39. ASSUME NEW p \in InTable, MainStepLoad(p) PROVE NoSleepOnWork'
  BY <1>39 DEF TypeOK, NoSleepOnWork, MainStepLoad
<1>40. ASSUME NEW p \in InTable, NEW k \in Kinds, MainStep(p, k) PROVE NoSleepOnWork'
  BY <1>40 DEF TypeOK, NoSleepOnWork, MainStep
<1>41. ASSUME MainSpuriousWake PROVE NoSleepOnWork'
  BY <1>41 DEF TypeOK, NoSleepOnWork, MainSpuriousWake
<1>42. ASSUME NEW c \in Cores, ReleaseProcess(c) PROVE NoSleepOnWork'
  BY <1>42 DEF TypeOK, NoSleepOnWork, ReleaseProcess, ReleaseTo
<1>43. ASSUME NEW c \in Cores, StoreHalted(c) PROVE NoSleepOnWork'
  BY <1>43 DEF TypeOK, NoSleepOnWork, StoreHalted
<1>44. ASSUME NEW c \in Cores, ReleaseReady(c) PROVE NoSleepOnWork'
  BY <1>44 DEF TypeOK, NoSleepOnWork, ReleaseReady
<1>45. ASSUME MainLoadFails PROVE NoSleepOnWork'
  BY <1>45 DEF TypeOK, NoSleepOnWork, MainLoadFails
<1>46. ASSUME NEW p \in InTable, MainStepLoadFails(p) PROVE NoSleepOnWork'
  BY <1>46 DEF TypeOK, NoSleepOnWork, MainStepLoadFails
<1> QED
  BY <1>1, <1>2, <1>3, <1>4, <1>5, <1>6, <1>7, <1>8, <1>9, <1>10, <1>11,
     <1>12, <1>13, <1>14, <1>15, <1>16, <1>17, <1>18, <1>19, <1>20, <1>21,
     <1>22, <1>23, <1>24, <1>25, <1>26, <1>27, <1>28, <1>29, <1>30, <1>31,
     <1>32, <1>33, <1>34, <1>35, <1>36, <1>37, <1>38, <1>39, <1>40, <1>41,
     <1>42, <1>43, <1>44, <1>45, <1>46
  DEF Next, OwnerStep, ClientCall, Spurious, CoreStep, AcquireProcess,
      LoadProgram, ExecuteInstruction

\* Every step preserves that a shutdown notification is still to come: the last
\* process to halt leaves its core on the way to notifyPossibleShutdown.
LEMMA ShutdownStep ==
    ASSUME TypeOK, RegionsAccounted, ShutdownPending, Next
    PROVE  ShutdownPending'
<1> USE DEF tableVars, pcbVars, schedVars, coreVars, loadVars, mainVars,
        TakeRegion
<1>1. ASSUME NEW c \in Cores, AcquireStopped(c) PROVE ShutdownPending'
  BY <1>1 DEF TypeOK, ShutdownPending, EndPCs, Done, InTable, AcquireStopped
<1>2. ASSUME NEW c \in Cores, AcquireWait(c) PROVE ShutdownPending'
  BY <1>2 DEF TypeOK, ShutdownPending, EndPCs, Done, InTable, AcquireWait
<1>3. ASSUME NEW c \in Cores, AcquireBlock(c) PROVE ShutdownPending'
  BY <1>3 DEF TypeOK, ShutdownPending, EndPCs, Done, InTable, AcquireBlock
<1>4. ASSUME NEW c \in Cores, AcquireQueued(c) PROVE ShutdownPending'
  BY <1>4 DEF TypeOK, ShutdownPending, EndPCs, Done, InTable, AcquireQueued, Dispatch,
     MarkRunning, FirstReady
<1>5. ASSUME NEW c \in Cores, AcquireRoundRobin(c) PROVE ShutdownPending'
  BY <1>5 DEF TypeOK, ShutdownPending, EndPCs, Done, InTable, AcquireRoundRobin,
     Dispatch, MarkRunning
<1>6. ASSUME NEW c \in Cores, AcquireNothing(c) PROVE ShutdownPending'
  BY <1>6 DEF TypeOK, ShutdownPending, EndPCs, Done, InTable, AcquireNothing
<1>7. ASSUME NEW c \in Cores, LoadAlloc(c) PROVE ShutdownPending'
  BY <1>7 DEF TypeOK, ShutdownPending, EndPCs, Done, InTable, LoadAlloc
<1>8. ASSUME NEW c \in Cores, LoadReadId(c) PROVE ShutdownPending'
  BY <1>8 DEF TypeOK, ShutdownPending, EndPCs, Done, InTable, LoadReadId
<1>9. ASSUME NEW c \in Cores, LoadWriteId(c) PROVE ShutdownPending'
  BY <1>9 DEF TypeOK, ShutdownPending, EndPCs, Done, InTable, LoadWriteId
<1>10. ASSUME NEW c \in Cores, LoadEmplace(c) PROVE ShutdownPending'
  BY <1>10 DEF TypeOK, ShutdownPending, EndPCs, Done, InTable, LoadEmplace, Emplace
<1>11. ASSUME NEW c \in Cores, LoadSetReady(c) PROVE ShutdownPending'
  BY <1>11 DEF TypeOK, ShutdownPending, EndPCs, Done, InTable, LoadSetReady
<1>12. ASSUME NEW c \in Cores, LoadNotify(c) PROVE ShutdownPending'
  BY <1>12 DEF TypeOK, ShutdownPending, EndPCs, Done, InTable, LoadNotify, Woken
<1>13. ASSUME NEW c \in Cores, LoadReturn(c) PROVE ShutdownPending'
  BY <1>13 DEF TypeOK, ShutdownPending, EndPCs, Done, InTable, LoadReturn,
     AfterContinue
<1>14. ASSUME NEW c \in Cores, ExecContinue(c) PROVE ShutdownPending'
  BY <1>14 DEF TypeOK, ShutdownPending, EndPCs, Done, InTable, ExecContinue,
     Executing, AfterContinue
<1>15. ASSUME NEW c \in Cores, ExecYield(c) PROVE ShutdownPending'
  BY <1>15 DEF TypeOK, ShutdownPending, EndPCs, Done, InTable, ExecYield, Executing
<1>16. ASSUME NEW c \in Cores, ExecThrow(c) PROVE ShutdownPending'
  BY <1>16 DEF TypeOK, ShutdownPending, EndPCs, Done, InTable, ExecThrow, Executing
<1>17. ASSUME NEW c \in Cores, ExecLoad(c) PROVE ShutdownPending'
  BY <1>17 DEF TypeOK, ShutdownPending, EndPCs, Done, InTable, ExecLoad, Executing
<1>18. ASSUME NEW c \in Cores, NEW k \in Kinds, ExecEnd(c, k) PROVE ShutdownPending'
  BY <1>18 DEF TypeOK, ShutdownPending, EndPCs, Done, InTable, ExecEnd, Executing
<1>19. ASSUME NEW c \in Cores, CoreLoop(c) PROVE ShutdownPending'
  BY <1>19 DEF TypeOK, ShutdownPending, EndPCs, Done, InTable, CoreLoop, LoopBranch
<1>20. ASSUME NEW c \in Cores, CoreIdleStop(c) PROVE ShutdownPending'
  BY <1>20 DEF TypeOK, ShutdownPending, EndPCs, Done, InTable, CoreIdleStop
<1>21. ASSUME NEW c \in Cores, OnCoreIdle(c) PROVE ShutdownPending'
  BY <1>21 DEF TypeOK, ShutdownPending, EndPCs, Done, InTable, OnCoreIdle, Woken
<1>22. ASSUME NEW c \in Cores, CoreSkip(c) PROVE ShutdownPending'
  BY <1>22 DEF TypeOK, ShutdownPending, EndPCs, Done, InTable, CoreSkip
<1>23. ASSUME NEW c \in Cores, ReleasePreempt(c) PROVE ShutdownPending'
  <2>1. \A p \in Procs : state'[p] = "Halted" => state[p] = "Halted"
    BY <1>23 DEF ReleasePreempt, OnPreempt, TypeOK
  <2>2. Done' => Done
    BY <1>23, <2>1, InTableType DEF ReleasePreempt, Done, InTable
  <2> QED
    BY <1>23, <2>2 DEF ReleasePreempt, ShutdownPending, EndPCs, Woken, TypeOK
<1>24. ASSUME NEW c \in Cores, ReleaseNotify(c) PROVE ShutdownPending'
  BY <1>24 DEF ReleaseNotify, ShutdownPending, Done, InTable, Woken, TypeOK, EndPCs
<1>25. ASSUME NEW c \in Cores, NotifyPossibleShutdown(c) PROVE ShutdownPending'
  BY <1>25 DEF TypeOK, ShutdownPending, EndPCs, Done, InTable, NotifyPossibleShutdown,
     ShutdownNotified, AllHalted
<1>26. ASSUME NEW c \in Cores, MainStart(c) PROVE ShutdownPending'
  BY <1>26 DEF TypeOK, ShutdownPending, EndPCs, Done, InTable, MainStart
<1>27. ASSUME NEW c \in Cores, MainStopCore(c) PROVE ShutdownPending'
  BY <1>27 DEF TypeOK, ShutdownPending, EndPCs, Done, InTable, MainStopCore
<1>28. ASSUME NEW c \in Cores, MainJoin(c) PROVE ShutdownPending'
  BY <1>28 DEF TypeOK, ShutdownPending, EndPCs, Done, InTable, MainJoin
<1>29. ASSUME NEW c \in Cores, SpuriousWake(c) PROVE ShutdownPending'
  BY <1>29 DEF TypeOK, ShutdownPending, EndPCs, Done, InTable, SpuriousWake
<1>30. ASSUME MainLoadNotify PROVE ShutdownPending'
  BY <1>30 DEF TypeOK, ShutdownPending, EndPCs, Done, InTable, MainLoadNotify, Woken
<1>31. ASSUME MainStarted PROVE ShutdownPending'
  BY <1>31 DEF TypeOK, ShutdownPending, EndPCs, Done, InTable, MainStarted
<1>32. ASSUME MainCheck PROVE ShutdownPending'
  BY <1>32 DEF TypeOK, ShutdownPending, EndPCs, Done, InTable, MainCheck, AllHalted
<1>33. ASSUME MainStopScheduler PROVE ShutdownPending'
  BY <1>33 DEF TypeOK, ShutdownPending, EndPCs, Done, InTable, MainStopScheduler
<1>34. ASSUME MainStopNotify PROVE ShutdownPending'
  BY <1>34 DEF TypeOK, ShutdownPending, EndPCs, Done, InTable, MainStopNotify, Woken
<1>35. ASSUME MainStopped PROVE ShutdownPending'
  BY <1>35 DEF TypeOK, ShutdownPending, EndPCs, Done, InTable, MainStopped
<1>36. ASSUME MainReturn PROVE ShutdownPending'
  BY <1>36 DEF TypeOK, ShutdownPending, EndPCs, Done, InTable, MainReturn
<1>37. ASSUME MainLoad PROVE ShutdownPending'
  BY <1>37 DEF TypeOK, ShutdownPending, EndPCs, Done, InTable, MainLoad, Emplace
<1>38. ASSUME MainRun PROVE ShutdownPending'
  BY <1>38 DEF TypeOK, ShutdownPending, EndPCs, Done, InTable, MainRun, Woken
<1>39. ASSUME NEW p \in InTable, MainStepLoad(p) PROVE ShutdownPending'
  BY <1>39 DEF TypeOK, ShutdownPending, EndPCs, Done, InTable, MainStepLoad
<1>40. ASSUME NEW p \in InTable, NEW k \in Kinds, MainStep(p, k) PROVE ShutdownPending'
  BY <1>40 DEF TypeOK, ShutdownPending, EndPCs, Done, InTable, MainStep
<1>41. ASSUME MainSpuriousWake PROVE ShutdownPending'
  BY <1>41 DEF TypeOK, ShutdownPending, EndPCs, Done, InTable, MainSpuriousWake
<1>42. ASSUME NEW c \in Cores, ReleaseProcess(c) PROVE ShutdownPending'
  BY <1>42 DEF TypeOK, ShutdownPending, EndPCs, Done, InTable, ReleaseProcess, ReleaseTo
<1>43. ASSUME NEW c \in Cores, StoreHalted(c) PROVE ShutdownPending'
  BY <1>43 DEF TypeOK, ShutdownPending, EndPCs, StoreHalted
<1>44. ASSUME NEW c \in Cores, ReleaseReady(c) PROVE ShutdownPending'
  <2>1. \A p \in Procs : state'[p] = "Halted" => state[p] = "Halted"
    BY <1>44 DEF ReleaseReady, TypeOK
  <2>2. Done' => Done
    BY <1>44, <2>1, InTableType DEF ReleaseReady, Done, InTable
  <2> QED
    BY <1>44, <2>2 DEF ReleaseReady, ShutdownPending, TypeOK, EndPCs
<1>45. ASSUME MainLoadFails PROVE ShutdownPending'
  BY <1>45 DEF TypeOK, ShutdownPending, EndPCs, Done, InTable, MainLoadFails
<1>46. ASSUME NEW p \in InTable, MainStepLoadFails(p) PROVE ShutdownPending'
  BY <1>46 DEF TypeOK, ShutdownPending, EndPCs, Done, InTable, MainStepLoadFails
<1> QED
  BY <1>1, <1>2, <1>3, <1>4, <1>5, <1>6, <1>7, <1>8, <1>9, <1>10, <1>11,
     <1>12, <1>13, <1>14, <1>15, <1>16, <1>17, <1>18, <1>19, <1>20, <1>21,
     <1>22, <1>23, <1>24, <1>25, <1>26, <1>27, <1>28, <1>29, <1>30, <1>31,
     <1>32, <1>33, <1>34, <1>35, <1>36, <1>37, <1>38, <1>39, <1>40, <1>41,
     <1>42, <1>43, <1>44, <1>45, <1>46
  DEF Next, OwnerStep, ClientCall, Spurious, CoreStep, AcquireProcess,
      LoadProgram, ExecuteInstruction

\* No core ever sleeps on cv_ while readyQueue_ has an entry, load calls and
\* single-stepping included.
THEOREM NoSleep == Spec => []NoSleepOnWork
<1>1. Init => NoSleepOnWork
  BY DEF Init, NoSleepOnWork
<1>2. TypeOK /\ NoSleepOnWork /\ [Next]_vars => NoSleepOnWork'
  <2>1. ASSUME NoSleepOnWork, UNCHANGED vars PROVE NoSleepOnWork'
    BY <2>1 DEF vars, schedVars, coreVars, NoSleepOnWork
  <2> QED BY <2>1, NoSleepStep
<1> QED BY <1>1, <1>2, TypeCorrect, PTL DEF Spec

\* run() never sleeps on shutdownCv_ after the last process halted without some
\* core still owing it a notification, load calls and single-stepping included.
THEOREM ShutdownNeverMissed == Spec => []ShutdownPending
<1>1. Init => ShutdownPending
  BY DEF Init, ShutdownPending
<1>2. TypeOK /\ RegionsAccounted /\ ShutdownPending /\ [Next]_vars
        => ShutdownPending'
  <2>1. ASSUME ShutdownPending, UNCHANGED vars PROVE ShutdownPending'
    BY <2>1 DEF vars, tableVars, pcbVars, coreVars, mainVars, ShutdownPending,
       Done, InTable
  <2> QED BY <2>1, ShutdownStep
<1> QED BY <1>1, <1>2, TypeCorrect, PTL DEF Spec

-----------------------------------------------------------------------------
(* Ready processes are queued or announced, load calls included. *)

\* Some thread is on its way to notifyProcessReady.
Announcing ==
    \/ mpc = "load_notify"
    \/ \E c \in Cores : cpc[c] \in {"setready", "loadnotify", "skipped", "retired"}

\* Someone else in the table has the id of p.
SharesId(p) == \E q \in InTable \ {p} : id[q] = id[p]

LEMMA ReadyReachableIs ==
    ReadyReachable <=>
        \A p \in InTable : state[p] = "Ready" =>
            id[p] \in Queued \/ Announcing \/ SharesId(p)
BY DEF ReadyReachable, Announcing, SharesId

\* A nonempty set of natural numbers has a least element.
LEMMA LeastOf ==
    ASSUME NEW T \in SUBSET Nat, T # {}
    PROVE  \E q \in T : \A r \in T : q <= r
<1> DEFINE R == {ss \in Nat \X Nat : ss[1] < ss[2]}
<1>1. IsWellFoundedOn(R, Nat)
  BY NatLessThanWellFounded DEF OpToRel
<1>2. PICK q \in T : \A r \in T : ~(<<r, q>> \in R)
  <2> HIDE DEF R
  <2> QED BY <1>1, WFMin
<1>3. \A r \in T : ~(r < q)
  BY <1>2
<1> QED BY <1>3

\* After notifyProcessReady every Ready process has its id in the queue, even if
\* another one put it there.
LEMMA EnqueueAll ==
    ASSUME TypeOK, EnqueueReady(state), UNCHANGED <<count, id>>,
           NEW p \in InTable, state[p] = "Ready"
    PROVE  id'[p] \in Queued'
<1> DEFINE S == {q \in InTable : state[q] = "Ready" /\ id[q] = id[p]}
<1>1. PICK n \in 0..MaxProcs : \E s \in [1..n -> Unqueued(state)] :
        /\ \A q \in Unqueued(state) : \E i \in 1..n : s[i] = q
        /\ readyQueue' = readyQueue \o [i \in 1..n |-> id[s[i]]]
  BY DEF EnqueueReady
<1>2. PICK s \in [1..n -> Unqueued(state)] :
        /\ \A q \in Unqueued(state) : \E i \in 1..n : s[i] = q
        /\ readyQueue' = readyQueue \o [i \in 1..n |-> id[s[i]]]
  BY <1>1
<1> DEFINE t == [i \in 1..n |-> id[s[i]]]
<1>3. readyQueue \in Seq(Nat) /\ n \in Nat
  BY ConstantsAssumption DEF TypeOK
<1>4. t \in Seq(Nat) /\ Len(t) = n
  <2>1. \A i \in 1..n : id[s[i]] \in Nat
    BY InTableType DEF TypeOK, Unqueued
  <2> QED BY <1>3, <2>1
<1>5. CASE id[p] \in Queued
  <2>1. PICK i \in DOMAIN readyQueue : readyQueue[i] = id[p]
    BY <1>5 DEF Queued
  <2> HIDE DEF t
  <2>2. i \in DOMAIN (readyQueue \o t) /\ (readyQueue \o t)[i] = readyQueue[i]
    BY <1>3, <1>4
  <2> QED BY <1>2, <2>1, <2>2 DEF Queued, t
<1>6. CASE id[p] \notin Queued
  <2>1. S \in SUBSET Nat /\ p \in S
    BY DEF InTable, TypeOK
  <2>2. PICK q \in S : \A r \in S : q <= r
    BY <2>1, LeastOf
  <2>3. q \in Unqueued(state)
    <3>1. \A r \in InTable : r < q => ~(state[r] = "Ready" /\ id[r] = id[p])
      <4>1. \A r \in S : ~(r < q)
        BY <2>1, <2>2
      <4> QED BY <4>1
    <3> QED BY <1>6, <2>2, <3>1 DEF Unqueued, FirstReady
  <2>4. PICK i \in 1..n : s[i] = q
    BY <1>2, <2>3
  <2>5. t[i] = id[p]
    BY <2>2, <2>4
  <2> HIDE DEF t
  <2>6. /\ Len(readyQueue) + i \in DOMAIN (readyQueue \o t)
        /\ (readyQueue \o t)[Len(readyQueue) + i] = t[i]
    BY <1>3, <1>4
  <2> QED BY <1>2, <2>5, <2>6 DEF Queued, t
<1> QED BY <1>5, <1>6

\* A step that makes no process Ready, takes nothing from the queue and ends no
\* announcement.
ReadyQuiet ==
    /\ UNCHANGED <<count, id, readyQueue>>
    /\ \A p \in InTable : state'[p] = "Ready" => state[p] = "Ready"
    /\ Announcing => Announcing'

LEMMA ReadyQuietStep ==
    ASSUME ReadyReachable, ReadyQuiet
    PROVE  ReadyReachable'
BY ReadyReachableIs DEF ReadyQuiet, ReadyReachable, Announcing, InTable, Queued

\* What pop_front leaves behind moves to the front.
LEMMA SuffixAt ==
    ASSUME NEW q \in Seq(Nat), NEW k \in 1..Len(q), NEW i \in 1..Len(q), i > k
    PROVE  /\ i - k \in DOMAIN SubSeq(q, k + 1, Len(q))
           /\ SubSeq(q, k + 1, Len(q))[i - k] = q[i]
<1>1. Len(q) \in Nat /\ k \in Nat /\ i \in Nat
  OBVIOUS
<1>2. Len(SubSeq(q, k + 1, Len(q))) = Len(q) - k
  BY <1>1
<1>3. i - k \in 1..Len(q) - k /\ k + 1 + (i - k) - 1 = i
  BY <1>1
<1> QED BY <1>1, <1>2, <1>3

\* pickNextProcess takes the id of a process it makes Running, and drops only
\* entries that are nobody's.
LEMMA ReadyTaken ==
    ASSUME TypeOK, ReadyReachable, NEW c \in Cores,
           AcquireQueued(c) \/ AcquireRoundRobin(c) \/ AcquireNothing(c)
    PROVE  ReadyReachable'
<1> USE DEF tableVars, pcbVars, schedVars, coreVars, loadVars, mainVars,
        TakeRegion
<1>1. CASE AcquireQueued(c)
  <2>1. PICK k \in DOMAIN readyQueue : \E p \in InTable :
          /\ \A j \in 1..k - 1 : Stale(readyQueue[j])
          /\ FirstReady(state, readyQueue[k], p)
          /\ readyQueue' = SubSeq(readyQueue, k + 1, Len(readyQueue))
          /\ Dispatch(c, p)
    BY <1>1 DEF AcquireQueued
  <2>2. PICK p \in InTable :
          /\ \A j \in 1..k - 1 : Stale(readyQueue[j])
          /\ FirstReady(state, readyQueue[k], p)
          /\ readyQueue' = SubSeq(readyQueue, k + 1, Len(readyQueue))
          /\ Dispatch(c, p)
    BY <2>1
  <2>3. /\ UNCHANGED <<count, id, mpc>>
        /\ state' = [state EXCEPT ![p] = "Running"]
        /\ cpc' = [cpc EXCEPT ![c] = "run"] /\ cpc[c] = "acquire"
    BY <1>1, <2>2 DEF Dispatch, MarkRunning, AcquireQueued
  <2>4. Announcing' <=> Announcing
    BY <2>3 DEF Announcing, TypeOK
  <2>5. ASSUME NEW q \in InTable, state'[q] = "Ready"
        PROVE  id[q] \in Queued' \/ Announcing' \/ SharesId(q)
    <3>1. q # p /\ state[q] = "Ready"
      BY <2>3, <2>5, InTableType DEF TypeOK
    <3>2. CASE id[q] \notin Queued
      BY <2>4, <3>1, <3>2, ReadyReachableIs
    <3>3. CASE id[q] \in Queued
      <4>1. PICK i \in DOMAIN readyQueue : readyQueue[i] = id[q]
        BY <3>3 DEF Queued
      <4>2. ~Stale(readyQueue[i])
        BY <3>1, <4>1 DEF Stale
      <4>3. readyQueue \in Seq(Nat) /\ i \in 1..Len(readyQueue)
              /\ k \in 1..Len(readyQueue)
        BY DEF TypeOK
      <4>4. i >= k
        <5>1. i \notin 1..k - 1
          BY <2>2, <4>2
        <5>2. i \in Nat \ {0} /\ k \in Nat
          BY <4>3
        <5> QED BY <5>1, <5>2
      <4>5. CASE i = k
        BY <2>2, <3>1, <4>1, <4>5 DEF FirstReady, SharesId
      <4>6. CASE i > k
        <5>1. /\ i - k \in DOMAIN SubSeq(readyQueue, k + 1, Len(readyQueue))
              /\ SubSeq(readyQueue, k + 1, Len(readyQueue))[i - k] = readyQueue[i]
          BY <4>3, <4>6, SuffixAt
        <5> QED BY <2>2, <4>1, <5>1 DEF Queued
      <4> QED BY <4>3, <4>4, <4>5, <4>6
    <3> QED BY <3>2, <3>3
  <2>6. InTable' = InTable /\ \A q \in InTable : SharesId(q)' <=> SharesId(q)
    BY <2>3 DEF InTable, SharesId
  <2>7. \A q \in InTable' : state'[q] = "Ready" =>
            id'[q] \in Queued' \/ Announcing' \/ SharesId(q)'
    BY <2>3, <2>5, <2>6
  <2> QED BY <2>7 DEF ReadyReachable, Announcing, SharesId
<1>2. CASE AcquireRoundRobin(c) \/ AcquireNothing(c)
  <2>1. /\ UNCHANGED <<count, id, mpc>> /\ QueueStale /\ cpc[c] = "acquire"
        /\ cpc' = [cpc EXCEPT ![c] = "run"] \/ cpc' = [cpc EXCEPT ![c] = "idle"]
        /\ \A q \in Procs : state'[q] = "Ready" => state[q] = "Ready"
    BY <1>2 DEF AcquireRoundRobin, AcquireNothing, Dispatch, MarkRunning, TypeOK
  <2>2. Announcing' <=> Announcing
    BY <2>1 DEF Announcing, TypeOK
  <2>3. \A q \in InTable : state[q] = "Ready" => id[q] \notin Queued
    BY <2>1 DEF QueueStale, Stale, Queued
  <2>4. ASSUME NEW q \in InTable, state'[q] = "Ready"
        PROVE  Announcing' \/ SharesId(q)
    BY <2>1, <2>2, <2>3, <2>4, ReadyReachableIs, InTableType
  <2> QED BY <2>1, <2>4 DEF ReadyReachable, Announcing, SharesId, InTable
<1> QED BY <1>1, <1>2

\* Every step preserves that Ready processes are queued or announced.
LEMMA ReadyStep ==
    ASSUME TypeOK, RegionsAccounted, NoNullProcess, ReadyReachable, Next
    PROVE  ReadyReachable'
<1> USE DEF tableVars, pcbVars, schedVars, coreVars, loadVars, mainVars,
        TakeRegion
<1>1. ASSUME NEW c \in Cores,
             AcquireQueued(c) \/ AcquireRoundRobin(c) \/ AcquireNothing(c)
      PROVE  ReadyReachable'
  BY <1>1, ReadyTaken
<1>2. ASSUME EnqueueReady(state), UNCHANGED <<count, id, state>>
      PROVE  ReadyReachable'
  <2>1. \A p \in InTable' : state'[p] = "Ready" => id'[p] \in Queued'
    BY <1>2, EnqueueAll DEF InTable
  <2> QED BY <2>1 DEF ReadyReachable
<1>3. ASSUME \/ MainLoadNotify \/ MainRun
             \/ \E c \in Cores : LoadNotify(c) \/ OnCoreIdle(c) \/ ReleaseNotify(c)
      PROVE  ReadyReachable'
  BY <1>2, <1>3 DEF MainLoadNotify, MainRun, LoadNotify, OnCoreIdle, ReleaseNotify
<1>4. ASSUME \/ MainLoad \/ (\E p \in InTable : MainStepLoad(p))
             \/ \E c \in Cores : LoadEmplace(c) \/ LoadSetReady(c)
      PROVE  ReadyReachable'
  <2>1. Announcing'
    BY <1>4 DEF Announcing, MainLoad, MainStepLoad, LoadEmplace, LoadSetReady,
       TypeOK
  <2> QED BY <2>1 DEF ReadyReachable, Announcing
<1>5. ASSUME NEW c \in Cores, ReleaseReady(c) PROVE ReadyReachable'
  <2>1. cpc'[c] \in {"skipped", "retired"}
    BY <1>5 DEF ReleaseReady, TypeOK
  <2> QED BY <2>1 DEF ReadyReachable
<1>6. ASSUME NEW c \in Cores, ReleasePreempt(c) PROVE ReadyReachable'
  <2>1. /\ UNCHANGED <<count, id, mpc>> /\ held[c] \in Procs
        /\ cpc[c] = "requeue" /\ cpc' = [Woken EXCEPT ![c] = "loop"]
    BY <1>6 DEF ReleasePreempt, NoNullProcess, HoldPCs, EndPCs, TypeOK
  <2>2. Announcing => Announcing'
    BY <2>1 DEF Announcing, Woken, TypeOK
  <2>3. CASE state[held[c]] # "Running"
    <3>1. ReadyQuiet
      BY <1>6, <2>1, <2>2, <2>3 DEF ReadyQuiet, ReleasePreempt, OnPreempt
    <3> QED BY <3>1, ReadyQuietStep
  <2>4. CASE state[held[c]] = "Running"
    <3>1. /\ state' = [state EXCEPT ![held[c]] = "Ready"]
          /\ readyQueue' = Append(readyQueue, id[held[c]])
      BY <1>6, <2>4 DEF ReleasePreempt, OnPreempt
    <3>2. readyQueue \in Seq(Nat) /\ id[held[c]] \in Nat
      BY <2>1 DEF TypeOK
    <3>3. /\ \A i \in DOMAIN readyQueue :
                i \in DOMAIN readyQueue' /\ readyQueue'[i] = readyQueue[i]
          /\ Len(readyQueue) + 1 \in DOMAIN readyQueue'
          /\ readyQueue'[Len(readyQueue) + 1] = id[held[c]]
      BY <3>1, <3>2
    <3>4. Queued \subseteq Queued' /\ id[held[c]] \in Queued'
      BY <3>3 DEF Queued
    <3>5. \A p \in InTable : state'[p] = "Ready" /\ p # held[c] => state[p] = "Ready"
      BY <3>1, InTableType DEF TypeOK
    <3>6. ASSUME NEW p \in InTable, state'[p] = "Ready"
          PROVE  id[p] \in Queued' \/ Announcing' \/ SharesId(p)
      BY <2>2, <3>4, <3>5, <3>6, ReadyReachableIs
    <3> QED BY <2>1, <3>6 DEF ReadyReachable, Announcing, SharesId, InTable
  <2> QED BY <2>3, <2>4
<1>7. ASSUME NEW c \in Cores, AcquireStopped(c) PROVE ReadyQuiet
  BY <1>7 DEF TypeOK, ReadyQuiet, Announcing, AcquireStopped
<1>8. ASSUME NEW c \in Cores, AcquireWait(c) PROVE ReadyQuiet
  BY <1>8 DEF TypeOK, ReadyQuiet, Announcing, AcquireWait
<1>9. ASSUME NEW c \in Cores, AcquireBlock(c) PROVE ReadyQuiet
  BY <1>9 DEF TypeOK, ReadyQuiet, Announcing, AcquireBlock
<1>10. ASSUME NEW c \in Cores, LoadAlloc(c) PROVE ReadyQuiet
  BY <1>10 DEF TypeOK, ReadyQuiet, Announcing, LoadAlloc
<1>11. ASSUME NEW c \in Cores, LoadReadId(c) PROVE ReadyQuiet
  BY <1>11 DEF TypeOK, ReadyQuiet, Announcing, LoadReadId
<1>12. ASSUME NEW c \in Cores, LoadWriteId(c) PROVE ReadyQuiet
  BY <1>12 DEF TypeOK, ReadyQuiet, Announcing, LoadWriteId
<1>13. ASSUME NEW c \in Cores, LoadReturn(c) PROVE ReadyQuiet
  BY <1>13, InTableType DEF TypeOK, ReadyQuiet, Announcing, LoadReturn, AfterContinue
<1>14. ASSUME NEW c \in Cores, ExecContinue(c) PROVE ReadyQuiet
  BY <1>14, InTableType DEF TypeOK, ReadyQuiet, Announcing, ExecContinue, Executing, AfterContinue
<1>15. ASSUME NEW c \in Cores, ExecYield(c) PROVE ReadyQuiet
  BY <1>15 DEF TypeOK, ReadyQuiet, Announcing, ExecYield, Executing
<1>16. ASSUME NEW c \in Cores, ExecThrow(c) PROVE ReadyQuiet
  BY <1>16 DEF TypeOK, ReadyQuiet, Announcing, ExecThrow, Executing
<1>17. ASSUME NEW c \in Cores, ExecLoad(c) PROVE ReadyQuiet
  BY <1>17 DEF TypeOK, ReadyQuiet, Announcing, ExecLoad, Executing
<1>18. ASSUME NEW c \in Cores, CoreLoop(c) PROVE ReadyQuiet
  BY <1>18 DEF TypeOK, ReadyQuiet, Announcing, CoreLoop, LoopBranch
<1>19. ASSUME NEW c \in Cores, CoreIdleStop(c) PROVE ReadyQuiet
  BY <1>19 DEF TypeOK, ReadyQuiet, Announcing, CoreIdleStop
<1>20. ASSUME NEW c \in Cores, CoreSkip(c) PROVE ReadyQuiet
  BY <1>20 DEF TypeOK, ReadyQuiet, Announcing, CoreSkip
<1>21. ASSUME NEW c \in Cores, NotifyPossibleShutdown(c) PROVE ReadyQuiet
  BY <1>21 DEF TypeOK, ReadyQuiet, Announcing, NotifyPossibleShutdown, ShutdownNotified
<1>22. ASSUME NEW c \in Cores, MainStart(c) PROVE ReadyQuiet
  BY <1>22 DEF TypeOK, ReadyQuiet, Announcing, MainStart
<1>23. ASSUME NEW c \in Cores, MainStopCore(c) PROVE ReadyQuiet
  BY <1>23 DEF TypeOK, ReadyQuiet, Announcing, MainStopCore
<1>24. ASSUME NEW c \in Cores, MainJoin(c) PROVE ReadyQuiet
  BY <1>24 DEF TypeOK, ReadyQuiet, Announcing, MainJoin
<1>25. ASSUME NEW c \in Cores, SpuriousWake(c) PROVE ReadyQuiet
  BY <1>25 DEF TypeOK, ReadyQuiet, Announcing, SpuriousWake
<1>26. ASSUME NEW c \in Cores, NEW k \in Kinds, ExecEnd(c, k) PROVE ReadyQuiet
  BY <1>26, InTableType DEF TypeOK, ReadyQuiet, Announcing, ExecEnd, Executing
<1>27. ASSUME NEW p \in InTable, NEW k \in Kinds, MainStep(p, k) PROVE ReadyQuiet
  BY <1>27, InTableType DEF TypeOK, ReadyQuiet, Announcing, MainStep
<1>28. ASSUME MainStarted PROVE ReadyQuiet
  BY <1>28 DEF TypeOK, ReadyQuiet, Announcing, MainStarted
<1>29. ASSUME MainCheck PROVE ReadyQuiet
  BY <1>29 DEF TypeOK, ReadyQuiet, Announcing, MainCheck
<1>30. ASSUME MainStopScheduler PROVE ReadyQuiet
  BY <1>30 DEF TypeOK, ReadyQuiet, Announcing, MainStopScheduler
<1>31. ASSUME MainStopNotify PROVE ReadyQuiet
  BY <1>31 DEF TypeOK, ReadyQuiet, Announcing, MainStopNotify, Woken
<1>32. ASSUME MainStopped PROVE ReadyQuiet
  BY <1>32 DEF TypeOK, ReadyQuiet, Announcing, MainStopped
<1>33. ASSUME MainReturn PROVE ReadyQuiet
  BY <1>33 DEF TypeOK, ReadyQuiet, Announcing, MainReturn
<1>34. ASSUME MainSpuriousWake PROVE ReadyQuiet
  BY <1>34 DEF TypeOK, ReadyQuiet, Announcing, MainSpuriousWake
<1>35. ASSUME NEW c \in Cores, ReleaseProcess(c) PROVE ReadyQuiet
  BY <1>35 DEF TypeOK, ReadyQuiet, Announcing, ReleaseProcess, ReleaseTo
<1>36. ASSUME NEW c \in Cores, StoreHalted(c) PROVE ReadyQuiet
  BY <1>36, InTableType DEF TypeOK, ReadyQuiet, Announcing, StoreHalted
<1>37. ASSUME MainLoadFails PROVE ReadyQuiet
  BY <1>37 DEF ReadyQuiet, Announcing, MainLoadFails
<1>38. ASSUME NEW p \in InTable, MainStepLoadFails(p) PROVE ReadyQuiet
  BY <1>38, InTableType DEF TypeOK, ReadyQuiet, Announcing, MainStepLoadFails
<1> QED
  BY ReadyQuietStep, <1>1, <1>2, <1>3, <1>4, <1>5, <1>6, <1>7, <1>8, <1>9,
     <1>10, <1>11, <1>12, <1>13, <1>14, <1>15, <1>16, <1>17, <1>18, <1>19,
     <1>20, <1>21, <1>22, <1>23, <1>24, <1>25, <1>26, <1>27, <1>28, <1>29,
     <1>30, <1>31, <1>32, <1>33, <1>34, <1>35, <1>36, <1>37, <1>38
  DEF Next, OwnerStep, ClientCall, Spurious, CoreStep, AcquireProcess,
      LoadProgram, ExecuteInstruction

\* No Ready process is ever lost to the scheduler: whatever load calls, preemptions
\* and single steps overlap, its id is in readyQueue_, or some thread is still on its
\* way to notifyProcessReady, or a racing load call gave the same id to another
\* process.
THEOREM ReadyNeverLost == Spec => []ReadyReachable
<1>1. Init => ReadyReachable
  BY DEF Init, ReadyReachable, InTable
<1>2. TypeOK /\ RegionsAccounted /\ NoNullProcess /\ ReadyReachable /\ [Next]_vars
        => ReadyReachable'
  <2>1. ASSUME ReadyReachable, UNCHANGED vars PROVE ReadyReachable'
    BY <2>1 DEF vars, tableVars, pcbVars, schedVars, coreVars, mainVars,
       ReadyReachable, InTable, Queued
  <2> QED BY <2>1, ReadyStep
<1> QED BY <1>1, <1>2, TypeCorrect, PTL DEF Spec

\* Counters, queue and program counters keep their types under every
\* interleaving, load calls and single-stepping included.
THEOREM TypesHold == Spec => []TypeOK
<1> QED BY TypeCorrect, PTL

-----------------------------------------------------------------------------
\* What Ownership says of one core at a time: the process it holds is in the table
\* and Running or Halted, it gives it up for good only when it is Halted, it holds
\* none where coreLoop has none, and it makes no load call.
OwnsCycle ==
    \A c \in Cores :
        /\ held[c] # None =>
            held[c] \in InTable /\ state[held[c]] \in {"Running", "Halted"}
        /\ cpc[c] \in {"skip", "skipped", "retire", "retired", "shutdown"} =>
            state[held[c]] = "Halted"
        /\ cpc[c] \notin {"skipready", "retireready"}
        /\ cpc[c] \in FreePCs => held[c] = None
        /\ cpc[c] \notin LoadPCs

\* What it says of the owner thread: outside run() there is no core thread.
OutsideRun == mpc \in {"idle", "load_notify"} => \A c \in Cores : cpc[c] = "off"

LEMMA OwnershipParts == Ownership <=> OwnsCycle /\ OutsideRun
BY DEF Ownership, OwnsCycle, OutsideRun

\* join() comes before the end of run(), and core->start() after its beginning.
LEMMA OutsideStep ==
    ASSUME TypeOK, OutsideRun, Next
    PROVE  OutsideRun'
<1> USE DEF tableVars, pcbVars, schedVars, coreVars, loadVars, mainVars, Woken
<1>1. ASSUME NEW c \in Cores, AcquireProcess(c) PROVE OutsideRun'
  BY <1>1 DEF TypeOK, OutsideRun, AcquireProcess, AcquireStopped, AcquireWait,
     AcquireBlock, AcquireQueued, AcquireRoundRobin, AcquireNothing, Dispatch
<1>2. ASSUME NEW c \in Cores, LoadProgram(c) PROVE OutsideRun'
  BY <1>2 DEF TypeOK, OutsideRun, LoadProgram, LoadAlloc, LoadReadId,
     LoadWriteId, LoadEmplace, LoadSetReady, LoadNotify, LoadReturn,
     AfterContinue
<1>3. ASSUME NEW c \in Cores, ExecuteInstruction(c) PROVE OutsideRun'
  BY <1>3 DEF TypeOK, OutsideRun, ExecuteInstruction, Executing,
     ExecContinue, ExecYield, ExecThrow, ExecLoad, ExecEnd, AfterContinue
<1>4. ASSUME NEW c \in Cores,
             CoreLoop(c) \/ CoreIdleStop(c) \/ OnCoreIdle(c) \/ CoreSkip(c)
      PROVE  OutsideRun'
  BY <1>4 DEF TypeOK, OutsideRun, CoreLoop, LoopBranch, CoreIdleStop,
     OnCoreIdle, CoreSkip
<1>5. ASSUME NEW c \in Cores,
             \/ StoreHalted(c) \/ ReleaseProcess(c) \/ ReleaseReady(c)
             \/ ReleasePreempt(c) \/ ReleaseNotify(c)
             \/ NotifyPossibleShutdown(c)
      PROVE  OutsideRun'
  BY <1>5 DEF TypeOK, OutsideRun, StoreHalted, ReleaseProcess, ReleaseTo,
     ReleaseReady, ReleasePreempt, ReleaseNotify, NotifyPossibleShutdown, ShutdownNotified
<1>6. ASSUME OwnerStep PROVE OutsideRun'
  BY <1>6 DEF TypeOK, OutsideRun, OwnerStep, MainLoadNotify, MainStarted,
     MainCheck, MainStopScheduler, MainStopNotify, MainStopped, MainReturn,
     MainStart, MainStopCore, MainJoin
<1>7. ASSUME ClientCall PROVE OutsideRun'
  BY <1>7 DEF TypeOK, OutsideRun, ClientCall, MainLoad, MainLoadFails,
     MainRun, MainStepLoad, MainStepLoadFails, MainStep
<1>8. ASSUME Spurious PROVE OutsideRun'
  BY <1>8 DEF TypeOK, OutsideRun, Spurious, MainSpuriousWake, SpuriousWake
<1> QED
  BY <1>1, <1>2, <1>3, <1>4, <1>5, <1>6, <1>7, <1>8 DEF Next, CoreStep

\* Without load calls a process whose context halted is in the table and is not
\* Ready, and if a core holds it, it is Halted or coreLoop is about to store that:
\* it never acquires a process it would have to skip.
HaltMarked ==
    /\ \A p \in Procs :
        halted[p] => p \in InTable /\ state[p] \in {"Running", "Halted"}
    /\ \A c \in Cores :
        held[c] # None /\ halted[held[c]] =>
            state[held[c]] = "Halted" \/ cpc[c] = "ending"

\* A step that leaves the process control blocks alone and lets cores at most
\* give up what they hold preserves HaltMarked.
LEMMA MarkedKept ==
    ASSUME HaltMarked, halted' = halted, state' = state, count' = count,
           \A c \in Cores : held'[c] \in {held[c], None},
           \A c \in Cores : cpc[c] = "ending" => cpc'[c] = "ending"
    PROVE  HaltMarked'
  BY DEF HaltMarked, InTable

\* Without load calls, every step preserves HaltMarked.
LEMMA MarkedStep ==
    ASSUME "Load" \notin Kinds, TypeOK, NoNullProcess, Exclusive, OwnsCycle,
           ClientSteps => OutsideRun, HaltMarked, Next
    PROVE  HaltMarked'
<1> USE DEF tableVars, pcbVars, schedVars, coreVars, loadVars, mainVars,
        TakeRegion
<1>1. ASSUME NEW c \in Cores, AcquireStopped(c) PROVE HaltMarked'
  BY <1>1, MarkedKept DEF TypeOK, AcquireStopped
<1>2. ASSUME NEW c \in Cores, AcquireWait(c) PROVE HaltMarked'
  BY <1>2, MarkedKept DEF TypeOK, AcquireWait
<1>3. ASSUME NEW c \in Cores, AcquireBlock(c) PROVE HaltMarked'
  BY <1>3, MarkedKept DEF TypeOK, AcquireBlock
<1>4. ASSUME NEW c \in Cores, AcquireQueued(c) PROVE HaltMarked'
  <2>1. PICK p \in InTable : state[p] = "Ready" /\ Dispatch(c, p)
    BY <1>4 DEF AcquireQueued, FirstReady
  <2> QED BY <2>1, InTableType DEF HaltMarked, OwnsCycle, Dispatch, MarkRunning,
     TypeOK, InTable
<1>5. ASSUME NEW c \in Cores, AcquireRoundRobin(c) PROVE HaltMarked'
  <2>1. PICK i \in 0..count - 1 :
          state[Scan(i)] = "Ready" /\ Dispatch(c, Scan(i))
    BY <1>5 DEF AcquireRoundRobin
  <2>2. Scan(i) \in InTable
    BY ScanType
  <2> QED BY <2>1, <2>2, InTableType DEF HaltMarked, OwnsCycle, Dispatch,
     MarkRunning, TypeOK, InTable
<1>6. ASSUME NEW c \in Cores, AcquireNothing(c) PROVE HaltMarked'
  BY <1>6, MarkedKept DEF TypeOK, AcquireNothing
<1>7. ASSUME NEW c \in Cores, LoadAlloc(c) PROVE HaltMarked'
  BY <1>7, MarkedKept DEF TypeOK, LoadAlloc
<1>8. ASSUME NEW c \in Cores, LoadReadId(c) PROVE HaltMarked'
  BY <1>8, MarkedKept DEF TypeOK, LoadReadId
<1>9. ASSUME NEW c \in Cores, LoadWriteId(c) PROVE HaltMarked'
  BY <1>9, MarkedKept DEF TypeOK, LoadWriteId
<1>10. ASSUME NEW c \in Cores, LoadEmplace(c) PROVE HaltMarked'
  BY <1>10 DEF OwnsCycle, LoadPCs, LoadEmplace
<1>11. ASSUME NEW c \in Cores, LoadSetReady(c) PROVE HaltMarked'
  BY <1>11 DEF OwnsCycle, LoadPCs, LoadSetReady
<1>12. ASSUME NEW c \in Cores, LoadNotify(c) PROVE HaltMarked'
  BY <1>12, MarkedKept DEF TypeOK, LoadNotify, Woken
<1>13. ASSUME NEW c \in Cores, LoadReturn(c) PROVE HaltMarked'
  BY <1>13 DEF OwnsCycle, LoadPCs, LoadReturn
<1>14. ASSUME NEW c \in Cores, ExecContinue(c) PROVE HaltMarked'
  BY <1>14, MarkedKept DEF TypeOK, ExecContinue, Executing, Finished, AfterContinue
<1>15. ASSUME NEW c \in Cores, ExecYield(c) PROVE HaltMarked'
  BY <1>15, MarkedKept DEF TypeOK, ExecYield, Executing
<1>16. ASSUME NEW c \in Cores, ExecThrow(c) PROVE HaltMarked'
  BY <1>16, MarkedKept DEF TypeOK, ExecThrow
<1>17. ASSUME NEW c \in Cores, ExecLoad(c) PROVE HaltMarked'
  BY <1>17, MarkedKept DEF TypeOK, ExecLoad, Executing
<1>18. ASSUME NEW c \in Cores, NEW k \in Kinds, ExecEnd(c, k) PROVE HaltMarked'
  BY <1>18 DEF ExecEnd, Executing, HaltMarked, Exclusive, OwnsCycle, NoNullProcess,
     HoldPCs, EndPCs, TypeOK, InTable
<1>19. ASSUME NEW c \in Cores, CoreLoop(c) PROVE HaltMarked'
  BY <1>19, MarkedKept DEF TypeOK, CoreLoop
<1>20. ASSUME NEW c \in Cores, CoreIdleStop(c) PROVE HaltMarked'
  BY <1>20, MarkedKept DEF TypeOK, CoreIdleStop
<1>21. ASSUME NEW c \in Cores, OnCoreIdle(c) PROVE HaltMarked'
  BY <1>21, MarkedKept DEF TypeOK, OnCoreIdle, Woken
<1>22. ASSUME NEW c \in Cores, CoreSkip(c) PROVE HaltMarked'
  BY <1>22, MarkedKept DEF TypeOK, CoreSkip
<1>23. ASSUME NEW c \in Cores, ReleasePreempt(c) PROVE HaltMarked'
  <2>1. held[c] # None /\ held[c] \in Procs
    BY <1>23 DEF ReleasePreempt, NoNullProcess, HoldPCs, EndPCs, TypeOK
  <2>2. CASE state[held[c]] = "Running"
    <3>1. ~halted[held[c]]
      BY <1>23, <2>1, <2>2 DEF HaltMarked, ReleasePreempt
    <3>2. state' = [state EXCEPT ![held[c]] = "Ready"] /\ halted' = halted
          /\ count' = count /\ held' = [held EXCEPT ![c] = None]
      BY <1>23, <2>2 DEF ReleasePreempt, OnPreempt
    <3>3. \A d \in Cores : d # c =>
            /\ held'[d] = held[d] /\ held[d] # held[c]
            /\ cpc[d] = "ending" => cpc'[d] = "ending"
      BY <1>23, <2>1, <3>2 DEF Exclusive, TypeOK, ReleasePreempt, Woken
    <3>4. \A p \in Procs : p # held[c] => state'[p] = state[p]
      BY <3>2 DEF TypeOK
    <3> QED BY <3>1, <3>2, <3>3, <3>4 DEF HaltMarked, TypeOK, InTable
  <2>3. CASE state[held[c]] # "Running"
    BY <1>23, <2>3, MarkedKept DEF TypeOK, ReleasePreempt, OnPreempt, Woken
  <2> QED BY <2>2, <2>3
<1>24. ASSUME NEW c \in Cores, ReleaseNotify(c) PROVE HaltMarked'
  BY <1>24, MarkedKept DEF TypeOK, ReleaseNotify, Woken
<1>25. ASSUME NEW c \in Cores, NotifyPossibleShutdown(c) PROVE HaltMarked'
  BY <1>25, MarkedKept DEF TypeOK, NotifyPossibleShutdown
<1>26. ASSUME NEW c \in Cores, MainStart(c) PROVE HaltMarked'
  BY <1>26, MarkedKept DEF TypeOK, MainStart
<1>27. ASSUME NEW c \in Cores, MainStopCore(c) PROVE HaltMarked'
  BY <1>27, MarkedKept DEF TypeOK, MainStopCore
<1>28. ASSUME NEW c \in Cores, MainJoin(c) PROVE HaltMarked'
  BY <1>28, MarkedKept DEF TypeOK, MainJoin
<1>29. ASSUME NEW c \in Cores, SpuriousWake(c) PROVE HaltMarked'
  BY <1>29, MarkedKept DEF TypeOK, SpuriousWake
<1>30. ASSUME MainLoadNotify PROVE HaltMarked'
  BY <1>30, MarkedKept DEF TypeOK, MainLoadNotify, Woken
<1>31. ASSUME MainStarted PROVE HaltMarked'
  BY <1>31, MarkedKept DEF TypeOK, MainStarted
<1>32. ASSUME MainCheck PROVE HaltMarked'
  BY <1>32, MarkedKept DEF TypeOK, MainCheck
<1>33. ASSUME MainStopScheduler PROVE HaltMarked'
  BY <1>33, MarkedKept DEF TypeOK, MainStopScheduler
<1>34. ASSUME MainStopNotify PROVE HaltMarked'
  BY <1>34, MarkedKept DEF TypeOK, MainStopNotify, Woken
<1>35. ASSUME MainStopped PROVE HaltMarked'
  BY <1>35, MarkedKept DEF TypeOK, MainStopped
<1>36. ASSUME MainReturn PROVE HaltMarked'
  BY <1>36, MarkedKept DEF TypeOK, MainReturn
<1>37. ASSUME MainLoad PROVE HaltMarked'
  BY <1>37 DEF MainLoad, Emplace, RegionLeft, HaltMarked, OwnsCycle, FreePCs, TypeOK, InTable
<1>38. ASSUME MainRun PROVE HaltMarked'
  BY <1>38, MarkedKept DEF TypeOK, MainRun, Woken
<1>39. ASSUME NEW p \in InTable, MainStepLoad(p) PROVE HaltMarked'
  BY <1>39 DEF MainStepLoad
<1>40. ASSUME NEW p \in InTable, NEW k \in Kinds, MainStep(p, k) PROVE HaltMarked'
  BY <1>40, InTableType DEF MainStep, HaltMarked, OutsideRun, OwnsCycle, FreePCs, TypeOK, InTable
<1>41. ASSUME MainSpuriousWake PROVE HaltMarked'
  BY <1>41, MarkedKept DEF TypeOK, MainSpuriousWake
<1>42. ASSUME NEW c \in Cores, ReleaseProcess(c) PROVE HaltMarked'
  BY <1>42, MarkedKept DEF TypeOK, ReleaseProcess, ReleaseTo, OwnsCycle
<1>43. ASSUME NEW c \in Cores, StoreHalted(c) PROVE HaltMarked'
  BY <1>43 DEF TypeOK, HaltMarked, NoNullProcess, HoldPCs, EndPCs, OwnsCycle,
     Exclusive, StoreHalted, InTable
<1>44. ASSUME NEW c \in Cores, ReleaseReady(c) PROVE HaltMarked'
  BY <1>44 DEF ReleaseReady, OwnsCycle
<1>45. ASSUME MainLoadFails PROVE HaltMarked'
  BY <1>45 DEF MainLoadFails, RegionLeft, HaltMarked, OwnsCycle, FreePCs, TypeOK, InTable
<1>46. ASSUME NEW p \in InTable, MainStepLoadFails(p) PROVE HaltMarked'
  BY <1>46 DEF MainStepLoadFails
<1> QED
  BY <1>1, <1>2, <1>3, <1>4, <1>5, <1>6, <1>7, <1>8, <1>9, <1>10, <1>11,
     <1>12, <1>13, <1>14, <1>15, <1>16, <1>17, <1>18, <1>19, <1>20, <1>21,
     <1>22, <1>23, <1>24, <1>25, <1>26, <1>27, <1>28, <1>29, <1>30, <1>31,
     <1>32, <1>33, <1>34, <1>35, <1>36, <1>37, <1>38, <1>39, <1>40, <1>41,
     <1>42, <1>43, <1>44, <1>45, <1>46
  DEF Next, OwnerStep, ClientCall, Spurious, CoreStep, AcquireProcess,
      LoadProgram, ExecuteInstruction

\* pickNextProcess hands out a Ready process, which no core can be holding.
LEMMA DispatchOwnership ==
    ASSUME TypeOK, Exclusive, OwnsCycle, NEW c \in Cores, NEW p \in InTable,
           cpc[c] = "acquire", state[p] = "Ready", Dispatch(c, p)
    PROVE  (Exclusive /\ OwnsCycle)'
<1>1. p \in Procs /\ p # None
  BY InTableType DEF InTable, None
<1>2. \A d \in Cores : held[d] # p
  BY <1>1 DEF OwnsCycle
<1>3. Exclusive'
  BY <1>2 DEF Exclusive, Dispatch, TypeOK
<1>4. OwnsCycle'
  BY <1>1, <1>2 DEF OwnsCycle, Dispatch, MarkRunning, TypeOK, InTable, FreePCs,
     LoadPCs, tableVars, mainVars
<1> QED BY <1>3, <1>4

\* Without load calls, every step preserves exclusive ownership.
LEMMA OwnershipStep ==
    ASSUME "Load" \notin Kinds, TypeOK, NoNullProcess, Exclusive, OwnsCycle,
           ClientSteps => OutsideRun, HaltMarked, Next
    PROVE  (Exclusive /\ OwnsCycle)'
<1> USE DEF tableVars, pcbVars, schedVars, coreVars, loadVars, mainVars,
        FreePCs, LoadPCs
<1>1. ASSUME NEW c \in Cores, AcquireStopped(c) PROVE (Exclusive /\ OwnsCycle)'
  BY <1>1 DEF TypeOK, Exclusive, OwnsCycle, NoNullProcess, HoldPCs, EndPCs, InTable,
     AcquireStopped
<1>2. ASSUME NEW c \in Cores, AcquireWait(c) PROVE (Exclusive /\ OwnsCycle)'
  BY <1>2 DEF TypeOK, Exclusive, OwnsCycle, NoNullProcess, HoldPCs, EndPCs, InTable,
     AcquireWait
<1>3. ASSUME NEW c \in Cores, AcquireBlock(c) PROVE (Exclusive /\ OwnsCycle)'
  BY <1>3 DEF TypeOK, Exclusive, OwnsCycle, NoNullProcess, HoldPCs, EndPCs, InTable,
     AcquireBlock
<1>4. ASSUME NEW c \in Cores, AcquireQueued(c) PROVE (Exclusive /\ OwnsCycle)'
  <2>1. PICK k \in DOMAIN readyQueue, p \in InTable :
          FirstReady(state, readyQueue[k], p) /\ Dispatch(c, p)
    BY <1>4 DEF AcquireQueued
  <2>2. cpc[c] = "acquire" /\ state[p] = "Ready"
    BY <1>4, <2>1 DEF AcquireQueued, FirstReady
  <2> QED BY <2>1, <2>2, DispatchOwnership
<1>5. ASSUME NEW c \in Cores, AcquireRoundRobin(c) PROVE (Exclusive /\ OwnsCycle)'
  <2>1. PICK i \in 0..count - 1 :
          state[Scan(i)] = "Ready" /\ Dispatch(c, Scan(i))
    BY <1>5 DEF AcquireRoundRobin
  <2>2. cpc[c] = "acquire" /\ Scan(i) \in InTable
    BY <1>5, ScanType DEF AcquireRoundRobin
  <2> QED BY <2>1, <2>2, DispatchOwnership
<1>6. ASSUME NEW c \in Cores, AcquireNothing(c) PROVE (Exclusive /\ OwnsCycle)'
  BY <1>6 DEF TypeOK, Exclusive, OwnsCycle, NoNullProcess, HoldPCs, EndPCs, InTable,
     AcquireNothing
<1>7. ASSUME NEW c \in Cores, LoadAlloc(c) PROVE (Exclusive /\ OwnsCycle)'
  BY <1>7 DEF TypeOK, Exclusive, OwnsCycle, NoNullProcess, HoldPCs, EndPCs, InTable,
     LoadAlloc
<1>8. ASSUME NEW c \in Cores, LoadReadId(c) PROVE (Exclusive /\ OwnsCycle)'
  BY <1>8 DEF TypeOK, Exclusive, OwnsCycle, NoNullProcess, HoldPCs, EndPCs, InTable,
     LoadReadId
<1>9. ASSUME NEW c \in Cores, LoadWriteId(c) PROVE (Exclusive /\ OwnsCycle)'
  BY <1>9 DEF TypeOK, Exclusive, OwnsCycle, NoNullProcess, HoldPCs, EndPCs, InTable,
     LoadWriteId
<1>10. ASSUME NEW c \in Cores, LoadEmplace(c) PROVE (Exclusive /\ OwnsCycle)'
  BY <1>10 DEF TypeOK, Exclusive, OwnsCycle, NoNullProcess, HoldPCs, EndPCs, InTable,
     LoadEmplace, Emplace
<1>11. ASSUME NEW c \in Cores, LoadSetReady(c) PROVE (Exclusive /\ OwnsCycle)'
  BY <1>11 DEF TypeOK, Exclusive, OwnsCycle, NoNullProcess, HoldPCs, EndPCs, InTable,
     LoadSetReady
<1>12. ASSUME NEW c \in Cores, LoadNotify(c) PROVE (Exclusive /\ OwnsCycle)'
  BY <1>12 DEF TypeOK, Exclusive, OwnsCycle, NoNullProcess, HoldPCs, EndPCs, InTable,
     LoadNotify, Woken
<1>13. ASSUME NEW c \in Cores, LoadReturn(c) PROVE (Exclusive /\ OwnsCycle)'
  BY <1>13 DEF TypeOK, Exclusive, OwnsCycle, NoNullProcess, HoldPCs, EndPCs, InTable,
     LoadReturn, AfterContinue
<1>14. ASSUME NEW c \in Cores, ExecContinue(c) PROVE (Exclusive /\ OwnsCycle)'
  BY <1>14 DEF TypeOK, Exclusive, OwnsCycle, NoNullProcess, HoldPCs, EndPCs, InTable,
     ExecContinue, Executing, AfterContinue
<1>15. ASSUME NEW c \in Cores, ExecYield(c) PROVE (Exclusive /\ OwnsCycle)'
  BY <1>15 DEF TypeOK, Exclusive, OwnsCycle, NoNullProcess, HoldPCs, EndPCs, InTable,
     ExecYield, Executing
<1>16. ASSUME NEW c \in Cores, ExecThrow(c) PROVE (Exclusive /\ OwnsCycle)'
  BY <1>16 DEF TypeOK, Exclusive, OwnsCycle, NoNullProcess, HoldPCs, EndPCs, InTable,
     ExecThrow, Executing
<1>17. ASSUME NEW c \in Cores, ExecLoad(c) PROVE (Exclusive /\ OwnsCycle)'
  BY <1>17 DEF TypeOK, Exclusive, OwnsCycle, NoNullProcess, HoldPCs, EndPCs, InTable,
     ExecLoad, Executing
<1>18. ASSUME NEW c \in Cores, NEW k \in Kinds, ExecEnd(c, k) PROVE (Exclusive /\ OwnsCycle)'
  BY <1>18 DEF TypeOK, Exclusive, OwnsCycle, NoNullProcess, HoldPCs, EndPCs, InTable,
     ExecEnd, Executing
<1>19. ASSUME NEW c \in Cores, CoreLoop(c) PROVE (Exclusive /\ OwnsCycle)'
  BY <1>19 DEF TypeOK, Exclusive, OwnsCycle, NoNullProcess, HoldPCs, EndPCs, InTable,
     CoreLoop, LoopBranch
<1>20. ASSUME NEW c \in Cores, CoreIdleStop(c) PROVE (Exclusive /\ OwnsCycle)'
  BY <1>20 DEF TypeOK, Exclusive, OwnsCycle, NoNullProcess, HoldPCs, EndPCs, InTable,
     CoreIdleStop
<1>21. ASSUME NEW c \in Cores, OnCoreIdle(c) PROVE (Exclusive /\ OwnsCycle)'
  BY <1>21 DEF TypeOK, Exclusive, OwnsCycle, NoNullProcess, HoldPCs, EndPCs, InTable,
     OnCoreIdle, Woken
<1>22. ASSUME NEW c \in Cores, CoreSkip(c) PROVE (Exclusive /\ OwnsCycle)'
  BY <1>22 DEF TypeOK, Exclusive, OwnsCycle, NoNullProcess, HoldPCs, EndPCs, InTable,
     CoreSkip, Finished, HaltMarked
<1>23. ASSUME NEW c \in Cores, ReleasePreempt(c) PROVE (Exclusive /\ OwnsCycle)'
  <2>1. /\ held' = [held EXCEPT ![c] = None]
        /\ cpc' = [Woken EXCEPT ![c] = "loop"]
        /\ count' = count
    BY <1>23 DEF ReleasePreempt
  <2>2. held[c] # None /\ held[c] \in Procs
    BY <1>23 DEF TypeOK, NoNullProcess, HoldPCs, ReleasePreempt, OwnsCycle, InTable
  <2>3. \/ state' = [state EXCEPT ![held[c]] = "Ready"]
        \/ state' = state
    BY <1>23 DEF ReleasePreempt, OnPreempt
  <2>4. Exclusive'
    BY <2>1 DEF TypeOK, Exclusive
  <2>5. \A d \in Cores \ {c} : held[d] # None => state'[held[d]] = state[held[d]]
    BY <2>2, <2>3 DEF TypeOK, Exclusive
  <2>6. OwnsCycle'
    BY <2>1, <2>5 DEF TypeOK, OwnsCycle, NoNullProcess, HoldPCs, EndPCs, InTable,
       Woken
  <2> QED
    BY <2>4, <2>6
<1>24. ASSUME NEW c \in Cores, ReleaseNotify(c) PROVE (Exclusive /\ OwnsCycle)'
  BY <1>24 DEF TypeOK, Exclusive, OwnsCycle, NoNullProcess, HoldPCs, EndPCs, InTable,
     ReleaseNotify, Woken
<1>25. ASSUME NEW c \in Cores, NotifyPossibleShutdown(c) PROVE (Exclusive /\ OwnsCycle)'
  BY <1>25 DEF TypeOK, Exclusive, OwnsCycle, NoNullProcess, HoldPCs, EndPCs, InTable,
     NotifyPossibleShutdown, ShutdownNotified
<1>26. ASSUME NEW c \in Cores, MainStart(c) PROVE (Exclusive /\ OwnsCycle)'
  BY <1>26 DEF TypeOK, Exclusive, OwnsCycle, NoNullProcess, HoldPCs, EndPCs, InTable,
     MainStart
<1>27. ASSUME NEW c \in Cores, MainStopCore(c) PROVE (Exclusive /\ OwnsCycle)'
  BY <1>27 DEF TypeOK, Exclusive, OwnsCycle, NoNullProcess, HoldPCs, EndPCs, InTable,
     MainStopCore
<1>28. ASSUME NEW c \in Cores, MainJoin(c) PROVE (Exclusive /\ OwnsCycle)'
  BY <1>28 DEF TypeOK, Exclusive, OwnsCycle, NoNullProcess, HoldPCs, EndPCs, InTable,
     MainJoin
<1>29. ASSUME NEW c \in Cores, SpuriousWake(c) PROVE (Exclusive /\ OwnsCycle)'
  BY <1>29 DEF TypeOK, Exclusive, OwnsCycle, NoNullProcess, HoldPCs, EndPCs, InTable,
     SpuriousWake
<1>30. ASSUME MainLoadNotify PROVE (Exclusive /\ OwnsCycle)'
  BY <1>30 DEF TypeOK, Exclusive, OwnsCycle, NoNullProcess, HoldPCs, EndPCs, InTable,
     MainLoadNotify, Woken
<1>31. ASSUME MainStarted PROVE (Exclusive /\ OwnsCycle)'
  BY <1>31 DEF TypeOK, Exclusive, OwnsCycle, NoNullProcess, HoldPCs, EndPCs, InTable,
     MainStarted
<1>32. ASSUME MainCheck PROVE (Exclusive /\ OwnsCycle)'
  BY <1>32 DEF TypeOK, Exclusive, OwnsCycle, NoNullProcess, HoldPCs, EndPCs, InTable,
     MainCheck
<1>33. ASSUME MainStopScheduler PROVE (Exclusive /\ OwnsCycle)'
  BY <1>33 DEF TypeOK, Exclusive, OwnsCycle, NoNullProcess, HoldPCs, EndPCs, InTable,
     MainStopScheduler
<1>34. ASSUME MainStopNotify PROVE (Exclusive /\ OwnsCycle)'
  BY <1>34 DEF TypeOK, Exclusive, OwnsCycle, NoNullProcess, HoldPCs, EndPCs, InTable,
     MainStopNotify, Woken
<1>35. ASSUME MainStopped PROVE (Exclusive /\ OwnsCycle)'
  BY <1>35 DEF TypeOK, Exclusive, OwnsCycle, NoNullProcess, HoldPCs, EndPCs, InTable,
     MainStopped
<1>36. ASSUME MainReturn PROVE (Exclusive /\ OwnsCycle)'
  BY <1>36 DEF TypeOK, Exclusive, OwnsCycle, NoNullProcess, HoldPCs, EndPCs, InTable,
     MainReturn
<1>37. ASSUME MainLoad PROVE (Exclusive /\ OwnsCycle)'
  BY <1>37 DEF TypeOK, Exclusive, OwnsCycle, NoNullProcess, HoldPCs, EndPCs, InTable,
     MainLoad, Emplace
<1>38. ASSUME MainRun PROVE (Exclusive /\ OwnsCycle)'
  BY <1>38 DEF TypeOK, Exclusive, OwnsCycle, NoNullProcess, HoldPCs, EndPCs, InTable,
     MainRun, Woken
<1>39. ASSUME NEW p \in InTable, MainStepLoad(p) PROVE (Exclusive /\ OwnsCycle)'
  BY <1>39 DEF TypeOK, Exclusive, OwnsCycle, NoNullProcess, HoldPCs, EndPCs, InTable,
     MainStepLoad
<1>40. ASSUME NEW p \in InTable, NEW k \in Kinds, MainStep(p, k) PROVE (Exclusive /\ OwnsCycle)'
  BY <1>40 DEF TypeOK, Exclusive, OwnsCycle, NoNullProcess, HoldPCs, EndPCs, InTable,
     MainStep, OutsideRun
<1>41. ASSUME MainSpuriousWake PROVE (Exclusive /\ OwnsCycle)'
  BY <1>41 DEF TypeOK, Exclusive, OwnsCycle, NoNullProcess, HoldPCs, EndPCs, InTable,
     MainSpuriousWake
<1>42. ASSUME NEW c \in Cores, ReleaseProcess(c) PROVE (Exclusive /\ OwnsCycle)'
  BY <1>42 DEF TypeOK, Exclusive, OwnsCycle, NoNullProcess, HoldPCs, EndPCs, InTable,
     ReleaseProcess, ReleaseTo, Unfinished
<1>43. ASSUME NEW c \in Cores, StoreHalted(c) PROVE (Exclusive /\ OwnsCycle)'
  BY <1>43 DEF TypeOK, Exclusive, OwnsCycle, NoNullProcess, HoldPCs, EndPCs, InTable,
     StoreHalted
<1>44. ASSUME NEW c \in Cores, ReleaseReady(c) PROVE (Exclusive /\ OwnsCycle)'
  BY <1>44 DEF TypeOK, Exclusive, OwnsCycle, NoNullProcess, HoldPCs, EndPCs, InTable,
     ReleaseReady
<1>45. ASSUME MainLoadFails PROVE (Exclusive /\ OwnsCycle)'
  BY <1>45 DEF TypeOK, Exclusive, OwnsCycle, NoNullProcess, HoldPCs, EndPCs, InTable,
     MainLoadFails
<1>46. ASSUME NEW p \in InTable, MainStepLoadFails(p) PROVE (Exclusive /\ OwnsCycle)'
  BY <1>46 DEF TypeOK, Exclusive, OwnsCycle, NoNullProcess, HoldPCs, EndPCs, InTable,
     MainStepLoadFails
<1> QED
  BY <1>1, <1>2, <1>3, <1>4, <1>5, <1>6, <1>7, <1>8, <1>9, <1>10, <1>11,
     <1>12, <1>13, <1>14, <1>15, <1>16, <1>17, <1>18, <1>19, <1>20, <1>21,
     <1>22, <1>23, <1>24, <1>25, <1>26, <1>27, <1>28, <1>29, <1>30, <1>31,
     <1>32, <1>33, <1>34, <1>35, <1>36, <1>37, <1>38, <1>39, <1>40, <1>41,
     <1>42, <1>43, <1>44, <1>45, <1>46
  DEF Next, OwnerStep, ClientCall, Spurious, CoreStep, AcquireProcess,
      LoadProgram, ExecuteInstruction

\* Without load calls, every step preserves that stop() is reached only after
\* every process halted.
LEMMA StopStep ==
    ASSUME "Load" \notin Kinds, TypeOK, NoNullProcess, Exclusive, OwnsCycle,
           StopOnlyWhenHalted, Next
    PROVE  StopOnlyWhenHalted'
<1> USE DEF tableVars, pcbVars, schedVars, coreVars, loadVars, mainVars,
        TakeRegion
<1>1. ASSUME NEW c \in Cores, AcquireStopped(c) PROVE StopOnlyWhenHalted'
  BY <1>1 DEF TypeOK, StopOnlyWhenHalted, Done, InTable, AcquireStopped
<1>2. ASSUME NEW c \in Cores, AcquireWait(c) PROVE StopOnlyWhenHalted'
  BY <1>2 DEF TypeOK, StopOnlyWhenHalted, Done, InTable, AcquireWait
<1>3. ASSUME NEW c \in Cores, AcquireBlock(c) PROVE StopOnlyWhenHalted'
  BY <1>3 DEF TypeOK, StopOnlyWhenHalted, Done, InTable, AcquireBlock
<1>4. ASSUME NEW c \in Cores, AcquireQueued(c) PROVE StopOnlyWhenHalted'
  BY <1>4 DEF TypeOK, StopOnlyWhenHalted, Done, InTable, AcquireQueued,
     Dispatch, MarkRunning, FirstReady
<1>5. ASSUME NEW c \in Cores, AcquireRoundRobin(c) PROVE StopOnlyWhenHalted'
  <2>1. PICK i \in 0..count - 1 :
          state[Scan(i)] = "Ready" /\ Dispatch(c, Scan(i))
    BY <1>5 DEF AcquireRoundRobin
  <2>2. ~Done
    BY <2>1, ScanType DEF Done
  <2> QED BY <2>1, <2>2 DEF Dispatch, StopOnlyWhenHalted
<1>6. ASSUME NEW c \in Cores, AcquireNothing(c) PROVE StopOnlyWhenHalted'
  BY <1>6 DEF TypeOK, StopOnlyWhenHalted, Done, InTable, AcquireNothing
<1>7. ASSUME NEW c \in Cores, LoadAlloc(c) PROVE StopOnlyWhenHalted'
  BY <1>7 DEF TypeOK, StopOnlyWhenHalted, Done, InTable, OwnsCycle, LoadPCs,
     LoadAlloc
<1>8. ASSUME NEW c \in Cores, LoadReadId(c) PROVE StopOnlyWhenHalted'
  BY <1>8 DEF TypeOK, StopOnlyWhenHalted, Done, InTable, OwnsCycle, LoadPCs,
     LoadReadId
<1>9. ASSUME NEW c \in Cores, LoadWriteId(c) PROVE StopOnlyWhenHalted'
  BY <1>9 DEF TypeOK, StopOnlyWhenHalted, Done, InTable, OwnsCycle, LoadPCs,
     LoadWriteId
<1>10. ASSUME NEW c \in Cores, LoadEmplace(c) PROVE StopOnlyWhenHalted'
  BY <1>10 DEF TypeOK, StopOnlyWhenHalted, Done, InTable, OwnsCycle, LoadPCs,
     LoadEmplace, Emplace
<1>11. ASSUME NEW c \in Cores, LoadSetReady(c) PROVE StopOnlyWhenHalted'
  BY <1>11 DEF TypeOK, StopOnlyWhenHalted, Done, InTable, OwnsCycle, LoadPCs,
     LoadSetReady
<1>12. ASSUME NEW c \in Cores, LoadNotify(c) PROVE StopOnlyWhenHalted'
  BY <1>12 DEF TypeOK, StopOnlyWhenHalted, Done, InTable, OwnsCycle, LoadPCs,
     LoadNotify, Woken
<1>13. ASSUME NEW c \in Cores, LoadReturn(c) PROVE StopOnlyWhenHalted'
  BY <1>13 DEF TypeOK, StopOnlyWhenHalted, Done, InTable, OwnsCycle, LoadPCs,
     LoadReturn, AfterContinue
<1>14. ASSUME NEW c \in Cores, ExecContinue(c) PROVE StopOnlyWhenHalted'
  BY <1>14 DEF TypeOK, StopOnlyWhenHalted, Done, InTable, ExecContinue,
     Executing, AfterContinue
<1>15. ASSUME NEW c \in Cores, ExecYield(c) PROVE StopOnlyWhenHalted'
  BY <1>15 DEF TypeOK, StopOnlyWhenHalted, Done, InTable, ExecYield, Executing
<1>16. ASSUME NEW c \in Cores, ExecThrow(c) PROVE StopOnlyWhenHalted'
  BY <1>16 DEF TypeOK, StopOnlyWhenHalted, Done, InTable, ExecThrow, Executing
<1>17. ASSUME NEW c \in Cores, ExecLoad(c) PROVE StopOnlyWhenHalted'
  BY <1>17 DEF TypeOK, StopOnlyWhenHalted, Done, InTable, ExecLoad, Executing
<1>18. ASSUME NEW c \in Cores, NEW k \in Kinds, ExecEnd(c, k) PROVE StopOnlyWhenHalted'
  BY <1>18 DEF TypeOK, StopOnlyWhenHalted, Done, InTable, ExecEnd, Executing
<1>19. ASSUME NEW c \in Cores, CoreLoop(c) PROVE StopOnlyWhenHalted'
  BY <1>19 DEF TypeOK, StopOnlyWhenHalted, Done, InTable, CoreLoop, LoopBranch
<1>20. ASSUME NEW c \in Cores, CoreIdleStop(c) PROVE StopOnlyWhenHalted'
  BY <1>20 DEF TypeOK, StopOnlyWhenHalted, Done, InTable, CoreIdleStop
<1>21. ASSUME NEW c \in Cores, OnCoreIdle(c) PROVE StopOnlyWhenHalted'
  BY <1>21 DEF TypeOK, StopOnlyWhenHalted, Done, InTable, OnCoreIdle, Woken
<1>22. ASSUME NEW c \in Cores, CoreSkip(c) PROVE StopOnlyWhenHalted'
  BY <1>22 DEF TypeOK, StopOnlyWhenHalted, Done, InTable, CoreSkip
<1>23. ASSUME NEW c \in Cores, ReleasePreempt(c) PROVE StopOnlyWhenHalted'
  BY <1>23 DEF TypeOK, StopOnlyWhenHalted, Done, InTable, OwnsCycle,
     NoNullProcess, HoldPCs, EndPCs, ReleasePreempt, OnPreempt, Woken
<1>24. ASSUME NEW c \in Cores, ReleaseNotify(c) PROVE StopOnlyWhenHalted'
  BY <1>24 DEF TypeOK, StopOnlyWhenHalted, Done, InTable, OwnsCycle,
     NoNullProcess, HoldPCs, EndPCs, ReleaseNotify, Woken
<1>25. ASSUME NEW c \in Cores, NotifyPossibleShutdown(c) PROVE StopOnlyWhenHalted'
  BY <1>25 DEF TypeOK, StopOnlyWhenHalted, Done, InTable,
     NotifyPossibleShutdown, ShutdownNotified, AllHalted
<1>26. ASSUME NEW c \in Cores, MainStart(c) PROVE StopOnlyWhenHalted'
  BY <1>26 DEF TypeOK, StopOnlyWhenHalted, Done, InTable, MainStart
<1>27. ASSUME NEW c \in Cores, MainStopCore(c) PROVE StopOnlyWhenHalted'
  BY <1>27 DEF TypeOK, StopOnlyWhenHalted, Done, InTable, MainStopCore
<1>28. ASSUME NEW c \in Cores, MainJoin(c) PROVE StopOnlyWhenHalted'
  BY <1>28 DEF TypeOK, StopOnlyWhenHalted, Done, InTable, MainJoin
<1>29. ASSUME NEW c \in Cores, SpuriousWake(c) PROVE StopOnlyWhenHalted'
  BY <1>29 DEF TypeOK, StopOnlyWhenHalted, Done, InTable, SpuriousWake
<1>30. ASSUME MainLoadNotify PROVE StopOnlyWhenHalted'
  BY <1>30 DEF TypeOK, StopOnlyWhenHalted, Done, InTable, MainLoadNotify,
     Woken
<1>31. ASSUME MainStarted PROVE StopOnlyWhenHalted'
  BY <1>31 DEF TypeOK, StopOnlyWhenHalted, Done, InTable, MainStarted
<1>32. ASSUME MainCheck PROVE StopOnlyWhenHalted'
  BY <1>32 DEF TypeOK, StopOnlyWhenHalted, Done, InTable, MainCheck, AllHalted
<1>33. ASSUME MainStopScheduler PROVE StopOnlyWhenHalted'
  BY <1>33 DEF TypeOK, StopOnlyWhenHalted, Done, InTable, MainStopScheduler
<1>34. ASSUME MainStopNotify PROVE StopOnlyWhenHalted'
  BY <1>34 DEF TypeOK, StopOnlyWhenHalted, Done, InTable, MainStopNotify,
     Woken
<1>35. ASSUME MainStopped PROVE StopOnlyWhenHalted'
  BY <1>35 DEF TypeOK, StopOnlyWhenHalted, Done, InTable, MainStopped
<1>36. ASSUME MainReturn PROVE StopOnlyWhenHalted'
  BY <1>36 DEF TypeOK, StopOnlyWhenHalted, Done, InTable, MainReturn
<1>37. ASSUME MainLoad PROVE StopOnlyWhenHalted'
  BY <1>37 DEF TypeOK, StopOnlyWhenHalted, Done, InTable, MainLoad, Emplace
<1>38. ASSUME MainRun PROVE StopOnlyWhenHalted'
  BY <1>38 DEF TypeOK, StopOnlyWhenHalted, Done, InTable, MainRun, Woken
<1>39. ASSUME NEW p \in InTable, MainStepLoad(p) PROVE StopOnlyWhenHalted'
  BY <1>39 DEF TypeOK, StopOnlyWhenHalted, Done, InTable, MainStepLoad
<1>40. ASSUME NEW p \in InTable, NEW k \in Kinds, MainStep(p, k) PROVE StopOnlyWhenHalted'
  BY <1>40 DEF TypeOK, StopOnlyWhenHalted, Done, InTable, MainStep
<1>41. ASSUME MainSpuriousWake PROVE StopOnlyWhenHalted'
  BY <1>41 DEF TypeOK, StopOnlyWhenHalted, Done, InTable, MainSpuriousWake
<1>42. ASSUME NEW c \in Cores, ReleaseProcess(c) PROVE StopOnlyWhenHalted'
  BY <1>42 DEF TypeOK, StopOnlyWhenHalted, Done, InTable, OwnsCycle,
     NoNullProcess, HoldPCs, EndPCs, ReleaseProcess, ReleaseTo
<1>43. ASSUME NEW c \in Cores, StoreHalted(c) PROVE StopOnlyWhenHalted'
  BY <1>43 DEF TypeOK, StopOnlyWhenHalted, Done, InTable, OwnsCycle,
     NoNullProcess, HoldPCs, EndPCs, StoreHalted
<1>44. ASSUME NEW c \in Cores, ReleaseReady(c) PROVE StopOnlyWhenHalted'
  BY <1>44 DEF TypeOK, StopOnlyWhenHalted, Done, InTable, OwnsCycle,
     NoNullProcess, HoldPCs, EndPCs, ReleaseReady
<1>45. ASSUME MainLoadFails PROVE StopOnlyWhenHalted'
  BY <1>45 DEF TypeOK, StopOnlyWhenHalted, Done, InTable, MainLoadFails
<1>46. ASSUME NEW p \in InTable, MainStepLoadFails(p) PROVE StopOnlyWhenHalted'
  BY <1>46 DEF TypeOK, StopOnlyWhenHalted, Done, InTable, MainStepLoadFails
<1> QED
  BY <1>1, <1>2, <1>3, <1>4, <1>5, <1>6, <1>7, <1>8, <1>9, <1>10, <1>11,
     <1>12, <1>13, <1>14, <1>15, <1>16, <1>17, <1>18, <1>19, <1>20, <1>21,
     <1>22, <1>23, <1>24, <1>25, <1>26, <1>27, <1>28, <1>29, <1>30, <1>31,
     <1>32, <1>33, <1>34, <1>35, <1>36, <1>37, <1>38, <1>39, <1>40, <1>41,
     <1>42, <1>43, <1>44, <1>45, <1>46
  DEF Next, OwnerStep, ClientCall, Spurious, CoreStep, AcquireProcess,
      LoadProgram, ExecuteInstruction

\* Without load calls and single-stepping, no step touches a Halted process.
LEMMA FinalStep ==
    ASSUME "Load" \notin Kinds, ~ClientSteps, TypeOK, RegionsAccounted,
           NoNullProcess, Exclusive, OwnsCycle, Next,
           NEW q \in InTable, state[q] = "Halted"
    PROVE  state'[q] = "Halted" /\ slice'[q] = slice[q]
<1> USE DEF tableVars, pcbVars, schedVars, coreVars, loadVars, mainVars,
        TakeRegion
<1>1. ASSUME NEW c \in Cores, AcquireStopped(c) PROVE state'[q] = "Halted" /\ slice'[q] = slice[q]
  BY <1>1 DEF TypeOK, InTable, AcquireStopped
<1>2. ASSUME NEW c \in Cores, AcquireWait(c) PROVE state'[q] = "Halted" /\ slice'[q] = slice[q]
  BY <1>2 DEF TypeOK, InTable, AcquireWait
<1>3. ASSUME NEW c \in Cores, AcquireBlock(c) PROVE state'[q] = "Halted" /\ slice'[q] = slice[q]
  BY <1>3 DEF TypeOK, InTable, AcquireBlock
<1>4. ASSUME NEW c \in Cores, AcquireQueued(c) PROVE state'[q] = "Halted" /\ slice'[q] = slice[q]
  <2>1. PICK p \in InTable : state[p] = "Ready" /\ Dispatch(c, p)
    BY <1>4 DEF AcquireQueued, FirstReady
  <2>2. p # q
    BY <2>1
  <2>3. state' = [state EXCEPT ![p] = "Running"]
    BY <2>1 DEF Dispatch, MarkRunning
  <2>4. slice' = [slice EXCEPT ![p] = Quantum]
    BY <2>1 DEF Dispatch, ResetTimeSlice
  <2> QED
    BY <2>2, <2>3, <2>4 DEF TypeOK, InTable
<1>5. ASSUME NEW c \in Cores, AcquireRoundRobin(c) PROVE state'[q] = "Halted" /\ slice'[q] = slice[q]
  <2>1. PICK i \in 0..count - 1 : state[Scan(i)] = "Ready" /\ Dispatch(c, Scan(i))
    BY <1>5 DEF AcquireRoundRobin
  <2>2. Scan(i) # q
    BY <2>1
  <2>3. state' = [state EXCEPT ![Scan(i)] = "Running"]
    BY <2>1 DEF Dispatch, MarkRunning
  <2>4. slice' = [slice EXCEPT ![Scan(i)] = Quantum]
    BY <2>1 DEF Dispatch, ResetTimeSlice
  <2> QED
    BY <2>2, <2>3, <2>4 DEF TypeOK, InTable
<1>6. ASSUME NEW c \in Cores, AcquireNothing(c) PROVE state'[q] = "Halted" /\ slice'[q] = slice[q]
  BY <1>6 DEF TypeOK, InTable, AcquireNothing
<1>7. ASSUME NEW c \in Cores, LoadAlloc(c) PROVE state'[q] = "Halted" /\ slice'[q] = slice[q]
  BY <1>7 DEF TypeOK, InTable, OwnsCycle, LoadPCs, LoadAlloc
<1>8. ASSUME NEW c \in Cores, LoadReadId(c) PROVE state'[q] = "Halted" /\ slice'[q] = slice[q]
  BY <1>8 DEF TypeOK, InTable, OwnsCycle, LoadPCs, LoadReadId
<1>9. ASSUME NEW c \in Cores, LoadWriteId(c) PROVE state'[q] = "Halted" /\ slice'[q] = slice[q]
  BY <1>9 DEF TypeOK, InTable, OwnsCycle, LoadPCs, LoadWriteId
<1>10. ASSUME NEW c \in Cores, LoadEmplace(c) PROVE state'[q] = "Halted" /\ slice'[q] = slice[q]
  BY <1>10 DEF TypeOK, InTable, OwnsCycle, LoadPCs, LoadEmplace, Emplace
<1>11. ASSUME NEW c \in Cores, LoadSetReady(c) PROVE state'[q] = "Halted" /\ slice'[q] = slice[q]
  BY <1>11 DEF TypeOK, InTable, OwnsCycle, LoadPCs, LoadSetReady
<1>12. ASSUME NEW c \in Cores, LoadNotify(c) PROVE state'[q] = "Halted" /\ slice'[q] = slice[q]
  BY <1>12 DEF TypeOK, InTable, OwnsCycle, LoadPCs, LoadNotify
<1>13. ASSUME NEW c \in Cores, LoadReturn(c) PROVE state'[q] = "Halted" /\ slice'[q] = slice[q]
  BY <1>13 DEF TypeOK, InTable, OwnsCycle, LoadPCs, LoadReturn, AfterContinue,
     Tick
<1>14. ASSUME NEW c \in Cores, ExecContinue(c) PROVE state'[q] = "Halted" /\ slice'[q] = slice[q]
  BY <1>14 DEF TypeOK, InTable, ExecContinue, Executing, Finished,
     AfterContinue, Tick
<1>15. ASSUME NEW c \in Cores, ExecYield(c) PROVE state'[q] = "Halted" /\ slice'[q] = slice[q]
  BY <1>15 DEF TypeOK, InTable, ExecYield, Executing, Finished
<1>16. ASSUME NEW c \in Cores, ExecThrow(c) PROVE state'[q] = "Halted" /\ slice'[q] = slice[q]
  BY <1>16 DEF TypeOK, InTable, ExecThrow, Executing, Finished
<1>17. ASSUME NEW c \in Cores, ExecLoad(c) PROVE state'[q] = "Halted" /\ slice'[q] = slice[q]
  BY <1>17 DEF TypeOK, InTable, ExecLoad, Executing, Finished
<1>18. ASSUME NEW c \in Cores, NEW k \in Kinds, ExecEnd(c, k) PROVE state'[q] = "Halted" /\ slice'[q] = slice[q]
  BY <1>18 DEF TypeOK, InTable, ExecEnd, Executing, Finished, Tick
<1>19. ASSUME NEW c \in Cores, CoreLoop(c) PROVE state'[q] = "Halted" /\ slice'[q] = slice[q]
  BY <1>19 DEF TypeOK, InTable, CoreLoop
<1>20. ASSUME NEW c \in Cores, CoreIdleStop(c) PROVE state'[q] = "Halted" /\ slice'[q] = slice[q]
  BY <1>20 DEF TypeOK, InTable, CoreIdleStop
<1>21. ASSUME NEW c \in Cores, OnCoreIdle(c) PROVE state'[q] = "Halted" /\ slice'[q] = slice[q]
  BY <1>21 DEF TypeOK, InTable, OnCoreIdle
<1>22. ASSUME NEW c \in Cores, CoreSkip(c) PROVE state'[q] = "Halted" /\ slice'[q] = slice[q]
  BY <1>22 DEF TypeOK, InTable, CoreSkip
<1>23. ASSUME NEW c \in Cores, ReleasePreempt(c) PROVE state'[q] = "Halted" /\ slice'[q] = slice[q]
  <2>1. state' = state \/ (q # held[c] /\ state' = [state EXCEPT ![held[c]] = "Ready"])
    BY <1>23 DEF ReleasePreempt, OnPreempt
  <2>2. slice' = slice /\ q \in Procs
    BY <1>23, InTableType DEF ReleasePreempt
  <2> QED BY <2>1, <2>2 DEF TypeOK
<1>24. ASSUME NEW c \in Cores, ReleaseNotify(c) PROVE state'[q] = "Halted" /\ slice'[q] = slice[q]
  BY <1>24 DEF TypeOK, InTable, ReleaseNotify
<1>25. ASSUME NEW c \in Cores, NotifyPossibleShutdown(c) PROVE state'[q] = "Halted" /\ slice'[q] = slice[q]
  BY <1>25 DEF TypeOK, InTable, NotifyPossibleShutdown
<1>26. ASSUME NEW c \in Cores, MainStart(c) PROVE state'[q] = "Halted" /\ slice'[q] = slice[q]
  BY <1>26 DEF TypeOK, InTable, MainStart
<1>27. ASSUME NEW c \in Cores, MainStopCore(c) PROVE state'[q] = "Halted" /\ slice'[q] = slice[q]
  BY <1>27 DEF TypeOK, InTable, MainStopCore
<1>28. ASSUME NEW c \in Cores, MainJoin(c) PROVE state'[q] = "Halted" /\ slice'[q] = slice[q]
  BY <1>28 DEF TypeOK, InTable, MainJoin
<1>29. ASSUME NEW c \in Cores, SpuriousWake(c) PROVE state'[q] = "Halted" /\ slice'[q] = slice[q]
  BY <1>29 DEF TypeOK, InTable, SpuriousWake
<1>30. ASSUME MainLoadNotify PROVE state'[q] = "Halted" /\ slice'[q] = slice[q]
  BY <1>30 DEF TypeOK, InTable, MainLoadNotify
<1>31. ASSUME MainStarted PROVE state'[q] = "Halted" /\ slice'[q] = slice[q]
  BY <1>31 DEF TypeOK, InTable, MainStarted
<1>32. ASSUME MainCheck PROVE state'[q] = "Halted" /\ slice'[q] = slice[q]
  BY <1>32 DEF TypeOK, InTable, MainCheck
<1>33. ASSUME MainStopScheduler PROVE state'[q] = "Halted" /\ slice'[q] = slice[q]
  BY <1>33 DEF TypeOK, InTable, MainStopScheduler
<1>34. ASSUME MainStopNotify PROVE state'[q] = "Halted" /\ slice'[q] = slice[q]
  BY <1>34 DEF TypeOK, InTable, MainStopNotify
<1>35. ASSUME MainStopped PROVE state'[q] = "Halted" /\ slice'[q] = slice[q]
  BY <1>35 DEF TypeOK, InTable, MainStopped
<1>36. ASSUME MainReturn PROVE state'[q] = "Halted" /\ slice'[q] = slice[q]
  BY <1>36 DEF TypeOK, InTable, MainReturn
<1>37. ASSUME MainLoad PROVE state'[q] = "Halted" /\ slice'[q] = slice[q]
  BY <1>37 DEF TypeOK, InTable, MainLoad, Emplace
<1>38. ASSUME MainRun PROVE state'[q] = "Halted" /\ slice'[q] = slice[q]
  BY <1>38 DEF TypeOK, InTable, MainRun
<1>39. ASSUME NEW p \in InTable, MainStepLoad(p) PROVE state'[q] = "Halted" /\ slice'[q] = slice[q]
  BY <1>39 DEF TypeOK, InTable, MainStepLoad, Tick
<1>40. ASSUME NEW p \in InTable, NEW k \in Kinds, MainStep(p, k) PROVE state'[q] = "Halted" /\ slice'[q] = slice[q]
  BY <1>40 DEF TypeOK, InTable, MainStep, Tick
<1>41. ASSUME MainSpuriousWake PROVE state'[q] = "Halted" /\ slice'[q] = slice[q]
  BY <1>41 DEF TypeOK, InTable, MainSpuriousWake
<1>42. ASSUME NEW c \in Cores, ReleaseProcess(c) PROVE state'[q] = "Halted" /\ slice'[q] = slice[q]
  BY <1>42, InTableType DEF TypeOK, ReleaseProcess, ReleaseTo
<1>43. ASSUME NEW c \in Cores, StoreHalted(c) PROVE state'[q] = "Halted" /\ slice'[q] = slice[q]
  BY <1>43, InTableType DEF TypeOK, StoreHalted
<1>44. ASSUME NEW c \in Cores, ReleaseReady(c) PROVE state'[q] = "Halted" /\ slice'[q] = slice[q]
  BY <1>44 DEF ReleaseReady, OwnsCycle
<1>45. ASSUME MainLoadFails PROVE state'[q] = "Halted" /\ slice'[q] = slice[q]
  BY <1>45 DEF TypeOK, InTable, MainLoadFails
<1>46. ASSUME NEW p \in InTable, MainStepLoadFails(p) PROVE state'[q] = "Halted" /\ slice'[q] = slice[q]
  BY <1>46 DEF TypeOK, InTable, MainStepLoadFails, Tick
<1> QED
  BY <1>1, <1>2, <1>3, <1>4, <1>5, <1>6, <1>7, <1>8, <1>9, <1>10, <1>11,
     <1>12, <1>13, <1>14, <1>15, <1>16, <1>17, <1>18, <1>19, <1>20, <1>21,
     <1>22, <1>23, <1>24, <1>25, <1>26, <1>27, <1>28, <1>29, <1>30, <1>31,
     <1>32, <1>33, <1>34, <1>35, <1>36, <1>37, <1>38, <1>39, <1>40, <1>41,
     <1>42, <1>43, <1>44, <1>45, <1>46
  DEF Next, OwnerStep, ClientCall, Spurious, CoreStep, AcquireProcess,
      LoadProgram, ExecuteInstruction

\* If no guest uses the load call, no two cores ever hold the same process and a
\* core owns the life cycle of the process it holds.
THEOREM ExclusiveCores ==
    ASSUME "Load" \notin Kinds
    PROVE  Spec => [](Exclusive /\ Ownership)
<1>1. Init => Exclusive /\ Ownership /\ HaltMarked
  BY DEF Init, Exclusive, Ownership, HaltMarked, FreePCs, LoadPCs
<1>2. TypeOK /\ NoNullProcess /\ Exclusive /\ Ownership /\ HaltMarked
        /\ [Next]_vars
        => (Exclusive /\ Ownership /\ HaltMarked)'
  <2>1. ASSUME Exclusive, Ownership, HaltMarked, UNCHANGED vars
        PROVE  (Exclusive /\ Ownership /\ HaltMarked)'
    BY <2>1 DEF vars, tableVars, pcbVars, coreVars, mainVars, Exclusive,
       Ownership, HaltMarked, InTable
  <2>2. ASSUME TypeOK, NoNullProcess, Exclusive, Ownership, HaltMarked, Next
        PROVE  (Exclusive /\ Ownership /\ HaltMarked)'
    <3>1. OwnsCycle /\ OutsideRun
      BY <2>2, OwnershipParts
    <3>2. Exclusive' /\ OwnsCycle' /\ OutsideRun' /\ HaltMarked'
      BY <2>2, <3>1, OwnershipStep, OutsideStep, MarkedStep
    <3> QED BY <3>2 DEF Ownership, OwnsCycle, OutsideRun
  <2> QED BY <2>1, <2>2
<1> QED BY <1>1, <1>2, TypeCorrect, PTL DEF Spec

\* The second half alone: without the load call coreLoop holds a process only
\* while it is Running or Halted, and releaseProcess gives up only Halted ones.
THEOREM CoresOwnProcesses ==
    ASSUME "Load" \notin Kinds
    PROVE  Spec => []Ownership
<1> QED BY ExclusiveCores, PTL

\* If no guest uses the load call, run() stops the machine only when every
\* process has halted.
THEOREM StopsWhenHalted ==
    ASSUME "Load" \notin Kinds
    PROVE  Spec => []StopOnlyWhenHalted
<1>1. Init => StopOnlyWhenHalted
  BY DEF Init, StopOnlyWhenHalted
<1>2. /\ TypeOK /\ NoNullProcess /\ Exclusive /\ Ownership
      /\ StopOnlyWhenHalted /\ [Next]_vars
      => StopOnlyWhenHalted'
  <2>1. ASSUME StopOnlyWhenHalted, UNCHANGED vars PROVE StopOnlyWhenHalted'
    BY <2>1 DEF vars, tableVars, pcbVars, mainVars, StopOnlyWhenHalted, Done,
       InTable
  <2> QED BY <2>1, StopStep, OwnershipParts
<1> QED BY <1>1, <1>2, TypeCorrect, ExclusiveCores, PTL DEF Spec

\* If no guest uses the load call and the owner does not single-step, a Halted
\* process stays Halted and executes nothing more.
THEOREM HaltedForGood ==
    ASSUME "Load" \notin Kinds, ~ClientSteps
    PROVE  Spec => HaltedIsFinal
<1> DEFINE Final == \A p \in InTable : state[p] = "Halted" =>
                        state'[p] = "Halted" /\ slice'[p] = slice[p]
<1>1. /\ TypeOK /\ RegionsAccounted /\ NoNullProcess
      /\ Exclusive /\ Ownership /\ [Next]_vars
      => [Final]_vars
  BY FinalStep, OwnershipParts
<1>2. Spec => [][Final]_vars
  BY <1>1, TypeCorrect, ExclusiveCores, PTL DEF Spec
<1> QED BY <1>2 DEF HaltedIsFinal
=============================================================================
