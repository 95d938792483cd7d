------------------------- MODULE PrivateMemoryProofs -------------------------
(***************************************************************************)
(* Proof that Memory implements PrivateMemory for every memory, region,    *)
(* stack and word size and every set of programs that fit their regions:   *)
(* one flat array and a bump allocator give each process a data segment    *)
(* and a stack of its own.                                                 *)
(*                                                                         *)
(*   FreshAndAligned          what a process finds when it starts, and     *)
(*                            where its stack pointer can be               *)
(*   RefinesPrivateMemory     the refinement                               *)
(***************************************************************************)
EXTENDS MCMemory, MemoryProofs

-----------------------------------------------------------------------------
(* The inductive invariant, beyond Inv of MemoryProofs. *)

\* Memory that was never handed out still holds the zeroes it started with.
FreeZero == \A a \in Address : nextFreeAddress <= a => memory[a] = 0

\* So does the stack segment of a process that does not exist yet: no loader
\* writes to it.
StackFresh ==
    \A p \in Placed \ Created : \A a \in Address :
        a \in StackAddress(layout[p])..StackTop(layout[p]) - 1 => memory[a] = 0

\* While the code is being loaded the data segment is the image of the program.
DataFresh ==
    \A p \in Procs : status[p] = "code" =>
        \A o \in 1..layout[p].dataSize :
            memory[DataAddress(layout[p]) + o - 1] = program[p].data[o]

\* The stack pointer is a number of whole words below the top.
StackAligned ==
    \A p \in Created : \E d \in Nat :
        sp[p] + d * WordSize = StackTop(layout[p])

PrivateInv == Inv /\ FreeZero /\ StackFresh /\ DataFresh /\ StackAligned

\* The arithmetic of words in a segment.
LEMMA WordMultiple ==
    ASSUME NEW d \in Nat
    PROVE  /\ d * WordSize \in Nat /\ (d * WordSize) \div WordSize = d
           /\ \A i \in Nat : i <= d => i * WordSize <= d * WordSize
           /\ (d + 1) * WordSize = d * WordSize + WordSize
           /\ d >= 1 => d * WordSize = (d - 1) * WordSize + WordSize
<1> USE MemoryAssumption
<1>1. d * WordSize \in Nat /\ (d + 1) * WordSize = d * WordSize + WordSize
  OBVIOUS
<1>2. (d * WordSize) \div WordSize = d
  OBVIOUS
<1>3. ASSUME NEW i \in Nat, i <= d PROVE i * WordSize <= d * WordSize
  <2>1. (d - i) * WordSize \in Nat
    <3>1. d - i \in Nat
      BY <1>3
    <3> QED BY <3>1
  <2>2. (d - i) * WordSize = d * WordSize - i * WordSize
    OBVIOUS
  <2>3. i * WordSize \in Nat
    OBVIOUS
  <2> QED BY <1>1, <2>1, <2>2, <2>3
<1>4. d >= 1 => d * WordSize = (d - 1) * WordSize + WordSize
  OBVIOUS
<1> QED BY <1>1, <1>2, <1>3, <1>4

\* Every address of a placed process's segments is in memory and below the next
\* free address.
LEMMA SegmentInMemory ==
    ASSUME Inv, Fits, NEW p \in Placed
    PROVE  /\ DataAddress(layout[p]) \in Nat /\ layout[p].dataSize \in Nat
           /\ CodeAddress(layout[p]) \in Nat /\ CodeAddress(layout[p]) = layout[p].base
           /\ CodeAddress(layout[p]) <= DataAddress(layout[p])
           /\ StackAddress(layout[p]) = DataAddress(layout[p]) + layout[p].dataSize
           /\ StackTop(layout[p]) = StackAddress(layout[p]) + StackSize
           /\ StackAddress(layout[p]) \in Nat /\ StackTop(layout[p]) \in Nat
           /\ StackTop(layout[p]) <= MemSize
           /\ StackTop(layout[p]) <= nextFreeAddress
           /\ \A a \in CodeAddress(layout[p])..StackTop(layout[p]) - 1 :
                a \in Address /\ a \in Footprint(layout[p])
<1>1. p \in Procs /\ layout[p] \in Layout
  BY DEF Placed, Inv, TypeOK
<1>2. /\ DataAddress(layout[p]) \in Nat /\ layout[p].dataSize \in Nat
      /\ CodeAddress(layout[p]) \in Nat /\ layout[p].codeSize \in Nat
      /\ CodeAddress(layout[p]) + layout[p].codeSize = DataAddress(layout[p])
      /\ StackAddress(layout[p]) = DataAddress(layout[p]) + layout[p].dataSize
      /\ StackTop(layout[p]) = StackAddress(layout[p]) + StackSize
      /\ StackAddress(layout[p]) \in Nat /\ StackTop(layout[p]) \in Nat
  BY <1>1, SegmentAddresses DEF Layout
<1>3. /\ StackTop(layout[p]) <= layout[p].base + RegionSize
      /\ layout[p].base \in Nat
      /\ layout[p].base + RegionSize <= MemSize
      /\ layout[p].base + RegionSize <= nextFreeAddress
  BY FootprintInRegion DEF Inv, Allocated, RegionsDisjoint
<1>4. StackTop(layout[p]) <= MemSize /\ StackTop(layout[p]) <= nextFreeAddress
  <2>1. nextFreeAddress \in Nat /\ MemSize \in Nat /\ RegionSize \in Nat
    BY MemoryAssumption DEF Inv, TypeOK
  <2> DEFINE r == layout[p].base + RegionSize
             t == StackTop(layout[p])
  <2>2. r \in Nat /\ t \in Nat /\ t <= r /\ r <= MemSize /\ r <= nextFreeAddress
    BY <1>2, <1>3, <2>1
  <2> HIDE DEF r, t
  <2>3. t <= MemSize /\ t <= nextFreeAddress
    BY <2>1, <2>2
  <2> QED BY <2>3 DEF t
<1>5. ASSUME NEW a \in CodeAddress(layout[p])..StackTop(layout[p]) - 1
      PROVE  a \in Address /\ a \in Footprint(layout[p])
  <2> DEFINE c == CodeAddress(layout[p])
             t == StackTop(layout[p])
  <2>1. c \in Nat /\ t \in Nat /\ t <= MemSize /\ MemSize \in Nat
    BY <1>2, <1>4, MemoryAssumption
  <2>2. a \in c..t - 1
    BY <1>5
  <2> HIDE DEF c, t
  <2>3. a \in 0..MemSize - 1
    BY <2>1, <2>2
  <2> QED BY <1>5, <2>3 DEF Address, Footprint
<1> QED BY <1>2, <1>4, <1>5 DEF CodeAddress

\* What one process does leaves the segments of another alone.
LEMMA OthersKept ==
    ASSUME Inv, Fits, NEW q \in Procs, Loader(q) \/ ProcessStep(q),
           NEW p \in Placed, p # q,
           NEW a \in CodeAddress(layout[p])..StackTop(layout[p]) - 1
    PROVE  memory'[a] = memory[a]
<1>1. a \in Address /\ a \in Footprint(layout[p])
  BY SegmentInMemory
<1>2. Separated
  BY InvSeparated
<1> QED BY <1>1, <1>2, StepWritesOwn DEF Separated

\* A loader writes below the stack segment, and after LoadData below the data.
LEMMA LoaderBelow ==
    ASSUME Inv, Fits, NEW p \in Procs, Loader(p), NEW a \in Address,
           memory'[a] # memory[a]
    PROVE  /\ a < StackAddress(layout[p])
           /\ LoadCodeWord(p) => a < DataAddress(layout[p])
<1> USE MemoryAssumption
<1>1. (LoadData(p) \/ LoadCodeWord(p)) /\ p \in Placed
  BY LoaderWrites
<1>2. /\ DataAddress(layout[p]) \in Nat /\ layout[p].dataSize \in Nat
      /\ StackAddress(layout[p]) = DataAddress(layout[p]) + layout[p].dataSize
  BY <1>1, SegmentInMemory
<1>3. CASE LoadData(p)
  <2>1. memory' = Written(DataAddress(layout[p]), program[p].data)
    BY <1>3 DEF LoadData
  <2>2. a \in DataAddress(layout[p])..
              DataAddress(layout[p]) + Len(program[p].data) - 1
    BY <2>1, <1>2, WrittenOutside
  <2>3. Len(program[p].data) = layout[p].dataSize
    BY <1>1 DEF Inv, LayoutMatches
  <2>4. a < StackAddress(layout[p])
    BY <1>2, <2>2, <2>3
  <2> QED BY <1>3, <2>4 DEF LoadData, LoadCodeWord
<1>4. CASE LoadCodeWord(p)
  <2>1. memory' = Written(CodeWordAddress(p), program[p].code[filled[p] + 1])
    BY <1>4 DEF LoadCodeWord
  <2>2. /\ CodeWordAddress(p) \in Nat
        /\ CodeWordAddress(p) + WordSize <= DataAddress(layout[p])
        /\ Len(program[p].code[filled[p] + 1]) = WordSize
    BY <1>4, CodeWordInSegment
  <2>3. a \in CodeWordAddress(p)..CodeWordAddress(p) + WordSize - 1
    BY <2>1, <2>2, WrittenOutside
  <2> QED BY <1>2, <2>2, <2>3
<1> QED BY <1>1, <1>3, <1>4

-----------------------------------------------------------------------------
(* The invariant is one. *)

\* A loading process leaves FreeZero, StackFresh and DataFresh, as does an
\* instruction of a process that exists.
LEMMA FreshStep ==
    ASSUME Inv, Fits, FreeZero, StackFresh, DataFresh, NEW q \in Procs,
           Loader(q) \/ ProcessStep(q)
    PROVE  FreeZero' /\ StackFresh' /\ DataFresh'
<1> USE MemoryAssumption
<1>1. /\ \A p \in Placed : layout'[p] = layout[p] /\ program'[p] = program[p]
      /\ nextFreeAddress' \in Nat /\ nextFreeAddress \in Nat
      /\ nextFreeAddress <= nextFreeAddress'
  BY DEF Loader, AllocateRegion, LoadData, LoadCodeWord, CreateProcess,
     ProcessStep, LoadWord, DataTrap, FetchTrap, PathTrap, StoreWord, PushWord,
     PopWord, PushFails, PopFails, loadVars, Bump, Placed, Inv, TypeOK
<1>2. FreeZero'
  <2>1. SUFFICES ASSUME NEW a \in Address, nextFreeAddress' <= a,
                        memory'[a] # memory[a]
                 PROVE  FALSE
    BY <1>1 DEF FreeZero, Address
  <2>2. q \in Placed /\ a \in Footprint(layout[q])
    BY <2>1, StepWritesOwn
  <2>3. /\ StackTop(layout[q]) <= nextFreeAddress /\ StackTop(layout[q]) \in Nat
        /\ CodeAddress(layout[q]) \in Nat
    BY <2>2, SegmentInMemory
  <2> QED BY <1>1, <2>1, <2>2, <2>3 DEF Footprint, Address
<1>3. \A p \in Procs :
        /\ p # q => status'[p] = status[p]
        /\ p \in Placed' /\ p \notin Placed =>
            p = q /\ \E prog \in Programs : AllocateRegion(q, prog)
        /\ p \in Created => p \in Created'
  BY DEF Loader, AllocateRegion, LoadData, LoadCodeWord, CreateProcess,
     ProcessStep, LoadWord, DataTrap, FetchTrap, PathTrap, StoreWord, PushWord,
     PopWord, PushFails, PopFails, Running, Placed, Created, Inv, TypeOK, Statuses
<1>4. StackFresh'
  <2>1. SUFFICES ASSUME NEW p \in Placed' \ Created', NEW a \in Address,
                        a \in StackAddress(layout'[p])..StackTop(layout'[p]) - 1
                 PROVE  memory'[a] = 0
    BY DEF StackFresh, StackAddress, StackTop
  <2>2. p \in Procs /\ p \notin Created
    BY <1>3 DEF Placed
  <2>3. CASE p \in Placed
    <3>1. /\ a \in StackAddress(layout[p])..StackTop(layout[p]) - 1
          /\ memory[a] = 0
      BY <1>1, <2>1, <2>2, <2>3 DEF StackFresh
    <3>2. a \in CodeAddress(layout[p])..StackTop(layout[p]) - 1
      BY <2>3, <3>1, SegmentInMemory
    <3>3. CASE p # q
      BY <2>3, <3>1, <3>2, <3>3, OthersKept
    <3>4. CASE p = q
      <4>1. ~ProcessStep(q)
        BY <2>2, <3>4 DEF Created, ProcessStep, LoadWord, DataTrap, FetchTrap,
           PathTrap, StoreWord, PushWord, PopWord, PushFails, PopFails, Running
      <4>2. ~(a < StackAddress(layout[p]))
        BY <2>3, <3>1, SegmentInMemory
      <4> QED BY <3>1, <3>4, <4>1, <4>2, LoaderBelow
    <3> QED BY <3>3, <3>4
  <2>4. CASE p \notin Placed
    <3>1. PICK prog \in Programs : AllocateRegion(p, prog)
      BY <1>3, <2>2, <2>4
    <3>2. memory' = memory /\ layout'[p] = LayoutOf(prog)
      BY <2>2, <3>1 DEF AllocateRegion, Inv, TypeOK
    <3>3. layout'[p] \in Layout /\ layout'[p].base = nextFreeAddress
      BY <1>1, <3>2, LayoutOfType DEF LayoutOf
    <3>4. nextFreeAddress <= a
      <4>1. StackAddress(layout'[p]) >= nextFreeAddress
        BY <3>3 DEF StackAddress, Layout
      <4> QED BY <1>1, <2>1, <3>3, <4>1, SegmentAddresses DEF Address
    <3> QED BY <3>2, <3>4 DEF FreeZero
  <2> QED BY <2>3, <2>4
<1>5. DataFresh'
  <2>1. SUFFICES ASSUME NEW p \in Procs, status'[p] = "code",
                        NEW o \in 1..layout'[p].dataSize
                 PROVE  memory'[DataAddress(layout'[p]) + o - 1]
                            = program'[p].data[o]
    BY DEF DataFresh, DataAddress
  <2>2. p \in Placed /\ (status[p] = "code" \/ LoadData(p))
    BY <2>1 DEF Loader, AllocateRegion, LoadData, LoadCodeWord, CreateProcess,
       ProcessStep, LoadWord, DataTrap, FetchTrap, PathTrap, StoreWord, PushWord,
       PopWord, PushFails, PopFails, Placed, Inv, TypeOK
  <2> DEFINE a == DataAddress(layout[p]) + o - 1
  <2>3. o \in 1..layout[p].dataSize /\ program'[p] = program[p]
        /\ layout'[p] = layout[p]
    BY <1>1, <2>1, <2>2
  <2>4. /\ a \in CodeAddress(layout[p])..StackTop(layout[p]) - 1
        /\ a \in Address /\ a >= DataAddress(layout[p])
        /\ DataAddress(layout[p]) \in Nat
    <3>1. a \in CodeAddress(layout[p])..StackTop(layout[p]) - 1
      BY <2>2, <2>3, SegmentInMemory
    <3> QED BY <2>2, <2>3, <3>1, SegmentInMemory
  <2>5. CASE status[p] = "code"
    <3>1. memory[a] = program[p].data[o]
      BY <2>3, <2>5 DEF DataFresh
    <3>2. CASE p # q
      BY <2>2, <2>3, <2>4, <3>1, <3>2, OthersKept
    <3>3. CASE p = q
      <4>1. ~ProcessStep(q)
        BY <2>5, <3>3 DEF ProcessStep, LoadWord, DataTrap, FetchTrap,
           PathTrap, StoreWord, PushWord, PopWord, PushFails, PopFails, Running
      <4>2. ~LoadData(q)
        BY <2>5, <3>3 DEF LoadData
      <4>3. memory'[a] # memory[a] => LoadCodeWord(q)
        BY <2>4, <4>1, <4>2, LoaderWrites
      <4> HIDE DEF a
      <4>4. memory'[a] = memory[a]
        BY <2>4, <3>3, <4>1, <4>3, LoaderBelow, MemoryAssumption DEF Address
      <4> QED BY <2>3, <3>1, <4>4 DEF a
    <3> QED BY <3>2, <3>3
  <2>6. CASE LoadData(p)
    <3>1. memory' = Written(DataAddress(layout[p]), program[p].data)
      BY <2>1, <2>3, <2>6 DEF LoadData, Inv, TypeOK
    <3>2. Len(program[p].data) = layout[p].dataSize
      BY <2>2 DEF Inv, LayoutMatches
    <3>3. /\ a \in DataAddress(layout[p])..
                   DataAddress(layout[p]) + Len(program[p].data) - 1
          /\ a - DataAddress(layout[p]) + 1 = o
      <4> DEFINE n == layout[p].dataSize
                 d == DataAddress(layout[p])
      <4>1. n \in Nat /\ d \in Nat /\ o \in 1..n /\ a = d + o - 1
        BY <2>2, <2>3, SegmentInMemory
      <4> HIDE DEF n, d, a
      <4>2. a \in d..d + n - 1 /\ a - d + 1 = o
        BY <4>1
      <4> QED BY <3>2, <4>2 DEF n, d
    <3>4. memory'[a] = program[p].data[o]
      BY <2>4, <3>1, <3>3 DEF Written
    <3> QED BY <2>3, <3>4
  <2> QED BY <2>2, <2>5, <2>6
<1> QED BY <1>2, <1>4, <1>5

\* Only a push and a pop move a stack pointer once createProcess has set it, and
\* by a word.
LEMMA AlignedStep ==
    ASSUME Inv, Fits, StackAligned, NEW q \in Procs, Loader(q) \/ ProcessStep(q)
    PROVE  StackAligned'
<1> USE MemoryAssumption
<1>1. /\ \A p \in Created : layout'[p] = layout[p]
      /\ \A p \in Created' : p \in Created \/ CreateProcess(p)
  BY DEF Loader, AllocateRegion, LoadData, LoadCodeWord, CreateProcess,
     ProcessStep, LoadWord, DataTrap, FetchTrap, PathTrap, StoreWord, PushWord,
     PopWord, PushFails, PopFails, loadVars, Running, Created, Inv, TypeOK
<1>2. \A p \in Created :
        \/ sp'[p] = sp[p]
        \/ p = q /\ CanPush(p) /\ sp'[p] = PushAt(p)
        \/ p = q /\ CanPop(p) /\ sp'[p] = PopAdvance(p)
  BY DEF Loader, AllocateRegion, LoadData, LoadCodeWord, CreateProcess,
     ProcessStep, LoadWord, DataTrap, FetchTrap, PathTrap, StoreWord, PushWord,
     PopWord, PushFails, PopFails, loadVars, Created, Inv, TypeOK
<1>3. SUFFICES ASSUME NEW p \in Created'
               PROVE  \E d \in Nat : sp'[p] + d * WordSize = StackTop(layout'[p])
  BY DEF StackAligned, StackTop, StackAddress
<1>4. CASE p \in Created
  <2>1. PICK d \in Nat : sp[p] + d * WordSize = StackTop(layout[p])
    BY <1>4 DEF StackAligned
  <2>2. /\ p \in Placed /\ sp[p] \in Nat
        /\ StackTop(layout[p]) \in Nat /\ StackAddress(layout[p]) \in Nat
    BY <1>4, SegmentInMemory DEF Created, Placed, Inv, TypeOK
  <2>3. layout'[p] = layout[p]
    BY <1>1, <1>4
  <2>4. CASE sp'[p] = sp[p]
    BY <2>1, <2>3, <2>4
  <2>5. CASE CanPush(p) /\ sp'[p] = PushAt(p)
    <3>1. sp'[p] + (d + 1) * WordSize = StackTop(layout[p])
      <4>1. (d + 1) * WordSize = d * WordSize + WordSize /\ d * WordSize \in Nat
        BY WordMultiple
      <4> QED BY <2>1, <2>2, <2>5, <4>1 DEF PushAt
    <3> QED BY <2>3, <3>1
  <2>6. CASE CanPop(p) /\ sp'[p] = PopAdvance(p)
    <3>1. d # 0
      BY <2>1, <2>2, <2>6 DEF CanPop
    <3>2. d - 1 \in Nat /\ sp'[p] + (d - 1) * WordSize = StackTop(layout[p])
      <4>1. d - 1 \in Nat /\ d * WordSize = (d - 1) * WordSize + WordSize
        BY <3>1, WordMultiple
      <4>2. (d - 1) * WordSize \in Nat
        BY <4>1, WordMultiple
      <4> QED BY <2>1, <2>2, <2>6, <4>1, <4>2 DEF PopAdvance
    <3> QED BY <2>3, <3>2
  <2> QED BY <1>2, <1>4, <2>4, <2>5, <2>6
<1>5. CASE CreateProcess(p)
  <2>1. p \in Procs
    BY DEF Created
  <2>2. sp'[p] = InitialSp(layout[p]) /\ layout'[p] = layout[p]
    BY <1>5, <2>1 DEF CreateProcess, loadVars, Inv, TypeOK
  <2>3. StackTop(layout[p]) \in Nat
    BY <2>1, SegmentAddresses DEF Inv, TypeOK
  <2>4. sp'[p] + 1 * WordSize = StackTop(layout[p])
    BY <2>2, <2>3 DEF InitialSp
  <2> QED BY <2>2, <2>4
<1> QED BY <1>1, <1>4, <1>5

LEMMA PrivateInit == Init => PrivateInv
BY InitInv DEF Init, PrivateInv, FreeZero, StackFresh, DataFresh, StackAligned,
   Placed, Created

LEMMA PrivateNext == Fits /\ PrivateInv /\ [Next]_vars => PrivateInv'
<1>1. ASSUME Fits, PrivateInv, Next PROVE PrivateInv'
  BY <1>1, FreshStep, AlignedStep, NextInv DEF PrivateInv, Next
<1>2. ASSUME PrivateInv, UNCHANGED vars PROVE PrivateInv'
  BY <1>2, NextInv DEF vars, PrivateInv, FreeZero, StackFresh, DataFresh,
     StackAligned, Placed, Created
<1> QED BY <1>1, <1>2

\* When its program starts, a process finds its own image in its data segment
\* and zeroes in its stack, whatever ran before, and its stack pointer never
\* points into the middle of a word.
THEOREM FreshAndAligned ==
    Fits => (Spec => [](FreeZero /\ StackFresh /\ DataFresh /\ StackAligned))
<1> SUFFICES ASSUME Fits
             PROVE  Spec => [](FreeZero /\ StackFresh /\ DataFresh /\ StackAligned)
  OBVIOUS
<1>1. PrivateInv /\ [Next]_vars => PrivateInv'
  BY PrivateNext
<1> QED BY <1>1, PrivateInit, PTL DEF Spec, PrivateInv

-----------------------------------------------------------------------------
(* The private view of one process. *)

DataOf(p) ==
    [o \in 1..layout[p].dataSize |-> memory[DataAddress(layout[p]) + o - 1]]

StackOf(p) ==
    [i \in 1..(StackTop(layout[p]) - sp[p]) \div WordSize |->
        WordAt(StackTop(layout[p]) - i * WordSize)]

\* d words lie on the stack of p.
StackHolds(p, d) == sp[p] + d * WordSize = StackTop(layout[p])

LEMMA Views ==
    /\ PrivateData = [p \in Procs |-> IF p \in Created THEN DataOf(p) ELSE <<>>]
    /\ PrivateStack = [p \in Procs |-> IF p \in Created THEN StackOf(p) ELSE <<>>]
    /\ PrivateStatus = [p \in Procs |-> IF p \in Created THEN status[p] ELSE "new"]
    /\ PrivateData' =
        [p \in Procs |-> IF p \in Created' THEN DataOf(p)' ELSE <<>>]
    /\ PrivateStack' =
        [p \in Procs |-> IF p \in Created' THEN StackOf(p)' ELSE <<>>]
    /\ PrivateStatus' =
        [p \in Procs |-> IF p \in Created' THEN status'[p] ELSE "new"]
BY DEF PrivateData, PrivateStack, PrivateStatus, DataOf, StackOf

\* A word that was just written is what a read finds (writeWord, readWord).
LEMMA WordWritten ==
    ASSUME NEW a \in Nat, InRange(a, WordSize), NEW w \in Word,
           memory' = Written(a, w)
    PROVE  /\ [k \in 1..WordSize |-> memory'[a + k - 1]] = w
           /\ \A b \in Address : b \notin a..a + WordSize - 1 =>
                memory'[b] = memory[b]
<1>1. Len(w) = WordSize
  BY WordIsSeq
<1>2. ASSUME NEW k \in 1..WordSize PROVE memory'[a + k - 1] = w[k]
  <2>1. a + k - 1 \in Address
    BY MemoryAssumption DEF InRange, Address
  <2>2. a + k - 1 \in a..a + Len(w) - 1 /\ (a + k - 1) - a + 1 = k
    BY <1>1, MemoryAssumption
  <2> QED BY <2>1, <2>2 DEF Written
<1>3. [k \in 1..WordSize |-> memory'[a + k - 1]] = w
  BY <1>2 DEF Word
<1>4. \A b \in Address : b \notin a..a + WordSize - 1 => memory'[b] = memory[b]
  BY <1>1 DEF Written
<1> QED BY <1>3, <1>4

\* A stack of StackSize bytes holds d words exactly if d is at most Depth.
LEMMA DepthBound ==
    ASSUME NEW d \in Nat
    PROVE  /\ StackSize \div WordSize \in Nat
           /\ d * WordSize <= StackSize <=> d <= StackSize \div WordSize
<1> DEFINE n == StackSize \div WordSize
           r == StackSize % WordSize
<1>1. WordSize \in Nat \ {0} /\ StackSize \in Nat
  BY MemoryAssumption
<1>2. n \in Nat /\ r \in Nat /\ r < WordSize /\ StackSize = WordSize * n + r
  BY <1>1
<1>3. n * WordSize = WordSize * n /\ n * WordSize \in Nat
  BY <1>1, <1>2
<1>4. d * WordSize \in Nat
  BY <1>1
<1> HIDE DEF n, r
<1>5. CASE d <= n
  <2>1. d * WordSize <= n * WordSize
    BY <1>2, <1>5, WordMultiple
  <2> DEFINE x == d * WordSize
             y == n * WordSize
  <2>2. x \in Nat /\ y \in Nat /\ x <= y /\ StackSize = y + r
    BY <1>2, <1>3, <1>4, <2>1
  <2> HIDE DEF x, y
  <2>3. x <= StackSize
    BY <1>1, <1>2, <2>2
  <2> QED BY <1>2, <1>5, <2>3 DEF x, n
<1>6. CASE ~(d <= n)
  <2>1. n * WordSize + WordSize <= d * WordSize
    BY <1>2, <1>6, WordsInOrder
  <2> DEFINE x == d * WordSize
             y == n * WordSize
  <2>2. x \in Nat /\ y \in Nat /\ y + WordSize <= x /\ StackSize = y + r
    BY <1>2, <1>3, <1>4, <2>1
  <2> HIDE DEF x, y
  <2>3. ~(x <= StackSize)
    BY <1>1, <1>2, <2>2
  <2> QED BY <1>2, <1>6, <2>3 DEF x, n
<1> QED BY <1>5, <1>6

\* How many words the stack holds decides what canPush and canPop say.
LEMMA StackShape ==
    ASSUME Inv, Fits, NEW p \in Created, NEW d \in Nat, StackHolds(p, d)
    PROVE  /\ StackOf(p) = [i \in 1..d |-> WordAt(StackTop(layout[p]) - i * WordSize)]
           /\ d <= StackSize \div WordSize
           /\ CanPush(p) <=> d < StackSize \div WordSize
           /\ CanPop(p) <=> d >= 1
<1> DEFINE t == StackTop(layout[p])
           b == StackAddress(layout[p])
           x == d * WordSize
<1>1. p \in Placed /\ p \in Procs
  BY DEF Created, Placed
<1>2. /\ t \in Nat /\ b \in Nat /\ t = b + StackSize
      /\ sp[p] \in Nat /\ sp[p] >= b /\ sp[p] <= t
  <2>1. t \in Nat /\ b \in Nat /\ t = b + StackSize
    BY <1>1, SegmentInMemory
  <2>2. sp[p] \in Nat /\ sp[p] \in b..t
    BY <1>1 DEF Inv, TypeOK, StackPointerInSegment
  <2> QED BY <2>1, <2>2
<1>3. x \in Nat /\ x \div WordSize = d /\ (d + 1) * WordSize = x + WordSize
      /\ (d >= 1 => x = (d - 1) * WordSize + WordSize)
  BY WordMultiple
<1>4. sp[p] + x = t
  BY DEF StackHolds
<1>5. WordSize \in Nat /\ WordSize > 0 /\ StackSize \in Nat
  BY MemoryAssumption
<1>6. d + 1 \in Nat
  OBVIOUS
<1> HIDE DEF t, b, x
<1>7. (t - sp[p]) \div WordSize = d
  <2>1. t - sp[p] = x
    BY <1>2, <1>3, <1>4
  <2> QED BY <1>3, <2>1
<1>8. x <= StackSize
  BY <1>2, <1>3, <1>4, <1>5
<1>9. d <= StackSize \div WordSize
  BY <1>8, DepthBound DEF x
<1>10. CanPush(p) <=> x + WordSize <= StackSize
  <2>1. CanPush(p) <=> sp[p] >= b + WordSize /\ sp[p] <= t
    BY DEF CanPush, t, b
  <2> QED BY <1>2, <1>3, <1>4, <1>5, <2>1
<1>11. CanPush(p) <=> d + 1 <= StackSize \div WordSize
  BY <1>3, <1>6, <1>10, DepthBound
<1>12. CanPop(p) <=> x >= WordSize
  <2>1. CanPop(p) <=> sp[p] + WordSize <= t /\ sp[p] >= b
    BY DEF CanPop, t, b
  <2> QED BY <1>2, <1>3, <1>4, <1>5, <2>1
<1>13. x >= WordSize <=> d >= 1
  <2>1. d = 0 => x = 0
    BY <1>5 DEF x
  <2>2. d >= 1 => x >= WordSize
    <3>1. d >= 1 => (d - 1) * WordSize \in Nat
      BY WordMultiple
    <3> QED BY <1>3, <1>5, <3>1
  <2> QED BY <1>3, <1>5, <2>1, <2>2
<1>14. d < StackSize \div WordSize <=> d + 1 <= StackSize \div WordSize
  BY <1>6, DepthBound
<1> QED BY <1>7, <1>9, <1>11, <1>12, <1>13, <1>14 DEF StackOf, t

\* The bytes of a word on the stack, and of the data segment, are in memory.
LEMMA StackByte ==
    ASSUME Inv, Fits, NEW p \in Created, NEW d \in Nat, StackHolds(p, d),
           NEW i \in 1..d, NEW k \in 1..WordSize
    PROVE  LET a == StackTop(layout[p]) - i * WordSize + k - 1 IN
           /\ a \in sp[p]..StackTop(layout[p]) - 1
           /\ a \in CodeAddress(layout[p])..StackTop(layout[p]) - 1
           /\ a \in Address
<1> DEFINE t == StackTop(layout[p])
           c == CodeAddress(layout[p])
           x == d * WordSize
           y == i * WordSize
           a == t - y + k - 1
<1>1. p \in Placed /\ p \in Procs
  BY DEF Created, Placed
<1>2. t \in Nat /\ c \in Nat /\ sp[p] \in Nat /\ c <= sp[p]
  <2>1. /\ t \in Nat /\ c \in Nat /\ c <= DataAddress(layout[p])
        /\ DataAddress(layout[p]) \in Nat /\ layout[p].dataSize \in Nat
        /\ StackAddress(layout[p]) = DataAddress(layout[p]) + layout[p].dataSize
    BY <1>1, SegmentInMemory
  <2>2. sp[p] \in Nat /\ sp[p] \in StackAddress(layout[p])..t
    BY <1>1 DEF Inv, TypeOK, StackPointerInSegment
  <2> HIDE DEF c, t
  <2> QED BY <2>1, <2>2
<1>3. x \in Nat /\ y \in Nat /\ y <= x /\ WordSize <= y /\ sp[p] + x = t
  <2>1. i \in Nat /\ 1 <= i /\ i <= d
    OBVIOUS
  <2>2. x \in Nat /\ y \in Nat /\ y <= x
    BY <2>1, WordMultiple
  <2>3. y = (i - 1) * WordSize + WordSize /\ (i - 1) * WordSize \in Nat
    <3>1. i - 1 \in Nat
      BY <2>1
    <3> QED BY <2>1, <3>1, WordMultiple
  <2>4. WordSize <= y
    BY <2>3, MemoryAssumption
  <2> QED BY <2>2, <2>4 DEF StackHolds
<1>4. WordSize \in Nat /\ k \in 1..WordSize
  BY MemoryAssumption
<1> HIDE DEF t, c, x, y
<1>5. a \in sp[p]..t - 1 /\ a \in c..t - 1
  BY <1>2, <1>3, <1>4
<1> HIDE DEF a
<1>6. a \in Address
  BY <1>1, <1>5, SegmentInMemory DEF c, t
<1> QED BY <1>5, <1>6 DEF t, c, y, a

LEMMA DataByte ==
    ASSUME Inv, Fits, NEW p \in Placed, NEW o \in 1..layout[p].dataSize
    PROVE  LET a == DataAddress(layout[p]) + o - 1 IN
           /\ a \in Address
           /\ a \in CodeAddress(layout[p])..StackTop(layout[p]) - 1
           /\ a < StackAddress(layout[p])
<1>1. DataAddress(layout[p]) + o - 1 \in CodeAddress(layout[p])..StackTop(layout[p]) - 1
  BY SegmentInMemory, MemoryAssumption
<1> QED BY <1>1, SegmentInMemory

\* A process sees the same data if none of the bytes changed, and the same stack
\* if its stack pointer did not move either.
LEMMA DataKept ==
    ASSUME Inv, Fits, NEW p \in Placed, layout'[p] = layout[p],
           \A o \in 1..layout[p].dataSize :
                memory'[DataAddress(layout[p]) + o - 1]
                    = memory[DataAddress(layout[p]) + o - 1]
    PROVE  DataOf(p)' = DataOf(p)
BY DEF DataOf, DataAddress

LEMMA WordsKept ==
    ASSUME Inv, Fits, NEW p \in Created, NEW d \in Nat, StackHolds(p, d),
           \A a \in Address : a \in sp[p]..StackTop(layout[p]) - 1 =>
                memory'[a] = memory[a],
           NEW i \in 1..d
    PROVE  [k \in 1..WordSize |-> memory'[StackTop(layout[p]) - i * WordSize + k - 1]]
                = WordAt(StackTop(layout[p]) - i * WordSize)
<1>1. ASSUME NEW k \in 1..WordSize
      PROVE  memory'[StackTop(layout[p]) - i * WordSize + k - 1]
                = memory[StackTop(layout[p]) - i * WordSize + k - 1]
  <2> DEFINE a == StackTop(layout[p]) - i * WordSize + k - 1
  <2>1. a \in Address /\ a \in sp[p]..StackTop(layout[p]) - 1
    BY StackByte
  <2> HIDE DEF a
  <2>2. memory'[a] = memory[a]
    BY <2>1
  <2> QED BY <2>2 DEF a
<1> QED BY <1>1 DEF WordAt

LEMMA StackKept ==
    ASSUME Inv, Fits, NEW p \in Created, NEW d \in Nat, StackHolds(p, d),
           layout'[p] = layout[p], sp'[p] = sp[p],
           \A a \in Address : a \in sp[p]..StackTop(layout[p]) - 1 =>
                memory'[a] = memory[a]
    PROVE  StackOf(p)' = StackOf(p)
<1> DEFINE n == (StackTop(layout[p]) - sp[p]) \div WordSize
<1>1. n = d
  <2>1. p \in Placed /\ p \in Procs
    BY DEF Created, Placed
  <2>2. StackTop(layout[p]) \in Nat /\ sp[p] \in Nat
    BY <2>1, SegmentInMemory DEF Inv, TypeOK
  <2> DEFINE x == d * WordSize
  <2>3. x \in Nat /\ x \div WordSize = d
    BY WordMultiple
  <2>4. sp[p] + x = StackTop(layout[p])
    BY DEF StackHolds
  <2> HIDE DEF x
  <2>5. StackTop(layout[p]) - sp[p] = x
    BY <2>2, <2>3, <2>4
  <2> QED BY <2>3, <2>5
<1> HIDE DEF n
<1>2. StackOf(p)' = [i \in 1..n |-> [k \in 1..WordSize |->
                        memory'[StackTop(layout[p]) - i * WordSize + k - 1]]]
  BY DEF StackOf, WordAt, StackTop, StackAddress, n
<1>3. StackOf(p) = [i \in 1..n |-> WordAt(StackTop(layout[p]) - i * WordSize)]
  BY DEF StackOf, n
<1> QED BY <1>1, <1>2, <1>3, WordsKept

-----------------------------------------------------------------------------
(* The steps. *)

\* What every step keeps: the processes that exist, and where they are.
LEMMA CreatedKept ==
    ASSUME Inv, NEW q \in Procs, Loader(q) \/ ProcessStep(q), NEW p \in Procs
    PROVE  /\ p \in Created => p \in Created' /\ layout'[p] = layout[p]
           /\ p # q => status'[p] = status[p] /\ sp'[p] = sp[p]
                        /\ (p \in Created <=> p \in Created')
           /\ ProcessStep(q) => q \in Created
BY DEF Loader, AllocateRegion, LoadData, LoadCodeWord, CreateProcess,
   ProcessStep, LoadWord, DataTrap, FetchTrap, PathTrap, StoreWord, PushWord,
   PopWord, PushFails, PopFails, loadVars, Running, Created, Inv, TypeOK, Statuses

\* What one process does is invisible to the others.
LEMMA OthersView ==
    ASSUME PrivateInv, Fits, NEW q \in Procs, Loader(q) \/ ProcessStep(q),
           NEW p \in Procs, p # q
    PROVE  /\ PrivateStatus'[p] = PrivateStatus[p]
           /\ PrivateData'[p] = PrivateData[p]
           /\ PrivateStack'[p] = PrivateStack[p]
<1> USE DEF PrivateInv
<1>1. /\ p \in Created <=> p \in Created'
      /\ status'[p] = status[p] /\ sp'[p] = sp[p]
      /\ p \in Created => layout'[p] = layout[p]
  BY CreatedKept
<1>2. ASSUME p \in Created PROVE DataOf(p)' = DataOf(p) /\ StackOf(p)' = StackOf(p)
  <2>1. p \in Placed
    BY <1>2 DEF Created, Placed
  <2>2. PICK d \in Nat : StackHolds(p, d)
    BY <1>2 DEF StackAligned, StackHolds
  <2>3. ASSUME NEW o \in 1..layout[p].dataSize
        PROVE  memory'[DataAddress(layout[p]) + o - 1]
                    = memory[DataAddress(layout[p]) + o - 1]
    BY <2>1, DataByte, OthersKept
  <2>4. ASSUME NEW a \in Address, a \in sp[p]..StackTop(layout[p]) - 1
        PROVE  memory'[a] = memory[a]
    <3>1. /\ CodeAddress(layout[p]) \in Nat /\ StackTop(layout[p]) \in Nat
          /\ sp[p] \in Nat /\ CodeAddress(layout[p]) <= sp[p]
      <4>1. sp[p] \in Nat /\ sp[p] \in StackAddress(layout[p])..StackTop(layout[p])
        BY <1>2 DEF Inv, TypeOK, StackPointerInSegment
      <4> QED BY <2>1, <4>1, SegmentInMemory
    <3>2. a \in CodeAddress(layout[p])..StackTop(layout[p]) - 1
      BY <2>4, <3>1
    <3> QED BY <2>1, <3>2, OthersKept
  <2>5. DataOf(p)' = DataOf(p)
    BY <1>1, <1>2, <2>1, <2>3, DataKept
  <2>6. StackOf(p)' = StackOf(p)
    BY <1>1, <1>2, <2>2, <2>4, StackKept
  <2> QED BY <2>5, <2>6
<1> QED BY <1>1, <1>2, Views

\* So a step changes the private view of one process at most.
LEMMA OnlyOwn ==
    ASSUME PrivateInv, Fits, NEW q \in Procs, Loader(q) \/ ProcessStep(q)
    PROVE  /\ PrivateStatus' = [PrivateStatus EXCEPT ![q] = PrivateStatus'[q]]
           /\ PrivateData' = [PrivateData EXCEPT ![q] = PrivateData'[q]]
           /\ PrivateStack' = [PrivateStack EXCEPT ![q] = PrivateStack'[q]]
<1>1. \A p \in Procs : p # q =>
           /\ PrivateStatus'[p] = PrivateStatus[p]
           /\ PrivateData'[p] = PrivateData[p]
           /\ PrivateStack'[p] = PrivateStack[p]
  BY OthersView
<1>2. PrivateStatus' = [PrivateStatus EXCEPT ![q] = PrivateStatus'[q]]
  BY <1>1 DEF PrivateStatus
<1>3. PrivateData' = [PrivateData EXCEPT ![q] = PrivateData'[q]]
  BY <1>1 DEF PrivateData
<1>4. PrivateStack' = [PrivateStack EXCEPT ![q] = PrivateStack'[q]]
  BY <1>1 DEF PrivateStack
<1> QED BY <1>2, <1>3, <1>4

-----------------------------------------------------------------------------
(* The refinement, one step of Memory at a time. *)

PrivateVars == <<PrivateStatus, PrivateData, PrivateStack, out, crashed>>

\* Nobody sees a program that is being loaded.
LEMMA LoadingUnseen ==
    ASSUME PrivateInv, Fits, NEW q \in Procs,
           \/ \E prog \in Programs : AllocateRegion(q, prog)
           \/ LoadData(q) \/ LoadCodeWord(q)
    PROVE  UNCHANGED PrivateVars
<1>1. Loader(q) /\ out' = out /\ crashed' = crashed
  BY DEF Loader, AllocateRegion, LoadData, LoadCodeWord
<1>2. q \notin Created /\ q \notin Created'
  BY DEF AllocateRegion, LoadData, LoadCodeWord, Created, PrivateInv, Inv, TypeOK
<1>3. /\ PrivateStatus'[q] = PrivateStatus[q] /\ PrivateData'[q] = PrivateData[q]
      /\ PrivateStack'[q] = PrivateStack[q]
  BY <1>2, Views
<1>4. /\ PrivateStatus' = PrivateStatus /\ PrivateData' = PrivateData
      /\ PrivateStack' = PrivateStack
  <2>1. \A p \in Procs :
            /\ PrivateStatus'[p] = PrivateStatus[p]
            /\ PrivateData'[p] = PrivateData[p]
            /\ PrivateStack'[p] = PrivateStack[p]
    BY <1>1, <1>3, OthersView
  <2>2. PrivateStatus' = PrivateStatus
    BY <2>1 DEF PrivateStatus
  <2>3. PrivateData' = PrivateData
    BY <2>1 DEF PrivateData
  <2>4. PrivateStack' = PrivateStack
    BY <2>1 DEF PrivateStack
  <2> QED BY <2>2, <2>3, <2>4
<1> QED BY <1>1, <1>4 DEF PrivateVars

\* createProcess starts a program with its image and one word of zeroes.
LEMMA CreateStarts ==
    ASSUME PrivateInv, Fits, NEW q \in Procs, CreateProcess(q)
    PROVE  Private!Start(q)
<1> USE DEF PrivateInv
<1>1. /\ Loader(q) /\ out' = out /\ crashed' = crashed /\ memory' = memory
      /\ layout' = layout /\ program' = program
      /\ status[q] = "code" /\ status'[q] = "running"
      /\ sp'[q] = InitialSp(layout[q])
  BY DEF Loader, CreateProcess, loadVars, Inv, TypeOK
<1>2. q \in Placed /\ q \notin Created /\ q \in Created'
  BY <1>1 DEF Placed, Created
<1>3. PrivateStatus[q] = "new" /\ PrivateStatus'[q] = "running"
  BY <1>1, <1>2, Views
<1>4. PrivateData'[q] = program[q].data
  <2>1. PrivateData'[q] = DataOf(q)'
    BY <1>2, Views
  <2>2. /\ program[q] \in Programs /\ layout[q].dataSize = Len(program[q].data)
        /\ program[q].data \in Seq(Byte)
    BY <1>2, MemoryAssumption DEF Inv, LayoutMatches
  <2>3. DataOf(q)' = [o \in 1..layout[q].dataSize |-> program[q].data[o]]
    BY <1>1 DEF DataOf, DataFresh, DataAddress
  <2>4. program[q].data = [o \in 1..Len(program[q].data) |-> program[q].data[o]]
    BY <2>2
  <2> QED BY <2>1, <2>2, <2>3, <2>4
<1>5. program[q].data \in {prog.data : prog \in Programs}
  BY <1>2 DEF Inv, LayoutMatches
<1>6. PrivateStack'[q] = <<Private!ZeroWord>>
  <2> DEFINE t == StackTop(layout[q])
  <2>1. PrivateStack'[q] = StackOf(q)'
    BY <1>2, Views
  <2>2. /\ t \in Nat /\ StackAddress(layout[q]) \in Nat
        /\ t = StackAddress(layout[q]) + StackSize
        /\ InitialSp(layout[q]) = t - WordSize
        /\ WordSize \in Nat \ {0} /\ WordSize <= StackSize /\ StackSize \in Nat
    BY <1>2, SegmentInMemory, MemoryAssumption DEF InitialSp
  <2>3. t - (t - WordSize) = WordSize /\ WordSize \div WordSize = 1
    <3>1. t - (t - WordSize) = WordSize
      BY <2>2
    <3>2. (1 * WordSize) \div WordSize = 1 /\ 1 * WordSize = WordSize
      BY <2>2, WordMultiple
    <3> QED BY <3>1, <3>2
  <2>4. StackOf(q)' = [i \in 1..1 |-> [k \in 1..WordSize |->
                            memory[t - i * WordSize + k - 1]]]
    BY <1>1, <2>2, <2>3 DEF StackOf, WordAt, StackTop, StackAddress
  <2>5. ASSUME NEW k \in 1..WordSize PROVE memory[t - 1 * WordSize + k - 1] = 0
    <3> DEFINE a == t - 1 * WordSize + k - 1
    <3>1. a \in StackAddress(layout[q])..t - 1
      BY <2>2
    <3>2. a \in Address
      <4>1. a \in CodeAddress(layout[q])..t - 1
        BY <1>2, <3>1, SegmentInMemory
      <4> QED BY <1>2, <4>1, SegmentInMemory
    <3> QED BY <1>2, <3>1, <3>2 DEF StackFresh
  <2>6. StackOf(q)' = [i \in 1..1 |-> [k \in 1..WordSize |-> 0]]
    <3>1. [k \in 1..WordSize |-> memory[t - 1 * WordSize + k - 1]]
              = [k \in 1..WordSize |-> 0]
      BY <2>5
    <3>2. \A i \in 1..1 : i = 1
      OBVIOUS
    <3> QED BY <2>4, <3>1, <3>2
  <2>7. <<Private!ZeroWord>> = [i \in 1..1 |-> Private!ZeroWord]
    OBVIOUS
  <2>8. Private!ZeroWord = [k \in 1..WordSize |-> 0]
    BY DEF Private!ZeroWord
  <2> QED BY <2>1, <2>6, <2>7, <2>8
<1>7. /\ PrivateStatus' = [PrivateStatus EXCEPT ![q] = "running"]
      /\ PrivateData' = [PrivateData EXCEPT ![q] = program[q].data]
      /\ PrivateStack' = [PrivateStack EXCEPT ![q] = <<Private!ZeroWord>>]
  BY <1>1, <1>3, <1>4, <1>6, OnlyOwn
<1> QED BY <1>1, <1>3, <1>5, <1>7 DEF Private!Start

\* The bytes of a word in the data segment (readDataWord).
LEMMA DataWord ==
    ASSUME Inv, Fits, NEW p \in Created, NEW o \in Nat,
           DataOffsetOK(layout[p], o)
    PROVE  /\ o + WordSize <= layout[p].dataSize
           /\ DataOf(p) \in Seq(Byte) /\ Len(DataOf(p)) = layout[p].dataSize
           /\ o \in 0..Len(DataOf(p)) - WordSize
           /\ InRange(DataAddress(layout[p]) + o, WordSize)
<1>1. p \in Placed /\ p \in Procs
  BY DEF Created, Placed
<1>2. /\ layout[p].dataSize \in Nat /\ DataAddress(layout[p]) \in Nat
      /\ StackAddress(layout[p]) = DataAddress(layout[p]) + layout[p].dataSize
      /\ StackTop(layout[p]) = StackAddress(layout[p]) + StackSize
      /\ StackTop(layout[p]) <= MemSize
  BY <1>1, SegmentInMemory
<1>3. /\ WordSize \in Nat \ {0} /\ StackSize \in Nat /\ MemSize \in Nat
  BY MemoryAssumption
<1>4. o + WordSize <= layout[p].dataSize
  BY DEF DataOffsetOK
<1>5. \A i \in 1..layout[p].dataSize :
        memory[DataAddress(layout[p]) + i - 1] \in Byte
  BY <1>1, DataByte DEF Inv, TypeOK
<1>6. DataOf(p) \in Seq(Byte) /\ Len(DataOf(p)) = layout[p].dataSize
  BY <1>2, <1>5 DEF DataOf
<1>7. InRange(DataAddress(layout[p]) + o, WordSize)
  <2> DEFINE d == DataAddress(layout[p])
             n == layout[p].dataSize
             t == StackTop(layout[p])
  <2>1. /\ d \in Nat /\ n \in Nat /\ t = d + n + StackSize /\ t <= MemSize
        /\ o + WordSize <= n
    BY <1>2, <1>4
  <2> HIDE DEF d, n, t
  <2>2. d + o + WordSize <= MemSize
    BY <1>3, <2>1
  <2> QED BY <2>2 DEF InRange, d
<1> QED BY <1>2, <1>3, <1>4, <1>6, <1>7

\* LOAD reads the private data.
LEMMA LoadReads ==
    ASSUME PrivateInv, Fits, NEW q \in Procs, NEW o \in 0..MaxOffset,
           LoadWord(q, o)
    PROVE  Private!Load(q) /\ PrivateStatus[q] = "running"
<1> USE DEF PrivateInv
<1>1. ProcessStep(q) /\ q \in Created /\ status[q] = "running"
  BY DEF ProcessStep, LoadWord, Running, Created
<1>2. /\ memory' = memory /\ layout' = layout /\ sp' = sp /\ status' = status
      /\ crashed' = crashed /\ DataOffsetOK(layout[q], o)
      /\ out' = [out EXCEPT ![q] = WordAt(DataAddress(layout[q]) + o)]
  BY DEF LoadWord, loadVars
<1>3. PrivateStatus' = PrivateStatus
  BY <1>2 DEF PrivateStatus, Created
<1>4. PrivateData' = PrivateData
  BY <1>2 DEF PrivateData, Created, DataAddress
<1>5. PrivateStack' = PrivateStack
  BY <1>2 DEF PrivateStack, Created, StackTop, StackAddress, WordAt
<1>6. PrivateData[q] = DataOf(q) /\ PrivateStatus[q] = "running"
  BY <1>1, Views
<1>7. SubSeq(DataOf(q), o + 1, o + WordSize) = WordAt(DataAddress(layout[q]) + o)
  <2>1. o \in Nat
    BY MemoryAssumption
  <2>2. /\ o + WordSize <= layout[q].dataSize /\ DataOf(q) \in Seq(Byte)
        /\ Len(DataOf(q)) = layout[q].dataSize
    BY <1>1, <1>2, <2>1, DataWord
  <2>3. WordSize \in Nat /\ layout[q].dataSize \in Nat
    BY <2>2, MemoryAssumption
  <2>4. DataAddress(layout[q]) \in Nat
    BY SegmentAddresses DEF Inv, TypeOK
  <2> DEFINE s == DataOf(q)
  <2>5. SubSeq(s, o + 1, o + WordSize) = [i \in 1..WordSize |-> s[i + o]]
    <3>1. s \in Seq(Byte) /\ Len(s) = layout[q].dataSize
      BY <2>2
    <3> HIDE DEF s
    <3>2. SubSeq(s, o + 1, o + WordSize)
            = [i \in 1..1 + (o + WordSize) - (o + 1) |-> s[i + (o + 1) - 1]]
      BY <2>1, <2>2, <2>3, <3>1
    <3>3. /\ 1 + (o + WordSize) - (o + 1) = WordSize
          /\ \A i \in 1..WordSize : i + (o + 1) - 1 = i + o
      BY <2>1, <2>3
    <3> QED BY <3>2, <3>3
  <2>6. \A i \in 1..WordSize :
            s[i + o] = memory[(DataAddress(layout[q]) + o) + i - 1]
    BY <2>1, <2>2, <2>3, <2>4 DEF DataOf
  <2> QED BY <2>5, <2>6 DEF WordAt
<1>8. o \in 0..Len(DataOf(q)) - WordSize
  BY <1>1, <1>2, DataWord, MemoryAssumption
<1>9. \E i \in 0..Len(PrivateData[q]) - WordSize :
        out' = [out EXCEPT ![q] = SubSeq(PrivateData[q], i + 1, i + WordSize)]
  BY <1>2, <1>6, <1>7, <1>8
<1> QED BY <1>2, <1>3, <1>4, <1>5, <1>6, <1>9 DEF Private!Load

\* Replacing a word inside a sequence of bytes.
LEMMA Splice ==
    ASSUME NEW s \in Seq(Byte), NEW o \in Nat, NEW w \in Seq(Byte),
           o + Len(w) <= Len(s)
    PROVE  SubSeq(s, 1, o) \o w \o SubSeq(s, o + Len(w) + 1, Len(s))
               = [i \in 1..Len(s) |-> IF i \in o + 1..o + Len(w) THEN w[i - o]
                                      ELSE s[i]]
<1> DEFINE a == SubSeq(s, 1, o)
           c == SubSeq(s, o + Len(w) + 1, Len(s))
           ab == a \o w
           abc == ab \o c
<1>1. Len(w) \in Nat /\ Len(s) \in Nat
  OBVIOUS
<1>2. a \in Seq(Byte) /\ Len(a) = o /\ \A i \in 1..o : a[i] = s[i]
  BY <1>1
<1>3. /\ c \in Seq(Byte) /\ Len(c) = Len(s) - o - Len(w)
      /\ \A i \in 1..Len(s) - o - Len(w) : c[i] = s[o + Len(w) + i]
  <2>1. \A i \in o + Len(w) + 1..Len(s) : i \in 1..Len(s)
    BY <1>1
  <2>2. c \in Seq(Byte) /\ Len(c) = Len(s) - o - Len(w)
    BY <1>1
  <2>3. ASSUME NEW i \in 1..Len(s) - o - Len(w) PROVE c[i] = s[o + Len(w) + i]
    <3>1. c[i] = s[(o + Len(w) + 1) + i - 1]
      BY <1>1
    <3>2. (o + Len(w) + 1) + i - 1 = o + Len(w) + i
      BY <1>1
    <3> QED BY <3>1, <3>2
  <2> QED BY <2>2, <2>3
<1> HIDE DEF a, c
<1>4. /\ ab \in Seq(Byte) /\ Len(ab) = o + Len(w)
      /\ \A i \in 1..o + Len(w) : ab[i] = IF i <= o THEN a[i] ELSE w[i - o]
  BY <1>1, <1>2
<1> HIDE DEF ab
<1>5. /\ abc \in Seq(Byte) /\ Len(abc) = Len(s)
      /\ \A i \in 1..Len(s) : abc[i] = IF i <= o + Len(w) THEN ab[i]
                                        ELSE c[i - o - Len(w)]
  <2>1. abc \in Seq(Byte) /\ Len(abc) = Len(s)
    <3>1. abc \in Seq(Byte) /\ Len(abc) = Len(ab) + Len(c)
      <4>1. \A u, v \in Seq(Byte) :
                u \o v \in Seq(Byte) /\ Len(u \o v) = Len(u) + Len(v)
        BY ConcatProperties, Zenon
      <4> QED BY <1>3, <1>4, <4>1, Zenon
    <3>2. (o + Len(w)) + (Len(s) - o - Len(w)) = Len(s)
      BY <1>1
    <3> QED BY <1>3, <1>4, <3>1, <3>2
  <2>2. ASSUME NEW i \in 1..Len(s)
        PROVE  abc[i] = IF i <= o + Len(w) THEN ab[i] ELSE c[i - o - Len(w)]
    <3>1. abc[i] = IF i <= Len(ab) THEN ab[i] ELSE c[i - Len(ab)]
      BY <1>1, <1>3, <1>4
    <3>2. i - (o + Len(w)) = i - o - Len(w)
      BY <1>1
    <3> QED BY <1>4, <3>1, <3>2
  <2> QED BY <2>1, <2>2
<1>6. ASSUME NEW i \in 1..Len(s)
      PROVE  abc[i] = IF i \in o + 1..o + Len(w) THEN w[i - o] ELSE s[i]
  <2>1. CASE i <= o
    BY <1>1, <1>2, <1>4, <1>5, <2>1
  <2>2. CASE i > o /\ i <= o + Len(w)
    BY <1>1, <1>4, <1>5, <2>2
  <2>3. CASE i > o + Len(w)
    <3>1. i - o - Len(w) \in 1..Len(s) - o - Len(w)
            /\ o + Len(w) + (i - o - Len(w)) = i
      BY <1>1, <2>3
    <3>2. abc[i] = s[i]
      BY <1>3, <1>5, <2>3, <3>1
    <3> QED BY <1>1, <2>3, <3>2
  <2> HIDE DEF abc
  <2> QED BY <1>1, <2>1, <2>2, <2>3
<1> HIDE DEF abc
<1>7. abc = [i \in 1..Len(s) |-> abc[i]]
  BY <1>5
<1>8. abc = [i \in 1..Len(s) |-> IF i \in o + 1..o + Len(w) THEN w[i - o]
                                 ELSE s[i]]
  BY <1>6, <1>7
<1> QED BY <1>8 DEF abc, ab, a, c

\* STORE writes the private data, and nothing of the stack.
LEMMA StoreWrites ==
    ASSUME PrivateInv, Fits, NEW q \in Procs, NEW o \in 0..MaxOffset,
           NEW w \in Values, StoreWord(q, o, w)
    PROVE  Private!Store(q) /\ PrivateStatus[q] = "running"
<1> USE DEF PrivateInv
<1>1. ProcessStep(q) /\ q \in Created /\ status[q] = "running"
  BY DEF ProcessStep, StoreWord, Running, Created
<1> DEFINE d == DataAddress(layout[q])
           n == layout[q].dataSize
           D == DataOf(q)
<1>2. /\ layout' = layout /\ sp' = sp /\ status' = status /\ out' = out
      /\ crashed' = crashed /\ DataOffsetOK(layout[q], o)
      /\ memory' = Written(d + o, w)
  BY DEF StoreWord, loadVars
<1>3. q \in Created' /\ PrivateStatus' = PrivateStatus
  BY <1>1, <1>2 DEF PrivateStatus, Created
<1>4. PrivateData[q] = D /\ PrivateData'[q] = DataOf(q)' /\ PrivateStatus[q] = "running"
      /\ PrivateStack'[q] = StackOf(q)' /\ PrivateStack[q] = StackOf(q)
  BY <1>1, <1>3, Views
<1>5. o \in Nat /\ w \in Word /\ WordSize \in Nat \ {0}
  BY MemoryAssumption
<1>6. w \in Seq(Byte) /\ Len(w) = WordSize
  BY <1>5, WordIsSeq
<1>7. /\ o + WordSize <= n /\ D \in Seq(Byte) /\ Len(D) = n
      /\ o \in 0..Len(D) - WordSize
  BY <1>1, <1>2, <1>5, DataWord
<1>8. q \in Placed
  BY <1>1 DEF Created, Placed
<1>9. /\ d \in Nat /\ n \in Nat /\ StackAddress(layout[q]) = d + n
      /\ StackTop(layout[q]) = StackAddress(layout[q]) + StackSize
  BY <1>8, SegmentInMemory
<1>10. DataOf(q)' = [i \in 1..n |-> IF i \in o + 1..o + WordSize THEN w[i - o]
                                    ELSE D[i]]
  <2>1. DataOf(q)' = [i \in 1..n |-> memory'[d + i - 1]]
    BY <1>2 DEF DataOf, DataAddress
  <2>2. ASSUME NEW i \in 1..n
        PROVE  memory'[d + i - 1] = IF i \in o + 1..o + WordSize THEN w[i - o]
                                    ELSE D[i]
    <3>1. d + i - 1 \in Address
      BY <1>8, DataByte
    <3>2. D[i] = memory[d + i - 1]
      BY DEF DataOf
    <3> HIDE DEF d, n, D
    <3>3. /\ d + i - 1 \in d + o..d + o + WordSize - 1 <=> i \in o + 1..o + WordSize
          /\ (d + i - 1) - (d + o) + 1 = i - o
      BY <1>5, <1>9
    <3> QED BY <1>2, <1>6, <3>1, <3>2, <3>3 DEF Written
  <2> QED BY <2>1, <2>2
<1>11. DataOf(q)' = SubSeq(D, 1, o) \o w \o SubSeq(D, o + WordSize + 1, Len(D))
  <2> HIDE DEF d, n, D
  <2>1. SubSeq(D, 1, o) \o w \o SubSeq(D, o + WordSize + 1, Len(D))
          = [i \in 1..n |-> IF i \in o + 1..o + WordSize THEN w[i - o] ELSE D[i]]
    <3>1. SubSeq(D, 1, o) \o w \o SubSeq(D, o + Len(w) + 1, Len(D))
            = [i \in 1..Len(D) |-> IF i \in o + 1..o + Len(w) THEN w[i - o]
                                   ELSE D[i]]
      <4>1. o + Len(w) <= Len(D)
        BY <1>6, <1>7
      <4>2. o \in Nat /\ w \in Seq(Byte) /\ D \in Seq(Byte)
        BY <1>5, <1>6, <1>7
      <4>3. ASSUME NEW u \in Seq(Byte), o + Len(w) <= Len(u)
            PROVE  SubSeq(u, 1, o) \o w \o SubSeq(u, o + Len(w) + 1, Len(u))
                     = [i \in 1..Len(u) |-> IF i \in o + 1..o + Len(w)
                                            THEN w[i - o] ELSE u[i]]
        BY <4>2, <4>3, Splice
      <4> QED BY <4>1, <4>2, <4>3
    <3> QED BY <1>6, <1>7, <3>1
  <2> QED BY <1>10, <2>1
<1>12. StackOf(q)' = StackOf(q)
  <2>1. PICK m \in Nat : StackHolds(q, m)
    BY <1>1 DEF StackAligned, StackHolds
  <2>2. ASSUME NEW a \in Address, a \in sp[q]..StackTop(layout[q]) - 1
        PROVE  memory'[a] = memory[a]
    <3>1. sp[q] \in Nat /\ sp[q] \in d + n..StackTop(layout[q])
      BY <1>1, <1>9 DEF Inv, TypeOK, Created, StackPointerInSegment
    <3> DEFINE t == StackTop(layout[q])
    <3>2. t \in Nat
      BY <1>8, SegmentInMemory
    <3>3. a \in sp[q]..t - 1
      BY <2>2
    <3> HIDE DEF d, n, t
    <3>4. a \notin d + o..d + o + WordSize - 1
      BY <1>5, <1>7, <1>9, <3>1, <3>2, <3>3
    <3> QED BY <1>2, <1>6, <3>4 DEF Written
  <2> QED BY <1>1, <1>2, <2>1, <2>2, StackKept
<1>13. PrivateStack' = PrivateStack
  <2>1. \A p \in Procs : PrivateStack'[p] = PrivateStack[p]
    BY <1>1, <1>4, <1>12, OthersView
  <2> QED BY <2>1 DEF PrivateStack
<1>14. PrivateData' = [PrivateData EXCEPT ![q] =
          SubSeq(@, 1, o) \o w \o SubSeq(@, o + WordSize + 1, Len(@))]
  BY <1>1, <1>4, <1>11, OnlyOwn DEF PrivateData
<1>15. o \in 0..Len(PrivateData[q]) - WordSize
  BY <1>4, <1>7
<1> QED BY <1>2, <1>3, <1>4, <1>13, <1>14, <1>15 DEF Private!Store

\* A trap changes nothing but crashed.
LEMMA Traps ==
    ASSUME PrivateInv, Fits, NEW q \in Procs,
           \/ \E o \in 0..MaxOffset : DataTrap(q, o) \/ PathTrap(q, o)
           \/ \E pc \in 0..AddressModulus - 1 : FetchTrap(q, pc)
    PROVE  Private!Trap /\ PrivateStatus[q] = "running"
<1>1. /\ memory' = memory /\ layout' = layout /\ sp' = sp /\ status' = status
      /\ out' = out /\ crashed' = TRUE /\ status[q] = "running"
  BY DEF DataTrap, PathTrap, FetchTrap, Running, loadVars
<1>2. PrivateStatus' = PrivateStatus /\ PrivateStatus[q] = "running"
  BY <1>1 DEF PrivateStatus, Created
<1>3. PrivateData' = PrivateData
  BY <1>1 DEF PrivateData, Created, DataAddress
<1>4. PrivateStack' = PrivateStack
  BY <1>1 DEF PrivateStack, Created, StackTop, StackAddress, WordAt
<1> QED BY <1>1, <1>2, <1>3, <1>4 DEF Private!Trap

\* A stack is a sequence of words.
LEMMA StackIsSeq ==
    ASSUME Inv, Fits, NEW p \in Created, NEW d \in Nat, StackHolds(p, d)
    PROVE  StackOf(p) \in Seq(Word) /\ Len(StackOf(p)) = d
<1>1. ASSUME NEW i \in 1..d PROVE WordAt(StackTop(layout[p]) - i * WordSize) \in Word
  <2>1. ASSUME NEW k \in 1..WordSize
        PROVE  memory[StackTop(layout[p]) - i * WordSize + k - 1] \in Byte
    BY StackByte DEF Inv, TypeOK
  <2> QED BY <2>1 DEF WordAt, Word
<1>2. StackOf(p) = [i \in 1..d |-> WordAt(StackTop(layout[p]) - i * WordSize)]
  BY StackShape
<1> QED BY <1>1, <1>2

\* Appending a word to a sequence of d words.
LEMMA AppendIs ==
    ASSUME NEW s \in Seq(Word), NEW w \in Word, NEW d \in Nat, Len(s) = d
    PROVE  Append(s, w) = [i \in 1..d + 1 |-> IF i <= d THEN s[i] ELSE w]
<1> DEFINE u == Append(s, w)
<1>1. /\ u \in Seq(Word) /\ Len(u) = d + 1
      /\ \A i \in 1..d : u[i] = s[i]
      /\ u[d + 1] = w
  BY AppendProperties
<1> HIDE DEF u
<1>2. u = [i \in 1..d + 1 |-> u[i]]
  BY <1>1
<1>3. ASSUME NEW i \in 1..d + 1 PROVE u[i] = IF i <= d THEN s[i] ELSE w
  BY <1>1
<1> QED BY <1>2, <1>3 DEF u

\* PUSH appends a word to the private stack, while it has less than Depth words.
LEMMA PushAppends ==
    ASSUME PrivateInv, Fits, NEW q \in Procs, NEW w \in Values, PushWord(q, w)
    PROVE  Private!Push(q) /\ PrivateStatus[q] = "running"
<1> USE DEF PrivateInv
<1>1. ProcessStep(q) /\ q \in Created /\ status[q] = "running"
  BY DEF ProcessStep, PushWord, Running, Created
<1>2. /\ layout' = layout /\ sp'[q] = PushAt(q) /\ status' = status /\ out' = out
      /\ crashed' = crashed /\ CanPush(q) /\ InRange(PushAt(q), WordSize)
      /\ memory' = Written(PushAt(q), w)
  BY DEF PushWord, loadVars, Inv, TypeOK
<1>3. q \in Created' /\ PrivateStatus' = PrivateStatus
  BY <1>1, <1>2 DEF PrivateStatus, Created
<1>4. PrivateData[q] = DataOf(q) /\ PrivateData'[q] = DataOf(q)' /\ PrivateStatus[q] = "running"
      /\ PrivateStack'[q] = StackOf(q)' /\ PrivateStack[q] = StackOf(q)
  BY <1>1, <1>3, Views
<1>5. w \in Word /\ WordSize \in Nat \ {0} /\ q \in Placed
  BY <1>1, MemoryAssumption DEF Created, Placed
<1> DEFINE t == StackTop(layout[q])
<1>6. /\ PushAt(q) \in Nat /\ StackAddress(layout[q]) <= PushAt(q)
      /\ PushAt(q) = sp[q] - WordSize /\ sp[q] \in Nat /\ t \in Nat
      /\ StackAddress(layout[q]) \in Nat
  <2>1. PushAt(q) \in Nat /\ PushAt(q) \in StackAddress(layout[q])..t
    BY <1>1, <1>2, PushInSegment
  <2> QED BY <1>5, <2>1, SegmentInMemory DEF PushAt, Inv, TypeOK
<1>7. /\ [k \in 1..WordSize |-> memory'[PushAt(q) + k - 1]] = w
      /\ \A b \in Address : b \notin PushAt(q)..PushAt(q) + WordSize - 1 =>
            memory'[b] = memory[b]
  BY <1>2, <1>5, <1>6, WordWritten
<1>8. DataOf(q)' = DataOf(q)
  <2>1. ASSUME NEW o \in 1..layout[q].dataSize
        PROVE  memory'[DataAddress(layout[q]) + o - 1]
                    = memory[DataAddress(layout[q]) + o - 1]
    <3> DEFINE a == DataAddress(layout[q]) + o - 1
    <3>1. a \in Address /\ a < StackAddress(layout[q])
      BY <1>5, DataByte
    <3> HIDE DEF a
    <3>2. a \notin PushAt(q)..PushAt(q) + WordSize - 1
      BY <1>6, <3>1, MemoryAssumption DEF Address
    <3>3. memory'[a] = memory[a]
      BY <1>7, <3>1, <3>2
    <3> QED BY <3>3 DEF a
  <2> QED BY <1>2, <1>5, <2>1, DataKept
<1>9. PICK d \in Nat : StackHolds(q, d)
  BY <1>1 DEF StackAligned, StackHolds
<1>10. /\ StackOf(q) = [i \in 1..d |-> WordAt(t - i * WordSize)]
       /\ StackOf(q) \in Seq(Word) /\ Len(StackOf(q)) = d
       /\ d < StackSize \div WordSize
  BY <1>1, <1>2, <1>9, StackShape, StackIsSeq
<1>11. (d + 1) * WordSize = d * WordSize + WordSize /\ d * WordSize \in Nat
       /\ ((d + 1) * WordSize) \div WordSize = d + 1 /\ d + 1 \in Nat
  BY WordMultiple
<1>12. t - PushAt(q) = (d + 1) * WordSize /\ t - (d + 1) * WordSize = PushAt(q)
  <2> DEFINE x == d * WordSize
             y == (d + 1) * WordSize
  <2>1. x \in Nat /\ y = x + WordSize /\ sp[q] + x = t
    BY <1>9, <1>11 DEF StackHolds
  <2> HIDE DEF x, y, t
  <2>2. t - PushAt(q) = y /\ t - y = PushAt(q)
    BY <1>5, <1>6, <2>1
  <2> QED BY <2>2 DEF y
<1>13. StackOf(q)' = [i \in 1..d + 1 |->
                        [k \in 1..WordSize |-> memory'[t - i * WordSize + k - 1]]]
  BY <1>2, <1>11, <1>12 DEF StackOf, WordAt, StackTop, StackAddress
<1>14. ASSUME NEW i \in 1..d
       PROVE  [k \in 1..WordSize |-> memory'[t - i * WordSize + k - 1]]
                = WordAt(t - i * WordSize)
  <2>1. ASSUME NEW a \in Address, a \in sp[q]..t - 1
        PROVE  memory'[a] = memory[a]
    <3> HIDE DEF t
    <3>1. a \notin PushAt(q)..PushAt(q) + WordSize - 1
      BY <1>5, <1>6, <2>1
    <3> QED BY <1>7, <3>1
  <2> QED BY <1>1, <1>9, <2>1, WordsKept
<1>15. [k \in 1..WordSize |-> memory'[t - (d + 1) * WordSize + k - 1]] = w
  BY <1>7, <1>12
<1>16. StackOf(q)' = Append(StackOf(q), w)
  <2> DEFINE s == StackOf(q)
             v == [i \in 1..d + 1 |->
                        [k \in 1..WordSize |-> memory'[t - i * WordSize + k - 1]]]
  <2>1. ASSUME NEW i \in 1..d + 1 PROVE v[i] = IF i <= d THEN s[i] ELSE w
    <3>1. CASE i <= d
      <4>1. i \in 1..d
        BY <3>1
      <4> QED BY <1>10, <1>14, <3>1, <4>1
    <3>2. CASE ~(i <= d)
      <4>1. i = d + 1
        BY <3>2
      <4> QED BY <1>15, <3>2, <4>1
    <3> QED BY <3>1, <3>2
  <2>2. s \in Seq(Word) /\ Len(s) = d
    BY <1>10
  <2>3. v = [i \in 1..d + 1 |-> v[i]]
    OBVIOUS
  <2>4. StackOf(q)' = v
    BY <1>13
  <2> HIDE DEF s, v
  <2>5. v = [i \in 1..d + 1 |-> IF i <= d THEN s[i] ELSE w]
    BY <2>1, <2>3
  <2>6. Append(s, w) = [i \in 1..d + 1 |-> IF i <= d THEN s[i] ELSE w]
    BY <1>5, <2>2, AppendIs
  <2> QED BY <2>4, <2>5, <2>6 DEF s
<1>17. PrivateData' = PrivateData
  <2>1. \A p \in Procs : PrivateData'[p] = PrivateData[p]
    BY <1>1, <1>4, <1>8, OthersView
  <2> QED BY <2>1 DEF PrivateData
<1>18. PrivateStack' = [PrivateStack EXCEPT ![q] = Append(@, w)]
  BY <1>1, <1>4, <1>16, OnlyOwn DEF PrivateStack
<1>19. Len(PrivateStack[q]) < StackSize \div WordSize
  BY <1>4, <1>10
<1> QED BY <1>2, <1>3, <1>4, <1>17, <1>18, <1>19 DEF Private!Push

\* Dropping the last of d words.
LEMMA FrontIs ==
    ASSUME NEW s \in Seq(Word), NEW d \in Nat, Len(s) = d, d >= 1
    PROVE  /\ SubSeq(s, 1, Len(s) - 1) = [i \in 1..d - 1 |-> s[i]]
           /\ s # <<>>
<1>1. SubSeq(s, 1, d - 1) = [i \in 1..1 + (d - 1) - 1 |-> s[i + 1 - 1]]
  OBVIOUS
<1>2. 1 + (d - 1) - 1 = d - 1 /\ \A i \in 1..d - 1 : i + 1 - 1 = i
  OBVIOUS
<1>3. SubSeq(s, 1, d - 1) = [i \in 1..d - 1 |-> s[i]]
  BY <1>1, <1>2
<1> QED BY <1>3

\* POP takes the last word pushed off the private stack.
LEMMA PopTakes ==
    ASSUME PrivateInv, Fits, NEW q \in Procs, PopWord(q)
    PROVE  Private!Pop(q) /\ PrivateStatus[q] = "running"
<1> USE DEF PrivateInv
<1>1. ProcessStep(q) /\ q \in Created /\ status[q] = "running"
  BY DEF ProcessStep, PopWord, Running, Created
<1>2. /\ layout' = layout /\ sp'[q] = PopAdvance(q) /\ status' = status
      /\ memory' = memory /\ crashed' = crashed /\ CanPop(q)
      /\ out' = [out EXCEPT ![q] = WordAt(sp[q])]
  BY DEF PopWord, loadVars, Inv, TypeOK
<1>3. q \in Created' /\ PrivateStatus' = PrivateStatus
  BY <1>1, <1>2 DEF PrivateStatus, Created
<1>4. PrivateStatus[q] = "running"
      /\ PrivateStack'[q] = StackOf(q)' /\ PrivateStack[q] = StackOf(q)
  BY <1>1, <1>3, Views
<1>5. PrivateData' = PrivateData
  <2>1. Created' = Created
    BY <1>2 DEF Created
  <2> QED BY <1>2, <2>1 DEF PrivateData, DataAddress
<1>6. PICK d \in Nat : StackHolds(q, d)
  BY <1>1 DEF StackAligned, StackHolds
<1> DEFINE t == StackTop(layout[q])
<1>7. /\ StackOf(q) = [i \in 1..d |-> WordAt(t - i * WordSize)]
      /\ StackOf(q) \in Seq(Word) /\ Len(StackOf(q)) = d /\ d >= 1
  BY <1>1, <1>2, <1>6, StackShape, StackIsSeq
<1>8. /\ d - 1 \in Nat /\ d * WordSize \in Nat /\ (d - 1) * WordSize \in Nat
      /\ d * WordSize = (d - 1) * WordSize + WordSize
      /\ ((d - 1) * WordSize) \div WordSize = d - 1
  <2>1. d - 1 \in Nat
    BY <1>7
  <2> QED BY <1>7, <2>1, WordMultiple
<1>9. t - PopAdvance(q) = (d - 1) * WordSize /\ t - d * WordSize = sp[q]
  <2> DEFINE x == d * WordSize
             y == (d - 1) * WordSize
             u == sp[q]
  <2>1. x \in Nat /\ y \in Nat /\ x = y + WordSize /\ u + x = t
    BY <1>6, <1>8 DEF StackHolds
  <2>2. u \in Nat /\ t \in Nat /\ WordSize \in Nat
    BY SegmentAddresses, MemoryAssumption DEF Inv, TypeOK
  <2> HIDE DEF x, y, t, u
  <2>3. t - (u + WordSize) = y /\ t - x = u
    BY <2>1, <2>2
  <2> QED BY <2>3 DEF x, y, u, PopAdvance
<1>10. StackOf(q)' = [i \in 1..d - 1 |-> WordAt(t - i * WordSize)]
  BY <1>2, <1>8, <1>9 DEF StackOf, WordAt, StackTop, StackAddress
<1>11. StackOf(q)' = SubSeq(StackOf(q), 1, Len(StackOf(q)) - 1) /\ StackOf(q) # <<>>
  <2>1. \A i \in 1..d - 1 : StackOf(q)[i] = WordAt(t - i * WordSize)
    BY <1>7
  <2>2. /\ SubSeq(StackOf(q), 1, Len(StackOf(q)) - 1)
              = [i \in 1..d - 1 |-> StackOf(q)[i]]
        /\ StackOf(q) # <<>>
    BY <1>7, FrontIs
  <2> QED BY <1>10, <2>1, <2>2
<1>12. StackOf(q)[Len(StackOf(q))] = WordAt(sp[q])
  BY <1>7, <1>9
<1>13. PrivateStack' = [PrivateStack EXCEPT ![q] = SubSeq(@, 1, Len(@) - 1)]
  BY <1>1, <1>4, <1>11, OnlyOwn DEF PrivateStack
<1>14. /\ PrivateStack[q] # <<>>
       /\ out' = [out EXCEPT ![q] = PrivateStack[q][Len(PrivateStack[q])]]
  BY <1>2, <1>4, <1>11, <1>12
<1> QED BY <1>2, <1>3, <1>4, <1>5, <1>13, <1>14 DEF Private!Pop

\* PUSH fails only on a full stack, and POP only on an empty one.
LEMMA FailsAtEnds ==
    ASSUME PrivateInv, Fits, NEW q \in Procs, PushFails(q) \/ PopFails(q)
    PROVE  Private!StackError(q) /\ PrivateStatus[q] = "running"
<1> USE DEF PrivateInv
<1>1. ProcessStep(q) /\ q \in Created /\ status[q] = "running" /\ q \in Placed
  BY DEF ProcessStep, PushFails, PopFails, Running, Created, Placed
<1>2. PICK d \in Nat : StackHolds(q, d)
  BY <1>1 DEF StackAligned, StackHolds
<1>3. /\ StackOf(q) \in Seq(Word) /\ Len(StackOf(q)) = d
      /\ d <= StackSize \div WordSize /\ StackSize \div WordSize \in Nat
      /\ CanPush(q) <=> d < StackSize \div WordSize
      /\ CanPop(q) <=> d >= 1
  BY <1>1, <1>2, StackShape, StackIsSeq, DepthBound
<1>4. /\ CanPush(q) => InRange(PushAt(q), WordSize)
      /\ CanPop(q) => InRange(sp[q], WordSize)
  <2>1. /\ StackTop(layout[q]) <= MemSize /\ StackTop(layout[q]) \in Nat
        /\ sp[q] \in Nat /\ MemSize \in Nat /\ WordSize \in Nat
    BY <1>1, SegmentInMemory, MemoryAssumption DEF Inv, TypeOK
  <2> QED BY <2>1 DEF CanPush, CanPop, PushAt, InRange
<1>5. /\ status' = [status EXCEPT ![q] = "error"] /\ memory' = memory
      /\ layout' = layout /\ sp' = sp /\ out' = out /\ crashed' = crashed
      /\ ~CanPush(q) \/ ~CanPop(q)
  BY <1>4 DEF PushFails, PopFails, loadVars
<1>6. d = 0 \/ d = StackSize \div WordSize
  BY <1>3, <1>5
<1>7. PrivateStack[q] = <<>> \/ Len(PrivateStack[q]) = StackSize \div WordSize
  <2>1. PrivateStack[q] = StackOf(q)
    BY <1>1, Views
  <2> QED BY <1>3, <1>6, <2>1
<1>8. Created' = Created
  BY <1>1, <1>5 DEF Created, Inv, TypeOK
<1>9. PrivateData' = PrivateData
  BY <1>5, <1>8 DEF PrivateData, DataAddress
<1>10. PrivateStack' = PrivateStack
  BY <1>5, <1>8 DEF PrivateStack, StackTop, StackAddress, WordAt
<1>11. PrivateStatus[q] = "running" /\ PrivateStatus'[q] = "error"
  BY <1>1, <1>5, <1>8, Views DEF Inv, TypeOK
<1>12. PrivateStatus' = [PrivateStatus EXCEPT ![q] = "error"]
  BY <1>1, <1>11, OnlyOwn
<1> QED BY <1>5, <1>7, <1>9, <1>10, <1>11, <1>12 DEF Private!StackError

\* A step of Memory is a step of PrivateMemory or changes nothing in it.
LEMMA StepImplements ==
    ASSUME PrivateInv, Fits, Next
    PROVE  Private!Next \/ UNCHANGED PrivateVars
<1>1. ~crashed
  BY DEF Next
<1>2. PICK q \in Procs : Loader(q) \/ ProcessStep(q)
  BY DEF Next
<1>3. CASE \/ \E prog \in Programs : AllocateRegion(q, prog)
           \/ LoadData(q) \/ LoadCodeWord(q)
  BY <1>3, LoadingUnseen
<1>4. CASE CreateProcess(q)
  BY <1>1, <1>4, CreateStarts DEF Private!Next
<1>5. CASE \E o \in 0..MaxOffset : LoadWord(q, o)
  BY <1>1, <1>5, LoadReads DEF Private!Next
<1>6. CASE \E o \in 0..MaxOffset : \E w \in Values : StoreWord(q, o, w)
  BY <1>1, <1>6, StoreWrites DEF Private!Next
<1>7. CASE \/ \E o \in 0..MaxOffset : DataTrap(q, o) \/ PathTrap(q, o)
           \/ \E pc \in 0..AddressModulus - 1 : FetchTrap(q, pc)
  BY <1>1, <1>7, Traps DEF Private!Next
<1>8. CASE \E w \in Values : PushWord(q, w)
  BY <1>1, <1>8, PushAppends DEF Private!Next
<1>9. CASE PopWord(q)
  BY <1>1, <1>9, PopTakes DEF Private!Next
<1>10. CASE PushFails(q) \/ PopFails(q)
  BY <1>1, <1>10, FailsAtEnds DEF Private!Next
<1> QED BY <1>2, <1>3, <1>4, <1>5, <1>6, <1>7, <1>8, <1>9, <1>10
        DEF Loader, ProcessStep

\* If every program fits its region, the shared memory is private memories:
\* each process starts with its own image and an empty stack above one zero
\* word, reads back from its data segment and its stack what it wrote, and
\* fails to push only when its stack is full and to pop only when it is empty,
\* whatever the others do.
THEOREM RefinesPrivateMemory == Fits => (Spec => ImplementsPrivateMemory)
<1> SUFFICES ASSUME Fits
             PROVE  Spec => ImplementsPrivateMemory
  OBVIOUS
<1>1. Init => Private!Init
  BY DEF Init, Private!Init, PrivateStatus, PrivateData, PrivateStack, Created,
     ZeroWord, Private!ZeroWord
<1>2. PrivateInv /\ [Next]_vars => [Private!Next]_(Private!vars)
  <2>1. ASSUME PrivateInv, Next PROVE Private!Next \/ UNCHANGED Private!vars
    BY <2>1, StepImplements DEF PrivateVars, Private!vars
  <2>2. ASSUME UNCHANGED vars PROVE UNCHANGED Private!vars
    BY <2>2 DEF vars, Private!vars, PrivateStatus, PrivateData, PrivateStack,
       Created, DataAddress, StackTop, StackAddress, WordAt
  <2> QED BY <2>1, <2>2
<1>3. Init => PrivateInv
  BY PrivateInit
<1>4. PrivateInv /\ [Next]_vars => PrivateInv'
  BY PrivateNext
<1> QED BY <1>1, <1>2, <1>3, <1>4, PTL DEF Spec, ImplementsPrivateMemory, Private!Spec
=============================================================================
