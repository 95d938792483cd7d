---------------------------- MODULE MemoryProofs ----------------------------
(***************************************************************************)
(* Proofs about Memory, for every memory, region, stack and word size and  *)
(* every set of programs.  What needs the programs to fit their regions    *)
(* has Fits among its hypotheses.                                          *)
(***************************************************************************)
EXTENDS Memory, SequenceTheorems, TLAPS

\* A layout is computed from the program, which it never leaves again.
LayoutMatches ==
    \A p \in Placed :
        /\ program[p] \in Programs
        /\ layout[p].codeSize = Len(program[p].code) * WordSize
        /\ layout[p].dataSize = Len(program[p].data)
        /\ filled[p] <= Len(program[p].code)

\* Regions are handed out upwards, and nextFreeAddress is above all of them.
Allocated ==
    /\ nextFreeAddress <= MemSize \/ Placed = {}
    /\ \A p \in Placed : layout[p].base + RegionSize <= nextFreeAddress

\* No code word is written before there is a region.
NewUnfilled == \A p \in Procs : status[p] = "new" => filled[p] = 0

Inv == TypeOK /\ LayoutMatches /\ NewUnfilled /\ Allocated /\ RegionsDisjoint
         /\ StackPointerInSegment

\* A word is a sequence of WordSize bytes (writeWord).
LEMMA WordIsSeq ==
    \A w \in Word : w \in Seq(Byte) /\ Len(w) = WordSize
BY MemoryAssumption DEF Word

\* Writing bytes keeps memory an array of bytes (writeWord, writeBytes).
LEMMA WrittenType ==
    ASSUME memory \in [Address -> Byte], NEW a \in Nat, NEW b \in Seq(Byte)
    PROVE  Written(a, b) \in [Address -> Byte]
<1>1. ASSUME NEW x \in Address, x \in a..a + Len(b) - 1
      PROVE  b[x - a + 1] \in Byte
    <2>1. Len(b) \in Nat OBVIOUS
    <2>2. x - a + 1 \in 1..Len(b) BY <1>1, <2>1 DEF Address
    <2>. QED BY <2>2
<1>. QED BY <1>1 DEF Written

\* Layouts of the loader (ProgramLoader::load).
LEMMA LayoutOfType ==
    ASSUME nextFreeAddress \in Nat, NEW prog \in Programs
    PROVE  LayoutOf(prog) \in Layout
<1>1. prog.code \in Seq(Word) /\ prog.data \in Seq(Byte)
    BY MemoryAssumption
<1>2. Len(prog.code) \in Nat /\ Len(prog.data) \in Nat BY <1>1
<1>3. Len(prog.code) * WordSize \in Nat BY <1>2, MemoryAssumption
<1>. QED BY <1>2, <1>3 DEF LayoutOf, Layout

\* Initially there is no process at all.
LEMMA InitInv == Init => Inv
<1>. SUFFICES ASSUME Init PROVE Inv OBVIOUS
<1>. USE MemoryAssumption
<1>1. Placed = {} BY DEF Init, Placed
<1>2. Created = {} BY DEF Init, Created
<1>3. TypeOK
    BY DEF Init, TypeOK, Statuses, Layout, NoLayout, Word, ZeroWord
<1>4. NewUnfilled BY DEF Init, NewUnfilled
<1>. QED BY <1>1, <1>2, <1>3, <1>4 DEF Inv, LayoutMatches, Allocated,
        RegionsDisjoint, StackPointerInSegment

\* The addresses of a layout's segments follow each other.
LEMMA SegmentAddresses ==
    ASSUME NEW l \in Layout
    PROVE  /\ CodeAddress(l) \in Nat /\ DataAddress(l) \in Nat
           /\ StackAddress(l) \in Nat /\ StackTop(l) \in Nat
           /\ CodeAddress(l) + l.codeSize = DataAddress(l)
           /\ DataAddress(l) + l.dataSize = StackAddress(l)
           /\ StackAddress(l) + StackSize = StackTop(l)
           /\ InitialSp(l) \in Nat
           /\ InitialSp(l) \in StackAddress(l)..StackTop(l)
<1>1. l.base \in Nat /\ l.codeSize \in Nat /\ l.dataSize \in Nat BY DEF Layout
<1>2. WordSize \in Nat /\ StackSize \in Nat /\ WordSize <= StackSize
    BY MemoryAssumption
<1>3. /\ CodeAddress(l) \in Nat /\ DataAddress(l) \in Nat
      /\ StackAddress(l) \in Nat /\ StackTop(l) \in Nat
      /\ CodeAddress(l) + l.codeSize = DataAddress(l)
      /\ DataAddress(l) + l.dataSize = StackAddress(l)
      /\ StackAddress(l) + StackSize = StackTop(l)
    BY <1>1, <1>2 DEF CodeAddress, DataAddress, StackAddress, StackTop
<1>4. InitialSp(l) \in Nat /\ InitialSp(l) \in StackAddress(l)..StackTop(l)
    BY <1>2, <1>3 DEF InitialSp
<1>. QED BY <1>3, <1>4

\* allocateRegion gives a region above all others (Allocated, RegionsDisjoint).
LEMMA AllocateInv ==
    ASSUME Inv, NEW p \in Procs, NEW prog \in Programs,
           AllocateRegion(p, prog)
    PROVE  Inv'
<1>. USE MemoryAssumption
<1>1. LayoutOf(prog) \in Layout BY LayoutOfType DEF Inv, TypeOK
<1>2. TypeOK'
    BY <1>1 DEF Inv, TypeOK, AllocateRegion, Bump, Statuses
<1>3. Placed' = Placed \cup {p} /\ p \notin Placed /\ Created' = Created
    BY DEF Inv, TypeOK, AllocateRegion, Placed, Created, Statuses
<1>4. \A q \in Placed : layout'[q] = layout[q] /\ program'[q] = program[q]
                            /\ filled'[q] = filled[q]
    BY <1>3 DEF AllocateRegion, Inv, TypeOK
<1>5. layout'[p] = LayoutOf(prog) /\ program'[p] = prog
    BY DEF AllocateRegion, Inv, TypeOK
<1>6. layout'[p].base = nextFreeAddress BY <1>5 DEF LayoutOf
<1>7. LayoutMatches'
    <2>. SUFFICES ASSUME NEW q \in Placed'
                  PROVE  /\ program'[q] \in Programs
                         /\ layout'[q].codeSize = Len(program'[q].code) * WordSize
                         /\ layout'[q].dataSize = Len(program'[q].data)
                         /\ filled'[q] <= Len(program'[q].code)
        BY DEF LayoutMatches
    <2>1. CASE q \in Placed BY <2>1, <1>4 DEF Inv, LayoutMatches
    <2>2. CASE q = p
        <3>1. filled'[p] = 0 BY DEF Inv, NewUnfilled, AllocateRegion
        <3>2. Len(prog.code) \in Nat BY MemoryAssumption
        <3>. QED BY <2>2, <3>1, <3>2, <1>5 DEF LayoutOf
    <2>. QED BY <2>1, <2>2, <1>3
<1>8. Allocated'
    <2>1. nextFreeAddress' = nextFreeAddress + RegionSize
            /\ nextFreeAddress + RegionSize <= MemSize /\ nextFreeAddress \in Nat
        BY DEF AllocateRegion, Bump, Inv, TypeOK
    <2>2. ASSUME NEW q \in Placed'
          PROVE  layout'[q].base + RegionSize <= nextFreeAddress'
        <3>1. CASE q \in Placed
            <4>1. layout[q].base \in Nat /\ layout[q].base + RegionSize <= nextFreeAddress
                BY <3>1 DEF Inv, TypeOK, Allocated, Layout, Placed
            <4>. QED BY <3>1, <4>1, <2>1, <1>4
        <3>2. CASE q = p BY <3>2, <2>1, <1>6
        <3>. QED BY <3>1, <3>2, <1>3
    <2>. QED BY <2>1, <2>2 DEF Allocated
<1>9. RegionsDisjoint'
    <2>1. nextFreeAddress + RegionSize <= MemSize /\ nextFreeAddress \in Nat
        BY DEF AllocateRegion, Inv, TypeOK
    <2>2. \A q \in Placed : /\ layout[q].base \in Nat
                             /\ layout[q].base + RegionSize <= nextFreeAddress
                             /\ layout[q].base + RegionSize <= MemSize
        BY DEF Inv, TypeOK, Allocated, Layout, Placed, RegionsDisjoint
    <2>3. \A q \in Placed' : layout'[q].base + RegionSize <= MemSize
        BY <2>1, <2>2, <1>3, <1>4, <1>6
    <2>4. ASSUME NEW q \in Placed', NEW r \in Placed', q # r
          PROVE  \/ layout'[q].base + RegionSize <= layout'[r].base
                 \/ layout'[r].base + RegionSize <= layout'[q].base
        <3>1. CASE q \in Placed /\ r \in Placed
            BY <3>1, <2>4, <1>4 DEF Inv, RegionsDisjoint
        <3>2. CASE q = p \/ r = p BY <3>2, <2>4, <2>2, <1>3, <1>4, <1>6
        <3>. QED BY <3>1, <3>2, <1>3
    <2>. QED BY <2>3, <2>4 DEF RegionsDisjoint
<1>10. StackPointerInSegment'
    <2>1. Created \subseteq Placed BY DEF Created, Placed
    <2>2. sp' = sp BY DEF AllocateRegion
    <2>. QED BY <1>3, <1>4, <2>1, <2>2 DEF Inv, StackPointerInSegment
<1>11. NewUnfilled'
    BY DEF Inv, TypeOK, NewUnfilled, AllocateRegion
<1>. QED BY <1>2, <1>7, <1>8, <1>9, <1>10, <1>11 DEF Inv

\* A step that moves no layout and frees nobody keeps the regions as they are.
LEMMA LayoutsKept ==
    ASSUME Inv, UNCHANGED <<layout, program, nextFreeAddress>>,
           Placed' = Placed,
           \A p \in Placed : filled'[p] <= Len(program[p].code)
    PROVE  LayoutMatches' /\ Allocated' /\ RegionsDisjoint'
BY DEF Inv, LayoutMatches, Allocated, RegionsDisjoint

\* The constructor of ProcessMemory writes bytes and takes a status further.
LEMMA LoadDataInv == ASSUME Inv, NEW p \in Procs, LoadData(p) PROVE Inv'
<1>. USE MemoryAssumption
<1>1. Placed' = Placed /\ Created' = Created
    BY DEF Inv, TypeOK, LoadData, Placed, Created, Statuses
<1>2. p \in Placed BY DEF LoadData, Placed
<1>3. program[p].data \in Seq(Byte) BY <1>2 DEF Inv, LayoutMatches
<1>4. DataAddress(layout[p]) \in Nat BY SegmentAddresses DEF Inv, TypeOK
<1>5. memory' \in [Address -> Byte]
    BY <1>3, <1>4, WrittenType DEF LoadData, Inv, TypeOK
<1>6. TypeOK' BY <1>5 DEF Inv, TypeOK, LoadData, loadVars, Statuses
<1>7. LayoutMatches' /\ Allocated' /\ RegionsDisjoint'
    BY <1>1, LayoutsKept DEF LoadData, loadVars, Inv, LayoutMatches
<1>8. StackPointerInSegment'
    BY <1>1 DEF LoadData, loadVars, Inv, StackPointerInSegment
<1>9. NewUnfilled' BY DEF Inv, TypeOK, NewUnfilled, LoadData, loadVars
<1>. QED BY <1>6, <1>7, <1>8, <1>9 DEF Inv

\* One iteration of loadCode.
LEMMA LoadCodeWordInv == ASSUME Inv, NEW p \in Procs, LoadCodeWord(p) PROVE Inv'
<1>. USE MemoryAssumption
<1>1. Placed' = Placed /\ Created' = Created
    BY DEF Inv, TypeOK, LoadCodeWord, Placed, Created, Statuses
<1>2. p \in Placed BY DEF LoadCodeWord, Placed
<1>3. program[p].code \in Seq(Word) /\ Len(program[p].code) \in Nat
    BY <1>2 DEF Inv, LayoutMatches
<1>4. filled[p] \in Nat /\ filled[p] < Len(program[p].code)
    BY DEF LoadCodeWord, Inv, TypeOK
<1>5. filled[p] + 1 \in 1..Len(program[p].code) BY <1>3, <1>4
<1>6. program[p].code[filled[p] + 1] \in Seq(Byte) BY <1>3, <1>5, WordIsSeq
<1>7. CodeWordAddress(p) \in Nat
    <2>1. CodeAddress(layout[p]) \in Nat BY SegmentAddresses DEF Inv, TypeOK
    <2>2. filled[p] * WordSize \in Nat BY <1>4
    <2>. QED BY <2>1, <2>2 DEF CodeWordAddress
<1>8. memory' \in [Address -> Byte]
    BY <1>6, <1>7, WrittenType DEF LoadCodeWord, Inv, TypeOK
<1>a. \/ filled' = filled
      \/ filled' = [filled EXCEPT ![p] = filled[p] + 1]
    BY DEF LoadCodeWord
<1>b. filled' \in [Procs -> Nat]
    <2>1. filled \in [Procs -> Nat] BY DEF Inv, TypeOK
    <2>2. filled[p] + 1 \in Nat BY <1>4
    <2>. QED BY <1>a, <2>1, <2>2, Zenon
<1>c. status' \in [Procs -> Statuses]
    BY DEF LoadCodeWord, Inv, TypeOK, Statuses
<1>9. TypeOK' BY <1>8, <1>b, <1>c DEF Inv, TypeOK, LoadCodeWord
<1>10. ASSUME NEW q \in Placed PROVE filled'[q] <= Len(program[q].code)
    <2>1. filled[q] <= Len(program[q].code) BY DEF Inv, LayoutMatches
    <2>2. CASE filled'[q] = filled[q] BY <2>1, <2>2
    <2>3. CASE q = p /\ filled'[p] = filled[p] + 1 BY <2>3, <1>3, <1>4
    <2>4. q \in Procs /\ filled \in [Procs -> Nat]
        BY DEF Placed, Inv, TypeOK
    <2>. QED BY <2>2, <2>3, <2>4, <1>a
<1>11. LayoutMatches' /\ Allocated' /\ RegionsDisjoint'
    BY <1>1, <1>10, LayoutsKept DEF LoadCodeWord
<1>12. StackPointerInSegment'
    BY <1>1 DEF LoadCodeWord, Inv, StackPointerInSegment
<1>13. NewUnfilled' BY DEF Inv, TypeOK, NewUnfilled, LoadCodeWord
<1>. QED BY <1>9, <1>11, <1>12, <1>13 DEF Inv

\* createProcess puts the stack pointer into the stack segment.
LEMMA CreateProcessInv == ASSUME Inv, NEW p \in Procs, CreateProcess(p) PROVE Inv'
<1>1. Placed' = Placed /\ Created' = Created \cup {p}
    BY DEF Inv, TypeOK, CreateProcess, Placed, Created, Statuses
<1>2. layout[p] \in Layout BY DEF Inv, TypeOK
<1>3. TypeOK'
    BY <1>2, SegmentAddresses DEF Inv, TypeOK, CreateProcess, loadVars, Statuses
<1>4. LayoutMatches' /\ Allocated' /\ RegionsDisjoint'
    BY <1>1, LayoutsKept DEF CreateProcess, loadVars, Inv, LayoutMatches
<1>5. StackPointerInSegment'
    BY <1>1, <1>2, SegmentAddresses
    DEF CreateProcess, loadVars, Inv, TypeOK, StackPointerInSegment
<1>6. NewUnfilled' BY DEF Inv, TypeOK, NewUnfilled, CreateProcess, loadVars
<1>. QED BY <1>3, <1>4, <1>5, <1>6 DEF Inv

\* PUSH lowers the stack pointer only while it stays in the segment.
LEMMA PushInSegment ==
    ASSUME Inv, NEW p \in Created, CanPush(p)
    PROVE  /\ PushAt(p) \in Nat
           /\ PushAt(p) \in StackAddress(layout[p])..StackTop(layout[p])
           /\ PushAt(p) + WordSize <= StackTop(layout[p])
<1>1. p \in Procs BY DEF Created
<1>2. StackAddress(layout[p]) \in Nat /\ StackTop(layout[p]) \in Nat
    BY <1>1, SegmentAddresses DEF Inv, TypeOK
<1>3. sp[p] \in Nat BY <1>1 DEF Inv, TypeOK
<1>. QED BY <1>2, <1>3, MemoryAssumption DEF CanPush, PushAt

\* POP and RET raise it likewise.
LEMMA PopInSegment ==
    ASSUME Inv, NEW p \in Created, CanPop(p)
    PROVE  /\ PopAdvance(p) \in Nat
           /\ PopAdvance(p) \in StackAddress(layout[p])..StackTop(layout[p])
<1>1. p \in Procs BY DEF Created
<1>2. StackAddress(layout[p]) \in Nat /\ StackTop(layout[p]) \in Nat
    BY <1>1, SegmentAddresses DEF Inv, TypeOK
<1>3. sp[p] \in Nat BY <1>1 DEF Inv, TypeOK
<1>. QED BY <1>2, <1>3, MemoryAssumption DEF CanPop, PopAdvance

\* An instruction of a process writes words and moves its stack pointer, and
\* the checks of canPush and canPop keep that inside the stack segment.
LEMMA ProcessStepInv == ASSUME Inv, NEW p \in Procs, ProcessStep(p) PROVE Inv'
<1>. USE MemoryAssumption
<1>1. Running(p) BY DEF ProcessStep, LoadWord, DataTrap, FetchTrap, PathTrap,
                        StoreWord, PushWord,
        PopWord, PushFails, PopFails
<1>2. p \in Created /\ p \in Placed BY <1>1 DEF Running, Created, Placed
<1>3. UNCHANGED <<layout, program, filled, nextFreeAddress>>
    BY DEF ProcessStep, LoadWord, DataTrap, FetchTrap, PathTrap,
           StoreWord, PushWord, PopWord,
           PushFails, PopFails, loadVars
<1>4. status' = status \/ status' = [status EXCEPT ![p] = "error"]
    BY DEF ProcessStep, LoadWord, DataTrap, FetchTrap, PathTrap,
           StoreWord, PushWord, PopWord,
           PushFails, PopFails
<1>5. Placed' = Placed /\ Created' = Created
    BY <1>1, <1>4 DEF Placed, Created, Running, Inv, TypeOK
<1>6. \/ sp' = sp
      \/ CanPush(p) /\ sp' = [sp EXCEPT ![p] = PushAt(p)]
      \/ CanPop(p) /\ sp' = [sp EXCEPT ![p] = PopAdvance(p)]
    BY DEF ProcessStep, LoadWord, DataTrap, FetchTrap, PathTrap,
           StoreWord, PushWord, PopWord,
           PushFails, PopFails
<1>7. sp' \in [Procs -> Nat]
    BY <1>2, <1>6, PushInSegment, PopInSegment DEF Inv, TypeOK
<1>8. \/ memory' = memory
      \/ \E o \in 0..MaxOffset, w \in Values :
            memory' = Written(DataAddress(layout[p]) + o, w)
      \/ CanPush(p) /\ \E w \in Values : memory' = Written(PushAt(p), w)
    BY DEF ProcessStep, LoadWord, DataTrap, FetchTrap, PathTrap,
           StoreWord, PushWord, PopWord,
           PushFails, PopFails
<1>9. memory' \in [Address -> Byte]
    <2>1. \A w \in Values : w \in Seq(Byte) BY WordIsSeq
    <2>2. \A o \in 0..MaxOffset : DataAddress(layout[p]) + o \in Nat
        BY SegmentAddresses DEF Inv, TypeOK
    <2>3. CanPush(p) => PushAt(p) \in Nat BY <1>2, PushInSegment
    <2>. QED BY <1>8, <2>1, <2>2, <2>3, WrittenType DEF Inv, TypeOK
<1>10. out' \in [Procs -> Word]
    <2>1. ASSUME NEW a \in Nat, InRange(a, WordSize) PROVE WordAt(a) \in Word
        <3>1. \A i \in 1..WordSize : a + i - 1 \in Address
            BY <2>1 DEF InRange, Address
        <3>. QED BY <3>1 DEF WordAt, Word, Inv, TypeOK
    <2>2. \/ out' = out
          \/ \E o \in 0..MaxOffset :
                /\ InRange(DataAddress(layout[p]) + o, WordSize)
                /\ out' = [out EXCEPT ![p] = WordAt(DataAddress(layout[p]) + o)]
          \/ InRange(sp[p], WordSize) /\ out' = [out EXCEPT ![p] = WordAt(sp[p])]
        BY DEF ProcessStep, LoadWord, DataTrap, FetchTrap, PathTrap,
               StoreWord, PushWord, PopWord,
               PushFails, PopFails
    <2>3. \A o \in 0..MaxOffset : DataAddress(layout[p]) + o \in Nat
        BY SegmentAddresses DEF Inv, TypeOK
    <2>4. sp[p] \in Nat BY DEF Inv, TypeOK
    <2>. QED BY <2>1, <2>2, <2>3, <2>4 DEF Inv, TypeOK
<1>11. crashed' \in BOOLEAN
    BY DEF ProcessStep, LoadWord, DataTrap, FetchTrap, PathTrap,
           StoreWord, PushWord, PopWord,
           PushFails, PopFails, Inv, TypeOK
<1>12. status' \in [Procs -> Statuses] BY <1>4 DEF Inv, TypeOK, Statuses
<1>13. TypeOK'
    BY <1>3, <1>7, <1>9, <1>10, <1>11, <1>12 DEF Inv, TypeOK
<1>14. LayoutMatches' /\ Allocated' /\ RegionsDisjoint'
    BY <1>3, <1>5, LayoutsKept DEF Inv, LayoutMatches
<1>15. StackPointerInSegment'
    <2>. SUFFICES ASSUME NEW q \in Created
                  PROVE  sp'[q] \in StackAddress(layout[q])..StackTop(layout[q])
        BY <1>3, <1>5 DEF StackPointerInSegment
    <2>1. sp[q] \in StackAddress(layout[q])..StackTop(layout[q])
        BY DEF Inv, StackPointerInSegment
    <2>2. sp'[q] = sp[q] \/ (q = p /\ CanPush(p) /\ sp'[q] = PushAt(p))
                        \/ (q = p /\ CanPop(p) /\ sp'[q] = PopAdvance(p))
        BY <1>6 DEF Inv, TypeOK, Created
    <2>. QED BY <2>1, <2>2, PushInSegment, PopInSegment
<1>16. NewUnfilled' BY <1>1, <1>3, <1>4 DEF Inv, TypeOK, NewUnfilled, Running
<1>. QED BY <1>13, <1>14, <1>15, <1>16 DEF Inv

\* Every step of the memory keeps the invariant.
LEMMA NextInv == Inv /\ [Next]_vars => Inv'
<1>. SUFFICES ASSUME Inv, [Next]_vars PROVE Inv' OBVIOUS
<1>1. CASE Next
    BY <1>1, AllocateInv, LoadDataInv, LoadCodeWordInv, CreateProcessInv,
       ProcessStepInv DEF Next, Loader
<1>2. CASE UNCHANGED vars
    BY <1>2 DEF vars, Inv, TypeOK, LayoutMatches, Allocated, RegionsDisjoint,
        StackPointerInSegment, NewUnfilled, Placed, Created
<1>. QED BY <1>1, <1>2

\* allocateRegion hands out disjoint regions, and canPush and canPop keep
\* every stack pointer inside its own stack segment: whatever the programs
\* do, and even when they do not fit their regions.
THEOREM MemoryInvariant ==
    Spec => [](TypeOK /\ RegionsDisjoint /\ StackPointerInSegment)
<1>1. Inv => TypeOK /\ RegionsDisjoint /\ StackPointerInSegment BY DEF Inv
<1>. QED BY <1>1, InitInv, NextInv, PTL DEF Spec

\* Addresses, words and cursors keep their types under every operation.
THEOREM TypesHold == Spec => []TypeOK
<1>. QED BY MemoryInvariant, PTL

\* canPush and canPop alone keep every stack pointer inside its own stack
\* segment, whatever the sizes and programs.
THEOREM StackContained == Spec => []StackPointerInSegment
<1>. QED BY MemoryInvariant, PTL

-----------------------------------------------------------------------------
(* When the programs fit. *)

\* The segments of a process lie inside its region.
LEMMA FootprintInRegion ==
    ASSUME Inv, Fits, NEW p \in Placed
    PROVE  /\ layout[p].base \in Nat
           /\ StackTop(layout[p]) \in Nat
           /\ StackTop(layout[p]) <= layout[p].base + RegionSize
<1>1. p \in Procs BY DEF Placed
<1>2. layout[p].base \in Nat /\ StackTop(layout[p]) \in Nat
    BY <1>1, SegmentAddresses DEF Inv, TypeOK, Layout
<1>3. layout[p].codeSize + layout[p].dataSize + StackSize <= RegionSize
    BY DEF Fits, Inv, LayoutMatches
<1>4. layout[p].codeSize \in Nat /\ layout[p].dataSize \in Nat
    BY <1>1 DEF Inv, TypeOK, Layout
<1>. QED BY <1>2, <1>3, <1>4, MemoryAssumption DEF StackTop, StackAddress

\* Disjoint regions make disjoint segments.
LEMMA InvSeparated == Inv /\ Fits => Separated
<1>. SUFFICES ASSUME Inv, Fits, NEW p \in Placed, NEW q \in Placed, p # q,
                     NEW a \in Footprint(layout[p]), a \in Footprint(layout[q])
              PROVE  FALSE
    BY DEF Separated
<1>1. \/ layout[p].base + RegionSize <= layout[q].base
      \/ layout[q].base + RegionSize <= layout[p].base
    BY DEF Inv, RegionsDisjoint
<1>2. /\ a \in layout[p].base..StackTop(layout[p]) - 1
      /\ a \in layout[q].base..StackTop(layout[q]) - 1
    BY DEF Footprint, CodeAddress
<1>. QED BY <1>1, <1>2, FootprintInRegion, MemoryAssumption

\* If every program fits the region it is given, the segments of different
\* processes never share a byte.
THEOREM SegmentsSeparated == Fits => (Spec => []Separated)
<1>. SUFFICES ASSUME Fits PROVE Spec => []Separated OBVIOUS
<1>1. Inv => Separated BY InvSeparated
<1>. QED BY <1>1, InitInv, NextInv, PTL DEF Spec

-----------------------------------------------------------------------------
(* What a step may write. *)

\* Words follow each other: a word of the code ends where the next begins.
LEMMA WordsInOrder ==
    ASSUME NEW i \in Nat, NEW j \in Nat, i < j
    PROVE  i * WordSize + WordSize <= j * WordSize
<1>1. PICK k \in Nat : j = i + 1 + k
    <2>1. j - i - 1 \in Nat OBVIOUS
    <2>. QED BY <2>1
<1>2. j * WordSize = i * WordSize + WordSize + k * WordSize
    BY <1>1, MemoryAssumption
<1>3. k * WordSize \in Nat /\ i * WordSize \in Nat BY MemoryAssumption
<1>. QED BY <1>2, <1>3, MemoryAssumption

\* writeWord and writeBytes change nothing outside the bytes written.
LEMMA WrittenOutside ==
    ASSUME NEW a \in Address, NEW b \in Nat, NEW bytes,
           memory' = Written(b, bytes), memory'[a] # memory[a]
    PROVE  a \in b..b + Len(bytes) - 1
BY DEF Written

\* The code word being loaded lies inside the code segment.
LEMMA CodeWordInSegment ==
    ASSUME Inv, NEW p \in Procs, LoadCodeWord(p)
    PROVE  /\ CodeWordAddress(p) \in Nat
           /\ CodeAddress(layout[p]) <= CodeWordAddress(p)
           /\ CodeWordAddress(p) + WordSize <= DataAddress(layout[p])
           /\ Len(program[p].code[filled[p] + 1]) = WordSize
<1>1. p \in Placed BY DEF LoadCodeWord, Placed
<1>2. program[p].code \in Seq(Word) /\ Len(program[p].code) \in Nat
    BY <1>1, MemoryAssumption DEF Inv, LayoutMatches
<1>3. filled[p] \in Nat /\ filled[p] < Len(program[p].code)
    BY DEF LoadCodeWord, Inv, TypeOK
<1>4. layout[p].codeSize = Len(program[p].code) * WordSize
    BY <1>1 DEF Inv, LayoutMatches
<1>5. filled[p] * WordSize + WordSize <= layout[p].codeSize
    BY <1>2, <1>3, <1>4, WordsInOrder
<1>6. filled[p] * WordSize \in Nat BY <1>3, MemoryAssumption
<1>7. /\ CodeAddress(layout[p]) \in Nat /\ layout[p].codeSize \in Nat
      /\ CodeAddress(layout[p]) + layout[p].codeSize = DataAddress(layout[p])
    BY SegmentAddresses DEF Inv, TypeOK, Layout
<1>8. program[p].code[filled[p] + 1] \in Word BY <1>2, <1>3
<1>. QED BY <1>5, <1>6, <1>7, <1>8, WordIsSeq, MemoryAssumption DEF CodeWordAddress

\* An instruction writes only the data and the stack of its process: stores
\* are held to the data segment by validateDataOffset, pushes to the stack
\* segment by canPush.
LEMMA ProcessStepWrites ==
    ASSUME Inv, NEW p \in Procs, ProcessStep(p), NEW a \in Address,
           memory'[a] # memory[a]
    PROVE  p \in Placed /\ a \in DataAddress(layout[p])..StackTop(layout[p]) - 1
<1>. USE MemoryAssumption
<1>1. Running(p) BY DEF ProcessStep, LoadWord, DataTrap, FetchTrap, PathTrap,
                        StoreWord, PushWord,
        PopWord, PushFails, PopFails
<1>2. p \in Created /\ p \in Placed BY <1>1 DEF Running, Created, Placed
<1>3. /\ DataAddress(layout[p]) \in Nat /\ layout[p].dataSize \in Nat
      /\ StackAddress(layout[p]) \in Nat /\ StackTop(layout[p]) \in Nat
      /\ DataAddress(layout[p]) + layout[p].dataSize = StackAddress(layout[p])
      /\ StackAddress(layout[p]) + StackSize = StackTop(layout[p])
    BY SegmentAddresses DEF Inv, TypeOK, Layout
<1>4. \A w \in Values : Len(w) = WordSize BY WordIsSeq
<1>5. \/ \E o \in 0..MaxOffset, w \in Values : StoreWord(p, o, w)
      \/ \E w \in Values : PushWord(p, w)
    BY DEF ProcessStep, LoadWord, DataTrap, FetchTrap, PathTrap,
           PopWord, PushFails, PopFails
<1>6. CASE \E o \in 0..MaxOffset, w \in Values : StoreWord(p, o, w)
    <2>1. PICK o \in 0..MaxOffset, w \in Values : StoreWord(p, o, w) BY <1>6
    <2>2. DataAddress(layout[p]) + o \in Nat BY <1>3
    <2>3. /\ memory' = Written(DataAddress(layout[p]) + o, w)
          /\ o + WordSize <= layout[p].dataSize
        BY <2>1 DEF StoreWord, DataOffsetOK
    <2>4. a \in DataAddress(layout[p]) + o..DataAddress(layout[p]) + o + WordSize - 1
        BY <2>2, <2>3, <1>4, WrittenOutside
    <2>5. a \in Int /\ DataAddress(layout[p]) <= a /\ a < StackAddress(layout[p])
        BY <2>3, <2>4, <1>3
    <2>. QED BY <2>5, <1>2, <1>3
<1>7. CASE \E w \in Values : PushWord(p, w)
    <2>1. PICK w \in Values : PushWord(p, w) BY <1>7
    <2>2. CanPush(p) /\ memory' = Written(PushAt(p), w) BY <2>1 DEF PushWord
    <2>3. /\ PushAt(p) \in Nat
          /\ PushAt(p) \in StackAddress(layout[p])..StackTop(layout[p])
          /\ PushAt(p) + WordSize <= StackTop(layout[p])
        BY <2>2, <1>2, PushInSegment
    <2>4. a \in PushAt(p)..PushAt(p) + WordSize - 1
        BY <2>2, <2>3, <1>4, WrittenOutside
    <2>. QED BY <2>3, <2>4, <1>2, <1>3
<1>. QED BY <1>5, <1>6, <1>7

\* A load writes only the segments of the process it makes.
LEMMA LoaderWrites ==
    ASSUME Inv, NEW p \in Procs, Loader(p), NEW a \in Address,
           memory'[a] # memory[a]
    PROVE  /\ p \in Placed /\ a \in Footprint(layout[p])
           /\ \/ LoadData(p) /\ DataAddress(layout[p]) <= a
              \/ LoadCodeWord(p) /\ CodeWordAddress(p) <= a
<1>. USE MemoryAssumption
<1>1. LoadData(p) \/ LoadCodeWord(p)
    BY DEF Loader, AllocateRegion, CreateProcess
<1>2. p \in Placed BY <1>1 DEF LoadData, LoadCodeWord, Placed
<1>3. /\ CodeAddress(layout[p]) \in Nat
      /\ DataAddress(layout[p]) \in Nat /\ layout[p].dataSize \in Nat
      /\ StackAddress(layout[p]) \in Nat /\ StackTop(layout[p]) \in Nat
      /\ layout[p].codeSize \in Nat
      /\ CodeAddress(layout[p]) + layout[p].codeSize = DataAddress(layout[p])
      /\ DataAddress(layout[p]) + layout[p].dataSize = StackAddress(layout[p])
      /\ StackAddress(layout[p]) + StackSize = StackTop(layout[p])
    BY SegmentAddresses DEF Inv, TypeOK, Layout
<1>4. CASE LoadData(p)
    <2>1. memory' = Written(DataAddress(layout[p]), program[p].data)
        BY <1>4 DEF LoadData
    <2>2. a \in DataAddress(layout[p])..
                DataAddress(layout[p]) + Len(program[p].data) - 1
        BY <2>1, <1>3, WrittenOutside
    <2>3. Len(program[p].data) = layout[p].dataSize
        BY <1>2 DEF Inv, LayoutMatches
    <2>4. a \in Int /\ DataAddress(layout[p]) <= a /\ a < StackAddress(layout[p])
        BY <2>2, <2>3, <1>3
    <2>5. a \in Footprint(layout[p]) BY <2>4, <1>3 DEF Footprint
    <2>. QED BY <2>4, <2>5, <1>2, <1>4
<1>5. CASE LoadCodeWord(p)
    <2>1. memory' = Written(CodeWordAddress(p), program[p].code[filled[p] + 1])
        BY <1>5 DEF LoadCodeWord
    <2>2. /\ CodeWordAddress(p) \in Nat
          /\ CodeAddress(layout[p]) <= CodeWordAddress(p)
          /\ CodeWordAddress(p) + WordSize <= DataAddress(layout[p])
          /\ Len(program[p].code[filled[p] + 1]) = WordSize
        BY <1>5, CodeWordInSegment
    <2>3. a \in CodeWordAddress(p)..CodeWordAddress(p) + WordSize - 1
        BY <2>1, <2>2, WrittenOutside
    <2>4. a \in Int /\ CodeWordAddress(p) <= a /\ a < DataAddress(layout[p])
        BY <2>2, <2>3, <1>3
    <2>5. a \in Footprint(layout[p]) BY <2>2, <2>4, <1>3 DEF Footprint
    <2>. QED BY <2>4, <2>5, <1>2, <1>5
<1>. QED BY <1>1, <1>4, <1>5

\* Every step writes inside the segments of the process it belongs to.
LEMMA StepWritesOwn ==
    ASSUME Inv, NEW p \in Procs, Loader(p) \/ ProcessStep(p),
           NEW a \in Address, memory'[a] # memory[a]
    PROVE  p \in Placed /\ a \in Footprint(layout[p])
<1>1. /\ CodeAddress(layout[p]) \in Nat /\ DataAddress(layout[p]) \in Nat
      /\ StackTop(layout[p]) \in Nat /\ layout[p].codeSize \in Nat
      /\ CodeAddress(layout[p]) + layout[p].codeSize = DataAddress(layout[p])
    BY SegmentAddresses DEF Inv, TypeOK, Layout
<1>. QED BY <1>1, LoaderWrites, ProcessStepWrites DEF Footprint

\* If every program fits its region, no step and no load of one process
\* changes a byte of the segments of another.
THEOREM NoInterferenceHolds == Fits => (Spec => NoInterference)
<1>. SUFFICES ASSUME Fits PROVE Spec => NoInterference OBVIOUS
<1>1. ASSUME Inv, NEW p \in Placed, NEW q \in Placed, p # q,
             Loader(q) \/ ProcessStep(q),
             NEW a \in Footprint(layout[p]) \cap Address
      PROVE  memory'[a] = memory[a]
    <2>1. Separated BY <1>1, InvSeparated
    <2>2. q \in Procs BY DEF Placed
    <2>. QED BY <1>1, <2>1, <2>2, StepWritesOwn DEF Separated
<1>2. Inv => [\A p, q \in Placed : p # q /\ (Loader(q) \/ ProcessStep(q)) =>
                \A a \in Footprint(layout[p]) \cap Address :
                    memory'[a] = memory[a]]_vars
    BY <1>1
<1>. QED BY <1>2, InitInv, NextInv, PTL DEF Spec, NoInterference

-----------------------------------------------------------------------------
(* The code of a process is the program it was loaded from. *)

\* The words of the code written so far are in place; a process is created
\* only when all of them are.
CodeLoaded ==
    /\ \A p \in Placed : \A i \in 1..filled[p] :
        WordAt(CodeAddress(layout[p]) + (i - 1) * WordSize) = program[p].code[i]
    /\ \A p \in Created : filled[p] = Len(program[p].code)

\* The bytes of a code word that was written.
LEMMA CodeByte ==
    ASSUME Inv, Fits, NEW p \in Placed, NEW i \in 1..filled[p],
           NEW k \in 1..WordSize
    PROVE  LET a == CodeAddress(layout[p]) + (i - 1) * WordSize + k - 1 IN
           /\ a \in Address /\ a \in Footprint(layout[p])
           /\ a < DataAddress(layout[p])
           /\ a < CodeAddress(layout[p]) + filled[p] * WordSize
<1>. DEFINE c == CodeAddress(layout[p])
            a == c + (i - 1) * WordSize + k - 1
<1>. USE MemoryAssumption
<1>1. p \in Procs BY DEF Placed
<1>2. filled[p] \in Nat BY <1>1 DEF Inv, TypeOK
<1>3. program[p] \in Programs /\ filled[p] <= Len(program[p].code)
        /\ layout[p].codeSize = Len(program[p].code) * WordSize
    BY DEF Inv, LayoutMatches
<1>4. Len(program[p].code) \in Nat BY <1>3
<1>5. i - 1 \in Nat /\ i - 1 < filled[p] /\ i - 1 < Len(program[p].code)
    BY <1>2, <1>3, <1>4
<1>6. /\ (i - 1) * WordSize + WordSize <= filled[p] * WordSize
      /\ (i - 1) * WordSize + WordSize <= layout[p].codeSize
    BY <1>2, <1>3, <1>4, <1>5, WordsInOrder
<1>7. (i - 1) * WordSize \in Nat /\ filled[p] * WordSize \in Nat
    BY <1>2, <1>5
<1>8. /\ c \in Nat /\ layout[p].codeSize \in Nat /\ layout[p].dataSize \in Nat
      /\ StackTop(layout[p]) \in Nat /\ StackAddress(layout[p]) \in Nat
      /\ c + layout[p].codeSize = DataAddress(layout[p])
      /\ DataAddress(layout[p]) + layout[p].dataSize = StackAddress(layout[p])
      /\ StackAddress(layout[p]) + StackSize = StackTop(layout[p])
    BY <1>1, SegmentAddresses DEF Inv, TypeOK, Layout
<1>9. a \in Nat /\ c <= a /\ a < DataAddress(layout[p]) /\ a < c + filled[p] * WordSize
    <2>. DEFINE m == (i - 1) * WordSize
                n == filled[p] * WordSize
    <2>1. /\ m \in Nat /\ n \in Nat /\ a = c + m + k - 1
          /\ m + WordSize <= n /\ m + WordSize <= layout[p].codeSize
        BY <1>6, <1>7
    <2>2. k \in 1..WordSize /\ WordSize \in Nat OBVIOUS
    <2>. HIDE DEF m, n, c, a
    <2>3. a \in Nat /\ c <= a /\ a < DataAddress(layout[p]) /\ a < c + n
        BY <2>1, <2>2, <1>8
    <2>. QED BY <2>3 DEF n
<1>10. StackTop(layout[p]) <= MemSize
    <2>1. layout[p].base + RegionSize <= MemSize BY DEF Inv, RegionsDisjoint
    <2>. QED BY <2>1, FootprintInRegion
<1>11. a < StackTop(layout[p]) BY <1>8, <1>9
<1>12. a \in Address BY <1>8, <1>9, <1>10, <1>11 DEF Address
<1>13. a \in Footprint(layout[p]) BY <1>8, <1>9, <1>11 DEF Footprint
<1>. QED BY <1>9, <1>12, <1>13

\* No step overwrites a code word that was written.
LEMMA CodeByteKept ==
    ASSUME Inv, Fits, NEW q \in Procs, Loader(q) \/ ProcessStep(q),
           NEW p \in Placed, NEW i \in 1..filled[p], NEW k \in 1..WordSize
    PROVE  LET a == CodeAddress(layout[p]) + (i - 1) * WordSize + k - 1 IN
           memory'[a] = memory[a]
<1>. DEFINE a == CodeAddress(layout[p]) + (i - 1) * WordSize + k - 1
<1>1. /\ a \in Address /\ a \in Footprint(layout[p])
      /\ a < DataAddress(layout[p])
      /\ a < CodeAddress(layout[p]) + filled[p] * WordSize
    BY CodeByte
<1>. HIDE DEF a
<1>. SUFFICES ASSUME memory'[a] # memory[a] PROVE FALSE BY DEF a
<1>2. q \in Placed /\ a \in Footprint(layout[q]) BY <1>1, StepWritesOwn
<1>3. q = p BY <1>1, <1>2, InvSeparated DEF Separated
<1>4. a \in Int /\ DataAddress(layout[p]) \in Nat
    BY <1>1, <1>3, SegmentAddresses, MemoryAssumption DEF Address, Inv, TypeOK
<1>5. CASE ProcessStep(q)
    <2>1. a \in DataAddress(layout[p])..StackTop(layout[p]) - 1
        BY <1>1, <1>3, <1>5, ProcessStepWrites
    <2>2. StackTop(layout[p]) \in Nat BY <1>3, SegmentAddresses DEF Inv, TypeOK
    <2>. QED BY <2>1, <2>2, <1>1, <1>4
<1>6. CASE Loader(q)
    <2>1. \/ DataAddress(layout[p]) <= a
          \/ LoadCodeWord(p) /\ CodeWordAddress(p) <= a
        BY <1>1, <1>3, <1>6, LoaderWrites
    <2>2. ASSUME LoadCodeWord(p), CodeWordAddress(p) <= a PROVE FALSE
        <3>1. CodeWordAddress(p) \in Nat BY <1>3, <2>2, CodeWordInSegment
        <3>. QED BY <3>1, <2>2, <1>1, <1>4 DEF CodeWordAddress
    <2>. QED BY <2>1, <2>2, <1>1, <1>4
<1>. QED BY <1>5, <1>6

\* Every step of the memory keeps the code loaded so far.
LEMMA NextCodeLoaded ==
    ASSUME Inv, Fits, CodeLoaded, NEW q \in Procs, Loader(q) \/ ProcessStep(q)
    PROVE  CodeLoaded'
<1>. USE MemoryAssumption
<1>1. \A p \in Placed : layout'[p] = layout[p] /\ program'[p] = program[p]
    BY DEF Loader, AllocateRegion, LoadData, LoadCodeWord, CreateProcess,
        ProcessStep, LoadWord, DataTrap, FetchTrap, PathTrap,
        StoreWord, PushWord, PopWord,
        PushFails, PopFails, loadVars, Placed, Inv, TypeOK
<1>2. ASSUME NEW p \in Placed, NEW i \in 1..filled[p]
      PROVE  WordAt(CodeAddress(layout[p]) + (i - 1) * WordSize)'
                = program'[p].code[i]
    <2>1. \A k \in 1..WordSize :
            memory'[CodeAddress(layout[p]) + (i - 1) * WordSize + k - 1]
              = memory[CodeAddress(layout[p]) + (i - 1) * WordSize + k - 1]
        BY CodeByteKept
    <2>2. WordAt(CodeAddress(layout[p]) + (i - 1) * WordSize)'
            = WordAt(CodeAddress(layout[p]) + (i - 1) * WordSize)
        BY <1>1, <2>1 DEF WordAt, CodeAddress
    <2>. QED BY <1>1, <2>2 DEF CodeLoaded
<1>3. ASSUME NEW p \in Procs, LoadCodeWord(p), filled'[p] = filled[p] + 1
      PROVE  [k \in 1..WordSize |-> memory'[CodeWordAddress(p) + k - 1]]
                = program[p].code[filled[p] + 1]
    <2>. DEFINE w == program[p].code[filled[p] + 1]
                c == CodeWordAddress(p)
    <2>1. p \in Placed BY <1>3 DEF LoadCodeWord, Placed
    <2>2. filled[p] \in Nat BY DEF Inv, TypeOK
    <2>3. InRange(c, WordSize) /\ memory' = Written(c, w)
        BY <1>3, <2>2 DEF LoadCodeWord
    <2>4. c \in Nat /\ Len(w) = WordSize BY <1>3, CodeWordInSegment
    <2>5. w \in Word
        <3>1. program[p].code \in Seq(Word) BY <2>1 DEF Inv, LayoutMatches
        <3>2. filled[p] + 1 \in 1..Len(program[p].code)
            BY <1>3, <2>2, <3>1 DEF LoadCodeWord
        <3>. QED BY <3>1, <3>2
    <2>. HIDE DEF w, c
    <2>6. ASSUME NEW k \in 1..WordSize PROVE memory'[c + k - 1] = w[k]
        <3>1. c + k - 1 \in Address BY <2>3, <2>4 DEF InRange, Address
        <3>2. c + k - 1 \in c..c + Len(w) - 1 BY <2>4
        <3>3. (c + k - 1) - c + 1 = k BY <2>4
        <3>. QED BY <2>3, <3>1, <3>2, <3>3 DEF Written
    <2>7. [k \in 1..WordSize |-> memory'[c + k - 1]] = w
        BY <2>5, <2>6 DEF Word
    <2>. QED BY <2>7 DEF w, c
<1>4. \A p \in Placed : \/ filled'[p] = filled[p]
                        \/ LoadCodeWord(p) /\ filled'[p] = filled[p] + 1
    BY DEF Loader, AllocateRegion, LoadData, LoadCodeWord, CreateProcess,
        ProcessStep, LoadWord, DataTrap, FetchTrap, PathTrap,
        StoreWord, PushWord, PopWord,
        PushFails, PopFails, loadVars, Placed, Inv, TypeOK
<1>5. \A p \in Placed' : p \in Placed \/ filled'[p] = 0
    BY DEF Loader, AllocateRegion, LoadData, LoadCodeWord, CreateProcess,
        ProcessStep, LoadWord, DataTrap, FetchTrap, PathTrap,
        StoreWord, PushWord, PopWord,
        PushFails, PopFails, loadVars, Running, Placed, Inv, TypeOK, NewUnfilled
<1>6. ASSUME NEW p \in Placed', NEW i \in 1..filled'[p]
      PROVE  WordAt(CodeAddress(layout[p]) + (i - 1) * WordSize)'
                = program'[p].code[i]
    <2>1. p \in Placed /\ p \in Procs BY <1>5 DEF Placed
    <2>2. filled[p] \in Nat BY <2>1 DEF Inv, TypeOK
    <2>3. CASE i \in 1..filled[p] BY <2>1, <2>3, <1>2
    <2>4. CASE i \notin 1..filled[p]
        <3>1. i = filled[p] + 1 /\ LoadCodeWord(p) /\ filled'[p] = filled[p] + 1
            BY <2>1, <2>2, <2>4, <1>4
        <3>2. i - 1 = filled[p] BY <3>1, <2>2
        <3>3. WordAt(CodeAddress(layout[p]) + (i - 1) * WordSize)'
                = [k \in 1..WordSize |-> memory'[CodeWordAddress(p) + k - 1]]
            BY <2>1, <3>2, <1>1 DEF WordAt, CodeWordAddress, CodeAddress
        <3>. QED BY <2>1, <3>1, <3>3, <1>1, <1>3
    <2>. QED BY <2>3, <2>4
<1>7. ASSUME NEW p \in Created' PROVE filled'[p] = Len(program'[p].code)
    <2>1. p \in Created \/ CreateProcess(p)
        BY DEF Loader, AllocateRegion, LoadData, LoadCodeWord, CreateProcess,
            ProcessStep, LoadWord, DataTrap, FetchTrap, PathTrap,
            StoreWord, PushWord, PopWord,
            PushFails, PopFails, Running, Created, Inv, TypeOK
    <2>2. CASE p \in Created
        <3>1. p \in Placed /\ ~LoadCodeWord(p)
            BY <2>2 DEF Created, Placed, LoadCodeWord
        <3>. QED BY <3>1, <2>2, <1>1, <1>4 DEF CodeLoaded
    <2>3. CASE CreateProcess(p) BY <2>3 DEF CreateProcess, loadVars
    <2>. QED BY <2>1, <2>2, <2>3
<1>. QED BY <1>6, <1>7 DEF CodeLoaded

\* An address inside physical memory is not changed by cutting it to 32 bits
\* (readCodeWord).
LEMMA FetchInMemory ==
    ASSUME NEW x \in Address PROVE x % AddressModulus = x
BY MemoryAssumption DEF Address

\* A fetch inside the code written so far reads where loadCode wrote.
LEMMA FetchAgrees ==
    ASSUME Inv, Fits, NEW p \in Placed, NEW i \in 1..filled[p]
    PROVE  FetchAddress(p, i - 1) = CodeAddress(layout[p]) + (i - 1) * WordSize
<1>. DEFINE x == CodeAddress(layout[p]) + (i - 1) * WordSize
<1>1. 1 \in 1..WordSize BY MemoryAssumption
<1>2. x + 1 - 1 \in Address BY <1>1, CodeByte
<1>3. x \in Int
    <2>1. p \in Procs BY DEF Placed
    <2>2. CodeAddress(layout[p]) \in Nat BY <2>1, SegmentAddresses DEF Inv, TypeOK
    <2>3. (i - 1) * WordSize \in Int BY MemoryAssumption
    <2>. QED BY <2>2, <2>3
<1>4. x \in Address BY <1>2, <1>3
<1>5. x % AddressModulus = x BY <1>4, FetchInMemory
<1>. QED BY <1>5 DEF FetchAddress

\* If every program fits its region, no store, push or load of any process
\* ever overwrites an instruction of a process.
THEOREM CodeNeverOverwritten == Fits => (Spec => []CodeIntact)
<1>. SUFFICES ASSUME Fits PROVE Spec => []CodeIntact OBVIOUS
<1>1. Init => CodeLoaded
    BY DEF Init, CodeLoaded, Placed, Created
<1>2. Inv /\ CodeLoaded /\ [Next]_vars => CodeLoaded'
    <2>. SUFFICES ASSUME Inv, CodeLoaded, [Next]_vars PROVE CodeLoaded' OBVIOUS
    <2>1. CASE Next BY <2>1, NextCodeLoaded DEF Next
    <2>2. CASE UNCHANGED vars
        BY <2>2 DEF vars, CodeLoaded, Placed, Created, WordAt
    <2>. QED BY <2>1, <2>2
<1>3. Inv /\ CodeLoaded => CodeIntact
    <2>. SUFFICES ASSUME Inv, CodeLoaded, NEW p \in Created,
                         NEW i \in 1..Len(program[p].code)
                  PROVE  Fetched(p, i - 1) = program[p].code[i]
        BY DEF CodeIntact
    <2>1. p \in Placed /\ i \in 1..filled[p]
        BY DEF Created, Placed, CodeLoaded
    <2>. QED BY <2>1, FetchAgrees DEF CodeLoaded, Fetched
<1>. QED BY <1>1, <1>2, <1>3, InitInv, NextInv, PTL DEF Spec
=============================================================================
