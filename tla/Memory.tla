------------------------------- MODULE Memory -------------------------------
(***************************************************************************)
(* PhysicalMemory and ProcessMemory: one flat byte array shared by all     *)
(* processes, a bump allocator that hands out regions and never takes them *)
(* back, and the segments (code, data, stack) each process addresses       *)
(* inside its region.  PhysicalMemory::mutex_ makes every access one step, *)
(* so the steps of the processes interleave.                               *)
(*                                                                         *)
(* A word is the tuple of its bytes, least significant first, which is how *)
(* readWord and writeWord lay it out.                                      *)
(***************************************************************************)
EXTENDS Integers, Sequences

CONSTANTS
    Procs,       \* processes that may be loaded
    Byte,        \* byte values, 0 among them
    WordSize,    \* sizeof(Word)
    MemSize,     \* size of physical memory
    AddressModulus,  \* 2^32: an Address, and a program counter, is an uint32
    RegionSize,  \* totalSize of a MemoryRegionLayout
    StackSize,   \* kStackSize
    Programs,    \* assembled programs: code words and data bytes
    Values,      \* words the programs store and push
    MaxOffset,   \* bound: the largest data offset a program uses
    MaxPath      \* 256: how many bytes of a path the load call reads

Word == [1..WordSize -> Byte]
ZeroWord == [i \in 1..WordSize |-> 0]
Address == 0..MemSize - 1

ASSUME MemoryAssumption ==
    /\ 0 \in Byte
    /\ WordSize \in Nat \ {0}
    /\ MemSize \in Nat /\ RegionSize \in Nat /\ MaxOffset \in Nat
    /\ AddressModulus \in Nat \ {0} /\ MemSize <= AddressModulus
    /\ MaxPath \in Nat
    /\ StackSize \in Nat /\ WordSize <= StackSize
    /\ Programs \subseteq [code : Seq(Word), data : Seq(Byte)]
    /\ Values \subseteq Word

VARIABLES
    memory,           \* memory_
    nextFreeAddress,  \* nextFreeAddress_
    status,           \* status[p]: see Statuses
    program,          \* program[p]: the AssembledProgram it is loaded from
    layout,           \* layout[p]: its MemoryRegionLayout
    filled,           \* filled[p]: i in loadCode, the code words written
    sp,               \* sp[p]: its stack pointer, an absolute address
    out,              \* out[p]: the register the last LOAD or POP filled
    crashed           \* std::terminate: an exception nobody catches

vars == <<memory, nextFreeAddress, status, program, layout, filled, sp, out,
          crashed>>
loadVars == <<program, layout, filled>>

\* Not loaded yet; its data, then its code being written; runnable; stopped
\* by an Error result; given up by a loader that threw.
Statuses == {"new", "data", "code", "running", "error", "failed"}

\* codeOffset is 0; data and stack follow the code without gaps.
Layout == [base : Nat, codeSize : Nat, dataSize : Nat]
NoLayout == [base |-> 0, codeSize |-> 0, dataSize |-> 0]
NoProgram == [code |-> <<>>, data |-> <<>>]

DataAddressNoBase(l) == l.codeSize                                 \* mutant

CodeAddress(l)  == l.base
DataAddress(l)  == l.base + l.codeSize
StackAddress(l) == l.base + l.codeSize + l.dataSize
StackTop(l)     == StackAddress(l) + StackSize

TypeOK ==
    /\ memory \in [Address -> Byte]
    /\ nextFreeAddress \in Nat
    /\ status \in [Procs -> Statuses]
    /\ program \in [Procs -> Programs \cup {NoProgram}]
    /\ layout \in [Procs -> Layout]
    /\ filled \in [Procs -> Nat]
    /\ sp \in [Procs -> Nat]
    /\ out \in [Procs -> Word]
    /\ crashed \in BOOLEAN

Init ==
    /\ memory = [a \in Address |-> 0]
    /\ nextFreeAddress = 0
    /\ status = [p \in Procs |-> "new"]
    /\ program = [p \in Procs |-> NoProgram]
    /\ layout = [p \in Procs |-> NoLayout]
    /\ filled = [p \in Procs |-> 0]
    /\ sp = [p \in Procs |-> 0]
    /\ out = [p \in Procs |-> ZeroWord]
    /\ crashed = FALSE

-----------------------------------------------------------------------------
(* PhysicalMemory. *)

\* validateRange
InRange(a, n) == a + n <= MemSize

\* readWord
WordAt(a) == [i \in 1..WordSize |-> memory[a + i - 1]]

\* writeWord and writeBytes
Written(a, bytes) ==
    [b \in Address |-> IF b \in a..a + Len(bytes) - 1 THEN bytes[b - a + 1]
                       ELSE memory[b]]

BumpOneLess == nextFreeAddress + RegionSize - 1                    \* mutant

\* the new nextFreeAddress_ of allocateRegion
Bump == nextFreeAddress + RegionSize

-----------------------------------------------------------------------------
(* ProgramLoader::load and VirtualOS::createProcess.  Loads run on the      *)
(* thread of the owner and, for CALL load, on core threads: they interleave *)
(* between any two accesses to memory.                                      *)

LayoutOf(prog) ==
    [base |-> nextFreeAddress, codeSize |-> Len(prog.code) * WordSize,
     dataSize |-> Len(prog.data)]

\* allocateRegion, which throws when memory is used up: then nothing happens
\* here (what the exception does to its thread is VirtualOS's matter).
AllocateRegion(p, prog) ==
    /\ status[p] = "new"
    /\ nextFreeAddress + RegionSize <= MemSize
    /\ nextFreeAddress' = Bump
    /\ layout' = [layout EXCEPT ![p] = LayoutOf(prog)]
    /\ program' = [program EXCEPT ![p] = prog]
    /\ status' = [status EXCEPT ![p] = "data"]
    /\ UNCHANGED <<memory, filled, sp, out, crashed>>

\* The constructor of ProcessMemory; the size check against layout_.dataSize
\* compares the image with itself.
LoadData(p) ==
    LET image == program[p].data
        fits == image = <<>> \/ InRange(DataAddress(layout[p]), Len(image)) IN
    /\ status[p] = "data"
    /\ memory' = IF fits THEN Written(DataAddress(layout[p]), image) ELSE memory
    /\ status' = [status EXCEPT ![p] = IF fits THEN "code" ELSE "failed"]
    /\ UNCHANGED <<nextFreeAddress, loadVars, sp, out, crashed>>

CodeWordAddressUnscaled(p) == CodeAddress(layout[p]) + filled[p]   \* mutant

\* Where writeCodeWord puts the next word of the code.
CodeWordAddress(p) == CodeAddress(layout[p]) + filled[p] * WordSize

\* One iteration of loadCode.  When the write throws, the region and the
\* words written so far stay behind, and there is no process.
LoadCodeWord(p) ==
    /\ status[p] = "code" /\ filled[p] < Len(program[p].code)
    /\ IF InRange(CodeWordAddress(p), WordSize)
       THEN /\ memory' = Written(CodeWordAddress(p),
                                 program[p].code[filled[p] + 1])
            /\ filled' = [filled EXCEPT ![p] = @ + 1]
            /\ UNCHANGED status
       ELSE /\ status' = [status EXCEPT ![p] = "failed"]
            /\ UNCHANGED <<memory, filled>>
    /\ UNCHANGED <<nextFreeAddress, program, layout, sp, out, crashed>>

InitialSpNoOffset(l) == l.base - WordSize                          \* mutant

\* the argument of setSp in createProcess
InitialSp(l) == StackTop(l) - WordSize

CreateProcess(p) ==
    /\ status[p] = "code" /\ filled[p] = Len(program[p].code)
    /\ sp' = [sp EXCEPT ![p] = InitialSp(layout[p])]
    /\ status' = [status EXCEPT ![p] = "running"]
    /\ UNCHANGED <<memory, nextFreeAddress, loadVars, out, crashed>>

Loader(p) ==
    \/ \E prog \in Programs : AllocateRegion(p, prog)
    \/ LoadData(p) \/ LoadCodeWord(p) \/ CreateProcess(p)

-----------------------------------------------------------------------------
(* Instruction fetch. *)

Running(p) == status[p] = "running"

\* The argument of readWord in readCodeWord: computed in size_t, cut to an
\* Address, and compared with no segment.
FetchAddress(p, pc) ==
    (CodeAddress(layout[p]) + pc * WordSize) % AddressModulus

\* readCodeWord
Fetched(p, pc) == WordAt(FetchAddress(p, pc))

\* Only the end of physical memory stops a program counter that has left the
\* code, by an exception coreLoop does not catch; elsewhere the fetch succeeds
\* and changes nothing.
FetchTrap(p, pc) ==
    /\ Running(p) /\ ~InRange(FetchAddress(p, pc), WordSize)
    /\ crashed' = TRUE
    /\ UNCHANGED <<memory, nextFreeAddress, status, loadVars, sp, out>>

-----------------------------------------------------------------------------
(* LOAD and STORE: offsets into the data segment.  The print call reads its *)
(* argument like LOAD, and the scan call writes its input like STORE.       *)

DataOffsetUnchecked(l, o) == o <= l.dataSize                       \* mutant

\* validateDataOffset for a word
DataOffsetOK(l, o) == o + WordSize <= l.dataSize

LoadWord(p, o) ==
    /\ Running(p) /\ DataOffsetOK(layout[p], o)
    /\ InRange(DataAddress(layout[p]) + o, WordSize)
    /\ out' = [out EXCEPT ![p] = WordAt(DataAddress(layout[p]) + o)]
    /\ UNCHANGED <<memory, nextFreeAddress, status, loadVars, sp, crashed>>

StoreWord(p, o, w) ==
    /\ Running(p) /\ DataOffsetOK(layout[p], o)
    /\ InRange(DataAddress(layout[p]) + o, WordSize)
    /\ memory' = Written(DataAddress(layout[p]) + o, w)
    /\ UNCHANGED <<nextFreeAddress, status, loadVars, sp, out, crashed>>

\* A bad offset throws through coreLoop, which catches nothing.
DataTrap(p, o) ==
    /\ Running(p)
    /\ ~(DataOffsetOK(layout[p], o)
          /\ InRange(DataAddress(layout[p]) + o, WordSize))
    /\ crashed' = TRUE
    /\ UNCHANGED <<memory, nextFreeAddress, status, loadVars, sp, out>>

\* readDataByte for the byte at offset o
ByteReadable(l, o) == o + 1 <= l.dataSize /\ InRange(DataAddress(l) + o, 1)

\* The load call reads the path at offset o up to a zero byte or MaxPath
\* bytes; it throws when the data segment ends before that.
PathTrap(p, o) ==
    /\ Running(p)
    /\ \E n \in 0..MaxPath - 1 :
        /\ ~ByteReadable(layout[p], o + n)
        /\ \A i \in 0..n - 1 : /\ ByteReadable(layout[p], o + i)
                               /\ memory[DataAddress(layout[p]) + o + i] # 0
    /\ crashed' = TRUE
    /\ UNCHANGED <<memory, nextFreeAddress, status, loadVars, sp, out>>

-----------------------------------------------------------------------------
(* PUSH, POP and RET: their handlers turn the exception into an Error. *)

CanPushAlways(p) == sp[p] <= StackTop(layout[p])                   \* mutant

\* canPush; validateStackAccess, called after it, can fail no more
CanPush(p) ==
    /\ sp[p] >= StackAddress(layout[p]) + WordSize
    /\ sp[p] <= StackTop(layout[p])

CanPopOneMore(p) ==                                                \* mutant
    /\ sp[p] <= StackTop(layout[p])
    /\ sp[p] >= StackAddress(layout[p])

\* canPop; likewise
CanPop(p) ==
    /\ sp[p] + WordSize <= StackTop(layout[p])
    /\ sp[p] >= StackAddress(layout[p])

PushAt(p) == sp[p] - WordSize

PushWord(p, w) ==
    /\ Running(p) /\ CanPush(p) /\ InRange(PushAt(p), WordSize)
    /\ sp' = [sp EXCEPT ![p] = PushAt(p)]
    /\ memory' = Written(PushAt(p), w)
    /\ UNCHANGED <<nextFreeAddress, status, loadVars, out, crashed>>

PopAdvance(p) == sp[p] + WordSize

PopWord(p) ==
    /\ Running(p) /\ CanPop(p) /\ InRange(sp[p], WordSize)
    /\ out' = [out EXCEPT ![p] = WordAt(sp[p])]
    /\ sp' = [sp EXCEPT ![p] = PopAdvance(p)]
    /\ UNCHANGED <<memory, nextFreeAddress, status, loadVars, crashed>>

\* sp is already lowered when the write of a push is refused by physical memory.
PushFails(p) ==
    /\ Running(p) /\ ~(CanPush(p) /\ InRange(PushAt(p), WordSize))
    /\ sp' = IF CanPush(p) THEN [sp EXCEPT ![p] = PushAt(p)] ELSE sp
    /\ status' = [status EXCEPT ![p] = "error"]
    /\ UNCHANGED <<memory, nextFreeAddress, loadVars, out, crashed>>

PopFails(p) ==
    /\ Running(p) /\ ~(CanPop(p) /\ InRange(sp[p], WordSize))
    /\ status' = [status EXCEPT ![p] = "error"]
    /\ UNCHANGED <<memory, nextFreeAddress, loadVars, sp, out, crashed>>

-----------------------------------------------------------------------------

\* One instruction of process p.
ProcessStep(p) ==
    \/ \E o \in 0..MaxOffset :
        \/ LoadWord(p, o) \/ DataTrap(p, o) \/ PathTrap(p, o)
        \/ \E w \in Values : StoreWord(p, o, w)
    \/ \E pc \in 0..AddressModulus - 1 : FetchTrap(p, pc)
    \/ \E w \in Values : PushWord(p, w)
    \/ PopWord(p) \/ PushFails(p) \/ PopFails(p)

Next == ~crashed /\ \E p \in Procs : Loader(p) \/ ProcessStep(p)

Spec == Init /\ [][Next]_vars

-----------------------------------------------------------------------------
(* Properties. *)

\* Processes that have a region.
Placed == {p \in Procs : status[p] # "new"}

Created == {p \in Procs : status[p] \in {"running", "error"}}

\* The addresses of a process's segments.
Footprint(l) == CodeAddress(l)..StackTop(l) - 1

\* Every program's segments fit the region it is given: what nothing checks.
Fits ==
    \A prog \in Programs :
        Len(prog.code) * WordSize + Len(prog.data) + StackSize <= RegionSize

\* allocateRegion never hands out a byte twice, and never one that memory
\* does not have, however many loads run at once.
RegionsDisjoint ==
    \A p, q \in Placed :
        /\ layout[p].base + RegionSize <= MemSize
        /\ p # q => \/ layout[p].base + RegionSize <= layout[q].base
                    \/ layout[q].base + RegionSize <= layout[p].base

\* The segments of different processes share no byte (ARCHITECTURE.md: "One
\* memory region per process").
Separated ==
    \A p, q \in Placed :
        p # q => Footprint(layout[p]) \cap Footprint(layout[q]) = {}

\* The checks of canPush and canPop keep the stack pointer of a process inside
\* its stack segment, so that a push never reaches the data below it.
StackPointerInSegment ==
    \A p \in Created :
        sp[p] \in StackAddress(layout[p])..StackTop(layout[p])

\* No step of another process and no load of another program changes a byte
\* of a process's code, data or stack.
NoInterference ==
    [][\A p, q \in Placed : p # q /\ (Loader(q) \/ ProcessStep(q)) =>
        \A a \in Footprint(layout[p]) \cap Address :
            memory'[a] = memory[a]]_vars

\* While its program counter is inside the code, a process fetches the
\* program it was loaded from: no store, push or load of any process overwrites
\* an instruction, and loader and fetch agree on where it is.
CodeIntact ==
    \A p \in Created :
        \A i \in 1..Len(program[p].code) : Fetched(p, i - 1) = program[p].code[i]
=============================================================================
