# Verification of the virtual machine

TLA+ models of a small multi-core virtual machine written in C++: programs in
its assembly language are assembled, loaded into regions of one shared physical
memory, and run by core threads under a preemptive round-robin scheduler.

Paths such as `os/virtual_os.cpp` are below `src/vm/` of the repository.

## The system

| Component | State | Operations | Who calls it |
|---|---|---|---|
| `VirtualOS` (`os/virtual_os.cpp`) | running flag, shutdown mutex and condition variable, owns everything below | `loadProgram`, `loadProgramFromSource`, `run`, `stop`, `stepProcess`, `notifyPossibleShutdown` | the owner thread; a second client thread may call `stop`; core threads load through the `load` call |
| `ProcessTable`, `ProcessControlBlock` (`process/`) | PCBs in order of creation, `nextProcessId_`; per PCB its state, halted and yield flags, slice, registers, memory | `emplace`, `nextId`, `find`, `allHalted` | `VirtualOS`, scheduler |
| `PreemptiveScheduler` (`os/preemptive_scheduler.cpp`) | queue of ready ids, round-robin index, running flag, one mutex and condition variable | `acquireProcess`, `onPreempt`, `onCoreIdle`, `notifyProcessReady`, `stop` | core threads, `VirtualOS` |
| `VirtualCpuCore` (`cpu/virtual_cpu_core.cpp`) | one thread each, the process it holds, stop flag | `coreLoop`, `executeInstruction`, `releaseProcess`, `start`, `stop`, `join` | `VirtualOS::run` |
| `SyscallHandler` (`os/syscall_handler.cpp`) | output mutex | `print`, `scan`, `exit`, `yield`, `load` | `executeInstruction` |
| `PhysicalMemory`, `ProcessMemory` (`memory/`) | a byte array under a mutex, the next free address; per process its segments and `SP` | allocate a region, read and write words, fetch code, push, pop | loader, handlers, core |
| `ProgramLoader` (`os/program_loader.cpp`) | none | `load` | `VirtualOS` |
| `RegisterFile`, handlers, `InstructionRegistry` (`cpu/`, `isa/`) | 16 registers, `PC`, four flags | one handler per opcode | `executeInstruction` |
| Encoding (`types.cpp`) | none | `encodeInstruction`, `decodeInstruction` | parser, core |
| Assembler (`assembler/`) | per parse a lexer with its cursor and lookahead; per `Assembler` the tables of labels and symbols, the section, the code address, the data offset | two passes over the text | `VirtualOS`, on the owner's and on the core threads |
| Tracer, command line | none that matters | output | core, `main` |

The hard part is concurrency. The owner thread and the cores share the process
table, the states in the PCBs, the ready queue, the memory and the assembler.
The ready queue and the memory have a mutex each; the table, its id counter, the
states and the assembler have none. Two condition variables connect the threads: cores sleep until there
is work, `run()` sleeps until everything has halted. A guest program can create
processes while others run. No exception is caught on a core thread. The second
difficulty is arithmetic at the edges of fields: 12-bit immediates, 32-bit flags,
segment bounds.

What makes the parts correct:

* scheduler and cores: a process is on one core at a time; none is lost or
  queued twice; a halted process stays halted; no core sleeps while there is
  work; ready processes get a core, in the order they became ready;
* shutdown: `run()` stops the machine when, and only when, everything has halted;
  a `stop()` from elsewhere brings the guests to rest;
* memory: each process has its segments to itself, its stack stays in bounds, and
  the words it fetches are the words that were loaded;
* assembler: a text is translated by its own statements only, or refused for a
  fault of its own;
* instructions: what is executed is what the source text says, and conditional
  jumps follow the numbers compared.

## Modules

| Module | Models | Rests on |
|---|---|---|
| `VirtualOS` | table, scheduler, cores, owner thread, load calls | |
| `VirtualOSProofs` | theorems that need no schedule: accounting, wake-ups, ownership | `VirtualOS` |
| `ScheduleProofs` | theorems about slices, queue and turns, and the refinement of `RoundRobin` | `VirtualOSProofs`, `MCVirtualOS` |
| `RoundRobin` | what a guest is promised of the scheduler: turns in one line | |
| `ExternalStop` | a second client thread in `stop()` | `VirtualOS` |
| `ExternalStopProofs` | theorems about it | `ExternalStop`, `ScheduleProofs` |
| `Memory` | physical memory, allocation, loading, fetch, data and stack access | |
| `PrivateMemory` | what a guest is promised: a data segment and a stack of its own | |
| `MemoryProofs` | theorems about `Memory` | `Memory` |
| `PrivateMemoryProofs` | the refinement of `PrivateMemory` | `MemoryProofs`, `MCMemory` |
| `Cpu` | registers, flags, encoding, decoding, all handlers | |
| `CpuProofs` | theorems about types, flags and jumps, and that source text, encoding, decoding and handler agree | `Cpu` |
| `Lexer` | the lexer's cursor, lookahead, mark and restore | |
| `Assembly` | what a program means, statement by statement: the reference for the assembler | |
| `Assembler` | the parser's two passes and its shared tables | `Lexer`, `Assembly` |
| `SourceText` | which tokens write down which program: ties the reference to the text the parser reads | `Assembler` |
| `AssemblerProofs` | theorems about cursor and tables, for any text | `Assembler` |
| `AssemblyProofs` | what `parse` returns is the assembly of its program | `AssemblerProofs`, `SourceText` |
| `MCVirtualOS`, `MCExternalStop`, `MCMemory`, `MCCpu`, `MCAssembler` | instances for TLC; `MCVirtualOS` and `MCMemory` also have the refinement mappings to `RoundRobin` and `PrivateMemory` | |

A definition whose comment says `mutant` is a plausible mistake in the
definition that follows it. It is used by no specification: substituted for that
definition it breaks a property, which shows that the property depends on it.

### VirtualOS and the code

An instruction is reduced to what it does to scheduling: its kind, one of
`Continue`, `Halt`, `Exit`, `Error`, `Yield`, `Load` and `Throw`. `cpc[c]` is the
place of core `c` in `coreLoop` and the functions it calls, `held[c]` its local
variable `process`, `mpc` the place of the owner thread.

A step is atomic when the code holds one mutex for all of it or touches only data
of its own thread. Where the code reads or writes shared data without the mutex
the model has a separate step:

* `acquireProcess`: testing the predicate of `cv_.wait` (`AcquireWait`) and going to
  sleep (`AcquireBlock`) are two steps. The core holds `mutex_` in between
  (`MutexFree`), but `PreemptiveScheduler::stop` takes no mutex;
* the end of a process: the handler sets `halted_` (`ExecEnd`), `coreLoop` the state
  (`StoreHalted`), and `releaseProcess` tests the state (`ReleaseProcess`), perhaps sets it
  to Ready (`ReleaseReady`) and only then makes the call that takes the mutex
  (`ReleasePreempt`, `ReleaseNotify`). `halted_`, the yield flag and the slice of a process
  are used by the core that executes it only, so an access to them belongs to the step
  next to it;
* the load call is seven steps, among them the read and the write of
  `nextProcessId_++` and, after `emplace` has published the process, another store
  of `Ready`;
* `run()` starts, stops and joins the cores one by one; `stop()` of the scheduler is
  a store and a notification.

`pickNextProcess` is one action per outcome: `AcquireQueued` drops stale entries and
takes the first live one, `AcquireRoundRobin` is the scan of the table when all
were stale, `AcquireNothing` finds nothing. `notifyProcessReady` is `EnqueueReady`
with `Woken`. An exception on a core thread sets `crashed`, after which nothing
happens; on the owner thread it goes to the client and the machine goes on: a load that
throws behind `allocateRegion`, because its data or code does not fit, has taken its region
for good (`MainLoadFails`, `MainStepLoadFails`). The condition variables may wake
spuriously. Where load calls make two cores execute one process (`load_race`), its flags and
slice are not followed more finely than this.

`RoundRobin` knows no threads, locks, ids or stale entries: one line of Ready
processes, a fixed number of turns at once, `Quantum` instructions a turn. The mapping
in `MCVirtualOS` takes `life` from the states of the PCBs, `left` from their slices, `on`
from the place of the owner thread, and the line from the ready queue, to which
a process belongs from the moment it is Ready even if the thread that made it so has
yet to take the scheduler's mutex.

### ExternalStop and the code

The owner's thread is that of `VirtualOS`, refined where the two threads meet: `osRunning`
is `running_`, `starting` the rest of the loop that starts the cores, `entered` the time
between the test of `running_` in `stop()` and its store. The second thread calls `stop()`
once, at any time: `StopEnter` is the test, `StopScheduler` the stores, `StopNotify`,
`StopCore`, `StopJoin` and `StopReturn` the rest of the function, one core at a time.
`OwnerStart` clears the stop flag of its core even if `stop()` has just set it, as
`VirtualCpuCore::start` does; a core that has been stopped and not joined yet is not started
(`OwnerStartReturns`), which a second `run()` can meet. If both threads join the same core (`DoubleJoin`) the
behaviour is undefined; the model ends there, as the program does when the library
throws `system_error`. The other effects of a race on the `std::thread` object itself
are left out.

### Memory and the code

Physical memory is a function from addresses to bytes, a word the tuple of its
bytes. Loading is one step per access: `AllocateRegion`, `LoadData`,
`LoadCodeWord`, then `CreateProcess`; loads and running processes interleave between
any two of them. A load whose write is out of range stops half way (`failed`) and
leaves its region taken. A bad data offset ends the machine (`DataTrap`), a bad
push or pop only the process (`PushFails`, `PopFails`), as in the handlers. The guest
picks offsets and values freely.

A fetch reads the word at `FetchAddress`, the base of the code plus the program counter,
cut to 32 bits (`AddressModulus`). It is compared with the end of memory and not with
the end of the code: `Fetched` is whatever lies there, and `FetchTrap` is the exception
beyond the end. `CodeIntact` says that for a program counter inside the code the word
fetched is the word that was assembled. `print` and `scan` are a load and a store; the
path of the `load` call is read byte by byte until a zero (`ByteReadable`), and a path
that runs off the data segment ends the machine (`PathTrap`).

### Cpu and the code

`Source` is the set of instructions the guest's text contains. `Assemble` chooses the
fields as `Parser::parseInstruction` does and packs them as `encodeInstruction`
does; `DecodeInstruction` unpacks and sign-extends; `Execute` is the handler. Words
are numbers modulo `2^Bits`. What memory delivers is left open, since that is the
subject of `Memory`; which access or system call an instruction makes, and with what, is
`Request`. The history variable `compared` remembers which numbers the
last subtraction compared, for the properties only.

`Meaning` is the other reading of an instruction, from its source text: what each of the 28
does to its register and to the others, to the flags, to the program counter and to the
process, what it asks of memory or of the system, and how it may fail. `SourceFaithful` says
that assembler, encoding, decoder and handler together do that.

### Assembler and the code

A source text is the sequence of its tokens, and a character that `readToken` refuses is
a token of type `Bad`; the end of the file is no part of
the text but is read behind it. `Lexer` keeps `position`, `line` and the lookahead with its own
position and line; `Restore` puts back the position and drops the lookahead but does
not touch the line, as in the code. `Assembler` takes one statement per step. `Forms` is
the grammar of `parseInstruction`, `Legal` its checks, split between the passes as in the
code: symbols are looked up in both, labels and system calls when emitting. `Begin` is
`parse` up to the first statement, `EndFirstPass` and `BuildImage` what lies between the
loops, `Reject` any exception, which leaves the tables as they are. An emitted
instruction is the record that `Cpu` encodes.

The tables are variables of the object and not of a caller, because `VirtualOS` has one
`Assembler` for all threads. A statement is one step although the tables are not
protected; the model thus leaves out only damage inside the containers.

`Assembly` defines what the text means without passes or tables: the address of an
instruction is the number of instructions above it, and so on. It fixes what the
code decides where the language is silent: of several labels of one name the nearest
above counts, else the last; of several symbols the first.

Numbers, labels and offsets are cut to two bytes (`Cut`) in this reference, as
`parseNumberToken` does; the documentation gives data items up to eight.

A member of `Sources` is a program in the sense of `Assembly`, its text, and where in the
text each statement starts (`start`, which no code looks at). `SourceText` says when a text
is a program written down: every statement by its tokens (`Written`), newlines in between,
and anything the language does not have is a statement of its own, `junk`, at which the
parser must throw. Its `Grammar` is not that of the parser but the one of `ISA.md` and the
programs under `examples/`: a system call may stand without argument, and only `mov`, `load`,
`store` and `call` take a data symbol. Where these leave it open (`nop`, a number as
address) it follows the parser. `SourceAssumption` demands this of all of `Sources`; TLC evaluates it on
every text of `MCAssembler`. Junk need not be refused at once: what looks like an instruction,
such as a system call that does not exist or an `add` with a data symbol, passes the first time and is refused when
emitting.

## Runs

| Run | Instance | What it shows |
|---|---|---|
| `schedule` | 2 cores, 4 processes, slices of 2, two `run()`, no load calls | `Exclusive`, `Ownership`: a process is on one core, which owns its life cycle. `RunningIsHeld`: no process is left Running without a core. `QueueExact`: the queue holds each Ready process once and nothing else. `NoSleepOnWork`, `ShutdownPending`, `StopOnlyWhenHalted`: no wake-up for work or shutdown is missed. `SliceBound`: no instruction on an empty slice. `HaltedIsFinal`. `ImplementsRoundRobin`: seen from outside, the processes take turns in one line |
| `load_calls` | 2 cores, 3 processes, slices of 1, all kinds, client steps | what survives load calls: `NoSleepOnWork`, `ShutdownPending`, `ReadyReachable` (a Ready process is queued or about to be, unless it shares its id), `NoNullProcess`. `RegionsAccounted`: every process and every load call in progress has a region of its own. `RegionsKept`: regions are lost only to loads of the owner that fail behind `allocateRegion` |
| `progress` | 2 cores, 2 processes, slices of 1, two `run()`, one `stop()` of a second thread at any time, fair | `StopStrands`: a process is left Running without a core only by a core that has obeyed a stop request, one each; the queue stays exact and no process is on two cores. `StopFreezes`: nothing moves after `stop()` has returned. `ReadyGetsRunUnlessStopped`, `ShutdownSeenByOne`: progress until the scheduler is stopped |
| `memory_fit` | 2 processes, programs that fill their regions exactly | `Separated`, `StackPointerInSegment`, `CodeIntact`, `NoInterference`, and `ImplementsPrivateMemory`: the shared memory implements private memories |
| `memory_long` | programs longer than their regions | `RegionsDisjoint` and `StackPointerInSegment` hold even then |
| `instructions` | 3-bit words, 2-bit immediates, 4 registers | `FlagsTell`, `JumpsCompare`; `SourceFaithful`: each of the 28 instructions means what its text says |
| `assembler` | one thread, two parses in a row of any of 42 texts, fair | `AssemblesSource`: the second parse is not disturbed by what the first one left, also if that was rejected. `PassesAgree`: the passes give a label the same address. `LexerExact`: the lookahead and the line belong to the position. `ParseEnds` |

Deadlock is not checked: the client may stop calling, a process may end in an
error, and an exception ends everything.

Five more runs end in a counterexample, each to a statement of the repository's
documentation (quoted in `PROJECT.json`):

| Run | Behaviour of the code |
|---|---|
| `lost_wakeup` | `PreemptiveScheduler::stop` stores and notifies without the mutex. If that falls between a core's test and its sleep, the core sleeps for ever and `run()` hangs in `join()`. |
| `load_race` | `loadProgramFromSource` stores `Ready` into a process that other cores can already see. If one is running it, it is queued again and runs on two cores. |
| `second_run` | nothing sets the scheduler's running flag again: the cores of a second `run()` never get a process. |
| `shared_assembler` | two cores that execute `load` at once share one `Assembler`: each clears and fills the tables the other one is using, and a program is assembled with a label of the other. |
| `bare_call` | `call yield` (`ISA.md:57`, `examples/multi_task.asm:13`) is rejected, since the parser demands an argument of every system call. |

Other deviations that were noticed and have no run:

* `stepProcess` leaves a process that executes `HALT` in state Running;
* `createProcess` sets `SP` one word below the top of the stack, so that one `pop`
  succeeds without a push (`PrivateMemory` models the stack as it is);
* `takeJump` ignores the overflow flag (`JumpsCompare` therefore speaks of exact
  differences only);
* no check compares a program's segments with the size of its region: the data or stack of
  a long program lies in the region of the next process, although there is one region per
  process (`ARCHITECTURE.md:68`). `Separated`, `CodeIntact`, `NoInterference` and
  `ImplementsPrivateMemory` hold only of programs that fit;
* the number of `r15` in the field `rs2` marks an immediate, so that `mov r1, r15` sets `r1`
  to 0, although `r15` is a general register (`ISA.md:16`); labels are sign-extended like
  numbers, so that a jump to 2048 or beyond goes to a negative address, although addresses
  reach up to 4095 (`ARCHITECTURE.md:67`). `SourceFaithful` excludes both (`Plain`);
* the value of a data item is cut to 16 bits before it is extended to the size of the item,
  although `WORD` has 4 and `QWORD` 8 bytes (`ISA.md:30`);
* comments with `;` (`ISA.md:50`) are refused, and so is `nop` alone, of which the documents
  do not speak: the parser wants two operands;
* labels and symbols may be defined twice; a data symbol must be defined above its use, a
  label need not;
* after a `stop()` from outside, `run()` goes on waiting if a process has not halted
  (hence `ShutdownSeenByOne` has `Done` as hypothesis); a `stop()` that overtakes the loop
  that starts the cores may wait in `join()` for a core whose stop flag was cleared again.

### Bounds

* Four processes on two cores (three with load calls): two wait, so preemption,
  queueing and idling overlap and the order in the line is visible; a third core
  would only add idlers. A slice of 2 tells
  "used some" from "used up". Two calls of `run()` reach what the first one leaves
  behind. `MaxProcs` plays the part of the number of regions in memory.
  `progress` has two processes and slices of 1, because temporal properties cost more; what
  matters there is where the two threads are in `stop()` and `run()`, and the second `run()`
  can overtake a `stop()` that began in the first.
* Memory: words of two bytes and a data segment of odd length, so that words
  straddle and the stack starts at an odd address; two words of stack reach both
  ends; one stored value that differs from 0 in both bytes. Offsets go up to 2, one past
  the last legal one. `AddressModulus` is larger than the memory, as 2^32 is, and
  program counters range over all of it; `MaxPath` bounds the bytes of a path. The
  processes are interchangeable, hence `ProcSymmetry`; no property names one of them.
* Cpu: words of three bits have every order of two numbers, with and without overflow and
  carry, and every bit of `and`, `or`, `xor` and `not`; the range of an argument
  (`ArgModulus`) is narrower than the word, as in the code; the immediate is narrower than the word, as in the code, so that sign
  extension matters; the last register is the marker. `PlainSource` has every instruction
  with operands the encoding can hold. Programs compute in `r1` and
  `r2`, whose numbers differ from that of an empty field.
* Assembler: bytes of eight values, so that numbers are cut to -32..31 and data of every
  type has several bytes; four registers. The texts have forward and backward jumps,
  every form of operand, alternating sections, double definitions, names that only
  another text defines, and one text per way to be refused; with no, one or two newlines
  after a statement. `MaxParses` is 2: what a parse can leave behind for the next one is in
  the tables, and `parse` clears them all.

### Fairness

`progress` assumes weak fairness of the owner thread while it is inside a call and
strong fairness of each core. The threads are `std::thread`s of a preemptive
operating system, so a thread that can run does run. Strong fairness is needed
because the mutex is taken again and again by other threads: it says that a thread
that keeps asking for it gets it eventually. `std::mutex` does not promise this in
writing, but implementations do not starve a waiter for ever, and without it nothing can
be said about any program that uses one. The client's calls and the spurious
wake-ups have no fairness: nothing may depend on them. The second thread is weakly fair
once it is inside `stop()`; nobody has to call it. `assembler` assumes that a thread
inside `parse` keeps running.

## Proofs

TLAPS proves the following for every value of the constants that satisfies the
named assumptions (`ConstantsAssumption`, `MemoryAssumption`, `CpuAssumption`,
`AssemblyAssumption`, `AssemblerAssumption`, `SourceAssumption`): any finite number of cores, any number of
processes and programs, any slice, any sizes, any width, any texts.

Two hypotheses on the use of the machine recur. *No load calls* (`"Load" \notin Kinds`):
no guest uses the `load` call. *No client steps* (`~ClientSteps`): the owner does not call
`stepProcess`. They are needed: with load calls `Exclusive` fails, and with it all that
rests on it (`load_race`), and `stepProcess` sets any process Running without a core.
*Fitting* (`Fits`): every program's segments fit a region, which the loader does not
check.

`VirtualOSProofs`

* `TypeCorrect`, `TypesHold`: types, `RegionsAccounted` and `NoNullProcess`. None is
  inductive alone: `emplace` stays inside the table only because every load in progress
  owns a region, next to those of the processes and those that failed loads have lost, and core steps keep the types only because the
  process they touch exists. `NeverNull`: a core past `acquireProcess`, also in the middle
  of a load call, holds a process.
* `LosesNoRegion`: `RegionsKept`. Regions minus processes and loads in progress change only
  when a load of the owner fails behind `allocateRegion`, or the program ends.
* `NoSleep`: every push to the queue happens while the mutex is free, so that no core is
  between its test and its sleep, and wakes those that sleep already.
* `ShutdownNeverMissed`: a step that makes `allHalted` true puts its core on the way to
  `notifyPossibleShutdown`, which tests under the mutex `run()` sleeps with.
* `ReadyNeverLost`, load calls included: a Ready process is queued, or some thread is on
  its way to `notifyProcessReady`, or it shares its id. `notifyProcessReady` queues, for
  every id, the first process in the table that has it (`find`), so the proof needs the
  least position with a given id (`LeastOf`, from the well-foundedness of `<`).
* `ExclusiveCores`, `CoresOwnProcesses` (no load calls): the inductive invariant is
  `Exclusive`, `Ownership` and `HaltMarked`. `pickNextProcess` hands out Ready processes
  only, held processes are Running or Halted, so nobody holds what is handed out.
  `HaltMarked` is needed because `releaseProcess` stores `Ready` without the mutex into a
  process that is not Halted: no process that a core gives up for good may be in that
  case. `Ownership` is split into what a core knows (`OwnsCycle`) and what the owner knows
  (`OutsideRun`), because a second client thread breaks only the latter.
* `StopsWhenHalted` (no load calls) and `HaltedForGood` (no load calls, no client
  steps) follow from ownership: only the core that holds a process changes it, and it
  does not touch a Halted one.

`ScheduleProofs` (all without load calls). Most steps touch neither queue, nor slices, nor
what is held (`Quiet`); `LoudOrQuiet` says so once, and the proofs treat the others.

* `SlicesLast`: `SliceBound` strengthened by `SliceKept`, which also covers the loop head,
  where `coreLoop` tests the slice.
* `TableInOrder`: ids are positions, the table has no holes.
* `RunningAlwaysHeld` (no client steps): a Running process is let go only by `onPreempt`,
  which makes it Ready, and by the loop head of a core that is being stopped. The second
  case needs `StopFlagFresh` (a core sees its stop flag only while `run()` is
  stopping) and `StopOnlyWhenHalted`: nothing is Running then.
* `QueueAlwaysExact` (no client steps): `QueueOfReady` is the inductive form. Outside
  `loadProgram` there is nothing to queue when a core notifies, so `EnqueueReady`, which
  may append any number of processes, appends none, and in `loadProgram` exactly one.
* `RefinesRoundRobin` (no client steps): every step of the machine is a step of
  `RoundRobin` or changes nothing of its state. The mapping needs all the invariants
  above: a dispatched process is the head of the line because the queue is exact, and a
  turn is free because the processes in turns are those the cores hold.

`ExternalStopProofs` (no client steps). Every step of `ExternalStop` is a step of
`VirtualOS`, to which the lemmas above apply, or a step of `stop()` or `run()` that touches
no process, no queue and nothing a core holds (`StepOrSide`).

* `GuestsFreeze`, load calls included: `AtRest` follows the second thread: once it has
  stored the running flag `pickNextProcess` hands out nothing, a core it joins holds
  nothing, and a core without a process gets none, even one that `run()` starts later.
* `NothingStranded` (no load calls): `StopStrands`. A core lets go of a Running process only
  at the loop head, when it sees its stop flag, and it is then among `StoppedCores`. Such a
  core leaves that set when a later `run()` starts it; the process would then be stranded
  with no core to account for it. `OnlyFirstRun` excludes this: a core gets a process only in
  the first run, and nothing is Running between two runs or on a core that a run has still
  to start, because `run()` goes on waiting as long as something has not halted.

`MemoryProofs`

* `MemoryInvariant`, `TypesHold`: types, `RegionsDisjoint`, `StackPointerInSegment`. The
  inductive invariant adds that a layout matches its program and that all regions lie
  below `nextFreeAddress`.
* `StackContained`: for every program, fitting or not, the stack pointer stays in the
  stack segment of its process.
* `SegmentsSeparated`, `NoInterferenceHolds`, `CodeNeverOverwritten` (fitting): footprints
  lie in disjoint regions; every step writes inside the data, stack or unloaded code of
  its own process; so the words of code written so far (`CodeLoaded`) stay.
  `CodeNeverOverwritten` is about what is fetched: an address inside the code lies below
  the end of memory, so that the cut to 32 bits leaves it alone (`FetchAgrees`).

`PrivateMemoryProofs` (fitting)

* `FreshAndAligned`: memory not handed out is zero, hence so is the stack segment of a
  process that is being loaded; its data segment holds its image; stack pointers
  are whole words below the top.
* `RefinesPrivateMemory`: a step of one process is a step of its private memory and leaves
  those of the others as they are. The private stack is the words between the stack
  pointer and the top: a push prepends a word, a pop drops one, a store to the data
  segment changes neither.

`CpuProofs`

* `TypesHold`: registers, program counter and flags keep their widths.
* `FlagsAreRight`: after a subtraction `ZF`, `CF`, `OF` and `SF xor OF` are equality,
  unsigned order, inexactness and signed order of the operands.
* `JumpsCompareRight`: a conditional jump after an exact comparison is taken exactly
  when its relation holds.
* `SourceAlwaysMeant`: an instruction with encodable operands does what its text says
  (`Meaning`, which covers every instruction: its result, the registers it must leave alone,
  flags, program counter, end of the process, access to memory or system call, and failure).
  It rests on the
  round trip through encoding and decoding (`EncodeRoundTrip`: every field comes back,
  immediates with their sign) for any number of registers and any width of the
  immediate field.

`AssemblerProofs`

* `CursorsExact`: for any text the lookahead and the line belong to the cursor
  (`CursorExact`), at the end of every statement of every parse. Reading, peeking,
  matching, restoring and skipping newlines each keep this; that skipping stops at the
  first token that is no newline needs `LeastOf` again.
* `TypesHold`: the shared tables and every parse keep their types, for any number of
  threads. It rests on `CursorsExact`: a token that comes from the lookahead is a token of
  the text only because it is not stale.

`AssemblyProofs`, for programs of any length and any layout of their texts

The hypothesis is `OneAtATime`: no two threads are inside `parse` together. It is needed,
`shared_assembler` shows what happens otherwise, and it holds of a machine whose guests do
not load, where only the owner's thread assembles (`OneThreadAssembles`), and would hold of
any machine with a lock around the assembler. `AssemblyCorrect` and `OneThreadAssembles` also
assume that no program has a system call without argument (`CallsGiven`); `bare_call` shows
why.

* `AssemblyCorrect`: `AssemblesSource`. The invariant (`Progress`) says for some statement
  `i` that the lexer stands before it and that the tables are what the statements above
  make them: the section is `SectionOf` `i`; the code address is the number of
  instructions above (`Slot`, which also counts junk that passes for an instruction in
  the first pass); the symbols are the data read so far in their order, with offsets that
  leave no gap (`SymbolsKnown`); a label has the address of the definition that counts at `i`
  (`LabelsKnown`); what was read was in its right section (`Placed`); what was emitted is
  what the statements stand for (`Emitted`). `LabelsKnown` is the delicate part: the second
  pass enters every label again, so that the value of a label with several definitions
  changes while operands are being resolved; at the end of the first pass it is the last
  definition and at the start of the second one, too (`LabelDefEnds`).
  The steps rest on lemmas about the text (what the parser accepts at `i` is what is
  written there, `KindSeen`; there is no choice of operands, `OneForm`; one step leads to the
  next statement, `NextStatement`), about the reference (`CountStep`, `OffsetOrder`,
  `LabelDefStep`) and about numbers: the bytes that `BuildImage` writes stand for the value
  they were cut from (`ValueOfBytes`), and each byte of the image belongs to one symbol
  (`SymbolOfByte`).
* `PassesAgreed`: `PassesAgree`, from the same invariant and without `CallsGiven`: of a label with one definition
  the definition that counts at `i` is always the same.

Only model-checked: the liveness properties, `ReadyGetsRunUnlessStopped` and
`ShutdownSeenByOne` of `progress` and `ParseEnds` of `assembler`. Fairness and `ENABLED` are
beyond the prover. Of the properties that runs refute, `Exclusive` and `AssemblesSource` are proved under the hypotheses that those runs break; `RunReturns` and
`ReadyGetsRun` are liveness properties.

## Not modelled

* The reallocation of the table's vectors while other threads read them, and races
  inside the containers of the assembler: undefined behaviour of the library;
  `emplace` and a statement are one step here.
* How characters become tokens: `Lexer` starts from tokens. A token that cannot be
  formed is `Bad`.
* The text of `print`, `scan`, traces and error messages, the names of opcodes in
  output and the parsing of command lines: input and output without state.
* Fetch, decode and execute in one module: `Memory` shows which word is fetched, `Cpu` what
  it does, and `VirtualOS` what that means for scheduling. The interfaces are the
  instruction word, its record and its kind.

## Plan

1. Done: `VirtualOS`, `Memory`, `Cpu`, their runs and first theorems.
2. Done: instruction fetch in `Memory`, the `Assembler`, the second client thread, the
   refinement of `RoundRobin`.
3. Done: proofs of the schedule and its refinement, of the second client thread, of the
   private memories, of the encoding and of the lexer.
4. Done: proof that the assembler assembles (`SourceText`, `AssemblyProofs`).
5. Open: a module that composes `Cpu` and `Memory` into fetch, decode and execute on real
   programs.
