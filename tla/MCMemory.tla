------------------------------ MODULE MCMemory ------------------------------
(***************************************************************************)
(* Instances of Memory for TLC, and the refinement of PrivateMemory.       *)
(* Words have two bytes and stacks two words, so that a data segment can   *)
(* have an odd length and the stack then starts at an odd address.         *)
(***************************************************************************)
EXTENDS Memory, TLC

\* The processes are interchangeable.
ProcSymmetry == Permutations(Procs)

\* Every byte of a word is told apart from the zeroes memory starts with.
OneValue == {<<1, 2>>}

\* Programs whose segments fill a region of 9 bytes.
FittingPrograms ==
    {[code |-> <<<<2, 2>>>>, data |-> <<1, 0, 0>>],
     [code |-> <<<<2, 2>>, <<1, 1>>>>, data |-> <<0>>]}

\* Programs whose segments outgrow a region of 8 bytes: by the stack, by the
\* code, by the data.
LongPrograms ==
    {[code |-> <<<<2, 2>>, <<2, 2>>, <<2, 2>>>>, data |-> <<>>],
     [code |-> <<<<2, 2>>, <<2, 2>>, <<2, 2>>, <<2, 2>>, <<2, 2>>>>,
      data |-> <<>>],
     [code |-> <<<<2, 2>>>>, data |-> <<1, 1, 1, 1, 1, 1, 1, 1>>],
     [code |-> <<>>, data |-> <<1, 0>>]}

\* The private view of process p: the bytes of its data segment, and the
\* words between the stack pointer and the top of its stack segment.
PrivateStatus == [p \in Procs |-> IF p \in Created THEN status[p] ELSE "new"]

PrivateData ==
    [p \in Procs |->
        IF p \in Created
        THEN [o \in 1..layout[p].dataSize |->
                memory[DataAddress(layout[p]) + o - 1]]
        ELSE <<>>]

PrivateStack ==
    [p \in Procs |->
        IF p \in Created
        THEN [i \in 1..(StackTop(layout[p]) - sp[p]) \div WordSize |->
                WordAt(StackTop(layout[p]) - i * WordSize)]
        ELSE <<>>]

Private == INSTANCE PrivateMemory WITH
    Depth <- StackSize \div WordSize,
    DataImages <- {prog.data : prog \in Programs},
    status <- PrivateStatus, data <- PrivateData, stack <- PrivateStack

\* Every behaviour of the shared memory is one of private memories: what a
\* process reads back from its data segment and its stack is what it wrote,
\* and a push or pop fails only when the stack is full or empty.
ImplementsPrivateMemory == Private!Spec
=============================================================================
