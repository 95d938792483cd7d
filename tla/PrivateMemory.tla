--------------------------- MODULE PrivateMemory ---------------------------
(***************************************************************************)
(* What a guest program is promised about memory: a data segment and a     *)
(* stack of its own, which no other process can touch.  The stack starts   *)
(* with one zero word the program did not push: VirtualOS::createProcess   *)
(* sets SP one word below the top of the stack segment.                    *)
(***************************************************************************)
EXTENDS Naturals, Sequences

CONSTANTS
    Procs,      \* processes that may be loaded
    WordSize,   \* bytes in a word
    Values,     \* words programs store and push
    Depth,      \* words a stack can hold
    DataImages  \* initial data segments of the programs

VARIABLES
    status,     \* status[p]: "new", "running", or "error" once it failed
    data,       \* data[p]: the bytes of its data segment
    stack,      \* stack[p]: its stack, a sequence of words, top last
    out,        \* out[p]: the register the last load or pop filled
    crashed     \* an exception no thread catches ended the program

vars == <<status, data, stack, out, crashed>>

ZeroWord == [i \in 1..WordSize |-> 0]

Init ==
    /\ status = [p \in Procs |-> "new"]
    /\ data = [p \in Procs |-> <<>>]
    /\ stack = [p \in Procs |-> <<>>]
    /\ out = [p \in Procs |-> ZeroWord]
    /\ crashed = FALSE

Start(p) ==
    /\ status[p] = "new"
    /\ status' = [status EXCEPT ![p] = "running"]
    /\ \E image \in DataImages : data' = [data EXCEPT ![p] = image]
    /\ stack' = [stack EXCEPT ![p] = <<ZeroWord>>]
    /\ UNCHANGED <<out, crashed>>

Load(p) ==
    /\ \E o \in 0..Len(data[p]) - WordSize :
        out' = [out EXCEPT ![p] = SubSeq(data[p], o + 1, o + WordSize)]
    /\ UNCHANGED <<status, data, stack, crashed>>

Store(p) ==
    /\ \E o \in 0..Len(data[p]) - WordSize, w \in Values :
        data' = [data EXCEPT ![p] =
            SubSeq(@, 1, o) \o w \o SubSeq(@, o + WordSize + 1, Len(@))]
    /\ UNCHANGED <<status, stack, out, crashed>>

\* A load or store beyond the data segment.
Trap ==
    /\ crashed' = TRUE
    /\ UNCHANGED <<status, data, stack, out>>

Push(p) ==
    /\ Len(stack[p]) < Depth
    /\ \E w \in Values : stack' = [stack EXCEPT ![p] = Append(@, w)]
    /\ UNCHANGED <<status, data, out, crashed>>

Pop(p) ==
    /\ stack[p] # <<>>
    /\ out' = [out EXCEPT ![p] = stack[p][Len(stack[p])]]
    /\ stack' = [stack EXCEPT ![p] = SubSeq(@, 1, Len(@) - 1)]
    /\ UNCHANGED <<status, data, crashed>>

\* Overflow when the stack is full, underflow when it is empty: never sooner.
StackError(p) ==
    /\ stack[p] = <<>> \/ Len(stack[p]) = Depth
    /\ status' = [status EXCEPT ![p] = "error"]
    /\ UNCHANGED <<data, stack, out, crashed>>

Next ==
    /\ ~crashed
    /\ \E p \in Procs :
        \/ Start(p)
        \/ /\ status[p] = "running"
           /\ Load(p) \/ Store(p) \/ Trap \/ Push(p) \/ Pop(p) \/ StackError(p)

Spec == Init /\ [][Next]_vars
=============================================================================
