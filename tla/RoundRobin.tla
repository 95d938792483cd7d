----------------------------- MODULE RoundRobin -----------------------------
(***************************************************************************)
(* What the scheduler promises, without threads, locks, ids or stale       *)
(* entries: processes wait in one line, take turns of at most Quantum      *)
(* instructions on one of a number of cores, and join the end of the line  *)
(* again.                                                                  *)
(***************************************************************************)
EXTENDS Naturals, Sequences, FiniteSets

CONSTANTS
    Procs,      \* processes that may be loaded
    CoreCount,  \* how many of them can have a turn at once
    Quantum     \* instructions in a turn

VARIABLES
    life,       \* life[p]: "Absent", "Ready", "Running" or "Halted"
    left,       \* left[p]: instructions left of its turn
    line,       \* the Ready processes, in the order they became so
    on          \* is the machine running?

vars == <<life, left, line, on>>

Init ==
    /\ life = [p \in Procs |-> "Absent"] /\ left = [p \in Procs |-> 0]
    /\ line = <<>> /\ on = FALSE

Load(p) ==
    /\ ~on /\ life[p] = "Absent"
    /\ life' = [life EXCEPT ![p] = "Ready"]
    /\ left' = [left EXCEPT ![p] = Quantum]
    /\ line' = Append(line, p)
    /\ UNCHANGED on

Start ==
    /\ ~on /\ on' = TRUE
    /\ UNCHANGED <<life, left, line>>

Dispatch(p) ==
    /\ on /\ line # <<>> /\ p = Head(line)
    /\ Cardinality({q \in Procs : life[q] = "Running"}) < CoreCount
    /\ life' = [life EXCEPT ![p] = "Running"]
    /\ left' = [left EXCEPT ![p] = Quantum]
    /\ line' = Tail(line)
    /\ UNCHANGED on

Execute(p) ==
    /\ life[p] = "Running" /\ left[p] > 0
    /\ left' = [left EXCEPT ![p] = @ - 1]
    /\ UNCHANGED <<life, line, on>>

\* The turn is used up, or given up by a yield.
EndTurn(p) ==
    /\ life[p] = "Running"
    /\ life' = [life EXCEPT ![p] = "Ready"]
    /\ line' = Append(line, p)
    /\ UNCHANGED <<left, on>>

\* Its program is over: HALT was charged to the turn, the exit call is not.
Halt(p) ==
    /\ life[p] = "Running"
    /\ life' = [life EXCEPT ![p] = "Halted"]
    /\ UNCHANGED <<left, line, on>>

Finish ==
    /\ on /\ \A p \in Procs : life[p] \in {"Absent", "Halted"}
    /\ on' = FALSE
    /\ UNCHANGED <<life, left, line>>

Next ==
    \/ Start \/ Finish
    \/ \E p \in Procs :
        Load(p) \/ Dispatch(p) \/ Execute(p) \/ EndTurn(p) \/ Halt(p)

Spec == Init /\ [][Next]_vars
=============================================================================
