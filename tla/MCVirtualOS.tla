---------------------------- MODULE MCVirtualOS ----------------------------
(* Instances of VirtualOS for TLC: which instructions the guests contain;  *)
(* and the refinement of RoundRobin.                                       *)
EXTENDS VirtualOS

\* Programs that neither load other programs nor raise an exception.
PlainKinds == {"Continue", "Halt", "Exit", "Error", "Yield"}

\* The least that shows a hazard: programs that go on and end.
ShortKinds == {"Continue", "Halt"}

\* ... and load other programs.
LoadKinds == {"Continue", "Halt", "Load"}

\* The line of waiting processes: those whose ids are queued, and one that is
\* loaded and not announced yet.
SlotOf(i) == CHOOSE p \in InTable : id[p] = i

Line ==
    [i \in DOMAIN readyQueue |-> SlotOf(readyQueue[i])]
        \o (IF mpc = "load_notify" THEN <<count>> ELSE <<>>)

Turns == INSTANCE RoundRobin WITH
    CoreCount <- Cardinality(Cores), life <- state, left <- slice,
    line <- Line, on <- mpc \notin {"idle", "load_notify"}

\* Whatever cores, mutexes and notifications do, pickNextProcess and onPreempt
\* give the processes turns in the order in which they became Ready, never more
\* at once than there are cores and never longer than a slice, and run() is over
\* only when every process has halted.
ImplementsRoundRobin == Turns!Spec
=============================================================================
