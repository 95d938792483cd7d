---------------------------- MODULE ExternalStop ----------------------------
(***************************************************************************)
(* VirtualOS with a second client thread that calls stop() once, at any    *)
(* time, while the owner thread may be anywhere in run().  VirtualOS::stop *)
(* is the same code for both threads: running_, a plain bool, decides who  *)
(* executes it, and test and store of it are two steps.                    *)
(***************************************************************************)
EXTENDS VirtualOS

VARIABLES
    osRunning,  \* running_ of VirtualOS
    starting,   \* cores the loop of run() has not started yet
    entered,    \* has the owner passed the test of running_ in stop()?
    spc,        \* where the second thread is
    todo        \* cores its present loop has not visited yet

stopVars == <<osRunning, starting, entered, spc, todo>>
allVars == <<vars, stopVars>>

StopPCs == {"away", "store", "notify", "cores", "join", "returned"}

StopInit ==
    /\ Init
    /\ osRunning = FALSE /\ starting = {} /\ entered = FALSE
    /\ spc = "away" /\ todo = {}

-----------------------------------------------------------------------------
(* The owner thread, where running_ or the loop over the cores matters. *)

OwnerRun ==
    /\ ~crashed /\ MainRun
    /\ ~osRunning /\ osRunning' = TRUE
    /\ starting' = Cores
    /\ UNCHANGED <<entered, spc, todo>>

\* core->start() resets stopRequested_, even if stop() has just set it.
OwnerStart(c) ==
    /\ ~crashed /\ c \in starting /\ MainStart(c)
    /\ starting' = starting \ {c}
    /\ UNCHANGED <<osRunning, entered, spc, todo>>

\* core->start() does nothing for a core whose running_ is still TRUE: it was
\* stopped, and the other thread has not joined it yet.
OwnerStartReturns(c) ==
    /\ ~crashed /\ mpc = "start" /\ c \in starting /\ cpc[c] # "off"
    /\ starting' = starting \ {c}
    /\ UNCHANGED <<vars, osRunning, entered, spc, todo>>

OwnerStarted ==
    /\ ~crashed /\ mpc = "start" /\ starting = {}
    /\ mpc' = "check"
    /\ UNCHANGED <<tableVars, pcbVars, schedVars, coreVars, loadVars, runs,
                   crashed, stopVars>>

\* stop() at the end of run(): if the other thread was faster, run() returns.
OwnerEnter ==
    /\ ~crashed /\ mpc = "stop" /\ ~entered
    /\ entered' = osRunning
    /\ mpc' = IF osRunning THEN "stop" ELSE "idle"
    /\ UNCHANGED <<tableVars, pcbVars, schedVars, coreVars, loadVars, runs,
                   crashed, osRunning, starting, spc, todo>>

OwnerStop ==
    /\ ~crashed /\ entered /\ MainStopScheduler
    /\ osRunning' = FALSE /\ entered' = FALSE
    /\ UNCHANGED <<starting, spc, todo>>

OwnerOther ==
    /\ ~crashed
    /\ \/ MainLoadNotify \/ MainCheck \/ MainStopNotify \/ MainStopped
       \/ MainReturn \/ \E c \in Cores : MainStopCore(c) \/ MainJoin(c)
    /\ UNCHANGED stopVars

-----------------------------------------------------------------------------
(* The second thread in stop(). *)

\* It passes the test of running_; otherwise stop() does nothing.
StopEnter ==
    /\ ~crashed /\ spc = "away" /\ osRunning
    /\ spc' = "store"
    /\ UNCHANGED <<vars, osRunning, starting, entered, todo>>

\* running_ = false, and the store of the scheduler's stop()
StopScheduler ==
    /\ ~crashed /\ spc = "store"
    /\ osRunning' = FALSE /\ schedRunning' = FALSE
    /\ spc' = "notify"
    /\ UNCHANGED <<tableVars, pcbVars, readyQueue, roundRobinIndex, coreVars,
                   loadVars, mainVars, crashed, starting, entered, todo>>

StopNotify ==
    /\ ~crashed /\ spc = "notify"
    /\ cpc' = Woken
    /\ spc' = "cores" /\ todo' = Cores
    /\ UNCHANGED <<tableVars, pcbVars, schedVars, held, stopRequested, loadVars,
                   mainVars, crashed, osRunning, starting, entered>>

StopCore(c) ==
    /\ ~crashed /\ spc = "cores" /\ c \in todo
    /\ stopRequested' = [stopRequested EXCEPT ![c] = TRUE]
    /\ todo' = todo \ {c}
    /\ UNCHANGED <<tableVars, pcbVars, schedVars, cpc, held, loadVars, mainVars,
                   crashed, osRunning, starting, entered, spc>>

StopStopped ==
    /\ ~crashed /\ spc = "cores" /\ todo = {}
    /\ spc' = "join" /\ todo' = Cores
    /\ UNCHANGED <<vars, osRunning, starting, entered>>

JoinedAtOnce(c) == TRUE                                            \* mutant

\* a thread that has not been started or was joined is not joinable, and any
\* other must have left coreLoop
Joined(c) == cpc[c] \in {"off", "done"}

StopJoin(c) ==
    /\ ~crashed /\ spc = "join" /\ c \in todo /\ Joined(c)
    /\ cpc' = IF cpc[c] = "done" THEN [cpc EXCEPT ![c] = "off"] ELSE cpc
    /\ todo' = todo \ {c}
    /\ UNCHANGED <<tableVars, pcbVars, schedVars, held, stopRequested, loadVars,
                   mainVars, crashed, osRunning, starting, entered, spc>>

\* Two threads that join one std::thread: undefined, and system_error if the
\* library notices.
DoubleJoin ==
    /\ ~crashed /\ spc = "join" /\ mpc = "join"
    /\ \E c \in todo : cpc[c] # "off"
    /\ crashed' = TRUE
    /\ UNCHANGED <<tableVars, pcbVars, schedVars, coreVars, loadVars, mainVars,
                   stopVars>>

\* the final shutdownCv_.notify_all()
StopReturn ==
    /\ ~crashed /\ spc = "join" /\ todo = {}
    /\ mpc' = IF mpc = "waiting" THEN "check" ELSE mpc
    /\ spc' = "returned"
    /\ UNCHANGED <<tableVars, pcbVars, schedVars, coreVars, loadVars, runs,
                   crashed, osRunning, starting, entered, todo>>

-----------------------------------------------------------------------------

Owner ==
    \/ OwnerStarted \/ OwnerEnter \/ OwnerStop \/ OwnerOther
    \/ \E c \in Cores : OwnerStart(c) \/ OwnerStartReturns(c)

Stopper ==
    \/ StopScheduler \/ StopNotify \/ StopStopped \/ DoubleJoin \/ StopReturn
    \/ \E c \in Cores : StopCore(c) \/ StopJoin(c)

Core(c) == CoreStep(c) /\ UNCHANGED stopVars

\* Every call of the owner but run(), which is OwnerRun.
Client ==
    /\ ~crashed
    /\ \/ MainLoad \/ MainLoadFails
       \/ \E p \in InTable :
            \/ MainStepLoad(p) \/ MainStepLoadFails(p)
            \/ \E k \in Kinds : MainStep(p, k)
    /\ UNCHANGED stopVars

StopNext ==
    \/ Owner \/ Stopper \/ OwnerRun \/ StopEnter \/ Client
    \/ Spurious /\ UNCHANGED stopVars
    \/ \E c \in Cores : Core(c)

\* As in VirtualOS; a thread inside stop() keeps running, and nobody has to
\* call it.
StopSpec ==
    /\ StopInit /\ [][StopNext]_allVars
    /\ WF_allVars(Owner) /\ WF_allVars(Stopper)
    /\ \A c \in Cores : SF_allVars(Core(c))

-----------------------------------------------------------------------------
(* Properties. *)

\* When stop() has returned, the guests have come to rest: no process executes
\* another instruction or changes its state, even if stop() overtook the loop in
\* run() that starts the cores.
StopFreezes ==
    [][spc = "returned" =>
        \A p \in InTable : state'[p] = state[p] /\ slice'[p] = slice[p]]_allVars

\* Processes that are marked Running and on no core.
Stranded ==
    {p \in InTable : state[p] = "Running" /\ \A c \in Cores : held[c] # p}

\* Started cores that have obeyed a stop request.
StoppedCores ==
    {c \in Cores \ starting : stopRequested[c] /\ cpc[c] \in {"done", "off"}}

\* At whatever moment the second thread stops the machine, only a core that has
\* obeyed it leaves a process behind, and at most the one it was executing: no
\* other process is lost from the cores or the queue, queued twice or on two
\* cores, also while run() is still starting the cores or is called again.
StopStrands ==
    /\ Exclusive
    /\ QueueExact
    /\ Cardinality(Stranded) <= Cardinality(StoppedCores)

\* While run() waits, a Ready process gets a core, unless the scheduler has been
\* stopped, by stop() or by the end of an earlier run().
ReadyGetsRunUnlessStopped ==
    \A p \in Procs :
        mpc \in {"check", "waiting"} /\ state[p] = "Ready"
            ~> state[p] # "Ready" \/ ~schedRunning

\* Once everything has halted, run() notices it, and either stops the cores or
\* finds that the other thread did: a stop() in between takes no wake-up away.
ShutdownSeenByOne ==
    mpc = "waiting" /\ Done ~> mpc \in {"stop_cores", "idle"} \/ crashed
=============================================================================
