-------------------------- MODULE SchedulerClient --------------------------
(***************************************************************************)
(* SingleThreadedSchedulerClient over CScheduler: the queue that carries   *)
(* every validation notification (CMainSignals) to the wallets, indexes    *)
(* and peers.  Any number of scheduler threads run ProcessQueue tasks, yet *)
(* callbacks must run one at a time and in the order they were added, and  *)
(* none may be left behind, at shutdown neither.                           *)
(*                                                                         *)
(* A step is a critical section of m_cs_callbacks_pending or newTaskMutex, *)
(* or a callback.  Callbacks are numbered in the order they are added.     *)
(* The scheduler's other tasks, and times, are left out: ProcessQueue is   *)
(* always scheduled for now.  CScheduler::stop is called by tests only;    *)
(* Shutdown interrupts the threads and then empties the queue itself.      *)
(***************************************************************************)
EXTENDS Integers, Sequences

CONSTANTS
    Threads,        \* threads in CScheduler::serviceQueue
    Callers,        \* threads that add callbacks
    Main,           \* the thread that shuts down
    MaxCallbacks    \* bound on the callbacks that are added

ASSUME SchedulerAssumption ==
    /\ Threads \cap Callers = {}
    /\ Main \notin Threads \cup Callers
    /\ MaxCallbacks \in Nat

Processes == Threads \cup Callers \cup {Main}

VARIABLES
    m_callbacks_pending,
    m_are_callbacks_running,
    taskQueue,      \* number of ProcessQueue tasks that are scheduled
    pc,             \* where each process is
    waitsFor,       \* the callback each caller waits for, 0 if none
    added,          \* number of callbacks added
    started,        \* callbacks run so far, in order, the running one included
    finished,       \* callbacks that have ended
    interrupted     \* threadGroup.interrupt_all was called

vars == <<m_callbacks_pending, m_are_callbacks_running, taskQueue, pc,
          waitsFor, added, started, finished, interrupted>>

\* Where a process is.
\*   "idle"      a caller between two calls; the main thread before Shutdown
\*   "service"   a thread at the top of serviceQueue's loop
\*   "wait"      a thread in newTaskScheduled.wait
\*   "process"   about to lock in ProcessQueue
\*   "callback"  running a callback
\*   "ended"     the callback has ended, m_are_callbacks_running not yet reset
\*   "maybe"     about to lock in MaybeScheduleProcessQueue
\*   "schedule"  about to schedule a task
\*   "sync"      a caller in SyncWithValidationInterfaceQueue
\*   "join"      Shutdown waits for the threads
\*   "empty"     Shutdown at the loop condition of EmptyQueue
\*   "out"       a thread that has left; Shutdown is past EmptyQueue
At == {"idle", "service", "wait", "process", "callback", "ended", "maybe",
       "schedule", "sync", "join", "empty", "out"}

Init ==
    /\ m_callbacks_pending = <<>> /\ m_are_callbacks_running = FALSE
    /\ taskQueue = 0
    /\ pc = [p \in Processes |-> IF p \in Threads THEN "service" ELSE "idle"]
    /\ waitsFor = [c \in Callers |-> 0]
    /\ added = 0 /\ started = <<>> /\ finished = {}
    /\ interrupted = FALSE

\* Where a process goes on after ProcessQueue or after a call.
Resume(p) ==
    CASE p \in Threads -> "service"
      [] p \in Callers -> IF waitsFor[p] # 0 THEN "sync" ELSE "idle"
      [] OTHER -> "empty"

GoTo(p, at) == pc' = [pc EXCEPT ![p] = at]

-----------------------------------------------------------------------------
(* CScheduler::serviceQueue.                                               *)

NothingToDo == taskQueue = 0

Serve(t) ==
    /\ pc[t] = "service" /\ ~interrupted
    /\ IF NothingToDo
       THEN GoTo(t, "wait") /\ UNCHANGED taskQueue
       ELSE GoTo(t, "process") /\ taskQueue' = taskQueue - 1
    /\ UNCHANGED <<m_callbacks_pending, m_are_callbacks_running,
                   waitsFor, added, started, finished, interrupted>>

\* Waiting is an interruption point.
Interrupted(t) ==
    /\ pc[t] \in {"service", "wait"} /\ interrupted
    /\ GoTo(t, "out")
    /\ UNCHANGED <<m_callbacks_pending, m_are_callbacks_running, taskQueue,
                   waitsFor, added, started, finished, interrupted>>

Sleeping == {t \in Threads : pc[t] = "wait"}

\* The sets of threads notify_one may wake.
Notified == IF Sleeping = {} THEN {{}} ELSE {{t} : t \in Sleeping}

\* schedule: the task is inserted, and one waiting thread is notified.
Schedule(p) ==
    /\ pc[p] = "schedule"
    /\ taskQueue' = taskQueue + 1
    /\ \E woken \in Notified :
          pc' = [q \in Processes |-> IF q = p THEN Resume(p)
                                     ELSE IF q \in woken THEN "service"
                                     ELSE pc[q]]
    /\ UNCHANGED <<m_callbacks_pending, m_are_callbacks_running,
                   waitsFor, added, started, finished, interrupted>>

-----------------------------------------------------------------------------
(* SingleThreadedSchedulerClient.                                          *)

\* Slip: the flag is not looked at.
MustNotProcessEmpty == m_callbacks_pending = <<>>

MustNotProcess == m_are_callbacks_running \/ m_callbacks_pending = <<>>

MaybeScheduleProcessQueue(p) ==
    /\ pc[p] = "maybe"
    /\ GoTo(p, IF m_are_callbacks_running \/ m_callbacks_pending = <<>>
               THEN Resume(p) ELSE "schedule")
    /\ UNCHANGED <<m_callbacks_pending, m_are_callbacks_running, taskQueue,
                   waitsFor, added, started, finished, interrupted>>

\* ProcessQueue returns, or takes a callback.
ProcessQueue(p) ==
    /\ pc[p] = "process"
    /\ IF MustNotProcess
       THEN /\ GoTo(p, Resume(p))
            /\ UNCHANGED <<m_callbacks_pending, m_are_callbacks_running, started>>
       ELSE /\ m_are_callbacks_running' = TRUE
            /\ started' = Append(started, Head(m_callbacks_pending))
            /\ m_callbacks_pending' = Tail(m_callbacks_pending)
            /\ GoTo(p, "callback")
    /\ UNCHANGED <<taskQueue, waitsFor, added, finished, interrupted>>

\* The callback returns or throws.
Callback(p) ==
    /\ pc[p] = "callback"
    /\ finished' = finished \cup {started[Len(started)]}
    /\ GoTo(p, "ended")
    /\ UNCHANGED <<m_callbacks_pending, m_are_callbacks_running, taskQueue,
                   waitsFor, added, started, interrupted>>

\* Slip: nothing is scheduled after a callback.
AfterCallbackNothing(p) == Resume(p)

AfterCallback(p) == "maybe"

\* ~RAIICallbacksRunning.
CallbacksRunningReset(p) ==
    /\ pc[p] = "ended"
    /\ m_are_callbacks_running' = FALSE
    /\ GoTo(p, AfterCallback(p))
    /\ UNCHANGED <<m_callbacks_pending, taskQueue,
                   waitsFor, added, started, finished, interrupted>>

\* Slip: a callback goes to the front.
PendingAfterFront(n) == <<n>> \o m_callbacks_pending

PendingAfter(n) == Append(m_callbacks_pending, n)

\* A notification; sync: SyncWithValidationInterfaceQueue, which waits for its
\* own callback.
AddToProcessQueue(c, sync) ==
    /\ pc[c] = "idle"
    /\ added < MaxCallbacks
    /\ ~interrupted
    /\ added' = added + 1
    /\ m_callbacks_pending' = PendingAfter(added + 1)
    /\ waitsFor' = [waitsFor EXCEPT ![c] = IF sync THEN added + 1 ELSE 0]
    /\ GoTo(c, "maybe")
    /\ UNCHANGED <<m_are_callbacks_running, taskQueue, started, finished, interrupted>>

Synced(c) ==
    /\ pc[c] = "sync"
    /\ waitsFor[c] \in finished
    /\ waitsFor' = [waitsFor EXCEPT ![c] = 0]
    /\ GoTo(c, "idle")
    /\ UNCHANGED <<m_callbacks_pending, m_are_callbacks_running, taskQueue,
                   added, started, finished, interrupted>>

-----------------------------------------------------------------------------
(* Shutdown.                                                               *)

\* RPC and the network have stopped, then the threads are interrupted.
Shutdown ==
    /\ pc[Main] = "idle"
    /\ \A c \in Callers : pc[c] = "idle"
    /\ interrupted' = TRUE
    /\ GoTo(Main, "join")
    /\ UNCHANGED <<m_callbacks_pending, m_are_callbacks_running, taskQueue,
                   waitsFor, added, started, finished>>

\* When the threads are joined, FlushStateToDisk adds ChainStateFlushed.
FlushStateToDisk ==
    /\ pc[Main] = "join"
    /\ \A t \in Threads : pc[t] = "out"
    /\ added' = added + 1
    /\ m_callbacks_pending' = PendingAfter(added + 1)
    /\ GoTo(Main, "maybe")
    /\ UNCHANGED <<m_are_callbacks_running, taskQueue,
                   waitsFor, started, finished, interrupted>>

\* Slip: EmptyQueue goes by the flag.
ShouldContinueIdle == m_are_callbacks_running

ShouldContinue == m_callbacks_pending # <<>>

\* FlushBackgroundCallbacks: ProcessQueue on this thread until all is done.
EmptyQueue ==
    /\ pc[Main] = "empty"
    /\ GoTo(Main, IF ShouldContinue THEN "process" ELSE "out")
    /\ UNCHANGED <<m_callbacks_pending, m_are_callbacks_running, taskQueue,
                   waitsFor, added, started, finished, interrupted>>

Client(p) ==
    \/ MaybeScheduleProcessQueue(p) \/ Schedule(p) \/ ProcessQueue(p)
    \/ Callback(p) \/ CallbacksRunningReset(p)

Next ==
    \/ \E t \in Threads : Serve(t) \/ Interrupted(t)
    \/ \E p \in Processes : Client(p)
    \/ \E c \in Callers, sync \in BOOLEAN : AddToProcessQueue(c, sync)
    \/ \E c \in Callers : Synced(c)
    \/ Shutdown
    \/ FlushStateToDisk
    \/ EmptyQueue

\* Every thread goes on when it can, and callbacks end.
Fairness ==
    /\ \A t \in Threads : WF_vars(Serve(t) \/ Interrupted(t))
    /\ \A p \in Processes : WF_vars(Client(p))
    /\ \A c \in Callers : WF_vars(Synced(c))
    /\ WF_vars(FlushStateToDisk)
    /\ WF_vars(EmptyQueue)

Spec == Init /\ [][Next]_vars /\ Fairness

-----------------------------------------------------------------------------
(* Properties.                                                             *)

\* The types of the client's state.
TypeOK ==
    /\ m_callbacks_pending \in Seq(Nat) /\ started \in Seq(Nat)
    /\ m_are_callbacks_running \in BOOLEAN /\ interrupted \in BOOLEAN
    /\ taskQueue \in Nat /\ added \in Nat
    /\ pc \in [Processes -> At]
    /\ waitsFor \in [Callers -> Nat]
    /\ finished \subseteq Nat

Running == {p \in Processes : pc[p] \in {"callback", "ended"}}

\* "no two jobs will be executed at the same time": a process that runs a
\* callback, or has yet to reset the flag, is the only one.
CallbacksAreSerial ==
    /\ m_are_callbacks_running = (Running # {})
    /\ \A p, q \in Running : p = q

\* "callbacks can behave as if they are executed in order by a single
\* thread": they are started in the order they were added, none is lost and
\* none is run twice.
CallbacksRunInOrder == started \o m_callbacks_pending = [n \in 1..added |-> n]

\* When Shutdown drops the queue, every callback has been run to its end.
NothingIsDropped ==
    pc[Main] = "out" => m_callbacks_pending = <<>> /\ finished = 1..added

\* Every callback that is added is run to its end, and so does nobody wait
\* for ever in SyncWithValidationInterfaceQueue: no wakeup of a service thread
\* is lost, and the flag that makes MaybeScheduleProcessQueue return early is
\* never stale.
CallbacksRun ==
    \A n \in 1..(MaxCallbacks + 1) : (added >= n) ~> (n \in finished)
=============================================================================
