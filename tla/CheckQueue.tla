----------------------------- MODULE CheckQueue -----------------------------
(***************************************************************************)
(* CCheckQueue: the pool of threads that runs a block's script checks.     *)
(* The master, ConnectBlock's thread, adds checks, then joins the workers  *)
(* until all are done, and gets the verdict; the pool is reused for the    *)
(* next block.                                                             *)
(*                                                                         *)
(* A step is a critical section of m_mutex, or the execution of a batch    *)
(* outside it.  A thread that cond.wait has put to sleep is "waiting";     *)
(* a notification, or a spurious wakeup, makes it "woken", and it goes on  *)
(* when it has the mutex again.  The order of the checks does not matter   *)
(* to the code, and the queue is a set.  m_control_mutex admits one master *)
(* at a time, so there is one.                                             *)
(***************************************************************************)
EXTENDS Integers, FiniteSets

CONSTANTS
    Workers,        \* the worker threads
    Master,         \* the thread that calls Wait
    Checks,         \* the checks a block can have
    Bad,            \* the ones that return false
    nBatchSize

ASSUME CheckAssumption ==
    /\ Master \notin Workers
    /\ IsFiniteSet(Checks)
    /\ Bad \subseteq Checks
    /\ nBatchSize \in Nat \ {0}

Threads == Workers \cup {Master}

VARIABLES
    queue, nIdle, nTotal, fAllOk, nTodo, m_request_stop,
    pc,         \* "off", "locking", "waiting", "woken" or "working"
    vChecks,    \* each thread's batch; not empty: nNow is its size
    fOk,        \* each thread's result
    added,      \* checks added since the last Wait returned
    adding,     \* the master holds a CCheckQueueControl and adds checks
    result      \* the checks of the last Wait, and what it returned

vars == <<queue, nIdle, nTotal, fAllOk, nTodo, m_request_stop,
          pc, vChecks, fOk, added, adding, result>>

Init ==
    /\ queue = {} /\ nIdle = 0 /\ nTotal = 0 /\ fAllOk = TRUE /\ nTodo = 0
    /\ m_request_stop = FALSE
    /\ pc = [t \in Threads |-> "off"]
    /\ vChecks = [t \in Threads |-> {}]
    /\ fOk = [t \in Threads |-> TRUE]
    /\ added = {} /\ adding = FALSE
    /\ result = [checks |-> {}, ok |-> TRUE]

-----------------------------------------------------------------------------
(* Loop.                                                                   *)

Waiting(S) == {t \in S : pc[t] = "waiting"}

\* Slip: the last batch decides.
CleanUpLastResult(t) ==
    [todo |-> nTodo - Cardinality(vChecks[t]),
     allOk |-> IF vChecks[t] = {} THEN fAllOk ELSE fOk[t],
     total |-> IF vChecks[t] = {} THEN nTotal + 1 ELSE nTotal,
     idle |-> nIdle]

\* What a thread finds once it has the mutex and has done the clean-up of its
\* previous batch...
CleanUp(t) ==
    [todo |-> nTodo - Cardinality(vChecks[t]),
     allOk |-> fAllOk /\ (vChecks[t] = {} \/ fOk[t]),
     total |-> IF vChecks[t] = {} THEN nTotal + 1 ELSE nTotal,
     idle |-> nIdle]

\* ... or has returned from cond.wait.
Resumed(t) ==
    IF pc[t] = "locking" THEN CleanUp(t)
    ELSE [todo |-> nTodo, allOk |-> fAllOk, total |-> nTotal, idle |-> nIdle - 1]

\* Slip: the master is told when one check is left, not none.
MasterNotifiedEarly(t, now) ==
    /\ pc[t] = "locking" /\ vChecks[t] # {} /\ t # Master
    /\ now.todo = 1
    /\ pc[Master] = "waiting"

\* The thread has finished the last check and tells the master.
MasterNotified(t, now) ==
    /\ pc[t] = "locking" /\ vChecks[t] # {} /\ t # Master
    /\ now.todo = 0
    /\ pc[Master] = "waiting"

\* pc once thread t is at "at" and has notified the master if it must.
GoTo(t, now, at) ==
    [u \in Threads |-> IF u = t THEN at
                       ELSE IF u = Master /\ MasterNotified(t, now) THEN "woken"
                       ELSE pc[u]]

BatchLength(now) ==
    LET share == Cardinality(queue) \div (now.total + now.idle + 1)
        most == IF share < nBatchSize THEN share ELSE nBatchSize
    IN  IF most < 1 THEN 1 ELSE most

Locked(t) == pc[t] \in {"locking", "woken"}

TakeBatch(t) ==
    LET now == Resumed(t)
    IN  /\ Locked(t)
        /\ queue # {} /\ ~m_request_stop
        /\ \E batch \in SUBSET queue :
              /\ Cardinality(batch) = BatchLength(now)
              /\ queue' = queue \ batch
              /\ vChecks' = [vChecks EXCEPT ![t] = batch]
        /\ fOk' = [fOk EXCEPT ![t] = now.allOk]
        /\ nTodo' = now.todo /\ fAllOk' = now.allOk
        /\ nTotal' = now.total /\ nIdle' = now.idle
        /\ pc' = GoTo(t, now, "working")
        /\ UNCHANGED <<m_request_stop, added, adding, result>>

\* Slip: the master returns as soon as the queue is empty.
MasterDoneQueueEmpty(t, now) == t = Master

MasterDone(t, now) == t = Master /\ now.todo = 0

Sleep(t) ==
    LET now == Resumed(t)
    IN  /\ Locked(t)
        /\ queue = {} /\ ~m_request_stop
        /\ ~MasterDone(t, now)
        /\ nIdle' = now.idle + 1
        /\ nTodo' = now.todo /\ fAllOk' = now.allOk /\ nTotal' = now.total
        /\ vChecks' = [vChecks EXCEPT ![t] = {}]
        /\ pc' = GoTo(t, now, "waiting")
        /\ UNCHANGED <<queue, m_request_stop, fOk, added, adding, result>>

\* Wait returns; the verdict is reset for the next block.
Return(t) ==
    LET now == Resumed(t)
    IN  /\ Locked(t)
        /\ queue = {} /\ ~m_request_stop
        /\ MasterDone(t, now)
        /\ result' = [checks |-> added, ok |-> now.allOk]
        /\ nTotal' = now.total - 1 /\ fAllOk' = TRUE
        /\ nTodo' = now.todo /\ nIdle' = now.idle
        /\ vChecks' = [vChecks EXCEPT ![t] = {}]
        /\ added' = {}
        /\ pc' = GoTo(t, now, "off")
        /\ UNCHANGED <<queue, m_request_stop, fOk, adding>>

\* A worker returns because the pool is stopped.
Quit(t) ==
    LET now == Resumed(t)
    IN  /\ Locked(t)
        /\ m_request_stop
        /\ nTodo' = now.todo /\ fAllOk' = now.allOk
        /\ nTotal' = now.total /\ nIdle' = now.idle
        /\ vChecks' = [vChecks EXCEPT ![t] = {}]
        /\ pc' = GoTo(t, now, "off")
        /\ UNCHANGED <<queue, m_request_stop, fOk, added, adding, result>>

\* The batch is run, up to the first check that fails.
Execute(t) ==
    /\ pc[t] = "working"
    /\ fOk' = [fOk EXCEPT ![t] = @ /\ vChecks[t] \cap Bad = {}]
    /\ pc' = [pc EXCEPT ![t] = "locking"]
    /\ UNCHANGED <<queue, nIdle, nTotal, fAllOk, nTodo, m_request_stop,
                   vChecks, added, adding, result>>

SpuriousWakeup(t) ==
    /\ pc[t] = "waiting"
    /\ pc' = [pc EXCEPT ![t] = "woken"]
    /\ UNCHANGED <<queue, nIdle, nTotal, fAllOk, nTodo, m_request_stop,
                   vChecks, fOk, added, adding, result>>

-----------------------------------------------------------------------------
(* The callers.                                                            *)

\* ConnectBlock constructs a CCheckQueueControl.
Control ==
    /\ pc[Master] = "off" /\ ~adding /\ ~m_request_stop
    /\ adding' = TRUE
    /\ UNCHANGED <<queue, nIdle, nTotal, fAllOk, nTodo, m_request_stop,
                   pc, vChecks, fOk, added, result>>

TodoAfter(checks) == nTodo + Cardinality(checks)

\* One transaction's checks.
Add(checks) ==
    /\ adding
    /\ checks # {}
    /\ queue' = queue \cup checks
    /\ nTodo' = TodoAfter(checks)
    /\ added' = added \cup checks
    /\ \E woken \in SUBSET Waiting(Workers) :
          /\ IF Cardinality(checks) = 1
             THEN IF Waiting(Workers) = {} THEN woken = {}
                  ELSE \E w \in Waiting(Workers) : woken = {w}
             ELSE woken = Waiting(Workers)
          /\ pc' = [t \in Threads |-> IF t \in woken THEN "woken" ELSE pc[t]]
    /\ UNCHANGED <<nIdle, nTotal, fAllOk, m_request_stop,
                   vChecks, fOk, adding, result>>

\* Wait, called by ConnectBlock or by the destructor of the control when
\* ConnectBlock returns early.
Wait ==
    /\ adding
    /\ adding' = FALSE
    /\ pc' = [pc EXCEPT ![Master] = "locking"]
    /\ UNCHANGED <<queue, nIdle, nTotal, fAllOk, nTodo, m_request_stop,
                   vChecks, fOk, added, result>>

NoWorkers == \A w \in Workers : pc[w] = "off"

\* No block is being connected: workers are started by AppInitMain and stopped
\* by Shutdown, when the threads that connect blocks do not run.
NoMaster == pc[Master] = "off" /\ ~adding

StartWorkerThreads ==
    /\ NoMaster /\ NoWorkers /\ ~m_request_stop
    /\ nIdle' = 0 /\ nTotal' = 0 /\ fAllOk' = TRUE
    /\ pc' = [t \in Threads |-> IF t \in Workers THEN "locking" ELSE pc[t]]
    /\ UNCHANGED <<queue, nTodo, m_request_stop, vChecks, fOk, added, adding, result>>

\* Slip: one sleeping worker is told.
StopNotifiesOne(woken) == \E w \in Waiting(Workers) : woken = {w}

StopNotifies(woken) == woken = Waiting(Workers)

StopWorkerThreads ==
    /\ NoMaster /\ ~NoWorkers /\ ~m_request_stop
    /\ m_request_stop' = TRUE
    /\ \E woken \in SUBSET Waiting(Workers) :
          /\ StopNotifies(woken)
          /\ pc' = [t \in Threads |-> IF t \in woken THEN "woken" ELSE pc[t]]
    /\ UNCHANGED <<queue, nIdle, nTotal, fAllOk, nTodo,
                   vChecks, fOk, added, adding, result>>

\* All workers are joined.
Joined ==
    /\ m_request_stop /\ NoWorkers
    /\ m_request_stop' = FALSE
    /\ UNCHANGED <<queue, nIdle, nTotal, fAllOk, nTodo,
                   pc, vChecks, fOk, added, adding, result>>

Thread(t) == TakeBatch(t) \/ Sleep(t) \/ Return(t) \/ Quit(t) \/ Execute(t)

Next ==
    \/ \E t \in Threads : Thread(t) \/ SpuriousWakeup(t)
    \/ Control
    \/ \E checks \in SUBSET (Checks \ added) : Add(checks)
    \/ Wait
    \/ StartWorkerThreads
    \/ StopWorkerThreads
    \/ Joined

\* A thread that can take the mutex does so at some time, a batch ends, and
\* ConnectBlock reaches Wait.
Fairness ==
    /\ \A t \in Threads : WF_vars(Thread(t))
    /\ WF_vars(Wait)
    /\ WF_vars(Joined)

Spec == Init /\ [][Next]_vars /\ Fairness

-----------------------------------------------------------------------------
(* Properties.                                                             *)

\* The types of the queue's members and of the threads' locals.
TypeOK ==
    /\ queue \subseteq Checks /\ added \subseteq Checks
    /\ nIdle \in Nat /\ nTotal \in Nat /\ nTodo \in Nat
    /\ fAllOk \in BOOLEAN /\ m_request_stop \in BOOLEAN /\ adding \in BOOLEAN
    /\ pc \in [Threads -> {"off", "locking", "waiting", "woken", "working"}]
    /\ vChecks \in [Threads -> SUBSET Checks]
    /\ fOk \in [Threads -> BOOLEAN]
    /\ result \in [checks : SUBSET Checks, ok : BOOLEAN]

\* Wait returns true exactly if every check added since the previous Wait
\* returns true: whatever batches the workers took, whoever skipped checks
\* after a failure, and whatever the previous block's verdict was.
VerdictIsRight == result.ok = (result.checks \cap Bad = {})

\* When Wait has returned, no check of that block is left in the queue or in
\* a thread's batch, and no failure is left for the next block.
QueueIsDrained ==
    NoMaster => /\ queue = {} /\ nTodo = 0 /\ fAllOk
                /\ \A t \in Threads : vChecks[t] = {}

\* No wakeup of the master is lost: Wait always returns.
WaitReturns == (pc[Master] # "off") ~> (pc[Master] = "off")

\* StopWorkerThreads always joins the workers, the sleeping ones included.
StopEnds == m_request_stop ~> ~m_request_stop
=============================================================================
