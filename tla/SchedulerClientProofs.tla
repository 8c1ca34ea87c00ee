----------------------- MODULE SchedulerClientProofs -----------------------
(***************************************************************************)
(* SingleThreadedSchedulerClient for any number of scheduler threads, of   *)
(* callers and of callbacks: callbacks run one at a time, in order, and    *)
(* each of them once, and Shutdown drops none.                             *)
(***************************************************************************)
EXTENDS SchedulerClient, SequenceTheorems, TLAPS

\* Serial and in order, with the types they need.
IInv ==
    /\ m_callbacks_pending \in Seq(Nat) /\ started \in Seq(Nat)
    /\ m_are_callbacks_running \in BOOLEAN
    /\ added \in Nat
    /\ pc \in [Processes -> At]
    /\ CallbacksAreSerial
    /\ CallbacksRunInOrder

\* Concatenation is associative.
LEMMA Associative ==
    ASSUME NEW s \in Seq(Nat), NEW t \in Seq(Nat), NEW u \in Seq(Nat)
    PROVE  (s \o t) \o u = s \o (t \o u)
BY SMTT(60)

\* A callback moves from the front of one list to the end of the other.
LEMMA MoveOne ==
    ASSUME NEW s \in Seq(Nat), NEW t \in Seq(Nat), t # <<>>
    PROVE  /\ Append(s, Head(t)) \in Seq(Nat)
           /\ Tail(t) \in Seq(Nat)
           /\ Append(s, Head(t)) \o Tail(t) = s \o t
<1> DEFINE h == <<Head(t)>>
           b == Tail(t)
<1>1. Head(t) \in Nat /\ b \in Seq(Nat) /\ h \in Seq(Nat)
  BY HeadTailProperties
<1>2. t = h \o b
  OBVIOUS
<1>3. Append(s, Head(t)) \in Seq(Nat) /\ Append(s, Head(t)) = s \o h
  BY <1>1, AppendProperties, AppendIsConcat
<1>4. (s \o h) \o b = s \o (h \o b)
  <2> HIDE DEF h, b
  <2> QED BY <1>1, Associative
<1> QED BY <1>1, <1>2, <1>3, <1>4, Zenon

FirstNumbers(n) == [i \in 1..n |-> i]

\* A callback that is added comes last.
LEMMA AddLast ==
    ASSUME NEW s \in Seq(Nat), NEW t \in Seq(Nat), NEW n \in Nat,
           s \o t = FirstNumbers(n)
    PROVE  /\ Append(t, n + 1) \in Seq(Nat)
           /\ s \o Append(t, n + 1) = FirstNumbers(n + 1)
<1> USE DEF FirstNumbers
<1> DEFINE all == [i \in 1..(n + 1) |-> i]
<1>1. s \o t \in Seq(Nat) /\ Len(s \o t) = n
  <2>1. Len(s \o t) \in Nat /\ DOMAIN (s \o t) = 1..Len(s \o t)
    BY ConcatProperties
  <2>2. DOMAIN (s \o t) = 1..n
    OBVIOUS
  <2> QED BY <2>1, <2>2, ConcatProperties
<1>2. \A i \in 1..n : (s \o t)[i] = i
  OBVIOUS
<1>3. Append(t, n + 1) \in Seq(Nat)
  BY AppendProperties
<1>4. s \o Append(t, n + 1) = Append(s \o t, n + 1)
  <2> DEFINE l == <<n + 1>>
  <2>1. Append(t, n + 1) = t \o l
    BY AppendIsConcat
  <2>2. Append(s \o t, n + 1) = (s \o t) \o l
    BY <1>1, AppendIsConcat
  <2>3. l \in Seq(Nat)
    OBVIOUS
  <2>4. (s \o t) \o l = s \o (t \o l)
    <3> HIDE DEF l
    <3> QED BY <2>3, Associative
  <2> QED BY <2>1, <2>2, <2>4, Zenon
<1>5. Append(s \o t, n + 1) = all
  <2> DEFINE u == s \o t
  <2>1. u \in Seq(Nat) /\ Len(u) = n /\ \A i \in 1..n : u[i] = i
    BY <1>1, <1>2
  <2> HIDE DEF u
  <2>2. /\ Append(u, n + 1) \in Seq(Nat) /\ Len(Append(u, n + 1)) = n + 1
        /\ \A i \in 1..n : Append(u, n + 1)[i] = i
        /\ Append(u, n + 1)[n + 1] = n + 1
    BY <2>1, AppendProperties
  <2>3. all \in Seq(Nat) /\ Len(all) = n + 1 /\ \A i \in 1..(n + 1) : all[i] = i
    OBVIOUS
  <2>4. \A i \in 1..(n + 1) : Append(u, n + 1)[i] = all[i]
    BY <2>2, <2>3
  <2> HIDE DEF all
  <2>5. Append(u, n + 1) = all
    BY <2>2, <2>3, <2>4, SeqEqual
  <2> QED BY <2>5 DEF u
<1> QED BY <1>3, <1>4, <1>5

\* Wherever a process goes on, it is not inside a callback.
LEMMA ResumeType ==
    ASSUME NEW p
    PROVE  Resume(p) \in At \ {"callback", "ended"}
BY DEF Resume, At

\* Steps that move processes outside callbacks, and leave the two lists and
\* the flag alone, keep the invariant.
LEMMA MovesOutside ==
    ASSUME IInv,
           UNCHANGED <<m_callbacks_pending, m_are_callbacks_running, added, started>>,
           pc' \in [Processes -> At],
           Running' = Running
    PROVE  IInv'
BY DEF IInv, CallbacksAreSerial, CallbacksRunInOrder

\* One process moves between two places outside callbacks.
LEMMA OneMovesOutside ==
    ASSUME IInv, NEW p \in Processes, NEW at \in At \ {"callback", "ended"},
           pc[p] \notin {"callback", "ended"},
           pc' = [pc EXCEPT ![p] = at]
    PROVE  pc' \in [Processes -> At] /\ Running' = Running
BY DEF IInv, Running, At

\* Initially there are no callbacks.
LEMMA InitIInv == Init => IInv
<1> SUFFICES ASSUME Init PROVE IInv
  OBVIOUS
<1> USE DEF Init
<1>1. pc \in [Processes -> At] /\ Running = {}
  BY DEF At, Running
<1>2. m_are_callbacks_running \in BOOLEAN
  BY Zenon
<1>3. CallbacksAreSerial
  BY <1>1 DEF CallbacksAreSerial
<1>4. CallbacksRunInOrder
  BY DEF CallbacksRunInOrder
<1> QED BY <1>1, <1>2, <1>3, <1>4 DEF IInv

\* Adding a callback keeps the invariant.
LEMMA AddIInv ==
    ASSUME IInv, NEW p \in Processes, pc[p] \in {"idle", "join"},
           added' = added + 1,
           m_callbacks_pending' = PendingAfter(added + 1),
           GoTo(p, "maybe"),
           UNCHANGED <<m_are_callbacks_running, started>>
    PROVE  IInv'
<1>1. pc' \in [Processes -> At] /\ Running' = Running
  BY OneMovesOutside DEF GoTo, At
<1>2. /\ m_callbacks_pending' \in Seq(Nat)
      /\ started \o m_callbacks_pending' = [i \in 1..added' |-> i]
  <2>1. /\ started \in Seq(Nat) /\ m_callbacks_pending \in Seq(Nat) /\ added \in Nat
        /\ started \o m_callbacks_pending = FirstNumbers(added)
    BY DEF IInv, CallbacksRunInOrder, FirstNumbers
  <2>2. /\ Append(m_callbacks_pending, added + 1) \in Seq(Nat)
        /\ started \o Append(m_callbacks_pending, added + 1) = FirstNumbers(added + 1)
    BY <2>1, AddLast
  <2> QED BY <2>2, Zenon DEF PendingAfter, FirstNumbers
<1>3. CallbacksRunInOrder'
  BY <1>2, Zenon DEF CallbacksRunInOrder
<1>4. CallbacksAreSerial'
  BY <1>1 DEF IInv, CallbacksAreSerial
<1>5. added' \in Nat
  BY DEF IInv
<1> QED BY <1>1, <1>2, <1>3, <1>4, <1>5 DEF IInv

\* ProcessQueue starts a callback only when none is running, and it is the
\* oldest.
LEMMA ProcessQueueIInv ==
    ASSUME IInv, NEW p \in Processes, ProcessQueue(p)
    PROVE  IInv'
<1>1. CASE MustNotProcess
  <2>1. pc' \in [Processes -> At] /\ Running' = Running
    BY <1>1, ResumeType, OneMovesOutside DEF ProcessQueue, GoTo
  <2> QED BY <1>1, <2>1, MovesOutside DEF ProcessQueue
<1>2. CASE ~MustNotProcess
  <2>1. /\ m_are_callbacks_running' = TRUE
        /\ started' = Append(started, Head(m_callbacks_pending))
        /\ m_callbacks_pending' = Tail(m_callbacks_pending)
        /\ pc' = [pc EXCEPT ![p] = "callback"]
        /\ added' = added
        /\ m_callbacks_pending # <<>> /\ ~m_are_callbacks_running
    BY <1>2 DEF ProcessQueue, GoTo, MustNotProcess
  <2>2. /\ started' \in Seq(Nat) /\ m_callbacks_pending' \in Seq(Nat)
        /\ started' \o m_callbacks_pending' = started \o m_callbacks_pending
    BY <2>1, MoveOne DEF IInv
  <2>3. pc' \in [Processes -> At] /\ Running' = {p}
    <3>1. Running = {}
      BY <2>1 DEF IInv, CallbacksAreSerial
    <3> QED BY <2>1, <3>1 DEF IInv, Running, At
  <2>4. CallbacksAreSerial'
    BY <2>1, <2>3 DEF CallbacksAreSerial
  <2>5. m_are_callbacks_running' \in BOOLEAN
    BY <2>1, Zenon
  <2> QED BY <2>1, <2>2, <2>3, <2>4, <2>5 DEF IInv, CallbacksRunInOrder
<1> QED BY <1>1, <1>2

\* The end of a callback keeps the invariant: the one process that was
\* running is then the one that resets the flag.
LEMMA ResetIInv ==
    ASSUME IInv, NEW p \in Processes, CallbacksRunningReset(p)
    PROVE  IInv'
<1>1. /\ pc[p] = "ended" /\ m_are_callbacks_running' = FALSE
      /\ pc' = [pc EXCEPT ![p] = "maybe"]
      /\ UNCHANGED <<m_callbacks_pending, added, started>>
  BY DEF CallbacksRunningReset, GoTo, AfterCallback
<1>2. Running = {p}
  BY <1>1 DEF IInv, CallbacksAreSerial, Running
<1>3. pc' \in [Processes -> At] /\ Running' = {}
  BY <1>1, <1>2 DEF IInv, Running, At
<1>4. CallbacksAreSerial'
  BY <1>1, <1>3 DEF CallbacksAreSerial
<1>5. m_are_callbacks_running' \in BOOLEAN
  BY <1>1, Zenon
<1> QED BY <1>1, <1>3, <1>4, <1>5 DEF IInv, CallbacksRunInOrder

\* Every step keeps the invariant.
LEMMA NextIInv == IInv /\ [Next]_vars => IInv'
<1> SUFFICES ASSUME IInv, [Next]_vars PROVE IInv'
  OBVIOUS
<1>1. ASSUME NEW t \in Threads, Serve(t) \/ Interrupted(t) PROVE IInv'
  <2>1. t \in Processes
    BY DEF Processes
  <2>2. PICK at \in At \ {"callback", "ended"} :
            /\ pc[t] \notin {"callback", "ended"}
            /\ pc' = [pc EXCEPT ![t] = at]
    BY <1>1 DEF Serve, Interrupted, GoTo, At
  <2>3. pc' \in [Processes -> At] /\ Running' = Running
    BY <2>1, <2>2, OneMovesOutside
  <2> QED BY <1>1, <2>3, MovesOutside DEF Serve, Interrupted
<1>2. ASSUME NEW p \in Processes, MaybeScheduleProcessQueue(p) PROVE IInv'
  <2>1. PICK at \in At \ {"callback", "ended"} :
            /\ pc[p] \notin {"callback", "ended"}
            /\ pc' = [pc EXCEPT ![p] = at]
    BY <1>2, ResumeType DEF MaybeScheduleProcessQueue, GoTo, At
  <2>2. pc' \in [Processes -> At] /\ Running' = Running
    BY <2>1, OneMovesOutside
  <2> QED BY <1>2, <2>2, MovesOutside DEF MaybeScheduleProcessQueue
<1>3. ASSUME NEW p \in Processes, Schedule(p) PROVE IInv'
  <2>1. PICK woken \in Notified :
            pc' = [q \in Processes |-> IF q = p THEN Resume(p)
                                       ELSE IF q \in woken THEN "service"
                                       ELSE pc[q]]
    BY <1>3 DEF Schedule
  <2>2. \A t \in woken : pc[t] = "wait"
    BY DEF Notified, Sleeping
  <2>3. pc' \in [Processes -> At]
    BY <2>1, ResumeType DEF IInv, At
  <2>4. Running' = Running
    BY <1>3, <2>1, <2>2, ResumeType DEF Schedule, Running
  <2> QED BY <1>3, <2>3, <2>4, MovesOutside DEF Schedule
<1>4. ASSUME NEW p \in Processes, ProcessQueue(p) PROVE IInv'
  BY <1>4, ProcessQueueIInv
<1>5. ASSUME NEW p \in Processes, Callback(p) PROVE IInv'
  <2>1. pc' \in [Processes -> At] /\ Running' = Running
    BY <1>5 DEF Callback, GoTo, IInv, Running, At
  <2> QED BY <1>5, <2>1, MovesOutside DEF Callback
<1>6. ASSUME NEW p \in Processes, CallbacksRunningReset(p) PROVE IInv'
  BY <1>6, ResetIInv
<1>7. ASSUME NEW c \in Callers, NEW sync \in BOOLEAN, AddToProcessQueue(c, sync)
      PROVE  IInv'
  BY <1>7, AddIInv DEF AddToProcessQueue, Processes
<1>8. ASSUME NEW c \in Callers, Synced(c) PROVE IInv'
  <2>1. pc' \in [Processes -> At] /\ Running' = Running
    BY <1>8, OneMovesOutside DEF Synced, GoTo, At, Processes
  <2> QED BY <1>8, <2>1, MovesOutside DEF Synced
<1>9. ASSUME Shutdown PROVE IInv'
  <2>1. pc' \in [Processes -> At] /\ Running' = Running
    BY <1>9, OneMovesOutside DEF Shutdown, GoTo, At, Processes
  <2> QED BY <1>9, <2>1, MovesOutside DEF Shutdown
<1>10. ASSUME FlushStateToDisk PROVE IInv'
  BY <1>10, AddIInv DEF FlushStateToDisk, Processes
<1>11. ASSUME EmptyQueue PROVE IInv'
  <2>1. PICK at \in At \ {"callback", "ended"} :
            /\ pc[Main] \notin {"callback", "ended"}
            /\ pc' = [pc EXCEPT ![Main] = at]
    BY <1>11 DEF EmptyQueue, GoTo, At
  <2>2. pc' \in [Processes -> At] /\ Running' = Running
    BY <2>1, OneMovesOutside DEF Processes
  <2> QED BY <1>11, <2>2, MovesOutside DEF EmptyQueue
<1>12. CASE UNCHANGED vars
  <2>1. Running' = Running /\ pc' = pc
    BY <1>12 DEF vars, Running
  <2> QED BY <1>12, <2>1, MovesOutside DEF vars, IInv
<1> QED BY <1>1, <1>2, <1>3, <1>4, <1>5, <1>6, <1>7, <1>8, <1>9, <1>10, <1>11, <1>12
        DEF Next, Client

\* IInv is an invariant.
LEMMA InvariantHolds == Spec => []IInv
BY InitIInv, NextIInv, PTL DEF Spec

\* No two callbacks are ever executed at the same time, on however many
\* threads the scheduler runs.
THEOREM NeverTwoAtOnce == Spec => []CallbacksAreSerial
<1>1. IInv => CallbacksAreSerial
  BY DEF IInv
<1> QED BY <1>1, InvariantHolds, PTL

\* Callbacks are run in the order they are added, each of them once.
THEOREM InTheOrderAdded == Spec => []CallbacksRunInOrder
<1>1. IInv => CallbacksRunInOrder
  BY DEF IInv
<1> QED BY <1>1, InvariantHolds, PTL

-----------------------------------------------------------------------------
(* Shutdown.                                                               *)

InCallback == {p \in Processes : pc[p] = "callback"}

\* How many callbacks have ended: all that were started but the running one.
Ended == IF InCallback = {} THEN Len(started) ELSE Len(started) - 1

\* The stages of Shutdown: once the threads are interrupted no caller is
\* active, once they are joined no thread is, and Main leaves EmptyQueue only
\* when nothing is pending.
ShutdownStages ==
    /\ interrupted = (pc[Main] # "idle")
    /\ interrupted => \A c \in Callers : pc[c] = "idle"
    /\ pc[Main] \notin {"idle", "join"} => \A t \in Threads : pc[t] = "out"
    /\ pc[Main] = "out" => m_callbacks_pending = <<>>

DInv ==
    /\ Ended \in Nat
    /\ finished = 1..Ended
    /\ ShutdownStages

\* What has been started is numbered from 1.
LEMMA StartedInOrder ==
    ASSUME IInv
    PROVE  /\ Len(started) \in Nat /\ Len(m_callbacks_pending) \in Nat
           /\ Len(started) + Len(m_callbacks_pending) = added
           /\ \A i \in 1..Len(started) : started[i] = i
<1> DEFINE all == started \o m_callbacks_pending
<1>1. started \in Seq(Nat) /\ m_callbacks_pending \in Seq(Nat) /\ added \in Nat
  BY DEF IInv
<1>2. all = [n \in 1..added |-> n]
  BY DEF IInv, CallbacksRunInOrder
<1>3. /\ Len(started) \in Nat /\ Len(m_callbacks_pending) \in Nat
      /\ Len(all) = Len(started) + Len(m_callbacks_pending)
      /\ DOMAIN all = 1..Len(all)
      /\ \A i \in 1..Len(started) : all[i] = started[i]
  BY <1>1, ConcatProperties
<1>4. DOMAIN all = 1..added /\ \A i \in 1..added : all[i] = i
  BY <1>2
<1> HIDE DEF all
<1>5. Len(all) = added
  BY <1>1, <1>3, <1>4
<1> QED BY <1>1, <1>3, <1>4, <1>5

\* A step that starts or ends no callback keeps the count of the ended ones.
LEMMA SameEnded ==
    ASSUME Ended \in Nat, finished = 1..Ended, InCallback' = InCallback,
           UNCHANGED <<started, finished>>
    PROVE  Ended' \in Nat /\ finished' = 1..Ended'
BY DEF Ended

\* Initially no callback has run.
LEMMA InitDInv == Init => DInv
<1> SUFFICES ASSUME Init PROVE DInv
  OBVIOUS
<1> USE DEF Init
<1>1. Main \in Processes /\ Main \notin Threads
  BY SchedulerAssumption DEF Processes
<1>2. InCallback = {}
  BY DEF InCallback
<1>3. Ended = 0 /\ finished = 1..Ended
  BY <1>2 DEF Ended
<1>4. pc[Main] = "idle"
  BY <1>1
<1>5. ShutdownStages
  BY <1>4, Zenon DEF ShutdownStages
<1> QED BY <1>3, <1>5 DEF DInv

\* A callback that is added waits: Main adds its last one before EmptyQueue.
LEMMA AddDInv ==
    ASSUME IInv, DInv, NEW p \in Processes,
           \/ p \in Callers /\ pc[p] = "idle" /\ ~interrupted
           \/ p = Main /\ pc[p] = "join" /\ \A t \in Threads : pc[t] = "out",
           GoTo(p, "maybe"), UNCHANGED <<started, finished, interrupted>>
    PROVE  DInv'
<1>1. pc \in [Processes -> At] /\ Main \in Processes /\ Main \notin Callers
      /\ Main \notin Threads
  BY SchedulerAssumption DEF IInv, Processes
<1>2. pc' = [pc EXCEPT ![p] = "maybe"] /\ pc[p] # "callback"
  BY DEF GoTo
<1>3. InCallback' = InCallback
  BY <1>1, <1>2 DEF InCallback
<1>4. Ended' \in Nat /\ finished' = 1..Ended'
  BY <1>3, SameEnded DEF DInv
<1>5. ShutdownStages'
  BY <1>1, <1>2, SchedulerAssumption DEF DInv, ShutdownStages, Processes
<1> QED BY <1>4, <1>5 DEF DInv

\* A process that is active goes on: a caller or a thread while Shutdown has
\* not passed it, or Main after the threads are joined.
LEMMA MoveDInv ==
    ASSUME IInv, ShutdownStages, NEW p \in Processes, NEW at \in At,
           pc' = [pc EXCEPT ![p] = at],
           pc[p] \notin {"idle", "join", "out"},
           p = Main => at \notin {"idle", "join"},
           p = Main /\ at = "out" => m_callbacks_pending' = <<>>,
           interrupted' = interrupted
    PROVE  ShutdownStages'
<1>1. pc \in [Processes -> At] /\ Main \in Processes /\ Main \notin Callers
      /\ Main \notin Threads /\ Threads \subseteq Processes /\ Callers \subseteq Processes
  BY SchedulerAssumption DEF IInv, Processes
<1>2. CASE p = Main
  BY <1>1, <1>2 DEF ShutdownStages
<1>3. CASE p # Main
  <2>1. pc'[Main] = pc[Main]
    BY <1>1, <1>3
  <2>2. p \in Callers => ~interrupted
    BY DEF ShutdownStages
  <2>3. p \in Threads => pc[Main] \in {"idle", "join"}
    BY DEF ShutdownStages
  <2>4. pc[Main] \in {"idle", "join"}
    BY <1>3, <2>2, <2>3 DEF Processes, ShutdownStages
  <2>5. interrupted' => \A c \in Callers : pc'[c] = "idle"
    BY <1>1, <2>2 DEF ShutdownStages
  <2> QED BY <2>1, <2>4, <2>5 DEF ShutdownStages
<1> QED BY <1>2, <1>3

\* The process moves outside callbacks.
LEMMA QuietMoveDInv ==
    ASSUME IInv, DInv, NEW p \in Processes, NEW at \in At \ {"callback"},
           pc' = [pc EXCEPT ![p] = at],
           pc[p] \notin {"idle", "join", "out", "callback"},
           p = Main => at \notin {"idle", "join"},
           p = Main /\ at = "out" => m_callbacks_pending' = <<>>,
           UNCHANGED <<started, finished, interrupted>>
    PROVE  DInv'
<1>1. ShutdownStages'
  BY MoveDInv DEF DInv
<1>2. InCallback' = InCallback
  BY DEF IInv, InCallback
<1> QED BY <1>1, <1>2, SameEnded DEF DInv

\* Main goes on in EmptyQueue.
LEMMA ResumeMain == Resume(Main) = "empty"
BY SchedulerAssumption DEF Resume

\* A callback starts, or ProcessQueue returns.
LEMMA ProcessQueueDInv ==
    ASSUME IInv, DInv, NEW p \in Processes, ProcessQueue(p)
    PROVE  DInv'
<1>1. pc[p] = "process" /\ UNCHANGED <<finished, interrupted>>
  BY DEF ProcessQueue
<1>2. CASE MustNotProcess
  <2>1. UNCHANGED started /\ pc' = [pc EXCEPT ![p] = Resume(p)]
    BY <1>2 DEF ProcessQueue, GoTo
  <2>2. Resume(p) \in At \ {"callback"} /\ (p = Main => Resume(p) = "empty")
    BY ResumeType, ResumeMain
  <2> QED BY <1>1, <2>1, <2>2, QuietMoveDInv
<1>3. CASE ~MustNotProcess
  <2>1. /\ started' = Append(started, Head(m_callbacks_pending))
        /\ pc' = [pc EXCEPT ![p] = "callback"]
        /\ m_callbacks_pending # <<>> /\ ~m_are_callbacks_running
    BY <1>3 DEF ProcessQueue, GoTo, MustNotProcess
  <2>2. ShutdownStages'
    BY <1>1, <2>1, MoveDInv DEF DInv, At
  <2>3. InCallback = {} /\ InCallback' # {}
    BY <2>1 DEF IInv, CallbacksAreSerial, Running, InCallback
  <2>4. Len(started) \in Nat /\ Len(started') = Len(started) + 1
    BY <2>1 DEF IInv
  <2>5. Ended' \in Nat /\ finished' = 1..Ended'
    BY <1>1, <2>3, <2>4 DEF DInv, Ended
  <2> QED BY <2>2, <2>5 DEF DInv
<1> QED BY <1>2, <1>3

\* The running callback ends; it was the last one started.
LEMMA CallbackDInv ==
    ASSUME IInv, DInv, NEW p \in Processes, Callback(p)
    PROVE  DInv'
<1>1. /\ pc[p] = "callback" /\ pc' = [pc EXCEPT ![p] = "ended"]
      /\ finished' = finished \cup {started[Len(started)]}
      /\ UNCHANGED <<started, interrupted>>
  BY DEF Callback, GoTo
<1>2. ShutdownStages'
  BY <1>1, MoveDInv DEF DInv, At
<1>3. InCallback = {p} /\ InCallback' = {}
  BY <1>1 DEF IInv, CallbacksAreSerial, Running, InCallback
<1>4. /\ Len(started) \in Nat /\ Len(started) > 0
      /\ started[Len(started)] = Len(started)
  <2>1. Len(started) \in Nat /\ Len(started) - 1 \in Nat
    BY <1>3, StartedInOrder DEF DInv, Ended
  <2> QED BY <2>1, StartedInOrder
<1>5. Ended' \in Nat /\ finished' = 1..Ended'
  BY <1>1, <1>3, <1>4 DEF DInv, Ended
<1> QED BY <1>2, <1>5 DEF DInv

\* Every step keeps the invariant.
LEMMA NextDInv == IInv /\ DInv /\ [Next]_vars => DInv'
<1> SUFFICES ASSUME IInv, DInv, [Next]_vars PROVE DInv'
  OBVIOUS
<1>t. /\ Threads \subseteq Processes /\ Callers \subseteq Processes /\ Main \in Processes
      /\ Main \notin Threads /\ Main \notin Callers /\ pc \in [Processes -> At]
  BY SchedulerAssumption DEF Processes, IInv
<1>1. ASSUME NEW t \in Threads, Serve(t) \/ Interrupted(t) PROVE DInv'
  <2>1. /\ \E at \in {"wait", "process", "out"} : pc' = [pc EXCEPT ![t] = at]
        /\ pc[t] \in {"service", "wait"}
        /\ UNCHANGED <<started, finished, interrupted>>
    BY <1>1 DEF Serve, Interrupted, GoTo
  <2> QED BY <1>t, <2>1, QuietMoveDInv DEF At
<1>2. ASSUME NEW p \in Processes, MaybeScheduleProcessQueue(p) PROVE DInv'
  <2>1. /\ \E at \in {Resume(p), "schedule"} : pc' = [pc EXCEPT ![p] = at]
        /\ pc[p] = "maybe"
        /\ UNCHANGED <<started, finished, interrupted>>
    BY <1>2 DEF MaybeScheduleProcessQueue, GoTo
  <2>2. Resume(p) \in At \ {"callback"} /\ (p = Main => Resume(p) = "empty")
    BY ResumeType, ResumeMain
  <2> QED BY <2>1, <2>2, QuietMoveDInv DEF At
<1>3. ASSUME NEW p \in Processes, Schedule(p) PROVE DInv'
  <2>1. PICK woken \in Notified :
            pc' = [q \in Processes |-> IF q = p THEN Resume(p)
                                       ELSE IF q \in woken THEN "service"
                                       ELSE pc[q]]
    BY <1>3 DEF Schedule
  <2>2. \A t \in woken : t \in Threads /\ pc[t] = "wait"
    BY DEF Notified, Sleeping
  <2>3. /\ pc[p] = "schedule"
        /\ UNCHANGED <<started, finished, interrupted, m_callbacks_pending>>
    BY <1>3 DEF Schedule
  <2>4. Resume(p) \in At \ {"callback"} /\ (p = Main => Resume(p) = "empty")
    BY ResumeType, ResumeMain
  <2>5. InCallback' = InCallback
    BY <1>t, <2>1, <2>2, <2>3, <2>4 DEF InCallback
  <2>6. ShutdownStages'
    <3>1. ShutdownStages
      BY DEF DInv
    <3>2. CASE p = Main
      <4>1. woken = {}
        BY <2>2, <2>3, <3>1, <3>2 DEF ShutdownStages
      <4> QED BY <1>t, <2>1, <2>3, <2>4, <3>1, <3>2, <4>1 DEF ShutdownStages
    <3>3. CASE p # Main
      <4>1. pc[Main] \in {"idle", "join"} /\ pc'[Main] = pc[Main]
        BY <1>t, <2>1, <2>2, <2>3, <3>1, <3>3 DEF ShutdownStages, Processes
      <4>2. p \in Callers => ~interrupted
        BY <2>3, <3>1 DEF ShutdownStages
      <4>3. interrupted => \A c \in Callers : pc'[c] = "idle"
        BY <1>t, <2>1, <2>2, <3>1, <4>2, SchedulerAssumption DEF ShutdownStages
      <4> QED BY <2>3, <3>1, <4>1, <4>3 DEF ShutdownStages
    <3> QED BY <3>2, <3>3
  <2> QED BY <2>3, <2>5, <2>6, SameEnded DEF DInv
<1>4. ASSUME NEW p \in Processes, ProcessQueue(p) PROVE DInv'
  BY <1>4, ProcessQueueDInv
<1>5. ASSUME NEW p \in Processes, Callback(p) PROVE DInv'
  BY <1>5, CallbackDInv
<1>6. ASSUME NEW p \in Processes, CallbacksRunningReset(p) PROVE DInv'
  <2>1. /\ pc' = [pc EXCEPT ![p] = "maybe"] /\ pc[p] = "ended"
        /\ UNCHANGED <<started, finished, interrupted>>
    BY <1>6 DEF CallbacksRunningReset, GoTo, AfterCallback
  <2> QED BY <2>1, QuietMoveDInv DEF At
<1>7. ASSUME NEW c \in Callers, NEW sync \in BOOLEAN, AddToProcessQueue(c, sync)
      PROVE  DInv'
  BY <1>7, <1>t, AddDInv DEF AddToProcessQueue
<1>8. ASSUME NEW c \in Callers, Synced(c) PROVE DInv'
  <2>1. /\ pc' = [pc EXCEPT ![c] = "idle"] /\ pc[c] = "sync"
        /\ UNCHANGED <<started, finished, interrupted>>
    BY <1>8 DEF Synced, GoTo
  <2> QED BY <1>t, <2>1, QuietMoveDInv DEF At
<1>9. ASSUME Shutdown PROVE DInv'
  <2>1. /\ pc' = [pc EXCEPT ![Main] = "join"] /\ pc[Main] = "idle"
        /\ \A c \in Callers : pc[c] = "idle"
        /\ interrupted' = TRUE
        /\ UNCHANGED <<started, finished>>
    BY <1>9 DEF Shutdown, GoTo
  <2>2. InCallback' = InCallback
    BY <1>t, <2>1 DEF InCallback
  <2>3. ShutdownStages'
    <3>1. pc'[Main] = "join" /\ \A c \in Callers : pc'[c] = "idle"
      BY <1>t, <2>1
    <3> QED BY <2>1, <3>1, Zenon DEF ShutdownStages
  <2> QED BY <2>1, <2>2, <2>3, SameEnded DEF DInv
<1>10. ASSUME FlushStateToDisk PROVE DInv'
  BY <1>10, <1>t, AddDInv DEF FlushStateToDisk
<1>11. ASSUME EmptyQueue PROVE DInv'
  <2>1. /\ pc' = [pc EXCEPT ![Main] = IF ShouldContinue THEN "process" ELSE "out"]
        /\ pc[Main] = "empty"
        /\ UNCHANGED <<started, finished, interrupted, m_callbacks_pending>>
    BY <1>11 DEF EmptyQueue, GoTo
  <2> QED BY <1>t, <2>1, QuietMoveDInv DEF At, ShouldContinue
<1>12. CASE UNCHANGED vars
  BY <1>12 DEF vars, DInv, Ended, InCallback, ShutdownStages
<1> QED BY <1>1, <1>2, <1>3, <1>4, <1>5, <1>6, <1>7, <1>8, <1>9, <1>10, <1>11, <1>12
        DEF Next, Client

\* When Shutdown drops the queue, nothing is pending and every callback that
\* was ever added has been run to its end, however many threads ran them.
THEOREM ShutdownDropsNothing == Spec => []NothingIsDropped
<1>1. IInv /\ DInv => NothingIsDropped
  <2> SUFFICES ASSUME IInv, DInv, pc[Main] = "out"
               PROVE  m_callbacks_pending = <<>> /\ finished = 1..added
    BY DEF NothingIsDropped
  <2>1. m_callbacks_pending = <<>>
    BY DEF DInv, ShutdownStages
  <2>2. InCallback = {}
    BY SchedulerAssumption DEF DInv, ShutdownStages, InCallback, Processes
  <2>3. Len(started) = added
    BY <2>1, StartedInOrder
  <2> QED BY <2>1, <2>2, <2>3 DEF DInv, Ended
<1> QED BY <1>1, InvariantHolds, InitDInv, NextDInv, PTL DEF Spec

=============================================================================
