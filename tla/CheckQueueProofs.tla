-------------------------- MODULE CheckQueueProofs --------------------------
(***************************************************************************)
(* CCheckQueue for any number of workers, any block and any batch size:    *)
(* Wait's verdict is right and the queue it leaves is clean.               *)
(*                                                                         *)
(* The invariant behind both accounts for every check that was added: it   *)
(* is in the queue, in exactly one thread's batch, or finished; nTodo      *)
(* counts the first two kinds, and fAllOk is the verdict on the third.     *)
(***************************************************************************)
EXTENDS CheckQueue, FiniteSetTheorems, TLAPS

\* Checks that are queued or in a batch.
Outstanding ==
    {c \in Checks : c \in queue \/ \E t \in Threads : c \in vChecks[t]}

\* The same without the batch of thread t.
OutstandingBut(t) ==
    {c \in Checks : c \in queue \/ \E u \in Threads \ {t} : c \in vChecks[u]}

\* Types of what the accounting speaks about.
Typed ==
    /\ queue \subseteq Checks /\ added \subseteq Checks
    /\ nTodo \in Int
    /\ fAllOk \in BOOLEAN /\ m_request_stop \in BOOLEAN /\ adding \in BOOLEAN
    /\ pc \in [Threads -> {"off", "locking", "waiting", "woken", "working"}]
    /\ vChecks \in [Threads -> SUBSET Checks]
    /\ fOk \in [Threads -> BOOLEAN]
    /\ result \in [checks : SUBSET Checks, ok : BOOLEAN]

\* Every check is in one place.
Disjoint ==
    \A t \in Threads :
        /\ queue \cap vChecks[t] = {}
        /\ \A u \in Threads \ {t} : vChecks[t] \cap vChecks[u] = {}

\* A batch is held between TakeBatch and the next critical section, and its
\* result is the batch's own, unless the block has failed already.
BatchesOK ==
    \A t \in Threads :
        /\ vChecks[t] # {} => pc[t] \in {"working", "locking"}
        /\ pc[t] = "working" => vChecks[t] # {} /\ (fOk[t] \/ ~fAllOk)
        /\ pc[t] = "locking" /\ vChecks[t] # {} =>
              IF fOk[t] THEN vChecks[t] \cap Bad = {}
              ELSE vChecks[t] \cap Bad # {} \/ ~fAllOk

\* Where the master is, and what has been added then.
SessionOK ==
    /\ adding => pc[Master] = "off"
    /\ NoMaster => added = {}
    /\ m_request_stop => NoMaster

\* The accounting.
Accounted ==
    /\ Outstanding \subseteq added
    /\ nTodo = Cardinality(Outstanding)
    /\ fAllOk = ((added \ Outstanding) \cap Bad = {})

\* The inductive invariant.
IInv ==
    /\ Typed /\ Disjoint /\ BatchesOK /\ SessionOK /\ Accounted
    /\ VerdictIsRight

-----------------------------------------------------------------------------

\* Every set of checks is finite.
LEMMA ChecksFinite ==
    ASSUME NEW S \in SUBSET Checks
    PROVE  IsFiniteSet(S) /\ Cardinality(S) \in Nat
BY CheckAssumption, FS_Subset, FS_CardinalityType

\* A thread that has the mutex accounts for its own batch, and finds the
\* verdict on all that is not outstanding elsewhere.
LEMMA ResumedAccounts ==
    ASSUME IInv, NEW t \in Threads, Locked(t)
    PROVE  /\ OutstandingBut(t) \subseteq added
           /\ Resumed(t).todo = Cardinality(OutstandingBut(t))
           /\ Resumed(t).allOk = ((added \ OutstandingBut(t)) \cap Bad = {})
           /\ Resumed(t).allOk \in BOOLEAN
           /\ Resumed(t).allOk => fAllOk
<1> USE DEF IInv
<1>1. OutstandingBut(t) = Outstanding \ vChecks[t]
  BY DEF Typed, Disjoint, Outstanding, OutstandingBut
<1>2. vChecks[t] \subseteq Outstanding /\ vChecks[t] \in SUBSET Checks
  BY DEF Typed, Outstanding
<1>3. Outstanding \in SUBSET Checks
  BY DEF Outstanding
<1>4. Cardinality(OutstandingBut(t)) = nTodo - Cardinality(vChecks[t])
  <2>1. Outstanding \cap vChecks[t] = vChecks[t]
    BY <1>2
  <2> QED BY <1>1, <1>3, <2>1, ChecksFinite, FS_Difference, ZenonT(60) DEF Accounted
<1>5. CASE pc[t] = "locking"
  <2>1. Resumed(t).todo = Cardinality(OutstandingBut(t))
    BY <1>4, <1>5 DEF Resumed, CleanUp
  <2>2. Resumed(t).allOk = (fAllOk /\ (vChecks[t] = {} \/ fOk[t]))
    BY <1>5 DEF Resumed, CleanUp
  <2>3. added \ OutstandingBut(t) = (added \ Outstanding) \cup vChecks[t]
    BY <1>1, <1>2 DEF Accounted
  <2>4. (fAllOk /\ (vChecks[t] = {} \/ fOk[t]))
            = ((added \ OutstandingBut(t)) \cap Bad = {})
    <3>1. fAllOk = ((added \ Outstanding) \cap Bad = {})
      BY DEF Accounted
    <3>2. fAllOk \in BOOLEAN /\ fOk[t] \in BOOLEAN
      BY DEF Typed
    <3>3. vChecks[t] # {} => IF fOk[t] THEN vChecks[t] \cap Bad = {}
                             ELSE vChecks[t] \cap Bad # {} \/ ~fAllOk
      BY <1>5 DEF BatchesOK
    <3> QED BY <2>3, <3>1, <3>2, <3>3, Zenon
  <2>5. OutstandingBut(t) \subseteq added
    BY <1>1 DEF Accounted
  <2>6. Resumed(t).allOk \in BOOLEAN /\ (Resumed(t).allOk => fAllOk)
    BY <2>2, Zenon
  <2>7. Resumed(t).allOk = ((added \ OutstandingBut(t)) \cap Bad = {})
    BY <2>2, <2>4, Zenon
  <2> QED BY <2>1, <2>5, <2>6, <2>7
<1>6. CASE pc[t] = "woken"
  <2>1. vChecks[t] = {}
    BY <1>6 DEF BatchesOK
  <2>2. OutstandingBut(t) = Outstanding
    BY <1>1, <2>1
  <2>3. Resumed(t).todo = nTodo /\ Resumed(t).allOk = fAllOk
    BY <1>6 DEF Resumed
  <2> QED BY <2>2, <2>3 DEF Accounted, Typed
<1> QED BY <1>5, <1>6 DEF Locked

\* Initially nothing is added.
LEMMA InitIInv == Init => IInv
<1> SUFFICES ASSUME Init PROVE IInv
  OBVIOUS
<1> USE DEF Init
<1>1. Typed
  <2>1. fAllOk \in BOOLEAN /\ m_request_stop \in BOOLEAN /\ adding \in BOOLEAN
    BY Zenon
  <2>2. result \in [checks : SUBSET Checks, ok : BOOLEAN]
    OBVIOUS
  <2>3. fOk \in [Threads -> BOOLEAN]
    OBVIOUS
  <2>4. pc \in [Threads -> {"off", "locking", "waiting", "woken", "working"}]
    OBVIOUS
  <2>5. vChecks \in [Threads -> SUBSET Checks]
    OBVIOUS
  <2> QED BY <2>1, <2>2, <2>3, <2>4, <2>5 DEF Typed
<1>6. Disjoint
  BY DEF Disjoint
<1>7. SessionOK
  BY DEF SessionOK, NoMaster, Threads
<1>2. BatchesOK
  BY DEF BatchesOK
<1>3. Outstanding = {}
  BY DEF Outstanding
<1>4. Accounted
  <2>1. fAllOk = ((added \ Outstanding) \cap Bad = {})
    BY <1>3
  <2> QED BY <1>3, <2>1, FS_EmptySet DEF Accounted
<1>5. VerdictIsRight
  BY DEF VerdictIsRight
<1> QED BY <1>1, <1>2, <1>4, <1>5, <1>6, <1>7 DEF IInv

\* A critical section of thread t that clears its batch, or replaces it by
\* one from the queue, keeps the accounting: what is outstanding then is what
\* was outstanding elsewhere.
LEMMA SectionAccounts ==
    ASSUME IInv, NEW t \in Threads, Locked(t),
           NEW batch \in SUBSET queue,
           queue' = queue \ batch,
           vChecks' = [vChecks EXCEPT ![t] = batch]
    PROVE  /\ Outstanding' = OutstandingBut(t)
           /\ Disjoint'
           /\ vChecks' \in [Threads -> SUBSET Checks]
           /\ queue' \subseteq Checks
<1> USE DEF IInv, Typed
<1>1. vChecks' \in [Threads -> SUBSET Checks]
  OBVIOUS
<1>2. Disjoint'
  BY DEF Disjoint
<1>3. Outstanding' = OutstandingBut(t)
  BY <1>1 DEF Outstanding, OutstandingBut
<1> QED BY <1>1, <1>2, <1>3

\* The thread's own pc moves; the master may be woken, nobody else is.
LEMMA GoToFacts ==
    ASSUME Typed, NEW t \in Threads, NEW now,
           NEW at \in {"off", "locking", "waiting", "woken", "working"},
           pc' = GoTo(t, now, at)
    PROVE  /\ pc' \in [Threads -> {"off", "locking", "waiting", "woken", "working"}]
           /\ pc'[t] = at
           /\ \A u \in Threads \ {t} :
                 \/ pc'[u] = pc[u]
                 \/ pc[u] = "waiting" /\ pc'[u] = "woken"
BY DEF Typed, GoTo, MasterNotified

\* Threads that are not in the critical section keep what they hold, and what
\* they may assume of fAllOk, which can only have become false.
LEMMA OthersKeepBatches ==
    ASSUME IInv, NEW t \in Threads, NEW u \in Threads \ {t},
           \/ pc'[u] = pc[u]
           \/ pc[u] = "waiting" /\ pc'[u] = "woken",
           vChecks'[u] = vChecks[u], fOk'[u] = fOk[u],
           fAllOk' => fAllOk
    PROVE  /\ vChecks'[u] # {} => pc'[u] \in {"working", "locking"}
           /\ pc'[u] = "working" => vChecks'[u] # {} /\ (fOk'[u] \/ ~fAllOk')
           /\ pc'[u] = "locking" /\ vChecks'[u] # {} =>
                 IF fOk'[u] THEN vChecks'[u] \cap Bad = {}
                 ELSE vChecks'[u] \cap Bad # {} \/ ~fAllOk'
<1>1. vChecks[u] # {} => pc[u] \in {"working", "locking"}
  BY DEF IInv, BatchesOK
<1>2. pc[u] = "working" => vChecks[u] # {} /\ (fOk[u] \/ ~fAllOk)
  BY DEF IInv, BatchesOK
<1>3. pc[u] = "locking" /\ vChecks[u] # {} =>
          IF fOk[u] THEN vChecks[u] \cap Bad = {}
          ELSE vChecks[u] \cap Bad # {} \/ ~fAllOk
  BY DEF IInv, BatchesOK
<1>4. pc'[u] \in {"working", "locking"} => pc'[u] = pc[u]
  OBVIOUS
<1>5. vChecks'[u] # {} => pc'[u] = pc[u]
  BY <1>1
<1>6. vChecks'[u] # {} => pc'[u] \in {"working", "locking"}
  BY <1>1, <1>5
<1>7. pc'[u] = "working" => vChecks'[u] # {} /\ (fOk'[u] \/ ~fAllOk')
  BY <1>2, <1>4
<1>8. pc'[u] = "locking" /\ vChecks'[u] # {} =>
          IF fOk'[u] THEN vChecks'[u] \cap Bad = {}
          ELSE vChecks'[u] \cap Bad # {} \/ ~fAllOk'
  BY <1>3, <1>4
<1> QED BY <1>6, <1>7, <1>8

\* A batch has at least one check.
LEMMA BatchNotEmpty ==
    ASSUME NEW now
    PROVE  BatchLength(now) # 0
<1> DEFINE share == Cardinality(queue) \div (now.total + now.idle + 1)
           most == IF share < nBatchSize THEN share ELSE nBatchSize
<1>1. BatchLength(now) = IF most < 1 THEN 1 ELSE most
  BY DEF BatchLength
<1> HIDE DEF most
<1> QED BY <1>1

\* TakeBatch keeps the invariant.
LEMMA TakeBatchIInv ==
    ASSUME IInv, NEW t \in Threads, TakeBatch(t)
    PROVE  IInv'
<1> DEFINE now == Resumed(t)
<1> HIDE DEF now
<1>1. PICK batch \in SUBSET queue :
          /\ Cardinality(batch) = BatchLength(now)
          /\ queue' = queue \ batch
          /\ vChecks' = [vChecks EXCEPT ![t] = batch]
  BY DEF TakeBatch, now
<1>2. /\ Locked(t) /\ ~m_request_stop
      /\ fOk' = [fOk EXCEPT ![t] = now.allOk]
      /\ nTodo' = now.todo /\ fAllOk' = now.allOk
      /\ pc' = GoTo(t, now, "working")
      /\ UNCHANGED <<m_request_stop, added, adding, result>>
  BY DEF TakeBatch, now
<1>3. /\ OutstandingBut(t) \subseteq added
      /\ now.todo = Cardinality(OutstandingBut(t))
      /\ now.allOk = ((added \ OutstandingBut(t)) \cap Bad = {})
      /\ now.allOk \in BOOLEAN
      /\ now.allOk => fAllOk
  BY <1>2, ResumedAccounts DEF now
<1>4. /\ Outstanding' = OutstandingBut(t)
      /\ Disjoint'
      /\ vChecks' \in [Threads -> SUBSET Checks]
      /\ queue' \subseteq Checks
  BY <1>1, <1>2, SectionAccounts
<1>5. /\ pc' \in [Threads -> {"off", "locking", "waiting", "woken", "working"}]
      /\ pc'[t] = "working"
      /\ \A u \in Threads \ {t} :
            \/ pc'[u] = pc[u]
            \/ pc[u] = "waiting" /\ pc'[u] = "woken"
  BY <1>2, GoToFacts DEF IInv
<1>6. Accounted'
  BY <1>2, <1>3, <1>4 DEF Accounted
<1>7. batch # {}
  BY <1>1, FS_EmptySet, BatchNotEmpty
<1>8. Typed'
  <2>1. nTodo' \in Int
    BY <1>2, <1>3, ChecksFinite DEF OutstandingBut
  <2>2. fAllOk' \in BOOLEAN
    BY <1>2, <1>3
  <2>3. fOk' \in [Threads -> BOOLEAN]
    BY <1>2, <1>3 DEF IInv, Typed
  <2> QED BY <1>2, <1>4, <1>5, <2>1, <2>2, <2>3 DEF IInv, Typed
<1>9. BatchesOK'
  <2>1. /\ vChecks'[t] = batch /\ fOk'[t] = now.allOk
        /\ \A u \in Threads \ {t} : vChecks'[u] = vChecks[u] /\ fOk'[u] = fOk[u]
    BY <1>1, <1>2 DEF IInv, Typed
  <2>2. fAllOk' => fAllOk
    BY <1>2, <1>3
  <2>3. \A u \in Threads \ {t} :
          /\ vChecks'[u] # {} => pc'[u] \in {"working", "locking"}
          /\ pc'[u] = "working" => vChecks'[u] # {} /\ (fOk'[u] \/ ~fAllOk')
          /\ pc'[u] = "locking" /\ vChecks'[u] # {} =>
                IF fOk'[u] THEN vChecks'[u] \cap Bad = {}
                ELSE vChecks'[u] \cap Bad # {} \/ ~fAllOk'
    BY <1>5, <2>1, <2>2, OthersKeepBatches
  <2>4. fOk'[t] \/ ~fAllOk'
    BY <1>2, <2>1
  <2> QED BY <1>5, <1>7, <2>1, <2>3, <2>4 DEF BatchesOK
<1>10. SessionOK'
  BY <1>2, <1>5 DEF IInv, SessionOK, NoMaster, Threads, Locked
<1>11. VerdictIsRight'
  BY <1>2 DEF IInv, VerdictIsRight
<1> QED BY <1>4, <1>6, <1>8, <1>9, <1>10, <1>11 DEF IInv

\* Sleep and Quit keep the invariant.
LEMMA SleepQuitIInv ==
    ASSUME IInv, NEW t \in Threads, Sleep(t) \/ Quit(t)
    PROVE  IInv'
<1> DEFINE now == Resumed(t)
<1> HIDE DEF now
<1>1. /\ Locked(t)
      /\ vChecks' = [vChecks EXCEPT ![t] = {}]
      /\ nTodo' = now.todo /\ fAllOk' = now.allOk
      /\ UNCHANGED <<queue, m_request_stop, fOk, added, adding, result>>
  BY DEF Sleep, Quit, now
<1>2. PICK at \in {"off", "waiting"} :
          /\ pc' = GoTo(t, now, at)
          /\ at = "off" => m_request_stop
          /\ at = "waiting" => ~m_request_stop
  BY DEF Sleep, Quit, now
<1>3. /\ OutstandingBut(t) \subseteq added
      /\ now.todo = Cardinality(OutstandingBut(t))
      /\ now.allOk = ((added \ OutstandingBut(t)) \cap Bad = {})
      /\ now.allOk \in BOOLEAN
      /\ now.allOk => fAllOk
  BY <1>1, ResumedAccounts DEF now
<1>4. /\ Outstanding' = OutstandingBut(t)
      /\ Disjoint'
      /\ vChecks' \in [Threads -> SUBSET Checks]
      /\ queue' \subseteq Checks
  <2>1. queue' = queue \ {}
    BY <1>1
  <2> QED BY <1>1, <2>1, SectionAccounts
<1>5. /\ pc' \in [Threads -> {"off", "locking", "waiting", "woken", "working"}]
      /\ pc'[t] = at
      /\ \A u \in Threads \ {t} :
            \/ pc'[u] = pc[u]
            \/ pc[u] = "waiting" /\ pc'[u] = "woken"
  BY <1>2, GoToFacts DEF IInv
<1>6. Accounted'
  BY <1>1, <1>3, <1>4 DEF Accounted
<1>7. Typed'
  <2>1. nTodo' \in Int
    BY <1>1, <1>3, ChecksFinite DEF OutstandingBut
  <2> QED BY <1>1, <1>3, <1>4, <1>5, <2>1 DEF IInv, Typed
<1>8. BatchesOK'
  <2>1. /\ vChecks'[t] = {}
        /\ \A u \in Threads \ {t} : vChecks'[u] = vChecks[u] /\ fOk'[u] = fOk[u]
    BY <1>1 DEF IInv, Typed
  <2>2. fAllOk' => fAllOk
    BY <1>1, <1>3
  <2>3. \A u \in Threads \ {t} :
          /\ vChecks'[u] # {} => pc'[u] \in {"working", "locking"}
          /\ pc'[u] = "working" => vChecks'[u] # {} /\ (fOk'[u] \/ ~fAllOk')
          /\ pc'[u] = "locking" /\ vChecks'[u] # {} =>
                IF fOk'[u] THEN vChecks'[u] \cap Bad = {}
                ELSE vChecks'[u] \cap Bad # {} \/ ~fAllOk'
    BY <1>5, <2>1, <2>2, OthersKeepBatches
  <2> QED BY <1>5, <2>1, <2>3 DEF BatchesOK
<1>9. SessionOK'
  <2>1. t = Master => at = "waiting"
    BY <1>1, <1>2 DEF IInv, SessionOK, NoMaster, Locked
  <2> QED BY <1>1, <1>2, <1>5, <2>1 DEF IInv, SessionOK, NoMaster, Threads, Locked
<1>10. VerdictIsRight'
  BY <1>1 DEF IInv, VerdictIsRight
<1> QED BY <1>4, <1>6, <1>7, <1>8, <1>9, <1>10 DEF IInv

\* Return keeps the invariant: nTodo is 0, so nothing is outstanding and the
\* verdict is on all that was added.
LEMMA ReturnIInv ==
    ASSUME IInv, NEW t \in Threads, Return(t)
    PROVE  IInv'
<1> DEFINE now == Resumed(t)
<1> HIDE DEF now
<1>1. /\ Locked(t) /\ t = Master /\ now.todo = 0
      /\ result' = [checks |-> added, ok |-> now.allOk]
      /\ vChecks' = [vChecks EXCEPT ![t] = {}]
      /\ nTodo' = now.todo /\ fAllOk' = TRUE /\ added' = {}
      /\ pc' = GoTo(t, now, "off")
      /\ UNCHANGED <<queue, m_request_stop, fOk, adding>>
  BY DEF Return, MasterDone, now
<1>2. /\ now.todo = Cardinality(OutstandingBut(t))
      /\ now.allOk = ((added \ OutstandingBut(t)) \cap Bad = {})
      /\ now.allOk \in BOOLEAN
  BY <1>1, ResumedAccounts DEF now
<1>3. /\ Outstanding' = OutstandingBut(t)
      /\ Disjoint'
      /\ vChecks' \in [Threads -> SUBSET Checks]
      /\ queue' \subseteq Checks
  <2>1. queue' = queue \ {}
    BY <1>1
  <2> QED BY <1>1, <2>1, SectionAccounts
<1>4. OutstandingBut(t) = {}
  BY <1>1, <1>2, ChecksFinite, FS_EmptySet DEF OutstandingBut
<1>5. /\ pc' \in [Threads -> {"off", "locking", "waiting", "woken", "working"}]
      /\ pc'[t] = "off"
      /\ \A u \in Threads \ {t} :
            \/ pc'[u] = pc[u]
            \/ pc[u] = "waiting" /\ pc'[u] = "woken"
  BY <1>1, GoToFacts DEF IInv
<1>6. Accounted'
  <2>1. fAllOk' = ((added' \ Outstanding') \cap Bad = {})
    BY <1>1
  <2> QED BY <1>1, <1>2, <1>3, <1>4, <2>1 DEF Accounted
<1>7. Typed'
  <2>1. result' \in [checks : SUBSET Checks, ok : BOOLEAN]
    BY <1>1, <1>2 DEF IInv, Typed
  <2>2. fAllOk' \in BOOLEAN
    BY <1>1, Zenon
  <2> QED BY <1>1, <1>3, <1>5, <2>1, <2>2, SMTT(60) DEF IInv, Typed
<1>8. BatchesOK'
  <2>1. \A u \in Threads : vChecks'[u] = {}
    BY <1>3, <1>4 DEF Outstanding
  <2>2. \A u \in Threads : pc'[u] # "working"
    <3>1. \A u \in Threads \ {t} : vChecks[u] = {}
      BY <1>1, <2>1 DEF IInv, Typed
    <3> QED BY <1>5, <3>1 DEF IInv, BatchesOK
  <2> QED BY <2>1, <2>2 DEF BatchesOK
<1>9. SessionOK'
  BY <1>1, <1>5 DEF IInv, SessionOK, NoMaster, Locked
<1>10. VerdictIsRight'
  <2>1. result'.checks = added /\ result'.ok = now.allOk
    BY <1>1
  <2>2. added \ OutstandingBut(t) = added
    BY <1>4
  <2> QED BY <1>2, <2>1, <2>2 DEF VerdictIsRight
<1> QED BY <1>3, <1>6, <1>7, <1>8, <1>9, <1>10 DEF IInv

\* Execute keeps the invariant: the result is the batch's own, unless it was
\* not run because the block had failed.
LEMMA ExecuteIInv ==
    ASSUME IInv, NEW t \in Threads, Execute(t)
    PROVE  IInv'
<1>1. /\ pc[t] = "working"
      /\ fOk' = [fOk EXCEPT ![t] = fOk[t] /\ vChecks[t] \cap Bad = {}]
      /\ pc' = [pc EXCEPT ![t] = "locking"]
      /\ UNCHANGED <<queue, fAllOk, nTodo, m_request_stop, vChecks, added, adding, result>>
  BY DEF Execute
<1>2. Outstanding' = Outstanding
  BY <1>1 DEF Outstanding
<1>3. Accounted' /\ Disjoint' /\ VerdictIsRight'
  BY <1>1, <1>2 DEF IInv, Accounted, Disjoint, VerdictIsRight
<1>4. fOk' \in [Threads -> BOOLEAN]
  <2>1. (fOk[t] /\ vChecks[t] \cap Bad = {}) \in BOOLEAN
    BY Zenon
  <2> QED BY <1>1, <2>1 DEF IInv, Typed
<1>5. Typed'
  BY <1>1, <1>4 DEF IInv, Typed
<1>6. SessionOK'
  BY <1>1 DEF IInv, Typed, SessionOK, NoMaster, Threads
<1>7. BatchesOK'
  <2>1. \A u \in Threads \ {t} : pc'[u] = pc[u] /\ fOk'[u] = fOk[u]
    BY <1>1 DEF IInv, Typed
  <2>2. pc'[t] = "locking"
    BY <1>1 DEF IInv, Typed
  <2>3. IF fOk'[t] THEN vChecks[t] \cap Bad = {}
        ELSE vChecks[t] \cap Bad # {} \/ ~fAllOk
    <3>1. fOk'[t] = (fOk[t] /\ vChecks[t] \cap Bad = {})
      BY <1>1 DEF IInv, Typed
    <3>2. fOk[t] \/ ~fAllOk
      BY <1>1 DEF IInv, BatchesOK
    <3> QED BY <3>1, <3>2, Zenon
  <2>4. \A u \in Threads \ {t} :
          /\ vChecks'[u] # {} => pc'[u] \in {"working", "locking"}
          /\ pc'[u] = "working" => vChecks'[u] # {} /\ (fOk'[u] \/ ~fAllOk')
          /\ pc'[u] = "locking" /\ vChecks'[u] # {} =>
                IF fOk'[u] THEN vChecks'[u] \cap Bad = {}
                ELSE vChecks'[u] \cap Bad # {} \/ ~fAllOk'
    BY <1>1, <2>1, OthersKeepBatches
  <2> QED BY <1>1, <2>2, <2>3, <2>4 DEF BatchesOK
<1> QED BY <1>3, <1>5, <1>6, <1>7 DEF IInv

\* Steps that only wake threads, or move the master between two blocks, keep
\* the invariant.
LEMMA WakingIInv ==
    ASSUME IInv,
           UNCHANGED <<queue, fAllOk, nTodo, vChecks, fOk, added, result>>,
           pc' \in [Threads -> {"off", "locking", "waiting", "woken", "working"}],
           \A t \in Threads :
               \/ pc'[t] = pc[t]
               \/ pc[t] \in {"off", "waiting"} /\ pc'[t] \in {"locking", "woken"},
           m_request_stop' \in BOOLEAN, adding' \in BOOLEAN,
           SessionOK'
    PROVE  IInv'
<1>1. Outstanding' = Outstanding
  BY DEF Outstanding
<1>2. Accounted' /\ Disjoint' /\ VerdictIsRight' /\ Typed'
  BY <1>1 DEF IInv, Accounted, Disjoint, VerdictIsRight, Typed
<1>3. BatchesOK'
  BY DEF IInv, BatchesOK
<1> QED BY <1>2, <1>3 DEF IInv

\* Add keeps the invariant: its checks are new.
LEMMA AddIInv ==
    ASSUME IInv, NEW checks \in SUBSET (Checks \ added), Add(checks)
    PROVE  IInv'
<1>1. /\ adding
      /\ queue' = queue \cup checks
      /\ nTodo' = nTodo + Cardinality(checks)
      /\ added' = added \cup checks
      /\ UNCHANGED <<fAllOk, m_request_stop, vChecks, fOk, adding, result>>
  BY DEF Add, TodoAfter
<1>2. PICK woken \in SUBSET Waiting(Workers) :
          pc' = [t \in Threads |-> IF t \in woken THEN "woken" ELSE pc[t]]
  BY DEF Add
<1>3. /\ pc' \in [Threads -> {"off", "locking", "waiting", "woken", "working"}]
      /\ \A t \in Threads :
            \/ pc'[t] = pc[t]
            \/ pc[t] = "waiting" /\ pc'[t] = "woken"
      /\ pc'[Master] = pc[Master]
  <2>1. \A t \in woken : t \in Workers /\ pc[t] = "waiting"
    BY DEF Waiting
  <2>2. Master \notin woken /\ Master \in Threads
    BY <2>1, CheckAssumption DEF Threads
  <2>3. \A t \in Threads : pc'[t] = IF t \in woken THEN "woken" ELSE pc[t]
    BY <1>2
  <2>4. \A t \in Threads :
            pc[t] \in {"off", "locking", "waiting", "woken", "working"}
    BY DEF IInv, Typed
  <2>5. pc' \in [Threads -> {"off", "locking", "waiting", "woken", "working"}]
    BY <1>2, <2>4
  <2> QED BY <2>1, <2>2, <2>3, <2>5
<1>4. Outstanding' = Outstanding \cup checks
  BY <1>1 DEF Outstanding
<1>5. Outstanding \cap checks = {}
  BY DEF IInv, Accounted
<1>6. Accounted'
  <2>1. Cardinality(Outstanding \cup checks) = nTodo + Cardinality(checks)
    <3>1. /\ IsFiniteSet(Outstanding) /\ IsFiniteSet(checks)
          /\ Cardinality(checks) \in Nat /\ Cardinality(Outstanding) \in Nat
      BY ChecksFinite DEF Outstanding
    <3>2. Cardinality(Outstanding \cup checks) = Cardinality(Outstanding)
              + Cardinality(checks) - Cardinality(Outstanding \cap checks)
      BY <3>1, FS_Union
    <3>3. Cardinality(Outstanding \cap checks) = 0
      BY <1>5, FS_EmptySet
    <3>4. nTodo = Cardinality(Outstanding)
      BY DEF IInv, Accounted
    <3> QED BY <3>1, <3>2, <3>3, <3>4
  <2>2. added' \ Outstanding' = added \ Outstanding
    BY <1>1, <1>4
  <2> QED BY <1>1, <1>4, <2>1, <2>2 DEF IInv, Accounted
<1>7. Disjoint'
  <2>1. \A t \in Threads : checks \cap vChecks[t] = {}
    BY <1>5 DEF Outstanding, IInv, Typed
  <2> QED BY <1>1, <2>1 DEF IInv, Disjoint
<1>8. Typed'
  <2>1. nTodo' \in Int
    BY <1>1, ChecksFinite, SMTT(60) DEF IInv, Typed
  <2> QED BY <1>1, <1>3, <2>1 DEF IInv, Typed
<1>9. BatchesOK'
  BY <1>1, <1>3 DEF IInv, BatchesOK
<1>10. SessionOK'
  <2>1. adding = TRUE /\ adding' = TRUE
    BY <1>1 DEF IInv, Typed
  <2> QED BY <1>1, <1>3, <2>1 DEF IInv, SessionOK, NoMaster
<1>11. VerdictIsRight'
  BY <1>1 DEF IInv, VerdictIsRight
<1> QED BY <1>6, <1>7, <1>8, <1>9, <1>10, <1>11 DEF IInv

\* StartWorkerThreads keeps the invariant: it resets a verdict that no block
\* is waiting for.
LEMMA StartIInv ==
    ASSUME IInv, StartWorkerThreads
    PROVE  IInv'
<1>1. /\ NoMaster /\ fAllOk' = TRUE
      /\ pc' = [t \in Threads |-> IF t \in Workers THEN "locking" ELSE pc[t]]
      /\ UNCHANGED <<queue, nTodo, m_request_stop, vChecks, fOk, added, adding, result>>
  BY DEF StartWorkerThreads
<1>2. added = {} /\ Outstanding = {}
  BY <1>1 DEF IInv, SessionOK, Accounted
<1>3. fAllOk
  BY <1>2 DEF IInv, Accounted
<1>4. fAllOk' = fAllOk
  BY <1>1, <1>3 DEF IInv, Typed
<1>5. \A t \in Workers : pc[t] = "off"
  BY DEF StartWorkerThreads, NoWorkers
<1>6. SessionOK'
  BY <1>1, CheckAssumption DEF IInv, SessionOK, NoMaster, Threads
<1>7. /\ pc' \in [Threads -> {"off", "locking", "waiting", "woken", "working"}]
      /\ \A t \in Threads :
            \/ pc'[t] = pc[t]
            \/ pc[t] \in {"off", "waiting"} /\ pc'[t] \in {"locking", "woken"}
  BY <1>1, <1>5 DEF IInv, Typed, Threads
<1>8. m_request_stop' \in BOOLEAN /\ adding' \in BOOLEAN
  BY <1>1 DEF IInv, Typed
<1> QED BY <1>1, <1>4, <1>6, <1>7, <1>8, WakingIInv

\* Every step keeps the invariant.
LEMMA NextIInv == IInv /\ [Next]_vars => IInv'
<1> SUFFICES ASSUME IInv, [Next]_vars PROVE IInv'
  OBVIOUS
<1>1. ASSUME NEW t \in Threads, Thread(t) PROVE IInv'
  BY <1>1, TakeBatchIInv, SleepQuitIInv, ReturnIInv, ExecuteIInv DEF Thread
<1>2. ASSUME NEW t \in Threads, SpuriousWakeup(t) PROVE IInv'
  <2>1. SessionOK'
    BY <1>2 DEF SpuriousWakeup, IInv, Typed, SessionOK, NoMaster, Threads
  <2> QED BY <1>2, <2>1, WakingIInv DEF SpuriousWakeup, IInv, Typed
<1>3. ASSUME Control PROVE IInv'
  <2>1. adding' \in BOOLEAN
    BY <1>3, Zenon DEF Control
  <2>2. SessionOK'
    BY <1>3 DEF Control, IInv, SessionOK, NoMaster
  <2> QED BY <1>3, <2>1, <2>2, WakingIInv DEF Control, IInv, Typed
<1>4. ASSUME NEW checks \in SUBSET (Checks \ added), Add(checks) PROVE IInv'
  BY <1>4, AddIInv
<1>5. ASSUME Wait PROVE IInv'
  <2>1. adding' \in BOOLEAN
    BY <1>5, Zenon DEF Wait
  <2>2. pc[Master] = "off" /\ ~m_request_stop
    BY <1>5 DEF Wait, IInv, SessionOK, NoMaster
  <2>3. SessionOK'
    BY <1>5, <2>2 DEF Wait, IInv, Typed, SessionOK, NoMaster, Threads
  <2> QED BY <1>5, <2>1, <2>2, <2>3, WakingIInv DEF Wait, IInv, Typed
<1>6. ASSUME StartWorkerThreads PROVE IInv'
  BY <1>6, StartIInv
<1>7. ASSUME StopWorkerThreads PROVE IInv'
  <2>1. PICK woken \in SUBSET Waiting(Workers) :
            pc' = [t \in Threads |-> IF t \in woken THEN "woken" ELSE pc[t]]
    BY <1>7 DEF StopWorkerThreads
  <2>2. m_request_stop' \in BOOLEAN
    BY <1>7, Zenon DEF StopWorkerThreads
  <2>3. \A t \in woken : t \in Workers /\ pc[t] = "waiting"
    BY DEF Waiting
  <2>4. pc'[Master] = pc[Master]
    BY <2>1, <2>3, CheckAssumption DEF Threads
  <2>5. SessionOK'
    BY <1>7, <2>4 DEF StopWorkerThreads, IInv, SessionOK, NoMaster
  <2>6. /\ pc' \in [Threads -> {"off", "locking", "waiting", "woken", "working"}]
        /\ \A t \in Threads :
              \/ pc'[t] = pc[t]
              \/ pc[t] \in {"off", "waiting"} /\ pc'[t] \in {"locking", "woken"}
    BY <2>1, <2>3 DEF IInv, Typed
  <2>7. UNCHANGED <<queue, fAllOk, nTodo, vChecks, fOk, added, adding, result>>
    BY <1>7 DEF StopWorkerThreads
  <2>8. adding' \in BOOLEAN
    BY <2>7 DEF IInv, Typed
  <2> QED BY <2>2, <2>5, <2>6, <2>7, <2>8, WakingIInv
<1>8. ASSUME Joined PROVE IInv'
  <2>1. m_request_stop' \in BOOLEAN
    BY <1>8, Zenon DEF Joined
  <2>2. SessionOK'
    BY <1>8 DEF Joined, IInv, SessionOK, NoMaster
  <2> QED BY <1>8, <2>1, <2>2, WakingIInv DEF Joined, IInv, Typed
<1>9. CASE UNCHANGED vars
  <2>1. SessionOK'
    BY <1>9 DEF vars, IInv, SessionOK, NoMaster
  <2> QED BY <1>9, <2>1, WakingIInv DEF vars, IInv, Typed
<1> QED BY <1>1, <1>2, <1>3, <1>4, <1>5, <1>6, <1>7, <1>8, <1>9 DEF Next

\* IInv is an invariant.
LEMMA InvariantHolds == Spec => []IInv
BY InitIInv, NextIInv, PTL DEF Spec

\* Wait returns true exactly if all the checks added to the queue are true,
\* for any number of workers and any interleaving of their batches.
THEOREM WaitIsRight == Spec => []VerdictIsRight
<1>1. IInv => VerdictIsRight
  BY DEF IInv
<1> QED BY <1>1, InvariantHolds, PTL

\* No check and no failure is left over for the next block.
THEOREM NothingLeftOver == Spec => []QueueIsDrained
<1>1. IInv => QueueIsDrained
  <2> SUFFICES ASSUME IInv, NoMaster
               PROVE  /\ queue = {} /\ nTodo = 0 /\ fAllOk
                      /\ \A t \in Threads : vChecks[t] = {}
    BY DEF QueueIsDrained
  <2>1. added = {} /\ Outstanding = {}
    BY DEF IInv, SessionOK, Accounted
  <2>2. queue = {} /\ \A t \in Threads : vChecks[t] = {}
    BY <2>1 DEF Outstanding, IInv, Typed
  <2>3. nTodo = 0
    BY <2>1, FS_EmptySet DEF IInv, Accounted
  <2>4. fAllOk
    BY <2>1 DEF IInv, Accounted
  <2> QED BY <2>2, <2>3, <2>4
<1> QED BY <1>1, InvariantHolds, PTL
=============================================================================
