--------------------------- MODULE DSProofStorage ---------------------------
(***************************************************************************)
(* The store of double-spend proofs of dsproof/storage.cpp, as operators   *)
(* on a record st: the proofs attached to a mempool transaction (live),    *)
(* the orphans in the order of their time stamps, and m_numOrphans, the    *)
(* counter the code keeps beside them.  Each operator is one critical      *)
(* section of m_lock.  The peer a proof came from is left out.             *)
(***************************************************************************)
EXTENDS Integers, SequencesExt

CONSTANTS
    Proofs,
    OutPoint(_),    \* the output a proof is about
    MaxOrphans      \* m_maxOrphans

ASSUME MaxOrphansAssumption == MaxOrphans \in Nat \ {0}

NoProofs == [live |-> {}, orphans |-> <<>>, numOrphans |-> 0]

Orphans(st) == Range(st.orphans)

Without(seq, S) == SelectSeq(seq, LAMBDA x : x \notin S)

First(seq, n) == {seq[i] : i \in {j \in DOMAIN seq : j <= n}}

(* A proof for a transaction of the mempool; an orphan is claimed.         *)
add(st, q) ==
    [live |-> st.live \cup {q},
     orphans |-> Without(st.orphans, {q}),
     numOrphans |-> st.numOrphans - (IF q \in Orphans(st) THEN 1 ELSE 0)]

(* Above 1.25 times the limit the oldest orphans go, down to the limit.    *)
(* keep is the proof that is being added, if any.                          *)
checkOrphanLimit(st, keep) ==
    IF st.numOrphans * 4 <= MaxOrphans * 5 THEN st
    ELSE LET old  == Without(st.orphans, keep)
             gone == First(old, st.numOrphans - MaxOrphans)
         IN  [st EXCEPT !.orphans = Without(@, gone),
                        !.numOrphans = @ - Cardinality(gone)]

(* n orphans more *)
incrementOrphans(st, n, keep) ==
    IF n = 0 THEN st
    ELSE checkOrphanLimit([st EXCEPT !.numOrphans = @ + n], keep)

(* A proof whose transaction is not here.  One that is an orphan already   *)
(* keeps its time stamp.                                                   *)
addOrphan(st, q) ==
    IF q \in Orphans(st) THEN st
    ELSE [incrementOrphans([st EXCEPT !.live = @ \ {q}], 1, {q})
             EXCEPT !.orphans = Append(@, q)]

findOrphans(st, outpoints) == {q \in Orphans(st) : OutPoint(q) \in outpoints}

(* Slip: the proof of a removed transaction stays live. *)
orphanExistingNot(st, q) == st

(* The transaction of a proof has left the mempool.                        *)
orphanExisting(st, q) == IF q \in st.live THEN addOrphan(st, q) ELSE st

remove(st, Q) ==
    [live |-> st.live \ Q,
     orphans |-> Without(st.orphans, Q),
     numOrphans |-> st.numOrphans - Cardinality(Q \cap Orphans(st))]

clear(st, clearOrphans) == IF clearOrphans THEN NoProofs ELSE [st EXCEPT !.live = {}]

orphanAll(st) ==
    incrementOrphans([st EXCEPT !.live = {}, !.orphans = @ \o SetToSeq(st.live)],
                     Cardinality(st.live), {})

(* The orphans older than m_secondsToKeepOrphans, the first n, are erased. *)
periodicCleanup(st, n) == remove(st, First(st.orphans, n))

=============================================================================
