-------------------------- MODULE SwapIndexProofs ---------------------------
(***************************************************************************)
(* The copies under the wanted token agree with the tables they copy, and  *)
(* once every notification has been handled the tables are those of the    *)
(* active chain, for every tree of blocks, every set of orders and every   *)
(* interleaving of the callbacks with the prune thread.                    *)
(***************************************************************************)
EXTENDS SwapIndex, WellFoundedInduction, TLAPS

(* Sets of offers: all the proof needs of an offer is its advertisement.   *)
AreOffers(S) == \A o \in S : o.ad \in Ads

(* The part of a table that has a copy *)
Wanting(S) == {o \in S : HasWant(o)}

(* What the callback and the prune thread remember between their two steps *)
(* is made of offers, and the prune thread remembers both tables alike.    *)
IInv ==
    /\ AreOffers(db.open) /\ AreOffers(db.history)
    /\ AreOffers(job.found) /\ AreOffers(job.ads)
    /\ AreOffers(doomed.history)
    /\ job.block \in Blocks
    /\ db = [open |-> db.open, openWant |-> db.openWant,
             history |-> db.history, historyWant |-> db.historyWant]
    /\ WantTablesMirror
    /\ doomed.historyWant = Wanting(doomed.history)

-----------------------------------------------------------------------------
(* Erasing the copies of orders leaves the copies of the orders left: two  *)
(* orders have one key exactly when their copies do.                       *)
LEMMA EraseMirrors ==
    ASSUME NEW T, NEW S, AreOffers(T), AreOffers(S)
    PROVE  /\ EraseWant(Wanting(T), S) = Wanting(Erase(T, S))
           /\ EraseWant(Wanting(T), Wanting(S)) = Wanting(Erase(T, S))
           /\ AreOffers(Erase(T, S))
  <1>1. ASSUME NEW p \in T, HasWant(p), NEW o \in S
        PROVE  (Key(p) = Key(o)) <=> (HasWant(o) /\ WantKey(p) = WantKey(o))
    <2>1. p.ad \in Ads /\ o.ad \in Ads
      BY DEF AreOffers
    <2>2. Key(p) = Key(o) => Want(p.ad) = Want(o.ad)
      BY <2>1, OneWantAssumption DEF Key
    <2> QED
      BY <1>1, <2>2 DEF HasWant, WantKey
  <1>2. EraseWant(Wanting(T), S) = Wanting(Erase(T, S))
    BY <1>1 DEF EraseWant, Erase, Wanting
  <1>3. EraseWant(Wanting(T), Wanting(S)) = Wanting(Erase(T, S))
    BY <1>1 DEF EraseWant, Erase, Wanting
  <1>4. AreOffers(Erase(T, S))
    BY DEF AreOffers, Erase
  <1> QED
    BY <1>2, <1>3, <1>4

(* Writing orders with their copies keeps the copies in step.              *)
LEMMA WriteMirrors ==
    ASSUME NEW T, NEW S, AreOffers(T), AreOffers(S)
    PROVE  /\ WriteWant(Wanting(T), S) = Wanting(Write(T, S))
           /\ AreOffers(Write(T, S))
  <1>1. /\ EraseWant(Wanting(T), S) = Wanting(Erase(T, S))
        /\ AreOffers(Erase(T, S))
    BY EraseMirrors
  <1>2. Wanting(Write(T, S)) = Wanting(Erase(T, S)) \cup {o \in S : HasWant(o)}
    BY DEF Wanting, Write
  <1> QED
    BY <1>1, <1>2, Zenon DEF WriteWant, Write, AreOffers

(* The advertisements of a block are offers.                               *)
LEMMA AdvertisedAreOffers ==
    ASSUME NEW b \in Blocks
    PROVE  AreOffers(Advertised(b))
  <1>1. AdsOf(b) \in Seq(Ads)
    BY SwapAssumption
  <1>2. \A i \in DOMAIN AdsOf(b) : AdsOf(b)[i] \in Ads
    BY <1>1
  <1> QED
    BY <1>2 DEF Advertised, AreOffers

(* The invariant for a database: what WriteBlock and                       *)
(* ProcessDisconnectedBlock keep.                                          *)
GoodDb(d) ==
    /\ d = [open |-> d.open, openWant |-> d.openWant,
            history |-> d.history, historyWant |-> d.historyWant]
    /\ AreOffers(d.open) /\ AreOffers(d.history)
    /\ d.openWant = Wanting(d.open) /\ d.historyWant = Wanting(d.history)

(* MoveOrderToHistory and MoveOrderToOpen keep the copies in step.         *)
LEMMA MovesMirror ==
    ASSUME NEW d, GoodDb(d), NEW S, AreOffers(S)
    PROVE  GoodDb(MoveOrderToHistory(d, S)) /\ GoodDb(MoveOrderToOpen(d, S))
  <1>1. AreOffers(d.open) /\ AreOffers(d.history)
    BY DEF GoodDb
  <1>2. /\ EraseWant(Wanting(d.open), S) = Wanting(Erase(d.open, S))
        /\ AreOffers(Erase(d.open, S))
        /\ EraseWant(Wanting(d.history), S) = Wanting(Erase(d.history, S))
        /\ AreOffers(Erase(d.history, S))
    BY <1>1, EraseMirrors
  <1>3. /\ WriteWant(Wanting(d.open), S) = Wanting(Write(d.open, S))
        /\ AreOffers(Write(d.open, S))
        /\ WriteWant(Wanting(d.history), S) = Wanting(Write(d.history, S))
        /\ AreOffers(Write(d.history, S))
    BY <1>1, WriteMirrors
  <1> QED
    BY <1>2, <1>3 DEF GoodDb, MoveOrderToHistory, MoveOrderToOpen

(* WriteBlock keeps the copies in step.                                    *)
LEMMA WriteBlockMirrors ==
    ASSUME NEW d, GoodDb(d), NEW b \in Blocks, NEW spent, AreOffers(spent)
    PROVE  GoodDb(WriteBlock(d, b, spent))
  <1> DEFINE moved == {[ad |-> o.ad, height |-> nHeight[b]] : o \in spent}
             e == MoveOrderToHistory(d, moved)
             A == Advertised(b)
  <1>1. AreOffers(moved)
    BY DEF AreOffers
  <1>2. GoodDb(e)
    BY <1>1, MovesMirror
  <1>3. AreOffers(A)
    BY AdvertisedAreOffers
  <1>4. WriteBlock(d, b, spent) = WriteSwaps(e, A)
    BY DEF WriteBlock
  <1> HIDE DEF e, A
  <1>5. /\ WriteWant(Wanting(e.open), A) = Wanting(Write(e.open, A))
        /\ AreOffers(Write(e.open, A))
    BY <1>2, <1>3, WriteMirrors DEF GoodDb
  <1>6. WriteSwaps(e, A) = [open |-> Write(e.open, A), openWant |-> WriteWant(e.openWant, A),
                            history |-> e.history, historyWant |-> e.historyWant]
    BY DEF WriteSwaps
  <1>7. GoodDb(WriteSwaps(e, A))
    BY <1>2, <1>5, <1>6, SMTT(60) DEF GoodDb
  <1> QED
    BY <1>4, <1>7

(* ProcessDisconnectedBlock keeps the copies in step.                      *)
LEMMA DisconnectMirrors ==
    ASSUME NEW d, GoodDb(d), NEW R, AreOffers(R), NEW S, AreOffers(S)
    PROVE  GoodDb(ProcessDisconnectedBlock(d, R, S))
  <1> DEFINE e == MoveOrderToOpen(d, R)
  <1>1. GoodDb(e)
    BY MovesMirror
  <1>2. ProcessDisconnectedBlock(d, R, S) = RemoveAds(e, S)
    BY DEF ProcessDisconnectedBlock
  <1> HIDE DEF e
  <1>3. /\ EraseWant(Wanting(e.open), S) = Wanting(Erase(e.open, S))
        /\ AreOffers(Erase(e.open, S))
    BY <1>1, EraseMirrors DEF GoodDb
  <1>4. RemoveAds(e, S) = [open |-> Erase(e.open, S), openWant |-> EraseWant(e.openWant, S),
                           history |-> e.history, historyWant |-> e.historyWant]
    BY DEF RemoveAds
  <1> QED
    BY <1>1, <1>2, <1>3, <1>4, SMTT(60) DEF GoodDb

-----------------------------------------------------------------------------
(* Every step keeps the invariant.                                         *)
LEMMA NextKeepsIInv == IInv /\ [Next]_vars => IInv'
  <1> SUFFICES ASSUME IInv, [Next]_vars PROVE IInv'
    OBVIOUS
  <1> USE DEF IInv
  <1>0. GoodDb(db)
    BY DEF GoodDb, WantTablesMirror, Wanting
  <1>w. ASSUME GoodDb(db') PROVE /\ AreOffers(db'.open) /\ AreOffers(db'.history)
                                 /\ db' = [open |-> db'.open, openWant |-> db'.openWant,
                                           history |-> db'.history, historyWant |-> db'.historyWant]
                                 /\ WantTablesMirror'
    BY <1>w DEF GoodDb, WantTablesMirror, Wanting
  <1>1. ASSUME NEW b \in Blocks, ActivateBestChain(b) PROVE IInv'
    BY <1>1 DEF ActivateBestChain, WantTablesMirror, AreOffers, Wanting
  <1>2. ASSUME NEW b \in Blocks, BlockConnected(b) PROVE IInv'
    <2>1. AreOffers(SpentOrders(db, b)) /\ AreOffers({})
      BY DEF AreOffers, SpentOrders
    <2>2. job'.found = SpentOrders(db, b) /\ job'.ads = {} /\ job'.block = b
      BY <1>2 DEF BlockConnected
    <2>3. UNCHANGED <<db, doomed>>
      BY <1>2 DEF BlockConnected
    <2> QED
      BY <2>1, <2>2, <2>3 DEF WantTablesMirror, Wanting, AreOffers
  <1>3. ASSUME NEW b \in Blocks, BlockDisconnected(b) PROVE IInv'
    <2>1. AreOffers(RestoredOrders(db, b)) /\ AreOffers(AdsToRemove(db, b))
      BY DEF AreOffers, RestoredOrders, AdsToRemove
    <2>2. /\ job'.found = RestoredOrders(db, b) /\ job'.ads = AdsToRemove(db, b)
          /\ job'.block = b
      BY <1>3 DEF BlockDisconnected
    <2>3. UNCHANGED <<db, doomed>>
      BY <1>3 DEF BlockDisconnected
    <2> QED
      BY <2>1, <2>2, <2>3 DEF WantTablesMirror, Wanting, AreOffers
  <1>4. ASSUME Writes PROVE IInv'
    <2>1. GoodDb(WriteBlock(db, job.block, job.found))
      BY <1>0, WriteBlockMirrors
    <2>2. GoodDb(ProcessDisconnectedBlock(db, job.found, job.ads))
      BY <1>0, DisconnectMirrors
    <2>3. GoodDb(db')
      BY <1>4, <2>1, <2>2 DEF Writes
    <2>4. /\ job'.found = {} /\ job'.ads = {} /\ job'.block \in Blocks
          /\ doomed' = doomed
      BY <1>4, TreeAssumption DEF Writes, NoJob
    <2> QED
      BY <2>3, <2>4, <1>w DEF Wanting, AreOffers
  <1>5. ASSUME CollectHistory PROVE IInv'
    <2> DEFINE cutoff == nHeight[tip] - historyBlocks
    <2>1. /\ doomed'.history = OldHistory(db, cutoff)
          /\ doomed'.historyWant = OldHistoryWant(db, cutoff)
          /\ UNCHANGED <<job, db>>
      BY <1>5 DEF CollectHistory
    <2> HIDE DEF cutoff
    <2>2. OldHistoryWant(db, cutoff) = Wanting(OldHistory(db, cutoff))
      BY DEF OldHistory, OldHistoryWant, Wanting, WantTablesMirror
    <2>3. AreOffers(OldHistory(db, cutoff))
      BY DEF AreOffers, OldHistory
    <2> QED
      BY <2>1, <2>2, <2>3 DEF WantTablesMirror, Wanting, AreOffers
  <1>6. ASSUME DeleteHistory PROVE IInv'
    <2>1. /\ EraseWant(Wanting(db.history), Wanting(doomed.history))
                 = Wanting(Erase(db.history, doomed.history))
          /\ AreOffers(Erase(db.history, doomed.history))
      BY EraseMirrors
    <2>2. db' = [open |-> db.open, openWant |-> db.openWant,
                 history |-> Erase(db.history, doomed.history),
                 historyWant |-> EraseWant(db.historyWant, doomed.historyWant)]
      BY <1>6, Zenon DEF DeleteHistory
    <2>3. GoodDb(db')
      BY <1>0, <2>1, <2>2 DEF GoodDb
    <2>4. /\ doomed'.history = {} /\ doomed'.historyWant = {} /\ job' = job
      BY <1>6 DEF DeleteHistory, NothingDoomed
    <2> QED
      BY <2>3, <2>4, <1>w DEF Wanting, AreOffers
  <1>7. CASE UNCHANGED vars
    BY <1>7 DEF vars, WantTablesMirror, AreOffers, Wanting
  <1> QED
    BY <1>1, <1>2, <1>3, <1>4, <1>5, <1>6, <1>7 DEF Next

(* Whatever the order of blocks, reorganisations and prunes, a query by    *)
(* wanted token sees exactly the orders with a wanted token that a query   *)
(* by offered token sees.                                                  *)
THEOREM CopiesAgree == Spec => []WantTablesMirror
  <1>1. Init => IInv
    BY TreeAssumption, SMTT(60) DEF Init, IInv, NoJob, NoDb, NothingDoomed, WantTablesMirror,
       AreOffers, Wanting
  <1>2. IInv => WantTablesMirror
    BY DEF IInv
  <1> QED
    BY <1>1, <1>2, NextKeepsIInv, PTL DEF Spec

-----------------------------------------------------------------------------
(* The block tree.                                                         *)

Less == {ss \in Nat \X Nat : ss[1] < ss[2]}

(* A set of natural numbers that is not empty has a least member.          *)
LEMMA SmallestMember ==
    ASSUME NEW S \in SUBSET Nat, S # {}
    PROVE  \E m \in S : \A k \in S : m <= k
  <1>1. IsWellFoundedOn(Less, Nat)
    BY NatLessThanWellFounded, ZenonT(60) DEF OpToRel, Less
  <1>2. \E m \in S : \A k \in S : ~(<<k, m>> \in Less)
    BY <1>1, WFMin, Zenon
  <1>3. \A k, m \in Nat : <<k, m>> \notin Less => m <= k
    BY DEF Less
  <1> QED
    BY <1>2, <1>3, Zenon

(* What holds of the genesis block, and of a block when it holds of its    *)
(* parent, holds of all.                                                   *)
LEMMA TreeInduction ==
    ASSUME NEW S \in SUBSET Blocks, Genesis \in S,
           \A b \in Blocks \ {Genesis} : Parent[b] \in S => b \in S
    PROVE  S = Blocks
  <1> SUFFICES ASSUME Blocks \ S # {} PROVE FALSE
    OBVIOUS
  <1> DEFINE H == {nHeight[b] : b \in Blocks \ S}
  <1>1. H \in SUBSET Nat /\ H # {}
    BY TreeAssumption
  <1>2. PICK m \in H : \A k \in H : m <= k
    BY <1>1, SmallestMember, Zenon
  <1>3. PICK b \in Blocks \ S : m = nHeight[b]
    OBVIOUS
  <1>4. b # Genesis /\ Parent[b] \in Blocks \ S
    BY TreeAssumption
  <1>5. m <= nHeight[Parent[b]]
    BY <1>2, <1>4
  <1>6. nHeight[b] = nHeight[Parent[b]] + 1 /\ nHeight[Parent[b]] \in Nat
    BY <1>4, TreeAssumption
  <1> QED
    BY <1>3, <1>5, <1>6

(* The sets of blocks that contain the parents of their members, and the   *)
(* least of them with a given block: a function that satisfies the         *)
(* equation by which Ancestry is defined.                                  *)
Closed(S) == \A x \in S \ {Genesis} : Parent[x] \in S

Least == [b \in Blocks |-> {a \in Blocks : \A S \in SUBSET Blocks :
                               b \in S /\ Closed(S) => a \in S}]

(* The least closed set of a block consists of the block and, unless it is *)
(* the genesis block, the least closed set of its parent.                  *)
LEMMA LeastStep ==
    ASSUME NEW b \in Blocks
    PROVE  Least[b] = IF b = Genesis THEN {b} ELSE {b} \cup Least[Parent[b]]
  <1>1. \A c \in Blocks : c \in Least[c] /\ Least[c] \in SUBSET Blocks
    BY DEF Least
  <1>2. ASSUME NEW c \in Blocks, NEW S \in SUBSET Blocks, c \in S, Closed(S)
        PROVE  Least[c] \subseteq S
    BY <1>2 DEF Least
  <1>3. ASSUME NEW c \in Blocks
        PROVE  Closed(Least[c])
    <2> SUFFICES ASSUME NEW x \in Least[c], x # Genesis,
                        NEW S \in SUBSET Blocks, c \in S, Closed(S)
                 PROVE  Parent[x] \in S
      BY <1>1, TreeAssumption, Zenon DEF Closed, Least
    <2>1. x \in S
      BY <1>2
    <2> QED
      BY <2>1 DEF Closed
  <1>4. CASE b = Genesis
    <2>1. Closed({b}) /\ {b} \in SUBSET Blocks
      BY <1>4 DEF Closed
    <2>2. Least[b] \subseteq {b}
      BY <1>2, <2>1
    <2> QED
      BY <1>1, <1>4, <2>2
  <1>5. CASE b # Genesis
    <2> DEFINE S == {b} \cup Least[Parent[b]]
    <2>1. Parent[b] \in Blocks
      BY <1>5, TreeAssumption
    <2>2. S \in SUBSET Blocks /\ b \in S
      BY <1>1, <2>1
    <2>3. Closed(S)
      BY <1>1, <1>3, <2>1 DEF Closed
    <2>4. Least[b] \subseteq S
      BY <1>2, <2>2, <2>3
    <2>5. Parent[b] \in Least[b]
      BY <1>1, <1>3, <1>5 DEF Closed
    <2>6. Least[Parent[b]] \subseteq Least[b]
      BY <1>1, <1>2, <1>3, <2>1, <2>5
    <2> QED
      BY <1>1, <1>5, <2>4, <2>6
  <1> QED
    BY <1>4, <1>5

(* Ancestry is what its definition says, as some function is.              *)
LEMMA PathIs ==
    ASSUME NEW b \in Blocks
    PROVE  Path[b] = IF b = Genesis THEN {b} ELSE {b} \cup Path[Parent[b]]
  <1> DEFINE Equation(f) ==
        f = [c \in Blocks |-> IF c = Genesis THEN {c} ELSE {c} \cup f[Parent[c]]]
  <1>1. Equation(Least)
    BY LeastStep DEF Least
  <1>2. Ancestry = CHOOSE f : Equation(f)
    BY DEF Ancestry
  <1> HIDE DEF Equation
  <1>3. Equation(Ancestry)
    BY <1>1, <1>2
  <1>4. \A c \in Blocks : Ancestry[c] = IF c = Genesis THEN {c} ELSE {c} \cup Ancestry[Parent[c]]
    BY <1>3, Zenon DEF Equation
  <1>5. b # Genesis => Parent[b] \in Blocks
    BY TreeAssumption
  <1> QED
    BY <1>4, <1>5, Zenon DEF Path

(* A chain consists of blocks, its last block among them, and of the       *)
(* chains of its members; the other members are lower than the last.       *)
LEMMA PathOf ==
    ASSUME NEW b \in Blocks
    PROVE  /\ b \in Path[b] /\ Path[b] \subseteq Blocks
           /\ \A a \in Path[b] : Path[a] \subseteq Path[b]
           /\ \A a \in Path[b] \ {b} : nHeight[a] < nHeight[b]
           /\ \A a, c \in Path[b] : a \in Path[c] \/ c \in Path[a]
  <1> DEFINE Good(c) == /\ Path[c] \subseteq Blocks /\ c \in Path[c]
                        /\ \A a \in Path[c] : Path[a] \subseteq Path[c]
                        /\ \A a \in Path[c] \ {c} : nHeight[a] < nHeight[c]
                        /\ \A a, d \in Path[c] : a \in Path[d] \/ d \in Path[a]
             S == {c \in Blocks : Good(c)}
  <1>1. Genesis \in S
    BY PathIs, TreeAssumption, Zenon
  <1>2. ASSUME NEW c \in Blocks \ {Genesis}, Parent[c] \in S
        PROVE  c \in S
    <2> DEFINE q == Parent[c]
    <2>1. q \in Blocks /\ Path[c] = {c} \cup Path[q]
      BY PathIs, TreeAssumption, Zenon
    <2>2. nHeight[c] = nHeight[q] + 1 /\ nHeight[q] \in Nat
      BY <2>1, TreeAssumption
    <2>3. Good(q)
      BY <1>2
    <2>4. \A a \in Path[c] : Path[a] \subseteq Path[c]
      BY <2>1, <2>3
    <2>5. ASSUME NEW a \in Path[c] \ {c} PROVE nHeight[a] < nHeight[c]
      <3>1. a \in Path[q] /\ nHeight[a] \in Nat
        BY <2>1, <2>3, TreeAssumption
      <3>2. a = q \/ nHeight[a] < nHeight[q]
        BY <2>3, <3>1
      <3> QED
        BY <2>2, <3>1, <3>2
    <2>6. \A a, d \in Path[c] : a \in Path[d] \/ d \in Path[a]
      BY <2>1, <2>3
    <2>7. Path[c] \subseteq Blocks /\ c \in Path[c]
      BY <2>1, <2>3
    <2> QED
      BY <2>4, <2>5, <2>6, <2>7
  <1>3. S = Blocks
    <2> HIDE DEF S
    <2>1. S \in SUBSET Blocks
      BY DEF S
    <2> QED
      BY <1>1, <1>2, <2>1, TreeInduction
  <1> QED
    BY <1>3

(* Any chain but the first is the parent's with the block added.           *)
LEMMA PathStep ==
    ASSUME NEW b \in Blocks \ {Genesis}
    PROVE  /\ Parent[b] \in Blocks /\ Path[b] = Path[Parent[b]] \cup {b}
           /\ nHeight[b] = nHeight[Parent[b]] + 1
           /\ nHeight[b] \in Nat /\ nHeight[Parent[b]] \in Nat
           /\ \A a \in Path[Parent[b]] : a \in Blocks /\ a # b /\ nHeight[a] < nHeight[b]
  <1> DEFINE q == Parent[b]
  <1>1. /\ q \in Blocks /\ Path[b] = Path[q] \cup {b}
        /\ nHeight[b] = nHeight[q] + 1 /\ nHeight[b] \in Nat /\ nHeight[q] \in Nat
    BY PathIs, TreeAssumption, Zenon
  <1>2. ASSUME NEW a \in Path[q] PROVE a \in Blocks /\ a # b /\ nHeight[a] < nHeight[b]
    <2>1. a \in Blocks /\ (a = q \/ nHeight[a] < nHeight[q])
      BY <1>1, PathOf
    <2>2. nHeight[a] \in Nat
      BY <2>1, TreeAssumption
    <2> QED
      BY <1>1, <2>1, <2>2
  <1> QED
    BY <1>1, <1>2

(* A chain has one block at each height up to its own.                     *)
LEMMA PathHeights ==
    ASSUME NEW b \in Blocks
    PROVE  /\ \A a, c \in Path[b] : nHeight[a] = nHeight[c] => a = c
           /\ \A n \in Nat : n <= nHeight[b] => \E a \in Path[b] : nHeight[a] = n
  <1>1. ASSUME NEW a \in Path[b], NEW c \in Path[b], nHeight[a] = nHeight[c]
        PROVE  a = c
    <2>1. a \in Blocks /\ c \in Blocks
      BY PathOf
    <2>2. nHeight[a] \in Nat
      BY <2>1, TreeAssumption
    <2>3. a # c => nHeight[a] < nHeight[c] \/ nHeight[c] < nHeight[a]
      BY <2>1, PathOf
    <2> QED
      BY <1>1, <2>2, <2>3
  <1> DEFINE S == {d \in Blocks : \A n \in Nat :
                      n <= nHeight[d] => \E a \in Path[d] : nHeight[a] = n}
  <1>2. Genesis \in S
    BY PathOf, TreeAssumption
  <1>3. ASSUME NEW d \in Blocks \ {Genesis}, Parent[d] \in S
        PROVE  d \in S
    <2>1. /\ Path[d] = Path[Parent[d]] \cup {d}
          /\ nHeight[d] = nHeight[Parent[d]] + 1 /\ nHeight[Parent[d]] \in Nat
      BY PathStep
    <2> SUFFICES ASSUME NEW n \in Nat, n <= nHeight[d]
                 PROVE  \E a \in Path[d] : nHeight[a] = n
      OBVIOUS
    <2>2. CASE n = nHeight[d]
      BY <2>1, <2>2
    <2>3. CASE n <= nHeight[Parent[d]]
      BY <1>3, <2>1, <2>3
    <2> QED
      BY <2>1, <2>2, <2>3
  <1>4. S = Blocks
    <2> HIDE DEF S
    <2>1. S \in SUBSET Blocks
      BY DEF S
    <2> QED
      BY <1>2, <1>3, <2>1, TreeInduction
  <1> QED
    BY <1>1, <1>4

(* GetAncestor gives the block of the chain at a height, and its parent is *)
(* the one below.                                                          *)
LEMMA GetAncestorIs ==
    ASSUME NEW b \in Blocks
    PROVE  /\ \A a \in Path[b] : GetAncestor(b, nHeight[a]) = a
           /\ \A n \in 1 .. nHeight[b] :
                 /\ GetAncestor(b, n) \in Blocks \ {Genesis}
                 /\ nHeight[GetAncestor(b, n)] = n
                 /\ Parent[GetAncestor(b, n)] = GetAncestor(b, n - 1)
  <1>1. ASSUME NEW a \in Path[b] PROVE GetAncestor(b, nHeight[a]) = a
    <2>1. \A x \in Path[b] : nHeight[x] = nHeight[a] => x = a
      BY PathHeights
    <2> QED
      BY <2>1 DEF GetAncestor
  <1>2. ASSUME NEW n \in 1 .. nHeight[b]
        PROVE  /\ GetAncestor(b, n) \in Blocks \ {Genesis}
               /\ nHeight[GetAncestor(b, n)] = n
               /\ Parent[GetAncestor(b, n)] = GetAncestor(b, n - 1)
    <2>1. nHeight[b] \in Nat
      BY TreeAssumption
    <2>2. PICK a \in Path[b] : nHeight[a] = n
      BY <2>1, PathHeights
    <2>3. GetAncestor(b, n) = a
      BY <1>1, <2>2
    <2>4. a \in Blocks \ {Genesis}
      BY <2>1, <2>2, PathOf, TreeAssumption
    <2>5. Parent[a] \in Blocks /\ nHeight[Parent[a]] \in Nat /\ n = nHeight[Parent[a]] + 1
      BY <2>2, <2>4, PathStep
    <2>6. Parent[a] \in Path[a]
      BY <2>4, <2>5, PathStep, PathOf
    <2>7. Parent[a] \in Path[b]
      BY <2>6, PathOf
    <2>8. GetAncestor(b, n - 1) = Parent[a]
      BY <1>1, <2>5, <2>7
    <2> QED
      BY <2>2, <2>3, <2>4, <2>8
  <1> QED
    BY <1>1, <1>2

(* Every chain begins with the genesis block.                              *)
LEMMA GenesisOnPath ==
    ASSUME NEW b \in Blocks
    PROVE  Genesis \in Path[b]
  <1> DEFINE S == {c \in Blocks : Genesis \in Path[c]}
  <1>1. Genesis \in S
    BY PathIs, TreeAssumption, Zenon
  <1>2. \A c \in Blocks \ {Genesis} : Parent[c] \in S => c \in S
    BY PathStep
  <1>3. S = Blocks
    <2> HIDE DEF S
    <2>1. S \in SUBSET Blocks
      BY DEF S
    <2> QED
      BY <1>1, <1>2, <2>1, TreeInduction
  <1> QED
    BY <1>3

(* FindFork gives the last block that two chains share.                    *)
LEMMA FindForkIs ==
    ASSUME NEW a \in Blocks, NEW b \in Blocks
    PROVE  FindFork(a, b) \in Path[a] \cap Path[b]
  <1> DEFINE S == {c \in Blocks : \E d \in Path[a] \cap Path[c] : Path[d] = Path[a] \cap Path[c]}
  <1>1. Genesis \in S
    <2>1. Path[Genesis] = {Genesis} /\ Genesis \in Path[a] /\ Genesis \in Blocks
      BY PathIs, GenesisOnPath, TreeAssumption, Zenon
    <2> QED
      BY <2>1
  <1>2. ASSUME NEW c \in Blocks \ {Genesis}, Parent[c] \in S PROVE c \in S
    <2>1. Path[c] = Path[Parent[c]] \cup {c}
      BY PathStep
    <2>2. CASE c \in Path[a]
      <3>1. Path[c] \subseteq Path[a] /\ c \in Path[c]
        BY <2>2, PathOf
      <3> QED
        BY <2>2, <3>1
    <2>3. CASE c \notin Path[a]
      <3>1. Path[a] \cap Path[c] = Path[a] \cap Path[Parent[c]]
        BY <2>1, <2>3
      <3> QED
        BY <1>2, <3>1
    <2> QED
      BY <2>2, <2>3
  <1>3. S = Blocks
    <2> HIDE DEF S
    <2>1. S \in SUBSET Blocks
      BY DEF S
    <2> QED
      BY <1>1, <1>2, <2>1, TreeInduction
  <1>4. \E d \in Path[a] \cap Path[b] : Path[d] = Path[a] \cap Path[b]
    BY <1>3
  <1> QED
    BY <1>4 DEF FindFork

-----------------------------------------------------------------------------
(* The notifications lead the index from where it is to the tip.           *)

Event == [kind : {"connected", "disconnected"}, block : Blocks \ {Genesis}]

(* The chains before and after a callback                                  *)
From(e) == IF e.kind = "connected" THEN Parent[e.block] ELSE e.block

To(e) == IF e.kind = "connected" THEN e.block ELSE Parent[e.block]

(* What a sequence of events needs for that                                *)
Leads(a, E, b) ==
    /\ E \in Seq(Event)
    /\ \A i \in 1 .. Len(E) - 1 : To(E[i]) = From(E[i + 1])
    /\ IF E = <<>> THEN a = b ELSE From(E[1]) = a /\ To(E[Len(E)]) = b

(* One sequence of events after another                                    *)
LEMMA Concatenation ==
    ASSUME NEW Q \in Seq(Event), NEW R \in Seq(Event)
    PROVE  /\ Q \o R \in Seq(Event) /\ Len(Q \o R) = Len(Q) + Len(R)
           /\ \A i \in 1 .. Len(Q) : (Q \o R)[i] = Q[i]
           /\ \A i \in 1 .. Len(R) : (Q \o R)[Len(Q) + i] = R[i]
  OBVIOUS

(* The events of a step of ActivateBestChain lead from the old tip to the  *)
(* new one, and the earlier ones disconnect the higher blocks.             *)
LEMMA EventsLead ==
    ASSUME NEW a \in Blocks, NEW b \in Blocks, nHeight[b] = nHeight[a] + 1
    PROVE  LET depth == nHeight[a] - nHeight[FindFork(a, b)]
               E == Events(a, b)
           IN  /\ depth \in Nat /\ Leads(a, E, b) /\ Len(E) = 2 * depth + 1
               /\ \A i \in 1 .. Len(E) : E[i].kind = "disconnected" =>
                     i <= depth /\ nHeight[E[i].block] = nHeight[a] + 1 - i
  <1> DEFINE c == FindFork(a, b)
             f == nHeight[c]
             D == nHeight[a] - f
             off == [i \in 1 .. nHeight[a] - f |->
                        [kind |-> "disconnected", block |-> GetAncestor(a, nHeight[a] + 1 - i)]]
             on == [i \in 1 .. nHeight[b] - f |->
                       [kind |-> "connected", block |-> GetAncestor(b, f + i)]]
             E == Events(a, b)
  <1>1. c \in Path[a] /\ c \in Path[b] /\ c \in Blocks
    BY FindForkIs, PathOf
  <1>2. nHeight[a] \in Nat /\ nHeight[b] \in Nat /\ f \in Nat
    BY <1>1, TreeAssumption
  <1>3. D \in Nat /\ nHeight[b] - f = D + 1
    BY <1>1, <1>2, PathOf, SMTT(60)
  <1>4. GetAncestor(a, f) = c /\ GetAncestor(b, f) = c
    BY <1>1, GetAncestorIs
  <1>5. GetAncestor(a, nHeight[a]) = a /\ GetAncestor(b, nHeight[b]) = b
    BY PathOf, GetAncestorIs
  <1>6. E = off \o on
    BY DEF Events
  <1> HIDE DEF c
  <1>7. ASSUME NEW i \in 1 .. D
        PROVE  /\ off[i] \in Event /\ off[i].kind = "disconnected"
               /\ nHeight[off[i].block] = nHeight[a] + 1 - i
               /\ From(off[i]) = GetAncestor(a, nHeight[a] + 1 - i)
               /\ To(off[i]) = GetAncestor(a, nHeight[a] - i)
    <2> DEFINE n == nHeight[a] + 1 - i
               m == nHeight[a] - i
               g == GetAncestor(a, n)
    <2>1. n \in 1 .. nHeight[a] /\ n - 1 = m
      BY <1>2, <1>3
    <2>2. off[i] = [kind |-> "disconnected", block |-> g]
      OBVIOUS
    <2> HIDE DEF n, m, off
    <2>3. g \in Blocks \ {Genesis} /\ nHeight[g] = n /\ Parent[g] = GetAncestor(a, m)
      BY <2>1, GetAncestorIs
    <2> HIDE DEF g
    <2>4. off[i] \in Event /\ off[i].kind = "disconnected" /\ off[i].block = g
      BY <2>2, <2>3 DEF Event
    <2>5. From(off[i]) = g /\ To(off[i]) = GetAncestor(a, m)
      BY <2>3, <2>4 DEF From, To
    <2> QED
      BY <2>3, <2>4, <2>5 DEF n, m, g
  <1>8. ASSUME NEW i \in 1 .. D + 1
        PROVE  /\ on[i] \in Event /\ on[i].kind = "connected"
               /\ From(on[i]) = GetAncestor(b, f + i - 1)
               /\ To(on[i]) = GetAncestor(b, f + i)
    <2> DEFINE n == f + i
               m == f + i - 1
               g == GetAncestor(b, n)
    <2>1. n \in 1 .. nHeight[b] /\ n - 1 = m /\ i \in 1 .. nHeight[b] - f
      BY <1>2, <1>3
    <2>2. on[i] = [kind |-> "connected", block |-> g]
      BY <2>1
    <2> HIDE DEF n, m, on
    <2>3. g \in Blocks \ {Genesis} /\ Parent[g] = GetAncestor(b, m)
      BY <2>1, GetAncestorIs
    <2> HIDE DEF g
    <2>4. on[i] \in Event /\ on[i].kind = "connected" /\ on[i].block = g
      BY <2>2, <2>3 DEF Event
    <2>5. From(on[i]) = GetAncestor(b, m) /\ To(on[i]) = g
      BY <2>3, <2>4 DEF From, To
    <2> QED
      BY <2>4, <2>5 DEF n, m, g
  <1>9. off \in Seq(Event) /\ Len(off) = D
    <2>1. \A i \in 1 .. D : off[i] \in Event
      BY <1>7
    <2>2. off = [i \in 1 .. D |-> off[i]]
      OBVIOUS
    <2> HIDE DEF off, D
    <2> QED
      BY <1>3, <2>1, <2>2
  <1>10. on \in Seq(Event) /\ Len(on) = D + 1
    <2>1. \A i \in 1 .. D + 1 : on[i] \in Event
      BY <1>8
    <2>2. on = [i \in 1 .. D + 1 |-> on[i]]
      BY <1>3
    <2> HIDE DEF on, D
    <2> QED
      BY <1>3, <2>1, <2>2
  <1> HIDE DEF off, on
  <1>11. /\ E \in Seq(Event) /\ Len(E) = 2 * D + 1
         /\ \A i \in 1 .. D : E[i] = off[i]
         /\ \A i \in 1 .. D + 1 : E[D + i] = on[i]
    <2>1. /\ E \in Seq(Event) /\ Len(E) = Len(off) + Len(on)
          /\ \A i \in 1 .. Len(off) : E[i] = off[i]
          /\ \A i \in 1 .. Len(on) : E[Len(off) + i] = on[i]
      <3> HIDE DEF D, E, f
      <3>1. off \in Seq(Event) /\ on \in Seq(Event)
        BY <1>9, <1>10
      <3>2. /\ off \o on \in Seq(Event) /\ Len(off \o on) = Len(off) + Len(on)
            /\ \A i \in 1 .. Len(off) : (off \o on)[i] = off[i]
            /\ \A i \in 1 .. Len(on) : (off \o on)[Len(off) + i] = on[i]
        BY ONLY <3>1, Concatenation
      <3> QED
        BY ONLY <1>6, <3>2
    <2> HIDE DEF D, E
    <2> QED
      BY <1>3, <1>9, <1>10, <2>1
  <1> HIDE DEF E, f, D
  <1>12. \A i \in 1 .. Len(E) : E[i].kind = "disconnected" =>
            i <= D /\ nHeight[E[i].block] = nHeight[a] + 1 - i
    <2> SUFFICES ASSUME NEW i \in 1 .. Len(E), E[i].kind = "disconnected"
                 PROVE  i <= D /\ nHeight[E[i].block] = nHeight[a] + 1 - i
      OBVIOUS
    <2>1. CASE i \in 1 .. D
      <3>1. E[i] = off[i] /\ i <= D
        BY <1>3, <1>11, <2>1
      <3> QED
        BY <1>7, <2>1, <3>1
    <2>2. CASE i \notin 1 .. D
      <3>1. i - D \in 1 .. D + 1 /\ D + (i - D) = i
        BY <1>3, <1>11, <2>2
      <3>2. E[i] = on[i - D]
        BY <1>11, <3>1
      <3>3. E[i].kind = "connected"
        BY <1>8, <3>1, <3>2
      <3> QED
        BY <3>3
    <2> QED
      BY <2>1, <2>2
  <1>13. ASSUME NEW i \in 1 .. D
         PROVE  /\ From(E[i]) = GetAncestor(a, nHeight[a] + 1 - i)
                /\ To(E[i]) = GetAncestor(a, nHeight[a] - i)
    BY <1>7, <1>11
  <1>14. ASSUME NEW i \in 1 .. D + 1
         PROVE  /\ From(E[D + i]) = GetAncestor(b, f + i - 1)
                /\ To(E[D + i]) = GetAncestor(b, f + i)
    BY <1>8, <1>11
  <1>15. D = nHeight[a] - f /\ f + 1 - 1 = f /\ D + 1 \in 1 .. D + 1 /\ 1 \in 1 .. D + 1
         /\ f + (D + 1) = nHeight[b]
    BY <1>2, <1>3 DEF D
  <1>16. From(E[D + 1]) = c
    BY <1>4, <1>14, <1>15 DEF f
  <1>17. From(E[1]) = a
    <2>1. CASE D = 0
      <3>1. GetAncestor(a, nHeight[a]) = c
        BY <1>2, <1>4, <1>15, <2>1
      <3> QED
        BY <1>5, <1>16, <2>1, <3>1
    <2>2. CASE D # 0
      <3>1. 1 \in 1 .. D /\ nHeight[a] + 1 - 1 = nHeight[a]
        BY <1>2, <1>3, <2>2
      <3> QED
        BY <1>5, <1>13, <3>1
    <2> QED
      BY <2>1, <2>2
  <1>18. To(E[Len(E)]) = b
    <2>1. Len(E) = D + (D + 1)
      BY <1>3, <1>11
    <2> QED
      BY <1>5, <1>14, <1>15, <2>1
  <1>19. ASSUME NEW i \in 1 .. Len(E) - 1
         PROVE  To(E[i]) = From(E[i + 1])
    <2>i. i \in Nat \ {0} /\ i <= 2 * D
      BY <1>3, <1>11
    <2>1. CASE i < D
      <3>1. i \in 1 .. D /\ i + 1 \in 1 .. D /\ nHeight[a] + 1 - (i + 1) = nHeight[a] - i
        BY <1>2, <1>3, <2>i, <2>1
      <3>2. To(E[i]) = GetAncestor(a, nHeight[a] - i)
        BY <1>13, <3>1
      <3>3. From(E[i + 1]) = GetAncestor(a, nHeight[a] + 1 - (i + 1))
        BY <1>13, <3>1
      <3> QED
        BY <3>1, <3>2, <3>3
    <2>2. CASE i = D
      <3>1. i \in 1 .. D
        BY <1>3, <2>i, <2>2
      <3>2. nHeight[a] - i = f
        BY <1>2, <2>2 DEF D
      <3>3. To(E[i]) = GetAncestor(a, nHeight[a] - i)
        BY <1>13, <3>1
      <3> QED
        BY <1>4, <1>16, <2>2, <3>2, <3>3
    <2>3. CASE i > D
      <3>1. /\ i - D \in 1 .. D + 1 /\ i + 1 - D \in 1 .. D + 1
            /\ D + (i - D) = i /\ D + (i + 1 - D) = i + 1 /\ f + (i + 1 - D) - 1 = f + (i - D)
        BY <1>2, <1>3, <1>11, <2>3
      <3> QED
        BY <1>14, <3>1
    <2> QED
      BY <1>3, <2>1, <2>2, <2>3
  <1>20. E # <<>>
    BY <1>3, <1>11
  <1>21. Leads(a, E, b)
    BY <1>11, <1>17, <1>18, <1>19, <1>20 DEF Leads
  <1> QED
    BY <1>3, <1>11, <1>12, <1>21 DEF E, D, f, c

-----------------------------------------------------------------------------
(* The inductive invariant for IndexMatchesChain.                          *)

IsSpentBy(o, b) == OutPoint(Key(o)) \in Spends(b)

(* The chain up to p spends the order, at the height recorded.             *)
IsSpentOn(o, p) == \E a \in Path[p] : IsSpentBy(o, a) /\ o.height = nHeight[a]

OpenMatches(table, p) == {o.ad : o \in V2(table)} = {o.ad : o \in V2(OpenOn(p))}

(* Nothing of this height has been or is to be pruned when the active      *)
(* chain has height h.                                                     *)
IsKept(height, h) == historyBlocks = 0 \/ height >= h - historyBlocks

(* What IndexMatchesChain says of the history, and for every version that  *)
(* the chain spends the order: the order may be in the way of another.     *)
HistoryMatches(table, p, h) ==
    /\ V2(table) \subseteq SpentOn(p)
    /\ \A o \in V2(SpentOn(p)) : IsKept(o.height, h) => o \in table
    /\ \A o \in table : IsSpentOn(o, p)

(* The prune thread only holds orders that were spent too long ago for     *)
(* their block to be disconnected.                                         *)
DoomedMatches(S, p, h) ==
    \A o \in S : \E a \in Path[p] : IsSpentBy(o, a) /\ ~IsKept(nHeight[a], h)

(* What the callback remembers is still what it would find, except for     *)
(* history that has been pruned meanwhile.                                 *)
ConnectFound(d, b, found) == found = SpentOrders(d, b)

DisconnectFound(d, b, found, ads) ==
    /\ \A o \in found : IsSpentBy(o, b)
    /\ V2(found) \subseteq SpentOn(b)
    /\ \A o \in V2(SpentOn(b)) : IsSpentBy(o, b) => o \in found
    /\ RestoredOrders(d, b) \subseteq found
    /\ ads = AdsToRemove(d, b)

(* A block that is to be disconnected, with n notifications behind it, is  *)
(* not much below the tip: the tip has risen at most once for each of      *)
(* them.                                                                   *)
IsRecent(b, n, h) == h - nHeight[b] < n /\ IsKept(nHeight[b], h)

(* Where the index is once the callback has ended, and where it is now     *)
QueueFrom == IF queue = <<>> THEN tip ELSE From(queue[1])

Position == IF job = NoJob THEN QueueFrom ELSE From(job)

QueueOK ==
    /\ tip \in Blocks
    /\ Leads(QueueFrom, queue, tip)
    /\ \A i \in 1 .. Len(queue) : queue[i].kind = "disconnected" =>
          IsRecent(queue[i].block, Len(queue) - i, nHeight[tip])

JobOK ==
    job # NoJob =>
        /\ job.kind \in {"connected", "disconnected"} /\ job.block \in Blocks \ {Genesis}
        /\ To(job) = QueueFrom
        /\ job.kind = "connected" => ConnectFound(db, job.block, job.found)
        /\ job.kind = "disconnected" =>
              /\ IsRecent(job.block, Len(queue), nHeight[tip])
              /\ DisconnectFound(db, job.block, job.found, job.ads)

IndexInv ==
    /\ QueueOK /\ JobOK
    /\ OpenMatches(db.open, Position)
    /\ HistoryMatches(db.history, Position, nHeight[tip])
    /\ DoomedMatches(doomed.history, Position, nHeight[tip])

-----------------------------------------------------------------------------
(* What one more block makes of the orders of a chain.                     *)

(* An advertisement is of its block.                                       *)
LEMMA AdvertisedIs ==
    ASSUME NEW b \in Blocks, NEW o \in Advertised(b)
    PROVE  o.height = nHeight[b] /\ o.ad \in AdsIn(b)
  BY SMTT(60) DEF Advertised, AdsIn

(* The orders advertised on a chain are those of its blocks.               *)
LEMMA AdsOnIs ==
    ASSUME NEW b \in Blocks \ {Genesis}
    PROVE  /\ AdsOn(b) = AdsOn(Parent[b]) \cup Advertised(b)
           /\ \A o \in AdsOn(Parent[b]) :
                 /\ o.height < nHeight[b]
                 /\ \E a \in Path[Parent[b]] : o \in Advertised(a) /\ o.height = nHeight[a]
  <1>1. Path[b] = Path[Parent[b]] \cup {b}
    BY PathStep
  <1>2. AdsOn(b) = AdsOn(Parent[b]) \cup Advertised(b)
    BY <1>1 DEF AdsOn
  <1>3. ASSUME NEW o \in AdsOn(Parent[b])
        PROVE  /\ o.height < nHeight[b]
               /\ \E a \in Path[Parent[b]] : o \in Advertised(a) /\ o.height = nHeight[a]
    <2>1. PICK a \in Path[Parent[b]] : o \in Advertised(a)
      BY DEF AdsOn
    <2>2. a \in Blocks /\ nHeight[a] < nHeight[b]
      BY PathStep
    <2>3. o.height = nHeight[a]
      BY <2>1, <2>2, AdvertisedIs
    <2> QED
      BY <2>1, <2>2, <2>3
  <1> QED
    BY <1>2, <1>3

(* Two blocks of a chain that spend an output are one.                     *)
LEMMA SpentOnce ==
    ASSUME NEW b \in Blocks, NEW a \in Path[b], NEW c \in Path[b], NEW o,
           IsSpentBy(o, a), IsSpentBy(o, c)
    PROVE  a = c
  <1>1. a \in Blocks /\ c \in Blocks /\ (a \in Path[c] \/ c \in Path[a])
    BY PathOf
  <1>2. Spends(a) \cap Spends(c) # {}
    BY DEF IsSpentBy
  <1> QED
    BY <1>1, <1>2, SpendAssumption

(* The open orders after a block: its own, and those before it that it     *)
(* does not spend.                                                         *)
LEMMA OpenOnStep ==
    ASSUME NEW b \in Blocks \ {Genesis}
    PROVE  OpenOn(b) = Advertised(b) \cup {o \in OpenOn(Parent[b]) : ~IsSpentBy(o, b)}
  <1> DEFINE q == Parent[b]
  <1>1. /\ Path[b] = Path[q] \cup {b} /\ nHeight[b] \in Nat
        /\ \A c \in Path[q] : c \in Blocks /\ nHeight[c] < nHeight[b]
    BY PathStep
  <1>2. \A c \in Path[b] : nHeight[c] \in Nat /\ ~(nHeight[c] > nHeight[b])
    BY <1>1, TreeAssumption
  <1>3. \A o \in Advertised(b) : o.height = nHeight[b]
    BY AdvertisedIs
  <1>4. /\ AdsOn(b) = AdsOn(q) \cup Advertised(b)
        /\ \A o \in AdsOn(q) : nHeight[b] > o.height
    <2>1. \A o \in AdsOn(q) : o.height < nHeight[b]
      BY AdsOnIs
    <2> QED
      BY <2>1, AdsOnIs
  <1> HIDE DEF q
  <1>5. ASSUME NEW o \in Advertised(b) PROVE o \in OpenOn(b)
    BY <1>2, <1>3, <1>4 DEF OpenOn
  <1>6. ASSUME NEW o \in OpenOn(q), ~IsSpentBy(o, b) PROVE o \in OpenOn(b)
    BY <1>1, <1>4, <1>6 DEF OpenOn, IsSpentBy
  <1>7. ASSUME NEW o \in OpenOn(b), o \notin Advertised(b)
        PROVE  o \in OpenOn(q) /\ ~IsSpentBy(o, b)
    BY <1>1, <1>4, <1>7 DEF OpenOn, IsSpentBy
  <1> QED
    BY <1>5, <1>6, <1>7 DEF q

(* The orders spent after a block: those spent before, and those that were *)
(* open and it spends.                                                     *)
LEMMA SpentOnStep ==
    ASSUME NEW b \in Blocks \ {Genesis}
    PROVE  SpentOn(b) = SpentOn(Parent[b]) \cup
               {[ad |-> o.ad, height |-> nHeight[b]] :
                   o \in {x \in OpenOn(Parent[b]) : IsSpentBy(x, b)}}
  <1> DEFINE q == Parent[b]
             At(c, x) == [ad |-> x.ad, height |-> nHeight[c]]
             Before(c, p) == {x \in AdsOn(p) : x.height < nHeight[c] /\ OutPoint(Key(x)) \in Spends(c)}
             New == {x \in OpenOn(q) : IsSpentBy(x, b)}
  <1>1. /\ q \in Blocks /\ Path[b] = Path[q] \cup {b} /\ nHeight[b] \in Nat
        /\ \A c \in Path[q] : c \in Blocks /\ nHeight[c] < nHeight[b] /\ c # b
    BY PathStep
  <1>2. AdsOn(b) = AdsOn(q) \cup Advertised(b) /\ \A o \in AdsOn(q) : o.height < nHeight[b]
    BY AdsOnIs
  <1>3. \A o \in Advertised(b) : o.height = nHeight[b]
    BY AdvertisedIs
  <1>4. \A c \in Path[q] : nHeight[c] \in Nat
    BY <1>1, TreeAssumption
  <1>5. ASSUME NEW c \in Path[q] PROVE Before(c, b) = Before(c, q)
    BY <1>1, <1>2, <1>3, <1>4, SMTT(60)
  <1>6. Before(b, b) = New
    <2>1. ASSUME NEW x \in New PROVE x \in Before(b, b)
      BY <1>2 DEF OpenOn, IsSpentBy
    <2>2. ASSUME NEW x \in Before(b, b) PROVE x \in New
      <3>1. x \in AdsOn(q) /\ IsSpentBy(x, b)
        BY <1>1, <1>2, <1>3, SMTT(60) DEF IsSpentBy
      <3>2. ASSUME NEW c \in Path[q] PROVE OutPoint(Key(x)) \notin Spends(c)
        <4>1. c \in Path[b] /\ b \in Path[b] /\ c # b
          BY <1>1
        <4> QED
          BY <3>1, <4>1, SpentOnce DEF IsSpentBy
      <3> QED
        BY <3>1, <3>2 DEF OpenOn
    <2> QED
      BY <2>1, <2>2
  <1>7. SpentOn(b) = UNION {{At(c, x) : x \in Before(c, b)} : c \in Path[b]}
    BY DEF SpentOn
  <1>8. SpentOn(q) = UNION {{At(c, x) : x \in Before(c, q)} : c \in Path[q]}
    BY DEF SpentOn
  <1> HIDE DEF q, At, Before, New
  <1>9. SpentOn(b) = SpentOn(q) \cup {At(b, x) : x \in New}
    BY <1>1, <1>5, <1>6, <1>7, <1>8
  <1> QED
    BY <1>9 DEF q, At, New

(* The chain spends the orders spent on it.                                *)
LEMMA SpentOnIsSpent ==
    ASSUME NEW b \in Blocks, NEW o \in SpentOn(b)
    PROVE  IsSpentOn(o, b)
  <1>1. PICK c \in Path[b], x \in AdsOn(b) :
            OutPoint(Key(x)) \in Spends(c) /\ o = [ad |-> x.ad, height |-> nHeight[c]]
    BY DEF SpentOn
  <1>2. Key(o) = Key(x) /\ o.height = nHeight[c]
    BY <1>1 DEF Key
  <1> QED
    BY <1>1, <1>2 DEF IsSpentOn, IsSpentBy

(* A chain before its first order                                          *)
LEMMA GenesisOrders == OpenOn(Genesis) = {} /\ SpentOn(Genesis) = {}
  <1>1. Path[Genesis] = {Genesis}
    BY PathIs, TreeAssumption, Zenon
  <1>2. Advertised(Genesis) = {}
    BY SwapAssumption DEF Advertised
  <1>3. AdsOn(Genesis) = {}
    BY <1>1, <1>2 DEF AdsOn
  <1> QED
    BY <1>3 DEF OpenOn, SpentOn

(* No block advertises an order again that is open on its chain, or one    *)
(* that could be taken for it.                                             *)
LEMMA NotAdvertisedAgain ==
    ASSUME NEW b \in Blocks \ {Genesis}, NEW o \in V2(OpenOn(Parent[b])),
           NEW y \in AdsIn(b)
    PROVE  TokenAndHash(KeyOf(y)) # TokenAndHash(Key(o))
  <1>1. PICK a \in Path[Parent[b]] : o \in Advertised(a)
    BY DEF V2, OpenOn, AdsOn
  <1>2. a \in Blocks /\ a \in Path[b] \ {b}
    BY PathStep
  <1>3. o.ad \in AdsIn(a) /\ Version(o.ad) = 2
    BY <1>1, <1>2, AdvertisedIs DEF V2
  <1> QED
    BY <1>2, <1>3, AdvertiseAssumption DEF Key

(* OpenMatches, order by order                                             *)
LEMMA OpenMatchesIs ==
    ASSUME NEW T, NEW p
    PROVE  OpenMatches(T, p) <=>
               /\ \A o \in V2(T) : \E x \in V2(OpenOn(p)) : x.ad = o.ad
               /\ \A x \in V2(OpenOn(p)) : \E o \in V2(T) : o.ad = x.ad
  <1> DEFINE X == V2(T)
             Y == V2(OpenOn(p))
  <1>1. OpenMatches(T, p) <=> {o.ad : o \in X} = {o.ad : o \in Y}
    BY DEF OpenMatches
  <1> HIDE DEF X, Y
  <1>2. {o.ad : o \in X} \subseteq {o.ad : o \in Y}
        <=> \A o \in X : \E x \in Y : x.ad = o.ad
    OBVIOUS
  <1>3. {o.ad : o \in Y} \subseteq {o.ad : o \in X}
        <=> \A x \in Y : \E o \in X : o.ad = x.ad
    OBVIOUS
  <1>4. {o.ad : o \in X} = {o.ad : o \in Y}
        <=> /\ {o.ad : o \in X} \subseteq {o.ad : o \in Y}
            /\ {o.ad : o \in Y} \subseteq {o.ad : o \in X}
    BY Zenon
  <1> QED
    BY <1>1, <1>2, <1>3, <1>4, Zenon DEF X, Y

(* WriteBlock takes an index that matches the parent's chain to one that   *)
(* matches the block's.                                                    *)
LEMMA ConnectMatches ==
    ASSUME NEW b \in Blocks \ {Genesis}, NEW T, NEW U, NEW h,
           OpenMatches(T, Parent[b]), HistoryMatches(U, Parent[b], h)
    PROVE  LET moved == {[ad |-> o.ad, height |-> nHeight[b]] :
                            o \in {x \in T : IsSpentBy(x, b)}}
           IN  /\ OpenMatches(Write(Erase(T, moved), Advertised(b)), b)
               /\ HistoryMatches(Write(U, moved), b, h)
  <1> DEFINE q == Parent[b]
             moved == {[ad |-> o.ad, height |-> nHeight[b]] : o \in {x \in T : IsSpentBy(x, b)}}
             A == Advertised(b)
             T2 == Write(Erase(T, moved), A)
             U2 == Write(U, moved)
  <1>1. q \in Blocks /\ Path[b] = Path[q] \cup {b}
        /\ \A a \in Path[q] : a # b
    BY PathStep
  <1>2. OpenOn(b) = A \cup {o \in OpenOn(q) : ~IsSpentBy(o, b)}
    BY OpenOnStep
  <1>3. SpentOn(b) = SpentOn(q) \cup
            {[ad |-> o.ad, height |-> nHeight[b]] : o \in {x \in OpenOn(q) : IsSpentBy(x, b)}}
    BY SpentOnStep
  <1>4. \A o, x : o.ad = x.ad => Key(o) = Key(x) /\ (IsSpentBy(o, b) <=> IsSpentBy(x, b))
    BY DEF Key, IsSpentBy
  <1>5. /\ \A o \in V2(T) : \E x \in V2(OpenOn(q)) : x.ad = o.ad
        /\ \A x \in V2(OpenOn(q)) : \E o \in V2(T) : o.ad = x.ad
    BY OpenMatchesIs
  <1>6. \A m \in moved : IsSpentBy(m, b) /\ m.height = nHeight[b]
                         /\ \E o \in T : IsSpentBy(o, b) /\ o.ad = m.ad
    BY <1>4, SMTT(60)
  <1>7. ASSUME NEW o \in T, IsSpentBy(o, b)
        PROVE  \E m \in moved : m.ad = o.ad /\ Key(m) = Key(o)
    <2> DEFINE found == {x \in T : IsSpentBy(x, b)}
               m == [ad |-> o.ad, height |-> nHeight[b]]
    <2>1. o \in found
      BY <1>7
    <2> HIDE DEF found
    <2>2. m \in {[ad |-> x.ad, height |-> nHeight[b]] : x \in found}
      BY <2>1
    <2>3. m.ad = o.ad
      OBVIOUS
    <2> QED
      BY <1>4, <2>2, <2>3, Zenon DEF found
  <1>8. ASSUME NEW o, IsSpentBy(o, b), IsSpentOn(o, q) PROVE FALSE
    <2>1. PICK a \in Path[q] : IsSpentBy(o, a)
      BY <1>8 DEF IsSpentOn
    <2> QED
      BY <1>1, <1>8, <2>1, SpentOnce
  <1>9. /\ V2(U) \subseteq SpentOn(q)
        /\ \A o \in V2(SpentOn(q)) : IsKept(o.height, h) => o \in U
        /\ \A o \in U : IsSpentOn(o, q)
    BY DEF HistoryMatches
  <1>10. \A o \in SpentOn(q) : IsSpentOn(o, q)
    BY <1>1, SpentOnIsSpent
  <1> HIDE DEF q, A
  <1>11. OpenMatches(T2, b)
    <2>1. ASSUME NEW o \in V2(T2) PROVE \E x \in V2(OpenOn(b)) : x.ad = o.ad
      <3>1. CASE o \in A
        BY <1>2, <3>1 DEF V2
      <3>2. CASE o \notin A
        <4>1. o \in V2(T) /\ \A m \in moved : Key(o) # Key(m)
          BY <3>2 DEF V2, Write, Erase
        <4>2. ~IsSpentBy(o, b)
          BY <1>7, <4>1 DEF V2
        <4>3. PICK x \in V2(OpenOn(q)) : x.ad = o.ad
          BY <1>5, <4>1
        <4> QED
          BY <1>2, <1>4, <4>2, <4>3 DEF V2
      <3> QED
        BY <3>1, <3>2
    <2>2. ASSUME NEW x \in V2(OpenOn(b)) PROVE \E o \in V2(T2) : o.ad = x.ad
      <3>1. CASE x \in A
        BY <3>1 DEF V2, Write
      <3>2. CASE x \notin A
        <4>1. x \in V2(OpenOn(q)) /\ ~IsSpentBy(x, b)
          BY <1>2, <3>2 DEF V2
        <4>2. PICK o \in V2(T) : o.ad = x.ad
          BY <1>5, <4>1
        <4>3. \A m \in moved : Key(o) # Key(m)
          BY <1>4, <1>6, <4>1, <4>2 DEF IsSpentBy
        <4>4. ASSUME NEW y \in A PROVE Key(o) # Key(y)
          <5>1. y.ad \in AdsIn(b)
            BY AdvertisedIs DEF A
          <5>2. TokenAndHash(KeyOf(y.ad)) # TokenAndHash(Key(x))
            BY <4>1, <5>1, NotAdvertisedAgain DEF q
          <5> QED
            BY <1>4, <4>2, <5>2 DEF Key
        <4> QED
          BY <4>2, <4>3, <4>4 DEF V2, Write, Erase
      <3> QED
        BY <3>1, <3>2
    <2> QED
      BY <2>1, <2>2, OpenMatchesIs
  <1>12. V2(U2) \subseteq SpentOn(b)
    <2> SUFFICES ASSUME NEW o \in V2(U2) PROVE o \in SpentOn(b)
      OBVIOUS
    <2>1. CASE o \in moved
      <3>1. PICK x \in T : IsSpentBy(x, b) /\ o = [ad |-> x.ad, height |-> nHeight[b]]
        BY <2>1
      <3>2. x \in V2(T)
        BY <3>1 DEF V2
      <3>3. PICK y \in V2(OpenOn(q)) : y.ad = x.ad
        BY <1>5, <3>2, Zenon
      <3>4. y \in OpenOn(q) /\ IsSpentBy(y, b) /\ o = [ad |-> y.ad, height |-> nHeight[b]]
        BY <1>4, <3>1, <3>3 DEF V2
      <3> QED
        BY <1>3, <3>4
    <2>2. CASE o \notin moved
      BY <1>3, <1>9, <2>2 DEF V2, Write, Erase
    <2> QED
      BY <2>1, <2>2
  <1>13. \A o \in V2(SpentOn(b)) : IsKept(o.height, h) => o \in U2
    <2> SUFFICES ASSUME NEW o \in V2(SpentOn(b)), IsKept(o.height, h) PROVE o \in U2
      OBVIOUS
    <2>1. CASE o \in SpentOn(q)
      <3>1. o \in U /\ IsSpentOn(o, q)
        BY <1>9, <1>10, <2>1 DEF V2
      <3>2. ~IsSpentBy(o, b)
        BY <1>8, <3>1
      <3>3. \A m \in moved : Key(o) # Key(m)
        BY <1>6, <3>2 DEF IsSpentBy
      <3> QED
        BY <3>1, <3>3 DEF Write, Erase
    <2>2. CASE o \notin SpentOn(q)
      <3>1. PICK x \in OpenOn(q) : IsSpentBy(x, b) /\ o = [ad |-> x.ad, height |-> nHeight[b]]
        BY <1>3, <2>2 DEF V2
      <3>2. x \in V2(OpenOn(q))
        BY <3>1 DEF V2
      <3>3. PICK y \in V2(T) : y.ad = x.ad
        BY <1>5, <3>2
      <3>4. y \in T /\ IsSpentBy(y, b) /\ o = [ad |-> y.ad, height |-> nHeight[b]]
        BY <1>4, <3>1, <3>3 DEF V2
      <3>5. o \in moved
        BY <3>4
      <3> QED
        BY <3>5 DEF Write
    <2> QED
      BY <2>1, <2>2
  <1>14. ASSUME NEW o \in U2 PROVE IsSpentOn(o, b)
    <2>1. CASE o \in moved
      BY <1>1, <1>6, <2>1 DEF IsSpentOn
    <2>2. CASE o \notin moved
      BY <1>1, <1>9, <2>2 DEF Write, Erase, IsSpentOn
    <2> QED
      BY <2>1, <2>2
  <1>15. HistoryMatches(U2, b, h)
    BY <1>12, <1>13, <1>14 DEF HistoryMatches
  <1> QED
    BY <1>11, <1>15 DEF A

(* ProcessDisconnectedBlock takes an index that matches the block's chain  *)
(* to one that matches its parent's.                                       *)
LEMMA DisconnectMatches ==
    ASSUME NEW b \in Blocks \ {Genesis}, NEW d, NEW R, NEW S, NEW h,
           OpenMatches(d.open, b), HistoryMatches(d.history, b, h),
           DisconnectFound(d, b, R, S)
    PROVE  /\ OpenMatches(Erase(Write(d.open, R), S), Parent[b])
           /\ HistoryMatches(Erase(d.history, R), Parent[b], h)
  <1> DEFINE q == Parent[b]
             A == Advertised(b)
             T == d.open
             U == d.history
             T2 == Erase(Write(T, R), S)
             U2 == Erase(U, R)
  <1>1. q \in Blocks /\ Path[b] = Path[q] \cup {b}
        /\ \A a \in Path[q] : a # b
    BY PathStep
  <1>2. OpenOn(b) = A \cup {o \in OpenOn(q) : ~IsSpentBy(o, b)}
    BY OpenOnStep
  <1>3. SpentOn(b) = SpentOn(q) \cup
            {[ad |-> o.ad, height |-> nHeight[b]] : o \in {x \in OpenOn(q) : IsSpentBy(x, b)}}
    BY SpentOnStep
  <1>4. \A o, x : o.ad = x.ad => Key(o) = Key(x) /\ (IsSpentBy(o, b) <=> IsSpentBy(x, b))
    BY DEF Key, IsSpentBy
  <1>5. /\ \A o \in V2(T) : \E x \in V2(OpenOn(b)) : x.ad = o.ad
        /\ \A x \in V2(OpenOn(b)) : \E o \in V2(T) : o.ad = x.ad
    BY OpenMatchesIs
  <1>6. /\ \A o \in R : IsSpentBy(o, b)
        /\ V2(R) \subseteq SpentOn(b)
        /\ \A o \in V2(SpentOn(b)) : IsSpentBy(o, b) => o \in R
        /\ \A o \in U : IsSpentBy(o, b) => o \in R
    BY DEF DisconnectFound, RestoredOrders, IsSpentBy
  <1>7. /\ \A s \in S : \E a \in AdsIn(b) : TokenAndHash(KeyOf(a)) = TokenAndHash(Key(s))
        /\ \A o \in T : \A a \in AdsIn(b) :
              Version(a) = 2 /\ KeyOf(a) = Key(o) => o \in S
    BY AdvertiseAssumption DEF DisconnectFound, AdsToRemove
  <1>8. ASSUME NEW o, IsSpentBy(o, b), IsSpentOn(o, q) PROVE FALSE
    <2>1. PICK a \in Path[q] : IsSpentBy(o, a)
      BY <1>8, Zenon DEF IsSpentOn
    <2> QED
      BY <1>1, <1>8, <2>1, SpentOnce
  <1>9. /\ V2(U) \subseteq SpentOn(b)
        /\ \A o \in V2(SpentOn(b)) : IsKept(o.height, h) => o \in U
        /\ \A o \in U : IsSpentOn(o, b)
    BY DEF HistoryMatches
  <1>10. \A o \in SpentOn(q) : IsSpentOn(o, q)
    BY <1>1, SpentOnIsSpent
  <1>11. ASSUME NEW x \in V2(OpenOn(q)), NEW s \in S PROVE Key(x) # Key(s)
    BY <1>7, NotAdvertisedAgain
  <1>12. ASSUME NEW o \in V2(SpentOn(b)), o \notin SpentOn(q)
         PROVE  IsSpentBy(o, b) /\ \E x \in V2(OpenOn(q)) : x.ad = o.ad
    <2>1. PICK x \in OpenOn(q) : IsSpentBy(x, b) /\ o = [ad |-> x.ad, height |-> nHeight[b]]
      BY <1>3, <1>12 DEF V2
    <2>2. x.ad = o.ad
      BY <2>1
    <2> QED
      BY <1>4, <2>1, <2>2 DEF V2
  <1> HIDE DEF q, A, T, U
  <1>13. OpenMatches(T2, q)
    <2>1. ASSUME NEW o \in V2(T2) PROVE \E x \in V2(OpenOn(q)) : x.ad = o.ad
      <3>1. CASE o \in R
        <4>1. o \in V2(SpentOn(b)) /\ IsSpentBy(o, b)
          BY <1>6, <3>1 DEF V2
        <4>2. o \notin SpentOn(q)
          BY <1>8, <1>10, <4>1
        <4> QED
          BY <1>12, <4>1, <4>2
      <3>2. CASE o \notin R
        <4>1. o \in V2(T) /\ o \notin S
          BY <3>2 DEF V2, Write, Erase
        <4>2. PICK x \in V2(OpenOn(b)) : x.ad = o.ad
          BY <1>5, <4>1
        <4>3. x \notin A
          <5> SUFFICES ASSUME x \in A PROVE FALSE
            OBVIOUS
          <5>1. x.ad \in AdsIn(b) /\ Version(x.ad) = 2
            BY AdvertisedIs DEF A, V2
          <5>2. KeyOf(x.ad) = Key(o) /\ o \in T
            BY <4>1, <4>2 DEF Key, V2
          <5> QED
            BY <1>7, <4>1, <5>1, <5>2
        <4> QED
          BY <1>2, <4>2, <4>3 DEF V2
      <3> QED
        BY <3>1, <3>2
    <2>2. ASSUME NEW x \in V2(OpenOn(q)) PROVE \E o \in V2(T2) : o.ad = x.ad
      <3>1. CASE IsSpentBy(x, b)
        <4> DEFINE o == [ad |-> x.ad, height |-> nHeight[b]]
        <4>1. o.ad = x.ad /\ o \in SpentOn(b)
          BY <1>3, <3>1 DEF V2
        <4> HIDE DEF o
        <4>2. o \in V2(SpentOn(b)) /\ IsSpentBy(o, b) /\ Key(o) = Key(x)
          BY <1>4, <3>1, <4>1 DEF V2
        <4>3. o \in R
          BY <1>6, <4>2
        <4> QED
          BY <1>11, <4>1, <4>2, <4>3 DEF V2, Write, Erase
      <3>2. CASE ~IsSpentBy(x, b)
        <4>1. x \in V2(OpenOn(b))
          BY <1>2, <3>2 DEF V2
        <4>2. PICK o \in V2(T) : o.ad = x.ad
          BY <1>5, <4>1
        <4>3. Key(o) = Key(x) /\ ~IsSpentBy(o, b)
          BY <1>4, <3>2, <4>2
        <4>4. \A r \in R : Key(o) # Key(r)
          BY <1>6, <4>3 DEF IsSpentBy
        <4> QED
          BY <1>11, <4>2, <4>3, <4>4 DEF V2, Write, Erase
      <3> QED
        BY <3>1, <3>2
    <2> QED
      BY <2>1, <2>2, OpenMatchesIs
  <1>14. V2(U2) \subseteq SpentOn(q)
    <2> SUFFICES ASSUME NEW o \in V2(U2), o \notin SpentOn(q) PROVE FALSE
      OBVIOUS
    <2>1. o \in V2(U) /\ o \notin R
      BY DEF V2, Erase
    <2>2. o \in V2(SpentOn(b))
      BY <1>9, <2>1 DEF V2
    <2> QED
      BY <1>6, <1>12, <2>1, <2>2
  <1>15. ASSUME NEW o \in V2(SpentOn(q)), IsKept(o.height, h) PROVE o \in U2
    <2>1. o \in U
      BY <1>3, <1>9, <1>15 DEF V2
    <2>2. ~IsSpentBy(o, b)
      BY <1>8, <1>10 DEF V2
    <2>3. \A r \in R : Key(o) # Key(r)
      BY <1>6, <2>2 DEF IsSpentBy
    <2> QED
      BY <2>1, <2>3 DEF Erase
  <1>16. ASSUME NEW o \in U2 PROVE IsSpentOn(o, q)
    <2>1. o \in U /\ o \notin R
      BY DEF Erase
    <2>2. PICK a \in Path[b] : IsSpentBy(o, a) /\ o.height = nHeight[a]
      BY <1>9, <2>1 DEF IsSpentOn
    <2>3. a # b
      BY <1>6, <2>1, <2>2
    <2> QED
      BY <1>1, <2>2, <2>3 DEF IsSpentOn
  <1>17. HistoryMatches(U2, q, h)
    BY <1>14, <1>15, <1>16 DEF HistoryMatches
  <1> QED
    BY <1>13, <1>17 DEF q, T, U

-----------------------------------------------------------------------------
(* The steps.                                                              *)

(* Two ways through the tree, one after the other                          *)
LEMMA LeadsOn ==
    ASSUME NEW a, NEW b, NEW c, NEW Q, NEW E,
           Leads(a, Q, b), Leads(b, E, c), E # <<>>
    PROVE  Leads(a, Q \o E, c) /\ Q \o E # <<>>
  <1> DEFINE R == Q \o E
             n == Len(Q)
             m == Len(E)
  <1>1. Q \in Seq(Event) /\ E \in Seq(Event)
    BY DEF Leads
  <1>2. n \in Nat /\ m \in Nat /\ m > 0
    BY <1>1
  <1>3. /\ R \in Seq(Event) /\ Len(R) = n + m
        /\ \A i \in 1 .. n : R[i] = Q[i]
        /\ \A i \in 1 .. m : R[n + i] = E[i]
    BY <1>1, Concatenation
  <1>4. /\ \A i \in 1 .. n - 1 : To(Q[i]) = From(Q[i + 1])
        /\ n = 0 => a = b
        /\ n > 0 => From(Q[1]) = a /\ To(Q[n]) = b
    BY <1>1 DEF Leads
  <1>5. /\ \A i \in 1 .. m - 1 : To(E[i]) = From(E[i + 1])
        /\ From(E[1]) = b /\ To(E[m]) = c
    BY DEF Leads
  <1> HIDE DEF R, n, m
  <1>6. ASSUME NEW i \in 1 .. (n + m) - 1 PROVE To(R[i]) = From(R[i + 1])
    <2>1. CASE i < n
      <3>1. i \in 1 .. n - 1 /\ i \in 1 .. n /\ i + 1 \in 1 .. n
        BY <1>2, <2>1
      <3> QED
        BY <1>3, <1>4, <3>1
    <2>2. CASE i = n
      <3>1. n \in 1 .. n /\ 1 \in 1 .. m /\ n > 0
        BY <1>2, <2>2
      <3>2. R[n] = Q[n] /\ R[n + 1] = E[1]
        BY <1>3, <3>1
      <3> QED
        BY <1>4, <1>5, <2>2, <3>1, <3>2
    <2>3. CASE i > n
      <3> DEFINE j == i - n
      <3>1. j \in 1 .. m - 1 /\ j \in 1 .. m /\ j + 1 \in 1 .. m
            /\ i = n + j /\ i + 1 = n + (j + 1)
        BY <1>2, <2>3
      <3> HIDE DEF j
      <3>2. R[n + j] = E[j] /\ R[n + (j + 1)] = E[j + 1]
        BY <1>3, <3>1
      <3> QED
        BY <1>5, <3>1, <3>2
    <2> QED
      BY <1>2, <2>1, <2>2, <2>3
  <1>7. To(R[n + m]) = c
    <2>1. m \in 1 .. m
      BY <1>2
    <2> QED
      BY <1>3, <1>5, <2>1
  <1>8. From(R[1]) = a
    <2>1. CASE n = 0
      <3>1. 1 \in 1 .. m /\ n + 1 = 1
        BY <1>2, <2>1
      <3>2. R[n + 1] = E[1]
        BY <1>3, <3>1
      <3> QED
        BY <1>4, <1>5, <2>1, <3>1, <3>2
    <2>2. CASE n > 0
      <3>1. 1 \in 1 .. n
        BY <1>2, <2>2
      <3> QED
        BY <1>3, <1>4, <2>2, <3>1
    <2> QED
      BY <1>2, <2>1, <2>2
  <1>9. R # <<>>
    BY <1>2, <1>3
  <1>10. Leads(a, R, c)
    BY <1>3, <1>6, <1>7, <1>8, <1>9 DEF Leads
  <1> QED
    BY <1>9, <1>10 DEF R

(* A block to be disconnected stays within reach when the tip rises: not   *)
(* too many callbacks are pending.                                         *)
LEMMA RecentGrows ==
    ASSUME NEW b \in Blocks, NEW n \in Nat, NEW e \in Nat, NEW h \in Nat,
           n <= MaxPending, e > 0, IsRecent(b, n, h)
    PROVE  IsRecent(b, n + e, h + 1)
  <1>1. nHeight[b] \in Nat /\ historyBlocks \in Nat /\ MaxPending \in Nat
        /\ (historyBlocks = 0 \/ historyBlocks >= MaxPending)
    BY TreeAssumption, SwapAssumption, RetentionAssumption
  <1> QED
    BY <1>1 DEF IsRecent, IsKept

(* So is a block that the next step is to disconnect.                      *)
LEMMA RecentStarts ==
    ASSUME NEW b, NEW D \in Nat, NEW j \in Nat, NEW h \in Nat,
           j <= D, D <= MaxReorg, nHeight[b] = h + 1 - j
    PROVE  IsRecent(b, 2 * D + 1 - j, h + 1)
  <1>1. historyBlocks \in Nat /\ MaxReorg \in Nat
        /\ (historyBlocks = 0 \/ historyBlocks >= MaxReorg)
    BY SwapAssumption, RetentionAssumption
  <1> QED
    BY <1>1 DEF IsRecent, IsKept

(* The members of a sequence of events                                     *)
LEMMA MemberIs ==
    ASSUME NEW Q \in Seq(Event), NEW i \in 1 .. Len(Q)
    PROVE  Q[i].kind \in {"connected", "disconnected"} /\ Q[i].block \in Blocks \ {Genesis}
  <1>1. Q[i] \in Event
    OBVIOUS
  <1> QED
    BY <1>1 DEF Event

(* What is pruned when the chain has one height is when it has the next.   *)
LEMMA KeptShrinks ==
    ASSUME NEW x \in Nat, NEW h \in Nat, IsKept(x, h + 1)
    PROVE  IsKept(x, h)
  BY SwapAssumption DEF IsKept

(* A step of ActivateBestChain adds a way from the old tip to the new.     *)
LEMMA ActivateQueue ==
    ASSUME QueueOK, NEW b \in Blocks, ActivateBestChain(b)
    PROVE  QueueOK' /\ QueueFrom' = QueueFrom /\ Len(queue') > Len(queue)
           /\ queue \in Seq(Event)
  <1> DEFINE E == Events(tip, b)
             D == nHeight[tip] - nHeight[FindFork(tip, b)]
             n == Len(queue)
             h == nHeight[tip]
  <1>1. /\ tip \in Blocks /\ Leads(QueueFrom, queue, tip)
        /\ \A i \in 1 .. n : queue[i].kind = "disconnected" =>
              IsRecent(queue[i].block, n - i, h)
    BY DEF QueueOK
  <1>2. /\ nHeight[b] = h + 1 /\ D <= MaxReorg /\ n <= MaxPending
        /\ tip' = b /\ queue' = queue \o E
    BY DEF ActivateBestChain
  <1>3. /\ D \in Nat /\ Leads(tip, E, b) /\ Len(E) = 2 * D + 1
        /\ \A i \in 1 .. Len(E) : E[i].kind = "disconnected" =>
              i <= D /\ nHeight[E[i].block] = h + 1 - i
    BY <1>1, <1>2, EventsLead
  <1> HIDE DEF E, D
  <1>4. queue \in Seq(Event) /\ E \in Seq(Event)
    BY <1>1, <1>3 DEF Leads
  <1>5. /\ Len(queue \o E) = n + Len(E)
        /\ \A i \in 1 .. n : (queue \o E)[i] = queue[i]
        /\ \A i \in 1 .. Len(E) : (queue \o E)[n + i] = E[i]
    BY <1>4, Concatenation
  <1>6. n \in Nat /\ h \in Nat /\ D \in Nat /\ Len(E) = 2 * D + 1 /\ Len(E) \in Nat
    BY <1>1, <1>3, <1>4, TreeAssumption, SMTT(60)
  <1>7. E # <<>>
    BY <1>4, <1>6
  <1>8. Leads(QueueFrom, queue \o E, b) /\ queue \o E # <<>>
    BY <1>1, <1>3, <1>7, LeadsOn
  <1>9. QueueFrom' = QueueFrom
    <2> DEFINE R == queue \o E
    <2>1. Leads(QueueFrom, R, b) /\ R # <<>> /\ queue' = R
      BY <1>2, <1>8
    <2> HIDE DEF R
    <2>2. From(R[1]) = QueueFrom
      BY <2>1 DEF Leads
    <2>3. QueueFrom' = From(R[1])
      BY <2>1 DEF QueueFrom
    <2> QED
      BY <2>2, <2>3
  <1>10. \A i \in 1 .. n : queue[i].block \in Blocks
    BY <1>4, MemberIs
  <1> HIDE DEF n, h
  <1>12. ASSUME NEW i \in 1 .. n + Len(E), (queue \o E)[i].kind = "disconnected"
         PROVE  IsRecent((queue \o E)[i].block, (n + Len(E)) - i, h + 1)
    <2>1. CASE i <= n
      <3>1. i \in 1 .. n /\ n - i \in Nat /\ n - i <= MaxPending /\ Len(E) > 0
            /\ (n + Len(E)) - i = (n - i) + Len(E)
        BY <1>2, <1>6, <2>1, SwapAssumption
      <3>2. IsRecent(queue[i].block, n - i, h) /\ (queue \o E)[i] = queue[i]
        BY <1>1, <1>5, <1>12, <3>1
      <3>3. IsRecent(queue[i].block, (n - i) + Len(E), h + 1)
        BY <1>6, <1>10, <3>1, <3>2, RecentGrows, Zenon
      <3> QED
        BY <3>1, <3>2, <3>3
    <2>2. CASE i > n
      <3> DEFINE j == i - n
      <3>1. j \in 1 .. Len(E) /\ j \in Nat /\ i = n + j /\ (n + Len(E)) - i = Len(E) - j
        BY <1>6, <2>2
      <3> HIDE DEF j
      <3>2. (queue \o E)[i] = E[j]
        BY <1>5, <3>1
      <3>3. j <= D /\ nHeight[E[j].block] = h + 1 - j
        BY <1>3, <1>12, <3>1, <3>2
      <3>4. IsRecent(E[j].block, 2 * D + 1 - j, h + 1)
        BY <1>2, <1>6, <3>1, <3>3, RecentStarts, Zenon
      <3> QED
        BY <1>6, <3>1, <3>2, <3>4
    <2>3. i <= n \/ i > n
      BY <1>6
    <2> QED
      BY <2>1, <2>2, <2>3, Zenon
  <1>13. QueueOK'
    BY <1>2, <1>5, <1>8, <1>9, <1>12 DEF QueueOK
  <1> QED
    BY <1>2, <1>4, <1>5, <1>6, <1>9, <1>13, SMTT(60) DEF n

(* The index is at a block.                                                *)
LEMMA PositionIs ==
    ASSUME QueueOK, JobOK
    PROVE  QueueFrom \in Blocks /\ Position \in Blocks
  <1>1. \A e : e.block \in Blocks \ {Genesis} => From(e) \in Blocks
    BY TreeAssumption DEF From
  <1>2. queue \in Seq(Event) /\ tip \in Blocks
    BY DEF QueueOK, Leads
  <1>3. queue # <<>> => queue[1].block \in Blocks \ {Genesis}
    <2> SUFFICES ASSUME queue # <<>> PROVE queue[1].block \in Blocks \ {Genesis}
      OBVIOUS
    <2>1. 1 \in 1 .. Len(queue)
      BY <1>2
    <2> QED
      BY <1>2, <2>1, MemberIs
  <1>4. QueueFrom \in Blocks
    BY <1>1, <1>2, <1>3 DEF QueueFrom
  <1> QED
    BY <1>1, <1>4 DEF Position, JobOK

(* The tip's chain grows or is replaced; the index is where it was.        *)
LEMMA ActivateKeepsIndexInv ==
    ASSUME IndexInv, NEW b \in Blocks, ActivateBestChain(b)
    PROVE  IndexInv'
  <1> DEFINE h == nHeight[tip]
             p == Position
  <1>1. QueueOK /\ JobOK /\ OpenMatches(db.open, p)
        /\ HistoryMatches(db.history, p, h) /\ DoomedMatches(doomed.history, p, h)
    BY DEF IndexInv
  <1>2. QueueOK' /\ QueueFrom' = QueueFrom /\ Len(queue') > Len(queue) /\ queue \in Seq(Event)
    BY <1>1, ActivateQueue
  <1>3. tip \in Blocks /\ h \in Nat /\ nHeight[b] = h + 1 /\ tip' = b
        /\ Len(queue) <= MaxPending /\ job' = job /\ db' = db /\ doomed' = doomed
        /\ queue' \in Seq(Event)
    BY <1>1, <1>2, TreeAssumption DEF QueueOK, ActivateBestChain, Leads
  <1>4. Position' = p
    BY <1>2, <1>3 DEF Position
  <1>5. p \in Blocks
    BY <1>1, PositionIs DEF IndexInv
  <1> HIDE DEF p, h
  <1>6. HistoryMatches(db.history, p, h + 1)
    <2>1. ASSUME NEW o \in V2(SpentOn(p)), IsKept(o.height, h + 1) PROVE o \in db.history
      <3>1. PICK a \in Path[p] : o.height = nHeight[a]
        BY <1>5, SpentOnIsSpent DEF V2, IsSpentOn
      <3>2. o.height \in Nat
        BY <1>5, <3>1, PathOf, TreeAssumption
      <3>3. IsKept(o.height, h)
        BY <1>3, <2>1, <3>2, KeptShrinks
      <3> QED
        BY <1>1, <3>3 DEF HistoryMatches
    <2> QED
      BY <1>1, <2>1 DEF HistoryMatches
  <1>7. DoomedMatches(doomed.history, p, h + 1)
    <2> SUFFICES ASSUME NEW o \in doomed.history
                 PROVE  \E a \in Path[p] : IsSpentBy(o, a) /\ ~IsKept(nHeight[a], h + 1)
      BY DEF DoomedMatches
    <2>1. PICK a \in Path[p] : IsSpentBy(o, a) /\ ~IsKept(nHeight[a], h)
      BY <1>1 DEF DoomedMatches
    <2>2. nHeight[a] \in Nat
      BY <1>5, PathOf, TreeAssumption
    <2> QED
      BY <1>3, <2>1, <2>2, KeptShrinks
  <1>8. JobOK'
    <2> SUFFICES ASSUME job # NoJob PROVE JobOK'
      BY <1>3, Zenon DEF JobOK
    <2>1. ASSUME IsRecent(job.block, Len(queue), h), job.block \in Blocks
          PROVE  IsRecent(job.block, Len(queue'), h + 1)
      <3> DEFINE n == Len(queue)
                 e == Len(queue') - Len(queue)
      <3>1. n \in Nat /\ e \in Nat /\ e > 0 /\ n <= MaxPending /\ Len(queue') = n + e
        BY <1>2, <1>3
      <3>2. IsRecent(job.block, n, h)
        BY <2>1
      <3> HIDE DEF n, e
      <3> QED
        BY <1>3, <2>1, <3>1, <3>2, RecentGrows, Zenon
    <2> QED
      BY <1>1, <1>2, <1>3, <2>1, Zenon DEF JobOK, h
  <1>9. OpenMatches(db'.open, Position')
    BY <1>1, <1>3, <1>4
  <1>10. HistoryMatches(db'.history, Position', nHeight[tip'])
         /\ DoomedMatches(doomed'.history, Position', nHeight[tip'])
    BY <1>3, <1>4, <1>6, <1>7
  <1> QED
    BY <1>2, <1>8, <1>9, <1>10 DEF IndexInv

(* The head of the queue is taken.                                         *)
LEMMA TakeHead ==
    ASSUME QueueOK, queue # <<>>, queue' = Tail(queue), tip' = tip
    PROVE  LET e == Head(queue)
           IN  /\ QueueOK' /\ QueueFrom = From(e) /\ QueueFrom' = To(e)
               /\ e.kind \in {"connected", "disconnected"} /\ e.block \in Blocks \ {Genesis}
               /\ e.kind = "disconnected" => IsRecent(e.block, Len(queue'), nHeight[tip])
  <1> DEFINE e == Head(queue)
             n == Len(queue)
             R == Tail(queue)
  <1>1. /\ tip \in Blocks /\ queue \in Seq(Event)
        /\ \A i \in 1 .. n - 1 : To(queue[i]) = From(queue[i + 1])
        /\ To(queue[n]) = tip
        /\ \A i \in 1 .. n : queue[i].kind = "disconnected" =>
              IsRecent(queue[i].block, n - i, nHeight[tip])
    BY DEF QueueOK, Leads
  <1>2. e = queue[1] /\ n \in Nat /\ n > 0 /\ R \in Seq(Event) /\ Len(R) = n - 1
        /\ \A i \in 1 .. n - 1 : R[i] = queue[i + 1]
    BY <1>1
  <1> HIDE DEF e, n, R
  <1>3. 1 \in 1 .. n
    BY <1>2
  <1>4. e.kind \in {"connected", "disconnected"} /\ e.block \in Blocks \ {Genesis}
    BY <1>1, <1>2, <1>3, MemberIs DEF n
  <1>5. e.kind = "disconnected" => IsRecent(e.block, n - 1, nHeight[tip])
    BY <1>1, <1>2, <1>3
  <1>6. QueueFrom = From(e)
    BY <1>2 DEF QueueFrom
  <1>7. QueueFrom' = IF R = <<>> THEN tip ELSE From(R[1])
    BY DEF QueueFrom, R
  <1>8. QueueFrom' = To(e)
    <2>1. CASE n = 1
      <3>1. R = <<>> /\ To(e) = tip
        BY <1>1, <1>2, <2>1
      <3> QED
        BY <1>7, <3>1
    <2>2. CASE n > 1
      <3>1. 1 \in 1 .. n - 1 /\ Len(R) > 0
        BY <1>2, <2>2
      <3>2. R # <<>> /\ R[1] = queue[1 + 1] /\ To(queue[1]) = From(queue[1 + 1])
        BY <1>1, <1>2, <3>1, SMTT(60)
      <3> QED
        BY <1>2, <1>7, <3>2
    <2> QED
      BY <1>2, <2>1, <2>2
  <1>9. ASSUME NEW i \in 1 .. Len(R) - 1 PROVE To(R[i]) = From(R[i + 1])
    <2>1. i \in 1 .. n - 1 /\ i + 1 \in 1 .. n - 1
      BY <1>2
    <2>2. R[i] = queue[i + 1] /\ R[i + 1] = queue[(i + 1) + 1]
      BY <1>2, <2>1
    <2> QED
      BY <1>1, <2>1, <2>2
  <1>10. R # <<>> => To(R[Len(R)]) = tip
    <2> SUFFICES ASSUME R # <<>> PROVE To(R[Len(R)]) = tip
      OBVIOUS
    <2>1. n - 1 \in 1 .. n - 1 /\ (n - 1) + 1 = n
      BY <1>2
    <2>2. R[n - 1] = queue[n]
      BY <1>2, <2>1
    <2> QED
      BY <1>1, <1>2, <2>2
  <1>11. Leads(QueueFrom', R, tip)
    BY <1>2, <1>7, <1>9, <1>10 DEF Leads
  <1>12. ASSUME NEW i \in 1 .. Len(R), R[i].kind = "disconnected"
         PROVE  IsRecent(R[i].block, Len(R) - i, nHeight[tip])
    <2>1. i \in 1 .. n - 1 /\ i + 1 \in 1 .. n /\ Len(R) - i = n - (i + 1)
      BY <1>2
    <2>2. R[i] = queue[i + 1]
      BY <1>2, <2>1
    <2> QED
      BY <1>1, <1>12, <2>1, <2>2
  <1>13. queue' = R
    BY DEF R
  <1>14. QueueOK'
    BY <1>1, <1>11, <1>12, <1>13, Zenon DEF QueueOK
  <1> QED
    BY <1>2, <1>4, <1>5, <1>6, <1>8, <1>13, <1>14 DEF e

(* The scan of BlockDisconnected finds every order to restore: the block   *)
(* is too close to the tip for one to have been pruned.                    *)
LEMMA ScanFinds ==
    ASSUME NEW b \in Blocks, NEW d, NEW h,
           HistoryMatches(d.history, b, h), IsKept(nHeight[b], h)
    PROVE  DisconnectFound(d, b, RestoredOrders(d, b), AdsToRemove(d, b))
  <1> DEFINE R == RestoredOrders(d, b)
  <1>1. \A o : o \in R <=> o \in d.history /\ IsSpentBy(o, b)
    BY DEF RestoredOrders, IsSpentBy
  <1> HIDE DEF R
  <1>2. V2(R) \subseteq SpentOn(b)
    BY <1>1 DEF HistoryMatches, V2
  <1>3. ASSUME NEW o \in V2(SpentOn(b)), IsSpentBy(o, b) PROVE o \in R
    <2>1. PICK a \in Path[b] : IsSpentBy(o, a) /\ o.height = nHeight[a]
      BY SpentOnIsSpent DEF V2, IsSpentOn
    <2>2. b \in Path[b]
      BY PathOf
    <2>3. a = b
      BY <1>3, <2>1, <2>2, SpentOnce
    <2> QED
      BY <1>1, <1>3, <2>1, <2>3 DEF HistoryMatches
  <1> QED
    BY <1>1, <1>2, <1>3 DEF DisconnectFound, R

(* A callback begins.                                                      *)
LEMMA CallbackKeepsIndexInv ==
    ASSUME IndexInv, NEW b \in Blocks, BlockConnected(b) \/ BlockDisconnected(b)
    PROVE  IndexInv'
  <1> DEFINE e == Head(queue)
             h == nHeight[tip]
  <1>1. QueueOK /\ JobOK /\ OpenMatches(db.open, Position)
        /\ HistoryMatches(db.history, Position, h) /\ DoomedMatches(doomed.history, Position, h)
    BY DEF IndexInv
  <1>2. /\ job = NoJob /\ queue # <<>> /\ queue' = Tail(queue)
        /\ tip' = tip /\ db' = db /\ doomed' = doomed
    BY DEF BlockConnected, BlockDisconnected
  <1>3. /\ QueueOK' /\ QueueFrom = From(e) /\ QueueFrom' = To(e)
        /\ e.kind \in {"connected", "disconnected"} /\ e.block \in Blocks \ {Genesis}
        /\ e.kind = "disconnected" => IsRecent(e.block, Len(queue'), h)
    BY <1>1, <1>2, TakeHead
  <1>4. /\ job'.kind = e.kind /\ job'.block = e.block
        /\ e.kind = "connected" => job'.found = SpentOrders(db, e.block)
        /\ e.kind = "disconnected" =>
              job'.found = RestoredOrders(db, e.block) /\ job'.ads = AdsToRemove(db, e.block)
    <2>1. CASE BlockConnected(b)
      <3>1. /\ e = [kind |-> "connected", block |-> b]
            /\ job' = [kind |-> "connected", block |-> b, found |-> SpentOrders(db, b), ads |-> {}]
        BY <2>1, Zenon DEF BlockConnected
      <3> QED
        BY <3>1
    <2>2. CASE BlockDisconnected(b)
      <3>1. /\ e = [kind |-> "disconnected", block |-> b]
            /\ job' = [kind |-> "disconnected", block |-> b,
                       found |-> RestoredOrders(db, b), ads |-> AdsToRemove(db, b)]
        BY <2>2, Zenon DEF BlockDisconnected
      <3> QED
        BY <3>1
    <2> QED
      BY <2>1, <2>2
  <1> HIDE DEF e, h
  <1>5. job' # NoJob
    BY <1>3, <1>4, SMTT(60) DEF NoJob
  <1>6. From(job') = From(e) /\ To(job') = To(e)
    BY <1>4 DEF From, To
  <1>7. Position = From(e) /\ Position' = From(e)
    BY <1>2, <1>3, <1>5, <1>6 DEF Position
  <1>8. JobOK'
    <2>1. CASE e.kind = "connected"
      BY <1>2, <1>3, <1>4, <1>6, <2>1 DEF JobOK, ConnectFound
    <2>2. CASE e.kind = "disconnected"
      <3>1. From(e) = e.block
        BY <2>2 DEF From
      <3>2. HistoryMatches(db.history, e.block, h) /\ IsKept(nHeight[e.block], h)
        BY <1>1, <1>3, <1>7, <2>2, <3>1, Zenon DEF IsRecent
      <3>3. DisconnectFound(db, e.block, job'.found, job'.ads)
        BY <1>3, <1>4, <2>2, <3>2, ScanFinds, Zenon
      <3> QED
        BY <1>2, <1>3, <1>4, <1>6, <2>2, <3>3 DEF JobOK, h
    <2> QED
      BY <1>3, <2>1, <2>2
  <1> QED
    BY <1>1, <1>2, <1>3, <1>7, <1>8 DEF IndexInv, h

(* A callback writes.                                                      *)
LEMMA WritesKeepIndexInv ==
    ASSUME IndexInv, Writes
    PROVE  IndexInv'
  <1> DEFINE b == job.block
             h == nHeight[tip]
             q == Parent[b]
  <1>1. QueueOK /\ JobOK /\ OpenMatches(db.open, Position)
        /\ HistoryMatches(db.history, Position, h) /\ DoomedMatches(doomed.history, Position, h)
    BY DEF IndexInv
  <1>2. /\ job # NoJob /\ job' = NoJob
        /\ tip' = tip /\ queue' = queue /\ doomed' = doomed
    BY DEF Writes
  <1>3. /\ job.kind \in {"connected", "disconnected"} /\ b \in Blocks \ {Genesis}
        /\ To(job) = QueueFrom
        /\ job.kind = "connected" => ConnectFound(db, b, job.found)
        /\ job.kind = "disconnected" =>
              /\ IsRecent(b, Len(queue), h)
              /\ DisconnectFound(db, b, job.found, job.ads)
    BY <1>1, <1>2 DEF JobOK
  <1>4. QueueOK' /\ JobOK' /\ Position = From(job) /\ Position' = To(job)
    BY <1>1, <1>2, <1>3, Zenon DEF QueueOK, JobOK, Position, QueueFrom
  <1>5. Path[b] = Path[q] \cup {b}
    BY <1>3, PathStep, Zenon
  <1>6. CASE job.kind = "connected"
    <2> DEFINE moved == {[ad |-> o.ad, height |-> nHeight[b]] :
                            o \in {x \in db.open : IsSpentBy(x, b)}}
    <2>1. Position = q /\ Position' = b
      BY <1>4, <1>6 DEF From, To
    <2>2. db' = WriteBlock(db, b, job.found)
      BY <1>6 DEF Writes
    <2>3. job.found = {x \in db.open : IsSpentBy(x, b)}
      BY <1>3, <1>6 DEF ConnectFound, SpentOrders, IsSpentBy
    <2>4. db' = WriteSwaps(MoveOrderToHistory(db, moved), Advertised(b))
      BY <2>2, <2>3, Zenon DEF WriteBlock
    <2>5. OpenMatches(Write(Erase(db.open, moved), Advertised(b)), b)
          /\ HistoryMatches(Write(db.history, moved), b, h)
      BY <1>1, <1>3, <2>1, ConnectMatches, Zenon
    <2> HIDE DEF moved, b, h, q
    <2>6. /\ db'.open = Write(Erase(db.open, moved), Advertised(b))
          /\ db'.history = Write(db.history, moved)
      BY <2>4 DEF WriteSwaps, MoveOrderToHistory
    <2>7. DoomedMatches(doomed.history, b, h)
      BY <1>1, <1>5, <2>1, Zenon DEF DoomedMatches
    <2> QED
      BY <1>2, <1>4, <2>1, <2>5, <2>6, <2>7, Zenon DEF IndexInv, h
  <1>7. CASE job.kind = "disconnected"
    <2>1. Position = b /\ Position' = q
      BY <1>4, <1>7 DEF From, To
    <2>2. db' = ProcessDisconnectedBlock(db, job.found, job.ads)
      BY <1>7 DEF Writes
    <2>3. OpenMatches(Erase(Write(db.open, job.found), job.ads), q)
          /\ HistoryMatches(Erase(db.history, job.found), q, h)
      BY <1>1, <1>3, <1>7, <2>1, DisconnectMatches, Zenon
    <2>4. /\ db'.open = Erase(Write(db.open, job.found), job.ads)
          /\ db'.history = Erase(db.history, job.found)
      BY <2>2, Zenon DEF ProcessDisconnectedBlock, RemoveAds, MoveOrderToOpen
    <2>5. IsKept(nHeight[b], h)
      BY <1>3, <1>7 DEF IsRecent
    <2> HIDE DEF b, h, q
    <2>6. DoomedMatches(doomed.history, q, h)
      BY <1>1, <1>5, <2>1, <2>5 DEF DoomedMatches
    <2> QED
      BY <1>2, <1>4, <2>1, <2>3, <2>4, <2>6, Zenon DEF IndexInv, h
  <1> QED
    BY <1>3, <1>6, <1>7

(* The prune thread collects what the chain spent long ago.                *)
LEMMA CollectKeepsIndexInv ==
    ASSUME IndexInv, CollectHistory
    PROVE  IndexInv'
  <1> DEFINE h == nHeight[tip]
             p == Position
             D == OldHistory(db, h - historyBlocks)
  <1>1. /\ historyBlocks > 0 /\ doomed'.history = D
        /\ tip' = tip /\ queue' = queue /\ job' = job /\ db' = db
    BY DEF CollectHistory
  <1>2. Position' = p /\ QueueFrom' = QueueFrom
    BY <1>1 DEF Position, QueueFrom
  <1>3. QueueOK' /\ JobOK'
    BY <1>1, <1>2, Zenon DEF IndexInv, QueueOK, JobOK
  <1>4. p \in Blocks /\ h \in Nat /\ historyBlocks \in Nat
    BY PositionIs, TreeAssumption, SwapAssumption, Zenon DEF IndexInv, QueueOK
  <1>5. ASSUME NEW o \in D
        PROVE  \E a \in Path[p] : IsSpentBy(o, a) /\ ~IsKept(nHeight[a], h)
    <2>1. o \in db.history /\ o.height < h - historyBlocks
      BY Zenon DEF OldHistory
    <2>2. PICK a \in Path[p] : IsSpentBy(o, a) /\ o.height = nHeight[a]
      BY <2>1, Zenon DEF IndexInv, HistoryMatches, IsSpentOn
    <2>3. nHeight[a] \in Nat
      BY <1>4, PathOf, TreeAssumption
    <2>4. ~IsKept(nHeight[a], h)
      BY <1>1, <1>4, <2>1, <2>2, <2>3, SMTT(60) DEF IsKept
    <2> QED
      BY <2>2, <2>4, Zenon
  <1>6. DoomedMatches(D, p, h)
    BY <1>5, SMTT(60) DEF DoomedMatches
  <1> QED
    BY <1>1, <1>2, <1>3, <1>6 DEF IndexInv

(* The prune thread erases what it collected, and nothing of an order that *)
(* is kept: no other block of the chain spends an output of that key.      *)
LEMMA DeleteKeepsIndexInv ==
    ASSUME IInv, IndexInv, DeleteHistory
    PROVE  IndexInv'
  <1> DEFINE h == nHeight[tip]
             p == Position
             D == doomed.history
             U == db.history
  <1>1. QueueOK /\ JobOK /\ OpenMatches(db.open, p)
        /\ HistoryMatches(U, p, h) /\ DoomedMatches(D, p, h)
    BY DEF IndexInv
  <1>2. /\ db'.open = db.open /\ db'.history = Erase(U, D)
        /\ doomed'.history = {}
        /\ tip' = tip /\ queue' = queue /\ job' = job
    BY DEF DeleteHistory, IInv, NothingDoomed
  <1>3. Position' = p /\ QueueFrom' = QueueFrom
    BY <1>2 DEF Position, QueueFrom
  <1>4. p \in Blocks
    BY <1>1, PositionIs
  <1>5. QueueOK'
    BY <1>1, <1>2, <1>3, Zenon DEF QueueOK
  <1>6. \A b : /\ SpentOrders(db, b)' = SpentOrders(db, b)
               /\ AdsToRemove(db, b)' = AdsToRemove(db, b)
               /\ RestoredOrders(db, b)' \subseteq RestoredOrders(db, b)
    BY <1>2 DEF SpentOrders, AdsToRemove, RestoredOrders, Erase
  <1>7. JobOK'
    BY <1>1, <1>2, <1>3, <1>6, Zenon DEF JobOK, ConnectFound, DisconnectFound
  <1> HIDE DEF p, h, D, U
  <1>8. ASSUME NEW o \in V2(SpentOn(p)), IsKept(o.height, h) PROVE o \in Erase(U, D)
    <2>1. o \in U
      BY <1>1, <1>8 DEF HistoryMatches
    <2>2. PICK a \in Path[p] : IsSpentBy(o, a) /\ o.height = nHeight[a]
      BY <1>4, SpentOnIsSpent DEF V2, IsSpentOn
    <2>3. ASSUME NEW x \in D, Key(o) = Key(x) PROVE FALSE
      <3>1. PICK c \in Path[p] : IsSpentBy(x, c) /\ ~IsKept(nHeight[c], h)
        BY <1>1 DEF DoomedMatches
      <3>2. IsSpentBy(o, c)
        BY <2>3, <3>1 DEF IsSpentBy
      <3>3. a = c
        BY <1>4, <2>2, <3>2, SpentOnce
      <3> QED
        BY <1>8, <2>2, <3>1, <3>3
    <2> QED
      BY <2>1, <2>3 DEF Erase
  <1>9. HistoryMatches(Erase(U, D), p, h)
    BY <1>1, <1>8 DEF HistoryMatches, Erase, V2
  <1>10. DoomedMatches({}, p, h)
    BY DEF DoomedMatches
  <1> QED
    BY <1>1, <1>2, <1>3, <1>5, <1>7, <1>9, <1>10 DEF IndexInv, h

(* Every step keeps the index where the callbacks have brought it.         *)
LEMMA NextKeepsIndexInv == IInv /\ IndexInv /\ [Next]_vars => IndexInv'
  <1> SUFFICES ASSUME IInv, IndexInv, [Next]_vars PROVE IndexInv'
    OBVIOUS
  <1>1. ASSUME NEW b \in Blocks, ActivateBestChain(b) PROVE IndexInv'
    BY <1>1, ActivateKeepsIndexInv
  <1>2. ASSUME NEW b \in Blocks, BlockConnected(b) \/ BlockDisconnected(b) PROVE IndexInv'
    BY <1>2, CallbackKeepsIndexInv
  <1>3. CASE Writes
    BY <1>3, WritesKeepIndexInv
  <1>4. CASE CollectHistory
    BY <1>4, CollectKeepsIndexInv
  <1>5. CASE DeleteHistory
    BY <1>5, DeleteKeepsIndexInv
  <1>6. CASE UNCHANGED vars
    BY <1>6, Zenon DEF vars, IndexInv, QueueOK, JobOK, Position, QueueFrom, ConnectFound,
                DisconnectFound, SpentOrders, AdsToRemove, RestoredOrders
  <1> QED
    BY <1>1, <1>2, <1>3, <1>4, <1>5, <1>6 DEF Next

(* When every notification has been handled, the index is that of the      *)
(* active chain: swapindex.cpp's open orders of version 2 are those that   *)
(* the chain has advertised and not spent, and its history those it spent  *)
(* within the retention period, whatever reorganisations there have been   *)
(* and wherever the prune thread got in between.                           *)
THEOREM IndexIsTheChains == Spec => []IndexMatchesChain
  <1>1. Init => IInv /\ IndexInv
    <2> SUFFICES ASSUME Init PROVE IInv /\ IndexInv
      OBVIOUS
    <2>1. IInv
      BY TreeAssumption, Zenon DEF Init, IInv, NoJob, NoDb, NothingDoomed, AreOffers, Wanting,
                            WantTablesMirror
    <2>2. /\ tip = Genesis /\ queue = <<>> /\ job = NoJob
          /\ db.open = {} /\ db.history = {} /\ doomed.history = {}
      BY DEF Init, NoDb, NothingDoomed
    <2>3. Position = Genesis /\ QueueFrom = Genesis
      BY <2>2, Zenon DEF Position, QueueFrom
    <2>4. <<>> \in Seq(Event)
      OBVIOUS
    <2>5. QueueOK /\ JobOK
      BY <2>2, <2>3, <2>4, TreeAssumption DEF QueueOK, JobOK, Leads
    <2>6. OpenMatches({}, Genesis) /\ HistoryMatches({}, Genesis, nHeight[tip])
          /\ DoomedMatches({}, Genesis, nHeight[tip])
      BY GenesisOrders DEF OpenMatches, HistoryMatches, DoomedMatches, V2
    <2> QED
      BY <2>1, <2>2, <2>3, <2>5, <2>6 DEF IndexInv
  <1>2. IInv /\ IndexInv /\ [Next]_vars => (IInv /\ IndexInv)'
    BY NextKeepsIInv, NextKeepsIndexInv
  <1>3. IndexInv => IndexMatchesChain
    <2> SUFFICES ASSUME IndexInv, queue = <<>>, job = NoJob PROVE IndexMatchesChain
      BY Zenon DEF IndexMatchesChain
    <2>1. Position = tip
      BY DEF Position, QueueFrom
    <2> QED
      BY <2>1, Zenon DEF IndexInv, OpenMatches, HistoryMatches, IsKept, IndexMatchesChain
  <1> QED
    BY <1>1, <1>2, <1>3, PTL DEF Spec

=============================================================================
