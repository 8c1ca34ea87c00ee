-------------------------- MODULE BaseIndexProofs --------------------------
(***************************************************************************)
(* Proofs about BaseIndex for every block tree and any number of tip       *)
(* changes, flushes, restarts and failures: what the index answers without *)
(* waiting is right until the node is first restarted, an index that is    *)
(* not stopping has caught up when the queue is empty, at most one block   *)
(* of its locator is missing when the node first stops, and a flush never  *)
(* finds it without a best block.                                          *)
(***************************************************************************)
EXTENDS BaseIndex, WellFoundedInduction, TLAPS

\* A flush is only reported to an index that has a best block:
\* ChainStateFlushed dereferences the pointer without a check.
FlushFindsBestBlock ==
    running /\ m_synced /\ queue # <<>> /\ Head(queue).kind = "ChainStateFlushed" =>
        m_best_block_index # None

-----------------------------------------------------------------------------
(* The inductive invariant.                                                *)

BlocksOrNone == Blocks \cup {None}

\* Every transaction of the chain that ends in b is in x with its block.
IndexedUpTo(x, b) ==
    \A a \in Ancestors[b] : nHeight[a] > 0 => \A t \in TxsOf(a) : x[t] = a

\* Every block of a set has been written to x.
Wrote(x, S) == \A a \in S : nHeight[a] > 0 => x[a] = a

\* Block b extends the chain that ends in a, or a branch off it.
Extends(a, b) == b = Genesis \/ Parent[b] \in Ancestors[a]

IsConnected(i) == queue[i].kind = "BlockConnected"

\* Two BlockConnected notifications with no other between them, and the last
\* of them.
NextConnected(i, j) ==
    /\ i < j /\ IsConnected(i) /\ IsConnected(j)
    /\ \A k \in DOMAIN queue : i < k /\ k < j => ~IsConnected(k)

LastConnected(i) ==
    IsConnected(i) /\ \A k \in DOMAIN queue : i < k => ~IsConnected(k)

\* Each block in the queue extends the chain of the one before it, and the
\* tip is on the chain of the last.
QueueOK ==
    /\ \A i, j \in DOMAIN queue :
          NextConnected(i, j) => Extends(queue[i].block, queue[j].block)
    /\ \A i \in DOMAIN queue : LastConnected(i) => tip \in Ancestors[queue[i].block]

\* Before the genesis block is connected the index has nothing to do.
NoTipOK ==
    tip = None =>
        queue = <<>> /\ m_synced /\ m_best_block_index = None /\ thread = "done"

\* The first notification to an index without a best block is the genesis
\* block's.
NoBestOK ==
    m_synced /\ m_best_block_index = None /\ tip # None =>
        queue # <<>> /\ queue[1] = Connected(Genesis)

\* The index has reached the tip, or will take a block of the queue.
WillCatchUp ==
    m_synced /\ ~m_interrupt /\ tip # None /\ m_best_block_index # None =>
        \/ tip \in Ancestors[m_best_block_index]
        \/ \E i \in DOMAIN queue :
              IsConnected(i) /\ Extends(m_best_block_index, queue[i].block)

\* What has been written before the first restart.
WrittenOK ==
    /\ m_synced => IndexedUpTo(txs, m_best_block_index)
    /\ thread = "loop" => IndexedUpTo(txs, pindex) /\ Wrote(txs, Ancestors[locator])
    /\ thread = "write" => IndexedUpTo(txs, Parent[pindex])
    /\ pindex # None => Wrote(txs, Ancestors[locator] \ {pindex})
    /\ m_synced /\ pindex # None => m_best_block_index # None

\* The queue and the sync thread.
SyncOK ==
    /\ TypeOK
    /\ running => QueueOK /\ NoTipOK /\ NoBestOK /\ WillCatchUp
    /\ ~running => queue = <<>>
    /\ running /\ thread \in {"loop", "write"} => ~m_synced
    /\ running /\ thread = "commit" => m_synced

IInv ==
    /\ SyncOK
    /\ restarts \in Nat
    /\ restarts = 0 => WrittenOK

-----------------------------------------------------------------------------
(* Natural numbers.                                                        *)

Less == {ss \in Nat \X Nat : ss[1] < ss[2]}

\* Every set of heights has a least one.
LEMMA SmallestMember ==
    ASSUME NEW S \in SUBSET Nat, S # {}
    PROVE  \E m \in S : \A k \in S : m <= k
<1>1. IsWellFoundedOn(Less, Nat)
  BY NatLessThanWellFounded, ZenonT(60) DEF OpToRel, Less
<1>2. \E m \in S : \A k \in S : ~(<<k, m>> \in Less)
  BY <1>1, WFMin
<1>3. \A k, m \in Nat : <<k, m>> \notin Less => m <= k
  BY DEF Less
<1> QED BY <1>2, <1>3

-----------------------------------------------------------------------------
(* The chain that ends in a block.                                         *)

\* The chain of a block has the block and consists of blocks.
LEMMA AncestorsType ==
    ASSUME NEW b \in Blocks
    PROVE  b \in Ancestors[b] /\ Ancestors[b] \subseteq Blocks
  BY TreeAssumption DEF Ancestors

\* The chain of a block is closed under parents.
LEMMA AncestorsClosed ==
    ASSUME NEW b \in Blocks, NEW a \in Ancestors[b], a # Genesis
    PROVE  Parent[a] \in Ancestors[b]
<1>1. a \in Blocks /\ Parent[a] \in Blocks
  BY AncestorsType, TreeAssumption
<1>2. SUFFICES ASSUME NEW S \in SUBSET Blocks, b \in S,
                      \A x \in S \ {Genesis} : Parent[x] \in S
               PROVE  Parent[a] \in S
  BY <1>1, TreeAssumption, Zenon DEF Ancestors
<1>3. a \in S
  BY <1>2 DEF Ancestors
<1> QED BY <1>2, <1>3

\* It is the least such set.
LEMMA AncestorsLeast ==
    ASSUME NEW b \in Blocks, NEW S \in SUBSET Blocks, b \in S,
           \A x \in S \ {Genesis} : Parent[x] \in S
    PROVE  Ancestors[b] \subseteq S
  BY DEF Ancestors

\* The chain of an ancestor is part of the chain.
LEMMA AncestorsTransitive ==
    ASSUME NEW b \in Blocks, NEW a \in Ancestors[b]
    PROVE  Ancestors[a] \subseteq Ancestors[b]
<1>1. a \in Blocks /\ Ancestors[b] \in SUBSET Blocks
  BY AncestorsType
<1>2. \A x \in Ancestors[b] \ {Genesis} : Parent[x] \in Ancestors[b]
  BY AncestorsClosed
<1> QED BY <1>1, <1>2, AncestorsLeast

\* The genesis block is a chain of its own.
LEMMA AncestorsGenesis == Ancestors[Genesis] = {Genesis}
<1>1. Genesis \in Blocks
  BY TreeAssumption
<1>2. Ancestors[Genesis] \subseteq {Genesis}
  BY <1>1, AncestorsLeast
<1> QED BY <1>1, <1>2, AncestorsType

\* Any other chain is the parent's with the block added.
LEMMA AncestorsStep ==
    ASSUME NEW b \in Blocks, b # Genesis
    PROVE  /\ Parent[b] \in Blocks
           /\ Ancestors[b] = Ancestors[Parent[b]] \cup {b}
<1>1. Parent[b] \in Blocks
  BY TreeAssumption
<1> DEFINE S == Ancestors[Parent[b]] \cup {b}
<1>2. S \in SUBSET Blocks /\ b \in S
  BY <1>1, AncestorsType
<1>3. \A x \in S \ {Genesis} : Parent[x] \in S
  BY <1>1, AncestorsType, AncestorsClosed
<1>4. Ancestors[b] \subseteq S
  BY <1>2, <1>3, AncestorsLeast, ZenonT(60)
<1>5. b \in Ancestors[b] /\ Parent[b] \in Ancestors[b]
  BY AncestorsType, AncestorsClosed
<1>6. Ancestors[Parent[b]] \subseteq Ancestors[b]
  BY <1>5, AncestorsTransitive
<1> QED BY <1>1, <1>4, <1>5, <1>6

\* The other blocks of a chain are lower than its last.
LEMMA AncestorsLower ==
    ASSUME NEW b \in Blocks, NEW a \in Ancestors[b], a # b
    PROVE  nHeight[a] < nHeight[b]
<1> DEFINE S == {x \in Blocks : nHeight[x] < nHeight[b]} \cup {b}
<1>1. S \in SUBSET Blocks /\ b \in S
  OBVIOUS
<1>2. \A x \in S \ {Genesis} : Parent[x] \in S
  <2> SUFFICES ASSUME NEW x \in S, x # Genesis PROVE Parent[x] \in S
    OBVIOUS
  <2>1. Parent[x] \in Blocks /\ nHeight[x] = nHeight[Parent[x]] + 1
    BY TreeAssumption
  <2>2. nHeight[x] \in Nat /\ nHeight[Parent[x]] \in Nat /\ nHeight[b] \in Nat
    BY <2>1, TreeAssumption
  <2>3. nHeight[x] <= nHeight[b]
    BY <2>2
  <2> QED BY <2>1, <2>2, <2>3
<1>3. Ancestors[b] \subseteq S
  BY <1>1, <1>2, AncestorsLeast
<1> QED BY <1>3

\* Every chain begins with the genesis block: its lowest block has no parent
\* in it.
LEMMA GenesisIsAncestor ==
    ASSUME NEW b \in Blocks
    PROVE  Genesis \in Ancestors[b]
<1> DEFINE S == {nHeight[a] : a \in Ancestors[b]}
<1>1. S \in SUBSET Nat /\ S # {}
  BY AncestorsType, TreeAssumption
<1>2. PICK m \in S : \A k \in S : m <= k
  BY <1>1, SmallestMember
<1>3. PICK a \in Ancestors[b] : m = nHeight[a]
  OBVIOUS
<1>4. SUFFICES ASSUME a # Genesis PROVE FALSE
  OBVIOUS
<1>5. Parent[a] \in Ancestors[b]
  BY <1>4, AncestorsClosed
<1>6. /\ a \in Blocks /\ Parent[a] \in Blocks
      /\ nHeight[a] = nHeight[Parent[a]] + 1
      /\ nHeight[Parent[a]] \in Nat
  BY <1>4, AncestorsType, TreeAssumption
<1>7. m <= nHeight[Parent[a]]
  BY <1>2, <1>5
<1> QED BY <1>3, <1>6, <1>7

\* What holds of the genesis block, and of a block when it holds of its
\* parent, holds of all.
LEMMA TreeInduction ==
    ASSUME NEW S \in SUBSET Blocks, Genesis \in S,
           \A b \in Blocks \ {Genesis} : Parent[b] \in S => b \in S
    PROVE  S = Blocks
<1> SUFFICES ASSUME Blocks \ S # {} PROVE FALSE
  OBVIOUS
<1> DEFINE H == {nHeight[b] : b \in Blocks \ S}
<1>1. H \in SUBSET Nat /\ H # {}
  BY TreeAssumption
<1>2. PICK m \in H : \A k \in H : m <= k
  BY <1>1, SmallestMember
<1>3. PICK b \in Blocks \ S : m = nHeight[b]
  OBVIOUS
<1>4. b # Genesis /\ Parent[b] \in Blocks \ S
  BY TreeAssumption
<1>5. m <= nHeight[Parent[b]]
  BY <1>2, <1>4
<1>6. nHeight[b] = nHeight[Parent[b]] + 1 /\ nHeight[Parent[b]] \in Nat
  BY <1>4, TreeAssumption
<1> QED BY <1>3, <1>5, <1>6

\* There is no chain without a block.
LEMMA AncestorsNone == Ancestors[None] = {}
  BY DEF Ancestors

\* Of two blocks of a chain, one is on the chain of the other.
LEMMA AncestorsComparable ==
    ASSUME NEW b \in Blocks, NEW a \in Ancestors[b], NEW c \in Ancestors[b]
    PROVE  a \in Ancestors[c] \/ c \in Ancestors[a]
<1> DEFINE S == {d \in Blocks : \A x, y \in Ancestors[d] :
                    x \in Ancestors[y] \/ y \in Ancestors[x]}
<1>1. Genesis \in S
  BY AncestorsGenesis, TreeAssumption
<1>2. ASSUME NEW d \in Blocks \ {Genesis}, Parent[d] \in S
      PROVE  d \in S
  BY <1>2, AncestorsStep
<1>3. S = Blocks
  <2> HIDE DEF S
  <2>1. S \in SUBSET Blocks
    BY DEF S
  <2> QED BY <1>1, <1>2, <2>1, TreeInduction
<1> QED BY <1>3

\* A chain has one block at each height up to its own.
LEMMA AncestorsHeights ==
    ASSUME NEW b \in Blocks
    PROVE  /\ \A a, c \in Ancestors[b] : nHeight[a] = nHeight[c] => a = c
           /\ \A n \in Nat : n <= nHeight[b] => \E a \in Ancestors[b] : nHeight[a] = n
<1>1. ASSUME NEW a \in Ancestors[b], NEW c \in Ancestors[b], nHeight[a] = nHeight[c]
      PROVE  a = c
  <2>1. a \in Blocks /\ c \in Blocks
    BY AncestorsType
  <2>2. nHeight[a] \in Nat
    BY <2>1, TreeAssumption
  <2>3. a # c => nHeight[a] < nHeight[c] \/ nHeight[c] < nHeight[a]
    BY <2>1, AncestorsComparable, AncestorsLower
  <2> QED BY <1>1, <2>2, <2>3
<1> DEFINE S == {d \in Blocks : \A n \in Nat :
                    n <= nHeight[d] => \E a \in Ancestors[d] : nHeight[a] = n}
<1>2. Genesis \in S
  BY AncestorsGenesis, TreeAssumption
<1>3. ASSUME NEW d \in Blocks \ {Genesis}, Parent[d] \in S
      PROVE  d \in S
  <2>1. /\ Parent[d] \in Blocks /\ Ancestors[d] = Ancestors[Parent[d]] \cup {d}
        /\ nHeight[d] = nHeight[Parent[d]] + 1 /\ nHeight[Parent[d]] \in Nat
    BY AncestorsStep, TreeAssumption
  <2> SUFFICES ASSUME NEW n \in Nat, n <= nHeight[d]
               PROVE  \E a \in Ancestors[d] : nHeight[a] = n
    OBVIOUS
  <2>2. CASE n = nHeight[d]
    BY <2>1, <2>2
  <2>3. CASE n <= nHeight[Parent[d]]
    BY <1>3, <2>1, <2>3
  <2> QED BY <2>1, <2>2, <2>3
<1>4. S = Blocks
  <2> HIDE DEF S
  <2>1. S \in SUBSET Blocks
    BY DEF S
  <2> QED BY <1>2, <1>3, <2>1, TreeInduction
<1> QED BY <1>1, <1>4

-----------------------------------------------------------------------------
(* The operators of CChain.                                                *)

\* GetAncestor gives the block of the chain at that height, if there is one.
LEMMA GetAncestorIs ==
    ASSUME NEW b \in Blocks
    PROVE  /\ \A a \in Ancestors[b] : GetAncestor(b, nHeight[a]) = a
           /\ \A n \in Int : (\A a \in Ancestors[b] : nHeight[a] # n) =>
                                GetAncestor(b, n) = None
<1>1. ASSUME NEW a \in Ancestors[b]
      PROVE  GetAncestor(b, nHeight[a]) = a
  <2>1. {x \in Ancestors[b] : nHeight[x] = nHeight[a]} = {a}
    BY AncestorsHeights
  <2> QED BY <2>1 DEF GetAncestor
<1> QED BY <1>1 DEF GetAncestor

\* Nothing is above None.
LEMMA GetAncestorNone == \A n : GetAncestor(None, n) = None
  BY AncestorsNone DEF GetAncestor

\* A block of the chain at a height.
LEMMA GetAncestorAt ==
    ASSUME NEW b \in Blocks, NEW n \in Nat, n <= nHeight[b]
    PROVE  GetAncestor(b, n) \in Ancestors[b] /\ nHeight[GetAncestor(b, n)] = n
  BY GetAncestorIs, AncestorsHeights

\* FindFork gives the last block two chains share.
LEMMA FindForkIs ==
    ASSUME NEW b \in Blocks, NEW c \in Blocks
    PROVE  LET fork == FindFork(c, b)
           IN  fork \in Blocks /\ Ancestors[fork] = Ancestors[c] \cap Ancestors[b]
<1> DEFINE common == Ancestors[c] \cap Ancestors[b]
           H == {nHeight[b] - nHeight[a] : a \in common}
<1>1. Genesis \in common /\ common \subseteq Blocks
  BY GenesisIsAncestor, AncestorsType
<1>2. nHeight[b] \in Nat /\ \A a \in common : nHeight[a] \in Nat /\ nHeight[a] <= nHeight[b]
  BY AncestorsType, AncestorsLower, TreeAssumption
<1>3. H \in SUBSET Nat /\ H # {}
  BY <1>1, <1>2
<1>4. PICK m \in H : \A k \in H : m <= k
  BY <1>3, SmallestMember
<1>5. PICK a \in common : m = nHeight[b] - nHeight[a]
  OBVIOUS
<1>6. \A x \in common : nHeight[x] <= nHeight[a]
  <2> SUFFICES ASSUME NEW x \in common PROVE nHeight[x] <= nHeight[a]
    OBVIOUS
  <2>1. nHeight[b] - nHeight[a] <= nHeight[b] - nHeight[x]
    BY <1>4, <1>5
  <2> QED BY <1>2, <2>1
<1>7. Ancestors[a] \subseteq common
  BY AncestorsTransitive
<1>8. common \subseteq Ancestors[a]
  <2> SUFFICES ASSUME NEW x \in common, x \notin Ancestors[a] PROVE FALSE
    OBVIOUS
  <2>1. a \in Ancestors[x] /\ a # x
    BY <1>1, AncestorsComparable, AncestorsType
  <2>2. nHeight[a] < nHeight[x]
    BY <1>1, <2>1, AncestorsLower
  <2> QED BY <1>2, <1>6, <2>2
<1>9. a \in common /\ Ancestors[a] = common
  BY <1>7, <1>8
<1>10. FindFork(c, b) = CHOOSE x \in common : Ancestors[x] = common
  BY <1>1 DEF FindFork
<1> HIDE DEF common
<1>11. FindFork(c, b) \in common /\ Ancestors[FindFork(c, b)] = common
  BY <1>9, <1>10
<1> QED BY <1>1, <1>11 DEF common

\* Without one of the chains there is no fork.
LEMMA FindForkNone ==
    ASSUME NEW b \in BlocksOrNone
    PROVE  FindFork(None, b) = None /\ FindFork(b, None) = None
  BY AncestorsNone DEF FindFork

\* CChain::Next gives the child on the active chain; only the tip, and what
\* is not on it, has none.
LEMMA ChainNextIs ==
    ASSUME tip \in Blocks, NEW b \in Blocks
    PROVE  /\ ChainNext(b) # None =>
                 /\ ChainNext(b) \in Blocks /\ ChainNext(b) # Genesis
                 /\ Parent[ChainNext(b)] = b
           /\ ChainNext(b) = None => b \notin Ancestors[tip] \/ b = tip
<1> DEFINE n == ChainNext(b)
<1>1. CASE b \notin Ancestors[tip]
  BY <1>1 DEF ChainNext
<1>2. CASE b \in Ancestors[tip]
  <2>1. n = GetAncestor(tip, nHeight[b] + 1)
    BY <1>2 DEF ChainNext
  <2>2. nHeight[b] \in Nat /\ nHeight[tip] \in Nat
    BY TreeAssumption
  <2>3. CASE b = tip
    <3>1. \A a \in Ancestors[tip] : nHeight[a] # nHeight[b] + 1
      <4> SUFFICES ASSUME NEW a \in Ancestors[tip] PROVE nHeight[a] # nHeight[tip] + 1
        BY <2>3
      <4>1. nHeight[a] \in Nat /\ (a = tip \/ nHeight[a] < nHeight[tip])
        BY AncestorsType, AncestorsLower, TreeAssumption
      <4> QED BY <2>2, <4>1
    <3>2. n = None
      BY <2>1, <2>2, <3>1, GetAncestorIs
    <3> QED BY <2>3, <3>2
  <2>4. CASE b # tip
    <3>1. nHeight[b] + 1 \in Nat /\ nHeight[b] + 1 <= nHeight[tip]
      BY <1>2, <2>2, <2>4, AncestorsLower
    <3>2. n \in Ancestors[tip] /\ nHeight[n] = nHeight[b] + 1
      BY <2>1, <3>1, GetAncestorAt
    <3>3. n \in Blocks /\ n # Genesis
      BY <2>2, <3>2, AncestorsType, TreeAssumption
    <3>4. Parent[n] \in Ancestors[tip] /\ nHeight[n] = nHeight[Parent[n]] + 1
      BY <3>2, <3>3, AncestorsClosed, TreeAssumption
    <3>5. Parent[n] \in Blocks /\ nHeight[Parent[n]] \in Nat
      BY <3>4, AncestorsType, TreeAssumption
    <3>6. nHeight[Parent[n]] = nHeight[b]
      BY <2>2, <3>2, <3>4, <3>5
    <3>7. Parent[n] = b
      BY <1>2, <3>4, <3>6, AncestorsHeights
    <3>8. n # None
      BY <3>3, TreeAssumption
    <3> QED BY <3>3, <3>7, <3>8
  <2> QED BY <2>3, <2>4
<1> QED BY <1>1, <1>2

\* NextSyncBlock gives a block that extends the chain the thread has indexed;
\* there is none only when the tip is on that chain.
LEMMA NextSyncBlockIs ==
    ASSUME tip \in Blocks, NEW prev \in BlocksOrNone
    PROVE  LET n == NextSyncBlock(prev)
           IN  /\ n = None => prev # None /\ tip \in Ancestors[prev]
               /\ n # None =>
                     /\ n \in Blocks
                     /\ n = Genesis \/ (prev # None /\ Parent[n] \in Ancestors[prev])
<1> DEFINE n == NextSyncBlock(prev)
<1>1. CASE prev = None
  <2>1. Genesis \in Ancestors[tip] /\ Genesis \in Blocks /\ Genesis # None
    BY GenesisIsAncestor, TreeAssumption
  <2>2. GetAncestor(tip, 0) = Genesis
    BY <2>1, GetAncestorIs, TreeAssumption
  <2> QED BY <1>1, <2>1, <2>2 DEF NextSyncBlock
<1>2. CASE prev # None /\ ChainNext(prev) # None
  BY <1>2, ChainNextIs, AncestorsType DEF NextSyncBlock, BlocksOrNone
<1>3. CASE prev # None /\ ChainNext(prev) = None
  <2> DEFINE f == FindFork(tip, prev)
  <2>1. prev \in Blocks
    BY <1>3 DEF BlocksOrNone
  <2>2. f \in Blocks /\ Ancestors[f] = Ancestors[tip] \cap Ancestors[prev]
    BY <2>1, FindForkIs
  <2>3. f \in Ancestors[tip] /\ f \in Ancestors[prev]
    BY <2>2, AncestorsType
  <2>4. n = ChainNext(f)
    BY <1>3 DEF NextSyncBlock
  <2> HIDE DEF f
  <2> QED BY <1>3, <2>2, <2>3, <2>4, ChainNextIs
<1> QED BY <1>1, <1>2, <1>3

\* BlockConnected takes a block that extends the chain of the best block.
LEMMA ConnectsToBestIs ==
    ASSUME m_best_block_index \in Blocks, NEW b \in Blocks
    PROVE  ConnectsToBest(b) <=> Extends(m_best_block_index, b)
<1> DEFINE c == m_best_block_index
           p == Parent[b]
<1>1. c # None
  BY TreeAssumption
<1>2. ConnectsToBest(b) <=> GetAncestor(c, nHeight[b] - 1) = p
  BY <1>1 DEF ConnectsToBest
<1>3. \A a \in Ancestors[c] : nHeight[a] \in Nat /\ a # None
  BY AncestorsType, TreeAssumption
<1>4. CASE b = Genesis
  <2>1. p = None /\ nHeight[b] = 0
    BY <1>4, TreeAssumption
  <2>2. GetAncestor(c, nHeight[b] - 1) = None
    BY <1>3, <2>1, GetAncestorIs
  <2> QED BY <1>2, <1>4, <2>1, <2>2 DEF Extends
<1>5. CASE b # Genesis
  <2>1. /\ p \in Blocks /\ p # None /\ nHeight[b] - 1 = nHeight[p]
        /\ nHeight[b] \in Nat
    BY <1>5, TreeAssumption
  <2>2. CASE p \in Ancestors[c]
    BY <1>2, <2>1, <2>2, GetAncestorIs DEF Extends
  <2>3. CASE p \notin Ancestors[c]
    <3>1. GetAncestor(c, nHeight[p]) \in Ancestors[c] \cup {None}
      BY DEF GetAncestor
    <3> QED BY <1>2, <1>5, <2>1, <2>3, <3>1 DEF Extends
  <2> QED BY <2>2, <2>3
<1> QED BY <1>4, <1>5

\* The parent of a block of a chain is the block below it.
LEMMA ParentIsBelow ==
    ASSUME NEW b \in Blocks, NEW a \in Ancestors[b], NEW c \in Ancestors[b],
           nHeight[c] = nHeight[a] + 1
    PROVE  c # Genesis /\ Parent[c] = a
<1>1. /\ a \in Blocks /\ nHeight[a] \in Nat
      /\ c \in Blocks /\ nHeight[c] \in Nat
  BY AncestorsType, TreeAssumption
<1>2. c # Genesis
  BY <1>1, TreeAssumption
<1>3. /\ Parent[c] \in Ancestors[b] /\ Parent[c] \in Blocks
      /\ nHeight[c] = nHeight[Parent[c]] + 1 /\ nHeight[Parent[c]] \in Nat
  BY <1>1, <1>2, AncestorsClosed, AncestorsType, TreeAssumption
<1>4. nHeight[Parent[c]] = nHeight[a]
  BY <1>1, <1>3
<1> QED BY <1>2, <1>3, <1>4, AncestorsHeights

\* The blocks ActivateBestChain connects: the first extends the active chain,
\* each other its predecessor, and the last is the new tip.
LEMMA PathToIs ==
    ASSUME tip \in BlocksOrNone, NEW b \in Blocks,
           tip # None => nHeight[b] > nHeight[tip]
    PROVE  \E n \in Nat \ {0} :
              LET P == PathTo(b)
              IN  /\ P \in [1..n -> Blocks]
                  /\ P[n] = b
                  /\ \A i \in 1..(n - 1) : Extends(P[i], P[i + 1])
                  /\ tip = None => P[1] = Genesis
                  /\ tip # None => Extends(tip, P[1])
<1> DEFINE fork == FindFork(tip, b)
           first == IF fork = None THEN 0 ELSE nHeight[fork] + 1
           n == nHeight[b] - first + 1
           P == PathTo(b)
<1>1. nHeight[b] \in Nat
  BY TreeAssumption
<1>2. tip = None => fork = None
  BY FindForkNone DEF BlocksOrNone
<1>3. tip # None => /\ fork \in Blocks /\ fork # None
                    /\ fork \in Ancestors[tip] /\ fork \in Ancestors[b]
                    /\ nHeight[fork] \in Nat /\ nHeight[fork] < nHeight[b]
  <2> SUFFICES ASSUME tip # None
               PROVE  /\ fork \in Blocks /\ fork # None
                      /\ fork \in Ancestors[tip] /\ fork \in Ancestors[b]
                      /\ nHeight[fork] \in Nat /\ nHeight[fork] < nHeight[b]
    OBVIOUS
  <2>1. tip \in Blocks
    BY DEF BlocksOrNone
  <2>2. fork \in Blocks /\ Ancestors[fork] = Ancestors[tip] \cap Ancestors[b]
    BY <2>1, FindForkIs
  <2>3. fork \in Ancestors[tip] /\ fork \in Ancestors[b]
    BY <2>2, AncestorsType
  <2>4. nHeight[fork] \in Nat /\ nHeight[tip] \in Nat
    BY <2>1, <2>2, TreeAssumption
  <2>5. fork = tip \/ nHeight[fork] < nHeight[tip]
    BY <2>1, <2>3, AncestorsLower
  <2>6. nHeight[fork] < nHeight[b]
    BY <1>1, <2>4, <2>5
  <2> QED BY <2>2, <2>3, <2>4, <2>6, TreeAssumption
<1> HIDE DEF fork
<1>4. first \in Nat /\ first <= nHeight[b] /\ n \in Nat \ {0}
  BY <1>1, <1>2, <1>3
<1>5. P = [i \in 1..n |-> GetAncestor(b, first + i - 1)]
  BY DEF PathTo, fork
<1> HIDE DEF first, P
<1>6. ASSUME NEW i \in 1..n
      PROVE  P[i] \in Ancestors[b] /\ P[i] \in Blocks /\ nHeight[P[i]] = first + i - 1
  <2>1. first + i - 1 \in Nat /\ first + i - 1 <= nHeight[b]
    BY <1>1, <1>4
  <2> QED BY <1>5, <2>1, GetAncestorAt, AncestorsType
<1>7. P \in [1..n -> Blocks]
  BY <1>5, <1>6
<1>8. P[n] = b
  <2>1. n \in 1..n /\ first + n - 1 = nHeight[b]
    BY <1>1, <1>4
  <2>2. P[n] \in Ancestors[b] /\ nHeight[P[n]] = nHeight[b]
    BY <1>6, <2>1
  <2> QED BY <2>2, AncestorsType, AncestorsHeights
<1>9. ASSUME NEW i \in 1..(n - 1)
      PROVE  Extends(P[i], P[i + 1])
  <2>1. i \in 1..n /\ i + 1 \in 1..n
    BY <1>4
  <2>2. /\ P[i] \in Ancestors[b] /\ P[i] \in Blocks /\ P[i + 1] \in Ancestors[b]
        /\ nHeight[P[i + 1]] = nHeight[P[i]] + 1
    BY <1>4, <1>6, <2>1
  <2>3. Parent[P[i + 1]] = P[i]
    BY <2>2, ParentIsBelow
  <2> QED BY <2>2, <2>3, AncestorsType DEF Extends
<1>10. 1 \in 1..n
  BY <1>4
<1>11. P[1] \in Ancestors[b] /\ P[1] \in Blocks /\ nHeight[P[1]] = first
  BY <1>4, <1>6, <1>10
<1>12. tip = None => P[1] = Genesis
  <2> SUFFICES ASSUME tip = None PROVE P[1] = Genesis
    OBVIOUS
  <2>1. first = 0
    BY <1>2 DEF first
  <2>2. Genesis \in Ancestors[b] /\ nHeight[Genesis] = 0
    BY GenesisIsAncestor, TreeAssumption
  <2> QED BY <1>11, <2>1, <2>2, AncestorsHeights
<1>13. tip # None => Extends(tip, P[1])
  <2> SUFFICES ASSUME tip # None PROVE Extends(tip, P[1])
    OBVIOUS
  <2>1. nHeight[P[1]] = nHeight[fork] + 1
    BY <1>3, <1>11 DEF first
  <2>2. Parent[P[1]] = fork
    BY <1>3, <1>11, <2>1, ParentIsBelow
  <2> QED BY <1>3, <2>2 DEF Extends
<1>14. \E k \in Nat \ {0} :
          /\ P \in [1..k -> Blocks]
          /\ P[k] = b
          /\ \A i \in 1..(k - 1) : Extends(P[i], P[i + 1])
          /\ tip = None => P[1] = Genesis
          /\ tip # None => Extends(tip, P[1])
  <2> HIDE DEF n
  <2> QED BY <1>4, <1>7, <1>8, <1>9, <1>12, <1>13
<1> QED BY <1>14 DEF P

-----------------------------------------------------------------------------
(* What WriteBlock leaves in the database.                                 *)

\* The positions written stay, and those of the block are added.
LEMMA WriteBlockKeeps ==
    ASSUME txs \in [Blocks \cup {Shared} -> BlocksOrNone], NEW b \in Blocks,
           IndexedUpTo(txs, Parent[b])
    PROVE  IndexedUpTo(WriteBlock(b), b)
<1> DEFINE x == WriteBlock(b)
<1> SUFFICES ASSUME NEW a \in Ancestors[b], nHeight[a] > 0, NEW t \in TxsOf(a)
             PROVE  x[t] = a
  BY DEF IndexedUpTo
<1>1. a \in Blocks /\ TxsOf(a) \subseteq Blocks \cup {Shared}
  BY AncestorsType DEF TxsOf
<1>2. x[t] = IF nHeight[b] > 0 /\ t \in TxsOf(b) THEN b ELSE txs[t]
  BY <1>1 DEF WriteBlock
<1>3. CASE a = b
  BY <1>2, <1>3
<1>4. CASE a # b
  <2>1. b # Genesis /\ a \in Ancestors[Parent[b]]
    BY <1>4, AncestorsGenesis, AncestorsStep
  <2>2. txs[t] = a
    BY <2>1 DEF IndexedUpTo
  <2>3. t \notin TxsOf(b)
    BY <1>1, <1>4, SharedAssumption DEF TxsOf
  <2> QED BY <1>2, <2>2, <2>3
<1> QED BY <1>3, <1>4

\* A block that was written stays so, and the block is written.
LEMMA WriteBlockWrites ==
    ASSUME txs \in [Blocks \cup {Shared} -> BlocksOrNone], NEW b \in Blocks,
           NEW S \in SUBSET Blocks, Wrote(txs, S)
    PROVE  Wrote(WriteBlock(b), S \cup {b})
  BY SharedAssumption DEF Wrote, WriteBlock, TxsOf

\* Every block of an indexed chain has been written.
LEMMA IndexedIsWritten ==
    ASSUME NEW x, NEW b, IndexedUpTo(x, b)
    PROVE  Wrote(x, Ancestors[b])
  BY DEF IndexedUpTo, Wrote, TxsOf

\* A chain within an indexed chain is indexed.
LEMMA IndexedBelow ==
    ASSUME NEW x, NEW b \in Blocks, NEW a \in Ancestors[b], IndexedUpTo(x, b)
    PROVE  IndexedUpTo(x, a)
  BY AncestorsTransitive DEF IndexedUpTo

-----------------------------------------------------------------------------
(* The first start and a restart.                                          *)

\* BaseIndex::Init finds a block of its locator that is on the active chain.
LEMMA InitBestIs ==
    ASSUME locator \in BlocksOrNone, NEW c \in BlocksOrNone
    PROVE  /\ InitBest(c) \in BlocksOrNone
           /\ InitBest(c) # None => locator \in Blocks /\ InitBest(c) \in Ancestors[locator]
           /\ c = None => InitBest(c) = None
<1>1. CASE locator = None \/ c = None
  BY <1>1, FindForkNone DEF InitBest, BlocksOrNone
<1>2. CASE locator # None /\ c # None
  <2>1. locator \in Blocks /\ c \in Blocks
    BY <1>2 DEF BlocksOrNone
  <2>2. /\ FindFork(c, locator) \in Blocks
        /\ FindFork(c, locator) \in Ancestors[locator]
    BY <2>1, FindForkIs, AncestorsType
  <2> QED BY <1>2, <2>1, <2>2 DEF InitBest, BlocksOrNone
<1> QED BY <1>1, <1>2

\* An index that starts with an empty queue.
Fresh ==
    /\ TypeOK /\ queue = <<>>
    /\ m_best_block_index = InitBest(tip)
    /\ m_synced = (m_best_block_index = tip)
    /\ thread = IF m_best_block_index = tip THEN "done" ELSE "loop"

\* Such an index has nothing to catch up with, or a thread that does.
LEMMA FreshIndex == Fresh => SyncOK
<1> SUFFICES ASSUME Fresh PROVE SyncOK
  OBVIOUS
<1> USE DEF Fresh
<1>1. tip \in BlocksOrNone /\ locator \in BlocksOrNone
  BY DEF TypeOK, BlocksOrNone
<1>2. tip = None => m_best_block_index = None
  BY <1>1, InitBestIs
<1>3. tip # None => tip \in Ancestors[tip]
  BY <1>1, AncestorsType DEF BlocksOrNone
<1>4. QueueOK
  BY DEF QueueOK
<1>5. NoTipOK
  BY <1>2 DEF NoTipOK
<1>6. NoBestOK
  BY DEF NoBestOK
<1>7. WillCatchUp
  BY <1>3 DEF WillCatchUp
<1> QED BY <1>4, <1>5, <1>6, <1>7 DEF SyncOK

\* The index has what its locator says at the first start.
LEMMA InitIndexed ==
    ASSUME Init
    PROVE  IndexedUpTo(txs, locator)
<1> SUFFICES ASSUME NEW a \in Ancestors[locator], nHeight[a] > 0, NEW t \in TxsOf(a)
             PROVE  txs[t] = a
  BY DEF IndexedUpTo
<1>1. locator \in Blocks
  BY AncestorsNone, StartAssumption DEF Init
<1>2. a \in Blocks /\ t \in Blocks \cup {Shared}
  BY <1>1, AncestorsType DEF TxsOf
<1> DEFINE in == {b \in Ancestors[locator] : nHeight[b] > 0 /\ t \in TxsOf(b)}
<1>3. txs[t] = IF in = {} THEN None ELSE CHOOSE b \in in : TRUE
  BY <1>2 DEF Init
<1>4. ASSUME NEW b \in in PROVE b = a
  <2>1. b \in Blocks
    BY <1>1, AncestorsType
  <2>2. a \in Ancestors[b] \/ b \in Ancestors[a]
    BY <1>1, AncestorsComparable
  <2> QED BY <1>2, <2>1, <2>2, SharedAssumption DEF TxsOf
<1>5. in = {a}
  BY <1>4
<1> QED BY <1>3, <1>5

\* The invariant holds at the first start.
LEMMA InitIInv == Init => IInv
<1> SUFFICES ASSUME Init PROVE IInv
  OBVIOUS
<1>1. tip \in BlocksOrNone /\ locator \in BlocksOrNone
  BY StartAssumption DEF Init, BlocksOrNone
<1>2. InitBest(tip) \in BlocksOrNone
  BY <1>1, InitBestIs
<1>3. txs \in [Blocks \cup {Shared} -> Blocks \cup {None}]
  <2> DEFINE in(t) == {b \in Ancestors[locator] : nHeight[b] > 0 /\ t \in TxsOf(b)}
  <2>1. \A t : in(t) \subseteq Blocks
    BY <1>1, AncestorsType, AncestorsNone DEF BlocksOrNone
  <2>2. txs = [t \in Blocks \cup {Shared} |->
                 IF in(t) = {} THEN None ELSE CHOOSE b \in in(t) : TRUE]
    BY DEF Init
  <2> HIDE DEF in
  <2> QED BY <2>1, <2>2
<1>4. queue \in Seq([kind : {"BlockConnected", "ChainStateFlushed"}, block : Blocks])
  BY DEF Init
<1>5. TypeOK
  BY <1>1, <1>2, <1>3, <1>4 DEF Init, TypeOK, BlocksOrNone
<1>6. SyncOK
  BY <1>5, FreshIndex DEF Init, Fresh
<1>7. IndexedUpTo(txs, locator) /\ Wrote(txs, Ancestors[locator])
  BY InitIndexed, IndexedIsWritten
<1>8. IndexedUpTo(txs, InitBest(tip))
  <2>1. CASE InitBest(tip) = None
    BY <2>1, AncestorsNone DEF IndexedUpTo
  <2>2. CASE InitBest(tip) # None
    BY <1>1, <1>7, <2>2, InitBestIs, IndexedBelow
  <2> QED BY <2>1, <2>2
<1>9. WrittenOK
  BY <1>7, <1>8 DEF Init, WrittenOK, Wrote
<1> QED BY <1>6, <1>9 DEF Init, IInv

\* A restart: the index begins from its locator.
LEMMA StartIInv ==
    ASSUME IInv, Start
    PROVE  IInv'
<1>1. /\ queue = <<>> /\ queue' = <<>>
      /\ tip' = flushed /\ m_best_block_index' = InitBest(flushed)
      /\ pindex' = InitBest(flushed)
      /\ m_synced' = (InitBest(flushed) = flushed)
      /\ thread' = IF InitBest(flushed) = flushed THEN "done" ELSE "loop"
      /\ m_interrupt' = FALSE /\ running' = TRUE
      /\ UNCHANGED <<flushed, txs, locator>>
      /\ restarts' = restarts + 1
  BY DEF IInv, SyncOK, Start, StartAt, database
<1>2. flushed \in BlocksOrNone /\ locator \in BlocksOrNone
  BY DEF IInv, SyncOK, TypeOK, BlocksOrNone
<1>3. InitBest(flushed) \in BlocksOrNone
  BY <1>2, InitBestIs
<1>4. InitBest(flushed)' = InitBest(flushed)
  BY <1>1 DEF InitBest
<1>5. TypeOK'
  BY <1>1, <1>2, <1>3 DEF IInv, SyncOK, TypeOK, BlocksOrNone
<1>6. Fresh'
  BY <1>1, <1>4, <1>5 DEF Fresh, InitBest
<1>7. SyncOK'
  BY <1>6, FreshIndex, PTL
<1> QED BY <1>1, <1>7 DEF IInv

-----------------------------------------------------------------------------
(* The chain grows, shrinks and is flushed.                                *)

Notification == [kind : {"BlockConnected", "ChainStateFlushed"}, block : Blocks]

\* What extends a chain extends any chain that has it.
LEMMA ExtendsLonger ==
    ASSUME NEW a \in Blocks, NEW c \in Ancestors[a], NEW b, Extends(c, b)
    PROVE  Extends(a, b)
  BY AncestorsTransitive DEF Extends

\* A sequence with another appended.
LEMMA Concatenation ==
    ASSUME NEW S, NEW q \in Seq(S), NEW r \in Seq(S)
    PROVE  /\ q \o r \in Seq(S) /\ Len(q \o r) = Len(q) + Len(r)
           /\ \A i \in 1..Len(q) : (q \o r)[i] = q[i]
           /\ \A i \in 1..Len(r) : (q \o r)[Len(q) + i] = r[i]
<1>1. \A i \in 1..Len(r) : (q \o r)[Len(q) + i] = r[i]
  OBVIOUS
<1>2. \A i \in 1..Len(q) : (q \o r)[i] = q[i]
  OBVIOUS
<1>3. q \o r \in Seq(S) /\ Len(q \o r) = Len(q) + Len(r)
  OBVIOUS
<1> QED BY <1>1, <1>2, <1>3

\* ActivateBestChain: the new blocks extend the active chain, and so the
\* chain the index has reached or is going to reach.
LEMMA ActivateBestChainSyncOK ==
    ASSUME SyncOK, NEW b \in Blocks, ActivateBestChain(b)
    PROVE  SyncOK'
<1> DEFINE L == Len(queue)
           P == PathTo(b)
<1>1. /\ running /\ running' /\ tip' = b
      /\ tip # None => nHeight[b] > nHeight[tip]
      /\ queue' = queue \o [i \in DOMAIN P |-> Connected(P[i])]
      /\ UNCHANGED <<flushed, txs, locator>>
      /\ UNCHANGED <<m_synced, m_best_block_index, m_interrupt, thread, pindex>>
  BY DEF ActivateBestChain, CsMain, index, database
<1>2. /\ TypeOK /\ QueueOK /\ NoTipOK /\ NoBestOK /\ WillCatchUp
      /\ tip \in BlocksOrNone /\ queue \in Seq(Notification)
  BY <1>1 DEF SyncOK, TypeOK, BlocksOrNone, Notification
<1>3. PICK n \in Nat \ {0} :
         /\ P \in [1..n -> Blocks]
         /\ P[n] = b
         /\ \A i \in 1..(n - 1) : Extends(P[i], P[i + 1])
         /\ tip = None => P[1] = Genesis
         /\ tip # None => Extends(tip, P[1])
  BY <1>1, <1>2, PathToIs
<1> DEFINE C == [i \in 1..n |-> Connected(P[i])]
<1>4. queue' = queue \o C
  BY <1>1, <1>3
<1> HIDE DEF P
<1>5. \A i \in 1..n : C[i] \in Notification /\ C[i].kind = "BlockConnected" /\ C[i].block = P[i]
  BY <1>3 DEF Connected, Notification
<1>6. C \in Seq(Notification) /\ Len(C) = n
  BY <1>5
<1> HIDE DEF C
<1>7. /\ queue' \in Seq(Notification) /\ Len(queue') = L + n
      /\ \A i \in 1..L : queue'[i] = queue[i]
      /\ \A i \in 1..n : queue'[L + i] = C[i]
  <2>1. /\ queue \o C \in Seq(Notification) /\ Len(queue \o C) = Len(queue) + Len(C)
        /\ \A i \in 1..Len(queue) : (queue \o C)[i] = queue[i]
        /\ \A i \in 1..Len(C) : (queue \o C)[Len(queue) + i] = C[i]
    <3>1. queue \in Seq(Notification) /\ C \in Seq(Notification)
      BY <1>2, <1>6
    <3> HIDE DEF L
    <3> QED BY ONLY <3>1, Concatenation
  <2> QED BY <1>4, <1>6, <2>1, Zenon
<1>8. L \in Nat /\ DOMAIN queue = 1..L /\ DOMAIN queue' = 1..(L + n)
  BY <1>2, <1>7
<1>9. \A i \in 1..(L + n) : i \notin 1..L => i - L \in 1..n /\ queue'[i] = C[i - L]
  BY <1>7, <1>8
<1>10. TypeOK'
  BY <1>1, <1>2, <1>7, SMTT(60) DEF TypeOK, Notification
<1>11. QueueOK'
  <2>1. ASSUME NEW i \in 1..(L + n), NEW j \in 1..(L + n), NextConnected(i, j)'
        PROVE  Extends(queue'[i].block, queue'[j].block)
    <3>1. /\ i < j /\ queue'[i].kind = "BlockConnected"
          /\ queue'[j].kind = "BlockConnected"
          /\ \A k \in 1..(L + n) : i < k /\ k < j => queue'[k].kind # "BlockConnected"
      BY <1>8, <2>1 DEF NextConnected, IsConnected
    <3>2. CASE j \in 1..L
      <4>1. i \in 1..L /\ NextConnected(i, j)
        BY <1>7, <1>8, <3>1, <3>2 DEF NextConnected, IsConnected
      <4> QED BY <1>2, <1>7, <1>8, <3>2, <4>1 DEF QueueOK
    <3>3. CASE i \in 1..L /\ j \notin 1..L
      <4>1. L + 1 \in 1..(L + n) /\ queue'[L + 1].kind = "BlockConnected" /\ 1 \in 1..n
        BY <1>5, <1>7, <1>8
      <4>2. j = L + 1
        BY <1>8, <3>1, <3>3, <4>1
      <4>3. LastConnected(i)
        BY <1>7, <1>8, <3>1, <3>3, <4>2 DEF LastConnected, IsConnected
      <4>4. tip \in Ancestors[queue[i].block] /\ queue[i].block \in Blocks
        <5>1. queue[i] \in Notification
          BY <1>2, <3>3
        <5> QED BY <1>2, <1>8, <3>3, <4>3, <5>1 DEF QueueOK, Notification
      <4>5. tip # None
        BY <1>2, <1>8, <3>3 DEF NoTipOK
      <4>6. Extends(queue[i].block, P[1])
        BY <1>3, <4>4, <4>5, ExtendsLonger
      <4> QED BY <1>5, <1>7, <3>3, <4>1, <4>2, <4>6
    <3>4. CASE i \notin 1..L
      <4>1. i - L \in 1..n /\ queue'[i] = C[i - L] /\ i + 1 \in 1..(L + n)
        BY <1>8, <1>9, <3>1, <3>4
      <4>2. i + 1 \notin 1..L /\ i + 1 - L \in 1..n /\ queue'[i + 1] = C[i + 1 - L]
        BY <1>8, <1>9, <3>4, <4>1
      <4>3. queue'[i + 1].kind = "BlockConnected"
        BY <1>5, <4>2
      <4>4. j = i + 1
        BY <1>8, <3>1, <4>1, <4>3
      <4>5. i - L \in 1..(n - 1) /\ (i - L) + 1 = i + 1 - L
        BY <1>8, <4>1, <4>2
      <4>6. Extends(P[i - L], P[i + 1 - L])
        BY <1>3, <4>5
      <4> QED BY <1>5, <4>1, <4>2, <4>4, <4>6
    <3> QED BY <3>2, <3>3, <3>4
  <2>2. ASSUME NEW i \in 1..(L + n), LastConnected(i)'
        PROVE  tip' \in Ancestors[queue'[i].block]
    <3>1. \A k \in 1..(L + n) : i < k => queue'[k].kind # "BlockConnected"
      BY <1>8, <2>2 DEF LastConnected, IsConnected
    <3>2. L + n \in 1..(L + n) /\ n \in 1..n /\ queue'[L + n].kind = "BlockConnected"
      BY <1>5, <1>7, <1>8
    <3>3. i = L + n
      BY <1>8, <3>1, <3>2
    <3>4. queue'[i].block = b
      BY <1>3, <1>5, <1>7, <3>2, <3>3
    <3> QED BY <1>1, <3>4, AncestorsType
  <2> QED BY <1>8, <2>1, <2>2 DEF QueueOK
<1>12. NoTipOK'
  BY <1>1, TreeAssumption DEF NoTipOK
<1>13. NoBestOK'
  <2> SUFFICES ASSUME m_synced, m_best_block_index = None
               PROVE  queue' # <<>> /\ queue'[1] = Connected(Genesis)
    BY <1>1 DEF NoBestOK
  <2>1. queue' # <<>>
    BY <1>7, <1>8
  <2>2. CASE tip = None
    <3>1. L = 0 /\ 1 \in 1..n /\ P[1] = Genesis
      BY <1>2, <1>3, <2>2 DEF NoTipOK
    <3>2. queue'[1] = C[1]
      BY <1>7, <3>1
    <3> QED BY <2>1, <3>1, <3>2 DEF C
  <2>3. CASE tip # None
    <3>1. queue # <<>> /\ queue[1] = Connected(Genesis)
      BY <1>2, <2>3 DEF NoBestOK
    <3>2. 1 \in 1..L
      BY <1>2, <1>8, <3>1
    <3> QED BY <1>7, <2>1, <3>1, <3>2
  <2> QED BY <2>2, <2>3
<1>14. WillCatchUp'
  <2> SUFFICES ASSUME m_synced, ~m_interrupt, m_best_block_index # None
               PROVE  \E i \in DOMAIN queue' :
                         /\ queue'[i].kind = "BlockConnected"
                         /\ Extends(m_best_block_index, queue'[i].block)
    BY <1>1 DEF WillCatchUp, IsConnected
  <2>1. tip # None /\ m_best_block_index \in Blocks
    BY <1>2 DEF NoTipOK, TypeOK
  <2>2. CASE tip \in Ancestors[m_best_block_index]
    <3>1. L + 1 \in 1..(L + n) /\ 1 \in 1..n /\ queue'[L + 1] = C[1]
      BY <1>7, <1>8
    <3>2. Extends(m_best_block_index, P[1])
      BY <1>3, <2>1, <2>2, ExtendsLonger
    <3> QED BY <1>5, <1>8, <3>1, <3>2
  <2>3. CASE \E i \in DOMAIN queue :
                IsConnected(i) /\ Extends(m_best_block_index, queue[i].block)
    BY <1>7, <1>8, <2>3 DEF IsConnected
  <2> QED BY <1>2, <2>1, <2>2, <2>3 DEF WillCatchUp
<1> QED BY <1>1, <1>10, <1>11, <1>12, <1>13, <1>14 DEF SyncOK

\* UnwindBlock: the parent of the tip is on every chain the tip is on.
LEMMA DisconnectTipSyncOK ==
    ASSUME SyncOK, DisconnectTip
    PROVE  SyncOK'
<1>1. /\ running /\ running' /\ tip # None /\ Parent[tip] # None /\ tip' = Parent[tip]
      /\ UNCHANGED <<flushed, queue, txs, locator>>
      /\ UNCHANGED <<m_synced, m_best_block_index, m_interrupt, thread, pindex>>
  BY DEF DisconnectTip, CsMain, index, database
<1>2. /\ TypeOK /\ QueueOK /\ NoTipOK /\ NoBestOK /\ WillCatchUp
      /\ tip \in Blocks /\ queue \in Seq(Notification)
  BY <1>1 DEF SyncOK, TypeOK, Notification
<1>3. tip # Genesis /\ Parent[tip] \in Blocks
  BY <1>1, <1>2, TreeAssumption
<1>4. \A a \in Blocks : tip \in Ancestors[a] => Parent[tip] \in Ancestors[a]
  BY <1>3, AncestorsClosed
<1>5. TypeOK'
  BY <1>1, <1>2, <1>3 DEF TypeOK
<1>6. QueueOK'
  <2>1. \A i \in DOMAIN queue : queue[i].block \in Blocks
    <3>1. \A i \in DOMAIN queue : queue[i] \in Notification
      BY <1>2
    <3> QED BY <3>1 DEF Notification
  <2> QED BY <1>1, <1>2, <1>4, <2>1
          DEF QueueOK, NextConnected, LastConnected, IsConnected
<1>7. NoTipOK' /\ NoBestOK'
  BY <1>1, <1>2 DEF NoTipOK, NoBestOK
<1>8. WillCatchUp'
  BY <1>1, <1>2, <1>4 DEF WillCatchUp, IsConnected, TypeOK
<1> QED BY <1>1, <1>5, <1>6, <1>7, <1>8 DEF SyncOK

\* FlushStateToDisk: a notification that connects nothing.
LEMMA FlushStateToDiskSyncOK ==
    ASSUME SyncOK, FlushStateToDisk
    PROVE  SyncOK'
<1> DEFINE L == Len(queue)
<1>1. /\ running /\ running' /\ tip # None /\ flushed' = tip
      /\ queue' = Append(queue, Flushed(tip))
      /\ UNCHANGED <<tip, txs, locator>>
      /\ UNCHANGED <<m_synced, m_best_block_index, m_interrupt, thread, pindex>>
  BY DEF FlushStateToDisk, CsMain, index, database
<1>2. /\ TypeOK /\ QueueOK /\ NoTipOK /\ NoBestOK /\ WillCatchUp
      /\ tip \in Blocks /\ queue \in Seq(Notification)
  BY <1>1 DEF SyncOK, TypeOK, Notification
<1>3. Flushed(tip) \in Notification /\ Flushed(tip).kind = "ChainStateFlushed"
  BY <1>2 DEF Flushed, Notification
<1>4. /\ queue' \in Seq(Notification)
      /\ L \in Nat /\ DOMAIN queue = 1..L /\ DOMAIN queue' = 1..(L + 1)
      /\ \A i \in 1..L : queue'[i] = queue[i]
      /\ queue'[L + 1].kind = "ChainStateFlushed"
  BY <1>1, <1>2, <1>3
<1>5. TypeOK'
  BY <1>1, <1>2, <1>4 DEF TypeOK, Notification
<1>6. QueueOK'
  <2>1. ASSUME NEW i \in DOMAIN queue', NEW j \in DOMAIN queue', NextConnected(i, j)'
        PROVE  Extends(queue'[i].block, queue'[j].block)
    <3>1. i \in 1..L /\ j \in 1..L
      BY <1>4, <2>1 DEF NextConnected, IsConnected
    <3>2. NextConnected(i, j)
      BY <1>4, <2>1, <3>1, SMTT(60) DEF NextConnected, IsConnected
    <3> QED BY <1>2, <1>4, <3>1, <3>2 DEF QueueOK
  <2>2. ASSUME NEW i \in DOMAIN queue', LastConnected(i)'
        PROVE  tip' \in Ancestors[queue'[i].block]
    <3>1. i \in 1..L /\ LastConnected(i)
      BY <1>4, <2>2 DEF LastConnected, IsConnected
    <3> QED BY <1>1, <1>2, <1>4, <3>1 DEF QueueOK
  <2> QED BY <2>1, <2>2 DEF QueueOK
<1>7. NoTipOK'
  BY <1>1 DEF NoTipOK
<1>8. NoBestOK'
  <2> SUFFICES ASSUME m_synced, m_best_block_index = None
               PROVE  queue' # <<>> /\ queue'[1] = Connected(Genesis)
    BY <1>1 DEF NoBestOK
  <2>1. queue # <<>> /\ queue[1] = Connected(Genesis)
    BY <1>1, <1>2 DEF NoBestOK
  <2>2. 1 \in 1..L
    BY <1>2, <1>4, <2>1
  <2> QED BY <1>4, <2>1, <2>2
<1>9. WillCatchUp'
  BY <1>1, <1>2, <1>4, SMTT(60) DEF WillCatchUp, IsConnected
<1> QED BY <1>1, <1>5, <1>6, <1>7, <1>8, <1>9 DEF SyncOK

-----------------------------------------------------------------------------
(* A notification is delivered.                                            *)

\* The rest of the queue.
LEMMA RestOfQueue ==
    ASSUME queue \in Seq(Notification), queue # <<>>, queue' = Tail(queue)
    PROVE  /\ queue' \in Seq(Notification)
           /\ Len(queue) \in Nat \ {0} /\ DOMAIN queue = 1..Len(queue)
           /\ DOMAIN queue' = 1..(Len(queue) - 1)
           /\ \A i \in DOMAIN queue' : i + 1 \in DOMAIN queue /\ queue'[i] = queue[i + 1]
           /\ \A i \in DOMAIN queue : i # 1 => i - 1 \in DOMAIN queue' /\ queue'[i - 1] = queue[i]
           /\ 1 \in DOMAIN queue /\ queue[1] = Head(queue) /\ queue[1] \in Notification
<1> DEFINE q == Tail(queue)
<1>1. /\ Len(queue) \in Nat \ {0} /\ DOMAIN queue = 1..Len(queue)
      /\ q \in Seq(Notification) /\ DOMAIN q = 1..(Len(queue) - 1)
      /\ \A i \in 1..(Len(queue) - 1) : q[i] = queue[i + 1]
      /\ queue[1] = Head(queue) /\ queue[1] \in Notification
  OBVIOUS
<1> HIDE DEF q
<1>2. queue' = q
  BY DEF q
<1> QED BY <1>1, <1>2

\* What holds of the queue holds of its rest.
LEMMA RestOfQueueOK ==
    ASSUME queue \in Seq(Notification), queue # <<>>, queue' = Tail(queue),
           QueueOK, tip' = tip
    PROVE  QueueOK'
<1>1. /\ DOMAIN queue = 1..Len(queue) /\ Len(queue) \in Nat
      /\ DOMAIN queue' = 1..(Len(queue) - 1)
      /\ \A i \in DOMAIN queue' : i + 1 \in DOMAIN queue /\ queue'[i] = queue[i + 1]
      /\ \A i \in DOMAIN queue : i # 1 => i - 1 \in DOMAIN queue' /\ queue'[i - 1] = queue[i]
  BY RestOfQueue
<1>2. ASSUME NEW i \in DOMAIN queue', NEW j \in DOMAIN queue', NextConnected(i, j)'
      PROVE  Extends(queue'[i].block, queue'[j].block)
  <2>1. NextConnected(i + 1, j + 1)
    <3>1. i + 1 < j + 1 /\ IsConnected(i + 1) /\ IsConnected(j + 1)
      BY <1>1, <1>2 DEF NextConnected, IsConnected
    <3>2. ASSUME NEW k \in DOMAIN queue, i + 1 < k, k < j + 1
          PROVE  ~IsConnected(k)
      <4>1. k # 1 /\ i < k - 1 /\ k - 1 < j
        BY <1>1, <3>2
      <4> QED BY <1>1, <1>2, <4>1 DEF NextConnected, IsConnected
    <3> QED BY <3>1, <3>2 DEF NextConnected
  <2> QED BY <1>1, <2>1 DEF QueueOK
<1>3. ASSUME NEW i \in DOMAIN queue', LastConnected(i)'
      PROVE  tip' \in Ancestors[queue'[i].block]
  <2>1. LastConnected(i + 1)
    <3>1. IsConnected(i + 1)
      BY <1>1, <1>3 DEF LastConnected, IsConnected
    <3>2. ASSUME NEW k \in DOMAIN queue, i + 1 < k
          PROVE  ~IsConnected(k)
      <4>1. k # 1 /\ i < k - 1
        BY <1>1, <3>2
      <4> QED BY <1>1, <1>3, <4>1 DEF LastConnected, IsConnected
    <3> QED BY <3>1, <3>2 DEF LastConnected
  <2> QED BY <1>1, <2>1 DEF QueueOK
<1> QED BY <1>2, <1>3 DEF QueueOK

\* A block of the queue that the index will take, and that is not the first,
\* is in the rest.
LEMMA RestOfQueueTaken ==
    ASSUME queue \in Seq(Notification), queue # <<>>, queue' = Tail(queue),
           NEW i \in DOMAIN queue, i # 1, IsConnected(i), NEW b, Extends(b, queue[i].block)
    PROVE  \E k \in DOMAIN queue' : IsConnected(k)' /\ Extends(b, queue'[k].block)
<1>1. i - 1 \in DOMAIN queue' /\ queue'[i - 1] = queue[i]
  BY RestOfQueue
<1> QED BY <1>1 DEF IsConnected

\* A block that is taken: the tip is on its chain, or the next block of the
\* queue extends it.
LEMMA TakenLeadsToTip ==
    ASSUME queue \in Seq(Notification), queue # <<>>, QueueOK, IsConnected(1)
    PROVE  \/ tip \in Ancestors[queue[1].block]
           \/ \E i \in DOMAIN queue :
                 i # 1 /\ IsConnected(i) /\ Extends(queue[1].block, queue[i].block)
<1> DEFINE S == {k \in DOMAIN queue : k # 1 /\ IsConnected(k)}
<1>1. DOMAIN queue = 1..Len(queue) /\ 1 \in DOMAIN queue /\ S \in SUBSET Nat
  OBVIOUS
<1>2. CASE S = {}
  <2>1. LastConnected(1)
    BY <1>1, <1>2 DEF LastConnected
  <2> QED BY <1>1, <2>1 DEF QueueOK
<1>3. CASE S # {}
  <2>1. PICK m \in S : \A k \in S : m <= k
    BY <1>1, <1>3, SmallestMember
  <2>2. \A k \in DOMAIN queue : 1 < k /\ k < m => ~IsConnected(k)
    BY <1>1, <2>1
  <2>3. NextConnected(1, m)
    BY <1>1, <2>1, <2>2 DEF NextConnected
  <2> QED BY <1>1, <2>1, <2>3 DEF QueueOK
<1> QED BY <1>2, <1>3

\* BlockConnected.
LEMMA BlockConnectedSyncOK ==
    ASSUME SyncOK, BlockConnected
    PROVE  SyncOK'
<1> DEFINE b == Head(queue).block
           best == m_best_block_index
<1>1. /\ running /\ running' /\ queue # <<>> /\ queue' = Tail(queue)
      /\ Head(queue).kind = "BlockConnected"
      /\ UNCHANGED <<tip, flushed, m_synced, thread, pindex, locator>>
  BY DEF BlockConnected
<1>2. /\ TypeOK /\ QueueOK /\ NoTipOK /\ NoBestOK /\ WillCatchUp
      /\ best \in BlocksOrNone /\ queue \in Seq(Notification)
  BY <1>1 DEF SyncOK, TypeOK, Notification, BlocksOrNone
<1>3. /\ queue' \in Seq(Notification) /\ 1 \in DOMAIN queue
      /\ queue[1] = Head(queue) /\ queue[1] \in Notification
  BY <1>1, <1>2, RestOfQueue
<1>4. b \in Blocks /\ IsConnected(1) /\ queue[1].block = b
  BY <1>1, <1>3 DEF Notification, IsConnected
<1>5. QueueOK'
  BY <1>1, <1>2, RestOfQueueOK
<1>6. tip # None
  BY <1>1, <1>2 DEF NoTipOK
<1>7. NoTipOK'
  BY <1>1, <1>6 DEF NoTipOK
<1>8. m_synced /\ best = None => ConnectsToBest(b) /\ nHeight[b] = 0
  <2> SUFFICES ASSUME m_synced, best = None PROVE ConnectsToBest(b) /\ nHeight[b] = 0
    OBVIOUS
  <2>1. queue[1] = Connected(Genesis)
    BY <1>2, <1>6 DEF NoBestOK
  <2>2. b = Genesis
    BY <1>4, <2>1 DEF Connected
  <2> QED BY <2>2, TreeAssumption DEF ConnectsToBest
<1>9. TypeOK'
  <2>1. txs' \in [Blocks \cup {Shared} -> Blocks \cup {None}]
    <3>1. txs' = txs \/ txs' = WriteBlock(b)
      BY DEF BlockConnected
    <3> QED BY <1>2, <1>4, <3>1 DEF TypeOK, WriteBlock
  <2>2. best' \in Blocks \cup {None} /\ m_interrupt' \in BOOLEAN
    <3>1. best' = best \/ best' = b
      BY DEF BlockConnected
    <3>2. m_interrupt' \in BOOLEAN
      BY <1>2, Zenon DEF BlockConnected, TypeOK
    <3> QED BY <1>2, <1>4, <3>1, <3>2 DEF BlocksOrNone
  <2> QED BY <1>1, <1>2, <1>3, <2>1, <2>2 DEF TypeOK, Notification
<1>10. CASE ~m_synced
  BY <1>1, <1>5, <1>7, <1>9, <1>10 DEF SyncOK, NoBestOK, WillCatchUp
<1>11. CASE m_synced /\ ConnectsToBest(b) /\ best' = b
  <2>1. b # None
    BY <1>4, TreeAssumption
  <2>2. NoBestOK'
    BY <1>11, <2>1 DEF NoBestOK
  <2>3. WillCatchUp'
    <3>1. CASE tip \in Ancestors[b]
      BY <1>1, <1>11, <3>1 DEF WillCatchUp
    <3>2. CASE \E i \in DOMAIN queue : i # 1 /\ IsConnected(i) /\ Extends(b, queue[i].block)
      <4>1. \E k \in DOMAIN queue' : IsConnected(k)' /\ Extends(b, queue'[k].block)
        BY <1>1, <1>2, <3>2, RestOfQueueTaken
      <4> QED BY <1>11, <4>1 DEF WillCatchUp
    <3> QED BY <1>1, <1>2, <1>4, <3>1, <3>2, TakenLeadsToTip
  <2> QED BY <1>1, <1>5, <1>7, <1>9, <2>2, <2>3 DEF SyncOK
<1>12. CASE m_synced /\ best' = best /\ m_interrupt' /\ best # None
  BY <1>1, <1>5, <1>7, <1>9, <1>12 DEF SyncOK, NoBestOK, WillCatchUp
<1>13. CASE m_synced /\ ~ConnectsToBest(b) /\ best' = best /\ m_interrupt' = m_interrupt
            /\ best # None
  <2>1. best \in Blocks
    BY <1>2, <1>13 DEF BlocksOrNone
  <2>2. ~Extends(best, b)
    BY <1>4, <1>13, <2>1, ConnectsToBestIs
  <2>3. WillCatchUp'
    <3> SUFFICES ASSUME ~m_interrupt, tip \notin Ancestors[best]
                 PROVE  \E k \in DOMAIN queue' : IsConnected(k)' /\ Extends(best, queue'[k].block)
      BY <1>1, <1>13 DEF WillCatchUp
    <3>1. PICK i \in DOMAIN queue : IsConnected(i) /\ Extends(best, queue[i].block)
      BY <1>2, <1>6, <1>13 DEF WillCatchUp
    <3>2. i # 1
      BY <1>4, <2>2, <3>1
    <3> QED BY <1>1, <1>2, <3>1, <3>2, RestOfQueueTaken
  <2>4. NoBestOK'
    BY <1>13 DEF NoBestOK
  <2> QED BY <1>1, <1>5, <1>7, <1>9, <2>3, <2>4 DEF SyncOK
<1>14. \/ ~m_synced
       \/ m_synced /\ ConnectsToBest(b) /\ best' = b
       \/ m_synced /\ best' = best /\ m_interrupt' /\ best # None
       \/ /\ m_synced /\ ~ConnectsToBest(b) /\ best' = best
          /\ m_interrupt' = m_interrupt /\ best # None
  <2>1. \/ ~m_synced
        \/ m_synced /\ ConnectsToBest(b) /\ best' = b
        \/ m_synced /\ ConnectsToBest(b) /\ nHeight[b] > 0 /\ m_interrupt' = TRUE /\ best' = best
        \/ /\ m_synced /\ ~ConnectsToBest(b) /\ best' = best
           /\ m_interrupt' = (m_interrupt \/ best = None)
    BY ZenonT(60) DEF BlockConnected
  <2>2. ~(0 > 0)
    OBVIOUS
  <2>3. m_interrupt \in BOOLEAN
    BY <1>2 DEF TypeOK
  <2> QED BY <1>8, <2>1, <2>2, <2>3, Zenon
<1> QED BY <1>10, <1>11, <1>12, <1>13, <1>14

\* ChainStateFlushed: the index has a best block, and only writes its
\* locator.
LEMMA ChainStateFlushedSyncOK ==
    ASSUME SyncOK, ChainStateFlushed
    PROVE  SyncOK'
<1> DEFINE best == m_best_block_index
<1>1. /\ running /\ running' /\ queue # <<>> /\ queue' = Tail(queue)
      /\ Head(queue).kind = "ChainStateFlushed"
      /\ UNCHANGED <<tip, flushed, txs>>
      /\ UNCHANGED <<m_synced, m_best_block_index, m_interrupt, thread, pindex>>
      /\ locator' = locator \/ locator' = GetLocator(best)
  BY DEF ChainStateFlushed, CsMain, index, Commit
<1>2. /\ TypeOK /\ QueueOK /\ NoTipOK /\ NoBestOK /\ WillCatchUp
      /\ queue \in Seq(Notification)
  BY <1>1 DEF SyncOK, TypeOK, Notification
<1>3. queue' \in Seq(Notification) /\ queue[1] = Head(queue) /\ ~IsConnected(1)
  BY <1>1, <1>2, RestOfQueue DEF IsConnected
<1>4. TypeOK'
  BY <1>1, <1>2, <1>3 DEF TypeOK, GetLocator, Notification
<1>5. QueueOK'
  BY <1>1, <1>2, RestOfQueueOK
<1>6. tip # None
  BY <1>1, <1>2 DEF NoTipOK
<1>7. NoTipOK'
  BY <1>1, <1>6 DEF NoTipOK
<1>8. NoBestOK'
  <2>1. Connected(Genesis).kind = "BlockConnected"
    BY DEF Connected
  <2> QED BY <1>1, <1>2, <1>3, <1>6, <2>1 DEF NoBestOK, IsConnected
<1>9. WillCatchUp'
  <2> SUFFICES ASSUME m_synced, ~m_interrupt, best # None, tip \notin Ancestors[best]
               PROVE  \E k \in DOMAIN queue' : IsConnected(k)' /\ Extends(best, queue'[k].block)
    BY <1>1 DEF WillCatchUp
  <2>1. PICK i \in DOMAIN queue : IsConnected(i) /\ Extends(best, queue[i].block)
    BY <1>2, <1>6 DEF WillCatchUp
  <2>2. i # 1
    BY <1>3, <2>1
  <2> QED BY <1>1, <1>2, <2>1, <2>2, RestOfQueueTaken
<1> QED BY <1>1, <1>4, <1>5, <1>7, <1>8, <1>9 DEF SyncOK

-----------------------------------------------------------------------------
(* The sync thread, stopping and crashing.                                 *)

\* An iteration of ThreadSync: m_synced is set only when the tip is on the
\* chain that was indexed.
LEMMA ThreadSyncSyncOK ==
    ASSUME SyncOK, NEW timed \in BOOLEAN, ThreadSync(timed)
    PROVE  SyncOK'
<1> DEFINE n == NextSyncBlock(pindex)
<1>1. /\ running /\ running' /\ thread = "loop" /\ ~m_synced
      /\ UNCHANGED <<tip, flushed, queue, m_interrupt, txs>>
  BY DEF ThreadSync, SyncOK
<1>2. /\ TypeOK /\ QueueOK /\ NoTipOK /\ pindex \in BlocksOrNone
  BY <1>1 DEF SyncOK, TypeOK, BlocksOrNone
<1>3. tip # None /\ tip \in Blocks
  BY <1>1, <1>2 DEF NoTipOK, TypeOK
<1>4. /\ n = None => pindex # None /\ tip \in Ancestors[pindex]
      /\ n # None => n \in Blocks
  BY <1>2, <1>3, NextSyncBlockIs
<1>5. QueueOK' /\ NoTipOK'
  BY <1>1, <1>2, <1>3 DEF QueueOK, NextConnected, LastConnected, IsConnected, NoTipOK
<1>6. CASE /\ m_best_block_index' = pindex /\ Commit(pindex) /\ thread' = "done"
           /\ UNCHANGED <<pindex, m_synced>>
  <2>1. TypeOK'
    BY <1>1, <1>2, <1>6 DEF TypeOK, Commit, GetLocator, BlocksOrNone
  <2> QED BY <1>1, <1>5, <1>6, <2>1 DEF SyncOK, NoBestOK, WillCatchUp
<1>7. CASE /\ n = None /\ m_best_block_index' = pindex /\ m_synced' = TRUE
           /\ thread' = "commit" /\ UNCHANGED <<pindex, locator>>
  <2>1. TypeOK'
    BY <1>1, <1>2, <1>7 DEF TypeOK, BlocksOrNone
  <2>2. NoBestOK' /\ WillCatchUp'
    BY <1>1, <1>4, <1>7 DEF NoBestOK, WillCatchUp
  <2> QED BY <1>1, <1>5, <1>7, <2>1, <2>2 DEF SyncOK
<1>8. CASE /\ n # None /\ pindex' = n /\ thread' = "write" /\ m_synced' = m_synced
           /\ \/ m_best_block_index' = pindex' /\ Commit(pindex')
              \/ UNCHANGED <<m_best_block_index, locator>>
  <2>1. TypeOK'
    BY <1>1, <1>2, <1>4, <1>8 DEF TypeOK, Commit, GetLocator, BlocksOrNone
  <2> QED BY <1>1, <1>5, <1>8, <2>1 DEF SyncOK, NoBestOK, WillCatchUp
<1>9. \/ /\ m_best_block_index' = pindex /\ Commit(pindex) /\ thread' = "done"
         /\ UNCHANGED <<pindex, m_synced>>
      \/ /\ n = None /\ m_best_block_index' = pindex /\ m_synced' = TRUE
         /\ thread' = "commit" /\ UNCHANGED <<pindex, locator>>
      \/ /\ n # None /\ pindex' = n /\ thread' = "write" /\ m_synced' = m_synced
         /\ \/ m_best_block_index' = pindex' /\ Commit(pindex')
            \/ UNCHANGED <<m_best_block_index, locator>>
  BY Zenon DEF ThreadSync
<1> QED BY <1>6, <1>7, <1>8, <1>9

\* The other steps of the thread, and the ends of the process, leave what the
\* index has reached alone.
LEMMA OtherSyncOK ==
    ASSUME SyncOK,
           \/ ThreadSyncCommit \/ ThreadSyncWrite \/ ThreadSyncFails
           \/ Interrupt \/ Stop \/ Crash
    PROVE  SyncOK'
<1>1. CASE ThreadSyncCommit
  <2>1. /\ running /\ running' /\ locator' = GetLocator(m_best_block_index)
        /\ thread' = "done"
        /\ UNCHANGED <<tip, flushed, queue, m_synced, m_best_block_index, m_interrupt>>
        /\ UNCHANGED <<pindex, txs>>
    BY <1>1 DEF ThreadSyncCommit, Commit
  <2>2. TypeOK'
    BY <2>1 DEF SyncOK, TypeOK, GetLocator
  <2> QED BY <2>1, <2>2 DEF SyncOK, QueueOK, NextConnected, LastConnected, IsConnected,
                            NoTipOK, NoBestOK, WillCatchUp
<1>2. CASE ThreadSyncWrite
  <2>1. /\ running /\ running' /\ thread = "write" /\ thread' = "loop"
        /\ txs' = WriteBlock(pindex)
        /\ UNCHANGED <<tip, flushed, queue, m_synced, m_best_block_index, m_interrupt>>
        /\ UNCHANGED <<pindex, locator>>
    BY <1>2 DEF ThreadSyncWrite
  <2>2. txs' \in [Blocks \cup {Shared} -> Blocks \cup {None}]
    BY <2>1 DEF SyncOK, TypeOK, WriteBlock
  <2>3. TypeOK'
    BY <2>1, <2>2 DEF SyncOK, TypeOK
  <2> QED BY <2>1, <2>3, SMTT(60) DEF SyncOK, QueueOK, NextConnected, LastConnected, IsConnected,
                            NoTipOK, NoBestOK, WillCatchUp
<1>3. CASE ThreadSyncFails \/ Interrupt
  <2>1. /\ running /\ running' /\ thread' \in {thread, "done"} /\ m_interrupt' = TRUE
        /\ UNCHANGED <<tip, flushed, queue, m_synced, m_best_block_index>>
        /\ UNCHANGED <<pindex, txs, locator>>
    BY <1>3, SMTT(60) DEF ThreadSyncFails, Interrupt, database
  <2>2. TypeOK'
    BY <2>1 DEF SyncOK, TypeOK
  <2> QED BY <2>1, <2>2 DEF SyncOK, QueueOK, NextConnected, LastConnected, IsConnected,
                            NoTipOK, NoBestOK, WillCatchUp
<1>4. CASE Stop \/ Crash
  <2>1. /\ ~running' /\ queue' = <<>> /\ flushed' \in {flushed, tip}
        /\ UNCHANGED <<tip, txs, locator>>
        /\ UNCHANGED <<m_synced, m_best_block_index, m_interrupt, thread, pindex>>
        /\ running' = FALSE
    BY <1>4 DEF Stop, Crash, index, database
  <2>2. <<>> \in Seq([kind : {"BlockConnected", "ChainStateFlushed"}, block : Blocks])
    OBVIOUS
  <2>3. TypeOK'
    BY <2>1, <2>2 DEF SyncOK, TypeOK
  <2> QED BY <2>1, <2>3 DEF SyncOK
<1> QED BY <1>1, <1>2, <1>3, <1>4

-----------------------------------------------------------------------------
(* What has been written before the first restart.                         *)

\* ThreadSync commits only what was written, but for the block it is about to
\* write.
LEMMA ThreadSyncWrittenOK ==
    ASSUME SyncOK, WrittenOK, NEW timed \in BOOLEAN, ThreadSync(timed)
    PROVE  WrittenOK'
<1> DEFINE n == NextSyncBlock(pindex)
<1>1. /\ thread = "loop" /\ ~m_synced /\ txs' = txs
      /\ IndexedUpTo(txs, pindex) /\ Wrote(txs, Ancestors[locator])
  BY DEF ThreadSync, SyncOK, WrittenOK
<1>2. pindex \in BlocksOrNone /\ tip \in Blocks /\ Wrote(txs, Ancestors[pindex])
  BY <1>1, IndexedIsWritten DEF SyncOK, TypeOK, NoTipOK, BlocksOrNone, ThreadSync
<1>3. CASE /\ Commit(pindex) /\ thread' = "done" /\ UNCHANGED <<pindex, m_synced>>
  BY <1>1, <1>2, <1>3 DEF WrittenOK, Commit, GetLocator, Wrote
<1>4. CASE /\ n = None /\ m_best_block_index' = pindex /\ thread' = "commit"
           /\ UNCHANGED <<pindex, locator>>
  BY <1>1, <1>4 DEF WrittenOK, Wrote
<1>5. CASE /\ n # None /\ pindex' = n /\ thread' = "write" /\ m_synced' = m_synced
           /\ Commit(pindex') \/ locator' = locator
  <2>1. n \in Blocks /\ (n = Genesis \/ (pindex # None /\ Parent[n] \in Ancestors[pindex]))
    BY <1>2, <1>5, NextSyncBlockIs
  <2>2. IndexedUpTo(txs, Parent[n])
    <3>1. CASE n = Genesis
      BY <3>1, AncestorsNone, TreeAssumption DEF IndexedUpTo
    <3>2. CASE n # Genesis
      BY <1>1, <1>2, <2>1, <3>2, IndexedBelow DEF BlocksOrNone
    <3> QED BY <3>1, <3>2
  <2>3. Wrote(txs, Ancestors[n] \ {n})
    <3>1. CASE n = Genesis
      BY <3>1, AncestorsGenesis DEF Wrote
    <3>2. CASE n # Genesis
      BY <2>1, <2>2, <3>2, AncestorsStep, IndexedIsWritten DEF Wrote
    <3> QED BY <3>1, <3>2
  <2>4. Wrote(txs, Ancestors[locator'] \ {n})
    BY <1>1, <1>5, <2>3 DEF Commit, GetLocator, Wrote
  <2> QED BY <1>1, <1>5, <2>2, <2>4 DEF WrittenOK
<1>6. \/ /\ Commit(pindex) /\ thread' = "done" /\ UNCHANGED <<pindex, m_synced>>
      \/ /\ n = None /\ m_best_block_index' = pindex /\ thread' = "commit"
         /\ UNCHANGED <<pindex, locator>>
      \/ /\ n # None /\ pindex' = n /\ thread' = "write" /\ m_synced' = m_synced
         /\ Commit(pindex') \/ locator' = locator
  BY Zenon DEF ThreadSync
<1> QED BY <1>3, <1>4, <1>5, <1>6

\* The thread's other steps.
LEMMA ThreadWrittenOK ==
    ASSUME SyncOK, WrittenOK, ThreadSyncCommit \/ ThreadSyncWrite \/ ThreadSyncFails
    PROVE  WrittenOK'
<1>1. CASE ThreadSyncCommit
  <2>1. /\ thread' = "done" /\ locator' = GetLocator(m_best_block_index)
        /\ UNCHANGED <<m_synced, m_best_block_index, pindex, txs>>
        /\ running /\ thread = "commit"
    BY <1>1 DEF ThreadSyncCommit, Commit
  <2>2. m_synced
    BY <2>1 DEF SyncOK
  <2> QED BY <2>1, <2>2, IndexedIsWritten DEF WrittenOK, GetLocator, Wrote
<1>2. CASE ThreadSyncWrite
  <2>1. /\ running /\ thread = "write" /\ thread' = "loop" /\ ~m_synced
        /\ txs' = WriteBlock(pindex)
        /\ UNCHANGED <<m_synced, m_best_block_index, pindex, locator>>
    BY <1>2 DEF ThreadSyncWrite, SyncOK
  <2>2. /\ pindex \in Blocks /\ locator \in BlocksOrNone
        /\ txs \in [Blocks \cup {Shared} -> BlocksOrNone]
    BY <2>1 DEF SyncOK, TypeOK, BlocksOrNone
  <2>3. IndexedUpTo(WriteBlock(pindex), pindex)
    BY <2>1, <2>2, WriteBlockKeeps DEF WrittenOK
  <2>4. Ancestors[locator] \ {pindex} \in SUBSET Blocks
    BY <2>2, AncestorsType, AncestorsNone DEF BlocksOrNone
  <2>5. Wrote(txs, Ancestors[locator] \ {pindex})
    BY <2>2, TreeAssumption DEF WrittenOK
  <2>6. Wrote(WriteBlock(pindex), (Ancestors[locator] \ {pindex}) \cup {pindex})
    BY <2>2, <2>4, <2>5, WriteBlockWrites
  <2>7. Wrote(WriteBlock(pindex), Ancestors[locator])
    BY <2>6 DEF Wrote
  <2> QED BY <2>1, <2>3, <2>7 DEF WrittenOK, Wrote
<1>3. CASE ThreadSyncFails
  BY <1>3 DEF ThreadSyncFails, WrittenOK, database
<1> QED BY <1>1, <1>2, <1>3

\* BlockConnected writes a block whose parent's chain is indexed.
LEMMA BlockConnectedWrittenOK ==
    ASSUME SyncOK, WrittenOK, BlockConnected
    PROVE  WrittenOK'
<1> DEFINE b == Head(queue).block
           best == m_best_block_index
<1>1. /\ running /\ queue # <<>> /\ queue' = Tail(queue)
      /\ UNCHANGED <<m_synced, thread, pindex, locator>>
  BY DEF BlockConnected
<1>2. /\ best \in BlocksOrNone /\ locator \in BlocksOrNone
      /\ txs \in [Blocks \cup {Shared} -> BlocksOrNone]
      /\ queue \in Seq(Notification)
  BY DEF SyncOK, TypeOK, BlocksOrNone, Notification
<1>3. queue[1] \in Notification /\ queue[1] = Head(queue)
  BY <1>1, <1>2, RestOfQueue
<1>4. b \in Blocks
  BY <1>3 DEF Notification
<1>5. CASE m_synced /\ ConnectsToBest(b) /\ txs' = WriteBlock(b) /\ best' = b
  <2>1. IndexedUpTo(txs, Parent[b])
    <3>1. CASE b = Genesis
      BY <3>1, AncestorsNone, TreeAssumption DEF IndexedUpTo
    <3>2. CASE b # Genesis
      <4>1. nHeight[b] # 0
        BY <1>4, <3>2, TreeAssumption, SMTT(60)
      <4>2. best \in Blocks
        BY <1>2, <1>5, <4>1 DEF ConnectsToBest, BlocksOrNone
      <4>3. Parent[b] \in Ancestors[best]
        BY <1>4, <1>5, <3>2, <4>2, ConnectsToBestIs DEF Extends
      <4> QED BY <1>5, <4>2, <4>3, IndexedBelow DEF WrittenOK
    <3> QED BY <3>1, <3>2
  <2>2. IndexedUpTo(txs', b)
    BY <1>2, <1>4, <1>5, <2>1, WriteBlockKeeps
  <2>3. thread \notin {"loop", "write"}
    BY <1>1, <1>5 DEF SyncOK
  <2>4. pindex # None => Wrote(txs', Ancestors[locator] \ {pindex})
    <3> SUFFICES ASSUME pindex # None PROVE Wrote(txs', Ancestors[locator] \ {pindex})
      OBVIOUS
    <3>1. Ancestors[locator] \ {pindex} \in SUBSET Blocks
      BY <1>2, AncestorsType, AncestorsNone DEF BlocksOrNone
    <3>2. Wrote(WriteBlock(b), (Ancestors[locator] \ {pindex}) \cup {b})
      BY <1>2, <1>4, <3>1, WriteBlockWrites DEF WrittenOK
    <3> QED BY <1>5, <3>2 DEF Wrote
  <2>5. b # None
    BY <1>4, TreeAssumption
  <2> QED BY <1>1, <1>5, <2>2, <2>3, <2>4, <2>5 DEF WrittenOK
<1>6. CASE UNCHANGED <<txs, m_best_block_index>>
  BY <1>1, <1>6 DEF WrittenOK
<1>7. \/ m_synced /\ ConnectsToBest(b) /\ txs' = WriteBlock(b) /\ best' = b
      \/ UNCHANGED <<txs, m_best_block_index>>
  BY Zenon DEF BlockConnected
<1> QED BY <1>5, <1>6, <1>7

\* ChainStateFlushed commits the best block, which the index has.
LEMMA ChainStateFlushedWrittenOK ==
    ASSUME SyncOK, WrittenOK, ChainStateFlushed
    PROVE  WrittenOK'
<1>1. /\ running /\ UNCHANGED <<m_synced, m_best_block_index, thread, pindex, txs>>
      /\ locator' = locator \/ (m_synced /\ locator' = GetLocator(m_best_block_index))
  BY DEF ChainStateFlushed, CsMain, index, Commit
<1>2. CASE locator' = locator
  BY <1>1, <1>2 DEF WrittenOK
<1>3. CASE m_synced /\ locator' = GetLocator(m_best_block_index)
  <2>1. thread \notin {"loop", "write"}
    BY <1>1, <1>3 DEF SyncOK
  <2>2. Wrote(txs, Ancestors[m_best_block_index])
    BY <1>3, IndexedIsWritten DEF WrittenOK
  <2> QED BY <1>1, <1>3, <2>1, <2>2 DEF WrittenOK, GetLocator, Wrote
<1> QED BY <1>1, <1>2, <1>3

\* The other steps do not touch the index's database.
LEMMA OtherWrittenOK ==
    ASSUME WrittenOK, UNCHANGED <<m_synced, m_best_block_index, thread, pindex, txs, locator>>
    PROVE  WrittenOK'
  BY DEF WrittenOK

-----------------------------------------------------------------------------
(* The invariant is inductive, and the theorems.                           *)

\* Every step keeps the invariant.
LEMMA NextIInv == IInv /\ [Next]_vars => IInv'
<1> SUFFICES ASSUME IInv, [Next]_vars PROVE IInv'
  OBVIOUS
<1>1. SyncOK /\ restarts \in Nat /\ (restarts = 0 => WrittenOK)
  BY DEF IInv
<1>2. ASSUME NEW b \in Blocks, ActivateBestChain(b) PROVE IInv'
  <2>1. /\ UNCHANGED restarts
        /\ UNCHANGED <<m_synced, m_best_block_index, thread, pindex, txs, locator>>
    BY <1>2 DEF ActivateBestChain, index, database
  <2> QED BY <1>1, <1>2, <2>1, ActivateBestChainSyncOK, OtherWrittenOK DEF IInv
<1>3. CASE DisconnectTip \/ FlushStateToDisk \/ Interrupt \/ Stop \/ Crash
  <2>1. /\ UNCHANGED restarts
        /\ UNCHANGED <<m_synced, m_best_block_index, thread, pindex, txs, locator>>
    BY <1>3 DEF DisconnectTip, FlushStateToDisk, Interrupt, Stop, Crash, index,
                database, counters
  <2>2. SyncOK'
    BY <1>1, <1>3, DisconnectTipSyncOK, FlushStateToDiskSyncOK, OtherSyncOK
  <2> QED BY <1>1, <2>1, <2>2, OtherWrittenOK DEF IInv
<1>4. ASSUME NEW timed \in BOOLEAN, ThreadSync(timed) PROVE IInv'
  <2>1. UNCHANGED restarts
    BY <1>4 DEF ThreadSync, counters
  <2> QED BY <1>1, <1>4, <2>1, ThreadSyncSyncOK, ThreadSyncWrittenOK DEF IInv
<1>5. CASE ThreadSyncCommit \/ ThreadSyncWrite \/ ThreadSyncFails
  <2>1. UNCHANGED restarts
    BY <1>5 DEF ThreadSyncCommit, ThreadSyncWrite, ThreadSyncFails, counters
  <2> QED BY <1>1, <1>5, <2>1, OtherSyncOK, ThreadWrittenOK DEF IInv
<1>6. CASE BlockConnected
  <2>1. UNCHANGED restarts
    BY <1>6 DEF BlockConnected, counters
  <2> QED BY <1>1, <1>6, <2>1, BlockConnectedSyncOK, BlockConnectedWrittenOK DEF IInv
<1>7. CASE ChainStateFlushed
  <2>1. UNCHANGED restarts
    BY <1>7 DEF ChainStateFlushed, counters
  <2> QED BY <1>1, <1>7, <2>1, ChainStateFlushedSyncOK, ChainStateFlushedWrittenOK DEF IInv
<1>8. CASE Start
  BY <1>8, StartIInv
<1>9. CASE UNCHANGED vars
  BY <1>9 DEF vars, index, database, counters, IInv, SyncOK, TypeOK, QueueOK, NextConnected,
              LastConnected, IsConnected, NoTipOK, NoBestOK, WillCatchUp, WrittenOK
<1> QED BY <1>2, <1>3, <1>4, <1>5, <1>6, <1>7, <1>8, <1>9 DEF Next, SyncThread

\* The invariant holds in every state of every behaviour.
LEMMA AlwaysIInv == Spec => []IInv
  BY InitIInv, NextIInv, PTL DEF Spec

\* GetAncestor is how CaughtUp asks whether the tip is on a chain.
LEMMA GetAncestorOfTip ==
    ASSUME NEW b \in Blocks, NEW c \in Blocks
    PROVE  GetAncestor(b, nHeight[c]) = c <=> c \in Ancestors[b]
<1>1. GetAncestor(b, nHeight[c]) \in Ancestors[b] \cup {None}
  BY DEF GetAncestor
<1> QED BY <1>1, GetAncestorIs, TreeAssumption

\* What BlockUntilSyncedToCurrentChain's fast path promises holds until the
\* node is first restarted, whatever writes have failed and whatever is in
\* the queue: every transaction of the active chain is found in its block.
THEOREM FastPathHolds == Spec => []FastPathIsRightUntilRestart
<1>1. IInv => FastPathIsRightUntilRestart
  <2> SUFFICES ASSUME IInv, restarts = 0, CaughtUp PROVE ActiveChainIsIndexed
    BY DEF FastPathIsRightUntilRestart, FastPathIsRight
  <2>1. /\ m_synced /\ m_best_block_index \in Blocks /\ tip \in Blocks
        /\ IndexedUpTo(txs, m_best_block_index)
    BY DEF CaughtUp, IInv, SyncOK, TypeOK, WrittenOK
  <2>2. tip \in Ancestors[m_best_block_index]
    BY <2>1, GetAncestorOfTip DEF CaughtUp
  <2>3. IndexedUpTo(txs, tip)
    BY <2>1, <2>2, IndexedBelow
  <2> QED BY <2>3 DEF IndexedUpTo, ActiveChainIsIndexed
<1> QED BY <1>1, AlwaysIInv, PTL

\* With an empty queue an index that is not stopping has reached the active
\* tip, after any reorganizations and restarts: BlockConnected misses no
\* block that it needs, and its warning is harmless.
THEOREM IndexCatchesUp == Spec => []QuietMeansCaughtUp
<1>1. IInv => QuietMeansCaughtUp
  <2> SUFFICES ASSUME IInv, running, ~m_interrupt, m_synced, queue = <<>>, tip # None
               PROVE  CaughtUp
    BY DEF QuietMeansCaughtUp
  <2>1. /\ m_best_block_index # None
        /\ m_best_block_index \in Blocks /\ tip \in Blocks
    BY DEF IInv, SyncOK, TypeOK, NoBestOK
  <2>2. tip \in Ancestors[m_best_block_index]
    BY <2>1, SMTT(60) DEF IInv, SyncOK, WillCatchUp
  <2>3. GetAncestor(m_best_block_index, nHeight[tip]) = tip
    BY <2>1, <2>2, GetAncestorOfTip
  <2> QED BY <2>1, <2>3 DEF CaughtUp
<1> QED BY <1>1, AlwaysIInv, PTL

\* When the node first stops, in whatever way, the index's locator names at
\* most one block that its database lacks: the one ThreadSync commits before
\* it writes it.
THEOREM OneBlockAtMostIsMissing == Spec => []OnlyTheNextBlockIsMissing
<1>1. IInv => OnlyTheNextBlockIsMissing
  BY DEF IInv, WrittenOK, Wrote, OnlyTheNextBlockIsMissing
<1> QED BY <1>1, AlwaysIInv, PTL

\* ChainStateFlushed never dereferences a null best block, and "First block
\* connected is not the genesis block" is never met: before an index has a
\* best block, the first notification it takes is the genesis block's.
THEOREM FlushNeverFindsNull == Spec => []FlushFindsBestBlock
<1>1. IInv => FlushFindsBestBlock
  <2> SUFFICES ASSUME IInv, running, m_synced, queue # <<>>,
                      Head(queue).kind = "ChainStateFlushed", m_best_block_index = None
               PROVE  FALSE
    BY DEF FlushFindsBestBlock
  <2>1. tip # None /\ queue \in Seq(Notification)
    BY DEF IInv, SyncOK, NoTipOK, TypeOK, Notification
  <2>2. queue[1] = Connected(Genesis)
    BY <2>1 DEF IInv, SyncOK, NoBestOK
  <2>3. Head(queue) = queue[1]
    BY <2>1
  <2> QED BY <2>2, <2>3 DEF Connected
<1> QED BY <1>1, AlwaysIInv, PTL
=============================================================================
