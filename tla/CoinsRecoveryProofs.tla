------------------------ MODULE CoinsRecoveryProofs ------------------------
(***************************************************************************)
(* Proofs about CoinsRecovery for every tree of blocks, every set of       *)
(* transactions and any number of crashes: the coins database always       *)
(* matches its heads, the coins in memory are those of the best block, the *)
(* tip can be disconnected, and the node can come back.                    *)
(*                                                                         *)
(* One fact carries the replay: while it walks, every coin of its cache is *)
(* the one of the block it has come to or the one of the new head.  A      *)
(* block rolled back or forward settles the outpoints it touches, and does *)
(* not tell its parent's coins from its own on any other.                  *)
(***************************************************************************)
EXTENDS CoinsRecovery, WellFoundedInduction, TLAPS

-----------------------------------------------------------------------------
(* The inductive invariant.                                                *)

\* A block index: it has the genesis block and the parent of each block.
IndexOK(i) ==
    /\ i \subseteq Blocks /\ Genesis \in i
    /\ \A b \in i \ {Genesis} : Parent[b] \in i

\* Undo data is there for blocks that connect to the coins of their parent,
\* and is what ConnectBlock takes from these.
UndoOK(u, i) ==
    /\ DOMAIN u \subseteq i \ {Genesis}
    /\ \A b \in DOMAIN u :
          /\ Parent[b] \in DOMAIN u \cup {Genesis}
          /\ InputsAvailable(UtxoAt[Parent[b]], b)
          /\ u[b] = BlockUndo(UtxoAt[Parent[b]], b)

\* The blocks that can be a tip.
Tips(u) == {Genesis} \cup DOMAIN u

\* Every coin is that of block a or of block b.
Mixture(c, a, b) ==
    /\ c = [o \in Outpoints |-> c[o]]
    /\ \A o \in Outpoints : c[o] \in {UtxoAt[a][o], UtxoAt[b][o]}

\* A state of the coins database: its blocks are ones the undo data u has.
StoreOK(d, u) ==
    IF d.heads = NoHeads
    THEN d.best \in Tips(u) \cup {Null} /\ d.coins = UtxoAt[d.best]
    ELSE /\ d.best = Null
         /\ d.heads = <<d.heads[1], d.heads[2]>>
         /\ d.heads[1] \in Tips(u)
         /\ d.heads[2] \in Tips(u) \cup {Null}
         /\ Mixture(d.coins, d.heads[1], d.heads[2])

\* What is in memory is at least what the block tree database has.
UpOK ==
    /\ IndexOK(index) /\ UndoOK(undo, index)
    /\ tree.index \subseteq index
    /\ DOMAIN tree.undo \subseteq DOMAIN undo

TipOK ==
    /\ best \in Tips(undo) \cup {Null}
    /\ coins = UtxoAt[best]

FlushOK ==
    /\ best \in Tips(tree.undo)
    /\ oldTip \in Tips(tree.undo) \cup {Null}
    /\ todo \subseteq Outpoints
    /\ \A o \in Outpoints \ todo : db.coins[o] = coins[o]
    /\ IF db.heads = NoHeads THEN oldTip = db.best ELSE db.heads = <<best, oldTip>>

ReplayOK ==
    /\ db.heads # NoHeads
    /\ index = tree.index /\ undo = tree.undo
    /\ pindex \in Tips(undo)
    /\ Mixture(coins, db.heads[1], pindex)

IInv ==
    /\ pc \in {"running", "indexed", "flushing", "down", "replaying"}
    /\ IndexOK(tree.index) /\ UndoOK(tree.undo, tree.index)
    /\ StoreOK(db, tree.undo) /\ StoreOK(durable, tree.undo)
    /\ pc # "down" => UpOK
    /\ pc \in {"running", "indexed", "flushing"} => TipOK
    /\ pc \in {"running", "indexed"} => db.heads = NoHeads
    /\ pc = "indexed" => best \in Tips(tree.undo)
    /\ pc = "flushing" => FlushOK
    /\ pc = "replaying" => ReplayOK

-----------------------------------------------------------------------------
(* Natural numbers.                                                        *)

Less == {ss \in Nat \X Nat : ss[1] < ss[2]}

\* Every set of heights has a least one.
LEMMA SmallestMember ==
    ASSUME NEW S \in SUBSET Nat, S # {}
    PROVE  \E m \in S : \A k \in S : m <= k
<1>1. IsWellFoundedOn(Less, Nat)
  BY NatLessThanWellFounded, ZenonT(60) DEF OpToRel, Less
<1>2. \E m \in S : \A k \in S : ~(<<k, m>> \in Less)
  BY <1>1, WFMin
<1>3. \A k, m \in Nat : <<k, m>> \notin Less => m <= k
  BY DEF Less
<1> QED BY <1>2, <1>3

-----------------------------------------------------------------------------
(* The chain that ends in a block.                                         *)

\* The chain of a block has the block and consists of blocks.
LEMMA AncestorsType ==
    ASSUME NEW b \in Blocks
    PROVE  b \in Ancestors[b] /\ Ancestors[b] \subseteq Blocks
  BY DEF Ancestors

\* The chain of a block is closed under parents.
LEMMA AncestorsClosed ==
    ASSUME NEW b \in Blocks, NEW a \in Ancestors[b], a # Genesis
    PROVE  Parent[a] \in Ancestors[b]
<1>1. a \in Blocks /\ Parent[a] \in Blocks
  BY AncestorsType, TreeAssumption
<1>2. SUFFICES ASSUME NEW S \in SUBSET Blocks, b \in S,
                      \A x \in S \ {Genesis} : Parent[x] \in S
               PROVE  Parent[a] \in S
  BY <1>1, Zenon DEF Ancestors
<1>3. a \in S
  BY <1>2 DEF Ancestors
<1> QED BY <1>2, <1>3

\* It is the least such set.
LEMMA AncestorsLeast ==
    ASSUME NEW b \in Blocks, NEW S \in SUBSET Blocks, b \in S,
           \A x \in S \ {Genesis} : Parent[x] \in S
    PROVE  Ancestors[b] \subseteq S
  BY DEF Ancestors

\* The chain of an ancestor is part of the chain.
LEMMA AncestorsTransitive ==
    ASSUME NEW b \in Blocks, NEW a \in Ancestors[b]
    PROVE  Ancestors[a] \subseteq Ancestors[b]
<1>1. a \in Blocks /\ Ancestors[b] \in SUBSET Blocks
  BY AncestorsType
<1>2. \A x \in Ancestors[b] \ {Genesis} : Parent[x] \in Ancestors[b]
  BY AncestorsClosed
<1> QED BY <1>1, <1>2, AncestorsLeast

\* The genesis block is a chain of its own.
LEMMA AncestorsGenesis == Ancestors[Genesis] = {Genesis}
<1>1. Genesis \in Blocks
  BY TreeAssumption
<1>2. Ancestors[Genesis] \subseteq {Genesis}
  BY <1>1, AncestorsLeast
<1> QED BY <1>1, <1>2, AncestorsType

\* Any other chain is the parent's with the block added.
LEMMA AncestorsStep ==
    ASSUME NEW b \in Blocks, b # Genesis
    PROVE  /\ Parent[b] \in Blocks
           /\ Ancestors[b] = Ancestors[Parent[b]] \cup {b}
<1>1. Parent[b] \in Blocks
  BY TreeAssumption
<1> DEFINE S == Ancestors[Parent[b]] \cup {b}
<1>2. S \in SUBSET Blocks /\ b \in S
  BY <1>1, AncestorsType
<1>3. \A x \in S \ {Genesis} : Parent[x] \in S
  BY <1>1, AncestorsType, AncestorsClosed
<1>4. Ancestors[b] \subseteq S
  BY <1>2, <1>3, AncestorsLeast, ZenonT(60)
<1>5. b \in Ancestors[b] /\ Parent[b] \in Ancestors[b]
  BY AncestorsType, AncestorsClosed
<1>6. Ancestors[Parent[b]] \subseteq Ancestors[b]
  BY <1>5, AncestorsTransitive
<1> QED BY <1>1, <1>4, <1>5, <1>6

\* The other blocks of a chain are lower than its last.
LEMMA AncestorsLower ==
    ASSUME NEW b \in Blocks, NEW a \in Ancestors[b], a # b
    PROVE  nHeight[a] < nHeight[b]
<1> DEFINE S == {x \in Blocks : nHeight[x] < nHeight[b]} \cup {b}
<1>1. S \in SUBSET Blocks /\ b \in S
  OBVIOUS
<1>2. \A x \in S \ {Genesis} : Parent[x] \in S
  <2> SUFFICES ASSUME NEW x \in S, x # Genesis PROVE Parent[x] \in S
    OBVIOUS
  <2>1. Parent[x] \in Blocks /\ nHeight[x] = nHeight[Parent[x]] + 1
    BY TreeAssumption
  <2>2. nHeight[x] \in Nat /\ nHeight[Parent[x]] \in Nat /\ nHeight[b] \in Nat
    BY <2>1, TreeAssumption
  <2>3. nHeight[x] <= nHeight[b]
    BY <2>2
  <2> QED BY <2>1, <2>2, <2>3
<1>3. Ancestors[b] \subseteq S
  BY <1>1, <1>2, AncestorsLeast
<1> QED BY <1>3

\* Every chain begins with the genesis block: its lowest block has no parent
\* in it.
LEMMA GenesisIsAncestor ==
    ASSUME NEW b \in Blocks
    PROVE  Genesis \in Ancestors[b]
<1> DEFINE S == {nHeight[a] : a \in Ancestors[b]}
<1>1. S \in SUBSET Nat /\ S # {}
  BY AncestorsType, TreeAssumption
<1>2. PICK m \in S : \A k \in S : m <= k
  BY <1>1, SmallestMember
<1>3. PICK a \in Ancestors[b] : m = nHeight[a]
  OBVIOUS
<1>4. SUFFICES ASSUME a # Genesis PROVE FALSE
  OBVIOUS
<1>5. Parent[a] \in Ancestors[b]
  BY <1>4, AncestorsClosed
<1>6. /\ a \in Blocks /\ Parent[a] \in Blocks
      /\ nHeight[a] = nHeight[Parent[a]] + 1
      /\ nHeight[Parent[a]] \in Nat
  BY <1>4, AncestorsType, TreeAssumption
<1>7. m <= nHeight[Parent[a]]
  BY <1>2, <1>5
<1> QED BY <1>3, <1>6, <1>7

-----------------------------------------------------------------------------
(* The coins of a chain.                                                   *)

\* What a block touches are outpoints.
LEMMA TouchedOutpoints ==
    ASSUME NEW b \in Blocks
    PROVE  Spends(b) \subseteq Outpoints /\ Creates(b) \subseteq Outpoints
  BY TreeAssumption DEF Spends, Creates

\* Some block touched an outpoint last, if any did.
LEMMA LastToucher ==
    ASSUME NEW b \in Blocks, NEW o, Touching(b, o) # {}
    PROVE  \E a \in Touching(b, o) : \A x \in Touching(b, o) : nHeight[x] <= nHeight[a]
<1> DEFINE S == {nHeight[b] - nHeight[a] : a \in Touching(b, o)}
<1>1. \A a \in Touching(b, o) : nHeight[a] \in Nat /\ nHeight[a] <= nHeight[b]
  BY AncestorsType, AncestorsLower, TreeAssumption DEF Touching
<1>2. nHeight[b] \in Nat
  BY TreeAssumption
<1>3. S \in SUBSET Nat /\ S # {}
  BY <1>1, <1>2
<1>4. PICK m \in S : \A k \in S : m <= k
  BY <1>3, SmallestMember
<1>5. PICK a \in Touching(b, o) : m = nHeight[b] - nHeight[a]
  OBVIOUS
<1>6. \A x \in Touching(b, o) : nHeight[b] - nHeight[a] <= nHeight[b] - nHeight[x]
  BY <1>4, <1>5
<1> QED BY <1>1, <1>2, <1>5, <1>6

\* Nothing is unspent before the genesis block, nor after it.
LEMMA UtxoAtGenesis == UtxoAt[Null] = NoCoins /\ UtxoAt[Genesis] = NoCoins
<1>1. \A o : Touching(Genesis, o) = {}
  BY AncestorsGenesis DEF Touching
<1>2. UtxoAt[Null] = NoCoins
  BY TreeAssumption DEF UtxoAt, NoCoins
<1>3. UtxoAt[Genesis] = [o \in Outpoints |-> Spent]
  BY <1>1, TreeAssumption, Zenon DEF UtxoAt
<1> QED BY <1>2, <1>3 DEF NoCoins

\* The coins of a chain map every outpoint to a coin.
LEMMA UtxoAtFunction ==
    ASSUME NEW b \in Blocks \cup {Null}
    PROVE  UtxoAt[b] = [o \in Outpoints |-> UtxoAt[b][o]]
  BY DEF UtxoAt

\* What the last of the blocks T left of an outpoint.
LeftBy(T, o) ==
    IF T = {} THEN Spent
    ELSE LET last == CHOOSE a \in T : \A x \in T : nHeight[x] <= nHeight[a]
         IN  IF o \in Spends(last) THEN Spent ELSE nHeight[last]

\* The coin of a chain is a matter of the blocks that touched it.
LEMMA UtxoAtLeftBy ==
    ASSUME NEW b \in Blocks, NEW o \in Outpoints
    PROVE  UtxoAt[b][o] = LeftBy(Touching(b, o), o)
<1>1. b # Null
  BY TreeAssumption
<1> QED BY <1>1 DEF UtxoAt, LeftBy

\* An outpoint is as the last block that touched it left it.
LEMMA UtxoAtTouched ==
    ASSUME NEW b \in Blocks, NEW o \in Outpoints,
           NEW a \in Touching(b, o),
           \A x \in Touching(b, o) : x # a => nHeight[x] < nHeight[a]
    PROVE  UtxoAt[b][o] = IF o \in Spends(a) THEN Spent ELSE nHeight[a]
<1>1. \A x \in Touching(b, o) : nHeight[x] \in Nat
  BY AncestorsType, TreeAssumption DEF Touching
<1>2. a = CHOOSE y \in Touching(b, o) :
             \A x \in Touching(b, o) : nHeight[x] <= nHeight[y]
  <2>1. \A x \in Touching(b, o) : nHeight[x] <= nHeight[a]
    BY <1>1
  <2>2. \A y \in Touching(b, o) :
           (\A x \in Touching(b, o) : nHeight[x] <= nHeight[y]) => y = a
    BY <1>1
  <2> QED BY <2>1, <2>2
<1>3. Touching(b, o) # {}
  OBVIOUS
<1> QED BY <1>2, <1>3, UtxoAtLeftBy DEF LeftBy

\* The coins of a chain are its parent's with the last block connected.
LEMMA UtxoAtStep ==
    ASSUME NEW b \in Blocks, b # Genesis
    PROVE  UtxoAt[b] = SpendCoins(AddCoins(UtxoAt[Parent[b]], b), b)
<1> DEFINE p == Parent[b]
<1>1. p \in Blocks /\ Ancestors[b] = Ancestors[p] \cup {b}
  BY AncestorsStep
<1>2. ASSUME NEW o \in Outpoints
      PROVE  UtxoAt[b][o] = SpendCoins(AddCoins(UtxoAt[p], b), b)[o]
  <2>1. CASE o \in Creates(b) \cup Spends(b)
    <3>1. b \in Touching(b, o)
      BY <2>1, AncestorsType DEF Touching
    <3>2. \A x \in Touching(b, o) : x # b => nHeight[x] < nHeight[b]
      BY AncestorsLower DEF Touching
    <3>3. UtxoAt[b][o] = IF o \in Spends(b) THEN Spent ELSE nHeight[b]
      BY <3>1, <3>2, UtxoAtTouched
    <3> QED BY <2>1, <3>3 DEF SpendCoins, AddCoins
  <2>2. CASE o \notin Creates(b) \cup Spends(b)
    <3>1. Touching(b, o) = Touching(p, o)
      BY <1>1, <2>2 DEF Touching
    <3>2. UtxoAt[b][o] = UtxoAt[p][o]
      BY <1>1, <3>1, UtxoAtLeftBy
    <3> QED BY <2>2, <3>2 DEF SpendCoins, AddCoins
  <2> QED BY <2>1, <2>2
<1>3. UtxoAt[b] = [o \in Outpoints |-> UtxoAt[b][o]]
  BY UtxoAtFunction
<1> DEFINE c == SpendCoins(AddCoins(UtxoAt[p], b), b)
<1>4. c = [o \in Outpoints |-> c[o]]
  BY DEF SpendCoins
<1>5. \A o \in Outpoints : UtxoAt[b][o] = c[o]
  BY <1>2
<1> HIDE DEF c
<1>6. UtxoAt[b] = c
  BY <1>3, <1>4, <1>5
<1> QED BY <1>6 DEF c

\* Every block of a chain has undo data, if the last has.
LEMMA ChainHasUndo ==
    ASSUME NEW i, NEW u, IndexOK(i), UndoOK(u, i), NEW b \in Tips(u)
    PROVE  b \in Blocks /\ Ancestors[b] \subseteq Tips(u)
<1>1. Tips(u) \in SUBSET Blocks
  BY TreeAssumption DEF IndexOK, UndoOK, Tips
<1>2. \A x \in Tips(u) \ {Genesis} : Parent[x] \in Tips(u)
  BY DEF UndoOK, Tips
<1> QED BY <1>1, <1>2, AncestorsLeast

\* What a block that connected creates was not there before it.
LEMMA CreatedIsNew ==
    ASSUME NEW i, NEW u, IndexOK(i), UndoOK(u, i), NEW b \in DOMAIN u,
           NEW o \in Creates(b)
    PROVE  UtxoAt[Parent[b]][o] = Spent
<1> DEFINE p == Parent[b]
<1>1. b \in Tips(u) /\ b \in Blocks /\ b # Genesis
  BY DEF IndexOK, UndoOK, Tips
<1>2. p \in Blocks /\ Ancestors[b] = Ancestors[p] \cup {b}
  BY <1>1, AncestorsStep
<1>3. \A a \in Ancestors[b] \ {Genesis} : InputsAvailable(UtxoAt[Parent[a]], a)
  BY <1>1, ChainHasUndo DEF Tips, UndoOK
<1>4. \A a \in Ancestors[b] \ {b, Genesis} : Creates(a) \cap Creates(b) = {}
  BY <1>1, <1>3, NoDuplicatesAssumption
<1>5. b \notin Ancestors[p]
  BY <1>1, <1>2, AncestorsLower, TreeAssumption
<1>6. \A a \in Touching(p, o) : o \in Spends(a)
  BY <1>2, <1>4, <1>5 DEF Touching
<1>7. o \in Outpoints
  BY <1>1, TouchedOutpoints
<1>8. UtxoAt[p][o] = LeftBy(Touching(p, o), o)
  BY <1>2, <1>7, UtxoAtLeftBy
<1>9. CASE Touching(p, o) = {}
  BY <1>8, <1>9 DEF LeftBy
<1>10. CASE Touching(p, o) # {}
  <2> DEFINE last == CHOOSE y \in Touching(p, o) :
                        \A x \in Touching(p, o) : nHeight[x] <= nHeight[y]
  <2>1. last \in Touching(p, o)
    BY <1>2, <1>10, LastToucher
  <2> QED BY <1>6, <1>8, <1>10, <2>1 DEF LeftBy
<1> QED BY <1>9, <1>10

-----------------------------------------------------------------------------
(* Undoing and redoing a block over a mixture.                             *)

\* The coins of a block are a mixture of its own and any other's; a mixture
\* of one block is its coins.
LEMMA MixtureOfOne ==
    ASSUME NEW a \in Blocks \cup {Null}
    PROVE  /\ \A b \in Blocks \cup {Null} : Mixture(UtxoAt[a], b, a)
           /\ \A c : Mixture(c, a, a) => c = UtxoAt[a]
<1>1. UtxoAt[a] = [o \in Outpoints |-> UtxoAt[a][o]]
  BY UtxoAtFunction
<1> QED BY <1>1 DEF Mixture

\* DisconnectBlock over a mixture settles the outpoints the block touches.
LEMMA RollbackMixture ==
    ASSUME NEW i, NEW u, IndexOK(i), UndoOK(u, i), NEW b \in DOMAIN u,
           NEW n, NEW c, Mixture(c, n, b)
    PROVE  Mixture(ApplyBlockUndo(c, b, u[b]).coins, n, Parent[b])
<1> DEFINE p == Parent[b]
           d == ApplyBlockUndo(c, b, u[b]).coins
<1>1. b \in Blocks /\ b # Genesis
  BY DEF IndexOK, UndoOK
<1>2. UtxoAt[b] = SpendCoins(AddCoins(UtxoAt[p], b), b)
  BY <1>1, UtxoAtStep
<1>3. u[b] = BlockUndo(UtxoAt[p], b)
  BY DEF UndoOK
<1>4. d = [o \in Outpoints |->
             IF o \in Creates(b) THEN Spent
             ELSE IF o \in Spends(b) THEN u[b][o] ELSE c[o]]
  BY DEF ApplyBlockUndo
<1>5. ASSUME NEW o \in Outpoints
      PROVE  d[o] \in {UtxoAt[n][o], UtxoAt[p][o]}
  <2>1. CASE o \in Creates(b)
    BY <2>1, <1>4, CreatedIsNew
  <2>2. CASE o \notin Creates(b) /\ o \in Spends(b)
    BY <2>2, <1>3, <1>4 DEF BlockUndo, AddCoins
  <2>3. CASE o \notin Creates(b) /\ o \notin Spends(b)
    <3>1. UtxoAt[b][o] = UtxoAt[p][o]
      BY <2>3, <1>2 DEF SpendCoins, AddCoins
    <3>2. d[o] = c[o]
      BY <2>3, <1>4
    <3> QED BY <3>1, <3>2 DEF Mixture
  <2> QED BY <2>1, <2>2, <2>3
<1>6. d = [o \in Outpoints |-> d[o]]
  BY <1>4
<1> HIDE DEF d
<1>7. Mixture(d, n, p)
  BY <1>5, <1>6 DEF Mixture
<1> QED BY <1>7 DEF d

\* RollforwardBlock over a mixture does too.
LEMMA RollforwardMixture ==
    ASSUME NEW b \in Blocks, b # Genesis,
           NEW n, NEW c, Mixture(c, n, Parent[b])
    PROVE  Mixture(SpendCoins(AddCoins(c, b), b), n, b)
<1> DEFINE p == Parent[b]
           d == SpendCoins(AddCoins(c, b), b)
<1>1. UtxoAt[b] = SpendCoins(AddCoins(UtxoAt[p], b), b)
  BY UtxoAtStep
<1>2. d = [o \in Outpoints |-> IF o \in Spends(b) THEN Spent
                               ELSE IF o \in Creates(b) THEN nHeight[b] ELSE c[o]]
  BY DEF SpendCoins, AddCoins
<1>3. ASSUME NEW o \in Outpoints
      PROVE  d[o] \in {UtxoAt[n][o], UtxoAt[b][o]}
  <2>1. CASE o \in Spends(b) \cup Creates(b)
    BY <2>1, <1>1, <1>2 DEF SpendCoins, AddCoins
  <2>2. CASE o \notin Spends(b) \cup Creates(b)
    <3>1. UtxoAt[b][o] = UtxoAt[p][o]
      BY <2>2, <1>1 DEF SpendCoins, AddCoins
    <3>2. d[o] = c[o]
      BY <2>2, <1>2
    <3> QED BY <3>1, <3>2 DEF Mixture
  <2> QED BY <2>1, <2>2
<1>4. d = [o \in Outpoints |-> d[o]]
  BY <1>2
<1> HIDE DEF d
<1>5. Mixture(d, n, b)
  BY <1>3, <1>4 DEF Mixture
<1> QED BY <1>5 DEF d

\* DisconnectBlock on the coins of the block is clean, and leaves those of
\* its parent.
LEMMA DisconnectExactly ==
    ASSUME NEW i, NEW u, IndexOK(i), UndoOK(u, i), NEW b \in DOMAIN u
    PROVE  /\ ApplyBlockUndo(UtxoAt[b], b, u[b]).coins = UtxoAt[Parent[b]]
           /\ ApplyBlockUndo(UtxoAt[b], b, u[b]).clean
<1> DEFINE p == Parent[b]
<1>1. b \in Blocks /\ b # Genesis /\ p \in Blocks
  BY AncestorsStep DEF IndexOK, UndoOK
<1>2. Mixture(UtxoAt[b], p, b)
  BY <1>1, MixtureOfOne
<1>3. Mixture(ApplyBlockUndo(UtxoAt[b], b, u[b]).coins, p, p)
  BY <1>2, RollbackMixture
<1>4. ApplyBlockUndo(UtxoAt[b], b, u[b]).coins = UtxoAt[p]
  BY <1>1, <1>3, MixtureOfOne
<1>5. UtxoAt[b] = SpendCoins(AddCoins(UtxoAt[p], b), b)
  BY <1>1, UtxoAtStep
<1>6. u[b] = BlockUndo(UtxoAt[p], b)
  BY DEF UndoOK
<1>7. Spends(b) \subseteq Outpoints /\ Creates(b) \subseteq Outpoints
  BY <1>1, TouchedOutpoints
<1>8. \A o \in Spends(b) : UtxoAt[b][o] = Spent
  BY <1>5, <1>7 DEF SpendCoins
<1>9. \A o \in Creates(b) :
         (IF o \in Spends(b) THEN u[b][o] ELSE UtxoAt[b][o]) = nHeight[b]
  BY <1>5, <1>6, <1>7 DEF SpendCoins, AddCoins, BlockUndo
<1>10. ApplyBlockUndo(UtxoAt[b], b, u[b]).clean
  BY <1>7, <1>8, <1>9 DEF ApplyBlockUndo
<1> QED BY <1>4, <1>10

-----------------------------------------------------------------------------
(* The invariant is inductive.                                             *)

\* The first start has an index of the genesis block, no undo data and no
\* coins.
LEMMA InitIInv == Init => IInv
<1> SUFFICES ASSUME Init PROVE IInv
  OBVIOUS
<1>1. DOMAIN undo = {} /\ DOMAIN tree.undo = {}
  BY DEF Init
<1>2. IndexOK(index) /\ IndexOK(tree.index)
  BY TreeAssumption DEF Init, IndexOK
<1>3. UndoOK(undo, index) /\ UndoOK(tree.undo, tree.index)
  BY <1>1, Zenon DEF UndoOK
<1>4. StoreOK(db, tree.undo) /\ StoreOK(durable, tree.undo)
  BY UtxoAtGenesis DEF Init, StoreOK
<1>5. UpOK
  BY <1>1, <1>2, <1>3 DEF Init, UpOK
<1>6. TipOK
  BY UtxoAtGenesis DEF Init, TipOK
<1> QED BY <1>2, <1>3, <1>4, <1>5, <1>6 DEF Init, IInv

\* A coins database stays as good as it is when undo data is added.
LEMMA StoreStays ==
    ASSUME NEW d, NEW u, NEW v, StoreOK(d, u), DOMAIN u \subseteq DOMAIN v
    PROVE  StoreOK(d, v)
  BY DEF StoreOK, Tips

\* The undo data of a block that connects to the coins of its parent fits.
LEMMA ConnectUndo ==
    ASSUME UpOK, TipOK, NEW b \in index, Parent[b] = best, InputsAvailable(coins, b)
    PROVE  LET v == WriteUndoDataForBlock(b)
           IN  /\ UndoOK(v, index)
               /\ DOMAIN undo \subseteq DOMAIN v
               /\ b \in Tips(v)
<1> DEFINE v == WriteUndoDataForBlock(b)
<1>1. b \in Blocks
  BY DEF UpOK, IndexOK
<1>2. CASE b = Genesis \/ b \in DOMAIN undo
  BY <1>2 DEF WriteUndoDataForBlock, UpOK, Tips
<1>3. CASE b # Genesis /\ b \notin DOMAIN undo
  <2>1. best \in Tips(undo) /\ coins = UtxoAt[Parent[b]]
    BY <1>1, <1>3, TreeAssumption DEF TipOK
  <2>2. v = [x \in DOMAIN undo \cup {b} |->
               IF x = b THEN BlockUndo(coins, b) ELSE undo[x]]
    BY <1>3 DEF WriteUndoDataForBlock
  <2> HIDE DEF v
  <2>3. /\ DOMAIN v = DOMAIN undo \cup {b}
        /\ v[b] = BlockUndo(coins, b)
        /\ \A x \in DOMAIN undo : v[x] = undo[x]
    BY <2>2, <1>3
  <2>4. UndoOK(v, index)
    BY <2>1, <2>3, <1>3 DEF UndoOK, UpOK, Tips
  <2> QED BY <2>3, <2>4 DEF v, Tips
<1> QED BY <1>2, <1>3

\* The steps of the running node.
LEMMA RunningIInv ==
    ASSUME IInv, (\E b \in Blocks : AcceptBlock(b) \/ ConnectTip(b)) \/ DisconnectTip
    PROVE  IInv'
<1>1. /\ pc = "running" /\ pc' = "running" /\ UpOK /\ TipOK
      /\ UNCHANGED <<tree, db, durable>>
  BY DEF IInv, AcceptBlock, ConnectTip, DisconnectTip
<1>2. SUFFICES UpOK' /\ TipOK'
  BY <1>1 DEF IInv
<1>3. ASSUME NEW b \in Blocks, AcceptBlock(b)
      PROVE  UpOK' /\ TipOK'
  <2>1. index' = index \cup {b} /\ undo' = undo /\ coins' = coins /\ best' = best
    BY <1>3 DEF AcceptBlock
  <2>2. IndexOK(index')
    BY <1>1, <1>3, <2>1 DEF UpOK, IndexOK, AcceptBlock
  <2>3. UndoOK(undo, index')
    BY <1>1, <2>1 DEF UpOK, UndoOK
  <2> QED BY <1>1, <2>1, <2>2, <2>3 DEF UpOK, TipOK
<1>4. ASSUME NEW b \in Blocks, ConnectTip(b)
      PROVE  UpOK' /\ TipOK'
  <2>1. /\ index' = index /\ undo' = WriteUndoDataForBlock(b)
        /\ coins' = ConnectBlock(coins, b) /\ best' = b
        /\ b \in index /\ Parent[b] = best /\ InputsAvailable(coins, b)
    BY <1>4 DEF ConnectTip
  <2>2. UndoOK(undo', index) /\ DOMAIN undo \subseteq DOMAIN undo' /\ b \in Tips(undo')
    BY <1>1, <2>1, ConnectUndo
  <2>3. coins' = UtxoAt[b]
    <3>1. CASE b = Genesis
      BY <3>1, <1>1, <2>1, UtxoAtGenesis, TreeAssumption DEF ConnectBlock, TipOK
    <3>2. CASE b # Genesis
      BY <3>2, <1>1, <2>1, UtxoAtStep DEF ConnectBlock, TipOK
    <3> QED BY <3>1, <3>2
  <2> QED BY <1>1, <2>1, <2>2, <2>3 DEF UpOK, TipOK
<1>5. ASSUME DisconnectTip
      PROVE  UpOK' /\ TipOK'
  <2>1. /\ index' = index /\ undo' = undo /\ best' = Parent[best]
        /\ best \in DOMAIN undo
        /\ coins' = ApplyBlockUndo(coins, best, undo[best]).coins
    BY <1>5 DEF DisconnectTip
  <2>2. coins' = UtxoAt[Parent[best]]
    BY <1>1, <2>1, DisconnectExactly DEF UpOK, TipOK
  <2>3. Parent[best] \in Tips(undo)
    BY <1>1, <2>1 DEF UpOK, UndoOK, Tips
  <2> QED BY <1>1, <2>1, <2>2, <2>3 DEF UpOK, TipOK
<1> QED BY <1>3, <1>4, <1>5

\* WriteBlockIndex: the tip has its undo data on disk from now on.
LEMMA WriteBlockIndexIInv ==
    ASSUME IInv, WriteBlockIndex
    PROVE  IInv'
<1>1. /\ pc = "running" /\ UpOK /\ TipOK /\ db.heads = NoHeads
      /\ StoreOK(db, tree.undo) /\ StoreOK(durable, tree.undo)
  BY DEF IInv, WriteBlockIndex
<1>2. /\ tree'.index = index /\ tree'.undo = undo
      /\ pc' = "running" \/ (pc' = "indexed" /\ best # Null)
      /\ UNCHANGED <<index, undo, coins, best, pindex, todo, oldTip>>
      /\ UNCHANGED <<db, durable>>
  BY DEF WriteBlockIndex, memory
<1>3. StoreOK(db, undo) /\ StoreOK(durable, undo)
  BY <1>1, StoreStays DEF UpOK
<1>4. UpOK' /\ TipOK'
  BY <1>1, <1>2 DEF UpOK, TipOK
<1>5. pc' = "indexed" => best' \in Tips(tree'.undo)
  BY <1>1, <1>2 DEF TipOK
<1>6. IndexOK(tree'.index) /\ UndoOK(tree'.undo, tree'.index)
  BY <1>1, <1>2 DEF UpOK
<1> QED BY <1>1, <1>2, <1>3, <1>4, <1>5, <1>6 DEF IInv

\* A flush begins: what is not in todo is the same in both.
LEMMA FlushCoinsIInv ==
    ASSUME IInv, FlushCoins
    PROVE  IInv'
<1>1. /\ pc = "indexed" /\ UpOK /\ TipOK /\ db.heads = NoHeads
      /\ best \in Tips(tree.undo) /\ StoreOK(db, tree.undo)
  BY DEF IInv, FlushCoins
<1>2. /\ pc' = "flushing" /\ oldTip' = db.best
      /\ todo' = {o \in Outpoints : coins[o] # db.coins[o]}
      /\ UNCHANGED <<index, undo, coins, best, tree, db, durable>>
  BY <1>1 DEF FlushCoins, BatchWriteOldTip
<1>3. FlushOK'
  BY <1>1, <1>2 DEF FlushOK, StoreOK
<1>4. UpOK' /\ TipOK'
  BY <1>1, <1>2 DEF UpOK, TipOK
<1> QED BY <1>2, <1>3, <1>4 DEF IInv

\* A partial batch leaves a mixture of the old and the new head.
LEMMA PartialBatchIInv ==
    ASSUME IInv, NEW S \in SUBSET todo, PartialBatch(S)
    PROVE  IInv'
<1>1. pc = "flushing" /\ UpOK /\ TipOK /\ FlushOK /\ StoreOK(db, tree.undo)
  BY DEF IInv, PartialBatch
<1>2. /\ db'.coins = Written(S) /\ db'.best = Null /\ db'.heads = <<best, oldTip>>
      /\ pc' = "flushing" /\ todo' = todo \ S
      /\ UNCHANGED <<index, undo, coins, best, oldTip, tree, durable>>
  BY DEF PartialBatch
<1>3. \A o \in Outpoints :
         Written(S)[o] = coins[o] \/ Written(S)[o] = db.coins[o]
  BY DEF Written
<1>4. \A o \in Outpoints : db.coins[o] \in {UtxoAt[best][o], UtxoAt[oldTip][o]}
  BY <1>1, SMTT(60) DEF StoreOK, FlushOK, Mixture
<1>5. Mixture(Written(S), best, oldTip)
  <2>1. Written(S) = [o \in Outpoints |-> Written(S)[o]]
    BY DEF Written
  <2>2. \A o \in Outpoints : coins[o] = UtxoAt[best][o]
    BY <1>1 DEF TipOK
  <2> QED BY <1>3, <1>4, <2>1, <2>2 DEF Mixture
<1>6. db'.heads # NoHeads
  BY <1>2 DEF NoHeads
<1>7. StoreOK(db', tree.undo)
  BY <1>1, <1>2, <1>5, <1>6, SMTT(60) DEF StoreOK, FlushOK
<1>8. \A o \in Outpoints \ todo' : db'.coins[o] = coins[o]
  BY <1>1, <1>2 DEF FlushOK, Written
<1>9. FlushOK'
  BY <1>1, <1>2, <1>6, <1>8 DEF FlushOK
<1>10. UpOK' /\ TipOK'
  BY <1>1, <1>2 DEF UpOK, TipOK
<1> QED BY <1>2, <1>7, <1>9, <1>10 DEF IInv

\* The final batch leaves exactly the coins of the best block.
LEMMA FinalBatchIInv ==
    ASSUME IInv, FinalBatch
    PROVE  IInv'
<1>1. pc = "flushing" /\ UpOK /\ TipOK /\ FlushOK
  BY DEF IInv, FinalBatch
<1>2. /\ db'.coins = Written(todo) /\ db'.best = best /\ db'.heads = NoHeads
      /\ pc' = "running"
      /\ UNCHANGED <<index, undo, coins, best, tree, durable>>
  BY DEF FinalBatch
<1>3. Written(todo) = UtxoAt[best]
  <2>0. best \in Blocks \cup {Null}
    BY <1>1, TreeAssumption DEF TipOK, UpOK, IndexOK, UndoOK, Tips
  <2>1. UtxoAt[best] = [o \in Outpoints |-> UtxoAt[best][o]]
    BY <2>0, UtxoAtFunction
  <2>2. \A o \in Outpoints : Written(todo)[o] = UtxoAt[best][o]
    BY <1>1 DEF Written, FlushOK, TipOK
  <2>3. Written(todo) = [o \in Outpoints |-> Written(todo)[o]]
    BY DEF Written
  <2> QED BY <2>1, <2>2, <2>3
<1>4. StoreOK(db', tree.undo)
  BY <1>1, <1>2, <1>3 DEF StoreOK, FlushOK
<1>5. UpOK' /\ TipOK'
  BY <1>1, <1>2 DEF UpOK, TipOK
<1> QED BY <1>2, <1>4, <1>5 DEF IInv

\* A crash or a power failure forgets what is in memory; the database that is
\* left is one of the two.
LEMMA CrashIInv ==
    ASSUME IInv, Crash \/ PowerFailure
    PROVE  IInv'
<1>1. pc' = "down" /\ db' \in {db, durable} /\ UNCHANGED <<tree, durable>>
  BY DEF Crash, PowerFailure
<1> QED BY <1>1 DEF IInv

\* WriteBack makes durable what the database has.
LEMMA WriteBackIInv ==
    ASSUME IInv, WriteBack
    PROVE  IInv'
<1>1. /\ durable' = db /\ UNCHANGED <<pc, tree, db>>
      /\ UNCHANGED <<index, undo, coins, best, pindex, todo, oldTip>>
  BY DEF WriteBack, memory
<1> QED BY <1>1 DEF IInv, UpOK, TipOK, FlushOK, ReplayOK

\* LoadChainTip takes over a consistent database.
LEMMA LoadIInv ==
    ASSUME IInv, Load
    PROVE  IInv'
<1>1. /\ db.heads = NoHeads /\ pc' = "running"
      /\ index' = tree.index /\ undo' = tree.undo
      /\ coins' = db.coins /\ best' = db.best
      /\ UNCHANGED <<tree, db, durable>>
  BY DEF Load
<1>2. UpOK'
  BY <1>1 DEF IInv, UpOK
<1>3. TipOK'
  BY <1>1 DEF IInv, TipOK, StoreOK
<1> QED BY <1>1, <1>2, <1>3 DEF IInv

\* The steps of ReplayBlocks.
LEMMA ReplayIInv ==
    ASSUME IInv, Replay
    PROVE  IInv'
<1>1. ASSUME ReplayBlocks
      PROVE  IInv'
  <2>1. /\ db.heads # NoHeads /\ pc' = "replaying"
        /\ index' = tree.index /\ undo' = tree.undo /\ coins' = db.coins
        /\ pindex' = IF db.heads[2] = Null THEN Genesis ELSE db.heads[2]
        /\ UNCHANGED <<tree, db, durable>>
    BY <1>1 DEF ReplayBlocks
  <2>2. pindex' \in Tips(tree.undo) /\ UtxoAt[pindex'] = UtxoAt[db.heads[2]]
    BY <2>1, UtxoAtGenesis DEF IInv, StoreOK, Tips
  <2>3. Mixture(coins', db.heads[1], pindex')
    BY <2>1, <2>2 DEF IInv, StoreOK, Mixture
  <2>4. ReplayOK'
    BY <2>1, <2>2, <2>3 DEF ReplayOK
  <2>5. UpOK'
    BY <2>1 DEF IInv, UpOK
  <2> QED BY <2>1, <2>4, <2>5 DEF IInv
<1>2. ASSUME RollbackBlock
      PROVE  IInv'
  <2>1. /\ pc = "replaying" /\ UpOK /\ ReplayOK /\ pindex \in DOMAIN undo
        /\ coins' = ApplyBlockUndo(coins, pindex, undo[pindex]).coins
        /\ pindex' = Parent[pindex]
        /\ UNCHANGED <<pc, index, undo, tree, db, durable>>
    BY <1>2 DEF RollbackBlock, IInv
  <2>2. Mixture(coins', db.heads[1], pindex')
    BY <2>1, RollbackMixture DEF UpOK, ReplayOK
  <2>3. pindex' \in Tips(undo)
    BY <2>1 DEF UpOK, UndoOK, Tips
  <2> QED BY <2>1, <2>2, <2>3 DEF IInv, UpOK, ReplayOK
<1>3. ASSUME NEW b \in Blocks, RollforwardBlock(b)
      PROVE  IInv'
  <2>1. /\ pc = "replaying" /\ UpOK /\ ReplayOK
        /\ b \in Ancestors[db.heads[1]] /\ Parent[b] = pindex
        /\ coins' = SpendCoins(AddCoins(coins, b), b)
        /\ pindex' = b
        /\ UNCHANGED <<pc, index, undo, tree, db, durable>>
    BY <1>3 DEF RollforwardBlock, IInv
  <2>2. db.heads[1] \in Tips(undo)
    BY <2>1 DEF IInv, StoreOK, ReplayOK
  <2>3. b \in Tips(undo)
    BY <2>1, <2>2, ChainHasUndo DEF UpOK
  <2>4. b # Genesis
    BY <2>1, TreeAssumption, SMTT(60) DEF UpOK, ReplayOK, IndexOK, UndoOK, Tips
  <2>5. Mixture(coins', db.heads[1], b)
    BY <2>1, <2>4, RollforwardMixture DEF ReplayOK
  <2> QED BY <2>1, <2>3, <2>5 DEF IInv, UpOK, ReplayOK
<1>4. ASSUME FlushReplayed
      PROVE  IInv'
  <2>1. /\ pc = "replaying" /\ UpOK /\ ReplayOK /\ StoreOK(db, tree.undo)
        /\ pindex = db.heads[1] /\ pc' = "flushing" /\ best' = pindex
        /\ todo' = {o \in Outpoints : coins[o] # db.coins[o]}
        /\ oldTip' = BatchWriteOldTip
        /\ UNCHANGED <<index, undo, coins, tree, db, durable>>
    BY <1>4 DEF FlushReplayed, IInv
  <2>2. /\ db.heads # NoHeads /\ db.best = Null /\ oldTip' = db.heads[2]
        /\ db.heads = <<best', oldTip'>>
    BY <2>1 DEF ReplayOK, StoreOK, BatchWriteOldTip
  <2>3. best' \in Tips(undo) /\ best' \in Blocks
    BY <2>1, ChainHasUndo DEF ReplayOK, UpOK
  <2>4. coins = UtxoAt[best']
    BY <2>1, <2>3, MixtureOfOne DEF ReplayOK
  <2>5. TipOK'
    BY <2>1, <2>3, <2>4 DEF TipOK
  <2>6. FlushOK'
    BY <2>1, <2>2, <2>3 DEF FlushOK, ReplayOK, StoreOK
  <2> QED BY <2>1, <2>5, <2>6 DEF IInv, UpOK
<1> QED BY <1>1, <1>2, <1>3, <1>4 DEF Replay

\* Every step keeps the invariant.
LEMMA NextIInv == IInv /\ [Next]_vars => IInv'
<1> SUFFICES ASSUME IInv, [Next]_vars PROVE IInv'
  OBVIOUS
<1>1. CASE UNCHANGED vars
  BY <1>1 DEF vars, memory, IInv, UpOK, TipOK, FlushOK, ReplayOK
<1>2. CASE (\E b \in Blocks : AcceptBlock(b) \/ ConnectTip(b)) \/ DisconnectTip
  BY <1>2, RunningIInv
<1>3. CASE WriteBlockIndex
  BY <1>3, WriteBlockIndexIInv
<1>4. CASE FlushCoins
  BY <1>4, FlushCoinsIInv
<1>5. CASE \E S \in SUBSET todo : PartialBatch(S)
  BY <1>5, PartialBatchIInv
<1>6. CASE FinalBatch
  BY <1>6, FinalBatchIInv
<1>7. CASE WriteBack
  BY <1>7, WriteBackIInv
<1>8. CASE Crash \/ PowerFailure
  BY <1>8, CrashIInv
<1>9. CASE Load
  BY <1>9, LoadIInv
<1>10. CASE Replay
  BY <1>10, ReplayIInv
<1> QED BY <1>1, <1>2, <1>3, <1>4, <1>5, <1>6, <1>7, <1>8, <1>9, <1>10 DEF Next, Replay

\* The invariant holds in every state of every behaviour.
LEMMA AlwaysIInv == Spec => []IInv
  BY InitIInv, NextIInv, PTL DEF Spec

-----------------------------------------------------------------------------
(* The theorems.                                                           *)

\* The coins database has exactly the coins of its best block, or, between
\* the batches of a flush, for every outpoint those of the old or of the new
\* head (CCoinsViewDB::BatchWrite, ReplayBlocks), whatever crashes and power
\* failures came before.
THEOREM DatabaseAlwaysMatches == Spec => []DatabaseMatchesItsHeads
<1>1. IInv => DatabaseMatchesItsHeads
  BY DEF IInv, StoreOK, Mixture, DatabaseMatchesItsHeads
<1> QED BY <1>1, AlwaysIInv, PTL

\* The coins of pcoinsTip are those of its best block, and those ReplayBlocks
\* flushes are those of the new head: rolling back with results that are
\* UNCLEAN and forward over coins that are there already is enough.
THEOREM TipAlwaysMatches == Spec => []TipIsBestBlocksUtxo
<1>1. IInv => TipIsBestBlocksUtxo
  BY DEF IInv, TipOK, TipIsBestBlocksUtxo
<1> QED BY <1>1, AlwaysIInv, PTL

\* DisconnectTip always has undo data and is always clean, also after a
\* restart and a replay: the node does not abort on it.
THEOREM TipAlwaysDisconnects == Spec => []TipCanBeDisconnected
<1>1. IInv => TipCanBeDisconnected
  <2> SUFFICES ASSUME IInv, pc = "running", best \notin {Null, Genesis}
               PROVE  /\ best \in DOMAIN undo
                      /\ ApplyBlockUndo(coins, best, undo[best]).clean
    BY DEF TipCanBeDisconnected
  <2>1. UpOK /\ TipOK
    BY DEF IInv
  <2>2. best \in DOMAIN undo
    BY <2>1 DEF TipOK, Tips
  <2> QED BY <2>1, <2>2, DisconnectExactly DEF UpOK, TipOK
<1> QED BY <1>1, AlwaysIInv, PTL

\* A node that stopped finds its best block or both heads in the block tree
\* database, with every block and all undo data the replay reads, and a flush
\* over an interrupted one goes to the head BatchWrite asserts.
THEOREM RestartAlwaysPossible == Spec => []RestartIsPossible
<1>1. IInv => RestartIsPossible
  <2> SUFFICES ASSUME IInv PROVE RestartIsPossible
    OBVIOUS
  <2> DEFINE i == tree.index
             u == tree.undo
  <2>1. IndexOK(i) /\ UndoOK(u, i) /\ StoreOK(db, u)
    BY DEF IInv
  <2>2. Tips(u) \subseteq i
    BY <2>1 DEF IndexOK, UndoOK, Tips
  <2>3. CASE db.heads = NoHeads
    BY <2>1, <2>2, <2>3 DEF StoreOK, RestartIsPossible, BatchWriteAssert
  <2>4. CASE db.heads # NoHeads
    <3>1. db.heads[1] \in Tips(u) /\ db.heads[2] \in Tips(u) \cup {Null}
      BY <2>1, <2>4 DEF StoreOK
    <3>2. db.heads[1] \in Blocks /\ Ancestors[db.heads[1]] \subseteq Tips(u)
      BY <2>1, <3>1, ChainHasUndo
    <3>3. Genesis \in Ancestors[db.heads[1]]
      BY <3>2, GenesisIsAncestor
    <3>4. db.heads[2] # Null =>
            Ancestors[db.heads[2]] \ Ancestors[db.heads[1]] \subseteq DOMAIN u
      BY <2>1, <3>1, <3>3, ChainHasUndo DEF Tips
    <3>5. ReplayPossible
      BY <2>2, <3>1, <3>2, <3>4 DEF ReplayPossible
    <3>6. pc = "flushing" => db.heads[1] = best
      BY <2>4, SMTT(60) DEF IInv, FlushOK
    <3> QED BY <2>4, <3>5, <3>6 DEF RestartIsPossible, BatchWriteAssert
  <2> QED BY <2>3, <2>4
<1> QED BY <1>1, AlwaysIInv, PTL
=============================================================================
