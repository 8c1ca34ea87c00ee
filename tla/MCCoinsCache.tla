---------------------------- MODULE MCCoinsCache ----------------------------
\* Two outpoints that interact only through whole-map operations and one that
\* is unspendable, two coin contents so that an overwrite shows, two block
\* hashes.
EXTENDS CoinsCache

CONSTANTS o1, o2, o3, c1, c2, b1, b2

MCOutpoints == {o1, o2, o3}
MCCoins == {c1, c2}
MCBlocks == {b1, b2}
MCUnspendable == {o3}
==============================================================================
