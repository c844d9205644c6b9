----------------------------- MODULE MCAuction ------------------------------
(* Model values for Auction.                                                  *)
EXTENDS Auction, TLC
CONSTANTS sword, ring
MCItems == {sword, ring}
MCPrices == {1, 2}
Symmetric == Permutations(MCItems)
=============================================================================
