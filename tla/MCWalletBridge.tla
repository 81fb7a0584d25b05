---------------------------- MODULE MCWalletBridge ----------------------------
(* Two reddit pages on two subreddits and a tab elsewhere. *)
EXTENDS WalletBridge

CONSTANTS page1, page2, elsewhere, points, bricks

MCTab == {page1, page2, elsewhere}
MCPage == {page1, page2}
MCCommunity ==
    [t \in MCTab |-> CASE t = page1 -> points [] t = page2 -> bricks [] t = elsewhere -> NoCommunity]
=============================================================================
