----------------------------- MODULE MCClaimDemo -----------------------------
(* Two runs, at once or one after the other, with a deposit that just pays  *)
(* for the three transactions of one run.                                  *)
EXTENDS ClaimDemo

MCRun == {1, 2}
=============================================================================
