----------------------------- MODULE MCStaking ------------------------------
(* Small instances of Staking.                                             *)
EXTENDS Staking

TwoDelegators == {<<1, 2>>, <<1, 3>>}
=============================================================================
