--------------------------- MODULE MCPolicyRefresh ---------------------------
(* Two concurrent run boundaries on one binding.                            *)
EXTENDS PolicyRefresh, TLC

RefreshSymmetry == Permutations(Runs) \cup Permutations(Wasms)
=============================================================================
