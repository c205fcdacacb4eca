--------------------------- MODULE MCGuardedCalls ---------------------------
(* Small instances of GuardedCalls: three calls of one run, over argument   *)
(* classes that the policy tells apart by its verdict.                     *)
EXTENDS GuardedCalls, TLC

CONSTANTS plain, gated, banned

MCRule == [a \in Args |-> CASE a = plain -> "allow"
                            [] a = gated -> "needs_approval"
                            [] a = banned -> "deny"]

CallSymmetry == Permutations(Calls)
=============================================================================
