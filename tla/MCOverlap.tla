------------------------------ MODULE MCOverlap ------------------------------
(* A run whose calls are decided and counted without a pause in between (this *)
(* module's own variables), and two in which calls overlap there: a handler    *)
(* that suspends a call on the loop, and worker threads.  Each behaviour is    *)
(* one of one of them.                                                        *)
EXTENDS MCGuardedCalls

VARIABLES host, otherCall, otherFacts, otherRows

Waits == INSTANCE GuardedCalls WITH
  call <- otherCall, facts <- otherFacts, denyRows <- otherRows,
  Args <- {plain, gated}, Rule <- plain :> "allow" @@ gated :> "needs_approval",
  Handler <- "suspending", NPre <- 1, NPost <- 0, MaxParallel <- 2

Pool == INSTANCE GuardedCalls WITH
  call <- otherCall, facts <- otherFacts, denyRows <- otherRows,
  Args <- {plain, gated}, Rule <- plain :> "allow" @@ gated :> "needs_approval",
  Handler <- "suspending", NPre <- 0, NPost <- 1, MaxParallel <- 2, Threaded <- TRUE

otherVars == <<otherCall, otherFacts, otherRows>>
hostVars == <<host, vars, otherVars>>

\* The run that is not looked at has not begun: its calls are all alike.
HostInit ==
  /\ host \in {"loop", "waits", "pool"}
  /\ Init /\ Waits!Init
  /\ \A c \in Calls : IF host = "loop" THEN otherCall[c].args = plain
                                       ELSE call[c].args = plain

OnLoop(A)  == host = "loop" /\ A /\ UNCHANGED <<host, otherVars>>
OnWaits(A) == host = "waits" /\ A /\ UNCHANGED <<host, vars>>
InPool(A)  == host = "pool" /\ A /\ UNCHANGED <<host, vars>>

HostNext == OnLoop(Next) \/ OnWaits(Waits!Next) \/ InPool(Pool!Next)

HostSpec ==
  /\ HostInit /\ [][HostNext]_hostVars
  /\ \A c \in Calls : WF_hostVars(OnWaits(Waits!Step(c)) \/ InPool(Pool!Step(c)))

\* Where calls overlap, the cap is overshot by the other calls in flight at most,
\* and what is counted differs from what is recorded by the threads between the
\* two only (the two instances share their variables).
OverlapAccounted == Waits!OvershootBounded /\ Waits!CountersAgree

\* A call that waits for a human holds up nobody else.
OverlapProgresses == Waits!OthersProgress
=============================================================================
