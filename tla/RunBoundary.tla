----------------------------- MODULE RunBoundary -----------------------------
(* From the start of a run to its tool calls: the refreshes that              *)
(* adapters/_common.py awaits together, admission (agent_gate.py) and the     *)
(* guards of a call (guards/runner.py), while other runs of the same agent    *)
(* install engines in the enforcer they share.                                *)
EXTENDS Naturals, Sequences

CONSTANTS
  None, Runs,
  Saves         \* bound: the policies saved, in order; each is a record of
                \* admission, usage (the paths its caps read), guard (enabled?)

\* Of the constants; assumed by the modules that give them values.
BoundaryAssumption ==
  /\ Len(Saves) \in Nat \ {0} /\ None \notin Nat \cup {"allow", "ask", "deny"}
  /\ \A i \in 1..Len(Saves) : Saves[i].admission \in {None, "allow", "ask", "deny"}

VARIABLES
  served,       \* the platform's policy, as the number of its save
  engine,       \* the enforcer's
  banned,       \* is the caller of these runs banned
  run

vars == <<served, engine, banned, run>>

\* began, failed, regressed, swapped: history, for the properties.
Idle ==
  [pc |-> "idle", policy |-> "done", fetched |-> None, bans |-> "done", usage |-> FALSE,
   asked |-> {}, refreshed |-> {}, decided |-> None, fresh |-> TRUE, guarded |-> FALSE,
   began |-> 0, failed |-> FALSE, regressed |-> FALSE, swapped |-> FALSE, excused |-> FALSE]

Init ==
  /\ served = 1 /\ engine = 1
  /\ banned = FALSE /\ run = [r \in Runs |-> Idle]

Save ==
  /\ served < Len(Saves) /\ served' = served + 1
  /\ UNCHANGED <<engine, banned, run>>

BanOrLift ==
  /\ banned' = ~banned
  /\ UNCHANGED <<served, engine, run>>

-----------------------------------------------------------------------------
(* The refreshes, each on a thread that outlives a run that is cancelled.    *)

\* The usage paths asked for are those of the policy before the refresh.
Begin(r) ==
  /\ run[r].pc = "idle" /\ run[r].policy = "done"
  /\ run' = [run EXCEPT ![r] =
       [Idle EXCEPT !.pc = "preparing", !.policy = "asks", !.bans = "asks",
                    !.asked = Saves[engine].usage, !.usage = Saves[engine].usage # {},
                    !.began = served]]
  /\ UNCHANGED <<served, engine, banned>>

Fetch(r) ==
  /\ run[r].policy = "asks"
  /\ run' = [run EXCEPT ![r].policy = "fetched", ![r].fetched = served]
  /\ UNCHANGED <<served, engine, banned>>

\* Fail-soft: the engine stays.
FetchFails(r) ==
  /\ run[r].policy = "asks"
  /\ run' = [run EXCEPT ![r].policy = "done", ![r].failed = TRUE]
  /\ UNCHANGED <<served, engine, banned>>

Install(r) ==
  /\ run[r].policy = "fetched"
  /\ engine' = run[r].fetched
  /\ run' = [s \in Runs |->
       [run[s] EXCEPT !.policy = IF s = r THEN "done" ELSE @,
                      !.fetched = IF s = r THEN None ELSE @,
                      !.swapped = @ \/ engine' # engine,
                      !.regressed = @ \/ engine' < engine]]
  /\ UNCHANGED <<served, banned>>

FetchBans(r) ==
  /\ run[r].bans = "asks"
  /\ run' = [run EXCEPT ![r].bans = IF banned THEN "banned" ELSE "done"]
  /\ UNCHANGED <<served, engine, banned>>

\* A failed refresh is logged; the paths have been asked for all the same.
RefreshUsage(r) ==
  /\ run[r].usage
  /\ run' = [run EXCEPT ![r].usage = FALSE, ![r].refreshed = @ \cup run[r].asked]
  /\ UNCHANGED <<served, engine, banned>>

-----------------------------------------------------------------------------
(* The run.                                                                  *)

Goes(r, pc) == run' = [run EXCEPT ![r].pc = pc]

\* What the run knew goes with it, but for the thread of its policy refresh.
Ends(r) == run' = [run EXCEPT ![r] = [Idle EXCEPT !.policy = run[r].policy, !.fetched = run[r].fetched]]

\* (Mutant) The ban decision does not wait for the policy.
EnforceEarly(r) ==
  /\ run[r].pc = "preparing" /\ run[r].bans # "asks" /\ ~run[r].usage
  /\ IF run[r].bans = "banned" THEN Ends(r) ELSE Goes(r, "prepared")
  /\ UNCHANGED <<served, engine, banned>>

\* All three are in: the ban decision.
Enforce(r) ==
  /\ run[r].pc = "preparing"
  /\ run[r].policy = "done" /\ run[r].bans # "asks" /\ ~run[r].usage
  /\ IF run[r].bans = "banned" THEN Ends(r) ELSE Goes(r, "prepared")
  /\ UNCHANGED <<served, engine, banned>>

\* (Mutant) What was asked for is all there is.
AddNothing(r) ==
  /\ run[r].pc = "prepared"
  /\ run' = [run EXCEPT ![r].pc = "adding", ![r].swapped = FALSE]
  /\ UNCHANGED <<served, engine, banned>>

\* _usage_added_by_refresh: what the refreshed policy reads beyond that.
AddUsage(r) ==
  /\ run[r].pc = "prepared"
  /\ LET paths == Saves[engine].usage
     IN run' = [run EXCEPT ![r].pc = "adding", ![r].swapped = FALSE,
                           ![r].asked = paths, ![r].usage = ~(paths \subseteq run[r].asked)]
  /\ UNCHANGED <<served, engine, banned>>

\* A decision by the engine of now.
Decides(r, pc, fresh) ==
  run' = [run EXCEPT ![r].pc = pc, ![r].decided = engine, ![r].fresh = fresh,
                     ![r].excused = run[r].swapped, ![r].asked = {}, ![r].refreshed = {}]

\* check_admission: does the current policy declare admission at all?
Admission(r) ==
  /\ run[r].pc = "adding" /\ ~run[r].usage
  /\ IF Saves[engine].admission = None THEN Goes(r, "open") ELSE Goes(r, "admitting")
  /\ UNCHANGED <<served, engine, banned>>

Admit(r) ==
  /\ run[r].pc = "admitting"
  /\ LET fresh == Saves[engine].usage \subseteq run[r].refreshed
     IN CASE Saves[engine].admission = "allow" -> Decides(r, "open", fresh)
          [] Saves[engine].admission = "ask" -> Decides(r, "asking", fresh)
          [] Saves[engine].admission \in {"deny", None} -> Ends(r)
  /\ UNCHANGED <<served, engine, banned>>

\* The approval handler answers, or raises: then it is no.
Approved(r) ==
  /\ run[r].pc = "asking" /\ Goes(r, "open")
  /\ UNCHANGED <<served, engine, banned>>

\* (Mutant) The stance is read once, with the usage of the run.
CallStale(r) ==
  /\ run[r].pc \in {"open", "called"}
  /\ run' = [run EXCEPT ![r].pc = "guarding", ![r].swapped = FALSE,
                        ![r].guarded = IF run[r].decided = None THEN Saves[engine].guard
                                       ELSE Saves[run[r].decided].guard]
  /\ UNCHANGED <<served, engine, banned>>

\* A tool call: the stance on its guards, which then run.
Call(r) ==
  /\ run[r].pc \in {"open", "called"}
  /\ run' = [run EXCEPT ![r].pc = "guarding", ![r].swapped = FALSE,
                        ![r].guarded = Saves[engine].guard]
  /\ UNCHANGED <<served, engine, banned>>

\* The policy's decision of the call.
DecideCall(r) ==
  /\ run[r].pc = "guarding" /\ Decides(r, "called", TRUE)
  /\ UNCHANGED <<served, engine, banned>>

\* The run is over, refused by a human, or cancelled wherever it is.
End(r) ==
  /\ run[r].pc # "idle" /\ Ends(r)
  /\ UNCHANGED <<served, engine, banned>>

Next ==
  \/ BanOrLift \/ Save
  \/ \E r \in Runs :
       \/ Begin(r) \/ Fetch(r) \/ FetchFails(r) \/ Install(r) \/ FetchBans(r) \/ RefreshUsage(r)
       \/ Enforce(r) \/ AddUsage(r) \/ Admission(r) \/ Admit(r) \/ Approved(r)
       \/ Call(r) \/ DecideCall(r) \/ End(r)

Spec == Init /\ [][Next]_vars

-----------------------------------------------------------------------------

Decided(r) == run[r].pc \in {"open", "asking", "guarding", "called"} /\ run[r].decided # None

\* A run is admitted, and its calls are decided, by a policy no older than the
\* one served when it began - unless its own fetch failed, or a slower refresh
\* of another run put an older engine back.
RunsSeeTheirPolicy ==
  \A r \in Runs : Decided(r) =>
    run[r].decided >= run[r].began \/ run[r].failed \/ run[r].regressed

\* A cap that came with the refresh has its numbers before it decides: what the
\* deciding engine reads of usage was asked for in this boundary, unless that
\* engine arrived later than the boundary looked.
CapsHaveSnapshots ==
  \A r \in Runs : (run[r].pc \in {"open", "asking"} /\ run[r].decided # None) =>
    run[r].fresh \/ run[r].excused

\* The guards a call runs are those of the policy that decides it, unless the
\* policy was swapped while they ran.
GuardsOfThePolicy ==
  \A r \in Runs : run[r].pc = "called" =>
    run[r].guarded = Saves[run[r].decided].guard \/ run[r].excused
=============================================================================
