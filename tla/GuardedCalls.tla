---------------------------- MODULE GuardedCalls ----------------------------
(***************************************************************************)
(* The guarded tool call of the SDK: run_guarded_async and run_guarded_sync*)
(* (hexgate/guards/runner.py) with the counters of the run they share      *)
(* (RunFacts, hexgate/runtime/run_facts.py) and the policy decision they   *)
(* ask for (PolicyEnforcer.decide, hexgate/security/enforcer.py).          *)
(*                                                                         *)
(* One behaviour is one run.  Several calls of the run are in flight at    *)
(* once: on an event loop (Threaded = FALSE) an action is what a call does *)
(* between two points where it can be suspended, so `decide' and the count *)
(* of its outcome are one action; with worker threads (Threaded = TRUE)    *)
(* another thread can run between the two, between the count of a guard's  *)
(* halt and its audit record, and while any handler is asked.              *)
(***************************************************************************)
EXTENDS Naturals, FiniteSets

CONSTANTS
  Calls,        \* the tool calls the model proposes in this run
  Args,         \* argument values, as far as the policy tells them apart
  Rule,         \* Args -> verdict of the policy on these arguments alone
  Cap,          \* the policy-level constraint  run.tool_calls < Cap
  NPre, NPost,  \* before-guards and after-guards that run for these calls
  Handler,      \* the approval handler: "none", "immediate", "suspending"
  Threaded,     \* sync calls on worker threads, or tasks on one event loop
  MaxParallel   \* calls in flight at once (the fan-out of one model turn)

Verdicts == {"allow", "needs_approval", "deny"}

ASSUME ParamsAssumption ==
  /\ IsFiniteSet(Calls)
  /\ Rule \in [Args -> Verdicts]
  /\ Cap \in Nat /\ NPre \in Nat /\ NPost \in Nat
  /\ MaxParallel \in Nat \ {0}
  /\ Handler \in {"none", "immediate", "suspending"}
  /\ Threaded \in BOOLEAN

VARIABLES
  call,         \* the local state of each call
  facts,        \* RunFacts: the counters every call of the run shares
  denyRows      \* DENY records handed to the audit sender

vars == <<call, facts, denyRows>>

Answers == {"yes", "no", "raises"}

\* Where a call stands.  In the three Wait places the approval handler is being
\* asked; "decided" holds a verdict a thread has not acted on yet, "halted" a
\* guard's denial a thread has counted and not yet recorded.
PCs == {"new", "pre", "preWait", "decided", "policyWait", "running",
        "post", "postWait", "halted", "done"}

Replies == {"none", "result", "refused", "raised", "cancelled"}

CallState == [pc : PCs, gi : Nat, args : Args, verdict : Verdicts \cup {"none"},
              approved : BOOLEAN, ran : BOOLEAN, ok : BOOLEAN, reply : Replies,
              halts : Nat, haltRows : Nat]

RunFacts == [toolCalls : Nat, denials : Nat, approvals : Nat, errors : Nat]

-----------------------------------------------------------------------------
(* Updates of one call.                                                    *)

Set(c, r) == call' = [call EXCEPT ![c] = r]

Return(r, reply) == [r EXCEPT !.pc = "done", !.reply = reply]

\* _record_run_execution just before invoke: the count and the dispatch.
Dispatch(r) == [r EXCEPT !.pc = "running", !.ran = TRUE]

NextGuard(r, phase) == [r EXCEPT !.pc = phase, !.gi = @ + 1]

\* _record_halt: the halt reaches the audit sender.
Recorded(r) == [r EXCEPT !.haltRows = @ + 1]

InFlight == {c \in Calls : call[c].pc \notin {"new", "done"}}

GuardsOf(phase) == IF phase = "pre" THEN NPre ELSE NPost

AtGuard(c) == /\ call[c].pc \in {"pre", "post"}
              /\ call[c].gi <= GuardsOf(call[c].pc)

-----------------------------------------------------------------------------
Init ==
  /\ call \in [Calls -> [pc : {"new"}, gi : {1}, args : Args,
                                verdict : {"none"}, approved : {FALSE},
                                ran : {FALSE}, ok : {FALSE}, reply : {"none"},
                                halts : {0}, haltRows : {0}]]
  /\ facts = [toolCalls |-> 0, denials |-> 0, approvals |-> 0, errors |-> 0]
  /\ denyRows = 0

\* The framework dispatches a proposed call into the runner.
Start(c) ==
  /\ call[c].pc = "new"
  /\ Cardinality(InFlight) < MaxParallel
  /\ Set(c, [call[c] EXCEPT !.pc = "pre"])
  /\ UNCHANGED <<facts, denyRows>>

-----------------------------------------------------------------------------
(* Guards, before and after the tool.                                      *)

\* Proceed, or None, or anything an observe guard does: the next guard sees
\* the arguments, which only a before-guard may have rewritten.
GuardProceeds(c) ==
  /\ AtGuard(c)
  /\ \E a \in Args :
       /\ call[c].pc = "post" => a = call[c].args
       /\ Set(c, NextGuard([call[c] EXCEPT !.args = a], call[c].pc))
  /\ UNCHANGED <<facts, denyRows>>

\* A rewrite on the wrong channel, or a value that is no guard result: the
\* runner raises out of the call.
GuardBreaksContract(c) ==
  /\ AtGuard(c)
  /\ Set(c, Return(call[c], "raised"))
  /\ UNCHANGED <<facts, denyRows>>

\* (Mutant) A halt after the tool un-counts the call it withholds.
GuardDeniesUncounting(c) ==
  /\ ~Threaded
  /\ AtGuard(c)
  /\ Set(c, Return(Recorded([call[c] EXCEPT !.halts = @ + 1]), "refused"))
  /\ facts' = [facts EXCEPT !.denials = @ + 1,
                            !.toolCalls = IF call[c].ran THEN @ - 1 ELSE @]
  /\ denyRows' = denyRows + 1

\* (Mutant) A halt after the tool leaves only the tool's ALLOW in the trail.
GuardDeniesSilently(c) ==
  /\ ~Threaded
  /\ AtGuard(c)
  /\ Set(c, Return(Recorded([call[c] EXCEPT !.halts = @ + 1]), "refused"))
  /\ facts' = [facts EXCEPT !.denials = @ + 1]
  /\ denyRows' = IF call[c].ran THEN denyRows ELSE denyRows + 1

\* Halt(DENY), which is also what _fail_closed makes of a guard's exception.
\* On the loop the count and the record have no suspension between them.
GuardDenies(c) ==
  /\ ~Threaded
  /\ AtGuard(c)
  /\ Set(c, Return(Recorded([call[c] EXCEPT !.halts = @ + 1]), "refused"))
  /\ facts' = [facts EXCEPT !.denials = @ + 1]
  /\ denyRows' = denyRows + 1

\* A thread counts the denial (_record_run_decision)...
GuardDeniesOnThread(c) ==
  /\ Threaded
  /\ AtGuard(c)
  /\ Set(c, [call[c] EXCEPT !.pc = "halted", !.halts = @ + 1])
  /\ facts' = [facts EXCEPT !.denials = @ + 1]
  /\ UNCHANGED denyRows

\* (Mutant) A halt after the tool leaves only the tool's ALLOW in the trail.
HaltRecordedSilently(c) ==
  /\ call[c].pc = "halted"
  /\ Set(c, Return(Recorded(call[c]), "refused"))
  /\ denyRows' = IF call[c].ran THEN denyRows ELSE denyRows + 1
  /\ UNCHANGED facts

\* ... and records it (_record_halt) after other threads may have run.
HaltRecorded(c) ==
  /\ call[c].pc = "halted"
  /\ Set(c, Return(Recorded(call[c]), "refused"))
  /\ denyRows' = denyRows + 1
  /\ UNCHANGED facts

\* (Mutant) A granted approval of a guard is not audited.
AfterHaltAnswerUnrecorded(r, phase, answer) ==
  CASE answer = "yes"    -> NextGuard(r, phase)
    [] answer = "no"     -> Return(Recorded(r), "refused")
    [] answer = "raises" -> Return(r, "raised")

\* What becomes of a halted call once the handler has answered; an exception
\* of the handler leaves the runner before _record_halt.
AfterHaltAnswer(r, phase, answer) ==
  CASE answer = "yes"    -> NextGuard(Recorded(r), phase)
    [] answer = "no"     -> Return(Recorded(r), "refused")
    [] answer = "raises" -> Return(r, "raised")

\* Halt(NEEDS_APPROVAL): the gate is counted when it fires, the row written
\* only after the answer.  A thread leaves room for others between the two even
\* when there is no handler to ask.
GuardGates(c) ==
  LET halted == [call[c] EXCEPT !.halts = @ + 1]
      phase  == call[c].pc
  IN  /\ AtGuard(c)
      /\ \/ /\ ~Threaded /\ Handler = "none"
            /\ Set(c, Return(Recorded(halted), "refused"))
         \/ /\ ~Threaded /\ Handler = "immediate"
            /\ \E answer \in Answers : Set(c, AfterHaltAnswer(halted, phase, answer))
         \/ /\ Threaded \/ Handler = "suspending"
            /\ Set(c, [halted EXCEPT !.pc = IF phase = "pre" THEN "preWait"
                                                            ELSE "postWait"])
      /\ facts' = [facts EXCEPT !.approvals = @ + 1]
      /\ UNCHANGED denyRows

HaltAnswered(c) ==
  /\ call[c].pc \in {"preWait", "postWait"}
  /\ \E answer \in IF Handler = "none" THEN {"no"} ELSE Answers :
       Set(c, AfterHaltAnswer(call[c],
                              IF call[c].pc = "preWait" THEN "pre" ELSE "post",
                              answer))
  /\ UNCHANGED <<facts, denyRows>>

-----------------------------------------------------------------------------
(* The policy's own gate, and the execution it clears.                     *)

\* (Mutant) Off by one: <= for <.
PolicyVerdictInclusive(a) == IF facts.toolCalls <= Cap THEN Rule[a] ELSE "deny"

\* evaluate_tool_call on the run snapshot decide() has just read: a failed
\* constraint denies whatever the mode of the tool.
PolicyVerdict(a) == IF facts.toolCalls < Cap THEN Rule[a] ELSE "deny"

\* A needs_approval of the policy pauses its call: the handler suspends, or a
\* thread asks it.
GatePauses == Handler = "suspending" \/ (Threaded /\ Handler = "immediate")

\* (Mutant) A guard's approval silently satisfies the policy's.
ActOnVerdictMerged(c, v) ==
  \/ /\ v = "allow" \/ (v = "needs_approval" /\ call[c].haltRows > 0)
     /\ Set(c, Dispatch([call[c] EXCEPT !.verdict = v]))
     /\ facts' = [facts EXCEPT !.toolCalls = @ + 1]
  \/ /\ v = "deny" \/ (v = "needs_approval" /\ call[c].haltRows = 0)
     /\ Set(c, Return([call[c] EXCEPT !.verdict = v], "refused"))
     /\ facts' = [facts EXCEPT !.denials = @ + 1]

\* What the runner does with the verdict v, up to the handler's answer.
ActOnVerdict(c, v) ==
  LET r == [call[c] EXCEPT !.verdict = v]
  IN \/ /\ v = "allow"
        /\ Set(c, Dispatch(r))
        /\ facts' = [facts EXCEPT !.toolCalls = @ + 1]
     \/ /\ v = "deny"
        /\ Set(c, Return(r, "refused"))
        /\ facts' = [facts EXCEPT !.denials = @ + 1]
     \/ /\ v = "needs_approval"
        /\ \/ /\ Handler = "none"
              /\ Set(c, Return(r, "refused"))
              /\ facts' = [facts EXCEPT !.approvals = @ + 1]
           \/ /\ GatePauses
              /\ Set(c, [r EXCEPT !.pc = "policyWait"])
              /\ facts' = [facts EXCEPT !.approvals = @ + 1]
           \/ /\ ~Threaded /\ Handler = "immediate"
              /\ \/ /\ Set(c, Dispatch([r EXCEPT !.approved = TRUE]))
                    /\ facts' = [facts EXCEPT !.approvals = @ + 1, !.toolCalls = @ + 1]
                 \/ /\ \E reply \in {"refused", "raised"} : Set(c, Return(r, reply))
                    /\ facts' = [facts EXCEPT !.approvals = @ + 1]

\* The record decide() emits before it returns the verdict v.
RowOf(v) == denyRows' = IF v = "deny" THEN denyRows + 1 ELSE denyRows

ReadyToDecide(c) == call[c].pc = "pre" /\ call[c].gi > NPre

\* A call holds a verdict decide() has recorded and the runner not acted on.
Decided(c, v) ==
  /\ Set(c, [call[c] EXCEPT !.pc = "decided", !.verdict = v])
  /\ RowOf(v)
  /\ UNCHANGED facts

\* (Mutant) An await between decide() and the count.
DecideThenSuspend(c) ==
  /\ ~Threaded
  /\ ReadyToDecide(c)
  /\ Decided(c, PolicyVerdict(call[c].args))

\* (Mutant) One approval question at a time holds up every decision.
DecideOneAtATime(c) ==
  /\ ~Threaded
  /\ ReadyToDecide(c)
  /\ \A d \in Calls : call[d].pc # "policyWait"
  /\ ActOnVerdict(c, PolicyVerdict(call[c].args))
  /\ RowOf(PolicyVerdict(call[c].args))

\* On the event loop nothing suspends between decide() and the count.
DecideOnLoop(c) ==
  /\ ~Threaded
  /\ ReadyToDecide(c)
  /\ ActOnVerdict(c, PolicyVerdict(call[c].args))
  /\ RowOf(PolicyVerdict(call[c].args))

\* A thread reads the counters, evaluates, and emits the record...
DecideOnThread(c) ==
  /\ Threaded
  /\ ReadyToDecide(c)
  /\ Decided(c, PolicyVerdict(call[c].args))

\* (Mutant) The runner records the policy's denial as it does a guard's.
ThreadActsRecordingAgain(c) ==
  /\ call[c].pc = "decided"
  /\ ActOnVerdict(c, call[c].verdict)
  /\ RowOf(call[c].verdict)

\* ... and the runner counts that verdict after other threads may have run.
ThreadActs(c) ==
  /\ call[c].pc = "decided"
  /\ ActOnVerdict(c, call[c].verdict)
  /\ UNCHANGED denyRows

PolicyGateAnswered(c) ==
  /\ call[c].pc = "policyWait"
  /\ \/ /\ Set(c, Dispatch([call[c] EXCEPT !.approved = TRUE]))
        /\ facts' = [facts EXCEPT !.toolCalls = @ + 1]
     \/ /\ \E reply \in {"refused", "raised"} : Set(c, Return(call[c], reply))
        /\ UNCHANGED facts
  /\ UNCHANGED denyRows

ToolReturns(c) ==
  /\ call[c].pc = "running"
  /\ Set(c, [call[c] EXCEPT !.pc = "post", !.gi = 1, !.ok = TRUE])
  /\ UNCHANGED <<facts, denyRows>>

\* (Mutant) A tool that raised skips the after-guards' bookkeeping.
ToolRaisesToNowhere(c) ==
  /\ call[c].pc = "running"
  /\ Set(c, [call[c] EXCEPT !.pc = "raised"])
  /\ facts' = [facts EXCEPT !.errors = @ + 1]
  /\ UNCHANGED denyRows

ToolRaises(c) ==
  /\ call[c].pc = "running"
  /\ Set(c, [call[c] EXCEPT !.pc = "post", !.gi = 1])
  /\ facts' = [facts EXCEPT !.errors = @ + 1]
  /\ UNCHANGED denyRows

\* The after-guards are through: the result, or the tool's own exception.
Deliver(c) ==
  /\ call[c].pc = "post"
  /\ call[c].gi > NPost
  /\ Set(c, Return(call[c], IF call[c].ok THEN "result" ELSE "raised"))
  /\ UNCHANGED <<facts, denyRows>>

\* A task is cancelled where it is suspended; CancelledError passes every
\* `except Exception' of the runner.
Cancel(c) ==
  /\ ~Threaded
  /\ call[c].pc \in {"preWait", "policyWait", "postWait", "running"} \/ AtGuard(c)
  /\ Set(c, Return(call[c], "cancelled"))
  /\ UNCHANGED <<facts, denyRows>>

-----------------------------------------------------------------------------
\* What the call does on its own, without an answer of the handler.
Step(c) ==
  \/ GuardProceeds(c) \/ GuardBreaksContract(c) \/ GuardGates(c)
  \/ GuardDenies(c) \/ GuardDeniesOnThread(c) \/ HaltRecorded(c)
  \/ DecideOnLoop(c) \/ DecideOnThread(c) \/ ThreadActs(c)
  \/ ToolReturns(c) \/ ToolRaises(c) \/ Deliver(c)

Next == \E c \in Calls :
          \/ Start(c) \/ Step(c) \/ Cancel(c)
          \/ HaltAnswered(c) \/ PolicyGateAnswered(c)

Spec == Init /\ [][Next]_vars

\* Guards and tools return, the scheduler is fair, handlers may never answer.
FairSpec == Spec /\ \A c \in Calls : WF_vars(Step(c))
-----------------------------------------------------------------------------
(* Properties.                                                             *)

TypeOK ==
  /\ call \in [Calls -> CallState]
  /\ facts \in RunFacts
  /\ denyRows \in Nat

\* Calls a verdict has cleared, or will clear if the handler says yes, that
\* are not counted yet: what a decision taken now cannot see.
Uncounted == {c \in Calls : /\ call[c].pc \in {"decided", "policyWait"}
                            /\ call[c].verdict # "deny"}

\* On an event loop with a handler that never suspends, `run.tool_calls < Cap'
\* admits exactly Cap executions, however the parallel calls interleave
\* (_record_run_execution: decide and the count have no await between them).
CapExact ==
  ~Threaded /\ Handler # "suspending" => facts.toolCalls <= Cap

\* Where the window between decision and count does open (an approval that
\* waits, a worker thread), the overshoot is bounded by the fan-out: counted
\* and still uncounted calls never exceed Cap plus the other calls in flight.
OvershootBounded ==
  facts.toolCalls + Cardinality(Uncounted) <= Cap + MaxParallel - 1

\* Claim of docs/policy/constraints.mdx for worker threads of LangChain's
\* executor as for asyncio.gather: parallel calls respect a cap exactly.
CapExactOnThreads ==
  Threaded /\ Handler # "suspending" => facts.toolCalls <= Cap

\* The budget counts executions and nothing else: a refused or gated call
\* consumes none, and a result withheld after the tool ran is not un-counted.
BudgetIsExecutions ==
  facts.toolCalls = Cardinality({c \in Calls : call[c].ran})

\* No tool runs on arguments the policy did not clear: the decision covers
\* the arguments the before-guards left, and a gated call ran only after the
\* handler said yes, whatever a guard's own approval was.
NoUnclearedExecution ==
  \A c \in Calls : call[c].ran =>
    \/ Rule[call[c].args] = "allow"
    \/ Rule[call[c].args] = "needs_approval" /\ call[c].approved

\* Where a call stands says what has happened to it: the tool has run exactly
\* from dispatch on, only a thread holds an old verdict or a denial without its
\* record, only a handler that suspends or is asked by a thread keeps a gated
\* call waiting.  With NoUnclearedExecution it is inductive.
ClearanceInv ==
  /\ NoUnclearedExecution
  /\ \A c \in Calls :
       /\ call[c].pc \in {"new", "pre", "preWait", "decided", "policyWait"}
            => ~call[c].ran
       /\ call[c].pc \in {"running", "post", "postWait"} => call[c].ran
       /\ call[c].pc = "decided" =>
            Threaded /\ call[c].verdict \in {"deny", Rule[call[c].args]}
       /\ call[c].pc = "halted" => Threaded
       /\ call[c].pc = "policyWait" =>
            /\ GatePauses
            /\ call[c].verdict = "needs_approval"
            /\ Rule[call[c].args] = "needs_approval"

\* Calls whose denial is in the trail and not counted yet, and calls whose
\* denial is counted and not in the trail yet: worker threads between the two.
Refusing == {c \in Calls : call[c].pc = "decided" /\ call[c].verdict = "deny"}
Halting  == {c \in Calls : call[c].pc = "halted"}

\* run.denials and the audit trail agree on how many calls were refused by a
\* DENY, of the policy (recorded, then counted) or of a guard (counted, then
\* recorded), up to the threads that are between the two; on an event loop no
\* call ever is, and the two are equal.
DenialsAudited ==
  facts.denials + Cardinality(Refusing) = denyRows + Cardinality(Halting)

\* Every guard halt whose approval question was answered has its record; the
\* only halts without one are still waiting, about to be recorded by their
\* thread, or ended by an exception or a cancellation while they waited.
AnsweredHaltsAudited ==
  \A c \in Calls :
    /\ call[c].haltRows <= call[c].halts
    /\ call[c].pc \notin {"preWait", "postWait", "halted"} =>
         \/ call[c].haltRows = call[c].halts
         \/ /\ call[c].reply \in {"raised", "cancelled"}
            /\ call[c].haltRows + 1 = call[c].halts

\* The audit trail and the run's counters tell one story of what was refused or
\* halted, for the policy's refusals and for the guards'.
AuditAgrees == DenialsAudited /\ AnsweredHaltsAudited

\* The counters of a run say what happened in it, and so does the audit trail.
CountersAgree == BudgetIsExecutions /\ AuditAgrees

\* R-GUARD-004: a guard halt reaches the audit trail whether it blocked the
\* call or was approved.
EveryHaltAudited ==
  \A c \in Calls : call[c].pc = "done" => call[c].haltRows = call[c].halts

\* A call waiting for a human holds up nobody else: every call started ends
\* or is itself waiting on the handler.
OthersProgress ==
  \A c \in Calls : call[c].pc # "new" ~>
    call[c].pc \in {"done", "preWait", "policyWait", "postWait"}
=============================================================================
