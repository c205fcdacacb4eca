------------------------- MODULE GuardedCallsProofs -------------------------
(* Theorems about GuardedCalls for every set of calls, every cap, every     *)
(* policy, every number of guards and every kind of approval handler.      *)
EXTENDS GuardedCalls, FiniteSetTheorems, TLAPS

USE ParamsAssumption DEF Verdicts, Answers, PCs, Replies

\* The record operators keep a call's state well typed.
LEMMA UpdatesTyped ==
  ASSUME NEW r \in CallState
  PROVE  /\ \A reply \in Replies : Return(r, reply) \in CallState
         /\ Dispatch(r) \in CallState
         /\ \A phase \in {"pre", "post"} : NextGuard(r, phase) \in CallState
         /\ Recorded(r) \in CallState
         /\ [r EXCEPT !.halts = @ + 1] \in CallState
<1>1. \A reply \in Replies : Return(r, reply) \in CallState
  BY DEF Return, CallState
<1>2. Dispatch(r) \in CallState
  BY DEF Dispatch, CallState
<1>3. ASSUME NEW phase \in {"pre", "post"} PROVE NextGuard(r, phase) \in CallState
  <2>1. phase \in PCs /\ r.gi + 1 \in Nat
    BY DEF CallState
  <2>2. [[r EXCEPT !.pc = phase] EXCEPT !.gi = r.gi + 1] \in CallState
    BY <2>1 DEF CallState
  <2>3. QED BY <2>2 DEF NextGuard, CallState
<1>4. Recorded(r) \in CallState
  BY DEF Recorded, CallState
<1>5. [r EXCEPT !.halts = @ + 1] \in CallState
  BY DEF CallState
<1>6. QED BY <1>1, <1>2, <1>3, <1>4, <1>5

LEMMA AnswerTyped ==
  ASSUME NEW r \in CallState, NEW phase \in {"pre", "post"}, NEW answer \in Answers
  PROVE  AfterHaltAnswer(r, phase, answer) \in CallState
<1>1. CASE answer = "yes"
  BY <1>1, UpdatesTyped DEF AfterHaltAnswer
<1>2. CASE answer = "no"
  BY <1>2, UpdatesTyped DEF AfterHaltAnswer
<1>3. CASE answer = "raises"
  BY <1>3, UpdatesTyped DEF AfterHaltAnswer
<1>4. QED BY <1>1, <1>2, <1>3

LEMMA CountersTyped ==
  ASSUME NEW f \in RunFacts
  PROVE  /\ [f EXCEPT !.toolCalls = @ + 1] \in RunFacts
         /\ [f EXCEPT !.denials = @ + 1] \in RunFacts
         /\ [f EXCEPT !.approvals = @ + 1] \in RunFacts
         /\ [f EXCEPT !.errors = @ + 1] \in RunFacts
         /\ [f EXCEPT !.approvals = @ + 1, !.toolCalls = @ + 1] \in RunFacts
<1>1. [f EXCEPT !.toolCalls = @ + 1] \in RunFacts
  BY DEF RunFacts
<1>2. [f EXCEPT !.denials = @ + 1] \in RunFacts
  BY DEF RunFacts
<1>3. [f EXCEPT !.approvals = @ + 1] \in RunFacts
  BY DEF RunFacts
<1>4. [f EXCEPT !.errors = @ + 1] \in RunFacts
  BY DEF RunFacts
<1>5. [f EXCEPT !.approvals = @ + 1, !.toolCalls = @ + 1] \in RunFacts
  <2>1. f.approvals + 1 \in Nat /\ f.toolCalls + 1 \in Nat
    BY DEF RunFacts
  <2>2. [[f EXCEPT !.approvals = f.approvals + 1]
           EXCEPT !.toolCalls = f.toolCalls + 1] \in RunFacts
    BY <2>1 DEF RunFacts
  <2>3. QED BY <2>2 DEF RunFacts
<1>6. QED BY <1>1, <1>2, <1>3, <1>4, <1>5

\* Acting on a verdict keeps the types, on the loop and on a thread.
LEMMA ActTyped ==
  ASSUME TypeOK, NEW c \in Calls, NEW v \in Verdicts, ActOnVerdict(c, v), denyRows' \in Nat
  PROVE  TypeOK'
<1> DEFINE r == [call[c] EXCEPT !.verdict = v]
<1>1. r \in CallState
  BY DEF TypeOK, CallState
<1>2. [r EXCEPT !.approved = TRUE] \in CallState
  BY <1>1 DEF CallState
<1>3. [r EXCEPT !.pc = "policyWait"] \in CallState
  BY <1>1 DEF CallState
<1>4. \E s \in CallState : call' = [call EXCEPT ![c] = s]
  <2>1. Dispatch(r) \in CallState /\ Dispatch([r EXCEPT !.approved = TRUE]) \in CallState
    BY <1>1, <1>2, UpdatesTyped
  <2>2. \A reply \in Replies : Return(r, reply) \in CallState
    BY <1>1, UpdatesTyped
  <2> HIDE DEF r
  <2>3. ActOnVerdict(c, v) =>
          \E s \in {Dispatch(r), Dispatch([r EXCEPT !.approved = TRUE]),
                    [r EXCEPT !.pc = "policyWait"], Return(r, "refused"), Return(r, "raised")} :
            call' = [call EXCEPT ![c] = s]
    BY DEF ActOnVerdict, Set, r
  <2>4. QED BY <2>1, <2>2, <2>3, <1>3
<1>5. facts' \in RunFacts
  <2>1. facts' \in {[facts EXCEPT !.toolCalls = @ + 1], [facts EXCEPT !.denials = @ + 1],
                    [facts EXCEPT !.approvals = @ + 1],
                    [facts EXCEPT !.approvals = @ + 1, !.toolCalls = @ + 1]}
    BY DEF ActOnVerdict
  <2>2. QED BY <2>1, CountersTyped DEF TypeOK
<1>6. QED BY <1>4, <1>5 DEF TypeOK

LEMMA VerdictTyped ==
  ASSUME TypeOK, NEW c \in Calls
  PROVE  PolicyVerdict(call[c].args) \in Verdicts
BY DEF TypeOK, CallState, PolicyVerdict

LEMMA RowTyped ==
  ASSUME TypeOK, NEW v, RowOf(v)
  PROVE  denyRows' \in Nat
BY DEF TypeOK, RowOf

\* Every value a call, the counters and the audit count take is well formed.
THEOREM TypeCorrect == Spec => []TypeOK
<1>1. Init => TypeOK
  <2> SUFFICES ASSUME Init PROVE TypeOK
    OBVIOUS
  <2> DEFINE Fresh == [pc : {"new"}, gi : {1}, args : Args, verdict : {"none"},
                       approved : {FALSE}, ran : {FALSE}, ok : {FALSE},
                       reply : {"none"}, halts : {0}, haltRows : {0}]
  <2>1. ASSUME NEW s \in Fresh PROVE s \in CallState
    <3>1. s = [pc |-> s.pc, gi |-> s.gi, args |-> s.args, verdict |-> s.verdict,
               approved |-> s.approved, ran |-> s.ran, ok |-> s.ok,
               reply |-> s.reply, halts |-> s.halts, haltRows |-> s.haltRows]
      OBVIOUS
    <3>2. s.pc \in PCs /\ s.gi \in Nat /\ s.args \in Args
          /\ s.verdict \in Verdicts \cup {"none"} /\ s.reply \in Replies
          /\ s.halts \in Nat /\ s.haltRows \in Nat
      OBVIOUS
    <3>3. s.approved \in BOOLEAN /\ s.ran \in BOOLEAN /\ s.ok \in BOOLEAN
      BY Zenon
    <3>4. QED BY <3>1, <3>2, <3>3 DEF CallState
  <2>2. call \in [Calls -> CallState]
    BY <2>1 DEF Init
  <2>3. facts \in RunFacts /\ denyRows \in Nat
    BY DEF Init, RunFacts
  <2>4. QED BY <2>2, <2>3 DEF TypeOK
<1>2. TypeOK /\ [Next]_vars => TypeOK'
  <2> SUFFICES ASSUME TypeOK, [Next]_vars PROVE TypeOK'
    OBVIOUS
  <2> USE DEF Set
  <2>1. ASSUME NEW c \in Calls, Start(c) PROVE TypeOK'
    BY <2>1 DEF Start, TypeOK, CallState
  <2>2. ASSUME NEW c \in Calls, GuardProceeds(c) PROVE TypeOK'
    <3>1. PICK a \in Args :
            call' = [call EXCEPT ![c] = NextGuard([call[c] EXCEPT !.args = a], call[c].pc)]
      BY <2>2 DEF GuardProceeds
    <3>2. [call[c] EXCEPT !.args = a] \in CallState
      BY DEF TypeOK, CallState
    <3>3. NextGuard([call[c] EXCEPT !.args = a], call[c].pc) \in CallState
      BY <2>2, <3>2, UpdatesTyped DEF GuardProceeds, AtGuard
    <3>4. QED BY <2>2, <3>1, <3>3 DEF GuardProceeds, TypeOK
  <2>3. ASSUME NEW c \in Calls, GuardBreaksContract(c) PROVE TypeOK'
    BY <2>3, UpdatesTyped DEF GuardBreaksContract, TypeOK
  <2>4. ASSUME NEW c \in Calls, GuardDenies(c) PROVE TypeOK'
    <3>1. [call[c] EXCEPT !.halts = @ + 1] \in CallState
      BY UpdatesTyped DEF TypeOK
    <3>2. Return(Recorded([call[c] EXCEPT !.halts = @ + 1]), "refused") \in CallState
      BY <3>1, UpdatesTyped
    <3>3. facts' \in RunFacts /\ denyRows' \in Nat
      BY <2>4 DEF GuardDenies, TypeOK, RunFacts
    <3>4. QED BY <2>4, <3>2, <3>3 DEF GuardDenies, TypeOK
  <2>5. ASSUME NEW c \in Calls, GuardGates(c) PROVE TypeOK'
    <3> DEFINE halted == [call[c] EXCEPT !.halts = @ + 1]
    <3>1. halted \in CallState
      BY UpdatesTyped DEF TypeOK
    <3>2. facts' \in RunFacts /\ denyRows' \in Nat
      BY <2>5 DEF GuardGates, TypeOK, RunFacts
    <3> DEFINE wait == [halted EXCEPT !.pc = IF call[c].pc = "pre" THEN "preWait"
                                                                  ELSE "postWait"]
    <3>3. \/ call' = [call EXCEPT ![c] = Return(Recorded(halted), "refused")]
          \/ \E answer \in Answers :
               call' = [call EXCEPT ![c] = AfterHaltAnswer(halted, call[c].pc, answer)]
          \/ call' = [call EXCEPT ![c] = wait]
      BY <2>5 DEF GuardGates
    <3>4. wait \in CallState
      BY <3>1 DEF CallState
    <3> HIDE DEF halted, wait
    <3>5. Return(Recorded(halted), "refused") \in CallState
      BY <3>1, UpdatesTyped
    <3>6. \A answer \in Answers : AfterHaltAnswer(halted, call[c].pc, answer) \in CallState
      BY <2>5, <3>1, AnswerTyped DEF GuardGates, AtGuard
    <3>7. \E s \in CallState : call' = [call EXCEPT ![c] = s]
      BY <3>3, <3>4, <3>5, <3>6
    <3>8. QED BY <3>2, <3>7 DEF TypeOK
  <2>6. ASSUME NEW c \in Calls, HaltAnswered(c) PROVE TypeOK'
    <3> DEFINE phase == IF call[c].pc = "preWait" THEN "pre" ELSE "post"
    <3>1. PICK answer \in Answers :
            call' = [call EXCEPT ![c] = AfterHaltAnswer(call[c], phase, answer)]
      BY <2>6 DEF HaltAnswered
    <3>2. AfterHaltAnswer(call[c], phase, answer) \in CallState
      BY AnswerTyped DEF TypeOK
    <3>3. QED BY <2>6, <3>1, <3>2 DEF HaltAnswered, TypeOK
  <2>7. ASSUME NEW c \in Calls, DecideOnLoop(c) PROVE TypeOK'
    BY <2>7, VerdictTyped, RowTyped, ActTyped DEF DecideOnLoop
  <2>8. ASSUME NEW c \in Calls, DecideOnThread(c) PROVE TypeOK'
    <3>1. [call[c] EXCEPT !.pc = "decided", !.verdict = PolicyVerdict(call[c].args)]
            \in CallState
      BY VerdictTyped DEF TypeOK, CallState
    <3>2. denyRows' \in Nat
      BY <2>8, RowTyped DEF DecideOnThread, Decided
    <3>3. QED BY <2>8, <3>1, <3>2 DEF DecideOnThread, Decided, TypeOK
  <2>9. ASSUME NEW c \in Calls, ThreadActs(c) PROVE TypeOK'
    <3>1. call[c].verdict \in Verdicts
      BY <2>9 DEF ThreadActs, ActOnVerdict
    <3>2. denyRows' \in Nat
      BY <2>9 DEF ThreadActs, TypeOK
    <3>3. QED BY <2>9, <3>1, <3>2, ActTyped DEF ThreadActs
  <2>10. ASSUME NEW c \in Calls, PolicyGateAnswered(c) PROVE TypeOK'
    <3>1. [call[c] EXCEPT !.approved = TRUE] \in CallState
      BY DEF TypeOK, CallState
    <3>2. Dispatch([call[c] EXCEPT !.approved = TRUE]) \in CallState
      BY <3>1, UpdatesTyped
    <3>3. \A reply \in Replies : Return(call[c], reply) \in CallState
      BY UpdatesTyped DEF TypeOK
    <3>4. facts' \in RunFacts /\ denyRows' \in Nat
      BY <2>10 DEF PolicyGateAnswered, TypeOK, RunFacts
    <3>5. \E s \in CallState : call' = [call EXCEPT ![c] = s]
      BY <2>10, <3>2, <3>3 DEF PolicyGateAnswered
    <3>6. QED BY <3>4, <3>5 DEF TypeOK
  <2>11. ASSUME NEW c \in Calls, ToolReturns(c) PROVE TypeOK'
    <3>1. [call[c] EXCEPT !.pc = "post", !.gi = 1, !.ok = TRUE] \in CallState
      BY DEF TypeOK, CallState
    <3>2. QED BY <2>11, <3>1 DEF ToolReturns, TypeOK
  <2>12. ASSUME NEW c \in Calls, ToolRaises(c) PROVE TypeOK'
    <3>1. [call[c] EXCEPT !.pc = "post", !.gi = 1] \in CallState
      BY DEF TypeOK, CallState
    <3>2. QED BY <2>12, <3>1, CountersTyped DEF ToolRaises, TypeOK
  <2>13. ASSUME NEW c \in Calls, Deliver(c) PROVE TypeOK'
    BY <2>13, UpdatesTyped DEF Deliver, TypeOK
  <2>14. ASSUME NEW c \in Calls, Cancel(c) PROVE TypeOK'
    BY <2>14, UpdatesTyped DEF Cancel, TypeOK
  <2>15. ASSUME NEW c \in Calls, GuardDeniesOnThread(c) PROVE TypeOK'
    <3>1. [call[c] EXCEPT !.pc = "halted", !.halts = @ + 1] \in CallState
      <4>1. call[c] \in CallState /\ call[c].halts + 1 \in Nat
        BY DEF TypeOK, CallState
      <4>2. [[call[c] EXCEPT !.pc = "halted"] EXCEPT !.halts = call[c].halts + 1] \in CallState
        BY <4>1 DEF CallState
      <4>3. QED BY <4>1, <4>2 DEF CallState
    <3>2. QED BY <2>15, <3>1, CountersTyped DEF GuardDeniesOnThread, TypeOK
  <2>16. ASSUME NEW c \in Calls, HaltRecorded(c) PROVE TypeOK'
    <3>1. Return(Recorded(call[c]), "refused") \in CallState
      BY UpdatesTyped DEF TypeOK
    <3>2. QED BY <2>16, <3>1 DEF HaltRecorded, TypeOK
  <2>17. CASE UNCHANGED vars
    BY <2>17 DEF vars, TypeOK
  <2>18. QED
    BY <2>1, <2>2, <2>3, <2>4, <2>5, <2>6, <2>7, <2>8, <2>9, <2>10, <2>11, <2>12,
       <2>13, <2>14, <2>15, <2>16, <2>17 DEF Next, Step
<1>3. QED BY <1>1, <1>2, PTL DEF Spec

-----------------------------------------------------------------------------
\* One call's step changes one call's state.
LEMMA OtherCallsKept ==
  ASSUME TypeOK, NEW c \in Calls, NEW s, Set(c, s)
  PROVE  /\ call'[c] = s
         /\ \A d \in Calls : d # c => call'[d] = call[d]
BY DEF Set, TypeOK

\* What ClearanceInv says of one call.
Cleared(r) ==
  /\ r.ran =>
       \/ Rule[r.args] = "allow"
       \/ Rule[r.args] = "needs_approval" /\ r.approved
  /\ r.pc \in {"new", "pre", "preWait", "decided", "policyWait"} => ~r.ran
  /\ r.pc \in {"running", "post", "postWait"} => r.ran
  /\ r.pc = "decided" => Threaded /\ r.verdict \in {"deny", Rule[r.args]}
  /\ r.pc = "halted" => Threaded
  /\ r.pc = "policyWait" => /\ GatePauses
                            /\ r.verdict = "needs_approval"
                            /\ Rule[r.args] = "needs_approval"

LEMMA ClearanceInvIsCleared == ClearanceInv <=> \A c \in Calls : Cleared(call[c])
<1>1. ASSUME ClearanceInv, NEW c \in Calls PROVE Cleared(call[c])
  BY <1>1, Zenon DEF ClearanceInv, NoUnclearedExecution, Cleared
<1>2. ASSUME \A c \in Calls : Cleared(call[c]) PROVE ClearanceInv
  <2>1. NoUnclearedExecution
    BY <1>2, Zenon DEF NoUnclearedExecution, Cleared
  <2>2. QED BY <1>2, <2>1, Zenon DEF ClearanceInv, Cleared
<1>3. QED BY <1>1, <1>2

LEMMA ClearedUpdates ==
  ASSUME NEW r \in CallState, Cleared(r)
  PROVE  /\ \A reply \in Replies : Cleared(Return(r, reply))
         /\ Cleared(Recorded(r))
         /\ Cleared([r EXCEPT !.halts = @ + 1])
<1>1. \A reply \in Replies : Cleared(Return(r, reply))
  BY DEF Cleared, Return, CallState
<1>2. Cleared(Recorded(r))
  BY DEF Cleared, Recorded, CallState
<1>3. Cleared([r EXCEPT !.halts = @ + 1])
  BY DEF Cleared, CallState
<1>4. QED BY <1>1, <1>2, <1>3

LEMMA ClearedNextGuard ==
  ASSUME NEW r \in CallState, Cleared(r), NEW phase \in {"pre", "post"},
         r.pc = phase \/ r.pc = (IF phase = "pre" THEN "preWait" ELSE "postWait")
  PROVE  Cleared(NextGuard(r, phase))
<1> DEFINE n == NextGuard(r, phase)
<1>1. /\ n.pc = phase /\ n.ran = r.ran /\ n.args = r.args
      /\ n.approved = r.approved /\ n.verdict = r.verdict
  BY DEF NextGuard, CallState
<1>2. r.ran <=> phase = "post"
  BY DEF Cleared
<1> HIDE DEF n
<1>3. n.ran <=> phase = "post"
  BY <1>1, <1>2
<1>4. n.ran =>
        \/ Rule[n.args] = "allow"
        \/ Rule[n.args] = "needs_approval" /\ n.approved
  BY <1>1 DEF Cleared
<1>5. Cleared(n)
  BY <1>1, <1>3, <1>4 DEF Cleared
<1>6. QED BY <1>5 DEF n

LEMMA ClearedAfterAnswer ==
  ASSUME NEW r \in CallState, Cleared(r), NEW phase \in {"pre", "post"},
         NEW answer \in Answers,
         r.pc = phase \/ r.pc = (IF phase = "pre" THEN "preWait" ELSE "postWait")
  PROVE  Cleared(AfterHaltAnswer(r, phase, answer))
<1>1. Recorded(r) \in CallState /\ Cleared(Recorded(r)) /\ Recorded(r).pc = r.pc
  BY UpdatesTyped, ClearedUpdates DEF Recorded, CallState
<1>2. CASE answer = "yes"
  BY <1>1, <1>2, ClearedNextGuard DEF AfterHaltAnswer
<1>3. CASE answer = "no"
  BY <1>1, <1>3, ClearedUpdates DEF AfterHaltAnswer
<1>4. CASE answer = "raises"
  BY <1>4, ClearedUpdates DEF AfterHaltAnswer
<1>5. QED BY <1>2, <1>3, <1>4

\* A verdict of the policy on the call's own arguments clears it for exactly
\* what NoUnclearedExecution allows.
LEMMA ClearedByVerdict ==
  ASSUME TypeOK, NEW c \in Calls, Cleared(call[c]), ~call[c].ran,
         NEW v \in {"deny", Rule[call[c].args]}, ActOnVerdict(c, v)
  PROVE  \E s : Set(c, s) /\ Cleared(s)
<1> DEFINE r == [call[c] EXCEPT !.verdict = v]
<1>1. /\ call[c] \in CallState /\ v \in Verdicts
      /\ r \in CallState /\ r.args = call[c].args /\ r.verdict = v /\ ~r.ran
  BY DEF TypeOK, CallState
<1>2. CASE v = "allow"
  <2>1. Set(c, Dispatch(r))
    BY <1>2 DEF ActOnVerdict
  <2> DEFINE n == Dispatch(r)
  <2>2. n.pc = "running" /\ n.ran = TRUE /\ n.args = call[c].args
    BY <1>1 DEF Dispatch, CallState
  <2>3. Rule[n.args] = "allow"
    BY <1>2, <2>2
  <2> HIDE DEF n
  <2>4. Cleared(n)
    BY <2>2, <2>3 DEF Cleared
  <2>5. QED BY <2>1, <2>4 DEF n
<1>3. \A reply \in Replies : Cleared(Return(r, reply))
  BY <1>1 DEF Cleared, Return, CallState
<1>4. CASE v = "deny"
  BY <1>3, <1>4 DEF ActOnVerdict
<1>5. CASE v = "needs_approval"
  <2>1. CASE Set(c, Return(r, "refused")) \/ Set(c, Return(r, "raised"))
    BY <2>1, <1>3
  <2>2. CASE GatePauses /\ Set(c, [r EXCEPT !.pc = "policyWait"])
    <3>1. Cleared([r EXCEPT !.pc = "policyWait"])
      BY <1>1, <1>5, <2>2 DEF Cleared, CallState
    <3>2. QED BY <2>2, <3>1
  <2>3. CASE Set(c, Dispatch([r EXCEPT !.approved = TRUE]))
    <3>1. Cleared(Dispatch([r EXCEPT !.approved = TRUE]))
      BY <1>1, <1>5 DEF Cleared, Dispatch, CallState
    <3>2. QED BY <2>3, <3>1
  <2>4. QED BY <1>5, <2>1, <2>2, <2>3 DEF ActOnVerdict
<1>6. QED BY <1>1, <1>2, <1>4, <1>5

\* It is enough that the one call that moved ends cleared.
LEMMA ClearedStep ==
  ASSUME TypeOK, ClearanceInv, NEW c \in Calls, NEW s, Set(c, s), Cleared(s)
  PROVE  ClearanceInv'
<1>1. \A d \in Calls : Cleared(call'[d])
  BY OtherCallsKept, ClearanceInvIsCleared
<1>2. QED BY <1>1 DEF ClearanceInv, NoUnclearedExecution, Cleared

LEMMA ClearanceNext == TypeOK /\ ClearanceInv /\ [Next]_vars => ClearanceInv'
<1> SUFFICES ASSUME TypeOK, ClearanceInv, [Next]_vars PROVE ClearanceInv'
  OBVIOUS
<1>0. \A c \in Calls : call[c] \in CallState /\ Cleared(call[c])
  BY ClearanceInvIsCleared DEF TypeOK
<1>1. ASSUME NEW c \in Calls, Start(c) PROVE ClearanceInv'
  <2>1. Cleared([call[c] EXCEPT !.pc = "pre"])
    BY <1>0, <1>1 DEF Start, Cleared, CallState
  <2>2. QED BY <1>1, <2>1, ClearedStep DEF Start
<1>2. ASSUME NEW c \in Calls, GuardProceeds(c) PROVE ClearanceInv'
  <2>1. PICK a \in Args :
          /\ call[c].pc = "post" => a = call[c].args
          /\ Set(c, NextGuard([call[c] EXCEPT !.args = a], call[c].pc))
    BY <1>2 DEF GuardProceeds
  <2> DEFINE r == [call[c] EXCEPT !.args = a]
  <2>2. r \in CallState /\ r.pc = call[c].pc
    BY <1>0 DEF CallState
  <2>3. Cleared(r)
    <3>1. CASE call[c].pc = "post"
      <4>1. r = call[c]
        BY <1>0, <2>1, <3>1 DEF CallState
      <4>2. QED BY <1>0, <4>1
    <3>2. CASE call[c].pc = "pre"
      BY <1>0, <3>2 DEF Cleared, CallState
    <3>3. QED BY <1>2, <3>1, <3>2 DEF GuardProceeds, AtGuard
  <2> HIDE DEF r
  <2>4. Cleared(NextGuard(r, call[c].pc))
    BY <1>2, <2>2, <2>3, ClearedNextGuard DEF GuardProceeds, AtGuard
  <2>5. QED BY <2>1, <2>4, ClearedStep DEF r
<1>3. ASSUME NEW c \in Calls, GuardBreaksContract(c) PROVE ClearanceInv'
  BY <1>0, <1>3, ClearedUpdates, ClearedStep DEF GuardBreaksContract
<1>4. ASSUME NEW c \in Calls, GuardDenies(c) PROVE ClearanceInv'
  <2> DEFINE r == [call[c] EXCEPT !.halts = @ + 1]
  <2>1. r \in CallState /\ Cleared(r)
    BY <1>0, UpdatesTyped, ClearedUpdates
  <2> HIDE DEF r
  <2>2. Cleared(Return(Recorded(r), "refused"))
    BY <2>1, UpdatesTyped, ClearedUpdates
  <2>3. QED BY <1>4, <2>2, ClearedStep DEF GuardDenies, r
<1>5. ASSUME NEW c \in Calls, GuardGates(c) PROVE ClearanceInv'
  <2> DEFINE r == [call[c] EXCEPT !.halts = @ + 1]
             phase == call[c].pc
  <2>1. r \in CallState /\ Cleared(r) /\ r.pc = phase /\ phase \in {"pre", "post"}
    BY <1>0, <1>5, UpdatesTyped, ClearedUpdates DEF GuardGates, AtGuard, CallState
  <2>2. \/ Set(c, Return(Recorded(r), "refused"))
        \/ \E answer \in Answers : Set(c, AfterHaltAnswer(r, phase, answer))
        \/ Set(c, [r EXCEPT !.pc = IF phase = "pre" THEN "preWait" ELSE "postWait"])
    BY <1>5 DEF GuardGates
  <2> HIDE DEF r, phase
  <2>3. Cleared(Return(Recorded(r), "refused"))
    BY <2>1, UpdatesTyped, ClearedUpdates
  <2>4. \A answer \in Answers : Cleared(AfterHaltAnswer(r, phase, answer))
    BY <2>1, ClearedAfterAnswer
  <2>5. Cleared([r EXCEPT !.pc = IF phase = "pre" THEN "preWait" ELSE "postWait"])
    BY <2>1 DEF Cleared, CallState
  <2>6. QED BY <2>2, <2>3, <2>4, <2>5, ClearedStep
<1>6. ASSUME NEW c \in Calls, HaltAnswered(c) PROVE ClearanceInv'
  <2> DEFINE phase == IF call[c].pc = "preWait" THEN "pre" ELSE "post"
  <2>1. PICK answer \in Answers : Set(c, AfterHaltAnswer(call[c], phase, answer))
    BY <1>6 DEF HaltAnswered
  <2>2. /\ phase \in {"pre", "post"}
        /\ call[c].pc = (IF phase = "pre" THEN "preWait" ELSE "postWait")
    BY <1>6 DEF HaltAnswered
  <2>3. Cleared(AfterHaltAnswer(call[c], phase, answer))
    BY <1>0, <2>2, ClearedAfterAnswer
  <2>4. QED BY <2>1, <2>3, ClearedStep
<1>7. ASSUME NEW c \in Calls, DecideOnLoop(c) PROVE ClearanceInv'
  <2>1. PolicyVerdict(call[c].args) \in {"deny", Rule[call[c].args]} /\ ~call[c].ran
    BY <1>0, <1>7 DEF PolicyVerdict, DecideOnLoop, ReadyToDecide, Cleared
  <2>2. \E s : Set(c, s) /\ Cleared(s)
    BY <1>0, <1>7, <2>1, ClearedByVerdict DEF DecideOnLoop
  <2>3. QED BY <2>2, ClearedStep
<1>8. ASSUME NEW c \in Calls, DecideOnThread(c) PROVE ClearanceInv'
  <2>1. PolicyVerdict(call[c].args) \in {"deny", Rule[call[c].args]}
    BY DEF PolicyVerdict
  <2>2. Cleared([call[c] EXCEPT !.pc = "decided", !.verdict = PolicyVerdict(call[c].args)])
    BY <1>0, <1>8, <2>1 DEF DecideOnThread, ReadyToDecide, Cleared, CallState
  <2>3. QED BY <1>8, <2>2, ClearedStep DEF DecideOnThread, Decided
<1>9. ASSUME NEW c \in Calls, ThreadActs(c) PROVE ClearanceInv'
  <2>1. call[c].verdict \in {"deny", Rule[call[c].args]} /\ ~call[c].ran
    BY <1>0, <1>9 DEF ThreadActs, Cleared
  <2>2. \E s : Set(c, s) /\ Cleared(s)
    BY <1>0, <1>9, <2>1, ClearedByVerdict DEF ThreadActs
  <2>3. QED BY <2>2, ClearedStep
<1>10. ASSUME NEW c \in Calls, PolicyGateAnswered(c) PROVE ClearanceInv'
  <2>1. Cleared(Dispatch([call[c] EXCEPT !.approved = TRUE]))
    BY <1>0, <1>10 DEF PolicyGateAnswered, Cleared, Dispatch, CallState
  <2>2. \A reply \in Replies : Cleared(Return(call[c], reply))
    BY <1>0, ClearedUpdates
  <2>3. QED BY <1>10, <2>1, <2>2, ClearedStep DEF PolicyGateAnswered
<1>11. ASSUME NEW c \in Calls, ToolReturns(c) PROVE ClearanceInv'
  <2>1. Cleared([call[c] EXCEPT !.pc = "post", !.gi = 1, !.ok = TRUE])
    BY <1>0, <1>11 DEF ToolReturns, Cleared, CallState
  <2>2. QED BY <1>11, <2>1, ClearedStep DEF ToolReturns
<1>12. ASSUME NEW c \in Calls, ToolRaises(c) PROVE ClearanceInv'
  <2>1. Cleared([call[c] EXCEPT !.pc = "post", !.gi = 1])
    BY <1>0, <1>12 DEF ToolRaises, Cleared, CallState
  <2>2. QED BY <1>12, <2>1, ClearedStep DEF ToolRaises
<1>13. ASSUME NEW c \in Calls, Deliver(c) PROVE ClearanceInv'
  BY <1>0, <1>13, ClearedUpdates, ClearedStep DEF Deliver
<1>14. ASSUME NEW c \in Calls, Cancel(c) PROVE ClearanceInv'
  BY <1>0, <1>14, ClearedUpdates, ClearedStep DEF Cancel
<1>15. ASSUME NEW c \in Calls, GuardDeniesOnThread(c) PROVE ClearanceInv'
  <2>1. Cleared([call[c] EXCEPT !.pc = "halted", !.halts = @ + 1])
    BY <1>0, <1>15 DEF GuardDeniesOnThread, AtGuard, Cleared, CallState
  <2>2. QED BY <1>15, <2>1, ClearedStep DEF GuardDeniesOnThread
<1>16. ASSUME NEW c \in Calls, HaltRecorded(c) PROVE ClearanceInv'
  <2>1. Cleared(Return(Recorded(call[c]), "refused"))
    BY <1>0, UpdatesTyped, ClearedUpdates
  <2>2. QED BY <1>16, <2>1, ClearedStep DEF HaltRecorded
<1>17. CASE UNCHANGED vars
  BY <1>17 DEF vars, ClearanceInv, NoUnclearedExecution
<1>18. QED
  BY <1>1, <1>2, <1>3, <1>4, <1>5, <1>6, <1>7, <1>8, <1>9, <1>10, <1>11, <1>12,
     <1>13, <1>14, <1>15, <1>16, <1>17 DEF Next, Step

LEMMA ClearanceAlways == Spec => []ClearanceInv
<1>1. Init => ClearanceInv
  BY DEF Init, ClearanceInv, NoUnclearedExecution
<1>2. QED BY <1>1, ClearanceNext, TypeCorrect, PTL DEF Spec

\* Whatever guards rewrite and whoever approves what, a tool only ever runs on
\* arguments the policy allows, or that it gates and the handler approved.
THEOREM ClearedBeforeRun == Spec => []NoUnclearedExecution
<1>1. ClearanceInv => NoUnclearedExecution
  BY DEF ClearanceInv
<1>2. QED BY <1>1, ClearanceAlways, PTL

-----------------------------------------------------------------------------
(* The cap and its overshoot.                                              *)

\* A cleared call that is not counted yet, and a call that is in flight.
Pending(r) == r.pc \in {"decided", "policyWait"} /\ r.verdict # "deny"
Flying(r) == r.pc \notin {"new", "done"}

LEMMA FiniteSets ==
  /\ IsFiniteSet(Uncounted) /\ IsFiniteSet(InFlight)
  /\ Cardinality(Uncounted) \in Nat /\ Cardinality(InFlight) \in Nat
<1>1. Uncounted \subseteq Calls /\ InFlight \subseteq Calls
  BY DEF Uncounted, InFlight
<1>2. QED BY <1>1, FS_Subset, FS_CardinalityType

\* The two sets change in the one call that moved.
LEMMA SetsAfter ==
  ASSUME TypeOK, NEW c \in Calls, NEW s, Set(c, s)
  PROVE  /\ Uncounted' = IF Pending(s) THEN Uncounted \cup {c} ELSE Uncounted \ {c}
         /\ InFlight' = IF Flying(s) THEN InFlight \cup {c} ELSE InFlight \ {c}
<1>1. Uncounted = {d \in Calls : Pending(call[d])} /\ InFlight = {d \in Calls : Flying(call[d])}
  BY DEF Uncounted, InFlight, Pending, Flying
<1>2. Uncounted' = {d \in Calls : Pending(call'[d])} /\ InFlight' = {d \in Calls : Flying(call'[d])}
  BY DEF Uncounted, InFlight, Pending, Flying
<1>3. call'[c] = s /\ \A d \in Calls : d # c => call'[d] = call[d]
  BY OtherCallsKept
<1>4. \A d \in Calls : d \in Uncounted' <=> IF d = c THEN Pending(s) ELSE d \in Uncounted
  BY <1>1, <1>2, <1>3
<1>5. \A d \in Calls : d \in InFlight' <=> IF d = c THEN Flying(s) ELSE d \in InFlight
  BY <1>1, <1>2, <1>3
<1>6. Uncounted \subseteq Calls /\ Uncounted' \subseteq Calls
      /\ InFlight \subseteq Calls /\ InFlight' \subseteq Calls
  BY <1>1, <1>2
<1>7. QED BY <1>4, <1>5, <1>6

\* Adding one call adds at most one to a count; leaving one out takes it off.
LEMMA OneCall ==
  ASSUME NEW S, IsFiniteSet(S), NEW c
  PROVE  /\ IsFiniteSet(S \cup {c}) /\ IsFiniteSet(S \ {c})
         /\ Cardinality(S) \in Nat /\ Cardinality(S \cup {c}) \in Nat
         /\ Cardinality(S \ {c}) \in Nat
         /\ Cardinality(S \cup {c}) <= Cardinality(S \ {c}) + 1
         /\ Cardinality(S \ {c}) <= Cardinality(S)
         /\ c \in S => Cardinality(S \ {c}) = Cardinality(S) - 1
<1>1. IsFiniteSet(S \cup {c}) /\ IsFiniteSet(S \ {c})
  BY FS_AddElement, FS_RemoveElement
<1>2. Cardinality(S) \in Nat /\ Cardinality(S \cup {c}) \in Nat /\ Cardinality(S \ {c}) \in Nat
  BY <1>1, FS_CardinalityType
<1>3. Cardinality(S \ {c}) = IF c \in S THEN Cardinality(S) - 1 ELSE Cardinality(S)
  BY FS_RemoveElement
<1>4. Cardinality(S \cup {c}) = IF c \in S THEN Cardinality(S) ELSE Cardinality(S) + 1
  BY FS_AddElement
<1>5. QED BY <1>1, <1>2, <1>3, <1>4

\* A step that clears nothing and counts nothing keeps the bound.
LEMMA QuietStep ==
  ASSUME TypeOK, OvershootBounded, NEW c \in Calls, NEW s, Set(c, s), ~Pending(s),
         facts'.toolCalls = facts.toolCalls
  PROVE  OvershootBounded'
<1>1. Uncounted' = Uncounted \ {c}
  BY SetsAfter
<1>2. Cardinality(Uncounted') \in Nat /\ Cardinality(Uncounted') <= Cardinality(Uncounted)
  BY <1>1, FiniteSets, OneCall
<1>3. facts.toolCalls \in Nat
  BY DEF TypeOK, RunFacts
<1>4. QED BY <1>2, <1>3, FiniteSets DEF OvershootBounded

\* A step of a call in flight never widens the fan-out.
FanOut == Cardinality(InFlight) <= MaxParallel

LEMMA FanOutStep ==
  ASSUME TypeOK, FanOut, NEW c \in Calls, c \in InFlight, NEW s, Set(c, s)
  PROVE  FanOut'
<1>1. InFlight' = InFlight \/ InFlight' = InFlight \ {c}
  <2>1. InFlight \cup {c} = InFlight
    OBVIOUS
  <2>2. QED BY <2>1, SetsAfter
<1>2. Cardinality(InFlight') \in Nat /\ Cardinality(InFlight') <= Cardinality(InFlight)
  <2>1. CASE InFlight' = InFlight
    BY <2>1, FiniteSets
  <2>2. CASE InFlight' = InFlight \ {c}
    BY <2>2, FiniteSets, OneCall
  <2>3. QED BY <1>1, <2>1, <2>2
<1>3. QED BY <1>2, FiniteSets DEF FanOut

\* A verdict taken under the cap, or a pending one acted on, leaves room for
\* this call.
LEMMA ActBounded ==
  ASSUME TypeOK, OvershootBounded, NEW c \in Calls, NEW v \in Verdicts, ActOnVerdict(c, v),
         v # "deny" => facts.toolCalls + Cardinality(Uncounted \ {c}) <= Cap + MaxParallel - 2
  PROVE  OvershootBounded' /\ \E s : Set(c, s)
<1> DEFINE r == [call[c] EXCEPT !.verdict = v]
           k == Cardinality(Uncounted \ {c})
<1>1. r \in CallState /\ r.verdict = v
  BY DEF TypeOK, CallState
<1>2. facts.toolCalls \in Nat /\ k \in Nat
      /\ Cardinality(Uncounted \cup {c}) \in Nat /\ Cardinality(Uncounted \cup {c}) <= k + 1
  BY FiniteSets, OneCall DEF TypeOK, RunFacts
<1>3. \A reply \in Replies : ~Pending(Return(r, reply))
  BY <1>1 DEF Pending, Return, CallState
<1>4. ~Pending(Dispatch(r)) /\ ~Pending(Dispatch([r EXCEPT !.approved = TRUE]))
  BY <1>1 DEF Pending, Dispatch, CallState
<1>5. \/ /\ \E reply \in Replies : Set(c, Return(r, reply))
         /\ facts'.toolCalls = facts.toolCalls
      \/ /\ Set(c, Dispatch(r)) \/ Set(c, Dispatch([r EXCEPT !.approved = TRUE]))
         /\ facts'.toolCalls = facts.toolCalls + 1
         /\ v # "deny"
      \/ /\ Set(c, [r EXCEPT !.pc = "policyWait"])
         /\ facts'.toolCalls = facts.toolCalls
         /\ v # "deny"
  <2>1. \A n \in Nat : /\ [facts EXCEPT !.denials = n].toolCalls = facts.toolCalls
                       /\ [facts EXCEPT !.approvals = n].toolCalls = facts.toolCalls
    BY DEF TypeOK, RunFacts
  <2>2. /\ [facts EXCEPT !.toolCalls = @ + 1].toolCalls = facts.toolCalls + 1
        /\ [facts EXCEPT !.approvals = @ + 1, !.toolCalls = @ + 1].toolCalls
             = facts.toolCalls + 1
    BY DEF TypeOK, RunFacts
  <2>3. [facts EXCEPT !.denials = @ + 1].toolCalls = facts.toolCalls
        /\ [facts EXCEPT !.approvals = @ + 1].toolCalls = facts.toolCalls
    BY DEF TypeOK, RunFacts
  <2> HIDE DEF r
  <2>4. CASE v = "allow"
    BY <2>4, <2>2 DEF ActOnVerdict, r
  <2>5. CASE v = "deny"
    BY <2>5, <2>3 DEF ActOnVerdict, r
  <2>6. CASE v = "needs_approval"
    BY <2>6, <2>2, <2>3 DEF ActOnVerdict, r
  <2>7. QED BY <2>4, <2>5, <2>6
<1> HIDE DEF r
<1>6. CASE /\ \E reply \in Replies : Set(c, Return(r, reply))
           /\ facts'.toolCalls = facts.toolCalls
  BY <1>3, <1>6, QuietStep
<1>7. CASE /\ Set(c, Dispatch(r)) \/ Set(c, Dispatch([r EXCEPT !.approved = TRUE]))
           /\ facts'.toolCalls = facts.toolCalls + 1
           /\ v # "deny"
  <2>1. Uncounted' = Uncounted \ {c}
    BY <1>4, <1>7, SetsAfter
  <2>2. Cardinality(Uncounted') = k
    BY <2>1
  <2>3. QED BY <1>2, <1>7, <2>2 DEF OvershootBounded
<1>8. CASE /\ Set(c, [r EXCEPT !.pc = "policyWait"])
           /\ facts'.toolCalls = facts.toolCalls
           /\ v # "deny"
  <2>1. Pending([r EXCEPT !.pc = "policyWait"])
    BY <1>1, <1>8 DEF Pending, CallState
  <2>2. Uncounted' = Uncounted \cup {c}
    BY <1>8, <2>1, SetsAfter
  <2>3. Cardinality(Uncounted') \in Nat /\ Cardinality(Uncounted') <= k + 1
    BY <1>2, <2>2
  <2> HIDE DEF k
  <2>4. QED BY <1>2, <1>8, <2>3 DEF OvershootBounded, k
<1>9. QED BY <1>5, <1>6, <1>7, <1>8

\* The steps that neither decide nor dispatch: they leave no call pending,
\* run no tool and count no execution.
QuietAction(c) ==
  \/ Start(c) \/ GuardProceeds(c) \/ GuardBreaksContract(c) \/ GuardDenies(c)
  \/ GuardDeniesOnThread(c) \/ HaltRecorded(c) \/ GuardGates(c) \/ HaltAnswered(c) \/ ToolReturns(c) \/ ToolRaises(c)
  \/ Deliver(c) \/ Cancel(c)

Quiet(c, s) == ~Pending(s) /\ s.ran = call[c].ran

LEMMA AnswerQuiet ==
  ASSUME NEW r \in CallState, NEW phase \in {"pre", "post"}, NEW answer \in Answers
  PROVE  ~Pending(AfterHaltAnswer(r, phase, answer)) /\ AfterHaltAnswer(r, phase, answer).ran = r.ran
<1>1. Recorded(r) \in CallState /\ Recorded(r).ran = r.ran
  BY UpdatesTyped DEF Recorded, CallState
<1>2. ASSUME NEW q \in CallState
      PROVE  /\ NextGuard(q, phase).pc = phase /\ NextGuard(q, phase).ran = q.ran
             /\ \A reply \in Replies : Return(q, reply).pc = "done" /\ Return(q, reply).ran = q.ran
  BY DEF NextGuard, Return, CallState
<1>3. CASE answer = "yes"
  BY <1>1, <1>2, <1>3 DEF AfterHaltAnswer, Pending
<1>4. CASE answer = "no"
  BY <1>1, <1>2, <1>4 DEF AfterHaltAnswer, Pending
<1>5. CASE answer = "raises"
  BY <1>2, <1>5 DEF AfterHaltAnswer, Pending
<1>6. QED BY <1>3, <1>4, <1>5

LEMMA QuietActions ==
  ASSUME TypeOK, NEW c \in Calls, QuietAction(c)
  PROVE  /\ \E s : Set(c, s) /\ Quiet(c, s)
         /\ facts'.toolCalls = facts.toolCalls
<1> DEFINE r == call[c]
           h == [r EXCEPT !.halts = @ + 1]
<1>1. r \in CallState /\ h \in CallState /\ h.pc = r.pc /\ h.ran = r.ran
      /\ Recorded(h) \in CallState /\ Recorded(h).ran = r.ran
  <2>1. r \in CallState /\ h \in CallState
    BY UpdatesTyped DEF TypeOK
  <2>2. h.pc = r.pc /\ h.ran = r.ran
    BY <2>1 DEF CallState
  <2> HIDE DEF h
  <2>3. Recorded(h) \in CallState /\ Recorded(h).ran = h.ran
    BY <2>1, UpdatesTyped DEF Recorded, CallState
  <2>4. QED BY <2>1, <2>2, <2>3
<1>2. ASSUME NEW q \in CallState, NEW reply \in Replies
      PROVE  ~Pending(Return(q, reply)) /\ Return(q, reply).ran = q.ran
  BY DEF Pending, Return, CallState
<1>3. /\ [facts EXCEPT !.denials = @ + 1].toolCalls = facts.toolCalls
      /\ [facts EXCEPT !.approvals = @ + 1].toolCalls = facts.toolCalls
      /\ [facts EXCEPT !.errors = @ + 1].toolCalls = facts.toolCalls
  BY DEF TypeOK, RunFacts
<1>4. CASE Start(c)
  <2>1. Quiet(c, [r EXCEPT !.pc = "pre"])
    BY <1>1 DEF Quiet, Pending, CallState
  <2>2. QED BY <1>4, <2>1 DEF Start
<1>5. CASE GuardProceeds(c)
  <2>1. PICK a \in Args : Set(c, NextGuard([r EXCEPT !.args = a], r.pc))
    BY <1>5 DEF GuardProceeds
  <2>2. r.pc \in {"pre", "post"}
    BY <1>5 DEF GuardProceeds, AtGuard
  <2>3. Quiet(c, NextGuard([r EXCEPT !.args = a], r.pc))
    BY <1>1, <2>2 DEF NextGuard, Quiet, Pending, CallState
  <2>4. QED BY <1>5, <2>1, <2>3 DEF GuardProceeds
<1>6. CASE GuardBreaksContract(c)
  BY <1>1, <1>2, <1>6 DEF GuardBreaksContract, Quiet
<1>7. CASE GuardDenies(c)
  <2>1. Set(c, Return(Recorded(h), "refused"))
    BY <1>7 DEF GuardDenies
  <2> HIDE DEF h
  <2>2. Quiet(c, Return(Recorded(h), "refused"))
    BY <1>1, <1>2 DEF Quiet
  <2>3. QED BY <1>3, <1>7, <2>1, <2>2 DEF GuardDenies
<1>8. CASE GuardGates(c)
  <2> DEFINE w == [h EXCEPT !.pc = IF r.pc = "pre" THEN "preWait" ELSE "postWait"]
  <2>1. \/ Set(c, Return(Recorded(h), "refused"))
        \/ \E answer \in Answers : Set(c, AfterHaltAnswer(h, r.pc, answer))
        \/ Set(c, w)
    BY <1>8 DEF GuardGates
  <2>2. r.pc \in {"pre", "post"}
    BY <1>8 DEF GuardGates, AtGuard
  <2> HIDE DEF h, r
  <2>3. ~Pending(w) /\ w.ran = h.ran
    BY <1>1 DEF Pending, CallState
  <2> HIDE DEF w
  <2>4. ~Pending(Return(Recorded(h), "refused")) /\ Return(Recorded(h), "refused").ran = r.ran
    BY <1>1, <1>2
  <2>5. \A answer \in Answers :
          /\ ~Pending(AfterHaltAnswer(h, r.pc, answer))
          /\ AfterHaltAnswer(h, r.pc, answer).ran = r.ran
    BY <1>1, <2>2, AnswerQuiet
  <2>6. \E s : Set(c, s) /\ ~Pending(s) /\ s.ran = r.ran
    BY <1>1, <2>1, <2>3, <2>4, <2>5
  <2>7. QED BY <1>3, <1>8, <2>6 DEF GuardGates, Quiet, r
<1>9. CASE HaltAnswered(c)
  <2> DEFINE phase == IF r.pc = "preWait" THEN "pre" ELSE "post"
  <2>1. PICK answer \in Answers : Set(c, AfterHaltAnswer(r, phase, answer))
    BY <1>9 DEF HaltAnswered
  <2>2. Quiet(c, AfterHaltAnswer(r, phase, answer))
    BY <1>1, AnswerQuiet DEF Quiet
  <2>3. QED BY <1>9, <2>1, <2>2 DEF HaltAnswered
<1>10. CASE ToolReturns(c)
  <2>1. Quiet(c, [r EXCEPT !.pc = "post", !.gi = 1, !.ok = TRUE])
    BY <1>1 DEF Quiet, Pending, CallState
  <2>2. QED BY <1>10, <2>1 DEF ToolReturns
<1>11. CASE ToolRaises(c)
  <2>1. Quiet(c, [r EXCEPT !.pc = "post", !.gi = 1])
    BY <1>1 DEF Quiet, Pending, CallState
  <2>2. QED BY <1>3, <1>11, <2>1 DEF ToolRaises
<1>12. CASE Deliver(c)
  BY <1>1, <1>2, <1>12 DEF Deliver, Quiet
<1>13. CASE Cancel(c)
  BY <1>1, <1>2, <1>13 DEF Cancel, Quiet
<1>14. CASE GuardDeniesOnThread(c)
  <2>1. Quiet(c, [r EXCEPT !.pc = "halted", !.halts = @ + 1])
    BY <1>1 DEF Quiet, Pending, CallState
  <2>2. QED BY <1>3, <1>14, <2>1 DEF GuardDeniesOnThread
<1>15. CASE HaltRecorded(c)
  <2>1. Recorded(r) \in CallState /\ Recorded(r).ran = r.ran
    BY <1>1, UpdatesTyped DEF Recorded, CallState
  <2>2. Quiet(c, Return(Recorded(r), "refused"))
    BY <1>2, <2>1 DEF Quiet
  <2>3. QED BY <1>15, <2>2 DEF HaltRecorded
<1>16. QED BY <1>4, <1>5, <1>6, <1>7, <1>8, <1>9, <1>10, <1>11, <1>12, <1>13, <1>14, <1>15
          DEF QuietAction

\* Every step is quiet, decides, or dispatches a call the handler approved.
LEMMA StepKinds ==
  ASSUME [Next]_vars
  PROVE  \/ UNCHANGED vars
         \/ \E c \in Calls : \/ QuietAction(c) \/ DecideOnLoop(c) \/ DecideOnThread(c)
                             \/ ThreadActs(c) \/ PolicyGateAnswered(c)
BY DEF Next, Step, QuietAction

\* The overshoot of OvershootBounded, inductive together with the fan-out.
LEMMA OvershootNext ==
  TypeOK /\ ClearanceInv /\ FanOut /\ OvershootBounded /\ [Next]_vars
    => FanOut' /\ OvershootBounded'
<1> SUFFICES ASSUME TypeOK, ClearanceInv, FanOut, OvershootBounded, [Next]_vars
             PROVE  FanOut' /\ OvershootBounded'
  OBVIOUS
<1>0. facts.toolCalls \in Nat
  BY DEF TypeOK, RunFacts
<1>1. ASSUME NEW c \in Calls, QuietAction(c) PROVE FanOut' /\ OvershootBounded'
  <2>1. PICK s : Set(c, s) /\ ~Pending(s)
    BY <1>1, QuietActions DEF Quiet
  <2>2. OvershootBounded'
    BY <1>1, <2>1, QuietActions, QuietStep
  <2>3. CASE c \in InFlight
    BY <2>1, <2>2, <2>3, FanOutStep
  <2>4. CASE c \notin InFlight
    <3>1. Start(c)
      BY <1>1, <2>4 DEF InFlight, QuietAction, GuardProceeds, GuardBreaksContract, GuardDenies,
         GuardDeniesOnThread, HaltRecorded, GuardGates, HaltAnswered, ToolReturns, ToolRaises, Deliver, Cancel, AtGuard
    <3>2. Cardinality(InFlight) < MaxParallel
      BY <3>1 DEF Start
    <3>3. InFlight' = InFlight \cup {c} \/ InFlight' = InFlight \ {c}
      BY <2>1, SetsAfter
    <3>4. /\ Cardinality(InFlight \cup {c}) <= Cardinality(InFlight \ {c}) + 1
          /\ Cardinality(InFlight \ {c}) <= Cardinality(InFlight)
          /\ Cardinality(InFlight \cup {c}) \in Nat /\ Cardinality(InFlight \ {c}) \in Nat
      BY FiniteSets, OneCall
    <3>5. Cardinality(InFlight') <= MaxParallel
      <4>1. Cardinality(InFlight \cup {c}) <= MaxParallel
        BY <3>2, <3>4, FiniteSets
      <4>2. Cardinality(InFlight \ {c}) <= MaxParallel
        BY <3>2, <3>4, FiniteSets
      <4>3. QED BY <3>3, <4>1, <4>2
    <3>6. QED BY <2>2, <3>5 DEF FanOut
  <2>5. QED BY <2>3, <2>4
\* What a decision taken now leaves room for.
<1>2. ASSUME NEW c \in Calls, c \in InFlight, facts.toolCalls < Cap
      PROVE  facts.toolCalls + Cardinality(Uncounted \ {c}) <= Cap + MaxParallel - 2
  <2>1. Uncounted \ {c} \subseteq InFlight \ {c}
    BY DEF Uncounted, InFlight
  <2>2. Cardinality(InFlight \ {c}) = Cardinality(InFlight) - 1
    BY <1>2, FiniteSets, OneCall
  <2>3. Cardinality(Uncounted \ {c}) <= Cardinality(InFlight \ {c})
    BY <2>1, FiniteSets, OneCall, FS_Subset
  <2>4. Cardinality(Uncounted \ {c}) \in Nat
    BY FiniteSets, OneCall
  <2>5. QED BY <1>0, <1>2, <2>2, <2>3, <2>4, FiniteSets DEF FanOut
<1>3. ASSUME NEW c \in Calls, DecideOnLoop(c) PROVE FanOut' /\ OvershootBounded'
  <2>1. c \in InFlight
    BY <1>3 DEF DecideOnLoop, ReadyToDecide, InFlight
  <2>2. PolicyVerdict(call[c].args) # "deny" => facts.toolCalls < Cap
    BY DEF PolicyVerdict
  <2>3. OvershootBounded' /\ \E s : Set(c, s)
    BY <1>2, <1>3, <2>1, <2>2, VerdictTyped, ActBounded DEF DecideOnLoop
  <2>4. QED BY <2>1, <2>3, FanOutStep
<1>4. ASSUME NEW c \in Calls, DecideOnThread(c) PROVE FanOut' /\ OvershootBounded'
  <2> DEFINE s == [call[c] EXCEPT !.pc = "decided", !.verdict = PolicyVerdict(call[c].args)]
  <2>1. c \in InFlight /\ Set(c, s) /\ facts' = facts
    BY <1>4 DEF DecideOnThread, Decided, ReadyToDecide, InFlight
  <2>2. s.pc = "decided" /\ s.verdict = PolicyVerdict(call[c].args)
    BY DEF TypeOK, CallState
  <2> HIDE DEF s
  <2>3. CASE ~Pending(s)
    BY <2>1, <2>3, QuietStep, FanOutStep
  <2>4. CASE Pending(s)
    <3>1. facts.toolCalls < Cap
      BY <2>2, <2>4 DEF Pending, PolicyVerdict
    <3>2. Uncounted' = Uncounted \cup {c}
      BY <2>1, <2>4, SetsAfter
    <3>3. Cardinality(Uncounted \cup {c}) <= Cardinality(Uncounted \ {c}) + 1
          /\ Cardinality(Uncounted \cup {c}) \in Nat /\ Cardinality(Uncounted \ {c}) \in Nat
      BY FiniteSets, OneCall
    <3>4. facts.toolCalls + Cardinality(Uncounted \ {c}) <= Cap + MaxParallel - 2
      BY <1>2, <2>1, <3>1
    <3>5. facts.toolCalls + Cardinality(Uncounted \cup {c}) <= Cap + MaxParallel - 1
      BY <1>0, <3>3, <3>4
    <3>6. OvershootBounded'
      BY <2>1, <3>2, <3>5 DEF OvershootBounded
    <3>7. QED BY <2>1, <3>6, FanOutStep
  <2>5. QED BY <2>3, <2>4
\* A pending call that acts only moves from one side of the sum to the other.
<1>5. ASSUME NEW c \in Uncounted
      PROVE  facts.toolCalls + Cardinality(Uncounted \ {c}) <= Cap + MaxParallel - 2
  <2>1. Cardinality(Uncounted \ {c}) = Cardinality(Uncounted) - 1
    BY FiniteSets, OneCall
  <2>2. QED BY <1>0, <2>1, FiniteSets DEF OvershootBounded
<1>6. ASSUME NEW c \in Calls, ThreadActs(c) PROVE FanOut' /\ OvershootBounded'
  <2>1. c \in InFlight /\ call[c].verdict \in Verdicts
    BY <1>6 DEF ThreadActs, InFlight, ActOnVerdict
  <2>2. call[c].verdict # "deny" => c \in Uncounted
    BY <1>6 DEF ThreadActs, Uncounted
  <2>3. OvershootBounded' /\ \E s : Set(c, s)
    BY <1>5, <1>6, <2>1, <2>2, ActBounded DEF ThreadActs
  <2>4. QED BY <2>1, <2>3, FanOutStep
<1>7. ASSUME NEW c \in Calls, PolicyGateAnswered(c) PROVE FanOut' /\ OvershootBounded'
  <2> DEFINE s == Dispatch([call[c] EXCEPT !.approved = TRUE])
  <2>1. c \in InFlight
    BY <1>7 DEF PolicyGateAnswered, InFlight
  <2>2. \A reply \in Replies : ~Pending(Return(call[c], reply))
    BY DEF Pending, Return, TypeOK, CallState
  <2>3. CASE (\E reply \in Replies : Set(c, Return(call[c], reply))) /\ facts' = facts
    BY <2>1, <2>2, <2>3, QuietStep, FanOutStep
  <2>4. CASE Set(c, s) /\ facts'.toolCalls = facts.toolCalls + 1
    <3>1. ~Pending(s)
      BY DEF Dispatch, Pending, TypeOK, CallState
    <3> HIDE DEF s
    <3>2. Uncounted' = Uncounted \ {c}
      BY <2>4, <3>1, SetsAfter
    <3>3. c \in Uncounted
      BY <1>7 DEF PolicyGateAnswered, Uncounted, ClearanceInv
    <3>4. facts.toolCalls + Cardinality(Uncounted \ {c}) <= Cap + MaxParallel - 2
          /\ Cardinality(Uncounted \ {c}) \in Nat
      BY <1>5, <3>3, FiniteSets, OneCall
    <3>5. facts.toolCalls + 1 + Cardinality(Uncounted \ {c}) <= Cap + MaxParallel - 1
      BY <1>0, <3>4
    <3>6. OvershootBounded'
      BY <2>4, <3>2, <3>5 DEF OvershootBounded
    <3>7. QED BY <2>1, <2>4, <3>6, FanOutStep
  <2>5. [facts EXCEPT !.toolCalls = @ + 1].toolCalls = facts.toolCalls + 1
    BY DEF TypeOK, RunFacts
  <2>6. QED BY <1>7, <2>3, <2>4, <2>5 DEF PolicyGateAnswered
<1>8. CASE UNCHANGED vars
  BY <1>8 DEF vars, FanOut, OvershootBounded, InFlight, Uncounted
<1>9. QED BY <1>1, <1>3, <1>4, <1>6, <1>7, <1>8, StepKinds

\* However long approvals take and however threads interleave, executions and
\* pending executions never exceed the cap by more than the fan-out less one.
THEOREM OvershootIsFanOut == Spec => []OvershootBounded
<1>1. Init => FanOut /\ OvershootBounded
  <2> SUFFICES ASSUME Init PROVE FanOut /\ OvershootBounded
    OBVIOUS
  <2>1. \A c \in Calls : call[c].pc = "new"
    BY DEF Init
  <2>2. InFlight = {} /\ Uncounted = {}
    BY <2>1 DEF InFlight, Uncounted
  <2>3. QED BY <2>2, FS_EmptySet DEF Init, FanOut, OvershootBounded
<1>2. QED BY <1>1, OvershootNext, TypeCorrect, ClearanceAlways, PTL DEF Spec

\* On an event loop with no suspending handler the cap is exact: a decision
\* taken under the cap is counted in the same step.
THEOREM CapExactOnLoop == Spec => []CapExact
<1>1. Init => CapExact
  BY DEF Init, CapExact
<1>2. TypeOK /\ ClearanceInv /\ CapExact /\ [Next]_vars => CapExact'
  <2> SUFFICES ASSUME TypeOK, ClearanceInv, CapExact, [Next]_vars,
                      ~Threaded, Handler # "suspending"
               PROVE  facts'.toolCalls <= Cap
    BY DEF CapExact
  <2>0. facts.toolCalls \in Nat /\ facts.toolCalls <= Cap
    BY DEF CapExact, TypeOK, RunFacts
  <2>1. ASSUME NEW c \in Calls, QuietAction(c) PROVE facts'.toolCalls <= Cap
    BY <2>0, <2>1, QuietActions
  <2>2. ASSUME NEW c \in Calls, DecideOnLoop(c) PROVE facts'.toolCalls <= Cap
    <3>1. PolicyVerdict(call[c].args) # "deny" => facts.toolCalls < Cap
      BY DEF PolicyVerdict
    <3>2. /\ [facts EXCEPT !.denials = @ + 1].toolCalls = facts.toolCalls
          /\ [facts EXCEPT !.approvals = @ + 1].toolCalls = facts.toolCalls
          /\ [facts EXCEPT !.toolCalls = @ + 1].toolCalls = facts.toolCalls + 1
          /\ [facts EXCEPT !.approvals = @ + 1, !.toolCalls = @ + 1].toolCalls
               = facts.toolCalls + 1
      BY DEF TypeOK, RunFacts
    <3>3. facts'.toolCalls = facts.toolCalls
          \/ /\ facts'.toolCalls = facts.toolCalls + 1
             /\ PolicyVerdict(call[c].args) # "deny"
      BY <2>2, <3>2 DEF DecideOnLoop, ActOnVerdict
    <3>4. QED BY <2>0, <3>1, <3>3
  <2>3. ASSUME NEW c \in Calls,
               DecideOnThread(c) \/ ThreadActs(c) \/ PolicyGateAnswered(c)
        PROVE  facts'.toolCalls <= Cap
    BY <2>3 DEF ClearanceInv, GatePauses, DecideOnThread, ThreadActs, PolicyGateAnswered
  <2>4. CASE UNCHANGED vars
    BY <2>0, <2>4 DEF vars
  <2>5. QED BY <2>1, <2>2, <2>3, <2>4, StepKinds
<1>3. QED BY <1>1, <1>2, TypeCorrect, ClearanceAlways, PTL DEF Spec

-----------------------------------------------------------------------------
(* The counters and the audit trail.                                       *)

\* Whoever is halted and has had its answer has its row; the one row that can
\* be missing is that of a call that ended while its halt was open.
Trail(r) ==
  IF r.pc \in {"preWait", "postWait", "halted"} THEN r.halts = r.haltRows + 1
  ELSE \/ r.haltRows = r.halts
       \/ /\ r.pc = "done" /\ r.reply \in {"raised", "cancelled"}
          /\ r.halts = r.haltRows + 1

TrailInv == DenialsAudited /\ \A c \in Calls : Trail(call[c])

\* A denial of one call that is recorded and not counted, or counted and not
\* recorded.
Refuses(r) == r.pc = "decided" /\ r.verdict = "deny"
Halts(r)   == r.pc = "halted"

One(b) == IF b THEN 1 ELSE 0

\* What the step of c to s adds to the two sides of DenialsAudited.
Balanced(c, s) ==
    (facts'.denials - facts.denials) + (One(Refuses(s)) - One(Refuses(call[c])))
  = (denyRows' - denyRows) + (One(Halts(s)) - One(Halts(call[c])))

\* The tool of call c is counted in the step that starts it.
Counts(c, s) ==
  \/ s.ran = call[c].ran /\ facts'.toolCalls = facts.toolCalls
  \/ s.ran /\ ~call[c].ran /\ facts'.toolCalls = facts.toolCalls + 1

LEMMA TrailTells ==
  ASSUME TypeOK, TrailInv
  PROVE  AuditAgrees
<1> SUFFICES ASSUME NEW c \in Calls
             PROVE  /\ call[c].haltRows <= call[c].halts
                    /\ call[c].pc \notin {"preWait", "postWait", "halted"} =>
                         \/ call[c].haltRows = call[c].halts
                         \/ /\ call[c].reply \in {"raised", "cancelled"}
                            /\ call[c].haltRows + 1 = call[c].halts
  BY DEF TrailInv, AuditAgrees, AnsweredHaltsAudited
<1>1. call[c].haltRows \in Nat /\ call[c].halts \in Nat
  BY DEF TypeOK, CallState
<1>2. Trail(call[c])
  BY DEF TrailInv
<1>3. QED BY <1>1, <1>2 DEF Trail

\* What the updates of a call leave of its trail.
LEMMA TrailUpdates ==
  ASSUME NEW r \in CallState
  PROVE  /\ r.haltRows = r.halts =>
              /\ \A reply \in Replies : Trail(Return(r, reply))
              /\ Trail(Dispatch(r))
              /\ \A phase \in {"pre", "post"} : Trail(NextGuard(r, phase))
         /\ r.halts = r.haltRows + 1 =>
              /\ Recorded(r).haltRows = Recorded(r).halts
              /\ \A reply \in {"raised", "cancelled"} : Trail(Return(r, reply))
<1>1. ASSUME NEW reply \in Replies
      PROVE  /\ Return(r, reply).pc = "done" /\ Return(r, reply).reply = reply
             /\ Return(r, reply).halts = r.halts /\ Return(r, reply).haltRows = r.haltRows
  BY DEF Return, CallState
<1>2. Dispatch(r).pc = "running" /\ Dispatch(r).halts = r.halts /\ Dispatch(r).haltRows = r.haltRows
  BY DEF Dispatch, CallState
<1>3. ASSUME NEW phase \in {"pre", "post"}
      PROVE  /\ NextGuard(r, phase).pc = phase /\ NextGuard(r, phase).halts = r.halts
             /\ NextGuard(r, phase).haltRows = r.haltRows
  BY DEF NextGuard, CallState
<1>4. Recorded(r).haltRows = r.haltRows + 1 /\ Recorded(r).halts = r.halts
  BY DEF Recorded, CallState
<1>5. QED BY <1>1, <1>2, <1>3, <1>4 DEF Trail

LEMMA TrailAnswer ==
  ASSUME NEW r \in CallState, NEW phase \in {"pre", "post"}, NEW answer \in Answers,
         r.halts = r.haltRows + 1
  PROVE  Trail(AfterHaltAnswer(r, phase, answer))
<1>1. Recorded(r) \in CallState /\ Recorded(r).haltRows = Recorded(r).halts
  BY UpdatesTyped, TrailUpdates
<1>2. CASE answer = "yes"
  BY <1>1, <1>2, TrailUpdates DEF AfterHaltAnswer
<1>3. CASE answer = "no"
  BY <1>1, <1>3, TrailUpdates DEF AfterHaltAnswer
<1>4. CASE answer = "raises"
  BY <1>4, TrailUpdates DEF AfterHaltAnswer
<1>5. QED BY <1>2, <1>3, <1>4

\* A halt opens a gap of one row.
LEMMA HaltOpens ==
  ASSUME NEW r \in CallState, r.haltRows = r.halts
  PROVE  /\ [r EXCEPT !.halts = @ + 1] \in CallState
         /\ [r EXCEPT !.halts = @ + 1].halts = [r EXCEPT !.halts = @ + 1].haltRows + 1
         /\ [r EXCEPT !.halts = @ + 1].pc = r.pc
BY UpdatesTyped DEF CallState

\* Each of two sets of calls changes in the one call that moved.
LEMMA OwedAfter ==
  ASSUME TypeOK, NEW c \in Calls, NEW s, Set(c, s)
  PROVE  /\ Cardinality(Refusing) \in Nat /\ Cardinality(Halting) \in Nat
         /\ Cardinality(Refusing')
              = Cardinality(Refusing) + (One(Refuses(s)) - One(Refuses(call[c])))
         /\ Cardinality(Halting')
              = Cardinality(Halting) + (One(Halts(s)) - One(Halts(call[c])))
<1>1. Refusing = {d \in Calls : Refuses(call[d])} /\ Halting = {d \in Calls : Halts(call[d])}
  BY DEF Refusing, Halting, Refuses, Halts
<1>2. /\ Refusing' = {d \in Calls : Refuses(call'[d])}
      /\ Halting' = {d \in Calls : Halts(call'[d])}
  BY DEF Refusing, Halting, Refuses, Halts
<1>3. call'[c] = s /\ \A d \in Calls : d # c => call'[d] = call[d]
  BY OtherCallsKept
<1>4. Refusing' = IF Refuses(s) THEN Refusing \cup {c} ELSE Refusing \ {c}
  BY <1>1, <1>2, <1>3
<1>5. Halting' = IF Halts(s) THEN Halting \cup {c} ELSE Halting \ {c}
  BY <1>1, <1>2, <1>3
<1>6. IsFiniteSet(Refusing) /\ IsFiniteSet(Halting)
  BY <1>1, FS_Subset
<1>7. ASSUME NEW S, IsFiniteSet(S)
      PROVE  /\ Cardinality(S) \in Nat
             /\ Cardinality(S \cup {c}) = Cardinality(S) + 1 - One(c \in S)
             /\ Cardinality(S \ {c}) = Cardinality(S) - One(c \in S)
  BY <1>7, FS_AddElement, FS_RemoveElement, FS_CardinalityType DEF One
<1>8. (c \in Refusing <=> Refuses(call[c])) /\ (c \in Halting <=> Halts(call[c]))
  BY <1>1
<1>9. Cardinality(Refusing')
        = Cardinality(Refusing) + (One(Refuses(s)) - One(Refuses(call[c])))
  <2>1. /\ Cardinality(Refusing) \in Nat
        /\ Cardinality(Refusing \cup {c}) = Cardinality(Refusing) + 1 - One(c \in Refusing)
        /\ Cardinality(Refusing \ {c}) = Cardinality(Refusing) - One(c \in Refusing)
    BY <1>6, <1>7
  <2>2. CASE Refuses(s)
    BY <1>4, <1>8, <2>1, <2>2 DEF One
  <2>3. CASE ~Refuses(s)
    BY <1>4, <1>8, <2>1, <2>3 DEF One
  <2>4. QED BY <2>2, <2>3
<1>10. Cardinality(Halting')
         = Cardinality(Halting) + (One(Halts(s)) - One(Halts(call[c])))
  <2>1. /\ Cardinality(Halting) \in Nat
        /\ Cardinality(Halting \cup {c}) = Cardinality(Halting) + 1 - One(c \in Halting)
        /\ Cardinality(Halting \ {c}) = Cardinality(Halting) - One(c \in Halting)
    BY <1>6, <1>7
  <2>2. CASE Halts(s)
    BY <1>5, <1>8, <2>1, <2>2 DEF One
  <2>3. CASE ~Halts(s)
    BY <1>5, <1>8, <2>1, <2>3 DEF One
  <2>4. QED BY <2>2, <2>3
<1>11. QED BY <1>6, <1>7, <1>9, <1>10

\* A step that adds the same to the denials and to the rows, counting those
\* still owed on either side, keeps them in agreement.
LEMMA BalanceKept ==
  ASSUME TypeOK, TypeOK', DenialsAudited, NEW c \in Calls, NEW s, Set(c, s), Balanced(c, s)
  PROVE  DenialsAudited'
<1>1. /\ facts.denials \in Nat /\ denyRows \in Nat
      /\ facts'.denials \in Nat /\ denyRows' \in Nat
  BY DEF TypeOK, RunFacts
<1>2. /\ One(Refuses(s)) \in Nat /\ One(Refuses(call[c])) \in Nat
      /\ One(Halts(s)) \in Nat /\ One(Halts(call[c])) \in Nat
  BY DEF One
<1>3. facts'.denials + Cardinality(Refusing') = denyRows' + Cardinality(Halting')
  BY <1>1, <1>2, OwedAfter DEF DenialsAudited, Balanced
<1>4. QED BY <1>3 DEF DenialsAudited

\* Neither before nor after such a step does the call owe a count or a record.
LEMMA SettledStep ==
  ASSUME TypeOK, NEW c \in Calls, NEW s,
         call[c].pc \notin {"decided", "halted"}, s.pc \notin {"decided", "halted"},
         \/ facts'.denials = facts.denials /\ denyRows' = denyRows
         \/ facts'.denials = facts.denials + 1 /\ denyRows' = denyRows + 1
  PROVE  Balanced(c, s)
<1>1. ~Refuses(s) /\ ~Refuses(call[c]) /\ ~Halts(s) /\ ~Halts(call[c])
  BY DEF Refuses, Halts
<1>2. facts.denials \in Nat /\ denyRows \in Nat
  BY DEF TypeOK, RunFacts
<1>3. QED BY <1>1, <1>2 DEF Balanced, One

LEMMA CounterUpdates ==
  ASSUME NEW f \in RunFacts
  PROVE  /\ [f EXCEPT !.denials = @ + 1].denials = f.denials + 1
         /\ [f EXCEPT !.denials = @ + 1].toolCalls = f.toolCalls
         /\ [f EXCEPT !.approvals = @ + 1].denials = f.denials
         /\ [f EXCEPT !.approvals = @ + 1].toolCalls = f.toolCalls
         /\ [f EXCEPT !.errors = @ + 1].denials = f.denials
         /\ [f EXCEPT !.toolCalls = @ + 1].denials = f.denials
         /\ [f EXCEPT !.toolCalls = @ + 1].toolCalls = f.toolCalls + 1
         /\ [f EXCEPT !.approvals = @ + 1, !.toolCalls = @ + 1].denials = f.denials
         /\ [f EXCEPT !.approvals = @ + 1, !.toolCalls = @ + 1].toolCalls = f.toolCalls + 1
BY DEF RunFacts

\* A call whose halts are all recorded keeps its trail when the verdict of the
\* policy is acted on, and is counted if it is dispatched.
LEMMA ActAudited ==
  ASSUME TypeOK, NEW c \in Calls, NEW v \in Verdicts, ActOnVerdict(c, v),
         ~call[c].ran, call[c].haltRows = call[c].halts
  PROVE  /\ facts'.denials = facts.denials + One(v = "deny")
         /\ \E s : /\ Set(c, s) /\ Trail(s) /\ Counts(c, s)
                   /\ s.pc \notin {"decided", "halted"}
<1> DEFINE r == [call[c] EXCEPT !.verdict = v]
           a == [r EXCEPT !.approved = TRUE]
           w == [r EXCEPT !.pc = "policyWait"]
<1>1. /\ r \in CallState /\ r.haltRows = r.halts /\ r.ran = FALSE
      /\ a \in CallState /\ a.haltRows = a.halts /\ a.ran = FALSE
      /\ w.pc = "policyWait" /\ w.haltRows = w.halts /\ w.ran = FALSE
  <2>1. r \in CallState /\ r.haltRows = r.halts /\ r.ran = FALSE
    BY DEF TypeOK, CallState
  <2> HIDE DEF r
  <2>2. a \in CallState /\ a.haltRows = a.halts /\ a.ran = FALSE
    BY <2>1 DEF CallState
  <2>3. w.pc = "policyWait" /\ w.haltRows = w.halts /\ w.ran = FALSE
    BY <2>1 DEF CallState
  <2>4. QED BY <2>1, <2>2, <2>3
<1>2. \/ /\ Set(c, Dispatch(r)) \/ Set(c, Dispatch(a))
         /\ facts' \in {[facts EXCEPT !.toolCalls = @ + 1],
                        [facts EXCEPT !.approvals = @ + 1, !.toolCalls = @ + 1]}
         /\ v # "deny"
      \/ /\ Set(c, Return(r, "refused"))
         /\ facts' = [facts EXCEPT !.denials = @ + 1]
         /\ v = "deny"
      \/ /\ Set(c, w) \/ \E reply \in Replies : Set(c, Return(r, reply))
         /\ facts' = [facts EXCEPT !.approvals = @ + 1]
         /\ v # "deny"
  BY DEF ActOnVerdict
<1> HIDE DEF r, a, w
<1>3. call[c].ran = FALSE /\ facts \in RunFacts /\ facts.denials \in Nat
  BY DEF TypeOK, CallState, RunFacts
<1>4. /\ Dispatch(r).ran = TRUE /\ Dispatch(a).ran = TRUE
      /\ Dispatch(r).pc = "running" /\ Dispatch(a).pc = "running"
      /\ \A reply \in Replies : Return(r, reply).ran = FALSE /\ Return(r, reply).pc = "done"
  BY <1>1 DEF Dispatch, Return, CallState
<1>5. /\ Trail(Dispatch(r)) /\ Trail(Dispatch(a)) /\ Trail(w)
      /\ \A reply \in Replies : Trail(Return(r, reply))
  BY <1>1, TrailUpdates DEF Trail
<1>6. facts'.denials = facts.denials + One(v = "deny")
  <2>1. CASE v = "deny"
    BY <1>2, <1>3, <2>1, CounterUpdates DEF One
  <2>2. CASE v # "deny"
    <3>1. facts'.denials = facts.denials
      BY <1>2, <1>3, <2>2, CounterUpdates
    <3>2. QED BY <1>3, <2>2, <3>1 DEF One
  <2>3. QED BY <2>1, <2>2
<1>7. \E s : Set(c, s) /\ Trail(s) /\ Counts(c, s) /\ s.pc \notin {"decided", "halted"}
  <2>1. CASE /\ Set(c, Dispatch(r)) \/ Set(c, Dispatch(a))
             /\ facts'.toolCalls = facts.toolCalls + 1
    BY <1>3, <1>4, <1>5, <2>1 DEF Counts
  <2>2. CASE /\ Set(c, w) \/ \E reply \in Replies : Set(c, Return(r, reply))
             /\ facts'.toolCalls = facts.toolCalls
    BY <1>1, <1>3, <1>4, <1>5, <2>2 DEF Counts
  <2>3. QED BY <1>2, <1>3, <2>1, <2>2, CounterUpdates
<1>8. QED BY <1>6, <1>7

\* The places an answer leaves a call in.
LEMMA AnswerPlaces ==
  ASSUME NEW r \in CallState, NEW phase \in {"pre", "post"}, NEW answer \in Answers
  PROVE  AfterHaltAnswer(r, phase, answer).pc \notin {"decided", "halted"}
<1>1. Recorded(r) \in CallState
  BY UpdatesTyped
<1>2. ASSUME NEW q \in CallState
      PROVE  /\ NextGuard(q, phase).pc = phase
             /\ \A reply \in Replies : Return(q, reply).pc = "done"
  BY DEF NextGuard, Return, CallState
<1>3. CASE answer = "yes"
  BY <1>1, <1>2, <1>3 DEF AfterHaltAnswer
<1>4. CASE answer = "no"
  BY <1>1, <1>2, <1>4 DEF AfterHaltAnswer
<1>5. CASE answer = "raises"
  BY <1>2, <1>5 DEF AfterHaltAnswer
<1>6. QED BY <1>3, <1>4, <1>5

\* One row per answered halt, and one DENY row per denial, in every quiet step:
\* at once, or owed by the call that denies on a thread.
LEMMA QuietAudited ==
  ASSUME TypeOK, TrailInv, NEW c \in Calls, QuietAction(c)
  PROVE  \E s : Set(c, s) /\ Trail(s) /\ Balanced(c, s)
<1> DEFINE r == call[c]
           h == [r EXCEPT !.halts = @ + 1]
           Settled == r.pc \notin {"decided", "halted"}
           Alike == facts'.denials = facts.denials /\ denyRows' = denyRows
<1>1. r \in CallState /\ Trail(r) /\ facts \in RunFacts /\ facts.denials \in Nat /\ denyRows \in Nat
  BY DEF TypeOK, TrailInv, RunFacts
<1>2. r.pc \notin {"preWait", "postWait", "halted", "done"} => r.haltRows = r.halts
  BY <1>1 DEF Trail
<1>3. AtGuard(c) => /\ r.pc \in {"pre", "post"} /\ r.haltRows = r.halts /\ h \in CallState
                    /\ h.halts = h.haltRows + 1 /\ h.pc = r.pc
  BY <1>1, <1>2, HaltOpens DEF AtGuard
<1>0. ASSUME NEW s, Settled, Alike, s.pc \notin {"decided", "halted"}
      PROVE  Balanced(c, s)
  BY <1>0, SettledStep
<1>a. ASSUME NEW q \in CallState, NEW reply \in Replies
      PROVE  Return(q, reply).pc = "done"
  BY DEF Return, CallState
<1> HIDE DEF h
<1>4. CASE Start(c)
  <2> DEFINE s == [r EXCEPT !.pc = "pre"]
  <2>1. Trail(s) /\ s.pc = "pre"
    BY <1>1, <1>2, <1>4 DEF Start, Trail, CallState
  <2>2. Set(c, s) /\ Settled /\ Alike
    BY <1>4 DEF Start
  <2>3. QED BY <1>0, <2>1, <2>2
<1>5. CASE GuardProceeds(c)
  <2>1. PICK x \in Args : Set(c, NextGuard([r EXCEPT !.args = x], r.pc))
    BY <1>5 DEF GuardProceeds
  <2> DEFINE q == [r EXCEPT !.args = x]
  <2>2. q \in CallState /\ q.haltRows = q.halts /\ r.pc \in {"pre", "post"}
    BY <1>1, <1>3, <1>5 DEF GuardProceeds, CallState
  <2> HIDE DEF q
  <2>3. Trail(NextGuard(q, r.pc))
    BY <2>2, TrailUpdates
  <2>4. NextGuard(q, r.pc).pc = r.pc
    BY <2>2 DEF NextGuard, CallState
  <2>5. Alike
    BY <1>5 DEF GuardProceeds
  <2>6. Balanced(c, NextGuard(q, r.pc))
    BY <1>0, <2>2, <2>4, <2>5
  <2>7. QED BY <2>1, <2>3, <2>6 DEF q
<1>6. CASE GuardBreaksContract(c)
  <2>1. Set(c, Return(r, "raised")) /\ Alike /\ Settled
    BY <1>3, <1>6 DEF GuardBreaksContract
  <2>2. Trail(Return(r, "raised")) /\ Return(r, "raised").pc = "done"
    BY <1>1, <1>3, <1>6, <1>a, TrailUpdates DEF GuardBreaksContract
  <2>3. Balanced(c, Return(r, "raised"))
    BY <1>0, <2>1, <2>2
  <2>4. QED BY <2>1, <2>2, <2>3
<1>7. CASE GuardDenies(c)
  <2> DEFINE s == Return(Recorded(h), "refused")
  <2>1. Set(c, s) /\ Settled
    BY <1>3, <1>7 DEF GuardDenies, h
  <2>2. Recorded(h) \in CallState /\ Recorded(h).haltRows = Recorded(h).halts
    BY <1>3, <1>7, UpdatesTyped, TrailUpdates DEF GuardDenies
  <2>3. Trail(s) /\ s.pc = "done"
    BY <2>2, <1>a, TrailUpdates
  <2>4. facts'.denials = facts.denials + 1 /\ denyRows' = denyRows + 1
    BY <1>1, <1>7, CounterUpdates DEF GuardDenies
  <2>5. Balanced(c, s)
    BY <2>1, <2>3, <2>4, SettledStep
  <2>6. QED BY <2>1, <2>3, <2>5
<1>8. CASE GuardGates(c)
  <2> DEFINE w == [h EXCEPT !.pc = IF r.pc = "pre" THEN "preWait" ELSE "postWait"]
  <2>1. \/ Set(c, Return(Recorded(h), "refused"))
        \/ \E answer \in Answers : Set(c, AfterHaltAnswer(h, r.pc, answer))
        \/ Set(c, w)
    BY <1>8 DEF GuardGates, h
  <2>2. r.pc \in {"pre", "post"} /\ h \in CallState /\ h.halts = h.haltRows + 1
    BY <1>3, <1>8 DEF GuardGates
  <2>3. Trail(w) /\ w.pc \in {"preWait", "postWait"}
    BY <2>2 DEF Trail, CallState
  <2> HIDE DEF w
  <2>4. Recorded(h) \in CallState /\ Trail(Return(Recorded(h), "refused"))
        /\ Return(Recorded(h), "refused").pc = "done"
    BY <2>2, <1>a, UpdatesTyped, TrailUpdates
  <2>5. \A answer \in Answers : Trail(AfterHaltAnswer(h, r.pc, answer))
    BY <2>2, TrailAnswer
  <2>6. \A answer \in Answers : AfterHaltAnswer(h, r.pc, answer).pc \notin {"decided", "halted"}
    BY <2>2, AnswerPlaces
  <2>7. Alike /\ Settled
    BY <1>1, <1>8, <2>2, CounterUpdates DEF GuardGates
  <2>8. QED
    <3>1. CASE Set(c, Return(Recorded(h), "refused"))
      BY <1>0, <2>4, <2>7, <3>1
    <3>2. CASE \E answer \in Answers : Set(c, AfterHaltAnswer(h, r.pc, answer))
      BY <1>0, <2>5, <2>6, <2>7, <3>2
    <3>3. CASE Set(c, w)
      BY <1>0, <2>3, <2>7, <3>3
    <3>4. QED BY <2>1, <3>1, <3>2, <3>3
<1>9. CASE HaltAnswered(c)
  <2> DEFINE phase == IF r.pc = "preWait" THEN "pre" ELSE "post"
  <2>1. PICK answer \in Answers : Set(c, AfterHaltAnswer(r, phase, answer))
    BY <1>9 DEF HaltAnswered
  <2>2. Trail(AfterHaltAnswer(r, phase, answer))
    BY <1>1, <1>9, TrailAnswer DEF HaltAnswered, Trail
  <2>3. AfterHaltAnswer(r, phase, answer).pc \notin {"decided", "halted"}
    BY <1>1, AnswerPlaces
  <2>4. Settled /\ Alike
    BY <1>9 DEF HaltAnswered
  <2> HIDE DEF phase
  <2>5. QED BY <1>0, <2>1, <2>2, <2>3, <2>4
<1>10. CASE ToolReturns(c)
  <2> DEFINE s == [r EXCEPT !.pc = "post", !.gi = 1, !.ok = TRUE]
  <2>1. Trail(s) /\ s.pc = "post"
    BY <1>1, <1>2, <1>10 DEF ToolReturns, Trail, CallState
  <2>2. Set(c, s) /\ Settled /\ Alike
    BY <1>10 DEF ToolReturns
  <2>3. QED BY <1>0, <2>1, <2>2
<1>11. CASE ToolRaises(c)
  <2> DEFINE s == [r EXCEPT !.pc = "post", !.gi = 1]
  <2>1. Trail(s) /\ s.pc = "post"
    BY <1>1, <1>2, <1>11 DEF ToolRaises, Trail, CallState
  <2>2. Set(c, s) /\ Settled /\ Alike
    BY <1>1, <1>11, CounterUpdates DEF ToolRaises
  <2>3. QED BY <1>0, <2>1, <2>2
<1>12. CASE Deliver(c)
  <2>1. PICK reply \in Replies : Set(c, Return(r, reply))
    BY <1>12 DEF Deliver
  <2>2. Trail(Return(r, reply)) /\ Return(r, reply).pc = "done"
    BY <1>1, <1>2, <1>12, <1>a, TrailUpdates DEF Deliver
  <2>3. Settled /\ Alike
    BY <1>12 DEF Deliver
  <2>4. QED BY <1>0, <2>1, <2>2, <2>3
<1>13. CASE Cancel(c)
  <2>1. r.pc \in {"pre", "post", "running", "policyWait", "preWait", "postWait"}
        /\ Set(c, Return(r, "cancelled")) /\ Alike
    BY <1>13 DEF Cancel, AtGuard
  <2>2. Trail(Return(r, "cancelled")) /\ Return(r, "cancelled").pc = "done"
    BY <1>1, <1>2, <1>a, <2>1, TrailUpdates DEF Trail
  <2>3. Balanced(c, Return(r, "cancelled"))
    BY <1>0, <2>1, <2>2
  <2>4. QED BY <2>1, <2>2, <2>3
<1>14. CASE GuardDeniesOnThread(c)
  <2> DEFINE s == [r EXCEPT !.pc = "halted", !.halts = @ + 1]
  <2>1. Set(c, s) /\ AtGuard(c) /\ denyRows' = denyRows /\ facts'.denials = facts.denials + 1
    BY <1>1, <1>14, CounterUpdates DEF GuardDeniesOnThread
  <2>2. s.pc = "halted" /\ s.halts = s.haltRows + 1
    BY <1>1, <1>3, <2>1 DEF CallState
  <2>3. r.pc \notin {"decided", "halted"}
    BY <1>3, <2>1
  <2> HIDE DEF s
  <2>4. Trail(s)
    BY <2>2 DEF Trail
  <2>5. Balanced(c, s)
    BY <1>1, <2>1, <2>2, <2>3 DEF Balanced, One, Refuses, Halts
  <2>6. QED BY <2>1, <2>4, <2>5
<1>15. CASE HaltRecorded(c)
  <2> DEFINE s == Return(Recorded(r), "refused")
  <2>1. /\ Set(c, s) /\ r.pc = "halted" /\ denyRows' = denyRows + 1
        /\ facts'.denials = facts.denials
    BY <1>15 DEF HaltRecorded
  <2>2. Recorded(r) \in CallState /\ Recorded(r).haltRows = Recorded(r).halts
    BY <1>1, <2>1, UpdatesTyped, TrailUpdates DEF Trail
  <2>3. Trail(s) /\ s.pc = "done"
    BY <1>a, <2>2, TrailUpdates
  <2> HIDE DEF s
  <2>4. Balanced(c, s)
    BY <1>1, <2>1, <2>3 DEF Balanced, One, Refuses, Halts
  <2>5. QED BY <2>1, <2>3, <2>4
<1>16. QED BY <1>4, <1>5, <1>6, <1>7, <1>8, <1>9, <1>10, <1>11, <1>12, <1>13, <1>14, <1>15
          DEF QuietAction

\* What a step does to one call decides what it does to the trail and to the
\* number of calls that ran.
LEMMA CountedStep ==
  ASSUME TypeOK, TrailInv, BudgetIsExecutions, TypeOK', NEW c \in Calls,
         NEW s, Set(c, s), Trail(s), Counts(c, s), Balanced(c, s)
  PROVE  TrailInv' /\ BudgetIsExecutions'
<1> DEFINE Ran == {d \in Calls : call[d].ran}
<1>1. call'[c] = s /\ \A d \in Calls : d # c => call'[d] = call[d]
  BY OtherCallsKept
<1>2. TrailInv'
  <2>1. DenialsAudited'
    BY BalanceKept DEF TrailInv
  <2>2. QED BY <1>1, <2>1 DEF TrailInv, Trail
<1>3. IsFiniteSet(Ran) /\ Cardinality(Ran) = facts.toolCalls /\ facts.toolCalls \in Nat
  BY FS_Subset DEF BudgetIsExecutions, TypeOK, RunFacts
<1>4. PICK after \in SUBSET Calls : after = {d \in Calls : call'[d].ran}
  OBVIOUS
<1>5. CASE s.ran = call[c].ran /\ facts'.toolCalls = facts.toolCalls
  <2>1. after = Ran
    BY <1>1, <1>4, <1>5
  <2>2. QED BY <1>2, <1>3, <1>4, <1>5, <2>1 DEF BudgetIsExecutions
<1>6. CASE s.ran /\ ~call[c].ran /\ facts'.toolCalls = facts.toolCalls + 1
  <2>1. after = Ran \cup {c} /\ c \notin Ran
    BY <1>1, <1>4, <1>6
  <2>2. Cardinality(Ran \cup {c}) = Cardinality(Ran) + 1
    BY <1>3, <2>1, FS_AddElement
  <2>3. QED BY <1>2, <1>3, <1>4, <1>6, <2>1, <2>2 DEF BudgetIsExecutions
<1>7. QED BY <1>5, <1>6 DEF Counts

LEMMA TrailNext ==
  TypeOK /\ TypeOK' /\ ClearanceInv /\ TrailInv /\ BudgetIsExecutions /\ [Next]_vars
    => TrailInv' /\ BudgetIsExecutions'
<1> SUFFICES ASSUME TypeOK, TypeOK', ClearanceInv, TrailInv, BudgetIsExecutions, [Next]_vars
             PROVE  TrailInv' /\ BudgetIsExecutions'
  OBVIOUS
<1>1. ASSUME NEW c \in Calls, QuietAction(c) PROVE TrailInv' /\ BudgetIsExecutions'
  <2>1. PICK s : Set(c, s) /\ s.ran = call[c].ran
    BY <1>1, QuietActions DEF Quiet
  <2>2. facts'.toolCalls = facts.toolCalls
    BY <1>1, QuietActions
  <2>3. PICK q : Set(c, q) /\ Trail(q) /\ Balanced(c, q)
    BY <1>1, QuietAudited
  <2>4. s = q
    BY <2>1, <2>3, OtherCallsKept
  <2>5. Counts(c, q)
    BY <2>1, <2>2, <2>4 DEF Counts
  <2>6. QED BY <2>3, <2>5, CountedStep
\* A call that is still to be decided, or holds a verdict, has not run.
<1>2. ASSUME NEW c \in Calls, call[c].pc \in {"pre", "decided", "policyWait"}
      PROVE  ~call[c].ran /\ call[c].haltRows = call[c].halts
  BY <1>2 DEF ClearanceInv, TrailInv, Trail
<1>3. ASSUME NEW c \in Calls, DecideOnLoop(c) PROVE TrailInv' /\ BudgetIsExecutions'
  <2> DEFINE v == PolicyVerdict(call[c].args)
  <2>1. v \in Verdicts /\ ActOnVerdict(c, v) /\ RowOf(v) /\ call[c].pc = "pre"
    BY <1>3, VerdictTyped DEF DecideOnLoop, ReadyToDecide
  <2> HIDE DEF v
  <2>2. facts'.denials = facts.denials + One(v = "deny")
    BY <1>2, <2>1, ActAudited
  <2>3. PICK s : Set(c, s) /\ Trail(s) /\ Counts(c, s) /\ s.pc \notin {"decided", "halted"}
    BY <1>2, <2>1, ActAudited
  <2>4. \/ facts'.denials = facts.denials /\ denyRows' = denyRows
        \/ facts'.denials = facts.denials + 1 /\ denyRows' = denyRows + 1
    BY <2>1, <2>2 DEF RowOf, One, TypeOK, RunFacts
  <2>5. QED BY <2>1, <2>3, <2>4, SettledStep, CountedStep
<1>4. ASSUME NEW c \in Calls, DecideOnThread(c) PROVE TrailInv' /\ BudgetIsExecutions'
  <2> DEFINE v == PolicyVerdict(call[c].args)
             s == [call[c] EXCEPT !.pc = "decided", !.verdict = v]
  <2>1. Set(c, s) /\ facts' = facts /\ RowOf(v) /\ call[c].pc = "pre"
    BY <1>4 DEF DecideOnThread, Decided, ReadyToDecide
  <2>2. s.pc = "decided" /\ s.verdict = v /\ s.ran = call[c].ran
        /\ s.halts = call[c].halts /\ s.haltRows = call[c].haltRows
    BY DEF TypeOK, CallState
  <2>3. facts.denials \in Nat /\ denyRows \in Nat
    BY DEF TypeOK, RunFacts
  <2> HIDE DEF s, v
  <2>4. Trail(s) /\ Counts(c, s)
    BY <1>2, <2>1, <2>2 DEF Trail, Counts
  <2>5. Balanced(c, s)
    BY <2>1, <2>2, <2>3 DEF Balanced, RowOf, One, Refuses, Halts
  <2>6. QED BY <2>1, <2>4, <2>5, CountedStep
<1>5. ASSUME NEW c \in Calls, ThreadActs(c) PROVE TrailInv' /\ BudgetIsExecutions'
  <2> DEFINE v == call[c].verdict
  <2>1. v \in Verdicts /\ ActOnVerdict(c, v) /\ call[c].pc = "decided" /\ denyRows' = denyRows
    BY <1>5 DEF ThreadActs, ActOnVerdict
  <2>2. facts'.denials = facts.denials + One(v = "deny")
    BY <1>2, <2>1, ActAudited
  <2>3. PICK s : Set(c, s) /\ Trail(s) /\ Counts(c, s) /\ s.pc \notin {"decided", "halted"}
    BY <1>2, <2>1, ActAudited
  <2>4. facts.denials \in Nat /\ denyRows \in Nat
    BY DEF TypeOK, RunFacts
  <2>5. Balanced(c, s)
    BY <2>1, <2>2, <2>3, <2>4 DEF Balanced, One, Refuses, Halts
  <2>6. QED BY <2>3, <2>5, CountedStep
<1>6. ASSUME NEW c \in Calls, PolicyGateAnswered(c) PROVE TrailInv' /\ BudgetIsExecutions'
  <2> DEFINE a == [call[c] EXCEPT !.approved = TRUE]
  <2>1. /\ ~call[c].ran /\ call[c].haltRows = call[c].halts
        /\ call[c] \in CallState /\ call[c].pc = "policyWait"
    BY <1>2, <1>6 DEF PolicyGateAnswered, TypeOK
  <2>2. a \in CallState /\ a.haltRows = a.halts
    BY <2>1 DEF CallState
  <2> HIDE DEF a
  <2>3. facts'.denials = facts.denials /\ denyRows' = denyRows
    BY <1>6, CounterUpdates DEF PolicyGateAnswered, TypeOK
  <2>4. Dispatch(a).ran /\ Trail(Dispatch(a)) /\ Dispatch(a).pc = "running"
    <3>1. Dispatch(a).ran = TRUE /\ Dispatch(a).pc = "running"
      BY <2>2 DEF Dispatch, CallState
    <3>2. QED BY <2>2, <3>1, TrailUpdates
  <2>5. \A reply \in Replies : /\ Trail(Return(call[c], reply))
                               /\ Return(call[c], reply).ran = call[c].ran
                               /\ Return(call[c], reply).pc = "done"
    <3>1. \A reply \in Replies : /\ Return(call[c], reply).ran = call[c].ran
                                 /\ Return(call[c], reply).pc = "done"
      BY <2>1 DEF Return, CallState
    <3>2. QED BY <2>1, <3>1, TrailUpdates
  <2>6. \/ Set(c, Dispatch(a)) /\ facts'.toolCalls = facts.toolCalls + 1
        \/ (\E reply \in Replies : Set(c, Return(call[c], reply))) /\ facts' = facts
    BY <1>6, CounterUpdates DEF PolicyGateAnswered, TypeOK, a
  <2>7. PICK s : Set(c, s) /\ Trail(s) /\ Counts(c, s) /\ s.pc \notin {"decided", "halted"}
    BY <2>1, <2>4, <2>5, <2>6 DEF Counts
  <2>8. Balanced(c, s)
    BY <2>1, <2>3, <2>7, SettledStep
  <2>9. QED BY <2>7, <2>8, CountedStep
<1>7. CASE UNCHANGED vars
  BY <1>7 DEF vars, TrailInv, Trail, DenialsAudited, Refusing, Halting, BudgetIsExecutions
<1>8. QED BY <1>1, <1>3, <1>4, <1>5, <1>6, <1>7, StepKinds

LEMMA TrailAlways == Spec => [](TrailInv /\ BudgetIsExecutions)
<1>1. Init => TrailInv /\ BudgetIsExecutions
  <2> SUFFICES ASSUME Init PROVE TrailInv /\ BudgetIsExecutions
    OBVIOUS
  <2>1. \A c \in Calls : call[c].pc = "new" /\ call[c].halts = 0 /\ call[c].haltRows = 0
    BY DEF Init
  <2>2. {c \in Calls : call[c].ran} = {}
    <3>1. \A c \in Calls : call[c].ran \in {FALSE}
      BY DEF Init
    <3>2. \A c \in Calls : ~call[c].ran
      BY <3>1, Zenon
    <3>3. QED BY <3>2
  <2>3. Refusing = {} /\ Halting = {}
    BY <2>1 DEF Refusing, Halting
  <2>4. DenialsAudited
    BY <2>3, FS_EmptySet DEF Init, DenialsAudited
  <2>5. QED BY <2>1, <2>2, <2>4, FS_EmptySet DEF Init, TrailInv, Trail, BudgetIsExecutions
<1>2. QED BY <1>1, TrailNext, TypeCorrect, ClearanceAlways, PTL DEF Spec

\* For any number of calls, on loops and on threads: the budget is the number
\* of executions; the denials counted and the DENY rows differ by exactly the
\* threads that stand between the two; and every halt has its row but one whose
\* thread is about to write it, or that ended while it waited for its answer.
THEOREM TrailTellsTheRun == Spec => []CountersAgree
<1>1. TypeOK /\ TrailInv /\ BudgetIsExecutions => CountersAgree
  BY TrailTells DEF CountersAgree
<1>2. QED BY <1>1, TrailAlways, TypeCorrect, PTL

\* On an event loop no call is ever between the two: the denials counted and
\* the DENY rows are equal in every state.
THEOREM TrailExactOnLoop == Spec => [](~Threaded => facts.denials = denyRows)
<1>1. TypeOK /\ ClearanceInv /\ TrailInv => (~Threaded => facts.denials = denyRows)
  <2> SUFFICES ASSUME TypeOK, ClearanceInv, TrailInv, ~Threaded PROVE facts.denials = denyRows
    OBVIOUS
  <2>1. \A c \in Calls : call[c].pc \notin {"decided", "halted"}
    BY DEF ClearanceInv
  <2>2. Refusing = {} /\ Halting = {}
    BY <2>1 DEF Refusing, Halting
  <2>3. facts.denials + 0 = denyRows + 0
    BY <2>2, FS_EmptySet DEF TrailInv, DenialsAudited
  <2>4. QED BY <2>3 DEF TypeOK, RunFacts
<1>2. QED BY <1>1, TrailAlways, TypeCorrect, ClearanceAlways, PTL
=============================================================================
