-------------------------- MODULE RemoteApprovals --------------------------
(* hexgate serve (cli/serve.py): a local agent behind the platform's relay,   *)
(* whose tool calls ask the playground for approval.  One connection at a     *)
(* time; every frame the read loop takes is a task of its own; chat turns     *)
(* queue for a lock made anew with each connection.                           *)
EXTENDS Naturals, Sequences, FiniteSets

CONSTANTS
  None, Turns, Calls,
  MaxConnects,  \* bound: connections in a behaviour
  MaxInbox,     \* bound: frames on the socket and not yet taken
  MaxReplies    \* bound: tasks of replies that have not run yet

\* Of the constants; assumed by the modules that give them values.
RelayAssumption ==
  /\ None \notin Turns /\ None \notin BOOLEAN
  /\ {MaxConnects, MaxInbox, MaxReplies} \subseteq Nat

VARIABLES
  link,     \* the connection: down, up, lost (the loop has not noticed), grace
  connects,
  lock,     \* the turn that holds the connection's chat lock
  inbox,    \* frames the relay has put on the socket
  replies,  \* tasks of approval.reply frames
  turn, call,
  pending,  \* RelayApprovalHandler._pending
  answer    \* history: what the first reply that reached a waiting call said

vars == <<link, connects, lock, inbox, replies, turn, call, pending, answer>>

\* A tool call that needs approval: its coroutine, its event and its box.
NewCall == [pc |-> "idle", turn |-> None, event |-> FALSE, allowed |-> FALSE]

Asking == {"sending", "waiting", "expiring"}

TypeOK ==
  /\ link \in {"down", "up", "lost", "grace"}
  /\ connects \in 0..MaxConnects
  /\ lock \in Turns \cup {None}
  /\ inbox \in Seq([turn : Turns] \cup [call : Calls, allowed : BOOLEAN])
  /\ replies \subseteq [call : Calls, allowed : BOOLEAN]
  /\ turn \in [Turns -> {"new", "sent", "queued", "running", "over"}]
  /\ call \in [Calls -> [pc : {"idle", "approved", "denied", "cancelled"} \cup Asking,
                         turn : Turns \cup {None}, event : BOOLEAN, allowed : BOOLEAN]]
  /\ pending \subseteq Calls
  /\ answer \in [Calls -> BOOLEAN \cup {None}]

Init ==
  /\ link = "down" /\ connects = 0 /\ lock = None
  /\ inbox = <<>> /\ replies = {} /\ pending = {}
  /\ turn = [t \in Turns |-> "new"]
  /\ call = [c \in Calls |-> NewCall]
  /\ answer = [c \in Calls |-> None]

-----------------------------------------------------------------------------
(* The connection.                                                           *)

\* Both locks are new, the handler is bound to the socket.
Connect ==
  /\ link = "down" /\ connects < MaxConnects
  /\ link' = "up" /\ connects' = connects + 1 /\ lock' = None /\ inbox' = <<>>
  /\ UNCHANGED <<replies, turn, call, pending, answer>>

\* The network fails, or another serve of the project takes the place.
Lose ==
  /\ link = "up" /\ link' = "lost"
  /\ UNCHANGED <<connects, lock, inbox, replies, turn, call, pending, answer>>

\* (Mutant) What waits is forgotten and not woken.
UnbindForgetting ==
  /\ link = "lost" /\ link' = "grace"
  /\ pending' = {} /\ inbox' = <<>>
  /\ UNCHANGED <<connects, lock, replies, turn, call, answer>>

\* The read loop ends: every request in flight is denied and woken.
Unbind ==
  /\ link = "lost" /\ link' = "grace"
  /\ call' = [c \in Calls |-> IF c \in pending
                              THEN [call[c] EXCEPT !.allowed = FALSE, !.event = TRUE]
                              ELSE call[c]]
  /\ pending' = {} /\ inbox' = <<>>
  /\ UNCHANGED <<connects, lock, replies, turn, answer>>

\* (Mutant) Tasks that outlive the grace are left to themselves.
ReapNothing ==
  /\ link = "grace" /\ link' = "down"
  /\ UNCHANGED <<connects, lock, inbox, replies, turn, call, pending, answer>>

\* A second later what still runs is cancelled, before any reconnection.
Reap ==
  /\ link = "grace" /\ link' = "down" /\ lock' = None /\ replies' = {}
  /\ turn' = [t \in Turns |-> IF turn[t] \in {"queued", "running"} THEN "over" ELSE turn[t]]
  /\ call' = [c \in Calls |-> IF call[c].pc \in Asking
                              THEN [call[c] EXCEPT !.pc = "cancelled"] ELSE call[c]]
  /\ UNCHANGED <<connects, inbox, pending, answer>>

-----------------------------------------------------------------------------
(* Frames.                                                                   *)

Deliver(frame) ==
  /\ link = "up" /\ Len(inbox) < MaxInbox
  /\ inbox' = Append(inbox, frame)

\* A playground tab sends a message.
SendChat(t) ==
  /\ turn[t] = "new" /\ Deliver([turn |-> t])
  /\ turn' = [turn EXCEPT ![t] = "sent"]
  /\ UNCHANGED <<link, connects, lock, replies, call, pending, answer>>

\* A tab answers a request it was shown: perhaps a second time, perhaps with
\* another answer than another tab, perhaps long after the call is over.
SendReply(c, allowed) ==
  /\ call[c].pc \notin {"idle", "sending"}
  /\ Deliver([call |-> c, allowed |-> allowed])
  /\ UNCHANGED <<link, connects, lock, replies, turn, call, pending, answer>>

\* (Mutant) The loop handles a frame to its end before it takes the next.
DispatchInline ==
  /\ \A t \in Turns : turn[t] \notin {"queued", "running"}
  /\ link \in {"up", "lost"} /\ inbox # <<>> /\ Cardinality(replies) < MaxReplies
  /\ inbox' = Tail(inbox)
  /\ IF "turn" \in DOMAIN Head(inbox)
     THEN turn' = [turn EXCEPT ![Head(inbox).turn] = "queued"] /\ UNCHANGED replies
     ELSE replies' = replies \cup {Head(inbox)} /\ UNCHANGED turn
  /\ UNCHANGED <<link, connects, lock, call, pending, answer>>

Dispatch ==
  /\ link \in {"up", "lost"} /\ inbox # <<>> /\ Cardinality(replies) < MaxReplies
  /\ inbox' = Tail(inbox)
  /\ IF "turn" \in DOMAIN Head(inbox)
     THEN turn' = [turn EXCEPT ![Head(inbox).turn] = "queued"] /\ UNCHANGED replies
     ELSE replies' = replies \cup {Head(inbox)} /\ UNCHANGED turn
  /\ UNCHANGED <<link, connects, lock, call, pending, answer>>

\* (Mutant) The request stays registered until its coroutine runs again.
ResolveKeepingEntry(r) ==
  /\ replies' = replies \ {r}
  /\ IF r.call \in pending
     THEN /\ call' = [call EXCEPT ![r.call].allowed = r.allowed, ![r.call].event = TRUE]
          /\ answer' = [answer EXCEPT ![r.call] = IF @ = None THEN r.allowed ELSE @]
     ELSE UNCHANGED <<call, answer>>
  /\ UNCHANGED <<link, connects, lock, inbox, turn, pending>>

\* A reply is of the request still registered under its id, or of none.
Resolve(r) ==
  /\ replies' = replies \ {r}
  /\ pending' = pending \ {r.call}
  /\ IF r.call \in pending
     THEN /\ call' = [call EXCEPT ![r.call].allowed = r.allowed, ![r.call].event = TRUE]
          /\ answer' = [answer EXCEPT ![r.call] = IF @ = None THEN r.allowed ELSE @]
     ELSE UNCHANGED <<call, answer>>
  /\ UNCHANGED <<link, connects, lock, inbox, turn>>

-----------------------------------------------------------------------------
(* Turns and the calls they make.                                            *)

Open(t) == {c \in Calls : call[c].turn = t /\ call[c].pc \in Asking}

StartTurn(t) ==
  /\ turn[t] = "queued" /\ lock = None
  /\ lock' = t /\ turn' = [turn EXCEPT ![t] = "running"]
  /\ UNCHANGED <<link, connects, inbox, replies, call, pending, answer>>

\* The agent has its results, or a send on the dead socket raised.
EndTurn(t) ==
  /\ turn[t] = "running" /\ Open(t) = {}
  /\ turn' = [turn EXCEPT ![t] = "over"]
  /\ lock' = IF lock = t THEN None ELSE lock
  /\ UNCHANGED <<link, connects, inbox, replies, call, pending, answer>>

\* Without a socket the answer is no.
Ask(c, t) ==
  /\ turn[t] = "running" /\ call[c].pc = "idle"
  /\ IF link \in {"up", "lost"}
     THEN /\ call' = [call EXCEPT ![c] = [NewCall EXCEPT !.pc = "sending", !.turn = t]]
          /\ pending' = pending \cup {c}
     ELSE call' = [call EXCEPT ![c] = [NewCall EXCEPT !.pc = "denied", !.turn = t]]
          /\ UNCHANGED pending
  /\ UNCHANGED <<link, connects, lock, inbox, replies, turn, answer>>

Sent(c) ==
  /\ call[c].pc = "sending"
  /\ call' = [call EXCEPT ![c].pc = "waiting"]
  /\ UNCHANGED <<link, connects, lock, inbox, replies, turn, pending, answer>>

SendFails(c) ==
  /\ call[c].pc = "sending" /\ link # "up"
  /\ call' = [call EXCEPT ![c].pc = "denied"]
  /\ pending' = pending \ {c}
  /\ UNCHANGED <<link, connects, lock, inbox, replies, turn, answer>>

\* The time to live is over; the coroutine has yet to notice.
Expire(c) ==
  /\ call[c].pc = "waiting" /\ ~call[c].event
  /\ call' = [call EXCEPT ![c].pc = "expiring"]
  /\ UNCHANGED <<link, connects, lock, inbox, replies, turn, pending, answer>>

\* The coroutine runs again, and returns what its box says then.
Wake(c) ==
  /\ call[c].pc = "expiring" \/ (call[c].pc = "waiting" /\ call[c].event)
  /\ call' = [call EXCEPT ![c].pc = IF call[c].allowed THEN "approved" ELSE "denied"]
  /\ pending' = pending \ {c}
  /\ UNCHANGED <<link, connects, lock, inbox, replies, turn, answer>>

-----------------------------------------------------------------------------
(* The tasks: the read loop, that of a reply, that of a call.                *)

ReadLoop == Dispatch \/ Unbind

ReplyTo(c) == \E r \in replies : r.call = c /\ Resolve(r)

Coroutine(c) == Sent(c) \/ SendFails(c) \/ Wake(c)

Scheduled ==
  \/ ReadLoop \/ Reap
  \/ \E t \in Turns : StartTurn(t) \/ EndTurn(t)
  \/ \E c \in Calls : ReplyTo(c) \/ Coroutine(c)

Next ==
  \/ Connect \/ Lose \/ Scheduled
  \/ \E t \in Turns : SendChat(t)
  \/ \E c \in Calls : \/ Expire(c)
                      \/ \E t \in Turns : Ask(c, t)
                      \/ \E allowed \in BOOLEAN : SendReply(c, allowed)

Spec == Init /\ [][Next]_vars

-----------------------------------------------------------------------------

\* A human's answer stands: a call is approved only if the first reply that
\* found it waiting said so, and one that was approved is denied by nothing
\* that comes later - the time limit, the loss of the connection, another
\* tab's reply.  Once the socket is unbound nobody goes on waiting for it.
AnswersStand ==
  \A c \in Calls :
    /\ call[c].pc = "approved" => answer[c] = TRUE
    /\ answer[c] = TRUE => call[c].pc \in {"waiting", "expiring", "approved", "cancelled"}
    /\ link \in {"grace", "down"} /\ call[c].pc \in {"sending", "waiting"} => call[c].event

\* One conversation at a time, across reconnections: start_turn overwrites the
\* current run, so two turns at once would mix their events.
OneTurnAtATime == Cardinality({t \in Turns : turn[t] = "running"}) <= 1

\* The frame of a reply never waits for the call that waits for the reply: it
\* reaches its call without the help of the time limit.
AnswersArrive ==
  \A c \in Calls :
    (\E i \in DOMAIN inbox : "call" \in DOMAIN inbox[i] /\ inbox[i].call = c)
      ~> call[c].pc # "waiting"

\* The event loop runs its tasks.
Fairness ==
  WF_vars(ReadLoop) /\ \A c \in Calls : WF_vars(ReplyTo(c)) /\ WF_vars(Coroutine(c))

FairSpec == Spec /\ Fairness
=============================================================================
