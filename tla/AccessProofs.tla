----------------------------- MODULE AccessProofs -----------------------------
(* Theorems about the signing key, the approvals over the relay and the        *)
(* collector's view of the keys, for any number of processes, turns, calls and *)
(* keys and any intervals.                                                     *)
EXTENDS MCAccess, Sequences, FiniteSetTheorems, TLAPS

-----------------------------------------------------------------------------
(* One signing key: a process that goes on to hold a key holds the one that    *)
(* the link put in the file, and only that process writes the public half.     *)

Held(p) ==
  /\ proc[p].pc = "generated" => proc[p].key \in Nat
  /\ proc[p].pc \in {"linked", "ready"} => proc[p].key = priv
  /\ proc[p].pc \in {"linked", "adopts", "ready"} => priv # None

KeysInv ==
  /\ Signing!TypeOK
  /\ \A p \in Processes : Held(p)
  /\ pub \in {None, priv}

LEMMA KeysInit == Signing!KeysAssumption /\ Signing!Init => KeysInv
BY DEF Signing!Init, KeysInv, Held, Signing!Down, Signing!TypeOK, Signing!KeysAssumption

LEMMA KeysStep ==
  ASSUME Signing!KeysAssumption, KeysInv, [Signing!Next]_(Signing!vars)
  PROVE  KeysInv'
<1>. USE DEF Signing!KeysAssumption, KeysInv, Held, Signing!TypeOK, Signing!Goes
<1>1. CASE UNCHANGED Signing!vars
  BY <1>1 DEF Signing!vars
<1>2. ASSUME NEW p \in Processes, Signing!Start(p)
      PROVE  KeysInv'
  BY <1>2 DEF Signing!Start
<1>3. ASSUME NEW p \in Processes, Signing!ReadKey(p)
      PROVE  KeysInv'
  BY <1>3 DEF Signing!ReadKey
<1>4. ASSUME NEW p \in Processes, Signing!Generate(p)
      PROVE  KeysInv'
  BY <1>4 DEF Signing!Generate
<1>5. ASSUME NEW p \in Processes, Signing!Link(p)
      PROVE  KeysInv'
  BY <1>5 DEF Signing!Link
<1>6. ASSUME NEW p \in Processes, Signing!WritePublic(p)
      PROVE  KeysInv'
  BY <1>6 DEF Signing!WritePublic
<1>7. ASSUME NEW p \in Processes, Signing!Crash(p)
      PROVE  KeysInv'
  BY <1>7 DEF Signing!Crash, Signing!Down
<1>8. QED BY <1>1, <1>2, <1>3, <1>4, <1>5, <1>6, <1>7 DEF Signing!Next

LEMMA SigningPart == AccessSpec => Signing!Spec
<1>1. [AccessNext]_accessVars => [Signing!Next]_(Signing!vars)
  BY DEF AccessNext, accessVars, keyVars, Signing!vars, OfGrants, OfSigning, OfCollector, AtRelay
<1>2. AccessInit => Signing!Init
  BY DEF AccessInit
<1>3. QED BY <1>1, <1>2, PTL DEF AccessSpec, Signing!Spec

\* However many processes start for the first time at once, and wherever they crash
\* (core/keystore.py, ensure_keypair): every process that is up holds the key in the
\* file, and the public half is of the same key.
THEOREM ProcessesShareAKey == AccessSpec => []OneSigningKey
<1>1. KeysInv => OneSigningKey
  BY DEF KeysInv, Held, OneSigningKey, Signing!OneSigningKey
<1>2. Signing!Init => KeysInv
  BY KeysInit, AccessAssumption
<1>3. KeysInv /\ [Signing!Next]_(Signing!vars) => KeysInv'
  BY KeysStep, AccessAssumption
<1>4. QED BY <1>1, <1>2, <1>3, SigningPart, PTL DEF Signing!Spec

-----------------------------------------------------------------------------
(* A human's answer: a call that waits is registered and unanswered, or is     *)
(* woken and holds the answer that stands.                                     *)

Chats == [turn : Turns]
Replies == [call : Calls, allowed : BOOLEAN]

CallStates == {"idle", "approved", "denied", "cancelled"} \cup Relay!Asking

CallRec == [pc : CallStates, turn : Turns \cup {None}, event : BOOLEAN, allowed : BOOLEAN]

RelayTypes ==
  /\ link \in {"down", "up", "lost", "grace"}
  /\ lock \in Turns \cup {None}
  /\ inbox \in Seq(Chats \cup Replies)
  /\ replies \subseteq Replies
  /\ turn \in [Turns -> {"new", "sent", "queued", "running", "over"}]
  /\ asked \in [Calls -> CallRec]
  /\ pending \subseteq Calls
  /\ reply \in [Calls -> BOOLEAN \cup {None}]

\* Nobody answers what nobody was shown.
Shown(c) ==
  asked[c].pc \in {"idle", "sending"} =>
    /\ \A r \in replies : r.call # c
    /\ \A i \in 1..Len(inbox) : \A b \in BOOLEAN : inbox[i] # [call |-> c, allowed |-> b]

Registered(c) ==
  c \in pending =>
    /\ asked[c].pc \in Relay!Asking /\ asked[c].event = FALSE /\ asked[c].allowed = FALSE
    /\ reply[c] = None

Woken(c) ==
  asked[c].pc \in Relay!Asking /\ c \notin pending =>
    asked[c].event = TRUE /\ (asked[c].allowed = TRUE <=> reply[c] = TRUE)

Stands(c) ==
  /\ asked[c].pc \in {"idle", "sending"} => reply[c] = None
  /\ asked[c].pc = "approved" => reply[c] = TRUE
  /\ asked[c].pc = "denied" => reply[c] # TRUE

\* Once unbound nothing is registered, once reaped no turn is at work, and the turn at
\* work holds the lock.
Bound ==
  /\ link \in {"grace", "down"} => pending = {}
  /\ link = "down" => \A t \in Turns : turn[t] \notin {"queued", "running"}
  /\ \A t \in Turns : turn[t] = "running" => lock = t

RelayInv ==
  /\ RelayTypes /\ Bound
  /\ \A c \in Calls : Shown(c) /\ Registered(c) /\ Woken(c) /\ Stands(c)

LEMMA CallUpdates ==
  ASSUME NEW x \in CallRec
  PROVE  /\ \A pc \in CallStates : [x EXCEPT !.pc = pc] \in CallRec
         /\ \A b \in BOOLEAN : [x EXCEPT !.allowed = b, !.event = TRUE] \in CallRec
         /\ \A pc \in CallStates, t \in Turns :
              [Relay!NewCall EXCEPT !.pc = pc, !.turn = t] \in CallRec
         /\ [x EXCEPT !.allowed = FALSE, !.event = TRUE] \in CallRec
BY DEF CallRec, Relay!NewCall, CallStates

LEMMA RelayInit == Relay!Init => RelayInv
<1>. SUFFICES ASSUME Relay!Init PROVE RelayInv OBVIOUS
<1>1. Relay!NewCall \in CallRec
  BY DEF Relay!NewCall, CallRec, CallStates
<1>2. RelayTypes
  BY <1>1 DEF Relay!Init, RelayTypes
<1>3. Bound
  BY DEF Relay!Init, Bound
<1>4. ASSUME NEW c \in Calls
      PROVE  Shown(c) /\ Registered(c) /\ Woken(c) /\ Stands(c)
  <2>1. /\ asked[c].pc = "idle" /\ reply[c] = None /\ pending = {} /\ replies = {}
        /\ inbox = <<>>
    BY DEF Relay!Init, Relay!NewCall
  <2>2. reply[c] # TRUE
    BY <2>1, AccessAssumption DEF Relay!RelayAssumption
  <2>3. QED BY <2>1, <2>2 DEF Relay!Asking, Shown, Registered, Woken, Stands
<1>5. QED BY <1>2, <1>3, <1>4 DEF RelayInv

LEMMA RelayTypesStep == RelayInv /\ Relay!Next => RelayTypes'
<1>. SUFFICES ASSUME RelayInv, Relay!Next PROVE RelayTypes' OBVIOUS
<1>. USE DEF RelayInv, RelayTypes
<1>a. {"idle", "sending", "waiting", "expiring", "approved", "denied", "cancelled"}
        \subseteq CallStates
  BY DEF CallStates, Relay!Asking
<1>b. \A c \in Calls : asked[c] \in CallRec
  OBVIOUS
<1>c. <<>> \in Seq(Chats \cup Replies)
  OBVIOUS
<1>1. ASSUME Relay!Connect \/ Relay!Lose
      PROVE  RelayTypes'
  BY <1>1, <1>c DEF Relay!Connect, Relay!Lose
<1>10. ASSUME Relay!Unbind
       PROVE  RelayTypes'
  <2>1. \A c \in Calls :
          asked'[c] \in {asked[c], [asked[c] EXCEPT !.allowed = FALSE, !.event = TRUE]}
    BY <1>10 DEF Relay!Unbind
  <2>2. ASSUME NEW c \in Calls
        PROVE  asked'[c] \in CallRec
    <3>1. PICK x \in CallRec : x = asked[c]
      BY <1>b
    <3>2. [x EXCEPT !.allowed = FALSE, !.event = TRUE] \in CallRec
      BY CallUpdates
    <3>3. QED BY <2>1, <3>1, <3>2
  <2>3. DOMAIN asked' = Calls /\ asked' = [c \in Calls |-> asked'[c]]
    BY <1>10 DEF Relay!Unbind
  <2>4. QED BY <1>10, <1>c, <2>2, <2>3 DEF Relay!Unbind
<1>11. ASSUME Relay!Reap
       PROVE  RelayTypes'
  <2>1. \A c \in Calls : asked'[c] \in CallRec
    BY <1>11, <1>a, <1>b, CallUpdates DEF Relay!Reap
  <2>2. asked' = [c \in Calls |-> asked'[c]]
    BY <1>11 DEF Relay!Reap
  <2>3. QED BY <1>11, <2>1, <2>2 DEF Relay!Reap
<1>2. ASSUME Relay!Dispatch
      PROVE  RelayTypes'
  <2>1. Head(inbox) \in Chats \cup Replies /\ Tail(inbox) \in Seq(Chats \cup Replies)
    BY <1>2 DEF Relay!Dispatch
  <2>2. CASE Head(inbox) \in Chats
    <3>1. "turn" \in DOMAIN Head(inbox) /\ Head(inbox).turn \in Turns
      BY <2>2 DEF Chats
    <3>2. QED BY <1>2, <2>1, <3>1 DEF Relay!Dispatch
  <2>3. CASE Head(inbox) \in Replies
    <3>1. "turn" \notin DOMAIN Head(inbox)
      BY <2>3 DEF Replies
    <3>2. QED BY <1>2, <2>1, <2>3, <3>1 DEF Relay!Dispatch
  <2>4. QED BY <2>1, <2>2, <2>3
<1>3. ASSUME NEW t \in Turns, Relay!StartTurn(t) \/ Relay!EndTurn(t)
      PROVE  RelayTypes'
  BY <1>3 DEF Relay!StartTurn, Relay!EndTurn
<1>4. ASSUME NEW t \in Turns, Relay!SendChat(t)
      PROVE  RelayTypes'
  <2>1. [turn |-> t] \in Chats BY DEF Chats
  <2>2. QED BY <1>4, <2>1 DEF Relay!SendChat, Relay!Deliver
<1>5. ASSUME NEW c \in Calls, NEW b \in BOOLEAN, Relay!SendReply(c, b)
      PROVE  RelayTypes'
  <2>1. [call |-> c, allowed |-> b] \in Replies BY DEF Replies
  <2>2. QED BY <1>5, <2>1 DEF Relay!SendReply, Relay!Deliver
<1>6. ASSUME NEW r \in replies, Relay!Resolve(r)
      PROVE  RelayTypes'
  <2>1. r.call \in Calls /\ r.allowed \in BOOLEAN BY DEF Replies
  <2>2. asked' \in [Calls -> CallRec]
    <3>1. CASE r.call \in pending
      <4>1. asked' = [asked EXCEPT ![r.call] =
                        [asked[r.call] EXCEPT !.allowed = r.allowed, !.event = TRUE]]
        BY <1>6, <2>1, <3>1 DEF Relay!Resolve
      <4>2. QED BY <1>b, <2>1, <4>1, CallUpdates
    <3>2. QED BY <1>6, <3>1 DEF Relay!Resolve
  <2>3. QED BY <1>6, <2>1, <2>2 DEF Relay!Resolve
<1>7. ASSUME NEW c \in Calls, NEW t \in Turns, Relay!Ask(c, t)
      PROVE  RelayTypes'
  <2>1. PICK x \in CallRec : asked' = [asked EXCEPT ![c] = x]
    BY <1>7, <1>a, CallUpdates DEF Relay!Ask
  <2>2. QED BY <1>7, <2>1 DEF Relay!Ask
<1>8. ASSUME NEW c \in Calls, NEW pc \in CallStates, asked' = [asked EXCEPT ![c].pc = pc]
      PROVE  asked' \in [Calls -> CallRec]
  BY <1>8, <1>b, CallUpdates
<1>9. ASSUME NEW c \in Calls,
             Relay!Sent(c) \/ Relay!SendFails(c) \/ Relay!Expire(c) \/ Relay!Wake(c)
      PROVE  RelayTypes'
  BY <1>8, <1>9, <1>a DEF Relay!Sent, Relay!SendFails, Relay!Expire, Relay!Wake
<1>12. QED
  BY <1>1, <1>2, <1>3, <1>4, <1>5, <1>6, <1>7, <1>9, <1>10, <1>11
     DEF Relay!Next, Relay!Scheduled, Relay!ReadLoop, Relay!ReplyTo, Relay!Coroutine

\* The kinds of a step: what it does to the calls.
LEMMA BoundStep == RelayInv /\ Relay!Next => Bound'
<1>. SUFFICES ASSUME RelayInv, Relay!Next PROVE Bound' OBVIOUS
<1>. USE DEF Bound
<1>0. /\ Bound /\ turn \in [Turns -> {"new", "sent", "queued", "running", "over"}]
      /\ \A t \in Turns : t # None
  BY AccessAssumption DEF Relay!RelayAssumption, RelayInv, RelayTypes
<1>1. ASSUME Relay!Connect \/ Relay!Lose \/ Relay!Unbind \/ Relay!Reap
      PROVE  Bound'
  BY <1>0, <1>1 DEF Relay!Connect, Relay!Lose, Relay!Unbind, Relay!Reap
<1>2. ASSUME Relay!Dispatch
      PROVE  Bound'
  BY <1>0, <1>2 DEF Relay!Dispatch
<1>3. ASSUME NEW t \in Turns, Relay!StartTurn(t) \/ Relay!EndTurn(t) \/ Relay!SendChat(t)
      PROVE  Bound'
  BY <1>0, <1>3 DEF Relay!StartTurn, Relay!EndTurn, Relay!SendChat, Relay!Deliver
<1>4. ASSUME NEW c \in Calls, NEW b \in BOOLEAN, Relay!SendReply(c, b)
      PROVE  Bound'
  BY <1>0, <1>4 DEF Relay!SendReply, Relay!Deliver
<1>5. ASSUME NEW r \in replies, Relay!Resolve(r)
      PROVE  Bound'
  BY <1>0, <1>5 DEF Relay!Resolve
<1>6. ASSUME NEW c \in Calls, NEW t \in Turns, Relay!Ask(c, t)
      PROVE  Bound'
  BY <1>0, <1>6 DEF Relay!Ask
<1>7. ASSUME NEW c \in Calls,
             Relay!Sent(c) \/ Relay!SendFails(c) \/ Relay!Expire(c) \/ Relay!Wake(c)
      PROVE  Bound'
  BY <1>0, <1>7 DEF Relay!Sent, Relay!SendFails, Relay!Expire, Relay!Wake
<1>8. QED
  BY <1>1, <1>2, <1>3, <1>4, <1>5, <1>6, <1>7
     DEF Relay!Next, Relay!Scheduled, Relay!ReadLoop, Relay!ReplyTo, Relay!Coroutine

\* A step that leaves calls where they were shown, and delivers no reply.
LEMMA ShownStep == RelayInv /\ Relay!Next => \A c \in Calls : Shown(c)'
<1>. SUFFICES ASSUME RelayInv, Relay!Next, NEW c \in Calls PROVE Shown(c)' OBVIOUS
<1>0. /\ Shown(c) /\ asked \in [Calls -> CallRec] /\ replies \subseteq Replies
      /\ inbox \in Seq(Chats \cup Replies)
  BY DEF RelayInv, RelayTypes
<1>1. asked'[c].pc \in {"idle", "sending"} =>
        asked[c].pc \in {"idle", "sending"} \/ (\E t \in Turns : Relay!Ask(c, t))
  <2>. USE DEF Relay!Asking, CallRec, CallStates
  <2>1. ASSUME NEW d \in Calls, NEW pc \in CallStates \ {"idle", "sending"},
               asked' = [asked EXCEPT ![d].pc = pc]
        PROVE  asked'[c].pc \in {"idle", "sending"} => asked[c].pc \in {"idle", "sending"}
    BY <1>0, <2>1
  <2>2. ASSUME Relay!Unbind \/ Relay!Reap
        PROVE  asked'[c].pc \in {"idle", "sending"} => asked[c].pc \in {"idle", "sending"}
    <3>1. PICK x \in CallRec : x = asked[c]
      BY <1>0
    <3>2. asked'[c] \in {x, [x EXCEPT !.allowed = FALSE, !.event = TRUE],
                         [x EXCEPT !.pc = "cancelled"]}
      BY <2>2, <3>1 DEF Relay!Unbind, Relay!Reap
    <3>3. asked'[c].pc \in {x.pc, "cancelled"}
      BY <3>2
    <3>4. QED BY <3>1, <3>3
  <2>3. ASSUME NEW r \in replies, Relay!Resolve(r)
        PROVE  asked'[c].pc = asked[c].pc
    BY <1>0, <2>3 DEF Relay!Resolve, Replies
  <2>4. ASSUME NEW d \in Calls, NEW t \in Turns, d # c, Relay!Ask(d, t)
        PROVE  asked'[c].pc = asked[c].pc
    BY <1>0, <2>4 DEF Relay!Ask
  <2>5. ASSUME NEW d \in Calls,
               Relay!Sent(d) \/ Relay!SendFails(d) \/ Relay!Expire(d) \/ Relay!Wake(d)
        PROVE  \E pc \in CallStates \ {"idle", "sending"} :
                 asked' = [asked EXCEPT ![d].pc = pc]
    BY <2>5 DEF Relay!Sent, Relay!SendFails, Relay!Expire, Relay!Wake
  <2>6. \/ asked' = asked \/ Relay!Unbind \/ Relay!Reap
        \/ \E r \in replies : Relay!Resolve(r)
        \/ \E d \in Calls : \/ \E t \in Turns : Relay!Ask(d, t)
                            \/ Relay!Sent(d) \/ Relay!SendFails(d)
                            \/ Relay!Expire(d) \/ Relay!Wake(d)
    BY DEF Relay!Next, Relay!Scheduled, Relay!ReadLoop, Relay!ReplyTo, Relay!Coroutine,
           Relay!Connect, Relay!Lose, Relay!Dispatch, Relay!StartTurn, Relay!EndTurn,
           Relay!SendChat, Relay!SendReply
  <2>7. QED BY <2>1, <2>2, <2>3, <2>4, <2>5, <2>6
<1>2. SUFFICES ASSUME asked[c].pc \in {"idle", "sending"}
               PROVE  /\ \A r \in replies' : r.call # c
                      /\ \A i \in 1..Len(inbox') : \A b \in BOOLEAN :
                           inbox'[i] # [call |-> c, allowed |-> b]
  BY <1>1 DEF Shown, Relay!Ask
<1>3. /\ \A r \in replies : r.call # c
      /\ \A i \in 1..Len(inbox) : \A b \in BOOLEAN : inbox[i] # [call |-> c, allowed |-> b]
  BY <1>0, <1>2 DEF Shown
<1>4. ASSUME Relay!Dispatch
      PROVE  /\ \A r \in replies' : r.call # c
             /\ inbox' = Tail(inbox)
  <2>1. Head(inbox) \in Chats \cup Replies /\ inbox # <<>>
    BY <1>0, <1>4 DEF Relay!Dispatch
  <2>2. CASE Head(inbox) \in Replies
    <3>1. PICK d \in Calls, b \in BOOLEAN : Head(inbox) = [call |-> d, allowed |-> b]
      BY <2>2 DEF Replies
    <3>2. 1 \in 1..Len(inbox) /\ inbox[1] = Head(inbox)
      BY <1>0, <2>1
    <3>3. d # c
      BY <1>3, <3>1, <3>2
    <3>4. QED BY <1>3, <1>4, <3>1, <3>3 DEF Relay!Dispatch
  <2>3. CASE Head(inbox) \in Chats
    <3>1. "turn" \in DOMAIN Head(inbox)
      BY <2>3 DEF Chats
    <3>2. QED BY <1>3, <1>4, <3>1 DEF Relay!Dispatch
  <2>4. QED BY <2>1, <2>2, <2>3
<1>5. CASE Relay!Dispatch
  BY <1>0, <1>3, <1>4, <1>5 DEF Relay!Dispatch
<1>6. ASSUME NEW frame \in Chats \cup Replies, Relay!Deliver(frame), replies' = replies,
             \A b \in BOOLEAN : frame # [call |-> c, allowed |-> b]
      PROVE  \A i \in 1..Len(inbox') : \A b \in BOOLEAN :
               inbox'[i] # [call |-> c, allowed |-> b]
  BY <1>0, <1>3, <1>6 DEF Relay!Deliver
<1>7. ASSUME NEW t \in Turns, Relay!SendChat(t)
      PROVE  \A i \in 1..Len(inbox') : \A b \in BOOLEAN :
               inbox'[i] # [call |-> c, allowed |-> b]
  <2>1. [turn |-> t] \in Chats /\ \A b \in BOOLEAN : [turn |-> t] # [call |-> c, allowed |-> b]
    BY DEF Chats
  <2>2. QED BY <1>6, <1>7, <2>1 DEF Relay!SendChat
<1>8. ASSUME NEW d \in Calls, NEW a \in BOOLEAN, Relay!SendReply(d, a)
      PROVE  \A i \in 1..Len(inbox') : \A b \in BOOLEAN :
               inbox'[i] # [call |-> c, allowed |-> b]
  <2>1. d # c
    BY <1>2, <1>8 DEF Relay!SendReply
  <2>2. /\ [call |-> d, allowed |-> a] \in Replies
        /\ \A b \in BOOLEAN : [call |-> d, allowed |-> a] # [call |-> c, allowed |-> b]
    BY <2>1 DEF Replies
  <2>3. QED BY <1>6, <1>8, <2>2 DEF Relay!SendReply
<1>9. CASE (\E t \in Turns : Relay!SendChat(t))
           \/ (\E d \in Calls, a \in BOOLEAN : Relay!SendReply(d, a))
  BY <1>3, <1>7, <1>8, <1>9 DEF Relay!SendChat, Relay!SendReply
<1>10. CASE inbox' \in {inbox, <<>>} /\ replies' \subseteq replies
  BY <1>3, <1>10
<1>11. QED
  BY <1>5, <1>9, <1>10
     DEF Relay!Next, Relay!Scheduled, Relay!ReadLoop, Relay!ReplyTo, Relay!Coroutine,
         Relay!Connect, Relay!Lose, Relay!Unbind, Relay!Reap, Relay!StartTurn, Relay!EndTurn,
         Relay!Resolve, Relay!Ask, Relay!Sent, Relay!SendFails, Relay!Expire, Relay!Wake

\* A step changes the state of one call, or of all that are registered or at work.
LEMMA AnswersStep ==
  RelayInv /\ Relay!Next => \A c \in Calls : (Registered(c) /\ Woken(c) /\ Stands(c))'
<1>. SUFFICES ASSUME RelayInv, Relay!Next, NEW c \in Calls
              PROVE  (Registered(c) /\ Woken(c) /\ Stands(c))'
  OBVIOUS
<1>. DEFINE Fine == Registered(c) /\ Woken(c) /\ Stands(c)
<1>0. /\ Fine /\ asked \in [Calls -> CallRec] /\ replies \subseteq Replies
      /\ reply \in [Calls -> BOOLEAN \cup {None}] /\ pending \subseteq Calls
      /\ None # TRUE /\ None # FALSE /\ Shown(c) /\ Bound
  BY AccessAssumption DEF Relay!RelayAssumption, RelayInv, RelayTypes
<1>. USE DEF Registered, Woken, Stands, Relay!Asking
<1>1. CASE UNCHANGED <<asked, pending, reply>>
  BY <1>0, <1>1
<1>2. PICK x \in CallRec : x = asked[c]
  BY <1>0
<1>3. ASSUME Relay!Unbind
      PROVE  Fine'
  <2>1. /\ asked'[c] = IF c \in pending THEN [x EXCEPT !.allowed = FALSE, !.event = TRUE] ELSE x
        /\ pending' = {} /\ reply' = reply
    BY <1>2, <1>3 DEF Relay!Unbind
  <2>2. CASE c \in pending
    <3>1. /\ asked'[c].pc = x.pc /\ asked'[c].allowed = FALSE /\ asked'[c].event = TRUE
      BY <2>1, <2>2 DEF CallRec
    <3>2. QED BY <1>0, <1>2, <2>1, <2>2, <3>1
  <2>3. QED BY <1>0, <1>2, <2>1, <2>2
<1>4. ASSUME Relay!Reap
      PROVE  Fine'
  <2>1. /\ asked'[c] = IF x.pc \in Relay!Asking THEN [x EXCEPT !.pc = "cancelled"] ELSE x
        /\ pending = {} /\ UNCHANGED <<pending, reply>>
    BY <1>0, <1>2, <1>4 DEF Relay!Reap, Bound
  <2>2. asked'[c].pc = "cancelled" \/ asked'[c] = x
    BY <2>1 DEF CallRec
  <2>3. asked'[c].pc = "cancelled" => Fine'
    BY <2>1
  <2>4. QED BY <1>0, <1>2, <2>1, <2>2, <2>3
<1>5. ASSUME NEW r \in replies, Relay!Resolve(r)
      PROVE  Fine'
  <2>1. PICK d \in Calls, b \in BOOLEAN : r = [call |-> d, allowed |-> b]
    BY <1>0 DEF Replies
  <2>2. CASE d # c \/ d \notin pending
    BY <1>0, <1>5, <2>1, <2>2 DEF Relay!Resolve
  <2>3. CASE d = c /\ d \in pending
    <3>1. /\ asked' = [asked EXCEPT ![c] = [x EXCEPT !.allowed = b, !.event = TRUE]]
          /\ pending' = pending \ {c}
          /\ reply' = [reply EXCEPT ![c] = b]
      BY <1>0, <1>2, <1>5, <2>1, <2>3 DEF Relay!Resolve
    <3>2. /\ asked'[c].pc = x.pc /\ asked'[c].allowed = b /\ asked'[c].event = TRUE
          /\ c \notin pending' /\ reply'[c] = b
      BY <1>0, <1>2, <3>1 DEF CallRec
    <3>3. x.pc \notin {"idle", "sending"}
      BY <1>0, <1>2, <2>1, <2>3 DEF Shown
    <3>4. x.pc \in Relay!Asking
      BY <1>0, <1>2, <2>3
    <3>5. QED BY <3>2, <3>3, <3>4
  <2>4. QED BY <2>2, <2>3
<1>6. ASSUME NEW d \in Calls, d # c, asked'[c] = asked[c], reply' = reply,
             pending' \in {pending, pending \cup {d}, pending \ {d}}
      PROVE  Fine'
  BY <1>0, <1>6
<1>7. ASSUME NEW d \in Calls, d # c,
             \/ \E t \in Turns : Relay!Ask(d, t)
             \/ Relay!Sent(d) \/ Relay!SendFails(d) \/ Relay!Expire(d) \/ Relay!Wake(d)
      PROVE  Fine'
  BY <1>0, <1>6, <1>7
     DEF Relay!Ask, Relay!Sent, Relay!SendFails, Relay!Expire, Relay!Wake
<1>8. ASSUME NEW t \in Turns, Relay!Ask(c, t)
      PROVE  Fine'
  <2>1. \/ /\ asked'[c] = [Relay!NewCall EXCEPT !.pc = "sending", !.turn = t]
           /\ pending' = pending \cup {c}
        \/ /\ asked'[c] = [Relay!NewCall EXCEPT !.pc = "denied", !.turn = t]
           /\ pending' = pending
    BY <1>0, <1>8 DEF Relay!Ask
  <2>2. x.pc = "idle" /\ reply' = reply
    BY <1>2, <1>8 DEF Relay!Ask
  <2>3. \/ /\ asked'[c].pc = "sending" /\ c \in pending'
           /\ asked'[c].event = FALSE /\ asked'[c].allowed = FALSE
        \/ asked'[c].pc = "denied" /\ pending' = pending
    BY <2>1 DEF Relay!NewCall
  <2>4. QED BY <1>0, <1>2, <2>2, <2>3
<1>9. ASSUME NEW pc \in CallStates, asked' = [asked EXCEPT ![c].pc = pc]
      PROVE  /\ asked'[c].pc = pc /\ asked'[c].event = x.event /\ asked'[c].allowed = x.allowed
  BY <1>0, <1>2, <1>9 DEF CallRec
<1>10. ASSUME Relay!Sent(c) \/ Relay!Expire(c)
       PROVE  Fine'
  <2>1. PICK pc \in {"waiting", "expiring"} : asked' = [asked EXCEPT ![c].pc = pc]
    BY <1>10 DEF Relay!Sent, Relay!Expire
  <2>2. asked'[c].pc = pc /\ asked'[c].event = x.event /\ asked'[c].allowed = x.allowed
    BY <1>9, <2>1 DEF CallStates
  <2>3. x.pc \in {"sending", "waiting"} /\ UNCHANGED <<pending, reply>>
    BY <1>2, <1>10 DEF Relay!Sent, Relay!Expire
  <2>4. QED BY <1>0, <1>2, <2>1, <2>2, <2>3
<1>11. ASSUME Relay!SendFails(c) \/ Relay!Wake(c)
       PROVE  Fine'
  <2>1. PICK pc \in {"approved", "denied"} :
          /\ asked' = [asked EXCEPT ![c].pc = pc]
          /\ pc = "approved" => x.pc \in {"waiting", "expiring"} /\ x.allowed
          /\ pc = "denied" => x.pc = "sending" \/ (x.pc \in {"waiting", "expiring"} /\ ~x.allowed)
    BY <1>2, <1>11 DEF Relay!SendFails, Relay!Wake
  <2>2. asked'[c].pc = pc /\ c \notin pending' /\ reply' = reply
    BY <1>9, <1>11, <2>1 DEF CallStates, Relay!SendFails, Relay!Wake
  <2>3. x.pc \in Relay!Asking => ((x.allowed = TRUE) <=> (reply[c] = TRUE))
    BY <1>0, <1>2
  <2>4. pc = "approved" => reply[c] = TRUE
    BY <2>1, <2>3
  <2>5. pc = "denied" => reply[c] # TRUE
    BY <1>0, <1>2, <2>1, <2>3
  <2>6. QED BY <2>1, <2>2, <2>4, <2>5
<1>12. QED
  BY <1>1, <1>3, <1>4, <1>5, <1>7, <1>8, <1>10, <1>11
     DEF Relay!Next, Relay!Scheduled, Relay!ReadLoop, Relay!ReplyTo, Relay!Coroutine,
         Relay!Connect, Relay!Lose, Relay!Dispatch, Relay!StartTurn, Relay!EndTurn,
         Relay!SendChat, Relay!SendReply

LEMMA RelayStep == RelayInv /\ [Relay!Next]_(Relay!vars) => RelayInv'
<1>1. ASSUME RelayInv, UNCHANGED Relay!vars
      PROVE  RelayInv'
  <2>1. RelayTypes' /\ Bound'
    BY <1>1 DEF Relay!vars, RelayInv, RelayTypes, Bound
  <2>2. ASSUME NEW c \in Calls
        PROVE  (Shown(c) /\ Registered(c) /\ Woken(c) /\ Stands(c))'
    <3>1. /\ Shown(c) /\ Registered(c) /\ Woken(c) /\ Stands(c)
          /\ UNCHANGED <<inbox, replies, asked, pending, reply>>
      BY <1>1 DEF Relay!vars, RelayInv
    <3>2. Shown(c)'
      BY <3>1 DEF Shown
    <3>3. Registered(c)' /\ Woken(c)' /\ Stands(c)'
      BY <3>1 DEF Registered, Woken, Stands
    <3>4. QED BY <3>2, <3>3
  <2>3. QED BY <2>1, <2>2 DEF RelayInv
<1>2. QED BY <1>1, RelayTypesStep, BoundStep, ShownStep, AnswersStep DEF RelayInv

LEMMA RelayPart == AccessSpec => Relay!Spec
<1>1. [AccessNext]_accessVars => [Relay!Next]_(Relay!vars)
  BY DEF AccessNext, accessVars, relayVars, Relay!vars, OfGrants, OfSigning, OfCollector, AtRelay
<1>2. AccessInit => Relay!Init
  BY DEF AccessInit
<1>3. QED BY <1>1, <1>2, PTL DEF AccessSpec, Relay!Spec

LEMMA RelaySizes == \A S : Relay!Cardinality(S) = Cardinality(S)
BY DEF Relay!Cardinality, Relay!IsFiniteSet, Cardinality, IsFiniteSet

\* What a human said stands (cli/serve.py, RelayApprovalHandler): a call is approved only
\* by the first reply that found it waiting, and denied by nothing that comes after it;
\* nobody waits at an unbound socket; and one conversation is held at a time - whatever
\* is lost, late, answered twice or reconnected.
THEOREM HumansAreObeyed == AccessSpec => []AnswersStand
<1>1. ASSUME RelayInv
      PROVE  Relay!AnswersStand
  <2>1. SUFFICES ASSUME NEW c \in Calls
                 PROVE  /\ asked[c].pc = "approved" => reply[c] = TRUE
                        /\ reply[c] = TRUE =>
                             asked[c].pc \in {"waiting", "expiring", "approved", "cancelled"}
                        /\ link \in {"grace", "down"} /\ asked[c].pc \in {"sending", "waiting"} =>
                             asked[c].event
    BY DEF Relay!AnswersStand
  <2>2. /\ asked[c].pc \in CallStates /\ Bound /\ Woken(c) /\ Stands(c) /\ None # TRUE
    BY <1>1, AccessAssumption DEF RelayInv, RelayTypes, CallRec, Relay!RelayAssumption
  <2>3. QED BY <2>2 DEF Bound, Woken, Stands, CallStates, Relay!Asking
<1>2. ASSUME RelayInv
      PROVE  Relay!OneTurnAtATime
  <2>1. PICK S : S = {t \in Turns : turn[t] = "running"}
    OBVIOUS
  <2>2. \A t \in Turns : turn[t] = "running" => lock = t
    BY <1>2 DEF RelayInv, Bound
  <2>3. \A t \in S : t = lock
    BY <2>1, <2>2
  <2>4. S = {} \/ S = {lock}
    BY <2>3
  <2>5. Cardinality(S) \in {0, 1}
    BY <2>4, FS_EmptySet, FS_Singleton
  <2>6. Relay!Cardinality(S) = Cardinality(S) /\ Cardinality(S) <= 1
    BY <2>5, RelaySizes
  <2>7. QED BY <2>1, <2>6 DEF Relay!OneTurnAtATime
<1>3. RelayInv => AnswersStand
  BY <1>1, <1>2 DEF AnswersStand
<1>4. QED BY <1>3, RelayInit, RelayStep, RelayPart, PTL DEF Relay!Spec

-----------------------------------------------------------------------------
(* The collector: what is known of a revocation ages with the rows that miss   *)
(* it, and the next query that sees it is never far.                           *)

Ages == 0..Horizon

CollectorTypes ==
  /\ revoked \in [Keys -> Ages \cup {None}]
  /\ snapshot \in [keys : SUBSET Keys, age : Ages]
  /\ timer \in 0..PollInterval - 1 /\ due \in BOOLEAN
  /\ load \in Collector!Loads \cup {None}

\* The query at work has read rows, with this key among them.
Missing(k) == load # None /\ load.rows # None /\ k \in load.rows

\* Rows that miss a revocation are no younger than it.
Aged(k) ==
  revoked[k] # None =>
    /\ k \in snapshot.keys => revoked[k] <= snapshot.age + LoadTimeout
    /\ Missing(k) => revoked[k] <= load.age

\* The ticker has not fired since the query began.
Timely == load # None /\ ~due => load.age <= timer

Longest == IF PollInterval >= LoadTimeout THEN PollInterval ELSE LoadTimeout

\* Without failures a revocation is seen by the query at work, or one begins soon.
Prompt(k) ==
  revoked[k] # None /\ k \notin failed /\ k \in snapshot.keys =>
    /\ load # None /\ ~Missing(k) => revoked[k] <= Longest + load.age
    /\ load = None => revoked[k] <= IF due THEN Longest ELSE timer

CollectorInv == CollectorTypes /\ Timely /\ \A k \in Keys : Aged(k) /\ Prompt(k)

LEMMA CollectorStart == Collector!Init => CollectorInv
<1>. SUFFICES ASSUME Collector!Init PROVE CollectorInv OBVIOUS
<1>1. CollectorTypes
  <2>1. 0 \in Ages /\ 0 \in 0..PollInterval - 1
    BY AccessAssumption DEF Collector!CollectorAssumption, Ages
  <2>2. [keys |-> Keys, age |-> 0] \in [keys : SUBSET Keys, age : Ages]
    BY <2>1
  <2>3. QED BY <2>1, <2>2 DEF Collector!Init, CollectorTypes
<1>2. Timely /\ \A k \in Keys : Aged(k) /\ Prompt(k)
  BY DEF Collector!Init, Timely, Aged, Prompt
<1>3. QED BY <1>1, <1>2 DEF CollectorInv

LEMMA CollectorTypesStep == CollectorInv /\ Collector!Next => CollectorTypes'
<1>. SUFFICES ASSUME CollectorInv, Collector!Next PROVE CollectorTypes' OBVIOUS
<1>0. CollectorTypes /\ Collector!CollectorAssumption
  BY AccessAssumption DEF CollectorInv
<1>. USE DEF CollectorTypes, Collector!CollectorAssumption, Ages
<1>1. ASSUME Collector!Tick
      PROVE  CollectorTypes'
  <2>1. \A a \in Ages : Collector!Older(a) \in Ages
    BY <1>0 DEF Collector!Older
  <2>2. snapshot' \in [keys : SUBSET Keys, age : Ages]
    BY <1>0, <1>1, <2>1 DEF Collector!Tick
  <2>3. load' \in Collector!Loads \cup {None}
    BY <1>0, <1>1 DEF Collector!Tick, Collector!Loads
  <2>4. timer' \in 0..PollInterval - 1 /\ due' \in BOOLEAN
    BY <1>0, <1>1 DEF Collector!Tick
  <2>5. revoked' \in [Keys -> Ages \cup {None}]
    BY <1>0, <1>1, <2>1 DEF Collector!Tick
  <2>6. QED BY <2>2, <2>3, <2>4, <2>5
<1>2. ASSUME NEW k \in Keys, Collector!Revoke(k)
      PROVE  CollectorTypes'
  BY <1>0, <1>2 DEF Collector!Revoke
<1>3. ASSUME Collector!StartLoad
      PROVE  CollectorTypes'
  <2>1. [age |-> 0, rows |-> None] \in Collector!Loads
    BY <1>0 DEF Collector!Loads
  <2>2. QED BY <1>0, <1>3, <2>1 DEF Collector!StartLoad
<1>4. ASSUME Collector!ReadRows
      PROVE  CollectorTypes'
  <2>1. load \in Collector!Loads /\ {k \in Keys : revoked[k] = None} \in SUBSET Keys
    BY <1>0, <1>4 DEF Collector!ReadRows
  <2>2. load' \in Collector!Loads
    BY <1>4, <2>1 DEF Collector!ReadRows, Collector!Loads
  <2>3. QED BY <1>0, <1>4, <2>2 DEF Collector!ReadRows
<1>5. ASSUME Collector!Loaded
      PROVE  CollectorTypes'
  <2>1. load.rows \in SUBSET Keys
    BY <1>0, <1>5 DEF Collector!Loaded, Collector!Loads
  <2>2. QED BY <1>0, <1>5, <2>1 DEF Collector!Loaded
<1>6. ASSUME Collector!LoadFails
      PROVE  CollectorTypes'
  BY <1>0, <1>6 DEF Collector!LoadFails
<1>7. ASSUME NEW r \in Requests,
             Collector!Lookup(r) \/ Collector!Answered(r) \/ Collector!Refused(r)
      PROVE  CollectorTypes'
  BY <1>0, <1>7 DEF Collector!Lookup, Collector!Answered, Collector!Refused
<1>8. QED BY <1>1, <1>2, <1>3, <1>4, <1>5, <1>6, <1>7 DEF Collector!Next

LEMMA CollectorTimes ==
  ASSUME CollectorInv
  PROVE  /\ {PollInterval, LoadTimeout, Longest} \subseteq Nat
         /\ PollInterval <= Longest /\ LoadTimeout <= Longest
         /\ PollInterval > 0 /\ timer \in Nat /\ timer < PollInterval /\ snapshot.age \in Nat
         /\ load # None => load.age \in Nat /\ load.age <= LoadTimeout
         /\ \A k \in Keys : revoked[k] # None => revoked[k] \in Nat /\ revoked[k] <= Horizon
BY AccessAssumption
   DEF Collector!CollectorAssumption, Longest, CollectorInv, CollectorTypes, Collector!Loads, Ages

LEMMA Wraps ==
  ASSUME NEW n \in Nat \ {0}, NEW i \in 0..n - 1
  PROVE  (i + 1) % n = IF i + 1 = n THEN 0 ELSE i + 1
OBVIOUS

LEMMA TimelyStep == CollectorInv /\ Collector!Next => Timely'
<1>. SUFFICES ASSUME CollectorInv, Collector!Next PROVE Timely' OBVIOUS
<1>0. Timely /\ timer \in Nat /\ timer < PollInterval /\ PollInterval \in Nat \ {0}
  BY CollectorTimes DEF CollectorInv
<1>1. CASE Collector!Tick
  <2>0. timer' = (timer + 1) % PollInterval /\ (~due' => ~due /\ timer' # 0)
    BY <1>1, Zenon DEF Collector!Tick
  <2>1. ~due' => ~due /\ timer' = timer + 1
    BY <1>0, <2>0, Wraps
  <2>2. CASE load = None
    BY <1>1, <2>2 DEF Collector!Tick, Timely
  <2>3. CASE load # None
    <3>1. load'.age = load.age + 1 /\ load.age \in Nat
      BY <1>1, <2>3, CollectorTimes DEF Collector!Tick, CollectorInv, CollectorTypes, Collector!Loads
    <3>2. QED BY <1>0, <2>1, <2>3, <3>1 DEF Timely
  <2>4. QED BY <2>2, <2>3
<1>2. CASE Collector!StartLoad
  <2>1. load'.age = 0 /\ timer' = timer
    BY <1>2 DEF Collector!StartLoad
  <2>2. QED BY <1>0, <2>1 DEF Timely
<1>3. CASE Collector!ReadRows
  <2>1. load \in Collector!Loads /\ UNCHANGED <<timer, due>>
    BY <1>3 DEF Collector!ReadRows, CollectorInv, CollectorTypes
  <2>2. load'.age = load.age
    BY <1>3, <2>1 DEF Collector!ReadRows, Collector!Loads
  <2>3. QED BY <1>0, <1>3, <2>1, <2>2 DEF Timely, Collector!ReadRows
<1>4. CASE ~Collector!Tick /\ ~Collector!StartLoad /\ ~Collector!ReadRows
  BY <1>0, <1>4
     DEF Timely, Collector!Next, Collector!Loaded, Collector!LoadFails,
         Collector!Revoke, Collector!Lookup, Collector!Answered, Collector!Refused
<1>5. QED BY <1>1, <1>2, <1>3, <1>4

LEMMA RevocationStep ==
  CollectorInv /\ Collector!Next => \A k \in Keys : Aged(k)' /\ Prompt(k)'
<1>. SUFFICES ASSUME CollectorInv, Collector!Next, NEW k \in Keys
              PROVE  Aged(k)' /\ Prompt(k)'
  OBVIOUS
<1>0. /\ Aged(k) /\ Prompt(k) /\ Timely
      /\ revoked \in [Keys -> Ages \cup {None}] /\ load \in Collector!Loads \cup {None}
      /\ snapshot \in [keys : SUBSET Keys, age : Ages]
  BY DEF CollectorInv, CollectorTypes
<1>n. None \notin Nat /\ None \notin Collector!Loads /\ Horizon \in Nat
  BY AccessAssumption DEF Collector!CollectorAssumption
<1>. USE DEF Aged, Prompt
<1>1. ASSUME UNCHANGED <<revoked, snapshot, timer, due, load>>, failed \subseteq failed'
      PROVE  Aged(k)' /\ Prompt(k)'
  <2>1. Missing(k)' <=> Missing(k)
    BY <1>1 DEF Missing
  <2>2. QED BY <1>0, <1>1, <2>1
<1>2. ASSUME Collector!Tick
      PROVE  Aged(k)' /\ Prompt(k)'
  <2>1. \A a \in Ages : Collector!Older(a) \in Nat /\ Collector!Older(a) <= a + 1
    BY <1>n DEF Collector!Older, Ages
  <2>2. revoked[k] = None => revoked'[k] = None
    BY <1>2 DEF Collector!Tick
  <2>3. SUFFICES ASSUME revoked[k] # None PROVE Aged(k)' /\ Prompt(k)'
    BY <2>2
  <2>4. /\ revoked'[k] = Collector!Older(revoked[k]) /\ revoked[k] \in Ages
        /\ snapshot' = [snapshot EXCEPT !.age = Collector!Older(@)]
        /\ timer' = (timer + 1) % PollInterval /\ failed' = failed
    BY <1>0, <1>2, <2>3 DEF Collector!Tick
  <2>5. /\ snapshot'.keys = snapshot.keys /\ snapshot.age \in Ages
        /\ snapshot'.age = Collector!Older(snapshot.age)
    BY <1>0, <2>4
  <2>6. /\ load = None => load' = None
        /\ load # None => load' # None /\ load'.rows = load.rows /\ load'.age = load.age + 1
    <3>1. CASE load = None
      BY <1>2, <3>1 DEF Collector!Tick
    <3>2. CASE load # None
      <4>1. /\ load \in Collector!Loads /\ load.age < LoadTimeout
            /\ load' = [load EXCEPT !.age = load.age + 1]
        BY <1>0, <1>2, <3>2 DEF Collector!Tick
      <4>2. load'.rows = load.rows /\ load'.age = load.age + 1
        BY <4>1 DEF Collector!Loads
      <4>3. load' \in Collector!Loads
        BY <4>1, CollectorTimes DEF Collector!Loads
      <4>4. QED BY <1>n, <3>2, <4>2, <4>3
    <3>3. QED BY <3>1, <3>2
  <2>7. Missing(k)' <=> Missing(k)
    BY <2>6 DEF Missing
  <2>8. /\ revoked[k] \in Nat /\ revoked'[k] \in Nat /\ revoked'[k] <= revoked[k] + 1
        /\ revoked'[k] <= Horizon
        /\ snapshot'.age = snapshot.age + 1 \/ snapshot'.age = Horizon
    BY <1>n, <2>1, <2>4, <2>5 DEF Collector!Older, Ages
  <2>9. Aged(k)'
    <3>1. k \in snapshot'.keys => revoked'[k] <= snapshot'.age + LoadTimeout
      BY <1>0, <1>n, <2>3, <2>5, <2>8, CollectorTimes
    <3>2. Missing(k)' => revoked'[k] <= load'.age
      BY <1>0, <2>3, <2>6, <2>7, <2>8, CollectorTimes DEF Missing
    <3>3. QED BY <3>1, <3>2
  <2>10. /\ ~due' => ~due /\ timer' # 0
         /\ load = None => ~due
    BY <1>2, Zenon DEF Collector!Tick
  <2>11. ~due' => timer' = timer + 1
    BY <2>4, <2>10, Wraps, CollectorTimes DEF CollectorInv, CollectorTypes
  <2>12. SUFFICES ASSUME revoked'[k] # None, k \notin failed, k \in snapshot.keys
                  PROVE  /\ load # None /\ ~Missing(k) => revoked'[k] <= Longest + load'.age
                         /\ load = None => revoked'[k] <= IF due' THEN Longest ELSE timer'
    BY <2>4, <2>5, <2>6, <2>7, <2>9
  <2>13. ASSUME load # None, ~Missing(k)
         PROVE  revoked'[k] <= Longest + load'.age
    BY <1>0, <2>3, <2>6, <2>8, <2>12, <2>13, CollectorTimes
  <2>14. ASSUME load = None
         PROVE  revoked'[k] <= IF due' THEN Longest ELSE timer'
    <3>1. revoked[k] <= timer
      BY <1>0, <2>3, <2>10, <2>12, <2>14
    <3>2. revoked'[k] <= timer + 1 /\ revoked'[k] <= Longest
      BY <2>8, <3>1, CollectorTimes
    <3>3. QED BY <2>11, <3>2
  <2>15. QED BY <2>13, <2>14
<1>3. ASSUME NEW j \in Keys, Collector!Revoke(j)
      PROVE  Aged(k)' /\ Prompt(k)'
  <2>1. UNCHANGED <<snapshot, timer, due, load, failed>> /\ (Missing(k)' <=> Missing(k))
    BY <1>3 DEF Collector!Revoke, Missing
  <2>2. CASE j = k
    <3>1. revoked'[k] = 0
      BY <1>0, <1>3, <2>2 DEF Collector!Revoke
    <3>2. Missing(k) => load.age \in Nat
      BY CollectorTimes DEF Missing
    <3>3. QED BY <1>n, <2>1, <3>1, <3>2, CollectorTimes
  <2>3. CASE j # k
    <3>1. revoked'[k] = revoked[k]
      BY <1>0, <1>3, <2>3 DEF Collector!Revoke
    <3>2. QED BY <1>0, <2>1, <3>1
  <2>4. QED BY <2>2, <2>3
<1>4. ASSUME Collector!StartLoad
      PROVE  Aged(k)' /\ Prompt(k)'
  <2>1. /\ UNCHANGED <<revoked, snapshot, timer, failed>> /\ due /\ load = None
        /\ load' = [age |-> 0, rows |-> None]
    BY <1>4 DEF Collector!StartLoad
  <2>2. load'.age = 0 /\ load'.rows = None /\ ~Missing(k)'
    BY <2>1 DEF Missing
  <2>3. load' # None
    BY <1>n, <2>1, CollectorTimes DEF Collector!Loads
  <2>4. QED BY <1>0, <2>1, <2>2, <2>3, CollectorTimes
<1>5. ASSUME Collector!ReadRows
      PROVE  Aged(k)' /\ Prompt(k)'
  <2>1. /\ UNCHANGED <<revoked, snapshot, timer, due, failed>>
        /\ load \in Collector!Loads /\ load # None /\ load.rows = None
        /\ load' = [load EXCEPT !.rows = {j \in Keys : revoked[j] = None}]
    BY <1>0, <1>5 DEF Collector!ReadRows
  <2>2. load'.age = load.age /\ load'.rows = {j \in Keys : revoked[j] = None}
    BY <2>1 DEF Collector!Loads
  <2>3. /\ revoked[k] # None => ~Missing(k)' /\ ~Missing(k)
        /\ snapshot' = snapshot
    BY <1>5, <2>1, <2>2 DEF Missing, Collector!ReadRows
  <2>4. load' # None
    <3>1. {j \in Keys : revoked[j] = None} \in SUBSET Keys
      OBVIOUS
    <3>2. load' \in Collector!Loads
      BY <2>1, <3>1 DEF Collector!Loads
    <3>3. QED BY <1>n, <3>2
  <2>5. QED BY <1>0, <2>1, <2>2, <2>3, <2>4
<1>6. ASSUME Collector!Loaded
      PROVE  Aged(k)' /\ Prompt(k)'
  <2>1. /\ UNCHANGED <<revoked, timer, due, failed>> /\ load' = None
        /\ load \in Collector!Loads /\ load # None /\ load.rows # None
        /\ snapshot' = [keys |-> load.rows, age |-> 0]
    BY <1>0, <1>6 DEF Collector!Loaded
  <2>2. snapshot'.keys = load.rows /\ snapshot'.age = 0 /\ ~Missing(k)'
    BY <2>1 DEF Missing
  <2>3. k \in snapshot'.keys <=> Missing(k)
    BY <2>1, <2>2 DEF Missing
  <2>4. SUFFICES ASSUME revoked[k] # None, Missing(k)
                 PROVE  /\ revoked[k] <= 0 + LoadTimeout
                        /\ revoked[k] <= IF due THEN Longest ELSE timer
    BY <2>1, <2>2, <2>3
  <2>5. revoked[k] <= load.age
    BY <1>0, <2>4
  <2>6. ~due => load.age <= timer
    BY <1>0, <2>1 DEF Timely
  <2>7. QED BY <2>1, <2>4, <2>5, <2>6, CollectorTimes
<1>7. ASSUME Collector!LoadFails
      PROVE  Aged(k)' /\ Prompt(k)'
  <2>1. UNCHANGED <<revoked, snapshot>> /\ load' = None /\ (revoked[k] # None => k \in failed')
    BY <1>7 DEF Collector!LoadFails
  <2>2. QED BY <1>0, <2>1 DEF Missing
<1>8. QED
  BY <1>1, <1>2, <1>3, <1>4, <1>5, <1>6, <1>7
     DEF Collector!Next, Collector!Lookup, Collector!Answered, Collector!Refused

LEMMA CollectorStep == CollectorInv /\ [Collector!Next]_(Collector!vars) => CollectorInv'
<1>1. ASSUME CollectorInv, UNCHANGED Collector!vars
      PROVE  CollectorInv'
  BY <1>1 DEF Collector!vars, CollectorInv, CollectorTypes, Timely, Aged, Prompt, Missing
<1>2. QED BY <1>1, CollectorTypesStep, TimelyStep, RevocationStep DEF CollectorInv

\* An outage in the log since when nothing was answered.
Logged == ~silent /\ (unavailable => ~logged)

LEMMA LoggedStep == Logged /\ [Collector!Next]_(Collector!vars) => Logged'
<1>1. ASSUME Logged, NEW r \in Requests, Collector!Refused(r)
      PROVE  Logged'
  BY <1>1, Zenon DEF Logged, Collector!Refused
<1>2. ASSUME Logged, NEW r \in Requests, Collector!Answered(r)
      PROVE  Logged'
  BY <1>2, Zenon DEF Logged, Collector!Answered
<1>3. ASSUME Logged, UNCHANGED <<unavailable, logged, silent>>
      PROVE  Logged'
  BY <1>3 DEF Logged
<1>4. QED
  BY <1>1, <1>2, <1>3
     DEF Collector!Next, Collector!vars, Collector!Tick, Collector!StartLoad,
         Collector!ReadRows, Collector!Loaded, Collector!LoadFails, Collector!Revoke,
         Collector!Lookup

LEMMA CollectorPart == AccessSpec => Collector!Spec
<1>1. [AccessNext]_accessVars => [Collector!Next]_(Collector!vars)
  BY DEF AccessNext, accessVars, collectorVars, Collector!vars, OfGrants, OfSigning,
         OfCollector, AtRelay, vars
<1>2. AccessInit => Collector!Init
  BY DEF AccessInit
<1>3. QED BY <1>1, <1>2, PTL DEF AccessSpec, Collector!Spec

\* A revocation reaches the collector (hexgatebiscuitauth/cache.go, extension.go): for
\* any intervals a revoked key is accepted no longer than rows may be trusted and one
\* query takes, and without a failed query no longer than to the end of the next; and
\* an outage that refuses requests is in the log.
THEOREM RevokedKeysAreRefused == AccessSpec => []RevocationsReach
<1>1. ASSUME CollectorInv
      PROVE  Collector!RevocationsReach
  <2>1. SUFFICES ASSUME NEW k \in Keys, Collector!Accepted(k), revoked[k] # None
                 PROVE  /\ revoked[k] <= MaxStaleness + LoadTimeout
                        /\ k \notin failed =>
                             revoked[k] <= Collector!Max({PollInterval, LoadTimeout}) + LoadTimeout
    BY DEF Collector!RevocationsReach
  <2>2. k \in snapshot.keys /\ snapshot.age <= MaxStaleness /\ MaxStaleness \in Nat
    BY <2>1, AccessAssumption
       DEF Collector!Accepted, Collector!Trusted, Collector!CollectorAssumption
  <2>3. Aged(k) /\ Prompt(k) /\ Timely
    BY <1>1 DEF CollectorInv
  <2>4. revoked[k] <= MaxStaleness + LoadTimeout
    BY <1>1, <2>1, <2>2, <2>3, CollectorTimes DEF Aged
  <2>5. Collector!Max({PollInterval, LoadTimeout}) = Longest
    BY <1>1, CollectorTimes DEF Collector!Max, Longest
  <2>6. ASSUME k \notin failed
        PROVE  revoked[k] <= Longest + LoadTimeout
    <3>1. CASE load = None
      BY <1>1, <2>1, <2>2, <2>3, <2>6, <3>1, CollectorTimes DEF Prompt
    <3>2. CASE load # None
      BY <1>1, <2>1, <2>2, <2>3, <2>6, <3>2, CollectorTimes DEF Prompt, Aged
    <3>3. QED BY <3>1, <3>2
  <2>7. QED BY <2>4, <2>5, <2>6
<1>2. CollectorInv /\ Logged => RevocationsReach
  BY <1>1 DEF RevocationsReach, Logged, Collector!OutagesAreLogged
<1>3. Collector!Init => Logged
  BY DEF Collector!Init, Logged
<1>4. QED
  BY <1>2, <1>3, CollectorStart, CollectorStep, LoggedStep, CollectorPart, PTL
     DEF Collector!Spec
=============================================================================
