------------------------------- MODULE MCAccess -------------------------------
(* Who is let in, and on whose word: the grants of an OAuth login (this        *)
(* module's own variables), the platform's signing key, the collector's view   *)
(* of the API keys, and the approvals that humans give in a browser.  They     *)
(* share no state: each behaviour is one of one of them.                      *)
EXTENDS OAuthGrants

CONSTANTS
  p1, p2,
  Processes, MaxKeys,
  Keys, PollInterval, MaxStaleness, LoadTimeout, Horizon,
  Turns, Calls, MaxConnects, MaxInbox, MaxReplies

VARIABLES part,
          priv, pub, generated, proc,
          revoked, snapshot, timer, due, load, unavailable, lookup, failed, logged, silent,
          link, connects, lock, inbox, replies, turn, asked, pending, reply

Signing == INSTANCE KeyStore

Collector == INSTANCE CollectorKeys WITH req <- lookup, answered <- logged

Relay == INSTANCE RemoteApprovals WITH call <- asked, answer <- reply

ASSUME AccessAssumption ==
  /\ Signing!KeysAssumption /\ Collector!CollectorAssumption /\ Relay!RelayAssumption
  /\ {p1, p2} \subseteq Requests

keyVars == <<priv, pub, generated, proc>>
collectorVars ==
  <<revoked, snapshot, timer, due, load, unavailable, lookup, failed, logged, silent>>
relayVars == <<link, connects, lock, inbox, replies, turn, asked, pending, reply>>
accessVars == <<part, vars, keyVars, collectorVars, relayVars>>

\* The parts that are not looked at have one state.
AccessInit ==
  /\ part \in {"grants", "signing", "collector", "relay"}
  /\ Init /\ Signing!Init /\ Collector!Init /\ Relay!Init

OfGrants(A) ==
  /\ part = "grants" /\ A
  /\ UNCHANGED <<part, keyVars, collectorVars, relayVars>>

OfSigning(A) ==
  part = "signing" /\ A /\ UNCHANGED <<part, vars, collectorVars, relayVars>>

OfCollector(A) ==
  part = "collector" /\ A /\ UNCHANGED <<part, vars, keyVars, relayVars>>

AtRelay(A) ==
  part = "relay" /\ A /\ UNCHANGED <<part, vars, keyVars, collectorVars>>

AccessNext ==
  \/ OfGrants(Next) \/ OfSigning(Signing!Next)
  \/ OfCollector(Collector!Next) \/ AtRelay(Relay!Next)

\* The fairness of each part's own specification: a condition of two parts is
\* that of the part the behaviour is of.
AccessSpec ==
  /\ AccessInit /\ [][AccessNext]_accessVars
  /\ WF_accessVars(OfGrants(Proceed(p1)) \/ AtRelay(Relay!ReadLoop))
  /\ \A c \in Calls :
       /\ WF_accessVars(OfGrants(Proceed(p2)) \/ AtRelay(Relay!Coroutine(c)))
       /\ WF_accessVars(AtRelay(Relay!ReplyTo(c)))
  /\ \A p \in Requests : SF_accessVars(OfGrants(RevokeRow(p)))

-----------------------------------------------------------------------------
(* What the modules promise; each says there what it is about.             *)

\* All processes sign with one key, for good.
OneSigningKey == Signing!OneSigningKey

\* A revoked key is refused soon, and an outage that refuses others is logged.
RevocationsReach ==
  part = "collector" => Collector!RevocationsReach /\ Collector!OutagesAreLogged

\* A human's answer stands, and one conversation is held at a time.
AnswersStand == Relay!AnswersStand /\ Relay!OneTurnAtATime

\* A revocation ends (requests are alike: one stands for both), and a human's
\* answer reaches the call that waits for it.
AnswersArrive == RevocationEnds(p1) /\ Relay!AnswersArrive
=============================================================================
