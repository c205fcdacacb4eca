------------------------------- MODULE Logins -------------------------------
(***************************************************************************)
(* What the OAuth rows promise of one login: it is started once, has one   *)
(* usable refresh token at a time, hands out one never seen before for it, *)
(* and when it is over it stays over.                                      *)
(***************************************************************************)
CONSTANTS Codes, Tokens, None

VARIABLES
  login,      \* by the code it started from: unborn, live or over; its token
  issued      \* every token handed out so far

vars == <<login, issued>>

Unborn == [status |-> "unborn", token |-> None]
LiveWith(t) == [status |-> "live", token |-> t]
Over == [status |-> "over", token |-> None]

Init == login = [c \in Codes |-> Unborn] /\ issued = {}

\* The first token, or the next.
Hand(c, t) ==
  /\ login[c].status # "over"
  /\ t \notin issued
  /\ login' = [login EXCEPT ![c] = LiveWith(t)]
  /\ issued' = issued \cup {t}

\* Revocation ends one login; a purge of rows that expired ends several.
End(cs) ==
  /\ \A c \in cs : login[c].status = "live"
  /\ login' = [c \in Codes |-> IF c \in cs THEN Over ELSE login[c]]
  /\ UNCHANGED issued

Next ==
  \/ \E c \in Codes, t \in Tokens : Hand(c, t)
  \/ \E cs \in SUBSET Codes : End(cs)

Spec == Init /\ [][Next]_vars
=============================================================================
