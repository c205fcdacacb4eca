---------------------------- MODULE OAuthGrants ----------------------------
(***************************************************************************)
(* The rows of an OAuth login (features/oauth/grants.py) under the         *)
(* requests of provider.py and router.py: a code is redeemed, its tokens   *)
(* issued, rotated at each use, revoked by the user, by the client, or     *)
(* because a code or a token came twice, and the rows of dead logins are   *)
(* purged.                                                                 *)
(*                                                                         *)
(* The rows live in Postgres, read committed: a statement sees what is     *)
(* committed when it starts; an UPDATE (or SELECT FOR UPDATE) that meets a *)
(* row another transaction has written waits for its commit, looks at the  *)
(* row again, and never learns of rows that appeared meanwhile.  `row' and *)
(* `code' hold committed values; what a transaction has written is in the  *)
(* state of its request, which thereby holds the row locks.                *)
(***************************************************************************)
EXTENDS Naturals, FiniteSets

CONSTANTS
  Codes,         \* one-time codes, each of a consented login
  Tokens,        \* ids of refresh rows
  Requests,      \* requests in progress at once
  None,
  CodeTTL, TokenTTL, MaxLoginAge, ReuseWindow, CodeRetention, TokenRetention,
  PurgeBatch,
  MaxTime        \* bound: the clock stops

ASSUME OAuthAssumption ==
  /\ None \notin Tokens \cup Codes \cup Nat
  /\ {CodeTTL, TokenTTL, MaxLoginAge, ReuseWindow} \subseteq Nat \ {0}
  /\ {CodeRetention, TokenRetention, PurgeBatch, MaxTime} \subseteq Nat

VARIABLES
  now,
  code,          \* code rows
  row,           \* refresh rows, by id
  req,           \* the requests
  answered       \* families whose revocation was answered (for the properties)

vars == <<now, code, row, req, answered>>

Time == 0..(MaxTime + TokenTTL + CodeTTL + MaxLoginAge)

CodeRow == [state : {"none", "kept", "purged"}, used : BOOLEAN,
            replayed : BOOLEAN, expires : Time]

RefreshRow == [state : {"none", "kept", "purged"}, code : Codes \cup {None},
               family : Tokens \cup {None}, revoked : Time \cup {None},
               replaced : BOOLEAN, created : Time, expires : Time]

\* Where a request stands; in "issuing", "rotating", "revoking" and "checking"
\* its transaction has written.
PCs == {"idle", "refused", "toIssue", "issuing", "toRotate", "rotating",
        "reused", "revoking", "checking"}

\* token: the row the request is about; new: the row it inserts; locked: the
\* code row it has locked; todo: rows its UPDATE has yet to visit; mine: rows
\* it has revoked; by: what the revocation selects rows by.
Request == [pc : PCs, code : Codes \cup {None}, token : Tokens \cup {None},
            new : Tokens \cup {None}, locked : Codes \cup {None},
            todo : SUBSET Tokens, mine : SUBSET Tokens,
            by : {"family", "code", "none"}]

Idle == [pc |-> "idle", code |-> None, token |-> None, new |-> None,
         locked |-> None, todo |-> {}, mine |-> {}, by |-> "none"]

NoRow == [state |-> "none", code |-> None, family |-> None, revoked |-> None,
          replaced |-> FALSE, created |-> 0, expires |-> 0]

Init ==
  /\ now = 0
  /\ code = [c \in Codes |-> [state |-> "none", used |-> FALSE,
                              replayed |-> FALSE, expires |-> 0]]
  /\ row = [t \in Tokens |-> NoRow]
  /\ req = [p \in Requests |-> Idle]
  /\ answered = {}

-----------------------------------------------------------------------------
(* Rows and locks.                                                         *)

Live(t) == row[t].state = "kept" /\ row[t].revoked = None

\* The rows a transaction has written: an UPDATE of another waits.
Written(p) == req[p].mine \cup (IF req[p].pc = "rotating" THEN {req[p].token} ELSE {})

RowFree(t) == \A p \in Requests : t \notin Written(p)
CodeFree(c) == \A p \in Requests : req[p].locked # c

\* A new row gets an id of its own.
Unused == {t \in Tokens : row[t].state = "none" /\ \A p \in Requests : req[p].new # t}
NewId == CHOOSE t \in Unused : TRUE

Lesser(a, b) == IF a <= b THEN a ELSE b

\* login_end: however often it is refreshed, the login ends then.
LoginEnd(r) == r.created + MaxLoginAge

\* rotated_moments_ago: replaced by a refresh within the reuse window, not
\* revoked with its whole login.
RotatedMomentsAgo(r) == r.replaced /\ now - r.revoked < ReuseWindow

\* The rows a revocation selects.
Selected(p) == {t \in Tokens : /\ row[t].state = "kept"
                               /\ IF req[p].by = "code" THEN row[t].code = req[p].code
                                  ELSE row[t].family = row[req[p].token].family}

\* What its next statement finds live: committed, and not its own doing.
LiveSelected(p) == {t \in Selected(p) : Live(t)} \ req[p].mine

To(p, r) == req' = [req EXCEPT ![p] = r]

-----------------------------------------------------------------------------
(* The code: consent, redemption, first tokens.                            *)

\* issue_code, when the user has consented.
IssueCode(c) ==
  /\ code[c].state = "none"
  /\ code' = [code EXCEPT ![c].state = "kept", ![c].expires = now + CodeTTL]
  /\ UNCHANGED <<now, row, req, answered>>

\* (Mutant) The code is checked, and spent later by what it issues.
RedeemCodeUnspent(p, c) ==
  /\ req[p].pc = "idle"
  /\ code[c].state = "kept" /\ CodeFree(c)
  /\ \/ /\ ~code[c].used /\ code[c].expires > now
        /\ code' = code
        /\ To(p, [Idle EXCEPT !.pc = "toIssue", !.code = c])
     \/ /\ code[c].used \/ code[c].expires <= now
        /\ To(p, [Idle EXCEPT !.pc = "refused", !.code = c])
        /\ UNCHANGED code
  /\ UNCHANGED <<now, row, answered>>

\* redeem_code: one conditional UPDATE, committed before the client, redirect
\* and verifier are checked, so a mismatch burns the code (back to idle).
RedeemCode(p, c) ==
  /\ req[p].pc = "idle"
  /\ code[c].state = "kept" /\ CodeFree(c)
  /\ \/ /\ ~code[c].used /\ code[c].expires > now
        /\ code' = [code EXCEPT ![c].used = TRUE]
        /\ \/ To(p, [Idle EXCEPT !.pc = "toIssue", !.code = c])
           \/ UNCHANGED req
     \/ /\ code[c].used \/ code[c].expires <= now
        /\ To(p, [Idle EXCEPT !.pc = "refused", !.code = c])
        /\ UNCHANGED code
  /\ UNCHANGED <<now, row, answered>>

\* revoke_replayed_code: a code that fails to redeem and was spent leaked.
\* Mark it, keep the lock, revoke what it issued in the same transaction.
RevokeReplayedCode(p) ==
  LET c == req[p].code
      r == [req[p] EXCEPT !.pc = "revoking", !.locked = c, !.by = "code"]
  IN  /\ req[p].pc = "refused"
      /\ CodeFree(c)
      /\ IF code[c].state = "kept" /\ code[c].used
         THEN To(p, [r EXCEPT !.todo = {t \in Tokens : Live(t) /\ row[t].code = c}])
         ELSE To(p, Idle)
      /\ UNCHANGED <<now, code, row, answered>>

\* issue_tokens: the code row is locked and not marked replayed, in the
\* transaction that inserts the first refresh row ...
IssueTokens(p) ==
  LET c == req[p].code
  IN  /\ req[p].pc = "toIssue"
      /\ CodeFree(c)
      /\ IF code[c].state = "kept" /\ ~code[c].replayed
         THEN /\ Unused # {}
              /\ To(p, [req[p] EXCEPT !.pc = "issuing", !.locked = c, !.new = NewId])
         ELSE To(p, Idle)
      /\ UNCHANGED <<now, code, row, answered>>

\* ... and commits.
TokensIssued(p) ==
  LET t == req[p].new
  IN  /\ req[p].pc = "issuing"
      /\ row' = [row EXCEPT ![t] =
                  [NoRow EXCEPT !.state = "kept", !.code = req[p].code, !.family = t,
                                !.created = now, !.expires = now + TokenTTL]]
      /\ To(p, Idle)
      /\ UNCHANGED <<now, code, answered>>

-----------------------------------------------------------------------------
(* Refreshing.                                                             *)

\* load_refresh_token: a live row past its expiry is refused, a revoked one
\* goes on to what its reuse means, whatever its expiry.
LoadRefreshToken(p, t) ==
  /\ req[p].pc = "idle"
  /\ row[t].state = "kept"
  /\ \/ /\ row[t].revoked = None /\ row[t].expires > now
        /\ To(p, [Idle EXCEPT !.pc = "toRotate", !.token = t])
     \/ /\ row[t].revoked # None
        /\ To(p, [Idle EXCEPT !.pc = "reused", !.token = t])
  /\ UNCHANGED <<now, code, row, answered>>

\* (Mutant) The old row is taken for live because it was when it was loaded.
RotateUnconditionally(p) ==
  LET t == req[p].token
  IN  /\ req[p].pc = "toRotate"
      /\ RowFree(t)
      /\ Unused # {}
      /\ To(p, [req[p] EXCEPT !.pc = "rotating", !.new = NewId])
      /\ UNCHANGED <<now, code, row, answered>>

\* rotate_refresh_token: the successor is inserted, then one conditional
\* UPDATE of the old row decides; it waits for whoever has written that row.
\* Revoked meanwhile: roll back, load the row again and take it for reused.
RotateRefreshToken(p) ==
  LET t == req[p].token
  IN  /\ req[p].pc = "toRotate"
      /\ RowFree(t)
      /\ IF Live(t)
         THEN Unused # {} /\ To(p, [req[p] EXCEPT !.pc = "rotating", !.new = NewId])
         ELSE To(p, [req[p] EXCEPT !.pc = "reused"])
      /\ UNCHANGED <<now, code, row, answered>>

\* (Mutant) The family is taken for a column of the token's own.
SuccessorOrphan(r) ==
  [r EXCEPT !.revoked = None, !.replaced = FALSE, !.family = None,
            !.expires = Lesser(now + TokenTTL, LoginEnd(r))]

\* The successor copies every column but the token's own state.
Successor(r) ==
  [r EXCEPT !.revoked = None, !.replaced = FALSE,
            !.expires = Lesser(now + TokenTTL, LoginEnd(r))]

Rotated(p) ==
  LET t == req[p].token
  IN  /\ req[p].pc = "rotating"
      /\ row' = [row EXCEPT ![t].revoked = now, ![t].replaced = TRUE,
                            ![req[p].new] = Successor(row[t])]
      /\ To(p, Idle)
      /\ UNCHANGED <<now, code, answered>>

\* exchange_refresh_token with a revoked row: a retry moments after its
\* rotation is only refused, anything else revokes the whole login.
Reused(p) ==
  LET t == req[p].token
  IN  /\ req[p].pc = "reused"
      /\ IF RotatedMomentsAgo(row[t])
         THEN To(p, Idle)
         ELSE To(p, [req[p] EXCEPT !.pc = "revoking", !.by = "family", !.todo =
                       {u \in Tokens : Live(u) /\ row[u].family = row[t].family}])
      /\ UNCHANGED <<now, code, row, answered>>

-----------------------------------------------------------------------------
(* Revoking.                                                               *)

\* revoke_token for the client, api_revoke_grant for the user: the login of a
\* row, live or not.
RevokeFamily(p, t) ==
  /\ req[p].pc = "idle"
  /\ row[t].state = "kept"
  /\ To(p, [Idle EXCEPT !.pc = "revoking", !.by = "family", !.token = t, !.todo =
              {u \in Tokens : Live(u) /\ row[u].family = row[t].family}])
  /\ UNCHANGED <<now, code, row, answered>>

\* (Mutant) A row that was revoked meanwhile is tried again.
RevokeRowUntilLive(p) ==
  /\ req[p].pc = "revoking"
  /\ \E t \in req[p].todo :
       /\ RowFree(t)
       /\ Live(t)
       /\ To(p, [req[p] EXCEPT !.todo = @ \ {t}, !.mine = @ \cup {t}])
  /\ UNCHANGED <<now, code, row, answered>>

\* The UPDATE of _revoke_live visits a row of its snapshot; one that was
\* revoked while it waited is skipped.
RevokeRow(p) ==
  /\ req[p].pc = "revoking"
  /\ \E t \in req[p].todo :
       /\ RowFree(t)
       /\ To(p, [req[p] EXCEPT !.todo = @ \ {t},
                               !.mine = IF Live(t) THEN @ \cup {t} ELSE @])
  /\ UNCHANGED <<now, code, row, answered>>

\* Its UPDATE is through.
RowsRevoked(p) ==
  /\ req[p].pc = "revoking"
  /\ req[p].todo = {}
  /\ To(p, [req[p] EXCEPT !.pc = "checking"])
  /\ UNCHANGED <<now, code, row, answered>>

\* A fresh statement still sees a live row: once more.
RevokeAgain(p) ==
  /\ req[p].pc = "checking"
  /\ LiveSelected(p) # {}
  /\ To(p, [req[p] EXCEPT !.pc = "revoking", !.todo = LiveSelected(p)])
  /\ UNCHANGED <<now, code, row, answered>>

\* (Mutant) One UPDATE is taken to be enough.
RevokedAtOnce(p) ==
  /\ req[p].pc = "checking"
  /\ row' = [t \in Tokens |-> IF t \in req[p].mine
                              THEN [row[t] EXCEPT !.revoked = now] ELSE row[t]]
  /\ code' = [c \in Codes |-> IF c = req[p].locked
                              THEN [code[c] EXCEPT !.replayed = TRUE] ELSE code[c]]
  /\ answered' = IF req[p].by = "family"
                 THEN answered \cup {row[req[p].token].family} ELSE answered
  /\ To(p, Idle)
  /\ UNCHANGED now

\* It sees none: commit.
Revoked(p) ==
  /\ req[p].pc = "checking"
  /\ LiveSelected(p) = {}
  /\ row' = [t \in Tokens |-> IF t \in req[p].mine
                              THEN [row[t] EXCEPT !.revoked = now] ELSE row[t]]
  /\ code' = [c \in Codes |-> IF c = req[p].locked
                              THEN [code[c] EXCEPT !.replayed = TRUE] ELSE code[c]]
  /\ answered' = IF req[p].by = "family"
                 THEN answered \cup {row[req[p].token].family} ELSE answered
  /\ To(p, Idle)
  /\ UNCHANGED now

\* A request is cancelled, its process dies or a token cannot be minted: its
\* transaction is rolled back and its locks are gone.
RolledBack(p) ==
  /\ req[p].pc # "idle"
  /\ To(p, Idle)
  /\ UNCHANGED <<now, code, row, answered>>

-----------------------------------------------------------------------------
(* The purge (purge_dead_rows, every ten minutes).                         *)

Family(t) == {u \in Tokens : row[u].state = "kept" /\ row[u].family = row[t].family}

\* When a row ended: revoked or expired, whichever came first.
Ended(r) == IF r.revoked # None THEN Lesser(r.revoked, r.expires) ELSE r.expires

\* (Mutant) A row goes when it has been dead long enough itself.
DeadRow(t) == row[t].state = "kept" /\ Ended(row[t]) + TokenRetention < now

\* _dead_logins: the last row of the login ended over TokenRetention ago.
DeadLogin(t) == /\ row[t].state = "kept"
                /\ \A u \in Family(t) : Ended(row[u]) + TokenRetention < now

\* Requests are over long before a retention is.
Settled == \A p \in Requests : req[p].pc = "idle"

\* One transaction; no other request has to do with the rows of dead logins.
\* A batch may cut a chain: rows that name one that goes are unlinked, which
\* keeps `replaced' of nobody alive.
PurgeDeadRows ==
  /\ Settled
  /\ \E batch \in SUBSET {t \in Tokens : DeadLogin(t)} :
       LET kept(c) == \E t \in Tokens \ batch : row[t].state = "kept" /\ row[t].code = c
           stale == {c \in Codes : /\ code[c].state = "kept"
                                   /\ code[c].expires + CodeRetention < now
                                   /\ ~kept(c)}
       IN  /\ Cardinality(batch) <= PurgeBatch
           /\ batch \cup stale # {}
           /\ row' = [t \in Tokens |-> IF t \in batch
                        THEN [row[t] EXCEPT !.state = "purged"] ELSE row[t]]
           /\ code' = [c \in Codes |-> IF c \in stale
                        THEN [code[c] EXCEPT !.state = "purged"] ELSE code[c]]
  /\ UNCHANGED <<now, req, answered>>

Tick ==
  /\ now < MaxTime
  /\ now' = now + 1
  /\ UNCHANGED <<code, row, req, answered>>

-----------------------------------------------------------------------------
\* What a request goes on to do once it is in progress.
Proceed(p) ==
  \/ RevokeReplayedCode(p) \/ IssueTokens(p) \/ TokensIssued(p)
  \/ RotateRefreshToken(p) \/ Rotated(p) \/ Reused(p)
  \/ RevokeRow(p) \/ RowsRevoked(p) \/ RevokeAgain(p) \/ Revoked(p)

Next ==
  \/ \E c \in Codes : IssueCode(c)
  \/ \E p \in Requests :
       \/ \E c \in Codes : RedeemCode(p, c)
       \/ \E t \in Tokens : LoadRefreshToken(p, t) \/ RevokeFamily(p, t)
       \/ Proceed(p) \/ RolledBack(p)
  \/ PurgeDeadRows \/ Tick

Spec == Init /\ [][Next]_vars

\* Statements end, and Postgres queues the waiters of a row lock in order.
FairSpec == Spec /\ \A p \in Requests : WF_vars(Proceed(p)) /\ SF_vars(RevokeRow(p))

-----------------------------------------------------------------------------
(* Properties.                                                             *)

TypeOK ==
  /\ now \in 0..MaxTime
  /\ code \in [Codes -> CodeRow]
  /\ row \in [Tokens -> RefreshRow]
  /\ \A t \in Tokens : row[t].state # "none" => row[t].family # None /\ row[t].code # None
  /\ req \in [Requests -> Request]
  /\ answered \subseteq Tokens

\* However refreshes, retries and replays of one login overlap, it has at
\* most one token that can still be refreshed, and one login comes of a code.
OneLivePerLogin ==
  \A t, u \in Tokens : Live(t) /\ Live(u) /\ row[t].code = row[u].code => t = u

\* A revocation that was answered (the user's, the client's, or that of a token
\* used twice) leaves no live token, whatever refresh it overlapped, and a
\* code marked as replayed never has one again.
NoneAfterRevocation ==
  \A t \in Tokens : Live(t) =>
    row[t].family \notin answered /\ ~code[row[t].code].replayed

\* While a login lives, nothing that reveals a theft is purged: every token it
\* has rotated away, and the code it came from, can still be recognised.
TheftIsSeen ==
  \A t \in Tokens : Live(t) /\ row[t].expires > now =>
    /\ code[row[t].code].state = "kept"
    /\ \A u \in Tokens : row[u].family = row[t].family => row[u].state = "kept"

\* Revocations come to an end though refreshes keep adding rows.
RevocationEnds(p) == req[p].pc = "revoking" ~> req[p].pc = "idle"

\* A login is current with its live token, and over when it has had one and has none.
LiveOf(c) == {t \in Tokens : Live(t) /\ row[t].code = c}

LoginOf(c) ==
  IF LiveOf(c) # {} THEN [status |-> "live", token |-> CHOOSE t \in LiveOf(c) : TRUE]
  ELSE [status |-> IF \E t \in Tokens : row[t].code = c THEN "over" ELSE "unborn",
        token |-> None]

\* The rows implement Logins.
Abstract == INSTANCE Logins WITH
  login <- [c \in Codes |-> LoginOf(c)],
  issued <- {t \in Tokens : row[t].state # "none"}

ImplementsLogins == Abstract!Spec
=============================================================================
