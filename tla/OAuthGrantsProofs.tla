-------------------------- MODULE OAuthGrantsProofs --------------------------
(* Theorems about OAuthGrants for any number of codes, tokens and requests     *)
(* and any lifetimes.                                                          *)
EXTENDS OAuthGrants, TLAPS

-----------------------------------------------------------------------------
(* The inductive invariant.                                                    *)

Issued(t) == row[t].state # "none"

\* Requests that are to give, or give, a code its first token.
Opening(p) == req[p].pc \in {"toIssue", "issuing"}

\* The rows of a login share its code and its family, and its first row names both.
RowsInv ==
  /\ \A t \in Tokens : ~Issued(t) => row[t] = NoRow
  /\ \A t \in Tokens : Issued(t) =>
       /\ row[t].code \in Codes /\ code[row[t].code].used
       /\ row[t].family \in Tokens /\ Issued(row[t].family)
  /\ \A t, u \in Tokens : Issued(t) /\ Issued(u) =>
       (row[t].code = row[u].code <=> row[t].family = row[u].family)
  /\ \A f \in answered : Issued(f)

\* Nothing of the login of this token was purged.
Whole(t) ==
  /\ code[row[t].code].state = "kept"
  /\ \A u \in Tokens : row[u].family = row[t].family => row[u].state = "kept"

\* What a request has found out and written, wherever it stands.
ReqInv(p) ==
  LET r == req[p]
  IN  /\ r.pc \in {"idle", "refused", "toIssue", "toRotate", "reused"} =>
           r.new = None /\ r.locked = None /\ r.todo = {} /\ r.mine = {}
      /\ r.pc = "refused" => r.code \in Codes
      /\ Opening(p) =>
           /\ r.code \in Codes /\ code[r.code].used
           /\ \A t \in Tokens : row[t].code # r.code
      /\ r.pc = "issuing" =>
           /\ r.locked = r.code /\ r.new \in Tokens /\ ~Issued(r.new)
           /\ r.todo = {} /\ r.mine = {}
           /\ code[r.code].state = "kept" /\ ~code[r.code].replayed
      /\ r.pc \in {"toRotate", "rotating"} => r.token \in Tokens /\ Issued(r.token) /\ Whole(r.token)
      /\ r.pc = "rotating" =>
           /\ Live(r.token) /\ r.new \in Tokens /\ ~Issued(r.new)
           /\ r.locked = None /\ r.todo = {} /\ r.mine = {}
      /\ r.pc = "reused" => r.token \in Tokens /\ Issued(r.token)
      /\ r.pc \in {"revoking", "checking"} =>
           /\ r.new = None
           /\ \A u \in r.mine : Live(u)
           /\ r.by \in {"family", "code"}
           /\ r.by = "family" =>
                /\ r.token \in Tokens /\ Issued(r.token) /\ r.locked = None
                /\ \A u \in r.todo \cup r.mine : Issued(u) /\ row[u].family = row[r.token].family
           /\ r.by = "code" =>
                /\ r.code \in Codes /\ r.locked = r.code
                /\ \A u \in r.todo \cup r.mine : Issued(u) /\ row[u].code = r.code

\* No two requests open one login, insert one row, or hold one lock.
Apart(p, q) ==
  /\ Opening(p) /\ Opening(q) => req[p].code # req[q].code
  /\ req[p].new # None => req[p].new # req[q].new
  /\ req[p].locked # None => req[p].locked # req[q].locked
  /\ Written(p) \cap Written(q) = {}

GrantInv ==
  /\ TypeOK
  /\ RowsInv
  /\ \A p \in Requests : ReqInv(p)
  /\ \A p, q \in Requests : p # q => Apart(p, q)
  /\ OneLivePerLogin /\ NoneAfterRevocation /\ TheftIsSeen

LEMMA GrantInitial == Init => GrantInv
<1> SUFFICES ASSUME Init PROVE GrantInv
  OBVIOUS
<1> USE OAuthAssumption
<1>1. TypeOK
  BY DEF Init, TypeOK, CodeRow, RefreshRow, Request, Idle, NoRow, Time, PCs
<1>2. \A t \in Tokens : row[t] = NoRow /\ row[t].state = "none" /\ ~Live(t)
  BY DEF Init, Live, NoRow
<1>3. RowsInv
  BY <1>2 DEF Init, RowsInv, Issued
<1>4. \A p \in Requests : req[p] = Idle
  BY DEF Init
<1>5. \A p \in Requests : ReqInv(p)
  BY <1>4 DEF ReqInv, Idle, Opening
<1>6. \A p, q \in Requests : Apart(p, q)
  BY <1>4 DEF Apart, Idle, Opening, Written
<1>7. OneLivePerLogin /\ NoneAfterRevocation /\ TheftIsSeen
  BY <1>2 DEF OneLivePerLogin, NoneAfterRevocation, TheftIsSeen
<1>8. QED BY <1>1, <1>3, <1>5, <1>6, <1>7 DEF GrantInv

\* A step of one request that commits nothing need only be looked at there.
LEMMA RequestSteps ==
  ASSUME GrantInv, NEW p \in Requests, NEW r \in Request, To(p, r),
         UNCHANGED <<now, code, row, answered>>,
         ReqInv(p)', \A q \in Requests \ {p} : Apart(p, q)'
  PROVE  GrantInv'
<1>1. req' = [req EXCEPT ![p] = r] /\ req \in [Requests -> Request]
  BY DEF To, GrantInv, TypeOK
<1>2. TypeOK'
  BY <1>1 DEF GrantInv, TypeOK
<1>3. RowsInv' /\ OneLivePerLogin' /\ NoneAfterRevocation' /\ TheftIsSeen'
  BY DEF GrantInv, RowsInv, Issued, OneLivePerLogin, NoneAfterRevocation, TheftIsSeen, Live
<1>4. \A q \in Requests : ReqInv(q)'
  <2>1. ASSUME NEW q \in Requests \ {p} PROVE ReqInv(q)'
    <3>1. req'[q] = req[q] /\ ReqInv(q)
      BY <1>1 DEF GrantInv
    <3>2. QED BY <3>1 DEF ReqInv, Opening, Issued, Whole, Live
  <2>2. QED BY <2>1
<1>5. \A q, s \in Requests : q # s => Apart(q, s)'
  <2>1. ASSUME NEW q \in Requests, NEW s \in Requests, q # s, q # p, s # p PROVE Apart(q, s)'
    <3>1. req'[q] = req[q] /\ req'[s] = req[s] /\ Apart(q, s)
      BY <1>1, <2>1 DEF GrantInv
    <3>2. QED BY <3>1 DEF Apart, Opening, Written
  <2>2. ASSUME NEW q \in Requests \ {p} PROVE Apart(q, p)'
    <3>1. Apart(p, q)'
      OBVIOUS
    <3>2. QED BY <3>1 DEF Apart, Opening
  <2>3. QED BY <2>1, <2>2
<1>6. QED BY <1>2, <1>3, <1>4, <1>5 DEF GrantInv

\* One that gives up is a case of it.
LEMMA GivesUp ==
  ASSUME GrantInv, NEW p \in Requests, To(p, Idle), UNCHANGED <<now, code, row, answered>>
  PROVE  GrantInv'
<1>1. req'[p] = Idle /\ Idle \in Request
  BY DEF To, GrantInv, TypeOK, Idle, Request, PCs
<1>2. ReqInv(p)'
  BY <1>1 DEF ReqInv, Idle, Opening
<1>3. \A q \in Requests \ {p} : Apart(p, q)'
  BY <1>1 DEF Apart, Idle, Opening, Written
<1>4. QED BY <1>1, <1>2, <1>3, RequestSteps

-----------------------------------------------------------------------------
(* Codes.                                                                      *)

LEMMA ConsentGrantInv ==
  ASSUME GrantInv, NEW c \in Codes, IssueCode(c)
  PROVE  GrantInv'
<1> USE OAuthAssumption
<1>1. /\ code[c].state = "none" /\ UNCHANGED <<now, row, req, answered>>
      /\ code' = [code EXCEPT ![c].state = "kept", ![c].expires = now + CodeTTL]
      /\ code \in [Codes -> CodeRow]
  BY DEF IssueCode, GrantInv, TypeOK
<1>2. \A d \in Codes : /\ code'[d].used = code[d].used
                       /\ code'[d].replayed = code[d].replayed
                       /\ code[d].state = "kept" => code'[d].state = "kept"
  BY <1>1 DEF CodeRow
<1>3. TypeOK'
  <2>1. now + CodeTTL \in Time
    BY DEF GrantInv, TypeOK, Time
  <2>2. code' \in [Codes -> CodeRow]
    BY <1>1, <2>1 DEF CodeRow
  <2>3. QED BY <1>1, <2>2 DEF GrantInv, TypeOK
<1>4. RowsInv'
  BY <1>1, <1>2 DEF GrantInv, RowsInv, Issued
<1>5. \A t \in Tokens : Issued(t) /\ Whole(t) => Whole(t)'
  BY <1>1, <1>2 DEF GrantInv, RowsInv, Whole, Issued
<1>6. \A q \in Requests : ReqInv(q)'
  BY <1>1, <1>2, <1>5 DEF GrantInv, ReqInv, Opening, Issued, Live
<1>7. \A q, s \in Requests : q # s => Apart(q, s)'
  BY <1>1 DEF GrantInv, Apart, Opening, Written
<1>8. OneLivePerLogin' /\ NoneAfterRevocation'
  BY <1>1, <1>2 DEF GrantInv, RowsInv, Issued, OneLivePerLogin, NoneAfterRevocation, Live
<1>9. TheftIsSeen'
  BY <1>1, <1>2 DEF GrantInv, RowsInv, Issued, TheftIsSeen, Live
<1>10. QED BY <1>3, <1>4, <1>6, <1>7, <1>8, <1>9 DEF GrantInv

LEMMA RedeemGrantInv ==
  ASSUME GrantInv, NEW p \in Requests, NEW c \in Codes, RedeemCode(p, c)
  PROVE  GrantInv'
<1>1. CASE /\ ~code[c].used
           /\ code' = [code EXCEPT ![c].used = TRUE] /\ UNCHANGED <<now, row, answered>>
           /\ \/ To(p, [Idle EXCEPT !.pc = "toIssue", !.code = c])
              \/ UNCHANGED req
  <2> DEFINE r == [Idle EXCEPT !.pc = "toIssue", !.code = c]
  <2>0. code \in [Codes -> CodeRow] /\ req \in [Requests -> Request]
    BY DEF GrantInv, TypeOK
  <2>1. \A d \in Codes : /\ code'[d].state = code[d].state
                         /\ code'[d].replayed = code[d].replayed
                         /\ code[d].used => code'[d].used
                         /\ d # c => code'[d] = code[d]
    BY <1>1, <2>0 DEF CodeRow
  <2>2. code'[c].used /\ code' \in [Codes -> CodeRow]
    BY <1>1, <2>0 DEF CodeRow
  <2>3. r \in Request
    BY DEF Idle, Request, PCs
  <2>4. \A q \in Requests : req'[q] = req[q] \/ (q = p /\ req'[q] = r)
    BY <1>1, <2>0 DEF To
  <2>5. TypeOK'
    BY <1>1, <2>0, <2>2, <2>3, <2>4 DEF GrantInv, TypeOK, To
  <2>6. RowsInv'
    BY <1>1, <2>1 DEF GrantInv, RowsInv, Issued
  <2>7. \A t \in Tokens : Issued(t) /\ Whole(t) => Whole(t)'
    BY <1>1, <2>1 DEF GrantInv, RowsInv, Whole, Issued
  <2>8. \A t \in Tokens : row[t].code # c
    <3>1. \A t \in Tokens : Issued(t) => row[t].code # c
      BY <1>1 DEF GrantInv, RowsInv
    <3>2. \A t \in Tokens : ~Issued(t) => row[t].code = None
      BY DEF GrantInv, RowsInv, NoRow
    <3>3. QED BY <3>1, <3>2, OAuthAssumption
  <2>9. ASSUME NEW q \in Requests PROVE ReqInv(q)'
    <3>1. CASE req'[q] = req[q]
      <4>1. ReqInv(q)
        BY DEF GrantInv
      <4>2. QED BY <1>1, <2>1, <2>7, <3>1, <4>1 DEF ReqInv, Opening, Issued, Live
    <3>2. CASE req'[q] = r
      BY <1>1, <2>2, <2>8, <3>2 DEF ReqInv, Opening, Idle
    <3>3. QED BY <2>4, <3>1, <3>2
  <2>10. \A q \in Requests : Opening(q) => req[q].code # c
    BY <1>1 DEF GrantInv, ReqInv
  <2>11. ASSUME NEW q \in Requests, NEW s \in Requests, q # s PROVE Apart(q, s)'
    <3>1. Apart(q, s)
      BY <2>11 DEF GrantInv
    <3>2. CASE req'[q] = req[q] /\ req'[s] = req[s]
      BY <3>1, <3>2 DEF Apart, Opening, Written
    <3>3. CASE req'[q] = r /\ req'[s] = req[s]
      BY <2>10, <3>3 DEF Apart, Opening, Written, Idle
    <3>4. CASE req'[q] = req[q] /\ req'[s] = r
      BY <2>10, <3>4 DEF Apart, Opening, Written, Idle
    <3>5. QED BY <2>4, <2>11, <3>2, <3>3, <3>4
  <2>12. OneLivePerLogin' /\ NoneAfterRevocation'
    BY <1>1, <2>1 DEF GrantInv, RowsInv, Issued, OneLivePerLogin, NoneAfterRevocation, Live
  <2>13. TheftIsSeen'
    BY <1>1, <2>1 DEF GrantInv, RowsInv, Issued, TheftIsSeen, Live
  <2>14. QED BY <2>5, <2>6, <2>9, <2>11, <2>12, <2>13 DEF GrantInv
<1>2. CASE /\ To(p, [Idle EXCEPT !.pc = "refused", !.code = c])
           /\ UNCHANGED <<now, code, row, answered>>
  <2> DEFINE r == [Idle EXCEPT !.pc = "refused", !.code = c]
  <2>1. req'[p] = r /\ r \in Request
    BY <1>2 DEF To, GrantInv, TypeOK, Idle, Request, PCs
  <2>2. ReqInv(p)'
    BY <2>1 DEF ReqInv, Idle, Opening
  <2>3. \A q \in Requests \ {p} : Apart(p, q)'
    BY <2>1 DEF Apart, Idle, Opening, Written
  <2>4. QED BY <1>2, <2>1, <2>2, <2>3, RequestSteps
<1>3. QED BY <1>1, <1>2 DEF RedeemCode

LEMMA ReplayGrantInv ==
  ASSUME GrantInv, NEW p \in Requests, RevokeReplayedCode(p)
  PROVE  GrantInv'
<1> DEFINE c == req[p].code
           r == [req[p] EXCEPT !.pc = "revoking", !.locked = c, !.by = "code",
                               !.todo = {t \in Tokens : Live(t) /\ row[t].code = c}]
<1>1. CASE To(p, Idle)
  BY <1>1, GivesUp DEF RevokeReplayedCode
<1>2. CASE To(p, r)
  <2>1. req[p] \in Request /\ c \in Codes /\ req[p].new = None /\ req[p].mine = {}
    BY DEF RevokeReplayedCode, GrantInv, TypeOK, ReqInv
  <2>2. r \in Request /\ req' = [req EXCEPT ![p] = r] /\ req'[p] = r
    BY <1>2, <2>1 DEF To, GrantInv, TypeOK, Request, PCs
  <2>3. /\ r.pc = "revoking" /\ r.locked = c /\ r.by = "code" /\ r.new = None /\ r.mine = {}
        /\ r.code = c /\ r.todo = {t \in Tokens : Live(t) /\ row[t].code = c}
    BY <2>1 DEF Request
  <2>4. UNCHANGED <<now, code, row, answered>>
    BY DEF RevokeReplayedCode
  <2>5. ReqInv(p)'
    BY <2>1, <2>2, <2>3, <2>4 DEF ReqInv, Opening, Issued, Live
  <2>6. ASSUME NEW q \in Requests \ {p} PROVE Apart(p, q)'
    <3>1. req'[q] = req[q] /\ req[q].locked # c
      BY <2>2 DEF RevokeReplayedCode, CodeFree, GrantInv, TypeOK
    <3>2. QED BY <2>2, <2>3, <3>1 DEF Apart, Opening, Written
  <2>7. QED BY <1>2, <2>2, <2>4, <2>5, <2>6, RequestSteps
<1>3. QED BY <1>1, <1>2 DEF RevokeReplayedCode

LEMMA IssueGrantInv ==
  ASSUME GrantInv, NEW p \in Requests, IssueTokens(p)
  PROVE  GrantInv'
<1> DEFINE c == req[p].code
           r == [req[p] EXCEPT !.pc = "issuing", !.locked = c, !.new = NewId]
<1>1. CASE To(p, Idle)
  BY <1>1, GivesUp DEF IssueTokens
<1>2. CASE To(p, r) /\ Unused # {} /\ code[c].state = "kept" /\ ~code[c].replayed
  <2>1. /\ req[p] \in Request /\ c \in Codes /\ req[p].mine = {} /\ req[p].todo = {}
        /\ Opening(p) /\ ReqInv(p)
    BY DEF IssueTokens, GrantInv, TypeOK, ReqInv, Opening
  <2>2. PICK n \in Tokens :
          n = NewId /\ ~Issued(n) /\ \A q \in Requests : req[q].new # n
    BY <1>2 DEF NewId, Unused, Issued
  <2>3. r \in Request /\ req' = [req EXCEPT ![p] = r] /\ req'[p] = r
    BY <1>2, <2>1, <2>2 DEF To, GrantInv, TypeOK, Request, PCs
  <2>4. /\ r.pc = "issuing" /\ r.locked = c /\ r.new = n /\ r.code = c
        /\ r.mine = {} /\ r.todo = {}
    BY <2>1, <2>2 DEF Request
  <2>5. UNCHANGED <<now, code, row, answered>>
    BY DEF IssueTokens
  <2> HIDE DEF r
  <2>6. ReqInv(p)'
    <3>1. Opening(p)' /\ ~Issued(n)' /\ req'[p].code = c
      BY <2>2, <2>3, <2>4, <2>5 DEF Opening, Issued
    <3>2. c \in Codes /\ code[c].used /\ \A t \in Tokens : row[t].code # c
      BY <2>1 DEF ReqInv
    <3>3. QED BY <1>2, <2>2, <2>3, <2>4, <2>5, <3>1, <3>2 DEF ReqInv, Issued
  <2>7. ASSUME NEW q \in Requests \ {p} PROVE Apart(p, q)'
    <3>1. req'[q] = req[q] /\ req[q].locked # c /\ Apart(p, q)
      BY <2>3 DEF IssueTokens, CodeFree, GrantInv, TypeOK
    <3>2. QED BY <2>1, <2>2, <2>3, <2>4, <3>1 DEF Apart, Opening, Written
  <2>8. QED BY <1>2, <2>3, <2>5, <2>6, <2>7, RequestSteps
<1>3. QED BY <1>1, <1>2 DEF IssueTokens

-----------------------------------------------------------------------------
(* Rows.                                                                       *)

LEMMA FirstRowGrantInv ==
  ASSUME GrantInv, NEW p \in Requests, TokensIssued(p)
  PROVE  GrantInv'
<1> USE OAuthAssumption
<1> DEFINE c == req[p].code
           t == req[p].new
           R == [NoRow EXCEPT !.state = "kept", !.code = c, !.family = t,
                              !.created = now, !.expires = now + TokenTTL]
<1>1. /\ c \in Codes /\ t \in Tokens /\ ~Issued(t) /\ code[c].used
      /\ code[c].state = "kept" /\ ~code[c].replayed
      /\ req[p].locked = c
      /\ \A u \in Tokens : row[u].code # c
  BY DEF TokensIssued, GrantInv, ReqInv, Opening
<1>2. /\ row' = [row EXCEPT ![t] = R] /\ req' = [req EXCEPT ![p] = Idle]
      /\ UNCHANGED <<now, code, answered>>
      /\ row \in [Tokens -> RefreshRow] /\ req \in [Requests -> Request]
  BY DEF TokensIssued, To, GrantInv, TypeOK
<1>3. /\ R.state = "kept" /\ R.code = c /\ R.family = t /\ R.revoked = None
      /\ R \in RefreshRow
  <2>1. now \in Time /\ now + TokenTTL \in Time /\ 0 \in Time
    BY DEF GrantInv, TypeOK, Time
  <2>2. QED BY <1>1, <2>1 DEF NoRow, RefreshRow
<1> HIDE DEF R
<1>4. /\ row'[t] = R /\ \A u \in Tokens \ {t} : row'[u] = row[u]
      /\ row[t] = NoRow /\ row[t].family = None /\ row[t].state = "none"
  <2>1. row[t] = NoRow
    BY <1>1 DEF GrantInv, RowsInv
  <2>2. QED BY <1>1, <1>2, <2>1 DEF NoRow
<1>5. \A u \in Tokens : Issued(u) => u # t /\ row[u].family # t
  BY <1>1 DEF GrantInv, RowsInv
<1>6. TypeOK'
  <2>1. row' \in [Tokens -> RefreshRow]
    BY <1>2, <1>3
  <2>2. Idle \in Request
    BY DEF Idle, Request, PCs
  <2>3. \A u \in Tokens : row'[u].state # "none" => row'[u].family # None /\ row'[u].code # None
    BY <1>1, <1>3, <1>4 DEF GrantInv, TypeOK
  <2>4. QED BY <1>2, <2>1, <2>2, <2>3 DEF GrantInv, TypeOK
<1>7. \A u \in Tokens : Issued(u)' <=> u = t \/ Issued(u)
  BY <1>3, <1>4 DEF Issued
<1>8. RowsInv'
  <2>1. \A u \in Tokens : ~Issued(u)' => row'[u] = NoRow
    BY <1>4, <1>7 DEF GrantInv, RowsInv
  <2>2. \A u \in Tokens : Issued(u)' =>
          /\ row'[u].code \in Codes /\ code'[row'[u].code].used
          /\ row'[u].family \in Tokens /\ Issued(row[u].family)'
    BY <1>1, <1>2, <1>3, <1>4, <1>7 DEF GrantInv, RowsInv
  <2>3. ASSUME NEW u \in Tokens, NEW v \in Tokens, Issued(u)', Issued(v)'
        PROVE  row'[u].code = row'[v].code <=> row'[u].family = row'[v].family
    <3>1. CASE u # t /\ v # t
      BY <1>4, <1>7, <2>3, <3>1 DEF GrantInv, RowsInv
    <3>2. CASE u = t \/ v = t
      BY <1>1, <1>3, <1>4, <1>5, <1>7, <2>3, <3>2
    <3>3. QED BY <3>1, <3>2
  <2>4. \A f \in answered' : Issued(f)'
    BY <1>2, <1>7 DEF GrantInv, RowsInv, TypeOK
  <2>5. QED BY <2>1, <2>2, <2>3, <2>4 DEF RowsInv
<1>9. \A u \in Tokens : Live(u)' <=> u = t \/ Live(u)
  BY <1>3, <1>4 DEF Live
<1>10. ASSUME NEW u \in Tokens, Issued(u), Whole(u) PROVE Whole(u)'
  BY <1>2, <1>3, <1>4, <1>5, <1>10 DEF Whole
<1>11. req'[p] = Idle /\ \A q \in Requests \ {p} : req'[q] = req[q]
  BY <1>2
<1>12. ASSUME NEW q \in Requests PROVE ReqInv(q)'
  <2>1. CASE q = p
    BY <1>11, <2>1 DEF ReqInv, Idle, Opening
  <2>2. CASE q # p
    <3>1. ReqInv(q) /\ Apart(p, q) /\ req'[q] = req[q]
      BY <1>11, <2>2 DEF GrantInv
    <3>2. Opening(q) => req[q].code # c
      BY <3>1 DEF Apart, Opening, TokensIssued
    <3>3. req[q].new # t
      BY <1>1, <3>1 DEF Apart
    <3>4. \A u \in Tokens \ {t} : row'[u] = row[u]
      BY <1>4
    <3>5. \A u \in req[q].todo \cup req[q].mine : u \in Tokens
      BY DEF GrantInv, TypeOK, Request
    <3>6. \A u \in Tokens : Issued(u) => Issued(u)' /\ row'[u] = row[u]
      BY <1>4, <1>5, <1>7
    <3> QED
      BY <1>2, <1>3, <1>4, <1>7, <1>9, <1>10, <3>1, <3>2, <3>3, <3>5, <3>6 DEF ReqInv, Opening
  <2>3. QED BY <2>1, <2>2
<1>13. ASSUME NEW q \in Requests, NEW s \in Requests, q # s PROVE Apart(q, s)'
  <2>1. Apart(q, s)
    BY <1>13 DEF GrantInv
  <2>2. QED BY <1>11, <2>1 DEF Apart, Opening, Written, Idle
<1>14. OneLivePerLogin'
  BY <1>1, <1>3, <1>4, <1>9 DEF GrantInv, OneLivePerLogin
<1>15. NoneAfterRevocation'
  BY <1>1, <1>2, <1>3, <1>4, <1>9 DEF GrantInv, NoneAfterRevocation, RowsInv
<1>16. TheftIsSeen'
  <2>1. SUFFICES ASSUME NEW u \in Tokens, Live(u)', row'[u].expires > now PROVE Whole(u)'
    BY <1>2 DEF TheftIsSeen, Whole
  <2>2. CASE u = t
    BY <1>1, <1>2, <1>3, <1>4, <1>5, <2>2 DEF Whole, GrantInv, RowsInv, NoRow
  <2>3. CASE u # t
    <3>1. Live(u) /\ Issued(u) /\ row[u].expires > now
      BY <1>4, <1>9, <2>1, <2>3 DEF Live, Issued
    <3>2. Whole(u)
      BY <3>1 DEF GrantInv, TheftIsSeen, Whole
    <3>3. QED BY <1>10, <3>1, <3>2
  <2>4. QED BY <2>2, <2>3
<1>17. QED BY <1>6, <1>8, <1>12, <1>13, <1>14, <1>15, <1>16 DEF GrantInv

LEMMA LoadGrantInv ==
  ASSUME GrantInv, NEW p \in Requests, NEW t \in Tokens, LoadRefreshToken(p, t)
  PROVE  GrantInv'
<1>1. PICK pc \in {"toRotate", "reused"} :
        /\ To(p, [Idle EXCEPT !.pc = pc, !.token = t])
        /\ pc = "toRotate" => Live(t) /\ row[t].expires > now
  BY DEF LoadRefreshToken, Live
<1> DEFINE r == [Idle EXCEPT !.pc = pc, !.token = t]
<1>2. req'[p] = r /\ r \in Request /\ UNCHANGED <<now, code, row, answered>> /\ Issued(t)
  BY <1>1 DEF LoadRefreshToken, To, GrantInv, TypeOK, Idle, Request, PCs, Issued
<1>3. pc = "toRotate" => Whole(t)
  BY <1>1 DEF GrantInv, TheftIsSeen, Whole
<1>4. ReqInv(p)'
  BY <1>1, <1>2, <1>3 DEF ReqInv, Idle, Opening, Issued, Whole
<1>5. \A q \in Requests \ {p} : Apart(p, q)'
  BY <1>1, <1>2 DEF Apart, Idle, Opening, Written
<1>6. QED BY <1>1, <1>2, <1>4, <1>5, RequestSteps

LEMMA RotateGrantInv ==
  ASSUME GrantInv, NEW p \in Requests, RotateRefreshToken(p)
  PROVE  GrantInv'
<1> DEFINE t == req[p].token
<1>1. /\ ReqInv(p) /\ req[p] \in Request /\ req[p].pc = "toRotate"
      /\ t \in Tokens /\ Issued(t) /\ Whole(t)
      /\ req[p].new = None /\ req[p].locked = None /\ req[p].todo = {} /\ req[p].mine = {}
      /\ UNCHANGED <<now, code, row, answered>>
  BY DEF RotateRefreshToken, GrantInv, TypeOK, ReqInv
<1>2. CASE Live(t)
  <2>1. PICK n \in Tokens :
          n = NewId /\ ~Issued(n) /\ \A q \in Requests : req[q].new # n
    BY <1>2 DEF RotateRefreshToken, NewId, Unused, Issued
  <2> DEFINE r == [req[p] EXCEPT !.pc = "rotating", !.new = n]
  <2>2. To(p, r) /\ r \in Request /\ req' = [req EXCEPT ![p] = r] /\ req'[p] = r
    BY <1>1, <1>2, <2>1 DEF RotateRefreshToken, To, GrantInv, TypeOK, Request, PCs
  <2>3. /\ r.pc = "rotating" /\ r.new = n /\ r.token = t /\ r.locked = None
        /\ r.todo = {} /\ r.mine = {}
    BY <1>1 DEF Request
  <2> HIDE DEF r
  <2>4. ReqInv(p)'
    BY <1>1, <1>2, <2>1, <2>2, <2>3 DEF ReqInv, Opening, Issued, Whole, Live
  <2>5. ASSUME NEW q \in Requests \ {p} PROVE Apart(p, q)'
    <3>1. req'[q] = req[q] /\ t \notin Written(q)
      BY <1>2, <2>2 DEF RotateRefreshToken, RowFree, GrantInv, TypeOK
    <3>2. Written(p)' = {t} /\ Written(q)' = Written(q)
      BY <2>2, <2>3, <3>1 DEF Written
    <3>3. QED BY <2>1, <2>2, <2>3, <3>1, <3>2 DEF Apart, Opening
  <2>6. QED BY <1>1, <2>2, <2>4, <2>5, RequestSteps
<1>3. CASE ~Live(t)
  <2> DEFINE r == [req[p] EXCEPT !.pc = "reused"]
  <2>1. To(p, r) /\ r \in Request /\ req' = [req EXCEPT ![p] = r] /\ req'[p] = r
    BY <1>1, <1>3 DEF RotateRefreshToken, To, GrantInv, TypeOK, Request, PCs
  <2>2. /\ r.pc = "reused" /\ r.new = None /\ r.token = t /\ r.locked = None
        /\ r.todo = {} /\ r.mine = {}
    BY <1>1 DEF Request
  <2> HIDE DEF r
  <2>3. ReqInv(p)'
    BY <1>1, <2>1, <2>2 DEF ReqInv, Opening, Issued
  <2>4. \A q \in Requests \ {p} : Apart(p, q)'
    BY <2>1, <2>2 DEF Apart, Opening, Written
  <2>5. QED BY <1>1, <2>1, <2>3, <2>4, RequestSteps
<1>4. QED BY <1>2, <1>3

LEMMA RotatedGrantInv ==
  ASSUME GrantInv, NEW p \in Requests, Rotated(p)
  PROVE  GrantInv'
<1> USE OAuthAssumption
<1>0. PICK t \in Tokens, n \in Tokens : t = req[p].token /\ n = req[p].new
  BY DEF Rotated, GrantInv, ReqInv
<1> DEFINE R == Successor(row[t])
<1>1. /\ t \in Tokens /\ Live(t) /\ Issued(t) /\ Whole(t) /\ n \in Tokens /\ ~Issued(n) /\ n # t
      /\ Written(p) = {t}
  BY <1>0 DEF Rotated, GrantInv, ReqInv, Written
<1>2. /\ row' = [row EXCEPT ![t].revoked = now, ![t].replaced = TRUE, ![n] = R]
      /\ req' = [req EXCEPT ![p] = Idle]
      /\ UNCHANGED <<now, code, answered>>
      /\ row \in [Tokens -> RefreshRow] /\ req \in [Requests -> Request]
      /\ now \in Nat /\ now \in Time /\ now <= MaxTime
  BY <1>0 DEF Rotated, To, GrantInv, TypeOK, Time
<1>3. /\ R.state = "kept" /\ R.code = row[t].code /\ R.family = row[t].family
      /\ R.revoked = None /\ R \in RefreshRow
  <2>1. row[t] \in RefreshRow /\ row[t].state = "kept"
    BY <1>1, <1>2 DEF Live
  <2>2. Lesser(now + TokenTTL, LoginEnd(row[t])) \in Time
    BY <1>2, <2>1 DEF Lesser, LoginEnd, RefreshRow, Time
  <2>3. QED BY <2>1, <2>2 DEF Successor, RefreshRow
<1> HIDE DEF R
<1>4. /\ row'[n] = R
      /\ row'[t].state = row[t].state /\ row'[t].code = row[t].code
      /\ row'[t].family = row[t].family /\ row'[t].revoked = now
      /\ row' \in [Tokens -> RefreshRow]
      /\ \A u \in Tokens \ {t, n} : row'[u] = row[u]
  BY <1>1, <1>2, <1>3 DEF RefreshRow
<1>5. \A u \in Tokens \ {n} : /\ row'[u].state = row[u].state
                              /\ row'[u].code = row[u].code /\ row'[u].family = row[u].family
  BY <1>4
<1>6. TypeOK'
  <2>1. Idle \in Request
    BY DEF Idle, Request, PCs
  <2>2. \A u \in Tokens : row'[u].state # "none" => row'[u].family # None /\ row'[u].code # None
    BY <1>1, <1>3, <1>4, <1>5 DEF GrantInv, TypeOK, Issued
  <2>3. QED BY <1>2, <1>4, <2>1, <2>2 DEF GrantInv, TypeOK
<1>7. \A u \in Tokens : Issued(u)' <=> u = n \/ Issued(u)
  BY <1>3, <1>4, <1>5 DEF Issued
<1>8. \A u \in Tokens : Live(u)' <=> u = n \/ (Live(u) /\ u # t)
  BY <1>1, <1>2, <1>3, <1>4 DEF Live, Issued
<1>9. RowsInv'
  <2>1. \A u \in Tokens : ~Issued(u)' => row'[u] = NoRow
    BY <1>1, <1>4, <1>7 DEF GrantInv, RowsInv
  <2>2. \A u \in Tokens : Issued(u)' =>
          /\ row'[u].code \in Codes /\ code'[row'[u].code].used
          /\ row'[u].family \in Tokens /\ Issued(row[u].family)'
    <3>1. ASSUME NEW u \in Tokens, Issued(u)
          PROVE  /\ row'[u].code \in Codes /\ code'[row'[u].code].used
                 /\ row'[u].family \in Tokens /\ Issued(row[u].family)'
      BY <1>1, <1>2, <1>5, <1>7, <3>1 DEF GrantInv, RowsInv
    <3>2. row'[n].code = row'[t].code /\ row'[n].family = row'[t].family
      BY <1>1, <1>3, <1>4
    <3>3. Issued(row[n].family)'
      BY <1>1, <3>1, <3>2 DEF Issued
    <3>4. QED BY <1>1, <1>7, <3>1, <3>2, <3>3
  <2>3. ASSUME NEW u \in Tokens, Issued(u)'
        PROVE  \E v \in Tokens : /\ Issued(v)
                                 /\ row'[u].code = row[v].code /\ row'[u].family = row[v].family
    BY <1>1, <1>3, <1>4, <1>5, <1>7, <2>3
  <2>4. \A u, v \in Tokens : Issued(u)' /\ Issued(v)' =>
          (row'[u].code = row'[v].code <=> row'[u].family = row'[v].family)
    BY <2>3 DEF GrantInv, RowsInv
  <2>5. \A f \in answered' : Issued(f)'
    BY <1>2, <1>7 DEF GrantInv, RowsInv, TypeOK
  <2>6. QED BY <2>1, <2>2, <2>4, <2>5 DEF RowsInv
<1>10. ASSUME NEW u \in Tokens, Issued(u), Whole(u) PROVE Whole(u)'
  <2>1. u # n /\ row'[u].code = row[u].code /\ row'[u].family = row[u].family
    BY <1>1, <1>5, <1>10
  <2>2. code'[row'[u].code].state = "kept"
    BY <1>2, <1>10, <2>1 DEF Whole
  <2>3. \A v \in Tokens : row'[v].family = row'[u].family => row'[v].state = "kept"
    BY <1>1, <1>3, <1>4, <1>5, <1>10, <2>1 DEF Whole, Live
  <2>4. QED BY <2>2, <2>3 DEF Whole
<1>11. req'[p] = Idle /\ \A q \in Requests \ {p} : req'[q] = req[q]
  BY <1>2
<1>12. ASSUME NEW q \in Requests PROVE ReqInv(q)'
  <2>1. CASE q = p
    BY <1>11, <2>1 DEF ReqInv, Idle, Opening
  <2>2. CASE q # p
    <3>1. ReqInv(q) /\ Apart(p, q) /\ req'[q] = req[q]
      BY <1>11, <2>2 DEF GrantInv
    <3>2. req[q].new # n
      BY <1>0, <1>1, <3>1 DEF Apart
    <3>3. t \notin Written(q)
      BY <1>1, <3>1 DEF Apart
    <3>4. req[q].todo \cup req[q].mine \subseteq Tokens
      BY DEF GrantInv, TypeOK, Request
    <3>5. \A c \in Codes : (\A u \in Tokens : row[u].code # c) => \A u \in Tokens : row'[u].code # c
      BY <1>1, <1>3, <1>4, <1>5
    <3>6. \A u \in Tokens : Issued(u) =>
            Issued(u)' /\ row'[u].code = row[u].code /\ row'[u].family = row[u].family
      BY <1>1, <1>5, <1>7
    <3> QED
      BY <1>2, <1>7, <1>8, <1>10, <3>1, <3>2, <3>3, <3>4, <3>5, <3>6 DEF ReqInv, Opening, Written
  <2>3. QED BY <2>1, <2>2
<1>13. ASSUME NEW q \in Requests, NEW s \in Requests, q # s PROVE Apart(q, s)'
  <2>1. Apart(q, s)
    BY <1>13 DEF GrantInv
  <2>2. QED BY <1>11, <2>1 DEF Apart, Opening, Written, Idle
<1>14. OneLivePerLogin'
  BY <1>1, <1>3, <1>4, <1>5, <1>8 DEF GrantInv, OneLivePerLogin
<1>15. NoneAfterRevocation'
  BY <1>1, <1>2, <1>3, <1>4, <1>5, <1>8 DEF GrantInv, NoneAfterRevocation
<1>16. TheftIsSeen'
  <2>1. SUFFICES ASSUME NEW u \in Tokens, Live(u)', row'[u].expires > now PROVE Whole(u)'
    BY <1>2 DEF TheftIsSeen, Whole
  <2>2. CASE u = n
    <3>1. \A v \in Tokens : Issued(v) /\ Whole(v) => Whole(v)'
      BY <1>10
    <3>2. Whole(t)'
      BY <1>1, <3>1
    <3>3. row'[n].code = row'[t].code /\ row'[n].family = row'[t].family
      BY <1>1, <1>3, <1>4
    <3>4. QED BY <2>2, <3>2, <3>3 DEF Whole
  <2>3. CASE u # n
    <3>1. Live(u) /\ Issued(u) /\ row[u].expires > now
      BY <1>4, <1>8, <2>1, <2>3 DEF Live, Issued
    <3>2. Whole(u)
      BY <3>1 DEF GrantInv, TheftIsSeen, Whole
    <3>3. QED BY <1>10, <3>1, <3>2
  <2>4. QED BY <2>2, <2>3
<1>17. QED BY <1>6, <1>9, <1>12, <1>13, <1>14, <1>15, <1>16 DEF GrantInv

-----------------------------------------------------------------------------
(* Revocations.                                                                *)

\* What a request does once it has found out what to revoke.
LEMMA BeginsToRevoke ==
  ASSUME GrantInv, NEW p \in Requests, NEW r \in Request, To(p, r),
         UNCHANGED <<now, code, row, answered>>,
         r.pc = "revoking", r.by = "family", r.token \in Tokens, Issued(r.token),
         r.new = None, r.locked = None, r.mine = {},
         r.todo = {u \in Tokens : Live(u) /\ row[u].family = row[r.token].family}
  PROVE  GrantInv'
<1>1. req'[p] = r
  BY DEF To, GrantInv, TypeOK
<1>2. ReqInv(p)'
  BY <1>1 DEF ReqInv, Opening, Issued, Live
<1>3. \A q \in Requests \ {p} : Apart(p, q)'
  BY <1>1 DEF Apart, Opening, Written
<1>4. QED BY <1>2, <1>3, RequestSteps

LEMMA ReusedGrantInv ==
  ASSUME GrantInv, NEW p \in Requests, Reused(p)
  PROVE  GrantInv'
<1>1. /\ ReqInv(p) /\ req[p] \in Request /\ req[p].pc = "reused"
      /\ UNCHANGED <<now, code, row, answered>>
  BY DEF Reused, GrantInv, TypeOK
<1>2. CASE To(p, Idle)
  BY <1>1, <1>2, GivesUp
<1> DEFINE r == [req[p] EXCEPT !.pc = "revoking", !.by = "family", !.todo =
                   {u \in Tokens : Live(u) /\ row[u].family = row[req[p].token].family}]
<1>3. CASE To(p, r)
  <2>1. r \in Request
    BY <1>1 DEF Request, PCs
  <2>2. /\ r.pc = "revoking" /\ r.by = "family" /\ r.token = req[p].token
        /\ r.new = req[p].new /\ r.locked = req[p].locked /\ r.mine = req[p].mine
        /\ r.todo = {u \in Tokens : Live(u) /\ row[u].family = row[r.token].family}
    BY <1>1 DEF Request
  <2> HIDE DEF r
  <2>3. QED BY <1>1, <1>3, <2>1, <2>2, BeginsToRevoke DEF ReqInv
<1>4. QED BY <1>2, <1>3 DEF Reused

LEMMA RevokeFamilyGrantInv ==
  ASSUME GrantInv, NEW p \in Requests, NEW t \in Tokens, RevokeFamily(p, t)
  PROVE  GrantInv'
<1> DEFINE r == [Idle EXCEPT !.pc = "revoking", !.by = "family", !.token = t, !.todo =
                   {u \in Tokens : Live(u) /\ row[u].family = row[t].family}]
<1>1. /\ r \in Request /\ r.pc = "revoking" /\ r.by = "family" /\ r.token = t
      /\ r.new = None /\ r.locked = None /\ r.mine = {}
      /\ r.todo = {u \in Tokens : Live(u) /\ row[u].family = row[r.token].family}
  BY DEF Idle, Request, PCs
<1>2. To(p, r) /\ UNCHANGED <<now, code, row, answered>> /\ Issued(t)
  BY DEF RevokeFamily, Issued
<1> HIDE DEF r
<1>3. QED BY <1>1, <1>2, BeginsToRevoke

\* A revocation that goes on: what it has yet to visit and what it has written change.
LEMMA GoesOnRevoking ==
  ASSUME GrantInv, NEW p \in Requests, NEW pc \in {"revoking", "checking"},
         NEW todo \in SUBSET Tokens, NEW mine \in SUBSET Tokens,
         req[p].pc \in {"revoking", "checking"},
         To(p, [req[p] EXCEPT !.pc = pc, !.todo = todo, !.mine = mine]),
         UNCHANGED <<now, code, row, answered>>,
         \A u \in todo \cup mine : Issued(u) /\ IF req[p].by = "code" THEN row[u].code = req[p].code
                                   ELSE row[u].family = row[req[p].token].family,
         \A u \in mine \ req[p].mine : Live(u) /\ RowFree(u)
  PROVE  GrantInv'
<1> DEFINE r == [req[p] EXCEPT !.pc = pc, !.todo = todo, !.mine = mine]
<1>1. ReqInv(p) /\ req[p] \in Request
  BY DEF GrantInv, TypeOK
<1>2. /\ r \in Request /\ r.pc = pc /\ r.todo = todo /\ r.mine = mine
      /\ r.code = req[p].code /\ r.token = req[p].token /\ r.new = req[p].new
      /\ r.locked = req[p].locked /\ r.by = req[p].by
  BY <1>1 DEF Request, PCs
<1>3. To(p, r) /\ req' = [req EXCEPT ![p] = r] /\ req'[p] = r
  BY DEF To, GrantInv, TypeOK
<1> HIDE DEF r
<1>4. \A u \in mine : Live(u)
  BY <1>1 DEF ReqInv
<1>5. ReqInv(p)'
  BY <1>1, <1>2, <1>3, <1>4 DEF ReqInv, Opening, Issued, Live
<1>6. ASSUME NEW q \in Requests \ {p} PROVE Apart(p, q)'
  <2>1. Apart(p, q) /\ req'[q] = req[q]
    BY <1>3 DEF GrantInv, TypeOK
  <2>2. Written(p)' = mine /\ Written(p) = req[p].mine /\ Written(q)' = Written(q)
    BY <1>2, <1>3, <2>1 DEF Written
  <2>3. mine \cap Written(q) = {}
    BY <2>1, <2>2 DEF Apart, RowFree
  <2>4. QED BY <1>1, <1>2, <1>3, <2>1, <2>2, <2>3 DEF Apart, Opening, ReqInv
<1>7. QED BY <1>2, <1>3, <1>5, <1>6, RequestSteps

LEMMA RevokeRowGrantInv ==
  ASSUME GrantInv, NEW p \in Requests, RevokeRow(p)
  PROVE  GrantInv'
<1>1. /\ ReqInv(p) /\ req[p] \in Request /\ req[p].pc = "revoking"
      /\ UNCHANGED <<now, code, row, answered>>
  BY DEF RevokeRow, GrantInv, TypeOK
<1>2. PICK t \in req[p].todo :
        /\ RowFree(t)
        /\ To(p, [req[p] EXCEPT !.todo = @ \ {t}, !.mine = IF Live(t) THEN @ \cup {t} ELSE @])
  BY DEF RevokeRow
<1> DEFINE todo == req[p].todo \ {t}
           mine == IF Live(t) THEN req[p].mine \cup {t} ELSE req[p].mine
<1>3. [req[p] EXCEPT !.todo = @ \ {t}, !.mine = IF Live(t) THEN @ \cup {t} ELSE @]
        = [req[p] EXCEPT !.pc = "revoking", !.todo = todo, !.mine = mine]
  BY <1>1 DEF Request
<1>4. To(p, [req[p] EXCEPT !.pc = "revoking", !.todo = todo, !.mine = mine])
  BY <1>2, <1>3
<1>5. todo \in SUBSET Tokens /\ mine \in SUBSET Tokens
  BY <1>1 DEF Request
<1>6. \A u \in todo \cup mine : u \in req[p].todo \cup req[p].mine
  OBVIOUS
<1>7. \A u \in mine \ req[p].mine : Live(u) /\ RowFree(u)
  BY <1>2
<1> HIDE DEF todo, mine
<1>8. QED BY <1>1, <1>4, <1>5, <1>6, <1>7, GoesOnRevoking DEF ReqInv

LEMMA RowsRevokedGrantInv ==
  ASSUME GrantInv, NEW p \in Requests, RowsRevoked(p)
  PROVE  GrantInv'
<1> DEFINE todo == req[p].todo
           mine == req[p].mine
<1>1. /\ ReqInv(p) /\ req[p] \in Request /\ req[p].pc = "revoking"
      /\ UNCHANGED <<now, code, row, answered>>
  BY DEF RowsRevoked, GrantInv, TypeOK
<1>2. [req[p] EXCEPT !.pc = "checking"]
        = [req[p] EXCEPT !.pc = "checking", !.todo = todo, !.mine = mine]
  BY <1>1 DEF Request
<1>3. To(p, [req[p] EXCEPT !.pc = "checking", !.todo = todo, !.mine = mine])
  BY <1>2 DEF RowsRevoked
<1>4. todo \in SUBSET Tokens /\ mine \in SUBSET Tokens
  BY <1>1 DEF Request
<1>5. QED BY <1>1, <1>3, <1>4, GoesOnRevoking DEF ReqInv

LEMMA RevokeAgainGrantInv ==
  ASSUME GrantInv, NEW p \in Requests, RevokeAgain(p)
  PROVE  GrantInv'
<1> DEFINE todo == LiveSelected(p)
           mine == req[p].mine
<1>1. /\ ReqInv(p) /\ req[p] \in Request /\ req[p].pc = "checking"
      /\ UNCHANGED <<now, code, row, answered>>
  BY DEF RevokeAgain, GrantInv, TypeOK
<1>2. [req[p] EXCEPT !.pc = "revoking", !.todo = todo]
        = [req[p] EXCEPT !.pc = "revoking", !.todo = todo, !.mine = mine]
  BY <1>1 DEF Request
<1>3. To(p, [req[p] EXCEPT !.pc = "revoking", !.todo = todo, !.mine = mine])
  BY <1>2 DEF RevokeAgain
<1>4. todo \in SUBSET Tokens /\ mine \in SUBSET Tokens
  BY <1>1 DEF Request, LiveSelected, Selected
<1>5. \A u \in todo : Issued(u) /\ IF req[p].by = "code" THEN row[u].code = req[p].code
                                   ELSE row[u].family = row[req[p].token].family
  BY DEF LiveSelected, Selected, Issued
<1>6. \A u \in mine : Issued(u) /\ IF req[p].by = "code" THEN row[u].code = req[p].code
                                   ELSE row[u].family = row[req[p].token].family
  BY <1>1 DEF ReqInv
<1> HIDE DEF todo
<1>7. QED BY <1>1, <1>3, <1>4, <1>5, <1>6, GoesOnRevoking

LEMMA RevokedGrantInv ==
  ASSUME GrantInv, NEW p \in Requests, Revoked(p)
  PROVE  GrantInv'
<1> USE OAuthAssumption
<1>0. PICK M \in SUBSET Tokens : M = req[p].mine
  BY DEF GrantInv, TypeOK, Request
<1>1. /\ \A u \in M : Live(u) /\ Issued(u)
      /\ \/ /\ req[p].by = "family" /\ req[p].locked = None
            /\ req[p].token \in Tokens /\ Issued(req[p].token)
            /\ answered' = answered \cup {row[req[p].token].family}
         \/ /\ req[p].by = "code" /\ req[p].locked = req[p].code /\ req[p].code \in Codes
            /\ answered' = answered
      /\ Written(p) = M
  BY <1>0 DEF Revoked, GrantInv, ReqInv, Written
<1>2. /\ row' = [t \in Tokens |-> IF t \in M THEN [row[t] EXCEPT !.revoked = now] ELSE row[t]]
      /\ code' = [c \in Codes |-> IF c = req[p].locked
                                  THEN [code[c] EXCEPT !.replayed = TRUE] ELSE code[c]]
      /\ req' = [req EXCEPT ![p] = Idle] /\ now' = now
      /\ row \in [Tokens -> RefreshRow] /\ code \in [Codes -> CodeRow]
      /\ req \in [Requests -> Request]
      /\ now \in Nat /\ now \in Time
  BY <1>0 DEF Revoked, To, GrantInv, TypeOK, Time
<1>3. /\ row' \in [Tokens -> RefreshRow]
      /\ \A u \in Tokens :
           /\ row'[u].state = row[u].state /\ row'[u].code = row[u].code
           /\ row'[u].family = row[u].family /\ row'[u].expires = row[u].expires
           /\ u \in M => row'[u].revoked = now
           /\ u \notin M => row'[u] = row[u]
  BY <1>2 DEF RefreshRow
<1>4. /\ code' \in [Codes -> CodeRow]
      /\ \A c \in Codes :
           /\ code'[c].state = code[c].state /\ code'[c].used = code[c].used
           /\ c # req[p].locked => code'[c].replayed = code[c].replayed
  BY <1>2 DEF CodeRow
<1>5. \A u \in Tokens : Issued(u)' = Issued(u) /\ (Live(u)' <=> Live(u) /\ u \notin M)
  BY <1>2, <1>3 DEF Issued, Live
<1>6. TypeOK'
  <2>1. Idle \in Request
    BY DEF Idle, Request, PCs
  <2>2. \A u \in Tokens : row'[u].state # "none" => row'[u].family # None /\ row'[u].code # None
    BY <1>3 DEF GrantInv, TypeOK
  <2>3. answered' \subseteq Tokens
    BY <1>1 DEF GrantInv, TypeOK, RowsInv
  <2>4. QED BY <1>2, <1>3, <1>4, <2>1, <2>2, <2>3 DEF GrantInv, TypeOK
<1>7. RowsInv'
  <2>1. \A u \in Tokens : ~Issued(u)' => row'[u] = NoRow
    BY <1>1, <1>3, <1>5 DEF GrantInv, RowsInv
  <2>2. \A u \in Tokens : Issued(u)' =>
          /\ row'[u].code \in Codes /\ code'[row'[u].code].used
          /\ row'[u].family \in Tokens
    BY <1>3, <1>4, <1>5 DEF GrantInv, RowsInv
  <2>3. \A u \in Tokens : Issued(u)' => Issued(row[u].family)'
    BY <1>3, <1>5 DEF GrantInv, RowsInv, Issued
  <2>4. \A u, v \in Tokens : Issued(u)' /\ Issued(v)' =>
          (row'[u].code = row'[v].code <=> row'[u].family = row'[v].family)
    BY <1>3, <1>5 DEF GrantInv, RowsInv
  <2>5. \A f \in answered' : Issued(f)'
    BY <1>1, <1>5, <1>6 DEF GrantInv, RowsInv, TypeOK
  <2>6. QED BY <2>1, <2>2, <2>3, <2>4, <2>5 DEF RowsInv
<1>8. ASSUME NEW u \in Tokens, Issued(u), Whole(u) PROVE Whole(u)'
  BY <1>3, <1>4, <1>8 DEF Whole, GrantInv, RowsInv
<1>9. req'[p] = Idle /\ \A q \in Requests \ {p} : req'[q] = req[q]
  BY <1>2
<1>10. ASSUME NEW q \in Requests PROVE ReqInv(q)'
  <2>1. CASE q = p
    BY <1>9, <2>1 DEF ReqInv, Idle, Opening
  <2>2. CASE q # p
    <3>1. ReqInv(q) /\ Apart(p, q) /\ req'[q] = req[q]
      BY <1>9, <2>2 DEF GrantInv
    <3>2. Written(q) \cap M = {}
      BY <1>1, <3>1 DEF Apart
    <3>3. req[q].locked # None => req[q].locked # req[p].locked
      BY <3>1 DEF Apart
    <3>4. req[q].todo \cup req[q].mine \subseteq Tokens
      BY DEF GrantInv, TypeOK, Request
    <3>5. req[q].pc = "issuing" => code'[req[q].code].replayed = code[req[q].code].replayed
      BY <1>4, <3>1, <3>3 DEF ReqInv, Opening
    <3> QED
      BY <1>3, <1>4, <1>5, <1>8, <3>1, <3>2, <3>4, <3>5 DEF ReqInv, Opening, Written
  <2>3. QED BY <2>1, <2>2
<1>11. ASSUME NEW q \in Requests, NEW s \in Requests, q # s PROVE Apart(q, s)'
  <2>1. Apart(q, s)
    BY <1>11 DEF GrantInv
  <2>2. QED BY <1>9, <2>1 DEF Apart, Opening, Written, Idle
<1>12. OneLivePerLogin'
  BY <1>3, <1>5 DEF GrantInv, OneLivePerLogin
<1>13. NoneAfterRevocation'
  <2>1. SUFFICES ASSUME NEW u \in Tokens, Live(u)'
                 PROVE  row'[u].family \notin answered' /\ ~code'[row'[u].code].replayed
    BY DEF NoneAfterRevocation
  <2>2. /\ Live(u) /\ u \notin M /\ row[u].family \notin answered
        /\ ~code[row[u].code].replayed /\ row[u].state = "kept"
        /\ row[u].code \in Codes
    BY <1>5, <2>1 DEF GrantInv, NoneAfterRevocation, Live, RowsInv, Issued
  <2>3. u \notin Selected(p)
    BY <1>0, <2>2 DEF Revoked, LiveSelected
  <2>4. CASE req[p].by = "family"
    BY <1>1, <1>3, <1>4, <2>2, <2>3, <2>4 DEF Selected
  <2>5. CASE req[p].by = "code"
    BY <1>1, <1>3, <1>4, <2>2, <2>3, <2>5 DEF Selected
  <2>6. QED BY <1>1, <2>4, <2>5
<1>14. TheftIsSeen'
  <2>1. SUFFICES ASSUME NEW u \in Tokens, Live(u)', row'[u].expires > now PROVE Whole(u)'
    BY <1>2 DEF TheftIsSeen, Whole
  <2>2. Live(u) /\ Issued(u) /\ row[u].expires > now
    BY <1>3, <1>5, <2>1 DEF Live, Issued
  <2>3. Whole(u)
    BY <2>2 DEF GrantInv, TheftIsSeen, Whole
  <2>4. QED BY <1>8, <2>2, <2>3
<1>15. QED BY <1>6, <1>7, <1>10, <1>11, <1>12, <1>13, <1>14 DEF GrantInv

-----------------------------------------------------------------------------
(* The purge and the clock.                                                    *)

LEMMA PurgeGrantInv ==
  ASSUME GrantInv, PurgeDeadRows
  PROVE  GrantInv'
<1> USE OAuthAssumption
<1>1. PICK batch \in SUBSET {t \in Tokens : DeadLogin(t)} :
        LET kept(c) == \E t \in Tokens \ batch : row[t].state = "kept" /\ row[t].code = c
            stale == {c \in Codes : /\ code[c].state = "kept"
                                    /\ code[c].expires + CodeRetention < now
                                    /\ ~kept(c)}
        IN  /\ row' = [t \in Tokens |-> IF t \in batch
                         THEN [row[t] EXCEPT !.state = "purged"] ELSE row[t]]
            /\ code' = [c \in Codes |-> IF c \in stale
                         THEN [code[c] EXCEPT !.state = "purged"] ELSE code[c]]
  BY DEF PurgeDeadRows
<1>2. /\ UNCHANGED <<now, req, answered>> /\ \A p \in Requests : req[p].pc = "idle"
      /\ row \in [Tokens -> RefreshRow] /\ code \in [Codes -> CodeRow] /\ now \in Nat
  BY DEF PurgeDeadRows, Settled, GrantInv, TypeOK
<1>3. /\ row' \in [Tokens -> RefreshRow]
      /\ \A u \in Tokens :
           /\ row'[u].revoked = row[u].revoked /\ row'[u].code = row[u].code
           /\ row'[u].family = row[u].family /\ row'[u].expires = row[u].expires
           /\ u \in batch => row[u].state = "kept" /\ row'[u].state = "purged"
           /\ u \notin batch => row'[u] = row[u]
  BY <1>1, <1>2 DEF RefreshRow, DeadLogin
<1>4. /\ code' \in [Codes -> CodeRow]
      /\ \A c \in Codes :
           /\ code'[c].replayed = code[c].replayed /\ code'[c].used = code[c].used
           /\ (\E t \in Tokens \ batch : row[t].state = "kept" /\ row[t].code = c)
                => code'[c] = code[c]
  BY <1>1, <1>2 DEF CodeRow
<1>5. \A u \in Tokens : /\ Issued(u)' = Issued(u)
                        /\ Live(u)' <=> Live(u) /\ u \notin batch
                        /\ ~Issued(u) => u \notin batch
  BY <1>3 DEF Issued, Live
<1>6. TypeOK'
  <2>1. \A u \in Tokens : row'[u].state # "none" => row'[u].family # None /\ row'[u].code # None
    BY <1>3 DEF GrantInv, TypeOK
  <2>2. QED BY <1>2, <1>3, <1>4, <2>1 DEF GrantInv, TypeOK
<1>7. RowsInv'
  <2>1. \A u \in Tokens : ~Issued(u)' => row'[u] = NoRow
    BY <1>3, <1>5 DEF GrantInv, RowsInv
  <2>2. \A u \in Tokens : Issued(u)' =>
          /\ row'[u].code \in Codes /\ code'[row'[u].code].used
          /\ row'[u].family \in Tokens
    BY <1>3, <1>4, <1>5 DEF GrantInv, RowsInv
  <2>3. \A u \in Tokens : Issued(u)' => Issued(row[u].family)'
    BY <1>3, <1>5 DEF GrantInv, RowsInv, Issued
  <2>4. \A u, v \in Tokens : Issued(u)' /\ Issued(v)' =>
          (row'[u].code = row'[v].code <=> row'[u].family = row'[v].family)
    BY <1>3, <1>5 DEF GrantInv, RowsInv
  <2>5. \A f \in answered' : Issued(f)'
    BY <1>2, <1>5 DEF GrantInv, RowsInv, TypeOK
  <2>6. QED BY <2>1, <2>2, <2>3, <2>4, <2>5 DEF RowsInv
<1>8. \A p \in Requests : ReqInv(p)'
  BY <1>2 DEF GrantInv, ReqInv, Opening
<1>9. \A p, q \in Requests : p # q => Apart(p, q)'
  BY <1>2 DEF GrantInv, Apart, Opening, Written
<1>10. OneLivePerLogin' /\ NoneAfterRevocation'
  BY <1>2, <1>3, <1>4, <1>5 DEF GrantInv, OneLivePerLogin, NoneAfterRevocation, RowsInv, Live, Issued
<1>11. TheftIsSeen'
  <2>1. SUFFICES ASSUME NEW u \in Tokens, Live(u)', row'[u].expires > now PROVE Whole(u)'
    BY <1>2 DEF TheftIsSeen, Whole
  <2>2. Live(u) /\ u \notin batch /\ row[u].expires > now /\ row[u].state = "kept"
    BY <1>3, <1>5, <2>1 DEF Live
  <2>3. Whole(u) /\ row[u].code \in Codes
    BY <2>2 DEF GrantInv, TheftIsSeen, Whole, RowsInv, Issued
  <2>4. code'[row'[u].code].state = "kept"
    BY <1>3, <1>4, <2>2, <2>3 DEF Whole
  <2>5. ASSUME NEW v \in Tokens, row'[v].family = row'[u].family PROVE row'[v].state = "kept"
    <3>1. row[v].family = row[u].family /\ row[v].state = "kept"
      BY <1>3, <2>3, <2>5 DEF Whole
    <3>2. v \notin batch
      <4>1. SUFFICES ASSUME DeadLogin(v) PROVE FALSE
        BY <1>1
      <4>2. Ended(row[u]) + TokenRetention < now
        BY <2>2, <3>1, <4>1 DEF DeadLogin, Family
      <4>3. Ended(row[u]) = row[u].expires /\ row[u].expires \in Nat
        BY <1>2, <2>2 DEF Ended, Live, RefreshRow, Time
      <4>4. QED BY <1>2, <2>2, <4>2, <4>3
    <3>3. QED BY <1>3, <3>1, <3>2
  <2>6. QED BY <2>4, <2>5 DEF Whole
<1>12. QED BY <1>6, <1>7, <1>8, <1>9, <1>10, <1>11 DEF GrantInv

LEMMA TickGrantInv ==
  ASSUME GrantInv, Tick
  PROVE  GrantInv'
<1> USE OAuthAssumption
<1>1. now < MaxTime /\ now' = now + 1 /\ UNCHANGED <<code, row, req, answered>>
  BY DEF Tick
<1>2. TypeOK'
  BY <1>1 DEF GrantInv, TypeOK
<1>3. RowsInv' /\ OneLivePerLogin' /\ NoneAfterRevocation'
  BY <1>1 DEF GrantInv, RowsInv, Issued, OneLivePerLogin, NoneAfterRevocation, Live
<1>4. \A q \in Requests : ReqInv(q)'
  BY <1>1 DEF GrantInv, ReqInv, Opening, Issued, Whole, Live
<1>5. \A q, s \in Requests : q # s => Apart(q, s)'
  BY <1>1 DEF GrantInv, Apart, Opening, Written
<1>6. TheftIsSeen'
  <2>1. SUFFICES ASSUME NEW t \in Tokens, Live(t), row[t].expires > now + 1 PROVE Whole(t)
    BY <1>1 DEF TheftIsSeen, Whole, Live
  <2>2. row[t].expires > now
    BY <2>1 DEF GrantInv, TypeOK, RefreshRow, Time
  <2>3. QED BY <2>1, <2>2 DEF GrantInv, TheftIsSeen, Whole
<1>7. QED BY <1>2, <1>3, <1>4, <1>5, <1>6 DEF GrantInv

LEMMA GrantSteps == GrantInv /\ [Next]_vars => GrantInv'
<1> SUFFICES ASSUME GrantInv, [Next]_vars PROVE GrantInv'
  OBVIOUS
<1>1. ASSUME NEW c \in Codes, IssueCode(c) PROVE GrantInv'
  BY <1>1, ConsentGrantInv
<1>2. ASSUME NEW p \in Requests, NEW c \in Codes, RedeemCode(p, c) PROVE GrantInv'
  BY <1>2, RedeemGrantInv
<1>3. ASSUME NEW p \in Requests, NEW t \in Tokens, LoadRefreshToken(p, t) PROVE GrantInv'
  BY <1>3, LoadGrantInv
<1>4. ASSUME NEW p \in Requests, NEW t \in Tokens, RevokeFamily(p, t) PROVE GrantInv'
  BY <1>4, RevokeFamilyGrantInv
<1>5. ASSUME NEW p \in Requests, Proceed(p) PROVE GrantInv'
  BY <1>5, ReplayGrantInv, IssueGrantInv, FirstRowGrantInv, RotateGrantInv, RotatedGrantInv,
     ReusedGrantInv, RevokeRowGrantInv, RowsRevokedGrantInv, RevokeAgainGrantInv,
     RevokedGrantInv DEF Proceed
<1>6. ASSUME NEW p \in Requests, RolledBack(p) PROVE GrantInv'
  BY <1>6, GivesUp DEF RolledBack
<1>7. CASE PurgeDeadRows
  BY <1>7, PurgeGrantInv
<1>8. CASE Tick
  BY <1>8, TickGrantInv
<1>9. CASE UNCHANGED vars
  BY <1>9 DEF vars, GrantInv, TypeOK, RowsInv, ReqInv, Apart, Opening, Issued, Whole, Written,
     Live, OneLivePerLogin, NoneAfterRevocation, TheftIsSeen
<1>10. QED BY <1>1, <1>2, <1>3, <1>4, <1>5, <1>6, <1>7, <1>8, <1>9 DEF Next

LEMMA GrantsInvariant == Spec => []GrantInv
BY GrantInitial, GrantSteps, PTL DEF Spec

\* However refreshes, retries, replays and revocations of a login overlap, at most
\* one of its tokens can be refreshed (grants.py:191-250).
THEOREM OneLiveToken == Spec => []OneLivePerLogin
<1>1. GrantInv => OneLivePerLogin
  BY DEF GrantInv
<1>2. QED BY <1>1, GrantsInvariant, PTL

\* A revocation that was answered, and a code that was seen twice, leave no token
\* that can be refreshed, then or later (grants.py:253-330).
THEOREM RevocationHolds == Spec => []NoneAfterRevocation
<1>1. GrantInv => NoneAfterRevocation
  BY DEF GrantInv
<1>2. QED BY <1>1, GrantsInvariant, PTL

\* The purge leaves every row that a living login needs to recognise a stolen token
\* or code, whatever the lifetimes and the retentions are.
THEOREM ThievesAreSeen == Spec => []TheftIsSeen
<1>1. GrantInv => TheftIsSeen
  BY DEF GrantInv
<1>2. QED BY <1>1, GrantsInvariant, PTL

-----------------------------------------------------------------------------
(* The rows implement a login with one token at a time.                        *)

\* What a login is, from the rows of its code.
LEMMA LoginCases ==
  ASSUME NEW c \in Codes, OneLivePerLogin
  PROVE  /\ \A t \in Tokens : Live(t) /\ row[t].code = c => LoginOf(c) = Abstract!LiveWith(t)
         /\ LiveOf(c) = {} /\ (\E t \in Tokens : row[t].code = c) => LoginOf(c) = Abstract!Over
         /\ (\A t \in Tokens : row[t].code # c) => LoginOf(c) = Abstract!Unborn
         /\ LoginOf(c).status = "live" <=> LiveOf(c) # {}
         /\ LoginOf(c).status = "over" <=> LiveOf(c) = {} /\ \E t \in Tokens : row[t].code = c
<1>1. ASSUME NEW t \in Tokens, Live(t), row[t].code = c PROVE LoginOf(c) = Abstract!LiveWith(t)
  <2>1. LiveOf(c) = {t}
    BY <1>1 DEF LiveOf, OneLivePerLogin
  <2>2. QED BY <2>1 DEF LoginOf, Abstract!LiveWith
<1>2. LiveOf(c) = {} /\ (\E t \in Tokens : row[t].code = c) => LoginOf(c) = Abstract!Over
  BY DEF LoginOf, Abstract!Over
<1>3. (\A t \in Tokens : row[t].code # c) => LoginOf(c) = Abstract!Unborn
  BY DEF LoginOf, LiveOf, Abstract!Unborn
<1>4. LoginOf(c).status = "live" <=> LiveOf(c) # {}
  BY DEF LoginOf
<1>5. LoginOf(c).status = "over" <=> LiveOf(c) = {} /\ \E t \in Tokens : row[t].code = c
  BY DEF LoginOf
<1>6. QED BY <1>1, <1>2, <1>3, <1>4, <1>5

\* A row that appears, live, as the one live row of its code hands out a token.
LEMMA HandsOut ==
  ASSUME GrantInv, GrantInv', NEW n \in Tokens, NEW c \in Codes,
         ~Issued(n), Issued(n)', Live(n)', row'[n].code = c,
         \A u \in Tokens \ {n} : row'[u].code = row[u].code /\ Issued(u)' = Issued(u),
         \A u \in Tokens \ {n} : row[u].code # c => Live(u)' = Live(u),
         LiveOf(c) # {} \/ \A u \in Tokens : row[u].code # c
  PROVE  Abstract!Hand(c, n)
<1>1. LoginOf(c).status # "over"
  BY LoginCases DEF GrantInv
<1>2. LoginOf(c)' = Abstract!LiveWith(n)
  <2>1. OneLivePerLogin'
    BY DEF GrantInv
  <2>2. LiveOf(c)' = {n}
    BY <2>1 DEF LiveOf, OneLivePerLogin
  <2>3. QED BY <2>2 DEF LoginOf, Abstract!LiveWith
<1>3. ASSUME NEW d \in Codes \ {c} PROVE LoginOf(d)' = LoginOf(d)
  <2>1. row[n].code = None /\ ~Live(n)
    BY DEF GrantInv, RowsInv, NoRow, Live, Issued
  <2>2. LiveOf(d)' = LiveOf(d)
    BY <1>3, <2>1, OAuthAssumption DEF LiveOf
  <2>3. (\E u \in Tokens : row'[u].code = d) <=> (\E u \in Tokens : row[u].code = d)
    BY <1>3, <2>1, OAuthAssumption
  <2>4. QED BY <2>2, <2>3 DEF LoginOf
<1>4. {u \in Tokens : row[u].state # "none"}' = {u \in Tokens : row[u].state # "none"} \cup {n}
  BY DEF Issued
<1>5. [d \in Codes |-> LoginOf(d)]' = [[d \in Codes |-> LoginOf(d)] EXCEPT ![c] = Abstract!LiveWith(n)]
  BY <1>2, <1>3
<1>6. QED BY <1>1, <1>4, <1>5 DEF Abstract!Hand, Issued

\* Live rows that are live no longer end their logins.
LEMMA EndsLogins ==
  ASSUME GrantInv, GrantInv',
         \A u \in Tokens : /\ row'[u].code = row[u].code /\ Issued(u)' = Issued(u)
                           /\ Live(u)' => Live(u)
  PROVE  \E cs \in SUBSET Codes : Abstract!End(cs)
<1> DEFINE cs == {c \in Codes : \E u \in LiveOf(c) : ~Live(u)'}
<1>1. ASSUME NEW c \in cs PROVE LoginOf(c).status = "live" /\ LoginOf(c)' = Abstract!Over
  <2>1. PICK u \in Tokens : Live(u) /\ row[u].code = c /\ ~Live(u)'
    BY <1>1 DEF LiveOf
  <2>2. LiveOf(c)' = {} /\ row'[u].code = c
    BY <2>1 DEF LiveOf, GrantInv, OneLivePerLogin
  <2>3. LoginOf(c)' = Abstract!Over
    BY <2>2 DEF LoginOf, Abstract!Over
  <2>4. QED BY <2>1, <2>3, LoginCases DEF GrantInv, LiveOf
<1>2. ASSUME NEW c \in Codes \ cs PROVE LoginOf(c)' = LoginOf(c)
  <2>1. LiveOf(c)' = LiveOf(c)
    BY <1>2 DEF LiveOf
  <2>2. (\E u \in Tokens : row'[u].code = c) <=> (\E u \in Tokens : row[u].code = c)
    OBVIOUS
  <2>3. QED BY <2>1, <2>2 DEF LoginOf
<1>3. {u \in Tokens : row[u].state # "none"}' = {u \in Tokens : row[u].state # "none"}
  BY DEF Issued
<1>4. PICK ended \in SUBSET Codes : ended = cs
  OBVIOUS
<1>5. [d \in Codes |-> LoginOf(d)]' =
        [d \in Codes |-> IF d \in ended THEN Abstract!Over ELSE [e \in Codes |-> LoginOf(e)][d]]
  BY <1>1, <1>2, <1>4
<1>6. Abstract!End(ended)
  BY <1>1, <1>3, <1>4, <1>5 DEF Abstract!End
<1>7. QED BY <1>6

LEMMA GrantsRefine ==
  GrantInv /\ GrantInv' /\ [Next]_vars => [Abstract!Next]_Abstract!vars
<1> SUFFICES ASSUME GrantInv, GrantInv', [Next]_vars
             PROVE  Abstract!Next \/ UNCHANGED Abstract!vars
  OBVIOUS
<1>1. CASE row' = row
  BY <1>1 DEF Abstract!vars, LoginOf, LiveOf, Live
<1>2. ASSUME NEW p \in Requests, TokensIssued(p) PROVE Abstract!Next
  <2>1. PICK c \in Codes, t \in Tokens : /\ c = req[p].code /\ t = req[p].new /\ ~Issued(t)
                                         /\ \A u \in Tokens : row[u].code # c
    BY <1>2 DEF TokensIssued, GrantInv, ReqInv, Opening
  <2>2. /\ \A u \in Tokens \ {t} : row'[u] = row[u]
        /\ row'[t].state = "kept" /\ row'[t].code = c /\ row'[t].revoked = None
    BY <1>2, <2>1 DEF TokensIssued, GrantInv, TypeOK, NoRow
  <2>3. Abstract!Hand(c, t)
    <3>1. Issued(t)' /\ Live(t)'
      BY <2>2 DEF Issued, Live
    <3>2. \A u \in Tokens \ {t} : row'[u].code = row[u].code /\ Issued(u)' = Issued(u) /\ Live(u)' = Live(u)
      BY <2>2 DEF Issued, Live
    <3>3. QED BY <2>1, <2>2, <3>1, <3>2, HandsOut
  <2>4. QED BY <2>3 DEF Abstract!Next
<1>3. ASSUME NEW p \in Requests, Rotated(p) PROVE Abstract!Next
  <2>1. PICK t \in Tokens, n \in Tokens :
          t = req[p].token /\ n = req[p].new /\ Live(t) /\ Issued(t) /\ ~Issued(n)
    BY <1>3 DEF Rotated, GrantInv, ReqInv
  <2>2. PICK c \in Codes : c = row[t].code
    BY <2>1 DEF GrantInv, RowsInv
  <2>3. /\ row' = [row EXCEPT ![t].revoked = now, ![t].replaced = TRUE, ![n] = Successor(row[t])]
        /\ row \in [Tokens -> RefreshRow] /\ t # n
    BY <1>3, <2>1 DEF Rotated, GrantInv, TypeOK
  <2>4. /\ row'[n].state = "kept" /\ row'[n].code = c /\ row'[n].revoked = None
        /\ row'[t].state = row[t].state /\ row'[t].code = row[t].code
        /\ \A u \in Tokens \ {t, n} : row'[u] = row[u]
    BY <2>1, <2>2, <2>3 DEF Successor, RefreshRow, Live
  <2>5. Abstract!Hand(c, n)
    <3>1. Issued(n)' /\ Live(n)'
      BY <2>4 DEF Issued, Live
    <3>2. /\ \A u \in Tokens \ {n} : row'[u].code = row[u].code /\ Issued(u)' = Issued(u)
          /\ \A u \in Tokens \ {n} : row[u].code # c => Live(u)' = Live(u)
      BY <2>2, <2>4 DEF Issued, Live
    <3>3. LiveOf(c) # {}
      BY <2>1, <2>2 DEF LiveOf
    <3>4. QED BY <2>1, <2>4, <3>1, <3>2, <3>3, HandsOut
  <2>6. QED BY <2>5 DEF Abstract!Next
<1>4. ASSUME NEW p \in Requests, Revoked(p) PROVE Abstract!Next
  <2>1. \A u \in Tokens : /\ row'[u].code = row[u].code /\ row'[u].state = row[u].state
                          /\ row'[u] = row[u] \/ row'[u].revoked = now
    BY <1>4 DEF Revoked, GrantInv, TypeOK, RefreshRow
  <2>2. now # None
    BY OAuthAssumption DEF GrantInv, TypeOK
  <2>3. \A u \in Tokens : Issued(u)' = Issued(u) /\ (Live(u)' => Live(u))
    BY <2>1, <2>2 DEF Issued, Live
  <2>4. QED BY <2>1, <2>3, EndsLogins DEF Abstract!Next
<1>5. CASE PurgeDeadRows
  <2>1. \A u \in Tokens : /\ row'[u].code = row[u].code
                          /\ row'[u] = row[u] \/ (row[u].state = "kept" /\ row'[u].state = "purged")
    BY <1>5 DEF PurgeDeadRows, GrantInv, TypeOK, RefreshRow, DeadLogin
  <2>2. \A u \in Tokens : Issued(u)' = Issued(u) /\ (Live(u)' => Live(u))
    BY <2>1 DEF Issued, Live
  <2>3. QED BY <2>1, <2>2, EndsLogins DEF Abstract!Next
<1>6. \/ row' = row
      \/ \E p \in Requests : TokensIssued(p) \/ Rotated(p) \/ Revoked(p)
      \/ PurgeDeadRows
  BY DEF Next, vars, Proceed, IssueCode, RedeemCode, LoadRefreshToken, RevokeFamily,
     RevokeReplayedCode, IssueTokens, RotateRefreshToken, Reused, RevokeRow,
     RowsRevoked, RevokeAgain, RolledBack, Tick
<1>7. QED BY <1>1, <1>2, <1>3, <1>4, <1>5, <1>6

\* Seen from outside, a login of any client, however its requests overlap, starts
\* once, hands out one token never seen before at a time, and stays over.
THEOREM RowsAreLogins == Spec => ImplementsLogins
<1>1. Init => Abstract!Init
  <2> SUFFICES ASSUME Init PROVE Abstract!Init
    OBVIOUS
  <2>1. \A t \in Tokens : row[t].state = "none" /\ row[t].code = None
    BY DEF Init, NoRow
  <2>2. ASSUME NEW c \in Codes PROVE LoginOf(c) = Abstract!Unborn
    <3>1. LiveOf(c) = {}
      BY <2>1 DEF LiveOf, Live
    <3>2. ~\E t \in Tokens : row[t].code = c
      BY <2>1, OAuthAssumption
    <3>3. QED BY <3>1, <3>2 DEF LoginOf, Abstract!Unborn
  <2>3. QED BY <2>1, <2>2 DEF Abstract!Init
<1>2. QED BY <1>1, GrantsRefine, GrantsInvariant, PTL DEF Spec, ImplementsLogins, Abstract!Spec
==============================================================================
