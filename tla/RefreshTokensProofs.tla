------------------------- MODULE RefreshTokensProofs -------------------------
(***************************************************************************)
(* Proofs about RefreshTokens, for any number of browsers, callers, tokens   *)
(* and failures.                                                            *)
(*                                                                          *)
(* The argument: as long as no requests of a browser meet and no answer that *)
(* replaces its cookie is lost, each token is in one place only: one cookie, *)
(* or one answer under way (Quiet); so a token that is presented was not     *)
(* revoked, and nothing is taken for a copy.                                *)
(*                                                                          *)
(* Two more results hold when requests of a browser do meet.  Whatever       *)
(* happens, only the requests of one browser carry a token (Ownership).  So  *)
(* a cookie's token is spent only by a request whose answer replaces it      *)
(* (CookieIsGood), and a refresh without company is the only one to give up  *)
(* its token, which pays for the successor (PaidFor).                        *)
(***************************************************************************)
EXTENDS RefreshTokens, FiniteSetTheorems, TLAPS

Stage == {"idle", "read", "replace", "alarm", "revoke", "create", "check", "login", "logout", "answer"}
Rotating == {"read", "replace", "alarm", "revoke", "create", "check"}

Request == [at : Stage, from : SUBSET Browsers, token : Tokens \cup {0}, new : Tokens \cup {0},
            company : {0, 1}]

Types ==
  /\ age \in 0..MaxTokens
  /\ row \in [Tokens -> {"unissued", "live", "revoked", "deleted"}]
  /\ recent \subseteq Tokens
  /\ cookie \in [Browsers -> Tokens \cup {0}]
  /\ call \in [Callers -> Request]
  /\ logins \in Nat /\ shared \in Nat
  /\ faults \in 0..MaxFaults

Flags == platform \in BOOLEAN /\ raced \in BOOLEAN /\ dropped \in BOOLEAN /\ alarmed \in BOOLEAN

(* Tokens in cookies, requests and answers have been issued. *)
Issued ==
  /\ \A b \in Browsers : cookie[b] # 0 => row[cookie[b]] # "unissued"
  /\ \A c \in Callers :
       /\ call[c].token # 0 => row[call[c].token] # "unissued"
       /\ call[c].new # 0 => row[call[c].new] # "unissued"
       /\ call[c].at \in Rotating => call[c].token # 0
       /\ call[c].at = "idle" => call[c] = NoCall

(* The token is revoked, or may be, and its successor is on its way. *)
Spent == {"create", "check", "answer"}
Good == {"live", "deleted"}

(* What holds until two requests of a browser meet or an answer is dropped. *)
Apart ==
  \A c, d \in Callers : \A a \in call[c].from : \A b \in call[d].from : c = d <=> a = b
Carried ==
  \A c \in Callers :
    /\ call[c].at \notin {"replace", "alarm"}
    /\ call[c].at # "idle" => call[c].from # {}
    /\ \A b \in call[c].from : call[c].token \in {0, cookie[b]}
OnePlace ==
  /\ \A a, b \in Browsers : a # b => cookie[a] = 0 \/ cookie[a] # cookie[b]
  /\ \A c \in Callers :
       call[c].new # 0 =>
         /\ row[call[c].new] \in Good
         /\ call[c].at \in Spent
         /\ \A b \in Browsers : call[c].new # cookie[b]
         /\ \A d \in Callers : c # d => call[c].new # call[d].new
Fresh ==
  \A b \in Browsers :
    cookie[b] # 0 /\ (\A c \in InProgress(b) : call[c].token = 0 \/ call[c].at \notin Spent)
      => row[cookie[b]] \in Good
Quiet == ~ alarmed /\ Apart /\ Carried /\ OnePlace /\ Fresh
QuietUntilMet == ~ raced /\ ~ dropped => Quiet

LEMMA TypesInParts == Types /\ Issued /\ Flags => TypeOK
BY DEF Types, Issued, Flags, TypeOK, Request, Stage, Rotating

WellTyped == Types /\ Issued

-----------------------------------------------------------------------------
LEMMA InitFlags == Init => Flags
BY Zenon DEF Init, Flags

LEMMA StepFlags == Flags /\ [Next]_vars => Flags'
<1> SUFFICES ASSUME Flags, [Next]_vars PROVE Flags'
  OBVIOUS
<1>1. \A c \in Callers : \A b \in Browsers :
        SendRefresh(c, b) \/ SendLogin(c, b) \/ SendLogout(c, b) => Flags'
  BY Zenon DEF SendRefresh, SendLogin, SendLogout, Send, Flags, account
<1>2. \A c \in Callers : Handle(c) => Flags'
  BY Zenon DEF Handle, ReadToken, FindReplacement, RevokeFamily, RevokeToken, CreateToken,
               CheckAccount, LogOut, Answer, Unchanged, account, Flags
<1>3. \A c \in Callers : Lose(c) => Flags'
  BY Zenon DEF Lose, account, Flags
<1>4. (\E t \in Tokens : GraceEnds(t)) \/ Expire \/ DeleteExpired \/ UNCHANGED vars => Flags'
  BY Zenon DEF GraceEnds, Expire, DeleteExpired, vars, account, Flags
<1> QED BY <1>1, <1>2, <1>3, <1>4, Zenon DEF Next

LEMMA InitWellTyped == Init => WellTyped
<1> SUFFICES ASSUME Init PROVE WellTyped
  OBVIOUS
<1>1. NoCall \in Request /\ NoCall.token = 0 /\ NoCall.new = 0 /\ NoCall.at = "idle"
  BY DEF NoCall, Request, Stage
<1>2. Types
  BY <1>1, TokensAssumption DEF Init, Types
<1>3. Issued
  BY <1>1 DEF Init, Issued, Rotating
<1> QED BY <1>2, <1>3 DEF WellTyped

(* One request goes on, as r; rows are never unissued again. *)
LEMMA OneGoesOn ==
  ASSUME WellTyped, NEW c \in Callers, NEW r \in Request, call' = [call EXCEPT ![c] = r],
         UNCHANGED age,
         row' \in [Tokens -> {"unissued", "live", "revoked", "deleted"}],
         \A t \in Tokens : row[t] # "unissued" => row'[t] # "unissued",
         recent' \subseteq Tokens,
         cookie' \in [Browsers -> Tokens \cup {0}],
         \A b \in Browsers : cookie'[b] # 0 => row'[cookie'[b]] # "unissued",
         logins' \in Nat, shared' \in Nat, faults' \in 0..MaxFaults,
         r.token # 0 => row'[r.token] # "unissued",
         r.new # 0 => row'[r.new] # "unissued",
         r.at \in Rotating => r.token # 0,
         r.at = "idle" => r = NoCall
  PROVE  WellTyped'
<1>1. Types'
  BY DEF WellTyped, Types
<1>2. ASSUME NEW o \in Callers
      PROVE  /\ call'[o].token # 0 => row'[call'[o].token] # "unissued"
             /\ call'[o].new # 0 => row'[call'[o].new] # "unissued"
             /\ call'[o].at \in Rotating => call'[o].token # 0
             /\ call'[o].at = "idle" => call'[o] = NoCall
  <2>1. CASE o = c
    BY <2>1 DEF WellTyped, Types
  <2>2. CASE o # c
    <3>1. call'[o] = call[o] /\ call[o] \in Request
      BY <2>2 DEF WellTyped, Types
    <3>2. call[o].token \in Tokens \cup {0} /\ call[o].new \in Tokens \cup {0}
      BY <3>1 DEF Request
    <3> QED BY <3>1, <3>2 DEF WellTyped, Issued
  <2> QED BY <2>1, <2>2
<1>3. Issued'
  BY <1>2 DEF Issued
<1> QED BY <1>1, <1>3 DEF WellTyped

LEMMA StepWellTyped == WellTyped /\ [Next]_vars => WellTyped'
<1> SUFFICES ASSUME WellTyped, [Next]_vars PROVE WellTyped'
  OBVIOUS
<1>t. Types /\ Issued
  BY DEF WellTyped
<1>n. NoCall \in Request /\ NoCall.token = 0 /\ NoCall.new = 0 /\ NoCall.at = "idle"
  BY DEF NoCall, Request, Stage
<1>k. \A b \in Browsers : cookie[b] # 0 => row[cookie[b]] # "unissued"
  BY <1>t DEF Issued
<1>c. \A c \in Callers : /\ call[c] \in Request
                         /\ call[c].token \in Tokens \cup {0} /\ call[c].new \in Tokens \cup {0}
                         /\ call[c].token # 0 => row[call[c].token] # "unissued"
                         /\ call[c].new # 0 => row[call[c].new] # "unissued"
                         /\ call[c].at \in Rotating => call[c].token # 0
  BY <1>t DEF Types, Issued, Request
<1>1. ASSUME NEW c \in Callers, NEW b \in Browsers, NEW at \in {"read", "login", "logout"},
             NEW token \in {0, cookie[b]}, at = "read" => token # 0, Send(c, at, b, token)
      PROVE  WellTyped'
  <2>1. Call(at, b, token, IF InProgress(b) = {} THEN 0 ELSE 1) \in Request
    BY <1>1, <1>t DEF Call, Request, Stage, Types
  <2>2. \A o \in Callers : call'[o] = IF o = c THEN Call(at, b, token, IF InProgress(b) = {} THEN 0 ELSE 1)
          ELSE IF o \in InProgress(b) THEN [call[o] EXCEPT !.company = 1] ELSE call[o]
    BY <1>1 DEF Send
  <2>3. ASSUME NEW o \in Callers \ {c}
        PROVE  /\ call'[o] \in Request
               /\ call'[o].token = call[o].token /\ call'[o].new = call[o].new
               /\ call'[o].at = call[o].at /\ (call[o] = NoCall => call'[o] = NoCall)
    <3>1. call'[o] = call[o] \/ call'[o] = [call[o] EXCEPT !.company = 1]
      BY <2>2
    <3>2. call[o] = NoCall => call'[o] = call[o]
      <4>1. call[o] = NoCall => o \notin InProgress(b)
        BY DEF InProgress, NoCall
      <4> QED BY <2>2, <4>1
    <3>3. \A x \in Request : LET y == [x EXCEPT !.company = 1] IN
            y \in Request /\ y.token = x.token /\ y.new = x.new /\ y.at = x.at
      BY DEF Request
    <3>4. \/ call'[o] = call[o]
          \/ \E x \in Request : x = call[o] /\ call'[o] = [x EXCEPT !.company = 1]
      BY <3>1, <1>c
    <3>5. /\ call'[o] \in Request
          /\ call'[o].token = call[o].token /\ call'[o].new = call[o].new /\ call'[o].at = call[o].at
      BY <3>3, <3>4, <1>c, ZenonT(60)
    <3> QED BY <3>2, <3>5
  <2>4. call' \in [Callers -> Request]
    BY <1>1, <2>1, <2>3, <2>2 DEF Send
  <2>5. Types'
    BY <1>1, <1>t, <2>4 DEF Send, Types, account, counts
  <2>6. /\ call'[c].token = token /\ call'[c].new = 0 /\ call'[c].at = at
    <3>1. call'[c] = Call(at, b, token, IF InProgress(b) = {} THEN 0 ELSE 1)
      BY <2>2
    <3> QED BY <3>1 DEF Call
  <2>7. Issued'
    BY <1>1, <1>t, <2>3, <2>6 DEF Send, Issued, Rotating
  <2> QED BY <2>5, <2>7 DEF WellTyped
<1>2. ASSUME NEW c \in Callers, NEW r \in Request, call' = [call EXCEPT ![c] = r],
             UNCHANGED <<account, cookie, counts>>,
             row' \in [Tokens -> {"unissued", "live", "revoked", "deleted"}],
             \A t \in Tokens : row[t] # "unissued" => row'[t] # "unissued",
             recent' \subseteq Tokens, faults' \in 0..MaxFaults,
             \/ r = NoCall
             \/ /\ r.token = call[c].token /\ r.new = call[c].new
                /\ r.at \in Rotating => call[c].at \in Rotating
                /\ r.at # "idle"
      PROVE  WellTyped'
  <2>1. \A b \in Browsers : cookie'[b] # 0 => row'[cookie'[b]] # "unissued"
    BY <1>2, <1>k, <1>t DEF Types
  <2>2. /\ r.token # 0 => row'[r.token] # "unissued"
        /\ r.new # 0 => row'[r.new] # "unissued"
        /\ r.at \in Rotating => r.token # 0
        /\ r.at = "idle" => r = NoCall
    BY <1>2, <1>c, <1>n DEF Rotating
  <2>3. /\ UNCHANGED age /\ cookie' \in [Browsers -> Tokens \cup {0}]
        /\ logins' \in Nat /\ shared' \in Nat
    BY <1>2, <1>t DEF account, counts, Types
  <2> QED BY <1>2, <2>1, <2>2, <2>3, OneGoesOn
<1>3. ASSUME NEW c \in Callers, ReadToken(c) PROVE WellTyped'
  <2> DEFINE at == IF row[call[c].token] # "revoked" THEN "revoke"
                   ELSE IF platform /\ call[c].token \in recent THEN "replace" ELSE "alarm"
  <2>1. PICK r : r = IF row[call[c].token] # "revoked"
                        /\ (row[call[c].token] = "deleted" \/ Expired(call[c].token))
                     THEN NoCall ELSE [call[c] EXCEPT !.at = at]
    OBVIOUS
  <2>2. at \in {"revoke", "replace", "alarm"}
    OBVIOUS
  <2>3. call' = [call EXCEPT ![c] = r]
    BY <1>3, <2>1 DEF ReadToken
  <2> HIDE DEF at
  <2>4. /\ r \in Request
        /\ \/ r = NoCall
           \/ r.token = call[c].token /\ r.new = call[c].new /\ r.at # "idle"
    BY <2>1, <2>2, <1>n, <1>c DEF Request, Stage
  <2> QED BY <1>2, <1>3, <1>t, <2>3, <2>4 DEF ReadToken, Unchanged, Types, Rotating
<1>4. ASSUME NEW c \in Callers, NEW at \in Stage \ {"idle"}, Goto(c, at),
             at \in Rotating => call[c].at \in Rotating,
             UNCHANGED <<account, cookie, counts>>,
             row' \in [Tokens -> {"unissued", "live", "revoked", "deleted"}],
             \A t \in Tokens : row[t] # "unissued" => row'[t] # "unissued",
             recent' \subseteq Tokens, faults' \in 0..MaxFaults
      PROVE  WellTyped'
  <2>1. PICK r : r = [call[c] EXCEPT !.at = at]
    OBVIOUS
  <2>2. r \in Request /\ r.token = call[c].token /\ r.new = call[c].new /\ r.at = at
    BY <1>c, <2>1 DEF Request
  <2>3. call' = [call EXCEPT ![c] = r]
    BY <1>4, <2>1 DEF Goto
  <2> QED BY <1>2, <1>4, <2>2, <2>3
<1>5. ASSUME NEW c \in Callers, FindReplacement(c) PROVE WellTyped'
  BY <1>2, <1>4, <1>5, <1>n, <1>t DEF FindReplacement, End, Unchanged, Types, Rotating, Stage
<1>6. ASSUME NEW c \in Callers, RevokeFamily(c) PROVE WellTyped'
  <2>1. /\ row' \in [Tokens -> {"unissued", "live", "revoked", "deleted"}]
        /\ \A t \in Tokens : row[t] # "unissued" => row'[t] # "unissued"
        /\ recent' \subseteq Tokens
    BY <1>6, <1>t DEF RevokeFamily, Types, Live
  <2> QED BY <1>2, <1>6, <1>n, <1>t, <2>1 DEF RevokeFamily, End, Unchanged, Types
<1>7. ASSUME NEW c \in Callers, RevokeToken(c) PROVE WellTyped'
  <2>0. call[c].token \in Tokens
    BY <1>7, <1>c DEF RevokeToken, Rotating
  <2>1. /\ row' \in [Tokens -> {"unissued", "live", "revoked", "deleted"}]
        /\ \A t \in Tokens : row[t] # "unissued" => row'[t] # "unissued"
        /\ recent' \subseteq Tokens
    BY <1>7, <1>t, <2>0 DEF RevokeToken, Types
  <2> QED BY <1>4, <1>7, <1>t, <2>1 DEF RevokeToken, Unchanged, Types, Rotating, Stage
<1>8. ASSUME NEW c \in Callers, CreateToken(c) PROVE WellTyped'
  <2>1. PICK t \in Unissued :
          /\ row' = [row EXCEPT ![t] = "live"]
          /\ call' = [call EXCEPT ![c].new = t,
                                  ![c].at = IF @ = "login" THEN "answer" ELSE "check"]
    BY <1>8 DEF CreateToken
  <2>2. PICK r : r = [call[c] EXCEPT !.new = t, !.at = IF call[c].at = "login" THEN "answer" ELSE "check"]
    OBVIOUS
  <2>3. /\ t \in Tokens /\ r \in Request /\ r.token = call[c].token /\ r.new = t
        /\ r.at = IF call[c].at = "login" THEN "answer" ELSE "check"
    BY <1>c, <2>1, <2>2 DEF Unissued, Request, Stage
  <2>4. call' = [call EXCEPT ![c] = r]
    BY <2>1, <2>2
  <2>5. /\ row' \in [Tokens -> {"unissued", "live", "revoked", "deleted"}] /\ row'[t] = "live"
        /\ \A i \in Tokens : row[i] # "unissued" => row'[i] # "unissued"
    BY <1>t, <2>1, <2>3 DEF Types
  <2>6. \A b \in Browsers : cookie[b] # 0 => row'[cookie[b]] # "unissued"
    BY <1>k, <1>t, <2>5 DEF Types
  <2>7. /\ r.token # 0 => row'[r.token] # "unissued"
        /\ r.at \in Rotating => r.token # 0
    BY <1>8, <1>c, <2>3, <2>5 DEF CreateToken, Rotating
  <2>8. logins' \in Nat /\ shared' \in Nat
    <3>1. call[c].company \in {0, 1}
      BY <1>c DEF Request
    <3> QED BY <1>8, <1>t, <3>1 DEF CreateToken, Types
  <2> QED BY <1>8, <1>t, <2>3, <2>4, <2>5, <2>6, <2>7, <2>8, OneGoesOn
          DEF CreateToken, account, Types
<1>9. ASSUME NEW c \in Callers, CheckAccount(c) PROVE WellTyped'
  BY <1>2, <1>4, <1>9, <1>n, <1>t DEF CheckAccount, End, Types, Rotating, Stage
<1>10. ASSUME NEW c \in Callers, LogOut(c) PROVE WellTyped'
  <2>1. /\ row' \in [Tokens -> {"unissued", "live", "revoked", "deleted"}]
        /\ \A t \in Tokens : row[t] # "unissued" => row'[t] # "unissued"
    BY <1>10, <1>t DEF LogOut, Types
  <2> QED BY <1>4, <1>10, <1>t, <2>1 DEF LogOut, Unchanged, Types, Rotating, Stage
<1>11. ASSUME NEW c \in Callers, Answer(c) PROVE WellTyped'
  <2>1. /\ cookie' \in [Browsers -> Tokens \cup {0}]
        /\ \A b \in Browsers : cookie'[b] # 0 => row'[cookie'[b]] # "unissued"
    BY <1>11, <1>c, <1>k, <1>t DEF Answer, Types
  <2> QED BY <1>11, <1>n, <1>t, <2>1, OneGoesOn DEF Answer, End, account, counts, Types, Rotating
<1>12. ASSUME NEW c \in Callers, Lose(c) PROVE WellTyped'
  <2>1. faults' \in 0..MaxFaults
    BY <1>12, <1>t, TokensAssumption DEF Lose, Types
  <2> QED BY <1>2, <1>12, <1>n, <1>t, <2>1 DEF Lose, End, Types
<1>13. CASE DeleteExpired
  <2>1. /\ row' \in [Tokens -> {"unissued", "live", "revoked", "deleted"}]
        /\ \A t \in Tokens : row[t] # "unissued" => row'[t] # "unissued"
    BY <1>13, <1>t DEF DeleteExpired, Types
  <2>2. Types'
    BY <1>13, <1>t, <2>1 DEF DeleteExpired, Types, account, counts
  <2>3. Issued'
    BY <1>13, <1>t, <1>c, <1>k, <2>1 DEF DeleteExpired, Types, Issued
  <2> QED BY <2>2, <2>3 DEF WellTyped
<1>14. CASE Expire
  BY <1>14, <1>t, TokensAssumption DEF Expire, WellTyped, Types, Issued, Tokens, counts
<1>15. CASE (\E t \in Tokens : GraceEnds(t)) \/ UNCHANGED vars
  BY <1>15, <1>t DEF GraceEnds, vars, account, counts, WellTyped, Types, Issued
<1> QED
  BY <1>1, <1>3, <1>5, <1>6, <1>7, <1>8, <1>9, <1>10, <1>11, <1>12, <1>13, <1>14, <1>15
  DEF Next, Handle, SendRefresh, SendLogin, SendLogout

(* TypeOK: a request that rotates holds a token that was issued. *)
THEOREM TypeCorrect == Spec => []TypeOK
<1>1. WellTyped /\ Flags => TypeOK
  BY TypesInParts DEF WellTyped
<1> QED BY <1>1, InitWellTyped, StepWellTyped, InitFlags, StepFlags, PTL DEF Spec

-----------------------------------------------------------------------------
(* One request goes on, or ends, as r: it may have cost its own token its row, *)
(* and then its answer is under way.                                           *)
LEMMA QuietGoesOn ==
  ASSUME WellTyped, Apart, Carried, OnePlace, Fresh,
         NEW c \in Callers, NEW r \in Request, call' = [call EXCEPT ![c] = r], UNCHANGED cookie,
         call[c].at # "idle",
         \/ r = NoCall /\ (call[c].token = 0 \/ call[c].at \notin Spent)
         \/ /\ r.from = call[c].from /\ r.token = call[c].token /\ r.new = call[c].new
            /\ call[c].at \in Spent => r.at \in Spent,
         r.at \notin {"replace", "alarm"},
         \A t \in Tokens : row[t] \in Good => \/ row'[t] \in Good
                                              \/ t = call[c].token /\ r.at \in Spent
  PROVE  Apart' /\ Carried' /\ OnePlace' /\ Fresh'
<1>n. NoCall.from = {} /\ NoCall.token = 0 /\ NoCall.new = 0 /\ NoCall.at = "idle"
  BY DEF NoCall
<1>t. /\ \A b \in Browsers : cookie[b] \in Tokens \cup {0}
      /\ \A o \in Callers : /\ call[o].new \in Tokens \cup {0} /\ call[o].token \in Tokens \cup {0}
                            /\ call[o].from \subseteq Browsers
  BY DEF WellTyped, Types, Request
<1>r. call'[c] = r /\ \A o \in Callers : o # c => call'[o] = call[o]
  BY DEF WellTyped, Types
<1>1. PICK a \in call[c].from : a \in Browsers /\ call[c].token \in {0, cookie[a]}
  BY <1>t DEF Carried
<1>2. ASSUME NEW o \in Callers
      PROVE  /\ call'[o].from = {} \/ call'[o].from = call[o].from
             /\ call'[o].token \in {0, call[o].token}
             /\ call'[o].new \in {0, call[o].new}
             /\ call'[o].at \notin {"replace", "alarm"}
             /\ call'[o].at # "idle" => call'[o].from # {}
             /\ call'[o].new # 0 /\ call[o].at \in Spent => call'[o].at \in Spent
  <2>1. CASE o = c
    BY <2>1, <1>r, <1>n DEF Carried
  <2>2. CASE o # c
    BY <2>2, <1>r DEF Carried
  <2> QED BY <2>1, <2>2
<1>3. Apart'
  BY <1>2 DEF Apart
<1>4. Carried'
  BY <1>2 DEF Carried
<1>5. OnePlace'
  <2>1. ASSUME NEW o \in Callers, call'[o].new # 0
        PROVE  /\ call[o].new = call'[o].new /\ call[o].at \in Spent
               /\ row'[call[o].new] \in Good
    <3>1. call[o].new = call'[o].new /\ call[o].at \in Spent /\ row[call[o].new] \in Good
      BY <2>1, <1>2 DEF OnePlace
    <3>2. call[o].new # call[c].token
      BY <2>1, <3>1, <1>1 DEF OnePlace
    <3> QED BY <3>1, <3>2, <1>t, <2>1
  <2> QED BY <2>1, <1>2 DEF OnePlace
<1>6. Fresh'
  <2> SUFFICES ASSUME NEW b \in Browsers, cookie[b] # 0,
                      \A o \in InProgress(b)' : call'[o].token = 0 \/ call'[o].at \notin Spent
               PROVE  row'[cookie[b]] \in Good
    BY DEF Fresh
  <2>1. ASSUME NEW o \in InProgress(b) PROVE call[o].token = 0 \/ call[o].at \notin Spent
    <3>1. o \in Callers /\ b \in call[o].from
      BY DEF InProgress
    <3>2. CASE o # c
      BY <3>1, <3>2, <1>r DEF InProgress
    <3>3. CASE o = c
      BY <3>1, <3>3, <1>r DEF InProgress
    <3> QED BY <3>2, <3>3
  <2>2. row[cookie[b]] \in Good
    BY <2>1 DEF Fresh
  <2>3. ASSUME cookie[b] = call[c].token, r.at \in Spent PROVE FALSE
    <3>1. a = b
      BY <2>3, <1>1 DEF OnePlace
    <3>2. r.from = call[c].from /\ r.token = call[c].token
      BY <2>3, <1>n DEF Spent
    <3>3. c \in InProgress(b)'
      BY <3>1, <3>2, <1>r, <1>1 DEF InProgress
    <3> QED BY <3>2, <3>3, <2>3, <1>r
  <2> QED BY <2>2, <2>3, <1>t
<1> QED BY <1>3, <1>4, <1>5, <1>6

(* A request leaves a browser that waits for no answer. *)
LEMMA QuietSend ==
  ASSUME WellTyped, Apart, Carried, OnePlace, Fresh, NEW c \in Callers, NEW b \in Browsers,
         NEW at \in {"read", "login", "logout"}, NEW token \in {0, cookie[b]},
         Send(c, at, b, token), InProgress(b) = {}
  PROVE  Apart' /\ Carried' /\ OnePlace' /\ Fresh'
<1>1. /\ call'[c].at = at /\ call'[c].from = {b} /\ call'[c].token = token /\ call'[c].new = 0
  <2>1. call'[c] = Call(at, b, token, IF InProgress(b) = {} THEN 0 ELSE 1)
    BY DEF Send
  <2> QED BY <2>1 DEF Call
<1>2. \A o \in Callers : o # c => call'[o] = call[o]
  BY DEF Send
<1>3. cookie' = cookie /\ row' = row /\ call[c].at = "idle"
  BY DEF Send
<1>i. call[c].from = {} /\ call[c].token = 0 /\ call[c].new = 0
  BY <1>3 DEF WellTyped, Issued, NoCall
<1>4. \A o \in Callers : b \notin call[o].from
  BY DEF InProgress
<1>5. Apart'
  <2> SUFFICES ASSUME NEW o \in Callers, NEW d \in Callers, NEW x \in call'[o].from, NEW y \in call'[d].from
               PROVE  o = d <=> x = y
    BY DEF Apart
  <2>1. CASE o = c /\ d = c
    BY <2>1, <1>1
  <2>2. CASE (o = c /\ d # c) \/ (o # c /\ d = c)
    BY <2>2, <1>1, <1>2, <1>4
  <2>3. CASE o # c /\ d # c
    BY <2>3, <1>2 DEF Apart
  <2> QED BY <2>1, <2>2, <2>3
<1>6. Carried'
  BY <1>1, <1>2, <1>3 DEF Carried
<1>7. OnePlace'
  BY <1>1, <1>2, <1>3 DEF OnePlace
<1>8. Fresh'
  <2> SUFFICES ASSUME NEW x \in Browsers, cookie[x] # 0,
                      \A o \in InProgress(x)' : call'[o].token = 0 \/ call'[o].at \notin Spent
               PROVE  row[cookie[x]] \in Good
    BY <1>3 DEF Fresh
  <2>1. ASSUME NEW o \in InProgress(x) PROVE call[o].token = 0 \/ call[o].at \notin Spent
    <3>1. o \in Callers /\ x \in call[o].from /\ o # c
      BY <1>i DEF InProgress
    <3> QED BY <3>1, <1>2 DEF InProgress
  <2> QED BY <2>1 DEF Fresh
<1> QED BY <1>5, <1>6, <1>7, <1>8

(* A token is issued: nobody has it but the answer. *)
LEMMA QuietCreate ==
  ASSUME WellTyped, Apart, Carried, OnePlace, Fresh, NEW c \in Callers, CreateToken(c)
  PROVE  Apart' /\ Carried' /\ OnePlace' /\ Fresh'
<1>t. /\ \A b \in Browsers : cookie[b] \in Tokens \cup {0}
      /\ \A o \in Callers : call[o] \in Request /\ call[o].new \in Tokens \cup {0}
  BY DEF WellTyped, Types, Request
<1>1. PICK t \in Unissued :
        /\ row' = [row EXCEPT ![t] = "live"]
        /\ call' = [call EXCEPT ![c].new = t,
                                ![c].at = IF @ = "login" THEN "answer" ELSE "check"]
  BY DEF CreateToken
<1>2. t \in Tokens /\ t # 0 /\ row[t] = "unissued" /\ row'[t] = "live"
      /\ \A i \in Tokens : i # t => row'[i] = row[i]
  BY <1>1 DEF Unissued, Tokens, WellTyped, Types
<1>3. /\ call'[c].new = t /\ call'[c].at \in {"check", "answer"}
      /\ call'[c].from = call[c].from /\ call'[c].token = call[c].token
      /\ call[c].at # "idle"
      /\ call[c].at = "create" => call[c].at \in Spent
      /\ call[c].at = "login" => call'[c].at = "answer"
      /\ \A o \in Callers : o # c => call'[o] = call[o]
  BY <1>1, <1>t DEF CreateToken, Request, Spent, WellTyped, Types
<1>4. cookie' = cookie
  BY DEF CreateToken
<1>5. /\ \A b \in Browsers : cookie[b] # t
      /\ \A o \in Callers : call[o].new # t
  BY <1>2 DEF WellTyped, Issued
<1>6. \A o \in Callers : call'[o].from = call[o].from /\ call'[o].token = call[o].token
  BY <1>3
<1>7. Apart'
  BY <1>6 DEF Apart
<1>8. Carried'
  BY <1>3, <1>4, <1>6 DEF Carried
<1>9. OnePlace'
  <2>1. ASSUME NEW o \in Callers, call'[o].new # 0
        PROVE  /\ row'[call'[o].new] \in Good
               /\ call'[o].at \in Spent
               /\ \A b \in Browsers : call'[o].new # cookie[b]
               /\ \A d \in Callers : o # d => call'[o].new # call'[d].new
    <3>1. CASE o = c
      BY <3>1, <1>2, <1>3, <1>5 DEF Good, Spent
    <3>2. CASE o # c
      BY <3>2, <2>1, <1>2, <1>3, <1>5, <1>t DEF OnePlace
    <3> QED BY <3>1, <3>2
  <2> QED BY <2>1, <1>4 DEF OnePlace
<1>10. Fresh'
  <2> SUFFICES ASSUME NEW x \in Browsers, cookie[x] # 0,
                      \A o \in InProgress(x)' : call'[o].token = 0 \/ call'[o].at \notin Spent
               PROVE  row'[cookie[x]] \in Good
    BY <1>4 DEF Fresh
  <2>1. ASSUME NEW o \in InProgress(x) PROVE call[o].token = 0 \/ call[o].at \notin Spent
    <3>1. o \in Callers /\ x \in call[o].from
      BY DEF InProgress
    <3>2. o \in InProgress(x)'
      BY <3>1, <1>6 DEF InProgress
    <3>3. call'[o].token = 0 \/ call'[o].at \notin Spent
      BY <3>2
    <3>4. CASE o = c
      BY <3>3, <3>4, <1>3, <1>6, <3>1 DEF Spent
    <3>5. CASE o # c
      BY <3>1, <3>3, <3>5, <1>3
    <3> QED BY <3>4, <3>5
  <2> QED BY <2>1, <1>2, <1>5, <1>t DEF Fresh
<1> QED BY <1>7, <1>8, <1>9, <1>10

(* The answer arrives: what it carried is in the cookie now. *)
LEMMA QuietAnswer ==
  ASSUME WellTyped, Apart, Carried, OnePlace, Fresh, NEW c \in Callers, Answer(c)
  PROVE  Apart' /\ Carried' /\ OnePlace' /\ Fresh'
<1>n. NoCall.from = {} /\ NoCall.token = 0 /\ NoCall.new = 0 /\ NoCall.at = "idle"
  BY DEF NoCall
<1>1. /\ call'[c] = NoCall /\ row' = row
      /\ \A o \in Callers : o # c => call'[o] = call[o]
  BY DEF Answer, End, WellTyped, Types
<1>2. PICK b \in Browsers : call[c].from = {b}
  <2>1. call[c].from # {} /\ call[c].from \subseteq Browsers
    BY DEF Answer, Carried, WellTyped, Types, Request
  <2> QED BY <2>1 DEF Apart
<1>3. cookie'[b] = call[c].new /\ \A x \in Browsers : x # b => cookie'[x] = cookie[x]
  BY <1>2 DEF Answer
<1>4. \A o \in Callers : o # c => b \notin call[o].from
  BY <1>2 DEF Apart
<1>f. \A o \in Callers : call[o].from \subseteq Browsers
  BY DEF WellTyped, Types, Request
<1>5. Apart'
  <2> SUFFICES ASSUME NEW o \in Callers, NEW d \in Callers, NEW x \in call'[o].from, NEW y \in call'[d].from
               PROVE  o = d <=> x = y
    BY DEF Apart
  <2>1. o # c /\ d # c
    BY <1>1, <1>n
  <2> QED BY <2>1, <1>1 DEF Apart
<1>6. Carried'
  <2>1. ASSUME NEW o \in Callers
        PROVE  /\ call'[o].at \notin {"replace", "alarm"}
               /\ call'[o].at # "idle" => call'[o].from # {}
               /\ \A x \in call'[o].from : call'[o].token \in {0, cookie'[x]}
    <3>1. CASE o = c
      BY <3>1, <1>1, <1>n
    <3>2. CASE o # c
      BY <3>2, <1>1, <1>3, <1>4, <1>f DEF Carried
    <3> QED BY <3>1, <3>2
  <2> QED BY <2>1 DEF Carried
<1>7. OnePlace'
  <2>1. \A x, y \in Browsers : x # y => cookie'[x] = 0 \/ cookie'[x] # cookie'[y]
    BY <1>3 DEF OnePlace
  <2>2. ASSUME NEW o \in Callers, call'[o].new # 0
        PROVE  /\ row[call'[o].new] \in Good
               /\ call'[o].at \in Spent
               /\ \A x \in Browsers : call'[o].new # cookie'[x]
               /\ \A d \in Callers : o # d => call'[o].new # call'[d].new
    <3>1. o # c /\ call'[o] = call[o]
      BY <2>2, <1>1, <1>n
    <3>2. \A x \in Browsers : call[o].new # cookie'[x]
      BY <3>1, <2>2, <1>3 DEF OnePlace
    <3>3. \A d \in Callers : o # d => call[o].new # call'[d].new
      BY <3>1, <2>2, <1>1, <1>n DEF OnePlace
    <3> QED BY <3>1, <3>2, <3>3, <2>2 DEF OnePlace
  <2> QED BY <2>1, <2>2, <1>1 DEF OnePlace
<1>8. Fresh'
  <2> SUFFICES ASSUME NEW x \in Browsers, cookie'[x] # 0,
                      \A o \in InProgress(x)' : call'[o].token = 0 \/ call'[o].at \notin Spent
               PROVE  row[cookie'[x]] \in Good
    BY <1>1 DEF Fresh
  <2>1. CASE x = b
    BY <2>1, <1>3 DEF OnePlace
  <2>2. CASE x # b
    <3>1. ASSUME NEW o \in InProgress(x) PROVE call[o].token = 0 \/ call[o].at \notin Spent
      <4>1. o \in Callers /\ x \in call[o].from /\ o # c
        BY <2>2, <1>2 DEF InProgress
      <4> QED BY <4>1, <1>1 DEF InProgress
    <3> QED BY <2>2, <3>1, <1>3 DEF Fresh
  <2> QED BY <2>1, <2>2
<1> QED BY <1>5, <1>6, <1>7, <1>8

-----------------------------------------------------------------------------
LEMMA InitQuiet == Init => QuietUntilMet
<1> SUFFICES ASSUME Init PROVE Quiet
  BY DEF QuietUntilMet
<1>1. ~ alarmed
  BY Zenon DEF Init
<1>2. \A c \in Callers : call[c].from = {} /\ call[c].new = 0 /\ call[c].at = "idle"
  BY DEF Init, NoCall
<1>3. \A b \in Browsers : cookie[b] = 0
  BY DEF Init
<1>4. Apart /\ Carried /\ OnePlace /\ Fresh
  BY <1>2, <1>3 DEF Apart, Carried, OnePlace, Fresh
<1> QED BY <1>1, <1>4 DEF Quiet

(* Nothing is forgotten: what has met has met, what was dropped was dropped. *)
LEMMA StepMarks ==
  ASSUME Flags, [Next]_vars
  PROVE  /\ (raced => raced') /\ (dropped => dropped')
         /\ (alarmed' => alarmed \/ \E c \in Callers : RevokeFamily(c))
<1>1. \A c \in Callers : \A b \in Browsers :
        SendRefresh(c, b) \/ SendLogin(c, b) \/ SendLogout(c, b)
          => (raced => raced') /\ (dropped => dropped') /\ (alarmed' => alarmed)
  <2> SUFFICES ASSUME NEW c \in Callers, NEW b \in Browsers,
                      SendRefresh(c, b) \/ SendLogin(c, b) \/ SendLogout(c, b)
               PROVE  (raced => raced') /\ (dropped => dropped') /\ (alarmed' => alarmed)
    OBVIOUS
  <2>1. ~ raced' => ~ raced
    BY Zenon DEF SendRefresh, SendLogin, SendLogout, Send
  <2>2. (dropped => dropped') /\ (alarmed' => alarmed)
    BY DEF SendRefresh, SendLogin, SendLogout, Send
  <2> QED BY <2>1, <2>2
<1>2. \A c \in Callers : ReadToken(c) \/ FindReplacement(c) \/ RevokeToken(c) \/ LogOut(c)
                           \/ CreateToken(c) \/ CheckAccount(c) \/ Answer(c)
          => (raced => raced') /\ (dropped => dropped') /\ (alarmed' => alarmed)
  BY DEF ReadToken, FindReplacement, RevokeToken, CreateToken, CheckAccount, LogOut, Answer,
               Unchanged
<1>3. \A c \in Callers : RevokeFamily(c) => (raced => raced') /\ (dropped => dropped')
  BY DEF RevokeFamily, Unchanged
<1>4. \A c \in Callers : Lose(c) => (raced => raced') /\ (dropped => dropped') /\ (alarmed' => alarmed)
  <2> SUFFICES ASSUME NEW c \in Callers, Lose(c)
               PROVE  (raced => raced') /\ (dropped => dropped') /\ (alarmed' => alarmed)
    OBVIOUS
  <2>1. ~ dropped' => ~ dropped
    BY Zenon DEF Lose
  <2>2. (raced => raced') /\ (alarmed' => alarmed)
    BY DEF Lose
  <2> QED BY <2>1, <2>2
<1>5. (\E t \in Tokens : GraceEnds(t)) \/ Expire \/ DeleteExpired \/ UNCHANGED vars
          => (raced => raced') /\ (dropped => dropped') /\ (alarmed' => alarmed)
  BY DEF GraceEnds, Expire, DeleteExpired, vars
<1> QED BY <1>1, <1>2, <1>3, <1>4, <1>5, Zenon DEF Next, Handle

(* The steps that are followed by an answer to their own browser only. *)
LEMMA StepQuiet == WellTyped /\ Flags /\ QuietUntilMet /\ [Next]_vars => QuietUntilMet'
<1> SUFFICES ASSUME WellTyped, Flags, QuietUntilMet, [Next]_vars, ~ raced', ~ dropped'
             PROVE  Quiet'
  BY DEF QuietUntilMet
<1>q. ~ raced /\ ~ dropped
  BY StepMarks, Zenon
<1>a. Quiet
  BY <1>q DEF QuietUntilMet
<1>p. ~ alarmed /\ Apart /\ Carried /\ OnePlace /\ Fresh
  BY <1>a DEF Quiet
<1>c. \A c \in Callers : ~ RevokeFamily(c) /\ ~ FindReplacement(c)
  BY <1>p DEF Carried, RevokeFamily, FindReplacement
<1>d. ~ alarmed'
  BY <1>c, <1>p, StepMarks, Zenon
<1> SUFFICES Apart' /\ Carried' /\ OnePlace' /\ Fresh'
  BY <1>d DEF Quiet
<1>n. NoCall \in Request /\ NoCall.token = 0 /\ NoCall.new = 0 /\ NoCall.at = "idle"
  BY DEF NoCall, Request, Stage
<1>t. \A c \in Callers : /\ call[c] \in Request
                         /\ call[c].token \in Tokens \cup {0} /\ call[c].new \in Tokens \cup {0}
  BY DEF WellTyped, Types, Request
<1>1. ASSUME NEW c \in Callers, NEW b \in Browsers, SendRefresh(c, b) \/ SendLogin(c, b) \/ SendLogout(c, b)
      PROVE  Apart' /\ Carried' /\ OnePlace' /\ Fresh'
  <2>1. InProgress(b) = {}
    BY <1>1, Zenon DEF SendRefresh, SendLogin, SendLogout, Send
  <2>2. PICK at \in {"read", "login", "logout"}, token \in {0, cookie[b]} : Send(c, at, b, token)
    BY <1>1 DEF SendRefresh, SendLogin, SendLogout
  <2> QED BY <1>p, <2>1, <2>2, QuietSend
<1>2. ASSUME NEW c \in Callers, ReadToken(c) PROVE Apart' /\ Carried' /\ OnePlace' /\ Fresh'
  <2>1. PICK b \in call[c].from : call[c].token = cookie[b] /\ cookie[b] # 0
    BY <1>2, <1>p DEF ReadToken, Carried, WellTyped, Issued, Rotating
  <2>2. b \in Browsers /\ \A o \in InProgress(b) : o = c
    BY <2>1, <1>p, <1>t DEF InProgress, Apart, Request
  <2>3. row[call[c].token] \in Good
    BY <1>2, <1>p, <2>1, <2>2 DEF Fresh, ReadToken, Spent
  <2>4. PICK r : r \in {NoCall, [call[c] EXCEPT !.at = "revoke"]} /\ call' = [call EXCEPT ![c] = r]
    BY <1>2, <2>3 DEF ReadToken, Good
  <2>5. /\ r \in Request /\ r.at \notin {"replace", "alarm"}
        /\ \/ r = NoCall
           \/ r.from = call[c].from /\ r.token = call[c].token /\ r.new = call[c].new
    BY <2>4, <1>n, <1>t DEF Request, Stage
  <2>6. row' = row /\ cookie' = cookie /\ call[c].at = "read"
    BY <1>2 DEF ReadToken, Unchanged
  <2> QED BY <1>p, <2>4, <2>5, <2>6, QuietGoesOn DEF Spent
<1>3. ASSUME NEW c \in Callers, NEW at \in {"create", "answer"}, Goto(c, at), call[c].at # "idle",
             UNCHANGED cookie,
             \A t \in Tokens : row[t] \in Good => row'[t] \in Good \/ (t = call[c].token /\ at \in Spent)
      PROVE  Apart' /\ Carried' /\ OnePlace' /\ Fresh'
  <2>1. PICK r : r = [call[c] EXCEPT !.at = at]
    OBVIOUS
  <2>2. /\ r \in Request /\ r.at = at /\ at \in Spent /\ at \notin {"replace", "alarm"}
        /\ r.from = call[c].from /\ r.token = call[c].token /\ r.new = call[c].new
    BY <1>t, <2>1 DEF Request, Stage, Spent
  <2>3. call' = [call EXCEPT ![c] = r]
    BY <1>3, <2>1 DEF Goto
  <2> QED BY <1>3, <1>p, <2>2, <2>3, QuietGoesOn
<1>4. ASSUME NEW c \in Callers, RevokeToken(c) PROVE Apart' /\ Carried' /\ OnePlace' /\ Fresh'
  <2>1. \A t \in Tokens : t # call[c].token => row'[t] = row[t]
    BY <1>4 DEF RevokeToken, WellTyped, Types
  <2> QED BY <1>3, <1>4, <2>1 DEF RevokeToken, Unchanged, Spent
<1>5. ASSUME NEW c \in Callers, LogOut(c) PROVE Apart' /\ Carried' /\ OnePlace' /\ Fresh'
  <2>1. \A t \in Tokens : t # call[c].token => row'[t] = row[t]
    BY <1>5 DEF LogOut, WellTyped, Types
  <2> QED BY <1>3, <1>5, <2>1 DEF LogOut, Unchanged, Spent
<1>6. ASSUME NEW c \in Callers, CheckAccount(c) PROVE Apart' /\ Carried' /\ OnePlace' /\ Fresh'
  <2>1. Goto(c, "answer") /\ call[c].at = "check" /\ row' = row /\ cookie' = cookie
    BY <1>6, Zenon DEF CheckAccount
  <2> QED BY <1>3, <2>1
<1>7. ASSUME NEW c \in Callers, Lose(c) PROVE Apart' /\ Carried' /\ OnePlace' /\ Fresh'
  <2>1. call[c].token = 0 \/ call[c].at \notin Spent
    BY <1>7, Zenon DEF Lose, Spent
  <2>2. call[c].at # "idle" /\ row' = row /\ cookie' = cookie /\ call' = [call EXCEPT ![c] = NoCall]
    BY <1>7 DEF Lose, End
  <2> QED BY <1>p, <1>n, <2>1, <2>2, QuietGoesOn
<1>8. CASE DeleteExpired
  <2>1. cookie' = cookie /\ call' = call /\ \A t \in Tokens : row[t] \in Good => row'[t] \in Good
    BY <1>8 DEF DeleteExpired, Good
  <2>2. \A b \in Browsers : cookie[b] \in Tokens \cup {0}
    BY DEF WellTyped, Types
  <2> QED BY <1>p, <1>t, <2>1, <2>2 DEF Apart, Carried, OnePlace, Fresh, InProgress
<1>9. CASE (\E t \in Tokens : GraceEnds(t)) \/ Expire \/ UNCHANGED vars
  <2>1. cookie' = cookie /\ call' = call /\ row' = row
    BY <1>9 DEF GraceEnds, Expire, vars
  <2> QED BY <1>p, <2>1 DEF Apart, Carried, OnePlace, Fresh, InProgress
<1> QED
  BY <1>1, <1>2, <1>4, <1>5, <1>6, <1>7, <1>8, <1>9, <1>c, <1>p, QuietCreate, QuietAnswer
  DEF Next, Handle

(* RevocationHasCause: without overlap and without a lost answer, the service never *)
(* takes the owner of the account for somebody else.                                *)
THEOREM RevocationsAreCaused == Spec => []RevocationHasCause
<1>1. QuietUntilMet => RevocationHasCause
  BY DEF QuietUntilMet, Quiet, RevocationHasCause
<1> QED BY <1>1, InitWellTyped, StepWellTyped, InitFlags, StepFlags, InitQuiet, StepQuiet, PTL DEF Spec
-----------------------------------------------------------------------------
(* Who holds which token, whatever was raced, lost or revoked: a token that was *)
(* issued reaches one cookie, and only requests of that browser carry it.       *)
OneBrowser == \A c \in Callers : call[c].at # "idle" => \E b \in Browsers : call[c].from = {b}
CookiesDiffer == \A a, b \in Browsers : a # b => cookie[a] = 0 \/ cookie[a] # cookie[b]
CookieCarried ==
  \A c \in Callers : \A b \in Browsers :
    call[c].token # 0 /\ call[c].token = cookie[b] => call[c].from = {b}
SharedByOneBrowser ==
  \A c, d \in Callers : call[c].token # 0 /\ call[c].token = call[d].token => call[c].from = call[d].from
NewIsUnseen ==
  \A c \in Callers :
    call[c].new # 0 =>
      /\ call[c].at \in Spent
      /\ \A b \in Browsers : call[c].new # cookie[b]
      /\ \A d \in Callers : call[c].new # call[d].token /\ (c # d => call[c].new # call[d].new)
CompanyNoticed ==
  \A c, d \in Callers : c # d /\ call[c].from \cap call[d].from # {} => call[c].company = 1

Ownership ==
  /\ OneBrowser /\ CookiesDiffer /\ CookieCarried
  /\ SharedByOneBrowser /\ NewIsUnseen /\ CompanyNoticed

LEMMA InitOwnership == Init => Ownership
<1> SUFFICES ASSUME Init PROVE Ownership
  OBVIOUS
<1>1. \A c \in Callers : call[c].from = {} /\ call[c].token = 0 /\ call[c].new = 0 /\ call[c].at = "idle"
  BY DEF Init, NoCall
<1>2. \A b \in Browsers : cookie[b] = 0
  BY DEF Init
<1> QED BY <1>1, <1>2 DEF Ownership, OneBrowser, CookiesDiffer, CookieCarried, SharedByOneBrowser,
                          NewIsUnseen, CompanyNoticed

(* A request goes on with what it has, or ends without an answer. *)
LEMMA OwnershipKept ==
  ASSUME Ownership, UNCHANGED cookie, NEW c \in Callers,
         \A o \in Callers : o # c => call'[o] = call[o],
         \/ call'[c] = NoCall
         \/ /\ call'[c].from = call[c].from /\ call'[c].token = call[c].token
            /\ call'[c].new = call[c].new /\ call'[c].company = call[c].company
            /\ call'[c].at # "idle" => call[c].at # "idle"
            /\ call[c].new # 0 => call'[c].at \in Spent
  PROVE  Ownership'
<1>1. ASSUME NEW o \in Callers
      PROVE  \/ /\ call'[o].from = {} /\ call'[o].token = 0 /\ call'[o].new = 0
                /\ call'[o].at = "idle"
             \/ /\ call'[o].from = call[o].from /\ call'[o].token = call[o].token
                /\ call'[o].new = call[o].new /\ call'[o].company = call[o].company
                /\ call'[o].at # "idle" => call[o].at # "idle"
                /\ call[o].new # 0 => call'[o].at \in Spent
  <2>1. CASE o = c
    BY <2>1 DEF NoCall
  <2>2. CASE o # c
    BY <2>2 DEF Ownership, NewIsUnseen
  <2> QED BY <2>1, <2>2
<1>2. OneBrowser' /\ CookiesDiffer' /\ CookieCarried'
  BY <1>1 DEF Ownership, OneBrowser, CookiesDiffer, CookieCarried
<1>3. SharedByOneBrowser' /\ CompanyNoticed'
  BY <1>1 DEF Ownership, SharedByOneBrowser, CompanyNoticed
<1>4. NewIsUnseen'
  BY <1>1 DEF Ownership, NewIsUnseen
<1> QED BY <1>2, <1>3, <1>4 DEF Ownership

(* A request leaves with the cookie of its browser, and those under way see it. *)
LEMMA OwnershipSend ==
  ASSUME WellTyped, Ownership, NEW c \in Callers, NEW b \in Browsers, NEW at \in {"read", "login", "logout"},
         NEW token \in {0, cookie[b]}, Send(c, at, b, token)
  PROVE  Ownership'
<1> DEFINE r == Call(at, b, token, IF InProgress(b) = {} THEN 0 ELSE 1)
<1>1. \A o \in Callers : call'[o] = IF o = c THEN r
        ELSE IF o \in InProgress(b) THEN [call[o] EXCEPT !.company = 1] ELSE call[o]
  BY DEF Send
<1>2. /\ call'[c].from = {b} /\ call'[c].token = token /\ call'[c].new = 0
      /\ call'[c].company = IF InProgress(b) = {} THEN 0 ELSE 1
  <2>1. call'[c] = r
    BY <1>1
  <2> QED BY <2>1 DEF Call
<1>3. ASSUME NEW o \in Callers \ {c}
      PROVE  /\ call'[o].from = call[o].from /\ call'[o].token = call[o].token
             /\ call'[o].new = call[o].new /\ call'[o].at = call[o].at
             /\ call'[o].company = IF o \in InProgress(b) THEN 1 ELSE call[o].company
  <2>1. PICK x \in Request : x = call[o]
    BY DEF WellTyped, Types
  <2>2. LET y == [x EXCEPT !.company = 1] IN
          y.from = x.from /\ y.token = x.token /\ y.new = x.new /\ y.at = x.at /\ y.company = 1
    BY DEF Request
  <2>3. call'[o] = IF o \in InProgress(b) THEN [x EXCEPT !.company = 1] ELSE x
    BY <1>1, <2>1
  <2> QED BY <2>1, <2>2, <2>3
<1>4. cookie' = cookie /\ \A o \in Callers : o \in InProgress(b) <=> b \in call[o].from
  BY DEF Send, InProgress
<1> HIDE DEF r
<1>5. OneBrowser' /\ CookiesDiffer' /\ CookieCarried'
  <2>1. OneBrowser' /\ CookiesDiffer'
    BY <1>2, <1>3, <1>4 DEF Ownership, OneBrowser, CookiesDiffer
  <2>2. CookieCarried'
    BY <1>2, <1>3, <1>4 DEF Ownership, CookiesDiffer, CookieCarried
  <2> QED BY <2>1, <2>2
<1>6. SharedByOneBrowser'
  <2>1. \A o \in Callers \ {c} : token # 0 /\ call[o].token = token => call[o].from = {b}
    BY DEF Ownership, CookieCarried
  <2>2. \A o, d \in Callers \ {c} :
          call'[o].token # 0 /\ call'[o].token = call'[d].token => call'[o].from = call'[d].from
    BY <1>3 DEF Ownership, SharedByOneBrowser
  <2>3. \A o \in Callers \ {c} :
          call'[o].token # 0 /\ call'[o].token = call'[c].token => call'[o].from = call'[c].from
    BY <1>2, <1>3, <2>1
  <2> QED BY <2>2, <2>3 DEF SharedByOneBrowser
<1>7. NewIsUnseen'
  BY <1>2, <1>3, <1>4 DEF Ownership, NewIsUnseen
<1>8. CompanyNoticed'
  <2> SUFFICES ASSUME NEW o \in Callers, NEW d \in Callers, o # d, NEW x \in call'[o].from, x \in call'[d].from
               PROVE  call'[o].company = 1
    BY DEF CompanyNoticed
  <2>1. CASE o = c
    <3>1. x = b /\ b \in call[d].from
      BY <2>1, <1>2, <1>3
    <3>2. d \in InProgress(b)
      BY <3>1, <1>4
    <3> QED BY <2>1, <3>2, <1>2
  <2>2. CASE d = c
    BY <2>2, <1>2, <1>3, <1>4
  <2>3. CASE o # c /\ d # c
    <3>1. call[o].company = 1
      BY <2>3, <1>3 DEF Ownership, CompanyNoticed
    <3> QED BY <2>3, <3>1, <1>3
  <2> QED BY <2>1, <2>2, <2>3
<1> QED BY <1>5, <1>6, <1>7, <1>8 DEF Ownership

(* What CreateToken does to the call and the row. *)
LEMMA Created ==
  ASSUME WellTyped, NEW c \in Callers, CreateToken(c)
  PROVE  \E t \in Tokens :
           /\ t # 0 /\ row[t] = "unissued" /\ row'[t] = "live"
           /\ \A i \in Tokens : i # t => row'[i] = row[i]
           /\ call'[c].new = t /\ call'[c].at \in {"check", "answer"}
           /\ call[c].at = "create" => call'[c].at = "check"
           /\ call'[c].from = call[c].from /\ call'[c].token = call[c].token
           /\ call'[c].company = call[c].company
           /\ \A o \in Callers : o # c => call'[o] = call[o]
           /\ \A b \in Browsers : cookie[b] # t
           /\ \A o \in Callers : call[o].token # t /\ call[o].new # t
<1>1. PICK t \in Unissued :
        /\ row' = [row EXCEPT ![t] = "live"]
        /\ call' = [call EXCEPT ![c].new = t,
                                ![c].at = IF @ = "login" THEN "answer" ELSE "check"]
  BY DEF CreateToken
<1>2. t \in Tokens /\ t # 0 /\ row[t] = "unissued" /\ row'[t] = "live"
      /\ \A i \in Tokens : i # t => row'[i] = row[i]
  BY <1>1 DEF Unissued, Tokens, WellTyped, Types
<1>3. PICK x \in Request : x = call[c]
  BY DEF WellTyped, Types
<1>4. LET y == [x EXCEPT !.new = t, !.at = IF x.at = "login" THEN "answer" ELSE "check"] IN
        /\ y.new = t /\ y.at = (IF x.at = "login" THEN "answer" ELSE "check")
        /\ y.from = x.from /\ y.token = x.token /\ y.company = x.company
  BY DEF Request
<1>5. call' = [call EXCEPT ![c] = [x EXCEPT !.new = t, !.at = IF x.at = "login" THEN "answer" ELSE "check"]]
  BY <1>1, <1>3
<1>6. /\ call'[c] = [x EXCEPT !.new = t, !.at = IF x.at = "login" THEN "answer" ELSE "check"]
      /\ \A o \in Callers : o # c => call'[o] = call[o]
  BY <1>5 DEF WellTyped, Types
<1>7. /\ \A b \in Browsers : cookie[b] # t
      /\ \A o \in Callers : call[o].token # t /\ call[o].new # t
  BY <1>2 DEF WellTyped, Issued
<1> QED BY <1>2, <1>3, <1>4, <1>6, <1>7

LEMMA OwnershipCreate ==
  ASSUME WellTyped, Ownership, NEW c \in Callers, CreateToken(c)
  PROVE  Ownership'
<1>1. PICK t \in Tokens :
           /\ t # 0 /\ row[t] = "unissued" /\ row'[t] = "live"
           /\ \A i \in Tokens : i # t => row'[i] = row[i]
           /\ call'[c].new = t /\ call'[c].at \in {"check", "answer"}
           /\ call[c].at = "create" => call'[c].at = "check"
           /\ call'[c].from = call[c].from /\ call'[c].token = call[c].token
           /\ call'[c].company = call[c].company
           /\ \A o \in Callers : o # c => call'[o] = call[o]
           /\ \A b \in Browsers : cookie[b] # t
           /\ \A o \in Callers : call[o].token # t /\ call[o].new # t
  BY Created
<1>2. cookie' = cookie /\ call[c].at # "idle"
  BY DEF CreateToken
<1>3. \A o \in Callers : /\ call'[o].from = call[o].from /\ call'[o].token = call[o].token
                         /\ call'[o].company = call[o].company
                         /\ call'[o].at # "idle" => call[o].at # "idle"
  BY <1>1, <1>2
<1>4. OneBrowser' /\ CookiesDiffer' /\ CookieCarried' /\ SharedByOneBrowser' /\ CompanyNoticed'
  BY <1>2, <1>3 DEF Ownership, OneBrowser, CookiesDiffer, CookieCarried, SharedByOneBrowser, CompanyNoticed
<1>5. NewIsUnseen'
  <2>1. ASSUME NEW o \in Callers, call'[o].new # 0
        PROVE  /\ call'[o].at \in Spent
               /\ \A b \in Browsers : call'[o].new # cookie[b]
               /\ \A d \in Callers : call'[o].new # call'[d].token /\ (o # d => call'[o].new # call'[d].new)
    <3>1. CASE o = c
      BY <3>1, <1>1, <1>3 DEF Spent
    <3>2. CASE o # c
      BY <3>2, <2>1, <1>1, <1>3 DEF Ownership, NewIsUnseen
    <3> QED BY <3>1, <3>2
  <2> QED BY <2>1, <1>2 DEF NewIsUnseen
<1> QED BY <1>4, <1>5 DEF Ownership

LEMMA OwnershipAnswer ==
  ASSUME WellTyped, Ownership, NEW c \in Callers, Answer(c)
  PROVE  Ownership'
<1>n. NoCall.from = {} /\ NoCall.token = 0 /\ NoCall.new = 0 /\ NoCall.at = "idle"
  BY DEF NoCall
<1>1. /\ call'[c] = NoCall
      /\ \A o \in Callers : o # c => call'[o] = call[o]
  BY DEF Answer, End, WellTyped, Types
<1>2. PICK b \in Browsers : call[c].from = {b}
  BY DEF Answer, Ownership, OneBrowser
<1>3. cookie'[b] = call[c].new /\ \A x \in Browsers : x # b => cookie'[x] = cookie[x]
  BY <1>2 DEF Answer
<1>4. \A o \in Callers : call[o].token # 0 => call[c].new # call[o].token
  BY DEF Ownership, NewIsUnseen
<1>5. OneBrowser' /\ SharedByOneBrowser' /\ CompanyNoticed'
  BY <1>1, <1>n DEF Ownership, OneBrowser, SharedByOneBrowser, CompanyNoticed
<1>6. CookiesDiffer'
  BY <1>3 DEF Ownership, CookiesDiffer, NewIsUnseen
<1>7. CookieCarried'
  BY <1>1, <1>n, <1>3, <1>4 DEF Ownership, CookieCarried
<1>8. NewIsUnseen'
  <2>1. ASSUME NEW o \in Callers, call'[o].new # 0
        PROVE  /\ call'[o].at \in Spent
               /\ \A x \in Browsers : call'[o].new # cookie'[x]
               /\ \A d \in Callers : call'[o].new # call'[d].token /\ (o # d => call'[o].new # call'[d].new)
    <3>1. o # c /\ call'[o] = call[o]
      BY <2>1, <1>1, <1>n
    <3>2. \A x \in Browsers : call[o].new # cookie'[x]
      BY <3>1, <2>1, <1>3 DEF Ownership, NewIsUnseen
    <3>3. \A d \in Callers : call[o].new # call'[d].token /\ (o # d => call[o].new # call'[d].new)
      BY <3>1, <2>1, <1>1, <1>n DEF Ownership, NewIsUnseen
    <3> QED BY <3>1, <3>2, <3>3, <2>1 DEF Ownership, NewIsUnseen
  <2> QED BY <2>1 DEF NewIsUnseen
<1> QED BY <1>5, <1>6, <1>7, <1>8 DEF Ownership

(* ReadToken, as a request that goes on or ends. *)
LEMMA ReadTokenGoesOn ==
  ASSUME WellTyped, NEW c \in Callers, ReadToken(c)
  PROVE  /\ \A o \in Callers : o # c => call'[o] = call[o]
         /\ call[c].at = "read" /\ row' = row /\ cookie' = cookie /\ counts' = counts
         /\ \/ call'[c] = NoCall
            \/ /\ call'[c].from = call[c].from /\ call'[c].token = call[c].token
               /\ call'[c].new = call[c].new /\ call'[c].company = call[c].company
               /\ call'[c].at \in {"replace", "alarm", "revoke"}
               /\ call'[c].at = "revoke" => row[call[c].token] = "live"
<1> DEFINE at == IF row[call[c].token] # "revoked" THEN "revoke"
                 ELSE IF platform /\ call[c].token \in recent THEN "replace" ELSE "alarm"
<1>1. PICK x \in Request : x = call[c]
  BY DEF WellTyped, Types
<1>2. call' = [call EXCEPT ![c] = IF row[x.token] # "revoked" /\ (row[x.token] = "deleted" \/ Expired(x.token))
                                  THEN NoCall ELSE [x EXCEPT !.at = at]]
  BY <1>1 DEF ReadToken
<1>3. /\ at \in {"replace", "alarm", "revoke"}
      /\ at = "revoke" => row[call[c].token] # "revoked"
  OBVIOUS
<1>4. x.at = "read" /\ row' = row /\ cookie' = cookie /\ counts' = counts
  BY <1>1 DEF ReadToken, Unchanged
<1>5. row[x.token] \in {"live", "revoked", "deleted"}
  BY <1>1, <1>4 DEF WellTyped, Types, Issued, Rotating, Request
<1> HIDE DEF at
<1>6. LET y == [x EXCEPT !.at = at] IN
        y.from = x.from /\ y.token = x.token /\ y.new = x.new /\ y.company = x.company /\ y.at = at
  BY DEF Request
<1>7. /\ call'[c] = IF row[x.token] # "revoked" /\ (row[x.token] = "deleted" \/ Expired(x.token))
                    THEN NoCall ELSE [x EXCEPT !.at = at]
      /\ \A o \in Callers : o # c => call'[o] = call[o]
  BY <1>2 DEF WellTyped, Types
<1> QED BY <1>1, <1>3, <1>4, <1>5, <1>6, <1>7

(* Goto, as a request that goes on. *)
LEMMA Goes ==
  ASSUME WellTyped, NEW c \in Callers, NEW at, Goto(c, at)
  PROVE  /\ \A o \in Callers : o # c => call'[o] = call[o]
         /\ call'[c].from = call[c].from /\ call'[c].token = call[c].token
         /\ call'[c].new = call[c].new /\ call'[c].company = call[c].company
         /\ call'[c].at = at
<1>1. PICK x \in Request : x = call[c]
  BY DEF WellTyped, Types
<1>2. LET y == [x EXCEPT !.at = at] IN
        y.from = x.from /\ y.token = x.token /\ y.new = x.new /\ y.company = x.company /\ y.at = at
  BY DEF Request
<1>3. /\ call'[c] = [x EXCEPT !.at = at]
      /\ \A o \in Callers : o # c => call'[o] = call[o]
  BY <1>1 DEF Goto, WellTyped, Types
<1> QED BY <1>1, <1>2, <1>3

LEMMA Ends ==
  ASSUME WellTyped, NEW c \in Callers, End(c)
  PROVE  call'[c] = NoCall /\ \A o \in Callers : o # c => call'[o] = call[o]
BY DEF End, WellTyped, Types

LEMMA StepOwnership == WellTyped /\ Ownership /\ [Next]_vars => Ownership'
<1> SUFFICES ASSUME WellTyped, Ownership, [Next]_vars PROVE Ownership'
  OBVIOUS
<1>1. ASSUME NEW c \in Callers, NEW b \in Browsers, SendRefresh(c, b) \/ SendLogin(c, b) \/ SendLogout(c, b)
      PROVE  Ownership'
  BY <1>1, OwnershipSend DEF SendRefresh, SendLogin, SendLogout
<1>2. ASSUME NEW c \in Callers, NEW at \in Stage, Goto(c, at), UNCHANGED cookie,
             at # "idle" => call[c].at # "idle", call[c].new # 0 => at \in Spent
      PROVE  Ownership'
  BY <1>2, Goes, OwnershipKept
<1>3. ASSUME NEW c \in Callers, End(c), UNCHANGED cookie PROVE Ownership'
  BY <1>3, Ends, OwnershipKept
<1>4. \A c \in Callers : call[c].new # 0 => call[c].at \in Spent
  BY DEF Ownership, NewIsUnseen
<1>5. ASSUME NEW c \in Callers, ReadToken(c) PROVE Ownership'
  <2>1. call[c].new = 0
    BY <1>4, <1>5 DEF ReadToken, Spent
  <2> QED BY <1>5, <2>1, ReadTokenGoesOn, OwnershipKept
<1>6. ASSUME NEW c \in Callers,
             FindReplacement(c) \/ RevokeFamily(c) \/ RevokeToken(c) \/ CheckAccount(c) \/ LogOut(c) \/ Lose(c)
      PROVE  Ownership'
  <2>1. cookie' = cookie
    BY <1>6 DEF FindReplacement, RevokeFamily, RevokeToken, CheckAccount, LogOut, Lose, Unchanged
  <2>2. \/ End(c)
        \/ call[c].at \notin Spent \cup {"idle"} /\ \E at \in {"alarm", "create", "answer"} : Goto(c, at)
        \/ call[c].at = "check" /\ Goto(c, "answer")
    BY <1>6, Zenon DEF FindReplacement, RevokeFamily, RevokeToken, CheckAccount, LogOut, Lose, Spent
  <2> QED BY <1>2, <1>3, <1>4, <2>1, <2>2 DEF Spent, Stage
<1>7. CASE (\E t \in Tokens : GraceEnds(t)) \/ Expire \/ DeleteExpired \/ UNCHANGED vars
  <2>1. cookie' = cookie /\ call' = call
    BY <1>7 DEF GraceEnds, Expire, DeleteExpired, vars
  <2> QED BY <2>1 DEF Ownership, OneBrowser, CookiesDiffer, CookieCarried, SharedByOneBrowser,
                      NewIsUnseen, CompanyNoticed
<1> QED BY <1>1, <1>5, <1>6, <1>7, OwnershipCreate, OwnershipAnswer DEF Next, Handle

-----------------------------------------------------------------------------
(* SessionSurvives: the successor of a token is good until a cookie holds it,   *)
(* and a token that a cookie holds is good until a request of that browser has  *)
(* spent it, whose answer replaces it.                                          *)
DeletedIsExpired == \A t \in Tokens : row[t] = "deleted" => Expired(t)
NewIsGood == \A c \in Callers : call[c].new # 0 => row[call[c].new] \in Good
Spends(c, b) == call[c].token = cookie[b] /\ call[c].at \in Spent
CookieIsGood ==
  \A b \in Browsers :
    cookie[b] # 0 => row[cookie[b]] \in Good \/ \E c \in InProgress(b) : Spends(c, b)
KeptUntilDropped == ~ alarmed /\ ~ dropped => NewIsGood /\ CookieIsGood

LEMMA InitKept == Init => DeletedIsExpired /\ KeptUntilDropped
<1> SUFFICES ASSUME Init PROVE DeletedIsExpired /\ NewIsGood /\ CookieIsGood
  BY DEF KeptUntilDropped
<1> QED BY DEF Init, DeletedIsExpired, NewIsGood, CookieIsGood, NoCall

LEMMA StepDeletedIsExpired == WellTyped /\ DeletedIsExpired /\ [Next]_vars => DeletedIsExpired'
<1> SUFFICES ASSUME WellTyped, DeletedIsExpired, [Next]_vars, NEW t \in Tokens, row'[t] = "deleted"
             PROVE  t <= age'
  BY DEF DeletedIsExpired, Expired
<1>t. /\ row \in [Tokens -> {"unissued", "live", "revoked", "deleted"}]
      /\ age \in Nat /\ t \in Nat
  BY TokensAssumption DEF WellTyped, Types, Tokens
<1>1. CASE DeleteExpired
  BY <1>1 DEF DeleteExpired, account, DeletedIsExpired, Expired
<1>2. CASE Expire \/ (\E i \in Tokens : GraceEnds(i)) \/ UNCHANGED vars
  BY <1>2, <1>t DEF Expire, GraceEnds, vars, account, DeletedIsExpired, Expired
<1>3. ASSUME age' = age, row[t] = "deleted" PROVE t <= age'
  BY <1>3 DEF DeletedIsExpired, Expired
<1>4. ASSUME NEW c \in Callers, NEW b \in Browsers, SendRefresh(c, b) \/ SendLogin(c, b) \/ SendLogout(c, b)
      PROVE  t <= age'
  BY <1>3, <1>4 DEF SendRefresh, SendLogin, SendLogout, Send, account
<1>5. ASSUME NEW c \in Callers, ReadToken(c) \/ FindReplacement(c) \/ CheckAccount(c) \/ Answer(c) \/ Lose(c)
      PROVE  t <= age'
  BY <1>3, <1>5 DEF ReadToken, FindReplacement, CheckAccount, Answer, Lose, Unchanged, account
<1>6. ASSUME NEW c \in Callers, RevokeFamily(c) \/ RevokeToken(c) \/ LogOut(c)
      PROVE  t <= age'
  BY <1>3, <1>6, <1>t DEF RevokeFamily, RevokeToken, LogOut, Unchanged, account
<1>7. ASSUME NEW c \in Callers, CreateToken(c)
      PROVE  t <= age'
  BY <1>3, <1>7, <1>t DEF CreateToken, Unissued, account
<1> QED BY <1>1, <1>2, <1>4, <1>5, <1>6, <1>7 DEF Next, Handle

(* One request goes on, or ends without having spent its token: only its own *)
(* token may lose its row, and then its answer is under way.                 *)
LEMMA KeptGoesOn ==
  ASSUME WellTyped, Ownership, NewIsGood, CookieIsGood, UNCHANGED cookie, NEW c \in Callers,
         \A o \in Callers : o # c => call'[o] = call[o],
         \/ call'[c] = NoCall /\ (call[c].token = 0 \/ call[c].at \notin Spent)
         \/ /\ call'[c].from = call[c].from /\ call'[c].token = call[c].token
            /\ call'[c].new = call[c].new
            /\ call[c].at \in Spent => call'[c].at \in Spent,
         \A t \in Tokens : row[t] \in Good =>
           \/ row'[t] \in Good
           \/ t = call[c].token /\ call'[c] # NoCall /\ call'[c].at \in Spent
  PROVE  NewIsGood' /\ CookieIsGood'
<1>n. NoCall.from = {} /\ NoCall.token = 0 /\ NoCall.new = 0 /\ NoCall.at = "idle"
  BY DEF NoCall
<1>t. /\ \A b \in Browsers : cookie[b] \in Tokens \cup {0}
      /\ \A o \in Callers : call[o].token \in Tokens \cup {0} /\ call[o].new \in Tokens \cup {0}
  BY DEF WellTyped, Types, Request
<1>1. NewIsGood'
  <2> SUFFICES ASSUME NEW o \in Callers, call'[o].new # 0 PROVE row'[call'[o].new] \in Good
    BY DEF NewIsGood
  <2>1. call'[o].new = call[o].new
    BY <1>n
  <2>2. call[o].new \in Tokens /\ row[call[o].new] \in Good /\ call[o].new # call[c].token
    BY <1>t, <2>1 DEF NewIsGood, Ownership, NewIsUnseen
  <2> QED BY <2>1, <2>2
<1>2. CookieIsGood'
  <2> SUFFICES ASSUME NEW b \in Browsers, cookie[b] # 0, row'[cookie[b]] \notin Good
               PROVE  \E o \in InProgress(b)' : Spends(o, b)'
    BY DEF CookieIsGood
  <2>1. CASE row[cookie[b]] \in Good
    <3>1. cookie[b] = call[c].token /\ call'[c] # NoCall /\ call'[c].at \in Spent
      BY <2>1, <1>t
    <3>2. call[c].from = {b}
      BY <3>1 DEF Ownership, CookieCarried
    <3>3. c \in InProgress(b)' /\ Spends(c, b)'
      BY <3>1, <3>2 DEF InProgress, Spends
    <3> QED BY <3>3
  <2>2. CASE row[cookie[b]] \notin Good
    <3>1. PICK o \in InProgress(b) : Spends(o, b)
      BY <2>2 DEF CookieIsGood
    <3>2. o \in Callers /\ b \in call[o].from /\ call[o].token = cookie[b] /\ call[o].at \in Spent
      BY <3>1 DEF InProgress, Spends
    <3>3. call'[o].from = call[o].from /\ call'[o].token = call[o].token /\ call'[o].at \in Spent
      BY <3>2
    <3>4. o \in InProgress(b)' /\ Spends(o, b)'
      BY <3>2, <3>3 DEF InProgress, Spends
    <3> QED BY <3>4
  <2> QED BY <2>1, <2>2
<1> QED BY <1>1, <1>2

LEMMA KeptSend ==
  ASSUME WellTyped, NewIsGood, CookieIsGood, NEW c \in Callers, NEW b \in Browsers, NEW at, NEW token,
         Send(c, at, b, token)
  PROVE  NewIsGood' /\ CookieIsGood'
<1>1. \A o \in Callers : call'[o] = IF o = c THEN Call(at, b, token, IF InProgress(b) = {} THEN 0 ELSE 1)
        ELSE IF o \in InProgress(b) THEN [call[o] EXCEPT !.company = 1] ELSE call[o]
  BY DEF Send
<1>2. call'[c].new = 0
  <2>1. call'[c] = Call(at, b, token, IF InProgress(b) = {} THEN 0 ELSE 1)
    BY <1>1
  <2> QED BY <2>1 DEF Call
<1>3. ASSUME NEW o \in Callers \ {c}
      PROVE  /\ call'[o].from = call[o].from /\ call'[o].token = call[o].token
             /\ call'[o].new = call[o].new /\ call'[o].at = call[o].at
  <2>1. PICK x \in Request : x = call[o]
    BY DEF WellTyped, Types
  <2>2. LET y == [x EXCEPT !.company = 1] IN
          y.from = x.from /\ y.token = x.token /\ y.new = x.new /\ y.at = x.at
    BY DEF Request
  <2>3. call'[o] = IF o \in InProgress(b) THEN [x EXCEPT !.company = 1] ELSE x
    BY <1>1, <2>1
  <2> QED BY <2>1, <2>2, <2>3
<1>4. cookie' = cookie /\ row' = row /\ call[c].at = "idle" /\ call[c].from = {}
  BY DEF Send, WellTyped, Issued, NoCall
<1>5. NewIsGood'
  BY <1>2, <1>3, <1>4 DEF NewIsGood
<1>6. CookieIsGood'
  <2> SUFFICES ASSUME NEW x \in Browsers, cookie[x] # 0, row[cookie[x]] \notin Good
               PROVE  \E o \in InProgress(x)' : Spends(o, x)'
    BY <1>4 DEF CookieIsGood
  <2>1. PICK o \in InProgress(x) : Spends(o, x)
    BY DEF CookieIsGood
  <2>2. o \in Callers \ {c}
    BY <1>4, <2>1 DEF InProgress
  <2>3. o \in InProgress(x)' /\ Spends(o, x)'
    BY <1>3, <1>4, <2>1, <2>2 DEF InProgress, Spends
  <2> QED BY <2>3
<1> QED BY <1>5, <1>6

LEMMA KeptCreate ==
  ASSUME WellTyped, NewIsGood, CookieIsGood, NEW c \in Callers, CreateToken(c)
  PROVE  NewIsGood' /\ CookieIsGood'
<1>1. PICK t \in Tokens :
           /\ t # 0 /\ row[t] = "unissued" /\ row'[t] = "live"
           /\ \A i \in Tokens : i # t => row'[i] = row[i]
           /\ call'[c].new = t /\ call'[c].at \in {"check", "answer"}
           /\ call[c].at = "create" => call'[c].at = "check"
           /\ call'[c].from = call[c].from /\ call'[c].token = call[c].token
           /\ call'[c].company = call[c].company
           /\ \A o \in Callers : o # c => call'[o] = call[o]
           /\ \A b \in Browsers : cookie[b] # t
           /\ \A o \in Callers : call[o].token # t /\ call[o].new # t
  BY Created
<1>2. cookie' = cookie
  BY DEF CreateToken
<1>t. /\ \A b \in Browsers : cookie[b] \in Tokens \cup {0}
      /\ \A o \in Callers : call[o].new \in Tokens \cup {0}
  BY DEF WellTyped, Types, Request
<1>3. NewIsGood'
  <2> SUFFICES ASSUME NEW o \in Callers, call'[o].new # 0 PROVE row'[call'[o].new] \in Good
    BY DEF NewIsGood
  <2>1. CASE o = c
    BY <2>1, <1>1 DEF Good
  <2>2. CASE o # c
    BY <2>2, <1>1, <1>t DEF NewIsGood
  <2> QED BY <2>1, <2>2
<1>4. CookieIsGood'
  <2> SUFFICES ASSUME NEW x \in Browsers, cookie[x] # 0, row'[cookie[x]] \notin Good
               PROVE  \E o \in InProgress(x)' : Spends(o, x)'
    BY <1>2 DEF CookieIsGood
  <2>0. row[cookie[x]] \notin Good
    BY <1>1, <1>t
  <2>1. PICK o \in InProgress(x) : Spends(o, x)
    BY <2>0 DEF CookieIsGood
  <2>2. /\ o \in Callers /\ call'[o].from = call[o].from /\ call'[o].token = call[o].token
        /\ call'[o].at \in Spent
    BY <1>1, <2>1 DEF InProgress, Spends, Spent
  <2>3. o \in InProgress(x)' /\ Spends(o, x)'
    BY <1>2, <2>1, <2>2 DEF InProgress, Spends
  <2> QED BY <2>3
<1> QED BY <1>3, <1>4

LEMMA KeptAnswer ==
  ASSUME WellTyped, Ownership, NewIsGood, CookieIsGood, NEW c \in Callers, Answer(c)
  PROVE  NewIsGood' /\ CookieIsGood'
<1>n. NoCall.new = 0
  BY DEF NoCall
<1>1. /\ call'[c] = NoCall /\ row' = row
      /\ \A o \in Callers : o # c => call'[o] = call[o]
  BY Ends DEF Answer
<1>2. PICK b \in Browsers : call[c].from = {b}
  BY DEF Answer, Ownership, OneBrowser
<1>3. cookie'[b] = call[c].new /\ \A x \in Browsers : x # b => cookie'[x] = cookie[x]
  BY <1>2 DEF Answer
<1>4. NewIsGood'
  BY <1>1, <1>n DEF NewIsGood
<1>5. CookieIsGood'
  <2> SUFFICES ASSUME NEW x \in Browsers, cookie'[x] # 0, row[cookie'[x]] \notin Good
               PROVE  \E o \in InProgress(x)' : Spends(o, x)'
    BY <1>1 DEF CookieIsGood
  <2>1. x # b /\ cookie'[x] = cookie[x]
    BY <1>3 DEF NewIsGood
  <2>2. PICK o \in InProgress(x) : Spends(o, x)
    BY <2>1 DEF CookieIsGood
  <2>3. o \in Callers /\ o # c
    BY <1>2, <2>1, <2>2 DEF InProgress
  <2>4. o \in InProgress(x)' /\ Spends(o, x)'
    BY <1>1, <2>1, <2>2, <2>3 DEF InProgress, Spends
  <2> QED BY <2>4
<1> QED BY <1>4, <1>5

LEMMA StepKept == WellTyped /\ Flags /\ Ownership /\ KeptUntilDropped /\ [Next]_vars => KeptUntilDropped'
<1> SUFFICES ASSUME WellTyped, Flags, Ownership, KeptUntilDropped, [Next]_vars, ~ alarmed', ~ dropped'
             PROVE  NewIsGood' /\ CookieIsGood'
  BY DEF KeptUntilDropped
<1>q. ~ dropped
  BY StepMarks, Zenon
<1>f. \A c \in Callers : ~ RevokeFamily(c)
  BY Zenon DEF RevokeFamily
<1>a. ~ alarmed
  <2>1. CASE UNCHANGED vars
    BY <2>1, Zenon DEF vars
  <2>2. CASE Next
    <3>1. \A c \in Callers, b \in Browsers : SendRefresh(c, b) \/ SendLogin(c, b) \/ SendLogout(c, b) => ~ alarmed
      BY Zenon DEF SendRefresh, SendLogin, SendLogout, Send
    <3>2. \A c \in Callers : Handle(c) \/ Lose(c) => ~ alarmed
      BY <1>f, Zenon DEF Handle, ReadToken, FindReplacement, RevokeToken, CreateToken, CheckAccount, LogOut,
                         Answer, Lose
    <3>3. (\E t \in Tokens : GraceEnds(t)) \/ Expire \/ DeleteExpired => ~ alarmed
      BY Zenon DEF GraceEnds, Expire, DeleteExpired
    <3> QED BY <2>2, <3>1, <3>2, <3>3, Zenon DEF Next
  <2> QED BY <2>1, <2>2
<1>k. NewIsGood /\ CookieIsGood
  BY <1>q, <1>a, Zenon DEF KeptUntilDropped
<1>n. NoCall.at = "idle"
  BY DEF NoCall
<1>t. \A t \in Tokens : row[t] \in {"unissued", "live", "revoked", "deleted"}
  BY DEF WellTyped, Types
<1>1. ASSUME NEW c \in Callers, NEW b \in Browsers, SendRefresh(c, b) \/ SendLogin(c, b) \/ SendLogout(c, b)
      PROVE  NewIsGood' /\ CookieIsGood'
  BY <1>1, <1>k, KeptSend DEF SendRefresh, SendLogin, SendLogout
<1>2. ASSUME NEW c \in Callers, ReadToken(c) PROVE NewIsGood' /\ CookieIsGood'
  <2>1. call[c].at \notin Spent
    BY <1>2 DEF ReadToken, Spent
  <2> QED BY <1>2, <1>k, <2>1, ReadTokenGoesOn, KeptGoesOn
<1>3. ASSUME NEW c \in Callers, NEW at, Goto(c, at), at \in Spent \/ call[c].at \notin Spent, at # "idle",
             UNCHANGED cookie,
             \A t \in Tokens : row[t] \in Good => row'[t] \in Good \/ (t = call[c].token /\ at \in Spent)
      PROVE  NewIsGood' /\ CookieIsGood'
  <2>1. call'[c] # NoCall
    BY <1>3, <1>n, Goes
  <2> QED BY <1>3, <1>k, <2>1, Goes, KeptGoesOn
<1>4. ASSUME NEW c \in Callers, End(c), call[c].token = 0 \/ call[c].at \notin Spent,
             UNCHANGED <<cookie, row>>
      PROVE  NewIsGood' /\ CookieIsGood'
  BY <1>4, <1>k, Ends, KeptGoesOn
<1>5. ASSUME NEW c \in Callers, FindReplacement(c) PROVE NewIsGood' /\ CookieIsGood'
  BY <1>3, <1>4, <1>5 DEF FindReplacement, Unchanged, Spent
<1>6. ASSUME NEW c \in Callers, RevokeToken(c) \/ LogOut(c) PROVE NewIsGood' /\ CookieIsGood'
  <2>1. \A t \in Tokens : t # call[c].token => row'[t] = row[t]
    BY <1>6 DEF RevokeToken, LogOut, WellTyped, Types
  <2> QED BY <1>3, <1>6, <2>1 DEF RevokeToken, LogOut, Unchanged, Spent
<1>7. ASSUME NEW c \in Callers, CheckAccount(c) PROVE NewIsGood' /\ CookieIsGood'
  <2>1. Goto(c, "answer") /\ row' = row /\ cookie' = cookie
    BY <1>7, Zenon DEF CheckAccount
  <2> QED BY <1>3, <2>1 DEF Spent
<1>8. ASSUME NEW c \in Callers, Lose(c) PROVE NewIsGood' /\ CookieIsGood'
  <2>1. call[c].token = 0 \/ call[c].at \notin Spent
    BY <1>8, Zenon DEF Lose, Spent
  <2> QED BY <1>4, <1>8, <2>1 DEF Lose
<1>9. CASE DeleteExpired \/ (\E t \in Tokens : GraceEnds(t)) \/ Expire \/ UNCHANGED vars
  <2>1. cookie' = cookie /\ call' = call /\ \A t \in Tokens : row[t] \in Good => row'[t] \in Good
    BY <1>9 DEF DeleteExpired, GraceEnds, Expire, vars, Good
  <2>2. /\ \A b \in Browsers : cookie[b] \in Tokens \cup {0}
        /\ \A c \in Callers : call[c].new \in Tokens \cup {0}
    BY DEF WellTyped, Types, Request
  <2>3. NewIsGood'
    BY <1>k, <2>1, <2>2 DEF NewIsGood
  <2>4. CookieIsGood'
    BY <1>k, <2>1, <2>2 DEF CookieIsGood, InProgress, Spends
  <2> QED BY <2>3, <2>4
<1> QED BY <1>1, <1>2, <1>5, <1>6, <1>7, <1>8, <1>9, <1>f, <1>k, KeptCreate, KeptAnswer DEF Next, Handle

(* SessionSurvives: the traffic of a browser's own pages logs nobody out, in   *)
(* whatever order its refreshes are served, unless an answer was lost or every *)
(* session revoked.                                                            *)
THEOREM SessionsSurvive == Spec => []SessionSurvives
<1>1. WellTyped /\ DeletedIsExpired /\ KeptUntilDropped => SessionSurvives
  <2> SUFFICES ASSUME WellTyped, DeletedIsExpired, NewIsGood, CookieIsGood,
                      NEW b \in Browsers, InProgress(b) = {}, cookie[b] # 0
               PROVE  row[cookie[b]] = "live" \/ Expired(cookie[b])
    BY Zenon DEF SessionSurvives, KeptUntilDropped
  <2>1. cookie[b] \in Tokens
    BY DEF WellTyped, Types
  <2> QED BY <2>1 DEF CookieIsGood, Good, DeletedIsExpired
<1> QED BY <1>1, InitWellTyped, StepWellTyped, InitFlags, StepFlags, InitOwnership, StepOwnership,
           InitKept, StepDeletedIsExpired, StepKept, PTL DEF Spec

-----------------------------------------------------------------------------
(* LiveSessionsBounded: a session is paid for by a login, by a refresh that had *)
(* company, or by the token that a refresh without company has given up; that   *)
(* token counts until its successor is there.                                  *)
GaveUpToken == \A c \in Callers : call[c].at = "create" => row[call[c].token] # "live"
Alone(c, t) == call[c].token = t /\ call[c].at \in {"revoke", "create"} /\ call[c].company = 0
PaidFor == {t \in Tokens : row[t] = "live" \/ \E c \in Callers : Alone(c, t)}
Budget == Cardinality(PaidFor) <= logins + shared
Sessions == GaveUpToken /\ Budget

LEMMA TokensFinite ==
  /\ IsFiniteSet(Tokens)
  /\ \A S \in SUBSET Tokens : IsFiniteSet(S) /\ Cardinality(S) \in Nat
<1>1. IsFiniteSet(Tokens)
  BY FS_Interval, TokensAssumption DEF Tokens
<1> QED BY <1>1, FS_Subset, FS_CardinalityType

LEMMA OneMore ==
  ASSUME NEW S, IsFiniteSet(S), NEW x
  PROVE  /\ IsFiniteSet(S \cup {x})
         /\ Cardinality(S \cup {x}) \in Nat
         /\ Cardinality(S \cup {x}) <= Cardinality(S) + 1
<1>1. IsFiniteSet(S \cup {x}) /\ Cardinality(S \cup {x}) \in {Cardinality(S), Cardinality(S) + 1}
  BY FS_AddElement
<1>2. Cardinality(S) \in Nat
  BY FS_CardinalityType
<1> QED BY <1>1, <1>2

LEMMA InitSessions == Init => Sessions
<1> SUFFICES ASSUME Init PROVE Sessions
  OBVIOUS
<1>1. PaidFor = {}
  BY DEF Init, PaidFor, Alone, NoCall
<1>2. GaveUpToken
  BY DEF Init, GaveUpToken, NoCall
<1> QED BY <1>1, <1>2, FS_EmptySet DEF Init, Sessions, Budget

(* No token is added to those paid for. *)
LEMMA NothingAdded ==
  ASSUME WellTyped, Sessions, UNCHANGED counts,
         \A t \in Tokens : row'[t] = "live" => row[t] = "live",
         \A c \in Callers : call'[c].at = "create" =>
           call'[c].token \in Tokens /\ (row'[call'[c].token] # "live"),
         \A c \in Callers : call'[c].at \in {"revoke", "create"} /\ call'[c].company = 0
           => call'[c].token \in PaidFor
  PROVE  Sessions'
<1>1. PaidFor' \in SUBSET PaidFor
  BY DEF PaidFor, Alone
<1>2. IsFiniteSet(PaidFor) /\ Cardinality(PaidFor) \in Nat /\ PaidFor' \in SUBSET Tokens
  BY TokensFinite DEF PaidFor
<1>3. Cardinality(PaidFor') <= Cardinality(PaidFor) /\ Cardinality(PaidFor') \in Nat
  BY <1>1, <1>2, FS_Subset, TokensFinite
<1>4. Budget'
  BY <1>2, <1>3 DEF Sessions, Budget, counts, WellTyped, Types
<1> QED BY <1>4 DEF Sessions, GaveUpToken

(* A request goes on, or ends, without having been handed a new token. *)
LEMMA SessionsGoOn ==
  ASSUME WellTyped, Sessions, UNCHANGED counts, NEW c \in Callers,
         \A o \in Callers : o # c => call'[o] = call[o],
         \A t \in Tokens : row'[t] = "live" => row[t] = "live",
         \/ call'[c] = NoCall
         \/ /\ call'[c].token = call[c].token /\ call'[c].company = call[c].company
            /\ \/ call'[c].at \notin {"revoke", "create"}
               \/ call'[c].at = "revoke" /\ call[c].token # 0 /\ row[call[c].token] = "live"
               \/ call'[c].at = "create" /\ call[c].at = "revoke" /\ row'[call[c].token] # "live"
  PROVE  Sessions'
<1>1. ASSUME NEW o \in Callers, call'[o].at \in {"revoke", "create"}
      PROVE  /\ call'[o].token = call[o].token /\ call'[o].company = call[o].company
             /\ call[o].token \in Tokens
             /\ call'[o].at = "create" => row'[call[o].token] # "live"
             /\ \/ call[o].at \in {"revoke", "create"}
                \/ row[call[o].token] = "live"
  <2>1. call[o].at \in {"revoke", "create"} => call[o].token # 0
    BY DEF WellTyped, Issued, Rotating
  <2>2. call[o].token \in Tokens \cup {0}
    BY DEF WellTyped, Types, Request
  <2>3. call'[o] # NoCall
    BY <1>1 DEF NoCall
  <2>4. CASE o = c
    BY <2>1, <2>2, <2>3, <2>4, <1>1
  <2>5. CASE o # c
    BY <2>1, <2>2, <2>5, <1>1 DEF Sessions, GaveUpToken
  <2> QED BY <2>4, <2>5
<1>2. ASSUME NEW o \in Callers, call'[o].at \in {"revoke", "create"}, call'[o].company = 0
      PROVE  call'[o].token \in PaidFor
  <2>1. Alone(o, call[o].token) \/ row[call[o].token] = "live"
    BY <1>1, <1>2 DEF Alone
  <2> QED BY <1>1, <1>2, <2>1 DEF PaidFor
<1> QED BY <1>1, <1>2, NothingAdded

LEMMA SessionsSend ==
  ASSUME WellTyped, Sessions, NEW c \in Callers, NEW b \in Browsers, NEW at \in {"read", "login", "logout"},
         NEW token, Send(c, at, b, token)
  PROVE  Sessions'
<1>1. \A o \in Callers : call'[o] = IF o = c THEN Call(at, b, token, IF InProgress(b) = {} THEN 0 ELSE 1)
        ELSE IF o \in InProgress(b) THEN [call[o] EXCEPT !.company = 1] ELSE call[o]
  BY DEF Send
<1>2. call'[c].at = at
  <2>1. call'[c] = Call(at, b, token, IF InProgress(b) = {} THEN 0 ELSE 1)
    BY <1>1
  <2> QED BY <2>1 DEF Call
<1>3. ASSUME NEW o \in Callers \ {c}
      PROVE  /\ call'[o].token = call[o].token /\ call'[o].at = call[o].at
             /\ call'[o].company = 0 => call[o].company = 0
  <2>1. PICK x \in Request : x = call[o]
    BY DEF WellTyped, Types
  <2>2. LET y == [x EXCEPT !.company = 1] IN
          y.token = x.token /\ y.at = x.at /\ y.company = 1
    BY DEF Request
  <2>3. call'[o] = IF o \in InProgress(b) THEN [x EXCEPT !.company = 1] ELSE x
    BY <1>1, <2>1
  <2> QED BY <2>1, <2>2, <2>3
<1>4. row' = row /\ counts' = counts
  BY DEF Send
<1>5. ASSUME NEW o \in Callers, call'[o].at \in {"revoke", "create"}
      PROVE  /\ o # c /\ call[o].at \in {"revoke", "create"}
             /\ call'[o].token = call[o].token /\ call[o].token \in Tokens
  <2>1. o # c
    BY <1>2, <1>5
  <2>2. call[o].token \in Tokens \cup {0}
    BY DEF WellTyped, Types, Request
  <2> QED BY <1>3, <1>5, <2>1, <2>2 DEF WellTyped, Issued, Rotating
<1>6. ASSUME NEW o \in Callers, call'[o].at \in {"revoke", "create"}, call'[o].company = 0
      PROVE  call'[o].token \in PaidFor
  <2>1. Alone(o, call[o].token)
    BY <1>3, <1>5, <1>6 DEF Alone
  <2> QED BY <1>5, <1>6, <2>1 DEF PaidFor
<1>7. ASSUME NEW o \in Callers, call'[o].at = "create" PROVE row[call'[o].token] # "live"
  BY <1>3, <1>5, <1>7 DEF Sessions, GaveUpToken
<1> QED BY <1>4, <1>5, <1>6, <1>7, NothingAdded

(* The new token is paid for by what its request was counted as, or by the token *)
(* that request gave up, which nobody else without company holds.                *)
LEMMA SessionsCreate ==
  ASSUME WellTyped, Ownership, Sessions, NEW c \in Callers, CreateToken(c)
  PROVE  Sessions'
<1> DEFINE old == call[c].token
<1>1. PICK t \in Tokens :
           /\ t # 0 /\ row[t] = "unissued" /\ row'[t] = "live"
           /\ \A i \in Tokens : i # t => row'[i] = row[i]
           /\ call'[c].new = t /\ call'[c].at \in {"check", "answer"}
           /\ call[c].at = "create" => call'[c].at = "check"
           /\ call'[c].from = call[c].from /\ call'[c].token = call[c].token
           /\ call'[c].company = call[c].company
           /\ \A o \in Callers : o # c => call'[o] = call[o]
           /\ \A b \in Browsers : cookie[b] # t
           /\ \A o \in Callers : call[o].token # t /\ call[o].new # t
  BY Created
<1>2. /\ \A o \in Callers : call[o].token \in Tokens \cup {0} /\ call[o].company \in {0, 1}
      /\ \A o \in Callers : call[o].at \in {"revoke", "create"} => call[o].token \in Tokens
      /\ logins \in Nat /\ shared \in Nat
  BY DEF WellTyped, Types, Request, Issued, Rotating
<1>3. GaveUpToken'
  <2> SUFFICES ASSUME NEW o \in Callers, call'[o].at = "create" PROVE row'[call'[o].token] # "live"
    BY DEF GaveUpToken
  <2>1. o # c /\ call'[o] = call[o]
    BY <1>1
  <2> QED BY <2>1, <1>1, <1>2 DEF Sessions, GaveUpToken
<1>4. \A i \in Tokens : \A o \in Callers : Alone(o, i)' => o # c /\ Alone(o, i)
  BY <1>1 DEF Alone
<1>5. PaidFor' \subseteq PaidFor \cup {t}
  BY <1>1, <1>4 DEF PaidFor
<1>6. /\ IsFiniteSet(PaidFor) /\ Cardinality(PaidFor) \in Nat
      /\ IsFiniteSet(PaidFor') /\ Cardinality(PaidFor') \in Nat
  <2>1. PaidFor \in SUBSET Tokens /\ PaidFor' \in SUBSET Tokens
    BY DEF PaidFor
  <2> QED BY <2>1, TokensFinite
<1>7. Cardinality(PaidFor') <= Cardinality(PaidFor) + 1
  <2>1. /\ IsFiniteSet(PaidFor \cup {t}) /\ Cardinality(PaidFor \cup {t}) \in Nat
        /\ Cardinality(PaidFor \cup {t}) <= Cardinality(PaidFor) + 1
    BY <1>6, OneMore
  <2>2. Cardinality(PaidFor') <= Cardinality(PaidFor \cup {t})
    BY <1>5, <2>1, FS_Subset
  <2> QED BY <2>1, <2>2, <1>6
<1>8. CASE call[c].at = "create" /\ call[c].company = 0
  <2>1. old \in Tokens /\ old # t /\ row[old] # "live" /\ old \in PaidFor
    BY <1>1, <1>2, <1>8 DEF Sessions, GaveUpToken, PaidFor, Alone
  <2>2. \A o \in Callers : o # c /\ call[o].token = old => call[o].company = 1
    <3> SUFFICES ASSUME NEW o \in Callers, o # c, call[o].token = old PROVE call[o].company = 1
      OBVIOUS
    <3>1. PICK b \in Browsers : call[c].from = {b}
      BY <1>8 DEF Ownership, OneBrowser
    <3>2. call[o].from = {b}
      BY <2>1, <3>1, <1>2 DEF Ownership, SharedByOneBrowser, Tokens
    <3> QED BY <3>1, <3>2 DEF Ownership, CompanyNoticed
  <2>3. old \notin PaidFor'
    BY <1>1, <1>4, <2>1, <2>2 DEF PaidFor, Alone
  <2>4. PaidFor' \subseteq (PaidFor \ {old}) \cup {t}
    BY <1>5, <2>3
  <2>5. /\ IsFiniteSet(PaidFor \ {old}) /\ Cardinality(PaidFor \ {old}) = Cardinality(PaidFor) - 1
    BY <1>6, <2>1, FS_RemoveElement
  <2>6. /\ IsFiniteSet((PaidFor \ {old}) \cup {t})
        /\ Cardinality((PaidFor \ {old}) \cup {t}) \in Nat
        /\ Cardinality((PaidFor \ {old}) \cup {t}) <= Cardinality(PaidFor \ {old}) + 1
    BY <2>5, OneMore
  <2>7. Cardinality(PaidFor') <= Cardinality((PaidFor \ {old}) \cup {t})
    BY <2>4, <2>6, FS_Subset
  <2>8. Cardinality(PaidFor') <= Cardinality(PaidFor)
    BY <1>6, <2>5, <2>6, <2>7
  <2>9. logins' = logins /\ shared' = shared
    BY <1>8, <1>2 DEF CreateToken
  <2>10. Budget'
    BY <1>2, <1>6, <2>8, <2>9 DEF Sessions, Budget
  <2> QED BY <1>3, <2>10 DEF Sessions
<1>9. CASE ~ (call[c].at = "create" /\ call[c].company = 0)
  <2>1. logins' + shared' = logins + shared + 1 /\ logins' \in Nat /\ shared' \in Nat
    BY <1>9, <1>2 DEF CreateToken
  <2>2. Cardinality(PaidFor) <= logins + shared
    BY DEF Sessions, Budget
  <2>3. Cardinality(PaidFor') <= logins' + shared'
    BY <1>2, <1>6, <1>7, <2>1, <2>2
  <2> QED BY <1>3, <2>3 DEF Sessions, Budget
<1> QED BY <1>8, <1>9

LEMMA StepSessions == WellTyped /\ Ownership /\ Sessions /\ [Next]_vars => Sessions'
<1> SUFFICES ASSUME WellTyped, Ownership, Sessions, [Next]_vars PROVE Sessions'
  OBVIOUS
<1>t. /\ row \in [Tokens -> {"unissued", "live", "revoked", "deleted"}]
      /\ \A c \in Callers : call[c].token \in Tokens \cup {0}
      /\ \A c \in Callers : call[c].at \in Rotating => call[c].token # 0
  BY DEF WellTyped, Types, Request, Issued
<1>1. ASSUME NEW c \in Callers, NEW b \in Browsers, SendRefresh(c, b) \/ SendLogin(c, b) \/ SendLogout(c, b)
      PROVE  Sessions'
  BY <1>1, SessionsSend DEF SendRefresh, SendLogin, SendLogout
<1>2. ASSUME NEW c \in Callers, ReadToken(c) PROVE Sessions'
  <2>1. call[c].token # 0
    BY <1>2, <1>t DEF ReadToken, Rotating
  <2> QED BY <1>2, <2>1, ReadTokenGoesOn, SessionsGoOn
<1>3. ASSUME NEW c \in Callers, RevokeToken(c) PROVE Sessions'
  <2>1. call[c].token \in Tokens
    BY <1>3, <1>t DEF RevokeToken, Rotating
  <2>2. /\ \A t \in Tokens : row'[t] = "live" => row[t] = "live"
        /\ row'[call[c].token] # "live"
    BY <1>3, <1>t, <2>1 DEF RevokeToken
  <2> QED BY <1>3, <2>2, Goes, SessionsGoOn DEF RevokeToken, Unchanged
<1>4. ASSUME NEW c \in Callers, UNCHANGED counts, \A t \in Tokens : row'[t] = "live" => row[t] = "live",
             End(c) \/ \E at \in {"alarm", "answer"} : Goto(c, at)
      PROVE  Sessions'
  BY <1>4, Ends, Goes, SessionsGoOn
<1>5. ASSUME NEW c \in Callers,
             FindReplacement(c) \/ RevokeFamily(c) \/ CheckAccount(c) \/ LogOut(c) \/ Answer(c) \/ Lose(c)
      PROVE  Sessions'
  <2>1. counts' = counts
    BY <1>5 DEF FindReplacement, RevokeFamily, CheckAccount, LogOut, Answer, Lose, Unchanged
  <2>2. \A t \in Tokens : row'[t] = "live" => row[t] = "live"
    BY <1>5, <1>t DEF FindReplacement, RevokeFamily, CheckAccount, LogOut, Answer, Lose
  <2>3. End(c) \/ \E at \in {"alarm", "answer"} : Goto(c, at)
    BY <1>5, Zenon DEF FindReplacement, RevokeFamily, CheckAccount, LogOut, Answer, Lose
  <2> QED BY <1>4, <2>1, <2>2, <2>3
<1>6. CASE DeleteExpired \/ (\E t \in Tokens : GraceEnds(t)) \/ Expire \/ UNCHANGED vars
  <2>1. /\ call' = call /\ counts' = counts
        /\ \A t \in Tokens : row'[t] = "live" => row[t] = "live"
    BY <1>6 DEF DeleteExpired, GraceEnds, Expire, vars, account
  <2>2. \A c \in Callers : call[c].at \in {"revoke", "create"} => call[c].token \in Tokens
    BY <1>t DEF Rotating
  <2>3. ASSUME NEW o \in Callers, call'[o].at \in {"revoke", "create"}, call'[o].company = 0
        PROVE  call'[o].token \in PaidFor
    BY <2>1, <2>2, <2>3 DEF PaidFor, Alone
  <2>4. ASSUME NEW o \in Callers, call'[o].at = "create" PROVE row'[call'[o].token] # "live"
    BY <2>1, <2>2, <2>4 DEF Sessions, GaveUpToken
  <2> QED BY <2>1, <2>2, <2>3, <2>4, NothingAdded
<1> QED BY <1>1, <1>2, <1>3, <1>5, <1>6, SessionsCreate DEF Next, Handle

(* LiveSessionsBounded: a refresh replaces a session and adds none, unless it  *)
(* overlapped another request of its browser.                                 *)
THEOREM SessionsAreBounded == Spec => []LiveSessionsBounded
<1>1. WellTyped /\ Sessions => LiveSessionsBounded
  <2> SUFFICES ASSUME WellTyped, Budget PROVE LiveSessionsBounded
    BY DEF Sessions
  <2>1. Live \in SUBSET PaidFor /\ PaidFor \in SUBSET Tokens
    BY DEF Live, PaidFor
  <2>2. Cardinality(Live) <= Cardinality(PaidFor)
    BY <2>1, TokensFinite, FS_Subset
  <2>3. Cardinality(Live) \in Nat /\ Cardinality(PaidFor) \in Nat /\ logins + shared \in Nat
    BY <2>1, TokensFinite DEF WellTyped, Types
  <2> QED BY <2>2, <2>3 DEF Budget, LiveSessionsBounded
<1> QED BY <1>1, InitWellTyped, StepWellTyped, InitOwnership, StepOwnership, InitSessions, StepSessions,
           PTL DEF Spec
=============================================================================
