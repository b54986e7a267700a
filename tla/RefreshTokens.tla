--------------------------- MODULE RefreshTokens ---------------------------
(***************************************************************************)
(* Sessions of one account: token.service with auth.service (a tenant's    *)
(* user) or platformAuth.service (an administrator), and the browsers that *)
(* hold a refresh token in a cookie which all their pages share.  A token  *)
(* is exchanged for a new one and revoked; one that is presented again     *)
(* makes the service revoke every session of the account.  Nothing is      *)
(* locked: each statement of a handler is a step of its own.               *)
(***************************************************************************)
EXTENDS Integers, FiniteSets

CONSTANTS
  Browsers,    \* cookie jars of the account's owner
  Callers,     \* requests that can be in progress at the same time: a page makes one
               \* when it is opened, and its interceptor one at a time after a 401
  MaxTokens,   \* bound: tokens ever issued
  MaxFaults    \* bound: answers lost and handlers that died

ASSUME TokensAssumption ==
  /\ MaxTokens \in Nat
  /\ MaxFaults \in Nat

VARIABLES
  platform,    \* whether the account is an administrator's
  row,         \* row[t]: the row of token t
  age,         \* tokens 1 to age are past expires_at: all live equally long
  recent,      \* tokens revoked less than 15 seconds ago
  cookie,      \* cookie[b]: the token in the browser's cookie, 0 for none
  call,        \* call[c]: the request of c in progress, see NoCall
  logins, shared,      \* tokens issued to logins; to refreshes that had company
  raced, dropped,      \* two requests of a browser met; an answer that changes its
  alarmed,             \* cookie did not arrive; every session was revoked
  faults

account == <<platform, age>>
counts == <<logins, shared>>
vars == <<account, row, recent, cookie, call, counts, raced, dropped, alarmed, faults>>

Tokens == 1..MaxTokens
Live == {t \in Tokens : row[t] = "live"}
Unissued == {t \in Tokens : row[t] = "unissued"}
Expired(t) == t <= age

(* from: its browser; token: what it carries; new: what its answer puts into the   *)
(* cookie; company: 1 if another request of the browser was in progress meanwhile. *)
Call(at, b, token, company) ==
  [at |-> at, from |-> {b}, token |-> token, new |-> 0, company |-> company]
NoCall == [at |-> "idle", from |-> {}, token |-> 0, new |-> 0, company |-> 0]

Init ==
  /\ platform \in BOOLEAN
  /\ row = [t \in Tokens |-> "unissued"]
  /\ age = 0 /\ recent = {}
  /\ cookie = [b \in Browsers |-> 0]
  /\ call = [c \in Callers |-> NoCall]
  /\ logins = 0 /\ shared = 0
  /\ raced = FALSE /\ dropped = FALSE /\ alarmed = FALSE
  /\ faults = 0

InProgress(b) == {c \in Callers : b \in call[c].from}

(* The browser attaches its cookie as it is when the request leaves. *)
Send(c, at, b, token) ==
  /\ call[c].at = "idle"
  /\ call' = [o \in Callers |->
       IF o = c THEN Call(at, b, token, IF InProgress(b) = {} THEN 0 ELSE 1)
       ELSE IF o \in InProgress(b) THEN [call[o] EXCEPT !.company = 1] ELSE call[o]]
  /\ raced' = (raced \/ InProgress(b) # {})
  /\ UNCHANGED <<account, row, recent, cookie, counts, dropped, alarmed, faults>>

Goto(c, at) == call' = [call EXCEPT ![c].at = at]
End(c) == call' = [call EXCEPT ![c] = NoCall]
Unchanged == UNCHANGED <<account, cookie, counts, raced, dropped, faults>>

-----------------------------------------------------------------------------
(* Mutant: the controller does not ask whether there is a cookie. *)
RefreshAnyway(c, b) == Send(c, "read", b, cookie[b])

(* A page refreshes when it is opened, and when an answer was 401. *)
SendRefresh(c, b) == cookie[b] # 0 /\ Send(c, "read", b, cookie[b])

SendLogin(c, b) == Send(c, "login", b, 0)

SendLogout(c, b) == Send(c, "logout", b, cookie[b])

(* Mutant: an expired token, too, is taken for a copy. *)
ExpiredIsReuse(c) ==
  LET t == call[c].token IN
  /\ call[c].at = "read"
  /\ call' = [call EXCEPT ![c].at =
       IF row[t] # "live" \/ Expired(t) THEN "alarm" ELSE "revoke"]
  /\ UNCHANGED <<row, recent, alarmed>> /\ Unchanged

(* rotateRefreshToken and rotatePlatformRefreshToken find the row.  A token   *)
(* that was revoked is taken for a copy, before its expiry is looked at; only *)
(* an administrator's gets a second look, for 15 seconds.                     *)
ReadToken(c) ==
  LET t == call[c].token IN
  /\ call[c].at = "read"
  /\ call' = [call EXCEPT ![c] =
       IF row[t] = "revoked"
       THEN [@ EXCEPT !.at = IF platform /\ t \in recent THEN "replace" ELSE "alarm"]
       ELSE IF row[t] = "deleted" \/ Expired(t) THEN NoCall
       ELSE [@ EXCEPT !.at = "revoke"]]
  /\ UNCHANGED <<row, recent, alarmed>> /\ Unchanged

(* Such a token is accepted if any live token of the account is found; the  *)
(* cookie stays as it is.                                                   *)
FindReplacement(c) ==
  /\ call[c].at = "replace"
  /\ IF Live # {} THEN End(c) ELSE Goto(c, "alarm")
  /\ UNCHANGED <<row, recent, alarmed>> /\ Unchanged

(* Every live row of the account is revoked, and the request is refused. *)
RevokeFamily(c) ==
  /\ call[c].at = "alarm"
  /\ row' = [t \in Tokens |-> IF t \in Live THEN "revoked" ELSE row[t]]
  /\ recent' = IF platform THEN recent \cup Live ELSE recent
  /\ alarmed' = TRUE
  /\ End(c)
  /\ Unchanged

(* Mutants: the old token stays; all of the account's tokens are revoked. *)
KeepOldToken(c) ==
  /\ call[c].at = "revoke"
  /\ Goto(c, "create")
  /\ UNCHANGED <<row, recent, alarmed>> /\ Unchanged
RevokeEveryToken(c) ==
  /\ call[c].at = "revoke"
  /\ row' = [t \in Tokens |-> IF t \in Live THEN "revoked" ELSE row[t]]
  /\ Goto(c, "create")
  /\ UNCHANGED <<recent, alarmed>> /\ Unchanged

(* The old row is revoked, whatever became of it since it was read. *)
RevokeToken(c) ==
  LET t == call[c].token IN
  /\ call[c].at = "revoke"
  /\ row' = [row EXCEPT ![t] = IF @ = "deleted" THEN @ ELSE "revoked"]
  /\ recent' = IF platform THEN recent \cup {t} ELSE recent
  /\ Goto(c, "create")
  /\ UNCHANGED alarmed /\ Unchanged

(* The INSERT of generateRefreshToken, at the end of a refresh or of a login. *)
CreateToken(c) ==
  /\ call[c].at \in {"create", "login"}
  /\ \E t \in Unissued :
       /\ \A o \in Unissued : t <= o
       /\ row' = [row EXCEPT ![t] = "live"]
       /\ call' = [call EXCEPT ![c].new = t,
                               ![c].at = IF @ = "login" THEN "answer" ELSE "check"]
  /\ IF call[c].at = "login" THEN logins' = logins + 1 /\ UNCHANGED shared
     ELSE shared' = shared + call[c].company /\ UNCHANGED logins
  /\ UNCHANGED <<account, recent, cookie, raced, dropped, alarmed, faults>>

(* Only after the rotation is the account looked at: suspended, the browser *)
(* keeps the token that was revoked and never sees the new one.             *)
CheckAccount(c) ==
  /\ call[c].at = "check"
  /\ \/ Goto(c, "answer") /\ UNCHANGED dropped
     \/ End(c) /\ dropped' = TRUE
  /\ UNCHANGED <<account, row, recent, cookie, counts, raced, alarmed, faults>>

(* auth.service logout revokes the row; an administrator's stays as it is. *)
LogOut(c) ==
  LET t == call[c].token IN
  /\ call[c].at = "logout"
  /\ row' = IF ~ platform /\ t \in Live THEN [row EXCEPT ![t] = "revoked"] ELSE row
  /\ Goto(c, "answer")
  /\ UNCHANGED <<recent, alarmed>> /\ Unchanged

(* The answer sets the cookie, or clears it. *)
Answer(c) ==
  /\ call[c].at = "answer"
  /\ cookie' = [b \in Browsers |-> IF b \in call[c].from THEN call[c].new ELSE cookie[b]]
  /\ End(c)
  /\ UNCHANGED <<account, row, recent, counts, raced, dropped, alarmed, faults>>

(* The process dies, a statement fails, or the answer is lost on its way. *)
Lose(c) ==
  /\ call[c].at # "idle"
  /\ faults < MaxFaults /\ faults' = faults + 1
  /\ dropped' = (dropped \/ (call[c].token # 0 /\ call[c].at \in {"create", "check", "answer"}))
  /\ End(c)
  /\ UNCHANGED <<account, row, recent, cookie, counts, raced, alarmed>>

-----------------------------------------------------------------------------
Expire ==
  /\ age < MaxTokens /\ row[age + 1] # "unissued"
  /\ age' = age + 1
  /\ UNCHANGED <<platform, row, recent, cookie, call, counts, raced, dropped, alarmed, faults>>

GraceEnds(t) ==
  /\ t \in recent
  /\ recent' = recent \ {t}
  /\ UNCHANGED <<account, row, cookie, call, counts, raced, dropped, alarmed, faults>>

(* cleanupExpiredTokens.job, for tenants' users. *)
DeleteExpired ==
  /\ ~ platform
  /\ \E t \in Tokens : Expired(t) /\ row[t] # "deleted"
  /\ row' = [t \in Tokens |-> IF Expired(t) THEN "deleted" ELSE row[t]]
  /\ UNCHANGED <<account, recent, cookie, call, counts, raced, dropped, alarmed, faults>>

Handle(c) ==
  \/ ReadToken(c) \/ FindReplacement(c) \/ RevokeFamily(c)
  \/ RevokeToken(c) \/ CreateToken(c) \/ CheckAccount(c)
  \/ LogOut(c) \/ Answer(c)

Next ==
  \/ \E c \in Callers, b \in Browsers : SendRefresh(c, b) \/ SendLogin(c, b) \/ SendLogout(c, b)
  \/ \E c \in Callers : Handle(c) \/ Lose(c)
  \/ \E t \in Tokens : GraceEnds(t)
  \/ Expire
  \/ DeleteExpired

Spec == Init /\ [][Next]_vars

-----------------------------------------------------------------------------
(* Types of the variables; a request that rotates holds a token that was issued. *)
TypeOK ==
  /\ platform \in BOOLEAN /\ age \in 0..MaxTokens
  /\ row \in [Tokens -> {"unissued", "live", "revoked", "deleted"}]
  /\ recent \subseteq Tokens
  /\ cookie \in [Browsers -> Tokens \cup {0}]
  /\ call \in [Callers -> [at : {"idle", "read", "replace", "alarm", "revoke", "create",
                                 "check", "login", "logout", "answer"},
                           from : SUBSET Browsers, token : Tokens \cup {0}, new : Tokens \cup {0},
                           company : {0, 1}]]
  /\ logins \in Nat /\ shared \in Nat
  /\ raced \in BOOLEAN /\ dropped \in BOOLEAN /\ alarmed \in BOOLEAN
  /\ faults \in 0..MaxFaults
  /\ \A c \in Callers : call[c].at \in {"read", "replace", "alarm", "revoke", "create", "check"}
       => call[c].token # 0 /\ row[call[c].token] # "unissued"

(* "Reuse detected" has a cause: as long as no two requests of one browser   *)
(* overlap and no answer that replaces its cookie is lost or refused, the    *)
(* service never takes the owner for somebody else and revokes all sessions. *)
RevocationHasCause == alarmed => raced \/ dropped

(* Nobody is logged out by the traffic of their own pages: while no family    *)
(* was revoked and no answer was lost, a browser that waits for no answer     *)
(* holds a token that works, in whatever order its refreshes were served.     *)
SessionSurvives ==
  ~ alarmed /\ ~ dropped =>
    \A b \in Browsers :
      InProgress(b) = {} /\ cookie[b] # 0 => row[cookie[b]] = "live" \/ Expired(cookie[b])

(* A refresh replaces a session and does not add one: live tokens are at most *)
(* the logins, plus one for each refresh that overlapped another request.     *)
LiveSessionsBounded == Cardinality(Live) <= logins + shared
=============================================================================
