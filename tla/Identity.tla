------------------------------ MODULE Identity ------------------------------
(***************************************************************************)
(* Users, login transactions, sessions and access tokens: the tables of    *)
(* the identity packages and the HTTP requests that work on them, each a   *)
(* sequence of SQL statements that other requests may come between.        *)
(*                                                                         *)
(* A statement is one step.  Time is kept as the set of rows whose         *)
(* expires_at has passed.  An identifier is used for one row: ids and      *)
(* secrets are random.  A password stands for its hash, which verifies     *)
(* that password only.                                                     *)
(***************************************************************************)
EXTENDS Naturals, FiniteSets

CONSTANTS
  Users, NoUser,
  Passwords, NoPassword,
  Transactions, Sessions, Tokens,
  NoTransaction,
  Requests,                  \* HTTP requests that may be under way at once
  MaxLapses                  \* bound on the rows that expire

ASSUME UsersAssumption == NoUser \notin Users

ASSUME RowsAssumption ==
  /\ NoPassword \notin Passwords /\ NoTransaction \notin Transactions
  /\ Transactions \cap (Sessions \cup Tokens) = {} /\ Sessions \cap Tokens = {}

VARIABLES
  disabled,            \* users with disabled_at
  password,            \* password_hash
  txState, txUser,     \* auth_transactions
  sessUser, revoked,   \* sessions; the ones with revoked_at
  patUser, deleted,    \* personal_access_tokens; the ids of deleted rows
  lapsed,              \* rows whose expires_at has passed
  at, arg, pw, cred, user,   \* a request: its step, the transaction and
                             \* password it names, the credentials it
                             \* carries, the user it was found to speak for
  grants,              \* history: the users it could speak for on arrival
  origin               \* history: the transaction a session comes from

userVars == <<disabled, password>>
txVars == <<txState, txUser>>
sessVars == <<sessUser, revoked, origin>>
tokenVars == <<patUser, deleted>>
rows == <<userVars, txVars, sessVars, tokenVars, lapsed>>
requestVars == <<at, arg, pw, cred, user, grants>>
vars == <<rows, requestVars>>

Init ==
  /\ disabled = {}
  /\ password \in [Users -> Passwords \cup {NoPassword}]
  /\ txState = [t \in Transactions |-> "none"]
  /\ txUser = [t \in Transactions |-> NoUser]
  /\ sessUser = [s \in Sessions |-> NoUser]
  /\ revoked = {}
  /\ patUser = [k \in Tokens |-> NoUser]
  /\ deleted = {}
  /\ lapsed = {}
  /\ at = [c \in Requests |-> "idle"]
  /\ arg = [c \in Requests |-> NoTransaction]
  /\ pw = [c \in Requests |-> NoPassword]
  /\ cred = [c \in Requests |-> {}]
  /\ user = [c \in Requests |-> NoUser]
  /\ grants = [c \in Requests |-> {}]
  /\ origin = [s \in Sessions |-> NoTransaction]

-----------------------------------------------------------------------------
(* What the statements find.                                               *)
GetUserByID(u) == u \in Users \ disabled

GetUserByEmail(u) == u \in Users \ disabled

GetAuthTransactionByID(t) ==
  txState[t] \notin {"none", "authenticated", "expired"} /\ t \notin lapsed

GetSessionByTokenHash(s) ==
  GetUserByID(sessUser[s]) /\ s \notin lapsed \cup revoked

GetTokenByHash(k) == patUser[k] # NoUser /\ k \notin lapsed

(* A hash verifies the password it was made from.                          *)
verifyPassword(p, hash) == hash # NoPassword /\ hash = p

(* The purposes that the table of challenges admits.                       *)
ChallengePurposes == {"email_otp", "email_verification", "password_reset", "magic_link"}

-----------------------------------------------------------------------------
Goto(c, l) ==
  at' = [at EXCEPT ![c] = l] /\ UNCHANGED <<arg, pw, cred, user, grants>>

GotoAs(c, l, u) ==
  /\ at' = [at EXCEPT ![c] = l] /\ user' = [user EXCEPT ![c] = u]
  /\ UNCHANGED <<arg, pw, cred, grants>>

Return(c) ==
  /\ at' = [at EXCEPT ![c] = "idle"]
  /\ arg' = [arg EXCEPT ![c] = NoTransaction]
  /\ pw' = [pw EXCEPT ![c] = NoPassword]
  /\ cred' = [cred EXCEPT ![c] = {}]
  /\ user' = [user EXCEPT ![c] = NoUser]
  /\ grants' = [grants EXCEPT ![c] = {}]

(* A statement fails or the client goes away: the request ends with an     *)
(* error.  An error after the statement took effect is the next step       *)
(* failing.                                                                *)
Fails(c) == at[c] # "idle" /\ Return(c) /\ UNCHANGED rows

(* The expiry of a row passes.                                             *)
Lapse(x) ==
  /\ Cardinality(lapsed) < MaxLapses
  /\ x \notin lapsed /\ lapsed' = lapsed \cup {x}
  /\ \/ x \in Transactions /\ txState[x] # "none"
     \/ x \in Sessions /\ sessUser[x] # NoUser
     \/ x \in Tokens /\ patUser[x] # NoUser
  /\ UNCHANGED <<userVars, txVars, sessVars, tokenVars, requestVars>>

-----------------------------------------------------------------------------
(* POST /auth/start: the user is looked up, then the transaction inserted. *)
Start(c) ==
  /\ at[c] = "idle"
  /\ \E u \in Users : GetUserByEmail(u) /\ GotoAs(c, "start", u)
  /\ UNCHANGED rows

(* Faulty variant: the transaction is inserted without its user.           *)
CreateAuthTransactionAnonymous(t, u) ==
  txState' = [txState EXCEPT ![t] = "started"] /\ UNCHANGED txUser

CreateAuthTransaction(t, u) ==
  /\ txState' = [txState EXCEPT ![t] = "started"]
  /\ txUser' = [txUser EXCEPT ![t] = u]

Started(c) ==
  /\ at[c] = "start"
  /\ \E t \in Transactions : txState[t] = "none" /\ CreateAuthTransaction(t, user[c])
  /\ Return(c) /\ UNCHANGED <<userVars, sessVars, tokenVars, lapsed>>

(* POST /auth/password/login, /auth/otp/send and /auth/otp/verify name a   *)
(* transaction (an id that no row has yet cannot be guessed).  On arrival  *)
(* they may speak for its user if it is open.                              *)
Named(c, l, p) ==
  /\ at[c] = "idle" /\ UNCHANGED <<rows, cred, user>>
  /\ at' = [at EXCEPT ![c] = l]
  /\ pw' = [pw EXCEPT ![c] = p]
  /\ \E t \in Transactions :
       /\ txState[t] # "none" /\ arg' = [arg EXCEPT ![c] = t]
       /\ grants' = [grants EXCEPT ![c] =
            {u \in Users : txUser[t] = u /\ txState[t] = "started" /\ t \notin lapsed}]

LoginWithPassword(c) == \E p \in Passwords : Named(c, "login", p)

SendOTP(c) == Named(c, "otp", NoPassword)

VerifyOTP(c) == Named(c, "otp", NoPassword)

(* getValidTransaction: the query compares expires_at with the clock of    *)
(* the database; the daemon compares it with its own afterwards and marks  *)
(* the transaction as expired.                                             *)
AfterLookup == [login |-> "clock", otp |-> "otpClock"]

getValidTransaction(c) ==
  /\ at[c] \in DOMAIN AfterLookup /\ UNCHANGED rows
  /\ IF GetAuthTransactionByID(arg[c]) THEN Goto(c, AfterLookup[at[c]]) ELSE Return(c)

(* Faulty variant: an authenticated transaction is expired too.            *)
ExpireAuthTransactionAny(t) == txState' = [txState EXCEPT ![t] = "expired"]

ExpireAuthTransaction(t) ==
  txState' = [txState EXCEPT ![t] = IF @ = "authenticated" THEN @ ELSE "expired"]

TransactionExpired(c) ==
  /\ at[c] \in {"clock", "otpClock"} /\ arg[c] \in lapsed
  /\ ExpireAuthTransaction(arg[c]) /\ Return(c)
  /\ UNCHANGED <<userVars, txUser, sessVars, tokenVars, lapsed>>

(* LoginWithPassword goes on: the user, the password, the mark.            *)
VerifyPassword(c) ==
  LET u == txUser[arg[c]] IN
  /\ at[c] = "clock" /\ arg[c] \notin lapsed /\ UNCHANGED rows
  /\ IF GetUserByID(u) /\ verifyPassword(pw[c], password[u]) THEN GotoAs(c, "mark", u) ELSE Return(c)

MarkAuthTransactionAuthenticated(t) ==
  /\ txState[t] # "expired" /\ t \notin lapsed
  /\ txState' = [txState EXCEPT ![t] = "authenticated"]

Mark(c) ==
  /\ at[c] = "mark" /\ UNCHANGED <<userVars, txUser, sessVars, tokenVars, lapsed>>
  /\ \/ MarkAuthTransactionAuthenticated(arg[c]) /\ Goto(c, "session")
     \/ (txState[arg[c]] = "expired" \/ arg[c] \in lapsed) /\ Return(c) /\ UNCHANGED txState

(* No row for a user who was disabled in the meantime.                     *)
CreateSession(s, u) ==
  /\ GetUserByID(u) /\ sessUser[s] = NoUser
  /\ sessUser' = [sessUser EXCEPT ![s] = u]

createSession(c) ==
  /\ at[c] = "session" /\ UNCHANGED <<userVars, txVars, revoked, tokenVars, lapsed>>
  /\ \/ \E s \in Sessions :
          CreateSession(s, user[c]) /\ origin' = [origin EXCEPT ![s] = arg[c]]
     \/ ~GetUserByID(user[c]) /\ UNCHANGED <<sessUser, origin>>
  /\ Return(c)

(* SendOTP goes on to insert a challenge of a purpose that the table does  *)
(* not admit, so VerifyOTP never finds one: both end here.                 *)
CreateAuthChallenge(c) ==
  /\ at[c] = "otpClock" /\ arg[c] \notin lapsed
  /\ "otp" \notin ChallengePurposes /\ Return(c) /\ UNCHANGED rows

GetActiveAuthChallenge(c) ==
  at[c] = "otpClock" /\ arg[c] \notin lapsed /\ Return(c) /\ UNCHANGED rows

-----------------------------------------------------------------------------
(* The middleware in front of every other route: a bearer token if it      *)
(* resolves, otherwise the session cookie, and then the user.              *)
Owner(x) == IF x \in Tokens THEN patUser[x] ELSE sessUser[x]

Issued == {x \in Tokens \cup Sessions : x \in deleted \/ Owner(x) # NoUser}

Arrive(c) ==
  /\ at[c] = "idle" /\ UNCHANGED <<rows, arg, pw, user>>
  /\ at' = [at EXCEPT ![c] = "bearer"]
  /\ \E C \in SUBSET Issued :
       /\ Cardinality(C \cap Tokens) <= 1 /\ Cardinality(C \cap Sessions) <= 1
       /\ cred' = [cred EXCEPT ![c] = C]
       /\ grants' = [grants EXCEPT ![c] =
            {u \in Users : GetUserByID(u) /\ \E x \in C \ (lapsed \cup revoked) : Owner(x) = u}]

(* A token that is found has its last use noted; when the lookup or the    *)
(* note fails the cookie is tried.                                         *)
Resolve(k, u) == GetTokenByHash(k) /\ u = patUser[k]

resolveBearer(c) ==
  /\ at[c] = "bearer" /\ UNCHANGED rows
  /\ \/ \E k \in cred[c] \cap Tokens, u \in Users : Resolve(k, u) /\ GotoAs(c, "user", u)
     \/ Goto(c, "cookie")

Get(s, u) == GetSessionByTokenHash(s) /\ u = sessUser[s]

resolveSession(c) ==
  /\ at[c] = "cookie" /\ UNCHANGED rows
  /\ \/ \E s \in cred[c] \cap Sessions, u \in Users : Get(s, u) /\ GotoAs(c, "user", u)
     \/ (\A s \in cred[c] \cap Sessions : ~GetSessionByTokenHash(s)) /\ Return(c)

(* The middleware asks for the user before it lets the request in.         *)
GetMe(u) == GetUserByID(u)

(* Faulty variant: the user of the credential is not looked up.            *)
userEnabledAlways(c) == at[c] = "user" /\ UNCHANGED rows /\ Goto(c, "admitted")

userEnabled(c) ==
  /\ at[c] = "user" /\ UNCHANGED rows
  /\ IF GetMe(user[c]) THEN Goto(c, "admitted") ELSE Return(c)

-----------------------------------------------------------------------------
(* The handlers behind it, each with one statement.                        *)
Admitted(c) == at[c] = "admitted" /\ Return(c)

SetUserPassword(u, p) ==
  password' = IF u \in disabled THEN password ELSE [password EXCEPT ![u] = p]

SetPassword(c) ==
  /\ Admitted(c) /\ \E p \in Passwords : SetUserPassword(user[c], p)
  /\ UNCHANGED <<disabled, txVars, sessVars, tokenVars, lapsed>>

(* Faulty variant: the statement does not ask whose session it is.         *)
RevokeSessionOfAnyone(s, u) ==
  revoked' = IF sessUser[s] # NoUser THEN revoked \cup {s} ELSE revoked

RevokeSession(s, u) ==
  revoked' = IF sessUser[s] = u THEN revoked \cup {s} ELSE revoked

Revoke(c) ==
  /\ Admitted(c) /\ \E s \in Sessions : RevokeSession(s, user[c])
  /\ UNCHANGED <<userVars, txVars, sessUser, origin, tokenVars, lapsed>>

RevokeUserSessions(u) == revoked' = revoked \cup {s \in Sessions : sessUser[s] = u}

RevokeAll(c) ==
  /\ Admitted(c) /\ RevokeUserSessions(user[c])
  /\ UNCHANGED <<userVars, txVars, sessUser, origin, tokenVars, lapsed>>

CreateToken(k, u) ==
  /\ k \notin deleted /\ patUser[k] = NoUser
  /\ patUser' = [patUser EXCEPT ![k] = u] /\ UNCHANGED deleted

RevokeToken(k, u) ==
  IF patUser[k] = u
  THEN patUser' = [patUser EXCEPT ![k] = NoUser] /\ deleted' = deleted \cup {k}
  ELSE UNCHANGED <<patUser, deleted>>

CreatePAT(c) ==
  /\ Admitted(c) /\ \E k \in Tokens : CreateToken(k, user[c])
  /\ UNCHANGED <<userVars, txVars, sessVars, lapsed>>

RevokePAT(c) ==
  /\ Admitted(c) /\ \E k \in Tokens : RevokeToken(k, user[c])
  /\ UNCHANGED <<userVars, txVars, sessVars, lapsed>>

DisableUser(u) == disabled' = disabled \cup {u}

DeleteMe(c) ==
  /\ Admitted(c) /\ DisableUser(user[c])
  /\ UNCHANGED <<password, txVars, sessVars, tokenVars, lapsed>>

-----------------------------------------------------------------------------
Login(c) ==
  \/ Start(c) \/ Started(c)
  \/ LoginWithPassword(c) \/ SendOTP(c) \/ VerifyOTP(c)
  \/ getValidTransaction(c) \/ TransactionExpired(c)
  \/ VerifyPassword(c) \/ Mark(c) \/ createSession(c)
  \/ CreateAuthChallenge(c) \/ GetActiveAuthChallenge(c)

Middleware(c) == Arrive(c) \/ resolveBearer(c) \/ resolveSession(c) \/ userEnabled(c)

Handler(c) ==
  \/ SetPassword(c) \/ Revoke(c) \/ RevokeAll(c)
  \/ CreatePAT(c) \/ RevokePAT(c) \/ DeleteMe(c)

Next ==
  \/ \E c \in Requests : Login(c) \/ Middleware(c) \/ Handler(c) \/ Fails(c)
  \/ \E x \in Transactions \cup Sessions \cup Tokens : Lapse(x)

Spec == Init /\ [][Next]_vars

-----------------------------------------------------------------------------
Steps == {"idle", "start", "login", "otp", "clock", "otpClock", "mark",
          "session", "bearer", "cookie", "user", "admitted"}

(* Every variable has its type, a transaction has its user and a request   *)
(* in progress knows what its step needs.                                  *)
TypeOK ==
  /\ disabled \subseteq Users
  /\ password \in [Users -> Passwords \cup {NoPassword}]
  /\ txState \in [Transactions -> {"none", "started", "authenticated", "expired"}]
  /\ txUser \in [Transactions -> Users \cup {NoUser}]
  /\ \A t \in Transactions : txState[t] = "none" <=> txUser[t] = NoUser
  /\ sessUser \in [Sessions -> Users \cup {NoUser}]
  /\ revoked \subseteq {s \in Sessions : sessUser[s] # NoUser}
  /\ patUser \in [Tokens -> Users \cup {NoUser}] /\ deleted \subseteq Tokens
  /\ \A k \in deleted : patUser[k] = NoUser
  /\ lapsed \subseteq Transactions \cup Sessions \cup Tokens
  /\ at \in [Requests -> Steps]
  /\ \A c \in Requests : at[c] \in {"start", "mark", "session", "user", "admitted"} => user[c] \in Users

(* A session outlives the login it comes from only as far as it may: the   *)
(* transaction is that user's and stays authenticated, whatever other      *)
(* requests do with the transaction (no request can expire it again).      *)
SessionBacked ==
  \A s \in Sessions : sessUser[s] # NoUser =>
    /\ origin[s] \in Transactions /\ txState[origin[s]] = "authenticated"
    /\ txUser[origin[s]] = sessUser[s]

(* A request gets to act for a user only with what was good for that user  *)
(* when it arrived: an open transaction of the user, or a credential of a  *)
(* user not disabled that was neither revoked nor deleted nor out of date. *)
Granted ==
  \A c \in Requests : at[c] \in {"session", "admitted"} => user[c] \in grants[c]

By(u) == \E c \in Requests : at[c] = "admitted" /\ user[c] = u /\ at'[c] = "idle"

(* A session is revoked, a token deleted and an account disabled only by a *)
(* request that was admitted for its user.                                 *)
OwnerRevokes ==
  [][/\ \A s \in revoked' \ revoked : By(sessUser[s])
     /\ \A k \in Tokens : patUser[k] # NoUser /\ patUser'[k] # patUser[k] => By(patUser[k])
     /\ \A u \in disabled' \ disabled : By(u)]_vars
=============================================================================
