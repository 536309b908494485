--------------------------- MODULE IdentityProofs ---------------------------
(***************************************************************************)
(* A request acts for a user only with what was good for that user when it *)
(* arrived, for any number of users, rows and concurrent requests.  The    *)
(* tables only ever move forward (RowsForward); so what one request knows  *)
(* of them (RequestInv) survives the statements of all the others.         *)
(***************************************************************************)
EXTENDS Identity, TLAPS

(* The tables, with the domain of the history variable origin.             *)
RowTypes ==
  /\ disabled \subseteq Users
  /\ password \in [Users -> Passwords \cup {NoPassword}]
  /\ txState \in [Transactions -> {"none", "started", "authenticated", "expired"}]
  /\ txUser \in [Transactions -> Users \cup {NoUser}]
  /\ \A t \in Transactions : txState[t] = "none" <=> txUser[t] = NoUser
  /\ sessUser \in [Sessions -> Users \cup {NoUser}]
  /\ revoked \subseteq {s \in Sessions : sessUser[s] # NoUser}
  /\ patUser \in [Tokens -> Users \cup {NoUser}] /\ deleted \subseteq Tokens
  /\ \A k \in deleted : patUser[k] = NoUser
  /\ lapsed \subseteq Transactions \cup Sessions \cup Tokens
  /\ origin \in [Sessions -> Transactions \cup {NoTransaction}]

RequestTypes ==
  /\ at \in [Requests -> Steps]
  /\ arg \in [Requests -> Transactions \cup {NoTransaction}]
  /\ pw \in [Requests -> Passwords \cup {NoPassword}]
  /\ cred \in [Requests -> SUBSET (Tokens \cup Sessions)]
  /\ user \in [Requests -> Users \cup {NoUser}]
  /\ grants \in [Requests -> SUBSET Users]

WithTransaction == {"login", "otp", "clock", "otpClock", "mark", "session"}

(* What a request knows.  With a transaction: the user it names is one     *)
(* the request may speak for as long as the transaction is open, and for   *)
(* good once the lookup found it so.  With credentials: the same of every  *)
(* credential that is still good.                                          *)
GoodCredential(x, G) ==
  /\ x \in Issued
  /\ Owner(x) \in Users \ disabled /\ x \notin lapsed \cup revoked => Owner(x) \in G

RequestInv(c) ==
  /\ at[c] \in WithTransaction => arg[c] \in Transactions /\ txState[arg[c]] # "none"
  /\ at[c] \in {"start", "mark", "session", "user", "admitted"} => user[c] \in Users
  /\ at[c] = "login" /\ txState[arg[c]] = "started" /\ arg[c] \notin lapsed =>
       txUser[arg[c]] \in grants[c]
  /\ at[c] = "clock" => txUser[arg[c]] \in grants[c]
  /\ at[c] \in {"mark", "session"} => txUser[arg[c]] = user[c] /\ user[c] \in grants[c]
  /\ at[c] = "session" => txState[arg[c]] = "authenticated"
  /\ at[c] \in {"bearer", "cookie"} => \A x \in cred[c] : GoodCredential(x, grants[c])
  /\ at[c] = "user" /\ user[c] \notin disabled => user[c] \in grants[c]
  /\ at[c] = "admitted" => user[c] \in grants[c]

IdInv ==
  /\ RowTypes /\ RequestTypes /\ SessionBacked
  /\ \A c \in Requests : RequestInv(c)

(* The invariant of the identity tables holds at the start.                *)
LEMMA IdInit == Init => IdInv
<1> SUFFICES ASSUME Init PROVE IdInv
  OBVIOUS
<1>1. RowTypes /\ RequestTypes /\ SessionBacked
  BY DEF Init, RowTypes, RequestTypes, SessionBacked, Steps
<1>2. \A c \in Requests : RequestInv(c)
  BY DEF Init, RequestInv, WithTransaction
<1> QED
  BY <1>1, <1>2 DEF IdInv

-----------------------------------------------------------------------------
(* What a statement may do to the tables: a transaction keeps its user and *)
(* does not open again, an authenticated one stays so; a session keeps its *)
(* user, a token keeps or loses its own; nothing is un-expired,            *)
(* un-revoked, un-deleted or enabled again.                                *)
RowsForward ==
  /\ \A t \in Transactions : txState[t] # "none" =>
       /\ txUser'[t] = txUser[t] /\ txState'[t] # "none"
       /\ txState[t] = "authenticated" => txState'[t] = "authenticated"
       /\ txState'[t] = "started" => txState[t] = "started"
  /\ \A s \in Sessions : sessUser[s] # NoUser => sessUser'[s] = sessUser[s]
  /\ \A k \in Tokens : (k \in deleted \/ patUser[k] # NoUser) =>
       \/ patUser'[k] = patUser[k]
       \/ patUser'[k] = NoUser /\ k \in deleted'
  /\ disabled \subseteq disabled' /\ lapsed \subseteq lapsed'
  /\ revoked \subseteq revoked' /\ deleted \subseteq deleted'

(* What a good credential was good for it is good for later on, if at all. *)
LEMMA CredentialKept ==
  ASSUME RowTypes, RowsForward, NEW x, NEW G, GoodCredential(x, G)
  PROVE  GoodCredential(x, G)'
<1>1. CASE x \in Tokens
  <2>1. /\ Owner(x) = patUser[x] /\ Owner(x)' = patUser'[x]
        /\ x \in deleted \/ patUser[x] # NoUser
    BY <1>1 DEF Owner, GoodCredential, Issued
  <2>2. patUser'[x] = patUser[x] \/ (patUser'[x] = NoUser /\ x \in deleted')
    BY <1>1, <2>1 DEF RowsForward
  <2> QED
    BY <1>1, <2>1, <2>2, UsersAssumption DEF GoodCredential, Issued, RowsForward
<1>2. CASE x \notin Tokens
  <2>1. /\ x \in Sessions /\ Owner(x) = sessUser[x] /\ Owner(x)' = sessUser'[x]
        /\ sessUser[x] # NoUser
    BY <1>2 DEF Owner, GoodCredential, Issued, RowTypes
  <2>2. sessUser'[x] = sessUser[x]
    BY <2>1 DEF RowsForward
  <2> QED
    BY <2>1, <2>2 DEF GoodCredential, Issued, RowsForward
<1> QED
  BY <1>1, <1>2

(* A request that takes no step keeps what it knows.                       *)
LEMMA OthersKeep ==
  ASSUME IdInv, RowsForward, NEW c \in Requests,
         at'[c] = at[c], arg'[c] = arg[c], cred'[c] = cred[c],
         user'[c] = user[c], grants'[c] = grants[c]
  PROVE  RequestInv(c)'
<1>1. RequestInv(c) /\ RowTypes
  BY DEF IdInv
<1>2. at[c] \in {"bearer", "cookie"} => \A x \in cred[c] : GoodCredential(x, grants[c])'
  BY <1>1, CredentialKept DEF RequestInv
<1>3. ASSUME at[c] \in WithTransaction
      PROVE  /\ arg[c] \in Transactions /\ txState[arg[c]] # "none" /\ txState'[arg[c]] # "none"
             /\ txUser'[arg[c]] = txUser[arg[c]]
             /\ txState[arg[c]] = "authenticated" => txState'[arg[c]] = "authenticated"
             /\ txState'[arg[c]] = "started" => txState[arg[c]] = "started"
  BY <1>1, <1>3 DEF RequestInv, RowsForward
<1> QED
  BY <1>1, <1>2, <1>3 DEF RequestInv, RowsForward, WithTransaction

(* A session stays backed while the tables move forward.                   *)
LEMMA BackedKept ==
  ASSUME IdInv, RowsForward, UNCHANGED <<sessUser, origin>>
  PROVE  SessionBacked'
<1> SUFFICES ASSUME NEW s \in Sessions, sessUser[s] # NoUser
             PROVE  /\ origin[s] \in Transactions /\ txState'[origin[s]] = "authenticated"
                    /\ txUser'[origin[s]] = sessUser[s]
  BY DEF SessionBacked
<1>1. /\ origin[s] \in Transactions /\ txState[origin[s]] = "authenticated"
      /\ txUser[origin[s]] = sessUser[s]
  BY DEF IdInv, SessionBacked
<1> QED
  BY <1>1 DEF RowsForward

(* The statements that write no table.                                     *)
LEMMA NothingWritten ==
  ASSUME IdInv, UNCHANGED rows
  PROVE  RowTypes' /\ RowsForward /\ SessionBacked'
<1>1. UNCHANGED <<disabled, password, txState, txUser, sessUser, revoked, origin, patUser, deleted, lapsed>>
  BY DEF rows, userVars, txVars, sessVars, tokenVars
<1>2. RowTypes' /\ RowsForward
  BY <1>1 DEF IdInv, RowTypes, RowsForward
<1> QED
  BY <1>1, <1>2, BackedKept

(* The statements that write auth_transactions.                            *)
LEMMA TransactionsForward ==
  ASSUME IdInv, NEW c \in Requests, Started(c) \/ TransactionExpired(c) \/ Mark(c)
  PROVE  RowTypes' /\ RowsForward /\ SessionBacked'
<1> USE DEF IdInv, RowTypes
<1>1. UNCHANGED <<userVars, sessVars, tokenVars, lapsed>>
  BY DEF Started, TransactionExpired, Mark
<1>2. RequestInv(c)
  OBVIOUS
<1>3. /\ txState' \in [Transactions -> {"none", "started", "authenticated", "expired"}]
      /\ txUser' \in [Transactions -> Users \cup {NoUser}]
      /\ \A t \in Transactions : txState'[t] = "none" <=> txUser'[t] = NoUser
      /\ \A t \in Transactions : txState[t] # "none" =>
           /\ txUser'[t] = txUser[t] /\ txState'[t] # "none"
           /\ txState[t] = "authenticated" => txState'[t] = "authenticated"
           /\ txState'[t] = "started" => txState[t] = "started"
  <2>1. CASE Started(c)
    <3>1. PICK t \in Transactions :
            /\ txState[t] = "none" /\ txState' = [txState EXCEPT ![t] = "started"]
            /\ txUser' = [txUser EXCEPT ![t] = user[c]]
      BY <2>1, Zenon DEF Started, CreateAuthTransaction
    <3>2. user[c] \in Users
      BY <1>2, <2>1 DEF Started, RequestInv
    <3> QED
      BY <3>1, <3>2, UsersAssumption
  <2>2. CASE TransactionExpired(c)
    <3>1. /\ arg[c] \in Transactions /\ txState[arg[c]] # "none" /\ txUser' = txUser
          /\ txState' = [txState EXCEPT ![arg[c]] = IF txState[arg[c]] = "authenticated" THEN "authenticated" ELSE "expired"]
      BY <1>2, <2>2, Zenon DEF TransactionExpired, ExpireAuthTransaction, RequestInv,
         WithTransaction
    <3> QED
      BY <3>1
  <2>3. CASE Mark(c)
    <3>1. /\ arg[c] \in Transactions /\ txState[arg[c]] # "none" /\ txUser' = txUser
          /\ txState' = txState \/ txState' = [txState EXCEPT ![arg[c]] = "authenticated"]
      BY <1>2, <2>3 DEF Mark, MarkAuthTransactionAuthenticated, RequestInv, WithTransaction
    <3> QED
      BY <3>1
  <2> QED
    BY <2>1, <2>2, <2>3
<1>4. UNCHANGED <<disabled, password, sessUser, revoked, origin, patUser, deleted, lapsed>>
  BY <1>1 DEF userVars, sessVars, tokenVars
<1>5. RowTypes' /\ RowsForward
  BY <1>3, <1>4 DEF RowsForward
<1> QED
  BY <1>4, <1>5, BackedKept

(* The statement that inserts a session, for the user of an authenticated  *)
(* transaction.                                                            *)
LEMMA SessionsForward ==
  ASSUME IdInv, NEW c \in Requests, createSession(c)
  PROVE  RowTypes' /\ RowsForward /\ SessionBacked'
<1> USE DEF IdInv, RowTypes
<1>1. UNCHANGED <<disabled, password, txState, txUser, revoked, patUser, deleted, lapsed>>
  BY DEF createSession, userVars, txVars, tokenVars
<1>2. /\ arg[c] \in Transactions /\ txState[arg[c]] = "authenticated"
      /\ txUser[arg[c]] = user[c] /\ user[c] \in Users
  BY DEF createSession, RequestInv, WithTransaction
<1>3. CASE UNCHANGED <<sessUser, origin>>
  <2>1. RowTypes' /\ RowsForward
    BY <1>1, <1>3 DEF RowsForward
  <2> QED
    BY <1>3, <2>1, BackedKept
<1>4. CASE ~UNCHANGED <<sessUser, origin>>
  <2>1. PICK s \in Sessions :
          /\ sessUser[s] = NoUser /\ sessUser' = [sessUser EXCEPT ![s] = user[c]]
          /\ origin' = [origin EXCEPT ![s] = arg[c]]
    BY <1>4 DEF createSession, CreateSession
  <2>2. RowTypes' /\ RowsForward
    BY <1>1, <1>2, <2>1 DEF RowsForward
  <2>3. SessionBacked'
    BY <1>1, <1>2, <2>1 DEF SessionBacked
  <2> QED
    BY <2>2, <2>3
<1> QED
  BY <1>3, <1>4

(* The statements of the handlers behind the middleware, and the clock.    *)
LEMMA HandlersForward ==
  ASSUME IdInv, NEW c \in Requests, Handler(c)
  PROVE  RowTypes' /\ RowsForward /\ SessionBacked'
<1> USE DEF IdInv, RowTypes
<1>1. user[c] \in Users
  <2>1. at[c] = "admitted"
    BY DEF Handler, SetPassword, Revoke, RevokeAll, CreatePAT, RevokePAT, DeleteMe, Admitted
  <2> QED
    BY <2>1, Zenon DEF RequestInv
<1>2. UNCHANGED <<txState, txUser, sessUser, origin, lapsed>>
  BY DEF Handler, SetPassword, Revoke, RevokeAll, CreatePAT, RevokePAT, DeleteMe, txVars, sessVars
<1>3. RowTypes' /\ RowsForward
  <2>1. CASE SetPassword(c)
    <3>1. /\ password' = password \/ \E p \in Passwords : password' = [password EXCEPT ![user[c]] = p]
          /\ UNCHANGED <<disabled, revoked, patUser, deleted>>
      BY <2>1, Zenon DEF SetPassword, SetUserPassword, sessVars, tokenVars
    <3>2. password' \in [Users -> Passwords \cup {NoPassword}]
      BY <3>1
    <3> QED
      BY <1>2, <3>1, <3>2 DEF RowsForward
  <2>2. CASE Revoke(c) \/ RevokeAll(c)
    <3>1. /\ UNCHANGED <<disabled, password, patUser, deleted>> /\ revoked \subseteq revoked'
          /\ \A s \in revoked' \ revoked : s \in Sessions /\ sessUser[s] = user[c]
      BY <2>2 DEF Revoke, RevokeAll, RevokeSession, RevokeUserSessions, userVars, tokenVars
    <3>2. revoked' \subseteq {s \in Sessions : sessUser[s] # NoUser}
      BY <1>1, <3>1, UsersAssumption
    <3> QED
      BY <1>2, <3>1, <3>2 DEF RowsForward
  <2>3. CASE CreatePAT(c)
    <3>1. PICK k \in Tokens :
            k \notin deleted /\ patUser[k] = NoUser /\ patUser' = [patUser EXCEPT ![k] = user[c]] /\ deleted' = deleted
      BY <2>3, Zenon DEF CreatePAT, CreateToken
    <3>2. UNCHANGED <<disabled, password, revoked>>
      BY <2>3 DEF CreatePAT, userVars, sessVars
    <3> QED
      BY <1>1, <1>2, <3>1, <3>2 DEF RowsForward
  <2>4. CASE RevokePAT(c)
    <3>1. PICK k \in Tokens : RevokeToken(k, user[c])
      BY <2>4 DEF RevokePAT
    <3>2. UNCHANGED <<disabled, password, revoked>>
      BY <2>4 DEF RevokePAT, userVars, sessVars
    <3> QED
      BY <1>2, <3>1, <3>2 DEF RowsForward, RevokeToken
  <2>5. CASE DeleteMe(c)
    BY <1>1, <1>2, <2>5 DEF DeleteMe, DisableUser, RowsForward, sessVars, tokenVars
  <2> QED
    BY <2>1, <2>2, <2>3, <2>4, <2>5 DEF Handler
<1> QED
  BY <1>2, <1>3, BackedKept

-----------------------------------------------------------------------------
(* A step of one request: what the others know stays true.                 *)
LEMMA OneStep ==
  ASSUME IdInv, NEW c \in Requests, RowTypes', RowsForward, SessionBacked',
         RequestTypes', RequestInv(c)',
         \A d \in Requests \ {c} :
           /\ at'[d] = at[d] /\ arg'[d] = arg[d] /\ cred'[d] = cred[d]
           /\ user'[d] = user[d] /\ grants'[d] = grants[d]
  PROVE  IdInv'
<1>1. ASSUME NEW d \in Requests \ {c} PROVE RequestInv(d)'
  BY <1>1, OthersKeep
<1> QED
  BY <1>1 DEF IdInv

(* A request that returns knows nothing any more.                          *)
LEMMA ReturnKeeps ==
  ASSUME IdInv, NEW c \in Requests, RowTypes', RowsForward, SessionBacked', Return(c)
  PROVE  IdInv'
<1>1. RequestTypes'
  BY DEF IdInv, RequestTypes, Return, Steps
<1>2. at'[c] = "idle"
  BY DEF IdInv, RequestTypes, Return
<1>3. RequestInv(c)'
  BY <1>2 DEF RequestInv, WithTransaction
<1>4. \A d \in Requests \ {c} :
        /\ at'[d] = at[d] /\ arg'[d] = arg[d] /\ cred'[d] = cred[d]
        /\ user'[d] = user[d] /\ grants'[d] = grants[d]
  BY DEF IdInv, RequestTypes, Return
<1> QED
  BY <1>1, <1>3, <1>4, OneStep

(* A request that goes on, as the same user or as one just looked up.      *)
LEMMA GotoKeeps ==
  ASSUME IdInv, NEW c \in Requests, NEW l \in Steps, NEW u \in Users \cup {NoUser},
         Goto(c, l) \/ GotoAs(c, l, u), RowTypes', RowsForward, SessionBacked',
         (/\ at'[c] = l /\ arg'[c] = arg[c] /\ cred'[c] = cred[c] /\ grants'[c] = grants[c]
          /\ GotoAs(c, l, u) => user'[c] = u
          /\ Goto(c, l) => user'[c] = user[c]) => RequestInv(c)'
  PROVE  IdInv'
<1>1. RequestTypes'
  BY DEF IdInv, RequestTypes, Goto, GotoAs
<1>2. /\ at'[c] = l /\ arg'[c] = arg[c] /\ cred'[c] = cred[c] /\ grants'[c] = grants[c]
      /\ GotoAs(c, l, u) => user'[c] = u
      /\ Goto(c, l) => user'[c] = user[c]
  BY DEF IdInv, RequestTypes, Goto, GotoAs
<1>3. \A d \in Requests \ {c} :
        /\ at'[d] = at[d] /\ arg'[d] = arg[d] /\ cred'[d] = cred[d]
        /\ user'[d] = user[d] /\ grants'[d] = grants[d]
  BY DEF IdInv, RequestTypes, Goto, GotoAs
<1> QED
  BY <1>1, <1>2, <1>3, OneStep

(* A request that names a transaction may speak for its user if it is open.*)
LEMMA NamedKeeps ==
  ASSUME IdInv, NEW c \in Requests, NEW l \in {"login", "otp"},
         NEW p \in Passwords \cup {NoPassword}, Named(c, l, p)
  PROVE  IdInv'
<1>1. RowTypes' /\ RowsForward /\ SessionBacked'
  BY NothingWritten DEF Named
<1>2. PICK t \in Transactions :
        /\ txState[t] # "none" /\ arg' = [arg EXCEPT ![c] = t]
        /\ grants' = [grants EXCEPT ![c] =
             {u \in Users : txUser[t] = u /\ txState[t] = "started" /\ t \notin lapsed}]
  BY Zenon DEF Named
<1>3. at' = [at EXCEPT ![c] = l] /\ pw' = [pw EXCEPT ![c] = p] /\ UNCHANGED <<cred, user>>
  BY DEF Named
<1>4. RequestTypes'
  BY <1>2, <1>3 DEF IdInv, RequestTypes, Steps
<1>5. /\ at'[c] = l /\ arg'[c] = t
      /\ txState[t] = "started" /\ t \notin lapsed => txUser[t] \in grants'[c]
  <2>1. txState[t] # "none" => txUser[t] \in Users
    BY DEF IdInv, RowTypes
  <2> QED
    BY <1>2, <1>3, <2>1 DEF IdInv, RequestTypes
<1>6. UNCHANGED <<txState, txUser, lapsed>>
  BY DEF Named, rows, txVars
<1>7. RequestInv(c)'
  BY <1>2, <1>5, <1>6 DEF RequestInv, WithTransaction
<1>8. \A d \in Requests \ {c} :
        /\ at'[d] = at[d] /\ arg'[d] = arg[d] /\ cred'[d] = cred[d]
        /\ user'[d] = user[d] /\ grants'[d] = grants[d]
  BY <1>2, <1>3 DEF IdInv, RequestTypes
<1> QED
  BY <1>1, <1>4, <1>7, <1>8, OneStep

(* The steps of a login.                                                   *)
LEMMA LoginKeeps ==
  ASSUME IdInv, NEW c \in Requests, Login(c)
  PROVE  IdInv'
<1>1. RequestInv(c) /\ RowTypes
  BY Zenon DEF IdInv
<1>2. CASE Start(c)
  <2>1. PICK u \in Users : GotoAs(c, "start", u)
    BY <1>2 DEF Start
  <2>2. at'[c] = "start" /\ user'[c] = u => RequestInv(c)'
    BY DEF RequestInv, WithTransaction
  <2> QED
    BY <1>2, <2>1, <2>2, NothingWritten, GotoKeeps DEF Start, Steps
<1>3. CASE Started(c)
  BY <1>3, TransactionsForward, ReturnKeeps DEF Started
<1>4. CASE LoginWithPassword(c) \/ SendOTP(c) \/ VerifyOTP(c)
  BY <1>4, NamedKeeps DEF LoginWithPassword, SendOTP, VerifyOTP
<1>5. CASE getValidTransaction(c)
  <2>1. UNCHANGED rows /\ at[c] \in {"login", "otp"}
    BY <1>5 DEF getValidTransaction, AfterLookup
  <2>2. CASE GetAuthTransactionByID(arg[c])
    <3>1. arg[c] \in Transactions /\ txState[arg[c]] = "started" /\ arg[c] \notin lapsed
      BY <1>1, <2>1, <2>2 DEF GetAuthTransactionByID, RequestInv, RowTypes, WithTransaction
    <3>2. UNCHANGED <<txState, txUser, lapsed>>
      BY <2>1, Zenon DEF rows, txVars
    <3>3. CASE at[c] = "login"
      <4>1. Goto(c, "clock")
        BY <1>5, <2>2, <3>3 DEF getValidTransaction, AfterLookup
      <4>2. txUser[arg[c]] \in grants[c]
        BY <1>1, <3>1, <3>3, Zenon DEF RequestInv
      <4>3. at'[c] = "clock" /\ arg'[c] = arg[c] /\ grants'[c] = grants[c] => RequestInv(c)'
        BY <3>1, <3>2, <4>2 DEF RequestInv, WithTransaction
      <4> QED
        BY <2>1, <4>1, <4>3, NothingWritten, GotoKeeps DEF Steps
    <3>4. CASE at[c] = "otp"
      <4>1. Goto(c, "otpClock")
        BY <1>5, <2>2, <3>4 DEF getValidTransaction, AfterLookup
      <4>2. at'[c] = "otpClock" /\ arg'[c] = arg[c] => RequestInv(c)'
        BY <3>1, <3>2 DEF RequestInv, WithTransaction
      <4> QED
        BY <2>1, <4>1, <4>2, NothingWritten, GotoKeeps DEF Steps
    <3> QED
      BY <2>1, <3>3, <3>4
  <2> QED
    BY <1>5, <2>1, <2>2, NothingWritten, ReturnKeeps DEF getValidTransaction
<1>6. CASE TransactionExpired(c)
  BY <1>6, TransactionsForward, ReturnKeeps DEF TransactionExpired
<1>7. CASE VerifyPassword(c)
  <2>1. UNCHANGED rows /\ at[c] = "clock"
    BY <1>7 DEF VerifyPassword
  <2>2. Return(c) \/ (txUser[arg[c]] \in Users /\ GotoAs(c, "mark", txUser[arg[c]]))
    BY <1>7 DEF VerifyPassword, GetUserByID
  <2>3. CASE txUser[arg[c]] \in Users /\ GotoAs(c, "mark", txUser[arg[c]])
    <3>1. PICK u \in Users : u = txUser[arg[c]]
      BY <2>3
    <3>2. GotoAs(c, "mark", u)
      BY <2>3, <3>1
    <3>3. UNCHANGED <<txState, txUser>>
      BY <2>1 DEF rows, txVars
    <3>4. arg[c] \in Transactions /\ txState[arg[c]] # "none" /\ u \in grants[c]
      BY <1>1, <2>1, <3>1 DEF RequestInv, WithTransaction
    <3>5. at'[c] = "mark" /\ arg'[c] = arg[c] /\ grants'[c] = grants[c] /\ user'[c] = u => RequestInv(c)'
      BY <3>1, <3>3, <3>4, Zenon DEF RequestInv, WithTransaction
    <3> QED
      BY <2>1, <3>2, <3>5, NothingWritten, GotoKeeps DEF Steps
  <2> QED
    BY <2>1, <2>2, <2>3, NothingWritten, ReturnKeeps
<1>8. CASE Mark(c)
  <2>1. at[c] = "mark" /\ txUser' = txUser
    BY <1>8 DEF Mark
  <2>2. CASE MarkAuthTransactionAuthenticated(arg[c]) /\ Goto(c, "session")
    <3>1. arg[c] \in Transactions /\ txUser[arg[c]] = user[c] /\ user[c] \in grants[c] /\ user[c] \in Users
      BY <1>1, <2>1 DEF RequestInv, WithTransaction
    <3>2. txState'[arg[c]] = "authenticated"
      BY <1>1, <2>2, <3>1, Zenon DEF MarkAuthTransactionAuthenticated, RowTypes
    <3>3. at'[c] = "session" /\ arg'[c] = arg[c] /\ grants'[c] = grants[c] /\ user'[c] = user[c] => RequestInv(c)'
      BY <2>1, <3>1, <3>2, Zenon DEF RequestInv, WithTransaction
    <3> QED
      BY <1>8, <2>2, <3>3, TransactionsForward, GotoKeeps, Zenon DEF Steps
  <2> QED
    BY <1>8, <2>2, TransactionsForward, ReturnKeeps, Zenon DEF Mark
<1>9. CASE createSession(c)
  BY <1>9, SessionsForward, ReturnKeeps DEF createSession
<1>10. CASE CreateAuthChallenge(c) \/ GetActiveAuthChallenge(c)
  BY <1>10, NothingWritten, ReturnKeeps DEF CreateAuthChallenge, GetActiveAuthChallenge
<1> QED
  BY <1>2, <1>3, <1>4, <1>5, <1>6, <1>7, <1>8, <1>9, <1>10 DEF Login

(* A request arrives with credentials, which are good for what they grant. *)
LEMMA ArriveKeeps ==
  ASSUME IdInv, NEW c \in Requests, Arrive(c)
  PROVE  IdInv'
<1>1. RowTypes' /\ RowsForward /\ SessionBacked'
  BY NothingWritten DEF Arrive
<1>2. PICK C \in SUBSET Issued :
        /\ cred' = [cred EXCEPT ![c] = C]
        /\ grants' = [grants EXCEPT ![c] =
             {u \in Users : GetUserByID(u) /\ \E x \in C \ (lapsed \cup revoked) : Owner(x) = u}]
  BY Zenon DEF Arrive
<1>3. at' = [at EXCEPT ![c] = "bearer"] /\ UNCHANGED <<arg, pw, user>>
  BY DEF Arrive
<1>4. RequestTypes'
  BY <1>2, <1>3 DEF IdInv, RequestTypes, Steps, Issued
<1>5. /\ at'[c] = "bearer" /\ cred'[c] = C
      /\ grants'[c] = {u \in Users : GetUserByID(u) /\ \E x \in C \ (lapsed \cup revoked) : Owner(x) = u}
  BY <1>2, <1>3 DEF IdInv, RequestTypes
<1>6. ASSUME NEW x \in C PROVE GoodCredential(x, grants'[c])
  BY <1>2, <1>5, <1>6 DEF GoodCredential, GetUserByID
<1>7. UNCHANGED <<disabled, sessUser, revoked, patUser, deleted, lapsed>>
  BY DEF Arrive, rows, userVars, sessVars, tokenVars
<1>8. \A x \in cred'[c] : GoodCredential(x, grants[c])'
  BY <1>5, <1>6, <1>7 DEF GoodCredential, Issued, Owner
<1>9. RequestInv(c)'
  BY <1>5, <1>8 DEF RequestInv, WithTransaction
<1>10. \A d \in Requests \ {c} :
         /\ at'[d] = at[d] /\ arg'[d] = arg[d] /\ cred'[d] = cred[d]
         /\ user'[d] = user[d] /\ grants'[d] = grants[d]
  BY <1>2, <1>3 DEF IdInv, RequestTypes
<1> QED
  BY <1>1, <1>4, <1>9, <1>10, OneStep

(* The middleware: bearer token, session cookie, user.                     *)
LEMMA MiddlewareKeeps ==
  ASSUME IdInv, NEW c \in Requests, Middleware(c)
  PROVE  IdInv'
<1>1. RequestInv(c) /\ RowTypes
  BY DEF IdInv
<1>2. CASE Arrive(c)
  BY <1>2, ArriveKeeps
<1>3. ASSUME resolveBearer(c) \/ resolveSession(c) \/ userEnabled(c)
      PROVE  /\ RowTypes' /\ RowsForward /\ SessionBacked'
             /\ UNCHANGED <<disabled, sessUser, revoked, patUser, deleted, lapsed>>
  <2>1. UNCHANGED rows
    BY <1>3, Zenon DEF resolveBearer, resolveSession, userEnabled
  <2> QED
    BY <2>1, NothingWritten, Zenon DEF rows, userVars, sessVars, tokenVars
<1>4. ASSUME NEW u \in Users, NEW x \in cred[c], at[c] \in {"bearer", "cookie"},
             Owner(x) = u, x \notin lapsed \cup revoked, GotoAs(c, "user", u),
             resolveBearer(c) \/ resolveSession(c)
      PROVE  IdInv'
  <2>1. u \notin disabled => u \in grants[c]
    BY <1>1, <1>4, Zenon DEF RequestInv, GoodCredential
  <2>2. at'[c] = "user" /\ user'[c] = u /\ grants'[c] = grants[c] => RequestInv(c)'
    BY <1>3, <1>4, <2>1 DEF RequestInv, WithTransaction
  <2> QED
    BY <1>3, <1>4, <2>2, GotoKeeps, Zenon DEF Steps
<1>5. CASE resolveBearer(c)
  <2>1. at[c] = "bearer"
    BY <1>5, Zenon DEF resolveBearer
  <2>2. CASE Goto(c, "cookie")
    <3>1. \A x \in cred[c] : GoodCredential(x, grants[c])
      BY <1>1, <2>1, Zenon DEF RequestInv
    <3>2. at'[c] = "cookie" /\ cred'[c] = cred[c] /\ grants'[c] = grants[c] => RequestInv(c)'
      BY <1>3, <1>5, <3>1, Zenon DEF RequestInv, WithTransaction, GoodCredential, Issued, Owner
    <3> QED
      BY <1>3, <1>5, <2>2, <3>2, GotoKeeps, Zenon DEF Steps
  <2>3. CASE ~Goto(c, "cookie")
    <3>1. PICK k \in cred[c] \cap Tokens, u \in Users : Resolve(k, u) /\ GotoAs(c, "user", u)
      BY <1>5, <2>3 DEF resolveBearer
    <3>2. Owner(k) = u /\ k \notin lapsed \cup revoked
      BY <1>1, <3>1, RowsAssumption DEF Resolve, GetTokenByHash, Owner, RowTypes
    <3> QED
      BY <1>4, <1>5, <2>1, <3>1, <3>2
  <2> QED
    BY <2>2, <2>3
<1>6. CASE resolveSession(c)
  <2>1. at[c] = "cookie"
    BY <1>6 DEF resolveSession
  <2>2. CASE Return(c)
    BY <1>3, <1>6, <2>2, ReturnKeeps
  <2>3. CASE ~Return(c)
    <3>1. PICK s \in cred[c] \cap Sessions, u \in Users : Get(s, u) /\ GotoAs(c, "user", u)
      BY <1>6, <2>3 DEF resolveSession
    <3>2. Owner(s) = u /\ s \notin lapsed \cup revoked
      BY <1>1, <3>1, RowsAssumption DEF Get, GetSessionByTokenHash, Owner, RowTypes
    <3> QED
      BY <1>4, <1>6, <2>1, <3>1, <3>2, Zenon
  <2> QED
    BY <2>2, <2>3
<1>7. CASE userEnabled(c)
  <2>1. CASE GetMe(user[c])
    <3>1. Goto(c, "admitted") /\ user[c] \in Users /\ user[c] \in grants[c]
      BY <1>1, <1>7, <2>1, Zenon DEF userEnabled, GetMe, GetUserByID, RequestInv
    <3>2. at'[c] = "admitted" /\ user'[c] = user[c] /\ grants'[c] = grants[c] => RequestInv(c)'
      BY <3>1 DEF RequestInv, WithTransaction
    <3> QED
      BY <1>3, <1>7, <3>1, <3>2, GotoKeeps DEF Steps
  <2> QED
    BY <1>3, <1>7, <2>1, ReturnKeeps, Zenon DEF userEnabled
<1> QED
  BY <1>2, <1>5, <1>6, <1>7 DEF Middleware

(* The expiry of a row passes: no request has more than before.            *)
LEMMA LapseKeeps ==
  ASSUME IdInv, NEW x \in Transactions \cup Sessions \cup Tokens, Lapse(x)
  PROVE  IdInv'
<1>1. /\ lapsed' = lapsed \cup {x}
      /\ UNCHANGED <<disabled, password, txState, txUser, sessUser, revoked, origin, patUser, deleted>>
      /\ UNCHANGED <<at, arg, pw, cred, user, grants>>
  BY DEF Lapse, userVars, txVars, sessVars, tokenVars, requestVars
<1>2. RowTypes' /\ RowsForward
  BY <1>1 DEF IdInv, RowTypes, RowsForward
<1>3. SessionBacked'
  BY <1>1, <1>2, BackedKept
<1>4. RequestTypes'
  BY <1>1 DEF IdInv, RequestTypes
<1>5. \A c \in Requests : RequestInv(c)'
  BY <1>1, <1>2, OthersKeep
<1> QED
  BY <1>2, <1>3, <1>4, <1>5 DEF IdInv

-----------------------------------------------------------------------------
(* The invariant of the identity tables: the types, sessions with the      *)
(* login they come from, and what every request under way may rely on.     *)
THEOREM IdentityInvariant == Spec => []IdInv
<1>1. ASSUME IdInv, [Next]_vars PROVE IdInv'
  <2>1. CASE UNCHANGED vars
    <3>1. RowTypes' /\ RowsForward /\ SessionBacked'
      BY <1>1, <2>1, NothingWritten DEF vars
    <3>2. UNCHANGED <<at, arg, pw, cred, user, grants>>
      BY <2>1 DEF vars, requestVars
    <3>3. RequestTypes' /\ \A c \in Requests : RequestInv(c)'
      BY <1>1, <3>1, <3>2, OthersKeep DEF IdInv, RequestTypes
    <3> QED
      BY <3>1, <3>3 DEF IdInv
  <2>2. ASSUME NEW c \in Requests, Login(c) PROVE IdInv'
    BY <1>1, <2>2, LoginKeeps
  <2>3. ASSUME NEW c \in Requests, Middleware(c) PROVE IdInv'
    BY <1>1, <2>3, MiddlewareKeeps
  <2>4. ASSUME NEW c \in Requests, Handler(c) PROVE IdInv'
    <3>1. Return(c)
      BY <2>4 DEF Handler, SetPassword, Revoke, RevokeAll, CreatePAT, RevokePAT, DeleteMe, Admitted
    <3> QED
      BY <1>1, <2>4, <3>1, HandlersForward, ReturnKeeps
  <2>5. ASSUME NEW c \in Requests, Fails(c) PROVE IdInv'
    BY <1>1, <2>5, NothingWritten, ReturnKeeps DEF Fails
  <2>6. ASSUME NEW x \in Transactions \cup Sessions \cup Tokens, Lapse(x) PROVE IdInv'
    BY <1>1, <2>6, LapseKeeps
  <2> QED
    BY <1>1, <2>1, <2>2, <2>3, <2>4, <2>5, <2>6 DEF Next
<1> QED
  BY <1>1, IdInit, PTL DEF Spec

(* Every table and request has its type, a transaction its user, and a     *)
(* request what its next statement needs.                                  *)
THEOREM IdentityTypes == Spec => []TypeOK
<1>1. IdInv => TypeOK
  BY DEF IdInv, RowTypes, RequestTypes, RequestInv, TypeOK
<1> QED
  BY <1>1, IdentityInvariant, PTL

(* A session comes from a transaction that was authenticated for its user  *)
(* and that no later request can expire (ExpireAuthTransaction skips it).  *)
THEOREM SessionsAreBacked == Spec => []SessionBacked
<1>1. IdInv => SessionBacked
  BY Zenon DEF IdInv
<1> QED
  BY <1>1, IdentityInvariant, PTL

(* createSession and the handlers behind the middleware act for a user     *)
(* only with what was good for that user when the request arrived.         *)
THEOREM ActsAreGranted == Spec => []Granted
<1>1. IdInv => Granted
  BY Zenon DEF IdInv, RequestInv, Granted
<1> QED
  BY <1>1, IdentityInvariant, PTL

(* RevokeSession, RevokeToken and DisableUser hit rows of the user only    *)
(* for whom the request was admitted.                                      *)
THEOREM OnlyOwnersRevoke == Spec => OwnerRevokes
<1> DEFINE Owned == /\ \A s \in revoked' \ revoked : By(sessUser[s])
                    /\ \A k \in Tokens : patUser[k] # NoUser /\ patUser'[k] # patUser[k] => By(patUser[k])
                    /\ \A u \in disabled' \ disabled : By(u)
<1>1. ASSUME IdInv, [Next]_vars PROVE [Owned]_vars
  <2>1. CASE UNCHANGED <<revoked, patUser, disabled>>
    BY <2>1
  <2>2. ASSUME NEW c \in Requests, Handler(c) PROVE Owned
    <3>1. at[c] = "admitted" /\ at' = [at EXCEPT ![c] = "idle"]
      BY <2>2 DEF Handler, SetPassword, Revoke, RevokeAll, CreatePAT, RevokePAT, DeleteMe,
         Admitted, Return
    <3>2. By(user[c])
      BY <1>1, <3>1, Zenon DEF By, IdInv, RequestTypes
    <3>3. \A s \in revoked' \ revoked : sessUser[s] = user[c]
      <4>1. CASE Revoke(c)
        BY <4>1 DEF Revoke, RevokeSession
      <4>2. CASE RevokeAll(c)
        BY <4>2 DEF RevokeAll, RevokeUserSessions
      <4>3. CASE UNCHANGED revoked
        BY <4>3
      <4> QED
        BY <2>2, <4>1, <4>2, <4>3, Zenon DEF Handler, SetPassword, CreatePAT, RevokePAT, DeleteMe,
           sessVars
    <3>4. \A u \in disabled' \ disabled : u = user[c]
      BY <2>2, Zenon DEF Handler, SetPassword, Revoke, RevokeAll, CreatePAT, RevokePAT, DeleteMe,
         DisableUser, userVars
    <3>5. ASSUME NEW k \in Tokens, patUser[k] # NoUser, patUser'[k] # patUser[k] PROVE patUser[k] = user[c]
      <4>1. CASE CreatePAT(c)
        BY <1>1, <3>5, <4>1 DEF CreatePAT, CreateToken, IdInv, RowTypes
      <4>2. CASE RevokePAT(c)
        BY <1>1, <3>5, <4>2, Zenon DEF RevokePAT, RevokeToken, IdInv, RowTypes
      <4> QED
        BY <2>2, <3>5, <4>1, <4>2, Zenon DEF Handler, SetPassword, Revoke, RevokeAll, DeleteMe,
           tokenVars
    <3> QED
      BY <3>2, <3>3, <3>4, <3>5
  <2>3. ASSUME NEW c \in Requests, Login(c) \/ Middleware(c) \/ Fails(c)
        PROVE  UNCHANGED <<revoked, patUser, disabled>>
    BY <2>3, Zenon DEF Login, Start, Started, LoginWithPassword, SendOTP, VerifyOTP, Named,
       getValidTransaction,
       TransactionExpired, VerifyPassword, Mark, createSession, CreateAuthChallenge,
       GetActiveAuthChallenge,
       Middleware, Arrive, resolveBearer, resolveSession, userEnabled, Fails,
       rows, userVars, sessVars, tokenVars
  <2>4. ASSUME NEW x, Lapse(x) PROVE UNCHANGED <<revoked, patUser, disabled>>
    BY <2>4 DEF Lapse, userVars, sessVars, tokenVars
  <2>5. CASE UNCHANGED vars
    BY <2>5
  <2> QED
    BY <1>1, <2>1, <2>2, <2>3, <2>4, <2>5 DEF Next
<1> QED
  BY <1>1, IdentityInvariant, PTL DEF Spec, OwnerRevokes
=============================================================================
