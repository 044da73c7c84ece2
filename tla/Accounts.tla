------------------------------ MODULE Accounts ------------------------------
(***************************************************************************)
(* Accounts, refresh sessions and API keys: services/security and          *)
(* api/routers/auth_router.py.  Request handlers run in a thread pool, each *)
(* with a database session of its own; a step is the code up to and         *)
(* including one transaction.  The sessions are made with                   *)
(* expire_on_commit=False: a row is read once, kept in op[t].seen, and a    *)
(* commit writes the columns that differ from what was read, whatever the   *)
(* row holds by then.                                                       *)
(***************************************************************************)
EXTENDS Integers, Sequences, FiniteSets

CONSTANTS Users, Threads,
          Scenarios,        \* sets of requests; Init chooses one
          MaxFailedLogins, LockoutSeconds, AccessTTL, RefreshTTL, Leeway,
          MaxSessions,      \* bound: refresh sessions ever issued
          MaxTime           \* bound of the clock

Grants == [admin |-> {"read", "write", "execute", "manage_users"},
           editor |-> {"read", "write", "execute"},
           operator |-> {"read", "execute"},
           viewer |-> {"read"}]

Kinds == {"login", "refresh", "logout", "logout_all", "register", "create_user", "password",
          "update_user", "create_key", "revoke_key"}

(* A request: who sends it (by, with an API key unless key = 0), the user it *)
(* is about, the session or key it presents (ref) and what it asks for.  One *)
(* that makes an account names its role: "keep" stands for a field left out. *)
WellFormed(r) ==
    /\ r.kind \in Kinds /\ {r.by, r.user} \subseteq Users
    /\ {r.key, r.ref, r.pw, r.new} \subseteq Nat
    /\ r.active \in {"keep", "yes", "no"} /\ r.scopes \subseteq Grants.admin
    /\ r.kind \notin {"refresh", "logout", "revoke_key"} => r.ref = 0
    /\ r.kind \in {"register", "create_user"} => r.role # "keep"

AllRequests == UNION {s.requests : s \in Scenarios}

(* An account locks for some time at least; a database has an administrator. *)
ASSUME AccountsAssumption ==
    /\ IsFiniteSet(Threads)
    /\ {MaxFailedLogins, LockoutSeconds} \subseteq Nat \ {0}
    /\ {AccessTTL, RefreshTTL, Leeway, MaxSessions, MaxTime} \subseteq Nat
    /\ \A s \in Scenarios : s.admins # {} /\ s.admins \subseteq Users
    /\ \A r \in AllRequests : WellFormed(r)

VARIABLES now, users, sessions, keys, access, op, todo, audited, past

vars == <<now, users, sessions, keys, access, op, todo, audited, past>>

-----------------------------------------------------------------------------
(* Rows.  locked = 0 stands for NULL; pw numbers the passwords of a user.    *)

UserRow == [exists: BOOLEAN, role: DOMAIN Grants, active: BOOLEAN,
            pw: Nat, failed: Nat, locked: Nat]

NoUser == [exists |-> FALSE, role |-> "viewer", active |-> FALSE,
           pw |-> 0, failed |-> 0, locked |-> 0]

(* born, parent and late are history: the password the session goes back to, *)
(* the session it was rotated from, and whether the request that issued it   *)
(* was under way when the sessions of its user were revoked.                 *)
Session == [user: Users, expires: Nat, revoked: BOOLEAN,
            born: Nat, parent: Nat, late: BOOLEAN]

ApiKey == [user: Users, scopes: SUBSET Grants.admin, active: BOOLEAN, expires: Nat]

Live(s) == ~sessions[s].revoked

(* Principal.permissions: a scoped key narrows what the role grants.         *)
Permissions(role, scopes) ==
    IF scopes = {} THEN Grants[role] ELSE Grants[role] \cap scopes

(* Tokens: signatures hold, so a token is its type and its expiry.           *)
encode_token(typ, ttl) == [typ |-> typ, exp |-> now + ttl]
NoToken == [typ |-> "none", exp |-> 0]

decode_token(token, typ, verify_exp) ==
    token.typ = typ /\ (verify_exp => token.exp + Leeway >= now)

RefreshToken(s) == [typ |-> "refresh", exp |-> sessions[s].expires]

(* What db.commit() leaves in a row: the columns changed since it was read.  *)
Flushed(row, read, new) ==
    [c \in DOMAIN row |-> IF new[c] # read[c] THEN new[c] ELSE row[c]]

-----------------------------------------------------------------------------
(* Handlers, each the list of its transactions.  op[t].rest is what is left   *)
(* of the list of the request that thread t serves.                          *)

login == <<"load", "check", "verify", "issue">>
refresh == <<"session", "claim", "account", "issue">>
logout == <<"session", "logout">>
logout_all == <<"resolve", "revoke_all">>
register == <<"register", "insert">>
create_user == <<"resolve", "register", "insert">>
create_api_key == <<"resolve", "create_key">>
revoke_api_key == <<"resolve", "revoke_key">>

(* Mistake: the sessions are revoked before the password is written.         *)
change_password_late == <<"resolve", "check", "verify", "revoke_all", "set_password">>
change_password == <<"resolve", "check", "verify", "set_password", "revoke_all">>

update_user == <<"resolve", "target", "set_role", "set_active", "revoke_all">>

Handler(kind) ==
    CASE kind = "login" -> login           [] kind = "refresh" -> refresh
      [] kind = "logout" -> logout         [] kind = "logout_all" -> logout_all
      [] kind = "register" -> register     [] kind = "create_user" -> create_user
      [] kind = "password" -> change_password
      [] kind = "update_user" -> update_user
      [] kind = "create_key" -> create_api_key
      [] kind = "revoke_key" -> revoke_api_key

NoRequest == [kind |-> "none"]

Idle == [rest |-> <<>>, req |-> NoRequest, user |-> 0, seen |-> NoUser, ref |-> 0,
         born |-> 0, late |-> FALSE]

At(t, step) == op[t].rest # <<>> /\ Head(op[t].rest) = step
Advanced(o) == IF Len(o.rest) > 1 THEN [o EXCEPT !.rest = Tail(@)] ELSE Idle
Advance(t) == op' = [op EXCEPT ![t] = Advanced(@)]
Finish(t) == op' = [op EXCEPT ![t] = Idle]

Begin(t, r) ==
    /\ op[t] = Idle /\ r \in todo
    /\ todo' = todo \ {r}
    /\ op' = [op EXCEPT ![t] = [Idle EXCEPT !.rest = Handler(r.kind), !.req = r,
                                           !.user = r.user, !.ref = r.ref]]
    /\ UNCHANGED <<now, users, sessions, keys, access, audited, past>>

-----------------------------------------------------------------------------
(* authenticate(): read the row, look at the lock, verify, write.  A change  *)
(* of password enters with the row its principal was resolved from.          *)

Raced(u) == \E t \in Threads : /\ op[t].user = u /\ op[t].seen # NoUser
                              /\ \E i \in DOMAIN op[t].rest :
                                     op[t].rest[i] \in {"verify", "set_password"}

LoginLoad(t) ==
    LET u == op[t].user IN
    /\ At(t, "load")
    /\ IF users[u].exists
       THEN /\ op' = [op EXCEPT ![t] = [Advanced(@) EXCEPT !.seen = users[u]]]
            /\ past' = [past EXCEPT !.raced = @ \cup {v \in {u} : Raced(v)}]
       ELSE Finish(t) /\ UNCHANGED past
    /\ UNCHANGED <<now, users, sessions, keys, access, todo, audited>>

CheckLock(t) ==
    /\ At(t, "check")
    /\ IF op[t].seen.locked > now THEN Finish(t) ELSE Advance(t)
    /\ UNCHANGED <<now, users, sessions, keys, access, todo, audited, past>>

(* Mistake: a correct password leaves the count of failures as it was.       *)
AfterLoginKeepsCount(row) == [row EXCEPT !.locked = 0]

(* The row of a user whose password was right: counters cleared.             *)
AfterLogin(row) == [row EXCEPT !.failed = 0, !.locked = 0]

(* _register_failure(): one more failure, and a lock from the limit on.      *)
AfterFailure(row) ==
    [row EXCEPT !.failed = @ + 1,
                !.locked = IF row.failed + 1 >= MaxFailedLogins
                           THEN now + LockoutSeconds ELSE @]

LockedNow(new) == new.failed >= MaxFailedLogins

WrongPassword(t) ==
    LET u == op[t].user
        new == AfterFailure(op[t].seen) IN
    /\ At(t, "verify") /\ op[t].req.pw # op[t].seen.pw
    /\ users' = [users EXCEPT ![u] = Flushed(@, op[t].seen, new)]
    /\ past' = [past EXCEPT !.strikes[u] = @ + 1,
                            !.locks[u] = @ + (IF users'[u].locked > now THEN 1 ELSE 0)]
    /\ IF LockedNow(new) THEN op' = [op EXCEPT ![t].rest = <<"audit">>] ELSE Finish(t)
    /\ UNCHANGED <<now, sessions, keys, access, todo, audited>>

(* The audit row of a lock; a failed write is logged and forgotten.          *)
AuditLock(t) ==
    /\ At(t, "audit")
    /\ \E written \in {0, 1} : audited' = [audited EXCEPT ![op[t].user] = @ + written]
    /\ Finish(t)
    /\ UNCHANGED <<now, users, sessions, keys, access, todo, past>>

RightPassword(t) ==
    LET u == op[t].user IN
    /\ At(t, "verify") /\ op[t].req.pw = op[t].seen.pw
    /\ IF op[t].seen.active
       THEN /\ users' = [users EXCEPT ![u] = Flushed(@, op[t].seen, AfterLogin(op[t].seen))]
            /\ past' = [past EXCEPT !.strikes[u] = 0]
            /\ op' = [op EXCEPT ![t] = [Advanced(@) EXCEPT !.seen = users'[u],
                                                        !.born = op[t].req.pw]]
       ELSE Finish(t) /\ UNCHANGED <<users, past>>
    /\ UNCHANGED <<now, sessions, keys, access, todo, audited>>

(* issue_token_pair(): an access token, and a refresh token with its row.    *)
Issue(t) ==
    /\ At(t, "issue")
    /\ Cardinality(DOMAIN sessions) < MaxSessions
    /\ LET s == Cardinality(DOMAIN sessions) + 1
           row == [user |-> op[t].user, revoked |-> FALSE,
                   expires |-> encode_token("refresh", RefreshTTL).exp,
                   born |-> op[t].born, parent |-> op[t].ref, late |-> op[t].late]
       IN sessions' = [i \in 1..s |-> IF i = s THEN row ELSE sessions[i]]
    /\ access' = [access EXCEPT ![op[t].user] = encode_token("access", AccessTTL)]
    /\ Finish(t)
    /\ UNCHANGED <<now, users, keys, todo, audited, past>>

-----------------------------------------------------------------------------
(* rotate_refresh_token() and revoke_refresh_token().                        *)

SessionLoad(t) ==
    LET s == op[t].ref
        refreshing == op[t].req.kind = "refresh" IN
    /\ At(t, "session")
    /\ IF /\ s \in DOMAIN sessions /\ decode_token(RefreshToken(s), "refresh", refreshing)
          /\ IF refreshing THEN sessions[s].expires > now ELSE Live(s)
       THEN op' = [op EXCEPT ![t] = [Advanced(@) EXCEPT
                      !.user = sessions[s].user, !.born = sessions[s].born,
                      !.late = op[t].late \/ sessions[s].late]]
       ELSE Finish(t)
    /\ UNCHANGED <<now, users, sessions, keys, access, todo, audited, past>>

(* Mistake: the claim is an unconditional update of a session read as live.  *)
ClaimUnguarded(t) ==
    LET s == op[t].ref IN
    /\ At(t, "claim")
    /\ sessions' = [sessions EXCEPT ![s].revoked = TRUE]
    /\ Advance(t)
    /\ UNCHANGED <<now, users, keys, access, todo, audited, past>>

(* UPDATE ... WHERE revoked_at IS NULL: one of the callers wins.             *)
Claim(t) ==
    LET s == op[t].ref IN
    /\ At(t, "claim")
    /\ sessions' = [sessions EXCEPT ![s].revoked = TRUE]
    /\ IF Live(s) THEN Advance(t) ELSE op' = [op EXCEPT ![t].rest = <<"revoke_all">>]
    /\ UNCHANGED <<now, users, keys, access, todo, audited, past>>

(* Whether the account is still active, before the new pair is issued.       *)
Account(t) ==
    /\ At(t, "account")
    /\ IF users[op[t].user].active THEN Advance(t) ELSE Finish(t)
    /\ UNCHANGED <<now, users, sessions, keys, access, todo, audited, past>>

Logout(t) ==
    /\ At(t, "logout")
    /\ sessions' = [sessions EXCEPT ![op[t].ref].revoked = TRUE]
    /\ Finish(t)
    /\ UNCHANGED <<now, users, keys, access, todo, audited, past>>

(* revoke_all_sessions(), the last transaction of four different requests.   *)
RevokeAll(t) ==
    LET u == op[t].user IN
    /\ At(t, "revoke_all")
    /\ sessions' = [s \in DOMAIN sessions |->
                      [sessions[s] EXCEPT !.revoked = @ \/ sessions[s].user = u]]
    /\ op' = [x \in Threads |-> IF x = t THEN Advanced(op[t]) ELSE
                IF op[x].user = u THEN [op[x] EXCEPT !.late = TRUE] ELSE op[x]]
    /\ UNCHANGED <<now, users, keys, access, todo, audited, past>>

-----------------------------------------------------------------------------
(* Requests of a signed-in caller: get_principal() and the permission check. *)

Needed(kind) == IF kind \in {"update_user", "create_user"} THEN "manage_users" ELSE "read"

(* The caller's row is read anew for every request, by token or by key.      *)
principal_from_access_token(u) ==
    decode_token(access[u], "access", TRUE) /\ users[u].active

principal_from_api_key(u, k) ==
    /\ k \in DOMAIN keys /\ keys[k].user = u
    /\ keys[k].active /\ keys[k].expires > now
    /\ users[u].active

get_principal(r) == IF r.key = 0 THEN principal_from_access_token(r.by)
                    ELSE principal_from_api_key(r.by, r.key)

require_permission(r) ==
    Needed(r.kind) \in Permissions(users[r.by].role, IF r.key = 0 THEN {} ELSE keys[r.key].scopes)

Resolve(t) ==
    LET r == op[t].req IN
    /\ At(t, "resolve")
    /\ IF get_principal(r) /\ require_permission(r)
       THEN /\ op' = [op EXCEPT ![t] = [Advanced(@) EXCEPT
                        !.seen = users[r.by],
                        !.user = IF Needed(r.kind) = "manage_users" THEN r.user ELSE r.by]]
            /\ past' = [past EXCEPT
                          !.raced = @ \cup {v \in {r.by} : r.kind = "password" /\ Raced(v)},
                          !.overlapped = @ \/ (r.kind = "update_user" /\
                               \E x \in Threads, step \in {"target", "set_role", "set_active"} :
                                   At(x, step))]
       ELSE Finish(t) /\ UNCHANGED past
    /\ UNCHANGED <<now, users, sessions, keys, access, todo, audited>>

(* set_password(): the new hash and clear counters, then the revocation.     *)
SetPassword(t) ==
    LET u == op[t].user
        new == [AfterLogin(op[t].seen) EXCEPT !.pw = op[t].req.new] IN
    /\ At(t, "set_password")
    /\ users' = [users EXCEPT ![u] = Flushed(@, op[t].seen, new)]
    /\ past' = [past EXCEPT !.strikes[u] = 0]
    /\ Advance(t)
    /\ UNCHANGED <<now, sessions, keys, access, todo, audited>>

(* Mistake: only deactivating oneself is refused.                            *)
OwnAccountLoose(r) == r.by = r.user /\ r.active = "no"

(* An administrator may not deactivate or demote their own account.          *)
OwnAccount(r) ==
    r.by = r.user /\ (r.active = "no" \/ r.role \notin {"keep", users[r.user].role})

(* validate_role(): the roles that grant something; "keep" asks for none.    *)
ValidRole(role) == role \in DOMAIN Grants \cup {"keep"}

RejectRole(t) ==
    /\ At(t, "register") \/ At(t, "set_role")
    /\ ~ValidRole(op[t].req.role)
    /\ Finish(t)
    /\ UNCHANGED <<now, users, sessions, keys, access, todo, audited, past>>

(* update_user(): each of its two changes is a transaction, after which the  *)
(* row is read again.                                                        *)
UpdateTarget(t) ==
    LET r == op[t].req IN
    /\ At(t, "target")
    /\ IF ~users[r.user].exists \/ OwnAccount(r) THEN Finish(t)
       ELSE op' = [op EXCEPT ![t] = [Advanced(@) EXCEPT !.seen = users[r.user]]]
    /\ UNCHANGED <<now, users, sessions, keys, access, todo, audited, past>>

SetRole(t) ==
    LET r == op[t].req
        new == [op[t].seen EXCEPT !.role = IF r.role = "keep" THEN @ ELSE r.role] IN
    /\ At(t, "set_role") /\ ValidRole(r.role)
    /\ users' = [users EXCEPT ![r.user] = Flushed(@, op[t].seen, new)]
    /\ IF r.active = "keep" THEN Finish(t)
       ELSE op' = [op EXCEPT ![t] = [Advanced(@) EXCEPT !.seen = users'[r.user]]]
    /\ UNCHANGED <<now, sessions, keys, access, todo, audited, past>>

SetActive(t) ==
    LET r == op[t].req
        new == [op[t].seen EXCEPT !.active = (r.active = "yes")] IN
    /\ At(t, "set_active")
    /\ users' = [users EXCEPT ![r.user] = Flushed(@, op[t].seen, new)]
    /\ IF r.active = "no" THEN Advance(t) ELSE Finish(t)
    /\ UNCHANGED <<now, sessions, keys, access, todo, audited, past>>

(* create_user(): a look for the name, then the insertion, where the unique  *)
(* index has the last word.                                                  *)
NameTaken(t) ==
    /\ At(t, "register") \/ At(t, "insert")
    /\ users[op[t].user].exists
    /\ Finish(t)
    /\ UNCHANGED <<now, users, sessions, keys, access, todo, audited, past>>

NameFree(t) ==
    /\ At(t, "register") /\ ~users[op[t].user].exists /\ ValidRole(op[t].req.role)
    /\ Advance(t)
    /\ UNCHANGED <<now, users, sessions, keys, access, todo, audited, past>>

InsertUser(t) ==
    LET u == op[t].user IN
    /\ At(t, "insert") /\ ~users[u].exists
    /\ users' = [users EXCEPT ![u] = [NoUser EXCEPT !.exists = TRUE, !.active = TRUE,
                                                    !.role = op[t].req.role]]
    /\ Finish(t)
    /\ UNCHANGED <<now, sessions, keys, access, todo, audited, past>>

CreateKey(t) ==
    /\ At(t, "create_key")
    /\ LET k == Cardinality(DOMAIN keys) + 1
           row == [user |-> op[t].user, scopes |-> op[t].req.scopes, active |-> TRUE,
                   expires |-> now + op[t].req.new]
       IN keys' = [i \in 1..k |-> IF i = k THEN row ELSE keys[i]]
    /\ Finish(t)
    /\ UNCHANGED <<now, users, sessions, access, todo, audited, past>>

(* revoke_api_key(): only a key of the caller's own.                         *)
RevokeKey(t) ==
    LET k == op[t].req.ref IN
    /\ At(t, "revoke_key")
    /\ keys' = IF k \in DOMAIN keys /\ keys[k].user = op[t].user
               THEN [keys EXCEPT ![k].active = FALSE] ELSE keys
    /\ Finish(t)
    /\ UNCHANGED <<now, users, sessions, access, todo, audited, past>>

Tick ==
    /\ now < MaxTime
    /\ now' = now + 1
    /\ UNCHANGED <<users, sessions, keys, access, op, todo, audited, past>>

-----------------------------------------------------------------------------
(* A database with its first administrator (bootstrap_admin) and whatever    *)
(* other accounts the scenario starts with.                                  *)
Init ==
    /\ now = 1
    /\ \E s \in Scenarios :
         /\ todo = s.requests
         /\ users = [u \in Users |->
              IF u \in s.admins
              THEN [NoUser EXCEPT !.exists = TRUE, !.active = TRUE, !.role = "admin"]
              ELSE NoUser]
         /\ access = [u \in Users |-> IF u \in s.admins
                                       THEN encode_token("access", AccessTTL) ELSE NoToken]
    /\ sessions = <<>> /\ keys = <<>>
    /\ op = [t \in Threads |-> Idle]
    /\ audited = [u \in Users |-> 0]
    /\ past = [strikes |-> [u \in Users |-> 0], locks |-> [u \in Users |-> 0],
               raced |-> {}, overlapped |-> FALSE]

Step(t) ==
    \/ LoginLoad(t) \/ CheckLock(t) \/ WrongPassword(t) \/ AuditLock(t)
    \/ RightPassword(t) \/ Issue(t)
    \/ SessionLoad(t) \/ Claim(t) \/ Account(t) \/ Logout(t) \/ RevokeAll(t)
    \/ Resolve(t) \/ SetPassword(t) \/ UpdateTarget(t) \/ RejectRole(t)
    \/ SetRole(t) \/ SetActive(t)
    \/ NameTaken(t) \/ NameFree(t) \/ InsertUser(t) \/ CreateKey(t) \/ RevokeKey(t)

Next ==
    \/ \E t \in Threads : Step(t) \/ \E r \in todo : Begin(t, r)
    \/ Tick

Spec == Init /\ [][Next]_vars

-----------------------------------------------------------------------------
Steps == {"load", "check", "verify", "issue", "session", "claim", "account", "logout",
          "resolve", "revoke_all", "register", "insert", "create_key", "revoke_key",
          "set_password", "target", "set_role", "set_active", "audit"}

Token == [typ: {"none", "access", "refresh"}, exp: Nat]

Operation == [rest: Seq(Steps), req: AllRequests \cup {NoRequest}, user: Users \cup {0},
              seen: UserRow, ref: Nat, born: Nat, late: BOOLEAN]

Past == [strikes: [Users -> Nat], locks: [Users -> Nat], raced: SUBSET Users,
         overlapped: BOOLEAN]

TypeOK ==
    /\ now \in Nat \ {0}
    /\ users \in [Users -> UserRow]
    /\ sessions \in [1..Cardinality(DOMAIN sessions) -> Session]
    /\ Cardinality(DOMAIN sessions) \in 0..MaxSessions /\ Cardinality(DOMAIN keys) \in Nat
    /\ keys \in [1..Cardinality(DOMAIN keys) -> ApiKey]
    /\ access \in [Users -> Token]
    /\ op \in [Threads -> Operation]
    /\ todo \subseteq AllRequests
    /\ audited \in [Users -> Nat] /\ past \in Past

(* A refresh token is exchanged at most once, however many clients present   *)
(* it at the same time, and is dead from then on.                            *)
SingleRotation ==
    \A s \in DOMAIN sessions : sessions[s].parent # 0 =>
        /\ ~Live(sessions[s].parent)
        /\ \A o \in DOMAIN sessions : sessions[o].parent = sessions[s].parent => o = s

(* A change of password ends the sessions that go back to the old one: those *)
(* left were issued by requests under way at the moment of the revocation.   *)
PasswordEndsSessions ==
    \A s \in DOMAIN sessions : LET u == sessions[s].user IN
        \/ ~Live(s) \/ sessions[s].late \/ sessions[s].born = users[u].pw
        \/ \E t \in Threads : At(t, "revoke_all") /\ op[t].user = u

(* A deactivated user keeps no session, with the same exception.             *)
InactiveHasNoSession ==
    \A s \in DOMAIN sessions : LET u == sessions[s].user IN
        \/ ~Live(s) \/ sessions[s].late \/ users[u].active
        \/ \E t \in Threads : At(t, "revoke_all") /\ op[t].user = u

(* A session outlives neither the password nor the account it was issued for. *)
SessionsRevoked == TypeOK /\ PasswordEndsSessions /\ InactiveHasNoSession

(* Unless two requests wrote the same account at once, its row counts every  *)
(* wrong password since the last right one, and locks at the limit.          *)
FailuresCounted ==
    \A u \in Users \ past.raced :
        /\ users[u].failed = past.strikes[u]
        /\ users[u].failed >= MaxFailedLogins => users[u].locked # 0

(* The audit trail tells of no lock that was not committed.                  *)
AuditedLocksHappened ==
    \A u \in Users :
        audited[u] + Cardinality({t \in Threads : At(t, "audit") /\ op[t].user = u})
            <= past.locks[u]

(* Failed logins: account rows and audit trail tell of what happened.        *)
FailureBooks == FailuresCounted /\ AuditedLocksHappened

(* Somebody can always manage users, as long as no two administrators change *)
(* accounts at the same moment.                                              *)
SomeAdmin == \E u \in Users : users[u].active /\ users[u].role = "admin"
AdminRemains == past.overlapped \/ SomeAdmin

-----------------------------------------------------------------------------
(* The inductive invariant.  What each thread has read, claimed and checked  *)
(* is, until it acts on it, still true of the tables, or its request is one  *)
(* of those the properties except.                                           *)

(* The step after step in a request's list; "end" follows the last.          *)
Goes(kind, step, next) ==
    \/ step = "load" /\ kind = "login" /\ next = "check"
    \/ step = "check" /\ kind \in {"login", "password"} /\ next = "verify"
    \/ step = "verify" /\ kind = "login" /\ next = "issue"
    \/ step = "verify" /\ kind = "password" /\ next = "set_password"
    \/ step = "set_password" /\ kind = "password" /\ next = "revoke_all"
    \/ step = "session" /\ kind = "refresh" /\ next = "claim"
    \/ step = "claim" /\ kind = "refresh" /\ next = "account"
    \/ step = "account" /\ kind = "refresh" /\ next = "issue"
    \/ step = "issue" /\ kind \in {"login", "refresh"} /\ next = "end"
    \/ step = "session" /\ kind = "logout" /\ next = "logout"
    \/ step = "resolve" /\ kind = "password" /\ next = "check"
    \/ step = "resolve" /\ kind = "logout_all" /\ next = "revoke_all"
    \/ step = "resolve" /\ kind = "create_user" /\ next = "register"
    \/ step = "resolve" /\ kind = "update_user" /\ next = "target"
    \/ step = "resolve" /\ kind = "create_key" /\ next = "create_key"
    \/ step = "resolve" /\ kind = "revoke_key" /\ next = "revoke_key"
    \/ step = "register" /\ kind \in {"register", "create_user"} /\ next = "insert"
    \/ step = "target" /\ kind = "update_user" /\ next = "set_role"
    \/ step = "set_role" /\ kind = "update_user" /\ next = "set_active"
    \/ step = "set_active" /\ kind = "update_user" /\ next = "revoke_all"
    \/ step \in {"logout", "revoke_all", "insert", "create_key", "revoke_key", "audit"}
         /\ next = "end"

InFlow ==
    \A t \in Threads : LET f == op[t].rest IN
        /\ f # <<>> => /\ op[t].req \in AllRequests /\ op[t].user \in Users
                       /\ op[t].ref = op[t].req.ref
        /\ \A i \in DOMAIN f :
               Goes(op[t].req.kind, f[i], IF i < Len(f) THEN f[i + 1] ELSE "end")

(* What a thread has found out holds: rows are never deleted.                *)
Writing(t) == At(t, "check") \/ At(t, "verify") \/ At(t, "set_password")
Updating(t) == At(t, "target") \/ At(t, "set_role") \/ At(t, "set_active")

Found(t) == LET o == op[t] IN
    /\ Writing(t) => o.seen.exists /\ users[o.user].exists
    /\ At(t, "verify") => o.seen.locked <= now
    /\ At(t, "insert") => o.req.role \in DOMAIN Grants
    /\ Updating(t) => o.user = o.req.user
    /\ At(t, "set_role") \/ At(t, "set_active") => users[o.user].exists

FoundOut == /\ \A u \in Users : users[u].exists \/ users[u] = NoUser
            /\ \A t \in Threads : Found(t)

(* A thread that has claimed a session is the only one, and the session has  *)
(* no successor yet.                                                         *)
Claimed(t) == At(t, "account") \/ (At(t, "issue") /\ op[t].req.kind = "refresh")

Holds(t) ==
    /\ At(t, "claim") \/ At(t, "logout") \/ Claimed(t) => op[t].ref \in DOMAIN sessions
    /\ Claimed(t) => /\ ~Live(op[t].ref)
                     /\ \A s \in DOMAIN sessions : sessions[s].parent # op[t].ref

ClaimsExclusive ==
    /\ \A s \in DOMAIN sessions : sessions[s].parent \in {0} \cup DOMAIN sessions
    /\ \A t \in Threads : Holds(t)
    /\ \A t, x \in Threads : Claimed(t) /\ Claimed(x) /\ op[t].ref = op[x].ref => t = x

(* What a thread goes by when it issues a session still holds, or every      *)
(* session of its user is about to be revoked, or was while it was at work.  *)
Revoking(u) == \E t \in Threads : At(t, "revoke_all") /\ op[t].user = u
Excepted(t) == op[t].late \/ Revoking(op[t].user)

Knows(t) == LET o == op[t] IN
    /\ At(t, "check") \/ At(t, "verify") =>
           \/ Excepted(t)
           \/ o.seen.pw = users[o.user].pw /\ (o.seen.active => users[o.user].active)
    /\ At(t, "claim") => LET row == sessions[o.ref] IN
           row.user = o.user /\ row.born = o.born /\ (row.late => o.late)
    /\ At(t, "account") => Excepted(t) \/ o.born = users[o.user].pw
    /\ At(t, "issue") => Excepted(t) \/ (o.born = users[o.user].pw /\ users[o.user].active)

IssuersKnow == \A t \in Threads : Knows(t)

(* A user that is not excepted has at most one writer of its counters, and   *)
(* they are as it read them.                                                 *)
WritesAlone(t) ==
    Writing(t) /\ op[t].user \notin past.raced =>
        /\ op[t].seen.failed = users[op[t].user].failed
        /\ op[t].seen.locked = users[op[t].user].locked
        /\ \A x \in Threads : Writing(x) /\ op[x].user = op[t].user => x = t

WritersAlone == \A t \in Threads : WritesAlone(t)

(* An administrator who changes an account is alone and keeps their own.     *)
KeepsAdmin(t) == LET r == op[t].req IN
    /\ At(t, "set_active") => r.active # "keep"
    /\ Updating(t) /\ ~past.overlapped =>
         /\ users[r.by].active /\ users[r.by].role = "admin"
         /\ ~At(t, "target") /\ r.by = r.user =>
                r.active # "no" /\ r.role \in {"keep", "admin"}
         /\ \A x \in Threads : Updating(x) => x = t

UpdatersKeepAdmin == \A t \in Threads : KeepsAdmin(t)

AccountsInv ==
    /\ TypeOK /\ InFlow /\ FoundOut
    /\ ClaimsExclusive /\ SingleRotation
    /\ IssuersKnow /\ PasswordEndsSessions /\ InactiveHasNoSession
    /\ WritersAlone /\ FailuresCounted /\ AuditedLocksHappened
    /\ UpdatersKeepAdmin /\ AdminRemains

=============================================================================
