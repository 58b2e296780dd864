-------------------------------- MODULE Access --------------------------------
(***************************************************************************)
(* Who may act in the gateway: logins and their lockout, sessions and the  *)
(* rotation of refresh tokens, API keys and their nonces, and the checks   *)
(* an authenticated request passes.  PostgreSQL decides; Redis caches      *)
(* revoked sessions, rotated tokens and used nonces, and every error of    *)
(* Redis is dropped.  A request goroutine is an element of Handlers; a     *)
(* step is one statement, or the COMMIT of a transaction.  A refresh token *)
(* is the pair of its user and the second it was signed in: GenerateJWT    *)
(* puts nothing else into it.  The horizon is a few minutes: no session,   *)
(* lock or cache entry reaches the end of its lifetime, but Redis may lose *)
(* what it holds.                                                          *)
(***************************************************************************)
EXTENDS Integers, FiniteSets, FiniteSetsExt

CONSTANTS
    Users,
    Handlers,      \* request goroutines of the gateway
    Sids,          \* bound: session ids, in the order of created_at
    Keys,          \* bound: API keys
    Nonces,        \* X-NONCE values of signed requests
    IP,            \* the address all clients share, an identity of the lockout
    NoUser,
    MaxSessions,   \* 5 in CreateSession
    MaxFailures,   \* 5 in RecordLockoutFailure
    MaxSeconds,    \* bound: clock
    MaxRequests,   \* bound: requests
    MaxFaults      \* bound: failing calls, losses of Redis and restarts of the gateway

ASSUME AccessAssumption ==
    /\ Sids \subseteq Nat \ {0}
    /\ Nonces \subseteq Nat \ {0}
    /\ IP \notin Users
    /\ NoUser \notin Users
    /\ MaxSessions \in Nat \ {0}
    /\ MaxFailures \in Nat \ {0}
    /\ {MaxSeconds, MaxRequests, MaxFaults} \subseteq Nat

VARIABLES
    \* PostgreSQL
    owner,      \* user_sessions.user_id, NoUser without a row
    hash,       \* user_sessions.refresh_token_hash
    revoked,    \* sessions with is_revoked
    keyOwner,   \* user_api_keys.user_id, NoUser without a row
    deadKeys,   \* API keys with is_revoked
    failed,     \* brute_force_lockouts.failed_attempts, -1 without a row
    locked,     \* identities with a locked_until in the future
    suspended,  \* users whose status is SUSPENDED, LOCKED or DELETED
    \* Redis
    revokedSession, rotatedToken, nonceUsed,
    \* the gateway
    run,        \* the request of each handler and its local variables
    lastSid, now, requests, faults,
    \* history
    issued,     \* how often each refresh token was handed out
    aborted,    \* tokens whose rotation was rolled back
    raced,      \* identities whose logins have overlapped
    failures,   \* failed logins of each identity since it last succeeded
    served,     \* accepted signed requests of each key and nonce
    excused     \* keys and nonces whose Redis calls overlapped or failed

sessions == <<owner, hash, revoked>>
apiKeys  == <<keyOwner, deadKeys>>
lockouts == <<failed, locked, failures, raced>>
tokens   == <<rotatedToken, issued, aborted>>
signing  == <<nonceUsed, served, excused>>
bounds   == <<now, requests>>
vars     == <<sessions, apiKeys, lockouts, suspended, revokedSession, tokens, signing,
              run, lastSid, bounds, faults>>

Identities == Users \cup {IP}
Tokens     == Users \X (0..MaxSeconds)
NoToken    == <<NoUser, 0>>
Uses       == Keys \X Nonces   \* IsNonceReused's Redis key has both

(* "use": a route behind RBACMiddleware; "open": one without (orders of    *)
(* /trading, MFA, KYC).                                                    *)
SessionOps == {"use", "open", "logout", "logoutAll", "delete", "createKey", "revokeKey"}
Ops        == SessionOps \cup {"login", "badLogin", "refresh", "signed"}
LoginPcs   == {"check", "readEmail", "writeEmail", "readIP", "writeIP", "reset", "count", "writeLogin", "insert"}
RotatePcs  == {"writeRotate", "rotate", "final"}
ServePcs   == {"rbac", "serve", "select", "selectAll", "writeRevoke", "writeAll", "commit"}
AuthPcs    == {"cache", "db", "rotated", "reuse", "lookup", "nonceGet", "nonceSet", "keyLookup"}
Pcs        == LoginPcs \cup RotatePcs \cup ServePcs \cup AuthPcs \cup {"idle"}

(* user: of the claims, NoUser without; item: the session or key acted upon; ids: the *)
(* sessions selected, from the write on those revoked by the transaction;  *)
(* dead: what the request relies on and was revoked when it arrived.       *)
Run == [pc : Pcs, op : Ops, user : Users \cup {NoUser}, sid : Sids \cup {0}, item : Sids \cup Keys \cup {0},
        token : Tokens \cup {NoToken}, nonce : Nonces \cup {0}, ids : SUBSET Sids,
        count : Nat \cup {-1}, dead : SUBSET (Sids \cup Keys)]

IdleRun == [pc |-> "idle", op |-> "use", user |-> NoUser, sid |-> 0, item |-> 0, token |-> NoToken,
            nonce |-> 0, ids |-> {}, count |-> -1, dead |-> {}]

TypeOK ==
    /\ owner \in [Sids -> Users \cup {NoUser}]
    /\ hash \in [Sids -> Tokens \cup {NoToken}]
    /\ revoked \subseteq Sids
    /\ keyOwner \in [Keys -> Users \cup {NoUser}]
    /\ deadKeys \subseteq Keys
    /\ failed \in [Identities -> Nat \cup {-1}]
    /\ locked \subseteq Identities
    /\ suspended \subseteq Users
    /\ revokedSession \subseteq Sids
    /\ rotatedToken \subseteq Tokens
    /\ nonceUsed \subseteq Uses
    /\ run \in [Handlers -> Run]
    /\ lastSid \in Sids \cup {0}
    /\ now \in 0..MaxSeconds
    /\ requests \in 0..MaxRequests
    /\ faults \in 0..MaxFaults

Init ==
    /\ owner = [s \in Sids |-> NoUser]
    /\ hash = [s \in Sids |-> NoToken]
    /\ keyOwner = [k \in Keys |-> NoUser]
    /\ failed = [i \in Identities |-> -1]
    /\ revoked = {} /\ deadKeys = {} /\ locked = {} /\ suspended = {}
    /\ revokedSession = {} /\ rotatedToken = {} /\ nonceUsed = {}
    /\ run = [h \in Handlers |-> IdleRun]
    /\ lastSid = 0 /\ now = 0 /\ requests = 0 /\ faults = 0
    /\ issued = [t \in Tokens |-> 0]
    /\ aborted = {} /\ raced = {} /\ excused = {}
    /\ failures = [i \in Identities |-> 0]
    /\ served = [n \in Uses |-> 0]

-------------------------------------------------------------------------------
At(h, p)     == run[h].pc = p
Goto(h, p)   == run' = [run EXCEPT ![h].pc = p]
Answer(h)    == run' = [run EXCEPT ![h] = IdleRun]

Stored       == {s \in Sids : owner[s] # NoUser}
SessionsOf(u) == {s \in Stored : owner[s] = u}
Active(u)    == SessionsOf(u) \ revoked
Holding(t)   == {s \in Stored : hash[s] = t}

Fault   == faults < MaxFaults /\ faults' = faults + 1
NoFault == faults' = faults

(* A Redis SET whose error is dropped; a GET whose error counts as a miss. *)
RedisSet(set, new, elems) == \/ NoFault /\ new = set \cup elems
                             \/ elems # {} /\ Fault /\ new = set
RedisHit(set, e)  == e \in set /\ NoFault
RedisMiss(set, e) == IF e \in set THEN Fault ELSE NoFault

-------------------------------------------------------------------------------
(* Requests arrive with credentials the gateway has handed out. *)

Arrive(h, r) ==
    /\ At(h, "idle")
    /\ requests < MaxRequests
    /\ requests' = requests + 1
    /\ run' = [run EXCEPT ![h] = r]
    /\ UNCHANGED <<sessions, apiKeys, failed, locked, failures, suspended, revokedSession, tokens,
                   signing, lastSid, now, faults>>

LoggingIn(i) == {h \in Handlers : run[h].pc \in LoginPcs /\ i \in {IP, run[h].user}}

Login(h, u, good) ==
    /\ Arrive(h, [IdleRun EXCEPT !.pc = "check", !.op = IF good THEN "login" ELSE "badLogin", !.user = u])
    /\ raced' = raced \cup {i \in {u, IP} : LoggingIn(i) # {}}

Refresh(h, t) ==
    /\ issued[t] > 0
    /\ Arrive(h, [IdleRun EXCEPT !.pc = "rotated", !.op = "refresh", !.token = t,
                                 !.dead = Holding(t) \cap revoked])
    /\ UNCHANGED raced

(* The session or key named in the path of a request. *)
Exists(op, x) ==
    /\ op = "delete" => x \in Stored
    /\ op = "revokeKey" => keyOwner[x] # NoUser

(* Where a request goes once its credentials are accepted. *)
ServePc(op) ==
    CASE op = "use"       -> "rbac"
      [] op = "logout"    -> "select"
      [] op = "logoutAll" -> "selectAll"
      [] OTHER            -> "serve"

(* authMiddleware reads the user and the session id from the access token. *)
SessionRequest(h, s, op, x) ==
    /\ s \in Stored
    /\ Exists(op, x)
    /\ Arrive(h, [IdleRun EXCEPT !.pc = "cache", !.op = op, !.user = owner[s], !.sid = s, !.item = x,
                                 !.dead = {s} \cap revoked])
    /\ UNCHANGED raced

(* Accepted without a check, and for no user. *)
Unverified(h, op, x, dead) ==
    /\ Arrive(h, [IdleRun EXCEPT !.pc = ServePc(op), !.op = op, !.item = x, !.dead = dead])
    /\ UNCHANGED raced

(* A refresh token has the same signature and is accepted as well.  It has *)
(* no session id, so no revocation is looked up, and no user id.           *)
BearerRefreshToken(h, t, op, x) ==
    /\ issued[t] > 0
    /\ Exists(op, x)
    /\ Unverified(h, op, x, Holding(t) \cap revoked)

(* With X-API-KEY but not all of signature, timestamp and nonce, the       *)
(* request goes on without claims.                                         *)
UnsignedRequest(h, k, op) ==
    /\ keyOwner[k] # NoUser
    /\ Unverified(h, op, 0, {k} \cap deadKeys)

SignedRequest(h, k, n) ==
    /\ keyOwner[k] # NoUser
    /\ Arrive(h, [IdleRun EXCEPT !.pc = "nonceGet", !.op = "signed", !.item = k, !.nonce = n,
                                 !.dead = {k} \cap deadKeys])
    /\ UNCHANGED raced

-------------------------------------------------------------------------------
(* POST /auth/login *)

(* Of the email and of the address, then the password.  An identity that   *)
(* cannot be read is not locked.                                           *)
CheckBruteForceAndLock(h) ==
    /\ At(h, "check")
    /\ \/ {run[h].user, IP} \cap locked # {} /\ NoFault /\ Answer(h)
       \/ /\ IF {run[h].user, IP} \cap locked = {} THEN NoFault ELSE Fault
          /\ Goto(h, IF run[h].op = "login" THEN "reset" ELSE "readEmail")
    /\ UNCHANGED <<sessions, apiKeys, lockouts, suspended, revokedSession, tokens, signing, lastSid, bounds>>

Identity(h) == IF run[h].pc \in {"readEmail", "writeEmail"} THEN run[h].user ELSE IP

(* A failed read counts as no row. *)
ReadFailures(h) ==
    /\ run[h].pc \in {"readEmail", "readIP"}
    /\ \E c \in {failed[Identity(h)], -1} :
        /\ IF c = failed[Identity(h)] THEN NoFault ELSE Fault
        /\ run' = [run EXCEPT ![h].count = c,
                              ![h].pc = IF run[h].pc = "readEmail" THEN "writeEmail" ELSE "writeIP"]
    /\ UNCHANGED <<sessions, apiKeys, lockouts, suspended, revokedSession, tokens, signing, lastSid, bounds>>

NextIdentity(h) == IF run[h].pc = "writeEmail" THEN Goto(h, "readIP") ELSE Answer(h)

(* Mutant: the lock begins one failure late. *)
BugRecordLockoutFailure(h) ==
    /\ run[h].pc \in {"writeEmail", "writeIP"}
    /\ LET i == Identity(h)
           n == IF run[h].count = -1 THEN 1 ELSE run[h].count + 1 IN
        /\ failures' = [failures EXCEPT ![i] = @ + 1]
        /\ failed' = [failed EXCEPT ![i] = n]
        /\ locked' = IF n > MaxFailures THEN locked \cup {i} ELSE locked \ {i}
        /\ NoFault
    /\ NextIdentity(h)
    /\ UNCHANGED <<sessions, apiKeys, raced, suspended, revokedSession, tokens, signing, lastSid, bounds>>

(* INSERT of a first failure, refused if the row exists by now, or UPDATE  *)
(* to the count read before plus one.                                      *)
RecordLockoutFailure(h) ==
    /\ run[h].pc \in {"writeEmail", "writeIP"}
    /\ LET i == Identity(h)
           n == run[h].count + 1 IN
        /\ failures' = [failures EXCEPT ![i] = @ + 1]
        /\ \/ /\ run[h].count = -1
              /\ failed' = IF failed[i] = -1 THEN [failed EXCEPT ![i] = 1] ELSE failed
              /\ NoFault
              /\ UNCHANGED locked
           \/ /\ run[h].count # -1
              /\ failed' = [failed EXCEPT ![i] = n]
              /\ locked' = IF n >= MaxFailures THEN locked \cup {i} ELSE locked \ {i}
              /\ NoFault
           \/ Fault /\ UNCHANGED <<failed, locked>>
    /\ NextIdentity(h)
    /\ UNCHANGED <<sessions, apiKeys, raced, suspended, revokedSession, tokens, signing, lastSid, bounds>>

(* Both identities, on success. *)
ResetLockoutFailures(h) ==
    /\ At(h, "reset")
    /\ LET both == {run[h].user, IP} IN
        /\ failed' = [i \in Identities |-> IF i \in both /\ failed[i] # -1 THEN 0 ELSE failed[i]]
        /\ locked' = locked \ both
        /\ failures' = [i \in Identities |-> IF i \in both THEN 0 ELSE failures[i]]
    /\ Goto(h, "count")
    /\ UNCHANGED <<sessions, apiKeys, raced, suspended, revokedSession, tokens, signing, lastSid, bounds, faults>>

(* Mutant: the session that makes room is chosen only beyond the limit. *)
BugCountSessions(h) ==
    /\ At(h, "count")
    /\ lastSid + 1 \in Sids
    /\ lastSid' = lastSid + 1
    /\ LET u == run[h].user IN
        run' = [run EXCEPT ![h].pc = "writeLogin", ![h].sid = lastSid', ![h].token = <<u, now>>,
                           ![h].ids = IF Cardinality(Active(u)) > MaxSessions THEN {Min(Active(u))} ELSE {}]
    /\ UNCHANGED <<sessions, apiKeys, lockouts, suspended, revokedSession, tokens, signing, bounds, faults>>

(* CreateSession: the token is signed, the active sessions are counted and *)
(* the oldest chosen if they are MaxSessions.                              *)
CountSessions(h) ==
    /\ At(h, "count")
    /\ lastSid + 1 \in Sids
    /\ lastSid' = lastSid + 1
    /\ LET u == run[h].user IN
        run' = [run EXCEPT ![h].pc = "writeLogin", ![h].sid = lastSid', ![h].token = <<u, now>>,
                           ![h].ids = IF Cardinality(Active(u)) >= MaxSessions THEN {Min(Active(u))} ELSE {}]
    /\ UNCHANGED <<sessions, apiKeys, lockouts, suspended, revokedSession, tokens, signing, bounds, faults>>

(* Rows a transaction has updated and not committed are locked. *)
RowsOf(h) == IF run[h].pc \in {"insert", "commit"} THEN run[h].ids
             ELSE IF At(h, "rotate") THEN {run[h].sid} ELSE {}
Unlocked(rows, h) == \A g \in Handlers \ {h} : RowsOf(g) \cap rows = {}

(* The oldest session is revoked in the transaction and in Redis. *)
WriteLogin(h) ==
    /\ At(h, "writeLogin")
    /\ Unlocked(run[h].ids, h)
    /\ RedisSet(revokedSession, revokedSession', run[h].ids)
    /\ Goto(h, "insert")
    /\ UNCHANGED <<sessions, apiKeys, lockouts, suspended, tokens, signing, lastSid, bounds>>

HandOut(t) == issued' = [issued EXCEPT ![t] = @ + 1]

CommitLogin(h) ==
    /\ At(h, "insert")
    /\ owner' = [owner EXCEPT ![run[h].sid] = run[h].user]
    /\ hash' = [hash EXCEPT ![run[h].sid] = run[h].token]
    /\ revoked' = revoked \cup run[h].ids
    /\ HandOut(run[h].token)
    /\ Answer(h)
    /\ UNCHANGED <<apiKeys, lockouts, suspended, revokedSession, rotatedToken, aborted, signing, lastSid, bounds, faults>>

-------------------------------------------------------------------------------
(* POST /auth/refresh and RotateSession *)

RotatedHit(h) ==
    /\ At(h, "rotated")
    /\ RedisHit(rotatedToken, run[h].token)
    /\ Goto(h, "reuse")
    /\ UNCHANGED <<sessions, apiKeys, lockouts, suspended, revokedSession, tokens, signing, lastSid, bounds>>

RotatedMiss(h) ==
    /\ At(h, "rotated")
    /\ RedisMiss(rotatedToken, run[h].token)
    /\ Goto(h, "lookup")
    /\ UNCHANGED <<sessions, apiKeys, lockouts, suspended, revokedSession, tokens, signing, lastSid, bounds>>

(* RevokeAllSessionsByOldTokenHash finds a user only while a session still *)
(* has the hash; its error is dropped.                                     *)
RevokeByOldToken(h) ==
    /\ At(h, "reuse")
    /\ \/ /\ Holding(run[h].token) = {}
          /\ Answer(h)
       \/ \E s \in Holding(run[h].token) :
            run' = [run EXCEPT ![h].pc = "selectAll", ![h].user = owner[s]]
    /\ UNCHANGED <<sessions, apiKeys, lockouts, suspended, revokedSession, tokens, signing, lastSid, bounds, faults>>

(* The session with the token's hash; a revoked one ends them all. *)
FindSession(h) ==
    /\ At(h, "lookup")
    /\ \/ Holding(run[h].token) = {} /\ Answer(h)
       \/ \E s \in Holding(run[h].token) :
            run' = [run EXCEPT ![h].pc = IF s \in revoked THEN "selectAll" ELSE "writeRotate",
                               ![h].user = owner[s], ![h].sid = IF s \in revoked THEN 0 ELSE s]
    /\ UNCHANGED <<sessions, apiKeys, lockouts, suspended, revokedSession, tokens, signing, lastSid, bounds, faults>>

(* Mutant: the new token is marked instead of the old one. *)
BugWriteRotate(h) ==
    /\ At(h, "writeRotate")
    /\ Unlocked({run[h].sid}, h)
    /\ RedisSet(rotatedToken, rotatedToken', {<<run[h].user, now>>})
    /\ Goto(h, "rotate")
    /\ UNCHANGED <<sessions, apiKeys, lockouts, suspended, revokedSession, issued, aborted, signing, lastSid, bounds>>

(* UPDATE, and the old token is marked in Redis before the COMMIT. *)
WriteRotate(h) ==
    /\ At(h, "writeRotate")
    /\ Unlocked({run[h].sid}, h)
    /\ RedisSet(rotatedToken, rotatedToken', {run[h].token})
    /\ Goto(h, "rotate")
    /\ UNCHANGED <<sessions, apiKeys, lockouts, suspended, revokedSession, issued, aborted, signing, lastSid, bounds>>

(* The first new token is signed for no user and is handed to nobody.  The *)
(* answer of the COMMIT may be lost.                                       *)
CommitRotate(h) ==
    /\ At(h, "rotate")
    /\ hash' = [hash EXCEPT ![run[h].sid] = NoToken]
    /\ \/ Goto(h, "final") /\ NoFault
       \/ Answer(h) /\ Fault
    /\ UNCHANGED <<owner, revoked, apiKeys, lockouts, suspended, revokedSession, tokens, signing, lastSid, bounds>>

(* The token of the answer replaces it, in a statement of its own whose    *)
(* error is dropped.                                                       *)
FinalRefresh(h) ==
    /\ At(h, "final")
    /\ Unlocked({run[h].sid}, h)
    /\ LET t == <<run[h].user, now>> IN
        /\ \/ hash' = [hash EXCEPT ![run[h].sid] = t] /\ NoFault
           \/ hash' = hash /\ Fault
        /\ HandOut(t)
    /\ Answer(h)
    /\ UNCHANGED <<owner, revoked, apiKeys, lockouts, suspended, revokedSession, rotatedToken, aborted, signing, lastSid, bounds>>
-------------------------------------------------------------------------------
(* RevokeSession and RevokeAllSessions: SELECT, then UPDATE and Redis,     *)
(* then COMMIT.                                                            *)

SelectSession(h) ==
    /\ At(h, "select")
    /\ \/ run[h].item \in Stored /\ run' = [run EXCEPT ![h].pc = "writeRevoke", ![h].ids = {run[h].item}]
       \/ run[h].item \notin Stored /\ Answer(h)
    /\ UNCHANGED <<sessions, apiKeys, lockouts, suspended, revokedSession, tokens, signing, lastSid, bounds, faults>>

WriteRevoke(h) ==
    /\ At(h, "writeRevoke")
    /\ Unlocked(run[h].ids, h)
    /\ RedisSet(revokedSession, revokedSession', run[h].ids)
    /\ Goto(h, "commit")
    /\ UNCHANGED <<sessions, apiKeys, lockouts, suspended, tokens, signing, lastSid, bounds>>

(* An error of this SELECT is ignored: nothing will be cached. *)
SelectAll(h) ==
    /\ At(h, "selectAll")
    /\ \/ run' = [run EXCEPT ![h].pc = "writeAll", ![h].ids = Active(run[h].user)] /\ NoFault
       \/ Goto(h, "writeAll") /\ Fault
    /\ UNCHANGED <<sessions, apiKeys, lockouts, suspended, revokedSession, tokens, signing, lastSid, bounds>>

(* Every session of the user is revoked, the selected ones are cached. *)
WriteAll(h) ==
    /\ At(h, "writeAll")
    /\ Unlocked(SessionsOf(run[h].user), h)
    /\ RedisSet(revokedSession, revokedSession', run[h].ids)
    /\ run' = [run EXCEPT ![h].pc = "commit", ![h].ids = SessionsOf(run[h].user)]
    /\ UNCHANGED <<sessions, apiKeys, lockouts, suspended, tokens, signing, lastSid, bounds>>

CommitRevoke(h) ==
    /\ At(h, "commit")
    /\ revoked' = revoked \cup run[h].ids
    /\ Answer(h)
    /\ UNCHANGED <<owner, hash, apiKeys, lockouts, suspended, revokedSession, tokens, signing, lastSid, bounds, faults>>

-------------------------------------------------------------------------------
(* authMiddleware: IsSessionRevoked asks Redis, then PostgreSQL. *)

RevokedInCache(h) ==
    /\ At(h, "cache")
    /\ RedisHit(revokedSession, run[h].sid)
    /\ Answer(h)
    /\ UNCHANGED <<sessions, apiKeys, lockouts, suspended, revokedSession, tokens, signing, lastSid, bounds>>

NotInCache(h) ==
    /\ At(h, "cache")
    /\ RedisMiss(revokedSession, run[h].sid)
    /\ Goto(h, "db")
    /\ UNCHANGED <<sessions, apiKeys, lockouts, suspended, revokedSession, tokens, signing, lastSid, bounds>>

(* Logout revokes the session of the claims. *)
Serve(h) ==
    run' = [run EXCEPT ![h].pc = ServePc(run[h].op),
                       ![h].item = IF run[h].op = "logout" THEN run[h].sid ELSE run[h].item]

(* Mutant: a session that is not in the cache is taken for valid. *)
BugIsSessionRevoked(h) ==
    /\ At(h, "db")
    /\ Serve(h)
    /\ UNCHANGED <<sessions, apiKeys, lockouts, suspended, revokedSession, tokens, signing, lastSid, bounds, faults>>

(* A revoked session is put into the cache again. *)
IsSessionRevoked(h) ==
    /\ At(h, "db")
    /\ \/ /\ run[h].sid \in revoked
          /\ RedisSet(revokedSession, revokedSession', {run[h].sid})
          /\ Answer(h)
       \/ /\ run[h].sid \notin revoked
          /\ Serve(h)
          /\ NoFault
          /\ UNCHANGED revokedSession
    /\ UNCHANGED <<sessions, apiKeys, lockouts, suspended, tokens, signing, lastSid, bounds>>

(* RBACMiddleware refuses claims without a user.  The status is read from  *)
(* users; the role may lack the permission.                                *)
CheckStatus(h) ==
    /\ At(h, "rbac")
    /\ \/ Answer(h)
       \/ run[h].user \in Users \ suspended /\ Goto(h, "serve")
    /\ UNCHANGED <<sessions, apiKeys, lockouts, suspended, revokedSession, tokens, signing, lastSid, bounds, faults>>

(* DELETE /auth/sessions/:id asks for the owner first. *)
DeleteSession(h) ==
    /\ At(h, "serve")
    /\ run[h].op = "delete"
    /\ IF run[h].item \in SessionsOf(run[h].user) THEN Goto(h, "select") ELSE Answer(h)
    /\ UNCHANGED <<sessions, apiKeys, lockouts, suspended, revokedSession, tokens, signing, lastSid, bounds, faults>>

(* The handlers behind the checks; only those of API keys change access. *)
Finish(h) ==
    /\ At(h, "serve")
    /\ run[h].op \in {"use", "open", "signed"}
    /\ Answer(h)
    /\ UNCHANGED <<sessions, apiKeys, lockouts, suspended, revokedSession, tokens, signing, lastSid, bounds, faults>>

(* A bad allowlist or MFA code, or a user that does not exist, refuses it. *)
HandleCreateAPIKey(h) ==
    /\ At(h, "serve")
    /\ run[h].op = "createKey"
    /\ \/ \E k \in Keys :
            /\ run[h].user \in Users
            /\ keyOwner[k] = NoUser
            /\ keyOwner' = [keyOwner EXCEPT ![k] = run[h].user]
       \/ UNCHANGED keyOwner
    /\ Answer(h)
    /\ UNCHANGED <<sessions, deadKeys, lockouts, suspended, revokedSession, tokens, signing, lastSid, bounds, faults>>

(* Only for its owner; DatabaseFails is the SELECT or the UPDATE failing. *)
HandleRevokeAPIKey(h) ==
    /\ At(h, "serve")
    /\ run[h].op = "revokeKey"
    /\ deadKeys' = IF keyOwner[run[h].item] = run[h].user THEN deadKeys \cup {run[h].item} ELSE deadKeys
    /\ Answer(h)
    /\ UNCHANGED <<sessions, keyOwner, lockouts, suspended, revokedSession, tokens, signing, lastSid, bounds, faults>>

-------------------------------------------------------------------------------
(* APIKeyAuthMiddleware: the nonce is looked up and then set, then the key *)
(* is looked up and the signature verified.                                *)

Use(h) == <<run[h].item, run[h].nonce>>

NonceReused(h) ==
    /\ At(h, "nonceGet")
    /\ RedisHit(nonceUsed, Use(h))
    /\ Answer(h)
    /\ UNCHANGED <<sessions, apiKeys, lockouts, suspended, revokedSession, tokens, signing, lastSid, bounds>>

NonceFresh(h) ==
    /\ At(h, "nonceGet")
    /\ RedisMiss(nonceUsed, Use(h))
    /\ excused' = IF \/ Use(h) \in nonceUsed
                     \/ \E g \in Handlers : At(g, "nonceSet") /\ Use(g) = Use(h)
                  THEN excused \cup {Use(h)} ELSE excused
    /\ Goto(h, "nonceSet")
    /\ UNCHANGED <<sessions, apiKeys, lockouts, suspended, revokedSession, tokens, nonceUsed, served, lastSid, bounds>>

(* Mutant: the nonce is not kept. *)
BugUseNonce(h) ==
    /\ At(h, "nonceSet")
    /\ Goto(h, "keyLookup")
    /\ UNCHANGED <<sessions, apiKeys, lockouts, suspended, revokedSession, tokens, signing, lastSid, bounds, faults>>

UseNonce(h) ==
    /\ At(h, "nonceSet")
    /\ RedisSet(nonceUsed, nonceUsed', {Use(h)})
    /\ excused' = IF Use(h) \in nonceUsed' THEN excused ELSE excused \cup {Use(h)}
    /\ Goto(h, "keyLookup")
    /\ UNCHANGED <<sessions, apiKeys, lockouts, suspended, revokedSession, tokens, served, lastSid, bounds>>

(* Refused if the key is revoked or expired, or its address, signature or  *)
(* scope does not match; the status of the user is not read.               *)
VerifyKey(h) ==
    /\ At(h, "keyLookup")
    /\ \/ Answer(h) /\ UNCHANGED served
       \/ /\ run[h].item \notin deadKeys
          /\ run' = [run EXCEPT ![h].pc = "serve", ![h].user = keyOwner[run[h].item]]
          /\ served' = [served EXCEPT ![Use(h)] = @ + 1]
    /\ UNCHANGED <<sessions, apiKeys, lockouts, suspended, revokedSession, tokens, nonceUsed, excused, lastSid, bounds, faults>>

-------------------------------------------------------------------------------
(* Failures and the environment *)

(* A statement or a COMMIT fails: the transaction is rolled back and the   *)
(* request answered with an error.                                         *)
DatabaseFails(h) ==
    /\ run[h].pc \in {"count", "writeLogin", "insert", "reuse", "lookup", "writeRotate", "rotate", "select",
                      "writeRevoke", "writeAll", "commit", "db", "rbac", "serve", "keyLookup"}
    /\ Fault
    /\ aborted' = IF At(h, "rotate") THEN aborted \cup {run[h].token} ELSE aborted
    /\ Answer(h)
    /\ UNCHANGED <<sessions, apiKeys, lockouts, suspended, revokedSession, rotatedToken, issued, signing, lastSid, bounds>>

RedisLoss ==
    /\ Fault
    /\ revokedSession' = {} /\ rotatedToken' = {} /\ nonceUsed' = {}
    /\ excused' = Uses
    /\ UNCHANGED <<sessions, apiKeys, lockouts, suspended, issued, aborted, served, run, lastSid, bounds>>

(* A restart ends every request and ReconstructRedisCache fills the cache. *)
Crash ==
    /\ Fault
    /\ aborted' = aborted \cup {run[h].token : h \in {g \in Handlers : At(g, "rotate")}}
    /\ run' = [h \in Handlers |-> IdleRun]
    /\ revokedSession' = revokedSession \cup revoked
    /\ UNCHANGED <<sessions, apiKeys, lockouts, suspended, rotatedToken, issued, signing, lastSid, bounds>>

(* users.status, written by the compliance engine for an officer's request. *)
SetStatus(u) ==
    /\ requests < MaxRequests
    /\ requests' = requests + 1
    /\ suspended' = IF u \in suspended THEN suspended \ {u} ELSE suspended \cup {u}
    /\ UNCHANGED <<sessions, apiKeys, lockouts, revokedSession, tokens, signing, run, lastSid, now, faults>>

Tick ==
    /\ now < MaxSeconds
    /\ now' = now + 1
    /\ UNCHANGED <<sessions, apiKeys, lockouts, suspended, revokedSession, tokens, signing, run, lastSid,
                   requests, faults>>

Step(h) ==
    \/ CheckBruteForceAndLock(h) \/ ReadFailures(h) \/ RecordLockoutFailure(h) \/ ResetLockoutFailures(h)
    \/ CountSessions(h) \/ WriteLogin(h) \/ CommitLogin(h)
    \/ RotatedHit(h) \/ RotatedMiss(h) \/ RevokeByOldToken(h) \/ FindSession(h) \/ WriteRotate(h)
    \/ CommitRotate(h) \/ FinalRefresh(h)
    \/ SelectSession(h) \/ WriteRevoke(h) \/ SelectAll(h) \/ WriteAll(h) \/ CommitRevoke(h)
    \/ RevokedInCache(h) \/ NotInCache(h) \/ IsSessionRevoked(h) \/ CheckStatus(h)
    \/ DeleteSession(h) \/ Finish(h) \/ HandleCreateAPIKey(h) \/ HandleRevokeAPIKey(h)
    \/ NonceReused(h) \/ NonceFresh(h) \/ UseNonce(h) \/ VerifyKey(h)

Items(op) == IF op = "delete" THEN Sids ELSE IF op = "revokeKey" THEN Keys ELSE {0}

Arrival(h) ==
    \/ \E u \in Users, good \in BOOLEAN : Login(h, u, good)
    \/ \E t \in Tokens : Refresh(h, t)
    \/ \E op \in SessionOps : \E x \in Items(op) :
        \/ \E s \in Sids : SessionRequest(h, s, op, x)
        \/ \E t \in Tokens : BearerRefreshToken(h, t, op, x)
    \/ \E k \in Keys :
        \/ \E n \in Nonces : SignedRequest(h, k, n)
        \/ \E op \in {"use", "open"} : UnsignedRequest(h, k, op)

Next ==
    \/ \E h \in Handlers : Arrival(h) \/ Step(h) \/ DatabaseFails(h)
    \/ \E u \in Users : SetStatus(u)
    \/ RedisLoss \/ Crash \/ Tick

Spec == Init /\ [][Next]_vars

-------------------------------------------------------------------------------
(* Properties *)

(* A revocation is final.  A request that arrives after the COMMIT which   *)
(* revoked its session or its API key may still pass the checks, with the  *)
(* refresh token instead of the access token or without its signature, but *)
(* then it acts for no user: RBACMiddleware refuses it and it revokes no   *)
(* session.  Nor does a refresh rotate such a session.  All this whatever  *)
(* Redis has forgotten, whichever rotation was in flight and wherever the  *)
(* gateway restarted (authMiddleware, IsSessionRevoked, RotateSession,     *)
(* APIKeyAuthMiddleware).                                                  *)
RevocationIsFinal ==
    \A h \in Handlers :
        /\ run[h].op \in SessionOps \cup {"signed"} /\ run[h].pc \in ServePcs /\ run[h].dead # {} =>
            /\ run[h].user = NoUser
            /\ run[h].ids = {}
            /\ At(h, "serve") => run[h].op # "use"
        /\ run[h].pc \in RotatePcs => run[h].sid \notin run[h].dead

(* The refresh token of a live session is marked as rotated only while its *)
(* rotation is under way, or when the same token was handed out twice in   *)
(* one second, or when its rotation was marked in Redis and then rolled    *)
(* back: in every other case the client's next refresh is not mistaken for *)
(* reuse (RotateSession).                                                  *)
LiveTokenNotMarked ==
    \A s \in Stored \ revoked :
        hash[s] \in rotatedToken =>
            \/ \E h \in Handlers : At(h, "rotate") /\ run[h].token = hash[s]
            \/ issued[hash[s]] > 1
            \/ hash[s] \in aborted

(* The variables have their types, and a user whose logins never           *)
(* overlapped has at most MaxSessions active sessions (CreateSession       *)
(* counts and evicts without a lock).                                      *)
SessionCap ==
    /\ TypeOK
    /\ \A u \in Users \ raced : Cardinality(Active(u)) <= MaxSessions

(* While nothing fails and logins do not overlap, the lockout counts every *)
(* failed login since the last success, and the identity is locked exactly *)
(* when they have reached MaxFailures (RecordLockoutFailure reads and      *)
(* writes the count in separate statements).                               *)
LockoutCounts ==
    faults = 0 =>
        \A i \in Identities \ raced :
            /\ failures[i] = (IF failed[i] = -1 THEN 0 ELSE failed[i])
            /\ MaxFailures > 1 => (i \in locked <=> failures[i] >= MaxFailures)

(* A signed request that is delivered again, with the same key and nonce,  *)
(* is served once, unless the two deliveries met between the lookup and    *)
(* the SET of their nonce, or Redis failed (IsNonceReused).                *)
SignedOnce ==
    \A n \in Uses \ excused : served[n] <= 1
===============================================================================
