----------------------------- MODULE AccessProofs -----------------------------
(***************************************************************************)
(* Proofs about Access, for every set of users, handlers, sessions, keys   *)
(* and nonces, and any number of requests, failures, losses of Redis and   *)
(* restarts.                                                               *)
(***************************************************************************)
EXTENDS Access, FiniteSetTheorems, NaturalsInduction, WellFoundedInduction, TLAPS

(* What the place of a request says of its local variables.                *)
PlaceOK(h) ==
    LET r == run[h] IN
    /\ r.pc \in LoginPcs => r.op \in {"login", "badLogin"} /\ r.user \in Users
    /\ r.pc \in {"writeLogin", "insert"} => r.sid \in Sids /\ r.token \in Tokens
    /\ r.pc \in {"rotated", "reuse", "lookup"} \cup RotatePcs =>
           r.op = "refresh" /\ r.token \in Tokens
    /\ r.pc \in RotatePcs => r.sid \in Sids /\ r.user \in Users
    /\ r.pc \in {"cache", "db"} => r.op \in SessionOps /\ r.sid \in Sids /\ r.user \in Users
    /\ r.pc \in ServePcs => r.op \in SessionOps \cup {"refresh", "signed"}
    /\ r.op \in {"revokeKey", "signed"} => r.item \in Keys
    /\ r.pc \in {"nonceGet", "nonceSet", "keyLookup"} => r.op = "signed" /\ r.nonce \in Nonces

(* What a request relies on and was revoked when it arrived is revoked; a  *)
(* request that relies on something revoked is served only without a user, *)
(* and selects no session.                                                 *)
DeadOK(h) ==
    LET r == run[h] IN
    /\ r.op = "refresh" \/ r.pc \in {"cache", "db"} => r.dead \subseteq revoked
    /\ r.pc \in {"cache", "db"} => r.dead \subseteq {r.sid}
    /\ r.op = "signed" => r.dead \subseteq deadKeys /\ r.dead \subseteq {r.item}
    /\ r.op \in SessionOps \cup {"signed"} /\ r.pc \in ServePcs /\ r.dead # {} =>
           /\ r.user = NoUser /\ r.ids = {}
           /\ r.pc = "serve" => r.op # "use"
           /\ r.pc = "select" => r.item \notin Sids
    /\ r.pc \in RotatePcs => r.sid \notin r.dead

(* An identity that has not raced has one login at a time.                 *)
OneLogin ==
    \A i \in Identities \ raced : \A g, h \in LoggingIn(i) : g = h

(* The count a login has read is still that of the row.                    *)
CountsFresh ==
    faults = 0 => \A h \in Handlers :
        run[h].pc \in {"writeEmail", "writeIP"} /\ Identity(h) \notin raced =>
            run[h].count = failed[Identity(h)]

(* A login in flight has made room for its session.                        *)
RoomMade ==
    \A h \in Handlers, u \in Users \ raced :
        run[h].pc \in {"writeLogin", "insert"} /\ run[h].user = u =>
            Cardinality(Active(u) \ run[h].ids) <= MaxSessions - 1

(* Tokens that are held or marked were handed out, a token that two        *)
(* sessions hold twice; so was one that a rotation is about to retire and  *)
(* another session holds.                                                  *)
TokensIssued ==
    /\ \A s \in Sids : hash[s] \in Tokens => issued[hash[s]] >= 1
    /\ \A t \in rotatedToken : issued[t] >= 1
    /\ \A s, x \in Sids : s # x /\ hash[s] = hash[x] /\ hash[s] \in Tokens =>
           issued[hash[s]] > 1
    /\ \A h \in Handlers : run[h].op = "refresh" /\ run[h].token \in Tokens =>
           issued[run[h].token] >= 1
    /\ \A h \in Handlers : run[h].pc \in {"writeRotate", "rotate"} =>
           \A x \in Sids : x # run[h].sid /\ hash[x] = run[h].token =>
               issued[run[h].token] > 1

(* Unless its Redis calls overlapped or failed, the nonce of a key is      *)
(* between its lookup and its SET for one request, then used, and served   *)
(* once.                                                                   *)
NoncesOK ==
    \A n \in Uses \ excused :
        /\ served[n] <= 1
        /\ served[n] > 0 => n \in nonceUsed
        /\ \A h \in Handlers : Use(h) = n /\ At(h, "nonceSet") => n \notin nonceUsed
        /\ \A h \in Handlers : Use(h) = n /\ At(h, "keyLookup") =>
               n \in nonceUsed /\ served[n] = 0
        /\ \A g, h \in Handlers :
               /\ Use(g) = n /\ Use(h) = n
               /\ \/ At(g, "nonceSet") /\ At(h, "nonceSet")
                  \/ At(g, "keyLookup") /\ At(h, "keyLookup")
               => g = h

HistoryOK ==
    /\ issued \in [Tokens -> Nat]
    /\ failures \in [Identities -> Nat]
    /\ served \in [Uses -> Nat]
    /\ excused \subseteq Uses
    /\ IsFiniteSet(Stored)

IInv ==
    /\ SessionCap
    /\ HistoryOK
    /\ \A h \in Handlers : PlaceOK(h) /\ DeadOK(h)
    /\ OneLogin
    /\ LockoutCounts /\ CountsFresh
    /\ RoomMade
    /\ TokensIssued /\ LiveTokenNotMarked
    /\ NoncesOK

-------------------------------------------------------------------------------
(* How a step changes the request of one handler *)

Others(h) ==
    /\ run' \in [Handlers -> Run]
    /\ \A g \in Handlers \ {h} : run'[g] = run[g]

LEMMA IdleType ==
    /\ IdleRun \in Run
    /\ IdleRun.pc = "idle" /\ IdleRun.op = "use" /\ IdleRun.user = NoUser /\ IdleRun.sid = 0
    /\ IdleRun.item = 0 /\ IdleRun.token = NoToken /\ IdleRun.nonce = 0 /\ IdleRun.ids = {}
    /\ IdleRun.count = -1 /\ IdleRun.dead = {}
BY DEF IdleRun, Run, Pcs, Ops, SessionOps

LEMMA RunTo ==
    ASSUME TypeOK, NEW h \in Handlers, NEW r \in Run, run' = [run EXCEPT ![h] = r]
    PROVE  Others(h) /\ run'[h] = r
BY DEF TypeOK, Others

LEMMA AnswerRun ==
    ASSUME TypeOK, NEW h \in Handlers, Answer(h)
    PROVE  Others(h) /\ run'[h] = IdleRun
BY IdleType, RunTo DEF Answer

(* The request and its local variables stay, the place apart.              *)
SameRequest(h) ==
    /\ run'[h].op = run[h].op /\ run'[h].nonce = run[h].nonce /\ run'[h].dead = run[h].dead
    /\ run'[h].token = run[h].token

SameLocals(h) ==
    /\ SameRequest(h)
    /\ run'[h].user = run[h].user /\ run'[h].sid = run[h].sid /\ run'[h].item = run[h].item
    /\ run'[h].ids = run[h].ids /\ run'[h].count = run[h].count

LEMMA GotoRun ==
    ASSUME TypeOK, NEW h \in Handlers, NEW p \in Pcs, Goto(h, p)
    PROVE  Others(h) /\ SameLocals(h) /\ run'[h].pc = p
<1> DEFINE r == [run[h] EXCEPT !.pc = p]
<1>1. run[h] \in Run
  BY DEF TypeOK
<1>2. run' = [run EXCEPT ![h] = r]
  BY DEF Goto, TypeOK
<1>3. r \in Run /\ r.pc = p /\ r.op = run[h].op /\ r.nonce = run[h].nonce
      /\ r.dead = run[h].dead /\ r.token = run[h].token /\ r.user = run[h].user
      /\ r.sid = run[h].sid /\ r.item = run[h].item /\ r.ids = run[h].ids
      /\ r.count = run[h].count
  BY <1>1 DEF Run
<1> HIDE DEF r
<1> QED
  BY <1>2, <1>3, RunTo DEF SameLocals, SameRequest

LEMMA ReadRun ==
    ASSUME TypeOK, NEW h \in Handlers, NEW p \in Pcs, NEW c \in Nat \cup {-1},
           run' = [run EXCEPT ![h].count = c, ![h].pc = p]
    PROVE  /\ Others(h) /\ SameRequest(h) /\ run'[h].pc = p /\ run'[h].count = c
           /\ run'[h].user = run[h].user /\ run'[h].sid = run[h].sid
           /\ run'[h].item = run[h].item /\ run'[h].ids = run[h].ids
<1> DEFINE r == [run[h] EXCEPT !.count = c, !.pc = p]
<1>1. run[h] \in Run
  BY DEF TypeOK
<1>2. run' = [run EXCEPT ![h] = r]
  BY DEF TypeOK
<1>3. r \in Run /\ r.pc = p /\ r.op = run[h].op /\ r.nonce = run[h].nonce
      /\ r.dead = run[h].dead /\ r.token = run[h].token /\ r.user = run[h].user
      /\ r.sid = run[h].sid /\ r.item = run[h].item /\ r.ids = run[h].ids
      /\ r.count = c
  BY <1>1 DEF Run
<1> HIDE DEF r
<1> QED
  BY <1>2, <1>3, RunTo DEF SameRequest

LEMMA SelectRun ==
    ASSUME TypeOK, NEW h \in Handlers, NEW p \in Pcs, NEW S \in SUBSET Sids,
           run' = [run EXCEPT ![h].pc = p, ![h].ids = S]
    PROVE  /\ Others(h) /\ SameRequest(h) /\ run'[h].pc = p /\ run'[h].ids = S
           /\ run'[h].user = run[h].user /\ run'[h].sid = run[h].sid
           /\ run'[h].item = run[h].item /\ run'[h].count = run[h].count
<1> DEFINE r == [run[h] EXCEPT !.pc = p, !.ids = S]
<1>1. run[h] \in Run
  BY DEF TypeOK
<1>2. run' = [run EXCEPT ![h] = r]
  BY DEF TypeOK
<1>3. r \in Run /\ r.pc = p /\ r.op = run[h].op /\ r.nonce = run[h].nonce
      /\ r.dead = run[h].dead /\ r.token = run[h].token /\ r.user = run[h].user
      /\ r.sid = run[h].sid /\ r.item = run[h].item /\ r.ids = S
      /\ r.count = run[h].count
  BY <1>1 DEF Run
<1> HIDE DEF r
<1> QED
  BY <1>2, <1>3, RunTo DEF SameRequest

LEMMA FindRun ==
    ASSUME TypeOK, NEW h \in Handlers, NEW p \in Pcs, NEW u \in Users \cup {NoUser},
           NEW x \in Sids \cup {0},
           run' = [run EXCEPT ![h].pc = p, ![h].user = u, ![h].sid = x]
    PROVE  /\ Others(h) /\ SameRequest(h) /\ run'[h].pc = p /\ run'[h].user = u
           /\ run'[h].sid = x /\ run'[h].item = run[h].item
<1> DEFINE r == [run[h] EXCEPT !.pc = p, !.user = u, !.sid = x]
<1>1. run[h] \in Run
  BY DEF TypeOK
<1>2. run' = [run EXCEPT ![h] = r]
  BY DEF TypeOK
<1>3. r \in Run /\ r.pc = p /\ r.op = run[h].op /\ r.nonce = run[h].nonce
      /\ r.dead = run[h].dead /\ r.token = run[h].token /\ r.user = u
      /\ r.sid = x /\ r.item = run[h].item
  BY <1>1 DEF Run
<1> HIDE DEF r
<1> QED
  BY <1>2, <1>3, RunTo DEF SameRequest

LEMMA ReuseRun ==
    ASSUME TypeOK, NEW h \in Handlers, NEW p \in Pcs, NEW u \in Users \cup {NoUser},
           run' = [run EXCEPT ![h].pc = p, ![h].user = u]
    PROVE  /\ Others(h) /\ SameRequest(h) /\ run'[h].pc = p /\ run'[h].user = u
           /\ run'[h].sid = run[h].sid /\ run'[h].item = run[h].item
<1> DEFINE r == [run[h] EXCEPT !.pc = p, !.user = u]
<1>1. run[h] \in Run
  BY DEF TypeOK
<1>2. run' = [run EXCEPT ![h] = r]
  BY DEF TypeOK
<1>3. r \in Run /\ r.pc = p /\ r.op = run[h].op /\ r.nonce = run[h].nonce
      /\ r.dead = run[h].dead /\ r.token = run[h].token /\ r.user = u
      /\ r.sid = run[h].sid /\ r.item = run[h].item
  BY <1>1 DEF Run
<1> HIDE DEF r
<1> QED
  BY <1>2, <1>3, RunTo DEF SameRequest

LEMMA AcceptRun ==
    ASSUME TypeOK, NEW h \in Handlers, NEW p \in Pcs, NEW x \in Sids \cup Keys \cup {0},
           run' = [run EXCEPT ![h].pc = p, ![h].item = x]
    PROVE  /\ Others(h) /\ SameRequest(h) /\ run'[h].pc = p
           /\ run'[h].item = x /\ run'[h].user = run[h].user
           /\ run'[h].sid = run[h].sid
<1> DEFINE r == [run[h] EXCEPT !.pc = p, !.item = x]
<1>1. run[h] \in Run
  BY DEF TypeOK
<1>2. run' = [run EXCEPT ![h] = r]
  BY DEF TypeOK
<1>3. r \in Run /\ r.pc = p /\ r.op = run[h].op /\ r.nonce = run[h].nonce
      /\ r.dead = run[h].dead /\ r.token = run[h].token /\ r.user = run[h].user
      /\ r.sid = run[h].sid /\ r.item = x
  BY <1>1 DEF Run
<1> HIDE DEF r
<1> QED
  BY <1>2, <1>3, RunTo DEF SameRequest

-------------------------------------------------------------------------------
(* Failing calls *)

LEMMA FaultCounts ==
    ASSUME TypeOK, Fault
    PROVE  faults' \in 0..MaxFaults /\ faults' >= faults /\ faults' # 0
BY AccessAssumption DEF TypeOK, Fault

LEMMA NoFaultCounts ==
    ASSUME TypeOK, NoFault
    PROVE  faults' \in 0..MaxFaults /\ faults' >= faults
BY AccessAssumption DEF TypeOK, NoFault

LEMMA RedisSets ==
    ASSUME TypeOK, NEW set, NEW new, NEW elems, RedisSet(set, new, elems)
    PROVE  /\ set \subseteq new /\ new \subseteq set \cup elems
           /\ faults' \in 0..MaxFaults /\ faults' >= faults
           /\ faults' = faults => elems \subseteq new
<1>1. CASE NoFault /\ new = set \cup elems
  BY <1>1, NoFaultCounts
<1>2. CASE elems # {} /\ Fault /\ new = set
  <2>1. faults' # faults
    BY <1>2 DEF Fault, TypeOK
  <2> QED
    BY <1>2, <2>1, FaultCounts
<1> QED
  BY <1>1, <1>2 DEF RedisSet

LEMMA RedisReads ==
    ASSUME TypeOK, NEW set, NEW e, RedisHit(set, e) \/ RedisMiss(set, e)
    PROVE  faults' \in 0..MaxFaults /\ faults' >= faults
BY FaultCounts, NoFaultCounts DEF RedisHit, RedisMiss

-------------------------------------------------------------------------------
(* Each invariant stays when a step leaves what it is about alone *)

(* Handlers other than those of a step, when revocations only grow.        *)
LEMMA HandlerFrame ==
    ASSUME NEW h \in Handlers, PlaceOK(h), DeadOK(h), run'[h] = run[h],
           revoked \subseteq revoked', deadKeys \subseteq deadKeys'
    PROVE  PlaceOK(h)' /\ DeadOK(h)'
BY DEF PlaceOK, DeadOK

LEMMA IdleHandler ==
    ASSUME NEW h \in Handlers, run'[h] = IdleRun
    PROVE  PlaceOK(h)' /\ DeadOK(h)'
<1>1. /\ run'[h].pc = "idle" /\ run'[h].op = "use" /\ run'[h].dead = {}
  BY IdleType
<1>2. PlaceOK(h)'
  BY <1>1 DEF PlaceOK, LoginPcs, RotatePcs, ServePcs
<1>3. DeadOK(h)'
  BY <1>1 DEF DeadOK, RotatePcs, ServePcs
<1> QED
  BY <1>2, <1>3

(* A login that goes on, or ends.                                          *)
LoginMove(h) ==
    run'[h].pc \in LoginPcs => run[h].pc \in LoginPcs /\ run'[h].user = run[h].user

LoginFrame ==
    /\ raced \subseteq raced'
    /\ \A h \in Handlers : LoginMove(h)

LEMMA OneLoginFrame ==
    ASSUME OneLogin, LoginFrame
    PROVE  OneLogin'
<1>1. \A i \in Identities : LoggingIn(i)' \subseteq LoggingIn(i)
  BY DEF LoginFrame, LoginMove, LoggingIn
<1> QED
  BY <1>1 DEF OneLogin, LoginFrame

CountMove(h) ==
    run'[h].pc \in {"writeEmail", "writeIP"} =>
        run'[h].pc = run[h].pc /\ run'[h].count = run[h].count /\ run'[h].user = run[h].user

LockoutFrame ==
    /\ raced \subseteq raced'
    /\ UNCHANGED <<failed, locked, failures>>
    /\ faults' >= faults
    /\ \A h \in Handlers : CountMove(h)

LEMMA LockoutFrames ==
    ASSUME TypeOK, LockoutCounts, CountsFresh, LockoutFrame
    PROVE  LockoutCounts' /\ CountsFresh'
<1>1. faults' = 0 => faults = 0
  BY DEF TypeOK, LockoutFrame
<1>2. LockoutCounts'
  BY <1>1 DEF LockoutCounts, LockoutFrame
<1>3. ASSUME NEW h \in Handlers, run'[h].pc \in {"writeEmail", "writeIP"}
      PROVE  Identity(h)' = Identity(h) /\ run[h].pc \in {"writeEmail", "writeIP"}
             /\ run'[h].count = run[h].count
  <2>1. run'[h].pc = run[h].pc /\ run'[h].count = run[h].count /\ run'[h].user = run[h].user
    BY <1>3 DEF LockoutFrame, CountMove
  <2> QED
    BY <1>3, <2>1 DEF Identity
<1>4. CountsFresh'
  BY <1>1, <1>3 DEF CountsFresh, LockoutFrame
<1> QED
  BY <1>2, <1>4

(* Once something has failed, the lockout promises nothing.                *)
LEMMA LockoutFault ==
    ASSUME faults' # 0
    PROVE  LockoutCounts' /\ CountsFresh'
BY DEF LockoutCounts, CountsFresh

RoomMove(h) ==
    run'[h].pc \in {"writeLogin", "insert"} =>
        run[h].pc \in {"writeLogin", "insert"} /\ run'[h].ids = run[h].ids
        /\ run'[h].user = run[h].user

SessionFrame ==
    /\ raced \subseteq raced'
    /\ UNCHANGED owner
    /\ revoked \subseteq revoked'
    /\ \A h \in Handlers : RoomMove(h)

Capped == \A u \in Users \ raced : Cardinality(Active(u)) <= MaxSessions

LEMMA FewerActive ==
    ASSUME IsFiniteSet(Stored), NEW S, NEW T, S \subseteq T, T \subseteq Stored
    PROVE  /\ IsFiniteSet(S) /\ IsFiniteSet(T) /\ Cardinality(S) <= Cardinality(T)
           /\ Cardinality(S) \in Nat /\ Cardinality(T) \in Nat
BY FS_Subset, FS_CardinalityType

LEMMA SessionFrames ==
    ASSUME IsFiniteSet(Stored), Capped, RoomMade, SessionFrame
    PROVE  Capped' /\ RoomMade' /\ IsFiniteSet(Stored)'
<1>1. Stored' = Stored
  BY DEF Stored, SessionFrame
<1>2. \A u : Active(u)' \subseteq Active(u) /\ Active(u) \subseteq Stored
  BY <1>1 DEF Active, SessionsOf, SessionFrame
<1>3. MaxSessions \in Nat
  BY AccessAssumption
<1>4. Capped'
  <2> SUFFICES ASSUME NEW u \in Users \ raced' PROVE Cardinality(Active(u)') <= MaxSessions
    BY DEF Capped
  <2> DEFINE S == Active(u)'
             T == Active(u)
  <2>1. S \subseteq T /\ T \subseteq Stored
    BY <1>2
  <2>2. Cardinality(T) <= MaxSessions
    BY DEF Capped, SessionFrame
  <2> HIDE DEF S, T
  <2>3. Cardinality(S) <= Cardinality(T) /\ Cardinality(S) \in Nat /\ Cardinality(T) \in Nat
    BY <2>1, FewerActive
  <2>4. Cardinality(S) <= MaxSessions
    BY <1>3, <2>2, <2>3
  <2> QED
    BY <2>4 DEF S
<1>5. RoomMade'
  <2> SUFFICES ASSUME NEW h \in Handlers, NEW u \in Users \ raced',
                      run'[h].pc \in {"writeLogin", "insert"}, run'[h].user = u
               PROVE  Cardinality(Active(u)' \ run'[h].ids) <= MaxSessions - 1
    BY DEF RoomMade
  <2> DEFINE S == Active(u)' \ run'[h].ids
             T == Active(u) \ run[h].ids
  <2>1. /\ run[h].user = u /\ run'[h].ids = run[h].ids /\ u \notin raced
        /\ run[h].pc \in {"writeLogin", "insert"}
    BY DEF SessionFrame, RoomMove
  <2>2. S \subseteq T /\ T \subseteq Stored
    BY <1>2, <2>1
  <2>3. Cardinality(T) <= MaxSessions - 1
    BY <2>1 DEF RoomMade
  <2> HIDE DEF S, T
  <2>4. Cardinality(S) <= Cardinality(T) /\ Cardinality(S) \in Nat /\ Cardinality(T) \in Nat
    BY <2>2, FewerActive
  <2>5. Cardinality(S) <= MaxSessions - 1
    BY <1>3, <2>3, <2>4
  <2> QED
    BY <2>5 DEF S
<1> QED
  BY <1>1, <1>4, <1>5

(* Rotations that go on, or are given up.                                  *)
TokenMove(h) ==
    /\ run'[h].op = "refresh" =>
          \/ run[h].op = "refresh" /\ run'[h].token = run[h].token
          \/ issued[run'[h].token] >= 1
    /\ run'[h].pc \in {"writeRotate", "rotate"} =>
          run[h].pc \in {"writeRotate", "rotate"} /\ run'[h].sid = run[h].sid
          /\ run'[h].token = run[h].token
    /\ run[h].pc = "rotate" =>
          \/ run'[h].pc = "rotate" /\ run'[h].token = run[h].token
          \/ run[h].token \in aborted'

TokenFrame ==
    /\ UNCHANGED <<hash, issued, rotatedToken, owner>>
    /\ revoked \subseteq revoked' /\ aborted \subseteq aborted'
    /\ \A h \in Handlers : TokenMove(h)

LEMMA TokenFrames ==
    ASSUME TokensIssued, LiveTokenNotMarked, TokenFrame
    PROVE  TokensIssued' /\ LiveTokenNotMarked'
<1>1. TokensIssued'
  BY DEF TokensIssued, TokenFrame, TokenMove
<1>2. Stored' = Stored
  BY DEF Stored, TokenFrame
<1>3. LiveTokenNotMarked'
  <2> SUFFICES ASSUME NEW s \in Stored' \ revoked', hash'[s] \in rotatedToken'
               PROVE  \/ \E h \in Handlers : run'[h].pc = "rotate" /\ run'[h].token = hash'[s]
                      \/ issued'[hash'[s]] > 1
                      \/ hash'[s] \in aborted'
    BY DEF LiveTokenNotMarked, At
  <2>1. s \in Stored \ revoked /\ hash[s] \in rotatedToken /\ hash'[s] = hash[s]
    BY <1>2 DEF TokenFrame
  <2>2. \/ \E h \in Handlers : run[h].pc = "rotate" /\ run[h].token = hash[s]
        \/ issued[hash[s]] > 1
        \/ hash[s] \in aborted
    BY <2>1 DEF LiveTokenNotMarked, At
  <2> QED
    BY <2>1, <2>2 DEF TokenFrame, TokenMove
<1> QED
  BY <1>1, <1>3

NonceMove(h) == run'[h].pc \in {"nonceSet", "keyLookup"} => run'[h] = run[h]

NonceFrame ==
    /\ UNCHANGED signing
    /\ \A h \in Handlers : NonceMove(h)

LEMMA NonceFrames ==
    ASSUME NoncesOK, NonceFrame
    PROVE  NoncesOK'
<1>1. \A g \in Handlers : run'[g] = run[g] => Use(g)' = Use(g)
  BY DEF Use
<1> QED
  BY <1>1 DEF NoncesOK, NonceFrame, NonceMove, At, signing

Moves(h) == LoginMove(h) /\ CountMove(h) /\ RoomMove(h) /\ TokenMove(h) /\ NonceMove(h)

LEMMA StandStill ==
    ASSUME NEW g, run'[g] = run[g]
    PROVE  Moves(g)
BY DEF Moves, LoginMove, CountMove, RoomMove, TokenMove, NonceMove

LEMMA EveryoneMoves ==
    ASSUME NEW h \in Handlers, Others(h), Moves(h)
    PROVE  \A g \in Handlers : Moves(g)
BY StandStill DEF Others

(* A request that ends, or goes to a place where nothing is pending.       *)
LEMMA PlainMoves ==
    ASSUME NEW h, run[h].pc = "rotate" => run[h].token \in aborted',
           run'[h].pc \notin LoginPcs \cup {"writeRotate", "rotate", "nonceSet", "keyLookup"},
           \/ run'[h].op # "refresh"
           \/ run'[h].op = run[h].op /\ run'[h].token = run[h].token
           \/ issued[run'[h].token] >= 1
    PROVE  Moves(h)
BY DEF Moves, LoginMove, CountMove, RoomMove, TokenMove, NonceMove, LoginPcs

(* Steps that touch no count, no token and no nonce.                       *)
Quiet ==
    /\ UNCHANGED <<owner, hash, failed, locked, failures, raced, rotatedToken, issued, signing, lastSid>>
    /\ keyOwner' \in [Keys -> Users \cup {NoUser}]
    /\ deadKeys \subseteq deadKeys' /\ deadKeys' \subseteq Keys
    /\ revoked \subseteq revoked' /\ revoked' \subseteq Sids
    /\ suspended' \subseteq Users /\ revokedSession' \subseteq Sids
    /\ aborted \subseteq aborted'
    /\ now' \in 0..MaxSeconds /\ requests' \in 0..MaxRequests
    /\ faults' \in 0..MaxFaults /\ faults' >= faults

LEMMA Parts ==
    ASSUME IInv
    PROVE  /\ TypeOK /\ Capped /\ HistoryOK /\ IsFiniteSet(Stored)
           /\ \A h \in Handlers : PlaceOK(h) /\ DeadOK(h)
           /\ OneLogin /\ LockoutCounts /\ CountsFresh /\ RoomMade
           /\ TokensIssued /\ LiveTokenNotMarked /\ NoncesOK
BY DEF IInv, SessionCap, Capped, HistoryOK

LEMMA Whole ==
    ASSUME TypeOK', Capped', HistoryOK', \A h \in Handlers : PlaceOK(h)' /\ DeadOK(h)',
           OneLogin', LockoutCounts', CountsFresh', RoomMade',
           TokensIssued', LiveTokenNotMarked', NoncesOK'
    PROVE  IInv'
BY DEF IInv, SessionCap, Capped

LEMMA QuietStep ==
    ASSUME IInv, Quiet, run' \in [Handlers -> Run], \A g \in Handlers : Moves(g),
           \A g \in Handlers : PlaceOK(g)' /\ DeadOK(g)'
    PROVE  IInv'
<1> USE Parts
<1>1. TypeOK'
  BY DEF TypeOK, Quiet, signing
<1>2. LoginFrame /\ LockoutFrame /\ SessionFrame /\ TokenFrame /\ NonceFrame
  BY DEF LoginFrame, LockoutFrame, SessionFrame, TokenFrame, NonceFrame, Moves, Quiet
<1>3. HistoryOK'
  BY <1>2, SessionFrames DEF HistoryOK, Quiet, signing
<1> QED
  BY <1>1, <1>2, <1>3, Whole, OneLoginFrame, LockoutFrames, SessionFrames, TokenFrames, NonceFrames

(* The other handlers keep their places and what they rely on.             *)
LEMMA OtherHandlers ==
    ASSUME IInv, NEW h \in Handlers, Others(h),
           revoked \subseteq revoked', deadKeys \subseteq deadKeys', PlaceOK(h)', DeadOK(h)'
    PROVE  \A g \in Handlers : PlaceOK(g)' /\ DeadOK(g)'
BY Parts, HandlerFrame DEF Others

LEMMA HandlerStep ==
    ASSUME IInv, NEW h \in Handlers, Quiet, Others(h), Moves(h), PlaceOK(h)', DeadOK(h)'
    PROVE  IInv'
<1>1. \A g \in Handlers : PlaceOK(g)' /\ DeadOK(g)'
  BY OtherHandlers DEF Quiet
<1>2. run' \in [Handlers -> Run] /\ \A g \in Handlers : Moves(g)
  BY EveryoneMoves DEF Others
<1> QED
  BY <1>1, <1>2, QuietStep

LEMMA AnswerStep ==
    ASSUME IInv, NEW h \in Handlers, Quiet, Answer(h),
           run[h].pc = "rotate" => run[h].token \in aborted'
    PROVE  IInv'
<1>1. Others(h) /\ run'[h] = IdleRun
  BY Parts, AnswerRun
<1>2. PlaceOK(h)' /\ DeadOK(h)'
  BY <1>1, IdleHandler
<1>3. run'[h].pc = "idle" /\ run'[h].op = "use"
  BY <1>1, IdleType
<1>4. Moves(h)
  BY <1>3, PlainMoves DEF LoginPcs
<1> QED
  BY <1>1, <1>2, <1>4, HandlerStep

-------------------------------------------------------------------------------
(* The steps, one lemma for each *)

Unmoved == UNCHANGED <<sessions, apiKeys, lockouts, suspended, tokens, signing, lastSid, bounds>>

LEMMA UnmovedIsQuiet ==
    ASSUME TypeOK, Unmoved, revokedSession' \subseteq Sids,
           faults' \in 0..MaxFaults, faults' >= faults
    PROVE  Quiet
BY DEF TypeOK, Unmoved, Quiet, sessions, apiKeys, lockouts, tokens, bounds

LEMMA UnmovedFaults ==
    ASSUME TypeOK, Unmoved, UNCHANGED revokedSession,
           Fault \/ NoFault \/ faults' = faults
    PROVE  Quiet
<1>1. faults' \in 0..MaxFaults /\ faults' >= faults
  BY FaultCounts, NoFaultCounts DEF NoFault
<1>2. revokedSession' \subseteq Sids
  BY DEF TypeOK
<1> QED
  BY <1>1, <1>2, UnmovedIsQuiet

LEMMA CheckBruteForceAndLockStep ==
    ASSUME IInv, NEW h \in Handlers, CheckBruteForceAndLock(h)
    PROVE  IInv'
<1> USE Parts
<1>1. run[h].pc = "check" /\ Unmoved /\ UNCHANGED revokedSession
  BY DEF CheckBruteForceAndLock, At, Unmoved
<1>2. CASE NoFault /\ Answer(h)
  BY <1>1, <1>2, UnmovedFaults, AnswerStep
<1>3. CASE /\ Fault \/ NoFault
           /\ Goto(h, IF run[h].op = "login" THEN "reset" ELSE "readEmail")
  <2>1. PICK p \in {"reset", "readEmail"} : Goto(h, p)
    BY <1>3
  <2>2. p \in Pcs
    BY DEF Pcs, LoginPcs
  <2>3. Others(h) /\ SameLocals(h) /\ run'[h].pc = p
    BY <2>1, <2>2, GotoRun
  <2>4. Moves(h)
    BY <1>1, <2>1, <2>3
    DEF Moves, LoginMove, CountMove, RoomMove, TokenMove, NonceMove, LoginPcs, SameLocals, SameRequest
  <2>5. PlaceOK(h)' /\ DeadOK(h)'
    BY <1>1, <2>1, <2>3
    DEF PlaceOK, DeadOK, LoginPcs, RotatePcs, ServePcs, SessionOps, SameLocals, SameRequest
  <2> QED
    BY <1>1, <1>3, <2>3, <2>4, <2>5, UnmovedFaults, HandlerStep
<1> QED
  BY <1>2, <1>3 DEF CheckBruteForceAndLock

LEMMA WriteLoginStep ==
    ASSUME IInv, NEW h \in Handlers, WriteLogin(h)
    PROVE  IInv'
<1> USE Parts
<1>1. run[h].pc = "writeLogin" /\ Unmoved /\ Goto(h, "insert")
      /\ RedisSet(revokedSession, revokedSession', run[h].ids)
  BY DEF WriteLogin, At, Unmoved
<1>2. Quiet
  <2>1. run[h].ids \subseteq Sids /\ revokedSession \subseteq Sids
    BY DEF TypeOK, Run
  <2>2. revokedSession' \subseteq revokedSession \cup run[h].ids
        /\ faults' \in 0..MaxFaults /\ faults' >= faults
    BY <1>1, RedisSets
  <2> QED
    BY <1>1, <2>1, <2>2, UnmovedIsQuiet
<1>3. Others(h) /\ SameLocals(h) /\ run'[h].pc = "insert"
  BY <1>1, GotoRun DEF Pcs, LoginPcs
<1>4. Moves(h)
  BY <1>1, <1>3
  DEF Moves, LoginMove, CountMove, RoomMove, TokenMove, NonceMove, LoginPcs, SameLocals, SameRequest
<1>5. PlaceOK(h)' /\ DeadOK(h)'
  BY <1>1, <1>3
  DEF PlaceOK, DeadOK, LoginPcs, RotatePcs, ServePcs, SessionOps, SameLocals, SameRequest
<1> QED
  BY <1>2, <1>3, <1>4, <1>5, HandlerStep

LEMMA RefreshHandler ==
    ASSUME NEW h, run'[h].op = "refresh", run'[h].pc \in {"rotated", "reuse", "lookup", "selectAll"},
           run'[h].token \in Tokens, run'[h].dead \subseteq revoked'
    PROVE  PlaceOK(h)' /\ DeadOK(h)'
<1>1. PlaceOK(h)'
  BY DEF PlaceOK, LoginPcs, RotatePcs, ServePcs, SessionOps
<1>2. DeadOK(h)'
  BY DEF DeadOK, RotatePcs, SessionOps
<1> QED
  BY <1>1, <1>2

LEMMA RefreshRequest ==
    ASSUME IInv, NEW h \in Handlers, run[h].pc \in {"rotated", "reuse", "lookup"} \cup RotatePcs
    PROVE  /\ run[h].op = "refresh" /\ run[h].token \in Tokens /\ run[h].dead \subseteq revoked
           /\ issued[run[h].token] >= 1
<1> USE Parts
<1>1. run[h].op = "refresh" /\ run[h].token \in Tokens
  BY DEF PlaceOK
<1>2. run[h].dead \subseteq revoked
  BY <1>1 DEF DeadOK
<1> QED
  BY <1>1, <1>2 DEF TokensIssued

LEMMA RotatedStep ==
    ASSUME IInv, NEW h \in Handlers, RotatedHit(h) \/ RotatedMiss(h)
    PROVE  IInv'
<1> USE Parts
<1>1. run[h].pc = "rotated" /\ Unmoved /\ UNCHANGED revokedSession
  BY DEF RotatedHit, RotatedMiss, At, Unmoved
<1>2. Quiet
  BY <1>1, UnmovedFaults DEF RotatedHit, RotatedMiss, RedisHit, RedisMiss
<1>3. PICK p \in {"reuse", "lookup"} : Goto(h, p)
  BY DEF RotatedHit, RotatedMiss
<1>4. Others(h) /\ SameLocals(h) /\ run'[h].pc = p
  BY <1>3, GotoRun DEF Pcs, AuthPcs
<1>5. Moves(h)
  BY <1>1, <1>3, <1>4, PlainMoves DEF LoginPcs, SameLocals, SameRequest
<1>6. PlaceOK(h)' /\ DeadOK(h)'
  <2>1. revoked' = revoked
    BY <1>1 DEF Unmoved, sessions
  <2> QED
    BY <1>1, <1>3, <1>4, <2>1, RefreshRequest, RefreshHandler DEF SameLocals, SameRequest
<1> QED
  BY <1>2, <1>4, <1>5, <1>6, HandlerStep

LEMMA HoldersKnown ==
    ASSUME TypeOK, NEW t, NEW s \in Holding(t)
    PROVE  s \in Sids /\ owner[s] \in Users /\ hash[s] = t
BY DEF TypeOK, Holding, Stored

LEMMA RevokeByOldTokenStep ==
    ASSUME IInv, NEW h \in Handlers, RevokeByOldToken(h)
    PROVE  IInv'
<1> USE Parts
<1>1. run[h].pc = "reuse" /\ Unmoved /\ UNCHANGED revokedSession /\ faults' = faults
  BY DEF RevokeByOldToken, At, Unmoved
<1>2. Quiet
  BY <1>1, UnmovedFaults
<1>3. CASE Answer(h)
  BY <1>1, <1>2, <1>3, AnswerStep
<1>4. ASSUME NEW s \in Holding(run[h].token),
             run' = [run EXCEPT ![h].pc = "selectAll", ![h].user = owner[s]]
      PROVE  IInv'
  <2>1. owner[s] \in Users
    BY HoldersKnown
  <2>2. Others(h) /\ SameRequest(h) /\ run'[h].pc = "selectAll" /\ run'[h].item = run[h].item
    BY <1>4, <2>1, ReuseRun DEF Pcs, ServePcs
  <2>3. Moves(h)
    BY <1>1, <2>2, PlainMoves DEF LoginPcs, SameRequest
  <2>4. PlaceOK(h)' /\ DeadOK(h)'
    <3>1. revoked' = revoked
      BY <1>1 DEF Unmoved, sessions
    <3> QED
      BY <1>1, <2>2, <3>1, RefreshRequest, RefreshHandler DEF SameRequest
  <2> QED
    BY <1>2, <2>2, <2>3, <2>4, HandlerStep
<1> QED
  BY <1>3, <1>4 DEF RevokeByOldToken

(* What a request may do that relies on something revoked.                 *)
Powerless(h) ==
    run[h].op \in SessionOps \cup {"signed"} /\ run[h].dead # {} =>
        /\ run'[h].ids = {}
        /\ run'[h].pc = "serve" => run[h].op # "use"
        /\ run'[h].pc = "select" => run[h].item \notin Sids

LEMMA ServedForNobody ==
    ASSUME IInv, NEW h \in Handlers, run[h].pc \in ServePcs,
           run[h].op \in SessionOps \cup {"signed"}, run[h].dead # {}
    PROVE  /\ run[h].user = NoUser /\ run[h].ids = {}
           /\ run[h].pc = "serve" => run[h].op # "use"
           /\ run[h].pc = "select" => run[h].item \notin Sids
BY Parts DEF DeadOK

LEMMA NobodysSessions ==
    SessionsOf(NoUser) = {} /\ Active(NoUser) = {}
BY DEF SessionsOf, Active, Stored

(* A request that goes on behind the checks.                               *)
LEMMA ServeHandler ==
    ASSUME IInv, NEW h \in Handlers, run[h].pc \in ServePcs, run'[h].pc \in ServePcs,
           SameRequest(h), run'[h].user = run[h].user, run'[h].sid = run[h].sid,
           run'[h].item = run[h].item, Powerless(h),
           revoked \subseteq revoked', deadKeys \subseteq deadKeys'
    PROVE  Moves(h) /\ PlaceOK(h)' /\ DeadOK(h)'
<1>1. PlaceOK(h) /\ DeadOK(h)
  BY Parts
<1>2. Moves(h)
  BY PlainMoves DEF ServePcs, LoginPcs, SameRequest
<1>3. /\ run'[h].op = run[h].op /\ run'[h].dead = run[h].dead
  BY DEF SameRequest
<1>4. PlaceOK(h)'
  BY <1>1, <1>3 DEF PlaceOK, ServePcs, LoginPcs, RotatePcs
<1>5. DeadOK(h)'
  BY <1>1, <1>3, ServedForNobody DEF DeadOK, Powerless, ServePcs, RotatePcs
<1> QED
  BY <1>2, <1>4, <1>5

LEMMA ServeStep ==
    ASSUME IInv, NEW h \in Handlers, run[h].pc \in ServePcs, run'[h].pc \in ServePcs,
           Others(h), SameRequest(h), run'[h].user = run[h].user, run'[h].sid = run[h].sid,
           run'[h].item = run[h].item, Powerless(h), Quiet
    PROVE  IInv'
BY ServeHandler, HandlerStep DEF Quiet

LEMMA SelectSessionStep ==
    ASSUME IInv, NEW h \in Handlers, SelectSession(h)
    PROVE  IInv'
<1> USE Parts
<1>1. run[h].pc = "select" /\ Unmoved /\ UNCHANGED revokedSession /\ faults' = faults
  BY DEF SelectSession, At, Unmoved
<1>2. Quiet
  BY <1>1, UnmovedFaults
<1>3. CASE Answer(h)
  BY <1>1, <1>2, <1>3, AnswerStep
<1>4. CASE run[h].item \in Stored /\ run' = [run EXCEPT ![h].pc = "writeRevoke", ![h].ids = {run[h].item}]
  <2>1. run[h].item \in Sids /\ {run[h].item} \in SUBSET Sids /\ "writeRevoke" \in Pcs
    BY <1>4 DEF Stored, Pcs, ServePcs
  <2>2. /\ Others(h) /\ SameRequest(h) /\ run'[h].pc = "writeRevoke"
        /\ run'[h].user = run[h].user /\ run'[h].sid = run[h].sid /\ run'[h].item = run[h].item
    BY <1>4, <2>1, SelectRun
  <2>3. Powerless(h)
    BY <1>1, <2>1, ServedForNobody DEF Powerless, ServePcs
  <2> QED
    BY <1>1, <1>2, <2>2, <2>3, ServeStep DEF ServePcs
<1> QED
  BY <1>3, <1>4 DEF SelectSession

LEMMA RedisQuiet ==
    ASSUME TypeOK, Unmoved, NEW S \in SUBSET Sids, RedisSet(revokedSession, revokedSession', S)
    PROVE  Quiet
<1>1. revokedSession' \subseteq revokedSession \cup S
      /\ faults' \in 0..MaxFaults /\ faults' >= faults
  BY RedisSets
<1> QED
  BY <1>1, UnmovedIsQuiet DEF TypeOK

LEMMA IdsType ==
    ASSUME TypeOK, NEW h \in Handlers
    PROVE  run[h].ids \in SUBSET Sids /\ run[h].pc \in Pcs /\ run[h].sid \in Sids \cup {0}
           /\ run[h].user \in Users \cup {NoUser} /\ run[h].token \in Tokens \cup {NoToken}
           /\ run[h].nonce \in Nonces \cup {0}
BY DEF TypeOK, Run

LEMMA WriteRevokeStep ==
    ASSUME IInv, NEW h \in Handlers, WriteRevoke(h)
    PROVE  IInv'
<1> USE Parts
<1>1. run[h].pc = "writeRevoke" /\ Unmoved /\ Goto(h, "commit")
      /\ RedisSet(revokedSession, revokedSession', run[h].ids)
  BY DEF WriteRevoke, At, Unmoved
<1>2. Quiet
  BY <1>1, IdsType, RedisQuiet
<1>3. Others(h) /\ SameLocals(h) /\ run'[h].pc = "commit"
  BY <1>1, GotoRun DEF Pcs, ServePcs
<1>4. Powerless(h)
  BY <1>1, <1>3, ServedForNobody DEF Powerless, ServePcs, SameLocals
<1> QED
  BY <1>1, <1>2, <1>3, <1>4, ServeStep DEF ServePcs, SameLocals

LEMMA SelectAllStep ==
    ASSUME IInv, NEW h \in Handlers, SelectAll(h)
    PROVE  IInv'
<1> USE Parts
<1>1. run[h].pc = "selectAll" /\ Unmoved /\ UNCHANGED revokedSession
  BY DEF SelectAll, At, Unmoved
<1>2. Quiet
  BY <1>1, UnmovedFaults DEF SelectAll
<1>3. "writeAll" \in Pcs
  BY DEF Pcs, ServePcs
<1>4. /\ Others(h) /\ SameRequest(h) /\ run'[h].pc = "writeAll"
      /\ run'[h].user = run[h].user /\ run'[h].sid = run[h].sid /\ run'[h].item = run[h].item
      /\ run'[h].ids = Active(run[h].user) \/ run'[h].ids = run[h].ids
  <2>1. CASE run' = [run EXCEPT ![h].pc = "writeAll", ![h].ids = Active(run[h].user)]
    <3>1. Active(run[h].user) \in SUBSET Sids
      BY DEF Active, SessionsOf, Stored
    <3> QED
      BY <1>3, <2>1, <3>1, SelectRun
  <2>2. CASE Goto(h, "writeAll")
    BY <1>3, <2>2, GotoRun DEF SameLocals
  <2> QED
    BY <2>1, <2>2 DEF SelectAll
<1>5. Powerless(h)
  BY <1>1, <1>4, ServedForNobody, NobodysSessions DEF Powerless, ServePcs
<1> QED
  BY <1>1, <1>2, <1>4, <1>5, ServeStep DEF ServePcs

LEMMA WriteAllStep ==
    ASSUME IInv, NEW h \in Handlers, WriteAll(h)
    PROVE  IInv'
<1> USE Parts
<1>1. run[h].pc = "writeAll" /\ Unmoved
      /\ RedisSet(revokedSession, revokedSession', run[h].ids)
  BY DEF WriteAll, At, Unmoved
<1>2. Quiet
  BY <1>1, IdsType, RedisQuiet
<1>3. /\ Others(h) /\ SameRequest(h) /\ run'[h].pc = "commit"
      /\ run'[h].user = run[h].user /\ run'[h].sid = run[h].sid /\ run'[h].item = run[h].item
      /\ run'[h].ids = SessionsOf(run[h].user)
  <2>1. SessionsOf(run[h].user) \in SUBSET Sids /\ "commit" \in Pcs
    BY DEF SessionsOf, Stored, Pcs, ServePcs
  <2> QED
    BY <2>1, SelectRun DEF WriteAll
<1>4. Powerless(h)
  BY <1>1, <1>3, ServedForNobody, NobodysSessions DEF Powerless, ServePcs
<1> QED
  BY <1>1, <1>2, <1>3, <1>4, ServeStep DEF ServePcs

LEMMA CommitRevokeStep ==
    ASSUME IInv, NEW h \in Handlers, CommitRevoke(h)
    PROVE  IInv'
<1> USE Parts
<1>1. run[h].pc = "commit" /\ Answer(h)
  BY DEF CommitRevoke, At
<1>2. revoked' = revoked \cup run[h].ids /\ run[h].ids \subseteq Sids
  BY IdsType DEF CommitRevoke
<1>3. Quiet
  BY <1>2 DEF Quiet, CommitRevoke, TypeOK, apiKeys, lockouts, tokens, bounds
<1> QED
  BY <1>1, <1>3, AnswerStep

(* A request with the access token of a session.                           *)
LEMMA SessionHandler ==
    ASSUME NEW h, run'[h].op \in SessionOps, run'[h].pc \in {"cache", "db"} \cup ServePcs,
           run'[h].sid \in Sids, run'[h].user \in Users, run'[h].dead \subseteq revoked',
           run'[h].dead \subseteq {run'[h].sid}, run'[h].pc \in ServePcs => run'[h].dead = {},
           run'[h].op = "revokeKey" => run'[h].item \in Keys
    PROVE  PlaceOK(h)' /\ DeadOK(h)'
<1>1. PlaceOK(h)'
  BY DEF PlaceOK, SessionOps, LoginPcs, RotatePcs, ServePcs
<1>2. DeadOK(h)'
  BY DEF DeadOK, SessionOps, RotatePcs, ServePcs
<1> QED
  BY <1>1, <1>2

LEMMA AuthRequest ==
    ASSUME IInv, NEW h \in Handlers, run[h].pc \in {"cache", "db"}
    PROVE  /\ run[h].op \in SessionOps /\ run[h].sid \in Sids /\ run[h].user \in Users
           /\ run[h].dead \subseteq revoked /\ run[h].dead \subseteq {run[h].sid}
           /\ run[h].op = "revokeKey" => run[h].item \in Keys
BY Parts DEF PlaceOK, DeadOK

LEMMA RevokedInCacheStep ==
    ASSUME IInv, NEW h \in Handlers, RevokedInCache(h)
    PROVE  IInv'
<1>1. run[h].pc = "cache" /\ Unmoved /\ UNCHANGED revokedSession /\ NoFault /\ Answer(h)
  BY DEF RevokedInCache, At, Unmoved, RedisHit
<1> QED
  BY <1>1, Parts, UnmovedFaults, AnswerStep

LEMMA NotInCacheStep ==
    ASSUME IInv, NEW h \in Handlers, NotInCache(h)
    PROVE  IInv'
<1> USE Parts
<1>1. run[h].pc = "cache" /\ Unmoved /\ UNCHANGED revokedSession /\ Goto(h, "db")
  BY DEF NotInCache, At, Unmoved
<1>2. Quiet
  BY <1>1, UnmovedFaults DEF NotInCache, RedisMiss
<1>3. Others(h) /\ SameLocals(h) /\ run'[h].pc = "db"
  BY <1>1, GotoRun DEF Pcs, AuthPcs
<1>4. Moves(h)
  BY <1>1, <1>3, PlainMoves DEF LoginPcs, SameLocals, SameRequest
<1>5. PlaceOK(h)' /\ DeadOK(h)'
  <2>1. revoked' = revoked
    BY <1>1 DEF Unmoved, sessions
  <2> QED
    BY <1>1, <1>3, <2>1, AuthRequest, SessionHandler DEF SameLocals, SameRequest, ServePcs
<1> QED
  BY <1>2, <1>3, <1>4, <1>5, HandlerStep

LEMMA IsSessionRevokedStep ==
    ASSUME IInv, NEW h \in Handlers, IsSessionRevoked(h)
    PROVE  IInv'
<1> USE Parts
<1>1. run[h].pc = "db" /\ Unmoved
  BY DEF IsSessionRevoked, At, Unmoved
<1>2. CASE RedisSet(revokedSession, revokedSession', {run[h].sid}) /\ Answer(h)
  <2>1. {run[h].sid} \in SUBSET Sids
    BY <1>1, AuthRequest
  <2>2. Quiet
    BY <1>1, <1>2, <2>1, RedisQuiet
  <2> QED
    BY <1>1, <1>2, <2>2, AnswerStep
<1>3. CASE run[h].sid \notin revoked /\ Serve(h) /\ NoFault /\ UNCHANGED revokedSession
  <2>1. Quiet
    BY <1>1, <1>3, UnmovedFaults
  <2>2. /\ Others(h) /\ SameRequest(h) /\ run'[h].user = run[h].user /\ run'[h].sid = run[h].sid
        /\ run'[h].pc \in {"rbac", "select", "selectAll", "serve"}
        /\ run[h].op # "logout" => run'[h].item = run[h].item
    <3> DEFINE p == ServePc(run[h].op)
               x == IF run[h].op = "logout" THEN run[h].sid ELSE run[h].item
    <3>1. p \in {"rbac", "select", "selectAll", "serve"}
      BY DEF ServePc
    <3>2. p \in Pcs
      BY <3>1 DEF Pcs, ServePcs
    <3>3. x \in Sids \cup Keys \cup {0}
      BY DEF TypeOK, Run
    <3>4. run' = [run EXCEPT ![h].pc = p, ![h].item = x]
      BY <1>3 DEF Serve
    <3>5. run[h].op # "logout" => x = run[h].item
      OBVIOUS
    <3> HIDE DEF p, x
    <3>6. /\ Others(h) /\ SameRequest(h) /\ run'[h].pc = p /\ run'[h].item = x
          /\ run'[h].user = run[h].user /\ run'[h].sid = run[h].sid
      BY <3>2, <3>3, <3>4, AcceptRun
    <3> QED
      BY <3>1, <3>5, <3>6
  <2>3. Moves(h)
    BY <1>1, <2>2, PlainMoves DEF LoginPcs, SameRequest
  <2>4. PlaceOK(h)' /\ DeadOK(h)'
    <3>1. revoked' = revoked
      BY <1>1 DEF Unmoved, sessions
    <3>2. run'[h].pc \in ServePcs
      BY <2>2 DEF ServePcs
    <3>3. run'[h].dead = {}
      BY <1>1, <1>3, <2>2, AuthRequest DEF SameRequest
    <3>4. run'[h].op = "revokeKey" => run'[h].item \in Keys
      BY <1>1, <2>2, AuthRequest DEF SameRequest
    <3>5. run'[h].op \in SessionOps /\ run'[h].sid \in Sids /\ run'[h].user \in Users
      BY <1>1, <2>2, AuthRequest DEF SameRequest
    <3> QED
      BY <3>2, <3>3, <3>4, <3>5, SessionHandler
  <2> QED
    BY <2>1, <2>2, <2>3, <2>4, HandlerStep
<1> QED
  BY <1>2, <1>3 DEF IsSessionRevoked

LEMMA CheckStatusStep ==
    ASSUME IInv, NEW h \in Handlers, CheckStatus(h)
    PROVE  IInv'
<1> USE Parts
<1>1. run[h].pc = "rbac" /\ Unmoved /\ UNCHANGED revokedSession /\ faults' = faults
  BY DEF CheckStatus, At, Unmoved
<1>2. Quiet
  BY <1>1, UnmovedFaults
<1>3. CASE Answer(h)
  BY <1>1, <1>2, <1>3, AnswerStep
<1>4. CASE run[h].user \in Users /\ Goto(h, "serve")
  <2>1. Others(h) /\ SameLocals(h) /\ run'[h].pc = "serve"
    BY <1>4, GotoRun DEF Pcs, ServePcs
  <2>2. Powerless(h)
    BY <1>1, <1>4, ServedForNobody, AccessAssumption DEF Powerless, ServePcs
  <2> QED
    BY <1>1, <1>2, <2>1, <2>2, ServeStep DEF ServePcs, SameLocals
<1> QED
  BY <1>3, <1>4 DEF CheckStatus

LEMMA DeleteSessionStep ==
    ASSUME IInv, NEW h \in Handlers, DeleteSession(h)
    PROVE  IInv'
<1> USE Parts
<1>1. run[h].pc = "serve" /\ Unmoved /\ UNCHANGED revokedSession /\ faults' = faults
  BY DEF DeleteSession, At, Unmoved
<1>2. Quiet
  BY <1>1, UnmovedFaults
<1>3. CASE Answer(h)
  BY <1>1, <1>2, <1>3, AnswerStep
<1>4. CASE run[h].item \in SessionsOf(run[h].user) /\ Goto(h, "select")
  <2>1. Others(h) /\ SameLocals(h) /\ run'[h].pc = "select"
    BY <1>4, GotoRun DEF Pcs, ServePcs
  <2>2. Powerless(h)
    BY <1>1, <1>4, ServedForNobody, NobodysSessions DEF Powerless, ServePcs
  <2> QED
    BY <1>1, <1>2, <2>1, <2>2, ServeStep DEF ServePcs, SameLocals
<1> QED
  BY <1>3, <1>4 DEF DeleteSession

LEMMA FinishStep ==
    ASSUME IInv, NEW h \in Handlers, Finish(h)
    PROVE  IInv'
<1>1. run[h].pc = "serve" /\ Unmoved /\ UNCHANGED revokedSession /\ faults' = faults /\ Answer(h)
  BY DEF Finish, At, Unmoved
<1> QED
  BY <1>1, Parts, UnmovedFaults, AnswerStep

LEMMA HandleCreateAPIKeyStep ==
    ASSUME IInv, NEW h \in Handlers, HandleCreateAPIKey(h)
    PROVE  IInv'
<1> USE Parts
<1>1. run[h].pc = "serve" /\ Answer(h) /\ run[h].user \in Users \cup {NoUser}
  BY IdsType DEF HandleCreateAPIKey, At
<1>2. keyOwner' \in [Keys -> Users \cup {NoUser}]
  BY <1>1 DEF HandleCreateAPIKey, TypeOK
<1>3. Quiet
  BY <1>2 DEF Quiet, HandleCreateAPIKey, TypeOK, sessions, lockouts, tokens, bounds
<1> QED
  BY <1>1, <1>3, AnswerStep

LEMMA HandleRevokeAPIKeyStep ==
    ASSUME IInv, NEW h \in Handlers, HandleRevokeAPIKey(h)
    PROVE  IInv'
<1> USE Parts
<1>1. run[h].pc = "serve" /\ Answer(h)
  BY DEF HandleRevokeAPIKey, At
<1>2. run[h].item \in Keys
  BY DEF HandleRevokeAPIKey, PlaceOK
<1>3. deadKeys \subseteq deadKeys' /\ deadKeys' \subseteq Keys
  BY <1>2 DEF HandleRevokeAPIKey, TypeOK
<1>4. Quiet
  BY <1>3 DEF Quiet, HandleRevokeAPIKey, TypeOK, sessions, lockouts, tokens, bounds
<1> QED
  BY <1>1, <1>4, AnswerStep

LEMMA NonceReusedStep ==
    ASSUME IInv, NEW h \in Handlers, NonceReused(h)
    PROVE  IInv'
<1>1. run[h].pc = "nonceGet" /\ Unmoved /\ UNCHANGED revokedSession /\ NoFault /\ Answer(h)
  BY DEF NonceReused, At, Unmoved, RedisHit
<1> QED
  BY <1>1, Parts, UnmovedFaults, AnswerStep

LEMMA DatabaseFailsStep ==
    ASSUME IInv, NEW h \in Handlers, DatabaseFails(h)
    PROVE  IInv'
<1> USE Parts
<1>1. Answer(h) /\ (run[h].pc = "rotate" => run[h].token \in aborted')
  BY DEF DatabaseFails, At
<1>2. faults' \in 0..MaxFaults /\ faults' >= faults
  BY FaultCounts DEF DatabaseFails
<1>3. Quiet
  BY <1>2 DEF Quiet, DatabaseFails, TypeOK, sessions, apiKeys, lockouts, bounds
<1> QED
  BY <1>1, <1>3, AnswerStep

-------------------------------------------------------------------------------
(* Arrivals *)

LEMMA ArrivalQuiet ==
    ASSUME TypeOK, NEW h \in Handlers, NEW r \in Run, Arrive(h, r), UNCHANGED raced
    PROVE  Quiet /\ Others(h) /\ run'[h] = r /\ run[h].pc = "idle"
<1>1. requests' \in 0..MaxRequests
  BY AccessAssumption DEF Arrive, TypeOK
<1>2. Quiet
  BY <1>1 DEF Arrive, TypeOK, Quiet, sessions, apiKeys, tokens
<1> QED
  BY <1>2, RunTo DEF Arrive, At

LEMMA RefreshStep ==
    ASSUME IInv, NEW h \in Handlers, NEW t \in Tokens, Refresh(h, t)
    PROVE  IInv'
<1> USE Parts
<1> DEFINE D == Holding(t) \cap revoked
           r == [IdleRun EXCEPT !.pc = "rotated", !.op = "refresh", !.token = t, !.dead = D]
<1>1. D \subseteq Sids /\ D \subseteq revoked
  BY DEF Holding, Stored
<1>2. Arrive(h, r) /\ UNCHANGED raced /\ issued[t] > 0
  BY DEF Refresh
<1> HIDE DEF D
<1>3. r \in Run /\ r.pc = "rotated" /\ r.op = "refresh" /\ r.token = t /\ r.dead = D
  BY <1>1, IdleType DEF Run, Pcs, AuthPcs, Ops, IdleRun
<1> HIDE DEF r
<1>4. Quiet /\ Others(h) /\ run'[h] = r /\ run[h].pc = "idle"
  BY <1>2, <1>3, ArrivalQuiet
<1>5. issued[t] >= 1
  BY <1>2 DEF HistoryOK
<1>6. Moves(h)
  BY <1>3, <1>4, <1>5, PlainMoves DEF LoginPcs
<1>7. PlaceOK(h)' /\ DeadOK(h)'
  BY <1>1, <1>3, <1>4, RefreshHandler DEF Quiet
<1> QED
  BY <1>4, <1>6, <1>7, HandlerStep

LEMMA SessionRequestStep ==
    ASSUME IInv, NEW h \in Handlers, NEW s \in Sids, NEW op \in SessionOps,
           NEW x \in Items(op), SessionRequest(h, s, op, x)
    PROVE  IInv'
<1> USE Parts
<1> DEFINE D == {s} \cap revoked
           u == owner[s]
           r == [IdleRun EXCEPT !.pc = "cache", !.op = op, !.user = u, !.sid = s, !.item = x, !.dead = D]
<1>1. D \subseteq Sids /\ D \subseteq revoked /\ D \subseteq {s}
      /\ x \in Sids \cup Keys \cup {0} /\ (op = "revokeKey" => x \in Keys)
  BY DEF Items
<1>2. u \in Users
  BY DEF SessionRequest, Stored, TypeOK
<1>3. Arrive(h, r) /\ UNCHANGED raced
  BY DEF SessionRequest
<1> HIDE DEF D, u
<1>4. r \in Run /\ r.pc = "cache" /\ r.op = op /\ r.user = u /\ r.sid = s /\ r.item = x /\ r.dead = D
  BY <1>1, <1>2 DEF Run, Pcs, AuthPcs, Ops, IdleRun
<1> HIDE DEF r
<1>5. Quiet /\ Others(h) /\ run'[h] = r /\ run[h].pc = "idle"
  BY <1>3, <1>4, ArrivalQuiet
<1>6. Moves(h)
  BY <1>4, <1>5, PlainMoves DEF LoginPcs, SessionOps
<1>7. PlaceOK(h)' /\ DeadOK(h)'
  BY <1>1, <1>2, <1>4, <1>5, SessionHandler DEF Quiet, ServePcs
<1> QED
  BY <1>5, <1>6, <1>7, HandlerStep

(* A request that is accepted without a check.                             *)
LEMMA UnverifiedStep ==
    ASSUME IInv, NEW h \in Handlers, NEW op \in SessionOps, NEW x \in Items(op),
           NEW D \in SUBSET (Sids \cup Keys), Unverified(h, op, x, D)
    PROVE  IInv'
<1> USE Parts
<1> DEFINE p == ServePc(op)
           r == [IdleRun EXCEPT !.pc = p, !.op = op, !.item = x, !.dead = D]
<1>1. /\ p \in {"rbac", "select", "selectAll", "serve"}
      /\ p = "serve" => op # "use"
      /\ p = "select" => op = "logout"
  BY DEF ServePc
<1>2. /\ x \in Sids \cup Keys \cup {0} /\ (op = "revokeKey" => x \in Keys)
      /\ op = "logout" => x \notin Sids
  BY AccessAssumption DEF Items
<1>3. Arrive(h, r) /\ UNCHANGED raced
  BY DEF Unverified
<1> HIDE DEF p
<1>4. r \in Run /\ r.pc = p /\ r.op = op /\ r.item = x /\ r.dead = D /\ r.user = NoUser /\ r.ids = {}
  BY <1>1, <1>2 DEF Run, Pcs, ServePcs, Ops, IdleRun
<1> HIDE DEF r
<1>5. Quiet /\ Others(h) /\ run'[h] = r /\ run[h].pc = "idle"
  BY <1>3, <1>4, ArrivalQuiet
<1>6. Moves(h)
  BY <1>1, <1>4, <1>5, PlainMoves DEF LoginPcs, SessionOps
<1>7. PlaceOK(h)'
  BY <1>1, <1>2, <1>4, <1>5 DEF PlaceOK, SessionOps, LoginPcs, RotatePcs, ServePcs
<1>8. DeadOK(h)'
  BY <1>1, <1>2, <1>4, <1>5 DEF DeadOK, SessionOps, RotatePcs, ServePcs
<1> QED
  BY <1>5, <1>6, <1>7, <1>8, HandlerStep

LEMMA BearerRefreshTokenStep ==
    ASSUME IInv, NEW h \in Handlers, NEW t \in Tokens, NEW op \in SessionOps, NEW x \in Items(op),
           BearerRefreshToken(h, t, op, x)
    PROVE  IInv'
<1>1. Holding(t) \cap revoked \in SUBSET (Sids \cup Keys)
  BY DEF Holding, Stored
<1> QED
  BY <1>1, UnverifiedStep DEF BearerRefreshToken

LEMMA UnsignedRequestStep ==
    ASSUME IInv, NEW h \in Handlers, NEW k \in Keys, NEW op \in {"use", "open"},
           UnsignedRequest(h, k, op)
    PROVE  IInv'
<1>1. {k} \cap deadKeys \in SUBSET (Sids \cup Keys) /\ op \in SessionOps /\ 0 \in Items(op)
  BY DEF SessionOps, Items
<1> QED
  BY <1>1, UnverifiedStep DEF UnsignedRequest

(* A signed request before its checks.                                     *)
LEMMA SignedHandler ==
    ASSUME NEW h, run'[h].op = "signed", run'[h].pc \in {"nonceGet", "nonceSet", "keyLookup", "serve"},
           run'[h].item \in Keys, run'[h].nonce \in Nonces, run'[h].dead \subseteq deadKeys',
           run'[h].dead \subseteq {run'[h].item}, run'[h].pc = "serve" => run'[h].dead = {}
    PROVE  PlaceOK(h)' /\ DeadOK(h)'
<1>1. PlaceOK(h)'
  BY DEF PlaceOK, SessionOps, LoginPcs, RotatePcs, ServePcs
<1>2. DeadOK(h)'
  BY DEF DeadOK, SessionOps, RotatePcs, ServePcs
<1> QED
  BY <1>1, <1>2

LEMMA SignedRequestStep ==
    ASSUME IInv, NEW h \in Handlers, NEW k \in Keys, NEW n \in Nonces, SignedRequest(h, k, n)
    PROVE  IInv'
<1> USE Parts
<1> DEFINE D == {k} \cap deadKeys
           r == [IdleRun EXCEPT !.pc = "nonceGet", !.op = "signed", !.item = k, !.nonce = n, !.dead = D]
<1>1. D \subseteq Keys /\ D \subseteq deadKeys /\ D \subseteq {k}
  OBVIOUS
<1>2. Arrive(h, r) /\ UNCHANGED raced
  BY DEF SignedRequest
<1> HIDE DEF D
<1>3. r \in Run /\ r.pc = "nonceGet" /\ r.op = "signed" /\ r.item = k /\ r.nonce = n /\ r.dead = D
  BY <1>1 DEF Run, Pcs, AuthPcs, Ops, IdleRun
<1> HIDE DEF r
<1>4. Quiet /\ Others(h) /\ run'[h] = r /\ run[h].pc = "idle"
  BY <1>2, <1>3, ArrivalQuiet
<1>5. Moves(h)
  BY <1>3, <1>4, PlainMoves DEF LoginPcs
<1>6. PlaceOK(h)' /\ DeadOK(h)'
  <2>1. D \subseteq deadKeys'
    BY <1>1, <1>4 DEF Quiet
  <2> QED
    BY <1>1, <1>3, <1>4, <2>1, SignedHandler
<1> QED
  BY <1>4, <1>5, <1>6, HandlerStep

(* Nobody moves.                                                           *)
LEMMA EnvironmentStep ==
    ASSUME IInv, Tick \/ \E u \in Users : SetStatus(u)
    PROVE  IInv'
<1> USE Parts
<1>1. UNCHANGED run /\ run' \in [Handlers -> Run]
  BY DEF Tick, SetStatus, TypeOK
<1>2. Quiet
  <2>1. CASE Tick
    <3>1. now' \in 0..MaxSeconds
      BY <2>1, AccessAssumption DEF Tick, TypeOK
    <3> QED
      BY <2>1, <3>1 DEF Tick, TypeOK, Quiet, sessions, apiKeys, lockouts, tokens
  <2>2. CASE \E u \in Users : SetStatus(u)
    <3>1. requests' \in 0..MaxRequests /\ suspended' \subseteq Users
      BY <2>2, AccessAssumption DEF SetStatus, TypeOK
    <3> QED
      BY <2>2, <3>1 DEF SetStatus, TypeOK, Quiet, sessions, apiKeys, lockouts, tokens
  <2> QED
    BY <2>1, <2>2
<1>3. \A g \in Handlers : PlaceOK(g)' /\ DeadOK(g)'
  BY <1>1, <1>2, HandlerFrame DEF Quiet
<1>4. \A g \in Handlers : Moves(g)
  BY <1>1, StandStill
<1> QED
  BY <1>1, <1>2, <1>3, <1>4, QuietStep

-------------------------------------------------------------------------------
(* The steps of a login *)

LEMMA LoginStep ==
    ASSUME IInv, NEW h \in Handlers, NEW u \in Users, NEW good \in BOOLEAN, Login(h, u, good)
    PROVE  IInv'
<1> USE Parts
<1> DEFINE o == IF good THEN "login" ELSE "badLogin"
           r == [IdleRun EXCEPT !.pc = "check", !.op = o, !.user = u]
<1>1. Arrive(h, r) /\ raced' = raced \cup {i \in {u, IP} : LoggingIn(i) # {}}
  BY DEF Login
<1>2. o \in {"login", "badLogin"}
  OBVIOUS
<1> HIDE DEF o
<1>3. r \in Run /\ r.pc = "check" /\ r.op = o /\ r.user = u /\ r.dead = {}
  BY <1>2 DEF Run, Pcs, LoginPcs, Ops, IdleRun
<1> HIDE DEF r
<1>4. Others(h) /\ run'[h] = r /\ run[h].pc = "idle"
  BY <1>1, <1>3, RunTo DEF Arrive, At
<1>5. requests' \in 0..MaxRequests
  BY <1>1, AccessAssumption DEF Arrive, TypeOK
<1>6. UNCHANGED <<owner, hash, revoked, keyOwner, deadKeys, failed, locked, failures, suspended,
                  revokedSession, rotatedToken, issued, aborted, nonceUsed, served, excused,
                  lastSid, now, faults>>
  BY <1>1 DEF Arrive, sessions, apiKeys, tokens, signing
<1>7. TypeOK'
  BY <1>4, <1>5, <1>6 DEF TypeOK, Others
<1>8. OneLogin'
  <2> SUFFICES ASSUME NEW i \in Identities \ raced', NEW f \in LoggingIn(i)', NEW g \in LoggingIn(i)'
               PROVE  f = g
    BY DEF OneLogin
  <2>1. CASE i \in {u, IP}
    <3>1. LoggingIn(i) = {}
      BY <1>1, <2>1
    <3>2. LoggingIn(i)' \subseteq {h}
      BY <1>4, <3>1 DEF LoggingIn, Others
    <3> QED
      BY <3>2
  <2>2. CASE i \notin {u, IP}
    <3>1. LoggingIn(i)' \subseteq LoggingIn(i)
      BY <1>3, <1>4, <2>2 DEF LoggingIn, Others
    <3> QED
      BY <1>1, <3>1 DEF OneLogin
  <2> QED
    BY <2>1, <2>2
<1>9. CountMove(h) /\ RoomMove(h) /\ TokenMove(h) /\ NonceMove(h)
  BY <1>2, <1>3, <1>4 DEF CountMove, RoomMove, TokenMove, NonceMove
<1>10. \A g \in Handlers : CountMove(g) /\ RoomMove(g) /\ TokenMove(g) /\ NonceMove(g)
  BY <1>4, <1>9, StandStill DEF Others, Moves
<1>11. LockoutFrame /\ SessionFrame /\ TokenFrame /\ NonceFrame
  BY <1>1, <1>6, <1>10 DEF LockoutFrame, SessionFrame, TokenFrame, NonceFrame, TypeOK, signing
<1>12. HistoryOK'
  BY <1>6, <1>11, SessionFrames DEF HistoryOK
<1>13. PlaceOK(h)' /\ DeadOK(h)'
  BY <1>2, <1>3, <1>4 DEF PlaceOK, DeadOK, LoginPcs, RotatePcs, ServePcs, SessionOps
<1>14. \A g \in Handlers : PlaceOK(g)' /\ DeadOK(g)'
  BY <1>4, <1>6, <1>13, OtherHandlers
<1> QED
  BY <1>7, <1>8, <1>11, <1>12, <1>14, Whole, LockoutFrames, SessionFrames, TokenFrames, NonceFrames

(* A login in flight.                                                      *)
LEMMA LoginRequest ==
    ASSUME IInv, NEW h \in Handlers, run[h].pc \in LoginPcs
    PROVE  /\ run[h].op \in {"login", "badLogin"} /\ run[h].user \in Users
           /\ h \in LoggingIn(IP) /\ h \in LoggingIn(run[h].user)
BY Parts DEF PlaceOK, LoggingIn

LEMMA IdentityKnown ==
    ASSUME IInv, NEW h \in Handlers, run[h].pc \in {"readEmail", "writeEmail", "readIP", "writeIP"}
    PROVE  Identity(h) \in Identities /\ h \in LoggingIn(Identity(h))
BY LoginRequest DEF Identity, Identities, LoginPcs

(* Steps of a login that change counts only.                               *)
LEMMA CountStep ==
    ASSUME IInv, NEW h \in Handlers, run[h].pc \in LoginPcs, Others(h), TypeOK', LoginMove(h),
           UNCHANGED <<sessions, apiKeys, suspended, revokedSession, tokens, signing, lastSid, bounds, raced>>,
           failures' \in [Identities -> Nat],
           run'[h].pc \notin {"writeLogin", "insert", "writeRotate", "rotate", "nonceSet", "keyLookup"},
           run'[h].op \in {"login", "badLogin", "use"}, PlaceOK(h)', DeadOK(h)',
           LockoutCounts', CountsFresh'
    PROVE  IInv'
<1> USE Parts
<1>1. run[h].pc # "rotate" /\ run'[h].op # "refresh"
  BY DEF LoginPcs
<1>2. RoomMove(h) /\ TokenMove(h) /\ NonceMove(h)
  BY <1>1 DEF RoomMove, TokenMove, NonceMove
<1>3. \A g \in Handlers : LoginMove(g) /\ RoomMove(g) /\ TokenMove(g) /\ NonceMove(g)
  BY <1>2, StandStill DEF Others, Moves
<1>4. LoginFrame /\ SessionFrame /\ TokenFrame /\ NonceFrame
  BY <1>3 DEF LoginFrame, SessionFrame, TokenFrame, NonceFrame, sessions, tokens
<1>5. HistoryOK'
  BY <1>4, SessionFrames DEF HistoryOK, tokens, signing
<1>6. \A g \in Handlers : PlaceOK(g)' /\ DeadOK(g)'
  BY OtherHandlers DEF sessions, apiKeys
<1> QED
  BY <1>4, <1>5, <1>6, Whole, OneLoginFrame, SessionFrames, TokenFrames, NonceFrames

(* The place of a login that has not ended.                                *)
LEMMA LoginHandler ==
    ASSUME NEW h, run'[h].op \in {"login", "badLogin"}, run'[h].user \in Users,
           run'[h].pc \in LoginPcs,
           run'[h].pc \in {"writeLogin", "insert"} => run'[h].sid \in Sids /\ run'[h].token \in Tokens
    PROVE  PlaceOK(h)' /\ DeadOK(h)'
<1>1. PlaceOK(h)'
  BY DEF PlaceOK, LoginPcs, RotatePcs, ServePcs, SessionOps
<1>2. DeadOK(h)'
  BY DEF DeadOK, LoginPcs, RotatePcs, ServePcs, SessionOps
<1> QED
  BY <1>1, <1>2

LEMMA ReadFailuresStep ==
    ASSUME IInv, NEW h \in Handlers, ReadFailures(h)
    PROVE  IInv'
<1> USE Parts
<1> DEFINE p == IF run[h].pc = "readEmail" THEN "writeEmail" ELSE "writeIP"
<1>1. PICK c \in {failed[Identity(h)], -1} :
        /\ IF c = failed[Identity(h)] THEN NoFault ELSE Fault
        /\ run' = [run EXCEPT ![h].count = c, ![h].pc = p]
  BY DEF ReadFailures
<1>2. run[h].pc \in {"readEmail", "readIP"} /\ run[h].pc \in LoginPcs
  BY DEF ReadFailures, LoginPcs
<1>3. p \in Pcs /\ p \in {"writeEmail", "writeIP"} /\ p \in LoginPcs
      /\ (p = "writeEmail" <=> run[h].pc = "readEmail")
  BY DEF Pcs, LoginPcs
<1>4. Identity(h) \in Identities /\ c \in Nat \cup {-1}
  BY <1>2, IdentityKnown DEF TypeOK
<1> HIDE DEF p
<1>5. /\ Others(h) /\ SameRequest(h) /\ run'[h].pc = p /\ run'[h].count = c
      /\ run'[h].user = run[h].user /\ run'[h].sid = run[h].sid
  BY <1>1, <1>3, <1>4, ReadRun
<1>6. UNCHANGED <<sessions, apiKeys, suspended, revokedSession, tokens, signing, lastSid, bounds>>
      /\ UNCHANGED <<failed, locked, failures, raced>>
  BY DEF ReadFailures, lockouts
<1>7. faults' \in 0..MaxFaults /\ (faults' = 0 => faults = 0 /\ c = failed[Identity(h)])
  <2>1. CASE c = failed[Identity(h)]
    BY <1>1, <2>1, NoFaultCounts DEF NoFault
  <2>2. CASE c # failed[Identity(h)]
    BY <1>1, <2>2, FaultCounts
  <2> QED
    BY <2>1, <2>2
<1>8. TypeOK'
  BY <1>5, <1>6, <1>7 DEF TypeOK, Others, sessions, apiKeys, tokens, signing, bounds
<1>9. Identity(h)' = Identity(h)
  BY <1>2, <1>3, <1>5 DEF Identity
<1>10. LockoutCounts'
  BY <1>6, <1>7 DEF LockoutCounts
<1>11. CountsFresh'
  <2> SUFFICES ASSUME faults' = 0, NEW g \in Handlers, run'[g].pc \in {"writeEmail", "writeIP"},
                      Identity(g)' \notin raced'
               PROVE  run'[g].count = failed'[Identity(g)']
    BY DEF CountsFresh
  <2>1. CASE g = h
    BY <1>5, <1>6, <1>7, <1>9, <2>1
  <2>2. CASE g # h
    <3>1. run'[g] = run[g]
      BY <1>5, <2>2 DEF Others
    <3>2. Identity(g)' = Identity(g)
      BY <3>1 DEF Identity
    <3> QED
      BY <1>6, <1>7, <3>1, <3>2 DEF CountsFresh
  <2> QED
    BY <2>1, <2>2
<1>12. run'[h].op \in {"login", "badLogin"} /\ run'[h].user \in Users
  BY <1>2, <1>5, LoginRequest DEF SameRequest
<1>13. PlaceOK(h)' /\ DeadOK(h)'
  BY <1>3, <1>5, <1>12, LoginHandler
<1>14. LoginMove(h)
  BY <1>2, <1>5 DEF LoginMove
<1>15. failures' \in [Identities -> Nat]
  BY <1>6 DEF HistoryOK
<1>16. run'[h].pc \notin {"writeLogin", "insert", "writeRotate", "rotate", "nonceSet", "keyLookup"}
  BY <1>3, <1>5
<1> QED
  BY <1>2, <1>5, <1>6, <1>8, <1>10, <1>11, <1>12, <1>13, <1>14, <1>15, <1>16, CountStep

(* The count of an identity that has not raced is nobody else's.           *)
LEMMA OthersFresh ==
    ASSUME IInv, NEW h \in Handlers, Others(h), raced' = raced, NEW I \in SUBSET Identities,
           \A i \in I : h \in LoggingIn(i),
           \A i \in Identities \ I : failed'[i] = failed[i],
           run'[h].pc \notin {"writeEmail", "writeIP"}, faults' = 0 => faults = 0
    PROVE  CountsFresh'
<1> USE Parts
<1> SUFFICES ASSUME faults' = 0, NEW g \in Handlers, run'[g].pc \in {"writeEmail", "writeIP"},
                    Identity(g)' \notin raced'
             PROVE  run'[g].count = failed'[Identity(g)']
  BY DEF CountsFresh
<1>1. g # h /\ run'[g] = run[g]
  BY DEF Others
<1>2. Identity(g)' = Identity(g)
  BY <1>1 DEF Identity
<1>3. Identity(g) \in Identities \ raced /\ g \in LoggingIn(Identity(g))
  BY <1>1, <1>2, IdentityKnown
<1>4. Identity(g) \notin I
  BY <1>1, <1>3 DEF OneLogin
<1> QED
  BY <1>1, <1>2, <1>3, <1>4 DEF CountsFresh

LEMMA RecordLockoutFailureStep ==
    ASSUME IInv, NEW h \in Handlers, RecordLockoutFailure(h)
    PROVE  IInv'
<1> USE Parts
<1> DEFINE i == Identity(h)
           n == run[h].count + 1
<1>1. run[h].pc \in {"writeEmail", "writeIP"} /\ run[h].pc \in LoginPcs
  BY DEF RecordLockoutFailure, LoginPcs
<1>2. i \in Identities /\ h \in LoggingIn(i)
  BY <1>1, IdentityKnown
<1>3. run[h].count \in Nat \cup {-1}
  BY DEF TypeOK, Run
<1>4. /\ failures' = [failures EXCEPT ![i] = @ + 1]
      /\ \/ /\ run[h].count = -1
            /\ failed' = IF failed[i] = -1 THEN [failed EXCEPT ![i] = 1] ELSE failed
            /\ faults' = faults
            /\ locked' = locked
         \/ /\ run[h].count # -1
            /\ failed' = [failed EXCEPT ![i] = n]
            /\ locked' = IF n >= MaxFailures THEN locked \cup {i} ELSE locked \ {i}
            /\ faults' = faults
         \/ Fault /\ failed' = failed /\ locked' = locked
  BY DEF RecordLockoutFailure, NoFault
<1>5. UNCHANGED <<sessions, apiKeys, suspended, revokedSession, tokens, signing, lastSid, bounds>>
      /\ raced' = raced
  BY DEF RecordLockoutFailure
<1>6. Others(h) /\ \/ SameLocals(h) /\ run'[h].pc = "readIP"
                   \/ run'[h] = IdleRun
  <2>1. CASE Goto(h, "readIP")
    BY <2>1, GotoRun DEF Pcs, LoginPcs
  <2>2. CASE Answer(h)
    BY <2>2, AnswerRun
  <2> QED
    BY <2>1, <2>2 DEF RecordLockoutFailure, NextIdentity
<1> HIDE DEF i
<1>7. failures \in [Identities -> Nat] /\ failed \in [Identities -> Nat \cup {-1}]
      /\ locked \subseteq Identities /\ MaxFailures \in Nat /\ MaxFailures > 0
      /\ faults \in 0..MaxFaults
  BY AccessAssumption DEF HistoryOK, TypeOK
<1>8. faults' \in 0..MaxFaults /\ (faults' = 0 => faults = 0 /\ ~Fault)
  BY <1>4, <1>7, FaultCounts
<1>9. n \in Nat
  BY <1>3
<1>10. /\ failures' \in [Identities -> Nat] /\ failed' \in [Identities -> Nat \cup {-1}]
       /\ locked' \subseteq Identities
  BY <1>2, <1>4, <1>7, <1>9
<1>11. \A j \in Identities \ {i} : failures'[j] = failures[j] /\ failed'[j] = failed[j]
                                  /\ (j \in locked' <=> j \in locked)
  BY <1>2, <1>4, <1>7
<1>12. TypeOK'
  BY <1>5, <1>6, <1>8, <1>10 DEF TypeOK, Others, sessions, apiKeys, tokens, signing, bounds
<1>13. LockoutCounts'
  <2> SUFFICES ASSUME faults' = 0, NEW j \in Identities \ raced'
               PROVE  /\ failures'[j] = (IF failed'[j] = -1 THEN 0 ELSE failed'[j])
                      /\ MaxFailures > 1 => (j \in locked' <=> failures'[j] >= MaxFailures)
    BY DEF LockoutCounts
  <2>1. /\ failures[j] = (IF failed[j] = -1 THEN 0 ELSE failed[j])
        /\ MaxFailures > 1 => (j \in locked <=> failures[j] >= MaxFailures)
    BY <1>5, <1>8 DEF LockoutCounts
  <2>2. CASE j # i
    BY <1>11, <2>1, <2>2
  <2>3. CASE j = i
    <3>1. run[h].count = failed[i]
      BY <1>1, <1>5, <1>8, <2>3 DEF CountsFresh, i
    <3>2. failures'[i] = failures[i] + 1
      BY <1>2, <1>4, <1>7
    <3>3. CASE run[h].count = -1
      <4>1. failed'[i] = 1 /\ (i \in locked' <=> i \in locked)
        BY <1>2, <1>4, <1>7, <1>8, <3>1, <3>3
      <4>2. failures[i] = 0
        BY <2>1, <2>3, <3>1, <3>3
      <4> QED
        BY <1>7, <2>1, <2>3, <3>2, <4>1, <4>2
    <3>4. CASE run[h].count # -1
      <4>1. failed'[i] = n /\ (i \in locked' <=> n >= MaxFailures)
        BY <1>2, <1>4, <1>7, <1>8, <3>4
      <4>2. failures[i] = run[h].count
        BY <2>1, <2>3, <3>1, <3>4
      <4>3. failures'[i] = n /\ n # -1
        BY <1>9, <3>2, <4>2
      <4> QED
        BY <2>3, <4>1, <4>3
    <3> QED
      BY <3>3, <3>4
  <2> QED
    BY <2>2, <2>3
<1>14. run'[h].pc \in {"readIP", "idle"} /\ run'[h].op \in {"login", "badLogin", "use"}
  BY <1>1, <1>6, LoginRequest, IdleType DEF SameLocals, SameRequest
<1>15. CountsFresh'
  <2> DEFINE I == {i}
  <2>1. I \in SUBSET Identities /\ (\A j \in I : h \in LoggingIn(j))
        /\ (\A j \in Identities \ I : failed'[j] = failed[j])
    BY <1>2, <1>11
  <2> HIDE DEF I
  <2>2. run'[h].pc \notin {"writeEmail", "writeIP"}
    BY <1>14
  <2> QED
    BY <1>5, <1>6, <1>8, <2>1, <2>2, OthersFresh
<1>16. LoginMove(h)
  BY <1>1, <1>6, IdleType DEF LoginMove, LoginPcs, SameLocals
<1>17. PlaceOK(h)' /\ DeadOK(h)'
  <2>1. CASE run'[h] = IdleRun
    BY <2>1, IdleHandler
  <2>2. CASE SameLocals(h) /\ run'[h].pc = "readIP"
    BY <1>1, <2>2, LoginRequest, LoginHandler DEF LoginPcs, SameLocals, SameRequest
  <2> QED
    BY <1>6, <2>1, <2>2
<1> QED
  BY <1>1, <1>5, <1>6, <1>10, <1>12, <1>13, <1>14, <1>15, <1>16, <1>17, CountStep

LEMMA ResetLockoutFailuresStep ==
    ASSUME IInv, NEW h \in Handlers, ResetLockoutFailures(h)
    PROVE  IInv'
<1> USE Parts
<1> DEFINE I == {run[h].user, IP}
<1>1. run[h].pc = "reset" /\ run[h].pc \in LoginPcs
  BY DEF ResetLockoutFailures, At, LoginPcs
<1>2. I \in SUBSET Identities /\ \A i \in I : h \in LoggingIn(i)
  BY <1>1, LoginRequest DEF Identities
<1>3. /\ failed' = [i \in Identities |-> IF i \in I /\ failed[i] # -1 THEN 0 ELSE failed[i]]
      /\ locked' = locked \ I
      /\ failures' = [i \in Identities |-> IF i \in I THEN 0 ELSE failures[i]]
  BY DEF ResetLockoutFailures
<1> HIDE DEF I
<1>4. UNCHANGED <<sessions, apiKeys, suspended, revokedSession, tokens, signing, lastSid, bounds>>
      /\ raced' = raced /\ faults' = faults
  BY DEF ResetLockoutFailures
<1>5. Others(h) /\ SameLocals(h) /\ run'[h].pc = "count"
  BY GotoRun DEF ResetLockoutFailures, Pcs, LoginPcs
<1>6. failures \in [Identities -> Nat] /\ failed \in [Identities -> Nat \cup {-1}]
      /\ locked \subseteq Identities /\ MaxFailures \in Nat /\ MaxFailures > 0
  BY AccessAssumption DEF HistoryOK, TypeOK
<1>7. /\ failures' \in [Identities -> Nat] /\ failed' \in [Identities -> Nat \cup {-1}]
      /\ locked' \subseteq Identities
  BY <1>3, <1>6
<1>8. TypeOK'
  BY <1>4, <1>5, <1>7 DEF TypeOK, Others, sessions, apiKeys, tokens, signing, bounds
<1>9. LockoutCounts'
  <2> SUFFICES ASSUME faults' = 0, NEW j \in Identities \ raced'
               PROVE  /\ failures'[j] = (IF failed'[j] = -1 THEN 0 ELSE failed'[j])
                      /\ MaxFailures > 1 => (j \in locked' <=> failures'[j] >= MaxFailures)
    BY DEF LockoutCounts
  <2>1. CASE j \in I
    BY <1>3, <1>6, <2>1
  <2>2. CASE j \notin I
    <3>1. failures'[j] = failures[j] /\ failed'[j] = failed[j] /\ (j \in locked' <=> j \in locked)
      BY <1>3, <2>2
    <3> QED
      BY <1>4, <3>1 DEF LockoutCounts
  <2> QED
    BY <2>1, <2>2
<1>10. CountsFresh'
  <2>1. \A j \in Identities \ I : failed'[j] = failed[j]
    BY <1>3
  <2>2. run'[h].pc \notin {"writeEmail", "writeIP"}
    BY <1>5
  <2> QED
    BY <1>2, <1>4, <1>5, <2>1, <2>2, OthersFresh
<1>11. run'[h].op \in {"login", "badLogin"} /\ run'[h].user \in Users /\ run'[h].pc \in LoginPcs
  BY <1>1, <1>5, LoginRequest DEF SameLocals, SameRequest, LoginPcs
<1>12. PlaceOK(h)' /\ DeadOK(h)'
  BY <1>5, <1>11, LoginHandler
<1>13. LoginMove(h)
  BY <1>1, <1>5 DEF LoginMove, SameLocals
<1>14. run'[h].pc \notin {"writeLogin", "insert", "writeRotate", "rotate", "nonceSet", "keyLookup"}
  BY <1>5
<1> QED
  BY <1>1, <1>4, <1>5, <1>7, <1>8, <1>9, <1>10, <1>11, <1>12, <1>13, <1>14, CountStep

LEMMA CrashStep ==
    ASSUME IInv, Crash
    PROVE  IInv'
<1> USE Parts
<1>1. \A h \in Handlers : run'[h] = IdleRun
  BY DEF Crash
<1>2. run' \in [Handlers -> Run]
  BY IdleType DEF Crash
<1>3. \A h \in Handlers : PlaceOK(h)' /\ DeadOK(h)'
  BY <1>1, IdleHandler
<1>4. \A h \in Handlers : run[h].pc = "rotate" => run[h].token \in aborted'
  BY DEF Crash, At
<1>5. \A h \in Handlers : Moves(h)
  <2> SUFFICES ASSUME NEW h \in Handlers PROVE Moves(h)
    OBVIOUS
  <2>1. run'[h].pc = "idle" /\ run'[h].op = "use"
    BY <1>1, IdleType
  <2> QED
    BY <1>4, <2>1, PlainMoves DEF LoginPcs
<1>6. faults' \in 0..MaxFaults /\ faults' >= faults
  BY FaultCounts DEF Crash
<1>7. Quiet
  BY <1>6 DEF Quiet, Crash, TypeOK, sessions, apiKeys, lockouts, bounds
<1> QED
  BY <1>2, <1>3, <1>5, <1>7, QuietStep

LEMMA RedisLossStep ==
    ASSUME IInv, RedisLoss
    PROVE  IInv'
<1> USE Parts
<1>1. /\ UNCHANGED <<owner, hash, revoked, keyOwner, deadKeys, failed, locked, failures, raced,
                     suspended, issued, aborted, served, run, lastSid, now, requests>>
      /\ revokedSession' = {} /\ rotatedToken' = {} /\ nonceUsed' = {} /\ excused' = Uses
  BY DEF RedisLoss, sessions, apiKeys, lockouts, bounds
<1>2. faults' \in 0..MaxFaults /\ faults' >= faults
  BY FaultCounts DEF RedisLoss
<1>3. TypeOK'
  BY <1>1, <1>2 DEF TypeOK
<1>4. \A g \in Handlers : Moves(g)
  BY <1>1, StandStill
<1>5. LoginFrame /\ LockoutFrame /\ SessionFrame
  BY <1>1, <1>2, <1>4 DEF LoginFrame, LockoutFrame, SessionFrame, Moves
<1>6. HistoryOK'
  BY <1>1, <1>5, SessionFrames DEF HistoryOK
<1>7. TokensIssued' /\ LiveTokenNotMarked'
  BY <1>1 DEF TokensIssued, LiveTokenNotMarked
<1>8. NoncesOK'
  BY <1>1 DEF NoncesOK
<1>9. \A g \in Handlers : PlaceOK(g)' /\ DeadOK(g)'
  BY <1>1, HandlerFrame
<1> QED
  BY <1>3, <1>5, <1>6, <1>7, <1>8, <1>9, Whole, OneLoginFrame, LockoutFrames, SessionFrames

-------------------------------------------------------------------------------
(* A new session *)

LEMMA OldestExists ==
    ASSUME NEW T, T \subseteq Nat, T # {}
    PROVE  Min(T) \in T
<1> DEFINE R == OpToRel(<, Nat)
<1>1. IsWellFoundedOn(R, Nat)
  BY NatLessThanWellFounded
<1> HIDE DEF R
<1>2. PICK m \in T : \A n \in T : ~(<<n, m>> \in R)
  BY <1>1, WFMin
<1>3. ASSUME NEW n \in T PROVE m <= n
  <2>1. ~(n < m)
    BY <1>2 DEF R, OpToRel
  <2> QED
    BY <2>1
<1> QED
  BY <1>3 DEF Min

LEMMA ActiveFinite ==
    ASSUME IsFiniteSet(Stored), NEW u
    PROVE  IsFiniteSet(Active(u)) /\ Cardinality(Active(u)) \in Nat
           /\ Active(u) \subseteq Stored /\ Active(u) \subseteq Sids
<1>1. Active(u) \subseteq Stored /\ Active(u) \subseteq Sids
  BY DEF Active, SessionsOf, Stored
<1> QED
  BY <1>1, FewerActive

(* The sessions a login selects leave room for one more.                   *)
LEMMA RoomFound ==
    ASSUME IsFiniteSet(Stored), NEW u, NEW S,
           S = IF Cardinality(Active(u)) >= MaxSessions THEN {Min(Active(u))} ELSE {}
    PROVE  /\ S \in SUBSET Sids
           /\ Cardinality(Active(u)) <= MaxSessions =>
                 Cardinality(Active(u) \ S) <= MaxSessions - 1
<1> DEFINE A == Active(u)
<1>1. IsFiniteSet(A) /\ Cardinality(A) \in Nat /\ A \subseteq Sids
  BY ActiveFinite
<1>2. S = IF Cardinality(A) >= MaxSessions THEN {Min(A)} ELSE {}
  OBVIOUS
<1> HIDE DEF A
<1>3. Sids \subseteq Nat /\ MaxSessions \in Nat /\ MaxSessions > 0
  BY AccessAssumption
<1>4. CASE Cardinality(A) >= MaxSessions
  <2>1. Cardinality(A) # 0
    BY <1>1, <1>3, <1>4
  <2>2. A # {}
    BY <2>1, FS_EmptySet
  <2>3. Min(A) \in A
    BY <1>1, <1>3, <2>2, OldestExists
  <2>4. Cardinality(A \ {Min(A)}) = Cardinality(A) - 1
    BY <1>1, <2>3, FS_RemoveElement
  <2>5. S = {Min(A)}
    BY <1>2, <1>4
  <2>6. Cardinality(A \ S) = Cardinality(A) - 1
    BY <2>4, <2>5
  <2>7. Cardinality(A) <= MaxSessions => Cardinality(A \ S) <= MaxSessions - 1
    <3> DEFINE c == Cardinality(A)
               d == Cardinality(A \ S)
    <3>1. c \in Nat /\ d = c - 1
      BY <1>1, <2>6
    <3> HIDE DEF c, d
    <3>2. c <= MaxSessions => d <= MaxSessions - 1
      BY <1>3, <3>1
    <3> QED
      BY <3>2 DEF c, d
  <2> QED
    BY <1>1, <2>3, <2>5, <2>7 DEF A
<1>5. CASE ~(Cardinality(A) >= MaxSessions)
  <2>1. S = {} /\ A \ S = A
    BY <1>2, <1>5
  <2>2. Cardinality(A) <= MaxSessions - 1
    BY <1>1, <1>3, <1>5
  <2> QED
    BY <2>1, <2>2 DEF A
<1> QED
  BY <1>4, <1>5

LEMMA CountSessionsStep ==
    ASSUME IInv, NEW h \in Handlers, CountSessions(h)
    PROVE  IInv'
<1> USE Parts
<1> DEFINE u == run[h].user
           x == lastSid + 1
           t == <<u, now>>
           S == IF Cardinality(Active(u)) >= MaxSessions THEN {Min(Active(u))} ELSE {}
<1>1. run[h].pc = "count" /\ run[h].pc \in LoginPcs
  BY DEF CountSessions, At, LoginPcs
<1>2. run[h].op \in {"login", "badLogin"} /\ u \in Users
  BY <1>1, LoginRequest
<1>3. x \in Sids /\ lastSid' = x
  BY DEF CountSessions
<1>4. t \in Tokens
  BY <1>2 DEF Tokens, TypeOK
<1>5. S \in SUBSET Sids /\ (Cardinality(Active(u)) <= MaxSessions =>
                               Cardinality(Active(u) \ S) <= MaxSessions - 1)
  BY RoomFound
<1>6. run' = [run EXCEPT ![h].pc = "writeLogin", ![h].sid = x, ![h].token = t, ![h].ids = S]
  BY <1>3 DEF CountSessions
<1>7. UNCHANGED <<owner, hash, revoked, keyOwner, deadKeys, failed, locked, failures, raced, suspended,
                  revokedSession, rotatedToken, issued, aborted, nonceUsed, served, excused,
                  now, requests, faults>>
  BY DEF CountSessions, sessions, apiKeys, lockouts, tokens, signing, bounds
<1> HIDE DEF x, t, S
<1>8. /\ Others(h) /\ run'[h].pc = "writeLogin" /\ run'[h].sid = x /\ run'[h].token = t
      /\ run'[h].ids = S /\ run'[h].op = run[h].op /\ run'[h].user = u
  <2> DEFINE r == [run[h] EXCEPT !.pc = "writeLogin", !.sid = x, !.token = t, !.ids = S]
  <2>1. run[h] \in Run
    BY DEF TypeOK
  <2>2. run' = [run EXCEPT ![h] = r]
    BY <1>6 DEF TypeOK
  <2>3. r \in Run /\ r.pc = "writeLogin" /\ r.sid = x /\ r.token = t /\ r.ids = S
        /\ r.op = run[h].op /\ r.user = run[h].user
    BY <1>3, <1>4, <1>5, <2>1 DEF Run, Pcs, LoginPcs
  <2> HIDE DEF r
  <2> QED
    BY <2>2, <2>3, RunTo
<1>9. TypeOK'
  BY <1>3, <1>7, <1>8 DEF TypeOK, Others
<1>10. LoginMove(h) /\ CountMove(h) /\ TokenMove(h) /\ NonceMove(h)
  BY <1>1, <1>2, <1>8 DEF LoginMove, CountMove, TokenMove, NonceMove
<1>11. \A g \in Handlers : LoginMove(g) /\ CountMove(g) /\ TokenMove(g) /\ NonceMove(g)
  BY <1>8, <1>10, StandStill DEF Others, Moves
<1>12. LoginFrame /\ LockoutFrame /\ TokenFrame /\ NonceFrame
  BY <1>7, <1>11 DEF LoginFrame, LockoutFrame, TokenFrame, NonceFrame, TypeOK, signing
<1>13. Stored' = Stored /\ \A v : Active(v)' = Active(v)
  BY <1>7 DEF Stored, Active, SessionsOf
<1>14. HistoryOK' /\ Capped'
  BY <1>7, <1>13 DEF HistoryOK, Capped
<1>15. RoomMade'
  <2> SUFFICES ASSUME NEW g \in Handlers, NEW v \in Users \ raced',
                      run'[g].pc \in {"writeLogin", "insert"}, run'[g].user = v
               PROVE  Cardinality(Active(v)' \ run'[g].ids) <= MaxSessions - 1
    BY DEF RoomMade
  <2>1. CASE g = h
    <3>1. v = u /\ Cardinality(Active(u)) <= MaxSessions
      BY <1>7, <1>8, <2>1 DEF Capped
    <3> QED
      BY <1>5, <1>8, <1>13, <2>1, <3>1
  <2>2. CASE g # h
    <3>1. run'[g] = run[g]
      BY <1>8, <2>2 DEF Others
    <3> QED
      BY <1>7, <1>13, <3>1 DEF RoomMade
  <2> QED
    BY <2>1, <2>2
<1>16. PlaceOK(h)' /\ DeadOK(h)'
  BY <1>2, <1>3, <1>4, <1>8, LoginHandler DEF LoginPcs
<1>17. \A g \in Handlers : PlaceOK(g)' /\ DeadOK(g)'
  BY <1>7, <1>8, <1>16, OtherHandlers
<1> QED
  BY <1>9, <1>12, <1>14, <1>15, <1>17, Whole, OneLoginFrame, LockoutFrames, TokenFrames, NonceFrames

(* A token that is handed out: whoever held or marked it before held or    *)
(* marked a token that is now handed out twice.                            *)
LEMMA HandOutTokens ==
    ASSUME TypeOK, HistoryOK, TokensIssued, LiveTokenNotMarked, NEW t \in Tokens, NEW x \in Sids,
           HandOut(t), UNCHANGED <<rotatedToken, aborted>>, revoked \subseteq revoked',
           \/ hash' = hash /\ Stored' \subseteq Stored
           \/ hash' = [hash EXCEPT ![x] = t] /\ Stored' \subseteq Stored \cup {x},
           \A h \in Handlers : TokenMove(h),
           \A h \in Handlers : run'[h].pc \in {"writeRotate", "rotate"} =>
               run'[h].op = "refresh" /\ run'[h].token \in Tokens
    PROVE  TokensIssued' /\ LiveTokenNotMarked'
<1>1. /\ issued \in [Tokens -> Nat] /\ issued' = [issued EXCEPT ![t] = @ + 1]
      /\ hash \in [Sids -> Tokens \cup {NoToken}] /\ rotatedToken \subseteq Tokens
  BY DEF HistoryOK, TypeOK, HandOut
<1>2. /\ issued'[t] = issued[t] + 1
      /\ \A v \in Tokens : issued'[v] >= issued[v] /\ issued[v] \in Nat /\ issued'[v] \in Nat
  BY <1>1
<1>3. issued[t] >= 1 => issued'[t] > 1
  BY <1>2
<1>4. \A s \in Sids : hash'[s] = hash[s] \/ (s = x /\ hash'[s] = t)
  <2>1. CASE hash' = hash
    BY <2>1
  <2>2. CASE hash' = [hash EXCEPT ![x] = t]
    BY <1>1, <2>2
  <2> QED
    BY <2>1, <2>2
<1>5. \A s \in Sids : hash[s] \in Tokens => issued[hash[s]] >= 1
  BY DEF TokensIssued
<1>6. \A h \in Handlers : run[h].op = "refresh" /\ run[h].token \in Tokens => issued[run[h].token] >= 1
  BY DEF TokensIssued
<1>7. \A s \in Sids : hash'[s] \in Tokens => issued'[hash'[s]] >= 1
  BY <1>2, <1>4, <1>5
<1>8. \A v \in rotatedToken' : issued'[v] >= 1
  BY <1>1, <1>2 DEF TokensIssued
<1>9. \A s, y \in Sids : s # y /\ hash'[s] = hash'[y] /\ hash'[s] \in Tokens => issued'[hash'[s]] > 1
  <2> SUFFICES ASSUME NEW s \in Sids, NEW y \in Sids, s # y, hash'[s] = hash'[y], hash'[s] \in Tokens
               PROVE  issued'[hash'[s]] > 1
    OBVIOUS
  <2>1. CASE hash'[s] = t
    <3>1. hash[s] = t \/ hash[y] = t
      BY <1>4, <2>1
    <3> QED
      BY <1>3, <1>5, <2>1, <3>1
  <2>2. CASE hash'[s] # t
    <3>1. hash'[s] = hash[s] /\ hash'[y] = hash[y]
      BY <1>4, <2>2
    <3>2. issued[hash[s]] > 1
      BY <3>1 DEF TokensIssued
    <3> QED
      BY <1>2, <3>1, <3>2
  <2> QED
    BY <2>1, <2>2
<1>10. \A h \in Handlers : run'[h].op = "refresh" /\ run'[h].token \in Tokens =>
           issued[run'[h].token] >= 1
  BY <1>6 DEF TokenMove
<1>11. \A h \in Handlers : run'[h].op = "refresh" /\ run'[h].token \in Tokens =>
           issued'[run'[h].token] >= 1
  BY <1>2, <1>10
<1>12. \A h \in Handlers : run'[h].pc \in {"writeRotate", "rotate"} =>
           \A y \in Sids : y # run'[h].sid /\ hash'[y] = run'[h].token =>
               issued'[run'[h].token] > 1
  <2> SUFFICES ASSUME NEW h \in Handlers, run'[h].pc \in {"writeRotate", "rotate"},
                      NEW y \in Sids, y # run'[h].sid, hash'[y] = run'[h].token
               PROVE  issued'[run'[h].token] > 1
    OBVIOUS
  <2>1. CASE run'[h].token = t
    BY <1>3, <1>10, <2>1
  <2>2. CASE run'[h].token # t
    <3>1. hash[y] = run[h].token /\ y # run[h].sid /\ run[h].pc \in {"writeRotate", "rotate"}
          /\ run'[h].token = run[h].token
      BY <1>4, <2>2 DEF TokenMove
    <3>2. issued[run[h].token] > 1
      BY <3>1 DEF TokensIssued
    <3> QED
      BY <1>2, <3>1, <3>2
  <2> QED
    BY <2>1, <2>2
<1>13. LiveTokenNotMarked'
  <2> SUFFICES ASSUME NEW s \in Stored' \ revoked', hash'[s] \in rotatedToken'
               PROVE  \/ \E h \in Handlers : run'[h].pc = "rotate" /\ run'[h].token = hash'[s]
                      \/ issued'[hash'[s]] > 1
                      \/ hash'[s] \in aborted'
    BY DEF LiveTokenNotMarked, At
  <2>1. CASE hash'[s] = t
    <3>1. issued[t] >= 1
      BY <2>1 DEF TokensIssued
    <3> QED
      BY <1>3, <2>1, <3>1
  <2>2. CASE hash'[s] # t
    <3>1. s \in Sids /\ hash'[s] = hash[s]
      BY <1>4, <2>2 DEF Stored
    <3>2. s \in Stored \ revoked
      <4>1. hash' = [hash EXCEPT ![x] = t] => s # x
        BY <1>1, <2>2
      <4> QED
        BY <4>1
    <3>3. hash[s] \in rotatedToken /\ hash[s] \in Tokens
      BY <1>1, <3>1
    <3>4. \/ \E h \in Handlers : run[h].pc = "rotate" /\ run[h].token = hash[s]
          \/ issued[hash[s]] > 1
          \/ hash[s] \in aborted
      BY <3>2, <3>3 DEF LiveTokenNotMarked, At
    <3>5. issued[hash[s]] > 1 => issued'[hash[s]] > 1
      BY <1>2, <3>3
    <3> QED
      BY <3>1, <3>4, <3>5 DEF TokenMove
  <2> QED
    BY <2>1, <2>2
<1> QED
  BY <1>7, <1>8, <1>9, <1>11, <1>12, <1>13 DEF TokensIssued

LEMMA CommitLoginStep ==
    ASSUME IInv, NEW h \in Handlers, CommitLogin(h)
    PROVE  IInv'
<1> USE Parts
<1> DEFINE x == run[h].sid
           t == run[h].token
           S == run[h].ids
<1>1. run[h].pc = "insert" /\ run[h].pc \in LoginPcs
  BY DEF CommitLogin, At, LoginPcs
<1>0. PICK u \in Users : u = run[h].user
  BY <1>1, LoginRequest
<1>2. u \in Users /\ x \in Sids /\ t \in Tokens /\ S \subseteq Sids /\ h \in LoggingIn(u)
  BY <1>0, <1>1, LoginRequest, IdsType DEF PlaceOK
<1>3. /\ owner' = [owner EXCEPT ![x] = u] /\ hash' = [hash EXCEPT ![x] = t]
      /\ revoked' = revoked \cup S /\ HandOut(t)
  BY <1>0 DEF CommitLogin
<1>4. UNCHANGED <<keyOwner, deadKeys, failed, locked, failures, raced, suspended, revokedSession,
                  rotatedToken, aborted, nonceUsed, served, excused, lastSid, now, requests, faults>>
  BY DEF CommitLogin, apiKeys, lockouts, signing, bounds
<1>5. Others(h) /\ run'[h] = IdleRun
  BY AnswerRun DEF CommitLogin
<1>6. run'[h].pc = "idle" /\ run'[h].op = "use"
  BY <1>5, IdleType
<1>7. TypeOK'
  <2>1. owner' \in [Sids -> Users \cup {NoUser}] /\ hash' \in [Sids -> Tokens \cup {NoToken}]
        /\ revoked' \subseteq Sids
    BY <1>2, <1>3 DEF TypeOK
  <2> QED
    BY <1>4, <1>5, <2>1 DEF TypeOK, Others
<1>8. \A g \in Handlers : Moves(g)
  BY <1>1, <1>5, <1>6, PlainMoves, EveryoneMoves DEF LoginPcs
<1>9. \A g \in Handlers : PlaceOK(g)' /\ DeadOK(g)'
  BY <1>3, <1>4, <1>5, IdleHandler, OtherHandlers
<1>10. LoginFrame /\ LockoutFrame /\ NonceFrame
  BY <1>4, <1>8 DEF LoginFrame, LockoutFrame, NonceFrame, TypeOK, Moves, signing
<1>11. owner'[x] = u /\ \A s \in Sids \ {x} : owner'[s] = owner[s]
  BY <1>2, <1>3 DEF TypeOK
<1>12. u # NoUser
  BY <1>2, AccessAssumption
<1> HIDE DEF x, t, S
<1>13. Stored' = Stored \cup {x}
  BY <1>2, <1>11, <1>12 DEF Stored
<1>14. IsFiniteSet(Stored)'
  BY <1>13, FS_AddElement
<1>15. HistoryOK'
  <2>1. issued' \in [Tokens -> Nat]
    BY <1>2, <1>3 DEF HandOut, HistoryOK
  <2> QED
    BY <1>4, <1>14, <2>1 DEF HistoryOK
<1>16. Active(u)' \subseteq (Active(u) \ S) \cup {x}
  BY <1>3, <1>11, <1>13 DEF Active, SessionsOf, Stored
<1>17. ASSUME NEW v, v # u PROVE Active(v)' \subseteq Active(v)
  BY <1>3, <1>11, <1>13, <1>17 DEF Active, SessionsOf, Stored
<1>18. MaxSessions \in Nat
  BY AccessAssumption
<1>19. Capped'
  <2> SUFFICES ASSUME NEW v \in Users \ raced' PROVE Cardinality(Active(v)') <= MaxSessions
    BY DEF Capped
  <2>1. CASE v = u
    <3> DEFINE A == Active(u) \ S
               B == A \cup {x}
               C == Active(u)'
    <3>1. Cardinality(A) <= MaxSessions - 1
      BY <1>0, <1>1, <1>2, <1>4, <2>1 DEF RoomMade, S
    <3>2. A \subseteq Stored /\ C \subseteq B
      BY <1>16, ActiveFinite
    <3> HIDE DEF A, C
    <3>3. IsFiniteSet(A) /\ Cardinality(A) \in Nat
      BY <3>2, FewerActive
    <3>4. IsFiniteSet(B) /\ Cardinality(B) \in {Cardinality(A), Cardinality(A) + 1}
      BY <3>3, FS_AddElement
    <3> HIDE DEF B
    <3>5. Cardinality(B) \in Nat /\ Cardinality(B) <= MaxSessions
      BY <1>18, <3>1, <3>3, <3>4
    <3>6. Cardinality(C) <= Cardinality(B) /\ Cardinality(C) \in Nat
      BY <3>2, <3>4, FS_Subset, FS_CardinalityType
    <3>7. Cardinality(C) <= MaxSessions
      BY <1>18, <3>5, <3>6
    <3> QED
      BY <2>1, <3>7 DEF C
  <2>2. CASE v # u
    <3> DEFINE A == Active(v)
               C == Active(v)'
    <3>1. Cardinality(A) <= MaxSessions
      BY <1>4 DEF Capped
    <3>2. A \subseteq Stored /\ C \subseteq A
      BY <1>17, <2>2, ActiveFinite
    <3> HIDE DEF A, C
    <3>3. Cardinality(C) <= Cardinality(A) /\ Cardinality(C) \in Nat /\ Cardinality(A) \in Nat
      BY <3>2, FewerActive
    <3>4. Cardinality(C) <= MaxSessions
      BY <1>18, <3>1, <3>3
    <3> QED
      BY <3>4 DEF C
  <2> QED
    BY <2>1, <2>2
<1>20. RoomMade'
  <2> SUFFICES ASSUME NEW g \in Handlers, NEW v \in Users \ raced',
                      run'[g].pc \in {"writeLogin", "insert"}, run'[g].user = v
               PROVE  Cardinality(Active(v)' \ run'[g].ids) <= MaxSessions - 1
    BY DEF RoomMade
  <2> DEFINE A == Active(v) \ run[g].ids
             C == Active(v)' \ run[g].ids
  <2>1. g # h /\ run'[g] = run[g]
    BY <1>5, <1>6 DEF Others
  <2>2. v # u
    <3>1. g \in LoggingIn(v) /\ v \in Identities
      BY <2>1, LoginRequest DEF LoginPcs, Identities
    <3> QED
      BY <1>2, <1>4, <2>1, <3>1 DEF OneLogin
  <2>3. Cardinality(A) <= MaxSessions - 1
    BY <1>4, <2>1 DEF RoomMade
  <2>4. A \subseteq Stored /\ C \subseteq A
    BY <1>17, <2>2, ActiveFinite
  <2> HIDE DEF A, C
  <2>5. Cardinality(C) <= Cardinality(A) /\ Cardinality(C) \in Nat /\ Cardinality(A) \in Nat
    BY <2>4, FewerActive
  <2>6. Cardinality(C) <= MaxSessions - 1
    BY <1>18, <2>3, <2>5
  <2> QED
    BY <2>1, <2>6 DEF C
<1>21. TokensIssued' /\ LiveTokenNotMarked'
  <2>1. \A g \in Handlers : run'[g].pc \in {"writeRotate", "rotate"} =>
            run'[g].op = "refresh" /\ run'[g].token \in Tokens
    BY <1>9 DEF PlaceOK, RotatePcs
  <2>2. \A g \in Handlers : TokenMove(g)
    BY <1>8 DEF Moves
  <2>3. revoked \subseteq revoked' /\ Stored' \subseteq Stored \cup {x}
    BY <1>3, <1>13
  <2> QED
    BY <1>2, <1>3, <1>4, <2>1, <2>2, <2>3, HandOutTokens
<1> QED
  BY <1>7, <1>9, <1>10, <1>15, <1>19, <1>20, <1>21, Whole, OneLoginFrame, LockoutFrames, NonceFrames

-------------------------------------------------------------------------------
(* The steps of a rotation *)

(* A handler at a rotation has its session and token.                      *)
LEMMA RotateHandler ==
    ASSUME NEW h, run'[h].op = "refresh", run'[h].pc \in RotatePcs, run'[h].token \in Tokens,
           run'[h].sid \in Sids, run'[h].user \in Users,
           run'[h].dead \subseteq revoked', run'[h].sid \notin run'[h].dead
    PROVE  PlaceOK(h)' /\ DeadOK(h)'
<1>1. PlaceOK(h)'
  BY DEF PlaceOK, LoginPcs, RotatePcs, ServePcs, SessionOps
<1>2. DeadOK(h)'
  BY DEF DeadOK, RotatePcs, ServePcs, SessionOps
<1> QED
  BY <1>1, <1>2

(* Steps that change only tokens, and a rotation.                          *)
LEMMA TokenStep ==
    ASSUME IInv, NEW h \in Handlers, Others(h), run'[h].pc \notin LoginPcs \cup {"nonceSet", "keyLookup"},
           UNCHANGED <<owner, revoked, apiKeys, lockouts, suspended, revokedSession, signing, lastSid, bounds>>,
           hash' \in [Sids -> Tokens \cup {NoToken}], rotatedToken' \subseteq Tokens,
           faults' \in 0..MaxFaults, faults' >= faults, issued' \in [Tokens -> Nat],
           PlaceOK(h)', DeadOK(h)', TokensIssued', LiveTokenNotMarked'
    PROVE  IInv'
<1> USE Parts
<1>1. TypeOK'
  BY DEF TypeOK, Others, apiKeys, lockouts, signing, bounds
<1>2. LoginMove(h) /\ CountMove(h) /\ RoomMove(h) /\ NonceMove(h)
  BY DEF LoginMove, CountMove, RoomMove, NonceMove, LoginPcs
<1>3. \A g \in Handlers : LoginMove(g) /\ CountMove(g) /\ RoomMove(g) /\ NonceMove(g)
  BY <1>2, StandStill DEF Others, Moves
<1>4. LoginFrame /\ LockoutFrame /\ SessionFrame /\ NonceFrame
  BY <1>3 DEF LoginFrame, LockoutFrame, SessionFrame, NonceFrame, lockouts
<1>5. HistoryOK'
  BY <1>4, SessionFrames DEF HistoryOK, lockouts, signing
<1>6. \A g \in Handlers : PlaceOK(g)' /\ DeadOK(g)'
  BY OtherHandlers DEF apiKeys
<1> QED
  BY <1>1, <1>4, <1>5, <1>6, Whole, OneLoginFrame, LockoutFrames, SessionFrames, NonceFrames

LEMMA FindSessionStep ==
    ASSUME IInv, NEW h \in Handlers, FindSession(h)
    PROVE  IInv'
<1> USE Parts
<1>1. run[h].pc = "lookup" /\ Unmoved /\ UNCHANGED revokedSession /\ faults' = faults
  BY DEF FindSession, At, Unmoved
<1>2. Quiet
  BY <1>1, UnmovedFaults
<1>3. CASE Answer(h)
  BY <1>1, <1>2, <1>3, AnswerStep
<1>4. ASSUME NEW s \in Holding(run[h].token),
             run' = [run EXCEPT ![h].pc = IF s \in revoked THEN "selectAll" ELSE "writeRotate",
                                ![h].user = owner[s], ![h].sid = IF s \in revoked THEN 0 ELSE s]
      PROVE  IInv'
  <2>1. s \in Sids /\ owner[s] \in Users /\ hash[s] = run[h].token
    BY HoldersKnown
  <2>2. /\ run[h].op = "refresh" /\ run[h].token \in Tokens /\ run[h].dead \subseteq revoked
        /\ issued[run[h].token] >= 1
    BY <1>1, RefreshRequest
  <2>3. CASE s \in revoked
    <3>1. run' = [run EXCEPT ![h].pc = "selectAll", ![h].user = owner[s], ![h].sid = 0]
      BY <1>4, <2>3
    <3>2. Others(h) /\ SameRequest(h) /\ run'[h].pc = "selectAll"
      <4>1. "selectAll" \in Pcs /\ owner[s] \in Users \cup {NoUser} /\ 0 \in Sids \cup {0}
        BY <2>1 DEF Pcs, ServePcs
      <4> QED
        BY <3>1, <4>1, FindRun
    <3>3. Moves(h)
      BY <1>1, <3>2, PlainMoves DEF LoginPcs, SameRequest
    <3>4. PlaceOK(h)' /\ DeadOK(h)'
      <4>1. revoked' = revoked
        BY <1>1 DEF Unmoved, sessions
      <4> QED
        BY <2>2, <3>2, <4>1, RefreshHandler DEF SameRequest
    <3> QED
      BY <1>2, <3>2, <3>3, <3>4, HandlerStep
  <2>4. CASE s \notin revoked
    <3>1. run' = [run EXCEPT ![h].pc = "writeRotate", ![h].user = owner[s], ![h].sid = s]
      BY <1>4, <2>4
    <3>2. /\ Others(h) /\ SameRequest(h) /\ run'[h].pc = "writeRotate" /\ run'[h].user = owner[s]
          /\ run'[h].sid = s
      <4>1. "writeRotate" \in Pcs /\ owner[s] \in Users \cup {NoUser} /\ s \in Sids \cup {0}
        BY <2>1 DEF Pcs, RotatePcs
      <4> DEFINE u == owner[s]
                 r == [run[h] EXCEPT !.pc = "writeRotate", !.user = u, !.sid = s]
      <4>2. run[h] \in Run /\ run \in [Handlers -> Run]
        BY DEF TypeOK
      <4>3. run' = [run EXCEPT ![h] = r]
        BY <3>1, <4>2
      <4> HIDE DEF u
      <4>4. r \in Run /\ r.pc = "writeRotate" /\ r.user = u /\ r.sid = s /\ r.op = run[h].op
            /\ r.nonce = run[h].nonce /\ r.dead = run[h].dead /\ r.token = run[h].token
        BY <4>1, <4>2 DEF Run, u
      <4> HIDE DEF r
      <4> QED
        BY <4>3, <4>4, RunTo DEF SameRequest, u
    <3>3. UNCHANGED <<owner, revoked, apiKeys, lockouts, suspended, revokedSession, signing, lastSid, bounds>>
          /\ UNCHANGED <<hash, rotatedToken, issued, aborted>>
      BY <1>1 DEF Unmoved, sessions, tokens
    <3>4. PlaceOK(h)' /\ DeadOK(h)'
      <4>1. s \notin run[h].dead
        BY <2>2, <2>4
      <4> QED
        BY <2>1, <2>2, <3>2, <3>3, <4>1, RotateHandler DEF SameRequest, RotatePcs
    <3>5. \A g \in Handlers \ {h} : run'[g] = run[g]
      BY <3>2 DEF Others
    <3>6. TokensIssued'
      <4>1. \A x \in Sids : x # s /\ hash[x] = run[h].token => issued[run[h].token] > 1
        BY <2>1, <2>2 DEF TokensIssued
      <4>2. \A g \in Handlers : run'[g].pc \in {"writeRotate", "rotate"} =>
              \A x \in Sids : x # run'[g].sid /\ hash[x] = run'[g].token => issued[run'[g].token] > 1
        BY <3>2, <3>5, <4>1 DEF TokensIssued, SameRequest
      <4>3. \A g \in Handlers : run'[g].op = "refresh" /\ run'[g].token \in Tokens =>
              issued[run'[g].token] >= 1
        BY <2>2, <3>2, <3>5 DEF TokensIssued, SameRequest
      <4> QED
        BY <3>3, <4>2, <4>3 DEF TokensIssued
    <3>7. LiveTokenNotMarked'
      <4>1. Stored' = Stored
        BY <3>3 DEF Stored
      <4>2. \A g \in Handlers : run[g].pc = "rotate" => run'[g] = run[g]
        BY <1>1, <3>5
      <4> QED
        BY <3>3, <4>1, <4>2 DEF LiveTokenNotMarked, At
    <3>8. /\ hash' \in [Sids -> Tokens \cup {NoToken}] /\ rotatedToken' \subseteq Tokens
          /\ issued' \in [Tokens -> Nat] /\ faults' \in 0..MaxFaults /\ faults' >= faults
      BY <1>2, <3>3 DEF TypeOK, HistoryOK, Quiet
    <3>9. run'[h].pc \notin LoginPcs \cup {"nonceSet", "keyLookup"}
      BY <3>2 DEF LoginPcs
    <3> QED
      BY <3>2, <3>3, <3>4, <3>6, <3>7, <3>8, <3>9, TokenStep
  <2> QED
    BY <2>3, <2>4
<1> QED
  BY <1>3, <1>4 DEF FindSession

LEMMA RotationRequest ==
    ASSUME IInv, NEW h \in Handlers, run[h].pc \in RotatePcs
    PROVE  run[h].sid \in Sids /\ run[h].user \in Users /\ run[h].sid \notin run[h].dead
BY Parts DEF PlaceOK, DeadOK

LEMMA WriteRotateStep ==
    ASSUME IInv, NEW h \in Handlers, WriteRotate(h)
    PROVE  IInv'
<1> USE Parts
<1> DEFINE t == run[h].token
<1>1. run[h].pc = "writeRotate" /\ run[h].pc \in RotatePcs
  BY DEF WriteRotate, At, RotatePcs
<1>2. /\ run[h].op = "refresh" /\ t \in Tokens /\ run[h].dead \subseteq revoked /\ issued[t] >= 1
      /\ run[h].sid \in Sids /\ run[h].user \in Users /\ run[h].sid \notin run[h].dead
  BY <1>1, RefreshRequest, RotationRequest
<1>3. UNCHANGED <<owner, revoked, apiKeys, lockouts, suspended, revokedSession, signing, lastSid, bounds>>
      /\ UNCHANGED <<hash, issued, aborted>>
  BY DEF WriteRotate, sessions
<1>4. /\ rotatedToken' \subseteq rotatedToken \cup {t}
      /\ faults' \in 0..MaxFaults /\ faults' >= faults
  BY RedisSets DEF WriteRotate
<1>5. Others(h) /\ SameLocals(h) /\ run'[h].pc = "rotate"
  BY GotoRun DEF WriteRotate, Pcs, RotatePcs
<1>6. PlaceOK(h)' /\ DeadOK(h)'
  BY <1>2, <1>3, <1>5, RotateHandler DEF SameLocals, SameRequest, RotatePcs
<1>7. \A g \in Handlers \ {h} : run'[g] = run[g]
  BY <1>5 DEF Others
<1>8. TokensIssued'
  <2>1. \A v \in rotatedToken' : issued[v] >= 1
    BY <1>2, <1>4 DEF TokensIssued
  <2>2. \A g \in Handlers : run'[g].pc \in {"writeRotate", "rotate"} =>
          \A x \in Sids : x # run'[g].sid /\ hash[x] = run'[g].token => issued[run'[g].token] > 1
    BY <1>1, <1>5, <1>7 DEF TokensIssued, SameLocals, SameRequest
  <2>3. \A g \in Handlers : run'[g].op = "refresh" /\ run'[g].token \in Tokens =>
          issued[run'[g].token] >= 1
    BY <1>2, <1>5, <1>7 DEF TokensIssued, SameLocals, SameRequest
  <2> QED
    BY <1>3, <2>1, <2>2, <2>3 DEF TokensIssued
<1>9. LiveTokenNotMarked'
  <2> SUFFICES ASSUME NEW s \in Stored' \ revoked', hash'[s] \in rotatedToken'
               PROVE  \/ \E g \in Handlers : run'[g].pc = "rotate" /\ run'[g].token = hash'[s]
                      \/ issued'[hash'[s]] > 1
                      \/ hash'[s] \in aborted'
    BY DEF LiveTokenNotMarked, At
  <2>1. s \in Stored \ revoked /\ hash'[s] = hash[s]
    BY <1>3 DEF Stored
  <2>2. CASE hash[s] = t
    BY <1>5, <2>1, <2>2 DEF SameLocals, SameRequest
  <2>3. CASE hash[s] # t
    <3>1. \/ \E g \in Handlers : run[g].pc = "rotate" /\ run[g].token = hash[s]
          \/ issued[hash[s]] > 1
          \/ hash[s] \in aborted
      BY <1>4, <2>1, <2>3 DEF LiveTokenNotMarked, At
    <3> QED
      BY <1>1, <1>3, <1>7, <2>1, <3>1
  <2> QED
    BY <2>2, <2>3
<1>10. /\ hash' \in [Sids -> Tokens \cup {NoToken}] /\ rotatedToken' \subseteq Tokens
       /\ issued' \in [Tokens -> Nat]
  BY <1>2, <1>3, <1>4 DEF TypeOK, HistoryOK
<1>11. run'[h].pc \notin LoginPcs \cup {"nonceSet", "keyLookup"}
  BY <1>5 DEF LoginPcs
<1> QED
  BY <1>3, <1>4, <1>5, <1>6, <1>8, <1>9, <1>10, <1>11, TokenStep

LEMMA CommitRotateStep ==
    ASSUME IInv, NEW h \in Handlers, CommitRotate(h)
    PROVE  IInv'
<1> USE Parts
<1> DEFINE t == run[h].token
           x == run[h].sid
<1>1. run[h].pc = "rotate" /\ run[h].pc \in RotatePcs
  BY DEF CommitRotate, At, RotatePcs
<1>2. /\ run[h].op = "refresh" /\ t \in Tokens /\ run[h].dead \subseteq revoked /\ issued[t] >= 1
      /\ x \in Sids /\ run[h].user \in Users /\ x \notin run[h].dead
  BY <1>1, RefreshRequest, RotationRequest
<1>3. UNCHANGED <<owner, revoked, apiKeys, lockouts, suspended, revokedSession, signing, lastSid, bounds>>
      /\ UNCHANGED <<rotatedToken, issued, aborted>> /\ hash' = [hash EXCEPT ![x] = NoToken]
  BY DEF CommitRotate, tokens
<1>4. faults' \in 0..MaxFaults /\ faults' >= faults
  BY FaultCounts, NoFaultCounts DEF CommitRotate
<1>5. Others(h) /\ \/ SameLocals(h) /\ run'[h].pc = "final"
                   \/ run'[h] = IdleRun
  <2>1. CASE Goto(h, "final")
    BY <2>1, GotoRun DEF Pcs, RotatePcs
  <2>2. CASE Answer(h)
    BY <2>2, AnswerRun
  <2> QED
    BY <2>1, <2>2 DEF CommitRotate
<1>6. run'[h].pc \in {"final", "idle"} /\ (run'[h].op = "refresh" => run'[h].token = t)
  BY <1>5, IdleType DEF SameLocals, SameRequest
<1>7. PlaceOK(h)' /\ DeadOK(h)'
  <2>1. CASE run'[h] = IdleRun
    BY <2>1, IdleHandler
  <2>2. CASE SameLocals(h) /\ run'[h].pc = "final"
    BY <1>2, <1>3, <2>2, RotateHandler DEF SameLocals, SameRequest, RotatePcs
  <2> QED
    BY <1>5, <2>1, <2>2
<1>8. \A g \in Handlers \ {h} : run'[g] = run[g]
  BY <1>5 DEF Others
<1>9. NoToken \notin Tokens
  BY AccessAssumption DEF NoToken, Tokens
<1>10. \A s \in Sids : hash'[s] \in Tokens => s # x /\ hash'[s] = hash[s]
  BY <1>2, <1>3, <1>9 DEF TypeOK
<1>11. TokensIssued'
  <2>1. /\ \A s \in Sids : hash'[s] \in Tokens => issued[hash'[s]] >= 1
        /\ \A s, y \in Sids : s # y /\ hash'[s] = hash'[y] /\ hash'[s] \in Tokens =>
              issued[hash'[s]] > 1
    BY <1>10 DEF TokensIssued
  <2>2. \A g \in Handlers : run'[g].op = "refresh" /\ run'[g].token \in Tokens =>
          issued[run'[g].token] >= 1
    BY <1>2, <1>6, <1>8 DEF TokensIssued
  <2>3. ASSUME NEW g \in Handlers, run'[g].pc \in {"writeRotate", "rotate"},
               NEW y \in Sids, y # run'[g].sid, hash'[y] = run'[g].token
        PROVE  issued[run'[g].token] > 1
    <3>1. g # h /\ run'[g] = run[g]
      BY <1>6, <1>8, <2>3
    <3>2. run[g].token \in Tokens
      BY <2>3, <3>1, RefreshRequest DEF RotatePcs
    <3>3. hash[y] = run[g].token
      BY <1>10, <2>3, <3>1, <3>2
    <3> QED
      BY <2>3, <3>1, <3>3 DEF TokensIssued
  <2> QED
    BY <1>3, <2>1, <2>2, <2>3 DEF TokensIssued
<1>12. LiveTokenNotMarked'
  <2> SUFFICES ASSUME NEW s \in Stored' \ revoked', hash'[s] \in rotatedToken'
               PROVE  \/ \E g \in Handlers : run'[g].pc = "rotate" /\ run'[g].token = hash'[s]
                      \/ issued'[hash'[s]] > 1
                      \/ hash'[s] \in aborted'
    BY DEF LiveTokenNotMarked, At
  <2>1. s \in Stored \ revoked /\ s \in Sids /\ hash'[s] \in Tokens
    BY <1>3 DEF Stored, TypeOK
  <2>2. s # x /\ hash'[s] = hash[s]
    BY <1>10, <2>1
  <2>3. \/ \E g \in Handlers : run[g].pc = "rotate" /\ run[g].token = hash[s]
        \/ issued[hash[s]] > 1
        \/ hash[s] \in aborted
    BY <1>3, <2>1, <2>2 DEF LiveTokenNotMarked, At
  <2>4. hash[s] = t => issued[hash[s]] > 1
    BY <1>1, <2>1, <2>2 DEF TokensIssued
  <2> QED
    BY <1>3, <1>8, <2>2, <2>3, <2>4
<1>13. /\ hash' \in [Sids -> Tokens \cup {NoToken}] /\ rotatedToken' \subseteq Tokens
       /\ issued' \in [Tokens -> Nat]
  BY <1>3 DEF TypeOK, HistoryOK
<1>14. run'[h].pc \notin LoginPcs \cup {"nonceSet", "keyLookup"}
  BY <1>6 DEF LoginPcs
<1> QED
  BY <1>3, <1>4, <1>5, <1>7, <1>11, <1>12, <1>13, <1>14, TokenStep

LEMMA FinalRefreshStep ==
    ASSUME IInv, NEW h \in Handlers, FinalRefresh(h)
    PROVE  IInv'
<1> USE Parts
<1> DEFINE t == <<run[h].user, now>>
           x == run[h].sid
<1>1. run[h].pc = "final" /\ run[h].pc \in RotatePcs
  BY DEF FinalRefresh, At, RotatePcs
<1>2. x \in Sids /\ t \in Tokens
  BY <1>1, RotationRequest DEF Tokens, TypeOK
<1>3. UNCHANGED <<owner, revoked, apiKeys, lockouts, suspended, revokedSession, signing, lastSid, bounds>>
      /\ UNCHANGED <<rotatedToken, aborted>> /\ HandOut(t)
      /\ (hash' = [hash EXCEPT ![x] = t] \/ hash' = hash)
  BY DEF FinalRefresh
<1>4. faults' \in 0..MaxFaults /\ faults' >= faults
  BY FaultCounts, NoFaultCounts DEF FinalRefresh
<1>5. Others(h) /\ run'[h] = IdleRun
  BY AnswerRun DEF FinalRefresh
<1>6. run'[h].pc = "idle" /\ run'[h].op = "use"
  BY <1>5, IdleType
<1>7. PlaceOK(h)' /\ DeadOK(h)'
  BY <1>5, IdleHandler
<1>8. \A g \in Handlers : PlaceOK(g)' /\ DeadOK(g)'
  BY <1>3, <1>5, <1>7, OtherHandlers DEF apiKeys
<1> HIDE DEF t, x
<1>9. TokensIssued' /\ LiveTokenNotMarked'
  <2>1. \A g \in Handlers : run'[g].pc \in {"writeRotate", "rotate"} =>
            run'[g].op = "refresh" /\ run'[g].token \in Tokens
    BY <1>8 DEF PlaceOK, RotatePcs
  <2>2. Moves(h)
    BY <1>1, <1>6, PlainMoves DEF LoginPcs
  <2>3. \A g \in Handlers : TokenMove(g)
    BY <1>5, <2>2, EveryoneMoves DEF Moves
  <2>4. revoked \subseteq revoked' /\ Stored' = Stored
    BY <1>3 DEF Stored
  <2> QED
    BY <1>2, <1>3, <2>1, <2>3, <2>4, HandOutTokens
<1>10. /\ hash' \in [Sids -> Tokens \cup {NoToken}] /\ rotatedToken' \subseteq Tokens
       /\ issued' \in [Tokens -> Nat]
  BY <1>2, <1>3 DEF TypeOK, HistoryOK, HandOut
<1>11. run'[h].pc \notin LoginPcs \cup {"nonceSet", "keyLookup"}
  BY <1>6 DEF LoginPcs
<1> QED
  BY <1>3, <1>4, <1>5, <1>7, <1>9, <1>10, <1>11, TokenStep

-------------------------------------------------------------------------------
(* The steps of a signed request *)

LEMMA SignedInFlight ==
    ASSUME IInv, NEW h \in Handlers, run[h].pc \in {"nonceGet", "nonceSet", "keyLookup"}
    PROVE  /\ run[h].op = "signed" /\ run[h].nonce \in Nonces /\ run[h].item \in Keys
           /\ run[h].dead \subseteq deadKeys /\ run[h].dead \subseteq {run[h].item}
<1>1. PlaceOK(h) /\ DeadOK(h)
  BY Parts
<1>2. run[h].op = "signed" /\ run[h].nonce \in Nonces
  BY <1>1 DEF PlaceOK
<1> QED
  BY <1>1, <1>2 DEF PlaceOK, DeadOK

(* Steps that change only what is known of nonces, and a signed request.   *)
LEMMA NonceStep ==
    ASSUME IInv, NEW h \in Handlers, run[h].pc \in {"nonceGet", "nonceSet", "keyLookup"},
           run'[h].pc \in {"nonceSet", "keyLookup", "serve"}, Others(h), SameRequest(h), run'[h].item = run[h].item,
           UNCHANGED <<sessions, apiKeys, lockouts, suspended, revokedSession, tokens, lastSid, bounds>>,
           nonceUsed' \subseteq Uses, excused' \subseteq Uses, served' \in [Uses -> Nat],
           faults' \in 0..MaxFaults, faults' >= faults,
           run'[h].pc = "serve" => run[h].item \notin deadKeys, NoncesOK'
    PROVE  IInv'
<1> USE Parts
<1>1. /\ run[h].op = "signed" /\ run[h].nonce \in Nonces /\ run[h].item \in Keys
      /\ run[h].dead \subseteq deadKeys /\ run[h].dead \subseteq {run[h].item}
  BY SignedInFlight
<1>2. TypeOK'
  BY DEF TypeOK, Others, sessions, apiKeys, lockouts, tokens, bounds
<1>3. LoginMove(h) /\ CountMove(h) /\ RoomMove(h) /\ TokenMove(h)
  BY <1>1 DEF LoginMove, CountMove, RoomMove, TokenMove, LoginPcs, SameRequest
<1>4. \A g \in Handlers : LoginMove(g) /\ CountMove(g) /\ RoomMove(g) /\ TokenMove(g)
  BY <1>3, StandStill DEF Others, Moves
<1>5. LoginFrame /\ LockoutFrame /\ SessionFrame /\ TokenFrame
  BY <1>4 DEF LoginFrame, LockoutFrame, SessionFrame, TokenFrame, sessions, lockouts, tokens
<1>6. HistoryOK'
  BY <1>5, SessionFrames DEF HistoryOK, lockouts, tokens
<1>7. PlaceOK(h)' /\ DeadOK(h)'
  <2>1. deadKeys' = deadKeys
    BY DEF apiKeys
  <2> QED
    BY <1>1, <2>1, SignedHandler DEF SameRequest
<1>8. \A g \in Handlers : PlaceOK(g)' /\ DeadOK(g)'
  BY <1>7, OtherHandlers DEF sessions, apiKeys
<1> QED
  BY <1>2, <1>5, <1>6, <1>8, Whole, OneLoginFrame, LockoutFrames, SessionFrames, TokenFrames

LEMMA NonceFreshStep ==
    ASSUME IInv, NEW h \in Handlers, NonceFresh(h)
    PROVE  IInv'
<1> USE Parts
<1> DEFINE m == Use(h)
<1>1. run[h].pc = "nonceGet"
  BY DEF NonceFresh, At
<1>2. m \in Uses
  BY <1>1, SignedInFlight DEF Use, Uses
<1>3. Others(h) /\ SameLocals(h) /\ run'[h].pc = "nonceSet"
  BY GotoRun DEF NonceFresh, Pcs, AuthPcs
<1>4. UNCHANGED <<sessions, apiKeys, lockouts, suspended, revokedSession, tokens, lastSid, bounds>>
      /\ nonceUsed' = nonceUsed /\ served' = served
  BY DEF NonceFresh
<1>5. faults' \in 0..MaxFaults /\ faults' >= faults
  BY RedisReads DEF NonceFresh
<1>6. /\ excused \subseteq excused' /\ excused' \subseteq excused \cup {m}
      /\ m \notin excused' => m \notin nonceUsed
                              /\ \A g \in Handlers : ~(run[g].pc = "nonceSet" /\ Use(g) = m)
  BY DEF NonceFresh, At
<1>7. \A g \in Handlers \ {h} : run'[g] = run[g]
  BY <1>3 DEF Others
<1>8. Use(h)' = m /\ \A g \in Handlers \ {h} : Use(g)' = Use(g)
  BY <1>3, <1>7 DEF SameLocals, SameRequest, Use
<1>9. NoncesOK'
  <2> SUFFICES ASSUME NEW n \in Uses \ excused'
               PROVE  /\ served[n] <= 1
                      /\ served[n] > 0 => n \in nonceUsed
                      /\ \A g \in Handlers : Use(g)' = n /\ run'[g].pc = "nonceSet" => n \notin nonceUsed
                      /\ \A g \in Handlers : Use(g)' = n /\ run'[g].pc = "keyLookup" =>
                            n \in nonceUsed /\ served[n] = 0
                      /\ \A f, g \in Handlers :
                            /\ Use(f)' = n /\ Use(g)' = n
                            /\ \/ run'[f].pc = "nonceSet" /\ run'[g].pc = "nonceSet"
                               \/ run'[f].pc = "keyLookup" /\ run'[g].pc = "keyLookup"
                            => f = g
    BY <1>4 DEF NoncesOK, At
  <2>1. n \in Uses \ excused
    BY <1>6
  <2> QED
    BY <1>1, <1>3, <1>6, <1>7, <1>8, <2>1 DEF NoncesOK, At
<1>10. nonceUsed' \subseteq Uses /\ excused' \subseteq Uses /\ served' \in [Uses -> Nat]
  BY <1>2, <1>4, <1>6 DEF TypeOK, HistoryOK
<1> QED
  BY <1>1, <1>3, <1>4, <1>5, <1>9, <1>10, NonceStep DEF SameLocals

LEMMA UseNonceStep ==
    ASSUME IInv, NEW h \in Handlers, UseNonce(h)
    PROVE  IInv'
<1> USE Parts
<1> DEFINE m == Use(h)
<1>1. run[h].pc = "nonceSet"
  BY DEF UseNonce, At
<1>2. m \in Uses
  BY <1>1, SignedInFlight DEF Use, Uses
<1>3. Others(h) /\ SameLocals(h) /\ run'[h].pc = "keyLookup"
  BY GotoRun DEF UseNonce, Pcs, AuthPcs
<1>4. UNCHANGED <<sessions, apiKeys, lockouts, suspended, revokedSession, tokens, lastSid, bounds>>
      /\ served' = served
  BY DEF UseNonce
<1>5. /\ nonceUsed \subseteq nonceUsed' /\ nonceUsed' \subseteq nonceUsed \cup {m}
      /\ faults' \in 0..MaxFaults /\ faults' >= faults
  BY RedisSets DEF UseNonce
<1>6. /\ excused \subseteq excused' /\ excused' \subseteq excused \cup {m}
      /\ m \notin excused' => m \in nonceUsed'
  BY DEF UseNonce
<1>7. \A g \in Handlers \ {h} : run'[g] = run[g]
  BY <1>3 DEF Others
<1>8. Use(h)' = m /\ \A g \in Handlers \ {h} : Use(g)' = Use(g)
  BY <1>3, <1>7 DEF SameLocals, SameRequest, Use
<1>9. NoncesOK'
  <2> SUFFICES ASSUME NEW n \in Uses \ excused'
               PROVE  /\ served[n] <= 1
                      /\ served[n] > 0 => n \in nonceUsed'
                      /\ \A g \in Handlers : Use(g)' = n /\ run'[g].pc = "nonceSet" => n \notin nonceUsed'
                      /\ \A g \in Handlers : Use(g)' = n /\ run'[g].pc = "keyLookup" =>
                            n \in nonceUsed' /\ served[n] = 0
                      /\ \A f, g \in Handlers :
                            /\ Use(f)' = n /\ Use(g)' = n
                            /\ \/ run'[f].pc = "nonceSet" /\ run'[g].pc = "nonceSet"
                               \/ run'[f].pc = "keyLookup" /\ run'[g].pc = "keyLookup"
                            => f = g
    BY <1>4 DEF NoncesOK, At
  <2>1. n \in Uses \ excused /\ served[n] \in Nat
    BY <1>6 DEF HistoryOK
  <2>2. CASE n = m
    <3>1. n \notin nonceUsed /\ n \in nonceUsed'
      BY <1>1, <1>6, <2>1, <2>2 DEF NoncesOK, At
    <3>2. served[n] = 0
      BY <2>1, <3>1 DEF NoncesOK
    <3>3. \A g \in Handlers \ {h} : Use(g) = n => run[g].pc \notin {"nonceSet", "keyLookup"}
      BY <1>1, <2>1, <2>2, <3>1 DEF NoncesOK, At
    <3> QED
      BY <1>3, <1>7, <1>8, <3>1, <3>2, <3>3
  <2>3. CASE n # m
    <3>1. n \in nonceUsed' <=> n \in nonceUsed
      BY <1>5, <2>3
    <3> QED
      BY <1>7, <1>8, <2>1, <2>3, <3>1 DEF NoncesOK, At
  <2> QED
    BY <2>2, <2>3
<1>10. nonceUsed' \subseteq Uses /\ excused' \subseteq Uses /\ served' \in [Uses -> Nat]
  BY <1>2, <1>4, <1>5, <1>6 DEF TypeOK, HistoryOK
<1> QED
  BY <1>1, <1>3, <1>4, <1>5, <1>9, <1>10, NonceStep DEF SameLocals

LEMMA VerifyKeyStep ==
    ASSUME IInv, NEW h \in Handlers, VerifyKey(h)
    PROVE  IInv'
<1> USE Parts
<1> DEFINE m == Use(h)
<1>1. run[h].pc = "keyLookup"
  BY DEF VerifyKey, At
<1>2. m \in Uses
  BY <1>1, SignedInFlight DEF Use, Uses
<1>3. UNCHANGED <<sessions, apiKeys, lockouts, suspended, revokedSession, tokens, lastSid, bounds>>
      /\ nonceUsed' = nonceUsed /\ excused' = excused /\ faults' = faults
  BY DEF VerifyKey
<1>4. CASE Answer(h) /\ UNCHANGED served
  <2>1. Quiet
    BY <1>3, <1>4, UnmovedFaults DEF Unmoved, signing
  <2> QED
    BY <1>1, <1>4, <2>1, AnswerStep
<1>5. CASE /\ run[h].item \notin deadKeys
           /\ run' = [run EXCEPT ![h].pc = "serve", ![h].user = keyOwner[run[h].item]]
           /\ served' = [served EXCEPT ![m] = @ + 1]
  <2>1. Others(h) /\ SameRequest(h) /\ run'[h].item = run[h].item /\ run'[h].pc = "serve"
    <3>1. keyOwner[run[h].item] \in Users \cup {NoUser} /\ "serve" \in Pcs
      BY <1>1, SignedInFlight DEF TypeOK, Pcs, ServePcs
    <3> QED
      BY <1>5, <3>1, ReuseRun
  <2>2. \A g \in Handlers \ {h} : run'[g] = run[g] /\ Use(g)' = Use(g)
    BY <2>1 DEF Others, Use
  <2>3. served \in [Uses -> Nat]
    BY DEF HistoryOK
  <2>4. NoncesOK'
    <3> SUFFICES ASSUME NEW n \in Uses \ excused'
                 PROVE  /\ served'[n] <= 1
                        /\ served'[n] > 0 => n \in nonceUsed
                        /\ \A g \in Handlers : Use(g)' = n /\ run'[g].pc = "nonceSet" => n \notin nonceUsed
                        /\ \A g \in Handlers : Use(g)' = n /\ run'[g].pc = "keyLookup" =>
                              n \in nonceUsed /\ served'[n] = 0
                        /\ \A f, g \in Handlers :
                              /\ Use(f)' = n /\ Use(g)' = n
                              /\ \/ run'[f].pc = "nonceSet" /\ run'[g].pc = "nonceSet"
                                 \/ run'[f].pc = "keyLookup" /\ run'[g].pc = "keyLookup"
                              => f = g
      BY <1>3 DEF NoncesOK, At
    <3>1. n \in Uses \ excused
      BY <1>3
    <3>2. CASE n = m
      <4>1. n \in nonceUsed /\ served[n] = 0
        BY <1>1, <3>1, <3>2 DEF NoncesOK, At
      <4>2. served'[n] = 1
        BY <1>2, <1>5, <2>3, <3>2, <4>1
      <4>3. \A g \in Handlers \ {h} : Use(g) = n => run[g].pc \notin {"nonceSet", "keyLookup"}
        BY <1>1, <3>1, <3>2, <4>1 DEF NoncesOK, At
      <4> QED
        BY <2>1, <2>2, <4>1, <4>2, <4>3
    <3>3. CASE n # m
      <4>1. served'[n] = served[n]
        BY <1>2, <1>5, <2>3, <3>3
      <4> QED
        BY <2>1, <2>2, <3>1, <4>1 DEF NoncesOK, At
    <3> QED
      BY <3>2, <3>3
  <2>5. nonceUsed' \subseteq Uses /\ excused' \subseteq Uses /\ served' \in [Uses -> Nat]
        /\ faults' \in 0..MaxFaults /\ faults' >= faults
    BY <1>2, <1>3, <1>5, <2>3 DEF TypeOK, HistoryOK
  <2> QED
    BY <1>1, <1>3, <1>5, <2>1, <2>4, <2>5, NonceStep
<1> QED
  BY <1>4, <1>5 DEF VerifyKey

-------------------------------------------------------------------------------
LEMMA InitHolds == Init => IInv
<1> SUFFICES ASSUME Init PROVE IInv
  OBVIOUS
<1>1. {MaxSeconds, MaxRequests, MaxFaults} \subseteq Nat /\ MaxSessions \in Nat
      /\ MaxFailures \in Nat /\ MaxFailures > 0
  BY AccessAssumption
<1>2. TypeOK
  BY <1>1, IdleType DEF Init, TypeOK
<1>3. Stored = {} /\ \A u : Active(u) = {}
  BY DEF Init, Stored, Active, SessionsOf
<1>4. SessionCap
  BY <1>1, <1>2, <1>3, FS_EmptySet DEF SessionCap
<1>5. HistoryOK
  BY <1>3, FS_EmptySet DEF Init, HistoryOK
<1>6. \A h \in Handlers : run[h].pc = "idle" /\ run[h].op = "use" /\ run[h].dead = {} /\ run[h].token = NoToken
  BY IdleType DEF Init
<1>7. \A h \in Handlers : PlaceOK(h) /\ DeadOK(h)
  BY <1>6 DEF PlaceOK, DeadOK, LoginPcs, RotatePcs, ServePcs, SessionOps
<1>8. OneLogin
  BY <1>6 DEF OneLogin, LoggingIn, LoginPcs
<1>9. LockoutCounts /\ CountsFresh
  BY <1>1, <1>6 DEF Init, LockoutCounts, CountsFresh
<1>10. RoomMade
  BY <1>6 DEF RoomMade
<1>11. NoToken \notin Tokens
  BY AccessAssumption DEF NoToken, Tokens
<1>12. TokensIssued
  <2>1. \A s \in Sids : hash[s] \notin Tokens
    BY <1>11 DEF Init
  <2> QED
    BY <1>6, <2>1 DEF Init, TokensIssued
<1>13. LiveTokenNotMarked
  BY <1>3 DEF LiveTokenNotMarked
<1>14. NoncesOK
  BY <1>6 DEF Init, NoncesOK, At
<1> QED
  BY <1>4, <1>5, <1>7, <1>8, <1>9, <1>10, <1>12, <1>13, <1>14 DEF IInv

LEMMA StepHolds ==
    ASSUME IInv, NEW h \in Handlers, Step(h)
    PROVE  IInv'
BY CheckBruteForceAndLockStep, ReadFailuresStep, RecordLockoutFailureStep, ResetLockoutFailuresStep,
   CountSessionsStep, WriteLoginStep, CommitLoginStep, RotatedStep, RevokeByOldTokenStep, FindSessionStep,
   WriteRotateStep, CommitRotateStep, FinalRefreshStep, SelectSessionStep, WriteRevokeStep, SelectAllStep,
   WriteAllStep, CommitRevokeStep, RevokedInCacheStep, NotInCacheStep, IsSessionRevokedStep,
   CheckStatusStep, DeleteSessionStep, FinishStep, HandleCreateAPIKeyStep, HandleRevokeAPIKeyStep,
   NonceReusedStep, NonceFreshStep, UseNonceStep, VerifyKeyStep
DEF Step

LEMMA ArrivalHolds ==
    ASSUME IInv, NEW h \in Handlers, Arrival(h)
    PROVE  IInv'
BY LoginStep, RefreshStep, SessionRequestStep, BearerRefreshTokenStep, UnsignedRequestStep,
   SignedRequestStep
DEF Arrival

LEMMA StutterHolds ==
    ASSUME IInv, UNCHANGED vars
    PROVE  IInv'
<1> USE Parts
<1>1. UNCHANGED run /\ run' \in [Handlers -> Run]
  BY DEF vars, TypeOK
<1>2. Quiet
  BY DEF vars, TypeOK, Quiet, sessions, apiKeys, lockouts, tokens, bounds
<1>3. \A g \in Handlers : PlaceOK(g)' /\ DeadOK(g)'
  BY <1>1, <1>2, HandlerFrame DEF Quiet
<1>4. \A g \in Handlers : Moves(g)
  BY <1>1, StandStill
<1> QED
  BY <1>1, <1>2, <1>3, <1>4, QuietStep

(* The inductive invariant holds in every reachable state.                 *)
THEOREM AccessInductive == Spec => []IInv
<1>1. IInv /\ [Next]_vars => IInv'
  <2> SUFFICES ASSUME IInv, [Next]_vars PROVE IInv'
    OBVIOUS
  <2>1. CASE UNCHANGED vars
    BY <2>1, StutterHolds
  <2>2. ASSUME NEW h \in Handlers, Arrival(h) \/ Step(h) \/ DatabaseFails(h) PROVE IInv'
    BY <2>2, ArrivalHolds, StepHolds, DatabaseFailsStep
  <2>3. CASE RedisLoss \/ Crash \/ Tick \/ \E u \in Users : SetStatus(u)
    BY <2>3, RedisLossStep, CrashStep, EnvironmentStep
  <2> QED
    BY <2>1, <2>2, <2>3 DEF Next
<1> QED
  BY <1>1, InitHolds, PTL DEF Spec

(* A revocation is final: a request that arrives after the COMMIT which    *)
(* revoked its session or API key acts for no user, is refused by          *)
(* RBACMiddleware, revokes no session and rotates none (authMiddleware,    *)
(* IsSessionRevoked, RotateSession, APIKeyAuthMiddleware), whatever Redis  *)
(* loses and however requests interleave.                                  *)
THEOREM RevocationsAreFinal == Spec => []RevocationIsFinal
<1>1. IInv => RevocationIsFinal
  BY DEF IInv, RevocationIsFinal, DeadOK, At, ServePcs
<1> QED
  BY <1>1, AccessInductive, PTL

(* The token of a live session is marked as rotated only for the reasons   *)
(* LiveTokenNotMarked names: a rotation in flight, a token handed out      *)
(* twice within a second, a rotation rolled back (RotateSession).          *)
THEOREM LiveTokensUsable == Spec => []LiveTokenNotMarked
<1>1. IInv => LiveTokenNotMarked
  BY DEF IInv
<1> QED
  BY <1>1, AccessInductive, PTL

(* The variables have their types, and a user whose logins never           *)
(* overlapped has at most MaxSessions active sessions (CreateSession).     *)
THEOREM SessionsCapped == Spec => []SessionCap
<1>1. IInv => SessionCap
  BY DEF IInv
<1> QED
  BY <1>1, AccessInductive, PTL

(* While nothing fails, the lockout of an identity whose logins do not     *)
(* overlap counts every failure and locks at MaxFailures                   *)
(* (RecordLockoutFailure, ResetLockoutFailures).                           *)
THEOREM LockoutsCount == Spec => []LockoutCounts
<1>1. IInv => LockoutCounts
  BY DEF IInv
<1> QED
  BY <1>1, AccessInductive, PTL

(* The requests signed with one key and nonce are served once, unless two  *)
(* deliveries met between the lookup and the SET of the nonce, or Redis    *)
(* failed (IsNonceReused).                                                 *)
THEOREM SignedRequestsOnce == Spec => []SignedOnce
<1>1. IInv => SignedOnce
  BY DEF IInv, NoncesOK, SignedOnce
<1> QED
  BY <1>1, AccessInductive, PTL
===============================================================================
