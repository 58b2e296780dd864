--------------------------- MODULE WithdrawalsProofs ---------------------------
(***************************************************************************)
(* Proofs about Withdrawals, for every finite set of withdrawals, every    *)
(* set of replicas and tiers, and any number of failures and crashes.      *)
(***************************************************************************)
EXTENDS Withdrawals, Sums

(* What the place of a request in the handler or in                        *)
(* ProcessBlockchainTransaction says of its rows and of the chain.         *)
InHandler(w) ==
    pc[w] \in {"none"} \cup Gate =>
        row[w] = "NONE" /\ btx[w] = "NONE" /\ ~Sent(w) /\ w \notin lost

BeforeSend(w) ==
    /\ pc[w] = "stages" =>
           btx[w] \in {"NONE", "REQUESTED", "APPROVED", "BUILDING", "SIGNING"}
    /\ pc[w] \in {"nonce", "send", "refused", "empty", "record"} => btx[w] = "BROADCASTING"
    /\ pc[w] \in {"stages", "nonce", "send"} => ~Sent(w)
    /\ pc[w] \in {"stages", "nonce", "send", "refused", "failRow", "empty", "record", "mark"} =>
           row[w] = "PENDING_APPROVAL"

AfterSend(w) ==
    /\ pc[w] \in {"refused", "failRow", "empty"} => (Sent(w) => w \in lost)
    /\ pc[w] = "failRow" => btx[w] \in {"BROADCASTING", "FAILED"}
    /\ pc[w] \in {"mark", "poll", "timedOut", "finish"} => btx[w] = "CONFIRMING"
    /\ pc[w] = "finishRow" => btx[w] = "CONFIRMED"
    /\ pc[w] \in {"finish", "finishRow"} => w \in deep
    /\ pc[w] \in {"poll", "timedOut", "finish", "finishRow"} =>
           row[w] \in {"PENDING_APPROVAL", "CONFIRMING"}

(* The two properties, for one withdrawal.                                 *)
Recorded(w) ==
    Sent(w) => \/ btx[w] \in {"BROADCASTING", "CONFIRMING", "CONFIRMED"}
               \/ btx[w] = "FAILED" /\ w \in lost

Truthful(w) ==
    /\ row[w] = "CONFIRMED" => w \in deep /\ btx[w] = "CONFIRMED"
    /\ row[w] = "CONFIRMING" => btx[w] \in {"CONFIRMING", "CONFIRMED"}
    /\ row[w] = "FAILED" => w \in lost \/ ~Sent(w)

Good(w) == InHandler(w) /\ BeforeSend(w) /\ AfterSend(w) /\ Recorded(w) /\ Truthful(w)

(* The node holds one transaction of a withdrawal at most, so one of the   *)
(* next Cardinality(Ids) + 1 nonces is free.                               *)
OneEach == \A e, f \in mempool : e[2] = f[2] => e = f

IInv == TypeOK /\ OneEach /\ \A w \in Ids : Good(w)

-------------------------------------------------------------------------------
(* The next nonce *)

LEMMA NonceType ==
    ASSUME TypeOK, OneEach
    PROVE  PendingNonce \in Nat
<1> DEFINE C == Cardinality(Ids)
           S == mined..(mined + C)
           Taken(n) == \E e \in mempool : e[1] = n
<1>0. mined \in Nat /\ C \in Nat
  BY WithdrawalsAssumption, FS_CardinalityType DEF TypeOK
<1>1. \E n \in S : ~Taken(n)
  <2> SUFFICES ASSUME \A n \in S : Taken(n) PROVE FALSE
    OBVIOUS
  <2> DEFINE at == [n \in S |-> (CHOOSE e \in mempool : e[1] = n)]
             f == [n \in S |-> at[n][2]]
  <2>1. \A n \in S : at[n] \in mempool /\ at[n][1] = n
    OBVIOUS
  <2>2. f \in [S -> Ids]
    BY <2>1 DEF TypeOK
  <2>3. IsFiniteSet(S) /\ Cardinality(S) = C + 1
    <3> HIDE DEF C
    <3>1. mined \in Int /\ mined + C \in Int /\ ~(mined > mined + C)
          /\ (mined + C) - mined + 1 = C + 1
      BY <1>0
    <3> QED
      BY <3>1, FS_Interval
  <2>4. Cardinality(Ids) < Cardinality(S)
    BY <1>0, <2>3
  <2>5. \E x, y \in S : x # y /\ f[x] = f[y]
    <3> HIDE DEF f, S, C, at
    <3> QED
      BY <2>2, <2>3, <2>4, FS_PigeonHole, WithdrawalsAssumption
  <2>6. PICK x \in S, y \in S : x # y /\ f[x] = f[y]
    BY <2>5
  <2>7. at[x][2] = at[y][2]
    BY <2>6
  <2>8. at[x] = at[y]
    BY <2>1, <2>7 DEF OneEach
  <2> QED
    BY <2>1, <2>6, <2>8
<1> DEFINE F == {n \in S : ~Taken(n)}
<1>2. F \subseteq Nat /\ F # {}
  BY <1>0, <1>1
<1>3. PICK m \in F : \A n \in F : m <= n
  <2> HIDE DEF F
  <2> QED
    BY <1>2, LeastNatural
<1>4. ASSUME NEW n \in mined..(m - 1) PROVE Taken(n)
  <2>1. n \in S /\ ~(m <= n)
    BY <1>0, <1>3
  <2> QED
    BY <1>3, <2>1
<1>5. \E n \in S : /\ \A e \in mempool : e[1] # n
                   /\ \A k \in mined..(n - 1) : \E e \in mempool : e[1] = k
  BY <1>3, <1>4
<1>6. PendingNonce \in S
  BY <1>5 DEF PendingNonce
<1> QED
  BY <1>0, <1>6

-------------------------------------------------------------------------------
(* How a step changes one withdrawal *)

LEMMA GotoMoves ==
    ASSUME TypeOK, NEW w \in Ids, NEW from, NEW to \in Running \cup {"ended", "timedOut"},
           Goto(w, from, to)
    PROVE  /\ pc[w] = from /\ pc'[w] = to /\ \A v \in Ids \ {w} : pc'[v] = pc[v]
           /\ pc' \in [Ids -> Running \cup {"none", "ended", "timedOut"}]
BY DEF Goto, TypeOK

LEMMA FaultType ==
    ASSUME TypeOK, Fault
    PROVE  faults' \in 0..MaxFaults
BY WithdrawalsAssumption DEF Fault, TypeOK

LEMMA SaveMoves ==
    ASSUME TypeOK, NEW w \in Ids, NEW s \in TxStatus, Save(w, s)
    PROVE  /\ btx' \in [Ids -> TxStatus] /\ row' \in [Ids -> RowStatus]
           /\ btx'[w] = s /\ row'[w] = row[w]
           /\ \A v \in Ids \ {w} : btx'[v] = btx[v] /\ row'[v] = row[v]
BY DEF Save, TypeOK

LEMMA SetRowMoves ==
    ASSUME TypeOK, NEW w \in Ids, NEW s \in RowStatus, SetRow(w, s)
    PROVE  /\ btx' \in [Ids -> TxStatus] /\ row' \in [Ids -> RowStatus]
           /\ row'[w] = s /\ btx'[w] = btx[w]
           /\ \A v \in Ids \ {w} : btx'[v] = btx[v] /\ row'[v] = row[v]
BY DEF SetRow, TypeOK

LEMMA TableStatuses ==
    /\ TxStatus = {"REQUESTED", "APPROVED", "BUILDING", "SIGNING", "BROADCASTING",
                   "NONE", "CONFIRMING", "CONFIRMED", "FAILED"}
    /\ Len(Stages) = 5
    /\ Stages[1] = "REQUESTED" /\ Stages[2] = "APPROVED" /\ Stages[3] = "BUILDING"
    /\ Stages[4] = "SIGNING" /\ Stages[5] = "BROADCASTING"
<1>1. /\ Len(Stages) = 5 /\ DOMAIN Stages = 1..5
      /\ Stages[1] = "REQUESTED" /\ Stages[2] = "APPROVED" /\ Stages[3] = "BUILDING"
      /\ Stages[4] = "SIGNING" /\ Stages[5] = "BROADCASTING"
  BY DEF Stages
<1>2. 1..5 = {1, 2, 3, 4, 5}
  OBVIOUS
<1>3. Range(Stages) = {"REQUESTED", "APPROVED", "BUILDING", "SIGNING", "BROADCASTING"}
  BY <1>1, <1>2 DEF Range
<1> QED
  BY <1>1, <1>3 DEF TxStatus

LEMMA StageFollows ==
    ASSUME NEW s \in {"NONE", "REQUESTED", "APPROVED", "BUILDING", "SIGNING"}
    PROVE  Stages[NextStage(s)] \in
              {"REQUESTED", "APPROVED", "BUILDING", "SIGNING", "BROADCASTING"}
<1> USE TableStatuses
<1>1. \E i \in 1..5 : IF s = "NONE" THEN i = 1 ELSE i > 1 /\ Stages[i - 1] = s
  <2>1. CASE s = "NONE"
    BY <2>1
  <2>2. CASE s = "REQUESTED"
    <3>1. 2 \in 1..5 /\ 2 > 1 /\ Stages[2 - 1] = s
      BY <2>2
    <3> QED
      BY <2>2, <3>1
  <2>3. CASE s = "APPROVED"
    <3>1. 3 \in 1..5 /\ 3 > 1 /\ Stages[3 - 1] = s
      BY <2>3
    <3> QED
      BY <2>3, <3>1
  <2>4. CASE s = "BUILDING"
    <3>1. 4 \in 1..5 /\ 4 > 1 /\ Stages[4 - 1] = s
      BY <2>4
    <3> QED
      BY <2>4, <3>1
  <2>5. CASE s = "SIGNING"
    <3>1. 5 \in 1..5 /\ 5 > 1 /\ Stages[5 - 1] = s
      BY <2>5
    <3> QED
      BY <2>5, <3>1
  <2> QED
    BY <2>1, <2>2, <2>3, <2>4, <2>5
<1>2. NextStage(s) \in 1..5
  BY <1>1 DEF NextStage
<1>3. NextStage(s) \in {1, 2, 3, 4, 5}
  BY <1>2
<1> QED
  BY <1>3

(* What a step of w leaves of the other withdrawals: their rows and their  *)
(* place; their transaction may be dropped from the node, never added.     *)
Undisturbed(v) ==
    /\ pc'[v] = pc[v] /\ row'[v] = row[v] /\ btx'[v] = btx[v]
    /\ Sent(v)' => Sent(v)
    /\ v \in deep => v \in deep'
    /\ v \in lost <=> v \in lost'

LEMMA UndisturbedIsGood ==
    ASSUME NEW v \in Ids, Good(v), Undisturbed(v)
    PROVE  Good(v)'
<1>1. InHandler(v)'
  BY DEF Good, Undisturbed, InHandler
<1>2. BeforeSend(v)'
  BY DEF Good, Undisturbed, BeforeSend
<1>3. AfterSend(v)'
  BY DEF Good, Undisturbed, AfterSend
<1>4. Recorded(v)' /\ Truthful(v)'
  BY DEF Good, Undisturbed, Recorded, Truthful
<1> QED
  BY <1>1, <1>2, <1>3, <1>4 DEF Good

(* A crash ends a request where it is.                                     *)
LEMMA EndedIsGood ==
    ASSUME NEW v \in Ids, Good(v), pc'[v] = "ended",
           row'[v] = row[v], btx'[v] = btx[v], Sent(v)' => Sent(v),
           v \in deep => v \in deep', v \in lost <=> v \in lost'
    PROVE  Good(v)'
<1>1. InHandler(v)' /\ BeforeSend(v)' /\ AfterSend(v)'
  BY DEF InHandler, BeforeSend, AfterSend, Gate
<1>2. Recorded(v)' /\ Truthful(v)'
  BY DEF Good, Recorded, Truthful
<1> QED
  BY <1>1, <1>2 DEF Good

LEMMA UnchangedChain ==
    ASSUME UNCHANGED chain
    PROVE  \A v : /\ Sent(v)' <=> Sent(v)
                  /\ v \in deep <=> v \in deep'
                  /\ v \in lost <=> v \in lost'
BY DEF chain, node, Sent

LEMMA AcceptChain ==
    ASSUME TypeOK, OneEach, NEW w \in Ids, Accept(w), ~Sent(w)
    PROVE  /\ \A v \in Ids \ {w} : Sent(v)' => Sent(v)
           /\ OneEach' /\ mempool' \subseteq Nat \X Ids
           /\ UNCHANGED <<mined, paid, deep>>
<1> DEFINE x == <<nonce[w], w>>
<1>1. x[2] = w /\ x \in Nat \X Ids /\ nonce[w] \in Nat
  BY DEF TypeOK
<1>2. \A e \in mempool' : e = x \/ e \in mempool
  BY DEF Accept
<1>3. \A v \in Ids \ {w} : Sent(v)' => Sent(v)
  BY <1>1, <1>2 DEF Sent, Accept
<1>4. mempool' \subseteq Nat \X Ids
  BY <1>1, <1>2 DEF TypeOK
<1>5. \A e \in mempool : e[2] # w
  BY DEF Sent
<1> HIDE DEF x
<1>6. OneEach'
  BY <1>1, <1>2, <1>5 DEF OneEach
<1> QED
  BY <1>3, <1>4, <1>6 DEF Accept


LEMMA OneMoved ==
    ASSUME IInv, NEW w \in Ids, TypeOK', OneEach', Good(w)',
           \A v \in Ids \ {w} : Undisturbed(v)
    PROVE  IInv'
<1>1. ASSUME NEW v \in Ids PROVE Good(v)'
  BY UndisturbedIsGood DEF IInv
<1> QED
  BY <1>1 DEF IInv

-------------------------------------------------------------------------------
(* The handler *)

LEMMA HandlerMoves ==
    ASSUME IInv, NEW w \in Ids, NEW from \in {"none"} \cup Gate, NEW to \in Gate \cup {"ended"},
           Goto(w, from, to), UNCHANGED <<tables, chain, crashes>>, EngineTypeOK',
           faults' \in 0..MaxFaults, outdated' \subseteq Ids, seen' \in [Ids -> Nat]
    PROVE  IInv'
<1>0. TypeOK /\ OneEach /\ Good(w)
  BY DEF IInv
<1>1. /\ pc[w] = from /\ pc'[w] = to /\ \A v \in Ids \ {w} : pc'[v] = pc[v]
      /\ pc' \in [Ids -> Running \cup {"none", "ended", "timedOut"}]
  BY <1>0, GotoMoves DEF Running
<1>2. UNCHANGED <<tables, chain, crashes>>
  OBVIOUS
<1>3. TypeOK'
  BY <1>0, <1>1, <1>2 DEF TypeOK, tables, chain, node
<1>4. OneEach'
  BY <1>0, <1>2 DEF OneEach, chain, node
<1>5. \A v \in Ids \ {w} : Undisturbed(v)
  BY <1>1, <1>2, UnchangedChain DEF Undisturbed, tables
<1>6. row'[w] = "NONE" /\ btx'[w] = "NONE" /\ ~Sent(w)' /\ w \notin lost'
  BY <1>0, <1>1, <1>2, UnchangedChain DEF Good, InHandler, tables
<1>7. Good(w)'
  BY <1>1, <1>6 DEF Good, InHandler, BeforeSend, AfterSend, Recorded, Truthful, Gate
<1> QED
  BY <1>3, <1>4, <1>5, <1>7, OneMoved

Handler(w) ==
    \/ Request(w) \/ EvaluateAmount(w) \/ EvaluateVelocity(w) \/ Monitor(w)
    \/ CheckTravelRule(w) \/ EvaluateAMLFails(w) \/ HandlerFails(w)

LEMMA HandlerStep ==
    ASSUME IInv, NEW w \in Ids, Handler(w)
    PROVE  IInv'
<1>0. TypeOK /\ EngineTypeOK /\ w \in Ids /\ Host[w] \in Replicas
  BY WithdrawalsAssumption DEF IInv, TypeOK
<1>u. UNCHANGED engineVars => EngineTypeOK'
  BY <1>0 DEF EngineTypeOK, engineVars
<1>a. \A rule \in {"amount", "velocity"} : CreateAlert(rule, w) => EngineTypeOK'
  BY <1>0 DEF EngineTypeOK, CreateAlert
<1>f. /\ UNCHANGED faults \/ Fault => faults' \in 0..MaxFaults
      /\ UNCHANGED outdated \/ outdated' = outdated \cup {w} => outdated' \subseteq Ids
  BY <1>0, FaultType DEF TypeOK
<1>h. HandlerOnly => UNCHANGED <<tables, chain, crashes>> /\ seen' \in [Ids -> Nat]
  BY <1>0 DEF HandlerOnly, TypeOK
<1>1. CASE Request(w)
  <2>1. \E to \in {"amount", "ended"} : Goto(w, "none", to)
    BY <1>1 DEF Request
  <2>2. /\ HandlerOnly /\ UNCHANGED engineVars
        /\ UNCHANGED faults \/ Fault
        /\ UNCHANGED outdated \/ outdated' = outdated \cup {w}
    BY <1>1 DEF Request
  <2> QED
    BY <1>u, <1>f, <1>h, <2>1, <2>2, HandlerMoves DEF Gate
<1>2. CASE EvaluateAmount(w)
  BY <1>2, <1>u, <1>a, <1>f, <1>h, HandlerMoves DEF EvaluateAmount, Gate
<1>3. CASE EvaluateVelocity(w)
  <2>1. \E to \in {"restrict", "travel"} : Goto(w, "velocity", to)
    BY <1>3 DEF EvaluateVelocity
  <2>2. /\ UNCHANGED engineVars \/ CreateAlert("velocity", w)
        /\ UNCHANGED <<tables, chain, crashes>> /\ UNCHANGED <<faults, outdated>>
    BY <1>3 DEF EvaluateVelocity
  <2>3. seen' \in [Ids -> Nat]
    BY <1>0, <1>3 DEF EvaluateVelocity, TypeOK, EngineTypeOK
  <2> QED
    BY <1>u, <1>a, <1>f, <2>1, <2>2, <2>3, HandlerMoves DEF Gate
<1>4. CASE Monitor(w)
  <2>1. EngineTypeOK'
    BY <1>0, <1>4 DEF Monitor, RestrictAccount, EngineTypeOK
  <2> QED
    BY <1>4, <1>f, <1>h, <2>1, HandlerMoves DEF Monitor, Gate
<1>5. CASE CheckTravelRule(w)
  <2>1. \E to \in {"insert", "ended"} : Goto(w, "travel", to)
    BY <1>5 DEF CheckTravelRule
  <2>2. EngineTypeOK'
    BY <1>0, <1>5, <1>u DEF CheckTravelRule, RegisterTravelRule, EngineTypeOK
  <2>3. HandlerOnly /\ UNCHANGED <<faults, outdated>>
    BY <1>5 DEF CheckTravelRule
  <2> QED
    BY <1>f, <1>h, <2>1, <2>2, <2>3, HandlerMoves DEF Gate
<1>6. CASE EvaluateAMLFails(w)
  BY <1>6, <1>u, <1>f, <1>h, HandlerMoves DEF EvaluateAMLFails, Gate
<1>7. CASE HandlerFails(w)
  BY <1>7, <1>u, <1>f, <1>h, HandlerMoves DEF HandlerFails, Gate
<1> QED
  BY <1>1, <1>2, <1>3, <1>4, <1>5, <1>6, <1>7 DEF Handler

LEMMA InsertStep ==
    ASSUME IInv, NEW w \in Ids, InsertWithdrawal(w)
    PROVE  IInv'
<1>0. TypeOK /\ OneEach /\ Good(w)
  BY DEF IInv
<1>1. /\ pc[w] = "insert" /\ pc'[w] = "stages" /\ \A v \in Ids \ {w} : pc'[v] = pc[v]
      /\ pc' \in [Ids -> Running \cup {"none", "ended", "timedOut"}]
  BY <1>0, GotoMoves DEF Running, InsertWithdrawal
<1>2. /\ UNCHANGED <<chain, faults, crashes, seen, engineVars>> /\ outdated' \subseteq Ids
  BY <1>0 DEF InsertWithdrawal, TypeOK
<1>3. /\ btx' \in [Ids -> TxStatus] /\ row' \in [Ids -> RowStatus]
      /\ row'[w] = "PENDING_APPROVAL" /\ btx'[w] = btx[w]
      /\ \A v \in Ids \ {w} : btx'[v] = btx[v] /\ row'[v] = row[v]
  BY <1>0, SetRowMoves DEF InsertWithdrawal, RowStatus
<1>4. TypeOK'
  BY <1>0, <1>1, <1>2, <1>3 DEF TypeOK, chain, node, EngineTypeOK, engineVars
<1>5. OneEach'
  BY <1>0, <1>2 DEF OneEach, chain, node
<1>6. \A v \in Ids \ {w} : Undisturbed(v)
  BY <1>1, <1>2, <1>3, UnchangedChain DEF Undisturbed
<1>7. btx'[w] = "NONE" /\ ~Sent(w)'
  BY <1>0, <1>1, <1>2, <1>3, UnchangedChain DEF Good, InHandler, Gate
<1>8. Good(w)'
  BY <1>1, <1>3, <1>7 DEF Good, InHandler, BeforeSend, AfterSend, Recorded, Truthful, Gate
<1> QED
  BY <1>4, <1>5, <1>6, <1>8, OneMoved

-------------------------------------------------------------------------------
(* ProcessBlockchainTransaction *)

(* Steps that leave the chain alone.                                       *)
LEMMA OffChain ==
    ASSUME IInv, NEW w \in Ids, NEW from, NEW to \in Running \cup {"ended", "timedOut"},
           Goto(w, from, to), UNCHANGED <<mempool, mined, paid, deep, lost, crashes, gate>>,
           nonce' \in [Ids -> Nat],
           faults' \in 0..MaxFaults,
           btx' \in [Ids -> TxStatus], row' \in [Ids -> RowStatus],
           \A v \in Ids \ {w} : btx'[v] = btx[v] /\ row'[v] = row[v],
           Good(w)'
    PROVE  IInv'
<1>0. TypeOK /\ OneEach
  BY DEF IInv
<1>1. /\ \A v \in Ids \ {w} : pc'[v] = pc[v]
      /\ pc' \in [Ids -> Running \cup {"none", "ended", "timedOut"}]
  BY <1>0, GotoMoves
<1>2. TypeOK'
  BY <1>0, <1>1 DEF TypeOK, gate, EngineTypeOK, engineVars
<1>3. OneEach'
  BY <1>0 DEF OneEach
<1>4. \A v \in Ids \ {w} : Undisturbed(v)
  BY <1>1 DEF Undisturbed, Sent
<1> QED
  BY <1>2, <1>3, <1>4, OneMoved

LEMMA StageStep ==
    ASSUME IInv, NEW w \in Ids, SaveStage(w)
    PROVE  IInv'
<1> DEFINE s == Stages[NextStage(btx[w])]
           to == IF s = "BROADCASTING" THEN "nonce" ELSE "stages"
<1>0. TypeOK /\ Good(w) /\ pc[w] = "stages"
  BY DEF IInv, SaveStage, Goto
<1>1. btx[w] \in {"NONE", "REQUESTED", "APPROVED", "BUILDING", "SIGNING"}
  BY <1>0 DEF Good, BeforeSend
<1>2. s \in {"REQUESTED", "APPROVED", "BUILDING", "SIGNING", "BROADCASTING"}
  BY <1>1, StageFollows
<1> HIDE DEF s
<1>3. s \in TxStatus
  BY <1>2, TableStatuses
<1>4. Goto(w, "stages", to) /\ Save(w, s) /\ UNCHANGED <<chain, faults, crashes, gate>>
  BY DEF SaveStage, s
<1>5. to \in Running \cup {"ended", "timedOut"} /\ to \in {"nonce", "stages"}
  BY DEF Running
<1>6. pc'[w] = to
  BY <1>0, <1>4, <1>5, GotoMoves
<1>7. /\ btx' \in [Ids -> TxStatus] /\ row' \in [Ids -> RowStatus]
      /\ btx'[w] = s /\ row'[w] = row[w]
      /\ \A v \in Ids \ {w} : btx'[v] = btx[v] /\ row'[v] = row[v]
  BY <1>0, <1>3, <1>4, SaveMoves
<1>8. row[w] = "PENDING_APPROVAL" /\ ~Sent(w)'
  BY <1>0, <1>4, UnchangedChain DEF Good, BeforeSend
<1>9. Good(w)'
  BY <1>2, <1>6, <1>7, <1>8
  DEF Good, InHandler, BeforeSend, AfterSend, Recorded, Truthful, Gate
<1> HIDE DEF to
<1>10. faults' \in 0..MaxFaults /\ nonce' \in [Ids -> Nat]
  BY <1>0, <1>4 DEF TypeOK, chain
<1> QED
  BY <1>4, <1>5, <1>7, <1>9, <1>10, OffChain DEF chain, node

LEMMA NonceStep ==
    ASSUME IInv, NEW w \in Ids, FetchNonce(w)
    PROVE  IInv'
<1>0. TypeOK /\ OneEach /\ Good(w)
  BY DEF IInv
<1>1. nonce' \in [Ids -> Nat]
  BY <1>0, NonceType DEF FetchNonce, TypeOK
<1>2. /\ Goto(w, "nonce", "send") /\ UNCHANGED <<tables, node, faults, crashes, lost, gate>>
  BY DEF FetchNonce
<1>3. pc[w] = "nonce" /\ pc'[w] = "send"
  BY <1>0, <1>2, GotoMoves DEF Running
<1>4. row' = row /\ btx' = btx /\ faults' = faults /\ (Sent(w)' <=> Sent(w))
  BY <1>2 DEF tables, node, Sent
<1>5. Good(w)'
  BY <1>0, <1>3, <1>4 DEF Good, InHandler, BeforeSend, AfterSend, Recorded, Truthful, Gate
<1> QED
  BY <1>0, <1>1, <1>2, <1>4, <1>5, OffChain DEF node, TypeOK, Running

(* The transaction reaches the node.                                       *)
LEMMA SendStep ==
    ASSUME IInv, NEW w \in Ids, Broadcast(w) \/ BroadcastAnswerLost(w)
    PROVE  IInv'
<1>0. TypeOK /\ OneEach /\ Good(w)
  BY DEF IInv
<1>1. \E to \in {"record", "refused", "empty"} :
          Goto(w, "send", to) /\ (to # "record" => w \in lost')
  BY DEF Broadcast, BroadcastAnswerLost
<1>2. PICK to \in {"record", "refused", "empty"} :
          Goto(w, "send", to) /\ (to # "record" => w \in lost')
  BY <1>1
<1>3. /\ pc[w] = "send" /\ pc'[w] = to /\ \A v \in Ids \ {w} : pc'[v] = pc[v]
      /\ pc' \in [Ids -> Running \cup {"none", "ended", "timedOut"}]
  BY <1>0, <1>2, GotoMoves DEF Running
<1>4. Accept(w) /\ UNCHANGED <<tables, nonce, crashes, gate>>
  BY DEF Broadcast, BroadcastAnswerLost
<1>5. /\ \A v \in Ids \ {w} : Sent(v)' => Sent(v)
      /\ OneEach' /\ mempool' \subseteq Nat \X Ids
      /\ UNCHANGED <<mined, paid, deep>>
  BY <1>0, <1>3, <1>4, AcceptChain DEF Good, BeforeSend
<1>6. lost' = lost \/ lost' = lost \cup {w}
  BY DEF Broadcast, BroadcastAnswerLost
<1>7. faults' \in 0..MaxFaults
  BY <1>0, FaultType DEF Broadcast, BroadcastAnswerLost, TypeOK
<1>8. TypeOK'
  BY <1>0, <1>3, <1>4, <1>5, <1>6, <1>7 DEF TypeOK, tables, gate, EngineTypeOK, engineVars
<1>9. \A v \in Ids \ {w} : Undisturbed(v)
  BY <1>3, <1>4, <1>5, <1>6 DEF Undisturbed, tables
<1>10. btx'[w] = "BROADCASTING" /\ row'[w] = "PENDING_APPROVAL"
  BY <1>0, <1>3, <1>4 DEF Good, BeforeSend, tables
<1>11. Good(w)'
  BY <1>2, <1>3, <1>10
  DEF Good, InHandler, BeforeSend, AfterSend, Recorded, Truthful, Gate
<1> QED
  BY <1>5, <1>8, <1>9, <1>11, OneMoved

(* Steps that write neither table.                                         *)
SilentMoves ==
    {<<"send", "refused">>, <<"send", "empty">>, <<"nonce", "refused">>, <<"poll", "finish">>,
     <<"poll", "timedOut">>, <<"stages", "ended">>, <<"record", "ended">>,
     <<"finish", "ended">>, <<"refused", "failRow">>, <<"failRow", "ended">>,
     <<"empty", "ended">>, <<"mark", "poll">>, <<"finishRow", "ended">>}

LEMMA SilentStep ==
    ASSUME IInv, NEW w \in Ids, NEW from, NEW to, <<from, to>> \in SilentMoves,
           Goto(w, from, to), to = "finish" => w \in deep,
           UNCHANGED <<tables, chain, crashes, gate>>, UNCHANGED faults \/ Fault
    PROVE  IInv'
<1>0. TypeOK /\ Good(w)
  BY DEF IInv
<1>1. to \in Running \cup {"ended", "timedOut"}
  BY DEF SilentMoves, Running
<1>2. pc[w] = from /\ pc'[w] = to
  BY <1>0, <1>1, GotoMoves
<1>3. /\ row' = row /\ btx' = btx
      /\ (Sent(w)' <=> Sent(w)) /\ (w \in deep' <=> w \in deep) /\ (w \in lost' <=> w \in lost)
  BY UnchangedChain DEF tables
<1>4. InHandler(w)' /\ BeforeSend(w)' /\ AfterSend(w)'
  BY <1>0, <1>2, <1>3 DEF Good, InHandler, BeforeSend, AfterSend, SilentMoves, Gate
<1>5. Recorded(w)' /\ Truthful(w)'
  BY <1>0, <1>3 DEF Good, Recorded, Truthful
<1>6. faults' \in 0..MaxFaults
  BY <1>0, FaultType DEF TypeOK
<1> QED
  BY <1>0, <1>1, <1>3, <1>4, <1>5, <1>6, OffChain DEF Good, TypeOK, chain, node

Silent(w) ==
    \/ BroadcastRefused(w) \/ BroadcastFails(w) \/ Confirmed(w) \/ PollTimeout(w)
    \/ SaveFails(w) \/ IgnoredFailure(w)

LEMMA SilentSteps ==
    ASSUME IInv, NEW w \in Ids, Silent(w)
    PROVE  IInv'
<1> USE SilentStep DEF SilentMoves
<1>1. CASE BroadcastRefused(w)
  BY <1>1 DEF BroadcastRefused
<1>2. CASE BroadcastFails(w)
  BY <1>2 DEF BroadcastFails
<1>3. CASE Confirmed(w)
  BY <1>3 DEF Confirmed
<1>4. CASE PollTimeout(w)
  BY <1>4 DEF PollTimeout
<1>5. CASE SaveFails(w)
  BY <1>5 DEF SaveFails
<1>6. CASE IgnoredFailure(w)
  BY <1>6 DEF IgnoredFailure
<1> QED
  BY <1>1, <1>2, <1>3, <1>4, <1>5, <1>6 DEF Silent

(* Steps that write one table.                                             *)
LEMMA WriteStep ==
    ASSUME IInv, NEW w \in Ids, NEW from, NEW to \in Running \cup {"ended"},
           Goto(w, from, to), UNCHANGED <<chain, faults, crashes, gate>>,
           \/ \E s \in TxStatus : /\ Save(w, s)
                                  /\ <<from, to, s>> \in {<<"refused", "failRow", "FAILED">>,
                                       <<"empty", "ended", "FAILED">>,
                                       <<"record", "mark", "CONFIRMING">>,
                                       <<"finish", "finishRow", "CONFIRMED">>}
           \/ \E s \in RowStatus : /\ SetRow(w, s)
                                   /\ <<from, to, s>> \in {<<"failRow", "ended", "FAILED">>,
                                       <<"mark", "poll", "CONFIRMING">>,
                                       <<"finishRow", "ended", "CONFIRMED">>}
    PROVE  IInv'
<1>0. TypeOK /\ Good(w)
  BY DEF IInv
<1>1. pc[w] = from /\ pc'[w] = to
  BY <1>0, GotoMoves
<1>2. (Sent(w)' <=> Sent(w)) /\ (w \in deep' <=> w \in deep) /\ (w \in lost' <=> w \in lost)
  BY UnchangedChain
<1>3. faults' \in 0..MaxFaults /\ nonce' \in [Ids -> Nat]
  BY <1>0 DEF TypeOK, chain
<1>4. ASSUME NEW s \in TxStatus, Save(w, s),
             <<from, to, s>> \in {<<"refused", "failRow", "FAILED">>,
                 <<"empty", "ended", "FAILED">>, <<"record", "mark", "CONFIRMING">>,
                 <<"finish", "finishRow", "CONFIRMED">>}
      PROVE  IInv'
  <2>1. /\ btx' \in [Ids -> TxStatus] /\ row' \in [Ids -> RowStatus]
        /\ btx'[w] = s /\ row'[w] = row[w]
        /\ \A v \in Ids \ {w} : btx'[v] = btx[v] /\ row'[v] = row[v]
    BY <1>0, <1>4, SaveMoves
  <2>2. InHandler(w)' /\ BeforeSend(w)' /\ AfterSend(w)'
    BY <1>0, <1>1, <1>2, <1>4, <2>1 DEF Good, InHandler, BeforeSend, AfterSend, Gate
  <2>3. Recorded(w)' /\ Truthful(w)'
    BY <1>0, <1>1, <1>2, <1>4, <2>1 DEF Good, BeforeSend, AfterSend, Recorded, Truthful
  <2>4. Good(w)'
    BY <2>2, <2>3 DEF Good
  <2> QED
    BY <1>3, <2>1, <2>4, OffChain DEF chain, node
<1>5. ASSUME NEW s \in RowStatus, SetRow(w, s),
             <<from, to, s>> \in {<<"failRow", "ended", "FAILED">>,
                 <<"mark", "poll", "CONFIRMING">>, <<"finishRow", "ended", "CONFIRMED">>}
      PROVE  IInv'
  <2>1. /\ btx' \in [Ids -> TxStatus] /\ row' \in [Ids -> RowStatus]
        /\ row'[w] = s /\ btx'[w] = btx[w]
        /\ \A v \in Ids \ {w} : btx'[v] = btx[v] /\ row'[v] = row[v]
    BY <1>0, <1>5, SetRowMoves
  <2>2. InHandler(w)' /\ BeforeSend(w)' /\ AfterSend(w)'
    BY <1>0, <1>1, <1>2, <1>5, <2>1 DEF Good, InHandler, BeforeSend, AfterSend, Gate
  <2>3. Recorded(w)' /\ Truthful(w)'
    BY <1>0, <1>1, <1>2, <1>5, <2>1 DEF Good, BeforeSend, AfterSend, Recorded, Truthful
  <2>4. Good(w)'
    BY <2>2, <2>3 DEF Good
  <2> QED
    BY <1>3, <2>1, <2>4, OffChain DEF chain, node
<1> QED
  BY <1>4, <1>5

LEMMA WriteSteps ==
    ASSUME IInv, NEW w \in Ids,
           RecordFailure(w) \/ RecordEmptyHash(w) \/ RecordBroadcast(w) \/ RecordConfirmed(w)
    PROVE  IInv'
<1>s. {"FAILED", "CONFIRMING", "CONFIRMED"} \subseteq TxStatus \cap RowStatus
      /\ {"failRow", "ended", "mark", "poll", "finishRow"} \subseteq Running \cup {"ended"}
  BY TableStatuses DEF RowStatus, Running
<1>1. CASE RecordFailure(w)
  BY <1>1, <1>s, WriteStep DEF RecordFailure
<1>2. CASE RecordEmptyHash(w)
  BY <1>2, <1>s, WriteStep DEF RecordEmptyHash
<1>3. CASE RecordBroadcast(w)
  BY <1>3, <1>s, WriteStep DEF RecordBroadcast
<1>4. CASE RecordConfirmed(w)
  BY <1>4, <1>s, WriteStep DEF RecordConfirmed
<1> QED
  BY <1>1, <1>2, <1>3, <1>4

-------------------------------------------------------------------------------
(* The chain, the replicas and the user's tiers *)

LEMMA ChainStep ==
    ASSUME IInv, Mine \/ \E w \in Ids : Bury(w)
    PROVE  IInv'
<1>0. TypeOK /\ OneEach
  BY DEF IInv
<1>1. UNCHANGED <<tables, pc, nonce, faults, crashes, lost, gate>>
  BY DEF Mine, Bury
<1>2. /\ mined' \in Nat /\ mempool' \subseteq mempool /\ paid' \subseteq Ids
      /\ deep' \subseteq paid' /\ deep \subseteq deep'
      /\ \A v \in Ids : Sent(v)' => Sent(v)
  <2>1. CASE Mine
    <3>1. PICK e \in Holders(mined) : mempool' = mempool \ {e} /\ paid' = paid \cup {e[2]}
      BY <2>1 DEF Mine
    <3>2. e \in mempool /\ e[2] \in Ids /\ mined' = mined + 1 /\ deep' = deep
      BY <1>0, <2>1, <3>1 DEF Holders, TypeOK, Mine
    <3> QED
      BY <1>0, <3>1, <3>2 DEF TypeOK, Sent
  <2>2. CASE \E w \in Ids : Bury(w)
    BY <1>0, <2>2 DEF Bury, TypeOK, Sent
  <2> QED
    BY <2>1, <2>2
<1>3. TypeOK'
  BY <1>0, <1>1, <1>2 DEF TypeOK, tables, gate, EngineTypeOK, engineVars
<1>4. OneEach'
  BY <1>0, <1>2 DEF OneEach
<1>5. ASSUME NEW v \in Ids PROVE Good(v)'
  <2>1. Undisturbed(v)
    BY <1>1, <1>2 DEF Undisturbed, tables
  <2> QED
    BY <2>1, UndisturbedIsGood DEF IInv
<1> QED
  BY <1>3, <1>4, <1>5 DEF IInv

LEMMA CrashStep ==
    ASSUME IInv, NEW g \in Replicas, Crash(g)
    PROVE  IInv'
<1>0. TypeOK /\ OneEach /\ EngineTypeOK
  BY DEF IInv, TypeOK
<1>1. UNCHANGED <<tables, chain, faults, outdated, seen>> /\ crashes < MaxCrashes
      /\ crashes' = crashes + 1
  BY DEF Crash
<1>2. crashes' \in 0..MaxCrashes
  BY <1>0, <1>1, WithdrawalsAssumption DEF TypeOK
<1>3. /\ pc' \in [Ids -> Running \cup {"none", "ended", "timedOut"}]
      /\ \A v \in Ids : pc'[v] = pc[v] \/ pc'[v] = "ended"
  BY <1>0 DEF Crash, TypeOK
<1>4. EngineTypeOK'
  BY <1>0 DEF Crash, NewComplianceEngine, EngineTypeOK
<1>5. TypeOK'
  BY <1>0, <1>1, <1>2, <1>3, <1>4 DEF TypeOK, tables, chain, node
<1>6. OneEach'
  BY <1>0, <1>1 DEF OneEach, chain, node
<1>7. ASSUME NEW v \in Ids PROVE Good(v)'
  <2>1. /\ row'[v] = row[v] /\ btx'[v] = btx[v] /\ (Sent(v)' => Sent(v))
        /\ (v \in deep => v \in deep') /\ (v \in lost <=> v \in lost')
    BY <1>1, UnchangedChain DEF tables
  <2>2. CASE pc'[v] = pc[v]
    BY <2>1, <2>2, UndisturbedIsGood DEF IInv, Undisturbed
  <2>3. CASE pc'[v] = "ended"
    BY <2>1, <2>3, EndedIsGood DEF IInv
  <2> QED
    BY <1>3, <2>2, <2>3
<1> QED
  BY <1>5, <1>6, <1>7 DEF IInv

LEMMA TierStep ==
    ASSUME IInv, SubmitTier \/ DetectDeposit \/ UNCHANGED vars
    PROVE  IInv'
<1>0. TypeOK /\ OneEach /\ EngineTypeOK
  BY DEF IInv, TypeOK
<1>1. UNCHANGED <<tables, chain, crashes, pc, outdated, seen>>
  BY DEF SubmitTier, DetectDeposit, HandlerOnly, vars, gate
<1>2. faults' \in 0..MaxFaults
  BY <1>0, FaultType DEF SubmitTier, DetectDeposit, vars, TypeOK
<1>3. EngineTypeOK'
  <2>1. CASE UNCHANGED vars
    BY <1>0, <2>1 DEF vars, gate, engineVars, EngineTypeOK
  <2>2. CASE SubmitTier
    <3>1. PICK g \in Replicas, t \in Tiers : SubmitKYC(g, t) \/ SubmitKYCFails(g, t)
      BY <2>2 DEF SubmitTier
    <3> QED
      BY <1>0, <3>1 DEF SubmitKYC, SubmitKYCFails, EngineTypeOK
  <2>3. CASE DetectDeposit
    BY <1>0, <2>3 DEF DetectDeposit, RecordDeposit, EngineTypeOK
  <2> QED
    BY <2>1, <2>2, <2>3
<1>4. TypeOK'
  BY <1>0, <1>1, <1>2, <1>3 DEF TypeOK, tables, chain, node
<1>5. OneEach'
  BY <1>0, <1>1 DEF OneEach, chain, node
<1>6. ASSUME NEW v \in Ids PROVE Good(v)'
  <2>1. Undisturbed(v)
    BY <1>1, UnchangedChain DEF Undisturbed, tables
  <2> QED
    BY <2>1, UndisturbedIsGood DEF IInv
<1> QED
  BY <1>4, <1>5, <1>6 DEF IInv

-------------------------------------------------------------------------------
(* The invariant is inductive *)

LEMMA InitIInv ==
    ASSUME Init
    PROVE  IInv
<1>1. EngineTypeOK
  BY ComplianceAssumption DEF Init, EngineInit, EngineTypeOK
<1>2. TypeOK
  BY <1>1, TableStatuses, WithdrawalsAssumption DEF Init, TypeOK, RowStatus
<1>3. OneEach /\ \A w \in Ids : Good(w)
  BY DEF Init, OneEach, Good, InHandler, BeforeSend, AfterSend, Recorded, Truthful, Sent
<1> QED
  BY <1>2, <1>3 DEF IInv

(* Every replica, goroutine and crash keeps the invariant.                 *)
THEOREM WithdrawalsInductive == Spec => []IInv
<1>1. Init => IInv
  BY InitIInv
<1>2. IInv /\ [Next]_vars => IInv'
  BY HandlerStep, InsertStep, StageStep, NonceStep, SendStep, SilentSteps, WriteSteps,
     ChainStep, CrashStep, TierStep
  DEF Next, Proceed, Handler, Silent
<1> QED
  BY <1>1, <1>2, PTL DEF Spec

(* ProcessBlockchainTransaction puts BROADCASTING on record before the     *)
(* transaction can reach the node, and no crash, failure or lost answer    *)
(* takes the record of a payment away.                                     *)
THEOREM PaymentsAreRecorded == Spec => []RecordedBeforeSent
<1>1. IInv => RecordedBeforeSent
  BY DEF IInv, Good, Recorded, RecordedBeforeSent
<1> QED
  BY <1>1, WithdrawalsInductive, PTL

(* The status the user reads is true although the two tables are written   *)
(* apart; the theorem includes type correctness, and with it that a free   *)
(* nonce exists whenever one is fetched.                                   *)
THEOREM StatusTellsTruth == Spec => []StatusIsTrue
<1>1. IInv => StatusIsTrue
  BY DEF IInv, Good, Truthful, StatusIsTrue
<1> QED
  BY <1>1, WithdrawalsInductive, PTL

-------------------------------------------------------------------------------
(* Limits *)

(* The highest limit of the tiers the user has submitted.                  *)
Top == Max({Limit[t] : t \in {"BASIC"} \cup (claimed \cap DOMAIN Limit)})

TiersClaimed ==
    /\ \A g \in Replicas : profile[g] \in claimed \cup {NoTier}
    /\ kycRow \in claimed \cup {NoTier}

(* What a request in the handler has checked is still so, unless another   *)
(* one was inserted meanwhile.                                             *)
Room(w) ==
    pc[w] \in Gate /\ w \notin outdated => SumFunctionOnSet(Amount, Counted) + Amount[w] <= Top

AfterVelocity == {"restrict", "travel", "insert"}

Alerted(w) ==
    pc[w] \in AfterVelocity /\ w \notin outdated /\ Cardinality(Stored) + seen[w] >= 5 =>
        <<"velocity", w>> \in alerts

(* It has seen the deposits that the requests stored before it had seen.   *)
Latest(w) ==
    pc[w] \in AfterVelocity /\ w \notin outdated => \A v \in Stored : seen[v] <= seen[w]

Checked(w) == Room(w) /\ Alerted(w) /\ Latest(w)

HasRow(w) == Sent(w) => row[w] # "NONE"

(* The requests that saw the whole table are within the limit together.    *)
Within == SumFunctionOnSet(Amount, Counted \ outdated) <= Top

Reported ==
    Stored \cap outdated = {} /\ (\E w \in Stored : Cardinality(Stored) + seen[w] > 5) =>
        \E w \in Stored : <<"velocity", w>> \in alerts

LimitInv ==
    /\ TiersClaimed /\ Within /\ Reported
    /\ \A w \in Ids : Checked(w) /\ HasRow(w) /\ seen[w] <= deposits

LEMMA MaxOfLimits ==
    ASSUME NEW T, T \subseteq {1000, 10000, 100000, 1000000}, NEW z \in T
    PROVE  Max(T) \in T /\ \A x \in T : x <= Max(T)
<1> DEFINE Highest(x) == \A y \in T : x >= y
<1>1. \E x \in T : Highest(x)
  <2>1. CASE 1000000 \in T
    BY <2>1
  <2>2. CASE 1000000 \notin T /\ 100000 \in T
    BY <2>2
  <2>3. CASE 1000000 \notin T /\ 100000 \notin T /\ 10000 \in T
    BY <2>3
  <2>4. CASE 1000000 \notin T /\ 100000 \notin T /\ 10000 \notin T
    <3>1. \A y \in T : y = 1000
      BY <2>4
    <3>2. z = 1000
      BY <3>1
    <3>3. \A y \in T : z >= y
      BY <3>1, <3>2
    <3> QED
      BY <3>3
  <2> QED
    BY <2>1, <2>2, <2>3, <2>4
<1>2. Max(T) = CHOOSE x \in T : Highest(x)
  BY DEF Max
<1> HIDE DEF Highest
<1>4. Max(T) \in T /\ Highest(Max(T))
  BY <1>1, <1>2
<1>3. \A y \in T : Max(T) >= y => y <= Max(T)
  BY <1>4
<1> QED
  BY <1>3, <1>4 DEF Highest

LEMMA LimitsOf ==
    ASSUME NEW c
    PROVE  LET T == {Limit[t] : t \in {"BASIC"} \cup (c \cap DOMAIN Limit)}
           IN  T \subseteq {1000, 10000, 100000, 1000000} /\ 1000 \in T
BY DEF Limit

LEMMA TopOf ==
    /\ Top \in Nat /\ Top' \in Nat
    /\ \A t \in {"BASIC"} \cup (claimed \cap DOMAIN Limit) : Limit[t] \in Nat /\ Limit[t] <= Top
    /\ claimed \subseteq claimed' => Top <= Top'
<1> DEFINE T(c) == {Limit[t] : t \in {"BASIC"} \cup (c \cap DOMAIN Limit)}
<1>1. \A c : T(c) \subseteq {1000, 10000, 100000, 1000000} /\ 1000 \in T(c)
  BY LimitsOf
<1>2. Top = Max(T(claimed)) /\ Top' = Max(T(claimed'))
  BY DEF Top
<1>3. \A t \in {"BASIC"} \cup (claimed \cap DOMAIN Limit) : Limit[t] \in T(claimed)
  OBVIOUS
<1>4. claimed \subseteq claimed' => T(claimed) \subseteq T(claimed')
  OBVIOUS
<1> HIDE DEF T
<1>5. /\ Top \in T(claimed) /\ \A x \in T(claimed) : x <= Top
      /\ Top' \in T(claimed') /\ \A x \in T(claimed') : x <= Top'
  BY <1>1, <1>2, MaxOfLimits
<1>6. {1000, 10000, 100000, 1000000} \subseteq Nat
  OBVIOUS
<1> QED
  BY <1>1, <1>3, <1>4, <1>5, <1>6

(* Sums over sets of withdrawals are naturals and grow with the set.       *)
LEMMA SumOf ==
    ASSUME NEW S, S \subseteq Ids
    PROVE  /\ IsFiniteSet(S) /\ SumFunctionOnSet(Amount, S) \in Nat
           /\ \A T \in SUBSET S : SumFunctionOnSet(Amount, T) <= SumFunctionOnSet(Amount, S)
<1>1. IsFiniteSet(S) /\ \A w \in S : Amount[w] \in Nat
  BY WithdrawalsAssumption, ComplianceAssumption, FS_Subset
<1>2. SumFunctionOnSet(Amount, S) \in Nat
  BY <1>1, SumType
<1>3. \A T \in SUBSET S : SumFunctionOnSet(Amount, T) <= SumFunctionOnSet(Amount, S)
  BY <1>1, SumPart
<1> QED
  BY <1>1, <1>2, <1>3

-------------------------------------------------------------------------------
(* Every step but the INSERT *)

(* Rows stay rows, and a FAILED one stays FAILED.                          *)
RowsMove ==
    \A v \in Ids : \/ row'[v] = row[v]
                   \/ row[v] \notin {"NONE", "FAILED"} /\ row'[v] # "NONE"

(* What another request has checked is not disturbed.                      *)
Bystander(v) ==
    v \notin outdated' =>
        /\ pc'[v] \in Gate => pc[v] \in Gate
        /\ pc'[v] \in AfterVelocity => pc[v] \in AfterVelocity
        /\ seen'[v] = seen[v]

LEMMA QuietStep ==
    ASSUME TypeOK, LimitInv, TiersClaimed', RowsMove,
           claimed \subseteq claimed', alerts \subseteq alerts', outdated \subseteq outdated',
           \A v \in Ids : seen'[v] <= deposits' /\ (row[v] # "NONE" => seen'[v] = seen[v]),
           \A v \in Ids : Bystander(v) \/ Checked(v)',
           \A v \in Ids : Sent(v)' => Sent(v) \/ row'[v] # "NONE"
    PROVE  LimitInv'
<1>1. Stored' = Stored /\ Counted' \subseteq Counted
  BY DEF RowsMove, Stored, Counted
<1>2. Counted \subseteq Ids /\ Counted' \subseteq Ids
  BY DEF Counted
<1>3. /\ SumFunctionOnSet(Amount, Counted') \in Nat /\ SumFunctionOnSet(Amount, Counted) \in Nat
      /\ SumFunctionOnSet(Amount, Counted') <= SumFunctionOnSet(Amount, Counted)
  BY <1>1, <1>2, SumOf
<1>4. Top \in Nat /\ Top' \in Nat /\ Top <= Top'
  BY TopOf
<1>5. Within'
  <2> DEFINE A == Counted \ outdated
             B == Counted' \ outdated'
  <2>1. B \subseteq A /\ A \subseteq Ids /\ B \subseteq Ids
    BY <1>1, <1>2
  <2> HIDE DEF A, B
  <2>2. /\ SumFunctionOnSet(Amount, A) \in Nat /\ SumFunctionOnSet(Amount, B) \in Nat
        /\ SumFunctionOnSet(Amount, B) <= SumFunctionOnSet(Amount, A)
    BY <2>1, SumOf
  <2>3. SumFunctionOnSet(Amount, A) <= Top
    BY DEF LimitInv, Within, A
  <2>4. SumFunctionOnSet(Amount, B) <= Top'
    BY <1>4, <2>2, <2>3
  <2> QED
    BY <2>4 DEF Within, B
<1>6. \A v \in Stored : seen'[v] = seen[v]
  BY DEF Stored
<1>7. Reported'
  BY <1>1, <1>6 DEF LimitInv, Reported
<1>8. ASSUME NEW v \in Ids PROVE Checked(v)' /\ HasRow(v)'
  <2>0. HasRow(v)'
    BY <1>8 DEF LimitInv, HasRow, RowsMove
  <2>1. CASE Bystander(v)
    <3>1. Amount[v] \in Nat
      BY ComplianceAssumption
    <3>2. Room(v) /\ Alerted(v) /\ Latest(v)
      BY DEF LimitInv, Checked
    <3>3. Room(v)'
      BY <1>3, <1>4, <2>1, <3>1, <3>2 DEF Room, Bystander
    <3>4. Alerted(v)'
      BY <1>1, <2>1, <3>2 DEF Alerted, Bystander
    <3>5. Latest(v)'
      BY <1>1, <1>6, <2>1, <3>2 DEF Latest, Bystander
    <3> QED
      BY <2>0, <3>3, <3>4, <3>5 DEF Checked
  <2>2. CASE Checked(v)'
    BY <2>0, <2>2
  <2> QED
    BY <2>1, <2>2
<1> QED
  BY <1>5, <1>7, <1>8 DEF LimitInv

LEMMA RequestLimits ==
    ASSUME IInv, LimitInv, NEW w \in Ids, Request(w)
    PROVE  Checked(w)'
<1> DEFINE total == SumFunctionOnSet(Amount, Counted)
<1>0. TypeOK /\ EngineTypeOK /\ Host[w] \in Replicas /\ Amount[w] \in Nat
  BY WithdrawalsAssumption, ComplianceAssumption DEF IInv, TypeOK
<1>1. PICK verdict \in ScreenSanctions, tier \in {Tier(Host[w]), "BASIC"}, sum \in {total, 0} :
          /\ Goto(w, "none", IF CheckWithdrawalAllowed(Host[w], w, tier, sum, verdict)
                             THEN "amount" ELSE "ended")
          /\ sum = total \/ w \in outdated'
  BY DEF Request
<1>2. Counted' = Counted /\ Stored' = Stored /\ claimed' = claimed
  BY DEF Request, HandlerOnly, tables, Counted, Stored, engineVars
<1>3. tier \in claimed \cup {"BASIC"}
  BY <1>0 DEF LimitInv, TiersClaimed, Tier
<1>4. Top' = Top
  BY <1>2 DEF Top
<1>5. total \in Nat /\ Top \in Nat
  BY SumOf, TopOf DEF Counted
<1>6. CASE CheckWithdrawalAllowed(Host[w], w, tier, sum, verdict)
  <2>1. pc'[w] = "amount"
    BY <1>0, <1>1, <1>6 DEF Goto, TypeOK
  <2>2. tier \in DOMAIN Limit /\ sum + Amount[w] <= Limit[tier]
    BY <1>6 DEF CheckWithdrawalAllowed, CheckLimits
  <2>3. Limit[tier] \in Nat /\ Limit[tier] <= Top
    BY <1>3, <2>2, TopOf
  <2> HIDE DEF total
  <2>4. sum = total => total + Amount[w] <= Top
    BY <1>0, <1>5, <2>2, <2>3
  <2>5. Room(w)'
    BY <1>1, <1>2, <1>4, <2>4 DEF Room, total
  <2> QED
    BY <2>1, <2>5 DEF Checked, Alerted, Latest, AfterVelocity
<1>7. CASE ~CheckWithdrawalAllowed(Host[w], w, tier, sum, verdict)
  <2>1. pc'[w] = "ended"
    BY <1>0, <1>1, <1>7 DEF Goto, TypeOK
  <2> QED
    BY <2>1 DEF Checked, Room, Alerted, Latest, Gate, AfterVelocity
<1> QED
  BY <1>6, <1>7

LEMMA HandlerLimits ==
    ASSUME IInv, LimitInv, NEW w \in Ids, Handler(w)
    PROVE  LimitInv'
<1>0. TypeOK /\ EngineTypeOK
  BY DEF IInv, TypeOK
<1>1. UNCHANGED <<tables, chain>> /\ outdated \subseteq outdated'
  BY DEF HandlerOnly, Handler, Request, EvaluateAmount, EvaluateVelocity, Monitor, CheckTravelRule,
         EvaluateAMLFails, HandlerFails
<1>2. RowsMove /\ \A v \in Ids : Sent(v)' => Sent(v)
  BY <1>1, UnchangedChain DEF tables, RowsMove
<1>3. UNCHANGED <<profile, kycRow, deposits, claimed>> /\ alerts \subseteq alerts'
  BY DEF Handler, Request, EvaluateAmount, EvaluateVelocity, Monitor, CheckTravelRule,
         EvaluateAMLFails, HandlerFails, engineVars, CreateAlert, RestrictAccount,
         RegisterTravelRule
<1>4. TiersClaimed'
  BY <1>3 DEF LimitInv, TiersClaimed
<1>5. \E from, to : Goto(w, from, to)
  BY DEF Handler, Request, EvaluateAmount, EvaluateVelocity, Monitor, CheckTravelRule,
         EvaluateAMLFails, HandlerFails
<1>6. \A v \in Ids \ {w} : pc'[v] = pc[v]
  BY <1>0, <1>5 DEF Goto, TypeOK
<1>s. \/ seen' = seen
      \/ EvaluateVelocity(w) /\ seen' = [seen EXCEPT ![w] = deposits]
  BY DEF Handler, Request, EvaluateAmount, EvaluateVelocity, Monitor, CheckTravelRule,
         EvaluateAMLFails, HandlerFails, HandlerOnly
<1>n. EvaluateVelocity(w) => row[w] = "NONE"
  BY DEF IInv, Good, InHandler, EvaluateVelocity, Goto, Gate
<1>t. \A v \in Ids : seen'[v] <= deposits' /\ (row[v] # "NONE" => seen'[v] = seen[v])
  BY <1>0, <1>3, <1>s, <1>n DEF LimitInv, TypeOK, EngineTypeOK
<1>7. \A v \in Ids \ {w} : Bystander(v)
  BY <1>0, <1>6, <1>s DEF Bystander, TypeOK
<1>8. Bystander(w) \/ Checked(w)'
  <2>1. CASE Request(w)
    BY <2>1, RequestLimits
  <2>2. CASE EvaluateAmount(w)
    <3>1. pc[w] = "amount" /\ pc'[w] = "velocity"
      BY <1>0, <2>2 DEF EvaluateAmount, Goto, TypeOK
    <3>2. seen' = seen
      BY <2>2 DEF EvaluateAmount, HandlerOnly
    <3> QED
      BY <3>1, <3>2 DEF Bystander, Gate, AfterVelocity
  <2>3. CASE EvaluateVelocity(w)
    <3>1. pc[w] = "velocity" /\ pc'[w] \in {"restrict", "travel"}
      BY <1>0, <2>3 DEF EvaluateVelocity, Goto, TypeOK
    <3>2. Counted' = Counted /\ Stored' = Stored /\ Top' = Top
      BY <1>1, <1>3 DEF tables, Counted, Stored, Top
    <3>3. outdated' = outdated
      BY <2>3 DEF EvaluateVelocity
    <3>4. Room(w)'
      BY <3>1, <3>2, <3>3 DEF LimitInv, Checked, Room, Gate
    <3>5. TooFast(Cardinality(Stored)) => <<"velocity", w>> \in alerts'
      BY <2>3 DEF EvaluateVelocity, CreateAlert
    <3>6. seen'[w] = deposits /\ \A v \in Stored : seen'[v] <= deposits
      BY <1>0, <1>3, <1>t, <2>3 DEF EvaluateVelocity, TypeOK, Stored
    <3>7. Alerted(w)'
      BY <3>2, <3>5, <3>6 DEF Alerted, TooFast
    <3>8. Latest(w)'
      BY <3>2, <3>6 DEF Latest
    <3> QED
      BY <3>4, <3>7, <3>8 DEF Checked
  <2>4. CASE Monitor(w)
    <3>1. pc[w] = "restrict" /\ pc'[w] = "travel"
      BY <1>0, <2>4 DEF Monitor, Goto, TypeOK
    <3>2. seen' = seen
      BY <2>4 DEF Monitor, HandlerOnly
    <3> QED
      BY <3>1, <3>2 DEF Bystander, Gate, AfterVelocity
  <2>5. CASE CheckTravelRule(w)
    <3>1. pc[w] = "travel" /\ pc'[w] \in {"insert", "ended"}
      BY <1>0, <2>5 DEF CheckTravelRule, Goto, TypeOK
    <3>2. seen' = seen
      BY <2>5 DEF CheckTravelRule, HandlerOnly
    <3> QED
      BY <3>1, <3>2 DEF Bystander, Gate, AfterVelocity
  <2>6. CASE EvaluateAMLFails(w)
    BY <2>6 DEF EvaluateAMLFails, Bystander, HandlerOnly
  <2>7. CASE HandlerFails(w)
    <3>1. pc'[w] = "ended"
      BY <1>0, <2>7 DEF HandlerFails, Goto, TypeOK
    <3>2. seen' = seen
      BY <2>7 DEF HandlerFails, HandlerOnly
    <3> QED
      BY <3>1, <3>2 DEF Bystander, Gate, AfterVelocity
  <2> QED
    BY <2>1, <2>2, <2>3, <2>4, <2>5, <2>6, <2>7 DEF Handler
<1> QED
  BY <1>0, <1>1, <1>2, <1>3, <1>4, <1>t, <1>7, <1>8, QuietStep

(* The goroutines: no request enters or leaves the gate, and they leave    *)
(* the compliance engines and outdated alone.                              *)
Goroutine(w) ==
    \/ Proceed(w) \/ Silent(w) \/ BroadcastAnswerLost(w) \/ Bury(w)

LEMMA GoroutineLimits ==
    ASSUME IInv, LimitInv, NEW w \in Ids, Goroutine(w)
    PROVE  LimitInv'
<1>0. TypeOK /\ Good(w)
  BY DEF IInv
<1>1. UNCHANGED gate
  BY DEF Goroutine, Proceed, Silent, SaveStage, FetchNonce, Broadcast, BroadcastRefused,
         RecordFailure, RecordEmptyHash, RecordBroadcast, Confirmed, RecordConfirmed,
         PollTimeout, BroadcastFails, SaveFails, IgnoredFailure, BroadcastAnswerLost, Bury
<1>2. \/ UNCHANGED pc
      \/ \E from, to \in Running \cup {"ended", "timedOut"} :
            Goto(w, from, to) /\ from \notin Gate /\ to \notin Gate
  <2>1. CASE SaveStage(w)
    <3>1. \E to \in {"nonce", "stages"} : Goto(w, "stages", to)
      BY <2>1 DEF SaveStage
    <3> QED
      BY <3>1 DEF Running, Gate
  <2>2. CASE \/ FetchNonce(w) \/ Broadcast(w) \/ BroadcastRefused(w) \/ RecordFailure(w)
             \/ RecordEmptyHash(w) \/ RecordBroadcast(w) \/ Confirmed(w) \/ RecordConfirmed(w)
    BY <2>2 DEF FetchNonce, Broadcast, BroadcastRefused, RecordFailure, RecordEmptyHash,
                RecordBroadcast, Confirmed, RecordConfirmed, Running, Gate
  <2>3. CASE Silent(w) \/ BroadcastAnswerLost(w) \/ Bury(w)
    BY <2>3 DEF Silent, BroadcastRefused, Confirmed, PollTimeout, BroadcastFails, SaveFails,
                IgnoredFailure, BroadcastAnswerLost, Bury, Running, Gate
  <2> QED
    BY <2>1, <2>2, <2>3 DEF Goroutine, Proceed
<1>3. \A v \in Ids : pc'[v] = pc[v] \/ (v = w /\ pc'[v] \notin Gate)
  BY <1>0, <1>2 DEF Goto, TypeOK
<1>4. \A v \in Ids : Bystander(v)
  BY <1>1, <1>3 DEF Bystander, Gate, AfterVelocity, gate
<1>5. \/ row' = row
      \/ \E s \in {"FAILED", "CONFIRMING", "CONFIRMED"} :
            SetRow(w, s) /\ pc[w] \in {"failRow", "mark", "finishRow"}
  BY DEF Goroutine, Proceed, Silent, SaveStage, FetchNonce, Broadcast, BroadcastRefused,
         RecordFailure, RecordEmptyHash, RecordBroadcast, Confirmed, RecordConfirmed,
         PollTimeout, BroadcastFails, SaveFails, IgnoredFailure, BroadcastAnswerLost, Bury,
         Save, tables, Goto
<1>6. RowsMove
  <2>1. pc[w] \in {"failRow", "mark", "finishRow"} =>
            row[w] \in {"PENDING_APPROVAL", "CONFIRMING"}
    BY <1>0 DEF Good, BeforeSend, AfterSend
  <2> QED
    BY <1>0, <1>5, <2>1 DEF RowsMove, SetRow, TypeOK
<1>7. \A v \in Ids : Sent(v)' => Sent(v) \/ row'[v] # "NONE"
  <2>1. CASE Broadcast(w) \/ BroadcastAnswerLost(w)
    <3>1. pc[w] = "send" /\ Accept(w) /\ row' = row
      BY <2>1 DEF Broadcast, BroadcastAnswerLost, Goto, tables
    <3>2. row[w] = "PENDING_APPROVAL" /\ ~Sent(w)
      BY <1>0, <3>1 DEF Good, BeforeSend
    <3> QED
      BY <1>0, <3>1, <3>2, AcceptChain DEF IInv
  <2>2. CASE Bury(w)
    BY <2>2 DEF Bury, Sent
  <2>3. CASE UNCHANGED node
    BY <2>3 DEF node, Sent
  <2>4. \/ Broadcast(w) \/ BroadcastAnswerLost(w) \/ Bury(w) \/ UNCHANGED node
    BY DEF Goroutine, Proceed, Silent, SaveStage, FetchNonce, BroadcastRefused,
         RecordFailure, RecordEmptyHash, RecordBroadcast, Confirmed, RecordConfirmed,
         PollTimeout, BroadcastFails, SaveFails, IgnoredFailure, chain
  <2> QED
    BY <2>1, <2>2, <2>3, <2>4
<1>8. /\ TiersClaimed' /\ UNCHANGED <<claimed, alerts, outdated>>
      /\ \A v \in Ids : seen'[v] <= deposits' /\ seen'[v] = seen[v]
  BY <1>1 DEF gate, engineVars, LimitInv, TiersClaimed
<1> QED
  BY <1>0, <1>4, <1>6, <1>7, <1>8, QuietStep

LEMMA OtherLimits ==
    ASSUME IInv, LimitInv,
           \/ SubmitTier \/ DetectDeposit \/ (\E g \in Replicas : Crash(g)) \/ Mine
           \/ UNCHANGED vars
    PROVE  LimitInv'
<1>0. TypeOK /\ EngineTypeOK
  BY DEF IInv, TypeOK
<1>1. UNCHANGED <<tables, outdated, seen>> /\ UNCHANGED alerts
  BY DEF SubmitTier, DetectDeposit, RecordDeposit, Crash, Mine, vars, HandlerOnly, gate, engineVars, SubmitKYC,
         SubmitKYCFails, NewComplianceEngine
<1>2. RowsMove
  BY <1>1 DEF RowsMove, tables
<1>3. \A v \in Ids : pc'[v] = pc[v] \/ pc'[v] = "ended"
  BY <1>0 DEF SubmitTier, DetectDeposit, Crash, Mine, vars, TypeOK
<1>4. \A v \in Ids : Bystander(v)
  BY <1>1, <1>3 DEF Bystander, Gate, AfterVelocity
<1>d. deposits' \in {deposits, deposits + 1}
  BY DEF SubmitTier, DetectDeposit, RecordDeposit, Crash, Mine, vars, gate, engineVars, SubmitKYC,
         SubmitKYCFails, NewComplianceEngine
<1>s. \A v \in Ids : seen'[v] <= deposits' /\ seen'[v] = seen[v]
  BY <1>0, <1>1, <1>d DEF LimitInv, TypeOK, EngineTypeOK
<1>5. \A v \in Ids : Sent(v)' => Sent(v)
  <2>1. CASE Mine
    <3>1. PICK e \in Holders(mined) : mempool' = mempool \ {e} /\ paid' = paid \cup {e[2]}
      BY <2>1 DEF Mine
    <3> QED
      BY <3>1 DEF Holders, Sent
  <2>2. CASE UNCHANGED chain
    BY <2>2, UnchangedChain
  <2> QED
    BY <2>1, <2>2 DEF SubmitTier, DetectDeposit, Crash, HandlerOnly, vars
<1>6. TiersClaimed' /\ claimed \subseteq claimed'
  <2>1. CASE SubmitTier
    <3>1. PICK g \in Replicas, t \in Tiers : SubmitKYC(g, t) \/ SubmitKYCFails(g, t)
      BY <2>1 DEF SubmitTier
    <3>2. CASE SubmitKYC(g, t)
      BY <1>0, <3>2 DEF SubmitKYC, LimitInv, TiersClaimed, EngineTypeOK
    <3>3. CASE SubmitKYCFails(g, t)
      BY <1>0, <3>3 DEF SubmitKYCFails, LimitInv, TiersClaimed, EngineTypeOK
    <3> QED
      BY <3>1, <3>2, <3>3
  <2>2. CASE \E g \in Replicas : Crash(g)
    <3>1. PICK g \in Replicas : NewComplianceEngine(g)
      BY <2>2 DEF Crash
    <3> QED
      BY <1>0, <3>1 DEF NewComplianceEngine, LimitInv, TiersClaimed, EngineTypeOK
  <2>3. CASE Mine \/ UNCHANGED vars
    BY <2>3 DEF Mine, vars, gate, engineVars, LimitInv, TiersClaimed
  <2>4. CASE DetectDeposit
    BY <2>4 DEF DetectDeposit, RecordDeposit, LimitInv, TiersClaimed
  <2> QED
    BY <2>1, <2>2, <2>3, <2>4
<1> QED
  BY <1>0, <1>1, <1>2, <1>4, <1>5, <1>6, <1>s, QuietStep

-------------------------------------------------------------------------------
(* The INSERT: requests that looked before are outdated; the one that is   *)
(* inserted, unless outdated itself, has seen all other rows.              *)
LEMMA InsertLimits ==
    ASSUME IInv, LimitInv, NEW w \in Ids, InsertWithdrawal(w)
    PROVE  LimitInv'
<1>0. TypeOK /\ Good(w) /\ Amount[w] \in Nat
  BY ComplianceAssumption DEF IInv
<1>1. /\ pc[w] = "insert" /\ pc'[w] = "stages" /\ \A v \in Ids \ {w} : pc'[v] = pc[v]
  BY <1>0 DEF InsertWithdrawal, Goto, TypeOK
<1>2. /\ outdated' = outdated \cup {v \in Ids \ {w} : pc[v] \in Gate}
      /\ UNCHANGED chain /\ UNCHANGED engineVars /\ seen' = seen
  BY DEF InsertWithdrawal
<1>3. row[w] = "NONE" /\ row'[w] = "PENDING_APPROVAL" /\ \A v \in Ids \ {w} : row'[v] = row[v]
  BY <1>0, <1>1 DEF InsertWithdrawal, SetRow, Good, InHandler, Gate, TypeOK
<1>4. /\ Counted' = Counted \cup {w} /\ w \notin Counted /\ Counted \subseteq Ids
      /\ Stored' = Stored \cup {w} /\ w \notin Stored /\ Stored \subseteq Ids
  BY <1>3 DEF Counted, Stored
<1>5. Top' = Top /\ Top \in Nat /\ TiersClaimed' /\ alerts' = alerts
  BY <1>2, TopOf DEF engineVars, Top, LimitInv, TiersClaimed
<1>6. w \notin outdated <=> w \notin outdated'
  BY <1>2
<1>7. Within'
  <2> DEFINE A == Counted \ outdated
             B == Counted' \ outdated'
             C == Counted
             S(T) == SumFunctionOnSet(Amount, T)
  <2>1. /\ A \subseteq C /\ C \subseteq Ids
        /\ B \subseteq IF w \in outdated THEN A ELSE A \cup {w}
    BY <1>2, <1>4, <1>6
  <2>2. S(A) <= Top
    BY DEF LimitInv, Within
  <2>3. w \notin outdated => S(C) + Amount[w] <= Top
    BY <1>1 DEF LimitInv, Checked, Room, Gate
  <2>4. w \notin C
    BY <1>4
  <2> HIDE DEF A, B, C
  <2>5. /\ S(A) \in Nat /\ S(C) \in Nat /\ S(A) <= S(C) /\ IsFiniteSet(A)
    BY <2>1, SumOf
  <2>6. CASE w \in outdated
    <3>1. S(B) \in Nat /\ S(B) <= S(A)
      BY <2>1, <2>6, SumOf
    <3>2. S(B) <= Top
      BY <1>5, <2>2, <2>5, <3>1
    <3> QED
      BY <1>5, <3>2 DEF Within, B
  <2>7. CASE w \notin outdated
    <3>1. A \cup {w} \subseteq Ids /\ B \subseteq A \cup {w} /\ w \notin A
      BY <2>1, <2>4, <2>7
    <3>2. \A y \in A \cup {w} : Amount[y] \in Int
      BY <3>1, ComplianceAssumption
    <3>3. S(A \cup {w}) = S(A) + Amount[w]
      BY <2>5, <3>1, <3>2, SumAdd
    <3>4. S(B) \in Nat /\ S(B) <= S(A \cup {w})
      BY <3>1, SumOf
    <3> HIDE DEF S
    <3>5. S(B) <= Top
      BY <1>0, <1>5, <2>3, <2>5, <2>7, <3>3, <3>4
    <3> QED
      BY <1>5, <3>5 DEF Within, B, S
  <2> QED
    BY <2>6, <2>7
<1>8. Reported'
  <2> SUFFICES ASSUME Stored' \cap outdated' = {},
                      NEW u \in Stored', Cardinality(Stored') + seen[u] > 5
               PROVE  <<"velocity", w>> \in alerts'
    BY <1>2, <1>4 DEF Reported
  <2>1. w \notin outdated
    BY <1>2, <1>4
  <2>2. Alerted(w) /\ Latest(w)
    BY DEF LimitInv, Checked
  <2>3. IsFiniteSet(Stored) /\ Cardinality(Stored) \in Nat
        /\ Cardinality(Stored') = Cardinality(Stored) + 1
    BY <1>4, WithdrawalsAssumption, FS_Subset, FS_CardinalityType, FS_AddElement
  <2>4. seen[u] \in Nat /\ seen[w] \in Nat /\ seen[u] <= seen[w]
    BY <1>0, <1>1, <1>4, <2>1, <2>2 DEF Latest, AfterVelocity, TypeOK
  <2>5. Cardinality(Stored) + seen[w] >= 5
    BY <2>3, <2>4
  <2> QED
    BY <1>1, <1>5, <2>1, <2>2, <2>5 DEF Alerted, AfterVelocity
<1>9. ASSUME NEW v \in Ids PROVE Checked(v)' /\ HasRow(v)' /\ (seen[v] <= deposits)'
  <2>1. pc'[v] \in Gate => v \in outdated'
    BY <1>1, <1>2 DEF Gate
  <2>2. AfterVelocity \subseteq Gate
    BY DEF AfterVelocity, Gate
  <2>3. HasRow(v)'
    BY <1>2, <1>3, UnchangedChain DEF LimitInv, HasRow
  <2>4. (seen[v] <= deposits)'
    BY <1>2 DEF LimitInv, engineVars
  <2> QED
    BY <2>1, <2>2, <2>3, <2>4 DEF Checked, Room, Alerted, Latest
<1> QED
  BY <1>5, <1>7, <1>8, <1>9 DEF LimitInv

LEMMA InitLimits ==
    ASSUME Init
    PROVE  LimitInv
<1>1. Counted = {} /\ Stored = {} /\ outdated = {}
  BY DEF Init, Counted, Stored
<1>2. TiersClaimed
  BY DEF Init, EngineInit, TiersClaimed
<1>3. Within
  BY <1>1, TopOf, SumEmpty DEF Within
<1>4. Reported
  BY <1>1 DEF Reported
<1>5. \A w \in Ids : Checked(w) /\ HasRow(w) /\ seen[w] <= deposits
  BY ComplianceAssumption
  DEF Init, EngineInit, Checked, Room, Alerted, Latest, HasRow, Gate, AfterVelocity, Sent
<1> QED
  BY <1>2, <1>3, <1>4, <1>5 DEF LimitInv

(* Requests on any number of replicas, with failures, crashes and tiers    *)
(* submitted in between: what leaves in a day is within the limit of a     *)
(* tier the user submitted, and CheckLimits and EvaluateAML are evaded     *)
(* only by requests that overlap, or by a table that cannot be read.       *)
THEOREM LimitsAreKept == Spec => []LimitsHold
<1>1. Init => LimitInv
  BY InitLimits
<1>2. IInv /\ LimitInv /\ [Next]_vars => LimitInv'
  BY HandlerLimits, InsertLimits, GoroutineLimits, OtherLimits
  DEF Next, Handler, Goroutine, Silent, Proceed
<1>3. IInv /\ LimitInv => LimitsHold
  <2> SUFFICES ASSUME IInv, LimitInv PROVE LimitsHold
    OBVIOUS
  <2>1. TakenOut \cap (outdated \cup lost) = {} => TakenOut = Counted \ outdated
    <3>1. ASSUME NEW w \in Ids, Sent(w), w \notin lost PROVE w \in Counted
      <4>1. Truthful(w) /\ HasRow(w)
        BY <3>1 DEF IInv, Good, LimitInv
      <4> QED
        BY <3>1, <4>1 DEF Truthful, HasRow, Counted
    <3>2. Counted \subseteq TakenOut
      BY DEF TakenOut, Counted
    <3> QED
      BY <3>1, <3>2 DEF TakenOut
  <2>2. TakenOut \cap (outdated \cup lost) = {} => SumFunctionOnSet(Amount, TakenOut) <= Top
    BY <2>1 DEF LimitInv, Within
  <2> QED
    BY <2>2 DEF LimitsHold, Top, LimitInv, Reported
<1> QED
  BY <1>1, <1>2, <1>3, WithdrawalsInductive, PTL DEF Spec
===============================================================================
