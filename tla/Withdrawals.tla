------------------------------ MODULE Withdrawals ------------------------------
(***************************************************************************)
(* Withdrawals of the gateway in production: the POST /wallet/withdraw     *)
(* handler, its passage through the compliance engine of its replica       *)
(* (module Compliance), and the goroutine it starts for each request,      *)
(* ProcessBlockchainTransaction.  All replicas send from one hot wallet:   *)
(* they share its nonces.  A withdrawal has a row in withdrawals and one   *)
(* in blockchain_transactions, written by separate statements.  Calls to   *)
(* PostgreSQL and to the node may fail, an accepted transaction may be     *)
(* answered by an error, the poll may time out and a replica may crash.    *)
(* A crash ends its handlers and goroutines and nothing starts them again. *)
(***************************************************************************)
EXTENDS Compliance, FiniteSetsExt, Sequences

CONSTANTS
    Host,         \* [Ids -> Replicas], the replica that serves a request
    MaxFaults,    \* bound: failing calls
    MaxCrashes    \* bound: restarts of replicas

ASSUME WithdrawalsAssumption ==
    /\ IsFiniteSet(Ids)
    /\ Host \in [Ids -> Replicas]
    /\ MaxFaults \in Nat
    /\ MaxCrashes \in Nat

VARIABLES
    \* PostgreSQL
    row,       \* withdrawals.status, NONE without a row
    btx,       \* blockchain_transactions.status, NONE without a row
    \* the gateway
    pc,        \* where each request is in the handler or in ProcessBlockchainTransaction
    nonce,     \* the pending nonce it fetched
    \* the chain, as seen by the node
    mined,     \* transactions of the hot wallet that are mined; the next nonce
    mempool,   \* <<nonce, withdrawal>> accepted and not mined
    paid,      \* withdrawals whose transaction is mined
    deep,      \* those with the required confirmations
    \* bounds and history
    faults, crashes,
    lost,      \* accepted transactions that were answered by an error
    outdated,  \* requests whose view of the user's withdrawals was not, or is no
               \* longer, what the table holds
    seen       \* deposits the COUNT of each request has seen

tables == <<row, btx>>
node   == <<mined, mempool, paid, deep>>
gate   == <<outdated, seen, engineVars>>
chain  == <<nonce, node, lost>>
vars   == <<tables, pc, chain, faults, crashes, gate>>

(* TransactionStatus, the stages that precede the broadcast in order. *)
Stages     == <<"REQUESTED", "APPROVED", "BUILDING", "SIGNING", "BROADCASTING">>
TxStatus   == Range(Stages) \cup {"NONE", "CONFIRMING", "CONFIRMED", "FAILED"}
RowStatus  == {"NONE", "PENDING_APPROVAL", "CONFIRMING", "CONFIRMED", "FAILED"}

Gate    == {"amount", "velocity", "restrict", "travel", "insert"}
Running == Gate \cup {"stages", "nonce", "send", "refused", "failRow", "empty",
            "record", "mark", "poll", "finish", "finishRow"}

TypeOK ==
    /\ row \in [Ids -> RowStatus]
    /\ btx \in [Ids -> TxStatus]
    /\ EngineTypeOK
    /\ pc \in [Ids -> Running \cup {"none", "ended", "timedOut"}]
    /\ nonce \in [Ids -> Nat]
    /\ mined \in Nat
    /\ mempool \subseteq Nat \X Ids
    /\ paid \subseteq Ids
    /\ deep \subseteq paid
    /\ faults \in 0..MaxFaults
    /\ crashes \in 0..MaxCrashes
    /\ lost \subseteq Ids
    /\ outdated \subseteq Ids
    /\ seen \in [Ids -> Nat]

Init ==
    /\ EngineInit
    /\ row = [w \in Ids |-> "NONE"]
    /\ btx = [w \in Ids |-> "NONE"]
    /\ pc = [w \in Ids |-> "none"]
    /\ nonce = [w \in Ids |-> 0]
    /\ mined = 0
    /\ mempool = {}
    /\ paid = {}
    /\ deep = {}
    /\ faults = 0
    /\ crashes = 0
    /\ lost = {}
    /\ outdated = {}
    /\ seen = [w \in Ids |-> 0]

Fault == faults < MaxFaults /\ faults' = faults + 1

Goto(w, from, to) == pc[w] = from /\ pc' = [pc EXCEPT ![w] = to]

(* saveTxState *)
Save(w, s)   == btx' = [btx EXCEPT ![w] = s] /\ row' = row
SetRow(w, s) == row' = [row EXCEPT ![w] = s] /\ btx' = btx

-------------------------------------------------------------------------------
(* The handler *)

HandlerOnly == UNCHANGED <<tables, chain, crashes, seen>>

(* The rows the COUNT of EvaluateAML and the SUM of CheckLimits look at. *)
Stored  == {w \in Ids : row[w] # "NONE"}
Counted == {w \in Ids : row[w] \notin {"NONE", "FAILED"}}

(* CheckWithdrawalAllowed: a query that fails counts as no withdrawals, or *)
(* as no profile.                                                          *)
Request(w) ==
    /\ \E verdict \in ScreenSanctions :
        LET total == SumFunctionOnSet(Amount, Counted)
            To(tier, sum) ==
                Goto(w, "none", IF CheckWithdrawalAllowed(Host[w], w, tier, sum, verdict)
                                THEN "amount" ELSE "ended")
        IN  \/ To(Tier(Host[w]), total) /\ UNCHANGED <<faults, outdated>>
            \/ To(Tier(Host[w]), 0) /\ Fault /\ outdated' = outdated \cup {w}
            \/ profile[Host[w]] = NoTier /\ To("BASIC", total) /\ Fault /\ UNCHANGED outdated
    /\ UNCHANGED engineVars
    /\ HandlerOnly

(* EvaluateAML, the rule on amounts. *)
EvaluateAmount(w) ==
    /\ Goto(w, "amount", "velocity")
    /\ IF Unusual(w) THEN CreateAlert("amount", w) ELSE UNCHANGED engineVars
    /\ UNCHANGED <<faults, outdated>>
    /\ HandlerOnly

(* EvaluateAML, the rule on velocity: COUNT, alert and restriction. *)
EvaluateVelocity(w) ==
    /\ IF TooFast(Cardinality(Stored))
       THEN Goto(w, "velocity", "restrict") /\ CreateAlert("velocity", w)
       ELSE Goto(w, "velocity", "travel") /\ UNCHANGED engineVars
    /\ seen' = [seen EXCEPT ![w] = deposits]
    /\ UNCHANGED <<tables, chain, faults, crashes, outdated>>

Monitor(w) ==
    /\ Goto(w, "restrict", "travel")
    /\ \/ RestrictAccount(Host[w], TRUE) /\ UNCHANGED faults
       \/ RestrictAccount(Host[w], FALSE) /\ Fault
    /\ UNCHANGED outdated
    /\ HandlerOnly

(* An alert that cannot be stored, or a COUNT that fails, is passed over. *)
EvaluateAMLFails(w) ==
    /\ Goto(w, "amount", "velocity") \/ Goto(w, "velocity", "travel")
    /\ Fault
    /\ outdated' = outdated \cup {w}
    /\ UNCHANGED engineVars
    /\ HandlerOnly

CheckTravelRule(w) ==
    /\ \/ /\ ~TravelRuleApplies(w)
          /\ Goto(w, "travel", "insert")
          /\ UNCHANGED engineVars
       \/ /\ TravelRuleApplies(w)
          /\ \E names \in BOOLEAN :
                /\ Goto(w, "travel", IF names THEN "insert" ELSE "ended")
                /\ RegisterTravelRule(w, names)
    /\ UNCHANGED <<faults, outdated>>
    /\ HandlerOnly

(* The row is stored and the goroutine started; nothing waits for an       *)
(* approval.  Requests that have looked at the table before are outdated.  *)
InsertWithdrawal(w) ==
    /\ Goto(w, "insert", "stages")
    /\ SetRow(w, "PENDING_APPROVAL")
    /\ outdated' = outdated \cup {v \in Ids \ {w} : pc[v] \in Gate}
    /\ UNCHANGED <<chain, faults, crashes, seen, engineVars>>

(* RegisterTravelRule or the INSERT fails: the request is refused. *)
HandlerFails(w) ==
    /\ \/ TravelRuleApplies(w) /\ Goto(w, "travel", "ended")
       \/ Goto(w, "insert", "ended")
    /\ Fault
    /\ UNCHANGED <<engineVars, outdated>>
    /\ HandlerOnly

(* POST /compliance/kyc/submit *)
SubmitTier ==
    /\ \E g \in Replicas, t \in Tiers :
        \/ SubmitKYC(g, t) /\ UNCHANGED faults
        \/ SubmitKYCFails(g, t) /\ Fault
    /\ UNCHANGED <<pc, outdated>>
    /\ HandlerOnly

(* scanBlock of the wallet worker, meanwhile. *)
DetectDeposit ==
    /\ RecordDeposit
    /\ UNCHANGED <<pc, faults, outdated>>
    /\ HandlerOnly

-------------------------------------------------------------------------------
(* ProcessBlockchainTransaction *)

NextStage(s) == CHOOSE i \in 1..Len(Stages) : IF s = "NONE" THEN i = 1 ELSE i > 1 /\ Stages[i-1] = s

(* Mutant: the broadcast begins before its record is written. *)
BugSendsUnrecorded(w) ==
    LET s == Stages[NextStage(btx[w])] IN
    /\ Goto(w, "stages", IF s = "SIGNING" THEN "nonce" ELSE "stages")
    /\ Save(w, s)
    /\ UNCHANGED <<chain, faults, crashes, gate>>

(* Mutant: the goroutine waits for an approval, which nobody gives. *)
BugAwaitsApproval(w) ==
    LET s == Stages[NextStage(btx[w])] IN
    /\ s # "APPROVED"
    /\ Goto(w, "stages", "stages")
    /\ Save(w, s)
    /\ UNCHANGED <<chain, faults, crashes, gate>>

(* REQUESTED to BROADCASTING, each persisted before the next begins. *)
SaveStage(w) ==
    LET s == Stages[NextStage(btx[w])] IN
    /\ Goto(w, "stages", IF s = "BROADCASTING" THEN "nonce" ELSE "stages")
    /\ Save(w, s)
    /\ UNCHANGED <<chain, faults, crashes, gate>>

(* PendingNonceAt: the first nonce that is neither mined nor pending. *)
PendingNonce == CHOOSE n \in mined..(mined + Cardinality(Ids)) :
                    /\ \A e \in mempool : e[1] # n
                    /\ \A m \in mined..(n - 1) : \E e \in mempool : e[1] = m

FetchNonce(w) ==
    /\ Goto(w, "nonce", "send")
    /\ nonce' = [nonce EXCEPT ![w] = PendingNonce]
    /\ UNCHANGED <<tables, node, faults, crashes, lost, gate>>

Holders(n) == {e \in mempool : e[1] = n}

(* SendTransaction: the node takes a transaction with a free nonce, and    *)
(* one with the nonce of a pending transaction if it pays more gas; that   *)
(* one is dropped.                                                         *)
Accept(w) ==
    /\ nonce[w] >= mined
    /\ mempool' = (mempool \ Holders(nonce[w])) \cup {<<nonce[w], w>>}
    /\ UNCHANGED <<mined, paid, deep>>

Broadcast(w) ==
    /\ Goto(w, "send", "record")
    /\ Accept(w)
    /\ UNCHANGED <<tables, nonce, faults, crashes, lost, gate>>

(* Nonce too low, or no more gas than the pending transaction pays. *)
BroadcastRefused(w) ==
    /\ Goto(w, "send", "refused")
    /\ nonce[w] < mined \/ Holders(nonce[w]) # {}
    /\ UNCHANGED <<tables, chain, faults, crashes, gate>>

(* A call before or at the broadcast fails without effect. *)
BroadcastFails(w) ==
    /\ Goto(w, "nonce", "refused") \/ Goto(w, "send", "refused") \/ Goto(w, "send", "empty")
    /\ Fault
    /\ UNCHANGED <<tables, chain, crashes, gate>>

(* The node takes the transaction and its answer does not arrive, or names *)
(* no hash.                                                                *)
BroadcastAnswerLost(w) ==
    /\ Goto(w, "send", "refused") \/ Goto(w, "send", "empty")
    /\ Accept(w)
    /\ Fault
    /\ lost' = lost \cup {w}
    /\ UNCHANGED <<tables, nonce, crashes, gate>>

(* The error path records the failure in both tables, in this order. *)
RecordFailure(w) ==
    /\ \/ Goto(w, "refused", "failRow") /\ Save(w, "FAILED")
       \/ Goto(w, "failRow", "ended") /\ SetRow(w, "FAILED")
    /\ UNCHANGED <<chain, faults, crashes, gate>>

(* An empty hash: only blockchain_transactions is told. *)
RecordEmptyHash(w) ==
    /\ Goto(w, "empty", "ended")
    /\ Save(w, "FAILED")
    /\ UNCHANGED <<chain, faults, crashes, gate>>

RecordBroadcast(w) ==
    /\ \/ Goto(w, "record", "mark") /\ Save(w, "CONFIRMING")
       \/ Goto(w, "mark", "poll") /\ SetRow(w, "CONFIRMING")
    /\ UNCHANGED <<chain, faults, crashes, gate>>

(* Mutant: a mined transaction counts as confirmed. *)
BugMinedIsEnough(w) ==
    /\ Goto(w, "poll", "finish")
    /\ w \in paid
    /\ UNCHANGED <<tables, chain, faults, crashes, gate>>

(* The polling loop ends at the threshold, after maxPolls or with the context. *)
Confirmed(w) ==
    /\ Goto(w, "poll", "finish")
    /\ w \in deep
    /\ UNCHANGED <<tables, chain, faults, crashes, gate>>

PollTimeout(w) ==
    /\ Goto(w, "poll", "timedOut")
    /\ UNCHANGED <<tables, chain, faults, crashes, gate>>

RecordConfirmed(w) ==
    /\ \/ Goto(w, "finish", "finishRow") /\ Save(w, "CONFIRMED")
       \/ Goto(w, "finishRow", "ended") /\ SetRow(w, "CONFIRMED")
    /\ UNCHANGED <<chain, faults, crashes, gate>>

(* A failed save ends the goroutine; no table is told. *)
SaveFails(w) ==
    /\ \/ Goto(w, "stages", "ended") \/ Goto(w, "record", "ended") \/ Goto(w, "finish", "ended")
    /\ Fault
    /\ UNCHANGED <<tables, chain, crashes, gate>>

(* Statements whose error is dropped. *)
IgnoredFailure(w) ==
    /\ \/ Goto(w, "refused", "failRow") \/ Goto(w, "failRow", "ended") \/ Goto(w, "empty", "ended")
       \/ Goto(w, "mark", "poll") \/ Goto(w, "finishRow", "ended")
    /\ Fault
    /\ UNCHANGED <<tables, chain, crashes, gate>>

Crash(g) ==
    /\ crashes < MaxCrashes
    /\ crashes' = crashes + 1
    /\ pc' = [w \in Ids |-> IF Host[w] = g /\ pc[w] \in Running THEN "ended" ELSE pc[w]]
    /\ NewComplianceEngine(g)
    /\ UNCHANGED <<tables, chain, faults, outdated, seen>>

-------------------------------------------------------------------------------
(* The chain *)

Mine ==
    /\ \E e \in Holders(mined) :
        /\ mempool' = mempool \ {e}
        /\ paid' = paid \cup {e[2]}
    /\ mined' = mined + 1
    /\ UNCHANGED <<tables, pc, nonce, deep, faults, crashes, lost, gate>>

Bury(w) ==
    /\ w \in paid \ deep
    /\ deep' = deep \cup {w}
    /\ UNCHANGED <<tables, pc, nonce, mined, mempool, paid, faults, crashes, lost, gate>>

Proceed(w) ==
    \/ SaveStage(w) \/ FetchNonce(w) \/ Broadcast(w) \/ BroadcastRefused(w)
    \/ RecordFailure(w) \/ RecordEmptyHash(w) \/ RecordBroadcast(w)
    \/ Confirmed(w) \/ RecordConfirmed(w)

Next ==
    \/ \E w \in Ids :
        \/ Request(w) \/ EvaluateAmount(w) \/ EvaluateVelocity(w) \/ Monitor(w)
        \/ CheckTravelRule(w) \/ InsertWithdrawal(w)
        \/ EvaluateAMLFails(w) \/ HandlerFails(w)
        \/ Proceed(w) \/ PollTimeout(w)
        \/ BroadcastFails(w) \/ BroadcastAnswerLost(w) \/ SaveFails(w) \/ IgnoredFailure(w)
        \/ Bury(w)
    \/ SubmitTier
    \/ DetectDeposit
    \/ \E g \in Replicas : Crash(g)
    \/ Mine

(* Goroutines run, and the chain mines what it has accepted. *)
Fairness ==
    /\ WF_vars(Mine)
    /\ \A w \in Ids : WF_vars(Proceed(w)) /\ WF_vars(Bury(w))

Spec == Init /\ [][Next]_vars /\ Fairness

-------------------------------------------------------------------------------
(* Properties *)

Sent(w) == w \in paid \/ \E e \in mempool : e[2] = w

(* Before a transaction reaches the node, BROADCASTING is on record: after *)
(* a crash at any point a payment on the chain has a blockchain_transactions *)
(* row that says it may exist, or FAILED if the node's answer was lost     *)
(* (ProcessBlockchainTransaction).                                         *)
RecordedBeforeSent ==
    \A w \in Ids :
        Sent(w) => \/ btx[w] \in {"BROADCASTING", "CONFIRMING", "CONFIRMED"}
                   \/ btx[w] = "FAILED" /\ w \in lost

(* The variables have their types, and what the user is shown is true:     *)
(* CONFIRMED was paid with the required confirmations, CONFIRMING and      *)
(* CONFIRMED agree with blockchain_transactions, and a FAILED withdrawal   *)
(* is not paid, now or later, unless the node's answer was lost (the two   *)
(* tables are written by separate statements that may each fail).          *)
StatusIsTrue ==
    /\ TypeOK
    /\ \A w \in Ids :
        /\ row[w] = "CONFIRMED" => w \in deep /\ btx[w] = "CONFIRMED"
        /\ row[w] = "CONFIRMING" => btx[w] \in {"CONFIRMING", "CONFIRMED"}
        /\ row[w] = "FAILED" => w \in lost \/ ~Sent(w)

(* While nothing fails, a request ends CONFIRMED or FAILED, unless its     *)
(* poll times out or another withdrawal took its nonce                     *)
(* (ProcessBlockchainTransaction).                                         *)
EventuallyResolved ==
    \A w \in Ids :
        row[w] = "PENDING_APPROVAL" ~>
            \/ row[w] \in {"CONFIRMED", "FAILED"}
            \/ pc[w] = "timedOut"
            \/ pc[w] = "poll" /\ ~Sent(w)
            \/ faults + crashes > 0

(* What the user has taken out today, or may still: the payments on their *)
(* way and the rows that are not FAILED.                                  *)
TakenOut == {w \in Ids : w \in Counted \/ Sent(w)}

(* However requests on several replicas interleave, fail and crash, the    *)
(* money that leaves in a day is within the limit of a tier the user has   *)
(* submitted, and when the withdrawals of an hour and the deposits one of  *)
(* them has seen are more than five, the velocity alert is raised; unless  *)
(* a request overlapped another one or could not read the table            *)
(* (CheckLimits and EvaluateAML read, the handler inserts later), or a     *)
(* payment marked FAILED was made.  Deposits that arrive after the last    *)
(* withdrawal are looked at by no rule.                                    *)
LimitsHold ==
    /\ TakenOut \cap (outdated \cup lost) = {} =>
            SumFunctionOnSet(Amount, TakenOut)
                <= Max({Limit[t] : t \in {"BASIC"} \cup (claimed \cap DOMAIN Limit)})
    /\ Stored \cap outdated = {} /\ (\E w \in Stored : Cardinality(Stored) + seen[w] > 5) =>
            \E w \in Stored : <<"velocity", w>> \in alerts
===============================================================================
