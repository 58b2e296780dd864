------------------------------ MODULE Settlement ------------------------------
(***************************************************************************)
(* Trade clearing of the matching engine in its production configuration   *)
(* (a PostgreSQL pool is attached): the part of                            *)
(* OMSRouter.ProcessIncomingOrder that follows a match.  Each worker is a  *)
(* goroutine (an HTTP handler or the Kafka consumer) that has matched some *)
(* trades and now                                                          *)
(*   1. releases the holds of both sides   (ExecutionEngine.ProcessTrades),*)
(*   2. enqueues one job per trade         (QueueSettlement),              *)
(*   3. drains the queue                   (ProcessQueue), running one SQL *)
(*      transaction per job                (executeSettlementTransaction). *)
(* Every SQL call may fail; a commit may take effect although the caller   *)
(* sees an error; the process may crash and restart between any two calls. *)
(* Amounts are integers in the smallest unit of the asset.                 *)
(***************************************************************************)
EXTENDS Integers, FiniteSets, Functions

CONSTANTS
    Trades,         \* identifiers of matched trades
    Users,          \* trading accounts
    Assets,
    Base, Quote,    \* assets of the market
    Platform,       \* the "platform_fees" account
    Exec,           \* [Trades -> Execution]
    OpenRows,       \* rows of the balances table that exist at the start
    Opening,        \* [Rows -> Amounts], their content
    Workers,        \* concurrent callers of ProcessIncomingOrder
    MaxRetries,     \* SettlementJob.MaxRetries, 3 in the code
    OutboxTables,   \* whether settlements_queue has the column updated_at, which the
                    \* INSERT of QueueSettlement names: {FALSE} as the migrations create it
    MaxFaults,      \* bound: failing SQL calls
    MaxCrashes      \* bound: process restarts

Accounts == Users \cup {Platform}
Rows     == Accounts \X Assets
Amounts  == [available : Int, reserved : Int, total : Int]
Sides    == {"buyer", "seller"}

(* The fields of engine.Execution that clearing reads.  value is           *)
(* Price * Quantity.                                                       *)
Execution == [buyer : Users, seller : Users, qty : Nat, value : Nat,
              buyerRawFee : Nat, buyerFee : Nat, buyerFeeAsset : Assets,
              sellerFee : Nat, sellerFeeAsset : Assets]

Job == [trade : Trades, retries : Nat]

OutboxStatus == {"NONE", "PENDING", "RETRYING", "FAILED"}
OutboxRow    == [status : OutboxStatus, retries : Nat]
NoRow        == [status |-> "NONE", retries |-> 0]

EntryKind == {"b_q", "b_fee", "b_b", "s_b", "s_q", "s_fee", "p_fee_b", "p_fee_s"}
Entry     == [id : EntryKind \X Trades, row : Rows, amount : Int]

ASSUME SettlementAssumption ==
    /\ Platform \notin Users
    /\ {Base, Quote} \subseteq Assets
    /\ Base # Quote
    /\ Exec \in [Trades -> Execution]
    /\ OpenRows \subseteq Rows
    /\ Opening \in [Rows -> Amounts]
    /\ \A r \in Rows \ OpenRows : Opening[r] = [available |-> 0, reserved |-> 0, total |-> 0]
    /\ \A r \in Rows : Opening[r].available + Opening[r].reserved = Opening[r].total
    /\ MaxRetries \in Nat
    /\ OutboxTables \subseteq BOOLEAN
    /\ MaxFaults \in Nat
    /\ MaxCrashes \in Nat

VARIABLES
    \* PostgreSQL
    live,       \* rows of balances that exist
    available, reserved, total,   \* their columns, 0 for a missing row
    outbox,     \* settlements_queue, keyed by the trade ("set_job_" + TradeID)
    ledger,     \* ledger_entries
    outboxReady,  \* the table has the column updated_at; never changes
    \* the matching-engine process
    memQueue,   \* SettlementEngine.queue
    archive,    \* SettlementEngine.history, as <<trade, status>>
    pc,         \* where each worker is in ProcessIncomingOrder
    holds,      \* holds a worker has still to release
    legs,       \* trades a worker has still to enqueue
    batch,      \* activeJobs of a running ProcessQueue
    \* bookkeeping of the model
    matched,    \* trades the matcher has produced
    queued,     \* trades whose QueueSettlement has returned
    applied,    \* how often the legs of a trade were committed
    faults, crashes

db      == <<live, available, reserved, total, outbox, ledger, outboxReady>>
process == <<memQueue, archive, pc, holds, legs, batch>>
ghosts  == <<matched, queued, applied, faults, crashes>>
vars    == <<db, process, ghosts>>

TypeOK ==
    /\ live \in SUBSET Rows
    /\ available \in [Rows -> Int]
    /\ reserved \in [Rows -> Int]
    /\ total \in [Rows -> Int]
    /\ outbox \in [Trades -> OutboxRow]
    /\ ledger \in SUBSET Entry
    /\ outboxReady \in BOOLEAN
    /\ memQueue \in SUBSET Job
    /\ archive \in SUBSET (Trades \X {"COMPLETED", "FAILED"})
    /\ pc \in [Workers -> {"idle", "clearing", "draining"}]
    /\ holds \in [Workers -> SUBSET (Trades \X Sides)]
    /\ legs \in [Workers -> SUBSET Trades]
    /\ batch \in [Workers -> SUBSET Job]
    /\ matched \in SUBSET Trades
    /\ queued \in SUBSET Trades
    /\ applied \in [Trades -> Nat]
    /\ faults \in Nat
    /\ crashes \in Nat

Init ==
    /\ live = OpenRows
    /\ available = [r \in Rows |-> Opening[r].available]
    /\ reserved = [r \in Rows |-> Opening[r].reserved]
    /\ total = [r \in Rows |-> Opening[r].total]
    /\ outbox = [t \in Trades |-> NoRow]
    /\ ledger = {}
    /\ outboxReady \in OutboxTables
    /\ memQueue = {}
    /\ archive = {}
    /\ pc = [w \in Workers |-> "idle"]
    /\ holds = [w \in Workers |-> {}]
    /\ legs = [w \in Workers |-> {}]
    /\ batch = [w \in Workers |-> {}]
    /\ matched = {}
    /\ queued = {}
    /\ applied = [t \in Trades |-> 0]
    /\ faults = 0
    /\ crashes = 0

(* A SQL call fails: nothing it would have written is written. *)
Fault == faults < MaxFaults /\ faults' = faults + 1

-------------------------------------------------------------------------------
(* The legs of a trade *)

BuyerRow(t)  == <<Exec[t].buyer, Quote>>
SellerRow(t) == <<Exec[t].seller, Base>>

BuyerPaysQuoteFee(t)  == Exec[t].buyerFeeAsset = Quote
SellerPaysQuoteFee(t) == Exec[t].sellerFeeAsset = Quote

(* Mutant: the fee is not taken from the buyer. *)
BugFreeBuyer(t) == Exec[t].value

BuyerQuoteTotalDebit(t) ==
    Exec[t].value + (IF BuyerPaysQuoteFee(t) THEN Exec[t].buyerFee ELSE 0)

(* Mutant: the reservation of the fee stays behind. *)
BugFeeStaysReserved(t) == Exec[t].value

BuyerQuoteReservedDebit(t) == Exec[t].value + Exec[t].buyerRawFee

SellerCredit(t) ==
    Exec[t].value - (IF SellerPaysQuoteFee(t) THEN Exec[t].sellerFee ELSE 0)

(* INSERT .. ON CONFLICT DO UPDATE: creates the row when it is missing. *)
Upsert(r, row, amount) == IF r = row THEN amount ELSE 0

(* UPDATE .. WHERE: touches no row, and reports no error, when it is missing. *)
Update(r, row, exists, amount) == IF r = row /\ row \in exists THEN amount ELSE 0

(* Rows that exist once the buyer's base credit has run inside the transaction. *)
WithBuyerBase(t, exists) == exists \cup {<<Exec[t].buyer, Base>>}
WithSellerQuote(t, exists) ==
    WithBuyerBase(t, exists) \cup {<<Exec[t].seller, Quote>>}

BornRows(t) == {<<Exec[t].buyer, Base>>, <<Exec[t].seller, Quote>>,
                <<Platform, Exec[t].buyerFeeAsset>>, <<Platform, Exec[t].sellerFeeAsset>>}

(* What the transaction adds to the columns of row r, exists being the rows *)
(* it starts from.                                                          *)
ReservedMove(t, r, exists) ==
    0 - Update(r, BuyerRow(t), exists, BuyerQuoteReservedDebit(t))
      - Update(r, SellerRow(t), WithBuyerBase(t, exists), Exec[t].qty)

AvailableMove(t, r, exists) ==
    Upsert(r, <<Exec[t].buyer, Base>>, Exec[t].qty)
    + Upsert(r, <<Exec[t].seller, Quote>>, SellerCredit(t))
    + Upsert(r, <<Platform, Exec[t].buyerFeeAsset>>, Exec[t].buyerFee)
    + Upsert(r, <<Platform, Exec[t].sellerFeeAsset>>, Exec[t].sellerFee)
    - (IF BuyerPaysQuoteFee(t) THEN 0
       ELSE Update(r, <<Exec[t].buyer, Exec[t].buyerFeeAsset>>, exists, Exec[t].buyerFee))
    - (IF SellerPaysQuoteFee(t) THEN 0
       ELSE Update(r, <<Exec[t].seller, Exec[t].sellerFeeAsset>>,
                   WithSellerQuote(t, exists), Exec[t].sellerFee))

(* Mutant: the seller keeps the base asset. *)
BugSellerKeepsBase(t, r, exists) ==
    AvailableMove(t, r, exists) - Update(r, BuyerRow(t), exists, BuyerQuoteTotalDebit(t))

TotalMove(t, r, exists) ==
    AvailableMove(t, r, exists)
    - Update(r, BuyerRow(t), exists, BuyerQuoteTotalDebit(t))
    - Update(r, SellerRow(t), WithBuyerBase(t, exists), Exec[t].qty)

Posting(kind, t, user, asset, amount) ==
    [id |-> <<kind, t>>, row |-> <<user, asset>>, amount |-> amount]

(* Ledger rows of the transaction; a debit is negative. *)
Entries(t) ==
    LET e == Exec[t] IN
    {Posting("b_q", t, e.buyer, Quote, 0 - BuyerQuoteTotalDebit(t)),
     Posting("b_b", t, e.buyer, Base, e.qty),
     Posting("s_b", t, e.seller, Base, 0 - e.qty),
     Posting("s_q", t, e.seller, Quote, SellerCredit(t)),
     Posting("p_fee_b", t, Platform, e.buyerFeeAsset, e.buyerFee),
     Posting("p_fee_s", t, Platform, e.sellerFeeAsset, e.sellerFee)}
    \cup (IF BuyerPaysQuoteFee(t) THEN {}
          ELSE {Posting("b_fee", t, e.buyer, e.buyerFeeAsset, 0 - e.buyerFee)})
    \cup (IF SellerPaysQuoteFee(t) THEN {}
          ELSE {Posting("s_fee", t, e.seller, e.sellerFeeAsset, 0 - e.sellerFee)})

(* The primary key of ledger_entries: some entry of the trade exists already. *)
Posted(t) == \E e \in ledger : e.id[2] = t
Settled   == {t \in Trades : Posted(t)}

-------------------------------------------------------------------------------
(* Actions *)

(* MatchOrder returned the trades ts to worker w: ProcessTrades is called with *)
(* them and will release two holds per trade.                                  *)
Match(w, ts) ==
    /\ pc[w] = "idle"
    /\ ts # {}
    /\ ts \cap matched = {}
    /\ matched' = matched \cup ts
    /\ pc' = [pc EXCEPT ![w] = "clearing"]
    /\ holds' = [holds EXCEPT ![w] = ts \X Sides]
    /\ legs' = [legs EXCEPT ![w] = ts]
    /\ UNCHANGED <<db, memQueue, archive, batch, queued, applied, faults, crashes>>

HoldRow(t, side)    == IF side = "buyer" THEN BuyerRow(t) ELSE SellerRow(t)
HoldAmount(t, side) == IF side = "buyer" THEN BuyerQuoteReservedDebit(t) ELSE Exec[t].qty

(* RiskEngine.ReleaseHold: never releases more than what is reserved. *)
Released(row, amount) ==
    IF row \notin live THEN 0
    ELSE IF amount > reserved[row] THEN reserved[row] ELSE amount

(* ProcessTrades holds the mutex of the ExecutionEngine for all its trades, and *)
(* releases the hold of the buyer before the one of the seller.                 *)
IsNextRelease(w, t, side) ==
    /\ side = "seller" => <<t, "buyer">> \notin holds[w]
    /\ \A v \in Workers \ {w} : holds[v] \in {{}, legs[v] \X Sides}

(* ReleaseHold of one side of one trade, inside ProcessTrades. *)
ReleaseHold(w, t, side) ==
    LET row == HoldRow(t, side)
        amt == Released(row, HoldAmount(t, side))
    IN  /\ <<t, side>> \in holds[w]
        /\ IsNextRelease(w, t, side)
        /\ available' = [available EXCEPT ![row] = @ + amt]
        /\ reserved' = [reserved EXCEPT ![row] = @ - amt]
        /\ holds' = [holds EXCEPT ![w] = @ \ {<<t, side>>}]
        /\ UNCHANGED <<live, total, outbox, ledger, outboxReady, memQueue, archive, pc, legs, batch, ghosts>>

(* The same call when its transaction fails: the error is dropped. *)
ReleaseHoldFails(w, t, side) ==
    /\ <<t, side>> \in holds[w]
    /\ IsNextRelease(w, t, side)
    /\ Fault
    /\ holds' = [holds EXCEPT ![w] = @ \ {<<t, side>>}]
    /\ UNCHANGED <<db, memQueue, archive, pc, legs, batch, matched, queued, applied, crashes>>

(* QueueSettlement: the job is appended to the memory queue and inserted in the *)
(* outbox table.  The error of the INSERT is dropped: it always fails on a table *)
(* without the column, and on the other one when the call fails.                 *)
QueueSettlement(w, t, inserted) ==
    /\ pc[w] = "clearing"
    /\ holds[w] = {}
    /\ t \in legs[w]
    /\ inserted => outboxReady
    /\ IF outboxReady /\ ~inserted THEN Fault ELSE UNCHANGED faults
    /\ legs' = [legs EXCEPT ![w] = @ \ {t}]
    /\ memQueue' = memQueue \cup {[trade |-> t, retries |-> 0]}
    /\ outbox' = IF inserted
                 THEN [outbox EXCEPT ![t] = [status |-> "PENDING", retries |-> 0]]
                 ELSE outbox
    /\ queued' = queued \cup {t}
    /\ UNCHANGED <<live, available, reserved, total, ledger, outboxReady, archive, pc, holds,
                   batch, matched, applied, crashes>>

(* SELECT payload FROM settlements_queue WHERE status is PENDING or RETRYING. *)
PendingJobs ==
    {[trade |-> t, retries |-> outbox[t].retries] :
        t \in {u \in Trades : outbox[u].status \in {"PENDING", "RETRYING"}}}

(* Mutant: the memory queue is emptied but never settled. *)
BugNoFallback(w, rows) ==
    /\ pc[w] = "clearing"
    /\ holds[w] = {}
    /\ legs[w] = {}
    /\ batch' = [batch EXCEPT ![w] = rows]
    /\ memQueue' = {}
    /\ pc' = [pc EXCEPT ![w] = "draining"]
    /\ UNCHANGED <<db, archive, holds, legs, matched, queued, applied, crashes>>

(* Mutant: a claimed row is deleted before it is settled. *)
BugClaimDeletes(w, rows) ==
    /\ pc[w] = "clearing"
    /\ holds[w] = {}
    /\ legs[w] = {}
    /\ batch' = [batch EXCEPT ![w] = IF rows = {} THEN memQueue ELSE rows]
    /\ memQueue' = {}
    /\ outbox' = [t \in Trades |-> NoRow]
    /\ pc' = [pc EXCEPT ![w] = "draining"]
    /\ UNCHANGED <<live, available, reserved, total, ledger, outboxReady, archive, holds, legs,
                   matched, queued, applied, crashes>>

(* ProcessQueue up to the unlock: the batch is the pending outbox rows or, when *)
(* the query yields none, the memory queue, which is emptied either way.        *)
BeginProcessQueue(w, rows) ==
    /\ pc[w] = "clearing"
    /\ holds[w] = {}
    /\ legs[w] = {}
    /\ batch' = [batch EXCEPT ![w] = IF rows = {} THEN memQueue ELSE rows]
    /\ memQueue' = {}
    /\ pc' = [pc EXCEPT ![w] = "draining"]
    /\ UNCHANGED <<db, archive, holds, legs, matched, queued, applied, crashes>>

ProcessQueue(w)           == BeginProcessQueue(w, PendingJobs) /\ UNCHANGED faults
ProcessQueueReadFails(w)  == BeginProcessQueue(w, {}) /\ Fault

(* Mutant: the ledger is inserted with ON CONFLICT DO NOTHING. *)
BugNoLedgerKey(t) ==
    /\ live' = live \cup BornRows(t)
    /\ available' = [r \in Rows |-> available[r] + AvailableMove(t, r, live)]
    /\ reserved' = [r \in Rows |-> reserved[r] + ReservedMove(t, r, live)]
    /\ total' = [r \in Rows |-> total[r] + TotalMove(t, r, live)]
    /\ ledger' = ledger \cup Entries(t)
    /\ outbox' = [outbox EXCEPT ![t] = NoRow]
    /\ applied' = [applied EXCEPT ![t] = @ + 1]
    /\ UNCHANGED outboxReady

(* The SQL transaction of executeSettlementTransaction takes effect. *)
Commit(t) ==
    /\ ~Posted(t)
    /\ live' = live \cup BornRows(t)
    /\ available' = [r \in Rows |-> available[r] + AvailableMove(t, r, live)]
    /\ reserved' = [r \in Rows |-> reserved[r] + ReservedMove(t, r, live)]
    /\ total' = [r \in Rows |-> total[r] + TotalMove(t, r, live)]
    /\ ledger' = ledger \cup Entries(t)
    /\ outbox' = [outbox EXCEPT ![t] = NoRow]
    /\ applied' = [applied EXCEPT ![t] = @ + 1]
    /\ UNCHANGED outboxReady

(* Mutants: the attempts are counted down; a job given up loses its row. *)
BugCountsDown(row, job) ==
    IF row.status = "NONE" THEN row ELSE [status |-> "RETRYING", retries |-> job.retries - 1]
BugGivenUpDeleted(row, job) ==
    IF row.status = "NONE" \/ job.retries + 1 > MaxRetries THEN NoRow
    ELSE [status |-> "RETRYING", retries |-> job.retries + 1]

(* What ProcessQueue does with a job whose transaction returned an error: count *)
(* the attempt in the outbox row, if there is one, and give up after MaxRetries. *)
AfterError(row, job) ==
    IF row.status = "NONE" THEN row
    ELSE [status |-> IF job.retries + 1 <= MaxRetries THEN "RETRYING" ELSE "FAILED",
          retries |-> job.retries + 1]

ArchivedAfterError(job) ==
    IF job.retries + 1 <= MaxRetries THEN archive
    ELSE archive \cup {<<job.trade, "FAILED">>}

(* The double-entry check of ProcessQueue: per asset, what the buyer, the      *)
(* seller and the platform receive less what they pay.  It reads both sides    *)
(* from the execution, so it refuses nothing (DoubleEntryPasses in             *)
(* SettlementProofs).                                                          *)
NetMovement(t, a) ==
    LET e == Exec[t]
        In(asset, amount) == IF a = asset THEN amount ELSE 0
    IN  In(Base, e.qty) - In(Quote, e.value)
        - In(e.buyerFeeAsset, e.buyerFee) + In(e.buyerFeeAsset, e.buyerFee)
        - In(Base, e.qty) + In(Quote, e.value)
        - In(e.sellerFeeAsset, e.sellerFee) + In(e.sellerFeeAsset, e.sellerFee)

DoubleEntry(t) == \A a \in Assets : NetMovement(t, a) = 0

(* One job is settled. *)
Settle(w, job) ==
    /\ job \in batch[w]
    /\ DoubleEntry(job.trade)
    /\ Commit(job.trade)
    /\ archive' = archive \cup {<<job.trade, "COMPLETED">>}
    /\ batch' = [batch EXCEPT ![w] = @ \ {job}]
    /\ UNCHANGED <<memQueue, pc, holds, legs, matched, queued, faults, crashes>>

(* The transaction is rolled back, by a SQL error or because the ledger entries *)
(* of the trade exist already.                                                  *)
SettleFails(w, job) ==
    /\ job \in batch[w]
    /\ DoubleEntry(job.trade)
    /\ IF Posted(job.trade) THEN UNCHANGED faults ELSE Fault
    /\ outbox' = [outbox EXCEPT ![job.trade] = AfterError(@, job)]
    /\ archive' = ArchivedAfterError(job)
    /\ batch' = [batch EXCEPT ![w] = @ \ {job}]
    /\ UNCHANGED <<live, available, reserved, total, ledger, outboxReady, memQueue, pc, holds,
                   legs, matched, queued, applied, crashes>>

(* The same when the UPDATE of the outbox row fails too; its error is dropped. *)
SettleAndRetryMarkFail(w, job) ==
    /\ job \in batch[w]
    /\ DoubleEntry(job.trade)
    /\ Fault
    /\ archive' = ArchivedAfterError(job)
    /\ batch' = [batch EXCEPT ![w] = @ \ {job}]
    /\ UNCHANGED <<db, memQueue, pc, holds, legs, matched, queued, applied, crashes>>

(* The commit takes effect but the connection is lost before the answer: the *)
(* job is treated as failed although it is settled.                          *)
SettleAnswerLost(w, job) ==
    /\ job \in batch[w]
    /\ DoubleEntry(job.trade)
    /\ Fault
    /\ Commit(job.trade)
    /\ archive' = ArchivedAfterError(job)
    /\ batch' = [batch EXCEPT ![w] = @ \ {job}]
    /\ UNCHANGED <<memQueue, pc, holds, legs, matched, queued, crashes>>

(* ProcessQueue returns and the worker waits for its next order. *)
Drained(w) ==
    /\ pc[w] = "draining"
    /\ batch[w] = {}
    /\ pc' = [pc EXCEPT ![w] = "idle"]
    /\ UNCHANGED <<db, memQueue, archive, holds, legs, batch, ghosts>>

(* The process dies and restarts: the constructors build empty queues. *)
Crash ==
    /\ crashes < MaxCrashes
    /\ crashes' = crashes + 1
    /\ memQueue' = {}
    /\ archive' = {}
    /\ pc' = [w \in Workers |-> "idle"]
    /\ holds' = [w \in Workers |-> {}]
    /\ legs' = [w \in Workers |-> {}]
    /\ batch' = [w \in Workers |-> {}]
    /\ UNCHANGED <<db, matched, queued, applied, faults>>

Work(w) ==
    \/ \E t \in Trades, side \in Sides : ReleaseHold(w, t, side)
    \/ \E t \in Trades, side \in Sides : ReleaseHoldFails(w, t, side)
    \/ \E t \in Trades, inserted \in BOOLEAN : QueueSettlement(w, t, inserted)
    \/ ProcessQueue(w)
    \/ ProcessQueueReadFails(w)
    \/ \E job \in batch[w] : Settle(w, job)
    \/ \E job \in batch[w] : SettleFails(w, job)
    \/ \E job \in batch[w] : SettleAndRetryMarkFail(w, job)
    \/ \E job \in batch[w] : SettleAnswerLost(w, job)
    \/ Drained(w)

Next ==
    \/ \E w \in Workers, ts \in SUBSET Trades : Match(w, ts)
    \/ \E w \in Workers : Work(w)
    \/ Crash

Spec == Init /\ [][Next]_vars

(* A goroutine that can run is eventually scheduled. *)
FairSpec == Spec /\ \A w \in Workers : WF_vars(Work(w))

-------------------------------------------------------------------------------
(* Properties *)

(* Exactly-once effect: however often a job is retried, claimed by two workers *)
(* or answered with a lost acknowledgement, the legs of a trade are committed  *)
(* once if its ledger entries exist and never otherwise.                       *)
SettledOnce == \A t \in Trades : applied[t] = IF Posted(t) THEN 1 ELSE 0

(* Reconciliation of executeSettlementTransaction: the total of every balances *)
(* row is its opening value plus the ledger entries booked on it.              *)
LedgerReconciles ==
    \A r \in Rows :
        LET booked == {e \in ledger : e.row = r}
        IN  total[r] = Opening[r].total + SumFunction([e \in booked |-> e.amount])

(* Double entry: in every asset the postings of a settled trade sum to zero.   *)
LedgerBalanced ==
    \A t \in Settled, a \in Assets :
        LET postings == {e \in ledger : e.id[2] = t /\ e.row[2] = a}
        IN  SumFunction([e \in postings |-> e.amount]) = 0

(* The columns of a balances row agree: what ReleaseHold and the settlement    *)
(* transaction do to available and reserved is what they do to total.          *)
RowsReconcile == \A r \in Rows : available[r] + reserved[r] = total[r]

(* Crash resilience of the outbox: a trade whose QueueSettlement returned is   *)
(* settled or still has its settlements_queue row.                             *)
QueuedJobDurable ==
    \A t \in queued : Posted(t) \/ outbox[t].status # "NONE"

(* As long as the table has the column and no SQL call has failed, no crash     *)
(* loses a queued trade.                                                       *)
OutboxSurvivesCrash == outboxReady /\ faults = 0 => QueuedJobDurable

(* An outbox row leaves settlements_queue only in the transaction that posts   *)
(* the ledger entries of its trade.                                            *)
OutboxRowLeavesBySettling ==
    [][\A t \in Trades :
          outbox[t].status # "NONE" /\ outbox'[t].status = "NONE"
          => ~Posted(t) /\ Posted(t)']_vars

(* The engine implements its abstract promise: one atomic settlement per trade. *)
Abstract == INSTANCE AtomicSettlement WITH
    settled <- Settled, OpenLive <- OpenRows,
    OpenTotal <- [r \in Rows |-> Opening[r].total],
    Moves <- TotalMove, Born <- BornRows

ImplementsAtomicSettlement == Abstract!Spec

(* No balances row ever has a negative reserved amount. *)
ReservedNonNegative == \A r \in Rows : reserved[r] >= 0

(* Every enqueued trade is in the end settled or given up as FAILED, as long as  *)
(* no SQL call fails and the process does not restart: after a failure nothing   *)
(* calls ProcessQueue again before the next trade.                               *)
SettledOrGivenUp ==
    \A t \in Trades :
        t \in queued ~> (Posted(t) \/ outbox[t].status = "FAILED" \/ faults + crashes > 0)
===============================================================================
