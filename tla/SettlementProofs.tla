--------------------------- MODULE SettlementProofs ---------------------------
(***************************************************************************)
(* Proofs about Settlement, for every set of trades, users, assets and     *)
(* workers, every number of retries, faults and crashes.                   *)
(***************************************************************************)
EXTENDS Settlement, Sums

-------------------------------------------------------------------------------
(* Facts about the legs of one trade *)

LEMMA ExecFields ==
    ASSUME NEW t \in Trades
    PROVE  /\ Exec[t] \in Execution
           /\ Exec[t].buyer \in Users /\ Exec[t].seller \in Users
           /\ Exec[t].qty \in Nat /\ Exec[t].value \in Nat
           /\ Exec[t].buyerRawFee \in Nat /\ Exec[t].buyerFee \in Nat
           /\ Exec[t].sellerFee \in Nat
           /\ Exec[t].buyerFeeAsset \in Assets /\ Exec[t].sellerFeeAsset \in Assets
  BY SettlementAssumption DEF Execution

(* The double-entry check in front of every settlement (ProcessQueue) lets *)
(* every execution pass: a job is never archived as FAILED for it.         *)
LEMMA DoubleEntryPasses ==
    ASSUME NEW t \in Trades
    PROVE  DoubleEntry(t)
  BY ExecFields DEF DoubleEntry, NetMovement

LEMMA RowTypes ==
    ASSUME NEW t \in Trades
    PROVE  /\ BuyerRow(t) \in Rows
           /\ SellerRow(t) \in Rows
           /\ BornRows(t) \subseteq Rows
  <1>1. /\ Exec[t].buyer \in Accounts /\ Exec[t].seller \in Accounts
        /\ Platform \in Accounts /\ Base \in Assets /\ Quote \in Assets
        /\ Exec[t].buyerFeeAsset \in Assets /\ Exec[t].sellerFeeAsset \in Assets
    BY ExecFields, SettlementAssumption DEF Accounts
  <1>2. QED
    BY <1>1 DEF Rows, BuyerRow, SellerRow, BornRows

LEMMA AmountTypes ==
    ASSUME NEW t \in Trades
    PROVE  /\ BuyerQuoteTotalDebit(t) \in Int
           /\ BuyerQuoteReservedDebit(t) \in Int
           /\ SellerCredit(t) \in Int
  BY ExecFields
  DEF BuyerQuoteTotalDebit, BuyerQuoteReservedDebit, SellerCredit,
      BuyerPaysQuoteFee, SellerPaysQuoteFee

LEMMA MoveTypes ==
    ASSUME NEW t \in Trades, NEW r \in Rows, NEW exists
    PROVE  /\ AvailableMove(t, r, exists) \in Int
           /\ ReservedMove(t, r, exists) \in Int
           /\ TotalMove(t, r, exists) \in Int
  <1>u. ASSUME NEW row, NEW amount \in Int PROVE Upsert(r, row, amount) \in Int
    BY <1>u DEF Upsert
  <1>v. ASSUME NEW row, NEW S, NEW amount \in Int PROVE Update(r, row, S, amount) \in Int
    BY <1>v DEF Update
  <1> DEFINE x1 == Upsert(r, <<Exec[t].buyer, Base>>, Exec[t].qty)
             x2 == Upsert(r, <<Exec[t].seller, Quote>>, SellerCredit(t))
             x3 == Upsert(r, <<Platform, Exec[t].buyerFeeAsset>>, Exec[t].buyerFee)
             x4 == Upsert(r, <<Platform, Exec[t].sellerFeeAsset>>, Exec[t].sellerFee)
             x5 == Update(r, <<Exec[t].buyer, Exec[t].buyerFeeAsset>>, exists, Exec[t].buyerFee)
             x6 == Update(r, <<Exec[t].seller, Exec[t].sellerFeeAsset>>,
                          WithSellerQuote(t, exists), Exec[t].sellerFee)
             x7 == Update(r, BuyerRow(t), exists, BuyerQuoteReservedDebit(t))
             x8 == Update(r, SellerRow(t), WithBuyerBase(t, exists), Exec[t].qty)
             x9 == Update(r, BuyerRow(t), exists, BuyerQuoteTotalDebit(t))
             y5 == IF BuyerPaysQuoteFee(t) THEN 0 ELSE x5
             y6 == IF SellerPaysQuoteFee(t) THEN 0 ELSE x6
  <1>1. /\ x1 \in Int /\ x2 \in Int /\ x3 \in Int /\ x4 \in Int
        /\ x5 \in Int /\ x6 \in Int /\ x7 \in Int /\ x8 \in Int /\ x9 \in Int
    BY <1>u, <1>v, ExecFields, AmountTypes
  <1>2. y5 \in Int /\ y6 \in Int
    BY <1>1
  <1>3. AvailableMove(t, r, exists) = x1 + x2 + x3 + x4 - y5 - y6
    BY DEF AvailableMove
  <1>4. ReservedMove(t, r, exists) = 0 - x7 - x8
    BY DEF ReservedMove
  <1>5. TotalMove(t, r, exists) = AvailableMove(t, r, exists) - x9 - x8
    BY DEF TotalMove
  <1> HIDE DEF x1, x2, x3, x4, x5, x6, x7, x8, x9, y5, y6
  <1>6. AvailableMove(t, r, exists) \in Int
    BY <1>1, <1>2, <1>3
  <1>7. QED
    BY <1>1, <1>4, <1>5, <1>6

(* Every posting of a trade carries the trade in its key, and there is one. *)
LEMMA EntriesOfTrade ==
    ASSUME NEW t \in Trades
    PROVE  /\ \A e \in Entries(t) : e.id[2] = t
           /\ \E e \in Entries(t) : e.id[2] = t
  <1>1. \A e \in Entries(t) : e.id[2] = t
    BY DEF Entries, Posting
  <1>2. Posting("b_b", t, Exec[t].buyer, Base, Exec[t].qty) \in Entries(t)
    BY DEF Entries
  <1>3. QED
    BY <1>1, <1>2

LEMMA EntriesType ==
    ASSUME NEW t \in Trades
    PROVE  Entries(t) \subseteq Entry
  <1>1. ASSUME NEW kind \in EntryKind, NEW user \in Accounts, NEW asset \in Assets,
               NEW amount \in Int
        PROVE  Posting(kind, t, user, asset, amount) \in Entry
    BY <1>1 DEF Posting, Entry, Rows
  <1>2. /\ Exec[t].buyer \in Accounts /\ Exec[t].seller \in Accounts
        /\ Platform \in Accounts /\ Base \in Assets /\ Quote \in Assets
    BY ExecFields, SettlementAssumption DEF Accounts
  <1>3. /\ 0 - BuyerQuoteTotalDebit(t) \in Int /\ SellerCredit(t) \in Int
        /\ Exec[t].qty \in Int /\ 0 - Exec[t].qty \in Int
        /\ Exec[t].buyerFee \in Int /\ 0 - Exec[t].buyerFee \in Int
        /\ Exec[t].sellerFee \in Int /\ 0 - Exec[t].sellerFee \in Int
    BY ExecFields, AmountTypes
  <1>4. {"b_q", "b_fee", "b_b", "s_b", "s_q", "s_fee", "p_fee_b", "p_fee_s"} \subseteq EntryKind
    BY DEF EntryKind
  <1>5. QED
    BY <1>1, <1>2, <1>3, <1>4, ExecFields DEF Entries

(* A committed transaction adds exactly its own trade to the settled ones. *)
LEMMA CommitSettles ==
    ASSUME NEW t \in Trades, ledger' = ledger \cup Entries(t)
    PROVE  /\ Settled' = Settled \cup {t}
           /\ \A u \in Trades : Posted(u)' <=> (Posted(u) \/ u = t)
  <1>1. \A u \in Trades : Posted(u)' <=> (Posted(u) \/ u = t)
    BY EntriesOfTrade DEF Posted
  <1>2. QED
    BY <1>1 DEF Settled

-------------------------------------------------------------------------------
(* Type correctness *)

LEMMA CommitTypes ==
    ASSUME TypeOK, NEW t \in Trades, Commit(t)
    PROVE  /\ live' \in SUBSET Rows
           /\ available' \in [Rows -> Int]
           /\ reserved' \in [Rows -> Int]
           /\ total' \in [Rows -> Int]
           /\ outbox' \in [Trades -> OutboxRow]
           /\ ledger' \in SUBSET Entry
           /\ applied' \in [Trades -> Nat]
           /\ outboxReady' \in BOOLEAN
  <1>1. live' \in SUBSET Rows
    BY RowTypes DEF TypeOK, Commit
  <1>2. available' \in [Rows -> Int]
    BY MoveTypes DEF TypeOK, Commit
  <1>3. reserved' \in [Rows -> Int]
    BY MoveTypes DEF TypeOK, Commit
  <1>4. total' \in [Rows -> Int]
    BY MoveTypes DEF TypeOK, Commit
  <1>5. NoRow \in OutboxRow
    BY DEF NoRow, OutboxRow, OutboxStatus
  <1>6. outbox' \in [Trades -> OutboxRow]
    BY <1>5 DEF TypeOK, Commit
  <1>7. ledger' \in SUBSET Entry
    BY EntriesType DEF TypeOK, Commit
  <1>8. applied' \in [Trades -> Nat]
    BY DEF TypeOK, Commit
  <1>9. outboxReady' \in BOOLEAN
    BY DEF TypeOK, Commit
  <1>10. QED
    BY <1>1, <1>2, <1>3, <1>4, <1>6, <1>7, <1>8, <1>9

LEMMA ReleasedType ==
    ASSUME TypeOK, NEW t \in Trades, NEW side \in Sides
    PROVE  /\ HoldRow(t, side) \in Rows
           /\ Released(HoldRow(t, side), HoldAmount(t, side)) \in Int
  <1>1. HoldRow(t, side) \in Rows
    BY RowTypes DEF HoldRow
  <1>2. HoldAmount(t, side) \in Int
    BY AmountTypes, ExecFields DEF HoldAmount
  <1>3. reserved[HoldRow(t, side)] \in Int
    BY <1>1 DEF TypeOK
  <1>4. QED
    BY <1>1, <1>2, <1>3 DEF Released

LEMMA AfterErrorType ==
    ASSUME NEW row \in OutboxRow, NEW job \in Job
    PROVE  AfterError(row, job) \in OutboxRow
  BY DEF AfterError, OutboxRow, OutboxStatus, Job

LEMMA ArchivedType ==
    ASSUME TypeOK, NEW job \in Job
    PROVE  ArchivedAfterError(job) \in SUBSET (Trades \X {"COMPLETED", "FAILED"})
  <1>1. <<job.trade, "FAILED">> \in Trades \X {"COMPLETED", "FAILED"}
    BY DEF Job
  <1>2. QED
    BY <1>1 DEF ArchivedAfterError, TypeOK

LEMMA PendingJobsType ==
    ASSUME TypeOK
    PROVE  PendingJobs \in SUBSET Job
  BY DEF PendingJobs, TypeOK, Job, OutboxRow

LEMMA InitType == Init => TypeOK
  <1> SUFFICES ASSUME Init PROVE TypeOK
    OBVIOUS
  <1>1. \A r \in Rows : /\ Opening[r].available \in Int
                       /\ Opening[r].reserved \in Int
                       /\ Opening[r].total \in Int
    BY SettlementAssumption DEF Amounts
  <1>2. NoRow \in OutboxRow
    BY DEF NoRow, OutboxRow, OutboxStatus
  <1>3. QED
    BY <1>1, <1>2, SettlementAssumption DEF Init, TypeOK

LEMMA NextType == TypeOK /\ [Next]_vars => TypeOK'
  <1> SUFFICES ASSUME TypeOK, [Next]_vars PROVE TypeOK'
    OBVIOUS
  <1> USE DEF db, process, ghosts
  <1>1. ASSUME NEW w \in Workers, NEW ts \in SUBSET Trades, Match(w, ts) PROVE TypeOK'
    BY <1>1 DEF TypeOK, Match, Sides
  <1>2. ASSUME NEW w \in Workers, NEW t \in Trades, NEW side \in Sides, ReleaseHold(w, t, side)
        PROVE TypeOK'
    <2>1. available' \in [Rows -> Int] /\ reserved' \in [Rows -> Int]
      BY <1>2, ReleasedType DEF TypeOK, ReleaseHold
    <2>2. QED
      BY <1>2, <2>1 DEF TypeOK, ReleaseHold
  <1>3. ASSUME NEW w \in Workers, NEW t \in Trades, NEW side \in Sides, ReleaseHoldFails(w, t, side)
        PROVE TypeOK'
    BY <1>3 DEF TypeOK, ReleaseHoldFails, Fault
  <1>4. ASSUME NEW w \in Workers, NEW t \in Trades, NEW inserted \in BOOLEAN,
               QueueSettlement(w, t, inserted)
        PROVE TypeOK'
    <2>1. [status |-> "PENDING", retries |-> 0] \in OutboxRow
      BY DEF OutboxRow, OutboxStatus
    <2>2. [trade |-> t, retries |-> 0] \in Job
      BY DEF Job
    <2>3. outbox' \in [Trades -> OutboxRow]
      BY <1>4, <2>1 DEF TypeOK, QueueSettlement
    <2>4. faults' \in Nat
      BY <1>4 DEF QueueSettlement, Fault, TypeOK
    <2>5. QED
      BY <1>4, <2>2, <2>3, <2>4 DEF TypeOK, QueueSettlement
  <1>5. ASSUME NEW w \in Workers, NEW rows \in SUBSET Job, BeginProcessQueue(w, rows),
               faults' \in Nat
        PROVE TypeOK'
    BY <1>5 DEF TypeOK, BeginProcessQueue
  <1>6. ASSUME NEW w \in Workers, ProcessQueue(w) PROVE TypeOK'
    BY <1>5, <1>6, PendingJobsType DEF ProcessQueue, TypeOK
  <1>7. ASSUME NEW w \in Workers, ProcessQueueReadFails(w) PROVE TypeOK'
    BY <1>5, <1>7 DEF ProcessQueueReadFails, Fault, TypeOK
  <1>8. ASSUME NEW w \in Workers, NEW job \in batch[w], Settle(w, job) PROVE TypeOK'
    <2>1. job \in Job /\ job.trade \in Trades
      BY DEF TypeOK, Job
    <2>2. Commit(job.trade)
      BY <1>8 DEF Settle
    <2>3. archive' \in SUBSET (Trades \X {"COMPLETED", "FAILED"})
      BY <1>8, <2>1 DEF Settle, TypeOK
    <2>4. QED
      BY <1>8, <2>1, <2>2, <2>3, CommitTypes DEF Settle, TypeOK
  <1>9. ASSUME NEW w \in Workers, NEW job \in batch[w], SettleFails(w, job) PROVE TypeOK'
    <2>1. job \in Job /\ job.trade \in Trades
      BY DEF TypeOK, Job
    <2>2. outbox' \in [Trades -> OutboxRow]
      BY <1>9, <2>1, AfterErrorType DEF SettleFails, TypeOK
    <2>3. archive' \in SUBSET (Trades \X {"COMPLETED", "FAILED"})
      BY <1>9, <2>1, ArchivedType DEF SettleFails
    <2>4. faults' \in Nat
      BY <1>9 DEF SettleFails, Fault, TypeOK
    <2>5. QED
      BY <1>9, <2>2, <2>3, <2>4 DEF SettleFails, TypeOK
  <1>10. ASSUME NEW w \in Workers, NEW job \in batch[w], SettleAndRetryMarkFail(w, job)
         PROVE TypeOK'
    <2>1. job \in Job
      BY DEF TypeOK
    <2>2. QED
      BY <1>10, <2>1, ArchivedType DEF SettleAndRetryMarkFail, Fault, TypeOK
  <1>11. ASSUME NEW w \in Workers, NEW job \in batch[w], SettleAnswerLost(w, job) PROVE TypeOK'
    <2>1. job \in Job /\ job.trade \in Trades
      BY DEF TypeOK, Job
    <2>2. Commit(job.trade)
      BY <1>11 DEF SettleAnswerLost
    <2>3. archive' \in SUBSET (Trades \X {"COMPLETED", "FAILED"})
      BY <1>11, <2>1, ArchivedType DEF SettleAnswerLost
    <2>4. faults' \in Nat
      BY <1>11 DEF SettleAnswerLost, Fault, TypeOK
    <2>5. QED
      BY <1>11, <2>1, <2>2, <2>3, <2>4, CommitTypes DEF SettleAnswerLost, TypeOK
  <1>12. ASSUME NEW w \in Workers, Drained(w) PROVE TypeOK'
    BY <1>12 DEF TypeOK, Drained
  <1>13. CASE Crash
    BY <1>13 DEF TypeOK, Crash
  <1>14. CASE UNCHANGED vars
    BY <1>14 DEF TypeOK, vars
  <1>15. QED
    BY <1>1, <1>2, <1>3, <1>4, <1>6, <1>7, <1>8, <1>9, <1>10, <1>11, <1>12, <1>13, <1>14
    DEF Next, Work

(* Every reachable state is well typed: in particular the amounts stay integers *)
(* and every job and ledger entry belongs to a trade.                           *)
THEOREM TypeCorrect == Spec => []TypeOK
  BY InitType, NextType, PTL DEF Spec

-------------------------------------------------------------------------------
(* What a step may do to the tables *)

(* Every step either commits one settlement transaction or leaves the ledger, *)
(* the set of rows and every total as they were.                              *)
LEMMA StepCommits ==
    ASSUME TypeOK, [Next]_vars
    PROVE  \/ \E t \in Trades : Commit(t)
           \/ UNCHANGED <<live, total, ledger, applied>>
  <1> USE DEF db, process, ghosts
  <1>1. ASSUME NEW w \in Workers, NEW job \in batch[w], Settle(w, job) \/ SettleAnswerLost(w, job)
        PROVE  \E t \in Trades : Commit(t)
    <2>1. job.trade \in Trades
      BY DEF TypeOK, Job
    <2>2. QED
      BY <1>1, <2>1 DEF Settle, SettleAnswerLost
  <1>2. ASSUME NEW w \in Workers, NEW ts \in SUBSET Trades, Match(w, ts)
        PROVE  UNCHANGED <<live, total, ledger, applied>>
    BY <1>2 DEF Match
  <1>3. ASSUME NEW w \in Workers, NEW t \in Trades, NEW side \in Sides,
               ReleaseHold(w, t, side) \/ ReleaseHoldFails(w, t, side)
        PROVE  UNCHANGED <<live, total, ledger, applied>>
    BY <1>3 DEF ReleaseHold, ReleaseHoldFails
  <1>4. ASSUME NEW w \in Workers, NEW t \in Trades, NEW inserted \in BOOLEAN,
               QueueSettlement(w, t, inserted)
        PROVE  UNCHANGED <<live, total, ledger, applied>>
    BY <1>4 DEF QueueSettlement
  <1>5. ASSUME NEW w \in Workers, ProcessQueue(w) \/ ProcessQueueReadFails(w) \/ Drained(w)
        PROVE  UNCHANGED <<live, total, ledger, applied>>
    BY <1>5 DEF ProcessQueue, ProcessQueueReadFails, BeginProcessQueue, Drained
  <1>6. ASSUME NEW w \in Workers, NEW job \in batch[w],
               SettleFails(w, job) \/ SettleAndRetryMarkFail(w, job)
        PROVE  UNCHANGED <<live, total, ledger, applied>>
    BY <1>6 DEF SettleFails, SettleAndRetryMarkFail
  <1>7. CASE Crash
    BY <1>7 DEF Crash
  <1>8. CASE UNCHANGED vars
    BY <1>8 DEF vars
  <1>9. QED
    BY <1>1, <1>2, <1>3, <1>4, <1>5, <1>6, <1>7, <1>8 DEF Next, Work

-------------------------------------------------------------------------------
(* Exactly-once settlement *)

(* For any number of retries, crashes, concurrent ProcessQueue callers and     *)
(* lost commit answers, the legs of a trade are committed at most once, and    *)
(* exactly once when its ledger entries exist: the primary key of              *)
(* ledger_entries makes executeSettlementTransaction idempotent.               *)
THEOREM ExactlyOnce == Spec => []SettledOnce
  <1>1. Init => SettledOnce
    BY DEF Init, SettledOnce, Posted
  <1>2. TypeOK /\ SettledOnce /\ [Next]_vars => SettledOnce'
    <2> SUFFICES ASSUME TypeOK, SettledOnce, [Next]_vars PROVE SettledOnce'
      OBVIOUS
    <2>1. ASSUME NEW t \in Trades, Commit(t) PROVE SettledOnce'
      <3>1. \A u \in Trades : Posted(u)' <=> (Posted(u) \/ u = t)
        BY <2>1, CommitSettles DEF Commit
      <3>2. \A u \in Trades : applied'[u] = IF u = t THEN applied[u] + 1 ELSE applied[u]
        BY <2>1 DEF Commit, TypeOK
      <3>3. applied[t] = 0
        BY <2>1 DEF Commit, SettledOnce
      <3>4. QED
        BY <3>1, <3>2, <3>3 DEF SettledOnce
    <2>2. CASE UNCHANGED <<live, total, ledger, applied>>
      BY <2>2 DEF SettledOnce, Posted
    <2>3. QED
      BY <2>1, <2>2, StepCommits
  <1>3. QED
    BY <1>1, <1>2, TypeCorrect, PTL DEF Spec

-------------------------------------------------------------------------------
(* Refinement *)

(* The engine with its queues, retries, faults and crashes implements          *)
(* AtomicSettlement: seen through the balances totals and the set of posted    *)
(* trades, every step settles one new trade completely or changes nothing.     *)
THEOREM SettlementImplements == Spec => ImplementsAtomicSettlement
  <1>1. Init => Abstract!Init
    <2> SUFFICES ASSUME Init PROVE Abstract!Init
      OBVIOUS
    <2>1. Settled = {}
      BY DEF Init, Settled, Posted
    <2>2. QED
      BY <2>1 DEF Init, Abstract!Init
  <1>2. TypeOK /\ [Next]_vars => [Abstract!Next]_(Abstract!vars)
    <2> SUFFICES ASSUME TypeOK, [Next]_vars PROVE [Abstract!Next]_(Abstract!vars)
      OBVIOUS
    <2>1. ASSUME NEW t \in Trades, Commit(t) PROVE Abstract!Settle(t)
      <3>1. t \notin Settled
        BY <2>1 DEF Commit, Settled
      <3>2. Settled' = Settled \cup {t}
        BY <2>1, CommitSettles DEF Commit
      <3>3. QED
        BY <2>1, <3>1, <3>2 DEF Commit, Abstract!Settle
    <2>2. CASE UNCHANGED <<live, total, ledger, applied>>
      <3>1. Settled' = Settled
        BY <2>2 DEF Settled, Posted
      <3>2. QED
        BY <2>2, <3>1 DEF Abstract!vars
    <2>3. QED
      BY <2>1, <2>2, StepCommits DEF Abstract!Next
  <1>3. QED
    BY <1>1, <1>2, TypeCorrect, PTL DEF Spec, ImplementsAtomicSettlement, Abstract!Spec

-------------------------------------------------------------------------------
(* Durability of the outbox *)

LEMMA AfterErrorKeeps ==
    ASSUME NEW row, NEW job, row.status # "NONE"
    PROVE  AfterError(row, job).status # "NONE"
  BY DEF AfterError

(* A row of settlements_queue is removed only in the transaction that posts the *)
(* ledger entries of its trade, which were absent before: no failure, retry or  *)
(* crash loses an outbox row.                                                   *)
THEOREM OutboxRowsLeaveBySettling == Spec => OutboxRowLeavesBySettling
  <1> DEFINE Leaves == \A t \in Trades :
                           outbox[t].status # "NONE" /\ outbox'[t].status = "NONE"
                           => ~Posted(t) /\ Posted(t)'
  <1>1. TypeOK /\ [Next]_vars => [Leaves]_vars
    <2> SUFFICES ASSUME TypeOK, [Next]_vars, NEW t \in Trades,
                        outbox[t].status # "NONE", outbox'[t].status = "NONE"
                 PROVE  ~Posted(t) /\ Posted(t)'
      BY DEF TypeOK
    <2> USE DEF db, process, ghosts
    <2>1. ASSUME NEW u \in Trades, Commit(u) PROVE ~Posted(t) /\ Posted(t)'
      <3>1. t = u
        BY <2>1 DEF Commit, TypeOK
      <3>2. QED
        BY <2>1, <3>1, CommitSettles DEF Commit
    <2>2. ASSUME NEW w \in Workers, NEW job \in batch[w],
                 Settle(w, job) \/ SettleAnswerLost(w, job)
          PROVE  ~Posted(t) /\ Posted(t)'
      <3>1. job.trade \in Trades
        BY DEF TypeOK, Job
      <3>2. QED
        BY <2>1, <2>2, <3>1 DEF Settle, SettleAnswerLost
    <2>3. ASSUME NEW w \in Workers, NEW job \in batch[w], SettleFails(w, job) PROVE FALSE
      BY <2>3, AfterErrorKeeps DEF SettleFails, TypeOK, Job
    <2>4. ASSUME NEW w \in Workers, NEW job \in batch[w], SettleAndRetryMarkFail(w, job)
          PROVE FALSE
      BY <2>4 DEF SettleAndRetryMarkFail
    <2>5. ASSUME NEW w \in Workers, NEW u \in Trades, NEW inserted \in BOOLEAN,
                 QueueSettlement(w, u, inserted)
          PROVE FALSE
      BY <2>5 DEF QueueSettlement, TypeOK
    <2>6. ASSUME NEW w \in Workers, NEW u \in Trades, NEW side \in Sides,
                 ReleaseHold(w, u, side) \/ ReleaseHoldFails(w, u, side)
          PROVE FALSE
      BY <2>6 DEF ReleaseHold, ReleaseHoldFails
    <2>7. ASSUME NEW w \in Workers, ProcessQueue(w) \/ ProcessQueueReadFails(w) \/ Drained(w)
          PROVE FALSE
      BY <2>7 DEF ProcessQueue, ProcessQueueReadFails, BeginProcessQueue, Drained
    <2>8. ASSUME NEW w \in Workers, NEW ts \in SUBSET Trades, Match(w, ts) PROVE FALSE
      BY <2>8 DEF Match
    <2>9. ~Crash
      BY DEF Crash
    <2>10. ~UNCHANGED vars
      BY DEF vars
    <2>11. QED
      BY <2>2, <2>3, <2>4, <2>5, <2>6, <2>7, <2>8, <2>9, <2>10 DEF Next, Work
  <1>2. QED
    BY <1>1, TypeCorrect, PTL DEF Spec, OutboxRowLeavesBySettling

(* The table keeps its columns, and failures are counted up. *)
LEMMA OutboxStaysReady ==
    ASSUME [Next]_vars, TypeOK
    PROVE  /\ outboxReady' = outboxReady
           /\ faults' = faults \/ faults' = faults + 1
  <1> USE DEF db, process, ghosts, Fault
  <1> DEFINE Goal == outboxReady' = outboxReady /\ (faults' = faults \/ faults' = faults + 1)
  <1>1. ASSUME NEW w \in Workers, NEW job \in batch[w],
               \/ Settle(w, job) \/ SettleFails(w, job)
               \/ SettleAndRetryMarkFail(w, job) \/ SettleAnswerLost(w, job)
        PROVE  Goal
    BY <1>1 DEF Settle, SettleFails, SettleAndRetryMarkFail, SettleAnswerLost, Commit
  <1>2. ASSUME NEW w \in Workers, NEW t \in Trades, NEW side \in Sides,
               ReleaseHold(w, t, side) \/ ReleaseHoldFails(w, t, side)
        PROVE  Goal
    BY <1>2 DEF ReleaseHold, ReleaseHoldFails
  <1>3. ASSUME NEW w \in Workers, NEW t \in Trades, NEW inserted \in BOOLEAN,
               QueueSettlement(w, t, inserted)
        PROVE  Goal
    BY <1>3 DEF QueueSettlement
  <1>4. ASSUME NEW w \in Workers, ProcessQueue(w) \/ ProcessQueueReadFails(w) \/ Drained(w)
        PROVE  Goal
    BY <1>4 DEF ProcessQueue, ProcessQueueReadFails, BeginProcessQueue, Drained
  <1>5. ASSUME NEW w \in Workers, NEW ts \in SUBSET Trades, Match(w, ts) PROVE Goal
    BY <1>5 DEF Match
  <1>6. ASSUME Crash \/ UNCHANGED vars PROVE Goal
    BY <1>6 DEF Crash, vars
  <1>7. QED
    BY <1>1, <1>2, <1>3, <1>4, <1>5, <1>6 DEF Next, Work

(* Steps add trades to queued only in QueueSettlement. *)
LEMMA QueuedGrows ==
    ASSUME [Next]_vars, faults' = 0, outboxReady, TypeOK
    PROVE  \/ queued' = queued
           \/ \E t \in Trades : /\ queued' = queued \cup {t}
                                /\ ledger' = ledger
                                /\ outbox' = [outbox EXCEPT ![t] = [status |-> "PENDING", retries |-> 0]]
  <1> USE DEF db, process, ghosts
  <1>0. ~Fault
    BY DEF Fault, TypeOK
  <1>1. ASSUME NEW w \in Workers, NEW t \in Trades, NEW inserted \in BOOLEAN,
               QueueSettlement(w, t, inserted)
        PROVE  /\ queued' = queued \cup {t}
               /\ ledger' = ledger
               /\ outbox' = [outbox EXCEPT ![t] = [status |-> "PENDING", retries |-> 0]]
    BY <1>0, <1>1 DEF QueueSettlement
  <1>2. ASSUME NEW w \in Workers, NEW ts \in SUBSET Trades, Match(w, ts) PROVE queued' = queued
    BY <1>2 DEF Match
  <1>3. ASSUME NEW w \in Workers, NEW t \in Trades, NEW side \in Sides,
               ReleaseHold(w, t, side) \/ ReleaseHoldFails(w, t, side)
        PROVE  queued' = queued
    BY <1>3 DEF ReleaseHold, ReleaseHoldFails
  <1>4. ASSUME NEW w \in Workers, ProcessQueue(w) \/ ProcessQueueReadFails(w) \/ Drained(w)
        PROVE  queued' = queued
    BY <1>4 DEF ProcessQueue, ProcessQueueReadFails, BeginProcessQueue, Drained
  <1>5. ASSUME NEW w \in Workers, NEW job \in batch[w],
               \/ Settle(w, job) \/ SettleFails(w, job)
               \/ SettleAndRetryMarkFail(w, job) \/ SettleAnswerLost(w, job)
        PROVE  queued' = queued
    BY <1>5 DEF Settle, SettleFails, SettleAndRetryMarkFail, SettleAnswerLost
  <1>6. ASSUME Crash \/ UNCHANGED vars PROVE queued' = queued
    BY <1>6 DEF Crash, vars
  <1>7. QED
    BY <1>1, <1>2, <1>3, <1>4, <1>5, <1>6 DEF Next, Work

(* On a settlements_queue that has the column the INSERT of QueueSettlement     *)
(* names, and until a SQL call fails, a crash at any point after                *)
(* QueueSettlement returned loses no trade: it is settled or its outbox row is  *)
(* still in the table.                                                          *)
THEOREM OutboxDurable == Spec => []OutboxSurvivesCrash
  <1>1. Init => OutboxSurvivesCrash
    BY DEF Init, OutboxSurvivesCrash, QueuedJobDurable
  <1> DEFINE Leaves == \A t \in Trades :
                           outbox[t].status # "NONE" /\ outbox'[t].status = "NONE"
                           => ~Posted(t) /\ Posted(t)'
  <1>2. TypeOK /\ TypeOK' /\ OutboxSurvivesCrash /\ [Next]_vars /\ [Leaves]_vars
        => OutboxSurvivesCrash'
    <2> SUFFICES ASSUME TypeOK, TypeOK', OutboxSurvivesCrash, [Next]_vars, [Leaves]_vars,
                        outboxReady', faults' = 0, NEW t \in queued'
                 PROVE  (Posted(t) \/ outbox[t].status # "NONE")'
      BY DEF OutboxSurvivesCrash, QueuedJobDurable
    <2>0. outboxReady /\ faults = 0 /\ QueuedJobDurable
      <3>1. outboxReady' = outboxReady
        BY OutboxStaysReady, Zenon
      <3>2. faults' = faults \/ faults' = faults + 1
        BY OutboxStaysReady, Zenon
      <3>3. faults = 0
        BY <3>2 DEF TypeOK
      <3>4. outboxReady
        BY <3>1, Zenon
      <3>5. QED
        BY <3>3, <3>4 DEF OutboxSurvivesCrash
    <2>1. t \in Trades
      BY DEF TypeOK
    <2>2. Posted(t) => Posted(t)'
      <3>1. ledger \subseteq ledger'
        BY StepCommits DEF Commit
      <3>2. QED
        BY <3>1 DEF Posted
    <2>3. CASE t \in queued
      <3>1. Posted(t) \/ outbox[t].status # "NONE"
        BY <2>0, <2>3 DEF QueuedJobDurable
      <3>2. outbox[t].status # "NONE" => (Posted(t)' \/ outbox'[t].status # "NONE")
        BY <2>1 DEF vars, db
      <3>3. QED
        BY <2>2, <3>1, <3>2
    <2>4. CASE t \notin queued
      <3>1. outbox' = [outbox EXCEPT ![t] = [status |-> "PENDING", retries |-> 0]]
        BY <2>0, <2>4, QueuedGrows
      <3>2. outbox'[t].status = "PENDING"
        BY <2>1, <3>1 DEF TypeOK
      <3>3. QED
        BY <3>2
    <2>5. QED
      BY <2>3, <2>4
  <1>3. Spec => [][Leaves]_vars
    BY OutboxRowsLeaveBySettling DEF OutboxRowLeavesBySettling
  <1>4. QED
    BY <1>1, <1>2, <1>3, TypeCorrect, PTL DEF Spec

-------------------------------------------------------------------------------
(* Agreement of the columns of a balances row *)

(* The settlement transaction moves available and reserved by what it moves the *)
(* total, provided it takes from the reservation what it takes from the total.  *)
LEMMA MovesAgree ==
    ASSUME NEW t \in Trades, NEW r \in Rows, NEW exists,
           BuyerQuoteReservedDebit(t) = BuyerQuoteTotalDebit(t)
    PROVE  AvailableMove(t, r, exists) + ReservedMove(t, r, exists) = TotalMove(t, r, exists)
  <1> DEFINE x7 == Update(r, BuyerRow(t), exists, BuyerQuoteReservedDebit(t))
             x8 == Update(r, SellerRow(t), WithBuyerBase(t, exists), Exec[t].qty)
             av == AvailableMove(t, r, exists)
  <1>1. x7 \in Int /\ x8 \in Int /\ av \in Int
    BY AmountTypes, ExecFields, MoveTypes DEF Update
  <1>2. ReservedMove(t, r, exists) = 0 - x7 - x8
    BY DEF ReservedMove
  <1>3. TotalMove(t, r, exists) = av - x7 - x8
    BY DEF TotalMove
  <1> HIDE DEF x7, x8, av
  <1>4. av + (0 - x7 - x8) = av - x7 - x8
    BY <1>1
  <1>5. QED
    BY <1>2, <1>3, <1>4 DEF av

(* When every buyer pays the fee it was charged a hold for (in the quote asset, *)
(* without the VLX discount), available + reserved = total in every row of      *)
(* balances, through hold releases, settlements, faults and crashes.            *)
THEOREM ColumnsReconcile ==
    ASSUME \A t \in Trades : BuyerQuoteReservedDebit(t) = BuyerQuoteTotalDebit(t)
    PROVE  Spec => []RowsReconcile
  <1>1. Init => RowsReconcile
    BY SettlementAssumption DEF Init, RowsReconcile
  <1>2. TypeOK /\ RowsReconcile /\ [Next]_vars => RowsReconcile'
    <2> SUFFICES ASSUME TypeOK, RowsReconcile, [Next]_vars, NEW r \in Rows
                 PROVE  (available[r] + reserved[r] = total[r])'
      BY DEF RowsReconcile
    <2> USE DEF db, process, ghosts
    <2>0. available[r] + reserved[r] = total[r]
          /\ available[r] \in Int /\ reserved[r] \in Int /\ total[r] \in Int
      BY DEF RowsReconcile, TypeOK
    <2>1. ASSUME NEW t \in Trades, Commit(t) PROVE (available[r] + reserved[r] = total[r])'
      <3> DEFINE a == AvailableMove(t, r, live)
                 b == ReservedMove(t, r, live)
                 c == TotalMove(t, r, live)
      <3>1. a \in Int /\ b \in Int /\ c \in Int /\ a + b = c
        BY MoveTypes, MovesAgree
      <3>2. available'[r] = available[r] + a /\ reserved'[r] = reserved[r] + b
            /\ total'[r] = total[r] + c
        BY <2>1 DEF Commit
      <3> HIDE DEF a, b, c
      <3>3. QED
        BY <2>0, <3>1, <3>2
    <2>2. ASSUME NEW w \in Workers, NEW t \in Trades, NEW side \in Sides, ReleaseHold(w, t, side)
          PROVE  (available[r] + reserved[r] = total[r])'
      <3> DEFINE row == HoldRow(t, side)
                 amt == Released(row, HoldAmount(t, side))
      <3>1. row \in Rows /\ amt \in Int
        BY ReleasedType
      <3>2. /\ available' = [available EXCEPT ![row] = @ + amt]
            /\ reserved' = [reserved EXCEPT ![row] = @ - amt]
            /\ total' = total
        BY <2>2 DEF ReleaseHold
      <3> HIDE DEF row, amt
      <3>3. QED
        BY <2>0, <3>1, <3>2 DEF TypeOK
    <2>3. ASSUME UNCHANGED <<available, reserved, total>>
          PROVE  (available[r] + reserved[r] = total[r])'
      BY <2>0, <2>3
    <2>4. ASSUME NEW w \in Workers, NEW job \in batch[w],
                 Settle(w, job) \/ SettleAnswerLost(w, job)
          PROVE  (available[r] + reserved[r] = total[r])'
      <3>1. job.trade \in Trades
        BY DEF TypeOK, Job
      <3>2. QED
        BY <2>1, <2>4, <3>1 DEF Settle, SettleAnswerLost
    <2>5. ASSUME NEW w \in Workers, NEW job \in batch[w],
                 SettleFails(w, job) \/ SettleAndRetryMarkFail(w, job)
          PROVE  UNCHANGED <<available, reserved, total>>
      BY <2>5 DEF SettleFails, SettleAndRetryMarkFail
    <2>6. ASSUME NEW w \in Workers, NEW t \in Trades, NEW inserted \in BOOLEAN,
                 QueueSettlement(w, t, inserted)
          PROVE  UNCHANGED <<available, reserved, total>>
      BY <2>6 DEF QueueSettlement
    <2>7. ASSUME NEW w \in Workers, NEW t \in Trades, NEW side \in Sides,
                 ReleaseHoldFails(w, t, side)
          PROVE  UNCHANGED <<available, reserved, total>>
      BY <2>7 DEF ReleaseHoldFails
    <2>8. ASSUME NEW w \in Workers, ProcessQueue(w) \/ ProcessQueueReadFails(w) \/ Drained(w)
          PROVE  UNCHANGED <<available, reserved, total>>
      BY <2>8 DEF ProcessQueue, ProcessQueueReadFails, BeginProcessQueue, Drained
    <2>9. ASSUME NEW w \in Workers, NEW ts \in SUBSET Trades, Match(w, ts)
          PROVE  UNCHANGED <<available, reserved, total>>
      BY <2>9 DEF Match
    <2>10. ASSUME Crash \/ UNCHANGED vars PROVE UNCHANGED <<available, reserved, total>>
      BY <2>10 DEF Crash, vars
    <2>11. QED
      BY <2>2, <2>3, <2>4, <2>5, <2>6, <2>7, <2>8, <2>9, <2>10 DEF Next, Work
  <1>3. QED
    BY <1>1, <1>2, TypeCorrect, PTL DEF Spec

-------------------------------------------------------------------------------
(* What the ledger adds up to *)

EntryAmount  == [e \in Entry |-> e.amount]
Booked(S, R) == SumFunctionOnSet(EntryAmount, S \cap R)
Part(R, e)   == IF e \in R THEN e.amount ELSE 0

OnRow(r)      == {e \in Entry : e.row = r}
InAsset(t, a) == {e \in Entry : e.id[2] = t /\ e.row[2] = a}

LEMMA AddPosting ==
    ASSUME NEW S, S \subseteq Entry, IsFiniteSet(S), NEW R, NEW e \in Entry, e \notin S
    PROVE  /\ IsFiniteSet(S \cup {e}) /\ S \cup {e} \subseteq Entry
           /\ Booked(S \cup {e}, R) = Booked(S, R) + Part(R, e)
           /\ Booked(S, R) \in Int /\ Part(R, e) \in Int
  <1>1. \A y \in S \cup {e} : EntryAmount[y] \in Int /\ EntryAmount[y] = y.amount
    BY DEF EntryAmount, Entry
  <1>2. IsFiniteSet(S \cup {e})
    BY FS_AddElement
  <1>3. Booked(S \cup {e}, R) = Booked(S, R) + (IF e \in R THEN EntryAmount[e] ELSE 0)
    <2>1. \A y \in S \cup {e} : EntryAmount[y] \in Int
      BY <1>1
    <2>2. PICK f : f = EntryAmount
      OBVIOUS
    <2>3. \A y \in S \cup {e} : f[y] \in Int
      BY <2>1, <2>2
    <2>4. PICK T, U : T = (S \cup {e}) \cap R /\ U = S \cap R
      OBVIOUS
    <2>5. SumFunctionOnSet(f, T) = SumFunctionOnSet(f, U) + (IF e \in R THEN f[e] ELSE 0)
      BY <2>3, <2>4, SumWithin
    <2> QED
      BY <2>2, <2>4, <2>5 DEF Booked
  <1>4. Booked(S, R) \in Int
    <2>1. IsFiniteSet(S \cap R)
      BY FS_Subset
    <2> QED
      BY <1>1, <2>1, SumType DEF Booked
  <1> QED
    BY <1>1, <1>2, <1>3, <1>4 DEF Part

(* The postings of one trade. *)
BuyerQuote(t)  == Posting("b_q", t, Exec[t].buyer, Quote, 0 - BuyerQuoteTotalDebit(t))
BuyerBase(t)   == Posting("b_b", t, Exec[t].buyer, Base, Exec[t].qty)
SellerBase(t)  == Posting("s_b", t, Exec[t].seller, Base, 0 - Exec[t].qty)
SellerQuote(t) == Posting("s_q", t, Exec[t].seller, Quote, SellerCredit(t))
FeeOfBuyer(t)  == Posting("p_fee_b", t, Platform, Exec[t].buyerFeeAsset, Exec[t].buyerFee)
FeeOfSeller(t) == Posting("p_fee_s", t, Platform, Exec[t].sellerFeeAsset, Exec[t].sellerFee)
BuyerFee(t)    == Posting("b_fee", t, Exec[t].buyer, Exec[t].buyerFeeAsset, 0 - Exec[t].buyerFee)
SellerFee(t)   == Posting("s_fee", t, Exec[t].seller, Exec[t].sellerFeeAsset, 0 - Exec[t].sellerFee)

(* What they add to the part R of the ledger. *)
Added(t, R) ==
    Part(R, BuyerQuote(t)) + Part(R, BuyerBase(t)) + Part(R, SellerBase(t))
    + Part(R, SellerQuote(t)) + Part(R, FeeOfBuyer(t)) + Part(R, FeeOfSeller(t))
    + (IF BuyerPaysQuoteFee(t) THEN 0 ELSE Part(R, BuyerFee(t)))
    + (IF SellerPaysQuoteFee(t) THEN 0 ELSE Part(R, SellerFee(t)))

LEMMA PostingsOfTrade ==
    ASSUME NEW t \in Trades
    PROVE  /\ BuyerQuote(t) \in Entry /\ BuyerQuote(t).id = <<"b_q", t>>
           /\ BuyerBase(t) \in Entry /\ BuyerBase(t).id = <<"b_b", t>>
           /\ SellerBase(t) \in Entry /\ SellerBase(t).id = <<"s_b", t>>
           /\ SellerQuote(t) \in Entry /\ SellerQuote(t).id = <<"s_q", t>>
           /\ FeeOfBuyer(t) \in Entry /\ FeeOfBuyer(t).id = <<"p_fee_b", t>>
           /\ FeeOfSeller(t) \in Entry /\ FeeOfSeller(t).id = <<"p_fee_s", t>>
           /\ BuyerFee(t) \in Entry /\ BuyerFee(t).id = <<"b_fee", t>>
           /\ SellerFee(t) \in Entry /\ SellerFee(t).id = <<"s_fee", t>>
  <1>1. /\ Exec[t].buyer \in Accounts /\ Exec[t].seller \in Accounts
        /\ Platform \in Accounts /\ Base \in Assets /\ Quote \in Assets
    BY ExecFields, SettlementAssumption DEF Accounts
  <1>2. /\ 0 - BuyerQuoteTotalDebit(t) \in Int /\ SellerCredit(t) \in Int
        /\ Exec[t].qty \in Int /\ 0 - Exec[t].qty \in Int
        /\ Exec[t].buyerFee \in Int /\ 0 - Exec[t].buyerFee \in Int
        /\ Exec[t].sellerFee \in Int /\ 0 - Exec[t].sellerFee \in Int
    BY ExecFields, AmountTypes
  <1>3. {"b_q", "b_fee", "b_b", "s_b", "s_q", "s_fee", "p_fee_b", "p_fee_s"} \subseteq EntryKind
    BY DEF EntryKind
  <1>4. ASSUME NEW kind \in EntryKind, NEW user \in Accounts, NEW asset \in Assets,
               NEW amount \in Int
        PROVE  /\ Posting(kind, t, user, asset, amount) \in Entry
               /\ Posting(kind, t, user, asset, amount).id = <<kind, t>>
    BY <1>4 DEF Posting, Entry, Rows
  <1>5. BuyerQuote(t) \in Entry /\ BuyerQuote(t).id = <<"b_q", t>>
    BY <1>1, <1>2, <1>3, <1>4 DEF BuyerQuote
  <1>6. BuyerBase(t) \in Entry /\ BuyerBase(t).id = <<"b_b", t>>
    BY <1>1, <1>2, <1>3, <1>4 DEF BuyerBase
  <1>7. SellerBase(t) \in Entry /\ SellerBase(t).id = <<"s_b", t>>
    BY <1>1, <1>2, <1>3, <1>4 DEF SellerBase
  <1>8. SellerQuote(t) \in Entry /\ SellerQuote(t).id = <<"s_q", t>>
    BY <1>1, <1>2, <1>3, <1>4 DEF SellerQuote
  <1>9. FeeOfBuyer(t) \in Entry /\ FeeOfBuyer(t).id = <<"p_fee_b", t>>
    BY <1>1, <1>2, <1>3, <1>4, ExecFields DEF FeeOfBuyer
  <1>10. FeeOfSeller(t) \in Entry /\ FeeOfSeller(t).id = <<"p_fee_s", t>>
    BY <1>1, <1>2, <1>3, <1>4, ExecFields DEF FeeOfSeller
  <1>11. BuyerFee(t) \in Entry /\ BuyerFee(t).id = <<"b_fee", t>>
    BY <1>1, <1>2, <1>3, <1>4, ExecFields DEF BuyerFee
  <1>12. SellerFee(t) \in Entry /\ SellerFee(t).id = <<"s_fee", t>>
    BY <1>1, <1>2, <1>3, <1>4, ExecFields DEF SellerFee
  <1> QED
    BY <1>5, <1>6, <1>7, <1>8, <1>9, <1>10, <1>11, <1>12

(* U holds one entry more than S, and books that much more. *)
OneMore(S, e, U, R) ==
    /\ IsFiniteSet(U) /\ U \subseteq Entry
    /\ Booked(U, R) = Booked(S, R) + Part(R, e)
    /\ Booked(S, R) \in Int /\ Part(R, e) \in Int

LEMMA AddNamed ==
    ASSUME NEW S, S \subseteq Entry, IsFiniteSet(S), NEW R, NEW e \in Entry, e \notin S,
           NEW U, U = S \cup {e}
    PROVE  OneMore(S, e, U, R)
  <1>1. /\ IsFiniteSet(S \cup {e}) /\ S \cup {e} \subseteq Entry
        /\ Booked(S \cup {e}, R) = Booked(S, R) + Part(R, e)
        /\ Booked(S, R) \in Int /\ Part(R, e) \in Int
    BY AddPosting
  <1> QED
    BY <1>1 DEF OneMore

(* The entries of a new trade are new and add up to Added. *)
LEMMA AddEntries ==
    ASSUME NEW t \in Trades, NEW S, S \subseteq Entry, IsFiniteSet(S),
           \A e \in S : e.id[2] # t, NEW R
    PROVE  /\ IsFiniteSet(S \cup Entries(t))
           /\ Booked(S \cup Entries(t), R) = Booked(S, R) + Added(t, R)
           /\ Booked(S, R) \in Int /\ Added(t, R) \in Int
  <1>1. PICK p1, p2, p3, p4, p5, p6, p7, p8 :
            /\ p1 = BuyerQuote(t) /\ p2 = BuyerBase(t) /\ p3 = SellerBase(t)
            /\ p4 = SellerQuote(t) /\ p5 = FeeOfBuyer(t) /\ p6 = FeeOfSeller(t)
            /\ p7 = BuyerFee(t) /\ p8 = SellerFee(t)
    OBVIOUS
  <1>2. /\ {p1, p2, p3, p4, p5, p6, p7, p8} \subseteq Entry
        /\ p1.id = <<"b_q", t>> /\ p2.id = <<"b_b", t>> /\ p3.id = <<"s_b", t>>
        /\ p4.id = <<"s_q", t>> /\ p5.id = <<"p_fee_b", t>> /\ p6.id = <<"p_fee_s", t>>
        /\ p7.id = <<"b_fee", t>> /\ p8.id = <<"s_fee", t>>
    BY <1>1, PostingsOfTrade
  <1>3. \A e \in S : e \notin {p1, p2, p3, p4, p5, p6, p7, p8}
    BY <1>2
  <1>4. /\ p2 # p1
        /\ p3 \notin {p1, p2}
        /\ p4 \notin {p1, p2, p3}
        /\ p5 \notin {p1, p2, p3, p4}
        /\ p6 \notin {p1, p2, p3, p4, p5}
        /\ p7 \notin {p1, p2, p3, p4, p5, p6}
        /\ p8 \notin {p1, p2, p3, p4, p5, p6, p7}
    BY <1>2
  <1>5. PICK S1, S2, S3, S4, S5, S6 :
            /\ S1 = S \cup {p1} /\ S2 = S1 \cup {p2} /\ S3 = S2 \cup {p3}
            /\ S4 = S3 \cup {p4} /\ S5 = S4 \cup {p5} /\ S6 = S5 \cup {p6}
    OBVIOUS
  <1>6. PICK S7 : S7 = IF BuyerPaysQuoteFee(t) THEN S6 ELSE S6 \cup {p7}
    OBVIOUS
  <1>7. PICK S8 : S8 = IF SellerPaysQuoteFee(t) THEN S7 ELSE S7 \cup {p8}
    OBVIOUS
  <1>8. S \cup Entries(t) = S8
    <2>1. Entries(t) = {p1, p2, p3, p4, p5, p6}
                           \cup (IF BuyerPaysQuoteFee(t) THEN {} ELSE {p7})
                           \cup (IF SellerPaysQuoteFee(t) THEN {} ELSE {p8})
      BY <1>1
      DEF Entries, BuyerQuote, BuyerBase, SellerBase, SellerQuote, FeeOfBuyer, FeeOfSeller,
          BuyerFee, SellerFee
    <2>2. S6 = S \cup {p1, p2, p3, p4, p5, p6}
      BY <1>5
    <2>3. S7 = S6 \cup (IF BuyerPaysQuoteFee(t) THEN {} ELSE {p7})
      BY <1>6
    <2>4. S8 = S7 \cup (IF SellerPaysQuoteFee(t) THEN {} ELSE {p8})
      BY <1>7
    <2> QED
      BY <2>1, <2>2, <2>3, <2>4
  <1>9. /\ p1 \notin S /\ p2 \notin S1 /\ p3 \notin S2 /\ p4 \notin S3 /\ p5 \notin S4
        /\ p6 \notin S5 /\ p7 \notin S6 /\ p8 \notin S7
    BY <1>3, <1>4, <1>5, <1>6
  <1>10. /\ p1 \in Entry /\ p2 \in Entry /\ p3 \in Entry /\ p4 \in Entry
         /\ p5 \in Entry /\ p6 \in Entry /\ p7 \in Entry /\ p8 \in Entry
    BY <1>2
  <1>11. /\ IsFiniteSet(S1) /\ S1 \subseteq Entry /\ Booked(S1, R) = Booked(S, R) + Part(R, p1)
         /\ Booked(S, R) \in Int /\ Part(R, p1) \in Int
    <2>1. p1 \in Entry /\ p1 \notin S /\ S1 = S \cup {p1}
      BY <1>5, <1>9, <1>10
    <2>2. OneMore(S, p1, S1, R)
      BY <2>1, AddNamed
    <2> QED
      BY <2>2 DEF OneMore
  <1>12. /\ IsFiniteSet(S2) /\ S2 \subseteq Entry /\ Booked(S2, R) = Booked(S1, R) + Part(R, p2)
         /\ Part(R, p2) \in Int
    <2>1. p2 \in Entry /\ p2 \notin S1 /\ S2 = S1 \cup {p2}
      BY <1>5, <1>9, <1>10
    <2>2. IsFiniteSet(S1) /\ S1 \subseteq Entry
      BY <1>11
    <2>3. OneMore(S1, p2, S2, R)
      BY <2>1, <2>2, AddNamed
    <2> QED
      BY <2>3 DEF OneMore
  <1>13. /\ IsFiniteSet(S3) /\ S3 \subseteq Entry /\ Booked(S3, R) = Booked(S2, R) + Part(R, p3)
         /\ Part(R, p3) \in Int
    <2>1. p3 \in Entry /\ p3 \notin S2 /\ S3 = S2 \cup {p3}
      BY <1>5, <1>9, <1>10
    <2>2. IsFiniteSet(S2) /\ S2 \subseteq Entry
      BY <1>12
    <2>3. OneMore(S2, p3, S3, R)
      BY <2>1, <2>2, AddNamed
    <2> QED
      BY <2>3 DEF OneMore
  <1>14. /\ IsFiniteSet(S4) /\ S4 \subseteq Entry /\ Booked(S4, R) = Booked(S3, R) + Part(R, p4)
         /\ Part(R, p4) \in Int
    <2>1. p4 \in Entry /\ p4 \notin S3 /\ S4 = S3 \cup {p4}
      BY <1>5, <1>9, <1>10
    <2>2. IsFiniteSet(S3) /\ S3 \subseteq Entry
      BY <1>13
    <2>3. OneMore(S3, p4, S4, R)
      BY <2>1, <2>2, AddNamed
    <2> QED
      BY <2>3 DEF OneMore
  <1>15. /\ IsFiniteSet(S5) /\ S5 \subseteq Entry /\ Booked(S5, R) = Booked(S4, R) + Part(R, p5)
         /\ Part(R, p5) \in Int
    <2>1. p5 \in Entry /\ p5 \notin S4 /\ S5 = S4 \cup {p5}
      BY <1>5, <1>9, <1>10
    <2>2. IsFiniteSet(S4) /\ S4 \subseteq Entry
      BY <1>14
    <2>3. OneMore(S4, p5, S5, R)
      BY <2>1, <2>2, AddNamed
    <2> QED
      BY <2>3 DEF OneMore
  <1>16. /\ IsFiniteSet(S6) /\ S6 \subseteq Entry /\ Booked(S6, R) = Booked(S5, R) + Part(R, p6)
         /\ Part(R, p6) \in Int
    <2>1. p6 \in Entry /\ p6 \notin S5 /\ S6 = S5 \cup {p6}
      BY <1>5, <1>9, <1>10
    <2>2. IsFiniteSet(S5) /\ S5 \subseteq Entry
      BY <1>15
    <2>3. OneMore(S5, p6, S6, R)
      BY <2>1, <2>2, AddNamed
    <2> QED
      BY <2>3 DEF OneMore
  <1> DEFINE b == IF BuyerPaysQuoteFee(t) THEN 0 ELSE Part(R, p7)
             s == IF SellerPaysQuoteFee(t) THEN 0 ELSE Part(R, p8)
  <1>17. /\ IsFiniteSet(S7) /\ S7 \subseteq Entry /\ Booked(S7, R) = Booked(S6, R) + b
         /\ b \in Int
    <2>1. /\ IsFiniteSet(S6 \cup {p7}) /\ S6 \cup {p7} \subseteq Entry
          /\ Booked(S6 \cup {p7}, R) = Booked(S6, R) + Part(R, p7)
          /\ Booked(S6, R) \in Int /\ Part(R, p7) \in Int
      <3>1. p7 \in Entry /\ p7 \notin S6 /\ IsFiniteSet(S6) /\ S6 \subseteq Entry
        BY <1>9, <1>10, <1>16
      <3> QED
        BY <3>1, AddPosting
    <2> QED
      BY <1>6, <1>16, <2>1
  <1>18. /\ IsFiniteSet(S8) /\ S8 \subseteq Entry /\ Booked(S8, R) = Booked(S7, R) + s
         /\ s \in Int
    <2>1. /\ IsFiniteSet(S7 \cup {p8}) /\ S7 \cup {p8} \subseteq Entry
          /\ Booked(S7 \cup {p8}, R) = Booked(S7, R) + Part(R, p8)
          /\ Booked(S7, R) \in Int /\ Part(R, p8) \in Int
      <3>1. p8 \in Entry /\ p8 \notin S7 /\ IsFiniteSet(S7) /\ S7 \subseteq Entry
        BY <1>9, <1>10, <1>17
      <3> QED
        BY <3>1, AddPosting
    <2> QED
      BY <1>7, <1>17, <2>1
  <1>19. Added(t, R) = Part(R, p1) + Part(R, p2) + Part(R, p3) + Part(R, p4) + Part(R, p5)
                       + Part(R, p6) + b + s
    BY <1>1 DEF Added
  <1> HIDE DEF b, s
  <1>20. Added(t, R) \in Int
    BY <1>11, <1>12, <1>13, <1>14, <1>15, <1>16, <1>17, <1>18, <1>19
  <1>21. Booked(S8, R) = Booked(S, R) + Added(t, R)
    BY <1>11, <1>12, <1>13, <1>14, <1>15, <1>16, <1>17, <1>18, <1>19
  <1> QED
    BY <1>8, <1>11, <1>18, <1>20, <1>21

(* Booked as the properties write it. *)
LEMMA BookedIsSum ==
    ASSUME NEW S, S \subseteq Entry, IsFiniteSet(S), NEW R, NEW T, T = S \cap R
    PROVE  SumFunction([e \in T |-> e.amount]) = Booked(S, R)
  <1> DEFINE f == [e \in T |-> e.amount]
  <1>1. IsFiniteSet(T)
    BY FS_Subset
  <1>2. \A e \in T : f[e] = EntryAmount[e]
    BY DEF EntryAmount
  <1>3. SumFunction(f) = SumFunctionOnSet(f, T)
    BY DEF SumFunction
  <1> HIDE DEF f
  <1>4. SumFunctionOnSet(f, T) = SumFunctionOnSet(EntryAmount, T)
    BY <1>1, <1>2, SumSame
  <1> QED
    BY <1>3, <1>4 DEF f, Booked

(* The rows the transaction debits exist. *)
DebitedRowsIn(t, exists) ==
    /\ BuyerRow(t) \in exists /\ SellerRow(t) \in exists
    /\ BuyerPaysQuoteFee(t) \/ <<Exec[t].buyer, Exec[t].buyerFeeAsset>> \in exists
    /\ SellerPaysQuoteFee(t) \/ <<Exec[t].seller, Exec[t].sellerFeeAsset>> \in exists

LEMMA PartOnRow ==
    ASSUME NEW t, NEW kind, NEW user, NEW asset, NEW amount, NEW r,
           Posting(kind, t, user, asset, amount) \in Entry
    PROVE  Part(OnRow(r), Posting(kind, t, user, asset, amount))
               = IF r = <<user, asset>> THEN amount ELSE 0
  BY DEF Part, OnRow, Posting

(* The transaction moves the total of a row by what it posts on it. *)
LEMMA MoveIsPosted ==
    ASSUME NEW t \in Trades, NEW r \in Rows, NEW exists, DebitedRowsIn(t, exists)
    PROVE  Added(t, OnRow(r)) = TotalMove(t, r, exists)
  <1> DEFINE x1 == IF r = <<Exec[t].buyer, Base>> THEN Exec[t].qty ELSE 0
             x2 == IF r = <<Exec[t].seller, Quote>> THEN SellerCredit(t) ELSE 0
             x3 == IF r = <<Platform, Exec[t].buyerFeeAsset>> THEN Exec[t].buyerFee ELSE 0
             x4 == IF r = <<Platform, Exec[t].sellerFeeAsset>> THEN Exec[t].sellerFee ELSE 0
             x5 == IF r = <<Exec[t].buyer, Exec[t].buyerFeeAsset>> THEN Exec[t].buyerFee ELSE 0
             x6 == IF r = <<Exec[t].seller, Exec[t].sellerFeeAsset>> THEN Exec[t].sellerFee ELSE 0
             x8 == IF r = <<Exec[t].seller, Base>> THEN Exec[t].qty ELSE 0
             x9 == IF r = <<Exec[t].buyer, Quote>> THEN BuyerQuoteTotalDebit(t) ELSE 0
             y5 == IF BuyerPaysQuoteFee(t) THEN 0 ELSE x5
             y6 == IF SellerPaysQuoteFee(t) THEN 0 ELSE x6
  <1>1. /\ x1 \in Int /\ x2 \in Int /\ x3 \in Int /\ x4 \in Int /\ x5 \in Int /\ x6 \in Int
        /\ x8 \in Int /\ x9 \in Int /\ y5 \in Int /\ y6 \in Int
    BY ExecFields, AmountTypes
  <1>2. AvailableMove(t, r, exists) = x1 + x2 + x3 + x4 - y5 - y6
    <2>1. Upsert(r, <<Exec[t].buyer, Base>>, Exec[t].qty) = x1
      BY DEF Upsert
    <2>2. Upsert(r, <<Exec[t].seller, Quote>>, SellerCredit(t)) = x2
      BY DEF Upsert
    <2>3. Upsert(r, <<Platform, Exec[t].buyerFeeAsset>>, Exec[t].buyerFee) = x3
      BY DEF Upsert
    <2>4. Upsert(r, <<Platform, Exec[t].sellerFeeAsset>>, Exec[t].sellerFee) = x4
      BY DEF Upsert
    <2>5. (IF BuyerPaysQuoteFee(t) THEN 0
           ELSE Update(r, <<Exec[t].buyer, Exec[t].buyerFeeAsset>>, exists, Exec[t].buyerFee)) = y5
      BY DEF Update, DebitedRowsIn
    <2>6. (IF SellerPaysQuoteFee(t) THEN 0
           ELSE Update(r, <<Exec[t].seller, Exec[t].sellerFeeAsset>>,
                       WithSellerQuote(t, exists), Exec[t].sellerFee)) = y6
      BY DEF Update, DebitedRowsIn, WithSellerQuote, WithBuyerBase
    <2> HIDE DEF x1, x2, x3, x4, x5, x6, x8, x9, y5, y6
    <2> QED
      BY <2>1, <2>2, <2>3, <2>4, <2>5, <2>6 DEF AvailableMove
  <1>3. TotalMove(t, r, exists) = AvailableMove(t, r, exists) - x9 - x8
    <2>1. Update(r, BuyerRow(t), exists, BuyerQuoteTotalDebit(t)) = x9
      BY DEF Update, DebitedRowsIn, BuyerRow
    <2>2. Update(r, SellerRow(t), WithBuyerBase(t, exists), Exec[t].qty) = x8
      BY DEF Update, DebitedRowsIn, SellerRow, WithBuyerBase
    <2> HIDE DEF x1, x2, x3, x4, x5, x6, x8, x9, y5, y6
    <2> QED
      BY <2>1, <2>2 DEF TotalMove
  <1>4. PICK R : R = OnRow(r)
    OBVIOUS
  <1>5. Part(R, BuyerBase(t)) = x1
    BY <1>4, PostingsOfTrade, PartOnRow DEF BuyerBase
  <1>6. Part(R, SellerQuote(t)) = x2
    BY <1>4, PostingsOfTrade, PartOnRow DEF SellerQuote
  <1>7. Part(R, FeeOfBuyer(t)) = x3
    BY <1>4, PostingsOfTrade, PartOnRow DEF FeeOfBuyer
  <1>8. Part(R, FeeOfSeller(t)) = x4
    BY <1>4, PostingsOfTrade, PartOnRow DEF FeeOfSeller
  <1>9. Part(R, BuyerFee(t)) = 0 - x5
    <2>1. Part(R, BuyerFee(t)) =
              IF r = <<Exec[t].buyer, Exec[t].buyerFeeAsset>> THEN 0 - Exec[t].buyerFee ELSE 0
      BY <1>4, PostingsOfTrade, PartOnRow DEF BuyerFee
    <2> QED
      BY <2>1
  <1>10. Part(R, SellerFee(t)) = 0 - x6
    <2>1. Part(R, SellerFee(t)) =
              IF r = <<Exec[t].seller, Exec[t].sellerFeeAsset>> THEN 0 - Exec[t].sellerFee ELSE 0
      BY <1>4, PostingsOfTrade, PartOnRow DEF SellerFee
    <2> QED
      BY <2>1
  <1>11. Part(R, SellerBase(t)) = 0 - x8
    <2>1. Part(R, SellerBase(t)) =
              IF r = <<Exec[t].seller, Base>> THEN 0 - Exec[t].qty ELSE 0
      BY <1>4, PostingsOfTrade, PartOnRow DEF SellerBase
    <2> QED
      BY <2>1
  <1>12. Part(R, BuyerQuote(t)) = 0 - x9
    <2>1. Part(R, BuyerQuote(t)) =
              IF r = <<Exec[t].buyer, Quote>> THEN 0 - BuyerQuoteTotalDebit(t) ELSE 0
      BY <1>4, PostingsOfTrade, PartOnRow DEF BuyerQuote
    <2> QED
      BY <2>1
  <1>13. /\ (IF BuyerPaysQuoteFee(t) THEN 0 ELSE Part(R, BuyerFee(t))) = 0 - y5
         /\ (IF SellerPaysQuoteFee(t) THEN 0 ELSE Part(R, SellerFee(t))) = 0 - y6
    BY <1>9, <1>10
  <1> HIDE DEF x1, x2, x3, x4, x5, x6, x8, x9, y5, y6
  <1>14. Added(t, R) = (0 - x9) + x1 + (0 - x8) + x2 + x3 + x4 + (0 - y5) + (0 - y6)
    BY <1>5, <1>6, <1>7, <1>8, <1>11, <1>12, <1>13 DEF Added
  <1> QED
    BY <1>1, <1>2, <1>3, <1>4, <1>14

(* The postings of a trade cancel out in every asset, and none of them is  *)
(* a posting of another trade.                                             *)
LEMMA PostingsCancelOut ==
    ASSUME NEW t \in Trades, NEW u \in Trades, NEW a \in Assets
    PROVE  Added(t, InAsset(u, a)) = 0
  <1>1. PICK R : R = InAsset(u, a)
    OBVIOUS
  <1>2. ASSUME NEW kind, NEW user, NEW asset, NEW amount,
               Posting(kind, t, user, asset, amount) \in Entry
        PROVE  Part(R, Posting(kind, t, user, asset, amount))
                   = IF t = u /\ a = asset THEN amount ELSE 0
    BY <1>1, <1>2 DEF Part, InAsset, Posting
  <1> DEFINE q == BuyerQuoteTotalDebit(t)
             c == SellerCredit(t)
             n == Exec[t].qty
             v == Exec[t].value
             x == Exec[t].buyerFee
             y == Exec[t].sellerFee
             fa == Exec[t].buyerFeeAsset
             ga == Exec[t].sellerFeeAsset
  <1>3. /\ q \in Int /\ c \in Int /\ n \in Int /\ v \in Int /\ x \in Int /\ y \in Int
        /\ q = v + (IF fa = Quote THEN x ELSE 0)
        /\ c = v - (IF ga = Quote THEN y ELSE 0)
        /\ Base # Quote
    BY ExecFields, AmountTypes, SettlementAssumption
    DEF BuyerQuoteTotalDebit, SellerCredit, BuyerPaysQuoteFee, SellerPaysQuoteFee
  <1>4. /\ Part(R, BuyerQuote(t)) = IF t = u /\ a = Quote THEN 0 - q ELSE 0
        /\ Part(R, BuyerBase(t)) = IF t = u /\ a = Base THEN n ELSE 0
        /\ Part(R, SellerBase(t)) = IF t = u /\ a = Base THEN 0 - n ELSE 0
        /\ Part(R, SellerQuote(t)) = IF t = u /\ a = Quote THEN c ELSE 0
    BY <1>2, PostingsOfTrade DEF BuyerQuote, BuyerBase, SellerBase, SellerQuote
  <1>5. /\ Part(R, FeeOfBuyer(t)) = IF t = u /\ a = fa THEN x ELSE 0
        /\ Part(R, FeeOfSeller(t)) = IF t = u /\ a = ga THEN y ELSE 0
        /\ Part(R, BuyerFee(t)) = IF t = u /\ a = fa THEN 0 - x ELSE 0
        /\ Part(R, SellerFee(t)) = IF t = u /\ a = ga THEN 0 - y ELSE 0
    BY <1>2, PostingsOfTrade DEF FeeOfBuyer, FeeOfSeller, BuyerFee, SellerFee
  <1>6. Added(t, R) =
            Part(R, BuyerQuote(t)) + Part(R, BuyerBase(t)) + Part(R, SellerBase(t))
            + Part(R, SellerQuote(t)) + Part(R, FeeOfBuyer(t)) + Part(R, FeeOfSeller(t))
            + (IF fa = Quote THEN 0 ELSE Part(R, BuyerFee(t)))
            + (IF ga = Quote THEN 0 ELSE Part(R, SellerFee(t)))
    BY DEF Added, BuyerPaysQuoteFee, SellerPaysQuoteFee
  <1> HIDE DEF q, c, n, v, x, y, fa, ga
  <1>7. Added(t, R) = 0
    <2>1. CASE t # u
      BY <1>4, <1>5, <1>6, <2>1
    <2>2. CASE t = u /\ a = Quote
      BY <1>3, <1>4, <1>5, <1>6, <2>2
    <2>3. CASE t = u /\ a = Base
      BY <1>3, <1>4, <1>5, <1>6, <2>3
    <2>4. CASE t = u /\ a # Base /\ a # Quote
      BY <1>3, <1>4, <1>5, <1>6, <2>4
    <2> QED
      BY <2>1, <2>2, <2>3, <2>4
  <1> QED
    BY <1>1, <1>7

(* The ledger is finite, and the postings of every trade cancel out. *)
BalancedInv ==
    /\ IsFiniteSet(ledger)
    /\ \A u \in Trades, a \in Assets : Booked(ledger, InAsset(u, a)) = 0

(* The postings of a settled trade add up to zero in every asset, for any       *)
(* number of trades, retries and crashes: the entries that                      *)
(* executeSettlementTransaction inserts for one execution cancel out and are    *)
(* inserted together, once.                                                     *)
THEOREM DoubleEntryHolds == Spec => []LedgerBalanced
  <1>1. ASSUME Init PROVE BalancedInv
    <2>1. ledger = {} /\ \A R : ledger \cap R = {}
      BY <1>1 DEF Init
    <2>2. \A R : Booked(ledger, R) = 0
      BY <2>1, SumEmpty DEF Booked
    <2> QED
      BY <2>1, <2>2, FS_EmptySet DEF BalancedInv
  <1>2. ASSUME TypeOK, BalancedInv, [Next]_vars PROVE BalancedInv'
    <2>1. ASSUME NEW t \in Trades, Commit(t) PROVE BalancedInv'
      <3>1. /\ ledger \subseteq Entry /\ IsFiniteSet(ledger) /\ \A e \in ledger : e.id[2] # t
            /\ ledger' = ledger \cup Entries(t)
        BY <1>2, <2>1 DEF TypeOK, BalancedInv, Commit, Posted
      <3>2. \A R : /\ IsFiniteSet(ledger')
                   /\ Booked(ledger', R) = Booked(ledger, R) + Added(t, R)
        BY <3>1, AddEntries
      <3>3. ASSUME NEW u \in Trades, NEW a \in Assets
            PROVE  Booked(ledger', InAsset(u, a)) = 0
        <4>1. Booked(ledger, InAsset(u, a)) = 0 /\ Added(t, InAsset(u, a)) = 0
          BY <1>2, PostingsCancelOut DEF BalancedInv
        <4> QED
          BY <3>2, <4>1
      <3>4. IsFiniteSet(ledger')
        BY <3>2
      <3> QED
        BY <3>3, <3>4 DEF BalancedInv, Booked, InAsset
    <2>2. CASE UNCHANGED <<live, total, ledger, applied>>
      BY <1>2, <2>2 DEF BalancedInv, Booked, InAsset
    <2> QED
      BY <1>2, <2>1, <2>2, StepCommits
  <1>3. ASSUME TypeOK, BalancedInv PROVE LedgerBalanced
    <2> SUFFICES ASSUME NEW t \in Settled, NEW a \in Assets
                 PROVE  SumFunction([e \in {x \in ledger : x.id[2] = t /\ x.row[2] = a}
                                         |-> e.amount]) = 0
      BY DEF LedgerBalanced
    <2>1. t \in Trades /\ ledger \subseteq Entry /\ IsFiniteSet(ledger)
      BY <1>3 DEF Settled, TypeOK, BalancedInv
    <2>2. PICK T : T = {x \in ledger : x.id[2] = t /\ x.row[2] = a}
      OBVIOUS
    <2>3. T = ledger \cap InAsset(t, a)
      BY <2>1, <2>2 DEF InAsset
    <2>4. SumFunction([e \in T |-> e.amount]) = Booked(ledger, InAsset(t, a))
      BY <2>1, <2>3, BookedIsSum
    <2> QED
      BY <1>3, <2>1, <2>2, <2>4 DEF BalancedInv
  <1> QED
    BY <1>1, <1>2, <1>3, TypeCorrect, PTL DEF Spec

(* The total of a row is its opening value and what the ledger books on it. *)
ReconcileInv ==
    /\ IsFiniteSet(ledger)
    /\ OpenRows \subseteq live
    /\ \A r \in Rows : total[r] = Opening[r].total + Booked(ledger, OnRow(r))

(* When the rows a settlement debits exist, as they do for every order whose    *)
(* hold was taken, the total of every balances row is its opening value plus    *)
(* the ledger entries booked on it, in every reachable state: the upserts and   *)
(* updates of executeSettlementTransaction and its ledger inserts agree.        *)
THEOREM TotalsReconcile ==
    ASSUME \A t \in Trades : DebitedRowsIn(t, OpenRows)
    PROVE  Spec => []LedgerReconciles
  <1>1. ASSUME Init PROVE ReconcileInv
    <2>1. /\ ledger = {} /\ \A R : ledger \cap R = {}
          /\ live = OpenRows /\ total = [r \in Rows |-> Opening[r].total]
      BY <1>1 DEF Init
    <2>2. \A R : Booked(ledger, R) = 0
      BY <2>1, SumEmpty DEF Booked
    <2>3. \A r \in Rows : Opening[r].total \in Int
      BY SettlementAssumption DEF Amounts
    <2>4. ASSUME NEW r \in Rows PROVE total[r] = Opening[r].total + Booked(ledger, OnRow(r))
      BY <2>1, <2>2, <2>3
    <2> QED
      BY <2>1, <2>4, FS_EmptySet DEF ReconcileInv
  <1>2. ASSUME TypeOK, ReconcileInv, [Next]_vars PROVE ReconcileInv'
    <2>1. ASSUME NEW t \in Trades, Commit(t) PROVE ReconcileInv'
      <3>1. /\ ledger \subseteq Entry /\ IsFiniteSet(ledger) /\ \A e \in ledger : e.id[2] # t
            /\ ledger' = ledger \cup Entries(t)
        BY <1>2, <2>1 DEF TypeOK, ReconcileInv, Commit, Posted
      <3>2. OpenRows \subseteq live /\ OpenRows \subseteq live'
        BY <1>2, <2>1 DEF ReconcileInv, Commit
      <3>3. DebitedRowsIn(t, live)
        BY <3>2 DEF DebitedRowsIn
      <3>4. \A R : /\ IsFiniteSet(ledger')
                   /\ Booked(ledger', R) = Booked(ledger, R) + Added(t, R)
                   /\ Booked(ledger, R) \in Int /\ Added(t, R) \in Int
        BY <3>1, AddEntries
      <3>5. ASSUME NEW r \in Rows
            PROVE  total'[r] = Opening[r].total + Booked(ledger', OnRow(r))
        <4>1. total'[r] = total[r] + TotalMove(t, r, live)
          BY <2>1 DEF Commit
        <4>2. Added(t, OnRow(r)) = TotalMove(t, r, live)
          BY <3>3, MoveIsPosted
        <4>3. total[r] = Opening[r].total + Booked(ledger, OnRow(r))
          BY <1>2 DEF ReconcileInv
        <4>4. Opening[r].total \in Int
          BY SettlementAssumption DEF Amounts
        <4>5. PICK k \in Int, d \in Int : k = Booked(ledger, OnRow(r)) /\ d = Added(t, OnRow(r))
          BY <3>4
        <4>6. Booked(ledger', OnRow(r)) = k + d
          BY <3>4, <4>5
        <4> QED
          BY <4>1, <4>2, <4>3, <4>4, <4>5, <4>6
      <3>6. IsFiniteSet(ledger')
        BY <3>4
      <3> QED
        BY <3>2, <3>5, <3>6 DEF ReconcileInv, Booked, OnRow
    <2>2. CASE UNCHANGED <<live, total, ledger, applied>>
      BY <1>2, <2>2 DEF ReconcileInv, Booked, OnRow
    <2> QED
      BY <1>2, <2>1, <2>2, StepCommits
  <1>3. ASSUME TypeOK, ReconcileInv PROVE LedgerReconciles
    <2> SUFFICES ASSUME NEW r \in Rows
                 PROVE  total[r] = Opening[r].total
                            + SumFunction([e \in {x \in ledger : x.row = r} |-> e.amount])
      BY DEF LedgerReconciles
    <2>1. ledger \subseteq Entry /\ IsFiniteSet(ledger)
      BY <1>3 DEF TypeOK, ReconcileInv
    <2>2. PICK T : T = {x \in ledger : x.row = r}
      OBVIOUS
    <2>3. T = ledger \cap OnRow(r)
      BY <2>1, <2>2 DEF OnRow
    <2>4. SumFunction([e \in T |-> e.amount]) = Booked(ledger, OnRow(r))
      BY <2>1, <2>3, BookedIsSum
    <2> QED
      BY <1>3, <2>2, <2>4 DEF ReconcileInv
  <1> QED
    BY <1>1, <1>2, <1>3, TypeCorrect, PTL DEF Spec
===============================================================================
