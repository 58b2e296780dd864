---------------------------- MODULE WalletDeposits ----------------------------
(***************************************************************************)
(* Deposits of the wallet service in production.  Each worker is one       *)
(* replica of wallet-service: a select loop that runs, one at a time,      *)
(*   ScanBlocks       reads the chain from the scanner pointer on and      *)
(*                    records the payments to tracked addresses, and       *)
(*   ConfirmDeposits  credits the recorded deposits that are deep enough.  *)
(* The replicas share PostgreSQL and take no lock against each other but   *)
(* the row lock on balances.  Calls may fail and replicas may crash.  A    *)
(* user stands for the one deposit address the user has; a payment is an   *)
(* Ethereum transaction, its amount an integer, and the chain never        *)
(* reorganises.                                                            *)
(***************************************************************************)
EXTENDS Integers, FiniteSets, Functions

CONSTANTS
    Txs,          \* payments
    Users,
    Workers,      \* replicas of wallet-service
    Recipient,    \* [Txs -> Users]
    Amount,       \* [Txs -> Nat]
    Opening,      \* [Users -> Nat or NoRow], the balances at the start
    NoRow,        \* a missing row
    Threshold,    \* ETH_CONFIRMATIONS_REQUIRED, 12 by default
    Window,       \* blocks scanned per run, 50 in the code
    PoolSize,     \* MaxConns of the connection pool, 25 in the code
    MaxBlock,     \* bound: height of the chain
    MaxFaults     \* bound: failing calls and restarts

ASSUME DepositsAssumption ==
    /\ Recipient \in [Txs -> Users]
    /\ Amount \in [Txs -> Nat]
    /\ NoRow \notin Nat
    /\ Opening \in [Users -> Nat \cup {NoRow}]
    /\ Threshold \in Nat \ {0}
    /\ Window \in Nat
    /\ PoolSize \in Nat \ {0}
    /\ MaxBlock \in Nat \ {0}
    /\ MaxFaults \in Nat

VARIABLES
    \* the chain
    head,      \* the latest block
    block,     \* the block of each payment, 0 before it is mined
    \* PostgreSQL
    addrs,     \* wallet_addresses: users with an address
    pointer,   \* blockchain_scanner_states.last_scanned_block
    status,    \* deposits.status, NONE without a row
    ledger,    \* ledger_entries "ent_dep_": deposits credited
    balance,   \* balances.total; available moves with it
    rowLock,   \* balances rows locked by a worker's open transaction
    \* the replicas
    worker,
    \* bounds and history
    faults,
    start,     \* the pointer the scanner was initialised to
    missed     \* payments whose INSERT failed, or whose address a scan that
               \* covers their block did not get to read

chain    == <<head, block, addrs>>
tables   == <<pointer, status, ledger, balance, rowLock>>
vars     == <<chain, tables, worker, faults, start, missed>>

Statuses == {"NONE", "PENDING", "CONFIRMING", "CONFIRMED"}
ScanPCs  == {"pointer", "init", "addresses", "skip", "block", "store"}
ConfPCs  == {"confirm", "mark", "begin", "credit"}

(* The locals of ScanBlocks and ConfirmDeposits. *)
Locals == [pc     : {"idle"} \cup ScanPCs \cup ConfPCs,
           latest : Nat,           \* latestBlock
           at     : Nat,           \* b, the block being scanned
           end    : Nat,           \* endBlock
           known  : SUBSET Users,  \* addresses
           todo   : SUBSET Txs,    \* payments of the block, or rest of pendingList
           dep    : SUBSET Txs,    \* the deposit being confirmed
           seen   : Nat \cup {NoRow},  \* currentTotal
           kept   : Nat]           \* connections of transactions that failed and
                                   \* are rolled back only when the call returns

Idle == [pc |-> "idle", latest |-> 0, at |-> 0, end |-> 0, known |-> {},
         todo |-> {}, dep |-> {}, seen |-> NoRow, kept |-> 0]

TypeOK ==
    /\ head \in 1..MaxBlock
    /\ block \in [Txs -> 0..MaxBlock]
    /\ addrs \subseteq Users
    /\ pointer \in Nat \cup {NoRow}
    /\ status \in [Txs -> Statuses]
    /\ ledger \subseteq Txs
    /\ balance \in [Users -> Nat \cup {NoRow}]
    /\ rowLock \in [Users -> SUBSET Workers]
    /\ worker \in [Workers -> Locals]
    /\ faults \in 0..MaxFaults
    /\ start \in Nat
    /\ missed \subseteq Txs

Init ==
    /\ head = 1
    /\ block = [t \in Txs |-> 0]
    /\ addrs = {}
    /\ pointer = NoRow
    /\ status = [t \in Txs |-> "NONE"]
    /\ ledger = {}
    /\ balance = Opening
    /\ rowLock = [u \in Users |-> {}]
    /\ worker = [w \in Workers |-> Idle]
    /\ faults = 0
    /\ start = 0
    /\ missed = {}

Fault == faults < MaxFaults /\ faults' = faults + 1

-------------------------------------------------------------------------------
(* The users and the chain *)

(* A user is given a deposit address; only then can somebody pay to it. *)
AddAddress(u) ==
    /\ u \notin addrs
    /\ addrs' = addrs \cup {u}
    /\ UNCHANGED <<head, block, tables, worker, faults, start, missed>>

MineBlock(ts) ==
    /\ head < MaxBlock
    /\ \A t \in ts : block[t] = 0 /\ Recipient[t] \in addrs
    /\ head' = head + 1
    /\ block' = [t \in Txs |-> IF t \in ts THEN head + 1 ELSE block[t]]
    /\ UNCHANGED <<addrs, tables, worker, faults, start, missed>>

(* ETHAdapter.GetConfirmations *)
Confirmations(t) == IF block[t] = 0 THEN 0 ELSE head - block[t] + 1

-------------------------------------------------------------------------------
(* ScanBlocks *)

Step(w, locals) == worker' = [worker EXCEPT ![w] = locals]
At(w, pc)       == worker[w].pc = pc
Return(w)       == Step(w, Idle)

(* endBlock *)
LastBlock(next, latest) == IF latest - next > Window THEN next + Window ELSE latest

PlanScan(w, last) ==
    IF last + 1 > worker[w].latest
    THEN Return(w)
    ELSE Step(w, [Idle EXCEPT !.pc = "addresses", !.at = last + 1,
                              !.end = LastBlock(last + 1, worker[w].latest)])

FetchLatest(w) ==
    /\ At(w, "idle")
    /\ Step(w, [Idle EXCEPT !.pc = "pointer", !.latest = head])
    /\ UNCHANGED <<chain, tables, faults, start, missed>>

ReadPointer(w) ==
    /\ At(w, "pointer")
    /\ IF pointer = NoRow
       THEN Step(w, [worker[w] EXCEPT !.pc = "init"])
       ELSE PlanScan(w, pointer)
    /\ UNCHANGED <<chain, tables, faults, start, missed>>

(* The INSERT of the pointer; it fails when the other replica was first. *)
InitPointer(w) ==
    /\ At(w, "init")
    /\ IF pointer = NoRow
       THEN /\ pointer' = worker[w].latest - 1
            /\ start' = worker[w].latest - 1
            /\ PlanScan(w, worker[w].latest - 1)
       ELSE /\ Return(w)
            /\ UNCHANGED <<pointer, start>>
    /\ UNCHANGED <<chain, status, ledger, balance, rowLock, faults, missed>>

ScanFor(w, users) ==
    Step(w, [worker[w] EXCEPT !.pc = IF users = {} THEN "skip" ELSE "block",
                              !.known = users])

LoadAddresses(w) ==
    /\ At(w, "addresses")
    /\ ScanFor(w, addrs)
    /\ UNCHANGED <<chain, tables, faults, start, missed>>

PaymentsIn(b, users) == {t \in Txs : block[t] = b /\ Recipient[t] \in users /\ Amount[t] > 0}

(* The read breaks off: rows.Next() is false and nobody asks for rows.Err(), *)
(* so the scan goes on with the addresses that had arrived.                  *)
AddressesCutShort(w) ==
    /\ At(w, "addresses")
    /\ Fault
    /\ \E read \in SUBSET addrs :
        /\ read # addrs
        /\ ScanFor(w, read)
        /\ missed' = missed \cup UNION {PaymentsIn(b, addrs \ read) :
                                          b \in worker[w].at .. worker[w].end}
    /\ UNCHANGED <<chain, tables, start>>

(* Mutant: the pointer jumps to the block that is now the latest. *)
BugSkipsToHead(w) ==
    /\ At(w, "skip")
    /\ pointer' = head
    /\ Return(w)
    /\ UNCHANGED <<chain, status, ledger, balance, rowLock, faults, start, missed>>

(* No address was read: the pointer moves over the blocks unread. *)
SkipBlocks(w) ==
    /\ At(w, "skip")
    /\ pointer' = worker[w].end
    /\ Return(w)
    /\ UNCHANGED <<chain, status, ledger, balance, rowLock, faults, start, missed>>

FetchBlock(w) ==
    /\ At(w, "block")
    /\ Step(w, [worker[w] EXCEPT !.pc = "store",
                                 !.todo = PaymentsIn(worker[w].at, worker[w].known)])
    /\ UNCHANGED <<chain, tables, faults, start, missed>>

(* A payment that has a row already is passed over. *)
StoreDeposit(w) ==
    /\ At(w, "store")
    /\ \E t \in worker[w].todo :
        /\ status' = IF status[t] = "NONE" THEN [status EXCEPT ![t] = "PENDING"] ELSE status
        /\ Step(w, [worker[w] EXCEPT !.todo = @ \ {t}])
    /\ UNCHANGED <<chain, pointer, ledger, balance, rowLock, faults, start, missed>>

(* The error of the INSERT is logged and the scan goes on. *)
StoreDepositFails(w) ==
    /\ At(w, "store")
    /\ Fault
    /\ \E t \in worker[w].todo :
        /\ status[t] = "NONE"
        /\ missed' = missed \cup {t}
        /\ Step(w, [worker[w] EXCEPT !.todo = @ \ {t}])
    /\ UNCHANGED <<chain, tables, start>>

AdvancePointer(w) ==
    /\ At(w, "store")
    /\ worker[w].todo = {}
    /\ pointer' = worker[w].at
    /\ IF worker[w].at = worker[w].end
       THEN Return(w)
       ELSE Step(w, [worker[w] EXCEPT !.pc = "block", !.at = @ + 1])
    /\ UNCHANGED <<chain, status, ledger, balance, rowLock, faults, start, missed>>

(* Any other call of ScanBlocks that fails makes it return, the query of   *)
(* the addresses and the scan of a row of theirs included.                 *)
ScanFails(w) ==
    /\ worker[w].pc \in ScanPCs
    /\ At(w, "store") => worker[w].todo = {}
    /\ Fault
    /\ Return(w)
    /\ UNCHANGED <<chain, tables, start, missed>>

-------------------------------------------------------------------------------
(* ConfirmDeposits *)

(* Mutant: a deposit that was marked CONFIRMING is not read again. *)
BugPendingOnly(w) ==
    LET list == {t \in Txs : status[t] = "PENDING"} IN
    /\ At(w, "idle")
    /\ list # {}
    /\ Step(w, [Idle EXCEPT !.pc = "confirm", !.todo = list])
    /\ UNCHANGED <<chain, tables, faults, start, missed>>

ConfirmDeposits(w) ==
    LET list == {t \in Txs : status[t] \in {"PENDING", "CONFIRMING"}} IN
    /\ At(w, "idle")
    /\ list # {}
    /\ Step(w, [Idle EXCEPT !.pc = "confirm", !.todo = list])
    /\ UNCHANGED <<chain, tables, faults, start, missed>>

(* Mutant: one confirmation short. *)
BugOneShort(t) == Confirmations(t) >= Threshold - 1

Deep(t) == Confirmations(t) >= Threshold

QueryConfirmations(w) ==
    /\ At(w, "confirm")
    /\ \E t \in worker[w].todo :
        Step(w, [worker[w] EXCEPT !.pc = IF Deep(t) THEN "begin" ELSE "mark",
                                  !.todo = @ \ {t}, !.dep = {t}])
    /\ UNCHANGED <<chain, tables, faults, start, missed>>

NextDeposit(w, kept) ==
    Step(w, [worker[w] EXCEPT !.pc = "confirm", !.dep = {}, !.seen = NoRow, !.kept = kept])

(* A connection of the pool is free; without one the call waits for ever. *)
HasConnection(w) == worker[w].kept < PoolSize

(* The UPDATE has no condition on the status it overwrites. *)
MarkConfirming(w) ==
    /\ At(w, "mark")
    /\ HasConnection(w)
    /\ status' = [t \in Txs |-> IF t \in worker[w].dep THEN "CONFIRMING" ELSE status[t]]
    /\ NextDeposit(w, worker[w].kept)
    /\ UNCHANGED <<chain, pointer, ledger, balance, rowLock, faults, start, missed>>

(* SELECT .. FOR UPDATE: locks the row if there is one. *)
BeginCredit(w) ==
    /\ At(w, "begin")
    /\ HasConnection(w)
    /\ \E t \in worker[w].dep :
        LET u == Recipient[t] IN
        /\ rowLock[u] = {}
        /\ rowLock' = IF balance[u] = NoRow THEN rowLock ELSE [rowLock EXCEPT ![u] = {w}]
        /\ Step(w, [worker[w] EXCEPT !.pc = "credit", !.seen = balance[u]])
    /\ UNCHANGED <<chain, pointer, status, ledger, balance, faults, start, missed>>

Unlock(w) == rowLock' = [u \in Users |-> rowLock[u] \ {w}]

(* Mutant: ledger_entries has no primary key. *)
BugNoLedgerKey(w, t) == worker[w].seen = NoRow /\ balance[Recipient[t]] # NoRow

(* The INSERT of the balance row or of the ledger entry meets an existing key. *)
KeyExists(w, t) ==
    \/ t \in ledger
    \/ worker[w].seen = NoRow /\ balance[Recipient[t]] # NoRow

(* The statements of the transaction and its COMMIT. *)
Credit(w) ==
    /\ At(w, "credit")
    /\ \E t \in worker[w].dep :
        LET u == Recipient[t] IN
        /\ ~KeyExists(w, t)
        /\ balance' = [balance EXCEPT ![u] = Amount[t] + (IF worker[w].seen = NoRow THEN 0
                                                          ELSE worker[w].seen)]
        /\ ledger' = ledger \cup {t}
        /\ status' = [status EXCEPT ![t] = "CONFIRMED"]
    /\ Unlock(w)
    /\ NextDeposit(w, worker[w].kept)
    /\ UNCHANGED <<chain, pointer, faults, start, missed>>

(* Mutant: the connection is given back twice. *)
BugReleasedTwice(w) ==
    /\ At(w, "credit")
    /\ \E t \in worker[w].dep : KeyExists(w, t)
    /\ Unlock(w)
    /\ NextDeposit(w, worker[w].kept - 1)
    /\ UNCHANGED <<chain, pointer, status, ledger, balance, faults, start, missed>>

(* PostgreSQL aborts the transaction, which frees its locks; the deferred  *)
(* Rollback returns its connection only at the end of the call.            *)
CreditRefused(w) ==
    /\ At(w, "credit")
    /\ \E t \in worker[w].dep : KeyExists(w, t)
    /\ Unlock(w)
    /\ NextDeposit(w, worker[w].kept + 1)
    /\ UNCHANGED <<chain, pointer, status, ledger, balance, faults, start, missed>>

(* A call for one deposit fails and the next one is tried.  Only a failed  *)
(* statement of an open transaction keeps a connection.                    *)
ConfirmFails(w) ==
    /\ worker[w].pc \in {"mark", "begin", "credit"}
    /\ Fault
    /\ Unlock(w)
    /\ \E n \in {0} \cup (IF At(w, "credit") THEN {1} ELSE {}) :
        NextDeposit(w, worker[w].kept + n)
    /\ UNCHANGED <<chain, pointer, status, ledger, balance, start, missed>>

EndConfirm(w) ==
    /\ At(w, "confirm")
    /\ worker[w].todo = {}
    /\ Return(w)
    /\ UNCHANGED <<chain, tables, faults, start, missed>>

Crash(w) ==
    /\ ~At(w, "idle")
    /\ Fault
    /\ Unlock(w)
    /\ Return(w)
    /\ UNCHANGED <<chain, pointer, status, ledger, balance, start, missed>>

-------------------------------------------------------------------------------
Proceed(w) ==
    \/ ReadPointer(w) \/ InitPointer(w) \/ LoadAddresses(w) \/ SkipBlocks(w)
    \/ FetchBlock(w) \/ StoreDeposit(w) \/ AdvancePointer(w)
    \/ QueryConfirmations(w) \/ MarkConfirming(w) \/ BeginCredit(w)
    \/ Credit(w) \/ CreditRefused(w) \/ EndConfirm(w)

Next ==
    \/ \E u \in Users : AddAddress(u)
    \/ \E ts \in SUBSET Txs : MineBlock(ts)
    \/ \E w \in Workers :
        \/ FetchLatest(w) \/ ConfirmDeposits(w) \/ Proceed(w)
        \/ AddressesCutShort(w) \/ StoreDepositFails(w) \/ ScanFails(w) \/ ConfirmFails(w) \/ Crash(w)

(* The chain grows; a replica that has begun a call goes on with it, and   *)
(* select gives both of its tickers a turn again and again.                *)
Fairness ==
    /\ WF_vars(\E ts \in SUBSET Txs : MineBlock(ts))
    /\ \A w \in Workers :
        /\ WF_vars(Proceed(w))
        /\ SF_vars(FetchLatest(w))
        /\ SF_vars(ConfirmDeposits(w))

Spec == Init /\ [][Next]_vars /\ Fairness

-------------------------------------------------------------------------------
(* Properties *)

(* Between two steps the balance of a user is the opening balance plus the *)
(* deposits the ledger credits, each once, however often replicas confirm  *)
(* the same deposit or race to create the row (ConfirmDeposits).           *)
CreditedOnce ==
    \A u \in Users :
        LET credited == {t \in ledger : Recipient[t] = u}
        IN  (IF balance[u] = NoRow THEN 0 ELSE balance[u])
            = (IF Opening[u] = NoRow THEN 0 ELSE Opening[u])
              + SumFunction([t \in credited |-> Amount[t]])

(* A deposit shown CONFIRMED is credited, and a credited one has its       *)
(* confirmations and is past PENDING, although replicas act on stale lists *)
(* and overwrite each other's status (ConfirmDeposits).                    *)
ConfirmedMeansCredited ==
    \A t \in Txs :
        /\ status[t] = "CONFIRMED" => t \in ledger
        /\ t \in ledger =>
            /\ status[t] \in {"CONFIRMING", "CONFIRMED"}
            /\ block[t] > 0
            /\ head >= block[t] + Threshold - 1

(* The pointer never passes a payment to a tracked address that has no     *)
(* deposits row, unless its INSERT failed or the read of the addresses for *)
(* its block broke off, which the code passes over: whichever replica      *)
(* moves the pointer, wherever it crashes, and although the addresses are  *)
(* read once per scan (ScanBlocks, getTrackedAddresses).                   *)
NoDepositMissed ==
    pointer # NoRow =>
        \A t \in Txs :
            block[t] \in (start + 1)..pointer /\ Amount[t] > 0
                => status[t] # "NONE" \/ t \in missed

(* Every replica waits for a connection that only its own return gives back. *)
PoolExhausted ==
    \A w \in Workers : worker[w].pc \in {"mark", "begin"} /\ ~HasConnection(w)

(* Again and again every payment that reaches its confirmations has been   *)
(* credited (so each one is in the end), unless it was mined before the    *)
(* scanner first ran, its INSERT failed or the read of the addresses broke *)
(* off, or every replica ran out of connections (Start, ScanBlocks,        *)
(* ConfirmDeposits).                                                       *)
EventuallyCredited ==
    []<>(\A t \in Txs :
            block[t] > 0 /\ Amount[t] > 0 /\ block[t] + Threshold - 1 <= MaxBlock
                => t \in ledger \/ block[t] <= start \/ t \in missed \/ PoolExhausted)
===============================================================================
