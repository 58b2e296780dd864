------------------------- MODULE WalletDepositsProofs -------------------------
(***************************************************************************)
(* Proofs about WalletDeposits, for any number of replicas, users and      *)
(* payments, any window, threshold and pool, and any failures and crashes. *)
(***************************************************************************)
EXTENDS WalletDeposits, Sums

Recorded(t) == status[t] # "NONE" \/ t \in missed

(* Every payment after the first scanned block and up to b has its row. *)
Covered(b) ==
    \A t \in Txs : block[t] \in (start + 1)..b /\ Amount[t] > 0 => Recorded(t)

Mined == \A t \in Txs : block[t] > 0 => Recipient[t] \in addrs /\ block[t] <= head

PointerCovered == pointer # NoRow => pointer <= head /\ Covered(pointer)

(* A worker between planning a scan and its end. *)
InRange(w) ==
    /\ pointer # NoRow
    /\ worker[w].at >= 1
    /\ worker[w].at <= worker[w].end
    /\ worker[w].end <= head
    /\ Covered(worker[w].at - 1)

(* The addresses it read include those of every payment it may yet meet,   *)
(* but for the payments that a read cut short has given up.                *)
KnowsRecipients(w) ==
    \A t \in Txs :
        block[t] \in worker[w].at .. worker[w].end /\ Amount[t] > 0
            => Recipient[t] \in worker[w].known \/ Recorded(t)

StoredOrTodo(w) ==
    \A t \in Txs :
        block[t] = worker[w].at /\ Amount[t] > 0 => t \in worker[w].todo \/ Recorded(t)

ScanOK(w) ==
    /\ worker[w].pc \in {"pointer", "init"} => worker[w].latest \in 1..head
    /\ worker[w].pc \in {"addresses", "skip", "block", "store"} => InRange(w)
    /\ worker[w].pc \in {"skip", "block", "store"} => KnowsRecipients(w)
    /\ worker[w].pc = "skip" => worker[w].known = {}
    /\ worker[w].pc = "store" => StoredOrTodo(w)

Mature(t) == block[t] > 0 /\ head >= block[t] + Threshold - 1

CreditOK(w) == worker[w].pc \in {"begin", "credit"} => \A t \in worker[w].dep : Mature(t)

IInv ==
    /\ TypeOK
    /\ Mined
    /\ PointerCovered
    /\ ConfirmedMeansCredited
    /\ \A w \in Workers : ScanOK(w) /\ CreditOK(w)

(* What no step undoes. *)
Grows ==
    /\ head' \in Int /\ head' >= head
    /\ \A t \in Txs : block'[t] = block[t] \/ (block[t] = 0 /\ block'[t] > head)
    /\ \A t \in Txs : Recorded(t) => Recorded(t)'
    /\ pointer # NoRow => pointer' # NoRow /\ start' = start

(* Coverage of scanned blocks survives every step. *)
LEMMA CoveredStable ==
    ASSUME TypeOK, Grows, pointer # NoRow, NEW b \in Int, b <= head, Covered(b)
    PROVE  Covered(b)'
BY DepositsAssumption DEF TypeOK, Grows, Covered

(* A worker that does not move keeps what it relies on. *)
LEMMA BystanderOK ==
    ASSUME TypeOK, Grows, NEW w \in Workers, worker'[w] = worker[w],
           ScanOK(w), CreditOK(w)
    PROVE  ScanOK(w)' /\ CreditOK(w)'
<1>1. worker[w] \in Locals
  BY DEF TypeOK
<1>2. /\ worker[w].at \in Nat /\ worker[w].end \in Nat /\ worker[w].latest \in Nat
      /\ worker[w].dep \subseteq Txs
  BY <1>1 DEF Locals
<1>3. head \in Int /\ head' \in Int /\ head' >= head
  BY DepositsAssumption DEF TypeOK, Grows
<1>4. ASSUME InRange(w) PROVE InRange(w)'
  <2>1. worker[w].at - 1 \in Int /\ worker[w].at - 1 <= head
    BY <1>2, <1>3, <1>4 DEF InRange
  <2>2. Covered(worker[w].at - 1)'
    BY <1>4, <2>1, CoveredStable DEF InRange, Covered
  <2>3. pointer' # NoRow
    BY <1>4 DEF InRange, Grows
  <2>4. worker'[w].at >= 1 /\ worker'[w].at <= worker'[w].end /\ worker'[w].end <= head'
    BY <1>2, <1>3, <1>4 DEF InRange
  <2> QED
    BY <2>2, <2>3, <2>4 DEF InRange
<1>5. ASSUME InRange(w), KnowsRecipients(w) PROVE KnowsRecipients(w)'
  BY <1>2, <1>3, <1>5 DEF InRange, KnowsRecipients, Grows
<1>6. ASSUME InRange(w), StoredOrTodo(w) PROVE StoredOrTodo(w)'
  BY <1>2, <1>3, <1>6 DEF InRange, StoredOrTodo, Grows
<1>7. worker[w].latest \in 1..head => worker'[w].latest \in 1..head'
  BY <1>2, <1>3
<1>8. ScanOK(w)'
  BY <1>4, <1>5, <1>6, <1>7 DEF ScanOK
<1>9. \A t \in Txs : Mature(t) => Mature(t)'
  BY <1>3, DepositsAssumption DEF Mature, Grows, TypeOK
<1>10. CreditOK(w)'
  BY <1>2, <1>9 DEF CreditOK
<1> QED
  BY <1>8, <1>10

-------------------------------------------------------------------------------
(* Type correctness of a step.  It needs ScanOK: the pointer is initialised *)
(* to latest - 1, a natural number only because latest is a mined block.    *)

LEMMA ChainTypeStep ==
    ASSUME TypeOK, (\E u \in Users : AddAddress(u)) \/ (\E ts \in SUBSET Txs : MineBlock(ts))
    PROVE  TypeOK'
<1>1. CASE \E u \in Users : AddAddress(u)
  BY <1>1 DEF AddAddress, TypeOK, tables
<1>2. ASSUME NEW ts \in SUBSET Txs, MineBlock(ts) PROVE TypeOK'
  <2>1. head' \in 1..MaxBlock /\ block' \in [Txs -> 0..MaxBlock]
    BY <1>2, DepositsAssumption DEF MineBlock, TypeOK
  <2> QED
    BY <1>2, <2>1 DEF MineBlock, TypeOK, tables
<1> QED
  BY <1>1, <1>2

LEMMA IdleType == Idle \in Locals
BY DEF Idle, Locals, ScanPCs, ConfPCs

LEMMA StepType ==
    ASSUME TypeOK, NEW w \in Workers, NEW l \in Locals, Step(w, l)
    PROVE  worker' \in [Workers -> Locals]
BY DEF TypeOK, Step

LEMMA PlanScanType ==
    ASSUME TypeOK, NEW w \in Workers, NEW last \in Nat, PlanScan(w, last)
    PROVE  worker' \in [Workers -> Locals]
<1> DEFINE e == LastBlock(last + 1, worker[w].latest)
           n == last + 1
           l == [Idle EXCEPT !.pc = "addresses", !.at = n, !.end = e]
<1>1. worker[w].latest \in Nat
  BY DEF TypeOK, Locals
<1>2. e \in Nat
  BY <1>1, DepositsAssumption DEF LastBlock
<1>5. n \in Nat
  OBVIOUS
<1> HIDE DEF n, e
<1>3. l \in Locals
  BY <1>2, <1>5, IdleType DEF Locals, ScanPCs
<1> HIDE DEF l
<1>4. Step(w, Idle) \/ Step(w, l)
  BY DEF PlanScan, Return, l, e, n
<1> QED
  BY <1>3, <1>4, IdleType, StepType

LEMMA NextDepositType ==
    ASSUME TypeOK, NEW w \in Workers, NEW k \in Nat, NextDeposit(w, k)
    PROVE  worker' \in [Workers -> Locals]
<1>1. [worker[w] EXCEPT !.pc = "confirm", !.dep = {}, !.seen = NoRow, !.kept = k] \in Locals
  BY DEF TypeOK, Locals, ConfPCs
<1> QED
  BY <1>1, StepType DEF NextDeposit

LEMMA UnlockType ==
    ASSUME TypeOK, NEW w \in Workers, Unlock(w)
    PROVE  rowLock' \in [Users -> SUBSET Workers]
BY DEF TypeOK, Unlock

LEMMA FaultType ==
    ASSUME TypeOK, Fault
    PROVE  faults' \in 0..MaxFaults
BY DepositsAssumption DEF TypeOK, Fault

LEMMA ScanTypeStep ==
    ASSUME TypeOK, NEW w \in Workers, ScanOK(w),
           \/ FetchLatest(w) \/ ReadPointer(w) \/ InitPointer(w) \/ LoadAddresses(w)
           \/ AddressesCutShort(w) \/ SkipBlocks(w) \/ FetchBlock(w) \/ StoreDeposit(w) \/ StoreDepositFails(w)
           \/ AdvancePointer(w) \/ ScanFails(w)
    PROVE  TypeOK'
<1>1. worker[w] \in Locals
  BY DEF TypeOK
<1>2. CASE FetchLatest(w)
  <2>0. head \in Nat
    BY DepositsAssumption DEF TypeOK
  <2>1. [Idle EXCEPT !.pc = "pointer", !.latest = head] \in Locals
    BY <2>0, IdleType DEF Locals, ScanPCs
  <2> QED
    BY <1>2, <2>1, StepType DEF FetchLatest, TypeOK, chain, tables
<1>3. CASE ReadPointer(w)
  <2>1. [worker[w] EXCEPT !.pc = "init"] \in Locals
    BY <1>1 DEF Locals, ScanPCs
  <2>2. worker' \in [Workers -> Locals]
    <3>1. CASE pointer = NoRow
      BY <1>3, <2>1, <3>1, StepType DEF ReadPointer
    <3>2. CASE pointer # NoRow
      BY <1>3, <3>2, PlanScanType DEF ReadPointer, TypeOK
    <3> QED
      BY <3>1, <3>2
  <2> QED
    BY <1>3, <2>2 DEF ReadPointer, TypeOK, chain, tables
<1>4. CASE InitPointer(w)
  <2>1. worker[w].latest - 1 \in Nat
    BY <1>4, DepositsAssumption DEF InitPointer, At, ScanOK, TypeOK
  <2>2. worker' \in [Workers -> Locals]
    BY <1>4, <2>1, PlanScanType, StepType, IdleType DEF InitPointer, Return
  <2>3. pointer' \in Nat \cup {NoRow} /\ start' \in Nat
    BY <1>4, <2>1 DEF InitPointer, TypeOK
  <2> QED
    BY <1>4, <2>2, <2>3 DEF InitPointer, TypeOK, chain
<1>5. CASE LoadAddresses(w) \/ AddressesCutShort(w)
  <2>1. PICK read \in SUBSET addrs : ScanFor(w, read)
    BY <1>5 DEF LoadAddresses, AddressesCutShort
  <2>2. [worker[w] EXCEPT !.pc = IF read = {} THEN "skip" ELSE "block", !.known = read] \in Locals
    BY <1>1, <2>1 DEF Locals, ScanPCs, TypeOK
  <2>3. worker' \in [Workers -> Locals]
    BY <2>1, <2>2, StepType DEF ScanFor
  <2>4. faults' \in 0..MaxFaults
    BY <1>5, FaultType DEF LoadAddresses, AddressesCutShort, TypeOK
  <2>5. missed' \subseteq Txs
    BY <1>5 DEF LoadAddresses, AddressesCutShort, TypeOK, PaymentsIn
  <2> QED
    BY <1>5, <2>3, <2>4, <2>5 DEF LoadAddresses, AddressesCutShort, TypeOK, chain, tables
<1>6. CASE SkipBlocks(w)
  <2>1. worker' \in [Workers -> Locals] /\ pointer' \in Nat
    BY <1>1, <1>6, IdleType, StepType DEF SkipBlocks, Return, Locals
  <2> QED
    BY <1>6, <2>1 DEF SkipBlocks, TypeOK, chain
<1>7. CASE FetchBlock(w)
  <2>1. [worker[w] EXCEPT !.pc = "store", !.todo = PaymentsIn(worker[w].at, worker[w].known)] \in Locals
    BY <1>1 DEF Locals, ScanPCs, PaymentsIn
  <2> QED
    BY <1>7, <2>1, StepType DEF FetchBlock, TypeOK, chain, tables
<1>8. CASE StoreDeposit(w) \/ StoreDepositFails(w)
  <2>1. PICK t \in worker[w].todo :
            /\ Step(w, [worker[w] EXCEPT !.todo = @ \ {t}])
            /\ \/ status' = [status EXCEPT ![t] = "PENDING"] /\ missed' = missed
               \/ status' = status /\ missed' \in {missed, missed \cup {t}}
    BY <1>8 DEF StoreDeposit, StoreDepositFails, tables
  <2>2. t \in Txs /\ [worker[w] EXCEPT !.todo = @ \ {t}] \in Locals
    BY <1>1 DEF Locals
  <2>3. worker' \in [Workers -> Locals]
    BY <2>1, <2>2, StepType
  <2>4. status' \in [Txs -> Statuses] /\ missed' \subseteq Txs
    BY <2>1, <2>2 DEF TypeOK, Statuses
  <2>5. faults' \in 0..MaxFaults
    BY <1>8, FaultType DEF StoreDeposit, StoreDepositFails, TypeOK
  <2> QED
    BY <1>8, <2>3, <2>4, <2>5 DEF StoreDeposit, StoreDepositFails, TypeOK, chain, tables
<1>9. CASE AdvancePointer(w)
  <2>0. worker[w].at + 1 \in Nat
    BY <1>1 DEF Locals
  <2>1. [worker[w] EXCEPT !.pc = "block", !.at = @ + 1] \in Locals
    <3> DEFINE n == worker[w].at + 1
    <3>1. n \in Nat
      BY <2>0
    <3> HIDE DEF n
    <3>2. [worker[w] EXCEPT !.pc = "block", !.at = n] \in Locals
      BY <1>1, <3>1 DEF Locals, ScanPCs
    <3> QED
      BY <3>2 DEF n
  <2>2. worker' \in [Workers -> Locals] /\ pointer' \in Nat
    BY <1>1, <1>9, <2>1, IdleType, StepType DEF AdvancePointer, Return, Locals
  <2> QED
    BY <1>9, <2>2 DEF AdvancePointer, TypeOK, chain
<1>10. CASE ScanFails(w)
  BY <1>10, FaultType, IdleType, StepType DEF ScanFails, Return, TypeOK, chain, tables
<1> QED
  BY <1>2, <1>3, <1>4, <1>5, <1>6, <1>7, <1>8, <1>9, <1>10

LEMMA ConfirmTypeStep ==
    ASSUME TypeOK, NEW w \in Workers,
           \/ ConfirmDeposits(w) \/ QueryConfirmations(w) \/ MarkConfirming(w) \/ BeginCredit(w)
           \/ Credit(w) \/ CreditRefused(w) \/ ConfirmFails(w) \/ EndConfirm(w) \/ Crash(w)
    PROVE  TypeOK'
<1>1. worker[w] \in Locals
  BY DEF TypeOK
<1>2. worker[w].dep \subseteq Txs /\ worker[w].kept \in Nat /\ worker[w].kept + 1 \in Nat
      /\ worker[w].seen \in Nat \cup {NoRow}
  BY <1>1 DEF Locals
<1>3. CASE ConfirmDeposits(w)
  <2> DEFINE list == {t \in Txs : status[t] \in {"PENDING", "CONFIRMING"}}
  <2>1. [Idle EXCEPT !.pc = "confirm", !.todo = list] \in Locals
    BY IdleType DEF Locals, ConfPCs
  <2> QED
    BY <1>3, <2>1, StepType DEF ConfirmDeposits, TypeOK, chain, tables
<1>4. CASE QueryConfirmations(w)
  <2>1. PICK t \in worker[w].todo :
            Step(w, [worker[w] EXCEPT !.pc = IF Deep(t) THEN "begin" ELSE "mark",
                                      !.todo = @ \ {t}, !.dep = {t}])
    BY <1>4 DEF QueryConfirmations
  <2>2. [worker[w] EXCEPT !.pc = IF Deep(t) THEN "begin" ELSE "mark",
                          !.todo = @ \ {t}, !.dep = {t}] \in Locals
    BY <1>1 DEF Locals, ConfPCs
  <2>3. worker' \in [Workers -> Locals]
    BY <2>1, <2>2, StepType
  <2> QED
    BY <1>4, <2>3 DEF QueryConfirmations, TypeOK, chain, tables
<1>5. CASE MarkConfirming(w)
  <2>1. worker' \in [Workers -> Locals]
    BY <1>2, <1>5, NextDepositType DEF MarkConfirming
  <2>2. status' \in [Txs -> Statuses]
    BY <1>5 DEF MarkConfirming, TypeOK, Statuses
  <2> QED
    BY <1>5, <2>1, <2>2 DEF MarkConfirming, TypeOK, chain
<1>6. CASE BeginCredit(w)
  <2>1. PICK t \in worker[w].dep :
            /\ rowLock' = IF balance[Recipient[t]] = NoRow THEN rowLock
                          ELSE [rowLock EXCEPT ![Recipient[t]] = {w}]
            /\ Step(w, [worker[w] EXCEPT !.pc = "credit", !.seen = balance[Recipient[t]]])
    BY <1>6 DEF BeginCredit
  <2>2. Recipient[t] \in Users /\ balance[Recipient[t]] \in Nat \cup {NoRow}
    BY <1>2, DepositsAssumption DEF TypeOK
  <2>3. [worker[w] EXCEPT !.pc = "credit", !.seen = balance[Recipient[t]]] \in Locals
    BY <1>1, <2>2 DEF Locals, ConfPCs
  <2>4. worker' \in [Workers -> Locals]
    BY <2>1, <2>3, StepType
  <2>5. rowLock' \in [Users -> SUBSET Workers]
    BY <2>1, <2>2 DEF TypeOK
  <2> QED
    BY <1>6, <2>4, <2>5 DEF BeginCredit, TypeOK, chain
<1>7. CASE Credit(w)
  <2>1. worker' \in [Workers -> Locals] /\ rowLock' \in [Users -> SUBSET Workers]
    BY <1>2, <1>7, NextDepositType, UnlockType DEF Credit
  <2>2. PICK t \in worker[w].dep :
            /\ balance' = [balance EXCEPT ![Recipient[t]] =
                              Amount[t] + (IF worker[w].seen = NoRow THEN 0 ELSE worker[w].seen)]
            /\ ledger' = ledger \cup {t}
            /\ status' = [status EXCEPT ![t] = "CONFIRMED"]
    BY <1>7 DEF Credit
  <2>3. Amount[t] + (IF worker[w].seen = NoRow THEN 0 ELSE worker[w].seen) \in Nat
    BY <1>2, DepositsAssumption
  <2>4. balance' \in [Users -> Nat \cup {NoRow}]
    BY <2>2, <2>3 DEF TypeOK
  <2>5. ledger' \subseteq Txs /\ status' \in [Txs -> Statuses]
    BY <1>2, <2>2 DEF TypeOK, Statuses
  <2> QED
    BY <1>7, <2>1, <2>4, <2>5 DEF Credit, TypeOK, chain
<1>8. CASE CreditRefused(w)
  <2>1. worker' \in [Workers -> Locals] /\ rowLock' \in [Users -> SUBSET Workers]
    BY <1>2, <1>8, NextDepositType, UnlockType DEF CreditRefused
  <2> QED
    BY <1>8, <2>1 DEF CreditRefused, TypeOK, chain
<1>9. CASE ConfirmFails(w)
  <2>1. PICK n \in {0, 1} : NextDeposit(w, worker[w].kept + n)
    BY <1>9 DEF ConfirmFails
  <2>2. worker' \in [Workers -> Locals]
    BY <1>2, <2>1, NextDepositType
  <2>3. rowLock' \in [Users -> SUBSET Workers] /\ faults' \in 0..MaxFaults
    BY <1>9, UnlockType, FaultType DEF ConfirmFails
  <2> QED
    BY <1>9, <2>2, <2>3 DEF ConfirmFails, TypeOK, chain
<1>10. CASE EndConfirm(w)
  BY <1>10, StepType, IdleType DEF EndConfirm, Return, TypeOK, chain, tables
<1>11. CASE Crash(w)
  <2>1. worker' \in [Workers -> Locals] /\ rowLock' \in [Users -> SUBSET Workers]
    BY <1>11, StepType, IdleType, UnlockType DEF Crash, Return
  <2>2. faults' \in 0..MaxFaults
    BY <1>11, FaultType DEF Crash
  <2> QED
    BY <1>11, <2>1, <2>2 DEF Crash, TypeOK, chain
<1> QED
  BY <1>3, <1>4, <1>5, <1>6, <1>7, <1>8, <1>9, <1>10, <1>11

(* All steps of one replica. *)
Scan(w) ==
    \/ FetchLatest(w) \/ ReadPointer(w) \/ InitPointer(w) \/ LoadAddresses(w)
    \/ AddressesCutShort(w) \/ SkipBlocks(w) \/ FetchBlock(w) \/ StoreDeposit(w) \/ StoreDepositFails(w)
    \/ AdvancePointer(w) \/ ScanFails(w)

Confirm(w) ==
    \/ ConfirmDeposits(w) \/ QueryConfirmations(w) \/ MarkConfirming(w) \/ BeginCredit(w)
    \/ Credit(w) \/ CreditRefused(w) \/ ConfirmFails(w) \/ EndConfirm(w) \/ Crash(w)

Environment ==
    (\E u \in Users : AddAddress(u)) \/ (\E ts \in SUBSET Txs : MineBlock(ts))

LEMMA NextSplit ==
    ASSUME Next
    PROVE  Environment \/ \E w \in Workers : Scan(w) \/ Confirm(w)
BY DEF Next, Proceed, Environment, Scan, Confirm

LEMMA TypeStep ==
    ASSUME IInv, Next
    PROVE  TypeOK'
<1>1. CASE Environment
  BY <1>1, ChainTypeStep DEF Environment, IInv
<1>2. CASE \E w \in Workers : Scan(w)
  BY <1>2, ScanTypeStep DEF Scan, IInv
<1>3. CASE \E w \in Workers : Confirm(w)
  BY <1>3, ConfirmTypeStep DEF Confirm, IInv
<1> QED
  BY <1>1, <1>2, <1>3, NextSplit

-------------------------------------------------------------------------------
(* What every step leaves standing *)

LEMMA EnvironmentGrows ==
    ASSUME IInv, Environment
    PROVE  Grows
<1>1. CASE \E u \in Users : AddAddress(u)
  BY <1>1, DepositsAssumption DEF AddAddress, IInv, TypeOK, tables, Grows, Recorded
<1>2. CASE \E ts \in SUBSET Txs : MineBlock(ts)
  BY <1>2, DepositsAssumption DEF MineBlock, IInv, TypeOK, tables, Grows, Recorded
<1> QED
  BY <1>1, <1>2 DEF Environment

(* A replica's step leaves the chain alone, so only the rows matter. *)
LEMMA ReplicaGrows ==
    ASSUME IInv, NEW w \in Workers, Scan(w) \/ Confirm(w)
    PROVE  Grows /\ chain' = chain
<1>1. chain' = chain
  BY DEF Scan, Confirm, FetchLatest, ReadPointer, InitPointer, LoadAddresses, AddressesCutShort, SkipBlocks,
         FetchBlock, StoreDeposit, StoreDepositFails, AdvancePointer, ScanFails,
         ConfirmDeposits, QueryConfirmations, MarkConfirming, BeginCredit, Credit,
         CreditRefused, ConfirmFails, EndConfirm, Crash
<1>2. \A t \in Txs : Recorded(t) => Recorded(t)'
  <2>1. missed \subseteq missed'
    <3>1. CASE StoreDepositFails(w) \/ AddressesCutShort(w)
      BY <3>1 DEF StoreDepositFails, AddressesCutShort
    <3>2. CASE ~StoreDepositFails(w) /\ ~AddressesCutShort(w)
      BY <3>2 DEF Scan, Confirm, FetchLatest, ReadPointer, InitPointer, LoadAddresses, AddressesCutShort, SkipBlocks,
             FetchBlock, StoreDeposit, AdvancePointer, ScanFails,
             ConfirmDeposits, QueryConfirmations, MarkConfirming, BeginCredit, Credit,
             CreditRefused, ConfirmFails, EndConfirm, Crash
    <3> QED
      BY <3>1, <3>2
  <2>2. \A t \in Txs : status[t] # "NONE" => status'[t] # "NONE"
    <3>1. CASE StoreDeposit(w)
      BY <3>1 DEF StoreDeposit, IInv, TypeOK
    <3>2. CASE MarkConfirming(w)
      BY <3>2 DEF MarkConfirming, IInv, TypeOK
    <3>3. CASE Credit(w)
      BY <3>3 DEF Credit, IInv, TypeOK
    <3>4. CASE ~StoreDeposit(w) /\ ~MarkConfirming(w) /\ ~Credit(w)
      <4>1. status' = status
        BY <3>4 DEF Scan, Confirm, FetchLatest, ReadPointer, InitPointer, LoadAddresses, AddressesCutShort, SkipBlocks,
               FetchBlock, StoreDepositFails, AdvancePointer, ScanFails, tables,
               ConfirmDeposits, QueryConfirmations, BeginCredit,
               CreditRefused, ConfirmFails, EndConfirm, Crash
      <4> QED
        BY <4>1
    <3> QED
      BY <3>1, <3>2, <3>3, <3>4
  <2> QED
    BY <2>1, <2>2 DEF Recorded
<1>3. pointer # NoRow => pointer' # NoRow /\ start' = start
  <2>1. CASE InitPointer(w)
    BY <2>1 DEF InitPointer
  <2>2. CASE SkipBlocks(w) \/ AdvancePointer(w)
    <3>1. worker[w].end \in Nat /\ worker[w].at \in Nat
      BY DEF IInv, TypeOK, Locals
    <3> QED
      BY <2>2, <3>1, DepositsAssumption DEF SkipBlocks, AdvancePointer
  <2>3. CASE ~InitPointer(w) /\ ~SkipBlocks(w) /\ ~AdvancePointer(w)
    BY <2>3 DEF Scan, Confirm, FetchLatest, ReadPointer, LoadAddresses, AddressesCutShort,
           FetchBlock, StoreDeposit, StoreDepositFails, ScanFails, tables,
           ConfirmDeposits, QueryConfirmations, MarkConfirming, BeginCredit, Credit,
           CreditRefused, ConfirmFails, EndConfirm, Crash
  <2> QED
    BY <2>1, <2>2, <2>3
<1>4. head' \in Int /\ head' >= head /\ block' = block
  BY <1>1, DepositsAssumption DEF chain, IInv, TypeOK
<1> QED
  BY <1>1, <1>2, <1>3, <1>4 DEF Grows

LEMMA MinedStep ==
    ASSUME IInv, Next
    PROVE  Mined'
<1>1. CASE \E u \in Users : AddAddress(u)
  BY <1>1 DEF AddAddress, IInv, Mined
<1>2. CASE \E ts \in SUBSET Txs : MineBlock(ts)
  BY <1>2, DepositsAssumption DEF MineBlock, IInv, Mined, TypeOK
<1>3. CASE \E w \in Workers : Scan(w) \/ Confirm(w)
  BY <1>3, ReplicaGrows DEF chain, IInv, Mined
<1> QED
  BY <1>1, <1>2, <1>3, NextSplit DEF Environment

-------------------------------------------------------------------------------
(* The acting replica *)

LEMMA QuietOK ==
    ASSUME NEW w \in Workers, worker'[w].pc \in {"idle", "confirm", "mark"}
    PROVE  ScanOK(w)' /\ CreditOK(w)'
BY DEF ScanOK, CreditOK

LEMMA ReturnOK ==
    ASSUME TypeOK, NEW w \in Workers, Return(w)
    PROVE  ScanOK(w)' /\ CreditOK(w)'
<1>1. worker'[w] = Idle
  BY DEF TypeOK, Return, Step
<1>2. worker'[w].pc = "idle"
  BY <1>1 DEF Idle
<1> QED
  BY <1>2, QuietOK

(* Planning a scan from a pointer below which everything is covered. *)
LEMMA PlanScanOK ==
    ASSUME IInv, TypeOK', chain' = chain, NEW w \in Workers, NEW last \in Nat, PlanScan(w, last),
           worker[w].latest \in 1..head, pointer' # NoRow, Covered(last)'
    PROVE  ScanOK(w)' /\ CreditOK(w)'
<1>1. CASE last + 1 > worker[w].latest
  BY <1>1, ReturnOK DEF PlanScan, IInv
<1>2. CASE ~(last + 1 > worker[w].latest)
  <2> DEFINE e == LastBlock(last + 1, worker[w].latest)
  <2>1. worker'[w] = [Idle EXCEPT !.pc = "addresses", !.at = last + 1, !.end = e]
    BY <1>2 DEF PlanScan, Step, IInv, TypeOK
  <2>2. worker'[w].pc = "addresses" /\ worker'[w].at = last + 1 /\ worker'[w].end = e
    BY <2>1 DEF Idle
  <2>3. head \in Nat /\ worker[w].latest \in Nat
    BY DepositsAssumption DEF IInv, TypeOK
  <2>4. last + 1 <= e /\ e <= head
    BY <1>2, <2>3, DepositsAssumption DEF LastBlock
  <2>5. Covered(worker[w].at - 1)'
    <3>1. worker'[w].at - 1 = last
      BY <2>2
    <3> QED
      BY <3>1 DEF Covered
  <2>6. InRange(w)'
    BY <2>2, <2>4, <2>5 DEF InRange, chain
  <2> QED
    BY <2>2, <2>6 DEF ScanOK, CreditOK
<1> QED
  BY <1>1, <1>2

LEMMA ScanActorOK ==
    ASSUME IInv, TypeOK', NEW w \in Workers, Scan(w)
    PROVE  ScanOK(w)' /\ CreditOK(w)'
<1>1. Grows /\ chain' = chain
  BY ReplicaGrows
<1>2. worker[w] \in Locals /\ ScanOK(w) /\ TypeOK
  BY DEF IInv, TypeOK
<1>3. /\ worker[w].at \in Nat /\ worker[w].end \in Nat /\ worker[w].latest \in Nat
      /\ worker[w].todo \subseteq Txs /\ worker[w].known \subseteq Users /\ head \in Nat
  BY <1>2, DepositsAssumption DEF Locals, TypeOK
<1>4. CASE FetchLatest(w)
  <2>1. worker'[w] = [Idle EXCEPT !.pc = "pointer", !.latest = head]
    BY <1>2, <1>4 DEF FetchLatest, Step, TypeOK
  <2>2. worker'[w].pc = "pointer" /\ worker'[w].latest = head
    BY <2>1 DEF Idle
  <2> QED
    BY <1>1, <1>2, <2>2, DepositsAssumption DEF ScanOK, CreditOK, chain, TypeOK
<1>5. CASE ReadPointer(w)
  <2>1. worker[w].latest \in 1..head
    BY <1>2, <1>5 DEF ReadPointer, At, ScanOK
  <2>2. CASE pointer = NoRow
    <3>1. worker'[w] = [worker[w] EXCEPT !.pc = "init"]
      BY <1>2, <1>5, <2>2 DEF ReadPointer, Step, TypeOK
    <3>2. worker'[w].pc = "init" /\ worker'[w].latest = worker[w].latest
      BY <1>2, <3>1 DEF Locals
    <3> QED
      BY <1>1, <2>1, <3>2 DEF ScanOK, CreditOK, chain
  <2>3. CASE pointer # NoRow
    <3>1. pointer \in Nat /\ pointer <= head /\ Covered(pointer) /\ pointer' = pointer
      BY <1>2, <1>5, <2>3 DEF IInv, TypeOK, PointerCovered, ReadPointer, tables
    <3>2. Covered(pointer)'
      BY <1>5, <3>1 DEF ReadPointer, Covered, Recorded, chain, tables
    <3> QED
      BY <1>1, <1>5, <2>1, <2>3, <3>1, <3>2, PlanScanOK DEF ReadPointer, Covered
  <2> QED
    BY <2>2, <2>3
<1>6. CASE InitPointer(w)
  <2>1. worker[w].latest \in 1..head
    BY <1>2, <1>6 DEF InitPointer, At, ScanOK
  <2>2. CASE pointer # NoRow
    BY <1>2, <1>6, <2>2, ReturnOK DEF InitPointer
  <2>3. CASE pointer = NoRow
    <3>1. PICK last \in Nat : last = worker[w].latest - 1
      BY <1>3, <2>1
    <3>2. pointer' = last /\ start' = last /\ PlanScan(w, last)
      BY <1>6, <2>3, <3>1 DEF InitPointer
    <3>3. Covered(last)'
      BY <3>2, DepositsAssumption DEF Covered, TypeOK
    <3> QED
      BY <1>1, <2>1, <3>2, <3>3, PlanScanOK, DepositsAssumption
  <2> QED
    BY <2>2, <2>3
<1>7. CASE LoadAddresses(w) \/ AddressesCutShort(w)
  <2>1. PICK read \in SUBSET addrs :
            /\ ScanFor(w, read)
            /\ \/ read = addrs
               \/ missed' = missed \cup UNION {PaymentsIn(b, addrs \ read) :
                                                b \in worker[w].at .. worker[w].end}
    BY <1>7 DEF LoadAddresses, AddressesCutShort
  <2>2. worker'[w] = [worker[w] EXCEPT !.pc = IF read = {} THEN "skip" ELSE "block", !.known = read]
    BY <1>2, <2>1 DEF ScanFor, Step, TypeOK
  <2>3. /\ worker'[w].pc = IF read = {} THEN "skip" ELSE "block"
        /\ worker'[w].known = read
        /\ worker'[w].at = worker[w].at /\ worker'[w].end = worker[w].end
    BY <1>2, <2>2 DEF Locals
  <2>4. InRange(w)
    BY <1>2, <1>7 DEF LoadAddresses, AddressesCutShort, At, ScanOK
  <2>5. Covered(worker[w].at - 1)'
    <3>1. Covered(worker[w].at - 1)
      BY <2>4 DEF InRange
    <3>2. start' = start /\ block' = block /\ \A x \in Txs : Recorded(x) => Recorded(x)'
      BY <1>1, <1>7 DEF Grows, chain, LoadAddresses, AddressesCutShort
    <3> QED
      BY <2>3, <3>1, <3>2 DEF Covered
  <2>6. InRange(w)'
    BY <1>1, <2>3, <2>4, <2>5 DEF InRange, chain, Grows
  <2>7. KnowsRecipients(w)'
    <3> SUFFICES ASSUME NEW t \in Txs, block[t] \in worker[w].at .. worker[w].end,
                        Amount[t] > 0, Recipient[t] \notin read
                 PROVE  Recorded(t)'
      BY <1>1, <2>3 DEF KnowsRecipients, chain
    <3>1. block[t] > 0
      BY <1>3, <2>4 DEF InRange
    <3>2. Recipient[t] \in addrs \ read
      BY <3>1 DEF IInv, Mined
    <3>3. t \in PaymentsIn(block[t], addrs \ read)
      BY <3>2 DEF PaymentsIn
    <3> QED
      BY <2>1, <3>2, <3>3 DEF Recorded
  <2> QED
    BY <2>3, <2>6, <2>7 DEF ScanOK, CreditOK
<1>8. CASE SkipBlocks(w) \/ ScanFails(w)
  BY <1>2, <1>8, ReturnOK DEF SkipBlocks, ScanFails
<1>9. CASE FetchBlock(w)
  <2>1. worker'[w] = [worker[w] EXCEPT !.pc = "store",
                                       !.todo = PaymentsIn(worker[w].at, worker[w].known)]
    BY <1>2, <1>9 DEF FetchBlock, Step, TypeOK
  <2>2. /\ worker'[w].pc = "store"
        /\ worker'[w].todo = PaymentsIn(worker[w].at, worker[w].known)
        /\ worker'[w].known = worker[w].known
        /\ worker'[w].at = worker[w].at /\ worker'[w].end = worker[w].end
    BY <1>2, <2>1 DEF Locals
  <2>3. InRange(w) /\ KnowsRecipients(w)
    BY <1>2, <1>9 DEF FetchBlock, At, ScanOK
  <2>4. InRange(w)'
    BY <1>1, <1>9, <2>2, <2>3 DEF InRange, FetchBlock, chain, tables, Covered, Recorded
  <2>5. KnowsRecipients(w)'
    BY <1>1, <2>2, <2>3 DEF KnowsRecipients, chain, Grows
  <2>6. \A t \in Txs : block[t] = worker[w].at /\ Amount[t] > 0
            => Recipient[t] \in worker[w].known \/ Recorded(t)
    BY <1>3, <2>3 DEF InRange, KnowsRecipients
  <2>7. StoredOrTodo(w)'
    BY <1>1, <2>2, <2>6 DEF StoredOrTodo, PaymentsIn, chain, Grows
  <2> QED
    BY <2>2, <2>4, <2>5, <2>7 DEF ScanOK, CreditOK
<1>10. CASE StoreDeposit(w) \/ StoreDepositFails(w)
  <2>1. PICK t \in worker[w].todo :
            /\ Step(w, [worker[w] EXCEPT !.todo = @ \ {t}])
            /\ \/ status' = IF status[t] = "NONE" THEN [status EXCEPT ![t] = "PENDING"] ELSE status
               \/ missed' = missed \cup {t}
    BY <1>10 DEF StoreDeposit, StoreDepositFails
  <2>2. worker'[w] = [worker[w] EXCEPT !.todo = @ \ {t}]
    BY <1>2, <2>1 DEF Step, TypeOK
  <2>3. /\ worker'[w].pc = worker[w].pc /\ worker[w].pc = "store"
        /\ worker'[w].todo = worker[w].todo \ {t}
        /\ worker'[w].known = worker[w].known
        /\ worker'[w].at = worker[w].at /\ worker'[w].end = worker[w].end
    BY <1>2, <1>10, <2>2 DEF Locals, StoreDeposit, StoreDepositFails, At
  <2>4. InRange(w) /\ KnowsRecipients(w) /\ StoredOrTodo(w)
    BY <1>2, <2>3 DEF ScanOK
  <2>5. Covered(worker[w].at - 1)'
    <3>1. Covered(worker[w].at - 1)
      BY <2>4 DEF InRange
    <3>2. start' = start /\ block' = block /\ \A x \in Txs : Recorded(x) => Recorded(x)'
      BY <1>1, <1>10 DEF Grows, chain, StoreDeposit, StoreDepositFails
    <3> QED
      BY <2>3, <3>1, <3>2 DEF Covered
  <2>6. InRange(w)'
    BY <1>1, <2>3, <2>4, <2>5 DEF InRange, chain, Grows
  <2>7. KnowsRecipients(w)'
    BY <1>1, <2>3, <2>4 DEF KnowsRecipients, chain, Grows
  <2>8. Recorded(t)'
    BY <1>2, <1>3, <2>1 DEF Recorded, TypeOK
  <2>9. StoredOrTodo(w)'
    BY <1>1, <2>3, <2>4, <2>8 DEF StoredOrTodo, chain, Grows
  <2> QED
    BY <2>3, <2>6, <2>7, <2>9 DEF ScanOK, CreditOK
<1>11. CASE AdvancePointer(w)
  <2>1. InRange(w) /\ KnowsRecipients(w) /\ StoredOrTodo(w)
    BY <1>2, <1>11 DEF AdvancePointer, At, ScanOK
  <2>2. CASE worker[w].at = worker[w].end
    BY <1>2, <1>11, <2>2, ReturnOK DEF AdvancePointer
  <2>3. CASE worker[w].at # worker[w].end
    <3>1. worker'[w] = [worker[w] EXCEPT !.pc = "block", !.at = @ + 1]
      BY <1>2, <1>11, <2>3 DEF AdvancePointer, Step, TypeOK
    <3>2. /\ worker'[w].pc = "block" /\ worker'[w].known = worker[w].known
          /\ worker'[w].at = worker[w].at + 1 /\ worker'[w].end = worker[w].end
      BY <1>2, <3>1 DEF Locals
    <3>3. Covered(worker[w].at)
      BY <1>2, <1>3, <1>11, <2>1, DepositsAssumption
         DEF InRange, StoredOrTodo, AdvancePointer, Covered, TypeOK
    <3>4. Covered(worker[w].at - 1)'
      <4>1. worker'[w].at - 1 = worker[w].at
        BY <1>3, <3>2
      <4> QED
        BY <1>1, <1>11, <3>3, <4>1 DEF Covered, Recorded, chain, AdvancePointer
    <3>5. worker[w].at + 1 <= worker[w].end /\ worker[w].at + 1 >= 1
      BY <1>3, <2>1, <2>3 DEF InRange
    <3>6. InRange(w)'
      BY <1>1, <2>1, <3>2, <3>4, <3>5 DEF InRange, chain, Grows
    <3>7. KnowsRecipients(w)'
      BY <1>1, <1>3, <2>1, <3>2, DepositsAssumption DEF KnowsRecipients, chain, Grows, IInv, TypeOK
    <3> QED
      BY <3>2, <3>6, <3>7 DEF ScanOK, CreditOK
  <2> QED
    BY <2>2, <2>3
<1> QED
  BY <1>4, <1>5, <1>6, <1>7, <1>8, <1>9, <1>10, <1>11 DEF Scan

LEMMA ConfirmActorOK ==
    ASSUME IInv, NEW w \in Workers, Confirm(w)
    PROVE  ScanOK(w)' /\ CreditOK(w)'
<1>1. TypeOK /\ worker[w] \in Locals /\ CreditOK(w)
  BY DEF IInv, TypeOK
<1>2. chain' = chain
  BY ReplicaGrows
<1>3. CASE EndConfirm(w) \/ Crash(w)
  BY <1>1, <1>3, ReturnOK DEF EndConfirm, Crash
<1>4. CASE MarkConfirming(w) \/ Credit(w) \/ CreditRefused(w) \/ ConfirmFails(w)
  <2>1. \E k : NextDeposit(w, k)
    BY <1>4 DEF MarkConfirming, Credit, CreditRefused, ConfirmFails
  <2>2. worker'[w].pc = "confirm"
    BY <1>1, <2>1 DEF NextDeposit, Step, TypeOK, Locals
  <2> QED
    BY <2>2, QuietOK
<1>5. CASE ConfirmDeposits(w)
  <2>1. worker'[w].pc = "confirm"
    BY <1>1, <1>5 DEF ConfirmDeposits, Step, TypeOK, Idle
  <2> QED
    BY <2>1, QuietOK
<1>6. CASE QueryConfirmations(w)
  <2>1. PICK t \in worker[w].todo :
            Step(w, [worker[w] EXCEPT !.pc = IF Deep(t) THEN "begin" ELSE "mark",
                                      !.todo = @ \ {t}, !.dep = {t}])
    BY <1>6 DEF QueryConfirmations
  <2>2. t \in Txs
    BY <1>1 DEF Locals
  <2>3. worker'[w].pc = (IF Deep(t) THEN "begin" ELSE "mark") /\ worker'[w].dep = {t}
    BY <1>1, <2>1 DEF Step, TypeOK, Locals
  <2>4. Deep(t) => Mature(t)
    BY <1>1, <2>2, DepositsAssumption DEF Deep, Confirmations, Mature, TypeOK
  <2>5. Deep(t) => Mature(t)'
    BY <1>2, <2>4 DEF Mature, chain
  <2> QED
    BY <2>3, <2>5 DEF ScanOK, CreditOK
<1>7. CASE BeginCredit(w)
  <2>1. PICK t \in worker[w].dep :
            Step(w, [worker[w] EXCEPT !.pc = "credit", !.seen = balance[Recipient[t]]])
    BY <1>7 DEF BeginCredit
  <2>2. worker'[w].pc = "credit" /\ worker'[w].dep = worker[w].dep
    BY <1>1, <2>1 DEF Step, TypeOK, Locals
  <2>3. \A x \in worker[w].dep : Mature(x)
    BY <1>1, <1>7 DEF BeginCredit, At, CreditOK
  <2> QED
    BY <1>2, <2>2, <2>3 DEF ScanOK, CreditOK, Mature, chain
<1> QED
  BY <1>3, <1>4, <1>5, <1>6, <1>7 DEF Confirm

(* A step of one replica moves no other. *)
LEMMA OthersStand ==
    ASSUME IInv, NEW w \in Workers, Scan(w) \/ Confirm(w), NEW x \in Workers, x # w
    PROVE  worker'[x] = worker[x]
<1>1. \E l : Step(w, l)
  BY DEF Scan, Confirm, FetchLatest, ReadPointer, InitPointer, LoadAddresses, AddressesCutShort, SkipBlocks,
         FetchBlock, StoreDeposit, StoreDepositFails, AdvancePointer, ScanFails,
         ConfirmDeposits, QueryConfirmations, MarkConfirming, BeginCredit, Credit,
         CreditRefused, ConfirmFails, EndConfirm, Crash, PlanScan, ScanFor, Return, NextDeposit
<1> QED
  BY <1>1 DEF Step, IInv, TypeOK

LEMMA WorkersStep ==
    ASSUME IInv, TypeOK', Next, NEW x \in Workers
    PROVE  ScanOK(x)' /\ CreditOK(x)'
<1>1. CASE Environment
  <2>1. Grows /\ worker' = worker
    BY <1>1, EnvironmentGrows DEF Environment, AddAddress, MineBlock
  <2> QED
    BY <2>1, BystanderOK DEF IInv
<1>2. ASSUME NEW w \in Workers, Scan(w) \/ Confirm(w)
      PROVE  ScanOK(x)' /\ CreditOK(x)'
  <2>1. CASE x = w
    BY <1>2, <2>1, ScanActorOK, ConfirmActorOK
  <2>2. CASE x # w
    <3>1. worker'[x] = worker[x] /\ Grows
      BY <1>2, <2>2, OthersStand, ReplicaGrows
    <3> QED
      BY <3>1, BystanderOK DEF IInv
  <2> QED
    BY <2>1, <2>2
<1> QED
  BY <1>1, <1>2, NextSplit

LEMMA PointerStep ==
    ASSUME IInv, TypeOK', Next
    PROVE  PointerCovered'
<1>1. ASSUME Grows, pointer' = pointer PROVE PointerCovered'
  <2>1. SUFFICES ASSUME pointer # NoRow PROVE pointer' <= head' /\ Covered(pointer)'
    BY <1>1 DEF PointerCovered
  <2>2. pointer \in Nat /\ pointer <= head /\ Covered(pointer)
    BY <2>1 DEF IInv, TypeOK, PointerCovered
  <2>3. Covered(pointer)'
    <3>1. PICK b \in Int : b = pointer
      BY <2>2
    <3>2. Covered(b)'
      BY <1>1, <2>1, <2>2, <3>1, CoveredStable DEF IInv
    <3> QED
      BY <1>1, <3>1, <3>2 DEF Covered
  <2> QED
    BY <1>1, <2>2, <2>3, DepositsAssumption DEF Grows, IInv, TypeOK
<1>2. CASE Environment
  BY <1>1, <1>2, EnvironmentGrows DEF Environment, AddAddress, MineBlock, tables
<1>3. ASSUME NEW w \in Workers, Scan(w) \/ Confirm(w) PROVE PointerCovered'
  <2>1. Grows /\ chain' = chain
    BY <1>3, ReplicaGrows
  <2>2. worker[w].at \in Nat /\ worker[w].end \in Nat /\ worker[w].latest \in Nat /\ head \in Nat
    BY DepositsAssumption DEF IInv, TypeOK, Locals
  <2>3. CASE InitPointer(w)
    <3>1. CASE pointer = NoRow
      <4>1. worker[w].latest \in 1..head
        BY <2>3 DEF InitPointer, At, IInv, ScanOK
      <4>2. pointer' = worker[w].latest - 1 /\ start' = worker[w].latest - 1
        BY <2>3, <3>1 DEF InitPointer
      <4> QED
        BY <2>1, <2>2, <4>1, <4>2, DepositsAssumption DEF PointerCovered, Covered, chain, TypeOK
    <3>2. CASE pointer # NoRow
      BY <1>1, <2>1, <2>3, <3>2 DEF InitPointer
    <3> QED
      BY <3>1, <3>2
  <2>4. CASE SkipBlocks(w)
    <3>1. InRange(w) /\ KnowsRecipients(w) /\ worker[w].known = {}
      BY <2>4 DEF SkipBlocks, At, IInv, ScanOK
    <3>2. \A t \in Txs :
              block[t] \in worker[w].at .. worker[w].end /\ Amount[t] > 0 => Recorded(t)
      BY <3>1 DEF KnowsRecipients
    <3>3. Covered(worker[w].end)
      BY <2>2, <3>1, <3>2, DepositsAssumption DEF InRange, Covered, IInv, TypeOK
    <3>4. pointer' = worker[w].end /\ status' = status /\ missed' = missed /\ start' = start
      BY <2>4 DEF SkipBlocks
    <3> QED
      BY <2>1, <3>1, <3>3, <3>4 DEF PointerCovered, Covered, Recorded, InRange, chain
  <2>5. CASE AdvancePointer(w)
    <3>1. InRange(w) /\ StoredOrTodo(w) /\ worker[w].todo = {}
      BY <2>5 DEF AdvancePointer, At, IInv, ScanOK
    <3>2. Covered(worker[w].at)
      BY <2>2, <3>1, DepositsAssumption DEF InRange, StoredOrTodo, Covered, IInv, TypeOK
    <3>3. pointer' = worker[w].at /\ status' = status /\ missed' = missed /\ start' = start
      BY <2>5 DEF AdvancePointer
    <3>4. worker[w].at <= head
      BY <2>2, <3>1 DEF InRange
    <3> QED
      BY <2>1, <3>2, <3>3, <3>4 DEF PointerCovered, Covered, Recorded, chain
  <2>6. CASE ~InitPointer(w) /\ ~SkipBlocks(w) /\ ~AdvancePointer(w)
    <3>1. pointer' = pointer
      BY <1>3, <2>6 DEF Scan, Confirm, FetchLatest, ReadPointer, LoadAddresses, AddressesCutShort,
             FetchBlock, StoreDeposit, StoreDepositFails, ScanFails, tables,
             ConfirmDeposits, QueryConfirmations, MarkConfirming, BeginCredit, Credit,
             CreditRefused, ConfirmFails, EndConfirm, Crash
    <3> QED
      BY <1>1, <2>1, <3>1
  <2> QED
    BY <2>3, <2>4, <2>5, <2>6
<1> QED
  BY <1>2, <1>3, NextSplit

LEMMA ConfirmedStep ==
    ASSUME IInv, TypeOK', Next
    PROVE  ConfirmedMeansCredited'
<1>1. CASE Environment
  <2>1. Grows /\ status' = status /\ ledger' = ledger
    BY <1>1, EnvironmentGrows DEF Environment, AddAddress, MineBlock, tables
  <2>2. \A t \in Txs : block[t] > 0 => block'[t] = block[t]
    BY <2>1, DepositsAssumption DEF Grows, IInv, TypeOK
  <2> QED
    BY <2>1, <2>2, DepositsAssumption DEF ConfirmedMeansCredited, Grows, IInv, TypeOK
<1>2. ASSUME NEW w \in Workers, Scan(w) \/ Confirm(w) PROVE ConfirmedMeansCredited'
  <2>1. chain' = chain
    BY <1>2, ReplicaGrows
  <2>2. CASE StoreDeposit(w)
    BY <2>1, <2>2 DEF StoreDeposit, ConfirmedMeansCredited, IInv, TypeOK, chain
  <2>3. CASE MarkConfirming(w)
    BY <2>1, <2>3 DEF MarkConfirming, ConfirmedMeansCredited, IInv, TypeOK, chain
  <2>4. CASE Credit(w)
    <3>1. PICK t \in worker[w].dep : ledger' = ledger \cup {t} /\ status' = [status EXCEPT ![t] = "CONFIRMED"]
      BY <2>4 DEF Credit
    <3>2. t \in Txs /\ Mature(t)
      BY <2>4 DEF Credit, At, IInv, CreditOK, TypeOK, Locals
    <3> QED
      BY <2>1, <3>1, <3>2 DEF ConfirmedMeansCredited, Mature, IInv, TypeOK, chain
  <2>5. CASE ~StoreDeposit(w) /\ ~MarkConfirming(w) /\ ~Credit(w)
    <3>1. status' = status /\ ledger' = ledger
      BY <1>2, <2>5 DEF Scan, Confirm, FetchLatest, ReadPointer, InitPointer, LoadAddresses, AddressesCutShort, SkipBlocks,
             FetchBlock, StoreDepositFails, AdvancePointer, ScanFails, tables,
             ConfirmDeposits, QueryConfirmations, BeginCredit,
             CreditRefused, ConfirmFails, EndConfirm, Crash
    <3> QED
      BY <2>1, <3>1 DEF ConfirmedMeansCredited, IInv, chain
  <2> QED
    BY <2>2, <2>3, <2>4, <2>5
<1> QED
  BY <1>1, <1>2, NextSplit

-------------------------------------------------------------------------------
(* The inductive invariant of the wallet workers holds in every reachable   *)
(* state: scanned blocks are covered, each scan knows the recipients of all *)
(* blocks it may read, and a transaction is opened only for deep deposits.  *)
THEOREM DepositsInductive == Spec => []IInv
<1>1. Init => IInv
  <2>1. SUFFICES ASSUME Init PROVE IInv
    OBVIOUS
  <2>2. TypeOK
    BY <2>1, IdleType, DepositsAssumption DEF Init, TypeOK, Statuses
  <2>3. \A w \in Workers : worker[w].pc = "idle"
    BY <2>1 DEF Init, Idle
  <2>4. Mined /\ PointerCovered /\ ConfirmedMeansCredited
    BY <2>1 DEF Init, Mined, PointerCovered, ConfirmedMeansCredited
  <2> QED
    BY <2>2, <2>3, <2>4 DEF IInv, ScanOK, CreditOK
<1>2. IInv /\ [Next]_vars => IInv'
  <2>1. ASSUME IInv, Next PROVE IInv'
    BY <2>1, TypeStep, MinedStep, PointerStep, ConfirmedStep, WorkersStep DEF IInv
  <2>2. ASSUME IInv, UNCHANGED vars PROVE IInv'
    BY <2>2 DEF IInv, vars, chain, tables, TypeOK, Mined, PointerCovered, ConfirmedMeansCredited,
                ScanOK, CreditOK, InRange, KnowsRecipients, StoredOrTodo, Covered, Recorded, Mature
  <2> QED
    BY <2>1, <2>2
<1> QED
  BY <1>1, <1>2, PTL DEF Spec

(* Every reachable state of the wallet workers is type correct. *)
THEOREM DepositsTypeCorrect == Spec => []TypeOK
<1>1. IInv => TypeOK
  BY DEF IInv
<1> QED
  BY <1>1, DepositsInductive, PTL

(* Whatever replicas interleave, crash and fail, the scanner pointer never  *)
(* passes a payment to a tracked address that has no deposits row, except   *)
(* one whose INSERT failed (ScanBlocks).                                    *)
THEOREM ScannerMissesNothing == Spec => []NoDepositMissed
<1>1. IInv => NoDepositMissed
  BY DEF IInv, PointerCovered, Covered, Recorded, NoDepositMissed
<1> QED
  BY <1>1, DepositsInductive, PTL

(* CONFIRMED deposits are credited, and only deposits with the required     *)
(* confirmations ever are (ConfirmDeposits).                                *)
THEOREM OnlyDeepDepositsCredited == Spec => []ConfirmedMeansCredited
<1>1. IInv => ConfirmedMeansCredited
  BY DEF IInv
<1> QED
  BY <1>1, DepositsInductive, PTL

-------------------------------------------------------------------------------
(* Each deposit is credited once *)

(* A transaction that has read a balance row holds its lock, so the value   *)
(* it has seen is the value in the row.                                     *)
LockOK(w) ==
    /\ worker[w].pc \in {"begin", "credit"} => \E t \in Txs : worker[w].dep = {t}
    /\ worker[w].pc = "credit" /\ worker[w].seen # NoRow =>
           \A t \in worker[w].dep : /\ rowLock[Recipient[t]] = {w}
                                    /\ balance[Recipient[t]] = worker[w].seen

ValueOf(b)  == IF b = NoRow THEN 0 ELSE b
To(u)       == {t \in Txs : Recipient[t] = u}
Credited(u) == SumFunctionOnSet(Amount, ledger \cap To(u))

BalanceOK(u) == ValueOf(balance[u]) = ValueOf(Opening[u]) + Credited(u)

CreditInv ==
    /\ IsFiniteSet(ledger)
    /\ \A w \in Workers : LockOK(w)
    /\ \A u \in Users : BalanceOK(u)

(* Steps that leave the balances, their locks and the open transactions     *)
(* alone.                                                                   *)
LEMMA CreditQuiet ==
    ASSUME IInv, CreditInv, UNCHANGED <<ledger, balance, rowLock>>,
           \A w \in Workers : \/ worker'[w] = worker[w]
                              \/ worker'[w].pc \notin {"begin", "credit"}
                              \/ /\ worker'[w].pc = "begin"
                                 /\ \E t \in Txs : worker'[w].dep = {t}
    PROVE  CreditInv'
<1>1. \A u \in Users : BalanceOK(u)'
  BY DEF CreditInv, BalanceOK, Credited, ValueOf, To
<1>2. ASSUME NEW w \in Workers PROVE LockOK(w)'
  <2>1. LockOK(w)
    BY DEF CreditInv
  <2> QED
    BY <2>1 DEF LockOK
<1> QED
  BY <1>1, <1>2 DEF CreditInv

(* A transaction ends without effect: its locks are freed.                  *)
LEMMA CreditUnlock ==
    ASSUME IInv, CreditInv, NEW w \in Workers, UNCHANGED <<ledger, balance>>, Unlock(w),
           \A x \in Workers : x # w => worker'[x] = worker[x],
           worker'[w].pc \notin {"begin", "credit"}
    PROVE  CreditInv'
<1>1. \A u \in Users : BalanceOK(u)'
  BY DEF CreditInv, BalanceOK, Credited, ValueOf, To
<1>2. ASSUME NEW x \in Workers PROVE LockOK(x)'
  <2>1. LockOK(x)
    BY DEF CreditInv
  <2>2. CASE x = w
    BY <2>2 DEF LockOK
  <2>3. CASE x # w
    <3>1. worker'[x] = worker[x] /\ balance' = balance
      BY <2>3
    <3>2. ASSUME NEW t \in worker[x].dep, rowLock[Recipient[t]] = {x}
          PROVE  rowLock'[Recipient[t]] = {x}
      <4>1. worker[x] \in Locals
        BY DEF IInv, TypeOK
      <4>2. t \in Txs
        BY <4>1 DEF Locals
      <4>3. Recipient[t] \in Users
        BY <4>2, DepositsAssumption
      <4> QED
        BY <2>3, <3>2, <4>3 DEF Unlock
    <3> QED
      BY <2>1, <3>1, <3>2 DEF LockOK
  <2> QED
    BY <2>2, <2>3
<1> QED
  BY <1>1, <1>2 DEF CreditInv

LEMMA CreditBegins ==
    ASSUME IInv, CreditInv, NEW w \in Workers, BeginCredit(w)
    PROVE  CreditInv'
<1>1. PICK t \in worker[w].dep :
          /\ rowLock[Recipient[t]] = {}
          /\ rowLock' = IF balance[Recipient[t]] = NoRow THEN rowLock
                        ELSE [rowLock EXCEPT ![Recipient[t]] = {w}]
          /\ Step(w, [worker[w] EXCEPT !.pc = "credit", !.seen = balance[Recipient[t]]])
  BY DEF BeginCredit
<1>2. /\ ledger' = ledger /\ balance' = balance /\ worker[w].pc = "begin"
      /\ worker \in [Workers -> Locals] /\ rowLock \in [Users -> SUBSET Workers]
  BY DEF BeginCredit, At, IInv, TypeOK
<1>3. \A u \in Users : BalanceOK(u)'
  BY <1>2 DEF CreditInv, BalanceOK, Credited, ValueOf, To
<1>4. /\ worker'[w].pc = "credit" /\ worker'[w].dep = worker[w].dep
      /\ worker'[w].seen = balance[Recipient[t]]
      /\ \A x \in Workers : x # w => worker'[x] = worker[x]
  BY <1>1, <1>2 DEF Step, Locals
<1>5. worker[w].dep = {t} /\ t \in Txs
  BY <1>2 DEF CreditInv, LockOK
<1>6. Recipient[t] \in Users
  BY <1>5, DepositsAssumption
<1>7. ASSUME NEW x \in Workers PROVE LockOK(x)'
  <2>1. LockOK(x)
    BY DEF CreditInv
  <2>2. CASE x = w
    BY <1>1, <1>2, <1>4, <1>5, <1>6, <2>2 DEF LockOK
  <2>3. CASE x # w
    <3>1. worker'[x] = worker[x]
      BY <1>4, <2>3
    <3>2. ASSUME NEW y \in worker[x].dep, rowLock[Recipient[y]] = {x}
          PROVE  rowLock'[Recipient[y]] = {x}
      <4>1. Recipient[y] # Recipient[t]
        BY <1>1, <3>2
      <4> QED
        BY <1>1, <1>2, <1>6, <3>2, <4>1
    <3> QED
      BY <1>2, <2>1, <3>1, <3>2 DEF LockOK
  <2> QED
    BY <2>2, <2>3
<1> QED
  BY <1>2, <1>3, <1>7 DEF CreditInv

LEMMA CreditCommits ==
    ASSUME IInv, CreditInv, NEW w \in Workers, Credit(w)
    PROVE  CreditInv'
<1>1. PICK t \in worker[w].dep :
          /\ ~KeyExists(w, t)
          /\ balance' = [balance EXCEPT ![Recipient[t]] =
                             Amount[t] + (IF worker[w].seen = NoRow THEN 0 ELSE worker[w].seen)]
          /\ ledger' = ledger \cup {t}
  BY DEF Credit
<1>2. PICK u : u = Recipient[t]
  OBVIOUS
<1>3. /\ worker \in [Workers -> Locals] /\ rowLock \in [Users -> SUBSET Workers]
      /\ balance \in [Users -> Nat \cup {NoRow}] /\ ledger \subseteq Txs
      /\ worker[w].pc = "credit"
  BY DEF Credit, At, IInv, TypeOK
<1>4. worker[w].dep = {t} /\ t \in Txs /\ worker[w].seen \in Nat \cup {NoRow}
  BY <1>3 DEF CreditInv, LockOK, Locals
<1>5. u \in Users /\ Amount[t] \in Nat /\ NoRow \notin Nat /\ Amount \in [Txs -> Nat]
  BY <1>2, <1>4, DepositsAssumption
<1>6. /\ t \notin ledger
      /\ worker[w].seen = balance[u]
      /\ worker[w].seen # NoRow => rowLock[u] = {w}
  BY <1>1, <1>2, <1>3, <1>4 DEF KeyExists, CreditInv, LockOK
<1>7. /\ balance'[u] = Amount[t] + ValueOf(balance[u]) /\ ValueOf(balance[u]) \in Nat
      /\ \A v \in Users : v # u => balance'[v] = balance[v]
  BY <1>1, <1>2, <1>3, <1>5, <1>6 DEF ValueOf
<1>8. IsFiniteSet(ledger) /\ IsFiniteSet(ledger')
  BY <1>1, FS_AddElement DEF CreditInv
<1>9. ASSUME NEW v \in Users PROVE BalanceOK(v)'
  <2>1. BalanceOK(v) /\ ValueOf(Opening[v]) \in Int
    BY DepositsAssumption DEF CreditInv, ValueOf
  <2>2. PICK R, T, U : R = To(v) /\ T = (ledger \cup {t}) \cap R /\ U = ledger \cap R
    OBVIOUS
  <2>3. \A y \in ledger \cup {t} : Amount[y] \in Int
    BY <1>3, <1>4, <1>5
  <2>4. SumFunctionOnSet(Amount, T)
            = SumFunctionOnSet(Amount, U) + (IF t \in R THEN Amount[t] ELSE 0)
    BY <1>6, <1>8, <2>2, <2>3, SumWithin
  <2>5. Credited(v) = SumFunctionOnSet(Amount, U)
    BY <2>2 DEF Credited
  <2>6. Credited(v)' = SumFunctionOnSet(Amount, T)
    BY <1>1, <2>2 DEF Credited, To
  <2>7. SumFunctionOnSet(Amount, U) \in Int
    <3>1. IsFiniteSet(U) /\ \A y \in U : Amount[y] \in Int
      BY <1>8, <2>2, <2>3, FS_Subset
    <3> QED
      BY <3>1, SumType
  <2>8. PICK k \in Int : k = SumFunctionOnSet(Amount, U)
    BY <2>7
  <2>9. t \in R <=> v = u
    BY <1>2, <1>4, <2>2 DEF To
  <2>10. ValueOf(balance[v]) = ValueOf(Opening[v]) + k
    BY <2>1, <2>5, <2>8 DEF BalanceOK
  <2>11. CASE v = u
    <3>1. Credited(v)' = k + Amount[t]
      BY <2>4, <2>6, <2>8, <2>9, <2>11
    <3>2. ValueOf(balance'[v]) = Amount[t] + ValueOf(balance[v])
      BY <1>5, <1>7, <2>11 DEF ValueOf
    <3>3. ValueOf(balance'[v]) = ValueOf(Opening[v]) + (k + Amount[t])
      BY <1>5, <1>7, <2>1, <2>8, <2>10, <2>11, <3>2
    <3> QED
      BY <3>1, <3>3 DEF BalanceOK, ValueOf
  <2>12. CASE v # u
    <3>1. Credited(v)' = k
      BY <2>4, <2>6, <2>8, <2>9, <2>12
    <3>2. balance'[v] = balance[v]
      BY <1>7, <2>12
    <3> QED
      BY <2>10, <3>1, <3>2 DEF BalanceOK, ValueOf
  <2> QED
    BY <2>11, <2>12
<1>10. /\ worker'[w].pc = "confirm"
       /\ \A x \in Workers : x # w => worker'[x] = worker[x]
       /\ Unlock(w)
  BY <1>3 DEF Credit, NextDeposit, Step, Locals
<1>11. ASSUME NEW x \in Workers PROVE LockOK(x)'
  <2>1. LockOK(x)
    BY DEF CreditInv
  <2>2. CASE x = w
    BY <1>10, <2>2 DEF LockOK
  <2>3. CASE x # w
    <3>1. worker'[x] = worker[x] /\ worker[x] \in Locals
      BY <1>3, <1>10, <2>3
    <3>2. ASSUME NEW y \in worker[x].dep, rowLock[Recipient[y]] = {x}, worker[x].seen # NoRow,
                 balance[Recipient[y]] = worker[x].seen
          PROVE  rowLock'[Recipient[y]] = {x} /\ balance'[Recipient[y]] = worker[x].seen
      <4>1. y \in Txs
        BY <3>1 DEF Locals
      <4>2. Recipient[y] \in Users
        BY <4>1, DepositsAssumption
      <4>3. Recipient[y] # u
        BY <1>6, <2>3, <3>2
      <4> QED
        BY <1>7, <1>10, <2>3, <3>2, <4>2, <4>3 DEF Unlock
    <3> QED
      BY <2>1, <3>1, <3>2 DEF LockOK
  <2> QED
    BY <2>2, <2>3
<1> QED
  BY <1>8, <1>9, <1>11 DEF CreditInv

LEMMA CreditStep ==
    ASSUME IInv, CreditInv, [Next]_vars
    PROVE  CreditInv'
<1>1. CASE UNCHANGED vars
  BY <1>1, CreditQuiet DEF vars, tables
<1>2. CASE Environment
  <2>1. UNCHANGED <<ledger, balance, rowLock>> /\ worker' = worker
    BY <1>2 DEF Environment, AddAddress, MineBlock, tables
  <2> QED
    BY <2>1, CreditQuiet
<1>3. ASSUME NEW w \in Workers, Scan(w) PROVE CreditInv'
  <2>1. UNCHANGED <<ledger, balance, rowLock>>
    BY <1>3 DEF Scan, FetchLatest, ReadPointer, InitPointer, LoadAddresses, AddressesCutShort, SkipBlocks,
                FetchBlock, StoreDeposit, StoreDepositFails, AdvancePointer, ScanFails, tables
  <2>2. worker'[w].pc \notin {"begin", "credit"}
    <3>1. worker[w] \in Locals /\ worker \in [Workers -> Locals]
      BY DEF IInv, TypeOK
    <3>2. ASSUME Return(w) PROVE worker'[w].pc = "idle"
      BY <3>1, <3>2 DEF Return, Step, Idle
    <3>3. ASSUME NEW last, PlanScan(w, last) PROVE worker'[w].pc \in {"idle", "addresses"}
      <4>1. CASE Return(w)
        BY <3>2, <4>1
      <4>2. CASE ~Return(w)
        BY <3>1, <3>3, <4>2 DEF PlanScan, Step, Idle
      <4> QED
        BY <4>1, <4>2
    <3>4. CASE FetchLatest(w)
      BY <3>1, <3>4 DEF FetchLatest, Step, Idle
    <3>5. CASE ReadPointer(w)
      <4>1. PlanScan(w, pointer) \/ Step(w, [worker[w] EXCEPT !.pc = "init"])
        BY <3>5 DEF ReadPointer
      <4>2. Step(w, [worker[w] EXCEPT !.pc = "init"]) => worker'[w].pc = "init"
        BY <3>1 DEF Step, Locals
      <4> QED
        BY <3>3, <4>1, <4>2
    <3>6. CASE InitPointer(w)
      BY <3>2, <3>3, <3>6 DEF InitPointer
    <3>7. CASE LoadAddresses(w) \/ AddressesCutShort(w) \/ FetchBlock(w)
      BY <3>1, <3>7 DEF LoadAddresses, AddressesCutShort, ScanFor, FetchBlock, Step, Locals
    <3>8. CASE StoreDeposit(w) \/ StoreDepositFails(w)
      BY <3>1, <3>8 DEF StoreDeposit, StoreDepositFails, Step, Locals, At
    <3>9. CASE SkipBlocks(w) \/ ScanFails(w)
      BY <3>2, <3>9 DEF SkipBlocks, ScanFails
    <3>10. CASE AdvancePointer(w)
      <4>1. Return(w) \/ Step(w, [worker[w] EXCEPT !.pc = "block", !.at = @ + 1])
        BY <3>10 DEF AdvancePointer
      <4>2. Step(w, [worker[w] EXCEPT !.pc = "block", !.at = @ + 1]) => worker'[w].pc = "block"
        BY <3>1 DEF Step, Locals
      <4> QED
        BY <3>2, <4>1, <4>2
    <3> QED
      BY <1>3, <3>4, <3>5, <3>6, <3>7, <3>8, <3>9, <3>10 DEF Scan
  <2>3. \A x \in Workers : x # w => worker'[x] = worker[x]
    BY <1>3, OthersStand
  <2> QED
    BY <2>1, <2>2, <2>3, CreditQuiet
<1>4. ASSUME NEW w \in Workers, Confirm(w) PROVE CreditInv'
  <2>0. /\ worker[w] \in Locals /\ worker \in [Workers -> Locals]
        /\ \A x \in Workers : x # w => worker'[x] = worker[x]
    BY <1>4, OthersStand DEF IInv, TypeOK
  <2>1. CASE ConfirmDeposits(w) \/ EndConfirm(w)
    <3>1. UNCHANGED <<ledger, balance, rowLock>>
      BY <2>1 DEF ConfirmDeposits, EndConfirm, tables
    <3>2. CASE ConfirmDeposits(w)
      <4>1. worker'[w].pc = "confirm"
        BY <2>0, <3>2 DEF ConfirmDeposits, Step, Idle
      <4> QED
        BY <2>0, <3>1, <4>1, CreditQuiet
    <3>3. CASE EndConfirm(w)
      <4>1. worker'[w].pc = "idle"
        BY <2>0, <3>3 DEF EndConfirm, Return, Step, Idle
      <4> QED
        BY <2>0, <3>1, <4>1, CreditQuiet
    <3> QED
      BY <2>1, <3>2, <3>3
  <2>2. CASE MarkConfirming(w)
    <3>1. UNCHANGED <<ledger, balance, rowLock>> /\ worker'[w].pc \notin {"begin", "credit"}
      BY <2>0, <2>2 DEF MarkConfirming, NextDeposit, Step, Locals
    <3> QED
      BY <2>0, <3>1, CreditQuiet
  <2>3. CASE QueryConfirmations(w)
    <3>1. PICK t \in worker[w].todo :
              Step(w, [worker[w] EXCEPT !.pc = IF Deep(t) THEN "begin" ELSE "mark",
                                        !.todo = @ \ {t}, !.dep = {t}])
      BY <2>3 DEF QueryConfirmations
    <3>2. t \in Txs
      BY <2>0 DEF Locals
    <3>3. worker'[w].pc \in {"begin", "mark"} /\ worker'[w].dep = {t}
      BY <2>0, <3>1 DEF Step, Locals
    <3>4. UNCHANGED <<ledger, balance, rowLock>>
      BY <2>3 DEF QueryConfirmations, tables
    <3> QED
      BY <2>0, <3>2, <3>3, <3>4, CreditQuiet
  <2>4. CASE BeginCredit(w)
    BY <2>4, CreditBegins
  <2>5. CASE Credit(w)
    BY <2>5, CreditCommits
  <2>6. CASE CreditRefused(w) \/ ConfirmFails(w)
    <3>1. UNCHANGED <<ledger, balance>> /\ Unlock(w) /\ \E k : NextDeposit(w, k)
      BY <2>6 DEF CreditRefused, ConfirmFails
    <3>2. worker'[w].pc \notin {"begin", "credit"}
      BY <2>0, <3>1 DEF NextDeposit, Step, Locals
    <3> QED
      BY <2>0, <3>1, <3>2, CreditUnlock
  <2>7. CASE Crash(w)
    <3>1. UNCHANGED <<ledger, balance>> /\ Unlock(w) /\ worker'[w].pc \notin {"begin", "credit"}
      BY <2>0, <2>7 DEF Crash, Return, Step, Idle
    <3> QED
      BY <2>0, <3>1, CreditUnlock
  <2> QED
    BY <1>4, <2>1, <2>2, <2>3, <2>4, <2>5, <2>6, <2>7 DEF Confirm
<1> QED
  BY <1>1, <1>2, <1>3, <1>4, NextSplit

(* The balance of a user is the opening balance plus the deposits credited, *)
(* each once, however replicas interleave, fail and crash: the row lock     *)
(* keeps what a transaction has read true until it commits, and the keys of *)
(* balances and ledger_entries refuse the rest (ConfirmDeposits).           *)
THEOREM DepositsCreditedOnce == Spec => []CreditedOnce
<1>1. ASSUME Init PROVE CreditInv
  <2>1. \A w \in Workers : worker[w].pc = "idle"
    BY <1>1 DEF Init, Idle
  <2>2. ASSUME NEW u \in Users PROVE BalanceOK(u)
    <3>1. ledger \cap To(u) = {} /\ balance = Opening
      BY <1>1 DEF Init
    <3>2. Credited(u) = 0
      BY <3>1, SumEmpty DEF Credited
    <3>3. ValueOf(Opening[u]) \in Int
      BY DepositsAssumption DEF ValueOf
    <3> QED
      BY <3>1, <3>2, <3>3 DEF BalanceOK
  <2> QED
    BY <1>1, <2>1, <2>2, FS_EmptySet DEF Init, CreditInv, LockOK
<1>2. IInv /\ CreditInv /\ [Next]_vars => CreditInv'
  BY CreditStep
<1>3. ASSUME IInv, CreditInv PROVE CreditedOnce
  <2> SUFFICES ASSUME NEW u \in Users
               PROVE  ValueOf(balance[u]) = ValueOf(Opening[u])
                          + SumFunction([t \in {x \in ledger : Recipient[x] = u} |-> Amount[t]])
    BY DEF CreditedOnce, ValueOf
  <2>1. ledger \subseteq Txs /\ IsFiniteSet(ledger) /\ BalanceOK(u)
    BY <1>3 DEF IInv, TypeOK, CreditInv
  <2>2. PICK T : T = {x \in ledger : Recipient[x] = u}
    OBVIOUS
  <2>3. T = ledger \cap To(u)
    BY <2>1, <2>2 DEF To
  <2> DEFINE f == [t \in T |-> Amount[t]]
  <2>4. SumFunction(f) = SumFunctionOnSet(f, T) /\ \A t \in T : f[t] = Amount[t]
    BY DEF SumFunction
  <2>5. IsFiniteSet(T)
    BY <2>1, <2>3, FS_Subset
  <2> HIDE DEF f
  <2>6. SumFunctionOnSet(f, T) = SumFunctionOnSet(Amount, T)
    BY <2>4, <2>5, SumSame
  <2> QED
    BY <2>1, <2>2, <2>3, <2>4, <2>6 DEF BalanceOK, Credited, f
<1> QED
  BY <1>1, <1>2, <1>3, DepositsInductive, PTL DEF Spec
===============================================================================
