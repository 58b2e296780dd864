---------------------------- MODULE OMSRouterProofs ----------------------------
(***************************************************************************)
(* Proofs about the order management system, for every set of orders and   *)
(* any interleaving of placement, cancellation, replacement, triggered     *)
(* stops and clearing.  What holds of the book is taken from               *)
(* MatcherProofs: every step of the router is a step of the book or leaves *)
(* it alone.                                                               *)
(***************************************************************************)
EXTENDS OMSRouter, Sums

P == INSTANCE MatcherProofs

-------------------------------------------------------------------------------
(* The book inside the router is the book of MatcherProofs *)

LEMMA SameConstants == M!Sides = P!Sides /\ M!OrderData = P!OrderData /\ M!Modes = P!Modes
BY DEF M!Sides, P!Sides, M!OrderData, P!OrderData, M!Kinds, P!Kinds, M!Modes, P!Modes

(* What MatcherProofs assumes of its constants.                            *)
LEMMA BookConstants == P!MatcherConstants
BY RouterAssumption, SameConstants DEF M!MatcherConstants, P!MatcherConstants

LEMMA SameState ==
    /\ M!Init <=> P!Init
    /\ M!TypeOK <=> P!TypeOK
    /\ M!TypeOK' <=> P!TypeOK'
    /\ \A s : M!Resting(s) = P!Resting(s)
    /\ \A o : M!Remaining(o) = P!Remaining(o)
BY DEF M!Init, P!Init, M!TypeOK, P!TypeOK, M!Sides, P!Sides, M!Modes, P!Modes,
       M!Statuses, P!Statuses, M!Trade, P!Trade, M!Resting, P!Resting, M!Range, P!Range,
       M!Remaining, P!Remaining

LEMMA SameSteps ==
    ASSUME NEW o
    PROVE  /\ M!Enter(o) <=> P!Enter(o)
           /\ M!Reject(o) <=> P!Reject(o)
           /\ M!AddStopOrder(o) <=> P!AddStopOrder(o)
           /\ M!CancelStopOrder(o) <=> P!CancelStopOrder(o)
           /\ M!CancelOrder(o) <=> P!CancelOrder(o)
           /\ M!MatchStep(o) <=> P!MatchStep(o)
<1> USE DEF M!Sides, P!Sides, M!Opposite, P!Opposite, M!Better, P!Better,
            M!Remaining, P!Remaining, M!IsStop, P!IsStop, M!IsLimit, P!IsLimit,
            M!Resting, P!Resting, M!Range, P!Range, M!BestLevel, P!BestLevel,
            M!Within, P!Within, M!bridge, P!bridge
<1>1. M!IsFOK(o) <=> P!IsFOK(o)
  BY DEF M!IsFOK, P!IsFOK, M!SumFunction, P!SumFunction, M!SumFunctionOnSet,
         P!SumFunctionOnSet, M!FoldFunctionOnSet, P!FoldFunctionOnSet,
         M!MapThenFoldSet, P!MapThenFoldSet
<1>2. M!Enter(o) <=> P!Enter(o)
  BY <1>1 DEF M!Enter, P!Enter, M!Calls, P!Calls, M!IsPostOnlyCrossing, P!IsPostOnlyCrossing
<1>3. M!Reject(o) <=> P!Reject(o)
  BY <1>1 DEF M!Reject, P!Reject, M!Calls, P!Calls, M!IsPostOnlyCrossing,
              P!IsPostOnlyCrossing
<1>4. M!AddStopOrder(o) <=> P!AddStopOrder(o)
  BY DEF M!AddStopOrder, P!AddStopOrder
<1>5. M!CancelStopOrder(o) <=> P!CancelStopOrder(o)
  BY DEF M!CancelStopOrder, P!CancelStopOrder
<1>6. M!CancelOrder(o) <=> P!CancelOrder(o)
  BY DEF M!CancelOrder, P!CancelOrder, M!RemoveFromLimits, P!RemoveFromLimits,
         M!Requeue, P!Requeue, M!RemoveAt, P!RemoveAt
<1>7. M!MatchStep(o) <=> P!MatchStep(o)
  BY DEF M!MatchStep, P!MatchStep, M!DropEmptyLevel, P!DropEmptyLevel,
         M!CancelNewest, P!CancelNewest, M!CancelOldest, P!CancelOldest,
         M!CancelBoth, P!CancelBoth, M!Fill, P!Fill, M!CancelRemainder,
         P!CancelRemainder, M!Rest, P!Rest, M!Return, P!Return, M!Matching, P!Matching,
         M!Meets, P!Meets, M!SelfTrade, P!SelfTrade, M!Requeue, P!Requeue,
         M!MatchQty, P!MatchQty, M!Min, P!Min, M!Fires, P!Fires, M!StatusAfter,
         P!StatusAfter, M!AddOrderToBook, P!AddOrderToBook
<1> QED
  BY <1>2, <1>3, <1>4, <1>5, <1>6, <1>7

(* A step of the router is a step of the book or leaves the book alone.    *)
LEMMA RouterStepsBook ==
    ASSUME [Next]_vars
    PROVE  [P!Next]_(P!vars)
<1>0. UNCHANGED bookVars => UNCHANGED P!vars
  BY DEF bookVars, P!vars
<1>1. CASE UNCHANGED vars
  BY <1>0, <1>1 DEF vars
<1>2. ASSUME NEW o \in Orders, RegisterStop(o) PROVE P!Next
  BY <1>2, SameSteps DEF RegisterStop, P!Next
<1>3. ASSUME NEW o \in Orders, CallMatchOrder(o) \/ RunTriggeredStop(o) PROVE P!Next
  BY <1>3, SameSteps DEF CallMatchOrder, RunTriggeredStop, P!Next
<1>4. ASSUME NEW o \in Orders, RunMatchOrder(o) PROVE P!Next
  BY <1>4, SameSteps DEF RunMatchOrder, P!Next
<1>5. ASSUME NEW o \in Orders, CancelOrder(o) PROVE P!Next
  BY <1>5, SameSteps DEF CancelOrder, P!Next
<1>6. ASSUME NEW o \in Orders,
             \/ SubmitOrder(o) \/ StartValidation(o) \/ RejectOrder(o) \/ ValidateOrder(o)
             \/ Accept(o) \/ QueueStop(o) \/ Queue(o) \/ MatchOrderReturns(o)
             \/ ProcessTrades(o) \/ UpdateTaker(o) \/ LoadMaker(o) \/ UpdateMaker(o)
             \/ CancelTransition(o) \/ CancelRelease(o)
      PROVE  UNCHANGED bookVars
  BY <1>6 DEF SubmitOrder, StartValidation, RejectOrder, ValidateOrder, Accept, QueueStop,
              Queue, MatchOrderReturns, ProcessTrades, UpdateTaker, LoadMaker, UpdateMaker,
              CancelTransition, CancelRelease
<1> QED
  BY <1>0, <1>1, <1>2, <1>3, <1>4, <1>5, <1>6 DEF Next, Arrive, Place

-------------------------------------------------------------------------------
(* The inductive invariant *)

NotEntered == {"idle", "created", "pending", "validated", "accepted", "queued"}

(* An order the book has not seen is fresh; a rejected one stays so.  A    *)
(* cancellation begins by taking the order out of the market, and a        *)
(* replacement is placed after that of the order it replaces began.        *)
Lifecycle(o) ==
    /\ oms[o] = "NONE" <=> pc[o] = "idle"
    /\ pc[o] \in NotEntered => o \in fresh
    /\ oms[o] = "REJECTED" => pc[o] = "done" /\ o \in fresh
    /\ oms[o] = "CANCELLED" => cpc[o] # "idle"
    /\ cpc[o] # "idle" => P!Out(o) /\ oms[o] # "NONE"
    /\ pc[o] # "idle" /\ Replaces[o] # NoOrder => cpc[Replaces[o]] # "idle"

(* What the goroutine of o still has to do with its trades.                *)
Clearing(o) ==
    /\ \A i \in todo[o] : trades[i].taker = o
    /\ pc[o] \in {"clearing", "updating", "writing"} => todo[o] # {}
    /\ pc[o] \notin {"clearing", "updating", "makers", "writing"} => todo[o] = {}
    /\ pc[o] \in {"updating", "makers", "writing"} => todo[o] \subseteq cleared

RInv ==
    /\ P!IInv
    /\ TypeOK
    /\ \A o \in Orders : Lifecycle(o) /\ Clearing(o)

(* A step of the book, as the lemmas of MatcherProofs see it.              *)
BookSteps == P!IInv /\ P!IInv' /\ [P!Next]_(P!vars) /\ P!HistoryGrows

LEMMA BookOf ==
    ASSUME RInv, [Next]_vars
    PROVE  BookSteps
<1>1. P!IInv /\ [P!Next]_(P!vars)
  BY RouterStepsBook DEF RInv
<1>2. P!IInv'
  BY <1>1, P!NextOK, BookConstants
<1> QED
  BY <1>1, <1>2, P!HistoryStep, BookConstants DEF BookSteps

LEMMA TradeFields ==
    ASSUME P!IInv, NEW i \in 1..Len(trades)
    PROVE  /\ trades[i].maker \in Orders /\ trades[i].taker \in Orders
           /\ trades[i].qty \in Int
<1>1. trades \in Seq(P!Trade)
  BY DEF P!IInv, P!TypeOK
<1>2. trades[i] \in P!Trade
  BY <1>1
<1> QED
  BY <1>2 DEF P!Trade

(* The first of the trades that are left to a goroutine.                   *)
LEMMA FirstTrade ==
    ASSUME TypeOK, P!IInv, NEW o \in Orders, todo[o] # {}
    PROVE  /\ Min(todo[o]) \in todo[o] /\ Min(todo[o]) \in 1..Len(trades)
           /\ NextMaker(o).maker \in Orders /\ NextMaker(o).qty \in Int
<1>1. todo[o] \subseteq 1..Len(trades)
  BY DEF TypeOK
<1>2. PICK T : T = todo[o]
  OBVIOUS
<1>3. T \subseteq Nat /\ T # {}
  BY <1>1, <1>2
<1>4. \E m \in T : \A n \in T : m <= n
  BY <1>3, LeastNatural
<1>5. Min(T) \in T
  BY <1>4 DEF Min
<1> QED
  BY <1>1, <1>2, <1>5, TradeFields DEF NextMaker

-------------------------------------------------------------------------------
(* The state machine *)

LEMMA AfterMoves ==
    ASSUME TypeOK, NEW o \in Orders, NEW next \in OmsState
    PROVE  /\ After(o, next) \in [Orders -> OmsState]
           /\ \A x \in Orders : After(o, next)[x] =
                  IF x = o /\ ValidTransition(oms[o], next) THEN next ELSE oms[x]
BY DEF After, TypeOK

(* A step leaves an order alone, but for a fill its state machine takes    *)
(* note of.                                                                *)
LEMMA BystanderLifecycle ==
    ASSUME BookSteps, NEW x \in Orders, Lifecycle(x),
           pc'[x] = pc[x], cpc'[x] = cpc[x],
           oms'[x] = oms[x] \/ (oms[x] \notin {"NONE"} \cup Final
                                /\ oms'[x] \notin {"NONE", "REJECTED", "CANCELLED"}),
           x \in fresh => x \in fresh',
           \A y \in Orders : cpc[y] # "idle" => cpc'[y] # "idle"
    PROVE  Lifecycle(x)'
<1>1. P!Out(x) => P!Out(x)'
  BY P!OutStays, BookConstants DEF BookSteps, P!IInv
<1>2. Replaces[x] # NoOrder => Replaces[x] \in Orders
  BY RouterAssumption
<1> QED
  BY <1>1, <1>2 DEF Lifecycle, Final

(* The goroutine of o takes a step other than a rejection.                 *)
LEMMA PlacedLifecycle ==
    ASSUME BookSteps, NEW o \in Orders, Lifecycle(o),
           pc[o] \notin {"idle", "done"}, pc'[o] # "idle", cpc' = cpc,
           oms'[o] = oms[o] \/ oms'[o] \notin {"NONE", "REJECTED", "CANCELLED"},
           pc'[o] \in NotEntered => o \in fresh'
    PROVE  Lifecycle(o)'
<1>1. P!Out(o) => P!Out(o)'
  BY P!OutStays, BookConstants DEF BookSteps, P!IInv
<1> QED
  BY <1>1 DEF Lifecycle

LEMMA ClearingKept ==
    ASSUME BookSteps, TypeOK, NEW x \in Orders, Clearing(x),
           pc'[x] = pc[x], todo'[x] = todo[x], cleared \subseteq cleared'
    PROVE  Clearing(x)'
<1>1. todo[x] \subseteq 1..Len(trades)
  BY DEF TypeOK
<1>2. \A i \in todo[x] : trades'[i] = trades[i]
  BY <1>1 DEF BookSteps, P!HistoryGrows
<1> QED
  BY <1>2 DEF Clearing

(* The index sets only grow.                                               *)
LEMMA Indices ==
    ASSUME BookSteps
    PROVE  1..Len(trades) \subseteq 1..Len(trades')
BY DEF BookSteps, P!HistoryGrows

Labels == {"idle", "created", "pending", "validated", "accepted", "registered",
           "queued", "matching", "clearing", "updating", "makers", "writing", "done"}

(* Steps of the goroutine of o that leave the trades alone.                *)
LEMMA PlaceStep ==
    ASSUME RInv, BookSteps, NEW o \in Orders, NEW label \in Labels \ {"idle"}, Goto(o, label),
           pc[o] \notin {"idle", "done"}, oms' \in [Orders -> OmsState],
           held' \in [Orders -> Int], omsFilled' \in [Orders -> Int],
           \A x \in Orders \ {o} : oms'[x] = oms[x] /\ (x \in fresh => x \in fresh'),
           oms'[o] = oms[o] \/ oms'[o] \notin {"NONE", "REJECTED", "CANCELLED"},
           label \in NotEntered => o \in fresh',
           \/ label \notin {"clearing", "updating", "makers", "writing"} /\ todo[o] = {}
           \/ label = "makers" /\ pc[o] = "updating",
           UNCHANGED <<cpc, todo, seen, cleared>>
    PROVE  RInv'
<1>0. TypeOK /\ P!IInv' /\ Lifecycle(o) /\ Clearing(o)
  BY DEF RInv, BookSteps
<1>1. pc'[o] = label /\ \A x \in Orders \ {o} : pc'[x] = pc[x]
  BY <1>0 DEF Goto, TypeOK
<1>2. TypeOK'
  <2>1. M!TypeOK'
    BY <1>0, SameState DEF P!IInv
  <2>2. pc' \in [Orders -> Labels]
    BY <1>0 DEF Goto, TypeOK, Labels
  <2>3. todo' \in [Orders -> SUBSET (1..Len(trades'))] /\ cleared' \in SUBSET (1..Len(trades'))
    BY <1>0, Indices DEF TypeOK
  <2> QED
    BY <1>0, <2>1, <2>2, <2>3 DEF TypeOK, Labels
<1>3. Lifecycle(o)'
  BY <1>0, <1>1, PlacedLifecycle
<1>4. \A x \in Orders \ {o} : Lifecycle(x)'
  BY <1>1, BystanderLifecycle DEF RInv
<1>5. \A x \in Orders \ {o} : Clearing(x)'
  BY <1>0, <1>1, ClearingKept DEF RInv
<1>6. Clearing(o)'
  <2>1. \A i \in todo[o] : trades'[i] = trades[i]
    BY <1>0 DEF BookSteps, P!HistoryGrows, TypeOK
  <2> QED
    BY <1>0, <1>1, <2>1 DEF Clearing
<1> QED
  BY <1>0, <1>2, <1>3, <1>4, <1>5, <1>6 DEF RInv

(* What is left of an order is a quantity.                                 *)
LEMMA BookRemaining ==
    ASSUME P!IInv, NEW o \in Orders
    PROVE  M!Remaining(o) \in Int /\ Order[o].qty \in Int /\ filled[o] \in Int
<1>1. Order[o].qty \in Int
  BY BookConstants DEF P!MatcherConstants, P!OrderData
<1>2. filled[o] \in Int
  BY DEF P!IInv, P!TypeOK
<1> QED
  BY <1>1, <1>2 DEF M!Remaining

(* The state of a goroutine in its own step.                               *)
LEMMA Placing ==
    ASSUME RInv, NEW o \in Orders
    PROVE  /\ Lifecycle(o) /\ Clearing(o) /\ TypeOK
           /\ pc[o] \in NotEntered => o \in fresh
           /\ pc[o] \notin {"clearing", "updating", "makers", "writing"} => todo[o] = {}
BY DEF RInv, Lifecycle, Clearing

LEMMA PrepareStep ==
    ASSUME RInv, BookSteps, NEW o \in Orders,
           \/ StartValidation(o) \/ ValidateOrder(o) \/ Accept(o) \/ QueueStop(o) \/ Queue(o)
    PROVE  RInv'
<1>0. Lifecycle(o) /\ Clearing(o) /\ TypeOK
  BY Placing
<1>1. PICK next \in {"PENDING_VALIDATION", "VALIDATED", "ACCEPTED", "QUEUED"} :
          oms' = After(o, next)
  BY DEF StartValidation, ValidateOrder, Accept, QueueStop, Queue
<1>2. PICK label \in Labels \ {"idle"} :
          /\ Goto(o, label)
          /\ label \in {"pending", "validated", "accepted", "queued", "done"}
          /\ pc[o] \in {"created", "pending", "validated", "accepted"} \/ label = "done"
  BY DEF StartValidation, ValidateOrder, Accept, QueueStop, Queue, Labels
<1>3. /\ pc[o] \in {"created", "pending", "validated", "accepted", "registered"}
      /\ UNCHANGED <<fresh, omsFilled, cpc, todo, seen, cleared>>
  BY DEF StartValidation, ValidateOrder, Accept, QueueStop, Queue, bookVars
<1>4. held' \in [Orders -> Int]
  <2>1. M!Remaining(o) \in Int
    BY BookRemaining DEF RInv
  <2> QED
    BY <1>0, <2>1 DEF TypeOK, StartValidation, ValidateOrder, Accept, QueueStop, Queue
<1>5. /\ oms' \in [Orders -> OmsState]
      /\ \A x \in Orders \ {o} : oms'[x] = oms[x]
      /\ oms'[o] = oms[o] \/ oms'[o] \notin {"NONE", "REJECTED", "CANCELLED"}
  <2>1. next \in OmsState
    BY <1>1 DEF OmsState
  <2> QED
    BY <1>0, <1>1, <2>1, AfterMoves
<1>6. todo[o] = {} /\ (label \in NotEntered => o \in fresh')
  BY <1>2, <1>3, Placing DEF NotEntered
<1>7. /\ omsFilled' \in [Orders -> Int] /\ pc[o] \notin {"idle", "done"}
      /\ \A x \in Orders \ {o} : oms'[x] = oms[x] /\ (x \in fresh => x \in fresh')
      /\ label \notin {"clearing", "updating", "makers", "writing"} /\ todo[o] = {}
      /\ UNCHANGED <<cpc, todo, seen, cleared>>
  BY <1>0, <1>2, <1>3, <1>5, <1>6 DEF TypeOK
<1> QED
  BY <1>2, <1>4, <1>5, <1>6, <1>7, PlaceStep

LEMMA RejectStep ==
    ASSUME RInv, BookSteps, NEW o \in Orders, RejectOrder(o)
    PROVE  RInv'
<1>0. Lifecycle(o) /\ Clearing(o) /\ TypeOK /\ todo[o] = {} /\ o \in fresh /\ pc[o] = "pending"
  BY Placing DEF RejectOrder, NotEntered
<1>1. /\ oms' \in [Orders -> OmsState]
      /\ \A x \in Orders \ {o} : oms'[x] = oms[x]
      /\ oms'[o] = oms[o] \/ oms'[o] = "REJECTED"
  <2>1. "REJECTED" \in OmsState
    BY DEF OmsState, Final
  <2> QED
    BY <1>0, <2>1, AfterMoves DEF RejectOrder
<1>2. /\ pc' \in [Orders -> Labels] /\ pc'[o] = "done"
      /\ \A x \in Orders \ {o} : pc'[x] = pc[x]
  BY <1>0 DEF RejectOrder, Goto, TypeOK, Labels
<1>3. UNCHANGED <<fresh, trades, omsFilled, cpc, todo, seen, cleared, held>>
  BY DEF RejectOrder, bookVars
<1>4. TypeOK'
  <2>1. M!TypeOK'
    BY SameState DEF BookSteps, P!IInv
  <2> QED
    BY <1>0, <1>1, <1>2, <1>3, <2>1 DEF TypeOK, Labels
<1>5. \A x \in Orders \ {o} : Lifecycle(x)'
  BY <1>1, <1>2, <1>3, BystanderLifecycle DEF RInv
<1>6. \A x \in Orders \ {o} : Clearing(x)'
  BY <1>0, <1>2, <1>3, ClearingKept DEF RInv
<1>7. Lifecycle(o)'
  <2>1. P!Out(o) => P!Out(o)'
    BY P!OutStays, BookConstants DEF BookSteps, P!IInv
  <2> QED
    BY <1>0, <1>1, <1>2, <1>3, <2>1 DEF Lifecycle
<1>8. Clearing(o)'
  BY <1>0, <1>2, <1>3 DEF Clearing
<1> QED
  BY <1>4, <1>5, <1>6, <1>7, <1>8 DEF RInv, BookSteps

LEMMA SubmitStep ==
    ASSUME RInv, BookSteps, NEW o \in Orders, SubmitOrder(o)
    PROVE  RInv'
<1>0. Lifecycle(o) /\ Clearing(o) /\ TypeOK /\ todo[o] = {} /\ o \in fresh /\ pc[o] = "idle"
  BY Placing DEF SubmitOrder, NotEntered
<1>1. /\ oms' \in [Orders -> OmsState] /\ oms'[o] = "CREATED"
      /\ \A x \in Orders \ {o} : oms'[x] = oms[x]
  BY <1>0 DEF SubmitOrder, TypeOK, OmsState
<1>2. /\ pc' \in [Orders -> Labels] /\ pc'[o] = "created"
      /\ \A x \in Orders \ {o} : pc'[x] = pc[x]
  BY <1>0 DEF SubmitOrder, Goto, TypeOK, Labels
<1>3. UNCHANGED <<fresh, trades, omsFilled, cpc, todo, seen, cleared, held>>
  BY DEF SubmitOrder, bookVars
<1>4. TypeOK'
  <2>1. M!TypeOK'
    BY SameState DEF BookSteps, P!IInv
  <2> QED
    BY <1>0, <1>1, <1>2, <1>3, <2>1 DEF TypeOK, Labels
<1>5. \A x \in Orders \ {o} : Lifecycle(x)'
  BY <1>1, <1>2, <1>3, BystanderLifecycle DEF RInv
<1>6. \A x \in Orders \ {o} : Clearing(x)'
  BY <1>0, <1>2, <1>3, ClearingKept DEF RInv
<1>7. Lifecycle(o)'
  <2>1. cpc[o] = "idle"
    BY <1>0 DEF Lifecycle
  <2> QED
    BY <1>0, <1>1, <1>2, <1>3, <2>1 DEF Lifecycle, SubmitOrder, ReplacedFirst
<1>8. Clearing(o)'
  BY <1>0, <1>2, <1>3 DEF Clearing
<1> QED
  BY <1>4, <1>5, <1>6, <1>7, <1>8 DEF RInv, BookSteps

(* The order is handed to the book.                                        *)
LEMMA HandOver ==
    ASSUME RInv, BookSteps, NEW o \in Orders, RegisterStop(o) \/ CallMatchOrder(o)
    PROVE  RInv'
<1>0. Lifecycle(o) /\ Clearing(o) /\ TypeOK
  BY Placing
<1>1. /\ pc[o] \in {"accepted", "queued"}
      /\ Goto(o, "registered") \/ Goto(o, "matching")
      /\ UNCHANGED <<oms, omsFilled, cpc, todo, seen, cleared, held>>
  BY DEF RegisterStop, CallMatchOrder
<1>2. fresh' = fresh \ {o}
  BY DEF RegisterStop, CallMatchOrder, M!AddStopOrder, M!Enter, M!Reject, M!Calls
<1>3. PICK label \in {"registered", "matching"} : Goto(o, label)
  BY <1>1
<1>4. todo[o] = {} /\ label \in Labels \ {"idle"} /\ label \notin NotEntered
  BY <1>1, <1>3, Placing DEF Labels, NotEntered
<1>5. /\ oms' \in [Orders -> OmsState] /\ held' \in [Orders -> Int]
      /\ omsFilled' \in [Orders -> Int] /\ pc[o] \notin {"idle", "done"}
      /\ \A x \in Orders \ {o} : oms'[x] = oms[x] /\ (x \in fresh => x \in fresh')
      /\ oms'[o] = oms[o]
      /\ label \notin {"clearing", "updating", "makers", "writing"} /\ todo[o] = {}
      /\ UNCHANGED <<cpc, todo, seen, cleared>>
  BY <1>0, <1>1, <1>2, <1>3, <1>4 DEF TypeOK
<1> QED
  BY <1>3, <1>4, <1>5, PlaceStep

(* The book works on an order of which the router takes no notice.         *)
LEMMA BookAlone ==
    ASSUME RInv, BookSteps, NEW o \in Orders, RunMatchOrder(o) \/ RunTriggeredStop(o)
    PROVE  RInv'
<1>0. TypeOK
  BY DEF RInv
<1>1. fresh' = fresh
  <2>1. CASE RunMatchOrder(o)
    BY <2>1 DEF RunMatchOrder, M!MatchStep, M!DropEmptyLevel, M!CancelNewest, M!CancelOldest,
                M!CancelBoth, M!Fill, M!CancelRemainder, M!Rest, M!Return
  <2>2. CASE RunTriggeredStop(o)
    <3>1. o \notin fresh
      BY <2>2 DEF RunTriggeredStop, RInv, P!IInv, P!AwayOK
    <3>2. fresh' = fresh \ {o}
      BY <2>2 DEF RunTriggeredStop, M!Enter, M!Reject, M!Calls
    <3> QED
      BY <3>1, <3>2
  <2> QED
    BY <2>1, <2>2
<1>2. UNCHANGED <<oms, omsFilled, pc, cpc, todo, seen, cleared, held>>
  BY DEF RunMatchOrder, RunTriggeredStop, omsVars
<1>3. TypeOK'
  <2>1. M!TypeOK'
    BY SameState DEF BookSteps, P!IInv
  <2>2. todo' \in [Orders -> SUBSET (1..Len(trades'))] /\ cleared' \in SUBSET (1..Len(trades'))
    BY <1>0, <1>2, Indices DEF TypeOK
  <2> QED
    BY <1>0, <1>2, <2>1, <2>2 DEF TypeOK
<1>4. \A x \in Orders : Lifecycle(x)'
  BY <1>1, <1>2, BystanderLifecycle DEF RInv
<1>5. \A x \in Orders : Clearing(x)'
  BY <1>0, <1>2, ClearingKept DEF RInv
<1> QED
  BY <1>3, <1>4, <1>5 DEF RInv, BookSteps

(* Sets of indices into the trade history are finite.                      *)
LEMMA FiniteIndices ==
    ASSUME BookSteps, NEW S, S \subseteq 1..Len(trades)
    PROVE  IsFiniteSet(S)
<1>1. PICK n \in Nat : n = Len(trades)
  BY DEF BookSteps, P!HistoryGrows
<1>2. n \in Int /\ 1 \in Int
  BY <1>1
<1>3. IsFiniteSet(1..n)
  BY <1>2, FS_Interval
<1> QED
  BY <1>1, <1>3, FS_Subset

-------------------------------------------------------------------------------
(* The trades of an order on their way to the clearing *)

(* Steps of the goroutine of o that work on its trades.                    *)
LEMMA TradeStep ==
    ASSUME RInv, BookSteps, NEW o \in Orders, NEW label \in Labels \ NotEntered, Goto(o, label),
           pc[o] \notin {"idle", "done"}, fresh' = fresh, trades' = trades, cpc' = cpc,
           oms' \in [Orders -> OmsState], held' \in [Orders -> Int],
           omsFilled' \in [Orders -> Int], seen' \in [Orders -> Int],
           cleared \subseteq cleared', cleared' \subseteq 1..Len(trades),
           \A x \in Orders : \/ oms'[x] = oms[x]
                             \/ /\ oms[x] \notin {"NONE"} \cup Final
                                /\ oms'[x] \notin {"NONE", "REJECTED", "CANCELLED"},
           NEW T, T \subseteq 1..Len(trades), todo' = [todo EXCEPT ![o] = T],
           \A i \in T : trades[i].taker = o,
           label \in {"clearing", "updating", "writing"} => T # {},
           label \notin {"clearing", "updating", "makers", "writing"} => T = {},
           label \in {"updating", "makers", "writing"} => T \subseteq cleared'
    PROVE  RInv'
<1>0. TypeOK /\ Lifecycle(o) /\ label # "idle"
  BY DEF RInv, NotEntered
<1>1. /\ pc' \in [Orders -> Labels] /\ pc'[o] = label
      /\ \A x \in Orders \ {o} : pc'[x] = pc[x]
  BY <1>0 DEF Goto, TypeOK, Labels
<1>2. /\ todo' \in [Orders -> SUBSET (1..Len(trades))] /\ todo'[o] = T
      /\ \A x \in Orders \ {o} : todo'[x] = todo[x]
  BY <1>0 DEF TypeOK
<1>3. TypeOK'
  <2>1. M!TypeOK'
    BY SameState DEF BookSteps, P!IInv
  <2> QED
    BY <1>0, <1>1, <1>2, <2>1 DEF TypeOK, Labels
<1>4. Lifecycle(o)'
  BY <1>0, <1>1, PlacedLifecycle
<1>5. \A x \in Orders \ {o} : Lifecycle(x)'
  BY <1>1, BystanderLifecycle DEF RInv
<1>6. \A x \in Orders \ {o} : Clearing(x)'
  BY <1>0, <1>1, <1>2, ClearingKept DEF RInv
<1>7. Clearing(o)'
  BY <1>1, <1>2 DEF Clearing
<1> QED
  BY <1>3, <1>4, <1>5, <1>6, <1>7 DEF RInv, BookSteps

LEMMA ReturnStep ==
    ASSUME RInv, BookSteps, NEW o \in Orders, MatchOrderReturns(o)
    PROVE  RInv'
<1>0. TypeOK
  BY DEF RInv
<1>1. PICK T : T = MatchesOf(o)
  OBVIOUS
<1>2. T \subseteq 1..Len(trades) /\ \A i \in T : trades[i].taker = o
  BY <1>1 DEF MatchesOf, BookSteps, P!HistoryGrows
<1>3. PICK label : label = IF T = {} THEN "done" ELSE "clearing"
  OBVIOUS
<1>4. /\ Goto(o, label) /\ todo' = [todo EXCEPT ![o] = T] /\ pc[o] \notin {"idle", "done"}
      /\ UNCHANGED <<fresh, trades, oms, omsFilled, cpc, seen, cleared, held>>
  BY <1>1, <1>3 DEF MatchOrderReturns, bookVars
<1>5. /\ label \in Labels \ NotEntered
      /\ label \in {"clearing", "updating", "writing"} => T # {}
      /\ label \notin {"clearing", "updating", "makers", "writing"} => T = {}
      /\ label \notin {"updating", "makers", "writing"}
  BY <1>3 DEF Labels, NotEntered
<1>6. /\ oms' \in [Orders -> OmsState] /\ held' \in [Orders -> Int]
      /\ omsFilled' \in [Orders -> Int] /\ seen' \in [Orders -> Int]
      /\ cleared \subseteq cleared' /\ cleared' \subseteq 1..Len(trades)
      /\ \A x \in Orders : oms'[x] = oms[x]
      /\ fresh' = fresh /\ trades' = trades /\ cpc' = cpc
  BY <1>0, <1>4 DEF TypeOK
<1> QED
  BY <1>2, <1>4, <1>5, <1>6, TradeStep

LEMMA ProcessStep ==
    ASSUME RInv, BookSteps, NEW o \in Orders, ProcessTrades(o)
    PROVE  RInv'
<1>0. TypeOK /\ Clearing(o) /\ pc[o] = "clearing"
  BY DEF RInv, ProcessTrades
<1>1. PICK T : T = todo[o]
  OBVIOUS
<1>2. /\ T \subseteq 1..Len(trades) /\ T # {} /\ \A i \in T : trades[i].taker = o
      /\ todo' = [todo EXCEPT ![o] = T]
  BY <1>0, <1>1 DEF TypeOK, Clearing, ProcessTrades
<1>3. held' \in [Orders -> Int]
  <2> DEFINE of(u) == {i \in todo[o] : u \in {trades[i].maker, trades[i].taker}}
             released(u) == SumFunction([i \in of(u) |-> trades[i].qty])
  <2>1. ASSUME NEW u \in Orders PROVE held[u] - released(u) \in Int
    <3>1. PICK f : f = [i \in of(u) |-> trades[i].qty]
      OBVIOUS
    <3>2. of(u) \subseteq 1..Len(trades) /\ Len(trades) \in Nat
      BY <1>1, <1>2 DEF BookSteps, P!HistoryGrows
    <3>3. IsFiniteSet(of(u))
      BY <3>2, FiniteIndices
    <3>4. \A i \in of(u) : f[i] \in Int
      BY <3>1, <3>2, TradeFields DEF RInv
    <3>5. SumFunctionOnSet(f, of(u)) \in Int
      BY <3>3, <3>4, SumType
    <3>6. released(u) = SumFunctionOnSet(f, of(u))
      BY <3>1 DEF SumFunction
    <3>7. held[u] \in Int
      BY <1>0 DEF TypeOK
    <3> QED
      BY <3>5, <3>6, <3>7
  <2>2. held' = [u \in Orders |-> held[u] - released(u)]
    BY DEF ProcessTrades
  <2> QED
    BY <2>1, <2>2
<1>4. Goto(o, "updating") /\ cleared' = cleared \cup T
  BY <1>1 DEF ProcessTrades
<1>5. /\ oms' \in [Orders -> OmsState] /\ omsFilled' \in [Orders -> Int]
      /\ seen' \in [Orders -> Int]
      /\ cleared \subseteq cleared' /\ cleared' \subseteq 1..Len(trades) /\ T \subseteq cleared'
      /\ \A x \in Orders : oms'[x] = oms[x]
      /\ fresh' = fresh /\ trades' = trades /\ cpc' = cpc /\ pc[o] \notin {"idle", "done"}
  BY <1>0, <1>2, <1>4 DEF TypeOK, ProcessTrades, bookVars
<1>6. "updating" \in Labels \ NotEntered
  BY DEF Labels, NotEntered
<1> QED
  BY <1>2, <1>3, <1>4, <1>5, <1>6, TradeStep

(* The transitions that record a fill.                                     *)
LEMMA FillTransition ==
    ASSUME TypeOK, NEW m \in Orders, NEW next \in {"FILLED", "PARTIALLY_FILLED"},
           oms' = After(m, next)
    PROVE  /\ oms' \in [Orders -> OmsState]
           /\ \A x \in Orders : \/ oms'[x] = oms[x]
                                \/ /\ oms[x] \notin {"NONE"} \cup Final
                                   /\ oms'[x] \notin {"NONE", "REJECTED", "CANCELLED"}
<1>1. next \in OmsState
  BY DEF OmsState, Final
<1>2. /\ oms' \in [Orders -> OmsState]
      /\ \A x \in Orders : oms'[x] =
              IF x = m /\ ValidTransition(oms[m], next) THEN next ELSE oms[x]
  BY <1>1, AfterMoves
<1> QED
  BY <1>2 DEF ValidTransition, Final

LEMMA TakerStep ==
    ASSUME RInv, BookSteps, NEW o \in Orders, UpdateTaker(o)
    PROVE  RInv'
<1>0. TypeOK /\ Clearing(o) /\ pc[o] = "updating"
  BY DEF RInv, UpdateTaker
<1>1. PICK T : T = todo[o]
  OBVIOUS
<1>2. /\ T \subseteq 1..Len(trades) /\ T \subseteq cleared
      /\ \A i \in T : trades[i].taker = o
      /\ todo' = [todo EXCEPT ![o] = T]
  BY <1>0, <1>1 DEF TypeOK, Clearing, UpdateTaker
<1>3. /\ oms' \in [Orders -> OmsState]
      /\ \A x \in Orders : \/ oms'[x] = oms[x]
                           \/ /\ oms[x] \notin {"NONE"} \cup Final
                              /\ oms'[x] \notin {"NONE", "REJECTED", "CANCELLED"}
  <2>1. CASE status[o] \in {"FILLED", "PARTIALLY_FILLED"}
    BY <1>0, <2>1, FillTransition DEF UpdateTaker
  <2>2. CASE status[o] \notin {"FILLED", "PARTIALLY_FILLED"}
    BY <1>0, <2>2 DEF UpdateTaker, TypeOK
  <2> QED
    BY <2>1, <2>2
<1>4. filled[o] \in Int
  BY BookRemaining DEF RInv
<1>5. /\ held' \in [Orders -> Int] /\ omsFilled' \in [Orders -> Int]
      /\ seen' \in [Orders -> Int]
      /\ cleared \subseteq cleared' /\ cleared' \subseteq 1..Len(trades) /\ T \subseteq cleared'
      /\ fresh' = fresh /\ trades' = trades /\ cpc' = cpc /\ pc[o] \notin {"idle", "done"}
      /\ Goto(o, "makers")
  BY <1>0, <1>2, <1>4 DEF TypeOK, UpdateTaker, bookVars
<1>6. "makers" \in Labels \ NotEntered
  BY DEF Labels, NotEntered
<1> QED
  BY <1>2, <1>3, <1>5, <1>6, TradeStep

LEMMA LoadStep ==
    ASSUME RInv, BookSteps, NEW o \in Orders, LoadMaker(o)
    PROVE  RInv'
<1>0. TypeOK /\ Clearing(o) /\ pc[o] = "makers" /\ todo[o] # {} /\ P!IInv
  BY DEF RInv, LoadMaker
<1>1. PICK T : T = todo[o]
  OBVIOUS
<1>2. /\ T \subseteq 1..Len(trades) /\ T \subseteq cleared /\ T # {}
      /\ \A i \in T : trades[i].taker = o
      /\ todo' = [todo EXCEPT ![o] = T]
  BY <1>0, <1>1 DEF TypeOK, Clearing, LoadMaker
<1>3. NextMaker(o).maker \in Orders
  BY <1>0, FirstTrade
<1>4. /\ held' \in [Orders -> Int] /\ omsFilled' \in [Orders -> Int]
      /\ seen' \in [Orders -> Int] /\ oms' \in [Orders -> OmsState]
      /\ \A x \in Orders : oms'[x] = oms[x]
      /\ cleared \subseteq cleared' /\ cleared' \subseteq 1..Len(trades) /\ T \subseteq cleared'
      /\ fresh' = fresh /\ trades' = trades /\ cpc' = cpc /\ pc[o] \notin {"idle", "done"}
      /\ Goto(o, "writing")
  BY <1>0, <1>2, <1>3 DEF TypeOK, LoadMaker, bookVars
<1>5. "writing" \in Labels \ NotEntered
  BY DEF Labels, NotEntered
<1> QED
  BY <1>2, <1>4, <1>5, TradeStep

LEMMA MakerStep ==
    ASSUME RInv, BookSteps, NEW o \in Orders, UpdateMaker(o)
    PROVE  RInv'
<1>0. TypeOK /\ Clearing(o) /\ pc[o] = "writing" /\ todo[o] # {} /\ P!IInv
  BY DEF RInv, UpdateMaker, Clearing
<1>1. PICK T : T = todo[o] \ {Min(todo[o])}
  OBVIOUS
<1>2. /\ T \subseteq 1..Len(trades) /\ T \subseteq cleared
      /\ \A i \in T : trades[i].taker = o
      /\ todo' = [todo EXCEPT ![o] = T]
  BY <1>0, <1>1 DEF TypeOK, Clearing, UpdateMaker
<1>3. PICK m, q : m = NextMaker(o).maker /\ q = NextMaker(o).qty
  OBVIOUS
<1>4. m \in Orders /\ q \in Int /\ seen[o] + q \in Int
  BY <1>0, <1>3, FirstTrade DEF TypeOK
<1>5. PICK next \in {"FILLED", "PARTIALLY_FILLED"} : oms' = After(m, next)
  BY <1>3 DEF UpdateMaker, MakerStatus
<1>6. /\ oms' \in [Orders -> OmsState]
      /\ \A x \in Orders : \/ oms'[x] = oms[x]
                           \/ /\ oms[x] \notin {"NONE"} \cup Final
                              /\ oms'[x] \notin {"NONE", "REJECTED", "CANCELLED"}
  BY <1>0, <1>4, <1>5, FillTransition
<1>7. PICK label : label = IF Cardinality(todo[o]) = 1 THEN "done" ELSE "makers"
  OBVIOUS
<1>8. label \notin {"clearing", "updating", "makers", "writing"} => T = {}
  <2> SUFFICES ASSUME Cardinality(todo[o]) = 1 PROVE T = {}
    BY <1>7
  <2>1. todo[o] \subseteq 1..Len(trades) /\ Len(trades) \in Nat
    BY <1>0 DEF TypeOK, BookSteps, P!HistoryGrows
  <2>2. IsFiniteSet(todo[o])
    BY <2>1, FiniteIndices
  <2>3. \E x : todo[o] = {x}
    BY <2>2, FS_Singleton
  <2>4. Min(todo[o]) \in todo[o]
    BY <1>0, FirstTrade
  <2> QED
    BY <1>1, <2>3, <2>4
<1>9. /\ held' \in [Orders -> Int] /\ omsFilled' \in [Orders -> Int]
      /\ seen' \in [Orders -> Int]
      /\ cleared \subseteq cleared' /\ cleared' \subseteq 1..Len(trades) /\ T \subseteq cleared'
      /\ fresh' = fresh /\ trades' = trades /\ cpc' = cpc /\ pc[o] \notin {"idle", "done"}
      /\ Goto(o, label)
  BY <1>0, <1>2, <1>3, <1>4, <1>7 DEF TypeOK, UpdateMaker, bookVars
<1>10. label \in Labels \ NotEntered /\ label \notin {"clearing", "updating", "writing"}
  BY <1>7 DEF Labels, NotEntered
<1> QED
  BY <1>2, <1>6, <1>8, <1>9, <1>10, TradeStep

(* An order that is out of the market, or that the book has not seen, is   *)
(* nowhere in it.                                                          *)
LEMMA NotBooked ==
    ASSUME P!IInv, NEW o \in Orders, P!Out(o) \/ o \in fresh
    PROVE  ~Booked(o)
<1>1. Order[o].side \in {"BUY", "SELL"}
  BY BookConstants DEF P!MatcherConstants, P!OrderData, P!Sides
<1>2. M!Resting(Order[o].side) = P!Resting(Order[o].side)
  BY SameState
<1>3. CASE P!Out(o)
  BY <1>1, <1>2, <1>3 DEF Booked, P!Out, P!OnSides
<1>4. CASE o \in fresh
  <2>1. o \notin stops \cup triggered \cup {taker}
    BY <1>4 DEF P!IInv, P!AwayOK
  <2>2. o \notin P!Resting(Order[o].side)
    <3>1. Order[o].side \in P!Sides
      BY <1>1 DEF P!Sides
    <3> SUFFICES ASSUME o \in P!Resting(Order[o].side) PROVE FALSE
      OBVIOUS
    <3>2. P!OnBook(o)
      BY <3>1, P!RestingOnBook, BookConstants
    <3> QED
      BY <1>4, <3>2 DEF P!OnBook
  <2> QED
    BY <1>2, <2>1, <2>2 DEF Booked
<1> QED
  BY <1>3, <1>4

-------------------------------------------------------------------------------
(* Cancellation *)

(* A step of the cancellation of an order that is out of the market.       *)
LEMMA CancelStep ==
    ASSUME RInv, BookSteps, NEW o \in Orders, P!Out(o)', oms[o] # "NONE",
           NEW label \in {"removed", "releasing", "done", "refused"},
           cpc' = [cpc EXCEPT ![o] = label], fresh' = fresh, trades' = trades,
           oms' \in [Orders -> OmsState], held' \in [Orders -> Int],
           \A x \in Orders \ {o} : oms'[x] = oms[x],
           oms'[o] = oms[o] \/ oms'[o] = "CANCELLED",
           UNCHANGED <<omsFilled, pc, todo, seen, cleared>>
    PROVE  RInv'
<1>0. TypeOK /\ Lifecycle(o)
  BY DEF RInv
<1>1. /\ cpc' \in [Orders -> {"idle", "removed", "releasing", "done", "refused"}]
      /\ cpc'[o] # "idle" /\ \A x \in Orders \ {o} : cpc'[x] = cpc[x]
  BY <1>0 DEF TypeOK
<1>2. TypeOK'
  <2>1. M!TypeOK'
    BY SameState DEF BookSteps, P!IInv
  <2> QED
    BY <1>0, <1>1, <2>1 DEF TypeOK
<1>3. \A y \in Orders : cpc[y] # "idle" => cpc'[y] # "idle"
  BY <1>1
<1>4. \A x \in Orders \ {o} : Lifecycle(x)'
  BY <1>1, <1>3, BystanderLifecycle DEF RInv
<1>5. \A x \in Orders : Clearing(x)'
  BY <1>0, ClearingKept DEF RInv
<1>6. Lifecycle(o)'
  <2>1. Replaces[o] # NoOrder => Replaces[o] \in Orders
    BY RouterAssumption
  <2> QED
    BY <1>0, <1>1, <1>3, <2>1 DEF Lifecycle
<1> QED
  BY <1>2, <1>4, <1>5, <1>6 DEF RInv, BookSteps

LEMMA CancelOrderStep ==
    ASSUME RInv, BookSteps, NEW o \in Orders, CancelOrder(o)
    PROVE  RInv'
<1>0. TypeOK
  BY DEF RInv
<1>1. P!CancelOrder(o) \/ P!CancelStopOrder(o)
  BY SameSteps DEF CancelOrder
<1>2. P!Out(o)'
  BY <1>1, P!CancelledIsOut, BookConstants DEF BookSteps, P!IInv
<1>3. fresh' = fresh /\ trades' = trades
  BY <1>1 DEF P!CancelOrder, P!CancelStopOrder, P!bridge, P!RemoveFromLimits
<1>4. /\ cpc' = [cpc EXCEPT ![o] = "removed"] /\ oms[o] # "NONE"
      /\ oms' \in [Orders -> OmsState] /\ held' \in [Orders -> Int]
      /\ \A x \in Orders \ {o} : oms'[x] = oms[x]
      /\ oms'[o] = oms[o]
      /\ UNCHANGED <<omsFilled, pc, todo, seen, cleared>>
  BY <1>0 DEF CancelOrder, Known, TypeOK
<1> QED
  BY <1>2, <1>3, <1>4, CancelStep

LEMMA CancelEnds ==
    ASSUME RInv, BookSteps, NEW o \in Orders, CancelTransition(o) \/ CancelRelease(o)
    PROVE  RInv'
<1>0. TypeOK /\ Lifecycle(o) /\ P!IInv
  BY DEF RInv
<1>1. cpc[o] # "idle"
  BY DEF CancelTransition, CancelRelease
<1>2. P!Out(o) /\ oms[o] # "NONE"
  BY <1>0, <1>1 DEF Lifecycle
<1>3. P!Out(o)'
  BY <1>2, P!OutStays, BookConstants DEF BookSteps, P!IInv
<1>4. fresh' = fresh /\ trades' = trades /\ UNCHANGED <<omsFilled, pc, todo, seen, cleared>>
  BY DEF CancelTransition, CancelRelease, bookVars
<1>5. PICK label \in {"removed", "releasing", "done", "refused"} :
          cpc' = [cpc EXCEPT ![o] = label]
  BY DEF CancelTransition, CancelRelease
<1>6. /\ oms' \in [Orders -> OmsState] /\ \A x \in Orders \ {o} : oms'[x] = oms[x]
      /\ oms'[o] = oms[o] \/ oms'[o] = "CANCELLED"
  <2>1. CASE CancelTransition(o)
    <3>1. "CANCELLED" \in OmsState
      BY DEF OmsState, Final
    <3> QED
      BY <1>0, <2>1, <3>1, AfterMoves DEF CancelTransition
  <2>2. CASE CancelRelease(o)
    BY <1>0, <2>2 DEF CancelRelease, TypeOK
  <2> QED
    BY <2>1, <2>2
<1>7. held' \in [Orders -> Int]
  <2>1. CASE CancelTransition(o)
    BY <1>0, <2>1 DEF CancelTransition, TypeOK
  <2>2. CASE CancelRelease(o)
    <3>0. Order[o].qty \in Int /\ omsFilled[o] \in Int
      BY <1>0, BookRemaining DEF TypeOK
    <3>1. PICK unfilled \in Int : unfilled = Order[o].qty - omsFilled[o]
      BY <3>0
    <3>2. held' = [held EXCEPT ![o] = IF unfilled > 0 THEN @ - unfilled ELSE @]
      BY <2>2, <3>1 DEF CancelRelease
    <3>3. held \in [Orders -> Int] /\ held[o] \in Int
      BY <1>0 DEF TypeOK
    <3> QED
      BY <3>1, <3>2, <3>3
  <2> QED
    BY <2>1, <2>2
<1> QED
  BY <1>2, <1>3, <1>4, <1>5, <1>6, <1>7, CancelStep

-------------------------------------------------------------------------------
(* Orders that are dead or replaced *)

LEMMA RouterNext ==
    ASSUME RInv, [Next]_vars
    PROVE  RInv'
<1>1. BookSteps
  BY BookOf
<1>2. CASE UNCHANGED vars
  <2>1. UNCHANGED <<fresh, trades, oms, omsFilled, pc, cpc, todo, seen, cleared, held>>
    BY <1>2 DEF vars, bookVars, omsVars
  <2>2. \A x \in Orders : Lifecycle(x)'
    BY <1>1, <2>1, BystanderLifecycle DEF RInv
  <2>3. \A x \in Orders : Clearing(x)'
    BY <1>1, <2>1, ClearingKept DEF RInv
  <2>4. TypeOK'
    <3>1. M!TypeOK'
      BY <1>1, SameState DEF BookSteps, P!IInv
    <3> QED
      BY <2>1, <3>1 DEF TypeOK, RInv
  <2> QED
    BY <1>1, <2>2, <2>3, <2>4 DEF RInv, BookSteps
<1>3. ASSUME NEW o \in Orders, Arrive(o) PROVE RInv'
  BY <1>1, <1>3, SubmitStep, CancelOrderStep DEF Arrive
<1>4. ASSUME NEW o \in Orders, Place(o) PROVE RInv'
  BY <1>1, <1>4, PrepareStep, RejectStep, HandOver, ReturnStep, ProcessStep, TakerStep,
     LoadStep, MakerStep DEF Place
<1>5. ASSUME NEW o \in Orders, RunMatchOrder(o) \/ RunTriggeredStop(o) PROVE RInv'
  BY <1>1, <1>5, BookAlone
<1>6. ASSUME NEW o \in Orders, CancelTransition(o) \/ CancelRelease(o) PROVE RInv'
  BY <1>1, <1>6, CancelEnds
<1> QED
  BY <1>2, <1>3, <1>4, <1>5, <1>6 DEF Next

LEMMA RouterInit ==
    ASSUME Init
    PROVE  RInv
<1>1. P!IInv
  BY SameState, P!InitOK, BookConstants DEF Init
<1>2. TypeOK
  BY <1>1, SameState DEF Init, TypeOK, OmsState, P!IInv
<1>3. fresh = Orders /\ \A o \in Orders : trades = <<>>
  BY DEF Init, M!Init
<1>4. \A o \in Orders : Lifecycle(o)
  BY <1>3 DEF Init, Lifecycle, NotEntered
<1>5. \A o \in Orders : Clearing(o)
  BY DEF Init, Clearing
<1> QED
  BY <1>1, <1>2, <1>4, <1>5 DEF RInv

(* The lifecycle of every order agrees with the book and with the places   *)
(* of the goroutines that place and cancel it (ProcessIncomingOrder and    *)
(* CancelOrder), in every reachable state.                                 *)
THEOREM RouterInductive == Spec => []RInv
BY RouterInit, RouterNext, PTL DEF Spec

(* An order the OMS reports as cancelled or rejected is out of the book    *)
(* for good: CancelOrder leaves it in no place MatchOrder could find it,   *)
(* and a rejected order was never handed to the book.                      *)
THEOREM DeadStayOut == Spec => []DeadOrdersAreOut
<1>1. ASSUME RInv PROVE DeadOrdersAreOut
  <2>1. TypeOK
    BY <1>1 DEF RInv
  <2>2. ASSUME NEW o \in Orders, oms[o] \in {"CANCELLED", "REJECTED"} PROVE ~Booked(o)
    <3>1. P!Out(o) \/ o \in fresh
      BY <1>1, <2>2 DEF RInv, Lifecycle
    <3> QED
      BY <1>1, <3>1, NotBooked DEF RInv
  <2> QED
    BY <2>1, <2>2 DEF DeadOrdersAreOut
<1> QED
  BY <1>1, RouterInductive, PTL

(* ReplaceOrder never leaves the old and the new order in the book         *)
(* together: the new one is submitted once the old one has been taken out. *)
THEOREM ReplacementsDoNotDouble == Spec => []ReplacementNeverDoubles
<1>1. ASSUME RInv PROVE ReplacementNeverDoubles
  <2> SUFFICES ASSUME NEW o \in Orders, Replaces[o] # NoOrder, Booked(o)
               PROVE  ~Booked(Replaces[o])
    BY DEF ReplacementNeverDoubles
  <2>1. Replaces[o] \in Orders
    BY RouterAssumption
  <2>2. o \notin fresh
    BY <1>1, NotBooked DEF RInv
  <2>3. cpc[Replaces[o]] # "idle"
    BY <1>1, <2>2 DEF RInv, Lifecycle, NotEntered
  <2>4. P!Out(Replaces[o])
    BY <1>1, <2>1, <2>3 DEF RInv, Lifecycle
  <2> QED
    BY <1>1, <2>1, <2>4, NotBooked DEF RInv
<1> QED
  BY <1>1, RouterInductive, PTL

(* No step of any goroutine takes an order out of a final state: the late  *)
(* fill of a cancelled maker is refused by validateTransition.             *)
THEOREM FinalStates == Spec => FinalStatesStay
<1>1. ASSUME RInv, Next, NEW o \in Orders, oms[o] \in Final PROVE oms'[o] = oms[o]
  <2>0. TypeOK /\ P!IInv
    BY <1>1 DEF RInv
  <2>1. PICK u \in Orders : Arrive(u) \/ Place(u) \/ RunMatchOrder(u) \/ RunTriggeredStop(u)
                            \/ CancelTransition(u) \/ CancelRelease(u)
    BY <1>1 DEF Next
  <2>2. ASSUME NEW m, NEW next, oms' = After(m, next) PROVE oms'[o] = oms[o]
    BY <1>1, <2>0, <2>2 DEF After, ValidTransition, TypeOK
  <2>3. CASE SubmitOrder(u)
    <3>1. Lifecycle(u) /\ pc[u] = "idle"
      BY <1>1, <2>3 DEF RInv, SubmitOrder
    <3>2. u # o
      BY <1>1, <3>1 DEF Lifecycle, Final
    <3> QED
      BY <2>0, <2>3, <3>2 DEF SubmitOrder, TypeOK
  <2>4. CASE \/ CancelOrder(u) \/ RegisterStop(u) \/ CallMatchOrder(u) \/ MatchOrderReturns(u)
             \/ ProcessTrades(u) \/ LoadMaker(u) \/ RunMatchOrder(u) \/ RunTriggeredStop(u)
             \/ CancelRelease(u)
    BY <2>4 DEF CancelOrder, RegisterStop, CallMatchOrder, MatchOrderReturns, ProcessTrades,
                LoadMaker, RunMatchOrder, RunTriggeredStop, CancelRelease, omsVars
  <2>5. CASE \/ StartValidation(u) \/ RejectOrder(u) \/ ValidateOrder(u) \/ Accept(u)
             \/ QueueStop(u) \/ Queue(u) \/ CancelTransition(u)
    BY <2>2, <2>5 DEF StartValidation, RejectOrder, ValidateOrder, Accept, QueueStop, Queue,
                      CancelTransition
  <2>6. CASE UpdateTaker(u)
    BY <2>2, <2>6 DEF UpdateTaker
  <2>7. CASE UpdateMaker(u)
    BY <2>2, <2>7 DEF UpdateMaker
  <2> QED
    BY <2>1, <2>3, <2>4, <2>5, <2>6, <2>7 DEF Arrive, Place
<1>2. RInv /\ [Next]_vars => [\A o \in Orders : oms[o] \in Final => oms'[o] = oms[o]]_vars
  BY <1>1
<1> QED
  BY <1>2, RouterInductive, PTL DEF Spec, FinalStatesStay

-------------------------------------------------------------------------------
(* The fills of an order that has only been a maker *)

Qty == [i \in 1..Len(trades) |-> trades[i].qty]

(* The trades of which the OMS has told the maker m, and their quantity.   *)
Applied(m) == {i \in cleared : trades[i].maker = m /\ i \notin todo[trades[i].taker]}
AppliedQty(m) == SumFunctionOnSet(Qty, Applied(m))

Cleared == {"updating", "makers", "writing", "done"}

(* The unlocked += never writes more than the trades applied so far: what  *)
(* it has loaded was no more than that, and its own trade is added to      *)
(* both.                                                                   *)
MakerOK(m) ==
    MatchesOf(m) = {} =>
        /\ omsFilled[m] <= AppliedQty(m)
        /\ oms[m] = "FILLED" => filled[m] = Order[m].qty
        /\ \A u \in Orders : pc[u] = "writing" /\ NextMaker(u).maker = m =>
               seen[u] <= AppliedQty(m)

MInv ==
    /\ P!FillsAddUp
    /\ \A i \in 1..Len(trades) : trades[i].qty > 0
    /\ \A i \in cleared : pc[trades[i].taker] \in Cleared
    /\ \A m \in Orders : MakerOK(m)

(* Steps that change nothing of this.                                      *)
Quiet ==
    /\ UNCHANGED <<omsFilled, todo, seen, cleared>>
    /\ \A x \in Orders : oms'[x] = "FILLED" => oms[x] = "FILLED"
    /\ \A x \in Orders : pc'[x] = "writing" => pc[x] = "writing"
    /\ \A x \in Orders : pc[x] \in Cleared => pc'[x] \in Cleared

LEMMA Steps ==
    ASSUME TypeOK, [Next]_vars
    PROVE  \/ Quiet
           \/ \E o \in Orders : \/ MatchOrderReturns(o) \/ ProcessTrades(o) \/ UpdateTaker(o)
                                \/ LoadMaker(o) \/ UpdateMaker(o)
<1>1. CASE UNCHANGED vars
  BY <1>1 DEF vars, omsVars, Quiet
<1>2. ASSUME NEW o \in Orders, NEW next \in OmsState \ {"FILLED"}, oms' = After(o, next)
      PROVE  \A x \in Orders : oms'[x] = "FILLED" => oms[x] = "FILLED"
  BY <1>2, AfterMoves
<1>3. ASSUME NEW o \in Orders, NEW label \in Labels \ {"writing"}, Goto(o, label),
             pc[o] \notin Cleared
      PROVE  /\ \A x \in Orders : pc'[x] = "writing" => pc[x] = "writing"
             /\ \A x \in Orders : pc[x] \in Cleared => pc'[x] \in Cleared
  BY <1>3 DEF Goto, TypeOK
<1>4. ASSUME NEW o \in Orders,
             \/ StartValidation(o) \/ RejectOrder(o) \/ ValidateOrder(o) \/ Accept(o)
             \/ QueueStop(o) \/ Queue(o)
      PROVE  Quiet
  <2>1. PICK next \in OmsState \ {"FILLED"} : oms' = After(o, next)
    BY <1>4 DEF StartValidation, RejectOrder, ValidateOrder, Accept, QueueStop, Queue,
                OmsState, Final
  <2>2. PICK label \in Labels \ {"writing"} : Goto(o, label)
    BY <1>4 DEF StartValidation, RejectOrder, ValidateOrder, Accept, QueueStop, Queue, Labels
  <2>3. pc[o] \notin Cleared /\ UNCHANGED <<omsFilled, todo, seen, cleared>>
    BY <1>4 DEF StartValidation, RejectOrder, ValidateOrder, Accept, QueueStop, Queue, Cleared
  <2> QED
    BY <1>2, <1>3, <2>1, <2>2, <2>3 DEF Quiet
<1>5. ASSUME NEW o \in Orders, SubmitOrder(o) \/ RegisterStop(o) \/ CallMatchOrder(o)
      PROVE  Quiet
  <2>1. \A x \in Orders : oms'[x] = "FILLED" => oms[x] = "FILLED"
    BY <1>5 DEF SubmitOrder, RegisterStop, CallMatchOrder, TypeOK
  <2>2. PICK label \in Labels \ {"writing"} : Goto(o, label)
    BY <1>5 DEF SubmitOrder, RegisterStop, CallMatchOrder, Labels
  <2>3. pc[o] \notin Cleared /\ UNCHANGED <<omsFilled, todo, seen, cleared>>
    BY <1>5 DEF SubmitOrder, RegisterStop, CallMatchOrder, Cleared
  <2> QED
    BY <1>3, <2>1, <2>2, <2>3 DEF Quiet
<1>6. ASSUME NEW o \in Orders, \/ RunMatchOrder(o) \/ RunTriggeredStop(o) \/ CancelOrder(o)
                               \/ CancelRelease(o)
      PROVE  Quiet
  BY <1>6 DEF RunMatchOrder, RunTriggeredStop, CancelOrder, CancelRelease, omsVars, Quiet
<1>7. ASSUME NEW o \in Orders, CancelTransition(o) PROVE Quiet
  <2>1. "CANCELLED" \in OmsState \ {"FILLED"}
    BY DEF OmsState, Final
  <2>2. oms' = After(o, "CANCELLED") /\ UNCHANGED <<pc, omsFilled, todo, seen, cleared>>
    BY <1>7 DEF CancelTransition
  <2> QED
    BY <1>2, <2>1, <2>2 DEF Quiet
<1> QED
  BY <1>1, <1>4, <1>5, <1>6, <1>7 DEF Next, Arrive, Place

(* The trades behind a sum of applied quantities.                          *)
LEMMA AppliedFinite ==
    ASSUME RInv, BookSteps, MInv, NEW m \in Orders
    PROVE  /\ IsFiniteSet(Applied(m)) /\ Applied(m) \subseteq 1..Len(trades)
           /\ \A i \in Applied(m) : Qty[i] \in Nat /\ Qty[i] = trades[i].qty
           /\ AppliedQty(m) \in Nat
<1>1. Applied(m) \subseteq 1..Len(trades)
  BY DEF Applied, RInv, TypeOK
<1>2. IsFiniteSet(Applied(m))
  BY <1>1, FiniteIndices
<1>3. ASSUME NEW i \in 1..Len(trades) PROVE trades[i].qty \in Nat
  <2>1. trades[i].qty \in Int /\ trades[i].qty > 0
    BY TradeFields DEF RInv, MInv
  <2> QED
    BY <2>1
<1>4. \A i \in Applied(m) : Qty[i] \in Nat /\ Qty[i] = trades[i].qty
  BY <1>1, <1>3 DEF Qty
<1>5. AppliedQty(m) \in Nat
  BY <1>2, <1>4, SumType DEF AppliedQty
<1> QED
  BY <1>1, <1>2, <1>4, <1>5

(* Trades of which m was the maker add up to no more than its fills.       *)
LEMMA AppliedIsTraded ==
    ASSUME RInv, BookSteps, MInv, NEW m \in Orders,
           NEW A, A \subseteq 1..Len(trades), \A i \in A : trades[i].maker = m
    PROVE  SumFunctionOnSet(Qty, A) <= filled[m] /\ filled[m] <= Order[m].qty
<1>1. PICK S : S = P!Mine(m)
  OBVIOUS
<1>2. S \subseteq 1..Len(trades) /\ A \subseteq S
  BY <1>1 DEF P!Mine, BookSteps, P!HistoryGrows
<1>3. IsFiniteSet(S) /\ IsFiniteSet(A)
  BY <1>2, FiniteIndices
<1>4. PICK f : f = [i \in S |-> trades[i].qty]
  OBVIOUS
<1>5. filled[m] = SumFunctionOnSet(f, S)
  <2>1. filled[m] = P!SumFunction(f)
    BY <1>1, <1>4 DEF MInv, P!FillsAddUp, P!Traded
  <2>2. P!SumFunction(f) = P!SumFunctionOnSet(f, S)
    BY <1>4 DEF P!SumFunction
  <2>3. P!SumFunctionOnSet(f, S) = SumFunctionOnSet(f, S)
    BY DEF P!SumFunctionOnSet, P!FoldFunctionOnSet, P!MapThenFoldSet,
           SumFunctionOnSet, FoldFunctionOnSet, MapThenFoldSet
  <2> QED
    BY <2>1, <2>2, <2>3
<1>6. ASSUME NEW i \in S PROVE f[i] \in Nat /\ f[i] = Qty[i]
  <2>1. trades[i].qty \in Int /\ trades[i].qty > 0
    BY <1>2, TradeFields DEF RInv, MInv
  <2> QED
    BY <1>2, <1>4, <2>1 DEF Qty
<1>7. SumFunctionOnSet(f, A) <= SumFunctionOnSet(f, S)
  BY <1>2, <1>3, <1>6, SumPart
<1>8. SumFunctionOnSet(f, A) = SumFunctionOnSet(Qty, A)
  BY <1>2, <1>3, <1>6, SumSame
<1>9. filled[m] <= Order[m].qty
  <2>1. P!Remaining(m) >= 0 /\ filled[m] \in Int /\ Order[m].qty \in Int
    BY BookRemaining DEF RInv, P!IInv, P!AwayOK
  <2> QED
    BY <2>1 DEF P!Remaining
<1> QED
  BY <1>5, <1>7, <1>8, <1>9

(* What a step must keep to for the makers: the trades applied to m stay,  *)
(* and a goroutine about to write has loaded the fills of its maker.       *)
Writers ==
    \A u \in Orders : pc'[u] = "writing" =>
        /\ todo'[u] = todo[u] /\ todo[u] # {}
        /\ \/ seen'[u] = omsFilled[NextMaker(u).maker]
           \/ pc[u] = "writing" /\ seen'[u] = seen[u]

LEMMA NextSame ==
    ASSUME RInv, BookSteps, NEW u \in Orders, todo'[u] = todo[u], todo[u] # {}
    PROVE  NextMaker(u)' = NextMaker(u)
<1>1. Min(todo[u]) \in 1..Len(trades)
  BY FirstTrade DEF RInv
<1>2. trades'[Min(todo[u])] = trades[Min(todo[u])]
  BY <1>1 DEF BookSteps, P!HistoryGrows
<1> QED
  BY <1>2 DEF NextMaker

(* An order that is the taker of no trade after a step was of none before. *)
LEMMA MatchesGrow ==
    ASSUME BookSteps, NEW m, MatchesOf(m)' = {}
    PROVE  MatchesOf(m) = {}
BY DEF MatchesOf, BookSteps, P!HistoryGrows

(* A filled order stays filled.                                            *)
LEMMA FilledStays ==
    ASSUME BookSteps, NEW m \in Orders, filled[m] = Order[m].qty
    PROVE  filled'[m] = Order[m].qty
<1>1. filled[m] <= filled'[m]
  BY DEF BookSteps, P!HistoryGrows
<1>2. filled'[m] \in Int
  BY DEF BookSteps, P!IInv, P!TypeOK
<1>3. Order[m].qty \in Int
  BY BookRemaining DEF BookSteps
<1>4. Order[m].qty - filled'[m] >= 0
  BY DEF BookSteps, P!IInv, P!AwayOK, P!Remaining
<1> QED
  BY <1>1, <1>2, <1>3, <1>4

LEMMA AppliedSum ==
    ASSUME RInv, BookSteps, MInv, NEW m \in Orders, Applied(m)' = Applied(m)
    PROVE  AppliedQty(m)' = AppliedQty(m)
<1>1. PICK A : A = Applied(m)
  OBVIOUS
<1>2. IsFiniteSet(A) /\ A \subseteq 1..Len(trades)
  BY <1>1, AppliedFinite
<1>3. \A i \in A : Qty'[i] = Qty[i]
  BY <1>2, Indices DEF Qty, BookSteps, P!HistoryGrows
<1>4. PICK g : g = Qty'
  OBVIOUS
<1>5. SumFunctionOnSet(g, A) = SumFunctionOnSet(Qty, A)
  BY <1>2, <1>3, <1>4, SumSame
<1>6. AppliedQty(m)' = SumFunctionOnSet(Qty', Applied(m)')
  BY DEF AppliedQty
<1> QED
  BY <1>1, <1>4, <1>5, <1>6 DEF AppliedQty

LEMMA MakerKept ==
    ASSUME RInv, BookSteps, MInv, NEW m \in Orders, Applied(m)' = Applied(m), Writers,
           MatchesOf(m)' = {} =>
               omsFilled'[m] = omsFilled[m] /\ (oms'[m] = "FILLED" => oms[m] = "FILLED")
    PROVE  MakerOK(m)'
<1> SUFFICES ASSUME MatchesOf(m)' = {}
             PROVE  /\ omsFilled'[m] <= AppliedQty(m)'
                    /\ oms'[m] = "FILLED" => filled'[m] = Order[m].qty
                    /\ \A u \in Orders : pc'[u] = "writing" /\ NextMaker(u)'.maker = m =>
                           seen'[u] <= AppliedQty(m)'
  BY DEF MakerOK
<1>1. AppliedQty(m)' = AppliedQty(m)
  BY AppliedSum
<1>2. MakerOK(m) /\ MatchesOf(m) = {}
  BY MatchesGrow DEF MInv
<1>3. ASSUME NEW u \in Orders, pc'[u] = "writing", NextMaker(u)'.maker = m
      PROVE  seen'[u] <= AppliedQty(m)
  <2>1. todo'[u] = todo[u] /\ todo[u] # {}
    BY <1>3 DEF Writers
  <2>2. NextMaker(u).maker = m
    BY <1>3, <2>1, NextSame
  <2> QED
    BY <1>2, <1>3, <2>2 DEF Writers, MakerOK
<1>4. oms'[m] = "FILLED" => filled'[m] = Order[m].qty
  BY <1>2, FilledStays DEF MakerOK
<1> QED
  BY <1>1, <1>2, <1>3, <1>4 DEF MakerOK

(* The trade of o that its goroutine tells the maker of.                   *)
LEMMA MakerTold ==
    ASSUME RInv, BookSteps, MInv, NEW o \in Orders, UpdateMaker(o),
           NEW m, m = NextMaker(o).maker
    PROVE  MakerOK(m)'
<1> SUFFICES ASSUME MatchesOf(m)' = {}
             PROVE  /\ omsFilled'[m] <= AppliedQty(m)'
                    /\ oms'[m] = "FILLED" => filled'[m] = Order[m].qty
                    /\ \A u \in Orders : pc'[u] = "writing" /\ NextMaker(u)'.maker = m =>
                           seen'[u] <= AppliedQty(m)'
  BY DEF MakerOK
<1>0. TypeOK /\ Clearing(o) /\ pc[o] = "writing" /\ P!IInv
  BY DEF RInv, UpdateMaker
<1>1. PICK i : i = Min(todo[o])
  OBVIOUS
<1>2. /\ i \in todo[o] /\ i \in 1..Len(trades) /\ i \in cleared
      /\ m \in Orders /\ trades[i].taker = o /\ trades[i].maker = m
      /\ NextMaker(o) = trades[i]
  BY <1>0, <1>1, FirstTrade DEF Clearing, NextMaker
<1>3. m # o /\ MatchesOf(m) = {} /\ MakerOK(m)
  <2>1. MatchesOf(m) = {}
    BY MatchesGrow
  <2>2. i \in DOMAIN trades
    BY <1>2 DEF BookSteps, P!HistoryGrows
  <2> QED
    BY <1>2, <2>1, <2>2 DEF MatchesOf, MInv
<1>4. /\ UNCHANGED <<filled, trades, cleared, seen>>
      /\ todo' = [todo EXCEPT ![o] = @ \ {i}]
      /\ omsFilled' = [omsFilled EXCEPT ![m] = seen[o] + trades[i].qty]
      /\ oms' = After(m, MakerStatus(trades[i], seen[o] + trades[i].qty))
  BY <1>1, <1>2 DEF UpdateMaker, bookVars
<1>5. Applied(m)' = Applied(m) \cup {i} /\ i \notin Applied(m)
  <2>1. \A j \in cleared : trades[j].taker \in Orders
    BY <1>0, TradeFields DEF TypeOK
  <2>2. \A j \in cleared : j \in todo'[trades[j].taker] <=>
                               j \in todo[trades[j].taker] /\ (j # i \/ trades[j].taker # o)
    BY <1>0, <1>4, <2>1 DEF TypeOK
  <2> QED
    BY <1>2, <1>4, <2>2 DEF Applied
<1>6. PICK A, q, k : A = Applied(m) /\ q = trades[i].qty /\ k = AppliedQty(m)
  OBVIOUS
<1>7. q \in Int /\ q > 0 /\ k \in Int
  BY <1>2, <1>6, TradeFields, AppliedFinite DEF RInv, MInv
<1>8. SumFunctionOnSet(Qty, A \cup {i}) = k + q
  <2>1. IsFiniteSet(A) /\ i \notin A /\ \A j \in A : Qty[j] \in Int
    BY <1>2, <1>5, <1>6, AppliedFinite
  <2>2. Qty[i] = q
    BY <1>2, <1>6 DEF Qty
  <2>3. SumFunctionOnSet(Qty, A \cup {i}) = SumFunctionOnSet(Qty, A) + Qty[i]
    BY <1>7, <2>1, <2>2, SumAdd
  <2> QED
    BY <1>6, <2>2, <2>3 DEF AppliedQty
<1>9. AppliedQty(m)' = k + q
  <2>1. Qty' = Qty
    BY <1>4 DEF Qty
  <2>2. AppliedQty(m)' = SumFunctionOnSet(Qty', Applied(m)')
    BY DEF AppliedQty
  <2> QED
    BY <1>5, <1>6, <1>8, <2>1, <2>2
<1>10. seen[o] \in Int /\ seen[o] <= k
  BY <1>0, <1>2, <1>3, <1>6 DEF MakerOK, TypeOK
<1>11. omsFilled'[m] = seen[o] + q
  BY <1>0, <1>2, <1>4, <1>6 DEF TypeOK
<1>12. k + q <= filled[m] /\ filled[m] <= Order[m].qty
  <2>1. A \cup {i} \subseteq 1..Len(trades) /\ \A j \in A \cup {i} : trades[j].maker = m
    BY <1>2, <1>6, AppliedFinite DEF Applied
  <2> QED
    BY <1>2, <1>8, <2>1, AppliedIsTraded
<1>13. oms'[m] = "FILLED" => filled'[m] = Order[m].qty
  <2>1. CASE oms[m] = "FILLED"
    BY <1>2, <1>3, <2>1, FilledStays DEF MakerOK
  <2>2. CASE oms[m] # "FILLED" /\ oms'[m] = "FILLED"
    <3>1. MakerStatus(trades[i], seen[o] + q) = "FILLED"
      BY <1>0, <1>2, <1>4, <1>6, <2>2 DEF After, TypeOK
    <3>2. seen[o] + q >= Order[m].qty
      BY <1>2, <3>1 DEF MakerStatus
    <3>3. filled[m] \in Int /\ Order[m].qty \in Int
      BY <1>0, <1>2, BookRemaining
    <3> QED
      BY <1>4, <1>7, <1>10, <1>12, <3>2, <3>3
  <2> QED
    BY <2>1, <2>2
<1>14. ASSUME NEW u \in Orders, pc'[u] = "writing", NextMaker(u)'.maker = m
       PROVE  seen'[u] <= k + q
  <2>1. u # o /\ pc[u] = "writing"
    BY <1>0, <1>14 DEF UpdateMaker, Goto, TypeOK
  <2>2. todo'[u] = todo[u] /\ todo[u] # {}
    BY <1>0, <1>4, <2>1 DEF TypeOK, RInv, Clearing
  <2>3. NextMaker(u).maker = m
    BY <1>14, <2>2, NextSame
  <2>4. seen[u] <= k /\ seen[u] \in Int /\ seen'[u] = seen[u]
    BY <1>0, <1>3, <1>4, <1>6, <2>1, <2>3 DEF MakerOK, TypeOK
  <2> QED
    BY <1>7, <2>4
<1> QED
  BY <1>7, <1>9, <1>10, <1>11, <1>13, <1>14

LEMMA MakersNext ==
    ASSUME RInv, MInv, [Next]_vars
    PROVE  MInv'
<1>0. BookSteps /\ TypeOK
  BY BookOf DEF RInv
<1>1. P!FillsAddUp'
  BY <1>0, P!FillsAddUpStep, BookConstants DEF BookSteps, MInv
<1>2. ASSUME NEW i \in 1..Len(trades)' PROVE trades'[i].qty > 0
  BY <1>0, <1>2 DEF BookSteps, P!HistoryGrows, MInv
<1>3. \A i \in cleared : i \in 1..Len(trades) /\ trades'[i] = trades[i]
                         /\ trades[i].taker \in Orders
  BY <1>0, TradeFields DEF BookSteps, P!HistoryGrows, TypeOK
<1>4. CASE Quiet
  <2>1. \A i \in cleared' : pc'[trades'[i].taker] \in Cleared
    BY <1>3, <1>4 DEF Quiet, MInv
  <2>2. Writers
    BY <1>4 DEF Quiet, Writers, RInv, Clearing
  <2>3. ASSUME NEW m \in Orders PROVE MakerOK(m)'
    <3>1. Applied(m)' = Applied(m)
      BY <1>3, <1>4 DEF Quiet, Applied
    <3> QED
      BY <1>0, <1>4, <2>2, <3>1, MakerKept DEF Quiet
  <2> QED
    BY <1>1, <1>2, <2>1, <2>3 DEF MInv
<1>5. ASSUME NEW o \in Orders, MatchOrderReturns(o) PROVE MInv'
  <2>1. /\ UNCHANGED <<trades, oms, omsFilled, seen, cleared>> /\ pc[o] = "matching"
        /\ \A x \in Orders \ {o} : pc'[x] = pc[x] /\ todo'[x] = todo[x]
        /\ pc'[o] # "writing"
    BY <1>0, <1>5 DEF MatchOrderReturns, Goto, TypeOK, bookVars
  <2>2. \A i \in cleared : trades[i].taker # o
    BY <2>1 DEF MInv, Cleared
  <2>3. \A i \in cleared' : pc'[trades'[i].taker] \in Cleared
    BY <1>3, <2>1, <2>2 DEF MInv
  <2>4. Writers
    BY <2>1 DEF Writers, RInv, Clearing
  <2>5. ASSUME NEW m \in Orders PROVE MakerOK(m)'
    <3>1. Applied(m)' = Applied(m)
      BY <1>3, <2>1, <2>2 DEF Applied
    <3> QED
      BY <1>0, <2>1, <2>4, <3>1, MakerKept
  <2> QED
    BY <1>1, <1>2, <2>3, <2>5 DEF MInv
<1>6. ASSUME NEW o \in Orders, ProcessTrades(o) PROVE MInv'
  <2>1. /\ UNCHANGED <<trades, oms, omsFilled, seen, todo>> /\ cleared' = cleared \cup todo[o]
        /\ pc[o] = "clearing" /\ pc'[o] = "updating"
        /\ \A x \in Orders \ {o} : pc'[x] = pc[x]
    BY <1>0, <1>6 DEF ProcessTrades, Goto, TypeOK, bookVars
  <2>2. \A i \in todo[o] : trades[i].taker = o
    BY DEF RInv, Clearing
  <2>3. \A i \in cleared' : pc'[trades'[i].taker] \in Cleared
    BY <1>3, <2>1, <2>2 DEF MInv, Cleared
  <2>4. Writers
    BY <2>1 DEF Writers, RInv, Clearing
  <2>5. ASSUME NEW m \in Orders PROVE MakerOK(m)'
    <3>1. Applied(m)' = Applied(m)
      BY <1>3, <2>1, <2>2 DEF Applied
    <3> QED
      BY <1>0, <2>1, <2>4, <3>1, MakerKept
  <2> QED
    BY <1>1, <1>2, <2>3, <2>5 DEF MInv
<1>7. ASSUME NEW o \in Orders, UpdateTaker(o) PROVE MInv'
  <2>1. /\ UNCHANGED <<trades, seen, todo, cleared>> /\ pc[o] = "updating" /\ pc'[o] = "makers"
        /\ \A x \in Orders \ {o} : pc'[x] = pc[x] /\ omsFilled'[x] = omsFilled[x]
    BY <1>0, <1>7 DEF UpdateTaker, Goto, TypeOK, bookVars
  <2>2. \A i \in cleared' : pc'[trades'[i].taker] \in Cleared
    BY <1>3, <2>1 DEF MInv, Cleared
  <2>3. Writers
    BY <2>1 DEF Writers, RInv, Clearing
  <2>4. MatchesOf(o)' # {}
    <3>1. PICK i \in todo[o] : trades[i].taker = o /\ i \in 1..Len(trades)
      BY <1>0, <2>1 DEF RInv, Clearing, TypeOK
    <3>2. i \in DOMAIN trades
      BY <1>0, <3>1 DEF BookSteps, P!HistoryGrows
    <3> QED
      BY <2>1, <3>1, <3>2 DEF MatchesOf
  <2>5. \A x \in Orders \ {o} : oms'[x] = oms[x]
    BY <1>0, <1>7 DEF UpdateTaker, After, TypeOK
  <2>6. ASSUME NEW m \in Orders PROVE MakerOK(m)'
    <3>1. Applied(m)' = Applied(m)
      BY <1>3, <2>1 DEF Applied
    <3> QED
      BY <1>0, <2>1, <2>3, <2>4, <2>5, <3>1, MakerKept
  <2> QED
    BY <1>1, <1>2, <2>2, <2>6 DEF MInv
<1>8. ASSUME NEW o \in Orders, LoadMaker(o) PROVE MInv'
  <2>1. /\ UNCHANGED <<trades, oms, omsFilled, todo, cleared>> /\ pc[o] = "makers"
        /\ todo[o] # {} /\ pc'[o] = "writing" /\ seen'[o] = omsFilled[NextMaker(o).maker]
        /\ \A x \in Orders \ {o} : pc'[x] = pc[x] /\ seen'[x] = seen[x]
    BY <1>0, <1>8 DEF LoadMaker, Goto, TypeOK, bookVars
  <2>2. \A i \in cleared' : pc'[trades'[i].taker] \in Cleared
    BY <1>3, <2>1 DEF MInv, Cleared
  <2>3. Writers
    BY <2>1 DEF Writers, RInv, Clearing
  <2>4. ASSUME NEW m \in Orders PROVE MakerOK(m)'
    <3>1. Applied(m)' = Applied(m)
      BY <1>3, <2>1 DEF Applied
    <3> QED
      BY <1>0, <2>1, <2>3, <3>1, MakerKept
  <2> QED
    BY <1>1, <1>2, <2>2, <2>4 DEF MInv
<1>9. ASSUME NEW o \in Orders, UpdateMaker(o) PROVE MInv'
  <2>0. pc[o] = "writing" /\ todo[o] # {} /\ P!IInv /\ Clearing(o)
    BY <1>9 DEF UpdateMaker, RInv, Clearing
  <2>1. PICK i, t, q : i = Min(todo[o]) /\ t = NextMaker(o).maker
                       /\ q = seen[o] + NextMaker(o).qty
    OBVIOUS
  <2>2. i \in todo[o] /\ t \in Orders /\ trades[i].maker = t /\ trades[i].taker = o
    BY <1>0, <2>0, <2>1, FirstTrade DEF NextMaker, Clearing
  <2>3. /\ UNCHANGED <<trades, seen, cleared>> /\ pc'[o] \in {"done", "makers"}
        /\ \A x \in Orders \ {o} : pc'[x] = pc[x] /\ todo'[x] = todo[x]
        /\ todo'[o] = todo[o] \ {i}
        /\ \A x \in Orders \ {t} : omsFilled'[x] = omsFilled[x]
        /\ oms' = After(t, MakerStatus(NextMaker(o), q))
    BY <1>0, <1>9, <2>1, <2>2 DEF UpdateMaker, Goto, TypeOK, bookVars
  <2>4. \A x \in Orders \ {t} : oms'[x] = oms[x]
    BY <1>0, <2>3 DEF After, TypeOK
  <2>5. \A j \in cleared' : pc'[trades'[j].taker] \in Cleared
    BY <1>3, <2>3 DEF MInv, Cleared
  <2>6. Writers
    BY <2>3 DEF Writers, RInv, Clearing
  <2>7. ASSUME NEW m \in Orders PROVE MakerOK(m)'
    <3>1. CASE m = t
      BY <1>0, <1>9, <2>1, <3>1, MakerTold
    <3>2. CASE m # t
      <4>1. Applied(m)' = Applied(m)
        BY <1>3, <2>2, <2>3, <3>2 DEF Applied
      <4> QED
        BY <1>0, <2>3, <2>4, <2>6, <3>2, <4>1, MakerKept
    <3> QED
      BY <3>1, <3>2
  <2> QED
    BY <1>1, <1>2, <2>5, <2>7 DEF MInv
<1> QED
  BY <1>0, <1>4, <1>5, <1>6, <1>7, <1>8, <1>9, Steps

(* The OMS never overstates the fills of an order that has only been a     *)
(* maker, however the unlocked updates of FilledQty interleave: each adds  *)
(* its own trade to a value that was covered by trades already applied.    *)
THEOREM MakerFillsTrue == Spec => []MakerFillsNotOverstated
<1>1. ASSUME Init PROVE MInv
  <2>1. P!FillsAddUp
    BY <1>1, SameState, P!FillsAddUpInit, BookConstants DEF Init
  <2>2. trades = <<>> /\ cleared = {}
    BY <1>1 DEF Init, M!Init
  <2>3. ASSUME NEW m \in Orders PROVE MakerOK(m)
    <3>1. Applied(m) = {}
      BY <2>2 DEF Applied
    <3>2. AppliedQty(m) = 0
      BY <3>1, SumEmpty DEF AppliedQty
    <3> QED
      BY <1>1, <3>2 DEF Init, MakerOK
  <2> QED
    BY <2>1, <2>2, <2>3 DEF MInv
<1>2. RInv /\ MInv /\ [Next]_vars => MInv'
  BY MakersNext
<1>3. RInv /\ MInv /\ [Next]_vars => MakerFillsNotOverstated
  <2> SUFFICES ASSUME RInv, MInv, BookSteps, NEW o \in Orders, MatchesOf(o) = {}
               PROVE  /\ omsFilled[o] <= filled[o]
                      /\ oms[o] = "FILLED" => filled[o] = Order[o].qty
    BY BookOf DEF MakerFillsNotOverstated
  <2>1. MakerOK(o)
    BY DEF MInv
  <2>2. AppliedQty(o) \in Int /\ omsFilled[o] \in Int /\ filled[o] \in Int
    BY AppliedFinite, BookRemaining DEF RInv, TypeOK
  <2>3. AppliedQty(o) <= filled[o]
    <3>1. Applied(o) \subseteq 1..Len(trades) /\ \A i \in Applied(o) : trades[i].maker = o
      BY AppliedFinite DEF Applied
    <3> QED
      BY <3>1, AppliedIsTraded DEF AppliedQty
  <2> QED
    BY <2>1, <2>2, <2>3 DEF MakerOK
<1> QED
  BY <1>1, <1>2, <1>3, RouterInductive, PTL DEF Spec
===============================================================================
