------------------------------- MODULE OMSRouter -------------------------------
(***************************************************************************)
(* The order management system around the book: OMSRouter, with the        *)
(* lifecycle of OMSStateMachine.  Every order is placed by a goroutine     *)
(* that runs ProcessIncomingOrder and may be cancelled by another one that *)
(* runs CancelOrder.  The book is the one of module Matcher.  The OMS      *)
(* keeps its own AdvancedOrder per order, whose FilledQty is updated       *)
(* outside any lock, after the trades have been cleared.                   *)
(***************************************************************************)
EXTENDS Integers, Sequences, FiniteSets, FiniteSetsExt

CONSTANTS Orders, Order, Users, Prices, STPModes, Bridged, NoOrder,
          Replaces      \* [Orders -> Orders \cup {NoOrder}], the order ReplaceOrder cancels first

VARIABLES
    levels, queue, stops, filled, status, lastPrice, seq, stpMode, taker, triggered, fresh,
    toBridge, offBook, trades, entry,
    oms,        \* AdvancedOrder.Status
    omsFilled,  \* AdvancedOrder.FilledQty
    pc,         \* where ProcessIncomingOrder is, for each order
    cpc,        \* where CancelOrder is, for each order
    todo,       \* trades returned by MatchOrder whose makers are still to be updated
    seen,       \* FilledQty of the maker, as loaded by its += in ProcessIncomingOrder
    cleared,    \* trades that went through ProcessTrades and QueueSettlement
    held        \* quantity of each order for which the risk engine holds funds

M == INSTANCE Matcher

bookVars == <<levels, queue, stops, filled, status, lastPrice, seq, stpMode, taker, triggered,
              fresh, toBridge, offBook, trades, entry>>
omsVars == <<oms, omsFilled, pc, cpc, todo, seen, cleared, held>>
vars    == <<bookVars, omsVars>>

Final    == {"FILLED", "CANCELLED", "REJECTED", "EXPIRED", "FAILED", "ARCHIVED"}
OmsState == {"NONE", "CREATED", "PENDING_VALIDATION", "VALIDATED", "ACCEPTED", "QUEUED",
             "PARTIALLY_FILLED"} \cup Final

ASSUME RouterAssumption == M!MatcherConstants /\ Replaces \in [Orders -> Orders \cup {NoOrder}]

TypeOK ==
    /\ M!TypeOK
    /\ oms \in [Orders -> OmsState]
    /\ omsFilled \in [Orders -> Int]
    /\ pc \in [Orders -> {"idle", "created", "pending", "validated", "accepted", "registered",
                          "queued", "matching", "clearing", "updating", "makers", "writing",
                          "done"}]
    /\ cpc \in [Orders -> {"idle", "removed", "releasing", "done", "refused"}]
    /\ todo \in [Orders -> SUBSET (1 .. Len(trades))]
    /\ seen \in [Orders -> Int]
    /\ cleared \in SUBSET (1 .. Len(trades))
    /\ held \in [Orders -> Int]

Init ==
    /\ M!Init
    /\ oms = [o \in Orders |-> "NONE"]
    /\ omsFilled = [o \in Orders |-> 0]
    /\ pc = [o \in Orders |-> "idle"]
    /\ cpc = [o \in Orders |-> "idle"]
    /\ todo = [o \in Orders |-> {}]
    /\ seen = [o \in Orders |-> 0]
    /\ cleared = {}
    /\ held = [o \in Orders |-> 0]

-------------------------------------------------------------------------------
(* The state machine *)

(* Mutant: nothing is final. *)
BugNothingFinal(prev, next) ==
    \/ prev = next
    \/ CASE next = "PENDING_VALIDATION" -> prev = "CREATED"
         [] next = "VALIDATED"          -> prev = "PENDING_VALIDATION"
         [] next = "ACCEPTED"           -> prev = "VALIDATED"
         [] next = "QUEUED"             -> prev = "ACCEPTED"
         [] OTHER                       -> TRUE

(* validateTransition: a final state is left by no transition but the one to itself. *)
ValidTransition(prev, next) ==
    \/ prev = next
    \/ /\ prev \notin Final
       /\ CASE next = "PENDING_VALIDATION" -> prev = "CREATED"
            [] next = "VALIDATED"          -> prev = "PENDING_VALIDATION"
            [] next = "ACCEPTED"           -> prev = "VALIDATED"
            [] next = "QUEUED"             -> prev = "ACCEPTED"
            [] next = "PARTIALLY_FILLED"   -> prev \in {"QUEUED", "ACCEPTED"}
            [] next = "FILLED"             -> prev \in {"QUEUED", "ACCEPTED", "PARTIALLY_FILLED"}
            [] next = "CANCELLED"          -> prev # "CREATED"
            [] OTHER                       -> TRUE

(* TransitionOrder changes the status in memory before it updates the row: when *)
(* the UPDATE fails it returns an error and the new status stays.  Most callers *)
(* drop the error, StartValidation and CancelTransition do not.                 *)
After(o, next) == IF ValidTransition(oms[o], next) THEN [oms EXCEPT ![o] = next] ELSE oms

Goto(o, label) == pc' = [pc EXCEPT ![o] = label]

-------------------------------------------------------------------------------
(* ProcessIncomingOrder *)

(* Mutant: ReplaceOrder does not wait for the cancellation. *)
BugReplaceAtOnce(o) == TRUE

ReplacedFirst(o) == Replaces[o] # NoOrder => cpc[Replaces[o]] = "done"

(* ReplaceOrder submits the new order once CancelOrder of the old one succeeded. *)
SubmitOrder(o) ==
    /\ pc[o] = "idle"
    /\ ReplacedFirst(o)
    /\ oms' = [oms EXCEPT ![o] = "CREATED"]
    /\ Goto(o, "created")
    /\ UNCHANGED <<bookVars, omsFilled, cpc, todo, seen, cleared, held>>

(* The order goes no further when the UPDATE of its row fails. *)
StartValidation(o) ==
    /\ pc[o] = "created"
    /\ oms' = After(o, "PENDING_VALIDATION")
    /\ Goto(o, "pending") \/ Goto(o, "done")
    /\ UNCHANGED <<bookVars, omsFilled, cpc, todo, seen, cleared, held>>

(* ValidateTradingRules or RiskEngine.ValidateOrder refuses the order. *)
RejectOrder(o) ==
    /\ pc[o] = "pending"
    /\ oms' = After(o, "REJECTED")
    /\ Goto(o, "done")
    /\ UNCHANGED <<bookVars, omsFilled, cpc, todo, seen, cleared, held>>

(* Both accept it; ValidateOrder has reserved the funds of the whole quantity. *)
ValidateOrder(o) ==
    /\ pc[o] = "pending"
    /\ held' = [held EXCEPT ![o] = M!Remaining(o)]
    /\ oms' = After(o, "VALIDATED")
    /\ Goto(o, "validated")
    /\ UNCHANGED <<bookVars, omsFilled, cpc, todo, seen, cleared>>

Accept(o) ==
    /\ pc[o] = "validated"
    /\ oms' = After(o, "ACCEPTED")
    /\ Goto(o, "accepted")
    /\ UNCHANGED <<bookVars, omsFilled, cpc, todo, seen, cleared, held>>

(* A stop order is registered before it is marked as queued. *)
RegisterStop(o) ==
    /\ pc[o] = "accepted"
    /\ M!AddStopOrder(o)
    /\ Goto(o, "registered")
    /\ UNCHANGED <<oms, omsFilled, cpc, todo, seen, cleared, held>>

QueueStop(o) ==
    /\ pc[o] = "registered"
    /\ oms' = After(o, "QUEUED")
    /\ Goto(o, "done")
    /\ UNCHANGED <<bookVars, omsFilled, cpc, todo, seen, cleared, held>>

Queue(o) ==
    /\ pc[o] = "accepted"
    /\ ~M!IsStop(o)
    /\ oms' = After(o, "QUEUED")
    /\ Goto(o, "queued")
    /\ UNCHANGED <<bookVars, omsFilled, cpc, todo, seen, cleared, held>>

(* The call of MatchOrder: entered, run step by step, returned. *)
CallMatchOrder(o) ==
    /\ pc[o] = "queued"
    /\ M!Enter(o) \/ M!Reject(o)
    /\ Goto(o, "matching")
    /\ UNCHANGED <<oms, omsFilled, cpc, todo, seen, cleared, held>>

RunMatchOrder(o) == M!MatchStep(o) /\ UNCHANGED omsVars

(* A triggered stop order: go m.MatchOrder(ord), whose result nobody reads. *)
RunTriggeredStop(o) ==
    /\ o \in triggered
    /\ M!Enter(o) \/ M!Reject(o)
    /\ UNCHANGED omsVars

MatchesOf(o) == {i \in DOMAIN trades : trades[i].taker = o}

(* What the bridge adds to the matches of a Bridged order is left out. *)
MatchOrderReturns(o) ==
    /\ pc[o] = "matching"
    /\ taker # o
    /\ todo' = [todo EXCEPT ![o] = MatchesOf(o)]
    /\ Goto(o, IF MatchesOf(o) = {} THEN "done" ELSE "clearing")
    /\ UNCHANGED <<bookVars, oms, omsFilled, cpc, seen, cleared, held>>

(* Mutant: only the first trade is cleared. *)
BugFirstTradeOnly(o) ==
    /\ pc[o] = "clearing"
    /\ cleared' = cleared \cup {Min(todo[o])}
    /\ Goto(o, "updating")
    /\ UNCHANGED <<bookVars, oms, omsFilled, cpc, todo, seen, held>>

(* ProcessTrades and QueueSettlement: the holds behind every trade are released *)
(* on both sides and its settlement is queued.                                  *)
ProcessTrades(o) ==
    LET of(u) == {i \in todo[o] : u \in {trades[i].maker, trades[i].taker}}
        released(u) == SumFunction([i \in of(u) |-> trades[i].qty])
    IN  /\ pc[o] = "clearing"
        /\ held' = [u \in Orders |-> held[u] - released(u)]
        /\ cleared' = cleared \cup todo[o]
        /\ Goto(o, "updating")
        /\ UNCHANGED <<bookVars, oms, omsFilled, cpc, todo, seen>>

(* order.FilledQty = legacyOrder.FilledQty and the transition that goes with the *)
(* status the book has given the order by now.                                   *)
UpdateTaker(o) ==
    /\ pc[o] = "updating"
    /\ omsFilled' = [omsFilled EXCEPT ![o] = filled[o]]
    /\ oms' = IF status[o] \in {"FILLED", "PARTIALLY_FILLED"} THEN After(o, status[o]) ELSE oms
    /\ Goto(o, "makers")
    /\ UNCHANGED <<bookVars, cpc, todo, seen, cleared, held>>

(* makerOrder.FilledQty += t.Quantity, a load and a store without a lock ... *)
NextMaker(o) == trades[Min(todo[o])]

LoadMaker(o) ==
    /\ pc[o] = "makers"
    /\ todo[o] # {}
    /\ seen' = [seen EXCEPT ![o] = omsFilled[NextMaker(o).maker]]
    /\ Goto(o, "writing")
    /\ UNCHANGED <<bookVars, oms, omsFilled, cpc, todo, cleared, held>>

(* Mutant: any fill completes the maker. *)
BugAnyFillCompletes(t, q) == "FILLED"

MakerStatus(t, q) == IF q >= Order[t.maker].qty THEN "FILLED" ELSE "PARTIALLY_FILLED"

(* ... and the transition of the maker. *)
UpdateMaker(o) ==
    LET t == NextMaker(o)
        q == seen[o] + t.qty
    IN  /\ pc[o] = "writing"
        /\ omsFilled' = [omsFilled EXCEPT ![t.maker] = q]
        /\ oms' = After(t.maker, MakerStatus(t, q))
        /\ todo' = [todo EXCEPT ![o] = @ \ {Min(@)}]
        /\ Goto(o, IF Cardinality(todo[o]) = 1 THEN "done" ELSE "makers")
        /\ UNCHANGED <<bookVars, cpc, seen, cleared, held>>

-------------------------------------------------------------------------------
(* CancelOrder, for a user, MassCancel or ReplaceOrder *)

(* GetOrder finds it: the state machine keeps an order from its submission on. *)
Known(o) == oms[o] # "NONE"

(* Mutant: the OMS forgets to tell the book. *)
BugBookNotTold(o) ==
    /\ Known(o)
    /\ o \in M!Resting(Order[o].side) \cup stops
    /\ cpc' = [cpc EXCEPT ![o] = "removed"]
    /\ UNCHANGED <<bookVars, oms, omsFilled, pc, todo, seen, cleared, held>>

(* The order is taken out of the book or the stop orders; CancelOrder returns an *)
(* error and changes nothing when it is in neither.                              *)
CancelOrder(o) ==
    /\ Known(o)
    /\ M!CancelOrder(o) \/ M!CancelStopOrder(o)
    /\ cpc' = [cpc EXCEPT ![o] = "removed"]
    /\ UNCHANGED <<oms, omsFilled, pc, todo, seen, cleared, held>>

(* TransitionOrder to CANCELLED; an error, of the transition or of the UPDATE of *)
(* the row, ends the call before the release.                                    *)
CancelTransition(o) ==
    /\ cpc[o] = "removed"
    /\ oms' = After(o, "CANCELLED")
    /\ \/ ValidTransition(oms[o], "CANCELLED") /\ cpc' = [cpc EXCEPT ![o] = "releasing"]
       \/ cpc' = [cpc EXCEPT ![o] = "refused"]
    /\ UNCHANGED <<bookVars, omsFilled, pc, todo, seen, cleared, held>>

(* The hold on what the OMS believes to be unfilled is released. *)
CancelRelease(o) ==
    LET unfilled == Order[o].qty - omsFilled[o] IN
    /\ cpc[o] = "releasing"
    /\ held' = [held EXCEPT ![o] = IF unfilled > 0 THEN @ - unfilled ELSE @]
    /\ cpc' = [cpc EXCEPT ![o] = "done"]
    /\ UNCHANGED <<bookVars, oms, omsFilled, pc, todo, seen, cleared>>

-------------------------------------------------------------------------------
(* A request of the internal API: a submission (of a replacement too), or a  *)
(* cancellation of one order, of a user's orders or of the one replaced.     *)
Arrive(o) == SubmitOrder(o) \/ CancelOrder(o)

(* A step of the goroutine that places o *)
Place(o) ==
    \/ StartValidation(o)
    \/ RejectOrder(o)
    \/ ValidateOrder(o)
    \/ Accept(o)
    \/ RegisterStop(o)
    \/ QueueStop(o)
    \/ Queue(o)
    \/ CallMatchOrder(o)
    \/ MatchOrderReturns(o)
    \/ ProcessTrades(o)
    \/ UpdateTaker(o)
    \/ LoadMaker(o)
    \/ UpdateMaker(o)

Next ==
    \E o \in Orders :
        \/ Arrive(o)
        \/ Place(o)
        \/ RunMatchOrder(o)
        \/ RunTriggeredStop(o)
        \/ CancelTransition(o)
        \/ CancelRelease(o)

Spec == Init /\ [][Next]_vars

(* Goroutines that can run do run. *)
FairSpec ==
    /\ Spec
    /\ WF_vars(\E o \in Orders : RunMatchOrder(o))
    /\ \A o \in Orders : WF_vars(Place(o))

-------------------------------------------------------------------------------
(* Properties *)

Booked(o) == o \in M!Resting(Order[o].side) \cup stops \cup triggered \cup {taker}

(* The variables have their types, and an order the OMS reports as cancelled or   *)
(* rejected is out of the book for good: it neither rests, nor waits as a stop    *)
(* order, nor is being matched.                                                   *)
DeadOrdersAreOut ==
    /\ TypeOK
    /\ \A o \in Orders : oms[o] \in {"CANCELLED", "REJECTED"} => ~Booked(o)

(* Once an order is reported as cancelled, a fill that is still on its way through *)
(* the clearing of another order never revives it, nor does any other final state  *)
(* change.                                                                         *)
FinalStatesStay == [][\A o \in Orders : oms[o] \in Final => oms'[o] = oms[o]]_vars

(* Every trade of an order that was placed (not of a triggered stop order) goes  *)
(* through ProcessTrades to the settlement queue: again and again there is a     *)
(* moment at which none is missing there.                                        *)
EveryTradeCleared ==
    []<>(\A i \in DOMAIN trades : ~M!IsStop(trades[i].taker) => i \in cleared)

(* The OMS never overstates the fills of an order that has only been a maker,    *)
(* however the unlocked updates of its FilledQty interleave.                     *)
MakerFillsNotOverstated ==
    \A o \in Orders : MatchesOf(o) = {} =>
        /\ omsFilled[o] <= filled[o]
        /\ oms[o] = "FILLED" => filled[o] = Order[o].qty

(* ReplaceOrder never leaves the old and the new order in the book together. *)
ReplacementNeverDoubles ==
    \A o \in Orders : Replaces[o] # NoOrder /\ Booked(o) => ~Booked(Replaces[o])

(* No trade is lost between the book and the settlement queue: it is cleared, or *)
(* its taker is still on its way to ProcessTrades.                               *)
NoTradeLost ==
    \A i \in DOMAIN trades :
        i \in cleared \/ pc[trades[i].taker] \in {"matching", "clearing"}

(* The holds released for an order never exceed what was reserved for it. *)
NeverOverReleased == \A o \in Orders : held[o] >= 0
===============================================================================
