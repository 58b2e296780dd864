--------------------------- MODULE OrderGateway ---------------------------
(***************************************************************************)
(* An order on its way from the API gateway to the book: the gateway's     *)
(* idempotency middleware and order handlers (src/apps/backend/            *)
(* oms_handlers.go, main.go), the Kafka topic velyxora-orders              *)
(* (src/packages/common/kafka.go), the matching engine's consumer          *)
(* (src/apps/matching-engine/main.go) and the first half of                *)
(* ProcessIncomingOrder: SubmitOrder and the risk controls of              *)
(* ValidateOrder (engine/oms_state.go, oms_router.go, risk.go).            *)
(*                                                                         *)
(* What happens to the order in the book is the module Matcher, and how    *)
(* its state and its reservation follow is OMSRouter.                      *)
(*                                                                         *)
(* One user trades in one market.  A request is an attempt of that user's  *)
(* client: it names its idempotency key and its body, and a retry is       *)
(* another attempt with the same key.  The order a request creates is      *)
(* named by the attempt that created it (the code uses the nanosecond      *)
(* clock).  The two services are separate processes and share PostgreSQL   *)
(* and the topic only.                                                     *)
(***************************************************************************)
EXTENDS Naturals, FiniteSets, TLC

CONSTANTS
    Attempts,       \* requests of the client, and the orders they create
    Keys,           \* values of X-Idempotency-Key
    Bodies,         \* request bodies that hash differently
    Controls,       \* risk_controls rows that concern the user's orders
    NoKey, None,    \* no header; no attempt
    MaxCalls,       \* bound on operators' calls
    MaxFaults       \* bound on failed or ambiguous calls and on crashes

ASSUME GatewayAssumption ==
    /\ NoKey \notin Keys
    /\ None \notin Attempts
    /\ MaxCalls \in Nat
    /\ MaxFaults \in Nat

VARIABLES
    attempts,   \* the gateway's handling of each request
    records,    \* table idempotency_records
    topic,      \* copies of each event in velyxora-orders not read yet
    unstored,   \* events that Publish reported sent and no broker has (history)
    orders,     \* table orders: the status column
    entered,    \* how often MatchOrder was called for an order (history)
    dropped,    \* orders whose event was read but not carried out (history)
    worker,     \* the engine's consumer callback
    rows,       \* table risk_controls
    held,       \* the controls in the memory of the engine's RiskEngine
    admin,      \* the operator's call being served by each process
    standing,   \* controls an acknowledged call set and none lifts (history)
    calls, faults, crashes

vars == <<attempts, records, topic, unstored, orders, entered, dropped, worker,
          rows, held, admin, standing, calls, faults, crashes>>
gatewayVars == <<attempts, records>>
topicVars   == <<topic, unstored>>
engineVars  == <<orders, entered, dropped, worker>>
controlVars == <<rows, held, admin, standing, calls>>

Routes    == {"create", "trading", "cancel", "replace"}
Processes == {"gateway", "engine"}
Events    == {"created", "cancel"} \X Attempts

Answer(code, order) == [code |-> code, order |-> order]
NoAnswer == Answer("none", None)
Conflict == Answer("conflict", None)

NotSent == [pc |-> "unsent", route |-> "create", key |-> NoKey, body |-> None,
            target |-> None, ran |-> FALSE, answer |-> NoAnswer]

NoRecord == [status |-> "absent", hash |-> None, answer |-> NoAnswer]

Idle == [pc |-> "read", order |-> None]
NoCall == [pc |-> "idle", control |-> None, value |-> FALSE]

Answers == [code : {"none", "conflict", "refused", "failed", "accepted"},
            order : Attempts \cup {None}]
Requests == [pc : {"unsent", "lookup", "insert", "handle", "replacing",
                   "complete", "done"},
             route : Routes, key : Keys \cup {NoKey},
             body : Bodies \cup {None}, target : Attempts \cup {None},
             ran : BOOLEAN, answer : Answers]
Records == [status : {"absent", "PROCESSING", "COMPLETED"},
            hash : Bodies \cup {None}, answer : Answers]
Workers == [pc : {"read", "submit", "validate", "enter"},
            order : Attempts \cup {None}]
Calls == [pc : {"idle", "persist"}, control : Controls \cup {None},
          value : BOOLEAN]

Fault == faults + crashes < MaxFaults /\ faults' = faults + 1
Fine  == faults' = faults

-----------------------------------------------------------------------------
(* The client *)

\* A request reaches the gateway, with or without a key.  DELETE
\* /orders/:id has no body, so every cancellation has the same hash.  A
\* cancellation or a replacement names an order the client knows of.
Send(a) ==
    /\ attempts[a].pc = "unsent"
    /\ \E r \in Routes, k \in Keys \cup {NoKey},
          b \in Bodies, t \in Attempts :
          /\ r \in {"cancel", "replace"} => attempts[t].answer.order = t
          /\ r \notin {"cancel", "replace"} => t = a
          /\ attempts' = [attempts EXCEPT ![a] =
                [pc |-> IF k = NoKey THEN "handle" ELSE "lookup",
                 route |-> r, key |-> k,
                 body |-> IF r = "cancel" \/ k = NoKey THEN None ELSE b,
                 target |-> IF r \in {"cancel", "replace"} THEN t ELSE None,
                 ran |-> FALSE, answer |-> NoAnswer]]
    /\ UNCHANGED <<records, topicVars, engineVars, controlVars, faults, crashes>>

-----------------------------------------------------------------------------
(* IdempotencyMiddleware *)

Finish(a, ans) ==
    attempts' = [attempts EXCEPT ![a].pc = "done", ![a].answer = ans]

\* Mutant: the payload hash is not compared.
BugReplay(rec, body) ==
    IF rec.status = "PROCESSING" THEN Conflict ELSE rec.answer

\* What the record of an earlier attempt answers.
Replay(rec, body) ==
    IF rec.status = "PROCESSING" \/ rec.hash # body THEN Conflict ELSE rec.answer

\* SELECT ... FROM idempotency_records.  An error, the cancelled context of a
\* client that hung up included, counts as "no record".
LookupRecord(a) ==
    LET k == attempts[a].key IN
    /\ attempts[a].pc = "lookup"
    /\ \/ /\ records[k].status # "absent" /\ Fine
          /\ Finish(a, Replay(records[k], attempts[a].body))
       \/ /\ IF records[k].status = "absent" THEN Fine ELSE Fault
          /\ attempts' = [attempts EXCEPT ![a].pc = "insert"]
    /\ UNCHANGED <<records, topicVars, engineVars, controlVars, crashes>>

\* Mutant: the record is upserted.
BugClaimable(k) == TRUE

\* The primary key (id_key, user_id) admits one INSERT.
Claimable(k) == records[k].status = "absent"

\* INSERT of the PROCESSING record; every error answers 409, also the one
\* that hides an INSERT that took effect.
InsertRecord(a) ==
    LET k == attempts[a].key IN
    /\ attempts[a].pc = "insert"
    /\ \/ /\ Claimable(k) /\ Fine
          /\ records' = [records EXCEPT ![k] =
                [status |-> "PROCESSING", hash |-> attempts[a].body,
                 answer |-> NoAnswer]]
          /\ attempts' = [attempts EXCEPT ![a].pc = "handle"]
       \/ /\ IF Claimable(k) THEN Fault ELSE Fine
          /\ Finish(a, Conflict)
          /\ UNCHANGED records
       \/ /\ Claimable(k) /\ Fault
          /\ records' = [records EXCEPT ![k] =
                [status |-> "PROCESSING", hash |-> attempts[a].body,
                 answer |-> NoAnswer]]
          /\ Finish(a, Conflict)
    /\ UNCHANGED <<topicVars, engineVars, controlVars, crashes>>

\* The handler has written its answer: without a key the request is over.
Respond(a, ans) ==
    attempts' = [attempts EXCEPT
                   ![a].pc = IF attempts[a].key = NoKey THEN "done"
                                                        ELSE "complete",
                   ![a].answer = ans, ![a].ran = TRUE]

\* Mutant: only a success is recorded.
BugCompleteRecord(a) ==
    LET k == attempts[a].key IN
    /\ attempts[a].pc = "complete"
    /\ Fine
    /\ records' = IF attempts[a].answer.code = "accepted"
                  THEN [records EXCEPT ![k].status = "COMPLETED",
                                       ![k].answer = attempts[a].answer]
                  ELSE records
    /\ attempts' = [attempts EXCEPT ![a].pc = "done"]
    /\ UNCHANGED <<topicVars, engineVars, controlVars, crashes>>

\* UPDATE to COMPLETED with the answer, whatever it was; its error is dropped
\* and leaves the record PROCESSING.
CompleteRecord(a) ==
    LET k == attempts[a].key IN
    /\ attempts[a].pc = "complete"
    /\ \/ /\ Fine
          /\ records' = [records EXCEPT ![k].status = "COMPLETED",
                                        ![k].answer = attempts[a].answer]
       \/ Fault /\ UNCHANGED records
    /\ attempts' = [attempts EXCEPT ![a].pc = "done"]
    /\ UNCHANGED <<topicVars, engineVars, controlVars, crashes>>

-----------------------------------------------------------------------------
(* The order handlers *)

\* The Writer sets no RequiredAcks, which is RequireNone in kafka-go: Publish
\* returns once the message is written to the connection, and success may
\* follow a message no broker stored.  It retries on an error, so a message
\* may be stored twice, and an error may follow a stored message.
Publish(e, ok) ==
    \/ ok /\ Fine /\ topic' = [topic EXCEPT ![e] = @ + 1] /\ UNCHANGED unstored
    \/ ok /\ Fault /\ topic' = [topic EXCEPT ![e] = @ + 2] /\ UNCHANGED unstored
    \/ ok /\ Fault /\ unstored' = unstored \cup {e} /\ UNCHANGED topic
    \/ /\ ~ok /\ Fault
       /\ topic' \in {topic, [topic EXCEPT ![e] = @ + 1]}
       /\ UNCHANGED unstored

\* RBAC, a body that does not bind, MFA on a large order and the compliance
\* gate (VerifyTradingCompliance) refuse before anything is published.
Refuse(a) ==
    /\ attempts[a].pc = "handle"
    /\ Respond(a, Answer("refused", None))
    /\ UNCHANGED <<records, topicVars, engineVars, controlVars, faults, crashes>>

\* Mutant: the publish error is dropped, as POST /trading/orders does.
BugCreateOrder(a) ==
    /\ attempts[a].pc = "handle" /\ attempts[a].route = "create"
    /\ \E ok \in BOOLEAN : Publish(<<"created", a>>, ok)
    /\ Respond(a, Answer("accepted", a))
    /\ UNCHANGED <<records, engineVars, controlVars, crashes>>

\* handleCreateOrder: a publish error is answered with 500.
CreateOrder(a) ==
    /\ attempts[a].pc = "handle" /\ attempts[a].route = "create"
    /\ \E ok \in BOOLEAN :
          /\ Publish(<<"created", a>>, ok)
          /\ Respond(a, IF ok THEN Answer("accepted", a)
                              ELSE Answer("failed", None))
    /\ UNCHANGED <<records, engineVars, controlVars, crashes>>

\* POST /trading/orders: the publish error is dropped, the answer is 202.
TradingOrder(a) ==
    /\ attempts[a].pc = "handle" /\ attempts[a].route = "trading"
    /\ \E ok \in BOOLEAN : Publish(<<"created", a>>, ok)
    /\ Respond(a, Answer("accepted", a))
    /\ UNCHANGED <<records, engineVars, controlVars, crashes>>

CancelOrder(a) ==
    /\ attempts[a].pc = "handle" /\ attempts[a].route = "cancel"
    /\ \E ok \in BOOLEAN :
          /\ Publish(<<"cancel", attempts[a].target>>, ok)
          /\ Respond(a, Answer(IF ok THEN "accepted" ELSE "failed", None))
    /\ UNCHANGED <<records, engineVars, controlVars, crashes>>

\* handleReplaceOrder publishes the cancellation, then the new order, and
\* drops both errors.
ReplaceCancel(a) ==
    /\ attempts[a].pc = "handle" /\ attempts[a].route = "replace"
    /\ \E ok \in BOOLEAN : Publish(<<"cancel", attempts[a].target>>, ok)
    /\ attempts' = [attempts EXCEPT ![a].pc = "replacing", ![a].ran = TRUE]
    /\ UNCHANGED <<records, engineVars, controlVars, crashes>>

ReplaceCreate(a) ==
    /\ attempts[a].pc = "replacing"
    /\ \E ok \in BOOLEAN : Publish(<<"created", a>>, ok)
    /\ Respond(a, Answer("accepted", a))
    /\ UNCHANGED <<records, engineVars, controlVars, crashes>>

-----------------------------------------------------------------------------
(* The matching engine's consumer *)

\* ReadMessage commits the offset before the callback runs.  The topic's
\* partitions are filled by load (LeastBytes), so any unread event may come
\* next.  The callback handles EventOrderCreated only.
ReadEvent ==
    /\ worker.pc = "read"
    /\ \E e \in Events :
          /\ topic[e] > 0
          /\ topic' = [topic EXCEPT ![e] = @ - 1]
          /\ worker' = IF e[1] = "created"
                       THEN [pc |-> "submit", order |-> e[2]] ELSE Idle
    /\ UNCHANGED <<gatewayVars, unstored, orders, entered, dropped, controlVars,
                   faults, crashes>>

\* A panic in the callback ends the process, as a crash does; the restart
\* begins with an empty order map and book and what LoadRiskControls finds.
LoadRiskControls(mem) ==
    [c \in Controls |-> IF rows[c] = "none" THEN mem[c] ELSE rows[c] = "true"]

Restart(lost) ==
    /\ dropped' = dropped \cup (lost \ {None})
    /\ worker' = Idle
    /\ held' = LoadRiskControls([c \in Controls |-> FALSE])
    /\ admin' = [admin EXCEPT !["engine"] = NoCall]

RestartEngine == Restart({worker.order})

\* The commit of the offset fails, or its answer is lost: ReadMessage returns
\* an error and no message, Consume returns it and the process ends.
CommitFails ==
    /\ worker.pc = "read"
    /\ Fault
    /\ \E e \in Events :
          /\ topic[e] > 0
          /\ \/ UNCHANGED topic /\ Restart({})
             \/ /\ topic' = [topic EXCEPT ![e] = @ - 1]
                /\ Restart(IF e[1] = "created" THEN {e[2]} ELSE {})
    /\ UNCHANGED <<gatewayVars, unstored, orders, entered, rows, standing, calls,
                   crashes>>

\* Mutant: ON CONFLICT DO UPDATE.
BugInserts(o) == TRUE

\* The primary key of orders.
Inserts(o) == orders[o] = "absent"

\* SubmitOrder: the INSERT panics when it fails, on a duplicate too.
SubmitOrder ==
    LET o == worker.order IN
    /\ worker.pc = "submit"
    /\ \/ /\ Inserts(o) /\ Fine
          /\ orders' = [orders EXCEPT ![o] = "CREATED"]
          /\ worker' = [worker EXCEPT !.pc = "validate"]
          /\ UNCHANGED <<dropped, held, admin>>
       \/ /\ IF Inserts(o) THEN Fault ELSE Fine
          /\ RestartEngine
          /\ UNCHANGED orders
    /\ UNCHANGED <<gatewayVars, topicVars, entered, rows, standing, calls,
                   crashes>>

\* Mutant: ValidateOrder trusts the engine's memory.
BugReread(blind) == held

\* ValidateOrder rereads each control; a failed read and a missing row leave
\* the remembered value.  blind is the set of reads that fail.  The SELECTs
\* follow each other; the step is the moment of the SELECT of each control,
\* and a row that changes after it is not seen by this order.
Reread(blind) ==
    [c \in Controls |-> IF c \in blind THEN held[c]
                                       ELSE LoadRiskControls(held)[c]]

\* The validators and ValidateOrder.  The UPDATE of a transition may fail:
\* the first one ends the processing, the errors of the others are dropped.
ValidateOrder ==
    LET o == worker.order IN
    /\ worker.pc = "validate"
    /\ \/ \* the transition to PENDING_VALIDATION is not written
          /\ Fault
          /\ worker' = Idle
          /\ dropped' = dropped \cup {o}
          /\ UNCHANGED <<orders, held>>
       \/ \* a trading rule or a balance check refuses
          /\ Fine
          /\ orders' = [orders EXCEPT ![o] = "REJECTED"]
          /\ worker' = Idle
          /\ UNCHANGED <<dropped, held>>
       \/ \E blind \in SUBSET Controls :
          /\ IF blind = {} THEN Fine ELSE Fault
          /\ held' = Reread(blind)
          /\ UNCHANGED dropped
          /\ IF \E c \in Controls : held'[c]
             THEN /\ orders' = [orders EXCEPT ![o] = "REJECTED"]
                  /\ worker' = Idle
             ELSE /\ orders' = [orders EXCEPT ![o] = "ACCEPTED"]
                  /\ worker' = [worker EXCEPT !.pc = "enter"]
    /\ UNCHANGED <<gatewayVars, topicVars, entered, rows, admin, standing,
                   calls, crashes>>

\* The order is given to MatchOrder.
EnterBook ==
    LET o == worker.order IN
    /\ worker.pc = "enter"
    /\ entered' = [entered EXCEPT ![o] = @ + 1]
    /\ orders' = [orders EXCEPT ![o] = "QUEUED"]
    /\ worker' = Idle
    /\ UNCHANGED <<gatewayVars, topicVars, dropped, controlVars, faults, crashes>>

-----------------------------------------------------------------------------
(* Operators: /oms/risk/halt, block, suspend and /internal/v1/admin/...    *)

\* The call changes the serving process's memory.  The RiskEngine inside the
\* gateway validates no order in production, so its memory is left out (the
\* handlers there also reload it, SetDB).
SetControl(p) ==
    /\ admin[p].pc = "idle"
    /\ calls < MaxCalls /\ calls' = calls + 1
    /\ \E c \in Controls, v \in BOOLEAN :
          /\ admin' = [admin EXCEPT ![p] =
                         [pc |-> "persist", control |-> c, value |-> v]]
          /\ held' = IF p = "engine" THEN [held EXCEPT ![c] = v] ELSE held
          /\ standing' = IF v THEN standing ELSE standing \ {c}
    /\ UNCHANGED <<gatewayVars, topicVars, engineVars, rows, faults, crashes>>

\* ... then upserts the row; an error is dropped and the call still succeeds.
PersistControl(p) ==
    LET c == admin[p].control
        alone == \A q \in Processes \ {p} :
                    admin[q].pc = "persist" => admin[q].control # c
                                               \/ admin[q].value
    IN
    /\ admin[p].pc = "persist"
    /\ \/ /\ Fine
          /\ rows' = [rows EXCEPT ![c] =
                        IF admin[p].value THEN "true" ELSE "false"]
          /\ standing' = IF admin[p].value /\ alone THEN standing \cup {c}
                                                    ELSE standing
       \/ Fault /\ UNCHANGED <<rows, standing>>
    /\ admin' = [admin EXCEPT ![p] = NoCall]
    /\ UNCHANGED <<gatewayVars, topicVars, engineVars, held, calls, crashes>>

-----------------------------------------------------------------------------
(* Crashes *)

InGateway(a) == attempts[a].pc \notin {"unsent", "done"}

\* A replica of the gateway ends with the requests it serves.
CrashGateway ==
    /\ crashes + faults < MaxFaults /\ crashes' = crashes + 1
    /\ \E dead \in SUBSET {a \in Attempts : InGateway(a)} :
          attempts' = [a \in Attempts |->
             IF a \in dead THEN [attempts[a] EXCEPT !.pc = "done",
                                                    !.answer = NoAnswer]
                           ELSE attempts[a]]
    /\ admin' \in {admin, [admin EXCEPT !["gateway"] = NoCall]}
    /\ UNCHANGED <<records, topicVars, engineVars, rows, held, standing, calls,
                   faults>>

CrashEngine ==
    /\ crashes + faults < MaxFaults /\ crashes' = crashes + 1
    /\ RestartEngine
    /\ UNCHANGED <<gatewayVars, topicVars, orders, entered, rows, standing, calls,
                   faults>>

-----------------------------------------------------------------------------
Init ==
    /\ attempts = [a \in Attempts |-> NotSent]
    /\ records = [k \in Keys |-> NoRecord]
    /\ topic = [e \in Events |-> 0]
    /\ unstored = {}
    /\ orders = [o \in Attempts |-> "absent"]
    /\ entered = [o \in Attempts |-> 0]
    /\ dropped = {}
    /\ worker = Idle
    /\ rows = [c \in Controls |-> "none"]
    /\ held = [c \in Controls |-> FALSE]
    /\ admin = [p \in Processes |-> NoCall]
    /\ standing = {}
    /\ calls = 0 /\ faults = 0 /\ crashes = 0

Serve(a) ==
    \/ LookupRecord(a) \/ InsertRecord(a) \/ CompleteRecord(a)
    \/ Refuse(a) \/ CreateOrder(a) \/ TradingOrder(a) \/ CancelOrder(a)
    \/ ReplaceCancel(a) \/ ReplaceCreate(a)

Consume == ReadEvent \/ CommitFails \/ SubmitOrder \/ ValidateOrder \/ EnterBook

Operate == \E p \in Processes : SetControl(p) \/ PersistControl(p)

Next ==
    \/ \E a \in Attempts : Send(a) \/ Serve(a)
    \/ Consume
    \/ Operate
    \/ CrashGateway \/ CrashEngine

Spec == Init /\ [][Next]_vars
-----------------------------------------------------------------------------
(* Properties *)

TypeOK ==
    /\ attempts \in [Attempts -> Requests]
    /\ records \in [Keys -> Records]
    /\ topic \in [Events -> Nat]
    /\ unstored \subseteq Events
    /\ orders \in [Attempts -> {"absent", "CREATED", "REJECTED", "ACCEPTED",
                                "QUEUED"}]
    /\ entered \in [Attempts -> Nat]
    /\ dropped \subseteq Attempts
    /\ worker \in Workers
    /\ rows \in [Controls -> {"none", "true", "false"}]
    /\ held \in [Controls -> BOOLEAN]
    /\ admin \in [Processes -> Calls]
    /\ standing \subseteq Controls
    /\ {calls, faults, crashes} \subseteq Nat

\* The handler behind an idempotency key runs once, whatever the number of
\* retries, lost answers and restarts (IdempotencyMiddleware).
HandledOnce ==
    \A k \in Keys :
        Cardinality({a \in Attempts : attempts[a].key = k
                                      /\ attempts[a].ran}) <= 1

\* Every attempt under a key that is answered at all, other than by a 409,
\* has the same body and the same answer.
SameAnswer ==
    \A a, b \in Attempts :
        /\ attempts[a].key = attempts[b].key /\ attempts[a].key # NoKey
        /\ attempts[a].pc = "done" /\ attempts[b].pc = "done"
        /\ {attempts[a].answer, attempts[b].answer} \cap
              {NoAnswer, Conflict} = {}
        => /\ attempts[a].body = attempts[b].body
           /\ attempts[a].answer = attempts[b].answer

\* An order is given to the matcher once, although the topic may deliver it
\* twice and the engine restarts with an empty order map in between
\* (SubmitOrder's INSERT).
EnteredOnce == \A o \in Attempts : entered[o] <= 1

\* While an acknowledged halt, block or suspension stands, no order passes
\* ValidateOrder, whichever process served the call and however often the
\* engine restarted, unless a read of ValidateOrder itself fails.  An order
\* passes a control at the moment ValidateOrder reads its row: one that stands
\* only after that lets the order into the book.
ControlsHold ==
    [][worker.pc = "validate" /\ worker'.pc = "enter" /\ faults' = faults
         => standing = {}]_vars

\* The order of an event is in the topic, in the consumer's hands or decided,
\* or the engine crashed, panicked or could not write while it held it.
Carried(a) ==
    \/ topic[<<"created", a>>] > 0
    \/ worker.order = a
    \/ orders[a] \in {"REJECTED", "QUEUED"}
    \/ a \in dropped

Acknowledged(a) ==
    attempts[a].route = "create" /\ attempts[a].answer = Answer("accepted", a)

\* An order acknowledged through /oms/orders is in the topic, in the
\* consumer's hands or decided, unless no broker stored the message the
\* writer reported as sent, or the engine crashed, panicked, could not write
\* or could not commit while it held the order.  Nothing else loses it: not a
\* failed publish, a gateway crash or a restart of an idle engine.
AcknowledgedNotLost ==
    \A a \in Attempts :
        Acknowledged(a) => Carried(a) \/ <<"created", a>> \in unstored

\* The comment on the Writer (kafka.go:28, "Wait for confirmation for
\* high-critical events"): an order is acknowledged to the client only once
\* the broker has its event, so it is carried as long as the engine does not
\* fail while it holds it.
ConfirmedBeforeAcknowledged == \A a \in Attempts : Acknowledged(a) => Carried(a)

\* The variables have their types, and a PROCESSING record belongs to a
\* request whose handler is being served, unless its UPDATE failed, the
\* answer of its INSERT was lost or the gateway crashed while serving it.
ProcessingHasOwner ==
    /\ TypeOK
    /\ \A k \in Keys :
           records[k].status = "PROCESSING"
             => \/ \E a \in Attempts :
                       /\ attempts[a].key = k
                       /\ \/ attempts[a].pc \in {"handle", "replacing", "complete"}
                          \/ /\ attempts[a].pc = "done"
                             /\ attempts[a].answer = NoAnswer
                             /\ crashes > 0
                \/ faults > 0
=============================================================================
