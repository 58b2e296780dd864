-------------------------- MODULE OrderGatewayProofs --------------------------
(***************************************************************************)
(* Proofs about OrderGateway, for any number of requests, keys, bodies and *)
(* controls, and any number of operators' calls, failures and crashes.     *)
(***************************************************************************)
EXTENDS OrderGateway, FiniteSetTheorems, TLAPS

(* A request that holds the record of its key, or has held it. *)
Serving(a) == attempts[a].pc \in {"handle", "replacing", "complete"}
Owner(a)   == Serving(a) \/ attempts[a].ran

(* Answered, and neither cut off by a crash nor refused by a 409. *)
Answered(a) ==
    /\ attempts[a].pc = "done"
    /\ attempts[a].answer # NoAnswer
    /\ attempts[a].answer # Conflict

(* What a request's place in its handler says of its fields. *)
RequestOK(a) ==
    /\ attempts[a].pc \in {"lookup", "insert", "complete"} => attempts[a].key \in Keys
    /\ attempts[a].pc \in {"unsent", "lookup", "insert"} =>
           ~attempts[a].ran /\ attempts[a].answer = NoAnswer
    /\ attempts[a].pc = "replacing" => attempts[a].route = "replace"
    /\ attempts[a].route \in {"cancel", "replace"} => attempts[a].target \in Attempts
    /\ Serving(a) /\ attempts[a].pc # "complete" => attempts[a].answer = NoAnswer
    /\ attempts[a].pc = "complete" =>
           attempts[a].ran /\ attempts[a].answer.order \in {a, None}

(* A key has one owner at most, *)
OneOwner ==
    \A a, b \in Attempts :
        /\ attempts[a].key \in Keys /\ attempts[a].key = attempts[b].key
        /\ Owner(a) /\ Owner(b)
        => a = b

(* whose record is there, with the hash of its body, and PROCESSING while   *)
(* the owner is served;                                                     *)
OwnerRecorded ==
    \A a \in Attempts :
        attempts[a].key \in Keys /\ Owner(a) =>
            /\ records[attempts[a].key].status # "absent"
            /\ records[attempts[a].key].hash = attempts[a].body
            /\ Serving(a) => records[attempts[a].key].status = "PROCESSING"

(* an answer is the owner's own or a copy of the recorded one,              *)
AnswersAgree ==
    \A a \in Attempts :
        attempts[a].key \in Keys /\ Answered(a) =>
            LET rec == records[attempts[a].key] IN
            /\ rec.status # "absent"
            /\ rec.hash = attempts[a].body
            /\ rec.status = "PROCESSING" => attempts[a].ran
            /\ rec.status = "COMPLETED" => rec.answer = attempts[a].answer

(* and a recorded answer names the order of a request that has run.         *)
RecordedOrders ==
    \A k \in Keys : \A a \in Attempts : records[k].answer.order = a => attempts[a].ran

(* The consumer has an order while it works, whose row follows its steps.   *)
ConsumerOK ==
    /\ worker.pc = "read" <=> worker.order = None
    /\ worker.pc = "validate" => orders[worker.order] = "CREATED"
    /\ worker.pc = "enter" => orders[worker.order] = "ACCEPTED"

QueuedIsEntered ==
    \A o \in Attempts : entered[o] = IF orders[o] = "QUEUED" THEN 1 ELSE 0

(* A standing control has its row, and no call is about to lift it.         *)
StandingIsStored ==
    /\ \A p \in Processes : admin[p].pc = "persist" => admin[p].control \in Controls
    /\ \A c \in standing :
           /\ rows[c] = "true"
           /\ \A p \in Processes :
                  admin[p].pc = "persist" /\ admin[p].control = c => admin[p].value

RequestsInv ==
    /\ \A a \in Attempts : RequestOK(a)
    /\ OneOwner
    /\ OwnerRecorded
    /\ AnswersAgree
    /\ RecordedOrders

IInv ==
    /\ ProcessingHasOwner
    /\ RequestsInv
    /\ ConsumerOK
    /\ QueuedIsEntered
    /\ AcknowledgedNotLost
    /\ StandingIsStored

-------------------------------------------------------------------------------
(* How a step changes one request *)

LEMMA AnswerTypes ==
    /\ NoAnswer \in Answers /\ Conflict \in Answers
    /\ NotSent \in Requests /\ NoRecord \in Records
    /\ Idle \in Workers /\ NoCall \in Calls
    /\ Answer("refused", None) \in Answers
    /\ Answer("failed", None) \in Answers
    /\ Answer("accepted", None) \in Answers
    /\ \A a \in Attempts : Answer("accepted", a) \in Answers
BY DEF NoAnswer, Conflict, Answer, Answers, NotSent, Requests, NoRecord, Records, Idle,
       Workers, NoCall, Calls, Routes

(* Request a goes on to pc with the given answer; its identity stays.       *)
Moves(a, pc, ran, ans) ==
    /\ attempts' \in [Attempts -> Requests]
    /\ \A b \in Attempts \ {a} : attempts'[b] = attempts[b]
    /\ attempts'[a].pc = pc /\ attempts'[a].ran = ran /\ attempts'[a].answer = ans
    /\ attempts'[a].key = attempts[a].key /\ attempts'[a].body = attempts[a].body
    /\ attempts'[a].route = attempts[a].route /\ attempts'[a].target = attempts[a].target

LEMMA MovesTo ==
    ASSUME TypeOK, NEW a \in Attempts, NEW r \in Requests,
           attempts' = [attempts EXCEPT ![a] = r],
           r.key = attempts[a].key, r.body = attempts[a].body, r.route = attempts[a].route,
           r.target = attempts[a].target
    PROVE  Moves(a, r.pc, r.ran, r.answer)
<1>1. attempts' \in [Attempts -> Requests]
  BY DEF TypeOK
<1>2. attempts'[a] = r /\ \A b \in Attempts \ {a} : attempts'[b] = attempts[b]
  BY DEF TypeOK
<1> QED
  BY <1>1, <1>2 DEF Moves

LEMMA FinishMoves ==
    ASSUME TypeOK, NEW a \in Attempts, NEW ans \in Answers, Finish(a, ans)
    PROVE  Moves(a, "done", attempts[a].ran, ans)
<1> DEFINE r == [attempts[a] EXCEPT !.pc = "done", !.answer = ans]
<1>1. attempts[a] \in Requests
  BY DEF TypeOK
<1>2. attempts' = [attempts EXCEPT ![a] = r]
  BY DEF Finish, TypeOK
<1>3. r \in Requests /\ r.pc = "done" /\ r.answer = ans /\ r.ran = attempts[a].ran
      /\ r.key = attempts[a].key /\ r.route = attempts[a].route /\ r.body = attempts[a].body
      /\ r.target = attempts[a].target
  BY <1>1 DEF Requests
<1> HIDE DEF r
<1> QED
  BY <1>2, <1>3, MovesTo

LEMMA RespondMoves ==
    ASSUME TypeOK, NEW a \in Attempts, NEW ans \in Answers, Respond(a, ans)
    PROVE  Moves(a, IF attempts[a].key = NoKey THEN "done" ELSE "complete", TRUE, ans)
<1> DEFINE pc == IF attempts[a].key = NoKey THEN "done" ELSE "complete"
           r == [attempts[a] EXCEPT !.pc = pc, !.answer = ans, !.ran = TRUE]
<1>1. attempts[a] \in Requests
  BY DEF TypeOK
<1>2. attempts' = [attempts EXCEPT ![a] = r]
  BY DEF Respond, TypeOK
<1>3. r \in Requests /\ r.pc = pc /\ r.answer = ans /\ r.ran = TRUE
      /\ r.key = attempts[a].key /\ r.route = attempts[a].route /\ r.body = attempts[a].body
      /\ r.target = attempts[a].target
  BY <1>1 DEF Requests
<1> HIDE DEF r
<1> QED
  BY <1>2, <1>3, MovesTo

LEMMA PcMoves ==
    ASSUME TypeOK, NEW a \in Attempts, NEW pc \in {"insert", "handle", "done"},
           attempts' = [attempts EXCEPT ![a].pc = pc]
    PROVE  Moves(a, pc, attempts[a].ran, attempts[a].answer)
<1> DEFINE r == [attempts[a] EXCEPT !.pc = pc]
<1>1. attempts[a] \in Requests
  BY DEF TypeOK
<1>2. attempts' = [attempts EXCEPT ![a] = r]
  BY DEF TypeOK
<1>3. r \in Requests /\ r.pc = pc /\ r.answer = attempts[a].answer /\ r.ran = attempts[a].ran
      /\ r.key = attempts[a].key /\ r.route = attempts[a].route /\ r.body = attempts[a].body
      /\ r.target = attempts[a].target
  BY <1>1 DEF Requests
<1> HIDE DEF r
<1> QED
  BY <1>2, <1>3, MovesTo

LEMMA ReplacingMoves ==
    ASSUME TypeOK, NEW a \in Attempts,
           attempts' = [attempts EXCEPT ![a].pc = "replacing", ![a].ran = TRUE]
    PROVE  Moves(a, "replacing", TRUE, attempts[a].answer)
<1> DEFINE r == [attempts[a] EXCEPT !.pc = "replacing", !.ran = TRUE]
<1>1. attempts[a] \in Requests
  BY DEF TypeOK
<1>2. attempts' = [attempts EXCEPT ![a] = r]
  BY DEF TypeOK
<1>3. r \in Requests /\ r.pc = "replacing" /\ r.answer = attempts[a].answer /\ r.ran = TRUE
      /\ r.key = attempts[a].key /\ r.route = attempts[a].route /\ r.body = attempts[a].body
      /\ r.target = attempts[a].target
  BY <1>1 DEF Requests
<1> HIDE DEF r
<1> QED
  BY <1>2, <1>3, MovesTo

-------------------------------------------------------------------------------
(* What each step does, in terms of Moves *)

(* The record of key k becomes this.                                        *)
Writes(k, status, hash, ans) ==
    /\ records' \in [Keys -> Records]
    /\ \A j \in Keys \ {k} : records'[j] = records[j]
    /\ records'[k].status = status /\ records'[k].hash = hash /\ records'[k].answer = ans

LEMMA WritesRecord ==
    ASSUME TypeOK, NEW k \in Keys, NEW r \in Records, records' = [records EXCEPT ![k] = r]
    PROVE  Writes(k, r.status, r.hash, r.answer)
<1>1. records' \in [Keys -> Records]
  BY DEF TypeOK
<1>2. records'[k] = r /\ \A j \in Keys \ {k} : records'[j] = records[j]
  BY DEF TypeOK
<1> QED
  BY <1>1, <1>2 DEF Writes

LEMMA ReplayType ==
    ASSUME NEW rec \in Records, NEW body
    PROVE  /\ Replay(rec, body) \in Answers
           /\ Replay(rec, body) # Conflict =>
                 /\ rec.status # "PROCESSING" /\ rec.hash = body
                 /\ Replay(rec, body) = rec.answer
BY AnswerTypes DEF Replay, Records

LEMMA LookupEffect ==
    ASSUME TypeOK, NEW a \in Attempts, RequestOK(a), LookupRecord(a)
    PROVE  /\ attempts[a].pc = "lookup" /\ attempts[a].key \in Keys
           /\ \/ /\ records[attempts[a].key].status # "absent"
                 /\ Moves(a, "done", attempts[a].ran,
                          Replay(records[attempts[a].key], attempts[a].body))
              \/ Moves(a, "insert", attempts[a].ran, attempts[a].answer)
           /\ faults' \in Nat /\ faults' >= faults
           /\ UNCHANGED <<records, topicVars, engineVars, controlVars, crashes>>
<1>1. attempts[a].pc = "lookup" /\ attempts[a].key \in Keys
  BY DEF LookupRecord, RequestOK
<1>2. Replay(records[attempts[a].key], attempts[a].body) \in Answers
  BY <1>1, ReplayType DEF TypeOK
<1>3. \/ /\ records[attempts[a].key].status # "absent"
         /\ Finish(a, Replay(records[attempts[a].key], attempts[a].body))
      \/ attempts' = [attempts EXCEPT ![a].pc = "insert"]
  BY DEF LookupRecord
<1>4. faults' \in Nat /\ faults' >= faults
  BY DEF LookupRecord, Fine, Fault, TypeOK
<1> QED
  BY <1>1, <1>2, <1>3, <1>4, FinishMoves, PcMoves DEF LookupRecord

LEMMA InsertEffect ==
    ASSUME TypeOK, NEW a \in Attempts, RequestOK(a), InsertRecord(a)
    PROVE  /\ attempts[a].pc = "insert" /\ attempts[a].key \in Keys
           /\ \/ /\ records[attempts[a].key].status = "absent"
                 /\ Writes(attempts[a].key, "PROCESSING", attempts[a].body, NoAnswer)
                 /\ Moves(a, "handle", attempts[a].ran, attempts[a].answer)
              \/ UNCHANGED records /\ Moves(a, "done", attempts[a].ran, Conflict)
              \/ /\ records[attempts[a].key].status = "absent"
                 /\ Writes(attempts[a].key, "PROCESSING", attempts[a].body, NoAnswer)
                 /\ Moves(a, "done", attempts[a].ran, Conflict)
                 /\ faults' > 0
           /\ faults' \in Nat /\ faults' >= faults
           /\ UNCHANGED <<topicVars, engineVars, controlVars, crashes>>
<1>1. attempts[a].pc = "insert" /\ attempts[a].key \in Keys
  BY DEF InsertRecord, RequestOK
<1>2. faults' \in Nat /\ faults' >= faults
  BY DEF InsertRecord, Fine, Fault, TypeOK
<1>3. \/ /\ records[attempts[a].key].status = "absent"
         /\ records' = [records EXCEPT ![attempts[a].key] =
                [status |-> "PROCESSING", hash |-> attempts[a].body, answer |-> NoAnswer]]
         /\ \/ attempts' = [attempts EXCEPT ![a].pc = "handle"]
            \/ Finish(a, Conflict) /\ Fault
      \/ UNCHANGED records /\ Finish(a, Conflict)
  BY DEF InsertRecord, Claimable
<1> DEFINE r == [status |-> "PROCESSING", hash |-> attempts[a].body, answer |-> NoAnswer]
<1>4. attempts[a].body \in Bodies \cup {None}
  BY DEF TypeOK, Requests
<1>5. r \in Records /\ r.status = "PROCESSING" /\ r.hash = attempts[a].body
      /\ r.answer = NoAnswer
  BY <1>4, AnswerTypes DEF Records
<1> HIDE DEF r
<1>6. \/ /\ records[attempts[a].key].status = "absent"
         /\ records' = [records EXCEPT ![attempts[a].key] = r]
         /\ \/ attempts' = [attempts EXCEPT ![a].pc = "handle"]
            \/ Finish(a, Conflict) /\ Fault
      \/ UNCHANGED records /\ Finish(a, Conflict)
  BY <1>3 DEF r
<1>7. Fault => faults' > 0
  BY DEF Fault, TypeOK
<1> QED
  BY <1>1, <1>2, <1>5, <1>6, <1>7, FinishMoves, PcMoves, WritesRecord, AnswerTypes
  DEF InsertRecord

LEMMA CompleteEffect ==
    ASSUME TypeOK, NEW a \in Attempts, RequestOK(a), CompleteRecord(a)
    PROVE  /\ attempts[a].pc = "complete" /\ attempts[a].key \in Keys
           /\ \/ Writes(attempts[a].key, "COMPLETED", records[attempts[a].key].hash,
                        attempts[a].answer)
              \/ UNCHANGED records /\ faults' > 0
           /\ Moves(a, "done", attempts[a].ran, attempts[a].answer)
           /\ faults' \in Nat /\ faults' >= faults
           /\ UNCHANGED <<topicVars, engineVars, controlVars, crashes>>
<1>1. attempts[a].pc = "complete" /\ attempts[a].key \in Keys
  BY DEF CompleteRecord, RequestOK
<1>2. faults' \in Nat /\ faults' >= faults
  BY DEF CompleteRecord, Fine, Fault, TypeOK
<1>3. Fault => faults' > 0
  BY DEF Fault, TypeOK
<1> DEFINE k == attempts[a].key
           r == [records[k] EXCEPT !.status = "COMPLETED", !.answer = attempts[a].answer]
<1>4. records[k] \in Records /\ attempts[a].answer \in Answers
  BY <1>1 DEF TypeOK, Requests
<1>5. r \in Records /\ r.status = "COMPLETED" /\ r.hash = records[k].hash
      /\ r.answer = attempts[a].answer
  BY <1>4 DEF Records
<1>6. [records EXCEPT ![k].status = "COMPLETED", ![k].answer = attempts[a].answer]
        = [records EXCEPT ![k] = r]
  BY <1>1 DEF TypeOK
<1> HIDE DEF r
<1>7. records' = [records EXCEPT ![k] = r] \/ (Fault /\ UNCHANGED records)
  BY <1>6 DEF CompleteRecord
<1>8. \/ Writes(k, "COMPLETED", records[k].hash, attempts[a].answer)
      \/ UNCHANGED records /\ faults' > 0
  BY <1>1, <1>3, <1>5, <1>7, WritesRecord
<1> QED
  BY <1>1, <1>2, <1>8, PcMoves DEF CompleteRecord

LEMMA PublishEffect ==
    ASSUME TypeOK, NEW e, NEW ok \in BOOLEAN, Publish(e, ok)
    PROVE  /\ topic' \in [Events -> Nat]
           /\ \A f \in Events : topic'[f] >= topic[f]
           /\ ok /\ e \in Events => topic'[e] > 0 \/ e \in unstored'
           /\ unstored \subseteq unstored'
           /\ e \in Events => unstored' \subseteq Events
           /\ faults' \in Nat /\ faults' >= faults
<1>1. faults' \in Nat /\ faults' >= faults
  BY DEF TypeOK, Publish, Fine, Fault
<1>2. topic \in [Events -> Nat]
  BY DEF TypeOK
<1>3. \/ topic' = [topic EXCEPT ![e] = topic[e] + 1] /\ unstored' = unstored
      \/ topic' = [topic EXCEPT ![e] = topic[e] + 2] /\ unstored' = unstored
      \/ topic' = topic /\ unstored' = unstored /\ ~ok
      \/ topic' = topic /\ unstored' = unstored \cup {e}
  BY DEF Publish
<1>4. unstored \subseteq Events
  BY DEF TypeOK
<1> QED
  BY <1>1, <1>2, <1>3, <1>4

(* A handler answers, or goes on to the second half of a replacement; the   *)
(* order it acknowledges on /oms/orders is in the topic, or unstored.       *)
Handles(a) ==
    \/ Refuse(a) \/ CreateOrder(a) \/ TradingOrder(a) \/ CancelOrder(a)
    \/ ReplaceCancel(a) \/ ReplaceCreate(a)

Handled(a) ==
    /\ \/ /\ attempts[a].pc = "handle" /\ attempts[a].route = "replace"
          /\ Moves(a, "replacing", TRUE, attempts[a].answer)
       \/ \E ans \in Answers :
             /\ ans.order \in {a, None}
             /\ Moves(a, IF attempts[a].key = NoKey THEN "done" ELSE "complete", TRUE, ans)
             /\ attempts[a].route = "create" /\ ans = Answer("accepted", a)
                  => topic'[<<"created", a>>] > 0 \/ <<"created", a>> \in unstored'
    /\ topic' \in [Events -> Nat] /\ \A f \in Events : topic'[f] >= topic[f]
    /\ unstored \subseteq unstored' /\ unstored' \subseteq Events
    /\ faults' \in Nat /\ faults' >= faults

LEMMA HandlerEffect ==
    ASSUME TypeOK, NEW a \in Attempts, RequestOK(a), Handles(a)
    PROVE  /\ attempts[a].pc \in {"handle", "replacing"}
           /\ Handled(a)
           /\ UNCHANGED <<records, engineVars, controlVars, crashes>>
<1> USE AnswerTypes
<1>e. <<"created", a>> \in Events
  BY DEF Events
<1>g. attempts[a].route \in {"cancel", "replace"} /\ attempts[a].pc = "handle"
          => <<"cancel", attempts[a].target>> \in Events
  BY DEF RequestOK, Events
<1>o. /\ Answer("accepted", a).order = a /\ Answer("refused", None).order = None
      /\ Answer("failed", None).order = None /\ Answer("accepted", None).order = None
      /\ Answer("refused", None) # Answer("accepted", a)
      /\ Answer("failed", None) # Answer("accepted", a)
  BY DEF Answer
<1>1. CASE Refuse(a)
  <2>1. Moves(a, IF attempts[a].key = NoKey THEN "done" ELSE "complete", TRUE,
              Answer("refused", None))
    BY <1>1, RespondMoves DEF Refuse
  <2>2. /\ topic' \in [Events -> Nat] /\ \A f \in Events : topic'[f] >= topic[f]
        /\ unstored \subseteq unstored' /\ unstored' \subseteq Events
        /\ faults' \in Nat /\ faults' >= faults
    BY <1>1 DEF Refuse, TypeOK, topicVars
  <2>3. Handled(a)
    BY <1>o, <2>1, <2>2 DEF Handled
  <2> QED
    BY <1>1, <2>3 DEF Refuse
<1>2. CASE CreateOrder(a)
  <2> PICK ok \in BOOLEAN : /\ Publish(<<"created", a>>, ok)
                            /\ Respond(a, IF ok THEN Answer("accepted", a)
                                                ELSE Answer("failed", None))
    BY <1>2 DEF CreateOrder
  <2> DEFINE ans == IF ok THEN Answer("accepted", a) ELSE Answer("failed", None)
  <2>1. ans \in Answers /\ ans.order \in {a, None} /\ (ans = Answer("accepted", a) => ok)
    BY <1>o
  <2> HIDE DEF ans
  <2>2. Respond(a, ans)
    BY DEF ans
  <2>3. Moves(a, IF attempts[a].key = NoKey THEN "done" ELSE "complete", TRUE, ans)
    BY <2>1, <2>2, RespondMoves
  <2>4. /\ topic' \in [Events -> Nat] /\ \A f \in Events : topic'[f] >= topic[f]
        /\ unstored \subseteq unstored' /\ unstored' \subseteq Events
        /\ faults' \in Nat /\ faults' >= faults
        /\ ok => topic'[<<"created", a>>] > 0 \/ <<"created", a>> \in unstored'
    BY <1>e, PublishEffect
  <2>5. Handled(a)
    BY <2>1, <2>3, <2>4 DEF Handled
  <2> QED
    BY <1>2, <2>5 DEF CreateOrder
<1>3. CASE TradingOrder(a)
  <2>1. Moves(a, IF attempts[a].key = NoKey THEN "done" ELSE "complete", TRUE,
              Answer("accepted", a))
    BY <1>3, RespondMoves DEF TradingOrder
  <2>2. /\ topic' \in [Events -> Nat] /\ \A f \in Events : topic'[f] >= topic[f]
        /\ unstored \subseteq unstored' /\ unstored' \subseteq Events
        /\ faults' \in Nat /\ faults' >= faults
    BY <1>3, <1>e, PublishEffect DEF TradingOrder
  <2> QED
    BY <1>3, <1>o, <2>1, <2>2 DEF TradingOrder, Handled
<1>4. CASE CancelOrder(a)
  <2> PICK ok \in BOOLEAN :
          /\ Publish(<<"cancel", attempts[a].target>>, ok)
          /\ Respond(a, Answer(IF ok THEN "accepted" ELSE "failed", None))
    BY <1>4 DEF CancelOrder
  <2> DEFINE ans == Answer(IF ok THEN "accepted" ELSE "failed", None)
  <2>1. ans \in Answers /\ ans.order = None
    BY <1>o
  <2> HIDE DEF ans
  <2>2. Respond(a, ans)
    BY DEF ans
  <2>3. Moves(a, IF attempts[a].key = NoKey THEN "done" ELSE "complete", TRUE, ans)
    BY <2>1, <2>2, RespondMoves
  <2>4. /\ topic' \in [Events -> Nat] /\ \A f \in Events : topic'[f] >= topic[f]
        /\ unstored \subseteq unstored' /\ unstored' \subseteq Events
        /\ faults' \in Nat /\ faults' >= faults
    BY <1>4, <1>g, PublishEffect DEF CancelOrder
  <2>5. attempts[a].route # "create"
    BY <1>4 DEF CancelOrder
  <2> QED
    BY <1>4, <2>1, <2>3, <2>4, <2>5 DEF CancelOrder, Handled
<1>5. CASE ReplaceCancel(a)
  <2>1. Moves(a, "replacing", TRUE, attempts[a].answer)
    BY <1>5, ReplacingMoves DEF ReplaceCancel
  <2>2. /\ topic' \in [Events -> Nat] /\ \A f \in Events : topic'[f] >= topic[f]
        /\ unstored \subseteq unstored' /\ unstored' \subseteq Events
        /\ faults' \in Nat /\ faults' >= faults
    BY <1>5, <1>g, PublishEffect DEF ReplaceCancel
  <2> QED
    BY <1>5, <2>1, <2>2 DEF ReplaceCancel, Handled
<1>6. CASE ReplaceCreate(a)
  <2>1. Moves(a, IF attempts[a].key = NoKey THEN "done" ELSE "complete", TRUE,
              Answer("accepted", a))
    BY <1>6, RespondMoves DEF ReplaceCreate
  <2>2. /\ topic' \in [Events -> Nat] /\ \A f \in Events : topic'[f] >= topic[f]
        /\ unstored \subseteq unstored' /\ unstored' \subseteq Events
        /\ faults' \in Nat /\ faults' >= faults
    BY <1>6, <1>e, PublishEffect DEF ReplaceCreate
  <2>3. attempts[a].route # "create"
    BY <1>6 DEF ReplaceCreate, RequestOK
  <2> QED
    BY <1>6, <1>o, <2>1, <2>2, <2>3 DEF ReplaceCreate, Handled
<1> QED
  BY <1>1, <1>2, <1>3, <1>4, <1>5, <1>6 DEF Handles

(* The crash of a gateway replica cuts off the requests it serves.          *)
CutOff(a) ==
    /\ attempts'[a].pc = "done" /\ attempts'[a].answer = NoAnswer
    /\ attempts'[a].ran = attempts[a].ran /\ attempts'[a].key = attempts[a].key
    /\ attempts'[a].body = attempts[a].body /\ attempts'[a].route = attempts[a].route
    /\ attempts'[a].target = attempts[a].target

LEMMA CrashEffect ==
    ASSUME TypeOK, CrashGateway
    PROVE  /\ attempts' \in [Attempts -> Requests]
           /\ \A a \in Attempts : attempts'[a] = attempts[a] \/ CutOff(a)
           /\ admin' \in [Processes -> Calls]
           /\ crashes' \in Nat /\ crashes' > 0
<1>0. PICK dead \in SUBSET {a \in Attempts : InGateway(a)} :
        attempts' = [a \in Attempts |->
             IF a \in dead THEN [attempts[a] EXCEPT !.pc = "done", !.answer = NoAnswer]
                           ELSE attempts[a]]
  BY DEF CrashGateway
<1>1. ASSUME NEW a \in Attempts
      PROVE  attempts'[a] \in Requests /\ (attempts'[a] = attempts[a] \/ CutOff(a))
  <2>1. attempts[a] \in Requests
    BY DEF TypeOK
  <2>2. attempts'[a] = IF a \in dead
                       THEN [attempts[a] EXCEPT !.pc = "done", !.answer = NoAnswer]
                       ELSE attempts[a]
    BY <1>0
  <2>3. CASE a \in dead
    <3>1. attempts'[a] = [attempts[a] EXCEPT !.pc = "done", !.answer = NoAnswer]
      BY <2>2, <2>3
    <3> QED
      BY <2>1, <3>1, AnswerTypes DEF CutOff, Requests
  <2>4. CASE a \notin dead
    BY <2>1, <2>2, <2>4
  <2> QED
    BY <2>3, <2>4
<1>2. attempts' \in [Attempts -> Requests]
  BY <1>0, <1>1
<1>3. admin' \in [Processes -> Calls]
  BY AnswerTypes DEF CrashGateway, TypeOK
<1>4. crashes' = crashes + 1
  BY DEF CrashGateway
<1>5. crashes \in Nat
  BY DEF TypeOK
<1>6. crashes' \in Nat /\ crashes' > 0
  BY <1>4, <1>5
<1> QED
  BY <1>1, <1>2, <1>3, <1>6

-------------------------------------------------------------------------------
(* Type correctness *)

LEMMA LoadType ==
    ASSUME TypeOK, NEW mem \in [Controls -> BOOLEAN]
    PROVE  LoadRiskControls(mem) \in [Controls -> BOOLEAN]
BY DEF TypeOK, LoadRiskControls

LEMMA RestartType ==
    ASSUME TypeOK, NEW lost \in SUBSET (Attempts \cup {None}), Restart(lost)
    PROVE  /\ dropped' \subseteq Attempts /\ worker' \in Workers
           /\ held' \in [Controls -> BOOLEAN] /\ admin' \in [Processes -> Calls]
<1>1. held' \in [Controls -> BOOLEAN]
  BY LoadType DEF Restart
<1> QED
  BY <1>1, AnswerTypes DEF Restart, TypeOK

LEMMA RestartEngineType ==
    ASSUME TypeOK, RestartEngine
    PROVE  /\ dropped' \subseteq Attempts /\ worker' \in Workers
           /\ held' \in [Controls -> BOOLEAN] /\ admin' \in [Processes -> Calls]
<1>1. {worker.order} \in SUBSET (Attempts \cup {None})
  BY DEF TypeOK, Workers
<1> QED
  BY <1>1, RestartType DEF RestartEngine

LEMMA GatewayType ==
    ASSUME TypeOK, NEW a \in Attempts, RequestOK(a), Send(a) \/ Serve(a)
    PROVE  TypeOK'
<1> USE AnswerTypes
<1>1. CASE Send(a)
  <2>1. attempts' \in [Attempts -> Requests]
    BY <1>1 DEF Send, TypeOK, Requests, Routes
  <2> QED
    BY <1>1, <2>1 DEF Send, TypeOK, topicVars, engineVars, controlVars
<1>2. CASE LookupRecord(a)
  BY <1>2, LookupEffect DEF Moves, TypeOK, topicVars, engineVars, controlVars
<1>3. CASE InsertRecord(a)
  BY <1>3, InsertEffect DEF Moves, Writes, TypeOK, topicVars, engineVars, controlVars
<1>4. CASE CompleteRecord(a)
  BY <1>4, CompleteEffect DEF Moves, Writes, TypeOK, topicVars, engineVars, controlVars
<1>5. CASE Handles(a)
  <2>1. attempts' \in [Attempts -> Requests]
    BY <1>5, HandlerEffect DEF Handled, Moves
  <2>2. /\ topic' \in [Events -> Nat] /\ unstored' \subseteq Events /\ faults' \in Nat
        /\ UNCHANGED <<records, engineVars, controlVars, crashes>>
    BY <1>5, HandlerEffect DEF Handled
  <2> QED
    BY <2>1, <2>2 DEF TypeOK, topicVars, engineVars, controlVars
<1> QED
  BY <1>1, <1>2, <1>3, <1>4, <1>5 DEF Serve, Handles

LEMMA ConsumerType ==
    ASSUME TypeOK, ConsumerOK, Consume
    PROVE  TypeOK'
<1>o. worker.pc # "read" => worker.order \in Attempts
  BY DEF TypeOK, Workers, ConsumerOK
<1>1. CASE ReadEvent
  <2> PICK e \in Events :
          /\ topic[e] > 0
          /\ topic' = [topic EXCEPT ![e] = @ - 1]
          /\ worker' = IF e[1] = "created"
                       THEN [pc |-> "submit", order |-> e[2]] ELSE Idle
    BY <1>1 DEF ReadEvent
  <2>1. topic' \in [Events -> Nat]
    BY DEF TypeOK
  <2>2. worker' \in Workers
    BY AnswerTypes DEF Workers, Events
  <2> QED
    BY <1>1, <2>1, <2>2 DEF ReadEvent, TypeOK, gatewayVars, controlVars
<1>2. CASE SubmitOrder
  <2>1. faults' \in Nat
    BY <1>2 DEF SubmitOrder, Fine, Fault, TypeOK
  <2>2. worker \in Workers => [worker EXCEPT !.pc = "validate"] \in Workers
    BY DEF Workers
  <2>3. /\ orders' \in [Attempts -> {"absent", "CREATED", "REJECTED", "ACCEPTED", "QUEUED"}]
        /\ dropped' \subseteq Attempts /\ worker' \in Workers
        /\ held' \in [Controls -> BOOLEAN] /\ admin' \in [Processes -> Calls]
    <3>1. CASE RestartEngine /\ UNCHANGED orders
      BY <3>1, RestartEngineType DEF TypeOK
    <3>2. CASE /\ orders' = [orders EXCEPT ![worker.order] = "CREATED"]
               /\ worker' = [worker EXCEPT !.pc = "validate"]
               /\ UNCHANGED <<dropped, held, admin>>
      BY <3>2, <2>2 DEF TypeOK
    <3> QED
      BY <1>2, <3>1, <3>2 DEF SubmitOrder
  <2> QED
    BY <1>2, <2>1, <2>3 DEF SubmitOrder, TypeOK, gatewayVars, topicVars
<1>3. CASE ValidateOrder
  <2>1. faults' \in Nat
    BY <1>3 DEF ValidateOrder, Fine, Fault, TypeOK
  <2>2. worker \in Workers => [worker EXCEPT !.pc = "enter"] \in Workers
    BY DEF Workers
  <2>3. worker' \in Workers
    BY <1>3, <2>2, AnswerTypes DEF ValidateOrder, TypeOK
  <2>4. ASSUME NEW blind PROVE Reread(blind) \in [Controls -> BOOLEAN]
    BY LoadType DEF Reread, TypeOK
  <2>5. held' \in [Controls -> BOOLEAN]
    BY <1>3, <2>4 DEF ValidateOrder, TypeOK
  <2>6. dropped' \subseteq Attempts
    BY <1>3, <1>o DEF ValidateOrder, TypeOK
  <2>7. \/ UNCHANGED orders
        \/ orders' = [orders EXCEPT ![worker.order] = "REJECTED"]
        \/ orders' = [orders EXCEPT ![worker.order] = "ACCEPTED"]
    BY <1>3 DEF ValidateOrder
  <2>8. orders' \in [Attempts -> {"absent", "CREATED", "REJECTED", "ACCEPTED", "QUEUED"}]
    BY <2>7 DEF TypeOK
  <2> QED
    BY <1>3, <2>1, <2>3, <2>5, <2>6, <2>8 DEF ValidateOrder, TypeOK, gatewayVars, topicVars
<1>4. CASE EnterBook
  <2>1. /\ entered' \in [Attempts -> Nat]
        /\ orders' \in [Attempts -> {"absent", "CREATED", "REJECTED", "ACCEPTED", "QUEUED"}]
        /\ worker' \in Workers
    <3>1. /\ entered' = [entered EXCEPT ![worker.order] = entered[worker.order] + 1]
          /\ orders' = [orders EXCEPT ![worker.order] = "QUEUED"] /\ worker' = Idle
          /\ worker.order \in Attempts
      BY <1>4, <1>o DEF EnterBook
    <3> QED
      BY <3>1, AnswerTypes DEF TypeOK
  <2> QED
    BY <1>4, <2>1 DEF EnterBook, TypeOK, gatewayVars, topicVars, controlVars
<1>5. CASE CommitFails
  <2> PICK e \in Events :
          /\ topic[e] > 0
          /\ \/ UNCHANGED topic /\ Restart({})
             \/ /\ topic' = [topic EXCEPT ![e] = @ - 1]
                /\ Restart(IF e[1] = "created" THEN {e[2]} ELSE {})
    BY <1>5 DEF CommitFails
  <2>1. topic' \in [Events -> Nat] /\ faults' \in Nat
    BY <1>5 DEF CommitFails, Fault, TypeOK
  <2>2. /\ (IF e[1] = "created" THEN {e[2]} ELSE {}) \in SUBSET (Attempts \cup {None})
        /\ {} \in SUBSET (Attempts \cup {None})
    BY DEF Events
  <2>3. /\ dropped' \subseteq Attempts /\ worker' \in Workers
        /\ held' \in [Controls -> BOOLEAN] /\ admin' \in [Processes -> Calls]
    BY <2>2, RestartType
  <2> QED
    BY <1>5, <2>1, <2>3 DEF CommitFails, TypeOK, gatewayVars
<1> QED
  BY <1>1, <1>2, <1>3, <1>4, <1>5 DEF Consume

LEMMA OperatorType ==
    ASSUME TypeOK, StandingIsStored, NEW p \in Processes, SetControl(p) \/ PersistControl(p)
    PROVE  TypeOK'
<1>1. CASE SetControl(p)
  <2> PICK c \in Controls, v \in BOOLEAN :
          /\ admin' = [admin EXCEPT ![p] =
                         [pc |-> "persist", control |-> c, value |-> v]]
          /\ held' = IF p = "engine" THEN [held EXCEPT ![c] = v] ELSE held
          /\ standing' = IF v THEN standing ELSE standing \ {c}
    BY <1>1 DEF SetControl
  <2>1. admin' \in [Processes -> Calls]
    BY DEF TypeOK, Calls
  <2>2. held' \in [Controls -> BOOLEAN] /\ standing' \subseteq Controls
    BY DEF TypeOK
  <2> QED
    BY <1>1, <2>1, <2>2 DEF SetControl, TypeOK, gatewayVars, topicVars, engineVars
<1>2. CASE PersistControl(p)
  <2>1. admin[p].control \in Controls
    BY <1>2 DEF PersistControl, StandingIsStored
  <2>2. faults' \in Nat
    BY <1>2 DEF PersistControl, Fine, Fault, TypeOK
  <2>3. rows' \in [Controls -> {"none", "true", "false"}] /\ standing' \subseteq Controls
    BY <1>2, <2>1 DEF PersistControl, TypeOK
  <2> QED
    BY <1>2, <2>2, <2>3, AnswerTypes DEF PersistControl, TypeOK, gatewayVars, topicVars, engineVars
<1> QED
  BY <1>1, <1>2

LEMMA CrashType ==
    ASSUME TypeOK, CrashGateway \/ CrashEngine
    PROVE  TypeOK'
<1>1. CASE CrashGateway
  <2>1. UNCHANGED <<records, topicVars, engineVars, rows, held, standing, calls, faults>>
    BY <1>1 DEF CrashGateway
  <2> QED
    BY <1>1, <2>1, CrashEffect DEF TypeOK, topicVars, engineVars
<1>2. CASE CrashEngine
  BY <1>2, RestartEngineType DEF CrashEngine, TypeOK, topicVars, gatewayVars
<1> QED
  BY <1>1, <1>2

-------------------------------------------------------------------------------
(* Requests and records *)

LEMMA SendRequests ==
    ASSUME TypeOK, RequestsInv, NEW a \in Attempts, Send(a)
    PROVE  RequestsInv'
<1> USE GatewayAssumption
<1>1. /\ \A b \in Attempts \ {a} : attempts'[b] = attempts[b]
      /\ attempts'[a].pc \in {"handle", "lookup"}
      /\ attempts'[a].key \in Keys \cup {NoKey}
      /\ attempts'[a].pc = "handle" <=> attempts'[a].key = NoKey
      /\ attempts'[a].ran = FALSE /\ attempts'[a].answer = NoAnswer
      /\ attempts'[a].route \in {"cancel", "replace"} => attempts'[a].target \in Attempts
      /\ attempts[a].pc = "unsent" /\ ~attempts[a].ran
      /\ records' = records
  BY DEF Send, TypeOK, RequestsInv, RequestOK
<1>2. ~Owner(a)' \/ attempts'[a].key \notin Keys
  BY <1>1 DEF Owner, Serving
<1>3. ASSUME NEW b \in Attempts PROVE RequestOK(b)'
  BY <1>1 DEF RequestsInv, RequestOK, Serving
<1>4. OneOwner'
  BY <1>1, <1>2 DEF RequestsInv, OneOwner, Owner, Serving
<1>5. OwnerRecorded'
  BY <1>1, <1>2 DEF RequestsInv, OwnerRecorded, Owner, Serving
<1>6. AnswersAgree'
  BY <1>1 DEF RequestsInv, AnswersAgree, Answered
<1>7. RecordedOrders'
  BY <1>1 DEF RequestsInv, RecordedOrders
<1> QED
  BY <1>3, <1>4, <1>5, <1>6, <1>7 DEF RequestsInv

LEMMA LookupRequests ==
    ASSUME TypeOK, RequestsInv, NEW a \in Attempts, LookupRecord(a)
    PROVE  RequestsInv'
<1>0. RequestOK(a) /\ records[attempts[a].key] \in Records
  BY LookupEffect DEF RequestsInv, TypeOK
<1>1. /\ \A b \in Attempts \ {a} : attempts'[b] = attempts[b]
      /\ attempts[a].pc = "lookup" /\ ~attempts[a].ran /\ attempts[a].answer = NoAnswer
      /\ attempts'[a].key = attempts[a].key /\ attempts'[a].body = attempts[a].body
      /\ attempts'[a].route = attempts[a].route /\ attempts'[a].target = attempts[a].target
      /\ ~attempts'[a].ran /\ attempts[a].key \in Keys
      /\ records' = records
  BY <1>0, LookupEffect DEF Moves, RequestOK
<1>2. \/ /\ records[attempts[a].key].status # "absent"
         /\ attempts'[a].pc = "done"
         /\ attempts'[a].answer = Replay(records[attempts[a].key], attempts[a].body)
      \/ attempts'[a].pc = "insert" /\ attempts'[a].answer = NoAnswer
  BY <1>0, <1>1, LookupEffect DEF Moves
<1>3. ASSUME NEW b \in Attempts PROVE RequestOK(b)'
  BY <1>1, <1>2 DEF RequestsInv, RequestOK, Serving
<1>4. ~Owner(a)'
  BY <1>1, <1>2 DEF Owner, Serving
<1>5. OneOwner'
  BY <1>1, <1>4 DEF RequestsInv, OneOwner, Owner, Serving
<1>6. OwnerRecorded'
  BY <1>1, <1>4 DEF RequestsInv, OwnerRecorded, Owner, Serving
<1>7. AnswersAgree'
  <2> SUFFICES ASSUME NEW b \in Attempts, (attempts[b].key \in Keys /\ Answered(b))'
               PROVE  (LET rec == records[attempts[b].key] IN
                        /\ rec.status # "absent"
                        /\ rec.hash = attempts[b].body
                        /\ rec.status = "PROCESSING" => attempts[b].ran
                        /\ rec.status = "COMPLETED" => rec.answer = attempts[b].answer)'
    BY DEF AnswersAgree
  <2>1. CASE b # a
    BY <1>1, <2>1 DEF RequestsInv, AnswersAgree, Answered
  <2>2. CASE b = a
    BY <1>0, <1>1, <1>2, <2>2, ReplayType DEF Answered
  <2> QED
    BY <2>1, <2>2
<1>8. RecordedOrders'
  BY <1>1 DEF RequestsInv, RecordedOrders
<1> QED
  BY <1>3, <1>5, <1>6, <1>7, <1>8 DEF RequestsInv

LEMMA InsertRequests ==
    ASSUME TypeOK, RequestsInv, NEW a \in Attempts, InsertRecord(a)
    PROVE  RequestsInv'
<1> DEFINE k == attempts[a].key
<1>0. RequestOK(a)
  BY DEF RequestsInv
<1>1. /\ \A b \in Attempts \ {a} : attempts'[b] = attempts[b]
      /\ attempts[a].pc = "insert" /\ ~attempts[a].ran /\ attempts[a].answer = NoAnswer
      /\ attempts'[a].key = k /\ attempts'[a].body = attempts[a].body
      /\ attempts'[a].route = attempts[a].route /\ attempts'[a].target = attempts[a].target
      /\ ~attempts'[a].ran /\ k \in Keys
  BY <1>0, InsertEffect DEF Moves, RequestOK
<1>2. CASE records' = records /\ attempts'[a].pc = "done" /\ attempts'[a].answer = Conflict
  <2>1. \A b \in Attempts : RequestOK(b)'
    BY <1>1, <1>2 DEF RequestsInv, RequestOK, Serving
  <2>2. OneOwner' /\ OwnerRecorded'
    BY <1>1, <1>2 DEF RequestsInv, OneOwner, OwnerRecorded, Owner, Serving
  <2>3. AnswersAgree' /\ RecordedOrders'
    BY <1>1, <1>2 DEF RequestsInv, AnswersAgree, RecordedOrders, Answered
  <2> QED
    BY <2>1, <2>2, <2>3 DEF RequestsInv
<1>3. CASE /\ records[k].status = "absent"
           /\ Writes(k, "PROCESSING", attempts[a].body, NoAnswer)
           /\ \/ attempts'[a].pc = "handle" /\ attempts'[a].answer = NoAnswer
              \/ attempts'[a].pc = "done" /\ attempts'[a].answer = Conflict
  <2>1. \A b \in Attempts : RequestOK(b)'
    BY <1>1, <1>3 DEF RequestsInv, RequestOK, Serving
  <2>2. \A b \in Attempts : attempts[b].key = k => ~Owner(b) /\ ~Answered(b)
    BY <1>1, <1>3 DEF RequestsInv, OwnerRecorded, AnswersAgree
  <2>3. OneOwner'
    BY <1>1, <1>3, <2>2 DEF RequestsInv, OneOwner, Owner, Serving
  <2>4. OwnerRecorded'
    <3> SUFFICES ASSUME NEW b \in Attempts, (attempts[b].key \in Keys /\ Owner(b))'
                 PROVE  (/\ records[attempts[b].key].status # "absent"
                         /\ records[attempts[b].key].hash = attempts[b].body
                         /\ Serving(b) => records[attempts[b].key].status = "PROCESSING")'
      BY DEF OwnerRecorded
    <3>1. CASE b = a
      BY <1>1, <1>3, <3>1 DEF Writes
    <3>2. CASE b # a
      <4>1. attempts'[b] = attempts[b] /\ Owner(b) /\ attempts[b].key \in Keys \ {k}
        BY <1>1, <2>2, <3>2 DEF Owner, Serving
      <4> QED
        BY <1>3, <4>1 DEF RequestsInv, OwnerRecorded, Writes, Serving
    <3> QED
      BY <3>1, <3>2
  <2>5. AnswersAgree'
    <3> SUFFICES ASSUME NEW b \in Attempts, (attempts[b].key \in Keys /\ Answered(b))'
                 PROVE  (LET rec == records[attempts[b].key] IN
                          /\ rec.status # "absent"
                          /\ rec.hash = attempts[b].body
                          /\ rec.status = "PROCESSING" => attempts[b].ran
                          /\ rec.status = "COMPLETED" => rec.answer = attempts[b].answer)'
      BY DEF AnswersAgree
    <3>1. attempts'[b] = attempts[b] /\ Answered(b) /\ attempts[b].key \in Keys \ {k}
      BY <1>1, <1>3, <2>2 DEF Answered
    <3> QED
      BY <1>3, <3>1 DEF RequestsInv, AnswersAgree, Writes
  <2>6. RecordedOrders'
    <3>1. NoAnswer.order = None
      BY DEF NoAnswer, Answer
    <3> QED
      BY <1>1, <1>3, <3>1, GatewayAssumption DEF RequestsInv, RecordedOrders, Writes
  <2> QED
    BY <2>1, <2>3, <2>4, <2>5, <2>6 DEF RequestsInv
<1> QED
  BY <1>0, <1>1, <1>2, <1>3, InsertEffect DEF Moves

LEMMA CompleteRequests ==
    ASSUME TypeOK, RequestsInv, NEW a \in Attempts, CompleteRecord(a)
    PROVE  RequestsInv'
<1> DEFINE k == attempts[a].key
<1>0. RequestOK(a)
  BY DEF RequestsInv
<1>1. /\ \A b \in Attempts \ {a} : attempts'[b] = attempts[b]
      /\ attempts[a].pc = "complete" /\ attempts[a].ran
      /\ attempts[a].answer.order \in {a, None}
      /\ attempts'[a].key = k /\ attempts'[a].body = attempts[a].body
      /\ attempts'[a].pc = "done" /\ attempts'[a].answer = attempts[a].answer
      /\ attempts'[a].route = attempts[a].route /\ attempts'[a].target = attempts[a].target
      /\ attempts'[a].ran /\ k \in Keys
  BY <1>0, CompleteEffect DEF Moves, RequestOK
<1>2. Owner(a) /\ Serving(a)
  BY <1>1 DEF Owner, Serving
<1>3. records[k].status = "PROCESSING" /\ records[k].hash = attempts[a].body
  BY <1>1, <1>2 DEF RequestsInv, OwnerRecorded
<1>4. \A b \in Attempts : attempts[b].key = k /\ Owner(b) => b = a
  BY <1>1, <1>2 DEF RequestsInv, OneOwner
<1>5. \A b \in Attempts : RequestOK(b)'
  BY <1>1 DEF RequestsInv, RequestOK, Serving
<1>6. OneOwner'
  BY <1>1, <1>2 DEF RequestsInv, OneOwner, Owner, Serving
<1>7. CASE records' = records
  <2>1. OwnerRecorded'
    BY <1>1, <1>2, <1>7 DEF RequestsInv, OwnerRecorded, Owner, Serving
  <2>2. AnswersAgree' /\ RecordedOrders'
    BY <1>1, <1>3, <1>7 DEF RequestsInv, AnswersAgree, RecordedOrders, Answered
  <2> QED
    BY <1>5, <1>6, <2>1, <2>2 DEF RequestsInv
<1>8. CASE Writes(k, "COMPLETED", records[k].hash, attempts[a].answer)
  <2>1. OwnerRecorded'
    <3> SUFFICES ASSUME NEW b \in Attempts, (attempts[b].key \in Keys /\ Owner(b))'
                 PROVE  (/\ records[attempts[b].key].status # "absent"
                         /\ records[attempts[b].key].hash = attempts[b].body
                         /\ Serving(b) => records[attempts[b].key].status = "PROCESSING")'
      BY DEF OwnerRecorded
    <3>1. CASE b = a
      BY <1>1, <1>3, <1>8, <3>1 DEF Writes, Serving
    <3>2. CASE b # a
      <4>1. attempts'[b] = attempts[b] /\ Owner(b) /\ attempts[b].key \in Keys \ {k}
        BY <1>1, <1>4, <3>2 DEF Owner, Serving
      <4> QED
        BY <1>8, <4>1 DEF RequestsInv, OwnerRecorded, Writes, Serving
    <3> QED
      BY <3>1, <3>2
  <2>2. AnswersAgree'
    <3> SUFFICES ASSUME NEW b \in Attempts, (attempts[b].key \in Keys /\ Answered(b))'
                 PROVE  (LET rec == records[attempts[b].key] IN
                          /\ rec.status # "absent"
                          /\ rec.hash = attempts[b].body
                          /\ rec.status = "PROCESSING" => attempts[b].ran
                          /\ rec.status = "COMPLETED" => rec.answer = attempts[b].answer)'
      BY DEF AnswersAgree
    <3>1. CASE b = a
      BY <1>1, <1>3, <1>8, <3>1 DEF Writes
    <3>2. CASE b # a
      <4>1. attempts'[b] = attempts[b] /\ Answered(b) /\ attempts[b].key \in Keys
        BY <1>1, <3>2 DEF Answered
      <4>2. attempts[b].key # k
        BY <1>3, <1>4, <3>2, <4>1 DEF RequestsInv, AnswersAgree, Owner
      <4> QED
        BY <1>8, <4>1, <4>2 DEF RequestsInv, AnswersAgree, Writes
    <3> QED
      BY <3>1, <3>2
  <2>3. RecordedOrders'
    BY <1>1, <1>8, GatewayAssumption DEF RequestsInv, RecordedOrders, Writes
  <2> QED
    BY <1>5, <1>6, <2>1, <2>2, <2>3 DEF RequestsInv
<1> QED
  BY <1>0, <1>7, <1>8, CompleteEffect

LEMMA HandlerRequests ==
    ASSUME TypeOK, RequestsInv, NEW a \in Attempts, Handles(a)
    PROVE  RequestsInv'
<1>0. RequestOK(a) /\ attempts[a].key \in Keys \cup {NoKey}
  BY DEF RequestsInv, TypeOK, Requests
<1>1. /\ \A b \in Attempts \ {a} : attempts'[b] = attempts[b]
      /\ attempts[a].pc \in {"handle", "replacing"}
      /\ attempts'[a].key = attempts[a].key /\ attempts'[a].body = attempts[a].body
      /\ attempts'[a].route = attempts[a].route /\ attempts'[a].target = attempts[a].target
      /\ attempts'[a].ran
      /\ records' = records
  BY <1>0, HandlerEffect DEF Handled, Moves
<1>2. \/ /\ attempts[a].route = "replace" /\ attempts[a].pc = "handle"
         /\ attempts'[a].pc = "replacing" /\ attempts'[a].answer = attempts[a].answer
      \/ /\ attempts'[a].pc = IF attempts[a].key = NoKey THEN "done" ELSE "complete"
         /\ attempts'[a].answer.order \in {a, None}
  BY <1>0, HandlerEffect DEF Handled, Moves
<1>3. Serving(a) /\ Owner(a)
  BY <1>1 DEF Owner, Serving
<1>4. attempts[a].key \in Keys => Serving(a)'
  BY <1>1, <1>2, GatewayAssumption DEF Serving
<1>5. ASSUME NEW b \in Attempts PROVE RequestOK(b)'
  BY <1>0, <1>1, <1>2 DEF RequestsInv, RequestOK, Serving
<1>6. OneOwner'
  BY <1>1, <1>3 DEF RequestsInv, OneOwner, Owner, Serving
<1>7. OwnerRecorded'
  BY <1>1, <1>3 DEF RequestsInv, OwnerRecorded, Owner, Serving
<1>8. AnswersAgree'
  BY <1>1, <1>4 DEF RequestsInv, AnswersAgree, Answered, Serving
<1>9. RecordedOrders'
  BY <1>1 DEF RequestsInv, RecordedOrders
<1> QED
  BY <1>5, <1>6, <1>7, <1>8, <1>9 DEF RequestsInv

LEMMA CrashRequests ==
    ASSUME TypeOK, RequestsInv, CrashGateway
    PROVE  RequestsInv'
<1>1. /\ \A a \in Attempts : attempts'[a] = attempts[a] \/ CutOff(a)
      /\ records' = records
  BY CrashEffect DEF CrashGateway
<1>2. \A a \in Attempts : attempts'[a].key = attempts[a].key
          /\ attempts'[a].body = attempts[a].body /\ attempts'[a].ran = attempts[a].ran
  BY <1>1 DEF CutOff
<1>3. \A a \in Attempts : Owner(a)' => Owner(a)
  BY <1>1 DEF Owner, Serving, CutOff
<1>4. \A a \in Attempts : Serving(a)' => Serving(a)
  BY <1>1 DEF Serving, CutOff
<1>5. \A a \in Attempts : Answered(a)' => Answered(a) /\ attempts'[a].answer = attempts[a].answer
  BY <1>1 DEF Answered, CutOff
<1>6. \A a \in Attempts : RequestOK(a)'
  BY <1>1 DEF RequestsInv, RequestOK, Serving, CutOff
<1>7. OneOwner'
  BY <1>2, <1>3 DEF RequestsInv, OneOwner
<1>8. OwnerRecorded'
  BY <1>1, <1>2, <1>3, <1>4 DEF RequestsInv, OwnerRecorded
<1>9. AnswersAgree'
  BY <1>1, <1>2, <1>5 DEF RequestsInv, AnswersAgree
<1>10. RecordedOrders'
  BY <1>1, <1>2 DEF RequestsInv, RecordedOrders
<1> QED
  BY <1>6, <1>7, <1>8, <1>9, <1>10 DEF RequestsInv

-------------------------------------------------------------------------------
(* The rest of the invariant *)

(* A PROCESSING record keeps its owner, *)
Kept(k) ==
    \E b \in Attempts :
        /\ attempts[b].key = k
        /\ Serving(b) \/ (attempts[b].pc = "done" /\ attempts[b].answer = NoAnswer /\ crashes > 0)

LEMMA ProcessingStep ==
    ASSUME IInv, [Next]_vars, TypeOK'
    PROVE  ProcessingHasOwner'
<1> SUFFICES ASSUME NEW k \in Keys, records'[k].status = "PROCESSING", ~(faults' > 0)
             PROVE  Kept(k)'
  BY DEF ProcessingHasOwner, Kept, Serving
<1>t. TypeOK /\ \A a \in Attempts : RequestOK(a)
  BY DEF IInv, ProcessingHasOwner, RequestsInv
<1>k. k # NoKey
  BY GatewayAssumption
<1>0. ASSUME faults' >= faults, faults' \in Nat, records[k].status = "PROCESSING"
      PROVE  Kept(k)
  <2>1. faults \in Nat
    BY <1>t DEF TypeOK
  <2>2. ~(faults > 0)
    BY <1>0, <2>1 DEF Kept, Serving
  <2> QED
    BY <1>0, <2>2 DEF IInv, ProcessingHasOwner, Kept, Serving
<1>1. ASSUME NEW a \in Attempts, Send(a) PROVE Kept(k)'
  <2>1. /\ \A b \in Attempts \ {a} : attempts'[b] = attempts[b]
        /\ attempts[a].pc = "unsent" /\ records' = records
        /\ faults' = faults /\ crashes' = crashes
    BY <1>1, <1>t DEF Send, TypeOK
  <2>2. faults' >= faults /\ faults' \in Nat
    BY <1>t, <2>1 DEF TypeOK
  <2> QED
    BY <1>0, <2>1, <2>2 DEF Kept, Serving
<1>2. ASSUME NEW a \in Attempts, LookupRecord(a) PROVE Kept(k)'
  <2>1. /\ \A b \in Attempts \ {a} : attempts'[b] = attempts[b]
        /\ attempts[a].pc = "lookup" /\ records' = records
        /\ faults' >= faults /\ faults' \in Nat /\ crashes' = crashes
    BY <1>2, <1>t, LookupEffect DEF Moves
  <2> QED
    BY <1>0, <2>1 DEF Kept, Serving
<1>3. ASSUME NEW a \in Attempts, InsertRecord(a) PROVE Kept(k)'
  <2>1. /\ \A b \in Attempts \ {a} : attempts'[b] = attempts[b]
        /\ attempts[a].pc = "insert" /\ attempts'[a].key = attempts[a].key
        /\ faults' >= faults /\ faults' \in Nat /\ crashes' = crashes
        /\ \/ records'[k] = records[k]
           \/ attempts'[a].key = k /\ attempts'[a].pc = "handle"
           \/ faults' > 0
    BY <1>3, <1>t, InsertEffect DEF Moves, Writes
  <2> QED
    BY <1>0, <2>1 DEF Kept, Serving
<1>4. ASSUME NEW a \in Attempts, CompleteRecord(a) PROVE Kept(k)'
  <2>1. /\ \A b \in Attempts \ {a} : attempts'[b] = attempts[b]
        /\ attempts[a].pc = "complete"
        /\ faults' >= faults /\ faults' \in Nat /\ crashes' = crashes
        /\ attempts[a].key \in Keys
        /\ Writes(attempts[a].key, "COMPLETED", records[attempts[a].key].hash,
                  attempts[a].answer)
    BY <1>4, <1>t, CompleteEffect DEF Moves
  <2>2. attempts[a].key # k /\ records'[k] = records[k]
    BY <2>1 DEF Writes
  <2> QED
    BY <1>0, <2>1, <2>2 DEF Kept, Serving
<1>5. ASSUME NEW a \in Attempts, Handles(a) PROVE Kept(k)'
  <2>1. /\ \A b \in Attempts \ {a} : attempts'[b] = attempts[b]
        /\ attempts[a].pc \in {"handle", "replacing"}
        /\ faults' >= faults /\ faults' \in Nat /\ crashes' = crashes
        /\ records' = records /\ attempts'[a].key = attempts[a].key
        /\ attempts[a].key # NoKey => attempts'[a].pc \in {"replacing", "complete"}
    BY <1>5, <1>t, HandlerEffect DEF Handled, Moves
  <2> QED
    BY <1>0, <1>k, <2>1 DEF Kept, Serving
<1>6. ASSUME CrashGateway PROVE Kept(k)'
  <2>1. /\ \A b \in Attempts : attempts'[b] = attempts[b] \/ CutOff(b)
        /\ crashes' > 0 /\ records' = records /\ faults' = faults
    BY <1>6, <1>t, CrashEffect DEF CrashGateway
  <2>2. faults' >= faults /\ faults' \in Nat
    BY <1>t, <2>1 DEF TypeOK
  <2> QED
    BY <1>0, <2>1, <2>2 DEF CutOff, Kept, Serving
<1>7. ASSUME UNCHANGED <<gatewayVars, crashes>>, faults' >= faults, faults' \in Nat PROVE Kept(k)'
  BY <1>0, <1>7 DEF gatewayVars, Kept, Serving
<1>8. ASSUME CrashEngine PROVE Kept(k)'
  <2>1. UNCHANGED <<gatewayVars, faults>> /\ crashes' = crashes + 1
    BY <1>8 DEF CrashEngine
  <2>2. faults' >= faults /\ faults' \in Nat /\ (crashes > 0 => crashes' > 0)
    BY <1>t, <2>1 DEF TypeOK
  <2> QED
    BY <1>0, <2>1, <2>2 DEF gatewayVars, Kept, Serving
<1>9. ASSUME Consume \/ Operate \/ UNCHANGED vars PROVE Kept(k)'
  <2>1. UNCHANGED <<gatewayVars, crashes>>
    BY <1>9 DEF Consume, ReadEvent, CommitFails, SubmitOrder, ValidateOrder, EnterBook, Operate,
                SetControl, PersistControl, vars, gatewayVars
  <2>2. Fine \/ Fault
    BY <1>9 DEF Consume, ReadEvent, CommitFails, SubmitOrder, ValidateOrder, EnterBook, Operate,
                SetControl, PersistControl, vars, Fine
  <2>3. faults' >= faults /\ faults' \in Nat
    BY <1>t, <2>2 DEF Fine, Fault, TypeOK
  <2> QED
    BY <1>7, <2>1, <2>3
<1> QED
  BY <1>1, <1>2, <1>3, <1>4, <1>5, <1>6, <1>8, <1>9 DEF Next, Serve, Handles

(* The consumer's steps and the rows they write, *)
ConsumerInv == ConsumerOK /\ QueuedIsEntered

LEMMA ReadConsumer ==
    ASSUME TypeOK, ConsumerInv, ReadEvent
    PROVE  ConsumerInv'
<1> PICK e \in Events : worker' = IF e[1] = "created"
                                  THEN [pc |-> "submit", order |-> e[2]] ELSE Idle
  BY DEF ReadEvent
<1>1. e[2] \in Attempts
  BY DEF Events
<1>2. \/ worker'.pc = "submit" /\ worker'.order # None
      \/ worker'.pc = "read" /\ worker'.order = None
  BY <1>1, GatewayAssumption DEF Idle
<1>3. UNCHANGED <<orders, entered>>
  BY DEF ReadEvent
<1> QED
  BY <1>2, <1>3 DEF ConsumerInv, ConsumerOK, QueuedIsEntered

LEMMA IdleConsumer ==
    ASSUME TypeOK, ConsumerInv, worker' = Idle,
           \A o \in Attempts : orders'[o] = "QUEUED" <=> orders[o] = "QUEUED",
           UNCHANGED entered
    PROVE  ConsumerInv'
<1>1. worker'.pc = "read" /\ worker'.order = None
  BY DEF Idle
<1> QED
  BY <1>1 DEF ConsumerInv, ConsumerOK, QueuedIsEntered

LEMMA WorkingConsumer ==
    ASSUME TypeOK, ConsumerOK, worker.pc # "read"
    PROVE  /\ worker.order \in Attempts /\ worker.order # None
           /\ \A pc \in {"validate", "enter"} :
                 LET w == [worker EXCEPT !.pc = pc] IN
                 w.pc = pc /\ w.order = worker.order
<1>1. worker \in Workers
  BY DEF TypeOK
<1> QED
  BY <1>1 DEF ConsumerOK, Workers

LEMMA SubmitConsumer ==
    ASSUME TypeOK, ConsumerInv, SubmitOrder
    PROVE  ConsumerInv'
<1> DEFINE o == worker.order
<1>0. worker.pc = "submit" /\ entered' = entered
  BY DEF SubmitOrder
<1>1. CASE Inserts(o) /\ orders' = [orders EXCEPT ![o] = "CREATED"]
           /\ worker' = [worker EXCEPT !.pc = "validate"]
  <2>1. worker'.pc = "validate" /\ worker'.order = o /\ o \in Attempts /\ o # None
    BY <1>0, <1>1, WorkingConsumer DEF ConsumerInv
  <2>2. orders'[o] = "CREATED" /\ \A x \in Attempts \ {o} : orders'[x] = orders[x]
    BY <1>1, <2>1 DEF TypeOK
  <2>3. orders[o] = "absent"
    BY <1>1 DEF Inserts
  <2> QED
    BY <1>0, <2>1, <2>2, <2>3 DEF ConsumerInv, ConsumerOK, QueuedIsEntered
<1>2. CASE RestartEngine /\ UNCHANGED orders
  BY <1>0, <1>2, IdleConsumer DEF RestartEngine, Restart
<1> QED
  BY <1>1, <1>2 DEF SubmitOrder

LEMMA ValidateConsumer ==
    ASSUME TypeOK, ConsumerInv, ValidateOrder
    PROVE  ConsumerInv'
<1> DEFINE o == worker.order
<1>0. /\ worker.pc = "validate" /\ entered' = entered /\ orders[o] = "CREATED"
      /\ o \in Attempts /\ o # None
  BY WorkingConsumer DEF ValidateOrder, ConsumerInv, ConsumerOK
<1>1. CASE worker' = Idle /\ UNCHANGED orders
  BY <1>0, <1>1, IdleConsumer
<1>2. CASE worker' = Idle /\ orders' = [orders EXCEPT ![o] = "REJECTED"]
  <2>1. \A x \in Attempts : orders'[x] = "QUEUED" <=> orders[x] = "QUEUED"
    BY <1>0, <1>2 DEF TypeOK
  <2> QED
    BY <1>0, <1>2, <2>1, IdleConsumer
<1>3. CASE /\ orders' = [orders EXCEPT ![o] = "ACCEPTED"]
           /\ worker' = [worker EXCEPT !.pc = "enter"]
  <2>1. worker'.pc = "enter" /\ worker'.order = o
    BY <1>0, <1>3, WorkingConsumer DEF ConsumerInv
  <2>2. orders'[o] = "ACCEPTED" /\ \A x \in Attempts \ {o} : orders'[x] = orders[x]
    BY <1>0, <1>3 DEF TypeOK
  <2> QED
    BY <1>0, <2>1, <2>2 DEF ConsumerInv, ConsumerOK, QueuedIsEntered
<1> QED
  BY <1>1, <1>2, <1>3 DEF ValidateOrder

LEMMA EnterConsumer ==
    ASSUME TypeOK, ConsumerInv, EnterBook
    PROVE  ConsumerInv'
<1> DEFINE o == worker.order
<1>0. /\ worker.pc = "enter" /\ orders[o] = "ACCEPTED" /\ o \in Attempts
      /\ worker'.pc = "read" /\ worker'.order = None
  BY WorkingConsumer DEF EnterBook, ConsumerInv, ConsumerOK, Idle
<1>1. /\ orders'[o] = "QUEUED" /\ \A x \in Attempts \ {o} : orders'[x] = orders[x]
      /\ entered'[o] = entered[o] + 1 /\ \A x \in Attempts \ {o} : entered'[x] = entered[x]
  BY <1>0 DEF EnterBook, TypeOK
<1>2. entered[o] = 0
  BY <1>0 DEF ConsumerInv, QueuedIsEntered
<1> QED
  BY <1>0, <1>1, <1>2 DEF ConsumerInv, ConsumerOK, QueuedIsEntered

LEMMA ConsumerStep ==
    ASSUME IInv, [Next]_vars
    PROVE  ConsumerInv'
<1>t. TypeOK /\ ConsumerInv
  BY DEF IInv, ProcessingHasOwner, ConsumerInv
<1>1. CASE Consume
  <2>1. CASE CommitFails
    BY <1>t, <2>1, IdleConsumer DEF CommitFails, Restart
  <2> QED
    BY <1>1, <1>t, <2>1, ReadConsumer, SubmitConsumer, ValidateConsumer, EnterConsumer DEF Consume
<1>2. CASE CrashEngine
  BY <1>2, <1>t, IdleConsumer DEF CrashEngine, RestartEngine, Restart
<1>3. ASSUME UNCHANGED engineVars PROVE ConsumerInv'
  BY <1>t, <1>3 DEF ConsumerInv, ConsumerOK, QueuedIsEntered, engineVars
<1>4. ASSUME NEW a \in Attempts, Send(a) \/ Serve(a) PROVE UNCHANGED engineVars
  BY <1>4 DEF Send, Serve, LookupRecord, InsertRecord, CompleteRecord, Refuse, CreateOrder,
              TradingOrder, CancelOrder, ReplaceCancel, ReplaceCreate, engineVars
<1>5. CASE Operate \/ CrashGateway \/ UNCHANGED vars
  BY <1>3, <1>5 DEF Operate, SetControl, PersistControl, CrashGateway, vars, engineVars
<1> QED
  BY <1>1, <1>2, <1>3, <1>4, <1>5 DEF Next

(* An acknowledged order stays in sight, *)
InSight(a) == Carried(a) \/ <<"created", a>> \in unstored

LEMMA InSightStep ==
    ASSUME IInv, [Next]_vars, NEW a \in Attempts, InSight(a)
    PROVE  InSight(a)'
<1>t. TypeOK /\ ConsumerInv /\ \A b \in Attempts : RequestOK(b)
  BY DEF IInv, ProcessingHasOwner, ConsumerInv, RequestsInv
<1>e. <<"created", a>> \in Events /\ topic \in [Events -> Nat]
  BY <1>t DEF Events, TypeOK
<1>n. a # None
  BY GatewayAssumption
<1>1. ASSUME UNCHANGED engineVars, topic'[<<"created", a>>] >= topic[<<"created", a>>],
             topic' \in [Events -> Nat], unstored \subseteq unstored'
      PROVE  InSight(a)'
  <2>1. topic[<<"created", a>>] > 0 => topic'[<<"created", a>>] > 0
    BY <1>1, <1>e
  <2> QED
    BY <1>1, <2>1 DEF InSight, Carried, engineVars
<1>2. ASSUME UNCHANGED <<engineVars, topicVars>> PROVE InSight(a)'
  BY <1>2 DEF InSight, Carried, topicVars, engineVars
<1>3. ASSUME NEW b \in Attempts, Handles(b) PROVE InSight(a)'
  <2>1. /\ UNCHANGED engineVars /\ topic' \in [Events -> Nat]
        /\ topic'[<<"created", a>>] >= topic[<<"created", a>>]
        /\ unstored \subseteq unstored'
    BY <1>3, <1>t, <1>e, HandlerEffect DEF Handled
  <2> QED
    BY <1>1, <2>1
<1>4. ASSUME NEW b \in Attempts,
             Send(b) \/ LookupRecord(b) \/ InsertRecord(b) \/ CompleteRecord(b)
      PROVE  InSight(a)'
  <2>1. UNCHANGED <<engineVars, topicVars>>
    BY <1>4 DEF Send, LookupRecord, InsertRecord, CompleteRecord
  <2> QED
    BY <1>2, <2>1
<1>5. CASE Operate \/ CrashGateway \/ UNCHANGED vars
  <2>1. UNCHANGED <<engineVars, topicVars>>
    BY <1>5 DEF Operate, SetControl, PersistControl, CrashGateway, vars, topicVars, engineVars
  <2> QED
    BY <1>2, <2>1
<1>6. CASE ReadEvent
  <2> PICK e \in Events : /\ topic' = [topic EXCEPT ![e] = topic[e] - 1]
                          /\ worker' = IF e[1] = "created"
                                       THEN [pc |-> "submit", order |-> e[2]] ELSE Idle
    BY <1>6 DEF ReadEvent
  <2>1. UNCHANGED <<orders, dropped, unstored>> /\ worker.order # a
    BY <1>6, <1>n, <1>t DEF ReadEvent, ConsumerInv, ConsumerOK
  <2>2. CASE e = <<"created", a>>
    <3>1. worker'.order = a
      BY <2>2
    <3> QED
      BY <3>1 DEF InSight, Carried
  <2>3. CASE e # <<"created", a>>
    <3>1. topic'[<<"created", a>>] = topic[<<"created", a>>]
      BY <1>e, <2>3
    <3> QED
      BY <2>1, <3>1 DEF InSight, Carried
  <2> QED
    BY <2>2, <2>3
<1>7. ASSUME RestartEngine, UNCHANGED <<orders, topicVars>> PROVE InSight(a)'
  <2>1. worker.order = a => a \in dropped'
    BY <1>7, <1>n DEF RestartEngine, Restart
  <2>2. dropped \subseteq dropped' /\ UNCHANGED <<topic, unstored>>
    BY <1>7 DEF RestartEngine, Restart, topicVars
  <2> QED
    BY <1>7, <2>1, <2>2 DEF InSight, Carried
<1>8. CASE SubmitOrder
  <2>1. CASE /\ Inserts(worker.order) /\ orders' = [orders EXCEPT ![worker.order] = "CREATED"]
             /\ worker' = [worker EXCEPT !.pc = "validate"] /\ dropped' = dropped
    <3>1. worker'.order = worker.order /\ worker.order \in Attempts
      BY <1>8, <1>t, <2>1, WorkingConsumer DEF SubmitOrder, ConsumerInv
    <3>2. UNCHANGED <<topic, unstored>>
      BY <1>8 DEF SubmitOrder, topicVars
    <3>3. a # worker.order => orders'[a] = orders[a]
      BY <1>t, <2>1 DEF TypeOK
    <3> QED
      BY <2>1, <3>1, <3>2, <3>3 DEF InSight, Carried
  <2>2. CASE RestartEngine /\ UNCHANGED orders
    BY <1>7, <1>8, <2>2 DEF SubmitOrder
  <2> QED
    BY <1>8, <2>1, <2>2 DEF SubmitOrder
<1>9. CASE ValidateOrder
  <2> DEFINE o == worker.order
  <2>0. UNCHANGED <<topic, unstored>> /\ o \in Attempts
    BY <1>9, <1>t, WorkingConsumer DEF ValidateOrder, topicVars, ConsumerInv
  <2>1. CASE worker' = Idle /\ UNCHANGED orders /\ dropped' = dropped \cup {o}
    BY <2>0, <2>1 DEF InSight, Carried
  <2>2. CASE worker' = Idle /\ orders' = [orders EXCEPT ![o] = "REJECTED"] /\ dropped' = dropped
    <3>1. (a # o => orders'[a] = orders[a]) /\ orders'[o] = "REJECTED"
      BY <1>t, <2>0, <2>2 DEF TypeOK
    <3> QED
      BY <2>0, <2>2, <3>1 DEF InSight, Carried
  <2>3. CASE /\ orders' = [orders EXCEPT ![o] = "ACCEPTED"]
             /\ worker' = [worker EXCEPT !.pc = "enter"] /\ dropped' = dropped
    <3>1. worker'.order = o
      BY <1>9, <1>t, <2>3, WorkingConsumer DEF ValidateOrder, ConsumerInv
    <3>2. a # o => orders'[a] = orders[a]
      BY <1>t, <2>3 DEF TypeOK
    <3> QED
      BY <2>0, <2>3, <3>1, <3>2 DEF InSight, Carried
  <2> QED
    BY <1>9, <2>1, <2>2, <2>3 DEF ValidateOrder
<1>10. CASE EnterBook
  <2> DEFINE o == worker.order
  <2>0. UNCHANGED <<topic, unstored>> /\ dropped' = dropped /\ o \in Attempts
    BY <1>10, <1>t, WorkingConsumer DEF EnterBook, topicVars, ConsumerInv
  <2>1. (a # o => orders'[a] = orders[a]) /\ orders'[o] = "QUEUED"
    BY <1>t, <1>10, <2>0 DEF EnterBook, TypeOK
  <2> QED
    BY <2>0, <2>1 DEF InSight, Carried
<1>11. CASE CrashEngine
  BY <1>7, <1>11 DEF CrashEngine
<1>12. CASE CommitFails
  <2>1. worker.order # a /\ UNCHANGED <<orders, unstored>>
    BY <1>12, <1>n, <1>t DEF CommitFails, ConsumerInv, ConsumerOK
  <2> PICK e \in Events :
          \/ topic' = topic /\ Restart({})
          \/ /\ topic' = [topic EXCEPT ![e] = topic[e] - 1]
             /\ Restart(IF e[1] = "created" THEN {e[2]} ELSE {})
    BY <1>12 DEF CommitFails
  <2>2. dropped \subseteq dropped'
    BY DEF Restart
  <2>3. CASE topic' = topic
    BY <2>1, <2>2, <2>3 DEF InSight, Carried
  <2>4. CASE /\ topic' = [topic EXCEPT ![e] = topic[e] - 1]
             /\ Restart(IF e[1] = "created" THEN {e[2]} ELSE {})
    <3>1. CASE e = <<"created", a>>
      <4>1. a \in dropped'
        BY <1>n, <2>4, <3>1 DEF Restart
      <4> QED
        BY <4>1 DEF InSight, Carried
    <3>2. CASE e # <<"created", a>>
      <4>1. topic'[<<"created", a>>] = topic[<<"created", a>>]
        BY <1>e, <2>4, <3>2
      <4> QED
        BY <2>1, <2>2, <4>1 DEF InSight, Carried
    <3> QED
      BY <3>1, <3>2
  <2> QED
    BY <2>3, <2>4
<1> QED
  BY <1>3, <1>4, <1>5, <1>6, <1>8, <1>9, <1>10, <1>11, <1>12 DEF Next, Serve, Handles, Consume

(* and only the handler of /oms/orders acknowledges one.                    *)
LEMMA NewlyAcknowledged ==
    ASSUME IInv, [Next]_vars, NEW a \in Attempts, Acknowledged(a)', ~Acknowledged(a)
    PROVE  topic'[<<"created", a>>] > 0 \/ <<"created", a>> \in unstored'
<1>t. TypeOK /\ RequestsInv /\ \A b \in Attempts : RequestOK(b)
  BY DEF IInv, ProcessingHasOwner, RequestsInv
<1>o. /\ Answer("accepted", a) # NoAnswer /\ Answer("accepted", a) # Conflict
      /\ Answer("accepted", a).order = a
  BY DEF Answer, NoAnswer, Conflict
<1>1. ASSUME attempts'[a] = attempts[a] PROVE FALSE
  BY <1>1 DEF Acknowledged
<1>2. ASSUME attempts' = attempts PROVE FALSE
  BY <1>1, <1>2
<1>3. ASSUME NEW b \in Attempts, Send(b) PROVE FALSE
  <2>1. attempts'[a] = attempts[a] \/ attempts'[a].answer = NoAnswer
    BY <1>t, <1>3 DEF Send, TypeOK
  <2> QED
    BY <1>1, <1>o, <2>1 DEF Acknowledged
<1>4. ASSUME NEW b \in Attempts, LookupRecord(b) PROVE FALSE
  <2>1. b = a
    BY <1>1, <1>4, <1>t, LookupEffect DEF Moves
  <2> DEFINE rec == records[attempts[a].key]
  <2>2. /\ attempts[a].pc = "lookup" /\ attempts[a].key \in Keys /\ rec \in Records
        /\ attempts'[a].route = attempts[a].route
        /\ attempts'[a].answer \in {attempts[a].answer, Replay(rec, attempts[a].body)}
    BY <1>4, <1>t, <2>1, LookupEffect DEF Moves, TypeOK
  <2>3. Replay(rec, attempts[a].body) = Answer("accepted", a) => rec.answer.order = a
    BY <1>o, <2>2, ReplayType
  <2>4. ~attempts[a].ran
    BY <1>t, <2>2 DEF RequestOK
  <2>5. rec.answer.order # a
    BY <1>t, <2>2, <2>4 DEF RequestsInv, RecordedOrders
  <2> QED
    BY <2>2, <2>3, <2>5 DEF Acknowledged
<1>5. ASSUME NEW b \in Attempts, InsertRecord(b) PROVE FALSE
  <2>1. \/ attempts'[a] = attempts[a]
        \/ /\ attempts'[a].route = attempts[a].route
           /\ attempts'[a].answer \in {attempts[a].answer, Conflict}
    BY <1>5, <1>t, InsertEffect DEF Moves
  <2> QED
    BY <1>1, <1>o, <2>1 DEF Acknowledged
<1>6. ASSUME NEW b \in Attempts, CompleteRecord(b) PROVE FALSE
  <2>1. \/ attempts'[a] = attempts[a]
        \/ /\ attempts'[a].route = attempts[a].route
           /\ attempts'[a].answer = attempts[a].answer
    BY <1>6, <1>t, CompleteEffect DEF Moves
  <2> QED
    BY <1>1, <2>1 DEF Acknowledged
<1>7. ASSUME NEW b \in Attempts, Handles(b)
      PROVE  topic'[<<"created", a>>] > 0 \/ <<"created", a>> \in unstored'
  <2>1. b = a
    BY <1>1, <1>7, <1>t, HandlerEffect DEF Handled, Moves
  <2>2. \/ /\ attempts'[a].route = attempts[a].route
           /\ attempts'[a].answer = attempts[a].answer
        \/ /\ attempts'[a].route = attempts[a].route
           /\ attempts[a].route = "create" /\ attempts'[a].answer = Answer("accepted", a)
                => topic'[<<"created", a>>] > 0 \/ <<"created", a>> \in unstored'
    BY <1>7, <1>t, <2>1, HandlerEffect DEF Handled, Moves
  <2> QED
    BY <2>2 DEF Acknowledged
<1>8. ASSUME CrashGateway PROVE FALSE
  <2>1. attempts'[a] = attempts[a] \/ attempts'[a].answer = NoAnswer
    BY <1>8, <1>t, CrashEffect DEF CutOff
  <2> QED
    BY <1>1, <1>o, <2>1 DEF Acknowledged
<1>9. ASSUME Consume \/ Operate \/ CrashEngine \/ UNCHANGED vars PROVE FALSE
  <2>1. attempts' = attempts
    BY <1>9 DEF Consume, ReadEvent, CommitFails, SubmitOrder, ValidateOrder, EnterBook, Operate,
                SetControl, PersistControl, CrashEngine, vars, gatewayVars
  <2> QED
    BY <1>2, <2>1
<1> QED
  BY <1>3, <1>4, <1>5, <1>6, <1>7, <1>8, <1>9 DEF Next, Serve, Handles

(* A standing control keeps its row until a call lifts it.                  *)
LEMMA StandingStep ==
    ASSUME IInv, [Next]_vars
    PROVE  StandingIsStored'
<1>t. TypeOK /\ StandingIsStored
  BY DEF IInv, ProcessingHasOwner
<1>n. NoCall.pc = "idle"
  BY DEF NoCall
<1>1. ASSUME UNCHANGED <<rows, standing, admin>> PROVE StandingIsStored'
  BY <1>t, <1>1 DEF StandingIsStored
<1>2. ASSUME NEW q \in Processes, admin' = [admin EXCEPT ![q] = NoCall],
             UNCHANGED <<rows, standing>>
      PROVE  StandingIsStored'
  <2>1. \A p \in Processes : admin'[p].pc = "persist" => admin'[p] = admin[p]
    BY <1>2, <1>n, <1>t DEF TypeOK
  <2> QED
    BY <1>t, <1>2, <2>1 DEF StandingIsStored
<1>3. ASSUME NEW q \in Processes, SetControl(q) PROVE StandingIsStored'
  <2> PICK c \in Controls, v \in BOOLEAN :
          /\ admin' = [admin EXCEPT ![q] =
                         [pc |-> "persist", control |-> c, value |-> v]]
          /\ standing' = IF v THEN standing ELSE standing \ {c}
    BY <1>3 DEF SetControl
  <2>1. /\ admin'[q].control = c /\ admin'[q].value = v
        /\ \A p \in Processes \ {q} : admin'[p] = admin[p]
    BY <1>t DEF TypeOK
  <2>2. rows' = rows
    BY <1>3 DEF SetControl
  <2>3. standing' \subseteq standing /\ (~v => c \notin standing')
    OBVIOUS
  <2>4. \A p \in Processes : admin'[p].pc = "persist" => admin'[p].control \in Controls
    BY <1>t, <2>1 DEF StandingIsStored
  <2>5. ASSUME NEW d \in standing', NEW p \in Processes,
               admin'[p].pc = "persist", admin'[p].control = d
        PROVE  admin'[p].value
    BY <1>t, <2>1, <2>3, <2>5 DEF StandingIsStored
  <2> QED
    BY <1>t, <2>2, <2>3, <2>4, <2>5 DEF StandingIsStored
<1>4. ASSUME NEW q \in Processes, PersistControl(q) PROVE StandingIsStored'
  <2> DEFINE c == admin[q].control
             alone == \A p \in Processes \ {q} :
                          admin[p].pc = "persist" => admin[p].control # c \/ admin[p].value
  <2>1. /\ c \in Controls /\ admin[q].pc = "persist"
        /\ admin' = [admin EXCEPT ![q] = NoCall]
    BY <1>4, <1>t DEF PersistControl, StandingIsStored
  <2>2. \A p \in Processes : admin'[p].pc = "persist" => admin'[p] = admin[p] /\ p # q
    BY <2>1, <1>n, <1>t DEF TypeOK
  <2>3. CASE UNCHANGED <<rows, standing>>
    BY <1>2, <2>1, <2>3
  <2>4. CASE /\ rows' = [rows EXCEPT ![c] = IF admin[q].value THEN "true" ELSE "false"]
             /\ standing' = IF admin[q].value /\ alone THEN standing \cup {c} ELSE standing
    <3>1. ~admin[q].value => c \notin standing
      BY <1>t, <2>1 DEF StandingIsStored
    <3>2. standing' \subseteq standing \cup {c} /\ (c \in standing' \ standing => alone)
      BY <2>4
    <3>3. c \in standing' => admin[q].value
      BY <2>4, <3>1
    <3>4. ASSUME NEW d \in standing' PROVE rows'[d] = "true"
      <4>1. CASE d = c
        BY <1>t, <2>1, <2>4, <3>3, <4>1 DEF TypeOK
      <4>2. CASE d # c
        BY <1>t, <2>4, <3>2, <4>2 DEF TypeOK, StandingIsStored
      <4> QED
        BY <4>1, <4>2
    <3>5. ASSUME NEW d \in standing', NEW p \in Processes,
                 admin'[p].pc = "persist", admin'[p].control = d
          PROVE  admin'[p].value
      <4>1. admin'[p] = admin[p] /\ p # q
        BY <2>2, <3>5
      <4>2. CASE d \in standing
        BY <1>t, <3>5, <4>1, <4>2 DEF StandingIsStored
      <4>3. CASE d \notin standing
        BY <3>2, <3>5, <4>1, <4>3
      <4> QED
        BY <4>2, <4>3
    <3> QED
      BY <1>t, <2>2, <3>4, <3>5 DEF StandingIsStored
  <2> QED
    BY <1>4, <2>3, <2>4 DEF PersistControl
<1>5. CASE CrashGateway
  <2>1. UNCHANGED <<rows, standing>>
        /\ (admin' = admin \/ admin' = [admin EXCEPT !["gateway"] = NoCall])
    BY <1>5 DEF CrashGateway
  <2> QED
    BY <1>1, <1>2, <2>1 DEF Processes
<1>6. CASE CrashEngine
  BY <1>2, <1>6 DEF CrashEngine, RestartEngine, Restart, Processes
<1>7. CASE SubmitOrder
  BY <1>1, <1>2, <1>7 DEF SubmitOrder, RestartEngine, Restart, Processes
<1>8. ASSUME NEW a \in Attempts, Send(a) \/ Serve(a) PROVE StandingIsStored'
  <2>1. UNCHANGED <<rows, standing, admin>>
    BY <1>8 DEF Send, Serve, LookupRecord, InsertRecord, CompleteRecord, Refuse, CreateOrder,
              TradingOrder, CancelOrder, ReplaceCancel, ReplaceCreate, controlVars
  <2> QED
    BY <1>1, <2>1
<1>9. CASE ReadEvent \/ ValidateOrder \/ EnterBook \/ UNCHANGED vars
  BY <1>1, <1>9 DEF ReadEvent, ValidateOrder, EnterBook, controlVars, vars
<1>10. CASE CommitFails
  BY <1>2, <1>10 DEF CommitFails, Restart, Processes
<1> QED
  BY <1>3, <1>4, <1>5, <1>6, <1>7, <1>8, <1>9, <1>10 DEF Next, Consume, Operate

-------------------------------------------------------------------------------
(* The invariant is inductive *)

LEMMA TypeStep ==
    ASSUME IInv, [Next]_vars
    PROVE  TypeOK'
<1>t. TypeOK /\ ConsumerOK /\ StandingIsStored /\ \A a \in Attempts : RequestOK(a)
  BY DEF IInv, ProcessingHasOwner, RequestsInv
<1>1. CASE UNCHANGED vars
  BY <1>t, <1>1 DEF TypeOK, vars
<1> QED
  BY <1>1, <1>t, GatewayType, ConsumerType, OperatorType, CrashType DEF Next, Operate

LEMMA RequestsStep ==
    ASSUME IInv, [Next]_vars
    PROVE  RequestsInv'
<1>t. TypeOK /\ RequestsInv
  BY DEF IInv, ProcessingHasOwner
<1>1. ASSUME UNCHANGED gatewayVars PROVE RequestsInv'
  BY <1>t, <1>1 DEF RequestsInv, RequestOK, OneOwner, OwnerRecorded, AnswersAgree,
                    RecordedOrders, Owner, Serving, Answered, gatewayVars
<1>2. ASSUME NEW a \in Attempts, Send(a) \/ Serve(a) PROVE RequestsInv'
  BY <1>2, <1>t, SendRequests, LookupRequests, InsertRequests, CompleteRequests,
     HandlerRequests DEF Serve, Handles
<1>3. CASE Consume \/ Operate \/ CrashEngine \/ UNCHANGED vars
  <2>1. UNCHANGED gatewayVars
    BY <1>3 DEF Consume, ReadEvent, CommitFails, SubmitOrder, ValidateOrder, EnterBook, Operate,
                SetControl, PersistControl, CrashEngine, vars, gatewayVars
  <2> QED
    BY <1>1, <2>1
<1> QED
  BY <1>2, <1>3, <1>t, CrashRequests DEF Next

LEMMA InitIInv ==
    ASSUME Init
    PROVE  IInv
<1>1. TypeOK
  BY AnswerTypes, GatewayAssumption DEF Init, TypeOK, Events, Processes
<1>2. \A a \in Attempts : /\ attempts[a].pc = "unsent" /\ attempts[a].ran = FALSE
                          /\ attempts[a].answer = NoAnswer /\ attempts[a].key = NoKey
                          /\ attempts[a].route = "create"
  BY DEF Init, NotSent
<1>3. \A k \in Keys : records[k].status = "absent" /\ records[k].answer = NoAnswer
  BY DEF Init, NoRecord
<1>4. NoAnswer.order = None /\ \A a \in Attempts : NoAnswer # Answer("accepted", a)
  BY DEF NoAnswer, Answer
<1>5. RequestsInv
  BY <1>2, <1>3, <1>4, GatewayAssumption
  DEF RequestsInv, RequestOK, OneOwner, OwnerRecorded, AnswersAgree, RecordedOrders, Owner,
      Serving, Answered
<1>6. ConsumerOK /\ QueuedIsEntered
  BY DEF Init, ConsumerOK, QueuedIsEntered, Idle
<1>7. AcknowledgedNotLost
  BY <1>2, <1>4 DEF AcknowledgedNotLost, Acknowledged
<1>8. StandingIsStored
  BY DEF Init, StandingIsStored, NoCall
<1> QED
  BY <1>1, <1>3, <1>5, <1>6, <1>7, <1>8 DEF IInv, ProcessingHasOwner

LEMMA StepIInv ==
    ASSUME IInv, [Next]_vars
    PROVE  IInv'
<1>1. ProcessingHasOwner'
  BY TypeStep, ProcessingStep
<1>2. RequestsInv' /\ ConsumerOK' /\ QueuedIsEntered' /\ StandingIsStored'
  BY RequestsStep, ConsumerStep, StandingStep DEF ConsumerInv
<1>3. AcknowledgedNotLost'
  <2>1. ASSUME NEW a \in Attempts, Acknowledged(a)' PROVE InSight(a)'
    <3>1. CASE Acknowledged(a)
      <4>1. InSight(a)
        BY <3>1 DEF IInv, AcknowledgedNotLost, InSight
      <4> QED
        BY <4>1, InSightStep
    <3>2. CASE ~Acknowledged(a)
      BY <2>1, <3>2, NewlyAcknowledged DEF InSight, Carried
    <3> QED
      BY <3>1, <3>2
  <2> QED
    BY <2>1 DEF AcknowledgedNotLost, InSight
<1> QED
  BY <1>1, <1>2, <1>3 DEF IInv

(* The gateway and the consumer keep the invariant, whatever crashes, is    *)
(* lost, delivered twice or retried.                                        *)
THEOREM GatewayInductive == Spec => []IInv
<1>1. Init => IInv
  BY InitIInv
<1>2. IInv /\ [Next]_vars => IInv'
  BY StepIInv
<1> QED
  BY <1>1, <1>2, PTL DEF Spec

-------------------------------------------------------------------------------
(* What it implies *)

(* The handler behind a key runs once: IdempotencyMiddleware lets one       *)
(* request per key through, for any number of retries and crashes.          *)
THEOREM HandlerRunsOnce == Spec => []HandledOnce
<1>1. IInv => HandledOnce
  <2> SUFFICES ASSUME IInv, NEW k \in Keys
               PROVE  Cardinality({a \in Attempts : attempts[a].key = k
                                                    /\ attempts[a].ran}) <= 1
    BY DEF HandledOnce
  <2> DEFINE S == {a \in Attempts : attempts[a].key = k /\ attempts[a].ran}
  <2>1. \A a, b \in S : a = b
    BY DEF IInv, RequestsInv, OneOwner, Owner
  <2>2. CASE S = {}
    BY <2>2, FS_EmptySet
  <2>3. CASE S # {}
    <3> PICK a \in S : TRUE
      BY <2>3
    <3>1. S = {a}
      BY <2>1
    <3> HIDE DEF S
    <3>2. Cardinality(S) = 1
      BY <3>1, FS_Singleton
    <3> QED
      BY <3>2 DEF S
  <2> QED
    BY <2>2, <2>3
<1> QED
  BY <1>1, GatewayInductive, PTL

(* All answers under one key but the 409s agree, and are for one body.      *)
THEOREM AnswersAreReplays == Spec => []SameAnswer
<1>1. IInv => SameAnswer
  <2> SUFFICES ASSUME IInv, NEW a \in Attempts, NEW b \in Attempts,
                      attempts[a].key = attempts[b].key, attempts[a].key # NoKey,
                      attempts[a].pc = "done", attempts[b].pc = "done",
                      {attempts[a].answer, attempts[b].answer} \cap {NoAnswer, Conflict} = {}
               PROVE  /\ attempts[a].body = attempts[b].body
                      /\ attempts[a].answer = attempts[b].answer
    BY DEF SameAnswer
  <2>1. attempts[a].key \in Keys
    BY DEF IInv, ProcessingHasOwner, TypeOK, Requests
  <2>2. Answered(a) /\ Answered(b)
    BY DEF Answered
  <2> DEFINE rec == records[attempts[a].key]
  <2>3. rec.status \in {"absent", "PROCESSING", "COMPLETED"}
    BY <2>1 DEF IInv, ProcessingHasOwner, TypeOK, Records
  <2>4. /\ rec.status # "absent"
        /\ rec.hash = attempts[a].body /\ rec.hash = attempts[b].body
        /\ rec.status = "PROCESSING" => attempts[a].ran /\ attempts[b].ran
        /\ rec.status = "COMPLETED" => /\ rec.answer = attempts[a].answer
                                       /\ rec.answer = attempts[b].answer
    BY <2>1, <2>2 DEF IInv, RequestsInv, AnswersAgree
  <2>5. rec.status = "PROCESSING" => a = b
    BY <2>1, <2>4 DEF IInv, RequestsInv, OneOwner, Owner
  <2> QED
    BY <2>3, <2>4, <2>5
<1> QED
  BY <1>1, GatewayInductive, PTL

(* The INSERT of SubmitOrder lets an order into the book once, although the *)
(* topic delivers its event twice and restarts empty the order map.         *)
THEOREM BookEntersOnce == Spec => []EnteredOnce
<1>1. IInv => EnteredOnce
  BY DEF IInv, QueuedIsEntered, EnteredOnce
<1> QED
  BY <1>1, GatewayInductive, PTL

(* An order acknowledged on /oms/orders is not lost on the way from the     *)
(* gateway to the engine's decision, except where its message was reported  *)
(* as sent and no broker stored it, or the engine failed while it held it   *)
(* (Publish, Consume, SubmitOrder).                                         *)
THEOREM NoAcknowledgedOrderLost == Spec => []AcknowledgedNotLost
<1>1. IInv => AcknowledgedNotLost
  BY DEF IInv
<1> QED
  BY <1>1, GatewayInductive, PTL

(* A record stays PROCESSING for a request in service only, but for a       *)
(* failed UPDATE or a crash; the theorem includes type correctness.         *)
THEOREM ProcessingRecordsOwned == Spec => []ProcessingHasOwner
<1>1. IInv => ProcessingHasOwner
  BY DEF IInv
<1> QED
  BY <1>1, GatewayInductive, PTL

(* No order passes ValidateOrder against a halt, block or suspension that   *)
(* an acknowledged call set and none has lifted, whichever process served   *)
(* the call: every order rereads the rows.                                  *)
THEOREM StandingControlsHold == Spec => ControlsHold
<1> DEFINE Passes == worker.pc = "validate" /\ worker'.pc = "enter" /\ faults' = faults
                       => standing = {}
<1>1. IInv /\ [Next]_vars => [Passes]_vars
  <2> SUFFICES ASSUME IInv, Next, worker.pc = "validate", worker'.pc = "enter",
                      faults' = faults
               PROVE  standing = {}
    OBVIOUS
  <2>t. TypeOK /\ StandingIsStored
    BY DEF IInv, ProcessingHasOwner
  <2>0. Idle.pc = "read"
    BY DEF Idle
  <2>1. ASSUME worker' = worker \/ worker' = Idle PROVE FALSE
    BY <2>0, <2>1
  <2>2. ValidateOrder
    <3>1. ASSUME NEW a \in Attempts, Send(a) \/ Serve(a) PROVE worker' = worker
      BY <3>1 DEF Send, Serve, LookupRecord, InsertRecord, CompleteRecord, Refuse,
              CreateOrder, TradingOrder, CancelOrder, ReplaceCancel, ReplaceCreate, engineVars
    <3>2. ASSUME Operate \/ CrashGateway \/ CrashEngine PROVE worker' = worker \/ worker' = Idle
      BY <3>2 DEF Operate, SetControl, PersistControl, CrashGateway, CrashEngine,
                  RestartEngine, Restart, engineVars
    <3>3. ~ReadEvent /\ ~CommitFails /\ ~SubmitOrder /\ ~EnterBook
      BY DEF ReadEvent, CommitFails, SubmitOrder, EnterBook
    <3> QED
      BY <2>1, <3>1, <3>2, <3>3 DEF Next, Consume
  <2>3. ~Fault
    BY <2>t DEF Fault, TypeOK
  <2>4. held' = Reread({}) /\ ~\E c \in Controls : held'[c]
    BY <2>1, <2>2, <2>3 DEF ValidateOrder
  <2>5. ASSUME NEW c \in standing PROVE FALSE
    <3>1. rows[c] = "true" /\ c \in Controls
      BY <2>t DEF StandingIsStored, TypeOK
    <3>2. held'[c] = TRUE
      BY <2>4, <3>1 DEF Reread, LoadRiskControls
    <3> QED
      BY <2>4, <3>1, <3>2
  <2> QED
    BY <2>5
<1> QED
  BY <1>1, GatewayInductive, PTL DEF Spec, ControlsHold
===============================================================================
