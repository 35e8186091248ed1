------------------------- MODULE RequestReplyProofs -------------------------
(***************************************************************************)
(* Proofs about RequestReply for any number of requests and replies: type  *)
(* correctness, the timer every waiting caller has, what the table of      *)
(* reply handlers holds, that no caller gets the answer to another's       *)
(* request, and that the caller sees what Request specifies.               *)
(***************************************************************************)
EXTENDS RequestReply, SequenceTheorems, TLAPS

USE RequestAssumption DEF Request, HandlerOf, Calls, ClearTimer, RemoveEntry

QueuedMessage == {RequestMessage(r) : r \in Request} \cup ReplyMessage

LEMMA QueueTyped ==
    ASSUME TypeOK
    PROVE  /\ queue \in Seq(QueuedMessage)
           /\ queue # <<>> => Tail(queue) \in Seq(QueuedMessage) /\ Head(queue) \in QueuedMessage
           /\ \A m \in QueuedMessage : Append(queue, m) \in Seq(QueuedMessage)
<1>1. queue \in Seq(QueuedMessage)
  BY DEF TypeOK, QueuedMessage
<1>2. QED
  BY <1>1, HeadTailProperties, AppendProperties

LEMMA ResponderTyped ==
    ASSUME NEW f \in [Request -> ResponderRecord], NEW r \in Request
    PROVE  /\ \A s \in {"none", "running", "ended"} :
                [f EXCEPT ![r].status = s] \in [Request -> ResponderRecord]
           /\ [f EXCEPT ![r].wasCancelled = TRUE] \in [Request -> ResponderRecord]
  BY DEF ResponderRecord

LEMMA InitTyped == Init => TypeOK
<1> SUFFICES ASSUME Init PROVE TypeOK
  OBVIOUS
<1>1. queue \in Seq({RequestMessage(r) : r \in Request} \cup ReplyMessage)
  BY EmptySeq DEF Init
<1>2. responder \in [Request -> ResponderRecord]
  BY DEF Init, ResponderRecord
<1>3. /\ messageReplyHandlers \in [Id -> Request \cup {0}]
      /\ replies \in [Request -> 0..MaxReplies]
  BY DEF Init
<1>4. QED
  BY <1>1, <1>2, <1>3 DEF Init, TypeOK

LEMMA NextTyped == TypeOK /\ [Next]_vars => TypeOK'
<1> SUFFICES ASSUME TypeOK, [Next]_vars PROVE TypeOK'
  OBVIOUS
<1> USE DEF callerVars, tokenVars, responderVars, replyVars, ReplyKinds
<1>1. ASSUME NEW r \in Request, SendWithReply(r) PROVE TypeOK'
  <2>1. queue' \in Seq(QueuedMessage)
    BY <1>1, QueueTyped DEF SendWithReply, QueuedMessage
  <2>2. delayed' \subseteq Request
    BY <1>1 DEF SendWithReply, TypeOK
  <2>3. QED
    BY <1>1, <2>1, <2>2 DEF SendWithReply, TypeOK, QueuedMessage
<1>2. ASSUME NEW r \in Request, CancelToken(r) PROVE TypeOK'
  BY <1>2 DEF CancelToken, TypeOK
<1>3. ASSUME NEW r \in Request, CancelSender(r) PROVE TypeOK'
  BY <1>3 DEF CancelSender, TypeOK
<1>4. ASSUME NEW r \in Request, TimeOut(r) PROVE TypeOK'
  BY <1>4 DEF TimeOut, SettleFirst, TypeOK
<1>5. ASSUME NEW r \in Request, DelayElapses(r) PROVE TypeOK'
  <2>1. queue' \in Seq(QueuedMessage)
    BY <1>5, QueueTyped DEF DelayElapses, QueuedMessage
  <2>2. QED
    BY <1>5, <2>1 DEF DelayElapses, TypeOK, QueuedMessage
<1>6. ASSUME NEW r \in Request, EndResponder(r) PROVE TypeOK'
  <2>1. responder' \in [Request -> ResponderRecord]
    BY <1>6, ResponderTyped DEF EndResponder, TypeOK
  <2>2. isProcessing' \in BOOLEAN
    BY <1>6 DEF EndResponder
  <2>3. QED
    BY <1>6, <2>1, <2>2 DEF EndResponder, TypeOK
<1>7. ASSUME NEW r \in Request, NEW kind \in {"payload", "error"}, Reply(r, kind) PROVE TypeOK'
  <2> DEFINE sent == IF responder[r].wasCancelled THEN "cancelled" ELSE kind
             m == [kind |-> sent, from |-> r, number |-> replies[r] + 1]
  <2>1. replies[r] + 1 \in 1..MaxReplies /\ replies[r] \in Nat
    <3>1. replies[r] < MaxReplies
      BY <1>7 DEF Reply
    <3>2. replies[r] \in 0..MaxReplies
      BY DEF TypeOK
    <3>3. QED
      BY <3>1, <3>2
  <2>2. sent \in ReplyKinds /\ m \in QueuedMessage
    BY <2>1 DEF QueuedMessage, ReplyMessage
  <2>3. queue' = Append(queue, m) /\ answers' = answers \cup {<<r, sent>>}
    BY <1>7 DEF Reply
  <2>4. queue' \in Seq(QueuedMessage) /\ answers' \subseteq Request \X ReplyKinds
    <3> HIDE DEF m, sent
    <3>1. queue' \in Seq(QueuedMessage)
      BY <2>2, <2>3, QueueTyped
    <3>2. answers' \subseteq Request \X ReplyKinds
      BY <2>2, <2>3 DEF TypeOK
    <3>3. QED
      BY <3>1, <3>2
  <2>5. replies' \in [Request -> 0..MaxReplies]
    BY <1>7, <2>1 DEF Reply, TypeOK
  <2>6. QED
    BY <1>7, <2>4, <2>5 DEF Reply, TypeOK, QueuedMessage
<1>8. CASE StopListening
  BY <1>8 DEF StopListening, TypeOK
<1>9. ASSUME NEW r \in Request, ReceiveRequest(r) PROVE TypeOK'
  <2>1. queue' \in Seq(QueuedMessage)
    BY <1>9, QueueTyped DEF ReceiveRequest
  <2>2. AfterCancelling \in [Request -> ResponderRecord]
    <3>1. CASE latest = 0
      <4>1. AfterCancelling = responder
        BY <3>1 DEF AfterCancelling, TypeOK
      <4>2. QED
        BY <4>1 DEF TypeOK
    <3>2. CASE latest \in Request
      BY <3>2, ResponderTyped DEF AfterCancelling, TypeOK
    <3>3. QED
      BY <3>1, <3>2 DEF TypeOK
  <2>3. CASE subscription = "gone" \/ Refused
    BY <1>9, <2>1, <2>3 DEF ReceiveRequest, TypeOK, QueuedMessage
  <2>4. CASE ~(subscription = "gone" \/ Refused)
    <3>1. /\ responder' = [AfterCancelling EXCEPT ![r].status = "running"]
          /\ isProcessing' = TRUE /\ latest' = r
      BY <1>9, <2>4 DEF ReceiveRequest
    <3>2. responder' \in [Request -> ResponderRecord]
      BY <2>2, <3>1, ResponderTyped
    <3>3. QED
      BY <1>9, <2>1, <3>1, <3>2 DEF ReceiveRequest, TypeOK, QueuedMessage
  <2>5. QED
    BY <2>3, <2>4
<1>10. ASSUME NEW m \in ReplyMessage, ReceiveStray(m) \/ ReceiveLate(m) \/ ReceiveReply(m)
       PROVE  TypeOK'
  <2>1. queue' \in Seq(QueuedMessage)
    BY <1>10, QueueTyped DEF ReceiveStray, ReceiveLate, ReceiveReply, ReplyArrives
  <2>2. m.from \in Request /\ m.number \in 1..MaxReplies /\ m.kind \in ReplyKinds
    BY DEF ReplyMessage
  <2>3. CASE ReceiveStray(m)
    <3>1. strays' \subseteq Request \X (1..MaxReplies)
      BY <2>2, <2>3 DEF ReceiveStray, TypeOK
    <3>2. QED
      BY <2>1, <2>3, <3>1 DEF ReceiveStray, ReplyArrives, TypeOK, QueuedMessage
  <2>4. CASE ReceiveLate(m)
    BY <2>1, <2>4 DEF ReceiveLate, ReplyArrives, TypeOK, QueuedMessage
  <2>5. CASE ReceiveReply(m)
    BY <2>1, <2>2, <2>5 DEF ReceiveReply, SettleFirst, ReplyArrives, TypeOK, QueuedMessage
  <2>6. QED
    BY <1>10, <2>3, <2>4, <2>5
<1>11. CASE UNCHANGED vars
  BY <1>11 DEF vars, TypeOK
<1>12. QED
  BY <1>1, <1>2, <1>3, <1>4, <1>5, <1>6, <1>7, <1>8, <1>9, <1>10, <1>11 DEF Next, ReceiveAny

(* Every variable of requests and replies keeps its type. *)
THEOREM TypeCorrect == Spec => []TypeOK
  BY InitTyped, NextTyped, PTL DEF Spec

-----------------------------------------------------------------------------
(* Timers and the table of reply handlers *)

(* The inductive invariant: what the table holds depends on which requests *)
(* have timed out, so that this is part of it.                             *)
TableInv ==
    /\ TypeOK
    /\ TimerWhilePending
    /\ TableAccounted
    /\ \A r \in Request : hasTimedOut[r] => promise[r] = "timeout"

LEMMA InitTable == Init => TableInv
  BY InitTyped DEF Init, TableInv, TimerWhilePending, TableAccounted

LEMMA CallerUntouched ==
    ASSUME TableInv, TypeOK', UNCHANGED callerVars
    PROVE  TableInv'
  BY DEF TableInv, callerVars, TimerWhilePending, TableAccounted

LEMMA SendKeepsTable ==
    ASSUME TableInv, TypeOK', NEW r \in Request, SendWithReply(r)
    PROVE  TableInv'
<1>1. /\ promise[r] = "idle"
      /\ promise' = [promise EXCEPT ![r] = "pending"]
      /\ messageReplyHandlers' = [messageReplyHandlers EXCEPT ![MessageId[r]] = r]
      /\ timerArmed' = [timerArmed EXCEPT ![r] = TRUE]
      /\ hasTimedOut' = hasTimedOut
  BY DEF SendWithReply
<1>2. /\ promise \in [Request -> {"idle", "pending", "timeout"} \cup ReplyKinds]
      /\ messageReplyHandlers \in [Id -> Request \cup {0}]
      /\ timerArmed \in [Request -> BOOLEAN] /\ hasTimedOut \in [Request -> BOOLEAN]
  BY DEF TableInv, TypeOK
<1>3. ~hasTimedOut[r]
  BY <1>1 DEF TableInv
<1>4. TimerWhilePending'
  BY <1>1, <1>2 DEF TableInv, TimerWhilePending
<1>5. \A i \in Id :
        LET s == messageReplyHandlers'[i]
        IN s # 0 => /\ MessageId[s] = i
                    /\ promise'[s] = IF hasTimedOut'[s] THEN "timeout" ELSE "pending"
  BY <1>1, <1>2, <1>3 DEF TableInv, TableAccounted
<1>6. DistinctIds =>
        \A s \in Request : promise'[s] = "pending" => messageReplyHandlers'[MessageId[s]] = s
  BY <1>1, <1>2 DEF TableInv, TableAccounted, DistinctIds
<1>7. \A s \in Request : hasTimedOut'[s] => promise'[s] = "timeout"
  BY <1>1, <1>2, <1>3 DEF TableInv
<1>8. QED
  BY <1>4, <1>5, <1>6, <1>7 DEF TableInv, TableAccounted, DistinctIds

LEMMA TimeOutKeepsTable ==
    ASSUME TableInv, TypeOK', NEW r \in Request, TimeOut(r)
    PROVE  TableInv'
<1>1. promise[r] = "pending"
  BY DEF TimeOut, TableInv, TimerWhilePending
<1>2. /\ promise' = [promise EXCEPT ![r] = "timeout"]
      /\ timerArmed' = [timerArmed EXCEPT ![r] = FALSE]
      /\ hasTimedOut' = [hasTimedOut EXCEPT ![r] = TRUE]
      /\ messageReplyHandlers' = messageReplyHandlers
  BY <1>1 DEF TimeOut, SettleFirst
<1>3. /\ promise \in [Request -> {"idle", "pending", "timeout"} \cup ReplyKinds]
      /\ messageReplyHandlers \in [Id -> Request \cup {0}]
      /\ timerArmed \in [Request -> BOOLEAN] /\ hasTimedOut \in [Request -> BOOLEAN]
  BY DEF TableInv, TypeOK
<1>4. TimerWhilePending'
  BY <1>2, <1>3 DEF TableInv, TimerWhilePending
<1>5. TableAccounted'
  BY <1>2, <1>3 DEF TableInv, TableAccounted, DistinctIds
<1>6. \A s \in Request : hasTimedOut'[s] => promise'[s] = "timeout"
  BY <1>2, <1>3 DEF TableInv
<1>7. QED
  BY <1>4, <1>5, <1>6 DEF TableInv

(* The request a reply settles was waiting, and is the one the reply is    *)
(* for when identifiers are distinct.                                      *)
LEMMA ReplyEffect ==
    ASSUME TableInv, NEW m \in ReplyMessage, ReceiveReply(m)
    PROVE  \E r \in Request :
             /\ r = messageReplyHandlers[MessageId[m.from]]
             /\ MessageId[r] = MessageId[m.from] /\ m.from \in Request
             /\ DistinctIds => r = m.from
             /\ promise[r] = "pending"
             /\ promise' = [promise EXCEPT ![r] =
                               IF tokenCancelled[r] THEN "cancelled" ELSE m.kind]
             /\ settledBy' = [settledBy EXCEPT ![r] = m.from]
             /\ timerArmed' = [timerArmed EXCEPT ![r] = FALSE]
             /\ messageReplyHandlers' = [messageReplyHandlers EXCEPT ![MessageId[r]] = 0]
             /\ hasTimedOut' = hasTimedOut
<1> DEFINE r == messageReplyHandlers[MessageId[m.from]]
<1>1. m.from \in Request /\ MessageId[m.from] \in Id
  BY DEF ReplyMessage
<1>2. r \in Request
  BY <1>1 DEF ReceiveReply, TableInv, TypeOK
<1>3. MessageId[r] = MessageId[m.from] /\ promise[r] = "pending"
  BY <1>1, <1>2 DEF ReceiveReply, TableInv, TableAccounted
<1>4. DistinctIds => r = m.from
  BY <1>1, <1>2, <1>3 DEF DistinctIds
<1>5. QED
  BY <1>1, <1>2, <1>3, <1>4 DEF ReceiveReply, SettleFirst

LEMMA ReplyKeepsTable ==
    ASSUME TableInv, TypeOK', NEW m \in ReplyMessage, ReceiveReply(m)
    PROVE  TableInv'
<1>1. PICK r \in Request :
        /\ promise[r] = "pending" /\ r = messageReplyHandlers[MessageId[r]]
        /\ promise' = [promise EXCEPT ![r] =
                          IF tokenCancelled[r] THEN "cancelled" ELSE m.kind]
        /\ timerArmed' = [timerArmed EXCEPT ![r] = FALSE]
        /\ messageReplyHandlers' = [messageReplyHandlers EXCEPT ![MessageId[r]] = 0]
        /\ hasTimedOut' = hasTimedOut
  BY ReplyEffect
<1>2. /\ promise \in [Request -> {"idle", "pending", "timeout"} \cup ReplyKinds]
      /\ messageReplyHandlers \in [Id -> Request \cup {0}]
      /\ timerArmed \in [Request -> BOOLEAN] /\ hasTimedOut \in [Request -> BOOLEAN]
  BY DEF TableInv, TypeOK
<1>3. promise'[r] # "pending"
  BY <1>1, <1>2 DEF ReplyMessage, ReplyKinds
<1>4. TimerWhilePending'
  BY <1>1, <1>2, <1>3 DEF TableInv, TimerWhilePending
<1>5. TableAccounted'
  BY <1>1, <1>2, <1>3 DEF TableInv, TableAccounted, DistinctIds
<1>6. \A s \in Request : hasTimedOut'[s] => promise'[s] = "timeout"
  BY <1>1, <1>2 DEF TableInv
<1>7. QED
  BY <1>4, <1>5, <1>6 DEF TableInv

LEMMA NextKeepsTable == TableInv /\ [Next]_vars => TableInv'
<1> SUFFICES ASSUME TableInv, [Next]_vars PROVE TableInv'
  OBVIOUS
<1>1. TypeOK'
  BY NextTyped DEF TableInv
<1>2. \/ UNCHANGED callerVars
      \/ \E r \in Request : SendWithReply(r) \/ TimeOut(r)
      \/ \E m \in ReplyMessage : ReceiveReply(m)
  BY DEF Next, ReceiveAny, vars, CancelToken, CancelSender, DelayElapses, EndResponder, Reply,
         StopListening, ReceiveRequest, ReceiveStray, ReceiveLate
<1>3. QED
  BY <1>1, <1>2, CallerUntouched, SendKeepsTable, TimeOutKeepsTable, ReplyKeepsTable

(* The inductive invariant holds in every reachable state. *)
THEOREM TableInvariance == Spec => []TableInv
  BY InitTable, NextKeepsTable, PTL DEF Spec

(* A caller waits exactly as long as its timer runs. *)
THEOREM WaitingHasTimer == Spec => []TimerWhilePending
<1>1. TableInv => TimerWhilePending
  BY DEF TableInv
<1>2. QED
  BY <1>1, TableInvariance, PTL

(* The table of reply handlers holds the waiting requests and, for good,   *)
(* those that timed out.                                                   *)
THEOREM TableHoldsWaiting == Spec => []TableAccounted
<1>1. TableInv => TableAccounted
  BY DEF TableInv
<1>2. QED
  BY <1>1, TableInvariance, PTL

(* With identifiers of their own no request is settled by another's reply. *)
THEOREM NobodyElsesAnswer == Spec => []OwnAnswer
<1>1. Init => OwnAnswer
  BY DEF Init, OwnAnswer
<1>2. TableInv /\ OwnAnswer /\ [Next]_vars => OwnAnswer'
  <2> SUFFICES ASSUME TableInv, OwnAnswer, [Next]_vars PROVE OwnAnswer'
    OBVIOUS
  <2>1. CASE UNCHANGED settledBy
    BY <2>1 DEF OwnAnswer, DistinctIds
  <2>2. ASSUME NEW m \in ReplyMessage, ReceiveReply(m) PROVE OwnAnswer'
    <3>1. PICK r \in Request : /\ DistinctIds => r = m.from
                               /\ settledBy' = [settledBy EXCEPT ![r] = m.from]
      BY <2>2, ReplyEffect
    <3>2. settledBy \in [Request -> Request \cup {0}]
      BY DEF TableInv, TypeOK
    <3>3. QED
      BY <3>1, <3>2 DEF OwnAnswer, DistinctIds
  <2>3. UNCHANGED settledBy \/ \E m \in ReplyMessage : ReceiveReply(m)
    BY DEF Next, ReceiveAny, vars, callerVars, SendWithReply, TimeOut, CancelToken,
           CancelSender, DelayElapses, EndResponder, Reply, StopListening, ReceiveRequest,
           ReceiveStray, ReceiveLate
  <2>4. QED
    BY <2>1, <2>2, <2>3
<1>3. QED
  BY <1>1, <1>2, TableInvariance, PTL DEF Spec

-----------------------------------------------------------------------------
(* RequestReply implements Request *)

OnTheWay == {queue[i] : i \in DOMAIN queue}

(* Every reply on its way was given by its handler, and nothing is done    *)
(* for a request before it is made.                                        *)
AnswerInv ==
    /\ TableInv
    /\ \A m \in OnTheWay : m.kind # "request" => <<m.from, m.kind>> \in answers
    /\ \A m \in OnTheWay : promise[m.from] # "idle"
    /\ \A r \in delayed : promise[r] # "idle"
    /\ \A r \in Request : responder[r].status # "none" => promise[r] # "idle"

LEMMA QueueGrows ==
    ASSUME TypeOK, NEW m \in QueuedMessage, queue' = Append(queue, m)
    PROVE  OnTheWay' \subseteq OnTheWay \cup {m}
<1>1. queue \in Seq(QueuedMessage) /\ Len(queue) \in Nat
  BY QueueTyped, LenProperties
<1>2. /\ Len(queue') = Len(queue) + 1 /\ queue' \in Seq(QueuedMessage)
      /\ \A i \in 1..Len(queue) : queue'[i] = queue[i]
      /\ queue'[Len(queue) + 1] = m
  BY <1>1, AppendProperties
<1>3. DOMAIN queue = 1..Len(queue) /\ DOMAIN queue' = 1..(Len(queue) + 1)
  BY <1>1, <1>2, LenProperties
<1>4. QED
  BY <1>1, <1>2, <1>3 DEF OnTheWay

LEMMA QueueShrinks ==
    ASSUME TypeOK, queue # <<>>, queue' = Tail(queue)
    PROVE  OnTheWay' \subseteq OnTheWay /\ Head(queue) \in OnTheWay
<1>1. queue \in Seq(QueuedMessage) /\ Len(queue) \in Nat /\ DOMAIN queue = 1..Len(queue)
  BY QueueTyped, LenProperties
<1>2. /\ queue' \in Seq(QueuedMessage) /\ Len(queue') = Len(queue) - 1 /\ Len(queue) > 0
      /\ Head(queue) = queue[1]
      /\ \A i \in 1..Len(queue') : queue'[i] = queue[i + 1]
  BY <1>1, HeadTailProperties, EmptySeq
<1>3. DOMAIN queue' = 1..Len(queue')
  BY <1>2, LenProperties
<1>4. QED
  BY <1>1, <1>2, <1>3 DEF OnTheWay

LEMMA InitAnswers == Init => AnswerInv
  BY InitTable DEF Init, AnswerInv, OnTheWay

(* What no step undoes: a request once made is not idle again. *)
LEMMA MadeForGood ==
    ASSUME TableInv, [Next]_vars
    PROVE  /\ \A r \in Request : promise[r] # "idle" => promise'[r] # "idle"
           /\ answers \subseteq answers'
<1>1. promise \in [Request -> {"idle", "pending", "timeout"} \cup ReplyKinds]
  BY DEF TableInv, TypeOK
<1>2. \A r \in Request : promise[r] # "idle" => promise'[r] # "idle"
  <2>1. ASSUME NEW s \in Request, SendWithReply(s) \/ TimeOut(s)
        PROVE  \A r \in Request : promise[r] # "idle" => promise'[r] # "idle"
    BY <1>1, <2>1 DEF SendWithReply, TimeOut, SettleFirst
  <2>2. ASSUME NEW m \in ReplyMessage, ReceiveReply(m)
        PROVE  \A r \in Request : promise[r] # "idle" => promise'[r] # "idle"
    BY <1>1, <2>2, ReplyEffect DEF ReplyMessage, ReplyKinds
  <2>3. \/ UNCHANGED promise
        \/ \E s \in Request : SendWithReply(s) \/ TimeOut(s)
        \/ \E m \in ReplyMessage : ReceiveReply(m)
    BY DEF Next, ReceiveAny, vars, callerVars, CancelToken, CancelSender, DelayElapses,
           EndResponder, Reply, StopListening, ReceiveRequest, ReceiveStray, ReceiveLate
  <2>4. QED
    BY <2>1, <2>2, <2>3
<1>3. answers \subseteq answers'
  BY DEF Next, ReceiveAny, vars, callerVars, replyVars, SendWithReply, TimeOut, CancelToken,
         CancelSender, DelayElapses, EndResponder, Reply, StopListening, ReceiveRequest,
         ReceiveStray, ReceiveLate, ReceiveReply, ReplyArrives
<1>4. QED
  BY <1>2, <1>3

LEMMA NextKeepsAnswers == AnswerInv /\ [Next]_vars => AnswerInv'
<1> SUFFICES ASSUME AnswerInv, [Next]_vars PROVE AnswerInv'
  OBVIOUS
<1> USE DEF callerVars, tokenVars, responderVars, replyVars
<1>1. TableInv /\ TypeOK /\ TableInv' /\ TypeOK'
  BY NextKeepsTable DEF AnswerInv, TableInv
<1>2. /\ \A r \in Request : promise[r] # "idle" => promise'[r] # "idle"
      /\ answers \subseteq answers'
  BY <1>1, MadeForGood
<1>3. \A m \in OnTheWay : m.from \in Request
  <2>1. \A m \in OnTheWay : m \in QueuedMessage
    BY <1>1, QueueTyped, LenProperties DEF OnTheWay
  <2>2. QED
    BY <2>1 DEF QueuedMessage, ReplyMessage, RequestMessage
<1>4. \A m \in OnTheWay' :
        /\ m.kind # "request" => <<m.from, m.kind>> \in answers'
        /\ promise'[m.from] # "idle"
  <2>1. ASSUME NEW x \in QueuedMessage, queue' = Append(queue, x),
               x.kind # "request" => <<x.from, x.kind>> \in answers',
               promise'[x.from] # "idle"
        PROVE  <1>4!:
    BY <1>1, <1>2, <1>3, <2>1, QueueGrows DEF AnswerInv
  <2>2. CASE queue # <<>> /\ queue' = Tail(queue)
    BY <1>1, <1>2, <1>3, <2>2, QueueShrinks DEF AnswerInv
  <2>3. CASE UNCHANGED queue
    BY <1>2, <1>3, <2>3 DEF AnswerInv, OnTheWay
  <2>4. ASSUME NEW r \in Request, SendWithReply(r) \/ DelayElapses(r) PROVE <1>4!:
    <3>1. CASE queue' = Append(queue, RequestMessage(r))
      <4>1. RequestMessage(r) \in QueuedMessage /\ RequestMessage(r).from = r
            /\ RequestMessage(r).kind = "request"
        BY DEF QueuedMessage, RequestMessage
      <4>2. promise'[r] # "idle"
        BY <1>1, <1>2, <2>4 DEF SendWithReply, DelayElapses, AnswerInv, TypeOK
      <4>3. QED
        BY <2>1, <3>1, <4>1, <4>2
    <3>2. QED
      BY <2>3, <2>4, <3>1 DEF SendWithReply, DelayElapses
  <2>5. ASSUME NEW r \in Request, NEW kind \in {"payload", "error"}, Reply(r, kind)
        PROVE  <1>4!:
    <3> DEFINE sent == IF responder[r].wasCancelled THEN "cancelled" ELSE kind
               x == [kind |-> sent, from |-> r, number |-> replies[r] + 1]
    <3>1. replies[r] + 1 \in 1..MaxReplies
      BY <1>1, <2>5 DEF Reply, TypeOK
    <3>2. x \in QueuedMessage /\ x.kind # "request" /\ x.from = r /\ x.kind = sent
      BY <3>1 DEF QueuedMessage, ReplyMessage, ReplyKinds
    <3>3. queue' = Append(queue, x) /\ <<r, sent>> \in answers'
      BY <2>5 DEF Reply
    <3> HIDE DEF x, sent
    <3>4. promise'[r] # "idle"
      BY <1>2, <2>5 DEF Reply, AnswerInv
    <3>5. QED
      BY <2>1, <3>2, <3>3, <3>4
  <2>6. \/ UNCHANGED queue
        \/ queue # <<>> /\ queue' = Tail(queue)
        \/ \E r \in Request : SendWithReply(r) \/ DelayElapses(r)
        \/ \E r \in Request : \E kind \in {"payload", "error"} : Reply(r, kind)
    BY DEF Next, ReceiveAny, vars, TimeOut, CancelToken, CancelSender, EndResponder,
           StopListening, ReceiveRequest, ReceiveStray, ReceiveLate, ReceiveReply, ReplyArrives
  <2>7. QED
    BY <2>2, <2>3, <2>4, <2>5, <2>6
<1>5. \A r \in delayed' : promise'[r] # "idle"
  <2>1. ASSUME NEW r \in Request, SendWithReply(r) PROVE \A s \in delayed' : promise'[s] # "idle"
    BY <1>1, <1>2, <2>1 DEF SendWithReply, AnswerInv, TypeOK
  <2>2. delayed' \subseteq delayed \/ \E r \in Request : SendWithReply(r)
    BY DEF Next, ReceiveAny, vars, TimeOut, CancelToken, CancelSender, DelayElapses,
           EndResponder, Reply, StopListening, ReceiveRequest, ReceiveStray, ReceiveLate,
           ReceiveReply, ReplyArrives
  <2>3. QED
    BY <1>1, <1>2, <2>1, <2>2 DEF AnswerInv, TypeOK
<1>6. \A r \in Request : responder'[r].status # "none" => promise'[r] # "idle"
  <2>1. ASSUME NEW s \in Request, ReceiveRequest(s), NEW r \in Request,
               responder'[r].status # "none"
        PROVE  promise'[r] # "idle"
    <3>1. RequestMessage(s) \in OnTheWay
      BY <1>1, <2>1, QueueShrinks DEF ReceiveRequest
    <3>2. promise[s] # "idle"
      BY <3>1 DEF AnswerInv, RequestMessage
    <3>3. CASE r = s
      BY <1>2, <3>2, <3>3
    <3>4. CASE r # s
      <4>1. responder'[r].status = responder[r].status
        <5>1. /\ AfterCancelling \in [Request -> ResponderRecord]
              /\ AfterCancelling[r].status = responder[r].status
          <6>1. responder \in [Request -> ResponderRecord] /\ latest \in Request \cup {0}
            BY <1>1 DEF TypeOK
          <6>2. CASE latest = 0
            <7>1. AfterCancelling = responder
              BY <6>1, <6>2 DEF AfterCancelling
            <7>2. QED
              BY <6>1, <7>1
          <6>3. CASE latest \in Request
            <7> DEFINE f == [responder EXCEPT ![latest].wasCancelled = TRUE]
            <7>1. f \in [Request -> ResponderRecord]
              BY <6>1, <6>3, ResponderTyped
            <7>2. f[r].status = responder[r].status
              BY <6>1, <6>3 DEF ResponderRecord
            <7>3. AfterCancelling \in {f, responder}
              BY DEF AfterCancelling
            <7>4. QED
              BY <6>1, <7>1, <7>2, <7>3
          <6>4. QED
            BY <6>1, <6>2, <6>3
        <5>2. \/ responder' = responder
              \/ responder' = [AfterCancelling EXCEPT ![s].status = "running"]
          BY <2>1 DEF ReceiveRequest
        <5>3. QED
          <6> HIDE DEF AfterCancelling
          <6>1. QED
            BY <3>4, <5>1, <5>2
      <4>2. QED
        BY <1>2, <2>1, <4>1 DEF AnswerInv
    <3>5. QED
      BY <3>3, <3>4
  <2>2. ASSUME NEW s \in Request, EndResponder(s), NEW r \in Request,
               responder'[r].status # "none"
        PROVE  promise'[r] # "idle"
    <3>1. responder[r].status # "none"
      BY <1>1, <2>2 DEF EndResponder, TypeOK
    <3>2. QED
      BY <1>2, <3>1 DEF AnswerInv
  <2>3. \/ UNCHANGED responder
        \/ \E s \in Request : ReceiveRequest(s) \/ EndResponder(s)
    BY DEF Next, ReceiveAny, vars, SendWithReply, TimeOut, CancelToken, CancelSender,
           DelayElapses, Reply, StopListening, ReceiveStray, ReceiveLate, ReceiveReply,
           ReplyArrives
  <2>4. QED
    BY <1>2, <2>1, <2>2, <2>3 DEF AnswerInv
<1>7. QED
  BY <1>1, <1>4, <1>5, <1>6 DEF AnswerInv

LEMMA AnswerInvariance == Spec => []AnswerInv
  BY InitAnswers, NextKeepsAnswers, PTL DEF Spec

LEMMA ReplyIsAnswer ==
    ASSUME TableInv, NEW r \in Request, NEW kind \in {"payload", "error"}, Reply(r, kind),
           promise[r] # "idle"
    PROVE  Caller!Next
<1>1. promise' = promise /\ tokenCancelled' = tokenCancelled
  BY DEF Reply, callerVars, tokenVars
<1>2. PICK sent \in {"payload", "error", "cancelled"} : answers' = answers \cup {<<r, sent>>}
  BY DEF Reply
<1>3. Caller!Answer(r, sent)
  BY <1>1, <1>2 DEF Caller!Answer
<1>4. QED
  BY <1>2, <1>3 DEF Caller!Next, Caller!AnswerKinds

(* Every step of RequestReply is a step of Request or changes nothing that *)
(* Request speaks of.                                                      *)
LEMMA StepImplements ==
    ASSUME DistinctIds, AnswerInv, [Next]_vars
    PROVE  [Caller!Next]_(Caller!vars)
<1> USE DEF callerVars, tokenVars, responderVars, replyVars
<1>1. TableInv /\ TypeOK
  BY DEF AnswerInv, TableInv
<1>2. ASSUME NEW r \in Request, SendWithReply(r) PROVE Caller!Next
  <2>1. Caller!Ask(r)
    BY <1>2 DEF SendWithReply, Caller!Ask
  <2>2. QED
    BY <2>1 DEF Caller!Next
<1>3. ASSUME NEW r \in Request, TimeOut(r) PROVE Caller!Next
  <2>1. promise[r] = "pending" /\ promise' = [promise EXCEPT ![r] = "timeout"]
        /\ answers' = answers /\ tokenCancelled' = tokenCancelled
    BY <1>1, <1>3 DEF TimeOut, SettleFirst, TableInv, TimerWhilePending
  <2>2. Caller!Settle(r)
    BY <2>1 DEF Caller!Settle, Caller!AnswerKinds
  <2>3. QED
    BY <2>2 DEF Caller!Next
<1>4. ASSUME NEW r \in Request, NEW kind \in {"payload", "error"}, Reply(r, kind)
      PROVE  Caller!Next
  <2>1. promise[r] # "idle"
    BY <1>4 DEF Reply, AnswerInv
  <2>2. QED
    BY <1>1, <1>4, <2>1, ReplyIsAnswer
<1>5. ASSUME NEW m \in ReplyMessage, ReceiveReply(m) PROVE Caller!Next
  <2>1. PICK r \in Request :
          /\ r = m.from
          /\ promise[r] = "pending"
          /\ promise' = [promise EXCEPT ![r] =
                            IF tokenCancelled[r] THEN "cancelled" ELSE m.kind]
    BY <1>1, <1>5, ReplyEffect
  <2>2. m \in OnTheWay
    BY <1>1, <1>5, QueueShrinks DEF ReceiveReply, ReplyArrives
  <2>3. <<r, m.kind>> \in answers
    BY <2>1, <2>2, <1>5 DEF AnswerInv, ReceiveReply, ReplyArrives
  <2>4. /\ answers' = answers /\ tokenCancelled' = tokenCancelled
        /\ m.kind \in {"payload", "error", "cancelled"}
    BY <1>5 DEF ReceiveReply, ReplyArrives, ReplyMessage, ReplyKinds
  <2>5. Caller!Settle(r)
    BY <2>1, <2>3, <2>4 DEF Caller!Settle, Caller!AnswerKinds
  <2>6. QED
    BY <2>5 DEF Caller!Next
<1>6. ASSUME NEW r \in Request, CancelToken(r) PROVE Caller!Next
  <2>1. Caller!Cancel(r)
    BY <1>6 DEF CancelToken, Caller!Cancel
  <2>2. QED
    BY <2>1 DEF Caller!Next
<1>7. \/ UNCHANGED <<promise, tokenCancelled, answers>>
      \/ \E r \in Request : SendWithReply(r) \/ TimeOut(r) \/ CancelToken(r)
      \/ \E r \in Request : \E kind \in {"payload", "error"} : Reply(r, kind)
      \/ \E m \in ReplyMessage : ReceiveReply(m)
  BY DEF Next, ReceiveAny, vars, CancelSender, DelayElapses, EndResponder,
         StopListening, ReceiveRequest, ReceiveStray, ReceiveLate, ReplyArrives
<1>8. QED
  BY <1>2, <1>3, <1>4, <1>5, <1>6, <1>7 DEF Caller!vars

(* When every request has an identifier of its own, the bus gives callers  *)
(* what Request specifies: one settlement, and a payload or an error only  *)
(* when the request's own responder has sent it.                           *)
THEOREM CallerServed == ASSUME DistinctIds PROVE Spec => Caller!Spec
<1>1. Init => Caller!Init
  BY DEF Init, Caller!Init
<1>2. AnswerInv /\ [Next]_vars => [Caller!Next]_(Caller!vars)
  BY StepImplements
<1>3. QED
  BY <1>1, <1>2, AnswerInvariance, PTL DEF Spec, Caller!Spec

-----------------------------------------------------------------------------
(* The first reply of a handler *)

IsReplyOf(m, r) == m.kind # "request" /\ m.from = r

(* The replies of a handler stay in the order they were sent, and each has *)
(* been counted.                                                           *)
RepliesInOrder ==
    /\ \A j, k \in DOMAIN queue :
         \A r \in Request :
            j < k /\ IsReplyOf(queue[j], r) /\ IsReplyOf(queue[k], r) =>
                queue[j].number < queue[k].number
    /\ \A k \in DOMAIN queue :
         \A r \in Request : IsReplyOf(queue[k], r) => queue[k].number \in 1..replies[r]

(* The first reply has not been processed: it has not been sent, or is on  *)
(* its way.                                                                *)
FirstIsAhead(r) == replies[r] = 0 \/ \E m \in OnTheWay : IsReplyOf(m, r) /\ m.number = 1

(* Until the first reply is processed the entry stays, timed out or not.   *)
EntryAwaitsFirst ==
    DistinctIds =>
        \A r \in Request : promise[r] # "idle" /\ FirstIsAhead(r) =>
            messageReplyHandlers[MessageId[r]] = r

FirstReplyInv == AnswerInv /\ RepliesInOrder /\ EntryAwaitsFirst /\ FirstReplyFindsHandler

LEMMA InitFirstReply == Init => FirstReplyInv
  BY InitAnswers DEF Init, FirstReplyInv, RepliesInOrder, EntryAwaitsFirst,
     FirstReplyFindsHandler

LEMMA AppendEffect ==
    ASSUME TypeOK, NEW m \in QueuedMessage, queue' = Append(queue, m)
    PROVE  /\ Len(queue) \in Nat /\ DOMAIN queue = 1..Len(queue)
           /\ DOMAIN queue' = 1..(Len(queue) + 1)
           /\ \A i \in 1..Len(queue) : queue'[i] = queue[i]
           /\ queue'[Len(queue) + 1] = m
<1>1. queue \in Seq(QueuedMessage) /\ Len(queue) \in Nat
  BY QueueTyped, LenProperties
<1>2. /\ Len(queue') = Len(queue) + 1 /\ queue' \in Seq(QueuedMessage)
      /\ \A i \in 1..Len(queue) : queue'[i] = queue[i]
      /\ queue'[Len(queue) + 1] = m
  BY <1>1, AppendProperties
<1>3. QED
  BY <1>1, <1>2, LenProperties

LEMMA TailEffect ==
    ASSUME TypeOK, queue # <<>>, queue' = Tail(queue)
    PROVE  /\ Len(queue) \in Nat /\ DOMAIN queue = 1..Len(queue) /\ Len(queue) > 0
           /\ DOMAIN queue' = 1..(Len(queue) - 1)
           /\ Head(queue) = queue[1]
           /\ \A i \in 1..(Len(queue) - 1) : queue'[i] = queue[i + 1]
<1>1. queue \in Seq(QueuedMessage) /\ Len(queue) \in Nat /\ DOMAIN queue = 1..Len(queue)
  BY QueueTyped, LenProperties
<1>2. /\ queue' \in Seq(QueuedMessage) /\ Len(queue') = Len(queue) - 1 /\ Len(queue) > 0
      /\ Head(queue) = queue[1]
      /\ \A i \in 1..Len(queue') : queue'[i] = queue[i + 1]
  BY <1>1, HeadTailProperties, EmptySeq
<1>3. QED
  BY <1>1, <1>2, LenProperties

(* Sending a request or a reply: a new reply is numbered last. *)
LEMMA AppendKeepsOrder ==
    ASSUME TypeOK, TypeOK', RepliesInOrder, NEW m \in QueuedMessage, queue' = Append(queue, m),
           \A r \in Request : IsReplyOf(m, r) => m.number = replies[r] + 1 /\ replies'[r] = m.number,
           \A r \in Request : ~IsReplyOf(m, r) => replies'[r] = replies[r]
    PROVE  RepliesInOrder' /\ \A r \in Request : FirstIsAhead(r)' => FirstIsAhead(r)
<1>1. /\ Len(queue) \in Nat /\ DOMAIN queue = 1..Len(queue)
      /\ DOMAIN queue' = 1..(Len(queue) + 1)
      /\ \A i \in 1..Len(queue) : queue'[i] = queue[i]
      /\ queue'[Len(queue) + 1] = m
  BY AppendEffect
<1>2. \A r \in Request : replies[r] \in Nat /\ replies'[r] \in Nat
  <2>1. replies \in [Request -> 0..MaxReplies] /\ replies' \in [Request -> 0..MaxReplies]
    BY DEF TypeOK
  <2>2. QED
    BY <2>1
<1>3. ASSUME NEW k \in DOMAIN queue', NEW r \in Request, IsReplyOf(queue'[k], r)
      PROVE  queue'[k].number \in 1..replies'[r]
  <2>1. CASE k \in 1..Len(queue)
    BY <1>1, <1>2, <1>3, <2>1 DEF RepliesInOrder
  <2>2. CASE k = Len(queue) + 1
    BY <1>1, <1>2, <1>3, <2>2
  <2>3. QED
    BY <1>1, <2>1, <2>2
<1>4. ASSUME NEW j \in DOMAIN queue', NEW k \in DOMAIN queue', NEW r \in Request,
             j < k, IsReplyOf(queue'[j], r), IsReplyOf(queue'[k], r)
      PROVE  queue'[j].number < queue'[k].number
  <2>1. CASE k \in 1..Len(queue)
    BY <1>1, <1>4, <2>1 DEF RepliesInOrder
  <2>2. CASE k = Len(queue) + 1
    <3>1. queue'[j] = queue[j] /\ j \in DOMAIN queue /\ queue'[k] = m
      BY <1>1, <1>4, <2>2
    <3>2. queue[j].number \in 1..replies[r]
      BY <1>4, <3>1 DEF RepliesInOrder
    <3>3. QED
      BY <1>2, <1>4, <3>1, <3>2
  <2>3. QED
    BY <1>1, <2>1, <2>2
<1>5. ASSUME NEW r \in Request, FirstIsAhead(r)' PROVE FirstIsAhead(r)
  <2>1. CASE replies'[r] = 0
    BY <1>2, <2>1 DEF FirstIsAhead
  <2>2. CASE \E x \in OnTheWay' : IsReplyOf(x, r) /\ x.number = 1
    <3>1. PICK x \in OnTheWay' : IsReplyOf(x, r) /\ x.number = 1
      BY <2>2
    <3>2. x \in OnTheWay \/ x = m
      BY QueueGrows
    <3>3. QED
      BY <1>2, <3>1, <3>2 DEF FirstIsAhead
  <2>3. QED
    BY <1>5, <2>1, <2>2 DEF FirstIsAhead, IsReplyOf
<1>6. QED
  BY <1>3, <1>4, <1>5 DEF RepliesInOrder, IsReplyOf

(* Taking a message: once a reply is taken, the first one is behind.       *)
LEMMA TailKeepsOrder ==
    ASSUME TypeOK, RepliesInOrder, queue # <<>>, queue' = Tail(queue), replies' = replies
    PROVE  /\ RepliesInOrder'
           /\ \A r \in Request : FirstIsAhead(r)' => FirstIsAhead(r)
           /\ \A r \in Request : IsReplyOf(Head(queue), r) => ~FirstIsAhead(r)'
           /\ \A r \in Request :
                 IsReplyOf(Head(queue), r) /\ Head(queue).number = 1 => FirstIsAhead(r)
<1>1. /\ Len(queue) \in Nat /\ DOMAIN queue = 1..Len(queue) /\ Len(queue) > 0
      /\ DOMAIN queue' = 1..(Len(queue) - 1)
      /\ Head(queue) = queue[1]
      /\ \A i \in 1..(Len(queue) - 1) : queue'[i] = queue[i + 1]
  BY TailEffect
<1>2. RepliesInOrder'
  <2>1. ASSUME NEW k \in DOMAIN queue' PROVE k + 1 \in DOMAIN queue /\ queue'[k] = queue[k + 1]
    BY <1>1
  <2>2. \A j, k \in DOMAIN queue' : j < k => j + 1 < k + 1
    BY <1>1
  <2>3. QED
    BY <2>1, <2>2 DEF RepliesInOrder, IsReplyOf
<1>3. OnTheWay' \subseteq OnTheWay /\ Head(queue) \in OnTheWay
  BY QueueShrinks
<1>4. \A r \in Request : FirstIsAhead(r)' => FirstIsAhead(r)
  BY <1>3 DEF FirstIsAhead, IsReplyOf
<1>5. ASSUME NEW r \in Request, IsReplyOf(Head(queue), r) PROVE ~FirstIsAhead(r)'
  <2>1. queue[1].number \in 1..replies[r] /\ replies[r] \in Nat
    <3>1. queue[1].number \in 1..replies[r]
      BY <1>1, <1>5 DEF RepliesInOrder
    <3>2. replies \in [Request -> 0..MaxReplies]
      BY DEF TypeOK
    <3>3. QED
      BY <3>1, <3>2
  <2>2. ASSUME NEW k \in DOMAIN queue', IsReplyOf(queue'[k], r) PROVE queue'[k].number # 1
    <3>1. k + 1 \in DOMAIN queue /\ queue'[k] = queue[k + 1] /\ 1 \in DOMAIN queue /\ 1 < k + 1
      BY <1>1
    <3>2. queue[1].number < queue[k + 1].number
      BY <1>1, <1>5, <2>2, <3>1 DEF RepliesInOrder
    <3>3. queue[k + 1].number \in 1..replies[r]
      BY <2>2, <3>1 DEF RepliesInOrder
    <3>4. QED
      BY <2>1, <3>1, <3>2, <3>3
  <2>3. QED
    BY <2>1, <2>2 DEF FirstIsAhead, OnTheWay, IsReplyOf
<1>6. QED
  BY <1>2, <1>3, <1>4, <1>5 DEF FirstIsAhead

LEMMA NextKeepsFirstReply == FirstReplyInv /\ [Next]_vars => FirstReplyInv'
<1> SUFFICES ASSUME FirstReplyInv, [Next]_vars PROVE FirstReplyInv'
  OBVIOUS
<1> USE DEF callerVars, tokenVars, responderVars, replyVars
<1>1. AnswerInv /\ TableInv /\ TypeOK /\ AnswerInv' /\ TypeOK'
  BY NextKeepsAnswers DEF FirstReplyInv, AnswerInv, TableInv
<1>2. /\ promise \in [Request -> {"idle", "pending", "timeout"} \cup ReplyKinds]
      /\ messageReplyHandlers \in [Id -> Request \cup {0}]
  BY <1>1 DEF TypeOK
<1>3. ASSUME NEW r \in Request, SendWithReply(r) \/ DelayElapses(r) PROVE FirstReplyInv'
  <2>1. RepliesInOrder' /\ \A s \in Request : FirstIsAhead(s)' => FirstIsAhead(s)
    <3>1. CASE queue' = Append(queue, RequestMessage(r))
      <4>1. RequestMessage(r) \in QueuedMessage /\ RequestMessage(r).kind = "request"
        BY DEF QueuedMessage, RequestMessage
      <4>2. QED
        BY <1>1, <1>3, <3>1, <4>1, AppendKeepsOrder
           DEF IsReplyOf, SendWithReply, DelayElapses, FirstReplyInv
    <3>2. CASE UNCHANGED queue
      BY <1>3, <3>2 DEF SendWithReply, DelayElapses, FirstReplyInv, RepliesInOrder, FirstIsAhead,
                        OnTheWay
    <3>3. QED
      BY <1>3, <3>1, <3>2 DEF SendWithReply, DelayElapses
  <2>2. EntryAwaitsFirst'
    <3>1. CASE SendWithReply(r)
      BY <1>2, <2>1, <3>1 DEF SendWithReply, FirstReplyInv, EntryAwaitsFirst, DistinctIds
    <3>2. CASE DelayElapses(r)
      BY <2>1, <3>2 DEF DelayElapses, FirstReplyInv, EntryAwaitsFirst, DistinctIds
    <3>3. QED
      BY <1>3, <3>1, <3>2
  <2>3. FirstReplyFindsHandler'
    BY <1>3 DEF SendWithReply, DelayElapses, FirstReplyInv, FirstReplyFindsHandler, DistinctIds
  <2>4. QED
    BY <1>1, <2>1, <2>2, <2>3 DEF FirstReplyInv
<1>4. ASSUME NEW r \in Request, NEW kind \in {"payload", "error"}, Reply(r, kind)
      PROVE  FirstReplyInv'
  <2> DEFINE sent == IF responder[r].wasCancelled THEN "cancelled" ELSE kind
             x == [kind |-> sent, from |-> r, number |-> replies[r] + 1]
  <2>1. replies[r] + 1 \in 1..MaxReplies /\ replies \in [Request -> 0..MaxReplies]
    BY <1>1, <1>4 DEF Reply, TypeOK
  <2>2. x \in QueuedMessage /\ x.kind # "request" /\ x.from = r /\ x.number = replies[r] + 1
    BY <2>1 DEF QueuedMessage, ReplyMessage, ReplyKinds
  <2>3. /\ queue' = Append(queue, x)
        /\ replies' = [replies EXCEPT ![r] = @ + 1]
        /\ promise' = promise /\ messageReplyHandlers' = messageReplyHandlers /\ strays' = strays
    BY <1>4 DEF Reply
  <2> HIDE DEF sent, x
  <2>4. RepliesInOrder' /\ \A s \in Request : FirstIsAhead(s)' => FirstIsAhead(s)
    <3>1. \A s \in Request : IsReplyOf(x, s) <=> s = r
      BY <2>2 DEF IsReplyOf
    <3>2. \A s \in Request : s # r => replies'[s] = replies[s]
      BY <2>1, <2>3
    <3>3. replies'[r] = replies[r] + 1
      BY <2>1, <2>3
    <3>4. QED
      BY <1>1, <2>2, <2>3, <3>1, <3>2, <3>3, AppendKeepsOrder DEF FirstReplyInv
  <2>5. EntryAwaitsFirst' /\ FirstReplyFindsHandler'
    BY <2>3, <2>4 DEF FirstReplyInv, EntryAwaitsFirst, FirstReplyFindsHandler, DistinctIds
  <2>6. QED
    BY <1>1, <2>4, <2>5 DEF FirstReplyInv
<1>5. ASSUME NEW r \in Request, ReceiveRequest(r) PROVE FirstReplyInv'
  <2>1. RepliesInOrder' /\ \A s \in Request : FirstIsAhead(s)' => FirstIsAhead(s)
    BY <1>1, <1>5, TailKeepsOrder DEF ReceiveRequest, FirstReplyInv
  <2>2. EntryAwaitsFirst' /\ FirstReplyFindsHandler'
    BY <1>5, <2>1 DEF ReceiveRequest, FirstReplyInv, EntryAwaitsFirst, FirstReplyFindsHandler,
                      DistinctIds
  <2>3. QED
    BY <1>1, <2>1, <2>2 DEF FirstReplyInv
<1>6. ASSUME NEW m \in ReplyMessage, ReceiveStray(m) \/ ReceiveLate(m) \/ ReceiveReply(m)
      PROVE  FirstReplyInv'
  <2>1. /\ queue # <<>> /\ queue' = Tail(queue) /\ Head(queue) = m /\ replies' = replies
        /\ m.kind # "request" /\ m.from \in Request
    BY <1>6 DEF ReceiveStray, ReceiveLate, ReceiveReply, ReplyArrives, ReplyMessage
  <2>2. /\ RepliesInOrder'
        /\ \A s \in Request : FirstIsAhead(s)' => FirstIsAhead(s)
        /\ ~FirstIsAhead(m.from)'
        /\ m.number = 1 => FirstIsAhead(m.from)
    BY <1>1, <2>1, TailKeepsOrder DEF FirstReplyInv, IsReplyOf
  <2>3. promise[m.from] # "idle"
    <3>1. m \in OnTheWay
      BY <1>1, <2>1, QueueShrinks
    <3>2. QED
      BY <1>1, <3>1 DEF AnswerInv
  <2>4. EntryAwaitsFirst'
    <3>1. CASE ReceiveReply(m)
      <4> SUFFICES ASSUME DistinctIds, NEW s \in Request, promise'[s] # "idle", FirstIsAhead(s)'
                   PROVE  messageReplyHandlers'[MessageId[s]] = s
        BY DEF EntryAwaitsFirst, DistinctIds
      <4>1. s # m.from /\ MessageId[s] # MessageId[m.from]
        BY <2>1, <2>2 DEF DistinctIds
      <4>2. promise[s] # "idle" /\ messageReplyHandlers'[MessageId[s]] = messageReplyHandlers[MessageId[s]]
        BY <1>1, <1>2, <3>1, <4>1, ReplyEffect
      <4>3. QED
        BY <2>2, <4>2 DEF FirstReplyInv, EntryAwaitsFirst
    <3>2. CASE UNCHANGED callerVars
      BY <2>2, <3>2 DEF FirstReplyInv, EntryAwaitsFirst, DistinctIds
    <3>3. QED
      BY <1>6, <3>1, <3>2 DEF ReceiveStray, ReceiveLate
  <2>5. FirstReplyFindsHandler'
    <3>1. CASE ReceiveStray(m)
      <4>1. DistinctIds => m.number # 1
        BY <2>1, <2>2, <2>3, <3>1 DEF ReceiveStray, FirstReplyInv, EntryAwaitsFirst
      <4>2. strays' = strays \cup {<<m.from, m.number>>}
        BY <3>1 DEF ReceiveStray
      <4>3. QED
        BY <4>1, <4>2 DEF FirstReplyInv, FirstReplyFindsHandler, DistinctIds
    <3>2. CASE UNCHANGED strays
      BY <3>2 DEF FirstReplyInv, FirstReplyFindsHandler, DistinctIds
    <3>3. QED
      BY <1>6, <3>1, <3>2 DEF ReceiveLate, ReceiveReply
  <2>6. QED
    BY <1>1, <2>2, <2>4, <2>5 DEF FirstReplyInv
<1>7. ASSUME UNCHANGED <<queue, replies, messageReplyHandlers, strays>>,
             \A r \in Request : promise'[r] # "idle" => promise[r] # "idle"
      PROVE  FirstReplyInv'
  BY <1>1, <1>7 DEF FirstReplyInv, RepliesInOrder, EntryAwaitsFirst, FirstReplyFindsHandler,
                    FirstIsAhead, OnTheWay, DistinctIds
<1>8. ASSUME NEW r \in Request, TimeOut(r) PROVE FirstReplyInv'
  <2>1. \A s \in Request : promise'[s] # "idle" => promise[s] # "idle"
    BY <1>2, <1>8 DEF TimeOut, SettleFirst
  <2>2. QED
    BY <1>7, <1>8, <2>1 DEF TimeOut
<1>9. \/ UNCHANGED <<queue, replies, messageReplyHandlers, strays, promise>>
      \/ \E r \in Request : SendWithReply(r) \/ DelayElapses(r) \/ ReceiveRequest(r) \/ TimeOut(r)
      \/ \E r \in Request : \E kind \in {"payload", "error"} : Reply(r, kind)
      \/ \E m \in ReplyMessage : ReceiveStray(m) \/ ReceiveLate(m) \/ ReceiveReply(m)
  BY DEF Next, ReceiveAny, vars, CancelToken, CancelSender, EndResponder, StopListening
<1>10. QED
  BY <1>3, <1>4, <1>5, <1>6, <1>7, <1>8, <1>9

(* When every request has an identifier of its own, the first reply of a   *)
(* handler finds its reply handler, however late it is: the bus fails only *)
(* on a reply that repeats one.                                            *)
THEOREM FirstReplyServed == Spec => []FirstReplyFindsHandler
<1>1. FirstReplyInv => FirstReplyFindsHandler
  BY DEF FirstReplyInv
<1>2. QED
  BY <1>1, InitFirstReply, NextKeepsFirstReply, PTL DEF Spec
=============================================================================
