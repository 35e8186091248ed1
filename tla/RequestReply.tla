---------------------------- MODULE RequestReply ----------------------------
(***************************************************************************)
(* Requests and replies of packages/abus: sendWithReplyAsync, the table of *)
(* reply handlers, the timer every request carries, the cancellation token *)
(* of the caller, replyAsync in a handler that may have been cancelled,    *)
(* and the inbound processing of a reply.                                  *)
(*                                                                         *)
(* One subscription answers the requests, under one of Policies.           *)
(* The two zero-delay timers of a message are one entry of `queue' here:   *)
(* Dispatch shows that they keep the order.                                *)
(***************************************************************************)
EXTENDS Naturals, Sequences

CONSTANTS
    RequestCount,  \* how many requests are made
    Id,            \* message identifiers
    MessageId,     \* metaData.messageId of a request, new or set by the caller
    FromHandler,   \* requests sent through the context of a handler
    Policies,      \* cancellation policies the responder may have
    MaxReplies     \* bound on the calls of replyAsync in one handler

Request == 1..RequestCount

ASSUME RequestAssumption ==
    /\ RequestCount \in Nat
    /\ MessageId \in [Request -> Id]
    /\ FromHandler \subseteq Request
    /\ Policies \subseteq {"none", "cancelExisting", "ignoreIfExisting"}
    /\ MaxReplies \in Nat

VARIABLES
    promise,               \* what the caller sees: idle, pending or how it was settled
    settledBy,             \* history: the request whose reply settled this one, or 0
    messageReplyHandlers,  \* the request registered under an identifier, 0 if none
    timerArmed,            \* replyHandler.timeoutToken is still to fire
    hasTimedOut,           \* replyHandler.hasTimedOut
    tokenCancelled,        \* replyHandler.cancellationToken.wasCancelled
    senderCancelled,       \* wasCancelled of the context that sent the request
    queue,                 \* zero-delay timers: requests and replies on their way
    delayed,               \* requests held by a timer of the transport
    subscription,          \* the policy of the responder's, "gone" when it has none
    isProcessing,          \* its isProcessing
    latest,                \* the request of its context, 0 when undefined
    responder,             \* the handler of each request
    replies,               \* how many replies the handler of a request has sent
    answers,               \* history: the answers given, <<request, kind>>
    strays                 \* history: replies that found no reply handler

callerVars == <<promise, settledBy, messageReplyHandlers, timerArmed, hasTimedOut>>
tokenVars == <<tokenCancelled, senderCancelled>>
responderVars == <<isProcessing, latest, responder>>
replyVars == <<replies, answers>>
vars == <<callerVars, tokenVars, queue, delayed, subscription, responderVars, replyVars, strays>>

RequestMessage(r) == [kind |-> "request", from |-> r, number |-> 0]

Init ==
    /\ promise = [r \in Request |-> "idle"]
    /\ settledBy = [r \in Request |-> 0]
    /\ messageReplyHandlers = [i \in Id |-> 0]
    /\ timerArmed = [r \in Request |-> FALSE]
    /\ hasTimedOut = [r \in Request |-> FALSE]
    /\ tokenCancelled = [r \in Request |-> FALSE]
    /\ senderCancelled = [r \in Request |-> FALSE]
    /\ queue = <<>>
    /\ delayed = {}
    /\ subscription \in Policies
    /\ isProcessing = FALSE
    /\ latest = 0
    /\ responder = [r \in Request |-> [status |-> "none", wasCancelled |-> FALSE]]
    /\ replies = [r \in Request |-> 0]
    /\ answers = {}
    /\ strays = {}

-----------------------------------------------------------------------------
(* The caller *)

(* sendWithReplyAsync; on a cancelled context it throws instead.  The      *)
(* entry of an identifier in use is overwritten.                           *)
SendWithReply(r) ==
    /\ promise[r] = "idle"
    /\ ~senderCancelled[r]
    /\ promise' = [promise EXCEPT ![r] = "pending"]
    /\ messageReplyHandlers' = [messageReplyHandlers EXCEPT ![MessageId[r]] = r]
    /\ timerArmed' = [timerArmed EXCEPT ![r] = TRUE]
    /\ \/ queue' = Append(queue, RequestMessage(r)) /\ UNCHANGED delayed
       \/ delayed' = delayed \cup {r} /\ UNCHANGED queue
    /\ UNCHANGED <<settledBy, hasTimedOut, tokenVars, subscription, responderVars, replyVars, strays>>

(* The caller cancels the token it passed in the options. *)
CancelToken(r) ==
    /\ promise[r] \in {"idle", "pending"}
    /\ ~tokenCancelled[r]
    /\ tokenCancelled' = [tokenCancelled EXCEPT ![r] = TRUE]
    /\ UNCHANGED <<callerVars, senderCancelled, queue, delayed, subscription, responderVars,
                   replyVars, strays>>

(* The request came from a handler, and a newer message cancels it: see    *)
(* AfterCancelling in Dispatch.                                            *)
CancelSender(r) ==
    /\ r \in FromHandler
    /\ ~senderCancelled[r]
    /\ senderCancelled' = [senderCancelled EXCEPT ![r] = TRUE]
    /\ UNCHANGED <<callerVars, tokenCancelled, queue, delayed, subscription, responderVars,
                   replyVars, strays>>

(* A promise is settled by the first call of resolve or reject, and no     *)
(* other call has an effect.                                               *)
SettleFirst(r, calls) ==
    promise' = IF promise[r] = "pending" THEN [promise EXCEPT ![r] = calls[1]] ELSE promise

(* Mutant: the timeout removes the reply handler from the table. *)
TimeOutForgets(r) ==
    /\ timerArmed[r]
    /\ timerArmed' = [timerArmed EXCEPT ![r] = FALSE]
    /\ hasTimedOut' = [hasTimedOut EXCEPT ![r] = TRUE]
    /\ SettleFirst(r, <<"timeout">>)
    /\ messageReplyHandlers' = [messageReplyHandlers EXCEPT ![MessageId[r]] = 0]
    /\ UNCHANGED <<settledBy, tokenVars, queue, delayed, subscription, responderVars, replyVars,
                   strays>>

(* The timer of the request fires.  Its reply handler stays in the table. *)
TimeOut(r) ==
    /\ timerArmed[r]
    /\ timerArmed' = [timerArmed EXCEPT ![r] = FALSE]
    /\ hasTimedOut' = [hasTimedOut EXCEPT ![r] = TRUE]
    /\ SettleFirst(r, <<"timeout">>)
    /\ UNCHANGED <<settledBy, messageReplyHandlers, tokenVars, queue, delayed, subscription,
                   responderVars, replyVars, strays>>

-----------------------------------------------------------------------------
(* The responder *)

DelayElapses(r) ==
    /\ r \in delayed
    /\ delayed' = delayed \ {r}
    /\ queue' = Append(queue, RequestMessage(r))
    /\ UNCHANGED <<callerVars, tokenVars, subscription, responderVars, replyVars, strays>>

StopListening ==
    /\ subscription # "gone"
    /\ subscription' = "gone"
    /\ UNCHANGED <<callerVars, tokenVars, queue, delayed, responderVars, replyVars, strays>>

Refused == isProcessing /\ subscription = "ignoreIfExisting"

AfterCancelling ==
    IF isProcessing /\ subscription = "cancelExisting"
    THEN [responder EXCEPT ![latest].wasCancelled = TRUE]
    ELSE responder

(* A request nobody handles is an error on the bus, one a policy refuses   *)
(* is dropped; the caller hears of neither.                                *)
ReceiveRequest(r) ==
    /\ queue # <<>>
    /\ Head(queue) = RequestMessage(r)
    /\ queue' = Tail(queue)
    /\ IF subscription = "gone" \/ Refused THEN UNCHANGED responderVars
       ELSE /\ responder' = [AfterCancelling EXCEPT ![r].status = "running"]
            /\ isProcessing' = TRUE
            /\ latest' = r
    /\ UNCHANGED <<callerVars, tokenVars, delayed, subscription, replyVars, strays>>

(* context.replyAsync: the reply of a cancelled handler is replaced by a   *)
(* ReplyHandlerCancelledException, which reaches the caller as an error.   *)
(* A handler that returned may still reply, from work it did not await.    *)
Reply(r, kind) ==
    /\ responder[r].status # "none"
    /\ replies[r] < MaxReplies
    /\ LET sent == IF responder[r].wasCancelled THEN "cancelled" ELSE kind IN
         /\ queue' = Append(queue, [kind |-> sent, from |-> r, number |-> replies[r] + 1])
         /\ answers' = answers \cup {<<r, sent>>}
    /\ replies' = [replies EXCEPT ![r] = @ + 1]
    /\ UNCHANGED <<callerVars, tokenVars, delayed, subscription, responderVars, strays>>

(* The handler returns or throws.  Without a reply the caller is left to   *)
(* its timeout.                                                            *)
EndResponder(r) ==
    /\ responder[r].status = "running"
    /\ responder' = [responder EXCEPT ![r].status = "ended"]
    /\ isProcessing' = (isProcessing /\ responder[r].wasCancelled)
    /\ UNCHANGED <<callerVars, tokenVars, queue, delayed, subscription, latest, replyVars, strays>>

-----------------------------------------------------------------------------
(* The reply comes back *)

ReplyArrives(m) ==
    /\ queue # <<>>
    /\ Head(queue) = m
    /\ m.kind # "request"
    /\ queue' = Tail(queue)
    /\ UNCHANGED <<tokenVars, delayed, subscription, responderVars, replyVars>>

(* Mutant: any waiting request takes the reply. *)
AnyHandler(m) ==
    IF \E r \in Request : promise[r] = "pending"
    THEN CHOOSE r \in Request : promise[r] = "pending" ELSE 0

(* The request registered under the replyTo of the reply, 0 if none is. *)
HandlerOf(m) == messageReplyHandlers[MessageId[m.from]]

(* Mutant: the token is asked after the payload has been passed on. *)
PayloadFirst(r, m) ==
    IF tokenCancelled[r] THEN <<m.kind, "cancelled">> ELSE <<m.kind>>

(* The calls of resolve and reject for one reply, in their order: a        *)
(* cancelled token rejects, and the code falls through to the next call.   *)
Calls(r, m) ==
    IF tokenCancelled[r] THEN <<"cancelled", m.kind>> ELSE <<m.kind>>

(* Mutant: no delete. *)
LeaveEntry(i) == UNCHANGED messageReplyHandlers

ClearTimer(r) == timerArmed' = [timerArmed EXCEPT ![r] = FALSE]

RemoveEntry(i) == messageReplyHandlers' = [messageReplyHandlers EXCEPT ![i] = 0]

(* No entry: reading hasTimedOut of undefined throws, an error on the bus. *)
ReceiveStray(m) ==
    /\ ReplyArrives(m)
    /\ HandlerOf(m) = 0
    /\ strays' = strays \cup {<<m.from, m.number>>}
    /\ UNCHANGED callerVars

(* After the timeout nothing is done; the entry stays in the table. *)
ReceiveLate(m) ==
    /\ ReplyArrives(m)
    /\ HandlerOf(m) # 0
    /\ hasTimedOut[HandlerOf(m)]
    /\ UNCHANGED <<callerVars, strays>>

ReceiveReply(m) ==
    LET r == HandlerOf(m) IN
    /\ ReplyArrives(m)
    /\ r # 0
    /\ ~hasTimedOut[r]
    /\ ClearTimer(r)
    /\ SettleFirst(r, Calls(r, m))
    /\ settledBy' = IF promise[r] = "pending" THEN [settledBy EXCEPT ![r] = m.from]
                    ELSE settledBy
    /\ RemoveEntry(MessageId[m.from])
    /\ UNCHANGED <<hasTimedOut, strays>>

-----------------------------------------------------------------------------
ReplyKinds == {"payload", "error", "cancelled"}

ReplyMessage == [kind : ReplyKinds, from : Request, number : 1..MaxReplies]

ReceiveAny ==
    \/ \E r \in Request : ReceiveRequest(r)
    \/ \E m \in ReplyMessage : ReceiveStray(m) \/ ReceiveLate(m) \/ ReceiveReply(m)

Next ==
    \/ \E r \in Request :
         \/ SendWithReply(r) \/ CancelToken(r) \/ CancelSender(r) \/ TimeOut(r)
         \/ DelayElapses(r) \/ EndResponder(r)
         \/ \E kind \in {"payload", "error"} : Reply(r, kind)
    \/ StopListening
    \/ ReceiveAny

Spec == Init /\ [][Next]_vars

(* Timers fire.  Nothing is assumed of the responder. *)
FairSpec ==
    /\ Spec
    /\ WF_vars(ReceiveAny)
    /\ \A r \in Request : WF_vars(TimeOut(r)) /\ WF_vars(DelayElapses(r))

-----------------------------------------------------------------------------
(* Properties *)

ResponderRecord == [status : {"none", "running", "ended"}, wasCancelled : BOOLEAN]

DistinctIds == \A r, s \in Request : MessageId[r] = MessageId[s] => r = s

TypeOK ==
    /\ promise \in [Request -> {"idle", "pending", "timeout"} \cup ReplyKinds]
    /\ settledBy \in [Request -> Request \cup {0}]
    /\ messageReplyHandlers \in [Id -> Request \cup {0}]
    /\ timerArmed \in [Request -> BOOLEAN]
    /\ hasTimedOut \in [Request -> BOOLEAN]
    /\ tokenCancelled \in [Request -> BOOLEAN]
    /\ senderCancelled \in [Request -> BOOLEAN]
    /\ queue \in Seq({RequestMessage(r) : r \in Request} \cup ReplyMessage)
    /\ delayed \subseteq Request
    /\ subscription \in Policies \cup {"gone"}
    /\ isProcessing \in BOOLEAN
    /\ latest \in Request \cup {0}
    /\ responder \in [Request -> ResponderRecord]
    /\ replies \in [Request -> 0..MaxReplies]
    /\ answers \subseteq Request \X ReplyKinds
    /\ strays \subseteq Request \X (1..MaxReplies)

(* The timer of a request runs exactly while its caller waits: no caller   *)
(* waits without one, and none fires for a settled request.  This holds    *)
(* even when two requests share an identifier and one entry is lost.       *)
TimerWhilePending == \A r \in Request : timerArmed[r] <=> promise[r] = "pending"

(* What is left in the table of reply handlers: requests still waiting,    *)
(* and those that timed out, which are never removed.  With identifiers of *)
(* their own all waiting requests are there, so that a reply finds them.   *)
TableAccounted ==
    /\ \A i \in Id :
         LET r == messageReplyHandlers[i]
         IN r # 0 => /\ MessageId[r] = i
                     /\ promise[r] = IF hasTimedOut[r] THEN "timeout" ELSE "pending"
    /\ DistinctIds =>
         \A r \in Request : promise[r] = "pending" => messageReplyHandlers[MessageId[r]] = r

(* A caller never gets the answer to a request of someone else, whatever   *)
(* the order of replies, timeouts and repeated replies - provided every    *)
(* request has an identifier of its own.                                   *)
OwnAnswer == DistinctIds => \A r \in Request : settledBy[r] \in {0, r}

(* The first reply of a handler always finds its reply handler, even when  *)
(* it comes after the timeout; only a repeated reply makes the bus fail.   *)
FirstReplyFindsHandler == DistinctIds => \A r \in Request : <<r, 1>> \notin strays

(* The caller sees what Request promises: one settlement, by an answer     *)
(* given to this very request, by a cancellation or by the timeout, and    *)
(* always one in the end (Bus.ts 227).  Once its token is cancelled no     *)
(* answer settles it, although the code goes on to resolve (354-363).      *)
Caller == INSTANCE Request WITH
    Request <- Request, promise <- promise, tokenCancelled <- tokenCancelled, answers <- answers
CallerFairSpec == Caller!FairSpec
=============================================================================
