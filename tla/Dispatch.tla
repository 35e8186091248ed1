------------------------------ MODULE Dispatch ------------------------------
(***************************************************************************)
(* The path of a message through the bus of packages/abus: sendAsync and   *)
(* publishAsync, the zero-delay timers of both pipelines, the delay of the *)
(* memory transport, the search for subscribers, the loop that hands the   *)
(* message to each of them, the cancellation policy of a subscription and  *)
(* the end of a handler.                                                   *)
(*                                                                         *)
(* JavaScript is single threaded.  A timer callback is one step here; what *)
(* runs after an `await' is a step of its own.  While the loop over the    *)
(* subscribers is suspended at its `await' (loop.msg # 0) only microtasks  *)
(* run - steps of handlers and of the loop - and no other timer fires.     *)
(* Requests and their replies are in RequestReply.                         *)
(***************************************************************************)
EXTENDS Naturals, Sequences, FiniteSets

CONSTANTS
    Type,          \* message types, BusError among them
    BusError,      \* MessageException.type, the type of a published error
    Payload,       \* identities of payload objects
    SubCount,      \* how many subscriptions the program ever makes
    Filter,        \* the message types that match subscription s
    Wildcard,      \* the subscriptions whose filter has a "*"
    Policy,        \* options.cancellationPolicy of subscription s
    Startup,       \* subscriptions 1..Startup are made before any message
    Transient,     \* subscriptions the program removes again
    AppSends,      \* messages the application sends
    HandlerSends,  \* messages handlers send through their context
    MaxMessages    \* bound on the messages sent by application and handlers

(* Subscriptions are numbered in the order they are made: `push' appends   *)
(* and `splice' keeps the order, so this is their order in the array.      *)
Sub == 1..SubCount

Policies == {"none", "cancelExisting", "ignoreIfDuplicate", "ignoreIfExisting"}

(* What a caller decides about a message. *)
Message == [type : Type, intent : {"send", "publish"}, payload : Payload, delayed : BOOLEAN]

ASSUME ConstantsAssumption ==
    /\ BusError \in Type
    /\ SubCount \in Nat
    /\ MaxMessages \in Nat
    /\ Filter \in [Sub -> SUBSET Type]
    /\ Wildcard \subseteq Sub
    /\ \A s \in Sub \ Wildcard : \E t \in Type : Filter[s] = {t}
    /\ Policy \in [Sub -> Policies]
    /\ Startup \in 0..SubCount
    /\ Transient \subseteq Sub
    /\ AppSends \subseteq Message
    /\ HandlerSends \subseteq Message
    /\ Payload # {}

VARIABLES
    created,               \* how many subscriptions have been made
    messageSubscriptions,  \* those in the array now
    isProcessing,          \* subscription.isProcessing
    context,               \* subscription.context, 0 when undefined
    contexts,              \* every MessageHandlerContext made for a handler
    sent,                  \* every message that entered processOutboundMessageAsync
    timers,                \* zero-delay timers, first in first out
    delayTimers,           \* messages held by a timer of the memory transport
    loop,                  \* the suspended loop over subscribers, msg = 0 if none
    lookups,               \* history: the subscribers found, in processing order
    ignored                \* history: what a cancellation policy refused

vars == <<created, messageSubscriptions, isProcessing, context, contexts, sent,
          timers, delayTimers, loop, lookups, ignored>>

subscriptionVars == <<created, messageSubscriptions>>
handlerVars == <<isProcessing, context, contexts>>

NoLoop == [msg |-> 0, pending |-> {}]

Init ==
    /\ created = Startup
    /\ messageSubscriptions = 1..Startup
    /\ isProcessing = [s \in Sub |-> FALSE]
    /\ context = [s \in Sub |-> 0]
    /\ contexts = <<>>
    /\ sent = <<>>
    /\ timers = <<>>
    /\ delayTimers = {}
    /\ loop = NoLoop
    /\ lookups = <<>>
    /\ ignored = {}

-----------------------------------------------------------------------------
(* Sending.  `from' is the context whose handler sent the message (its     *)
(* activeMessage becomes the parentMessage), 0 for the application and the *)
(* bus itself; `about' is the message whose processing an error reports.   *)

Outgoing(message, from, about) ==
    [type |-> message.type, intent |-> message.intent, payload |-> message.payload,
     delayed |-> message.delayed, from |-> from, about |-> about]

(* processOutboundMessageAsync: the pipeline starts in a timer of its own. *)
PutInPipeline(message, queue) ==
    /\ sent' = Append(sent, message)
    /\ timers' = Append(queue, [stage |-> "outbound", msg |-> Len(sent) + 1])

ErrorMessage(from, about) ==
    Outgoing([type |-> BusError, intent |-> "publish",
              payload |-> CHOOSE p \in Payload : TRUE, delayed |-> FALSE], from, about)

Running(c) == c \in DOMAIN contexts /\ contexts[c].status = "running"

(* Running and not cancelled: what the policies keep apart.  It is not what *)
(* lets a handler send: one that returned may do that too, from work it    *)
(* did not await.                                                          *)
Live(c) == Running(c) /\ ~contexts[c].wasCancelled

(* bus.sendAsync and bus.publishAsync. *)
Send(message) ==
    /\ Len(sent) < MaxMessages
    /\ PutInPipeline(Outgoing(message, 0, 0), timers)
    /\ UNCHANGED <<subscriptionVars, handlerVars, delayTimers, loop, lookups, ignored>>

(* Mutant: the test of wasCancelled is missing. *)
SendWhenCancelled(c, message) ==
    /\ Len(sent) < MaxMessages
    /\ PutInPipeline(Outgoing(message, c, 0), timers)
    /\ UNCHANGED <<subscriptionVars, handlerVars, delayTimers, loop, lookups, ignored>>

(* context.sendAsync and context.publishAsync: a call on a cancelled       *)
(* context returns without doing anything.  Nothing asks whether the       *)
(* handler still runs: work it did not await sends after it returned.      *)
SendFromHandler(c, message) ==
    /\ ~contexts[c].wasCancelled
    /\ Len(sent) < MaxMessages
    /\ PutInPipeline(Outgoing(message, c, 0), timers)
    /\ UNCHANGED <<subscriptionVars, handlerVars, delayTimers, loop, lookups, ignored>>

-----------------------------------------------------------------------------
(* bus.subscribe and bus.unsubscribe *)

Subscribe ==
    /\ created < SubCount
    /\ created' = created + 1
    /\ messageSubscriptions' = messageSubscriptions \cup {created + 1}
    /\ UNCHANGED <<handlerVars, sent, timers, delayTimers, loop, lookups, ignored>>

Unsubscribe(s) ==
    /\ s \in messageSubscriptions \cap Transient
    /\ messageSubscriptions' = messageSubscriptions \ {s}
    /\ UNCHANGED <<created, handlerVars, sent, timers, delayTimers, loop, lookups, ignored>>

-----------------------------------------------------------------------------
(* The outbound pipeline: its last task gives the message to the memory    *)
(* transport, which passes it on at once or after its delay; onMessage     *)
(* then starts the inbound processing in another zero-delay timer.         *)

InboundTimer(m) == [stage |-> "inbound", msg |-> m]

(* Mutant: a message with a delay gets no timer. *)
LoseDelayed ==
    /\ loop.msg = 0
    /\ timers # <<>>
    /\ Head(timers).stage = "outbound"
    /\ LET m == Head(timers).msg IN
         timers' = IF sent[m].delayed THEN Tail(timers)
                   ELSE Append(Tail(timers), InboundTimer(m))
    /\ UNCHANGED <<subscriptionVars, handlerVars, sent, delayTimers, loop, lookups, ignored>>

RunOutbound ==
    /\ loop.msg = 0
    /\ timers # <<>>
    /\ Head(timers).stage = "outbound"
    /\ LET m == Head(timers).msg IN
         IF sent[m].delayed
         THEN /\ delayTimers' = delayTimers \cup {m}
              /\ timers' = Tail(timers)
         ELSE /\ timers' = Append(Tail(timers), InboundTimer(m))
              /\ UNCHANGED delayTimers
    /\ UNCHANGED <<subscriptionVars, handlerVars, sent, loop, lookups, ignored>>

DelayElapses(m) ==
    /\ loop.msg = 0
    /\ m \in delayTimers
    /\ delayTimers' = delayTimers \ {m}
    /\ timers' = Append(timers, InboundTimer(m))
    /\ UNCHANGED <<subscriptionVars, handlerVars, sent, loop, lookups, ignored>>

-----------------------------------------------------------------------------
(* The inbound side *)

Exact(s, m) == s \notin Wildcard /\ sent[m].type \in Filter[s]

(* The subscribers of a message: exact matches, and for a published one    *)
(* also the wildcard filters that fit.                                     *)
Subscribers(m) ==
    {s \in messageSubscriptions :
        \/ Exact(s, m)
        \/ s \in Wildcard /\ sent[m].intent = "publish" /\ sent[m].type \in Filter[s]}

(* Exact matches come first, each group in the order of the array. *)
Precedes(s, t, m) ==
    \/ Exact(s, m) /\ ~Exact(t, m)
    \/ (Exact(s, m) <=> Exact(t, m)) /\ s < t

(* Mutant: one order for all, whether the match is exact or not. *)
IsOldest(s, pending, m) == s \in pending /\ \A t \in pending : s <= t

IsNext(s, pending, m) == s \in pending /\ \A t \in pending \ {s} : Precedes(s, t, m)

(* shallowEqual leaves out the metadata and compares the payload by        *)
(* identity; the payload of an error is a new object each time.            *)
SameContent(m, n) ==
    /\ sent[m].type = sent[n].type
    /\ sent[m].payload = sent[n].payload
    /\ m # n => sent[m].type # BusError

(* Mutant: the switch has no case for ignoreIfExisting. *)
RefusesDuplicates(s, m) ==
    /\ isProcessing[s]
    /\ Policy[s] = "ignoreIfDuplicate" /\ SameContent(contexts[context[s]].msg, m)

(* shouldBeCancelled, when it answers true. *)
Refuses(s, m) ==
    /\ isProcessing[s]
    /\ \/ Policy[s] = "ignoreIfExisting"
       \/ Policy[s] = "ignoreIfDuplicate" /\ SameContent(contexts[context[s]].msg, m)

(* Mutant: isProcessing is not asked first. *)
CancelEvenEnded(s) ==
    IF context[s] # 0 /\ Policy[s] = "cancelExisting"
    THEN [contexts EXCEPT ![context[s]].wasCancelled = TRUE]
    ELSE contexts

(* shouldBeCancelled, when it cancels the context of the running handler. *)
AfterCancelling(s) ==
    IF isProcessing[s] /\ Policy[s] = "cancelExisting"
    THEN [contexts EXCEPT ![context[s]].wasCancelled = TRUE]
    ELSE contexts

(* One turn of the loop.  A refusal returns from the whole function: the   *)
(* subscribers not yet reached are dropped.  Otherwise the handler starts: *)
(* processInboundMessage runs up to the first await of the handler.        *)
HandTo(s, m, pending) ==
    IF Refuses(s, m)
    THEN /\ ignored' = ignored \cup {<<s, m>>}
         /\ loop' = NoLoop
         /\ UNCHANGED handlerVars
    ELSE /\ contexts' = Append(AfterCancelling(s),
                               [sub |-> s, msg |-> m, status |-> "running",
                                wasCancelled |-> FALSE])
         /\ context' = [context EXCEPT ![s] = Len(contexts) + 1]
         /\ isProcessing' = [isProcessing EXCEPT ![s] = TRUE]
         /\ loop' = IF pending = {s} THEN NoLoop
                    ELSE [msg |-> m, pending |-> pending \ {s}]
         /\ UNCHANGED ignored

InboundReady(m) ==
    /\ loop.msg = 0
    /\ timers # <<>>
    /\ Head(timers) = InboundTimer(m)
    /\ lookups' = Append(lookups, [msg |-> m, subs |-> Subscribers(m)])

(* Mutant: nobody checks that there is a subscriber. *)
SeveralSubscribers(m) == sent[m].intent = "send" /\ Cardinality(Subscribers(m)) > 1

BadCommand(m) == sent[m].intent = "send" /\ Cardinality(Subscribers(m)) # 1

(* A command without exactly one subscriber: the catch publishes an error. *)
RejectCommand(m) ==
    /\ InboundReady(m)
    /\ BadCommand(m)
    /\ PutInPipeline(ErrorMessage(0, m), Tail(timers))
    /\ UNCHANGED <<subscriptionVars, handlerVars, delayTimers, loop, ignored>>

NobodyListens(m) ==
    /\ InboundReady(m)
    /\ ~BadCommand(m)
    /\ Subscribers(m) = {}
    /\ timers' = Tail(timers)
    /\ UNCHANGED <<subscriptionVars, handlerVars, sent, delayTimers, loop, ignored>>

StartLoop(m, s) ==
    /\ InboundReady(m)
    /\ ~BadCommand(m)
    /\ IsNext(s, Subscribers(m), m)
    /\ timers' = Tail(timers)
    /\ HandTo(s, m, Subscribers(m))
    /\ UNCHANGED <<subscriptionVars, sent, delayTimers>>

ContinueLoop(s) ==
    /\ loop.msg # 0
    /\ IsNext(s, loop.pending, loop.msg)
    /\ HandTo(s, loop.msg, loop.pending)
    /\ UNCHANGED <<subscriptionVars, sent, timers, delayTimers, lookups>>

-----------------------------------------------------------------------------
(* Mutants: the flag is not reset; it is reset for a cancelled handler too. *)
EndKeepsFlag(c, status) ==
    /\ Running(c)
    /\ contexts' = [contexts EXCEPT ![c].status = status]
    /\ UNCHANGED <<subscriptionVars, isProcessing, context, delayTimers, loop, lookups, ignored>>
EndResetsAlways(c, status) ==
    /\ Running(c)
    /\ contexts' = [contexts EXCEPT ![c].status = status]
    /\ isProcessing' = [isProcessing EXCEPT ![contexts[c].sub] = FALSE]
    /\ UNCHANGED <<subscriptionVars, context, delayTimers, loop, lookups, ignored>>

(* The end of a handler: the `finally' of AutoCancellationTask leaves the  *)
(* flag alone when the context was cancelled, for a newer handler owns it. *)
End(c, status) ==
    /\ Running(c)
    /\ contexts' = [contexts EXCEPT ![c].status = status]
    /\ isProcessing' = IF contexts[c].wasCancelled THEN isProcessing
                       ELSE [isProcessing EXCEPT ![contexts[c].sub] = FALSE]
    /\ UNCHANGED <<subscriptionVars, context, delayTimers, loop, lookups, ignored>>

Complete(c) ==
    /\ End(c, "done")
    /\ UNCHANGED <<sent, timers>>

(* MessageExceptionTask publishes the error through the context, so that   *)
(* the error of a cancelled handler is dropped.                            *)
Fail(c) ==
    /\ End(c, "failed")
    /\ IF contexts[c].wasCancelled THEN UNCHANGED <<sent, timers>>
       ELSE /\ Len(sent) < MaxMessages
            /\ PutInPipeline(ErrorMessage(c, contexts[c].msg), timers)

-----------------------------------------------------------------------------
RunInbound(m) ==
    RejectCommand(m) \/ NobodyListens(m) \/ \E s \in Sub : StartLoop(m, s)

Next ==
    \/ \E message \in AppSends : Send(message)
    \/ \E c \in DOMAIN contexts :
         \/ \E message \in HandlerSends : SendFromHandler(c, message)
         \/ Complete(c)
         \/ Fail(c)
    \/ Subscribe
    \/ \E s \in Sub : Unsubscribe(s)
    \/ RunOutbound
    \/ \E m \in DOMAIN sent : DelayElapses(m) \/ RunInbound(m)
    \/ \E s \in Sub : ContinueLoop(s)

(* The host keeps running timers and microtasks; a handler may never end.  *)
(* A rejected command adds an error to the bounded messages, hence 2 *.    *)
Fairness ==
    /\ WF_vars(RunOutbound)
    /\ WF_vars(\E m \in DOMAIN sent : RunInbound(m))
    /\ WF_vars(\E s \in Sub : ContinueLoop(s))
    /\ \A m \in 1..(2 * MaxMessages) : WF_vars(DelayElapses(m))

Spec == Init /\ [][Next]_vars

FairSpec == Spec /\ Fairness

-----------------------------------------------------------------------------
(* Properties *)

MessageIds == 1..Len(sent)

ContextRecord == [sub : Sub, msg : MessageIds, status : {"running", "done", "failed"},
                  wasCancelled : BOOLEAN]

MessageRecord == [type : Type, intent : {"send", "publish"}, payload : Payload,
                  delayed : BOOLEAN, from : 0..Len(contexts), about : 0..Len(sent)]

TimerRecord == [stage : {"outbound", "inbound"}, msg : MessageIds]

LoopRecord == [msg : MessageIds \cup {0}, pending : SUBSET Sub]

LookupRecord == [msg : MessageIds, subs : SUBSET Sub]

(* The types of all variables; identifiers point at what exists. *)
TypeOK ==
    /\ created \in 0..SubCount
    /\ messageSubscriptions \subseteq 1..created
    /\ isProcessing \in [Sub -> BOOLEAN]
    /\ context \in [Sub -> 0..Len(contexts)]
    /\ contexts \in Seq(ContextRecord)
    /\ sent \in Seq(MessageRecord)
    /\ timers \in Seq(TimerRecord)
    /\ delayTimers \subseteq MessageIds
    /\ loop \in LoopRecord
    /\ lookups \in Seq(LookupRecord)
    /\ ignored \subseteq Sub \X MessageIds

SameSubscription(c, d) == contexts[c].sub = contexts[d].sub

(* A subscription with ignoreIfExisting never has two handlers running,    *)
(* however messages, ends and failures interleave (Bus.ts 428-431).        *)
IgnoreExistingExclusive ==
    \A c, d \in DOMAIN contexts :
        /\ Policy[contexts[c].sub] = "ignoreIfExisting"
        /\ SameSubscription(c, d)
        /\ Running(c) /\ Running(d)
        => c = d

(* A subscription with cancelExisting has at most one handler that is      *)
(* running and not cancelled (Bus.ts 420-424 with AutoCancellationTask).   *)
OneLiveHandler ==
    \A c, d \in DOMAIN contexts :
        /\ Policy[contexts[c].sub] = "cancelExisting"
        /\ SameSubscription(c, d)
        /\ Live(c) /\ Live(d)
        => c = d

(* A subscription marked as processing has a live handler, the newest one: *)
(* the flag never stays set behind the last handler, so that a policy that *)
(* ignores messages cannot shut the subscription for good.                 *)
NeverLockedOut ==
    \A s \in Sub :
        isProcessing[s] => /\ Live(context[s])
                           /\ contexts[context[s]].sub = s

(* With cancelExisting an older handler speaks after a newer one of its    *)
(* subscription only if it returned, uncancelled, before the newer one     *)
(* began: then nothing cancels it and work it did not await still sends.   *)
(* A handler the newer one found running adds nothing any more, not even   *)
(* its error, whenever its work ends (MessageHandlerContext.ts 55-77).     *)
LateSpeakersHadEnded ==
    \A i, j \in DOMAIN sent :
        LET newer == sent[i].from
            older == sent[j].from
        IN /\ i < j /\ 0 < older /\ older < newer
           /\ SameSubscription(older, newer)
           /\ Policy[contexts[older].sub] = "cancelExisting"
           => ~Running(older) /\ ~contexts[older].wasCancelled

(* No subscription gets the same message twice, whatever timers and loops  *)
(* did with it on its way.                                                 *)
AtMostOnceDelivery ==
    \A c, d \in DOMAIN contexts :
        SameSubscription(c, d) /\ contexts[c].msg = contexts[d].msg => c = d

(* Messages that are not delayed are processed in the order they were      *)
(* sent: two timers each keep the order, and only delayed ones overtake or *)
(* are overtaken.                                                          *)
SendOrderKept ==
    \A i, j \in DOMAIN lookups :
        /\ i < j
        /\ ~sent[lookups[i].msg].delayed /\ ~sent[lookups[j].msg].delayed
        => lookups[i].msg < lookups[j].msg

Reached(s, m) == \E c \in DOMAIN contexts : contexts[c].sub = s /\ contexts[c].msg = m

(* What an event that has been processed reached: every subscriber found,  *)
(* or, if a policy refused it, exactly the subscribers before that one.    *)
ReachedUpToRefusal ==
    \A k \in DOMAIN lookups :
        LET m == lookups[k].msg
            subs == lookups[k].subs
        IN sent[m].intent = "publish" /\ loop.msg # m =>
             \/ \A s \in subs : Reached(s, m)
             \/ \E r \in subs : /\ <<r, m>> \in ignored
                               /\ \A s \in subs : Reached(s, m) <=> Precedes(s, r, m)

(* Bus.ts 326-402: an event reaches its subscribers once each, in the order *)
(* of the sends, and is held back by a refusal only.                       *)
DeliveredOnceInOrder == AtMostOnceDelivery /\ SendOrderKept /\ ReachedUpToRefusal

(* A command has exactly one outcome once it is processed, and none        *)
(* before: one handler got it, one policy ignored it, or the bus published *)
(* one error about it.                                                     *)
CommandHasOneOutcome ==
    \A m \in DOMAIN sent :
        sent[m].intent = "send" =>
            Cardinality({c \in DOMAIN contexts : contexts[c].msg = m})
              + Cardinality({s \in Sub : <<s, m>> \in ignored})
              + Cardinality({n \in DOMAIN sent : sent[n].about = m /\ sent[n].from = 0})
            = IF \E k \in DOMAIN lookups : lookups[k].msg = m THEN 1 ELSE 0

(* A context is cancelled only while its handler runs, and only by the     *)
(* step that starts a newer handler of the same subscription.              *)
CancelledOnlyByNewer ==
    [][\A c \in DOMAIN contexts :
          ~contexts[c].wasCancelled /\ contexts'[c].wasCancelled =>
              /\ Running(c)
              /\ Len(contexts') = Len(contexts) + 1
              /\ contexts'[Len(contexts')].sub = contexts[c].sub
              /\ Policy[contexts[c].sub] = "cancelExisting"]_vars

(* Every message sent is processed, delayed or not: nothing starves in the *)
(* timers and no loop over subscribers holds them up for ever.             *)
EveryMessageProcessed ==
    \A m \in 1..(2 * MaxMessages) :
        m \in DOMAIN sent ~> \E k \in DOMAIN lookups : lookups[k].msg = m

(* Bus.ts 392: a refused message is ignored `for this subscription'; every *)
(* other subscriber of the event still gets it.                            *)
IgnoredForThisSubscriptionOnly ==
    \A k \in DOMAIN lookups :
        LET m == lookups[k].msg
        IN sent[m].intent = "publish" /\ loop.msg # m =>
             \A s \in lookups[k].subs : Reached(s, m) \/ <<s, m>> \in ignored
=============================================================================
