------------------------------ MODULE Pipelines ------------------------------
(***************************************************************************)
(* How a bus is configured with transports, routes and tasks, and what the *)
(* pipelines write on messages: the identifiers of MessageTracingTask, the *)
(* tag receivedBy, the copies made for several subscribers, the route of a *)
(* reply.  Messages are objects: one that is sent again, or handed to a    *)
(* single subscriber, is the same object (Dispatch treats their timing and *)
(* the cancellation policies, of which it matters here that a cancelled    *)
(* handler sends nothing, not even that it failed).                        *)
(***************************************************************************)
EXTENDS Naturals, FiniteSets, SequencesExt

CONSTANTS
    Type,          \* message types; BusError is one
    BusError,      \* MessageException.type
    ReplyType,     \* ReplyType[t]: t with ".reply" after it
    Subscribers,   \* Subscribers[t]: identifiers of its subscriptions, in order
    Unidentified,  \* a subscription without an identifier, a value that is undefined
    Cancelling,    \* subscriptions with cancelExisting: <<type, number>>
    Uses,          \* tasks a program may add: <<stage, task>>
    OwnRoutes,     \* types a program may route to a transport of its own
    AppIntents,    \* <<type, intent>> the application may send
    HandlerIntents,\* <<type, intent>> handlers may send
    MaxTransports, MaxSends  \* bounds

Stages == {"outLogical", "outDispatch", "inTransport", "inLogical", "inInvoke"}
Tasks == {"trace", "exception", "stop"}
Replies == {ReplyType[t] : t \in Type}
Routable == Type \cup Replies \cup {"*"}

ASSUME PipelinesAssumption ==
    /\ BusError \in Type
    /\ Subscribers \in [Type -> Seq(STRING)]
    /\ Unidentified \in STRING
    /\ DOMAIN ReplyType = Type
    /\ \A t, u \in Type : ReplyType[t] = ReplyType[u] => t = u
    /\ "*" \notin Type \cup Replies
    /\ Cancelling \subseteq Type \X Nat
    /\ Uses \subseteq Stages \X Tasks
    /\ \A use \in Uses : use[2] = "trace" => use[1] \in {"outLogical", "outDispatch"}
    /\ OwnRoutes \subseteq Routable
    /\ AppIntents \cup HandlerIntents \subseteq Type \X {"publish", "send", "sendReply"}
    /\ {MaxTransports, MaxSends} \subseteq Nat

VARIABLES
    transports,  \* the pipelines of the registered transports
    routes,      \* registeredMessageTypes, 0 when undefined
    default,     \* the transport start() added, 0 if none
    started,
    objects,     \* message objects with their metaData
    sends,       \* every call that put a message into the outbound pipeline
    timers,      \* zero-delay timers, first in first out
    contexts,    \* handlers that were reached
    cancelled,   \* those of them whose context has wasCancelled
    guids        \* how many identifiers were drawn

vars == <<transports, routes, default, started, objects, sends, timers, contexts, cancelled, guids>>
configuration == <<transports, default, started>>

NoTasks == [s \in Stages |-> <<>>]

Init ==
    /\ transports = <<>>
    /\ routes = [r \in Routable |-> 0]
    /\ default = 0
    /\ started = FALSE
    /\ objects = <<>>
    /\ sends = <<>>
    /\ timers = <<>>
    /\ contexts = <<>>
    /\ cancelled = {}
    /\ guids = 0

-----------------------------------------------------------------------------
(* Configuration, before the first message.  A transport that does not     *)
(* exist and a route that does are errors that end the program.            *)
Configuring == sends = <<>> /\ UNCHANGED <<objects, sends, timers, contexts, cancelled, guids>>

(* bus.usingTransport(transport).withMessageTypes(type) *)
UsingTransport(r) ==
    /\ Configuring
    /\ Len(transports) < MaxTransports
    /\ routes[r] = 0
    /\ transports' = Append(transports, NoTasks)
    /\ routes' = [routes EXCEPT ![r] = Len(transports) + 1]
    /\ UNCHANGED <<default, started>>

(* usingRegisteredTransportToMessageType(r) and one of the useXTasks. *)
UseTask(r, use) ==
    /\ Configuring
    /\ routes[r] # 0
    /\ use[2] \notin ToSet(transports[routes[r]][use[1]])
    /\ transports' = [transports EXCEPT ![routes[r]][use[1]] = Append(@, use[2])]
    /\ UNCHANGED <<routes, default, started>>

(* Mutant: only errors of the outbound pipeline are caught. *)
StartOutboundOnly ==
    /\ Configuring
    /\ ~started
    /\ started' = TRUE
    /\ IF routes["*"] = 0
       THEN /\ transports' = Append(transports, [NoTasks EXCEPT !["outLogical"] = <<"exception">>])
            /\ routes' = [routes EXCEPT !["*"] = Len(transports) + 1]
            /\ default' = Len(transports) + 1
       ELSE UNCHANGED <<transports, routes, default>>

(* bus.start: a default transport that publishes errors, unless the        *)
(* program has one.                                                        *)
Start ==
    /\ Configuring
    /\ ~started
    /\ started' = TRUE
    /\ IF routes["*"] = 0
       THEN /\ transports' = Append(transports, [NoTasks EXCEPT !["outLogical"] = <<"exception">>,
                                                                !["inLogical"] = <<"exception">>])
            /\ routes' = [routes EXCEPT !["*"] = Len(transports) + 1]
            /\ default' = Len(transports) + 1
       ELSE UNCHANGED <<transports, routes, default>>

getTransport(r) == IF routes[r] # 0 THEN routes[r] ELSE routes["*"]

(* The tasks before the last one, in the order of their stages. *)
Outbound(t) == transports[t]["outLogical"] \o transports[t]["outDispatch"]
Inbound(t) == transports[t]["inTransport"] \o transports[t]["inLogical"] \o transports[t]["inInvoke"]

(* A task that calls DoNotContinueDispatchingCurrentMessageToHandlers ends *)
(* the pipeline: the next task is never invoked.                           *)
Invoked(tasks) ==
    {tasks[k] : k \in {n \in DOMAIN tasks : \A j \in 1..(n - 1) : tasks[j] # "stop"}}

-----------------------------------------------------------------------------
(* Sending.  from is the context of the handler that sends, 0 for the      *)
(* application: its active message is the parent.                          *)
Parent(from) == IF from = 0 THEN 0 ELSE contexts[from].object

NewObject(r, intent, id, replyTo) ==
    [type |-> r, intent |-> intent, id |-> id, conversation |-> 0, correlation |-> 0,
     sentBy |-> Unidentified, receivedBy |-> Unidentified, replyTo |-> replyTo]

(* processOutboundMessageAsync: the transport is chosen at once. *)
PutInPipeline(o, r, from) ==
    /\ getTransport(r) # 0
    /\ sends' = Append(sends, [object |-> o, from |-> from, transport |-> getTransport(r), type |-> r])
    /\ timers' = Append(timers, [stage |-> "outbound", send |-> Len(sends) + 1])

(* Mutant: the reply keeps to the default transport. *)
LeaveReply(type) == routes

(* sendWithReplyAsync: the reply takes the transport of the request. *)
RouteReply(type) ==
    IF routes[ReplyType[type]] = 0 THEN [routes EXCEPT ![ReplyType[type]] = routes[type]] ELSE routes

(* sendAsync, publishAsync and sendWithReplyAsync of bus and context. *)
SendNew(type, intent, from) ==
    LET request == intent = "sendReply"
    IN  /\ Len(sends) < MaxSends
        /\ objects' = Append(objects, NewObject(type, intent, IF request THEN guids + 1 ELSE 0, 0))
        /\ guids' = IF request THEN guids + 1 ELSE guids
        /\ routes' = IF request THEN RouteReply(type) ELSE routes
        /\ PutInPipeline(Len(objects) + 1, type, from)
        /\ UNCHANGED <<configuration, contexts, cancelled>>

(* The application sends the same object again: applyIntent keeps the      *)
(* intent it was first sent with.                                          *)
SendAgain(o) ==
    /\ Len(sends) < MaxSends
    /\ objects[o].intent \in {"send", "publish"}
    /\ \E n \in DOMAIN sends : sends[n].object = o /\ sends[n].from = 0
    /\ PutInPipeline(o, objects[o].type, 0)
    /\ UNCHANGED <<configuration, routes, objects, contexts, cancelled, guids>>

(* Mutant: the correlation is inherited instead of the identifier. *)
TracedFlat(m, parent, next) ==
    [m EXCEPT
        !.id = IF @ # 0 THEN @ ELSE next,
        !.conversation = IF parent # 0 THEN objects[parent].conversation ELSE next + 1,
        !.correlation = IF @ # 0 \/ parent = 0 THEN @ ELSE objects[parent].correlation,
        !.sentBy = IF @ # Unidentified \/ parent = 0 THEN @ ELSE objects[parent].receivedBy]

(* MessageTracingTask; next is the first identifier not drawn yet. *)
Traced(m, parent, next) ==
    [m EXCEPT
        !.id = IF @ # 0 THEN @ ELSE next,
        !.conversation = IF parent # 0 THEN objects[parent].conversation ELSE next + 1,
        !.correlation = IF @ # 0 \/ parent = 0 THEN @ ELSE objects[parent].id,
        !.sentBy = IF @ # Unidentified \/ parent = 0 THEN @ ELSE objects[parent].receivedBy]

(* The timer of processOutboundMessageAsync; a transport hands the message *)
(* back to the bus, which sets the next timer.                             *)
RunOutbound ==
    LET s     == sends[Head(timers).send]
        tasks == Outbound(s.transport)
    IN  /\ timers # <<>>
        /\ Head(timers).stage = "outbound"
        /\ IF "trace" \in Invoked(tasks)
           THEN /\ objects' = [objects EXCEPT ![s.object] = Traced(@, Parent(s.from), guids + 1)]
                /\ guids' = guids + 2
           ELSE UNCHANGED <<objects, guids>>
        /\ timers' = Tail(timers) \o
             IF "stop" \in ToSet(tasks) THEN <<>> ELSE <<[Head(timers) EXCEPT !.stage = "inbound"]>>
        /\ UNCHANGED <<configuration, routes, sends, contexts, cancelled>>

-----------------------------------------------------------------------------
(* The tag of the k-th subscriber's message: its identifier, or what the   *)
(* message was tagged with before.                                         *)
Tag(m, subs, k) ==
    LET named == {j \in 1..k : subs[j] # Unidentified}
    IN  IF named = {} THEN m.receivedBy ELSE subs[CHOOSE j \in named : \A i \in named : i <= j]

(* Mutant: the subscribers share the message. *)
HandObject(n, o, subs) ==
    /\ objects' = [objects EXCEPT ![o].receivedBy = Tag(objects[o], subs, Len(subs))]
    /\ contexts' = contexts \o [k \in DOMAIN subs |->
         [object |-> o, send |-> n, subscriber |-> k, transport |-> getTransport(objects[o].type),
          status |-> IF "stop" \in ToSet(Inbound(getTransport(objects[o].type))) THEN "stopped" ELSE "running"]]

(* The loop over the subscribers: the tag is written on the message, of    *)
(* which each of several subscribers gets a copy, and a pipeline starts in *)
(* the transport its type has now.                                         *)
HandTo(n, o, subs) ==
    LET m      == objects[o]
        t      == getTransport(m.type)
        tagged == [k \in DOMAIN subs |-> [m EXCEPT !.receivedBy = Tag(m, subs, k)]]
        copies == Len(subs) > 1
    IN  /\ objects' = [objects EXCEPT ![o].receivedBy = Tag(m, subs, Len(subs))]
                        \o (IF copies THEN tagged ELSE <<>>)
        /\ contexts' = contexts \o [k \in DOMAIN subs |->
             [object |-> IF copies THEN Len(objects) + k ELSE o, send |-> n, subscriber |-> k,
              transport |-> t,
              status |-> IF "stop" \in ToSet(Inbound(t)) THEN "stopped" ELSE "running"]]

SubscriptionOf(c) == <<sends[contexts[c].send].type, contexts[c].subscriber>>

(* The contexts a new message of a type may cancel: the newest of each     *)
(* subscription with cancelExisting.  It does so while isProcessing holds, *)
(* which depends on when the handlers end (see Dispatch).                  *)
Superseded(type) ==
    {c \in DOMAIN contexts :
        /\ contexts[c].status = "running"
        /\ SubscriptionOf(c)[1] = type
        /\ SubscriptionOf(c) \in Cancelling
        /\ \A d \in DOMAIN contexts : d > c => SubscriptionOf(d) # SubscriptionOf(c)}

(* processInboundHandlers: a reply goes to the waiting request (see        *)
(* RequestReply), a command that has no single subscriber becomes an       *)
(* error, anything else goes to its subscribers.                           *)
RunInbound ==
    LET n    == Head(timers).send
        o    == sends[n].object
        m    == objects[o]
    IN  /\ timers # <<>>
        /\ Head(timers).stage = "inbound"
        /\ \/ /\ m.intent = "reply"
              /\ timers' = Tail(timers)
              /\ UNCHANGED <<objects, contexts, cancelled, sends>>
           \/ /\ m.intent \in {"send", "sendReply"}
              /\ Len(Subscribers[m.type]) # 1
              /\ objects' = Append(objects, NewObject(BusError, "publish", 0, 0))
              /\ sends' = Append(sends, [object |-> Len(objects) + 1, from |-> 0,
                                         transport |-> getTransport(BusError), type |-> BusError])
              /\ timers' = Append(Tail(timers), [stage |-> "outbound", send |-> Len(sends) + 1])
              /\ UNCHANGED <<contexts, cancelled>>
           \/ /\ m.intent = "publish" \/ (m.intent \in {"send", "sendReply"} /\ Len(Subscribers[m.type]) = 1)
              /\ HandTo(n, o, Subscribers[m.type])
              /\ \E gone \in SUBSET Superseded(m.type) : cancelled' = cancelled \cup gone
              /\ timers' = Tail(timers)
              /\ UNCHANGED sends
        /\ UNCHANGED <<configuration, routes, guids>>

-----------------------------------------------------------------------------
(* A handler may send when it has returned, or failed, with work it did    *)
(* not wait for.                                                           *)
Entered(c) == contexts[c].status # "stopped"

(* publishAsync, sendAsync and sendWithReplyAsync of the context. *)
SendFromHandler(c, use) == Entered(c) /\ c \notin cancelled /\ SendNew(use[1], use[2], c)

(* context.replyAsync; the reply of a cancelled handler is an exception. *)
ReplyFrom(c) ==
    LET m == objects[contexts[c].object]
    IN  /\ Entered(c)
        /\ m.intent = "sendReply"
        /\ Len(sends) < MaxSends
        /\ objects' = Append(objects, NewObject(ReplyType[m.type], "reply", 0, m.id))
        /\ PutInPipeline(Len(objects) + 1, ReplyType[m.type], c)
        /\ UNCHANGED <<configuration, routes, contexts, cancelled, guids>>

(* A handler raises an error: MessageExceptionTask publishes it through    *)
(* the handler's context, which does nothing when it was cancelled;        *)
(* without that task nobody is told.                                       *)
Fail(c) ==
    /\ contexts[c].status = "running"
    /\ Len(sends) < MaxSends
    /\ contexts' = [contexts EXCEPT ![c].status = "failed"]
    /\ IF "exception" \in ToSet(Inbound(contexts[c].transport)) /\ c \notin cancelled
       THEN /\ objects' = Append(objects, NewObject(BusError, "publish", 0, 0))
            /\ PutInPipeline(Len(objects) + 1, BusError, c)
       ELSE UNCHANGED <<objects, sends, timers>>
    /\ UNCHANGED <<configuration, routes, cancelled, guids>>

(* What does not take a message through the outbound pipeline. *)
Otherwise ==
    \/ \E r \in OwnRoutes : UsingTransport(r)
    \/ \E r \in OwnRoutes \cup {"*"}, use \in Uses : UseTask(r, use)
    \/ Start
    \/ \E use \in AppIntents : started /\ SendNew(use[1], use[2], 0)
    \/ \E o \in DOMAIN objects : SendAgain(o)
    \/ RunInbound
    \/ \E c \in DOMAIN contexts, use \in HandlerIntents : SendFromHandler(c, use)
    \/ \E c \in DOMAIN contexts : ReplyFrom(c) \/ Fail(c)

Next == RunOutbound \/ Otherwise

Spec == Init /\ [][Next]_vars

-----------------------------------------------------------------------------
(* The identifier of the k-th subscriber, or of the last before it that    *)
(* has one.                                                                *)
NameOf(subs, k) == Tag([receivedBy |-> Unidentified], subs, k)

(* Bus.ts 397-401, MessageTracingTask.ts 18-20: a message from a handler   *)
(* names that handler as its sender, however many subscribers share the    *)
(* event and whenever it is traced.  A handler without an identifier is    *)
(* taken for one that was reached before it by the same event or, if there *)
(* is none, for the last that was reached when the same object was         *)
(* published before.                                                       *)
SentByItsHandler ==
    \A n \in DOMAIN sends :
        LET c == sends[n].from IN c # 0 =>
            LET subs == Subscribers[sends[contexts[c].send].type]
                name == NameOf(subs, contexts[c].subscriber)
            IN  objects[sends[n].object].sentBy \in
                    {Unidentified, IF name # Unidentified THEN name ELSE NameOf(subs, Len(subs))}

(* MessageTracingTask.ts 10-14: what a handler sends belongs to the        *)
(* conversation of the message it handles and is correlated with it, if    *)
(* that message object was sent only once.                                 *)
SentOnce(o) == Cardinality({n \in DOMAIN sends : sends[n].object = o}) = 1

Conversing(n) ==
    LET m      == objects[sends[n].object]
        origin == sends[contexts[sends[n].from].send].object
    IN  (m.conversation # 0 /\ SentOnce(origin)) =>
            /\ m.conversation = objects[origin].conversation
            /\ m.correlation = objects[origin].id

ConversationCarried == \A n \in DOMAIN sends : sends[n].from # 0 => Conversing(n)

(* Bus.ts 237-241: the reply to a request takes the transport the request  *)
(* took, whatever types have transports of their own, unless the type of   *)
(* the reply is one of them or the request is named like a reply.          *)
ReplyTakesTransportOfRequest ==
    \A n \in DOMAIN sends :
        objects[sends[n].object].intent = "reply" =>
            LET request == sends[contexts[sends[n].from].send]
            IN  (request.type \notin Replies /\ ReplyType[request.type] \notin OwnRoutes) =>
                    sends[n].transport = request.transport

(* Bus.ts 129-135, MessageExceptionTask.ts 10-20: on the transport that    *)
(* start adds no handler fails without a Bus.Error, sent from its context, *)
(* unless a newer message had cancelled it before.                         *)
DefaultReportsFailures ==
    \A c \in DOMAIN contexts \ cancelled :
        (contexts[c].status = "failed" /\ contexts[c].transport = default) =>
            \E n \in DOMAIN sends : sends[n].from = c /\ sends[n].type = BusError
=============================================================================
