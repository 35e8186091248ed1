------------------------------- MODULE Bubbles -------------------------------
(***************************************************************************)
(* The test runner of packages/abus-bubbles: a definition is turned into a *)
(* flow of bubbles, BubblesTask in the outbound pipeline observes every    *)
(* message of the bus and moves along the flow, injecting, substituting    *)
(* and overriding messages, until the flow is complete; validate compares  *)
(* what was observed with the flow.  One execution per instance.           *)
(***************************************************************************)
EXTENDS Naturals, FiniteSets, SequencesExt

CONSTANTS
    Definitions,  \* workflow definitions: sequences of tokens
    TypeOf,       \* TypeOf[n]: message type of the definition named n
    Until,        \* calls of executeUntilAsync: <<message, terminateOnMessageType>>
    Handled,      \* message types that have an exact subscription
    Reactions,    \* Reactions[t]: messages the handler of type t may send
    ReplyType,    \* ReplyType[t]: t with ".reply" after it
    BusError,     \* MessageException.type
    NoType,       \* no terminateOnMessageType
    MaxSends      \* bound on the messages handlers send

(* What getBubble reads in the text: "!" (source), dashes (delay), a symbol *)
(* (intent) and a name.                                                    *)
Intents == {"send", "publish", "sendReply", "reply"}

Bubble ==
    {b \in [name : STRING, intent : Intents, source : {"inject", "system"}, delay : BOOLEAN, with : {<<>>}] :
        b.intent = "sendReply" /\ b.name \in DOMAIN TypeOf => TypeOf[b.name] \in DOMAIN ReplyType}

(* A token of the text: a dash, or a pair of parentheses in one of three   *)
(* forms: (x), (:x) and (!x:y:z).                                          *)
Token ==
    [form : {"delay"}] \cup [form : {"plain", "substitute"}, bubble : Bubble] \cup
    [form : {"override"}, bubble : Bubble, with : Seq(Bubble)]

Message ==
    {m \in [type : STRING \ {NoType}, intent : Intents, replyTo : Nat] :
        m.intent = "sendReply" => m.type \in DOMAIN ReplyType}

ASSUME BubblesAssumption ==
    /\ Definitions \subseteq Seq(Token) \ {<<>>}
    /\ \A name \in DOMAIN TypeOf : TypeOf[name] \in STRING \ {NoType, BusError}
    /\ \A t \in DOMAIN ReplyType : ReplyType[t] \in STRING \ {NoType, BusError}
    /\ \A t \in Handled : Reactions[t] \subseteq {m \in Message : m.type # BusError}
    /\ \A call \in Until : call[1] \in Message
    /\ BusError \in STRING \ {NoType}

Delay == [form |-> "delay"]
Plain(bubble) == [form |-> "plain", bubble |-> bubble]
Substitute(bubble) == [form |-> "substitute", bubble |-> bubble]
Override(bubble, with) == [form |-> "override", bubble |-> bubble, with |-> with]

VARIABLES
    flow,         \* bubbleFlow
    index,        \* bubbleFlowIndex
    terminate,    \* terminateOnMessageType
    status,       \* of the promise executeAsync returned
    isComplete,
    observed,     \* actualMessageFlow
    timers,       \* zero-delay timers of the bus, first in first out
    delayed,      \* dispatches that wait for a timer of executeWithDelay
    completions,  \* timers of completeFlow
    waiting,      \* messageReplyHandlers: observed requests not yet replied
    handling,     \* messages whose handler runs
    sends,        \* how many messages handlers have sent
    dispatched    \* history: the indices of the bubbles sent by Bubbles

vars == <<flow, index, terminate, status, isComplete, observed, timers, delayed,
          completions, waiting, handling, sends, dispatched>>

Init ==
    /\ flow = <<>>
    /\ index = 0
    /\ terminate = NoType
    /\ status = "idle"
    /\ isComplete = FALSE
    /\ observed = <<>>
    /\ timers = <<>>
    /\ delayed = {}
    /\ completions = 0
    /\ waiting = {}
    /\ handling = {}
    /\ sends = 0
    /\ dispatched = <<>>

-----------------------------------------------------------------------------
(* From the definition to the flow. *)
DelayBubble == [name |-> "delay", intent |-> "delay", source |-> "inject", delay |-> TRUE, with |-> <<>>]

addDelay(bubbles) ==
    IF Last(bubbles).intent = "delay" THEN bubbles ELSE Append(bubbles, DelayBubble)

(* What is observed in place of a substituted message needs a bubble of    *)
(* its own; so do the messages that answer an overridden request.          *)
addBubble(bubbles, token) ==
    CASE token.form = "delay" -> addDelay(bubbles)
      [] token.form = "substitute" ->
           bubbles \o <<[token.bubble EXCEPT !.source = "substitute", !.delay = FALSE],
                        [token.bubble EXCEPT !.source = "system"]>>
      [] token.form = "override" ->
           Append(bubbles, [token.bubble EXCEPT !.source = "override", !.with = token.with]) \o token.with
      [] OTHER -> Append(bubbles, token.bubble)

getWorkflowDefinition(definition) ==
    LET flowOf[n \in 0..Len(definition)] ==
            IF n = 0 THEN <<>> ELSE addBubble(flowOf[n - 1], definition[n])
    IN  flowOf[Len(definition)]

(* What makes executeAsync reject at once: a delay before any bubble, an   *)
(* override without "!", a bubble without a message, a first bubble that   *)
(* nobody sends.                                                           *)
Faulty(definition) ==
    LET bubbles == getWorkflowDefinition(definition)
    IN  \/ definition[1].form = "delay"
        \/ \E k \in DOMAIN definition :
              definition[k].form = "override" /\ definition[k].bubble.source # "inject"
        \/ \E k \in DOMAIN bubbles :
              bubbles[k].intent # "delay" /\ bubbles[k].name \notin DOMAIN TypeOf
        \/ bubbles[1].source = "system"

-----------------------------------------------------------------------------
(* The elements of s at the positions I, in their order (Array.filter). *)
Select(s, I) == [i \in 1..Cardinality(I) |-> s[CHOOSE k \in I : Cardinality({j \in I : j <= k}) = i]]

(* Sending.  about is the message whose context sends, 0 for none: a reply *)
(* needs one that was sent with sendReply, else it is lost.                *)
Lost(bubble, about) == bubble.intent = "reply" /\ (about = 0 \/ observed'[about].intent # "sendReply")

Sent(bubble, about) ==
    IF bubble.intent = "reply"
    THEN [type |-> ReplyType[observed'[about].type], intent |-> "reply", replyTo |-> about]
    ELSE [type |-> TypeOf[bubble.name], intent |-> bubble.intent, replyTo |-> 0]

Outbound(messages) == [k \in DOMAIN messages |-> [stage |-> "outbound", message |-> messages[k]]]

(* dispatchBubbleMessage for the bubbles numbered ks, in order, between    *)
(* the timers before and after: a bubble with a delay waits in a timer.    *)
Dispatch(ks, bubbles, about, before, after) ==
    LET now == Select(ks, {j \in DOMAIN ks : ~bubbles[ks[j]].delay /\ ~Lost(bubbles[ks[j]], about)})
    IN  /\ timers' = before \o Outbound([j \in DOMAIN now |-> Sent(bubbles[now[j]], about)]) \o after
        /\ delayed' = delayed \cup {[bubble |-> bubbles[k], about |-> about] :
                                       k \in {j \in ToSet(ks) : bubbles[j].delay}}
        /\ dispatched' = dispatched \o ks

(* executeAsync *)
Execute(definition) ==
    /\ status = "idle"
    /\ UNCHANGED <<index, terminate, isComplete, observed, completions, waiting, handling, sends>>
    /\ IF Faulty(definition)
       THEN status' = "rejected" /\ UNCHANGED <<flow, timers, delayed, dispatched>>
       ELSE /\ status' = "running"
            /\ flow' = getWorkflowDefinition(definition)
            /\ Dispatch(<<1>>, flow', 0, timers, <<>>)

(* executeUntilAsync *)
ExecuteUntil(message, type) ==
    /\ status = "idle"
    /\ status' = "running"
    /\ terminate' = type
    /\ timers' = Outbound(<<message>>)
    /\ UNCHANGED <<flow, index, isComplete, observed, delayed, completions, waiting,
                   handling, sends, dispatched>>

-----------------------------------------------------------------------------
(* messageHandlerAsync *)

(* An exact subscription, or for a reply an entry of messageReplyHandlers. *)
hasRegisteredHandler(m) == IF m.intent = "reply" THEN m.replyTo \in waiting ELSE m.type \in Handled

(* The bubble after the one just consumed, and whether a delay was passed. *)
DelayFollows == index + 2 <= Len(flow) /\ flow[index + 2].intent = "delay"
NextBubble == IF DelayFollows THEN index + 3 ELSE index + 2

(* Mutant: the index stays at the delay. *)
DelayNotPassed == index + 1
IndexMoves == NextBubble - 1

(* The flow with the delay added to the bubble injected after it. *)
Delayed(k) == IF DelayFollows THEN [flow EXCEPT ![k].delay = TRUE] ELSE flow

(* The bubbles sent when the one at index + 1 is consumed. *)
Answers ==
    LET bubble == flow[index + 1]
    IN  CASE bubble.source = "substitute" -> <<index + 2>>
          [] bubble.source = "override" -> [k \in DOMAIN bubble.with |-> index + 1 + k]
          [] OTHER -> <<>>

(* Mutant: whatever bubble comes next is sent. *)
InjectAny == IF NextBubble <= Len(flow) THEN <<NextBubble>> ELSE <<>>

Injected == IF NextBubble <= Len(flow) /\ flow[NextBubble].source = "inject" THEN <<NextBubble>> ELSE <<>>

(* Mutant: completeFlow is called one bubble early. *)
LastIsEnough(k) == k >= Len(flow)
isLastMessage(k) == k > Len(flow)

(* Mutant: BubblesTask goes on whatever Bubbles says. *)
PassAlways(m, n, handled) == <<[stage |-> "inbound", message |-> m, number |-> n]>>

(* The message is taken out of the pipeline by Bubbles, or goes on. *)
PassOn(m, n, handled) ==
    IF handled THEN <<>> ELSE <<[stage |-> "inbound", message |-> m, number |-> n]>>

(* A message of a flow that goes on. *)
Follow(m) ==
    LET n       == Len(observed) + 1
        bubble  == flow[index + 1]
        handled == bubble.source \in {"substitute", "override"} \/ ~hasRegisteredHandler(m)
        flow2   == IF Injected = <<>> THEN flow ELSE Delayed(NextBubble)
    IN  /\ index + 1 <= Len(flow)
        /\ index' = IndexMoves
        /\ flow' = flow2
        /\ Dispatch(Answers \o Injected, flow2, n, Tail(timers), PassOn(m, n, handled))
        /\ completions' = completions + (IF isLastMessage(NextBubble) THEN 1 ELSE 0)

(* A message after the last bubble, or of executeUntilAsync. *)
Extra(m) ==
    /\ index + 1 > Len(flow)
    /\ timers' = Tail(timers) \o PassOn(m, Len(observed) + 1, FALSE)
    /\ UNCHANGED <<flow, index, delayed, completions, dispatched>>

(* Once complete, or with the type that ends executeUntilAsync: what has a *)
(* handler is kept from it.                                                *)
Finish(m) ==
    /\ timers' = Tail(timers) \o PassOn(m, Len(observed) + 1, hasRegisteredHandler(m))
    /\ completions' = completions + (IF m.type = terminate THEN 1 ELSE 0)
    /\ UNCHANGED <<flow, index, delayed, dispatched>>

Observe ==
    LET m == Head(timers).message
    IN  /\ timers # <<>>
        /\ Head(timers).stage = "outbound"
        /\ observed' = Append(observed, m)
        /\ waiting' = IF m.intent = "sendReply" THEN waiting \cup {Len(observed) + 1} ELSE waiting
        /\ IF isComplete \/ m.type = terminate THEN Finish(m) ELSE Follow(m) \/ Extra(m)
        /\ UNCHANGED <<terminate, status, isComplete, handling, sends>>

(* A timer of executeWithDelay. *)
DelayElapses(d) ==
    /\ delayed' = delayed \ {d}
    /\ UNCHANGED <<flow, index, terminate, status, isComplete, observed, completions,
                   waiting, handling, sends, dispatched>>
    /\ timers' = timers \o
         IF Lost(d.bubble, d.about) THEN <<>> ELSE Outbound(<<Sent(d.bubble, d.about)>>)

(* A timer of completeFlow. *)
Complete ==
    /\ completions > 0
    /\ completions' = completions - 1
    /\ isComplete' = TRUE
    /\ status' = IF status = "running" THEN "resolved" ELSE status
    /\ UNCHANGED <<flow, index, terminate, observed, timers, delayed, waiting, handling, sends, dispatched>>

-----------------------------------------------------------------------------
(* The bus and the program under test: a message that was passed on goes   *)
(* to its handler, a reply to the request that waits for it, a command     *)
(* without a handler becomes an error.                                     *)
Receive ==
    LET m == Head(timers).message
    IN  /\ timers # <<>>
        /\ Head(timers).stage = "inbound"
        /\ timers' = Tail(timers) \o
             IF m.type \notin Handled /\ m.intent \in {"send", "sendReply"}
             THEN Outbound(<<[type |-> BusError, intent |-> "publish", replyTo |-> 0]>>)
             ELSE <<>>
        /\ handling' = IF m.type \in Handled THEN handling \cup {Head(timers).number} ELSE handling
        /\ waiting' = waiting \ {m.replyTo}
        /\ UNCHANGED <<flow, index, terminate, status, isComplete, observed, delayed,
                       completions, sends, dispatched>>

HandlerSends(n, m) ==
    /\ sends < MaxSends
    /\ sends' = sends + 1
    /\ timers' = timers \o Outbound(<<m>>)
    /\ UNCHANGED <<flow, index, terminate, status, isComplete, observed, delayed,
                   completions, waiting, handling, dispatched>>

Next ==
    \/ \E definition \in Definitions : Execute(definition)
    \/ \E call \in Until : ExecuteUntil(call[1], call[2])
    \/ Observe
    \/ \E d \in delayed : DelayElapses(d)
    \/ Complete
    \/ Receive
    \/ \E n \in handling : \E m \in Reactions[observed[n].type] : HandlerSends(n, m)

Spec == Init /\ [][Next]_vars

(* The timers of the host fire. *)
FairSpec == Spec /\ WF_vars(Observe) /\ WF_vars(Receive) /\ WF_vars(Complete)

-----------------------------------------------------------------------------
(* validate: every observed message against the bubble of its number,      *)
(* delays left out.                                                        *)
Expected == Select(flow, {k \in DOMAIN flow : flow[k].intent # "delay"})

(* What a reply carries, or an error, is compared with a definition that   *)
(* has no type, a message by its type; payloads are left out.              *)
ReplyTypes == {ReplyType[t] : t \in DOMAIN ReplyType}

validateResult(bubble, m) ==
    IF m.type \in ReplyTypes \cup {BusError} THEN TypeOf[bubble.name] \in ReplyTypes
    ELSE TypeOf[bubble.name] = m.type

Valid ==
    \A i \in DOMAIN observed :
        i <= Len(Expected) /\ validateResult(Expected[i], observed[i])

(* Bubbles.ts 120-149, 365-373: validate looks at the observed messages    *)
(* only, yet a flow that has resolved and is valid was observed to its     *)
(* last bubble: nothing is missing at the end.                             *)
ResolvedAndValidIsWholeFlow ==
    (status = "resolved" /\ terminate = NoType /\ Valid) => Len(observed) = Len(Expected)

(* What addOverrideBubble does not check: that no answer to an overridden  *)
(* request is marked with "!".  One that is would be sent with the others  *)
(* and once more when its turn comes.                                      *)
AnswersUnmarked ==
    \A definition \in Definitions : \A k \in DOMAIN definition :
        definition[k].form = "override" =>
            \A j \in DOMAIN definition[k].with : definition[k].with[j].source = "system"

(* Bubbles.ts 342-363, 450-467: Bubbles sends a bubble at most once, in    *)
(* the order of the flow, and never one that follows a bubble nothing was  *)
(* observed for, but for the answers to an overridden request.             *)
SentInTurn ==
    \A k \in DOMAIN dispatched :
        /\ \A j \in 1..(k - 1) : dispatched[j] < dispatched[k]
        /\ \/ dispatched[k] <= index + 1
           \/ \E b \in 1..index :
                 flow[b].source = "override" /\ dispatched[k] \in (b + 1)..(b + Len(flow[b].with))

(* Bubbles.ts 219-222, 242, BubblesTask.ts 8-10: a message compared with a *)
(* bubble is never the bus's complaint that a command has no handler:      *)
(* Bubbles keeps such commands from the bus until the flow has ended.      *)
ErrorsAreExtra == \A i \in DOMAIN observed : observed[i].type = BusError => i > Len(Expected)

(* Bubbles.ts 342-402: a flow resolves once as many messages were observed *)
(* as it has bubbles that are messages, with whatever delays and answers   *)
(* the index had to pass; executeUntilAsync does once its type was.        *)
EndReached ==
    /\ status = "running"
    /\ \/ flow # <<>> /\ Len(observed) >= Len(Expected)
       \/ \E i \in DOMAIN observed : observed[i].type = terminate

FlowResolves == EndReached ~> status = "resolved"
=============================================================================
