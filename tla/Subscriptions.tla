---------------------------- MODULE Subscriptions ----------------------------
(***************************************************************************)
(* Who is in bus.messageSubscriptions: the handlers of classes, put there  *)
(* by registerHandlers and removed by unregisterHandlers, and the          *)
(* temporary subscriptions of waitForEventAsync, which end with an event   *)
(* or, their promise at least, with a timeout.                             *)
(*                                                                         *)
(* An event is handed to the subscribers found when its processing began,  *)
(* one step each; until the last has it only microtasks run (see           *)
(* Dispatch), so no timer fires while loop.event # 0.  A subscriber with   *)
(* the policy ignoreIfExisting that is busy ends the loop: the others,     *)
(* waits among them, do not get the event.  Only bus.subscribe gives a     *)
(* subscription a policy that matters here: registerClassHandler leaves    *)
(* the options of @handler behind, and the handler of a wait has returned  *)
(* before the next event.                                                  *)
(***************************************************************************)
EXTENDS Naturals, Sequences

CONSTANTS
    Type,       \* message types that are published
    Matches,    \* Matches[f]: the types a filter f matches
    Wildcard,   \* the filters with a "*"
    Class,      \* classes
    Base,       \* Base[c]: the class c extends, c itself when none
    Decorated,  \* Decorated[c]: filters of the methods of c with @handler, in order
    Instance,   \* objects a program registers
    ClassOf,    \* their classes
    Exports,    \* the classes exported by a module, in order
    Calls,      \* arguments of registerHandlers: sequences of instances, classes, "exports"
    Guarded,    \* the filters a program subscribes to with ignoreIfExisting
    Undefined,  \* no value
    MaxSubscribing, MaxEvents, MaxWaits  \* bounds

Filter == DOMAIN Matches

ASSUME SubscriptionsAssumption ==
    /\ Matches \in [Filter -> SUBSET Type]
    /\ Wildcard \cap Type = {}
    /\ \A f \in Filter \ Wildcard : Matches[f] = {f} \cap Type
    /\ Base \in [Class -> Class]
    /\ Decorated \in [Class -> Seq(Filter)]
    /\ ClassOf \in [Instance -> Class]
    /\ Exports \in Seq(Class)
    /\ Calls \subseteq Seq(Instance \cup Class \cup {"exports"})
    /\ "exports" \notin Class
    /\ Guarded \subseteq Filter
    /\ Undefined \notin Instance
    /\ {MaxSubscribing, MaxEvents, MaxWaits} \subseteq Nat

VARIABLES
    messageSubscriptions,  \* in the order of their ids, see Earlier
    subscribing,           \* how many calls have subscribed something
    subscriptionsOf,       \* __subscriptions__ of an instance, in that order too
    ignoring,              \* ids of subscriptions with ignoreIfExisting
    busy,                  \* those of them with isProcessing
    waits,                 \* the calls of waitForEventAsync
    processed,             \* history: the types of the events processed
    loop,                  \* the loop over the subscribers of an event
    refusals,              \* history: the events refused and by which subscriber
    outcome                \* history: how the last call of (un)registerHandlers ended

policyVars == <<ignoring, busy, refusals>>
vars == <<messageSubscriptions, subscribing, subscriptionsOf, waits, processed, loop, outcome,
          policyVars>>

NoLoop == [event |-> 0, pending |-> {}]

Init ==
    /\ messageSubscriptions = {}
    /\ subscribing = 0
    /\ subscriptionsOf = [i \in Instance |-> {}]
    /\ waits = <<>>
    /\ processed = <<>>
    /\ loop = NoLoop
    /\ outcome = "none"
    /\ ignoring = {}
    /\ busy = {}
    /\ refusals = {}

(* An id says where the subscription was made: in which call, for which    *)
(* argument, class and method of it.  `push' appends and `splice' keeps    *)
(* the order, so that the order of the array is the order of the ids.      *)
Id == Nat \X Nat \X Nat \X Nat

Earlier(a, b) == \E p \in 1..4 : a[p] < b[p] /\ \A q \in 1..(p - 1) : a[q] = b[q]

Ids == {s.id : s \in messageSubscriptions}

-----------------------------------------------------------------------------
(* @handler keeps the list of a class in a property of its prototype, made *)
(* by its first decorated method: it hides the list of the class above.    *)
Handlers(c) == IF Decorated[c] # <<>> THEN Decorated[c] ELSE Decorated[Base[c]]

(* The classes one argument of registerHandlers stands for, and the object *)
(* that has the handlers: a class gets a new instance from the container,  *)
(* which nobody else holds.                                                *)
ClassesOf(arg) ==
    CASE arg \in Instance -> <<ClassOf[arg]>>
      [] arg = "exports" -> Exports
      [] OTHER -> <<arg>>

OwnerOf(arg) == IF arg \in Instance THEN arg ELSE Undefined

Methods(arg, e) == Handlers(ClassesOf(arg)[e])

(* "Must use @handler": only a class given directly is refused. *)
Refused(arg) == arg \in Class /\ Handlers(arg) = <<>>

(* registerClassHandler for every class the argument at k stands for. *)
Added(call, k) ==
    UNION {{[id |-> <<subscribing + 1, k, e, j>>, filter |-> Methods(call[k], e)[j],
             owner |-> OwnerOf(call[k])] : j \in DOMAIN Methods(call[k], e)} :
           e \in DOMAIN ClassesOf(call[k])}

(* bus.registerHandlers(...call): what comes before a refused class stays. *)
RegisterHandlers(call) ==
    LET taken == {k \in DOMAIN call : \A h \in 1..k : ~Refused(call[h])}
        new   == UNION {Added(call, k) : k \in taken}
    IN  /\ subscribing < MaxSubscribing
        /\ subscribing' = subscribing + 1
        /\ messageSubscriptions' = messageSubscriptions \cup new
        /\ subscriptionsOf' = [i \in Instance |->
                                 subscriptionsOf[i] \cup {s.id : s \in {n \in new : n.owner = i}}]
        /\ outcome' = IF taken = DOMAIN call THEN "done" ELSE "error"
        /\ UNCHANGED <<waits, processed, loop, policyVars>>

Without(ids) == {s \in messageSubscriptions : s.id \notin ids}

(* Mutant: only the first subscription is removed. *)
UnregisterFirst(i) ==
    /\ subscriptionsOf[i] # {}
    /\ messageSubscriptions' =
         Without({id \in subscriptionsOf[i] : \A d \in subscriptionsOf[i] \ {id} : Earlier(id, d)})
    /\ outcome' = "done"
    /\ UNCHANGED <<subscribing, subscriptionsOf, waits, processed, loop, policyVars>>

(* bus.unregisterHandlers(i): __subscriptions__ is walked but not cleared, *)
(* and unsubscribe raises an error at the first id that is gone.  Given a  *)
(* class the call does nothing: the ids are with the instance.             *)
UnregisterHandlers(i) ==
    LET ids  == subscriptionsOf[i]
        gone == ids \ Ids
    IN  /\ ids # {}
        /\ messageSubscriptions' = Without({id \in ids : \A g \in gone : Earlier(id, g)})
        /\ outcome' = IF gone = {} THEN "done" ELSE "error"
        /\ UNCHANGED <<subscribing, subscriptionsOf, waits, processed, loop, policyVars>>

-----------------------------------------------------------------------------
(* bus.subscribe(filter, handler, { cancellationPolicy: ignoreIfExisting }) *)
Subscribe(f) ==
    /\ subscribing < MaxSubscribing
    /\ subscribing' = subscribing + 1
    /\ LET id == <<subscribing + 1, 1, 1, 1>> IN
         /\ messageSubscriptions' =
              messageSubscriptions \cup {[id |-> id, filter |-> f, owner |-> Undefined]}
         /\ ignoring' = ignoring \cup {id}
    /\ UNCHANGED <<subscriptionsOf, busy, waits, processed, loop, refusals, outcome>>

(* bus.waitForEventAsync(filter) *)
WaitForEvent(f) ==
    /\ Len(waits) < MaxWaits
    /\ subscribing < MaxSubscribing
    /\ subscribing' = subscribing + 1
    /\ LET id == <<subscribing + 1, 1, 1, 1>> IN
         /\ messageSubscriptions' =
              messageSubscriptions \cup {[id |-> id, filter |-> f, owner |-> Undefined]}
         /\ waits' = Append(waits, [filter |-> f, id |-> id, status |-> "waiting",
                                    since |-> Len(processed), event |-> 0])
    /\ UNCHANGED <<subscriptionsOf, processed, loop, outcome, policyVars>>

(* Mutant: there is one timer for all waits. *)
TimeOutNewest(w) ==
    /\ loop = NoLoop
    /\ w = Len(waits)
    /\ waits[w].status = "waiting"
    /\ waits' = [waits EXCEPT ![w].status = "rejected"]
    /\ UNCHANGED <<messageSubscriptions, subscribing, subscriptionsOf, processed, loop, outcome,
                   policyVars>>

(* The timer of a wait rejects its promise; the subscription stays. *)
TimeOut(w) ==
    /\ loop = NoLoop
    /\ waits[w].status = "waiting"
    /\ waits' = [waits EXCEPT ![w].status = "rejected"]
    /\ UNCHANGED <<messageSubscriptions, subscribing, subscriptionsOf, processed, loop, outcome,
                   policyVars>>

(* Exact matches come first, then those of a wildcard, each group in the   *)
(* order of the array.                                                     *)
Subscribers(type) ==
    {s \in messageSubscriptions :
        s.filter = type \/ (s.filter \in Wildcard /\ type \in Matches[s.filter])}

Precedes(s, t, type) ==
    \/ s.filter = type /\ t.filter # type
    \/ (s.filter = type <=> t.filter = type) /\ Earlier(s.id, t.id)

(* processInboundHandlers starts with a published message. *)
BeginEvent(type) ==
    /\ loop = NoLoop
    /\ Len(processed) < MaxEvents
    /\ processed' = Append(processed, type)
    /\ loop' = [event |-> Len(processed) + 1, pending |-> Subscribers(type)]
    /\ UNCHANGED <<messageSubscriptions, subscribing, subscriptionsOf, waits, outcome, policyVars>>

(* Mutant: the temporary subscription is left to the next event. *)
AnswerOnly(w) ==
    /\ waits' = [waits EXCEPT ![w] = IF @.status = "waiting"
                                     THEN [@ EXCEPT !.status = "resolved", !.event = loop.event]
                                     ELSE @]
    /\ UNCHANGED messageSubscriptions

(* The handler of a wait: clearTimeout, unsubscribe, resolve (which does   *)
(* nothing to a promise that was rejected).                                *)
AnswerWait(w) ==
    /\ waits' = [waits EXCEPT ![w] = IF @.status = "waiting"
                                     THEN [@ EXCEPT !.status = "resolved", !.event = loop.event]
                                     ELSE @]
    /\ messageSubscriptions' = Without({waits[w].id})

IsNext(s) ==
    /\ s \in loop.pending
    /\ \A t \in loop.pending \ {s} : Precedes(s, t, processed[loop.event])

(* The loop hands the event to the next subscriber; what the handler of a  *)
(* class does are other actions.                                           *)
Deliver(s) ==
    /\ IsNext(s)
    /\ s.id \notin busy
    /\ LET wait == {w \in DOMAIN waits : waits[w].id = s.id} IN
         \/ \E w \in wait : AnswerWait(w)
         \/ wait = {} /\ UNCHANGED <<waits, messageSubscriptions>>
    /\ busy' = busy \cup ({s.id} \cap ignoring)
    /\ loop' = [loop EXCEPT !.pending = @ \ {s}]
    /\ UNCHANGED <<subscribing, subscriptionsOf, processed, outcome, ignoring, refusals>>

(* shouldBeCancelled: the return ends the loop. *)
Refuse(s) ==
    /\ IsNext(s)
    /\ s.id \in busy
    /\ loop' = [loop EXCEPT !.pending = {}]
    /\ refusals' = refusals \cup {[event |-> loop.event, by |-> s]}
    /\ UNCHANGED <<messageSubscriptions, subscribing, subscriptionsOf, waits, processed, outcome,
                   ignoring, busy>>

(* The promise of the handler settles. *)
HandlerEnds(id) ==
    /\ busy' = busy \ {id}
    /\ UNCHANGED <<messageSubscriptions, subscribing, subscriptionsOf, waits, processed, loop,
                   outcome, ignoring, refusals>>

EndEvent ==
    /\ loop.event # 0
    /\ loop.pending = {}
    /\ loop' = NoLoop
    /\ UNCHANGED <<messageSubscriptions, subscribing, subscriptionsOf, waits, processed, outcome,
                   policyVars>>

Next ==
    \/ \E call \in Calls : RegisterHandlers(call)
    \/ \E i \in Instance : UnregisterHandlers(i)
    \/ \E f \in Guarded : Subscribe(f)
    \/ \E f \in Filter : WaitForEvent(f)
    \/ \E w \in DOMAIN waits : TimeOut(w)
    \/ \E type \in Type : BeginEvent(type)
    \/ \E s \in loop.pending : Deliver(s)
    \/ \E s \in loop.pending : Refuse(s)
    \/ EndEvent
    \/ \E id \in busy : HandlerEnds(id)

Spec == Init /\ [][Next]_vars

(* The timers of the host fire and a loop goes on; a handler may never end. *)
FairSpec ==
    /\ Spec
    /\ \A w \in 1..MaxWaits : WF_vars(w \in DOMAIN waits /\ TimeOut(w))
    /\ WF_vars(\E s \in loop.pending : Deliver(s) \/ Refuse(s))
    /\ WF_vars(EndEvent)

-----------------------------------------------------------------------------
(* A busy subscriber ahead of wait w ended the loop over event e before it. *)
KeptFrom(e, w) ==
    \E r \in refusals : r.event = e /\ Precedes(r.by, waits[w], processed[e])

(* The events since wait w began that match its filter and came up to it. *)
Answers(w) ==
    {e \in DOMAIN processed :
        /\ e > waits[w].since
        /\ processed[e] \in Matches[waits[w].filter]
        /\ ~KeptFrom(e, w)}

Handed(w) == \A s \in loop.pending : s.id # waits[w].id

(* Bus.ts 297-308, 388-402: the subscription of a wait is in the array     *)
(* until the first matching event that no refusal keeps from it has been   *)
(* handed to it, timed out or not, and never longer: its handler always    *)
(* finds the id it removes.                                                *)
WaitSubscribedUntilEvent ==
    \A w \in DOMAIN waits :
        waits[w].id \in Ids <=> (Answers(w) = {} \/ ~Handed(w))

(* Bus.ts 302-308, 388-402: a wait is resolved by the first matching event *)
(* processed after the call, whoever else gets it, comes or goes; only a   *)
(* refusal by a subscriber ahead of it makes it miss one.                  *)
ResolvedByFirstEvent ==
    \A w \in DOMAIN waits :
        /\ waits[w].status = "resolved" =>
             waits[w].event \in Answers(w) /\ \A e \in Answers(w) : waits[w].event <= e
        /\ waits[w].status = "waiting" => Answers(w) = {} \/ ~Handed(w)

(* Bus.ts 282-312, 388-402: a wait takes the first event that matches and  *)
(* is not refused ahead of it, and that one only.                          *)
WaitTakesFirstEvent == WaitSubscribedUntilEvent /\ ResolvedByFirstEvent

(* Bus.ts 193-204: unregisterHandlers of an instance that returns leaves   *)
(* no handler of it behind, however often it was registered; when it       *)
(* raises an error, the instance was unregistered before.                  *)
UnregisterAllOrError ==
    [][\A i \in Instance :
          UnregisterHandlers(i) =>
              /\ outcome' = "done" =>
                   \A s \in messageSubscriptions' : s.owner # i
              /\ outcome' = "error" => ~(subscriptionsOf[i] \subseteq Ids)]_vars

(* Bus.ts 299-308: every wait ends, with an event or with its timeout. *)
WaitsEnd ==
    \A w \in 1..MaxWaits :
        (w \in DOMAIN waits /\ waits[w].status = "waiting")
            ~> (w \in DOMAIN waits /\ waits[w].status # "waiting")
=============================================================================
