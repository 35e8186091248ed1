# ABusJS: a TLA+ model of the message bus

ABus is an in-process message bus for JavaScript: components send commands and
publish events, handlers subscribe to message types, requests get replies, and
sagas keep state between messages.  Everything runs on one thread, yet almost
every call is asynchronous.  This directory models what the asynchrony makes
hard, checks it with TLC and proves its safety properties with TLAPS.

All source paths below are relative to `src/packages/`.

## 1. The system

| Part | State | Operations | What is hard |
|---|---|---|---|
| Bus, dispatch (`abus/src/Bus.ts`, `MessageHandlerContext.ts`, `tasks/`, `Transports/ExpressMemoryTransport.ts`) | array of subscriptions with `isProcessing` and the newest `context`; timers of the host | `sendAsync`, `publishAsync`, `subscribe`, `unsubscribe`; outbound and inbound pipelines; cancellation policies | a handler may run for any time while newer messages start, cancel or refuse handlers of the same subscription |
| Bus, request and reply (`Bus.ts`, `ReplyHandler.ts`, `CancellationToken.ts`) | table of reply handlers, one timer per request | `sendWithReplyAsync`, `replyAsync`, timeout, cancellation | replies late, repeated, from cancelled handlers or never; timers racing them |
| Bus, `waitForEventAsync` | a temporary subscription and a timer | wait, event, timeout | the event and the timeout race; a timeout leaves the subscription behind |
| Bus, registration (`registerHandlers`, `unregisterHandlers`, `decorators/handler.ts`, IoC, `abus-inversify`) | subscription ids kept on class instances | register, unregister | repeated and partial registration, classes that extend each other |
| Bus, transports and pipelines (`fluent/transportGrammar.ts`, `Pipeline.ts`) | routes of message types, stages of tasks | configuration before the first message | order of tasks, the default route, the route of replies |
| Tracing (`tasks/abus-tracing`) and logging | metadata of messages | stamping identifiers, conversations, senders | message objects that are copied, tagged and sent again |
| Sagas (`abus-saga/src/Saga.ts`, `InMemoryKeyValueStore.ts`) | documents by key, with an eTag | start, handle, complete, save | concurrent handlers of one saga, completion against handlers still running |
| Processes (`abus-saga/src/Process.ts`) | one document per process | load, change, save | lost updates, changes left by a failure |
| Bubbles (`abus-bubbles/src`) | a flow of expected messages, an index, the messages observed | observe, substitute, inject, delay, complete, validate | observation order against the flow, the end of a run |
| Redux middleware (`redux-abus`, `redux-abus-thunk`) | queue of thunks | dispatch, execute | the state a thunk looks at is not the one its actions change |
| Visualizations (`abus-visualizations/src`) | none: they read observed messages | tree, sequence diagram | parents and receivers looked up in what was recorded |
| Developer tools (`abus-devtools/src`) | the deliveries a display has received, whether it is visible | record, mount, toggle, close | records come in the order handlers end, displays come and go |
| Samples (`abus-react-sample/src/routes`) | redux stores of a cart, a todo list, pages of a server | clicks, thunks, reducers, fetches | answers in any order, clicks in between |
| `TimeSpan`, containers of IoC, other samples | none that lasts | | |

How they interact: the application and handlers call the bus; the bus puts each
message into a zero-delay timer, runs the outbound pipeline and gives it to the
transport; the transport calls back `onMessage`, which starts the inbound side
in another zero-delay timer; that side calls handlers, each with a context of
its own, and a handler calls the bus again through its context.  Sagas and
processes are handlers that wrap the original one between a load and a save.
Bubbles is a task in the outbound pipeline that may answer in place of a
handler.  The redux middleware publishes every action of a store and calls the
reducer when it comes back; the developer tools are a task around the handlers
that reports each delivery on a bus of its own.

## 2. The modules

    Request                what a caller is promised
       ^ refined by (Caller == INSTANCE Request WITH ...)
    RequestReply     <-- MCRequestReply,   RequestReplyProofs
    Dispatch         <-- MCDispatch,       DispatchProofs
    Saga             <-- MCSaga,           SagaProofs
    Process          <-- MCProcess,        SagaProofs
    MCSaga, Process  <-- MCStorage
    Subscriptions    <-- MCSubscriptions,  SubscriptionsProofs
    Pipelines  <--  Diagrams  <--  MCPipelines,  PipelinesProofs
    Bubbles          <-- MCBubbles,        BubblesProofs
    Store  <--  Cart, Todos, Paging  <--  Sample  <--  MCSample,  SampleProofs
    DevTools         <-- MCSample,         DevToolsProofs

Operators whose comment starts with `Mutant` are not part of a model.  Each is
a plausible mistake in the definition that follows it, and is there to show
that a property can fail: with the mistake in place of the definition TLC
finds the property violated (the pairs are in `PROJECT.json`).

### Dispatch

A message is an index of `sent`; a handler that runs or has run is an index of
`contexts`.  `timers` is the queue of zero-delay timers, `delayTimers` the
messages the memory transport holds back, `loop` the suspended loop over the
subscribers of one event.

| Action | Code |
|---|---|
| `Send`, `SendFromHandler` | `Bus.ts` 205-209, 248-253, 326-336; `MessageHandlerContext.ts` 55-77 |
| `Subscribe`, `Unsubscribe` | `Bus.ts` 255-280 |
| `RunOutbound`, `DelayElapses` | `TransportDispatchTask.ts`, `ExpressMemoryTransport.ts` 22-33, `Bus.ts` 84-88 |
| `RejectCommand`, `NobodyListens`, `StartLoop`, `ContinueLoop` | `Bus.ts` 338-410, 447-475 |
| `Refuses`, `AfterCancelling` | `shouldBeCancelled`, `Bus.ts` 412-436 |
| `Complete`, `Fail` | `AutoCancellationTask.ts`, `MessageExceptionTask.ts` |

What one step is.  JavaScript runs a callback to its end, so a timer callback
up to its first `await` is one step.  What follows an `await` is a microtask.
The loop over subscribers awaits `processInboundMessage` (line 401), which does
not wait for the handler; until the loop is done only microtasks run, so no
timer fires while `loop.msg # 0`, but handlers may send, end or fail then.
Several microtasks lie between the return of a handler and the `finally` of
`AutoCancellationTask`; they are one step, `End`.

A context refuses to send only once it is cancelled, not once its handler has
returned, and what a handler did not await goes on after it returned.
`SendFromHandler` therefore asks for `wasCancelled` alone.  A handler that has
returned is never cancelled, so it may speak after a newer one of a
`cancelExisting` subscription; `LateSpeakersHadEnded` says that no other older
handler does.

Zero-delay timers are taken first in, first out, as Node.js does for equal
delays.  Browsers clamp nested timers to 4 ms, which may break that order
between pipelines of different depth; `SendOrderKept` is therefore a statement
about Node.js.  Delayed messages may arrive at any later time.

`Filter` gives the types a subscription matches.  For a subscription without a
`"*"` that is a single type, which an assumption states.  `shallowEqual` compares
the fields of two messages by identity and leaves out the metadata: equal type
and the same payload object.  The payload of an error is a new object each time.

### Request and RequestReply

`Request` is the contract: a request is asked once and settled once, by the
timeout, by an answer its own responder has given, or as cancelled when the
caller has cancelled its token, after which no answer settles it any more; and
it is settled in the end.

`RequestReply` is the code: `messageReplyHandlers` is the table by identifier,
`timerArmed` and `hasTimedOut` belong to the reply handler, `responder` is the
handler of each request under the cancellation policy of the one subscription
that serves them.  `SendWithReply` is `Bus.ts` 211-246, `Reply` is
`MessageHandlerContext.ts` 22-45, the three ways a reply is received are
`Bus.ts` 345-366.  A cancelled token makes the code reject and then go on to
resolve: `Calls` is that sequence of calls, and the promise keeps the first.  As
in `Dispatch` a handler that has returned may still reply.  The two zero-delay timers of a message are one entry of a
queue, since `Dispatch` shows that they keep the order.  `CancelSender` stands
for the step of `Dispatch` that cancels the handler a request was sent from.

### Saga

`docs` holds every document object ever made; `storage` maps a key to one of
them.  The identity of the object is what matters: `getAsync` returns the stored
object itself, so handlers of one saga share it.  `Start`, `Join`,
`RefuseStart` and `SagaNotFound` are `Saga.ts` 19-49 up to the call of the
handler, `Complete` is `completeAsync`, `Save` and `SaveConflict` are
`storeAsync` with `saveAsync`.  The load and the test of the document are one
step: a stored document keeps its data and its eTag, and a new one is not known
to anyone else.  What the data says is left out.

### Process

`Load` is `getValueAsync` (`Process.ts` 65-80), `Change` what a handler such as
`OrderProcess.handler` does to the data in place, `storeAsync` and `StoreConflict` are
`storeAsync` called by `afterHandlerAsync`, and `Throw` a handler that throws
before that.  The data are the set of orders the handlers have added.  All
handlers of a process use one key, so the store is one document.

### Subscriptions

The array of subscriptions over the life of a program.  It is a set, ordered by
the identifiers: one says which call made the subscription, for which argument,
class and method of it, and `push` and `splice` keep that order.  Classes come and go with
`RegisterHandlers` (`Bus.ts` 142-191) and `UnregisterHandlers` (193-204),
temporary subscriptions with `WaitForEvent`, `TimeOut` and `AnswerWait`
(282-312).  `subscriptionsOf` is the property `__subscriptions__` of an
instance, which unregistering walks over and leaves in place.  `Handlers` is
what `@handler` keeps on a prototype: the list of a class with handlers of its
own hides that of the class above.  `BeginEvent`, `Deliver` and `EndEvent` are
the loop over the subscribers, found before its first `await` and used after it;
while it goes on no timer fires.  `Subscribe` makes a subscription with
`ignoreIfExisting`; while its handler runs (`Deliver` to `HandlerEnds`), `Refuse`
ends the loop (391-393), and the waits behind it miss the event: `KeptFrom` says
which.  Neither a handler of a class (`registerClassHandler` leaves the options of
`@handler` behind) nor a wait (whose handler returns at once) refuses anything,
and the other policies do not end the loop or, `ignoreIfDuplicate`, end it as this
one does for some messages.  `bus.unsubscribe` by a program is in Dispatch.  The containers that make instances are left
out: they make one per message and keep no state of the bus.

### Pipelines and Diagrams

`Pipelines` has the configuration (`UsingTransport`, `UseTask`, `Start`:
`Bus.ts` 74-136, `transportGrammar.ts` 54-100) and what is written on messages on
their way: `Traced` is `MessageTracingTask`, `Tag` and `HandTo` are lines 388-402
and 438-461, `RouteReply` is 237-241, `SendAgain` is `applyIntent` on an object
that has an intent already.  Messages are objects: a single subscriber gets the
object itself, several get copies, which were tagged with `receivedBy` before
they were copied.  A context remembers its transport, whose tasks are those run
when its handler fails.  A subscription without an identifier writes no tag, so
that its handler has the tag written before: by a subscriber of the same event or,
when the same object was published before, by the last of that time, which is
what `SentByItsHandler` allows and no more.  A task that calls
`DoNotContinueDispatchingCurrentMessageToHandlers` is the task `"stop"`.
`"trace"` is used in outbound stages only, as in the whole repository.  Timing is
that of `Dispatch` and left out; of the policies `cancelExisting` is kept, since a
cancelled handler neither sends nor reports its failure (`MessageHandlerContext.ts`
56, 72): a new message may cancel the newest running handler of each subscription
in `Cancelling` (`Superseded`).  Whether `isProcessing` still holds depends on which
handlers have ended, which only `Dispatch` follows, so that both happen here.
Programs are configured before their first message; later configuration is not
modelled.

`Diagrams` watches what leaves and reads it: `observed` is the list of
`observedMessages`, to which a task behind `MessageTracingTask` adds the message
(`Bubbles.ts` 209), `ParentNode` is `Convert.toTreeStructure`,
`ArrowFrom` and `ReplyArrowTo` are the ends of the arrows in
`Mermaid.sequenceDiagram`.  The messages are read as they are by then, since the
list holds the objects.  The text they are written with is left out.  An arrow back
to a requester needs its name: it is lost when the event the requester handles has several
subscribers, whose tags are on copies, and when its subscription has no
identifier, for which `mermaid.ts` 76 writes "unhandled".

### Bubbles

`getWorkflowDefinition` turns the tokens of a definition into the flow,
`Execute` and `ExecuteUntil` start it, `Observe` is `messageHandlerAsync` called
by `BubblesTask`: it appends to `observed`, moves `index`, and sends what
`Answers` and `Injected` say.  The message goes on to the bus (`PassOn`) unless
Bubbles has handled it.  `DelayElapses` and `Complete` are the timers of
`executeWithDelay` and `completeFlow`.  The bus under test is `Receive` and
`HandlerSends`: its handlers send what they like of `Reactions`, in any order.
`Valid` is `validate` without payloads: a reply or an error is compared with any
definition that has no type, as `validateResult` does, another message by its type.  The
parsing of the text is left out.  `MCBubbles` lists the flows next to their text.

One execution per instance is modelled, which is how the tests use it.  A second
one would find `bubbleFlowIndex`, the observed messages and
`terminateOnMessageType` of the first, since nothing resets them.

### Store, Cart, Todos, Paging

`Store` is the middleware: `Dispatch` gives thunks an identifier and puts their
function into `queue` (`redux-abus-thunk` 46-66), `Received` hands an action back
to the reducers (`redux-abus` 6-8), `ReceivedThunk` takes a function out of the
queue and runs it (16-44).  Messages of one bus keep their order, as `Dispatch`
shows.  `Cart`, `Todos` and `Paging` extend it with the state, the buttons, the
thunks and the reducers of one route each; `Sample` opens one of the three.
A checkout takes three looks at the cart: the products it buys are those the
cart showed at the click (`CartContainer.tsx` 12, `getCartProducts`), the `cart` it sends with
`CHECKOUT_SUCCESS` is the one its thunk finds, and what is emptied is the one its request
finds.  `EmptiedIsBought` compares the first and the last: an addition in between is
emptied and not bought, and a second checkout buys the same again; nothing else differs.
`coming` and `alone` are histories that say what was on the bus at the click.  Nothing reads the
`cart` of `CHECKOUT_SUCCESS`, since its use in `CHECKOUT_FAILURE` is commented out
(`actions/index.js` 47-48).
`TodosNumberedInOrder` speaks of the places of messages on the bus and in the
list.
In `Paging` the REQUEST is on the bus when the fetch begins, answers come in any
order, and pages stand for the entries they bring; going from one repository
to another calls `loadData` with a name in place of properties
(`RepoPage.tsx` 36), an error that ends the page.

### DevTools

`Send`, by a handler also after its end, `Process` and `End` are the application,
`Recorded` the task around its handlers (`AbusMonitorTask.ts` 10-19, `DevToolsTask` in `Abus-Monitor.tsx`
267-276), `Mount`, `Unmount` and `Receive` the display
(`Abus-Monitor.tsx` 57-84, `reducers/monitor.ts`), `handleKeyDown` and
`closeTools` what shows and hides it.  `HasNode`, `messageId` and `origin` are how
the diagram finds the parent of a node.  `ParentsComing` says what a node
without its parent waits for; that a record on its way arrives, seen or not, is all that
liveness would add, and a display that dropped one would break `ShownAsCompleted`.  Drawing and sizes are left out.

## 3. What TLC checks

All runs set `CHECK_DEADLOCK FALSE`: the number of messages is bounded, so the
system stops when they are used up.  `storage_races` and `sample_app` each begin with a
choice, of sagas or processes and of a route or the developer tools: what is chosen between
shares code or a page, and no state, and runs by itself.

| Run | Instance | Shows |
|---|---|---|
| `dispatch_policies` | two subscriptions of one event (`cancelExisting`, `ignoreIfExisting`), 4 messages from the application and from handlers | `IgnoreExistingExclusive`, `OneLiveHandler`, `NeverLockedOut`, `LateSpeakersHadEnded`, `CancelledOnlyByNewer` |
| `dispatch_routing` | four subscriptions, one a wildcard, two made late, one removed; commands, delayed commands, events, errors; 3 messages and their errors; fair | `DeliveredOnceInOrder`, `CommandHasOneOutcome`, `EveryMessageProcessed` |
| `dispatch_refusal` | two subscriptions of one event, the first with `ignoreIfExisting`, 2 messages | violates `IgnoredForThisSubscriptionOnly` |
| `request_settled` | two requests with their own identifiers, one from a handler that may be cancelled, up to two replies each, the responder with `cancelExisting` or `ignoreIfExisting`; fair | `TableAccounted`, `OwnAnswer`, `FirstReplyFindsHandler`, and `CallerFairSpec`: refinement of `Request` with its liveness |
| `storage_races` | sagas: two starts and two further messages of one key, a start without a key; processes: four handlers of one process | `JoinsStartedSaga`, `StaleNeverOverwrites`, `RevivedByOvertakenOnly`, `OnlyFirstHandlersOverwrite` |
| `saga_start_twice` | two starts and three further messages, the last without a key | violates `NotStartedTwice` |
| `saga_stale_save` | the same as `saga_start_twice` | violates `SavedUnchangedOnly` |
| `process_failed_changes` | four handlers of one process | violates `FailedChangesDiscarded` |
| `subscriptions` | a class with two handlers, one that extends it, one without any, a subscription with `ignoreIfExisting`; 3 calls that subscribe, 3 events, 2 waits; fair | `WaitTakesFirstEvent`, `UnregisterAllOrError`, `WaitsEnd` |
| `pipelines` | an event with four subscribers, two of them without an identifier and one with `cancelExisting`, a request and its reply; one transport besides the default, 3 sends | `SentByItsHandler`, `ConversationCarried`, `ReplyTakesTransportOfRequest`, `DefaultReportsFailures`, `TreeOfOrigins`, `RepliesDrawnToRequester` |
| `bubbles` | six flows and one call of `executeUntilAsync`, up to 4 messages of the handler; fair | `ResolvedAndValidIsWholeFlow`, `SentInTurn`, `ErrorsAreExtra`, `FlowResolves` |
| `sample_app` | cart: two products, one of each in stock, 4 clicks; todos: 3 uses; pages: one user, one repository, 3 acts, 2 failures; developer tools: 2 messages with one or two subscribers, a display mounted twice, one key press; fair | `ThunksQueued`, `EmptiedIsBought`, `OversoldByThoseAhead`, `TodosNumberedInOrder`, `PagesInOrder`, `LoadingEnds`, `ShownAsCompleted`, `ParentsComing` |

Why the bounds are enough.  A policy concerns a running handler, a newer one and
one more message, hence three or four messages; the flag and the context are
per subscription, and the loop couples subscriptions only through a refusal, for
which one before and one after suffice.  Replies interact through the table,
hence two requests, with two replies each for a repeated one.  A saga is lost or
revived by two or three overlapping handlers, and a fourth message sees the
result.  A process needs two handlers with a document of their own each, one
more that shares the document that is replaced, and one that comes later.
Two waits of one type share an event, with one call left for a subscription that refuses
it; an instance with two handlers, registered twice, takes two of the three calls and is
unregistered in part and again.  Three sends make an event, a request for it and the reply, or an event sent again; four
subscribers put one without an identifier before and one behind one that has one.  The flows of Bubbles use
each kind of bubble, a delay before an injected one, a delay at the end and a
faulty definition, and four messages of a handler are more than any flow expects.
Two clicks oversell a product that two more find in the cart or out of stock.  Two
pages and two fetches at a time give double fetches, answers out of order and a
failure among them; with a single repository the step from one repository to
another, which ends the page, does not happen in this run.  A message sent by
a handler, two deliveries of each and a display replaced once give a child
recorded before its parent and a parent recorded by the display before.

`MaxMessages` bounds the calls of `sendAsync` and `publishAsync` and the errors
of handlers; a rejected command adds one error each, so that the error of a
rejected command is never suppressed by the bound.  `MaxReplies` bounds replies
per handler.  `MessageCount`, `RequestCount` and `OrderCount` bound messages
and requests; `MaxSubscribing` calls that subscribe; `MaxEvents`, `MaxWaits`, `MaxTransports`,
`MaxSends`, `MaxClicks`, `MaxUses`, `MaxActs`, `MaxFailures`, `MaxTestUsers`,
`MaxCalls`, `MaxSent`, `MaxMounts` and `MaxKeys` what their names say.

Fairness.  `Dispatch!Fairness` asks that timers fire and that microtasks run, as
the event loop of the host does; no handler is asked to end.
`RequestReply!FairSpec` asks that timers fire and that queued messages are
processed; nothing is asked of the responder, which may never reply.
`Subscriptions!FairSpec` asks that the timer of every wait fires and that the
loop over subscribers goes on; events may never come.  `Bubbles!FairSpec`
asks for timers, `Sample!Fairness` for timers and that every
fetch ends, well or not; users, handlers and delayed bubbles are asked for nothing.

### Where the code and its documentation part

Four runs show a disagreement each:

* `dispatch_refusal`: the comment at `Bus.ts` 392 says a message is ignored for
  this subscription; the `return` drops it for all later subscribers too.
* `saga_start_twice`: `Saga.ts` 34 says a saga cannot be started twice; two
  overlapping starts both succeed and the later one replaces the first.
* `saga_stale_save`: the comments at `InMemoryKeyValueStore.ts` 19 and 30 speak of
  a check that the eTag has not changed and of a copy; handlers of one saga share
  the stored object and with it the new eTag, so that saves between load and save
  go unseen.
* `process_failed_changes`: `Process_persists_data.Spec.ts` 40 says a failed handler
  discards its mutations (and tests it with nothing stored); the handler changes
  the stored object in place, so that its changes stay.

Others are visible in the models, and the properties are stated so that they
hold of the code as it is:

* `cancellation-policies.md` 48 says a message that matches the one being
  processed is not dispatched.  The flag is cleared by whichever handler ends
  and only the newest message is compared (`Bus.ts` 428), so a duplicate of what
  an older handler still processes is dispatched.
* `cancellation-policies.md` 42 says a cancelled handler gets an exception
  instead of the payload of a late reply; `Bus.ts` 354 asks the caller's token only.
* `Cancelling_a_Saga.Spec.ts` 8 says completion prevents further processing; a
  handler still running brings the saga back (`RevivedByOvertakenOnly` says which).
* `cancellation-policies.md` 28 shows a policy in `@handler`; `registerClassHandler`
  passes only the identifier to `subscribe` (`Bus.ts` 186), so that it has no effect.
* `Bus.ts` 272 never reaches the error of line 279 while there are subscriptions:
  an unknown identifier ends in a `TypeError`.

## 4. What TLAPS proves

For every value of the constants that satisfies the assumptions.

`DispatchProofs`.  The core is `PolicyInvariance`: `PolicyInv` conjoins `TypeOK`,
`LatestContext` (no context is newer than the one its subscription points at),
`NeverLockedOut`, `CancelledByPolicy` (only contexts of a `cancelExisting`
subscription are ever cancelled) and `LiveIsLatest` (under `cancelExisting` and
`ignoreIfExisting` a handler that runs and was not cancelled is the one its
subscription points at, and the subscription is busy).  None of the policy properties is
inductive by itself: that two handlers never run together depends on the flag
being set whenever one runs, and that on who may clear it.  From it follow
`IgnoringIsExclusive`, `CancellingLeavesOne`, `BusyMeansLive`, `OnlyNewerCancels`
and, with an induction of its own over the messages sent, `CancelledStaysSilent`.

The second part of the module follows a message through the bus with `DeliveryInv`.  `Placed`: it is
in one place, a zero-delay timer, the delay of the transport or among those looked
up, and messages without a delay stand in the order of their sends, also across
the two stages of the timers.  `Delivered`: handlers and refusals are of messages
looked up and of subscribers found then; the suspended loop has reached exactly
the subscribers that are not pending, all of them before those that are; every
other event is `Settled`.  `CommandsSettled`: one outcome once looked up, none
before.  The properties speak of messages looked up only, so that the step that
looks one up needs to know that it was in no place and had no outcome before.
`EventsDelivered` and `CommandsHaveOneOutcome` follow.

`RequestReplyProofs`.  `TableInv` adds to `TypeOK` that a request that has timed
out is settled as such; `WaitingHasTimer`, `TableHoldsWaiting`
and `NobodyElsesAnswer` follow.  `AnswerInv` adds that every
reply on its way was given and that nothing is done for a request before it is
made; with it `CallerServed` shows that, when identifiers are distinct, every
step is a step of `Request` or a stutter.  `FirstReplyInv` adds that the replies to a
request stand in the queue in the order of their numbers (`RepliesInOrder`), and
that the entry of the table stays until the first of them is processed
(`EntryAwaitsFirst`), also when the request has timed out; `FirstReplyServed` follows.

`SagaProofs`.  `StoreInv` conjoins `TypeOK`, that a running handler has a
document of its key, and that documents with equal eTags are the same document:
without the last, passing the check of `saveAsync` would say nothing about which
document is replaced.  `TypeCorrect` and `OnlyNewReplaces` follow.  `StartedInv`
adds that a document is saved only once a handler that started its saga has
ended well; `JoinedWasStarted` follows.
`CompletedInv` adds that a running handler that holds a completed document without
having completed it was running when that was done, unless the document was saved
and the key is taken, so that its own save stores nothing new under the key;
`OnlyOvertakenRevive` follows.

The second part of `SagaProofs` is about `Process`, whose names differ from those of
`Saga` so that one module extends both.  `ProcessInv` conjoins `ProcessTypeOK`, `HasDocument` (what
runs or has run to its end has a document) and `TagsDiffer` (documents with equal
eTags are one), without which passing the check of `saveAsync` would not mean that
the document is the stored one.  `ProcessTypeCorrect` and `OverwrittenByFirstOnly`
follow.

`SubscriptionsProofs`.  `SubscriptionsInv` conjoins `TypeOK`, that every identifier
has been drawn by a call (so that the next one is new), that identifiers are
unique in the array, in the loop and among the waits, `OwnersKnown` (the
subscriptions of an instance are in its `__subscriptions__`) and `WaitsKept`: the
subscription of a wait is in the array until the first matching event that comes up
to it, which is the one being processed while the loop still has to hand it over;
it has the filter of the wait, and no instance lists its identifier, so that no call
of `unregisterHandlers` can remove it.  Once it has been handed over, every pending
subscriber comes behind the wait, so that a refusal by one of them does not count
against it.  `WaitsTakeFirst` and `UnregisteredOrError`
follow.

`PipelinesProofs`.  `PipelinesInv` conjoins `TypeOK`; `Configured` (the bus is started
before the first message, and the transport of `start` keeps its exception task);
`RoutesKept` (the route of a reply is unset or that of its request, and set once a
request was sent); `TimersOK` (a call has one timer at most, and what a handler sent
is untraced before its first timer runs); `SendsApart` (what a handler sends is an
object of its own); and, for each call, handler and message of a handler, what
they say of each other: `SendOK`, `ContextOK`, `FromHandlerOK`.  The tags a message may
carry have to be followed through copies and through objects published again,
since a sender is read from the tag long after it was written.  `SendersNamed`,
`ConversationsKept`, `RepliesRouted` and `FailuresReported` follow.

About the diagrams, `WatchingIsFree` shows that observing restricts nothing, so that
`PipelinesInv` holds of what is watched, and `DiagramInv` adds to it: `ObservedOK`
(what was observed has left, once if it was sent once, and has an identifier);
`OriginsFirst` (a message is observed before those sent for it); `Identified`
(identifiers are drawn once: two messages that were sent have the same only if they
are one); `LinkOK` (what a message says of the one it was sent for: no sender
and no correlation from outside, no sender before it left, then the identifier
and the name of the other, and in a reply from the start); and
`NamedOK` (the only subscriber of a message is named on it, also when the object is
sent again).  Every step that observes nothing is shown to be `Grown`, which keeps
the invariant; the step that observes is proved by itself.  `TreesShowOrigins` and
`RepliesPointBack` follow.  The attempt to prove the second showed that
a requester without an identifier has to be excluded; the run has none that asks.

`SampleProofs`.  `SampleInv` has a part for each route, which holds while it is open.
Common to them is `Kept`, about the middleware: identifiers of thunks are drawn
once, and every function in the queue has one message on the bus, which has one function;
`ThunksAreQueued` follows.  `CartInv` adds `CheckoutsWay` and `CartWay`.  `CheckoutsWay` says of
every checkout on the bus, as a thunk or as a request, what the cart will hold when
it is emptied: what it holds now and the additions that are reduced before, where a thunk
has all additions on the bus before its request and its own place among the clicks.
`EmptiedWasBought` follows, which is `CheckoutsWay` at the head of the bus.  `CartWay` says that the products
come in once (`LoadsOnce`), nothing is added before them (`NothingAdded`), and what was
added and is still on the bus was in stock but for what was ahead of it (`AddsBehind`),
without which nothing would be known of the inventory when it is received;
`SoldBehindOthers` follows.  `TodosInv` adds that item `k` of the
list has number `k - 1` and that those on the bus go on from there, in order
(`Numbered`), from which `TodosAreNumbered` follows.  `PagingInv` adds that what is on the bus or
being fetched is a page that came or the next one (`Fetchable`), and that the list has the first
pages once each (`PagesListed`): an answer to a fetch made twice finds its page
listed; `PagesAreInOrder` follows.

`BubblesProofs`.  What a definition becomes and what `validate` selects are data of
any length, and an induction over them cannot be instantiated.  Two forms make
them tractable.  `Select` states a filter by positions: the element at `i` is the one
whose position has `i` chosen ones up to it, so that the lemmas `Counts`, `Nth` and
`Selected` need the cardinalities of initial segments only.  And
`FlowOfDefinition` argues by the first token at which the flow is not as it should
be (`Least`), which exists since `Nat` is well-founded: a flow has at least one
bubble, a substituted bubble is followed by its substitute, an overridden one by
its answers, and no two delays stand in a row.
`BubblesInv` adds that timers, delays and handlers hold only messages that were
observed or may be sent; that an end is announced only when it was reached
(`Ended`); that at least as many messages were observed as bubbles were passed that
are not delays (`Passed`); and that errors come late (`ErrorsLate`): the bus
sees no command without a handler before the flow is over.  `ErrorsNeverCompared`
and `NothingIsMissing` follow; the second because a valid run has observed no more than
what is expected, and one that has resolved no less.  `InTurn` is what makes
`SentInTurn` inductive: what was sent is increasing and `Reached`, that is
consumed, next, or an answer of a consumed override, and a bubble not yet reached that Bubbles
would inject is behind everything sent.  `BubblesSendInTurn` has a hypothesis,
`AnswersUnmarked`: in `(!req:!resp)` the answer is marked to be injected itself, which
`addOverrideBubble` accepts, and would be sent as an answer and again in its turn.
No definition in the tests has one.

`DevToolsProofs`.  `DevToolsInv` conjoins `TypeOK`, that origins exist, that a
delivery that does not run is among the completions, and `Recording`: the records
on their way, and with a display those it shows before them, are what the
completions end with, in these positions.  A statement about the sets of both
would not tell a lost record from an old one.  `ShowsWhatEnded` and
`NodesWaitForParents` follow.

The assumptions are those the modules state about their constants: that numbers
are numbers, that filters and subscribers are about the types there are, that a
filter without a `"*"` matches one type, that names given to different types
differ, and in `Bubbles` that no test message has the type of the bus's error, or the
value that stands for no type.  None bounds the number of messages, handlers, subscriptions, transports
or displays.  The type invariants and `TimerWhilePending` of `RequestReply` are
proved and no run repeats them.

Only model-checked: `EveryMessageProcessed`, `WaitsEnd`, `FlowResolves`,
`LoadingEnds` and the fairness part of `CallerFairSpec`.  They are liveness
properties under fairness, which is beyond the prover.  Every invariant and every
action property that a run shows to hold is also a theorem.

## 5. Plan

Done: every component listed as modelled, in the order of section 2, and the proofs
of all safety properties.

Left: a second execution on one instance of Bubbles, which finds what the first left.

### Not modelled

`TimeSpan` (arithmetic without state); `DebugLoggingTask` and
`MessagePerformanceTask` (they write to the console or read the clock);
the IoC containers; the text of diagrams and of trees; the parsing of
definitions and the differences of payloads in Bubbles; sizes and drawing in
the developer tools; names, prices, texts and links in the samples, the samples
without state, and `abus-sample-logic`, whose process uses storage as `Process` does.
Tasks a program writes are modelled only as one that ends the pipeline: a task
that calls `next` twice would skip the one after it, since the calls share an
index (`Bus.ts` 472).  Errors thrown while a bus is configured end the program
before any message is sent.
