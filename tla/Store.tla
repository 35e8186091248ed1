-------------------------------- MODULE Store --------------------------------
(***************************************************************************)
(* A redux store whose actions travel over a bus.  redux-abus publishes    *)
(* what is dispatched and hands it to the reducer when it comes back;      *)
(* redux-abus-thunk keeps a function in a queue and sends the command      *)
(* ABus.Thunk in its place, whose handler runs the function.  Both pass    *)
(* two zero-delay timers, first in first out: one queue here.  A thunk     *)
(* dispatches with the store, since its action is a function whenever it   *)
(* is in the queue: context.publishAsync is never reached.                 *)
(*                                                                         *)
(* The stores of the samples extend this module with their state.          *)
(***************************************************************************)
EXTENDS Naturals, FiniteSets, SequencesExt

VARIABLES
    bus,    \* messages published and not yet received
    queue,  \* functions that wait for their message, by thunkId
    guids   \* how many thunkIds were drawn

storeVars == <<bus, queue, guids>>

StoreInit ==
    /\ bus = <<>>
    /\ queue = <<>>
    /\ guids = 0

(* An action is a record with a type, a thunk one with a field run. *)
IsThunk(a) == "run" \in DOMAIN a

(* Mutant: the thunks dispatched together share a thunkId. *)
SharedIds(actions) == [k \in DOMAIN actions |-> guids + 1]

(* The thunkIds given to a sequence of dispatched actions. *)
NewIds(actions) ==
    [k \in DOMAIN actions |-> guids + Cardinality({j \in 1..k : IsThunk(actions[j])})]

(* store.dispatch of each of the actions, with the messages before them on *)
(* the bus and the functions left in the queue.                            *)
Dispatch(actions, before, left) ==
    LET ids    == NewIds(actions)
        thunks == {k \in DOMAIN actions : IsThunk(actions[k])}
    IN  /\ guids' = guids + Cardinality(thunks)
        /\ bus' = before \o
             [k \in DOMAIN actions |->
                IF IsThunk(actions[k]) THEN [type |-> "ABus.Thunk", thunkId |-> ids[k]] ELSE actions[k]]
        /\ queue' = [id \in DOMAIN left \cup {ids[k] : k \in thunks} |->
                       IF id \in DOMAIN left THEN left[id]
                       ELSE actions[CHOOSE k \in thunks : ids[k] = id]]

(* What the program does by itself, a click or a timer say. *)
Dispatched(actions) == Dispatch(actions, bus, queue)

(* The first message has reached its subscription: "*", where next is      *)
(* called, or the one of thunks, whose function leaves the queue and runs. *)
Received == bus # <<>> /\ Head(bus).type # "ABus.Thunk"
action == Head(bus)

ReceivedThunk == bus # <<>> /\ Head(bus).type = "ABus.Thunk"
thunk == queue[Head(bus).thunkId]

ThunkDispatches(actions) ==
    Dispatch(actions, Tail(bus), [id \in DOMAIN queue \ {Head(bus).thunkId} |-> queue[id]])

-----------------------------------------------------------------------------
Thunks == {k \in DOMAIN bus : bus[k].type = "ABus.Thunk"}

(* redux-abus-thunk 16-19, 46-55: every thunk message finds its function   *)
(* in the queue, each function is run by one message, and none is left     *)
(* behind when the messages have been received.                            *)
ThunksQueued ==
    /\ {bus[k].thunkId : k \in Thunks} = DOMAIN queue
    /\ Cardinality(Thunks) = Cardinality(DOMAIN queue)
=============================================================================
