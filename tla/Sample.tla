------------------------------- MODULE Sample -------------------------------
(***************************************************************************)
(* The sample application opens one of its routes, each with a store and a *)
(* bus of its own.                                                         *)
(***************************************************************************)
EXTENDS Naturals

CONSTANTS Route, Product, Stock, Filter, Login, Repo, Owner, Pages, Listed, Nowhere,
          MaxCartClicks, MaxUses, MaxActs, MaxFailures,
          MaxTestUsers, MaxCalls, MaxMessages

VARIABLES route, bus, queue, guids,
          inventory, addedIds, quantityById, shop, cartClicks,
          todos, visibilityFilter, nextTodoId, uses,
          page, pagination, known, full, errorMessage, calls, count, testUsers, acts, failures

S == INSTANCE Store
C == INSTANCE Cart WITH MaxClicks <- MaxCartClicks, clicks <- cartClicks
T == INSTANCE Todos
P == INSTANCE Paging

(* What the routes assume of their constants. *)
ASSUME RoutesAssumption == C!CartAssumption /\ T!TodosAssumption /\ P!PagingAssumption

cartState == <<inventory, addedIds, quantityById, shop, cartClicks>>
todosState == <<todos, visibilityFilter, nextTodoId, uses>>
pagingState == <<page, pagination, known, full, errorMessage, calls, count, testUsers, acts, failures>>

vars == <<route, bus, queue, guids, cartState, todosState, pagingState>>

(* The route that is opened begins to use its store. *)
Init ==
    /\ route \in Route
    /\ C!CartInit /\ T!TodosInit /\ P!PagingInit
    /\ IF route = "shopping-cart" THEN C!CartStarts ELSE S!StoreInit

(* A step of one route leaves the others alone. *)
ShoppingCart(A) == route = "shopping-cart" /\ A /\ UNCHANGED <<route, todosState, pagingState>>
Listing(A) == route = "todos" /\ A /\ UNCHANGED <<route, cartState, pagingState>>
RealWorld(A) == route = "real-world" /\ A /\ UNCHANGED <<route, cartState, todosState>>

Next == ShoppingCart(C!CartNext) \/ Listing(T!TodosNext) \/ RealWorld(P!PagingNext)

Spec == Init /\ [][Next]_vars

(* In the browser timers fire and every fetch ends. *)
Fairness ==
    /\ WF_vars(RealWorld(P!RunThunk))
    /\ WF_vars(RealWorld(P!Reduce))
    /\ WF_vars(RealWorld(P!AnyAnswer))

-----------------------------------------------------------------------------
(* redux-abus-thunk 16-19, 46-55: thunk messages and functions in the      *)
(* queue belong together, whatever a route dispatches.                     *)
ThunksQueued == S!ThunksQueued

(* actions/index.js 36-48: a checkout empties what it buys, but for what   *)
(* was clicked before it and came in between, and buys nothing that was    *)
(* emptied, but for what another checkout on its way did.                  *)
EmptiedIsBought == route = "shopping-cart" => C!EmptiedIsBought

(* actions/index.js 25-34: more is put into the cart than is in stock only *)
(* while additions that were checked earlier are still on the bus.         *)
OversoldByThoseAhead == [][route = "shopping-cart" => C!AddedBehind]_vars

(* todos.js 1-21: todos are listed and numbered in the order of the clicks. *)
TodosNumberedInOrder == route = "todos" => T!TodosNumberedInOrder

(* paginate.ts 16-46: the pages of a list arrive in their order.           *)
PagesInOrder == P!PagesInOrder

(* paginate.ts 27-42: what is loading has loaded, or failed, in the end.   *)
LoadingEnds == P!LoadingEnds
=============================================================================
