-------------------------------- MODULE Todos --------------------------------
(***************************************************************************)
(* The todo sample: actions numbered when they are created, a reducer that *)
(* keeps them in the order they come back from the bus, and a subscription *)
(* of the program's own that answers a change of the filter with todos.    *)
(***************************************************************************)
EXTENDS Store

CONSTANTS Filter, MaxUses  \* bound on what the user does

TodosAssumption == "SHOW_ALL" \in Filter /\ MaxUses \in Nat

VARIABLES
    todos,             \* in order: id and completed
    visibilityFilter,
    nextTodoId,
    uses

todosVars == <<todos, visibilityFilter, nextTodoId, uses, storeVars>>

TodosInit ==
    /\ todos = <<>>
    /\ visibilityFilter = "SHOW_ALL"
    /\ nextTodoId = 0
    /\ uses = 0

addTodo(id) == [type |-> "ADD_TODO", id |-> id]

getVisibleTodos ==
    {todos[k].id : k \in {n \in DOMAIN todos :
        \/ visibilityFilter = "SHOW_ALL"
        \/ visibilityFilter = "SHOW_COMPLETED" /\ todos[n].completed
        \/ visibilityFilter = "SHOW_ACTIVE" /\ ~todos[n].completed}}

-----------------------------------------------------------------------------
(* What the user does; the link of the filter that is set is disabled. *)
Use(dispatched) ==
    /\ uses < MaxUses
    /\ uses' = uses + 1
    /\ Dispatched(<<dispatched>>)
    /\ UNCHANGED <<todos, visibilityFilter>>

SubmitTodo == Use(addTodo(nextTodoId)) /\ nextTodoId' = nextTodoId + 1

ClickTodo ==
    \E id \in getVisibleTodos : Use([type |-> "TOGGLE_TODO", id |-> id]) /\ UNCHANGED nextTodoId

ClickFilter ==
    \E f \in Filter \ {visibilityFilter} :
        Use([type |-> "SET_VISIBILITY_FILTER", filter |-> f]) /\ UNCHANGED nextTodoId

-----------------------------------------------------------------------------
(* Mutant: the todos of the subscription are not numbered. *)
UnnumberedTodos == [i \in 1..5 |-> addTodo(nextTodoId)]
MoreTodos == [i \in 1..5 |-> addTodo(nextTodoId + i - 1)]

(* The exact subscription comes before "*": it publishes a message nobody  *)
(* knows and five todos, then the reducer is called.                       *)
reduceFilter ==
    /\ action.type = "SET_VISIBILITY_FILTER"
    /\ visibilityFilter' = action.filter
    /\ nextTodoId' = nextTodoId + 5
    /\ Dispatch(<<[type |-> "test_message"]>> \o MoreTodos, Tail(bus), queue)
    /\ UNCHANGED todos

reduceTodos ==
    /\ action.type # "SET_VISIBILITY_FILTER"
    /\ todos' = CASE action.type = "ADD_TODO" -> Append(todos, [id |-> action.id, completed |-> FALSE])
                  [] action.type = "TOGGLE_TODO" ->
                       [k \in DOMAIN todos |-> IF todos[k].id = action.id
                                               THEN [todos[k] EXCEPT !.completed = ~@] ELSE todos[k]]
                  [] OTHER -> todos
    /\ Dispatch(<<>>, Tail(bus), queue)
    /\ UNCHANGED <<visibilityFilter, nextTodoId>>

Reduce ==
    /\ Received
    /\ reduceFilter \/ reduceTodos
    /\ UNCHANGED uses

TodosNext == SubmitTodo \/ ClickTodo \/ ClickFilter \/ Reduce

-----------------------------------------------------------------------------
(* actions/index.js 1-6, index.tsx 16-24: whoever creates a todo, the user *)
(* or the subscription, and however they interleave, todos are numbered    *)
(* once, in the order in which they are listed, and none is lost.          *)
TodosNumberedInOrder ==
    LET created == {k \in DOMAIN bus : bus[k].type = "ADD_TODO"}
    IN  /\ \A k \in DOMAIN todos : todos[k].id = k - 1
        /\ {bus[k].id : k \in created} = Len(todos)..(nextTodoId - 1)
        /\ \A j, k \in created : j < k => bus[j].id < bus[k].id
=============================================================================
