------------------------------- MODULE Paging -------------------------------
(***************************************************************************)
(* The real-world sample: pages of users and repositories that load what   *)
(* they show from a server, page by page.  Thunks decide what to fetch     *)
(* when their message comes, the api middleware publishes the REQUEST and  *)
(* calls the server at once, and the reducers keep what was answered.      *)
(*                                                                         *)
(* A key is a login or the full name of a repository; starredByUser and    *)
(* stargazersByRepo are one function of keys here.                         *)
(***************************************************************************)
EXTENDS Store

CONSTANTS
    Login, Repo,
    Owner,      \* Owner[r]: the login a repository belongs to
    Pages,      \* Pages[k]: how many pages the server has for k, at least one
    Listed,     \* Listed[k]: keys that are on the pages of k
    Nowhere,    \* no page is shown: before the first, or after an error in it
    MaxActs, MaxFailures, MaxTestUsers, MaxCalls, MaxMessages  \* bounds

Key == Login \cup Repo

PagingAssumption ==
    /\ Owner \in [Repo -> Login]
    /\ Pages \in [Key -> Nat \ {0}]
    /\ \A l \in Login : Listed[l] \subseteq Repo
    /\ \A r \in Repo : Listed[r] \subseteq Login
    /\ Nowhere \notin Key
    /\ {MaxActs, MaxFailures, MaxTestUsers, MaxCalls, MaxMessages} \subseteq Nat

VARIABLES
    page,          \* the key of the route that is open
    pagination,    \* pagination[k]; ids are the numbers of the pages
    known,         \* entities.users and entities.repos
    full,          \* those with the fields the pages require
    errorMessage,  \* is there one?
    calls,         \* fetches that have not been answered
    count,         \* of the test users loadStargazers has thought of
    testUsers,     \* timers that load one
    acts,          \* what the user has done
    failures       \* calls that have failed

pagingVars == <<page, pagination, known, full, errorMessage, calls, count, testUsers, acts, failures, storeVars>>
tests == <<count, testUsers>>
view == <<page, acts>>
state == <<pagination, known, full, errorMessage>>

Null == 0
First == 1

(* nextPageUrl is First while it is undefined, Null after the last page. *)
NoPages == [isFetching |-> FALSE, nextPageUrl |-> First, pageCount |-> 0, ids |-> <<>>]

PagingInit ==
    /\ page = Nowhere
    /\ pagination = [k \in Key |-> NoPages]
    /\ known = {}
    /\ full = {}
    /\ errorMessage = FALSE
    /\ calls = <<>>
    /\ count = 10
    /\ testUsers = 0
    /\ acts = 0
    /\ failures = 0

-----------------------------------------------------------------------------
(* The user *)

Act == acts < MaxActs /\ Len(bus) < MaxMessages /\ acts' = acts + 1

loadEntity(k) == [run |-> "loadEntity", key |-> k]
loadPages(k, nextPage) == [run |-> "loadPages", key |-> k, nextPage |-> nextPage]
loadData(k) == <<loadEntity(k), loadPages(k, FALSE)>>

(* What is mounted at a route: there is no Switch, so that the page of a   *)
(* repository has the one of its owner below it.                           *)
Mounted(k) ==
    CASE k \in Repo  -> <<k, Owner[k]>>
      [] k \in Login -> <<k>>
      [] OTHER       -> <<>>

(* loadData of what is mounted now, or shown for another user.  From one   *)
(* repository to another it is given the name in place of props, an error  *)
(* that makes React remove everything.                                     *)
Loaded(j) ==
    IF j \in ToSet(Mounted(page)) \/ (j \in Repo /\ page \in Repo) THEN <<>> ELSE loadData(j)

Visit(k) ==
    /\ Act
    /\ k # page
    /\ acts > 0 => page # Nowhere
    /\ page' = IF page \in Repo /\ k \in Repo THEN Nowhere ELSE k
    /\ Dispatched(IF k \in Repo THEN Loaded(k) \o Loaded(Owner[k]) ELSE Loaded(k))
    /\ UNCHANGED <<state, calls, tests, failures>>

(* RepoPage and UserPage show the list once they know their entities, List *)
(* shows the button after the first page unless there is no other.         *)
Shown(k) == ToSet(Mounted(k)) \subseteq known

ClickLoadMore(k) ==
    /\ Act
    /\ k \in ToSet(Mounted(page)) /\ Shown(k)
    /\ pagination[k].pageCount > 0
    /\ pagination[k].nextPageUrl # Null
    /\ ~pagination[k].isFetching
    /\ Dispatched(<<loadPages(k, TRUE)>>)
    /\ UNCHANGED <<state, calls, tests, page, failures>>

ClickDismiss ==
    /\ Act
    /\ page # Nowhere /\ errorMessage
    /\ Dispatched(<<[type |-> "RESET_ERROR_MESSAGE"]>>)
    /\ UNCHANGED <<state, calls, tests, page, failures>>

-----------------------------------------------------------------------------
(* The api middleware: the REQUEST goes on the bus, the call to the server *)
(* starts.  An endpoint that is no string raises an error in the thunk,    *)
(* which the bus publishes.                                                *)
Call(type, k, url) == [type |-> type, key |-> k, url |-> url]
Reported(call, type) == [type |-> type, of |-> call.type, key |-> call.key, url |-> call.url]

api(call) ==
    IF call.url = Null
    THEN /\ ThunkDispatches(<<[type |-> "Bus.Error"]>>)
         /\ UNCHANGED calls
    ELSE /\ ThunkDispatches(<<Reported(call, "REQUEST")>>)
         /\ calls' = Append(calls, call)

(* loadUser and loadRepo, unless what they load is there; a test user is   *)
(* never there.                                                            *)
RunLoadEntity ==
    /\ thunk.run = "loadEntity"
    /\ IF thunk.key \in full
       THEN ThunkDispatches(<<>>) /\ UNCHANGED calls
       ELSE api(Call("entity", thunk.key, First))
    /\ UNCHANGED tests

(* loadStarred does nothing for pages that are there, unless asked for the *)
(* next one.                                                               *)
RunLoadStarred ==
    LET p == pagination[thunk.key]
    IN  /\ thunk.run = "loadPages"
        /\ thunk.key \in Login
        /\ IF p.pageCount > 0 /\ ~thunk.nextPage
           THEN ThunkDispatches(<<>>) /\ UNCHANGED calls
           ELSE api(Call("pages", thunk.key, p.nextPageUrl))
        /\ UNCHANGED tests

(* loadStargazers always fetches, and loads a test user some time later. *)
RunLoadStargazers ==
    /\ thunk.run = "loadPages"
    /\ thunk.key \in Repo
    /\ api(Call("pages", thunk.key, pagination[thunk.key].nextPageUrl))
    /\ count' = count + 1
    /\ testUsers' = testUsers + 1

RunThunk ==
    /\ ReceivedThunk
    /\ Len(calls) < MaxCalls
    /\ RunLoadEntity \/ RunLoadStarred \/ RunLoadStargazers
    /\ UNCHANGED <<state, view, failures>>

LoadTestUser ==
    /\ testUsers > 0
    /\ count - testUsers < 10 + MaxTestUsers
    /\ testUsers' = testUsers - 1
    /\ UNCHANGED count
    /\ Dispatched(<<loadEntity(Nowhere)>>)
    /\ UNCHANGED <<state, calls, view, failures>>

(* The server answers: there is no test user, all else may fail or not. *)
Answer(n, outcome) ==
    /\ n \in DOMAIN calls
    /\ IF calls[n].key = Nowhere
       THEN outcome = "FAILURE" /\ UNCHANGED failures
       ELSE /\ outcome = "FAILURE" => failures < MaxFailures
            /\ failures' = IF outcome = "FAILURE" THEN failures + 1 ELSE failures
    /\ Dispatched(<<Reported(calls[n], outcome)>>)
    /\ calls' = RemoveAt(calls, n)
    /\ UNCHANGED <<state, tests, view>>

AnyAnswer == \E n \in DOMAIN calls, outcome \in {"SUCCESS", "FAILURE"} : Answer(n, outcome)

-----------------------------------------------------------------------------
(* The reducers *)

(* Mutants: what is answered is appended; a failure leaves isFetching set. *)
AppendPage(ids, n) == Append(ids, n)
FailureIgnored(p) == p

(* lodash union of the ids and those of an answer. *)
Union(ids, n) == IF n \in ToSet(ids) THEN ids ELSE Append(ids, n)

NextPageUrl(k, n) == IF n < Pages[k] THEN n + 1 ELSE Null

Failed(p) == [p EXCEPT !.isFetching = FALSE]

(* updatePagination *)
Paginated(p) ==
    CASE action.type = "REQUEST" -> [p EXCEPT !.isFetching = TRUE]
      [] action.type = "SUCCESS" ->
           [isFetching |-> FALSE, ids |-> Union(p.ids, action.url),
            nextPageUrl |-> NextPageUrl(action.key, action.url), pageCount |-> p.pageCount + 1]
      [] action.type = "FAILURE" -> Failed(p)

reducePagination ==
    pagination' = IF action.type \in {"REQUEST", "SUCCESS", "FAILURE"} /\ action.of = "pages"
                  THEN [pagination EXCEPT ![action.key] = Paginated(@)] ELSE pagination

(* A repository comes with its owner, without all fields; so does a user   *)
(* on the list of a repository.                                            *)
Brought ==
    LET answer == IF action.of = "entity" THEN {action.key} ELSE Listed[action.key]
    IN  answer \cup {Owner[r] : r \in answer \cap Repo}

reduceEntities ==
    IF action.type = "SUCCESS"
    THEN /\ known' = known \cup Brought
         /\ full' = full \cup (IF action.of = "entity" THEN {action.key} ELSE Listed[action.key] \cap Repo)
    ELSE UNCHANGED <<known, full>>

reduceErrorMessage ==
    errorMessage' = ((action.type = "FAILURE" \/ errorMessage) /\ action.type # "RESET_ERROR_MESSAGE")

Reduce ==
    /\ Received
    /\ reducePagination
    /\ reduceEntities
    /\ reduceErrorMessage
    /\ Dispatch(<<>>, Tail(bus), queue)
    /\ UNCHANGED <<calls, tests, view, failures>>

PagingNext ==
    \/ \E k \in Key : Visit(k) \/ ClickLoadMore(k)
    \/ ClickDismiss
    \/ RunThunk
    \/ LoadTestUser
    \/ AnyAnswer
    \/ Reduce

-----------------------------------------------------------------------------
(* actions/index.js 80-135, paginate.ts 18-45: pages fetched twice, failed *)
(* or answered in any order are listed once each, from the first on        *)
(* without a gap, and the next one asked for is one of those or the one    *)
(* after them.                                                             *)
PagesInOrder ==
    \A k \in Key :
        LET p == pagination[k]
        IN  /\ p.ids = [n \in 1..Len(p.ids) |-> n]
            /\ p.nextPageUrl <= Len(p.ids) + 1
            /\ p.nextPageUrl = Null => Len(p.ids) = Pages[k]

(* paginate.ts 25-41, api.js 112-124: a list does not say for ever that it *)
(* is loading, whether its fetches succeed or not.                         *)
LoadingEnds == \A k \in Key : pagination[k].isFetching ~> ~pagination[k].isFetching
=============================================================================
