----------------------------- MODULE MCDispatch -----------------------------
(* Small instances of Dispatch. *)
EXTENDS Dispatch

Cmd(p) == [type |-> "Cmd", intent |-> "send", payload |-> p, delayed |-> FALSE]
Evt(p) == [type |-> "Evt", intent |-> "publish", payload |-> p, delayed |-> FALSE]
Note == [type |-> "Note", intent |-> "publish", payload |-> "p", delayed |-> FALSE]
LateCmd == [Cmd("p") EXCEPT !.delayed = TRUE]

Types == {"Cmd", "Evt", "Note", "Error"}

(* Two subscriptions of one event, one policy each. *)
PoliciesFilter == [s \in 1..2 |-> {"Evt"}]
PoliciesPolicy == <<"cancelExisting", "ignoreIfExisting">>
PoliciesApp == {Evt("p")}
PoliciesHandler == {Note}

(* Commands, events, a wildcard filter, errors and a delay; subscriptions  *)
(* come and go, so that a command has none, one or two subscribers.        *)
RoutingFilter == <<{"Evt", "Error"}, {"Cmd"}, {"Evt"}, {"Cmd"}>>
RoutingPolicy == <<"none", "ignoreIfDuplicate", "ignoreIfExisting", "none">>
RoutingApp == {Cmd("p"), Evt("p"), LateCmd}

(* Two subscribers of an event; the first may refuse it. *)
RefusalFilter == <<{"Evt"}, {"Evt"}>>
RefusalPolicy == <<"ignoreIfExisting", "none">>
None == {}
=============================================================================
