------------------------------ MODULE MCSample ------------------------------
(* A small instance of Sample: one item of each product, one user with two *)
(* pages of repositories, one repository with one page of users.           *)
(*                                                                         *)
(* DevTools is next to it, as its tools are on the pages of the sample.    *)
(* They have a bus of their own, and handlers of any application, so that  *)
(* a run has either one of the routes or the tools.                        *)
EXTENDS Sample, DevTools

CONSTANT Tools  \* the page that is looked at for its tools only

ShopStock == [p \in Product |-> 1]
OwnerOf == [r \in Repo |-> CHOOSE l \in Login : TRUE]
PagesOf == [k \in Login \cup Repo |-> IF k \in Login THEN 2 ELSE 1]
ListedOn == [k \in Login \cup Repo |-> IF k \in Login THEN {CHOOSE r \in Repo : TRUE} ELSE Login]

Counts == {1, 2}

PagesInit ==
    /\ Init /\ DevToolsInit
    /\ route # Tools => tool = "DevTools2"

PagesNext ==
    \/ Next /\ UNCHANGED devToolsVars
    \/ route = Tools /\ DevToolsNext /\ UNCHANGED vars

PagesSpec == PagesInit /\ [][PagesNext]_<<vars, devToolsVars>> /\ Fairness
=============================================================================
