------------------------------ MODULE Request -------------------------------
(***************************************************************************)
(* What sendWithReplyAsync promises its caller: a request is settled once, *)
(* by an answer its own responder gave, by the timeout, or, once the token *)
(* is cancelled, as cancelled - and it is settled in the end, whatever the *)
(* responder does.                                                         *)
(***************************************************************************)
CONSTANT Request

VARIABLES
    promise,         \* what the caller of each request sees
    tokenCancelled,  \* whether it has cancelled the token of the request
    answers          \* the answers responders have given, <<request, kind>>

vars == <<promise, tokenCancelled, answers>>

AnswerKinds == {"payload", "error", "cancelled"}

Init ==
    /\ promise = [r \in Request |-> "idle"]
    /\ tokenCancelled = [r \in Request |-> FALSE]
    /\ answers = {}

Ask(r) ==
    /\ promise[r] = "idle"
    /\ promise' = [promise EXCEPT ![r] = "pending"]
    /\ UNCHANGED <<tokenCancelled, answers>>

Cancel(r) ==
    /\ tokenCancelled' = [tokenCancelled EXCEPT ![r] = TRUE]
    /\ UNCHANGED <<promise, answers>>

Answer(r, kind) ==
    /\ promise[r] # "idle"
    /\ answers' = answers \cup {<<r, kind>>}
    /\ UNCHANGED <<promise, tokenCancelled>>

Settle(r) ==
    /\ promise[r] = "pending"
    /\ \E how \in AnswerKinds \cup {"timeout"} :
         /\ \/ how = "timeout"
            \/ how = "cancelled" /\ tokenCancelled[r]
            \/ <<r, how>> \in answers /\ ~tokenCancelled[r]
         /\ promise' = [promise EXCEPT ![r] = how]
    /\ UNCHANGED <<tokenCancelled, answers>>

Next ==
    \E r \in Request :
        Ask(r) \/ Cancel(r) \/ Settle(r) \/ \E kind \in AnswerKinds : Answer(r, kind)

Spec == Init /\ [][Next]_vars

FairSpec == Spec /\ \A r \in Request : WF_vars(Settle(r))
=============================================================================
