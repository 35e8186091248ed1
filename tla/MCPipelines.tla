----------------------------- MODULE MCPipelines -----------------------------
(* A small instance of Pipelines: an event with four subscribers, the      *)
(* first and third without an identifier, the second with cancelExisting,  *)
(* and a request that may be routed.                                       *)
EXTENDS Diagrams

Types == {"Event", "Request", "Error"}
SubscribersOf == [t \in Types |-> CASE t = "Event" -> <<"none", "A", "none", "B">> [] t = "Request" -> <<"B">> [] OTHER -> <<>>]
ReplyTypes == [t \in Types |-> CASE t = "Event" -> "Event.reply" [] t = "Request" -> "Request.reply" [] OTHER -> "Error.reply"]
CancellingOf == {<<"Event", 2>>}
TaskUses == {<<"outLogical", "trace">>, <<"inInvoke", "stop">>}
AppSends == {<<"Event", "publish">>, <<"Request", "sendReply">>, <<"Event", "send">>}
HandlerSends == {<<"Event", "publish">>, <<"Request", "sendReply">>}
=============================================================================
