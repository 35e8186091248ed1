------------------------------ MODULE MCBubbles ------------------------------
(* A small instance of Bubbles: a command whose handler sends a request    *)
(* and publishes an event.                                                 *)
EXTENDS Bubbles

B(name, intent, source) ==
    [name |-> name, intent |-> intent, source |-> source, delay |-> FALSE, with |-> <<>>]

Types == [n \in {"cmd", "req", "resp", "evt", "ext"} |->
            CASE n = "cmd" -> "Cmd" [] n = "req" -> "Req" [] n = "resp" -> "Req.reply"
              [] n = "evt" -> "Evt" [] OTHER -> "Ext"]
Replies == [t \in {"Req", "Cmd"} |-> IF t = "Req" THEN "Req.reply" ELSE "Cmd.reply"]

Cmd == Plain(B("cmd", "send", "inject"))
Evt == Plain(B("evt", "publish", "system"))

\* (!cmd)(>req)(!@resp)(*evt)   (!cmd:*evt:--*ext)-   (!cmd)(:*evt)
\* (!cmd)-(!*ext)--(*evt)       (*evt)                (!>req:@resp)-
Flows == {
    <<Cmd, Plain(B("req", "sendReply", "system")), Plain(B("resp", "reply", "inject")), Evt>>,
    <<Override(B("cmd", "send", "inject"),
               <<B("evt", "publish", "system"), [B("ext", "publish", "system") EXCEPT !.delay = TRUE]>>), Delay>>,
    <<Cmd, Substitute(B("evt", "publish", "system"))>>,
    <<Cmd, Delay, Plain(B("ext", "publish", "inject")), Delay, Delay, Evt>>,
    <<Evt>>,
    <<Override(B("req", "sendReply", "inject"), <<B("resp", "reply", "system")>>), Delay>>}

SentMessage(type, intent) == [type |-> type, intent |-> intent, replyTo |-> 0]
UntilEvent == {<<SentMessage("Cmd", "send"), "Evt">>}
HandlerMessages == [t \in {"Cmd"} |-> {SentMessage("Evt", "publish"), SentMessage("Req", "sendReply")}]
=============================================================================
