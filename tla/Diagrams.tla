------------------------------ MODULE Diagrams ------------------------------
(***************************************************************************)
(* The diagrams packages/abus-visualizations draws of the messages that    *)
(* were observed in the outbound pipeline, over the messages of Pipelines. *)
(***************************************************************************)
EXTENDS Pipelines

VARIABLE observed  \* observedMessages: the traced message objects, as they left

DiagramInit == Init /\ observed = <<>>

(* A task behind MessageTracingTask observes what leaves. *)
ObserveOutbound ==
    LET s == sends[Head(timers).send]
    IN  /\ RunOutbound
        /\ observed' = IF "trace" \in Invoked(Outbound(s.transport))
                        THEN Append(observed, s.object) ELSE observed

DiagramNext == ObserveOutbound \/ (Otherwise /\ UNCHANGED observed)

DiagramSpec == DiagramInit /\ [][DiagramNext]_<<vars, observed>>

-----------------------------------------------------------------------------
(* Convert.toTreeStructure: a message is put under the one with the        *)
(* identifier it names, the last before it, else it is a root.             *)

(* Mutant: a reply is put where its request is. *)
Correlation(m) == IF m.intent = "reply" THEN 0 ELSE m.correlation

Cause(m) == IF m.intent = "reply" THEN m.replyTo ELSE m.correlation

ParentNode(k) ==
    LET nodes == {j \in 1..(k - 1) : objects[observed[j]].id = Cause(objects[observed[k]])}
    IN  IF nodes = {} THEN 0 ELSE CHOOSE j \in nodes : \A i \in nodes : i <= j

-----------------------------------------------------------------------------
(* Mermaid.sequenceDiagram: an arrow for each message. *)

getParentMessage(m) ==
    LET parents == {j \in DOMAIN observed : objects[observed[j]].id = m.correlation}
    IN  IF parents = {} THEN <<>>
        ELSE <<objects[observed[CHOOSE j \in parents : \A i \in parents : j <= i]]>>

startProcess ==
    IF objects[observed[1]].sentBy # Unidentified THEN objects[observed[1]].sentBy ELSE "Start"

ArrowFrom(m) == IF m.sentBy # Unidentified THEN m.sentBy ELSE startProcess

(* Mutant: the reply goes to where the request went. *)
ReplyToParent(m) == getParentMessage(m)[1].receivedBy

(* A reply goes to the process that got the message the request was sent   *)
(* for; the parent of a request from outside is not there.                 *)
ReplyArrowTo(m) ==
    LET grandparent == getParentMessage(getParentMessage(m)[1])
    IN  IF grandparent = <<>> THEN startProcess ELSE grandparent[1].receivedBy

-----------------------------------------------------------------------------
Position(o) == CHOOSE k \in DOMAIN observed : observed[k] = o

(* The message a handler sent object o for. *)
Origin(o) == LET n == CHOOSE s \in DOMAIN sends : sends[s].object = o
             IN  IF sends[n].from = 0 THEN 0 ELSE sends[contexts[sends[n].from].send].object

ObservedOnce(o) == o \in ToSet(observed) /\ SentOnce(o)

(* Convert.ts 9-25: a message whose origin was observed is a child of it   *)
(* in the tree, one that came from outside a root: the tree is that of who *)
(* sent what for what, since no message leaves before its origin.          *)
TreeOfOrigins ==
    \A k \in DOMAIN observed :
        LET o == observed[k]
        IN  SentOnce(o) =>
              /\ Origin(o) = 0 => ParentNode(k) = 0
              /\ (Origin(o) # 0 /\ ObservedOnce(Origin(o))) => ParentNode(k) = Position(Origin(o))

(* The arrow of a reply names the only subscriber of a message; of several *)
(* the tags are on copies, and to one without a name the arrow says        *)
(* "unhandled".                                                            *)
Named(subs) == Len(subs) = 1 /\ subs[1] # Unidentified

(* Mermaid.ts 50-85: the arrow of a reply goes back to where the arrow of  *)
(* its request comes from, if that is the application or a handler that is *)
(* named.                                                                  *)
RepliesDrawnToRequester ==
    \A o \in ToSet(observed) :
        (objects[o].intent = "reply" /\ ObservedOnce(Origin(o))) =>
            LET asker == Origin(Origin(o))
            IN  (asker = 0 \/ (ObservedOnce(asker) /\ Named(Subscribers[objects[asker].type]))) =>
                    ReplyArrowTo(objects[o]) = ArrowFrom(objects[Origin(o)])
=============================================================================
