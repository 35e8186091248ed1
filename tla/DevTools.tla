------------------------------ MODULE DevTools ------------------------------
(***************************************************************************)
(* packages/abus-devtools: a task around the handlers of an application's  *)
(* bus records every delivery on a bus of its own, which a display reads.  *)
(* There are two pairs of them: DevToolsTask with ABusMonitor, inside a    *)
(* dock that starts hidden, and AbusMonitorTask with the store of          *)
(* DevTools2, which starts visible.                                        *)
(*                                                                         *)
(* A display is made when React mounts it and gone when it is unmounted;   *)
(* one that comes back starts empty.  The bus of ABusMonitor is started by *)
(* its first display, and what is published before that is refused; that   *)
(* of DevTools2 runs from the beginning.                                   *)
(***************************************************************************)
EXTENDS Naturals, FiniteSets, SequencesExt

CONSTANTS
    SubscriberCounts,  \* how many subscribers a message may have
    MaxSent, MaxMounts, MaxKeys  \* bounds

ASSUME DevToolsAssumption ==
    /\ SubscriberCounts \subseteq Nat
    /\ {MaxSent, MaxMounts, MaxKeys} \subseteq Nat

VARIABLES
    tool,         \* the display the application uses
    messages,     \* messages[m]: the delivery whose handler sent it, 0: none
    processed,    \* how many of them the application's bus has processed
    deliveries,   \* messages handed to subscribers: [message, status]
    completions,  \* history: the deliveries that ended, in that order
    started,      \* the bus of the display has a transport
    transit,      \* records on that bus, first in first out
    mounted,      \* there is a display
    shown,        \* the deliveries it has received
    visible,      \* the state isVisible of the dock, of DevTools2
    mounts, keys  \* bounded counters

app == <<messages, processed, deliveries, completions>>
dock == <<visible, keys>>
devToolsVars == <<tool, app, started, transit, mounted, shown, mounts, dock>>

DevToolsInit ==
    /\ tool \in {"ABusMonitor", "DevTools2"}
    /\ messages = <<>> /\ processed = 0 /\ deliveries = <<>> /\ completions = <<>>
    /\ started = (tool = "DevTools2")
    /\ transit = <<>>
    /\ mounted = FALSE /\ shown = <<>> /\ mounts = 0
    /\ visible = FALSE /\ keys = 0

-----------------------------------------------------------------------------
(* The application, or a handler, sends a message, which reaches its       *)
(* subscribers later.  A handler that has returned may still send, by work *)
(* it did not wait for, as the fetch of api.js does.                       *)
Running(d) == deliveries[d].status = "running"

Send(d) ==
    /\ Len(messages) < MaxSent
    /\ d \in 0..Len(deliveries)
    /\ messages' = Append(messages, d)
    /\ UNCHANGED <<tool, processed, deliveries, completions, started, transit, mounted, shown, mounts, dock>>

Process ==
    /\ processed < Len(messages)
    /\ processed' = processed + 1
    /\ \E n \in SubscriberCounts :
          deliveries' = deliveries \o [k \in 1..n |-> [message |-> processed + 1, status |-> "running"]]
    /\ UNCHANGED <<tool, messages, completions, started, transit, mounted, shown, mounts, dock>>

(* Mutant: an error passes the task by. *)
OnSuccess(d, how) == IF started /\ how = "ended" THEN Append(transit, d) ELSE transit

(* The task publishes after next(), which has caught what the handler      *)
(* raised; a bus that has not been started refuses.                        *)
Recorded(d, how) == IF started THEN Append(transit, d) ELSE transit

(* A handler has ended, or raised an error. *)
End(d, how) ==
    /\ Running(d)
    /\ deliveries' = [deliveries EXCEPT ![d].status = "ended"]
    /\ completions' = Append(completions, d)
    /\ transit' = Recorded(d, how)
    /\ UNCHANGED <<tool, messages, processed, started, mounted, shown, mounts, dock>>

-----------------------------------------------------------------------------
(* How the display is first shown. *)
Opened == tool = "DevTools2"

(* The constructor of ABusMonitor, or of DevTools2. *)
Mount ==
    /\ ~mounted
    /\ mounts < MaxMounts
    /\ mounts' = mounts + 1
    /\ mounted' = TRUE
    /\ shown' = <<>>
    /\ started' = TRUE
    /\ visible' = Opened
    /\ UNCHANGED <<tool, app, transit, keys>>

(* The handler of ABusMonitor is unregistered; the store of a DevTools2    *)
(* that is gone goes on without anybody to look at it.                     *)
Unmount ==
    /\ mounted
    /\ mounted' = FALSE
    /\ UNCHANGED <<tool, app, started, transit, shown, mounts, dock>>

(* Mutant: the newest is put first. *)
PutFirst(d) == <<d>> \o shown

(* ABusMonitor pushes the message, the reducer of DevTools2 appends it. *)
processCompletedMessage(d) == Append(shown, d)

Receive ==
    /\ transit # <<>>
    /\ transit' = Tail(transit)
    /\ shown' = IF mounted THEN processCompletedMessage(Head(transit)) ELSE shown
    /\ UNCHANGED <<tool, app, started, mounted, mounts, dock>>

(* ctrl-h, wherever the focus is, while the listener of the display is     *)
(* there; plain keys do nothing.                                           *)
Listening == mounted
Toggled == ~visible

handleKeyDown ==
    /\ Listening
    /\ keys < MaxKeys
    /\ keys' = keys + 1
    /\ visible' = Toggled
    /\ UNCHANGED <<tool, app, started, transit, mounted, shown, mounts>>

(* The X of DevTools2. *)
closeTools ==
    /\ mounted /\ tool = "DevTools2" /\ visible
    /\ visible' = FALSE
    /\ UNCHANGED <<tool, app, started, transit, mounted, shown, mounts, keys>>

DevToolsNext ==
    \/ \E d \in 0..Len(deliveries) : Send(d)
    \/ Process
    \/ \E d \in DOMAIN deliveries, how \in {"ended", "failed"} : End(d, how)
    \/ Mount \/ Unmount \/ Receive \/ handleKeyDown \/ closeTools

DevToolsSpec == DevToolsInit /\ [][DevToolsNext]_devToolsVars

-----------------------------------------------------------------------------
(* The diagram: a node for each delivery, under one of the message whose   *)
(* handler sent its message, or under the root.                            *)
messageId(d) == deliveries[d].message
origin(d) == messages[messageId(d)]

HasNode(m) == \E k \in DOMAIN shown : messageId(shown[k]) = m

Hanging(d) ==
    /\ mounted
    /\ d \in ToSet(shown)
    /\ origin(d) # 0
    /\ ~HasNode(messageId(origin(d)))

-----------------------------------------------------------------------------
(* AbusMonitorTask.ts 11-12, "Now that handlers have completed send the    *)
(* message to the devTools": what a display shows and what is on the way   *)
(* to it are the last deliveries that ended, each once and in the order    *)
(* they ended, whether it is visible or not; only those before it was made *)
(* are missing.                                                            *)
ShownAsCompleted == mounted => IsSuffix(shown \o transit, completions)

EndedBefore(d, e) ==
    \E j, k \in DOMAIN completions : completions[j] = d /\ completions[k] = e /\ j < k

(* Abus-Monitor.tsx 78-84, 167-172: a node that is not under the one of    *)
(* the message it was sent for waits for a handler that is still running   *)
(* or whose record is on its way, unless that handler had ended before the *)
(* first one the display shows.                                            *)
ParentsComing ==
    \A d \in DOMAIN deliveries :
        Hanging(d) =>
            \/ Running(origin(d))
            \/ origin(d) \in ToSet(transit)
            \/ EndedBefore(origin(d), shown[1])
=============================================================================
