-------------------------------- MODULE Saga --------------------------------
(***************************************************************************)
(* Sagas of packages/abus-saga over InMemoryKeyValueStore: finding the     *)
(* document of a message, starting a saga once, running its handlers,      *)
(* completing it and saving the document under the check of its eTag.      *)
(*                                                                         *)
(* The store hands out the stored object itself, so a document is an       *)
(* identity here (an index of docs) and all handlers of a saga work on one *)
(* object.  Handlers are asynchronous: between the load of a document and  *)
(* its save any other handler may run.  What the data of a saga is does    *)
(* not matter here, only that a stored document has some.                  *)
(***************************************************************************)
EXTENDS Naturals, Sequences

CONSTANTS
    MessageCount,  \* how many messages arrive
    Key,           \* saga keys
    NoKey,         \* configureSagaKey found no key
    KeyOf,         \* the key of each message
    Starts         \* the messages of the type given to sagaStartedWith

Message == 1..MessageCount

ASSUME SagaAssumption ==
    /\ MessageCount \in Nat
    /\ NoKey \notin Key
    /\ KeyOf \in [Message -> Key \cup {NoKey}]
    /\ Starts \subseteq Message

VARIABLES
    storage,    \* InMemoryKeyValueStore.storage: the document of a key, 0 if none
    docs,       \* every document object: its key and its eTag, 0 if none
    lastETag,   \* newGuid: the number of eTags drawn
    handler,    \* the handler of each message, the document it loaded, whether it
                \* completed the saga; history: the eTag of the document when loaded
    completed,  \* history: documents a saga was completed with
    overtaken   \* history: handlers running for a key when it was completed

vars == <<storage, docs, lastETag, handler, completed, overtaken>>

Init ==
    /\ storage = [k \in Key \cup {NoKey} |-> 0]
    /\ docs = <<>>
    /\ lastETag = 0
    /\ handler = [m \in Message |-> [status |-> "none", doc |-> 0, closed |-> FALSE,
                                   loaded |-> 0]]
    /\ completed = {}
    /\ overtaken = {}

-----------------------------------------------------------------------------
(* A message arrives: handlerInterceptor up to the call of the handler.    *)
(* What it reads of the loaded document cannot change before it is read: a *)
(* stored document keeps its data and has an eTag, a new one is private.   *)

Stored(m) == storage[KeyOf[m]]

Arrives(m) == handler[m].status = "none"

Ends(m, status) ==
    /\ handler' = [handler EXCEPT ![m].status = status]
    /\ UNCHANGED <<storage, docs, lastETag, completed, overtaken>>

(* A start without a key, or for a saga that exists, is an error. *)
RefuseStart(m) ==
    /\ Arrives(m)
    /\ m \in Starts
    /\ KeyOf[m] = NoKey \/ Stored(m) # 0
    /\ Ends(m, "refused")

SagaNotFound(m) ==
    /\ Arrives(m)
    /\ m \notin Starts
    /\ Stored(m) = 0
    /\ Ends(m, "notFound")

(* Mutant: the document of a new saga is stored before its handler runs. *)
StartAndStore(m) ==
    /\ Arrives(m)
    /\ m \in Starts
    /\ KeyOf[m] # NoKey
    /\ Stored(m) = 0
    /\ docs' = Append(docs, [key |-> KeyOf[m], eTag |-> lastETag + 1])
    /\ lastETag' = lastETag + 1
    /\ storage' = [storage EXCEPT ![KeyOf[m]] = Len(docs) + 1]
    /\ handler' = [handler EXCEPT ![m].status = "running", ![m].doc = Len(docs) + 1]
    /\ UNCHANGED <<completed, overtaken>>

(* getAsync makes a new document for a key that has none. *)
Start(m) ==
    /\ Arrives(m)
    /\ m \in Starts
    /\ KeyOf[m] # NoKey
    /\ Stored(m) = 0
    /\ docs' = Append(docs, [key |-> KeyOf[m], eTag |-> 0])
    /\ handler' = [handler EXCEPT ![m].status = "running", ![m].doc = Len(docs) + 1]
    /\ UNCHANGED <<storage, lastETag, completed, overtaken>>

Join(m) ==
    /\ Arrives(m)
    /\ m \notin Starts
    /\ Stored(m) # 0
    /\ handler' = [handler EXCEPT ![m].status = "running", ![m].doc = Stored(m),
                               ![m].loaded = docs[Stored(m)].eTag]
    /\ UNCHANGED <<storage, docs, lastETag, completed, overtaken>>

-----------------------------------------------------------------------------
(* The handler runs *)

Running(m) == handler[m].status = "running"

OthersRunning(m) == {n \in Message \ {m} : Running(n) /\ KeyOf[n] = KeyOf[m]}

(* completeAsync removes what is stored under the key, whichever document  *)
(* that is, and leaves the instance a document of its own without a key.   *)
Complete(m) ==
    /\ Running(m)
    /\ ~handler[m].closed
    /\ storage' = [storage EXCEPT ![KeyOf[m]] = 0]
    /\ handler' = [handler EXCEPT ![m].closed = TRUE]
    /\ completed' = completed \cup ({Stored(m), handler[m].doc} \ {0})
    /\ overtaken' = overtaken \cup OthersRunning(m)
    /\ UNCHANGED <<docs, lastETag>>

-----------------------------------------------------------------------------
(* The handler returns: storeAsync and saveAsync *)

(* Mutant: the eTag is not compared. *)
NeverConflicts(m) == FALSE

(* The document has an eTag, and it is not the one of what is stored. *)
Conflicts(m) ==
    /\ docs[handler[m].doc].eTag # 0
    /\ Stored(m) # 0
    /\ docs[Stored(m)].eTag # docs[handler[m].doc].eTag

(* Mutant: it is saved although the handler has completed the saga. *)
SaveClosed(m) ==
    /\ Running(m)
    /\ ~Conflicts(m)
    /\ lastETag' = lastETag + 1
    /\ docs' = [docs EXCEPT ![handler[m].doc].eTag = lastETag + 1]
    /\ storage' = [storage EXCEPT ![KeyOf[m]] = handler[m].doc]
    /\ handler' = [handler EXCEPT ![m].status = "done"]
    /\ UNCHANGED <<completed, overtaken>>

Save(m) ==
    /\ Running(m)
    /\ ~handler[m].closed
    /\ ~Conflicts(m)
    /\ lastETag' = lastETag + 1
    /\ docs' = [docs EXCEPT ![handler[m].doc].eTag = lastETag + 1]
    /\ storage' = [storage EXCEPT ![KeyOf[m]] = handler[m].doc]
    /\ handler' = [handler EXCEPT ![m].status = "done"]
    /\ UNCHANGED <<completed, overtaken>>

(* "Concurrency error saving data." *)
SaveConflict(m) ==
    /\ Running(m)
    /\ ~handler[m].closed
    /\ Conflicts(m)
    /\ Ends(m, "conflict")

(* A completed saga has no key any more and is not saved. *)
ReturnCompleted(m) ==
    /\ Running(m)
    /\ handler[m].closed
    /\ Ends(m, "done")

(* The handler throws: nothing is saved. *)
Fail(m) ==
    /\ Running(m)
    /\ Ends(m, "failed")

-----------------------------------------------------------------------------
Next ==
    \E m \in Message :
        \/ RefuseStart(m) \/ SagaNotFound(m) \/ Start(m) \/ Join(m)
        \/ Complete(m) \/ Save(m) \/ SaveConflict(m) \/ ReturnCompleted(m) \/ Fail(m)

Spec == Init /\ [][Next]_vars

-----------------------------------------------------------------------------
(* Properties *)

Doc == 1..Len(docs)

Document == [key : Key, eTag : 0..lastETag]

Statuses == {"none", "running", "done", "failed", "refused", "notFound", "conflict"}

(* The types; what is stored is a document of that very key, saved before. *)
TypeOK ==
    /\ storage \in [Key \cup {NoKey} -> Doc \cup {0}]
    /\ docs \in Seq(Document)
    /\ lastETag \in Nat
    /\ handler \in [Message -> [status : Statuses, doc : Doc \cup {0}, closed : BOOLEAN,
                             loaded : 0..lastETag]]
    /\ completed \subseteq Doc
    /\ overtaken \subseteq Message
    /\ \A k \in Key \cup {NoKey} :
         storage[k] # 0 => docs[storage[k]].key = k /\ docs[storage[k]].eTag # 0

(* A message joins a saga only after a handler that started it ended well: *)
(* a start that is still running or has failed is invisible.               *)
JoinsStartedSaga ==
    \A m \in Message \ Starts :
        handler[m].doc # 0 =>
            \E n \in Starts : handler[n].doc = handler[m].doc /\ handler[n].status = "done"

(* A handler that loaded a saved document never overwrites another saga:   *)
(* only the save of a new document replaces a stored one.                  *)
StaleNeverOverwrites ==
    [][\A k \in Key :
          /\ storage[k] # 0 /\ storage'[k] # 0 /\ storage'[k] # storage[k]
          => docs[storage'[k]].eTag = 0]_vars

(* A completed saga comes back only through a handler that was running for *)
(* its key when some handler completed it.                                 *)
RevivedByOvertakenOnly ==
    [][\A k \in Key :
          /\ storage'[k] # storage[k] /\ storage'[k] \in completed
          => \E m \in overtaken : Running(m) /\ handler[m].doc = storage'[k]]_vars

(* InMemoryKeyValueStore.ts 19: "check the etag to ensure it hasn't changed *)
(* before saving".  A handler that loaded a stored document saves it only  *)
(* while what is stored has the eTag it had when the handler loaded it.    *)
SavedUnchangedOnly ==
    [][\A m \in Message :
          /\ handler[m].status = "running" /\ ~handler[m].closed /\ handler'[m].status = "done"
          /\ handler[m].loaded # 0 /\ Stored(m) # 0
          => docs[Stored(m)].eTag = handler[m].loaded]_vars

(* Saga.ts 34: "already exists. Can't start saga twice."  The document of  *)
(* a saga that has been started and not completed is never replaced.       *)
NotStartedTwice ==
    [][\A k \in Key : storage[k] # 0 => storage'[k] \in {0, storage[k]}]_vars
=============================================================================
