------------------------------ MODULE Process ------------------------------
(***************************************************************************)
(* Processes of packages/abus-saga whose handlers keep state between calls *)
(* in useStorage, over InMemoryKeyValueStore.  All handlers of a process   *)
(* use one key; every call has an instance, and a useStorage, of its own.  *)
(*                                                                         *)
(* A handler loads the document, may change its data in place and returns, *)
(* upon which afterHandlerAsync stores the document; or it throws.  As in  *)
(* OrderProcess the data are the orders processed, one of each handler.    *)
(***************************************************************************)
EXTENDS Naturals, Sequences

CONSTANT OrderCount  \* how many messages arrive

Order == 1..OrderCount

ASSUME ProcessAssumption == OrderCount \in Nat

VARIABLES
    stored,     \* the document stored under the key of the process, 0 if none
    documents,  \* every document object: its eTag, 0 if none, and its data
    guids,      \* newGuid: the number of eTags drawn
    call        \* the call of the handler for each message, and its document

processVars == <<stored, documents, guids, call>>

NewDocument == [eTag |-> 0, orders |-> {}]

ProcessInit ==
    /\ stored = 0
    /\ documents = <<>>
    /\ guids = 0
    /\ call = [o \in Order |-> [status |-> "none", doc |-> 0]]

Busy(o) == call[o].status = "running"

-----------------------------------------------------------------------------
(* getValueAsync: the stored object itself, or a new one with the default. *)
Load(o) ==
    /\ call[o].status = "none"
    /\ IF stored = 0
       THEN /\ documents' = Append(documents, NewDocument)
            /\ call' = [call EXCEPT ![o] = [status |-> "running", doc |-> Len(documents) + 1]]
       ELSE /\ call' = [call EXCEPT ![o] = [status |-> "running", doc |-> stored]]
            /\ UNCHANGED documents
    /\ UNCHANGED <<stored, guids>>

(* The handler adds its order to the data it has loaded. *)
Change(o) ==
    /\ Busy(o)
    /\ o \notin documents[call[o].doc].orders
    /\ documents' = [documents EXCEPT ![call[o].doc].orders = @ \cup {o}]
    /\ UNCHANGED <<stored, guids, call>>

(* The handler throws and afterHandlerAsync is not called, or that throws   *)
(* because it has no document to store.                                    *)
Throw(o) ==
    /\ call[o].status \in {"none", "running"}
    /\ call' = [call EXCEPT ![o].status = "failed"]
    /\ UNCHANGED <<stored, documents, guids>>

(* Mutant: eTags are not compared. *)
NeverStale(o) == FALSE

(* The document has an eTag, and it is not the one of what is stored. *)
IsStale(o) ==
    /\ documents[call[o].doc].eTag # 0
    /\ stored # 0
    /\ documents[stored].eTag # documents[call[o].doc].eTag

storeAsync(o) ==
    /\ Busy(o)
    /\ ~IsStale(o)
    /\ guids' = guids + 1
    /\ documents' = [documents EXCEPT ![call[o].doc].eTag = guids + 1]
    /\ stored' = call[o].doc
    /\ call' = [call EXCEPT ![o].status = "done"]

(* "Concurrency error saving data." *)
StoreConflict(o) ==
    /\ Busy(o)
    /\ IsStale(o)
    /\ call' = [call EXCEPT ![o].status = "conflict"]
    /\ UNCHANGED <<stored, documents, guids>>

ProcessNext ==
    \E o \in Order : Load(o) \/ Change(o) \/ Throw(o) \/ storeAsync(o) \/ StoreConflict(o)

ProcessSpec == ProcessInit /\ [][ProcessNext]_processVars

-----------------------------------------------------------------------------
(* Properties *)

Made == 1..Len(documents)

OrderDocument == [eTag : 0..guids, orders : SUBSET Order]

(* The types; a document that is stored has been saved. *)
ProcessTypeOK ==
    /\ stored \in Made \cup {0}
    /\ documents \in Seq(OrderDocument)
    /\ guids \in Nat
    /\ call \in [Order -> [status : {"none", "running", "done", "failed", "conflict"},
                           doc : Made \cup {0}]]
    /\ stored # 0 => documents[stored].eTag # 0

(* Handlers that ran before anything was stored overwrite each other; once *)
(* the last of them has ended the stored document is there to stay.        *)
OnlyFirstHandlersOverwrite ==
    [][stored # 0 /\ (\A o \in Order : Busy(o) => documents[call[o].doc].eTag # 0)
       => stored' = stored]_processVars

(* Process_persists_data.Spec.ts 40: "A failed handler discards any state  *)
(* mutations ie does a rollback".  No order of a handler that failed is in *)
(* the stored document.                                                    *)
FailedChangesDiscarded ==
    stored # 0 => \A o \in documents[stored].orders : call[o].status # "failed"
=============================================================================
