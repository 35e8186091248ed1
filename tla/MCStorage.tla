----------------------------- MODULE MCStorage -----------------------------
(* Small instances of Saga and Process.  They share the code of the store  *)
(* and no documents, so that one is looked at while the other has not      *)
(* begun.                                                                  *)
EXTENDS MCSaga, Process

NoSagaBegan == \A m \in Message : Arrives(m)
NoProcessBegan == \A o \in Order : call[o].status = "none"

StorageInit == Init /\ ProcessInit

StorageNext ==
    \/ Next /\ NoProcessBegan /\ UNCHANGED processVars
    \/ ProcessNext /\ NoSagaBegan /\ UNCHANGED vars

StorageSpec == StorageInit /\ [][StorageNext]_<<vars, processVars>>
=============================================================================
