------------------------------- MODULE MCSaga -------------------------------
(* Small instances of Saga. *)
EXTENDS Saga

(* Four messages for one saga and one without a key. *)
Keys == {"a"}
RaceKeys == <<"a", "a", "a", "a", "none">>
=============================================================================
