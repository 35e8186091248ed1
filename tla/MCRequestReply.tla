--------------------------- MODULE MCRequestReply ---------------------------
(* Small instances of RequestReply. *)
EXTENDS RequestReply

Ids == {"a", "b"}
OwnIds == <<"a", "b">>
=============================================================================
