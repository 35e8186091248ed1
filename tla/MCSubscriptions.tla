--------------------------- MODULE MCSubscriptions ---------------------------
(* A small instance of Subscriptions: a class with two handlers, one that  *)
(* extends it with a handler of its own, one without any; two exports.     *)
EXTENDS Subscriptions

Types == {"a", "b"}
Filters == [f \in {"a", "*"} |-> IF f = "*" THEN Types ELSE {f}]
Classes == {"Pair", "Sub", "Plain"}
Bases == [c \in Classes |-> IF c = "Sub" THEN "Pair" ELSE c]
DecoratedMethods == [c \in Classes |-> CASE c = "Pair" -> <<"a", "a">> [] c = "Sub" -> <<"*">> [] OTHER -> <<>>]
InstanceClass == [i \in {"pair"} |-> "Pair"]
ExportedClasses == <<"Sub", "Plain">>
CallsOf == {<<"pair">>, <<"exports", "Plain">>}
=============================================================================
