----------------------------- MODULE MCService -----------------------------
(* Service on a small instance: whose each address is.                     *)
EXTENDS Service

OneAccountEach ==
  [primary |-> "me", alias |-> "me", colleague |-> "c", stranger |-> "s", group |-> "group"]
=============================================================================
