-------------------------- MODULE MCChatCalls --------------------------
(* ChatCalls on small instances: the requests the client methods build,    *)
(* by what the policy reads of them, and three of them that share          *)
(* limiters.                                                               *)
EXTENDS ChatCalls

Client == INSTANCE ClientMethods

AllShapes == {Client!Policy(r) : r \in Client!ClientRequests}

MeteredShapes ==
  {Client!Policy(r) : r \in {Client!GetMessage, Client!SearchContacts,
                               Client!SetupSpace}}

AllModes   == [dry : BOOLEAN, admin : BOOLEAN]
PlainModes == {[dry |-> FALSE, admin |-> FALSE]}

Bursts == [l \in Limiters |-> 1]
=============================================================================
