---------------------------- MODULE MCToolCalls ----------------------------
(* The tools of an account, and those of an administrator beside core.     *)
EXTENDS ToolCalls

(* A name stands for one tool, so that Named is what a server serves.      *)
ASSUME OneToolPerName == \A t, u \in Tools : t.name = u.name => t = u

SomeToolsets == {{"All"}, {"Admin"}}

(* A grant kept from a server that could do everything.                    *)
WidestLogin == {Build(FALSE, TRUE, {"All", "Admin"})}
=============================================================================
