--------------------------- MODULE MemberVetting ---------------------------
(***************************************************************************)
(* Who add_member, add_external_member and admin_add_member may add        *)
(* (internal/service/members.go).  The space and the directory are read,   *)
(* the space is compared with its witness, and only then the invitation is *)
(* sent: meanwhile the directory and the space may change.                 *)
(***************************************************************************)
EXTENDS Naturals

CONSTANTS
  Addresses,   \* what a call may name
  Primary,     \* the address Google's userinfo gives for the caller
  Owner,       \* whose each address is: an account, or a Google Group
  Me, Group,   \* the caller's account; what owns a group's address
  MaxChanges   \* bound: changes of the space or the directory in a call

VARIABLES
  call,   \* the tool, the address it names and where it is
  world,  \* whether the space admits outsiders, who the directory lists
  past    \* whether the address was vouched for since the call began

vars == <<call, world, past>>

Tools == {"add_member", "add_external_member", "admin_add_member"}

IsGroup(a) == Owner[a] = Group

(* Nobody outside can come in: the space admits none, or, a group apart,   *)
(* the directory lists the address.                                        *)
Vouched(w, a) == ~w.open \/ (~IsGroup(a) /\ a \in w.listed)

Init ==
  /\ world \in [open : BOOLEAN, listed : SUBSET {a \in Addresses : ~IsGroup(a)}, added : {{}}]
  /\ call \in [tool : Tools, address : Addresses, at : {"start"}]
  /\ past = [vouched |-> Vouched(world, call.address), changes |-> 0]

Goto(at) == call' = [call EXCEPT !.at = at]
Still    == UNCHANGED <<world, past>>

(* Any read may fail, which ends the call.                                 *)
Fail == call.at \in {"start", "directory", "witness", "invite"} /\ Goto("failed") /\ Still

(* addMember with a group: refuseGroup, or checkGroup and its witness.     *)
StartGroup ==
  /\ call.at = "start" /\ IsGroup(call.address)
  /\ \/ call.tool = "admin_add_member" /\ Goto("blocked")
     \/ call.tool = "add_external_member" /\ Goto("witness")
     \/ call.tool = "add_member" /\ Goto(IF world.open THEN "blocked" ELSE "witness")
  /\ Still

(* addMember with a person: refuseOutsider reads the space first, and      *)
(* vetAdminInvitee the caller's own address.                               *)
StartPerson ==
  /\ call.at = "start" /\ ~IsGroup(call.address)
  /\ \/ call.tool = "add_external_member" /\ Goto("witness")
     \/ call.tool = "add_member" /\ Goto(IF world.open THEN "directory" ELSE "witness")
     \/ /\ call.tool = "admin_add_member"
        /\ Goto(IF call.address = Primary THEN "blocked" ELSE "directory")
  /\ Still

Refused_Mutant(tool, a, listed) == a \notin listed

(* What the directory's answer refuses: someone it does not list, and for  *)
(* an administrator someone whose record is the caller's own.              *)
Refused(tool, a, listed) ==
  \/ a \notin listed
  \/ tool = "admin_add_member" /\ Owner[a] = Me

ReadDirectory ==
  /\ call.at = "directory"
  /\ Goto(IF Refused(call.tool, call.address, world.listed) THEN "blocked" ELSE "witness")
  /\ Still

CheckSpace ==
  /\ call.at = "witness"
  /\ Goto("invite") \/ Goto("stale") \/ Goto("previewed")
  /\ Still

(* Google refuses someone from outside where the space admits nobody, or   *)
(* where an administrator asks.                                            *)
Invitable ==
  IsGroup(call.address) \/ call.address \in world.listed
    \/ (world.open /\ call.tool # "admin_add_member")

(* The invitation may be applied although its answer is lost.              *)
Invite ==
  /\ call.at = "invite"
  /\ \/ Invitable /\ world' = [world EXCEPT !.added = @ \cup {call.address}]
          /\ (Goto("added") \/ Goto("failed"))
     \/ ~Invitable /\ Goto("failed") /\ UNCHANGED world
     \/ Goto("already") /\ UNCHANGED world
  /\ UNCHANGED past

(* The space is opened or closed, or the directory lists someone or no     *)
(* longer does.                                                            *)
Change ==
  /\ past.changes < MaxChanges
  /\ \/ world' = [world EXCEPT !.open = ~@]
     \/ \E a \in {b \in Addresses : ~IsGroup(b)} :
          world' = [world EXCEPT !.listed = IF a \in @ THEN @ \ {a} ELSE @ \cup {a}]
  /\ past' = [vouched |-> past.vouched \/ Vouched(world', call.address),
              changes |-> past.changes + 1]
  /\ UNCHANGED call

Done ==
  /\ call.at \in {"added", "already", "blocked", "stale", "previewed", "failed"}
  /\ UNCHANGED vars

Next ==
  \/ Fail \/ StartGroup \/ StartPerson \/ ReadDirectory \/ CheckSpace
  \/ Invite \/ Change \/ Done

Spec == Init /\ [][Next]_vars

-----------------------------------------------------------------------------
TypeOK ==
  /\ call \in [tool : Tools, address : Addresses,
               at : {"start", "directory", "witness", "invite", "added", "already",
                     "blocked", "stale", "previewed", "failed"}]
  /\ world \in [open : BOOLEAN, listed : SUBSET Addresses, added : SUBSET Addresses]
  /\ past \in [vouched : BOOLEAN, changes : Nat]

(* Whoever comes into the space by add_member was vouched for at some      *)
(* moment of the call, and an administrator's tool brings in neither a     *)
(* group nor the caller, under whichever of the caller's addresses.        *)
AddsWhomItVetted ==
  \A a \in world.added :
    /\ call.tool = "add_member" => past.vouched
    /\ call.tool = "admin_add_member" => Owner[a] \notin {Me, Group}
=============================================================================
