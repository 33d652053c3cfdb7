------------------------ MODULE ConversationWitness ------------------------
(***************************************************************************)
(* checkMembers (internal/service/spacecheck.go): a write to a group chat, *)
(* or to a space with no name, gives the addresses of the other members.   *)
(* They are read page by page, each page with the addresses the directory  *)
(* knows, while people come and go, and the write follows when the two     *)
(* sets are the same.                                                      *)
(***************************************************************************)
EXTENDS FiniteSets, Integers, FiniteSetsExt

CONSTANTS
  People,    \* 1..n, in the order Google lists them; the caller is 0
  PageSize,  \* maxMemberLimit
  MaxPages,  \* maxWitnessPages
  MaxMoves   \* bound: people who join, leave or become unknown during a call

Me == 0
NoAddress == -1

VARIABLES
  call,   \* where it is, the addresses given, and what the pages held
  world,  \* who is in the conversation, and whose address resolves
  past    \* who was in it at some time and all along, and the moves

vars == <<call, world, past>>

Init ==
  /\ world \in [members : {{Me} \cup s : s \in SUBSET People}, known : SUBSET (People \cup {Me})]
  /\ call \in [at : {"list"}, given : SUBSET (People \cup {Me}), after : {-1}, page : {0},
               others : {{}}, mine : {NoAddress}]
  /\ past = [ever |-> world.members, always |-> world.members, moves |-> 0]

(* The address an id resolves to: the empty one when it does not.          *)
Address(p) == IF p \in world.known THEN p ELSE NoAddress

(* Google's page after a token: the next members there are at that moment. *)
Page(token) ==
  LET left == {p \in world.members : p > token}
  IN {p \in left : Cardinality({q \in left : q < p}) < PageSize}

ListMembers ==
  /\ call.at = "list"
  /\ LET page == Page(call.after)
         more == \E p \in world.members : p > call.after /\ p \notin page
         last == IF page = {} THEN call.after ELSE Max(page)
     IN call' = [call EXCEPT
          !.others = @ \cup {Address(p) : p \in page \ {Me}},
          !.mine = IF Me \in page THEN Address(Me) ELSE @,
          !.after = last,
          !.page = @ + 1,
          !.at = IF more /\ call.page + 1 < MaxPages THEN "list" ELSE "compare"]
  /\ UNCHANGED <<world, past>>

ListFails ==
  /\ call.at = "list"
  /\ call' = [call EXCEPT !.at = "failed"]
  /\ UNCHANGED <<world, past>>

Matches_Mutant(others, given, mine) == others \ {NoAddress} = given \ {mine}

(* The caller's own address may be given or left out; someone whose        *)
(* address did not resolve matches nobody.                                 *)
Matches(others, given, mine) == others = given \ {mine}

Compare ==
  /\ call.at = "compare"
  /\ call' = [call EXCEPT !.at = IF Matches(call.others, call.given, call.mine)
                                 THEN "write" ELSE "stale"]
  /\ UNCHANGED <<world, past>>

Join ==
  \E p \in People \ world.members :
    /\ past.moves < MaxMoves
    /\ world' = [world EXCEPT !.members = @ \cup {p}]
    /\ past' = [past EXCEPT !.ever = @ \cup {p}, !.moves = @ + 1]
    /\ UNCHANGED call

Leave ==
  \E p \in People \cap world.members :
    /\ past.moves < MaxMoves
    /\ world' = [world EXCEPT !.members = @ \ {p}]
    /\ past' = [past EXCEPT !.always = @ \ {p}, !.moves = @ + 1]
    /\ UNCHANGED call

(* The directory's answer for someone changes: a lookup failed, or did not.*)
Resolve ==
  \E p \in People \cup {Me} :
    /\ past.moves < MaxMoves
    /\ world' = [world EXCEPT !.known = IF p \in @ THEN @ \ {p} ELSE @ \cup {p}]
    /\ past' = [past EXCEPT !.moves = @ + 1]
    /\ UNCHANGED call

Done == call.at \in {"write", "stale", "failed"} /\ UNCHANGED vars

Next == ListMembers \/ ListFails \/ Compare \/ Join \/ Leave \/ Resolve \/ Done

Spec == Init /\ [][Next]_vars

-----------------------------------------------------------------------------
TypeOK ==
  /\ call.at \in {"list", "compare", "write", "stale", "failed"}
  /\ call.given \subseteq People \cup {Me}
  /\ call.others \subseteq People \cup {NoAddress}
  /\ call.mine \in {Me, NoAddress}
  /\ call.page \in 0..MaxPages
  /\ world.members \subseteq People \cup {Me} /\ world.known \subseteq People \cup {Me}

(* Whoever the ten pages can hold.                                         *)
InReach == Cardinality(past.ever) <= PageSize * MaxPages

(* A write goes to a conversation in which everybody it names has been,    *)
(* and of whose members it names everyone who was there all along, however *)
(* the conversation changed between the pages.                             *)
WriteNamesTheMembers ==
  call.at = "write" =>
    /\ call.given \subseteq past.ever \cup {Me}
    /\ InReach => past.always \ {Me} \subseteq call.given
=============================================================================
