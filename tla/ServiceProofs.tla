---------------------------- MODULE ServiceProofs ----------------------------
(***************************************************************************)
(* Proofs about the methods of Service, for any data, any bounds and       *)
(* anything others do meanwhile: first those that act on what others       *)
(* change, then those that read lists, a page at a time or from two        *)
(* sources; last, the types of all of them, with those of LocalProofs.     *)
(*                                                                         *)
(* Of a method X, XInv is what holds while X is the method called, XKept   *)
(* says that, and XAlways that it is always so.                            *)
(***************************************************************************)
EXTENDS LocalProofs, SequenceTheorems, WellFoundedInduction

-----------------------------------------------------------------------------
(* An update of a space (spaces.go).                                       *)

(* What others gave a field since the read holds what the read found, for  *)
(* as long as it may be resent, and what the field holds, unless the call  *)
(* named it.                                                               *)
UpdateInv ==
  /\ Update!TypeOK
  /\ call.at = "patch" => \A f \in Update!Fields : call.current[f] \in past.given[f]
  /\ Update!UnnamedIsOthers

(* A patch writes what the call gives a field it names, and what it read   *)
(* to the others of the object they share.                                 *)
LEMMA UpdateBody ==
  ASSUME NEW names \in SUBSET Update!Fields, NEW want, NEW current,
         NEW f \in DOMAIN Update!BuildUpdateSpace(names, want, current)
  PROVE  /\ f \in Update!Fields
         /\ Update!BuildUpdateSpace(names, want, current)[f]
              = IF f \in names THEN want[f] ELSE current[f]
  BY DEF Update!BuildUpdateSpace, Update!Fields

(* An attempt leaves each field what it was, or gives it the body's value. *)
LEMMA UpdatePatched ==
  ASSUME UpdateInv, Update!Patch
  PROVE  \A f \in Update!Fields : \/ world'[f] = world[f]
                                  \/ f \in call.names /\ world'[f] = call.want[f]
                                  \/ f \notin call.names /\ world'[f] = call.current[f]
<1> DEFINE body == Update!BuildUpdateSpace(call.names, call.want, call.current)
           patched == [f \in Update!Fields |-> IF f \in DOMAIN body THEN body[f] ELSE world[f]]
<1>1. world' = patched \/ world' = world
  BY DEF Update!Patch
<1>2. call.names \in SUBSET Update!Fields
  BY DEF UpdateInv, Update!TypeOK
<1>3. SUFFICES ASSUME NEW f \in Update!Fields, world' = patched
      PROVE  \/ world'[f] = world[f]
             \/ f \in call.names /\ world'[f] = call.want[f]
             \/ f \notin call.names /\ world'[f] = call.current[f]
  BY <1>1
<1>4. CASE f \notin DOMAIN body
  BY <1>3, <1>4
<1>5. CASE f \in DOMAIN body
  <2>1. body[f] = IF f \in call.names THEN call.want[f] ELSE call.current[f]
    BY <1>2, <1>5, UpdateBody
  <2>2. world'[f] = body[f]
    BY <1>3, <1>5
  <2>3. QED
    BY <2>1, <2>2
<1>6. QED
  BY <1>4, <1>5

LEMMA UpdateTypeStep ==
  ASSUME MaxSends \in Nat, UpdateInv, [Update!Next]_(Update!vars)
  PROVE  Update!TypeOK'
<1> USE DEF Update!TypeOK
<1>1. CASE Update!Read
  <2>1. [f \in Update!Fields |-> {world[f]}] \in [Update!Fields -> SUBSET Texts]
    BY DEF UpdateInv
  <2>2. past' \in [given : [Update!Fields -> SUBSET Texts], edits : Nat]
    BY <1>1, <2>1 DEF UpdateInv, Update!Read
  <2>3. call' \in [at : {"read", "patch", "done", "failed", "previewed"},
                  names : (SUBSET Update!Fields) \ {{}}, want : [Update!Fields -> Texts],
                  current : [Update!Fields -> Texts], sends : 0..MaxSends, dryRun : BOOLEAN]
    BY <1>1 DEF UpdateInv, Update!Read
  <2>4. QED
    BY <1>1, <2>2, <2>3 DEF UpdateInv, Update!Read
<1>2. CASE Update!Patch
  <2>1. world' \in [Update!Fields -> Texts]
    <3>1. DOMAIN world' = Update!Fields /\ world' = [f \in Update!Fields |-> world'[f]]
      BY <1>2 DEF UpdateInv, Update!Patch
    <3>2. \A f \in Update!Fields : world'[f] \in Texts
      BY <1>2, UpdatePatched DEF UpdateInv
    <3>3. QED
      BY <3>1, <3>2
  <2>2. call.sends + 1 \in 0..MaxSends
    BY <1>2 DEF UpdateInv, Update!Patch
  <2>3. QED
    BY <1>2, <2>1, <2>2 DEF UpdateInv, Update!Patch
<1>3. CASE Update!GiveUp
  BY <1>3 DEF UpdateInv, Update!GiveUp
<1>4. CASE Update!Edit
  BY <1>4 DEF UpdateInv, Update!Edit
<1>5. CASE Update!Done \/ UNCHANGED Update!vars
  BY <1>5 DEF UpdateInv, Update!Done, Update!vars
<1>6. QED
  BY <1>1, <1>2, <1>3, <1>4, <1>5 DEF Update!Next

LEMMA UpdateStep ==
  ASSUME MaxSends \in Nat, UpdateInv, [Update!Next]_(Update!vars)
  PROVE  UpdateInv'
<1>1. Update!TypeOK'
  BY UpdateTypeStep
<1>2. CASE Update!Read
  <2>1. world' = world /\ call'.names = call.names
    BY <1>2 DEF UpdateInv, Update!TypeOK, Update!Read
  <2>2. CASE past' = past /\ call' = [call EXCEPT !.at = "failed"]
    BY <1>1, <2>1, <2>2 DEF UpdateInv, Update!TypeOK, Update!UnnamedIsOthers
  <2>3. CASE /\ past' = [past EXCEPT !.given = [f \in Update!Fields |-> {world[f]}]]
             /\ call'.current = world
    <3>1. \A f \in Update!Fields : past'.given[f] = {world[f]}
      BY <2>3 DEF UpdateInv, Update!TypeOK
    <3>2. QED
      BY <1>1, <2>1, <2>3, <3>1 DEF UpdateInv, Update!UnnamedIsOthers
  <2>4. QED
    BY <1>2, <2>2, <2>3 DEF UpdateInv, Update!TypeOK, Update!Read
<1>3. CASE Update!Patch
  <2>1. call'.names = call.names /\ call'.current = call.current /\ past' = past
    BY <1>3 DEF UpdateInv, Update!TypeOK, Update!Patch
  <2>2. call'.at \in {"patch", "done"} /\ call.at = "patch"
    BY <1>3 DEF UpdateInv, Update!TypeOK, Update!Patch
  <2>3. QED
    BY <1>1, <1>3, <2>1, <2>2, UpdatePatched DEF UpdateInv, Update!UnnamedIsOthers
<1>4. CASE Update!GiveUp
  BY <1>1, <1>4 DEF UpdateInv, Update!TypeOK, Update!GiveUp, Update!UnnamedIsOthers
<1>5. CASE Update!Edit
  BY <1>1, <1>5 DEF UpdateInv, Update!TypeOK, Update!Edit, Update!UnnamedIsOthers
<1>6. CASE Update!Done \/ UNCHANGED Update!vars
  BY <1>1, <1>6 DEF UpdateInv, Update!Done, Update!vars, Update!UnnamedIsOthers
<1>7. QED
  BY <1>2, <1>3, <1>4, <1>5, <1>6 DEF Update!Next

LEMMA UpdateInit ==
  ASSUME MaxSends \in Nat, Update!Init
  PROVE  UpdateInv
<1>1. Update!TypeOK
  <2>1. \A f \in Update!Fields : {world[f]} \in SUBSET Texts
    BY DEF Update!Init
  <2>2. QED
    BY <2>1 DEF Update!Init, Update!TypeOK
<1>2. call.at # "patch" /\ Update!UnnamedIsOthers
  BY DEF Update!Init, Update!UnnamedIsOthers
<1>3. QED
  BY <1>1, <1>2 DEF UpdateInv

UpdateKept == which = "update" => UpdateInv

LEMMA UpdateAlways == Spec => []UpdateKept
<1>1. Init => UpdateKept
  BY BoundsAssumption, UpdateInit DEF Init, UpdateKept
<1>2. UpdateKept /\ [Next]_vars => UpdateKept'
  <2>1. SUFFICES ASSUME UpdateKept, [Next]_vars, which' = "update" PROVE UpdateInv'
    BY DEF UpdateKept
  <2>2. which = "update" /\ [Update!Next]_(Update!vars)
    BY <2>1 DEF UpdateKept, Next, vars, Update!vars
  <2>3. QED
    BY <2>1, <2>2, BoundsAssumption, UpdateStep DEF UpdateKept
<1>3. QED
  BY <1>1, <1>2, PTL DEF Spec

(* An update clears and restores nothing it does not name: every field of  *)
(* the others' holds what somebody gave it since the call's own read, for  *)
(* any number of attempts that were lost and edits in between (spaces.go). *)
THEOREM NothingElseChanges == Spec => []UnnamedIsOthers
<1>1. UpdateKept => UnnamedIsOthers
  BY DEF UpdateKept, UnnamedIsOthers, UpdateInv
<1>2. QED
  BY <1>1, UpdateAlways, PTL

-----------------------------------------------------------------------------
(* A move of a conversation to another section (sections.go).              *)

(* A call that looked its space up holds an entry of that space, under a   *)
(* section the space was in since the call began.                          *)
HeldEntry ==
  call.at \in {"check", "move", "done"} =>
    call.item.space = call.space /\ call.item.section \in past.was

(* What the call moved, and what it says of it.                            *)
MovedSpace ==
  /\ past.moved \subseteq {call.space}
  /\ call.at \in {"locate", "check", "move"} => past.moved = {}
  /\ call.at # "done" => ~call.moved
  /\ call.at = "done" => call.to \in past.was /\ (call.moved <=> past.moved # {})

MoveInv ==
  /\ Move!TypeOK
  /\ MaxChanges \in Nat
  /\ past = [was |-> past.was, moved |-> past.moved, moves |-> past.moves]
  /\ world[call.space] \in past.was
  /\ call.at \in {"check", "move"} => call.item \in Move!Entries
  /\ ~call.given => HeldEntry /\ MovedSpace

LEMMA MoveInit ==
  ASSUME MaxChanges \in Nat, Move!Init
  PROVE  MoveInv
<1>1. /\ world \in [SidebarSpaces -> Sections] /\ call.space \in SidebarSpaces
      /\ call.at \in {"locate", "check"} /\ ~call.moved
      /\ call.at = "check" <=> call.given
      /\ call.item \in Move!Entries \cup {Move!NoEntry}
      /\ call.item # Move!NoEntry <=> call.given
      /\ past = [was |-> {world[call.space]}, moved |-> {}, moves |-> 0]
  BY DEF Move!Init
<1>2. call \in [at : {"locate", "check", "move", "done", "failed"}, given : BOOLEAN,
               space : SidebarSpaces, to : Sections, item : Move!Entries \cup {Move!NoEntry},
               moved : BOOLEAN]
  BY DEF Move!Init
<1>3. world[call.space] \in Sections
  BY <1>1
<1>4. /\ past.was \subseteq Sections /\ past.moved \subseteq SidebarSpaces
      /\ past.moves \in Nat
  BY <1>1, <1>3
<1>5. Move!TypeOK
  BY <1>1, <1>2, <1>4 DEF Move!TypeOK
<1>6. /\ call.at \in {"check", "move"} => call.item \in Move!Entries
      /\ ~call.given => HeldEntry /\ MovedSpace
  BY <1>1 DEF HeldEntry, MovedSpace
<1>7. QED
  BY <1>1, <1>5, <1>6 DEF MoveInv

LEMMA MoveLookup ==
  ASSUME MoveInv, Move!locateSectionItem \/ Move!NotFound \/ Move!checkSpace
  PROVE  MoveInv'
<1>1. CASE Move!locateSectionItem
  <2>1. PICK s \in SidebarSpaces :
          LET entry == [space |-> s, section |-> world[s]]
          IN call' = IF Move!ListedFor(entry) THEN [call EXCEPT !.item = entry, !.at = "check"]
                     ELSE [call EXCEPT !.at = "failed"]
    BY <1>1 DEF Move!locateSectionItem
  <2>2. [space |-> s, section |-> world[s]] \in Move!Entries
    BY DEF MoveInv, Move!TypeOK, Move!Entries
  <2>3. QED
    BY <1>1, <2>1, <2>2 DEF Move!locateSectionItem, Move!ListedFor, MoveInv, Move!TypeOK,
       HeldEntry, MovedSpace
<1>2. CASE Move!NotFound
  BY <1>2 DEF Move!NotFound, MoveInv, Move!TypeOK, HeldEntry, MovedSpace
<1>3. CASE Move!checkSpace
  BY <1>3 DEF Move!checkSpace, MoveInv, Move!TypeOK, HeldEntry, MovedSpace
<1>4. QED
  BY <1>1, <1>2, <1>3

LEMMA MoveByCallOrHand ==
  ASSUME MoveInv, Move!MoveSectionItem \/ Move!MoveByHand
  PROVE  MoveInv'
<1>1. CASE Move!MoveSectionItem
  <2>1. /\ call.at = "move" /\ world \in [SidebarSpaces -> Sections] /\ call.to \in Sections
        /\ call.space \in SidebarSpaces
        /\ ~call.given => HeldEntry /\ MovedSpace
    BY <1>1 DEF Move!MoveSectionItem, MoveInv, Move!TypeOK
  <2>2. CASE UNCHANGED <<world, past>> /\ call' = [call EXCEPT !.at = "failed"]
    BY <2>1, <2>2 DEF MoveInv, Move!TypeOK, HeldEntry, MovedSpace
  <2>3. CASE /\ world[call.item.space] = call.item.section
             /\ world' = [world EXCEPT ![call.item.space] = call.to]
             /\ past' = [past EXCEPT !.moved = @ \cup {call.item.space},
                                     !.was = @ \cup {world'[call.space]}]
             /\ \/ call' = [call EXCEPT !.at = "done", !.moved = TRUE]
                \/ call' = [call EXCEPT !.at = "failed"]
    <3>1. /\ world' \in [SidebarSpaces -> Sections] /\ world'[call.space] \in Sections
          /\ call.item.space = call.space => world'[call.space] = call.to
      <4>1. world' \in [SidebarSpaces -> Sections]
        BY <2>1, <2>3
      <4>2. ASSUME call.item.space = call.space PROVE world'[call.space] = call.to
        BY <2>1, <2>3, <4>2
      <4>3. QED
        BY <2>1, <4>1, <4>2
    <3>2. /\ past'.was = past.was \cup {world'[call.space]}
          /\ past'.moved = past.moved \cup {call.item.space} /\ past'.moves = past.moves
          /\ past' = [was |-> past'.was, moved |-> past'.moved, moves |-> past'.moves]
      BY <2>3 DEF MoveInv
    <3>3. /\ call'.space = call.space /\ call'.to = call.to /\ call'.item = call.item
          /\ call'.given = call.given
          /\ \/ call'.at = "done" /\ call'.moved = TRUE
             \/ call'.at = "failed" /\ call'.moved = call.moved
      BY <2>3 DEF MoveInv, Move!TypeOK
    <3>4. call.item.space \in SidebarSpaces
      BY <2>1 DEF MoveInv, Move!Entries
    <3>5. Move!TypeOK'
      BY <2>3, <3>1, <3>2, <3>4 DEF MoveInv, Move!TypeOK
    <3>6. ASSUME ~call.given PROVE HeldEntry' /\ MovedSpace'
      <4>1. /\ call.item.space = call.space /\ call.item.section \in past.was
            /\ past.moved = {} /\ ~call.moved
        BY <2>1, <3>6 DEF HeldEntry, MovedSpace
      <4>2. past'.moved = {call.space} /\ call.to \in past'.was
        BY <3>1, <3>2, <4>1
      <4>3. HeldEntry'
        BY <3>2, <3>3, <4>1 DEF HeldEntry
      <4>4. MovedSpace'
        BY <3>3, <4>1, <4>2 DEF MovedSpace
      <4>5. QED
        BY <4>3, <4>4
    <3>7. QED
      BY <3>2, <3>3, <3>5, <3>6 DEF MoveInv
  <2>4. QED
    BY <1>1, <2>2, <2>3 DEF Move!MoveSectionItem
<1>2. CASE Move!MoveByHand
  <2>1. PICK s \in SidebarSpaces, to \in Sections :
          /\ world' = [world EXCEPT ![s] = to]
          /\ past' = [past EXCEPT !.moves = @ + 1, !.was = @ \cup {world'[call.space]}]
    BY <1>2 DEF Move!MoveByHand
  <2>2. UNCHANGED call
    BY <1>2 DEF Move!MoveByHand
  <2>3. world' \in [SidebarSpaces -> Sections] /\ world'[call.space] \in Sections
    BY <2>1 DEF MoveInv, Move!TypeOK
  <2>4. /\ past'.was = past.was \cup {world'[call.space]} /\ past'.moved = past.moved
        /\ past'.moves = past.moves + 1
        /\ past' = [was |-> past'.was, moved |-> past'.moved, moves |-> past'.moves]
    BY <2>1 DEF MoveInv
  <2>5. Move!TypeOK'
    BY <2>2, <2>3, <2>4 DEF MoveInv, Move!TypeOK
  <2>6. ~call.given => HeldEntry' /\ MovedSpace'
    BY <2>2, <2>4 DEF MoveInv, HeldEntry, MovedSpace
  <2>7. QED
    BY <2>2, <2>4, <2>5, <2>6 DEF MoveInv
<1>3. QED
  BY <1>1, <1>2

LEMMA MoveStep ==
  ASSUME MoveInv, [Move!Next]_(Move!vars)
  PROVE  MoveInv'
<1>1. CASE Move!Done \/ UNCHANGED Move!vars
  BY <1>1 DEF Move!Done, Move!vars, MoveInv, Move!TypeOK, HeldEntry, MovedSpace
<1>2. QED
  BY <1>1, MoveLookup, MoveByCallOrHand DEF Move!Next

MoveKept == which = "move" => MoveInv

LEMMA MoveAlways == Spec => []MoveKept
<1>1. Init => MoveKept
  BY BoundsAssumption, MoveInit DEF Init, MoveKept
<1>2. MoveKept /\ [Next]_vars => MoveKept'
  <2>1. SUFFICES ASSUME MoveKept, [Next]_vars, which' = "move" PROVE MoveInv'
    BY DEF MoveKept
  <2>2. which = "move" /\ [Move!Next]_(Move!vars)
    BY <2>1 DEF MoveKept, Next, vars, Move!vars
  <2>3. QED
    BY <2>1, <2>2, BoundsAssumption, MoveStep DEF MoveKept
<1>3. QED
  BY <1>1, <1>2, PTL DEF Spec

(* Whoever else moves things meanwhile, a call that looks its space up     *)
(* files that space or none, and says rightly what it did and where the    *)
(* space had been (sections.go MoveSpaceToSection).                        *)
THEOREM OnlyTheNamedSpace == Spec => []FilesTheNamedSpace
<1>1. MoveKept => FilesTheNamedSpace
  BY DEF MoveKept, FilesTheNamedSpace, Move!FilesTheNamedSpace, MoveInv, HeldEntry, MovedSpace
<1>2. QED
  BY <1>1, MoveAlways, PTL
-----------------------------------------------------------------------------
(* An invitation (members.go).                                             *)

(* What lets a call's address in, as far as the tool depends on it.        *)
Cleared ==
  /\ call.tool = "add_member" => past.vouched
  /\ call.tool = "admin_add_member" => Owner[call.address] \notin {Caller, GroupAccount}

(* Only a person's address is looked up in the directory, only one that is *)
(* cleared gets past it, and nobody but the one it names is added.  That   *)
(* the space or the directory vouches for it now is never forgotten.       *)
VettingInv ==
  /\ Vetting!TypeOK
  /\ call.at = "directory" => ~Vetting!IsGroup(call.address)
  /\ call.at \in {"witness", "invite"} => Cleared
  /\ world.added \subseteq {call.address}
  /\ world.added # {} => Cleared
  /\ Vetting!Vouched(world, call.address) => past.vouched

LEMMA VettingInit ==
  ASSUME Vetting!Init
  PROVE  VettingInv
<1>1. Vetting!TypeOK
  <2>1. world \in [open : BOOLEAN, listed : SUBSET Addresses, added : SUBSET Addresses]
    <3>1. PICK o \in BOOLEAN, l \in SUBSET {a \in Addresses : ~Vetting!IsGroup(a)} :
            world = [open |-> o, listed |-> l, added |-> {}]
      BY DEF Vetting!Init
    <3>2. l \in SUBSET Addresses
      OBVIOUS
    <3>3. QED
      BY <3>1, <3>2
  <2>2. past \in [vouched : BOOLEAN, changes : Nat]
    BY DEF Vetting!Init, Vetting!Vouched
  <2>3. QED
    BY <2>1, <2>2 DEF Vetting!Init, Vetting!TypeOK
<1>2. /\ call.at = "start" /\ world.added = {}
      /\ Vetting!Vouched(world, call.address) => past.vouched
  BY DEF Vetting!Init
<1>3. QED
  BY <1>1, <1>2 DEF VettingInv

(* What the call reads changes nothing, so that who is cleared is settled  *)
(* by where the call goes.                                                 *)
LEMMA VettingReads ==
  ASSUME VettingInv,
         Vetting!Fail \/ Vetting!StartGroup \/ Vetting!StartPerson \/ Vetting!ReadDirectory
           \/ Vetting!CheckSpace
  PROVE  VettingInv'
<1> USE DEF Vetting!Goto, Vetting!Still
<1>1. UNCHANGED <<world, past>> /\ call'.tool = call.tool /\ call'.address = call.address
  BY DEF VettingInv, Vetting!TypeOK, Vetting!Fail, Vetting!StartGroup, Vetting!StartPerson,
         Vetting!ReadDirectory, Vetting!CheckSpace
<1>2. Vetting!TypeOK'
  BY <1>1 DEF VettingInv, Vetting!TypeOK, Vetting!Fail, Vetting!StartGroup, Vetting!StartPerson,
              Vetting!ReadDirectory, Vetting!CheckSpace
<1>3. call'.at = "directory" => ~Vetting!IsGroup(call.address)
  BY DEF VettingInv, Vetting!TypeOK, Vetting!Fail, Vetting!StartGroup, Vetting!StartPerson,
         Vetting!ReadDirectory, Vetting!CheckSpace
<1>4. call'.at \in {"witness", "invite"} => Cleared
  <2>1. CASE Vetting!StartGroup \/ Vetting!StartPerson
    BY <2>1 DEF VettingInv, Vetting!TypeOK, Vetting!StartGroup, Vetting!StartPerson, Cleared,
                Vetting!Vouched
  <2>2. CASE Vetting!ReadDirectory
    BY <2>2 DEF VettingInv, Vetting!TypeOK, Vetting!ReadDirectory, Vetting!Refused, Cleared,
                Vetting!Vouched, Vetting!IsGroup
  <2>3. CASE Vetting!Fail \/ Vetting!CheckSpace
    BY <2>3 DEF VettingInv, Vetting!TypeOK, Vetting!Fail, Vetting!CheckSpace
  <2>4. QED
    BY <2>1, <2>2, <2>3
<1>5. QED
  BY <1>1, <1>2, <1>3, <1>4 DEF VettingInv, Cleared

LEMMA VettingStep ==
  ASSUME VettingInv, [Vetting!Next]_(Vetting!vars)
  PROVE  VettingInv'
<1>1. CASE Vetting!Invite
  <2>1. /\ call.at = "invite" /\ UNCHANGED past
        /\ call'.tool = call.tool /\ call'.address = call.address
        /\ call'.at \in {"added", "already", "failed"}
    BY <1>1 DEF VettingInv, Vetting!TypeOK, Vetting!Invite, Vetting!Goto
  <2>2. /\ world'.added \subseteq {call.address}
        /\ world'.open = world.open /\ world'.listed = world.listed
    BY <1>1 DEF VettingInv, Vetting!TypeOK, Vetting!Invite
  <2>3. Vetting!TypeOK'
    BY <1>1, <2>1 DEF VettingInv, Vetting!TypeOK, Vetting!Invite, Vetting!Goto
  <2>4. QED
    BY <2>1, <2>2, <2>3 DEF VettingInv, Cleared, Vetting!Vouched
<1>2. CASE Vetting!Change
  <2>1. UNCHANGED call /\ world'.added = world.added
    BY <1>2 DEF VettingInv, Vetting!TypeOK, Vetting!Change
  <2>2. past'.vouched = (past.vouched \/ Vetting!Vouched(world', call.address))
    BY <1>2 DEF Vetting!Change
  <2>3. Vetting!TypeOK'
    <3>1. world' \in [open : BOOLEAN, listed : SUBSET Addresses, added : SUBSET Addresses]
      <4>1. CASE world' = [world EXCEPT !.open = ~@]
        BY <4>1 DEF VettingInv, Vetting!TypeOK
      <4>2. ASSUME NEW a \in Addresses,
                   \/ world' = [world EXCEPT !.listed = @ \ {a}]
                   \/ world' = [world EXCEPT !.listed = @ \cup {a}]
            PROVE  world' \in [open : BOOLEAN, listed : SUBSET Addresses, added : SUBSET Addresses]
        BY <4>2 DEF VettingInv, Vetting!TypeOK
      <4>3. QED
        BY <1>2, <4>1, <4>2 DEF Vetting!Change
    <3>2. past' \in [vouched : BOOLEAN, changes : Nat]
      BY <1>2 DEF VettingInv, Vetting!TypeOK, Vetting!Change, Vetting!Vouched
    <3>3. QED
      BY <2>1, <3>1, <3>2 DEF VettingInv, Vetting!TypeOK
  <2>4. past.vouched => past'.vouched
    BY <2>2
  <2>5. QED
    BY <2>1, <2>2, <2>3, <2>4 DEF VettingInv, Cleared
<1>3. CASE Vetting!Done \/ UNCHANGED Vetting!vars
  BY <1>3 DEF Vetting!Done, Vetting!vars, VettingInv, Vetting!TypeOK, Cleared, Vetting!Vouched
<1>4. QED
  BY <1>1, <1>2, <1>3, VettingReads DEF Vetting!Next

VettingKept == which = "vetting" => VettingInv

LEMMA VettingAlways == Spec => []VettingKept
<1>1. Init => VettingKept
  BY VettingInit DEF Init, VettingKept
<1>2. VettingKept /\ [Next]_vars => VettingKept'
  <2>1. SUFFICES ASSUME VettingKept, [Next]_vars, which' = "vetting" PROVE VettingInv'
    BY DEF VettingKept
  <2>2. which = "vetting" /\ [Vetting!Next]_(Vetting!vars)
    BY <2>1 DEF VettingKept, Next, vars, Vetting!vars
  <2>3. QED
    BY <2>1, <2>2, VettingStep DEF VettingKept
<1>3. QED
  BY <1>1, <1>2, PTL DEF Spec

(* However the space and the directory change while a call reads them, no  *)
(* one comes in by add_member whom nothing vouched for during the call, and*)
(* by the administrator's tool neither a group nor the caller, under any of*)
(* the addresses of the caller (members.go addMember, vetAdminInvitee).    *)
THEOREM OnlyTheVettedComeIn == Spec => []AddsWhomItVetted
<1>1. VettingKept => AddsWhomItVetted
  BY DEF VettingKept, AddsWhomItVetted, Vetting!AddsWhomItVetted, VettingInv, Cleared
<1>2. QED
  BY <1>1, VettingAlways, PTL

-----------------------------------------------------------------------------
(* What a page is: the first n of a set, or the last.                      *)

LEMMA Least ==
  ASSUME NEW S \in SUBSET Nat, S # {}
  PROVE  \E x \in S : \A y \in S : x <= y
<1>1. PICK x \in S : \A y \in S : ~(<<y, x>> \in OpToRel(<, Nat))
  BY WFMin, NatLessThanWellFounded
<1>2. \A y \in S : ~(y < x)
  BY <1>1 DEF OpToRel
<1>3. QED
  BY <1>2

(* The greatest is the one that the fewest are greater than.               *)
LEMMA Greatest ==
  ASSUME NEW S \in SUBSET Nat, IsFiniteSet(S), S # {}
  PROVE  \E x \in S : \A y \in S : y <= x
<1> DEFINE Above(x) == {q \in S : q > x}
           counts == {Cardinality(Above(x)) : x \in S}
<1>1. \A x \in S : IsFiniteSet(Above(x)) /\ Cardinality(Above(x)) \in Nat
  BY FS_Subset, FS_CardinalityType
<1>2. PICK x \in S : \A y \in S : Cardinality(Above(x)) <= Cardinality(Above(y))
  <2>1. counts \in SUBSET Nat /\ counts # {}
    BY <1>1
  <2>2. PICK c \in counts : \A d \in counts : c <= d
    BY <2>1, Least
  <2>3. QED
    BY <2>2
<1>3. ASSUME NEW y \in S, ~(y <= x) PROVE FALSE
  <2>1. Above(y) \in SUBSET Above(x) /\ y \in Above(x) /\ y \notin Above(y)
    <3>1. y \in Nat /\ x \in Nat /\ \A q \in S : q \in Nat
      OBVIOUS
    <3>2. y > x /\ ~(y > y) /\ \A q \in S : q > y => q > x
      BY <1>3, <3>1
    <3>3. Above(y) \in SUBSET Above(x)
      BY <3>2
    <3>4. y \in Above(x) /\ y \notin Above(y)
      BY <3>2
    <3>5. QED
      BY <3>3, <3>4
  <2>2. /\ Cardinality(Above(y)) <= Cardinality(Above(x))
        /\ Cardinality(Above(y)) # Cardinality(Above(x))
    BY <1>1, <2>1, FS_Subset
  <2>3. QED
    BY <1>1, <1>2, <2>2
<1>4. QED
  BY <1>3

(* All of a set are among its first n when there are no more than n.       *)
LEMMA FirstAll ==
  ASSUME NEW S \in SUBSET Nat, IsFiniteSet(S), NEW n \in Nat, Cardinality(S) <= n,
         NEW p \in S
  PROVE  Cardinality({q \in S : q < p}) < n
<1> DEFINE before == {q \in S : q < p}
<1>1. before \in SUBSET S /\ p \notin before
  OBVIOUS
<1>2. /\ IsFiniteSet(before) /\ Cardinality(before) <= Cardinality(S)
      /\ Cardinality(before) # Cardinality(S)
  BY <1>1, FS_Subset
<1>3. Cardinality(before) \in Nat /\ Cardinality(S) \in Nat
  BY <1>2, FS_CardinalityType
<1>4. QED
  BY <1>2, <1>3

(* Whoever comes before one of the first n is one of them.                 *)
LEMMA FirstDown ==
  ASSUME NEW S \in SUBSET Nat, IsFiniteSet(S), NEW n \in Nat, NEW p \in S, NEW q \in S, q <= p,
         Cardinality({r \in S : r < p}) < n
  PROVE  Cardinality({r \in S : r < q}) < n
<1>1. \A r \in S : r < q => r < p
  <2>1. q \in Nat /\ p \in Nat /\ \A r \in S : r \in Nat
    OBVIOUS
  <2>2. QED
    BY <2>1
<1>2. Cardinality({r \in S : r < q}) <= Cardinality({r \in S : r < p})
  <2>1. {r \in S : r < q} \in SUBSET {r \in S : r < p}
    BY <1>1
  <2>2. IsFiniteSet({r \in S : r < p})
    BY FS_Subset
  <2>3. QED
    BY <2>1, <2>2, FS_Subset
<1>3. Cardinality({r \in S : r < q}) \in Nat /\ Cardinality({r \in S : r < p}) \in Nat
  BY FS_Subset, FS_CardinalityType
<1>4. QED
  BY <1>2, <1>3

(* A page that leaves somebody out is full.                                *)
LEMMA FirstFull ==
  ASSUME NEW S \in SUBSET Nat, IsFiniteSet(S), NEW n \in Nat,
         NEW page, page = {r \in S : Cardinality({s \in S : s < r}) < n},
         NEW p \in S, p \notin page
  PROVE  n <= Cardinality(page)
<1>1. PICK m \in S \ page : \A y \in S \ page : m <= y
  <2>1. S \ page \in SUBSET Nat /\ S \ page # {}
    OBVIOUS
  <2>2. QED
    BY <2>1, Least
<1>2. {s \in S : s < m} \in SUBSET page
  <2>1. ASSUME NEW s \in S, s < m, s \notin page PROVE FALSE
    <3>1. s \in Nat /\ m \in Nat /\ m <= s
      BY <1>1, <2>1
    <3>2. QED
      BY <2>1, <3>1
  <2>2. QED
    BY <2>1
<1>3. IsFiniteSet(page) /\ Cardinality(page) \in Nat
  BY FS_Subset, FS_CardinalityType
<1>4. /\ Cardinality({s \in S : s < m}) <= Cardinality(page)
      /\ Cardinality({s \in S : s < m}) \in Nat
  BY <1>2, <1>3, FS_Subset, FS_CardinalityType
<1>5. ~(Cardinality({s \in S : s < m}) < n)
  BY <1>1
<1>6. QED
  BY <1>3, <1>4, <1>5

-----------------------------------------------------------------------------
(* The reaction of a person (reactions.go).                                *)

ReactCalls ==
  [op : {"add", "remove"}, whose : Reactors,
   at : {"start", "exists", "match", "done", "nothing", "failed"},
   page : SUBSET Reactors, known : SUBSET Reactors, reported : Reactors \cup {React!Nobody},
   deleted : SUBSET Reactors]

(* Whoever had a reaction all along has one now and had one at some time.  *)
Reacted ==
  /\ past = [ever |-> past.ever, always |-> past.always, changes |-> past.changes]
  /\ past.always \subseteq world /\ world \subseteq past.ever /\ past.ever \subseteq Reactors

(* What the call says and deletes is the person's, and the page it matches *)
(* them in is of those who reacted.                                        *)
OfThePerson ==
  /\ call.op = "add" => call.whose = Reactor
  /\ call.known \subseteq call.page /\ call.page \subseteq past.ever
  /\ call.at = "done" => call.reported = call.whose /\ call.whose \in past.ever
  /\ call.deleted \subseteq {call.whose}

(* The page has everybody who had a reaction all along, within its reach.  *)
Missed ==
  /\ call.at = "match" /\ React!InReach => past.always \subseteq call.page
  /\ call.at = "nothing" /\ React!InReach => call.whose \notin past.always

ReactInv == call \in ReactCalls /\ Reacted /\ OfThePerson /\ Missed

LEMMA ReactInit ==
  ASSUME React!Init
  PROVE  ReactInv
<1>1. call \in ReactCalls /\ call.at = "start"
  BY DEF React!Init, ReactCalls
<1>2. Reacted
  BY DEF React!Init, Reacted
<1>3. OfThePerson
  BY ListedAssumption DEF React!Init, OfThePerson
<1>4. QED
  BY <1>1, <1>2, <1>3 DEF ReactInv, Missed

LEMMA ReactCounts == \A S : React!Cardinality(S) = Cardinality(S)
  BY DEF React!Cardinality, Cardinality

(* The first page holds all of those that it can.                          *)
LEMMA PageOfAll ==
  ASSUME Reacted, React!InReach
  PROVE  React!First(ReactionPageSize, world) = world
<1>1. Reactors \in SUBSET Nat /\ IsFiniteSet(Reactors)
  BY ListedAssumption
<1>2. IsFiniteSet(past.ever) /\ Cardinality(past.ever) <= ReactionPageSize
  BY <1>1, ReactCounts, FS_Subset DEF Reacted, React!InReach
<1>3. IsFiniteSet(world) /\ Cardinality(world) <= Cardinality(past.ever)
  BY <1>2, FS_Subset DEF Reacted
<1>4. Cardinality(world) \in Nat /\ Cardinality(past.ever) \in Nat /\ ReactionPageSize \in Nat
  BY <1>2, <1>3, FS_CardinalityType, PagesAssumption
<1>5. world \in SUBSET Nat /\ Cardinality(world) <= ReactionPageSize
  BY <1>1, <1>2, <1>3, <1>4 DEF Reacted
<1>6. \A p \in world : Cardinality({q \in world : q < p}) < ReactionPageSize
  BY <1>3, <1>4, <1>5, FirstAll
<1>7. QED
  BY <1>6, ReactCounts DEF React!First

(* Who had a reaction at some time only grows, so that what is in reach    *)
(* after a step was before it.                                             *)
LEMMA InReachBefore ==
  ASSUME past.ever \subseteq past'.ever, past'.ever \subseteq Reactors, React!InReach'
  PROVE  React!InReach
<1>1. IsFiniteSet(past'.ever)
  BY ListedAssumption, FS_Subset
<1>2. IsFiniteSet(past.ever) /\ Cardinality(past.ever) <= Cardinality(past'.ever)
  BY <1>1, FS_Subset
<1>3. /\ Cardinality(past.ever) \in Nat /\ Cardinality(past'.ever) \in Nat
      /\ ReactionPageSize \in Nat
  BY <1>1, <1>2, FS_CardinalityType, PagesAssumption
<1>4. Cardinality(past'.ever) <= ReactionPageSize
  BY ReactCounts DEF React!InReach
<1>5. QED
  BY <1>2, <1>3, <1>4, ReactCounts DEF React!InReach

LEMMA ReactGoes ==
  ASSUME call \in ReactCalls, NEW at \in {"exists", "done", "nothing", "failed"},
         NEW p \in Reactors \cup {React!Nobody}, call' = [call EXCEPT !.at = at, !.reported = p]
  PROVE  call' \in ReactCalls
  BY DEF ReactCalls

LEMMA ReactAdd ==
  ASSUME ReactInv, React!AddReaction \/ React!existingReaction
  PROVE  ReactInv'
<1> USE DEF React!Report
<1>1. /\ call.op = "add" /\ call.whose = Reactor /\ call'.op = "add" /\ call'.whose = Reactor
      /\ call'.page = call.page /\ call'.known = call.known /\ call'.deleted = call.deleted
      /\ call'.at \in {"exists", "done", "failed"}
  BY DEF ReactInv, ReactCalls, OfThePerson, React!AddReaction, React!existingReaction
<1>2. CASE React!AddReaction
  <2>1. call' \in ReactCalls
    <3>1. PICK at \in {"exists", "done", "nothing", "failed"}, p \in {Reactor, React!Nobody} :
            call' = [call EXCEPT !.at = at, !.reported = p]
      BY <1>2 DEF React!AddReaction
    <3>2. p \in Reactors \cup {React!Nobody}
      BY <3>1, ListedAssumption
    <3>3. call \in ReactCalls
      BY DEF ReactInv
    <3>4. QED
      BY <3>1, <3>2, <3>3, ReactGoes
  <2>2. CASE UNCHANGED <<world, past>> /\ call'.at # "done"
    BY <1>1, <2>1, <2>2 DEF ReactInv, Reacted, OfThePerson, Missed
  <2>3. CASE /\ world' = world \cup {Reactor} /\ past' = [past EXCEPT !.ever = @ \cup {Reactor}]
             /\ call'.at = "done" => call'.reported = Reactor
    <3>1. /\ past'.ever = past.ever \cup {Reactor} /\ past'.always = past.always
          /\ past' = [ever |-> past'.ever, always |-> past'.always, changes |-> past'.changes]
      BY <2>3 DEF ReactInv, Reacted
    <3>2. Reacted'
      BY <2>3, <3>1, ListedAssumption DEF ReactInv, Reacted
    <3>3. OfThePerson'
      BY <1>1, <2>3, <3>1 DEF ReactInv, OfThePerson
    <3>4. QED
      BY <1>1, <2>1, <3>2, <3>3 DEF ReactInv, Missed
  <2>4. QED
    BY <1>2, <2>2, <2>3 DEF React!AddReaction, React!React, ReactInv, ReactCalls
<1>3. CASE React!existingReaction
  <2>1. /\ UNCHANGED <<world, past>>
        /\ \/ \E p \in React!OfCaller(world) : call' = [call EXCEPT !.at = "done", !.reported = p]
           \/ call' = [call EXCEPT !.at = "failed", !.reported = React!Nobody]
    BY <1>3 DEF React!existingReaction
  <2>2. \A p \in React!OfCaller(world) : p = Reactor /\ p \in past.ever
    BY DEF React!OfCaller, React!First, ReactInv, Reacted
  <2>3. call' \in ReactCalls
    <3>1. PICK at \in {"exists", "done", "nothing", "failed"}, p \in {Reactor, React!Nobody} :
            call' = [call EXCEPT !.at = at, !.reported = p]
      BY <2>1, <2>2
    <3>2. p \in Reactors \cup {React!Nobody}
      BY <3>1, ListedAssumption
    <3>3. call \in ReactCalls
      BY DEF ReactInv
    <3>4. QED
      BY <3>1, <3>2, <3>3, ReactGoes
  <2>4. call'.at = "done" => call'.reported = Reactor /\ Reactor \in past.ever
    BY <2>1, <2>2 DEF ReactInv, ReactCalls
  <2>5. QED
    BY <1>1, <2>1, <2>3, <2>4 DEF ReactInv, Reacted, OfThePerson, Missed
<1>4. QED
  BY <1>2, <1>3

LEMMA ReactList ==
  ASSUME ReactInv, React!ListReactions
  PROVE  ReactInv'
<1> DEFINE page == React!First(ReactionPageSize, world)
<1>1. call.op = "remove" /\ UNCHANGED <<world, past>>
  BY DEF React!ListReactions
<1>2. page \subseteq world
  BY DEF React!First
<1>3. CASE React!Report("failed", React!Nobody)
  BY <1>1, <1>3 DEF React!Report, ReactInv, ReactCalls, Reacted, OfThePerson, Missed
<1>4. ASSUME NEW known \in SUBSET page,
             call' = [call EXCEPT !.page = page, !.known = known,
                                  !.at = IF page = {} THEN "nothing" ELSE "match"]
      PROVE  ReactInv'
  <2>1. /\ call'.page = page /\ call'.known = known /\ call'.op = call.op
        /\ call'.whose = call.whose /\ call'.deleted = call.deleted
        /\ call'.at = IF page = {} THEN "nothing" ELSE "match"
    BY <1>4 DEF ReactInv, ReactCalls
  <2>2. call' \in ReactCalls
    <3>1. page \in SUBSET Reactors /\ known \in SUBSET Reactors
      BY <1>2, <1>4 DEF ReactInv, Reacted
    <3>2. QED
      BY <1>4, <3>1 DEF ReactInv, ReactCalls
  <2>3. OfThePerson'
    BY <1>1, <1>2, <1>4, <2>1 DEF ReactInv, Reacted, OfThePerson
  <2>4. Missed'
    <3>1. React!InReach => page = world
      BY PageOfAll DEF ReactInv
    <3>2. React!InReach' <=> React!InReach
      BY <1>1 DEF React!InReach
    <3>3. QED
      BY <1>1, <2>1, <3>1, <3>2 DEF ReactInv, Reacted, Missed
  <2>5. QED
    BY <1>1, <2>2, <2>3, <2>4 DEF ReactInv, Reacted
<1>5. QED
  BY <1>3, <1>4 DEF React!ListReactions

LEMMA ReactRemove ==
  ASSUME ReactInv, React!removeReactionByPerson
  PROVE  ReactInv'
<1>1. /\ call.op = "remove" /\ call.at = "match"
      /\ call.whose \in Reactors /\ call.known \subseteq call.page /\ call.page \subseteq past.ever
  BY DEF React!removeReactionByPerson, ReactInv, ReactCalls, OfThePerson
<1>2. ASSUME call.whose \in call.known, world' = world \ {call.whose},
             React!Unreact({call.whose}),
             \/ call' = [call EXCEPT !.at = "done", !.reported = call.whose,
                                     !.deleted = {call.whose}]
             \/ call' = [call EXCEPT !.at = "failed", !.deleted = {call.whose}]
      PROVE  ReactInv'
  <2>1. /\ past'.ever = past.ever /\ past'.always = past.always \ {call.whose}
        /\ past' = [ever |-> past'.ever, always |-> past'.always, changes |-> past'.changes]
    BY <1>2 DEF React!Unreact, ReactInv, Reacted
  <2>2. call' \in ReactCalls
    <3>1. {call.whose} \in SUBSET Reactors
      BY <1>1
    <3>2. CASE call' = [call EXCEPT !.at = "done", !.reported = call.whose,
                                    !.deleted = {call.whose}]
      BY <1>1, <3>1, <3>2 DEF ReactInv, ReactCalls
    <3>3. CASE call' = [call EXCEPT !.at = "failed", !.deleted = {call.whose}]
      BY <3>1, <3>3 DEF ReactInv, ReactCalls
    <3>4. QED
      BY <1>2, <3>2, <3>3
  <2>3. /\ call'.at \in {"done", "failed"} /\ call'.op = call.op /\ call'.whose = call.whose
        /\ call'.page = call.page /\ call'.known = call.known /\ call'.deleted = {call.whose}
        /\ call'.at = "done" => call'.reported = call.whose
    BY <1>2 DEF ReactInv, ReactCalls
  <2>4. Reacted'
    BY <1>2, <2>1 DEF ReactInv, Reacted
  <2>5. OfThePerson'
    BY <1>1, <1>2, <2>1, <2>3 DEF OfThePerson
  <2>6. QED
    BY <2>2, <2>3, <2>4, <2>5 DEF ReactInv, Missed
<1>3. ASSUME UNCHANGED <<world, past>>, NEW at \in {"nothing", "failed"},
             React!Report(at, React!Nobody),
             at = "nothing" => call.whose \notin call.page
      PROVE  ReactInv'
  <2>1. /\ call'.at = at /\ call'.op = call.op /\ call'.whose = call.whose
        /\ call'.page = call.page /\ call'.known = call.known /\ call'.deleted = call.deleted
        /\ call' \in ReactCalls
    BY <1>3 DEF React!Report, ReactInv, ReactCalls
  <2>2. OfThePerson'
    BY <1>1, <1>3, <2>1 DEF ReactInv, OfThePerson
  <2>3. React!InReach' <=> React!InReach
    BY <1>3 DEF React!InReach
  <2>4. Missed'
    BY <1>1, <1>3, <2>1, <2>3 DEF ReactInv, Missed
  <2>5. QED
    BY <1>3, <2>1, <2>2, <2>4 DEF ReactInv, Reacted
<1>4. CASE call.whose \in call.known
  BY <1>2, <1>3, <1>4 DEF React!removeReactionByPerson
<1>5. CASE call.whose \notin call.known
  <2>1. React!Report(IF call.known = call.page THEN "nothing" ELSE "failed", React!Nobody)
    BY <1>5 DEF React!removeReactionByPerson
  <2>2. UNCHANGED <<world, past>>
    BY <1>5 DEF React!removeReactionByPerson
  <2>3. QED
    BY <1>3, <1>5, <2>1, <2>2
<1>6. QED
  BY <1>4, <1>5

LEMMA ReactStep ==
  ASSUME ReactInv, [React!Next]_(React!vars)
  PROVE  ReactInv'
<1>1. CASE React!Others
  <2>1. PICK p \in Reactors :
          /\ world' = IF p \in world THEN world \ {p} ELSE world \cup {p}
          /\ past' = [ever |-> past.ever \cup world', always |-> past.always \cap world',
                      changes |-> past.changes + 1]
    BY <1>1 DEF React!Others
  <2>2. UNCHANGED call
    BY <1>1 DEF React!Others
  <2>3. Reacted' /\ past.ever \subseteq past'.ever /\ past'.always \subseteq past.always
    BY <2>1 DEF ReactInv, Reacted
  <2>4. OfThePerson'
    BY <2>2, <2>3 DEF ReactInv, OfThePerson
  <2>5. React!InReach' => React!InReach
    BY <2>3, InReachBefore DEF Reacted
  <2>6. Missed'
    BY <2>2, <2>3, <2>5 DEF ReactInv, Missed
  <2>7. QED
    BY <2>2, <2>3, <2>4, <2>6 DEF ReactInv
<1>2. CASE React!Done \/ UNCHANGED React!vars
  BY <1>2 DEF React!Done, React!vars, ReactInv, Reacted, OfThePerson, Missed, React!InReach
<1>3. QED
  BY <1>1, <1>2, ReactAdd, ReactList, ReactRemove DEF React!Next

ReactKept == which = "react" => ReactInv

LEMMA ReactAlways == Spec => []ReactKept
<1>1. Init => ReactKept
  BY ReactInit DEF Init, ReactKept
<1>2. ReactKept /\ [Next]_vars => ReactKept'
  <2>1. SUFFICES ASSUME ReactKept, [Next]_vars, which' = "react" PROVE ReactInv'
    BY DEF ReactKept
  <2>2. which = "react" /\ [React!Next]_(React!vars)
    BY <2>1 DEF ReactKept, Next, vars, React!vars
  <2>3. QED
    BY <2>1, <2>2, ReactStep DEF ReactKept
<1>3. QED
  BY <1>1, <1>2, PTL DEF Spec

(* However others react and take theirs back meanwhile, the reaction a call*)
(* reports or deletes is the one of the person it is about, and it says that*)
(* there was none only of someone who had none at some moment, as far as one*)
(* page reaches (reactions.go AddReaction, removeReactionByPerson).        *)
THEOREM TheirReactionIsReported == Spec => []ReportsTheirReaction
<1>1. ReactKept => ReportsTheirReaction
  BY DEF ReactKept, ReportsTheirReaction, React!ReportsTheirReaction, ReactInv, OfThePerson, Missed
<1>2. QED
  BY <1>1, ReactAlways, PTL

-----------------------------------------------------------------------------
(* The members a write is checked against (spacecheck.go).                 *)

Everybody == Members \cup {Witness!Me}

WitnessCalls ==
  [at : {"list", "compare", "write", "stale", "failed"}, given : SUBSET Everybody,
   after : Everybody \cup {-1}, page : 0..MaxWitnessPages,
   others : SUBSET (Everybody \cup {Witness!NoAddress}),
   mine : {Witness!Me, Witness!NoAddress}]

(* Whoever was a member all along is one now, and was one at some time.    *)
Stayed ==
  /\ past = [ever |-> past.ever, always |-> past.always, moves |-> past.moves]
  /\ world = [members |-> world.members, known |-> world.known]
  /\ past.always \subseteq world.members /\ world.members \subseteq past.ever
  /\ past.ever \subseteq Everybody

(* Somebody whom the pages held, by the address or without one.            *)
Listed(p) == p \in call.others \/ Witness!NoAddress \in call.others

(* The pages so far held whoever was there all along and comes before the  *)
(* token, and each was full but for the last.                              *)
PagesHeld ==
  /\ call.others \subseteq past.ever \cup {Witness!NoAddress}
  /\ call.at = "list" =>
       /\ call.page < MaxWitnessPages
       /\ \A p \in past.always \ {Witness!Me} : p <= call.after => Listed(p)
       /\ MemberPageSize * call.page <= Cardinality({p \in past.ever : p <= call.after})

(* Within their reach the pages held whoever was there all along, and what *)
(* they held is what is compared.                                          *)
Compared ==
  /\ call.at = "compare" /\ Witness!InReach =>
       \A p \in past.always \ {Witness!Me} : Listed(p)
  /\ Witness!WriteNamesTheMembers

WitnessInv == call \in WitnessCalls /\ Stayed /\ PagesHeld /\ Compared

LEMMA WitnessCounts == \A S : Witness!Cardinality(S) = Cardinality(S)
  BY DEF Witness!Cardinality, Cardinality

(* Everybody there is has a number, and there is an end to them.           *)
LEMMA EverybodyCounts ==
  /\ Everybody \in SUBSET Nat /\ IsFiniteSet(Everybody)
  /\ Witness!Me = 0 /\ Witness!NoAddress = -1
  /\ MemberPageSize \in Nat \ {0} /\ MaxWitnessPages \in Nat \ {0}
<1>1. Members \in SUBSET (Nat \ {0}) /\ IsFiniteSet(Members)
  BY ListedAssumption
<1>2. IsFiniteSet(Everybody)
  BY <1>1, FS_AddElement DEF Everybody
<1>3. QED
  BY <1>1, <1>2, PagesAssumption DEF Everybody, Witness!Me, Witness!NoAddress

LEMMA WitnessInit ==
  ASSUME Witness!Init
  PROVE  WitnessInv
<1> USE EverybodyCounts
<1>1. /\ call.at = "list" /\ call.after = -1 /\ call.page = 0 /\ call.others = {}
      /\ call.mine = Witness!NoAddress /\ call.given \in SUBSET Everybody
  BY DEF Witness!Init, Everybody
<1>2. call \in WitnessCalls
  <2>1. call = [at |-> call.at, given |-> call.given, after |-> call.after, page |-> call.page,
                others |-> call.others, mine |-> call.mine]
    BY DEF Witness!Init
  <2>2. QED
    BY <1>1, <2>1 DEF WitnessCalls
<1>3. Stayed
  BY DEF Witness!Init, Stayed, Everybody
<1>4. past.always \subseteq Nat /\ past.ever \subseteq Nat
  BY <1>3 DEF Stayed
<1>5. PagesHeld
  <2>1. \A p \in past.always : ~(p <= call.after)
    BY <1>1, <1>4
  <2>2. {p \in past.ever : p <= call.after} = {}
    BY <1>1, <1>4
  <2>3. QED
    BY <1>1, <2>1, <2>2, FS_EmptySet DEF PagesHeld
<1>6. QED
  BY <1>1, <1>2, <1>3, <1>5 DEF WitnessInv, Compared, Witness!WriteNamesTheMembers

(* A page holds the next members there are: all of them, or as many as fit *)
(* and every one up to its last.                                           *)
LEMMA NextPage ==
  ASSUME WitnessInv, call.after \in Int,
         NEW left, left = {p \in world.members : p > call.after},
         NEW page, page = Witness!Page(call.after)
  PROVE  /\ left \in SUBSET Nat /\ page \subseteq left /\ IsFiniteSet(page)
         /\ \A p \in page, q \in left : q <= p => q \in page
         /\ left # page => MemberPageSize <= Cardinality(page)
         /\ page # {} => Witness!Max(page) \in page /\ \A p \in page : p <= Witness!Max(page)
<1> USE EverybodyCounts
<1>1. /\ left \in SUBSET Nat /\ IsFiniteSet(left)
  <2>1. left \in SUBSET Everybody
    BY DEF WitnessInv, Stayed
  <2>2. QED
    BY <2>1, FS_Subset
<1>2. page = {p \in left : Cardinality({q \in left : q < p}) < MemberPageSize}
  BY WitnessCounts DEF Witness!Page
<1>3. page \subseteq left /\ IsFiniteSet(page)
  BY <1>1, <1>2, FS_Subset
<1>4. ASSUME NEW p \in page, NEW q \in left, q <= p PROVE q \in page
  <2>1. p \in left /\ Cardinality({r \in left : r < p}) < MemberPageSize
    BY <1>2
  <2>2. Cardinality({r \in left : r < q}) < MemberPageSize
    BY <1>1, <1>4, <2>1, FirstDown
  <2>3. QED
    BY <1>2, <2>2
<1>5. ASSUME left # page PROVE MemberPageSize <= Cardinality(page)
  <2>1. PICK p \in left : p \notin page
    BY <1>3, <1>5
  <2>2. QED
    BY <1>1, <1>2, <2>1, FirstFull
<1>6. ASSUME page # {} PROVE Witness!Max(page) \in page /\ \A p \in page : p <= Witness!Max(page)
  <2>1. page \in SUBSET Nat
    BY <1>1, <1>3
  <2>2. \E x \in page : \A y \in page : y <= x
    BY <1>3, <1>6, <2>1, Greatest
  <2>3. \E x \in page : \A y \in page : x >= y
    BY <2>1, <2>2
  <2>4. QED
    BY <2>1, <2>3 DEF Witness!Max
<1>7. QED
  BY <1>1, <1>3, <1>4, <1>5, <1>6

LEMMA WitnessList ==
  ASSUME WitnessInv, Witness!ListMembers
  PROVE  WitnessInv'
<1> USE EverybodyCounts
<1> DEFINE left == {p \in world.members : p > call.after}
           page == Witness!Page(call.after)
           more == \E p \in world.members : p > call.after /\ p \notin page
           last == IF page = {} THEN call.after ELSE Witness!Max(page)
           upTo(n) == {p \in past.ever : p <= n}
<1>1. call.at = "list" /\ UNCHANGED <<world, past>>
  BY DEF Witness!ListMembers
<1>2. /\ call.after \in Int /\ -1 <= call.after /\ call.page \in Nat
      /\ call.page + 1 <= MaxWitnessPages
  <2>1. call.after \in Everybody \cup {-1} /\ call.page \in 0..MaxWitnessPages
    BY DEF WitnessInv, WitnessCalls
  <2>2. call.page < MaxWitnessPages
    BY <1>1 DEF WitnessInv, PagesHeld
  <2>3. call.after \in Nat \/ call.after = -1
    BY <2>1
  <2>4. call.page \in Nat /\ call.page + 1 <= MaxWitnessPages
    BY <2>1, <2>2
  <2>5. QED
    BY <2>3, <2>4
<1>3. /\ left \in SUBSET Nat /\ page \subseteq left /\ IsFiniteSet(page)
      /\ \A p \in page, q \in left : q <= p => q \in page
      /\ left # page => MemberPageSize <= Cardinality(page)
      /\ page # {} => Witness!Max(page) \in page /\ \A p \in page : p <= Witness!Max(page)
  BY <1>2, NextPage
<1>4. more <=> left # page
  BY <1>3
<1>5. /\ call'.others = call.others \cup {Witness!Address(p) : p \in page \ {Witness!Me}}
      /\ call'.mine \in {call.mine, Witness!Address(Witness!Me)}
      /\ call'.after = last /\ call'.page = call.page + 1 /\ call'.given = call.given
      /\ call'.at = IF more /\ call.page + 1 < MaxWitnessPages THEN "list" ELSE "compare"
      /\ call' = [at |-> call'.at, given |-> call'.given, after |-> call'.after,
                  page |-> call'.page, others |-> call'.others, mine |-> call'.mine]
  BY DEF WitnessInv, WitnessCalls, Witness!ListMembers
<1> HIDE DEF page, more
<1>6. \A p \in page : p \in world.members /\ p \in past.ever /\ p \in Nat /\ p > call.after
  BY <1>3 DEF WitnessInv, Stayed
<1>7. /\ last \in Int /\ call.after <= last /\ last \in Everybody \cup {-1}
      /\ \A p \in page : p <= last
      /\ \A p \in left : p <= last => p \in page
  <2>1. CASE page = {}
    BY <1>2, <1>3, <2>1 DEF WitnessInv, WitnessCalls
  <2>2. CASE page # {}
    <3>1. last \in page /\ \A p \in page : p <= last
      BY <1>3, <2>2
    <3>2. last \in Everybody
      BY <1>6, <3>1 DEF WitnessInv, Stayed
    <3>3. last \in Int /\ call.after <= last
      BY <1>2, <1>6, <3>1
    <3>4. QED
      BY <1>3, <3>1, <3>2, <3>3
  <2>3. QED
    BY <2>1, <2>2
<1> HIDE DEF last
<1>8. /\ call'.others \subseteq past.ever \cup {Witness!NoAddress}
      /\ \A p \in page \ {Witness!Me} : Listed(p)'
      /\ \A p : Listed(p) => Listed(p)'
  BY <1>5, <1>6 DEF WitnessInv, PagesHeld, Listed, Witness!Address
<1>9. call' \in WitnessCalls
  <2>1. call'.others \in SUBSET (Everybody \cup {Witness!NoAddress})
    BY <1>8 DEF WitnessInv, Stayed
  <2>2. call'.mine \in {Witness!Me, Witness!NoAddress}
    BY <1>5 DEF WitnessInv, WitnessCalls, Witness!Address
  <2>3. call'.page \in 0..MaxWitnessPages
    BY <1>2, <1>5
  <2>4. call'.given \in SUBSET Everybody
    BY <1>5 DEF WitnessInv, WitnessCalls
  <2>5. QED
    BY <1>5, <1>7, <2>1, <2>2, <2>3, <2>4 DEF WitnessCalls
<1>10. \A p \in past.always : p \in world.members /\ p \in Nat
  BY DEF WitnessInv, Stayed
<1>11. ASSUME NEW p \in past.always \ {Witness!Me}, p <= last \/ ~more PROVE Listed(p)'
  <2>1. CASE p <= call.after
    BY <1>1, <1>8, <2>1 DEF WitnessInv, PagesHeld
  <2>2. CASE p > call.after
    <3>1. p \in left
      BY <1>10, <2>2
    <3>2. p \in page
      BY <1>4, <1>7, <1>11, <3>1
    <3>3. QED
      BY <1>8, <3>2
  <2>3. QED
    BY <1>2, <1>10, <2>1, <2>2
<1>12. /\ IsFiniteSet(past.ever) /\ past.ever \subseteq Nat
       /\ \A n : IsFiniteSet(upTo(n)) /\ Cardinality(upTo(n)) \in Nat
       /\ Cardinality(past.ever) \in Nat /\ Cardinality(page) \in Nat
  <2>1. past.ever \in SUBSET Everybody
    BY DEF WitnessInv, Stayed
  <2>2. IsFiniteSet(past.ever)
    BY <2>1, FS_Subset
  <2>3. QED
    BY <1>3, <2>1, <2>2, FS_Subset, FS_CardinalityType
<1>13. ASSUME more PROVE MemberPageSize * (call.page + 1) <= Cardinality(upTo(last))
  <2> DEFINE sofar == MemberPageSize * call.page
  <2>1. MemberPageSize * call.page <= Cardinality(upTo(call.after))
    BY <1>1 DEF WitnessInv, PagesHeld
  <2>2. upTo(call.after) \cap page = {}
    BY <1>2, <1>6
  <2>3. upTo(call.after) \cup page \in SUBSET upTo(last)
    BY <1>2, <1>6, <1>7, <1>12
  <2>4. Cardinality(upTo(call.after) \cup page) = Cardinality(upTo(call.after)) + Cardinality(page)
    <3>1. Cardinality(upTo(call.after) \cap page) = 0
      BY <2>2, FS_EmptySet
    <3>2. Cardinality(upTo(call.after) \cup page)
            = Cardinality(upTo(call.after)) + Cardinality(page)
                - Cardinality(upTo(call.after) \cap page)
      BY <1>3, <1>12, FS_Union
    <3>3. QED
      BY <1>12, <3>1, <3>2
  <2>5. Cardinality(upTo(call.after) \cup page) <= Cardinality(upTo(last))
    BY <1>12, <2>3, FS_Subset
  <2>6. MemberPageSize <= Cardinality(page)
    BY <1>3, <1>4, <1>13
  <2>7. MemberPageSize * (call.page + 1) = sofar + MemberPageSize /\ sofar \in Nat
    BY <1>2
  <2>8. sofar <= Cardinality(upTo(call.after))
    BY <2>1
  <2> HIDE DEF sofar, upTo
  <2>9. sofar + MemberPageSize <= Cardinality(upTo(last))
    BY <1>12, <2>4, <2>5, <2>6, <2>7, <2>8
  <2>10. QED
    BY <2>7, <2>9
<1>14. ASSUME more, call.page + 1 = MaxWitnessPages PROVE ~Witness!InReach
  <2>1. PICK p \in world.members : p > call.after /\ p \notin page
    BY <1>14 DEF more
  <2>2. p \in past.ever /\ p \in Nat /\ ~(p <= last)
    <3>1. p \in left /\ p \in past.ever /\ p \in Nat
      BY <2>1 DEF WitnessInv, Stayed
    <3>2. QED
      BY <1>7, <2>1, <3>1
  <2>3. upTo(last) \in SUBSET past.ever /\ upTo(last) # past.ever
    BY <2>2
  <2>4. /\ Cardinality(upTo(last)) <= Cardinality(past.ever)
        /\ Cardinality(upTo(last)) # Cardinality(past.ever)
    BY <1>12, <2>3, FS_Subset
  <2>5. MemberPageSize * MaxWitnessPages <= Cardinality(upTo(last))
    BY <1>13, <1>14
  <2>6. MemberPageSize * MaxWitnessPages \in Nat
    OBVIOUS
  <2>7. ~(Cardinality(past.ever) <= MemberPageSize * MaxWitnessPages)
    BY <1>12, <2>4, <2>5, <2>6
  <2>8. QED
    BY <2>7, WitnessCounts DEF Witness!InReach
<1>15. PagesHeld'
  <2>1. CASE call'.at = "list"
    <3>1. more /\ call.page + 1 < MaxWitnessPages
      BY <1>5, <2>1
    <3>2. MemberPageSize * call'.page <= Cardinality({p \in past'.ever : p <= call'.after})
      BY <1>1, <1>5, <1>13, <3>1
    <3>3. \A p \in past'.always \ {Witness!Me} : p <= call'.after => Listed(p)'
      BY <1>1, <1>5, <1>11
    <3>4. QED
      BY <1>1, <1>5, <1>8, <3>1, <3>2, <3>3 DEF PagesHeld
  <2>2. CASE call'.at # "list"
    BY <1>1, <1>8, <2>2 DEF PagesHeld
  <2>3. QED
    BY <2>1, <2>2
<1>16. Compared'
  <2>1. call'.at # "write"
    BY <1>5
  <2>2. ASSUME call'.at = "compare", Witness!InReach'
        PROVE  \A p \in past'.always \ {Witness!Me} : Listed(p)'
    <3>1. Witness!InReach
      BY <1>1, <2>2 DEF Witness!InReach
    <3>2. ~more
      BY <1>2, <1>5, <1>14, <2>2, <3>1
    <3>3. QED
      BY <1>1, <1>11, <3>2
  <2>3. QED
    BY <2>1, <2>2 DEF Compared, Witness!WriteNamesTheMembers
<1>17. QED
  BY <1>1, <1>9, <1>15, <1>16 DEF WitnessInv, Stayed

(* A write follows only when nobody on the pages was without an address.   *)
LEMMA WitnessCompare ==
  ASSUME WitnessInv, Witness!Compare
  PROVE  WitnessInv'
<1> USE EverybodyCounts
<1>1. /\ call.at = "compare" /\ UNCHANGED <<world, past>>
      /\ call'.given = call.given /\ call'.others = call.others /\ call'.mine = call.mine
      /\ call'.at \in {"write", "stale"} /\ call' \in WitnessCalls
  BY DEF WitnessInv, WitnessCalls, Witness!Compare
<1>2. call'.at = "write" => call.others = call.given \ {call.mine}
  BY DEF WitnessInv, WitnessCalls, Witness!Compare, Witness!Matches
<1>3. call.given \subseteq Everybody /\ call.mine \in {Witness!Me, Witness!NoAddress}
  BY DEF WitnessInv, WitnessCalls
<1>4. ASSUME call'.at = "write" PROVE Witness!NoAddress \notin call.others
  BY <1>2, <1>3, <1>4
<1>5. ASSUME call'.at = "write" PROVE call.given \subseteq past.ever \cup {Witness!Me}
  <2>1. call.others \subseteq past.ever
    BY <1>4, <1>5 DEF WitnessInv, PagesHeld
  <2>2. ASSUME NEW p \in call.given, p # Witness!Me PROVE p \in call.others
    BY <1>2, <1>3, <1>5, <2>2
  <2>3. QED
    BY <2>1, <2>2
<1>6. ASSUME call'.at = "write", Witness!InReach
      PROVE  past.always \ {Witness!Me} \subseteq call.given
  <2>1. \A p \in past.always \ {Witness!Me} : p \in call.others
    BY <1>1, <1>4, <1>6 DEF WitnessInv, Compared, Listed
  <2>2. QED
    BY <1>2, <1>6, <2>1
<1>7. Witness!WriteNamesTheMembers'
  <2>1. Witness!InReach' <=> Witness!InReach
    BY <1>1 DEF Witness!InReach
  <2>2. QED
    BY <1>1, <1>5, <1>6, <2>1 DEF Witness!WriteNamesTheMembers
<1>8. QED
  BY <1>1, <1>7 DEF WitnessInv, Stayed, PagesHeld, Compared

(* What others do leaves what the pages held, and nobody of those who have *)
(* been there all along is new.                                            *)
LEMMA WitnessOthers ==
  ASSUME WitnessInv, Witness!Join \/ Witness!Leave \/ Witness!Resolve
  PROVE  WitnessInv'
<1> USE EverybodyCounts
<1>1. UNCHANGED call
  BY DEF Witness!Join, Witness!Leave, Witness!Resolve
<1>2. Stayed' /\ past.ever \subseteq past'.ever /\ past'.always \subseteq past.always
  <2>1. CASE Witness!Join
    <3>1. PICK p \in Members :
            /\ world' = [world EXCEPT !.members = @ \cup {p}]
            /\ past' = [past EXCEPT !.ever = @ \cup {p}, !.moves = @ + 1]
      BY <2>1 DEF Witness!Join
    <3>2. /\ world'.members = world.members \cup {p}
          /\ world' = [members |-> world'.members, known |-> world'.known]
      BY <3>1 DEF WitnessInv, Stayed
    <3>3. /\ past'.ever = past.ever \cup {p} /\ past'.always = past.always
          /\ past' = [ever |-> past'.ever, always |-> past'.always, moves |-> past'.moves]
      BY <3>1 DEF WitnessInv, Stayed
    <3>4. QED
      BY <3>2, <3>3 DEF WitnessInv, Stayed, Everybody
  <2>2. CASE Witness!Leave
    <3>1. PICK p \in Members :
            /\ world' = [world EXCEPT !.members = @ \ {p}]
            /\ past' = [past EXCEPT !.always = @ \ {p}, !.moves = @ + 1]
      BY <2>2 DEF Witness!Leave
    <3>2. /\ world'.members = world.members \ {p}
          /\ world' = [members |-> world'.members, known |-> world'.known]
      BY <3>1 DEF WitnessInv, Stayed
    <3>3. /\ past'.ever = past.ever /\ past'.always = past.always \ {p}
          /\ past' = [ever |-> past'.ever, always |-> past'.always, moves |-> past'.moves]
      BY <3>1 DEF WitnessInv, Stayed
    <3>4. QED
      BY <3>2, <3>3 DEF WitnessInv, Stayed, Everybody
  <2>3. CASE Witness!Resolve
    <3>1. PICK p \in Everybody :
            /\ world' = [world EXCEPT !.known = IF p \in @ THEN @ \ {p} ELSE @ \cup {p}]
            /\ past' = [past EXCEPT !.moves = @ + 1]
      BY <2>3 DEF Witness!Resolve, Everybody
    <3>2. /\ world'.members = world.members
          /\ world' = [members |-> world'.members, known |-> world'.known]
      BY <3>1 DEF WitnessInv, Stayed
    <3>3. /\ past'.ever = past.ever /\ past'.always = past.always
          /\ past' = [ever |-> past'.ever, always |-> past'.always, moves |-> past'.moves]
      BY <3>1 DEF WitnessInv, Stayed
    <3>4. QED
      BY <3>2, <3>3 DEF WitnessInv, Stayed
  <2>4. QED
    BY <2>1, <2>2, <2>3
<1>3. IsFiniteSet(past'.ever) /\ IsFiniteSet(past.ever)
  BY <1>2, FS_Subset DEF WitnessInv, Stayed
<1>4. /\ Cardinality(past.ever) <= Cardinality(past'.ever)
      /\ Cardinality(past.ever) \in Nat /\ Cardinality(past'.ever) \in Nat
  BY <1>2, <1>3, FS_Subset, FS_CardinalityType
<1>5. Witness!InReach' => Witness!InReach
  <2>1. MemberPageSize * MaxWitnessPages \in Nat
    OBVIOUS
  <2>2. QED
    BY <1>4, <2>1, WitnessCounts DEF Witness!InReach
<1>6. PagesHeld'
  <2>1. ASSUME call.at = "list"
        PROVE  MemberPageSize * call.page <= Cardinality({p \in past'.ever : p <= call.after})
    <3>1. {p \in past.ever : p <= call.after} \in SUBSET {p \in past'.ever : p <= call.after}
      BY <1>2
    <3>2. /\ IsFiniteSet({p \in past'.ever : p <= call.after})
          /\ IsFiniteSet({p \in past.ever : p <= call.after})
      BY <1>3, FS_Subset
    <3>3. /\ Cardinality({p \in past.ever : p <= call.after})
               <= Cardinality({p \in past'.ever : p <= call.after})
          /\ Cardinality({p \in past.ever : p <= call.after}) \in Nat
          /\ Cardinality({p \in past'.ever : p <= call.after}) \in Nat
      BY <3>1, <3>2, FS_Subset, FS_CardinalityType
    <3>4. MemberPageSize * call.page <= Cardinality({p \in past.ever : p <= call.after})
      BY <2>1 DEF WitnessInv, PagesHeld
    <3>5. MemberPageSize * call.page \in Nat
      BY DEF WitnessInv, WitnessCalls
    <3>6. QED
      BY <3>3, <3>4, <3>5
  <2>2. QED
    BY <1>1, <1>2, <2>1 DEF WitnessInv, PagesHeld, Listed
<1>7. Compared'
  BY <1>1, <1>2, <1>5 DEF WitnessInv, Compared, Listed, Witness!WriteNamesTheMembers
<1>8. QED
  BY <1>1, <1>2, <1>6, <1>7 DEF WitnessInv

LEMMA WitnessStep ==
  ASSUME WitnessInv, [Witness!Next]_(Witness!vars)
  PROVE  WitnessInv'
<1>1. CASE Witness!ListFails
  BY <1>1 DEF Witness!ListFails, WitnessInv, WitnessCalls, Stayed, PagesHeld, Compared,
              Witness!WriteNamesTheMembers
<1>2. CASE Witness!Done \/ UNCHANGED Witness!vars
  BY <1>2 DEF Witness!Done, Witness!vars, WitnessInv, Stayed, PagesHeld, Compared, Listed,
              Witness!WriteNamesTheMembers, Witness!InReach
<1>3. QED
  BY <1>1, <1>2, WitnessList, WitnessCompare, WitnessOthers DEF Witness!Next

WitnessKept == which = "witness" => WitnessInv

LEMMA WitnessAlways == Spec => []WitnessKept
<1>1. Init => WitnessKept
  BY WitnessInit DEF Init, WitnessKept
<1>2. WitnessKept /\ [Next]_vars => WitnessKept'
  <2>1. SUFFICES ASSUME WitnessKept, [Next]_vars, which' = "witness" PROVE WitnessInv'
    BY DEF WitnessKept
  <2>2. which = "witness" /\ [Witness!Next]_(Witness!vars)
    BY <2>1 DEF WitnessKept, Next, vars, Witness!vars
  <2>3. QED
    BY <2>1, <2>2, WitnessStep DEF WitnessKept
<1>3. QED
  BY <1>1, <1>2, PTL DEF Spec

(* However people come and go between the pages, and whoever of them has no*)
(* address, a write goes to a conversation in which everybody it names has *)
(* been, and of whose members it names all that were there all along, as far*)
(* as the pages reach (spacecheck.go checkMembers).                        *)
THEOREM WhoIsThereIsNamed == Spec => []WriteNamesTheMembers
<1>1. WitnessKept => WriteNamesTheMembers
  BY DEF WitnessKept, WriteNamesTheMembers, Witness!WriteNamesTheMembers, WitnessInv, Compared
<1>2. QED
  BY <1>1, WitnessAlways, PTL

-----------------------------------------------------------------------------
(* The search of one space (search.go).                                    *)

Found == Matching \ Nameless

ScanCalls ==
  [at : {"list", "done", "failed"}, window : SUBSET Messages, before : Nat,
   pages : 0..MaxScanPages, matches : SUBSET Messages, scanned : Nat, unparsed : Nat,
   capReached : BOOLEAN]

(* Whatever was there all along is there now, and was at some time.        *)
Lasting ==
  /\ past = [ever |-> past.ever, always |-> past.always, changes |-> past.changes]
  /\ past.always \subseteq world /\ world \subseteq past.ever /\ past.ever \subseteq Messages

(* What the call has found it looked at, and the limit has room.           *)
FoundSoFar ==
  /\ call.matches \subseteq Found \cap past.ever
  /\ \A m \in call.matches : call.before <= m
  /\ Cardinality(call.matches) <= ScanLimit
  /\ call.at = "list" => /\ Cardinality(call.matches) < ScanLimit
                         /\ call.pages < MaxScanPages

(* Every match of the window that was there all along, from n on.          *)
FoundFrom(n) ==
  \A m \in past.always \cap Matching \cap call.window : n <= m => m \in call.matches

(* Where nothing was left unparsed, no match is missed so far.             *)
NoneMissed ==
  call.unparsed = 0 =>
    /\ call.at = "list" => FoundFrom(call.before)
    /\ call.at = "done" /\ ~call.capReached => FoundFrom(0)

ScanInv == call \in ScanCalls /\ Lasting /\ FoundSoFar /\ NoneMissed

LEMMA ScanCounts == \A S : Scan!Cardinality(S) = Cardinality(S)
  BY DEF Scan!Cardinality, Cardinality

LEMMA MessagesCount ==
  /\ Messages \in SUBSET (Nat \ {0}) /\ IsFiniteSet(Messages)
  /\ Matching \subseteq Messages /\ Nameless \subseteq Messages
  /\ MessagePageSize \in Nat \ {0} /\ MaxScanPages \in Nat \ {0} /\ ScanLimit \in Nat \ {0}
  BY ListedAssumption, PagesAssumption

LEMMA ScanInit ==
  ASSUME Scan!Init
  PROVE  ScanInv
<1> USE MessagesCount
<1> DEFINE newest == Scan!Max(Messages \cup {0})
<1>1. newest \in Nat /\ \A m \in Messages : m <= newest
  <2>1. Messages \cup {0} \in SUBSET Nat /\ Messages \cup {0} # {}
    OBVIOUS
  <2>2. IsFiniteSet(Messages \cup {0})
    BY FS_AddElement
  <2>3. \E x \in Messages \cup {0} : \A y \in Messages \cup {0} : y <= x
    BY <2>1, <2>2, Greatest
  <2>4. \E x \in Messages \cup {0} : \A y \in Messages \cup {0} : x >= y
    BY <2>1, <2>3
  <2>5. /\ newest \in Messages \cup {0}
        /\ \A y \in Messages \cup {0} : newest >= y
    BY <2>4 DEF Scan!Max
  <2>6. QED
    BY <2>1, <2>5
<1> HIDE DEF newest
<1>2. /\ call.at = "list" /\ call.before = newest + 1 /\ call.pages = 0 /\ call.matches = {}
      /\ call.window \in SUBSET Messages /\ call.scanned = 0 /\ call.unparsed = 0
      /\ call.capReached = FALSE
      /\ call = [at |-> call.at, window |-> call.window, before |-> call.before,
                 pages |-> call.pages, matches |-> call.matches, scanned |-> call.scanned,
                 unparsed |-> call.unparsed, capReached |-> call.capReached]
  BY DEF Scan!Init, newest
<1>3. call \in ScanCalls
  <2>1. PICK w \in SUBSET Messages :
          call = [at |-> "list", window |-> w, before |-> newest + 1, pages |-> 0,
                  matches |-> {}, scanned |-> 0, unparsed |-> 0, capReached |-> FALSE]
    BY DEF Scan!Init, newest
  <2>2. newest + 1 \in Nat /\ 0 \in 0..MaxScanPages
    BY <1>1
  <2>3. QED
    BY <2>1, <2>2 DEF ScanCalls
<1>4. Lasting
  BY DEF Scan!Init, Lasting
<1>5. FoundSoFar
  BY <1>2, FS_EmptySet DEF FoundSoFar
<1>6. NoneMissed
  <2>1. \A m \in past.always : ~(call.before <= m)
    <3>1. \A m \in past.always : m \in Nat /\ m <= newest
      BY <1>1, <1>4 DEF Lasting
    <3>2. QED
      BY <1>1, <1>2, <3>1
  <2>2. QED
    BY <1>2, <2>1 DEF NoneMissed, FoundFrom
<1>7. QED
  BY <1>3, <1>4, <1>5, <1>6 DEF ScanInv

(* Whoever comes after one of the last n is one of them.                   *)
LEMMA LastUp ==
  ASSUME NEW S \in SUBSET Nat, IsFiniteSet(S), NEW n \in Nat, NEW p \in S, NEW q \in S, p <= q,
         Cardinality({r \in S : r > p}) < n
  PROVE  Cardinality({r \in S : r > q}) < n
<1>1. \A r \in S : r > q => r > p
  <2>1. q \in Nat /\ p \in Nat /\ \A r \in S : r \in Nat
    OBVIOUS
  <2>2. QED
    BY <2>1
<1>2. Cardinality({r \in S : r > q}) <= Cardinality({r \in S : r > p})
  <2>1. {r \in S : r > q} \in SUBSET {r \in S : r > p}
    BY <1>1
  <2>2. IsFiniteSet({r \in S : r > p})
    BY FS_Subset
  <2>3. QED
    BY <2>1, <2>2, FS_Subset
<1>3. Cardinality({r \in S : r > q}) \in Nat /\ Cardinality({r \in S : r > p}) \in Nat
  BY FS_Subset, FS_CardinalityType
<1>4. QED
  BY <1>2, <1>3

(* A page is looked at up to the message that leaves no more room: all of  *)
(* it, or as many matches as there is room for, and never more.            *)
LEMMA LookedAt ==
  ASSUME NEW page \in SUBSET Nat, IsFiniteSet(page), NEW room \in Nat \ {0},
         NEW looked, looked = Scan!Looked(page, room)
  PROVE  /\ Cardinality(looked \cap Found) <= room
         /\ looked # page => room <= Cardinality(looked \cap Found)
<1> DEFINE hits == page \cap Found
           newer(m) == {k \in hits : k > m}
           taken == looked \cap Found
<1>1. looked = {m \in page : Cardinality(newer(m)) < room}
  BY ScanCounts DEF Scan!Looked, Found
<1>2. hits \in SUBSET Nat /\ IsFiniteSet(hits) /\ taken \in SUBSET hits
  BY <1>1, FS_Subset
<1>3. /\ IsFiniteSet(taken) /\ Cardinality(taken) \in Nat
      /\ \A m : IsFiniteSet(newer(m)) /\ Cardinality(newer(m)) \in Nat
  <2>1. IsFiniteSet(taken) /\ \A m : IsFiniteSet(newer(m))
    BY <1>2, FS_Subset
  <2>2. QED
    BY <2>1, FS_CardinalityType
<1>4. Cardinality(taken) <= room
  <2>1. CASE taken = {}
    BY <2>1, FS_EmptySet
  <2>2. CASE taken # {}
    <3>1. taken \in SUBSET Nat
      BY <1>2
    <3>2. PICK m \in taken : \A y \in taken : m <= y
      BY <2>2, <3>1, Least
    <3>3. taken \ {m} \in SUBSET newer(m)
      <4>1. \A y \in taken \ {m} : y \in hits /\ y \in Nat /\ m \in Nat /\ m <= y /\ y # m
        BY <1>2, <3>1, <3>2
      <4>2. \A y \in taken \ {m} : y > m
        BY <4>1
      <4>3. QED
        BY <4>1, <4>2
    <3>4. Cardinality(taken \ {m}) <= Cardinality(newer(m))
      BY <1>3, <3>3, FS_Subset
    <3>5. Cardinality(taken \ {m}) = Cardinality(taken) - 1
      BY <1>3, FS_RemoveElement
    <3>6. Cardinality(newer(m)) < room
      BY <1>1
    <3>7. QED
      BY <1>3, <3>4, <3>5, <3>6
  <2>3. QED
    BY <2>1, <2>2
<1>5. ASSUME looked # page PROVE room <= Cardinality(taken)
  <2>1. page \ looked \in SUBSET Nat /\ IsFiniteSet(page \ looked) /\ page \ looked # {}
    BY <1>1, <1>5, FS_Subset
  <2>2. PICK m \in page \ looked : \A y \in page \ looked : y <= m
    BY <2>1, Greatest
  <2>3. newer(m) \in SUBSET taken
    <3>1. ASSUME NEW k \in hits, k > m, k \notin looked PROVE FALSE
      <4>1. k \in Nat /\ m \in Nat /\ k <= m
        BY <2>1, <2>2, <3>1
      <4>2. QED
        BY <3>1, <4>1
    <3>2. QED
      BY <3>1
  <2>4. Cardinality(newer(m)) <= Cardinality(taken)
    BY <1>3, <2>3, FS_Subset
  <2>5. ~(Cardinality(newer(m)) < room)
    BY <1>1, <2>2
  <2>6. QED
    BY <1>3, <2>4, <2>5
<1>6. QED
  BY <1>4, <1>5

(* Google's page holds the newest messages before the token: all of them,  *)
(* or every one from its last on.                                          *)
LEMMA NewestPage ==
  ASSUME ScanInv,
         NEW left, left = {m \in world : m < call.before},
         NEW cut, cut = Scan!Newest(MessagePageSize, left)
  PROVE  /\ left \in SUBSET Nat /\ cut \subseteq left /\ IsFiniteSet(cut)
         /\ \A p \in cut, q \in left : p <= q => q \in cut
         /\ cut # {} => Scan!Min(cut) \in cut /\ \A p \in cut : Scan!Min(cut) <= p
<1> USE MessagesCount
<1>1. left \in SUBSET Nat /\ IsFiniteSet(left)
  <2>1. left \in SUBSET Messages
    BY DEF ScanInv, Lasting
  <2>2. QED
    BY <2>1, FS_Subset
<1>2. cut = {p \in left : Cardinality({q \in left : q > p}) < MessagePageSize}
  BY ScanCounts DEF Scan!Newest
<1>3. cut \subseteq left /\ IsFiniteSet(cut)
  BY <1>1, <1>2, FS_Subset
<1>4. ASSUME NEW p \in cut, NEW q \in left, p <= q PROVE q \in cut
  <2>1. p \in left /\ Cardinality({r \in left : r > p}) < MessagePageSize
    BY <1>2
  <2>2. Cardinality({r \in left : r > q}) < MessagePageSize
    BY <1>1, <1>4, <2>1, LastUp
  <2>3. QED
    BY <1>2, <2>2
<1>5. ASSUME cut # {} PROVE Scan!Min(cut) \in cut /\ \A p \in cut : Scan!Min(cut) <= p
  <2>1. cut \in SUBSET Nat
    BY <1>1, <1>3
  <2>2. \E x \in cut : \A y \in cut : x <= y
    BY <1>5, <2>1, Least
  <2>3. QED
    BY <2>2 DEF Scan!Min
<1>6. QED
  BY <1>1, <1>3, <1>4, <1>5

LEMMA ScanList ==
  ASSUME ScanInv, Scan!ListMessages
  PROVE  ScanInv'
<1> USE MessagesCount
<1> DEFINE left == {m \in world : m < call.before}
           cut == Scan!Newest(MessagePageSize, left)
<1>1. /\ left \in SUBSET Nat /\ cut \subseteq left /\ IsFiniteSet(cut)
      /\ \A p \in cut, q \in left : p <= q => q \in cut
      /\ cut # {} => Scan!Min(cut) \in cut /\ \A p \in cut : Scan!Min(cut) <= p
  <2> HIDE DEF left, cut
  <2>1. left = {m \in world : m < call.before} /\ cut = Scan!Newest(MessagePageSize, left)
    BY DEF left, cut
  <2>2. QED
    BY <2>1, NewestPage
<1> DEFINE page == cut \cap call.window
           more == \E m \in world : m < call.before /\ m \notin cut
           room == ScanLimit - Cardinality(call.matches)
           looked == Scan!Looked(page, room)
           taken == looked \cap Found
           matches == call.matches \cup taken
           full == Cardinality(matches) >= ScanLimit
           next == IF cut = {} THEN call.before ELSE Scan!Min(cut)
<1>2. call.at = "list" /\ UNCHANGED <<world, past>>
  BY DEF Scan!ListMessages
<1>3. /\ call'.window = call.window /\ call'.matches = matches /\ call'.before = next
      /\ call'.pages = call.pages + 1
      /\ call'.scanned = call.scanned + Cardinality(looked)
      /\ call'.unparsed = call.unparsed + Cardinality(looked \cap Nameless)
      /\ call'.capReached = (full \/ (more /\ call.pages + 1 = MaxScanPages))
      /\ call'.at = IF full \/ ~more \/ call.pages + 1 = MaxScanPages THEN "done" ELSE "list"
      /\ call' = [at |-> call'.at, window |-> call'.window, before |-> call'.before,
                  pages |-> call'.pages, matches |-> call'.matches, scanned |-> call'.scanned,
                  unparsed |-> call'.unparsed, capReached |-> call'.capReached]
  BY ScanCounts DEF ScanInv, ScanCalls, Scan!ListMessages, Scan!Last, Found
<1> HIDE DEF cut
<1>4. /\ IsFiniteSet(call.matches) /\ Cardinality(call.matches) \in Nat
      /\ Cardinality(call.matches) < ScanLimit /\ call.pages \in Nat
      /\ call.pages + 1 <= MaxScanPages /\ call.before \in Nat
  <2>1. call.matches \in SUBSET Messages /\ call.before \in Nat /\ call.pages \in 0..MaxScanPages
    BY DEF ScanInv, ScanCalls
  <2>2. Cardinality(call.matches) < ScanLimit /\ call.pages < MaxScanPages
    BY <1>2 DEF ScanInv, FoundSoFar
  <2>3. IsFiniteSet(call.matches)
    BY <2>1, FS_Subset
  <2>4. QED
    BY <2>1, <2>2, <2>3, FS_CardinalityType
<1>5. room \in Nat \ {0}
  BY <1>4
<1>6. page \in SUBSET Nat /\ IsFiniteSet(page) /\ \A m \in page : m < call.before
  BY <1>1, FS_Subset
<1>7. /\ looked \subseteq page
      /\ Cardinality(taken) <= room
      /\ looked # page => room <= Cardinality(taken)
  <2>1. looked \subseteq page
    BY DEF Scan!Looked
  <2>2. looked = Scan!Looked(page, room)
    OBVIOUS
  <2> HIDE DEF page, room, looked
  <2>3. QED
    BY <1>5, <1>6, <2>1, <2>2, LookedAt
<1> HIDE DEF looked
<1>8. /\ IsFiniteSet(looked) /\ IsFiniteSet(taken) /\ Cardinality(taken) \in Nat
      /\ IsFiniteSet(looked \cap Nameless)
      /\ Cardinality(looked) \in Nat /\ Cardinality(looked \cap Nameless) \in Nat
  <2>1. IsFiniteSet(looked)
    BY <1>6, <1>7, FS_Subset
  <2>2. IsFiniteSet(taken) /\ IsFiniteSet(looked \cap Nameless)
    BY <2>1, FS_Subset
  <2>3. QED
    BY <2>1, <2>2, FS_CardinalityType
<1>9. Cardinality(matches) = Cardinality(call.matches) + Cardinality(taken)
  <2>1. call.matches \cap taken = {}
    <3>1. ASSUME NEW m \in call.matches, m \in taken PROVE FALSE
      <4>1. call.before <= m /\ m < call.before /\ m \in Nat
        BY <1>6, <1>7, <3>1 DEF ScanInv, FoundSoFar
      <4>2. QED
        BY <1>4, <4>1
    <3>2. QED
      BY <3>1
  <2>2. Cardinality(call.matches \cap taken) = 0
    BY <2>1, FS_EmptySet
  <2>3. Cardinality(matches)
          = Cardinality(call.matches) + Cardinality(taken) - Cardinality(call.matches \cap taken)
    BY <1>4, <1>8, FS_Union
  <2>4. QED
    BY <1>4, <1>8, <2>2, <2>3
<1>10. Cardinality(matches) <= ScanLimit /\ Cardinality(matches) \in Nat
  BY <1>4, <1>7, <1>8, <1>9
<1>11. ASSUME ~full PROVE looked = page
  BY <1>4, <1>7, <1>8, <1>9, <1>11
<1>12. /\ next \in Nat /\ next <= call.before
       /\ \A m \in cut : next <= m
       /\ \A m \in left : next <= m => m \in cut
  <2>1. CASE cut = {}
    BY <1>1, <1>4, <2>1
  <2>2. CASE cut # {}
    <3>1. next \in cut /\ \A p \in cut : next <= p
      BY <1>1, <2>2
    <3>2. next \in Nat /\ next < call.before
      BY <1>1, <3>1
    <3>3. QED
      BY <1>1, <1>4, <3>1, <3>2
  <2>3. QED
    BY <2>1, <2>2
<1>13. matches \subseteq Found \cap past.ever /\ matches \subseteq Messages
  <2>1. taken \subseteq past.ever /\ taken \subseteq Found
    BY <1>1, <1>7 DEF ScanInv, Lasting
  <2>2. QED
    BY <2>1 DEF ScanInv, FoundSoFar, Lasting
<1>14. \A m \in matches : next <= m
  <2>1. \A m \in taken : next <= m
    BY <1>7, <1>12
  <2>2. \A m \in call.matches : next <= m
    <3>1. \A m \in call.matches : call.before <= m /\ m \in Nat
      BY DEF ScanInv, FoundSoFar, ScanCalls
    <3>2. QED
      BY <1>4, <1>12, <3>1
  <2>3. QED
    BY <2>1, <2>2
<1> HIDE DEF next, full, more, matches
<1>15. ASSUME call'.unparsed = 0, ~full,
              NEW m \in past.always \cap Matching \cap call.window, next <= m \/ ~more
       PROVE  m \in matches
  <2>1. call.unparsed = 0 /\ Cardinality(looked \cap Nameless) = 0
    BY <1>3, <1>8, <1>15 DEF ScanInv, ScanCalls
  <2>2. looked \cap Nameless = {}
    BY <1>8, <2>1, FS_EmptySet
  <2>3. m \in world /\ m \in Nat
    BY DEF ScanInv, Lasting
  <2>4. CASE call.before <= m
    <3>1. m \in call.matches
      BY <1>2, <2>1, <2>4 DEF ScanInv, NoneMissed, FoundFrom
    <3>2. QED
      BY <3>1 DEF matches
  <2>5. CASE m < call.before
    <3>1. m \in left
      BY <2>3, <2>5
    <3>2. m \in cut
      BY <1>12, <1>15, <3>1 DEF more
    <3>3. m \in looked
      BY <1>11, <1>15, <3>2
    <3>4. QED
      BY <2>2, <3>3 DEF matches, Found
  <2>6. QED
    BY <1>4, <2>3, <2>4, <2>5
<1>16. call' \in ScanCalls
  <2>1. call'.pages \in 0..MaxScanPages
    BY <1>3, <1>4
  <2>2. call'.scanned \in Nat /\ call'.unparsed \in Nat
    BY <1>3, <1>8 DEF ScanInv, ScanCalls
  <2>3. call'.capReached \in BOOLEAN /\ call'.at \in {"list", "done"}
    BY <1>3
  <2>4. call'.window \in SUBSET Messages
    BY <1>3 DEF ScanInv, ScanCalls
  <2>5. call'.matches \in SUBSET Messages /\ call'.before \in Nat
    BY <1>3, <1>12, <1>13
  <2>6. QED
    BY <1>3, <2>1, <2>2, <2>3, <2>4, <2>5 DEF ScanCalls
<1>17. FoundSoFar'
  <2>1. ASSUME call'.at = "list"
        PROVE  Cardinality(matches) < ScanLimit /\ call.pages + 1 < MaxScanPages
    <3>1. ~full /\ call.pages + 1 # MaxScanPages
      BY <1>3, <2>1
    <3>2. QED
      BY <1>4, <1>10, <3>1 DEF full
  <2>2. QED
    BY <1>2, <1>3, <1>10, <1>13, <1>14, <2>1 DEF FoundSoFar
<1>18. NoneMissed'
  <2>1. SUFFICES ASSUME call'.unparsed = 0
                 PROVE  /\ call'.at = "list" => FoundFrom(call.before)'
                        /\ call'.at = "done" /\ ~call'.capReached => FoundFrom(0)'
    BY DEF NoneMissed
  <2>2. ASSUME call'.at = "list" PROVE FoundFrom(call.before)'
    <3>1. ~full
      BY <1>3, <2>2
    <3>2. QED
      BY <1>2, <1>3, <1>15, <2>1, <3>1 DEF FoundFrom
  <2>3. ASSUME call'.at = "done", ~call'.capReached PROVE FoundFrom(0)'
    <3>1. ~full /\ ~more
      BY <1>3, <2>3
    <3>2. QED
      BY <1>2, <1>3, <1>15, <2>1, <3>1 DEF FoundFrom
  <2>4. QED
    BY <2>2, <2>3
<1>19. QED
  BY <1>2, <1>16, <1>17, <1>18 DEF ScanInv, Lasting

LEMMA ScanStep ==
  ASSUME ScanInv, [Scan!Next]_(Scan!vars)
  PROVE  ScanInv'
<1>1. CASE Scan!ListFails
  BY <1>1 DEF Scan!ListFails, ScanInv, ScanCalls, Lasting, FoundSoFar, NoneMissed
<1>2. CASE Scan!Others
  <2>1. UNCHANGED call
    BY <1>2 DEF Scan!Others
  <2>2. Lasting' /\ past.ever \subseteq past'.ever /\ past'.always \subseteq past.always
    BY <1>2, MessagesCount DEF Scan!Others, ScanInv, Lasting
  <2>3. FoundSoFar'
    BY <2>1, <2>2 DEF ScanInv, FoundSoFar
  <2>4. NoneMissed'
    BY <2>1, <2>2 DEF ScanInv, NoneMissed, FoundFrom
  <2>5. QED
    BY <2>1, <2>2, <2>3, <2>4 DEF ScanInv
<1>3. CASE Scan!Done \/ UNCHANGED Scan!vars
  BY <1>3 DEF Scan!Done, Scan!vars, ScanInv, Lasting, FoundSoFar, NoneMissed, FoundFrom
<1>4. QED
  BY <1>1, <1>2, <1>3, ScanList DEF Scan!Next

ScanKept == which = "scan" => ScanInv

LEMMA ScanAlways == Spec => []ScanKept
<1>1. Init => ScanKept
  BY ScanInit DEF Init, ScanKept
<1>2. ScanKept /\ [Next]_vars => ScanKept'
  <2>1. SUFFICES ASSUME ScanKept, [Next]_vars, which' = "scan" PROVE ScanInv'
    BY DEF ScanKept
  <2>2. which = "scan" /\ [Scan!Next]_(Scan!vars)
    BY <2>1 DEF ScanKept, Next, vars, Scan!vars
  <2>3. QED
    BY <2>1, <2>2, ScanStep DEF ScanKept
<1>3. QED
  BY <1>1, <1>2, PTL DEF Spec

(* However messages come and go between the pages, and whatever the window *)
(* empties, a scan that reports neither a cap nor rows it could not parse  *)
(* found every match of its window that was there while it ran, and none   *)
(* finds more than its limit (search.go scanSpace).                        *)
THEOREM QuietScansAreComplete == Spec => []QuietScanIsComplete
<1>1. ScanKept => QuietScanIsComplete
  <2>1. ScanInv => \A m \in past.always : 0 <= m
    BY MessagesCount DEF ScanInv, Lasting
  <2>2. ScanInv => Scan!QuietScanIsComplete
    BY <2>1, ScanCounts DEF Scan!QuietScanIsComplete, ScanInv, FoundSoFar, NoneMissed, FoundFrom
  <2>3. QED
    BY <2>2 DEF ScanKept, QuietScanIsComplete
<1>2. QED
  BY <1>1, ScanAlways, PTL

-----------------------------------------------------------------------------
(* The groups of a page of members (members.go, groups.go).                *)

RowSets == [PageGroups -> {Groups!Unread, "read"} \cup Groups!Reasons]

ExpansionCall ==
  /\ call = [at |-> call.at, next |-> call.next, named |-> call.named,
             groupsFailed |-> call.groupsFailed, rows |-> call.rows]
  /\ call.rows \in RowSets

(* Only the groups past the cap blame it, and before that no row is        *)
(* written; the leader is one of those that are expanded.                  *)
Rows ==
  /\ call.at \in {"naming", "capping"} => \A g \in PageGroups : call.rows[g] = Groups!Unread
  /\ call.at \in {"first", "others", "done"} =>
       \A g \in PageGroups : call.rows[g] = "cap" <=> g \notin Groups!Expanded
  /\ call.at \in {"first", "others"} => Groups!Leader \in Groups!Expanded
  /\ call.at = "done" => \A g \in PageGroups : call.rows[g] # Groups!Unread

(* A failure that all share ends the naming and the first request.         *)
Asked ==
  /\ past = [wasted |-> 0, seen |-> past.seen] /\ past.seen \in BOOLEAN
  /\ world = [down |-> world.down] /\ world.down \in BOOLEAN
  /\ past.seen => call.at = "done" \/ (call.at = "capping" /\ call.groupsFailed)

GroupsInv == ExpansionCall /\ Rows /\ Asked

LEMMA GroupsCount == \A S : Groups!Cardinality(S) = Cardinality(S)
  BY DEF Groups!Cardinality, Cardinality

(* Where a group is expanded at all, there is one that is read first.      *)
LEMMA LeaderIsExpanded ==
  /\ Groups!Expanded \subseteq PageGroups
  /\ Groups!Expanded # {} => Groups!Leader \in Groups!Expanded
<1>1. Groups!Expanded \subseteq PageGroups
  BY DEF Groups!Expanded, Groups!First
<1>2. PageGroups \in SUBSET Nat
  BY ListedAssumption
<1>3. ASSUME Groups!Expanded # {} PROVE Groups!Leader \in Groups!Expanded
  <2>1. Groups!Expanded \in SUBSET Nat
    BY <1>1, <1>2
  <2>2. \E g \in Groups!Expanded : \A h \in Groups!Expanded : g <= h
    BY <1>3, <2>1, Least
  <2>3. QED
    BY <2>2 DEF Groups!Leader
<1>4. QED
  BY <1>1, <1>3

LEMMA GroupsInit ==
  ASSUME Groups!Init
  PROVE  GroupsInv
BY DEF Groups!Init, GroupsInv, ExpansionCall, Rows, Asked, Groups!Unread, Groups!Reasons, RowSets

LEMMA GroupsNaming ==
  ASSUME GroupsInv, Groups!resolveGroups
  PROVE  GroupsInv'
<1>1. /\ call.at = "naming" /\ UNCHANGED world /\ ~past.seen
      /\ call'.rows = call.rows
  BY DEF Groups!resolveGroups, GroupsInv, ExpansionCall, Asked
<1>2. ExpansionCall' /\ call'.at \in {"naming", "capping"}
  BY DEF Groups!resolveGroups, GroupsInv, ExpansionCall
<1>3. Asked'
  <2>1. CASE call.next \notin PageGroups
    BY <1>1, <2>1 DEF Groups!resolveGroups, GroupsInv, Asked
  <2>2. CASE call.next \in PageGroups
    <3>1. past' = [wasted |-> 0, seen |-> world.down]
      BY <1>1, <2>2 DEF Groups!resolveGroups, Groups!Requested, GroupsInv, Asked
    <3>2. world.down => call'.at = "capping" /\ call'.groupsFailed
      BY <2>2 DEF Groups!resolveGroups, GroupsInv, ExpansionCall
    <3>3. QED
      BY <1>1, <3>1, <3>2 DEF GroupsInv, Asked
  <2>3. QED
    BY <2>1, <2>2
<1>4. QED
  BY <1>1, <1>2, <1>3 DEF GroupsInv, Rows

LEMMA GroupsCapping ==
  ASSUME GroupsInv, Groups!capExpanded
  PROVE  GroupsInv'
<1> DEFINE capped == Groups!Missing(call.rows, PageGroups \ Groups!Expanded, "cap")
           missing == Groups!Missing(capped, Groups!Expanded, "shared")
<1>1. /\ call.at = "capping" /\ UNCHANGED <<world, past>>
      /\ \A g \in PageGroups : call.rows[g] = Groups!Unread
  BY DEF Groups!capExpanded, GroupsInv, Rows
<1>2. /\ capped \in [PageGroups -> {Groups!Unread, "cap"}]
      /\ \A g \in PageGroups : capped[g] = "cap" <=> g \notin Groups!Expanded
  BY <1>1 DEF Groups!Missing, Groups!Unread
<1>3. /\ missing \in [PageGroups -> {"shared", "cap"}]
      /\ \A g \in PageGroups : missing[g] = "cap" <=> g \notin Groups!Expanded
  BY <1>2 DEF Groups!Missing, Groups!Unread
<1>4. CASE Groups!Unasked(call) /\ call' = [call EXCEPT !.at = "done", !.rows = missing]
  <2>1. call'.rows = missing /\ call'.at = "done"
    BY <1>4 DEF GroupsInv, ExpansionCall
  <2>2. ExpansionCall'
    BY <1>3, <1>4 DEF GroupsInv, ExpansionCall, Groups!Reasons, RowSets
  <2>3. QED
    BY <1>1, <1>3, <2>1, <2>2 DEF GroupsInv, Rows, Asked, Groups!Unread
<1>5. CASE ~Groups!Unasked(call) /\ call' = [call EXCEPT !.at = "first", !.rows = capped]
  <2>1. Groups!Leader \in Groups!Expanded /\ ~call.groupsFailed
    BY <1>5, LeaderIsExpanded DEF Groups!Unasked
  <2>2. call'.rows = capped /\ call'.at = "first"
    BY <1>5 DEF GroupsInv, ExpansionCall
  <2>3. ExpansionCall'
    BY <1>2, <1>5 DEF GroupsInv, ExpansionCall, Groups!Reasons, RowSets
  <2>4. QED
    BY <1>1, <1>2, <2>1, <2>2, <2>3 DEF GroupsInv, Rows, Asked
<1>6. QED
  BY <1>4, <1>5 DEF Groups!capExpanded

LEMMA GroupsFirst ==
  ASSUME GroupsInv, Groups!expandFirst
  PROVE  GroupsInv'
<1> DEFINE missing == Groups!Missing(call.rows, Groups!Expanded, "shared")
<1>1. /\ call.at = "first" /\ UNCHANGED world /\ past' = [wasted |-> 0, seen |-> world.down]
      /\ Groups!Leader \in Groups!Expanded /\ Groups!Expanded \subseteq PageGroups
      /\ call.rows \in RowSets
      /\ \A g \in PageGroups : call.rows[g] = "cap" <=> g \notin Groups!Expanded
  BY LeaderIsExpanded DEF Groups!expandFirst, Groups!Requested, GroupsInv, ExpansionCall, Rows,
                          Asked
<1>2. CASE world.down /\ call' = [call EXCEPT !.at = "done", !.rows = missing]
  <2>1. /\ missing \in [PageGroups -> {"shared", "cap"}]
        /\ \A g \in PageGroups : missing[g] = "cap" <=> g \notin Groups!Expanded
    BY <1>1 DEF Groups!Missing
  <2>2. call'.rows = missing /\ call'.at = "done"
    BY <1>2 DEF GroupsInv, ExpansionCall
  <2>3. ExpansionCall'
    BY <1>2, <2>1 DEF GroupsInv, ExpansionCall, Groups!Reasons, RowSets
  <2>4. QED
    BY <1>1, <2>1, <2>2, <2>3 DEF GroupsInv, Rows, Asked, Groups!Unread
<1>3. ASSUME ~world.down, NEW row \in {"read", "own"},
             call' = [call EXCEPT !.at = "others", !.rows[Groups!Leader] = row]
      PROVE  GroupsInv'
  <2>1. /\ call'.rows = [call.rows EXCEPT ![Groups!Leader] = row]
        /\ call'.at = "others" /\ call'.groupsFailed = call.groupsFailed
    BY <1>3 DEF GroupsInv, ExpansionCall
  <2>2. /\ call'.rows \in RowSets
        /\ \A g \in PageGroups : call'.rows[g] = "cap" <=> g \notin Groups!Expanded
    BY <1>1, <2>1 DEF Groups!Reasons, RowSets
  <2>3. ExpansionCall'
    BY <1>3, <2>1, <2>2 DEF GroupsInv, ExpansionCall
  <2>4. QED
    BY <1>1, <1>3, <2>1, <2>2, <2>3 DEF GroupsInv, Rows, Asked
<1>4. QED
  BY <1>2, <1>3 DEF Groups!expandFirst

LEMMA GroupsOthers ==
  ASSUME GroupsInv, NEW g \in Groups!Expanded, Groups!expandGroup(g)
  PROVE  GroupsInv'
<1>1. /\ call.at = "others" /\ UNCHANGED <<world, past>> /\ g \in PageGroups
      /\ call.rows \in RowSets
  BY LeaderIsExpanded DEF Groups!expandGroup, GroupsInv, ExpansionCall
<1>2. PICK row \in {"shared", "read", "own"} : call' = [call EXCEPT !.rows[g] = row]
  BY DEF Groups!expandGroup
<1>3. call'.rows = [call.rows EXCEPT ![g] = row] /\ call'.at = "others"
  BY <1>1, <1>2 DEF GroupsInv, ExpansionCall
<1>4. /\ call'.rows \in RowSets
      /\ \A h \in PageGroups : call'.rows[h] = "cap" <=> h \notin Groups!Expanded
  BY <1>1, <1>3 DEF Groups!Reasons, RowSets, GroupsInv, Rows
<1>5. ExpansionCall'
  BY <1>2, <1>3, <1>4 DEF GroupsInv, ExpansionCall
<1>6. QED
  BY <1>1, <1>3, <1>4, <1>5 DEF GroupsInv, Rows, Asked

LEMMA GroupsStep ==
  ASSUME GroupsInv, [Groups!Next]_(Groups!vars)
  PROVE  GroupsInv'
<1>1. CASE Groups!GoesDown
  BY <1>1 DEF Groups!GoesDown, GroupsInv, ExpansionCall, Rows, Asked, RowSets
<1>2. CASE Groups!Wait
  <2>1. /\ call.at = "others" /\ UNCHANGED <<world, past>> /\ call'.rows = call.rows
        /\ call'.at = "done" /\ ExpansionCall'
        /\ \A g \in Groups!Expanded : call.rows[g] # Groups!Unread
    BY <1>2 DEF Groups!Wait, GroupsInv, ExpansionCall
  <2>2. \A g \in PageGroups : call.rows[g] # Groups!Unread
    BY <2>1 DEF GroupsInv, Rows, Groups!Unread
  <2>3. QED
    BY <2>1, <2>2 DEF GroupsInv, Rows, Asked
<1>3. CASE Groups!Done \/ UNCHANGED Groups!vars
  BY <1>3 DEF Groups!Done, Groups!vars, GroupsInv, ExpansionCall, RowSets, Rows, Asked
<1>4. QED
  BY <1>1, <1>2, <1>3, GroupsNaming, GroupsCapping, GroupsFirst, GroupsOthers DEF Groups!Next

GroupsKept == which = "groups" => GroupsInv

LEMMA GroupsAlways == Spec => []GroupsKept
<1>1. Init => GroupsKept
  BY GroupsInit DEF Init, GroupsKept
<1>2. GroupsKept /\ [Next]_vars => GroupsKept'
  <2>1. SUFFICES ASSUME GroupsKept, [Next]_vars, which' = "groups" PROVE GroupsInv'
    BY DEF GroupsKept
  <2>2. which = "groups" /\ [Groups!Next]_(Groups!vars)
    BY <2>1 DEF GroupsKept, Next, vars, Groups!vars
  <2>3. QED
    BY <2>1, <2>2, GroupsStep DEF GroupsKept
<1>3. QED
  BY <1>1, <1>2, PTL DEF Spec

(* However many groups a page has and whenever Google goes down, each row of*)
(* the answer has its members or says why not, only those past the cap blame*)
(* it, and no request of its own is made after a failure that all would    *)
(* share (members.go expandGroups, groups.go).                             *)
THEOREM NoGroupIsSilent == Spec => []EveryGroupIsAccountedFor
<1>1. GroupsKept => EveryGroupIsAccountedFor
  BY DEF GroupsKept, EveryGroupIsAccountedFor, Groups!EveryGroupIsAccountedFor, GroupsInv,
         Rows, Asked
<1>2. QED
  BY <1>1, GroupsAlways, PTL

-----------------------------------------------------------------------------
(* The search for people (people.go).                                      *)

LEMMA Ranks ==
  ASSUME NEW S \in SUBSET Nat, IsFiniteSet(S), NEW i \in S
  PROVE  /\ Cardinality({j \in S : j <= i}) \in 1..Cardinality(S)
         /\ Cardinality({j \in S : j <= i}) = Cardinality({j \in S : j < i}) + 1
<1> DEFINE upTo == {j \in S : j <= i}
           below == {j \in S : j < i}
<1>1. IsFiniteSet(upTo) /\ Cardinality(upTo) <= Cardinality(S)
  BY FS_Subset
<1>2. IsFiniteSet(below)
  BY FS_Subset
<1>3. upTo = below \cup {i} /\ i \notin below
  <2>1. \A j \in S : j \in Nat
    OBVIOUS
  <2>2. \A j \in S : (j <= i <=> j < i \/ j = i) /\ ~(i < i)
    BY <2>1
  <2>3. QED
    BY <2>2
<1>4. Cardinality(upTo) = Cardinality(below) + 1
  BY <1>2, <1>3, FS_AddElement
<1>5. Cardinality(upTo) \in Nat /\ Cardinality(below) \in Nat /\ Cardinality(S) \in Nat
  BY <1>1, <1>2, FS_CardinalityType
<1>6. QED
  BY <1>1, <1>4, <1>5

LEMMA RanksGrow ==
  ASSUME NEW S \in SUBSET Nat, IsFiniteSet(S), NEW i \in S, NEW k \in S, k < i
  PROVE  Cardinality({j \in S : j <= k}) < Cardinality({j \in S : j <= i})
<1> DEFINE upTo == {j \in S : j <= k}
           below == {j \in S : j < i}
<1>1. IsFiniteSet(below) /\ IsFiniteSet(upTo)
  BY FS_Subset
<1>2. upTo \subseteq below
  <2>1. \A j \in S : j \in Nat
    OBVIOUS
  <2>2. \A j \in S : j <= k => j < i
    BY <2>1
  <2>3. QED
    BY <2>2
<1>3. Cardinality(upTo) <= Cardinality(below)
  BY <1>1, <1>2, FS_Subset
<1>4. Cardinality(upTo) \in Nat /\ Cardinality(below) \in Nat
  BY <1>1, FS_CardinalityType
<1>5. QED
  BY <1>3, <1>4, Ranks

LEMMA EveryRank ==
  ASSUME NEW S \in SUBSET Nat, IsFiniteSet(S), NEW n \in 1..Cardinality(S)
  PROVE  \E i \in S : Cardinality({j \in S : j <= i}) = n
<1> DEFINE rank(i) == Cardinality({j \in S : j <= i})
           far == {i \in S : n <= rank(i)}
<1>1. Cardinality(S) \in Nat
  BY FS_CardinalityType
<1>2. S # {}
  BY <1>1, FS_EmptySet
<1>3. \A i \in S : rank(i) \in Nat
  <2>1. \A i \in S : rank(i) \in 1..Cardinality(S)
    BY Ranks
  <2>2. QED
    BY <1>1, <2>1
<1>4. PICK last \in S : \A j \in S : j <= last
  BY <1>2, Greatest
<1>5. {j \in S : j <= last} = S
  BY <1>4
<1>6. last \in far
  BY <1>1, <1>5
<1>7. PICK i \in far : \A j \in far : i <= j
  BY <1>6, Least
<1>8. ASSUME n < rank(i) PROVE FALSE
  <2> DEFINE below == {j \in S : j < i}
  <2>1. IsFiniteSet(below)
    BY FS_Subset
  <2>2. rank(i) = Cardinality(below) + 1
    BY Ranks
  <2>3. Cardinality(below) \in Nat
    BY <2>1, FS_CardinalityType
  <2>4. n <= Cardinality(below)
    BY <1>8, <2>2, <2>3
  <2>5. below # {}
    BY <2>4, FS_EmptySet
  <2>6. PICK k \in below : \A j \in below : j <= k
    BY <2>1, <2>5, Greatest
  <2>7. {j \in S : j <= k} = below
    <3>1. k \in Nat /\ i \in Nat /\ k < i /\ \A j \in S : j \in Nat
      BY <2>6
    <3>2. \A j \in S : j < i => j <= k
      BY <2>6
    <3>3. \A j \in S : j <= k => j < i
      BY <3>1
    <3>4. QED
      BY <3>2, <3>3
  <2>8. k \in far
    BY <2>4, <2>7
  <2>9. QED
    BY <1>7, <2>8
<1>9. QED
  BY <1>1, <1>3, <1>7, <1>8

LEMMA SearchCounts == \A S : Search!Cardinality(S) = Cardinality(S)
  BY DEF Search!Cardinality, Cardinality

LEMMA NthIs ==
  ASSUME NEW S \in SUBSET Nat, IsFiniteSet(S), NEW n \in 1..Cardinality(S)
  PROVE  Search!Nth(S, n) \in S /\ Cardinality({j \in S : j <= Search!Nth(S, n)}) = n
<1>1. PICK i \in S : Cardinality({j \in S : j <= i}) = n
  BY EveryRank
<1>2. Search!Nth(S, n) = CHOOSE k \in S : Cardinality({j \in S : j <= k}) = n
  BY SearchCounts, Zenon DEF Search!Nth
<1>3. QED
  BY <1>1, <1>2

LEMMA NthOf ==
  ASSUME NEW S \in SUBSET Nat, IsFiniteSet(S), NEW i \in S
  PROVE  \E n \in 1..Cardinality(S) : Search!Nth(S, n) = i
<1> DEFINE n == Cardinality({j \in S : j <= i})
           k == Search!Nth(S, n)
<1>1. n \in 1..Cardinality(S)
  BY Ranks
<1>2. k \in S /\ Cardinality({j \in S : j <= k}) = n
  BY <1>1, NthIs
<1>3. n \in Nat
  BY <1>1
<1> HIDE DEF k
<1>4. ~(k < i)
  <2>1. ASSUME k < i PROVE FALSE
    <3>1. Cardinality({j \in S : j <= k}) < n
      BY <1>2, <2>1, RanksGrow
    <3>2. QED
      BY <1>2, <1>3, <3>1
  <2>2. QED
    BY <2>1
<1>5. ~(i < k)
  <2>1. ASSUME i < k PROVE FALSE
    <3>1. n < Cardinality({j \in S : j <= k})
      BY <1>2, <2>1, RanksGrow
    <3>2. QED
      BY <1>2, <1>3, <3>1
  <2>2. QED
    BY <2>1
<1>6. k \in Nat /\ i \in Nat
  BY <1>2
<1>7. k = i
  BY <1>4, <1>5, <1>6
<1>8. QED
  BY <1>1, <1>7 DEF k

(* What a list names, each once.                                           *)
Once(all) ==
  [n \in 1..Cardinality(Search!Firsts(all)) |-> all[Search!Nth(Search!Firsts(all), n)]]

LEMMA OnceIs ==
  ASSUME NEW all \in Seq(Findable)
  PROVE  /\ Once(all) \in Seq(Findable)
         /\ \A a, b \in DOMAIN Once(all) : Once(all)[a] = Once(all)[b] => a = b
         /\ {Once(all)[n] : n \in DOMAIN Once(all)} = {all[i] : i \in DOMAIN all}
<1> DEFINE firsts == Search!Firsts(all)
           merged == Once(all)
<1>1. /\ DOMAIN all = 1..Len(all) /\ Len(all) \in Nat
      /\ \A i \in DOMAIN all : all[i] \in Findable
  OBVIOUS
<1>2. firsts = {i \in DOMAIN all : \A j \in 1..(i - 1) : all[j] # all[i]}
  BY DEF Search!Firsts
<1>3. firsts \in SUBSET Nat /\ firsts \subseteq 1..Len(all)
  BY <1>1, <1>2
<1>4. IsFiniteSet(firsts)
  <2>1. IsFiniteSet(1..Len(all))
    BY <1>1, FS_Interval
  <2>2. firsts \in SUBSET (1..Len(all))
    BY <1>3
  <2>3. QED
    BY <2>1, <2>2, FS_Subset
<1>5. Cardinality(firsts) \in Nat
  BY <1>4, FS_CardinalityType
<1>6. merged = [n \in 1..Cardinality(firsts) |-> all[Search!Nth(firsts, n)]]
  BY DEF Once
<1> HIDE DEF firsts, merged
<1>7. \A n \in 1..Cardinality(firsts) : Search!Nth(firsts, n) \in firsts
  BY <1>3, <1>4, NthIs
<1>8. \A n \in 1..Cardinality(firsts) : merged[n] \in Findable
  BY <1>1, <1>3, <1>6, <1>7
<1>9. merged \in Seq(Findable)
  <2>1. merged \in [1..Cardinality(firsts) -> Findable]
    BY <1>6, <1>8
  <2>2. QED
    BY <1>5, <2>1, SeqDef
<1>10. ASSUME NEW a \in DOMAIN merged, NEW b \in DOMAIN merged, merged[a] = merged[b]
       PROVE  a = b
  <2> DEFINE i == Search!Nth(firsts, a)
             k == Search!Nth(firsts, b)
  <2>1. /\ i \in firsts /\ k \in firsts /\ all[i] = all[k]
        /\ a \in 1..Cardinality(firsts) /\ b \in 1..Cardinality(firsts)
    BY <1>6, <1>7, <1>10
  <2>2. i \in Nat /\ k \in Nat /\ i \in 1..Len(all) /\ k \in 1..Len(all)
    BY <1>3, <2>1
  <2>3. ~(i < k) /\ ~(k < i)
    <3>1. ASSUME i < k PROVE FALSE
      BY <3>1, <2>1, <2>2, <1>2
    <3>2. ASSUME k < i PROVE FALSE
      BY <3>2, <2>1, <2>2, <1>2
    <3>3. QED
      BY <3>1, <3>2
  <2>4. i = k
    BY <2>2, <2>3
  <2>5. a = Cardinality({j \in firsts : j <= i}) /\ b = Cardinality({j \in firsts : j <= k})
    BY <1>3, <1>4, <2>1, NthIs
  <2>6. QED
    BY <2>4, <2>5
<1>11. {merged[n] : n \in DOMAIN merged} = {all[i] : i \in DOMAIN all}
  <2>1. ASSUME NEW n \in DOMAIN merged PROVE \E i \in DOMAIN all : merged[n] = all[i]
    BY <1>1, <1>3, <1>6, <1>7
  <2>2. ASSUME NEW i \in DOMAIN all PROVE \E n \in DOMAIN merged : merged[n] = all[i]
    <3> DEFINE same == {k \in 1..Len(all) : all[k] = all[i]}
    <3>1. PICK k \in same : \A l \in same : k <= l
      <4>1. same \in SUBSET Nat /\ i \in same
        BY <1>1
      <4>2. QED
        BY <4>1, Least
    <3>2. k \in firsts
      BY <1>1, <1>2, <3>1
    <3>3. PICK n \in 1..Cardinality(firsts) : Search!Nth(firsts, n) = k
      BY <1>3, <1>4, <3>2, NthOf
    <3>4. QED
      BY <1>6, <3>1, <3>3
  <2>3. QED
    BY <2>1, <2>2
<1>12. QED
  BY <1>9, <1>10, <1>11 DEF merged

(* Nothing is found or learned before the sources answered; what each      *)
(* answered is a list of people, or no list.                               *)
Answers == Seq(Findable) \cup {Search!Pending, Search!Error}

SearchInv ==
  /\ call = [at |-> call.at, sources |-> call.sources, people |-> call.people,
             succeeded |-> call.succeeded, results |-> call.results]
  /\ call.sources \in {Search!Sources, <<"DIRECTORY">>, <<"CONTACTS">>}
  /\ call.results \in [{call.sources[i] : i \in DOMAIN call.sources} -> Answers]
  /\ past = [learned |-> past.learned]
  /\ call.at = "asking" => past.learned = {} /\ call.succeeded = {}
  /\ Search!TypeOK
  /\ Search!EverySourceCounts

LEMMA NoAnswers ==
  /\ Search!Pending \notin Seq(Findable) /\ Search!Error \notin Seq(Findable)
  /\ Search!Pending # Search!Error
<1>1. Search!Pending[1] = "pending" /\ Search!Error[1] = "error"
  BY DEF Search!Pending, Search!Error
<1>2. Len(Search!Pending) = 1 /\ Len(Search!Error) = 1
  BY DEF Search!Pending, Search!Error
<1>3. \A s \in Seq(Findable) : Len(s) = 1 => s[1] \in Findable
  OBVIOUS
<1>4. "pending" \notin Findable /\ "error" \notin Findable
  BY FindableAssumption
<1>5. QED
  BY <1>1, <1>2, <1>3, <1>4

LEMMA TwoSources ==
  /\ Search!Range(Search!Sources) = {"DIRECTORY", "CONTACTS"}
  /\ \A s : s = <<"DIRECTORY">> => /\ DOMAIN s = {1} /\ Len(s) = 1 /\ s[1] = "DIRECTORY"
                                    /\ Search!Range(s) = {"DIRECTORY"}
  /\ \A s : s = <<"CONTACTS">> => /\ DOMAIN s = {1} /\ Len(s) = 1 /\ s[1] = "CONTACTS"
                                   /\ Search!Range(s) = {"CONTACTS"}
  /\ DOMAIN Search!Sources = {1, 2} /\ Len(Search!Sources) = 2
  /\ Search!Sources[1] = "DIRECTORY" /\ Search!Sources[2] = "CONTACTS"
<1>1. /\ DOMAIN Search!Sources = {1, 2} /\ Len(Search!Sources) = 2
      /\ Search!Sources[1] = "DIRECTORY" /\ Search!Sources[2] = "CONTACTS"
  BY DEF Search!Sources
<1>2. Search!Range(Search!Sources) = {"DIRECTORY", "CONTACTS"}
  BY <1>1 DEF Search!Range
<1>3. ASSUME NEW x, NEW s, s = <<x>>
      PROVE  DOMAIN s = {1} /\ Len(s) = 1 /\ s[1] = x /\ Search!Range(s) = {x}
  <2>1. DOMAIN s = {1} /\ Len(s) = 1 /\ s[1] = x
    BY <1>3
  <2>2. QED
    BY <2>1 DEF Search!Range
<1>4. QED
  BY <1>1, <1>2, <1>3

LEMMA SearchInit ==
  ASSUME Search!Init
  PROVE  SearchInv
<1>1. PICK s \in {Search!Sources, <<"DIRECTORY">>, <<"CONTACTS">>} :
        call = [at |-> "asking", sources |-> s, people |-> <<>>, succeeded |-> {},
                results |-> [t \in Search!Range(s) |-> Search!Pending]]
  BY DEF Search!Init
<1>2. Search!Range(s) = {s[i] : i \in DOMAIN s}
  BY DEF Search!Range
<1>3. call.results \in [{call.sources[i] : i \in DOMAIN call.sources} -> Answers]
  BY <1>1, <1>2 DEF Answers
<1>4. Search!TypeOK
  <2>1. Len(call.people) = 0 /\ Search!Range(call.people) = {} /\ 0 <= SearchLimit
    BY <1>1, FindableAssumption DEF Search!Range
  <2>2. QED
    BY <1>1, <2>1 DEF Search!TypeOK, Search!Init
<1>5. past = [learned |-> {}]
  BY DEF Search!Init
<1>6. QED
  BY <1>1, <1>3, <1>4, <1>5 DEF SearchInv, Search!EverySourceCounts

LEMMA SearchOne ==
  ASSUME SearchInv, \E s \in DOMAIN call.results : Search!searchOneSource(s)
  PROVE  SearchInv'
<1>1. PICK s \in DOMAIN call.results : Search!searchOneSource(s)
  OBVIOUS
<1>2. PICK answer \in {Search!Error} \cup
                UNION {Search!SetToSeqs(page) : page \in Search!Pages(world[s])} :
        call' = [call EXCEPT !.results[s] = answer]
  BY <1>1 DEF Search!searchOneSource
<1>3. world \in [Search!Range(Search!Sources) -> SUBSET Findable]
  BY DEF SearchInv, Search!TypeOK
<1>4. call.at = "asking" /\ UNCHANGED <<world, past>>
  BY <1>1 DEF Search!searchOneSource
<1>5. s \in {"DIRECTORY", "CONTACTS"}
  <2>1. DOMAIN call.results = {call.sources[i] : i \in DOMAIN call.sources}
    BY DEF SearchInv
  <2>2. call.sources \in {Search!Sources, <<"DIRECTORY">>, <<"CONTACTS">>}
    BY DEF SearchInv
  <2>3. QED
    BY <1>1, <2>1, <2>2, TwoSources
<1>6. answer \in Answers
  <2>1. CASE answer = Search!Error
    BY <2>1 DEF Answers
  <2>2. CASE answer # Search!Error
    <3>1. PICK page \in Search!Pages(world[s]) : answer \in Search!SetToSeqs(page)
      BY <1>2, <2>2
    <3>2. page \in SUBSET Findable
      BY <1>3, <1>5, <3>1, TwoSources DEF Search!Pages
    <3>3. answer \in [1..Cardinality(page) -> page]
      BY <3>1, SearchCounts DEF Search!SetToSeqs
    <3>4. Cardinality(page) \in Nat
      BY <3>2, FindableAssumption, FS_Subset, FS_CardinalityType
    <3>5. answer \in Seq(Findable)
      BY <3>2, <3>3, <3>4, SeqDef
    <3>6. QED
      BY <3>5 DEF Answers
  <2>3. QED
    BY <2>1, <2>2
<1>7. /\ call'.at = call.at /\ call'.sources = call.sources /\ call'.people = call.people
      /\ call'.succeeded = call.succeeded /\ call'.results = [call.results EXCEPT ![s] = answer]
      /\ call' = [at |-> call'.at, sources |-> call'.sources, people |-> call'.people,
                  succeeded |-> call'.succeeded, results |-> call'.results]
  BY <1>2 DEF SearchInv
<1>8. call'.results \in [{call'.sources[i] : i \in DOMAIN call'.sources} -> Answers]
  BY <1>6, <1>7 DEF SearchInv
<1>9. Search!TypeOK'
  BY <1>4, <1>7 DEF SearchInv, Search!TypeOK
<1>10. Search!EverySourceCounts'
  BY <1>4, <1>7 DEF Search!EverySourceCounts
<1>11. QED
  BY <1>4, <1>7, <1>8, <1>9, <1>10 DEF SearchInv

(* What all sources listed is what those that answered did.                *)
LEMMA ListedIs ==
  ASSUME SearchInv, \A s \in DOMAIN call.results : call.results[s] # Search!Pending,
         NEW all, all = Search!Listed(call.results, call.sources)
  PROVE  /\ all \in Seq(Findable)
         /\ {all[i] : i \in DOMAIN all} =
              UNION {Search!Range(call.results[s]) :
                       s \in {t \in DOMAIN call.results : call.results[t] # Search!Error}}
<1> DEFINE found(s) == Search!FoundBy(call.results, s)
<1>1. /\ call.sources \in {Search!Sources, <<"DIRECTORY">>, <<"CONTACTS">>}
      /\ DOMAIN call.results = {call.sources[i] : i \in DOMAIN call.sources}
      /\ \A s \in DOMAIN call.results : call.results[s] \in Answers
  BY DEF SearchInv
<1>2. \A s \in DOMAIN call.results :
        /\ found(s) \in Seq(Findable)
        /\ call.results[s] # Search!Error => found(s) = call.results[s]
        /\ call.results[s] = Search!Error => found(s) = <<>>
  BY <1>1 DEF Search!FoundBy, Answers
<1>3. CASE Len(call.sources) = 1
  <2>1. PICK t : DOMAIN call.results = {t} /\ call.sources[1] = t
    BY <1>1, <1>3, TwoSources
  <2>2. all = found(t)
    BY <1>3, <2>1 DEF Search!Listed
  <2>3. QED
    BY <1>2, <2>1, <2>2 DEF Search!Range
<1>4. CASE Len(call.sources) # 1
  <2> DEFINE a == found("DIRECTORY")
             b == found("CONTACTS")
  <2>1. DOMAIN call.results = {"DIRECTORY", "CONTACTS"}
    BY <1>1, <1>4, TwoSources
  <2>2. all = a \o b
    BY <1>1, <1>4, TwoSources DEF Search!Listed
  <2>3. a \in Seq(Findable) /\ b \in Seq(Findable)
    BY <1>2, <2>1
  <2>4. {all[i] : i \in DOMAIN all} = {a[i] : i \in DOMAIN a} \cup {b[i] : i \in DOMAIN b}
    <3> HIDE DEF a, b
    <3>1. all \in Seq(Findable) /\ Len(all) = Len(a) + Len(b)
      BY <2>2, <2>3
    <3>2. \A i \in DOMAIN a : i \in DOMAIN all /\ all[i] = a[i]
      BY <2>2, <2>3
    <3>3. \A i \in DOMAIN b : i + Len(a) \in DOMAIN all /\ all[i + Len(a)] = b[i]
      BY <2>2, <2>3
    <3>4. ASSUME NEW i \in DOMAIN all
          PROVE  (i \in DOMAIN a /\ all[i] = a[i]) \/ \E k \in DOMAIN b : all[i] = b[k]
      <4>1. i \in Nat /\ i >= 1 /\ i <= Len(a) + Len(b) /\ Len(a) \in Nat /\ Len(b) \in Nat
        BY <2>3, <3>1
      <4>2. CASE i <= Len(a)
        BY <2>3, <3>2, <4>1, <4>2
      <4>3. CASE i > Len(a)
        <5>1. i - Len(a) \in DOMAIN b /\ (i - Len(a)) + Len(a) = i
          BY <2>3, <4>1, <4>3
        <5>2. QED
          BY <3>3, <5>1
      <4>4. QED
        BY <4>1, <4>2, <4>3
    <3>5. QED
      BY <3>2, <3>3, <3>4
  <2>5. all \in Seq(Findable)
    BY <2>2, <2>3
  <2>6. \A s \in DOMAIN call.results :
          {found(s)[i] : i \in DOMAIN found(s)} =
            IF call.results[s] = Search!Error THEN {} ELSE Search!Range(call.results[s])
    BY <1>2 DEF Search!Range
  <2>7. UNION {Search!Range(call.results[s]) :
                 s \in {t \in DOMAIN call.results : call.results[t] # Search!Error}}
          = {a[i] : i \in DOMAIN a} \cup {b[i] : i \in DOMAIN b}
    <3> HIDE DEF found
    <3>1. \A s \in {"DIRECTORY", "CONTACTS"} :
            {found(s)[i] : i \in DOMAIN found(s)} =
              IF call.results[s] = Search!Error THEN {} ELSE Search!Range(call.results[s])
      BY <2>1, <2>6
    <3>2. QED
      BY <2>1, <3>1
  <2>8. QED
    BY <2>4, <2>5, <2>7
<1>5. QED
  BY <1>3, <1>4

LEMMA Inside ==
  ASSUME NEW n \in Nat, NEW m \in Nat, n <= m
  PROVE  \A i \in 1..n : i \in 1..m
  OBVIOUS

LEMMA SearchAll ==
  ASSUME SearchInv, Search!SearchPeople
  PROVE  SearchInv'
<1> DEFINE answered == {s \in DOMAIN call.results : call.results[s] # Search!Error}
           all  == Search!Listed(call.results, call.sources)
           list == Search!Merged(call.results, call.sources)
           kept == IF Len(list) < SearchLimit THEN Len(list) ELSE SearchLimit
           people == SubSeq(list, 1, kept)
           returned == UNION {Search!Range(call.results[s]) : s \in answered}
<1>1. /\ call.at = "asking" /\ UNCHANGED world
      /\ \A s \in DOMAIN call.results : call.results[s] # Search!Pending
  BY DEF Search!SearchPeople
<1>2. /\ answered = {} => call' = [call EXCEPT !.at = "failed"] /\ UNCHANGED past
      /\ answered # {} =>
           /\ call' = [call EXCEPT !.at = "done", !.succeeded = answered, !.people = people]
           /\ past' = [learned |-> past.learned \cup (Search!Range(list) \cap Learnable)]
  BY DEF Search!SearchPeople
<1>3. answered \subseteq {"DIRECTORY", "CONTACTS"}
  BY TwoSources DEF SearchInv
<1>4. all \in Seq(Findable) /\ {all[i] : i \in DOMAIN all} = returned
  BY <1>1, ListedIs
<1>5. /\ list \in Seq(Findable)
      /\ \A a, b \in DOMAIN list : list[a] = list[b] => a = b
      /\ {list[n] : n \in DOMAIN list} = returned
  <2>1. list = Once(all)
    BY SearchCounts DEF Search!Merged, Once
  <2> HIDE DEF all, list, returned
  <2>2. /\ list \in Seq(Findable)
        /\ \A a, b \in DOMAIN list : list[a] = list[b] => a = b
        /\ {list[n] : n \in DOMAIN list} = {all[i] : i \in DOMAIN all}
    BY <1>4, <2>1, OnceIs
  <2>3. QED
    BY <1>4, <2>2
<1> HIDE DEF all, list, returned, answered
<1>6. /\ kept \in Nat /\ kept <= Len(list) /\ kept <= SearchLimit
      /\ kept = Len(list) \/ kept = SearchLimit
  BY <1>5, FindableAssumption
<1>7. /\ people \in Seq(Findable) /\ Len(people) = kept
      /\ \A i \in 1..kept : people[i] = list[i]
  <2>1. \A i \in 1..kept : list[i] \in Findable
    BY <1>5, <1>6
  <2> HIDE DEF kept
  <2>2. /\ SubSeq(list, 1, kept) \in Seq(Findable)
        /\ Len(SubSeq(list, 1, kept)) = IF 1 <= kept THEN kept - 1 + 1 ELSE 0
        /\ \A i \in 1..(kept - 1 + 1) : SubSeq(list, 1, kept)[i] = list[1 + i - 1]
    BY <1>6, <2>1, SubSeqProperties
  <2>3. QED
    BY <1>6, <2>2
<1> HIDE DEF kept, people
<1>8. DOMAIN people = 1..kept /\ DOMAIN list = 1..Len(list) /\ Len(list) \in Nat
  BY <1>5, <1>7
<1>9. Search!IsInjective(people)
  <2>1. \A a \in 1..kept : a \in DOMAIN list
    BY <1>6, <1>8, Inside
  <2>2. QED
    BY <1>5, <1>7, <1>8, <2>1 DEF Search!IsInjective
<1>10. /\ Search!Range(people) \subseteq returned /\ Search!Range(people) \subseteq Findable
       /\ kept = Len(list) => Search!Range(people) = returned
  <2>1. \A i \in 1..kept : i \in DOMAIN list /\ people[i] = list[i] /\ list[i] \in Findable
    <3>1. \A i \in 1..kept : i \in DOMAIN list
      BY <1>6, <1>8, Inside
    <3>2. QED
      BY <1>5, <1>7, <3>1
  <2>2. QED
    BY <1>5, <1>8, <2>1 DEF Search!Range
<1>11. CASE answered = {}
  <2>1. /\ call'.at = "failed" /\ call'.results = call.results /\ call'.people = call.people
        /\ call'.sources = call.sources /\ call'.succeeded = call.succeeded
        /\ call' = [at |-> call'.at, sources |-> call'.sources, people |-> call'.people,
                    succeeded |-> call'.succeeded, results |-> call'.results]
    BY <1>2, <1>11 DEF SearchInv
  <2>2. Search!TypeOK'
    BY <1>1, <1>2, <1>11, <2>1 DEF SearchInv, Search!TypeOK
  <2>3. Search!EverySourceCounts'
    BY <1>11, <2>1 DEF Search!EverySourceCounts, answered
  <2>4. QED
    BY <1>2, <1>11, <2>1, <2>2, <2>3 DEF SearchInv
<1>12. CASE answered # {}
  <2>1. /\ call'.at = "done" /\ call'.results = call.results /\ call'.people = people
        /\ call'.sources = call.sources /\ call'.succeeded = answered
        /\ call' = [at |-> call'.at, sources |-> call'.sources, people |-> call'.people,
                    succeeded |-> call'.succeeded, results |-> call'.results]
    BY <1>2, <1>12 DEF SearchInv
  <2>2. past' = [learned |-> past'.learned] /\ past'.learned = returned \cap Learnable
    <3>1. past.learned = {}
      BY <1>1 DEF SearchInv
    <3>2. Search!Range(list) = returned
      BY <1>5 DEF Search!Range
    <3>3. past' = [learned |-> past.learned \cup (Search!Range(list) \cap Learnable)]
      BY <1>2, <1>12
    <3>4. QED
      BY <3>1, <3>2, <3>3
  <2>3. Search!TypeOK'
    <3>1. Len(call'.people) <= SearchLimit
      BY <1>6, <1>7, <2>1
    <3>2. Search!Range(call'.people) \subseteq Findable
      BY <1>10, <2>1
    <3>3. QED
      BY <1>1, <1>3, <2>1, <2>2, <3>1, <3>2, TwoSources DEF SearchInv, Search!TypeOK
  <2>4. returned = UNION {Search!Range(call'.results[s]) : s \in call'.succeeded}
    BY <2>1 DEF returned
  <2>5. Len(call'.people) = SearchLimit \/ Search!Range(call'.people) = returned
    BY <1>6, <1>7, <1>10, <2>1
  <2>6. Search!EverySourceCounts'
    BY <1>9, <1>10, <2>1, <2>2, <2>4, <2>5 DEF Search!EverySourceCounts
  <2>7. QED
    BY <2>1, <2>2, <2>3, <2>6 DEF SearchInv
<1>13. QED
  BY <1>11, <1>12

LEMMA SearchStep ==
  ASSUME SearchInv, [Search!Next]_(Search!vars)
  PROVE  SearchInv'
<1>1. CASE Search!Done \/ UNCHANGED Search!vars
  <2>1. UNCHANGED <<call, world, past>>
    BY <1>1 DEF Search!Done, Search!vars
  <2>2. Search!TypeOK'
    BY <2>1 DEF SearchInv, Search!TypeOK
  <2>3. Search!EverySourceCounts'
    BY <2>1 DEF SearchInv, Search!EverySourceCounts
  <2>4. QED
    BY <2>1, <2>2, <2>3 DEF SearchInv
<1>2. QED
  BY <1>1, SearchOne, SearchAll DEF Search!Next

SearchKept == which = "search" => SearchInv

LEMMA SearchAlways == Spec => []SearchKept
<1>1. Init => SearchKept
  BY SearchInit DEF Init, SearchKept
<1>2. SearchKept /\ [Next]_vars => SearchKept'
  <2>1. SUFFICES ASSUME SearchKept, [Next]_vars, which' = "search" PROVE SearchInv'
    BY DEF SearchKept
  <2>2. which = "search" /\ [Search!Next]_(Search!vars)
    BY <2>1 DEF SearchKept, Next, vars, Search!vars
  <2>3. QED
    BY <2>1, <2>2, SearchStep DEF SearchKept
<1>3. QED
  BY <1>1, <1>2, PTL DEF Spec

(* Whichever source fails, in whatever order they answer: the others'      *)
(* people are all there, each once, up to the limit; the search fails only *)
(* with every source; and only whom one of them found is learned           *)
(* (people.go SearchPeople).                                               *)
THEOREM NoSourceCostsAnother == Spec => []EverySourceCounts
<1>1. SearchKept => EverySourceCounts
  BY DEF SearchKept, EverySourceCounts, SearchInv
<1>2. QED
  BY <1>1, SearchAlways, PTL
-----------------------------------------------------------------------------
(* The types of every method's call, world and past.                       *)

LEMMA ReactTypes == ReactInv => React!TypeOK
  BY DEF ReactInv, ReactCalls, Reacted, OfThePerson, React!TypeOK

(* Nobody but the caller is left out of what the pages held, and whoever   *)
(* resolves is somebody of the conversation.                               *)
WitnessTyped ==
  which = "witness" =>
    call.others \subseteq Members \cup {Witness!NoAddress} /\ world.known \subseteq Everybody

LEMMA WitnessTypes == Spec => [](which = "witness" => Witness!TypeOK)
<1>1. Init => WitnessTyped
  BY DEF Init, Witness!Init, WitnessTyped, Everybody
<1>2. WitnessKept /\ WitnessTyped /\ [Next]_vars => WitnessTyped'
  <2>1. SUFFICES ASSUME WitnessKept, WitnessTyped, [Next]_vars, which' = "witness"
                 PROVE  /\ call'.others \subseteq Members \cup {Witness!NoAddress}
                        /\ world'.known \subseteq Everybody
    BY DEF WitnessTyped
  <2>2. /\ which = "witness" /\ [Witness!Next]_(Witness!vars) /\ WitnessInv
        /\ call.others \subseteq Members \cup {Witness!NoAddress}
        /\ world.known \subseteq Everybody
    BY <2>1 DEF WitnessKept, WitnessTyped, Next, vars, Witness!vars
  <2>3. CASE Witness!ListMembers
    <3>1. Witness!Page(call.after) \subseteq Everybody /\ Witness!Me = 0
      BY <2>2 DEF Witness!Page, WitnessInv, Stayed, Witness!Me
    <3>2. PICK page : /\ page \subseteq Everybody /\ UNCHANGED world
                      /\ call'.others = call.others \cup {Witness!Address(p) : p \in page \ {Witness!Me}}
      BY <2>2, <2>3, <3>1 DEF Witness!ListMembers, WitnessInv, WitnessCalls
    <3>3. \A p \in page \ {Witness!Me} :
            Witness!Address(p) \in Members \cup {Witness!NoAddress}
      BY <3>2 DEF Witness!Address, Everybody
    <3>4. QED
      BY <2>2, <3>2, <3>3
  <2>4. CASE Witness!ListFails \/ Witness!Compare \/ Witness!Join \/ Witness!Leave
    BY <2>2, <2>4 DEF Witness!ListFails, Witness!Compare, Witness!Join, Witness!Leave,
                      WitnessInv, WitnessCalls, Stayed
  <2>5. CASE Witness!Resolve
    BY <2>2, <2>5 DEF Witness!Resolve, WitnessInv, Stayed, Everybody
  <2>6. CASE Witness!Done \/ UNCHANGED Witness!vars
    BY <2>2, <2>6 DEF Witness!Done, Witness!vars
  <2>7. QED
    BY <2>2, <2>3, <2>4, <2>5, <2>6 DEF Witness!Next
<1>3. WitnessKept /\ WitnessTyped => (which = "witness" => Witness!TypeOK)
  BY DEF WitnessKept, WitnessTyped, WitnessInv, WitnessCalls, Stayed, Everybody, Witness!TypeOK
<1>4. QED
  BY <1>1, <1>2, <1>3, WitnessAlways, PTL DEF Spec

(* A scan finds within its window.                                         *)
ScanTyped == which = "scan" => call.matches \subseteq call.window

LEMMA ScanTypes == Spec => [](which = "scan" => Scan!TypeOK)
<1>1. Init => ScanTyped
  BY DEF Init, Scan!Init, ScanTyped
<1>2. ScanKept /\ ScanTyped /\ [Next]_vars => ScanTyped'
  <2>1. SUFFICES ASSUME ScanKept, ScanTyped, [Next]_vars, which' = "scan"
                 PROVE  call'.matches \subseteq call'.window
    BY DEF ScanTyped
  <2>2. /\ which = "scan" /\ [Scan!Next]_(Scan!vars) /\ ScanInv
        /\ call.matches \subseteq call.window
    BY <2>1 DEF ScanKept, ScanTyped, Next, vars, Scan!vars
  <2>3. CASE Scan!ListMessages
    <3>1. \A page, room : Scan!Looked(page, room) \subseteq page
      BY DEF Scan!Looked
    <3>2. PICK page, room :
            /\ page \subseteq call.window /\ call'.window = call.window
            /\ call'.matches = call.matches
                  \cup (Scan!Looked(page, room) \cap (Matching \ Nameless))
      BY <2>2, <2>3 DEF Scan!ListMessages, ScanInv, ScanCalls
    <3>3. QED
      BY <2>2, <3>1, <3>2
  <2>4. CASE Scan!ListFails
    BY <2>2, <2>4 DEF Scan!ListFails, ScanInv, ScanCalls
  <2>5. CASE Scan!Others \/ Scan!Done \/ UNCHANGED Scan!vars
    BY <2>2, <2>5 DEF Scan!Others, Scan!Done, Scan!vars
  <2>6. QED
    BY <2>2, <2>3, <2>4, <2>5 DEF Scan!Next
<1>3. ScanKept /\ ScanTyped => (which = "scan" => Scan!TypeOK)
  BY DEF ScanKept, ScanTyped, ScanInv, ScanCalls, Lasting, FoundSoFar, Found, Scan!TypeOK
<1>4. QED
  BY <1>1, <1>2, <1>3, ScanAlways, PTL DEF Spec

(* Only groups of the page are named.                                      *)
GroupsTyped ==
  which = "groups" =>
    /\ call.at \in {"naming", "capping", "first", "others", "done"}
    /\ call.named \subseteq PageGroups

LEMMA GroupsTypes == Spec => [](which = "groups" => Groups!TypeOK)
<1>1. Init => GroupsTyped
  BY DEF Init, Groups!Init, GroupsTyped
<1>2. GroupsKept /\ GroupsTyped /\ [Next]_vars => GroupsTyped'
  <2>1. SUFFICES ASSUME GroupsKept, GroupsTyped, [Next]_vars, which' = "groups"
                 PROVE  /\ call'.at \in {"naming", "capping", "first", "others", "done"}
                        /\ call'.named \subseteq PageGroups
    BY DEF GroupsTyped
  <2>2. /\ which = "groups" /\ [Groups!Next]_(Groups!vars) /\ ExpansionCall
        /\ call.at \in {"naming", "capping", "first", "others", "done"}
        /\ call.named \subseteq PageGroups
    BY <2>1 DEF GroupsKept, GroupsInv, GroupsTyped, Next, vars, Groups!vars
  <2>3. CASE Groups!resolveGroups
    BY <2>2, <2>3 DEF Groups!resolveGroups, ExpansionCall
  <2>4. CASE Groups!capExpanded \/ Groups!expandFirst \/ Groups!Wait
    BY <2>2, <2>4 DEF Groups!capExpanded, Groups!expandFirst, Groups!Wait, ExpansionCall
  <2>5. ASSUME NEW g \in Groups!Expanded, Groups!expandGroup(g)
        PROVE  call'.at = call.at /\ call'.named = call.named
    BY <2>2, <2>5 DEF Groups!expandGroup, ExpansionCall
  <2>6. CASE Groups!GoesDown \/ Groups!Done \/ UNCHANGED Groups!vars
    BY <2>2, <2>6 DEF Groups!GoesDown, Groups!Done, Groups!vars
  <2>7. QED
    BY <2>2, <2>3, <2>4, <2>5, <2>6 DEF Groups!Next
<1>3. GroupsKept /\ GroupsTyped => (which = "groups" => Groups!TypeOK)
  BY DEF GroupsKept, GroupsTyped, GroupsInv, ExpansionCall, RowSets, Asked, Groups!TypeOK
<1>4. QED
  BY <1>1, <1>2, <1>3, GroupsAlways, PTL DEF Spec

(* The channel holds one outcome at most.                                  *)
SignInTyped ==
  which = "signIn" =>
    /\ world.handler \in [Requests -> {"none", "answered", "ended"}]
    /\ call.at \in SignIn!Errors \cup {"waiting", "exchange", "timedOut", "signedIn", "failed"}
    /\ call.results = <<>> \/ \E r \in Requests : call.results = <<r>>

LEMMA SignInTypes == Spec => [](which = "signIn" => SignIn!TypeOK)
<1>1. Init => SignInTyped
  BY DEF Init, SignIn!Init, SignInTyped
<1>2. SignInKept /\ SignInTyped /\ [Next]_vars => SignInTyped'
  <2> DEFINE Typed(c, w) ==
               /\ w.handler \in [Requests -> {"none", "answered", "ended"}]
               /\ c.at \in SignIn!Errors
                    \cup {"waiting", "exchange", "timedOut", "signedIn", "failed"}
               /\ c.results = <<>> \/ \E r \in Requests : c.results = <<r>>
  <2>1. SUFFICES ASSUME SignInKept, SignInTyped, [Next]_vars, which' = "signIn"
                 PROVE  Typed(call', world')
    BY DEF SignInTyped
  <2>2. /\ which = "signIn" /\ [SignIn!Next]_(SignIn!vars) /\ SignInInv /\ Typed(call, world)
    BY <2>1 DEF SignInKept, SignInTyped, Next, vars, SignIn!vars
  <2>3. ASSUME NEW r \in Requests, SignIn!Callback(r) PROVE Typed(call', world')
    BY <2>2, <2>3 DEF SignIn!Callback, SignIn!Handler, SignInInv
  <2>4. ASSUME NEW r \in Requests, SignIn!Deliver(r) PROVE Typed(call', world')
    BY <2>2, <2>4 DEF SignIn!Deliver, SignIn!Handler, SignIn!Offered, SignInInv
  <2>5. CASE SignIn!Receive
    <3>1. /\ call'.results = <<>> /\ UNCHANGED world
          /\ call'.at = IF SignIn!OutcomeOf(world.query[Head(call.results)]) = "code"
                        THEN "exchange" ELSE SignIn!OutcomeOf(world.query[Head(call.results)])
      BY <2>2, <2>5 DEF SignIn!Receive, SignInInv
    <3>2. world.query[Head(call.results)] \in SignIn!Queries
      BY <2>2, <2>5 DEF SignIn!Receive, SignInInv
    <3>3. QED
      BY <2>2, <3>1, <3>2 DEF SignIn!OutcomeOf, SignIn!Queries, SignIn!Errors
  <2>6. CASE SignIn!TimesOut \/ SignIn!Exchange
    BY <2>2, <2>6 DEF SignIn!TimesOut, SignIn!Exchange, SignInInv
  <2>7. CASE SignIn!Done \/ UNCHANGED SignIn!vars
    BY <2>2, <2>7 DEF SignIn!Done, SignIn!vars
  <2>8. QED
    BY <2>2, <2>3, <2>4, <2>5, <2>6, <2>7 DEF SignIn!Next
<1>3. SignInKept /\ SignInTyped => (which = "signIn" => SignIn!TypeOK)
  <2>1. SUFFICES ASSUME SignInInv, SignInTyped, which = "signIn" PROVE SignIn!TypeOK
    BY DEF SignInKept
  <2>2. /\ world = [query |-> world.query, handler |-> world.handler]
        /\ world.query \in [Requests -> SignIn!Queries]
        /\ world.handler \in [Requests -> {"none", "answered", "ended"}]
        /\ call.by \subseteq Requests
    BY <2>1 DEF SignInInv, SignInTyped
  <2>3. world \in [query : [Requests -> SignIn!Queries],
                  handler : [Requests -> {"none", "answered", "ended"}]]
    BY <2>2
  <2>4. Len(call.results) <= 1
    <3>1. Len(<<>>) = 0 /\ \A r \in Requests : Len(<<r>>) = 1
      OBVIOUS
    <3>2. CASE call.results = <<>>
      <4>1. Len(call.results) = 0
        BY <3>1, <3>2, Zenon
      <4>2. QED
        BY <4>1
    <3>3. ASSUME NEW r \in Requests, call.results = <<r>> PROVE Len(call.results) <= 1
      <4>1. Len(call.results) = 1
        BY <3>1, <3>3, Zenon
      <4>2. QED
        BY <4>1
    <3>4. QED
      BY <2>1, <3>2, <3>3, Zenon DEF SignInTyped
  <2>5. QED
    BY <2>1, <2>2, <2>3, <2>4 DEF SignIn!TypeOK, SignInTyped
<1>4. QED
  BY <1>1, <1>2, <1>3, SignInAlways, PTL DEF Spec

(* Whichever method is called, with whatever data and however others       *)
(* change theirs: its call, the world and the past are of their types.     *)
(* Counters stay under their bounds, a scan finds nothing outside its      *)
(* window, and the login's channel holds one outcome at most (service.go). *)
THEOREM EveryMethodIsTyped == Spec => []TypeOK
<1>1. /\ UpdateKept => (which = "update" => Update!TypeOK)
      /\ VettingKept => (which = "vetting" => Vetting!TypeOK)
      /\ MoveKept => (which = "move" => Move!TypeOK)
      /\ SearchKept => (which = "search" => Search!TypeOK)
  BY DEF UpdateKept, UpdateInv, VettingKept, VettingInv, MoveKept, MoveInv, SearchKept, SearchInv
<1>2. /\ ProfileKept => (which = "profile" => Profile!TypeOK)
      /\ DownloadKept => (which = "download" => Download!TypeOK)
      /\ ErrorsKept => (which = "errors" => Errors!TypeOK)
      /\ CommandsKept => (which = "commands" => Commands!TypeOK)
  BY DEF ProfileKept, ProfileInv, DownloadKept, DownloadInv, ErrorsKept, ErrorsInv, CommandsKept,
         CommandsInv
<1>3. ReactKept => (which = "react" => React!TypeOK)
  BY ReactTypes DEF ReactKept
<1> DEFINE Rest == /\ which = "witness" => Witness!TypeOK
                   /\ which = "scan"    => Scan!TypeOK
                   /\ which = "groups"  => Groups!TypeOK
                   /\ which = "signIn"  => SignIn!TypeOK
<1>4. /\ UpdateKept /\ VettingKept /\ MoveKept /\ SearchKept /\ ProfileKept /\ DownloadKept
      /\ ErrorsKept /\ CommandsKept /\ ReactKept /\ Rest
      => TypeOK
  BY <1>1, <1>2, <1>3 DEF TypeOK
<1>5. Spec => []Rest
  BY WitnessTypes, ScanTypes, GroupsTypes, SignInTypes, PTL
<1>6. QED
  BY <1>4, <1>5, UpdateAlways, VettingAlways, MoveAlways, SearchAlways, ProfileAlways,
     DownloadAlways, ErrorsAlways, CommandsAlways, ReactAlways, PTL
=============================================================================
