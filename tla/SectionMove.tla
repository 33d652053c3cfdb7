---------------------------- MODULE SectionMove ----------------------------
(***************************************************************************)
(* MoveSpaceToSection (internal/service/sections.go).  A space's entry in  *)
(* the sidebar is named by its section, so a move renames it.  The call    *)
(* takes the entry it is given or looks the space up, compares the space   *)
(* with its witness, and moves the entry, if it is not there already; the  *)
(* person may move things by hand meanwhile.                               *)
(***************************************************************************)
EXTENDS Naturals

CONSTANTS
  Spaces, Sections,
  MaxMoves   \* bound: moves by hand during a call

VARIABLES
  call,   \* the space and the section it names, the entry found, the report
  world,  \* the section each space is filed under
  past    \* where the named space was during the call; spaces it moved; moves

vars == <<call, world, past>>

(* An entry's name says whose entry it is and under which section.         *)
Entries == [space : Spaces, section : Sections]
NoEntry == [space |-> "none", section |-> "none"]

Init ==
  /\ world \in [Spaces -> Sections]
  /\ call \in {c \in [at : {"locate", "check"}, given : BOOLEAN, space : Spaces, to : Sections,
                      item : Entries \cup {NoEntry}, moved : {FALSE}] :
                 /\ c.at = "check" <=> c.given
                 /\ c.item # NoEntry <=> c.given}
  /\ past = [was |-> {world[call.space]}, moved |-> {}, moves |-> 0]

ListedFor_Mutant(entry) == TRUE

(* Google's answer has to be for the space that was asked for.             *)
ListedFor(entry) == entry.space = call.space

(* Whatever entry Google's filter lets through.                            *)
locateSectionItem ==
  /\ call.at = "locate"
  /\ \E s \in Spaces :
       LET entry == [space |-> s, section |-> world[s]]
       IN call' = IF ListedFor(entry) THEN [call EXCEPT !.item = entry, !.at = "check"]
                  ELSE [call EXCEPT !.at = "failed"]
  /\ UNCHANGED <<world, past>>

NotFound ==
  /\ call.at = "locate"
  /\ call' = [call EXCEPT !.at = "failed"]
  /\ UNCHANGED <<world, past>>

checkSpace ==
  /\ call.at = "check"
  /\ call' = [call EXCEPT !.at =
       IF call.item.section = call.to THEN "done" ELSE "move"]
     \/ call' = [call EXCEPT !.at = "failed"]
  /\ UNCHANGED <<world, past>>

(* An entry that was moved since has another name, and Google does not     *)
(* find it.  The answer of a move that was applied may be lost.            *)
MoveSectionItem ==
  /\ call.at = "move"
  /\ LET e == call.item
     IN \/ /\ world[e.space] = e.section
           /\ world' = [world EXCEPT ![e.space] = call.to]
           /\ past' = [past EXCEPT !.moved = @ \cup {e.space}, !.was = @ \cup {world'[call.space]}]
           /\ \/ call' = [call EXCEPT !.at = "done", !.moved = TRUE]
              \/ call' = [call EXCEPT !.at = "failed"]
        \/ /\ call' = [call EXCEPT !.at = "failed"]
           /\ UNCHANGED <<world, past>>

MoveByHand ==
  /\ past.moves < MaxMoves
  /\ \E s \in Spaces, to \in Sections :
       /\ world' = [world EXCEPT ![s] = to]
       /\ past' = [past EXCEPT !.moves = @ + 1, !.was = @ \cup {world'[call.space]}]
  /\ UNCHANGED call

Done == call.at \in {"done", "failed"} /\ UNCHANGED vars

Next == locateSectionItem \/ NotFound \/ checkSpace \/ MoveSectionItem \/ MoveByHand \/ Done

Spec == Init /\ [][Next]_vars

-----------------------------------------------------------------------------
TypeOK ==
  /\ world \in [Spaces -> Sections]
  /\ call \in [at : {"locate", "check", "move", "done", "failed"}, given : BOOLEAN,
               space : Spaces, to : Sections, item : Entries \cup {NoEntry}, moved : BOOLEAN]
  /\ past.was \subseteq Sections /\ past.moved \subseteq Spaces /\ past.moves \in Nat

(* A call that looks the space up files no other space, succeeds without a *)
(* move only if the space was in its place, and reports that it came from  *)
(* a section it was in during the call.  The entry a caller passes is the  *)
(* caller's word: nothing compares it with the space.                      *)
FilesTheNamedSpace == ~call.given =>
  /\ past.moved \subseteq {call.space}
  /\ call.at = "done" =>
       /\ call.to \in past.was
       /\ call.item.section \in past.was
       /\ call.moved <=> past.moved # {}
=============================================================================
