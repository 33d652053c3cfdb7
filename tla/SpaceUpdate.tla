---------------------------- MODULE SpaceUpdate ----------------------------
(***************************************************************************)
(* UpdateSpace (internal/service/spaces.go): a space is read, and patched  *)
(* with the fields the call names.  Google takes the description and the   *)
(* guidelines as one object and clears what a patch of it leaves out, so   *)
(* the one the call does not name is resent as it was read.  Others edit   *)
(* the space meanwhile, and an answer may be lost: a PATCH is sent again.  *)
(*                                                                         *)
(* call, world and past are what the call knows, what Google keeps and     *)
(* what the properties remember.                                           *)
(***************************************************************************)
EXTENDS Naturals

CONSTANTS
  Texts,     \* what a field may hold
  Blank,     \* the empty text
  MaxSends,  \* the attempts of one patch
  MaxEdits   \* bound: edits by others during a call

VARIABLES
  call,   \* where it is, the fields it names, what it gives them, what it read
  world,  \* the fields of the space
  past    \* what others gave each field since the call read it; their edits

vars == <<call, world, past>>

DetailFields == {"description", "guidelines"}
Fields == DetailFields \cup {"displayName"}

(* What a patch writes, per masked field; the others it leaves alone.      *)
BuildUpdateSpace_Mutant(names, want, current) ==
  LET masked == (names \cap {"displayName"})
                  \cup (IF names \cap DetailFields # {} THEN DetailFields ELSE {})
  IN [f \in masked |-> IF f \in names THEN want[f] ELSE Blank]

BuildUpdateSpace(names, want, current) ==
  LET masked == (names \cap {"displayName"})
                  \cup (IF names \cap DetailFields # {} THEN DetailFields ELSE {})
  IN [f \in masked |-> IF f \in names THEN want[f] ELSE current[f]]

Init ==
  /\ world \in [Fields -> Texts]
  /\ call \in [at : {"read"}, names : (SUBSET Fields) \ {{}}, want : [Fields -> Texts],
               current : {world}, sends : {0}, dryRun : BOOLEAN]
  /\ past = [given |-> [f \in Fields |-> {world[f]}], edits |-> 0]

(* checkedSpace: the space, and its witness; either may end the call.      *)
Read ==
  /\ call.at = "read"
  /\ \/ /\ call' = [call EXCEPT !.at = IF call.dryRun THEN "previewed" ELSE "patch",
                                !.current = world]
        /\ past' = [past EXCEPT !.given = [f \in Fields |-> {world[f]}]]
     \/ /\ call' = [call EXCEPT !.at = "failed"]
        /\ UNCHANGED past
  /\ UNCHANGED world

(* sendSpacePatch: an attempt that is lost may have been applied, and the  *)
(* client sends it again.                                                  *)
Patch ==
  /\ call.at = "patch" /\ call.sends < MaxSends
  /\ LET body == BuildUpdateSpace(call.names, call.want, call.current)
         patched == [f \in Fields |-> IF f \in DOMAIN body THEN body[f] ELSE world[f]]
     IN \/ /\ world' = patched
           /\ call' = [call EXCEPT !.at = "done"]
        \/ /\ world' \in {world, patched}
           /\ call' = [call EXCEPT !.sends = @ + 1]
  /\ UNCHANGED past

GiveUp ==
  /\ call.at = "patch"
  /\ call' = [call EXCEPT !.at = "failed"]
  /\ UNCHANGED <<world, past>>

Edit ==
  /\ past.edits < MaxEdits
  /\ \E f \in Fields, t \in Texts :
       /\ world' = [world EXCEPT ![f] = t]
       /\ past' = [given |-> [past.given EXCEPT ![f] = @ \cup {t}], edits |-> past.edits + 1]
  /\ UNCHANGED call

Done == call.at \in {"done", "failed", "previewed"} /\ UNCHANGED vars

Next == Read \/ Patch \/ GiveUp \/ Edit \/ Done

Spec == Init /\ [][Next]_vars

-----------------------------------------------------------------------------
TypeOK ==
  /\ world \in [Fields -> Texts]
  /\ call \in [at : {"read", "patch", "done", "failed", "previewed"},
               names : (SUBSET Fields) \ {{}}, want : [Fields -> Texts],
               current : [Fields -> Texts], sends : 0..MaxSends, dryRun : BOOLEAN]
  /\ past \in [given : [Fields -> SUBSET Texts], edits : Nat]

(* A field the call does not name holds what somebody else gave it since   *)
(* the call read the space: an update clears nothing, and restores nothing *)
(* older than its own read, even when its patch is sent twice.             *)
UnnamedIsOthers == \A f \in Fields \ call.names : world[f] \in past.given[f]
=============================================================================
