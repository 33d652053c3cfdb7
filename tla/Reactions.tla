----------------------------- MODULE Reactions -----------------------------
(***************************************************************************)
(* AddReaction and RemoveReaction by person (internal/service/reactions.go)*)
(* on one message and one emoji.  An add that is already there is answered *)
(* 409 and the reaction of the caller is looked up; a removal lists the    *)
(* reactions, resolves who reacted and deletes the one of the address      *)
(* given.  Others react and take theirs back meanwhile.                    *)
(***************************************************************************)
EXTENDS FiniteSets, Naturals

CONSTANTS
  People,     \* 1..n, in the order Google lists their reactions
  Me,         \* the caller
  PageSize,   \* maxReactionLimit
  MaxChanges  \* bound: reactions others add or take back during a call

VARIABLES
  call,   \* the operation, whose reaction, the page read and the report
  world,  \* who has reacted
  past    \* who reacted at some time and all along, and the changes

vars == <<call, world, past>>

Nobody == 0

Init ==
  /\ world \in SUBSET People
  /\ call \in {c \in [op : {"add", "remove"}, whose : People, at : {"start"}, page : {{}},
                      known : {{}}, reported : {Nobody}, deleted : {{}}] :
                 c.op = "add" => c.whose = Me}
  /\ past = [ever |-> world, always |-> world, changes |-> 0]

React(set)   == past' = [past EXCEPT !.ever = @ \cup set]
Unreact(set) == past' = [past EXCEPT !.always = @ \ set]
Report(at, p) == call' = [call EXCEPT !.at = at, !.reported = p]

First(n, set) == {p \in set : Cardinality({q \in set : q < p}) < n}

AddReaction ==
  /\ call.op = "add" /\ call.at = "start"
  /\ \/ /\ Me \notin world /\ world' = world \cup {Me} /\ React({Me})
        /\ Report("done", Me) \/ Report("failed", Nobody)
     \/ Me \in world /\ Report("exists", Nobody) /\ UNCHANGED <<world, past>>
     \/ Report("failed", Nobody) /\ UNCHANGED <<world, past>>

OfCaller_Mutant(set) == First(1, set)

(* The listing is narrowed to the emoji and to the caller.                 *)
OfCaller(set) == First(1, set \cap {Me})

existingReaction ==
  /\ call.op = "add" /\ call.at = "exists"
  /\ \/ \E p \in OfCaller(world) : Report("done", p)
     \/ Report("failed", Nobody)
  /\ UNCHANGED <<world, past>>

(* The first page of the reactions, with the addresses that resolve.       *)
ListReactions ==
  /\ call.op = "remove" /\ call.at = "start"
  /\ \/ LET page == First(PageSize, world)
        IN \E known \in SUBSET page :
             call' = [call EXCEPT !.page = page, !.known = known,
                                  !.at = IF page = {} THEN "nothing" ELSE "match"]
     \/ Report("failed", Nobody)
  /\ UNCHANGED <<world, past>>

(* No match is an answer only when everybody on the page resolved.         *)
removeReactionByPerson ==
  /\ call.op = "remove" /\ call.at = "match"
  /\ \/ /\ call.whose \in call.known
        /\ \/ /\ call.whose \in world
              /\ world' = world \ {call.whose} /\ Unreact({call.whose})
              /\ \/ call' = [call EXCEPT !.at = "done", !.reported = call.whose,
                                         !.deleted = {call.whose}]
                 \/ call' = [call EXCEPT !.at = "failed", !.deleted = {call.whose}]
           \/ Report("failed", Nobody) /\ UNCHANGED <<world, past>>
     \/ /\ call.whose \notin call.known
        /\ Report(IF call.known = call.page THEN "nothing" ELSE "failed", Nobody)
        /\ UNCHANGED <<world, past>>

Others ==
  /\ past.changes < MaxChanges
  /\ \E p \in People :
       /\ world' = IF p \in world THEN world \ {p} ELSE world \cup {p}
       /\ past' = [ever |-> past.ever \cup world', always |-> past.always \cap world',
                   changes |-> past.changes + 1]
  /\ UNCHANGED call

Done == call.at \in {"done", "nothing", "failed"} /\ UNCHANGED vars

Next ==
  AddReaction \/ existingReaction \/ ListReactions \/ removeReactionByPerson \/ Others \/ Done

Spec == Init /\ [][Next]_vars

-----------------------------------------------------------------------------
TypeOK ==
  /\ world \subseteq People /\ past.ever \subseteq People /\ past.always \subseteq People
  /\ call.at \in {"start", "exists", "match", "done", "nothing", "failed"}
  /\ call.reported \in People \cup {Nobody}
  /\ call.known \subseteq call.page /\ call.page \subseteq People

InReach == Cardinality(past.ever) <= PageSize

(* The reaction a call reports is of the person it is about, and was there *)
(* during the call; a removal deletes nobody else's; and it reports that   *)
(* there was none only of someone who, at some moment of it, had none, as  *)
(* far as one page reaches.                                                *)
ReportsTheirReaction ==
  /\ call.at = "done" => call.reported = call.whose /\ call.whose \in past.ever
  /\ call.deleted \subseteq {call.whose}
  /\ call.at = "nothing" /\ InReach => call.whose \notin past.always
=============================================================================
