--------------------------- MODULE GroupExpansion ---------------------------
(***************************************************************************)
(* ListMembers with expand_groups (internal/service/members.go,            *)
(* groups.go): the groups of a page are named one after another, then the  *)
(* members of the first are read, and of the others side by side.  A       *)
(* failure every request would share, a missing scope or a disabled        *)
(* service, ends the asking; a group's own failure is its own.             *)
(***************************************************************************)
EXTENDS FiniteSets, Naturals

CONSTANTS
  Groups,              \* 1..n, in the order of the page
  MaxExpandedGroups    \* maxExpandedGroups

VARIABLES
  call,   \* where it is, the group it names next, the rows read, why others are not
  world,  \* which failure all requests to Google share, if any
  past    \* the requests made after a failure that all share

vars == <<call, world, past>>

First(n, set) == {g \in set : Cardinality({h \in set : h < g}) < n}
Expanded == First(MaxExpandedGroups, Groups)
Leader == CHOOSE g \in Expanded : \A h \in Expanded : g <= h

Unread == "unread"
Reasons == {"own", "shared", "cap"}

Init ==
  /\ world = [down |-> FALSE]
  /\ call = [at |-> "naming", next |-> 1, named |-> {}, groupsFailed |-> FALSE,
             rows |-> [g \in Groups |-> Unread]]
  /\ past = [wasted |-> 0, seen |-> FALSE]

(* A shared failure stays: a token's scopes and a project's services do    *)
(* not change under a call, nor does its canceled context.                 *)
GoesDown ==
  /\ ~world.down
  /\ world' = [down |-> TRUE]
  /\ UNCHANGED <<call, past>>

Requested(n) ==
  past' = [wasted |-> past.wasted + (IF past.seen THEN n ELSE 0),
           seen |-> past.seen \/ world.down]

resolveGroups ==
  /\ call.at = "naming"
  /\ IF call.next \notin Groups
     THEN call' = [call EXCEPT !.at = "capping"] /\ UNCHANGED past
     ELSE /\ Requested(1)
          /\ IF world.down
             THEN call' = [call EXCEPT !.at = "capping", !.groupsFailed = TRUE]
             ELSE \/ call' = [call EXCEPT !.next = @ + 1, !.named = @ \cup {call.next}]
                  \/ call' = [call EXCEPT !.next = @ + 1]
  /\ UNCHANGED world

Missing(rows, set, why) == [g \in Groups |-> IF g \in set THEN why ELSE rows[g]]

Unasked_Mutant(c) == Expanded = {}

Unasked(c) == Expanded = {} \/ c.groupsFailed

(* expandGroups, up to its first request.                                  *)
capExpanded ==
  /\ call.at = "capping"
  /\ LET capped == Missing(call.rows, Groups \ Expanded, "cap")
     IN call' = IF Unasked(call)
                THEN [call EXCEPT !.at = "done", !.rows = Missing(capped, Expanded, "shared")]
                ELSE [call EXCEPT !.at = "first", !.rows = capped]
  /\ UNCHANGED <<world, past>>

expandFirst ==
  /\ call.at = "first"
  /\ Requested(1)
  /\ IF world.down
     THEN call' = [call EXCEPT !.at = "done", !.rows = Missing(call.rows, Expanded, "shared")]
     ELSE \E row \in {"read", "own"} :
            call' = [call EXCEPT !.at = "others", !.rows[Leader] = row]
  /\ UNCHANGED world

(* Each of the others is a goroutine of its own, that writes its own row.  *)
expandGroup(g) ==
  /\ call.at = "others" /\ g # Leader /\ call.rows[g] = Unread
  /\ \E row \in IF world.down THEN {"shared"} ELSE {"read", "own"} :
       call' = [call EXCEPT !.rows[g] = row]
  /\ UNCHANGED <<world, past>>

Wait ==
  /\ call.at = "others" /\ \A g \in Expanded : call.rows[g] # Unread
  /\ call' = [call EXCEPT !.at = "done"]
  /\ UNCHANGED <<world, past>>

Done == call.at = "done" /\ UNCHANGED vars

Next ==
  \/ GoesDown \/ resolveGroups \/ capExpanded \/ expandFirst \/ Wait \/ Done
  \/ \E g \in Expanded : expandGroup(g)

Spec == Init /\ [][Next]_vars

-----------------------------------------------------------------------------
TypeOK ==
  /\ call.at \in {"naming", "capping", "first", "others", "done"}
  /\ call.named \subseteq Groups
  /\ call.rows \in [Groups -> {Unread, "read"} \cup Reasons]
  /\ past.wasted \in Nat

(* No group of the answer is silently empty: its members were read, or its *)
(* row says why not, and only a group past the cap blames the cap.  Once a *)
(* failure that every request shares was answered to a request made on its *)
(* own, no other is made.                                                  *)
EveryGroupIsAccountedFor ==
  /\ call.at = "done" =>
       \A g \in Groups : /\ call.rows[g] # Unread
                         /\ call.rows[g] = "cap" <=> g \notin Expanded
  /\ past.wasted = 0
=============================================================================
