---------------------------- MODULE SearchScan ----------------------------
(***************************************************************************)
(* scanSpace (internal/service/search.go): the regex search of one space,  *)
(* newest message first, page after page, until a limit of matches or of   *)
(* pages.  Google cuts a page before it applies the time window, so a page *)
(* may be empty and still not be the last; messages come and go meanwhile. *)
(***************************************************************************)
EXTENDS FiniteSets, Integers, FiniteSetsExt

CONSTANTS
  Messages,   \* 1..n, in the order of their creation
  Matching,   \* those the pattern matches
  Nameless,   \* those Google returns without a resource name
  PageSize,
  MaxPages,   \* max_pages
  Limit,      \* limit
  MaxChanges  \* bound: messages posted or deleted during a call

VARIABLES
  call,   \* where it is, the window, the token and the result
  world,  \* the messages of the space
  past    \* those there at some time and all along, and the changes

vars == <<call, world, past>>

Init ==
  /\ world \in SUBSET Messages
  /\ call \in [at : {"list"}, window : SUBSET Messages, before : {Max(Messages \cup {0}) + 1},
               pages : {0}, matches : {{}}, scanned : {0}, unparsed : {0}, capReached : {FALSE}]
  /\ past = [ever |-> world, always |-> world, changes |-> 0]

Newest(n, set) == {m \in set : Cardinality({k \in set : k > m}) < n}

(* The messages of a page, newest first, up to the one that fills the      *)
(* limit: those past it are not looked at.                                 *)
Looked(page, room) ==
  {m \in page : Cardinality({k \in page \cap (Matching \ Nameless) : k > m}) < room}

Last_Mutant(page, more) == page = {} \/ ~more

Last(page, more) == ~more

ListMessages ==
  /\ call.at = "list"
  /\ LET cut == Newest(PageSize, {m \in world : m < call.before})
         page == cut \cap call.window
         more == \E m \in world : m < call.before /\ m \notin cut
         looked == Looked(page, Limit - Cardinality(call.matches))
         matches == call.matches \cup (looked \cap (Matching \ Nameless))
         full == Cardinality(matches) >= Limit
     IN call' = [call EXCEPT
          !.matches = matches,
          !.scanned = @ + Cardinality(looked),
          !.unparsed = @ + Cardinality(looked \cap Nameless),
          !.pages = @ + 1,
          !.before = IF cut = {} THEN @ ELSE Min(cut),
          !.capReached = full \/ (~Last(page, more) /\ call.pages + 1 = MaxPages),
          !.at = IF full \/ Last(page, more) \/ call.pages + 1 = MaxPages THEN "done" ELSE "list"]
  /\ UNCHANGED <<world, past>>

ListFails ==
  /\ call.at = "list"
  /\ call' = [call EXCEPT !.at = "failed"]
  /\ UNCHANGED <<world, past>>

(* Somebody posts or deletes a message.                                    *)
Others ==
  /\ past.changes < MaxChanges
  /\ \E m \in Messages :
       /\ world' = IF m \in world THEN world \ {m} ELSE world \cup {m}
       /\ m \notin world => m \notin past.ever /\ \A k \in past.ever : k < m
       /\ past' = [ever |-> past.ever \cup world', always |-> past.always \cap world',
                   changes |-> past.changes + 1]
  /\ UNCHANGED call

Done == call.at \in {"done", "failed"} /\ UNCHANGED vars

Next == ListMessages \/ ListFails \/ Others \/ Done

Spec == Init /\ [][Next]_vars

-----------------------------------------------------------------------------
TypeOK ==
  /\ world \subseteq Messages /\ past.ever \subseteq Messages /\ past.always \subseteq Messages
  /\ call.at \in {"list", "done", "failed"} /\ call.capReached \in BOOLEAN
  /\ call.matches \subseteq Matching \cap call.window
  /\ call.pages \in 0..MaxPages /\ call.scanned \in Nat /\ call.unparsed \in Nat

(* A scan that does not report cap_reached or unparsed rows found every    *)
(* match of its window that was there while it ran, an empty page on the   *)
(* way included; and it never returns more than its limit.                 *)
QuietScanIsComplete ==
  /\ Cardinality(call.matches) <= Limit
  /\ call.matches \subseteq past.ever
  /\ call.at = "done" /\ ~call.capReached /\ call.unparsed = 0
       => past.always \cap Matching \cap call.window \subseteq call.matches
=============================================================================
