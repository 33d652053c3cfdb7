----------------------------- MODULE LocalFiles -----------------------------
(***************************************************************************)
(* Downloads into the one local directory (internal/service/localfiles.go, *)
(* attachments.go): a download takes the first free name, fills the file,  *)
(* and removes it by name when it fails.  The removal may fail in turn,    *)
(* which the code passes over, and the server may be killed before it.     *)
(* Other calls, other servers and the person work in the same directory.   *)
(***************************************************************************)
EXTENDS Naturals

CONSTANTS
  Downloads,          \* calls that save a file under one name
  MaxNameCollisions,  \* the names tried: the name, name-2, ..
  MaxChanges          \* bound: files the person adds or takes away

VARIABLES
  call,   \* per download: where it is and the number of the name it tries
  world,  \* the file of each name: whose it is, and whether it is whole
  past    \* the person's files; what was taken away; whose partial file was
          \* left behind; the changes

vars == <<call, world, past>>

Names == 1..MaxNameCollisions
NoFile == [whose |-> "nobody", whole |-> FALSE]
Theirs == [whose |-> "person", whole |-> TRUE]
Partial(d) == [whose |-> d, whole |-> FALSE]
Whole(d)   == [whose |-> d, whole |-> TRUE]

Init ==
  /\ world \in [Names -> {NoFile, Theirs}]
  /\ call = [d \in Downloads |-> [at |-> "create", name |-> 1]]
  /\ past = [kept |-> {n \in Names : world[n] = Theirs}, taken |-> {}, left |-> {}, changes |-> 0]

Go(d, at) == call' = [call EXCEPT ![d].at = at]

Free_Mutant(n) == world[n] = NoFile \/ ~world[n].whole

(* O_EXCL: the file is made only where there is none.                      *)
Free(n) == world[n] = NoFile

Create(d) ==
  /\ call[d].at = "create"
  /\ LET n == call[d].name
     IN \/ /\ Free(n)
           /\ world' = [world EXCEPT ![n] = Partial(d)]
           /\ Go(d, "fetch")
        \/ /\ ~Free(n)
           /\ call' = IF n + 1 \in Names THEN [call EXCEPT ![d].name = n + 1]
                      ELSE [call EXCEPT ![d].at = "failed"]
           /\ UNCHANGED world
        \/ Go(d, "failed") /\ UNCHANGED world
  /\ UNCHANGED past

(* DownloadMedia, writeStream and the length Google said.                  *)
Fetch(d) ==
  /\ call[d].at = "fetch"
  /\ \/ /\ world' = [world EXCEPT ![call[d].name] = Whole(d)]
        /\ Go(d, "done")
     \/ Go(d, "remove") /\ UNCHANGED world
  /\ UNCHANGED past

(* os.Remove, whose error nobody looks at.                                 *)
Remove(d) ==
  /\ call[d].at = "remove"
  /\ world' = [world EXCEPT ![call[d].name] = NoFile]
  /\ Go(d, "failed")
  /\ UNCHANGED past

LeaveBehind(d) ==
  /\ Go(d, "failed")
  /\ past' = [past EXCEPT !.left = @ \cup {d}]
  /\ UNCHANGED world

RemoveFails(d) == call[d].at = "remove" /\ LeaveBehind(d)

Killed(d) == call[d].at \in {"fetch", "remove"} /\ LeaveBehind(d)

(* The person adds a file, or takes away one that nobody writes to.        *)
Person ==
  /\ past.changes < MaxChanges
  /\ \E n \in Names :
       \/ /\ world[n] = NoFile
          /\ world' = [world EXCEPT ![n] = Theirs]
          /\ past' = [past EXCEPT !.kept = @ \cup {n}, !.changes = @ + 1]
       \/ /\ world[n].whole \/ world[n].whose \in past.left
          /\ world' = [world EXCEPT ![n] = NoFile]
          /\ past' = [past EXCEPT !.kept = @ \ {n}, !.changes = @ + 1,
                                  !.taken = @ \cup {world[n].whose}]
  /\ UNCHANGED call

Done == (\A d \in Downloads : call[d].at \in {"done", "failed"}) /\ UNCHANGED vars

Next ==
  \/ \E d \in Downloads : Create(d) \/ Fetch(d) \/ Remove(d) \/ RemoveFails(d) \/ Killed(d)
  \/ Person \/ Done

Spec == Init /\ [][Next]_vars

-----------------------------------------------------------------------------
TypeOK ==
  /\ world \in [Names -> [whose : Downloads \cup {"person", "nobody"}, whole : BOOLEAN]]
  /\ call \in [Downloads -> [at : {"create", "fetch", "remove", "done", "failed"}, name : Names]]
  /\ past.kept \subseteq Names

(* A download writes over no file and removes none but its own: the one it *)
(* reports is there and whole until it is taken away, what the person      *)
(* keeps there stays, and a failed one leaves nothing, or its own partial  *)
(* file where the removal failed or the server was killed before it.       *)
FilesAreKept ==
  /\ \A d \in Downloads :
       LET file == world[call[d].name]
       IN /\ call[d].at = "done" => file = Whole(d) \/ d \in past.taken
          /\ call[d].at = "failed" => \A n \in Names : world[n].whose = d =>
               d \in past.left /\ n = call[d].name /\ file = Partial(d)
  /\ \A n \in past.kept : world[n] = Theirs
=============================================================================
