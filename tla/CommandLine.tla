---------------------------- MODULE CommandLine ----------------------------
(***************************************************************************)
(* The server of cmd/google-chat-mcp and the two commands a person asks    *)
(* what is wrong with it: status, which reads the same profile, client     *)
(* secret and token stores and asks nobody, and doctor, which starts the   *)
(* same way and reads what an account may.  They are processes of one      *)
(* machine, and the keyring comes and goes between them.                   *)
(***************************************************************************)
EXTENDS Naturals, FiniteSets, Sequences

CONSTANTS
  Spaces,     \* how many spaces doctor samples
  MaxChanges, \* bounds the changes of the machine
  MaxAdded    \* bounds the answers with a field no type has

VARIABLES
  call,   \* the server and the command beside it
  world,  \* the profile, the client secrets and the token stores
  past    \* what changed, failed and was read

vars == <<call, world, past>>

Checks == {"whoami", "spaces", "messages", "members", "sections"}   \* of doctor
Paths  == {"none", "good", "bad"}   \* no path, a client secret, none that can be read

(* Everything a process reads when it starts.                              *)
Init ==
  /\ world \in [profile : {"none", "unreadable", "present"}, flag : Paths, recorded : Paths,
                default : {"good", "bad"}, env : BOOLEAN, keyring : BOOLEAN, up : BOOLEAN,
                file : {"none", "torn", "token"}]
  /\ world.profile # "present" => world.recorded = "none"
  /\ call \in [server : {[at |-> "start", store |-> "", exit |-> 0]},
               by : {"status", "doctor", "unknown"}, at : {"start"}, spaces : {0},
               signedIn : {FALSE}, store : {""}, seen : {{}}, skipped : {{}}, drift : {{}},
               exit : {0}]
  /\ call.by = "doctor" => ~world.env /\ world.up /\ world.file = "none" /\ world.flag = "none"
  /\ past = [changes |-> 0, changed |-> FALSE, failed |-> {}, tried |-> [w \in Checks |-> 0],
             added |-> {}]

-----------------------------------------------------------------------------
(* credentials.go Resolve: the environment, then the keyring, then the     *)
(* file; with a file that cannot be read, or none, nothing is found.       *)
Resolve ==
  IF world.env THEN "env"
  ELSE IF world.up /\ world.keyring THEN "keyring"
  ELSE IF world.file = "token" THEN "file" ELSE ""

(* wire.go clientConfig: the first path there is, whether or not a later   *)
(* one could be read.                                                      *)
clientConfig ==
  IF world.flag # "none" THEN world.flag
  ELSE IF world.recorded # "none" THEN world.recorded ELSE world.default

(* auth.go: a file that is not there, is not JSON or is no desktop client. *)
LoadClientSecret(path) == path = "good"

(* wire.go loadTokenSource: with no secret or no token every call answers  *)
(* that nobody is signed in.                                               *)
loadTokenSource == IF LoadClientSecret(clientConfig) THEN Resolve ELSE ""

(* userconfig.go: a profile that is not there reads as an empty one.       *)
Load == world.profile # "unreadable"

(* wire.go build: only a profile that cannot be read is an error.          *)
build == [starts |-> Load, store |-> IF Load THEN loadTokenSource ELSE ""]

-----------------------------------------------------------------------------
(* main.go: with no token it serves all the same.                          *)
cmdServe ==
  /\ call.server.at = "start"
  /\ call' = [call EXCEPT !.server =
       [at |-> IF build.starts THEN "serving" ELSE "ended", store |-> build.store,
        exit |-> IF build.starts THEN 0 ELSE 1]]
  /\ UNCHANGED <<world, past>>

(* What the session with the client ends with.                             *)
Ends == {"none", "canceled", "EOF", "closedPipe", "closed", "serverClosing", "clientClosing",
         "wireError", "broken"}

isShutdown(e) ==
  e \in {"canceled", "EOF", "closedPipe", "closed", "serverClosing", "clientClosing"}

Run ==
  /\ call.server.at = "serving"
  /\ \E e \in Ends : call' = [call EXCEPT !.server.at = "ended",
                     !.server.exit = IF e = "none" \/ isShutdown(e) THEN 0 ELSE 1]
  /\ UNCHANGED <<world, past>>

-----------------------------------------------------------------------------
(* status.go newStatusReport: with no profile it stops before the stores.  *)
newStatusReport ==
  LET signedIn == world.profile = "present"
  IN [signedIn |-> signedIn, store |-> IF signedIn THEN Resolve ELSE ""]

cmdStatus ==
  /\ call.at = "start" /\ call.by = "status"
  /\ call' = [call EXCEPT !.at = "ended", !.exit = IF Load THEN 0 ELSE 1,
                          !.signedIn = newStatusReport.signedIn, !.store = newStatusReport.store]
  /\ UNCHANGED <<world, past>>

(* main.go run: a word that is no command does not start a server.         *)
run ==
  /\ call.at = "start" /\ call.by = "unknown"
  /\ call' = [call EXCEPT !.at = "ended", !.exit = 1]
  /\ UNCHANGED <<world, past>>

-----------------------------------------------------------------------------
(* drift.go: a new field is named by its path when what holds it is a      *)
(* struct the types reach through fields they know, through lists and      *)
(* through the values of maps, which add nothing to the path.              *)
Kind == [Response |-> "struct", rows |-> "list", row |-> "struct", labels |-> "map",
         label |-> "struct", value |-> "any", added |-> "unknown"]

NewFields ==
  {<<"Response", "added">>, <<"Response", "added", "added">>, <<"Response", "value", "added">>,
   <<"Response", "rows", "row", "added">>, <<"Response", "labels", "added">>,
   <<"Response", "labels", "label", "added">>}

reportUnknown(f) ==
  {SelectSeq(SubSeq(f, 1, i), LAMBDA n : n \notin {"row", "label"}) :
     i \in {i \in 2..Len(f) : f[i] = "added" /\ Kind[f[i - 1]] = "struct"}}

skip_Mutant(skipped, what, reason) ==
  IF \E s \in skipped : s.what = what THEN skipped
  ELSE skipped \cup {[what |-> what, reason |-> reason]}

(* doctor.go: the reasons a check could not run, each once.                *)
skip(skipped, what, reason) == skipped \cup {[what |-> what, reason |-> reason]}

(* doctor.go Run, one check at a time: it fails, also when the answer does *)
(* not fit its type, or is read, with what Google may have added to it.    *)
Goto(at) == [call EXCEPT !.at = at]

Failed(what, next) ==
  \E reason \in {"scope", "undecoded"} :
    /\ call' = [Goto(next) EXCEPT !.skipped = skip(@, what, reason)]
    /\ past' = [past EXCEPT !.failed = @ \cup {[what |-> what, reason |-> reason]},
                            !.tried[what] = @ + 1]

Read(what, next) ==
  \E new \in {{}} \cup {{f} : f \in NewFields} :
    /\ past' = [past EXCEPT !.added = @ \cup {<<what, f>> : f \in new}, !.tried[what] = @ + 1]
    /\ Cardinality(past'.added) =< MaxAdded
    /\ call' = [next EXCEPT !.seen = @ \cup {<<what, p>> : p \in UNION {reportUnknown(f) : f \in new}}]

cmdDoctor ==
  /\ call.at = "start" /\ call.by = "doctor"
  /\ call' = [Goto(IF build.starts THEN "whoami" ELSE "ended") EXCEPT
                !.store = build.store, !.exit = IF build.starts THEN 0 ELSE 1]
  /\ UNCHANGED <<world, past>>

(* Only the check of who is signed in is fatal, and nobody may be.         *)
Whoami ==
  /\ call.at = "whoami"
  /\ \/ call' = [Goto("ended") EXCEPT !.exit = 1] /\ UNCHANGED past
     \/ call.store # "" /\ Read("whoami", Goto("spaces"))
  /\ UNCHANGED world

ListSpaces ==
  /\ call.at = "spaces"
  /\ \/ Failed("spaces", "report")
     \/ \E n \in 0..Spaces :
          Read("spaces", [Goto(IF n = 0 THEN "sections" ELSE "messages") EXCEPT !.spaces = n])
  /\ UNCHANGED world

GetMessages ==
  /\ call.at = "messages"
  /\ Failed("messages", "members") \/ Read("messages", Goto("members"))
  /\ UNCHANGED world

ListMembers ==
  /\ call.at = "members"
  /\ LET next == IF past.tried["members"] + 1 < call.spaces THEN "messages" ELSE "sections"
     IN Failed("members", next) \/ Read("members", Goto(next))
  /\ UNCHANGED world

ListSections ==
  /\ call.at = "sections"
  /\ Failed("sections", "report") \/ Read("sections", Goto("report"))
  /\ UNCHANGED world

(* What the client saw by then is what is reported.                        *)
DriftPaths == call.seen

WriteTo ==
  /\ call.at = "report"
  /\ call' = [Goto("ended") EXCEPT !.drift = DriftPaths]
  /\ UNCHANGED <<world, past>>

-----------------------------------------------------------------------------
(* The machine: another process logs in or out, the keyring comes or goes. *)
Changes(w) ==
  /\ past.changes < MaxChanges /\ w # world
  /\ call.at \in {"start", "ended"} /\ call.by = "status" /\ call.server.at # "ended"
  /\ world' = w
  /\ past' = [past EXCEPT !.changes = @ + 1,
                          !.changed = @ \/ call.at # "start" \/ call.server.at # "start"]
  /\ UNCHANGED call

Outage == Changes([world EXCEPT !.up = ~@])

Login ==
  world.profile # "unreadable" /\
  Changes([world EXCEPT !.profile = "present", !.recorded = "good", !.keyring = @ \/ world.up,
                        !.file = IF world.up THEN "none" ELSE "token"])

Logout ==
  Changes([world EXCEPT !.profile = "none", !.recorded = "none", !.keyring = @ /\ ~world.up,
                        !.file = "none"])

Done == call.at = "ended" /\ call.server.at = "ended" /\ UNCHANGED vars

Next ==
  \/ cmdServe \/ Run \/ cmdStatus \/ run \/ cmdDoctor \/ Whoami \/ ListSpaces
  \/ GetMessages \/ ListMembers \/ ListSections \/ WriteTo
  \/ Outage \/ Login \/ Logout \/ Done

Spec == Init /\ [][Next]_vars

-----------------------------------------------------------------------------
TypeOK ==
  /\ call.server.at \in {"start", "serving", "ended"} /\ call.server.exit \in {0, 1}
  /\ call.by \in {"status", "doctor", "unknown"} /\ call.exit \in {0, 1}
  /\ call.at \in {"start", "whoami", "spaces", "messages", "members", "sections", "report", "ended"}
  /\ {call.store, call.server.store} \subseteq {"", "env", "keyring", "file"}
  /\ call.spaces \in 0..Spaces /\ call.signedIn \in BOOLEAN
  /\ past.changes \in 0..MaxChanges /\ past.changed \in BOOLEAN

(* A key of a map and what a value of any shape holds are nobody's to know.*)
Unnameable == {<<"Response", "labels", "added">>, <<"Response", "value", "added">>}

(* What doctor reports is what it met: every check that could not run with *)
(* each of its reasons and no other, every listing tried whatever failed   *)
(* before it, and the field of every answer that has one nobody reads,     *)
(* also when the walk stopped early.                                       *)
DoctorIsThorough ==
  call.by = "doctor" /\ call.at = "ended" /\ call.exit = 0 =>
    /\ call.skipped = past.failed
    /\ (\A f \in past.failed : f.what # "spaces") =>
         /\ past.tried.sections > 0
         /\ past.tried.messages = call.spaces /\ past.tried.members = call.spaces
    /\ \A w \in Checks :
         (\E p \in call.drift : p[1] = w) <=> \E a \in past.added : a[1] = w /\ a[2] \notin Unnameable
    /\ Cardinality(call.drift) =< Cardinality(past.added)

(* On a machine nothing changed, what status says of an account that is    *)
(* signed in is what the server has: without a token it finds none either, *)
(* and one it can use it has from the store status names.                  *)
StatusIsTheServers ==
  call.by = "status" /\ call.at = "ended" /\ call.server.at # "start" /\ ~past.changed =>
    /\ call.exit = 1 => call.server.at = "ended" /\ call.server.exit = 1
    /\ call.signedIn => call.server.store \in {"", call.store}
    /\ call.signedIn /\ LoadClientSecret(clientConfig) => call.server.store = call.store

(* What a person is told by the commands is what the server would meet.    *)
CommandsTellTheServer == DoctorIsThorough /\ StatusIsTheServers
=============================================================================
