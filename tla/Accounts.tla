------------------------------ MODULE Accounts ------------------------------
(***************************************************************************)
(* What a profile keeps on disk (internal/credentials, internal/userconfig)*)
(* and the two commands that change it (cmd/google-chat-mcp/account.go):   *)
(* login saves the token Google granted, in the keyring or else in a file, *)
(* and then the profile; logout revokes and removes both.  Commands run    *)
(* one after another; any of them may be killed between two steps, any     *)
(* write may fail, and the keyring comes and goes.                         *)
(***************************************************************************)
EXTENDS Naturals

CONSTANTS
  MaxCommands,  \* bound: commands run
  MaxOutages    \* bound: times the keyring goes away or comes back

VARIABLES
  call,   \* the command that runs, where it is, the token it holds
  world,  \* the keyring, the token file, its .tmp, the profile, its cache
  past    \* signed in or not, tokens granted and outages so far

vars == <<call, world, past>>

None == 0
Torn == MaxCommands + 1
Tokens == 1..MaxCommands

Init ==
  /\ world = [keyring |-> None, up |-> TRUE, file |-> None, tmp |-> None,
              profile |-> None, cache |-> FALSE]
  /\ call = [at |-> "idle", op |-> "none", token |-> None]
  /\ past = [signedIn |-> FALSE, granted |-> 0, commands |-> 0, outages |-> 0,
          revoked |-> {}]

Go(at) == call' = [call EXCEPT !.at = at]
Put(field, v) == world' = [world EXCEPT ![field] = v]

(* The keyring's token, or the file's when there is none or the keyring    *)
(* cannot be asked.                                                        *)
ResolveStored(w) ==
  IF w.up /\ w.keyring # None THEN w.keyring
  ELSE IF w.file \in Tokens THEN w.file ELSE None

Start ==
  /\ call.at = "idle" /\ past.commands < MaxCommands
  /\ \E op \in {"login", "logout"} :
       call' = [at |-> IF op = "login" THEN "browser" ELSE "resolve", op |-> op, token |-> None]
  /\ past' = [past EXCEPT !.commands = @ + 1]
  /\ UNCHANGED world

Login ==
  /\ call.at = "browser"
  /\ \/ /\ call' = [call EXCEPT !.at = "keyring", !.token = past.granted + 1]
        /\ past' = [past EXCEPT !.granted = @ + 1]
     \/ Go("failed") /\ UNCHANGED past
  /\ UNCHANGED world

(* Save: the keyring, then the plain copy that may be left is removed; its *)
(* removal may fail.                                                       *)
SaveToKeyring ==
  /\ call.at = "keyring"
  /\ \/ world.up /\ Put("keyring", call.token) /\ Go("tidy")
     \/ Go("write") /\ UNCHANGED world
  /\ UNCHANGED past

Tidy ==
  /\ call.at = "tidy"
  /\ \/ Put("file", None)
     \/ UNCHANGED world
  /\ Go("profile") /\ past' = [past EXCEPT !.signedIn = TRUE]

Target_Mutant == "file"

(* The file a write truncates and fills: it is renamed when it is whole.   *)
Target == "tmp"

OpenFile ==
  /\ call.at = "write"
  /\ \/ Put(Target, Torn) /\ Go("fill")
     \/ Go("failed") /\ UNCHANGED world
  /\ UNCHANGED past

FillFile ==
  /\ call.at = "fill"
  /\ \/ Put(Target, call.token) /\ Go("rename")
     \/ Go("failed") /\ UNCHANGED world
  /\ UNCHANGED past

Rename ==
  /\ call.at = "rename"
  /\ \/ /\ world' = [world EXCEPT !.file = world[Target], !.tmp = None]
        /\ past' = [past EXCEPT !.signedIn = TRUE]
        /\ Go("profile")
     \/ Go("failed") /\ UNCHANGED <<world, past>>

(* userconfig.Save replaces the profile by a rename of its own.            *)
SaveProfile ==
  /\ call.at = "profile"
  /\ \/ Put("profile", call.token) /\ Go("done")
     \/ Go("failed") /\ UNCHANGED world
  /\ UNCHANGED past

(* cmdLogout stops when nothing resolves, or when it is not confirmed.     *)
Confirm ==
  /\ call.at = "resolve"
  /\ IF ResolveStored(world) = None THEN Go("nothing")
     ELSE \/ Go("canceled")
          \/ call' = [call EXCEPT !.at = "revoke", !.token = ResolveStored(world)]
  /\ UNCHANGED <<world, past>>

(* auth.go Revoke, before anything is deleted: a failure is a warning.     *)
Revoke ==
  /\ call.at = "revoke"
  /\ Go("delete")
  /\ \/ past' = [past EXCEPT !.revoked = @ \cup {call.token}]
     \/ UNCHANGED past
  /\ UNCHANGED world

(* Delete tries both stores whatever becomes of the first, and joins the   *)
(* errors.                                                                 *)
DeleteFromKeyring ==
  /\ call.at = "delete"
  /\ past' = [past EXCEPT !.signedIn = FALSE]
  /\ \/ world.up /\ Put("keyring", None) /\ Go("remove")
     \/ Go("removeAnyway") /\ UNCHANGED world

RemoveFile ==
  /\ call.at \in {"remove", "removeAnyway"}
  /\ \/ Put("file", None) /\ Go(IF call.at = "remove" THEN "forget" ELSE "failed")
     \/ Go("failed") /\ UNCHANGED world
  /\ UNCHANGED past

(* userconfig.Remove: the profile, then the cache of the directory.        *)
Remove ==
  /\ call.at \in {"forget", "forgetCache"}
  /\ \/ /\ call.at = "forget"
        /\ Put("profile", None) /\ Go("forgetCache")
     \/ /\ call.at = "forgetCache"
        /\ Put("cache", FALSE) /\ Go("done")
     \/ Go("failed") /\ UNCHANGED world
  /\ UNCHANGED past

(* A server of the profile caches whom it resolves while it is signed in.  *)
Serve ==
  /\ ResolveStored(world) # None
  /\ Put("cache", TRUE)
  /\ UNCHANGED <<call, past>>

Outage ==
  /\ past.outages < MaxOutages
  /\ Put("up", ~world.up)
  /\ past' = [past EXCEPT !.outages = @ + 1]
  /\ UNCHANGED call

(* The command returns, or is killed wherever it is.                       *)
Exit ==
  /\ call.at # "idle"
  /\ call' = [call EXCEPT !.at = "idle"]
  /\ UNCHANGED <<world, past>>

Rest ==
  /\ call.at = "idle" /\ past.commands = MaxCommands
  /\ UNCHANGED vars

Next ==
  \/ Start \/ Login \/ SaveToKeyring \/ Tidy \/ OpenFile \/ FillFile \/ Rename
  \/ SaveProfile \/ Confirm \/ Revoke \/ DeleteFromKeyring \/ RemoveFile \/ Remove
  \/ Serve \/ Outage \/ Exit \/ Rest

Spec == Init /\ [][Next]_vars

-----------------------------------------------------------------------------
TypeOK ==
  /\ world \in [keyring : Tokens \cup {None}, up : BOOLEAN, file : Tokens \cup {None, Torn},
                tmp : Tokens \cup {None, Torn}, profile : Tokens \cup {None}, cache : BOOLEAN]
  /\ call.op \in {"none", "login", "logout"} /\ call.token \in Tokens \cup {None}
  /\ past \in [signedIn : BOOLEAN, granted : 0..MaxCommands, commands : 0..MaxCommands,
               outages : 0..MaxOutages, revoked : SUBSET Tokens]

(* Signing in again never signs out: from the end of a first save until a  *)
(* logout deletes something, a token is stored whole, wherever a later     *)
(* login fails or is killed.  A login that saved stored one Google still   *)
(* honours, whatever logouts were killed between their revocation and the  *)
(* removal.  A logout that ends well leaves no token and no profile, in    *)
(* neither store, whichever failed before it.                              *)
TokenIsKept ==
  /\ past.signedIn => world.keyring # None \/ world.file \in Tokens
  /\ world.file # Torn
  /\ call.op = "login" /\ call.at \in {"profile", "done"} =>
       ~({world.keyring, world.file} \ {None} \subseteq past.revoked)
  /\ call.op = "logout" /\ call.at = "done" =>
       world.keyring = None /\ world.file = None /\ world.profile = None
=============================================================================
