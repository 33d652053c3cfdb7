----------------------------- MODULE ToolCalls -----------------------------
(***************************************************************************)
(* One call of one tool, from its registration under the settings of the   *)
(* server, through wrap, the steps of the service method and the guards of *)
(* the client, to the scopes Google granted when the account signed in.    *)
(*                                                                         *)
(* The settings are those the server started with; the grant is the one    *)
(* login left, under settings that may have been others, and the person    *)
(* signing in may have declined the scopes of the lookups.                 *)
(***************************************************************************)
EXTENDS Tools, Sequences

CONSTANTS
  Toolsets,       \* the values of GCM_TOOLSETS, as sets of names
  Logins          \* settings a kept grant may come from

ASSUME LoginsAssumption ==
  \A l \in Logins : l.readOnly \in BOOLEAN /\ l.enableDestructive \in BOOLEAN

VARIABLES
  config,     \* readOnly, enableDestructive and the toolsets
  granted,    \* the scopes of the token
  asked,      \* login ran under these settings
  declined,   \* the scopes the person unticked
  tool,       \* the name of the tool called
  dry,        \* dry_run was given
  confirm,    \* confirm was given
  rest,       \* the steps left
  witnessed,  \* the target is called what the call says
  vetted,     \* whom it adds is inside the organization
  sent,       \* the steps whose request went out
  outcome

vars == <<config, granted, asked, declined, tool, dry, confirm, rest,
          witnessed, vetted, sent, outcome>>
settings == <<config, granted, asked, declined>>

DefaultToolsets ==
  {"Core", "Sections", "Pins", "Emoji", "Events", "ReadState", "Settings", "Availability"}

(* No value is the default sets; "All" is them by name, and Admin is only  *)
(* ever had by naming it.                                                  *)
parseToolsets(v) ==
  IF v = {} THEN DefaultToolsets
  ELSE {"Core"} \cup (v \ {"All"}) \cup (IF "All" \in v THEN DefaultToolsets ELSE {})

Build(readOnly, enableDestructive, v) ==
  [readOnly |-> readOnly, enableDestructive |-> enableDestructive,
   toolsets |-> parseToolsets(v)]

DestructiveRegisters(c) == c.enableDestructive /\ ~c.readOnly

requestedScopes(c) ==
  Do!Client!Requested("Admin" \in c.toolsets, c.readOnly, DestructiveRegisters(c))

(* account.go: what the person did not untick.                             *)
grantedScopes(c, unticked) == requestedScopes(c) \ unticked

Lookups == {"DirectoryReadonly", "GroupsReadonly"}

registers_Mutant(t, c) ==
  /\ t.toolset # "Core" => t.toolset \in c.toolsets
  /\ t.kind = "Destructive" => DestructiveRegisters(c)

registers(t, c) ==
  /\ t.toolset # "Core" => t.toolset \in c.toolsets
  /\ c.readOnly => t.kind \in {"Read", "ReadWritesLocally"} /\ ~t.writeScope
  /\ t.kind = "Destructive" => DestructiveRegisters(c)

Named == [n \in {t.name : t \in Tools} |-> CHOOSE t \in Tools : t.name = n]
NoTool == "none"
Admin == ForAdministrators(Named[tool])

Init ==
  /\ \E readOnly, enableDestructive \in BOOLEAN, v \in Toolsets :
       config = Build(readOnly, enableDestructive, v)
  /\ asked \in {config} \cup Logins
  /\ declined \in {{}, Lookups}
  /\ granted = grantedScopes(asked, declined)
  /\ tool = NoTool /\ outcome = "idle"
  /\ dry = FALSE /\ confirm = FALSE
  /\ rest = <<>> /\ sent = {}
  /\ witnessed = FALSE /\ vetted = FALSE

(* wrap, up to the handler.                                                *)
Call ==
  /\ outcome = "idle"
  /\ \E n \in DOMAIN Named, d, c \in BOOLEAN :
       LET t == Named[n] IN
         /\ registers(t, config)
         /\ d => t.dryRun
         /\ c => TakesConfirm(t)
         /\ tool' = n /\ dry' = d /\ confirm' = c
         /\ IF TakesConfirm(t) /\ ~d /\ ~c
            THEN outcome' = "invalid" /\ UNCHANGED rest
            ELSE outcome' = "running" /\ rest' \in t.operation
  /\ UNCHANGED <<settings, witnessed, vetted, sent>>

At(kinds) == outcome = "running" /\ rest # <<>> /\ Head(rest).do \in kinds
GoOn == rest' = Tail(rest) /\ UNCHANGED outcome
End(o) == outcome' = o /\ UNCHANGED rest
Unsent == UNCHANGED <<settings, tool, dry, confirm, sent>>

(* A resource name or another argument the call gives, or what was read,   *)
(* is refused.                                                             *)
Check ==
  /\ At({"name", "argument", "check"})
  /\ \/ GoOn
     \/ Head(rest).do = "name" /\ End("malformed")
     \/ Head(rest).do = "argument" /\ End("invalid")
     \/ Head(rest).do = "check" /\ End("refused")
  /\ UNCHANGED <<witnessed, vetted>> /\ Unsent

Compare ==
  /\ At({"witness"})
  /\ \/ GoOn /\ witnessed' = TRUE
     \/ End("stale") /\ UNCHANGED witnessed
  /\ UNCHANGED vetted /\ Unsent

Vet ==
  /\ At({"vet"})
  /\ GoOn /\ vetted' = TRUE
  /\ UNCHANGED witnessed /\ Unsent

refuseUnnamedUnderAdmin ==
  /\ At({"named"})
  /\ IF Admin THEN End("refused") ELSE GoOn
  /\ UNCHANGED <<witnessed, vetted>> /\ Unsent

PreviewEnds ==
  /\ At({"preview"})
  /\ IF dry THEN End("previewed") ELSE GoOn
  /\ UNCHANGED <<witnessed, vetted>> /\ Unsent

Return ==
  /\ outcome = "running" /\ rest = <<>>
  /\ End("done")
  /\ UNCHANGED <<witnessed, vetted>> /\ Unsent

request == Head(rest).req
Tolerated == Head(rest).do \in {"try", "forbidden"}

writeForbidden == dry /\ Do!Client!IsWrite(request)

noAdminForm ==
  /\ Admin
  /\ Do!Client!IsChat(request)
  /\ request.adminScope = Do!Client!None

Allowed ==
  \A s \in Do!Client!ScopesOf(request, Admin) : Do!Client!Satisfied(s, granted)

(* do: the client refuses a write of a dry run and a method that has no    *)
(* administrator's form before anything is sent.                           *)
Send ==
  /\ At({"ask", "try", "absent", "forbidden"})
  /\ IF writeForbidden THEN End("writeForbidden") /\ UNCHANGED sent
     ELSE IF noAdminForm THEN End("noAdminForm") /\ UNCHANGED sent
     ELSE /\ sent' = sent \cup {Head(rest)}
          /\ \/ (Allowed \/ Tolerated) /\ GoOn
             \/ Head(rest).do = "ask" /\ Allowed /\ End("failed")
             \/ ~Allowed /\ ~Tolerated /\ End("scope")
  /\ UNCHANGED <<settings, tool, dry, confirm, witnessed, vetted>>

Done == outcome \notin {"idle", "running"} /\ UNCHANGED vars

Next ==
  \/ Call \/ Check \/ Compare \/ Vet \/ refuseUnnamedUnderAdmin
  \/ PreviewEnds \/ Return \/ Send \/ Done

Spec == Init /\ [][Next]_vars

-----------------------------------------------------------------------------
Writes == {s \in sent : Do!Client!IsWrite(s.req)}

(* A dry run sends no write, and it never comes to the client's guard: the *)
(* service ends it first, so that it is answered and not refused           *)
(* (service.go Preview, client.go do, the dry runs of every method).       *)
DryRunsOnlyLook == dry => Writes = {} /\ outcome # "writeForbidden"

(* A resource name that is malformed costs no request, so that no other    *)
(* than the one meant is ever asked about; a message to quote is the one   *)
(* name looked at late, after its space was read.  Whatever argument is    *)
(* refused, nothing was written before (names.go, service.go).             *)
BadArgumentsChangeNothing ==
  /\ outcome = "malformed" => sent = {} \/ tool = "send_message"
  /\ outcome \in {"malformed", "invalid"} => Writes = {}

(* A read-only server changes nothing, whatever the token it kept from an  *)
(* earlier login could do (register.go registers).                         *)
ReadOnlyChangesNothing == config.readOnly => Writes = {}

(* Signing in under the settings the server runs with asks for every scope *)
(* a tool it registers needs, on every path of its method, as the account  *)
(* or as an administrator (scopes.go Requested, account.go).               *)
LoginCoversTools == asked = config /\ declined = {} => outcome # "scope"

(* No administrator's tool comes to a request that has no administrator's  *)
(* form: it would fail on every call (client.go do, wrap).                 *)
AdminToolsHaveForms == outcome # "noAdminForm"

(* The names of people and groups are a courtesy: without their scopes a   *)
(* tool that reads, other than the two that search them, still reads       *)
(* (service.go resolvePeople, groups.go resolveGroups).                    *)
ReadsOutliveLookups ==
  asked = config /\ outcome = "scope" /\ Named[tool].kind = "Read"
    => tool \in {"search_people", "find_group"}

OnASpace ==
  {"SendMessage", "UploadAttachment", "AddMember", "UpdateSpace", "DeleteSpace",
   "UpdateSpaceReadState", "UpdateSpaceNotificationSetting", "MoveSectionItem"}

(* A write to a space that exists follows the comparison of the space with *)
(* the name the call gives it (server.go writeInstructions).               *)
WritesAreWitnessed == \A s \in Writes : s.req.name \in OnASpace => witnessed

CannotBeTakenBack(s) ==
  \/ s.effect # "plain"
  \/ s.req.name \in {"DeleteMessage", "RemoveMember", "DeleteSection",
                     "DeleteCustomEmoji", "DeleteSpace"}

(* What cannot be taken back was confirmed by the call, on a server whose  *)
(* destructive tools were turned on: deletes, managers, audiences, and     *)
(* members who may be outsiders (register.go wrap, members.go addMember).  *)
LastingIsConfirmed ==
  \A s \in sent : CannotBeTakenBack(s) =>
    \/ confirm /\ DestructiveRegisters(config)
    \/ s.effect = "outsider" /\ vetted
=============================================================================
