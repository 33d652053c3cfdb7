---------------------------- MODULE Operations ----------------------------
(***************************************************************************)
(* The methods of internal/service, each by the sequences of steps a call  *)
(* of it may take.  A step is a check of the service's own, a request, a   *)
(* comparison with the witness the call repeats, or the point where a dry  *)
(* run ends.  What a sequence leaves to chance is which step fails; what   *)
(* is read decides which sequence is taken.  A listing read over several   *)
(* pages stands for its first page and a later one.  Arguments, answers    *)
(* and the words of a result are left out.                                 *)
(***************************************************************************)
EXTENDS Sequences

Client == INSTANCE ClientMethods

NoRequest == Client!Get("None", "OpenID")

(* What a request does that cannot be taken back, beside deleting: to whom *)
(* a space is opened, and whom it gets as a member or a manager.           *)
Effects == {"plain", "outsider", "manager", "audience"}

Step(do, r, effect) == [do |-> do, req |-> r, effect |-> effect]

(* One step.  "name" and "argument" may refuse what the call gives, "check" *)
(* what was read; "ask" ends it when the request fails; "try" does not;    *)
(* "absent" goes on from an answer that there is no such thing, or already *)
(* one, and "forbidden" from a 403.                                        *)
Own(do)      == {<<Step(do, NoRequest, "plain")>>}
Argument     == Own("argument")
Check        == Own("check")
AskFor(r, e) == {<<Step("ask", r, e)>>}
Ask(r)       == AskFor(r, "plain")
Try(r)       == {<<Step("try", r, "plain")>>}
Absent(r)    == {<<Step("absent", r, "plain")>>}
Forbidden(r) == {<<Step("forbidden", r, "plain")>>}
Witness      == Own("witness")
renderBody   == Own("preview")
Vet(e)       == {<<Step("vet", NoRequest, e)>>}

(* Refuses a conversation without a name to an administrator's tool.       *)
NamedOnly == Own("named")

(* One after the other, and one or the other.                              *)
Nothing == {<<>>}
a ++ b == {p \o q : p \in a, q \in b}
a || b == a \cup b
Opt(a) == Nothing || a
Pages(r) == Ask(r) ++ Opt(Ask(r))

-----------------------------------------------------------------------------
(* names.go: the resource names a call gives; a thread has to be of its    *)
(* space.                                                                  *)
requireShape       == Own("name")
requireSpace       == requireShape
requireMessage     == requireShape
requireThread      == requireShape
requireCustomEmoji == requireShape
requireGroup       == requireShape
requireAudience    == requireShape
requireSection     == requireShape
requireSpaceEvent  == requireShape
requireMembership  == requireShape
requireReaction    == requireShape
requireSectionItem == requireShape
requireAudienceOrPrivate == requireAudience

(* service.go, spacecheck.go: the other arguments.                         *)
requireEmail       == Argument
requireEmails      == Argument
requireEnum        == Argument
requireWindow      == Argument
requireText        == Argument
requireDisplayName == requireText
requireSpaceText   == Argument
requireWitness     == Argument
parseArgTime       == Argument
clampLimit         == Argument
timeBound          == parseArgTime ++ requireWindow

-----------------------------------------------------------------------------
(* service.go, groups.go: whom the caller is, who others are, and deletes. *)
caller        == Opt(Ask(Client!Userinfo) ++ Check)
callerID      == caller
resolvePeople == Opt(Try(Client!GetPeople))

resolveGroups_Mutant == Opt(Ask(Client!GetGroup))
resolveGroups == Opt(Try(Client!GetGroup))

Whoami        == Ask(Client!Userinfo)

confirmGone(r) == Ask(r)
deleteIdempotent(r, confirm) == Ask(r) || (Forbidden(r) ++ confirm)
Unconfirmed == Check

FindGroup == requireEmail ++ Ask(Client!LookupGroup) ++ Check ++ resolveGroups

-----------------------------------------------------------------------------
(* members.go: reading.                                                    *)
expandGroup  == Try(Client!ListGroupMembers)
expandGroups == Opt(expandGroup ++ Opt(expandGroup))

ListMembers ==
  requireSpace ++ clampLimit ++ Ask(Client!ListMembers)
    ++ resolvePeople ++ resolveGroups ++ expandGroups

GetMember == requireMembership ++ Ask(Client!GetMembership) ++ resolveGroups ++ resolvePeople

(* spacecheck.go: the space a write names by what it is called.            *)
memberPage == Ask(Client!ListMembers) ++ resolvePeople ++ resolveGroups

checkDirectMessage == requireEmail ++ Ask(Client!FindDirectMessage) ++ Witness
checkMembers == callerID ++ memberPage ++ Opt(memberPage) ++ Witness

checkName == Witness
checkWitness ==
  (Opt(NamedOnly) ++ (checkName || checkMembers)) || (NamedOnly ++ checkDirectMessage)

checkedSpace == requireWitness ++ Ask(Client!GetSpace) ++ checkWitness
checkSpace   == checkedSpace

-----------------------------------------------------------------------------
(* messages.go                                                             *)
enrich      == resolvePeople

GetMessages ==
  requireSpace ++ clampLimit ++ parseArgTime ++ requireWindow ++ Ask(Client!ListMessages) ++ enrich

GetThread  == requireSpace ++ requireThread ++ clampLimit ++ Ask(Client!ListMessages) ++ enrich
GetMessage == requireMessage ++ Ask(Client!GetMessage) ++ enrich ++ Check

quote == Opt(requireMessage ++ Ask(Client!GetMessage) ++ Check)
everyoneRefused == Check

post == Ask(Client!SendMessage) || (Absent(Client!SendMessage) ++ Ask(Client!GetMessage))

SendMessage ==
  requireSpace ++ requireText ++ everyoneRefused ++ Argument ++ requireThread
    ++ checkSpace ++ quote ++ renderBody ++ post

refuseNewEveryone == Opt(Ask(Client!GetMessage) ++ everyoneRefused)

UpdateMessage_Mutant ==
  requireMessage ++ requireText ++ refuseNewEveryone ++ Ask(Client!UpdateMessage)

UpdateMessage ==
  requireMessage ++ requireText ++ refuseNewEveryone ++ renderBody ++ Ask(Client!UpdateMessage)

checkText == Witness

deleteMessage(confirm, alreadyDeleted) ==
  requireMessage ++
    (Absent(Client!GetMessage)
       || (Ask(Client!GetMessage) ++ Argument ++
               (alreadyDeleted || (checkText ++ renderBody ++
                  deleteIdempotent(Client!DeleteMessage, confirm)))))

DeleteMessage == deleteMessage(confirmGone(Client!GetMessage), Nothing)

(* The first message of a thread may be a tombstone: its replies are left. *)
DeleteThread ==
  deleteMessage(Unconfirmed, renderBody ++ deleteIdempotent(Client!DeleteMessage, Unconfirmed))

-----------------------------------------------------------------------------
(* search.go                                                               *)
withSenders == Nothing
searchTerm  == Argument

scanSpace ==
  requireSpace ++ searchTerm ++ clampLimit ++ parseArgTime ++ requireWindow
    ++ Pages(Client!ListMessages)

searchFilter ==
  requireSpace ++ Argument ++ parseArgTime ++ requireWindow ++ requireEmail ++ callerID
    ++ requireEnum ++ Argument

searchUpstream ==
  UNION {clampLimit ++ searchFilter ++ Ask(Client!SearchMessages(unread, bySpace)) :
           unread, bySpace \in BOOLEAN}

SearchMessages == Argument ++ (scanSpace || searchUpstream) ++ withSenders

-----------------------------------------------------------------------------
(* spaces.go                                                               *)
searchSpacesQuery == requireEnum ++ Argument ++ timeBound ++ requireEnum

ListSpaces     == clampLimit ++ requireEnum ++ Ask(Client!ListSpaces)
SearchSpaces   == clampLimit ++ searchSpacesQuery ++ Ask(Client!SearchSpaces)
FindGroupChats == requireEmails ++ clampLimit ++ Ask(Client!FindGroupChats)
GetSpace       == requireSpace ++ Ask(Client!GetSpace)

FindDirectMessage ==
  requireEmail ++ (Ask(Client!FindDirectMessage)
                     || (Absent(Client!FindDirectMessage) ++ Ask(Client!SetupSpace)))

(* Opening a space to an audience is left to set_space_audience.           *)
audienceRefused == Check

setupSpace      == renderBody ++ Ask(Client!SetupSpace)
CreateGroupChat == Argument ++ requireEmails ++ setupSpace

CreateSpace ==
  requireDisplayName ++ requireSpaceText ++ requireEmails ++ requireAudienceOrPrivate
    ++ audienceRefused ++ setupSpace

sendSpacePatch(effect) == renderBody ++ AskFor(Client!UpdateSpace, effect)
patchSpace(effect)     == sendSpacePatch(effect)

makePrivate ==
  Argument ++ requireAudienceOrPrivate ++ audienceRefused ++ checkSpace ++ patchSpace("plain")

UpdateSpace ==
  requireSpace ++
    (makePrivate || (Argument ++ requireDisplayName ++ requireSpaceText
                         ++ checkedSpace ++ patchSpace("plain")))

(* Who may reply changes only where members cannot post.                   *)
UpdateSpacePermissions ==
  requireSpace ++ requireEnum ++ Argument ++ checkedSpace ++ Argument ++ sendSpacePatch("plain")

SetSpaceAudience ==
  requireSpace ++ requireAudienceOrPrivate ++ Argument ++ Ask(Client!GetSpace) ++ checkName
    ++ patchSpace("audience")

-----------------------------------------------------------------------------
(* members.go: writing.                                                    *)
requireRole == requireEnum

updateMemberRole(promote) ==
  requireMembership ++ requireRole ++ Check ++ renderBody
    ++ AskFor(Client!UpdateMemberRole, IF promote THEN "manager" ELSE "plain")

UpdateMemberRole == updateMemberRole(FALSE)
PromoteMember    == updateMemberRole(TRUE)

admitsOutsiders  == Ask(Client!GetSpace)
directoryMembers == Ask(Client!SearchDirectoryPeople)
outsiderRefused  == Check

(* After them the person or the group added brings nobody from outside in. *)
refuseOutsider_Mutant == requireEmail ++ Opt(admitsOutsiders)

refuseOutsider ==
  admitsOutsiders ++ (Nothing || (directoryMembers ++ outsiderRefused)) ++ Vet("outsider")

refuseGroup == admitsOutsiders ++ Check ++ Vet("outsider")
checkGroup  == Argument ++ requireEmail ++ Ask(Client!GetGroup) ++ Witness

addPerson(outside) ==
  requireEmail ++ (IF outside THEN Nothing ELSE refuseOutsider)

addGroup(outside) ==
  requireGroup ++ (IF outside THEN checkGroup ELSE refuseGroup)

invite == checkSpace ++ renderBody ++ AskFor(Client!AddMember, "outsider")

addMember(outside) ==
  requireSpace ++ Argument ++ (addPerson(outside) || addGroup(outside)) ++ invite

AddMember         == addMember(FALSE)
AddExternalMember == addMember(TRUE)

selfRefused     == Check
vetAdminInvitee == caller ++ selfRefused ++ directoryMembers ++ selfRefused ++ outsiderRefused

(* addMember's own checks of the name and the address hold by then.        *)
AdminAddMember ==
  Check ++ requireSpace ++ requireWitness ++ requireEmail ++ vetAdminInvitee ++ invite

RemoveMember ==
  requireMembership ++ renderBody
    ++ deleteIdempotent(Client!RemoveMember, confirmGone(Client!GetMembership))

-----------------------------------------------------------------------------
(* sections.go                                                             *)
ListSections     == Ask(Client!ListSections)
ListSectionItems == requireSection ++ requireSpace ++ clampLimit ++ Ask(Client!ListSectionItems)
CreateSection    == requireDisplayName ++ renderBody ++ Ask(Client!CreateSection)
RenameSection    == requireSection ++ requireDisplayName ++ renderBody ++ Ask(Client!RenameSection)
DeleteSection    == requireSection ++ renderBody ++ deleteIdempotent(Client!DeleteSection, Unconfirmed)
PositionSection  == requireSection ++ Argument ++ requireEnum ++ renderBody ++ Ask(Client!PositionSection)

locateSectionItem == Ask(Client!ListSectionItems) ++ Check

MoveSpaceToSection_Mutant ==
  requireSpace ++ (locateSectionItem || requireSectionItem) ++ checkSpace
    ++ requireSection ++ renderBody ++ Opt(Ask(Client!MoveSectionItem))

MoveSpaceToSection ==
  requireSpace ++ requireSection ++ (locateSectionItem || requireSectionItem) ++ checkSpace
    ++ renderBody ++ Opt(Ask(Client!MoveSectionItem))

-----------------------------------------------------------------------------
(* reactions.go                                                            *)
requireEmoji     == Argument
ListReactions    == requireMessage ++ clampLimit ++ Ask(Client!ListReactions) ++ resolvePeople
existingReaction == callerID ++ Ask(Client!ListReactions) ++ Check

AddReaction ==
  requireMessage ++ requireEmoji ++
    (Ask(Client!AddReaction) || (Absent(Client!AddReaction) ++ existingReaction))

removeReactionByPerson ==
  requireMessage ++ requireEmoji ++ requireEmail ++ Ask(Client!ListReactions) ++ resolvePeople
    ++ Check ++ Opt(Ask(Client!DeleteReaction))

RemoveReaction ==
  Argument ++ ((requireReaction ++ Ask(Client!DeleteReaction)) || removeReactionByPerson)

-----------------------------------------------------------------------------
(* spacestate.go                                                           *)
ListPins           == requireSpace ++ clampLimit ++ Ask(Client!ListPins)
PinMessage         == requireMessage ++ renderBody ++ Ask(Client!PinMessage)
UnpinMessage       == requireMessage ++ renderBody ++ deleteIdempotent(Client!UnpinMessage, Unconfirmed)
GetSpaceReadState  == requireSpace ++ Ask(Client!GetSpaceReadState)
GetThreadReadState == requireSpace ++ requireThread ++ Ask(Client!GetThreadReadState)
setReadState       == requireSpace ++ checkSpace ++ renderBody ++ Ask(Client!UpdateSpaceReadState)
MarkSpaceRead      == setReadState
MarkSpaceUnread    == parseArgTime ++ Argument ++ setReadState
GetSpaceNotificationSetting == requireSpace ++ Ask(Client!GetSpaceNotificationSetting)

UpdateSpaceNotificationSetting ==
  requireSpace ++ requireEnum ++ Argument ++ checkSpace ++ renderBody
    ++ Ask(Client!UpdateSpaceNotificationSetting)

-----------------------------------------------------------------------------
(* localfiles.go: the directory, a file to read and a file to write.       *)
files  == Check
within == Check
Open   == Argument ++ within ++ Argument
Create == Check

-----------------------------------------------------------------------------
(* presence.go                                                             *)
GetAvailability  == Ask(Client!GetAvailability)
doNotDisturbBody == Argument ++ parseArgTime ++ requireWindow
customStatusBody == Argument ++ parseArgTime ++ requireWindow

SetAvailability ==
  requireEnum ++ doNotDisturbBody ++ renderBody ++
    (Ask(Client!MarkActive) || Ask(Client!MarkAway) || Ask(Client!MarkDoNotDisturb))

SetCustomStatus   == customStatusBody ++ renderBody ++ Ask(Client!SetCustomStatus)
ListCustomEmojis  == clampLimit ++ Ask(Client!ListCustomEmojis)
GetCustomEmoji    == requireCustomEmoji ++ Ask(Client!GetCustomEmoji)

CreateCustomEmoji ==
  Argument ++ files ++ Open ++ Argument ++ renderBody ++ Ask(Client!CreateCustomEmoji)

DeleteCustomEmoji ==
  requireCustomEmoji ++
    (Absent(Client!GetCustomEmoji)
       || (Ask(Client!GetCustomEmoji) ++ checkName ++ renderBody ++
               deleteIdempotent(Client!DeleteCustomEmoji, Unconfirmed)))

DeleteSpace ==
  requireSpace ++
    (Absent(Client!GetSpace)
       || (Ask(Client!GetSpace) ++ Opt(NamedOnly) ++ checkName ++ renderBody ++
               deleteIdempotent(Client!DeleteSpace, Unconfirmed)))

-----------------------------------------------------------------------------
(* people.go, events.go, attachments.go                                    *)
searchOneSource == {Client!SearchContacts, Client!SearchDirectoryPeople}
narrowSources   == requireEnum

(* The sources are asked at once; the call fails when none answered.       *)
SearchPeople ==
  Argument ++ clampLimit ++ narrowSources ++
    UNION {Ask(r) || UNION {(Try(s) ++ Ask(r)) || (Ask(r) ++ Try(s)) :
                                s \in searchOneSource \ {r}} : r \in searchOneSource}

eventTypes == Argument
eventTime  == parseArgTime ++ Argument

ListSpaceEvents ==
  UNION {requireSpace ++ eventTypes ++ eventTime ++ clampLimit ++ Ask(Client!ListSpaceEvents(scopes)) :
           scopes \in SUBSET Client!EventScopes \ {{}}}

GetSpaceEvent == requireSpaceEvent ++ Ask(Client!GetSpaceEvent) ++ Check

pickAttachment == Check ++ Argument
writeStream    == Check

DownloadAttachment ==
  files ++ requireMessage ++ Ask(Client!GetMessage) ++ pickAttachment ++ Create
    ++ Ask(Client!DownloadMedia) ++ writeStream

UploadAttachment_Mutant ==
  requireSpace ++ files ++ Open ++ Argument ++ renderBody ++ Ask(Client!UploadAttachment) ++ Check

UploadAttachment ==
  requireSpace ++ files ++ Open ++ Argument ++ checkSpace ++ renderBody
    ++ Ask(Client!UploadAttachment) ++ Check
=============================================================================
