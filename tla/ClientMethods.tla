--------------------------- MODULE ClientMethods ---------------------------
(***************************************************************************)
(* The methods of internal/gchat, each by the request it builds: method,   *)
(* API, the scopes it needs, the scope of its administrator's form, and    *)
(* the flags RequestPolicy reads.  Names, queries and bodies are left out. *)
(***************************************************************************)
EXTENDS RequestPolicy, Scopes

(* asAdmin: a request with no adminScope has no administrator's form.      *)
None == "none"

Request(name, method, api, scope) ==
  [name |-> name, method |-> method, api |-> api, scopes |-> {scope},
   adminScope |-> None, readOnly |-> FALSE, idempotent |-> FALSE,
   repeatHarmless |-> FALSE, streamed |-> FALSE]

Get(name, scope)    == Request(name, "GET", "chat", scope)
Post(name, scope)   == Request(name, "POST", "chat", scope)
Patch(name, scope)  == Request(name, "PATCH", "chat", scope)
Delete(name, scope) == Request(name, "DELETE", "chat", scope)

OrAdmin(r, scope) == [r EXCEPT !.adminScope = scope]

(* What RequestPolicy reads of it.                                         *)
Policy(r) ==
  [method |-> r.method, api |-> r.api, readOnly |-> r.readOnly,
   idempotent |-> r.idempotent, repeatHarmless |-> r.repeatHarmless,
   adminForm |-> r.adminScope # None, streamed |-> r.streamed]

(* The scopes a call of it needs, as an administrator's call or not.       *)
AsAdmin(r) == IF IsChat(r) THEN {r.adminScope} ELSE r.scopes
ScopesOf(r, admin) == IF admin THEN AsAdmin(r) ELSE r.scopes

-----------------------------------------------------------------------------
(* messages.go                                                             *)
ListMessages  == Get("ListMessages", "MessagesReadonly")
GetMessage    == Get("GetMessage", "MessagesReadonly")
SendMessage   == [Post("SendMessage", "MessagesCreate") EXCEPT !.idempotent = TRUE]
UpdateMessage == Patch("UpdateMessage", "Messages")
DeleteMessage == Delete("DeleteMessage", "Messages")

SearchMessages(unread, bySpace) ==
  [Post("SearchMessages", "MessagesReadonly") EXCEPT
     !.readOnly = TRUE,
     !.scopes = @ \cup (IF unread THEN {"ReadStateReadonly"} ELSE {})
                  \cup (IF bySpace THEN {"SpacesReadonly"} ELSE {})]

(* media.go                                                                *)
DownloadMedia == Get("DownloadMedia", "MessagesReadonly")
UploadAttachment ==
  [Request("UploadAttachment", "POST", "upload", "MessagesCreate") EXCEPT
     !.repeatHarmless = TRUE, !.streamed = TRUE]

(* members.go                                                              *)
ListMembers == OrAdmin(Get("ListMembers", "MembershipsReadonly"), "AdminMembershipsReadonly")
GetMembership == OrAdmin(Get("GetMembership", "MembershipsReadonly"), "AdminMembershipsReadonly")
UpdateMemberRole == OrAdmin(Patch("UpdateMemberRole", "Memberships"), "AdminMemberships")
AddMember == OrAdmin(Post("AddMember", "Memberships"), "AdminMemberships")
RemoveMember == OrAdmin(Delete("RemoveMember", "Memberships"), "AdminMemberships")

(* spaces.go                                                               *)
Userinfo   == Request("Userinfo", "GET", "oidc", "Email")
ListSpaces == Get("ListSpaces", "SpacesReadonly")

GetSpace_Mutant == Get("GetSpace", "SpacesReadonly")
GetSpace == OrAdmin(Get("GetSpace", "SpacesReadonly"), "AdminSpacesReadonly")

FindDirectMessage == Get("FindDirectMessage", "SpacesReadonly")
SearchSpaces == OrAdmin(Get("SearchSpaces", "SpacesReadonly"), "AdminSpacesReadonly")
FindGroupChats == Get("FindGroupChats", "MembershipsReadonly")
SetupSpace  == Post("SetupSpace", "SpacesCreate")
UpdateSpace == OrAdmin(Patch("UpdateSpace", "Spaces"), "AdminSpaces")
DeleteSpace == OrAdmin(Delete("DeleteSpace", "Delete"), "AdminDelete")

(* sections.go                                                             *)
ListSections     == Get("ListSections", "UserSectionsReadonly")
ListSectionItems == Get("ListSectionItems", "UserSectionsReadonly")
CreateSection    == Post("CreateSection", "UserSections")
RenameSection    == Patch("RenameSection", "UserSections")
DeleteSection    == Delete("DeleteSection", "UserSections")
PositionSection  == Post("PositionSection", "UserSections")
MoveSectionItem  == Post("MoveSectionItem", "UserSections")

(* reactions.go                                                            *)
ListReactions  == Get("ListReactions", "MessagesReadonly")
AddReaction    == Post("AddReaction", "MessagesReactions")
DeleteReaction == Delete("DeleteReaction", "MessagesReactions")

(* spacestate.go                                                           *)
ListPins             == Get("ListPins", "PinsReadonly")
PinMessage           == Post("PinMessage", "Pins")
UnpinMessage         == Delete("UnpinMessage", "Pins")
GetSpaceReadState    == Get("GetSpaceReadState", "ReadStateReadonly")
GetThreadReadState   == Get("GetThreadReadState", "ReadStateReadonly")
UpdateSpaceReadState == Patch("UpdateSpaceReadState", "ReadState")
GetSpaceNotificationSetting == Get("GetSpaceNotificationSetting", "SpaceSettings")
UpdateSpaceNotificationSetting == Patch("UpdateSpaceNotificationSetting", "SpaceSettings")

(* presence.go                                                             *)
GetAvailability   == Get("GetAvailability", "AvailabilityReadonly")
Mark(name)        == Post(name, "Availability")
MarkActive        == Mark("MarkActive")
MarkAway          == Mark("MarkAway")
MarkDoNotDisturb  == Mark("MarkDoNotDisturb")
SetCustomStatus   == Patch("SetCustomStatus", "Availability")
ListCustomEmojis  == Get("ListCustomEmojis", "CustomEmojisReadonly")
GetCustomEmoji    == Get("GetCustomEmoji", "CustomEmojisReadonly")
CreateCustomEmoji == Post("CreateCustomEmoji", "CustomEmojis")
DeleteCustomEmoji == Delete("DeleteCustomEmoji", "CustomEmojis")

(* people.go, groups.go                                                    *)
GetPerson == Request("GetPerson", "GET", "people", "DirectoryReadonly")
GetPeople == Request("GetPeople", "GET", "people", "DirectoryReadonly")
SearchDirectoryPeople == Request("SearchDirectoryPeople", "GET", "people", "DirectoryReadonly")
SearchContacts == Request("SearchContacts", "GET", "people", "ContactsReadonly")
LookupGroup == Request("LookupGroup", "GET", "identity", "GroupsReadonly")
GetGroup    == Request("GetGroup", "GET", "identity", "GroupsReadonly")
ListGroupMembers == Request("ListGroupMembers", "GET", "identity", "GroupsReadonly")

(* events.go                                                               *)
EventScopes == {"MessagesReadonly", "MembershipsReadonly", "SpacesReadonly"}
ListSpaceEvents(scopes) == [Get("ListSpaceEvents", "SpacesReadonly") EXCEPT !.scopes = scopes]
GetSpaceEvent == Get("GetSpaceEvent", "SpacesReadonly")

-----------------------------------------------------------------------------
ClientRequests ==
  {ListMessages, GetMessage, SendMessage, UpdateMessage, DeleteMessage,
   DownloadMedia, UploadAttachment, ListMembers, GetMembership, UpdateMemberRole,
   AddMember, RemoveMember, Userinfo, ListSpaces, GetSpace, FindDirectMessage,
   SearchSpaces, FindGroupChats, SetupSpace, UpdateSpace, DeleteSpace,
   ListSections, ListSectionItems, CreateSection, RenameSection, DeleteSection,
   PositionSection, MoveSectionItem, ListReactions, AddReaction, DeleteReaction,
   ListPins, PinMessage, UnpinMessage, GetSpaceReadState, GetThreadReadState,
   UpdateSpaceReadState, GetSpaceNotificationSetting,
   UpdateSpaceNotificationSetting, GetAvailability, MarkActive, MarkAway,
   MarkDoNotDisturb, SetCustomStatus, ListCustomEmojis, GetCustomEmoji,
   CreateCustomEmoji, DeleteCustomEmoji, GetPerson, GetPeople,
   SearchDirectoryPeople, SearchContacts, LookupGroup, GetGroup,
   ListGroupMembers, GetSpaceEvent}
    \cup {SearchMessages(u, b) : u, b \in BOOLEAN}
    \cup {ListSpaceEvents(s) : s \in (SUBSET EventScopes) \ {{}}}
=============================================================================
