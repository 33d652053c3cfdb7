------------------------------ MODULE Scopes ------------------------------
(***************************************************************************)
(* The OAuth scopes the server asks for and what they cover                *)
(* (internal/scopes).  A scope is named as its Go constant is.             *)
(***************************************************************************)

Identity == {"OpenID", "Email", "Profile"}

(* The scopes whose URL does not end in .readonly, the identity ones apart.*)
WriteScopes ==
  {"MessagesCreate", "MessagesReactions", "Messages", "SpacesCreate", "Spaces",
   "Memberships", "UserSections", "Delete", "Pins", "CustomEmojis", "ReadState",
   "SpaceSettings", "Availability"}

All ==
  Identity \cup WriteScopes \cup
  {"MessagesReadonly", "SpacesReadonly", "MembershipsReadonly",
   "UserSectionsReadonly", "PinsReadonly", "CustomEmojisReadonly",
   "ReadStateReadonly", "AvailabilityReadonly", "DirectoryReadonly",
   "ContactsReadonly", "GroupsReadonly"}

AdminWriteScopes == {"AdminSpaces", "AdminMemberships", "AdminDelete"}

AdminScopes == AdminWriteScopes \cup {"AdminSpacesReadonly", "AdminMembershipsReadonly"}

(* <<wider, narrower>>: a grant of the first serves a call that needs the  *)
(* second.  Delete and AdminDelete imply nothing and nothing implies them. *)
implies ==
  {<<"Messages", "MessagesReadonly">>, <<"Messages", "MessagesCreate">>,
   <<"Messages", "MessagesReactions">>, <<"Spaces", "SpacesReadonly">>,
   <<"Spaces", "SpacesCreate">>, <<"Spaces", "PinsReadonly">>, <<"Spaces", "Pins">>,
   <<"Memberships", "MembershipsReadonly">>, <<"UserSections", "UserSectionsReadonly">>,
   <<"Pins", "PinsReadonly">>, <<"CustomEmojis", "CustomEmojisReadonly">>,
   <<"ReadState", "ReadStateReadonly">>, <<"Availability", "AvailabilityReadonly">>,
   <<"SpacesReadonly", "PinsReadonly">>, <<"AdminSpaces", "AdminSpacesReadonly">>,
   <<"AdminMemberships", "AdminMembershipsReadonly">>}

Satisfied(required, granted) ==
  \/ required \in granted
  \/ \E g \in granted : <<g, required>> \in implies

CanWrite(scope) == scope \in WriteScopes \cup AdminWriteScopes

Requested_Mutant(admin, readOnly, destructive) ==
  LET admins == IF admin THEN AdminScopes \ {"AdminDelete"} ELSE {} IN
  {s \in All \cup admins : readOnly => ~CanWrite(s)}

(* What login asks Google for, under the settings of the server.           *)
Requested(admin, readOnly, destructive) ==
  LET admins == IF admin
                THEN {s \in AdminScopes : s = "AdminDelete" => destructive} ELSE {}
  IN {s \in All \cup admins : readOnly => ~CanWrite(s)}

Missing(granted, requested) == {s \in requested : ~Satisfied(s, granted)}
=============================================================================
