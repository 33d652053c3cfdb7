------------------------------- MODULE Tools -------------------------------
(***************************************************************************)
(* The tools internal/tools registers, each by what its spec and its input *)
(* say: the kind, the toolset, whether dry_run is an input and whether a   *)
(* read needs a scope that writes, with the service method its handler     *)
(* calls.  confirm is an input of the Destructive tools and of no other,   *)
(* and a name that begins with admin_ runs as an administrator: register   *)
(* panics on a tool that says otherwise.                                   *)
(***************************************************************************)
EXTENDS FiniteSets, Sequences

Do == INSTANCE Operations

Kinds == {"Read", "ReadWritesLocally", "Write", "WriteIdempotent", "Adding",
          "AddingIdempotent", "Destructive"}

Tool(name, kind, toolset, dryRun, operation) ==
  [name |-> name, kind |-> kind, toolset |-> toolset, dryRun |-> dryRun,
   writeScope |-> FALSE, operation |-> operation]

Reading(name, toolset, operation) == Tool(name, "Read", toolset, FALSE, operation)

TakesConfirm(t) == t.kind = "Destructive"
ForAdministrators(t) == t.toolset = "Admin"
-----------------------------------------------------------------------------
(* admin.go *)
admin_search_spaces == Reading("admin_search_spaces", "Admin", Do!SearchSpaces)
admin_get_space == Reading("admin_get_space", "Admin", Do!GetSpace)
admin_list_members == Reading("admin_list_members", "Admin", Do!ListMembers)
admin_get_member == Reading("admin_get_member", "Admin", Do!GetMember)
admin_update_space == Tool("admin_update_space", "Write", "Admin", TRUE, Do!UpdateSpace)
admin_update_space_permissions ==
  Tool("admin_update_space_permissions", "Destructive", "Admin", TRUE, Do!UpdateSpacePermissions)
admin_update_member_role ==
  Tool("admin_update_member_role", "Write", "Admin", TRUE, Do!UpdateMemberRole)
admin_promote_member == Tool("admin_promote_member", "Destructive", "Admin", TRUE, Do!PromoteMember)
admin_remove_member == Tool("admin_remove_member", "Destructive", "Admin", TRUE, Do!RemoveMember)
admin_add_member == Tool("admin_add_member", "Destructive", "Admin", TRUE, Do!AdminAddMember)
admin_delete_space == Tool("admin_delete_space", "Destructive", "Admin", TRUE, Do!DeleteSpace)

(* attachments.go *)
download_attachment ==
  Tool("download_attachment", "ReadWritesLocally", "Core", FALSE, Do!DownloadAttachment)
upload_attachment == Tool("upload_attachment", "Adding", "Core", TRUE, Do!UploadAttachment)

(* events.go *)
list_space_events == Reading("list_space_events", "Events", Do!ListSpaceEvents)
get_space_event == Reading("get_space_event", "Events", Do!GetSpaceEvent)

(* members.go *)
list_members == Reading("list_members", "Core", Do!ListMembers)
add_member == Tool("add_member", "Adding", "Core", TRUE, Do!AddMember)
add_external_member ==
  Tool("add_external_member", "Destructive", "Core", TRUE, Do!AddExternalMember)
get_member == Reading("get_member", "Core", Do!GetMember)
update_member_role == Tool("update_member_role", "Write", "Core", TRUE, Do!UpdateMemberRole)
promote_member == Tool("promote_member", "Destructive", "Core", TRUE, Do!PromoteMember)
remove_member == Tool("remove_member", "Destructive", "Core", TRUE, Do!RemoveMember)

(* messages.go *)
get_messages == Reading("get_messages", "Core", Do!GetMessages)
get_thread == Reading("get_thread", "Core", Do!GetThread)
get_message == Reading("get_message", "Core", Do!GetMessage)
search_messages == Reading("search_messages", "Core", Do!SearchMessages)
send_message == Tool("send_message", "Adding", "Core", TRUE, Do!SendMessage)
update_message == Tool("update_message", "Write", "Core", TRUE, Do!UpdateMessage)
delete_message == Tool("delete_message", "Destructive", "Core", TRUE, Do!DeleteMessage)
delete_thread == Tool("delete_thread", "Destructive", "Core", TRUE, Do!DeleteThread)

(* people.go *)
find_group == Reading("find_group", "Core", Do!FindGroup)
search_people == Reading("search_people", "Core", Do!SearchPeople)

(* presence.go *)
get_availability == Reading("get_availability", "Availability", Do!GetAvailability)
set_availability == Tool("set_availability", "Write", "Availability", TRUE, Do!SetAvailability)
set_custom_status == Tool("set_custom_status", "Write", "Availability", TRUE, Do!SetCustomStatus)
list_custom_emojis == Reading("list_custom_emojis", "Emoji", Do!ListCustomEmojis)
get_custom_emoji == Reading("get_custom_emoji", "Emoji", Do!GetCustomEmoji)
create_custom_emoji == Tool("create_custom_emoji", "Adding", "Emoji", TRUE, Do!CreateCustomEmoji)
delete_custom_emoji ==
  Tool("delete_custom_emoji", "Destructive", "Emoji", TRUE, Do!DeleteCustomEmoji)
delete_space == Tool("delete_space", "Destructive", "Core", TRUE, Do!DeleteSpace)

(* reactions.go *)
list_reactions == Reading("list_reactions", "Core", Do!ListReactions)
add_reaction == Tool("add_reaction", "AddingIdempotent", "Core", FALSE, Do!AddReaction)
remove_reaction == Tool("remove_reaction", "WriteIdempotent", "Core", FALSE, Do!RemoveReaction)

(* sections.go *)
list_sections == Reading("list_sections", "Sections", Do!ListSections)
list_section_items == Reading("list_section_items", "Sections", Do!ListSectionItems)
create_section == Tool("create_section", "Adding", "Sections", TRUE, Do!CreateSection)
rename_section == Tool("rename_section", "WriteIdempotent", "Sections", TRUE, Do!RenameSection)
delete_section == Tool("delete_section", "Destructive", "Sections", TRUE, Do!DeleteSection)
position_section ==
  Tool("position_section", "WriteIdempotent", "Sections", TRUE, Do!PositionSection)
move_space_to_section ==
  Tool("move_space_to_section", "WriteIdempotent", "Sections", TRUE, Do!MoveSpaceToSection)

(* spaces.go *)
get_space == Reading("get_space", "Core", Do!GetSpace)
whoami == Reading("whoami", "Core", Do!Whoami)
list_spaces == Reading("list_spaces", "Core", Do!ListSpaces)
search_spaces == Reading("search_spaces", "Core", Do!SearchSpaces)
find_group_chats == Reading("find_group_chats", "Core", Do!FindGroupChats)
find_direct_message ==
  Tool("find_direct_message", "AddingIdempotent", "Core", FALSE, Do!FindDirectMessage)
create_group_chat == Tool("create_group_chat", "Adding", "Core", TRUE, Do!CreateGroupChat)
create_space == Tool("create_space", "Adding", "Core", TRUE, Do!CreateSpace)
update_space == Tool("update_space", "Write", "Core", TRUE, Do!UpdateSpace)
set_space_audience == Tool("set_space_audience", "Destructive", "Core", TRUE, Do!SetSpaceAudience)

(* spacestate.go *)
list_pinned_messages == Reading("list_pinned_messages", "Pins", Do!ListPins)
pin_message == Tool("pin_message", "Adding", "Pins", TRUE, Do!PinMessage)
unpin_message == Tool("unpin_message", "WriteIdempotent", "Pins", TRUE, Do!UnpinMessage)
get_space_read_state == Reading("get_space_read_state", "ReadState", Do!GetSpaceReadState)
get_thread_read_state == Reading("get_thread_read_state", "ReadState", Do!GetThreadReadState)
mark_space_read == Tool("mark_space_read", "Write", "ReadState", TRUE, Do!MarkSpaceRead)
mark_space_unread == Tool("mark_space_unread", "Write", "ReadState", TRUE, Do!MarkSpaceUnread)
get_space_notification_setting ==
  [Reading("get_space_notification_setting", "Settings", Do!GetSpaceNotificationSetting) EXCEPT !.writeScope = TRUE]
update_space_notification_setting ==
  Tool("update_space_notification_setting", "Write", "Settings", TRUE, Do!UpdateSpaceNotificationSetting)

(* resources.go: what a client attaches whole is read by the method of the *)
(* tool, and is there under every setting.  A URI that names no resource   *)
(* is refused before the method is called.                                 *)
resourceParts(operation) == {<<Do!Step("name", Do!NoRequest, "plain")>> \o p : p \in operation}
space_resource   == Reading("gchat://spaces", "Core", resourceParts(Do!GetSpace))
message_resource == Reading("gchat://messages", "Core", resourceParts(Do!GetMessage))
thread_resource  == Reading("gchat://threads", "Core", resourceParts(Do!GetThread))

-----------------------------------------------------------------------------
Tools ==
  {admin_search_spaces, admin_get_space, admin_list_members,
   admin_get_member, admin_update_space, admin_update_space_permissions,
   admin_update_member_role, admin_promote_member, admin_remove_member,
   admin_add_member, admin_delete_space, download_attachment,
   upload_attachment, list_space_events, get_space_event, list_members,
   add_member, add_external_member, get_member, update_member_role,
   promote_member, remove_member, get_messages, get_thread, get_message,
   search_messages, send_message, update_message, delete_message,
   delete_thread, find_group, search_people, get_availability,
   set_availability, set_custom_status, list_custom_emojis, get_custom_emoji,
   create_custom_emoji, delete_custom_emoji, delete_space, list_reactions,
   add_reaction, remove_reaction, list_sections, list_section_items,
   create_section, rename_section, delete_section, position_section,
   move_space_to_section, get_space, whoami, list_spaces, search_spaces,
   find_group_chats, find_direct_message, create_group_chat, create_space,
   update_space, set_space_audience, list_pinned_messages, pin_message,
   unpin_message, get_space_read_state, get_thread_read_state,
   mark_space_read, mark_space_unread, get_space_notification_setting,
   update_space_notification_setting,
   space_resource, message_resource, thread_resource}
=============================================================================
