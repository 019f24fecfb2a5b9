------------------------------- MODULE ToolRows -------------------------------
(***************************************************************************)
(* The MCP tools (mcp.rs). Every handler has the same frame: charge the    *)
(* rate limiter, run a body that stops at its first error, look at the     *)
(* result for an expired token, audit it, and (the write tools) post a     *)
(* notice. What differs is the body, so a handler is given here as the     *)
(* set of its paths: its limiter category, the steps of its body in source *)
(* order, and whether it posts a notice. Branches that the arguments       *)
(* choose are different paths. The module Tools executes them.             *)
(*                                                                         *)
(* Steps that wait for nobody and can only refuse the call:                *)
(*   args    an argument, or what a fetched event says, is refused         *)
(*   room    the room id does not parse or get_room does not know it       *)
(*   member  the room is not in the membership state the tool needs        *)
(* Steps that wait:                                                        *)
(*   client  client_for                                                    *)
(*   store   a read of the SDK's local store                               *)
(*   fetch   a read from the homeserver                                    *)
(*   try     a read from the homeserver whose error the handler ignores    *)
(*   web     a request to another server (a URL to attach, the TTS engine) *)
(*   upload  a media upload: it stays at the homeserver whatever follows   *)
(*   send    the write itself                                              *)
(*   enable  a further write whose error the handler ignores               *)
(*   pin, unpin, setpins   read the pinned events, change the list, write  *)
(*   bulk, broadcast       a message into each of several rooms            *)
(*   gate    a permit of the key backup gate                               *)
(***************************************************************************)
EXTENDS Sequences

Read(s)   == [cat |-> "read",  steps |-> s, notice |-> FALSE]
Write(s)  == [cat |-> "write", steps |-> s, notice |-> TRUE]

-----------------------------------------------------------------------------
(* Read tools *)

\* The identity is in the request: nothing is asked of anybody.
whoami == { Read(<<>>) }

\* What the SDK has in memory: no step after client can fail.
list_joined_rooms    == { Read(<<"client">>) }
get_unread_summary   == { Read(<<"client">>) }
list_recent_activity == { Read(<<"client">>) }
invites_list         == { Read(<<"client">>) }

\* The page that comes back may start a key backup pull (KeyBackupGate).
read_recent_messages == { Read(<<"client", "room", "fetch">>) }
read_thread          == { Read(<<"client", "room", "member", "args", "fetch">>) }

\* Pages of relations until enough reactions are collected or none is left (at
\* most two pages here: a further one repeats the same step).
read_reactions ==
    { Read(<<"client", "room", "member", "args", "fetch">>),
      Read(<<"client", "room", "member", "args", "fetch", "fetch">>) }

\* A refused or failed query falls back to what the store has.
verify_status == { Read(<<"client", "try", "store", "store">>) }

room_info    == { Read(<<"client", "room", "member", "try">>) }
room_members == { Read(<<"client", "room", "args", "store">>) }

get_user_receipts  == { Read(<<"client", "room", "args", "store">>) }
get_event_receipts == { Read(<<"client", "room", "args", "store">>) }

list_threads_in_room == { Read(<<"client", "room", "fetch">>) }

get_room_state         == { Read(<<"client", "room", "args", "store">>) }
admin_get_power_levels == { Read(<<"client", "room", "store">>) }
list_ignored_users     == { Read(<<"client", "store">>) }
get_account_data       == { Read(<<"client", "store">>) }

\* The event, then (its size accepted) the media, whose size is checked again.
download_attachment ==
    { Read(<<"client", "room", "member", "args", "fetch", "args", "fetch", "args">>) }

users_get_profile   == { Read(<<"client", "args", "fetch">>) }
search_messages     == { Read(<<"client", "args", "fetch">>) }
get_presence        == { Read(<<"client", "args", "fetch">>) }
get_space_hierarchy == { Read(<<"client", "args", "fetch">>) }

\* Charged as a read, but it posts a notice. The outcome of the pull, an
\* expired token included, is reported inside a successful result.
request_room_keys ==
    { [Read(<<"client", "room", "member", "args", "gate", "try">>) EXCEPT !.notice = TRUE] }

-----------------------------------------------------------------------------
(* Write tools *)

\* With a reply target, that event is fetched first.
send_text_message ==
    { Write(<<"args", "client", "room", "send">>),
      Write(<<"args", "client", "room", "args", "fetch", "args", "send">>) }

\* The event to edit is fetched and must be the caller's own text message.
message_edit == { Write(<<"args", "client", "room", "args", "fetch", "args", "send">>) }

message_forward == { Write(<<"client", "room", "room", "args", "fetch", "args", "send">>) }

\* An identity that exists, or that cannot be asked about, stops it; a failure
\* to enable recovery afterwards, or to read the identity back, does not. It posts
\* no notice.
bootstrap_cross_signing ==
    { [Write(<<"client", "fetch", "args", "send", "enable", "try", "store">>)
         EXCEPT !.notice = FALSE] }

set_room_name  == { Write(<<"client", "room", "send">>) }
set_room_topic == { Write(<<"client", "room", "send">>) }

ignore_user   == { Write(<<"client", "args", "send">>) }
unignore_user == { Write(<<"client", "args", "send">>) }

mark_read      == { Write(<<"client", "room", "args", "send">>) }
send_reaction  == { Write(<<"args", "client", "room", "args", "send">>) }
redact_message == { Write(<<"args", "client", "room", "args", "send">>) }

\* room_kick, room_ban and room_unban.
membership_change == { Write(<<"args", "client", "room", "args", "send">>) }

admin_set_power_level == { Write(<<"client", "room", "args", "send">>) }

room_pin_message   == { Write(<<"client", "room", "args", "pin", "setpins">>) }
room_unpin_message == { Write(<<"client", "room", "args", "unpin", "setpins">>) }

\* The media is fetched and uploaded before the room is looked up: the file is
\* there when the call is then refused.
send_image_from_url == { Write(<<"client", "web", "upload", "room", "send">>) }

\* send_file, send_video and send_audio.
send_media_from_url == { Write(<<"client", "web", "upload", "room", "send">>) }

send_voice_message == { Write(<<"args", "client", "web", "upload", "room", "send">>) }

\* The speech is synthesized before anything is asked of Matrix.
send_tts_voice_message == { Write(<<"args", "web", "client", "upload", "room", "send">>) }

send_bulk      == { Write(<<"args", "client", "bulk">>) }
send_broadcast == { Write(<<"args", "client", "args", "broadcast">>) }

me_set_displayname == { Write(<<"args", "client", "send">>) }

\* Without a URL the avatar is cleared.
me_set_avatar ==
    { Write(<<"client", "send">>),
      Write(<<"client", "web", "upload", "send">>) }

join_room      == { Write(<<"client", "args", "send">>) }
leave_room     == { Write(<<"client", "room", "send">>) }
invite_user    == { Write(<<"client", "room", "args", "send">>) }
room_create    == { Write(<<"client", "args", "send">>) }
room_create_dm == { Write(<<"client", "args", "send">>) }

\* The guard reads the membership the SDK has cached.
invites_accept == { Write(<<"client", "room", "member", "send">>) }
invites_reject == { Write(<<"client", "room", "member", "send">>) }

set_account_data == { Write(<<"args", "client", "args", "send">>) }

\* The upload is all it writes.
upload_media_from_url == { Write(<<"client", "web", "upload">>) }

set_presence   == { Write(<<"client", "send">>) }
set_audit_room == { Write(<<"client", "room", "send">>) }

-----------------------------------------------------------------------------

\* The paths of all tools: many tools share one.
Paths == UNION {
    whoami, list_joined_rooms, get_unread_summary, list_recent_activity, invites_list,
    read_recent_messages, read_thread, read_reactions, verify_status, room_info,
    room_members, get_user_receipts, get_event_receipts, list_threads_in_room,
    get_room_state, admin_get_power_levels, list_ignored_users, get_account_data,
    download_attachment, users_get_profile, search_messages, get_presence,
    get_space_hierarchy, request_room_keys, send_text_message, message_edit,
    message_forward, bootstrap_cross_signing, set_room_name, set_room_topic,
    ignore_user, unignore_user, mark_read, send_reaction, redact_message,
    membership_change, admin_set_power_level, room_pin_message, room_unpin_message,
    send_image_from_url, send_media_from_url, send_voice_message,
    send_tts_voice_message, send_bulk, send_broadcast, me_set_displayname,
    me_set_avatar, join_room, leave_room, invite_user, room_create, room_create_dm,
    invites_accept, invites_reject, set_account_data, upload_media_from_url,
    set_presence, set_audit_room }

==============================================================================
