# Chatrix in TLA+

Models of the Chatrix chat (`src/packages/backend`, `src/packages/frontend`): what its
tables, files, sockets, Redis keys and client caches can look like when requests, events and
responses overlap, what TLC shows of small instances, and what TLAPS proves for every size.
`PROJECT.json` lists the runs, the mutants that show each property bites, the source lines
behind every definition, the hazards and the theorems.

## The system

Chatrix is a NestJS backend with a React frontend. PostgreSQL (through Prisma) holds
accounts, sessions, friendships, rooms and messages; Redis holds presence; an object store
(MinIO) holds files; socket.io pushes events to channels of sockets. The client keeps what
it has fetched in React Query caches, which events and mutations patch or invalidate.

| Part | State it keeps | Operations | What makes it correct |
| --- | --- | --- | --- |
| Rooms (`rooms/rooms.service.ts`) | `Room`, `RoomMembership`, `RoomBan` rows | create, update, delete, join, leave, invite, kick, ban, unban, setRole | one owner, who stays; a banned account is out; nothing outlives the room |
| Room channels (`rooms/rooms.gateway.ts`, `rooms.controller.ts`) | sockets in `user:{id}` and `room:{id}` | connect, disconnect, `joinRoomSockets`, emit | members hear the room, others do not |
| Sessions (`auth/auth.service.ts`, `guards/jwt-refresh.guard.ts`) | `User`, `Session`, `PasswordReset` rows; the cookie | register, login, refresh, logout, revoke, change, reset, delete account | one live token per login; what is revoked stays revoked; a new password closes old sessions |
| Contacts (`friendship/friendship.service.ts`, `dm/dm.service.ts`) | `FriendRequest`, `Friendship`, `Block`, `DirectMessageThread` rows | send, accept, decline, remove, block, unblock, open a thread | a friendship needs a pending request; one request per pair; only friends without a ban have a thread |
| Messages (`rooms/`, `dm/`) | `RoomMessage`, `DirectMessage`, `Reaction` rows; what clients show of them | send, edit, delete, toggle a reaction, over socket or REST | clients show what the tables hold; what is deleted stays so |
| Attachments (`attachments/`) | `Attachment` rows, objects in the store | request URL, PUT, commit, link, delete by room | a message shows its author's own file; no row without its object; none left after the room |
| Presence (`presence/`) | per user: tab set, activity set, status key; `presence:tracked` | heartbeat, tab removal, sweep every 10 s | the status follows the tabs; who is gone becomes offline |
| Message list (`useMessages`, `useRoomMessages`, the socket hooks) | the pages of an infinite query | fetch, older page, refetch, event, disconnection | every message once, in order, none missing, the rest reachable |
| Message input (`DmMessageInput`, `RoomMessageInput`, `useAttachmentUpload`) | text, reply, attachment, running uploads | type, choose, clear, send, move to another chat, answers | what was cleared is not sent; nothing goes to the wrong chat; it does not lock |
| Chat list (`useDmQueries`, `useRoomMutations`, `listThreads`, `listMyRooms`) | `lastReadAt`, cached rows with unread counts | post, mark read, fetch, event | no unread message is hidden |
| Friends client (`NewDmDialog`, `PendingInvitePanel`, `useFriendshipMutations`, `useFriendSocket`) | requests, friends, threads, search | buttons, invalidations, events | caches become the server's; buttons offer what will be granted |
| Rooms client (`RoomDiscoverDialog`, `CreateRoomDialog`, `RoomSettingsDialog`, `InviteUserDialog`, `useRoomMutations`) | my rooms, public rooms, detail, bans | buttons, invalidations, events | the same |

How they interact: HTTP controllers call a service, then the gateway (`joinRoomSockets`,
`joinThread`), then emit through `EventsService`; socket handlers call the service and emit.
Deleting a room deletes its attachments first; sending a message links one. Opening a thread
asks `FriendshipService`; removing a friend deletes the thread. Presence reads friendships to
know whom to tell. On the client the message list, the chat list and the dialogs share the
query cache and the socket.

What is hard: a service method is a series of awaited queries. It checks in one, writes in
a later one, and any other request may run in between; Node's single thread protects only
the code between two awaits. Transactions are short and run at READ COMMITTED, so a
`deleteMany` removes the rows it saw when it started and no others. Rows and files do not
change together. Requests of several statements without a transaction can stop half way. On
the client a response was read at some moment before it is applied, an event may have been
applied in between or be on its way still, events sent while the socket is down are lost,
and no message says up to where it knows.

## Modules

| Module | What it is |
| --- | --- |
| `Rooms` | membership, roles and bans of one room |
| `RoomChannels` | EXTENDS `Rooms`: sockets and the controller's part of each request |
| `Sessions` | sessions, passwords and reset tokens of one account |
| `LoginLifecycle` | abstract: a login opens once and closes for ever; refined by `Sessions` |
| `Contacts` | requests, friendship, bans and the thread of one pair of users |
| `Messages` | messages and reactions of one chat, the events about them, and what clients show |
| `Attachments` | attachment rows, stored files and the messages that show them, for one chat |
| `Presence` | presence of one user over the Redis connection |
| `MessageCache` | the list of messages one client shows of one chat |
| `ChatList` | the unread count and preview of one chat in one client's list, with the server's mark |
| `Composer` | the message input of one client and its uploads |
| `FriendsClient` | one client's caches and dialogs about one other user |
| `RoomsClient` | one client's caches and dialogs about one room |
| `MC*` | instances for TLC: symmetry sets, panes |
| `*Proofs` | theorems and their proofs |

**Handlers.** The server's modules have a variable `req`: what each handler (a request in
flight) is doing, that is, the next query and the locals that later steps use. The first
query of an operation is its `Start...` action (a request refused there changes nothing and
is left out as a stutter); every later awaited query is an action of its own; an exception
ends the request and keeps what is already committed. Constraints of the schema (unique
keys, foreign keys, cascades) are part of the guards and effects of inserts and deletes.

**Alone or raced.** Several rules hold for requests served one at a time and break under a
race. They are stated as `OnlyRaces...`: with a history variable that records, at the step
where it happens, that requests or responses have met (`overlapped`, `collided`, `raced`,
`muddled`, `excused`, `outdated`, `strayed`), nothing else breaks the rule. What counts as a
race is written out in the comment of each property and in the action that records it: a
mutant that breaks the rule in any other way is found.

**Rooms.** One room; every key the operations use contains its id. `room` is the `Room` row,
`role` the memberships by their unique key, `bans` the active ban rows of each account
(several, as nothing forbids it), `lifted` the others. Kick and ban read two memberships with
`Promise.all` on pooled connections, so either may be read first (`StartHierarchy`,
`FinishReads`). `banUser`'s transaction is one step: of its two statements only the insert of
a membership could come between them, and the result is that of one order or the other.

**RoomChannels.** A socket enters `user:{id}` in the tick it connects (the DM gateway's hook
awaits only the synchronous in-memory adapter), reads its memberships, joins `room:{id}`;
a request that creates a membership then fetches the sockets of `user:{id}` and puts those
still connected into `room:{id}`. No action takes a socket out, as in the code.

**Sessions.** One account. A session row and its refresh token are one id. Statements are
atomic; a transaction with a `deleteMany` is two steps, `Snapshot` (the statement starts and
fixes the rows it sees) and the commit, because under READ COMMITTED a row inserted in
between survives - this is what a rotation does, whose own delete and insert are one step.
Changes and resets update the `User` row first and hold its lock until they commit
(`UserRowFree`). Each chosen password is new, so a state tells which password a login knew:
`proof` (history) is the password a login presented, `login` (history) the first session of
the chain of rotations a session belongs to. `QueryFails` covers missing rows, deadlock
victims and lost connections.

**Contacts.** One pair; blocks and requests by direction. `removeFriend` is two statements
(`StartRemoveFriend`, `DropThread`), everything else as above. `posted` records who has
messages in which thread.

**Messages.** One chat, which is a room or a thread (`kind`): the two services have the same
operations with other checks in another order, so an operation is a path of awaits
(`RoomPath`, `DmPath`) and each await an action that both share. `seen` is what a client
that has applied every event so far shows; as events go over one socket in order, a real
client shows an earlier value of it. Room membership changes underneath (`ChangeMembership`).
`raced` has the messages two requests worked on at once or a request failed on, `silent`
those changed over REST, which emits nothing.

**Attachments.** The store is `uploads` and `thumbs`; a presigned URL is valid until it
expires (`urls`). `commitUpload` reads what the client has PUT: of the right type or not, a
picture or not, is chosen there. The deletion of a room lists rows, deletes their objects,
deletes the rows and then the room; `swept`, `kept` and `late` (history) are the ids the
deletion has swept, those the store failed to delete in it (`deleteMinioObjects` looks at no
key's error) and those requested or PUT too late for it. A message row has an id of its own
(`MsgIds`), its author and its attachment, so that two rows may show one file: the check of
`sendMessage` and its insert are two queries, and only the unique key (`InsertAllowed`)
stops the second row.

**Presence.** One user: no key of a user is touched for another. ioredis sends all commands
of the process over one connection and answers in order, so `queue` holds the jobs with a
command outstanding and only its head moves. A job waiting for the friends query, or a sweep
busy with other users, is outside the queue for any length of time. Scores of sorted sets
are abstracted to live/expired and recent/old, and time to the actions that move one to the
other. `setInterval` does not await `runSweep`, so several sweeps may run.

**MessageCache.** Messages are numbers, newest highest; rows are taken to become visible in
the order of their `createdAt`. A send is an insert (`Post`) and, some awaits later, an event
(`EmitNew`) or none (`TellFails`): the DM gateway asks for the author's name in between, the
room's service finishes. So `unsent` is a set: a fetch may read a row whose event has not
left, and two sends emit in either order. A fetch of the infinite query asks page after page
(`fetch.got`), each page is read at the server and answered later; events are prepended to
the first cached page meanwhile. A response replaces the pages. `muddled` (history) has met
a response that does not end just where the events to come begin (`Follow`), an event that
overtook an earlier one's, a lost one, or one before there was a list.

**ChatList.** Sends are as in `MessageCache`. The list's query is two reads of the server,
the rows and then the counts. The user selects chats, events arrive, marks are on their way
there and back. The last event heard is the preview; `outdated` (history) tells that an
earlier message's event, or an older response, came last, or that an event was lost.

**Composer.** An upload is a request for a URL, a PUT that can be aborted, and a commit;
`abortable` has the PUTs that listen to the present controller. A chat's input is mounted
anew or kept when the user moves (`MoveFresh`, `MoveKept`).

**FriendsClient, RoomsClient.** React Query as the code uses it: a query that is shown is
fetched, `invalidateQueries` cancels and asks again except for a first fetch, which it
joins. The server tells the others of a mutation by an event or by nothing. A mutation of
`RoomsClient` is one step at the server; in `FriendsClient` the user's requests go through
the awaits of `sendRequest` and `getOrCreateThread` (`step`, `Passes`, `GoOn`), and so do the
other's, and the two statements of its `removeFriend` (`theirs`, `TheySend` to
`TheirThreadDropped`). So requests of the two cross, friends may have a request pending, and
the client may open on either. `acceptRequest` and `declineRequest` write what they have
checked in one statement or transaction, and are one step. Events of the other's requests
are heard in any order. `excused` records what no event and no invalidation told of; `misled` that a button
was refused although the cache it was drawn from was right; in `FriendsClient`, unless it
collides (`Collides`): the friendship or the thread has been made by a request that crossed
this one, and the unique key refuses.

## Runs

Every run passes; states are distinct states.

| Run | Instance | Shows |
| --- | --- | --- |
| `Rooms_concurrent` | 3 accounts, 2 handlers, 1 ban id (1.2 M states) | type; `OwnerIsCreator`, `OwnerUnremovable`, `NoRowsWithoutRoom`, `OwnerLosesRoleOnlyByItself`, `AdminOnlyByCreator` under every race; `OnlyRacesAdmitBanned` without one |
| `RoomChannels_subscribed` | 2 accounts, 2 handlers, 1 socket (0.5 M) | `MembersHearRoom` |
| `Sessions_concurrent` | 2 handlers, 3 sessions, 1 reset, 3 passwords (0.65 M) | type, `OneTokenPerLogin`, refinement `LoginsStayClosed`, `OnlyRacesKeepOldSessions`, `OnlyRacesKeepDeletedSessions`, `ResetSingleUse` |
| `Contacts_concurrent` | 2 handlers, 3 requests, 2 threads (28 k) | type, `FriendshipTakesRequest`, `MessagesDieWithThread`, `OnlyRacesConfuseRequests`, `OnlyRacesOpenThreads` |
| `Messages_concurrent` | 2 users, 2 handlers, 1 message, 2 texts, one reacting (1.2 M) | `ReactionsCountToggles`, `OnlyRacesMisleadClients`, `OnlyRacesRevive`, `DeletedIsFrozen` |
| `Attachments_concurrent` | 2 users, 3 handlers, 1 attachment, 2 message rows (2.1 M) | `MessagesShowOwnFile`, `StoredFilesExist`, `OnlyLateUploadsOutliveRoom` |
| `Presence_two_jobs` | 1 tab, 2 jobs, 1 sweep (1.2 M) | `NobodyForgotten`; `OnlyCollisionsStickStatus` (liveness) |
| `MessageCache_races` | 6 messages in pages of 2, 2 between insert and event (4.5 M) | `OnlyRacesMuddleList`, `OlderReachable` |
| `ChatList_races` | 2 messages, 2 marks on their way (1.4 M) | `OnlyRacesHideUnread`, `OnlyRacesOutdatePreview` |
| `Composer_uploads` | 2 chats, 3 files (61 k) | `ClearedStaysCleared`, `LockedOnlyByUpload`, `OnlyMovesLoseMessages` |
| `FriendsClient_races` | 1 request of the other's, 2 things on their way (4.2 M) | `OnlyUntoldChangesStale`, `OnlyStaleOffersRefused` |
| `RoomsClient_races` | 1 ban, 2 changes by others, 2 things on their way (2.0 M) | `OnlyUntoldChangesStale`, `OnlyStaleOffersRefused` |

**Bounds.** Two handlers are enough for every race between one check and one write, and
`OnlyRaces...` needs two to see any overlap; `Attachments` has a third, as an upload, a send
and the deletion of the room meet. Three accounts are an owner, an admin and a victim; of
messages and attachments two users are an author and another. Row ids (`BanIds`,
`SessionIds`, `ResetIds`, `RequestIds`, `ThreadIds`, `Ids`, `MsgIds`) and `Passwords` bound how many
rows a run creates, not how long it runs: an operation that needs a fresh id is not begun, or
not completed, when none is left. Three sessions allow a rotation next to a second login;
three requests allow crossed requests and one more; properties of messages and attachments
are about one row, or about the ids of one. `RoomChannels_subscribed` has no ban id: bans
only keep memberships from being made. Two message rows are the two that might show one
file. Six messages in pages of two give histories of three pages, of full and of half pages,
and two sends at a time (`MaxSends`) an event that overtakes another; `ChatList` lets all its
messages be between insert and event. In `FriendsClient` one request of the other's that
takes several steps is under way at a time, next to any of the user's. Three files allow an upload that is overtaken by another
while one has been sent. `MaxTraffic` bounds only when something new is started, and in the
client modules the user keeps to one pane in a run, since the panes share nothing but the
caches (`Uses`); queries of panes that are not used stay as they are. The friends client has
no blocks, as nothing in the client sets one. `OnlyCollisionsStickStatus` has also been found
to hold with two tabs and one job, and with one job and two sweeps that overlap.

Deadlock is checked except in `Messages`, `Attachments`, `MessageCache` and `ChatList`: once
the bounded ids are used and everything has been delivered these may stop.

**Fairness.** Safety runs assume none. `Presence!Fairness`: the head of the Redis queue is
answered, the friends query is answered, a sweep gets on with its list, the timer goes on
firing, and entries expire. Nothing is assumed of the browser: nobody has to open, close or
use a tab, and heartbeats may stop at any time. The client modules promise nothing that must
happen: no cache is refetched unless the user comes back, so their properties say what holds
once nothing is on its way.

**Mutants.** Every property has a mutant of the code that TLC finds in violation of it.
Mutants are operators placed before the operation they change, marked "Mutant:", named after
that operation and the bug.

## What is proved

TLAPS proves every invariant and action property of every run, and the refinement, for any
sets of accounts, handlers, connections, ids, texts, chats, files, tabs, jobs and sweeps, any
number of messages, requests and calls, and any size of page. It takes the named assumptions on the constants, which say that
bounds are numbers and that the values standing for "none", "asked", "failed" and "refused"
are none of the others. Eight modules hold the proofs:

- `RoomsProofs`: the types and five safety properties and one about races. The inductive invariant
  adds `RequestsOK` to the type, the cascade and the ownership: what a handler that has
  passed its check may still rely on. `OwnerUnremovable` is not inductive by itself, since
  the check and the delete are two queries; it follows because nobody can become OWNER after
  the room is created (setRole gives ADMIN or MEMBER only), so a target that was not OWNER
  when it was read never will be. For `OnlyRacesAdmitBanned`
  a second invariant says that a handler not marked as overlapped is the only busy one, so
  that what its checks found is still so when it writes. Then `MembersHearRoom` of
  `RoomChannels`: a connection being set up will still read the memberships; a membership
  comes into being only in a request that then waits for `joinRoomSockets` (`NewMember`), and
  only such a request fetches sockets.
- `SessionsProofs`: the types, `OneTokenPerLogin`, the refinement `Spec => LoginsStayClosed`
  and the three properties about races. The invariant adds that before the account exists
  nothing hangs on it (`AbsentMeansFresh`: else a password change would type an account
  without a password) and that every session descends from a login that is its own first
  session (`LoginsRooted`). Every step then deletes rows, creates the first row of a login,
  or replaces one row by its successor (`SessionSteps`); these map to closing some logins,
  opening one, and stuttering. The races rest on `AloneOK` and `StillTrue`.
- `ContactsProofs`: the types and four properties of `Contacts`; `AloneOK` again, with
  `StillTrue` for what each await has found. Then both properties of `FriendsClient`: that
  caches are right once everything is quiet is not inductive; its strengthening (`ClientInv`)
  speaks of every moment: a query that is not what the server has is about to hear of it
  (`Fresh`), because it is asked for, or an event or the answer to a call that will invalidate
  it is on its way (`Coming`), or it is excused. What a call rests on is what its button was
  drawn from (`Offered`), so that the server, which asks for the same rows at every step,
  grants it while that still holds (`Matches`, `MatchingPasses`), or it collides. Where two
  requests have crossed, a search may say either of the two, and an offer is still good while
  it is one of those (`Result` is a set).
- `RoomsClientProofs`: both properties of `RoomsClient`, by the same argument (`RoomFresh`,
  `RoomComing`, `RoomOffered`), with the ranks the client compares and the queries that are
  only asked while something shows them (`RoomIdle`).
- `MessagesProofs`: all four. Two requests on one message put it into `raced` for good, so
  any other message has one request at most (`OneRequest`); `AloneInv` is what that request
  may rely on, `ClientInv` what it still owes the clients.
- `AttachmentsProofs`: the types and three properties. `ReqInv` is what each await may still
  rely on, ids being used once; `SweptInv` is the argument about deleting a room: every row
  but the late ones is listed, swept and only then lost (`Settled`).
- `WindowProofs`: all three of `Composer`. A file's upload runs once, so its phase tells
  whether it can be pending, sent, dropped or aborted (`OneFate`), and unless the window was
  moved with its contents all of them are for the chat shown (`InPlace`). Then both of
  `MessageCache`: the events to come are of messages that are there
  (`EventsPosted`); pages are a `Pile`, consecutive messages from a top down to a bottom, with
  the cursor just under it (`Ends`). What the list shows is a recursive join of the pages, so
  its closed form (`PileShown`) takes an induction on their number. The library's theorem for
  that has an operator as a parameter; `Induction` is stated with a set instead and proved
  from the well-foundedness of the natural numbers.
- `SidebarProofs`: both properties of `ChatList`. A count is a number, so a set is kept beside
  each one, of the messages it must still cover (`Hidden`, `Countable`); of the preview, that
  every later message is one to come, or it is `outdated` (`PreviewFresh`). Then
  `NobodyForgotten` of `Presence`. An offline transition drops the user from
  `presence:tracked` whatever the status has become meanwhile, so jobs that counted a tab
  before it went must not have the last word. That they do not rests on Redis answering in
  order: `Turn` is the number of commands a job has to go, and once no tab is left every
  stale job is `Covered` by one that sets the status to offline after it, or by one that may
  still find it offline and leave (`Spares`), but then before anybody is dropped
  (`Undecided`), or it is alone (`Lonely`) and the user stays tracked. The rest of the
  invariant: a user with a tab is tracked or about to be (`TabsKnown`), nobody takes a user
  with tabs offline (`OfflineWithoutTabs`), and who is shown is tracked or about to be taken
  offline (`ShownWatched`). The order of the queue is the lemmas `AppendedOrder`,
  `TailOrder` and `RotatedOrder`.

Three modules prove about two specifications at once, which they extend. So that the names
do not meet, `FriendsClient`, `MessageCache` and `Presence` call theirs `ClientSpec`,
`PagesSpec` and `PresenceSpec`.

The invariants of `RoomsClient`, `MessageCache` and `Presence` were checked by TLC on the
instances of their runs before they were proved. That of `Presence` was also simulated with
two tabs and with two sweeps, where stale jobs are covered in more ways. The type of
`Attachments` is a theorem (`TypeCorrect`) and no run repeats it. `ValueAssumption` of `FriendsClient` and of `RoomsClient`
is there for the proofs: "none", "asked", "failed" and "refused" are none of the data, as in
the code, where they are `undefined`, a status or an error.

Only model-checked: `OnlyCollisionsStickStatus` of `Presence`, which is liveness under
fairness and so outside the prover's reach; and that the bounds leave the interesting cases
reachable, which the mutants show.

## Where the code departs from its docs

The rule is a definition of the module named; checking it over the instance of that module's
run shows a trace. The `OnlyRaces...` properties say how much of each rule is left.

| Rule | Doc | What the code does |
| --- | --- | --- |
| `Rooms!BannedIsNotMember` | `docs/architecture.md:125` | a join or invite past its ban check readmits an account banned in between |
| `Rooms!AtMostOneActiveBan` | rooms design of 2026-04-21, line 82 | a second ban adds a row, with two ban ids and one handler |
| `Rooms!AdminsRemoveAdmins` | `docs/architecture.md:132`, `docs/requirements.md:146` | an admin's kick or ban of another admin is refused (`rooms.service.ts:280` and 305 ask for a higher rank), with one handler. The rooms design of 2026-04-21, line 363, and the service's tests want it so |
| `Rooms!OwnerStays` | `docs/architecture.md:123` | the owner demotes itself and leaves, with one handler |
| `RoomChannels!OnlyMembersHearRoom` | `docs/architecture.md:127` | a former member's socket stays in the channel |
| `Sessions!SessionsKnowPassword` | auth design, line 155 | a session of the old password survives a change |
| `Sessions!ResetsSpendOnce` | auth design, line 61 | two resets that both find `usedAt` empty both set their password (`auth.service.ts:185`) |
| none, see below | `docs/architecture.md:124` | deleting an account marks the `User` row and revokes the sessions (`auth.service.ts:196`); owned rooms, memberships and friendships, which should go, stay |
| `Contacts!MessagesOnlyBetweenFriends` | `docs/architecture.md:126` | a blocked user goes on writing, with one handler |
| `Presence!GoneBecomesOffline` | presence design, line 163 | a heartbeat in the middle of the offline transition leaves a status nobody clears |

Met while modelling the client, and excused in its properties where they are about them:
the "Joined" badge of `RoomDiscoverDialog` (line 106) never shows, and Join is offered to
members and to banned users; banning somebody oneself does not invalidate the Bans tab
(`useRoomMutations.ts:125`); creating, updating and deleting a room do not invalidate the
public rooms, deleting not the detail either; setRole, unban, update and delete emit no event;
the settings form is filled once, at mount (`RoomSettingsDialog.tsx:74`); Invite is offered
to every role; a room's `editMessage` does not look at `deletedAt`; a DM's edit event carries
an empty list of reactions; messages edited or deleted over REST are told to nobody.

## Not modelled

- Rate limiter: a counter per user that no await divides; only the clock interleaves with it.
- The client's presence store: a snapshot against events over a map of statuses, the race of
  `MessageCache` without its structure; nothing else depends on it.
- Login bootstrap: one refresh per page load; two of them at once are in `Sessions`.
- Sockets of `dm:thread:{id}`: joined on connection and, for both participants one after the
  other, when a thread is opened, by the same fetch and join as `room:{id}` in `RoomChannels`;
  nothing leaves it while connected.
- Account deletion beyond sessions: the `User` row is marked deleted and rooms, memberships,
  friendships and threads stay, against `docs/architecture.md:124`. The cascades the schema
  declares would fire on a hard delete only, so there is no operation to model.
- Drafts, scrolling, pickers, forms and the layout of the user interface.
- Mail, configuration, logging, health, shared types: wiring and output without state.
- Wording, validation of DTO fields and HTTP throttling, which refuse requests at the door.
