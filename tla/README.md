# YChat-BE in TLA+

A specification of the YChat backend (NestJS, MongoDB, Redis, socket.io): what
its services do to the stored data when many API calls run at once and any of
them may fail. The modules are translated from the TypeScript under `src/src`;
TLC checks them on small instances and TLAPS proves the main safety properties
for every number of users, calls and clients.

Paths below are relative to `src/src/` (services to `modules/`).

## 1. The system

One Node process serves HTTP and websockets. A handler runs alone between two
awaits, and at every await any other handler may run. All lasting state is in
MongoDB; Redis holds a cache and the e-mail queue. The services talk to each
other by function calls in a handler, share the collections, and announce new
messages by an in-process event.

| Component | State | Operations | Hard behaviour | What makes it correct |
|---|---|---|---|---|
| Friend requests (`friendships.service.ts`) | `friendships`: sender, receiver, status; unique index on (sender, receiver, deleted_at) | `createRequest`, `changeRequestStatus`, three lists | checks before writes; a transaction over four collections that uses a document loaded before it | one request per ordered pair of ids; friends have a conversation; a decision is final |
| Conversations (`conversations.service.ts`) | `conversations`: type, members | `createConversation`, `lastConversations`, `findOne` | uniqueness by check then insert; a list paged over three reads | one one-to-one conversation per pair of ids; nothing in a list is overlooked |
| Messages (`messages.service.ts`) | `messages`; `lastMessages`: one pointer per conversation, upserted | `create`, `createNotificationMessage`, `findAll` | transactions racing for the pointer; a time stamp taken long before the commit | authors are members; pointers resolve; a conversation is listed once, with the newest message under its id |
| Transactions (`common/mongoose-transaction.ts`) | open sessions | start, commit, abort | write conflicts, no retry | all or nothing; nobody waits for ever |
| Delivery (`websocket/`) | rooms by user id | connect, disconnect, `message.new` | events after the commit, beside pages read by HTTP | members only; no hole between pages and events |
| Accounts (`auth.service.ts`, `users.service.ts`) | `users`: email (unique), password, status | `register`, `activate`, `createForgotPasswordRequest`, `resetPassword` | check then insert; mail after the commit | addresses unique; changes only by a mailed token |
| One-time tokens (`token.service.ts`) | `tokens`: type, hash, expiry, deleted_at | create, validate, revoke | validated before the transaction that revokes them | used once; one live forgot-password token per user |
| Sessions (`auth.service.ts`, `strategies/`) | `validTokenIat` of a user, its cache entry in Redis, JWTs at the clients | `login`, `refresh`, the two guards, `updatePassword` | stale fills of the cache; two roundings of time | sessions older than a reset stop refreshing; the cache becomes fresh |
| E-mails (`emails/`) | the `emails` queue in Redis | add, process with three attempts | failed attempts that delivered, stalled jobs, lost jobs | every mail arrives or is given up; copies are bounded; activation stays in reach |
| Auth cookies (`auth/auth.controller.ts`) | the cookies of a browser | `login`, `refresh`, `logout` | answers lost or late; two paths for one cookie | one session per browser; logout ends it |
| Assets and avatars (`assets/`, `UsersService.updateAvatar`, `UsersController.uploadImage`) | files in `assets/temp` and `assets/images`, `assets`, the user's avatar | upload, convert, read | file, document and user are written one after the other | an avatar resolves; no asset is left over |
| User search (`UsersService.find`) | none of its own | find with friendship | order left open by the query | shows the live friendship |
| Key files (`constants/jwt.const.ts`) | two key pairs on disk | create at first start | a crash between the writes | the pair matches |

Without lasting state of their own: controllers, guards, pipes, response
builders, the exception filter, bootstrap, seed data, the Docker files. What a
validation pipe lets through is the guard of an arrival (`ValidBody`,
membership of `Id` and `Ref`), and an exception is the end of a call.

## 2. The modules

```
ChatStore -- Messages -- Friendships --+
     +------ Conversations ------------+-- Chat --+-- Delivery   (clients with sockets)
                                            |     +-- Inbox      (readers of the list)
                       ChatService <- refines     (MCIds: ids for TLC)
Accounts --- Emails      (the queue, its worker, the inboxes)
    | refines -> AccountService
Sessions --- Browser     (cookies)
Avatars
```

An arrow to the right is EXTENDS: Delivery, Inbox, Emails and Browser compose a
component with its surroundings, and a theorem of each says that every behaviour
of the composition is one of the component. For TLC there are MCChat,
MCDelivery, MCInbox, MCAccounts, MCEmails, MCSessions, MCBrowser and MCAvatars;
the proofs are in ChatProofs, DeliveryProofs, InboxProofs, AccountsProofs,
EmailsProofs, SessionsProofs, BrowserProofs and AvatarsProofs.

Conventions that all modules share:

- A **call** is one HTTP request. `call[r].pc` names the await the handler of `r`
  stands at, the other fields are its local variables. One action is the code
  between two awaits that matter to others. Reads of data that never changes
  again are joined to the step before or after them, as a comment says.
- A document is named by the call that inserts it; this stands for the fresh
  ObjectId. No call inserts two documents into one collection. The notification
  that `changeRequestStatus` posts and the conversation that it may create bear
  the name of its call in their own collections.
- A **transaction** keeps its writes in the local variables of its call until
  the commit step makes them visible at once. Reads inside it see the snapshot
  its first operation took, unless the code passes no session, in which case
  they see what is committed. A write to a document that another open
  transaction has written, or that changed after the snapshot, is a write
  conflict: `mongooseTransaction` aborts and rethrows, so the call ends. The
  wrapper never retries.
- `Fail(r)` ends a call at any await: a database or queue error, a timeout, a
  crash. Since all lasting state is in the database and an open transaction is
  invisible, a crash of the process is the failure of all calls in flight.
- An **id** may be written in upper or lower case. The pipes and validators
  (`@IsMongoId`, `ObjectId.isValid`) accept both, a filter on `_id` casts to an
  ObjectId, and the server prints ObjectIds in lower case; but the fields that
  name a user or a conversation are strings, stored as the request writes them
  and compared as strings. `Id` and `Ref` are the ids that clients may write for
  users and conversations, `User` and `Call` those that the server prints, and
  `Cast` maps each to the one printed. So `CheckRequest` finds the receiver by
  `Cast` and compares and stores what was written; `CheckConversation` counts
  members by `Cast` and compares and stores what was written; and a message
  finds its conversation by `Cast` and is stored, with its pointer, under what
  was written (`ref`). MCIds gives the ids in `Shouted` a second spelling.
- Nothing in the modelled services sets `deleted_at` except on tokens, so the
  filter `deleted_at: null` is left out everywhere else.

**ChatStore** declares the four chat collections and the calls. **Friendships**,
**Conversations** and **Messages** have one action per await-delimited part of
their service and the reads whose result matters: `Friends`, `SentRequests`,
`ReceivedRequests` (all pages together), `Listed` (the entries of
`lastConversations`, all pages together). `changeRequestStatus` is `FindRequest`
(load outside the transaction), `SaveStatus`, `LookupConversation` (no session),
then the steps of `Messages` for the notification, then `CommitAccept`;
`MessagesService.create` is `FindConversation`, `CreateMessage` (stamp),
`InsertMessage`, `WriteLastMessage` (upsert), `CommitMessage`, `EmitNewMessage`.
**Chat** is their interleaving and holds their properties.

**ChatService** is the abstract specification: pairs of a user and a receiver's
id, as written, with a status, conversations, messages, and the set of
(conversation, message) pairs shown as last messages. Every API call is one
atomic step or none. `Chat!ImplementsService` maps `relation[p]` to the status
of the stored request of `p` and `shown` to the pointers. `Decline` and `Accept`
start from any status, as a late decision replaces an earlier one in the code.

**Delivery** adds clients. A client connects a socket (`WebSocketAdapter`,
`handleConnection`), opens a conversation (`findOne`), pages back with `findAll`
(`Pages`, `ReadPage`) and receives what the gateway sends in the step that emits
`message.new`. The front end is not in this repository: the model assumes a
client that joins before it reads, and takes the next `before` from the oldest
message of a page. `lost` records the calls that fail between commit and event.

**Inbox** adds readers of `lastConversations`. A page is three reads, `FindMine`
(ids), `FindEntries` (`sort`, `skip`, `limit`) and `CountEntries` (the total,
after which the page is returned); `stamp` is `updated_at`, which only
`writeLastMessage` sets. A reader asks for the next page until it has as many
entries as the total says. `begun` records the list it began with. The clocks
behind `created_at` and `updated_at` may stand still between two stamps, and a
sort puts documents with one time in any order, another one for each page
(`Pages`, `Fronts`).

**Accounts** has the users, the tokens, the queued mails and, as history, the
committed uses of tokens. A client can only send a token that was mailed.
**AccountService** is what it implements: accounts that are free, registered or
active and the links that work, changed by atomic operations; a link that has
stopped working never works again.

**Emails** puts the queue between them. `AddJob` is `queue.add`; the one worker
takes a job (`TakeJob`), delivers it or fails (`FailDelivery`, and the mail may
have gone out all the same); a failed job waits out its back-off (`Retry`); a
`Crash` while a mail is being sent leaves a stalled job, which BullMQ puts back
once. A user can only follow a link from his inbox, so a late mail meets tokens
that were replaced meanwhile.

**Sessions** has the clock in half seconds, one user's `validTokenIat`, the
cache entry and the JWTs; `Floor` is the rounding of `iat` and `RoundSeconds`
the one of `updatePassword`. The life time of JWTs is left out: a token that
expires is one a client stops using. **Browser** gives some of the calls to a
browser: cookies by name and path, with or without `maxAge`; answers that arrive
late, in another order or not at all; a window that is closed. The calls without
a `kind` are those of the user's other devices.

**Avatars** has the two folders, the assets and the avatars. `uploadImage` and
`updateAvatar` are `StoreUpload` (the interceptor), `CheckSize` (the pipe, after
the file is stored), `FindUser`, `ConvertImage`, `InsertAsset` (first operation
of the transaction), `RemoveTemp` (the `finally` block), `SaveUser`,
`CommitAvatar`; `getAsset` is `FindAsset` and `OpenFile`. Files take no part in
a transaction, and a crash leaves them.

## 3. What TLC checks

Deadlock is not checked, in any run, because the number of calls is bounded and
the system rightly stops when all have ended.

| Run | Module, instance | Shows |
|---|---|---|
| `races` | Chat: 4 calls, 2 users and an unknown id, one user and all conversations in both cases, 2 in flight, fairness | `TypeOK`, `OneRequestPerDirection`, `FriendsShareConversation`, `PointersResolve`; `ImplementsService` (refinement); `EveryCallEnds` (liveness) |
| `inbox` | Inbox, 2 users, all ids in both cases: 4 calls, 3 in flight, all states in `Apart`; 5 calls, one by one, beside a reader, pages of 1 | `OneToOneUnique`, `ListedOnce`, `NewestListed`, `OneLiveFriendship`, `DecisionIsFinal`; `NothingOverlooked` |
| `delivery` | Delivery: 4 calls, 3 users, 2 in flight, conversations in both cases (`FewInUpperCase`), 1 client, pages of 1 | `DeliveryTypeOK`, `MessagesFromMembers`, `ShownToMembers`, `NoGap` |
| `accounts_races` | Accounts: 5 calls, 2 addresses, 3 in flight | `TypeOK`, `EmailUnique`, `MailedTokensStored`, `AccountsChangeByToken`; `ImplementsService` (refinement) |
| `emails` | Emails, 3 calls, 1 address, 2 attempts, fairness: overlaps, all states in `UsesApart` and `ForgotApart`; calls one by one, with failing mails and crashes | `QueueTypeOK`, `ActivationInReach`, `CopiesBounded`, `OneLiveForgotToken`, `TokenUsedOnce`; `MailsArrive` (liveness) |
| `sessions_races` | Sessions: 4 calls, 3 in flight, fairness | `TypeOK`, `CacheIsCommitted`; `EventuallyFresh` (liveness) |
| `browser` | Browser: 4 calls, 3 in flight, 2 seconds, 1 request of the browser at a time, all states in `LoginsApart` and `ChecksApart` | `RefreshedIsCurrent`, `NewSessionRefreshes`, `CacheFresh`, `OneSession`, `LogoutEndsAccess` |
| `avatars` | Avatars: 5 calls, 2 users, 3 in flight, crashes | `TypeOK`, `AvatarResolves`, `FoundFileExists`, `TempAccountedFor`, `AssetsBecomeAvatars` |
| `onetoone`, `accounts_reused`, `sessions_ignored`, `logout` | 2 to 4 calls | four properties the code states and does not keep (section 6) |

**Two kinds of safety property.** Some hold whatever overlaps, since an index or
a transaction ensures them. Others rest on a read made awaits before a write,
and some overlaps break them. For each of these there is a predicate on states
("Which overlaps do harm" in Chat, Accounts and Sessions) that rules out the
harmful overlap itself. The predicates do not say that the code prevents these
overlaps: it does not, and section 6 lists what they do. What is checked, and
proved, is that no other overlap breaks the property:

| Predicate | Rules out that | while another handler | Protects |
|---|---|---|---|
| `OpeningsApart` | a one-to-one conversation of two ids is about to be stored | has found none and will store one | `OneToOneUnique` |
| `RequestsApart` | a friend request is about to be stored | is about to store the opposite one | `OneLiveFriendship`, with the next |
| `DecisionsApart` | a decision is about to be committed | has loaded the request and not begun its transaction | `DecisionIsFinal` |
| `FirstPostsApart` | the first message of a conversation is about to be committed | has a transaction that sees the conversation without one | `ListedOnce` |
| `StampsApart` | a message is about to be committed | has stamped one under the same id and not begun its transaction | `NewestListed` |
| `UsesApart` | the use of a token is about to be committed | has found the token alive and not begun its transaction | `TokenUsedOnce` |
| `ForgotApart` | a forgot-password token is about to be stored | has deleted the earlier ones too | `OneLiveForgotToken` |
| `LoginsApart` | a reset is between its stamp and its commit | has compared the old password and is about to sign | `RefreshedIsCurrent` |
| `ChecksApart` | a reset has cleared the cache and not committed | is about to fill it | `CacheFresh` |

All other overlaps are allowed, and harmless: two handlers that both hold what
they have checked in open transactions conflict, and the later one is aborted.
The runs `inbox`, `emails` and `browser` visit the states in which the
predicates hold, with two or three calls in flight; section 4 has the theorems.
These properties speak of ids as the code compares them, as strings. Over the
users and conversations that the strings name they do not hold, even if calls
come one by one: section 6 says what a second spelling does. They are stated so
that they say what is left: `OneRequestPerDirection` that a user's requests to
another one differ in spelling and at most one of them is decided;
`OneLiveFriendship` that of what both users can see there is one; `OneToOneUnique`
that two users have one conversation that both can open; `NewestListed` that a
pointer and the pages under one id agree; `NoGap` that a screen has all that is
stored under the id it reads.

A team that closes one of these windows, by a unique index or a check inside the
transaction, has made its predicate an invariant, and the property follows.

**Bounds.** `Call` bounds the calls of a behaviour and, with it, the documents;
`MaxInFlight` bounds the handlers that run at once; `MaxTime` stops the clock of
`Sessions`; `Limit` is the page size; `Attempts` is the number of attempts of a
job (three in the code); `Tabs` bounds the requests a browser has under way. Two
calls in flight are enough for every race of two transactions, and the races of
three that Accounts has (a request for a new token beside two uses of the old
one) get three, as do two uploads that race while a third call reads or crashes
with them. Four chat calls allow a request and its answer, or a conversation and
its first message, to race with their like. In `races` and `inbox` a registered
user is asked, and named as a member, in either case, and a message goes to a
conversation under either id; two users are enough for that, as a request, a
decision and a one-to-one conversation are about two. A group is refused there
(two spellings of one user are not two members); groups and outsiders come with
the three users of `delivery`. There `FewInUpperCase` bounds what the other
spelling multiplies: one conversation at most gets messages under its id in
upper case, it is one of two users, calls come one by one, and the client reads
under the printed id. `InTurn` lets the calls of `races` arrive in one order,
since any other is a renaming. Five calls, one by one, allow two conversations
with messages, so that a post moves an entry while a reader is between two reads
or two pages of one entry. Such a reader begins only when there is more than a
page (`SeveralPages` in MCInbox), since shorter lists are read at once. The
history variable `raced` in MCInbox and MCEmails keeps the two parts of those
runs apart: readers, failing mails and crashes beside overlapping calls would
multiply states that do not influence one another. Four of the calls of MCInbox
(`Early`) may come before the reader begins, and the fifth only beside it. With
one reader and one client nothing is lost, as they do not influence one another.
Three calls on one address are a registration, a request for another password
and the use of a mailed link; with two attempts a job fails for good in one
order and arrives in another, and after a crash there is one more. `InOrder` in
MCEmails and the symmetry sets elsewhere only leave out renamings of calls that
have not arrived, and users; `Ticks` in MCChat and MCInbox lets the clock move
at every message where no property of the run looks at it. Within the `MaxTime`
of the runs every pair of a token and a reset less than two seconds apart
occurs, in each phase of the two roundings. The theorems cover all larger values
of all bounds.

**Fairness.** `WF(Step(r))`: the event loop resumes a handler whose await has
been answered, and MongoDB answers every operation, if only with a write
conflict. `EmailsFairness`: a handler about to queue its mail is resumed, the
worker takes a job when there is one, `sendMail` settles one way or the other,
and a back-off ends. `WF(ExpireCache)`: Redis drops an entry when its five
minutes are over. Neither arrivals nor failures, crashes nor the clock are fair.
`EveryCallEnds` fails if a write conflict made a transaction wait instead of
abort; `EventuallyFresh` fails if cache entries had no time to live;
`MailsArrive` fails if nothing moved a delayed job on. As calls are bounded,
`EventuallyFresh` says that the cache agrees with the database once the traffic
on the user has stopped.

Each property has at least one mutant of the code that violates it (definitions
marked "Mutant" before the ones they alter).

## 4. What TLAPS proves

All theorems hold for every value of the constants: any set of users, calls,
clients and addresses, any number of calls in flight, any time, any page size,
any number of attempts. Assumptions: ids form a finite set that contains the
users (`IdAssumption`, `UserAssumption`), `Cast` leaves the printed ids as they
are and is otherwise any function on the ids (`CastAssumption`), `None` is no
document, id or kind (`NoneAssumption`, `BrowserAssumption`), the bounds are
numbers (`BoundAssumption`), a page has room for an entry (`LimitAssumption`), a
job is tried at least once (`AttemptsAssumption`). Properties of the second kind
are proved of behaviours that stay in the states of their predicate, as `Spec /\
[]OpeningsApart => []OneToOneUnique`, for any number of calls in flight.
`AloneApart`, `AccountsAloneApart` and `SessionsAloneApart` show that a server
that runs one call at a time (`MaxInFlight = 1`, `IsFiniteSet(Call)`) never
leaves those states, so the hypotheses are not only satisfiable: they hold of
every behaviour without overlaps. The theorems of Browser assume that the
browser has one request under way (`Tabs = 1`), whatever overlaps elsewhere.

**ChatProofs.** `TypeCorrect`, `RequestsUnique`, `FriendsConverse`,
`AuthorsAreMembers`, `PointersAreSound` and the refinement `Implementation`
(every step of `Chat` is a step of `ChatService` or leaves its variables alone).
`RequestsUnique` is about spellings: it needs `RequestsOK`, which says that a
request that was or is being decided names its receiver as the server does, so
that the index, over strings, leaves one of them.
None of the properties is inductive: a commit is right only because of what its
handler learnt awaits ago. `IInv` therefore says, for each position of a
handler, what it knows (`HandlerOK`): a request or conversation to insert is
new; a decision belongs to a stored request; the conversation of a message is
stored or comes with it, and its author is a member; the pointer a transaction
rewrites is the stored one and no other open transaction has written it
(`TargetOK`, which is what snapshot isolation gives and what keeps racing posts
from losing a pointer). `DocumentsOK` adds that documents come from calls that
store nothing more. The step lemmas are split into steps that change one handler
only (`LocalStep`) and the four commits.

Under the predicates: `PairsConverseOnce`, `FriendshipsUnique`,
`DecisionsAreFinal`, `ConversationsListedOnce`, `NewestMessageListed`. Each has
an invariant of its own beside `IInv`, which says what a handler has read and
still relies on: no conversation of the pair is stored as long as a handler will
open one for the same ids; no live request of the pair of ids; the request a
handler decides is open (`DecisionInv`, with `SavedOnce`, proved without
hypothesis: open transactions never hold one request together); a snapshot
without a pointer of a conversation means that none is committed; a stamp is
later than all messages the snapshot lacks. The predicate is needed only for the
step in which another handler writes.

**InboxProofs.** `ReadersUnnoticed` and `ReadersOverlookNothing`. The invariant
is about numbers: an entry the reader began with, and which is still there, was
given to it, or has at least as many newer entries before it as the reader will
skip, or has the time of another one (`Passed`). It survives a post because a
post moves one entry to the front, so nothing ever has fewer entries before it
(`AheadGrows`), and equal times stay equal (`TiedKept`); whatever order the sort
gives to equal times, a page has all that has fewer than `skip + Limit` before
it (`FrontsAhead`, which counts entries by their ids); and the total, read later
than the page, is more than the entries before any one of them.

**DeliveryProofs.** `ChatUndisturbed`: behaviours of `Delivery` are behaviours
of `Chat`, so `DeliveryImplementation` and the theorems above carry over.
`MembersOnly` and `ScreensHaveNoGap` rest on `DInv`, which adds that a message
about to be announced is stored in a stored conversation (`AnnouncedOK`) and
that an open conversation is the user's (`ScreensOK`): so the event of a message
reaches each client that could miss it. What a page leaves out is older than all
it has, or as old as the oldest, and a page that is not full is everything.

**AccountsProofs.** `AccountsTypeCorrect`, `EmailsAreUnique`,
`MailedLinksResolve`, `ChangesAreAuthorized` and the refinement
`AccountsImplementation`. The invariant says that an open `register` transaction
owns its address among stored and open ones (`EmailOK`), that a handler's token
exists with the user and type it was found with, and that a transaction that
does not hold its token works with a dead one (`HandlerOK`); this is why a
change of an account always leaves a dead token behind although `revokeToken`
may match nothing. Under the predicates: `TokensServeOnce` and
`ForgotTokensReplaced`, from invariants that say that the token of a handler in
a transaction that holds it is live until its commit, and that between the two
steps of a forgot-password request its user has none. They rest on
`TokensDistinct` (ids are never used twice) and `UsersHeldOnce` (two open
transactions never hold one user), which need no hypothesis.

**EmailsProofs.** `AccountsUndisturbed`, `QueueTypeCorrect`, `CopiesAreBounded`
and `ActivationStaysInReach`. The invariant counts: copies and the failures left
add up to the attempts, with one more for a job that has stalled; a job is in
one place; no mail is nowhere; and a mail is given up only with all its attempts
failed, stalled a second time, or never queued (`GivenUp`).

**SessionsProofs.** `SessionsTypeCorrect`, `CacheIsSound` (`CacheIsCommitted`),
`NewSessionsLast` (`NewSessionRefreshes`). The arithmetic is in `RoundingGap`: a
second and a half after an instant the whole seconds have passed its nearest
second. The invariant ties `validTokenIat` and every recorded verdict to the
instant it was taken from. Under the predicates: `OldSessionsEnd`
(`RefreshedIsCurrent`) and `CacheAgrees` (`CacheFresh`).

**BrowserProofs.** `SessionsUndisturbed`, `BrowserTypeCorrect`, and for a
browser that waits `OneSessionPerBrowser` and `AccessEnds`. The invariant
(`WaitingInvariance`) says that while a request is under way nothing but closing
and expiry touches the jar, so that an answer of refresh belongs to the session
whose cookie was sent.

**AvatarsProofs.** `AvatarsTypeCorrect`, `AvatarsResolve`, `FoundFilesExist`,
`TempFilesAccountedFor`, `AssetsAreAvatars`, from what each position of a
handler says of its two files.

**Only model-checked.** Liveness (`EveryCallEnds`, `EventuallyFresh`,
`MailsArrive`), as TLAPS 1.4 has no rules for fairness. Every other property of
a passing run is a theorem.

## 5. Not modelled

- Texts, names, images, hashes, JWT signatures and life times.
- Pages of the friend lists and the user search: reads without a sort, of which
  only the set over all pages is determined (section 6).
- Key files (`jwt.const.ts`): written once, synchronously, before the server
  listens. A crash between the two writes makes the next start replace both
  files, which ends all sessions; one inside the second write leaves a file that
  exists, so that the pair is never replaced although it does not match.
- A clock that is set back: the stamps of `Chat` and `Inbox` never decrease.
- A transaction that becomes so long that MongoDB ends it, other than by `Fail`.
- The rate limit of the worker, which only delays, and the wording of mails.
- `update` and `leave` of conversations, which are empty in the code.
- Validation, guards, filters, bootstrap, seed data, Docker: no state.

## 6. Where code and comments disagree

Shown by a run each:

- **`onetoone`**: two overlapping `createConversation` calls store two one-to-one
  conversations of a pair ("one-to-one conversation must be unique").
- **`accounts_reused`**: two overlapping resets (or activations) use one token;
  `revokeToken` does not notice that it matches nothing.
- **`sessions_ignored`**: the access-token strategy drops the answer of
  `isTokenValid`, so tokens older than a reset are served until they expire.
- **`logout`**: `logout` clears the refresh cookie ("remove refresh token") under
  `/api/auth/refresh`, `login` sets it under `/auth/refresh`; the browser keeps it
  and `refresh` still works.

Seen while modelling (drop the predicates from MCInbox, MCEmails or
MCBrowser.cfg for those named first):

- `ListedOnce`: two overlapping first messages upsert two pointers; the
  conversation is listed twice from then on.
- `DecisionIsFinal`, `OneLiveFriendship`, `NewestListed`: overlapping decisions
  overwrite each other; crossing requests are both stored; a message stamped
  earlier and committed later becomes the last one shown.
- `OneLiveForgotToken`: overlapping forgot-password requests leave two tokens.
- `CacheFresh`: a check that races with a reset leaves the old value in the cache.
- `RefreshedIsCurrent`: a login that compares passwords while a reset commits
  gets tokens that survive the reset.
- Equal times (`NoGap` and `NothingOverlooked` without `Tied`): of two messages
  of one millisecond one can be lost between two pages (`$lt` in `findAll`), and
  entries with one `updated_at` may swap between two pages of the list, so that
  one of them is on neither.
- Ids in upper case, one call after the other (see "An id" in section 2; checked
  by asking TLC, with `MaxInFlight = 1`, for the properties with `Cast` applied
  to the ids). A user may send a second request to the same receiver under
  another spelling, beside a live one in either direction: check and index
  compare strings. The receiver is not shown that request and cannot decide it;
  the sender sees it as sent for good. A one-to-one conversation of two users can
  be stored a second time with one of the ids in upper case, and the user it
  names so is counted as a member but can neither open it nor see it in his
  list. A message that is posted under a conversation's id in upper case is
  announced, but stored under that id: it is in no page that is read under the
  printed id, and its pointer is a second one, which `lastConversations` never
  matches; a conversation with no other message is not listed at all. One
  remedy is to lower the case of every id in the pipe and the DTOs; another is
  to store ObjectIds.
- A failure after a forgot-password request has deleted the earlier tokens leaves
  the user without any, while an earlier mail may still be on its way.
- A friendship notification is never announced by an event; a client sees it with
  the next page it reads (hence `m.user # None` in `NoGap`).
- A user can befriend himself; the notification then goes into any of his
  one-to-one conversations, and messages in a conversation that was created for
  it reach his sockets twice.
- After a decline the check of `createRequest` lets the same sender ask again, but
  the unique index has no place for a second request: the call fails with a
  database error.
- A refresh that is answered after a logout gives the browser a new access token
  (`LogoutEndsAccess` fails with `Tabs = 2`).
- `refresh` gives its cookie a `maxAge` even if the login was not to be remembered.
- A request that is decided leaves the lists of requests, so a client that pages
  through them with `skip` misses one; `getFriends` and `getSendRequests` do not
  sort at all. The search shows one of several friendships of a pair, whichever
  the database returns last.
- An upload refused for its size has already been stored in `assets/temp`, and
  stays there; so does one whose user cannot be loaded. Nothing tidies up.
- A registration whose mail is not queued leaves an address that can neither be
  activated nor registered again.
- A session opened in the second after a reset may be refused its first refresh
  (up to one and a half seconds, `NewSessionRefreshes` is the exact bound).

## 7. Plan

Done, in this order: ChatStore, Messages, Friendships, Conversations, Chat with
ChatService (the core); Accounts; Sessions; Delivery; Avatars; AccountService;
Emails; Browser; Inbox; a proof module for each; the theorems that say which
overlaps do harm; equal time stamps in Delivery and Inbox; ids in both cases.

What could follow, most useful first:

1. **Repairs**: ids lowered when they arrive, so that the properties hold of users
   and conversations and not only of strings; a version of `createConversation`
   with a unique index and of `changeRequestStatus` that checks the status in its
   transaction, shown to make `OpeningsApart` and `DecisionsApart` invariants.
2. **Key files** with crashes inside the writes, composed with Sessions.
