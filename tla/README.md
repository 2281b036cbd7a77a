# A verification project for the LinkedIn-style microservices backend

The repository (`src/`) is a Node.js/TypeScript backend of nine services behind an
API gateway. Every service owns a PostgreSQL schema (Sequelize), answers HTTP
requests, and tells the others what happened through RabbitMQ. This directory
holds TLA+ models of the parts whose correctness depends on the *order* of
things: requests that interleave between two `await`s, statements that commit
one by one, and messages that are lost, repeated or delivered late.

## 1. Inventory

Everything runs on one event loop per process, and every `await` (SQL, bcrypt,
Redis, broker) lets another request in. No handler but `skill.repository.ts
endorse` uses a transaction, so a request is a sequence of separately committed
statements, each of which may be the last before an exception or a crash.

| Component | State | Operations that change it | What is hard | What makes it correct |
|---|---|---|---|---|
| connection-service | `connections`, `follows`, `blocks` | request, accept, reject, withdraw, follow, unfollow, block, unblock; publishes `connection.requested`, `connection.accepted` | status tested on a loaded row and written by id; a block torn down in four statements; unique index of one direction only | nobody is connected without both having agreed; events are true; a row never changes its pair; pairs nobody raced on are consistent |
| post-service: engagement | `reactions`, `comments` (tree, `ON DELETE CASCADE`), counters on `posts` | react, unreact, comment, remove comment, remove post; publishes `post.reacted`, `post.commented` | row and counter in two statements; counter corrected from a count read earlier; removal of parents | counters agree with the rows; replies have their parent; authors are told |
| post-service: posts, hashtags, feed | `posts`, `hashtags`, `post_hashtags` | create, update, remove, syncForPost; publishes `post.created`, `post.deleted` | two updates of the same post syncing their hashtags | the hashtags of a post are those of its text |
| shared: event bus | queues, dead-letter queue, unacked deliveries, retry timers | publishEvent, registerConsumer, the broker | lost confirms, lost connections, crashes, retries in memory, up to ten messages at once | what was confirmed is never lost; a handler that keeps failing ends in the DLQ |
| shared: connection manager | connection, pool of confirm channels, round-robin index | connect, establish, getPublishChannel, close | reconnect timer against close and against a pool that is being refilled | a channel that is handed out exists; close is final |
| auth-service | `users`, `refresh_tokens` | register, login, refresh, logout, forgotPassword, resetPassword, verifyEmail; publishes `user.registered` | bcrypt between check and write; sessions revoked while one is being granted | sessions go back to the current password; tokens are spent by use; accounts are announced |
| notification-service | `notifications`, preferences, cached unread count | six consumers that notify and one that mails, markRead, markAllRead, update of preferences | redelivery, cache filled from an older count, recipients one by one | the cached count is wrong only where an invalidation was missed; every recipient who wants it is notified, again only by a redelivery |
| search-service | four Elasticsearch indices | index/remove by event | retries let events of one document overtake each other | the index converges to the rows |
| user-service | profiles, skills, endorsements; experience, education and certification rows; profile cache | createFromRegistration, update, endorse, link/unlink; create, update, remove of a section | creation repeated by redelivery; counter against rows; two updates from copies that each write one end of a period | each account gets a profile and the others hear of it; a period ends after it begins |
| messaging-service | conversations, participants, messages, read marks | create, send, edit, remove, markRead; publishes `message.sent` | check-then-create of direct conversations in three statements; edits from a loaded copy | one direct conversation per pair; a message is its sender's; its event names the other participants |
| job-service | companies, jobs, applications, saved jobs | create, update, close, apply, updateStatus, save; publishes `job.created`, `job.applied` | closing against applying; edits from a loaded copy; applicant counter; updates not announced | closing closes; the counter agrees; the poster is told; the index has the jobs |
| media-service | `media`, object store, presigned URLs | upload, createPresigned, the client's own PUT, delete | two stores, no transaction, a URL that outlives its row | no READY row without its object, no object nobody finds |
| shared: rate limiter | Redis counters with expiry | one middleware | INCR and EXPIRE are two commands; errors let through | a window admits its budget, and ends |
| shared: pagination | none | offset and cursor pages, the feed's calls to connection-service | equal sort keys at a page's edge; rows and connections changing during a walk | pages cover the list once and show what the viewer may see |
| api-gateway | none of its own | authenticate, proxy | - | - |

How they interact: HTTP only from the gateway to a service (and from
post-service to connection-service, to decide who may see a post); everything
else goes through topic exchanges (`constants/events.ts`, `queues.ts`):
auth -> user, search (`user.registered`); user -> search (`user.updated`);
connection, post, job, messaging -> notification; post, job -> search.

`PROJECT.json` lists every component with its status, and under `hazards` every
place where a test would hardly reach what can go wrong, with the properties
that watch it.

## 2. Plan

1. `ConnectionService` - the core of the system's social graph.
2. `PostEngagement` - reactions, comments and their counters.
3. `EventBus`, implementing `DeliveryContract` - the one mechanism every other
   service relies on.
4. `AuthSessions` - accounts, refresh tokens, resets.
5. `SearchIndex` - an index as the result of events handled at least once and in
   no order, extended by each service that feeds one: `UserService`, `PostCatalogue`
   and `JobService`; composed in `MCSearch`.
6. `NotificationService` - consumers under redelivery, preferences, the unread
   cache.
7. `Messaging`, which extends it - direct conversations looked up and then
   created, `message.sent` and what it becomes; composed in `MCMessaging`.
8. `RabbitConnection` - the channel pool, its reconnect timer and `close`.
9. `MediaService`. 10. `RateLimiter`.
11. `Pages` - cursor and offset walks, the feed.
12. `ProfileSections` - experience, education, certifications. 8-12 run together
    in `MCShared`.

All are modelled and model-checked, and every safety property that a passing run
checks is also proved for all values of the constants (section 5), the refinement of
`DeliveryContract` included. Worth doing next: that `SearchIndex` is what a consumer
of `DeliveryContract` sees, as a refinement between the two abstractions; and, where
a proof uses an assumption the code justifies only by convention (keys distinct from
users, finitely many users), a weaker one.

## 3. The modules

All modules share one way of modelling a request. A *handler* is a process with a
record for its local variables: `pc` names the statement it is about to execute,
`"idle"` that it does not run, and the other fields hold what it loaded. One
action executes one statement (or a stretch without `await` between two
statements) together with the guard in front of it. A guard that fails ends the
request; as nothing is written then, the action is simply not enabled, and the
comment behind the guard names the HTTP status. `Fail` ends a request at any
`await`: the statement threw, or the process died. Sets of handlers are
constants, so a run with two handlers explores every interleaving of two
requests of any kind, including two of the same.

History variables never guard an action; they say which interference happened,
so that a property can except precisely that and nothing else.

### ConnectionService

`row` is the `connections` table (a row: requester, addressee, status), `follows`
and `blocks` are sets of ordered pairs, `handler` the requests in progress with
the copy of the row they loaded, `accepted` the `connection.accepted` events
confirmed. Histories: `consent` records who asked for or accepted a connection,
`raced` the pairs two handlers worked on at once, `halfDone` those whose block
died half way. `RequestCheckBlock`, `RequestFind`, `RequestRevive`,
`RequestCreate`, `RequestPublish` are `request`, statement by statement;
`Accept...`, `Reject...`, `Withdraw...`, `Block...`, `Follow...` likewise, and the
one-statement `Unblock` and `Unfollow` are one action each. The write of a
Sequelize instance (`SetStatus`) changes only the status and addresses the row by
id alone, as `row.update` does.

### PostEngagement

`reactors` (who reacted to each post) with its counter `likes`, `comment` (the
rows, each with its parent) with its counter `commentsCount`, `deleted` (posts
soft-deleted) and `told` (events confirmed). `CommentFindParent` and
`CommentCreate` are two statements: the foreign key, not the check, is what keeps
a parent in place. `RemoveTally` counts the comment and its direct replies,
`RemoveDelete` removes the whole subtree (`Subtree`, what `ON DELETE CASCADE`
does), `RemoveCount` corrects the counter by the tally read earlier. Histories:
`failures` counts the handlers that died per post, `deep` and `overlapped` mark
posts with replies to replies and with a removal that overlapped another comment
handler.

### DeliveryContract and EventBus

`DeliveryContract` is what a service may rely on: an event that was promised
(its publish returned) is *open* until it is acked or buried in the dead-letter
queue, is handled at least once before it is acked, may be handled again, and is
missed only if it was promised before the queue existed. It has no channels, no
crashes and no retries.

`EventBus` is the code: `publishEvent` with its three attempts and its backoff,
the broker's confirms, one consumer process with its prefetched deliveries
(*runners*), the in-memory retry loop, ack and reject on a channel that may be
gone, the connection's `close` handler that reconnects without registering the
consumers again (`connection.ts`), process exit and restart. `KeepsContract`
states the refinement with the mapping at the end of the module.

### AuthSessions

One email address: `account` (the row), `token` (every refresh token issued, with
whom it was exchanged for, and whether its row is still in the table), `mailed`
(reset tokens), `handler`, `announced`. Passwords are model values; a hash is
what it is the hash of. A session remembers the password whose check granted it.

### SearchIndex, UserService, PostCatalogue, JobService, ProfileSections

`SearchIndex` is what `DeliveryContract` leaves of the bus for one index: `mail`
holds the messages not yet settled, each of which may take effect (`Handle`) any
number of times and in any order before it is acked or buried. With a bound on
the events per id (at most the consumer's prefetch) that is every schedule of the
prefetched handlers. A message carries the whole document or `None`, a deletion.
`crowded` marks ids with an event sent before the last one was settled: of those
the last *handled* wins, so an index may stay behind for good. `buried` marks dead
letters. The properties of the index speak about the other ids (`InStep`); what
they except is listed as a hazard.

`UserService` extends it: `registered` is the copy of `user.registered` in the
profile queue, which `createFromRegistration` may see again and again, `profile`
the row as a function from columns to values, `skill` and `endorsed` the counter
and the rows of endorsements. `update` and `setAvatar` are the same three steps
with other columns. The endorsement transaction is modelled with its lock: the
unique constraint makes a second holder of the key wait (`SameKey`). The events of
overlapping updates carry stale copies of each other's columns, and the profile
cache is invalidated but nothing ever fills it.

`PostCatalogue` extends it: `text`, `deleted`, `links` (hashtags linked) and three
requests, `create`, `update` and `remove`, with `syncForPost` in the middle of the
first two. Updates of a post are not announced (`POST_UPDATED` is consumed, never
published), so `IndexFollowsPost` only promises the text of posts never edited;
removed posts keep their hashtag links.

`JobService` extends it too. A job is its `company`, `poster`, `advert` (every column
a posting may change but two), `isActive` and `applicantsCount`; `application` holds
the status by job and applicant, `told` the `job.applied` events confirmed, `saved`
the saved jobs. A company takes its name's slug or, when that is taken, a suffixed
one, in a second statement that the unique index may refuse. `JobWrite` and
`StatusWrite` write the columns that differ from the copy loaded before, as Sequelize
does, and `fresh` in a request says that nobody wrote the row since. Histories:
`uncounted` (applications whose counting failed), `untold` (jobs with an event that
was not published), `reworded` (jobs updated after their only announcement). `job.created`
is the only event the jobs index gets: a closed job stays in it.

`ProfileSections` is the rest of a profile: rows of three kinds with a period. A body
is validated as it comes, merged into a loaded copy, and written column by column
that differs; two bodies, each valid, may meet in one row. `mixed` marks those rows.

### NotificationService, Messaging

`NotificationService`: `event` holds the events that reached its queues (recipients,
category, copies, runs of the handler), `notification` the rows, `preference` the
rows of preferences, `unread` the number Redis keeps, `consumer` and `reader` the
handlers and requests in progress. A handler asks, creates and invalidates for one
recipient after another; a failure at any of these runs the whole event again.
`UnreadGet`, `UnreadCount`, `UnreadSet` are the three awaits of the cached count, and
any write of rows is followed by an invalidation that may fail. An event enters `event`
when its queues hold it; one published before this service ever bound them reaches
nobody, and is the publisher's loss (`unsent`). `outdated` marks users
whose number an invalidation missed, or passed while a reader still held an older
number; expiry of the entry clears it. `wavered` marks recipients whose preference
changed while the event was open.

`Messaging` extends it. `CreateLookup`, `CreateInsert`, `CreateJoin` are the three
statements of a conversation; a row without participants is left behind when the
last fails. `SendStart`, `SendInsert`, `SendBump`, `SendPublish` are `send`;
`SendPublish` puts the event into `NotificationService`'s `event`, which is where the
two services meet; it names each participant but the sender once, in the order the table
happens to have. `OtherServices` is an event of any other service. `MessageFind` and `MessageWrite` are `edit` and `remove`, writing
the loaded copy's differences by id. `MarkReadFind` and `MarkReadWrite` are the two
statements of a read mark. `crossed` marks pairs for whom two requests
opened a conversation at once, `unsent` messages whose event reached no queue: the request died, or the
publish failed or found no queue.

### RateLimiter, RabbitConnection, MediaService, Pages

`RateLimiter`: `hits` and `expiring` are Redis' counter and time to live of a key,
`call` the requests between two commands. Each command may be executed without an
answer, and a request that gets none is let through (`IncrUnanswered`,
`ExpireUnanswered`, `CallFails`). Redis is assumed to keep what it was told.

`RabbitConnection`: the fields of the connection manager under their names, with
`connecting`, `timer` and `closing` for where its asynchronous functions are;
`publishChannels` names each channel by its connection, which is how a channel of a
lost connection would be seen. Losing a connection rejects what is awaited on it in
the same step. `gaveUp` says that the last attempt failed: the timer's `connect()` is
not retried, unlike what `connection.ts:9` suggests.

`MediaService`: `media` (rows), `objects` (the bucket), `grants` (presigned URLs still
valid) and `working`. The client's PUT may come at any time while its URL is valid,
also after the row was deleted. The histories name each way in which the two stores
come apart.

`Pages`: a client walks through one list, by cursor or by offset, while rows are
created, updated and removed and connections change. Each list of the services is an
action of its own (`GetFeed`, `PostsByHashtag`, `ListComments`, `ListThread`,
`ListForRecipient`, `ListJobs`, `ListCompanies`, `Search`), made of `CursorPage` or
`OffsetPage`. `Refused` is a page that was denied, as that of a post the client may no
longer see, or a search that failed: the walk ends there. Elasticsearch answers no page
beyond the first 10,000 hits (`index.max_result_window`) and counts no further, which
are the constant `ResultWindow`. `GetIds` and `GetFeed` are the
two steps of a feed request: what connection-service answered, or that it did not
(the feed does without), and the query. `ParsedLimit`, `CursorAfter` and
`HasMorePages` are the helpers of `pagination.ts`. `steady` holds the rows listed ever
since the walk began, against which its pages are compared, except those edited between
the two steps of one request: when, after `GetIds`, the author of a followed public
row gets connected and then narrows it to connections, the row was in the feed at every
moment and the query with the older ids still skips it.

`Absent` declares the null that these modules share. `MCSearch`, `MCMessaging` and
`MCShared` compose: where components share no state, one of them is explored at a
time, which loses no behaviour of any of them.

## 4. The runs

| Run | Question | Instance | Result |
|---|---|---|---|
| `connections` | Do two requests of any kind keep consent, events, pairs? | 2 users, 2 rows, 2 handlers | pass |
| `connection_block_race` | Does block tear everything down, as its comment says? | same | violated |
| `engagement` | Do counters, replies and events agree with the rows? | 2 users, 2 posts, 2 comments, 2 handlers, 1 failure | pass |
| `comment_cascade` | Does removing a comment correct the counter? | 1 handler, 3 comments | violated |
| `bus` | Does the bus keep its contract, and settle everything while the consumer stays connected? | 1 event, 2 runners, 1 publish retry, 2 handler retries, 2 breaks, fair | pass |
| `bus_deaf_consumer` | Does every failed message land in the DLQ? | fair, 1 event | violated |
| `auth_sessions` | Sessions, rotation, resets, registration | 2 passwords, 3 refresh tokens, 1 reset token, 2 handlers | pass |
| `auth_reset_race` | Does a reset revoke every session? | 2 refresh tokens, 2 handlers | violated |
| `search` | Do profiles, endorsements, hashtags, applications and the three indices agree under redelivery, failures and overlap? | 1 user with 2 columns and 2 endorsers, or 1 post with 2 texts and 3 editors, or 1 job with 2 companies, 2 people and 2 clerks; 4 events | pass |
| `messaging` | Are conversations, messages and notifications what was asked for, under redelivery? | 3 users, 2 conversations, 1 message, 2 chats, 2 consumers, 2 readers, 2 copies, 2 runs | pass |
| `direct_group` | Is a direct conversation never a group? | 2 users, 2 conversations, 1 chat | violated |
| `shared` | Do limiter, connection manager, media, pages and sections keep their promises? | 3 calls, budget 2, 2 windows; pool of 3, 3 connections; 2 files, 2 requests; 3 rows, 3 members, 2 times, 2 changes during a walk; 1 section, 2 editors, 2 dates | pass |

Why these bounds are enough to be interesting: every property relates at most two
requests and one interruption, and each instance has two of every actor the
property speaks about. Three refresh tokens are needed so that one token can be
exchanged twice; two reset tokens would only let a newer one be cleared by an
older reset (explored in `auth_reset_race`, and covered for all values by the
theorem); three levels of comments are the smallest tree on which the cascade and
the count of direct replies differ; two breaks let a connection be lost, restored
and lost again, and leave a handler its last attempt; one failed handler per post
is enough to tell a counter that drifts by one per failure from one that drifts
further. Four events about a user are its registration, its first profile and two
updates; three requests on one post are a removal beside two writers, one of which
may be its creation. Two copies of an event are what one lost confirm makes, and two
runs what one failure makes; two recipients are enough for one of them to be
notified and not the other. Three calls with a budget of two are one too many; two
windows let a request be decided after its window ended; one key is enough, since
keys share nothing. Three connections are one lost, one lost while its pool is
filled, and one that lasts. Three rows with pages of at most two make a second page
whose edge may fall between rows of one time; a result window of three
lets the third page of one row through and refuses the second page of two; two changes during a walk are the fewest
that connect a row's author and edit the row between the feed's two calls. The bounds are constants (`RowIds`,
`Tokens`, `MaxFailures`, `Retries`, `MaxRetries`, `MaxBreaks`, `MaxSent`, `MaxCopies`,
`MaxRuns`, `Asked`, `Bodies`, `Verdicts`, `MaxWindows`, `MaxHits`, `MaxLinks`,
`MaxChanges`, `ResultWindow`) or the named constraints of the MC modules:

* `FewSideShows` (`MCAuthSessions`) explores verification only before the first
  session, and at most one expired live token, only while one is unissued.
* `OtherPostsOnlyHoldComments` (`MCPostEngagement`): the second post is there for
  the comments whose parent is named under another post, nothing else.
* `IndexAtStake`, `SkillsAfterProfiles`, `JobsInTurn` (`MCSearch`): what comes after an
  event was crowded or dead-lettered is not explored, as the index is excused from
  then on and no table depends on it; skills on a settled profile; a second company
  only before there are jobs, a second applicant only while the advert never
  changed, verdicts and saved jobs beside few failures.
* `KeysInOrder`, `ChatsInTurn`, `NoticesInTurn` (`MCMessaging`): keys are given out in
  order; messages in the first conversation, not beside one being created; one
  event at a time in the notification queues, with what its recipients read.
* `PagesAtStake` (`MCShared`): before a walk begins, no rows were removed and nobody who
  is followed is connected; both may happen while it is under way. During a walk,
  connections change only for the feed, the one list that asks for them, and rows that
  are not public exist only in the lists of posts.

Many invariants name, with a history variable, the runs in which the code does go
wrong (`raced`, `crossed`, `overtaken`, `crowded`, ...): they do not claim that the
hazard is absent but that nothing else leads to it. The notes of the hazards in
`PROJECT.json` say for each which history that is; where a comment or a doc of the
repository denies it, a `violated` run exhibits it.

`createdAt` stands for the score in a search; the two queries of `findAndCountAll`
are one step. Symmetry is declared for sets of interchangeable model values and in
no run with a liveness property.

`CHECK_DEADLOCK FALSE`: the services may really stop, when nobody sends a request
or the bounded supply of rows, tokens or events is used up.

### The five violations

Each states a sentence of the repository's comments or docs, and TLC shows a
behaviour of the code that contradicts it; `PROJECT.json` quotes them.

* `BlockTearsDown` (`block.service.ts:9-10`): a follow or request that checked for
  blocks before the block was stored creates its edge after the tear-down.
* `RemovalCorrectsCounter` (`comment.service.ts:68`): sequentially, with no
  failure, removing a comment with replies of replies leaves the counter too high.
* `FailedLandsInDLQ` (`docs/events.md:109`): after a reconnect no consumer is
  registered, so a requeued message waits for ever.
* `ResetRevokesAllSessions` (`auth.service.ts:153,162`): a login or refresh under
  way inserts its session after the reset deleted them.
* `DirectIsNotAGroup` (`participant.repository.ts:35-36`): the lookup of a direct
  conversation counts participants and never reads `is_group`, so a group of two is
  given out as their direct conversation.

### Fairness

Only `EventBus` states fairness (`FairSpec`, runs `bus` and `bus_deaf_consumer`), and only of things the code or its
deployment do by themselves: Node fires timers (the backoffs and the reconnect
timer), an awaited promise of a handler or a publish settles, the broker delivers
to a registered consumer and processes acks, and `infra/docker-compose.yml:4`
restarts a container that exited. Nothing is assumed about events that a user or
the network decides: publishes, breaks, crashes. `ConnectedConsumerSettles`
has the hypothesis that the consumer stays connected from some time on;
`bus_deaf_consumer` shows what happens without it. The other models promise no
progress: no code retries a request or a failed reconnect, and a Redis key that
never expires, or a walk nobody continues, is what the code allows; so what must
eventually happen there is stated as who still has to act
(`CountersExpire`, `LostLinksAreReplaced`).

## 5. The proofs

All theorems hold for every value of the constants. The assumptions are the named
`ASSUME`s of the modules, which TLC evaluates on every run: a null is no member of the
sets it is added to (each `None...`, `NoRun...` and `...RowAssumption`, which for records
says no more than that the null is not one of them; `ToldAssumption`: no comment's key is
a pair of a post and a user); bounds are natural numbers, and those that must not be 0
are not; sets whose members are counted are finite (users, endorsers, handlers, the
places of a consumer); functions such as the author of a post have their domains; and
the ids of the documents are those of their index. Every proof is checked by tlapm to
the last leaf.

An invariant that a run checks is rarely inductive: requests write from what they loaded
earlier, so each proof first says what such a copy still guarantees when it is used.

* `ConnectionService_proofs` - `TypeCorrect`; `ConnectionsAreMutual`: that an
  accepted row joins two who agreed is not inductive, because handlers write from
  stale copies. The invariant adds what a copy still guarantees: the loaded
  requester asked, and a handler about to accept has an addressee who is the one
  accepting; a revival that swaps the row records the new asker first.
  `AcceptedEventsAreTrue` follows the same copies up to the publish;
  `RowsKeepTheirPair` is an action property: the pair is never written but by a
  revival, whose two users are the pair's. `PairsStayUndisturbed`: a pair nobody raced
  on has one request in flight, whose lookups are therefore still true when it writes
  (`Undisturbed`), and the deletions of a block last until it ends (`PairInv`).
* `PostEngagement_proofs` - `TypeCorrect` (with the facts that a request in progress
  holds what its next statement needs and that a row's key was given out);
  `RepliesKeepTheirParent`: a stored reply has its parent and the parent is of the
  same post, because keys are never reused and the cascade takes every reply of what
  it takes (`Subtree` is closed under replies); `LikesFollowReactions`: the counter
  differs from the number of reactions by the handlers still between a row and the
  counter and at most one per handler that died. The invariant is that equation,
  and a lemma moves one handler in and out of the two counting sets.
  `CommentsAreCounted` balances the same way, but a removal owes the counter a number
  that it read before it deleted: `CommentInv` says that on a calm post a removal is
  alone, its tally is the size of what it will take, and what it took is what it still
  owes. `AuthorsHear`: every stored reaction and comment was told or has its own request
  still before the publish (`TellInv`).
* `EventBus_proofs` - `TypeCorrect`, `ConfirmedEventsAreKept`: an event's confirm in
  flight already implies that a copy is queued, in a live delivery, acked or
  dead-lettered (or was never routed), and a lost channel requeues the deliveries it
  held. `UntroubledOnce`: without trouble there is one copy, in one place at a time
  (`OnceInv`). `BusKeepsContract` is the refinement of `DeliveryContract`, step by step:
  a copy stored by the broker is `Accept` (`Miss` without a queue), a publish that returns
  `Promise`, a handler's effect `Handle`, its failure `FailRun`, the broker's ack and
  reject `Settle` and `Bury`, the rest stutters. The contract's guards count, and
  the invariant pays them (`ContractInv`): each ack and each run about to ack has an
  effect of its own that no other ack used (`AcksPaid`), each dead letter all its failed
  attempts and each run those it counts (`BurialsPaid`).
* `AuthSessions_proofs` - `TypeCorrect` together with `LoadedInv` (what a request
  holds when its next statement writes it: without it the type of the account
  after `resetPassword` is not inductive); `AccountIsRegisteredOnce`;
  `EveryAccountIsAnnounced`; `ResetTokenWorksOnce`, from the invariant that the
  stored token was mailed and has not worked, that a token not mailed is in
  nobody's hands, and that two requests holding one token crossed;
  `ExchangedTokensAreSpent`, from: a parent is spent, a presented token was
  issued and is spent when its successor is due, two requests that hold one token
  crossed, and a request still holding an exchanged token crossed.
  `SessionsFollowThePassword`: also the requests about to grant a session go back to the
  current password (`GrantersCurrent`), since a reset's second write notes whom it
  overtook.
* `UserService_proofs` - `TypeCorrect`, with the fact that a profile being updated
  exists; `ProfilesAreKept`, an action property of the same invariant;
  `EndorsementsAreCounted`: the counter is at most the committed endorsements, which
  needs that of all transactions between insert and commit no two hold the same key
  and none holds a committed one. `IndexIsFollowing`: the index of an id nothing crowded
  or buried comes to a document (`LastIs`): the message still in `mail` carries it, or
  none is left and the index has it. The invariant follows the profile to that document
  through the one request that writes or announces it (`CopyIsProfile`, `IndexLeads`).
* `Catalogue_proofs` - extends the account of an index to the two others. Posts:
  `PostTypeCorrect`; `HashtagsAreFollowing` (`TagsAt`: with one writer, the links are the
  text's or that writer has yet to make them); `PostIndexIsFollowing` (removed posts come
  to nothing, others to the text they were created with). Jobs: `JobTypeCorrect`, with
  what a request found still being there when its statement comes; `JobsAreAsked`, an
  action property; `ApplicantsAreCounted`: counter, lost counts and counts still owed add
  up to the applications (`CountsAgree`); `JobIndexIsFollowing`. `SearchTypeCorrect`
  types the three beside each other, as `MCSearch` runs them.
* `Messaging_proofs` - about `MessagingSpec`, in which the two services run beside each
  other; `TurnsAreSteps` shows that the `MCSpec` of the run, where they take turns, has no
  other behaviours. `MessagingTypeCorrect`, with what each delivery and request holds;
  `SendersKeepTheirMessages`, an action property; `PairsKeepOneConversation`: of two who
  did not cross, at most one request is opening, and then there is no conversation
  (`OneEach`). `NotifiedAsWanted` counts: the rows a recipient has from an event and
  those deliveries that have yet to reach it are at most the runs (`Bounded`); who wants
  it has a row behind every delivery that passed it (`Served`); nobody else has or will
  have one (`Wanted`). `MessagesReachTheOthers` goes through both services.
  `UnreadIsRight`: a number in Redis, or in the hands of a reader no invalidation
  missed, is the number of unread rows, unless an invalidation is due (`UnreadInv`).
* `Shared_proofs` - the five small components, each as its own specification.
  - Rate limiter: `LimiterTypeCorrect`; `WindowsAreKept`: a count held or let through in
    the current window is at most the counter's value, and none was held in a window
    to come, so no two are the same.
  - Connection manager: `RabbitTypeCorrect`; `ManagerKeepsHold`: a dial starts from no
    connection (so none is overwritten), `closing` and `closed` agree, and a second
    publisher misses a channel only on another connection.
  - Media: `MediaTypeCorrect`; `ObjectsAgree`: an upload is alone with its key until its
    row exists, what has a row or an object was issued, and what a deletion past its
    first step has already removed.
  - Sections: `SectionTypeCorrect`; `PeriodsAreSensible`: the columns a request holds,
    its body merged into the copy, make a sensible period as a whole, and its row is
    still of the kind that was loaded, or removed (`EditsFit`); they replace the row's
    unless two requests met.
  - Pages: `PagesTypeCorrect`; `WalksAreComplete`: what was seen lies behind the cursor
    (`SeenIsBehind`); what the feed's first call answered covers the rows listed all
    along until its second (`KnownCovers`); by offset, what was seen is the top of the
    list (`ShownFromTop`). Pages are the newest rows by `Newest`, whose lemmas take the
    well-foundedness of the numbers.
  - `SharedTypesCorrect` types the five beside each other, as `MCShared` runs them.

`KnownCovers` is where a first statement of `WalksCoverTheList` failed: it promised every
row listed all along, and a row edited between the feed's two calls may be skipped (see
`Pages`). The run had missed it, with one change to a walk; it now has two.

Not proved, only model-checked: `ConnectedConsumerSettles`, since liveness under fairness
is out of the prover's reach, as are ENABLED and induction over data; and the five
violations, which are counterexamples. `EveryAccountIsAnnounced`, the types of
`AuthSessions` and `TurnsAreSteps` are proved and in no run.

## 6. What is not modelled

Access tokens (signed, never stored), roles, pictures and banners, texts, filters of
lists, scoring, autocomplete, the trending hashtags, the view counter and other reads
and writes that nothing else depends on; the consumer that sends mail, which only calls
SMTP (nothing, when SMTP is not configured); validators and controllers, which decide
whether a request starts and how it is answered; the gateway, which verifies a token,
sets headers and forwards; seeds and compose files. Data that no property distinguishes
(the kind of a reaction, the note of a request, an event's payload) is left out.

Met while modelling, and no property is about them:

* `docs/events.md:62` gives the envelope an `eventId` for deduplication; the code's
  `EventEnvelope` has none, and no consumer deduplicates. `NotificationService` shows
  what follows: one more notification per further run.
* The limiter counts in fixed windows (`rateLimiter.ts`), where `docs/architecture.md:181`
  says token bucket.
* `connection.ts:9` says "auto-reconnects"; one failed attempt ends it (`gaveUp`).
* Some publishers and consumers name the fields of an event differently (`actorId`,
  `type` against `userId`, `reactionType`), so texts of notifications come out with
  blanks.
* A presigned upload's row stays PROCESSING: nothing in the repository consumes the
  events of `media.processing` or marks it READY. Nothing feeds the companies index.
  `POST_UPDATED` is consumed and never published.
