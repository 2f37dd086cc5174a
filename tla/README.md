# A TLA+ model of the TrustFeed API

TrustFeed (`backend/`) is an Express API in front of MongoDB (documents, unique
indexes, atomic single-document updates) and Redis (revocation markers, token
blacklist, feed cache, BullMQ). Handlers are `async` functions: every `await` is
a point where any other request of the process, or of another instance of it,
may run. That is where the interesting behaviour is, and it is what the modules
here keep: **one action per awaited call that reads or writes shared state**.

## 1. Inventory

| Component | State it keeps | Operations | Talks to |
|---|---|---|---|
| Sessions and refresh tokens (`service/auth.service.js`, `service/session.service.js`, `repositories/.../session.repository.js`, `models/session.model.js`) | Mongo `sessions`: owner, current token hash, `lastActiveAt`, `expiresAt`, `revokedAt`; Redis `session:revoked:<sid>`, `auth:blacklist:<token>`, `auth:refresh:<user>` | issue, refresh (rotate by compare-and-set, reuse detection), revoke one, revoke all, logout, idle sweep, legacy migration | users, audit, the auth middleware |
| Auth middleware (`middleware/auth.middleware.js`) | none | blacklist read, JWT check, marker read, user read | Redis, users |
| Accounts (`service/user.service.js`, `repositories/.../user.repository.js`) | Mongo `users` | register, login, delete account (placeholder, revoke all, reassign posts and comments, drop likes and follows, erase) | sessions, posts, comments, likes, follows |
| Posts (`service/post.service.js`, `post.repository.js`) | Mongo `posts` with an optimistic `version` | create, update (compare-and-set), delete, list | audit, feed cache |
| Comments (`service/comment.service.js`, `comment.repository.js`) | Mongo `comments`, unique `{authorId, idempotencyKey}` | create with replay, list | posts, follows, audit, notifications |
| Follows and likes (`follow.service.js`, `like.service.js`, repositories) | Mongo `follows`, `likes`, unique pairs | create, remove, query | audit, feed cache, notifications |
| Feed and its cache (`service/feed.service.js`, `post.repository.js` cursor) | Redis `feed:version:<user>`, `feed:cache:...`, `feed:timeline:...` | read-through page read, version bump, fan-out, keyset pagination | follows, posts |
| Notifications (`notification.queue.js`, `notification.worker.js`, `notification.service.js`, `notification.repository.js`) | BullMQ queue and dead-letter queue, in-process dead letters, Mongo `notifications`, unique `dedupeKey` | publish, deliver, retry, dead-letter, inline fallback, list, mark read | users |
| Idempotency middleware (`middleware/idempotency.middleware.js`) | Redis `idem:<identity>:<key>`: pending or a stored response | claim, replay, conflict, store on finish | Redis |
| Roles and permissions (`admin.controller.js`, `role.middleware.js`, `seed.js`, `role`/`permission` repositories) | Mongo `roles`, `permissions` | admin CRUD, per-request permission gate, boot seeding, default role upsert | users |
| Rate limiters (`ratelimiter.middleware.js`, `authlimiter.middleware.js`) | Redis counters per key and window | count, reject | Redis |
| Process lifecycle (`index.js`, `configs/database.js`) | server, sweep timer, `shuttingDown` | boot, serve, graceful shutdown with bounds | worker, Mongo, Redis |
| Audit log (`audit.service.js`, `audit-log.model.js`) | Mongo `auditlogs`, append only | record (never throws) | every mutation |
| Health probes (`health.controller.js`) | none | liveness, readiness with a timeout race | Mongo, Redis |
| Errors, validation, CORS, correlation, logging, metrics, console, contract check | counters only | pure request shaping | - |

The hard behaviours, and the properties they call for, are the `hazards` of
`PROJECT.json`, each at its line.

## 2. The modules

Every module has the same shape. Mongo and Redis are variables; a request (or
job, or timer) in flight is a record `req[r]` with a program counter `pc` and the
values its handler holds across awaits; an action is what the code does between
two awaits, early returns included. Requests start at any time (`Start`), go on
(`Continue`) and, where faults are switched on, stop at any await (`Fail`): the
call was rejected or the process died, and what was already written stays.
Single-document operations of Mongo and single commands of Redis are atomic;
`find` followed by `updateMany` is two steps. Logging, metrics, response bodies
and the wording of errors are left out.

| Module | Code | Checked by |
|---|---|---|
| `Sessions` | `auth.service.js`, `session.service.js`, session repository, auth middleware, session part of account deletion | `MCSessions`: `sessions`, `sessions_faults`, `late_rotation` |
| `TokenChain` | what the session store promises, abstractly | `ChainSpec` in `sessions` |
| `SessionsRefinement` | the mapping from `Sessions` to `TokenChain` | `sessions` |
| `SessionsProofs` | theorems about `Sessions` | TLAPS |
| `Feed` | `feed.service.js`, `post.service.js`, `follow.service.js`, cursor pagination | `MCFeed`: `feed_cache`, `feed_faults` |
| `FeedProofs` | theorems about `Feed` | TLAPS |
| `Notifications` | publish, BullMQ queue, worker, inline runner, delivery, marking read | `MCNotifications`: `notify_live`, `notify_once` |
| `NotificationsProofs` | theorems about `Notifications` | TLAPS |
| `Interactions` | `comment.service.js`, `like.service.js`, visibility gate | `MCInteractions`: `interactions` |
| `InteractionsProofs` | theorems about `Interactions` | TLAPS |
| `Accounts` | registration and account deletion, `user.service.js` | `MCAccounts`: `accounts` |
| `AccountsProofs` | theorems about `Accounts` | TLAPS |
| `Idempotency` | `idempotency.middleware.js` | `MCIdempotency`: `idempotency` |
| `WriteOnce` | what an idempotency key promises, abstractly | `OnceSpec` in `idempotency` |
| `IdempotencyRefinement` | the mapping from `Idempotency` to `WriteOnce` | `idempotency` |
| `IdempotencyProofs` | theorems about `Idempotency` | TLAPS |
| `Roles` | `seed.js`, `admin.controller.js`, `role.middleware.js`, permissions in the auth middleware, default role of a registration | through `Gateway` |
| `RateLimit` | `ratelimiter.middleware.js`, `authlimiter.middleware.js`, the Redis store's script | through `Gateway` |
| `Gateway` | composes both as `app.js` does: authentication, the quotas of the path, the gate, the handler | `MCGateway`: `gateway` |
| `GatewayProofs` | theorems about `Roles`, `RateLimit` and `Gateway` | TLAPS |
| `Lifecycle` | `index.js`, `database.js`, start and stop of the worker | `MCLifecycle`: `lifecycle` |
| `LifecycleProofs` | theorems about `Lifecycle` | TLAPS |

### Sessions

State: the clock `now`; Mongo's `users`, the stored session ids `docs` and their
contents `sess` (owner, hash of the current refresh token, `lastActiveAt`,
`expiresAt`, `revokedAt`); the tokens clients hold, `issued` with their claims
`tok` and `access`; Redis' `marker`, `blacklist` and `legacy`; the requests `req`.
`lost` and `audited` are history: sessions whose marker was not written, and
users with an audit entry of a reuse. A refresh token carries a random nonce, so
a token is a model value and stands for its own hash; an access token has no
nonce and is exactly its claims.

`refreshSession` is `RefreshRequest`, `FindSession`, `FindUser` and `Rotate`: the
session is read, then the user, then the hash that was *read* is compared and
the rotation is a compare-and-set against the hash that is *stored*
(`RotateMatches`). A mismatch goes to `FindAll`, `RevokeMany`, `Mark` (one marker
per step, in any order) and `AuditReuse`; a missing session goes through the
legacy migration `LegacyGet`, `LegacyDel`, `CreateSession`. Revoking, logging out
and deleting the account first pass the middleware in three steps (`AuthRequest`,
`CheckMarker`, `LoadUser`). The sweep is `SweepRequest` (its cutoff is taken
here), `RevokeMany`, `Mark` and `Purge`.

Properties. `OneRedemption`: a token bound to a session buys one new pair at
most. `RevocationHolds`: the access tokens of a revoked session are rejected for
as long as they live, if they were signed by the time of the revocation and the
marker was written. `GlobalRevocationComplete`: a bulk revocation misses no
session that was there when the request came. `TokenHasSession`: the cleanup
removes no session under a refresh token that is still valid. `SealedForGood`: a
session that ended and that no refresh has already read yields nothing more.
`MigrationEnds`: a legacy entry that is gone, and that no request has read, never
yields a session. `ChainSpec`: all of it is a behaviour of `TokenChain`, in
which a session is a chain of tokens with one current, a bulk revocation is one
step and a life only moves forward.

### Feed

`posts` (state `feed` for public and followers-only, `hidden` for private,
`none`), `follows`, the counters `version` and the `cache` of pages, each under
user, version and cursor. A post's number is its place in the keyset order
(`createdAt`, `_id`), so `Older`, `Newest` and `PageOf` are `findManyCursor`. A
reader walks pages as a client does: `ReadVersion`, `ReadCache`, `ReadFollowing`,
`ReadPosts`, `Store`, `NextPage`. A writer creates, updates (`Locked` is the
compare-and-set on the version), deletes, follows, unfollows or has its account
deleted, and then announces it: `Fanout`, `FindFollowers` and one `Bump` per
follower. Viewers and authors are separate sets. The history variables `steady` and
`barred` of a walk hold the posts that were in, or out of, the feed when it began,
with no mutation of theirs in flight.

Properties. `CacheCoherent`: with no announcement outstanding, a page stored
under a current version is the page the database gives now; the hazard is a page
read before a mutation and stored after it. `WithdrawnStaysOut`: what was hidden,
deleted or unfollowed before a walk began is on none of its pages.
`WalkComplete`: a finished walk has shown every post that was in the feed
throughout. `NoRepeat`: no post comes twice.

### Notifications

An event is a comment, like or follow with its `dedupeKey`. A request inserts it
(after a replay lookup when it has a key) and publishes it. In `SubmitFails` Mongo
rejects a call before that, the request ends with the error and publishes nothing,
and the rejected insertion may have happened. With the queue up
`Publish` adds a job, and without it the request runs the attempts itself. A
worker slot takes a job and delivers: `ReadUsers`, `FindExisting`, `Create`, each
of which may fail, the insertion also after it happened. `Threw` is an attempt
that failed, on either path; `HandleFailed` is the listener of the worker's
`failed` event; `RecordDeadLetter` writes to the durable queue or to the bounded
buffer. `WorkerError` is the `error` event after which the process forgets the
queue while the worker runs on. `MarkRead` is the one update a reader makes. BullMQ is
external: `Added`, `FailedJob`, `Stall` and `Crash` say what its documentation promises (a job id is unique, attempts are
counted, stalled jobs are handed out again and given up after that).

`lost` is history: an event is put there at the five places where a fault takes it out
of the program's hands, and nowhere else. An insertion that happened is reported as
failed; the process dies while only it holds the event (`InMemory`); the queue refuses
the job; BullMQ gives up a stalled job whose attempts are not used up, for which the
listener writes no letter; the full letter buffer drops its oldest.

Properties. `AtMostOneNotification`. `NothingLost`: a published event is being worked on,
delivered, dropped on purpose, a dead letter or `lost`, so that handing it from one part
to the next never forgets it, whatever fails. `AnsweredIsPublished`: once a request for
an event was answered, the event is published, about to be by the one request that
inserted it, or lost with that request, and no event is published twice.
`EventuallySettled`, the liveness property: a published event ends settled or `lost`.

### Interactions

Posts with their visibility, follows, `docs` for comments and likes, how often
each document's event was `published`, and the `answers` submitters of a key
got. `FindPost` and `FindFollow` are the two reads of the visibility gate;
posts and follows change between any two steps. `open` and `changes` of a request
are history: whether the caller could see the post at some moment since it
arrived, and how much changed between the two reads.

Properties. `SameComment`: all submissions of one key by one user are answered
with one comment. `PublishedOnce`: its event goes out once, by whoever stored
it. `GateSound`, an action property: whoever passes the gate could see the post
at some moment of the request, save for the interleaving described in section 5.

### Accounts

`users` with name and email, the ids `gone`, the documents that name a user, and
requests that register, write or delete. A registration looks for the email, then
for the name, then inserts; the index on the name is unique, the one on the email
does not exist. A deletion finds or creates the `[deleted]` placeholder (`heir`),
revokes the sessions (module `Sessions`; nothing here), reassigns posts and
comments, removes likes and follows and erases the user, one action each.
`ReassignComments` stops at the first document the unique index on author and key
refuses. The history `rivals` of an account holds those whose registration
overlapped its own.

Properties. `Anonymised`: when the account is about to go, nothing that
concerned it when the deletion arrived still does, notifications apart, though
deletions are repeated and overlap. `OneHeir`: concurrent first deletions agree on
the placeholder. `DeletionCompletes`: a deletion fails by itself for one reason
only, the clash of a comment's key with one the placeholder has (section 5).
`EmailRace`: two accounts share an email only when their registrations overlapped.

### Idempotency

The record of a key is absent, `"pending"` or a response. `Get`, `Claim` (SET NX),
`Handle`, `Send` and `Save` are the path of the owner; `FailOpen` is the catch
around all of it; `Disconnect` and `Crash` take the owner away; `Expire` ends the
record. `broken` holds the keys whose owner or write was lost. In `ClaimUnanswered` the
claim took effect and its reply was lost: the request runs unguarded (`FailOpen`), or,
when ioredis sends the command again (`configs/redis.js:7-13`), finds its own record and
is told it is in progress.

Properties. `OneEffect`: a key's handler runs once, however it ended, among the
requests that Redis did not let down. `SameAnswer`: they never get two different
responses. `PendingHasOwner`: a record says "in progress" only while that is so,
or after a fault. `OnceSpec`: all of it is a behaviour of `WriteOnce`, which has
neither Redis nor faults. There a key chooses one of its requests; the chosen one may
run, once and before it is told its response, and the others are told that response,
after it was told, or a conflict. The mapping takes the owner of a record for the
chosen request. A request that Redis let down at the door is none of the key's: that
it ran, and what its own handler told it, is mapped to nothing.

### Roles, RateLimit and Gateway

`Roles` keeps the stored permissions `perms`, the `roles` with their names and
codes, each user's role `granted`, whether the unique `indexed` exists, and how far
the startup has come (`boot`). A start seeds permissions and roles, builds the
indexes and listens; it may die anywhere and starts again over what is there. A
request loads user, role and permissions in three reads (`FindUser`,
`PopulateRoles`, `PopulatePermissions`), on admin routes twice since `app.js` and the
admin router both mount the middleware, and passes `RequirePermission`.
`CreateRole` looks up the name, then each code, then saves; a registration upserts
permissions and default role before it inserts the account. The history `seen` of a
request collects what a decision would have been at each moment since it arrived.

`RateLimit` keeps for each client `hits` and `ttl` of the one Redis key its limiters
share, and, as history, what each limiter let `passed` in this window. `Gateway`
puts the quotas a path mounts (`due`) between the auth middleware and the gate, or in
front of a registration; a request is refused at the first one it exceeds. What the
clients of a behaviour ask for is chosen at its start (`asks`), which keeps the
instance small; the proofs hold for every such choice.

Properties. `TypeOK` includes the references between documents, which no database
constraint checks: a role names stored permissions, an account a stored role.
`DecisionSound`: a request is admitted or denied as was right at some moment since
it arrived. `NamesUnique`: no two roles have one name, though only the index decides
between creations that both found it free. `QuotaHolds`: in a window no limiter lets
more through than its limit, though they share a counter. `WindowEnds`, an action
property: no request lengthens a window, and a window ends with its counter.

### Lifecycle

`startServer` step by step (`boot`), `shutdown` step by step (`down`), the server
with its connections, the worker, Mongo, and tasks that make several writes:
requests, jobs and the sweep. A signal may come at any moment. Each of the bounds
may elapse before what it bounds (`HttpBound`, `JobsBound`); `late` records it.

Properties. `RequestsComplete` and `JobsComplete`: after a signal that came once
the process was up, nothing is interrupted half-way but what a bound, a lost client
or a forgotten worker explains. `ExitsOnSignal`: the process always exits.

## 3. The runs and their bounds

| Run | Instance | Distinct states | Why the bounds suffice |
|---|---|---|---|
| `sessions` | 1 user, 2 sessions, 3 tokens, 2 requests, clock to 3 | 0.5 M | two sessions are needed for a bulk revocation that could miss one, two requests for each race, three tokens for two logins and a rotation, or a chain of three |
| `sessions_faults` | 1 user, 1 session, 3 tokens, one of them legacy, clock to 4, faults | 1.2 M | a marker, a token and a session all expire within the clock |
| `late_rotation` | 1 session, 2 tokens, clock to 4 | violation | |
| `feed_cache` | 1 reader, 1 viewer, 1 author, 3 posts, pages of 1, 2 writers, 2 mutations | 2.0 M | three posts give a walk a first, a middle and a last page; two mutations put one in flight while another is announced |
| `feed_faults` | the same with pages of 2, one mutation, every failure and account deletion | 54 k | |
| `notify_live` | 2 events, one keyed, one self-directed, 2 requests, 2 workers, 2 attempts, room for 1 letter, every fault but crashes and stalls | 167 k | two attempts distinguish a retry from the last one; two events compete for the buffer |
| `notify_once` | 1 event, 2 requests, 2 workers, every fault | 33 k | four runners may hold the one event; two requests are a first submission and its replay |
| `interactions` | 2 users, 1 post, 2 documents, 1 key, 2 requests | 0.9 M | two documents: a second comment would be seen |
| `accounts` | 3 ids, 3 names, 2 emails, 2 documents, 1 key, 2 requests, faults | 1.5 M | two users deleting at once and a placeholder; two registrations of one email |
| `idempotency` | 2 keys, 4 requests, faults | 63 k | an owner, a replay and a late comer on one key, and another key |
| `gateway` | an administrator, a user who registers, an anonymous address; 5 roles, 1 new name, 2 requests; quotas of 2, 1 and 1, faults | 0.5 M | two creations of one name, an edit between two reads of a request, a crash between any two steps of the startup, two limiters on one key |
| `lifecycle` | 2 connections, 1 job, the sweep, 2 writes each | 177 k | a task can be half-way |

Counters that grow in the code are bounded by constants named in the modules:
`MaxTime` (clock), `MaxMutations` (mutations of feeds), `MaxPost`, `MaxRoles`,
`MaxHits` (what a quota's counter distinguishes), the finite sets of ids. Deadlock is not checked where the bound, or a process that exited, ends a
behaviour on purpose. Symmetry is used in the runs without liveness, over sets of
ids that no definition orders.

`CacheCoherent` and `WithdrawnStaysOut` are checked without failing Redis calls; with
them they fail, and section 5 says how. The faults themselves are on in `feed_faults`.
`NothingLost`, `AnsweredIsPublished` and `EventuallySettled` are checked with the faults
and except what these took (`lost`). So the hazards that consist of a fault taking
something (a job refused, a death before publishing, a marker not written, a counter not
incremented) are listed in `PROJECT.json` without a property: the models show that they
happen, section 5 describes them, and no property here says that they do not.

## 4. Fairness

Only two properties need fairness. `EventuallySettled` assumes that the worker
starts, that it keeps taking waiting jobs (BullMQ's loop), that awaited steps of
a running attempt resume (Node's event loop) and that a `failed` event reaches its
listener: weak fairness of each, nothing about requests starting or faults ending.
`ExitsOnSignal` assumes that timers fire (`HttpBound`, `JobsBound`) and that the
bounded closing of Mongo and Redis ends (`MongoClosed`, `RedisClosed`: both are
raced against a timer). Tasks have no fairness at all: a handler may hang for
ever, and the process still exits.

## 5. Where the code differs from what is said of it

One difference is a run that TLC refutes: `late_rotation`. `rotateIfCurrent`
compares the hash and not `revokedAt`, so a refresh that read the session before
its revocation rotates it afterwards and hands out an access token that outlives
the revocation marker, against `auth.middleware.js:30-33`.

The others were met while modelling and are not runs of their own.

* Sessions. The second of two parallel refreshes, if it reads after the first
  rotated, looks like reuse and revokes every session (`auth.service.js:138`,
  against the comment at 102-105). A revocation whose marker failed is answered with
  success when it is retried and still writes none (`session.service.js:104`).
  Two overlapping requests migrate one legacy token twice (`auth.service.js:66`).
  The sweep revokes a session that was refreshed between its find and its update
  (`session.repository.js:94`). The audit entry of a reuse has a severity the
  schema rejects (`auth.service.js:52`, `audit-log.model.js:33`), so it is
  never stored; `AuditReuse` models that.
* Feed. Account deletion bumps no version, so cached pages keep the deleted
  author until they expire (`user.service.js:103-116`). A failed `INCR` leaves stale pages
  current, a failed read of the counter selects those of version 0
  (`feed.service.js:34,68`). The lists `feed:timeline:*` grow and nothing reads them.
* Notifications. A rejected `queue.add` is logged and the event is gone
  (`notification.queue.js:27`). A crash between the insertion of a comment and
  its publication loses the event, while the replay is answered
  (`comment.service.js:76,97`); so does an insertion that happened although Mongo's driver
  reports it as failed (`comment.service.js:88-93`), with no death of the process: the
  retry finds the comment and publishes nothing (74-77). A terminal job retried before its removal
  leaves two in-process letters. A job BullMQ gives up as stalled leaves none.
* Interactions. The gate reads the post and then the follow: a post made private
  and a follow made in between let in a reader who at no moment could see it
  (`GateSound` excepts exactly this). Likes do not pass the gate
  (`like.service.js:28-32`). A key reused on another post is answered with the
  first comment. Deleting a post leaves its comments and likes.
* Accounts. The schema has no unique index on `email` (`user.model.js:19-24`), so
  two registrations of one address may both succeed, against
  `specs/002-trustfeed-social-api/data-model.md:16`; `EmailRace` says that this is the only way. The placeholder's own
  email is looked up by no one and may be registered. Comments of deleted users
  meet in the placeholder under the unique index on author and key
  (`comment.model.js:60-63`): if two of them used one key, the second deletion fails
  at `user.service.js:106`, after sessions are revoked and posts reassigned, at
  every retry, against the comment at 123-124. A write authenticated before a
  deletion and landing after the reassignment keeps the erased author (FR-038).
  Notifications keep the actor's id and name.
* Idempotency. The loser of a race for a claim is told "in progress" though the
  response may be stored by then (`idempotency.middleware.js:55-57`). A crash leaves the
  record pending for seven days. The record is bound to identity and key and
  not to the route. `app.js` does not mount the middleware.
* Lifecycle. A signal during the startup finds no server and no worker;
  `startServer` goes on to listen while Mongo is being disconnected
  (`index.js:120`); `RequestsComplete` and `JobsComplete` except it. Handlers of connections
  closed at the bound run on until the disconnect cuts them. A worker forgotten
  after an error is never closed. The sweep in progress is not awaited.
* Rate limiters. Each limiter is meant to have an isolated store
  (`ratelimiter.middleware.js:7-12`), but no store is given a prefix, so the limiters
  of a client increment one Redis key: a client may be refused by a quota it did
  not use, and the window is that of the limiter that came first. A store that fails
  ends the request, against the decision to fail open (research.md, Decision 8).
* Roles. `ensureDefaultRole` and the seed write the role `user` anew at each
  registration and each start outside tests, over what an administrator changed,
  against README.md:487 (manageable at runtime, seeded in development). The
  permission `roles:manage` is neither seeded nor grantable through the API, which
  requires it. Updating and deleting a role or permission call repository methods
  that do not exist (`admin.controller.js:87,100,164,177`) and always fail, against
  the responses in `backend/docs/openapi/paths/admin.yaml`.

## 6. What is proved

Every property of a run is a theorem, except the liveness properties
`EventuallySettled` and `ExitsOnSignal` and the property of `late_rotation`, which is
false.

`SessionsProofs` proves the eight properties of `Sessions` for every value of the
constants, under the assumptions named there (null is no id, legacy tokens are
tokens, the marker lives at least as long as an access token; the latter is
`REVOCATION_TTL_SECONDS` being rounded up).

* `TypeCorrect`: `Spec => []TypeOK`. `TypeOK` alone is not inductive: a request in
  the middleware must hold an access token, every request but the timer's must act
  for a user, and stored sessions and issued tokens must have an owner. `TypeInv`
  adds this in three parts, `StoresOK` (the variables), `OwnersOK` (what the stored
  documents and issued tokens name) and `ReqsOK` (what a request holds at each
  step, `RequestOK`). One lemma per
  action shows that it is preserved.
* `RedeemedOnce`: `Spec => []OneRedemption`. The invariant `RedeemInv` says why: the
  current token of a session has not been exchanged yet (`CurrentUnspent`), a token
  bound to a session is never a legacy one, parents are issued, and of the
  requests about to hand out tokens a login exchanges none and a migration a legacy
  one (`TokenHeld`). `StepCases` splits every
  step into those that hand out tokens (`CreateSession`, a successful `Rotate`),
  those that revoke or remove, and those that change no session.
* `EndIsFinal`: `Spec => SealedForGood`, the action property: from `Sealed` no step
  leads back, because the only requests that could extend a session have already
  read it.
* `ImplementsChain`: `Spec => ChainSpec`. Each of the three kinds of steps maps to a
  step of `TokenChain` or leaves it unchanged (`ChainInit`, `ChainHands`,
  `ChainRetire`, `ChainRemove`, `ChainStep`).
* `MigrationIsFinal`: `Spec => MigrationEnds`. `RoutesOK` says which operation a step
  belongs to; `Migrates` and `Carried` bound what a step may make of its request, so a
  migration at its second step holds an entry it has read.
* `CleanupWaits`: `Spec => []TokenHasSession`. The clock is in the invariant
  (`ClockInv`): nothing is stamped in the future (`Stamped`); a rotation that still
  finds the hash it compares prolongs the session (`Prolongs`), although its token was
  signed before the update; a token ends with its session's document at the latest, and
  one whose document is gone has expired (`Outlived`).
* `RevocationRespected`: `Spec => []RevocationHolds`. `MarkerInv`: a revoked session's
  marker was written after the revocation, unless a request still owes it or its write
  failed. The marker then outlives every token signed by the time of the revocation,
  which is where `TimeAssumption` is used.
* `RevocationIsGlobal`: `Spec => []GlobalRevocationComplete`. `BulkInv`: what a bulk
  revocation found covers every session of the user that is older than the request
  (`Settled`); a session created or rotated meanwhile is younger or already covered.

`InteractionsProofs` proves the four properties of `Interactions`, assuming that
every post has an author and that `None` is no post, key, document or id.

* `InteractionsTyped`: `Spec => []TypeOK`, strengthened by what a request holds at
  each step (`RequestOK`): a user and a post, a key where it looks one up, none
  where it likes, a document where it publishes.
* `OneCommentPerKey`: `Spec => []SameComment`. The invariant `KeyedInv`: an answer
  names a stored comment of its user and key, so does a request about to publish,
  and a user and key have at most one. Only an insertion disturbs it, and there the
  unique index says that there was none before (`KeyedStore`).
* `OneEventPerDocument`: `Spec => []PublishedOnce`. The invariant `EventInv`: an id not
  issued has neither event nor publisher, a document one publisher at most, and
  none once its event is out. `StepKinds` sorts every step by what it does to
  documents, events and answers; both proofs go by that.
* `GateIsSound`: `Spec => GateSound`. The invariant `GateInv` relates the history
  `open` and `changes` to posts and follows: at the second read, a request that
  could never see the post faces no follow while at most one change was made, and a
  followers-only post while none was. `GateWatch` is the induction step.

`IdempotencyProofs` proves the five properties of `Idempotency` from one invariant: a
request becomes owner by its claim alone (`OwnersClaimed`), a key with an owner has
a record and one owner (`OneOwner`), a record holds its owner's response
(`StoredByOwner`), and whoever is answered got the response of its own handler or
of its key's owner (`AnswersGenuine`). `EffectOnce`, `AnswerOnce` and
`ConflictMeansInProgress` follow; cardinalities are reduced to "any two are equal".
`ImplementsOnce` (`Spec => OnceSpec`) needs two facts more (`RInv`): a request is told
nothing and has no effect ahead of its step (`Fresh`), and a stored response was told to
the request it comes from (`StoredTold`), which is the order of answer and "finish".
One lemma per action names the abstract step it is, or none.

`AccountsProofs` proves the five properties of `Accounts`. `IInv` describes what a
request knows of accounts (`AccountPart`: a deletion past the lookup holds the one
heir, a registration past its lookup knows its rivals) and of documents
(`DocumentPart`: at each stage of a deletion, the kinds already dealt with no longer
name the user). `Anonymised` is its last stage, `DeletionCompletes` its stage
`error`. `HeirUnique` rests on the unique name, `EmailsSharedByRaces` on the lookup.

`LifecycleProofs` proves the safety properties of `Lifecycle`. `Stages` relates
startup, shutdown, server and Mongo; `ConnsOK` says that behind the drain no
connection is left; `JobsOK` that behind the worker's end no job runs but those a
bound or a forgotten worker accounts for. `RequestsFinish` and `JobsFinish` follow, since
Mongo goes down behind both.

`GatewayProofs` proves the five properties of `gateway`. `RolesInv` is the references
between documents together with what a request has read, which stays true because
permissions and roles are never removed (`Stable`). `SeenInv` proves `DecisionSound`: what
a request read of its role was right when it read it, hence is in its history
(`Watched`), and later reads take no stored permission away. `QuotaInv` proves `QuotaHolds`:
what a limiter let through is at most the shared counter, which it compared with its
limit. `WindowsEnd` is an action property.

`NotificationsProofs` proves the four safety properties of `Notifications`, each under
every fault and with no other assumption than those on the constants.

* `NotificationsTyped` and `NotifiedOnce`: the invariant is what a runner, a job and a
  listener hold at each step, and the unique index decides. Only published events are in
  the letter buffer, and only created ones are lost.
* `AnsweredPublished`: a stored event is published, lost, or its first request is about
  to publish it (`Accounted`), and what a request is about to publish is neither
  published nor lost (`Unspent`), because whoever comes to publish inserted the document
  in that very step (`PublisherFrom`).
* `PublishedIsKept`: a published event is settled or lost, queued, with a request, or
  with a listener that has its letter to write (`Tracked`); a job is removed only when
  its letter is in or was pushed out (`Removing`). What a death or a full buffer takes
  from one of these places is what `lost` counts (`CrashTracks`, `LetterSettles`), and a
  worker without its lock holds nothing that its job does not.

`FeedProofs` proves the five properties of `Feed`, assuming that null is no cursor.

* `WalksNeverRepeat` holds under every fault: each page, cached or read, lies beyond its
  cursor and ends at the next one (`GoodPage`), what was shown lies before it.
* `CacheIsCoherent` assumes that no Redis call fails and no account is deleted
  (`Sound`; expiry is allowed). The invariant `CInv`: a stored page, and what a walk
  has read on the way to storing one, is right unless the user's version has passed
  or some mutation is about to bump it (`Current`). `Spoils`: a mutation changes only
  the feeds whose versions it is going to pass.
* `FeedTyped` needs a count: `BInv`, a version plus the number of writers that may
  still bump it is at most the number of mutations begun. Writers are finite.

* `WithdrawnPostsStayOut` and `WalksComplete` assume `Sound`, too: without it both
  fail, as section 5 describes. The invariant `GInv` has three parts. `HeldRight`: a page
  stored, or about to be, under a user's current version is wrong only about posts for
  which some mutation is still to bump it; a page is right about a post when it offers it
  or leaves it to a later page (`Offers`). `FollowsRight`: so is the list of followed
  authors a walk has read. `WalksKept`: whatever a walk may still be served, from the
  oldest version it can meet on (`Floor`), offers its `steady` posts and none of the
  `barred` ones (`Backed`), and it has shown the steady posts its cursor has passed. The
  hard step is the beginning of a walk: a post with no mutation in flight is one no page
  under the current version is wrong about.

Only model-checked: the liveness properties `EventuallySettled` and `ExitsOnSignal`,
which need `ENABLED` and fairness, and the prover treats neither. `RevocationHolds` is
checked by `sessions_faults` alone, where it is hardest; the theorem covers bulk
revocations over many sessions.

## 7. Not modelled

* Two processes starting at once on a database without indexes: `Roles` has one starting
  process, which may die and start again.
* Whether BullMQ accepts a job id with a colon. `Added` takes the id to be the
  `dedupeKey`, such as `comment:<id>` (`comment.service.js:102`), as
  `notification.worker.js:127-128` does; `src/` cannot confirm it. A queue that refuses
  such an id makes every addition the `"add"` fault: the models then say that every
  event published with the queue up is lost.
* Response headers and bodies of the rate limiters and of the admin API.
* Login's password check, profile reads, listing operations: they only read.
* Audit entries other than that of a reuse: single insertions whose failure is
  swallowed and which nothing reads back.
* Health probes, errors, validation, CORS, correlation ids, logs, metrics, the
  API console and the contract check: no state that another part reads.
* `parentCommentId`: requests are taken to name an admissible parent or none.
* The timelines the fan-out pushes, since nothing reads them.
* IP addresses, user agents and device fingerprints.

## 8. What is left

1. An abstract outbox, in which a stored document's event is announced once and a key
   names one document, that `Interactions` and the keyed part of `Notifications`
   implement.
2. An abstract feed, in which a walk reads one version of the posts, that `Feed`
   implements without faults.
3. The remaining audit entries, if anything comes to read them.
