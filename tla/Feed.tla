-------------------------------- MODULE Feed --------------------------------
(***************************************************************************)
(* The personalised feed and its read-through cache: service/              *)
(* feed.service.js, with what changes a feed: service/post.service.js,     *)
(* service/follow.service.js and the social part of account deletion.      *)
(*                                                                         *)
(* A page is cached under the reader's version counter, and a mutation     *)
(* increments the counter of everyone it concerns AFTER it has been        *)
(* written.  Readers and mutations run concurrently, one action per        *)
(* awaited call.  Posts are numbered in feed order: a larger number is     *)
(* newer (createdAt, then _id).                                            *)
(***************************************************************************)
EXTENDS Naturals, FiniteSets

CONSTANTS
    Viewers,        \* users who read their feed
    Authors,        \* users who post; following is between the two
    MaxPost,        \* posts are the numbers 1..MaxPost
    PageSize,       \* the limit of a request, once clamped to 1..50
    Readers,        \* feed walks in flight at once
    Writers,        \* mutations in flight at once
    Ops,            \* the mutations clients may request
    Faults,         \* what may go wrong: see the uses
    MaxMutations,   \* bound on the mutations of a behaviour
    None

ASSUME PageAssumption ==
    PageSize \in Nat \ {0} /\ MaxPost \in Nat /\ MaxMutations \in Nat
ASSUME UserAssumption == None \notin Viewers \cup Authors /\ IsFiniteSet(Writers)
ASSUME FaultAssumption ==
    Faults \subseteq {"incr", "followers", "version", "expire", "die"}

Posts == 1..MaxPost
Start == MaxPost + 1        \* the cursor of a first page
After == 1..Start

\* The null of a last page is no cursor.
ASSUME NullAssumption == None \notin After
MaxEdits == MaxMutations    \* a post's lock counter never exceeds it

VARIABLES
    posts,      \* state ("none", "feed" or "hidden"), author and version
    follows,    \* <<viewer, author>> pairs
    version,    \* feed:version:<viewer>
    cache,      \* feed:cache:<viewer>:<version>:<limit>:<cursor>
    reader,     \* the walks: a client reading page after page
    writer,     \* the mutations
    mutations   \* how many have started

vars == <<posts, follows, version, cache, reader, writer, mutations>>

Page == [data : SUBSET Posts, next : After \cup {None}]
Post == [state : {"none", "feed", "hidden"}, author : Authors \cup {None},
         version : 0..MaxEdits]
Entry == [user : Viewers, version : 0..MaxMutations, after : After, page : Page]
Reader == [pc : {"idle", "version", "cached", "following", "posts", "store", "served"},
           user : Viewers \cup {None}, after : After, version : 0..MaxMutations,
           following : SUBSET Authors, page : Page,
           seen : SUBSET Posts, steady : SUBSET Posts, barred : SUBSET Posts]
Writer == [pc : {"idle", "write", "fanout", "followers", "bump", "unfollowAll"},
           op : {"create", "update", "delete", "follow", "unfollow", "erase"},
           author : Authors \cup {None}, user : Viewers \cup {None},
           post : Posts \cup {None}, version : 0..MaxEdits, ids : SUBSET Viewers]

NoPost == [state |-> "none", author |-> None, version |-> 0]
EmptyPage == [data |-> {}, next |-> None]
IdleReader == [pc |-> "idle", user |-> None, after |-> Start, version |-> 0,
               following |-> {}, page |-> EmptyPage,
               seen |-> {}, steady |-> {}, barred |-> {}]
IdleWriter == [pc |-> "idle", op |-> "create", author |-> None, user |-> None,
               post |-> None, version |-> 0, ids |-> {}]

\* Some posts and follows are there from before.
Init ==
    /\ posts \in [Posts -> {NoPost} \cup [state : {"feed", "hidden"},
                                        author : Authors, version : {0}]]
    /\ follows \in SUBSET (Viewers \X Authors)
    /\ version = [u \in Viewers |-> 0]
    /\ cache = {}
    /\ reader = [r \in Readers |-> IdleReader]
    /\ writer = [w \in Writers |-> IdleWriter]
    /\ mutations = 0

-----------------------------------------------------------------------------
(* Pages.                                                                  *)

\* Mutant: the resume predicate includes the cursor itself.
OlderOrSame(S, after) == {p \in S : p <= after}

\* The keyset predicate.
Older(S, after) == {p \in S : p < after}

\* The n newest of S.
Newest(S, n) == {p \in S : Cardinality({q \in S : q > p}) < n}

Oldest(S) == CHOOSE p \in S : \A q \in S : p <= q

\* Mutant: the cursor is taken from the row beyond the page.
PageOfSkip(S, after) ==
    LET rows == Newest(Older(S, after), PageSize + 1)
        data == Newest(rows, PageSize)
    IN [data |-> data, next |-> IF rows = data THEN None ELSE Oldest(rows)]

\* One row beyond the limit tells whether there is a next page.
PageOf(S, after) ==
    LET rows == Newest(Older(S, after), PageSize + 1)
        data == Newest(rows, PageSize)
    IN [data |-> data, next |-> IF rows = data THEN None ELSE Oldest(data)]

\* The posts the query of getFeed selects for someone following authors.
Selected(authors, ps) ==
    {p \in Posts : ps[p].state = "feed" /\ ps[p].author \in authors}

Following(u, fs) == {a \in Authors : <<u, a>> \in fs}

\* What user u's feed holds, from the database alone.
FeedOf(u, ps, fs) == Selected(Following(u, fs), ps)

-----------------------------------------------------------------------------
(* Reading: getFeed, called for page after page by a client.               *)

\* A mutation of post p, or of u's follows, is written but not yet announced.
InFlight(w) == writer[w].pc \in {"fanout", "followers", "bump", "unfollowAll"}
PendingPost(p) == \E w \in Writers : InFlight(w) /\ writer[w].post = p
PendingUser(u) == \E w \in Writers : InFlight(w) /\ writer[w].user = u

\* steady and barred record which posts were settled when the walk began:
\* in the feed, or out of it, with no mutation of them in flight.
StartWalk(r, u) ==
    LET settled == {p \in Posts : ~PendingPost(p) /\ ~PendingUser(u)}
        inFeed == FeedOf(u, posts, follows)
    IN /\ reader[r].pc = "idle"
       /\ reader' = [reader EXCEPT ![r] = [IdleReader EXCEPT
             !.pc = "version", !.user = u,
             !.steady = settled \cap inFeed, !.barred = settled \ inFeed]]
       /\ UNCHANGED <<posts, follows, version, cache, writer, mutations>>

\* An unreadable counter counts as "0".
ReadVersion(r) ==
    /\ reader[r].pc = "version"
    /\ \E v \in {version[reader[r].user]} \cup (IF "version" \in Faults THEN {0} ELSE {}) :
          reader' = [reader EXCEPT ![r].pc = "cached", ![r].version = v]
    /\ UNCHANGED <<posts, follows, version, cache, writer, mutations>>

\* Mutant: the key does not hold the version.
SameKeyAnyVersion(e, r) == e.user = reader[r].user /\ e.after = reader[r].after

SameKey(e, r) == /\ e.user = reader[r].user
                 /\ e.version = reader[r].version
                 /\ e.after = reader[r].after

ReadCache(r) ==
    /\ reader[r].pc = "cached"
    /\ LET hits == {e \in cache : SameKey(e, r)} IN
       \/ \E e \in hits :
             reader' = [reader EXCEPT ![r].pc = "served", ![r].page = e.page]
       \/ hits = {} /\ reader' = [reader EXCEPT ![r].pc = "following"]
    /\ UNCHANGED <<posts, follows, version, cache, writer, mutations>>

ReadFollowing(r) ==
    /\ reader[r].pc = "following"
    /\ reader' = [reader EXCEPT ![r].pc = "posts",
                                ![r].following = Following(reader[r].user, follows)]
    /\ UNCHANGED <<posts, follows, version, cache, writer, mutations>>

ReadPosts(r) ==
    /\ reader[r].pc = "posts"
    /\ reader' = [reader EXCEPT ![r].pc = "store",
          ![r].page = PageOf(Selected(reader[r].following, posts), reader[r].after)]
    /\ UNCHANGED <<posts, follows, version, cache, writer, mutations>>

\* Mutant: the page is stored under the version of the moment.
StoreLate(r) ==
    /\ reader[r].pc = "store"
    /\ cache' = cache \cup
                {[user |-> reader[r].user, version |-> version[reader[r].user],
                  after |-> reader[r].after, page |-> reader[r].page]}
    /\ reader' = [reader EXCEPT ![r].pc = "served"]
    /\ UNCHANGED <<posts, follows, version, writer, mutations>>

\* The page is stored under the version read at the beginning.
Store(r) ==
    /\ reader[r].pc = "store"
    /\ cache' = {e \in cache : ~SameKey(e, r)} \cup
                {[user |-> reader[r].user, version |-> reader[r].version,
                  after |-> reader[r].after, page |-> reader[r].page]}
    /\ reader' = [reader EXCEPT ![r].pc = "served"]
    /\ UNCHANGED <<posts, follows, version, writer, mutations>>

\* The client asks for the next page, or stops.
NextPage(r) ==
    /\ reader[r].pc = "served"
    /\ \/ /\ reader[r].page.next # None
          /\ reader' = [reader EXCEPT ![r].pc = "version",
                ![r].after = reader[r].page.next,
                ![r].seen = @ \cup reader[r].page.data,
                ![r].following = {}, ![r].page = EmptyPage]
       \/ reader' = [reader EXCEPT ![r] = IdleReader]
    /\ UNCHANGED <<posts, follows, version, cache, writer, mutations>>

\* FEED_CACHE_TTL_SECONDS passed.
Expire ==
    /\ "expire" \in Faults
    /\ \E e \in cache : cache' = cache \ {e}
    /\ UNCHANGED <<posts, follows, version, reader, writer, mutations>>

-----------------------------------------------------------------------------
(* Mutations.                                                              *)

Request(w, op, changes) ==
    /\ op \in Ops
    /\ mutations < MaxMutations
    /\ mutations' = mutations + 1
    /\ writer[w].pc = "idle"
    /\ writer' = [writer EXCEPT ![w] = changes]
    /\ UNCHANGED <<posts, follows, version, cache, reader>>

RequestCreate(w, a) ==
    Request(w, "create", [IdleWriter EXCEPT !.pc = "write", !.op = "create", !.author = a])

\* findById and the ownership check; version is the one the client presents.
RequestChange(w, op, p) ==
    /\ posts[p].state # "none" /\ posts[p].author \in Authors
    /\ \E v \in 0..posts[p].version :
          Request(w, op, [IdleWriter EXCEPT !.pc = "write", !.op = op, !.post = p,
                          !.author = posts[p].author, !.version = v])

RequestFollow(w, op, u, a) ==
    Request(w, op, [IdleWriter EXCEPT !.pc = "write", !.op = op, !.user = u, !.author = a])

RequestErase(w, a) ==
    Request(w, "erase", [IdleWriter EXCEPT !.pc = "write", !.op = "erase", !.author = a])

\* After a write a walk can rely only on what the write left as it was; getFeed
\* reads the follows before the posts, so a new set of follows settles nothing.
Observe(ps, fs) ==
    reader' = [r \in Readers |-> [reader[r] EXCEPT
        !.steady = @ \cap FeedOf(reader[r].user, ps, fs),
        !.barred = IF Following(reader[r].user, fs) = Following(reader[r].user, follows)
                   THEN @ \ FeedOf(reader[r].user, ps, fs) ELSE {}]]

Proceed(w, changes) == writer' = [writer EXCEPT ![w] = changes]

WriteCreate(w) ==
    /\ writer[w].pc = "write" /\ writer[w].op = "create"
    /\ \E p \in Posts, s \in {"feed", "hidden"} :
          /\ posts[p].state = "none" /\ posts[p].author = None
          /\ posts' = [posts EXCEPT ![p] =
                          [state |-> s, author |-> writer[w].author, version |-> 0]]
          /\ Proceed(w, [writer[w] EXCEPT !.pc = "fanout", !.post = p])
    /\ Observe(posts', follows)
    /\ UNCHANGED <<follows, version, cache, mutations>>

\* The compare-and-set filter of updateIfCurrent.
Locked(w) ==
    /\ posts[writer[w].post].state # "none"
    /\ posts[writer[w].post].version = writer[w].version

WriteUpdate(w) ==
    /\ writer[w].pc = "write" /\ writer[w].op = "update"
    /\ LET p == writer[w].post IN
       IF Locked(w)
       THEN /\ \E s \in {"feed", "hidden"} :
                  posts' = [posts EXCEPT ![p].state = s, ![p].version = @ + 1]
            /\ Proceed(w, [writer[w] EXCEPT !.pc = "followers"])
       ELSE UNCHANGED posts /\ Proceed(w, IdleWriter)
    /\ Observe(posts', follows)
    /\ UNCHANGED <<follows, version, cache, mutations>>

\* Mutant: a deleted post is only marked.
WriteDeleteSoft(w) ==
    /\ writer[w].pc = "write" /\ writer[w].op = "delete"
    /\ posts' = [posts EXCEPT ![writer[w].post].state = "deleted"]
    /\ Proceed(w, [writer[w] EXCEPT !.pc = "followers"])
    /\ Observe(posts', follows)
    /\ UNCHANGED <<follows, version, cache, mutations>>

\* A removed post keeps its number: ids are never reused.
WriteDelete(w) ==
    /\ writer[w].pc = "write" /\ writer[w].op = "delete"
    /\ posts' = [posts EXCEPT ![writer[w].post].state = "none"]
    /\ Proceed(w, [writer[w] EXCEPT !.pc = "followers"])
    /\ Observe(posts', follows)
    /\ UNCHANGED <<follows, version, cache, mutations>>

\* A duplicate follow is a conflict, a missing one not found.
WriteFollow(w) ==
    /\ writer[w].pc = "write" /\ writer[w].op \in {"follow", "unfollow"}
    /\ LET pair == <<writer[w].user, writer[w].author>> IN
       IF (pair \in follows) = (writer[w].op = "follow")
       THEN UNCHANGED follows /\ Proceed(w, IdleWriter)
       ELSE /\ follows' = IF writer[w].op = "follow"
                          THEN follows \cup {pair} ELSE follows \ {pair}
            /\ Proceed(w, [writer[w] EXCEPT !.pc = "bump", !.ids = {writer[w].user}])
    /\ Observe(posts, follows')
    /\ UNCHANGED <<posts, version, cache, mutations>>

\* anonymizeSocialData: the posts go to the placeholder, whom nobody follows,
\* and then the follows of the account go.
WriteErase(w) ==
    /\ writer[w].pc = "write" /\ writer[w].op = "erase"
    /\ posts' = [p \in Posts |-> IF posts[p].author = writer[w].author
                                 THEN [posts[p] EXCEPT !.author = None] ELSE posts[p]]
    /\ Proceed(w, [writer[w] EXCEPT !.pc = "unfollowAll"])
    /\ Observe(posts', follows)
    /\ UNCHANGED <<follows, version, cache, mutations>>

WriteUnfollowAll(w) ==
    /\ writer[w].pc = "unfollowAll"
    /\ follows' = {f \in follows : f[2] # writer[w].author}
    /\ Proceed(w, IdleWriter)
    /\ Observe(posts, follows')
    /\ UNCHANGED <<posts, version, cache, mutations>>

-----------------------------------------------------------------------------
(* Invalidation.                                                           *)

Followers(a) == {u \in Viewers : <<u, a>> \in follows}

\* A follower query that fails ends the invalidation; the error is logged.
\* fanoutPostToFollowers asks once for the timelines, which nothing reads.
Fanout(w) ==
    /\ writer[w].pc = "fanout"
    /\ \/ Proceed(w, [writer[w] EXCEPT !.pc = "followers"])
       \/ "followers" \in Faults /\ Proceed(w, IdleWriter)
    /\ UNCHANGED <<posts, follows, version, cache, reader, mutations>>

\* A writer with the users in rest still to bump.
Bumping(w, rest) ==
    Proceed(w, IF rest = {} THEN IdleWriter
               ELSE [writer[w] EXCEPT !.pc = "bump", !.ids = rest])

FindFollowers(w) ==
    /\ writer[w].pc = "followers"
    /\ \/ Bumping(w, Followers(writer[w].author))
       \/ "followers" \in Faults /\ Proceed(w, IdleWriter)
    /\ UNCHANGED <<posts, follows, version, cache, reader, mutations>>

\* One INCR of the loop; its failure is swallowed.
Bump(w) ==
    /\ writer[w].pc = "bump"
    /\ \E u \in writer[w].ids :
          /\ \/ version' = [version EXCEPT ![u] = @ + 1]
             \/ "incr" \in Faults /\ UNCHANGED version
          /\ Bumping(w, writer[w].ids \ {u})
    /\ UNCHANGED <<posts, follows, cache, reader, mutations>>

\* The process goes down, or Mongo rejects the next call of the handler.
Die(w) ==
    /\ "die" \in Faults
    /\ writer[w].pc # "idle"
    /\ Proceed(w, IdleWriter)
    /\ UNCHANGED <<posts, follows, version, cache, reader, mutations>>

Read(r) ==
    \/ \E u \in Viewers : StartWalk(r, u)
    \/ ReadVersion(r) \/ ReadCache(r) \/ ReadFollowing(r) \/ ReadPosts(r)
    \/ Store(r) \/ NextPage(r)

Mutate(w) ==
    \/ \E a \in Authors : RequestCreate(w, a) \/ RequestErase(w, a)
    \/ \E op \in {"update", "delete"}, p \in Posts : RequestChange(w, op, p)
    \/ \E op \in {"follow", "unfollow"}, u \in Viewers, a \in Authors :
          RequestFollow(w, op, u, a)
    \/ WriteCreate(w) \/ WriteUpdate(w) \/ WriteDelete(w) \/ WriteFollow(w)
    \/ WriteErase(w) \/ WriteUnfollowAll(w)
    \/ Fanout(w) \/ FindFollowers(w) \/ Bump(w) \/ Die(w)

Next ==
    \/ \E r \in Readers : Read(r)
    \/ \E w \in Writers : Mutate(w)
    \/ Expire

Spec == Init /\ [][Next]_vars
-----------------------------------------------------------------------------
(* Properties.                                                             *)

TypeOK ==
    /\ posts \in [Posts -> Post]
    /\ follows \subseteq Viewers \X Authors
    /\ version \in [Viewers -> 0..MaxMutations]
    /\ cache \subseteq Entry
    /\ reader \in [Readers -> Reader]
    /\ writer \in [Writers -> Writer]
    /\ mutations \in 0..MaxMutations

\* No mutation is written and not yet announced.
Quiet == \A w \in Writers : ~InFlight(w)

\* "cache keys embed that version, so stale pages are never served"
\* (feed.service.js:50-53): once every mutation has been announced, a page
\* stored under a user's current version is the one the database gives now.
CacheCoherent ==
    Quiet => \A e \in cache :
        e.version = version[e.user]
        => e.page = PageOf(FeedOf(e.user, posts, follows), e.after)

\* A post that was hidden, deleted or unfollowed, with the writer's answer given
\* before the walk began, is on no page of the walk, cached or not (FR-036),
\* unless the reader's follows change during the walk.
WithdrawnStaysOut ==
    \A r \in Readers : reader[r].pc = "served" =>
        reader[r].page.data \cap reader[r].barred = {}

\* A walk that reaches the last page has shown every post that was in the feed
\* from its beginning to its end, whatever else was inserted, removed or
\* cached between its pages (FR-026).
WalkComplete ==
    \A r \in Readers : reader[r].pc = "served" /\ reader[r].page.next = None =>
        reader[r].steady \subseteq reader[r].seen \cup reader[r].page.data

\* No walk shows a post twice (FR-026).
NoRepeat ==
    \A r \in Readers : reader[r].pc = "served" =>
        reader[r].page.data \cap reader[r].seen = {}
=============================================================================
