------------------------------ MODULE FeedProofs ------------------------------
(***************************************************************************)
(* For any number of readers, mutations, posts and users: no walk repeats  *)
(* a post, whatever fails; while no call fails and no account is erased,   *)
(* the cache is coherent, no walk shows a withdrawn post, and a whole walk *)
(* shows every post that stays; and the counters stay within their bounds. *)
(***************************************************************************)
EXTENDS Feed, FiniteSetTheorems, WellFoundedInduction, TLAPS

\* A non-empty set of naturals has a least element.
LEMMA Smallest ==
    ASSUME NEW T \in SUBSET Nat, T # {} PROVE \E m \in T : \A n \in T : m <= n
<1>1. PICK R : R = OpToRel(<, Nat)
  OBVIOUS
<1>2. R = {p \in Nat \X Nat : p[1] < p[2]}
  BY <1>1, Zenon DEF OpToRel
<1>3. \A m, n \in Nat : <<n, m>> \notin R => m <= n
  <2> SUFFICES ASSUME NEW m \in Nat, NEW n \in Nat, n < m PROVE <<n, m>> \in R
    OBVIOUS
  <2>1. PICK p \in Nat \X Nat : p = <<n, m>>
    OBVIOUS
  <2>2. p[1] = n /\ p[2] = m
    BY <2>1
  <2>3. p \in R
    BY <1>2, <2>2
  <2> QED BY <2>1, <2>3
<1>4. IsWellFoundedOn(R, Nat)
  BY <1>1, NatLessThanWellFounded
<1>5. PICK m \in T : \A n \in T : <<n, m>> \notin R
  BY <1>4, WFMin
<1> QED BY <1>3, <1>5

\* A non-empty set of posts has an oldest and a newest one.
LEMMA Extremes ==
    ASSUME NEW S \in SUBSET Posts, S # {}
    PROVE  /\ Oldest(S) \in S /\ \A p \in S : Oldest(S) <= p
           /\ \E m \in S : \A p \in S : p <= m
<1>1. \E m \in S : \A p \in S : m <= p
  BY Smallest DEF Posts
<1>2. Oldest(S) \in S /\ \A p \in S : Oldest(S) <= p
  BY <1>1 DEF Oldest
<1>3. PICK T : T = {k \in Nat : \A p \in S : p <= k}
  OBVIOUS
<1>4. MaxPost \in T
  BY <1>3, PageAssumption DEF Posts
<1>5. PICK k \in T : \A n \in T : k <= n
  BY <1>3, <1>4, Smallest
<1>6. k \in S
  <2> SUFFICES ASSUME k \notin S PROVE FALSE
    OBVIOUS
  <2>1. \A p \in S : p <= k - 1 /\ p >= 1
    BY <1>3 DEF Posts
  <2>2. k \in Nat /\ k - 1 \in Nat
    <3>1. PICK p : p \in S
      OBVIOUS
    <3>2. p \in Nat /\ k \in Nat /\ p <= k - 1 /\ p >= 1
      BY <1>3, <2>1, <3>1 DEF Posts
    <3> QED BY <3>2
  <2>3. k - 1 \in T
    BY <1>3, <2>1, <2>2
  <2> QED BY <1>5, <2>2, <2>3
<1> QED BY <1>2, <1>3, <1>6

\* A page holds posts beyond its cursor; the cursor it gives is its oldest.
GoodPage(page, after) ==
    /\ page.data \subseteq {p \in Posts : p < after}
    /\ page.next # None => /\ page.next \in page.data
                           /\ \A p \in page.data : page.next <= p

LEMMA PageOfGood ==
    ASSUME NEW S \in SUBSET Posts, NEW after \in After
    PROVE  /\ PageOf(S, after) \in Page /\ GoodPage(PageOf(S, after), after)
<1> DEFINE rows == Newest(Older(S, after), PageSize + 1)
           data == Newest(rows, PageSize)
<1>1. data \subseteq rows /\ rows \subseteq {p \in Posts : p < after}
  BY DEF Newest, Older
<1>2. PICK next : next = IF rows = data THEN None ELSE Oldest(data)
  OBVIOUS
<1>3. PageOf(S, after) = [data |-> data, next |-> next]
  BY <1>2 DEF PageOf
<1>4. ASSUME rows # data PROVE data # {}
  <2>1. PICK m \in rows : \A p \in rows : p <= m
    BY <1>1, <1>4, Extremes
  <2>2. {q \in rows : q > m} = {}
    BY <1>1, <2>1 DEF Posts
  <2>3. Cardinality({q \in rows : q > m}) < PageSize
    BY <2>2, FS_EmptySet, PageAssumption
  <2>4. m \in data
    BY <2>1, <2>3 DEF Newest
  <2> QED BY <2>4
<1>5. rows # data => next \in data /\ \A p \in data : next <= p
  BY <1>1, <1>2, <1>4, Extremes
<1> HIDE DEF rows, data
<1>6. [data |-> data, next |-> next] \in Page
  <2>1. Posts \subseteq After
    BY PageAssumption DEF After, Posts, Start
  <2>2. data \in SUBSET Posts /\ next \in After \cup {None}
    BY <1>1, <1>2, <1>5, <2>1
  <2> QED BY <2>2 DEF Page
<1> QED BY <1>1, <1>2, <1>3, <1>5, <1>6 DEF GoodPage

\* A page of what lies beyond after shows post p, or leaves it to a later page.
Offers(page, after, p) ==
    p < after => p \in page.data \/ (page.next # None /\ p < page.next)

\* A set of posts is finite, and its members are numbers.
LEMMA FinitePosts ==
    \A T \in SUBSET Posts : IsFiniteSet(T) /\ Cardinality(T) \in Nat /\ \A p \in T : p \in Nat
<1>1. IsFiniteSet(Posts)
  BY FS_Interval, PageAssumption DEF Posts
<1>2. \A p \in Posts : p \in Nat
  BY DEF Posts
<1> QED BY <1>1, <1>2, FS_Subset, FS_CardinalityType

\* Whoever is not among the n newest is older than each of them.
LEMMA Above ==
    ASSUME NEW S \in SUBSET Posts, NEW n \in Nat, NEW p \in S, NEW m \in Newest(S, n), p \notin Newest(S, n)
    PROVE  p < m
<1> SUFFICES ASSUME m <= p PROVE FALSE
  BY DEF Newest, Posts
<1>1. IsFiniteSet(S)
  BY FinitePosts
<1>2. {q \in S : q > p} \subseteq {q \in S : q > m}
  <2>1. (\A q \in S : q \in Nat) /\ p \in S /\ m \in S
    BY DEF Newest, Posts
  <2> QED BY <2>1
<1>3. /\ IsFiniteSet({q \in S : q > m}) /\ IsFiniteSet({q \in S : q > p})
      /\ Cardinality({q \in S : q > p}) <= Cardinality({q \in S : q > m})
  <2>1. IsFiniteSet({q \in S : q > m})
    BY <1>1, FS_Subset
  <2> QED BY <1>2, <2>1, FS_Subset
<1>4. Cardinality({q \in S : q > p}) \in Nat /\ Cardinality({q \in S : q > m}) \in Nat
  BY <1>3, FS_CardinalityType
<1> QED BY <1>3, <1>4 DEF Newest

\* Whoever is not among the n + 1 newest is older than n newest.
LEMMA RowBeyond ==
    ASSUME NEW S \in SUBSET Posts, NEW n \in Nat \ {0}, NEW p \in S, p \notin Newest(S, n + 1)
    PROVE  Newest(Newest(S, n + 1), n) # Newest(S, n + 1)
<1> DEFINE rows == Newest(S, n + 1)
<1> SUFFICES ASSUME Newest(rows, n) = rows PROVE FALSE
  OBVIOUS
<1>1. rows \subseteq S /\ S \subseteq Posts /\ rows \subseteq Posts /\ p \notin rows
      /\ (\A q \in S : q \in Nat) /\ \A q \in rows : q \in Nat
  BY FinitePosts DEF Newest
<1>2. \A T \in SUBSET Posts : IsFiniteSet(T) /\ Cardinality(T) \in Nat
  BY FinitePosts
<1>3. \A m \in S : m \in rows <=> Cardinality({q \in S : q > m}) < n + 1
  BY DEF Newest
<1>4. \A m \in rows : Cardinality({q \in rows : q > m}) < n
  BY DEF Newest
<1>5. rows # {}
  <2>1. PICK m \in S : \A q \in S : q <= m
    BY Extremes
  <2>2. {q \in S : q > m} = {}
    BY <1>1, <2>1
  <2>3. Cardinality({q \in S : q > m}) = 0
    BY <2>2, FS_EmptySet
  <2> QED BY <1>3, <2>1, <2>3
<1> HIDE DEF rows
<1>6. Cardinality(rows) <= n
  <2>1. PICK m \in rows : \A q \in rows : m <= q
    BY <1>1, <1>5, Extremes
  <2>2. rows = {q \in rows : q > m} \cup {m}
    BY <1>1, <2>1
  <2>3. m \notin {q \in rows : q > m}
    BY <1>1
  <2> DEFINE T == {q \in rows : q > m}
  <2>4. IsFiniteSet(T) /\ Cardinality(T) \in Nat /\ Cardinality(T) < n /\ m \notin T /\ rows = T \cup {m}
    BY <1>1, <1>2, <1>4, <2>2, <2>3
  <2> HIDE DEF T
  <2>5. Cardinality(T \cup {m}) = Cardinality(T) + 1
    BY <2>4, FS_AddElement
  <2> QED BY <2>4, <2>5
<1>7. PICK t \in S \ rows : \A q \in S \ rows : q <= t
  BY <1>1, Extremes
<1>8. {q \in S : q > t} \subseteq rows
  BY <1>1, <1>7
<1>9. Cardinality({q \in S : q > t}) <= Cardinality(rows)
  BY <1>1, <1>2, <1>8, FS_Subset
<1>10. Cardinality({q \in S : q > t}) \in Nat /\ Cardinality(rows) \in Nat
  BY <1>1, <1>2
<1> QED BY <1>3, <1>6, <1>7, <1>9, <1>10

\* A post older than a page lies beyond the cursor the page gives.
LEMMA NextBelow ==
    ASSUME NEW S \in SUBSET Posts, S # {}, NEW p \in Posts, \A m \in S : p < m
    PROVE  Oldest(S) # None /\ p < Oldest(S)
<1>1. Oldest(S) \in S /\ Oldest(S) \in Posts
  BY Extremes
<1>2. Posts \subseteq After
  BY PageAssumption DEF After, Posts, Start
<1> QED BY <1>1, <1>2, NullAssumption

\* The page read from a set of posts leaves out none of them, nor adds any.
LEMMA PageOffers ==
    ASSUME NEW S \in SUBSET Posts, NEW after \in After, NEW p \in Posts
    PROVE  IF p \in S THEN Offers(PageOf(S, after), after, p)
                      ELSE p \notin PageOf(S, after).data
<1> DEFINE older == Older(S, after)
           rows == Newest(older, PageSize + 1)
           data == Newest(rows, PageSize)
<1>1. PICK next : next = IF rows = data THEN None ELSE Oldest(data)
  OBVIOUS
<1>2. PageOf(S, after) = [data |-> data, next |-> next]
  BY <1>1 DEF PageOf
<1>3. data \subseteq rows /\ rows \subseteq older /\ older \subseteq S /\ older \subseteq Posts
  BY DEF Newest, Older
<1>4. CASE p \notin S
  <2> HIDE DEF data, rows, older
  <2> QED BY <1>2, <1>3, <1>4
<1>5. CASE p \in S
  <2> SUFFICES ASSUME p < after, p \notin data PROVE next # None /\ p < next
    <3> HIDE DEF data, rows, older
    <3> QED BY <1>2, <1>5 DEF Offers
  <2>1. p \in older
    BY <1>5 DEF Older
  <2>2. PageSize \in Nat \ {0} /\ PageSize + 1 \in Nat
    BY PageAssumption
  <2>3. rows # data
    BY <1>3, <2>1, <2>2, RowBeyond
  <2>4. \A m \in data : p < m
    <3>1. CASE p \in rows
      BY <1>3, <2>2, <3>1, Above
    <3>2. CASE p \notin rows
      <4>1. \A m \in rows : p < m
        BY <1>3, <2>1, <2>2, <3>2, Above
      <4> QED BY <1>3, <4>1
    <3> QED BY <3>1, <3>2
  <2>5. data # {}
    <3>1. PICK m \in rows : \A q \in rows : q <= m
      BY <1>3, <2>3, Extremes
    <3>2. {q \in rows : q > m} = {}
      BY <1>3, <3>1 DEF Posts
    <3>3. Cardinality({q \in rows : q > m}) < PageSize
      BY <2>2, <3>2, FS_EmptySet
    <3>4. m \in data
      BY <3>1, <3>3 DEF Newest
    <3> QED BY <3>4
  <2>6. data \in SUBSET Posts
    BY <1>3
  <2> HIDE DEF data, rows, older
  <2> QED BY <1>1, <2>3, <2>4, <2>5, <2>6, NextBelow
<1> QED BY <1>4, <1>5

-----------------------------------------------------------------------------
(* What the state is made of, the counters unbounded.                      *)

AnyPost == [state : {"none", "feed", "hidden"}, author : Authors \cup {None}, version : Nat]
AnyEntry == [user : Viewers, version : Nat, after : After, page : Page]
AnyReader == [pc : {"idle", "version", "cached", "following", "posts", "store", "served"},
              user : Viewers \cup {None}, after : After, version : Nat,
              following : SUBSET Authors, page : Page,
              seen : SUBSET Posts, steady : SUBSET Posts, barred : SUBSET Posts]
AnyWriter == [pc : {"idle", "write", "fanout", "followers", "bump", "unfollowAll"},
              op : {"create", "update", "delete", "follow", "unfollow", "erase"},
              author : Authors \cup {None}, user : Viewers \cup {None},
              post : Posts \cup {None}, version : Nat, ids : SUBSET Viewers]

\* A walk has shown what lies before its cursor; its page lies beyond.
Walk(q) ==
    /\ q.pc # "idle" => q.user \in Viewers
    /\ \A p \in q.seen : q.after <= p
    /\ q.pc \in {"store", "served"} => GoodPage(q.page, q.after)

ReadersOK == reader \in [Readers -> AnyReader] /\ \A r \in Readers : Walk(reader[r])
CacheOK == cache \subseteq AnyEntry /\ \A e \in cache : GoodPage(e.page, e.after)

\* A request that has written names what it wrote.
Named(q) ==
    /\ q.pc # "idle" => q.author \in Authors
    /\ q.pc # "idle" /\ q.op \in {"follow", "unfollow"} => q.user \in Viewers
    /\ q.pc # "idle" /\ q.op \in {"update", "delete"} => q.post \in Posts

WritersOK == writer \in [Writers -> AnyWriter] /\ \A w \in Writers : Named(writer[w])

DataOK == /\ posts \in [Posts -> AnyPost]
          /\ follows \subseteq Viewers \X Authors
          /\ version \in [Viewers -> Nat]
          /\ mutations \in 0..MaxMutations

IInv == DataOK /\ CacheOK /\ ReadersOK /\ WritersOK

LEMMA PagesTyped == EmptyPage \in Page
  BY DEF EmptyPage, Page

LEMMA IdleReaderTyped ==
    IdleReader \in AnyReader /\ Walk(IdleReader) /\ IdleReader.pc = "idle" /\ IdleReader.version = 0
    /\ IdleReader.seen = {}
<1>1. Start \in After
  BY PageAssumption DEF Start, After
<1> QED BY <1>1, PagesTyped DEF IdleReader, AnyReader, Walk

LEMMA IdleWriterTyped == IdleWriter \in AnyWriter /\ Named(IdleWriter) /\ IdleWriter.pc = "idle"
  BY DEF IdleWriter, AnyWriter, Named

-----------------------------------------------------------------------------
(* Reading.                                                                *)

\* A step of one walk.
LEMMA OneReader ==
    ASSUME IInv, NEW r \in Readers, NEW q \in AnyReader, Walk(q),
           reader' = [reader EXCEPT ![r] = q]
    PROVE  ReadersOK'
<1>1. /\ reader' \in [Readers -> AnyReader] /\ reader'[r] = q
      /\ \A s \in Readers \ {r} : reader'[s] = reader[s]
  BY DEF IInv, ReadersOK
<1>2. ASSUME NEW s \in Readers PROVE Walk(reader'[s])
  BY <1>1 DEF IInv, ReadersOK
<1> QED BY <1>1, <1>2 DEF ReadersOK, Walk

LEMMA KnownReader ==
    ASSUME IInv, NEW r \in Readers
    PROVE  /\ reader[r] \in AnyReader /\ Walk(reader[r])
           /\ reader[r].pc # "idle" => reader[r].user \in Viewers
  BY DEF IInv, ReadersOK, Walk

LEMMA StartWalkKeeps ==
    ASSUME IInv, NEW r \in Readers, NEW u \in Viewers, StartWalk(r, u) PROVE IInv'
<1>1. PICK steady \in SUBSET Posts, barred \in SUBSET Posts :
        reader' = [reader EXCEPT ![r] = [IdleReader EXCEPT
             !.pc = "version", !.user = u, !.steady = steady, !.barred = barred]]
  BY DEF StartWalk
<1>2. PICK q : q = [IdleReader EXCEPT
             !.pc = "version", !.user = u, !.steady = steady, !.barred = barred]
  OBVIOUS
<1>3. q \in AnyReader /\ q.pc = "version" /\ q.user = u /\ q.seen = {}
  BY <1>2, IdleReaderTyped DEF AnyReader
<1>4. ReadersOK'
  BY <1>1, <1>2, <1>3, OneReader DEF Walk
<1> QED BY <1>4 DEF IInv, StartWalk, DataOK, CacheOK, WritersOK

LEMMA ReadVersionKeeps == ASSUME IInv, NEW r \in Readers, ReadVersion(r) PROVE IInv'
<1>1. PICK v \in Nat : reader' = [reader EXCEPT ![r].pc = "cached", ![r].version = v]
  BY KnownReader DEF ReadVersion, IInv, DataOK
<1>2. PICK q : q = [reader[r] EXCEPT !.pc = "cached", !.version = v]
  OBVIOUS
<1>3. q \in AnyReader /\ Walk(q)
  BY <1>2, KnownReader DEF AnyReader, Walk, ReadVersion
<1>4. reader' = [reader EXCEPT ![r] = q]
  BY <1>1, <1>2 DEF IInv, ReadersOK, AnyReader
<1>5. ReadersOK'
  BY <1>3, <1>4, OneReader
<1> QED BY <1>5 DEF IInv, ReadVersion, DataOK, CacheOK, WritersOK

LEMMA ReadCacheKeeps == ASSUME IInv, NEW r \in Readers, ReadCache(r) PROVE IInv'
<1>1. CASE \E e \in cache : SameKey(e, r)
                            /\ reader' = [reader EXCEPT ![r].pc = "served", ![r].page = e.page]
  <2>1. PICK e \in cache : SameKey(e, r)
                           /\ reader' = [reader EXCEPT ![r].pc = "served", ![r].page = e.page]
    BY <1>1
  <2>2. PICK q : q = [reader[r] EXCEPT !.pc = "served", !.page = e.page]
    OBVIOUS
  <2>3. e.page \in Page /\ GoodPage(e.page, e.after) /\ e.after = reader[r].after
    BY <2>1 DEF SameKey, IInv, CacheOK, AnyEntry
  <2>4. q \in AnyReader /\ Walk(q)
    BY <2>2, <2>3, KnownReader DEF AnyReader, Walk, ReadCache
  <2>5. reader' = [reader EXCEPT ![r] = q]
    BY <2>1, <2>2 DEF IInv, ReadersOK, AnyReader
  <2>6. ReadersOK'
    BY <2>4, <2>5, OneReader
  <2> QED BY <2>6 DEF IInv, ReadCache, DataOK, CacheOK, WritersOK
<1>2. CASE reader' = [reader EXCEPT ![r].pc = "following"]
  <2>1. PICK q : q = [reader[r] EXCEPT !.pc = "following"]
    OBVIOUS
  <2>2. q \in AnyReader /\ Walk(q)
    BY <2>1, KnownReader DEF AnyReader, Walk, ReadCache
  <2>3. reader' = [reader EXCEPT ![r] = q]
    BY <1>2, <2>1 DEF IInv, ReadersOK, AnyReader
  <2>4. ReadersOK'
    BY <2>2, <2>3, OneReader
  <2> QED BY <2>4 DEF IInv, ReadCache, DataOK, CacheOK, WritersOK
<1> QED BY <1>1, <1>2 DEF ReadCache

LEMMA ReadFollowingKeeps == ASSUME IInv, NEW r \in Readers, ReadFollowing(r) PROVE IInv'
<1>1. PICK F : F = Following(reader[r].user, follows)
  OBVIOUS
<1>2. PICK q : q = [reader[r] EXCEPT !.pc = "posts", !.following = F]
  OBVIOUS
<1>3. q \in AnyReader /\ Walk(q)
  BY <1>1, <1>2, KnownReader DEF AnyReader, Walk, ReadFollowing, Following
<1>4. reader' = [reader EXCEPT ![r] = q]
  BY <1>1, <1>2 DEF IInv, ReadersOK, AnyReader, ReadFollowing
<1>5. ReadersOK'
  BY <1>3, <1>4, OneReader
<1> QED BY <1>5 DEF IInv, ReadFollowing, DataOK, CacheOK, WritersOK

LEMMA ReadPostsKeeps == ASSUME IInv, NEW r \in Readers, ReadPosts(r) PROVE IInv'
<1>1. PICK S \in SUBSET Posts : S = Selected(reader[r].following, posts)
  BY DEF Selected
<1>2. PICK p : p = PageOf(S, reader[r].after)
  OBVIOUS
<1>3. p \in Page /\ GoodPage(p, reader[r].after)
  <2>1. reader[r].after \in After
    BY KnownReader DEF AnyReader
  <2> QED BY <1>2, <2>1, PageOfGood
<1>4. PICK q : q = [reader[r] EXCEPT !.pc = "store", !.page = p]
  OBVIOUS
<1>5. q \in AnyReader /\ Walk(q)
  BY <1>3, <1>4, KnownReader DEF AnyReader, Walk, ReadPosts
<1>6. reader' = [reader EXCEPT ![r] = q]
  BY <1>1, <1>2, <1>4 DEF IInv, ReadersOK, AnyReader, ReadPosts
<1>7. ReadersOK'
  BY <1>5, <1>6, OneReader
<1> QED BY <1>7 DEF IInv, ReadPosts, DataOK, CacheOK, WritersOK

LEMMA StoreKeeps == ASSUME IInv, NEW r \in Readers, Store(r) PROVE IInv'
<1>1. PICK e : e = [user |-> reader[r].user, version |-> reader[r].version,
                    after |-> reader[r].after, page |-> reader[r].page]
  OBVIOUS
<1>2. e \in AnyEntry /\ GoodPage(e.page, e.after)
  BY <1>1, KnownReader DEF AnyEntry, AnyReader, Walk, Store
<1>3. CacheOK'
  BY <1>1, <1>2 DEF Store, IInv, CacheOK
<1>4. PICK q : q = [reader[r] EXCEPT !.pc = "served"]
  OBVIOUS
<1>5. q \in AnyReader /\ Walk(q)
  BY <1>4, KnownReader DEF AnyReader, Walk, Store
<1>6. reader' = [reader EXCEPT ![r] = q]
  BY <1>4 DEF IInv, ReadersOK, AnyReader, Store
<1>7. ReadersOK'
  BY <1>5, <1>6, OneReader
<1> QED BY <1>3, <1>7 DEF IInv, Store, DataOK, WritersOK

\* What the next page resumes after is the oldest post shown so far.
LEMMA NextPageKeeps == ASSUME IInv, NEW r \in Readers, NextPage(r) PROVE IInv'
<1>1. CASE reader' = [reader EXCEPT ![r] = IdleReader]
  BY <1>1, IdleReaderTyped, OneReader DEF IInv, NextPage, DataOK, CacheOK, WritersOK
<1>2. CASE /\ reader[r].page.next # None
           /\ reader' = [reader EXCEPT ![r].pc = "version",
                ![r].after = reader[r].page.next,
                ![r].seen = @ \cup reader[r].page.data,
                ![r].following = {}, ![r].page = EmptyPage]
  <2>1. PICK next, data : next = reader[r].page.next /\ data = reader[r].page.data
    OBVIOUS
  <2>2. /\ reader[r].pc = "served" /\ next \in After /\ data \in SUBSET Posts
        /\ next \in data /\ \A p \in data : p < reader[r].after /\ next <= p
    BY <1>2, <2>1, KnownReader DEF AnyReader, Walk, GoodPage, NextPage, Page
  <2>3. PICK q : q = [reader[r] EXCEPT !.pc = "version", !.after = next,
                      !.seen = reader[r].seen \cup data, !.following = {}, !.page = EmptyPage]
    OBVIOUS
  <2>4. /\ q \in AnyReader /\ q.pc = "version" /\ q.user = reader[r].user
        /\ q.after = next /\ q.seen = reader[r].seen \cup data
    BY <2>2, <2>3, PagesTyped, KnownReader DEF AnyReader
  <2>5. \A p \in q.seen : q.after <= p
    BY <2>2, <2>4, KnownReader DEF Walk, AnyReader, Posts, After
  <2>6. Walk(q)
    BY <2>2, <2>4, <2>5, KnownReader DEF Walk
  <2>7. reader' = [reader EXCEPT ![r] = q]
    BY <1>2, <2>1, <2>3 DEF IInv, ReadersOK, AnyReader
  <2>8. ReadersOK'
    BY <2>4, <2>6, <2>7, OneReader
  <2> QED BY <2>8 DEF IInv, NextPage, DataOK, CacheOK, WritersOK
<1> QED BY <1>1, <1>2 DEF NextPage

LEMMA ExpireKeeps == ASSUME IInv, Expire PROVE IInv'
  BY DEF Expire, IInv, DataOK, CacheOK, ReadersOK, WritersOK

-----------------------------------------------------------------------------
(* Mutations.                                                              *)

\* What a write leaves of a walk.
Same(q, p) == /\ q.pc = p.pc /\ q.user = p.user /\ q.after = p.after /\ q.version = p.version
              /\ q.following = p.following /\ q.page = p.page /\ q.seen = p.seen

LEMMA Observed ==
    ASSUME IInv, NEW ps, NEW fs, Observe(ps, fs), NEW r \in Readers
    PROVE  reader'[r] \in AnyReader /\ Same(reader'[r], reader[r])
<1>1. PICK steady \in SUBSET Posts, barred \in SUBSET Posts :
        /\ steady = reader[r].steady \cap FeedOf(reader[r].user, ps, fs)
        /\ barred = IF Following(reader[r].user, fs) = Following(reader[r].user, follows)
                    THEN reader[r].barred \ FeedOf(reader[r].user, ps, fs) ELSE {}
  BY KnownReader DEF AnyReader
<1>2. PICK q : q = [reader[r] EXCEPT !.steady = steady, !.barred = barred]
  OBVIOUS
<1>3. reader'[r] = q
  BY <1>1, <1>2, KnownReader DEF Observe, AnyReader
<1>4. q \in AnyReader /\ Same(q, reader[r])
  <2>1. reader[r] \in AnyReader
    BY KnownReader
  <2> QED BY <1>2, <2>1 DEF AnyReader, Same
<1> QED BY <1>3, <1>4

LEMMA ObserveKeeps ==
    ASSUME IInv, NEW ps, NEW fs, Observe(ps, fs) PROVE ReadersOK'
<1>1. reader' = [r \in Readers |-> reader'[r]]
  BY DEF Observe
<1>2. reader' \in [Readers -> AnyReader]
  BY <1>1, Observed
<1> QED BY <1>2, Observed, KnownReader DEF ReadersOK, Walk, Same

\* A step of one mutation.
LEMMA OneWriter ==
    ASSUME IInv, NEW w \in Writers, NEW q \in AnyWriter, Named(q),
           writer' = [writer EXCEPT ![w] = q]
    PROVE  WritersOK'
<1>1. /\ writer' \in [Writers -> AnyWriter] /\ writer'[w] = q
      /\ \A v \in Writers \ {w} : writer'[v] = writer[v]
  BY DEF IInv, WritersOK
<1>2. ASSUME NEW v \in Writers PROVE Named(writer'[v])
  BY <1>1 DEF IInv, WritersOK
<1> QED BY <1>1, <1>2 DEF WritersOK, Named

LEMMA KnownWriter ==
    ASSUME IInv, NEW w \in Writers PROVE writer[w] \in AnyWriter /\ Named(writer[w])
  BY DEF IInv, WritersOK

LEMMA Requested ==
    ASSUME IInv, NEW w \in Writers, NEW op, NEW q \in AnyWriter, Named(q), Request(w, op, q)
    PROVE  IInv'
<1>1. mutations' \in 0..MaxMutations
  BY PageAssumption DEF Request, IInv, DataOK
<1>2. WritersOK'
  BY OneWriter DEF Request
<1> QED BY <1>1, <1>2 DEF Request, IInv, DataOK, CacheOK, ReadersOK

LEMMA RequestsKeep ==
    ASSUME IInv, NEW w \in Writers,
           \/ \E a \in Authors : RequestCreate(w, a) \/ RequestErase(w, a)
           \/ \E op \in {"update", "delete"}, p \in Posts : RequestChange(w, op, p)
           \/ \E op \in {"follow", "unfollow"}, u \in Viewers, a \in Authors :
                 RequestFollow(w, op, u, a)
    PROVE  IInv'
<1>1. ASSUME NEW a \in Authors, NEW op \in {"create", "erase"},
             Request(w, op, [IdleWriter EXCEPT !.pc = "write", !.op = op, !.author = a])
      PROVE  IInv'
  <2>1. PICK q : q = [IdleWriter EXCEPT !.pc = "write", !.op = op, !.author = a]
    OBVIOUS
  <2>2. q \in AnyWriter /\ Named(q)
    BY <2>1, IdleWriterTyped DEF AnyWriter, Named
  <2> QED BY <1>1, <2>1, <2>2, Requested
<1>2. ASSUME NEW op \in {"update", "delete"}, NEW p \in Posts, RequestChange(w, op, p)
      PROVE  IInv'
  <2>0. PICK v \in 0..posts[p].version :
          Request(w, op, [IdleWriter EXCEPT !.pc = "write", !.op = op, !.post = p,
                          !.author = posts[p].author, !.version = v])
    BY <1>2 DEF RequestChange
  <2>1. v \in Nat
    BY DEF IInv, DataOK, AnyPost
  <2>2. PICK a \in Authors : a = posts[p].author
    BY <1>2 DEF RequestChange
  <2>3. PICK q : q = [IdleWriter EXCEPT !.pc = "write", !.op = op, !.post = p,
                      !.author = a, !.version = v]
    OBVIOUS
  <2>4. q \in AnyWriter /\ Named(q)
    BY <2>1, <2>3, IdleWriterTyped DEF AnyWriter, Named
  <2> QED BY <2>0, <2>2, <2>3, <2>4, Requested
<1>3. ASSUME NEW op \in {"follow", "unfollow"}, NEW u \in Viewers, NEW a \in Authors,
             RequestFollow(w, op, u, a)
      PROVE  IInv'
  <2>1. PICK q : q = [IdleWriter EXCEPT !.pc = "write", !.op = op, !.user = u, !.author = a]
    OBVIOUS
  <2>2. q \in AnyWriter /\ Named(q)
    BY <2>1, IdleWriterTyped DEF AnyWriter, Named
  <2> QED BY <1>3, <2>1, <2>2, Requested DEF RequestFollow
<1> QED BY <1>1, <1>2, <1>3 DEF RequestCreate, RequestErase

\* A writer that goes on to pc, or stops.
LEMMA Proceeds ==
    ASSUME IInv, NEW w \in Writers, writer[w].pc # "idle",
           \/ Proceed(w, IdleWriter)
           \/ \E pc \in {"fanout", "followers", "unfollowAll"} :
                 Proceed(w, [writer[w] EXCEPT !.pc = pc])
           \/ \E ids \in SUBSET Viewers :
                 \/ Proceed(w, [writer[w] EXCEPT !.pc = "bump", !.ids = ids])
                 \/ Bumping(w, ids)
    PROVE  WritersOK'
<1>1. CASE Proceed(w, IdleWriter)
  BY <1>1, IdleWriterTyped, OneWriter DEF Proceed
<1>2. ASSUME NEW pc \in {"fanout", "followers", "unfollowAll"},
             Proceed(w, [writer[w] EXCEPT !.pc = pc])
      PROVE  WritersOK'
  <2>1. PICK q : q = [writer[w] EXCEPT !.pc = pc]
    OBVIOUS
  <2>2. q \in AnyWriter /\ Named(q)
    BY <2>1, KnownWriter DEF AnyWriter, Named
  <2> QED BY <1>2, <2>1, <2>2, OneWriter DEF Proceed
<1>3. ASSUME NEW ids \in SUBSET Viewers, Proceed(w, [writer[w] EXCEPT !.pc = "bump", !.ids = ids])
      PROVE  WritersOK'
  <2>1. PICK q : q = [writer[w] EXCEPT !.pc = "bump", !.ids = ids]
    OBVIOUS
  <2>2. q \in AnyWriter /\ Named(q)
    BY <2>1, KnownWriter DEF AnyWriter, Named
  <2> QED BY <1>3, <2>1, <2>2, OneWriter DEF Proceed
<1>4. ASSUME NEW ids \in SUBSET Viewers, Bumping(w, ids)
      PROVE  Proceed(w, IdleWriter) \/ Proceed(w, [writer[w] EXCEPT !.pc = "bump", !.ids = ids])
  BY <1>4 DEF Bumping
<1> QED BY <1>1, <1>2, <1>3, <1>4

LEMMA WriteCreateKeeps == ASSUME IInv, NEW w \in Writers, WriteCreate(w) PROVE IInv'
<1>1. PICK p \in Posts, s \in {"feed", "hidden"} :
        /\ posts' = [posts EXCEPT ![p] =
                        [state |-> s, author |-> writer[w].author, version |-> 0]]
        /\ Proceed(w, [writer[w] EXCEPT !.pc = "fanout", !.post = p])
  BY DEF WriteCreate
<1>2. PICK new : new = [state |-> s, author |-> writer[w].author, version |-> 0]
  OBVIOUS
<1>3. new \in AnyPost
  BY <1>2, KnownWriter DEF AnyPost, AnyWriter
<1>4. posts' \in [Posts -> AnyPost]
  BY <1>1, <1>2, <1>3 DEF IInv, DataOK
<1>5. PICK q : q = [writer[w] EXCEPT !.pc = "fanout", !.post = p]
  OBVIOUS
<1>6. q \in AnyWriter /\ Named(q)
  BY <1>5, KnownWriter DEF AnyWriter, Named, WriteCreate
<1>7. WritersOK'
  BY <1>1, <1>5, <1>6, OneWriter DEF Proceed
<1>8. ReadersOK'
  BY ObserveKeeps DEF WriteCreate
<1> QED BY <1>4, <1>7, <1>8 DEF WriteCreate, IInv, DataOK, CacheOK

LEMMA WriteUpdateKeeps == ASSUME IInv, NEW w \in Writers, WriteUpdate(w) PROVE IInv'
<1>1. writer[w].pc # "idle" /\ writer[w].post \in Posts
  BY KnownWriter DEF WriteUpdate, Named
<1>2. CASE Locked(w)
  <2>1. PICK p \in Posts : p = writer[w].post
    BY <1>1
  <2>2. PICK s \in {"feed", "hidden"} :
          posts' = [posts EXCEPT ![p].state = s, ![p].version = @ + 1]
    BY <1>2, <2>1 DEF WriteUpdate
  <2>3. PICK n : n = posts[p].version + 1
    OBVIOUS
  <2>4. PICK new : new = [posts[p] EXCEPT !.state = s, !.version = n]
    OBVIOUS
  <2>5. new \in AnyPost
    <3>1. posts[p] \in AnyPost /\ n \in Nat
      BY <2>3 DEF AnyPost, IInv, DataOK
    <3> QED BY <2>4, <3>1 DEF AnyPost
  <2>6. posts' = [posts EXCEPT ![p] = new]
    BY <2>2, <2>3, <2>4 DEF IInv, DataOK, AnyPost
  <2>7. posts' \in [Posts -> AnyPost]
    BY <2>5, <2>6 DEF IInv, DataOK
  <2>8. WritersOK'
    BY <1>1, <1>2, Proceeds DEF WriteUpdate
  <2>9. ReadersOK'
    BY ObserveKeeps DEF WriteUpdate
  <2> QED BY <2>7, <2>8, <2>9 DEF WriteUpdate, IInv, DataOK, CacheOK
<1>3. CASE ~Locked(w)
  <2>1. WritersOK'
    BY <1>1, <1>3, Proceeds DEF WriteUpdate
  <2>2. ReadersOK'
    BY ObserveKeeps DEF WriteUpdate
  <2> QED BY <1>3, <2>1, <2>2 DEF WriteUpdate, IInv, DataOK, CacheOK
<1> QED BY <1>2, <1>3

LEMMA WriteDeleteKeeps == ASSUME IInv, NEW w \in Writers, WriteDelete(w) PROVE IInv'
<1>1. writer[w].pc # "idle" /\ writer[w].post \in Posts
  BY KnownWriter DEF WriteDelete, Named
<1>2. posts' \in [Posts -> AnyPost]
  BY <1>1 DEF WriteDelete, AnyPost, IInv, DataOK
<1>3. WritersOK'
  BY <1>1, Proceeds DEF WriteDelete
<1>4. ReadersOK'
  BY ObserveKeeps DEF WriteDelete
<1> QED BY <1>2, <1>3, <1>4 DEF WriteDelete, IInv, DataOK, CacheOK

LEMMA WriteFollowKeeps == ASSUME IInv, NEW w \in Writers, WriteFollow(w) PROVE IInv'
<1>1. writer[w].pc # "idle" /\ writer[w].user \in Viewers /\ writer[w].author \in Authors
  BY KnownWriter DEF WriteFollow, Named
<1>2. follows' \subseteq Viewers \X Authors
  BY <1>1 DEF WriteFollow, IInv, DataOK
<1>3. WritersOK'
  <2>1. {writer[w].user} \in SUBSET Viewers
    BY <1>1
  <2>2. \/ Proceed(w, IdleWriter)
        \/ Proceed(w, [writer[w] EXCEPT !.pc = "bump", !.ids = {writer[w].user}])
    BY DEF WriteFollow
  <2> QED BY <1>1, <2>1, <2>2, Proceeds
<1>4. ReadersOK'
  BY ObserveKeeps DEF WriteFollow
<1> QED BY <1>2, <1>3, <1>4 DEF WriteFollow, IInv, DataOK, CacheOK

LEMMA WriteEraseKeeps ==
    ASSUME IInv, NEW w \in Writers, WriteErase(w) \/ WriteUnfollowAll(w) PROVE IInv'
<1>1. posts' \in [Posts -> AnyPost]
  <2>1. CASE WriteErase(w)
    <3>1. ASSUME NEW p \in Posts PROVE posts'[p] \in AnyPost
      BY <2>1 DEF WriteErase, AnyPost, IInv, DataOK
    <3>2. posts' = [p \in Posts |-> posts'[p]]
      BY <2>1 DEF WriteErase
    <3> QED BY <3>1, <3>2
  <2>2. CASE WriteUnfollowAll(w)
    BY <2>2 DEF WriteUnfollowAll, IInv, DataOK
  <2> QED BY <2>1, <2>2
<1>2. follows' \subseteq Viewers \X Authors
  BY DEF WriteErase, WriteUnfollowAll, IInv, DataOK
<1>3. WritersOK'
  BY Proceeds DEF WriteErase, WriteUnfollowAll
<1>4. ReadersOK'
  BY ObserveKeeps DEF WriteErase, WriteUnfollowAll
<1> QED BY <1>1, <1>2, <1>3, <1>4 DEF WriteErase, WriteUnfollowAll, IInv, DataOK, CacheOK

LEMMA AnnounceKeeps ==
    ASSUME IInv, NEW w \in Writers, Fanout(w) \/ FindFollowers(w) \/ Die(w) PROVE IInv'
<1>1. writer[w].pc # "idle"
  BY DEF Fanout, FindFollowers, Die
<1>2. WritersOK'
  <2>1. Followers(writer[w].author) \in SUBSET Viewers
    BY DEF Followers
  <2>2. CASE FindFollowers(w)
    BY <1>1, <2>1, <2>2, Proceeds DEF FindFollowers
  <2> QED BY <1>1, <2>2, Proceeds DEF Fanout, Die
<1> QED BY <1>2 DEF Fanout, FindFollowers, Die, IInv, DataOK, CacheOK, ReadersOK

LEMMA BumpKeeps == ASSUME IInv, NEW w \in Writers, Bump(w) PROVE IInv'
<1>1. PICK u \in writer[w].ids :
        /\ version' = [version EXCEPT ![u] = @ + 1] \/ UNCHANGED version
        /\ Bumping(w, writer[w].ids \ {u})
  BY DEF Bump
<1>2. writer[w].pc # "idle" /\ writer[w].ids \in SUBSET Viewers
  BY KnownWriter DEF Bump, AnyWriter
<1>3. version' \in [Viewers -> Nat]
  BY <1>1, <1>2 DEF IInv, DataOK
<1>4. WritersOK'
  <2>1. writer[w].ids \ {u} \in SUBSET Viewers
    BY <1>2
  <2> QED BY <1>1, <1>2, <2>1, Proceeds
<1> QED BY <1>3, <1>4 DEF Bump, IInv, DataOK, CacheOK, ReadersOK

LEMMA InitInv == Init => IInv
<1> SUFFICES ASSUME Init PROVE IInv
  OBVIOUS
<1>1. NoPost \in AnyPost /\ [state : {"feed", "hidden"}, author : Authors, version : {0}]
                            \subseteq AnyPost
  BY DEF NoPost, AnyPost
<1>2. posts \in [Posts -> AnyPost]
  BY <1>1 DEF Init
<1>3. DataOK /\ CacheOK
  BY <1>2, PageAssumption DEF Init, DataOK, CacheOK
<1> QED BY <1>3, IdleReaderTyped, IdleWriterTyped DEF Init, IInv, ReadersOK, WritersOK

LEMMA NextInv == IInv /\ [Next]_vars => IInv'
<1> SUFFICES ASSUME IInv, [Next]_vars PROVE IInv'
  OBVIOUS
<1>1. CASE UNCHANGED vars
  BY <1>1 DEF vars, IInv, DataOK, CacheOK, ReadersOK, WritersOK
<1>2. ASSUME NEW r \in Readers, Read(r) PROVE IInv'
  BY <1>2, StartWalkKeeps, ReadVersionKeeps, ReadCacheKeeps, ReadFollowingKeeps, ReadPostsKeeps,
     StoreKeeps, NextPageKeeps DEF Read
<1>3. ASSUME NEW w \in Writers, Mutate(w) PROVE IInv'
  BY <1>3, RequestsKeep, WriteCreateKeeps, WriteUpdateKeeps, WriteDeleteKeeps, WriteFollowKeeps,
     WriteEraseKeeps, AnnounceKeeps, BumpKeeps DEF Mutate
<1>4. CASE Expire
  BY <1>4, ExpireKeeps
<1> QED BY <1>1, <1>2, <1>3, <1>4 DEF Next

LEMMA Invariance == Spec => []IInv
  BY InitInv, NextInv, PTL DEF Spec

\* Whatever is written between two pages, whatever the cache returns and
\* whatever fails, no walk shows a post twice: a page lies beyond its cursor,
\* and what was shown before it.
THEOREM WalksNeverRepeat == Spec => []NoRepeat
<1>1. IInv => NoRepeat
  BY KnownReader DEF NoRepeat, Walk, GoodPage, AnyReader, Posts, After
<1> QED BY <1>1, Invariance, PTL

-----------------------------------------------------------------------------
(* Coherence: no call fails, and no account is erased.                     *)

Sound == Faults \subseteq {"expire"} /\ "erase" \notin Ops

\* Writer w is going to bump the version of u.
Touches(w, u) ==
    \/ writer[w].pc \in {"fanout", "followers"} /\ <<u, writer[w].author>> \in follows
    \/ writer[w].pc = "bump" /\ u \in writer[w].ids

Announced(u) == \A w \in Writers : ~Touches(w, u)

Current(u, v) == v = version[u] /\ Announced(u)

\* Somebody is going to bump it for post p, or for what u follows.
Telling(p, u) == \E w \in Writers : Touches(w, u) /\ writer[w].post = p
Refollowing(u) == \E w \in Writers : Touches(w, u) /\ writer[w].user = u

\* A mutation of a post goes to its author's followers.
Owner(q) == q.pc # "idle" =>
    /\ q.op # "erase" /\ q.pc # "unfollowAll"
    /\ q.op \in {"update", "delete"} => posts[q.post].author = q.author
OwnersOK == \A w \in Writers : Owner(writer[w])

\* What is stored under a version is right until that version is about to pass.
EntriesCurrent ==
    \A e \in cache :
        /\ e.version <= version[e.user]
        /\ Current(e.user, e.version) => e.page = PageOf(FeedOf(e.user, posts, follows), e.after)

\* So is what a walk has read on the way to storing it.
WalkCurrent(q) ==
    q.pc \in {"cached", "following", "posts", "store"} =>
        /\ q.version <= version[q.user]
        /\ Current(q.user, q.version) =>
              /\ q.pc = "posts" => q.following = Following(q.user, follows)
              /\ q.pc = "store" => q.page = PageOf(FeedOf(q.user, posts, follows), q.after)
WalksCurrent == \A r \in Readers : WalkCurrent(reader[r])

CInv == OwnersOK /\ EntriesCurrent /\ WalksCurrent

\* A step of a mutation changes, of the feed of a user whose version stands,
\* only the posts it is going to bump that version for.
Spares ==
    /\ \A u \in Viewers : version[u] <= version'[u]
    /\ \A p \in Posts : posts[p].author \in Authors => posts'[p].author = posts[p].author
    /\ \A u \in Viewers : version'[u] = version[u] /\ ~Refollowing(u)' =>
          /\ ~Refollowing(u) /\ Following(u, follows') = Following(u, follows)
          /\ \A p \in Posts : ~Telling(p, u)' =>
                /\ ~Telling(p, u)
                /\ p \in FeedOf(u, posts', follows') <=> p \in FeedOf(u, posts, follows)

\* A mutation spoils nothing of a user it is not going to bump.
LEMMA Spoils ==
    ASSUME IInv, CInv, UNCHANGED cache, \A r \in Readers : Same(reader'[r], reader[r]),
           \A u \in Viewers : version[u] <= version'[u],
           version' \in [Viewers -> Nat],
           \A u \in Viewers : Announced(u)' /\ version'[u] = version[u] =>
               /\ Announced(u)
               /\ FeedOf(u, posts', follows') = FeedOf(u, posts, follows)
               /\ Following(u, follows') = Following(u, follows)
    PROVE  EntriesCurrent' /\ WalksCurrent'
<1>1. ASSUME NEW u \in Viewers, NEW v \in Nat, v <= version[u], Current(u, v)'
      PROVE  /\ Current(u, v) /\ FeedOf(u, posts', follows') = FeedOf(u, posts, follows)
             /\ Following(u, follows') = Following(u, follows)
  BY <1>1 DEF Current, IInv, DataOK
<1>2. ASSUME NEW u \in Viewers, NEW v \in Nat, v <= version[u] PROVE v <= version'[u]
  BY <1>2 DEF IInv, DataOK
<1>3. EntriesCurrent'
  <2> SUFFICES ASSUME NEW e \in cache
               PROVE  /\ e.version <= version'[e.user]
                      /\ Current(e.user, e.version)'
                         => e.page = PageOf(FeedOf(e.user, posts', follows'), e.after)
    BY DEF EntriesCurrent
  <2>1. e.user \in Viewers /\ e.version \in Nat /\ e.version <= version[e.user]
    BY DEF IInv, CacheOK, AnyEntry, CInv, EntriesCurrent
  <2> QED BY <1>1, <1>2, <2>1 DEF CInv, EntriesCurrent
<1>4. ASSUME NEW r \in Readers PROVE WalkCurrent(reader[r])'
  <2>0. PICK q, p : q = reader'[r] /\ p = reader[r]
    OBVIOUS
  <2>1. Same(q, p) /\ p \in AnyReader /\ WalkCurrent(p) /\ (p.pc # "idle" => p.user \in Viewers)
    BY <2>0, KnownReader DEF CInv, WalksCurrent
  <2>2. CASE p.pc \in {"cached", "following", "posts", "store"}
    <3>1. p.user \in Viewers /\ p.version \in Nat /\ p.version <= version[p.user]
      BY <2>1, <2>2 DEF AnyReader, WalkCurrent
    <3>2. p.version <= version'[p.user]
      BY <1>2, <3>1
    <3>3. Current(p.user, p.version)' => WalkCurrent(p)'
      BY <1>1, <2>1, <2>2, <3>1, <3>2 DEF WalkCurrent
    <3>4. WalkCurrent(p)'
      BY <3>2, <3>3 DEF WalkCurrent
    <3>5. WalkCurrent(q)'
      BY <2>1, <3>4 DEF WalkCurrent, Same
    <3> QED BY <2>0, <3>5 DEF WalkCurrent
  <2>3. CASE p.pc \notin {"cached", "following", "posts", "store"}
    BY <2>0, <2>1, <2>3 DEF WalkCurrent, Same
  <2> QED BY <2>2, <2>3
<1> QED BY <1>3, <1>4 DEF WalksCurrent

\* A step of one walk.
LEMMA WalksOn ==
    ASSUME IInv, CInv, NEW r \in Readers, NEW q, reader' = [reader EXCEPT ![r] = q],
           WalkCurrent(q), UNCHANGED <<posts, follows, version, writer>>
    PROVE  WalksCurrent' /\ OwnersOK'
<1>1. \A u, v : Current(u, v)' <=> Current(u, v)
  BY DEF Current, Announced, Touches
<1>2. \A s \in Readers : reader'[s] = IF s = r THEN q ELSE reader[s]
  BY DEF IInv, ReadersOK
<1>3. \A s \in Readers : WalkCurrent(reader'[s])
  BY <1>2 DEF CInv, WalksCurrent
<1>4. WalksCurrent'
  BY <1>1, <1>3 DEF WalksCurrent, WalkCurrent
<1> QED BY <1>4 DEF OwnersOK, Owner, CInv

LEMMA ReadsCoherently ==
    ASSUME IInv, CInv, Sound, NEW r \in Readers, Read(r) PROVE CInv'
<1>0. UNCHANGED <<posts, follows, version, writer>>
  BY DEF Read, StartWalk, ReadVersion, ReadCache, ReadFollowing, ReadPosts, Store, NextPage
<1>1. \A u, v : Current(u, v)' <=> Current(u, v)
  BY <1>0 DEF Current, Announced, Touches
<1>2. reader[r] \in AnyReader /\ WalkCurrent(reader[r])
      /\ (reader[r].pc # "idle" => reader[r].user \in Viewers)
  BY KnownReader DEF CInv, WalksCurrent
<1>3. ASSUME UNCHANGED cache PROVE EntriesCurrent'
  BY <1>0, <1>1, <1>3 DEF EntriesCurrent, CInv
<1>4. ASSUME NEW u \in Viewers, StartWalk(r, u) PROVE CInv'
  <2>1. PICK q : /\ reader' = [reader EXCEPT ![r] = q]
                 /\ q = [IdleReader EXCEPT !.pc = "version", !.user = u,
                          !.steady = {p \in Posts : ~PendingPost(p) /\ ~PendingUser(u)}
                                     \cap FeedOf(u, posts, follows),
                          !.barred = {p \in Posts : ~PendingPost(p) /\ ~PendingUser(u)}
                                     \ FeedOf(u, posts, follows)]
    BY <1>4 DEF StartWalk
  <2>2. q.pc = "version"
    BY <2>1 DEF IdleReader
  <2>3. WalksCurrent' /\ OwnersOK'
    BY <1>0, <2>1, <2>2, WalksOn DEF WalkCurrent
  <2> QED BY <1>3, <1>4, <2>3 DEF CInv, StartWalk
<1>5. CASE ReadVersion(r)
  <2>1. reader' = [reader EXCEPT ![r].pc = "cached", ![r].version = version[reader[r].user]]
    BY <1>5 DEF ReadVersion, Sound
  <2>2. PICK q : q = [reader[r] EXCEPT !.pc = "cached", !.version = version[reader[r].user]]
    OBVIOUS
  <2>3. q.pc = "cached" /\ q.version = version[q.user] /\ q.user \in Viewers
    BY <1>2, <1>5, <2>2 DEF AnyReader, ReadVersion
  <2>4. reader' = [reader EXCEPT ![r] = q]
    BY <1>2, <2>1, <2>2 DEF IInv, ReadersOK, AnyReader
  <2>5. WalkCurrent(q)
    BY <2>3 DEF WalkCurrent, IInv, DataOK
  <2>6. WalksCurrent' /\ OwnersOK'
    BY <1>0, <2>4, <2>5, WalksOn
  <2> QED BY <1>3, <1>5, <2>6 DEF CInv, ReadVersion
<1>6. CASE ReadCache(r)
  <2>1. ASSUME NEW p, reader' = [reader EXCEPT ![r].pc = "served", ![r].page = p]
        PROVE  WalksCurrent' /\ OwnersOK'
    <3>1. PICK q : q = [reader[r] EXCEPT !.pc = "served", !.page = p]
      OBVIOUS
    <3>2. q.pc = "served"
      BY <1>2, <3>1 DEF AnyReader
    <3>3. reader' = [reader EXCEPT ![r] = q]
      BY <1>2, <2>1, <3>1 DEF IInv, ReadersOK, AnyReader
    <3> QED BY <1>0, <3>2, <3>3, WalksOn DEF WalkCurrent
  <2>2. ASSUME reader' = [reader EXCEPT ![r].pc = "following"]
        PROVE  WalksCurrent' /\ OwnersOK'
    <3>1. PICK q : q = [reader[r] EXCEPT !.pc = "following"]
      OBVIOUS
    <3>2. q.pc = "following" /\ q.user = reader[r].user /\ q.version = reader[r].version
      BY <1>2, <3>1 DEF AnyReader
    <3>3. reader' = [reader EXCEPT ![r] = q]
      BY <1>2, <2>2, <3>1 DEF IInv, ReadersOK, AnyReader
    <3>4. WalkCurrent(q)
      BY <1>2, <1>6, <3>2 DEF WalkCurrent, ReadCache
    <3> QED BY <1>0, <3>3, <3>4, WalksOn
  <2> QED BY <1>3, <1>6, <2>1, <2>2 DEF CInv, ReadCache
<1>7. CASE ReadFollowing(r)
  <2>1. PICK F : F = Following(reader[r].user, follows)
    OBVIOUS
  <2>2. PICK q : q = [reader[r] EXCEPT !.pc = "posts", !.following = F]
    OBVIOUS
  <2>3. /\ q.pc = "posts" /\ q.user = reader[r].user /\ q.version = reader[r].version
        /\ q.following = F
    BY <1>2, <2>2 DEF AnyReader
  <2>4. reader' = [reader EXCEPT ![r] = q]
    BY <1>2, <1>7, <2>1, <2>2 DEF IInv, ReadersOK, AnyReader, ReadFollowing
  <2>5. WalkCurrent(q)
    BY <1>2, <1>7, <2>1, <2>3 DEF WalkCurrent, ReadFollowing
  <2>6. WalksCurrent' /\ OwnersOK'
    BY <1>0, <2>4, <2>5, WalksOn
  <2> QED BY <1>3, <1>7, <2>6 DEF CInv, ReadFollowing
<1>8. CASE ReadPosts(r)
  <2>1. PICK p : p = PageOf(Selected(reader[r].following, posts), reader[r].after)
    OBVIOUS
  <2>2. PICK q : q = [reader[r] EXCEPT !.pc = "store", !.page = p]
    OBVIOUS
  <2>3. /\ q.pc = "store" /\ q.user = reader[r].user /\ q.version = reader[r].version
        /\ q.after = reader[r].after /\ q.page = p
    BY <1>2, <2>2 DEF AnyReader
  <2>4. reader' = [reader EXCEPT ![r] = q]
    BY <1>2, <1>8, <2>1, <2>2 DEF IInv, ReadersOK, AnyReader, ReadPosts
  <2>5. reader[r].following = Following(reader[r].user, follows)
        => p = PageOf(FeedOf(reader[r].user, posts, follows), reader[r].after)
    BY <2>1 DEF FeedOf
  <2>6. WalkCurrent(q)
    BY <1>2, <1>8, <2>3, <2>5 DEF WalkCurrent, ReadPosts
  <2>7. WalksCurrent' /\ OwnersOK'
    BY <1>0, <2>4, <2>6, WalksOn
  <2> QED BY <1>3, <1>8, <2>7 DEF CInv, ReadPosts
<1>9. CASE Store(r)
  <2>1. PICK q : q = [reader[r] EXCEPT !.pc = "served"]
    OBVIOUS
  <2>2. q.pc = "served"
    BY <1>2, <2>1 DEF AnyReader
  <2>3. reader' = [reader EXCEPT ![r] = q]
    BY <1>2, <1>9, <2>1 DEF IInv, ReadersOK, AnyReader, Store
  <2>4. WalksCurrent' /\ OwnersOK'
    BY <1>0, <2>2, <2>3, WalksOn DEF WalkCurrent
  <2>5. PICK new : new = [user |-> reader[r].user, version |-> reader[r].version,
                          after |-> reader[r].after, page |-> reader[r].page]
    OBVIOUS
  <2>6. /\ new.version <= version[new.user]
        /\ Current(new.user, new.version)
           => new.page = PageOf(FeedOf(new.user, posts, follows), new.after)
    BY <1>2, <1>9, <2>5 DEF WalkCurrent, Store
  <2>7. \A e \in cache' : e \in cache \/ e = new
    BY <1>9, <2>5 DEF Store
  <2>8. EntriesCurrent'
    BY <1>0, <1>1, <2>6, <2>7 DEF EntriesCurrent, CInv
  <2> QED BY <2>4, <2>8 DEF CInv
<1>10. CASE NextPage(r)
  <2>1. ASSUME NEW after, NEW seen, reader' = [reader EXCEPT ![r].pc = "version",
                ![r].after = after, ![r].seen = seen, ![r].following = {}, ![r].page = EmptyPage]
        PROVE  WalksCurrent' /\ OwnersOK'
    <3>1. PICK q : q = [reader[r] EXCEPT !.pc = "version", !.after = after, !.seen = seen,
                        !.following = {}, !.page = EmptyPage]
      OBVIOUS
    <3>2. q.pc = "version"
      BY <1>2, <3>1 DEF AnyReader
    <3>3. reader' = [reader EXCEPT ![r] = q]
      BY <1>2, <2>1, <3>1 DEF IInv, ReadersOK, AnyReader
    <3> QED BY <1>0, <3>2, <3>3, WalksOn DEF WalkCurrent
  <2>2. ASSUME reader' = [reader EXCEPT ![r] = IdleReader] PROVE WalksCurrent' /\ OwnersOK'
    BY <1>0, <2>2, IdleReaderTyped, WalksOn DEF WalkCurrent
  <2>3. ASSUME reader' = [reader EXCEPT ![r].pc = "version",
                ![r].after = reader[r].page.next,
                ![r].seen = @ \cup reader[r].page.data,
                ![r].following = {}, ![r].page = EmptyPage]
        PROVE  WalksCurrent' /\ OwnersOK'
    <3>1. PICK after, seen : after = reader[r].page.next
                             /\ seen = reader[r].seen \cup reader[r].page.data
      OBVIOUS
    <3>2. reader' = [reader EXCEPT ![r].pc = "version",
                ![r].after = after, ![r].seen = seen, ![r].following = {}, ![r].page = EmptyPage]
      BY <1>2, <2>3, <3>1 DEF IInv, ReadersOK, AnyReader
    <3> QED BY <2>1, <3>2
  <2> QED BY <1>3, <1>10, <2>2, <2>3 DEF CInv, NextPage
<1> QED BY <1>4, <1>5, <1>6, <1>7, <1>8, <1>9, <1>10 DEF Read

-----------------------------------------------------------------------------
(* What a mutation spoils, it announces.                                   *)

LEMMA Observing ==
    ASSUME IInv, NEW w \in Writers,
           \/ UNCHANGED reader
           \/ \E ps, fs : Observe(ps, fs)
    PROVE  \A r \in Readers : Same(reader'[r], reader[r])
<1>1. CASE UNCHANGED reader
  BY <1>1 DEF Same
<1>2. CASE \E ps, fs : Observe(ps, fs)
  BY <1>2, Observed
<1> QED BY <1>1, <1>2

\* A step of writer w that changes no version and no follow of u.
LEMMA Announces ==
    ASSUME IInv, NEW w \in Writers, NEW q, writer' = [writer EXCEPT ![w] = q],
           NEW u, \A a : <<u, a>> \in follows' <=> <<u, a>> \in follows,
           Touches(w, u) => Touches(w, u)', Announced(u)'
    PROVE  Announced(u) /\ Following(u, follows') = Following(u, follows)
<1>1. \A v \in Writers \ {w} : writer'[v] = writer[v]
  BY DEF IInv, WritersOK
<1>2. Announced(u)
  BY <1>1 DEF Announced, Touches
<1> QED BY <1>2 DEF Following

\* Who is not going to hear of post p, or of a change of what u follows, was not before.
LEMMA Spared ==
    ASSUME IInv, NEW w \in Writers, NEW q, writer' = [writer EXCEPT ![w] = q],
           NEW u, \A a : <<u, a>> \in follows' <=> <<u, a>> \in follows,
           Touches(w, u) => /\ Touches(w, u)'
                            /\ q.post = writer[w].post /\ q.user = writer[w].user
    PROVE  /\ Following(u, follows') = Following(u, follows)
           /\ ~Refollowing(u)' => ~Refollowing(u)
           /\ \A p : ~Telling(p, u)' => ~Telling(p, u)
<1>1. /\ \A v \in Writers \ {w} : writer'[v] = writer[v]
      /\ writer'[w] = q
  BY DEF IInv, WritersOK
<1>2. \A v \in Writers : Touches(v, u) => /\ Touches(v, u)' /\ writer'[v].post = writer[v].post
                                          /\ writer'[v].user = writer[v].user
  BY <1>1 DEF Touches
<1> QED BY <1>2 DEF Following, Telling, Refollowing

\* The step of a mutation that changes neither posts nor follows.
LEMMA SparesAll ==
    ASSUME IInv, NEW w \in Writers, NEW q, writer' = [writer EXCEPT ![w] = q],
           UNCHANGED <<posts, follows>>, \A u \in Viewers : version[u] <= version'[u],
           \A u \in Viewers : version'[u] = version[u] /\ Touches(w, u) =>
              Touches(w, u)' /\ q.post = writer[w].post /\ q.user = writer[w].user
    PROVE  Spares
<1>1. ASSUME NEW u \in Viewers, version'[u] = version[u]
      PROVE  /\ Following(u, follows') = Following(u, follows)
             /\ ~Refollowing(u)' => ~Refollowing(u)
             /\ \A p : ~Telling(p, u)' => ~Telling(p, u)
  BY <1>1, Spared
<1> QED BY <1>1 DEF Spares

LEMMA OwnersKeep ==
    ASSUME IInv, OwnersOK, NEW w \in Writers, NEW q, writer' = [writer EXCEPT ![w] = q],
           \A p \in Posts : posts[p].author \in Authors => posts'[p].author = posts[p].author,
           Owner(q)'
    PROVE  OwnersOK'
<1>1. writer'[w] = q /\ \A v \in Writers \ {w} : writer'[v] = writer[v]
  BY DEF IInv, WritersOK
<1>2. ASSUME NEW v \in Writers, v # w PROVE Owner(writer[v])'
  BY <1>1, <1>2, KnownWriter DEF Owner, Named, OwnersOK
<1> QED BY <1>1, <1>2 DEF OwnersOK, Owner

LEMMA RequestsAnnounce ==
    ASSUME IInv, CInv, Sound, NEW w \in Writers,
           \/ \E a \in Authors : RequestCreate(w, a) \/ RequestErase(w, a)
           \/ \E op \in {"update", "delete"}, p \in Posts : RequestChange(w, op, p)
           \/ \E op \in {"follow", "unfollow"}, u \in Viewers, a \in Authors :
                 RequestFollow(w, op, u, a)
    PROVE  CInv' /\ Spares
<1>1. ASSUME NEW op, NEW q, Request(w, op, q), Owner(q), q.pc = "write"
      PROVE  CInv' /\ Spares
  <2>1. UNCHANGED <<posts, follows, version, cache, reader>> /\ writer' = [writer EXCEPT ![w] = q]
        /\ writer[w].pc = "idle"
    BY <1>1 DEF Request
  <2>2. \A u : ~Touches(w, u)
    BY <2>1 DEF Touches
  <2>3. \A u \in Viewers : Announced(u)' => Announced(u)
    BY <2>1, <2>2, Announces
  <2>4. EntriesCurrent' /\ WalksCurrent'
    BY <2>1, <2>3, Spoils DEF Same, IInv, DataOK
  <2>5. OwnersOK'
    BY <1>1, <2>1, OwnersKeep DEF CInv, Owner
  <2>6. \A u \in Viewers : version[u] <= version'[u]
    BY <2>1 DEF IInv, DataOK
  <2>7. Spares
    BY <2>1, <2>2, <2>6, SparesAll
  <2> QED BY <2>4, <2>5, <2>7 DEF CInv
<1>2. ASSUME NEW a \in Authors, RequestCreate(w, a) PROVE CInv' /\ Spares
  <2>1. PICK q : q = [IdleWriter EXCEPT !.pc = "write", !.op = "create", !.author = a]
    OBVIOUS
  <2>2. q.pc = "write" /\ q.op = "create"
    BY <2>1 DEF IdleWriter
  <2> QED BY <1>1, <1>2, <2>1, <2>2 DEF RequestCreate, Owner
<1>3. ASSUME NEW a \in Authors, RequestErase(w, a) PROVE FALSE
  BY <1>3 DEF RequestErase, Request, Sound
<1>4. ASSUME NEW op \in {"update", "delete"}, NEW p \in Posts, RequestChange(w, op, p)
      PROVE  CInv' /\ Spares
  <2>1. PICK v \in 0..posts[p].version :
          Request(w, op, [IdleWriter EXCEPT !.pc = "write", !.op = op, !.post = p,
                          !.author = posts[p].author, !.version = v])
    BY <1>4 DEF RequestChange
  <2>2. PICK q : q = [IdleWriter EXCEPT !.pc = "write", !.op = op, !.post = p,
                      !.author = posts[p].author, !.version = v]
    OBVIOUS
  <2>3. q.pc = "write" /\ q.op = op /\ q.post = p /\ q.author = posts[p].author
    BY <2>2 DEF IdleWriter
  <2> QED BY <1>1, <2>1, <2>2, <2>3 DEF Owner
<1>5. ASSUME NEW op \in {"follow", "unfollow"}, NEW u \in Viewers, NEW a \in Authors,
             RequestFollow(w, op, u, a)
      PROVE  CInv' /\ Spares
  <2>1. PICK q : q = [IdleWriter EXCEPT !.pc = "write", !.op = op, !.user = u, !.author = a]
    OBVIOUS
  <2>2. q.pc = "write" /\ q.op = op
    BY <2>1 DEF IdleWriter
  <2> QED BY <1>1, <1>5, <2>1, <2>2 DEF RequestFollow, Owner
<1> QED BY <1>2, <1>3, <1>4, <1>5

\* A post of a concerns a's followers only.
LEMMA Concerned ==
    ASSUME IInv, NEW p \in Posts, NEW a \in Authors, NEW u \in Viewers,
           posts' \in [Posts -> AnyPost], UNCHANGED follows,
           \A o \in Posts \ {p} : posts'[o] = posts[o],
           posts[p].state = "none" \/ posts[p].author = a,
           posts'[p].author = a, <<u, a>> \notin follows
    PROVE  FeedOf(u, posts', follows') = FeedOf(u, posts, follows)
<1>1. a \notin Following(u, follows)
  BY DEF Following
<1>2. \A o \in Posts : o \in FeedOf(u, posts', follows) <=> o \in FeedOf(u, posts, follows)
  BY <1>1 DEF FeedOf, Selected
<1>3. FeedOf(u, posts', follows) \subseteq Posts /\ FeedOf(u, posts, follows) \subseteq Posts
  BY DEF FeedOf, Selected
<1> QED BY <1>2, <1>3

\* The write of a post by writer w, who goes on to tell the followers.
LEMMA PostWritten ==
    ASSUME IInv, CInv, NEW w \in Writers, NEW q, writer' = [writer EXCEPT ![w] = q],
           writer[w].pc = "write", NEW p \in Posts, NEW a \in Authors,
           posts' \in [Posts -> AnyPost],
           \A o \in Posts \ {p} : posts'[o] = posts[o],
           (posts[p].state = "none" /\ posts[p].author = None) \/ posts[p].author = a,
           posts'[p].author = a,
           q.pc \in {"fanout", "followers"}, q.author = a, q.op # "erase",
           q.post = p,
           UNCHANGED <<follows, version, cache>>, \E ps, fs : Observe(ps, fs)
    PROVE  CInv' /\ Spares
<1>1. \A r \in Readers : Same(reader'[r], reader[r])
  BY Observing
<1>2. ASSUME NEW u \in Viewers, Announced(u)'
      PROVE  /\ Announced(u) /\ FeedOf(u, posts', follows') = FeedOf(u, posts, follows)
             /\ Following(u, follows') = Following(u, follows)
  <2>1. writer'[w] = q
    BY DEF IInv, WritersOK
  <2>2. <<u, a>> \notin follows
    BY <1>2, <2>1 DEF Announced, Touches
  <2>3. Announced(u) /\ Following(u, follows') = Following(u, follows)
    BY <1>2, Announces DEF Touches
  <2> QED BY <2>2, <2>3, Concerned
<1>3. EntriesCurrent' /\ WalksCurrent'
  BY <1>1, <1>2, Spoils DEF IInv, DataOK
<1>4. OwnersOK'
  <2>1. \A o \in Posts : posts[o].author \in Authors => posts'[o].author = posts[o].author
    BY UserAssumption
  <2>2. Owner(q)'
    BY DEF Owner
  <2> QED BY <2>1, <2>2, OwnersKeep DEF CInv
<1>5. ASSUME NEW u \in Viewers, ~Refollowing(u)'
      PROVE  /\ ~Refollowing(u) /\ Following(u, follows') = Following(u, follows)
             /\ \A o \in Posts : ~Telling(o, u)' =>
                   /\ ~Telling(o, u)
                   /\ o \in FeedOf(u, posts', follows') <=> o \in FeedOf(u, posts, follows)
  <2>1. writer'[w] = q
    BY DEF IInv, WritersOK
  <2>2. ~Refollowing(u) /\ Following(u, follows') = Following(u, follows)
        /\ \A o : ~Telling(o, u)' => ~Telling(o, u)
    BY <1>5, Spared DEF Touches
  <2>3. \A o \in Posts \ {p} : o \in FeedOf(u, posts', follows') <=> o \in FeedOf(u, posts, follows)
    BY DEF FeedOf, Selected
  <2>4. ASSUME ~Telling(p, u)' PROVE FeedOf(u, posts', follows') = FeedOf(u, posts, follows)
    <3>1. ~Touches(w, u)'
      BY <2>1, <2>4 DEF Telling
    <3>2. <<u, a>> \notin follows
      BY <2>1, <3>1 DEF Touches
    <3> QED BY <3>2, Concerned
  <2> QED BY <2>2, <2>3, <2>4
<1>6. Spares
  <2>1. \A o \in Posts : posts[o].author \in Authors => posts'[o].author = posts[o].author
    BY UserAssumption
  <2> QED BY <1>5, <2>1 DEF Spares, IInv, DataOK
<1> QED BY <1>3, <1>4, <1>6 DEF CInv

\* A request that finds nothing to write.
LEMMA NothingWritten ==
    ASSUME IInv, CInv, NEW w \in Writers, writer[w].pc = "write", Proceed(w, IdleWriter),
           UNCHANGED <<posts, follows, version, cache>>, \E ps, fs : Observe(ps, fs)
    PROVE  CInv' /\ Spares
<1>1. \A r \in Readers : Same(reader'[r], reader[r])
  BY Observing
<1>2. \A u \in Viewers : Announced(u)' => Announced(u)
  BY Announces DEF Touches, Proceed
<1>3. EntriesCurrent' /\ WalksCurrent'
  BY <1>1, <1>2, Spoils DEF IInv, DataOK
<1>4. OwnersOK'
  BY OwnersKeep, IdleWriterTyped DEF CInv, Owner, Proceed
<1>5. writer' = [writer EXCEPT ![w] = IdleWriter]
  BY DEF Proceed
<1>6. (\A u \in Viewers : version[u] <= version'[u]) /\ \A u \in Viewers : ~Touches(w, u)
  BY DEF Touches, IInv, DataOK
<1>7. Spares
  BY <1>5, <1>6, SparesAll
<1> QED BY <1>3, <1>4, <1>7 DEF CInv

LEMMA WritesAnnounce ==
    ASSUME IInv, IInv', CInv, NEW w \in Writers,
           WriteCreate(w) \/ WriteUpdate(w) \/ WriteDelete(w)
    PROVE  CInv' /\ Spares
<1>0. /\ writer[w].pc = "write" /\ writer[w] \in AnyWriter /\ writer[w].author \in Authors
      /\ Owner(writer[w]) /\ posts' \in [Posts -> AnyPost]
      /\ UNCHANGED <<follows, version, cache>> /\ \E ps, fs : Observe(ps, fs)
  BY KnownWriter DEF WriteCreate, WriteUpdate, WriteDelete, Named, IInv, DataOK, CInv, OwnersOK
<1> PICK a \in Authors : a = writer[w].author
  BY <1>0
<1>1. CASE WriteCreate(w)
  <2>1. PICK p \in Posts, s \in {"feed", "hidden"} :
          /\ posts[p].state = "none" /\ posts[p].author = None
          /\ posts' = [posts EXCEPT ![p] = [state |-> s, author |-> a, version |-> 0]]
          /\ Proceed(w, [writer[w] EXCEPT !.pc = "fanout", !.post = p])
    BY <1>1 DEF WriteCreate
  <2>2. PICK q : q = [writer[w] EXCEPT !.pc = "fanout", !.post = p]
    OBVIOUS
  <2>3. q.pc = "fanout" /\ q.op = "create" /\ q.author = a /\ q.post = p
    BY <1>0, <1>1, <2>2 DEF AnyWriter, WriteCreate
  <2>4. posts'[p].author = a /\ \A o \in Posts \ {p} : posts'[o] = posts[o]
    BY <2>1 DEF IInv, DataOK
  <2>5. writer' = [writer EXCEPT ![w] = q]
    BY <2>1, <2>2 DEF Proceed
  <2> QED BY <1>0, <2>1, <2>3, <2>4, <2>5, PostWritten
<1>2. CASE (WriteUpdate(w) /\ Locked(w)) \/ WriteDelete(w)
  <2>0. writer[w].op \in {"update", "delete"} /\ writer[w].post \in Posts
    BY <1>2, KnownWriter DEF WriteUpdate, WriteDelete, Named
  <2>1. PICK p \in Posts : p = writer[w].post
    BY <2>0
  <2>2. PICK q : q = [writer[w] EXCEPT !.pc = "followers"]
    OBVIOUS
  <2>3. q.pc = "followers" /\ q.op \in {"update", "delete"} /\ q.author = a /\ q.post = p
    BY <1>0, <2>0, <2>1, <2>2 DEF AnyWriter
  <2>4. writer' = [writer EXCEPT ![w] = q]
    BY <1>2, <2>2 DEF WriteUpdate, WriteDelete, Proceed
  <2>5. posts[p].author = a
    BY <1>0, <2>0, <2>1 DEF Owner
  <2>6. posts'[p].author = posts[p].author /\ \A o \in Posts \ {p} : posts'[o] = posts[o]
    BY <1>2, <2>1 DEF WriteUpdate, WriteDelete, IInv, DataOK, AnyPost
  <2> QED BY <1>0, <2>3, <2>4, <2>5, <2>6, PostWritten
<1>3. CASE WriteUpdate(w) /\ ~Locked(w)
  <2>1. Proceed(w, IdleWriter) /\ UNCHANGED posts
    BY <1>3 DEF WriteUpdate
  <2> QED BY <1>0, <2>1, NothingWritten
<1> QED BY <1>1, <1>2, <1>3

\* A follow concerns the follower only.
LEMMA FollowAnnounces ==
    ASSUME IInv, CInv, NEW w \in Writers, WriteFollow(w) PROVE CInv' /\ Spares
<1>0. /\ writer[w].pc = "write" /\ writer[w] \in AnyWriter
      /\ writer[w].op \in {"follow", "unfollow"}
      /\ writer[w].user \in Viewers /\ writer[w].author \in Authors
      /\ UNCHANGED <<posts, version, cache>> /\ \E ps, fs : Observe(ps, fs)
  BY KnownWriter DEF WriteFollow, Named
<1>1. CASE UNCHANGED follows /\ Proceed(w, IdleWriter)
  BY <1>0, <1>1, NothingWritten
<1>2. CASE /\ \/ follows' = follows \cup {<<writer[w].user, writer[w].author>>}
              \/ follows' = follows \ {<<writer[w].user, writer[w].author>>}
           /\ Proceed(w, [writer[w] EXCEPT !.pc = "bump", !.ids = {writer[w].user}])
  <2>1. PICK q : q = [writer[w] EXCEPT !.pc = "bump", !.ids = {writer[w].user}]
    OBVIOUS
  <2>2. /\ q.pc = "bump" /\ q.ids = {writer[w].user} /\ q.op = writer[w].op
        /\ q.user = writer[w].user
    BY <1>0, <2>1 DEF AnyWriter
  <2>3. writer' = [writer EXCEPT ![w] = q] /\ writer'[w] = q
    BY <1>2, <2>1 DEF Proceed, IInv, WritersOK
  <2>4. ASSUME NEW u \in Viewers, Announced(u)'
        PROVE  /\ Announced(u) /\ FeedOf(u, posts', follows') = FeedOf(u, posts, follows)
               /\ Following(u, follows') = Following(u, follows)
    <3>1. u # writer[w].user
      BY <2>2, <2>3, <2>4 DEF Announced, Touches
    <3>2. \A x : <<u, x>> \in follows' <=> <<u, x>> \in follows
      BY <1>2, <3>1
    <3>3. Announced(u) /\ Following(u, follows') = Following(u, follows)
      BY <1>0, <2>3, <2>4, <3>2, Announces DEF Touches
    <3> QED BY <1>0, <3>3 DEF FeedOf
  <2>5. \A r \in Readers : Same(reader'[r], reader[r])
    BY <1>0, Observing
  <2>6. EntriesCurrent' /\ WalksCurrent'
    BY <1>0, <2>4, <2>5, Spoils DEF IInv, DataOK
  <2>7. OwnersOK'
    BY <1>0, <2>2, <2>3, OwnersKeep DEF CInv, Owner
  <2>8. ASSUME NEW u \in Viewers, ~Refollowing(u)'
        PROVE  /\ ~Refollowing(u) /\ Following(u, follows') = Following(u, follows)
               /\ \A p : ~Telling(p, u)' => ~Telling(p, u)
    <3>1. u # writer[w].user
      BY <2>2, <2>3, <2>8 DEF Refollowing, Touches
    <3>2. \A x : <<u, x>> \in follows' <=> <<u, x>> \in follows
      BY <1>2, <3>1
    <3> QED BY <1>0, <2>3, <2>8, <3>2, Spared DEF Touches
  <2>9. Spares
    BY <1>0, <2>8 DEF Spares, FeedOf, IInv, DataOK
  <2> QED BY <2>6, <2>7, <2>9 DEF CInv
<1> QED BY <1>1, <1>2 DEF WriteFollow

LEMMA TellingAnnounces ==
    ASSUME IInv, CInv, Sound, NEW w \in Writers, Fanout(w) \/ FindFollowers(w)
    PROVE  CInv' /\ Spares
<1>0. /\ writer[w] \in AnyWriter /\ Owner(writer[w]) /\ writer[w].pc \in {"fanout", "followers"}
      /\ UNCHANGED <<posts, follows, version, cache, reader>>
  BY KnownWriter DEF Fanout, FindFollowers, CInv, OwnersOK
<1>1. PICK q : /\ writer' = [writer EXCEPT ![w] = q]
               /\ \/ q = [writer[w] EXCEPT !.pc = "followers"]
                  \/ q = [writer[w] EXCEPT !.pc = "bump", !.ids = Followers(writer[w].author)]
                  \/ q = IdleWriter /\ Followers(writer[w].author) = {}
  BY DEF Fanout, FindFollowers, Proceed, Bumping, Sound
<1>2. /\ writer'[w] = q
      /\ \/ /\ q.op = writer[w].op /\ q.author = writer[w].author /\ q.post = writer[w].post
            /\ q.user = writer[w].user
            /\ \/ q.pc = "followers"
               \/ q.pc = "bump" /\ q.ids = Followers(writer[w].author)
         \/ q.pc = "idle" /\ Followers(writer[w].author) = {}
  BY <1>0, <1>1, IdleWriterTyped DEF AnyWriter, IInv, WritersOK
<1>3. ASSUME NEW u \in Viewers PROVE Touches(w, u) => Touches(w, u)'
  BY <1>0, <1>2 DEF Touches, Followers
<1>4. ASSUME NEW u \in Viewers, Announced(u)' PROVE Announced(u)
  BY <1>0, <1>1, <1>3, <1>4, Announces
<1>5. EntriesCurrent' /\ WalksCurrent'
  BY <1>0, <1>4, Spoils DEF IInv, DataOK, Same
<1>6. Owner(q)'
  BY <1>0, <1>2 DEF Owner
<1>7. OwnersOK'
  BY <1>0, <1>1, <1>6, OwnersKeep DEF CInv
<1>8. \A u \in Viewers : Touches(w, u) => q.post = writer[w].post /\ q.user = writer[w].user
  BY <1>0, <1>2 DEF Touches, Followers
<1>9. \A u \in Viewers : version[u] <= version'[u]
  BY <1>0 DEF IInv, DataOK
<1>10. Spares
  BY <1>0, <1>1, <1>3, <1>8, <1>9, SparesAll
<1> QED BY <1>5, <1>7, <1>10 DEF CInv

\* The version passes, and with it all that was stored under it.
LEMMA BumpAnnounces ==
    ASSUME IInv, CInv, Sound, NEW w \in Writers, Bump(w) PROVE CInv' /\ Spares
<1>0. /\ writer[w] \in AnyWriter /\ Owner(writer[w]) /\ writer[w].pc = "bump"
      /\ UNCHANGED <<posts, follows, cache, reader>>
  BY KnownWriter DEF Bump, CInv, OwnersOK
<1>1. PICK u \in Viewers : u \in writer[w].ids /\ version' = [version EXCEPT ![u] = @ + 1]
                           /\ Bumping(w, writer[w].ids \ {u})
  BY <1>0 DEF Bump, Sound, AnyWriter
<1>2. PICK q : /\ writer' = [writer EXCEPT ![w] = q]
               /\ \/ q = [writer[w] EXCEPT !.pc = "bump", !.ids = writer[w].ids \ {u}]
                  \/ q = IdleWriter /\ writer[w].ids \ {u} = {}
  BY <1>1 DEF Bumping, Proceed
<1>3. /\ writer'[w] = q
      /\ \/ /\ q.op = writer[w].op /\ q.author = writer[w].author /\ q.post = writer[w].post
            /\ q.user = writer[w].user /\ q.pc = "bump" /\ q.ids = writer[w].ids \ {u}
         \/ q.pc = "idle" /\ writer[w].ids \ {u} = {}
  BY <1>0, <1>2, IdleWriterTyped DEF AnyWriter, IInv, WritersOK
<1>4. /\ version' \in [Viewers -> Nat] /\ version'[u] = version[u] + 1
      /\ \A v \in Viewers : version[v] <= version'[v]
  BY <1>1 DEF IInv, DataOK
<1>5. ASSUME NEW v \in Viewers, Announced(v)', version'[v] = version[v] PROVE Announced(v)
  <2>1. v # u
    BY <1>4, <1>5 DEF IInv, DataOK
  <2>2. Touches(w, v) => Touches(w, v)'
    BY <1>0, <1>3, <2>1 DEF Touches
  <2> QED BY <1>0, <1>2, <1>5, <2>2, Announces
<1>6. EntriesCurrent' /\ WalksCurrent'
  BY <1>0, <1>4, <1>5, Spoils DEF Same
<1>7. Owner(q)'
  BY <1>0, <1>3 DEF Owner
<1>8. OwnersOK'
  BY <1>0, <1>2, <1>7, OwnersKeep DEF CInv
<1>9. ASSUME NEW v \in Viewers, version'[v] = version[v], Touches(w, v)
      PROVE  Touches(w, v)' /\ q.post = writer[w].post /\ q.user = writer[w].user
  <2>1. v # u /\ v \in writer[w].ids
    BY <1>0, <1>4, <1>9 DEF IInv, DataOK, Touches
  <2> QED BY <1>3, <2>1 DEF Touches
<1>10. Spares
  BY <1>0, <1>2, <1>4, <1>9, SparesAll
<1> QED BY <1>6, <1>8, <1>10 DEF CInv

LEMMA MutatesCoherently ==
    ASSUME IInv, IInv', CInv, Sound, NEW w \in Writers, Mutate(w) PROVE CInv' /\ Spares
<1>1. ~Die(w) /\ ~WriteErase(w) /\ ~WriteUnfollowAll(w)
  BY DEF Die, Sound, WriteErase, WriteUnfollowAll, CInv, OwnersOK, Owner
<1> QED BY <1>1, RequestsAnnounce, WritesAnnounce, FollowAnnounces, TellingAnnounces,
           BumpAnnounces DEF Mutate

LEMMA NextCoherent == ASSUME IInv, IInv', CInv, Sound, [Next]_vars PROVE CInv'
<1>1. ASSUME UNCHANGED <<posts, follows, version, reader, writer>>, cache' \subseteq cache
      PROVE  CInv'
  <2>1. \A u, v : Current(u, v)' <=> Current(u, v)
    BY <1>1 DEF Current, Announced, Touches
  <2>2. EntriesCurrent' /\ WalksCurrent' /\ OwnersOK'
    BY <1>1, <2>1 DEF CInv, EntriesCurrent, WalksCurrent, WalkCurrent, OwnersOK, Owner
  <2> QED BY <2>2 DEF CInv
<1>2. ASSUME NEW r \in Readers, Read(r) PROVE CInv'
  BY <1>2, ReadsCoherently
<1>3. ASSUME NEW w \in Writers, Mutate(w) PROVE CInv'
  BY <1>3, MutatesCoherently
<1>4. CASE Expire \/ UNCHANGED vars
  BY <1>1, <1>4 DEF Expire, vars
<1> QED BY <1>2, <1>3, <1>4 DEF Next

\* Whatever the order in which walks read, mutations write and counters are
\* incremented, a page stored under a user's current version is the page the
\* database gives once every mutation was announced: a mutation changes only
\* the feeds whose versions it is going to pass, and a walk stores what it read
\* under the version it began with.
THEOREM CacheIsCoherent ==
    ASSUME Sound PROVE Spec => []CacheCoherent
<1>1. Init => CInv
  BY IdleReaderTyped, IdleWriterTyped
  DEF Init, CInv, OwnersOK, Owner, EntriesCurrent, WalksCurrent, WalkCurrent
<1>2. IInv /\ IInv' /\ CInv /\ [Next]_vars => CInv'
  BY NextCoherent
<1>3. CInv => CacheCoherent
  BY DEF CInv, EntriesCurrent, CacheCoherent, Quiet, InFlight, Current, Announced, Touches
<1> QED BY <1>1, <1>2, <1>3, Invariance, PTL DEF Spec

-----------------------------------------------------------------------------
(* Walks.                                                                  *)

\* What is stored, and what a walk is about to store.
EntryOf(q) == [user |-> q.user, version |-> q.version, after |-> q.after, page |-> q.page]
Held == cache \cup {EntryOf(reader[r]) : r \in {s \in Readers : reader[s].pc = "store"}}

\* The page of e leaves post p to its readers, or keeps it from them.
Agrees(e, p) == IF p \in FeedOf(e.user, posts, follows)
                THEN Offers(e.page, e.after, p) ELSE p \notin e.page.data

\* A page held under a user's current version is wrong only about posts that
\* version is going to pass for.
HeldRight ==
    \A e \in Held : e.version = version[e.user] /\ ~Refollowing(e.user) =>
        \A p \in Posts : ~Telling(p, e.user) => Agrees(e, p)

\* So is what a walk has read of the follows.
FollowsRight ==
    \A r \in Readers :
        /\ reader[r].pc = "posts" /\ reader[r].version = version[reader[r].user]
        /\ ~Refollowing(reader[r].user)
        => reader[r].following = Following(reader[r].user, follows)

\* The posts ste are on this page or on a later one, and the posts bar are not
\* on it.
Serves(e, ste, bar) ==
    (\A p \in ste : Offers(e.page, e.after, p)) /\ e.page.data \cap bar = {}

\* Whatever user u may yet be served, from version f on, serves ste and bar.
Backed(u, f, ste, bar) ==
    /\ ste \subseteq FeedOf(u, posts, follows) /\ bar \cap FeedOf(u, posts, follows) = {}
    /\ \A e \in Held : e.user = u /\ f <= e.version => Serves(e, ste, bar)
    /\ \A r \in Readers : reader[r].pc = "posts" /\ reader[r].user = u /\ f <= reader[r].version =>
          /\ \A p \in ste : posts[p].author \in reader[r].following
          /\ bar # {} => reader[r].following = Following(u, follows)

\* The oldest version under which a walk may yet be served.
Floor(q) == IF q.pc \in {"version", "served"} THEN version[q.user] ELSE q.version

\* A walk has shown what it can rely on and what its cursor has passed.
WalkKept(q) == q.pc # "idle" =>
    /\ Backed(q.user, Floor(q), q.steady, q.barred)
    /\ q.pc = "served" => Serves(q, q.steady, q.barred)
    /\ \A p \in q.steady : q.after <= p => p \in q.seen
WalksKept == \A r \in Readers : WalkKept(reader[r])

GInv == HeldRight /\ FollowsRight /\ WalksKept

LEMMA HeldIs ==
    \A e : e \in Held <=> \/ e \in cache
                          \/ \E r \in Readers : reader[r].pc = "store" /\ e = EntryOf(reader[r])
  BY DEF Held

LEMMA KnownHeld ==
    ASSUME IInv, CInv, NEW e \in Held
    PROVE  e \in AnyEntry /\ e.version <= version[e.user]
<1>1. CASE e \in cache
  BY <1>1 DEF IInv, CacheOK, CInv, EntriesCurrent
<1>2. ASSUME NEW r \in Readers, reader[r].pc = "store", e = EntryOf(reader[r])
      PROVE  e \in AnyEntry /\ e.version <= version[e.user]
  <2>1. reader[r] \in AnyReader /\ reader[r].user \in Viewers /\ WalkCurrent(reader[r])
    BY <1>2, KnownReader DEF CInv, WalksCurrent
  <2>2. /\ reader[r].version \in Nat /\ reader[r].after \in After /\ reader[r].page \in Page
        /\ reader[r].version <= version[reader[r].user]
    BY <1>2, <2>1 DEF AnyReader, WalkCurrent
  <2> QED BY <1>2, <2>1, <2>2 DEF EntryOf, AnyEntry
<1> QED BY <1>1, <1>2, HeldIs

\* A later version serves what an earlier one serves.
LEMMA BackedFrom ==
    ASSUME IInv, CInv, NEW u \in Viewers, NEW f \in Nat, NEW g \in Nat, f <= g, NEW ste, NEW bar,
           Backed(u, f, ste, bar)
    PROVE  Backed(u, g, ste, bar)
<1>1. \A e \in Held : g <= e.version => f <= e.version
  BY KnownHeld DEF AnyEntry
<1>2. \A r \in Readers : g <= reader[r].version => f <= reader[r].version
  BY KnownReader DEF AnyReader
<1> QED BY <1>1, <1>2 DEF Backed

\* A walk that begins relies on what is settled, and finds it so.
LEMMA SettledBacked ==
    ASSUME IInv, CInv, HeldRight, FollowsRight, NEW u \in Viewers, NEW settled,
           settled = {p \in Posts : ~PendingPost(p) /\ ~PendingUser(u)}
    PROVE  Backed(u, version[u], settled \cap FeedOf(u, posts, follows),
                                 settled \ FeedOf(u, posts, follows))
<1>1. \A w \in Writers : Touches(w, u) => InFlight(w)
  BY DEF Touches, InFlight
<1>2. \A p \in settled : p \in Posts /\ ~Telling(p, u) /\ ~Refollowing(u)
  BY <1>1 DEF Telling, Refollowing, PendingPost, PendingUser
<1>3. ASSUME NEW e \in Held, e.user = u, version[u] <= e.version
      PROVE  Serves(e, settled \cap FeedOf(u, posts, follows), settled \ FeedOf(u, posts, follows))
  <2>1. e.version = version[u]
    BY <1>3, KnownHeld DEF AnyEntry, IInv, DataOK
  <2>2. \A p \in settled : Agrees(e, p)
    BY <1>2, <1>3, <2>1 DEF HeldRight
  <2> QED BY <1>3, <2>2 DEF Agrees, Serves
<1>4. ASSUME NEW r \in Readers, reader[r].pc = "posts", reader[r].user = u, version[u] <= reader[r].version,
             settled # {}
      PROVE  reader[r].following = Following(u, follows)
  <2>1. WalkCurrent(reader[r]) /\ reader[r] \in AnyReader
    BY KnownReader DEF CInv, WalksCurrent
  <2>2. reader[r].version = version[u]
    BY <1>4, <2>1 DEF WalkCurrent, AnyReader, IInv, DataOK
  <2>3. ~Refollowing(u)
    BY <1>2, <1>4
  <2> QED BY <1>4, <2>2, <2>3 DEF FollowsRight
<1>5. \A p \in FeedOf(u, posts, follows) : posts[p].author \in Following(u, follows)
  BY DEF FeedOf, Selected
<1> QED BY <1>3, <1>4, <1>5 DEF Backed

-----------------------------------------------------------------------------
\* What the steps of a walk make of it.
Kept(q, p) == /\ q.user = p.user /\ q.after = p.after /\ q.seen = p.seen
              /\ q.steady = p.steady /\ q.barred = p.barred

Begins(p, q) == \E settled :
    /\ p.pc = "idle" /\ q.pc = "version" /\ q.user \in Viewers /\ q.after = Start
    /\ settled = {o \in Posts : ~PendingPost(o) /\ ~PendingUser(q.user)}
    /\ q.steady = settled \cap FeedOf(q.user, posts, follows)
    /\ q.barred = settled \ FeedOf(q.user, posts, follows)

Advances(p, q) == /\ Kept(q, p) /\ q.version = p.version
    /\ \/ /\ p.pc = "cached" /\ q.pc = "served"
          /\ \E e \in cache : /\ e.user = p.user /\ e.version = p.version /\ e.after = p.after
                              /\ q.page = e.page
       \/ p.pc = "cached" /\ q.pc = "following"
       \/ p.pc = "following" /\ q.pc = "posts" /\ q.following = Following(p.user, follows)
       \/ p.pc = "posts" /\ q.pc = "store"
          /\ q.page = PageOf(Selected(p.following, posts), p.after)
       \/ p.pc = "store" /\ q.pc = "served" /\ q.page = p.page

Turns(p, q) == /\ p.pc = "served" /\ q.pc = "version" /\ p.page.next # None
               /\ q.user = p.user /\ q.steady = p.steady /\ q.barred = p.barred
               /\ q.after = p.page.next /\ q.seen = p.seen \cup p.page.data

LEMMA ReadMakes ==
    ASSUME IInv, IInv', Sound, NEW r \in Readers, Read(r)
    PROVE  /\ UNCHANGED <<posts, follows, version, writer>>
           /\ \A s \in Readers \ {r} : reader'[s] = reader[s]
           /\ \A e \in cache' : e \in cache \/ (reader[r].pc = "store" /\ e = EntryOf(reader[r]))
           /\ \/ Begins(reader[r], reader'[r])
              \/ /\ reader[r].pc = "version" /\ reader'[r].pc = "cached"
                 /\ Kept(reader'[r], reader[r]) /\ reader'[r].version = version[reader[r].user]
              \/ Advances(reader[r], reader'[r])
              \/ Turns(reader[r], reader'[r])
              \/ reader'[r].pc = "idle"
<1>0. reader \in [Readers -> AnyReader] /\ reader[r] \in AnyReader
  BY DEF IInv, ReadersOK
<1>1. UNCHANGED <<posts, follows, version, writer>>
  BY DEF Read, StartWalk, ReadVersion, ReadCache, ReadFollowing, ReadPosts, Store, NextPage
<1>2. \A s \in Readers \ {r} : reader'[s] = reader[s]
  BY <1>0 DEF Read, StartWalk, ReadVersion, ReadCache, ReadFollowing, ReadPosts, Store, NextPage
<1>3. \A e \in cache' : e \in cache \/ (reader[r].pc = "store" /\ e = EntryOf(reader[r]))
  BY DEF Read, StartWalk, ReadVersion, ReadCache, ReadFollowing, ReadPosts, Store, NextPage, EntryOf
<1>4. ASSUME NEW u \in Viewers, StartWalk(r, u) PROVE Begins(reader[r], reader'[r])
  <2>1. PICK settled, inFeed :
          /\ settled = {p \in Posts : ~PendingPost(p) /\ ~PendingUser(u)}
          /\ inFeed = FeedOf(u, posts, follows)
    OBVIOUS
  <2>2. /\ reader[r].pc = "idle"
        /\ reader'[r] = [IdleReader EXCEPT !.pc = "version", !.user = u,
             !.steady = settled \cap inFeed, !.barred = settled \ inFeed]
    BY <1>0, <1>4, <2>1 DEF StartWalk
  <2>3. /\ reader'[r].pc = "version" /\ reader'[r].user = u /\ reader'[r].after = Start
        /\ reader'[r].steady = settled \cap inFeed /\ reader'[r].barred = settled \ inFeed
    BY <2>2 DEF IdleReader
  <2> QED BY <2>1, <2>2, <2>3 DEF Begins
<1>5. ASSUME ReadVersion(r)
      PROVE  /\ reader[r].pc = "version" /\ reader'[r].pc = "cached"
             /\ Kept(reader'[r], reader[r]) /\ reader'[r].version = version[reader[r].user]
  <2>1. reader[r].pc = "version"
        /\ reader' = [reader EXCEPT ![r].pc = "cached", ![r].version = version[reader[r].user]]
    BY <1>5 DEF ReadVersion, Sound
  <2> QED BY <1>0, <2>1 DEF AnyReader, Kept
<1>6. ASSUME ReadCache(r) \/ ReadFollowing(r) \/ ReadPosts(r) \/ Store(r)
      PROVE  Advances(reader[r], reader'[r])
  <2>1. CASE ReadCache(r)
    BY <1>0, <2>1 DEF AnyReader, Kept, Advances, ReadCache, SameKey
  <2>2. CASE ReadFollowing(r)
    BY <1>0, <2>2 DEF AnyReader, Kept, Advances, ReadFollowing
  <2>3. CASE ReadPosts(r)
    BY <1>0, <2>3 DEF AnyReader, Kept, Advances, ReadPosts
  <2>4. CASE Store(r)
    BY <1>0, <2>4 DEF AnyReader, Kept, Advances, Store
  <2> QED BY <1>6, <2>1, <2>2, <2>3, <2>4
<1>7. ASSUME NextPage(r) PROVE Turns(reader[r], reader'[r]) \/ reader'[r].pc = "idle"
  <2>1. CASE reader' = [reader EXCEPT ![r] = IdleReader]
    BY <1>0, <2>1, IdleReaderTyped
  <2>2. CASE reader' # [reader EXCEPT ![r] = IdleReader]
    BY <1>0, <1>7, <2>2 DEF AnyReader, Turns, NextPage
  <2> QED BY <2>1, <2>2
<1> QED BY <1>1, <1>2, <1>3, <1>4, <1>5, <1>6, <1>7 DEF Read

\* What a walk reads, it reads of the database: all that a walk of the same user
\* relies on is in it.
LEMMA ReadBacks ==
    ASSUME IInv, IInv', CInv, Sound, NEW r \in Readers, Read(r),
           NEW u \in Viewers, NEW f \in Nat, NEW ste \in SUBSET Posts, NEW bar \in SUBSET Posts,
           Backed(u, f, ste, bar)
    PROVE  Backed(u, f, ste, bar)'
<1>1. /\ UNCHANGED <<posts, follows, version>>
      /\ \A s \in Readers \ {r} : reader'[s] = reader[s]
      /\ \A e \in cache' : e \in cache \/ (reader[r].pc = "store" /\ e = EntryOf(reader[r]))
  BY ReadMakes
<1>2. /\ reader'[r].pc = "store" => reader[r].pc = "posts" /\ Advances(reader[r], reader'[r])
      /\ reader'[r].pc = "posts" => reader[r].pc = "following" /\ Advances(reader[r], reader'[r])
  BY ReadMakes DEF Begins, Advances, Turns
<1>3. ste \subseteq FeedOf(u, posts, follows) /\ bar \cap FeedOf(u, posts, follows) = {}
  BY DEF Backed
<1>4. \A p \in ste : posts[p].state = "feed" /\ posts[p].author \in Following(u, follows)
  BY <1>3 DEF FeedOf, Selected
<1>5. ASSUME NEW e \in Held', e.user = u, f <= e.version PROVE Serves(e, ste, bar)
  <2>1. CASE e \in Held
    BY <1>5, <2>1 DEF Backed
  <2>2. CASE e \notin Held
    <3>1. reader'[r].pc = "store" /\ e = EntryOf(reader'[r])
      BY <1>1, <2>2 DEF Held
    <3>2. /\ reader[r].pc = "posts" /\ e.user = reader[r].user /\ e.version = reader[r].version
          /\ e.after = reader[r].after
          /\ e.page = PageOf(Selected(reader[r].following, posts), reader[r].after)
      BY <1>2, <3>1 DEF Advances, Kept, EntryOf
    <3>3. PICK S \in SUBSET Posts : S = Selected(reader[r].following, posts)
      BY DEF Selected
    <3>4. reader[r].after \in After
      BY KnownReader DEF AnyReader
    <3>5. \A p \in ste : posts[p].author \in reader[r].following
      BY <1>5, <3>2 DEF Backed
    <3>6. ste \subseteq S
      BY <1>4, <3>3, <3>5 DEF Selected
    <3>7. bar # {} => S = FeedOf(u, posts, follows)
      BY <1>5, <3>2, <3>3 DEF Backed, FeedOf
    <3>8. \A p \in bar : p \notin S
      BY <1>3, <3>7
    <3>9. e.page = PageOf(S, e.after) /\ e.after \in After
      BY <3>2, <3>3, <3>4
    <3>10. \A p \in ste : Offers(e.page, e.after, p)
      BY <3>6, <3>9, PageOffers
    <3>11. \A p \in bar : p \notin e.page.data
      BY <3>8, <3>9, PageOffers
    <3> QED BY <3>10, <3>11 DEF Serves
  <2> QED BY <2>1, <2>2
<1>6. ASSUME NEW s \in Readers, reader'[s].pc = "posts", reader'[s].user = u, f <= reader'[s].version
      PROVE  /\ \A p \in ste : posts[p].author \in reader'[s].following
             /\ bar # {} => reader'[s].following = Following(u, follows)
  <2>1. CASE s # r
    BY <1>1, <1>6, <2>1 DEF Backed
  <2>2. CASE s = r
    <3>1. reader'[s].following = Following(u, follows)
      BY <1>2, <1>6, <2>2 DEF Advances, Kept
    <3> QED BY <1>4, <3>1
  <2> QED BY <2>1, <2>2
<1> QED BY <1>1, <1>3, <1>5, <1>6 DEF Backed, Serves

LEMMA ReadRight ==
    ASSUME IInv, IInv', CInv, Sound, NEW r \in Readers, Read(r), HeldRight, FollowsRight
    PROVE  HeldRight' /\ FollowsRight'
<1>1. /\ UNCHANGED <<posts, follows, version, writer>>
      /\ \A s \in Readers \ {r} : reader'[s] = reader[s]
      /\ \A e \in cache' : e \in cache \/ (reader[r].pc = "store" /\ e = EntryOf(reader[r]))
  BY ReadMakes
<1>2. /\ reader'[r].pc = "store" => reader[r].pc = "posts" /\ Advances(reader[r], reader'[r])
      /\ reader'[r].pc = "posts" => reader[r].pc = "following" /\ Advances(reader[r], reader'[r])
  BY ReadMakes DEF Begins, Advances, Turns
<1>3. \A u, p : (Telling(p, u)' <=> Telling(p, u)) /\ (Refollowing(u)' <=> Refollowing(u))
  BY <1>1 DEF Telling, Refollowing, Touches
<1>4. ASSUME NEW e \in Held', e.version = version[e.user], ~Refollowing(e.user),
             NEW p \in Posts, ~Telling(p, e.user)
      PROVE  Agrees(e, p)
  <2>1. CASE e \in Held
    BY <1>4, <2>1 DEF HeldRight
  <2>2. CASE e \notin Held
    <3>1. reader'[r].pc = "store" /\ e = EntryOf(reader'[r])
      BY <1>1, <2>2 DEF Held
    <3>2. /\ reader[r].pc = "posts" /\ e.user = reader[r].user /\ e.version = reader[r].version
          /\ e.after = reader[r].after
          /\ e.page = PageOf(Selected(reader[r].following, posts), reader[r].after)
      BY <1>2, <3>1 DEF Advances, Kept, EntryOf
    <3>3. reader[r].following = Following(e.user, follows)
      BY <1>4, <3>2 DEF FollowsRight
    <3>4. PICK S \in SUBSET Posts : S = FeedOf(e.user, posts, follows)
      BY DEF FeedOf, Selected
    <3>5. e.after \in After /\ e.page = PageOf(S, e.after)
      BY <3>2, <3>3, <3>4, KnownReader DEF AnyReader, FeedOf
    <3> QED BY <3>4, <3>5, PageOffers DEF Agrees
  <2> QED BY <2>1, <2>2
<1>5. HeldRight'
  BY <1>1, <1>3, <1>4 DEF HeldRight, Agrees
<1>6. ASSUME NEW s \in Readers, reader'[s].pc = "posts", reader'[s].version = version[reader'[s].user],
             ~Refollowing(reader'[s].user)
      PROVE  reader'[s].following = Following(reader'[s].user, follows)
  <2>1. CASE s # r
    BY <1>1, <1>6, <2>1 DEF FollowsRight
  <2>2. CASE s = r
    BY <1>2, <1>6, <2>2 DEF Advances, Kept
  <2> QED BY <2>1, <2>2
<1>7. FollowsRight'
  BY <1>1, <1>3, <1>6 DEF FollowsRight
<1> QED BY <1>5, <1>7

\* A walk keeps what it relies on: the page it is served serves it, and the next
\* one resumes where that page ends.
LEMMA WalkAdvances ==
    ASSUME IInv, IInv', CInv, Sound, NEW r \in Readers, Read(r), GInv
    PROVE  WalkKept(reader[r])'
<1> PICK p, q : p = reader[r] /\ q = reader'[r]
  OBVIOUS
<1>0. p \in AnyReader /\ q \in AnyReader /\ WalkKept(p) /\ WalkCurrent(p)
      /\ (p.pc # "idle" => p.user \in Viewers)
  BY KnownReader DEF GInv, WalksKept, CInv, WalksCurrent, IInv, ReadersOK
<1>1. UNCHANGED <<posts, follows, version, writer>>
  BY ReadMakes
<1>2. \A u \in Viewers : version[u] \in Nat /\ version'[u] = version[u]
  BY <1>1 DEF IInv, DataOK
<1>3. ASSUME NEW f \in Nat, f = Floor(q), q.user \in Viewers, Backed(q.user, f, q.steady, q.barred),
             q.pc = "served" => Serves(q, q.steady, q.barred),
             \A o \in q.steady : q.after <= o => o \in q.seen
      PROVE  WalkKept(reader[r])'
  <2>1. PICK u \in Viewers, ste \in SUBSET Posts, bar \in SUBSET Posts :
          u = q.user /\ ste = q.steady /\ bar = q.barred
    BY <1>0, <1>3 DEF AnyReader
  <2>2. Backed(u, f, ste, bar)'
    BY <1>3, <2>1, ReadBacks
  <2>3. Floor(reader[r])' = f
    BY <1>2, <1>3 DEF Floor
  <2> QED BY <1>3, <2>1, <2>2, <2>3 DEF WalkKept, Serves
<1>4. CASE Begins(p, q)
  <2>1. PICK u, settled :
          /\ u \in Viewers /\ u = q.user /\ settled = {o \in Posts : ~PendingPost(o) /\ ~PendingUser(u)}
          /\ q.pc = "version" /\ q.after = Start
          /\ q.steady = settled \cap FeedOf(u, posts, follows)
          /\ q.barred = settled \ FeedOf(u, posts, follows)
    BY <1>4 DEF Begins
  <2>2. Backed(u, version[u], q.steady, q.barred)
    BY <2>1, SettledBacked DEF GInv
  <2>3. \A o \in q.steady : ~(q.after <= o)
    BY <2>1, PageAssumption DEF Start, Posts
  <2> QED BY <1>2, <1>3, <2>1, <2>2, <2>3 DEF Floor
<1>5. CASE p.pc = "version" /\ q.pc = "cached" /\ Kept(q, p) /\ q.version = version[p.user]
  BY <1>0, <1>2, <1>3, <1>5 DEF Floor, Kept, WalkKept
<1>6. CASE Advances(p, q)
  <2>1. /\ p.pc \in {"cached", "following", "posts", "store"} /\ q.pc # "version" /\ q.pc # "idle"
        /\ p.user \in Viewers /\ Kept(q, p) /\ q.version = p.version
        /\ p.version \in Nat /\ version[p.user] \in Nat /\ p.version <= version[p.user]
    BY <1>0, <1>2, <1>6 DEF Advances, WalkCurrent, AnyReader
  <2>2. Backed(p.user, p.version, p.steady, p.barred)
        /\ \A o \in p.steady : p.after <= o => o \in p.seen
    BY <1>0, <2>1 DEF WalkKept, Floor
  <2>3. CASE q.pc # "served"
    BY <1>3, <2>1, <2>2, <2>3 DEF Floor, Kept
  <2>4. CASE q.pc = "served"
    <3>1. PICK e \in Held : /\ e.user = p.user /\ e.version = p.version /\ e.after = p.after
                            /\ q.page = e.page
      <4>1. CASE p.pc = "cached"
        BY <1>6, <2>4, <4>1, HeldIs DEF Advances
      <4>2. CASE p.pc = "store"
        <5>1. EntryOf(p) \in Held /\ q.page = p.page
          BY <1>6, <4>2, HeldIs DEF Advances
        <5>2. /\ EntryOf(p).user = p.user /\ EntryOf(p).version = p.version
              /\ EntryOf(p).after = p.after /\ EntryOf(p).page = p.page
          BY DEF EntryOf
        <5> QED BY <5>1, <5>2
      <4> QED BY <1>6, <2>4, <4>1, <4>2 DEF Advances
    <3>2. Serves(e, p.steady, p.barred)
      BY <2>1, <2>2, <3>1 DEF Backed
    <3>3. Serves(q, q.steady, q.barred)
      BY <2>1, <3>1, <3>2 DEF Serves, Kept
    <3>4. Backed(p.user, version[p.user], p.steady, p.barred)
      BY <2>1, <2>2, BackedFrom
    <3> QED BY <1>3, <2>1, <2>2, <2>4, <3>3, <3>4 DEF Floor, Kept
  <2> QED BY <2>3, <2>4
<1>7. CASE Turns(p, q)
  <2>1. /\ p.pc = "served" /\ p.user \in Viewers /\ q.pc = "version" /\ q.user = p.user
        /\ q.steady = p.steady /\ q.barred = p.barred
        /\ q.after = p.page.next /\ q.seen = p.seen \cup p.page.data
    BY <1>0, <1>7 DEF Turns
  <2>2. /\ Backed(p.user, version[p.user], p.steady, p.barred) /\ Serves(p, p.steady, p.barred)
        /\ \A o \in p.steady : p.after <= o => o \in p.seen
    BY <1>0, <2>1 DEF WalkKept, Floor
  <2>3. ASSUME NEW o \in q.steady, q.after <= o PROVE o \in q.seen
    <3>1. o \in Nat /\ p.after \in Nat /\ q.after \in Nat
      BY <1>0 DEF AnyReader, Posts, After
    <3>2. CASE p.after <= o
      BY <2>1, <2>2, <3>2
    <3>3. CASE o < p.after
      <4>1. o \in p.page.data \/ o < q.after
        BY <2>1, <2>2, <3>3 DEF Serves, Offers
      <4> QED BY <2>1, <2>3, <3>1, <4>1
    <3> QED BY <3>1, <3>2, <3>3
  <2> QED BY <1>2, <1>3, <2>1, <2>2, <2>3 DEF Floor
<1>8. CASE q.pc = "idle"
  BY <1>8 DEF WalkKept
<1> QED BY <1>4, <1>5, <1>6, <1>7, <1>8, ReadMakes

LEMMA WalksRead ==
    ASSUME IInv, IInv', CInv, Sound, NEW r \in Readers, Read(r), GInv PROVE GInv'
<1>1. ASSUME NEW s \in Readers, s # r PROVE WalkKept(reader[s])'
  <2>1. UNCHANGED version /\ reader'[s] = reader[s]
    BY <1>1, ReadMakes
  <2>2. CASE reader[s].pc = "idle"
    BY <2>1, <2>2 DEF WalkKept
  <2>3. CASE reader[s].pc # "idle"
    <3>1. reader[s] \in AnyReader /\ reader[s].user \in Viewers /\ WalkKept(reader[s])
      BY <2>3, KnownReader DEF GInv, WalksKept
    <3>2. PICK u \in Viewers, f \in Nat, ste \in SUBSET Posts, bar \in SUBSET Posts :
            /\ u = reader[s].user /\ f = Floor(reader[s])
            /\ ste = reader[s].steady /\ bar = reader[s].barred
      BY <3>1 DEF AnyReader, Floor, IInv, DataOK
    <3>3. Backed(u, f, ste, bar)'
      BY <2>3, <3>1, <3>2, ReadBacks DEF WalkKept
    <3>4. Floor(reader[s])' = f
      BY <2>1, <3>2 DEF Floor
    <3> QED BY <2>1, <2>3, <3>1, <3>2, <3>3, <3>4 DEF WalkKept, Serves
  <2> QED BY <2>2, <2>3
<1>2. HeldRight' /\ FollowsRight'
  BY ReadRight DEF GInv
<1> QED BY <1>1, <1>2, WalkAdvances DEF GInv, WalksKept

-----------------------------------------------------------------------------
\* What a step that is not the walk's leaves it to rely on: less, and only what
\* the step left as it was.
Trims(q, p) ==
    /\ q.steady \subseteq p.steady /\ q.barred \subseteq p.barred
    /\ \/ UNCHANGED <<posts, follows>>
       \/ /\ q.steady \subseteq FeedOf(p.user, posts', follows')
          /\ q.barred \cap FeedOf(p.user, posts', follows') = {}
          /\ q.barred # {} => Following(p.user, follows') = Following(p.user, follows)

LEMMA ObserveTrims ==
    ASSUME IInv, NEW ps, NEW fs, Observe(ps, fs),
           ps = posts', fs = follows', NEW r \in Readers
    PROVE  Trims(reader'[r], reader[r])
<1>1. PICK u, steady, barred :
        /\ u = reader[r].user
        /\ steady = reader[r].steady \cap FeedOf(u, ps, fs)
        /\ barred = IF Following(u, fs) = Following(u, follows)
                    THEN reader[r].barred \ FeedOf(u, ps, fs) ELSE {}
  OBVIOUS
<1>2. PICK q : q = [reader[r] EXCEPT !.steady = steady, !.barred = barred]
  OBVIOUS
<1>3. reader'[r] = q
  BY <1>1, <1>2, KnownReader DEF Observe, AnyReader
<1>4. q.steady = steady /\ q.barred = barred
  <2>1. reader[r] \in AnyReader
    BY KnownReader
  <2> QED BY <1>2, <2>1 DEF AnyReader
<1> QED BY <1>1, <1>3, <1>4 DEF Trims

LEMMA MutateTrims ==
    ASSUME IInv, NEW w \in Writers, Mutate(w)
    PROVE  /\ UNCHANGED cache
           /\ \A r \in Readers : Same(reader'[r], reader[r]) /\ Trims(reader'[r], reader[r])
<1>1. CASE UNCHANGED <<posts, follows, cache, reader>>
  BY <1>1 DEF Same, Trims
<1>2. CASE UNCHANGED cache /\ \E ps, fs : Observe(ps, fs) /\ ps = posts' /\ fs = follows'
  BY <1>2, Observed, ObserveTrims
<1>3. \/ UNCHANGED <<posts, follows, cache, reader>>
      \/ UNCHANGED cache /\ Observe(posts', follows')
  <2>1. ASSUME WriteCreate(w) \/ WriteUpdate(w) \/ WriteDelete(w) \/ WriteErase(w)
        PROVE  UNCHANGED cache /\ Observe(posts', follows')
    BY <2>1 DEF WriteCreate, WriteUpdate, WriteDelete, WriteErase, Observe
  <2>2. ASSUME WriteFollow(w) \/ WriteUnfollowAll(w)
        PROVE  UNCHANGED cache /\ Observe(posts', follows')
    BY <2>2 DEF WriteFollow, WriteUnfollowAll, Observe
  <2>3. ASSUME Fanout(w) \/ FindFollowers(w) \/ Bump(w) \/ Die(w)
        PROVE  UNCHANGED <<posts, follows, cache, reader>>
    BY <2>3 DEF Fanout, FindFollowers, Bump, Die
  <2>4. ASSUME NEW op, NEW q, Request(w, op, q)
        PROVE  UNCHANGED <<posts, follows, cache, reader>>
    BY <2>4 DEF Request
  <2> QED BY <2>1, <2>2, <2>3, <2>4
          DEF Mutate, RequestCreate, RequestErase, RequestChange, RequestFollow
<1> QED BY <1>1, <1>2, <1>3

\* A step that is no walk's: it may lose pages, trim what walks rely on, and
\* change the feeds it is going to pass a version for.
LEMMA Standing ==
    ASSUME IInv, IInv', CInv, Spares, cache' \subseteq cache,
           \A r \in Readers : Same(reader'[r], reader[r])
    PROVE  /\ Held' \subseteq Held
           /\ HeldRight /\ FollowsRight => HeldRight' /\ FollowsRight'
<1>1. ASSUME NEW r \in Readers, reader'[r].pc = "store"
      PROVE  reader[r].pc = "store" /\ EntryOf(reader'[r]) = EntryOf(reader[r])
  BY <1>1 DEF Same, EntryOf
<1>2. Held' \subseteq Held
  BY <1>1 DEF Held
<1>3. \A u \in Viewers : version[u] \in Nat /\ version'[u] \in Nat /\ version[u] <= version'[u]
  BY DEF IInv, DataOK, Spares
<1>4. ASSUME HeldRight, NEW e \in Held', e.version = version'[e.user], ~Refollowing(e.user)',
             NEW p \in Posts, ~Telling(p, e.user)'
      PROVE  Agrees(e, p)'
  <2>1. e \in Held /\ e.user \in Viewers /\ e.version \in Nat /\ e.version <= version[e.user]
    BY <1>2, KnownHeld DEF AnyEntry
  <2>2. PICK u \in Viewers : u = e.user
    BY <2>1
  <2>3. version'[u] = version[u] /\ e.version = version[u]
    BY <1>3, <1>4, <2>1, <2>2
  <2>4. /\ ~Refollowing(u) /\ ~Telling(p, u)
        /\ p \in FeedOf(u, posts', follows') <=> p \in FeedOf(u, posts, follows)
    BY <1>4, <2>2, <2>3 DEF Spares
  <2>5. Agrees(e, p)
    BY <1>4, <2>1, <2>2, <2>3, <2>4 DEF HeldRight
  <2> QED BY <2>2, <2>4, <2>5 DEF Agrees
<1>5. HeldRight => HeldRight'
  BY <1>4 DEF HeldRight
<1>6. ASSUME FollowsRight, NEW r \in Readers, reader'[r].pc = "posts",
             NEW u, u = reader'[r].user, reader'[r].version = version'[u], ~Refollowing(u)'
      PROVE  reader'[r].following = Following(u, follows')
  <2>1. /\ reader[r] \in AnyReader /\ WalkCurrent(reader[r]) /\ Same(reader'[r], reader[r])
        /\ (reader[r].pc # "idle" => reader[r].user \in Viewers)
    BY KnownReader DEF CInv, WalksCurrent
  <2>2. u \in Viewers /\ u = reader[r].user
    BY <1>6, <2>1 DEF Same
  <2>3. /\ reader[r].pc = "posts" /\ reader[r].version \in Nat
        /\ reader[r].version <= version[u] /\ reader[r].version = version'[u]
    BY <1>6, <2>1, <2>2 DEF Same, WalkCurrent, AnyReader
  <2>4. version'[u] = version[u]
    BY <1>3, <2>2, <2>3
  <2>5. ~Refollowing(u) /\ Following(u, follows') = Following(u, follows)
    BY <1>6, <2>2, <2>4 DEF Spares
  <2>6. reader[r].following = Following(u, follows)
    BY <1>6, <2>2, <2>3, <2>4, <2>5 DEF FollowsRight
  <2> QED BY <2>1, <2>5, <2>6 DEF Same
<1>7. FollowsRight => FollowsRight'
  BY <1>6 DEF FollowsRight, Refollowing, Touches
<1> QED BY <1>2, <1>5, <1>7

LEMMA TrimmedBacked ==
    ASSUME IInv, IInv', CInv, Spares, cache' \subseteq cache,
           \A r \in Readers : Same(reader'[r], reader[r]),
           NEW u \in Viewers, NEW f \in Nat, NEW g \in Nat, f <= g,
           NEW ste \in SUBSET Posts, NEW bar \in SUBSET Posts,
           NEW s \in SUBSET ste, NEW b \in SUBSET bar,
           Backed(u, f, ste, bar),
           \/ UNCHANGED <<posts, follows>>
           \/ /\ s \subseteq FeedOf(u, posts', follows')
              /\ b \cap FeedOf(u, posts', follows') = {}
              /\ b # {} => Following(u, follows') = Following(u, follows)
    PROVE  Backed(u, g, s, b)'
<1>1. Held' \subseteq Held
  BY Standing
<1>2. Backed(u, g, ste, bar)
  BY BackedFrom
<1>3. /\ s \subseteq FeedOf(u, posts', follows') /\ b \cap FeedOf(u, posts', follows') = {}
      /\ b # {} => Following(u, follows') = Following(u, follows)
  BY <1>2 DEF Backed
<1>4. \A e \in Held' : e.user = u /\ g <= e.version => Serves(e, s, b)
  BY <1>1, <1>2 DEF Backed, Serves
<1>5. ASSUME NEW r \in Readers, reader'[r].pc = "posts", reader'[r].user = u, g <= reader'[r].version
      PROVE  /\ \A p \in s : posts'[p].author \in reader'[r].following
             /\ b # {} => reader'[r].following = Following(u, follows')
  <2>1. /\ reader[r].pc = "posts" /\ reader[r].user = u /\ g <= reader[r].version
        /\ reader'[r].following = reader[r].following
    BY <1>5 DEF Same
  <2>2. /\ \A p \in ste : posts[p].author \in reader[r].following
        /\ bar # {} => reader[r].following = Following(u, follows)
    BY <1>2, <2>1 DEF Backed
  <2>3. \A p \in ste : posts[p].author \in Authors
    BY <1>2 DEF Backed, FeedOf, Selected, Following
  <2>4. \A p \in s : p \in Posts /\ posts'[p].author = posts[p].author
    BY <2>3 DEF Spares
  <2> QED BY <1>3, <2>1, <2>2, <2>4
<1> QED BY <1>3, <1>4, <1>5 DEF Backed, Serves

LEMMA WalksStand ==
    ASSUME IInv, IInv', CInv, Spares, cache' \subseteq cache, GInv,
           \A r \in Readers : Same(reader'[r], reader[r]) /\ Trims(reader'[r], reader[r])
    PROVE  GInv'
<1>1. HeldRight' /\ FollowsRight'
  BY Standing DEF GInv
<1>2. ASSUME NEW r \in Readers PROVE WalkKept(reader[r])'
  <2> PICK p, q : p = reader[r] /\ q = reader'[r]
    OBVIOUS
  <2>1. /\ p \in AnyReader /\ q \in AnyReader /\ WalkKept(p) /\ Same(q, p) /\ Trims(q, p)
        /\ p.pc # "idle" => p.user \in Viewers
    BY KnownReader DEF GInv, WalksKept, IInv, ReadersOK
  <2>2. CASE q.pc = "idle"
    BY <2>2 DEF WalkKept
  <2>3. CASE q.pc # "idle"
    <3>1. PICK u \in Viewers : u = p.user /\ u = q.user
      BY <2>1, <2>3 DEF Same
    <3>2. version[u] \in Nat /\ version'[u] \in Nat /\ version[u] <= version'[u]
      BY DEF IInv, DataOK, Spares
    <3>3. PICK f \in Nat, g \in Nat :
            /\ f = Floor(p) /\ f <= g
            /\ g = IF q.pc \in {"version", "served"} THEN version'[u] ELSE q.version
      BY <2>1, <3>1, <3>2 DEF Floor, Same, AnyReader
    <3>4. PICK ste \in SUBSET Posts, bar \in SUBSET Posts : ste = p.steady /\ bar = p.barred
      BY <2>1 DEF AnyReader
    <3>5. PICK s \in SUBSET ste, b \in SUBSET bar : s = q.steady /\ b = q.barred
      BY <2>1, <3>4 DEF Trims
    <3>6. /\ Backed(u, f, ste, bar)
          /\ q.pc = "served" => Serves(p, ste, bar)
          /\ \A o \in ste : p.after <= o => o \in p.seen
      BY <2>1, <2>3, <3>1, <3>3, <3>4 DEF WalkKept, Same
    <3>7. Backed(u, g, s, b)'
      BY <2>1, <3>1, <3>3, <3>5, <3>6, TrimmedBacked DEF Trims
    <3>8. q.pc = "served" => Serves(q, s, b)
      BY <2>1, <3>6 DEF Serves, Same
    <3>9. \A o \in s : q.after <= o => o \in q.seen
      BY <2>1, <3>6 DEF Same
    <3>10. Floor(reader[r])' = g
      BY <3>1, <3>3 DEF Floor
    <3> QED BY <3>1, <3>5, <3>7, <3>8, <3>9, <3>10 DEF WalkKept, Serves
  <2> QED BY <2>2, <2>3
<1> QED BY <1>1, <1>2 DEF GInv, WalksKept

LEMMA NextKeepsWalks ==
    ASSUME IInv, IInv', CInv, Sound, GInv, [Next]_vars PROVE GInv'
<1>1. ASSUME NEW r \in Readers, Read(r) PROVE GInv'
  BY <1>1, WalksRead
<1>2. ASSUME NEW w \in Writers, Mutate(w) PROVE GInv'
  <2>1. Spares
    BY <1>2, MutatesCoherently
  <2>2. /\ cache' \subseteq cache
        /\ \A r \in Readers : Same(reader'[r], reader[r]) /\ Trims(reader'[r], reader[r])
    BY <1>2, MutateTrims
  <2> QED BY <2>1, <2>2, WalksStand
<1>3. CASE Expire \/ UNCHANGED vars
  <2>1. UNCHANGED <<posts, follows, version, reader, writer>> /\ cache' \subseteq cache
    BY <1>3 DEF Expire, vars
  <2>2. \A u, p : (Telling(p, u)' <=> Telling(p, u)) /\ (Refollowing(u)' <=> Refollowing(u))
    BY <2>1 DEF Telling, Refollowing, Touches
  <2>3. Spares
    BY <2>1, <2>2 DEF Spares, IInv, DataOK
  <2>4. \A r \in Readers : Same(reader'[r], reader[r]) /\ Trims(reader'[r], reader[r])
    BY <2>1 DEF Same, Trims
  <2> QED BY <2>1, <2>3, <2>4, WalksStand
<1> QED BY <1>1, <1>2, <1>3 DEF Next

LEMMA WalksKeep == ASSUME Sound PROVE Spec => [](IInv /\ CInv /\ GInv)
<1>1. Init => CInv /\ GInv
  BY IdleReaderTyped, IdleWriterTyped
  DEF Init, CInv, OwnersOK, Owner, EntriesCurrent, WalksCurrent, WalkCurrent,
      GInv, HeldRight, FollowsRight, WalksKept, WalkKept, Held
<1>2. IInv /\ IInv' /\ CInv /\ GInv /\ [Next]_vars => CInv' /\ GInv'
  BY NextCoherent, NextKeepsWalks
<1> QED BY <1>1, <1>2, Invariance, PTL DEF Spec

\* A post that was out of the feed when the walk began, with no mutation of it
\* or of the reader's follows unannounced, is on none of its pages, cached or
\* not, for as long as the reader's follows stay: under the version the walk
\* reads, and every later one, nobody has stored it nor is about to.
THEOREM WithdrawnPostsStayOut == ASSUME Sound PROVE Spec => []WithdrawnStaysOut
<1>1. GInv => WithdrawnStaysOut
  BY DEF GInv, WalksKept, WalkKept, Serves, WithdrawnStaysOut
<1> QED BY <1>1, WalksKeep, PTL

\* A walk that reaches the last page has shown every post that was in the feed
\* from its beginning to its end: each page shows it or ends before it.
THEOREM WalksComplete == ASSUME Sound PROVE Spec => []WalkComplete
<1>1. IInv /\ GInv => WalkComplete
  <2> SUFFICES ASSUME IInv, GInv, NEW r \in Readers, reader[r].pc = "served",
                      reader[r].page.next = None, NEW p \in reader[r].steady,
                      p \notin reader[r].seen
               PROVE  p \in reader[r].page.data
    BY DEF WalkComplete
  <2>1. Serves(reader[r], reader[r].steady, reader[r].barred) /\ ~(reader[r].after <= p)
    BY DEF GInv, WalksKept, WalkKept
  <2>2. p \in Nat /\ reader[r].after \in Nat
    BY KnownReader DEF AnyReader, Posts, After
  <2>3. p < reader[r].after
    BY <2>1, <2>2
  <2> QED BY <2>1, <2>3 DEF Serves, Offers
<1> QED BY <1>1, WalksKeep, PTL

-----------------------------------------------------------------------------
(* The counters: a mutation bumps a version, and edits a post, once.       *)

\* Writers that may still bump u, and those that may still edit p.
Bumpers(u) == {w \in Writers : /\ writer[w].pc # "idle"
                               /\ writer[w].pc = "bump" => u \in writer[w].ids}
Editors(p) == {w \in Writers : writer[w].pc = "write" /\ writer[w].op = "update"
                               /\ writer[w].post = p}

BInv ==
    /\ \A u \in Viewers : version[u] + Cardinality(Bumpers(u)) <= mutations
    /\ \A p \in Posts : posts[p].version + Cardinality(Editors(p)) <= mutations
    /\ \A w \in Writers : writer[w].version <= mutations

\* A key never names a version to come.
KInv ==
    /\ \A e \in cache : e.version <= version[e.user]
    /\ \A r \in Readers : reader[r].pc # "idle" => reader[r].version <= version[reader[r].user]
    /\ \A r \in Readers : reader[r].pc = "idle" => reader[r].version = 0

LEMMA Counting ==
    ASSUME NEW B \in SUBSET Writers, NEW C \in SUBSET Writers, NEW w \in Writers,
           C \ {w} \subseteq B
    PROVE  /\ Cardinality(B) \in Nat /\ Cardinality(C) \in Nat
           /\ Cardinality(C) <= Cardinality(B) + 1
           /\ w \in C /\ w \in B => Cardinality(C) <= Cardinality(B)
           /\ w \notin C => Cardinality(C) <= Cardinality(B)
           /\ w \notin C /\ w \in B => Cardinality(C) <= Cardinality(B) - 1
<1>1. IsFiniteSet(B) /\ IsFiniteSet(C)
  BY UserAssumption, FS_Subset
<1>2. /\ Cardinality(B) \in Nat /\ Cardinality(C) \in Nat
      /\ Cardinality(C \ {w}) = IF w \in C THEN Cardinality(C) - 1 ELSE Cardinality(C)
      /\ Cardinality(B \ {w}) = IF w \in B THEN Cardinality(B) - 1 ELSE Cardinality(B)
      /\ IsFiniteSet(B \ {w})
  BY <1>1, FS_CardinalityType, FS_RemoveElement
<1>3. C \ {w} \in SUBSET (B \ {w})
  OBVIOUS
<1>4. Cardinality(C \ {w}) <= Cardinality(B \ {w})
  BY <1>2, <1>3, FS_Subset
<1> QED BY <1>2, <1>4

LEMMA Requesting ==
    ASSUME IInv, BInv, NEW w \in Writers, NEW q \in AnyWriter, NEW op, Request(w, op, q),
           q.version <= mutations + 1
    PROVE  BInv'
<1>1. /\ writer' = [writer EXCEPT ![w] = q] /\ mutations' = mutations + 1 /\ mutations \in Nat
      /\ UNCHANGED <<posts, version>> /\ writer'[w] = q
      /\ \A v \in Writers \ {w} : writer'[v] = writer[v]
  BY DEF Request, IInv, DataOK, WritersOK
<1>2. ASSUME NEW u \in Viewers PROVE version'[u] + Cardinality(Bumpers(u)') <= mutations'
  <2>1. PICK B \in SUBSET Writers, C \in SUBSET Writers : B = Bumpers(u) /\ C = Bumpers(u)'
    BY DEF Bumpers
  <2>2. C \ {w} \subseteq B
    BY <1>1, <2>1 DEF Bumpers
  <2>3. version[u] \in Nat /\ version[u] + Cardinality(B) <= mutations
    BY <2>1 DEF BInv, IInv, DataOK
  <2> QED BY <1>1, <2>1, <2>2, <2>3, Counting
<1>3. ASSUME NEW p \in Posts PROVE posts'[p].version + Cardinality(Editors(p)') <= mutations'
  <2>1. PICK B \in SUBSET Writers, C \in SUBSET Writers : B = Editors(p) /\ C = Editors(p)'
    BY DEF Editors
  <2>2. C \ {w} \subseteq B
    BY <1>1, <2>1 DEF Editors
  <2>3. posts[p].version \in Nat /\ posts[p].version + Cardinality(B) <= mutations
    BY <2>1 DEF BInv, IInv, DataOK, AnyPost
  <2> QED BY <1>1, <2>1, <2>2, <2>3, Counting
<1>4. \A v \in Writers : writer'[v].version <= mutations'
  BY <1>1, KnownWriter DEF BInv, AnyWriter
<1> QED BY <1>2, <1>3, <1>4 DEF BInv

\* Any other step of writer w.
LEMMA Working ==
    ASSUME IInv, BInv, NEW w \in Writers, NEW q, writer' = [writer EXCEPT ![w] = q],
           UNCHANGED mutations, writer[w].pc # "idle", q.pc # "write",
           writer[w].pc = "bump" /\ q.pc # "idle" => q.pc = "bump" /\ q.ids \subseteq writer[w].ids,
           q.version = writer[w].version \/ q.version = 0,
           version' \in [Viewers -> Nat],
           \A u \in Viewers : \/ version'[u] = version[u]
                              \/ /\ version'[u] = version[u] + 1 /\ w \in Bumpers(u)
                                 /\ q.pc # "idle" => q.pc = "bump" /\ u \notin q.ids,
           posts' \in [Posts -> AnyPost],
           \A p \in Posts : \/ posts'[p].version <= posts[p].version
                            \/ posts'[p].version = posts[p].version + 1 /\ w \in Editors(p)
    PROVE  BInv'
<1>1. /\ writer'[w] = q /\ \A v \in Writers \ {w} : writer'[v] = writer[v]
      /\ mutations \in Nat
  BY DEF IInv, DataOK, WritersOK
<1>2. ASSUME NEW u \in Viewers PROVE version'[u] + Cardinality(Bumpers(u)') <= mutations
  <2>1. PICK B \in SUBSET Writers, C \in SUBSET Writers : B = Bumpers(u) /\ C = Bumpers(u)'
    BY DEF Bumpers
  <2>2. C \ {w} \subseteq B
    BY <1>1, <2>1 DEF Bumpers
  <2>3. /\ version[u] \in Nat /\ version'[u] \in Nat /\ version[u] + Cardinality(B) <= mutations
    BY <2>1 DEF BInv, IInv, DataOK
  <2>4. w \in C => w \in B
    BY <1>1, <2>1 DEF Bumpers
  <2>5. version'[u] = version[u] \/ (version'[u] = version[u] + 1 /\ w \in B /\ w \notin C)
    BY <1>1, <2>1 DEF Bumpers
  <2> QED BY <1>1, <2>1, <2>2, <2>3, <2>4, <2>5, Counting
<1>3. ASSUME NEW p \in Posts PROVE posts'[p].version + Cardinality(Editors(p)') <= mutations
  <2>1. PICK B \in SUBSET Writers, C \in SUBSET Writers : B = Editors(p) /\ C = Editors(p)'
    BY DEF Editors
  <2>2. C \ {w} \subseteq B /\ w \notin C
    BY <1>1, <2>1 DEF Editors
  <2>3. /\ posts[p].version \in Nat /\ posts'[p].version \in Nat
        /\ posts[p].version + Cardinality(B) <= mutations
    BY <2>1 DEF BInv, IInv, DataOK, AnyPost
  <2>4. posts'[p].version <= posts[p].version
        \/ (posts'[p].version = posts[p].version + 1 /\ w \in B)
    BY <2>1
  <2> QED BY <1>1, <2>1, <2>2, <2>3, <2>4, Counting
<1>4. \A v \in Writers : writer'[v].version <= mutations
  BY <1>1 DEF BInv
<1> QED BY <1>2, <1>3, <1>4 DEF BInv

LEMMA RequestsCount ==
    ASSUME IInv, BInv, NEW w \in Writers,
           \/ \E a \in Authors : RequestCreate(w, a) \/ RequestErase(w, a)
           \/ \E op \in {"update", "delete"}, p \in Posts : RequestChange(w, op, p)
           \/ \E op \in {"follow", "unfollow"}, u \in Viewers, a \in Authors :
                 RequestFollow(w, op, u, a)
    PROVE  BInv'
<1>0. IdleWriter.version = 0 /\ mutations \in Nat
  BY DEF IdleWriter, IInv, DataOK
<1>1. ASSUME NEW a \in Authors, NEW op \in {"create", "erase"},
             Request(w, op, [IdleWriter EXCEPT !.pc = "write", !.op = op, !.author = a])
      PROVE  BInv'
  <2>1. PICK q : q = [IdleWriter EXCEPT !.pc = "write", !.op = op, !.author = a]
    OBVIOUS
  <2>2. q \in AnyWriter /\ q.version = IdleWriter.version
    BY <2>1, IdleWriterTyped DEF AnyWriter
  <2>3. q.version <= mutations + 1
    BY <1>0, <2>2
  <2> QED BY <1>1, <2>1, <2>2, <2>3, Requesting
<1>2. ASSUME NEW op \in {"update", "delete"}, NEW p \in Posts, RequestChange(w, op, p)
      PROVE  BInv'
  <2>1. PICK v \in 0..posts[p].version :
          Request(w, op, [IdleWriter EXCEPT !.pc = "write", !.op = op, !.post = p,
                          !.author = posts[p].author, !.version = v])
    BY <1>2 DEF RequestChange
  <2>2. v \in Nat /\ v <= mutations
    <3>1. Cardinality(Editors(p)) \in Nat
      <4>1. Editors(p) \in SUBSET Writers
        BY DEF Editors
      <4> QED BY <4>1, UserAssumption, FS_Subset, FS_CardinalityType
    <3>2. posts[p].version \in Nat /\ posts[p].version + Cardinality(Editors(p)) <= mutations
      BY DEF BInv, IInv, DataOK, AnyPost
    <3> QED BY <1>0, <3>1, <3>2
  <2>3. PICK a \in Authors : a = posts[p].author
    BY <1>2 DEF RequestChange
  <2>4. PICK q : q = [IdleWriter EXCEPT !.pc = "write", !.op = op, !.post = p,
                      !.author = a, !.version = v]
    OBVIOUS
  <2>5. q \in AnyWriter /\ q.version = v
    BY <2>2, <2>4, IdleWriterTyped DEF AnyWriter
  <2>6. q.version <= mutations + 1
    BY <1>0, <2>2, <2>5
  <2> QED BY <2>1, <2>3, <2>4, <2>5, <2>6, Requesting
<1>3. ASSUME NEW op \in {"follow", "unfollow"}, NEW u \in Viewers, NEW a \in Authors,
             RequestFollow(w, op, u, a)
      PROVE  BInv'
  <2>1. PICK q : q = [IdleWriter EXCEPT !.pc = "write", !.op = op, !.user = u, !.author = a]
    OBVIOUS
  <2>2. q \in AnyWriter /\ q.version = IdleWriter.version
    BY <2>1, IdleWriterTyped DEF AnyWriter
  <2>3. q.version <= mutations + 1
    BY <1>0, <2>2
  <2> QED BY <1>3, <2>1, <2>2, <2>3, Requesting DEF RequestFollow
<1>4. ASSUME NEW a \in Authors, RequestCreate(w, a) \/ RequestErase(w, a) PROVE BInv'
  BY <1>1, <1>4 DEF RequestCreate, RequestErase
<1> QED BY <1>2, <1>3, <1>4

LEMMA WritesCount ==
    ASSUME IInv, IInv', BInv, NEW w \in Writers,
           \/ WriteCreate(w) \/ WriteUpdate(w) \/ WriteDelete(w) \/ WriteFollow(w)
           \/ WriteErase(w) \/ WriteUnfollowAll(w) \/ Fanout(w) \/ FindFollowers(w) \/ Die(w)
    PROVE  BInv'
<1>0. /\ writer[w] \in AnyWriter /\ writer[w].pc \notin {"idle"} /\ UNCHANGED <<mutations, version>>
      /\ ~Die(w) => writer[w].pc # "bump"
      /\ posts' \in [Posts -> AnyPost]
  BY KnownWriter DEF WriteCreate, WriteUpdate, WriteDelete, WriteFollow, WriteErase,
     WriteUnfollowAll, Fanout, FindFollowers, Die, IInv, DataOK
<1>1. \E q : /\ writer' = [writer EXCEPT ![w] = q] /\ q.pc # "write"
             /\ writer[w].pc = "bump" => q.pc = "idle"
             /\ q.version = writer[w].version \/ q.version = 0
  <2>1. ASSUME Proceed(w, IdleWriter)
        PROVE  \E q : /\ writer' = [writer EXCEPT ![w] = q] /\ q.pc # "write"
                      /\ writer[w].pc = "bump" => q.pc = "idle"
                      /\ q.version = writer[w].version \/ q.version = 0
    <3>1. IdleWriter.pc = "idle" /\ IdleWriter.version = 0
      BY DEF IdleWriter
    <3> QED BY <2>1, <3>1 DEF Proceed
  <2>2. ASSUME NEW q, ~Die(w),
               \/ q = [writer[w] EXCEPT !.pc = "followers"]
               \/ q = [writer[w] EXCEPT !.pc = "unfollowAll"]
               \/ \E p : q = [writer[w] EXCEPT !.pc = "fanout", !.post = p]
               \/ \E ids : q = [writer[w] EXCEPT !.pc = "bump", !.ids = ids]
        PROVE  q.pc # "write" /\ writer[w].pc # "bump" /\ q.version = writer[w].version
    BY <1>0, <2>2 DEF AnyWriter
  <2>3. CASE ~Die(w)
    <3>1. \/ Proceed(w, IdleWriter)
          \/ \E q : /\ writer' = [writer EXCEPT ![w] = q]
                    /\ \/ q = [writer[w] EXCEPT !.pc = "followers"]
                       \/ q = [writer[w] EXCEPT !.pc = "unfollowAll"]
                       \/ \E p : q = [writer[w] EXCEPT !.pc = "fanout", !.post = p]
                       \/ \E ids : q = [writer[w] EXCEPT !.pc = "bump", !.ids = ids]
      BY <2>3 DEF WriteCreate, WriteUpdate, WriteDelete, WriteFollow, WriteErase,
         WriteUnfollowAll, Fanout, FindFollowers, Bumping, Proceed
    <3> QED BY <2>1, <2>2, <2>3, <3>1
  <2>4. CASE Die(w)
    BY <2>1, <2>4 DEF Die
  <2> QED BY <2>3, <2>4
<1>2. \A p \in Posts : \/ posts'[p].version <= posts[p].version
                       \/ posts'[p].version = posts[p].version + 1 /\ w \in Editors(p)
  <2> SUFFICES ASSUME NEW p \in Posts
               PROVE  \/ posts'[p].version <= posts[p].version
                      \/ posts'[p].version = posts[p].version + 1 /\ w \in Editors(p)
    OBVIOUS
  <2>0. posts[p] \in AnyPost /\ posts[p].version \in Nat
    BY DEF IInv, DataOK, AnyPost
  <2>1. CASE UNCHANGED posts
    BY <2>0, <2>1
  <2>2. CASE WriteCreate(w)
    <3>1. PICK o \in Posts, s \in {"feed", "hidden"} :
            posts' = [posts EXCEPT ![o] = [state |-> s, author |-> writer[w].author, version |-> 0]]
      BY <2>2 DEF WriteCreate
    <3>2. posts'[p] = posts[p] \/ posts'[p].version = 0
      BY <3>1 DEF IInv, DataOK
    <3> QED BY <2>0, <3>2
  <2>3. CASE WriteUpdate(w)
    <3>0. PICK o \in Posts : o = writer[w].post
      BY <2>3, KnownWriter DEF WriteUpdate, Named
    <3>1. CASE UNCHANGED posts
      BY <2>0, <3>1
    <3>2. ASSUME NEW s, posts' = [posts EXCEPT ![o].state = s, ![o].version = @ + 1]
          PROVE  \/ posts'[p].version <= posts[p].version
                 \/ posts'[p].version = posts[p].version + 1 /\ w \in Editors(p)
      <4>1. CASE p # o
        BY <2>0, <3>2, <4>1 DEF IInv, DataOK
      <4>2. CASE p = o
        <5>1. posts'[p] = [posts[p] EXCEPT !.state = s, !.version = posts[p].version + 1]
          BY <3>2, <4>2 DEF IInv, DataOK, AnyPost
        <5>2. posts'[p].version = posts[p].version + 1
          BY <2>0, <5>1 DEF AnyPost
        <5> QED BY <2>3, <3>0, <4>2, <5>2 DEF WriteUpdate, Editors
      <4> QED BY <4>1, <4>2
    <3> QED BY <2>3, <3>0, <3>1, <3>2 DEF WriteUpdate
  <2>4. CASE WriteDelete(w)
    BY <2>0, <2>4 DEF WriteDelete, IInv, DataOK, AnyPost
  <2>5. CASE WriteErase(w)
    <3>1. posts'[p] = posts[p] \/ posts'[p] = [posts[p] EXCEPT !.author = None]
      BY <2>5 DEF WriteErase
    <3> QED BY <2>0, <3>1 DEF AnyPost
  <2> QED BY <2>1, <2>2, <2>3, <2>4, <2>5
          DEF WriteFollow, WriteUnfollowAll, Fanout, FindFollowers, Die
<1>3. version' \in [Viewers -> Nat] /\ \A u \in Viewers : version'[u] = version[u]
  BY <1>0 DEF IInv, DataOK
<1> QED BY <1>0, <1>1, <1>2, <1>3, Working

LEMMA BumpCounts == ASSUME IInv, IInv', BInv, NEW w \in Writers, Bump(w) PROVE BInv'
<1>0. /\ writer[w] \in AnyWriter /\ writer[w].pc = "bump" /\ UNCHANGED <<posts, mutations>>
      /\ version' \in [Viewers -> Nat] /\ posts' \in [Posts -> AnyPost]
  BY KnownWriter DEF Bump, IInv, DataOK
<1>1. PICK u \in Viewers : /\ u \in writer[w].ids
                           /\ version' = [version EXCEPT ![u] = @ + 1] \/ UNCHANGED version
                           /\ Bumping(w, writer[w].ids \ {u})
  BY <1>0 DEF Bump, AnyWriter
<1>2. PICK q : /\ writer' = [writer EXCEPT ![w] = q]
               /\ \/ q = [writer[w] EXCEPT !.pc = "bump", !.ids = writer[w].ids \ {u}]
                  \/ q = IdleWriter
  BY <1>1 DEF Bumping, Proceed
<1>3. \/ q.pc = "bump" /\ q.ids = writer[w].ids \ {u} /\ q.version = writer[w].version
      \/ q.pc = "idle" /\ q.version = 0
  <2>1. IdleWriter.pc = "idle" /\ IdleWriter.version = 0
    BY DEF IdleWriter
  <2> QED BY <1>0, <1>2, <2>1 DEF AnyWriter
<1>4. \A v \in Viewers : \/ version'[v] = version[v]
                         \/ /\ version'[v] = version[v] + 1 /\ w \in Bumpers(v)
                            /\ q.pc # "idle" => q.pc = "bump" /\ v \notin q.ids
  BY <1>0, <1>1, <1>3 DEF Bumpers, IInv, DataOK
<1>5. \A p \in Posts : posts'[p].version <= posts[p].version
  BY <1>0 DEF IInv, DataOK, AnyPost
<1> QED BY <1>0, <1>2, <1>3, <1>4, <1>5, Working

LEMMA NextCounts == ASSUME IInv, IInv', BInv, [Next]_vars PROVE BInv'
<1>1. CASE UNCHANGED <<posts, version, writer, mutations>>
  BY <1>1 DEF BInv, Bumpers, Editors
<1>2. ASSUME NEW r \in Readers, Read(r) PROVE UNCHANGED <<posts, version, writer, mutations>>
  BY <1>2 DEF Read, StartWalk, ReadVersion, ReadCache, ReadFollowing, ReadPosts, Store, NextPage
<1>3. ASSUME NEW w \in Writers, Mutate(w) PROVE BInv'
  BY <1>3, RequestsCount, WritesCount, BumpCounts DEF Mutate
<1> QED BY <1>1, <1>2, <1>3 DEF Next, vars, Expire

\* A walk moves on with its key, or begins anew.
LEMMA KeysKept ==
    ASSUME IInv, KInv, NEW r \in Readers, NEW q, reader' = [reader EXCEPT ![r] = q],
           UNCHANGED version,
           q.pc # "idle" => q.version <= version[q.user],
           q.pc = "idle" => q.version = 0,
           \A e \in cache' : e.version <= version[e.user]
    PROVE  KInv'
<1>1. \A s \in Readers : reader'[s] = IF s = r THEN q ELSE reader[s]
  BY DEF IInv, ReadersOK
<1> QED BY <1>1 DEF KInv

LEMMA ReadsKeepKeys == ASSUME IInv, KInv, NEW r \in Readers, Read(r) PROVE KInv'
<1>0. /\ UNCHANGED version /\ reader[r] \in AnyReader
      /\ \A u \in Viewers : version[u] \in Nat
      /\ reader[r].pc # "idle" => /\ reader[r].user \in Viewers
                                  /\ reader[r].version <= version[reader[r].user]
      /\ \A e \in cache : e.version <= version[e.user]
  BY KnownReader DEF KInv, IInv, DataOK, Read, StartWalk, ReadVersion, ReadCache, ReadFollowing,
     ReadPosts, Store, NextPage
<1>1. ASSUME NEW u \in Viewers, StartWalk(r, u) PROVE KInv'
  <2>1. PICK q : /\ reader' = [reader EXCEPT ![r] = q]
                 /\ q = [IdleReader EXCEPT !.pc = "version", !.user = u,
                          !.steady = {p \in Posts : ~PendingPost(p) /\ ~PendingUser(u)}
                                     \cap FeedOf(u, posts, follows),
                          !.barred = {p \in Posts : ~PendingPost(p) /\ ~PendingUser(u)}
                                     \ FeedOf(u, posts, follows)]
    BY <1>1 DEF StartWalk
  <2>2. q.pc = "version" /\ q.user = u /\ q.version = 0
    BY <2>1 DEF IdleReader
  <2>3. UNCHANGED cache
    BY <1>1 DEF StartWalk
  <2>4. reader' = [reader EXCEPT ![r] = q]
    BY <2>1
  <2>5. q.version <= version[q.user]
    BY <1>0, <2>2
  <2> QED BY <1>0, <2>2, <2>3, <2>4, <2>5, KeysKept
<1>2. CASE ReadVersion(r)
  <2>1. PICK v : /\ v \in {version[reader[r].user], 0}
                 /\ reader' = [reader EXCEPT ![r].pc = "cached", ![r].version = v]
    BY <1>2 DEF ReadVersion
  <2>2. PICK q : q = [reader[r] EXCEPT !.pc = "cached", !.version = v]
    OBVIOUS
  <2>3. q.pc = "cached" /\ q.version = v /\ q.user = reader[r].user
    BY <1>0, <2>2 DEF AnyReader
  <2>4. reader' = [reader EXCEPT ![r] = q]
    BY <1>0, <2>1, <2>2 DEF IInv, ReadersOK, AnyReader
  <2>5. v <= version[reader[r].user]
    BY <1>0, <1>2, <2>1 DEF ReadVersion
  <2> QED BY <1>0, <1>2, <2>3, <2>4, <2>5, KeysKept DEF ReadVersion
<1>3. ASSUME reader[r].pc # "idle",
             \E q : /\ reader' = [reader EXCEPT ![r] = q] /\ q.pc # "idle"
                    /\ q.version = reader[r].version /\ q.user = reader[r].user,
             \A e \in cache' : e.version <= version[e.user]
      PROVE  KInv'
  BY <1>0, <1>3, KeysKept
<1>4. CASE ReadCache(r)
  <2>1. PICK p, q : /\ q = [reader[r] EXCEPT !.pc = "served", !.page = p]
                       \/ q = [reader[r] EXCEPT !.pc = "following"]
                    /\ reader' = [reader EXCEPT ![r] = q]
    <3>1. ASSUME NEW p, reader' = [reader EXCEPT ![r].pc = "served", ![r].page = p]
          PROVE  reader' = [reader EXCEPT ![r] = [reader[r] EXCEPT !.pc = "served", !.page = p]]
      BY <1>0, <3>1 DEF IInv, ReadersOK, AnyReader
    <3>2. ASSUME reader' = [reader EXCEPT ![r].pc = "following"]
          PROVE  reader' = [reader EXCEPT ![r] = [reader[r] EXCEPT !.pc = "following"]]
      BY <1>0, <3>2 DEF IInv, ReadersOK, AnyReader
    <3> QED BY <1>4, <3>1, <3>2 DEF ReadCache
  <2>2. q.pc # "idle" /\ q.version = reader[r].version /\ q.user = reader[r].user
    BY <1>0, <2>1 DEF AnyReader
  <2> QED BY <1>0, <1>3, <1>4, <2>1, <2>2 DEF ReadCache
<1>5. CASE ReadFollowing(r)
  <2>1. PICK q : q = [reader[r] EXCEPT !.pc = "posts",
                                       !.following = Following(reader[r].user, follows)]
    OBVIOUS
  <2>2. q.pc # "idle" /\ q.version = reader[r].version /\ q.user = reader[r].user
    BY <1>0, <2>1 DEF AnyReader
  <2>3. reader' = [reader EXCEPT ![r] = q]
    BY <1>0, <1>5, <2>1 DEF IInv, ReadersOK, AnyReader, ReadFollowing
  <2> QED BY <1>0, <1>3, <1>5, <2>2, <2>3 DEF ReadFollowing
<1>6. CASE ReadPosts(r)
  <2>1. PICK q : q = [reader[r] EXCEPT !.pc = "store",
                       !.page = PageOf(Selected(reader[r].following, posts), reader[r].after)]
    OBVIOUS
  <2>2. q.pc # "idle" /\ q.version = reader[r].version /\ q.user = reader[r].user
    BY <1>0, <2>1 DEF AnyReader
  <2>3. reader' = [reader EXCEPT ![r] = q]
    BY <1>0, <1>6, <2>1 DEF IInv, ReadersOK, AnyReader, ReadPosts
  <2> QED BY <1>0, <1>3, <1>6, <2>2, <2>3 DEF ReadPosts
<1>7. CASE Store(r)
  <2>1. PICK q : q = [reader[r] EXCEPT !.pc = "served"]
    OBVIOUS
  <2>2. q.pc # "idle" /\ q.version = reader[r].version /\ q.user = reader[r].user
    BY <1>0, <2>1 DEF AnyReader
  <2>3. reader' = [reader EXCEPT ![r] = q]
    BY <1>0, <1>7, <2>1 DEF IInv, ReadersOK, AnyReader, Store
  <2>4. PICK new : new = [user |-> reader[r].user, version |-> reader[r].version,
                          after |-> reader[r].after, page |-> reader[r].page]
    OBVIOUS
  <2>5. \A e \in cache' : e \in cache \/ e = new
    BY <1>7, <2>4 DEF Store
  <2>6. \A e \in cache' : e.version <= version[e.user]
    BY <1>0, <1>7, <2>4, <2>5 DEF Store
  <2> QED BY <1>3, <1>7, <2>2, <2>3, <2>6 DEF Store
<1>8. CASE NextPage(r)
  <2>1. CASE reader' = [reader EXCEPT ![r] = IdleReader]
    BY <1>0, <1>8, <2>1, IdleReaderTyped, KeysKept DEF NextPage
  <2>2. CASE reader' = [reader EXCEPT ![r].pc = "version",
                ![r].after = reader[r].page.next,
                ![r].seen = @ \cup reader[r].page.data,
                ![r].following = {}, ![r].page = EmptyPage]
    <3>1. PICK q : q = [reader[r] EXCEPT !.pc = "version", !.after = reader[r].page.next,
                        !.seen = reader[r].seen \cup reader[r].page.data,
                        !.following = {}, !.page = EmptyPage]
      OBVIOUS
    <3>2. q.pc # "idle" /\ q.version = reader[r].version /\ q.user = reader[r].user
      BY <1>0, <3>1 DEF AnyReader
    <3>3. reader' = [reader EXCEPT ![r] = q]
      BY <1>0, <2>2, <3>1 DEF IInv, ReadersOK, AnyReader
    <3> QED BY <1>0, <1>3, <1>8, <3>2, <3>3 DEF NextPage
  <2> QED BY <1>8, <2>1, <2>2 DEF NextPage
<1> QED BY <1>1, <1>2, <1>4, <1>5, <1>6, <1>7, <1>8 DEF Read

LEMMA NextKeys == ASSUME IInv, IInv', KInv, [Next]_vars PROVE KInv'
<1>1. ASSUME \A r \in Readers : Same(reader'[r], reader[r]), cache' \subseteq cache,
             \A u \in Viewers : version[u] <= version'[u]
      PROVE  KInv'
  <2>1. \A e \in cache : /\ e.user \in Viewers /\ e.version \in Nat
                         /\ version[e.user] \in Nat /\ version'[e.user] \in Nat
    BY DEF IInv, CacheOK, AnyEntry, DataOK
  <2>2. ASSUME NEW r \in Readers, reader[r].pc # "idle"
        PROVE  reader[r].version <= version'[reader[r].user]
    BY <1>1, <2>2, KnownReader DEF KInv, IInv, DataOK, AnyReader
  <2> QED BY <1>1, <2>1, <2>2 DEF KInv, Same
<1>2. ASSUME NEW r \in Readers, Read(r) PROVE KInv'
  BY <1>2, ReadsKeepKeys
<1>3. ASSUME NEW w \in Writers, Mutate(w) PROVE KInv'
  <2>1. UNCHANGED cache
    BY <1>3 DEF Mutate, RequestCreate, RequestErase, RequestChange, RequestFollow, Request,
       WriteCreate, WriteUpdate, WriteDelete, WriteFollow, WriteErase, WriteUnfollowAll, Fanout,
       FindFollowers, Bump, Die
  <2>2. UNCHANGED reader \/ \E ps, fs : Observe(ps, fs)
    BY <1>3 DEF Mutate, RequestCreate, RequestErase, RequestChange, RequestFollow, Request,
       WriteCreate, WriteUpdate, WriteDelete, WriteFollow, WriteErase, WriteUnfollowAll, Fanout,
       FindFollowers, Bump, Die
  <2>3. UNCHANGED version \/ \E u : version' = [version EXCEPT ![u] = @ + 1]
    BY <1>3 DEF Mutate, RequestCreate, RequestErase, RequestChange, RequestFollow, Request,
       WriteCreate, WriteUpdate, WriteDelete, WriteFollow, WriteErase, WriteUnfollowAll, Fanout,
       FindFollowers, Bump, Die
  <2>4. \A u \in Viewers : version[u] <= version'[u]
    BY <2>3 DEF IInv, DataOK
  <2> QED BY <1>1, <2>1, <2>2, <2>4, Observing
<1>4. CASE Expire \/ UNCHANGED vars
  BY <1>1, <1>4 DEF Expire, vars, Same, IInv, DataOK
<1> QED BY <1>2, <1>3, <1>4 DEF Next

\* The state of feed, cache and mutations is well formed: no counter passes
\* the number of mutations begun, since each bumps a user and edits a post at
\* most once, and no key names a version to come.
THEOREM FeedTyped == Spec => []TypeOK
<1>1. Init => BInv /\ KInv
  <2> SUFFICES ASSUME Init PROVE BInv /\ KInv
    OBVIOUS
  <2>1. IdleWriter.pc = "idle" /\ IdleWriter.version = 0
    BY DEF IdleWriter
  <2>2. /\ \A u \in Viewers : Bumpers(u) = {} /\ version[u] = 0
        /\ \A p \in Posts : Editors(p) = {} /\ posts[p].version = 0
    BY <2>1 DEF Init, Bumpers, Editors, NoPost
  <2>3. BInv
    <3>1. \A w \in Writers : writer[w].version = 0
      BY <2>1 DEF Init
    <3>2. Cardinality({}) = 0
      BY FS_EmptySet
    <3>3. mutations = 0
      BY DEF Init
    <3>4. ASSUME NEW u \in Viewers PROVE version[u] + Cardinality(Bumpers(u)) <= mutations
      <4>1. Bumpers(u) = {} /\ version[u] = 0
        BY <2>2
      <4> QED BY <3>2, <3>3, <4>1
    <3>5. ASSUME NEW p \in Posts PROVE posts[p].version + Cardinality(Editors(p)) <= mutations
      <4>1. Editors(p) = {} /\ posts[p].version = 0
        BY <2>2
      <4> QED BY <3>2, <3>3, <4>1
    <3>6. \A w \in Writers : writer[w].version <= mutations
      BY <3>1, <3>3
    <3> QED BY <3>4, <3>5, <3>6 DEF BInv
  <2>4. KInv
    BY IdleReaderTyped DEF Init, KInv
  <2> QED BY <2>3, <2>4
<1>2. IInv /\ IInv' /\ BInv /\ KInv /\ [Next]_vars => BInv' /\ KInv'
  BY NextCounts, NextKeys
<1>3. IInv /\ BInv /\ KInv => TypeOK
  <2> SUFFICES ASSUME IInv, BInv, KInv PROVE TypeOK
    OBVIOUS
  <2>1. \A u \in Viewers : version[u] \in 0..MaxMutations
    <3> SUFFICES ASSUME NEW u \in Viewers PROVE version[u] \in 0..MaxMutations
      OBVIOUS
    <3>1. Bumpers(u) \in SUBSET Writers
      BY DEF Bumpers
    <3>2. Cardinality(Bumpers(u)) \in Nat
      BY <3>1, UserAssumption, FS_Subset, FS_CardinalityType
    <3>3. version[u] \in Nat /\ version[u] + Cardinality(Bumpers(u)) <= mutations
          /\ mutations \in 0..MaxMutations
      BY DEF BInv, IInv, DataOK
    <3> QED BY <3>2, <3>3, PageAssumption
  <2>2. \A p \in Posts : posts[p] \in Post
    <3> SUFFICES ASSUME NEW p \in Posts PROVE posts[p] \in Post
      OBVIOUS
    <3>1. Editors(p) \in SUBSET Writers
      BY DEF Editors
    <3>2. Cardinality(Editors(p)) \in Nat
      BY <3>1, UserAssumption, FS_Subset, FS_CardinalityType
    <3>3. posts[p] \in AnyPost /\ posts[p].version + Cardinality(Editors(p)) <= mutations
          /\ mutations \in 0..MaxMutations
      BY DEF BInv, IInv, DataOK
    <3>4. posts[p].version \in 0..MaxMutations
      BY <3>2, <3>3, PageAssumption DEF AnyPost
    <3> QED BY <3>3, <3>4 DEF AnyPost, Post, MaxEdits
  <2>3. \A e \in cache : e \in Entry
    <3> SUFFICES ASSUME NEW e \in cache PROVE e \in Entry
      OBVIOUS
    <3>1. e \in AnyEntry /\ e.version <= version[e.user]
      BY DEF IInv, CacheOK, KInv
    <3>2. e.version \in 0..MaxMutations
      BY <2>1, <3>1, PageAssumption DEF AnyEntry
    <3> QED BY <3>1, <3>2 DEF AnyEntry, Entry
  <2>4. \A r \in Readers : reader[r] \in Reader
    <3> SUFFICES ASSUME NEW r \in Readers PROVE reader[r] \in Reader
      OBVIOUS
    <3>1. reader[r] \in AnyReader /\ (reader[r].pc # "idle" => reader[r].user \in Viewers)
      BY KnownReader
    <3>2. reader[r].version \in 0..MaxMutations
      BY <2>1, <3>1, PageAssumption DEF AnyReader, KInv
    <3> QED BY <3>1, <3>2 DEF AnyReader, Reader
  <2>5. \A w \in Writers : writer[w] \in Writer
    <3> SUFFICES ASSUME NEW w \in Writers PROVE writer[w] \in Writer
      OBVIOUS
    <3>1. writer[w] \in AnyWriter
      BY KnownWriter
    <3>2. writer[w].version \in 0..MaxEdits
      BY <3>1, PageAssumption DEF AnyWriter, BInv, IInv, DataOK, MaxEdits
    <3> QED BY <3>1, <3>2 DEF AnyWriter, Writer
  <2> QED BY <2>1, <2>2, <2>3, <2>4, <2>5 DEF TypeOK, IInv, DataOK, ReadersOK, WritersOK, CacheOK
<1> QED BY <1>1, <1>2, <1>3, Invariance, PTL DEF Spec
=============================================================================
