-------------------------- MODULE MongoxRepoProofs --------------------------
(***************************************************************************)
(* Proofs about MongoxRepo, for every set of callers, ids and collection   *)
(* helpers, and without a bound on the stamped operations.                 *)
(*                                                                         *)
(* WritesStayInReach needs only Requests: whatever is on its way to the    *)
(* server carries the filter its audit and injectCond have built.          *)
(*                                                                         *)
(* UpdatesNotLost needs to know where an update time can be. A stamp is    *)
(* sent by one caller (SentAlone), every stamp in memory, on its way or    *)
(* in the collection was drawn before (Bounded), and a caller that holds   *)
(* the update time of the stored document has seen that document, but for  *)
(* a mark of deletion (KnownSeen). All of it rests on PerInstant = 1: two  *)
(* stamps within a millisecond are equal for MongoDB, and the lock cannot  *)
(* tell the documents apart.                                               *)
(*                                                                         *)
(* FeedsComplete needs no such assumption: the token of a page separates   *)
(* what a feed has returned from what it has yet to ask for, up to rows    *)
(* with the value of the token (GotOK).                                    *)
(***************************************************************************)
EXTENDS MongoxRepo, SequenceTheorems, FiniteSetTheorems, TLAPS

\* Documents and entities.
Ent == [val : Nat, created : Nat, updated : Nat, deleted : Nat,
        of : [Levels -> Names \cup {None}]]

\* The filter of baseUpdateOp (mongox.go:715) for the original update time u.
ScopedFilter(u) == [at |-> IF Carries("update") THEN u ELSE 0, cond |-> TRUE]

\* What a call may have on its way. A replacement that does not create, and a
\* patch, carry ScopedFilter of the update time the entity had before the
\* audit stamped it (a raw patch has none).
RequestOK(r) ==
  /\ "pc" \in DOMAIN r
  /\ r.pc \in {"get", "remove", "patch"} => r.id \in IDs
  /\ r.pc = "replace" =>
       /\ DOMAIN r = {"pc", "ids", "x", "kind", "orig", "filter"}
       /\ r.ids \in Seq(IDs) /\ r.ids # <<>>
       /\ r.kind # "create" => r.filter = ScopedFilter(r.orig)
  /\ r.pc = "patch" => r.filter = ScopedFilter(r.payload.updated)

\* Every caller is between such calls; this much does not need PerInstant = 1.
Requests ==
  /\ repo \in Repos /\ DOMAIN docs = IDs /\ DOMAIN call = Callers
  /\ \A c \in Callers : RequestOK(call[c])

\* A deletion in bulk.
BulkOK(r) == DOMAIN r = {"pc", "ids", "x", "at", "hits"} /\ r.at \in Nat

\* Documents, held and seen entities, and what the requests carry, have their
\* types.
Typed ==
  /\ ops \in Nat
  /\ docs \in [IDs -> Ent \cup {NoDoc}]
  /\ mem \in [Callers -> [IDs -> Ent \cup {NoDoc}]]
  /\ seen \in [Callers -> [IDs -> Ent \cup {NoDoc}]]
  /\ \A c \in Callers : /\ call[c].pc = "patch" => call[c].payload \in Ent
                        /\ call[c].pc = "bulk" => BulkOK(call[c])

\* The update time of an entity, if there is one.
Stamps(e) == IF e = NoDoc THEN {} ELSE {e.updated}

\* The update times a caller with call r and entity e of id i can filter by:
\* the one on the entity, and the one a running call has put into its filter.
Knows(r, e, i) ==
  Stamps(e) \cup (IF r.pc = "replace" /\ r.ids[1] = i THEN {r.orig} ELSE {})
            \cup (IF r.pc = "patch" /\ r.id = i THEN {r.payload.updated} ELSE {})

\* The update times that call r will store under id i when the server executes
\* it.
Sends(r, e, i) ==
  IF (r.pc = "insert" /\ i \in Range(r.ids)) \/ (r.pc = "replace" /\ r.ids[1] = i)
  THEN Stamps(e)
  ELSE IF r.pc = "patch" /\ r.id = i /\ Carries("update") THEN {r.at} ELSE {}

\* The update times of document i that caller c can filter by, now.
Known(c, i) == Knows(call[c], mem[c][i], i)
\* The update times that caller c is about to store under i.
Sent(c, i) == Sends(call[c], mem[c][i], i)

\* The stamps drawn so far. Without the update interface every update time is
\* 0.
InUse == IF Carries("update") THEN 0 .. ops ELSE {0}

\* No update time lies ahead of the clock.
Bounded ==
  \A i \in IDs : /\ Stamps(docs[i]) \subseteq InUse
                 /\ \A c \in Callers : Known(c, i) \cup Sent(c, i) \subseteq InUse

\* A stamp on its way to a document is neither stored there yet nor known to
\* another caller.
SentAlone ==
  \A i \in IDs : \A c \in Callers : \A t \in Sent(c, i) \ {0} :
    /\ t \notin Stamps(docs[i])
    /\ \A b \in Callers \ {c} : t \notin Known(b, i) \cup Sent(b, i)

\* The document as it was before it was marked deleted.
Unmarked(d) == [d EXCEPT !.deleted = 0]
\* s is d, or d before it was marked deleted: BatchDeleteByFilter
\* (mongox.go:905) leaves the update time alone.
Like(d, s) == d = s \/ Unmarked(d) = s

\* The optimistic lock: a caller that can filter by the update time of the
\* stored document has seen the document.
KnownSeen ==
  \A i \in IDs : \A c \in Callers :
    docs[i] # NoDoc /\ docs[i].updated # 0 /\ docs[i].updated \in Known(c, i)
      => Like(docs[i], seen[c][i])

\* The inductive invariant.
IInv == Requests /\ Typed /\ Bounded /\ SentAlone /\ KnownSeen

-----------------------------------------------------------------------------
\* The step leaves caller c with the call r, which fits Requests.
Serves(c, r) ==
  Become(c, r) /\ RequestOK(r) /\ repo' = repo /\ DOMAIN docs' = IDs

\* A step of one caller keeps Requests.
LEMMA RequestsStep ==
  ASSUME Requests, NEW c \in Callers, NEW r, Serves(c, r)
  PROVE  Requests'
<1>1. \A b \in Callers : call'[b] = IF b = c THEN r ELSE call[b]
  BY DEF Requests, Become, Serves
<1>2. \A b \in Callers : RequestOK(call'[b])
  BY <1>1 DEF Requests, Serves
<1>3. ASSUME NEW b \in Callers PROVE RequestOK(call[b])'
  BY <1>2 DEF RequestOK, ScopedFilter, Carries, Serves
<1> QED BY <1>3 DEF Requests, Serves, Become

\* A call that returns.
LEMMA IdleServes ==
  ASSUME NEW c \in Callers, NEW res, Return(c, res), repo' = repo, DOMAIN docs' = IDs
  PROVE  Serves(c, Idle)
<1>1. RequestOK(Idle)
  BY DEF RequestOK, Idle
<1> QED BY <1>1 DEF Serves, Return

\* GetByFilter returns, or asks again.
LEMMA GetServes ==
  ASSUME Requests, NEW c \in Callers, NEW x, NEW i \in IDs, NEW tries, FindOne(c, x, i, tries),
         repo' = repo
  PROVE  \E r : Serves(c, r) /\ r.pc \in {"idle", "get"}
<1>. DEFINE r == [pc |-> "get", id |-> i, x |-> x, tries |-> tries]
<1>1. docs' = docs /\ DOMAIN docs' = IDs
  BY DEF FindOne, Requests
<1>2. RequestOK(r) /\ r.pc = "get"
  BY DEF RequestOK
<1>3. Idle.pc = "idle"
  BY DEF Idle
<1>4. CASE Become(c, r)
  BY <1>1, <1>2, <1>4 DEF Serves
<1>5. CASE \E res : Return(c, res)
  BY <1>1, <1>3, <1>5, IdleServes
<1> QED BY <1>4, <1>5 DEF FindOne

\* A replacement goes out with the filter of auditAndBuildReplaceFilter
\* (mongox.go:693).
LEMMA SendReplaceServes ==
  ASSUME Requests, NEW c \in Callers, NEW x, NEW kind, NEW e, NEW ids, ids \in Seq(IDs), ids # <<>>,
         SendReplace(c, x, kind, e, ids), repo' = repo
  PROVE  \E r : Serves(c, r)
<1>. DEFINE r == [pc |-> "replace", ids |-> ids, x |-> x,
                  kind |-> IF Creates(kind, e) THEN "create" ELSE kind,
                  orig |-> e.updated, filter |-> ReplaceFilter(kind, e)]
<1>1. DOMAIN docs' = IDs
  BY DEF SendReplace, Requests, NoWrite
<1>2. RequestOK(r)
  <2>1. /\ "pc" \in DOMAIN r /\ r.pc = "replace" /\ r.ids = ids /\ r.orig = e.updated
        /\ DOMAIN r = {"pc", "ids", "x", "kind", "orig", "filter"}
    OBVIOUS
  <2>2. r.kind # "create" => r.filter = BaseFilter(e)
    BY DEF ReplaceFilter
  <2>. HIDE DEF r
  <2> QED BY <2>1, <2>2 DEF RequestOK, BaseFilter, ScopedFilter
<1>3. CASE Become(c, r)
  BY <1>1, <1>2, <1>3 DEF Serves
<1>4. CASE \E res : Return(c, res)
  BY <1>1, <1>4, IdleServes
<1> QED BY <1>3, <1>4 DEF SendReplace

\* A page of a feed leads to the next or to the end.
LEMMA FeedPageServes ==
  ASSUME Requests, NEW c \in Callers, NEW r, "pc" \in DOMAIN r, r.pc = "feed", FeedPage(c, r),
         repo' = repo, docs' = docs
  PROVE  \E q : Serves(c, q) /\ q.pc \in {"feed", "fed"}
<1>1. PICK t, g : \/ Become(c, [r EXCEPT !.token = t, !.got = g])
                 \/ Become(c, [r EXCEPT !.pc = "fed", !.got = g])
  <2>1. PICK rows \in SortedRows(r) :
          LET limited == First(rows, PageSize + 1)
              page == First(limited, PageSize)
              new == r.got \o page
          IN  \/ Become(c, [r EXCEPT !.token = <<page[PageSize][2]>>, !.got = new])
              \/ Become(c, [r EXCEPT !.pc = "fed", !.got = new])
    BY DEF FeedPage
  <2>. DEFINE limited == First(rows, PageSize + 1)
              page == First(limited, PageSize)
              new == r.got \o page
              next == <<page[PageSize][2]>>
  <2>2. \/ Become(c, [r EXCEPT !.token = next, !.got = new])
        \/ Become(c, [r EXCEPT !.pc = "fed", !.got = new])
    BY <2>1
  <2>. HIDE DEF new, next
  <2> QED BY <2>2
<1>2. PICK q : Become(c, q) /\ "pc" \in DOMAIN q /\ q.pc \in {"feed", "fed"}
  <2>1. ASSUME NEW q, q = [r EXCEPT !.token = t, !.got = g] \/ q = [r EXCEPT !.pc = "fed", !.got = g]
        PROVE  "pc" \in DOMAIN q /\ q.pc \in {"feed", "fed"}
    BY <2>1
  <2> QED BY <1>1, <2>1
<1>3. RequestOK(q)
  BY <1>2 DEF RequestOK
<1> QED BY <1>2, <1>3 DEF Serves, Requests

\* Calls of which Requests asks nothing.
LEMMA SilentServes ==
  ASSUME Requests, NEW c \in Callers, NEW r, Become(c, r), "pc" \in DOMAIN r,
         r.pc \in {"idle", "insert", "count", "bulk", "feed", "fed"},
         repo' = repo, DOMAIN docs' = IDs
  PROVE  Serves(c, r)
BY DEF Serves, RequestOK

\* The work of a caller is about documents of the collection and contexts with
\* identities.
LEMMA WorkIDs ==
  ASSUME Requests, NEW c \in Callers
  PROVE  /\ repo.work[c].ids \subseteq IDs
         /\ \A x \in repo.work[c].contexts : x.who \in [Levels -> Names \cup {None}]
BY ContextAssumption DEF Requests

\* A batch is a sequence of ids and not empty.
LEMMA ListsOK ==
  ASSUME NEW S, S \subseteq IDs, NEW ids \in Lists(S)
  PROVE  ids \in Seq(IDs) /\ ids # <<>>
<1>1. CASE \E i \in S : ids = <<i>>
  BY <1>1
<1>2. CASE ids \in S \X S
  <2>1. PICK i \in S, j \in S : ids = <<i, j>>
    BY <1>2
  <2> QED BY <2>1
<1> QED BY <1>1, <1>2 DEF Lists

\* Patch (mongox.go:736) sends the filter of the entity it was given.
LEMMA PatchRequest ==
  ASSUME Requests, NEW c \in Callers, NEW x, NEW i \in IDs, Patch(c, x, i), repo' = repo
  PROVE  \E r : Serves(c, r)
<1>. DEFINE e == Edited(Entity(c, i))
            r == [pc |-> "patch", id |-> i, x |-> x, filter |-> BaseFilter(e),
                  payload |-> e, at |-> Instant(ops')]
<1>1. DOMAIN docs' = IDs
  BY DEF Patch, NoWrite, Requests
<1>2. Become(c, r) \/ \E res : Return(c, res)
  BY DEF Patch
<1>. HIDE DEF e
<1>3. RequestOK(r)
  BY DEF RequestOK, BaseFilter, ScopedFilter
<1> QED BY <1>1, <1>2, <1>3, IdleServes DEF Serves

\* PatchRaw (mongox.go:766) filters by the injected condition and no update
\* time.
LEMMA PatchRawRequest ==
  ASSUME Requests, NEW c \in Callers, NEW x, NEW i \in IDs, PatchRaw(c, x, i), repo' = repo
  PROVE  \E r : Serves(c, r)
<1>. DEFINE r == [pc |-> "patch", id |-> i, x |-> x, filter |-> [at |-> 0, cond |-> TRUE],
                  payload |-> Blank(ops'), at |-> Instant(ops')]
<1>1. DOMAIN docs' = IDs
  BY DEF PatchRaw, Requests
<1>2. Become(c, r) \/ \E res : Return(c, res)
  BY DEF PatchRaw
<1>3. RequestOK(r)
  BY DEF RequestOK, ScopedFilter, Blank, Doc
<1> QED BY <1>1, <1>2, <1>3, IdleServes DEF Serves

\* Delete (mongox.go:820), soft or hard.
LEMMA DeleteServes ==
  ASSUME Requests, NEW c \in Callers, NEW x, NEW i \in IDs, Delete(c, x, i), repo' = repo
  PROVE  \E r : Serves(c, r)
<1>. DEFINE r == [pc |-> "remove", id |-> i, x |-> x]
<1>1. CASE SendReplace(c, x, "delete", CtxDeleteAudit(Entity(c, i)), <<i>>)
  <2>1. <<i>> \in Seq(IDs) /\ <<i>> # <<>>
    OBVIOUS
  <2> QED BY <1>1, <2>1, SendReplaceServes
<1>2. CASE Become(c, r) /\ NoWrite
  <2>1. RequestOK(r)
    BY DEF RequestOK
  <2> QED BY <1>2, <2>1 DEF Serves, NoWrite, Requests
<1>3. CASE (\E res : Return(c, res)) /\ docs' = docs
  BY <1>3, IdleServes DEF Requests
<1> QED BY <1>1, <1>2, <1>3 DEF Delete, NoWrite

\* Beginning a call reads or prepares, and never writes.
LEMMA BeginServes ==
  ASSUME Requests, NEW c \in Callers, NEW x \in repo.work[c].contexts, Begin(c, x), repo' = repo
  PROVE  docs' = docs /\ \E r : Serves(c, r)
<1>0. DOMAIN docs = IDs
  BY DEF Requests
<1>1. ASSUME NEW i \in repo.work[c].ids,
             Get(c, x, i) \/ Upsert(c, x, i) \/ Delete(c, x, i) \/ Patch(c, x, i) \/ PatchRaw(c, x, i)
      PROVE  docs' = docs /\ \E r : Serves(c, r)
  <2>0. i \in IDs /\ <<i>> \in Seq(IDs)
    BY WorkIDs
  <2>1. CASE Get(c, x, i)
    BY <1>0, <2>0, <2>1, GetServes, IdleServes DEF Get, FindOne
  <2>2. CASE Upsert(c, x, i)
    BY <2>0, <2>2, SendReplaceServes DEF Upsert, SendReplace, NoWrite
  <2>3. CASE Delete(c, x, i)
    BY <2>0, <2>3, DeleteServes DEF Delete, SendReplace, NoWrite
  <2>4. CASE Patch(c, x, i) \/ PatchRaw(c, x, i)
    BY <2>0, <2>4, PatchRequest, PatchRawRequest DEF Patch, PatchRaw, NoWrite
  <2> QED BY <1>1, <2>1, <2>2, <2>3, <2>4
<1>2. ASSUME NEW ids \in Lists(repo.work[c].ids), Create(c, x, ids) \/ Update(c, x, ids)
      PROVE  docs' = docs /\ \E r : Serves(c, r)
  <2>0. ids \in Seq(IDs) /\ ids # <<>>
    BY WorkIDs, ListsOK
  <2>1. CASE Create(c, x, ids)
    <3>1. docs' = docs /\ (Become(c, [pc |-> "insert", ids |-> ids]) \/ \E res : Return(c, res))
      BY <2>1 DEF Create, NoWrite
    <3> QED BY <1>0, <3>1, SilentServes, IdleServes
  <2>2. CASE Update(c, x, ids)
    BY <2>0, <2>2, SendReplaceServes DEF Update, SendReplace, NoWrite
  <2> QED BY <1>2, <2>1, <2>2
<1>3. ASSUME NEW ids, BatchDelete(c, x, ids) PROVE docs' = docs /\ \E r : Serves(c, r)
  <2>1. PICK r : Become(c, r) /\ "pc" \in DOMAIN r /\ r.pc \in {"idle", "bulk"}
    BY <1>3 DEF BatchDelete, Return, Idle
  <2> QED BY <1>0, <1>3, <2>1, SilentServes DEF BatchDelete
<1>4. ASSUME NEW f, BeginFeed(c, x, f.field, f.desc) PROVE docs' = docs /\ \E r : Serves(c, r)
  <2>. DEFINE r == [pc |-> "feed", x |-> x, field |-> f.field, desc |-> f.desc,
                    token |-> <<>>, got |-> <<>>]
  <2>1. docs' = docs /\ (FeedPage(c, r) \/ \E res : Return(c, res))
    BY <1>4 DEF BeginFeed
  <2>2. "pc" \in DOMAIN r /\ r.pc = "feed"
    OBVIOUS
  <2>. HIDE DEF r
  <2> QED BY <1>0, <2>1, <2>2, FeedPageServes, IdleServes
<1> QED BY <1>1, <1>2, <1>3, <1>4 DEF Begin

\* The server executes a request of caller c.
Writes(c) ==
  \/ \E reply \in BOOLEAN : \/ InsertReply(c, reply) \/ ReplaceReply(c, reply)
                            \/ PatchReply(c, reply) \/ RemoveReply(c, reply)
  \/ \E i \in IDs : BulkVisit(c, i)

\* What is left of a batch after an entity that was not the last.
LEMMA TailLeft ==
  ASSUME NEW s \in Seq(IDs), s # <<>>, Len(s) # 1
  PROVE  Tail(s) \in Seq(IDs) /\ Tail(s) # <<>>
<1>. DEFINE n == Len(s)
            k == Len(Tail(s))
<1>1. n \in Nat \ {0} /\ Len(<<>>) = 0
  BY EmptySeq, Zenon
<1>2. Tail(s) \in Seq(IDs) /\ k = n - 1
  BY HeadTailProperties, Zenon
<1>3. n # 1
  OBVIOUS
<1>4. Tail(s) = <<>> => k = 0
  BY <1>1, Zenon
<1>. HIDE DEF n, k
<1>5. k # 0
  BY <1>1, <1>2, <1>3
<1> QED BY <1>2, <1>4, <1>5, Zenon

\* The reply to a replacement: the next entity of a batch, the count of
\* commonReplace, or the end.
LEMMA ReplaceReplyServes ==
  ASSUME Requests, NEW c \in Callers, NEW reply, ReplaceReply(c, reply), repo' = repo
  PROVE  \E r : Serves(c, r)
<1>. DEFINE r == call[c]
<1>1. RequestOK(r) /\ r.pc = "replace" /\ r.ids \in Seq(IDs) /\ r.ids # <<>>
      /\ DOMAIN r = {"pc", "ids", "x", "kind", "orig", "filter"}
  BY DEF ReplaceReply, Requests, RequestOK
<1>2. DOMAIN docs' = IDs
  BY DEF ReplaceReply, Requests, Store, NoWrite
<1>3. Proceed(c, r) \/ Become(c, [r EXCEPT !.pc = "count", !.filter.at = 0])
        \/ \E res : Return(c, res)
  BY DEF ReplaceReply
<1>. HIDE DEF r
<1>4. CASE Become(c, [r EXCEPT !.pc = "count", !.filter.at = 0])
  BY <1>1, <1>2, <1>4, SilentServes
<1>5. CASE \E res : Return(c, res)
  BY <1>2, <1>5, IdleServes
<1>6. CASE Len(r.ids) # 1 /\ Proceed(c, r)
  <2>0. Tail(r.ids) \in Seq(IDs) /\ Tail(r.ids) # <<>>
    BY <1>1, <1>6, TailLeft
  <2>. DEFINE rest == Tail(r.ids)
              e == Entity(c, rest[1])
              q == [r EXCEPT !.ids = rest, !.orig = e.updated, !.filter = BaseFilter(e)]
  <2>1. Become(c, q)
    BY <1>6 DEF Proceed
  <2>2. rest \in Seq(IDs) /\ rest # <<>>
    BY <2>0
  <2>. HIDE DEF rest, e
  <2>3. /\ DOMAIN q = {"pc", "ids", "x", "kind", "orig", "filter"} /\ q.pc = "replace"
        /\ q.ids = rest /\ q.orig = e.updated /\ q.filter = BaseFilter(e)
    BY <1>1
  <2>. HIDE DEF q
  <2>4. RequestOK(q)
    BY <2>2, <2>3 DEF RequestOK, BaseFilter, ScopedFilter
  <2> QED BY <1>2, <2>1, <2>4 DEF Serves
<1> QED BY <1>3, <1>4, <1>5, <1>6 DEF Proceed

\* Every other step of a call; only the requests in Writes change documents.
LEMMA ReplyServes ==
  ASSUME Requests, NEW c \in Callers, Reply(c) \/ EndFeed(c) \/ Fail(c), repo' = repo
  PROVE  (docs' = docs \/ Writes(c)) /\ \E r : Serves(c, r)
<1>0. DOMAIN docs = IDs /\ RequestOK(call[c]) /\ "pc" \in DOMAIN call[c]
  BY DEF Requests, RequestOK
<1>1. CASE GetAgain(c)
  <2>1. call[c].id \in IDs
    BY <1>0, <1>1 DEF GetAgain, RequestOK
  <2> QED BY <1>1, <2>1, GetServes DEF GetAgain, FindOne
<1>2. CASE CountReply(c) \/ BulkReply(c) \/ EndFeed(c) \/ Fail(c)
  <2>1. docs' = docs /\ \E res : Return(c, res)
    BY <1>2 DEF CountReply, BulkReply, EndFeed, Fail
  <2> QED BY <1>0, <2>1, IdleServes
<1>3. CASE FeedNext(c)
  BY <1>0, <1>3, FeedPageServes DEF FeedNext
<1>4. ASSUME NEW reply \in BOOLEAN,
             InsertReply(c, reply) \/ PatchReply(c, reply) \/ RemoveReply(c, reply)
      PROVE  \E r : Serves(c, r)
  <2>1. DOMAIN docs' = IDs /\ \E res : Return(c, res)
    BY <1>0, <1>4 DEF InsertReply, PatchReply, RemoveReply, Store, NoWrite
  <2> QED BY <2>1, IdleServes
<1>5. ASSUME NEW i \in IDs, BulkVisit(c, i) PROVE \E r : Serves(c, r)
  <2>1. DOMAIN docs' = IDs
    BY <1>0, <1>5 DEF BulkVisit, Store, NoWrite
  <2>2. PICK h : call[c].pc = "bulk" /\ Become(c, [call[c] EXCEPT !.ids = @ \ {i}, !.hits = h])
    BY <1>5 DEF BulkVisit
  <2> QED BY <1>0, <2>1, <2>2, SilentServes
<1> QED BY <1>1, <1>2, <1>3, <1>4, <1>5, ReplaceReplyServes DEF Reply, Writes

\* Every step is one of a single caller.
LEMMA NextServes ==
  ASSUME Requests, Next
  PROVE  \E c \in Callers : (docs' = docs \/ Writes(c)) /\ \E r : Serves(c, r)
<1>0. repo' = repo
  BY DEF Next
<1>1. PICK c \in Callers : \/ \E x \in repo.work[c].contexts : Begin(c, x)
                           \/ Reply(c) \/ EndFeed(c) \/ Fail(c)
  BY DEF Next
<1>2. CASE \E x \in repo.work[c].contexts : Begin(c, x)
  BY <1>0, <1>2, BeginServes
<1>3. CASE Reply(c) \/ EndFeed(c) \/ Fail(c)
  BY <1>0, <1>3, ReplyServes
<1> QED BY <1>1, <1>2, <1>3

\* Nothing is on its way at first.
LEMMA RequestsInit ==
  ASSUME Init
  PROVE  Requests
<1>1. \A c \in Callers : call[c] = Idle
  BY DEF Init
<1>2. RequestOK(Idle)
  BY DEF RequestOK, Idle
<1> QED BY <1>1, <1>2 DEF Init, Requests

\* Requests is inductive.
LEMMA RequestsNext ==
  ASSUME Requests, [Next]_vars
  PROVE  Requests'
<1>1. CASE UNCHANGED vars
  BY <1>1 DEF vars, Requests, RequestOK, ScopedFilter, Carries
<1>2. CASE Next
  BY <1>2, NextServes, RequestsStep
<1> QED BY <1>1, <1>2

\* A document that a request other than an insertion changes was visible in
\* the context of the call, or the call is an upsert that creates.
LEMMA WritesInSight ==
  ASSUME Requests, NEW c \in Callers, Writes(c), call[c].pc # "insert",
         NEW i \in IDs, docs[i] # NoDoc, docs'[i] # docs[i]
  PROVE  Visible(call[c].x, docs[i]) \/ (call[c].pc = "replace" /\ call[c].kind = "create")
<1>. DEFINE r == call[c]
<1>1. RequestOK(r) /\ DOMAIN docs = IDs
  BY DEF Requests
<1>2. ASSUME NEW j, NEW d, Store(c, j, d) PROVE i = j
  BY <1>1, <1>2 DEF Store
<1>3. ASSUME NEW f, f.cond, Matches(f, r.x, docs[i]) PROVE Visible(r.x, docs[i])
  BY <1>3 DEF Matches
<1>4. ASSUME NEW u PROVE ScopedFilter(u).cond
  BY DEF ScopedFilter
<1>5. ASSUME NEW reply, ReplaceReply(c, reply)
      PROVE  Visible(r.x, docs[i]) \/ (r.pc = "replace" /\ r.kind = "create")
  <2>1. /\ r.pc = "replace"
        /\ Matches(r.filter, r.x, docs[r.ids[1]]) \/ docs[r.ids[1]] = NoDoc
        /\ Store(c, r.ids[1], mem[c][r.ids[1]])
    BY <1>5 DEF ReplaceReply, NoWrite
  <2>2. r.kind # "create" => r.filter.cond
    BY <1>1, <1>4, <2>1 DEF RequestOK
  <2> QED BY <1>2, <1>3, <2>1, <2>2
<1>6. ASSUME NEW reply, PatchReply(c, reply) PROVE Visible(r.x, docs[i])
  <2>1. r.pc = "patch" /\ Matches(r.filter, r.x, docs[r.id]) /\ \E d : Store(c, r.id, d)
    BY <1>6 DEF PatchReply, NoWrite
  <2>2. r.filter.cond
    BY <1>1, <1>4, <2>1 DEF RequestOK
  <2> QED BY <1>2, <1>3, <2>1, <2>2
<1>7. ASSUME NEW reply, RemoveReply(c, reply) PROVE Visible(r.x, docs[i])
  <2>1. Matches([at |-> 0, cond |-> TRUE], r.x, docs[r.id]) /\ \E d : Store(c, r.id, d)
    BY <1>7 DEF RemoveReply, NoWrite
  <2> QED BY <1>2, <2>1 DEF Matches
<1>8. ASSUME NEW j \in IDs, BulkVisit(c, j) PROVE Visible(r.x, docs[i])
  <2>1. Matches([at |-> 0, cond |-> TRUE], r.x, docs[j]) /\ \E d : Store(c, j, d)
    BY <1>8 DEF BulkVisit, NoWrite
  <2> QED BY <1>2, <2>1 DEF Matches
<1>9. ~(\E reply : InsertReply(c, reply))
  BY DEF InsertReply
<1> QED BY <1>5, <1>6, <1>7, <1>8, <1>9 DEF Writes

\* The caller whose call changes is the one that takes the step.
LEMMA OnlyOneCalls ==
  ASSUME Requests, NEW b \in Callers, NEW r, Serves(b, r), NEW c \in Callers, Executes(c)
  PROVE  c = b
BY DEF Requests, Serves, Become, Executes

\* Isolation and soft deletion (injectCond, mongox.go:219) hold for every
\* call, in whatever order reads, writes, failures and the calls of others
\* come: no call changes a document its context may not see, except an upsert
\* that creates. PerInstant may be anything.
THEOREM WritesStayInReach == Spec => OutOfReach
<1>. DEFINE A == \A c \in Callers : Executes(c) /\ call[c].pc # "insert" =>
                   \A i \in IDs : docs[i] # NoDoc /\ docs'[i] # docs[i] =>
                      \/ Visible(call[c].x, docs[i])
                      \/ call[c].pc = "replace" /\ call[c].kind = "create"
<1>1. Requests /\ [Next]_vars => [A]_vars
  <2>. SUFFICES ASSUME Requests, Next, NEW c \in Callers, Executes(c), call[c].pc # "insert",
                       NEW i \in IDs, docs[i] # NoDoc, docs'[i] # docs[i]
                PROVE  \/ Visible(call[c].x, docs[i])
                       \/ call[c].pc = "replace" /\ call[c].kind = "create"
    OBVIOUS
  <2>1. Writes(c)
    BY NextServes, OnlyOneCalls
  <2> QED BY <2>1, WritesInSight
<1>2. Init => Requests
  BY RequestsInit
<1>3. Requests /\ [Next]_vars => Requests'
  BY RequestsNext
<1> QED BY <1>1, <1>2, <1>3, PTL DEF Spec, OutOfReach

-----------------------------------------------------------------------------
\* The update times this step draws.
NewStamps == IF Carries("update") THEN ops + 1 .. ops' ELSE {}

\* e is the stored document d, marked deleted.
Marks(d, e) == d # NoDoc /\ d.deleted = 0 /\ e.updated = d.updated /\ Unmarked(e) = d

\* What a step of c may do to document i: leave it, and perhaps let c read it,
\* or store something that c sent, or mark it deleted.
Rewrites(c, i) ==
  \/ (docs'[i] = docs[i] /\ seen'[c][i] \in {seen[c][i], docs[i]})
  \/ (seen'[c][i] = docs'[i] /\ (Stamps(docs'[i]) \subseteq {0} \cup Sent(c, i)
                                  \/ Marks(docs[i], docs'[i])))

\* A step of c as the stamps see it: c learns of no update time but new ones
\* and those of documents it reads, and sends new ones only.
Turn(c) ==
  /\ ops' \in Nat /\ ops <= ops' /\ repo' = repo
  /\ \A b \in Callers \ {c} : call'[b] = call[b] /\ mem'[b] = mem[b] /\ seen'[b] = seen[b]
  /\ \A i \in IDs :
       /\ \A t \in Knows(call'[c], mem'[c][i], i) :
            \/ t \in Known(c, i) \cup {0} \cup NewStamps
            \/ (docs'[i] = docs[i] /\ t \in Stamps(docs[i]) /\ seen'[c][i] = docs[i])
       /\ Sends(call'[c], mem'[c][i], i) \subseteq {0} \cup NewStamps
       /\ Rewrites(c, i)

\* Stamps stay in use, and new ones are not in use before.
LEMMA InUseGrows ==
  ASSUME Typed, ops' \in Nat, ops <= ops', repo' = repo
  PROVE  /\ InUse \subseteq InUse' /\ NewStamps \subseteq InUse' /\ 0 \in InUse'
         /\ InUse \subseteq Nat /\ \A t \in NewStamps : t \notin InUse
<1>1. ops \in Nat
  BY DEF Typed
<1>2. CASE Carries("update")
  BY <1>1, <1>2 DEF InUse, NewStamps, Carries
<1>3. CASE ~Carries("update")
  BY <1>1, <1>3 DEF InUse, NewStamps, Carries
<1> QED BY <1>2, <1>3

\* A document that is marked deleted is still like what was seen.
LEMMA KeptIsSeen ==
  ASSUME NEW d \in Ent, NEW e, NEW s, Marks(d, e), Like(d, s)
  PROVE  Like(e, s)
<1>1. Unmarked(d) = d
  BY DEF Marks, Unmarked, Ent
<1> QED BY <1>1 DEF Like, Marks

\* Such a step keeps the invariant.
LEMMA TurnKeeps ==
  ASSUME IInv, Requests', Typed', NEW c \in Callers, Turn(c)
  PROVE  IInv'
<1>0. /\ InUse \subseteq InUse' /\ NewStamps \subseteq InUse' /\ 0 \in InUse'
      /\ \A t \in NewStamps : t \notin InUse
  BY InUseGrows DEF IInv, Turn
<1>1. \A b \in Callers, i \in IDs : /\ Known(b, i)' = Knows(call'[b], mem'[b][i], i)
                                    /\ Sent(b, i)' = Sends(call'[b], mem'[b][i], i)
  BY DEF Known, Sent, Knows, Sends, Turn, Carries
<1>2. \A b \in Callers \ {c}, i \in IDs : Known(b, i)' = Known(b, i) /\ Sent(b, i)' = Sent(b, i)
  BY <1>1 DEF Known, Sent, Turn
<1>3. \A i \in IDs : /\ \A t \in Known(c, i)' :
                          \/ t \in Known(c, i) \cup {0} \cup NewStamps
                          \/ (docs'[i] = docs[i] /\ t \in Stamps(docs[i]) /\ seen'[c][i] = docs[i])
                     /\ Sent(c, i)' \subseteq {0} \cup NewStamps
                     /\ Rewrites(c, i)
  BY <1>1 DEF Turn
<1>4. \A i \in IDs : /\ Stamps(docs[i]) \subseteq InUse
                     /\ \A b \in Callers : Known(b, i) \subseteq InUse /\ Sent(b, i) \subseteq InUse
  BY DEF IInv, Bounded
<1>5. \A i \in IDs : \A t \in Stamps(docs'[i]) : t \in Stamps(docs[i]) \cup {0} \cup Sent(c, i)
  <2>. SUFFICES ASSUME NEW i \in IDs, NEW t \in Stamps(docs'[i])
                PROVE  t \in Stamps(docs[i]) \cup {0} \cup Sent(c, i)
    OBVIOUS
  <2>1. CASE docs'[i] = docs[i] \/ Stamps(docs'[i]) \subseteq {0} \cup Sent(c, i)
    BY <2>1
  <2>2. CASE Marks(docs[i], docs'[i])
    BY <2>2 DEF Marks, Stamps
  <2> QED BY <1>3, <2>1, <2>2 DEF Rewrites
<1>6. ASSUME NEW i \in IDs PROVE Stamps(docs[i])' = Stamps(docs'[i])
  BY DEF Stamps
<1>7. Bounded'
  <2>1. \A i \in IDs : Stamps(docs[i])' \subseteq InUse'
    BY <1>0, <1>4, <1>5, <1>6
  <2>2. ASSUME NEW i \in IDs, NEW b \in Callers
        PROVE  Known(b, i)' \subseteq InUse' /\ Sent(b, i)' \subseteq InUse'
    <3>1. CASE b = c
      BY <1>0, <1>3, <1>4, <3>1
    <3>2. CASE b # c
      BY <1>0, <1>2, <1>4, <3>2
    <3> QED BY <3>1, <3>2
  <2> QED BY <2>1, <2>2 DEF Bounded
<1>8. ASSUME NEW i \in IDs, NEW b \in Callers \ {c}, NEW t \in Sent(b, i) \ {0}
      PROVE  t \notin Stamps(docs'[i]) /\ t \notin Known(c, i)' /\ t \notin Sent(c, i)'
  <2>1. /\ t \notin Stamps(docs[i]) /\ t \notin Known(c, i) /\ t \notin Sent(c, i)
        /\ t \in InUse
    BY <1>4 DEF IInv, SentAlone
  <2> QED BY <1>0, <1>3, <1>5, <2>1
<1>9. ASSUME NEW i \in IDs, NEW t \in Sent(c, i)' \ {0}
      PROVE  t \notin Stamps(docs'[i]) /\ \A b \in Callers \ {c} : t \notin Known(b, i) \cup Sent(b, i)
  <2>1. t \notin InUse
    BY <1>0, <1>3
  <2> QED BY <1>4, <1>5, <2>1
<1>10. SentAlone'
  <2>. SUFFICES ASSUME NEW i \in IDs, NEW b \in Callers, NEW t \in Sent(b, i)' \ {0}
                PROVE  /\ t \notin Stamps(docs[i])'
                       /\ \A a \in Callers \ {b} : t \notin Known(a, i)' \cup Sent(a, i)'
    BY DEF SentAlone
  <2>1. CASE b = c
    BY <1>2, <1>6, <1>9, <2>1
  <2>2. CASE b # c
    <3>1. t \in Sent(b, i) \ {0}
      BY <1>2, <2>2
    <3>2. ASSUME NEW a \in Callers \ {b, c} PROVE t \notin Known(a, i)' \cup Sent(a, i)'
      BY <1>2, <3>1 DEF IInv, SentAlone
    <3> QED BY <1>6, <1>8, <2>2, <3>1, <3>2
  <2> QED BY <2>1, <2>2
<1>11. KnownSeen'
  <2>. SUFFICES ASSUME NEW i \in IDs, NEW b \in Callers, docs'[i] # NoDoc, docs'[i].updated # 0,
                       docs'[i].updated \in Known(b, i)'
                PROVE  Like(docs'[i], seen'[b][i])
    BY DEF KnownSeen, Like, Unmarked
  <2>0. docs'[i].updated \in Stamps(docs'[i])
    BY DEF Stamps
  <2>1. CASE seen'[b][i] = docs'[i]
    BY <2>1 DEF Like
  <2>2. CASE b = c /\ docs'[i] = docs[i] /\ seen'[b][i] = seen[b][i]
    <3>1. docs[i].updated \in InUse
      BY <1>4, <2>0, <2>2
    <3>2. docs[i].updated \in Known(b, i) \/ seen'[b][i] = docs'[i]
      BY <1>0, <1>3, <2>2, <3>1
    <3> QED BY <2>1, <2>2, <3>2 DEF IInv, KnownSeen
  <2>3. CASE b # c
    <3>1. docs'[i].updated \in Known(b, i) /\ seen'[b] = seen[b]
      BY <1>2, <2>3 DEF Turn
    <3>2. docs'[i].updated \notin Sent(c, i)
      BY <2>3, <3>1 DEF IInv, SentAlone
    <3>3. CASE docs'[i] = docs[i]
      BY <3>1, <3>3 DEF IInv, KnownSeen
    <3>4. CASE Marks(docs[i], docs'[i])
      <4>1. Like(docs[i], seen[b][i])
        BY <3>1, <3>4 DEF IInv, KnownSeen, Marks
      <4>2. docs[i] \in Ent
        BY <3>4 DEF IInv, Typed, Marks
      <4> QED BY <3>1, <3>4, <4>1, <4>2, KeptIsSeen
    <3> QED BY <1>3, <2>0, <3>2, <3>3, <3>4 DEF Rewrites
  <2> QED BY <1>3, <2>1, <2>2, <2>3 DEF Rewrites
<1> QED BY <1>7, <1>10, <1>11 DEF IInv

\* Documents by id.
Shelf == [IDs -> Ent \cup {NoDoc}]

\* The part of Turn about documents, with the types.
Rewritten(c) ==
  /\ ops' \in Nat /\ ops <= ops' /\ repo' = repo
  /\ docs' \in Shelf /\ seen' \in [Callers -> Shelf]
  /\ \A b \in Callers \ {c} : seen'[b] = seen[b]
  /\ \A i \in IDs : Rewrites(c, i)

\* The part of Turn about held entities: their update times are known, zero or
\* new, or the entity was just read.
Held(c) ==
  /\ mem' \in [Callers -> Shelf]
  /\ \A b \in Callers \ {c} : mem'[b] = mem[b]
  /\ \A i \in IDs :
       \/ Stamps(mem'[c][i]) \subseteq Known(c, i) \cup {0} \cup NewStamps
       \/ (docs'[i] = docs[i] /\ mem'[c][i] = docs[i] /\ seen'[c][i] = docs[i])

\* The entity i that c holds after the step was stamped by it, or has no
\* update time.
Stamped(c, i) == Stamps(mem'[c][i]) \subseteq {0} \cup NewStamps

\* The part of Turn about the call r that c goes on with.
Fits(c, r) ==
  /\ r.pc = "insert" => \A i \in IDs : i \in Range(r.ids) => Stamped(c, i)
  /\ r.pc = "replace" => r.orig \in Known(c, r.ids[1]) \cup {0} /\ Stamped(c, r.ids[1])
  /\ r.pc = "patch" => /\ r.payload \in Ent
                       /\ r.payload.updated \in Known(c, r.id) \cup {0}
                       /\ Carries("update") => r.at \in NewStamps
  /\ r.pc = "bulk" => BulkOK(r)

\* The three parts together keep the invariant.
LEMMA RequestKeeps ==
  ASSUME IInv, NEW c \in Callers, NEW r, Serves(c, r), Rewritten(c), Held(c), Fits(c, r)
  PROVE  IInv'
<1>1. Requests'
  BY RequestsStep DEF IInv
<1>2. \A b \in Callers : call'[b] = IF b = c THEN r ELSE call[b]
  BY DEF Serves, Become, IInv, Requests
<1>3. Typed'
  <2>1. \A b \in Callers : /\ call'[b].pc = "patch" => call'[b].payload \in Ent
                           /\ call'[b].pc = "bulk" => BulkOK(call'[b])
    BY <1>2 DEF IInv, Typed, Fits
  <2> QED BY <2>1 DEF Typed, BulkOK, Rewritten, Held, Shelf
<1>4. ASSUME NEW i \in IDs, NEW t \in Knows(r, mem'[c][i], i)
      PROVE  \/ t \in Known(c, i) \cup {0} \cup NewStamps
             \/ (docs'[i] = docs[i] /\ t \in Stamps(docs[i]) /\ seen'[c][i] = docs[i])
  <2>1. CASE t \in Stamps(mem'[c][i])
    BY <2>1 DEF Held
  <2>2. CASE t \notin Stamps(mem'[c][i])
    BY <1>4, <2>2 DEF Knows, Fits
  <2> QED BY <2>1, <2>2
<1>5. ASSUME NEW i \in IDs PROVE Sends(r, mem'[c][i], i) \subseteq {0} \cup NewStamps
  BY DEF Sends, Fits, Stamped
<1>6. Turn(c)
  BY <1>2, <1>4, <1>5 DEF Turn, Rewritten, Held
<1> QED BY <1>1, <1>3, <1>6, TurnKeeps

\* Calls that neither send nor filter by an update time.
LEMMA QuietFits ==
  ASSUME NEW c, NEW r, r.pc \in {"idle", "get", "remove", "count", "feed", "fed"}
  PROVE  Fits(c, r)
BY DEF Fits

\* A step that leaves the held entities alone.
LEMMA SameHeld ==
  ASSUME IInv, NEW c \in Callers, mem' = mem
  PROVE  Held(c)
BY DEF IInv, Typed, Held, Known, Knows, Shelf

\* A step that changes one held entity.
LEMMA OneHeld ==
  ASSUME IInv, NEW c \in Callers, NEW j \in IDs, NEW e \in Ent, Hold(c, j, e),
         e.updated \in Known(c, j) \cup {0} \cup NewStamps
  PROVE  Held(c) /\ mem'[c][j] = e
<1>1. mem \in [Callers -> Shelf] /\ mem' = [mem EXCEPT ![c][j] = e]
  BY DEF IInv, Typed, Hold, Shelf
<1>2. mem' \in [Callers -> Shelf] /\ mem'[c][j] = e /\ \A b \in Callers \ {c} : mem'[b] = mem[b]
  BY <1>1 DEF Shelf
<1>3. \A i \in IDs : i # j => mem'[c][i] = mem[c][i]
  BY <1>1 DEF Shelf
<1>4. \A i \in IDs : Stamps(mem'[c][i]) \subseteq Known(c, i) \cup {0} \cup NewStamps
  BY <1>2, <1>3 DEF Stamps, Known, Knows
<1> QED BY <1>2, <1>4 DEF Held

\* A step that leaves the collection alone.
LEMMA SameRewritten ==
  ASSUME IInv, NEW c \in Callers, docs' = docs, seen' = seen, repo' = repo, ops' \in Nat, ops <= ops'
  PROVE  Rewritten(c)
BY DEF IInv, Typed, Rewritten, Rewrites, Shelf

\* A step that stores what was sent, or marks a document.
LEMMA StoreRewritten ==
  ASSUME IInv, NEW c \in Callers, NEW j \in IDs, NEW d \in Ent \cup {NoDoc}, Store(c, j, d),
         Stamps(d) \subseteq {0} \cup Sent(c, j) \/ Marks(docs[j], d),
         repo' = repo, ops' \in Nat, ops <= ops'
  PROVE  Rewritten(c)
<1>1. docs \in Shelf /\ seen \in [Callers -> Shelf]
  BY DEF IInv, Typed, Shelf
<1>2. docs' = [docs EXCEPT ![j] = d] /\ seen' = [seen EXCEPT ![c][j] = d]
  BY DEF Store
<1>3. /\ docs' \in Shelf /\ seen' \in [Callers -> Shelf] /\ docs'[j] = d /\ seen'[c][j] = d
      /\ \A b \in Callers \ {c} : seen'[b] = seen[b]
      /\ \A i \in IDs : i # j => docs'[i] = docs[i] /\ seen'[c][i] = seen[c][i]
  BY <1>1, <1>2 DEF Shelf
<1>4. \A i \in IDs : Rewrites(c, i)
  BY <1>3 DEF Rewrites
<1> QED BY <1>3, <1>4 DEF Rewritten

\* With one operation per instant the stamps are the operations.
LEMMA InstantIs ==
  ASSUME PerInstant = 1, NEW k \in Nat, k > 0
  PROVE  Instant(k) = k
<1>1. (k - 1) \div 1 = k - 1
  OBVIOUS
<1> QED BY <1>1 DEF Instant

\* The entity a caller passes has an update time it knows, or none.
LEMMA EntityOK ==
  ASSUME IInv, NEW c \in Callers, NEW i \in IDs
  PROVE  Entity(c, i) \in Ent /\ Entity(c, i).updated \in Known(c, i) \cup {0}
<1>1. CASE mem[c][i] = NoDoc
  BY <1>1 DEF Entity, Blank, Doc, Ent
<1>2. CASE mem[c][i] # NoDoc
  BY <1>2 DEF Entity, IInv, Typed, Known, Knows, Stamps
<1> QED BY <1>1, <1>2

\* Known update times are zero without the update interface.
LEMMA KnownInUse ==
  ASSUME IInv, NEW c \in Callers, NEW i \in IDs, NEW t \in Known(c, i) \cup {0}
  PROVE  t \in Nat /\ (~Carries("update") => t = 0)
BY DEF IInv, Bounded, InUse, Typed

\* What ctxUpdateAudit makes of an entity.
LEMMA AuditOf ==
  ASSUME NEW e \in Ent, NEW t \in Nat
  PROVE  /\ CtxUpdateAudit(e, t) \in Ent
         /\ CtxUpdateAudit(e, t).updated = IF Carries("update") THEN t ELSE e.updated
BY DEF CtxUpdateAudit, Ent

\* An edit leaves the update time alone.
LEMMA EditedOf ==
  ASSUME NEW e \in Ent, ops \in Nat
  PROVE  Edited(e) \in Ent /\ Edited(e).updated = e.updated
BY DEF Edited, Ent

\* The call that Serves speaks of is the one the caller becomes.
LEMMA ServesIs ==
  ASSUME Requests, NEW c \in Callers, \E r : Serves(c, r), NEW q, Become(c, q)
  PROVE  Serves(c, q)
<1>1. PICK r : Serves(c, r)
  OBVIOUS
<1>2. r = q
  BY <1>1 DEF Serves, Become, Requests
<1> QED BY <1>1, <1>2

\* Calls of which Fits asks nothing.
QuietPcs == {"idle", "get", "remove", "count", "feed", "fed"}

\* Going on with such a call keeps the invariant.
LEMMA QuietKeeps ==
  ASSUME IInv, NEW c \in Callers, \E r : Serves(c, r), NEW q, Become(c, q), q.pc \in QuietPcs,
         Rewritten(c), Held(c)
  PROVE  IInv'
<1>1. Serves(c, q)
  BY ServesIs DEF IInv
<1> QED BY <1>1, QuietFits, RequestKeeps DEF QuietPcs

\* So does returning.
LEMMA ReturnKeeps ==
  ASSUME IInv, NEW c \in Callers, \E r : Serves(c, r), NEW res, Return(c, res),
         Rewritten(c), Held(c)
  PROVE  IInv'
BY QuietKeeps DEF Return, Idle, QuietPcs

\* So does a step that changes nothing else.
LEMMA SilentKeeps ==
  ASSUME IInv, NEW c \in Callers, \E r : Serves(c, r), NEW q, Become(c, q), q.pc \in QuietPcs,
         docs' = docs, seen' = seen, mem' = mem, ops' \in Nat, ops <= ops'
  PROVE  IInv'
<1>1. repo' = repo
  BY DEF Serves
<1>2. Rewritten(c) /\ Held(c)
  BY <1>1, SameRewritten, SameHeld
<1> QED BY <1>2, QuietKeeps

\* Reading a document: its update time becomes known together with the
\* document.
LEMMA FindKeeps ==
  ASSUME IInv, NEW c \in Callers, \E r : Serves(c, r), NEW x, NEW i \in IDs, NEW tries,
         FindOne(c, x, i, tries)
  PROVE  IInv'
<1>0. docs' = docs /\ ops' = ops /\ ops \in Nat /\ repo' = repo
  BY DEF FindOne, IInv, Typed, Serves
<1>1. CASE docs[i] # NoDoc /\ Visible(x, docs[i])
  <2>1. /\ Return(c, "ok") /\ mem' = [mem EXCEPT ![c][i] = docs[i]]
        /\ seen' = [seen EXCEPT ![c][i] = docs[i]]
    BY <1>1 DEF FindOne, Hold
  <2>2. docs \in Shelf /\ mem \in [Callers -> Shelf] /\ seen \in [Callers -> Shelf]
        /\ docs[i] \in Ent \cup {NoDoc}
    BY DEF IInv, Typed, Shelf
  <2>3. /\ mem' \in [Callers -> Shelf] /\ seen' \in [Callers -> Shelf]
        /\ \A b \in Callers \ {c} : mem'[b] = mem[b] /\ seen'[b] = seen[b]
        /\ \A k \in IDs : /\ mem'[c][k] = IF k = i THEN docs[i] ELSE mem[c][k]
                          /\ seen'[c][k] = IF k = i THEN docs[i] ELSE seen[c][k]
    BY <2>1, <2>2 DEF Shelf
  <2>4. Rewritten(c)
    BY <1>0, <2>2, <2>3 DEF Rewritten, Rewrites
  <2>5. Held(c)
    BY <1>0, <2>3 DEF Held, Known, Knows
  <2> QED BY <2>1, <2>4, <2>5, ReturnKeeps
<1>2. CASE ~(docs[i] # NoDoc /\ Visible(x, docs[i]))
  <2>1. mem' = mem /\ seen' = seen
    BY <1>2 DEF FindOne
  <2>2. PICK q : Become(c, q) /\ q.pc \in QuietPcs
    BY <1>2 DEF FindOne, Return, Idle, QuietPcs
  <2> QED BY <1>0, <2>1, <2>2, SilentKeeps
<1> QED BY <1>1, <1>2

\* A stamped operation draws new update times.
LEMMA StampOf ==
  ASSUME IInv, PerInstant = 1, NEW k \in Nat \ {0}, Stamp(k)
  PROVE  /\ ops \in Nat /\ ops' \in Nat /\ ops <= ops' /\ ops' = ops + k
         /\ Instant(ops') = ops' /\ Instant(ops + 1) = ops + 1
         /\ Carries("update") => ops' \in NewStamps /\ ops + 1 \in NewStamps
<1>1. ops \in Nat /\ ops' = ops + k
  BY DEF IInv, Typed, Stamp
<1>2. Instant(ops') = ops' /\ Instant(ops + 1) = ops + 1
  BY <1>1, InstantIs
<1> QED BY <1>1, <1>2 DEF NewStamps

\* The update audit leaves a new update time, or none.
LEMMA AuditStamps ==
  ASSUME IInv, NEW c \in Callers, NEW i \in IDs, NEW e \in Ent,
         e.updated \in Known(c, i) \cup {0}, NEW t \in Nat, Carries("update") => t \in NewStamps
  PROVE  /\ CtxUpdateAudit(e, t) \in Ent
         /\ CtxUpdateAudit(e, t).updated \in {0} \cup NewStamps
BY AuditOf, KnownInUse

\* What an audit that creates has set, failed or not, leaves the update time.
LEMMA CreateFilledOf ==
  ASSUME NEW e \in Ent, NEW x, x.who \in [Levels -> Names \cup {None}], NEW t \in Nat
  PROVE  CreateFilled(e, x, t) \in Ent /\ CreateFilled(e, x, t).updated = e.updated
<1>. DEFINE created == IF Carries("create") /\ Reached(x, "user") THEN t ELSE e.created
            of == [l \in Levels |-> IF Carries(Carrier[l]) /\ Reached(x, l) THEN x.who[l] ELSE e.of[l]]
            d == [e EXCEPT !.created = created, !.of = of]
<1>1. created \in Nat /\ of \in [Levels -> Names \cup {None}]
  BY DEF Ent
<1>2. CreateFilled(e, x, t) = d
  BY DEF CreateFilled
<1>. HIDE DEF created, of
<1>3. d \in Ent /\ d.updated = e.updated
  BY <1>1 DEF Ent
<1> QED BY <1>2, <1>3

\* A whole one sets it.
LEMMA CreateAuditOf ==
  ASSUME NEW e \in Ent, NEW x, x.who \in [Levels -> Names \cup {None}], NEW t \in Nat
  PROVE  /\ CtxCreateAudit(e, x, t) \in Ent
         /\ CtxCreateAudit(e, x, t).updated = IF Carries("update") THEN t ELSE e.updated
BY CreateFilledOf, AuditOf DEF CtxCreateAudit

\* Sending a replacement: the new stamp goes out, the old one into the filter.
LEMMA SendReplaceKeeps ==
  ASSUME IInv, PerInstant = 1, NEW c \in Callers, \E r : Serves(c, r), NEW x,
         x.who \in [Levels -> Names \cup {None}], NEW kind, NEW e \in Ent, NEW ids \in Seq(IDs),
         ids # <<>>, e.updated \in Known(c, ids[1]) \cup {0}, SendReplace(c, x, kind, e, ids)
  PROVE  IInv'
<1>. DEFINE j == ids[1]
            r == [pc |-> "replace", ids |-> ids, x |-> x,
                  kind |-> IF Creates(kind, e) THEN "create" ELSE kind,
                  orig |-> e.updated, filter |-> ReplaceFilter(kind, e)]
            h == Audited(kind, IF kind = "delete" THEN e ELSE Edited(e), x, Instant(ops'))
<1>0. j \in IDs /\ ops \in Nat /\ repo' = repo /\ docs' = docs /\ seen' = seen
  BY DEF IInv, Typed, Serves, SendReplace, NoWrite
<1>1. CASE ~AuditOK(kind, e, x)
  <2>. DEFINE f == HalfAudited(kind, e, x, Instant(ops + 1))
  <2>1. Return(c, "invalid") /\ Hold(c, j, f) /\ ops' = ops
    BY <1>1 DEF SendReplace
  <2>2. Instant(ops + 1) \in Nat
    BY <1>0, InstantIs
  <2>3. f \in Ent /\ f.updated = e.updated
    BY <2>2, CreateFilledOf DEF HalfAudited
  <2>. HIDE DEF f, j
  <2>4. Rewritten(c) /\ Held(c)
    BY <1>0, <2>1, <2>3, SameRewritten, OneHeld DEF j
  <2> QED BY <2>1, <2>4, ReturnKeeps
<1>2. CASE AuditOK(kind, e, x)
  <2>1. Stamp(1) /\ Hold(c, j, h) /\ (Become(c, r) \/ Return(c, "invalid"))
    BY <1>2 DEF SendReplace
  <2>2. /\ ops' \in Nat /\ ops <= ops' /\ Instant(ops') = ops'
        /\ Carries("update") => ops' \in NewStamps
    BY <2>1, StampOf
  <2>3. h \in Ent /\ h.updated \in {0} \cup NewStamps
    <3>. DEFINE d == IF kind = "delete" THEN e ELSE Edited(e)
    <3>1. d \in Ent /\ d.updated = e.updated
      BY <1>0, EditedOf
    <3>2. h = CtxCreateAudit(d, x, ops') \/ h = CtxUpdateAudit(d, ops')
      BY <2>2 DEF Audited
    <3>. HIDE DEF d, h
    <3>3. d.updated \in Nat /\ (~Carries("update") => d.updated = 0)
      BY <1>0, <3>1, KnownInUse
    <3>4. /\ h \in Ent
          /\ h.updated = IF Carries("update") THEN ops' ELSE d.updated
      <4>1. CASE h = CtxCreateAudit(d, x, ops')
        BY <2>2, <3>1, <4>1, CreateAuditOf
      <4>2. CASE h = CtxUpdateAudit(d, ops')
        BY <2>2, <3>1, <4>2, AuditOf
      <4> QED BY <3>2, <4>1, <4>2
    <3> QED BY <2>2, <3>3, <3>4
  <2>. HIDE DEF h, j
  <2>4. Rewritten(c) /\ Held(c) /\ mem'[c][j] = h
    BY <1>0, <2>1, <2>2, <2>3, SameRewritten, OneHeld
  <2>5. CASE Return(c, "invalid")
    BY <2>4, <2>5, ReturnKeeps
  <2>6. CASE Become(c, r)
    <3>1. r.pc = "replace" /\ r.orig = e.updated /\ r.ids[1] = j
      BY DEF j
    <3>. HIDE DEF r
    <3>2. Serves(c, r)
      BY <2>6, ServesIs DEF IInv
    <3>3. Stamped(c, j)
      BY <2>3, <2>4 DEF Stamped, Stamps
    <3>4. Fits(c, r)
      BY <3>1, <3>3 DEF Fits, j
    <3> QED BY <2>4, <3>2, <3>4, RequestKeeps
  <2> QED BY <2>1, <2>5, <2>6
<1> QED BY <1>1, <1>2

\* Sending an insertion.
LEMMA CreateKeeps ==
  ASSUME IInv, PerInstant = 1, NEW c \in Callers, \E r : Serves(c, r), NEW x,
         x.who \in [Levels -> Names \cup {None}], NEW ids, ids[1] \in IDs, Create(c, x, ids)
  PROVE  IInv'
<1>. DEFINE r == [pc |-> "insert", ids |-> ids]
            new(i) == CtxCreateAudit([Entity(c, i) EXCEPT !.val = ops'], x, Instant(ops'))
<1>0. ops \in Nat /\ repo' = repo /\ docs' = docs /\ seen' = seen
  BY DEF IInv, Typed, Serves, Create, NoWrite
<1>1. CASE ~CreateAuditOK(x)
  <2>. DEFINE j == ids[1]
              e == Entity(c, j)
              f == CreateFilled(e, x, Instant(ops + 1))
  <2>1. Return(c, "invalid") /\ Hold(c, j, f) /\ ops' = ops /\ j \in IDs
    BY <1>1 DEF Create
  <2>2. Instant(ops + 1) \in Nat
    BY <1>0, InstantIs
  <2>. HIDE DEF j
  <2>3. e \in Ent /\ e.updated \in Known(c, j) \cup {0}
    BY <2>1, EntityOK
  <2>. HIDE DEF e
  <2>4. f \in Ent /\ f.updated = e.updated
    BY <2>2, <2>3, CreateFilledOf
  <2>. HIDE DEF f
  <2>5. Rewritten(c) /\ Held(c)
    BY <1>0, <2>1, <2>3, <2>4, SameRewritten, OneHeld
  <2> QED BY <2>1, <2>5, ReturnKeeps
<1>2. CASE CreateAuditOK(x)
  <2>1. /\ Stamp(1) /\ Become(c, r)
        /\ mem' = [mem EXCEPT ![c] = [i \in IDs |-> IF i \in Range(ids) THEN new(i) ELSE mem[c][i]]]
    BY <1>2 DEF Create
  <2>2. /\ ops' \in Nat /\ ops <= ops' /\ Instant(ops') = ops'
        /\ Carries("update") => ops' \in NewStamps
    BY <2>1, StampOf
  <2>3. ASSUME NEW i \in IDs PROVE new(i) \in Ent /\ new(i).updated \in {0} \cup NewStamps
    <3>. DEFINE d == [Entity(c, i) EXCEPT !.val = ops']
    <3>1. d \in Ent /\ d.updated = Entity(c, i).updated
      BY <2>2, EntityOK DEF Ent
    <3>2. d.updated \in Nat /\ (~Carries("update") => d.updated = 0)
      BY <3>1, EntityOK, KnownInUse
    <3>3. new(i) = CtxCreateAudit(d, x, ops')
      BY <2>2
    <3>. HIDE DEF d, new
    <3>4. new(i) \in Ent /\ new(i).updated = IF Carries("update") THEN ops' ELSE d.updated
      BY <2>2, <3>1, <3>3, CreateAuditOf
    <3> QED BY <2>2, <3>2, <3>4
  <2>. HIDE DEF new
  <2>4. /\ mem' \in [Callers -> Shelf] /\ \A b \in Callers \ {c} : mem'[b] = mem[b]
        /\ \A i \in IDs : mem'[c][i] = IF i \in Range(ids) THEN new(i) ELSE mem[c][i]
    BY <2>1, <2>3 DEF IInv, Typed, Shelf
  <2>5. \A i \in IDs : i \in Range(ids) => Stamped(c, i)
    BY <2>3, <2>4 DEF Stamped, Stamps
  <2>6. Held(c)
    BY <2>4, <2>5 DEF Held, Stamped, Known, Knows
  <2>7. Rewritten(c)
    BY <1>0, <2>2, SameRewritten
  <2>8. r.pc = "insert" /\ r.ids = ids
    OBVIOUS
  <2>. HIDE DEF r
  <2>9. Serves(c, r) /\ Fits(c, r)
    BY <2>1, <2>5, <2>8, ServesIs DEF IInv, Fits
  <2> QED BY <2>6, <2>7, <2>9, RequestKeeps
<1> QED BY <1>1, <1>2

\* Sending a patch: the entity and the payload get stamps of their own.
LEMMA PatchKeeps ==
  ASSUME IInv, PerInstant = 1, NEW c \in Callers, \E r : Serves(c, r), NEW x, NEW i \in IDs,
         Patch(c, x, i)
  PROVE  IInv'
<1>. DEFINE e == Edited(Entity(c, i))
            r == [pc |-> "patch", id |-> i, x |-> x, filter |-> BaseFilter(e),
                  payload |-> e, at |-> Instant(ops')]
            h == CtxUpdateAudit(e, Instant(ops + 1))
<1>0. ops \in Nat /\ repo' = repo /\ docs' = docs /\ seen' = seen
  BY DEF IInv, Typed, Serves, Patch, NoWrite
<1>1. e \in Ent /\ e.updated \in Known(c, i) \cup {0}
  BY <1>0, EntityOK, EditedOf
<1>2. CASE ~UpdateAuditOK(x)
  <2>1. Return(c, "invalid") /\ mem' = mem /\ ops' = ops
    BY <1>2 DEF Patch
  <2>2. Rewritten(c) /\ Held(c)
    BY <1>0, <2>1, SameRewritten, SameHeld
  <2> QED BY <2>1, <2>2, ReturnKeeps
<1>3. CASE UpdateAuditOK(x)
  <2>1. Stamp(2) /\ Hold(c, i, h) /\ (Become(c, r) \/ Return(c, "invalid"))
    BY <1>3 DEF Patch
  <2>2. /\ ops' \in Nat /\ ops <= ops' /\ Instant(ops') = ops' /\ Instant(ops + 1) = ops + 1
        /\ Carries("update") => ops' \in NewStamps /\ ops + 1 \in NewStamps
    BY <2>1, StampOf
  <2>. HIDE DEF e
  <2>3. h \in Ent /\ h.updated \in {0} \cup NewStamps
    BY <1>0, <1>1, <2>2, AuditStamps
  <2>. HIDE DEF h
  <2>4. Rewritten(c) /\ Held(c)
    BY <1>0, <2>1, <2>2, <2>3, SameRewritten, OneHeld
  <2>5. CASE Return(c, "invalid")
    BY <2>4, <2>5, ReturnKeeps
  <2>6. CASE Become(c, r)
    <3>1. r.pc = "patch" /\ r.id = i /\ r.payload = e /\ r.at = ops'
      BY <2>2
    <3>. HIDE DEF r
    <3>2. Serves(c, r) /\ Fits(c, r)
      BY <1>1, <2>2, <2>6, <3>1, ServesIs DEF IInv, Fits
    <3> QED BY <2>4, <3>2, RequestKeeps
  <2> QED BY <2>1, <2>5, <2>6
<1> QED BY <1>2, <1>3

\* Sending a raw patch.
LEMMA PatchRawKeeps ==
  ASSUME IInv, PerInstant = 1, NEW c \in Callers, \E r : Serves(c, r), NEW x, NEW i \in IDs,
         PatchRaw(c, x, i)
  PROVE  IInv'
<1>. DEFINE r == [pc |-> "patch", id |-> i, x |-> x, filter |-> [at |-> 0, cond |-> TRUE],
                  payload |-> Blank(ops'), at |-> Instant(ops')]
<1>0. ops \in Nat /\ repo' = repo /\ docs' = docs /\ seen' = seen /\ mem' = mem
  BY DEF IInv, Typed, Serves, PatchRaw
<1>1. CASE Return(c, "invalid") /\ ops' = ops
  <2>1. Rewritten(c) /\ Held(c)
    BY <1>0, <1>1, SameRewritten, SameHeld
  <2> QED BY <1>1, <2>1, ReturnKeeps
<1>2. CASE Stamp(1) /\ Become(c, r)
  <2>1. /\ ops' \in Nat /\ ops <= ops' /\ Instant(ops') = ops'
        /\ Carries("update") => ops' \in NewStamps
    BY <1>2, StampOf
  <2>2. Rewritten(c) /\ Held(c)
    BY <1>0, <2>1, SameRewritten, SameHeld
  <2>3. Blank(ops') \in Ent /\ Blank(ops').updated = 0
    BY <2>1 DEF Blank, Doc, Ent
  <2>4. r.pc = "patch" /\ r.payload = Blank(ops') /\ r.at = ops'
    BY <2>1
  <2>. HIDE DEF r
  <2>5. Serves(c, r) /\ Fits(c, r)
    BY <1>2, <2>1, <2>3, <2>4, ServesIs DEF IInv, Fits
  <2> QED BY <2>2, <2>5, RequestKeeps
<1> QED BY <1>1, <1>2 DEF PatchRaw

\* Sending a deletion, soft or hard.
LEMMA DeleteKeeps ==
  ASSUME IInv, PerInstant = 1, NEW c \in Callers, \E r : Serves(c, r), NEW x,
         x.who \in [Levels -> Names \cup {None}], NEW i \in IDs, Delete(c, x, i)
  PROVE  IInv'
<1>. DEFINE e == CtxDeleteAudit(Entity(c, i))
            r == [pc |-> "remove", id |-> i, x |-> x]
<1>0. ops \in Nat /\ repo' = repo
  BY DEF IInv, Typed, Serves
<1>1. e \in Ent /\ e.updated \in Known(c, i) \cup {0}
  <2>1. Instant(ops + 1) \in Nat
    BY <1>0, InstantIs
  <2> QED BY <2>1, EntityOK DEF CtxDeleteAudit, Ent
<1>. HIDE DEF e
<1>2. CASE Return(c, "invalid") /\ UNCHANGED <<docs, mem, seen, ops>>
  <2>1. Rewritten(c) /\ Held(c)
    BY <1>0, <1>2, SameRewritten, SameHeld
  <2> QED BY <1>2, <2>1, ReturnKeeps
<1>3. CASE SendReplace(c, x, "delete", e, <<i>>)
  <2>1. <<i>> \in Seq(IDs) /\ <<i>> # <<>> /\ <<i>>[1] = i
    OBVIOUS
  <2> QED BY <1>1, <1>3, <2>1, SendReplaceKeeps
<1>4. CASE Stamp(1) /\ Hold(c, i, e) /\ NoWrite /\ (Become(c, r) \/ Return(c, "invalid"))
  <2>1. ops' \in Nat /\ ops <= ops' /\ docs' = docs /\ seen' = seen
    BY <1>4, StampOf DEF NoWrite
  <2>2. Rewritten(c) /\ Held(c)
    BY <1>0, <1>1, <1>4, <2>1, SameRewritten, OneHeld
  <2>3. r.pc \in QuietPcs
    BY DEF QuietPcs
  <2>. HIDE DEF r
  <2> QED BY <1>4, <2>2, <2>3, QuietKeeps, ReturnKeeps
<1> QED BY <1>2, <1>3, <1>4 DEF Delete, e

\* Sending a deletion in bulk.
LEMMA BatchDeleteKeeps ==
  ASSUME IInv, PerInstant = 1, NEW c \in Callers, \E r : Serves(c, r), NEW x, NEW ids,
         BatchDelete(c, x, ids)
  PROVE  IInv'
<1>. DEFINE r == [pc |-> "bulk", ids |-> ids, x |-> x, at |-> Instant(ops'), hits |-> 0]
<1>0. ops \in Nat /\ repo' = repo /\ docs' = docs /\ seen' = seen /\ mem' = mem
  BY DEF IInv, Typed, Serves, BatchDelete
<1>1. CASE (\E res : Return(c, res)) /\ ops' = ops
  <2>1. Rewritten(c) /\ Held(c)
    BY <1>0, <1>1, SameRewritten, SameHeld
  <2> QED BY <1>1, <2>1, ReturnKeeps
<1>2. CASE Stamp(1) /\ Become(c, r)
  <2>1. ops' \in Nat /\ ops <= ops' /\ Instant(ops') = ops'
    BY <1>2, StampOf
  <2>2. Rewritten(c) /\ Held(c)
    BY <1>0, <2>1, SameRewritten, SameHeld
  <2>3. r.pc = "bulk" /\ BulkOK(r)
    BY <2>1 DEF BulkOK
  <2>. HIDE DEF r
  <2>4. Serves(c, r) /\ Fits(c, r)
    BY <1>2, <2>3, ServesIs DEF IInv, Fits
  <2> QED BY <2>2, <2>4, RequestKeeps
<1> QED BY <1>1, <1>2 DEF BatchDelete

\* A page of a feed.
LEMMA FeedPageKeeps ==
  ASSUME IInv, NEW c \in Callers, \E r : Serves(c, r), NEW r, "pc" \in DOMAIN r, r.pc = "feed",
         FeedPage(c, r), UNCHANGED <<docs, mem, seen, ops>>
  PROVE  IInv'
<1>1. repo' = repo /\ ops' \in Nat /\ ops <= ops'
  BY DEF Serves, IInv, Typed
<1>2. PICK q : Serves(c, q) /\ q.pc \in {"feed", "fed"}
  BY <1>1, FeedPageServes DEF IInv
<1>3. Become(c, q) /\ q.pc \in QuietPcs
  BY <1>2 DEF Serves, QuietPcs
<1> QED BY <1>1, <1>3, SilentKeeps

\* The server inserts the entities up to the first id that exists.
LEMMA InsertReplyKeeps ==
  ASSUME IInv, NEW c \in Callers, \E r : Serves(c, r), NEW reply, InsertReply(c, reply)
  PROVE  IInv'
<1>. DEFINE r == call[c]
            new == {r.ids[k] : k \in Inserted(r.ids)}
<1>0. ops' \in Nat /\ ops <= ops' /\ repo' = repo /\ mem' = mem /\ r.pc = "insert"
  BY DEF IInv, Typed, Serves, InsertReply
<1>1. /\ docs' = [i \in IDs |-> IF i \in new THEN mem[c][i] ELSE docs[i]]
      /\ seen' = [seen EXCEPT ![c] = [i \in IDs |-> IF i \in new THEN mem[c][i] ELSE seen[c][i]]]
  BY DEF InsertReply
<1>2. \A i \in new : i \in Range(r.ids)
  BY DEF Inserted, Range
<1>. HIDE DEF new
<1>3. docs \in Shelf /\ mem \in [Callers -> Shelf] /\ seen \in [Callers -> Shelf]
  BY DEF IInv, Typed, Shelf
<1>4. /\ docs' \in Shelf /\ seen' \in [Callers -> Shelf]
      /\ \A b \in Callers \ {c} : seen'[b] = seen[b]
      /\ \A i \in IDs : /\ docs'[i] = IF i \in new THEN mem[c][i] ELSE docs[i]
                        /\ seen'[c][i] = IF i \in new THEN mem[c][i] ELSE seen[c][i]
  BY <1>1, <1>3 DEF Shelf
<1>5. \A i \in IDs : i \in new => Stamps(mem[c][i]) = Sent(c, i)
  BY <1>0, <1>2 DEF Sent, Sends
<1>6. \A i \in IDs : Rewrites(c, i)
  BY <1>4, <1>5 DEF Rewrites
<1>7. Rewritten(c) /\ Held(c)
  BY <1>0, <1>4, <1>6, SameHeld DEF Rewritten
<1> QED BY <1>7, ReturnKeeps DEF InsertReply

\* One replacement of a batch is stored and the next one goes out.
LEMMA ProceedKeeps ==
  ASSUME IInv, PerInstant = 1, NEW c \in Callers, \E r : Serves(c, r), call[c].pc = "replace",
         Proceed(c, call[c]),
         NEW j \in IDs, NEW d \in Ent \cup {NoDoc}, Store(c, j, d), Stamps(d) \subseteq Sent(c, j)
  PROVE  IInv'
<1>. DEFINE r == call[c]
<1>0. /\ ops \in Nat /\ repo' = repo /\ r.ids \in Seq(IDs) /\ r.ids # <<>>
      /\ DOMAIN r = {"pc", "ids", "x", "kind", "orig", "filter"}
  BY DEF IInv, Typed, Serves, Requests, RequestOK
<1>1. CASE Return(c, "ok") /\ UNCHANGED <<mem, ops>>
  <2>1. Rewritten(c) /\ Held(c)
    BY <1>0, <1>1, StoreRewritten, SameHeld
  <2> QED BY <1>1, <2>1, ReturnKeeps
<1>2. CASE Len(r.ids) # 1
  <2>. DEFINE rest == Tail(r.ids)
              k == rest[1]
              e == Entity(c, k)
              q == [r EXCEPT !.ids = rest, !.orig = e.updated, !.filter = BaseFilter(e)]
              h == CtxUpdateAudit(Edited(e), Instant(ops'))
  <2>1. rest \in Seq(IDs) /\ rest # <<>>
    BY <1>0, <1>2, TailLeft
  <2>2. Stamp(1) /\ Hold(c, k, h) /\ Become(c, q)
    BY <1>2 DEF Proceed
  <2>. HIDE DEF rest
  <2>3. k \in IDs
    BY <2>1
  <2>4. /\ ops' \in Nat /\ ops <= ops' /\ Instant(ops') = ops'
        /\ Carries("update") => ops' \in NewStamps
    BY <2>2, StampOf
  <2>5. e \in Ent /\ e.updated \in Known(c, k) \cup {0} /\ Edited(e) \in Ent
        /\ Edited(e).updated = e.updated
    BY <1>0, <2>3, EntityOK, EditedOf
  <2>. HIDE DEF e
  <2>6. h \in Ent /\ h.updated \in {0} \cup NewStamps
    BY <2>3, <2>4, <2>5, AuditStamps
  <2>. HIDE DEF h, r
  <2>7. q.pc = "replace" /\ q.ids = rest /\ q.orig = e.updated
    BY <1>0 DEF r
  <2>. HIDE DEF q
  <2>8. Rewritten(c) /\ Held(c) /\ mem'[c][k] = h
    BY <1>0, <2>2, <2>3, <2>4, <2>6, StoreRewritten, OneHeld
  <2>9. Stamped(c, k)
    BY <2>6, <2>8 DEF Stamped, Stamps
  <2>10. Serves(c, q) /\ Fits(c, q)
    BY <2>2, <2>5, <2>7, <2>9, ServesIs DEF IInv, Fits
  <2> QED BY <2>8, <2>10, RequestKeeps
<1> QED BY <1>1, <1>2 DEF Proceed

\* The server replaces a document, or finds none to replace.
LEMMA ReplaceReplyKeeps ==
  ASSUME IInv, PerInstant = 1, NEW c \in Callers, \E r : Serves(c, r), NEW reply,
         ReplaceReply(c, reply)
  PROVE  IInv'
<1>. DEFINE r == call[c]
            j == r.ids[1]
            e == mem[c][j]
            q == [r EXCEPT !.pc = "count", !.filter.at = 0]
<1>0. /\ ops \in Nat /\ repo' = repo /\ r.ids \in Seq(IDs) /\ r.ids # <<>> /\ r.pc = "replace"
      /\ "pc" \in DOMAIN r
  BY DEF IInv, Typed, Serves, Requests, RequestOK, ReplaceReply
<1>1. j \in IDs
  BY <1>0
<1>2. e \in Ent \cup {NoDoc} /\ Stamps(e) \subseteq Sent(c, j)
  BY <1>0, <1>1 DEF IInv, Typed, Sent, Sends
<1>3. Store(c, j, e) \/ NoWrite
  BY DEF ReplaceReply
<1>4. \/ (Proceed(c, r) /\ Store(c, j, e))
      \/ ((Become(c, q) \/ \E res : Return(c, res)) /\ mem' = mem /\ ops' = ops)
  BY DEF ReplaceReply
<1>5. q.pc \in QuietPcs
  BY <1>0 DEF QuietPcs
<1>. HIDE DEF j, e, q
<1>6. CASE Proceed(c, r) /\ Store(c, j, e)
  BY <1>0, <1>1, <1>2, <1>6, ProceedKeeps
<1>7. CASE (Become(c, q) \/ \E res : Return(c, res)) /\ mem' = mem /\ ops' = ops
  <2>1. Rewritten(c)
    <3>1. CASE Store(c, j, e)
      BY <1>0, <1>1, <1>2, <1>7, <3>1, StoreRewritten
    <3>2. CASE NoWrite
      BY <1>0, <1>7, <3>2, SameRewritten DEF NoWrite
    <3> QED BY <1>3, <3>1, <3>2
  <2>2. Held(c)
    BY <1>7, SameHeld
  <2> QED BY <1>5, <1>7, <2>1, <2>2, QuietKeeps, ReturnKeeps
<1> QED BY <1>4, <1>6, <1>7

\* A patched document has the stamp of PatchRaw (mongox.go:782).
LEMMA PatchedOf ==
  ASSUME NEW d \in Ent, NEW e \in Ent, NEW t \in Nat
  PROVE  /\ Patched(d, e, t) \in Ent
         /\ Patched(d, e, t).updated = IF Carries("update") THEN t ELSE d.updated
<1>. DEFINE of == [l \in Levels |-> IF e.of[l] # None THEN e.of[l] ELSE d.of[l]]
            p == [d EXCEPT !.val = e.val, !.of = of]
<1>1. of \in [Levels -> Names \cup {None}]
  BY DEF Ent
<1>2. Patched(d, e, t) = CtxUpdateAudit(p, t)
  BY DEF Patched
<1>. HIDE DEF of
<1>3. p \in Ent /\ p.updated = d.updated
  BY <1>1 DEF Ent
<1>. HIDE DEF p
<1> QED BY <1>2, <1>3, AuditOf

\* The server patches a document.
LEMMA PatchReplyKeeps ==
  ASSUME IInv, NEW c \in Callers, \E r : Serves(c, r), NEW reply, PatchReply(c, reply)
  PROVE  IInv'
<1>. DEFINE r == call[c]
            d == docs[r.id]
            new == Patched(d, r.payload, r.at)
<1>0. /\ ops' \in Nat /\ ops <= ops' /\ repo' = repo /\ mem' = mem /\ r.pc = "patch"
      /\ r.id \in IDs /\ r.payload \in Ent
  BY DEF IInv, Typed, Serves, PatchReply, Requests, RequestOK
<1>1. CASE NoWrite
  <2>1. Rewritten(c) /\ Held(c)
    BY <1>0, <1>1, SameRewritten, SameHeld DEF NoWrite
  <2> QED BY <2>1, ReturnKeeps DEF PatchReply
<1>2. CASE Matches(r.filter, r.x, d) /\ Store(c, r.id, new)
  <2>1. d \in Ent /\ d # NoDoc
    BY <1>0, <1>2 DEF Matches, IInv, Typed
  <2>2. ~Carries("update") => d.updated = 0
    BY <1>0, <2>1 DEF IInv, Bounded, InUse, Stamps
  <2>3. Carries("update") => Sent(c, r.id) = {r.at} /\ r.at \in Nat
    <3>1. Carries("update") => Sent(c, r.id) = {r.at}
      BY <1>0 DEF Sent, Sends
    <3>2. Sent(c, r.id) \subseteq Nat
      BY <1>0 DEF IInv, Bounded, InUse, Typed
    <3> QED BY <3>1, <3>2
  <2>. HIDE DEF d
  <2>4. new \in Ent /\ Stamps(new) \subseteq {0} \cup Sent(c, r.id)
    <3>1. CASE Carries("update")
      BY <1>0, <2>1, <2>3, <3>1, PatchedOf DEF Stamps
    <3>2. CASE ~Carries("update")
      <4>1. new = Patched(d, r.payload, 0)
        BY <3>2 DEF Patched, CtxUpdateAudit
      <4>. HIDE DEF new
      <4> QED BY <1>0, <2>1, <2>2, <3>2, <4>1, PatchedOf DEF Stamps
    <3> QED BY <3>1, <3>2
  <2>. HIDE DEF new
  <2>5. Rewritten(c) /\ Held(c)
    BY <1>0, <1>2, <2>4, StoreRewritten, SameHeld
  <2> QED BY <2>5, ReturnKeeps DEF PatchReply
<1> QED BY <1>1, <1>2 DEF PatchReply

\* The server removes a document.
LEMMA RemoveReplyKeeps ==
  ASSUME IInv, NEW c \in Callers, \E r : Serves(c, r), NEW reply, RemoveReply(c, reply)
  PROVE  IInv'
<1>0. /\ ops' \in Nat /\ ops <= ops' /\ repo' = repo /\ mem' = mem /\ call[c].id \in IDs
      /\ Stamps(NoDoc) = {}
  BY DEF IInv, Typed, Serves, RemoveReply, Requests, RequestOK, Stamps
<1>1. Store(c, call[c].id, NoDoc) \/ NoWrite
  BY DEF RemoveReply
<1>2. Rewritten(c)
  BY <1>0, <1>1, StoreRewritten, SameRewritten DEF NoWrite
<1>3. Held(c)
  BY <1>0, SameHeld
<1> QED BY <1>2, <1>3, ReturnKeeps DEF RemoveReply

\* The server removes one document of a deletion in bulk, or marks it and
\* leaves its update time alone.
LEMMA BulkVisitKeeps ==
  ASSUME IInv, NEW c \in Callers, \E r : Serves(c, r), NEW i \in IDs, BulkVisit(c, i)
  PROVE  IInv'
<1>. DEFINE r == call[c]
            d == docs[i]
<1>0. /\ ops' \in Nat /\ ops <= ops' /\ repo' = repo /\ mem' = mem /\ r.pc = "bulk"
      /\ BulkOK(r)
  BY DEF IInv, Typed, Serves, BulkVisit
<1>1. Rewritten(c)
  <2>1. CASE NoWrite
    BY <1>0, <2>1, SameRewritten DEF NoWrite
  <2>2. CASE Store(c, i, NoDoc)
    BY <1>0, <2>2, StoreRewritten DEF Stamps
  <2>3. CASE /\ Matches([at |-> 0, cond |-> TRUE], r.x, d) /\ SoftDelete(r.x)
             /\ Store(c, i, [d EXCEPT !.deleted = r.at])
    <3>1. d \in Ent /\ d # NoDoc /\ d.deleted = 0 /\ r.at \in Nat
      BY <1>0, <2>3 DEF Matches, Visible, IInv, Typed, BulkOK
    <3>. DEFINE e == [d EXCEPT !.deleted = r.at]
    <3>2. e \in Ent /\ e.updated = d.updated /\ Unmarked(e) = d
      BY <3>1 DEF Ent, Unmarked
    <3>3. Store(c, i, e)
      BY <2>3
    <3>. HIDE DEF e
    <3>4. Marks(docs[i], e)
      BY <3>1, <3>2 DEF Marks
    <3> QED BY <1>0, <3>2, <3>3, <3>4, StoreRewritten
  <2> QED BY <2>1, <2>2, <2>3 DEF BulkVisit
<1>2. PICK h : Become(c, [r EXCEPT !.ids = @ \ {i}, !.hits = h])
  BY DEF BulkVisit
<1>. DEFINE q == [r EXCEPT !.ids = @ \ {i}, !.hits = h]
<1>. HIDE DEF r
<1>3. q.pc = "bulk" /\ BulkOK(q)
  BY <1>0 DEF BulkOK
<1>4. Become(c, q)
  BY <1>2
<1>. HIDE DEF q
<1>5. Serves(c, q) /\ Fits(c, q)
  BY <1>3, <1>4, ServesIs DEF IInv, Fits
<1>6. Held(c)
  BY <1>0, SameHeld
<1> QED BY <1>1, <1>5, <1>6, RequestKeeps

\* Beginning any call keeps the invariant.
LEMMA BeginKeeps ==
  ASSUME IInv, PerInstant = 1, NEW c \in Callers, NEW x \in repo.work[c].contexts, Begin(c, x),
         repo' = repo
  PROVE  IInv'
<1>0. Requests /\ \E r : Serves(c, r)
  BY BeginServes DEF IInv
<1>1. x.who \in [Levels -> Names \cup {None}] /\ repo.work[c].ids \subseteq IDs
  BY <1>0, WorkIDs
<1>2. ASSUME NEW i \in repo.work[c].ids, Get(c, x, i) PROVE IInv'
  <2>1. CASE CondOK(x)
    BY <1>0, <1>1, <1>2, <2>1, FindKeeps DEF Get
  <2>2. CASE ~CondOK(x)
    <3>1. Return(c, "invalid") /\ UNCHANGED <<docs, mem, seen, ops>>
      BY <1>2, <2>2 DEF Get
    <3>2. Become(c, Idle) /\ Idle.pc \in QuietPcs /\ ops' \in Nat /\ ops <= ops'
      BY <3>1 DEF Return, Idle, QuietPcs, IInv, Typed
    <3> QED BY <1>0, <3>1, <3>2, SilentKeeps
  <2> QED BY <2>1, <2>2
<1>3. ASSUME NEW i \in repo.work[c].ids, Upsert(c, x, i) PROVE IInv'
  <2>1. <<i>> \in Seq(IDs) /\ <<i>> # <<>> /\ <<i>>[1] = i /\ i \in IDs
    BY <1>1
  <2>2. Entity(c, i) \in Ent /\ Entity(c, i).updated \in Known(c, i) \cup {0}
    BY <2>1, EntityOK
  <2>3. SendReplace(c, x, "upsert", Entity(c, i), <<i>>)
    BY <1>3 DEF Upsert
  <2> QED BY <1>0, <1>1, <2>1, <2>2, <2>3, SendReplaceKeeps
<1>4. ASSUME NEW i \in repo.work[c].ids, Delete(c, x, i) \/ Patch(c, x, i) \/ PatchRaw(c, x, i)
      PROVE  IInv'
  BY <1>0, <1>1, <1>4, DeleteKeeps, PatchKeeps, PatchRawKeeps
<1>5. ASSUME NEW ids \in Lists(repo.work[c].ids), Update(c, x, ids) PROVE IInv'
  <2>1. ids \in Seq(IDs) /\ ids # <<>>
    BY <1>1, ListsOK
  <2>2. ids[1] \in IDs
    BY <2>1, EmptySeq
  <2>3. Entity(c, ids[1]) \in Ent /\ Entity(c, ids[1]).updated \in Known(c, ids[1]) \cup {0}
    BY <2>2, EntityOK
  <2>4. SendReplace(c, x, "update", Entity(c, ids[1]), ids)
    BY <1>5 DEF Update
  <2> QED BY <1>0, <1>1, <2>1, <2>3, <2>4, SendReplaceKeeps
<1>6. ASSUME NEW ids \in Lists(repo.work[c].ids), Create(c, x, ids) PROVE IInv'
  <2>1. ids \in Seq(IDs) /\ ids # <<>>
    BY <1>1, ListsOK
  <2>2. ids[1] \in IDs
    BY <2>1, EmptySeq
  <2> QED BY <1>0, <1>1, <1>6, <2>2, CreateKeeps
<1>8. ASSUME NEW ids, BatchDelete(c, x, ids) PROVE IInv'
  BY <1>0, <1>1, <1>8, BatchDeleteKeeps
<1>7. ASSUME NEW f, BeginFeed(c, x, f.field, f.desc) PROVE IInv'
  <2>. DEFINE r == [pc |-> "feed", x |-> x, field |-> f.field, desc |-> f.desc,
                    token |-> <<>>, got |-> <<>>]
  <2>1. UNCHANGED <<docs, mem, seen, ops>> /\ (FeedPage(c, r) \/ Return(c, "invalid"))
    BY <1>7 DEF BeginFeed
  <2>2. "pc" \in DOMAIN r /\ r.pc = "feed"
    OBVIOUS
  <2>. HIDE DEF r
  <2>3. CASE FeedPage(c, r)
    BY <1>0, <2>1, <2>2, <2>3, FeedPageKeeps
  <2>4. CASE Return(c, "invalid")
    <3>1. Become(c, Idle) /\ Idle.pc \in QuietPcs /\ ops' \in Nat /\ ops <= ops'
      BY <2>1, <2>4 DEF Return, Idle, QuietPcs, IInv, Typed
    <3> QED BY <1>0, <2>1, <3>1, SilentKeeps
  <2> QED BY <2>1, <2>3, <2>4
<1> QED BY <1>2, <1>3, <1>4, <1>5, <1>6, <1>7, <1>8 DEF Begin

\* So does every later step of a call.
LEMMA ReplyKeeps ==
  ASSUME IInv, PerInstant = 1, NEW c \in Callers, Reply(c) \/ EndFeed(c) \/ Fail(c), repo' = repo
  PROVE  IInv'
<1>0. Requests /\ \E r : Serves(c, r)
  BY ReplyServes DEF IInv
<1>1. CASE GetAgain(c)
  <2>1. call[c].id \in IDs
    BY <1>0, <1>1 DEF GetAgain, Requests, RequestOK
  <2> QED BY <1>0, <1>1, <2>1, FindKeeps DEF GetAgain
<1>2. CASE CountReply(c) \/ BulkReply(c) \/ EndFeed(c) \/ Fail(c)
  <2>1. UNCHANGED <<docs, mem, seen, ops>> /\ \E res : Return(c, res)
    BY <1>2 DEF CountReply, BulkReply, EndFeed, Fail
  <2>2. Become(c, Idle) /\ Idle.pc \in QuietPcs /\ ops' \in Nat /\ ops <= ops'
    BY <2>1 DEF Return, Idle, QuietPcs, IInv, Typed
  <2> QED BY <1>0, <2>1, <2>2, SilentKeeps
<1>3. CASE FeedNext(c)
  <2>1. "pc" \in DOMAIN call[c]
    BY <1>0 DEF Requests, RequestOK
  <2> QED BY <1>0, <1>3, <2>1, FeedPageKeeps DEF FeedNext
<1>4. ASSUME NEW reply \in BOOLEAN, \/ InsertReply(c, reply) \/ ReplaceReply(c, reply)
                                    \/ PatchReply(c, reply) \/ RemoveReply(c, reply)
      PROVE  IInv'
  BY <1>0, <1>4, InsertReplyKeeps, ReplaceReplyKeeps, PatchReplyKeeps, RemoveReplyKeeps
<1>5. ASSUME NEW i \in IDs, BulkVisit(c, i) PROVE IInv'
  BY <1>0, <1>5, BulkVisitKeeps
<1> QED BY <1>1, <1>2, <1>3, <1>4, <1>5 DEF Reply

\* The invariant holds at first: nobody knows an update time.
LEMMA IInvInit ==
  ASSUME Init
  PROVE  IInv
<1>1. Requests
  BY RequestsInit
<1>2. /\ \A c \in Callers : call[c] = Idle /\ \A i \in IDs : mem[c][i] = NoDoc
      /\ ops = 1 /\ Idle.pc = "idle"
  BY DEF Init, Idle
<1>3. ASSUME NEW a \in Owners
      PROVE  Existing(a) \in Ent /\ Existing(a).updated \in InUse
  <2>1. a \in Names \cup {None}
    BY RepoAssumption
  <2> QED BY <1>2, <2>1 DEF Existing, Doc, Ent, InUse, Carries
<1>4. \A i \in IDs : docs[i] = NoDoc \/ \E a \in Owners : docs[i] = Existing(a)
  BY DEF Init
<1>5. Typed
  <2>1. \A i \in IDs : docs[i] \in Ent \cup {NoDoc}
    BY <1>3, <1>4
  <2>2. docs \in [IDs -> Ent \cup {NoDoc}]
    BY <2>1 DEF Init
  <2> QED BY <1>2, <2>2 DEF Init, Typed
<1>6. ASSUME NEW c \in Callers, NEW i \in IDs PROVE Known(c, i) = {} /\ Sent(c, i) = {}
  BY <1>2 DEF Known, Sent, Knows, Sends, Stamps
<1>7. \A i \in IDs : Stamps(docs[i]) \subseteq InUse
  BY <1>3, <1>4 DEF Stamps
<1> QED BY <1>1, <1>5, <1>6, <1>7 DEF IInv, Bounded, SentAlone, KnownSeen

\* The invariant is inductive.
LEMMA IInvNext ==
  ASSUME IInv, PerInstant = 1, [Next]_vars
  PROVE  IInv'
<1>1. CASE UNCHANGED vars
  <2>1. Requests'
    BY <1>1, RequestsNext DEF IInv
  <2>2. Typed'
    BY <1>1 DEF vars, IInv, Typed, BulkOK
  <2>3. Bounded' /\ SentAlone' /\ KnownSeen'
    BY <1>1 DEF vars, IInv, Bounded, SentAlone, KnownSeen, Known, Sent, Knows, Sends, InUse,
                Carries, Like, Unmarked, Stamps
  <2> QED BY <2>1, <2>2, <2>3 DEF IInv
<1>2. CASE Next
  <2>1. repo' = repo
    BY <1>2 DEF Next
  <2>2. PICK c \in Callers : \/ \E x \in repo.work[c].contexts : Begin(c, x)
                             \/ Reply(c) \/ EndFeed(c) \/ Fail(c)
    BY <1>2 DEF Next
  <2>3. CASE \E x \in repo.work[c].contexts : Begin(c, x)
    BY <2>1, <2>3, BeginKeeps
  <2>4. CASE Reply(c) \/ EndFeed(c) \/ Fail(c)
    BY <2>1, <2>4, ReplyKeeps
  <2> QED BY <2>2, <2>3, <2>4
<1> QED BY <1>1, <1>2

\* With stamps that differ, the inductive invariant always holds.
THEOREM Invariance ==
  ASSUME PerInstant = 1
  PROVE  Spec => []IInv
<1>1. Init => IInv
  BY IInvInit
<1>2. IInv /\ [Next]_vars => IInv'
  BY IInvNext
<1> QED BY <1>1, <1>2, PTL DEF Spec

\* A filter by a known update time lets through only a document that has it.
LEMMA FilterAt ==
  ASSUME IInv, NEW c \in Callers, NEW i \in IDs, NEW t \in Known(c, i), t # 0,
         NEW f, f = ScopedFilter(t), NEW x, Matches(f, x, docs[i])
  PROVE  docs[i] # NoDoc /\ docs[i].updated = t /\ Visible(x, docs[i])
<1>1. Carries("update")
  BY KnownInUse
<1> QED BY <1>1 DEF ScopedFilter, Matches

\* A document that is overwritten by an entity with an update time was seen by
\* the caller that writes.
LEMMA WriteBackSeen ==
  ASSUME IInv, NEW c \in Callers, Writes(c), WritesBack(c), NEW i \in IDs,
         docs[i] # NoDoc, docs'[i] # docs[i]
  PROVE  \/ docs[i] = seen[c][i]
         \/ ~SoftDelete(call[c].x) /\ [docs[i] EXCEPT !.deleted = 0] = seen[c][i]
<1>. DEFINE r == call[c]
<1>1. RequestOK(r) /\ DOMAIN docs = IDs /\ docs[i] \in Ent
  BY DEF IInv, Requests, Typed
<1>2. ASSUME NEW t \in Known(c, i), t # 0, docs[i].updated = t, Visible(r.x, docs[i])
      PROVE  \/ docs[i] = seen[c][i]
             \/ ~SoftDelete(r.x) /\ [docs[i] EXCEPT !.deleted = 0] = seen[c][i]
  <2>1. Like(docs[i], seen[c][i])
    BY <1>2 DEF IInv, KnownSeen
  <2>2. SoftDelete(r.x) => [docs[i] EXCEPT !.deleted = 0] = docs[i]
    BY <1>1, <1>2 DEF Visible, Ent
  <2> QED BY <2>1, <2>2 DEF Like, Unmarked
<1>3. CASE r.pc = "replace"
  <2>1. PICK reply : ReplaceReply(c, reply)
    BY <1>3 DEF Writes, InsertReply, PatchReply, RemoveReply, BulkVisit
  <2>2. /\ Matches(r.filter, r.x, docs[r.ids[1]]) \/ docs[r.ids[1]] = NoDoc
        /\ Store(c, r.ids[1], mem[c][r.ids[1]])
    BY <2>1 DEF ReplaceReply, NoWrite
  <2>3. i = r.ids[1] /\ Matches(r.filter, r.x, docs[i])
    BY <1>1, <2>2 DEF Store
  <2>4. r.orig # 0 /\ r.filter = ScopedFilter(r.orig)
    BY <1>1, <1>3 DEF WritesBack, RequestOK
  <2>5. r.orig \in Known(c, i)
    BY <1>3, <2>3 DEF Known, Knows
  <2> QED BY <1>2, <2>3, <2>4, <2>5, FilterAt
<1>4. CASE r.pc = "patch"
  <2>1. PICK reply : PatchReply(c, reply)
    BY <1>4 DEF Writes, InsertReply, ReplaceReply, RemoveReply, BulkVisit
  <2>2. Matches(r.filter, r.x, docs[r.id]) /\ \E d : Store(c, r.id, d)
    BY <2>1 DEF PatchReply, NoWrite
  <2>3. i = r.id
    BY <1>1, <2>2 DEF Store
  <2>4. r.payload.updated # 0 /\ r.filter = ScopedFilter(r.payload.updated)
    BY <1>1, <1>4 DEF WritesBack, RequestOK
  <2>5. r.payload.updated \in Known(c, i)
    BY <1>4, <2>3 DEF Known, Knows
  <2> QED BY <1>2, <2>2, <2>3, <2>4, <2>5, FilterAt
<1> QED BY <1>3, <1>4 DEF WritesBack

\* The optimistic lock of commonReplace and PatchRaw works for any number of
\* callers, batches, failed requests and lost replies, as long as no two
\* stamps fall into one millisecond: nobody overwrites a document that
\* somebody else has written since it was read, but for a mark of deletion
\* that a caller without soft deletion does not look at.
THEOREM UpdatesNotLost ==
  ASSUME PerInstant = 1
  PROVE  Spec => NoLostUpdate
<1>. DEFINE A == \A c \in Callers : Executes(c) /\ WritesBack(c) =>
                   \A i \in IDs :
                      docs[i] # NoDoc /\ docs'[i] # docs[i] =>
                         \/ docs[i] = seen[c][i]
                         \/ ~SoftDelete(call[c].x) /\ [docs[i] EXCEPT !.deleted = 0] = seen[c][i]
<1>1. IInv /\ [Next]_vars => [A]_vars
  <2>. SUFFICES ASSUME IInv, Next, NEW c \in Callers, Executes(c), WritesBack(c),
                       NEW i \in IDs, docs[i] # NoDoc, docs'[i] # docs[i]
                PROVE  \/ docs[i] = seen[c][i]
                       \/ ~SoftDelete(call[c].x) /\ [docs[i] EXCEPT !.deleted = 0] = seen[c][i]
    OBVIOUS
  <2>1. Writes(c)
    BY NextServes, OnlyOneCalls DEF IInv
  <2> QED BY <2>1, WriteBackSeen
<1>2. Spec => []IInv
  BY Invariance
<1> QED BY <1>1, <1>2, PTL DEF Spec, NoLostUpdate

-----------------------------------------------------------------------------
(* The feed                                                                *)

\* The page that ends at token has been read beyond the value v.
Behind(v, token, desc) == token # <<>> /\ IF desc THEN v >= token[1] ELSE v <= token[1]

\* What a feed carries from page to page.
FeedFields == {"pc", "x", "field", "desc", "token", "got"}

\* A feed that has returned r.got, of which the rows S were in view all the
\* time: no row was returned twice, nothing that lies ahead of the token was
\* returned, and a row of S that does not lie ahead, with a value, was returned
\* or gave way to a row with the same value.
GotOK(r, S) ==
  /\ DOMAIN r = FeedFields
  /\ r.got \in Seq(IDs \X Int) /\ S \subseteq IDs \X Int
  /\ \A j, k \in DOMAIN r.got : r.got[j] = r.got[k] => j = k
  /\ r.token = <<>> \/ \E t \in Int : r.token = <<t>>
  /\ r.pc = "feed" => \A k \in DOMAIN r.got : Behind(r.got[k][2], r.token, r.desc)
  /\ \A p \in S : p[2] # 0 /\ (r.pc = "feed" => Behind(p[2], r.token, r.desc)) =>
        \E k \in DOMAIN r.got : r.got[k][2] = p[2]

\* The rows a caller has collected so far.
FeedOK(c) == call[c].pc \in {"feed", "fed"} => GotOK(call[c], steady[c])

\* The entity has a creation time, 0 when it is missing.
HasDate(e) == "created" \in DOMAIN e /\ e.created \in Int
\* No entity, or one with a creation time.
Dated(e) == e = NoDoc \/ HasDate(e)
\* Creation times are numbers wherever an entity is, so that two cursor values
\* can always be compared. This much does not need PerInstant = 1.
Dates ==
  /\ ops \in Int /\ DOMAIN mem = Callers
  /\ \A i \in IDs : Dated(docs[i])
  /\ \A c \in Callers : /\ DOMAIN mem[c] = IDs /\ \A i \in IDs : Dated(mem[c][i])
                        /\ call[c].pc = "patch" => HasDate(call[c].payload)

\* A stamp is a number, whatever the resolution of the clock.
LEMMA InstantInt ==
  ASSUME NEW k \in Int
  PROVE  Instant(k) \in Int
BY RepoAssumption DEF Instant

\* A prefix of a sequence.
LEMMA FirstIs ==
  ASSUME NEW T, NEW s \in Seq(T), NEW k \in Nat
  PROVE  /\ First(s, k) \in Seq(T)
         /\ Len(First(s, k)) = IF Len(s) < k THEN Len(s) ELSE k
         /\ \A i \in 1 .. Len(First(s, k)) : First(s, k)[i] = s[i]
<1>. DEFINE m == IF Len(s) < k THEN Len(s) ELSE k
<1>1. Len(s) \in Nat /\ DOMAIN s = 1 .. Len(s) /\ \A i \in 1 .. Len(s) : s[i] \in T
  BY LenProperties
<1>2. m \in Nat /\ m <= Len(s)
  BY <1>1
<1>. HIDE DEF m
<1>3. \A i \in 1 .. m : s[i] \in T
  BY <1>1, <1>2
<1>4. /\ SubSeq(s, 1, m) \in Seq(T)
      /\ Len(SubSeq(s, 1, m)) = IF 1 <= m THEN m - 1 + 1 ELSE 0
      /\ \A i \in 1 .. m - 1 + 1 : SubSeq(s, 1, m)[i] = s[1 + i - 1]
  BY <1>1, <1>2, <1>3, SubSeqProperties
<1> QED BY <1>2, <1>4 DEF First, m

\* The rows of V after the token of r: yet to be read.
Passed(V, r) == {p \in V : AfterToken(p[2], r.token, r.desc)}

\* rows lists the n rows yet to be read, each once, in the order of the feed.
InOrder(rows, n, V, r) ==
  /\ n \in Nat /\ rows \in [1 .. n -> Passed(V, r)]
  /\ \A i, j \in 1 .. n : rows[i] = rows[j] => i = j
  /\ \A p \in Passed(V, r) : \E i \in 1 .. n : rows[i] = p
  /\ \A i, j \in 1 .. n :
       i < j => IF r.desc THEN rows[i][2] >= rows[j][2] ELSE rows[i][2] <= rows[j][2]

\* A collection has finitely many rows.
LEMMA RowsFinite ==
  ASSUME NEW D, NEW x, NEW field
  PROVE  IsFiniteSet(Rows(D, x, field))
<1>. DEFINE J == {j \in IDs : D[j] # NoDoc /\ Visible(x, D[j])}
            f == [i \in J |-> <<i, CursorValue(field, i, D[i])>>]
            V == Rows(D, x, field)
<1>1. IsFiniteSet(J)
  <2>1. J \in SUBSET IDs
    OBVIOUS
  <2>. HIDE DEF J
  <2> QED BY <2>1, RepoAssumption, FS_Subset
<1>2. V = {<<i, CursorValue(field, i, D[i])>> : i \in J}
  BY DEF Rows
<1>. HIDE DEF J, V
<1>3. f \in Surjection(J, V)
  BY <1>2 DEF Surjection
<1>. HIDE DEF f
<1> QED BY <1>1, <1>3, FS_Surjection DEF V

\* Find returns every row that passes the filter (mongox.go:318).
LEMMA SortedRowsList ==
  ASSUME NEW r, NEW rows \in SortedRows(r)
  PROVE  \E n \in Nat : InOrder(rows, n, Rows(docs, r.x, r.field), r)
<1>. DEFINE V == Rows(docs, r.x, r.field)
            P == Passed(V, r)
            n == Cardinality(P)
<1>1. IsFiniteSet(P)
  <2>1. IsFiniteSet(V) /\ P \in SUBSET V
    BY RowsFinite DEF Passed
  <2>. HIDE DEF P, V
  <2> QED BY <2>1, FS_Subset
<1>2. /\ rows \in [1 .. n -> P] /\ \A i, j \in 1 .. n : i # j => rows[i] # rows[j]
      /\ \A i, j \in DOMAIN rows :
           i < j => IF r.desc THEN rows[i][2] >= rows[j][2] ELSE rows[i][2] <= rows[j][2]
  BY DEF SortedRows, SetToSeqs, Passed
<1>. HIDE DEF V
<1>4. n \in Nat
  <2>. HIDE DEF P
  <2> QED BY <1>1, FS_CardinalityType
<1>5. Cardinality(1 .. n) = n
  <2>. HIDE DEF n
  <2> QED BY <1>4, FS_Interval
<1>6. rows \in Injection(1 .. n, P)
  <2>. HIDE DEF P, n
  <2> QED BY <1>2 DEF Injection, IsInjective
<1>7. rows \in Surjection(1 .. n, P)
  <2>1. Cardinality(1 .. n) = Cardinality(P)
    BY <1>5
  <2>. HIDE DEF P, n
  <2> QED BY <1>1, <1>6, <2>1, FS_Injection
<1>8. \A p \in P : \E i \in 1 .. n : rows[i] = p
  <2>. HIDE DEF P, n
  <2> QED BY <1>7 DEF Surjection
<1>9. DOMAIN rows = 1 .. n
  BY <1>2
<1>. HIDE DEF n, P
<1>10. rows \in [1 .. n -> Passed(V, r)] /\ \A p \in Passed(V, r) : \E i \in 1 .. n : rows[i] = p
  BY <1>2, <1>8 DEF P
<1>11. InOrder(rows, n, V, r)
  BY <1>2, <1>4, <1>9, <1>10 DEF InOrder
<1> QED BY <1>4, <1>11 DEF V

\* The page is what FeedQuery keeps of the rows it asked for (mongox.go:333):
\* all of them, or all but the one that shows that there is a next page.
LEMMA PageIs ==
  ASSUME NEW T, NEW s \in Seq(T), NEW n \in Nat, Len(s) = n,
         NEW limited, limited = First(s, PageSize + 1), NEW page, page = First(limited, PageSize)
  PROVE  /\ page \in Seq(T) /\ Len(page) = IF n > PageSize THEN PageSize ELSE n
         /\ \A i \in 1 .. Len(page) : page[i] = s[i]
         /\ Len(limited) > PageSize <=> n > PageSize
<1>1. PageSize \in Nat \ {0}
  BY RepoAssumption
<1>. DEFINE l == Len(limited)
            m == Len(page)
<1>2. /\ limited \in Seq(T) /\ l = IF n < PageSize + 1 THEN n ELSE PageSize + 1
      /\ \A i \in 1 .. l : limited[i] = s[i]
  BY <1>1, FirstIs
<1>3. /\ page \in Seq(T) /\ m = IF l < PageSize THEN l ELSE PageSize
      /\ \A i \in 1 .. m : page[i] = limited[i]
  BY <1>1, <1>2, FirstIs
<1>4. /\ m = IF n > PageSize THEN PageSize ELSE n
      /\ m <= l /\ (l > PageSize <=> n > PageSize) /\ l \in Nat /\ m \in Nat
  <2>. HIDE DEF l, m
  <2> QED BY <1>1, <1>2, <1>3
<1>5. \A i \in 1 .. m : page[i] = s[i]
  <2>. HIDE DEF l, m
  <2> QED BY <1>2, <1>3, <1>4
<1> QED BY <1>3, <1>4, <1>5

\* h is g, of length l, followed by s, of length m.
Joined(h, g, s, l, m) ==
  /\ \A k \in DOMAIN h :
       \/ k \in DOMAIN g /\ h[k] = g[k]
       \/ k \notin DOMAIN g /\ k - l \in 1 .. m /\ h[k] = s[k - l] /\ k \in Nat /\ l \in Nat
  /\ \A k \in DOMAIN g : k \in DOMAIN h /\ h[k] = g[k]
  /\ \A k \in 1 .. m : k + l \in DOMAIN h /\ h[k + l] = s[k]

\* Concatenation joins.
LEMMA JoinIs ==
  ASSUME NEW T, NEW g \in Seq(T), NEW s \in Seq(T)
  PROVE  g \o s \in Seq(T) /\ Joined(g \o s, g, s, Len(g), Len(s))
<1>. DEFINE h == g \o s
            l == Len(g)
            m == Len(s)
<1>1. l \in Nat /\ m \in Nat /\ DOMAIN g = 1 .. l
  BY LenProperties
<1>2. /\ h \in Seq(T) /\ Len(h) = l + m
      /\ \A i \in 1 .. l + m : h[i] = IF i <= l THEN g[i] ELSE s[i - l]
  BY ConcatProperties
<1>3. DOMAIN h = 1 .. l + m
  BY <1>2, LenProperties
<1>. HIDE DEF h, l, m
<1>4. \A k \in 1 .. l + m :
        \/ k \in 1 .. l /\ h[k] = g[k]
        \/ k \notin 1 .. l /\ k - l \in 1 .. m /\ h[k] = s[k - l] /\ k \in Nat /\ l \in Nat
  BY <1>1, <1>2
<1>5. /\ \A k \in 1 .. l : k \in 1 .. l + m /\ h[k] = g[k]
      /\ \A k \in 1 .. m : k + l \in 1 .. l + m /\ h[k + l] = s[k]
  BY <1>1, <1>2
<1>6. Joined(h, g, s, l, m)
  BY <1>1, <1>3, <1>4, <1>5, Zenon DEF Joined
<1> QED BY <1>2, <1>6 DEF h, l, m

\* The feed after a page, of n rows yet to be read.
Turned(r, page, n) ==
  IF n > PageSize
  THEN [r EXCEPT !.token = <<page[PageSize][2]>>, !.got = r.got \o page]
  ELSE [r EXCEPT !.pc = "fed", !.got = r.got \o page]

\* One page. Rows before the token were not asked for, so none comes twice; the
\* rows asked for are sorted, so a row that is left for later lies ahead of the
\* new token or has its value, and then a row with that value is on the page.
LEMMA PageKeeps ==
  ASSUME NEW r, NEW S, GotOK(r, S), r.pc = "feed",
         NEW V, V \subseteq IDs \X Int, NEW n \in Nat, NEW rows, InOrder(rows, n, V, r),
         NEW W, W \subseteq V, r.token # <<>> => W \subseteq S,
         NEW page \in Seq(IDs \X Int), Len(page) = IF n > PageSize THEN PageSize ELSE n,
         \A i \in 1 .. Len(page) : page[i] = rows[i],
         NEW q, q = Turned(r, page, n)
  PROVE  GotOK(q, W)
<1>0. PageSize \in Nat \ {0}
  BY RepoAssumption
<1>. DEFINE m == Len(page)
            g == r.got
            h == g \o page
            l == Len(g)
<1>1. m = (IF n > PageSize THEN PageSize ELSE n) /\ \A i \in 1 .. m : page[i] = rows[i]
  OBVIOUS
<1>2. g \in Seq(IDs \X Int) /\ DOMAIN page = 1 .. m
  BY LenProperties DEF GotOK
<1>3. /\ h \in Seq(IDs \X Int)
      /\ \A k \in DOMAIN h : \/ k \in DOMAIN g /\ h[k] = g[k]
                             \/ k \notin DOMAIN g /\ k - l \in 1 .. m /\ h[k] = page[k - l]
                                /\ k \in Nat /\ l \in Nat
      /\ \A k \in DOMAIN g : k \in DOMAIN h /\ h[k] = g[k]
      /\ \A k \in 1 .. m : k + l \in DOMAIN h /\ h[k + l] = page[k]
  <2>1. h \in Seq(IDs \X Int) /\ Joined(h, g, page, l, m)
    BY <1>2, JoinIs, Zenon
  <2>. HIDE DEF h, l, m, g
  <2> QED BY <2>1, Zenon DEF Joined
<1>4. /\ DOMAIN q = FeedFields /\ q.got = h /\ q.desc = r.desc
      /\ n > PageSize => q.pc = "feed" /\ q.token = <<page[PageSize][2]>>
      /\ ~(n > PageSize) => q.pc = "fed" /\ q.token = r.token
  BY DEF GotOK, FeedFields, Turned
<1>5. \A i \in 1 .. n : /\ rows[i] \in V /\ rows[i][2] \in Int
                        /\ AfterToken(rows[i][2], r.token, r.desc)
  <2>1. \A i \in 1 .. n : rows[i] \in Passed(V, r)
    BY DEF InOrder
  <2>2. \A p \in Passed(V, r) : p \in V /\ AfterToken(p[2], r.token, r.desc)
    BY DEF Passed
  <2>3. \A p \in V : p[2] \in Int
    OBVIOUS
  <2> QED BY <2>1, <2>2, <2>3
<1>. HIDE DEF m, g, h, l
<1>6. \A i \in 1 .. m : i \in 1 .. n
  BY <1>0, <1>1
<1>7. \A k \in DOMAIN g : g[k] \in IDs \X Int /\ g[k][2] \in Int
  BY <1>2
<1>8. ASSUME NEW t \in Int, r.token = <<t>> PROVE r.token # <<>> /\ r.token[1] = t
  BY <1>8
<1>9. \A k \in DOMAIN g : Behind(g[k][2], r.token, r.desc)
  BY DEF GotOK, g
<1>10. \A v \in Int : /\ AfterToken(v, r.token, r.desc) => ~Behind(v, r.token, r.desc)
                      /\ v # 0 /\ ~AfterToken(v, r.token, r.desc) => Behind(v, r.token, r.desc)
  BY <1>8 DEF GotOK, AfterToken, Behind
<1>11. \A j, k \in DOMAIN h : h[j] = h[k] => j = k
  <2>1. ASSUME NEW j \in DOMAIN g, NEW k \in 1 .. m, g[j] = page[k] PROVE FALSE
    BY <1>1, <1>5, <1>6, <1>7, <1>9, <1>10, <2>1
  <2>2. ASSUME NEW j \in DOMAIN g, NEW k \in DOMAIN g, g[j] = g[k] PROVE j = k
    BY <2>2 DEF GotOK, g
  <2>3. ASSUME NEW j \in 1 .. m, NEW k \in 1 .. m, page[j] = page[k] PROVE j = k
    BY <1>1, <1>6, <2>3 DEF InOrder
  <2>4. ASSUME NEW j \in DOMAIN h, NEW k \in DOMAIN h, h[j] = h[k] PROVE j = k
    <3>1. CASE j \in DOMAIN g /\ k \in DOMAIN g
      BY <1>3, <2>2, <2>4, <3>1
    <3>2. CASE j \in DOMAIN g /\ k \notin DOMAIN g
      BY <1>3, <2>1, <2>4, <3>2
    <3>3. CASE j \notin DOMAIN g /\ k \in DOMAIN g
      BY <1>3, <2>1, <2>4, <3>3
    <3>4. CASE j \notin DOMAIN g /\ k \notin DOMAIN g
      <4>1. /\ j - l \in 1 .. m /\ h[j] = page[j - l] /\ j \in Nat /\ l \in Nat
            /\ k - l \in 1 .. m /\ h[k] = page[k - l] /\ k \in Nat
        BY <1>3, <3>4
      <4>2. j - l = k - l
        BY <2>3, <2>4, <4>1
      <4> QED BY <4>1, <4>2
    <3> QED BY <3>1, <3>2, <3>3, <3>4
  <2> QED BY <2>4
<1>12. ASSUME NEW p \in W, p[2] # 0, Behind(p[2], r.token, r.desc)
       PROVE  \E k \in DOMAIN h : h[k][2] = p[2]
  <2>1. p \in S
    BY <1>12 DEF Behind
  <2>2. PICK k \in DOMAIN g : g[k][2] = p[2]
    BY <1>12, <2>1 DEF GotOK, g
  <2> QED BY <1>3, <2>2
<1>13. ASSUME NEW p \in W, AfterToken(p[2], r.token, r.desc)
       PROVE  \E i \in 1 .. n : rows[i] = p
  BY <1>13 DEF InOrder, Passed
<1>14. ASSUME NEW i \in 1 .. m PROVE \E k \in DOMAIN h : h[k][2] = rows[i][2]
  <2>1. i + l \in DOMAIN h /\ h[i + l] = page[i] /\ page[i] = rows[i]
    BY <1>1, <1>3, <1>14, Zenon
  <2> QED BY <2>1, Zenon
<1>15. CASE n > PageSize
  <2>. DEFINE t == page[PageSize][2]
  <2>1. m = PageSize /\ PageSize \in 1 .. m /\ PageSize \in 1 .. n
    BY <1>0, <1>1, <1>15
  <2>2. page[PageSize] = rows[PageSize] /\ t = rows[PageSize][2] /\ t \in Int
    BY <1>1, <1>5, <2>1
  <2>3. AfterToken(t, r.token, r.desc)
    BY <1>5, <2>1, <2>2
  <2>4. q.token # <<>> /\ q.token[1] = t /\ q.token = <<t>>
    BY <1>4, <1>15
  <2>. HIDE DEF t
  <2>5. \A v \in Int : Behind(v, q.token, q.desc) <=> IF r.desc THEN v >= t ELSE v <= t
    BY <1>4, <2>4 DEF Behind
  <2>6. ASSUME NEW i \in 1 .. n
        PROVE  IF i <= PageSize THEN (IF r.desc THEN rows[i][2] >= t ELSE rows[i][2] <= t)
                                ELSE (IF r.desc THEN rows[i][2] <= t ELSE rows[i][2] >= t)
    <3>1. CASE i = PageSize
      BY <1>0, <2>2, <3>1
    <3>2. CASE i < PageSize
      BY <1>0, <2>1, <2>2, <3>2 DEF InOrder
    <3>3. CASE i > PageSize
      BY <1>0, <2>1, <2>2, <3>3 DEF InOrder
    <3> QED BY <1>0, <3>1, <3>2, <3>3
  <2>7. \A v \in Int : Behind(v, r.token, r.desc) => Behind(v, q.token, q.desc)
    BY <1>8, <2>2, <2>3, <2>5 DEF Behind, AfterToken, GotOK
  <2>8. ASSUME NEW k \in DOMAIN h PROVE Behind(h[k][2], q.token, q.desc)
    <3>1. CASE k \in DOMAIN g
      BY <1>3, <1>7, <1>9, <2>7, <3>1
    <3>2. CASE k \notin DOMAIN g
      <4>1. PICK i \in 1 .. m : h[k] = page[i]
        BY <1>3, <3>2
      <4>2. h[k][2] = rows[i][2] /\ i \in 1 .. n /\ i <= PageSize
        BY <1>1, <1>6, <2>1, <4>1
      <4> QED BY <1>5, <2>5, <2>6, <4>2
    <3> QED BY <3>1, <3>2
  <2>9. ASSUME NEW p \in W, p[2] # 0, Behind(p[2], q.token, q.desc)
        PROVE  \E k \in DOMAIN h : h[k][2] = p[2]
    <3>0. p[2] \in Int
      OBVIOUS
    <3>1. CASE Behind(p[2], r.token, r.desc)
      BY <1>12, <2>9, <3>1
    <3>2. CASE AfterToken(p[2], r.token, r.desc)
      <4>1. PICK i \in 1 .. n : rows[i] = p
        BY <1>13, <3>2
      <4>2. CASE i <= PageSize
        BY <1>14, <2>1, <4>1, <4>2
      <4>3. CASE i > PageSize
        <5>1. p[2] = t
          BY <1>0, <2>2, <2>5, <2>6, <2>9, <3>0, <4>1, <4>3
        <5> QED BY <1>14, <2>1, <2>2, <5>1
      <4> QED BY <1>0, <4>2, <4>3
    <3> QED BY <1>10, <2>9, <3>0, <3>1, <3>2
  <2>10. q.got = h /\ DOMAIN q = FeedFields
    BY <1>4
  <2>11. \E u \in Int : q.token = <<u>>
    BY <2>2, <2>4
  <2>12. \A j, k \in DOMAIN q.got : q.got[j] = q.got[k] => j = k
    BY <1>11, <2>10
  <2>13. \A k \in DOMAIN q.got : Behind(q.got[k][2], q.token, q.desc)
    BY <2>8, <2>10
  <2>14. \A p \in W : p[2] # 0 /\ Behind(p[2], q.token, q.desc) =>
           \E k \in DOMAIN q.got : q.got[k][2] = p[2]
    BY <2>9, <2>10, Zenon
  <2>15. q.pc = "feed" /\ q.got \in Seq(IDs \X Int) /\ W \subseteq IDs \X Int
    BY <1>3, <1>4, <1>15
  <2> QED BY <2>10, <2>11, <2>12, <2>13, <2>14, <2>15, Zenon DEF GotOK
<1>16. CASE ~(n > PageSize)
  <2>1. m = n
    BY <1>1, <1>16
  <2>2. ASSUME NEW p \in W, p[2] # 0 PROVE \E k \in DOMAIN h : h[k][2] = p[2]
    <3>1. p[2] \in Int
      OBVIOUS
    <3> QED BY <1>10, <1>12, <1>13, <1>14, <2>1, <2>2, <3>1
  <2>3. q.token = <<>> \/ \E t \in Int : q.token = <<t>>
    BY <1>4, <1>16 DEF GotOK
  <2>4. q.pc # "feed"
    BY <1>4, <1>16
  <2>5. q.got = h /\ DOMAIN q = FeedFields
    BY <1>4
  <2>6. \A j, k \in DOMAIN q.got : q.got[j] = q.got[k] => j = k
    BY <1>11, <2>5
  <2>7. \A p \in W : p[2] # 0 => \E k \in DOMAIN q.got : q.got[k][2] = p[2]
    BY <2>2, <2>5, Zenon
  <2>8. q.got \in Seq(IDs \X Int) /\ W \subseteq IDs \X Int
    BY <1>3, <2>5
  <2> QED BY <2>3, <2>4, <2>5, <2>6, <2>7, <2>8, Zenon DEF GotOK
<1> QED BY <1>15, <1>16

\* The audits keep the creation time, or set it.
LEMMA AuditDates ==
  ASSUME NEW e, HasDate(e)
  PROVE  /\ \A t : HasDate(CtxUpdateAudit(e, t)) /\ HasDate([e EXCEPT !.deleted = t])
         /\ \A v : HasDate([e EXCEPT !.val = v])
         /\ HasDate(Edited(e)) /\ HasDate(CtxDeleteAudit(e))
         /\ \A x : \A t \in Int : /\ HasDate(CreateFilled(e, x, t))
                                /\ HasDate(CtxCreateAudit(e, x, t))
<1>1. \A t : HasDate(CtxUpdateAudit(e, t)) /\ HasDate([e EXCEPT !.deleted = t])
  BY DEF CtxUpdateAudit, HasDate
<1>2. \A v : HasDate([e EXCEPT !.val = v])
  BY DEF HasDate
<1>3. HasDate(Edited(e)) /\ HasDate(CtxDeleteAudit(e))
  BY DEF Edited, CtxDeleteAudit, HasDate
<1>4. ASSUME NEW x, NEW t \in Int
      PROVE  HasDate(CreateFilled(e, x, t)) /\ HasDate(CtxCreateAudit(e, x, t))
  <2>. DEFINE f == CreateFilled(e, x, t)
  <2>1. HasDate(f)
    BY <1>4 DEF CreateFilled, HasDate
  <2>. HIDE DEF f
  <2>2. HasDate(CtxUpdateAudit(f, t))
    BY <2>1 DEF CtxUpdateAudit, HasDate
  <2> QED BY <2>1, <2>2 DEF CtxCreateAudit, f
<1> QED BY <1>1, <1>2, <1>3, <1>4

\* So does the audit of a replacement.
LEMMA AuditedDates ==
  ASSUME NEW e, HasDate(e), NEW kind, NEW x, NEW t \in Int
  PROVE  HasDate(Audited(kind, e, x, t))
BY AuditDates DEF Audited

\* An entity a caller holds or builds has a creation time.
LEMMA EntityDates ==
  ASSUME Dates, NEW c \in Callers, NEW i \in IDs
  PROVE  HasDate(Entity(c, i))
BY DEF Dates, Dated, Entity, Blank, Doc, HasDate

\* A patched document keeps its creation time.
LEMMA PatchedDates ==
  ASSUME NEW d, HasDate(d), NEW e, NEW t
  PROVE  HasDate(Patched(d, e, t))
<1>. DEFINE p == [d EXCEPT !.val = e.val,
        !.of = [l \in Levels |-> IF e.of[l] # None THEN e.of[l] ELSE d.of[l]]]
<1>1. HasDate(p)
  BY DEF HasDate
<1>. HIDE DEF p
<1>2. HasDate(CtxUpdateAudit(p, t))
  BY <1>1 DEF CtxUpdateAudit, HasDate
<1> QED BY <1>2 DEF Patched, p

\* A step of one caller that leaves creation times everywhere.
LEMMA DatesStep ==
  ASSUME Requests, Dates, NEW c \in Callers, NEW r, Become(c, r), r.pc = "patch" => HasDate(r.payload),
         ops' \in Int, \A i \in IDs : Dated(docs'[i]), NEW f, mem' = [mem EXCEPT ![c] = f],
         DOMAIN f = IDs, \A i \in IDs : Dated(f[i])
  PROVE  Dates'
<1>1. \A b \in Callers : /\ call'[b] = IF b = c THEN r ELSE call[b]
                         /\ mem'[b] = IF b = c THEN f ELSE mem[b]
  BY DEF Requests, Become, Dates
<1>2. DOMAIN mem' = Callers
  BY DEF Dates
<1> QED BY <1>1, <1>2 DEF Dates

\* The same for a step that leaves the caller's entities alone.
LEMMA DatesQuiet ==
  ASSUME Requests, Dates, NEW c \in Callers, NEW r, Become(c, r), r.pc = "patch" => HasDate(r.payload),
         ops' \in Int, \A i \in IDs : Dated(docs'[i]), mem' = mem
  PROVE  Dates'
<1>1. \A b \in Callers : call'[b] = IF b = c THEN r ELSE call[b]
  BY DEF Requests, Become
<1> QED BY <1>1 DEF Dates

\* The same for a step that only changes one entity of the caller.
LEMMA DatesHold ==
  ASSUME Requests, Dates, NEW c \in Callers, NEW r, Become(c, r), r.pc = "patch" => HasDate(r.payload),
         ops' \in Int, docs' = docs, NEW i \in IDs, NEW e, Hold(c, i, e), Dated(e)
  PROVE  Dates'
<1>. DEFINE f == [mem[c] EXCEPT ![i] = e]
<1>1. mem' = [mem EXCEPT ![c] = f]
  BY DEF Hold, Dates
<1>2. DOMAIN f = IDs /\ \A j \in IDs : Dated(f[j])
  BY DEF Dates
<1>3. \A j \in IDs : Dated(docs'[j])
  BY DEF Dates
<1>. HIDE DEF f
<1> QED BY <1>1, <1>2, <1>3, DatesStep

\* Stamps are numbers.
LEMMA StampDates ==
  ASSUME Dates, NEW k \in Int, Stamp(k)
  PROVE  ops' \in Int /\ Instant(ops') \in Int /\ Instant(ops + 1) \in Int
BY InstantInt DEF Dates, Stamp

\* A call that returns.
LEMMA ReturnDates ==
  ASSUME Requests, Dates, NEW c \in Callers, NEW res, Return(c, res), UNCHANGED <<docs, mem, ops>>
  PROVE  Dates'
BY DatesQuiet DEF Return, Idle, Dates

\* GetByFilter hands out the stored document.
LEMMA FindDates ==
  ASSUME Requests, Dates, NEW c \in Callers, NEW x, NEW i \in IDs, NEW tries, FindOne(c, x, i, tries)
  PROVE  Dates'
<1>. DEFINE r == [pc |-> "get", id |-> i, x |-> x, tries |-> tries]
<1>1. docs' = docs /\ ops' = ops /\ ops \in Int /\ Dated(docs[i]) /\ \A j \in IDs : Dated(docs'[j])
  BY DEF FindOne, Dates
<1>2. CASE Hold(c, i, docs[i]) /\ Become(c, Idle)
  BY <1>1, <1>2, DatesHold DEF Idle
<1>3. CASE mem' = mem /\ Become(c, r)
  BY <1>1, <1>3, DatesQuiet
<1>4. CASE mem' = mem /\ Become(c, Idle)
  BY <1>1, <1>4, DatesQuiet DEF Idle
<1> QED BY <1>2, <1>3, <1>4 DEF FindOne, Return

\* A replacement is audited.
LEMMA SendReplaceDates ==
  ASSUME Requests, Dates, NEW c \in Callers, NEW x, NEW kind, NEW e, HasDate(e), NEW ids, ids[1] \in IDs,
         SendReplace(c, x, kind, e, ids)
  PROVE  Dates'
<1>. DEFINE r == [pc |-> "replace", ids |-> ids, x |-> x,
                  kind |-> IF Creates(kind, e) THEN "create" ELSE kind,
                  orig |-> e.updated, filter |-> ReplaceFilter(kind, e)]
            h == Audited(kind, IF kind = "delete" THEN e ELSE Edited(e), x, Instant(ops'))
            f == HalfAudited(kind, e, x, Instant(ops + 1))
<1>1. docs' = docs /\ ops \in Int
  BY DEF SendReplace, NoWrite, Dates
<1>2. Become(c, r) \/ Become(c, Idle)
  BY DEF SendReplace, Return
<1>3. (Stamp(1) /\ Hold(c, ids[1], h)) \/ (ops' = ops /\ Hold(c, ids[1], f))
  BY DEF SendReplace
<1>4. ASSUME Stamp(1) PROVE ops' \in Int /\ Dated(h)
  BY <1>4, StampDates, AuditDates, AuditedDates DEF Dated
<1>5. r.pc = "replace" /\ Idle.pc = "idle"
  BY DEF Idle
<1>6. Dated(f)
  BY <1>1, InstantInt, AuditDates DEF HalfAudited, Dated
<1>. HIDE DEF r, h, f
<1> QED BY <1>1, <1>2, <1>3, <1>4, <1>5, <1>6, DatesHold

\* The entities of a creation are audited.
LEMMA CreateDates ==
  ASSUME Requests, Dates, NEW c \in Callers, NEW x, NEW ids, ids[1] \in IDs, Create(c, x, ids)
  PROVE  Dates'
<1>1. docs' = docs /\ ops \in Int /\ \A i \in IDs : Dated(docs'[i])
  BY DEF Create, NoWrite, Dates
<1>2. CASE CreateAuditOK(x)
  <2>. DEFINE new(i) == CtxCreateAudit([Entity(c, i) EXCEPT !.val = ops'], x, Instant(ops'))
              f == [i \in IDs |-> IF i \in Range(ids) THEN new(i) ELSE mem[c][i]]
              r == [pc |-> "insert", ids |-> ids]
  <2>1. Stamp(1) /\ mem' = [mem EXCEPT ![c] = f] /\ Become(c, r)
    BY <1>2 DEF Create, Dates
  <2>2. ops' \in Int /\ Instant(ops') \in Int
    BY <2>1, StampDates
  <2>3. ASSUME NEW i \in IDs PROVE HasDate(new(i))
    BY <2>2, EntityDates, AuditDates
  <2>4. DOMAIN f = IDs /\ \A i \in IDs : Dated(f[i])
    <3>. HIDE DEF new
    <3> QED BY <2>3 DEF Dates, Dated
  <2>5. r.pc = "insert"
    OBVIOUS
  <2>. HIDE DEF f, r
  <2> QED BY <1>1, <2>1, <2>2, <2>4, <2>5, DatesStep
<1>3. CASE ~CreateAuditOK(x)
  <2>. DEFINE f == CreateFilled(Entity(c, ids[1]), x, Instant(ops + 1))
  <2>1. Hold(c, ids[1], f) /\ Become(c, Idle) /\ ops' = ops
    BY <1>3 DEF Create, Return
  <2>2. Dated(f)
    BY <1>1, InstantInt, EntityDates, AuditDates DEF Dated
  <2>. HIDE DEF f
  <2> QED BY <1>1, <2>1, <2>2, DatesHold DEF Idle
<1> QED BY <1>2, <1>3

\* The payload of a patch is the edited entity.
LEMMA PatchDates ==
  ASSUME Requests, Dates, NEW c \in Callers, NEW x, NEW i \in IDs, Patch(c, x, i)
  PROVE  Dates'
<1>. DEFINE e == Edited(Entity(c, i))
            r == [pc |-> "patch", id |-> i, x |-> x, filter |-> BaseFilter(e),
                  payload |-> e, at |-> Instant(ops')]
            h == CtxUpdateAudit(e, Instant(ops + 1))
<1>1. docs' = docs /\ HasDate(e)
  BY EntityDates, AuditDates DEF Patch, NoWrite
<1>2. CASE UpdateAuditOK(x)
  <2>1. Stamp(2) /\ Hold(c, i, h) /\ (Become(c, r) \/ Become(c, Idle))
    BY <1>2 DEF Patch, Return
  <2>. HIDE DEF e
  <2>2. ops' \in Int
    BY <2>1, StampDates
  <2>6. Dated(h)
    BY <1>1, AuditDates DEF Dated
  <2>3. r.payload = e /\ Idle.pc = "idle"
    BY DEF Idle
  <2>. HIDE DEF h, r
  <2> QED BY <1>1, <2>1, <2>2, <2>3, <2>6, DatesHold
<1>3. CASE ~UpdateAuditOK(x)
  BY <1>1, <1>3, ReturnDates DEF Patch
<1> QED BY <1>2, <1>3

\* The payload of a raw patch has no creation time.
LEMMA PatchRawDates ==
  ASSUME Requests, Dates, NEW c \in Callers, NEW x, NEW i \in IDs, PatchRaw(c, x, i)
  PROVE  Dates'
<1>. DEFINE r == [pc |-> "patch", id |-> i, x |-> x, filter |-> [at |-> 0, cond |-> TRUE],
                  payload |-> Blank(ops'), at |-> Instant(ops')]
<1>1. docs' = docs /\ mem' = mem /\ \A j \in IDs : Dated(docs'[j])
  BY DEF PatchRaw, Dates
<1>2. CASE UpdateAuditOK(x) /\ CondOK(x)
  <2>1. Stamp(1) /\ Become(c, r)
    BY <1>2 DEF PatchRaw
  <2>2. ops' \in Int
    BY <2>1, StampDates
  <2>3. HasDate(r.payload)
    BY DEF Blank, Doc, HasDate
  <2>. HIDE DEF r
  <2> QED BY <1>1, <2>1, <2>2, <2>3, DatesQuiet
<1>3. CASE ~(UpdateAuditOK(x) /\ CondOK(x))
  BY <1>1, <1>3, ReturnDates DEF PatchRaw
<1> QED BY <1>2, <1>3

\* Deletion, soft or hard.
LEMMA DeleteDates ==
  ASSUME Requests, Dates, NEW c \in Callers, NEW x, NEW i \in IDs, Delete(c, x, i)
  PROVE  Dates'
<1>. DEFINE e == CtxDeleteAudit(Entity(c, i))
            r == [pc |-> "remove", id |-> i, x |-> x]
<1>1. HasDate(e)
  BY EntityDates, AuditDates
<1>. HIDE DEF e
<1>2. CASE ~DeleteAuditOK(x)
  BY <1>2, ReturnDates DEF Delete
<1>3. CASE SendReplace(c, x, "delete", e, <<i>>)
  BY <1>1, <1>3, SendReplaceDates
<1>4. CASE Stamp(1) /\ Hold(c, i, e) /\ (Become(c, r) \/ Become(c, Idle)) /\ docs' = docs
  <2>1. ops' \in Int
    BY <1>4, StampDates
  <2>2. r.pc = "remove" /\ Idle.pc = "idle"
    BY DEF Idle
  <2>. HIDE DEF r
  <2> QED BY <1>1, <1>4, <2>1, <2>2, DatesHold DEF Dated
<1> QED BY <1>2, <1>3, <1>4 DEF Delete, NoWrite, Return, e

\* Deletion in bulk holds no entity.
LEMMA BatchDeleteDates ==
  ASSUME Requests, Dates, NEW c \in Callers, NEW x, NEW ids, BatchDelete(c, x, ids)
  PROVE  Dates'
<1>. DEFINE r == [pc |-> "bulk", ids |-> ids, x |-> x, at |-> Instant(ops'), hits |-> 0]
<1>1. docs' = docs /\ mem' = mem /\ \A j \in IDs : Dated(docs'[j])
  BY DEF BatchDelete, Dates
<1>2. CASE Stamp(1) /\ Become(c, r)
  BY <1>1, <1>2, StampDates, DatesQuiet
<1>3. CASE ops' = ops /\ \E res : Return(c, res)
  BY <1>1, <1>3, ReturnDates
<1> QED BY <1>2, <1>3 DEF BatchDelete

\* Inserted documents are entities of the caller.
LEMMA InsertReplyDates ==
  ASSUME Requests, Dates, NEW c \in Callers, NEW reply, InsertReply(c, reply)
  PROVE  Dates'
<1>1. PICK new : docs' = [i \in IDs |-> IF i \in new THEN mem[c][i] ELSE docs[i]]
  BY DEF InsertReply
<1>2. \A i \in IDs : Dated(docs'[i])
  BY <1>1 DEF Dates
<1>3. Become(c, Idle) /\ mem' = mem /\ ops' = ops
  BY DEF InsertReply, Return
<1> QED BY <1>2, <1>3, DatesQuiet DEF Idle, Dates

\* One document is stored or removed.
LEMMA StoreDates ==
  ASSUME Requests, Dates, NEW c \in Callers, NEW i \in IDs, NEW d, Dated(d), Store(c, i, d) \/ NoWrite
  PROVE  \A j \in IDs : Dated(docs'[j])
BY DEF Requests, Dates, Store, NoWrite

\* The replacement is the entity of the caller; a batch goes on to the next.
LEMMA ReplaceReplyDates ==
  ASSUME Requests, Dates, NEW c \in Callers, NEW reply, ReplaceReply(c, reply)
  PROVE  Dates'
<1>. DEFINE r == call[c]
            i == r.ids[1]
            e == mem[c][i]
<1>1. /\ r.pc = "replace" /\ r.ids \in Seq(IDs) /\ r.ids # <<>>
      /\ DOMAIN r = {"pc", "ids", "x", "kind", "orig", "filter"}
  BY DEF ReplaceReply, Requests, RequestOK
<1>2. i \in IDs /\ Dated(e) /\ ops \in Int
  BY <1>1 DEF Dates
<1>3. Store(c, i, e) \/ NoWrite
  BY DEF ReplaceReply
<1>4. \A j \in IDs : Dated(docs'[j])
  <2>. HIDE DEF e, i
  <2> QED BY <1>2, <1>3, StoreDates
<1>5. CASE Proceed(c, r)
  <2>1. CASE Len(r.ids) = 1
    BY <1>2, <1>4, <1>5, <2>1, DatesQuiet DEF Proceed, Return, Idle
  <2>2. CASE Len(r.ids) # 1
    <3>. DEFINE rest == Tail(r.ids)
                f == Entity(c, rest[1])
                h == CtxUpdateAudit(Edited(f), Instant(ops'))
                q == [r EXCEPT !.ids = rest, !.orig = f.updated, !.filter = BaseFilter(f)]
    <3>1. Stamp(1) /\ Hold(c, rest[1], h) /\ Become(c, q)
      BY <1>5, <2>2 DEF Proceed
    <3>2. rest \in Seq(IDs) /\ rest # <<>>
      BY <1>1, <2>2, TailLeft
    <3>. HIDE DEF rest
    <3>3. rest[1] \in IDs
      BY <3>2
    <3>4. Dated(h)
      BY <3>3, EntityDates, AuditDates DEF Dated
    <3>5. ops' \in Int
      BY <3>1, StampDates
    <3>6. q.pc = "replace"
      BY <1>1
    <3>7. mem' = [mem EXCEPT ![c] = [mem[c] EXCEPT ![rest[1]] = h]]
      BY <3>1 DEF Hold, Dates
    <3>. DEFINE g == [mem[c] EXCEPT ![rest[1]] = h]
    <3>8. DOMAIN g = IDs /\ \A j \in IDs : Dated(g[j])
      BY <3>4 DEF Dates
    <3>. HIDE DEF h, q, r, g
    <3> QED BY <1>4, <3>1, <3>5, <3>6, <3>7, <3>8, DatesStep DEF g
  <2> QED BY <2>1, <2>2
<1>6. CASE ~Proceed(c, r)
  <2>. DEFINE q == [r EXCEPT !.pc = "count", !.filter.at = 0]
  <2>1. (Become(c, Idle) \/ Become(c, q)) /\ mem' = mem /\ ops' = ops
    BY <1>6 DEF ReplaceReply, Return
  <2>2. q.pc = "count" /\ Idle.pc = "idle"
    BY <1>1 DEF Idle
  <2>. HIDE DEF q
  <2> QED BY <1>2, <1>4, <2>1, <2>2, DatesQuiet
<1> QED BY <1>5, <1>6

\* A patch changes a document that exists.
LEMMA PatchReplyDates ==
  ASSUME Requests, Dates, NEW c \in Callers, NEW reply, PatchReply(c, reply)
  PROVE  Dates'
<1>. DEFINE r == call[c]
            d == docs[r.id]
            new == Patched(d, r.payload, r.at)
<1>1. r.pc = "patch" /\ r.id \in IDs /\ HasDate(r.payload) /\ Dated(d)
  BY DEF PatchReply, Requests, RequestOK, Dates
<1>2. (Store(c, r.id, new) /\ d # NoDoc) \/ NoWrite
  BY DEF PatchReply, Matches
<1>3. Become(c, Idle) /\ mem' = mem /\ ops' = ops
  BY DEF PatchReply, Return
<1>. HIDE DEF r, d
<1>4. d # NoDoc => Dated(new)
  BY <1>1, PatchedDates DEF Dated
<1>. HIDE DEF new
<1>5. \A j \in IDs : Dated(docs'[j])
  <2>1. CASE NoWrite
    BY <2>1 DEF NoWrite, Dates
  <2>2. CASE Store(c, r.id, new) /\ d # NoDoc
    BY <1>1, <1>4, <2>2, StoreDates
  <2> QED BY <1>2, <2>1, <2>2
<1> QED BY <1>3, <1>5, DatesQuiet DEF Idle, Dates

\* A removed document needs no time.
LEMMA RemoveReplyDates ==
  ASSUME Requests, Dates, NEW c \in Callers, NEW reply, RemoveReply(c, reply)
  PROVE  Dates'
<1>1. /\ call[c].id \in IDs /\ (Store(c, call[c].id, NoDoc) \/ NoWrite)
      /\ Become(c, Idle) /\ mem' = mem /\ ops' = ops
  BY DEF RemoveReply, Requests, RequestOK, Return
<1>2. \A j \in IDs : Dated(docs'[j])
  BY <1>1, StoreDates DEF Dated
<1> QED BY <1>1, <1>2, DatesQuiet DEF Idle, Dates

\* A deletion in bulk marks or removes.
LEMMA BulkVisitDates ==
  ASSUME Requests, Dates, NEW c \in Callers, NEW i \in IDs, BulkVisit(c, i)
  PROVE  Dates'
<1>. DEFINE r == call[c]
<1>1. "pc" \in DOMAIN r /\ r.pc = "bulk"
  BY DEF BulkVisit, Requests, RequestOK
<1>2. PICK h : Become(c, [r EXCEPT !.ids = @ \ {i}, !.hits = h])
  BY DEF BulkVisit
<1>3. [r EXCEPT !.ids = @ \ {i}, !.hits = h].pc = "bulk"
  BY <1>1
<1>4. \A j \in IDs : Dated(docs'[j])
  <2>1. CASE NoWrite
    BY <2>1 DEF NoWrite, Dates
  <2>2. CASE Store(c, i, NoDoc)
    BY <2>2, StoreDates DEF Dated
  <2>3. CASE docs[i] # NoDoc /\ Store(c, i, [docs[i] EXCEPT !.deleted = r.at])
    <3>1. HasDate(docs[i])
      BY <2>3 DEF Dates, Dated
    <3>2. Dated([docs[i] EXCEPT !.deleted = r.at])
      BY <3>1, AuditDates DEF Dated
    <3> QED BY <2>3, <3>2, StoreDates
  <2> QED BY <2>1, <2>2, <2>3 DEF BulkVisit, Matches
<1>5. mem' = mem /\ ops' = ops
  BY DEF BulkVisit
<1>. HIDE DEF r
<1> QED BY <1>2, <1>3, <1>4, <1>5, DatesQuiet DEF Dates

\* A feed only reads.
LEMMA FeedPageDates ==
  ASSUME Requests, Dates, NEW c \in Callers, NEW r, "pc" \in DOMAIN r, r.pc = "feed", FeedPage(c, r),
         UNCHANGED <<docs, mem, seen, ops>>, repo' = repo
  PROVE  Dates'
<1>1. PICK q : Serves(c, q) /\ q.pc \in {"feed", "fed"}
  BY FeedPageServes
<1> QED BY <1>1, DatesQuiet DEF Serves, Dates

\* Every call begins with creation times in place.
LEMMA BeginDates ==
  ASSUME Requests, Dates, NEW c \in Callers, NEW x \in repo.work[c].contexts, Begin(c, x), repo' = repo
  PROVE  Dates'
<1>1. ASSUME NEW i \in repo.work[c].ids,
             Get(c, x, i) \/ Upsert(c, x, i) \/ Delete(c, x, i) \/ Patch(c, x, i) \/ PatchRaw(c, x, i)
      PROVE  Dates'
  <2>0. i \in IDs
    BY WorkIDs
  <2>1. CASE Get(c, x, i)
    BY <2>0, <2>1, FindDates, ReturnDates DEF Get
  <2>2. CASE Upsert(c, x, i)
    BY <2>0, <2>2, SendReplaceDates, EntityDates DEF Upsert
  <2> QED BY <1>1, <2>0, <2>1, <2>2, DeleteDates, PatchDates, PatchRawDates
<1>2. ASSUME NEW ids \in Lists(repo.work[c].ids), Create(c, x, ids) \/ Update(c, x, ids)
      PROVE  Dates'
  <2>1. ids \in Seq(IDs) /\ ids # <<>>
    BY WorkIDs, ListsOK
  <2>2. ids[1] \in IDs
    BY <2>1
  <2>3. CASE Update(c, x, ids)
    BY <2>2, <2>3, SendReplaceDates, EntityDates DEF Update
  <2> QED BY <1>2, <2>2, <2>3, CreateDates
<1>3. ASSUME NEW field, NEW desc, BeginFeed(c, x, field, desc) PROVE Dates'
  <2>. DEFINE r == [pc |-> "feed", x |-> x, field |-> field, desc |-> desc,
                    token |-> <<>>, got |-> <<>>]
  <2>1. UNCHANGED <<docs, mem, seen, ops>> /\ (FeedPage(c, r) \/ \E res : Return(c, res))
    BY <1>3 DEF BeginFeed
  <2>2. "pc" \in DOMAIN r /\ r.pc = "feed"
    OBVIOUS
  <2>. HIDE DEF r
  <2> QED BY <2>1, <2>2, FeedPageDates, ReturnDates
<1> QED BY <1>1, <1>2, <1>3, BatchDeleteDates DEF Begin

\* Every other step keeps them.
LEMMA ReplyDates ==
  ASSUME Requests, Dates, NEW c \in Callers, Reply(c) \/ EndFeed(c) \/ Fail(c), repo' = repo
  PROVE  Dates'
<1>0. RequestOK(call[c]) /\ "pc" \in DOMAIN call[c]
  BY DEF Requests, RequestOK
<1>1. CASE GetAgain(c)
  BY <1>0, <1>1, FindDates DEF GetAgain, RequestOK
<1>2. CASE CountReply(c) \/ BulkReply(c) \/ EndFeed(c) \/ Fail(c)
  <2>1. UNCHANGED <<docs, mem, ops>> /\ \E res : Return(c, res)
    BY <1>2 DEF CountReply, BulkReply, EndFeed, Fail
  <2> QED BY <2>1, ReturnDates
<1>3. CASE FeedNext(c)
  BY <1>0, <1>3, FeedPageDates DEF FeedNext
<1> QED BY <1>1, <1>2, <1>3, InsertReplyDates, ReplaceReplyDates, PatchReplyDates, RemoveReplyDates,
           BulkVisitDates DEF Reply

\* The call is a feed.
Feeding(r) == r.pc \in {"feed", "fed"}

\* A row is an id and a number.
LEMMA RowsTyped ==
  ASSUME Dates, NEW x, NEW field
  PROVE  Rows(docs, x, field) \subseteq IDs \X Int
<1>1. ASSUME NEW i \in IDs, docs[i] # NoDoc PROVE CursorValue(field, i, docs[i]) \in Int
  BY <1>1, RepoAssumption DEF CursorValue, Dates, Dated, HasDate
<1> QED BY <1>1 DEF Rows

\* A page keeps what GotOK says of a feed, for any rows that are in view when
\* the page is read and, after the first page, were before.
LEMMA FeedPageFeeds ==
  ASSUME Dates, NEW c, NEW r, NEW S, GotOK(r, S), r.pc = "feed", FeedPage(c, r)
  PROVE  \E q : /\ Become(c, q) /\ q.x = r.x /\ q.field = r.field
                /\ \A W : W \subseteq Rows(docs, r.x, r.field) /\ (r.token # <<>> => W \subseteq S)
                            => GotOK(q, W)
<1>. DEFINE V == Rows(docs, r.x, r.field)
<1>1. PICK rows \in SortedRows(r) :
        LET limited == First(rows, PageSize + 1)
            page == First(limited, PageSize)
        IN  Become(c, IF Len(limited) > PageSize
                      THEN [r EXCEPT !.token = <<page[PageSize][2]>>, !.got = r.got \o page]
                      ELSE [r EXCEPT !.pc = "fed", !.got = r.got \o page])
  BY DEF FeedPage
<1>2. PICK n \in Nat : InOrder(rows, n, V, r)
  BY SortedRowsList
<1>3. V \subseteq IDs \X Int
  BY RowsTyped
<1>. HIDE DEF V
<1>4. rows \in [1 .. n -> IDs \X Int]
  BY <1>2, <1>3 DEF InOrder, Passed
<1>5. rows \in Seq(IDs \X Int) /\ Len(rows) = n
  BY <1>4
<1>. DEFINE limited == First(rows, PageSize + 1)
            page == First(limited, PageSize)
            q == Turned(r, page, n)
<1>6. /\ page \in Seq(IDs \X Int) /\ Len(page) = (IF n > PageSize THEN PageSize ELSE n)
      /\ \A i \in 1 .. Len(page) : page[i] = rows[i]
      /\ Len(limited) > PageSize <=> n > PageSize
  BY <1>5, PageIs
<1>7. Become(c, q)
  BY <1>1, <1>6 DEF Turned
<1>8. q.x = r.x /\ q.field = r.field
  BY DEF Turned, GotOK, FeedFields
<1>. HIDE DEF limited, page
<1>9. ASSUME NEW W, W \subseteq V, r.token # <<>> => W \subseteq S PROVE GotOK(q, W)
  <2>. DEFINE p == q
  <2>1. p = Turned(r, page, n)
    OBVIOUS
  <2>. HIDE DEF q
  <2> QED BY <1>2, <1>3, <1>6, <1>9, <2>1, PageKeeps DEF q
<1>. HIDE DEF q
<1> QED BY <1>7, <1>8, <1>9 DEF V

\* Fewer rows were in view all the time.
LEMMA GotShrinks ==
  ASSUME NEW r, NEW S, GotOK(r, S), NEW W, W \subseteq S
  PROVE  GotOK(r, W)
BY DEF GotOK

\* Only BeginFeed begins a feed.
LEMMA OtherBegins ==
  ASSUME Requests, NEW c \in Callers, NEW x \in repo.work[c].contexts, Begin(c, x)
  PROVE  \/ ~Feeding(call'[c])
         \/ \E field, desc : BeginFeed(c, x, field, desc)
<1>0. ASSUME NEW q, Become(c, q) PROVE call'[c] = q
  BY <1>0 DEF Become, Requests
<1>1. ASSUME NEW res, Return(c, res) PROVE ~Feeding(call'[c])
  BY <1>0, <1>1 DEF Return, Idle, Feeding
<1>2. ASSUME NEW kind, NEW e, NEW ids, SendReplace(c, x, kind, e, ids) PROVE ~Feeding(call'[c])
  <2>. DEFINE r == [pc |-> "replace", ids |-> ids, x |-> x,
                    kind |-> IF Creates(kind, e) THEN "create" ELSE kind,
                    orig |-> e.updated, filter |-> ReplaceFilter(kind, e)]
  <2>1. Become(c, r) \/ \E res : Return(c, res)
    BY <1>2 DEF SendReplace
  <2>2. ~Feeding(r)
    BY DEF Feeding
  <2>. HIDE DEF r
  <2> QED BY <1>0, <1>1, <2>1, <2>2
<1>3. ASSUME NEW i, Get(c, x, i) \/ Upsert(c, x, i) PROVE ~Feeding(call'[c])
  <2>. DEFINE r == [pc |-> "get", id |-> i, x |-> x, tries |-> 1]
  <2>1. ~Feeding(r)
    BY DEF Feeding
  <2>2. CASE Get(c, x, i)
    BY <1>0, <1>1, <2>1, <2>2 DEF Get, FindOne
  <2>3. CASE Upsert(c, x, i)
    BY <1>2, <2>3 DEF Upsert
  <2> QED BY <1>3, <2>2, <2>3
<1>4. ASSUME NEW i, Delete(c, x, i) PROVE ~Feeding(call'[c])
  <2>. DEFINE r == [pc |-> "remove", id |-> i, x |-> x]
  <2>1. ~Feeding(r)
    BY DEF Feeding
  <2> QED BY <1>0, <1>1, <1>2, <1>4, <2>1 DEF Delete
<1>5. ASSUME NEW i, Patch(c, x, i) \/ PatchRaw(c, x, i) PROVE ~Feeding(call'[c])
  <2>1. (\E res : Return(c, res)) \/ \E f, p, t :
            Become(c, [pc |-> "patch", id |-> i, x |-> x, filter |-> f, payload |-> p, at |-> t])
    BY <1>5 DEF Patch, PatchRaw
  <2>2. ASSUME NEW f, NEW p, NEW t
        PROVE  ~Feeding([pc |-> "patch", id |-> i, x |-> x, filter |-> f, payload |-> p, at |-> t])
    BY DEF Feeding
  <2> QED BY <1>0, <1>1, <2>1, <2>2
<1>6. ASSUME NEW ids, Create(c, x, ids) \/ Update(c, x, ids) \/ BatchDelete(c, x, ids)
      PROVE  ~Feeding(call'[c])
  <2>1. CASE Create(c, x, ids)
    BY <1>0, <1>1, <2>1 DEF Create, Feeding
  <2>2. CASE Update(c, x, ids)
    BY <1>2, <2>2 DEF Update
  <2>3. CASE BatchDelete(c, x, ids)
    BY <1>0, <1>1, <2>3 DEF BatchDelete, Feeding
  <2> QED BY <1>6, <2>1, <2>2, <2>3
<1> QED BY <1>3, <1>4, <1>5, <1>6 DEF Begin

\* Only FeedNext goes on with one.
LEMMA OtherReplies ==
  ASSUME Requests, NEW c \in Callers, Reply(c) \/ EndFeed(c) \/ Fail(c)
  PROVE  ~Feeding(call'[c]) \/ FeedNext(c)
<1>0. ASSUME NEW q, Become(c, q) PROVE call'[c] = q
  BY <1>0 DEF Become, Requests
<1>1. ASSUME NEW res, Return(c, res) PROVE ~Feeding(call'[c])
  BY <1>0, <1>1 DEF Return, Idle, Feeding
<1>2. CASE CountReply(c) \/ BulkReply(c) \/ EndFeed(c) \/ Fail(c)
  BY <1>1, <1>2 DEF CountReply, BulkReply, EndFeed, Fail
<1>3. ASSUME NEW reply, InsertReply(c, reply) \/ PatchReply(c, reply) \/ RemoveReply(c, reply)
      PROVE  ~Feeding(call'[c])
  BY <1>1, <1>3 DEF InsertReply, PatchReply, RemoveReply
<1>4. CASE GetAgain(c)
  BY <1>0, <1>1, <1>4 DEF GetAgain, FindOne, Feeding
<1>5. "pc" \in DOMAIN call[c]
  BY DEF Requests, RequestOK
<1>6. ASSUME NEW i, BulkVisit(c, i) PROVE ~Feeding(call'[c])
  <2>1. PICK h : call[c].pc = "bulk" /\ Become(c, [call[c] EXCEPT !.ids = @ \ {i}, !.hits = h])
    BY <1>6 DEF BulkVisit
  <2> QED BY <1>0, <1>5, <2>1 DEF Feeding
<1>7. ASSUME NEW reply, ReplaceReply(c, reply) PROVE ~Feeding(call'[c])
  <2>. DEFINE r == call[c]
  <2>1. r.pc = "replace" /\ "pc" \in DOMAIN r
    BY <1>5, <1>7 DEF ReplaceReply
  <2>2. \/ \E res : Return(c, res)
        \/ \E a, b, d : Become(c, [r EXCEPT !.ids = a, !.orig = b, !.filter = d])
        \/ Become(c, [r EXCEPT !.pc = "count", !.filter.at = 0])
    BY <1>7 DEF ReplaceReply, Proceed
  <2>. HIDE DEF r
  <2>3. CASE \E a, b, d : Become(c, [r EXCEPT !.ids = a, !.orig = b, !.filter = d])
    <3>1. PICK a, b, d : Become(c, [r EXCEPT !.ids = a, !.orig = b, !.filter = d])
      BY <2>3
    <3>2. call'[c] = [r EXCEPT !.ids = a, !.orig = b, !.filter = d]
      BY <1>0, <3>1
    <3> QED BY <2>1, <3>2 DEF Feeding
  <2>4. CASE Become(c, [r EXCEPT !.pc = "count", !.filter.at = 0])
    <3>1. call'[c] = [r EXCEPT !.pc = "count", !.filter.at = 0]
      BY <1>0, <2>4
    <3> QED BY <2>1, <3>1 DEF Feeding
  <2> QED BY <1>1, <2>2, <2>3, <2>4
<1> QED BY <1>2, <1>3, <1>4, <1>6, <1>7 DEF Reply

\* The inductive invariant of the feeds, together with Requests and Dates.
Feeds == \A c \in Callers : FeedOK(c)

\* A page of the caller extends its feed; whatever another caller does can only
\* take rows out of view.
LEMMA FeedsNext ==
  ASSUME Requests, Dates, Feeds, [Next]_vars
  PROVE  Feeds'
<1>1. CASE UNCHANGED vars
  BY <1>1 DEF vars, Feeds, FeedOK, GotOK
<1>2. CASE Next
  <2>1. PICK c \in Callers : \/ \E x \in repo.work[c].contexts : Begin(c, x)
                             \/ Reply(c) \/ EndFeed(c) \/ Fail(c)
    BY <1>2 DEF Next
  <2>2. PICK r : Serves(c, r)
    BY <1>2, <2>1, BeginServes, ReplyServes DEF Next
  <2>3. \A b \in Callers \ {c} : call'[b] = call[b]
    BY <2>2 DEF Serves, Become, Requests
  <2>4. \A b \in Callers : Feeding(call'[b]) =>
          LET now == Rows(docs', call'[b].x, call'[b].field) IN
          steady'[b] = IF call[b].pc = "idle" THEN now ELSE steady[b] \cap now
    BY <1>2 DEF Next, Track, Feeding
  <2>5. ASSUME NEW b \in Callers \ {c}, Feeding(call'[b]) PROVE GotOK(call'[b], steady'[b])
    <3>1. call'[b] = call[b] /\ steady'[b] \subseteq steady[b]
      BY <2>3, <2>4, <2>5 DEF Feeding
    <3>2. GotOK(call[b], steady[b])
      BY <2>5, <3>1 DEF Feeds, FeedOK, Feeding
    <3> QED BY <3>1, <3>2, GotShrinks
  <2>6. ASSUME Feeding(call'[c]) PROVE GotOK(call'[c], steady'[c])
    <3>0. ASSUME NEW q, Become(c, q) PROVE call'[c] = q
      BY <3>0 DEF Become, Requests
    <3>1. CASE FeedNext(c)
      <4>. DEFINE s == call[c]
      <4>1. s.pc = "feed" /\ GotOK(s, steady[c]) /\ FeedPage(c, s) /\ docs' = docs
        BY <3>1 DEF FeedNext, Feeds, FeedOK
      <4>. HIDE DEF s
      <4>2. PICK q : /\ Become(c, q) /\ q.x = s.x /\ q.field = s.field
                     /\ \A W : W \subseteq Rows(docs, s.x, s.field) /\ W \subseteq steady[c]
                                => GotOK(q, W)
        BY <4>1, FeedPageFeeds
      <4>3. call'[c] = q
        BY <3>0, <4>2
      <4>4. steady'[c] \subseteq Rows(docs, s.x, s.field) /\ steady'[c] \subseteq steady[c]
        BY <2>4, <2>6, <4>1, <4>2, <4>3 DEF s
      <4> QED BY <4>2, <4>3, <4>4
    <3>2. ASSUME NEW x, NEW field, NEW desc, BeginFeed(c, x, field, desc)
          PROVE  GotOK(call'[c], steady'[c])
      <4>. DEFINE s == [pc |-> "feed", x |-> x, field |-> field, desc |-> desc,
                        token |-> <<>>, got |-> <<>>]
      <4>1. call[c].pc = "idle" /\ docs' = docs /\ (FeedPage(c, s) \/ \E res : Return(c, res))
        BY <3>2 DEF BeginFeed, Ready
      <4>2. ~\E res : Return(c, res)
        BY <2>6, <3>0 DEF Return, Idle, Feeding
      <4>3. GotOK(s, {}) /\ s.pc = "feed" /\ s.token = <<>> /\ s.x = x /\ s.field = field
        <5>1. /\ DOMAIN s = FeedFields /\ s.got = <<>> /\ s.token = <<>> /\ s.pc = "feed"
              /\ s.x = x /\ s.field = field
          BY DEF FeedFields
        <5>. HIDE DEF s
        <5>2. <<>> \in Seq(IDs \X Int) /\ DOMAIN <<>> = {}
          OBVIOUS
        <5> QED BY <5>1, <5>2 DEF GotOK
      <4>. HIDE DEF s
      <4>4. PICK q : /\ Become(c, q) /\ q.x = x /\ q.field = field
                     /\ \A W : W \subseteq Rows(docs, x, field) => GotOK(q, W)
        BY <4>1, <4>2, <4>3, FeedPageFeeds
      <4>5. call'[c] = q
        BY <3>0, <4>4
      <4>6. steady'[c] = Rows(docs, x, field)
        BY <2>4, <2>6, <4>1, <4>4, <4>5
      <4> QED BY <4>4, <4>5, <4>6
    <3> QED BY <2>1, <2>6, <3>1, <3>2, OtherBegins, OtherReplies
  <2>7. \A b \in Callers : Feeding(call'[b]) => GotOK(call'[b], steady'[b])
    BY <2>5, <2>6
  <2> QED BY <2>7 DEF Feeds, FeedOK, Feeding, GotOK, Behind
<1> QED BY <1>1, <1>2

\* Dates is inductive.
LEMMA DatesNext ==
  ASSUME Requests, Dates, [Next]_vars
  PROVE  Dates'
<1>1. CASE UNCHANGED vars
  BY <1>1 DEF vars, Dates
<1>2. CASE Next
  BY <1>2, BeginDates, ReplyDates DEF Next
<1> QED BY <1>1, <1>2

\* No feed runs at first.
LEMMA FeedsInit ==
  ASSUME Init
  PROVE  Dates /\ Feeds
<1>1. \A c \in Callers : call[c].pc = "idle"
  BY DEF Init, Idle
<1>2. \A i \in IDs : Dated(docs[i])
  <2>1. \A a \in Owners : HasDate(Existing(a))
    BY DEF HasDate, Existing, Doc
  <2> QED BY <2>1 DEF Init, Dated
<1>3. \A c \in Callers : DOMAIN mem[c] = IDs /\ \A i \in IDs : Dated(mem[c][i])
  BY DEF Init, Dated
<1> QED BY <1>1, <1>2, <1>3 DEF Init, Dates, Feeds, FeedOK

\* At the end a row with a value of its own was returned once.
LEMMA GotOnce ==
  ASSUME NEW r, NEW S, GotOK(r, S), r.pc = "fed", NEW p \in S, p[2] # 0,
         \A q \in Range(r.got) : q[2] = p[2] => q[1] = p[1]
  PROVE  Cardinality({k \in DOMAIN r.got : r.got[k] = p}) = 1
<1>. DEFINE g == r.got
<1>1. g \in Seq(IDs \X Int)
  BY DEF GotOK
<1>2. PICK k \in DOMAIN g : g[k][2] = p[2]
  BY DEF GotOK
<1>3. g[k] \in IDs \X Int /\ p \in IDs \X Int
  BY <1>1, <1>2 DEF GotOK
<1>4. g[k][1] = p[1]
  BY <1>2 DEF Range
<1>5. g[k] = p
  BY <1>2, <1>3, <1>4
<1>6. {j \in DOMAIN g : g[j] = p} = {k}
  BY <1>2, <1>5 DEF GotOK
<1> QED BY <1>6, FS_Singleton

\* FeedComplete for every set of callers and ids, every page size and resolution
\* of the clock: when the tokens of FeedQuery (mongox.go:293) have been followed
\* to the end, every row that was in view throughout and has a cursor value was
\* returned exactly once, unless a row with the same value was returned.
THEOREM FeedsComplete == Spec => []FeedComplete
<1>1. Init => Requests /\ Dates /\ Feeds
  BY RequestsInit, FeedsInit
<1>2. Requests /\ Dates /\ Feeds /\ [Next]_vars => (Requests /\ Dates /\ Feeds)'
  BY RequestsNext, DatesNext, FeedsNext
<1>3. Feeds => FeedComplete
  BY GotOnce DEF Feeds, FeedOK, FeedComplete
<1> QED BY <1>1, <1>2, <1>3, PTL DEF Spec
=============================================================================
