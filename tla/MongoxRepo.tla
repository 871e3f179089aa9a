----------------------------- MODULE MongoxRepo -----------------------------
(***************************************************************************)
(* model/mongox: a MongoDB collection behind CollectionLib.  Callers read  *)
(* entities into memory, change them and write them back; the update time  *)
(* read with an entity is its optimistic lock.  Every call on the server   *)
(* is a step of its own, so the calls of two callers interleave between    *)
(* the audit of the entity, the write and the count after a write that     *)
(* matched nothing; a call may fail before the server executes it, or its  *)
(* reply may be lost.                                                      *)
(*                                                                         *)
(* Abstractions: the payload of an entity is the number of the edit that   *)
(* wrote it; a missing time is 0; the resource names in errors and the     *)
(* reflection over struct tags are left out.  Find, Count and PageQuery    *)
(* only read.  The entities keep their times as time.Time (CreateAudit,    *)
(* UpdateAudit, DeleteAudit): PatchRaw and BatchDeleteByFilter would store *)
(* a date over the milliseconds of the Ms variants.                        *)
(***************************************************************************)
EXTENDS Integers, Sequences, FiniteSets, SequencesExt

CONSTANTS Callers,      \* goroutines with entities of their own
          IDs,          \* document ids, naturals above 0
          Names,        \* names of users, tenants and apps
          None,         \* a name that is missing
          NoDoc,        \* no document, no entity
          Repos,        \* collection helpers, and what their callers do
          Owners,       \* who may have created documents before
          PageSize,     \* page size of the feed queries
          PerInstant,   \* operations that fall into one millisecond
          MaxOps        \* bound on the stamped operations, the creation included

ASSUME RepoAssumption ==
    /\ IDs \subseteq Nat \ {0} /\ IsFiniteSet(IDs)
    /\ None \notin Names /\ Owners \subseteq Names \cup {None}
    /\ PageSize \in Nat \ {0} /\ PerInstant \in Nat \ {0} /\ MaxOps \in Nat

Levels == {"user", "tenant", "app"}
Options == {"isolation", "soft", "fix"}

\* The interface of an entity that carries the field an isolation level uses.
Carrier == [user |-> "create", tenant |-> "tenant", app |-> "tenant"]

\* What a call finds in its context: identities, and options of the repository.
ASSUME ContextAssumption ==
    \A r \in Repos : \A c \in Callers :
       /\ r.work[c].ids \subseteq IDs
       /\ \A x \in r.work[c].contexts :
             x.who \in [Levels -> Names \cup {None}] /\ DOMAIN x.opt = Options

VARIABLES docs,     \* the collection, by id
          mem,      \* the entities each caller holds
          seen,     \* the stored document each held entity was read from or written as
          call,     \* what each caller is doing
          ops,      \* stamped operations so far
          repo,     \* what T carries, the options, and the work of the callers
          steady    \* rows a running feed has had in view since it began

vars == <<docs, mem, seen, call, ops, repo, steady>>

\* A document or entity: its own fields as one value, then those of the audits.
Doc(val, created, updated, deleted, of) ==
    [val |-> val, created |-> created, updated |-> updated, deleted |-> deleted, of |-> of]

\* timex.Now of the k-th stamped operation, at the resolution MongoDB stores.
Instant(k) == 1 + ((k - 1) \div PerInstant)

Idle == [pc |-> "idle"]
Results == {"ok", "conflict", "notfound", "invalid", "error"}

\* An entity the caller has built instead of read.
Blank(k) == Doc(k, 0, 0, 0, [l \in Levels |-> None])

\* Documents may have been created before, by any name.
Existing(a) ==
    Doc(1, IF "create" \in repo.carries THEN 1 ELSE 0, IF "update" \in repo.carries THEN 1 ELSE 0,
        0, [l \in Levels |-> IF Carrier[l] \in repo.carries THEN a ELSE None])

Init ==
    /\ repo \in Repos
    /\ docs \in [IDs -> {NoDoc} \cup {Existing(a) : a \in Owners}]
    /\ mem = [c \in Callers |-> [i \in IDs |-> NoDoc]]
    /\ seen = [c \in Callers |-> [i \in IDs |-> NoDoc]]
    /\ call = [c \in Callers |-> Idle]
    /\ ops = 1
    /\ steady = [c \in Callers |-> {}]

-----------------------------------------------------------------------------
(* Options, isolation and audit                                            *)

Carries(what) == what \in repo.carries

CtxMergeRepoOpt(x) ==
    [o \in Options |-> IF x.opt[o] = "" THEN repo.opt[o] ELSE x.opt[o]]

SoftDelete(x) == Carries("delete") /\ CtxMergeRepoOpt(x).soft # "disable"

Isolated(x) ==
    LET l == CtxMergeRepoOpt(x).isolation IN l \in Levels /\ Carries(Carrier[l])

\* injectCond as the documents it lets through, and the contexts it accepts.
Visible(x, d) ==
    /\ Isolated(x) => LET l == CtxMergeRepoOpt(x).isolation IN d.of[l] = x.who[l]
    /\ SoftDelete(x) => d.deleted = 0

CondOK(x) == Isolated(x) => x.who[CtxMergeRepoOpt(x).isolation] # None

CreateAuditOK(x) ==
    /\ Carries("create") \/ Carries("update") => x.who["user"] # None
    /\ Carries("tenant") => x.who["tenant"] # None /\ x.who["app"] # None

CtxUpdateAudit(e, t) == IF Carries("update") THEN [e EXCEPT !.updated = t] ELSE e

\* CtxCreateAudit asks for the identities in this order and ends with the first
\* that is missing.
Asked == <<"user", "tenant", "app">>
Reached(x, l) ==
    \E n \in 1 .. 3 : /\ Asked[n] = l
                      /\ \A k \in 1 .. n : Carries(Carrier[Asked[k]]) => x.who[Asked[k]] # None

\* What it has set by then, which stays on the entity if it fails.
CreateFilled(e, x, t) ==
    [e EXCEPT
        !.created = IF Carries("create") /\ Reached(x, "user") THEN t ELSE @,
        !.of = [l \in Levels |-> IF Carries(Carrier[l]) /\ Reached(x, l) THEN x.who[l] ELSE @[l]]]

CtxCreateAudit(e, x, t) == CtxUpdateAudit(CreateFilled(e, x, t), t)

UpdateAuditOK(x) == Carries("update") => x.who["user"] # None

\* A filter without the update time, and one without the injected conditions.
FaultyUnlocked(e) == [at |-> 0, cond |-> TRUE]
FaultyUnscoped(e) == [at |-> IF Carries("update") THEN e.updated ELSE 0, cond |-> FALSE]

\* The filter of baseUpdateOp: the original update time, and injectCond.
BaseFilter(e) == [at |-> IF Carries("update") THEN e.updated ELSE 0, cond |-> TRUE]
IdFilter == [at |-> 0, cond |-> FALSE]

Matches(f, x, d) ==
    /\ d # NoDoc
    /\ f.at # 0 => d.updated = f.at
    /\ f.cond => Visible(x, d)

-----------------------------------------------------------------------------
(* Helpers of the actions                                                  *)

Ready(c) == call[c].pc = "idle"
Become(c, r) == call' = [call EXCEPT ![c] = r]
\* The call ends with result res; the caller may do anything after any result.
Return(c, res) == res \in Results /\ Become(c, Idle)
Hold(c, i, e) == mem' = [mem EXCEPT ![c][i] = e]
\* The server has stored d, or removed it, on behalf of caller c.
Store(c, i, d) ==
    /\ docs' = [docs EXCEPT ![i] = d]
    /\ seen' = [seen EXCEPT ![c][i] = d]
Stamp(k) == ops + k <= MaxOps /\ ops' = ops + k
NoWrite == UNCHANGED <<docs, seen>>

\* The entity a caller passes: the one it holds, or one it builds.
Entity(c, i) == IF mem[c][i] = NoDoc THEN Blank(0) ELSE mem[c][i]

-----------------------------------------------------------------------------
(* Reading one document                                                    *)

\* With FixedStrategyBackoff a document that is not found is asked for three times.
FindOne(c, x, i, tries) ==
    /\ IF docs[i] # NoDoc /\ Visible(x, docs[i])
       THEN /\ Return(c, "ok")
            /\ Hold(c, i, docs[i])
            /\ seen' = [seen EXCEPT ![c][i] = docs[i]]
       ELSE /\ IF CtxMergeRepoOpt(x).fix = "backoff" /\ tries < 3
               THEN Become(c, [pc |-> "get", id |-> i, x |-> x, tries |-> tries])
               ELSE Return(c, "notfound")
            /\ UNCHANGED <<mem, seen>>
    /\ UNCHANGED <<docs, ops>>

Get(c, x, i) ==
    /\ Ready(c)
    /\ IF CondOK(x) THEN FindOne(c, x, i, 1)
                    ELSE Return(c, "invalid") /\ UNCHANGED <<docs, mem, seen, ops>>

GetAgain(c) ==
    /\ call[c].pc = "get"
    /\ FindOne(c, call[c].x, call[c].id, call[c].tries + 1)

-----------------------------------------------------------------------------
(* Create and BatchCreate: the entities ids, in this order.  An audit that *)
(* fails does so on the first.                                             *)

Create(c, x, ids) ==
    /\ Ready(c)
    /\ IF CreateAuditOK(x)
       THEN /\ Stamp(1)
            /\ mem' = [mem EXCEPT ![c] = [i \in IDs |->
                  IF i \in Range(ids)
                  THEN CtxCreateAudit([Entity(c, i) EXCEPT !.val = ops'], x, Instant(ops'))
                  ELSE @[i]]]
            /\ Become(c, [pc |-> "insert", ids |-> ids])
       ELSE /\ Hold(c, ids[1], CreateFilled(Entity(c, ids[1]), x, Instant(ops + 1)))
            /\ Return(c, "invalid") /\ UNCHANGED ops
    /\ NoWrite

\* InsertMany is ordered: it stops at the first id that exists and keeps the
\* documents before it.
Inserted(ids) ==
    {k \in DOMAIN ids : \A j \in 1 .. k : docs[ids[j]] = NoDoc}

InsertReply(c, reply) ==
    LET r == call[c]
        new == {r.ids[k] : k \in Inserted(r.ids)}
        Put(f) == [i \in IDs |-> IF i \in new THEN mem[c][i] ELSE f[i]]
    IN  /\ r.pc = "insert"
        /\ docs' = Put(docs)
        /\ seen' = [seen EXCEPT ![c] = Put(@)]
        /\ Return(c, IF ~reply THEN "error"
                     ELSE IF new = Range(r.ids) THEN "ok" ELSE "conflict")
        /\ UNCHANGED <<mem, ops>>

-----------------------------------------------------------------------------
(* Update, Upsert, soft Delete and BatchUpdate: one replacement by id      *)

\* auditAndBuildReplaceFilter: an upsert of an entity without creation time
\* creates, and goes by the id alone.
Creates(kind, e) == kind = "upsert" /\ Carries("create") /\ e.created = 0

Audited(kind, e, x, t) ==
    IF Creates(kind, e) THEN CtxCreateAudit(e, x, t) ELSE CtxUpdateAudit(e, t)

\* The entity after an audit that failed.
HalfAudited(kind, e, x, t) == IF Creates(kind, e) THEN CreateFilled(e, x, t) ELSE e

AuditOK(kind, e, x) == IF Creates(kind, e) THEN CreateAuditOK(x) ELSE UpdateAuditOK(x)

ReplaceFilter(kind, e) == IF Creates(kind, e) THEN IdFilter ELSE BaseFilter(e)

\* The caller has changed the payload of an entity before it writes it back.
Edited(e) == [e EXCEPT !.val = ops + 1]

\* Audit of entity e, ids[1], and the request that goes to the server.  The
\* audit stays on the entity even when the condition cannot be built, and so
\* does what a failing one has set: the next upsert then goes by baseUpdateOp.
SendReplace(c, x, kind, e, ids) ==
    /\ IF AuditOK(kind, e, x)
       THEN /\ Stamp(1)
            /\ Hold(c, ids[1], Audited(kind, IF kind = "delete" THEN e ELSE Edited(e),
                                       x, Instant(ops')))
            /\ IF Creates(kind, e) \/ CondOK(x)
               THEN Become(c, [pc |-> "replace", ids |-> ids, x |-> x,
                               kind |-> IF Creates(kind, e) THEN "create" ELSE kind,
                               orig |-> e.updated,
                               filter |-> ReplaceFilter(kind, e)])
               ELSE Return(c, "invalid")
       ELSE /\ Hold(c, ids[1], HalfAudited(kind, e, x, Instant(ops + 1)))
            /\ Return(c, "invalid") /\ UNCHANGED ops
    /\ NoWrite

Update(c, x, ids) ==
    /\ Ready(c)
    /\ SendReplace(c, x, "update", Entity(c, ids[1]), ids)

Upsert(c, x, i) ==
    /\ Ready(c)
    /\ SendReplace(c, x, "upsert", Entity(c, i), <<i>>)

DeleteAuditOK(x) == Carries("delete") => x.who["user"] # None
CtxDeleteAudit(e) ==
    IF Carries("delete") THEN [e EXCEPT !.deleted = Instant(ops + 1)] ELSE e

Delete(c, x, i) ==
    /\ Ready(c)
    /\ IF ~DeleteAuditOK(x)
       THEN Return(c, "invalid") /\ UNCHANGED <<docs, mem, seen, ops>>
       ELSE IF SoftDelete(x)
       THEN SendReplace(c, x, "delete", CtxDeleteAudit(Entity(c, i)), <<i>>)
       ELSE /\ Stamp(1)
            /\ Hold(c, i, CtxDeleteAudit(Entity(c, i)))
            /\ IF CondOK(x) THEN Become(c, [pc |-> "remove", id |-> i, x |-> x])
                            ELSE Return(c, "invalid")
            /\ NoWrite

\* The next entity of a BatchUpdate, or the end of the call.
Proceed(c, r) ==
    IF Len(r.ids) = 1
    THEN Return(c, "ok") /\ UNCHANGED <<mem, ops>>
    ELSE LET rest == Tail(r.ids)
             e == Entity(c, rest[1])
         IN  /\ Stamp(1)
             /\ Hold(c, rest[1], CtxUpdateAudit(Edited(e), Instant(ops')))
             /\ Become(c, [r EXCEPT !.ids = rest, !.orig = e.updated, !.filter = BaseFilter(e)])

ReplaceReply(c, reply) ==
    LET r == call[c]
        i == r.ids[1]
        e == mem[c][i]
        upsert == r.kind \in {"create", "upsert"}
        matched == Matches(r.filter, r.x, docs[i])
        written == matched \/ (upsert /\ docs[i] = NoDoc)
        modified == docs[i] # e
    IN  /\ r.pc = "replace"
        /\ IF written THEN Store(c, i, e) ELSE NoWrite
        /\ IF reply /\ written /\ (r.filter.at # 0 => modified)
           THEN Proceed(c, r)
           ELSE /\ IF ~reply THEN Return(c, "error")
                   ELSE IF written \/ upsert
                   THEN Return(c, "conflict")
                   ELSE Become(c, [r EXCEPT !.pc = "count", !.filter.at = 0])
                /\ UNCHANGED <<mem, ops>>

\* CountDocuments tells a conflict from a missing document.
CountReply(c) ==
    LET r == call[c] IN
    /\ r.pc = "count"
    /\ Return(c, IF Matches(r.filter, r.x, docs[r.ids[1]]) THEN "conflict" ELSE "notfound")
    /\ UNCHANGED <<docs, mem, seen, ops>>

-----------------------------------------------------------------------------
(* Patch and PatchRaw                                                      *)

\* BuildPatchPayload takes the fields that are not zero; a time.Time has no
\* exported field and is left out.
Patched(d, e, t) ==
    CtxUpdateAudit([d EXCEPT !.val = e.val,
        !.of = [l \in Levels |-> IF e.of[l] # None THEN e.of[l] ELSE d.of[l]]], t)

\* The entity is stamped by the audit and the payload once more by PatchRaw.
Patch(c, x, i) ==
    LET e == Edited(Entity(c, i)) IN
    /\ Ready(c)
    /\ IF UpdateAuditOK(x)
       THEN /\ Stamp(2)
            /\ Hold(c, i, CtxUpdateAudit(e, Instant(ops + 1)))
            /\ IF CondOK(x)
               THEN Become(c, [pc |-> "patch", id |-> i, x |-> x, filter |-> BaseFilter(e),
                               payload |-> e, at |-> Instant(ops')])
               ELSE Return(c, "invalid")
       ELSE Return(c, "invalid") /\ UNCHANGED <<mem, ops>>
    /\ NoWrite

\* PatchRaw for a filter by id, for which UpdateMany is UpdateOne; what it sets
\* and unsets is the payload of the document.
PatchRaw(c, x, i) ==
    /\ Ready(c)
    /\ IF UpdateAuditOK(x) /\ CondOK(x)
       THEN /\ Stamp(1)
            /\ Become(c, [pc |-> "patch", id |-> i, x |-> x, filter |-> [at |-> 0, cond |-> TRUE],
                          payload |-> Blank(ops'), at |-> Instant(ops')])
       ELSE Return(c, "invalid") /\ UNCHANGED ops
    /\ UNCHANGED <<docs, mem, seen>>

PatchReply(c, reply) ==
    LET r == call[c]
        d == docs[r.id]
        matched == Matches(r.filter, r.x, d)
        new == Patched(d, r.payload, r.at)
    IN  /\ r.pc = "patch"
        /\ IF matched THEN Store(c, r.id, new) ELSE NoWrite
        /\ Return(c, IF ~reply THEN "error"
                     ELSE IF ~matched THEN "notfound"
                     ELSE IF r.filter.at # 0 /\ new = d THEN "conflict" ELSE "ok")
        /\ UNCHANGED <<mem, ops>>

-----------------------------------------------------------------------------
(* Hard deletion, and deletion in bulk                                     *)

RemoveReply(c, reply) ==
    LET r == call[c]
        matched == Matches([at |-> 0, cond |-> TRUE], r.x, docs[r.id])
    IN  /\ r.pc = "remove"
        /\ IF matched THEN Store(c, r.id, NoDoc) ELSE NoWrite
        /\ Return(c, IF ~reply THEN "error" ELSE IF matched THEN "ok" ELSE "notfound")
        /\ UNCHANGED <<mem, ops>>

BatchDelete(c, x, ids) ==
    /\ Ready(c)
    /\ IF ids = {} THEN Return(c, "ok") /\ UNCHANGED ops
       ELSE IF CondOK(x) /\ (SoftDelete(x) => x.who["user"] # None)
       THEN /\ Stamp(1)
            /\ Become(c, [pc |-> "bulk", ids |-> ids, x |-> x, at |-> Instant(ops'), hits |-> 0])
       ELSE Return(c, "invalid") /\ UNCHANGED ops
    /\ UNCHANGED <<docs, mem, seen>>

\* UpdateMany and DeleteMany visit the documents one by one.  The update time
\* of a document that is deleted this way stays as it is.
BulkVisit(c, i) ==
    LET r == call[c]
        matched == Matches([at |-> 0, cond |-> TRUE], r.x, docs[i])
    IN  /\ r.pc = "bulk" /\ i \in r.ids
        /\ IF matched
           THEN Store(c, i, IF SoftDelete(r.x) THEN [docs[i] EXCEPT !.deleted = r.at] ELSE NoDoc)
           ELSE NoWrite
        /\ Become(c, [r EXCEPT !.ids = @ \ {i}, !.hits = IF matched THEN @ + 1 ELSE @])
        /\ UNCHANGED <<mem, ops>>

BulkReply(c) ==
    /\ call[c].pc = "bulk" /\ call[c].ids = {}
    /\ Return(c, IF call[c].hits = 0 THEN "notfound" ELSE "ok")
    /\ UNCHANGED <<docs, mem, seen, ops>>

-----------------------------------------------------------------------------
(* FeedQuery: a caller follows the page tokens to the end                  *)

\* The value of the cursor field; a document without the field has none (0).
CursorValue(field, i, d) == IF field = "created_at" THEN d.created ELSE i

Rows(D, x, field) ==
    {<<i, CursorValue(field, i, D[i])>> : i \in {j \in IDs : D[j] # NoDoc /\ Visible(x, D[j])}}

\* A page that begins at the value of the last row instead of after it.
FaultyToken(v, token, desc) ==
    token # <<>> => v # 0 /\ IF desc THEN v <= token[1] ELSE v >= token[1]

\* buildFeedCursorFilter: a row without the field never passes it.
AfterToken(v, token, desc) ==
    token # <<>> => v # 0 /\ IF desc THEN v < token[1] ELSE v > token[1]

First(s, k) == SubSeq(s, 1, IF Len(s) < k THEN Len(s) ELSE k)

\* The rows after the token, in the order of the feed; Find sorts by the cursor
\* field alone and returns rows with the same value in any order.
SortedRows(r) ==
    {rows \in SetToSeqs({p \in Rows(docs, r.x, r.field) : AfterToken(p[2], r.token, r.desc)}) :
        \A i, j \in DOMAIN rows :
           i < j => IF r.desc THEN rows[i][2] >= rows[j][2] ELSE rows[i][2] <= rows[j][2]}

FeedPage(c, r) ==
    \E rows \in SortedRows(r) :
       LET limited == First(rows, PageSize + 1)
           page == First(limited, PageSize)
           got == r.got \o page
       IN  IF Len(limited) > PageSize
           THEN Become(c, [r EXCEPT !.token = <<page[PageSize][2]>>, !.got = got])
           ELSE Become(c, [r EXCEPT !.pc = "fed", !.got = got])

BeginFeed(c, x, field, desc) ==
    /\ Ready(c)
    /\ IF CondOK(x)
       THEN FeedPage(c, [pc |-> "feed", x |-> x, field |-> field, desc |-> desc,
                         token |-> <<>>, got |-> <<>>])
       ELSE Return(c, "invalid")
    /\ UNCHANGED <<docs, mem, seen, ops>>

FeedNext(c) ==
    /\ call[c].pc = "feed"
    /\ FeedPage(c, call[c])
    /\ UNCHANGED <<docs, mem, seen, ops>>

EndFeed(c) ==
    /\ call[c].pc = "fed"
    /\ Return(c, "ok")
    /\ UNCHANGED <<docs, mem, seen, ops>>

-----------------------------------------------------------------------------
\* The server is not reached, or the context ends before it answers.
Fail(c) ==
    /\ call[c].pc \notin {"idle", "fed"}
    /\ Return(c, "error")
    /\ UNCHANGED <<docs, mem, seen, ops>>

\* One entity, or a batch of two.
Lists(S) == {<<i>> : i \in S} \cup {s \in S \X S : s[1] # s[2]}

May(c, op) == op \in repo.work[c].ops

Begin(c, x) ==
    \/ \E i \in repo.work[c].ids :
          \/ May(c, "get") /\ Get(c, x, i)
          \/ May(c, "upsert") /\ Upsert(c, x, i)
          \/ May(c, "delete") /\ Delete(c, x, i)
          \/ May(c, "patch") /\ (Patch(c, x, i) \/ PatchRaw(c, x, i))
    \/ \E ids \in Lists(repo.work[c].ids) :
          \/ May(c, "create") /\ Create(c, x, ids)
          \/ May(c, "update") /\ Update(c, x, ids)
    \/ \E ids \in SUBSET repo.work[c].ids : May(c, "bulk") /\ BatchDelete(c, x, ids)
    \/ \E f \in repo.work[c].feeds : BeginFeed(c, x, f.field, f.desc)

Reply(c) ==
    \/ GetAgain(c) \/ CountReply(c) \/ BulkReply(c) \/ FeedNext(c)
    \/ \E reply \in BOOLEAN : \/ InsertReply(c, reply) \/ ReplaceReply(c, reply)
                              \/ PatchReply(c, reply) \/ RemoveReply(c, reply)
    \/ \E i \in IDs : BulkVisit(c, i)

\* What a running feed could have read at every moment since it began.
Track ==
    steady' = [c \in Callers |->
        IF call'[c].pc \notin {"feed", "fed"} THEN {}
        ELSE LET now == Rows(docs', call'[c].x, call'[c].field) IN
             IF call[c].pc = "idle" THEN now ELSE steady[c] \cap now]

Next ==
    /\ \E c \in Callers :
          \/ \E x \in repo.work[c].contexts : Begin(c, x)
          \/ Reply(c) \/ EndFeed(c) \/ Fail(c)
    /\ repo' = repo
    /\ Track

Spec == Init /\ [][Next]_vars
-----------------------------------------------------------------------------
(* Properties                                                              *)

\* The step is one of caller c's request at the server.
Executes(c) == call[c].pc \in {"insert", "replace", "patch", "remove", "bulk"} /\ call'[c] # call[c]

\* Caller c writes back an entity that has an update time.
WritesBack(c) ==
    \/ call[c].pc = "replace" /\ call[c].kind # "create" /\ call[c].orig # 0
    \/ call[c].pc = "patch" /\ call[c].payload.updated # 0

\* Optimistic lock (commonReplace, PatchRaw): an entity with an update time
\* overwrites only the document its caller has read, or has written itself,
\* whatever failed attempts, lost replies and calls of others came between.  A
\* deletion in bulk leaves the update time alone: a caller that turned soft
\* deletion off overwrites that one unseen.  Stated for stamps that differ
\* (PerInstant = 1).
NoLostUpdate ==
    [][\A c \in Callers : Executes(c) /\ WritesBack(c) =>
          \A i \in IDs :
             docs[i] # NoDoc /\ docs'[i] # docs[i] =>
                \/ docs[i] = seen[c][i]
                \/ ~SoftDelete(call[c].x) /\ [docs[i] EXCEPT !.deleted = 0] = seen[c][i]]_vars

\* Isolation and soft deletion (injectCond): no call changes a document that its
\* context may not see, another tenant's or one marked deleted, even with an
\* entity that was read before the deletion or in another context.  Only an
\* upsert that creates goes by the id alone.
OutOfReach ==
    [][\A c \in Callers : Executes(c) /\ call[c].pc # "insert" =>
          \A i \in IDs : docs[i] # NoDoc /\ docs'[i] # docs[i] =>
             \/ Visible(call[c].x, docs[i])
             \/ call[c].pc = "replace" /\ call[c].kind = "create"]_vars

\* FeedQuery: when the pages have been followed to the end, every row that was
\* in view all the time, and has the cursor field, was returned exactly once,
\* whatever was inserted, changed and deleted between the pages, unless another
\* row with the same value was returned (the next page begins after that value).
FeedComplete ==
    \A c \in Callers : call[c].pc = "fed" =>
       LET got == call[c].got IN
       \A p \in steady[c] :
          (p[2] # 0 /\ \A q \in Range(got) : q[2] = p[2] => q[1] = p[1]) =>
             Cardinality({k \in DOMAIN got : got[k] = p}) = 1
=============================================================================
