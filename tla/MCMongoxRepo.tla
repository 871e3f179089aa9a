---- MODULE MCMongoxRepo ----
(* The instance of MongoxRepo that TLC checks. *)
EXTENDS MongoxRepo

CONSTANTS c1, c2, A, B

Unset == [o \in Options |-> ""]
As(n) == [who |-> [l \in Levels |-> n], opt |-> Unset]

\* A context with an operator and no tenant, and one that turns soft deletion off.
UserOnly == [As(A) EXCEPT !.who["tenant"] = None]
Unsoft(n) == [As(n) EXCEPT !.opt["soft"] = "disable"]

Idler == [ids |-> {}, ops |-> {}, contexts |-> {}, feeds |-> {}]
Writer(calls, ctxs) == [Idler EXCEPT !.ids = {1}, !.ops = calls, !.contexts = ctxs]

\* Two callers on one document.
Pair(ctxs) ==
    c1 :> Writer({"get", "update", "delete", "patch"}, {As(A)}) @@
    c2 :> Writer({"get", "update", "upsert", "create", "bulk"}, ctxs)

\* Batches over two documents while the feed is read.
Feed ==
    c1 :> [Writer({"create", "update", "bulk"}, {As(A)}) EXCEPT !.ids = {1, 2}] @@
    c2 :> [Idler EXCEPT !.contexts = {As(A)},
             !.feeds = {[field |-> "_id", desc |-> TRUE], [field |-> "created_at", desc |-> FALSE]}]

\* Calls that are refused, and calls without soft deletion.
Refused ==
    c1 :> Writer({"get", "update", "delete", "patch"}, {As(None), UserOnly, Unsoft(A)}) @@
    c2 :> [Writer({"upsert", "bulk", "create"}, {As(None), UserOnly, Unsoft(B)})
             EXCEPT !.feeds = {[field |-> "_id", desc |-> FALSE]}]

All == {"create", "update", "delete", "tenant"}
Isolation == [Unset EXCEPT !["isolation"] = "tenant"]
Backoff == [Unset EXCEPT !["fix"] = "backoff"]

MCRepos ==
    {[carries |-> All, opt |-> Isolation, work |-> Pair({As(A), Unsoft(B)})],
     [carries |-> All \ {"tenant"}, opt |-> Backoff, work |-> Pair({Unsoft(B)})],
     [carries |-> All, opt |-> Isolation, work |-> Feed],
     [carries |-> All, opt |-> Isolation, work |-> Refused]}
====
