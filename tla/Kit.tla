-------------------------------- MODULE Kit ----------------------------------
(***************************************************************************)
(* dkit.Kit: the machine number a process claims from the shared backend   *)
(* when its kit is created, the IDs it makes with that number, and the     *)
(* helpers that run an action under a distributed mutex (dkit/dkit.go,     *)
(* redis/random.go, mongo/random.go).                                      *)
(*                                                                         *)
(* The backend is Redis or MongoDB; a claim is the time it ends.  The      *)
(* mutex is what LeaseLock promises of one key: RedisMutex and MongoMutex  *)
(* show that both backends keep that promise.                              *)
(***************************************************************************)
EXTENDS Integers, FiniteSets

CONSTANTS
    Procs,        \* processes, each with a kit
    Numbers,      \* machine numbers: [0, max)
    None,         \* no claim, no number, no lock
    Lease,        \* randomLeaseTTL, and the minute of the MongoDB claim
    TTL,          \* GetMutexDefaultTTL
    Timeouts,     \* how long contexts given to the helpers last
    Unit,         \* clock ticks in one unit of sonyflake's time (10 ms)
    PerUnit,      \* sonyflake's sequence numbers in one such unit
    MaxTime, MaxRestarts, MaxIDs, MaxCalls   \* bounds

ASSUME KitAssumption ==
    /\ {Lease, TTL, Unit, PerUnit} \subseteq Nat \ {0}
    /\ {MaxTime, MaxRestarts, MaxIDs, MaxCalls} \subseteq Nat
    /\ Timeouts \subseteq Nat /\ None \notin Int \cup Numbers \cup {"ok", "error", "busy"}
    /\ \A t \in Procs \X (1..MaxCalls), u \in 0..(MaxTime + TTL) :
         None # [token |-> t, until |-> u] /\ None # t

VARIABLES
    now,
    backend,   \* "redis" or "mongo"
    claims,    \* number -> when its claim ends, or None
    kit,       \* each process's kit: its claim, its ID generator
    issued,    \* the IDs handed out, by whom, and how long the claim lasted
    lock,      \* the lease of the mutex: its token and when it ends, or None
    help       \* what each process's lock helper is doing

kitVars == <<backend, claims, kit, issued>>
lockVars == <<lock, help>>
vars == <<now, kitVars, lockVars>>

NoKit(life) == [pc |-> "none", life |-> life, left |-> {}, num |-> None, found |-> None,
                until |-> 0, time |-> -1, seq |-> 0]

Init ==
    /\ now = 0
    /\ backend \in {"redis", "mongo"}
    /\ claims = [n \in Numbers |-> None]
    /\ kit = [p \in Procs |-> NoKit(1)]
    /\ issued = {}
    /\ lock = None
    /\ help = [p \in Procs |-> [pc |-> "idle", calls |-> 0, waits |-> FALSE, short |-> TRUE,
                                deadline |-> 0, result |-> None]]

Become(p, new) == kit' = [kit EXCEPT ![p] = new]
Same == UNCHANGED <<now, backend, issued, lockVars>>

------------------------------------------------------------------------------
(***************************************************************************)
(* GetUniqueRandomNumber: the numbers in a random order.  A call that      *)
(* fails, its context's end included, leaves the process without a kit.    *)
(***************************************************************************)
NewDefaultKit(p) ==
    /\ kit[p].pc = "none"
    /\ Become(p, [kit[p] EXCEPT !.pc = "try", !.left = Numbers, !.until = now + Lease])
    /\ Same /\ UNCHANGED claims

Failed(p) == [NoKit(kit[p].life) EXCEPT !.pc = "failed"]

(* The number is the process's from here on; until is when the claim ends. *)
Claimed(p, n, until) ==
    [NoKit(kit[p].life) EXCEPT !.pc = "ready", !.num = n, !.until = until]

NextNumber(p, n) == [kit[p] EXCEPT !.pc = "try", !.left = @ \ {n}, !.num = None, !.found = None]

(* A write that claims the number: its answer may be lost, and then the    *)
(* claim stays behind without an owner.                                    *)
Claim(p, n, until) ==
    /\ claims' = [claims EXCEPT ![n] = until]
    /\ Become(p, Claimed(p, n, until)) \/ Become(p, Failed(p))

(* An error of the backend, the context's end, or no number left.          *)
GiveUp(p) ==
    kit[p].pc \in {"try", "insert", "update"} /\ Become(p, Failed(p)) /\ Same /\ UNCHANGED claims

(* Redis: SET NX with the lease, which starts when the server executes it. *)
TryRedis(p) ==
    /\ backend = "redis" /\ kit[p].pc = "try" /\ Same
    /\ \E n \in kit[p].left :
         \/ claims[n] = None /\ Claim(p, n, now + Lease)
         \/ claims[n] # None /\ Become(p, NextNumber(p, n)) /\ UNCHANGED claims

(* Mutant: a claim counts as ended while its last instant runs.            *)
FaultyExpired(until) == until <= now + 1

(* Expires.Before(time.Now()).                                             *)
Expired(until) == until < now

(* MongoDB: a number without document is inserted, one whose document has  *)
(* expired is taken over, both with the expiry computed before the loop.   *)
Find(p) ==
    /\ backend = "mongo" /\ kit[p].pc = "try" /\ Same /\ UNCHANGED claims
    /\ \E n \in kit[p].left :
         CASE claims[n] = None -> Become(p, [kit[p] EXCEPT !.pc = "insert", !.num = n])
           [] claims[n] # None /\ Expired(claims[n]) ->
                Become(p, [kit[p] EXCEPT !.pc = "update", !.num = n, !.found = claims[n]])
           [] OTHER -> Become(p, NextNumber(p, n))

Insert(p) ==
    LET n == kit[p].num IN
    /\ kit[p].pc = "insert" /\ Same
    /\ \/ claims[n] = None /\ Claim(p, n, kit[p].until)
       \/ claims[n] # None /\ Become(p, NextNumber(p, n)) /\ UNCHANGED claims

(* Mutant: the document is taken over whatever became of it since.         *)
FaultyFound(p) == claims[kit[p].num] # None

(* The filter of the takeover: the document as it was found.               *)
AsFound(p) == claims[kit[p].num] = kit[p].found

Update(p) ==
    LET n == kit[p].num
        modified == AsFound(p) /\ kit[p].until # claims[n]
    IN  /\ kit[p].pc = "update" /\ Same
        /\ \/ modified /\ Claim(p, n, kit[p].until)
           \/ ~modified /\ Become(p, NextNumber(p, n)) /\ UNCHANGED claims

(* MongoDB's TTL index removes an expired document some time later.        *)
Purge(n) ==
    /\ backend = "mongo" /\ claims[n] # None /\ claims[n] <= now
    /\ claims' = [claims EXCEPT ![n] = None] /\ Same /\ UNCHANGED kit

Restarts == Cardinality({q \in Procs : kit[q].life > 1})

(* A process ends and starts again; its claim stays.                       *)
Restart(p) ==
    /\ kit[p].pc = "ready" /\ Restarts < MaxRestarts
    /\ kit[p].life = 1
    /\ Become(p, NoKit(kit[p].life + 1)) /\ Same /\ UNCHANGED claims

(* sonyflake counts time in units of 10 ms; claims end at any instant.     *)
UnitOf(t) == t \div Unit
UnitEnd(t) == (UnitOf(t) + 1) * Unit

(* nextID: sonyflake's next sequence number of this unit of time, or the   *)
(* first of a later one; a full unit is slept out.  The claim is not       *)
(* looked at again.  covered records that it lasts until the unit is over. *)
NextID(p) ==
    LET k == kit[p]
        unit == UnitOf(now)
        seq == IF k.time < unit THEN 0 ELSE k.seq + 1
    IN  /\ k.pc = "ready" /\ Cardinality(issued) < MaxIDs /\ seq < PerUnit
        /\ Become(p, [k EXCEPT !.time = unit, !.seq = seq])
        /\ issued' = issued \cup {[id |-> <<unit, seq, k.num>>, by |-> <<p, k.life>>,
                                   covered |-> UnitEnd(now) <= k.until]}
        /\ UNCHANGED <<now, backend, claims, lockVars>>

------------------------------------------------------------------------------
(***************************************************************************)
(* MutexDo, MutexTryDo and their variants with a context.  Each call makes *)
(* a mutex of its own, so its token is its own too; one context bounds the *)
(* lock, the action and the unlock, the caller's or one of DefaultTimeout. *)
(* short says that it was not given longer than a lease.                   *)
(***************************************************************************)
Token(p) == <<p, help[p].calls>>
Helping(p, new) == help' = [help EXCEPT ![p] = new] /\ UNCHANGED <<now, kitVars>>
Over(p, result) == [help[p] EXCEPT !.pc = "done", !.result = result]

(* Mutant: the calls are made with a background context.                   *)
FaultyBackground(p) == FALSE

CtxDone(p) == now >= help[p].deadline

(* Mutant: the helper's own context outlasts the lease.                    *)
FaultyDefault == TTL + 1

(* The context of MutexDo and MutexTryDo.                                  *)
DefaultTimeout == TTL

MutexDo(p) ==
    /\ help[p].pc \in {"idle", "done"} /\ help[p].calls < MaxCalls
    /\ \E given \in Timeouts \cup {None}, waits \in BOOLEAN :
         LET t == IF given = None THEN DefaultTimeout ELSE given IN
         /\ now + t <= MaxTime
         /\ Helping(p, [pc |-> "lock", calls |-> help[p].calls + 1, waits |-> waits,
                        short |-> given = None \/ given <= TTL, deadline |-> now + t,
                        result |-> None])
    /\ UNCHANGED lock

(* TryLock, or one round of Lock: an error, a lost answer included, is     *)
(* returned; a lock that is held ends TryLock and lets Lock wait.          *)
Acquire(p) ==
    /\ help[p].pc = "lock"
    /\ \/ Helping(p, Over(p, "error")) /\ UNCHANGED lock
       \/ /\ lock = None /\ ~CtxDone(p)
          /\ lock' = [token |-> Token(p), until |-> now + TTL]
          /\ Helping(p, [help[p] EXCEPT !.pc = "action"]) \/ Helping(p, Over(p, "error"))
       \/ lock # None /\ ~help[p].waits /\ Helping(p, Over(p, "busy")) /\ UNCHANGED lock

(* The action returns, with or without an error, or panics.                *)
EndAction(p) ==
    /\ help[p].pc = "action"
    /\ \E result \in {"ok", "error"} :
         Helping(p, [help[p] EXCEPT !.pc = "unlock", !.result = result])
    /\ UNCHANGED lock

(* Mutant: an error of Unlock is dropped.                                  *)
FaultyUnlockError(p) == help[p].result

(* An error of Unlock becomes the error of the helper.                     *)
UnlockError(p) == "error"

(* Mutant: the key is deleted whoever holds it.                            *)
FaultyOwn(p) == lock # None

(* Unlock releases the lease of its own token only.                        *)
Own(p) == lock # None /\ lock.token = Token(p)

(* The deferred Unlock, with the same context: it fails when that is over  *)
(* or the answer is lost, and when the lease is no longer the helper's.    *)
Unlock(p) ==
    /\ help[p].pc = "unlock"
    /\ \/ Helping(p, Over(p, UnlockError(p))) /\ UNCHANGED lock
       \/ Own(p) /\ ~CtxDone(p) /\ Helping(p, Over(p, UnlockError(p))) /\ lock' = None
       \/ Own(p) /\ ~CtxDone(p) /\ Helping(p, Over(p, help[p].result)) /\ lock' = None

------------------------------------------------------------------------------
(* Time passes: Redis claims and the lease end on time.                    *)
Tick ==
    /\ now < MaxTime /\ now' = now + 1
    /\ claims' = [n \in Numbers |->
           IF backend = "redis" /\ claims[n] # None /\ claims[n] <= now + 1 THEN None ELSE claims[n]]
    /\ lock' = IF lock # None /\ lock.until <= now + 1 THEN None ELSE lock
    /\ UNCHANGED <<backend, kit, issued, help>>

Numbering(p) ==
    \/ NewDefaultKit(p) \/ GiveUp(p) \/ TryRedis(p) \/ Find(p) \/ Insert(p) \/ Update(p)
    \/ Restart(p) \/ NextID(p)

Next ==
    \/ Tick
    \/ \E n \in Numbers : Purge(n)
    \/ \E p \in Procs : Numbering(p) \/ MutexDo(p) \/ Acquire(p) \/ EndAction(p) \/ Unlock(p)

(* Time passes, a call to the lock is answered by the end of its context,  *)
(* actions end.                                                            *)
Fairness ==
    /\ WF_vars(Tick)
    /\ \A p \in Procs : WF_vars((CtxDone(p) /\ Acquire(p)) \/ EndAction(p) \/ Unlock(p))

Spec == Init /\ [][Next]_vars /\ Fairness

------------------------------------------------------------------------------
(***************************************************************************)
(* Properties.                                                             *)
(***************************************************************************)
(* No two processes hold one machine number while the claims of both last, *)
(* whatever they read before, took over or lost the answer to (random.go   *)
(* GetUniqueRandomNumber).                                                 *)
ClaimsExclusive ==
    \A p, q \in Procs :
        /\ p # q /\ kit[p].pc = "ready" /\ kit[q].pc = "ready"
        /\ now < kit[p].until /\ now < kit[q].until
        => kit[p].num # kit[q].num

(* IDs whose claim lasts to the end of the unit of time they were made in  *)
(* are unique across processes and restarts, although one number is used   *)
(* by several lives, one after the other (dkit.go nextID).                 *)
IDsUnique ==
    \A x, y \in issued : x.covered /\ y.covered /\ x.id = y.id => x.by = y.by

(* dkit.go:80, "IDGenerator generates globally unique IDs": no two lives   *)
(* of processes ever make the same ID.                                     *)
IDsGloballyUnique == \A x, y \in issued : x.id = y.id => x.by = y.by

(* Two actions whose contexts still run, and were not given longer than a  *)
(* lease, are never under way together: the context begins before the      *)
(* lease and so ends before it (dkit.go MutexDo, MutexTryDo).              *)
Within(p) == help[p].pc = "action" /\ help[p].short /\ now < help[p].deadline

ActionsExclusive == \A p, q \in Procs : Within(p) /\ Within(q) => p = q

(* A helper that returns without an error has released its lease; with one *)
(* the lease may stay, for its own time at most (the deferred Unlock).     *)
NilMeansReleased ==
    \A p \in Procs :
        help[p].pc = "done" /\ help[p].result = "ok" => lock = None \/ lock.token # Token(p)

(* The helpers use the mutex within its contract.                          *)
Contract == INSTANCE LeaseLock WITH
    Owners <- Procs \X (1..MaxCalls), NoOwner <- None, Durations <- {TTL},
    lease <- IF lock = None THEN [value |-> None, ttl |-> 0]
             ELSE [value |-> lock.token, ttl |-> lock.until - now],
    asked <- {Token(p) : p \in {q \in Procs : help[q].pc = "unlock"}}

KeepsLeaseLock == Contract!Spec

(* A helper returns once its action has, even while another process holds  *)
(* the lock and never lets go (the context bounds MutexDo's Lock).         *)
HelperReturns == \A p \in Procs : help[p].pc = "lock" ~> help[p].pc = "done"
==============================================================================
