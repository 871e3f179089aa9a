----------------------------- MODULE MongoMutex -----------------------------
(***************************************************************************)
(* The MongoDB mutex of dkit/mongo/mutex.go: several Mutex instances bound *)
(* to one key, that is, to one document.                                   *)
(*                                                                         *)
(* Acquiring is a read, a decision by the clock of the client, and a write *)
(* that the server executes later; other instances act in between.  A      *)
(* write the client gave up may still be executed.  The driver executes a  *)
(* write at most once, so there are no repeated writes.                    *)
(*                                                                         *)
(* One unit of time is the millisecond of a BSON date: two expiry times    *)
(* computed in the same unit are equal.                                    *)
(***************************************************************************)
EXTENDS Integers, FiniteSets

CONSTANTS Mutexes,      \* the Mutex instances bound to the key
          Identities,   \* the reentrant identities callers use
          NoIdentity,   \* the empty identity
          NoOwner,      \* the owner of no document
          TTLs,         \* the lease durations callers ask for
          Skew,         \* how far the clock of an instance is ahead of the server's
          MaxSkew,      \* bound on the skew
          Grace,        \* expireAfterSeconds of the TTL index
          MaxTime,      \* bound on the clock
          Settings      \* what callers do and what may happen

ASSUME OwnerAssumption ==
  /\ Mutexes \cap Identities = {}
  /\ NoOwner \notin Mutexes \cup Identities
  /\ NoIdentity \notin Identities
ASSUME TimeAssumption ==
  /\ TTLs \subseteq Nat \ {0}
  /\ MaxSkew \in Nat
  /\ Skew \in [Mutexes -> 0 .. MaxSkew]
  /\ Grace \in Nat
  /\ MaxTime \in Nat
ASSUME SettingAssumption ==
  Settings \subseteq [identities : SUBSET Identities,  \* the identities in use
                      sameInstant : BOOLEAN,           \* may two leases expire in one unit?
                      maxLate : Nat]                   \* bound on abandoned writes

VARIABLES setting,      \* the setting of this behaviour; it never changes
          now,          \* the server's clock
          doc,          \* the document of the key
          late,         \* abandoned writes that may still be executed
          lockDetail,   \* Mutex.lockDetail
          frame,        \* the running method: its options and locals
          claim         \* reported as acquired, not adopted, not yet unlocked

vars == <<setting, now, doc, late, lockDetail, frame, claim>>

\* The logical holder: the identity if there is one, else the instance.
Owners == Mutexes \cup Identities
OwnerOf(m, o) == IF o.identity = NoIdentity THEN m ELSE o.identity

NoDoc == [expires |-> 0, identity |-> NoIdentity, owner |-> NoOwner]
Doc == [expires : Nat, identity : Identities \cup {NoIdentity}, owner : Owners \cup {NoOwner}]
Options == [identity : Identities \cup {NoIdentity}, ttl : TTLs]
NoOpt == [identity |-> NoIdentity, ttl |-> 0]

\* A write: new is the document it makes, old the expiry time its filter names.
Write(op, old, new) == [op |-> op, old |-> old, new |-> new]
NoWrite == Write("none", 0, NoDoc)
Idle == [call |-> "none", opt |-> NoOpt, pc |-> "idle", seen |-> NoDoc,
         write |-> NoWrite, reply |-> "wait"]

Init == /\ setting \in Settings
        /\ now = 0
        /\ doc = NoDoc
        /\ late = {}
        /\ lockDetail = [m \in Mutexes |-> NoDoc]
        /\ frame = [m \in Mutexes |-> Idle]
        /\ claim = [m \in Mutexes |-> FALSE]

Clock(m) == now + Skew[m]

-----------------------------------------------------------------------------
(* The server: InsertOne fails on a duplicate _id, UpdateOne and DeleteOne *)
(* act on the document only if it still has the expiry time of the filter. *)

\* Faulty: the update filters by key only.
ApplyBlindUpdate(d, w) ==
  CASE w.op = "insert" -> IF d = NoDoc THEN w.new ELSE d
    [] w.op = "update" -> IF d # NoDoc THEN w.new ELSE d
    [] w.op = "delete" -> IF d # NoDoc /\ d.expires = w.old THEN NoDoc ELSE d

\* Faulty: the deletion filters by key only.
ApplyBlindDelete(d, w) ==
  CASE w.op = "insert" -> IF d = NoDoc THEN w.new ELSE d
    [] w.op = "update" -> IF d # NoDoc /\ d.expires = w.old THEN w.new ELSE d
    [] w.op = "delete" -> NoDoc

\* Faulty: an upsert instead of an insert.
ApplyUpsert(d, w) ==
  CASE w.op = "insert" -> w.new
    [] w.op = "update" -> IF d # NoDoc /\ d.expires = w.old THEN w.new ELSE d
    [] w.op = "delete" -> IF d # NoDoc /\ d.expires = w.old THEN NoDoc ELSE d

Apply(d, w) ==
  CASE w.op = "insert" -> IF d = NoDoc THEN w.new ELSE d
    [] w.op = "update" -> IF d # NoDoc /\ d.expires = w.old THEN w.new ELSE d
    [] w.op = "delete" -> IF d # NoDoc /\ d.expires = w.old THEN NoDoc ELSE d

ExecWrite(m) ==
  /\ frame[m].pc = "write"
  /\ frame[m].reply = "wait"
  /\ doc' = Apply(doc, frame[m].write)
  /\ frame' = [frame EXCEPT ![m].reply = IF doc' = doc THEN "no" ELSE "ok"]
  /\ UNCHANGED <<setting, now, late, lockDetail, claim>>

\* FindOne, as the server executes it.
ExecFind(m) ==
  /\ frame[m].pc = "find"
  /\ frame' = [frame EXCEPT ![m].pc = "found", ![m].seen = doc]
  /\ UNCHANGED <<setting, now, doc, late, lockDetail, claim>>

-----------------------------------------------------------------------------
(* Lock and TryLock.                                                       *)

\* Faulty: the write of the call outlives it.
ReturnKeepingWrite(m) == frame' = [frame EXCEPT ![m].call = "none", ![m].pc = "idle"]

Return(m) == frame' = [frame EXCEPT ![m] = Idle]

NotAcquired(m) ==
  \/ /\ frame[m].call = "TryLock"
     /\ Return(m)
  \/ /\ frame[m].call = "Lock"
     /\ frame' = [frame EXCEPT ![m] = [Idle EXCEPT !.call = "Lock", !.opt = frame[m].opt,
                                                   !.pc = "spin"]]

Acquired(m, d, mine) ==
  /\ lockDetail' = [lockDetail EXCEPT ![m] = d]
  /\ claim' = [claim EXCEPT ![m] = mine]
  /\ Return(m)

\* An instance that has a lock detail reports success without a read, and
\* nothing changes.
BeginLock(m, c, o) ==
  /\ o.identity \in setting.identities \cup {NoIdentity}
  /\ frame[m].call = "none"
  /\ lockDetail[m] = NoDoc
  /\ frame' = [frame EXCEPT ![m] = [Idle EXCEPT !.call = c, !.opt = o, !.pc = "find"]]
  /\ UNCHANGED <<setting, now, doc, late, lockDetail, claim>>

\* The expiry times that somebody may still compare with the document's.
ExpiriesInUse ==
  {doc.expires}
    \cup (UNION {{lockDetail[m].expires, frame[m].seen.expires} : m \in Mutexes})
    \cup (UNION {{w.old, w.new.expires} : w \in late \cup {frame[m].write : m \in Mutexes}})

\* The document is missing, or expired by the clock of the client: write a new
\* lease whose expiry time is computed now.
SendWrite(m) ==
  LET f == frame[m]
      exp == Clock(m) + f.opt.ttl
      new == [expires |-> exp, identity |-> f.opt.identity, owner |-> OwnerOf(m, f.opt)]
  IN  /\ f.pc = "found"
      /\ f.seen = NoDoc \/ f.seen.expires < Clock(m)
      /\ setting.sameInstant \/ exp \notin ExpiriesInUse
      /\ frame' = [frame EXCEPT
                     ![m].pc = "write", ![m].seen = NoDoc,
                     ![m].write = IF f.seen = NoDoc THEN Write("insert", 0, new)
                                  ELSE Write("update", f.seen.expires, new)]
      /\ UNCHANGED <<setting, now, doc, late, lockDetail, claim>>

\* The lease is alive: the same identity joins it, anybody else has to wait.
FoundLive(m) ==
  LET f == frame[m]
  IN  /\ f.pc = "found"
      /\ f.seen # NoDoc
      /\ f.seen.expires >= Clock(m)
      /\ \/ /\ f.opt.identity # NoIdentity
            /\ f.seen.identity = f.opt.identity
            /\ Acquired(m, f.seen, FALSE)
         \/ /\ f.opt.identity = NoIdentity \/ f.seen.identity # f.opt.identity
            /\ NotAcquired(m)
            /\ UNCHANGED <<lockDetail, claim>>
      /\ UNCHANGED <<setting, now, doc, late>>

\* The reply to the insert or the update: a duplicate key or a modified count
\* of zero means that somebody else was faster.
LockReply(m) ==
  LET f == frame[m]
  IN  /\ f.pc = "write"
      /\ f.call \in {"TryLock", "Lock"}
      /\ \/ /\ f.reply = "ok"
            /\ Acquired(m, f.write.new, TRUE)
         \/ /\ f.reply = "no"
            /\ NotAcquired(m)
            /\ UNCHANGED <<lockDetail, claim>>
      /\ UNCHANGED <<setting, now, doc, late>>

SpinTick(m) ==
  /\ frame[m].pc = "spin"
  /\ frame' = [frame EXCEPT ![m].pc = "find"]
  /\ UNCHANGED <<setting, now, doc, late, lockDetail, claim>>

\* MaxWaitTime is over or the context of Lock is done.
GiveUp(m) ==
  /\ frame[m].pc = "spin"
  /\ Return(m)
  /\ UNCHANGED <<setting, now, doc, late, lockDetail, claim>>

-----------------------------------------------------------------------------
(* Unlock.                                                                 *)

\* The caller gives up its claim the moment it calls Unlock.  Without a lock
\* detail the call returns ErrAlreadyUnlocked, and nothing changes.
BeginUnlock(m) ==
  /\ frame[m].call = "none"
  /\ lockDetail[m] # NoDoc
  /\ frame' = [frame EXCEPT ![m] = [Idle EXCEPT !.call = "Unlock", !.pc = "write",
                 !.write = Write("delete", lockDetail[m].expires, lockDetail[m])]]
  /\ claim' = [claim EXCEPT ![m] = FALSE]
  /\ UNCHANGED <<setting, now, doc, late, lockDetail>>

UnlockReply(m) ==
  /\ frame[m].call = "Unlock"
  /\ \/ /\ frame[m].reply = "ok"
        /\ lockDetail' = [lockDetail EXCEPT ![m] = NoDoc]
        /\ Return(m)
     \/ /\ frame[m].reply = "no"
        /\ UNCHANGED lockDetail
        /\ Return(m)
  /\ UNCHANGED <<setting, now, doc, late, claim>>

-----------------------------------------------------------------------------
(* Failures and time.                                                      *)

Abandon(m) ==
  \/ UNCHANGED late
  \/ /\ frame[m].pc = "write"
     /\ frame[m].reply = "wait"
     /\ Cardinality(late \cup {frame[m].write}) <= setting.maxLate
     /\ late' = late \cup {frame[m].write}

\* The operation m waits for ends with an error, which every method returns.
Fail(m) ==
  /\ frame[m].pc \in {"find", "found", "write"}
  /\ Abandon(m)
  /\ Return(m)
  /\ UNCHANGED <<setting, now, doc, lockDetail, claim>>

\* The process of m ends, and NewMutex makes a new instance for the key.
Restart(m) ==
  /\ Abandon(m)
  /\ Return(m)
  /\ lockDetail' = [lockDetail EXCEPT ![m] = NoDoc]
  /\ claim' = [claim EXCEPT ![m] = FALSE]
  /\ UNCHANGED <<setting, now, doc>>

LateWrite(w) ==
  /\ w \in late
  /\ late' = late \ {w}
  /\ doc' \in {doc, Apply(doc, w)}
  /\ UNCHANGED <<setting, now, lockDetail, frame, claim>>

\* The TTL index removes a document some time after it expired.
TTLMonitor ==
  /\ doc # NoDoc
  /\ doc.expires + Grace < now
  /\ doc' = NoDoc
  /\ UNCHANGED <<setting, now, late, lockDetail, frame, claim>>

Tick ==
  /\ now < MaxTime
  /\ now' = now + 1
  /\ UNCHANGED <<setting, doc, late, lockDetail, frame, claim>>

Next ==
  \/ \E m \in Mutexes :
       \/ SendWrite(m) \/ FoundLive(m) \/ LockReply(m)
       \/ SpinTick(m) \/ GiveUp(m) \/ BeginUnlock(m) \/ UnlockReply(m)
       \/ ExecFind(m) \/ ExecWrite(m) \/ Fail(m) \/ Restart(m)
       \/ \E c \in {"TryLock", "Lock"}, o \in Options : BeginLock(m, c, o)
  \/ \E w \in late : LateWrite(w)
  \/ TTLMonitor
  \/ Tick

Spec == Init /\ [][Next]_vars

-----------------------------------------------------------------------------
(* Properties.                                                             *)

WriteType == [op : {"none", "insert", "update", "delete"}, old : Nat, new : Doc]

\* The variables have their types, and a write waits with a write to execute.
TypeOK ==
  /\ setting \in Settings
  /\ now \in Nat
  /\ doc \in Doc
  /\ late \subseteq WriteType
  /\ lockDetail \in [Mutexes -> Doc]
  /\ frame \in [Mutexes -> [call : {"none", "TryLock", "Lock", "Unlock"},
                            opt : Options \cup {NoOpt},
                            pc : {"idle", "find", "found", "write", "spin"},
                            seen : Doc, write : WriteType, reply : {"wait", "ok", "no"}]]
  /\ claim \in [Mutexes -> BOOLEAN]
  /\ \A m \in Mutexes : (frame[m].pc = "write") <=> (frame[m].write.op # "none")

\* The instance acquired the lease itself, has not unlocked it, and its lease
\* is not over by its own clock, with a margin for the skew of other clocks.
Holds(m) == claim[m] /\ Clock(m) + MaxSkew <= lockDetail[m].expires

\* Two instances that lock without a reentrant identity are never both inside
\* their lease, although acquiring is a read and a later write, and although
\* clocks differ by up to MaxSkew.
MutualExclusion ==
  \A m, n \in Mutexes :
    /\ Holds(m) /\ Holds(n)
    /\ lockDetail[m].identity = NoIdentity
    /\ lockDetail[n].identity = NoIdentity
    => m = n

\* Such a holder inside its lease owns the document: neither a takeover decided
\* on a stale read, nor a write executed late, nor the TTL index, nor the
\* Unlock of a former holder removes or replaces it.
LeaseBacked ==
  \A m \in Mutexes :
    Holds(m) /\ lockDetail[m].identity = NoIdentity => doc = lockDetail[m]

\* "Unlock releases the lock owned by this mutex instance": the document that
\* the deletion of an Unlock removes is the one this instance acquired.
UnlockRemovesOwn ==
  [][\A m \in Mutexes :
       frame[m].call = "Unlock" /\ frame[m].reply = "wait" /\ frame'[m].reply = "ok"
         => doc.owner = lockDetail[m].owner]_vars

\* The time the lease has left for certain, whatever clock looks at it.
TimeLeft == doc.expires - MaxSkew - now

ReleaseAsked == {w.new.owner : w \in {x \in late : x.op = "delete"}}
                  \cup {frame[m].write.new.owner : m \in {n \in Mutexes : frame[n].call = "Unlock"}}

LL == INSTANCE LeaseLock WITH
        Durations <- UNION {1 .. d + 1 : d \in TTLs},
        lease <- IF doc # NoDoc /\ TimeLeft >= 0
                 THEN [value |-> doc.owner, ttl |-> TimeLeft + 1]
                 ELSE [value |-> NoOwner, ttl |-> 0],
        asked <- ReleaseAsked

\* The document, as long as no clock considers it expired, behaves as the
\* abstract lease lock that the Redis mutex implements too.
ImplementsLeaseLock == LL!Spec
=============================================================================
