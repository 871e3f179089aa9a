----------------------------- MODULE RedisMutex -----------------------------
(***************************************************************************)
(* The Redis mutex of dkit/redis/mutex.go: several Mutex instances, in one *)
(* or several processes, bound to the same key.                            *)
(*                                                                         *)
(* Every Redis command is three steps: it is sent, the server executes it, *)
(* the client reads the reply.  The client may give up at any point in     *)
(* between (context deadline, connection error); a command that was sent   *)
(* and not yet executed may then be lost, or still reach the server later. *)
(* The client library may also repeat a command whose reply it lost.       *)
(*                                                                         *)
(* Time is relative: the record and every acquisition carry the time they  *)
(* have left, and Tick lets one unit of it pass.                           *)
(***************************************************************************)
EXTENDS Integers, FiniteSets

CONSTANTS Mutexes,      \* the Mutex instances bound to the key
          Tokens,       \* the values nextLockValue can produce
          Identities,   \* the reentrant identities callers use
          NoValue,      \* the empty string: no lock value, no identity
          TTLs,         \* the lease durations callers ask for
          MaxLate,      \* bound on the abandoned commands still under way
          Coincide      \* two processes may draw the same lock value

ASSUME ValueAssumption ==
  /\ Tokens \cap Identities = {}
  /\ NoValue \notin Tokens \cup Identities
ASSUME TTLAssumption == TTLs \subseteq Nat \ {0}
ASSUME MaxLateAssumption == MaxLate \in Nat
ASSUME CoincideAssumption == Coincide \in BOOLEAN

VARIABLES record,       \* the key on the server: its value, its time left
          late,         \* abandoned commands that may still be executed
          lockValue,    \* Mutex.lockValue
          call,         \* the method that holds Mutex.mu, if any
          opt,          \* the LockOption of that call
          pc,           \* the command it waits for, or its place in Lock
          arg,          \* the local variable lockValue of tryLock
          reply,        \* the reply of the server
          lease,        \* the time left of the claim counted by the client
          result        \* what the last call returned, none while one runs

client == <<lockValue, call, opt, pc, arg, reply, lease, result>>
vars == <<record, late, lockValue, call, opt, pc, arg, reply, lease, result>>

Values == Tokens \cup Identities
NoRecord == [value |-> NoValue, ttl |-> 0]
NoOpt == [identity |-> NoValue, ttl |-> 0]
Command == [op : {"SetNX"}, value : Values, ttl : TTLs]
             \cup [op : {"Del"}, value : Values, ttl : {0}]

Init == /\ record = NoRecord
        /\ late = {}
        /\ lockValue = [m \in Mutexes |-> NoValue]
        /\ call = [m \in Mutexes |-> "none"]
        /\ opt = [m \in Mutexes |-> NoOpt]
        /\ pc = [m \in Mutexes |-> "idle"]
        /\ arg = [m \in Mutexes |-> NoValue]
        /\ reply = [m \in Mutexes |-> "wait"]
        /\ lease = [m \in Mutexes |-> 0]
        /\ result = [m \in Mutexes |-> "none"]

-----------------------------------------------------------------------------
(* The server.  A key whose time is over is gone for every command.        *)

\* Faulty: SET without NX.
SetAnyway(r, v, d) == [value |-> v, ttl |-> d]

SetNX(r, v, d) == IF r = NoRecord THEN [value |-> v, ttl |-> d] ELSE r

\* Faulty: DEL without comparing the value.
DelAnyway(r, v) == NoRecord

\* deleteIfValueScript
DelIfValue(r, v) == IF r.value = v THEN NoRecord ELSE r

Elapse(r) == IF r.ttl > 1 THEN [r EXCEPT !.ttl = @ - 1] ELSE NoRecord

-----------------------------------------------------------------------------
(* Helpers of the client's steps.                                          *)

\* nextLockValue formats the clock in nanoseconds and a counter that starts at
\* 1 in every process.  A process never repeats a value, and values drawn at
\* different times differ; one that occurs nowhere in the state stands for any
\* of them.  Two processes that draw in the same nanosecond with equal counters
\* get one value: Coincide lets m draw what another instance has just drawn.
JustDrawn(n) == pc[n] = "setnx" /\ reply[n] = "wait" /\ lease[n] = opt[n].ttl

Fresh(m, t) ==
  /\ t # record.value
  /\ \A n \in Mutexes : lockValue[n] # t
  /\ \A n \in Mutexes : arg[n] = t => Coincide /\ n # m /\ JustDrawn(n)
  /\ \A c \in late : c.value # t

\* tryLock up to and including the sending of SETNX.
SendSetNX(m, o) ==
  \E v \in IF o.identity = NoValue THEN {t \in Tokens : Fresh(m, t)} ELSE {o.identity} :
     /\ arg' = [arg EXCEPT ![m] = v]
     /\ opt' = [opt EXCEPT ![m] = o]
     /\ pc' = [pc EXCEPT ![m] = "setnx"]
     /\ reply' = [reply EXCEPT ![m] = "wait"]
     /\ lease' = [lease EXCEPT ![m] = o.ttl]

\* A method returns: m.mu is released and its locals are gone.
Return(m, r) ==
  /\ call' = [call EXCEPT ![m] = "none"]
  /\ opt' = [opt EXCEPT ![m] = NoOpt]
  /\ pc' = [pc EXCEPT ![m] = "idle"]
  /\ arg' = [arg EXCEPT ![m] = NoValue]
  /\ reply' = [reply EXCEPT ![m] = "wait"]
  /\ result' = [result EXCEPT ![m] = r]

\* tryLock returned without error and without the lock: TryLock answers
\* false, Lock waits for its ticker.
NotAcquired(m) ==
  /\ lease' = [lease EXCEPT ![m] = 0]
  /\ \/ /\ call[m] = "TryLock"
        /\ Return(m, "refused")
     \/ /\ call[m] = "Lock"
        /\ pc' = [pc EXCEPT ![m] = "spin"]
        /\ arg' = [arg EXCEPT ![m] = NoValue]
        /\ reply' = [reply EXCEPT ![m] = "wait"]
        /\ UNCHANGED <<call, opt, result>>

\* The command m waits for, as the server will see it.
Sent(m) == IF pc[m] = "setnx" THEN {[op |-> "SetNX", value |-> arg[m], ttl |-> opt[m].ttl]}
           ELSE IF pc[m] = "eval" THEN {[op |-> "Del", value |-> lockValue[m], ttl |-> 0]}
           ELSE {}

\* The client stops waiting.  What it sent was executed, or is lost, or is
\* still on its way to the server.
Abandon(m) ==
  \/ UNCHANGED late
  \/ /\ reply[m] = "wait"
     /\ Cardinality(late \cup Sent(m)) <= MaxLate
     /\ late' = late \cup Sent(m)

-----------------------------------------------------------------------------
(* Lock and TryLock.                                                       *)

Options == [identity : Identities \cup {NoValue}, ttl : TTLs]

\* Lock or TryLock on an instance that has a lock value: tryLock returns at
\* once, without asking the server, and the call reports success.
AlreadyLocked(m) ==
  /\ call[m] = "none"
  /\ lockValue[m] # NoValue
  /\ result' = [result EXCEPT ![m] = "acquired"]
  /\ UNCHANGED <<record, late, lockValue, call, opt, pc, arg, reply, lease>>

\* Faulty: tryLock does not look at the lock value it has.
BeginLockAgain(m, c, o) ==
  /\ call[m] = "none"
  /\ call' = [call EXCEPT ![m] = c]
  /\ result' = [result EXCEPT ![m] = "none"]
  /\ SendSetNX(m, o)
  /\ UNCHANGED <<record, late, lockValue>>

BeginLock(m, c, o) ==
  /\ call[m] = "none"
  /\ lockValue[m] = NoValue
  /\ call' = [call EXCEPT ![m] = c]
  /\ result' = [result EXCEPT ![m] = "none"]
  /\ SendSetNX(m, o)
  /\ UNCHANGED <<record, late, lockValue>>

\* The server executes SETNX.
ExecSetNX(m) ==
  /\ pc[m] = "setnx"
  /\ reply[m] = "wait"
  /\ record' = SetNX(record, arg[m], opt[m].ttl)
  /\ reply' = [reply EXCEPT ![m] = IF record = NoRecord THEN "ok" ELSE "no"]
  /\ UNCHANGED <<late, lockValue, call, opt, pc, arg, lease, result>>

SetNXOk(m) ==
  /\ pc[m] = "setnx"
  /\ reply[m] = "ok"
  /\ lockValue' = [lockValue EXCEPT ![m] = arg[m]]
  /\ Return(m, "acquired")
  /\ UNCHANGED <<record, late, lease>>

\* The key exists: without an identity the attempt is over, with one tryLock
\* asks who the holder is.
SetNXNo(m) ==
  /\ pc[m] = "setnx"
  /\ reply[m] = "no"
  /\ \/ /\ opt[m].identity = NoValue
        /\ NotAcquired(m)
     \/ /\ opt[m].identity # NoValue
        /\ pc' = [pc EXCEPT ![m] = "get"]
        /\ reply' = [reply EXCEPT ![m] = "wait"]
        /\ UNCHANGED <<call, opt, arg, lease, result>>
  /\ UNCHANGED <<record, late, lockValue>>

ExecGet(m) ==
  /\ pc[m] = "get"
  /\ reply[m] = "wait"
  /\ reply' = [reply EXCEPT ![m] = record.value]
  /\ UNCHANGED <<record, late, lockValue, call, opt, pc, arg, lease, result>>

\* The same identity holds the key: the instance joins it.  The lease is not
\* renewed, so the client knows nothing of the time it has left.
GetReply(m) ==
  /\ pc[m] = "get"
  /\ reply[m] # "wait"
  /\ \/ /\ reply[m] = opt[m].identity
        /\ lockValue' = [lockValue EXCEPT ![m] = opt[m].identity]
        /\ lease' = [lease EXCEPT ![m] = 0]
        /\ Return(m, "acquired")
     \/ /\ reply[m] # opt[m].identity
        /\ NotAcquired(m)
        /\ UNCHANGED lockValue
  /\ UNCHANGED <<record, late>>

\* Faulty: the ticker of Lock fires and tryLock is not called again.
SpinTickIdle(m) == pc[m] = "spin" /\ UNCHANGED vars

\* The ticker of Lock fires: tryLock again, with a new value.
SpinTick(m) ==
  /\ pc[m] = "spin"
  /\ SendSetNX(m, opt[m])
  /\ UNCHANGED <<record, late, lockValue, call, result>>

\* MaxWaitTime is over or the context of Lock is done.
GiveUp(m) ==
  /\ pc[m] = "spin"
  /\ Return(m, "gaveUp")
  /\ UNCHANGED <<record, late, lockValue, lease>>

-----------------------------------------------------------------------------
(* Unlock.                                                                 *)

\* The caller gives up its claim the moment it calls Unlock.
BeginUnlock(m) ==
  /\ call[m] = "none"
  /\ lockValue[m] # NoValue
  /\ call' = [call EXCEPT ![m] = "Unlock"]
  /\ pc' = [pc EXCEPT ![m] = "eval"]
  /\ result' = [result EXCEPT ![m] = "none"]
  /\ lease' = [lease EXCEPT ![m] = 0]
  /\ UNCHANGED <<record, late, lockValue, opt, arg, reply>>

UnlockNothing(m) ==
  /\ call[m] = "none"
  /\ lockValue[m] = NoValue
  /\ result' = [result EXCEPT ![m] = "alreadyUnlocked"]
  /\ UNCHANGED <<record, late, lockValue, call, opt, pc, arg, reply, lease>>

ExecDel(m) ==
  /\ pc[m] = "eval"
  /\ reply[m] = "wait"
  /\ record' = DelIfValue(record, lockValue[m])
  /\ reply' = [reply EXCEPT ![m] = IF record.value = lockValue[m] THEN "ok" ELSE "no"]
  /\ UNCHANGED <<late, lockValue, call, opt, pc, arg, lease, result>>

\* Only a successful deletion clears the lock value; ErrAlreadyUnlocked
\* leaves it as it is.
DelReply(m) ==
  /\ pc[m] = "eval"
  /\ \/ /\ reply[m] = "ok"
        /\ lockValue' = [lockValue EXCEPT ![m] = NoValue]
        /\ Return(m, "unlocked")
     \/ /\ reply[m] = "no"
        /\ UNCHANGED lockValue
        /\ Return(m, "alreadyUnlocked")
  /\ UNCHANGED <<record, late, lease>>

-----------------------------------------------------------------------------
(* Failures and time.                                                      *)

Waiting(m) == pc[m] \in {"setnx", "get", "eval"}

\* The command of m ends with an error, which every method returns.
Fail(m) ==
  /\ Waiting(m)
  /\ Abandon(m)
  /\ Return(m, "error")
  /\ lease' = [lease EXCEPT ![m] = 0]
  /\ UNCHANGED <<record, lockValue>>

\* The reply is lost and the client library sends the command once more.
Resend(m) ==
  /\ Waiting(m)
  /\ reply[m] # "wait"
  /\ reply' = [reply EXCEPT ![m] = "wait"]
  /\ UNCHANGED <<record, late, lockValue, call, opt, pc, arg, lease, result>>

\* The process of m ends, and NewMutex makes a new instance for the key.
Restart(m) ==
  /\ Abandon(m)
  /\ Return(m, "none")
  /\ lockValue' = [lockValue EXCEPT ![m] = NoValue]
  /\ lease' = [lease EXCEPT ![m] = 0]
  /\ UNCHANGED record

\* An abandoned command reaches the server after all, or is lost.
LateCommand(c) ==
  /\ c \in late
  /\ late' = late \ {c}
  /\ \/ UNCHANGED record
     \/ /\ c.op = "SetNX"
        /\ record' = SetNX(record, c.value, c.ttl)
     \/ /\ c.op = "Del"
        /\ record' = DelIfValue(record, c.value)
  /\ UNCHANGED client

Tick ==
  /\ record' = Elapse(record)
  /\ lease' = [m \in Mutexes |-> IF lease[m] > 0 THEN lease[m] - 1 ELSE 0]
  /\ UNCHANGED <<late, lockValue, call, opt, pc, arg, reply, result>>

-----------------------------------------------------------------------------
ClientStep(m) ==
  \/ SetNXOk(m) \/ SetNXNo(m) \/ GetReply(m) \/ SpinTick(m) \/ DelReply(m)
ServerStep(m) == ExecSetNX(m) \/ ExecGet(m) \/ ExecDel(m)
UserStep(m) ==
  \/ AlreadyLocked(m) \/ BeginUnlock(m) \/ UnlockNothing(m) \/ GiveUp(m)
  \/ \E c \in {"TryLock", "Lock"}, o \in Options : BeginLock(m, c, o)
FaultStep(m) == Fail(m) \/ Resend(m) \/ Restart(m)

Next == \/ \E m \in Mutexes : UserStep(m) \/ ClientStep(m) \/ ServerStep(m) \/ FaultStep(m)
        \/ \E c \in late : LateCommand(c)
        \/ Tick

Spec == Init /\ [][Next]_vars

-----------------------------------------------------------------------------
(* Properties.                                                             *)

Types ==
  /\ record \in [value : Values \cup {NoValue}, ttl : Nat]
  /\ late \subseteq Command
  /\ lockValue \in [Mutexes -> Values \cup {NoValue}]
  /\ call \in [Mutexes -> {"none", "TryLock", "Lock", "Unlock"}]
  /\ opt \in [Mutexes -> Options \cup {NoOpt}]
  /\ pc \in [Mutexes -> {"idle", "setnx", "get", "spin", "eval"}]
  /\ arg \in [Mutexes -> Values \cup {NoValue}]
  /\ reply \in [Mutexes -> {"wait", "ok", "no", NoValue} \cup Values]
  /\ lease \in [Mutexes -> Nat]
  /\ result \in [Mutexes -> {"none", "acquired", "refused", "gaveUp",
                             "error", "unlocked", "alreadyUnlocked"}]

\* What the locals of a running call are, at each place it can wait.
Frame(m) ==
  /\ (call[m] = "none") <=> (pc[m] = "idle")
  /\ (call[m] = "Unlock") <=> (pc[m] = "eval")
  /\ pc[m] = "eval" => lockValue[m] # NoValue
  /\ pc[m] \in {"setnx", "get", "spin"} => lockValue[m] = NoValue /\ opt[m] \in Options
  /\ pc[m] \in {"idle", "eval", "spin"} => arg[m] = NoValue
  /\ pc[m] = "setnx" => arg[m] # NoValue /\ lease[m] <= opt[m].ttl
  /\ pc[m] = "get" => arg[m] \in Identities /\ opt[m].identity \in Identities
  /\ opt[m].identity # NoValue => arg[m] \in {NoValue, opt[m].identity}

\* The variables have their types, a key without value is no key, and a
\* method waits only with the locals its code has at that point.
TypeOK ==
  /\ Types
  /\ (record.value = NoValue) <=> (record = NoRecord)
  /\ \A m \in Mutexes : Frame(m)

\* The instance reported the lock as acquired, has not called Unlock, and the
\* duration it asked for is not over by its own clock.
Holds(m) == lockValue[m] # NoValue /\ lease[m] > 0

\* Two instances that lock with tokens of their own (no reentrant identity)
\* are never both inside their lease: not after expiry and takeover, not
\* after a late Unlock of a former holder, not after a repeated command.
MutualExclusion ==
  \A m, n \in Mutexes :
    Holds(m) /\ Holds(n) /\ lockValue[m] \in Tokens /\ lockValue[n] \in Tokens => m = n

\* As long as a token holder is inside its lease, the key on the server is its
\* own and lives at least as long: no Unlock of another instance, no command
\* executed late and no retry of a command can take it away.  The same holds
\* from the moment the server granted the lock, before the reply is read.
LeaseBacked ==
  \A m \in Mutexes :
    /\ Holds(m) /\ lockValue[m] \in Tokens =>
         record.value = lockValue[m] /\ record.ttl >= lease[m]
    /\ pc[m] = "setnx" /\ reply[m] = "ok" /\ lease[m] > 0 /\ arg[m] \in Tokens =>
         record.value = arg[m] /\ record.ttl >= lease[m]

\* DistributedMutex.TryLock "returns false when it is held by another owner":
\* a call that runs while another value holds the key does not report success.
TryLockRefusesOther ==
  [][\A m \in Mutexes :
       /\ pc[m] = "idle"
       /\ record # NoRecord
       /\ result'[m] = "acquired"
       /\ result[m] # "acquired"
       => record.value = lockValue[m]]_vars

\* The values whose release somebody asked for: an Unlock is running, or one
\* was abandoned and its command may still reach the server.
ReleaseAsked == {c.value : c \in {d \in late : d.op = "Del"}}
                  \cup {lockValue[m] : m \in {n \in Mutexes : pc[n] = "eval"}}

\* The key on the server as the abstract lock sees it.
LL == INSTANCE LeaseLock WITH
        Owners <- Values,
        NoOwner <- NoValue,
        Durations <- TTLs,
        lease <- record,
        asked <- ReleaseAsked

\* The key on the server behaves as the abstract lease lock: it is granted
\* only when free and it ends by time or by a release its own owner asked for.
ImplementsLeaseLock == LL!Spec

-----------------------------------------------------------------------------
(* Liveness.  The server answers, time passes and the ticker of Lock       *)
(* fires.  The client library repeats a command finitely often, and not    *)
(* every reply to a successful SETNX is lost: hence the strong fairness.   *)

Fairness == /\ WF_vars(Tick)
            /\ WF_vars(\E c \in late : LateCommand(c))
            /\ \A m \in Mutexes : /\ WF_vars(ServerStep(m))
                                 /\ SF_vars(ClientStep(m))
                                 /\ SF_vars(SetNXOk(m))

FairSpec == Spec /\ Fairness

\* A Lock call cannot be stuck behind a holder that crashed or never unlocks:
\* if the others stop making calls, every Lock returns.
LockReturns ==
  \A m \in Mutexes :
    <>[](\A n \in Mutexes \ {m} : call[n] = "none") =>
      (call[m] = "Lock" ~> call[m] = "none")
=============================================================================
