-------------------------- MODULE RedisMutexProofs --------------------------
(***************************************************************************)
(* Proofs about RedisMutex, for every set of instances, tokens, identities *)
(* and durations.  The invariant IInv is inductive: that a token is nobody *)
(* else's (TokensUnshared) is what keeps a deletion of one instance, on    *)
(* time or late, from touching the key of another, and that the key backs  *)
(* every claim (LeaseBacked) is what mutual exclusion follows from.        *)
(***************************************************************************)
EXTENDS RedisMutex, TLAPS

\* A token belongs to one acquisition: no two instances have it, a SETNX that
\* was abandoned never carries the token of a lock that was reported as
\* acquired, and no deletion of it is under way before its owner unlocks.
TokensUnshared ==
  \A m \in Mutexes :
    /\ arg[m] \in Tokens =>
         /\ \A n \in Mutexes : lockValue[n] # arg[m] /\ (n # m => arg[n] # arg[m])
         /\ \A c \in late : c.value # arg[m]
    /\ lockValue[m] \in Tokens =>
         /\ \A n \in Mutexes \ {m} : lockValue[n] # lockValue[m]
         /\ \A c \in late : c.value = lockValue[m] => c.op = "Del" /\ lease[m] = 0
         /\ pc[m] = "eval" => lease[m] = 0

\* The inductive invariant.  Only its types hold when two processes may draw
\* one value.
IInv == TypeOK /\ (~Coincide => TokensUnshared /\ LeaseBacked)

\* What the assumptions say of the constants, in the form the proofs use:
\* tokens, identities and the empty value are apart, durations are positive.
LEMMA ConstantFacts ==
  /\ Tokens \cap Identities = {}
  /\ NoValue \notin Tokens
  /\ NoValue \notin Identities
  /\ TTLs \subseteq Nat
  /\ \A d \in TTLs : d > 0
BY ValueAssumption, TTLAssumption

\* Lock or TryLock on an instance that has a lock value (mutex.go:131) changes
\* only the result.
LEMMA AlreadyLockedStep ==
  ASSUME IInv, NEW m \in Mutexes, AlreadyLocked(m)
  PROVE  IInv'
<1>1. Types'
  BY DEF IInv, TypeOK, Types, AlreadyLocked
<1>2. ((record.value = NoValue) <=> (record = NoRecord))'
  BY DEF IInv, TypeOK, Types, AlreadyLocked
<1>3. \A n \in Mutexes : Frame(n)'
  BY DEF IInv, TypeOK, Types, Frame, AlreadyLocked
<1>4. ~Coincide => TokensUnshared'
  BY DEF IInv, TypeOK, Types, TokensUnshared, AlreadyLocked
<1>5. ~Coincide => LeaseBacked'
  BY DEF IInv, TypeOK, Types, LeaseBacked, Holds, AlreadyLocked
<1> QED BY <1>1, <1>2, <1>3, <1>4, <1>5 DEF IInv, TypeOK

\* The value tryLock sends: a fresh token without an identity, else the
\* identity (mutex.go:135-138).
LEMMA SendSetNXValue ==
  ASSUME NEW m \in Mutexes, NEW o \in Options, SendSetNX(m, o)
  PROVE  \E v \in Values :
           /\ o.identity = NoValue => v \in Tokens /\ Fresh(m, v)
           /\ o.identity # NoValue => v \in Identities /\ v = o.identity
           /\ arg' = [arg EXCEPT ![m] = v]
           /\ opt' = [opt EXCEPT ![m] = o]
           /\ pc' = [pc EXCEPT ![m] = "setnx"]
           /\ reply' = [reply EXCEPT ![m] = "wait"]
           /\ lease' = [lease EXCEPT ![m] = o.ttl]
<1>1. o.identity \in Identities \cup {NoValue}
  BY DEF Options
<1>2. CASE o.identity = NoValue
  BY <1>2 DEF SendSetNX, Values
<1>3. CASE o.identity # NoValue
  BY <1>1, <1>3 DEF SendSetNX, Values
<1> QED BY <1>2, <1>3

\* The first attempt of Lock and TryLock: a fresh token is not yet anybody's.
LEMMA BeginLockStep ==
  ASSUME IInv, NEW m \in Mutexes, NEW c \in {"TryLock", "Lock"}, NEW o \in Options,
         BeginLock(m, c, o)
  PROVE  IInv'
<1>0. o \in Options /\ SendSetNX(m, o)
  BY DEF IInv, TypeOK, BeginLock
<1>v. PICK v \in Values :
           /\ o.identity = NoValue => v \in Tokens /\ Fresh(m, v)
           /\ o.identity # NoValue => v \in Identities /\ v = o.identity
           /\ arg' = [arg EXCEPT ![m] = v]
           /\ opt' = [opt EXCEPT ![m] = o]
           /\ pc' = [pc EXCEPT ![m] = "setnx"]
           /\ reply' = [reply EXCEPT ![m] = "wait"]
           /\ lease' = [lease EXCEPT ![m] = o.ttl]
  BY <1>0, SendSetNXValue
<1>t. o.ttl \in Nat
  BY <1>0, ConstantFacts DEF Options
<1>1. Types'
  BY <1>0, <1>v, <1>t DEF IInv, TypeOK, Types, BeginLock
<1>2. ((record.value = NoValue) <=> (record = NoRecord))'
  BY DEF IInv, TypeOK, BeginLock
<1>3. \A n \in Mutexes : Frame(n)'
  BY <1>0, <1>v, <1>t, ConstantFacts DEF IInv, TypeOK, Types, Frame, BeginLock
<1>4. ~Coincide => TokensUnshared'
  BY <1>0, <1>v, ConstantFacts DEF IInv, TypeOK, Types, TokensUnshared, Fresh, BeginLock
<1>5. ~Coincide => LeaseBacked'
  BY <1>0, <1>v DEF IInv, TypeOK, Types, LeaseBacked, Holds, BeginLock
<1> QED BY <1>1, <1>2, <1>3, <1>4, <1>5 DEF IInv, TypeOK

\* SETNX executed by the server: it grants only a free key, so no holder inside
\* its lease can lose it.
LEMMA ExecSetNXStep ==
  ASSUME IInv, NEW m \in Mutexes, ExecSetNX(m)
  PROVE  IInv'
<1>1. Types'
  BY ConstantFacts DEF IInv, TypeOK, Types, Frame, Options, ExecSetNX, SetNX
<1>2. ((record.value = NoValue) <=> (record = NoRecord))'
  BY DEF IInv, TypeOK, Types, Frame, ExecSetNX, SetNX
<1>3. \A n \in Mutexes : Frame(n)'
  BY DEF IInv, TypeOK, Types, Frame, ExecSetNX, SetNX
<1>4. ~Coincide => TokensUnshared'
  BY DEF IInv, TypeOK, Types, TokensUnshared, ExecSetNX, SetNX
<1>5. ~Coincide => LeaseBacked'
  BY DEF IInv, TypeOK, Types, Frame, LeaseBacked, Holds, ExecSetNX, SetNX
<1> QED BY <1>1, <1>2, <1>3, <1>4, <1>5 DEF IInv, TypeOK

\* The reply to a successful SETNX makes the token the lock value.
LEMMA SetNXOkStep ==
  ASSUME IInv, NEW m \in Mutexes, SetNXOk(m)
  PROVE  IInv'
<1>1. Types'
  BY DEF IInv, TypeOK, Types, SetNXOk, Return
<1>2. ((record.value = NoValue) <=> (record = NoRecord))'
  BY DEF IInv, TypeOK, Types, SetNXOk, Return
<1>3. \A n \in Mutexes : Frame(n)'
  BY DEF IInv, TypeOK, Types, Frame, SetNXOk, Return
<1>4. ~Coincide => TokensUnshared'
  BY ConstantFacts DEF IInv, TypeOK, Types, TokensUnshared, SetNXOk, Return
<1>5. ~Coincide => LeaseBacked'
  BY DEF IInv, TypeOK, Types, LeaseBacked, Holds, SetNXOk, Return
<1> QED BY <1>1, <1>2, <1>3, <1>4, <1>5 DEF IInv, TypeOK

\* A refused SETNX ends the attempt or goes on to GET.
LEMMA SetNXNoStep ==
  ASSUME IInv, NEW m \in Mutexes, SetNXNo(m)
  PROVE  IInv'
<1>1. Types'
  <2>1. /\ reply' \in [Mutexes -> {"wait", "ok", "no", NoValue} \cup Values]
        /\ pc' \in [Mutexes -> {"idle", "setnx", "get", "spin", "eval"}]
        /\ arg' \in [Mutexes -> Values \cup {NoValue}]
    BY DEF IInv, TypeOK, Types, SetNXNo, NotAcquired, Return
  <2>2. opt' \in [Mutexes -> Options \cup {NoOpt}]
    BY DEF IInv, TypeOK, Types, SetNXNo, NotAcquired, Return
  <2>3. /\ lease' \in [Mutexes -> Nat]
        /\ lockValue' \in [Mutexes -> Values \cup {NoValue}]
    BY DEF IInv, TypeOK, Types, SetNXNo, NotAcquired, Return
  <2>4. /\ call' \in [Mutexes -> {"none", "TryLock", "Lock", "Unlock"}]
        /\ result' \in [Mutexes -> {"none", "acquired", "refused", "gaveUp",
                             "error", "unlocked", "alreadyUnlocked"}]
    BY DEF IInv, TypeOK, Types, SetNXNo, NotAcquired, Return
  <2> QED BY <2>1, <2>2, <2>3, <2>4 DEF IInv, TypeOK, Types, SetNXNo
<1>2. ((record.value = NoValue) <=> (record = NoRecord))'
  BY DEF IInv, TypeOK, Types, SetNXNo, NotAcquired, Return
<1>3. \A n \in Mutexes : Frame(n)'
  BY DEF IInv, TypeOK, Types, Frame, Options, SetNXNo, NotAcquired, Return
<1>4. ~Coincide => TokensUnshared'
  BY ConstantFacts DEF IInv, TypeOK, Types, TokensUnshared, SetNXNo, NotAcquired, Return
<1>5. ~Coincide => LeaseBacked'
  BY DEF IInv, TypeOK, Types, LeaseBacked, Holds, SetNXNo, NotAcquired, Return
<1> QED BY <1>1, <1>2, <1>3, <1>4, <1>5 DEF IInv, TypeOK

\* GET reads the key and changes nothing else.
LEMMA ExecGetStep ==
  ASSUME IInv, NEW m \in Mutexes, ExecGet(m)
  PROVE  IInv'
<1>1. Types'
  BY DEF IInv, TypeOK, Types, ExecGet
<1>2. ((record.value = NoValue) <=> (record = NoRecord))'
  BY DEF IInv, TypeOK, Types, ExecGet
<1>3. \A n \in Mutexes : Frame(n)'
  BY DEF IInv, TypeOK, Types, Frame, ExecGet
<1>4. ~Coincide => TokensUnshared'
  BY DEF IInv, TypeOK, Types, TokensUnshared, ExecGet
<1>5. ~Coincide => LeaseBacked'
  BY DEF IInv, TypeOK, Types, LeaseBacked, Holds, ExecGet
<1> QED BY <1>1, <1>2, <1>3, <1>4, <1>5 DEF IInv, TypeOK

\* The holder found by GET is the caller's identity, or the attempt is over.
LEMMA GetReplyStep ==
  ASSUME IInv, NEW m \in Mutexes, GetReply(m)
  PROVE  IInv'
<1>1. Types'
  <2>1. /\ reply' \in [Mutexes -> {"wait", "ok", "no", NoValue} \cup Values]
        /\ pc' \in [Mutexes -> {"idle", "setnx", "get", "spin", "eval"}]
        /\ arg' \in [Mutexes -> Values \cup {NoValue}]
    BY DEF IInv, TypeOK, Types, GetReply, NotAcquired, Return
  <2>2. opt' \in [Mutexes -> Options \cup {NoOpt}]
    BY DEF IInv, TypeOK, Types, GetReply, NotAcquired, Return
  <2>3. /\ lease' \in [Mutexes -> Nat]
        /\ lockValue' \in [Mutexes -> Values \cup {NoValue}]
    BY DEF IInv, TypeOK, Types, Frame, Values, GetReply, NotAcquired, Return
  <2>4. /\ call' \in [Mutexes -> {"none", "TryLock", "Lock", "Unlock"}]
        /\ result' \in [Mutexes -> {"none", "acquired", "refused", "gaveUp",
                             "error", "unlocked", "alreadyUnlocked"}]
    BY DEF IInv, TypeOK, Types, GetReply, NotAcquired, Return
  <2> QED BY <2>1, <2>2, <2>3, <2>4 DEF IInv, TypeOK, Types, GetReply
<1>2. ((record.value = NoValue) <=> (record = NoRecord))'
  BY DEF IInv, TypeOK, Types, GetReply, NotAcquired, Return
<1>3. \A n \in Mutexes : Frame(n)'
  BY DEF IInv, TypeOK, Types, Frame, GetReply, NotAcquired, Return
<1>4. ~Coincide => TokensUnshared'
  BY ConstantFacts DEF IInv, TypeOK, Types, TokensUnshared, NoOpt, Options, GetReply,
     NotAcquired, Return
<1>5. ~Coincide => LeaseBacked'
  BY DEF IInv, TypeOK, Types, LeaseBacked, Holds, GetReply, NotAcquired, Return
<1> QED BY <1>1, <1>2, <1>3, <1>4, <1>5 DEF IInv, TypeOK

\* The ticker of Lock starts another attempt with a fresh token.
LEMMA SpinTickStep ==
  ASSUME IInv, NEW m \in Mutexes, SpinTick(m)
  PROVE  IInv'
<1>0. opt[m] \in Options /\ SendSetNX(m, opt[m])
  BY DEF IInv, TypeOK, Frame, SpinTick
<1>v. PICK v \in Values :
           /\ opt[m].identity = NoValue => v \in Tokens /\ Fresh(m, v)
           /\ opt[m].identity # NoValue => v \in Identities /\ v = opt[m].identity
           /\ arg' = [arg EXCEPT ![m] = v]
           /\ opt' = [opt EXCEPT ![m] = opt[m]]
           /\ pc' = [pc EXCEPT ![m] = "setnx"]
           /\ reply' = [reply EXCEPT ![m] = "wait"]
           /\ lease' = [lease EXCEPT ![m] = opt[m].ttl]
  BY <1>0, SendSetNXValue
<1>t. opt[m].ttl \in Nat
  BY <1>0, ConstantFacts DEF Options
<1>1. Types'
  BY <1>0, <1>v, <1>t DEF IInv, TypeOK, Types, SpinTick
<1>2. ((record.value = NoValue) <=> (record = NoRecord))'
  BY DEF IInv, TypeOK, SpinTick
<1>3. \A n \in Mutexes : Frame(n)'
  BY <1>0, <1>v, <1>t, ConstantFacts DEF IInv, TypeOK, Types, Frame, SpinTick
<1>4. ~Coincide => TokensUnshared'
  BY <1>0, <1>v, ConstantFacts DEF IInv, TypeOK, Types, Frame, TokensUnshared, Fresh,
     SpinTick
<1>5. ~Coincide => LeaseBacked'
  BY <1>0, <1>v DEF IInv, TypeOK, Types, Frame, LeaseBacked, Holds, SpinTick
<1> QED BY <1>1, <1>2, <1>3, <1>4, <1>5 DEF IInv, TypeOK

\* Lock ends at its maximum wait or with its context.
LEMMA GiveUpStep ==
  ASSUME IInv, NEW m \in Mutexes, GiveUp(m)
  PROVE  IInv'
<1>1. Types'
  BY DEF IInv, TypeOK, Types, GiveUp, Return
<1>2. ((record.value = NoValue) <=> (record = NoRecord))'
  BY DEF IInv, TypeOK, Types, GiveUp, Return
<1>3. \A n \in Mutexes : Frame(n)'
  BY DEF IInv, TypeOK, Types, Frame, GiveUp, Return
<1>4. ~Coincide => TokensUnshared'
  BY ConstantFacts DEF IInv, TypeOK, Types, TokensUnshared, GiveUp, Return
<1>5. ~Coincide => LeaseBacked'
  BY DEF IInv, TypeOK, Types, LeaseBacked, Holds, GiveUp, Return
<1> QED BY <1>1, <1>2, <1>3, <1>4, <1>5 DEF IInv, TypeOK

\* Unlock ends the claim of its instance before the deletion is sent.
LEMMA BeginUnlockStep ==
  ASSUME IInv, NEW m \in Mutexes, BeginUnlock(m)
  PROVE  IInv'
<1>1. Types'
  BY DEF IInv, TypeOK, Types, BeginUnlock
<1>2. ((record.value = NoValue) <=> (record = NoRecord))'
  BY DEF IInv, TypeOK, Types, BeginUnlock
<1>3. \A n \in Mutexes : Frame(n)'
  BY DEF IInv, TypeOK, Types, Frame, BeginUnlock
<1>4. ~Coincide => TokensUnshared'
  BY DEF IInv, TypeOK, Types, TokensUnshared, BeginUnlock
<1>5. ~Coincide => LeaseBacked'
  BY DEF IInv, TypeOK, Types, LeaseBacked, Holds, BeginUnlock
<1> QED BY <1>1, <1>2, <1>3, <1>4, <1>5 DEF IInv, TypeOK

\* Unlock of an instance without a lock value changes only the result.
LEMMA UnlockNothingStep ==
  ASSUME IInv, NEW m \in Mutexes, UnlockNothing(m)
  PROVE  IInv'
<1>1. Types'
  BY DEF IInv, TypeOK, Types, UnlockNothing
<1>2. ((record.value = NoValue) <=> (record = NoRecord))'
  BY DEF IInv, TypeOK, Types, UnlockNothing
<1>3. \A n \in Mutexes : Frame(n)'
  BY DEF IInv, TypeOK, Types, Frame, UnlockNothing
<1>4. ~Coincide => TokensUnshared'
  BY DEF IInv, TypeOK, Types, TokensUnshared, UnlockNothing
<1>5. ~Coincide => LeaseBacked'
  BY DEF IInv, TypeOK, Types, LeaseBacked, Holds, UnlockNothing
<1> QED BY <1>1, <1>2, <1>3, <1>4, <1>5 DEF IInv, TypeOK

\* The deletion takes away the key of the unlocking token only: a holder inside
\* its lease has another token.
LEMMA ExecDelStep ==
  ASSUME IInv, NEW m \in Mutexes, ExecDel(m)
  PROVE  IInv'
<1>1. Types'
  BY DEF IInv, TypeOK, Types, NoRecord, ExecDel, DelIfValue
<1>2. ((record.value = NoValue) <=> (record = NoRecord))'
  BY DEF IInv, TypeOK, Types, NoRecord, ExecDel, DelIfValue
<1>3. \A n \in Mutexes : Frame(n)'
  BY DEF IInv, TypeOK, Types, Frame, ExecDel, DelIfValue
<1>4. ~Coincide => TokensUnshared'
  BY DEF IInv, TypeOK, Types, TokensUnshared, ExecDel, DelIfValue
<1>5. ~Coincide => LeaseBacked'
  BY DEF IInv, TypeOK, Types, TokensUnshared, LeaseBacked, Holds, ExecDel, DelIfValue
<1> QED BY <1>1, <1>2, <1>3, <1>4, <1>5 DEF IInv, TypeOK

\* The reply to the deletion ends Unlock, with or without clearing the value.
LEMMA DelReplyStep ==
  ASSUME IInv, NEW m \in Mutexes, DelReply(m)
  PROVE  IInv'
<1>1. Types'
  BY DEF IInv, TypeOK, Types, DelReply, Return
<1>2. ((record.value = NoValue) <=> (record = NoRecord))'
  BY DEF IInv, TypeOK, Types, DelReply, Return
<1>3. \A n \in Mutexes : Frame(n)'
  BY DEF IInv, TypeOK, Types, Frame, DelReply, Return
<1>4. ~Coincide => TokensUnshared'
  BY ConstantFacts DEF IInv, TypeOK, Types, TokensUnshared, DelReply, Return
<1>5. ~Coincide => LeaseBacked'
  BY DEF IInv, TypeOK, Types, LeaseBacked, Holds, DelReply, Return
<1> QED BY <1>1, <1>2, <1>3, <1>4, <1>5 DEF IInv, TypeOK

\* A command that ends with an error: what is still under way carries a token
\* that is nobody's, or the deletion of a lock whose claim is over.
LEMMA FailStep ==
  ASSUME IInv, NEW m \in Mutexes, Fail(m)
  PROVE  IInv'
<1>1. Types'
  BY DEF IInv, TypeOK, Types, Frame, Command, Options, Fail, Abandon, Sent, Return
<1>2. ((record.value = NoValue) <=> (record = NoRecord))'
  BY DEF IInv, TypeOK, Types, Fail, Abandon, Return
<1>3. \A n \in Mutexes : Frame(n)'
  BY DEF IInv, TypeOK, Types, Frame, Fail, Abandon, Return
<1>4. ~Coincide => TokensUnshared'
  BY ConstantFacts DEF IInv, TypeOK, Types, TokensUnshared, Fail, Abandon, Sent, Return
<1>5. ~Coincide => LeaseBacked'
  BY DEF IInv, TypeOK, Types, LeaseBacked, Holds, Fail, Abandon, Return
<1> QED BY <1>1, <1>2, <1>3, <1>4, <1>5 DEF IInv, TypeOK

\* A repeated command is one that waits again.
LEMMA ResendStep ==
  ASSUME IInv, NEW m \in Mutexes, Resend(m)
  PROVE  IInv'
<1>1. Types'
  BY DEF IInv, TypeOK, Types, Resend
<1>2. ((record.value = NoValue) <=> (record = NoRecord))'
  BY DEF IInv, TypeOK, Types, Resend
<1>3. \A n \in Mutexes : Frame(n)'
  BY DEF IInv, TypeOK, Types, Frame, Resend
<1>4. ~Coincide => TokensUnshared'
  BY DEF IInv, TypeOK, Types, TokensUnshared, Resend
<1>5. ~Coincide => LeaseBacked'
  BY DEF IInv, TypeOK, Types, LeaseBacked, Holds, Resend
<1> QED BY <1>1, <1>2, <1>3, <1>4, <1>5 DEF IInv, TypeOK

\* A new instance has no lock value; what the old one sent may still arrive.
LEMMA RestartStep ==
  ASSUME IInv, NEW m \in Mutexes, Restart(m)
  PROVE  IInv'
<1>1. Types'
  BY DEF IInv, TypeOK, Types, Frame, Command, Options, Restart, Abandon, Sent, Return
<1>2. ((record.value = NoValue) <=> (record = NoRecord))'
  BY DEF IInv, TypeOK, Types, Restart, Abandon, Return
<1>3. \A n \in Mutexes : Frame(n)'
  BY DEF IInv, TypeOK, Types, Frame, Restart, Abandon, Return
<1>4. ~Coincide => TokensUnshared'
  BY ConstantFacts DEF IInv, TypeOK, Types, TokensUnshared, Restart, Abandon, Sent,
     Return
<1>5. ~Coincide => LeaseBacked'
  BY DEF IInv, TypeOK, Types, LeaseBacked, Holds, Restart, Abandon, Return
<1> QED BY <1>1, <1>2, <1>3, <1>4, <1>5 DEF IInv, TypeOK

\* A command executed late: a SETNX grants only a free key and a deletion names
\* a token whose claim is over.
LEMMA LateCommandStep ==
  ASSUME IInv, NEW c \in late, LateCommand(c)
  PROVE  IInv'
<1>c. c \in Command /\ c.value \in Values /\ c.ttl \in Nat
  <2>1. c \in Command
    BY DEF IInv, TypeOK, Types
  <2>2. CASE c \in [op : {"SetNX"}, value : Values, ttl : TTLs]
    BY <2>1, <2>2, ConstantFacts
  <2>3. CASE c \in [op : {"Del"}, value : Values, ttl : {0}]
    BY <2>1, <2>3
  <2> QED BY <2>1, <2>2, <2>3 DEF Command
<1>1. Types'
  <2>1. record' \in [value : Values \cup {NoValue}, ttl : Nat]
    BY <1>c DEF IInv, TypeOK, Types, NoRecord, SetNX, DelIfValue, LateCommand
  <2> QED BY <2>1 DEF IInv, TypeOK, Types, LateCommand, client
<1>2. ((record.value = NoValue) <=> (record = NoRecord))'
  BY <1>c, ConstantFacts DEF IInv, TypeOK, Types, Command, Values, NoRecord, SetNX,
     DelIfValue, LateCommand
<1>3. \A n \in Mutexes : Frame(n)'
  BY DEF IInv, TypeOK, Frame, LateCommand, client
<1>4. ~Coincide => TokensUnshared'
  BY DEF IInv, TokensUnshared, LateCommand, client
<1>5. ~Coincide => LeaseBacked'
  BY <1>c, ConstantFacts DEF IInv, TypeOK, Types, TokensUnshared, LeaseBacked, Holds,
     Command, NoRecord, SetNX, DelIfValue, LateCommand, client
<1> QED BY <1>1, <1>2, <1>3, <1>4, <1>5 DEF IInv, TypeOK

\* One unit of time: the claim of a holder and the key lose the same amount.
LEMMA TickStep ==
  ASSUME IInv, Tick
  PROVE  IInv'
<1>1. Types'
  BY DEF IInv, TypeOK, Types, Tick, Elapse, NoRecord
<1>2. ((record.value = NoValue) <=> (record = NoRecord))'
  BY DEF IInv, TypeOK, Types, Tick, Elapse, NoRecord
<1>3. \A n \in Mutexes : Frame(n)'
  <2>1. \A n \in Mutexes : lease'[n] <= lease[n] /\ lease[n] \in Nat /\ lease'[n] \in Nat
    BY DEF IInv, TypeOK, Types, Tick
  <2>2. \A n \in Mutexes : pc[n] = "setnx" => opt[n].ttl \in Nat
    BY ConstantFacts DEF IInv, TypeOK, Types, Frame, Options
  <2> QED BY <2>1, <2>2 DEF IInv, TypeOK, Frame, Tick
<1>4. ~Coincide => TokensUnshared'
  BY DEF IInv, TypeOK, Types, TokensUnshared, Tick
<1>5. ~Coincide => LeaseBacked'
  BY ConstantFacts DEF IInv, TypeOK, Types, LeaseBacked, Holds, Tick, Elapse, NoRecord
<1> QED BY <1>1, <1>2, <1>3, <1>4, <1>5 DEF IInv, TypeOK

\* The invariant holds initially: no key, no lock value, nothing under way.
LEMMA InitIInv == Init => IInv
BY ConstantFacts DEF Init, IInv, TypeOK, Types, Frame, TokensUnshared, LeaseBacked,
   Holds, NoRecord, NoOpt, Options

\* Every step of the specification preserves the invariant.
LEMMA NextIInv == IInv /\ [Next]_vars => IInv'
<1> SUFFICES ASSUME IInv, [Next]_vars PROVE IInv'
  OBVIOUS
<1>1. CASE UNCHANGED vars
  BY <1>1 DEF IInv, TypeOK, Types, Frame, TokensUnshared, LeaseBacked, Holds, vars
<1>2. CASE Tick
  BY <1>2, TickStep
<1>3. CASE \E c \in late : LateCommand(c)
  BY <1>3, LateCommandStep
<1>4. ASSUME NEW m \in Mutexes, UserStep(m) PROVE IInv'
  BY <1>4, AlreadyLockedStep, BeginUnlockStep, UnlockNothingStep, GiveUpStep,
     BeginLockStep DEF UserStep
<1>5. ASSUME NEW m \in Mutexes, ClientStep(m) PROVE IInv'
  BY <1>5, SetNXOkStep, SetNXNoStep, GetReplyStep, SpinTickStep,
     DelReplyStep DEF ClientStep
<1>6. ASSUME NEW m \in Mutexes, ServerStep(m) PROVE IInv'
  BY <1>6, ExecSetNXStep, ExecGetStep, ExecDelStep DEF ServerStep
<1>7. ASSUME NEW m \in Mutexes, FaultStep(m) PROVE IInv'
  BY <1>7, FailStep, ResendStep, RestartStep DEF FaultStep
<1> QED BY <1>1, <1>2, <1>3, <1>4, <1>5, <1>6, <1>7 DEF Next

\* The inductive invariant holds in every reachable state.
LEMMA SpecIInv == Spec => []IInv
BY InitIInv, NextIInv, PTL DEF Spec

\* Two token holders inside their leases both own the one key, so they have the
\* same token, so they are one instance.
LEMMA BackedExcludes ==
  ASSUME IInv, ~Coincide
  PROVE  MutualExclusion
<1> SUFFICES ASSUME NEW m \in Mutexes, NEW n \in Mutexes, Holds(m), Holds(n),
                    lockValue[m] \in Tokens, lockValue[n] \in Tokens
             PROVE  m = n
  BY DEF MutualExclusion
<1>1. lockValue[m] = lockValue[n]
  BY DEF IInv, LeaseBacked
<1> QED BY <1>1 DEF IInv, TokensUnshared

\* Type correctness: every variable has its type and a method waits only with
\* the locals its code has at that point, for every set of instances, tokens,
\* identities and durations.
THEOREM TypeCorrect == Spec => []TypeOK
BY SpecIInv, PTL DEF IInv

\* Unless two processes draw one lock value in the same nanosecond: a token
\* holder inside its lease owns the key on the server, which lives at least as
\* long as the client counts: no Unlock of another instance, late command or
\* retry can delete it (deleteIfValueScript, mutex.go:15-20).
THEOREM HoldersBacked == ASSUME ~Coincide PROVE Spec => []LeaseBacked
<1>1. IInv => LeaseBacked
  BY DEF IInv
<1> QED BY <1>1, SpecIInv, PTL

\* Mutual exclusion of token holders inside their leases, for any number of
\* instances and any failures of the network or of processes, unless two
\* processes draw one lock value (nextLockValue, mutex.go:203-205).
THEOREM Exclusion == ASSUME ~Coincide PROVE Spec => []MutualExclusion
<1>1. IInv => MutualExclusion
  BY BackedExcludes
<1> QED BY <1>1, SpecIInv, PTL

\* Membership in the set of values whose release somebody asked for.
LEMMA AskedMember ==
  \A x : x \in ReleaseAsked <=>
           \/ \E c \in late : c.op = "Del" /\ c.value = x
           \/ \E n \in Mutexes : pc[n] = "eval" /\ lockValue[n] = x
BY DEF ReleaseAsked

\* The same in the next state.
LEMMA AskedMemberNext ==
  \A x : x \in ReleaseAsked' <=>
           \/ \E c \in late' : c.op = "Del" /\ c.value = x
           \/ \E n \in Mutexes : pc'[n] = "eval" /\ lockValue'[n] = x
BY DEF ReleaseAsked

\* The initial states are initial states of the abstract lock.
LEMMA InitLL == Init => LL!Init
<1> SUFFICES ASSUME Init PROVE LL!Init
  OBVIOUS
<1>1. ReleaseAsked = {}
  BY AskedMember DEF Init
<1> QED BY <1>1 DEF Init, LL!Init, LL!Free, NoRecord

\* A step that leaves the key and the asked releases alone is a stutter.
LEMMA StutterLL ==
  ASSUME record' = record, ReleaseAsked' = ReleaseAsked
  PROVE  UNCHANGED LL!vars
BY DEF LL!vars

\* A step that adds or removes one asked release is an Ask.
LEMMA AskLL ==
  ASSUME NEW v \in Values, record' = record,
         ReleaseAsked' \in {ReleaseAsked \cup {v}, ReleaseAsked \ {v}}
  PROVE  LL!Next
BY DEF LL!Next, LL!Ask

\* A step that fills the free key is a Grant.
LEMMA GrantLL ==
  ASSUME NEW v \in Values, NEW d \in TTLs, record = NoRecord,
         record' = [value |-> v, ttl |-> d], ReleaseAsked' = ReleaseAsked
  PROVE  LL!Next
BY DEF LL!Next, LL!Grant, LL!Free, NoRecord

\* A step that deletes a key whose release was asked for is a Release.
LEMMA ReleaseLL ==
  ASSUME NEW v \in Values, record.value = v, v \in ReleaseAsked, record' = NoRecord,
         ReleaseAsked' \in {ReleaseAsked, ReleaseAsked \ {v}}
  PROVE  LL!Next
BY DEF LL!Next, LL!Release, LL!Free, NoRecord

\* Time maps to the passing of the abstract lease.
LEMMA TickLL ==
  ASSUME IInv, Tick
  PROVE  LL!Next \/ UNCHANGED LL!vars
<1>1. ReleaseAsked' = ReleaseAsked
  BY DEF ReleaseAsked, Tick
<1>2. CASE record = NoRecord
  BY <1>1, <1>2, StutterLL DEF Tick, Elapse, NoRecord
<1>3. CASE record # NoRecord
  BY <1>1, <1>3 DEF Tick, Elapse, NoRecord, LL!Next, LL!Pass, LL!Free
<1> QED BY <1>2, <1>3

\* A command executed late maps to a Grant or a Release, a lost one to an Ask.
LEMMA LateCommandLL ==
  ASSUME IInv, NEW c \in late, LateCommand(c)
  PROVE  LL!Next \/ UNCHANGED LL!vars
<1>c. c.value \in Values /\ c.op \in {"SetNX", "Del"} /\ (c.op = "SetNX" => c.ttl \in TTLs)
  <2>1. c \in Command
    BY DEF IInv, TypeOK, Types
  <2> QED BY <2>1 DEF Command
<1>1. CASE c.op = "SetNX"
  <2>1. ReleaseAsked' = ReleaseAsked
    <3>1. \A d : (d \in late' /\ d.op = "Del") <=> (d \in late /\ d.op = "Del")
      BY <1>1 DEF LateCommand
    <3>2. pc' = pc /\ lockValue' = lockValue
      BY DEF LateCommand, client
    <3>3. \A x : x \in ReleaseAsked' <=> x \in ReleaseAsked
      BY <3>1, <3>2, AskedMember, AskedMemberNext
    <3> QED BY <3>3
  <2> QED BY <1>1, <1>c, <2>1, StutterLL, GrantLL DEF LateCommand, SetNX
<1>2. CASE c.op = "Del"
  <2>1. ReleaseAsked' \in {ReleaseAsked, ReleaseAsked \ {c.value}}
    <3>1. \A x : x # c.value => (x \in ReleaseAsked' <=> x \in ReleaseAsked)
      BY AskedMember, AskedMemberNext DEF LateCommand, client
    <3>2. c.value \in ReleaseAsked
      BY <1>2, AskedMember
    <3> QED BY <3>1, <3>2
  <2>2. c.value \in ReleaseAsked
    BY <1>2, AskedMember
  <2>3. CASE record' = record
    BY <1>c, <2>1, <2>3, StutterLL, AskLL
  <2>4. CASE record' # record
    BY <1>2, <1>c, <2>1, <2>2, <2>4, ReleaseLL DEF LateCommand, DelIfValue
  <2> QED BY <2>3, <2>4
<1> QED BY <1>1, <1>2, <1>c

\* A step that touches neither the key, nor the abandoned commands, nor a
\* running Unlock is a stutter.
LEMMA SameAskedLL ==
  ASSUME IInv, record' = record, late' = late,
         \A n \in Mutexes : (pc'[n] = "eval") <=> (pc[n] = "eval"),
         \A n \in Mutexes : pc[n] = "eval" => lockValue'[n] = lockValue[n]
  PROVE  UNCHANGED LL!vars
<1>1. ReleaseAsked' = ReleaseAsked
  BY AskedMember, AskedMemberNext
<1> QED BY <1>1, StutterLL

\* A method that returns leaves at most its own asked release behind.
LEMMA LeaveLL ==
  ASSUME IInv, NEW m \in Mutexes, record' = record,
         late' \in {late, late \cup Sent(m)},
         pc' = [pc EXCEPT ![m] = "idle"],
         \A n \in Mutexes \ {m} : lockValue'[n] = lockValue[n]
  PROVE  LL!Next \/ UNCHANGED LL!vars
<1>p. \A n \in Mutexes : pc'[n] = IF n = m THEN "idle" ELSE pc[n]
  BY DEF IInv, TypeOK, Types
<1>1. CASE pc[m] # "eval"
  <2>1. \A c \in Sent(m) : c.op # "Del"
    BY <1>1 DEF Sent
  <2>2. ReleaseAsked' = ReleaseAsked
    BY <1>1, <1>p, <2>1, AskedMember, AskedMemberNext
  <2> QED BY <2>2, StutterLL
<1>2. CASE pc[m] = "eval"
  <2>0. lockValue[m] \in Values
    BY <1>2 DEF IInv, TypeOK, Types, Frame
  <2>1. \A c \in Sent(m) : c.value = lockValue[m]
    BY <1>2 DEF Sent
  <2>2. lockValue[m] \in ReleaseAsked
    BY <1>2, AskedMember
  <2>3. \A x : x # lockValue[m] => (x \in ReleaseAsked' <=> x \in ReleaseAsked)
    BY <1>2, <1>p, <2>1, AskedMember, AskedMemberNext
  <2>4. CASE lockValue[m] \in ReleaseAsked'
    <3>1. ReleaseAsked' = ReleaseAsked
      BY <2>2, <2>3, <2>4
    <3> QED BY <3>1, StutterLL
  <2>5. CASE lockValue[m] \notin ReleaseAsked'
    <3>1. ReleaseAsked' = ReleaseAsked \ {lockValue[m]}
      BY <2>2, <2>3, <2>5
    <3> QED BY <2>0, <3>1, AskLL
  <2> QED BY <2>4, <2>5
<1> QED BY <1>1, <1>2

\* The callers' steps: Unlock asks for a release, the others stutter.
LEMMA UserStepLL ==
  ASSUME IInv, NEW m \in Mutexes, UserStep(m)
  PROVE  LL!Next \/ UNCHANGED LL!vars
<1>1. CASE AlreadyLocked(m) \/ UnlockNothing(m)
  BY <1>1, SameAskedLL DEF AlreadyLocked, UnlockNothing
<1>2. CASE GiveUp(m)
  BY <1>2, LeaveLL DEF GiveUp, Return
<1>3. ASSUME NEW c \in {"TryLock", "Lock"}, NEW o \in Options, BeginLock(m, c, o)
      PROVE  UNCHANGED LL!vars
  <2>1. pc' = [pc EXCEPT ![m] = "setnx"] /\ pc[m] # "eval"
    BY <1>3 DEF BeginLock, SendSetNX, IInv, TypeOK, Frame
  <2> QED BY <1>3, <2>1, SameAskedLL DEF BeginLock, IInv, TypeOK, Types
<1>4. CASE BeginUnlock(m)
  <2>0. lockValue[m] \in Values
    BY <1>4 DEF BeginUnlock, IInv, TypeOK, Types
  <2>p. /\ \A n \in Mutexes : pc'[n] = IF n = m THEN "eval" ELSE pc[n]
        /\ lockValue' = lockValue
        /\ late' = late
    BY <1>4 DEF BeginUnlock, IInv, TypeOK, Types
  <2>1. \A x : x # lockValue[m] => (x \in ReleaseAsked' <=> x \in ReleaseAsked)
    BY <2>p, AskedMember, AskedMemberNext
  <2>2. lockValue[m] \in ReleaseAsked'
    BY <2>p, AskedMemberNext
  <2>3. ReleaseAsked' = ReleaseAsked \cup {lockValue[m]}
    BY <2>1, <2>2
  <2> QED BY <1>4, <2>0, <2>3, AskLL DEF BeginUnlock
<1> QED BY <1>1, <1>2, <1>3, <1>4 DEF UserStep

\* Reading a reply ends at most the caller's own asked release.
LEMMA ClientStepLL ==
  ASSUME IInv, NEW m \in Mutexes, ClientStep(m)
  PROVE  LL!Next \/ UNCHANGED LL!vars
<1>1. CASE SetNXOk(m) \/ DelReply(m)
  BY <1>1, LeaveLL DEF SetNXOk, DelReply, Return, IInv, TypeOK, Types
<1>2. CASE SetNXNo(m) \/ GetReply(m)
  <2>1. CASE pc'[m] = "idle"
    <3>1. /\ pc' = [pc EXCEPT ![m] = "idle"]
          /\ \A n \in Mutexes \ {m} : lockValue'[n] = lockValue[n]
          /\ record' = record /\ late' = late
      BY <1>2, <2>1 DEF SetNXNo, GetReply, NotAcquired, Return, IInv, TypeOK, Types
    <3> QED BY <3>1, LeaveLL
  <2>2. CASE pc'[m] # "idle"
    <3>1. /\ pc[m] # "eval" /\ pc'[m] # "eval"
          /\ \A n \in Mutexes \ {m} : pc'[n] = pc[n]
          /\ lockValue' = lockValue /\ record' = record /\ late' = late
      BY <1>2, <2>2 DEF SetNXNo, GetReply, NotAcquired, Return, IInv, TypeOK, Types
    <3> QED BY <3>1, SameAskedLL
  <2> QED BY <2>1, <2>2
<1>3. CASE SpinTick(m)
  <2>1. pc' = [pc EXCEPT ![m] = "setnx"] /\ pc[m] # "eval"
    BY <1>3 DEF SpinTick, SendSetNX
  <2> QED BY <1>3, <2>1, SameAskedLL DEF SpinTick, IInv, TypeOK, Types
<1> QED BY <1>1, <1>2, <1>3 DEF ClientStep

\* SETNX maps to a Grant, the deletion to a Release, GET to a stutter.
LEMMA ServerStepLL ==
  ASSUME IInv, NEW m \in Mutexes, ServerStep(m)
  PROVE  LL!Next \/ UNCHANGED LL!vars
<1>1. CASE ExecGet(m)
  BY <1>1, SameAskedLL DEF ExecGet
<1>2. CASE ExecSetNX(m)
  <2>1. ReleaseAsked' = ReleaseAsked
    BY <1>2 DEF ReleaseAsked, ExecSetNX
  <2>2. arg[m] \in Values /\ opt[m].ttl \in TTLs
    BY <1>2 DEF ExecSetNX, IInv, TypeOK, Types, Frame, Options
  <2> QED BY <1>2, <2>1, <2>2, StutterLL, GrantLL DEF ExecSetNX, SetNX
<1>3. CASE ExecDel(m)
  <2>1. ReleaseAsked' = ReleaseAsked
    BY <1>3 DEF ReleaseAsked, ExecDel
  <2>2. lockValue[m] \in Values /\ lockValue[m] \in ReleaseAsked
    BY <1>3, AskedMember DEF ExecDel, IInv, TypeOK, Types, Frame
  <2> QED BY <1>3, <2>1, <2>2, StutterLL, ReleaseLL DEF ExecDel, DelIfValue
<1> QED BY <1>1, <1>2, <1>3 DEF ServerStep

\* Errors, retries and restarts change neither the key nor others' requests.
LEMMA FaultStepLL ==
  ASSUME IInv, NEW m \in Mutexes, FaultStep(m)
  PROVE  LL!Next \/ UNCHANGED LL!vars
<1>1. CASE Resend(m)
  BY <1>1, SameAskedLL DEF Resend
<1>2. CASE Fail(m) \/ Restart(m)
  BY <1>2, LeaveLL DEF Fail, Restart, Abandon, Return, IInv, TypeOK, Types
<1> QED BY <1>1, <1>2 DEF FaultStep

\* The Redis mutex implements the abstract lease lock: the key is granted only
\* when free and ends by time or by a release that its own owner asked for.
THEOREM Refinement == Spec => ImplementsLeaseLock
<1>1. IInv /\ [Next]_vars => [LL!Next]_(LL!vars)
  <2> SUFFICES ASSUME IInv, [Next]_vars PROVE [LL!Next]_(LL!vars)
    OBVIOUS
  <2>1. CASE UNCHANGED vars
    BY <2>1, SameAskedLL DEF vars
  <2>2. CASE Tick
    BY <2>2, TickLL
  <2>3. CASE \E c \in late : LateCommand(c)
    BY <2>3, LateCommandLL
  <2>4. CASE \E m \in Mutexes : UserStep(m) \/ ClientStep(m) \/ ServerStep(m) \/ FaultStep(m)
    BY <2>4, UserStepLL, ClientStepLL, ServerStepLL, FaultStepLL
  <2> QED BY <2>1, <2>2, <2>3, <2>4 DEF Next
<1> QED BY <1>1, InitLL, SpecIInv, PTL DEF Spec, ImplementsLeaseLock, LL!Spec

=============================================================================
