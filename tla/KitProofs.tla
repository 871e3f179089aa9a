------------------------------ MODULE KitProofs ------------------------------
(***************************************************************************)
(* Proofs about Kit, for every number of processes, machine numbers and    *)
(* calls and for every duration.  The claims and the lock helpers share    *)
(* nothing but the clock, so each has an inductive invariant of its own.   *)
(***************************************************************************)
EXTENDS Kit, TLAPS

(* What the assumptions say of the constants, in the form the proofs use.  *)
LEMMA ConstantFacts ==
    /\ Lease \in Nat /\ Lease > 0 /\ TTL \in Nat /\ TTL > 0
    /\ MaxTime \in Nat /\ MaxCalls \in Nat /\ Timeouts \subseteq Nat
    /\ None \notin Int /\ None \notin Nat /\ None \notin Numbers
    /\ None # "ok" /\ None # "error" /\ None # "busy"
BY KitAssumption

------------------------------------------------------------------------------
(***************************************************************************)
(* The lock helpers.                                                       *)
(***************************************************************************)
Calls == [pc : {"idle", "lock", "action", "unlock", "done"}, calls : 0..MaxCalls,
          waits : BOOLEAN, short : BOOLEAN, deadline : Nat,
          result : {None, "ok", "error", "busy"}]

Leases == [token : Procs \X (1..MaxCalls), until : 0..(MaxTime + TTL)]

(* The state of the helpers and of the lease has its shape.                *)
HelpTypes ==
    /\ now \in 0..MaxTime
    /\ help \in [Procs -> Calls]
    /\ \A p \in Procs : help[p].pc # "idle" => help[p].calls > 0
    /\ lock = None \/ lock \in Leases
    /\ lock # None => lock.until > now /\ lock.until <= now + TTL

(* A context that is not longer than a lease, and that ran before the      *)
(* lease began, ends within it: that is why the action is still backed by  *)
(* the lease of its own call as long as its context runs.                  *)
Backed ==
    \A p \in Procs :
        /\ help[p].pc = "lock" /\ help[p].short => help[p].deadline <= now + TTL
        /\ Within(p) => lock # None /\ lock.token = Token(p) /\ help[p].deadline <= lock.until

HelpInv == HelpTypes /\ Backed /\ NilMeansReleased

(* A lease is never taken for the absence of one.                          *)
LEMMA LeaseIsNotNone == \A l \in Leases : l # None
<1> SUFFICES ASSUME NEW l \in Leases PROVE l # None
  OBVIOUS
<1>1. l = [token |-> l.token, until |-> l.until]
  BY DEF Leases
<1>2. l.token \in Procs \X (1..MaxCalls) /\ l.until \in 0..(MaxTime + TTL)
  BY DEF Leases
<1> QED BY <1>1, <1>2, KitAssumption

(* Before any call there is no lease and no action.                        *)
LEMMA HelpInit == Init => HelpInv
<1> SUFFICES ASSUME Init PROVE HelpInv
  OBVIOUS
<1>1. HelpTypes
  BY ConstantFacts DEF Init, HelpTypes, Calls
<1>2. Backed /\ NilMeansReleased
  BY ConstantFacts DEF Init, Backed, Within, NilMeansReleased
<1> QED BY <1>1, <1>2 DEF HelpInv

(* Steps of the machine numbers leave the helpers alone.                   *)
LEMMA HelpSame == ASSUME HelpInv, UNCHANGED <<now, lockVars>> PROVE HelpInv'
<1> USE DEF lockVars
<1>1. HelpTypes'
  BY DEF HelpInv, HelpTypes
<1>2. Backed'
  BY DEF HelpInv, Backed, Within, Token
<1>3. NilMeansReleased'
  BY DEF HelpInv, NilMeansReleased, Token
<1> QED BY <1>1, <1>2, <1>3 DEF HelpInv

(* Time ends a lease only when the contexts it backs have ended.           *)
LEMMA HelpTick == ASSUME HelpInv, Tick PROVE HelpInv'
<1> USE ConstantFacts
<1>0. now \in 0..MaxTime /\ now' = now + 1 /\ now < MaxTime /\ help' = help
  BY DEF HelpInv, HelpTypes, Tick
<1>1. CASE lock = None
  <2>1. lock' = None
    BY <1>1 DEF Tick
  <2>2. HelpTypes'
    BY <1>0, <1>1, <2>1 DEF HelpInv, HelpTypes
  <2>3. Backed'
    BY <1>0, <1>1, <2>1 DEF HelpInv, HelpTypes, Calls, Backed, Within
  <2>4. NilMeansReleased'
    BY <2>1 DEF NilMeansReleased
  <2> QED BY <2>2, <2>3, <2>4 DEF HelpInv
<1>2. CASE lock # None
  <2>0. lock \in Leases /\ lock.until \in Nat /\ lock.until > now /\ lock.until <= now + TTL
    BY <1>2 DEF HelpInv, HelpTypes, Leases
  <2>1. lock' = IF lock.until <= now + 1 THEN None ELSE lock
    BY <1>2 DEF Tick
  <2>2. HelpTypes'
    BY <1>0, <2>0, <2>1 DEF HelpInv, HelpTypes
  <2>3. Backed'
    <3> SUFFICES ASSUME NEW p \in Procs
                 PROVE  /\ (help[p].pc = "lock" /\ help[p].short => help[p].deadline <= now + TTL)'
                        /\ Within(p)' => (lock # None /\ lock.token = Token(p) /\ help[p].deadline <= lock.until)'
      BY DEF Backed
    <3>0. help[p].deadline \in Nat
      BY DEF HelpInv, HelpTypes, Calls
    <3>1. (help[p].pc = "lock" /\ help[p].short => help[p].deadline <= now + TTL)'
      BY <1>0, <3>0 DEF HelpInv, Backed
    <3>2. ASSUME Within(p)'
          PROVE  (lock # None /\ lock.token = Token(p) /\ help[p].deadline <= lock.until)'
      <4>1. Within(p) /\ now + 1 < help[p].deadline
        BY <1>0, <3>0, <3>2 DEF Within
      <4>2. lock.token = Token(p) /\ help[p].deadline <= lock.until
        BY <4>1 DEF HelpInv, Backed
      <4>3. lock' = lock
        BY <1>0, <2>0, <2>1, <3>0, <4>1, <4>2
      <4> QED BY <1>0, <1>2, <4>2, <4>3 DEF Token
    <3> QED BY <3>1, <3>2
  <2>4. NilMeansReleased'
    BY <1>0, <2>1 DEF HelpInv, NilMeansReleased, Token
  <2> QED BY <2>2, <2>3, <2>4 DEF HelpInv
<1> QED BY <1>1, <1>2

(* A call of a helper changes its own record alone: what the step of p has *)
(* to show for the helpers' invariant.                                     *)
LEMMA HelpStep ==
    ASSUME HelpInv, NEW p \in Procs, NEW new \in Calls,
           help' = [help EXCEPT ![p] = new], now' = now,
           new.pc # "idle" => new.calls > 0,
           lock' = None \/ lock' \in Leases,
           lock' # None => lock'.until > now /\ lock'.until <= now + TTL,
           new.pc = "lock" /\ new.short => new.deadline <= now + TTL,
           \A q \in Procs \ {p} : lock # None /\ lock.token = Token(q) => lock' = lock,
           \A q \in Procs \ {p} : lock' # None /\ lock'.token = Token(q) => lock' = lock,
           Within(p)' => lock' # None /\ lock'.token = Token(p)' /\ new.deadline <= lock'.until,
           new.pc = "done" /\ new.result = "ok" => lock' = None \/ lock'.token # Token(p)'
    PROVE  HelpInv'
<1>0. /\ now \in 0..MaxTime
      /\ help \in [Procs -> Calls]
      /\ help'[p] = new
      /\ \A q \in Procs \ {p} : help'[q] = help[q]
  BY DEF HelpInv, HelpTypes
<1>1. HelpTypes'
  BY <1>0 DEF HelpInv, HelpTypes
<1>2. Backed'
  <2> SUFFICES ASSUME NEW q \in Procs
               PROVE  /\ (help[q].pc = "lock" /\ help[q].short => help[q].deadline <= now + TTL)'
                      /\ Within(q)' => (lock # None /\ lock.token = Token(q) /\ help[q].deadline <= lock.until)'
    BY DEF Backed
  <2>1. CASE q = p
    BY <1>0, <2>1
  <2>2. CASE q # p
    <3>1. help'[q] = help[q] /\ Token(q)' = Token(q) /\ (Within(q)' => Within(q))
      BY <1>0, <2>2 DEF Token, Within
    <3>2. Within(q) => lock # None /\ lock.token = Token(q) /\ help[q].deadline <= lock.until
      BY DEF HelpInv, Backed
    <3>3. Within(q) => lock' = lock
      BY <2>2, <3>2
    <3>4. help[q].pc = "lock" /\ help[q].short => help[q].deadline <= now + TTL
      BY DEF HelpInv, Backed
    <3> QED BY <3>1, <3>2, <3>3, <3>4
  <2> QED BY <2>1, <2>2
<1>3. NilMeansReleased'
  <2> SUFFICES ASSUME NEW q \in Procs, (help[q].pc = "done" /\ help[q].result = "ok")'
               PROVE  (lock = None \/ lock.token # Token(q))'
    BY DEF NilMeansReleased
  <2>1. CASE q = p
    BY <1>0, <2>1
  <2>2. CASE q # p
    <3>1. help'[q] = help[q] /\ Token(q)' = Token(q)
      BY <1>0, <2>2 DEF Token
    <3>2. lock = None \/ lock.token # Token(q)
      BY <3>1 DEF HelpInv, NilMeansReleased
    <3> QED BY <2>2, <3>1, <3>2
  <2> QED BY <2>1, <2>2
<1> QED BY <1>1, <1>2, <1>3 DEF HelpInv

(* A new call has a context not longer than asked, and no lease yet.       *)
LEMMA HelpMutexDo == ASSUME HelpInv, NEW p \in Procs, MutexDo(p) PROVE HelpInv'
<1> USE ConstantFacts
<1>1. PICK given \in Timeouts \cup {None}, waits \in BOOLEAN :
        help' = [help EXCEPT ![p] =
            [pc |-> "lock", calls |-> help[p].calls + 1, waits |-> waits,
             short |-> given = None \/ given <= TTL,
             deadline |-> now + (IF given = None THEN DefaultTimeout ELSE given), result |-> None]]
  BY DEF MutexDo, Helping
<1> DEFINE new == [pc |-> "lock", calls |-> help[p].calls + 1, waits |-> waits,
                   short |-> given = None \/ given <= TTL,
                   deadline |-> now + (IF given = None THEN DefaultTimeout ELSE given),
                   result |-> None]
<1>2. now' = now /\ lock' = lock /\ help[p].calls < MaxCalls
  BY DEF MutexDo, Helping
<1>3. now \in 0..MaxTime /\ help[p].calls \in 0..MaxCalls
  BY DEF HelpInv, HelpTypes, Calls
<1>4. new \in Calls /\ new.calls > 0 /\ (new.short => new.deadline <= now + TTL)
  <2>1. (given = None \/ given <= TTL) \in BOOLEAN
    OBVIOUS
  <2>2. now + (IF given = None THEN DefaultTimeout ELSE given) \in Nat
    <3>1. TTL \in Nat /\ (given # None => given \in Nat) /\ now \in Nat
      BY <1>3, ConstantFacts
    <3> QED BY <3>1 DEF DefaultTimeout
  <2>3. given = None \/ given <= TTL =>
          now + (IF given = None THEN DefaultTimeout ELSE given) <= now + TTL
    BY <1>3 DEF DefaultTimeout
  <2>4. help[p].calls + 1 \in 0..MaxCalls /\ help[p].calls + 1 > 0
    BY <1>2, <1>3
  <2> QED BY <2>1, <2>2, <2>3, <2>4 DEF Calls
<1>5. help' = [help EXCEPT ![p] = new]
  BY <1>1
<1>6. ~Within(p)' /\ new.pc # "done"
  <2>1. help'[p] = new
    BY <1>5 DEF HelpInv, HelpTypes
  <2> QED BY <2>1 DEF Within
<1>7. (lock = None \/ lock \in Leases) /\ (lock # None => lock.until > now /\ lock.until <= now + TTL)
  BY DEF HelpInv, HelpTypes
<1> HIDE DEF new
<1> QED BY <1>2, <1>4, <1>5, <1>6, <1>7, HelpStep

(* The calls that are under way have a token of their own process.         *)
LEMMA TokensApart ==
    ASSUME HelpInv, NEW p \in Procs, NEW q \in Procs, Token(p) = Token(q) PROVE p = q
BY DEF Token

(* A call that is over has its shape.                                      *)
LEMMA OverFacts ==
    ASSUME HelpInv, NEW p \in Procs, help[p].pc # "idle", NEW r \in {"ok", "error", "busy"}
    PROVE  /\ Over(p, r) \in Calls /\ Over(p, r).calls > 0
           /\ Over(p, r).pc = "done" /\ Over(p, r).result = r
BY DEF HelpInv, HelpTypes, Calls, Over

(* A helper that returns with an error, or that finds the lock held.       *)
LEMMA HelpOver ==
    ASSUME HelpInv, NEW p \in Procs, help[p].pc # "idle", NEW r \in {"error", "busy"},
           Helping(p, Over(p, r)),
           lock' = None \/ lock' \in Leases,
           lock' # None => lock'.until > now /\ lock'.until <= now + TTL,
           \A q \in Procs \ {p} : lock # None /\ lock.token = Token(q) => lock' = lock,
           \A q \in Procs \ {p} : lock' # None /\ lock'.token = Token(q) => lock' = lock
    PROVE  HelpInv'
<1>1. /\ Over(p, r) \in Calls /\ Over(p, r).calls > 0
      /\ Over(p, r).pc = "done" /\ Over(p, r).result # "ok"
  BY OverFacts
<1>2. help' = [help EXCEPT ![p] = Over(p, r)] /\ now' = now
  BY DEF Helping
<1>3. ~Within(p)'
  BY <1>1, <1>2 DEF Within, HelpInv, HelpTypes
<1> QED BY <1>1, <1>2, <1>3, HelpStep

(* TryLock or a round of Lock: a grant starts a lease that outlasts the    *)
(* context, since nobody was within one.                                   *)
LEMMA HelpAcquire == ASSUME HelpInv, NEW p \in Procs, Acquire(p) PROVE HelpInv'
<1> USE ConstantFacts
<1>0. /\ help[p].pc = "lock" /\ now \in 0..MaxTime /\ help[p] \in Calls /\ help[p].calls \in 1..MaxCalls
      /\ lock = None \/ lock \in Leases
      /\ lock # None => lock.until > now /\ lock.until <= now + TTL
  BY DEF Acquire, HelpInv, HelpTypes, Calls
<1>1. CASE \E r \in {"error", "busy"} : Helping(p, Over(p, r)) /\ lock' = lock
  BY <1>0, <1>1, HelpOver
<1>2. CASE /\ lock = None /\ ~CtxDone(p)
           /\ lock' = [token |-> Token(p), until |-> now + TTL]
           /\ Helping(p, [help[p] EXCEPT !.pc = "action"]) \/ Helping(p, Over(p, "error"))
  <2>1. lock' \in Leases /\ lock'.until = now + TTL /\ lock'.token = Token(p)
    BY <1>0, <1>2 DEF Leases, Token
  <2>2. \A q \in Procs \ {p} : lock'.token # Token(q)
    BY <2>1, TokensApart
  <2>3. CASE Helping(p, Over(p, "error"))
    BY <1>0, <1>2, <2>1, <2>2, <2>3, HelpOver
  <2>4. CASE Helping(p, [help[p] EXCEPT !.pc = "action"])
    <3> DEFINE new == [help[p] EXCEPT !.pc = "action"]
    <3>1. new \in Calls /\ new.pc = "action" /\ new.calls > 0 /\ new.short = help[p].short
          /\ new.deadline = help[p].deadline /\ new.calls = help[p].calls
      BY <1>0 DEF Calls
    <3>2. help' = [help EXCEPT ![p] = new] /\ now' = now /\ help'[p] = new
      BY <2>4 DEF Helping, HelpInv, HelpTypes
    <3>3. Token(p)' = Token(p)
      BY <3>1, <3>2 DEF Token
    <3>4. Within(p)' => new.deadline <= now + TTL
      BY <1>0, <3>1, <3>2 DEF Within, HelpInv, Backed
    <3>5. lock' # None
      BY <2>1, LeaseIsNotNone
    <3>6. lock'.until > now /\ lock'.until <= now + TTL
      BY <1>0, <2>1
    <3>7. \A q \in Procs \ {p} : lock # None /\ lock.token = Token(q) => lock' = lock
      BY <1>2
    <3>8. \A q \in Procs \ {p} : lock' # None /\ lock'.token = Token(q) => lock' = lock
      BY <2>2
    <3>9. Within(p)' => lock' # None /\ lock'.token = Token(p)' /\ new.deadline <= lock'.until
      BY <2>1, <3>3, <3>4, <3>5
    <3> HIDE DEF new
    <3>10. /\ new \in Calls /\ help' = [help EXCEPT ![p] = new] /\ now' = now
           /\ new.pc # "idle" => new.calls > 0
           /\ new.pc = "lock" /\ new.short => new.deadline <= now + TTL
           /\ new.pc = "done" /\ new.result = "ok" => lock' = None \/ lock'.token # Token(p)'
      BY <3>1, <3>2
    <3>11. lock' = None \/ lock' \in Leases
      BY <2>1
    <3> QED BY <3>6, <3>7, <3>8, <3>9, <3>10, <3>11, HelpStep
  <2> QED BY <1>2, <2>3, <2>4
<1> QED BY <1>1, <1>2 DEF Acquire

(* The action returns: its call is no longer within the lock.              *)
LEMMA HelpEndAction == ASSUME HelpInv, NEW p \in Procs, EndAction(p) PROVE HelpInv'
<1>1. PICK r \in {"ok", "error"} : Helping(p, [help[p] EXCEPT !.pc = "unlock", !.result = r])
  BY DEF EndAction
<1> DEFINE new == [help[p] EXCEPT !.pc = "unlock", !.result = r]
<1>2. help[p].pc = "action" /\ help[p] \in Calls /\ help[p].calls > 0 /\ lock' = lock
  BY DEF EndAction, HelpInv, HelpTypes
<1>3. new \in Calls /\ new.pc = "unlock" /\ new.calls > 0
  BY <1>2 DEF Calls
<1>4. help' = [help EXCEPT ![p] = new] /\ now' = now /\ help'[p] = new
  BY <1>1 DEF Helping, HelpInv, HelpTypes
<1>5. ~Within(p)'
  BY <1>3, <1>4 DEF Within
<1>6. (lock = None \/ lock \in Leases) /\ (lock # None => lock.until > now /\ lock.until <= now + TTL)
  BY DEF HelpInv, HelpTypes
<1> HIDE DEF new
<1> QED BY <1>2, <1>3, <1>4, <1>5, <1>6, HelpStep

(* The deferred Unlock ends the lease of its own call only.                *)
LEMMA HelpUnlock == ASSUME HelpInv, NEW p \in Procs, Unlock(p) PROVE HelpInv'
<1> USE DEF UnlockError
<1>0. /\ help[p].pc = "unlock" /\ help[p].pc # "idle" /\ help[p] \in Calls
      /\ lock = None \/ lock \in Leases
      /\ lock # None => lock.until > now /\ lock.until <= now + TTL
  BY DEF Unlock, HelpInv, HelpTypes
<1>1. CASE Helping(p, Over(p, "error")) /\ lock' = lock
  BY <1>0, <1>1, HelpOver
<1>2. ASSUME Own(p), lock' = None
      PROVE  \A q \in Procs \ {p} : lock # None => lock.token # Token(q)
  BY <1>2, TokensApart DEF Own
<1>3. CASE Own(p) /\ Helping(p, Over(p, "error")) /\ lock' = None
  BY <1>0, <1>2, <1>3, HelpOver
<1>4. CASE Own(p) /\ Helping(p, Over(p, help[p].result)) /\ lock' = None
  <2> DEFINE new == Over(p, help[p].result)
  <2>1. new \in Calls /\ new.pc = "done" /\ new.calls > 0
    BY <1>0 DEF Over, Calls, HelpInv, HelpTypes
  <2>2. help' = [help EXCEPT ![p] = new] /\ now' = now /\ help'[p] = new
    BY <1>4 DEF Helping, HelpInv, HelpTypes
  <2>3. ~Within(p)'
    BY <2>1, <2>2 DEF Within
  <2> HIDE DEF new
  <2> QED BY <1>2, <1>4, <2>1, <2>2, <2>3, HelpStep
<1> QED BY <1>1, <1>3, <1>4 DEF Unlock

(* Claims and IDs touch neither the clock nor the lock.                    *)
LEMMA NumberingKeepsHelp ==
    ASSUME NEW p \in Procs, Numbering(p) PROVE UNCHANGED <<now, lockVars>>
BY DEF Numbering, NewDefaultKit, GiveUp, TryRedis, Find, Insert, Update, Restart, NextID, Same

(* Every step keeps the invariant of the helpers.                          *)
LEMMA HelpNext == HelpInv /\ [Next]_vars => HelpInv'
<1> SUFFICES ASSUME HelpInv, [Next]_vars PROVE HelpInv'
  OBVIOUS
<1>1. CASE UNCHANGED vars
  BY <1>1, HelpSame DEF vars
<1>2. CASE Tick
  BY <1>2, HelpTick
<1>3. CASE \E n \in Numbers : Purge(n)
  BY <1>3, HelpSame DEF Purge, Same
<1>4. CASE \E p \in Procs : Numbering(p)
  BY <1>4, NumberingKeepsHelp, HelpSame
<1>5. CASE \E p \in Procs : MutexDo(p) \/ Acquire(p) \/ EndAction(p) \/ Unlock(p)
  BY <1>5, HelpMutexDo, HelpAcquire, HelpEndAction, HelpUnlock
<1> QED BY <1>1, <1>2, <1>3, <1>4, <1>5 DEF Next

(* The invariant of the helpers holds throughout.                          *)
LEMMA SpecHelpInv == Spec => []HelpInv
<1> QED BY HelpInit, HelpNext, PTL DEF Spec

(* Actions run by the helpers under contexts that are not longer than a    *)
(* lease exclude each other while their contexts run (dkit.go MutexDo,     *)
(* MutexTryDo), however many processes call and whatever answer is lost.   *)
THEOREM ActionsExclude == Spec => []ActionsExclusive
<1>1. HelpInv => ActionsExclusive
  <2> SUFFICES ASSUME HelpInv, NEW p \in Procs, NEW q \in Procs, Within(p), Within(q)
               PROVE  p = q
    BY DEF ActionsExclusive
  <2>1. lock.token = Token(p) /\ lock.token = Token(q)
    BY DEF HelpInv, Backed
  <2> QED BY <2>1, TokensApart
<1> QED BY <1>1, SpecHelpInv, PTL

(* A helper that returned nil left no lease of its own behind (dkit.go,    *)
(* the deferred Unlock).                                                   *)
THEOREM ReleasedOnNil == Spec => []NilMeansReleased
<1>1. HelpInv => NilMeansReleased
  BY DEF HelpInv
<1> QED BY <1>1, SpecHelpInv, PTL

------------------------------------------------------------------------------
(***************************************************************************)
(* The helpers keep to the contract of the lease lock.                     *)
(***************************************************************************)
(* What the refinement mapping makes of the lock and of the helpers.       *)
Mapped == IF lock = None THEN [value |-> None, ttl |-> 0]
          ELSE [value |-> lock.token, ttl |-> lock.until - now]
Asked == {Token(p) : p \in {q \in Procs : help[q].pc = "unlock"}}

(* The calls that wait for their Unlock, by token.                         *)
LEMMA AskedMember == \A o : o \in Asked <=> \E q \in Procs : help[q].pc = "unlock" /\ o = Token(q)
BY DEF Asked

(* The same in the next state.                                             *)
LEMMA AskedMemberNext ==
    \A o : o \in Asked' <=> \E q \in Procs : help'[q].pc = "unlock" /\ o = Token(q)'
BY DEF Asked

(* The lease is free at first and nobody asked for its release.            *)
LEMMA ContractInit == Init => Contract!Init
BY DEF Init, Contract!Init, Contract!Free

(* A step that changes neither image is a stutter of the contract.         *)
LEMMA ContractSame ==
    ASSUME Mapped' = Mapped, Asked' = Asked PROVE UNCHANGED Contract!vars
BY DEF Contract!vars, Mapped, Asked

(* The steps of the contract, in terms of the mapping.                     *)
LEMMA GrantStep ==
    ASSUME NEW o \in Procs \X (1..MaxCalls), Mapped = [value |-> None, ttl |-> 0],
           Mapped' = [value |-> o, ttl |-> TTL], Asked' = Asked
    PROVE  Contract!Next
BY DEF Contract!Next, Contract!Grant, Contract!Free, Mapped, Asked

(* A release of the own lease is one of the contract.                      *)
LEMMA ReleaseStep ==
    ASSUME NEW o \in Procs \X (1..MaxCalls), Mapped.value = o, o \in Asked,
           Mapped' = [value |-> None, ttl |-> 0], Asked' = Asked \ {o}
    PROVE  Contract!Next
BY DEF Contract!Next, Contract!Release, Contract!Free, Mapped, Asked

(* An action that ends, or an Unlock that is over, is an Ask.              *)
LEMMA AskStep ==
    ASSUME NEW o \in Procs \X (1..MaxCalls), Mapped' = Mapped,
           Asked' \in {Asked \cup {o}, Asked \ {o}}
    PROVE  Contract!Next
BY DEF Contract!Next, Contract!Ask, Mapped, Asked

(* Numbers, and the steps of a helper that neither grant nor release.      *)
LEMMA SameLock ==
    ASSUME HelpInv, NEW p \in Procs, NEW new \in Calls, help' = [help EXCEPT ![p] = new],
           now' = now, lock' = lock, help[p].pc # "unlock", new.pc # "unlock"
    PROVE  UNCHANGED Contract!vars
<1>1. Mapped' = Mapped
  BY DEF Mapped
<1>2. /\ help'[p] = new
      /\ \A q \in Procs \ {p} : help'[q] = help[q] /\ Token(q)' = Token(q)
  BY DEF HelpInv, HelpTypes, Token
<1>3. \A o : o \in Asked' <=> o \in Asked
  BY <1>2, AskedMember, AskedMemberNext
<1>4. Asked' = Asked
  BY <1>3
<1> QED BY <1>1, <1>4, ContractSame

(* Time is the passing of the lease.                                       *)
LEMMA ContractTick == ASSUME HelpInv, Tick PROVE Contract!Next \/ UNCHANGED Contract!vars
<1> USE ConstantFacts
<1>0. now \in Nat /\ now' = now + 1 /\ help' = help
  BY DEF HelpInv, HelpTypes, Tick
<1>1. Asked' = Asked
  BY <1>0 DEF Asked, Token
<1>2. CASE lock = None
  BY <1>1, <1>2, ContractSame DEF Tick, Mapped
<1>3. CASE lock # None
  <2>1. /\ lock \in Leases /\ lock.until \in Nat /\ lock.until > now
        /\ lock.token \in Procs \X (1..MaxCalls)
    BY <1>3 DEF HelpInv, HelpTypes, Leases
  <2>2. None # lock.token
    BY <2>1, KitAssumption DEF Leases
  <2>3. Mapped = [value |-> lock.token, ttl |-> lock.until - now]
    BY <1>3 DEF Mapped
  <2>4. lock' = IF lock.until <= now + 1 THEN None ELSE lock
    BY <1>3 DEF Tick
  <2>5. Mapped' = IF Mapped.ttl > 1 THEN [Mapped EXCEPT !.ttl = @ - 1]
                  ELSE [value |-> None, ttl |-> 0]
    <3>1. CASE lock.until <= now + 1
      BY <1>0, <2>1, <2>3, <2>4, <3>1 DEF Mapped
    <3>2. CASE ~(lock.until <= now + 1)
      <4>1. lock' = lock /\ Mapped.ttl > 1
        BY <1>0, <2>1, <2>3, <2>4, <3>2
      <4>2. Mapped' = [value |-> lock.token, ttl |-> lock.until - (now + 1)]
        BY <1>0, <1>3, <4>1 DEF Mapped
      <4>3. [Mapped EXCEPT !.ttl = @ - 1] = [value |-> lock.token, ttl |-> (lock.until - now) - 1]
        BY <2>3
      <4> QED BY <1>0, <2>1, <4>1, <4>2, <4>3
    <3> QED BY <3>1, <3>2
  <2>6. Mapped # [value |-> None, ttl |-> 0]
    BY <2>2, <2>3
  <2>7. Contract!Pass
    BY <1>1, <2>5, <2>6 DEF Contract!Pass, Contract!Free, Mapped, Asked
  <2> QED BY <2>7 DEF Contract!Next
<1> QED BY <1>2, <1>3

(* TryLock and a round of Lock grant a free lease or stutter.              *)
LEMMA ContractAcquire ==
    ASSUME HelpInv, NEW p \in Procs, Acquire(p) PROVE Contract!Next \/ UNCHANGED Contract!vars
<1> USE ConstantFacts
<1>0. /\ help[p].pc = "lock" /\ help[p] \in Calls /\ help[p].calls \in 1..MaxCalls /\ now \in Nat
  BY DEF Acquire, HelpInv, HelpTypes, Calls
<1>1. PICK new \in Calls : /\ help' = [help EXCEPT ![p] = new] /\ now' = now
                           /\ new.pc # "unlock"
  <2>1. [help[p] EXCEPT !.pc = "action"] \in Calls /\ [help[p] EXCEPT !.pc = "action"].pc = "action"
    BY <1>0 DEF Calls
  <2>2. \A r \in {"error", "busy"} : Over(p, r) \in Calls /\ Over(p, r).pc = "done"
    BY <1>0, OverFacts
  <2> QED BY <2>1, <2>2 DEF Acquire, Helping
<1>2. CASE lock' = lock
  BY <1>0, <1>1, <1>2, SameLock
<1>3. CASE lock = None /\ lock' = [token |-> Token(p), until |-> now + TTL]
  <2>1. Token(p) \in Procs \X (1..MaxCalls)
    BY <1>0 DEF Token
  <2>2. lock' # None
    <3>1. lock' \in Leases
      BY <1>0, <1>3, <2>1 DEF Leases, HelpInv, HelpTypes
    <3> QED BY <3>1, LeaseIsNotNone
  <2>3. Mapped = [value |-> None, ttl |-> 0] /\ Mapped' = [value |-> Token(p), ttl |-> TTL]
    <3>1. Mapped' = [value |-> Token(p), ttl |-> (now + TTL) - now]
      BY <1>1, <1>3, <2>2 DEF Mapped
    <3> QED BY <1>0, <1>3, <3>1 DEF Mapped
  <2>4. /\ help'[p] = new
        /\ \A q \in Procs \ {p} : help'[q] = help[q] /\ Token(q)' = Token(q)
    BY <1>1 DEF HelpInv, HelpTypes, Token
  <2>5. \A o : o \in Asked' <=> o \in Asked
    BY <1>0, <1>1, <2>4, AskedMember, AskedMemberNext
  <2>6. Asked' = Asked
    BY <2>5
  <2> QED BY <2>1, <2>3, <2>6, GrantStep
<1>4. lock' = lock \/ (lock = None /\ lock' = [token |-> Token(p), until |-> now + TTL])
  BY DEF Acquire
<1> QED BY <1>2, <1>3, <1>4

(* The end of the action asks for the release.                             *)
LEMMA ContractEndAction ==
    ASSUME HelpInv, NEW p \in Procs, EndAction(p) PROVE Contract!Next
<1>0. /\ help[p].pc = "action" /\ help[p] \in Calls /\ help[p].calls \in 1..MaxCalls
      /\ now' = now /\ lock' = lock
  BY ConstantFacts DEF EndAction, Helping, HelpInv, HelpTypes, Calls
<1>1. /\ help'[p].pc = "unlock" /\ help'[p].calls = help[p].calls
      /\ \A q \in Procs \ {p} : help'[q] = help[q]
  BY DEF EndAction, Helping, HelpInv, HelpTypes, Calls
<1>2. \A q \in Procs : Token(q)' = Token(q)
  BY <1>1 DEF Token
<1>3. \A o : o \in Asked' <=> o \in Asked \/ o = Token(p)
  BY <1>0, <1>1, <1>2, AskedMember, AskedMemberNext
<1>4. Asked' = Asked \cup {Token(p)} /\ Mapped' = Mapped
  BY <1>0, <1>3 DEF Mapped
<1>5. Token(p) \in Procs \X (1..MaxCalls)
  BY <1>0 DEF Token
<1> QED BY <1>4, <1>5, AskStep

(* Unlock releases the own lease or withdraws its request.                 *)
LEMMA ContractUnlock ==
    ASSUME HelpInv, NEW p \in Procs, Unlock(p) PROVE Contract!Next
<1> USE DEF UnlockError
<1>0. /\ help[p].pc = "unlock" /\ help[p] \in Calls /\ help[p].calls \in 1..MaxCalls
  BY ConstantFacts DEF Unlock, HelpInv, HelpTypes, Calls
<1>r. PICK r \in {"error", help[p].result} : Helping(p, Over(p, r))
  BY DEF Unlock
<1>1. /\ help'[p].pc = "done" /\ help'[p].calls = help[p].calls /\ now' = now
      /\ \A q \in Procs \ {p} : help'[q] = help[q]
  <2>1. Over(p, r).pc = "done" /\ Over(p, r).calls = help[p].calls
    BY <1>0 DEF Over, Calls
  <2> QED BY <1>r, <2>1 DEF Helping, HelpInv, HelpTypes
<1>2. \A q \in Procs : Token(q)' = Token(q)
  BY <1>1 DEF Token
<1>3. \A o : o \in Asked' <=> o \in Asked /\ o # Token(p)
  <2>1. \A q \in Procs \ {p} : Token(q) # Token(p)
    BY TokensApart
  <2> QED BY <1>0, <1>1, <1>2, <2>1, AskedMember, AskedMemberNext
<1>4. Asked' = Asked \ {Token(p)} /\ Token(p) \in Asked
  BY <1>0, <1>3, AskedMember
<1>5. Token(p) \in Procs \X (1..MaxCalls)
  BY <1>0 DEF Token
<1>6. CASE lock' = lock
  <2>1. Mapped' = Mapped
    BY <1>1, <1>6 DEF Mapped
  <2> QED BY <1>4, <1>5, <2>1, AskStep
<1>7. CASE Own(p) /\ lock' = None
  <2>1. Mapped.value = Token(p) /\ Mapped' = [value |-> None, ttl |-> 0]
    BY <1>7 DEF Mapped, Own
  <2> QED BY <1>4, <1>5, <2>1, ReleaseStep
<1> QED BY <1>6, <1>7 DEF Unlock

(* A new call has nothing to do with the lease yet.                        *)
LEMMA ContractMutexDo ==
    ASSUME HelpInv, NEW p \in Procs, MutexDo(p) PROVE UNCHANGED Contract!vars
<1>1. /\ help[p].pc \in {"idle", "done"} /\ now' = now /\ lock' = lock
      /\ help'[p].pc = "lock"
      /\ \A q \in Procs \ {p} : help'[q] = help[q] /\ Token(q)' = Token(q)
  BY DEF MutexDo, Helping, HelpInv, HelpTypes, Token
<1>2. \A o : o \in Asked' <=> o \in Asked
  BY <1>1, AskedMember, AskedMemberNext
<1>3. Asked' = Asked /\ Mapped' = Mapped
  BY <1>1, <1>2 DEF Mapped
<1> QED BY <1>3, ContractSame

(* Whatever fails, the helpers take, keep and release the lease the way    *)
(* the contract of the mutex has it: they never release another call's.    *)
THEOREM HelpersKeepContract == Spec => KeepsLeaseLock
<1>1. HelpInv /\ [Next]_vars => [Contract!Next]_(Contract!vars)
  <2> SUFFICES ASSUME HelpInv, [Next]_vars PROVE Contract!Next \/ UNCHANGED Contract!vars
    OBVIOUS
  <2>0. ASSUME UNCHANGED <<now, lockVars>> PROVE UNCHANGED Contract!vars
    BY <2>0, ContractSame DEF lockVars, Mapped, Asked, Token
  <2>1. CASE UNCHANGED vars
    BY <2>0, <2>1 DEF vars
  <2>2. CASE Tick
    BY <2>2, ContractTick
  <2>3. CASE \E n \in Numbers : Purge(n)
    BY <2>0, <2>3 DEF Purge, Same
  <2>4. CASE \E p \in Procs : Numbering(p)
    BY <2>0, <2>4, NumberingKeepsHelp
  <2>5. CASE \E p \in Procs : MutexDo(p) \/ Acquire(p) \/ EndAction(p) \/ Unlock(p)
    BY <2>5, ContractMutexDo, ContractAcquire, ContractEndAction, ContractUnlock
  <2> QED BY <2>1, <2>2, <2>3, <2>4, <2>5 DEF Next
<1> QED BY <1>1, ContractInit, SpecHelpInv, PTL DEF Spec, KeepsLeaseLock, Contract!Spec

------------------------------------------------------------------------------
(***************************************************************************)
(* Machine numbers and IDs.                                                *)
(***************************************************************************)
Kits == [pc : {"none", "try", "insert", "update", "ready", "failed"}, life : Nat,
         left : SUBSET Numbers, num : Numbers \cup {None}, found : Nat \cup {None},
         until : Nat, time : Int, seq : Int]

IDs == [id : Nat \X Int \X Numbers, by : Procs \X Nat, covered : BOOLEAN]

(* A claim that lasts, with the number it is for.                          *)
Holds(p, n) == kit[p].pc = "ready" /\ now < kit[p].until /\ kit[p].num = n

ClaimTypes ==
    /\ now \in Nat
    /\ claims \in [Numbers -> Nat \cup {None}]
    /\ kit \in [Procs -> Kits]
    /\ issued \subseteq IDs
    /\ \A p \in Procs : kit[p].pc \in {"insert", "update", "ready"} => kit[p].num \in Numbers

(* What a process saw or took, against the backend: a takeover was decided *)
(* on a claim that had ended, and a claim that lasts is still there.       *)
ClaimBacked ==
    \A p \in Procs :
        /\ kit[p].pc = "update" => kit[p].found \in Nat /\ kit[p].found < now
        /\ kit[p].pc = "ready" /\ now < kit[p].until => claims[kit[p].num] = kit[p].until

(* An ID made in this unit of time under a claim that covers it: the claim *)
(* stays written and nobody but its maker holds the number before the unit *)
(* is over, even when the maker has ended.                                 *)
Instants ==
    \A x \in issued :
        /\ x.id[1] <= UnitOf(now)
        /\ x.covered /\ x.id[1] = UnitOf(now) =>
             /\ claims[x.id[3]] \in Nat /\ UnitEnd(now) <= claims[x.id[3]]
             /\ \A q \in Procs : Holds(q, x.id[3]) => x.by = <<q, kit[q].life>>

ClaimInv == ClaimTypes /\ ClaimBacked /\ ClaimsExclusive /\ Instants /\ IDsUnique

(* What the proofs use of the units of time.                               *)
LEMMA Units ==
    ASSUME NEW t \in Nat
    PROVE  /\ UnitOf(t) \in Nat /\ UnitEnd(t) \in Nat /\ t < UnitEnd(t)
           /\ UnitOf(t + 1) = UnitOf(t) \/ UnitOf(t) < UnitOf(t + 1)
           /\ UnitOf(t + 1) = UnitOf(t) => UnitEnd(t + 1) = UnitEnd(t)
<1>0. Unit \in Nat /\ Unit > 0
  BY KitAssumption
<1>1. ASSUME NEW s \in Nat
      PROVE  /\ UnitOf(s) \in Nat /\ UnitEnd(s) \in Nat
             /\ UnitOf(s) * Unit <= s /\ s < UnitEnd(s)
  <2>1. s \div Unit \in Nat /\ s % Unit \in Nat /\ s % Unit < Unit
    BY <1>0
  <2>2. s = Unit * (s \div Unit) + (s % Unit)
    BY <1>0
  <2> QED BY <1>0, <2>1, <2>2 DEF UnitOf, UnitEnd
<1>2. UnitOf(t) <= UnitOf(t + 1)
  <2> SUFFICES ASSUME UnitOf(t + 1) < UnitOf(t) PROVE FALSE
    BY <1>1
  <2>1. UnitOf(t + 1) + 1 <= UnitOf(t)
    BY <1>1
  <2>2. \A i, j \in Nat : i <= j => i * Unit <= j * Unit
    BY <1>0
  <2>3. UnitEnd(t + 1) <= UnitOf(t) * Unit
    BY <1>1, <2>1, <2>2 DEF UnitEnd
  <2>4. t + 1 < UnitEnd(t + 1) /\ UnitOf(t) * Unit <= t
    BY <1>1
  <2> QED BY <1>0, <1>1, <2>3, <2>4
<1>3. UnitOf(t + 1) = UnitOf(t) => UnitEnd(t + 1) = UnitEnd(t)
  BY DEF UnitEnd
<1> QED BY <1>1, <1>2, <1>3

(* Before any claim the invariant of the numbers holds.                    *)
LEMMA ClaimInit == Init => ClaimInv
<1> SUFFICES ASSUME Init PROVE ClaimInv
  OBVIOUS
<1> USE ConstantFacts
<1>1. NoKit(1) \in Kits /\ NoKit(1).pc = "none"
  BY DEF NoKit, Kits
<1>2. ClaimTypes
  BY <1>1 DEF Init, ClaimTypes
<1>3. ClaimBacked /\ ClaimsExclusive /\ Instants /\ IDsUnique
  BY <1>1 DEF Init, ClaimBacked, ClaimsExclusive, Instants, IDsUnique
<1> QED BY <1>2, <1>3 DEF ClaimInv

(* Steps of the lock helpers leave the numbers alone.                      *)
LEMMA ClaimSame ==
    ASSUME ClaimInv, now' = now, claims' = claims, kit' = kit, issued' = issued PROVE ClaimInv'
BY DEF ClaimInv, ClaimTypes, ClaimBacked, ClaimsExclusive, Instants, Holds, IDsUnique

(* Time ends claims, none of those that cover this unit of sonyflake's.    *)
LEMMA ClaimTick == ASSUME ClaimInv, Tick PROVE ClaimInv'
<1> USE ConstantFacts
<1>0. now \in Nat /\ now' = now + 1 /\ kit' = kit /\ issued' = issued
  BY DEF ClaimInv, ClaimTypes, Tick
<1>1. \A n \in Numbers : claims'[n] = claims[n] \/ (claims'[n] = None /\ claims[n] <= now + 1)
  BY DEF Tick
<1>2. ClaimTypes'
  <2>1. claims' \in [Numbers -> Nat \cup {None}]
    BY DEF Tick, ClaimInv, ClaimTypes
  <2> QED BY <1>0, <2>1 DEF ClaimInv, ClaimTypes
<1>3. ClaimBacked'
  <2> SUFFICES ASSUME NEW p \in Procs
               PROVE  /\ kit[p].pc = "update" => kit[p].found \in Nat /\ kit[p].found < now'
                      /\ kit[p].pc = "ready" /\ now' < kit[p].until => claims'[kit[p].num] = kit[p].until
    BY <1>0 DEF ClaimBacked
  <2>1. kit[p].pc = "update" => kit[p].found \in Nat /\ kit[p].found < now'
    BY <1>0 DEF ClaimInv, ClaimBacked
  <2>2. ASSUME kit[p].pc = "ready", now' < kit[p].until PROVE claims'[kit[p].num] = kit[p].until
    <3>1. kit[p].until \in Nat /\ kit[p].num \in Numbers
      BY <2>2 DEF ClaimInv, ClaimTypes, Kits
    <3>2. claims[kit[p].num] = kit[p].until
      BY <1>0, <2>2, <3>1 DEF ClaimInv, ClaimBacked
    <3> QED BY <1>0, <1>1, <2>2, <3>1, <3>2
  <2> QED BY <2>1, <2>2
<1>4. ClaimsExclusive'
  <2>1. \A p \in Procs : kit[p].until \in Nat
    BY DEF ClaimInv, ClaimTypes, Kits
  <2>2. \A p \in Procs : now' < kit[p].until => now < kit[p].until
    BY <1>0, <2>1
  <2> QED BY <1>0, <2>2 DEF ClaimInv, ClaimsExclusive
<1>5. Instants'
  <2> SUFFICES ASSUME NEW x \in issued
               PROVE  /\ x.id[1] <= UnitOf(now')
                      /\ x.covered /\ x.id[1] = UnitOf(now') =>
                           /\ claims'[x.id[3]] \in Nat /\ UnitEnd(now') <= claims'[x.id[3]]
                           /\ \A q \in Procs : Holds(q, x.id[3])' => x.by = <<q, kit[q].life>>
    BY <1>0 DEF Instants, UnitOf, UnitEnd
  <2>0. /\ UnitOf(now) \in Nat /\ UnitOf(now') \in Nat /\ UnitOf(now) <= UnitOf(now')
        /\ now' < UnitEnd(now') /\ UnitEnd(now') \in Nat
        /\ UnitOf(now') = UnitOf(now) => UnitEnd(now') = UnitEnd(now)
    BY <1>0, Units
  <2>1. x.id[1] \in Nat /\ x.id[1] <= UnitOf(now) /\ x.id[3] \in Numbers
    BY DEF ClaimInv, ClaimTypes, IDs, Instants
  <2>2. ASSUME x.covered, x.id[1] = UnitOf(now')
        PROVE  /\ claims'[x.id[3]] \in Nat /\ UnitEnd(now') <= claims'[x.id[3]]
               /\ \A q \in Procs : Holds(q, x.id[3])' => x.by = <<q, kit[q].life>>
    <3>1. UnitOf(now') = UnitOf(now) /\ UnitEnd(now') = UnitEnd(now)
      BY <2>0, <2>1, <2>2
    <3>2. claims[x.id[3]] \in Nat /\ UnitEnd(now) <= claims[x.id[3]]
      BY <2>2, <3>1 DEF ClaimInv, Instants
    <3>3. claims'[x.id[3]] = claims[x.id[3]]
      BY <1>0, <1>1, <2>0, <2>1, <3>1, <3>2
    <3>4. \A q \in Procs : Holds(q, x.id[3])' => Holds(q, x.id[3])
      <4>1. \A q \in Procs : kit[q].until \in Nat
        BY DEF ClaimInv, ClaimTypes, Kits
      <4> QED BY <1>0, <4>1 DEF Holds
    <3> QED BY <2>2, <3>1, <3>2, <3>3, <3>4 DEF ClaimInv, Instants
  <2> QED BY <2>0, <2>1, <2>2
<1>6. IDsUnique'
  BY <1>0 DEF ClaimInv, IDsUnique
<1> QED BY <1>2, <1>3, <1>4, <1>5, <1>6 DEF ClaimInv

(* A process changes its kit without taking a number.                      *)
LEMMA ClaimStep ==
    ASSUME ClaimInv, NEW p \in Procs, NEW new \in Kits, Become(p, new), new.pc # "ready",
           new.pc \in {"insert", "update"} => new.num \in Numbers,
           new.pc = "update" => new.found \in Nat /\ new.found < now,
           now' = now, issued' = issued, claims' = claims
    PROVE  ClaimInv'
<1>0. kit' = [kit EXCEPT ![p] = new] /\ kit'[p] = new /\ \A q \in Procs \ {p} : kit'[q] = kit[q]
  BY DEF Become, ClaimInv, ClaimTypes
<1>1. ClaimTypes'
  BY <1>0 DEF ClaimInv, ClaimTypes
<1>2. ClaimBacked'
  BY <1>0 DEF ClaimInv, ClaimBacked
<1>3. ClaimsExclusive'
  BY <1>0 DEF ClaimInv, ClaimsExclusive
<1>4. Instants'
  BY <1>0 DEF ClaimInv, Instants, Holds
<1>5. IDsUnique'
  BY DEF ClaimInv, IDsUnique
<1> QED BY <1>1, <1>2, <1>3, <1>4, <1>5 DEF ClaimInv

(* A claim is written over none, or over one that ended before: nobody     *)
(* holds the number and no covered ID of this unit was made with it.       *)
LEMMA ClaimWritten ==
    ASSUME ClaimInv, NEW p \in Procs, NEW n \in Numbers, NEW until \in Nat, Claim(p, n, until),
           claims[n] = None \/ claims[n] < now, now' = now, issued' = issued
    PROVE  ClaimInv'
<1> USE ConstantFacts
<1>0. /\ now \in Nat /\ kit[p] \in Kits /\ claims \in [Numbers -> Nat \cup {None}]
      /\ claims' = [claims EXCEPT ![n] = until]
  BY DEF ClaimInv, ClaimTypes, Claim
<1>u. UnitEnd(now) \in Nat /\ now < UnitEnd(now)
  BY <1>0, Units
<1>1. ~(claims[n] \in Nat /\ now < claims[n])
  BY <1>0
<1>2. \A q \in Procs : ~Holds(q, n)
  <2> SUFFICES ASSUME NEW q \in Procs, Holds(q, n) PROVE FALSE
    OBVIOUS
  <2>1. claims[n] = kit[q].until /\ kit[q].until \in Nat /\ now < kit[q].until
    BY DEF Holds, ClaimInv, ClaimBacked, ClaimTypes, Kits
  <2> QED BY <1>1, <2>1
<1>3. \A x \in issued : ~(x.covered /\ x.id[1] = UnitOf(now) /\ x.id[3] = n)
  <2> SUFFICES ASSUME NEW x \in issued, x.covered, x.id[1] = UnitOf(now), x.id[3] = n PROVE FALSE
    OBVIOUS
  <2>1. claims[n] \in Nat /\ UnitEnd(now) <= claims[n]
    BY DEF ClaimInv, Instants
  <2> QED BY <1>0, <1>u, <1>1, <2>1
<1>4. /\ Claimed(p, n, until) \in Kits /\ Failed(p) \in Kits
      /\ Claimed(p, n, until).pc = "ready" /\ Claimed(p, n, until).num = n
      /\ Claimed(p, n, until).until = until /\ Failed(p).pc = "failed"
  <2>1. NoKit(kit[p].life) \in Kits
    BY <1>0 DEF NoKit, Kits
  <2>2. Claimed(p, n, until) \in Kits /\ Failed(p) \in Kits
    BY <2>1 DEF Claimed, Failed, Kits
  <2>3. Claimed(p, n, until).pc = "ready" /\ Failed(p).pc = "failed"
    BY DEF Claimed, Failed, NoKit
  <2> QED BY <2>2, <2>3 DEF Claimed, NoKit
<1>5. PICK new \in {Claimed(p, n, until), Failed(p)} : kit' = [kit EXCEPT ![p] = new]
  BY DEF Claim, Become
<1>6. kit'[p] = new /\ \A q \in Procs \ {p} : kit'[q] = kit[q]
  BY <1>5 DEF ClaimInv, ClaimTypes
<1>7. \A q \in Procs : kit[q].pc = "ready" => kit[q].num \in Numbers
  BY DEF ClaimInv, ClaimTypes
<1>8. ClaimTypes'
  BY <1>0, <1>4, <1>5, <1>6 DEF ClaimInv, ClaimTypes
<1>9. ClaimBacked'
  <2> SUFFICES ASSUME NEW q \in Procs
               PROVE  /\ kit'[q].pc = "update" => kit'[q].found \in Nat /\ kit'[q].found < now
                      /\ kit'[q].pc = "ready" /\ now < kit'[q].until => claims'[kit'[q].num] = kit'[q].until
    BY DEF ClaimBacked
  <2>1. CASE q = p
    BY <1>0, <1>4, <1>5, <1>6, <2>1
  <2>2. CASE q # p
    <3>1. kit'[q] = kit[q]
      BY <1>6, <2>2
    <3>2. kit[q].pc = "ready" /\ now < kit[q].until => kit[q].num # n
      BY <1>2 DEF Holds
    <3>3. \A m \in Numbers : m # n => claims'[m] = claims[m]
      BY <1>0
    <3> QED BY <1>7, <3>1, <3>2, <3>3 DEF ClaimInv, ClaimBacked
  <2> QED BY <2>1, <2>2
<1>10. ClaimsExclusive'
  <2> SUFFICES ASSUME NEW q \in Procs, NEW r \in Procs, q # r, kit'[q].pc = "ready",
                      kit'[r].pc = "ready", now < kit'[q].until, now < kit'[r].until
               PROVE  kit'[q].num # kit'[r].num
    BY DEF ClaimsExclusive
  <2>1. \A s \in Procs \ {p} : kit'[s].pc = "ready" /\ now < kit'[s].until => kit'[s].num # n
    BY <1>2, <1>6 DEF Holds
  <2>2. CASE q = p
    BY <1>4, <1>5, <1>6, <2>1, <2>2
  <2>3. CASE r = p
    BY <1>4, <1>5, <1>6, <2>1, <2>3
  <2>4. CASE q # p /\ r # p
    BY <1>6, <2>4 DEF ClaimInv, ClaimsExclusive
  <2> QED BY <2>2, <2>3, <2>4
<1>11. Instants'
  <2> SUFFICES ASSUME NEW x \in issued
               PROVE  /\ x.id[1] <= UnitOf(now)
                      /\ x.covered /\ x.id[1] = UnitOf(now) =>
                           /\ claims'[x.id[3]] \in Nat /\ UnitEnd(now) <= claims'[x.id[3]]
                           /\ \A q \in Procs : Holds(q, x.id[3])' => x.by = <<q, kit'[q].life>>
    BY DEF Instants, UnitOf, UnitEnd
  <2>1. x.id[1] <= UnitOf(now)
    BY DEF ClaimInv, Instants
  <2>2. ASSUME x.covered, x.id[1] = UnitOf(now)
        PROVE  /\ claims'[x.id[3]] \in Nat /\ UnitEnd(now) <= claims'[x.id[3]]
               /\ \A q \in Procs : Holds(q, x.id[3])' => x.by = <<q, kit'[q].life>>
    <3>1. x.id[3] # n /\ x.id[3] \in Numbers
      BY <1>3, <2>2 DEF ClaimInv, ClaimTypes, IDs
    <3>2. claims'[x.id[3]] = claims[x.id[3]]
      BY <1>0, <3>1
    <3>3. claims[x.id[3]] \in Nat /\ UnitEnd(now) <= claims[x.id[3]]
      BY <2>2 DEF ClaimInv, Instants
    <3>4. ASSUME NEW q \in Procs, Holds(q, x.id[3])' PROVE x.by = <<q, kit'[q].life>>
      <4>1. q # p
        BY <1>4, <1>5, <1>6, <3>1, <3>4 DEF Holds
      <4>2. kit'[q] = kit[q] /\ Holds(q, x.id[3])
        BY <1>6, <3>4, <4>1 DEF Holds
      <4> QED BY <2>2, <4>2 DEF ClaimInv, Instants
    <3> QED BY <3>2, <3>3, <3>4
  <2> QED BY <2>1, <2>2
<1>12. IDsUnique'
  BY DEF ClaimInv, IDsUnique
<1> QED BY <1>8, <1>9, <1>10, <1>11, <1>12 DEF ClaimInv

(* The TTL index removes claims that have ended only.                      *)
LEMMA ClaimPurge == ASSUME ClaimInv, NEW n \in Numbers, Purge(n) PROVE ClaimInv'
<1> USE ConstantFacts
<1>0. /\ now \in Nat /\ now' = now /\ kit' = kit /\ issued' = issued
      /\ claims \in [Numbers -> Nat \cup {None}] /\ claims[n] \in Nat /\ claims[n] <= now
      /\ claims' = [claims EXCEPT ![n] = None]
  BY DEF ClaimInv, ClaimTypes, Purge, Same
<1>1. ClaimTypes'
  BY <1>0 DEF ClaimInv, ClaimTypes
<1>2. ClaimBacked'
  <2> SUFFICES ASSUME NEW p \in Procs, kit[p].pc = "ready", now < kit[p].until
               PROVE  claims'[kit[p].num] = kit[p].until
    BY <1>0 DEF ClaimInv, ClaimBacked
  <2>1. kit[p].until \in Nat /\ kit[p].num \in Numbers /\ claims[kit[p].num] = kit[p].until
    BY DEF ClaimInv, ClaimTypes, ClaimBacked, Kits
  <2>2. kit[p].num # n
    BY <1>0, <2>1
  <2> QED BY <1>0, <2>1, <2>2
<1>3. Instants'
  <2> SUFFICES ASSUME NEW x \in issued, x.covered, x.id[1] = UnitOf(now)
               PROVE  claims'[x.id[3]] = claims[x.id[3]]
    BY <1>0 DEF ClaimInv, Instants, Holds, UnitOf, UnitEnd
  <2>0. UnitEnd(now) \in Nat /\ now < UnitEnd(now)
    BY <1>0, Units
  <2>1. x.id[3] \in Numbers /\ claims[x.id[3]] \in Nat /\ now < claims[x.id[3]]
    BY <1>0, <2>0 DEF ClaimInv, ClaimTypes, IDs, Instants
  <2> QED BY <1>0, <2>1
<1>4. ClaimsExclusive' /\ IDsUnique'
  BY <1>0 DEF ClaimInv, ClaimsExclusive, IDsUnique
<1> QED BY <1>1, <1>2, <1>3, <1>4 DEF ClaimInv

(* The kits that hold no number have their shape.                          *)
LEMMA KitFacts ==
    ASSUME ClaimInv, NEW p \in Procs
    PROVE  /\ Failed(p) \in Kits /\ Failed(p).pc = "failed"
           /\ NoKit(kit[p].life + 1) \in Kits /\ NoKit(kit[p].life + 1).pc = "none"
           /\ \A n \in Numbers : NextNumber(p, n) \in Kits /\ NextNumber(p, n).pc = "try"
<1> USE ConstantFacts
<1>0. kit[p] \in Kits
  BY DEF ClaimInv, ClaimTypes
<1>1. NoKit(kit[p].life) \in Kits /\ NoKit(kit[p].life + 1) \in Kits
  BY <1>0 DEF NoKit, Kits
<1>2. Failed(p) \in Kits
  BY <1>1 DEF Failed, Kits
<1>3. Failed(p).pc = "failed" /\ NoKit(kit[p].life + 1).pc = "none"
  BY DEF Failed, NoKit
<1>4. \A n \in Numbers : NextNumber(p, n) \in Kits
  BY <1>0 DEF NextNumber, Kits
<1>5. \A n \in Numbers : NextNumber(p, n).pc = "try"
  BY <1>0 DEF NextNumber, Kits
<1> QED BY <1>1, <1>2, <1>3, <1>4, <1>5

(* The number is taken already: the next one.                              *)
LEMMA ClaimSkip ==
    ASSUME ClaimInv, NEW p \in Procs, NEW n \in Numbers, Become(p, NextNumber(p, n)), Same,
           claims' = claims
    PROVE  ClaimInv'
<1>1. NextNumber(p, n) \in Kits /\ NextNumber(p, n).pc = "try"
  BY KitFacts
<1>2. now' = now /\ issued' = issued
  BY DEF Same
<1> QED BY <1>1, <1>2, ClaimStep

(* A kit is begun, given up, or lost with its process.                     *)
LEMMA ClaimBegin ==
    ASSUME ClaimInv, NEW p \in Procs, NewDefaultKit(p) \/ GiveUp(p) \/ Restart(p) PROVE ClaimInv'
<1> USE ConstantFacts
<1>0. now' = now /\ issued' = issued /\ claims' = claims /\ now \in Nat /\ kit[p] \in Kits
  BY DEF NewDefaultKit, GiveUp, Restart, Same, ClaimInv, ClaimTypes
<1>1. CASE NewDefaultKit(p)
  <2> DEFINE new == [kit[p] EXCEPT !.pc = "try", !.left = Numbers, !.until = now + Lease]
  <2>0. now + Lease \in Nat /\ Numbers \in SUBSET Numbers
    BY <1>0
  <2>1. new \in Kits
    BY <1>0, <2>0 DEF Kits
  <2>2. new.pc = "try"
    BY <1>0 DEF Kits
  <2>3. Become(p, new)
    BY <1>1 DEF NewDefaultKit
  <2> HIDE DEF new
  <2> QED BY <1>0, <2>1, <2>2, <2>3, ClaimStep
<1>2. CASE GiveUp(p)
  <2>1. Become(p, Failed(p))
    BY <1>2 DEF GiveUp
  <2> QED BY <1>0, <2>1, KitFacts, ClaimStep
<1>3. CASE Restart(p)
  <2>1. Become(p, NoKit(kit[p].life + 1))
    BY <1>3 DEF Restart
  <2> QED BY <1>0, <2>1, KitFacts, ClaimStep
<1> QED BY <1>1, <1>2, <1>3

(* SET NX claims a number nobody has.                                      *)
LEMMA ClaimTryRedis == ASSUME ClaimInv, NEW p \in Procs, TryRedis(p) PROVE ClaimInv'
<1>0. now \in Nat /\ now' = now /\ issued' = issued /\ kit[p].left \subseteq Numbers
  BY DEF TryRedis, Same, ClaimInv, ClaimTypes, Kits
<1>1. PICK n \in Numbers : \/ claims[n] = None /\ Claim(p, n, now + Lease)
                           \/ Become(p, NextNumber(p, n)) /\ claims' = claims
  BY <1>0 DEF TryRedis
<1>2. CASE claims[n] = None /\ Claim(p, n, now + Lease)
  <2>1. now + Lease \in Nat
    BY <1>0, ConstantFacts
  <2> QED BY <1>0, <1>2, <2>1, ClaimWritten
<1>3. CASE Become(p, NextNumber(p, n)) /\ claims' = claims
  BY <1>3, ClaimSkip DEF TryRedis
<1> QED BY <1>1, <1>2, <1>3

(* The document found decides between insert, takeover and the next        *)
(* number.                                                                 *)
LEMMA ClaimFind == ASSUME ClaimInv, NEW p \in Procs, Find(p) PROVE ClaimInv'
<1> USE ConstantFacts
<1>0. /\ now' = now /\ issued' = issued /\ claims' = claims /\ kit[p] \in Kits
      /\ kit[p].left \subseteq Numbers /\ claims \in [Numbers -> Nat \cup {None}]
  BY DEF Find, Same, ClaimInv, ClaimTypes, Kits
<1>1. PICK n \in Numbers :
        \/ Become(p, [kit[p] EXCEPT !.pc = "insert", !.num = n])
        \/ /\ claims[n] # None /\ Expired(claims[n])
           /\ Become(p, [kit[p] EXCEPT !.pc = "update", !.num = n, !.found = claims[n]])
        \/ Become(p, NextNumber(p, n))
  BY <1>0 DEF Find
<1>2. CASE Become(p, [kit[p] EXCEPT !.pc = "insert", !.num = n])
  <2> DEFINE new == [kit[p] EXCEPT !.pc = "insert", !.num = n]
  <2>1. new \in Kits
    BY <1>0 DEF Kits
  <2>2. new.pc = "insert" /\ new.num = n
    BY <1>0 DEF Kits
  <2>3. Become(p, new)
    BY <1>2
  <2> HIDE DEF new
  <2> QED BY <1>0, <2>1, <2>2, <2>3, ClaimStep
<1>3. CASE /\ claims[n] # None /\ Expired(claims[n])
           /\ Become(p, [kit[p] EXCEPT !.pc = "update", !.num = n, !.found = claims[n]])
  <2> DEFINE new == [kit[p] EXCEPT !.pc = "update", !.num = n, !.found = claims[n]]
  <2>1. claims[n] \in Nat /\ claims[n] < now
    BY <1>0, <1>3 DEF Expired
  <2>2. new \in Kits
    BY <1>0, <2>1 DEF Kits
  <2>3. new.pc = "update" /\ new.num = n /\ new.found = claims[n]
    BY <1>0 DEF Kits
  <2>4. Become(p, new)
    BY <1>3
  <2> HIDE DEF new
  <2> QED BY <1>0, <2>1, <2>2, <2>3, <2>4, ClaimStep
<1>4. CASE Become(p, NextNumber(p, n))
  BY <1>0, <1>4, ClaimSkip DEF Find
<1> QED BY <1>1, <1>2, <1>3, <1>4

(* The insert claims a number that still has no document.                  *)
LEMMA ClaimInsert == ASSUME ClaimInv, NEW p \in Procs, Insert(p) PROVE ClaimInv'
<1>0. now' = now /\ issued' = issued /\ kit[p].num \in Numbers /\ kit[p].until \in Nat /\ Same
  BY DEF Insert, Same, ClaimInv, ClaimTypes, Kits
<1>1. CASE claims[kit[p].num] = None /\ Claim(p, kit[p].num, kit[p].until)
  BY <1>0, <1>1, ClaimWritten
<1>2. CASE Become(p, NextNumber(p, kit[p].num)) /\ claims' = claims
  BY <1>0, <1>2, ClaimSkip
<1> QED BY <1>1, <1>2 DEF Insert

(* The takeover claims a number whose document is still the one that had   *)
(* ended when it was found.                                                *)
LEMMA ClaimUpdate == ASSUME ClaimInv, NEW p \in Procs, Update(p) PROVE ClaimInv'
<1>0. /\ now' = now /\ issued' = issued /\ kit[p].num \in Numbers /\ kit[p].until \in Nat /\ Same
      /\ kit[p].found < now
  BY DEF Update, Same, ClaimInv, ClaimTypes, ClaimBacked, Kits
<1>1. CASE claims[kit[p].num] = kit[p].found /\ Claim(p, kit[p].num, kit[p].until)
  BY <1>0, <1>1, ClaimWritten
<1>2. CASE Become(p, NextNumber(p, kit[p].num)) /\ claims' = claims
  BY <1>0, <1>2, ClaimSkip
<1> QED BY <1>1, <1>2 DEF Update, AsFound

(* An ID made under a claim that covers its unit: the maker is the only    *)
(* holder of the number, and those covered by it in this unit are its own. *)
LEMMA ClaimNextID == ASSUME ClaimInv, NEW p \in Procs, NextID(p) PROVE ClaimInv'
<1> USE ConstantFacts
<1> DEFINE unit == UnitOf(now)
           seq == IF kit[p].time < unit THEN 0 ELSE kit[p].seq + 1
           new == [kit[p] EXCEPT !.time = unit, !.seq = seq]
           made == [id |-> <<unit, seq, kit[p].num>>, by |-> <<p, kit[p].life>>,
                    covered |-> UnitEnd(now) <= kit[p].until]
<1>0. /\ now \in Nat /\ now' = now /\ claims' = claims /\ kit[p] \in Kits /\ kit[p].pc = "ready"
      /\ kit[p].num \in Numbers /\ issued' = issued \cup {made} /\ kit' = [kit EXCEPT ![p] = new]
  BY DEF NextID, Become, ClaimInv, ClaimTypes
<1>u. unit \in Nat /\ UnitEnd(now) \in Nat /\ now < UnitEnd(now)
  BY <1>0, Units
<1>1. new \in Kits /\ made \in IDs
  <2>1. seq \in Int
    BY <1>0, <1>u DEF Kits
  <2>2. (UnitEnd(now) <= kit[p].until) \in BOOLEAN
    OBVIOUS
  <2>i. unit \in Int /\ unit \in Nat
    BY <1>u
  <2> HIDE DEF seq, unit
  <2>3. new \in Kits
    BY <1>0, <2>1, <2>i DEF Kits
  <2>4. made \in IDs
    BY <1>0, <2>1, <2>2, <2>i DEF Kits, IDs
  <2> QED BY <2>3, <2>4
<1>2. /\ new.pc = "ready" /\ new.num = kit[p].num /\ new.until = kit[p].until
      /\ new.life = kit[p].life
  BY <1>0 DEF Kits
<1>3. /\ made.id[1] = unit /\ made.id[3] = kit[p].num /\ made.by = <<p, kit[p].life>>
      /\ made.covered => UnitEnd(now) <= kit[p].until
  OBVIOUS
<1>4. /\ issued' = issued \cup {made} /\ kit' = [kit EXCEPT ![p] = new] /\ kit'[p] = new
  BY <1>0 DEF ClaimInv, ClaimTypes
<1>e. unit = UnitOf(now)
  OBVIOUS
<1> HIDE DEF unit, seq, new, made
<1>5. \A q \in Procs : /\ kit'[q].pc = kit[q].pc /\ kit'[q].num = kit[q].num
                       /\ kit'[q].until = kit[q].until /\ kit'[q].life = kit[q].life
                       /\ q # p => kit'[q] = kit[q]
  BY <1>0, <1>2, <1>4 DEF ClaimInv, ClaimTypes
<1>6. ClaimTypes'
  BY <1>0, <1>1, <1>4, <1>5 DEF ClaimInv, ClaimTypes
<1>7. ClaimBacked'
  BY <1>0, <1>2, <1>4, <1>5 DEF ClaimInv, ClaimBacked
<1>8. ClaimsExclusive'
  BY <1>0, <1>5 DEF ClaimInv, ClaimsExclusive
<1>9. \A q \in Procs, n \in Numbers : Holds(q, n)' <=> Holds(q, n)
  BY <1>0, <1>5 DEF Holds
<1>10. Instants'
  <2> DEFINE Alone(x) ==
               /\ x.id[1] <= unit
               /\ x.covered /\ x.id[1] = unit =>
                    /\ claims[x.id[3]] \in Nat /\ UnitEnd(now) <= claims[x.id[3]]
                    /\ \A q \in Procs : Holds(q, x.id[3]) => x.by = <<q, kit[q].life>>
  <2>1. \A x \in issued : Alone(x)
    BY <1>e DEF ClaimInv, Instants
  <2>2. Alone(made)
    <3>1. made.covered => /\ claims[kit[p].num] = kit[p].until /\ now < kit[p].until
                        /\ UnitEnd(now) <= kit[p].until /\ kit[p].until \in Nat
      <4>1. kit[p].until \in Nat
        BY <1>0 DEF Kits
      <4>2. made.covered => UnitEnd(now) <= kit[p].until /\ now < kit[p].until
        BY <1>0, <1>u, <1>3, <4>1
      <4> QED BY <1>0, <4>1, <4>2 DEF ClaimInv, ClaimBacked
    <3>2. ASSUME made.covered, NEW q \in Procs, Holds(q, kit[p].num) PROVE q = p
      <4>1. kit[q].num = kit[p].num /\ kit[q].pc = "ready" /\ now < kit[q].until
        BY <3>2 DEF Holds
      <4> QED BY <1>0, <3>1, <3>2, <4>1 DEF ClaimInv, ClaimsExclusive
    <3>3. made.id[1] <= unit
      BY <1>u, <1>3
    <3> QED BY <1>3, <3>1, <3>2, <3>3
  <2>3. \A x \in issued' : Alone(x) /\ x.id[3] \in Numbers
    <3>1. \A x \in issued' : Alone(x)
      BY <1>4, <2>1, <2>2
    <3>2. \A x \in issued' : x.id[3] \in Numbers
      BY <1>6 DEF ClaimTypes, IDs
    <3> QED BY <3>1, <3>2
  <2> QED BY <1>0, <1>e, <1>5, <1>9, <2>3 DEF Instants, UnitOf, UnitEnd
<1>11. IDsUnique'
  <2>1. ASSUME NEW y \in issued, made.covered, y.covered, y.id = made.id PROVE y.by = made.by
    <3>1. y.id[1] = unit /\ y.id[3] = kit[p].num
      BY <1>3, <2>1
    <3>2. Holds(p, y.id[3])
      <4>1. kit[p].until \in Nat
        BY <1>0 DEF Kits
      <4>2. now < kit[p].until
        BY <1>0, <1>u, <1>3, <2>1, <4>1
      <4> QED BY <1>0, <3>1, <4>2 DEF Holds
    <3> QED BY <1>e, <1>3, <2>1, <3>1, <3>2 DEF ClaimInv, Instants
  <2> QED BY <1>4, <2>1 DEF ClaimInv, IDsUnique
<1> QED BY <1>6, <1>7, <1>8, <1>10, <1>11 DEF ClaimInv

(* The lock helpers leave the numbers alone.                               *)
LEMMA HelpersKeepClaims ==
    ASSUME NEW p \in Procs, MutexDo(p) \/ Acquire(p) \/ EndAction(p) \/ Unlock(p)
    PROVE  now' = now /\ claims' = claims /\ kit' = kit /\ issued' = issued
BY DEF MutexDo, Acquire, EndAction, Unlock, Helping, kitVars

(* Every step keeps the invariant of the numbers.                          *)
LEMMA ClaimNext == ClaimInv /\ [Next]_vars => ClaimInv'
<1> SUFFICES ASSUME ClaimInv, [Next]_vars PROVE ClaimInv'
  OBVIOUS
<1>1. CASE UNCHANGED vars
  BY <1>1, ClaimSame DEF vars, kitVars
<1>2. CASE Tick
  BY <1>2, ClaimTick
<1>3. CASE \E n \in Numbers : Purge(n)
  BY <1>3, ClaimPurge
<1>4. CASE \E p \in Procs : Numbering(p)
  BY <1>4, ClaimBegin, ClaimTryRedis, ClaimFind, ClaimInsert, ClaimUpdate, ClaimNextID DEF Numbering
<1>5. CASE \E p \in Procs : MutexDo(p) \/ Acquire(p) \/ EndAction(p) \/ Unlock(p)
  BY <1>5, HelpersKeepClaims, ClaimSame
<1> QED BY <1>1, <1>2, <1>3, <1>4, <1>5 DEF Next

(* The invariant of the numbers holds throughout.                          *)
LEMMA SpecClaimInv == Spec => []ClaimInv
<1> QED BY ClaimInit, ClaimNext, PTL DEF Spec

(* No two processes hold one machine number while both claims last, on     *)
(* either backend (random.go GetUniqueRandomNumber), with any number of    *)
(* processes, lost answers and restarts.                                   *)
THEOREM ClaimsExclude == Spec => []ClaimsExclusive
<1>1. ClaimInv => ClaimsExclusive
  BY DEF ClaimInv
<1> QED BY <1>1, SpecClaimInv, PTL

(* IDs whose claim covers the unit of sonyflake's time they were made in   *)
(* are made by one life of one process (dkit.go nextID), although numbers  *)
(* pass from one process to another and a maker may have ended in the same *)
(* unit.                                                                   *)
THEOREM IDsApart == Spec => []IDsUnique
<1>1. ClaimInv => IDsUnique
  BY DEF ClaimInv
<1> QED BY <1>1, SpecClaimInv, PTL

==============================================================================
