-------------------------- MODULE MongoMutexProofs --------------------------
(***************************************************************************)
(* Proofs about MongoMutex, for every set of instances, identities, lease  *)
(* durations and clock skews, and without a bound on the clock.            *)
(*                                                                         *)
(* What Lock, TryLock and Unlock compare is an expiry time, so everything  *)
(* that is proved beyond the types rests on Distinct: no two leases in     *)
(* use expire in the same millisecond. With it an expiry time identifies   *)
(* one lease (ExpiryIdentifies), and the inductive invariant IInv says     *)
(* that a deletion on its way never names the lease of a holder (Unasked)  *)
(* and that a holder inside its lease, or about to be told that it is      *)
(* one, has the document (AllBacked).                                      *)
(***************************************************************************)
EXTENDS MongoMutex, TLAPS

\* The frames of TypeOK.
FrameType == [call : {"none", "TryLock", "Lock", "Unlock"}, opt : Options \cup {NoOpt},
              pc : {"idle", "find", "found", "write", "spin"},
              seen : Doc, write : WriteType, reply : {"wait", "ok", "no"}]

\* A document, or none: a lease ends after time 0, has an owner, and belongs
\* to its identity if it has one.
DocOK(d) ==
  /\ d \in Doc
  /\ d # NoDoc => /\ d.expires > 0
                  /\ d.owner \in Owners
                  /\ d.identity # NoIdentity => d.owner = d.identity

\* A write on its way at time t: an update names an expiry time that every
\* clock considers over, a new lease lasts at most the duration asked for, and
\* a deletion names the lease it is to remove.
WriteOK(w, t) ==
  /\ w \in WriteType
  /\ DocOK(w.new)
  /\ w.op # "none" => w.new # NoDoc
  /\ w.op = "update" => w.old < t + MaxSkew
  /\ w.op \in {"insert", "update"} => \E d \in TTLs : w.new.expires <= t + MaxSkew + d
  /\ w.op = "delete" => w.old = w.new.expires

\* The frame has sent the insert or the update of Lock or TryLock.
Acquires(f) == f.write.op \in {"insert", "update"}

\* The frame f, the lock detail l and the claim c of instance m fit together:
\* Lock and TryLock run without a lock detail, Unlock deletes what the lock
\* detail names, and a claim needs a lock detail and no running method.
FrameOK(m, f, l, c) ==
  /\ f \in FrameType /\ c \in BOOLEAN
  /\ DocOK(f.seen)
  /\ DocOK(l) /\ (l # NoDoc /\ l.identity = NoIdentity => l.owner = m)
  /\ f.call = "none" => f = Idle
  /\ (f.pc = "write") <=> (f.write.op # "none")
  /\ f.write.op = "none" => f.write = NoWrite /\ f.reply = "wait"
  /\ f.call \in {"TryLock", "Lock"} =>
       f.opt \in Options /\ l = NoDoc /\ f.write.op # "delete"
  /\ f.call = "Unlock" => f.write.op = "delete" /\ f.write.new = l
  /\ Acquires(f) /\ f.write.new.identity = NoIdentity => f.write.new.owner = m
  /\ c => l # NoDoc /\ f.call = "none"

\* The part of the invariant that does not need Distinct.
Shapes ==
  /\ setting \in Settings /\ now \in Nat
  /\ DocOK(doc)
  /\ \A w \in late : WriteOK(w, now) /\ w.op # "none"
  /\ frame \in [Mutexes -> FrameType]
  /\ lockDetail \in [Mutexes -> Doc]
  /\ claim \in [Mutexes -> BOOLEAN]
  /\ \A m \in Mutexes : /\ FrameOK(m, frame[m], lockDetail[m], claim[m])
                        /\ WriteOK(frame[m].write, now)

\* The leases that somebody stores, remembers or is about to write.
DocsInUse ==
  {NoDoc, doc} \cup {lockDetail[m] : m \in Mutexes} \cup {frame[m].seen : m \in Mutexes}
    \cup {frame[m].write.new : m \in Mutexes} \cup {w.new : w \in late}

\* The filters of mutex.go:144 and mutex.go:180 compare expiry times only;
\* this is why comparing them is enough.
ExpiryIdentifies == \A d, e \in DocsInUse : d.expires = e.expires => d = e

\* The lease d was acquired by the instance, or is being acquired, and is not
\* shared through an identity.
Mine(f, l, c, d) ==
  /\ d.identity = NoIdentity
  /\ (c /\ d = l) \/ (Acquires(f) /\ d = f.write.new)

\* No abandoned deletion names such a lease: the instance gives its claim up
\* before it sends the deletion.
Unasked ==
  \A m \in Mutexes : \A w \in late :
    w.op = "delete" => ~Mine(frame[m], lockDetail[m], claim[m], w.new)

\* At time t an instance with frame f, lock detail l and claim c has its lease
\* in the document d, from the moment its write was executed until some clock
\* may consider the lease over.
Backed(f, l, c, d, t) ==
  /\ c /\ l.identity = NoIdentity /\ t + MaxSkew <= l.expires => d = l
  /\ Acquires(f) /\ f.reply = "ok" /\ f.write.new.identity = NoIdentity
       /\ t + MaxSkew <= f.write.new.expires => d = f.write.new

\* So does every instance.
AllBacked == \A m \in Mutexes : Backed(frame[m], lockDetail[m], claim[m], doc, now)

\* No two leases expire in the same millisecond.
Distinct == ~setting.sameInstant

\* The inductive invariant.
IInv == Shapes /\ Distinct /\ ExpiryIdentifies /\ Unasked /\ AllBacked

-----------------------------------------------------------------------------
\* The assumptions on the constants, in the form the proofs use.
LEMMA Constants ==
  /\ NoOwner \notin Owners
  /\ MaxSkew \in Nat /\ Grace \in Nat
  /\ \A m \in Mutexes : Skew[m] \in Nat /\ Skew[m] <= MaxSkew
  /\ \A d \in TTLs : d \in Nat /\ d > 0
BY OwnerAssumption, TimeAssumption DEF Owners

\* The fields of no document.
LEMMA NoDocFacts ==
  /\ NoDoc.expires = 0 /\ NoDoc.identity = NoIdentity /\ NoDoc.owner = NoOwner
  /\ NoDoc \in Doc /\ DocOK(NoDoc)
BY DEF NoDoc, Doc, DocOK

\* The fields of no write.
LEMMA NoWriteFacts ==
  /\ NoWrite.op = "none" /\ NoWrite.new = NoDoc /\ NoWrite \in WriteType
  /\ \A t : WriteOK(NoWrite, t)
<1>1. NoWrite.op = "none" /\ NoWrite.new = NoDoc /\ NoWrite.old = 0
  BY DEF NoWrite, Write
<1>2. NoWrite \in WriteType
  BY NoDocFacts DEF NoWrite, Write, WriteType
<1> QED BY <1>1, <1>2, NoDocFacts DEF WriteOK

\* The fields of the frame of an instance that runs no method.
LEMMA IdleFacts ==
  /\ Idle \in FrameType /\ Idle.call = "none" /\ Idle.pc = "idle" /\ Idle.seen = NoDoc
  /\ Idle.write = NoWrite /\ Idle.reply = "wait" /\ ~Acquires(Idle)
<1>1. /\ Idle.call = "none" /\ Idle.pc = "idle" /\ Idle.seen = NoDoc
      /\ Idle.write = NoWrite /\ Idle.reply = "wait"
  BY DEF Idle
<1>2. Idle \in FrameType
  BY NoDocFacts, NoWriteFacts DEF Idle, FrameType
<1> QED BY <1>1, <1>2, NoWriteFacts DEF Acquires

\* An instance whose method has returned satisfies FrameOK.
LEMMA IdleOK ==
  ASSUME NEW m \in Mutexes, NEW l, NEW c, c \in BOOLEAN, DocOK(l),
         l # NoDoc /\ l.identity = NoIdentity => l.owner = m, c => l # NoDoc
  PROVE  FrameOK(m, Idle, l, c)
BY IdleFacts, NoDocFacts, NoWriteFacts DEF FrameOK

\* A step of instance m, which then has frame f, lock detail l and claim c;
\* the other instances and the clock stay.
Moves(m, f, l, c) ==
  /\ frame' \in [Mutexes -> FrameType] /\ frame'[m] = f
  /\ lockDetail' \in [Mutexes -> Doc] /\ lockDetail'[m] = l
  /\ claim' \in [Mutexes -> BOOLEAN] /\ claim'[m] = c
  /\ \A n \in Mutexes : n # m => /\ frame'[n] = frame[n]
                                 /\ lockDetail'[n] = lockDetail[n]
                                 /\ claim'[n] = claim[n]
  /\ setting' = setting /\ now' = now

\* A step of m that may leave its own write behind.
LateBy(m) ==
  /\ late \subseteq late'
  /\ \A w \in late' : w \in late \/ (w = frame[m].write /\ w.op # "none")

\* Such a step keeps Shapes if what m has afterwards is as FrameOK and WriteOK
\* say.
LEMMA ShapesStep ==
  ASSUME Shapes, NEW m \in Mutexes, NEW f, NEW l, NEW c, Moves(m, f, l, c), LateBy(m),
         DocOK(doc'), FrameOK(m, f, l, c), WriteOK(f.write, now)
  PROVE  Shapes'
<1>1. \A w \in late' : WriteOK(w, now) /\ w.op # "none"
  BY DEF Shapes, LateBy
<1>3. /\ frame' \in [Mutexes -> FrameType] /\ lockDetail' \in [Mutexes -> Doc]
      /\ claim' \in [Mutexes -> BOOLEAN] /\ setting' = setting /\ now' = now
  BY DEF Moves
<1>4. ASSUME NEW n \in Mutexes
      PROVE  FrameOK(n, frame'[n], lockDetail'[n], claim'[n]) /\ WriteOK(frame'[n].write, now)
  <2>1. CASE n = m
    BY <2>1 DEF Moves
  <2>2. CASE n # m
    BY <2>2 DEF Shapes, Moves
  <2> QED BY <2>1, <2>2
<1> QED BY <1>1, <1>3, <1>4 DEF Shapes

\* What Shapes says of one instance.
LEMMA Frames ==
  ASSUME Shapes, NEW m \in Mutexes
  PROVE  /\ FrameOK(m, frame[m], lockDetail[m], claim[m]) /\ WriteOK(frame[m].write, now)
         /\ frame[m] \in FrameType /\ now \in Nat /\ Clock(m) \in Nat /\ Clock(m) <= now + MaxSkew
BY Constants DEF Shapes, Clock

\* A deletion is sent by Unlock, names the lease of its own instance, and that
\* instance has given its claim up.
LEMMA DeletesOwn ==
  ASSUME Shapes, NEW m \in Mutexes, NEW n \in Mutexes, frame[m].write.op = "delete"
  PROVE  /\ frame[m].call = "Unlock" /\ frame[m].write.new = lockDetail[m]
         /\ ~Mine(frame[n], lockDetail[n], claim[n], frame[m].write.new)
<1>. DEFINE w == frame[m].write
<1>1. FrameOK(m, frame[m], lockDetail[m], claim[m]) /\ FrameOK(n, frame[n], lockDetail[n], claim[n])
      /\ WriteOK(frame[m].write, now)
  BY DEF Shapes
<1>2. frame[m].call = "Unlock"
  BY <1>1, IdleFacts, NoWriteFacts DEF FrameOK, FrameType
<1>3. w.new = lockDetail[m] /\ w.new # NoDoc
  BY <1>1, <1>2 DEF FrameOK, WriteOK
<1>4. ASSUME Mine(frame[n], lockDetail[n], claim[n], w.new) PROVE FALSE
  <2>1. w.new.owner = m
    BY <1>1, <1>3, <1>4 DEF FrameOK, Mine
  <2>2. w.new.owner = n
    BY <1>1, <1>3, <1>4 DEF FrameOK, Mine
  <2>3. frame[m].call # "Unlock"
    BY <1>1, <1>4, <2>1, <2>2 DEF FrameOK, Mine, Acquires
  <2> QED BY <1>2, <2>3
<1> QED BY <1>2, <1>3, <1>4

\* The lease d expires at a time that no lease in use has.
Fresh(d) == \A e \in DocsInUse : e.expires # d.expires

\* A step of one instance that does not touch the document keeps IInv,
\* whatever the step, if the instance brings no expiry time that is in use.
LEMMA LocalStep ==
  ASSUME IInv, Shapes', NEW m \in Mutexes, NEW f, NEW l, NEW c, Moves(m, f, l, c), LateBy(m),
         doc' = doc,
         l \in DocsInUse, f.seen \in DocsInUse, f.write.new \in DocsInUse \/ Fresh(f.write.new),
         \A w \in late' : w.op = "delete" => ~Mine(f, l, c, w.new),
         Backed(f, l, c, doc, now)
  PROVE  IInv'
<1>1. \A n \in Mutexes : /\ frame'[n] = IF n = m THEN f ELSE frame[n]
                         /\ lockDetail'[n] = IF n = m THEN l ELSE lockDetail[n]
                         /\ claim'[n] = IF n = m THEN c ELSE claim[n]
  BY DEF Moves
<1>2. ExpiryIdentifies'
  <2>1. \A d \in DocsInUse' : d \in DocsInUse \/ d = f.write.new
    <3>. SUFFICES ASSUME NEW d \in DocsInUse' PROVE d \in DocsInUse \/ d = f.write.new
      OBVIOUS
    <3>1. CASE d = NoDoc \/ d = doc
      BY <3>1 DEF DocsInUse
    <3>2. CASE \E n \in Mutexes : d = lockDetail'[n]
      BY <1>1, <3>2 DEF DocsInUse
    <3>3. CASE \E n \in Mutexes : d = frame'[n].seen
      BY <1>1, <3>3 DEF DocsInUse
    <3>4. CASE \E n \in Mutexes : d = frame'[n].write.new
      BY <1>1, <3>4 DEF DocsInUse
    <3>5. CASE \E w \in late' : d = w.new
      BY <3>5 DEF DocsInUse, LateBy
    <3> QED BY <3>1, <3>2, <3>3, <3>4, <3>5 DEF DocsInUse
  <2> QED BY <2>1 DEF IInv, ExpiryIdentifies, Fresh
<1>3. Unasked'
  <2>. SUFFICES ASSUME NEW n \in Mutexes, NEW w \in late', w.op = "delete"
                PROVE  ~Mine(frame'[n], lockDetail'[n], claim'[n], w.new)
    BY DEF Unasked
  <2>1. CASE n = m
    BY <1>1, <2>1
  <2>2. CASE n # m /\ w \in late
    BY <1>1, <2>2 DEF IInv, Unasked
  <2>3. CASE n # m /\ w = frame[m].write
    BY <1>1, <2>3, DeletesOwn DEF IInv
  <2> QED BY <2>1, <2>2, <2>3 DEF LateBy
<1>4. AllBacked'
  BY <1>1 DEF IInv, AllBacked, Moves
<1> QED BY <1>2, <1>3, <1>4 DEF IInv, Distinct, Moves


\* In particular when it neither acquires nor releases anything.
LEMMA QuietStep ==
  ASSUME IInv, Shapes', NEW m \in Mutexes, NEW f, Moves(m, f, lockDetail[m], claim[m]), LateBy(m),
         doc' = doc, f.seen \in DocsInUse, f.write = NoWrite
  PROVE  IInv'
<1>. DEFINE l == lockDetail[m]
            c == claim[m]
<1>1. ~Acquires(f) /\ f.write.new = NoDoc /\ NoDoc \in DocsInUse /\ l \in DocsInUse
  BY NoWriteFacts DEF Acquires, DocsInUse
<1>2. Backed(f, l, c, doc, now)
  BY <1>1 DEF IInv, AllBacked, Backed
<1>3. ASSUME NEW w \in late', w.op = "delete", Mine(f, l, c, w.new) PROVE FALSE
  <2>1. Mine(frame[m], l, c, w.new) /\ c
    BY <1>1, <1>3 DEF Mine
  <2>2. CASE w \in late
    BY <1>3, <2>1, <2>2 DEF IInv, Unasked
  <2>3. CASE w = frame[m].write /\ w.op # "none"
    BY <2>1, <2>3, Frames, IdleFacts, NoWriteFacts DEF IInv, FrameOK
  <2> QED BY <2>2, <2>3 DEF LateBy
<1>. HIDE DEF l, c
<1>4. Moves(m, f, l, c)
  BY DEF l, c
<1> QED BY <1>1, <1>2, <1>3, <1>4, LocalStep

\* A step of m after which it has frame f and no write on its way, with the
\* same lock detail and claim.
Quiet(m, f) ==
  /\ Moves(m, f, lockDetail[m], claim[m]) /\ LateBy(m) /\ doc' = doc
  /\ f.seen \in DocsInUse /\ f.write = NoWrite
  /\ FrameOK(m, f, lockDetail[m], claim[m])

\* A quiet step keeps Shapes.
LEMMA QuietShapes ==
  ASSUME Shapes, NEW m \in Mutexes, NEW f, Quiet(m, f)
  PROVE  Shapes'
<1>1. DocOK(doc') /\ WriteOK(f.write, now)
  BY NoWriteFacts DEF Shapes, Quiet
<1> QED BY <1>1, ShapesStep DEF Quiet

\* A quiet step keeps IInv.
LEMMA QuietKeeps ==
  ASSUME IInv, NEW m \in Mutexes, NEW f, Quiet(m, f)
  PROVE  IInv'
<1>1. Shapes'
  BY QuietShapes DEF IInv
<1> QED BY <1>1, QuietStep DEF Quiet

\* A step that leaves the abandoned writes alone satisfies LateBy.
LEMMA LateSame ==
  ASSUME NEW m \in Mutexes, late' = late
  PROVE  LateBy(m)
BY DEF LateBy

\* Calling Lock or TryLock (mutex.go:62, 100) is quiet.
LEMMA BeginLockQuiet ==
  ASSUME Shapes, NEW m \in Mutexes, NEW call \in {"TryLock", "Lock"}, NEW o \in Options,
         BeginLock(m, call, o)
  PROVE  \E f : Quiet(m, f)
<1>. DEFINE f == [Idle EXCEPT !.call = call, !.opt = o, !.pc = "find"]
<1>1. /\ f \in FrameType /\ f.call = call /\ f.opt = o /\ f.pc = "find" /\ f.seen = NoDoc
      /\ f.write = NoWrite /\ f.reply = "wait"
  BY IdleFacts DEF FrameType
<1>2. frame' = [frame EXCEPT ![m] = f] /\ lockDetail[m] = NoDoc /\ frame[m].call = "none"
      /\ UNCHANGED <<setting, now, doc, late, lockDetail, claim>>
  BY DEF BeginLock
<1>. HIDE DEF f
<1>3. Moves(m, f, lockDetail[m], claim[m]) /\ LateBy(m) /\ doc' = doc
  BY <1>1, <1>2 DEF Moves, LateBy, Shapes
<1>4. FrameOK(m, f, lockDetail[m], claim[m])
  BY <1>1, <1>2, Frames, NoDocFacts, NoWriteFacts DEF FrameOK, Acquires
<1> QED BY <1>1, <1>3, <1>4 DEF Quiet, DocsInUse

\* A method that returns without a lease is quiet.
LEMMA ReturnQuiet ==
  ASSUME Shapes, NEW m \in Mutexes, frame' = [frame EXCEPT ![m] = Idle], LateBy(m),
         UNCHANGED <<setting, now, doc, lockDetail, claim>>
  PROVE  Quiet(m, Idle)
<1>1. Moves(m, Idle, lockDetail[m], claim[m])
  BY IdleFacts DEF Moves, Shapes
<1>2. FrameOK(m, Idle, lockDetail[m], claim[m])
  BY Frames, IdleOK DEF FrameOK
<1> QED BY <1>1, <1>2, IdleFacts DEF Quiet, DocsInUse

\* Not getting the lease is quiet: TryLock returns, Lock waits for the next
\* tick.
LEMMA NotAcquiredQuiet ==
  ASSUME Shapes, NEW m \in Mutexes, NotAcquired(m),
         UNCHANGED <<setting, now, doc, late, lockDetail, claim>>
  PROVE  \E f : Quiet(m, f) /\ f.call # "Unlock"
<1>1. CASE frame' = [frame EXCEPT ![m] = Idle]
  <2>1. LateBy(m)
    BY LateSame
  <2>2. Quiet(m, Idle)
    BY <1>1, <2>1, ReturnQuiet
  <2> QED BY <2>2, IdleFacts
<1>2. CASE frame[m].call = "Lock" /\ frame' = [frame EXCEPT ![m] =
             [Idle EXCEPT !.call = "Lock", !.opt = frame[m].opt, !.pc = "spin"]]
  <2>. DEFINE o == frame[m].opt
              f == [Idle EXCEPT !.call = "Lock", !.opt = o, !.pc = "spin"]
  <2>1. o \in Options /\ frame' = [frame EXCEPT ![m] = f]
    BY <1>2, Frames DEF FrameOK
  <2>. HIDE DEF o
  <2>2. /\ f \in FrameType /\ f.call = "Lock" /\ f.opt = o /\ f.pc = "spin" /\ f.seen = NoDoc
        /\ f.write = NoWrite /\ f.reply = "wait"
    BY <2>1, IdleFacts DEF FrameType
  <2>. HIDE DEF f
  <2>3. Moves(m, f, lockDetail[m], claim[m]) /\ LateBy(m) /\ doc' = doc
    BY <2>1, <2>2 DEF Moves, LateBy, Shapes
  <2>4. FrameOK(m, f, lockDetail[m], claim[m])
    BY <1>2, <2>1, <2>2, Frames, NoDocFacts, NoWriteFacts DEF FrameOK, Acquires
  <2> QED BY <2>2, <2>3, <2>4 DEF Quiet, DocsInUse
<1> QED BY <1>1, <1>2 DEF NotAcquired, Return

\* FindOne is quiet: the frame remembers the document.
LEMMA ExecFindQuiet ==
  ASSUME Shapes, NEW m \in Mutexes, ExecFind(m)
  PROVE  \E f : Quiet(m, f) /\ f.call = frame[m].call
<1>. DEFINE g == frame[m]
            f == [g EXCEPT !.pc = "found", !.seen = doc]
<1>1. FrameOK(m, g, lockDetail[m], claim[m]) /\ g.pc = "find" /\ DocOK(doc)
  BY Frames DEF ExecFind, Shapes
<1>2. frame' = [frame EXCEPT ![m] = f] /\ UNCHANGED <<setting, now, doc, late, lockDetail, claim>>
  BY DEF ExecFind
<1>3. g.write = NoWrite
  BY <1>1 DEF FrameOK
<1>. HIDE DEF g
<1>4. /\ f \in FrameType /\ f.call = g.call /\ f.opt = g.opt /\ f.pc = "found" /\ f.seen = doc
      /\ f.write = g.write /\ f.reply = g.reply
  BY <1>1 DEF FrameOK, FrameType, DocOK
<1>. HIDE DEF f
<1>5. Moves(m, f, lockDetail[m], claim[m]) /\ LateBy(m) /\ doc' = doc
  BY <1>2, <1>4 DEF Moves, LateBy, Shapes
<1>6. FrameOK(m, f, lockDetail[m], claim[m])
  BY <1>1, <1>3, <1>4, IdleFacts, NoWriteFacts DEF FrameOK, Acquires
<1> QED BY <1>3, <1>4, <1>5, <1>6 DEF Quiet, DocsInUse, g

\* The next attempt of Lock is quiet.
LEMMA SpinTickQuiet ==
  ASSUME Shapes, NEW m \in Mutexes, SpinTick(m)
  PROVE  \E f : Quiet(m, f) /\ f.call = frame[m].call
<1>. DEFINE g == frame[m]
            f == [g EXCEPT !.pc = "find"]
<1>1. FrameOK(m, g, lockDetail[m], claim[m]) /\ g.pc = "spin"
  BY Frames DEF SpinTick
<1>2. frame' = [frame EXCEPT ![m] = f] /\ UNCHANGED <<setting, now, doc, late, lockDetail, claim>>
  BY DEF SpinTick
<1>3. g.write = NoWrite /\ g.seen \in DocsInUse
  BY <1>1 DEF FrameOK, DocsInUse
<1>. HIDE DEF g
<1>4. /\ f \in FrameType /\ f.call = g.call /\ f.opt = g.opt /\ f.pc = "find" /\ f.seen = g.seen
      /\ f.write = g.write /\ f.reply = g.reply
  BY <1>1 DEF FrameOK, FrameType
<1>. HIDE DEF f
<1>5. Moves(m, f, lockDetail[m], claim[m]) /\ LateBy(m) /\ doc' = doc
  BY <1>2, <1>4 DEF Moves, LateBy, Shapes
<1>6. FrameOK(m, f, lockDetail[m], claim[m])
  BY <1>1, <1>3, <1>4, IdleFacts, NoWriteFacts DEF FrameOK, Acquires
<1> QED BY <1>3, <1>4, <1>5, <1>6 DEF Quiet, g

\* The end of the waiting time is quiet.
LEMMA GiveUpQuiet ==
  ASSUME Shapes, NEW m \in Mutexes, GiveUp(m)
  PROVE  Quiet(m, Idle)
<1>1. frame' = [frame EXCEPT ![m] = Idle] /\ LateBy(m)
      /\ UNCHANGED <<setting, now, doc, lockDetail, claim>>
  BY LateSame DEF GiveUp, Return
<1> QED BY <1>1, ReturnQuiet

\* Only the own write of m may be left behind.
LEMMA AbandonLate ==
  ASSUME Shapes, NEW m \in Mutexes, Abandon(m)
  PROVE  LateBy(m)
<1>1. CASE late' = late
  BY <1>1, LateSame
<1>2. CASE frame[m].pc = "write" /\ late' = late \cup {frame[m].write}
  <2>1. frame[m].write.op # "none"
    BY <1>2, Frames DEF FrameOK
  <2> QED BY <1>2, <2>1 DEF LateBy
<1> QED BY <1>1, <1>2 DEF Abandon

\* An error of the server is quiet, although the write may be executed later.
LEMMA FailQuiet ==
  ASSUME Shapes, NEW m \in Mutexes, Fail(m)
  PROVE  Quiet(m, Idle)
<1>1. frame' = [frame EXCEPT ![m] = Idle] /\ LateBy(m)
      /\ UNCHANGED <<setting, now, doc, lockDetail, claim>>
  BY AbandonLate DEF Fail, Return
<1> QED BY <1>1, ReturnQuiet


\* A method that returns with lock detail l and claim c keeps Shapes.
LEMMA SettleShapes ==
  ASSUME Shapes, NEW m \in Mutexes, NEW l, NEW c \in BOOLEAN,
         frame' = [frame EXCEPT ![m] = Idle], lockDetail' = [lockDetail EXCEPT ![m] = l],
         claim' = [claim EXCEPT ![m] = c], UNCHANGED <<setting, now, doc>>, LateBy(m),
         DocOK(l), l # NoDoc /\ l.identity = NoIdentity => l.owner = m, c => l # NoDoc
  PROVE  Moves(m, Idle, l, c) /\ Shapes'
<1>1. l \in Doc
  BY DEF DocOK
<1>2. Moves(m, Idle, l, c)
  BY <1>1, IdleFacts DEF Moves, Shapes
<1>3. FrameOK(m, Idle, l, c) /\ WriteOK(Idle.write, now)
  BY IdleOK, IdleFacts, NoWriteFacts
<1>4. DocOK(doc')
  BY DEF Shapes
<1> QED BY <1>2, <1>3, <1>4, ShapesStep

\* It keeps IInv if a claimed lease is in the document and no deletion of it
\* is on its way.
LEMMA SettleKeeps ==
  ASSUME IInv, Shapes', NEW m \in Mutexes, NEW l, NEW c \in BOOLEAN, Moves(m, Idle, l, c),
         LateBy(m), doc' = doc, l \in DocsInUse,
         c /\ l.identity = NoIdentity => \A w \in late' : w.op = "delete" => w.new # l,
         c /\ l.identity = NoIdentity /\ now + MaxSkew <= l.expires => doc = l
  PROVE  IInv'
<1>1. Idle.seen \in DocsInUse /\ Idle.write.new \in DocsInUse
  BY IdleFacts, NoWriteFacts DEF DocsInUse
<1>2. \A w \in late' : w.op = "delete" => ~Mine(Idle, l, c, w.new)
  BY IdleFacts DEF Mine
<1>3. Backed(Idle, l, c, doc, now)
  BY IdleFacts DEF Backed
<1> QED BY <1>1, <1>2, <1>3, LocalStep

\* A live lease is joined, without a claim, or waited for.
LEMMA FoundLiveCases ==
  ASSUME Shapes, NEW m \in Mutexes, FoundLive(m)
  PROVE  \/ \E f : Quiet(m, f) /\ f.call # "Unlock"
         \/ /\ Moves(m, Idle, frame[m].seen, FALSE) /\ LateBy(m) /\ doc' = doc /\ Shapes'
<1>. DEFINE g == frame[m]
<1>1. LateBy(m) /\ UNCHANGED <<setting, now, doc, late>>
  BY LateSame DEF FoundLive
<1>2. CASE NotAcquired(m) /\ UNCHANGED <<lockDetail, claim>>
  BY <1>1, <1>2, NotAcquiredQuiet
<1>3. CASE g.seen.identity # NoIdentity /\ Acquired(m, g.seen, FALSE)
  <2>1. DocOK(g.seen)
    BY Frames DEF FrameOK
  <2>2. /\ frame' = [frame EXCEPT ![m] = Idle]
        /\ lockDetail' = [lockDetail EXCEPT ![m] = g.seen]
        /\ claim' = [claim EXCEPT ![m] = FALSE]
    BY <1>3 DEF Acquired, Return
  <2>. HIDE DEF g
  <2>3. Moves(m, Idle, g.seen, FALSE) /\ Shapes'
    BY <1>1, <1>3, <2>1, <2>2, SettleShapes
  <2> QED BY <1>1, <2>3 DEF g
<1> QED BY <1>2, <1>3 DEF FoundLive

\* Reading a live lease keeps IInv.
LEMMA FoundLiveKeeps ==
  ASSUME IInv, NEW m \in Mutexes, FoundLive(m)
  PROVE  IInv'
<1>1. CASE \E f : Quiet(m, f)
  BY <1>1, QuietKeeps
<1>2. CASE Moves(m, Idle, frame[m].seen, FALSE) /\ LateBy(m) /\ doc' = doc /\ Shapes'
  <2>1. frame[m].seen \in DocsInUse
    BY DEF DocsInUse
  <2> QED BY <1>2, <2>1, SettleKeeps
<1> QED BY <1>1, <1>2, FoundLiveCases DEF IInv

\* The reply to the insert or the update gives the lease to m or does not.
LEMMA LockReplyCases ==
  ASSUME Shapes, NEW m \in Mutexes, LockReply(m)
  PROVE  \/ \E f : Quiet(m, f) /\ f.call # "Unlock"
         \/ /\ Moves(m, Idle, frame[m].write.new, TRUE) /\ late' = late /\ doc' = doc /\ Shapes'
            /\ Acquires(frame[m]) /\ frame[m].reply = "ok"
<1>. DEFINE g == frame[m]
<1>1. LateBy(m) /\ UNCHANGED <<setting, now, doc, late>> /\ g.pc = "write"
      /\ g.call \in {"TryLock", "Lock"}
  BY LateSame DEF LockReply
<1>2. CASE NotAcquired(m) /\ UNCHANGED <<lockDetail, claim>>
  BY <1>1, <1>2, NotAcquiredQuiet
<1>3. CASE g.reply = "ok" /\ Acquired(m, g.write.new, TRUE)
  <2>. DEFINE d == g.write.new
  <2>1. FrameOK(m, g, lockDetail[m], claim[m]) /\ WriteOK(g.write, now)
    BY Frames
  <2>2. Acquires(g) /\ DocOK(d) /\ d # NoDoc /\ (d.identity = NoIdentity => d.owner = m)
    BY <1>1, <2>1 DEF FrameOK, WriteOK, WriteType, Acquires
  <2>3. /\ frame' = [frame EXCEPT ![m] = Idle]
        /\ lockDetail' = [lockDetail EXCEPT ![m] = d]
        /\ claim' = [claim EXCEPT ![m] = TRUE]
    BY <1>3 DEF Acquired, Return
  <2>. HIDE DEF d
  <2>4. Moves(m, Idle, d, TRUE) /\ Shapes'
    BY <1>1, <2>2, <2>3, SettleShapes
  <2> QED BY <1>1, <1>3, <2>2, <2>4 DEF d
<1> QED BY <1>2, <1>3 DEF LockReply

\* Claiming the lease is sound: it was Backed since the write was executed.
LEMMA LockReplyKeeps ==
  ASSUME IInv, NEW m \in Mutexes, LockReply(m)
  PROVE  IInv'
<1>1. CASE \E f : Quiet(m, f)
  BY <1>1, QuietKeeps
<1>2. CASE /\ Moves(m, Idle, frame[m].write.new, TRUE) /\ late' = late /\ doc' = doc /\ Shapes'
           /\ Acquires(frame[m]) /\ frame[m].reply = "ok"
  <2>. DEFINE l == frame[m].write.new
  <2>1. l \in DocsInUse /\ LateBy(m)
    BY <1>2, LateSame DEF DocsInUse
  <2>2. l.identity = NoIdentity => \A w \in late' : w.op = "delete" => w.new # l
    BY <1>2 DEF IInv, Unasked, Mine
  <2>3. l.identity = NoIdentity /\ now + MaxSkew <= l.expires => doc = l
    BY <1>2 DEF IInv, AllBacked, Backed
  <2>. HIDE DEF l
  <2>4. Moves(m, Idle, l, TRUE)
    BY <1>2 DEF l
  <2> QED BY <1>2, <2>1, <2>2, <2>3, <2>4, SettleKeeps
<1> QED BY <1>1, <1>2, LockReplyCases DEF IInv

\* Unlock forgets the lock detail or keeps it, and has no claim.
LEMMA UnlockReplyCases ==
  ASSUME Shapes, NEW m \in Mutexes, UnlockReply(m)
  PROVE  \E l \in {NoDoc, lockDetail[m]} :
           Moves(m, Idle, l, FALSE) /\ late' = late /\ doc' = doc /\ Shapes'
<1>1. FrameOK(m, frame[m], lockDetail[m], claim[m])
  BY Frames
<1>2. claim[m] = FALSE
  BY <1>1 DEF FrameOK, UnlockReply
<1>3. LateBy(m) /\ UNCHANGED <<setting, now, doc, late, claim>> /\ frame' = [frame EXCEPT ![m] = Idle]
  BY LateSame DEF UnlockReply, Return
<1>4. claim' = [claim EXCEPT ![m] = FALSE]
  BY <1>2, <1>3 DEF Shapes
<1>5. PICK l \in {NoDoc, lockDetail[m]} : lockDetail' = [lockDetail EXCEPT ![m] = l]
  BY DEF UnlockReply, Shapes
<1>6. DocOK(l) /\ (l # NoDoc /\ l.identity = NoIdentity => l.owner = m)
  BY <1>1, <1>5, NoDocFacts DEF FrameOK
<1>7. Moves(m, Idle, l, FALSE) /\ Shapes'
  BY <1>3, <1>4, <1>5, <1>6, SettleShapes
<1> QED BY <1>3, <1>7

\* The end of Unlock keeps IInv.
LEMMA UnlockReplyKeeps ==
  ASSUME IInv, NEW m \in Mutexes, UnlockReply(m)
  PROVE  IInv'
<1>1. PICK l \in {NoDoc, lockDetail[m]} :
        Moves(m, Idle, l, FALSE) /\ late' = late /\ doc' = doc /\ Shapes'
  BY UnlockReplyCases DEF IInv
<1>2. l \in DocsInUse /\ LateBy(m)
  BY <1>1, LateSame DEF DocsInUse
<1> QED BY <1>1, <1>2, SettleKeeps

\* A restart forgets everything except a write on its way.
LEMMA RestartMoves ==
  ASSUME Shapes, NEW m \in Mutexes, Restart(m)
  PROVE  Moves(m, Idle, NoDoc, FALSE) /\ LateBy(m) /\ doc' = doc /\ Shapes'
<1>1. /\ frame' = [frame EXCEPT ![m] = Idle] /\ lockDetail' = [lockDetail EXCEPT ![m] = NoDoc]
      /\ claim' = [claim EXCEPT ![m] = FALSE] /\ UNCHANGED <<setting, now, doc>> /\ LateBy(m)
  BY AbandonLate DEF Restart, Return
<1> QED BY <1>1, SettleShapes, NoDocFacts

\* A restart keeps IInv.
LEMMA RestartKeeps ==
  ASSUME IInv, NEW m \in Mutexes, Restart(m)
  PROVE  IInv'
<1>1. Moves(m, Idle, NoDoc, FALSE) /\ LateBy(m) /\ doc' = doc /\ Shapes'
  BY RestartMoves DEF IInv
<1>2. NoDoc \in DocsInUse
  BY DEF DocsInUse
<1> QED BY <1>1, <1>2, SettleKeeps


\* The write of Lock or TryLock: an update is sent only if the lease was over
\* by the clock of m, and the new lease is computed from that clock.
LEMMA SendWriteMoves ==
  ASSUME Shapes, NEW m \in Mutexes, SendWrite(m)
  PROVE  \E f : /\ Moves(m, f, lockDetail[m], claim[m]) /\ late' = late /\ doc' = doc /\ Shapes'
                /\ f.call # "Unlock" /\ frame[m].call # "Unlock" /\ ~claim[m]
                /\ f.seen = NoDoc /\ f.reply = "wait"
                /\ setting.sameInstant \/ f.write.new.expires \notin ExpiriesInUse
                /\ f.write.new.expires > 0
<1>. DEFINE g == frame[m]
            o == g.opt
            exp == Clock(m) + o.ttl
            new == [expires |-> exp, identity |-> o.identity, owner |-> OwnerOf(m, o)]
            w == IF g.seen = NoDoc THEN Write("insert", 0, new)
                 ELSE Write("update", g.seen.expires, new)
            f == [g EXCEPT !.pc = "write", !.seen = NoDoc, !.write = w]
<1>1. /\ FrameOK(m, g, lockDetail[m], claim[m]) /\ g.pc = "found" /\ now \in Nat
      /\ Clock(m) \in Nat /\ Clock(m) <= now + MaxSkew
      /\ g.seen = NoDoc \/ g.seen.expires < Clock(m)
      /\ setting.sameInstant \/ exp \notin ExpiriesInUse
      /\ late' = late /\ doc' = doc
  BY Frames DEF SendWrite
<1>2. frame' = [frame EXCEPT ![m] = f] /\ UNCHANGED <<setting, now, lockDetail, claim>>
  BY DEF SendWrite
<1>. HIDE DEF g
<1>3. g.call \in {"TryLock", "Lock"} /\ o \in Options /\ lockDetail[m] = NoDoc /\ claim[m] = FALSE
      /\ g.reply = "wait"
  BY <1>1, IdleFacts DEF FrameOK, FrameType
<1>4. o.ttl \in TTLs /\ o.ttl \in Nat /\ o.ttl > 0 /\ o.identity \in Identities \cup {NoIdentity}
  BY <1>3, Constants DEF Options
<1>. HIDE DEF o
<1>5. OwnerOf(m, o) \in Owners /\ (o.identity = NoIdentity => OwnerOf(m, o) = m)
      /\ (o.identity # NoIdentity => OwnerOf(m, o) = o.identity)
  BY <1>4 DEF OwnerOf, Owners
<1>6. exp \in Nat /\ exp > 0 /\ exp <= now + MaxSkew + o.ttl
  BY <1>1, <1>4, Constants
<1>. HIDE DEF exp
<1>7. /\ new \in Doc /\ new.expires = exp /\ new.identity = o.identity
      /\ new.owner = OwnerOf(m, o)
  BY <1>4, <1>5, <1>6 DEF Doc
<1>. HIDE DEF new
<1>8. DocOK(new) /\ new # NoDoc
  BY <1>5, <1>6, <1>7, NoDocFacts DEF DocOK
<1>9. g.seen \in Doc /\ g.seen.expires \in Nat
  BY <1>1 DEF FrameOK, DocOK, Doc
<1>10. /\ w \in WriteType /\ w.op \in {"insert", "update"} /\ w.new = new
       /\ w.op = "update" => w.old = g.seen.expires /\ g.seen # NoDoc
  BY <1>7, <1>9 DEF Write, WriteType
<1>. HIDE DEF w
<1>11. WriteOK(w, now)
  <2>1. w.op = "update" => w.old < now + MaxSkew
    BY <1>1, <1>9, <1>10, Constants
  <2> QED BY <1>4, <1>6, <1>7, <1>8, <1>10, <2>1 DEF WriteOK
<1>12. /\ f \in FrameType /\ f.call = g.call /\ f.opt = g.opt /\ f.pc = "write"
       /\ f.seen = NoDoc /\ f.write = w /\ f.reply = g.reply
  BY <1>1, <1>10, NoDocFacts DEF FrameOK, FrameType
<1>. HIDE DEF f
<1>13. FrameOK(m, f, lockDetail[m], claim[m])
  BY <1>1, <1>3, <1>5, <1>7, <1>10, <1>12, NoDocFacts DEF FrameOK, Acquires, o
<1>14. Moves(m, f, lockDetail[m], claim[m]) /\ LateBy(m) /\ DocOK(doc')
  BY <1>1, <1>2, <1>12, LateSame DEF Moves, Shapes
<1>15. Shapes'
  BY <1>11, <1>12, <1>13, <1>14, ShapesStep
<1> QED BY <1>1, <1>3, <1>6, <1>7, <1>10, <1>12, <1>14, <1>15 DEF g

\* The expiry times of the leases in use are the ones SendWrite avoids.
LEMMA ExpiriesCounted ==
  ASSUME NEW d \in DocsInUse, d # NoDoc
  PROVE  d.expires \in ExpiriesInUse
<1>1. CASE d = doc
  BY <1>1 DEF ExpiriesInUse
<1>2. CASE \E m \in Mutexes : d = lockDetail[m] \/ d = frame[m].seen
  BY <1>2 DEF ExpiriesInUse
<1>3. CASE \E w \in late \cup {frame[m].write : m \in Mutexes} : d = w.new
  BY <1>3 DEF ExpiriesInUse
<1> QED BY <1>1, <1>2, <1>3 DEF DocsInUse

\* Sending the write keeps IInv: the lease is fresh.
LEMMA SendWriteKeeps ==
  ASSUME IInv, NEW m \in Mutexes, SendWrite(m)
  PROVE  IInv'
<1>1. PICK f :
        /\ Moves(m, f, lockDetail[m], claim[m]) /\ late' = late /\ doc' = doc /\ Shapes'
        /\ ~claim[m] /\ f.seen = NoDoc /\ f.reply = "wait"
        /\ setting.sameInstant \/ f.write.new.expires \notin ExpiriesInUse
        /\ f.write.new.expires > 0
  BY SendWriteMoves DEF IInv
<1>2. f.write.new.expires \notin ExpiriesInUse
  BY <1>1 DEF IInv, Distinct
<1>3. Fresh(f.write.new)
  <2>. SUFFICES ASSUME NEW d \in DocsInUse PROVE d.expires # f.write.new.expires
    BY DEF Fresh
  <2>1. CASE d = NoDoc
    BY <1>1, <2>1, NoDocFacts
  <2>2. CASE d # NoDoc
    BY <1>2, <2>2, ExpiriesCounted
  <2> QED BY <2>1, <2>2
<1>4. \A w \in late' : w.op = "delete" => ~Mine(f, lockDetail[m], claim[m], w.new)
  BY <1>1, <1>3 DEF Mine, Fresh, DocsInUse
<1>5. Backed(f, lockDetail[m], claim[m], doc, now)
  BY <1>1 DEF Backed
<1>6. LateBy(m) /\ lockDetail[m] \in DocsInUse /\ f.seen \in DocsInUse
  BY <1>1, LateSame DEF DocsInUse
<1> QED BY <1>1, <1>3, <1>4, <1>5, <1>6, LocalStep

\* Unlock (mutex.go:171) sends the deletion of its lock detail and gives the
\* claim up.
LEMMA BeginUnlockMoves ==
  ASSUME Shapes, NEW m \in Mutexes, BeginUnlock(m)
  PROVE  \E f : /\ Moves(m, f, lockDetail[m], FALSE) /\ late' = late /\ doc' = doc /\ Shapes'
                /\ f.call = "Unlock" /\ f.write.op = "delete" /\ f.write.new = lockDetail[m]
                /\ f.seen = NoDoc /\ f.reply = "wait"
                /\ frame[m].call = "none" /\ lockDetail[m].owner \in Owners
<1>. DEFINE l == lockDetail[m]
            w == Write("delete", l.expires, l)
            f == [Idle EXCEPT !.call = "Unlock", !.pc = "write", !.write = w]
<1>1. FrameOK(m, frame[m], l, claim[m])
  BY Frames
<1>2. /\ frame' = [frame EXCEPT ![m] = f] /\ claim' = [claim EXCEPT ![m] = FALSE]
      /\ UNCHANGED <<setting, now, doc, late, lockDetail>> /\ l # NoDoc /\ frame[m].call = "none"
  BY DEF BeginUnlock
<1>3. DocOK(l) /\ l \in Doc /\ l.expires \in Nat /\ l.owner \in Owners
  BY <1>1, <1>2 DEF FrameOK, DocOK, Doc
<1>. HIDE DEF l
<1>4. w \in WriteType /\ w.op = "delete" /\ w.old = l.expires /\ w.new = l
  BY <1>3 DEF Write, WriteType
<1>. HIDE DEF w
<1>5. WriteOK(w, now)
  BY <1>2, <1>3, <1>4 DEF WriteOK
<1>6. /\ f \in FrameType /\ f.call = "Unlock" /\ f.pc = "write" /\ f.seen = NoDoc
      /\ f.write = w /\ f.reply = "wait"
  BY <1>4, IdleFacts DEF FrameType
<1>. HIDE DEF f
<1>7. FrameOK(m, f, l, FALSE)
  BY <1>1, <1>4, <1>6, NoDocFacts DEF FrameOK, Acquires
<1>8. Moves(m, f, l, FALSE) /\ LateBy(m) /\ DocOK(doc')
  BY <1>2, <1>6, LateSame DEF Moves, Shapes, l
<1>9. Shapes'
  BY <1>5, <1>6, <1>7, <1>8, ShapesStep
<1> QED BY <1>2, <1>3, <1>4, <1>6, <1>8, <1>9 DEF l

\* Sending the deletion keeps IInv.
LEMMA BeginUnlockKeeps ==
  ASSUME IInv, NEW m \in Mutexes, BeginUnlock(m)
  PROVE  IInv'
<1>1. PICK f : /\ Moves(m, f, lockDetail[m], FALSE) /\ late' = late /\ doc' = doc /\ Shapes'
               /\ f.write.op = "delete" /\ f.write.new = lockDetail[m] /\ f.seen = NoDoc
  BY BeginUnlockMoves DEF IInv
<1>2. ~Acquires(f)
  BY <1>1 DEF Acquires
<1>3. \A w \in late' : w.op = "delete" => ~Mine(f, lockDetail[m], FALSE, w.new)
  BY <1>2 DEF Mine
<1>4. Backed(f, lockDetail[m], FALSE, doc, now)
  BY <1>2 DEF Backed
<1>5. LateBy(m) /\ lockDetail[m] \in DocsInUse /\ f.seen \in DocsInUse
  BY <1>1, LateSame DEF DocsInUse
<1> QED BY <1>1, <1>3, <1>4, <1>5, LocalStep

\* What a write does: nothing, or what its filter allows.
LEMMA ApplyResult ==
  ASSUME NEW d, NEW w, w.op \in {"insert", "update", "delete"}
  PROVE  \/ Apply(d, w) = d
         \/ w.op = "insert" /\ d = NoDoc /\ Apply(d, w) = w.new
         \/ w.op = "update" /\ d # NoDoc /\ d.expires = w.old /\ Apply(d, w) = w.new
         \/ w.op = "delete" /\ d # NoDoc /\ d.expires = w.old /\ Apply(d, w) = NoDoc
BY DEF Apply

\* The document afterwards is a lease that was in use, or none.
LEMMA ApplyInUse ==
  ASSUME NEW w, NEW t, WriteOK(w, t), w.op # "none", DocOK(doc), w.new \in DocsInUse
  PROVE  Apply(doc, w) \in DocsInUse /\ DocOK(Apply(doc, w))
<1>1. w.op \in {"insert", "update", "delete"} /\ DocOK(w.new)
  BY DEF WriteOK, WriteType
<1> QED BY <1>1, ApplyResult, NoDocFacts DEF DocsInUse

\* A lease that no clock considers over survives every write except a deletion
\* that names it.
LEMMA Protects ==
  ASSUME NEW d, NEW w, NEW t \in Nat, WriteOK(w, t), w.op # "none", DocOK(d), d # NoDoc,
         t + MaxSkew <= d.expires, w.op = "delete" => w.new.expires # d.expires
  PROVE  Apply(d, w) = d
<1>1. w.op \in {"insert", "update", "delete"} /\ w.old \in Nat /\ d.expires \in Nat
  BY DEF WriteOK, WriteType, DocOK, Doc
<1>2. w.op = "update" => d.expires # w.old
  BY <1>1, Constants DEF WriteOK
<1>3. w.op = "delete" => d.expires # w.old
  BY DEF WriteOK
<1> QED BY <1>1, <1>2, <1>3, ApplyResult


\* So the lease of a holder survives every write that may be on its way,
\* executed now or late.
LEMMA WriteSpares ==
  ASSUME IInv, NEW n \in Mutexes, NEW w, WriteOK(w, now), w.op # "none", w.new \in DocsInUse,
         w.op = "delete" => ~Mine(frame[n], lockDetail[n], claim[n], w.new)
  PROVE  Backed(frame[n], lockDetail[n], claim[n], Apply(doc, w), now)
<1>. DEFINE f == frame[n]
            l == lockDetail[n]
            c == claim[n]
<1>1. FrameOK(n, f, l, c) /\ WriteOK(f.write, now) /\ Backed(f, l, c, doc, now) /\ now \in Nat
  BY Frames DEF IInv, AllBacked
<1>2. l \in DocsInUse /\ f.write.new \in DocsInUse
  BY DEF DocsInUse
<1>. HIDE DEF f, l, c
<1>3. ASSUME NEW d \in DocsInUse, Mine(f, l, c, d), w.op = "delete" PROVE w.new.expires # d.expires
  BY <1>3 DEF IInv, ExpiryIdentifies, f, l, c
<1>4. ASSUME NEW d \in DocsInUse, Mine(f, l, c, d), doc = d, DocOK(d), d # NoDoc,
             now + MaxSkew <= d.expires
      PROVE  Apply(doc, w) = d
  BY <1>1, <1>3, <1>4, Protects
<1>5. ASSUME c, l.identity = NoIdentity, now + MaxSkew <= l.expires PROVE Apply(doc, w) = l
  <2>1. doc = l /\ DocOK(l) /\ l # NoDoc /\ Mine(f, l, c, l)
    BY <1>1, <1>5 DEF Backed, FrameOK, Mine
  <2> QED BY <1>2, <1>4, <1>5, <2>1
<1>6. ASSUME Acquires(f), f.reply = "ok", f.write.new.identity = NoIdentity,
             now + MaxSkew <= f.write.new.expires
      PROVE  Apply(doc, w) = f.write.new
  <2>1. /\ doc = f.write.new /\ DocOK(f.write.new) /\ f.write.new # NoDoc
        /\ Mine(f, l, c, f.write.new)
    BY <1>1, <1>6 DEF Backed, WriteOK, Mine, Acquires
  <2> QED BY <1>2, <1>4, <1>6, <2>1
<1>7. Backed(f, l, c, Apply(doc, w), now)
  BY <1>5, <1>6 DEF Backed
<1> QED BY <1>7 DEF f, l, c

\* The server executes the write of m.
LEMMA ExecWriteMoves ==
  ASSUME Shapes, NEW m \in Mutexes, ExecWrite(m)
  PROVE  LET w == frame[m].write
             f == [frame[m] EXCEPT !.reply = IF doc' = doc THEN "no" ELSE "ok"]
         IN  /\ Moves(m, f, lockDetail[m], claim[m]) /\ late' = late /\ Shapes'
             /\ doc' = Apply(doc, w) /\ w.op # "none" /\ WriteOK(w, now) /\ w.new \in DocsInUse
             /\ f.call = frame[m].call /\ f.seen = frame[m].seen /\ f.write = w
             /\ f.reply = "ok" => doc' # doc
<1>. DEFINE g == frame[m]
            w == g.write
            r == IF doc' = doc THEN "no" ELSE "ok"
            f == [g EXCEPT !.reply = r]
<1>1. FrameOK(m, g, lockDetail[m], claim[m]) /\ WriteOK(w, now) /\ DocOK(doc)
  BY Frames DEF Shapes
<1>2. /\ frame' = [frame EXCEPT ![m] = f] /\ doc' = Apply(doc, w) /\ g.pc = "write"
      /\ UNCHANGED <<setting, now, late, lockDetail, claim>>
  BY DEF ExecWrite
<1>3. w.op # "none" /\ w.new \in DocsInUse
  BY <1>1, <1>2 DEF FrameOK, DocsInUse
<1>4. DocOK(doc')
  BY <1>1, <1>2, <1>3, ApplyInUse
<1>. HIDE DEF g
<1>5. /\ f \in FrameType /\ f.call = g.call /\ f.opt = g.opt /\ f.pc = g.pc /\ f.seen = g.seen
      /\ f.write = w /\ f.reply = r
  BY <1>1 DEF FrameOK, FrameType
<1>. HIDE DEF f, w
<1>6. FrameOK(m, f, lockDetail[m], claim[m])
  BY <1>1, <1>2, <1>3, <1>5, IdleFacts DEF FrameOK, Acquires, w
<1>7. Moves(m, f, lockDetail[m], claim[m]) /\ LateBy(m)
  BY <1>2, <1>5, LateSame DEF Moves, Shapes
<1>8. Shapes'
  BY <1>1, <1>4, <1>5, <1>6, <1>7, ShapesStep
<1> QED BY <1>1, <1>2, <1>3, <1>5, <1>7, <1>8 DEF f, g, w

\* Executing it keeps IInv.
LEMMA ExecWriteKeeps ==
  ASSUME IInv, NEW m \in Mutexes, ExecWrite(m)
  PROVE  IInv'
<1>. DEFINE w == frame[m].write
            f == [frame[m] EXCEPT !.reply = IF doc' = doc THEN "no" ELSE "ok"]
<1>1. /\ Moves(m, f, lockDetail[m], claim[m]) /\ late' = late /\ Shapes'
      /\ doc' = Apply(doc, w) /\ w.op # "none" /\ WriteOK(w, now) /\ w.new \in DocsInUse
      /\ f.call = frame[m].call /\ f.seen = frame[m].seen /\ f.write = w
      /\ f.reply = "ok" => doc' # doc
  BY ExecWriteMoves DEF IInv
<1>. HIDE DEF f, w
<1>2. /\ \A n \in Mutexes : /\ frame'[n] = IF n = m THEN f ELSE frame[n]
                            /\ lockDetail'[n] = lockDetail[n] /\ claim'[n] = claim[n]
      /\ setting' = setting /\ now' = now
  BY <1>1 DEF Moves
<1>3. \A n \in Mutexes : frame'[n].seen = frame[n].seen /\ frame'[n].write = frame[n].write
  BY <1>1, <1>2 DEF w
<1>4. ExpiryIdentifies'
  <2>1. doc' \in DocsInUse
    BY <1>1, ApplyInUse DEF IInv, Shapes
  <2>2. \A d \in DocsInUse' : d \in DocsInUse
    BY <1>1, <1>2, <1>3, <2>1 DEF DocsInUse
  <2> QED BY <2>2 DEF IInv, ExpiryIdentifies
<1>5. Unasked'
  BY <1>1, <1>2, <1>3 DEF IInv, Unasked, Mine, Acquires
<1>6. AllBacked'
  <2>. SUFFICES ASSUME NEW n \in Mutexes
                PROVE  Backed(frame'[n], lockDetail[n], claim[n], Apply(doc, w), now)
    BY <1>1, <1>2 DEF AllBacked
  <2>1. w.op = "delete" => ~Mine(frame[n], lockDetail[n], claim[n], w.new)
    BY DeletesOwn DEF IInv, w
  <2>2. Backed(frame[n], lockDetail[n], claim[n], Apply(doc, w), now)
    BY <1>1, <2>1, WriteSpares
  <2>3. CASE n # m
    BY <1>2, <2>2, <2>3
  <2>4. CASE n = m
    <3>1. Acquires(f) /\ f.reply = "ok" => Apply(doc, w) = w.new
      BY <1>1, ApplyResult DEF Acquires
    <3>2. frame'[n] = f
      BY <1>2, <2>4
    <3> QED BY <1>1, <2>2, <2>4, <3>1, <3>2 DEF Backed, w
  <2> QED BY <2>3, <2>4
<1> QED BY <1>1, <1>2, <1>4, <1>5, <1>6 DEF IInv, Distinct

\* A write executed late keeps Shapes.
LEMMA LateWriteShapes ==
  ASSUME Shapes, NEW w \in late, LateWrite(w)
  PROVE  Shapes' /\ WriteOK(w, now) /\ w.op # "none" /\ doc' \in DocsInUse
<1>1. WriteOK(w, now) /\ w.op # "none" /\ w.new \in DocsInUse /\ doc \in DocsInUse /\ DocOK(doc)
  BY DEF Shapes, DocsInUse
<1>2. doc' \in DocsInUse /\ DocOK(doc')
  BY <1>1, ApplyInUse DEF LateWrite
<1> QED BY <1>1, <1>2 DEF Shapes, LateWrite

\* A write executed late keeps IInv.
LEMMA LateWriteKeeps ==
  ASSUME IInv, NEW w \in late, LateWrite(w)
  PROVE  IInv'
<1>1. Shapes' /\ WriteOK(w, now) /\ w.op # "none" /\ doc' \in DocsInUse
  BY LateWriteShapes DEF IInv
<1>2. /\ late' = late \ {w} /\ doc' \in {doc, Apply(doc, w)} /\ setting' = setting /\ now' = now
      /\ lockDetail' = lockDetail /\ frame' = frame /\ claim' = claim
  BY DEF LateWrite
<1>3. ExpiryIdentifies'
  <2>1. \A d \in DocsInUse' : d \in DocsInUse
    BY <1>1, <1>2 DEF DocsInUse
  <2> QED BY <2>1 DEF IInv, ExpiryIdentifies
<1>4. Unasked'
  BY <1>2 DEF IInv, Unasked
<1>5. ASSUME NEW n \in Mutexes PROVE Backed(frame[n], lockDetail[n], claim[n], doc', now)
  <2>1. Backed(frame[n], lockDetail[n], claim[n], doc, now)
    BY DEF IInv, AllBacked
  <2>2. w.new \in DocsInUse
    BY DEF DocsInUse
  <2>3. Backed(frame[n], lockDetail[n], claim[n], Apply(doc, w), now)
    BY <1>1, <2>2, WriteSpares DEF IInv, Unasked
  <2> QED BY <1>2, <2>1, <2>3
<1>6. AllBacked'
  BY <1>2, <1>5 DEF AllBacked
<1> QED BY <1>1, <1>2, <1>3, <1>4, <1>6 DEF IInv, Distinct

\* The TTL index keeps Shapes.
LEMMA TTLMonitorShapes ==
  ASSUME Shapes, TTLMonitor
  PROVE  Shapes'
BY NoDocFacts DEF TTLMonitor, Shapes

\* The TTL index removes only a lease that every clock considers over.
LEMMA TTLMonitorKeeps ==
  ASSUME IInv, TTLMonitor
  PROVE  IInv'
<1>1. Shapes'
  BY TTLMonitorShapes DEF IInv
<1>2. /\ doc # NoDoc /\ doc.expires + Grace < now /\ doc' = NoDoc
      /\ UNCHANGED <<setting, now, late, lockDetail, frame, claim>>
  BY DEF TTLMonitor
<1>3. ExpiryIdentifies'
  <2>1. \A d \in DocsInUse' : d \in DocsInUse
    BY <1>2 DEF DocsInUse
  <2> QED BY <2>1 DEF IInv, ExpiryIdentifies
<1>4. Unasked'
  BY <1>2 DEF IInv, Unasked
<1>5. ~(now + MaxSkew <= doc.expires)
  <2>1. now \in Nat /\ doc.expires \in Nat
    BY DEF IInv, Shapes, DocOK, Doc
  <2> QED BY <1>2, <2>1, Constants
<1>6. AllBacked'
  BY <1>2, <1>5 DEF IInv, AllBacked, Backed
<1> QED BY <1>1, <1>2, <1>3, <1>4, <1>6 DEF IInv, Distinct

\* A write stays as WriteOK says while time passes.
LEMMA WriteOKLater ==
  ASSUME NEW w, NEW t \in Nat, WriteOK(w, t)
  PROVE  WriteOK(w, t + 1)
<1>1. w.old \in Nat /\ w.new.expires \in Nat
  BY DEF WriteOK, WriteType, Doc
<1>2. w.op = "update" => w.old < t + 1 + MaxSkew
  BY <1>1, Constants DEF WriteOK
<1>3. w.op \in {"insert", "update"} => \E d \in TTLs : w.new.expires <= t + 1 + MaxSkew + d
  <2>. SUFFICES ASSUME w.op \in {"insert", "update"}
                PROVE  \E d \in TTLs : w.new.expires <= t + 1 + MaxSkew + d
    OBVIOUS
  <2>1. PICK d \in TTLs : w.new.expires <= t + MaxSkew + d
    BY DEF WriteOK
  <2>2. w.new.expires <= t + 1 + MaxSkew + d
    BY <1>1, <2>1, Constants
  <2> QED BY <2>2
<1> QED BY <1>2, <1>3 DEF WriteOK

\* Time keeps Shapes.
LEMMA TickShapes ==
  ASSUME Shapes, Tick
  PROVE  Shapes'
<1>1. now' = now + 1 /\ now' \in Nat /\ UNCHANGED <<setting, doc, late, lockDetail, frame, claim>>
  BY DEF Tick, Shapes
<1>2. \A w \in late : WriteOK(w, now')
  BY <1>1, WriteOKLater DEF Shapes
<1>3. \A m \in Mutexes : WriteOK(frame[m].write, now')
  BY <1>1, WriteOKLater DEF Shapes
<1> QED BY <1>1, <1>2, <1>3 DEF Shapes

\* Time keeps IInv: a lease that is not over now was not over before.
LEMMA TickKeeps ==
  ASSUME IInv, Tick
  PROVE  IInv'
<1>1. Shapes'
  BY TickShapes DEF IInv
<1>2. now' = now + 1 /\ now \in Nat /\ UNCHANGED <<setting, doc, late, lockDetail, frame, claim>>
  BY DEF Tick, IInv, Shapes
<1>3. ExpiryIdentifies' /\ Unasked'
  BY <1>2 DEF IInv, ExpiryIdentifies, Unasked, DocsInUse
<1>4. ASSUME NEW d, d \in Doc, now + 1 + MaxSkew <= d.expires PROVE now + MaxSkew <= d.expires
  BY <1>2, <1>4, Constants DEF Doc
<1>5. AllBacked'
  <2>. SUFFICES ASSUME NEW m \in Mutexes
                PROVE  Backed(frame[m], lockDetail[m], claim[m], doc, now + 1)
    BY <1>2 DEF AllBacked
  <2>1. lockDetail[m] \in Doc /\ frame[m].write.new \in Doc
    BY Frames DEF IInv, Shapes, WriteOK, DocOK
  <2>2. Backed(frame[m], lockDetail[m], claim[m], doc, now)
    BY DEF IInv, AllBacked
  <2> QED BY <1>4, <2>1, <2>2 DEF Backed
<1> QED BY <1>1, <1>2, <1>3, <1>5 DEF IInv, Distinct


\* The initial states satisfy Shapes.
LEMMA ShapesInit ==
  ASSUME Init
  PROVE  Shapes
<1>1. \A m \in Mutexes : frame[m] = Idle /\ lockDetail[m] = NoDoc /\ claim[m] = FALSE
  BY DEF Init
<1>2. \A m \in Mutexes : /\ FrameOK(m, frame[m], lockDetail[m], claim[m])
                         /\ WriteOK(frame[m].write, now)
  BY <1>1, IdleOK, IdleFacts, NoDocFacts, NoWriteFacts
<1> QED BY <1>2, IdleFacts, NoDocFacts DEF Init, Shapes

\* The initial states satisfy IInv.
LEMMA IInvInit ==
  ASSUME Init, Distinct
  PROVE  IInv
<1>1. \A m \in Mutexes : frame[m] = Idle /\ lockDetail[m] = NoDoc /\ claim[m] = FALSE
  BY DEF Init
<1>2. \A d \in DocsInUse : d = NoDoc
  BY <1>1, IdleFacts, NoWriteFacts DEF Init, DocsInUse
<1>3. AllBacked
  BY <1>1, IdleFacts DEF AllBacked, Backed
<1> QED BY <1>2, <1>3, ShapesInit DEF Init, IInv, ExpiryIdentifies, Unasked

\* Every step keeps Shapes.
LEMMA ShapesNext ==
  ASSUME Shapes, [Next]_vars
  PROVE  Shapes'
<1>1. CASE UNCHANGED vars
  BY <1>1 DEF vars, Shapes
<1>2. ASSUME NEW m \in Mutexes, \E f : Quiet(m, f) PROVE Shapes'
  BY <1>2, QuietShapes
<1>3. ASSUME NEW m \in Mutexes,
             SendWrite(m) \/ FoundLive(m) \/ LockReply(m) \/ BeginUnlock(m) \/ UnlockReply(m)
      PROVE  Shapes'
  BY <1>2, <1>3, SendWriteMoves, FoundLiveCases, LockReplyCases, BeginUnlockMoves, UnlockReplyCases
<1>4. ASSUME NEW m \in Mutexes,
             SpinTick(m) \/ GiveUp(m) \/ ExecFind(m) \/ ExecWrite(m) \/ Fail(m) \/ Restart(m)
      PROVE  Shapes'
  BY <1>2, <1>4, SpinTickQuiet, GiveUpQuiet, ExecFindQuiet, ExecWriteMoves, FailQuiet, RestartMoves
<1>5. ASSUME NEW m \in Mutexes, NEW call \in {"TryLock", "Lock"}, NEW o \in Options,
             BeginLock(m, call, o)
      PROVE  Shapes'
  BY <1>2, <1>5, BeginLockQuiet
<1>6. CASE (\E w \in late : LateWrite(w)) \/ TTLMonitor \/ Tick
  BY <1>6, LateWriteShapes, TTLMonitorShapes, TickShapes
<1> QED BY <1>1, <1>3, <1>4, <1>5, <1>6 DEF Next

\* Every step keeps IInv.
LEMMA IInvNext ==
  ASSUME IInv, [Next]_vars
  PROVE  IInv'
<1>0. Shapes
  BY DEF IInv
<1>1. CASE UNCHANGED vars
  BY <1>1 DEF vars, IInv, Shapes, Distinct, ExpiryIdentifies, DocsInUse, Unasked, AllBacked
<1>2. ASSUME NEW m \in Mutexes, \E f : Quiet(m, f) PROVE IInv'
  BY <1>2, QuietKeeps
<1>3. ASSUME NEW m \in Mutexes,
             SendWrite(m) \/ FoundLive(m) \/ LockReply(m) \/ BeginUnlock(m) \/ UnlockReply(m)
      PROVE  IInv'
  BY <1>3, SendWriteKeeps, FoundLiveKeeps, LockReplyKeeps, BeginUnlockKeeps, UnlockReplyKeeps
<1>4. ASSUME NEW m \in Mutexes,
             SpinTick(m) \/ GiveUp(m) \/ ExecFind(m) \/ ExecWrite(m) \/ Fail(m) \/ Restart(m)
      PROVE  IInv'
  BY <1>0, <1>2, <1>4, SpinTickQuiet, GiveUpQuiet, ExecFindQuiet, ExecWriteKeeps, FailQuiet,
     RestartKeeps
<1>5. ASSUME NEW m \in Mutexes, NEW call \in {"TryLock", "Lock"}, NEW o \in Options,
             BeginLock(m, call, o)
      PROVE  IInv'
  BY <1>0, <1>2, <1>5, BeginLockQuiet
<1>6. CASE (\E w \in late : LateWrite(w)) \/ TTLMonitor \/ Tick
  BY <1>6, LateWriteKeeps, TTLMonitorKeeps, TickKeeps
<1> QED BY <1>1, <1>3, <1>4, <1>5, <1>6 DEF Next

\* The variables keep their types, and a method waits for the server with a
\* write exactly when it has one, also when leases expire in the same
\* millisecond.
THEOREM TypeCorrect == Spec => []TypeOK
<1>1. Init => Shapes
  BY ShapesInit
<1>2. Shapes /\ [Next]_vars => Shapes'
  BY ShapesNext
<1>3. Shapes => TypeOK
  BY DEF Shapes, TypeOK, FrameType, FrameOK, DocOK, WriteOK
<1> QED BY <1>1, <1>2, <1>3, PTL DEF Spec

\* The inductive invariant holds.
THEOREM Invariance == Spec /\ Distinct => []IInv
<1>1. Init /\ Distinct => IInv
  BY IInvInit
<1>2. IInv /\ [Next]_vars => IInv'
  BY IInvNext
<1> QED BY <1>1, <1>2, PTL DEF Spec

\* The invariant implies LeaseBacked: the clock of a holder is not behind the
\* server.
LEMMA BackedHolder ==
  ASSUME IInv
  PROVE  LeaseBacked
<1>. SUFFICES ASSUME NEW m \in Mutexes, Holds(m), lockDetail[m].identity = NoIdentity
              PROVE  doc = lockDetail[m]
  BY DEF LeaseBacked
<1>1. Shapes /\ lockDetail[m] \in Doc /\ Skew[m] \in Nat /\ now \in Nat
  BY Constants DEF IInv, Shapes
<1>2. now + MaxSkew <= lockDetail[m].expires
  BY <1>1, Constants DEF Holds, Clock, Doc
<1> QED BY <1>2 DEF IInv, AllBacked, Backed, Holds

\* A holder inside its lease owns the document: no takeover, late write, TTL
\* index or Unlock of another instance removes or replaces it (Lock, TryLock
\* and Unlock, mutex.go:113, 171).
THEOREM Backing == Spec /\ Distinct => []LeaseBacked
<1>1. IInv => LeaseBacked
  BY BackedHolder
<1> QED BY <1>1, Invariance, PTL

\* Two instances that lock without an identity are never both inside their
\* lease, whatever the clocks within MaxSkew, the failures and the writes
\* executed late (mutex.go:113).
THEOREM Exclusion == Spec /\ Distinct => []MutualExclusion
<1>1. ASSUME IInv PROVE MutualExclusion
  <2>. SUFFICES ASSUME NEW m \in Mutexes, NEW n \in Mutexes, Holds(m), Holds(n),
                       lockDetail[m].identity = NoIdentity, lockDetail[n].identity = NoIdentity
                PROVE  m = n
    BY DEF MutualExclusion
  <2>1. doc = lockDetail[m] /\ doc = lockDetail[n]
    BY <1>1, BackedHolder DEF LeaseBacked
  <2>2. ASSUME NEW k \in Mutexes, Holds(k), lockDetail[k].identity = NoIdentity
        PROVE  lockDetail[k].owner = k
    BY <1>1, <2>2, Frames DEF IInv, FrameOK, Holds
  <2> QED BY <2>1, <2>2
<1> QED BY <1>1, Invariance, PTL

\* A step after which its instance waits for no reply answers nobody.
LEMMA StaysUnanswered ==
  ASSUME NEW m \in Mutexes, NEW n \in Mutexes, NEW f, NEW l, NEW c, Moves(n, f, l, c),
         f.reply = "wait", frame[m].reply = "wait"
  PROVE  frame'[m].reply # "ok"
BY DEF Moves

\* Nor does a quiet step.
LEMMA QuietUnanswered ==
  ASSUME NEW m \in Mutexes, NEW n \in Mutexes, NEW f, Quiet(n, f), frame[m].reply = "wait"
  PROVE  frame'[m].reply # "ok"
<1>1. f.reply = "wait" /\ Moves(n, f, lockDetail[n], claim[n])
  BY NoWriteFacts DEF Quiet, FrameOK
<1> QED BY <1>1, StaysUnanswered

\* Only the server gives a method the reply it waits for.
LEMMA OnlyExecWriteAnswers ==
  ASSUME Shapes, Next, NEW m \in Mutexes, frame[m].reply = "wait", frame'[m].reply = "ok"
  PROVE  ExecWrite(m)
<1>1. ASSUME NEW n \in Mutexes, \E f : Quiet(n, f) PROVE FALSE
  BY <1>1, QuietUnanswered
<1>2. ASSUME NEW n \in Mutexes, NEW l, NEW c, Moves(n, Idle, l, c) PROVE FALSE
  BY <1>2, StaysUnanswered, IdleFacts
<1>3. ASSUME NEW n \in Mutexes, FoundLive(n) \/ LockReply(n) PROVE FALSE
  BY <1>1, <1>2, <1>3, FoundLiveCases, LockReplyCases
<1>4. ASSUME NEW n \in Mutexes, UnlockReply(n) \/ Restart(n) PROVE FALSE
  BY <1>2, <1>4, UnlockReplyCases, RestartMoves
<1>5. ASSUME NEW n \in Mutexes, SendWrite(n) \/ BeginUnlock(n) PROVE FALSE
  BY <1>5, SendWriteMoves, BeginUnlockMoves, StaysUnanswered
<1>6. ASSUME NEW n \in Mutexes, SpinTick(n) \/ GiveUp(n) \/ ExecFind(n) \/ Fail(n) PROVE FALSE
  BY <1>1, <1>6, SpinTickQuiet, GiveUpQuiet, ExecFindQuiet, FailQuiet
<1>7. ASSUME NEW n \in Mutexes, NEW call \in {"TryLock", "Lock"}, NEW o \in Options,
             BeginLock(n, call, o)
      PROVE  FALSE
  BY <1>1, <1>7, BeginLockQuiet
<1>8. ASSUME NEW n \in Mutexes, ExecWrite(n), n # m PROVE FALSE
  <2>1. frame'[m] = frame[m]
    BY <1>8 DEF ExecWrite, Shapes
  <2> QED BY <2>1
<1>9. CASE (\E w \in late : LateWrite(w)) \/ TTLMonitor \/ Tick
  BY <1>9 DEF LateWrite, TTLMonitor, Tick
<1> QED BY <1>3, <1>4, <1>5, <1>6, <1>7, <1>8, <1>9 DEF Next

\* Unlock (mutex.go:171) removes the lease of its own instance and no other:
\* the filter of the deletion compares the expiry time, which identifies the
\* lease.
THEOREM UnlockOwn == Spec /\ Distinct => UnlockRemovesOwn
<1>. DEFINE A == \A m \in Mutexes :
                   frame[m].call = "Unlock" /\ frame[m].reply = "wait" /\ frame'[m].reply = "ok"
                     => doc.owner = lockDetail[m].owner
<1>1. IInv /\ [Next]_vars => [A]_vars
  <2>. SUFFICES ASSUME IInv, Next, NEW m \in Mutexes, frame[m].call = "Unlock",
                       frame[m].reply = "wait", frame'[m].reply = "ok"
                PROVE  doc.owner = lockDetail[m].owner
    OBVIOUS
  <2>1. frame[m].write.op = "delete" /\ frame[m].write.new = lockDetail[m]
        /\ frame[m].write.old = lockDetail[m].expires
    BY Frames DEF IInv, FrameOK, WriteOK
  <2>2. doc' = Apply(doc, frame[m].write) /\ doc' # doc
    <3>1. ExecWrite(m)
      BY OnlyExecWriteAnswers DEF IInv
    <3> QED BY <3>1 DEF ExecWrite, IInv, Shapes
  <2>3. doc.expires = lockDetail[m].expires
    BY <2>1, <2>2, ApplyResult
  <2>4. doc \in DocsInUse /\ lockDetail[m] \in DocsInUse
    BY DEF DocsInUse
  <2> QED BY <2>3, <2>4 DEF IInv, ExpiryIdentifies
<1> QED BY <1>1, Invariance, PTL DEF Spec, UnlockRemovesOwn

-----------------------------------------------------------------------------
\* The abstract lease of document d at time t.
LeaseOf(d, t) == IF d # NoDoc /\ d.expires - MaxSkew - t >= 0
                 THEN [value |-> d.owner, ttl |-> d.expires - MaxSkew - t + 1]
                 ELSE [value |-> NoOwner, ttl |-> 0]

\* It is what the refinement mapping says.
LEMMA LeaseMapped ==
  /\ LL!vars = <<LeaseOf(doc, now), ReleaseAsked>>
  /\ LL!vars' = <<LeaseOf(doc', now'), ReleaseAsked'>>
BY DEF LL!vars, LeaseOf, TimeLeft

\* A step that changes neither the lease nor the asked releases is a stutter.
LEMMA StutterLL ==
  ASSUME LeaseOf(doc', now') = LeaseOf(doc, now), ReleaseAsked' = ReleaseAsked
  PROVE  UNCHANGED LL!vars
BY LeaseMapped

\* A step that adds or removes one asked release is an Ask.
LEMMA AskLL ==
  ASSUME NEW o \in Owners, LeaseOf(doc', now') = LeaseOf(doc, now),
         ReleaseAsked' \in {ReleaseAsked \cup {o}, ReleaseAsked \ {o}}
  PROVE  LL!Next
BY DEF LL!Next, LL!Ask, LeaseOf, TimeLeft

\* A step that gives the free lease to an owner is a Grant.
LEMMA GrantLL ==
  ASSUME NEW o \in Owners, NEW d \in UNION {1 .. t + 1 : t \in TTLs},
         LeaseOf(doc, now) = [value |-> NoOwner, ttl |-> 0],
         LeaseOf(doc', now') = [value |-> o, ttl |-> d], ReleaseAsked' = ReleaseAsked
  PROVE  LL!Next
BY DEF LL!Next, LL!Grant, LL!Free, LeaseOf, TimeLeft

\* A step that ends a lease whose release was asked for is a Release.
LEMMA ReleaseLL ==
  ASSUME NEW o \in Owners, o \in ReleaseAsked, LeaseOf(doc, now).value = o,
         LeaseOf(doc', now') = [value |-> NoOwner, ttl |-> 0],
         ReleaseAsked' \in {ReleaseAsked, ReleaseAsked \ {o}}
  PROVE  LL!Next
BY DEF LL!Next, LL!Release, LL!Free, LeaseOf, TimeLeft

\* Who asked for a release: abandoned deletions and running calls of Unlock.
LEMMA AskedMember ==
  \A x : x \in ReleaseAsked <=>
           \/ \E w \in late : w.op = "delete" /\ w.new.owner = x
           \/ \E n \in Mutexes : frame[n].call = "Unlock" /\ frame[n].write.new.owner = x
BY DEF ReleaseAsked

\* The same in the next state.
LEMMA AskedMemberNext ==
  \A x : x \in ReleaseAsked' <=>
           \/ \E w \in late' : w.op = "delete" /\ w.new.owner = x
           \/ \E n \in Mutexes : frame'[n].call = "Unlock" /\ frame'[n].write.new.owner = x
BY DEF ReleaseAsked

\* The initial states are initial states of the abstract lock.
LEMMA InitLL == Init => LL!Init
<1>. SUFFICES ASSUME Init PROVE LL!Init
  OBVIOUS
<1>1. \A n \in Mutexes : frame[n].call = "none"
  BY IdleFacts DEF Init
<1>2. ReleaseAsked = {}
  BY <1>1, AskedMember DEF Init
<1> QED BY <1>2 DEF Init, LL!Init, LL!Free

\* A method that leaves at most its own asked release behind is a stutter or
\* an Ask.
LEMMA LeaveLL ==
  ASSUME Shapes, NEW m \in Mutexes, NEW f, NEW l, NEW c, Moves(m, f, l, c), LateBy(m),
         doc' = doc, f.call # "Unlock"
  PROVE  LL!Next \/ UNCHANGED LL!vars
<1>. DEFINE v == frame[m].write.new.owner
<1>1. LeaseOf(doc', now') = LeaseOf(doc, now)
  BY DEF Moves
<1>2. \A n \in Mutexes : frame'[n] = IF n = m THEN f ELSE frame[n]
  BY DEF Moves
<1>3. \A w \in late' : w \in late \/ w = frame[m].write
  BY DEF LateBy
<1>4. frame[m].write.op = "delete" => frame[m].call = "Unlock"
  BY DeletesOwn
<1>5. CASE frame[m].call # "Unlock"
  <2>1. \A x : x \in ReleaseAsked' <=> x \in ReleaseAsked
    BY <1>2, <1>3, <1>4, <1>5, AskedMember, AskedMemberNext DEF LateBy
  <2>2. ReleaseAsked' = ReleaseAsked
    BY <2>1
  <2> QED BY <1>1, <2>2, StutterLL
<1>6. CASE frame[m].call = "Unlock"
  <2>1. v \in Owners
    BY <1>6, Frames DEF FrameOK, WriteOK, DocOK
  <2>2. v \in ReleaseAsked
    BY <1>6, AskedMember
  <2>3. \A x : x # v => (x \in ReleaseAsked' <=> x \in ReleaseAsked)
    BY <1>2, <1>3, <1>6, AskedMember, AskedMemberNext DEF LateBy
  <2>. HIDE DEF v
  <2>4. ReleaseAsked' \in {ReleaseAsked, ReleaseAsked \ {v}}
    <3>1. CASE v \in ReleaseAsked'
      <4>1. ReleaseAsked' = ReleaseAsked
        BY <2>2, <2>3, <3>1
      <4> QED BY <4>1
    <3>2. CASE v \notin ReleaseAsked'
      <4>1. ReleaseAsked' = ReleaseAsked \ {v}
        BY <2>2, <2>3, <3>2
      <4> QED BY <4>1
    <3> QED BY <3>1, <3>2
  <2> QED BY <1>1, <2>1, <2>4, StutterLL, AskLL
<1> QED BY <1>5, <1>6

\* So is a quiet step.
LEMMA QuietLL ==
  ASSUME Shapes, NEW m \in Mutexes, NEW f, Quiet(m, f)
  PROVE  LL!Next \/ UNCHANGED LL!vars
<1>1. /\ Moves(m, f, lockDetail[m], claim[m]) /\ LateBy(m) /\ doc' = doc
      /\ f.call # "Unlock"
  BY NoWriteFacts DEF Quiet, FrameOK
<1> QED BY <1>1, LeaveLL

\* Unlock asks for the release of its lease.
LEMMA BeginUnlockLL ==
  ASSUME Shapes, NEW m \in Mutexes, BeginUnlock(m)
  PROVE  LL!Next
<1>1. PICK f : /\ Moves(m, f, lockDetail[m], FALSE) /\ late' = late /\ doc' = doc
               /\ f.call = "Unlock" /\ f.write.new = lockDetail[m]
               /\ frame[m].call = "none" /\ lockDetail[m].owner \in Owners
  BY BeginUnlockMoves
<1>2. \A n \in Mutexes : frame'[n] = IF n = m THEN f ELSE frame[n]
  BY <1>1 DEF Moves
<1>3. LeaseOf(doc', now') = LeaseOf(doc, now)
  BY <1>1 DEF Moves
<1>4. \A x : x \in ReleaseAsked' <=> (x \in ReleaseAsked \/ x = lockDetail[m].owner)
  BY <1>1, <1>2, AskedMember, AskedMemberNext
<1>5. ReleaseAsked' = ReleaseAsked \cup {lockDetail[m].owner}
  BY <1>4
<1> QED BY <1>1, <1>3, <1>5, AskLL

\* An executed write is a Grant of a free lease, the Release of a lease whose
\* owner asked for it, or no change at all.
LEMMA ApplyLL ==
  ASSUME IInv, NEW w, WriteOK(w, now), w.op # "none", w.new \in DocsInUse,
         doc' \in {doc, Apply(doc, w)}, now' = now,
         \/ ReleaseAsked' = ReleaseAsked
         \/ (w.op = "delete" /\ ReleaseAsked' = ReleaseAsked \ {w.new.owner}),
         w.op = "delete" => w.new.owner \in ReleaseAsked
  PROVE  LL!Next \/ UNCHANGED LL!vars
<1>1. /\ w.op \in {"insert", "update", "delete"} /\ w.new # NoDoc /\ w.new.owner \in Owners
      /\ w.old \in Nat /\ w.new.expires \in Nat /\ doc.expires \in Nat /\ now \in Nat
      /\ doc \in DocsInUse
  BY DEF WriteOK, WriteType, DocOK, Doc, IInv, Shapes, DocsInUse
<1>2. CASE LeaseOf(doc', now') = LeaseOf(doc, now)
  BY <1>1, <1>2, StutterLL, AskLL
<1>3. CASE w.op \in {"insert", "update"} /\ doc' = w.new /\ (doc = NoDoc \/ doc.expires = w.old)
           /\ (w.op = "insert" => doc = NoDoc)
  <2>1. LeaseOf(doc, now) = [value |-> NoOwner, ttl |-> 0]
    BY <1>1, <1>3, Constants DEF WriteOK, LeaseOf
  <2>2. ReleaseAsked' = ReleaseAsked
    BY <1>3
  <2>3. CASE w.new.expires - MaxSkew - now >= 0
    <3>. DEFINE left == w.new.expires - MaxSkew - now + 1
    <3>1. LeaseOf(doc', now') = [value |-> w.new.owner, ttl |-> left]
      BY <1>1, <1>3, <2>3 DEF LeaseOf
    <3>2. PICK d \in TTLs : w.new.expires <= now + MaxSkew + d
      BY <1>3 DEF WriteOK
    <3>3. left \in 1 .. d + 1
      BY <1>1, <2>3, <3>2, Constants
    <3>4. left \in UNION {1 .. t + 1 : t \in TTLs}
      BY <3>3
    <3>. HIDE DEF left
    <3> QED BY <1>1, <2>1, <2>2, <3>1, <3>4, GrantLL
  <2>4. CASE ~(w.new.expires - MaxSkew - now >= 0)
    BY <1>2, <1>3, <2>1, <2>4 DEF LeaseOf
  <2> QED BY <2>3, <2>4
<1>4. CASE w.op = "delete" /\ doc' = NoDoc /\ doc # NoDoc /\ doc.expires = w.old
  <2>1. doc = w.new
    BY <1>1, <1>4 DEF IInv, ExpiryIdentifies, WriteOK
  <2>2. LeaseOf(doc', now') = [value |-> NoOwner, ttl |-> 0]
    BY <1>4 DEF LeaseOf
  <2>3. CASE doc.expires - MaxSkew - now >= 0
    <3>1. LeaseOf(doc, now).value = w.new.owner
      BY <1>4, <2>1, <2>3 DEF LeaseOf
    <3> QED BY <1>1, <1>4, <2>2, <3>1, ReleaseLL
  <2>4. CASE ~(doc.expires - MaxSkew - now >= 0)
    BY <1>2, <2>2, <2>4 DEF LeaseOf
  <2> QED BY <2>3, <2>4
<1> QED BY <1>1, <1>2, <1>3, <1>4, ApplyResult

\* The write of a running method.
LEMMA ExecWriteLL ==
  ASSUME IInv, NEW m \in Mutexes, ExecWrite(m)
  PROVE  LL!Next \/ UNCHANGED LL!vars
<1>. DEFINE w == frame[m].write
            f == [frame[m] EXCEPT !.reply = IF doc' = doc THEN "no" ELSE "ok"]
<1>1. /\ Moves(m, f, lockDetail[m], claim[m]) /\ late' = late
      /\ doc' = Apply(doc, w) /\ w.op # "none" /\ WriteOK(w, now) /\ w.new \in DocsInUse
      /\ f.call = frame[m].call /\ f.write = w
  BY ExecWriteMoves DEF IInv
<1>. HIDE DEF f
<1>2. \A n \in Mutexes : frame'[n].call = frame[n].call /\ frame'[n].write = frame[n].write
  BY <1>1 DEF Moves
<1>3. \A x : x \in ReleaseAsked' <=> x \in ReleaseAsked
  BY <1>1, <1>2, AskedMember, AskedMemberNext
<1>4. ReleaseAsked' = ReleaseAsked /\ now' = now
  BY <1>1, <1>3 DEF Moves
<1>5. w.op = "delete" => w.new.owner \in ReleaseAsked
  BY DeletesOwn, AskedMember DEF IInv
<1>. HIDE DEF w
<1> QED BY <1>1, <1>4, <1>5, ApplyLL

\* A write executed late.
LEMMA LateWriteLL ==
  ASSUME IInv, NEW w \in late, LateWrite(w)
  PROVE  LL!Next \/ UNCHANGED LL!vars
<1>1. /\ late' = late \ {w} /\ doc' \in {doc, Apply(doc, w)} /\ now' = now /\ frame' = frame
      /\ WriteOK(w, now) /\ w.op # "none" /\ w.new \in DocsInUse
  BY DEF LateWrite, IInv, Shapes, DocsInUse
<1>2. \A x : (x \in ReleaseAsked' => x \in ReleaseAsked)
             /\ (x \in ReleaseAsked /\ ~(w.op = "delete" /\ x = w.new.owner)
                   => x \in ReleaseAsked')
  BY <1>1, AskedMember, AskedMemberNext
<1>3. w.op = "delete" => w.new.owner \in ReleaseAsked
  BY AskedMember
<1>4. \/ ReleaseAsked' = ReleaseAsked
      \/ (w.op = "delete" /\ ReleaseAsked' = ReleaseAsked \ {w.new.owner})
  <2>1. CASE w.op # "delete" \/ w.new.owner \in ReleaseAsked'
    <3>1. ReleaseAsked' = ReleaseAsked
      BY <1>2, <2>1
    <3> QED BY <3>1
  <2>2. CASE w.op = "delete" /\ w.new.owner \notin ReleaseAsked'
    <3>1. ReleaseAsked' = ReleaseAsked \ {w.new.owner}
      BY <1>2, <2>2
    <3> QED BY <2>2, <3>1
  <2> QED BY <2>1, <2>2
<1> QED BY <1>1, <1>3, <1>4, ApplyLL

\* The TTL index removes a lease that is over: a stutter.
LEMMA TTLMonitorLL ==
  ASSUME Shapes, TTLMonitor
  PROVE  UNCHANGED LL!vars
<1>1. doc # NoDoc /\ doc.expires + Grace < now /\ doc' = NoDoc /\ now' = now /\ late' = late
      /\ frame' = frame
  BY DEF TTLMonitor
<1>2. ReleaseAsked' = ReleaseAsked
  BY <1>1 DEF ReleaseAsked
<1>3. doc.expires \in Nat /\ now \in Nat
  BY DEF Shapes, DocOK, Doc
<1>4. LeaseOf(doc', now') = LeaseOf(doc, now)
  BY <1>1, <1>3, Constants DEF LeaseOf
<1> QED BY <1>2, <1>4, StutterLL

\* Time is the passing of the lease.
LEMMA TickLL ==
  ASSUME Shapes, Tick
  PROVE  LL!Next \/ UNCHANGED LL!vars
<1>. DEFINE left == doc.expires - MaxSkew - now
<1>1. doc' = doc /\ now' = now + 1 /\ late' = late /\ frame' = frame
  BY DEF Tick
<1>2. ReleaseAsked' = ReleaseAsked
  BY <1>1 DEF ReleaseAsked
<1>3. doc.expires \in Nat /\ now \in Nat /\ left \in Int
      /\ doc'.expires - MaxSkew - now' = left - 1
  BY <1>1, Constants DEF Shapes, DocOK, Doc
<1>4. CASE doc = NoDoc \/ ~(left >= 0)
  <2>1. LeaseOf(doc', now') = LeaseOf(doc, now)
    BY <1>1, <1>3, <1>4 DEF LeaseOf
  <2> QED BY <1>2, <2>1, StutterLL
<1>5. CASE doc # NoDoc /\ left >= 0
  <2>1. LeaseOf(doc, now) = [value |-> doc.owner, ttl |-> left + 1]
    BY <1>5 DEF LeaseOf
  <2>2. LeaseOf(doc', now') = IF left + 1 > 1 THEN [value |-> doc.owner, ttl |-> left + 1 - 1]
                              ELSE [value |-> NoOwner, ttl |-> 0]
    BY <1>1, <1>3, <1>5 DEF LeaseOf
  <2>3. LL!Pass
    BY <1>1, <1>2, <1>3, <1>5, <2>1, <2>2 DEF LL!Pass, LL!Free, LeaseOf, TimeLeft
  <2> QED BY <2>3 DEF LL!Next
<1> QED BY <1>4, <1>5

\* Every step is a step of the abstract lock or a stutter.
LEMMA NextLL ==
  ASSUME IInv, [Next]_vars
  PROVE  LL!Next \/ UNCHANGED LL!vars
<1>0. Shapes
  BY DEF IInv
<1>1. CASE UNCHANGED vars
  BY <1>1, StutterLL DEF vars, ReleaseAsked
<1>2. ASSUME NEW m \in Mutexes, \E f : Quiet(m, f) PROVE LL!Next \/ UNCHANGED LL!vars
  BY <1>0, <1>2, QuietLL
<1>3. ASSUME NEW m \in Mutexes, NEW l, NEW c, Moves(m, Idle, l, c), LateBy(m), doc' = doc
      PROVE  LL!Next \/ UNCHANGED LL!vars
  BY <1>0, <1>3, LeaveLL, IdleFacts
<1>4. ASSUME NEW m \in Mutexes,
             FoundLive(m) \/ LockReply(m) \/ UnlockReply(m) \/ Restart(m)
      PROVE  LL!Next \/ UNCHANGED LL!vars
  BY <1>0, <1>2, <1>3, <1>4, LateSame, FoundLiveCases, LockReplyCases, UnlockReplyCases,
     RestartMoves
<1>5. ASSUME NEW m \in Mutexes, SendWrite(m) PROVE LL!Next \/ UNCHANGED LL!vars
  BY <1>0, <1>5, SendWriteMoves, LateSame, LeaveLL
<1>6. ASSUME NEW m \in Mutexes,
             SpinTick(m) \/ GiveUp(m) \/ ExecFind(m) \/ Fail(m)
      PROVE  LL!Next \/ UNCHANGED LL!vars
  BY <1>0, <1>2, <1>6, SpinTickQuiet, GiveUpQuiet, ExecFindQuiet, FailQuiet
<1>7. ASSUME NEW m \in Mutexes, BeginUnlock(m) \/ ExecWrite(m)
      PROVE  LL!Next \/ UNCHANGED LL!vars
  BY <1>0, <1>7, BeginUnlockLL, ExecWriteLL
<1>8. ASSUME NEW m \in Mutexes, NEW call \in {"TryLock", "Lock"}, NEW o \in Options,
             BeginLock(m, call, o)
      PROVE  LL!Next \/ UNCHANGED LL!vars
  BY <1>0, <1>2, <1>8, BeginLockQuiet
<1>9. CASE (\E w \in late : LateWrite(w)) \/ TTLMonitor \/ Tick
  BY <1>0, <1>9, LateWriteLL, TTLMonitorLL, TickLL
<1> QED BY <1>1, <1>4, <1>5, <1>6, <1>7, <1>8, <1>9 DEF Next

\* The MongoDB mutex implements the abstract lease lock, as the Redis mutex
\* does: the lease is granted only when free and ends by time or by a release
\* that its own owner asked for (mutex.go:113, 171).
THEOREM Refinement == Spec /\ Distinct => ImplementsLeaseLock
<1>1. IInv /\ [Next]_vars => [LL!Next]_(LL!vars)
  BY NextLL
<1> QED BY <1>1, InitLL, Invariance, PTL DEF Spec, ImplementsLeaseLock, LL!Spec
=============================================================================
