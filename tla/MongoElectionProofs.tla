------------------------- MODULE MongoElectionProofs -------------------------
(***************************************************************************)
(* Proofs about MongoElection, for every set of nodes, keys and domains,   *)
(* every lease, and every bound on rounds, clock skew and late writes      *)
(* that the assumptions allow.                                             *)
(*                                                                         *)
(* The argument is that of RedisElectionProofs, with the lease a leader    *)
(* has left kept above the clock skew as well: a takeover names a record   *)
(* that had expired for the clock of its node, so it finds another record  *)
(* if the leader has renewed, and a renewal that is executed late still    *)
(* leaves UnhealthyTime - LateTime.  That is enough if the times are       *)
(* Timely, and what is said of leases and heartbeats is said for such      *)
(* times.  Heartbeats are by node key alone, so what is said of them needs *)
(* keys that no two members share (KeysApart).                             *)
(***************************************************************************)
EXTENDS MongoElection, FiniteSetTheorems, TLAPS

-----------------------------------------------------------------------------
(* Facts about the workers of an election, for every lease and every bound *)
(* on a round: what the operators of ElectionWorkers do to each field, and *)
(* that one unit of time keeps a worker well formed.                       *)

\* Half of a lease of at least two units is a period of at least one.
LEMMA WorkerTimes ==
  /\ Period \in Nat /\ RoundTime \in Nat /\ 1 <= Period
  /\ 0 \in 0 .. RoundTime
  BY TimeAssumption DEF Period

\* A worker as EnableElection starts it, and one that is not running, have
\* their types.
LEMMA NewWorkers ==
  /\ NewTicker \in Ticker
  /\ NoElect \in ElectType /\ [NoElect EXCEPT !.pc = "wait"] \in ElectType
  /\ NoBeat \in BeatType /\ [NoBeat EXCEPT !.pc = "wait"] \in BeatType
<1>. USE WorkerTimes
<1>. HIDE DEF Period
<1>1. NewTicker \in Ticker
  BY DEF NewTicker, Ticker
<1>2. NoElect \in ElectType /\ NoBeat \in BeatType
  BY <1>1 DEF NoElect, ElectType, NoBeat, BeatType
<1>3. \A w \in ElectType : [w EXCEPT !.pc = "wait"] \in ElectType
  BY DEF ElectType
<1>4. \A w \in BeatType : [w EXCEPT !.pc = "wait"] \in BeatType
  BY DEF BeatType
<1> QED BY <1>1, <1>2, <1>3, <1>4

\* Reading the tick starts a round of goElect and leaves the flag, the reply
\* and the time of the next tick alone.
LEMMA TakeTickElect ==
  ASSUME NEW w \in ElectType, NEW pc \in {"wait", "campaign", "renew", "write"}
  PROVE  LET v == TakeTick(w, pc) IN
         /\ v \in ElectType /\ v.timer.due = FALSE /\ v.timer.next = w.timer.next
         /\ v.pc = pc /\ v.reply = w.reply /\ v.spent = w.spent
         /\ v.leaderFlag = w.leaderFlag /\ v.adopted = w.adopted
  BY DEF TakeTick, ElectType, Ticker

\* Reading the tick starts a round of goHeartBeat.
LEMMA TakeTickBeat ==
  ASSUME NEW w \in BeatType
  PROVE  LET v == TakeTick(w, "set") IN
         /\ v \in BeatType /\ v.timer.due = FALSE /\ v.timer.next = w.timer.next
         /\ v.pc = "set" /\ v.spent = w.spent /\ v.ok = w.ok
  BY DEF TakeTick, BeatType, Ticker

\* setLeaderFlag ends a round: the worker waits, with nothing asked and
\* nothing spent, and its ticker has run on.
LEMMA EndRoundFields ==
  ASSUME NEW w \in ElectType, NEW flag \in BOOLEAN, NEW byAdoption \in BOOLEAN
  PROVE  LET v == EndRound(w, flag, byAdoption) IN
         /\ v \in ElectType /\ v.leaderFlag = flag /\ v.adopted = byAdoption
         /\ v.pc = "wait" /\ v.reply = "wait" /\ v.spent = 0 /\ v.timer = w.timer
<1>. DEFINE v == EndRound(w, flag, byAdoption)
<1>1. 0 \in 0 .. RoundTime
  BY WorkerTimes
<1>2. v \in ElectType
  BY <1>1 DEF EndRound, ElectType
<1>3. /\ v.leaderFlag = flag /\ v.adopted = byAdoption
      /\ v.pc = "wait" /\ v.reply = "wait" /\ v.spent = 0 /\ v.timer = w.timer
  BY DEF EndRound, ElectType
<1> QED BY <1>2, <1>3

\* A heartbeat, confirmed or not, ends with the worker waiting.
LEMMA EndBeatFields ==
  ASSUME NEW w \in BeatType, NEW ok \in BOOLEAN
  PROVE  LET v == EndBeat(w, ok) IN
         v \in BeatType /\ v.ok = ok /\ v.pc = "wait" /\ v.spent = 0 /\ v.timer = w.timer
<1>. DEFINE v == EndBeat(w, ok)
<1>1. 0 \in 0 .. RoundTime
  BY WorkerTimes
<1>2. v \in BeatType
  BY <1>1 DEF EndBeat, BeatType
<1>3. v.ok = ok /\ v.pc = "wait" /\ v.spent = 0 /\ v.timer = w.timer
  BY DEF EndBeat, BeatType
<1> QED BY <1>2, <1>3

\* A tick comes exactly when the time to the next one is used up, and one that
\* nobody has read is kept.
LEMMA AgedTicker ==
  ASSUME NEW t \in Ticker
  PROVE  /\ Advance(t) \in Ticker
         /\ t.due => Advance(t).due
         /\ ~Advance(t).due => Advance(t).next = t.next - 1 /\ ~t.due
         /\ Advance(t).due /\ ~t.due => t.next = 1
<1>. USE WorkerTimes
<1>. HIDE DEF Period
<1> QED BY DEF Advance, Ticker

\* Time moves the ticker of a running election worker, and its round if it is
\* in one.
LEMMA AgedElect ==
  ASSUME NEW w \in ElectType, NEW l, MayAge(w, l)
  PROVE  LET v == Age(w) IN
         /\ v \in ElectType /\ v.leaderFlag = w.leaderFlag /\ v.adopted = w.adopted
         /\ v.pc = w.pc /\ v.reply = w.reply
         /\ w.pc = "exited" => v = w
         /\ w.pc # "exited" => v.timer = Advance(w.timer)
         /\ w.pc \notin {"exited", "wait"} => w.spent < RoundTime /\ v.spent = w.spent + 1
         /\ w.pc = "wait" => v.spent = w.spent
<1>. USE WorkerTimes
<1>. HIDE DEF Period
<1>1. w.timer \in Ticker
  BY DEF ElectType
<1>2. Advance(w.timer) \in Ticker
  BY <1>1, AgedTicker
<1>3. CASE w.pc = "exited"
  BY <1>3 DEF Age
<1>4. CASE w.pc = "wait"
  BY <1>2, <1>4 DEF Age, ElectType
<1>5. CASE w.pc \notin {"exited", "wait"}
  <2>1. Age(w) = [w EXCEPT !.timer = Advance(@), !.spent = @ + 1]
    BY <1>5 DEF Age
  <2>2. w.spent \in 0 .. RoundTime /\ w.spent < RoundTime
    BY <1>5 DEF MayAge, ElectType
  <2>3. w.spent + 1 \in 0 .. RoundTime
    BY <2>2
  <2>4. Age(w) \in ElectType
    BY <1>2, <2>1, <2>3 DEF ElectType
  <2> QED BY <1>5, <2>1, <2>2, <2>4 DEF ElectType
<1> QED BY <1>3, <1>4, <1>5

\* The same for the heartbeat worker.
LEMMA AgedBeat ==
  ASSUME NEW w \in BeatType, NEW l, MayAge(w, l)
  PROVE  LET v == Age(w) IN
         /\ v \in BeatType /\ v.ok = w.ok /\ v.pc = w.pc
         /\ w.pc = "exited" => v = w
         /\ w.pc # "exited" => v.timer = Advance(w.timer)
         /\ w.pc \notin {"exited", "wait"} => w.spent < RoundTime /\ v.spent = w.spent + 1
         /\ w.pc = "wait" => v.spent = w.spent
<1>. USE WorkerTimes
<1>. HIDE DEF Period
<1>1. w.timer \in Ticker
  BY DEF BeatType
<1>2. Advance(w.timer) \in Ticker
  BY <1>1, AgedTicker
<1>3. CASE w.pc = "exited"
  BY <1>3 DEF Age
<1>4. CASE w.pc = "wait"
  BY <1>2, <1>4 DEF Age, BeatType
<1>5. CASE w.pc \notin {"exited", "wait"}
  <2>1. Age(w) = [w EXCEPT !.timer = Advance(@), !.spent = @ + 1]
    BY <1>5 DEF Age
  <2>2. w.spent \in 0 .. RoundTime /\ w.spent < RoundTime
    BY <1>5 DEF MayAge, BeatType
  <2>3. w.spent + 1 \in 0 .. RoundTime
    BY <2>2
  <2>4. Age(w) \in BeatType
    BY <1>2, <2>1, <2>3 DEF BeatType
  <2> QED BY <1>5, <2>1, <2>2, <2>4 DEF BeatType
<1> QED BY <1>3, <1>4, <1>5

-----------------------------------------------------------------------------

\* The lives in which the workers of a node run and it may report to be
\* leader.
Up == {"starting", "running"}
\* The lives of an ElectionImpl.
Lives == {"new", "starting", "running", "closing", "deregistering", "closed", "crashed"}

\* What a lease must have left when the next round starts.
Reserve == RoundTime + MaxSkew

\* The election worker is in one of its places, has asked nothing between
\* rounds, and its ticker does not leave it more than a period between the
\* starts of two rounds.
WorkerOK(w) ==
  /\ w.pc \in {"wait", "campaign", "check", "write", "exited"}
  /\ w.pc \in {"wait", "campaign", "check"} => w.reply = "wait"
  /\ w.pc = "wait" => w.spent = 0
  /\ w.pc \in {"campaign", "check"} => ~w.leaderFlag
  /\ w.pc \notin {"wait", "exited"} /\ ~w.timer.due => w.timer.next + w.spent <= Period

\* A write that waits to be executed names its node and carries a lease that is
\* as old as its round at most; a takeover names a record that has expired for
\* the clock of its node.
IOOK(n, w, i) ==
  /\ i.node = n
  /\ w.pc = "write" => /\ i.op \in {"insert", "take", "renew"}
                       /\ i.left + w.spent >= UnhealthyTime
                       /\ i.op = "take" => i.old.left < MaxSkew
                       /\ w.leaderFlag => i.op = "renew"

\* The lease of node key k, with election worker w and leader record r: a
\* reply that confirms the record came after it was written, and a leader that
\* is not one by adoption holds the record, and no clock sees it expired, past
\* the end of its next round.
LeaseOK(k, w, r) ==
  /\ w.pc # "exited"
  /\ Timely /\ w.pc = "write" /\ w.reply = "ok" =>
       r.holder = k /\ r.left + w.spent >= UnhealthyTime - Drift
  /\ Timely /\ w.leaderFlag /\ ~w.adopted =>
       /\ r.holder = k
       /\ w.pc = "wait" => r.left >= Reserve + (IF w.timer.due THEN 0 ELSE w.timer.next)
       /\ w.pc = "write" => r.left + w.spent >= Reserve

\* The same for the heartbeat worker w of a node of domain d and its heartbeat
\* document a.
HeartOK(d, w, a) ==
  /\ w.pc \in {"wait", "set", "exited"}
  /\ w.pc = "wait" => w.spent = 0
  /\ w.pc = "set" /\ ~w.timer.due => w.timer.next + w.spent <= Period
  /\ Timely /\ w.ok =>
       /\ w.pc # "exited"
       /\ a.domain = d
       /\ w.pc = "wait" => a.left >= Reserve + (IF w.timer.due THEN 0 ELSE w.timer.next)
       /\ w.pc = "set" => a.left + w.spent >= Reserve

\* A write that may be executed late is one of a member, is not older than
\* LateTime, and takes over expired records only.
GoodWrite(x) ==
  /\ x.node \in setting.members
  /\ x.op \in {"insert", "take", "renew", "beat"} => x.left >= UnhealthyTime - LateTime
  /\ x.op = "take" => x.old.left < MaxSkew

\* The worker knows, or is about to learn, that its node holds the record.
Owns(w) == /\ w.leaderFlag \/ (w.pc = "write" /\ w.reply = "ok")
           /\ ~(w.pc = "write" /\ w.reply = "no")

\* No two members share a node key, in different domains either.
KeysApart == \A m, n \in setting.members : Key(m) = Key(n) => m = n

\* Only members are ever started.
Members == \A n \in Nodes : life[n] # "new" => n \in setting.members
\* Every election worker and its pending write are well formed.
Workers == \A n \in Nodes : WorkerOK(elect[n]) /\ IOOK(n, elect[n], io[n])
\* Every node that is up, and was not started under a late deregistration of
\* its own, has the lease its flag and its replies claim.
Leases == \A n \in Nodes : life[n] \in Up /\ ~haunted[n] =>
            LeaseOK(Key(n), elect[n], record[Domain(n)])
\* Every such node has the heartbeat its last confirmation claims, if keys are
\* apart.
Hearts == KeysApart => \A n \in Nodes : life[n] \in Up /\ ~haunted[n] =>
            HeartOK(Domain(n), beat[n], alive[Key(n)])
\* Writes are late only where maxLate lets them, so that Drift reckons with
\* them.
LateOK(lt) == IsFiniteSet(lt) /\ (lt # {} => Drift = LateTime)
\* Every late write is as GoodWrite says.
Writes == LateOK(late) /\ \A x \in late : GoodWrite(x)
\* No abandoned deregistration is under way for such a node: only Close sends
\* them.
Unhaunted == \A n \in Nodes : life[n] \in Up /\ ~haunted[n] =>
    \A x \in late : x.node = n => x.op \notin {"delete", "quiet"}
\* The workers of a node that is not up, and not on its way out, have
\* returned.
Gone == \A n \in Nodes : life[n] \notin Up \cup {"closing"} =>
          elect[n].pc = "exited" /\ beat[n].pc = "exited"
\* Without failures and overlapping lives nothing is late, a record belongs to
\* a worker that knows of it unless CanElect made it step down, and without
\* KeepHeartbeat there are no heartbeats.
Clean ==
  ~(setting.faults \/ setting.overlap) =>
    /\ late = {}
    /\ ~setting.veto => \A n \in setting.members : record[Domain(n)].holder = Key(n) =>
                          life[n] \in Up \cup {"closing"} /\ Owns(elect[n])
    /\ ~setting.keepHeartbeat => \A k \in Keys : alive[k] = NoAlive
\* Without KeepHeartbeat goHeartBeat is never started.
Beats == ~setting.keepHeartbeat => \A n \in Nodes : beat[n].pc = "exited"

\* The inductive invariant.
IInv == /\ TypeOK /\ Members /\ Workers /\ Leases /\ Hearts /\ Writes /\ Unhaunted /\ Gone
        /\ Clean /\ Beats

\* The assumptions on the times, in the form the proofs use.
LEMMA Times ==
  /\ Period \in Nat /\ UnhealthyTime \in Nat /\ RoundTime \in Nat /\ MaxSkew \in Nat
  /\ LateTime \in Nat /\ Reserve \in Nat /\ Drift \in Nat
  /\ 1 <= Period /\ RoundTime <= Period /\ RoundTime <= LateTime /\ RoundTime <= UnhealthyTime
  /\ Reserve = RoundTime + MaxSkew
  /\ Timely => Period + Reserve <= UnhealthyTime - Drift
  /\ 0 \in 0 .. RoundTime
<1>1. Drift \in Nat
  BY SkewAssumption DEF Drift
<1>. HIDE DEF Drift
<1> QED BY <1>1, TimeAssumption, SkewAssumption DEF Period, Reserve, Timely

-----------------------------------------------------------------------------
\* A heartbeat document.
AliveType == [domain : Domains \cup {NoDomain}, left : Lefts]

\* The step does no harm to the record of a member other than n: a record no
\* clock sees expired stays as it is, and no record is given to another
\* member.
RecFrame(n) ==
  /\ record' \in [Domains -> RecordType]
  /\ \A m \in setting.members \ {n} :
       LET r == record[Domain(m)]
           s == record'[Domain(m)]
       IN  /\ r.holder = Key(m) /\ r.left >= MaxSkew => s = r
           /\ s.holder = Key(m) => r.holder = Key(m)
\* The step leaves the heartbeats of other members alone, if keys are apart.
AliveFrame(n) ==
  /\ alive' \in [Keys -> AliveType]
  /\ KeysApart => \A m \in setting.members \ {n} : alive'[Key(m)] = alive[Key(m)]
  /\ ~(setting.faults \/ setting.overlap) /\ ~setting.keepHeartbeat => alive' = alive
\* The step gives up nothing but good writes of n.
LateFrame(n) ==
  /\ late' \subseteq WriteType /\ LateOK(late')
  /\ \A x \in late' : GoodWrite(x)
  /\ \A x \in late' \ late : x.node = n
  /\ ~(setting.faults \/ setting.overlap) => late' = {}
\* No deregistration is given up.
LateKeeps(n) == LateFrame(n) /\ \A x \in late' \ late : x.op \notin {"delete", "quiet"}

\* IInv as it speaks of node n: of its life l, election worker w, pending
\* write i, heartbeat worker b and mark h, the record r of its domain, the
\* heartbeat a of its key, and the late writes lt.
Local(n, l, w, i, b, h, r, a, lt) ==
  /\ l # "new" => n \in setting.members
  /\ WorkerOK(w) /\ IOOK(n, w, i)
  /\ l \in Up /\ ~h => LeaseOK(Key(n), w, r)
  /\ KeysApart /\ l \in Up /\ ~h => HeartOK(Domain(n), b, a)
  /\ l \in Up /\ ~h => \A x \in lt : x.node = n => x.op \notin {"delete", "quiet"}
  /\ l \notin Up \cup {"closing"} => w.pc = "exited" /\ b.pc = "exited"
  /\ ~(setting.faults \/ setting.overlap) /\ ~setting.veto /\ n \in setting.members /\ r.holder = Key(n) =>
       l \in Up \cup {"closing"} /\ Owns(w)
  /\ ~setting.keepHeartbeat => b.pc = "exited"

\* The setting as SettingAssumption describes it.
LEMMA SettingFacts ==
  ASSUME IInv
  PROVE  /\ setting \in Settings /\ setting.members \subseteq Nodes
         /\ setting.faults \in BOOLEAN /\ setting.veto \in BOOLEAN /\ setting.keepHeartbeat \in BOOLEAN
         /\ setting.maxLate \in Nat
         /\ \A n \in Nodes : Key(n) \in Keys /\ Domain(n) \in Domains
         /\ \A m, n \in setting.members : Key(m) = Key(n) /\ Domain(m) = Domain(n) => m = n
<1>1. setting \in Settings
  BY DEF IInv, TypeOK
<1>2. setting \in [members : SUBSET Nodes, key : [Nodes -> Keys],
                   domain : [Nodes -> Domains], keepHeartbeat : BOOLEAN,
                   veto : BOOLEAN, faults : BOOLEAN, overlap : BOOLEAN, maxLate : Nat]
  BY <1>1, SettingAssumption
<1>3. \A m, n \in setting.members : Key(m) = Key(n) /\ Domain(m) = Domain(n) => m = n
  BY <1>1, SettingAssumption DEF Key, Domain
<1> QED BY <1>1, <1>2, <1>3 DEF Key, Domain

\* The types of what belongs to one node.
LEMMA NodeFacts ==
  ASSUME IInv, NEW n \in Nodes
  PROVE  /\ record \in [Domains -> RecordType] /\ alive \in [Keys -> AliveType]
         /\ late \subseteq WriteType
         /\ record[Domain(n)] \in RecordType /\ alive[Key(n)] \in AliveType
         /\ life[n] \in Lives /\ elect[n] \in ElectType /\ beat[n] \in BeatType
         /\ io[n] \in WriteType /\ haunted[n] \in BOOLEAN
         /\ life = [life EXCEPT ![n] = life[n]] /\ elect = [elect EXCEPT ![n] = elect[n]]
         /\ beat = [beat EXCEPT ![n] = beat[n]] /\ haunted = [haunted EXCEPT ![n] = haunted[n]]
         /\ io = [io EXCEPT ![n] = io[n]]
<1>1. Key(n) \in Keys /\ Domain(n) \in Domains
  BY SettingFacts
<1> QED BY <1>1 DEF IInv, TypeOK, Lives, AliveType

\* IInv says Local of every node.
LEMMA NodeInvs ==
  ASSUME IInv, NEW n \in Nodes
  PROVE  Local(n, life[n], elect[n], io[n], beat[n], haunted[n], record[Domain(n)], alive[Key(n)], late)
  BY DEF IInv, Members, Workers, Leases, Hearts, Unhaunted, Gone, Clean, Beats, Local

\* A lease that is claimed has not expired for any clock.
LEMMA LeaseLasts ==
  ASSUME NEW k, NEW w \in ElectType, NEW r \in RecordType, WorkerOK(w), LeaseOK(k, w, r),
         Timely, (w.pc = "write" /\ w.reply = "ok") \/ (w.leaderFlag /\ ~w.adopted)
  PROVE  r.holder = k /\ r.left >= MaxSkew
<1>1. w.timer.next \in Nat /\ w.spent \in 0 .. RoundTime /\ r.left \in Int
  BY Times DEF ElectType, Ticker, RecordType, Lefts, Over
<1>2. w.pc = "write" \/ w.pc = "wait" \/ ~w.leaderFlag
  BY DEF WorkerOK, LeaseOK
<1>3. CASE w.pc = "write" /\ w.reply = "ok"
  BY <1>1, <1>3, Times DEF LeaseOK
<1>4. CASE w.leaderFlag /\ ~w.adopted
  BY <1>1, <1>2, <1>4, Times DEF LeaseOK
<1> QED BY <1>3, <1>4

\* A lease survives every change that leaves an unexpired record of its node
\* alone.
LEMMA LeaseFrame ==
  ASSUME NEW k, NEW w \in ElectType, NEW r \in RecordType, NEW s, WorkerOK(w), LeaseOK(k, w, r),
         r.holder = k /\ r.left >= MaxSkew => s = r
  PROVE  LeaseOK(k, w, s)
<1>1. CASE Timely /\ ((w.pc = "write" /\ w.reply = "ok") \/ (w.leaderFlag /\ ~w.adopted))
  BY <1>1, LeaseLasts
<1>2. CASE ~(Timely /\ ((w.pc = "write" /\ w.reply = "ok") \/ (w.leaderFlag /\ ~w.adopted)))
  BY <1>2 DEF LeaseOK
<1> QED BY <1>1, <1>2

\* Local of every node, and what is said of the late writes and of heartbeats,
\* make up IInv.
LEMMA Assemble ==
  ASSUME IInv, TypeOK', setting' = setting,
         \A m \in Nodes : Local(m, life'[m], elect'[m], io'[m], beat'[m], haunted'[m],
                                record'[Domain(m)], alive'[Key(m)], late'),
         LateOK(late'), \A x \in late' : GoodWrite(x),
         ~(setting.faults \/ setting.overlap) => late' = {} /\ (~setting.keepHeartbeat => \A k \in Keys : alive'[k] = NoAlive)
  PROVE  IInv'
<1>1. /\ \A m : Key(m)' = Key(m) /\ Domain(m)' = Domain(m)
      /\ KeysApart' = KeysApart /\ \A x : GoodWrite(x)' = GoodWrite(x)
  BY DEF Key, Domain, KeysApart, GoodWrite
<1>2. Members' /\ Workers' /\ Gone' /\ Beats'
  BY DEF Local, Members, Workers, Gone, Beats
<1>3. Leases' /\ Hearts' /\ Unhaunted'
  BY <1>1 DEF Local, Leases, Hearts, Unhaunted
<1>4. Writes'
  BY <1>1 DEF Writes
<1>5. Clean'
  <2>1. setting.members \subseteq Nodes
    BY SettingFacts
  <2> QED BY <1>1, <2>1 DEF Local, Clean
<1> QED BY <1>2, <1>3, <1>4, <1>5 DEF IInv

\* A step that changes the state of one node n, and the store in a way that
\* does no harm to the others, keeps IInv if Local holds of the new state of
\* n.
LEMMA NodeStep ==
  ASSUME IInv, NEW n \in Nodes,
         NEW l \in Lives, NEW w \in ElectType, NEW i \in WriteType, NEW b \in BeatType,
         NEW h \in BOOLEAN,
         setting' = setting,
         life' = [life EXCEPT ![n] = l],
         elect' = [elect EXCEPT ![n] = w],
         io' = [io EXCEPT ![n] = i],
         beat' = [beat EXCEPT ![n] = b],
         haunted' = [haunted EXCEPT ![n] = h],
         RecFrame(n), AliveFrame(n), LateFrame(n),
         Local(n, l, w, i, b, h, record'[Domain(n)], alive'[Key(n)], late')
  PROVE  IInv'
<1>1. TypeOK'
  BY DEF IInv, TypeOK, Lives, RecFrame, AliveFrame, LateFrame, AliveType
<1>3. \A m \in Nodes \ {n} : /\ life'[m] = life[m] /\ elect'[m] = elect[m] /\ io'[m] = io[m]
                             /\ beat'[m] = beat[m] /\ haunted'[m] = haunted[m]
  BY DEF IInv, TypeOK
<1>4. /\ life'[n] = l /\ elect'[n] = w /\ io'[n] = i /\ beat'[n] = b /\ haunted'[n] = h
  BY DEF IInv, TypeOK
<1>5. \A m \in Nodes \ {n} :
        Local(m, life[m], elect[m], io[m], beat[m], haunted[m], record'[Domain(m)], alive'[Key(m)], late')
  <2> SUFFICES ASSUME NEW m \in Nodes \ {n}
               PROVE  Local(m, life[m], elect[m], io[m], beat[m], haunted[m], record'[Domain(m)], alive'[Key(m)], late')
    OBVIOUS
  <2>1. Local(m, life[m], elect[m], io[m], beat[m], haunted[m], record[Domain(m)], alive[Key(m)], late)
    BY NodeInvs
  <2>2. life[m] \in Up => m \in setting.members
    BY <2>1 DEF Local, Up
  <2>3. life[m] \in Up /\ ~haunted[m] => LeaseOK(Key(m), elect[m], record'[Domain(m)])
    <3>1. elect[m] \in ElectType /\ record[Domain(m)] \in RecordType
      BY NodeFacts
    <3> QED BY <2>1, <2>2, <3>1, LeaseFrame DEF Local, RecFrame
  <2>4. KeysApart /\ life[m] \in Up => alive'[Key(m)] = alive[Key(m)]
    BY <2>2 DEF AliveFrame
  <2>5. \A x \in late' : x.node = m => x \in late
    BY DEF LateFrame
  <2>6. m \in setting.members /\ record'[Domain(m)].holder = Key(m) => record[Domain(m)].holder = Key(m)
    BY DEF RecFrame
  <2> QED BY <2>1, <2>3, <2>4, <2>5, <2>6 DEF Local
<1>6. \A m \in Nodes :
        Local(m, life'[m], elect'[m], io'[m], beat'[m], haunted'[m], record'[Domain(m)], alive'[Key(m)], late')
  BY <1>3, <1>4, <1>5
<1>7. ~(setting.faults \/ setting.overlap) => late' = {} /\ (~setting.keepHeartbeat => \A k \in Keys : alive'[k] = NoAlive)
  BY DEF IInv, Clean, AliveFrame, LateFrame
<1> QED BY <1>1, <1>6, <1>7, Assemble DEF LateFrame

\* What does not change does no harm.
LEMMA StillFrame ==
  ASSUME IInv, NEW n \in Nodes
  PROVE  /\ record' = record => RecFrame(n)
         /\ alive' = alive => AliveFrame(n)
         /\ late' = late => LateFrame(n) /\ LateKeeps(n)
<1>1. record' = record => RecFrame(n)
  BY NodeFacts DEF RecFrame
<1>2. alive' = alive => AliveFrame(n)
  BY NodeFacts DEF AliveFrame
<1>3. late' = late => LateFrame(n) /\ LateKeeps(n)
  BY NodeFacts DEF LateFrame, LateKeeps, IInv, Writes, Clean
<1> QED BY <1>1, <1>2, <1>3

\* NodeStep, for the steps of the election worker that leave the store alone.
LEMMA ElectStep ==
  ASSUME IInv, NEW n \in Nodes, NEW l \in {life[n], Ready(life[n])}, NEW w \in ElectType,
         NEW i \in WriteType,
         UNCHANGED <<setting, record, alive, beat, haunted>>, LateKeeps(n),
         life' = [life EXCEPT ![n] = l],
         elect' = [elect EXCEPT ![n] = w],
         io' = [io EXCEPT ![n] = i],
         WorkerOK(w), IOOK(n, w, i),
         life[n] \in Up /\ ~haunted[n] => LeaseOK(Key(n), w, record[Domain(n)]),
         life[n] \notin Up \cup {"closing"} => w.pc = "exited",
         ~(setting.faults \/ setting.overlap) /\ ~setting.veto /\ record[Domain(n)].holder = Key(n) => Owns(w)
  PROVE  IInv'
<1>1. l \in Lives /\ (l \in Up <=> life[n] \in Up) /\ (l = "closing" <=> life[n] = "closing")
      /\ (l = "new" <=> life[n] = "new")
  BY NodeFacts DEF Ready, Lives, Up
<1>2. /\ setting' = setting /\ record' = record /\ alive' = alive
      /\ beat' = [beat EXCEPT ![n] = beat[n]] /\ haunted' = [haunted EXCEPT ![n] = haunted[n]]
      /\ beat[n] \in BeatType /\ haunted[n] \in BOOLEAN
  BY NodeFacts
<1>3. RecFrame(n) /\ AliveFrame(n) /\ LateFrame(n)
  BY <1>2, StillFrame DEF LateKeeps
<1>4. Local(n, life[n], elect[n], io[n], beat[n], haunted[n], record[Domain(n)], alive[Key(n)], late)
  BY NodeInvs
<1>5. Local(n, l, w, i, beat[n], haunted[n], record'[Domain(n)], alive'[Key(n)], late')
  BY <1>1, <1>2, <1>4 DEF Local, LateKeeps
<1> QED BY <1>1, <1>2, <1>3, <1>5, NodeStep

\* The operations a write may be.
Ops == {"none", "find", "insert", "take", "renew", "delete", "beat", "quiet"}

\* The fields of a write.
LEMMA WriteFields ==
  ASSUME NEW op \in Ops, NEW n \in Nodes, NEW old \in RecordType, NEW left \in Lefts
  PROVE  LET x == Write(op, n, old, left) IN
         x \in WriteType /\ x.op = op /\ x.node = n /\ x.old = old /\ x.left = left
  BY DEF Write, WriteType, Ops

\* The types of the empty documents and of the expiry time a node computes.
LEMMA StoreTypes ==
  /\ NoRecord \in RecordType /\ NoAlive \in AliveType /\ Over \in Lefts
  /\ \A n \in Nodes : /\ Fresh(n) \in Lefts /\ Fresh(n) >= UnhealthyTime /\ Skew[n] <= MaxSkew
                      /\ Fresh(n) \in Nat
                      /\ \A s \in 0 .. RoundTime : Fresh(n) - s \in Lefts
                      /\ NoIO(n) \in WriteType /\ NoIO(n).node = n
<1>1. Over \in Lefts
  BY Times DEF Over, Lefts
<1>2. NoRecord \in RecordType /\ NoAlive \in AliveType
  BY <1>1 DEF NoRecord, NoAlive, RecordType, AliveType
<1>3. ASSUME NEW n \in Nodes
      PROVE  /\ Fresh(n) \in Lefts /\ Fresh(n) >= UnhealthyTime /\ Skew[n] <= MaxSkew
             /\ Fresh(n) \in Nat
             /\ \A s \in 0 .. RoundTime : Fresh(n) - s \in Lefts
  <2>1. Skew[n] \in 0 .. MaxSkew
    BY SkewAssumption
  <2> QED BY <2>1, Times DEF Fresh, Lefts, Over
<1>4. ASSUME NEW n \in Nodes
      PROVE  NoIO(n) \in WriteType /\ NoIO(n).node = n
  BY <1>1, <1>2, WriteFields DEF NoIO, Ops
<1> QED BY <1>1, <1>2, <1>3, <1>4

\* setLeaderFlag at the end of a round: the flag may be raised without
\* adoption only after a reply that confirms the record.
LEMMA EndStep ==
  ASSUME IInv, NEW n \in Nodes, NEW flag \in BOOLEAN, NEW byAdoption \in BOOLEAN, NEW v \in ElectType,
         NEW i \in WriteType, i.node = n,
         elect' = [elect EXCEPT ![n] = EndRound(v, flag, byAdoption)],
         life' = [life EXCEPT ![n] = Ready(life[n])],
         io' = [io EXCEPT ![n] = i],
         UNCHANGED <<setting, record, alive, beat, haunted>>, LateKeeps(n),
         elect[n].pc # "exited",
         life[n] \in Up /\ ~haunted[n] /\ flag /\ ~byAdoption =>
            v.timer = elect[n].timer /\ elect[n].pc = "write" /\ elect[n].reply = "ok",
         ~(setting.faults \/ setting.overlap) /\ ~setting.veto /\ record[Domain(n)].holder = Key(n) => flag
  PROVE  IInv'
<1>. DEFINE w == EndRound(v, flag, byAdoption)
            r == record[Domain(n)]
<1>1. /\ w \in ElectType /\ w.leaderFlag = flag /\ w.adopted = byAdoption
      /\ w.pc = "wait" /\ w.reply = "wait" /\ w.spent = 0 /\ w.timer = v.timer
  BY EndRoundFields
<1>2. elect' = [elect EXCEPT ![n] = w]
  OBVIOUS
<1>. HIDE DEF w
<1>3. elect[n].timer.next \in 1 .. Period /\ elect[n].timer.due \in BOOLEAN /\ elect[n].spent \in 0 .. RoundTime
  BY NodeFacts DEF ElectType, Ticker
<1>4. WorkerOK(w) /\ IOOK(n, w, i)
  BY <1>1 DEF WorkerOK, IOOK
<1>5. life[n] \in Up /\ ~haunted[n] => LeaseOK(Key(n), w, r)
  <2> SUFFICES ASSUME life[n] \in Up, ~haunted[n], flag, ~byAdoption, Timely
               PROVE  LeaseOK(Key(n), w, r)
    BY <1>1 DEF LeaseOK
  <2>1. r.holder = Key(n) /\ r.left + elect[n].spent >= UnhealthyTime - Drift
    BY NodeInvs DEF LeaseOK, Local
  <2>2. ~elect[n].timer.due => elect[n].timer.next + elect[n].spent <= Period
    BY NodeInvs DEF WorkerOK, Local
  <2>3. w.timer = elect[n].timer /\ r.left \in Int
    BY <1>1, NodeFacts DEF RecordType, Lefts
  <2>4. r.left >= Reserve + (IF w.timer.due THEN 0 ELSE w.timer.next)
    BY <1>3, <2>1, <2>2, <2>3, Times
  <2> QED BY <1>1, <2>1, <2>4 DEF LeaseOK
<1>6. life[n] \in Up \cup {"closing"}
  BY NodeInvs DEF Local
<1>7. ~(setting.faults \/ setting.overlap) /\ ~setting.veto /\ r.holder = Key(n) => Owns(w)
  BY <1>1 DEF Owns
<1> QED BY <1>1, <1>2, <1>4, <1>5, <1>6, <1>7, ElectStep

\* elect (elect.go:245): a leader sends a renewal, any other node starts to
\* read the record.
LEMMA BeginRoundStep ==
  ASSUME IInv, NEW n \in Nodes, BeginRound(n)
  PROVE  IInv'
<1>. DEFINE pc == IF elect[n].leaderFlag THEN "write" ELSE "campaign"
            w == TakeTick(elect[n], pc)
            i == IF elect[n].leaderFlag THEN Write("renew", n, NoRecord, Fresh(n)) ELSE io[n]
            r == record[Domain(n)]
<1>1. /\ elect' = [elect EXCEPT ![n] = w] /\ life' = [life EXCEPT ![n] = life[n]]
      /\ io' = [io EXCEPT ![n] = i] /\ late' = late
      /\ UNCHANGED <<setting, record, alive, beat, haunted>>
      /\ elect[n].pc = "wait" /\ elect[n].timer.due
  BY NodeFacts DEF BeginRound, TickDue
<1>2. /\ w \in ElectType /\ w.timer.due = FALSE /\ w.timer.next = elect[n].timer.next
      /\ w.pc = pc /\ w.reply = elect[n].reply /\ w.spent = elect[n].spent
      /\ w.leaderFlag = elect[n].leaderFlag /\ w.adopted = elect[n].adopted
  BY NodeFacts, TakeTickElect
<1>3. elect[n].timer.next \in 1 .. Period /\ elect[n].leaderFlag \in BOOLEAN
  BY NodeFacts DEF ElectType, Ticker
<1>4. i \in WriteType /\ i.node = n
      /\ (elect[n].leaderFlag => i.op = "renew" /\ i.left = Fresh(n))
  <2>1. io[n] \in WriteType /\ io[n].node = n
    BY NodeFacts, NodeInvs DEF Local, IOOK
  <2>2. LET x == Write("renew", n, NoRecord, Fresh(n)) IN
        x \in WriteType /\ x.op = "renew" /\ x.node = n /\ x.left = Fresh(n)
    BY StoreTypes, WriteFields DEF Ops
  <2> QED BY <1>3, <2>1, <2>2
<1>5. Local(n, life[n], elect[n], io[n], beat[n], haunted[n], r, alive[Key(n)], late)
  BY NodeInvs
<1>. HIDE DEF w, i
<1>6. elect[n].reply = "wait" /\ elect[n].spent = 0
  BY <1>1, <1>5 DEF Local, WorkerOK
<1>7. WorkerOK(w)
  BY <1>2, <1>3, <1>6, Times DEF WorkerOK
<1>8. IOOK(n, w, i)
  BY <1>2, <1>3, <1>4, <1>6, StoreTypes, Times DEF IOOK
<1>9. life[n] \in Up /\ ~haunted[n] => LeaseOK(Key(n), w, r)
  <2> SUFFICES ASSUME life[n] \in Up, ~haunted[n]
               PROVE  LeaseOK(Key(n), w, r)
    OBVIOUS
  <2>1. LeaseOK(Key(n), elect[n], r)
    BY <1>5 DEF Local
  <2>2. r.left \in Int /\ Reserve \in Nat
    BY NodeFacts, Times DEF RecordType, Lefts
  <2> QED BY <1>1, <1>2, <1>6, <2>1, <2>2 DEF LeaseOK
<1>10. life[n] \in Up \cup {"closing"}
  BY <1>1, <1>5 DEF Local
<1>11. ~(setting.faults \/ setting.overlap) /\ ~setting.veto /\ r.holder = Key(n) => Owns(w)
  <2>1. life[n] # "new"
    BY <1>10 DEF Up
  <2> QED BY <1>1, <1>2, <1>3, <1>5, <1>6, <2>1 DEF Owns, Local
<1>12. LateKeeps(n)
  BY <1>1, StillFrame
<1> QED BY <1>1, <1>2, <1>4, <1>7, <1>8, <1>9, <1>10, <1>11, <1>12, ElectStep

\* runElectionOnce (elect.go:235) with CanElect false.
LEMMA StepDownStep ==
  ASSUME IInv, NEW n \in Nodes, StepDown(n)
  PROVE  IInv'
<1>. DEFINE v == TakeTick(elect[n], "wait")
<1>1. /\ elect' = [elect EXCEPT ![n] = EndRound(v, FALSE, FALSE)]
      /\ life' = [life EXCEPT ![n] = Ready(life[n])] /\ io' = [io EXCEPT ![n] = io[n]]
      /\ UNCHANGED <<setting, record, alive, beat, haunted>> /\ late' = late
      /\ elect[n].pc # "exited" /\ setting.veto
  BY NodeFacts DEF StepDown, StepDownRound, TickDue
<1>2. v \in ElectType /\ io[n] \in WriteType
  BY NodeFacts, TakeTickElect
<1>3. io[n].node = n
  BY NodeInvs DEF Local, IOOK
<1>4. LateKeeps(n)
  BY <1>1, StillFrame
<1>. HIDE DEF v
<1> QED BY <1>1, <1>2, <1>3, <1>4, EndStep

\* The read of campaign (elect.go:258).
LEMMA ExecFindStep ==
  ASSUME IInv, NEW n \in Nodes, ExecFind(n)
  PROVE  IInv'
<1>. DEFINE w == [elect[n] EXCEPT !.pc = "check"]
            r == record[Domain(n)]
            i == Write("find", n, r, Over)
<1>1. elect \in [Nodes -> ElectType]
  BY DEF IInv, TypeOK
<1>2. /\ elect' = [elect EXCEPT ![n] = w] /\ life' = [life EXCEPT ![n] = life[n]]
      /\ io' = [io EXCEPT ![n] = i] /\ late' = late
      /\ UNCHANGED <<setting, record, alive, beat, haunted>>
      /\ elect[n].pc = "campaign"
  BY <1>1, NodeFacts DEF ExecFind
<1>3. /\ w \in ElectType /\ w.pc = "check" /\ w.reply = elect[n].reply /\ w.leaderFlag = elect[n].leaderFlag
      /\ w.timer = elect[n].timer /\ w.spent = elect[n].spent
  BY <1>1 DEF ElectType
<1>4. i \in WriteType /\ i.node = n
  BY NodeFacts, StoreTypes, WriteFields DEF Ops
<1>5. Local(n, life[n], elect[n], io[n], beat[n], haunted[n], r, alive[Key(n)], late)
  BY NodeInvs
<1>. HIDE DEF w, i
<1>6. WorkerOK(w) /\ IOOK(n, w, i) /\ ~elect[n].leaderFlag /\ elect[n].reply = "wait"
  BY <1>2, <1>3, <1>4, <1>5 DEF WorkerOK, IOOK, Local
<1>7. LeaseOK(Key(n), w, r)
  BY <1>3, <1>6 DEF LeaseOK
<1>8. life[n] \in Up \cup {"closing"} /\ life[n] # "new"
  BY <1>2, <1>5 DEF Local, Up
<1>9. ~(setting.faults \/ setting.overlap) /\ ~setting.veto => r.holder # Key(n)
  BY <1>2, <1>5, <1>6, <1>8 DEF Owns, Local
<1>10. LateKeeps(n)
  BY <1>2, StillFrame
<1> QED BY <1>2, <1>3, <1>4, <1>6, <1>7, <1>8, <1>9, <1>10, ElectStep

\* campaign finds its own record, or the live record of another node.
LEMMA FoundHeldStep ==
  ASSUME IInv, NEW n \in Nodes, FoundHeld(n)
  PROVE  IInv'
<1>1. PICK flag \in BOOLEAN : End(n, flag, flag)
  BY DEF FoundHeld
<1>2. /\ elect' = [elect EXCEPT ![n] = EndRound(elect[n], flag, flag)]
      /\ life' = [life EXCEPT ![n] = Ready(life[n])] /\ io' = [io EXCEPT ![n] = NoIO(n)]
      /\ UNCHANGED <<setting, record, alive, beat, haunted>> /\ late' = late
      /\ elect[n].pc = "check"
  BY <1>1 DEF FoundHeld, End
<1>3. elect[n] \in ElectType /\ NoIO(n) \in WriteType /\ NoIO(n).node = n
  BY NodeFacts, StoreTypes
<1>4. Local(n, life[n], elect[n], io[n], beat[n], haunted[n], record[Domain(n)], alive[Key(n)], late)
  BY NodeInvs
<1>5. ~(setting.faults \/ setting.overlap) /\ ~setting.veto => record[Domain(n)].holder # Key(n)
  BY <1>2, <1>4 DEF Owns, Local, WorkerOK, Up
<1>6. LateKeeps(n)
  BY <1>2, StillFrame
<1> QED BY <1>2, <1>3, <1>5, <1>6, EndStep

\* campaign and continueLeader (elect.go:310) after the answer to their write.
LEMMA WriteReplyStep ==
  ASSUME IInv, NEW n \in Nodes, WriteReply(n)
  PROVE  IInv'
<1>. DEFINE flag == elect[n].reply = "ok"
<1>2. /\ elect' = [elect EXCEPT ![n] = EndRound(elect[n], flag, FALSE)]
      /\ life' = [life EXCEPT ![n] = Ready(life[n])] /\ io' = [io EXCEPT ![n] = NoIO(n)]
      /\ UNCHANGED <<setting, record, alive, beat, haunted>> /\ late' = late
      /\ elect[n].pc = "write" /\ elect[n].reply # "wait"
  BY DEF WriteReply, End
<1>3. elect[n] \in ElectType /\ NoIO(n) \in WriteType /\ NoIO(n).node = n /\ elect[n].reply \in {"wait", "ok", "no"}
  BY NodeFacts, StoreTypes DEF ElectType
<1>4. Local(n, life[n], elect[n], io[n], beat[n], haunted[n], record[Domain(n)], alive[Key(n)], late)
  BY NodeInvs
<1>5. flag \in BOOLEAN /\ (flag <=> elect[n].reply = "ok")
  OBVIOUS
<1>. HIDE DEF flag
<1>6. ~(setting.faults \/ setting.overlap) /\ ~setting.veto /\ record[Domain(n)].holder = Key(n) => flag
  BY <1>2, <1>3, <1>4, <1>5 DEF Owns, Local, Up
<1>7. LateKeeps(n)
  BY <1>2, StillFrame
<1> QED BY <1>2, <1>3, <1>5, <1>6, <1>7, EndStep

\* campaign sends an insertion, or the takeover of a record that has expired
\* by the clock of the node.
LEMMA SendCampaignStep ==
  ASSUME IInv, NEW n \in Nodes, SendCampaign(n)
  PROVE  IInv'
<1>. DEFINE w == [elect[n] EXCEPT !.pc = "write"]
            r == record[Domain(n)]
            seen == io[n].old
<1>1. elect \in [Nodes -> ElectType]
  BY DEF IInv, TypeOK
<1>2. PICK op \in {"take", "insert"} :
         io' = [io EXCEPT ![n] = Write(op, n, seen, Fresh(n))] /\ (op = "take" => seen.left < Skew[n])
  BY DEF SendCampaign
<1>. DEFINE i == Write(op, n, seen, Fresh(n))
<1>3. /\ elect' = [elect EXCEPT ![n] = w] /\ life' = [life EXCEPT ![n] = life[n]]
      /\ io' = [io EXCEPT ![n] = i] /\ late' = late
      /\ UNCHANGED <<setting, record, alive, beat, haunted>>
      /\ elect[n].pc = "check"
  BY <1>1, <1>2, NodeFacts DEF SendCampaign
<1>4. /\ w \in ElectType /\ w.pc = "write" /\ w.reply = elect[n].reply /\ w.leaderFlag = elect[n].leaderFlag
      /\ w.timer = elect[n].timer /\ w.spent = elect[n].spent
  BY <1>1 DEF ElectType
<1>5. seen \in RecordType /\ seen.left \in Int
  BY NodeFacts DEF WriteType, RecordType, Lefts
<1>6. i \in WriteType /\ i.node = n /\ i.op = op /\ i.left = Fresh(n) /\ i.old = seen
  BY <1>2, <1>5, StoreTypes, WriteFields DEF Ops
<1>7. Local(n, life[n], elect[n], io[n], beat[n], haunted[n], r, alive[Key(n)], late)
  BY NodeInvs
<1>8. Fresh(n) \in Nat /\ Fresh(n) >= UnhealthyTime /\ Skew[n] \in Int /\ Skew[n] <= MaxSkew /\ elect[n].spent \in Nat
  BY <1>1, StoreTypes, SkewAssumption DEF ElectType
<1>. HIDE DEF w, i, seen
<1>9. WorkerOK(w) /\ ~elect[n].leaderFlag /\ elect[n].reply = "wait"
  BY <1>3, <1>4, <1>7 DEF WorkerOK, Local
<1>10. IOOK(n, w, i)
  BY <1>2, <1>4, <1>5, <1>6, <1>8, <1>9, Times DEF IOOK
<1>11. LeaseOK(Key(n), w, r)
  BY <1>4, <1>9 DEF LeaseOK
<1>12. life[n] \in Up \cup {"closing"} /\ life[n] # "new"
  BY <1>3, <1>7 DEF Local, Up
<1>13. ~(setting.faults \/ setting.overlap) /\ ~setting.veto => r.holder # Key(n)
  BY <1>3, <1>7, <1>9, <1>12 DEF Owns, Local
<1>14. LateKeeps(n)
  BY <1>3, StillFrame
<1> QED BY <1>3, <1>4, <1>6, <1>9, <1>10, <1>11, <1>12, <1>13, <1>14, ElectStep

\* What a write does to a record, if the server finds what its filter asks
\* for.
LEMMA ApplyCases ==
  ASSUME NEW r \in RecordType, NEW x \in WriteType, NEW n \in Nodes, x.node = n, Key(n) \in Keys
  PROVE  /\ Apply(r, x) \in RecordType
         /\ ~Accepts(r, x) => Apply(r, x) = r
         /\ Accepts(r, x) /\ x.op # "delete" => Apply(r, x).holder = Key(n) /\ Apply(r, x).left = x.left
         /\ Accepts(r, x) /\ x.op = "delete" => Apply(r, x).holder = NoKey /\ r.holder = Key(n)
         /\ x.op \in {"renew", "delete"} => (Accepts(r, x) <=> r.holder = Key(n))
         /\ Accepts(r, x) => \/ x.op = "insert" /\ r.holder = NoKey
                             \/ x.op = "take" /\ r = x.old
                             \/ x.op \notin {"insert", "take"} /\ r.holder = Key(n)
<1>1. NoRecord.holder = NoKey /\ NoRecord \in RecordType
  BY StoreTypes DEF NoRecord
<1>2. [holder |-> Key(n), left |-> x.left] \in RecordType
  BY DEF RecordType, WriteType
<1>3. Apply(r, x) \in RecordType
  BY <1>1, <1>2 DEF Apply
<1>4. x.op \in {"renew", "delete"} => (Accepts(r, x) <=> r.holder = Key(n))
  BY DEF Accepts
<1>5. Accepts(r, x) => \/ x.op = "insert" /\ r.holder = NoKey
                       \/ x.op = "take" /\ r = x.old
                       \/ x.op \notin {"insert", "take"} /\ r.holder = Key(n)
  <2>1. CASE x.op = "insert"
    BY <1>1, <2>1 DEF Accepts
  <2>2. CASE x.op = "take"
    BY <2>2 DEF Accepts
  <2>3. CASE x.op \notin {"insert", "take"}
    BY <2>3 DEF Accepts
  <2> QED BY <2>1, <2>2, <2>3
<1>6. /\ ~Accepts(r, x) => Apply(r, x) = r
      /\ Accepts(r, x) /\ x.op # "delete" => Apply(r, x).holder = Key(n) /\ Apply(r, x).left = x.left
      /\ Accepts(r, x) /\ x.op = "delete" => Apply(r, x).holder = NoKey
  BY <1>1 DEF Apply
<1> QED BY <1>3, <1>4, <1>5, <1>6

\* A write of n does no harm to the others: an insertion needs an empty
\* record, a takeover the expired record that was read, and renewals and
\* deletions are filtered by the key of n.
LEMMA ApplyFrame ==
  ASSUME IInv, NEW n \in setting.members, NEW x \in WriteType, x.node = n,
         x.op = "take" => x.old.left < MaxSkew,
         record' = [record EXCEPT ![Domain(n)] = Apply(@, x)]
  PROVE  RecFrame(n)
<1>1. n \in Nodes /\ Domain(n) \in Domains /\ Key(n) \in Keys /\ setting.members \subseteq Nodes
  BY SettingFacts
<1>2. record \in [Domains -> RecordType] /\ record[Domain(n)] \in RecordType
  BY <1>1, NodeFacts
<1>3. record' \in [Domains -> RecordType]
  BY <1>1, <1>2, ApplyCases
<1>4. ASSUME NEW m \in setting.members \ {n}
      PROVE  /\ record[Domain(m)].holder = Key(m) /\ record[Domain(m)].left >= MaxSkew
                  => record'[Domain(m)] = record[Domain(m)]
             /\ record'[Domain(m)].holder = Key(m) => record[Domain(m)].holder = Key(m)
  <2>1. m \in Nodes /\ Domain(m) \in Domains /\ Key(m) \in Keys
    BY <1>1, SettingFacts
  <2>2. CASE Domain(m) # Domain(n)
    BY <1>1, <1>2, <2>1, <2>2
  <2>3. CASE Domain(m) = Domain(n)
    <3>. DEFINE r == record[Domain(n)]
    <3>1. Key(m) # Key(n) /\ Key(m) # NoKey /\ Key(n) # NoKey
      BY <1>1, <2>1, <2>3, SettingFacts, StoreAssumption
    <3>2. record'[Domain(m)] = Apply(r, x)
      BY <1>1, <1>2, <2>3
    <3>3. r.left \in Int /\ x.old.left \in Int /\ MaxSkew \in Int
      BY <1>2, Times DEF RecordType, WriteType, Lefts
    <3>4. r.holder = Key(m) /\ r.left >= MaxSkew => ~Accepts(r, x)
      BY <1>1, <1>2, <3>1, <3>3, ApplyCases
    <3>5. Apply(r, x) = r \/ Apply(r, x).holder \in {Key(n), NoKey}
      BY <1>1, <1>2, ApplyCases
    <3>6. ~Accepts(r, x) => Apply(r, x) = r
      BY <1>1, <1>2, ApplyCases
    <3> QED BY <2>3, <3>1, <3>2, <3>4, <3>5, <3>6
  <2> QED BY <2>2, <2>3
<1> QED BY <1>3, <1>4 DEF RecFrame

\* The record of the domain after a write.
LEMMA ApplyHere ==
  ASSUME IInv, NEW n \in Nodes, NEW x,
         record' = [record EXCEPT ![Domain(n)] = Apply(@, x)]
  PROVE  record'[Domain(n)] = Apply(record[Domain(n)], x)
  BY NodeFacts, SettingFacts

\* The server executes the write the election worker waits for.
LEMMA ExecWriteStep ==
  ASSUME IInv, NEW n \in Nodes, ExecWrite(n)
  PROVE  IInv'
<1>. DEFINE r == record[Domain(n)]
            v == IF Accepts(r, io[n]) THEN "ok" ELSE "no"
            w == [elect[n] EXCEPT !.reply = v]
<1>1. elect \in [Nodes -> ElectType]
  BY DEF IInv, TypeOK
<1>2. /\ elect[n].pc = "write" /\ elect[n].reply = "wait"
      /\ record' = [record EXCEPT ![Domain(n)] = Apply(@, io[n])]
      /\ elect' = [elect EXCEPT ![n] = w]
      /\ late' = late /\ alive' = alive /\ setting' = setting
      /\ life' = [life EXCEPT ![n] = life[n]] /\ beat' = [beat EXCEPT ![n] = beat[n]]
      /\ haunted' = [haunted EXCEPT ![n] = haunted[n]] /\ io' = [io EXCEPT ![n] = io[n]]
  BY <1>1, NodeFacts DEF ExecWrite
<1>3. v \in {"ok", "no"} /\ (v = "ok" <=> Accepts(r, io[n]))
  OBVIOUS
<1>. HIDE DEF v
<1>4. /\ w \in ElectType /\ w.reply = v
      /\ w.pc = elect[n].pc /\ w.timer = elect[n].timer /\ w.spent = elect[n].spent
      /\ w.leaderFlag = elect[n].leaderFlag /\ w.adopted = elect[n].adopted
  BY <1>1, <1>3 DEF ElectType
<1>. HIDE DEF w
<1>5. Local(n, life[n], elect[n], io[n], beat[n], haunted[n], r, alive[Key(n)], late)
  BY NodeInvs
<1>6. /\ life[n] \in Lives /\ io[n] \in WriteType /\ beat[n] \in BeatType /\ haunted[n] \in BOOLEAN
      /\ r \in RecordType /\ elect[n].spent \in Nat /\ r.left \in Int /\ io[n].left \in Int
  BY NodeFacts DEF ElectType, RecordType, WriteType, Lefts
<1>7. life[n] \in Up \cup {"closing"} /\ n \in setting.members
  BY <1>2, <1>5 DEF Local, Up
<1>8. /\ io[n].node = n /\ io[n].op \in {"insert", "take", "renew"}
      /\ io[n].left + elect[n].spent >= UnhealthyTime
      /\ io[n].op = "take" => io[n].old.left < MaxSkew
      /\ elect[n].leaderFlag => io[n].op = "renew"
  BY <1>2, <1>5 DEF Local, IOOK
<1>9. RecFrame(n) /\ AliveFrame(n) /\ LateFrame(n)
  BY <1>2, <1>6, <1>7, <1>8, ApplyFrame, StillFrame
<1>10. record'[Domain(n)] = Apply(r, io[n])
  BY <1>2, ApplyHere
<1>11. /\ ~Accepts(r, io[n]) => Apply(r, io[n]) = r
       /\ Accepts(r, io[n]) => Apply(r, io[n]).holder = Key(n) /\ Apply(r, io[n]).left = io[n].left
       /\ io[n].op = "renew" => (Accepts(r, io[n]) <=> r.holder = Key(n))
  BY <1>6, <1>8, ApplyCases, SettingFacts
<1>12. WorkerOK(w) /\ IOOK(n, w, io[n])
  BY <1>2, <1>4, <1>5 DEF Local, WorkerOK, IOOK
<1>13. life[n] \in Up /\ ~haunted[n] => LeaseOK(Key(n), w, record'[Domain(n)])
  <2> SUFFICES ASSUME life[n] \in Up, ~haunted[n]
               PROVE  LeaseOK(Key(n), w, record'[Domain(n)])
    OBVIOUS
  <2>1. LeaseOK(Key(n), elect[n], r)
    BY <1>5 DEF Local
  <2>2. CASE Accepts(r, io[n])
    BY <1>2, <1>4, <1>6, <1>8, <1>10, <1>11, <2>2, Times DEF LeaseOK
  <2>3. CASE ~Accepts(r, io[n])
    BY <1>2, <1>3, <1>4, <1>10, <1>11, <2>1, <2>3 DEF LeaseOK
  <2> QED BY <2>2, <2>3
<1>14. ~(setting.faults \/ setting.overlap) /\ ~setting.veto /\ record'[Domain(n)].holder = Key(n) => Owns(w)
  <2> SUFFICES ASSUME ~(setting.faults \/ setting.overlap), ~setting.veto, record'[Domain(n)].holder = Key(n)
               PROVE  Owns(w)
    OBVIOUS
  <2>1. CASE Accepts(r, io[n])
    BY <1>2, <1>3, <1>4, <2>1 DEF Owns
  <2>2. CASE ~Accepts(r, io[n])
    <3>1. r.holder = Key(n)
      BY <1>10, <1>11, <2>2
    <3>2. elect[n].leaderFlag
      BY <1>2, <1>5, <1>7, <3>1 DEF Local, Owns
    <3> QED BY <1>8, <1>11, <2>2, <3>1, <3>2
  <2> QED BY <2>1, <2>2
<1>15. Local(n, life[n], w, io[n], beat[n], haunted[n], record'[Domain(n)], alive'[Key(n)], late')
  BY <1>2, <1>5, <1>7, <1>12, <1>13, <1>14 DEF Local
<1> QED BY <1>2, <1>4, <1>6, <1>9, <1>15, NodeStep

\* maxLate bounds what is late.
LEMMA MoreLate ==
  ASSUME IInv, NEW ws, IsFiniteSet(ws), Cardinality(late \cup ws) <= setting.maxLate
  PROVE  LateOK(late \cup ws)
<1>1. IsFiniteSet(late \cup ws)
  BY FS_Union DEF IInv, Writes, LateOK
<1>2. ASSUME late \cup ws # {} PROVE Drift = LateTime
  <2>1. Cardinality(late \cup ws) \in Nat /\ Cardinality(late \cup ws) # 0
    BY <1>1, <1>2, FS_CardinalityType, FS_EmptySet
  <2>2. setting \in Settings /\ setting.maxLate # 0
    BY <2>1, SettingFacts
  <2> QED BY <2>2 DEF Drift
<1> QED BY <1>1, <1>2 DEF LateOK

\* What is given up is added to what is late, or not.
LEMMA AbandonFrame ==
  ASSUME IInv, NEW n \in Nodes, NEW ws \in SUBSET WriteType, Abandon(ws), setting.faults,
         IsFiniteSet(ws), \A x \in ws : GoodWrite(x) /\ x.node = n
  PROVE  LateFrame(n) /\ \A x \in late' \ late : x \in ws
<1>1. CASE late' = late
  BY <1>1, NodeFacts DEF LateFrame, IInv, Writes
<1>2. CASE Cardinality(late \cup ws) <= setting.maxLate /\ late' = late \cup ws
  <2>1. LateOK(late')
    BY <1>2, MoreLate
  <2> QED BY <1>2, <2>1, NodeFacts DEF LateFrame, IInv, Writes
<1> QED BY <1>1, <1>2 DEF Abandon

\* The write of a round is not older than the round, and so than LateTime.
LEMMA PendingGood ==
  ASSUME IInv, NEW n \in Nodes
  PROVE  /\ Pending(n) \in SUBSET WriteType /\ IsFiniteSet(Pending(n))
         /\ \A x \in Pending(n) : GoodWrite(x) /\ x.node = n /\ x.op \notin {"delete", "quiet"}
<1>1. Local(n, life[n], elect[n], io[n], beat[n], haunted[n], record[Domain(n)], alive[Key(n)], late)
  BY NodeInvs
<1>2. io[n] \in WriteType /\ elect[n].spent \in 0 .. RoundTime /\ io[n].left \in Int
  BY NodeFacts DEF ElectType, WriteType, Lefts
<1>3. IsFiniteSet(Pending(n))
  BY FS_EmptySet, FS_Singleton DEF Pending
<1>4. CASE elect[n].pc = "write"
  <2>1. n \in setting.members
    BY <1>1, <1>4 DEF Local, Up
  <2>2. /\ io[n].node = n /\ io[n].op \in {"insert", "take", "renew"}
        /\ io[n].left + elect[n].spent >= UnhealthyTime
        /\ io[n].op = "take" => io[n].old.left < MaxSkew
    BY <1>1, <1>4 DEF Local, IOOK
  <2>3. GoodWrite(io[n])
    BY <1>2, <2>1, <2>2, Times DEF GoodWrite
  <2> QED BY <1>2, <2>2, <2>3, <1>3 DEF Pending
<1>5. CASE elect[n].pc # "write"
  BY <1>5, <1>3 DEF Pending
<1> QED BY <1>4, <1>5

\* The same for a heartbeat.
LEMMA BeatWriteGood ==
  ASSUME IInv, NEW n \in Nodes, beat[n].pc = "set"
  PROVE  /\ BeatWrite(n) \in WriteType /\ GoodWrite(BeatWrite(n))
         /\ BeatWrite(n).node = n /\ BeatWrite(n).op = "beat"
         /\ BeatWrite(n).left = Fresh(n) - beat[n].spent
         /\ n \in setting.members
<1>1. Local(n, life[n], elect[n], io[n], beat[n], haunted[n], record[Domain(n)], alive[Key(n)], late)
  BY NodeInvs
<1>2. n \in setting.members
  BY <1>1 DEF Local, Up
<1>3. beat[n].spent \in 0 .. RoundTime
  BY NodeFacts DEF BeatType
<1>4. Fresh(n) - beat[n].spent \in Lefts /\ Fresh(n) \in Nat /\ Fresh(n) >= UnhealthyTime
  BY <1>3, StoreTypes
<1>5. /\ BeatWrite(n) \in WriteType /\ BeatWrite(n).node = n /\ BeatWrite(n).op = "beat"
      /\ BeatWrite(n).left = Fresh(n) - beat[n].spent
  BY <1>4, StoreTypes, WriteFields DEF BeatWrite, Ops
<1>6. GoodWrite(BeatWrite(n))
  BY <1>2, <1>3, <1>4, <1>5, Times DEF GoodWrite
<1> QED BY <1>2, <1>5, <1>6

\* The round fails: a leader steps down, and its write may be late.
LEMMA FailRoundStep ==
  ASSUME IInv, NEW n \in Nodes, FailRound(n)
  PROVE  IInv'
<1>1. /\ elect' = [elect EXCEPT ![n] = EndRound(elect[n], FALSE, FALSE)]
      /\ life' = [life EXCEPT ![n] = Ready(life[n])] /\ io' = [io EXCEPT ![n] = NoIO(n)]
      /\ UNCHANGED <<setting, record, alive, beat, haunted>>
      /\ elect[n].pc # "exited" /\ setting.faults /\ Abandon(Pending(n))
  BY DEF FailRound, End
<1>2. elect[n] \in ElectType /\ NoIO(n) \in WriteType /\ NoIO(n).node = n
  BY NodeFacts, StoreTypes
<1>3. LateKeeps(n)
  BY <1>1, PendingGood, AbandonFrame DEF LateKeeps
<1> QED BY <1>1, <1>2, <1>3, EndStep

\* NodeStep, for the steps of the heartbeat worker.
LEMMA BeatStep ==
  ASSUME IInv, NEW n \in Nodes, NEW b \in BeatType,
         UNCHANGED <<setting, record, life, elect, io, haunted>>,
         beat' = [beat EXCEPT ![n] = b], AliveFrame(n), LateKeeps(n),
         KeysApart /\ life[n] \in Up /\ ~haunted[n] => HeartOK(Domain(n), b, alive'[Key(n)]),
         life[n] \notin Up \cup {"closing"} => b.pc = "exited",
         ~setting.keepHeartbeat => b.pc = "exited"
  PROVE  IInv'
<1>1. /\ setting' = setting /\ record' = record
      /\ life' = [life EXCEPT ![n] = life[n]] /\ elect' = [elect EXCEPT ![n] = elect[n]]
      /\ io' = [io EXCEPT ![n] = io[n]] /\ haunted' = [haunted EXCEPT ![n] = haunted[n]]
      /\ life[n] \in Lives /\ elect[n] \in ElectType /\ io[n] \in WriteType /\ haunted[n] \in BOOLEAN
  BY NodeFacts
<1>2. RecFrame(n) /\ LateFrame(n)
  BY <1>1, StillFrame DEF LateKeeps
<1>3. Local(n, life[n], elect[n], io[n], beat[n], haunted[n], record[Domain(n)], alive[Key(n)], late)
  BY NodeInvs
<1>4. Local(n, life[n], elect[n], io[n], b, haunted[n], record'[Domain(n)], alive'[Key(n)], late')
  BY <1>1, <1>3 DEF Local, LateKeeps
<1> QED BY <1>1, <1>2, <1>4, NodeStep

\* goHeartBeat (elect.go:326) reads its tick.
LEMMA BeginBeatStep ==
  ASSUME IInv, NEW n \in Nodes, BeginBeat(n)
  PROVE  IInv'
<1>. DEFINE b == TakeTick(beat[n], "set")
<1>1. /\ UNCHANGED <<setting, record, life, elect, io, haunted>>
      /\ beat' = [beat EXCEPT ![n] = b] /\ alive' = alive /\ late' = late
      /\ beat[n].pc = "wait" /\ beat[n].timer.due
  BY DEF BeginBeat, TickDue
<1>2. b \in BeatType /\ b.pc = "set" /\ b.spent = beat[n].spent /\ b.ok = beat[n].ok
      /\ b.timer.next = beat[n].timer.next
  BY NodeFacts, TakeTickBeat
<1>. HIDE DEF b
<1>3. AliveFrame(n) /\ LateKeeps(n)
  BY <1>1, StillFrame
<1>4. Local(n, life[n], elect[n], io[n], beat[n], haunted[n], record[Domain(n)], alive[Key(n)], late)
  BY NodeInvs
<1>5. alive[Key(n)].left \in Int /\ beat[n].timer.next \in 1 .. Period
  BY NodeFacts DEF AliveType, Lefts, BeatType, Ticker
<1>6. KeysApart /\ life[n] \in Up /\ ~haunted[n] => HeartOK(Domain(n), b, alive'[Key(n)])
  BY <1>1, <1>2, <1>4, <1>5, Times DEF Local, HeartOK
<1>7. life[n] \in Up \cup {"closing"} /\ setting.keepHeartbeat
  BY <1>1, <1>4 DEF Local
<1> QED BY <1>1, <1>2, <1>3, <1>6, <1>7, BeatStep

\* A heartbeat document is written or deleted by node key; a deletion is
\* filtered by the domain too.
LEMMA BeatFrame ==
  ASSUME IInv, NEW n \in setting.members, NEW x \in WriteType, x.node = n,
         alive' = [alive EXCEPT ![Key(n)] = ApplyBeat(@, x)],
         setting.keepHeartbeat \/ setting.faults \/ setting.overlap
  PROVE  /\ AliveFrame(n)
         /\ x.op = "beat" => alive'[Key(n)].domain = Domain(n) /\ alive'[Key(n)].left = x.left
         /\ x.op # "beat" => alive'[Key(n)].domain # Domain(n)
         /\ \A k \in Keys \ {Key(n)} : alive'[k] = alive[k]
<1>1. n \in Nodes /\ Domain(n) \in Domains /\ Key(n) \in Keys /\ setting.members \subseteq Nodes
  BY SettingFacts
<1>2. alive \in [Keys -> AliveType] /\ alive[Key(n)] \in AliveType /\ NoAlive \in AliveType
  BY <1>1, NodeFacts, StoreTypes
<1>. DEFINE a == ApplyBeat(alive[Key(n)], x)
<1>3. a \in AliveType
  BY <1>1, <1>2 DEF ApplyBeat, AliveType, WriteType
<1>4. /\ x.op = "beat" => a.domain = Domain(n) /\ a.left = x.left
      /\ x.op # "beat" => a.domain # Domain(n)
  BY <1>1, StoreAssumption DEF ApplyBeat, NoAlive
<1>5. alive' = [alive EXCEPT ![Key(n)] = a]
  OBVIOUS
<1>. HIDE DEF a
<1>6. alive' \in [Keys -> AliveType] /\ alive'[Key(n)] = a /\ \A k \in Keys \ {Key(n)} : alive'[k] = alive[k]
  BY <1>1, <1>2, <1>3, <1>5
<1>7. ASSUME KeysApart, NEW m \in setting.members \ {n}
      PROVE  alive'[Key(m)] = alive[Key(m)]
  <2>1. Key(m) \in Keys /\ Key(m) # Key(n)
    BY <1>1, <1>7, SettingFacts DEF KeysApart
  <2> QED BY <1>6, <2>1
<1> QED BY <1>4, <1>6, <1>7 DEF AliveFrame

\* heartBeat (elect.go:346) succeeds: the expiry time it computed when its
\* round began outlasts the next round.
LEMMA BeatDoneStep ==
  ASSUME IInv, NEW n \in Nodes, Beat(n)
  PROVE  IInv'
<1>. DEFINE b == EndBeat(beat[n], TRUE)
<1>1. /\ UNCHANGED <<setting, record, life, elect, io, haunted>>
      /\ beat' = [beat EXCEPT ![n] = b] /\ late' = late /\ beat[n].pc = "set"
      /\ alive' = [alive EXCEPT ![Key(n)] = ApplyBeat(@, BeatWrite(n))]
  BY DEF Beat
<1>2. b \in BeatType /\ b.ok = TRUE /\ b.pc = "wait" /\ b.spent = 0 /\ b.timer = beat[n].timer
  BY NodeFacts, EndBeatFields
<1>. HIDE DEF b
<1>3. Local(n, life[n], elect[n], io[n], beat[n], haunted[n], record[Domain(n)], alive[Key(n)], late)
  BY NodeInvs
<1>4. life[n] \in Up \cup {"closing"} /\ setting.keepHeartbeat
  BY <1>1, <1>3 DEF Local
<1>5. /\ BeatWrite(n) \in WriteType /\ BeatWrite(n).node = n /\ BeatWrite(n).op = "beat"
      /\ BeatWrite(n).left = Fresh(n) - beat[n].spent /\ n \in setting.members
  BY <1>1, BeatWriteGood
<1>6. /\ AliveFrame(n) /\ alive'[Key(n)].domain = Domain(n)
      /\ alive'[Key(n)].left = Fresh(n) - beat[n].spent
  BY <1>1, <1>4, <1>5, BeatFrame
<1>7. beat[n].spent \in 0 .. RoundTime /\ beat[n].timer.next \in 1 .. Period
  BY NodeFacts DEF BeatType, Ticker
<1>8. Timely /\ KeysApart /\ life[n] \in Up /\ ~haunted[n] =>
        alive'[Key(n)].left >= Reserve + (IF b.timer.due THEN 0 ELSE b.timer.next)
  <2>1. Fresh(n) \in Nat /\ Fresh(n) >= UnhealthyTime
    BY StoreTypes
  <2>2. KeysApart /\ life[n] \in Up /\ ~haunted[n] /\ ~beat[n].timer.due =>
          beat[n].timer.next + beat[n].spent <= Period
    BY <1>1, <1>3 DEF Local, HeartOK
  <2> QED BY <1>2, <1>6, <1>7, <2>1, <2>2, Times
<1>9. KeysApart /\ life[n] \in Up /\ ~haunted[n] => HeartOK(Domain(n), b, alive'[Key(n)])
  BY <1>2, <1>6, <1>8 DEF HeartOK
<1>10. LateKeeps(n)
  BY <1>1, StillFrame
<1> QED BY <1>1, <1>2, <1>4, <1>6, <1>9, <1>10, BeatStep

\* heartBeat fails: the document may have been written, or may be written
\* later.
LEMMA FailBeatStep ==
  ASSUME IInv, NEW n \in Nodes, FailBeat(n)
  PROVE  IInv'
<1>. DEFINE b == EndBeat(beat[n], FALSE)
<1>1. /\ UNCHANGED <<setting, record, life, elect, io, haunted>>
      /\ beat' = [beat EXCEPT ![n] = b] /\ beat[n].pc = "set" /\ setting.faults
  BY DEF FailBeat
<1>2. b \in BeatType /\ b.ok = FALSE /\ b.pc = "wait" /\ b.spent = 0
  BY NodeFacts, EndBeatFields
<1>. HIDE DEF b
<1>3. Local(n, life[n], elect[n], io[n], beat[n], haunted[n], record[Domain(n)], alive[Key(n)], late)
  BY NodeInvs
<1>4. life[n] \in Up \cup {"closing"} /\ setting.keepHeartbeat
  BY <1>1, <1>3 DEF Local
<1>5. /\ BeatWrite(n) \in WriteType /\ BeatWrite(n).node = n /\ BeatWrite(n).op = "beat"
      /\ GoodWrite(BeatWrite(n)) /\ n \in setting.members
  BY <1>1, BeatWriteGood
<1>6. HeartOK(Domain(n), b, alive'[Key(n)])
  BY <1>2 DEF HeartOK
<1>7. CASE alive' = [alive EXCEPT ![Key(n)] = ApplyBeat(@, BeatWrite(n))] /\ late' = late
  <2>1. AliveFrame(n) /\ LateKeeps(n)
    BY <1>4, <1>5, <1>7, BeatFrame, StillFrame
  <2> QED BY <1>1, <1>2, <1>4, <1>6, <2>1, BeatStep
<1>8. CASE alive' = alive /\ Abandon({BeatWrite(n)})
  <2>1. AliveFrame(n)
    BY <1>8, StillFrame
  <2>. DEFINE ws == {BeatWrite(n)}
  <2>2. /\ ws \in SUBSET WriteType /\ IsFiniteSet(ws)
        /\ \A x \in ws : GoodWrite(x) /\ x.node = n /\ x.op = "beat"
    BY <1>5, FS_Singleton
  <2>3. Abandon(ws)
    BY <1>8
  <2>. HIDE DEF ws
  <2>4. LateFrame(n) /\ \A x \in late' \ late : x \in ws
    BY <1>1, <2>2, <2>3, AbandonFrame
  <2>5. LateKeeps(n)
    BY <2>2, <2>4 DEF LateKeeps
  <2> QED BY <1>1, <1>2, <1>4, <1>6, <2>1, <2>5, BeatStep
<1> QED BY <1>7, <1>8 DEF FailBeat

\* NodeStep, for the steps of Close that follow each other.
LEMMA DownStep ==
  ASSUME IInv, NEW n \in Nodes, NEW l \in Lives, l \notin Up, life[n] # "new",
         setting' = setting,
         elect' = [elect EXCEPT ![n] = elect[n]], io' = [io EXCEPT ![n] = io[n]],
         beat' = [beat EXCEPT ![n] = beat[n]], haunted' = [haunted EXCEPT ![n] = haunted[n]],
         life' = [life EXCEPT ![n] = l],
         RecFrame(n), AliveFrame(n), LateFrame(n),
         l # "closing" => elect[n].pc = "exited" /\ beat[n].pc = "exited",
         ~(setting.faults \/ setting.overlap) /\ ~setting.veto /\ record'[Domain(n)].holder = Key(n) =>
            l = "closing" /\ Owns(elect[n])
  PROVE  IInv'
<1>1. elect[n] \in ElectType /\ io[n] \in WriteType /\ beat[n] \in BeatType /\ haunted[n] \in BOOLEAN
  BY NodeFacts
<1>2. Local(n, life[n], elect[n], io[n], beat[n], haunted[n], record[Domain(n)], alive[Key(n)], late)
  BY NodeInvs
<1>3. Local(n, l, elect[n], io[n], beat[n], haunted[n], record'[Domain(n)], alive'[Key(n)], late')
  BY <1>2 DEF Local
<1> QED BY <1>1, <1>3, NodeStep

\* Close (elect.go:199) is called.
LEMMA CloseStep ==
  ASSUME IInv, NEW n \in Nodes, Close(n)
  PROVE  IInv'
<1>1. /\ setting' = setting /\ life' = [life EXCEPT ![n] = "closing"]
      /\ elect' = [elect EXCEPT ![n] = elect[n]] /\ io' = [io EXCEPT ![n] = io[n]]
      /\ beat' = [beat EXCEPT ![n] = beat[n]] /\ haunted' = [haunted EXCEPT ![n] = haunted[n]]
      /\ record' = record /\ alive' = alive /\ late' = late /\ life[n] = "running"
  BY NodeFacts DEF Close
<1>2. RecFrame(n) /\ AliveFrame(n) /\ LateFrame(n)
  BY <1>1, StillFrame
<1>3. Local(n, life[n], elect[n], io[n], beat[n], haunted[n], record[Domain(n)], alive[Key(n)], late)
  BY NodeInvs
<1>4. ~(setting.faults \/ setting.overlap) /\ ~setting.veto /\ record'[Domain(n)].holder = Key(n) => Owns(elect[n])
  BY <1>1, <1>3 DEF Local
<1>5. "closing" \in Lives /\ "closing" \notin Up
  BY DEF Lives, Up
<1> QED BY <1>1, <1>2, <1>4, <1>5, DownStep

\* A worker sees the context of Close cancelled and returns.
LEMMA ExitStep ==
  ASSUME IInv, NEW n \in Nodes, Exit(n)
  PROVE  IInv'
<1>1. /\ UNCHANGED <<setting, record, alive, late, life, io, haunted>> /\ life[n] = "closing"
      /\ late' = late /\ alive' = alive
      /\ life' = [life EXCEPT ![n] = life[n]] /\ io' = [io EXCEPT ![n] = io[n]] /\ io[n] \in WriteType
  BY NodeFacts DEF Exit
<1>2. "closing" \notin Up
  BY DEF Up
<1>3. NewTicker \in Ticker
  BY NewWorkers
<1>4. Local(n, life[n], elect[n], io[n], beat[n], haunted[n], record[Domain(n)], alive[Key(n)], late)
  BY NodeInvs
<1>5. AliveFrame(n) /\ LateKeeps(n)
  BY <1>1, StillFrame
<1>6. CASE elect[n].pc = "wait" /\ elect' = [elect EXCEPT ![n] = Stopped(elect[n])] /\ UNCHANGED beat
  <2>. DEFINE w == Stopped(elect[n])
  <2>1. w \in ElectType /\ w.pc = "exited" /\ w.leaderFlag = elect[n].leaderFlag
    BY <1>3, NodeFacts DEF Stopped, ElectType
  <2>2. elect' = [elect EXCEPT ![n] = w]
    BY <1>6
  <2>. HIDE DEF w
  <2>3. WorkerOK(w) /\ IOOK(n, w, io[n])
    BY <1>4, <2>1 DEF WorkerOK, IOOK, Local
  <2>4. ~(setting.faults \/ setting.overlap) /\ ~setting.veto /\ record[Domain(n)].holder = Key(n) => Owns(w)
    BY <1>1, <1>4, <1>6, <2>1 DEF Owns, Local
  <2> QED BY <1>1, <1>2, <1>5, <1>6, <2>1, <2>2, <2>3, <2>4, ElectStep
<1>7. CASE beat[n].pc = "wait" /\ beat' = [beat EXCEPT ![n] = Stopped(beat[n])] /\ UNCHANGED elect
  <2>. DEFINE b == Stopped(beat[n])
  <2>1. b \in BeatType /\ b.pc = "exited"
    BY <1>3, NodeFacts DEF Stopped, BeatType
  <2>2. beat' = [beat EXCEPT ![n] = b]
    BY <1>7
  <2>. HIDE DEF b
  <2> QED BY <1>1, <1>2, <1>5, <1>7, <2>1, <2>2, BeatStep
<1> QED BY <1>6, <1>7 DEF Exit

\* Close deletes the record, if the flag says it is its own.
LEMMA DeregisterLeaderStep ==
  ASSUME IInv, NEW n \in Nodes, DeregisterLeader(n)
  PROVE  IInv'
<1>. DEFINE x == Write("delete", n, NoRecord, Fresh(n))
<1>1. /\ setting' = setting /\ life' = [life EXCEPT ![n] = "deregistering"]
      /\ elect' = [elect EXCEPT ![n] = elect[n]] /\ io' = [io EXCEPT ![n] = io[n]]
      /\ beat' = [beat EXCEPT ![n] = beat[n]] /\ haunted' = [haunted EXCEPT ![n] = haunted[n]]
      /\ alive' = alive /\ life[n] = "closing" /\ elect[n].pc = "exited" /\ beat[n].pc = "exited"
  BY NodeFacts DEF DeregisterLeader, WorkersDone
<1>2. \/ /\ elect[n].leaderFlag
         /\ record' = [record EXCEPT ![Domain(n)] = Apply(@, x)]
         /\ late' = late
      \/ /\ elect[n].leaderFlag /\ setting.faults
         /\ Abandon({x})
         /\ record' = record
      \/ /\ ~elect[n].leaderFlag
         /\ record' = record /\ late' = late
  BY DEF DeregisterLeader
<1>3. x \in WriteType /\ x.op = "delete" /\ x.node = n
  BY StoreTypes, WriteFields DEF Ops
<1>. HIDE DEF x
<1>4. Local(n, life[n], elect[n], io[n], beat[n], haunted[n], record[Domain(n)], alive[Key(n)], late)
  BY NodeInvs
<1>5. n \in setting.members /\ GoodWrite(x)
  BY <1>1, <1>3, <1>4 DEF Local, GoodWrite
<1>6. AliveFrame(n)
  BY <1>1, StillFrame
<1>7. RecFrame(n)
  <2>1. CASE record' = record
    BY <2>1, StillFrame
  <2>2. CASE record' = [record EXCEPT ![Domain(n)] = Apply(@, x)]
    BY <1>3, <1>5, <2>2, ApplyFrame
  <2> QED BY <1>2, <2>1, <2>2
<1>8. LateFrame(n)
  <2>1. CASE late' = late
    BY <2>1, StillFrame
  <2>2. CASE setting.faults /\ Abandon({x})
    <3>. DEFINE ws == {x}
    <3>1. ws \in SUBSET WriteType /\ IsFiniteSet(ws) /\ \A y \in ws : GoodWrite(y) /\ y.node = n
      BY <1>3, <1>5, FS_Singleton
    <3>2. Abandon(ws)
      BY <2>2
    <3>. HIDE DEF ws
    <3> QED BY <2>2, <3>1, <3>2, AbandonFrame
  <2> QED BY <1>2, <2>1, <2>2
<1>9. ~(setting.faults \/ setting.overlap) /\ ~setting.veto => record'[Domain(n)].holder # Key(n)
  <2> SUFFICES ASSUME ~(setting.faults \/ setting.overlap), ~setting.veto
               PROVE  record'[Domain(n)].holder # Key(n)
    OBVIOUS
  <2>1. CASE elect[n].leaderFlag
    <3>1. record'[Domain(n)] = Apply(record[Domain(n)], x)
      BY <1>2, <2>1, ApplyHere
    <3>2. record[Domain(n)] \in RecordType /\ Key(n) \in Keys /\ Key(n) # NoKey
      BY NodeFacts, SettingFacts, StoreAssumption
    <3> QED BY <1>3, <3>1, <3>2, ApplyCases
  <2>2. CASE ~elect[n].leaderFlag
    BY <1>1, <1>2, <1>4, <1>5, <2>2 DEF Local, Owns
  <2> QED BY <2>1, <2>2
<1>10. "deregistering" \in Lives /\ "deregistering" \notin Up
  BY DEF Lives, Up
<1> QED BY <1>1, <1>6, <1>7, <1>8, <1>9, <1>10, DownStep

\* Close deletes the heartbeat.
LEMMA DeregisterHeartbeatStep ==
  ASSUME IInv, NEW n \in Nodes, DeregisterHeartbeat(n)
  PROVE  IInv'
<1>. DEFINE x == Write("quiet", n, NoRecord, Fresh(n))
<1>1. /\ setting' = setting /\ life' = [life EXCEPT ![n] = "closed"]
      /\ elect' = [elect EXCEPT ![n] = elect[n]] /\ io' = [io EXCEPT ![n] = io[n]]
      /\ beat' = [beat EXCEPT ![n] = beat[n]] /\ haunted' = [haunted EXCEPT ![n] = haunted[n]]
      /\ record' = record /\ life[n] = "deregistering"
  BY NodeFacts DEF DeregisterHeartbeat
<1>2. \/ /\ setting.keepHeartbeat
         /\ alive' = [alive EXCEPT ![Key(n)] = ApplyBeat(@, x)]
         /\ late' = late
      \/ /\ setting.keepHeartbeat /\ setting.faults
         /\ Abandon({x})
         /\ alive' = alive
      \/ alive' = alive /\ late' = late
  BY DEF DeregisterHeartbeat
<1>3. x \in WriteType /\ x.op = "quiet" /\ x.node = n
  BY StoreTypes, WriteFields DEF Ops
<1>. HIDE DEF x
<1>4. Local(n, life[n], elect[n], io[n], beat[n], haunted[n], record[Domain(n)], alive[Key(n)], late)
  BY NodeInvs
<1>5. n \in setting.members /\ GoodWrite(x)
  BY <1>1, <1>3, <1>4 DEF Local, GoodWrite
<1>6. RecFrame(n)
  BY <1>1, StillFrame
<1>7. AliveFrame(n)
  <2>1. CASE alive' = alive
    BY <2>1, StillFrame
  <2>2. CASE setting.keepHeartbeat /\ alive' = [alive EXCEPT ![Key(n)] = ApplyBeat(@, x)]
    BY <1>3, <1>5, <2>2, BeatFrame
  <2> QED BY <1>2, <2>1, <2>2
<1>8. LateFrame(n)
  <2>1. CASE late' = late
    BY <2>1, StillFrame
  <2>2. CASE setting.faults /\ Abandon({x})
    <3>. DEFINE ws == {x}
    <3>1. ws \in SUBSET WriteType /\ IsFiniteSet(ws) /\ \A y \in ws : GoodWrite(y) /\ y.node = n
      BY <1>3, <1>5, FS_Singleton
    <3>2. Abandon(ws)
      BY <2>2
    <3>. HIDE DEF ws
    <3> QED BY <2>2, <3>1, <3>2, AbandonFrame
  <2> QED BY <1>2, <2>1, <2>2
<1>9. ~(setting.faults \/ setting.overlap) /\ ~setting.veto => record'[Domain(n)].holder # Key(n)
  BY <1>1, <1>4, <1>5 DEF Local, Up
<1>10. /\ "closed" \in Lives /\ "closed" \notin Up
       /\ elect[n].pc = "exited" /\ beat[n].pc = "exited"
  BY <1>1, <1>4 DEF Lives, Up, Local
<1> QED BY <1>1, <1>6, <1>7, <1>8, <1>9, <1>10, DownStep

\* What a life that is being closed has still to write.
LEMMA RemainingGood ==
  ASSUME IInv, NEW n \in Nodes, n \in setting.members
  PROVE  /\ Remaining(n) \in SUBSET WriteType /\ IsFiniteSet(Remaining(n))
         /\ \A x \in Remaining(n) : GoodWrite(x) /\ x.node = n
<1>. DEFINE all == {"insert", "renew", "beat", "delete", "quiet"}
            last == {Write(op, n, NoRecord, Fresh(n)) : op \in all}
            now == IF beat[n].pc = "set" THEN {BeatWrite(n)} ELSE {}
<1>1. last \in SUBSET WriteType /\ \A x \in last : GoodWrite(x) /\ x.node = n
  <2> SUFFICES ASSUME NEW op \in all
               PROVE  LET x == Write(op, n, NoRecord, Fresh(n)) IN
                      x \in WriteType /\ GoodWrite(x) /\ x.node = n
    OBVIOUS
  <2>. DEFINE x == Write(op, n, NoRecord, Fresh(n))
  <2>1. x \in WriteType /\ x.op = op /\ x.node = n /\ x.left = Fresh(n)
    BY StoreTypes, WriteFields DEF Ops
  <2>. HIDE DEF x
  <2>2. Fresh(n) \in Nat /\ Fresh(n) >= UnhealthyTime
    BY StoreTypes
  <2>3. GoodWrite(x)
    BY <2>1, <2>2, Times DEF GoodWrite
  <2> QED BY <2>1, <2>3 DEF x
<1>2. IsFiniteSet(last)
  <2>. DEFINE w(op) == Write(op, n, NoRecord, Fresh(n))
  <2>1. last = ((({w("insert")} \cup {w("renew")}) \cup {w("beat")}) \cup {w("delete")}) \cup {w("quiet")}
    OBVIOUS
  <2>. HIDE DEF w, last
  <2>2. IsFiniteSet({w("insert")} \cup {w("renew")})
    BY FS_Singleton, FS_AddElement
  <2>3. IsFiniteSet(({w("insert")} \cup {w("renew")}) \cup {w("beat")})
    BY <2>2, FS_AddElement
  <2>4. IsFiniteSet((({w("insert")} \cup {w("renew")}) \cup {w("beat")}) \cup {w("delete")})
    BY <2>3, FS_AddElement
  <2> QED BY <2>1, <2>4, FS_AddElement
<1>3. now \in SUBSET WriteType /\ IsFiniteSet(now) /\ \A x \in now : GoodWrite(x) /\ x.node = n
  BY BeatWriteGood, FS_EmptySet, FS_Singleton
<1>4. Remaining(n) \subseteq (Pending(n) \cup last) \cup now
  BY DEF Remaining
<1>. HIDE DEF last, now
<1>5. IsFiniteSet((Pending(n) \cup last) \cup now)
  BY <1>2, <1>3, PendingGood, FS_Union
<1>6. IsFiniteSet(Remaining(n))
  BY <1>4, <1>5, FS_Subset
<1> QED BY <1>1, <1>3, <1>4, <1>6, PendingGood

\* EnableElection starts the workers, with nothing claimed.
LEMMA StartStep ==
  ASSUME IInv, NEW n \in Nodes, Start(n)
  PROVE  IInv'
<1>. DEFINE w == [NoElect EXCEPT !.pc = "wait"]
            b == IF setting.keepHeartbeat THEN [NoBeat EXCEPT !.pc = "wait"] ELSE NoBeat
            h == \E x \in late' : x.node = n /\ x.op \in {"delete", "quiet"}
<1>1. /\ life' = [life EXCEPT ![n] = "starting"]
      /\ \/ late' = late /\ life[n] \in {"new", "crashed", "closed"}
         \/ /\ setting.overlap
            /\ Cardinality(late \cup Remaining(n)) <= setting.maxLate
            /\ late' = late \cup Remaining(n)
      /\ setting' = setting /\ record' = record /\ alive' = alive
      /\ elect' = [elect EXCEPT ![n] = w] /\ beat' = [beat EXCEPT ![n] = b]
      /\ haunted' = [haunted EXCEPT ![n] = h] /\ io' = [io EXCEPT ![n] = NoIO(n)]
      /\ n \in setting.members /\ NoIO(n) \in WriteType /\ NoIO(n).node = n
  BY NodeFacts, StoreTypes DEF Start
<1>2. "starting" \in Lives /\ h \in BOOLEAN /\ "starting" \in Up
  BY DEF Lives, Up
<1>3. w \in ElectType /\ ~w.leaderFlag /\ w.pc = "wait" /\ w.reply = "wait" /\ w.spent = 0
  BY NewWorkers DEF NoElect
<1>4. /\ b \in BeatType /\ ~b.ok /\ b.spent = 0 /\ b.pc \in {"wait", "exited"}
      /\ ~setting.keepHeartbeat => b.pc = "exited"
  BY NewWorkers DEF NoBeat
<1>5. ~h => \A x \in late' : x.node = n => x.op \notin {"delete", "quiet"}
  BY <1>1
<1>. HIDE DEF w, b, h
<1>6. RecFrame(n) /\ AliveFrame(n) /\ LateFrame(n)
  <2>1. CASE late' = late
    BY <1>1, <2>1, StillFrame
  <2>2. CASE late' # late
    <3>1. LateOK(late')
      <4>1. IsFiniteSet(Remaining(n)) /\ Cardinality(late \cup Remaining(n)) <= setting.maxLate
            /\ late' = late \cup Remaining(n)
        BY <1>1, <2>2, RemainingGood
      <4> QED BY <4>1, MoreLate
    <3>2. LateFrame(n)
      BY <1>1, <2>2, <3>1, RemainingGood, NodeFacts DEF LateFrame, IInv, Writes
    <3> QED BY <1>1, <3>2, StillFrame
  <2> QED BY <2>1, <2>2
<1>7. Local(n, life[n], elect[n], io[n], beat[n], haunted[n], record[Domain(n)], alive[Key(n)], late)
  BY NodeInvs
<1>8. /\ WorkerOK(w) /\ IOOK(n, w, NoIO(n)) /\ LeaseOK(Key(n), w, record'[Domain(n)])
      /\ HeartOK(Domain(n), b, alive'[Key(n)])
  BY <1>1, <1>3, <1>4 DEF WorkerOK, IOOK, LeaseOK, HeartOK
<1>9. ~(setting.faults \/ setting.overlap) /\ ~setting.veto => record'[Domain(n)].holder # Key(n)
  BY <1>1, <1>7 DEF Local, Up
<1>10. Local(n, "starting", w, NoIO(n), b, h, record'[Domain(n)], alive'[Key(n)], late')
  BY <1>1, <1>2, <1>4, <1>5, <1>8, <1>9 DEF Local
<1> QED BY <1>1, <1>2, <1>3, <1>4, <1>6, <1>10, NodeStep

\* A node crashes: what its workers have sent may be executed late.
LEMMA CrashStep ==
  ASSUME IInv, NEW n \in Nodes, Crash(n)
  PROVE  IInv'
<1>1. /\ life' = [life EXCEPT ![n] = "crashed"] /\ setting.faults
      /\ setting' = setting /\ record' = record /\ alive' = alive
      /\ elect' = [elect EXCEPT ![n] = NoElect] /\ beat' = [beat EXCEPT ![n] = NoBeat]
      /\ haunted' = [haunted EXCEPT ![n] = FALSE] /\ io' = [io EXCEPT ![n] = NoIO(n)]
      /\ life[n] # "new"
  BY DEF Crash
<1>2. PICK ws \in SUBSET (Pending(n) \cup IF beat[n].pc = "set" THEN {BeatWrite(n)} ELSE {}) : Abandon(ws)
  BY DEF Crash
<1>3. ws \in SUBSET WriteType /\ IsFiniteSet(ws) /\ \A x \in ws : GoodWrite(x) /\ x.node = n
  <2>1. ws \in SUBSET WriteType /\ \A x \in ws : GoodWrite(x) /\ x.node = n
    BY <1>2, PendingGood, BeatWriteGood
  <2>2. IsFiniteSet(IF beat[n].pc = "set" THEN {BeatWrite(n)} ELSE {})
    BY FS_EmptySet, FS_Singleton
  <2>3. IsFiniteSet(Pending(n) \cup IF beat[n].pc = "set" THEN {BeatWrite(n)} ELSE {})
    BY <2>2, PendingGood, FS_Union
  <2> QED BY <1>2, <2>1, <2>3, FS_Subset
<1>4. LateFrame(n)
  BY <1>1, <1>2, <1>3, AbandonFrame
<1>5. RecFrame(n) /\ AliveFrame(n)
  BY <1>1, StillFrame
<1>6. /\ NoElect \in ElectType /\ NoElect.pc = "exited" /\ NoBeat \in BeatType /\ NoBeat.pc = "exited"
      /\ NoIO(n) \in WriteType /\ NoIO(n).node = n /\ WorkerOK(NoElect)
  BY NewWorkers, StoreTypes DEF NoElect, NoBeat, WorkerOK
<1>7. IOOK(n, NoElect, NoIO(n))
  BY <1>6 DEF IOOK
<1>8. "crashed" \in Lives /\ "crashed" \notin Up /\ FALSE \in BOOLEAN
  BY DEF Lives, Up
<1>9. Local(n, life[n], elect[n], io[n], beat[n], haunted[n], record[Domain(n)], alive[Key(n)], late)
  BY NodeInvs
<1>10. Local(n, "crashed", NoElect, NoIO(n), NoBeat, FALSE, record'[Domain(n)], alive'[Key(n)], late')
  BY <1>1, <1>6, <1>7, <1>8, <1>9 DEF Local
<1> QED BY <1>1, <1>4, <1>5, <1>6, <1>8, <1>10, NodeStep

\* A record written late, with the expiry time of its round, is still a lease
\* that lasts.
LEMMA LeaseRenewed ==
  ASSUME NEW k, NEW w \in ElectType, NEW r \in RecordType, NEW s \in RecordType, LeaseOK(k, w, r),
         s.holder = k, s.left >= UnhealthyTime - Drift
  PROVE  LeaseOK(k, w, s)
<1>1. /\ w.timer.next \in 1 .. Period /\ w.timer.due \in BOOLEAN /\ w.spent \in 0 .. RoundTime
      /\ s.left \in Int
  BY DEF ElectType, Ticker, RecordType, Lefts
<1> QED BY <1>1, Times DEF LeaseOK

\* The same for a heartbeat.
LEMMA HeartRenewed ==
  ASSUME NEW d, NEW b \in BeatType, NEW a, NEW z \in AliveType, HeartOK(d, b, a),
         z.domain = d, z.left >= UnhealthyTime - Drift
  PROVE  HeartOK(d, b, z)
<1>1. /\ b.timer.next \in 1 .. Period /\ b.timer.due \in BOOLEAN /\ b.spent \in 0 .. RoundTime
      /\ z.left \in Int
  BY DEF BeatType, Ticker, AliveType, Lefts
<1> QED BY <1>1, Times DEF HeartOK

\* A confirmed heartbeat has not expired for any clock.
LEMMA HeartLasts ==
  ASSUME NEW d, NEW b \in BeatType, NEW a \in AliveType, HeartOK(d, b, a), b.ok, Timely
  PROVE  a.domain = d /\ a.left >= MaxSkew
<1>1. /\ b.timer.next \in 1 .. Period /\ b.timer.due \in BOOLEAN /\ b.spent \in 0 .. RoundTime
      /\ a.left \in Int
  BY DEF BeatType, Ticker, AliveType, Lefts
<1> QED BY <1>1, Times DEF HeartOK

\* A heartbeat survives every change that leaves an unexpired document alone.
LEMMA HeartFrame ==
  ASSUME NEW d, NEW b \in BeatType, NEW a \in AliveType, NEW z, HeartOK(d, b, a),
         a.left >= MaxSkew => z = a
  PROVE  HeartOK(d, b, z)
<1>1. CASE b.ok /\ Timely
  BY <1>1, HeartLasts
<1>2. CASE ~(b.ok /\ Timely)
  BY <1>2 DEF HeartOK
<1> QED BY <1>1, <1>2

\* A late write is executed or lost: it may set the lease of a leader back to
\* an older expiry time, and that one still lasts.
LEMMA LateWriteStep ==
  ASSUME IInv, NEW x \in late, LateWrite(x)
  PROVE  IInv'
<1>. DEFINE n == x.node
<1>1. /\ GoodWrite(x) /\ n \in setting.members /\ n \in Nodes /\ x \in WriteType /\ x.left \in Int
      /\ setting.faults \/ setting.overlap
  <2>1. GoodWrite(x) /\ x \in WriteType /\ (setting.faults \/ setting.overlap)
    BY SettingFacts DEF IInv, TypeOK, Writes, Clean
  <2> QED BY <2>1 DEF GoodWrite, WriteType, Lefts
<1>2. /\ setting' = setting /\ life' = [life EXCEPT ![n] = life[n]]
      /\ elect' = [elect EXCEPT ![n] = elect[n]] /\ io' = [io EXCEPT ![n] = io[n]]
      /\ beat' = [beat EXCEPT ![n] = beat[n]] /\ haunted' = [haunted EXCEPT ![n] = haunted[n]]
      /\ late' = late \ {x}
  BY <1>1, NodeFacts DEF LateWrite
<1>3. /\ life[n] \in Lives /\ elect[n] \in ElectType /\ io[n] \in WriteType /\ beat[n] \in BeatType
      /\ haunted[n] \in BOOLEAN /\ record[Domain(n)] \in RecordType /\ alive[Key(n)] \in AliveType
      /\ late \subseteq WriteType /\ Key(n) \in Keys /\ Domain(n) \in Domains
  BY <1>1, NodeFacts, SettingFacts
<1>4. LateFrame(n) /\ Drift = LateTime
  <2>1. LateOK(late) /\ late # {}
    BY DEF IInv, Writes
  <2>2. IsFiniteSet(late \ {x})
    BY <2>1, FS_Subset DEF LateOK
  <2> QED BY <1>1, <1>2, <1>3, <2>1, <2>2 DEF LateFrame, LateOK, IInv, Writes
<1>5. Local(n, life[n], elect[n], io[n], beat[n], haunted[n], record[Domain(n)], alive[Key(n)], late)
  BY <1>1, NodeInvs
<1>6. /\ x.op \in {"insert", "take", "renew", "beat"} => x.left >= UnhealthyTime - Drift
      /\ x.op = "take" => x.old.left < MaxSkew
      /\ life[n] \in Up /\ ~haunted[n] => x.op \notin {"delete", "quiet"}
  BY <1>1, <1>4, <1>5 DEF GoodWrite, Local
<1>7. CASE record' = record /\ alive' = alive
  <2>1. RecFrame(n) /\ AliveFrame(n)
    BY <1>1, <1>7, StillFrame
  <2>2. Local(n, life[n], elect[n], io[n], beat[n], haunted[n], record'[Domain(n)], alive'[Key(n)], late')
    BY <1>2, <1>5, <1>7 DEF Local
  <2>. HIDE DEF n
  <2> QED BY <1>1, <1>2, <1>3, <1>4, <2>1, <2>2, NodeStep
<1>8. CASE /\ x.op \in {"insert", "take", "renew", "delete"}
           /\ record' = [record EXCEPT ![Domain(n)] = Apply(@, x)]
           /\ alive' = alive
  <2>1. RecFrame(n)
    BY <1>1, <1>6, <1>8, ApplyFrame
  <2>2. AliveFrame(n)
    BY <1>1, <1>8, StillFrame
  <2>3. record'[Domain(n)] = Apply(record[Domain(n)], x)
    BY <1>1, <1>8, ApplyHere
  <2>. DEFINE r == record[Domain(n)]
              s == record'[Domain(n)]
  <2>4. /\ s \in RecordType
        /\ s = r \/ x.op = "delete" \/ (s.holder = Key(n) /\ s.left = x.left)
    BY <1>1, <1>3, <2>3, ApplyCases
  <2>5. life[n] \in Up /\ ~haunted[n] => LeaseOK(Key(n), elect[n], s)
    BY <1>3, <1>5, <1>6, <1>8, <2>4, LeaseRenewed DEF Local
  <2>6. Local(n, life[n], elect[n], io[n], beat[n], haunted[n], s, alive'[Key(n)], late')
    BY <1>1, <1>2, <1>5, <1>8, <2>5 DEF Local
  <2>. HIDE DEF n
  <2> QED BY <1>1, <1>2, <1>3, <1>4, <2>1, <2>2, <2>6, NodeStep
<1>9. CASE /\ x.op \in {"beat", "quiet"}
           /\ alive' = [alive EXCEPT ![Key(n)] = ApplyBeat(@, x)]
           /\ record' = record
  <2>1. RecFrame(n)
    BY <1>1, <1>9, StillFrame
  <2>. DEFINE a == alive[Key(n)]
              z == alive'[Key(n)]
  <2>2. AliveFrame(n) /\ (x.op = "beat" => z.domain = Domain(n) /\ z.left = x.left)
    BY <1>1, <1>9, BeatFrame
  <2>3. z \in AliveType
    BY <1>3, <2>2 DEF AliveFrame
  <2>4. KeysApart /\ life[n] \in Up /\ ~haunted[n] => HeartOK(Domain(n), beat[n], z)
    BY <1>3, <1>5, <1>6, <1>9, <2>2, <2>3, HeartRenewed DEF Local
  <2>5. Local(n, life[n], elect[n], io[n], beat[n], haunted[n], record'[Domain(n)], z, late')
    BY <1>1, <1>2, <1>5, <1>9, <2>4 DEF Local
  <2>. HIDE DEF n
  <2> QED BY <1>1, <1>2, <1>3, <1>4, <2>1, <2>2, <2>5, NodeStep
<1> QED BY <1>7, <1>8, <1>9 DEF LateWrite

\* The TTL index removes what has expired for the clock of the server, and
\* with it for every clock.
LEMMA TTLMonitorStep ==
  ASSUME IInv, TTLMonitor
  PROVE  IInv'
<1>1. UNCHANGED <<setting, late, life, elect, io, beat, haunted>>
  BY DEF TTLMonitor
<1>2. record \in [Domains -> RecordType] /\ alive \in [Keys -> AliveType]
  BY DEF IInv, TypeOK, AliveType
<1>3. /\ record' \in [Domains -> RecordType]
      /\ \A d \in Domains : record'[d] = record[d] \/ (record[d].left = Over /\ record'[d] = NoRecord)
  BY <1>1, <1>2, StoreTypes DEF TTLMonitor
<1>4. /\ alive' \in [Keys -> AliveType]
      /\ \A k \in Keys : alive'[k] = alive[k] \/ (alive[k].left = Over /\ alive'[k] = NoAlive)
  BY <1>1, <1>2, StoreTypes DEF TTLMonitor
<1>5. TypeOK'
  BY <1>1, <1>3, <1>4 DEF IInv, TypeOK, AliveType
<1>6. ~(Over >= MaxSkew)
  BY Times DEF Over
<1>7. ASSUME NEW m \in Nodes
      PROVE  Local(m, life[m], elect[m], io[m], beat[m], haunted[m],
                   record'[Domain(m)], alive'[Key(m)], late)
  <2>1. Local(m, life[m], elect[m], io[m], beat[m], haunted[m], record[Domain(m)], alive[Key(m)], late)
    BY NodeInvs
  <2>2. /\ Key(m) \in Keys /\ Domain(m) \in Domains /\ elect[m] \in ElectType /\ beat[m] \in BeatType
        /\ record[Domain(m)] \in RecordType /\ alive[Key(m)] \in AliveType
    BY NodeFacts, SettingFacts
  <2>3. life[m] \in Up /\ ~haunted[m] => LeaseOK(Key(m), elect[m], record'[Domain(m)])
    BY <1>3, <1>6, <2>1, <2>2, LeaseFrame DEF Local
  <2>4. KeysApart /\ life[m] \in Up /\ ~haunted[m] => HeartOK(Domain(m), beat[m], alive'[Key(m)])
    BY <1>4, <1>6, <2>1, <2>2, HeartFrame DEF Local
  <2>5. record'[Domain(m)].holder = Key(m) => record[Domain(m)].holder = Key(m)
    <3>1. NoRecord.holder = NoKey /\ Key(m) # NoKey
      BY <2>2, StoreAssumption DEF NoRecord
    <3> QED BY <1>3, <2>2, <3>1
  <2> QED BY <2>1, <2>3, <2>4, <2>5 DEF Local
<1>8. ~(setting.faults \/ setting.overlap) => late' = {} /\ (~setting.keepHeartbeat => \A k \in Keys : alive'[k] = NoAlive)
  BY <1>1, <1>4 DEF IInv, Clean
<1>9. LateOK(late') /\ \A x \in late' : GoodWrite(x)
  BY <1>1 DEF IInv, Writes
<1>10. setting' = setting /\ \A m \in Nodes : Local(m, life'[m], elect'[m], io'[m], beat'[m], haunted'[m],
                            record'[Domain(m)], alive'[Key(m)], late')
  BY <1>1, <1>7
<1> QED BY <1>5, <1>8, <1>9, <1>10, Assemble

\* One unit of time on expiry times, documents and writes.
LEMMA OlderFields ==
  /\ \A l \in Lefts : /\ Older(l) \in Lefts /\ Older(l) <= l /\ Older(l) >= l - 1
                      /\ l >= 0 => Older(l) = l - 1
  /\ \A r \in RecordType : /\ OlderRecord(r) \in RecordType /\ OlderRecord(r).holder = r.holder
                           /\ OlderRecord(r).left = Older(r.left)
  /\ \A a \in AliveType : /\ OlderRecord(a) \in AliveType /\ OlderRecord(a).domain = a.domain
                          /\ OlderRecord(a).left = Older(a.left)
  /\ \A x \in WriteType : /\ OlderWrite(x) \in WriteType /\ OlderWrite(x).op = x.op
                          /\ OlderWrite(x).node = x.node /\ OlderWrite(x).left = Older(x.left)
                          /\ OlderWrite(x).old = OlderRecord(x.old)
  /\ OlderRecord(NoAlive) = NoAlive
<1>1. \A l \in Lefts : /\ Older(l) \in Lefts /\ Older(l) <= l /\ Older(l) >= l - 1
                       /\ l >= 0 => Older(l) = l - 1
  BY Times DEF Lefts, Older, Over
<1>2. \A r \in RecordType : /\ OlderRecord(r) \in RecordType /\ OlderRecord(r).holder = r.holder
                            /\ OlderRecord(r).left = Older(r.left)
  BY <1>1 DEF OlderRecord, RecordType
<1>3. \A a \in AliveType : /\ OlderRecord(a) \in AliveType /\ OlderRecord(a).domain = a.domain
                           /\ OlderRecord(a).left = Older(a.left)
  BY <1>1 DEF OlderRecord, AliveType
<1>4. \A x \in WriteType : /\ OlderWrite(x) \in WriteType /\ OlderWrite(x).op = x.op
                           /\ OlderWrite(x).node = x.node /\ OlderWrite(x).left = Older(x.left)
                           /\ OlderWrite(x).old = OlderRecord(x.old)
  <2> SUFFICES ASSUME NEW x \in WriteType
               PROVE  /\ OlderWrite(x) \in WriteType /\ OlderWrite(x).op = x.op
                      /\ OlderWrite(x).node = x.node /\ OlderWrite(x).left = Older(x.left)
                      /\ OlderWrite(x).old = OlderRecord(x.old)
    OBVIOUS
  <2>1. Older(x.left) \in Lefts /\ OlderRecord(x.old) \in RecordType
    BY <1>1, <1>2 DEF WriteType
  <2>2. OlderWrite(x) = [x EXCEPT !.left = Older(x.left), !.old = OlderRecord(x.old)]
    BY DEF OlderWrite, WriteType
  <2> QED BY <2>1, <2>2 DEF WriteType
<1>5. OlderRecord(NoAlive) = NoAlive
  BY DEF OlderRecord, NoAlive, Older, Over
<1> QED BY <1>1, <1>2, <1>3, <1>4, <1>5

\* Time keeps the election worker and its pending write well formed.
LEMMA AgedWorker ==
  ASSUME NEW n, NEW w \in ElectType, NEW i \in WriteType, NEW l, MayAge(w, l),
         WorkerOK(w), IOOK(n, w, i)
  PROVE  WorkerOK(Age(w)) /\ IOOK(n, Age(w), OlderWrite(i))
<1>. DEFINE v == Age(w)
            j == OlderWrite(i)
<1>1. /\ v \in ElectType /\ v.leaderFlag = w.leaderFlag
      /\ v.pc = w.pc /\ v.reply = w.reply
      /\ w.pc # "exited" => v.timer = Advance(w.timer)
      /\ w.pc \notin {"exited", "wait"} => w.spent < RoundTime /\ v.spent = w.spent + 1
      /\ w.pc = "wait" => v.spent = w.spent
  BY AgedElect
<1>2. w.spent \in Nat /\ w.timer \in Ticker /\ w.timer.next \in Nat
  BY DEF ElectType, Ticker
<1>3. ~Advance(w.timer).due => Advance(w.timer).next = w.timer.next - 1 /\ ~w.timer.due
  BY <1>2, AgedTicker
<1>4. /\ j.op = i.op /\ j.node = i.node /\ j.left \in Int /\ j.left >= i.left - 1 /\ i.left \in Int
      /\ j.old.left \in Int /\ i.old.left \in Int /\ j.old.left <= i.old.left
  BY OlderFields DEF WriteType, RecordType, Lefts
<1>. HIDE DEF v, j
<1>5. WorkerOK(v)
  BY <1>1, <1>2, <1>3, Times DEF WorkerOK
<1>6. IOOK(n, v, j)
  BY <1>1, <1>2, <1>4, Times DEF IOOK
<1> QED BY <1>5, <1>6 DEF v, j

\* Time keeps a lease: it does not pass a worker whose tick is due, and a
\* round is over within RoundTime.
LEMMA AgedLease ==
  ASSUME NEW k, NEW w \in ElectType, NEW r \in RecordType, NEW l, MayAge(w, l), l # "closing",
         WorkerOK(w), LeaseOK(k, w, r)
  PROVE  LeaseOK(k, Age(w), OlderRecord(r))
<1>. DEFINE v == Age(w)
            s == OlderRecord(r)
<1>1. /\ v.leaderFlag = w.leaderFlag /\ v.adopted = w.adopted /\ v.pc = w.pc /\ v.reply = w.reply
      /\ v.timer = Advance(w.timer)
      /\ w.pc # "wait" => w.spent < RoundTime /\ v.spent = w.spent + 1
      /\ w.pc = "wait" => v.spent = w.spent
  BY AgedElect DEF LeaseOK
<1>2. /\ w.spent \in Nat /\ w.timer \in Ticker /\ w.timer.next \in Nat /\ w.timer.next >= 1
      /\ w.timer.due \in BOOLEAN /\ w.leaderFlag \in BOOLEAN
  BY DEF ElectType, Ticker
<1>3. /\ Advance(w.timer).due \in BOOLEAN
      /\ ~Advance(w.timer).due => Advance(w.timer).next = w.timer.next - 1 /\ ~w.timer.due
  BY <1>2, AgedTicker DEF Ticker
<1>4. s.holder = r.holder /\ s.left \in Int /\ r.left \in Int /\ s.left >= r.left - 1
  BY OlderFields DEF RecordType, Lefts
<1>5. w.pc = "wait" => ~w.timer.due
  BY DEF MayAge, TickDue
<1>. HIDE DEF v, s
<1>6. Timely /\ w.pc = "write" /\ w.reply = "ok" =>
        s.holder = k /\ s.left + v.spent >= UnhealthyTime - Drift
  BY <1>1, <1>2, <1>4, Times DEF LeaseOK
<1>7. ASSUME Timely, w.leaderFlag, ~w.adopted, w.pc = "wait"
      PROVE  s.left >= Reserve + (IF v.timer.due THEN 0 ELSE v.timer.next)
  <2>1. r.left >= Reserve + w.timer.next
    BY <1>5, <1>7 DEF LeaseOK
  <2> QED BY <1>1, <1>2, <1>3, <1>4, <2>1, Times
<1>8. ASSUME Timely, w.leaderFlag, ~w.adopted, w.pc = "write"
      PROVE  s.left + v.spent >= Reserve
  BY <1>1, <1>2, <1>4, <1>8, Times DEF LeaseOK
<1>9. LeaseOK(k, v, s)
  BY <1>1, <1>4, <1>6, <1>7, <1>8 DEF LeaseOK
<1> QED BY <1>9 DEF v, s

\* The same for a heartbeat.
LEMMA AgedHeart ==
  ASSUME NEW d, NEW b \in BeatType, NEW a \in AliveType, NEW l, MayAge(b, l), l # "closing",
         HeartOK(d, b, a)
  PROVE  HeartOK(d, Age(b), OlderRecord(a))
<1>. DEFINE c == Age(b)
            z == OlderRecord(a)
<1>1. /\ c.ok = b.ok /\ c.pc = b.pc
      /\ b.pc # "exited" => c.timer = Advance(b.timer)
      /\ b.pc \notin {"exited", "wait"} => b.spent < RoundTime /\ c.spent = b.spent + 1
      /\ b.pc = "wait" => c.spent = b.spent
  BY AgedBeat
<1>2. /\ b.spent \in Nat /\ b.timer \in Ticker /\ b.timer.next \in Nat /\ b.timer.next >= 1
      /\ b.timer.due \in BOOLEAN
  BY DEF BeatType, Ticker
<1>3. /\ Advance(b.timer).due \in BOOLEAN
      /\ ~Advance(b.timer).due => Advance(b.timer).next = b.timer.next - 1 /\ ~b.timer.due
  BY <1>2, AgedTicker DEF Ticker
<1>4. z.domain = a.domain /\ z.left \in Int /\ a.left \in Int /\ z.left >= a.left - 1
  BY OlderFields DEF AliveType, Lefts
<1>5. b.pc = "wait" => ~b.timer.due
  BY DEF MayAge, TickDue
<1>. HIDE DEF c, z
<1>6. ASSUME Timely, b.ok, b.pc = "wait"
      PROVE  z.left >= Reserve + (IF c.timer.due THEN 0 ELSE c.timer.next)
  <2>1. a.left >= Reserve + b.timer.next
    BY <1>5, <1>6 DEF HeartOK
  <2> QED BY <1>1, <1>2, <1>3, <1>4, <1>6, <2>1, Times
<1>7. ASSUME Timely, b.ok, b.pc = "set"
      PROVE  z.left + c.spent >= Reserve
  BY <1>1, <1>2, <1>4, <1>7, Times DEF HeartOK
<1>8. c.pc = "set" /\ ~c.timer.due => c.timer.next + c.spent <= Period
  BY <1>1, <1>2, <1>3, Times DEF HeartOK
<1>9. HeartOK(d, c, z)
  BY <1>1, <1>4, <1>6, <1>7, <1>8 DEF HeartOK
<1> QED BY <1>9 DEF c, z

\* Time passes for everybody, and writes that become too old are never
\* executed.
LEMMA TickStep ==
  ASSUME IInv, Tick
  PROVE  IInv'
<1>1. /\ setting' = setting /\ life' = life /\ haunted' = haunted
      /\ \A n \in Nodes : MayAge(elect[n], life[n]) /\ MayAge(beat[n], life[n])
      /\ record' = [d \in Domains |-> OlderRecord(record[d])]
      /\ alive' = [k \in Keys |-> OlderRecord(alive[k])]
      /\ late' = {OlderWrite(w) : w \in {x \in late : x.left > Fresh(x.node) - LateTime}}
      /\ elect' = [n \in Nodes |-> Age(elect[n])]
      /\ io' = [n \in Nodes |-> OlderWrite(io[n])]
      /\ beat' = [n \in Nodes |-> Age(beat[n])]
  BY DEF Tick
<1>2. /\ record \in [Domains -> RecordType] /\ alive \in [Keys -> AliveType] /\ late \subseteq WriteType
      /\ elect \in [Nodes -> ElectType] /\ io \in [Nodes -> WriteType] /\ beat \in [Nodes -> BeatType]
  BY DEF IInv, TypeOK, AliveType
<1>3. TypeOK'
  <2>1. record' \in [Domains -> RecordType] /\ alive' \in [Keys -> AliveType]
    BY <1>1, <1>2, OlderFields
  <2>2. late' \subseteq WriteType /\ io' \in [Nodes -> WriteType]
    BY <1>1, <1>2, OlderFields
  <2>3. elect' \in [Nodes -> ElectType]
    BY <1>1, <1>2, AgedElect
  <2>4. beat' \in [Nodes -> BeatType]
    BY <1>1, <1>2, AgedBeat
  <2> QED BY <1>1, <2>1, <2>2, <2>3, <2>4 DEF IInv, TypeOK, AliveType
<1>4. ASSUME NEW y \in late'
      PROVE  \E x \in late : /\ y.node = x.node /\ y.op = x.op
                             /\ GoodWrite(y)
  <2>1. PICK x \in late : x.left > Fresh(x.node) - LateTime /\ y = OlderWrite(x)
    BY <1>1
  <2>2. /\ x \in WriteType /\ x.left \in Lefts /\ x.left \in Int /\ x.node \in Nodes
        /\ x.old \in RecordType /\ x.old.left \in Lefts /\ x.old.left \in Int
    BY <1>2 DEF WriteType, Lefts, RecordType
  <2>3. /\ y.op = x.op /\ y.node = x.node /\ y.left = Older(x.left)
        /\ y.old.left \in Int /\ y.old.left <= x.old.left
    BY <2>1, <2>2, OlderFields DEF RecordType, Lefts
  <2>4. Fresh(x.node) \in Nat /\ Fresh(x.node) >= UnhealthyTime
    BY <2>2, StoreTypes
  <2>6. x.left # Over => y.left = x.left - 1
    BY <2>2, <2>3 DEF Older, Over, Lefts
  <2>7. y.left >= UnhealthyTime - LateTime
    <3>1. CASE x.left = Over
      BY <2>1, <2>2, <2>3, <2>4, <3>1, Times DEF Older, Over
    <3>2. CASE x.left # Over
      BY <2>1, <2>2, <2>4, <2>6, <3>2, Times
    <3> QED BY <3>1, <3>2
  <2>8. GoodWrite(x)
    BY DEF IInv, Writes
  <2>9. GoodWrite(y)
    BY <2>2, <2>3, <2>7, <2>8, Times DEF GoodWrite
  <2> QED BY <2>3, <2>9
<1>5. ASSUME NEW m \in Nodes
      PROVE  Local(m, life[m], Age(elect[m]), OlderWrite(io[m]), Age(beat[m]), haunted[m],
                   OlderRecord(record[Domain(m)]), OlderRecord(alive[Key(m)]), late')
  <2>1. Local(m, life[m], elect[m], io[m], beat[m], haunted[m], record[Domain(m)], alive[Key(m)], late)
    BY NodeInvs
  <2>2. /\ elect[m] \in ElectType /\ beat[m] \in BeatType /\ io[m] \in WriteType
        /\ record[Domain(m)] \in RecordType /\ alive[Key(m)] \in AliveType
    BY NodeFacts
  <2>3. MayAge(elect[m], life[m]) /\ MayAge(beat[m], life[m]) /\ (life[m] \in Up => life[m] # "closing")
    BY <1>1 DEF Up
  <2>4. WorkerOK(Age(elect[m])) /\ IOOK(m, Age(elect[m]), OlderWrite(io[m]))
    BY <2>1, <2>2, <2>3, AgedWorker DEF Local
  <2>5. life[m] \in Up /\ ~haunted[m] => LeaseOK(Key(m), Age(elect[m]), OlderRecord(record[Domain(m)]))
    BY <2>1, <2>2, <2>3, AgedLease DEF Local
  <2>6. KeysApart /\ life[m] \in Up /\ ~haunted[m] =>
          HeartOK(Domain(m), Age(beat[m]), OlderRecord(alive[Key(m)]))
    BY <2>1, <2>2, <2>3, AgedHeart DEF Local
  <2>7. Age(elect[m]).pc = elect[m].pc /\ Age(beat[m]).pc = beat[m].pc
        /\ (Owns(elect[m]) => Owns(Age(elect[m])))
    BY <2>2, <2>3, AgedElect, AgedBeat DEF Owns
  <2>8. OlderRecord(record[Domain(m)]).holder = record[Domain(m)].holder
    BY <2>2, OlderFields
  <2>9. life[m] \in Up /\ ~haunted[m] => \A y \in late' : y.node = m => y.op \notin {"delete", "quiet"}
    BY <1>4, <2>1 DEF Local
  <2> QED BY <2>1, <2>4, <2>5, <2>6, <2>7, <2>8, <2>9 DEF Local
<1>6. ASSUME NEW m \in Nodes
      PROVE  Local(m, life'[m], elect'[m], io'[m], beat'[m], haunted'[m],
                   record'[Domain(m)], alive'[Key(m)], late')
  <2>1. Key(m) \in Keys /\ Domain(m) \in Domains
    BY SettingFacts
  <2> QED BY <1>1, <1>5, <2>1
<1>7. ~(setting.faults \/ setting.overlap) => late' = {} /\ (~setting.keepHeartbeat => \A k \in Keys : alive'[k] = NoAlive)
  BY <1>1, OlderFields DEF IInv, Clean
<1>8. LateOK(late') /\ \A x \in late' : GoodWrite(x)
  <2>. DEFINE kept == {x \in late : x.left > Fresh(x.node) - LateTime}
  <2>1. LateOK(late)
    BY DEF IInv, Writes
  <2>2. IsFiniteSet(kept) /\ (kept # {} => Drift = LateTime)
    BY <2>1, FS_Subset DEF LateOK
  <2>3. late' = {OlderWrite(w) : w \in kept}
    BY <1>1
  <2>. HIDE DEF kept
  <2>4. LateOK(late')
    <3>. DEFINE f == [w \in kept |-> OlderWrite(w)]
    <3>1. f \in Surjection(kept, late')
      BY <2>3 DEF Surjection
    <3> QED BY <2>2, <2>3, <3>1, FS_Surjection DEF LateOK
  <2> QED BY <1>4, <2>4
<1> QED BY <1>1, <1>3, <1>6, <1>7, <1>8, Assemble

\* IInv holds before any node is started.
LEMMA InitInv == Init => IInv
<1> SUFFICES ASSUME Init PROVE IInv
  OBVIOUS
<1>. USE DEF Init
<1>1. TypeOK
  BY NewWorkers, StoreTypes DEF TypeOK, AliveType
<1>2. /\ NoElect.pc = "exited" /\ NoBeat.pc = "exited" /\ WorkerOK(NoElect)
      /\ \A n \in Nodes : IOOK(n, NoElect, NoIO(n))
  BY StoreTypes DEF NoElect, NoBeat, WorkerOK, IOOK
<1>3. "new" \notin Up /\ NoRecord.holder \notin Keys
  BY StoreAssumption DEF Up, NoRecord
<1>4. setting \in [members : SUBSET Nodes, key : [Nodes -> Keys],
                   domain : [Nodes -> Domains], keepHeartbeat : BOOLEAN,
                   veto : BOOLEAN, faults : BOOLEAN, overlap : BOOLEAN, maxLate : Nat]
  BY SettingAssumption
<1>5. \A n \in setting.members : n \in Nodes /\ Key(n) \in Keys /\ Domain(n) \in Domains
  BY <1>4 DEF Key, Domain
<1>. HIDE DEF NoElect, NoBeat, NoRecord, NoIO, NoAlive
<1>6. Members /\ Workers /\ Leases /\ Hearts /\ Writes /\ Unhaunted /\ Gone /\ Beats
  BY <1>2, <1>3, FS_EmptySet DEF Members, Workers, Leases, Hearts, Writes, LateOK, Unhaunted, Gone, Beats
<1>7. Clean
  BY <1>3, <1>5 DEF Clean
<1> QED BY <1>1, <1>6, <1>7 DEF IInv

\* Every step keeps IInv.
LEMMA NextInv == IInv /\ [Next]_vars => IInv'
<1> SUFFICES ASSUME IInv, [Next]_vars PROVE IInv'
  OBVIOUS
<1>1. CASE UNCHANGED vars
  BY <1>1 DEF IInv, TypeOK, Members, Workers, Leases, Hearts, Writes, Unhaunted, Gone, Clean,
              Beats, vars, Key, Domain, KeysApart, GoodWrite, LateOK
<1>2. ASSUME NEW n \in Nodes,
             WorkerStep(n) \/ StepDown(n) \/ Start(n) \/ Close(n)
               \/ FailRound(n) \/ FailBeat(n) \/ Crash(n)
      PROVE  IInv'
  BY <1>2, BeginRoundStep, ExecFindStep, FoundHeldStep, SendCampaignStep, ExecWriteStep,
     WriteReplyStep, BeginBeatStep, BeatDoneStep, ExitStep, DeregisterLeaderStep,
     DeregisterHeartbeatStep, StepDownStep, StartStep, CloseStep, FailRoundStep, FailBeatStep,
     CrashStep DEF WorkerStep
<1> QED BY <1>1, <1>2, LateWriteStep, TTLMonitorStep, TickStep DEF Next

\* IInv, TypeOK included, holds in every reachable state.
THEOREM Invariance == Spec => []IInv
  BY InitInv, NextInv, PTL DEF Spec

\* A node that IsLeader (elect.go:148) reports to be leader, by its own
\* campaign or renewal, holds the leader record, although takeovers are
\* decided on a stale read, by clocks that differ, and writes arrive late: for
\* Timely times, which the defaults of the code are if no write is late and
\* clocks differ by half a second at most.
THEOREM LeadersBacked ==
  ASSUME Timely
  PROVE  Spec => []LeaderBacked
<1>1. IInv => LeaderBacked
  <2> SUFFICES ASSUME IInv, NEW n \in Nodes, IsLeader(n), ~elect[n].adopted, ~haunted[n]
               PROVE  record[Domain(n)].holder = Key(n)
    BY DEF LeaderBacked
  <2> QED BY NodeInvs DEF IsLeader, Local, LeaseOK, Up
<1> QED BY <1>1, Invariance, PTL

\* A node whose heartbeats are confirmed never disappears from IsAlive
\* (elect.go:179), for Timely times and if its key is its own: the heartbeat
\* document is found by node key, so a node of another domain with the same
\* key overwrites it.
THEOREM HeartbeatsLast ==
  ASSUME Timely
  PROVE  Spec => [](KeysApart => RunningIsAlive)
<1>1. IInv => (KeysApart => RunningIsAlive)
  <2> SUFFICES ASSUME IInv, KeysApart, NEW n \in Nodes, life[n] = "running", beat[n].ok, ~haunted[n]
               PROVE  IsAlive(n)
    BY DEF RunningIsAlive
  <2>1. HeartOK(Domain(n), beat[n], alive[Key(n)])
    BY NodeInvs DEF Local, Up
  <2>2. beat[n] \in BeatType /\ alive[Key(n)] \in AliveType
    BY NodeFacts
  <2> QED BY <2>1, <2>2, HeartLasts DEF IsAlive
<1> QED BY <1>1, Invariance, PTL

\* A leader by campaign or renewal, not started under its own late
\* deregistration.
Backed(n) == IsLeader(n) /\ ~elect[n].adopted /\ ~haunted[n]
\* Every domain has one such leader at most.
OneBacked == \A m, n \in Nodes : Backed(m) /\ Backed(n) /\ Domain(m) = Domain(n) => m = n

\* Two nodes of a domain never both report to be leader, each by its own
\* campaign or renewal, for Timely times.
THEOREM OneBackedLeader ==
  ASSUME Timely
  PROVE  Spec => []OneBacked
<1>1. IInv /\ LeaderBacked => OneBacked
  <2> SUFFICES ASSUME IInv, LeaderBacked, NEW m \in Nodes, NEW n \in Nodes, Backed(m), Backed(n),
                      Domain(m) = Domain(n)
               PROVE  m = n
    BY DEF OneBacked
  <2>1. m \in setting.members /\ n \in setting.members
    BY NodeInvs DEF Local, Backed, IsLeader
  <2>2. Key(m) = Key(n)
    BY DEF LeaderBacked, Backed
  <2> QED BY <2>1, <2>2, SettingFacts
<1> QED BY <1>1, LeadersBacked, Invariance, PTL

\* Only the last step of Close closes a node, and then its record and its
\* heartbeat are gone.
LEMMA CloseDeregistersStep ==
  ASSUME IInv, Next, ~(setting.faults \/ setting.overlap), ~setting.veto,
         NEW n \in Nodes, life[n] # "closed", life'[n] = "closed"
  PROVE  record'[Domain(n)].holder # Key(n) /\ alive'[Key(n)].domain # Domain(n)
<1>1. life \in [Nodes -> Lives]
  BY DEF IInv, TypeOK, Lives
<1>2. DeregisterHeartbeat(n)
  <2>1. ~UNCHANGED life
    OBVIOUS
  <2>2. PICK m \in Nodes : StepDown(m) \/ Start(m) \/ Close(m) \/ FailRound(m) \/ Crash(m)
                           \/ FoundHeld(m) \/ WriteReply(m)
                           \/ DeregisterLeader(m) \/ DeregisterHeartbeat(m)
    BY <2>1 DEF Next, WorkerStep, BeginRound, ExecFind, SendCampaign, ExecWrite, BeginBeat, Beat,
                Exit, FailBeat, LateWrite, TTLMonitor, Tick
  <2>3. ~(\E l \in {"starting", "closing", "crashed", "deregistering"} : life' = [life EXCEPT ![m] = l])
    BY <1>1
  <2>4. ~(life' = [life EXCEPT ![m] = Ready(life[m])])
    BY <1>1 DEF Ready
  <2>5. DeregisterHeartbeat(m)
    BY <2>2, <2>3, <2>4
       DEF StepDown, Start, Close, FailRound, Crash, FoundHeld, WriteReply, DeregisterLeader, End
  <2>6. m = n
    BY <1>1, <2>5 DEF DeregisterHeartbeat
  <2> QED BY <2>5, <2>6
<1>3. life[n] = "deregistering" /\ record' = record
  BY <1>2 DEF DeregisterHeartbeat
<1>4. Local(n, life[n], elect[n], io[n], beat[n], haunted[n], record[Domain(n)], alive[Key(n)], late)
  BY NodeInvs
<1>5. n \in setting.members /\ record[Domain(n)].holder # Key(n)
  BY <1>3, <1>4 DEF Local, Up
<1>. DEFINE x == Write("quiet", n, NoRecord, Fresh(n))
<1>6. x \in WriteType /\ x.op = "quiet" /\ x.node = n
  BY StoreTypes, WriteFields DEF Ops
<1>7. CASE setting.keepHeartbeat
  <2>1. alive' = [alive EXCEPT ![Key(n)] = ApplyBeat(@, x)]
    BY <1>2, <1>7 DEF DeregisterHeartbeat
  <2>. HIDE DEF x
  <2> QED BY <1>3, <1>5, <1>6, <1>7, <2>1, BeatFrame
<1>8. CASE ~setting.keepHeartbeat
  <2>1. alive' = alive /\ Key(n) \in Keys /\ Domain(n) \in Domains
    BY <1>2, <1>8, SettingFacts DEF DeregisterHeartbeat
  <2>2. alive[Key(n)] = NoAlive
    BY <1>8, <2>1 DEF IInv, Clean
  <2> QED BY <1>3, <1>5, <2>1, <2>2, StoreAssumption DEF NoAlive
<1> QED BY <1>7, <1>8

\* Close (elect.go:199) leaves no record and no heartbeat of its node behind,
\* if no operation fails, lives do not overlap and CanElect does not interfere.
THEOREM CloseCleansUp == Spec => CloseDeregisters
<1>1. IInv /\ [Next]_vars =>
        [~(setting.faults \/ setting.overlap) /\ ~setting.veto =>
           \A n \in Nodes : life[n] # "closed" /\ life'[n] = "closed" =>
             /\ record'[Domain(n)].holder # Key(n)
             /\ alive'[Key(n)].domain # Domain(n)]_vars
  BY CloseDeregistersStep
<1> QED BY <1>1, Invariance, PTL DEF Spec, CloseDeregisters

\* The heartbeat write of another member, of another domain if the key is the
\* same, never registers n.
LEMMA BeatOther ==
  ASSUME IInv, NEW m \in setting.members, NEW n \in setting.members, m # n, NEW x, x.node = m,
         alive' = [alive EXCEPT ![Key(m)] = ApplyBeat(@, x)], alive[Key(n)].domain # Domain(n)
  PROVE  alive'[Key(n)].domain # Domain(n)
<1>1. /\ Key(m) \in Keys /\ Key(n) \in Keys /\ Domain(n) \in Domains
      /\ Key(m) = Key(n) => Domain(m) # Domain(n)
      /\ alive \in [Keys -> AliveType] /\ NoAlive.domain # Domain(n)
  BY SettingFacts, NodeFacts, StoreAssumption DEF NoAlive
<1>2. CASE Key(m) # Key(n)
  BY <1>1, <1>2
<1>3. CASE Key(m) = Key(n)
  <2>1. alive'[Key(n)] = ApplyBeat(alive[Key(n)], x)
    BY <1>1, <1>3
  <2> QED BY <1>1, <1>3, <2>1 DEF ApplyBeat
<1> QED BY <1>2, <1>3

\* A node that is closed has no worker that could write for it, and the writes
\* of other members never write its name.
LEMMA ClosedStaysOutStep ==
  ASSUME IInv, Next, NEW n \in Nodes, life[n] = "closed", \A w \in late : w.node # n
  PROVE  /\ record[Domain(n)].holder # Key(n) => record'[Domain(n)].holder # Key(n)
         /\ alive[Key(n)].domain # Domain(n) => alive'[Key(n)].domain # Domain(n)
<1>1. n \in setting.members /\ elect[n].pc = "exited" /\ beat[n].pc = "exited"
  BY NodeInvs DEF Local, Up
<1>2. /\ Key(n) \in Keys /\ Domain(n) \in Domains /\ NoRecord.holder # Key(n) /\ NoAlive.domain # Domain(n)
      /\ record \in [Domains -> RecordType] /\ alive \in [Keys -> AliveType]
      /\ setting.members \subseteq Nodes
  BY SettingFacts, NodeFacts, StoreAssumption DEF NoRecord, NoAlive
<1>3. \A m \in Nodes \ {n} : RecFrame(m) =>
        (record[Domain(n)].holder # Key(n) => record'[Domain(n)].holder # Key(n))
  BY <1>1 DEF RecFrame
<1>4. CASE UNCHANGED <<record, alive>>
  BY <1>4
<1>5. ASSUME NEW m \in Nodes, ExecWrite(m)
      PROVE  /\ record[Domain(n)].holder # Key(n) => record'[Domain(n)].holder # Key(n)
             /\ alive' = alive
  <2>1. m # n /\ elect[m].pc = "write" /\ alive' = alive
        /\ record' = [record EXCEPT ![Domain(m)] = Apply(@, io[m])]
    BY <1>1, <1>5 DEF ExecWrite
  <2>2. Local(m, life[m], elect[m], io[m], beat[m], haunted[m], record[Domain(m)], alive[Key(m)], late)
    BY NodeInvs
  <2>3. /\ m \in setting.members /\ io[m] \in WriteType /\ io[m].node = m
        /\ io[m].op = "take" => io[m].old.left < MaxSkew
    BY <2>1, <2>2, NodeFacts DEF Local, IOOK, Up
  <2>4. RecFrame(m)
    BY <2>1, <2>3, ApplyFrame
  <2> QED BY <1>3, <2>1, <2>4
<1>6. ASSUME NEW m \in Nodes, Beat(m) \/ FailBeat(m)
      PROVE  /\ alive[Key(n)].domain # Domain(n) => alive'[Key(n)].domain # Domain(n)
             /\ record' = record
  <2>1. /\ m # n /\ beat[m].pc = "set" /\ record' = record
        /\ alive' = alive \/ alive' = [alive EXCEPT ![Key(m)] = ApplyBeat(@, BeatWrite(m))]
    BY <1>1, <1>6 DEF Beat, FailBeat
  <2>2. m \in setting.members /\ BeatWrite(m).node = m
    BY <2>1, BeatWriteGood
  <2> QED BY <1>1, <2>1, <2>2, BeatOther
<1>7. ASSUME NEW m \in Nodes, DeregisterLeader(m)
      PROVE  /\ record[Domain(n)].holder # Key(n) => record'[Domain(n)].holder # Key(n)
             /\ alive' = alive
  <2>. DEFINE x == Write("delete", m, NoRecord, Fresh(m))
  <2>1. /\ m # n /\ alive' = alive /\ life[m] = "closing"
        /\ record' = record \/ record' = [record EXCEPT ![Domain(m)] = Apply(@, x)]
    BY <1>7 DEF DeregisterLeader
  <2>2. x \in WriteType /\ x.op = "delete" /\ x.node = m
    BY StoreTypes, WriteFields DEF Ops
  <2>. HIDE DEF x
  <2>3. m \in setting.members
    BY <2>1, NodeInvs DEF Local
  <2>4. RecFrame(m)
    BY <2>1, <2>2, <2>3, ApplyFrame, StillFrame
  <2> QED BY <1>3, <2>1, <2>4
<1>8. ASSUME NEW m \in Nodes, DeregisterHeartbeat(m)
      PROVE  /\ alive[Key(n)].domain # Domain(n) => alive'[Key(n)].domain # Domain(n)
             /\ record' = record
  <2>. DEFINE x == Write("quiet", m, NoRecord, Fresh(m))
  <2>1. /\ m # n /\ record' = record /\ life[m] = "deregistering"
        /\ alive' = alive \/ alive' = [alive EXCEPT ![Key(m)] = ApplyBeat(@, x)]
    BY <1>8 DEF DeregisterHeartbeat
  <2>2. x.node = m
    BY DEF Write
  <2>. HIDE DEF x
  <2>3. m \in setting.members
    BY <2>1, NodeInvs DEF Local
  <2> QED BY <1>1, <2>1, <2>2, <2>3, BeatOther
<1>9. ASSUME NEW x \in late, LateWrite(x)
      PROVE  /\ record[Domain(n)].holder # Key(n) => record'[Domain(n)].holder # Key(n)
             /\ alive[Key(n)].domain # Domain(n) => alive'[Key(n)].domain # Domain(n)
  <2>. DEFINE m == x.node
  <2>1. m # n /\ m \in setting.members /\ m \in Nodes /\ x \in WriteType
        /\ (x.op = "take" => x.old.left < MaxSkew)
    BY <1>2 DEF IInv, TypeOK, Writes, GoodWrite
  <2>2. /\ record' = record \/ record' = [record EXCEPT ![Domain(m)] = Apply(@, x)]
        /\ alive' = alive \/ alive' = [alive EXCEPT ![Key(m)] = ApplyBeat(@, x)]
    BY <1>9 DEF LateWrite
  <2>3. RecFrame(m)
    BY <2>1, <2>2, ApplyFrame, StillFrame
  <2> QED BY <1>1, <1>3, <2>1, <2>2, <2>3, BeatOther
<1>10. CASE TTLMonitor
  BY <1>2, <1>10 DEF TTLMonitor
<1>11. CASE Tick
  <2>1. record'[Domain(n)] = OlderRecord(record[Domain(n)]) /\ alive'[Key(n)] = OlderRecord(alive[Key(n)])
    BY <1>2, <1>11 DEF Tick
  <2> QED BY <1>2, <2>1, OlderFields
<1>12. \/ UNCHANGED <<record, alive>>
       \/ \E m \in Nodes : ExecWrite(m) \/ Beat(m) \/ FailBeat(m) \/ DeregisterLeader(m)
                           \/ DeregisterHeartbeat(m)
       \/ \E x \in late : LateWrite(x)
       \/ TTLMonitor
       \/ Tick
  BY DEF Next, WorkerStep, BeginRound, ExecFind, FoundHeld, SendCampaign, WriteReply, BeginBeat, Exit,
         StepDown, Start, Close, FailRound, Crash
<1> QED BY <1>4, <1>5, <1>6, <1>7, <1>8, <1>9, <1>10, <1>11, <1>12

\* After Close returned nothing registers the node again, except a write it
\* had given up before.
THEOREM ClosedIsOut == Spec => ClosedStaysOut
<1>1. IInv /\ [Next]_vars =>
        [\A n \in Nodes : life[n] = "closed" /\ (\A w \in late : w.node # n) =>
           /\ record[Domain(n)].holder # Key(n) => record'[Domain(n)].holder # Key(n)
           /\ alive[Key(n)].domain # Domain(n) => alive'[Key(n)].domain # Domain(n)]_vars
  BY ClosedStaysOutStep
<1> QED BY <1>1, Invariance, PTL DEF Spec, ClosedStaysOut
==============================================================================
