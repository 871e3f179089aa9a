------------------------- MODULE RedisElectionProofs -------------------------
(***************************************************************************)
(* Proofs about RedisElection, for every set of nodes, every lease and     *)
(* every bound on a round that TimeAssumption allows.                      *)
(*                                                                         *)
(* The inductive invariant IInv says how much of its lease a leader has    *)
(* left at every point of its rounds: enough, between two rounds, to last  *)
(* until the next tick and the round it starts (LeaseOK), so that no       *)
(* other node finds the record gone.  The same is said of the heartbeat    *)
(* (HeartOK).  It needs that no deregistration of a node that is up is     *)
(* under way (Unhaunted), and, for Close, who may hold the record          *)
(* (Clean).                                                                *)
(***************************************************************************)
EXTENDS RedisElection, TLAPS

-----------------------------------------------------------------------------
(* Facts about the workers of an election, for every lease and every bound *)
(* on a round: what the operators of ElectionWorkers do to each field, and *)
(* that one unit of time keeps a worker well formed.                       *)

\* Half of a lease of at least two units is a period of at least one.
LEMMA WorkerTimes ==
  /\ Period \in Nat /\ RoundTime \in Nat /\ 1 <= Period
  /\ 0 \in 0 .. RoundTime
  BY TimeAssumption DEF Period

\* A worker as EnableElection starts it, and one that is not running, have
\* their types.
LEMMA NewWorkers ==
  /\ NewTicker \in Ticker
  /\ NoElect \in ElectType /\ [NoElect EXCEPT !.pc = "wait"] \in ElectType
  /\ NoBeat \in BeatType /\ [NoBeat EXCEPT !.pc = "wait"] \in BeatType
<1>. USE WorkerTimes
<1>. HIDE DEF Period
<1>1. NewTicker \in Ticker
  BY DEF NewTicker, Ticker
<1>2. NoElect \in ElectType /\ NoBeat \in BeatType
  BY <1>1 DEF NoElect, ElectType, NoBeat, BeatType
<1>3. \A w \in ElectType : [w EXCEPT !.pc = "wait"] \in ElectType
  BY DEF ElectType
<1>4. \A w \in BeatType : [w EXCEPT !.pc = "wait"] \in BeatType
  BY DEF BeatType
<1> QED BY <1>1, <1>2, <1>3, <1>4

\* Reading the tick starts a round of goElect and leaves the flag, the reply
\* and the time of the next tick alone.
LEMMA TakeTickElect ==
  ASSUME NEW w \in ElectType, NEW pc \in {"wait", "campaign", "renew", "write"}
  PROVE  LET v == TakeTick(w, pc) IN
         /\ v \in ElectType /\ v.timer.due = FALSE /\ v.timer.next = w.timer.next
         /\ v.pc = pc /\ v.reply = w.reply /\ v.spent = w.spent
         /\ v.leaderFlag = w.leaderFlag /\ v.adopted = w.adopted
  BY DEF TakeTick, ElectType, Ticker

\* Reading the tick starts a round of goHeartBeat.
LEMMA TakeTickBeat ==
  ASSUME NEW w \in BeatType
  PROVE  LET v == TakeTick(w, "set") IN
         /\ v \in BeatType /\ v.timer.due = FALSE /\ v.timer.next = w.timer.next
         /\ v.pc = "set" /\ v.spent = w.spent /\ v.ok = w.ok
  BY DEF TakeTick, BeatType, Ticker

\* setLeaderFlag ends a round: the worker waits, with nothing asked and
\* nothing spent, and its ticker has run on.
LEMMA EndRoundFields ==
  ASSUME NEW w \in ElectType, NEW flag \in BOOLEAN, NEW byAdoption \in BOOLEAN
  PROVE  LET v == EndRound(w, flag, byAdoption) IN
         /\ v \in ElectType /\ v.leaderFlag = flag /\ v.adopted = byAdoption
         /\ v.pc = "wait" /\ v.reply = "wait" /\ v.spent = 0 /\ v.timer = w.timer
<1>. DEFINE v == EndRound(w, flag, byAdoption)
<1>1. 0 \in 0 .. RoundTime
  BY WorkerTimes
<1>2. v \in ElectType
  BY <1>1 DEF EndRound, ElectType
<1>3. /\ v.leaderFlag = flag /\ v.adopted = byAdoption
      /\ v.pc = "wait" /\ v.reply = "wait" /\ v.spent = 0 /\ v.timer = w.timer
  BY DEF EndRound, ElectType
<1> QED BY <1>2, <1>3

\* A heartbeat, confirmed or not, ends with the worker waiting.
LEMMA EndBeatFields ==
  ASSUME NEW w \in BeatType, NEW ok \in BOOLEAN
  PROVE  LET v == EndBeat(w, ok) IN
         v \in BeatType /\ v.ok = ok /\ v.pc = "wait" /\ v.spent = 0 /\ v.timer = w.timer
<1>. DEFINE v == EndBeat(w, ok)
<1>1. 0 \in 0 .. RoundTime
  BY WorkerTimes
<1>2. v \in BeatType
  BY <1>1 DEF EndBeat, BeatType
<1>3. v.ok = ok /\ v.pc = "wait" /\ v.spent = 0 /\ v.timer = w.timer
  BY DEF EndBeat, BeatType
<1> QED BY <1>2, <1>3

\* A tick comes exactly when the time to the next one is used up, and one that
\* nobody has read is kept.
LEMMA AgedTicker ==
  ASSUME NEW t \in Ticker
  PROVE  /\ Advance(t) \in Ticker
         /\ t.due => Advance(t).due
         /\ ~Advance(t).due => Advance(t).next = t.next - 1 /\ ~t.due
         /\ Advance(t).due /\ ~t.due => t.next = 1
<1>. USE WorkerTimes
<1>. HIDE DEF Period
<1> QED BY DEF Advance, Ticker

\* Time moves the ticker of a running election worker, and its round if it is
\* in one.
LEMMA AgedElect ==
  ASSUME NEW w \in ElectType, NEW l, MayAge(w, l)
  PROVE  LET v == Age(w) IN
         /\ v \in ElectType /\ v.leaderFlag = w.leaderFlag /\ v.adopted = w.adopted
         /\ v.pc = w.pc /\ v.reply = w.reply
         /\ w.pc = "exited" => v = w
         /\ w.pc # "exited" => v.timer = Advance(w.timer)
         /\ w.pc \notin {"exited", "wait"} => w.spent < RoundTime /\ v.spent = w.spent + 1
         /\ w.pc = "wait" => v.spent = w.spent
<1>. USE WorkerTimes
<1>. HIDE DEF Period
<1>1. w.timer \in Ticker
  BY DEF ElectType
<1>2. Advance(w.timer) \in Ticker
  BY <1>1, AgedTicker
<1>3. CASE w.pc = "exited"
  BY <1>3 DEF Age
<1>4. CASE w.pc = "wait"
  BY <1>2, <1>4 DEF Age, ElectType
<1>5. CASE w.pc \notin {"exited", "wait"}
  <2>1. Age(w) = [w EXCEPT !.timer = Advance(@), !.spent = @ + 1]
    BY <1>5 DEF Age
  <2>2. w.spent \in 0 .. RoundTime /\ w.spent < RoundTime
    BY <1>5 DEF MayAge, ElectType
  <2>3. w.spent + 1 \in 0 .. RoundTime
    BY <2>2
  <2>4. Age(w) \in ElectType
    BY <1>2, <2>1, <2>3 DEF ElectType
  <2> QED BY <1>5, <2>1, <2>2, <2>4 DEF ElectType
<1> QED BY <1>3, <1>4, <1>5

\* The same for the heartbeat worker.
LEMMA AgedBeat ==
  ASSUME NEW w \in BeatType, NEW l, MayAge(w, l)
  PROVE  LET v == Age(w) IN
         /\ v \in BeatType /\ v.ok = w.ok /\ v.pc = w.pc
         /\ w.pc = "exited" => v = w
         /\ w.pc # "exited" => v.timer = Advance(w.timer)
         /\ w.pc \notin {"exited", "wait"} => w.spent < RoundTime /\ v.spent = w.spent + 1
         /\ w.pc = "wait" => v.spent = w.spent
<1>. USE WorkerTimes
<1>. HIDE DEF Period
<1>1. w.timer \in Ticker
  BY DEF BeatType
<1>2. Advance(w.timer) \in Ticker
  BY <1>1, AgedTicker
<1>3. CASE w.pc = "exited"
  BY <1>3 DEF Age
<1>4. CASE w.pc = "wait"
  BY <1>2, <1>4 DEF Age, BeatType
<1>5. CASE w.pc \notin {"exited", "wait"}
  <2>1. Age(w) = [w EXCEPT !.timer = Advance(@), !.spent = @ + 1]
    BY <1>5 DEF Age
  <2>2. w.spent \in 0 .. RoundTime /\ w.spent < RoundTime
    BY <1>5 DEF MayAge, BeatType
  <2>3. w.spent + 1 \in 0 .. RoundTime
    BY <2>2
  <2>4. Age(w) \in BeatType
    BY <1>2, <2>1, <2>3 DEF BeatType
  <2> QED BY <1>5, <2>1, <2>2, <2>4 DEF BeatType
<1> QED BY <1>3, <1>4, <1>5

-----------------------------------------------------------------------------

\* The lives in which the workers of a node run and it may report to be
\* leader.
Up == {"starting", "running"}

\* How long the lease in hand lasts at least, for a leader between rounds and
\* in one: past the end of the round its ticker starts next.
Slack == UnhealthyTime - Period

\* The election worker of a node that is up runs, and its ticker does not
\* leave it more than a period between the starts of two rounds.
WorkerOK(w) ==
  /\ w.pc \in {"wait", "campaign", "check", "renew", "exited"}
  /\ w.pc = "wait" => w.reply = "wait" /\ w.spent = 0
  /\ w.pc \in {"campaign", "check"} => ~w.leaderFlag
  /\ w.pc \notin {"wait", "exited"} /\ ~w.timer.due => w.timer.next + w.spent <= Period

\* The lease of node n, with election worker w and leader record r: a reply
\* that confirms the record came after it was written for a full lease, and a
\* leader that is not one by adoption holds the record past the end of its
\* next round.
LeaseOK(n, w, r) ==
  /\ w.pc # "exited"
  /\ w.pc \in {"campaign", "renew"} /\ w.reply = "ok" =>
       r.holder = n /\ r.ttl + w.spent >= UnhealthyTime
  /\ w.leaderFlag /\ ~w.adopted =>
       /\ r.holder = n
       /\ w.pc = "wait" => r.ttl >= Slack + (IF w.timer.due THEN 0 ELSE w.timer.next)
       /\ w.pc = "renew" => r.ttl + w.spent >= Slack

\* The same for the heartbeat worker w and the time a its heartbeat key has
\* left.
HeartOK(w, a) ==
  /\ w.pc \in {"wait", "set", "exited"}
  /\ w.pc = "wait" => w.spent = 0
  /\ w.ok => /\ w.pc # "exited"
             /\ w.pc = "wait" => a >= Slack + (IF w.timer.due THEN 0 ELSE w.timer.next)
             /\ w.pc = "set" => a + w.spent >= Slack

\* Every node that is up, and was not started under a late deregistration of
\* its own, has the lease its flag and its replies claim.
Leases == \A n \in Nodes :
  WorkerOK(elect[n]) /\ (life[n] \in Up /\ ~haunted[n] => LeaseOK(n, elect[n], record))
\* Every such node has the heartbeat its last confirmation claims.
Hearts == \A n \in Nodes : life[n] \in Up /\ ~haunted[n] => HeartOK(beat[n], alive[n])
\* No abandoned deregistration is under way for such a node: only Close sends
\* them.
Unhaunted == \A n \in Nodes : life[n] \in Up /\ ~haunted[n] =>
    \A c \in late : c.node = n => c.op \notin {"Del", "DelBeat"}
\* The workers of a node that is not up, and not on its way out, have
\* returned: wg.Wait comes before the deregistrations.
Gone == \A n \in Nodes : life[n] \notin Up \cup {"closing"} =>
          elect[n].pc = "exited" /\ beat[n].pc = "exited"

\* The worker knows, or is about to learn, that its node holds the record.
Owns(w) == /\ w.leaderFlag \/ (w.pc = "campaign" /\ w.reply = "ok")
           /\ ~(w.pc = "renew" /\ w.reply = "no")
\* Without failures and overlapping lives nothing is late, a record belongs to
\* a worker that knows of it unless CanElect made it step down, and without
\* KeepHeartbeat there are no heartbeats.
Clean ==
  ~(setting.faults \/ setting.overlap) =>
    /\ late = {}
    /\ ~setting.veto => \A n \in Nodes : record.holder = n =>
                          life[n] \in Up \cup {"closing"} /\ Owns(elect[n])
    /\ ~setting.keepHeartbeat => \A n \in Nodes : alive[n] = 0
\* Without KeepHeartbeat goHeartBeat is never started.
Beats == ~setting.keepHeartbeat => \A n \in Nodes : beat[n].pc = "exited"

\* The inductive invariant.
IInv == TypeOK /\ Leases /\ Hearts /\ Unhaunted /\ Gone /\ Clean /\ Beats

\* The assumption on the times, in the form the proofs use.
LEMMA Times ==
  /\ Period \in Nat /\ UnhealthyTime \in Nat /\ RoundTime \in Nat
  /\ 1 <= Period /\ RoundTime <= Period /\ Period + RoundTime < UnhealthyTime
  /\ 0 \in 0 .. RoundTime
  /\ Slack \in Nat /\ Slack + Period = UnhealthyTime /\ RoundTime < Slack
  BY TimeAssumption DEF Period, Slack

\* The leader record as TypeOK describes it: no holder, no record.
RecordType == {r \in [holder : Nodes \cup {NoNode}, ttl : 0 .. UnhealthyTime] :
                 (r.holder = NoNode) <=> (r = NoRecord)}
\* The lives of an ElectionImpl.
Lives == {"new", "starting", "running", "closing", "deregistering", "closed", "crashed"}

\* A lease survives every change of the record that keeps its holder and does
\* not shorten it.
LEMMA LeaseFrame ==
  ASSUME NEW n \in Nodes, NEW w \in ElectType, NEW r \in RecordType, NEW s \in RecordType,
         LeaseOK(n, w, r), r.holder = n => s.holder = n /\ s.ttl >= r.ttl
  PROVE  LeaseOK(n, w, s)
<1>. USE Times
<1>. HIDE DEF Period, Slack
<1>1. w.timer.next \in Nat /\ w.timer.due \in BOOLEAN /\ w.spent \in Nat /\ r.ttl \in Nat /\ s.ttl \in Nat
  BY DEF ElectType, Ticker, RecordType
<1> QED BY <1>1 DEF LeaseOK

\* A step that changes the state of one node n, and the record in a way that
\* does no harm to the others, keeps IInv if the new state of n is as IInv
\* says. Every action of a node is an instance of this.
LEMMA NodeStep ==
  ASSUME IInv, NEW n \in Nodes,
         NEW l \in Lives, NEW w \in ElectType, NEW b \in BeatType, NEW h \in BOOLEAN,
         NEW a \in 0 .. UnhealthyTime,
         setting' = setting,
         life' = [life EXCEPT ![n] = l],
         elect' = [elect EXCEPT ![n] = w],
         beat' = [beat EXCEPT ![n] = b],
         haunted' = [haunted EXCEPT ![n] = h],
         alive' = [alive EXCEPT ![n] = a],
         record' \in RecordType,
         late' \subseteq Command, \A c \in late' \ late : c.node = n,
         \A m \in Nodes \ {n} :
            record.holder = m => record'.holder = m /\ record'.ttl >= record.ttl,
         \A m \in Nodes \ {n} : record'.holder = m => record.holder = m,
         WorkerOK(w), l \in Up /\ ~h => LeaseOK(n, w, record'),
         l \in Up /\ ~h => HeartOK(b, a),
         l \in Up /\ ~h => \A c \in late' : c.node = n => c.op \notin {"Del", "DelBeat"},
         l \notin Up \cup {"closing"} => w.pc = "exited" /\ b.pc = "exited",
         ~(setting.faults \/ setting.overlap) => late' = {} /\ (~setting.keepHeartbeat => a = 0),
         ~(setting.faults \/ setting.overlap) /\ ~setting.veto /\ record'.holder = n =>
            l \in Up \cup {"closing"} /\ Owns(w),
         ~setting.keepHeartbeat => b.pc = "exited"
  PROVE  IInv'
<1>1. TypeOK'
  BY DEF IInv, TypeOK, Lives, RecordType
<1>2. record \in RecordType
  BY DEF IInv, TypeOK, RecordType
<1>3. Leases'
  <2> SUFFICES ASSUME NEW m \in Nodes
               PROVE  WorkerOK(elect'[m]) /\ (life'[m] \in Up /\ ~haunted'[m] => LeaseOK(m, elect'[m], record'))
    BY DEF Leases
  <2>1. CASE m = n
    BY <2>1 DEF IInv, TypeOK
  <2>2. CASE m # n
    <3>1. life'[m] = life[m] /\ elect'[m] = elect[m] /\ haunted'[m] = haunted[m] /\ elect[m] \in ElectType
      BY <2>2 DEF IInv, TypeOK
    <3>2. WorkerOK(elect[m]) /\ (life[m] \in Up /\ ~haunted[m] => LeaseOK(m, elect[m], record))
      BY <3>1 DEF IInv, Leases
    <3> QED BY <1>2, <2>2, <3>1, <3>2, LeaseFrame
  <2> QED BY <2>1, <2>2
<1>4. Hearts'
  BY DEF IInv, TypeOK, Hearts
<1>5. Unhaunted'
  BY DEF IInv, TypeOK, Unhaunted
<1>6. Gone'
  BY DEF IInv, TypeOK, Gone
<1>7. Clean'
  BY DEF IInv, TypeOK, Clean
<1>8. Beats'
  BY DEF IInv, TypeOK, Beats
<1> QED BY <1>1, <1>3, <1>4, <1>5, <1>6, <1>7, <1>8 DEF IInv

\* The types of what belongs to one node.
LEMMA NodeFacts ==
  ASSUME IInv, NEW n \in Nodes
  PROVE  /\ setting \in Settings
         /\ setting.faults \in BOOLEAN /\ setting.veto \in BOOLEAN /\ setting.keepHeartbeat \in BOOLEAN
         /\ record \in RecordType /\ late \subseteq Command
         /\ life[n] \in Lives /\ elect[n] \in ElectType /\ beat[n] \in BeatType
         /\ haunted[n] \in BOOLEAN /\ alive[n] \in 0 .. UnhealthyTime
         /\ life = [life EXCEPT ![n] = life[n]] /\ elect = [elect EXCEPT ![n] = elect[n]]
         /\ beat = [beat EXCEPT ![n] = beat[n]] /\ haunted = [haunted EXCEPT ![n] = haunted[n]]
         /\ alive = [alive EXCEPT ![n] = alive[n]]
<1>1. setting \in Settings /\ setting.faults \in BOOLEAN /\ setting.veto \in BOOLEAN /\ setting.keepHeartbeat \in BOOLEAN
  BY SettingAssumption DEF IInv, TypeOK
<1>2. record \in RecordType /\ late \subseteq Command
  BY DEF IInv, TypeOK, RecordType
<1> QED BY <1>1, <1>2 DEF IInv, TypeOK, Lives

\* IInv, as it speaks of one node.
LEMMA NodeInvs ==
  ASSUME IInv, NEW n \in Nodes
  PROVE  /\ WorkerOK(elect[n]) /\ (life[n] \in Up /\ ~haunted[n] => LeaseOK(n, elect[n], record))
         /\ life[n] \in Up /\ ~haunted[n] => HeartOK(beat[n], alive[n])
         /\ life[n] \in Up /\ ~haunted[n] => \A c \in late : c.node = n => c.op \notin {"Del", "DelBeat"}
         /\ life[n] \notin Up \cup {"closing"} => elect[n].pc = "exited" /\ beat[n].pc = "exited"
         /\ ~(setting.faults \/ setting.overlap) => late = {} /\ (~setting.keepHeartbeat => alive[n] = 0)
         /\ ~(setting.faults \/ setting.overlap) /\ ~setting.veto /\ record.holder = n =>
              life[n] \in Up \cup {"closing"} /\ Owns(elect[n])
         /\ ~setting.keepHeartbeat => beat[n].pc = "exited"
  BY DEF IInv, Leases, Hearts, Unhaunted, Gone, Clean, Beats

\* NodeStep, for the steps of the election worker that touch nothing but the
\* worker and the life of its node.
LEMMA ElectStep ==
  ASSUME IInv, NEW n \in Nodes, NEW l \in {life[n], Ready(life[n])}, NEW w \in ElectType,
         UNCHANGED <<setting, record, alive, late, beat, haunted>>,
         life' = [life EXCEPT ![n] = l],
         elect' = [elect EXCEPT ![n] = w],
         WorkerOK(w), (life[n] \in Up /\ ~haunted[n] => LeaseOK(n, w, record)),
         life[n] \notin Up \cup {"closing"} => w.pc = "exited",
         ~(setting.faults \/ setting.overlap) /\ ~setting.veto /\ record.holder = n => Owns(w)
  PROVE  IInv'
<1>1. l \in Lives /\ (l \in Up <=> life[n] \in Up) /\ (l = "closing" <=> life[n] = "closing")
  BY NodeFacts DEF Ready, Lives, Up
<1>2. /\ setting' = setting /\ record' = record /\ late' = late
      /\ beat' = [beat EXCEPT ![n] = beat[n]] /\ haunted' = [haunted EXCEPT ![n] = haunted[n]]
      /\ alive' = [alive EXCEPT ![n] = alive[n]]
  BY NodeFacts
<1>3. record' \in RecordType /\ late' \subseteq Command /\ (\A c \in late' \ late : c.node = n)
  BY <1>2, NodeFacts
<1>4. /\ \A m \in Nodes \ {n} : record.holder = m => record'.holder = m /\ record'.ttl >= record.ttl
      /\ \A m \in Nodes \ {n} : record'.holder = m => record.holder = m
  <2>1. record.ttl \in Nat
    BY NodeFacts DEF RecordType
  <2> QED BY <1>2, <2>1
<1>5. /\ l \in Up /\ ~haunted[n] => LeaseOK(n, w, record')
      /\ l \in Up /\ ~haunted[n] => HeartOK(beat[n], alive[n])
      /\ l \in Up /\ ~haunted[n] => \A c \in late' : c.node = n => c.op \notin {"Del", "DelBeat"}
      /\ l \notin Up \cup {"closing"} => w.pc = "exited" /\ beat[n].pc = "exited"
      /\ ~(setting.faults \/ setting.overlap) => late' = {} /\ (~setting.keepHeartbeat => alive[n] = 0)
      /\ ~(setting.faults \/ setting.overlap) /\ ~setting.veto /\ record'.holder = n => l \in Up \cup {"closing"} /\ Owns(w)
      /\ ~setting.keepHeartbeat => beat[n].pc = "exited"
  BY <1>1, <1>2, NodeInvs
<1>6. /\ beat[n] \in BeatType /\ haunted[n] \in BOOLEAN /\ alive[n] \in 0 .. UnhealthyTime
  BY NodeFacts
<1> QED BY <1>1, <1>2, <1>3, <1>4, <1>5, <1>6, NodeStep

\* elect (elect.go:221) starts a campaign or a renewal.
LEMMA BeginRoundStep ==
  ASSUME IInv, NEW n \in Nodes, BeginRound(n)
  PROVE  IInv'
<1>. DEFINE pc == IF elect[n].leaderFlag THEN "renew" ELSE "campaign"
            w == TakeTick(elect[n], pc)
<1>1. /\ elect' = [elect EXCEPT ![n] = w] /\ life' = [life EXCEPT ![n] = life[n]]
      /\ UNCHANGED <<setting, record, alive, late, beat, haunted>>
  BY NodeFacts DEF BeginRound
<1>2. elect[n].pc = "wait" /\ elect[n].timer.due
  BY DEF BeginRound, TickDue
<1>3. /\ w \in ElectType /\ w.timer.due = FALSE /\ w.timer.next = elect[n].timer.next
      /\ w.pc = pc /\ w.reply = elect[n].reply /\ w.spent = elect[n].spent
      /\ w.leaderFlag = elect[n].leaderFlag /\ w.adopted = elect[n].adopted
  BY NodeFacts, TakeTickElect
<1>4. elect[n].timer.next \in 1 .. Period /\ elect[n].leaderFlag \in BOOLEAN
  BY NodeFacts DEF ElectType, Ticker
<1>. HIDE DEF w
<1>5. WorkerOK(w)
  BY <1>2, <1>3, <1>4, NodeInvs, Times DEF WorkerOK
<1>6. life[n] \in Up /\ ~haunted[n] => LeaseOK(n, w, record)
  <2> SUFFICES ASSUME life[n] \in Up, ~haunted[n]
               PROVE  LeaseOK(n, w, record)
    OBVIOUS
  <2>1. elect[n].reply = "wait" /\ elect[n].spent = 0 /\ LeaseOK(n, elect[n], record)
    BY <1>2, NodeInvs DEF WorkerOK
  <2>2. record.ttl \in Nat /\ Slack \in Nat
    BY NodeFacts, Times DEF RecordType
  <2> QED BY <1>2, <1>3, <2>1, <2>2 DEF LeaseOK
<1>7. life[n] \in Up \cup {"closing"}
  BY <1>2, NodeInvs
<1>8. ~(setting.faults \/ setting.overlap) /\ ~setting.veto /\ record.holder = n => Owns(w)
  BY <1>2, <1>3, <1>4, NodeInvs DEF Owns, WorkerOK
<1> QED BY <1>1, <1>3, <1>5, <1>6, <1>7, <1>8, ElectStep

\* setLeaderFlag at the end of a round: the flag may be raised without
\* adoption only after a reply that confirms the record.
LEMMA EndStep ==
  ASSUME IInv, NEW n \in Nodes, NEW flag \in BOOLEAN, NEW byAdoption \in BOOLEAN, NEW v \in ElectType,
         v.timer = elect[n].timer \/ (v.timer.due = FALSE /\ v.timer.next = elect[n].timer.next),
         elect' = [elect EXCEPT ![n] = EndRound(v, flag, byAdoption)],
         life' = [life EXCEPT ![n] = Ready(life[n])],
         UNCHANGED <<setting, record, alive, late, beat, haunted>>,
         elect[n].pc # "exited",
         life[n] \in Up /\ ~haunted[n] /\ flag /\ ~byAdoption =>
            v.timer = elect[n].timer /\ elect[n].pc \in {"campaign", "renew"} /\ elect[n].reply = "ok",
         ~(setting.faults \/ setting.overlap) /\ ~setting.veto /\ record.holder = n => flag
  PROVE  IInv'
<1>. DEFINE w == EndRound(v, flag, byAdoption)
<1>1. /\ w \in ElectType /\ w.leaderFlag = flag /\ w.adopted = byAdoption
      /\ w.pc = "wait" /\ w.reply = "wait" /\ w.spent = 0 /\ w.timer = v.timer
  BY EndRoundFields
<1>2. elect' = [elect EXCEPT ![n] = w]
  OBVIOUS
<1>. HIDE DEF w
<1>3. elect[n].timer.next \in 1 .. Period /\ elect[n].timer.due \in BOOLEAN /\ elect[n].spent \in 0 .. RoundTime
  BY NodeFacts DEF ElectType, Ticker
<1>4. WorkerOK(w)
  BY <1>1 DEF WorkerOK
<1>5. life[n] \in Up /\ ~haunted[n] => LeaseOK(n, w, record)
  <2> SUFFICES ASSUME life[n] \in Up, ~haunted[n], flag, ~byAdoption
               PROVE  LeaseOK(n, w, record)
    BY <1>1 DEF LeaseOK
  <2>1. record.holder = n /\ record.ttl + elect[n].spent >= UnhealthyTime
    BY NodeInvs DEF LeaseOK
  <2>2. ~elect[n].timer.due => elect[n].timer.next + elect[n].spent <= Period
    BY NodeInvs DEF WorkerOK
  <2>3. w.timer = elect[n].timer /\ record.ttl \in Nat
    BY <1>1, NodeFacts DEF RecordType
  <2>4. record.ttl >= Slack + (IF w.timer.due THEN 0 ELSE w.timer.next)
    BY <1>3, <2>1, <2>2, <2>3, Times
  <2> QED BY <1>1, <2>1, <2>4 DEF LeaseOK
<1>6. life[n] \in Up \cup {"closing"}
  BY NodeInvs
<1>7. ~(setting.faults \/ setting.overlap) /\ ~setting.veto /\ record.holder = n => Owns(w)
  BY <1>1 DEF Owns
<1> QED BY <1>1, <1>2, <1>4, <1>5, <1>6, <1>7, ElectStep

\* runElectionOnce (elect.go:211) with CanElect false.
LEMMA StepDownStep ==
  ASSUME IInv, NEW n \in Nodes, StepDown(n)
  PROVE  IInv'
<1>. DEFINE v == TakeTick(elect[n], "wait")
<1>1. /\ elect' = [elect EXCEPT ![n] = EndRound(v, FALSE, FALSE)]
      /\ life' = [life EXCEPT ![n] = Ready(life[n])]
      /\ UNCHANGED <<setting, record, alive, late, beat, haunted>>
      /\ elect[n].pc # "exited" /\ setting.veto
  BY DEF StepDown, StepDownRound, TickDue
<1>2. v \in ElectType /\ v.timer.due = FALSE /\ v.timer.next = elect[n].timer.next
  BY NodeFacts, TakeTickElect
<1>. HIDE DEF v
<1> QED BY <1>1, <1>2, EndStep

\* campaign (elect.go:234) after the answer to SetNX.
LEMMA CampaignReplyStep ==
  ASSUME IInv, NEW n \in Nodes, CampaignReply(n)
  PROVE  IInv'
<1>. USE DEF CampaignReply
<1>1. /\ UNCHANGED <<setting, record, alive, late, beat, haunted>>
      /\ elect[n].pc = "campaign"
      /\ elect[n] \in ElectType
  BY NodeFacts
<1>2. CASE elect[n].reply = "ok"
  <2>1. /\ elect' = [elect EXCEPT ![n] = EndRound(elect[n], TRUE, FALSE)]
        /\ life' = [life EXCEPT ![n] = Ready(life[n])]
    BY <1>2 DEF End
  <2> QED BY <1>1, <1>2, <2>1, EndStep
<1>3. CASE elect[n].reply = "no"
  <2>. DEFINE w == [elect[n] EXCEPT !.pc = "check", !.reply = "wait"]
  <2>1. elect' = [elect EXCEPT ![n] = w] /\ life' = [life EXCEPT ![n] = life[n]]
    <3>1. elect' = [elect EXCEPT ![n].pc = "check", ![n].reply = "wait"] /\ life' = life
      BY <1>3
    <3>2. elect \in [Nodes -> ElectType]
      BY DEF IInv, TypeOK
    <3>3. \A f \in [Nodes -> ElectType] :
            [f EXCEPT ![n].pc = "check", ![n].reply = "wait"]
              = [f EXCEPT ![n] = [f[n] EXCEPT !.pc = "check", !.reply = "wait"]]
      OBVIOUS
    <3> QED BY <3>1, <3>2, <3>3, NodeFacts
  <2>2. /\ w \in ElectType /\ w.pc = "check" /\ w.reply = "wait" /\ w.leaderFlag = elect[n].leaderFlag
        /\ w.timer = elect[n].timer /\ w.spent = elect[n].spent
    BY <1>1 DEF ElectType
  <2>. HIDE DEF w
  <2>3. ~elect[n].leaderFlag
    BY <1>1, NodeInvs DEF WorkerOK
  <2>4. WorkerOK(w)
    BY <1>1, <2>2, <2>3, NodeInvs DEF WorkerOK
  <2>5. LeaseOK(n, w, record)
    BY <2>2, <2>3 DEF LeaseOK
  <2>6. life[n] \in Up \cup {"closing"}
    BY <1>1, NodeInvs
  <2>7. ~(setting.faults \/ setting.overlap) /\ ~setting.veto => record.holder # n
    BY <1>1, <1>3, <2>3, NodeInvs DEF Owns
  <2> QED BY <1>1, <2>1, <2>2, <2>4, <2>5, <2>6, <2>7, ElectStep
<1> QED BY <1>2, <1>3

\* campaign after reading the holder of the record: its own name makes the
\* node leader by adoption.
LEMMA HolderReplyStep ==
  ASSUME IInv, NEW n \in Nodes, HolderReply(n)
  PROVE  IInv'
<1>. DEFINE flag == elect[n].reply = "ok"
<1>1. /\ UNCHANGED <<setting, record, alive, late, beat, haunted>>
      /\ elect[n].pc = "check"
      /\ elect' = [elect EXCEPT ![n] = EndRound(elect[n], flag, flag)]
      /\ life' = [life EXCEPT ![n] = Ready(life[n])]
  BY DEF HolderReply, End
<1>2. elect[n] \in ElectType /\ flag \in BOOLEAN
  BY NodeFacts
<1>3. ~(setting.faults \/ setting.overlap) /\ ~setting.veto => record.holder # n
  BY <1>1, NodeInvs DEF Owns, WorkerOK
<1>. HIDE DEF flag
<1> QED BY <1>1, <1>2, <1>3, EndStep

\* continueLeader (elect.go:261) after the answer of the renewal script.
LEMMA RenewReplyStep ==
  ASSUME IInv, NEW n \in Nodes, RenewReply(n)
  PROVE  IInv'
<1>. DEFINE flag == elect[n].reply = "ok"
<1>1. /\ UNCHANGED <<setting, record, alive, late, beat, haunted>>
      /\ elect[n].pc = "renew" /\ elect[n].reply # "wait"
      /\ elect' = [elect EXCEPT ![n] = EndRound(elect[n], flag, FALSE)]
      /\ life' = [life EXCEPT ![n] = Ready(life[n])]
  BY DEF RenewReply, End
<1>2. elect[n] \in ElectType /\ flag \in BOOLEAN /\ (flag <=> elect[n].reply = "ok")
  BY NodeFacts
<1>3. ~(setting.faults \/ setting.overlap) /\ ~setting.veto /\ record.holder = n => flag
  BY <1>1, <1>2, NodeInvs DEF Owns, ElectType
<1>. HIDE DEF flag
<1> QED BY <1>1, <1>2, <1>3, EndStep

\* The client sends a command again whose reply was lost: the first one is
\* then late.
LEMMA ResendStep ==
  ASSUME IInv, NEW n \in Nodes, Resend(n)
  PROVE  IInv'
<1>. DEFINE w == [elect[n] EXCEPT !.reply = "wait"]
<1>1. /\ elect' = [elect EXCEPT ![n] = w] /\ life' = [life EXCEPT ![n] = life[n]]
      /\ UNCHANGED <<setting, record, alive, late, beat, haunted>>
      /\ setting.faults
  BY NodeFacts DEF Resend, IInv, TypeOK
<1>2. /\ w \in ElectType /\ w.pc = elect[n].pc /\ w.reply = "wait" /\ w.leaderFlag = elect[n].leaderFlag
      /\ w.timer = elect[n].timer /\ w.spent = elect[n].spent /\ w.adopted = elect[n].adopted
  BY NodeFacts DEF ElectType
<1>. HIDE DEF w
<1>3. WorkerOK(w)
  BY <1>2, NodeInvs DEF WorkerOK
<1>4. life[n] \in Up /\ ~haunted[n] => LeaseOK(n, w, record)
  BY <1>2, NodeInvs DEF LeaseOK
<1>5. life[n] \notin Up \cup {"closing"} => w.pc = "exited"
  BY <1>2, NodeInvs
<1> QED BY <1>1, <1>2, <1>3, <1>4, <1>5, ElectStep

\* NodeStep, for the steps of the heartbeat worker.
LEMMA BeatStep ==
  ASSUME IInv, NEW n \in Nodes, NEW b \in BeatType, NEW a \in 0 .. UnhealthyTime,
         UNCHANGED <<setting, record, life, elect, haunted>>,
         beat' = [beat EXCEPT ![n] = b],
         alive' = [alive EXCEPT ![n] = a],
         late' \subseteq Command,
         \A c \in late' \ late : c.node = n /\ c.op \notin {"Del", "DelBeat"},
         life[n] \in Up /\ ~haunted[n] => HeartOK(b, a),
         life[n] \notin Up \cup {"closing"} => b.pc = "exited",
         ~(setting.faults \/ setting.overlap) => late' = {} /\ (~setting.keepHeartbeat => a = 0),
         ~setting.keepHeartbeat => b.pc = "exited"
  PROVE  IInv'
<1>1. /\ setting' = setting /\ record' = record
      /\ life' = [life EXCEPT ![n] = life[n]] /\ elect' = [elect EXCEPT ![n] = elect[n]]
      /\ haunted' = [haunted EXCEPT ![n] = haunted[n]]
  BY NodeFacts
<1>2. /\ life[n] \in Lives /\ elect[n] \in ElectType /\ haunted[n] \in BOOLEAN
      /\ record' \in RecordType
  BY <1>1, NodeFacts
<1>3. /\ \A m \in Nodes \ {n} : record.holder = m => record'.holder = m /\ record'.ttl >= record.ttl
      /\ \A m \in Nodes \ {n} : record'.holder = m => record.holder = m
  <2>1. record.ttl \in Nat
    BY NodeFacts DEF RecordType
  <2> QED BY <1>1, <2>1
<1>4. /\ WorkerOK(elect[n])
      /\ life[n] \in Up /\ ~haunted[n] => LeaseOK(n, elect[n], record')
      /\ life[n] \in Up /\ ~haunted[n] => \A c \in late' : c.node = n => c.op \notin {"Del", "DelBeat"}
      /\ life[n] \notin Up \cup {"closing"} => elect[n].pc = "exited" /\ b.pc = "exited"
      /\ ~(setting.faults \/ setting.overlap) /\ ~setting.veto /\ record'.holder = n =>
           life[n] \in Up \cup {"closing"} /\ Owns(elect[n])
  BY <1>1, NodeInvs
<1>5. \A c \in late' \ late : c.node = n
  OBVIOUS
<1> QED BY <1>1, <1>2, <1>3, <1>4, <1>5, NodeStep

\* goHeartBeat (elect.go:281) reads its tick.
LEMMA BeginBeatStep ==
  ASSUME IInv, NEW n \in Nodes, BeginBeat(n)
  PROVE  IInv'
<1>. DEFINE b == TakeTick(beat[n], "set")
<1>1. /\ UNCHANGED <<setting, record, life, elect, haunted>>
      /\ beat' = [beat EXCEPT ![n] = b] /\ alive' = [alive EXCEPT ![n] = alive[n]] /\ late' = late
      /\ beat[n].pc = "wait" /\ beat[n].timer.due
  BY NodeFacts DEF BeginBeat, TickDue
<1>2. /\ b \in BeatType /\ b.pc = "set" /\ b.spent = beat[n].spent /\ b.ok = beat[n].ok
  BY NodeFacts, TakeTickBeat
<1>. HIDE DEF b
<1>3. /\ late' \subseteq Command /\ alive[n] \in 0 .. UnhealthyTime
      /\ \A c \in late' \ late : c.node = n /\ c.op \notin {"Del", "DelBeat"}
  BY <1>1, NodeFacts
<1>4. life[n] \in Up /\ ~haunted[n] => HeartOK(b, alive[n])
  BY <1>1, <1>2, <1>3, NodeInvs, Times DEF HeartOK
<1>5. /\ life[n] \in Up \cup {"closing"} /\ setting.keepHeartbeat
      /\ ~(setting.faults \/ setting.overlap) => late' = {}
  BY <1>1, NodeInvs
<1> QED BY <1>1, <1>2, <1>3, <1>4, <1>5, BeatStep

\* A heartbeat ends, and is confirmed only if the key was written for a full
\* lease.
LEMMA EndBeatStep ==
  ASSUME IInv, NEW n \in Nodes, NEW ok \in BOOLEAN, NEW a \in {alive[n], UnhealthyTime},
         UNCHANGED <<setting, record, life, elect, haunted>>,
         beat[n].pc = "set", ok => a = UnhealthyTime,
         beat' = [beat EXCEPT ![n] = EndBeat(beat[n], ok)],
         alive' = [alive EXCEPT ![n] = a],
         late' \subseteq Command,
         \A c \in late' \ late : c.node = n /\ c.op \notin {"Del", "DelBeat"},
         ~(setting.faults \/ setting.overlap) => late' = {}
  PROVE  IInv'
<1>. DEFINE b == EndBeat(beat[n], ok)
<1>1. b \in BeatType /\ b.ok = ok /\ b.pc = "wait" /\ b.spent = 0 /\ b.timer = beat[n].timer
  <2>1. beat[n] \in BeatType
    BY NodeFacts
  <2> QED BY <2>1, EndBeatFields
<1>2. beat' = [beat EXCEPT ![n] = b]
  OBVIOUS
<1>. HIDE DEF b
<1>3. a \in 0 .. UnhealthyTime
  BY NodeFacts, Times
<1>4. b.timer.next \in 1 .. Period
  BY <1>1 DEF BeatType, Ticker
<1>5. HeartOK(b, a)
  BY <1>1, <1>4, Times DEF HeartOK
<1>6. life[n] \in Up \cup {"closing"} /\ setting.keepHeartbeat
  BY NodeInvs
<1> QED BY <1>1, <1>2, <1>3, <1>5, <1>6, BeatStep

\* heartBeat (elect.go:301) succeeds.
LEMMA BeatDoneStep ==
  ASSUME IInv, NEW n \in Nodes, Beat(n)
  PROVE  IInv'
<1>1. /\ UNCHANGED <<setting, record, life, elect, haunted>> /\ late' = late
      /\ beat[n].pc = "set" /\ beat' = [beat EXCEPT ![n] = EndBeat(beat[n], TRUE)]
      /\ alive' = [alive EXCEPT ![n] = UnhealthyTime]
  BY DEF Beat
<1>2. late' \subseteq Command /\ \A c \in late' \ late : c.node = n /\ c.op \notin {"Del", "DelBeat"}
  BY <1>1, NodeFacts
<1>3. ~(setting.faults \/ setting.overlap) => late' = {}
  BY <1>1, NodeInvs
<1> QED BY <1>1, <1>2, <1>3, EndBeatStep

\* What is given up is added to what is late, or not.
LEMMA AbandonedCommands ==
  ASSUME IInv, NEW cmds \in SUBSET Command, NEW n \in Nodes, Abandon(cmds),
         \A c \in cmds : c.node = n
  PROVE  late' \subseteq Command /\ (\A c \in late' \ late : c \in cmds /\ c.node = n)
  BY NodeFacts DEF Abandon

\* Only Close sends deregistrations; the workers have none under way.
LEMMA SentCommands ==
  ASSUME NEW n \in Nodes
  PROVE  /\ Sent(n) \subseteq Command
         /\ \A c \in Sent(n) : c.node = n /\ c.op \notin {"Del", "DelBeat"}
  BY DEF Sent

\* heartBeat fails: the key may have been written, or may be written later.
LEMMA FailBeatStep ==
  ASSUME IInv, NEW n \in Nodes, FailBeat(n)
  PROVE  IInv'
<1>1. /\ UNCHANGED <<setting, record, life, elect, haunted>> /\ setting.faults
      /\ beat[n].pc = "set" /\ beat' = [beat EXCEPT ![n] = EndBeat(beat[n], FALSE)]
  BY DEF FailBeat
<1>2. /\ late' \subseteq Command
      /\ \A c \in late' \ late : c.node = n /\ c.op \notin {"Del", "DelBeat"}
  <2>1. CASE UNCHANGED late
    BY <2>1, NodeFacts
  <2>. DEFINE cmds == {c \in Sent(n) : c.op = "Beat"}
  <2>2. CASE Abandon(cmds)
    <3>1. cmds \in SUBSET Command /\ \A c \in cmds : c.node = n /\ c.op \notin {"Del", "DelBeat"}
      BY SentCommands
    <3>. HIDE DEF cmds
    <3> QED BY <2>2, <3>1, AbandonedCommands
  <2> QED BY <2>1, <2>2 DEF FailBeat
<1>3. PICK a \in {alive[n], UnhealthyTime} : alive' = [alive EXCEPT ![n] = a]
  BY NodeFacts DEF FailBeat
<1> QED BY <1>1, <1>2, <1>3, EndBeatStep

\* What SetNX, the renewal script and the deletion script do to the record.
LEMMA ServerOps ==
  ASSUME NEW r \in RecordType, NEW n \in Nodes
  PROVE  /\ SetNX(r, n) \in RecordType /\ Renew(r, n) \in RecordType /\ DelIfHolder(r, n) \in RecordType
         /\ r.ttl \in Nat
         /\ r = NoRecord => SetNX(r, n).holder = n /\ SetNX(r, n).ttl = UnhealthyTime /\ r.holder \notin Nodes
         /\ r # NoRecord => SetNX(r, n) = r
         /\ r.holder = n => Renew(r, n).holder = n /\ Renew(r, n).ttl = UnhealthyTime
                            /\ r.ttl <= UnhealthyTime
         /\ r.holder # n => Renew(r, n) = r /\ DelIfHolder(r, n) = r
         /\ DelIfHolder(r, n).holder # n
         /\ r.holder = n => DelIfHolder(r, n).holder \notin Nodes
<1>. USE NodeAssumption
<1>1. UnhealthyTime \in Nat /\ UnhealthyTime # 0 /\ UnhealthyTime \in 0 .. UnhealthyTime /\ 0 \in 0 .. UnhealthyTime
  BY TimeAssumption
<1>2. NoRecord \in RecordType /\ NoRecord.holder = NoNode
  BY <1>1 DEF RecordType, NoRecord
<1>3. r.ttl \in 0 .. UnhealthyTime /\ r.holder \in Nodes \cup {NoNode}
  BY DEF RecordType
<1>4. \A m \in Nodes : [holder |-> m, ttl |-> UnhealthyTime] \in RecordType
  BY <1>1 DEF RecordType, NoRecord
<1>5. r.holder = n => Renew(r, n) = [holder |-> n, ttl |-> UnhealthyTime]
  BY DEF Renew, RecordType
<1>6. Renew(r, n) \in RecordType /\ SetNX(r, n) \in RecordType
  BY <1>4, <1>5 DEF SetNX, Renew
<1>7. DelIfHolder(r, n) \in RecordType
  BY <1>2 DEF DelIfHolder
<1>8. r = NoRecord => SetNX(r, n).holder = n /\ SetNX(r, n).ttl = UnhealthyTime /\ r.holder \notin Nodes
  BY <1>2 DEF SetNX
<1>9. /\ r # NoRecord => SetNX(r, n) = r
      /\ r.holder # n => Renew(r, n) = r /\ DelIfHolder(r, n) = r
      /\ DelIfHolder(r, n).holder # n
      /\ r.holder = n => DelIfHolder(r, n).holder \notin Nodes
  BY <1>2 DEF SetNX, Renew, DelIfHolder
<1> QED BY <1>1, <1>3, <1>5, <1>6, <1>7, <1>8, <1>9

\* A command of n leaves the record of any other node alone; one that is no
\* deletion does not shorten the record of n.
Frame(r, s, n) ==
  /\ s \in RecordType
  /\ \A m \in Nodes \ {n} : r.holder = m => s.holder = m /\ s.ttl >= r.ttl
  /\ \A m \in Nodes \ {n} : s.holder = m => r.holder = m
\* The record of n is not given up or shortened.
Keeps(r, s, n) == r.holder = n => s.holder = n /\ s.ttl >= r.ttl

\* No command of a node touches the record of another node.
LEMMA ServerFrame ==
  ASSUME NEW r \in RecordType, NEW n \in Nodes
  PROVE  /\ Frame(r, r, n) /\ Keeps(r, r, n)
         /\ Frame(r, SetNX(r, n), n) /\ Keeps(r, SetNX(r, n), n)
         /\ Frame(r, Renew(r, n), n) /\ Keeps(r, Renew(r, n), n)
         /\ Frame(r, DelIfHolder(r, n), n)
<1>2. UnhealthyTime \in Nat /\ r.ttl \in Nat
  BY TimeAssumption, ServerOps
<1>3. Frame(r, r, n) /\ Keeps(r, r, n)
  BY <1>2 DEF Frame, Keeps
<1>4. Frame(r, SetNX(r, n), n) /\ Keeps(r, SetNX(r, n), n)
  BY <1>2, ServerOps DEF Frame, Keeps
<1>5. Frame(r, Renew(r, n), n) /\ Keeps(r, Renew(r, n), n)
  BY <1>2, ServerOps DEF Frame, Keeps
<1>6. Frame(r, DelIfHolder(r, n), n)
  <2>1. CASE r.holder = n
    BY <1>2, <2>1, ServerOps DEF Frame
  <2>2. CASE r.holder # n
    BY <1>2, <2>2, ServerOps DEF Frame
  <2> QED BY <2>1, <2>2
<1> QED BY <1>3, <1>4, <1>5, <1>6

\* The server executes the command the election worker waits for.
LEMMA ExecStep ==
  ASSUME IInv, NEW n \in Nodes, Exec(n)
  PROVE  IInv'
<1>. DEFINE v == IF (IF elect[n].pc = "campaign" THEN record = NoRecord ELSE record.holder = n)
                 THEN "ok" ELSE "no"
            w == [elect[n] EXCEPT !.reply = v]
<1>1. elect[n].pc \in {"campaign", "renew", "check"} /\ elect[n].reply = "wait"
  BY DEF Exec
<1>2. /\ elect' = [elect EXCEPT ![n].reply = v]
      /\ record' = CASE elect[n].pc = "campaign" -> SetNX(record, n)
                     [] elect[n].pc = "renew" -> Renew(record, n)
                     [] elect[n].pc = "check" -> record
      /\ UNCHANGED <<setting, alive, late, life, beat, haunted>>
  BY DEF Exec
<1>. HIDE DEF v
<1>3. v \in {"ok", "no"} /\ (v = "ok" <=> IF elect[n].pc = "campaign" THEN record = NoRecord ELSE record.holder = n)
  BY DEF v
<1>4. elect \in [Nodes -> ElectType]
  BY DEF IInv, TypeOK
<1>5. /\ elect' = [elect EXCEPT ![n] = w] /\ w \in ElectType /\ w.reply = v
      /\ w.pc = elect[n].pc /\ w.timer = elect[n].timer /\ w.spent = elect[n].spent
      /\ w.leaderFlag = elect[n].leaderFlag /\ w.adopted = elect[n].adopted
  <2>1. elect' = [elect EXCEPT ![n] = w]
    BY <1>2, <1>4
  <2> QED BY <1>3, <1>4, <2>1 DEF ElectType
<1>. HIDE DEF w
<1>6. record \in RecordType /\ record' \in {record, SetNX(record, n), Renew(record, n)}
  BY <1>1, <1>2, NodeFacts
<1>7. /\ record' \in RecordType
      /\ \A m \in Nodes \ {n} : record.holder = m => record'.holder = m /\ record'.ttl >= record.ttl
      /\ \A m \in Nodes \ {n} : record'.holder = m => record.holder = m
  <2>1. Frame(record, record', n)
    BY <1>6, ServerFrame
  <2> QED BY <2>1 DEF Frame
<1>8. WorkerOK(w)
  BY <1>1, <1>5, NodeInvs DEF WorkerOK
<1>9. elect[n].spent \in Nat /\ UnhealthyTime \in Nat /\ Slack \in Nat /\ Slack <= UnhealthyTime
  BY NodeFacts, Times DEF ElectType
<1>10. life[n] \in Up /\ ~haunted[n] => LeaseOK(n, w, record')
  <2> SUFFICES ASSUME life[n] \in Up, ~haunted[n]
               PROVE  LeaseOK(n, w, record')
    OBVIOUS
  <2>1. LeaseOK(n, elect[n], record) /\ WorkerOK(elect[n])
    BY NodeInvs
  <2>2. CASE elect[n].pc = "campaign"
    <3>1. ~w.leaderFlag /\ w.pc = "campaign"
      BY <1>5, <2>1, <2>2 DEF WorkerOK
    <3>2. w.reply = "ok" => record'.holder = n /\ record'.ttl = UnhealthyTime
      BY <1>2, <1>3, <1>5, <1>6, <2>2, ServerOps
    <3> QED BY <1>5, <1>9, <3>1, <3>2 DEF LeaseOK
  <2>3. CASE elect[n].pc = "renew"
    <3>1. record.holder = n => record'.holder = n /\ record'.ttl = UnhealthyTime
      BY <1>2, <1>6, <2>3, ServerOps
    <3>2. w.reply = "ok" => record.holder = n
      BY <1>3, <1>5, <2>3
    <3>3. w.leaderFlag /\ ~w.adopted => record.holder = n
      BY <1>5, <2>1 DEF LeaseOK
    <3> QED BY <1>5, <1>9, <2>3, <3>1, <3>2, <3>3 DEF LeaseOK
  <2>4. CASE elect[n].pc = "check"
    BY <1>5, <2>1, <2>4 DEF LeaseOK, WorkerOK
  <2> QED BY <1>1, <2>2, <2>3, <2>4
<1>11. life[n] \in Up \cup {"closing"}
  BY <1>1, NodeInvs
<1>12. ~(setting.faults \/ setting.overlap) /\ ~setting.veto /\ record'.holder = n => Owns(w)
  <2> SUFFICES ASSUME ~(setting.faults \/ setting.overlap), ~setting.veto, record'.holder = n
               PROVE  Owns(w)
    OBVIOUS
  <2>1. record.holder = n => Owns(elect[n])
    BY NodeInvs
  <2>2. WorkerOK(elect[n])
    BY NodeInvs
  <2>3. CASE elect[n].pc = "campaign"
    <3>1. record.holder # n
      BY <1>1, <2>1, <2>2, <2>3 DEF Owns, WorkerOK
    <3>2. record = NoRecord
      BY <1>2, <1>6, <2>3, <3>1, ServerOps
    <3> QED BY <1>3, <1>5, <2>3, <3>2 DEF Owns
  <2>4. CASE elect[n].pc = "renew"
    <3>1. record.holder = n
      BY <1>2, <1>6, <2>4, ServerOps
    <3> QED BY <1>3, <1>5, <2>1, <2>4, <3>1 DEF Owns
  <2>5. CASE elect[n].pc = "check"
    BY <1>2, <2>1, <2>2, <2>5 DEF Owns, WorkerOK
  <2> QED BY <1>1, <2>3, <2>4, <2>5
<1>13. /\ life' = [life EXCEPT ![n] = life[n]] /\ beat' = [beat EXCEPT ![n] = beat[n]]
       /\ haunted' = [haunted EXCEPT ![n] = haunted[n]] /\ alive' = [alive EXCEPT ![n] = alive[n]]
       /\ setting' = setting
       /\ life[n] \in Lives /\ beat[n] \in BeatType /\ haunted[n] \in BOOLEAN
       /\ alive[n] \in 0 .. UnhealthyTime
       /\ late' \subseteq Command /\ (\A c \in late' \ late : c.node = n)
  BY <1>2, NodeFacts
<1>14. /\ life[n] \in Up /\ ~haunted[n] => HeartOK(beat[n], alive[n])
       /\ life[n] \in Up /\ ~haunted[n] => \A c \in late' : c.node = n => c.op \notin {"Del", "DelBeat"}
       /\ ~(setting.faults \/ setting.overlap) => late' = {} /\ (~setting.keepHeartbeat => alive[n] = 0)
       /\ ~setting.keepHeartbeat => beat[n].pc = "exited"
  BY <1>2, NodeInvs
<1> QED BY <1>5, <1>7, <1>8, <1>10, <1>11, <1>12, <1>13, <1>14, NodeStep

\* The round fails: a leader steps down, and its command may be late.
LEMMA FailRoundStep ==
  ASSUME IInv, NEW n \in Nodes, FailRound(n)
  PROVE  IInv'
<1>. DEFINE w == EndRound(elect[n], FALSE, FALSE)
            cmds == {c \in Sent(n) : c.op # "Beat"}
            l == Ready(life[n])
<1>1. /\ UNCHANGED <<setting, record, alive, beat, haunted>> /\ setting.faults
      /\ elect' = [elect EXCEPT ![n] = w] /\ life' = [life EXCEPT ![n] = l]
      /\ elect[n].pc # "exited" /\ Abandon(cmds)
  BY DEF FailRound, End
<1>2. elect[n] \in ElectType
  BY NodeFacts
<1>3. w \in ElectType /\ ~w.leaderFlag /\ w.pc = "wait" /\ w.reply = "wait" /\ w.spent = 0
  BY <1>2, EndRoundFields
<1>4. cmds \in SUBSET Command /\ \A c \in cmds : c.node = n /\ c.op \notin {"Del", "DelBeat"}
  BY SentCommands
<1>5. l \in Lives /\ (l \in Up <=> life[n] \in Up) /\ (l = "closing" <=> life[n] = "closing")
  BY NodeFacts DEF Ready, Lives, Up
<1>. HIDE DEF w, cmds, l
<1>6. /\ late' \subseteq Command
      /\ \A c \in late' \ late : c.node = n /\ c.op \notin {"Del", "DelBeat"}
  BY <1>1, <1>4, AbandonedCommands
<1>7. WorkerOK(w) /\ LeaseOK(n, w, record')
  BY <1>3 DEF WorkerOK, LeaseOK
<1>8. /\ record \in RecordType /\ record' = record
      /\ beat' = [beat EXCEPT ![n] = beat[n]] /\ haunted' = [haunted EXCEPT ![n] = haunted[n]]
      /\ alive' = [alive EXCEPT ![n] = alive[n]] /\ setting' = setting
      /\ beat[n] \in BeatType /\ haunted[n] \in BOOLEAN /\ alive[n] \in 0 .. UnhealthyTime
  BY <1>1, NodeFacts
<1>9. /\ record' \in RecordType
      /\ \A m \in Nodes \ {n} : record.holder = m => record'.holder = m /\ record'.ttl >= record.ttl
      /\ \A m \in Nodes \ {n} : record'.holder = m => record.holder = m
  BY <1>8, ServerFrame DEF Frame
<1>10. l \in Up \cup {"closing"}
  BY <1>1, <1>5, NodeInvs
<1>11. /\ l \in Up /\ ~haunted[n] => HeartOK(beat[n], alive[n])
       /\ l \in Up /\ ~haunted[n] => \A c \in late' : c.node = n => c.op \notin {"Del", "DelBeat"}
       /\ ~setting.keepHeartbeat => beat[n].pc = "exited"
  BY <1>5, <1>6, NodeInvs
<1>12. /\ \A c \in late' \ late : c.node = n
       /\ l \notin Up \cup {"closing"} => w.pc = "exited" /\ beat[n].pc = "exited"
       /\ ~(setting.faults \/ setting.overlap) => late' = {} /\ (~setting.keepHeartbeat => alive[n] = 0)
       /\ ~(setting.faults \/ setting.overlap) /\ ~setting.veto /\ record'.holder = n =>
            l \in Up \cup {"closing"} /\ Owns(w)
  BY <1>1, <1>6, <1>10
<1>13. l \in Up /\ ~haunted[n] => LeaseOK(n, w, record')
  BY <1>7
<1>14. /\ setting' = setting /\ life' = [life EXCEPT ![n] = l] /\ elect' = [elect EXCEPT ![n] = w]
       /\ l \in Lives /\ w \in ElectType /\ WorkerOK(w) /\ late' \subseteq Command
  BY <1>1, <1>3, <1>5, <1>6, <1>7
<1> QED BY <1>8, <1>9, <1>11, <1>12, <1>13, <1>14, NodeStep

\* Close (elect.go:175) is called.
LEMMA CloseStep ==
  ASSUME IInv, NEW n \in Nodes, Close(n)
  PROVE  IInv'
<1>1. /\ life' = [life EXCEPT ![n] = "closing"] /\ life[n] = "running"
      /\ setting' = setting /\ record' = record /\ late' = late
      /\ elect' = [elect EXCEPT ![n] = elect[n]] /\ beat' = [beat EXCEPT ![n] = beat[n]]
      /\ haunted' = [haunted EXCEPT ![n] = haunted[n]] /\ alive' = [alive EXCEPT ![n] = alive[n]]
  BY NodeFacts DEF Close
<1>2. /\ "closing" \in Lives /\ elect[n] \in ElectType /\ beat[n] \in BeatType
      /\ haunted[n] \in BOOLEAN /\ alive[n] \in 0 .. UnhealthyTime
      /\ late' \subseteq Command /\ (\A c \in late' \ late : c.node = n) /\ record \in RecordType
  BY <1>1, NodeFacts DEF Lives
<1>3. Frame(record, record', n)
  BY <1>1, <1>2, ServerFrame
<1>4. /\ record' \in RecordType
      /\ \A m \in Nodes \ {n} : record.holder = m => record'.holder = m /\ record'.ttl >= record.ttl
      /\ \A m \in Nodes \ {n} : record'.holder = m => record.holder = m
  BY <1>3 DEF Frame
<1>5. "closing" \notin Up
  BY DEF Up
<1>6. /\ WorkerOK(elect[n])
      /\ ~(setting.faults \/ setting.overlap) => late' = {} /\ (~setting.keepHeartbeat => alive[n] = 0)
      /\ ~(setting.faults \/ setting.overlap) /\ ~setting.veto /\ record'.holder = n => Owns(elect[n])
      /\ ~setting.keepHeartbeat => beat[n].pc = "exited"
  BY <1>1, NodeInvs
<1> QED BY <1>1, <1>2, <1>4, <1>5, <1>6, NodeStep

\* A worker sees the context of Close cancelled and returns.
LEMMA ExitStep ==
  ASSUME IInv, NEW n \in Nodes, Exit(n)
  PROVE  IInv'
<1>1. /\ UNCHANGED <<setting, record, alive, late, life, haunted>> /\ life[n] = "closing"
      /\ late' = late /\ life' = [life EXCEPT ![n] = life[n]] /\ alive' = [alive EXCEPT ![n] = alive[n]]
  BY NodeFacts DEF Exit
<1>2. "closing" \notin Up
  BY DEF Up
<1>3. NewTicker \in Ticker
  BY NewWorkers
<1>4. CASE elect[n].pc = "wait" /\ elect' = [elect EXCEPT ![n] = Stopped(elect[n])] /\ UNCHANGED beat
  <2>. DEFINE w == Stopped(elect[n])
  <2>1. w \in ElectType /\ w.pc = "exited" /\ w.leaderFlag = elect[n].leaderFlag
    BY <1>3, NodeFacts DEF Stopped, ElectType
  <2>2. elect' = [elect EXCEPT ![n] = w]
    BY <1>4
  <2>. HIDE DEF w
  <2>3. WorkerOK(w)
    BY <2>1 DEF WorkerOK
  <2>4. ~(setting.faults \/ setting.overlap) /\ ~setting.veto /\ record.holder = n => Owns(w)
    BY <1>4, <2>1, NodeInvs DEF Owns
  <2> QED BY <1>1, <1>2, <1>4, <2>1, <2>2, <2>3, <2>4, ElectStep
<1>5. CASE beat[n].pc = "wait" /\ beat' = [beat EXCEPT ![n] = Stopped(beat[n])] /\ UNCHANGED elect
  <2>. DEFINE b == Stopped(beat[n])
  <2>1. b \in BeatType /\ b.pc = "exited"
    BY <1>3, NodeFacts DEF Stopped, BeatType
  <2>2. beat' = [beat EXCEPT ![n] = b]
    BY <1>5
  <2>. HIDE DEF b
  <2>3. /\ late' \subseteq Command /\ alive[n] \in 0 .. UnhealthyTime
        /\ \A c \in late' \ late : c.node = n /\ c.op \notin {"Del", "DelBeat"}
    BY <1>1, NodeFacts
  <2>4. ~(setting.faults \/ setting.overlap) => late' = {} /\ (~setting.keepHeartbeat => alive[n] = 0)
    BY <1>1, NodeInvs
  <2> QED BY <1>1, <1>2, <1>5, <2>1, <2>2, <2>3, <2>4, BeatStep
<1> QED BY <1>4, <1>5 DEF Exit

\* Close deletes the record, if the flag says it is its own.
LEMMA DeregisterLeaderStep ==
  ASSUME IInv, NEW n \in Nodes, DeregisterLeader(n)
  PROVE  IInv'
<1>1. /\ life' = [life EXCEPT ![n] = "deregistering"]
      /\ setting' = setting
      /\ elect' = [elect EXCEPT ![n] = elect[n]] /\ beat' = [beat EXCEPT ![n] = beat[n]]
      /\ haunted' = [haunted EXCEPT ![n] = haunted[n]] /\ alive' = [alive EXCEPT ![n] = alive[n]]
      /\ elect[n].pc = "exited" /\ beat[n].pc = "exited"
  BY NodeFacts DEF DeregisterLeader, WorkersDone
<1>2. /\ "deregistering" \in Lives /\ elect[n] \in ElectType /\ beat[n] \in BeatType
      /\ haunted[n] \in BOOLEAN /\ alive[n] \in 0 .. UnhealthyTime /\ record \in RecordType
  BY <1>1, NodeFacts DEF Lives
<1>3. Frame(record, record', n)
  BY <1>2, ServerFrame DEF DeregisterLeader
<1>4. /\ record' \in RecordType
      /\ \A m \in Nodes \ {n} : record.holder = m => record'.holder = m /\ record'.ttl >= record.ttl
      /\ \A m \in Nodes \ {n} : record'.holder = m => record.holder = m
  BY <1>3 DEF Frame
<1>5. "deregistering" \notin Up
  BY DEF Up
<1>6. late' \subseteq Command /\ (\A c \in late' \ late : c.node = n)
  <2>1. CASE late' = late
    BY <2>1, NodeFacts
  <2>. DEFINE cmds == {[op |-> "Del", node |-> n]}
  <2>2. CASE Abandon(cmds)
    <3>1. cmds \in SUBSET Command /\ \A c \in cmds : c.node = n
      BY DEF Command
    <3>. HIDE DEF cmds
    <3> QED BY <2>2, <3>1, AbandonedCommands
  <2> QED BY <2>1, <2>2 DEF DeregisterLeader
<1>7. ~(setting.faults \/ setting.overlap) => late' = {}
  BY NodeInvs DEF DeregisterLeader
<1>8. ~(setting.faults \/ setting.overlap) /\ ~setting.veto => record'.holder # n
  <2> SUFFICES ASSUME ~(setting.faults \/ setting.overlap), ~setting.veto
               PROVE  record'.holder # n
    OBVIOUS
  <2>1. CASE elect[n].leaderFlag
    <3>1. record' = DelIfHolder(record, n)
      BY <2>1 DEF DeregisterLeader
    <3> QED BY <1>2, <3>1, ServerOps
  <2>2. CASE ~elect[n].leaderFlag
    <3>1. record' = record
      BY <2>2 DEF DeregisterLeader
    <3> QED BY <1>1, <2>2, <3>1, NodeInvs DEF Owns
  <2> QED BY <2>1, <2>2
<1>9. /\ WorkerOK(elect[n])
      /\ ~(setting.faults \/ setting.overlap) => late' = {} /\ (~setting.keepHeartbeat => alive[n] = 0)
  BY <1>7, NodeInvs
<1> QED BY <1>1, <1>2, <1>4, <1>5, <1>6, <1>8, <1>9, NodeStep

\* Close deletes the heartbeat.
LEMMA DeregisterHeartbeatStep ==
  ASSUME IInv, NEW n \in Nodes, DeregisterHeartbeat(n)
  PROVE  IInv'
<1>1. /\ life' = [life EXCEPT ![n] = "closed"] /\ life[n] = "deregistering"
      /\ setting' = setting /\ record' = record
      /\ elect' = [elect EXCEPT ![n] = elect[n]] /\ beat' = [beat EXCEPT ![n] = beat[n]]
      /\ haunted' = [haunted EXCEPT ![n] = haunted[n]]
  BY NodeFacts DEF DeregisterHeartbeat
<1>2. /\ "closed" \in Lives /\ elect[n] \in ElectType /\ beat[n] \in BeatType
      /\ haunted[n] \in BOOLEAN /\ record \in RecordType
  BY <1>1, NodeFacts DEF Lives
<1>3. Frame(record, record', n)
  BY <1>1, <1>2, ServerFrame
<1>4. /\ record' \in RecordType
      /\ \A m \in Nodes \ {n} : record.holder = m => record'.holder = m /\ record'.ttl >= record.ttl
      /\ \A m \in Nodes \ {n} : record'.holder = m => record.holder = m
  BY <1>3 DEF Frame
<1>5. "closed" \notin Up /\ life[n] \notin Up \cup {"closing"}
  BY <1>1 DEF Up
<1>6. late' \subseteq Command /\ (\A c \in late' \ late : c.node = n)
  <2>1. CASE late' = late
    BY <2>1, NodeFacts
  <2>. DEFINE cmds == {[op |-> "DelBeat", node |-> n]}
  <2>2. CASE Abandon(cmds)
    <3>1. cmds \in SUBSET Command /\ \A c \in cmds : c.node = n
      BY DEF Command
    <3>. HIDE DEF cmds
    <3> QED BY <2>2, <3>1, AbandonedCommands
  <2> QED BY <2>1, <2>2 DEF DeregisterHeartbeat
<1>7. PICK a \in {0, alive[n]} :
        /\ alive' = [alive EXCEPT ![n] = a]
        /\ ~(setting.faults \/ setting.overlap) /\ ~setting.keepHeartbeat => a = alive[n]
  BY NodeFacts DEF DeregisterHeartbeat
<1>8. a \in 0 .. UnhealthyTime
  BY <1>7, NodeFacts, Times
<1>9. /\ WorkerOK(elect[n]) /\ elect[n].pc = "exited" /\ beat[n].pc = "exited"
      /\ ~(setting.faults \/ setting.overlap) => late' = {} /\ (~setting.keepHeartbeat => a = 0)
      /\ ~(setting.faults \/ setting.overlap) /\ ~setting.veto => record'.holder # n
  BY <1>1, <1>5, <1>7, NodeInvs DEF DeregisterHeartbeat
<1>10. /\ "closed" \in Up /\ ~haunted[n] => LeaseOK(n, elect[n], record')
       /\ "closed" \in Up /\ ~haunted[n] => HeartOK(beat[n], a)
       /\ "closed" \in Up /\ ~haunted[n] => \A c \in late' : c.node = n => c.op \notin {"Del", "DelBeat"}
  BY <1>5
<1>11. /\ "closed" \notin Up \cup {"closing"} => elect[n].pc = "exited" /\ beat[n].pc = "exited"
       /\ ~(setting.faults \/ setting.overlap) /\ ~setting.veto /\ record'.holder = n =>
            "closed" \in Up \cup {"closing"} /\ Owns(elect[n])
       /\ ~setting.keepHeartbeat => beat[n].pc = "exited"
  BY <1>9
<1>12. alive' = [alive EXCEPT ![n] = a]
  BY <1>7
<1>13. WorkerOK(elect[n]) /\ (~(setting.faults \/ setting.overlap) => late' = {} /\ (~setting.keepHeartbeat => a = 0))
  BY <1>9
<1> QED BY <1>1, <1>2, <1>4, <1>6, <1>8, <1>10, <1>11, <1>12, <1>13, NodeStep

\* EnableElection starts the workers, with nothing claimed.
LEMMA StartStep ==
  ASSUME IInv, NEW n \in Nodes, Start(n)
  PROVE  IInv'
<1>. DEFINE w == [NoElect EXCEPT !.pc = "wait"]
            b == IF setting.keepHeartbeat THEN [NoBeat EXCEPT !.pc = "wait"] ELSE NoBeat
            h == \E c \in late' : c.node = n /\ c.op \in {"Del", "DelBeat"}
<1>1. /\ life' = [life EXCEPT ![n] = "starting"]
      /\ \/ late' = late /\ life[n] \in {"new", "crashed", "closed"}
         \/ late' = late \cup Remaining(n) /\ setting.overlap
      /\ setting' = setting /\ record' = record
      /\ elect' = [elect EXCEPT ![n] = w] /\ beat' = [beat EXCEPT ![n] = b]
      /\ haunted' = [haunted EXCEPT ![n] = h] /\ alive' = [alive EXCEPT ![n] = alive[n]]
  BY NodeFacts DEF Start
<1>2. /\ "starting" \in Lives /\ h \in BOOLEAN /\ alive[n] \in 0 .. UnhealthyTime
      /\ late' \subseteq Command /\ (\A c \in late' \ late : c.node = n) /\ record \in RecordType
  BY <1>1, NodeFacts, SentCommands DEF Lives, Remaining
<1>3. w \in ElectType /\ ~w.leaderFlag /\ w.pc = "wait" /\ w.reply = "wait" /\ w.spent = 0
  BY NewWorkers DEF NoElect
<1>4. b \in BeatType /\ ~b.ok /\ b.spent = 0 /\ b.pc \in {"wait", "exited"} /\ (~setting.keepHeartbeat => b.pc = "exited")
  BY NewWorkers DEF NoBeat
<1>5. h \/ \A c \in late' : c.node = n => c.op \notin {"Del", "DelBeat"}
  BY <1>1
<1>. HIDE DEF w, b, h
<1>6. Frame(record, record', n)
  BY <1>1, <1>2, ServerFrame
<1>7. /\ record' \in RecordType
      /\ \A m \in Nodes \ {n} : record.holder = m => record'.holder = m /\ record'.ttl >= record.ttl
      /\ \A m \in Nodes \ {n} : record'.holder = m => record.holder = m
  BY <1>6 DEF Frame
<1>8. WorkerOK(w) /\ LeaseOK(n, w, record') /\ HeartOK(b, alive[n])
  BY <1>3, <1>4 DEF WorkerOK, LeaseOK, HeartOK
<1>9. /\ ~(setting.faults \/ setting.overlap) => late' = {} /\ (~setting.keepHeartbeat => alive[n] = 0)
      /\ ~(setting.faults \/ setting.overlap) /\ ~setting.veto => record'.holder # n
  BY <1>1, NodeInvs DEF Up
<1>10. "starting" \in Up
  BY DEF Up
<1>11. /\ "starting" \in Up /\ ~h => LeaseOK(n, w, record')
       /\ "starting" \in Up /\ ~h => HeartOK(b, alive[n])
       /\ "starting" \in Up /\ ~h => \A c \in late' : c.node = n => c.op \notin {"Del", "DelBeat"}
       /\ "starting" \notin Up \cup {"closing"} => w.pc = "exited" /\ b.pc = "exited"
       /\ ~(setting.faults \/ setting.overlap) /\ ~setting.veto /\ record'.holder = n =>
            "starting" \in Up \cup {"closing"} /\ Owns(w)
       /\ ~setting.keepHeartbeat => b.pc = "exited"
       /\ w \in ElectType /\ b \in BeatType
  BY <1>3, <1>4, <1>5, <1>8, <1>9, <1>10
<1> QED BY <1>1, <1>2, <1>7, <1>8, <1>9, <1>11, NodeStep

\* A node crashes: what its workers have sent may be executed late.
LEMMA CrashStep ==
  ASSUME IInv, NEW n \in Nodes, Crash(n)
  PROVE  IInv'
<1>1. /\ life' = [life EXCEPT ![n] = "crashed"] /\ setting.faults
      /\ setting' = setting /\ record' = record
      /\ elect' = [elect EXCEPT ![n] = NoElect] /\ beat' = [beat EXCEPT ![n] = NoBeat]
      /\ haunted' = [haunted EXCEPT ![n] = FALSE] /\ alive' = [alive EXCEPT ![n] = alive[n]]
  BY NodeFacts DEF Crash
<1>2. /\ "crashed" \in Lives /\ NoElect \in ElectType /\ NoBeat \in BeatType /\ alive[n] \in 0 .. UnhealthyTime
      /\ record \in RecordType /\ FALSE \in BOOLEAN
  BY NodeFacts, NewWorkers DEF Lives
<1>3. Frame(record, record', n)
  BY <1>1, <1>2, ServerFrame
<1>4. /\ record' \in RecordType
      /\ \A m \in Nodes \ {n} : record.holder = m => record'.holder = m /\ record'.ttl >= record.ttl
      /\ \A m \in Nodes \ {n} : record'.holder = m => record.holder = m
  BY <1>3 DEF Frame
<1>5. late' \subseteq Command /\ (\A c \in late' \ late : c.node = n)
  <2>1. PICK cmds \in SUBSET Sent(n) : Abandon(cmds)
    BY DEF Crash
  <2>2. cmds \in SUBSET Command /\ \A c \in cmds : c.node = n
    BY SentCommands
  <2> QED BY <2>1, <2>2, AbandonedCommands
<1>6. "crashed" \notin Up
  BY DEF Up
<1>7. NoElect.pc = "exited" /\ NoBeat.pc = "exited" /\ WorkerOK(NoElect)
  BY DEF NoElect, NoBeat, WorkerOK
<1>. HIDE DEF NoElect, NoBeat
<1> QED BY <1>1, <1>2, <1>4, <1>5, <1>6, <1>7, NodeStep

\* A late command is executed or lost: a claim or renewal of a node that is up
\* can only lengthen its lease, and a deregistration hits a haunted node at
\* most.
LEMMA LateCommandStep ==
  ASSUME IInv, NEW c \in late, LateCommand(c)
  PROVE  IInv'
<1>. DEFINE n == c.node
<1>1. c \in Command /\ n \in Nodes /\ c.op \in {"SetNX", "Renew", "Del", "Beat", "DelBeat"}
  BY DEF IInv, TypeOK, Command
<1>2. /\ UNCHANGED <<setting, life, elect, beat, haunted>> /\ late' = late \ {c}
      /\ record' \in {record, SetNX(record, n), Renew(record, n), DelIfHolder(record, n)}
      /\ c.op # "Del" /\ record' # record => record' \in {SetNX(record, n), Renew(record, n)}
      /\ \/ alive' = alive
         \/ alive' = [alive EXCEPT ![n] = UnhealthyTime]
         \/ alive' = [alive EXCEPT ![n] = 0] /\ c.op = "DelBeat"
  BY <1>1 DEF LateCommand
<1>. HIDE DEF n
<1>3. /\ setting' = setting
      /\ life' = [life EXCEPT ![n] = life[n]]
      /\ elect' = [elect EXCEPT ![n] = elect[n]] /\ beat' = [beat EXCEPT ![n] = beat[n]]
      /\ haunted' = [haunted EXCEPT ![n] = haunted[n]]
      /\ life[n] \in Lives /\ elect[n] \in ElectType /\ beat[n] \in BeatType
      /\ haunted[n] \in BOOLEAN /\ record \in RecordType /\ late' \subseteq Command
      /\ \A d \in late' \ late : d.node = n
  BY <1>1, <1>2, NodeFacts
<1>4. setting.faults \/ setting.overlap
  BY <1>1, NodeInvs
<1>5. Frame(record, record', n) /\ (c.op # "Del" => Keeps(record, record', n))
  BY <1>1, <1>2, <1>3, ServerFrame
<1>6. /\ record' \in RecordType
      /\ \A m \in Nodes \ {n} : record.holder = m => record'.holder = m /\ record'.ttl >= record.ttl
      /\ \A m \in Nodes \ {n} : record'.holder = m => record.holder = m
  BY <1>5 DEF Frame
<1>7. PICK a \in {alive[n], UnhealthyTime, 0} :
         alive' = [alive EXCEPT ![n] = a] /\ (c.op # "DelBeat" => a \in {alive[n], UnhealthyTime})
  BY <1>1, <1>2, NodeFacts
<1>8. a \in 0 .. UnhealthyTime /\ alive[n] \in 0 .. UnhealthyTime
  BY <1>1, <1>7, NodeFacts, Times
<1>9. life[n] \in Up /\ ~haunted[n] => c.op \notin {"Del", "DelBeat"}
  BY <1>1, NodeInvs DEF n
<1>10. life[n] \in Up /\ ~haunted[n] => LeaseOK(n, elect[n], record')
  <2> SUFFICES ASSUME life[n] \in Up, ~haunted[n]
               PROVE  LeaseOK(n, elect[n], record')
    OBVIOUS
  <2>1. LeaseOK(n, elect[n], record) /\ Keeps(record, record', n)
    BY <1>1, <1>5, <1>9, NodeInvs
  <2> QED BY <1>1, <1>3, <1>6, <2>1, LeaseFrame DEF Keeps
<1>11. life[n] \in Up /\ ~haunted[n] => HeartOK(beat[n], a)
  <2> SUFFICES ASSUME life[n] \in Up, ~haunted[n]
               PROVE  HeartOK(beat[n], a)
    OBVIOUS
  <2>1. HeartOK(beat[n], alive[n]) /\ a \in Nat /\ alive[n] \in Nat /\ a >= alive[n]
    BY <1>1, <1>7, <1>8, <1>9, NodeInvs, Times
  <2>2. beat[n].timer.next \in Nat /\ beat[n].spent \in Nat /\ Slack \in Nat
    BY <1>3, Times DEF BeatType, Ticker
  <2> QED BY <2>1, <2>2 DEF HeartOK
<1>12. /\ WorkerOK(elect[n])
       /\ life[n] \in Up /\ ~haunted[n] => \A d \in late' : d.node = n => d.op \notin {"Del", "DelBeat"}
       /\ life[n] \notin Up \cup {"closing"} => elect[n].pc = "exited" /\ beat[n].pc = "exited"
       /\ ~setting.keepHeartbeat => beat[n].pc = "exited"
  BY <1>1, <1>2, NodeInvs
<1>13. /\ ~(setting.faults \/ setting.overlap) => late' = {} /\ (~setting.keepHeartbeat => a = 0)
       /\ ~(setting.faults \/ setting.overlap) /\ ~setting.veto /\ record'.holder = n =>
            life[n] \in Up \cup {"closing"} /\ Owns(elect[n])
       /\ n \in Nodes /\ alive' = [alive EXCEPT ![n] = a]
  BY <1>1, <1>4, <1>7
<1> QED BY <1>3, <1>6, <1>8, <1>10, <1>11, <1>12, <1>13, NodeStep

\* Time passes: no lease runs out before the round that renews it is over,
\* because time does not pass a worker whose tick is due.
LEMMA TickStep ==
  ASSUME IInv, Tick
  PROVE  IInv'
<1>1. /\ UNCHANGED <<setting, late, life, haunted>>
      /\ \A n \in Nodes : MayAge(elect[n], life[n]) /\ MayAge(beat[n], life[n])
      /\ elect' = [n \in Nodes |-> Age(elect[n])] /\ beat' = [n \in Nodes |-> Age(beat[n])]
      /\ alive' = [n \in Nodes |-> Fade(alive[n])]
      /\ record' = IF record.ttl > 1 THEN [record EXCEPT !.ttl = @ - 1] ELSE NoRecord
  BY DEF Tick
<1>2. /\ record \in RecordType /\ late \subseteq Command /\ setting \in Settings
      /\ life \in [Nodes -> Lives] /\ haunted \in [Nodes -> BOOLEAN]
      /\ elect \in [Nodes -> ElectType] /\ beat \in [Nodes -> BeatType]
      /\ alive \in [Nodes -> 0 .. UnhealthyTime]
  BY DEF IInv, TypeOK, RecordType, Lives
<1>3. record.ttl \in 0 .. UnhealthyTime /\ UnhealthyTime \in Nat
  BY <1>2, Times DEF RecordType
<1>4. record.ttl > 1 => /\ record' \in RecordType /\ record'.holder = record.holder
                        /\ record'.ttl = record.ttl - 1
  <2> SUFFICES ASSUME record.ttl > 1
               PROVE  record' \in RecordType /\ record'.holder = record.holder /\ record'.ttl = record.ttl - 1
    OBVIOUS
  <2>1. record' = [record EXCEPT !.ttl = record.ttl - 1]
    BY <1>1
  <2>2. record.ttl - 1 \in 0 .. UnhealthyTime /\ record.ttl - 1 # 0 /\ record.ttl # 0
    BY <1>3
  <2>3. record'.holder = record.holder /\ record'.ttl = record.ttl - 1
    BY <1>2, <2>1 DEF RecordType
  <2>4. record' \in [holder : Nodes \cup {NoNode}, ttl : 0 .. UnhealthyTime]
    BY <1>2, <2>1, <2>2 DEF RecordType
  <2>5. record # NoRecord /\ record' # NoRecord
    <3>1. NoRecord.ttl = 0
      BY DEF NoRecord
    <3>2. record'.ttl # 0
      BY <2>2, <2>3
    <3> QED BY <2>2, <3>1, <3>2
  <2> QED BY <1>2, <2>3, <2>4, <2>5 DEF RecordType
<1>5. record' \in RecordType /\ \A n \in Nodes : record'.holder = n => record.holder = n
  <2>1. NoRecord \in RecordType /\ NoRecord.holder = NoNode
    BY <1>3 DEF RecordType, NoRecord
  <2> QED BY <1>1, <1>4, <2>1, NodeAssumption
<1>6. \A n \in Nodes : elect'[n] = Age(elect[n]) /\ beat'[n] = Age(beat[n]) /\ alive'[n] = Fade(alive[n])
  BY <1>1
<1>7. \A n \in Nodes :
        /\ elect'[n] \in ElectType /\ elect'[n].leaderFlag = elect[n].leaderFlag
        /\ elect'[n].adopted = elect[n].adopted
        /\ elect'[n].pc = elect[n].pc /\ elect'[n].reply = elect[n].reply
        /\ elect[n].pc # "exited" => elect'[n].timer = Advance(elect[n].timer)
        /\ elect[n].pc \notin {"exited", "wait"} =>
             elect[n].spent < RoundTime /\ elect'[n].spent = elect[n].spent + 1
        /\ elect[n].pc = "wait" => elect'[n].spent = elect[n].spent
  BY <1>1, <1>2, <1>6, AgedElect
<1>8. \A n \in Nodes :
        /\ beat'[n] \in BeatType /\ beat'[n].ok = beat[n].ok /\ beat'[n].pc = beat[n].pc
        /\ beat[n].pc # "exited" => beat'[n].timer = Advance(beat[n].timer)
        /\ beat[n].pc \notin {"exited", "wait"} =>
             beat[n].spent < RoundTime /\ beat'[n].spent = beat[n].spent + 1
        /\ beat[n].pc = "wait" => beat'[n].spent = beat[n].spent
  BY <1>1, <1>2, <1>6, AgedBeat
<1>9. \A n \in Nodes : alive'[n] \in 0 .. UnhealthyTime /\ (alive[n] > 0 => alive'[n] = alive[n] - 1)
                       /\ (alive[n] = 0 => alive'[n] = 0)
  BY <1>2, <1>3, <1>6 DEF Fade
<1>10. TypeOK'
  <2>1. elect' \in [Nodes -> ElectType] /\ beat' \in [Nodes -> BeatType]
    BY <1>1, <1>7, <1>8
  <2>2. alive' \in [Nodes -> 0 .. UnhealthyTime]
    BY <1>1, <1>9
  <2> QED BY <1>1, <1>2, <1>5, <2>1, <2>2 DEF TypeOK, RecordType, Lives
<1>11. Leases'
  <2> SUFFICES ASSUME NEW n \in Nodes
               PROVE  WorkerOK(elect'[n]) /\ (life'[n] \in Up /\ ~haunted'[n] => LeaseOK(n, elect'[n], record'))
    BY DEF Leases
  <2>. DEFINE w == elect[n]
              v == elect'[n]
  <2>1. /\ w.spent \in Nat /\ w.timer \in Ticker /\ w.timer.next \in Nat /\ w.timer.due \in BOOLEAN
    BY <1>2 DEF ElectType, Ticker
  <2>2. /\ w.timer.due => Advance(w.timer).due
        /\ ~Advance(w.timer).due => Advance(w.timer).next = w.timer.next - 1 /\ ~w.timer.due
        /\ Advance(w.timer).due /\ ~w.timer.due => w.timer.next = 1
    BY <2>1, AgedTicker
  <2>3. WorkerOK(w) /\ (life[n] \in Up /\ ~haunted[n] => LeaseOK(n, w, record))
    BY NodeInvs
  <2>4. WorkerOK(v)
    BY <1>7, <2>1, <2>2, <2>3, Times DEF WorkerOK
  <2>5. ASSUME life[n] \in Up, ~haunted[n]
        PROVE  LeaseOK(n, v, record')
    <3>1. LeaseOK(n, w, record) /\ w.pc # "exited" /\ v.timer = Advance(w.timer)
      BY <1>7, <2>3, <2>5 DEF LeaseOK
    <3>2. w.pc = "wait" => ~w.timer.due
      <4>1. MayAge(w, life[n]) /\ life[n] # "closing"
        BY <1>1, <2>5 DEF Up
      <4> QED BY <4>1 DEF MayAge, TickDue
    <3>3. w.pc \in {"campaign", "renew"} /\ w.reply = "ok" =>
            record'.holder = n /\ record'.ttl + v.spent >= UnhealthyTime
      BY <1>3, <1>4, <1>7, <2>1, <3>1, Times DEF LeaseOK
    <3>4. ASSUME w.leaderFlag, ~w.adopted
          PROVE  /\ record'.holder = n
                 /\ v.pc = "wait" => record'.ttl >= Slack + (IF v.timer.due THEN 0 ELSE v.timer.next)
                 /\ v.pc = "renew" => record'.ttl + v.spent >= Slack
      <4>1. record.holder = n
        BY <3>1, <3>4 DEF LeaseOK
      <4>2. w.pc \in {"wait", "renew"} /\ v.pc = w.pc
        BY <1>7, <2>3, <3>1, <3>4 DEF WorkerOK
      <4>3. CASE w.pc = "wait"
        <5>1. record.ttl >= Slack + w.timer.next /\ w.timer.next >= 1
          BY <2>1, <3>1, <3>2, <3>4, <4>3 DEF LeaseOK, Ticker
        <5>2. record.ttl > 1 /\ record'.ttl = record.ttl - 1 /\ record'.holder = n
          BY <1>3, <1>4, <2>1, <4>1, <5>1, Times
        <5> QED BY <1>3, <2>1, <2>2, <3>1, <3>2, <4>2, <4>3, <5>1, <5>2, Times
      <4>4. CASE w.pc = "renew"
        <5>1. record.ttl + w.spent >= Slack /\ w.spent < RoundTime /\ v.spent = w.spent + 1
          BY <1>7, <3>1, <3>4, <4>4 DEF LeaseOK
        <5>2. record.ttl > 1 /\ record'.ttl = record.ttl - 1 /\ record'.holder = n
          BY <1>3, <1>4, <2>1, <4>1, <5>1, Times
        <5> QED BY <1>3, <2>1, <4>2, <4>4, <5>1, <5>2, Times
      <4> QED BY <4>2, <4>3, <4>4
    <3> QED BY <1>7, <3>1, <3>3, <3>4 DEF LeaseOK
  <2> QED BY <1>1, <2>4, <2>5
<1>12. Hearts'
  <2> SUFFICES ASSUME NEW n \in Nodes, life'[n] \in Up, ~haunted'[n]
               PROVE  HeartOK(beat'[n], alive'[n])
    BY DEF Hearts
  <2>. DEFINE w == beat[n]
              v == beat'[n]
  <2>1. /\ w.spent \in Nat /\ w.timer \in Ticker /\ w.timer.next \in Nat /\ w.timer.next >= 1
        /\ w.timer.due \in BOOLEAN /\ alive[n] \in Nat
    BY <1>2 DEF BeatType, Ticker
  <2>2. /\ ~Advance(w.timer).due => Advance(w.timer).next = w.timer.next - 1
    BY <2>1, AgedTicker
  <2>3. HeartOK(w, alive[n]) /\ life[n] \in Up
    BY <1>1, NodeInvs
  <2>4. /\ v.pc = w.pc /\ v.ok = w.ok /\ (w.pc = "wait" => v.spent = w.spent)
        /\ w.pc # "exited" => v.timer = Advance(w.timer)
        /\ w.pc = "set" => w.spent < RoundTime /\ v.spent = w.spent + 1
    BY <1>8
  <2>5. w.pc = "wait" => ~w.timer.due
    <3>1. MayAge(w, life[n]) /\ life[n] # "closing"
      BY <1>1, <2>3 DEF Up
    <3> QED BY <3>1 DEF MayAge, TickDue
  <2>6. ASSUME w.ok, w.pc = "wait"
        PROVE  alive'[n] >= Slack + (IF v.timer.due THEN 0 ELSE v.timer.next)
    <3>1. alive[n] >= Slack + w.timer.next
      BY <2>3, <2>5, <2>6 DEF HeartOK
    <3>2. alive'[n] = alive[n] - 1
      BY <1>9, <2>1, <3>1, Times
    <3> QED BY <2>1, <2>2, <2>4, <2>6, <3>1, <3>2, Times
  <2>7. ASSUME w.ok, w.pc = "set"
        PROVE  alive'[n] + v.spent >= Slack
    <3>1. alive[n] + w.spent >= Slack /\ w.spent < RoundTime /\ v.spent = w.spent + 1
      BY <2>3, <2>4, <2>7 DEF HeartOK
    <3>2. alive'[n] = alive[n] - 1
      BY <1>9, <2>1, <3>1, Times
    <3> QED BY <2>1, <3>1, <3>2, Times
  <2> QED BY <2>3, <2>4, <2>6, <2>7 DEF HeartOK
<1>13. Unhaunted'
  BY <1>1 DEF IInv, Unhaunted
<1>14. Gone'
  BY <1>1, <1>7, <1>8 DEF IInv, Gone
<1>15. Clean'
  <2>1. \A n \in Nodes : Owns(elect[n]) => Owns(elect'[n])
    BY <1>7 DEF Owns
  <2> QED BY <1>1, <1>5, <1>9, <2>1 DEF IInv, Clean
<1>16. Beats'
  BY <1>1, <1>8 DEF IInv, Beats
<1> QED BY <1>10, <1>11, <1>12, <1>13, <1>14, <1>15, <1>16 DEF IInv

\* IInv holds before any node is started.
LEMMA InitInv == Init => IInv
<1> SUFFICES ASSUME Init PROVE IInv
  OBVIOUS
<1>. USE DEF Init
<1>1. 0 \in 0 .. UnhealthyTime
  BY Times
<1>2. TypeOK
  BY <1>1, NewWorkers DEF TypeOK, NoRecord
<1>3. NoElect.pc = "exited" /\ NoBeat.pc = "exited" /\ WorkerOK(NoElect)
  BY DEF NoElect, NoBeat, WorkerOK
<1>4. "new" \notin Up /\ NoRecord.holder \notin Nodes
  BY NodeAssumption DEF Up, NoRecord
<1>. HIDE DEF NoElect, NoBeat, NoRecord
<1> QED BY <1>2, <1>3, <1>4 DEF IInv, Leases, Hearts, Unhaunted, Gone, Clean, Beats

\* Every step keeps IInv.
LEMMA NextInv == IInv /\ [Next]_vars => IInv'
<1> SUFFICES ASSUME IInv, [Next]_vars PROVE IInv'
  OBVIOUS
<1>1. CASE UNCHANGED vars
  BY <1>1 DEF IInv, TypeOK, Leases, Hearts, Unhaunted, Gone, Clean, Beats, vars
<1>2. ASSUME NEW n \in Nodes,
             WorkerStep(n) \/ StepDown(n) \/ Start(n) \/ Close(n)
               \/ FailRound(n) \/ Resend(n) \/ FailBeat(n) \/ Crash(n)
      PROVE  IInv'
  BY <1>2, BeginRoundStep, ExecStep, CampaignReplyStep, HolderReplyStep, RenewReplyStep,
     BeginBeatStep, BeatDoneStep, ExitStep, DeregisterLeaderStep, DeregisterHeartbeatStep,
     StepDownStep, StartStep, CloseStep, FailRoundStep, ResendStep, FailBeatStep, CrashStep
     DEF WorkerStep
<1> QED BY <1>1, <1>2, LateCommandStep, TickStep DEF Next

\* IInv, TypeOK included, holds in every reachable state.
THEOREM Invariance == Spec => []IInv
  BY InitInv, NextInv, PTL DEF Spec

\* A node that IsLeader (elect.go:128) reports to be leader, by its own
\* campaign or renewal, holds the leader record, whatever fails, is lost or
\* comes late.
THEOREM LeadersBacked == Spec => []LeaderBacked
<1>1. IInv => LeaderBacked
  <2> SUFFICES ASSUME IInv, NEW n \in Nodes, IsLeader(n), ~elect[n].adopted, ~haunted[n]
               PROVE  record.holder = n
    BY DEF LeaderBacked
  <2> QED BY NodeInvs DEF IsLeader, LeaseOK, Up
<1> QED BY <1>1, Invariance, PTL

\* A leader by campaign or renewal, not started under its own late
\* deregistration.
Backed(n) == IsLeader(n) /\ ~elect[n].adopted /\ ~haunted[n]
\* There is one such leader at most.
OneBacked == \A m, n \in Nodes : Backed(m) /\ Backed(n) => m = n

\* Two nodes never both report to be leader, each by its own campaign or
\* renewal: what the election is for.
THEOREM OneBackedLeader == Spec => []OneBacked
<1>1. LeaderBacked => OneBacked
  BY DEF LeaderBacked, OneBacked, Backed
<1> QED BY <1>1, LeadersBacked, PTL

\* A node whose heartbeats are confirmed never disappears from IsAlive
\* (elect.go:160) and AliveNodes: a heartbeat outlasts the next one.
THEOREM HeartbeatsLast == Spec => []RunningIsAlive
<1>1. IInv => RunningIsAlive
  <2> SUFFICES ASSUME IInv, NEW n \in Nodes, life[n] = "running", beat[n].ok, ~haunted[n]
               PROVE  alive[n] > 0
    BY DEF RunningIsAlive
  <2>1. HeartOK(beat[n], alive[n]) /\ alive[n] \in Nat
    BY NodeInvs, NodeFacts DEF Up
  <2>2. beat[n].timer.next \in Nat /\ beat[n].spent \in 0 .. RoundTime
    BY NodeFacts DEF BeatType, Ticker
  <2> QED BY <2>1, <2>2, Times DEF HeartOK
<1> QED BY <1>1, Invariance, PTL

\* Only the last step of Close closes a node, and then its record and its
\* heartbeat are gone.
LEMMA CloseDeregistersStep ==
  ASSUME IInv, [Next]_vars, ~(setting.faults \/ setting.overlap), ~setting.veto,
         NEW n \in Nodes, life[n] # "closed", life'[n] = "closed"
  PROVE  record'.holder # n /\ alive'[n] = 0
<1>1. life \in [Nodes -> Lives] /\ alive \in [Nodes -> 0 .. UnhealthyTime]
  BY DEF IInv, TypeOK, Lives
<1>2. DeregisterHeartbeat(n)
  <2>1. ~UNCHANGED life
    OBVIOUS
  <2>2. PICK m \in Nodes : StepDown(m) \/ Start(m) \/ Close(m) \/ FailRound(m) \/ Crash(m)
                           \/ CampaignReply(m) \/ HolderReply(m) \/ RenewReply(m)
                           \/ DeregisterLeader(m) \/ DeregisterHeartbeat(m)
    BY <2>1 DEF Next, WorkerStep, vars, BeginRound, Exec, BeginBeat, Beat, Exit, Resend, FailBeat,
                LateCommand, Tick
  <2>3. ~(\E l \in {"starting", "closing", "crashed", "deregistering"} : life' = [life EXCEPT ![m] = l])
    BY <1>1
  <2>4. ~(life' = [life EXCEPT ![m] = Ready(life[m])])
    BY <1>1 DEF Ready
  <2>5. DeregisterHeartbeat(m)
    BY <2>1, <2>2, <2>3, <2>4
       DEF StepDown, Start, Close, FailRound, Crash, CampaignReply, HolderReply, RenewReply,
           DeregisterLeader, End
  <2>6. m = n
    BY <1>1, <2>5 DEF DeregisterHeartbeat
  <2> QED BY <2>5, <2>6
<1>3. life[n] = "deregistering" /\ record' = record
  BY <1>2 DEF DeregisterHeartbeat
<1>4. record.holder # n
  BY <1>3, NodeInvs DEF Up
<1>5. alive'[n] = 0
  BY <1>1, <1>2, NodeInvs DEF DeregisterHeartbeat
<1> QED BY <1>3, <1>4, <1>5

\* Close (elect.go:175) leaves no record and no heartbeat of its node behind,
\* if no operation fails, lives do not overlap and CanElect does not interfere.
THEOREM CloseCleansUp == Spec => CloseDeregisters
<1>1. IInv /\ [Next]_vars =>
        [~(setting.faults \/ setting.overlap) /\ ~setting.veto =>
           \A n \in Nodes : life[n] # "closed" /\ life'[n] = "closed" =>
             record'.holder # n /\ alive'[n] = 0]_vars
  BY CloseDeregistersStep
<1> QED BY <1>1, Invariance, PTL DEF Spec, CloseDeregisters

\* A node that is closed has no worker that could write for it, and the
\* commands of other nodes never write its name.
LEMMA ClosedStaysOutStep ==
  ASSUME IInv, Next, NEW n \in Nodes, life[n] = "closed", \A c \in late : c.node # n
  PROVE  /\ record.holder # n => record'.holder # n
         /\ alive[n] = 0 => alive'[n] = 0
<1>1. /\ alive \in [Nodes -> 0 .. UnhealthyTime] /\ record \in RecordType
      /\ elect[n].pc = "exited" /\ beat[n].pc = "exited"
  BY NodeInvs, NodeFacts DEF IInv, TypeOK, Up
<1>2. NoRecord.holder # n
  BY NodeAssumption DEF NoRecord
<1>3. \A m \in Nodes \ {n} : Frame(record, record', m) => (record.holder # n => record'.holder # n)
  BY DEF Frame
<1>4. CASE UNCHANGED <<record, alive>>
  BY <1>4
<1>5. ASSUME NEW m \in Nodes, Exec(m)
      PROVE  record'.holder = n => record.holder = n
  <2>1. m # n
    BY <1>1, <1>5 DEF Exec
  <2>2. Frame(record, record', m)
    BY <1>1, <1>5, ServerFrame DEF Exec
  <2> QED BY <1>3, <2>1, <2>2
<1>6. ASSUME NEW m \in Nodes, Beat(m) \/ FailBeat(m)
      PROVE  alive'[n] = alive[n] /\ record' = record
  <2>1. m # n
    BY <1>1, <1>6 DEF Beat, FailBeat
  <2> QED BY <1>1, <1>6, <2>1 DEF Beat, FailBeat
<1>7. ASSUME NEW m \in Nodes, DeregisterLeader(m)
      PROVE  record'.holder = n => record.holder = n
  BY <1>1, <1>2, <1>7 DEF DeregisterLeader, DelIfHolder
<1>8. ASSUME NEW m \in Nodes, DeregisterHeartbeat(m)
      PROVE  (alive[n] = 0 => alive'[n] = 0) /\ record' = record
  BY <1>1, <1>8 DEF DeregisterHeartbeat
<1>9. ASSUME NEW c \in late, LateCommand(c)
      PROVE  (record.holder # n => record'.holder # n) /\ alive'[n] = alive[n]
  <2>1. c.node \in Nodes \ {n}
    BY DEF IInv, TypeOK, Command
  <2>2. record' \in {record, SetNX(record, c.node), Renew(record, c.node), DelIfHolder(record, c.node)}
    BY <1>9 DEF LateCommand
  <2>3. Frame(record, record', c.node)
    BY <1>1, <2>1, <2>2, ServerFrame
  <2>4. alive'[n] = alive[n]
    BY <1>1, <1>9, <2>1 DEF LateCommand
  <2> QED BY <1>3, <2>1, <2>3, <2>4
<1>10. CASE Tick
  <2>1. record'.holder = n => record.holder = n
    BY <1>1, <1>2, <1>10 DEF Tick, RecordType
  <2>2. alive[n] = 0 => alive'[n] = 0
    BY <1>10 DEF Tick, Fade
  <2> QED BY <2>1, <2>2
<1>11. \/ UNCHANGED <<record, alive>>
       \/ \E m \in Nodes : Exec(m) \/ Beat(m) \/ FailBeat(m) \/ DeregisterLeader(m)
                           \/ DeregisterHeartbeat(m)
       \/ \E c \in late : LateCommand(c)
       \/ Tick
  BY DEF Next, WorkerStep, BeginRound, CampaignReply, HolderReply, RenewReply, BeginBeat, Exit,
         StepDown, Start, Close, FailRound, Resend, Crash
<1>12. \A m \in Nodes : Exec(m) \/ DeregisterLeader(m) => alive' = alive
  BY DEF Exec, DeregisterLeader
<1> QED BY <1>4, <1>5, <1>6, <1>7, <1>8, <1>9, <1>10, <1>11, <1>12

\* After Close returned nothing registers the node again, except a command it
\* had given up before.
THEOREM ClosedIsOut == Spec => ClosedStaysOut
<1>1. IInv /\ [Next]_vars =>
        [\A n \in Nodes : life[n] = "closed" /\ (\A c \in late : c.node # n) =>
           /\ record.holder # n => record'.holder # n
           /\ alive[n] = 0 => alive'[n] = 0]_vars
  BY ClosedStaysOutStep
<1> QED BY <1>1, Invariance, PTL DEF Spec, ClosedStaysOut
==============================================================================
