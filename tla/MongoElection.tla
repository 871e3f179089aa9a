---------------------------- MODULE MongoElection ----------------------------
(***************************************************************************)
(* Leader election and heartbeat of dkit/mongo/elect.go.  The workers are  *)
(* those of RedisElection; what differs is the store.  A campaign reads    *)
(* the record, decides by the clock of the node, and writes later.  A      *)
(* record holds the time at which it expires: it stays after that, until a *)
(* node takes it over or the TTL index removes it, and a write that is     *)
(* executed late brings an older expiry time with it.                      *)
(*                                                                         *)
(* Expiry times are relative to the server's clock: the time left, with    *)
(* Over for every expiry in the past.                                      *)
(***************************************************************************)
EXTENDS ElectionWorkers, FiniteSets

CONSTANTS Nodes,          \* the processes
          Keys,           \* node keys
          Domains,        \* isolation keys
          NoKey,          \* the holder of no leader record
          NoDomain,       \* the isolation key of no heartbeat
          Skew,           \* how far the clock of a node is ahead of the server's
          MaxSkew,        \* bound on the skew
          LateTime,       \* how long an abandoned write may be under way
          Settings        \* who takes part, and what may happen

ASSUME StoreAssumption == NoKey \notin Keys /\ NoDomain \notin Domains
\* A write that is given up has been under way for its round already.
ASSUME SkewAssumption ==
  /\ MaxSkew \in Nat /\ LateTime \in Nat
  /\ Skew \in [Nodes -> 0 .. MaxSkew]
  /\ RoundTime <= LateTime
\* NodeKey identifies a node in its domain.
ASSUME SettingAssumption ==
  /\ Settings \subseteq [members : SUBSET Nodes, key : [Nodes -> Keys],
                         domain : [Nodes -> Domains], keepHeartbeat : BOOLEAN,
                         veto : BOOLEAN, faults : BOOLEAN, overlap : BOOLEAN,
                         maxLate : Nat]
  /\ \A s \in Settings : \A m, n \in s.members :
       s.key[m] = s.key[n] /\ s.domain[m] = s.domain[n] => m = n

VARIABLES setting,        \* the setting of this behaviour; it never changes
          record,         \* the leader record of each domain
          alive,          \* the heartbeat document of each node key
          late,           \* abandoned writes that may still be executed
          life,           \* the life of the node's ElectionImpl
          elect,          \* leaderFlag and the election worker
          io,             \* what its round has read, or has sent to be written
          beat,           \* the heartbeat worker
          haunted         \* started while a deregistration of its own was late

vars == <<setting, record, alive, late, life, elect, io, beat, haunted>>

Over == -1
NoRecord == [holder |-> NoKey, left |-> Over]
NoAlive == [domain |-> NoDomain, left |-> Over]

\* A write of a node: old is the record its filter names, left what the new
\* expiry time leaves.
Write(op, n, old, left) == [op |-> op, node |-> n, old |-> old, left |-> left]
NoIO(n) == Write("none", n, NoRecord, Over)
\* The expiry time a node writes: UnhealthyTime from now, by its own clock.
Fresh(n) == UnhealthyTime + Skew[n]

Key(n) == setting.key[n]
Domain(n) == setting.domain[n]

Init == /\ setting \in Settings
        /\ record = [d \in Domains |-> NoRecord]
        /\ alive = [k \in Keys |-> NoAlive]
        /\ late = {}
        /\ life = [n \in Nodes |-> "new"]
        /\ elect = [n \in Nodes |-> NoElect]
        /\ io = [n \in Nodes |-> NoIO(n)]
        /\ beat = [n \in Nodes |-> NoBeat]
        /\ haunted = [n \in Nodes |-> FALSE]

-----------------------------------------------------------------------------
(* The server.                                                             *)

\* Faulty: the takeover filters by _id only.
AcceptsBlindTake(r, w) ==
  CASE w.op = "insert" -> r = NoRecord
    [] w.op = "take"   -> r # NoRecord
    [] OTHER           -> r.holder = Key(w.node)

\* Does the write find what it needs: no document for an insert, the document
\* that was read for a takeover, a document of the node for the others.
Accepts(r, w) ==
  CASE w.op = "insert" -> r = NoRecord
    [] w.op = "take"   -> r # NoRecord /\ r = w.old
    [] OTHER           -> r.holder = Key(w.node)

\* The leader record after a write, and the heartbeat document after one.
Apply(r, w) ==
  IF ~Accepts(r, w) THEN r
  ELSE IF w.op = "delete" THEN NoRecord ELSE [holder |-> Key(w.node), left |-> w.left]

\* Faulty: the heartbeat of the node is not deleted.
ApplyBeatNoDelete(a, w) ==
  IF w.op = "beat" THEN [domain |-> Domain(w.node), left |-> w.left] ELSE a

ApplyBeat(a, w) ==
  IF w.op = "beat" THEN [domain |-> Domain(w.node), left |-> w.left]
  ELSE IF a.domain = Domain(w.node) THEN NoAlive ELSE a

-----------------------------------------------------------------------------
(* The election worker.                                                    *)

\* The writes of each worker that the server has not executed yet.
Pending(n) == IF elect[n].pc = "write" /\ elect[n].reply = "wait" THEN {io[n]} ELSE {}
\* heartBeat computes the expiry time when its round starts.
BeatWrite(n) == Write("beat", n, NoRecord, Fresh(n) - beat[n].spent)

\* What a life that is being closed may still write: a last round of each of
\* its workers, and the deregistrations.
Remaining(n) ==
  LET ops == {op \in {"insert", "renew", "beat", "delete", "quiet"} :
                CASE op = "beat"   -> beat[n].pc # "exited"
                  [] op = "delete" -> /\ life[n] = "closing"
                                      /\ elect[n].pc # "exited" \/ elect[n].leaderFlag
                  [] op = "quiet"  -> setting.keepHeartbeat
                  [] OTHER         -> elect[n].pc # "exited"}
  IN  Pending(n) \cup {Write(op, n, NoRecord, Fresh(n)) : op \in ops}
        \cup IF beat[n].pc = "set" THEN {BeatWrite(n)} ELSE {}

\* EnableElection, as in RedisElection: what a life that is still being closed
\* has to write is late.
Start(n) ==
  /\ n \in setting.members
  /\ \/ life[n] \in {"new", "crashed", "closed"} /\ late' = late
     \/ /\ setting.overlap
        /\ life[n] \in {"closing", "deregistering"}
        /\ Cardinality(late \cup Remaining(n)) <= setting.maxLate
        /\ late' = late \cup Remaining(n)
  /\ life' = [life EXCEPT ![n] = "starting"]
  /\ elect' = [elect EXCEPT ![n] = [NoElect EXCEPT !.pc = "wait"]]
  /\ io' = [io EXCEPT ![n] = NoIO(n)]
  /\ beat' = [beat EXCEPT ![n] = IF setting.keepHeartbeat THEN [NoBeat EXCEPT !.pc = "wait"]
                                 ELSE NoBeat]
  /\ haunted' = [haunted EXCEPT ![n] = \E w \in late' : w.node = n /\ w.op \in {"delete", "quiet"}]
  /\ UNCHANGED <<setting, record, alive>>

\* A round of the election worker ends with this flag.
End(n, flag, byAdoption) ==
  /\ elect' = [elect EXCEPT ![n] = EndRound(@, flag, byAdoption)]
  /\ life' = [life EXCEPT ![n] = Ready(@)]
  /\ io' = [io EXCEPT ![n] = NoIO(n)]

StepDown(n) ==
  /\ setting.veto
  /\ TickDue(elect[n])
  /\ elect' = [elect EXCEPT ![n] = StepDownRound(@)]
  /\ life' = [life EXCEPT ![n] = Ready(@)]
  /\ UNCHANGED <<setting, record, alive, late, io, beat, haunted>>

\* elect: a leader sends a renewal, any other node reads the record.
BeginRound(n) ==
  /\ TickDue(elect[n])
  /\ IF elect[n].leaderFlag
     THEN /\ elect' = [elect EXCEPT ![n] = TakeTick(@, "write")]
          /\ io' = [io EXCEPT ![n] = Write("renew", n, NoRecord, Fresh(n))]
     ELSE /\ elect' = [elect EXCEPT ![n] = TakeTick(@, "campaign")]
          /\ UNCHANGED io
  /\ UNCHANGED <<setting, record, alive, late, life, beat, haunted>>

ExecFind(n) ==
  /\ elect[n].pc = "campaign"
  /\ elect' = [elect EXCEPT ![n].pc = "check"]
  /\ io' = [io EXCEPT ![n] = Write("find", n, record[Domain(n)], Over)]
  /\ UNCHANGED <<setting, record, alive, late, life, beat, haunted>>

\* campaign: a record of its own makes the node leader, expired or not; the
\* live record of another node ends the round.
FoundHeld(n) ==
  LET seen == io[n].old
  IN  /\ elect[n].pc = "check"
      /\ seen # NoRecord
      /\ \/ seen.holder = Key(n) /\ End(n, TRUE, TRUE)
         \/ seen.holder # Key(n) /\ seen.left >= Skew[n] /\ End(n, FALSE, FALSE)
      /\ UNCHANGED <<setting, record, alive, late, beat, haunted>>

\* campaign: the expired record of another node is taken over, a missing one
\* is inserted.
SendCampaign(n) ==
  LET seen == io[n].old
  IN  /\ elect[n].pc = "check"
      /\ \/ /\ seen # NoRecord /\ seen.holder # Key(n) /\ seen.left < Skew[n]
            /\ io' = [io EXCEPT ![n] = Write("take", n, seen, Fresh(n))]
         \/ /\ seen = NoRecord
            /\ io' = [io EXCEPT ![n] = Write("insert", n, seen, Fresh(n))]
      /\ elect' = [elect EXCEPT ![n].pc = "write"]
      /\ UNCHANGED <<setting, record, alive, late, life, beat, haunted>>

ExecWrite(n) ==
  LET d == Domain(n)
  IN  /\ elect[n].pc = "write"
      /\ elect[n].reply = "wait"
      /\ record' = [record EXCEPT ![d] = Apply(@, io[n])]
      /\ elect' = [elect EXCEPT ![n].reply = IF Accepts(record[d], io[n]) THEN "ok" ELSE "no"]
      /\ UNCHANGED <<setting, alive, late, life, io, beat, haunted>>

\* campaign and continueLeader: the node is leader if the write changed or
\* matched the record.
WriteReply(n) ==
  /\ elect[n].pc = "write"
  /\ elect[n].reply # "wait"
  /\ End(n, elect[n].reply = "ok", FALSE)
  /\ UNCHANGED <<setting, record, alive, late, beat, haunted>>

\* A write is given up.  It was executed, or is lost, or is executed later.
Abandon(writes) ==
  \/ UNCHANGED late
  \/ /\ Cardinality(late \cup writes) <= setting.maxLate
     /\ late' = late \cup writes

\* An operation of the round fails: a leader steps down, others stay what they
\* are.
FailRound(n) ==
  /\ setting.faults
  /\ elect[n].pc \in {"campaign", "check", "write"}
  /\ Abandon(Pending(n))
  /\ End(n, FALSE, FALSE)
  /\ UNCHANGED <<setting, record, alive, beat, haunted>>

-----------------------------------------------------------------------------
(* The heartbeat worker: an upsert by node key.                            *)

BeginBeat(n) ==
  /\ TickDue(beat[n])
  /\ beat' = [beat EXCEPT ![n] = TakeTick(@, "set")]
  /\ UNCHANGED <<setting, record, alive, late, life, elect, io, haunted>>

\* Faulty: a heartbeat expires with the period of its ticker.
BeatShort(n) ==
  /\ beat[n].pc = "set"
  /\ alive' = [alive EXCEPT ![Key(n)] = ApplyBeat(@, [BeatWrite(n) EXCEPT !.left = Period])]
  /\ beat' = [beat EXCEPT ![n] = EndBeat(@, TRUE)]
  /\ UNCHANGED <<setting, record, late, life, elect, io, haunted>>

Beat(n) ==
  /\ beat[n].pc = "set"
  /\ alive' = [alive EXCEPT ![Key(n)] = ApplyBeat(@, BeatWrite(n))]
  /\ beat' = [beat EXCEPT ![n] = EndBeat(@, TRUE)]
  /\ UNCHANGED <<setting, record, late, life, elect, io, haunted>>

FailBeat(n) ==
  /\ setting.faults
  /\ beat[n].pc = "set"
  /\ \/ /\ alive' = [alive EXCEPT ![Key(n)] = ApplyBeat(@, BeatWrite(n))]
        /\ UNCHANGED late
     \/ /\ Abandon({BeatWrite(n)})
        /\ UNCHANGED alive
  /\ beat' = [beat EXCEPT ![n] = EndBeat(@, FALSE)]
  /\ UNCHANGED <<setting, record, life, elect, io, haunted>>

-----------------------------------------------------------------------------
(* Close.                                                                  *)

Close(n) ==
  /\ life[n] = "running"
  /\ life' = [life EXCEPT ![n] = "closing"]
  /\ UNCHANGED <<setting, record, alive, late, elect, io, beat, haunted>>

Exit(n) ==
  /\ life[n] = "closing"
  /\ \/ /\ elect[n].pc = "wait"
        /\ elect' = [elect EXCEPT ![n] = Stopped(@)]
        /\ UNCHANGED beat
     \/ /\ beat[n].pc = "wait"
        /\ beat' = [beat EXCEPT ![n] = Stopped(@)]
        /\ UNCHANGED elect
  /\ UNCHANGED <<setting, record, alive, late, life, io, haunted>>

\* Faulty: Close waits for the election worker only.
ElectionWorkerDone(n) == elect[n].pc = "exited"

\* wg.Wait
WorkersDone(n) == elect[n].pc = "exited" /\ beat[n].pc = "exited"

DeregisterLeader(n) ==
  LET w == Write("delete", n, NoRecord, Fresh(n))
  IN  /\ life[n] = "closing"
      /\ WorkersDone(n)
      /\ life' = [life EXCEPT ![n] = "deregistering"]
      /\ \/ /\ elect[n].leaderFlag
            /\ record' = [record EXCEPT ![Domain(n)] = Apply(@, w)]
            /\ UNCHANGED late
         \/ /\ elect[n].leaderFlag /\ setting.faults
            /\ Abandon({w})
            /\ UNCHANGED record
         \/ /\ ~elect[n].leaderFlag
            /\ UNCHANGED <<record, late>>
      /\ UNCHANGED <<setting, alive, elect, io, beat, haunted>>

DeregisterHeartbeat(n) ==
  LET w == Write("quiet", n, NoRecord, Fresh(n))
  IN  /\ life[n] = "deregistering"
      /\ life' = [life EXCEPT ![n] = "closed"]
      /\ \/ /\ setting.keepHeartbeat
            /\ alive' = [alive EXCEPT ![Key(n)] = ApplyBeat(@, w)]
            /\ UNCHANGED late
         \/ /\ setting.keepHeartbeat /\ setting.faults
            /\ Abandon({w})
            /\ UNCHANGED alive
         \/ /\ ~setting.keepHeartbeat
            /\ UNCHANGED <<alive, late>>
      /\ UNCHANGED <<setting, record, elect, io, beat, haunted>>

-----------------------------------------------------------------------------
(* Failures and time.                                                      *)

Crash(n) ==
  /\ setting.faults
  /\ life[n] \notin {"new", "crashed", "closed"}
  /\ life' = [life EXCEPT ![n] = "crashed"]
  /\ \E ws \in SUBSET (Pending(n) \cup IF beat[n].pc = "set" THEN {BeatWrite(n)} ELSE {}) :
       Abandon(ws)
  /\ elect' = [elect EXCEPT ![n] = NoElect]
  /\ io' = [io EXCEPT ![n] = NoIO(n)]
  /\ beat' = [beat EXCEPT ![n] = NoBeat]
  /\ haunted' = [haunted EXCEPT ![n] = FALSE]
  /\ UNCHANGED <<setting, record, alive>>

\* An abandoned write is executed after all, or is lost.
LateWrite(w) ==
  /\ w \in late
  /\ late' = late \ {w}
  /\ \/ UNCHANGED <<record, alive>>
     \/ /\ w.op \in {"insert", "take", "renew", "delete"}
        /\ record' = [record EXCEPT ![Domain(w.node)] = Apply(@, w)]
        /\ UNCHANGED alive
     \/ /\ w.op \in {"beat", "quiet"}
        /\ alive' = [alive EXCEPT ![Key(w.node)] = ApplyBeat(@, w)]
        /\ UNCHANGED record
  /\ UNCHANGED <<setting, life, elect, io, beat, haunted>>

\* The TTL index removes an expired document some time later.
TTLMonitor ==
  /\ \/ \E d \in Domains : /\ record[d] # NoRecord
                           /\ record[d].left = Over
                           /\ record' = [record EXCEPT ![d] = NoRecord]
                           /\ UNCHANGED alive
     \/ \E k \in Keys : /\ alive[k] # NoAlive
                        /\ alive[k].left = Over
                        /\ alive' = [alive EXCEPT ![k] = NoAlive]
                        /\ UNCHANGED record
  /\ UNCHANGED <<setting, late, life, elect, io, beat, haunted>>

\* One unit of time on an expiry time.
Older(left) == IF left > Over THEN left - 1 ELSE Over
OlderRecord(r) == [r EXCEPT !.left = Older(@)]
OlderWrite(w) == [w EXCEPT !.left = Older(@), !.old = OlderRecord(@)]

Tick ==
  /\ \A n \in Nodes : MayAge(elect[n], life[n]) /\ MayAge(beat[n], life[n])
  /\ record' = [d \in Domains |-> OlderRecord(record[d])]
  /\ alive' = [k \in Keys |-> OlderRecord(alive[k])]
  /\ late' = {OlderWrite(w) : w \in {x \in late : x.left > Fresh(x.node) - LateTime}}
  /\ elect' = [n \in Nodes |-> Age(elect[n])]
  /\ io' = [n \in Nodes |-> OlderWrite(io[n])]
  /\ beat' = [n \in Nodes |-> Age(beat[n])]
  /\ UNCHANGED <<setting, life, haunted>>

-----------------------------------------------------------------------------
WorkerStep(n) ==
  \/ BeginRound(n) \/ ExecFind(n) \/ FoundHeld(n) \/ SendCampaign(n) \/ ExecWrite(n)
  \/ WriteReply(n) \/ BeginBeat(n) \/ Beat(n) \/ Exit(n)
  \/ DeregisterLeader(n) \/ DeregisterHeartbeat(n)

Next == \/ \E n \in Nodes : \/ WorkerStep(n) \/ StepDown(n) \/ Start(n) \/ Close(n)
                            \/ FailRound(n) \/ FailBeat(n) \/ Crash(n)
        \/ \E w \in late : LateWrite(w)
        \/ TTLMonitor
        \/ Tick

Spec == Init /\ [][Next]_vars

-----------------------------------------------------------------------------
(* Properties.                                                             *)

Lefts == Over .. UnhealthyTime + MaxSkew
RecordType == [holder : Keys \cup {NoKey}, left : Lefts]
WriteType == [op : {"none", "find", "insert", "take", "renew", "delete", "beat", "quiet"},
              node : Nodes, old : RecordType, left : Lefts]

\* The variables have their types, no expiry time is further away than
\* UnhealthyTime and the skew allow, and a round is over within RoundTime.
TypeOK ==
  /\ setting \in Settings
  /\ record \in [Domains -> RecordType]
  /\ alive \in [Keys -> [domain : Domains \cup {NoDomain}, left : Lefts]]
  /\ late \subseteq WriteType
  /\ life \in [Nodes -> {"new", "starting", "running", "closing", "deregistering",
                         "closed", "crashed"}]
  /\ elect \in [Nodes -> ElectType]
  /\ io \in [Nodes -> WriteType]
  /\ beat \in [Nodes -> BeatType]
  /\ haunted \in [Nodes -> BOOLEAN]

\* What a late write, with its older expiry time, takes off a lease.
Drift == IF \A s \in Settings : s.maxLate = 0 THEN 0 ELSE LateTime
\* The lease outlasts a period, a round, that and the skew.  readOpt looks for
\* nothing of the kind; the defaults are Timely only if no write is late.
Timely == Period + RoundTime + Drift + MaxSkew <= UnhealthyTime

\* Atomic.IsLeader: the flag of an election that is enabled.
IsLeader(n) == life[n] = "running" /\ elect[n].leaderFlag

\* A node that reports to be leader, and did not become it by finding its own
\* record, holds the record until its next round is over, although takeovers
\* are decided on a record read before, by clocks that differ, and although
\* writes arrive late, if the times are Timely.  Excepted is a node started
\* while its own deregistration was still on its way.
LeaderBacked ==
  \A n \in Nodes : IsLeader(n) /\ ~elect[n].adopted /\ ~haunted[n] =>
                     record[Domain(n)].holder = Key(n)

\* ElectionImpl.IsAlive for n, asked by a node of its domain with the fastest
\* clock.
IsAlive(n) == alive[Key(n)].domain = Domain(n) /\ alive[Key(n)].left >= MaxSkew

\* A node whose heartbeats succeed is never seen as dead by its domain, if the
\* times are Timely and no other member has its node key.
RunningIsAlive ==
  \A n \in Nodes : life[n] = "running" /\ beat[n].ok /\ ~haunted[n] => IsAlive(n)

\* "Close stops workers and deregisters owned leader and heartbeat records":
\* when Close returns, no record of the node is left, if no operation fails,
\* no earlier life of the node is still being closed, and CanElect does not
\* make the node step down without giving up its record.
CloseDeregisters ==
  [][~(setting.faults \/ setting.overlap) /\ ~setting.veto =>
       \A n \in Nodes : life[n] # "closed" /\ life'[n] = "closed" =>
         /\ record'[Domain(n)].holder # Key(n)
         /\ alive'[Key(n)].domain # Domain(n)]_vars

\* Nothing registers a closed node again, except a write it gave up before and
\* that is still under way.
ClosedStaysOut ==
  [][\A n \in Nodes : life[n] = "closed" /\ (\A w \in late : w.node # n) =>
       /\ record[Domain(n)].holder # Key(n) => record'[Domain(n)].holder # Key(n)
       /\ alive[Key(n)].domain # Domain(n) => alive'[Key(n)].domain # Domain(n)]_vars
=============================================================================
