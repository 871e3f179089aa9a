---------------------------- MODULE RedisElection ----------------------------
(***************************************************************************)
(* Leader election and heartbeat of dkit/redis/elect.go: the nodes of one  *)
(* election domain, each with an election worker and, with KeepHeartbeat,  *)
(* a heartbeat worker.                                                     *)
(*                                                                         *)
(* Time is relative: records, tickers and rounds carry the time they have  *)
(* left or have used, and Tick lets one unit pass.  A worker acts as soon  *)
(* as its ticker has fired, and its round takes at most RoundTime: the     *)
(* Timeout of the operations and the time the scheduler and the handlers   *)
(* of LeaderChangedEvent need.  Commands to the server take time, their    *)
(* replies can be lost, and an abandoned command may be executed late.     *)
(***************************************************************************)
EXTENDS ElectionWorkers, FiniteSets

CONSTANTS Nodes,          \* the node keys of the domain
          NoNode,         \* the holder of no leader record
          Settings        \* what the domain consists of, and what may happen

ASSUME NodeAssumption == NoNode \notin Nodes
ASSUME SettingAssumption ==
  Settings \subseteq [members : SUBSET Nodes,     \* the nodes that take part
                      keepHeartbeat : BOOLEAN,    \* ElectionOption.KeepHeartbeat
                      veto : BOOLEAN,             \* may CanElect return false?
                      faults : BOOLEAN,           \* may operations and nodes fail?
                      overlap : BOOLEAN,          \* may a life start before the last is closed?
                      maxLate : Nat]              \* bound on late commands

VARIABLES setting,        \* the setting of this behaviour; it never changes
          record,         \* the leader record: its holder and its time left
          alive,          \* the heartbeat record of each node: its time left
          late,           \* abandoned commands that may still be executed
          life,           \* the life of the node's ElectionImpl
          elect,          \* leaderFlag and the election worker
          beat,           \* the heartbeat worker
          haunted         \* started while a deregistration of its own was late

vars == <<setting, record, alive, late, life, elect, beat, haunted>>

NoRecord == [holder |-> NoNode, ttl |-> 0]
Command == [op : {"SetNX", "Renew", "Del", "Beat", "DelBeat"}, node : Nodes]

Init == /\ setting \in Settings
        /\ record = NoRecord
        /\ alive = [n \in Nodes |-> 0]
        /\ late = {}
        /\ life = [n \in Nodes |-> "new"]
        /\ elect = [n \in Nodes |-> NoElect]
        /\ beat = [n \in Nodes |-> NoBeat]
        /\ haunted = [n \in Nodes |-> FALSE]

-----------------------------------------------------------------------------
(* The server.                                                             *)

SetNX(r, n) == IF r = NoRecord THEN [holder |-> n, ttl |-> UnhealthyTime] ELSE r
\* continueLeaderScript
Renew(r, n) == IF r.holder = n THEN [r EXCEPT !.ttl = UnhealthyTime] ELSE r

\* Faulty: the script never deletes.
DelNever(r, n) == r

\* deleteIfValueScript
DelIfHolder(r, n) == IF r.holder = n THEN NoRecord ELSE r

-----------------------------------------------------------------------------
(* The election worker.                                                    *)

\* The commands of a node that the server has not executed yet.
Sent(n) ==
  {c \in Command : /\ c.node = n
                   /\ \/ elect[n].pc = "campaign" /\ elect[n].reply = "wait" /\ c.op = "SetNX"
                      \/ elect[n].pc = "renew" /\ elect[n].reply = "wait" /\ c.op = "Renew"
                      \/ beat[n].pc = "set" /\ c.op = "Beat"}

\* What a life that is being closed may still send: a last round of each of
\* its workers, and the deregistrations.
Remaining(n) ==
  Sent(n) \cup
  {c \in Command : /\ c.node = n
                   /\ \/ elect[n].pc # "exited" /\ c.op \in {"SetNX", "Renew"}
                      \/ beat[n].pc # "exited" /\ c.op = "Beat"
                      \/ /\ life[n] = "closing" /\ c.op = "Del"
                         /\ elect[n].pc # "exited" \/ elect[n].leaderFlag
                      \/ setting.keepHeartbeat /\ c.op = "DelBeat"}

\* EnableElection: a new ElectionImpl starts its workers, which run a first
\* round at once; Init waits for the end of that round (readyCh).  Atomic.Close
\* forgets its ElectionImpl before it closes it, so EnableElection need not
\* wait for the last life to be closed: what that one still sends is late.
Start(n) ==
  /\ n \in setting.members
  /\ \/ life[n] \in {"new", "crashed", "closed"} /\ late' = late
     \/ /\ setting.overlap
        /\ life[n] \in {"closing", "deregistering"}
        /\ Cardinality(late \cup Remaining(n)) <= setting.maxLate
        /\ late' = late \cup Remaining(n)
  /\ life' = [life EXCEPT ![n] = "starting"]
  /\ elect' = [elect EXCEPT ![n] = [NoElect EXCEPT !.pc = "wait"]]
  /\ beat' = [beat EXCEPT ![n] = IF setting.keepHeartbeat THEN [NoBeat EXCEPT !.pc = "wait"]
                                 ELSE NoBeat]
  /\ haunted' = [haunted EXCEPT ![n] = \E c \in late' : c.node = n /\ c.op \in {"Del", "DelBeat"}]
  /\ UNCHANGED <<setting, record, alive>>

\* runElectionOnce with CanElect false: the node steps down, its record stays.
StepDown(n) ==
  /\ setting.veto
  /\ TickDue(elect[n])
  /\ elect' = [elect EXCEPT ![n] = StepDownRound(@)]
  /\ life' = [life EXCEPT ![n] = Ready(@)]
  /\ UNCHANGED <<setting, record, alive, late, beat, haunted>>

\* elect: a leader continues, any other node campaigns.
BeginRound(n) ==
  /\ TickDue(elect[n])
  /\ elect' = [elect EXCEPT ![n] = TakeTick(@, IF @.leaderFlag THEN "renew" ELSE "campaign")]
  /\ UNCHANGED <<setting, record, alive, late, life, beat, haunted>>

\* A round of the election worker ends with this flag.
End(n, flag, byAdoption) ==
  /\ elect' = [elect EXCEPT ![n] = EndRound(@, flag, byAdoption)]
  /\ life' = [life EXCEPT ![n] = Ready(@)]

Exec(n) ==
  /\ elect[n].reply = "wait"
  /\ \/ /\ elect[n].pc = "campaign"
        /\ record' = SetNX(record, n)
        /\ elect' = [elect EXCEPT ![n].reply = IF record = NoRecord THEN "ok" ELSE "no"]
     \/ /\ elect[n].pc \in {"renew", "check"}
        /\ record' = IF elect[n].pc = "renew" THEN Renew(record, n) ELSE record
        /\ elect' = [elect EXCEPT ![n].reply = IF record.holder = n THEN "ok" ELSE "no"]
  /\ UNCHANGED <<setting, alive, late, life, beat, haunted>>

\* campaign: the record was free, or exists and GET has to tell whose it is.
CampaignReply(n) ==
  /\ elect[n].pc = "campaign"
  /\ \/ /\ elect[n].reply = "ok"
        /\ End(n, TRUE, FALSE)
     \/ /\ elect[n].reply = "no"
        /\ elect' = [elect EXCEPT ![n].pc = "check", ![n].reply = "wait"]
        /\ UNCHANGED life
  /\ UNCHANGED <<setting, record, alive, late, beat, haunted>>

\* campaign: the record is the node's own, so it is leader; nothing renews it.
HolderReply(n) ==
  /\ elect[n].pc = "check"
  /\ elect[n].reply # "wait"
  /\ End(n, elect[n].reply = "ok", elect[n].reply = "ok")
  /\ UNCHANGED <<setting, record, alive, late, beat, haunted>>

\* Faulty: the return value of the script is not looked at.
RenewReplyIgnored(n) ==
  /\ elect[n].pc = "renew"
  /\ elect[n].reply # "wait"
  /\ End(n, TRUE, FALSE)
  /\ UNCHANGED <<setting, record, alive, late, beat, haunted>>

\* continueLeader: the lease is renewed, or was lost.
RenewReply(n) ==
  /\ elect[n].pc = "renew"
  /\ elect[n].reply # "wait"
  /\ End(n, elect[n].reply = "ok", FALSE)
  /\ UNCHANGED <<setting, record, alive, late, beat, haunted>>

\* The reply is lost and the client library sends the command once more.
Resend(n) ==
  /\ setting.faults
  /\ elect[n].reply # "wait"
  /\ elect' = [elect EXCEPT ![n].reply = "wait"]
  /\ UNCHANGED <<setting, record, alive, late, life, beat, haunted>>

\* A command is given up.  It was executed, or is lost, or is executed later.
Abandon(cmds) ==
  \/ UNCHANGED late
  \/ /\ Cardinality(late \cup cmds) <= setting.maxLate
     /\ late' = late \cup cmds

\* An operation of the round fails: a leader steps down, others stay what they
\* are.
FailRound(n) ==
  /\ setting.faults
  /\ elect[n].pc \in {"campaign", "check", "renew"}
  /\ Abandon({c \in Sent(n) : c.op # "Beat"})
  /\ End(n, FALSE, FALSE)
  /\ UNCHANGED <<setting, record, alive, beat, haunted>>

-----------------------------------------------------------------------------
(* The heartbeat worker.                                                   *)

BeginBeat(n) ==
  /\ TickDue(beat[n])
  /\ beat' = [beat EXCEPT ![n] = TakeTick(@, "set")]
  /\ UNCHANGED <<setting, record, alive, late, life, elect, haunted>>

\* Faulty: a heartbeat lives as long as the period of its ticker.
BeatShort(n) ==
  /\ beat[n].pc = "set"
  /\ alive' = [alive EXCEPT ![n] = Period]
  /\ beat' = [beat EXCEPT ![n] = EndBeat(@, TRUE)]
  /\ UNCHANGED <<setting, record, late, life, elect, haunted>>

Beat(n) ==
  /\ beat[n].pc = "set"
  /\ alive' = [alive EXCEPT ![n] = UnhealthyTime]
  /\ beat' = [beat EXCEPT ![n] = EndBeat(@, TRUE)]
  /\ UNCHANGED <<setting, record, late, life, elect, haunted>>

\* The heartbeat fails: it was written all the same, or is lost, or late.
FailBeat(n) ==
  /\ setting.faults
  /\ beat[n].pc = "set"
  /\ \/ /\ alive' = [alive EXCEPT ![n] = UnhealthyTime]
        /\ UNCHANGED late
     \/ /\ Abandon({c \in Sent(n) : c.op = "Beat"})
        /\ UNCHANGED alive
  /\ beat' = [beat EXCEPT ![n] = EndBeat(@, FALSE)]
  /\ UNCHANGED <<setting, record, life, elect, haunted>>

-----------------------------------------------------------------------------
(* Close.                                                                  *)

\* Atomic.Close drops the election and ElectionImpl.Close closes closeCh.
Close(n) ==
  /\ life[n] = "running"
  /\ life' = [life EXCEPT ![n] = "closing"]
  /\ UNCHANGED <<setting, record, alive, late, elect, beat, haunted>>

\* A worker in its select sees closeCh and returns; if its ticker has fired
\* too, it may take one more round first.
Exit(n) ==
  /\ life[n] = "closing"
  /\ \/ /\ elect[n].pc = "wait"
        /\ elect' = [elect EXCEPT ![n] = Stopped(@)]
        /\ UNCHANGED beat
     \/ /\ beat[n].pc = "wait"
        /\ beat' = [beat EXCEPT ![n] = Stopped(@)]
        /\ UNCHANGED elect
  /\ UNCHANGED <<setting, record, alive, late, life, haunted>>

\* Faulty: Close does not wait for the workers.
WorkersIgnored(n) == TRUE

\* wg.Wait
WorkersDone(n) == elect[n].pc = "exited" /\ beat[n].pc = "exited"

\* The leader record is deleted if the node is leader.
DeregisterLeader(n) ==
  /\ life[n] = "closing"
  /\ WorkersDone(n)
  /\ life' = [life EXCEPT ![n] = "deregistering"]
  /\ \/ /\ elect[n].leaderFlag
        /\ record' = DelIfHolder(record, n)
        /\ UNCHANGED late
     \/ /\ elect[n].leaderFlag /\ setting.faults
        /\ Abandon({[op |-> "Del", node |-> n]})
        /\ UNCHANGED record
     \/ /\ ~elect[n].leaderFlag
        /\ UNCHANGED <<record, late>>
  /\ UNCHANGED <<setting, alive, elect, beat, haunted>>

\* Then the heartbeat record is deleted, and Close returns.
DeregisterHeartbeat(n) ==
  /\ life[n] = "deregistering"
  /\ life' = [life EXCEPT ![n] = "closed"]
  /\ \/ /\ setting.keepHeartbeat
        /\ alive' = [alive EXCEPT ![n] = 0]
        /\ UNCHANGED late
     \/ /\ setting.keepHeartbeat /\ setting.faults
        /\ Abandon({[op |-> "DelBeat", node |-> n]})
        /\ UNCHANGED alive
     \/ /\ ~setting.keepHeartbeat
        /\ UNCHANGED <<alive, late>>
  /\ UNCHANGED <<setting, record, elect, beat, haunted>>

-----------------------------------------------------------------------------
(* Failures and time.                                                      *)

\* The process of the node ends at any point; its records stay.
Crash(n) ==
  /\ setting.faults
  /\ life[n] \notin {"new", "crashed", "closed"}
  /\ life' = [life EXCEPT ![n] = "crashed"]
  /\ \E cmds \in SUBSET Sent(n) : Abandon(cmds)
  /\ elect' = [elect EXCEPT ![n] = NoElect]
  /\ beat' = [beat EXCEPT ![n] = NoBeat]
  /\ haunted' = [haunted EXCEPT ![n] = FALSE]
  /\ UNCHANGED <<setting, record, alive>>

LateCommand(c) ==
  /\ c \in late
  /\ late' = late \ {c}
  /\ record' \in {record, CASE c.op = "SetNX" -> SetNX(record, c.node)
                            [] c.op = "Renew" -> Renew(record, c.node)
                            [] c.op = "Del"   -> DelIfHolder(record, c.node)
                            [] OTHER          -> record}
  /\ alive' \in {alive, CASE c.op = "Beat"    -> [alive EXCEPT ![c.node] = UnhealthyTime]
                          [] c.op = "DelBeat" -> [alive EXCEPT ![c.node] = 0]
                          [] OTHER            -> alive}
  /\ UNCHANGED <<setting, life, elect, beat, haunted>>

\* One unit of time on a heartbeat record.
Fade(t) == IF t > 0 THEN t - 1 ELSE 0

Tick ==
  /\ \A n \in Nodes : MayAge(elect[n], life[n]) /\ MayAge(beat[n], life[n])
  /\ record' = IF record.ttl > 1 THEN [record EXCEPT !.ttl = @ - 1] ELSE NoRecord
  /\ alive' = [n \in Nodes |-> Fade(alive[n])]
  /\ elect' = [n \in Nodes |-> Age(elect[n])]
  /\ beat' = [n \in Nodes |-> Age(beat[n])]
  /\ UNCHANGED <<setting, late, life, haunted>>

-----------------------------------------------------------------------------
WorkerStep(n) ==
  \/ BeginRound(n) \/ Exec(n) \/ CampaignReply(n) \/ HolderReply(n) \/ RenewReply(n)
  \/ BeginBeat(n) \/ Beat(n) \/ Exit(n) \/ DeregisterLeader(n) \/ DeregisterHeartbeat(n)

Next == \/ \E n \in Nodes : \/ WorkerStep(n) \/ StepDown(n) \/ Start(n) \/ Close(n)
                            \/ FailRound(n) \/ Resend(n) \/ FailBeat(n) \/ Crash(n)
        \/ \E c \in late : LateCommand(c)
        \/ Tick

Spec == Init /\ [][Next]_vars

-----------------------------------------------------------------------------
(* Properties.                                                             *)

\* The variables have their types, no record outlives UnhealthyTime and no
\* round RoundTime.
TypeOK ==
  /\ setting \in Settings
  /\ record \in [holder : Nodes \cup {NoNode}, ttl : 0 .. UnhealthyTime]
  /\ (record.holder = NoNode) <=> (record = NoRecord)
  /\ alive \in [Nodes -> 0 .. UnhealthyTime]
  /\ late \subseteq Command
  /\ life \in [Nodes -> {"new", "starting", "running", "closing", "deregistering",
                         "closed", "crashed"}]
  /\ elect \in [Nodes -> ElectType]
  /\ beat \in [Nodes -> BeatType]
  /\ haunted \in [Nodes -> BOOLEAN]

\* Atomic.IsLeader: the flag of an election that is enabled.
IsLeader(n) == life[n] = "running" /\ elect[n].leaderFlag

\* A node that reports to be leader, and did not become it by finding its own
\* old record, holds the leader record until its next round is over; hence
\* two such nodes never report it at once, whatever fails.  Excepted is a node
\* started while its own deregistration was still on its way to the server,
\* given up by a life that is closed or still to come of one being closed.
LeaderBacked ==
  \A n \in Nodes : IsLeader(n) /\ ~elect[n].adopted /\ ~haunted[n] => record.holder = n

\* "IsLeader reports whether this node is currently leader": at most one does.
AtMostOneLeader ==
  \A m, n \in Nodes : IsLeader(m) /\ IsLeader(n) => m = n

\* "Close stops workers and deregisters owned leader and heartbeat records":
\* when Close returns, no record of the node is left, if no operation fails,
\* no earlier life of the node is still being closed, and CanElect does not
\* make the node step down without giving up its record.
CloseDeregisters ==
  [][~(setting.faults \/ setting.overlap) /\ ~setting.veto =>
       \A n \in Nodes : life[n] # "closed" /\ life'[n] = "closed" =>
         record'.holder # n /\ alive'[n] = 0]_vars

\* Close waits for the workers, so nothing registers the node again after it,
\* except a command it gave up before and that is still under way.
ClosedStaysOut ==
  [][\A n \in Nodes : life[n] = "closed" /\ (\A c \in late : c.node # n) =>
       /\ record.holder # n => record'.holder # n
       /\ alive[n] = 0 => alive'[n] = 0]_vars

\* A node whose heartbeats succeed is never seen as dead: the record of the
\* last one outlives the next.
RunningIsAlive ==
  \A n \in Nodes : life[n] = "running" /\ beat[n].ok /\ ~haunted[n] => alive[n] > 0

-----------------------------------------------------------------------------
(* Liveness: time passes, workers run and the server answers.  A select    *)
(* whose two channels are ready picks one at random, so closeCh is not     *)
(* overlooked for ever: strong fairness of Exit.                           *)

Fairness == WF_vars(Tick) /\ \A n \in Nodes : WF_vars(WorkerStep(n)) /\ SF_vars(Exit(n))

FairSpec == Spec /\ Fairness

\* If a node keeps running and operations do not fail, there is a leader again
\* and again: after the leader closed, and after a node took the record and
\* closed at once.
LeaderReelected ==
  (~setting.faults /\ ~setting.veto /\ \E n \in Nodes : <>[](life[n] = "running"))
    => []<>(\E n \in Nodes : IsLeader(n))

\* A node that is gone for good is forgotten: whatever it did last, whatever of
\* it failed or arrives late, it ends up neither alive nor leader for others.
DeadForgotten ==
  \A n \in Nodes : <>[](life[n] \in {"crashed", "closed"}) =>
                     <>[](alive[n] = 0 /\ record.holder # n)
=============================================================================
