--------------------------- MODULE ElectionWorkers ---------------------------
(***************************************************************************)
(* The two workers of an ElectionImpl, which are the same for Redis and    *)
(* MongoDB: goElect and goHeartBeat, their tickers, and the time a round   *)
(* takes.  A worker is a record; the operators say how it changes.         *)
(***************************************************************************)
EXTENDS Integers

CONSTANTS UnhealthyTime,  \* ElectionOption.UnhealthyTime: the lease duration
          RoundTime       \* bound on the duration of one round of a worker

Period == UnhealthyTime \div 2

\* A round that starts with one tick of the ticker is over before the lease
\* taken or renewed in the round before: Timeout must be chosen for that.
ASSUME TimeAssumption ==
  /\ UnhealthyTime \in Nat /\ RoundTime \in Nat
  /\ UnhealthyTime >= 2
  /\ Period + RoundTime < UnhealthyTime

\* A ticker: the time to its next tick, and whether a tick waits to be read.
\* The first round starts at once, as if there were one.
Ticker == [next : 1 .. Period, due : BOOLEAN]
NewTicker == [next |-> Period, due |-> TRUE]

\* The election worker: the leader flag, its place, the reply it waits for, its
\* ticker, the time its round has used, and whether it is leader by finding
\* its own record, not yet renewed.
NoElect == [leaderFlag |-> FALSE, pc |-> "exited", reply |-> "wait",
            timer |-> NewTicker, spent |-> 0, adopted |-> FALSE]
\* The heartbeat worker: its place, its ticker, the time its round has used,
\* and whether its last heartbeat was confirmed.
NoBeat == [pc |-> "exited", timer |-> NewTicker, spent |-> 0, ok |-> FALSE]

ElectType == [leaderFlag : BOOLEAN, pc : {"wait", "campaign", "check", "renew", "write", "exited"},
              reply : {"wait", "ok", "no"}, timer : Ticker, spent : 0 .. RoundTime,
              adopted : BOOLEAN]
BeatType == [pc : {"wait", "set", "exited"}, timer : Ticker, spent : 0 .. RoundTime,
             ok : BOOLEAN]

\* The ticker of a worker that waits in its select has fired.
TickDue(w) == w.pc = "wait" /\ w.timer.due

\* The worker reads the tick and starts a round.
TakeTick(w, pc) == [w EXCEPT !.pc = pc, !.timer.due = FALSE]

\* Faulty: the worker returns after a round that did not make its node leader.
EndRoundReturns(w, flag, byAdoption) ==
  [w EXCEPT !.leaderFlag = flag, !.adopted = byAdoption, !.reply = "wait", !.spent = 0,
            !.pc = IF flag THEN "wait" ELSE "exited"]

\* The end of a round of the election worker: the flag is set.
EndRound(w, flag, byAdoption) ==
  [w EXCEPT !.leaderFlag = flag, !.adopted = byAdoption, !.pc = "wait", !.reply = "wait",
            !.spent = 0]

\* runElectionOnce with CanElect false.
StepDownRound(w) == EndRound(TakeTick(w, "wait"), FALSE, FALSE)

\* The end of a heartbeat.
EndBeat(w, ok) == [w EXCEPT !.pc = "wait", !.spent = 0, !.ok = ok]

\* The worker returns and stops its ticker.
Stopped(w) == [w EXCEPT !.pc = "exited", !.timer = NewTicker]

\* The end of the first round closes readyCh, and EnableElection returns.
Ready(l) == IF l = "starting" THEN "running" ELSE l

\* One unit of time on a ticker: a tick that nobody reads is kept, one.
Advance(t) == IF t.next > 1 THEN [t EXCEPT !.next = @ - 1]
              ELSE [next |-> Period, due |-> TRUE]

\* One unit of time on a worker: on its ticker, and on its round if it is in one.
Age(w) == CASE w.pc = "exited" -> w
            [] w.pc = "wait"   -> [w EXCEPT !.timer = Advance(@)]
            [] OTHER           -> [w EXCEPT !.timer = Advance(@), !.spent = @ + 1]

\* Time does not pass a worker that has something to do right now, unless it is
\* on its way out.
MayAge(w, l) == /\ TickDue(w) => l = "closing"
                /\ w.pc # "exited" => w.spent < RoundTime
=============================================================================
