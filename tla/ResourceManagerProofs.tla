------------------------ MODULE ResourceManagerProofs ------------------------
(***************************************************************************)
(* Proofs about ResourceManager and the HttpAgent it composes, for every   *)
(* set of callers, calls, instances, sizes and limits, and for every       *)
(* bound on the clock.                                                     *)
(*                                                                         *)
(* The inductive invariant IInv has a part for every call (CallOK) and     *)
(* one for every download (DownloadOK). A call needs more than its         *)
(* properties say: that an attempt beyond the last is never begun, and     *)
(* that the header never promises more than was left when it was written.  *)
(* A download needs that its temporary file is what it has read, and that  *)
(* its call has a stream for as long as it reads one.                      *)
(***************************************************************************)
EXTENDS ResourceManager, TLAPS

\* Where a call can be.
Pcs == {"idle", "prepare", "resolve", "send", "flight", "drain", "handle", "stream", "backoff", "done"}

\* The fields of a call.
Fields == {"pc", "job", "deadline", "attempt", "wake", "header", "inst", "offered", "sent",
           "at", "passed", "hop", "hops", "reply", "code", "filled", "open", "canceled",
           "released", "outcome"}

\* The record of a call, as far as the properties depend on its types.
Typed(k) ==
    /\ DOMAIN k = Fields
    /\ k.pc \in Pcs
    /\ k.deadline \in Int /\ k.attempt \in Int /\ k.header \in Int /\ k.sent \in Int
    /\ k.at \in Int /\ k.passed \in Int /\ k.open \in Int /\ k.hops \in Int

\* The requests of a call: retryDoHTTP (agent.go:217) begins no attempt beyond
\* the last, and an attempt sends one request, redirected within the limit.
Counted(c, k) ==
    /\ k.pc # "idle" => k.job \in Jobs[c] /\ k.attempt <= Attempts(k.job)
    /\ k.pc = "idle" => k.attempt = 1
    /\ k.pc = "backoff" => k.attempt < Attempts(k.job)
    /\ k.sent <= k.attempt
    /\ k.pc \in {"idle", "prepare", "resolve", "send"} => k.sent < k.attempt
    /\ k.pc = "idle" => k.hops = 0
    /\ k.hops > 0 => k.hops < k.job.redirects

\* What a call holds: one body while it is read, and the context until the
\* call returns or the caller closes the stream.
Held(k) ==
    /\ k.pc = "done" => k.open = 0 /\ k.released
    /\ k.pc # "done" => k.open = IF k.pc \in {"drain", "handle", "stream"} THEN 1 ELSE 0
    /\ k.pc # "done" => ~k.released

\* The budget of a call: the deadline passed on is the one of the context, the
\* header was rounded down, and the next service adds nothing to it.
Budgeted(k) ==
    /\ k.pc # "done" => k.passed = k.deadline
    /\ k.pc \in {"resolve", "send", "flight"} => k.header * Ms <= k.passed - k.at
    /\ k.pc \in {"idle", "prepare", "resolve", "send", "backoff"} => k.hop = None
    /\ k.hop # None /\ k.header > 0 => k.hop.deadline <= k.deadline + k.hop.transit

\* No answer has set a field of the caller's result.
Clean(k) == RetriesRefused(k.job) \/ k.filled = {}

\* A call that does not retry what its handler refuses has a clean result until
\* it returns: an answer that set fields was its last.
Answered(k) ==
    /\ k.pc = "idle" => k.filled = {}
    /\ k.pc # "done" => Clean(k)
    /\ RetriesRefused(k.job) \/ FilledAfresh(k)

\* The instance a request goes to, from the moment discovery chose it.
Picked(k) ==
    k.pc \in {"send", "flight"} /\ k.job.discovery = "on" =>
        /\ k.inst \in k.offered /\ Callable(k.job, k.inst)
        /\ Near(k.job, k.inst) \/ \A i \in k.offered : Callable(k.job, i) => ~Near(k.job, i)

\* The invariant of one call.
CallOK(c, k) ==
    Typed(k) /\ Counted(c, k) /\ Held(k) /\ Budgeted(k) /\ Answered(k) /\ Picked(k)

\* The invariant of the agent: of the clock and of every call.
CallInv == /\ now \in Nat
           /\ DOMAIN call = Callers
           /\ \A c \in Callers : CallOK(c, call[c])

\* The steps of Download (manager.go:79) after Open has returned.
Loading == {"place", "copy", "check", "rename"}

\* The invariant of one download w, whose call is at pc and whose temporary
\* file holds t: the file is what was read, and the limit was checked before
\* the rename.
DownloadOK(w, pc, t) ==
    /\ DOMAIN w = {"pc", "kind", "size", "length", "read", "result"}
    /\ w.pc \in {"idle", "agent", "done"} \cup Loading
    /\ w.size \in Nat /\ w.length \in Int /\ w.read \in Nat
    /\ w.pc = "idle" => w.kind = None
    /\ w.pc = "agent" => w.kind = "http"
    /\ w.pc \in Loading => w.kind \in {"http", "data", "custom"}
    /\ w.pc \in Loading /\ w.kind = "http" => pc = "stream"
    /\ w.pc = "done" /\ w.kind = "http" => pc = "done"
    /\ w.pc \in {"idle", "agent", "place"} => w.read = 0
    /\ w.pc \in {"idle", "agent", "place", "done"} => t = None
    /\ w.pc \in {"copy", "check", "rename"} => t = w.read
    /\ w.pc \in {"copy", "check", "rename"} /\ w.kind = "http" => w.read <= MaxBytes
    /\ w.pc \in {"check", "rename"} => BrokenLooksDone(w) \/ w.read = w.size
    /\ w.pc \in Loading /\ w.kind = "data" => w.length = w.size
    /\ w.pc = "rename" /\ w.kind # "custom" => w.read <= MaxBytes

\* The destination is absent or whole, but for what a broken connection cut
\* off unnoticed, and within the limit unless a registered handler made it.
WholeFile ==
    dst # None =>
        /\ BrokenLooksDone(dst) \/ dst.holds = dst.size
        /\ dst.kind # "custom" => dst.holds <= MaxBytes

\* The inductive invariant.
IInv ==
    /\ CallInv
    /\ DOMAIN handlers = Schemes
    /\ \A s \in Schemes : handlers[s] \in {"http", "none", "data", "custom"}
    /\ DOMAIN work = Downloaders /\ DOMAIN temp = Downloaders
    /\ \A c \in Downloaders : DownloadOK(work[c], call[c].pc, temp[c])
    /\ WholeFile

\* The assumption on the numbers, in the form the proofs use.
LEMMA Numbers ==
    /\ Ms \in Nat \ {0} /\ DefaultQuota \in Nat \ {0} /\ DefaultAttempts \in Nat \ {0}
    /\ HopDefault \in Nat /\ HopMax \in Nat /\ None \notin Int
    BY AgentAssumption

\* Attempts is at least 1, 1 for what must not be repeated, and what the
\* options say otherwise.
LEMMA AttemptsPositive ==
    ASSUME NEW c \in Callers, NEW j \in Jobs[c]
    PROVE  /\ Attempts(j) \in Int /\ Attempts(j) >= 1
           /\ ~Repeatable(j) => Attempts(j) = 1
           /\ Repeatable(j) /\ j.retry.attempts > 0 => Attempts(j) = j.retry.attempts
    BY JobAssumption, Numbers DEF Attempts, Repeatable, canRetryMethod

\* What Forget changes and keeps.
LEMMA ForgetFields ==
    ASSUME NEW k, Typed(k)
    PROVE  LET f == Forget(k) IN
           /\ Typed(f) /\ f.header = 0 /\ f.hop = None
           /\ f.pc = k.pc /\ f.job = k.job /\ f.deadline = k.deadline /\ f.attempt = k.attempt
           /\ f.sent = k.sent /\ f.passed = k.passed /\ f.reply = k.reply /\ f.open = k.open
           /\ f.released = k.released /\ f.outcome = k.outcome
           /\ f.filled = k.filled /\ f.hops = 0
    BY DEF Typed, Forget, Fields

\* What Return changes and keeps.
LEMMA ReturnFields ==
    ASSUME NEW k, Typed(k), NEW o
    PROVE  LET f == Return(k, o) IN
           /\ Typed(f) /\ f.header = 0 /\ f.hop = None
           /\ f.pc = "done" /\ f.job = k.job /\ f.attempt = k.attempt
           /\ f.sent = k.sent /\ f.reply = k.reply /\ f.open = k.open
           /\ f.released /\ f.outcome = o /\ f.filled = k.filled /\ f.hops = 0
<1>. DEFINE g == Forget(k)
<1>1. Typed(g) /\ g.header = 0 /\ g.hop = None /\ g.job = k.job /\ g.attempt = k.attempt
      /\ g.sent = k.sent /\ g.reply = k.reply /\ g.open = k.open
      /\ g.filled = k.filled /\ g.hops = 0
  BY ForgetFields
<1>2. Return(k, o) = [g EXCEPT !.pc = "done", !.deadline = 0, !.passed = 0, !.code = 0,
                      !.canceled = FALSE, !.outcome = o, !.released = TRUE]
  BY DEF Return
<1>. HIDE DEF g
<1> QED BY <1>1, <1>2 DEF Typed, Pcs, Fields

\* A call whose attempt has failed and holds nothing any more.
Failing(c, k) ==
    /\ Typed(k) /\ k.job \in Jobs[c] /\ k.attempt <= Attempts(k.job) /\ k.sent <= k.attempt
    /\ k.open = 0 /\ ~k.released /\ k.passed = k.deadline

\* A call may return an error at any such point, and success if only its last
\* answer has set fields.
LEMMA ReturnOK ==
    ASSUME NEW c \in Callers, NEW k, NEW o, Failing(c, k),
           o = "ok" => RetriesRefused(k.job) \/ k.filled \subseteq {k.attempt}
    PROVE  CallOK(c, Return(k, o))
<1>. DEFINE f == Return(k, o)
<1>1. /\ Typed(f) /\ f.header = 0 /\ f.hop = None /\ f.pc = "done" /\ f.job = k.job
      /\ f.attempt = k.attempt /\ f.sent = k.sent /\ f.reply = k.reply /\ f.open = k.open
      /\ f.released /\ f.outcome = o /\ f.filled = k.filled /\ f.hops = 0
  <2>1. Typed(k)
    BY DEF Failing
  <2> QED BY <2>1, ReturnFields
<1>. HIDE DEF f
<1>2. Counted(c, f) /\ Held(f) /\ Budgeted(f) /\ Picked(f)
  BY <1>1 DEF Failing, Counted, Held, Budgeted, Picked
<1>3. Answered(f)
  <2>1. f.outcome = "ok" => RetriesRefused(f.job) \/ f.filled \subseteq {f.attempt}
    BY <1>1
  <2> QED BY <1>1, <2>1, Zenon DEF Answered, Clean, FilledAfresh
<1> QED BY <1>1, <1>2, <1>3 DEF CallOK, f

\* After a failure the call returns or waits for an attempt that it has left.
LEMMA FailOK ==
    ASSUME NEW c \in Callers, NEW k, NEW r, Failing(c, k), Clean(k) \/ ~r,
           NEW next \in AfterFailure(k, r)
    PROVE  CallOK(c, next)
<1>1. CASE next = Return(k, "error")
  BY <1>1, ReturnOK
<1>2. CASE next # Return(k, "error")
  <2>1. k.attempt # Attempts(k.job) /\ Clean(k)
    BY <1>2 DEF AfterFailure
  <2>2. PICK w : next = [Forget(k) EXCEPT !.pc = "backoff", !.reply = None, !.wake = w]
    BY <1>2 DEF AfterFailure
  <2>. DEFINE g == Forget(k)
  <2>3. /\ Typed(g) /\ g.header = 0 /\ g.hop = None /\ g.job = k.job /\ g.deadline = k.deadline
        /\ g.attempt = k.attempt /\ g.sent = k.sent /\ g.passed = k.passed /\ g.open = k.open
        /\ g.released = k.released /\ g.filled = k.filled /\ g.hops = 0
    BY ForgetFields DEF Failing
  <2>. HIDE DEF g
  <2>4. next = [g EXCEPT !.pc = "backoff", !.reply = None, !.wake = w]
    BY <2>2 DEF g
  <2>5. /\ Typed(next) /\ next.pc = "backoff" /\ next.header = 0 /\ next.hop = None
        /\ next.job = k.job /\ next.deadline = k.deadline /\ next.attempt = k.attempt
        /\ next.sent = k.sent /\ next.passed = k.passed /\ next.open = k.open
        /\ next.released = k.released /\ next.filled = k.filled /\ next.hops = 0
    BY <2>3, <2>4 DEF Typed, Fields, Pcs
  <2>6. Counted(c, next)
    BY <2>1, <2>5, AttemptsPositive DEF Failing, Counted, Typed
  <2>7. Held(next) /\ Budgeted(next) /\ Answered(next) /\ Picked(next)
    BY <2>1, <2>5 DEF Failing, Held, Budgeted, Answered, Picked, Clean, FilledAfresh
  <2> QED BY <2>5, <2>6, <2>7 DEF CallOK
<1> QED BY <1>1, <1>2

\* A step of one call keeps CallInv if the new call is as CallOK says. Every
\* action of the agent is an instance of this.
LEMMA ChangeKeeps ==
    ASSUME CallInv, NEW c \in Callers, NEW k, CallOK(c, k), Change(c, k)
    PROVE  CallInv'
    BY DEF CallInv, Change

\* The same for a failed attempt.
LEMMA FailKeeps ==
    ASSUME CallInv, NEW c \in Callers, NEW k, NEW r, Failing(c, k), Clean(k) \/ ~r, Fail(c, k, r)
    PROVE  CallInv'
    BY FailOK, ChangeKeeps DEF Fail

\* Whatever an attempt waits for before it has a response may fail.
LEMMA AttemptFails ==
    ASSUME CallInv, NEW c \in Callers, call[c].pc \in {"prepare", "resolve", "send", "flight", "backoff"}
    PROVE  Failing(c, call[c]) /\ Clean(call[c])
    BY DEF CallInv, CallOK, Counted, Held, Budgeted, Answered, Clean, FilledAfresh, Failing

\* client.Do in doHTTP (agent.go:255) sends the request of the attempt.
LEMMA SendKeeps ==
    ASSUME CallInv, NEW c \in Callers, Send(c)
    PROVE  CallInv'
<1>1. call[c].pc = "send"
  BY DEF Send, At
<1>2. CASE Fail(c, call[c], TRUE)
  BY <1>1, <1>2, AttemptFails, FailKeeps
<1>3. CASE Change(c, [call[c] EXCEPT !.pc = "flight", !.sent = @ + 1, !.hop = None,
                                    !.hops = 0])
  <2>. DEFINE k == call[c]
              f == [k EXCEPT !.pc = "flight", !.sent = @ + 1, !.hop = None, !.hops = 0]
  <2>1. CallOK(c, k)
    BY DEF CallInv
  <2>2. k.pc = "send"
    BY <1>1
  <2>. HIDE DEF k
  <2>3. /\ Typed(f) /\ f.pc = "flight" /\ f.header = k.header /\ f.hop = None /\ f.at = k.at
        /\ f.job = k.job /\ f.deadline = k.deadline /\ f.attempt = k.attempt
        /\ f.sent = k.sent + 1 /\ f.passed = k.passed /\ f.open = k.open
        /\ f.released = k.released /\ f.inst = k.inst /\ f.offered = k.offered
        /\ f.filled = k.filled /\ f.hops = 0
    BY <2>1 DEF CallOK, Typed, Fields, Pcs
  <2>. HIDE DEF f
  <2>4. Counted(c, f)
    BY <2>1, <2>2, <2>3 DEF CallOK, Counted, Typed
  <2>5. Held(f) /\ Budgeted(f) /\ Answered(f) /\ Picked(f)
    BY <2>1, <2>2, <2>3 DEF CallOK, Held, Budgeted, Answered, Clean, FilledAfresh, Picked
  <2>6. CallOK(c, f)
    BY <2>3, <2>4, <2>5 DEF CallOK
  <2> QED BY <1>3, <2>6, ChangeKeeps DEF f, k
<1> QED BY <1>2, <1>3 DEF Send

\* The header is rounded down.
LEMMA WholeMilliseconds ==
    ASSUME NEW x \in Int
    PROVE  x \div Ms \in Int /\ (x \div Ms) * Ms <= x
    BY Numbers

\* A deadline taken from the context does not change when the context is
\* derived from it.
LEMMA EarlierTwice ==
    ASSUME NEW s \in Int \cup {None}, NEW t \in Int
    PROVE  Earlier(s, t) \in Int /\ Earlier(s, Earlier(s, t)) = Earlier(s, t)
    BY Numbers DEF Earlier

\* init (agent.go:131) fixes the deadline, and the one passed on is the same.
LEMMA StartKeeps ==
    ASSUME CallInv, NEW c \in Callers, Start(c)
    PROVE  CallInv'
<1>. DEFINE k == call[c]
<1>1. CallOK(c, k) /\ k.pc = "idle" /\ now \in Int
  BY DEF Start, At, CallInv
<1>2. PICK j \in Jobs[c] :
        \/ Change(c, Return([k EXCEPT !.job = j], "error"))
        \/ LET quota == IF j.quota <= 0 THEN DefaultQuota ELSE j.quota
               given == authoritativeDeadline(j.passed, j.ctx)
               d == contextWithAuthoritativeDeadline(
                        j.ctx, IF given = None THEN now + quota ELSE given)
           IN  Change(c, [k EXCEPT !.job = j, !.passed = d, !.pc = "prepare",
                                   !.deadline = Earlier(j.ctx, d)])
  BY DEF Start
<1>. HIDE DEF k
<1>3. Attempts(j) \in Int /\ Attempts(j) >= 1
  BY AttemptsPositive
<1>4. CASE Change(c, Return([k EXCEPT !.job = j], "error"))
  <2>. DEFINE f == [k EXCEPT !.job = j]
  <2>1. /\ Typed(f) /\ f.job = j /\ f.attempt = k.attempt /\ f.sent = k.sent /\ f.open = k.open
        /\ f.released = k.released /\ f.passed = k.passed /\ f.deadline = k.deadline
        /\ f.filled = k.filled /\ f.hops = k.hops
    BY <1>1 DEF CallOK, Typed, Fields
  <2>. HIDE DEF f
  <2>2. Failing(c, f)
    BY <1>1, <1>3, <2>1 DEF Failing, CallOK, Counted, Held, Budgeted, Typed
  <2> QED BY <1>4, <2>2, ReturnOK, ChangeKeeps DEF f
<1>5. ASSUME NEW d \in Int, NEW e, e = d,
             Change(c, [k EXCEPT !.job = j, !.passed = d, !.pc = "prepare", !.deadline = e])
      PROVE  CallInv'
  <2>. DEFINE f == [k EXCEPT !.job = j, !.passed = d, !.pc = "prepare", !.deadline = e]
  <2>1. /\ Typed(f) /\ f.job = j /\ f.attempt = k.attempt /\ f.sent = k.sent /\ f.open = k.open
        /\ f.released = k.released /\ f.passed = d /\ f.deadline = d /\ f.pc = "prepare"
        /\ f.hop = k.hop
        /\ f.filled = k.filled /\ f.hops = k.hops
    BY <1>1, <1>5 DEF CallOK, Typed, Fields, Pcs
  <2>. HIDE DEF f
  <2>2. Counted(c, f)
    BY <1>1, <1>3, <2>1 DEF CallOK, Counted, Typed
  <2>3. Held(f) /\ Budgeted(f) /\ Answered(f) /\ Picked(f)
    BY <1>1, <2>1 DEF CallOK, Held, Budgeted, Answered, Clean, FilledAfresh, Picked
  <2>4. CallOK(c, f)
    BY <2>1, <2>2, <2>3 DEF CallOK
  <2> QED BY <1>5, <2>4, ChangeKeeps DEF f
<1>6. CASE LET quota == IF j.quota <= 0 THEN DefaultQuota ELSE j.quota
               given == authoritativeDeadline(j.passed, j.ctx)
               d == contextWithAuthoritativeDeadline(
                        j.ctx, IF given = None THEN now + quota ELSE given)
           IN  Change(c, [k EXCEPT !.job = j, !.passed = d, !.pc = "prepare",
                                   !.deadline = Earlier(j.ctx, d)])
  <2>. DEFINE quota == IF j.quota <= 0 THEN DefaultQuota ELSE j.quota
              given == authoritativeDeadline(j.passed, j.ctx)
              t == IF given = None THEN now + quota ELSE given
              d == Earlier(j.ctx, t)
  <2>1. /\ j.ctx \in Int \cup {None} /\ j.passed \in Int \cup {None} /\ j.quota \in Int
    BY JobAssumption
  <2>2. t \in Int
    BY <1>1, <2>1, Numbers DEF authoritativeDeadline
  <2>3. Change(c, [k EXCEPT !.job = j, !.passed = d, !.pc = "prepare",
                            !.deadline = Earlier(j.ctx, d)])
    BY <1>6 DEF contextWithAuthoritativeDeadline
  <2>. HIDE DEF t
  <2>4. d \in Int /\ Earlier(j.ctx, d) = d
    BY <2>1, <2>2, EarlierTwice
  <2>. HIDE DEF d
  <2> QED BY <1>5, <2>3, <2>4
<1> QED BY <1>2, <1>4, <1>6

\* The caller cancels its context.
LEMMA CancelKeeps ==
    ASSUME CallInv, NEW c \in Callers, Cancel(c)
    PROVE  CallInv'
<1>. DEFINE k == call[c]
            f == [k EXCEPT !.canceled = TRUE]
<1>1. CallOK(c, k) /\ Change(c, f)
  BY DEF CallInv, Cancel
<1>. HIDE DEF k
<1>2. /\ Typed(f) /\ f.pc = k.pc /\ f.job = k.job /\ f.deadline = k.deadline
      /\ f.attempt = k.attempt /\ f.header = k.header /\ f.inst = k.inst
      /\ f.offered = k.offered /\ f.sent = k.sent /\ f.at = k.at /\ f.passed = k.passed
      /\ f.hop = k.hop /\ f.reply = k.reply /\ f.open = k.open /\ f.released = k.released
      /\ f.outcome = k.outcome
      /\ f.filled = k.filled /\ f.hops = k.hops
  BY <1>1 DEF CallOK, Typed, Fields
<1>. HIDE DEF f
<1>3. Counted(c, f) /\ Held(f) /\ Budgeted(f)
  BY <1>1, <1>2 DEF CallOK, Counted, Held, Budgeted
<1>4. Answered(f) /\ Picked(f)
  BY <1>1, <1>2 DEF CallOK, Answered, Clean, FilledAfresh, Picked
<1>5. CallOK(c, f)
  BY <1>2, <1>3, <1>4 DEF CallOK
<1> QED BY <1>1, <1>5, ChangeKeeps

\* The transport fails.
LEMMA LoseKeeps ==
    ASSUME CallInv, NEW c \in Callers, Lose(c)
    PROVE  CallInv'
    BY AttemptFails, FailKeeps DEF Lose, At

\* The context ends during the backoff.
LEMMA GiveUpKeeps ==
    ASSUME CallInv, NEW c \in Callers, GiveUp(c)
    PROVE  CallInv'
<1>1. Failing(c, call[c]) /\ Change(c, Return(call[c], "error"))
  BY AttemptFails DEF GiveUp, At
<1> QED BY <1>1, ReturnOK, ChangeKeeps

\* A request is built, with the budget that is left now.
LEMMA SetOut ==
    ASSUME NEW c \in Callers, NEW k, CallOK(c, k), k.pc = "prepare",
           NEW pc \in {"send", "resolve"}, NEW i, NEW t \in Int, NEW f,
           pc = "send" => k.job.discovery # "on",
           f = [k EXCEPT !.header = (k.passed - t) \div Ms, !.at = t, !.inst = i, !.offered = {},
                         !.pc = pc]
    PROVE  CallOK(c, f)
<1>. DEFINE h == (k.passed - t) \div Ms
<1>1. h \in Int /\ h * Ms <= k.passed - t
  BY WholeMilliseconds DEF CallOK, Typed
<1>. HIDE DEF h
<1>2. f = [k EXCEPT !.header = h, !.at = t, !.inst = i, !.offered = {}, !.pc = pc]
  BY DEF h
<1>3. /\ Typed(f) /\ f.pc = pc /\ f.job = k.job /\ f.deadline = k.deadline
      /\ f.attempt = k.attempt /\ f.header = h /\ f.sent = k.sent /\ f.at = t
      /\ f.passed = k.passed /\ f.hop = k.hop /\ f.open = k.open /\ f.released = k.released
      /\ f.filled = k.filled /\ f.hops = k.hops
  <2>1. Typed(k) /\ DOMAIN k = Fields
    BY DEF CallOK, Typed
  <2>2. /\ DOMAIN f = Fields /\ f.pc = pc /\ f.job = k.job /\ f.deadline = k.deadline
        /\ f.attempt = k.attempt /\ f.header = h /\ f.sent = k.sent /\ f.at = t
    BY <1>2, <2>1 DEF Fields
  <2>3. /\ f.passed = k.passed /\ f.hop = k.hop /\ f.open = k.open /\ f.released = k.released
        /\ f.filled = k.filled /\ f.hops = k.hops
    BY <1>2, <2>1 DEF Fields
  <2>4. Typed(f)
    BY <1>1, <2>1, <2>2, <2>3 DEF Typed, Pcs
  <2> QED BY <2>2, <2>3, <2>4
<1>4. Counted(c, f) /\ Held(f)
  BY <1>3 DEF CallOK, Counted, Held
<1>5. Answered(f) /\ Picked(f)
  BY <1>3 DEF CallOK, Answered, Clean, FilledAfresh, Picked
<1>6. Budgeted(f)
  BY <1>1, <1>3 DEF CallOK, Budgeted
<1> QED BY <1>3, <1>4, <1>5, <1>6 DEF CallOK

\* The ways prepareRequest (agent.go:166) ends.
LEMMA PrepareCases ==
    ASSUME CallInv, NEW c \in Callers, Prepare(c)
    PROVE  LET k == call[c]
               f == [k EXCEPT !.header = (k.passed - now) \div Ms, !.at = now, !.inst = None,
                              !.offered = {}]
           IN  \/ \E r : Fail(c, k, r)
               \/ k.job.discovery = "off" /\ Change(c, [f EXCEPT !.pc = "send"])
               \/ /\ k.job.discovery = "override"
                  /\ \E i \in Instances : Change(c, [f EXCEPT !.pc = "send", !.inst = i])
               \/ k.job.discovery = "noResolver" /\ Fail(c, f, FALSE)
               \/ k.job.discovery = "on" /\ Change(c, [f EXCEPT !.pc = "resolve"])
<1>. DEFINE k == call[c]
            j == k.job
            f == [k EXCEPT !.header = (k.passed - now) \div Ms, !.at = now, !.inst = None,
                           !.offered = {}]
            A == Change(c, [f EXCEPT !.pc = "send"])
            B == \E i \in Instances : Change(c, [f EXCEPT !.pc = "send", !.inst = i])
            C == Fail(c, f, FALSE)
            D == Change(c, [f EXCEPT !.pc = "resolve"])
<1>1. Failing(c, k)
  <2>1. k.pc = "prepare"
    BY DEF Prepare, At
  <2> QED BY <2>1, AttemptFails
<1>2. j \in Jobs[c] /\ j.discovery \in {"off", "override", "noResolver", "on"}
  BY <1>1, JobAssumption DEF Failing
<1>3. \/ \E r : Fail(c, k, r)
      \/ CASE j.discovery = "off" -> A [] j.discovery = "override" -> B
           [] j.discovery = "noResolver" -> C [] j.discovery = "on" -> D
  BY DEF Prepare, Job, RemainingMS
<1>. HIDE DEF A, B, C, D
<1>4. \/ \E r : Fail(c, k, r)
      \/ j.discovery = "off" /\ A
      \/ j.discovery = "override" /\ B
      \/ j.discovery = "noResolver" /\ C
      \/ j.discovery = "on" /\ D
  BY <1>2, <1>3
<1> QED BY <1>4 DEF A, B, C, D

\* prepareRequest checks the budget and sets the headers.
LEMMA PrepareKeeps ==
    ASSUME CallInv, NEW c \in Callers, Prepare(c)
    PROVE  CallInv'
<1>. DEFINE k == call[c]
            j == k.job
            f == [k EXCEPT !.header = (k.passed - now) \div Ms, !.at = now, !.inst = None,
                           !.offered = {}]
<1>1. CallOK(c, k) /\ k.pc = "prepare" /\ Failing(c, k) /\ Clean(k) /\ now \in Int
  <2>1. k.pc = "prepare"
    BY DEF Prepare, At
  <2>2. CallOK(c, k) /\ now \in Int
    BY DEF CallInv
  <2> QED BY <2>1, <2>2, AttemptFails
<1>3. CASE \E r : Fail(c, k, r)
  BY <1>1, <1>3, FailKeeps
<1>4. CASE j.discovery = "off" /\ Change(c, [f EXCEPT !.pc = "send"])
  <2>. DEFINE g == [k EXCEPT !.header = (k.passed - now) \div Ms, !.at = now, !.inst = None,
                             !.offered = {}, !.pc = "send"]
  <2>1. [f EXCEPT !.pc = "send"] = g
    OBVIOUS
  <2>2. CallOK(c, g)
    BY <1>1, <1>4, SetOut
  <2> QED BY <1>4, <2>1, <2>2, ChangeKeeps
<1>5. CASE j.discovery = "override"
           /\ \E i \in Instances : Change(c, [f EXCEPT !.pc = "send", !.inst = i])
  <2>1. PICK i \in Instances : Change(c, [f EXCEPT !.pc = "send", !.inst = i])
    BY <1>5
  <2>. DEFINE g == [k EXCEPT !.header = (k.passed - now) \div Ms, !.at = now, !.inst = i,
                             !.offered = {}, !.pc = "send"]
  <2>2. [f EXCEPT !.pc = "send", !.inst = i] = g
    BY <1>1 DEF CallOK, Typed, Fields
  <2>3. CallOK(c, g)
    BY <1>1, <1>5, SetOut
  <2> QED BY <2>1, <2>2, <2>3, ChangeKeeps
<1>6. CASE j.discovery = "noResolver" /\ Fail(c, f, FALSE)
  <2>1. (k.passed - now) \div Ms \in Int
    BY <1>1, WholeMilliseconds DEF CallOK, Typed
  <2>2. /\ Typed(f) /\ f.job = k.job /\ f.deadline = k.deadline /\ f.attempt = k.attempt
        /\ f.sent = k.sent /\ f.passed = k.passed /\ f.open = k.open /\ f.released = k.released
        /\ f.filled = k.filled /\ f.hops = k.hops
    BY <1>1, <2>1 DEF CallOK, Typed, Fields
  <2>. HIDE DEF f
  <2>3. Failing(c, f)
    BY <1>1, <2>2 DEF Failing
  <2> QED BY <1>6, <2>3, FailKeeps
<1>7. CASE j.discovery = "on" /\ Change(c, [f EXCEPT !.pc = "resolve"])
  <2>. DEFINE g == [k EXCEPT !.header = (k.passed - now) \div Ms, !.at = now, !.inst = None,
                             !.offered = {}, !.pc = "resolve"]
  <2>1. [f EXCEPT !.pc = "resolve"] = g
    OBVIOUS
  <2>2. CallOK(c, g)
    BY <1>1, SetOut
  <2> QED BY <1>7, <2>1, <2>2, ChangeKeeps
<1> QED BY <1>3, <1>4, <1>5, <1>6, <1>7, PrepareCases

\* RandomPicker chooses a callable instance, one of the zone if there is one.
LEMMA PickedWell ==
    ASSUME NEW j, NEW offered, NEW i \in Pick(j, offered)
    PROVE  /\ i \in offered /\ Callable(j, i)
           /\ Near(j, i) \/ \A x \in offered : Callable(j, x) => ~Near(j, x)
<1>1. i \in Candidates(j, offered)
  BY DEF Pick
<1> QED BY <1>1 DEF Candidates

\* Discovery answers or fails.
LEMMA ResolveKeeps ==
    ASSUME CallInv, NEW c \in Callers, Resolve(c)
    PROVE  CallInv'
<1>. DEFINE k == call[c]
<1>1. k.pc = "resolve"
  BY DEF Resolve, At
<1>2. CallOK(c, k) /\ Failing(c, k) /\ Clean(k)
  BY <1>1, AttemptFails DEF CallInv
<1>3. CASE \E r : Fail(c, k, r)
  BY <1>2, <1>3, FailKeeps
<1>4. ASSUME NEW offered, NEW i \in Pick(k.job, offered),
             Change(c, [k EXCEPT !.pc = "send", !.inst = i, !.offered = offered])
      PROVE  CallInv'
  <2>. DEFINE f == [k EXCEPT !.pc = "send", !.inst = i, !.offered = offered]
  <2>. HIDE DEF k
  <2>1. /\ Typed(f) /\ f.pc = "send" /\ f.job = k.job /\ f.deadline = k.deadline
        /\ f.attempt = k.attempt /\ f.header = k.header /\ f.inst = i
        /\ f.offered = offered /\ f.sent = k.sent /\ f.at = k.at /\ f.passed = k.passed
        /\ f.hop = k.hop /\ f.open = k.open /\ f.released = k.released
        /\ f.filled = k.filled /\ f.hops = k.hops
    BY <1>2 DEF CallOK, Typed, Fields, Pcs
  <2>. HIDE DEF f
  <2>2. Counted(c, f) /\ Held(f)
    BY <1>1, <1>2, <2>1 DEF CallOK, Counted, Held
  <2>3. Budgeted(f) /\ Answered(f)
    BY <1>1, <1>2, <2>1 DEF CallOK, Budgeted, Answered, Clean, FilledAfresh
  <2>4. Picked(f)
    BY <2>1, PickedWell DEF Picked
  <2>5. CallOK(c, f)
    BY <2>1, <2>2, <2>3, <2>4 DEF CallOK
  <2> QED BY <1>4, <2>5, ChangeKeeps DEF f, k
<1> QED BY <1>3, <1>4 DEF Resolve, Job

\* A positive header is never turned into a longer timeout by
\* ContextFromHeaders.
LEMMA HopInBudget ==
    ASSUME NEW h \in Int, h > 0
    PROVE  HopTimeout(h) \in Int /\ HopTimeout(h) > 0 /\ HopTimeout(h) <= h * Ms
<1>1. h * Ms \in Int /\ h * Ms > 0
  BY Numbers
<1> QED BY <1>1, Numbers DEF HopTimeout

\* The next service reads the headers.
LEMMA ArriveKeeps ==
    ASSUME CallInv, NEW c \in Callers, Arrive(c)
    PROVE  CallInv'
<1>. DEFINE k == call[c]
            timeout == HopTimeout(k.header)
            hop == [deadline |-> IF timeout > 0 THEN now + timeout ELSE None,
                    transit |-> now - k.at]
            f == [k EXCEPT !.hop = hop]
<1>1. k.pc = "flight" /\ Change(c, f)
  BY DEF Arrive, At
<1>2. CallOK(c, k) /\ now \in Int
  BY DEF CallInv
<1>3. k.header > 0 => hop.deadline <= k.deadline + hop.transit
  <2>. SUFFICES ASSUME k.header > 0
                PROVE  hop.deadline <= k.deadline + hop.transit
    OBVIOUS
  <2>. HIDE DEF k
  <2>1. /\ k.header \in Int /\ k.passed = k.deadline /\ k.header * Ms <= k.passed - k.at
        /\ k.deadline \in Int /\ k.at \in Int
    BY <1>1, <1>2 DEF CallOK, Typed, Budgeted
  <2>2. timeout \in Int /\ timeout > 0 /\ timeout <= k.header * Ms
    BY <2>1, HopInBudget
  <2>3. k.header * Ms \in Int
    BY <2>1, Numbers
  <2>. HIDE DEF timeout
  <2> QED BY <1>2, <2>1, <2>2, <2>3
<1>. HIDE DEF hop, k
<1>4. /\ Typed(f) /\ f.pc = k.pc /\ f.job = k.job /\ f.deadline = k.deadline
      /\ f.attempt = k.attempt /\ f.header = k.header /\ f.inst = k.inst
      /\ f.offered = k.offered /\ f.sent = k.sent /\ f.at = k.at /\ f.passed = k.passed
      /\ f.hop = hop /\ f.open = k.open /\ f.released = k.released
      /\ f.filled = k.filled /\ f.hops = k.hops
  BY <1>2 DEF CallOK, Typed, Fields
<1>. HIDE DEF f
<1>5. Counted(c, f) /\ Held(f) /\ Picked(f) /\ Answered(f)
  BY <1>1, <1>2, <1>4 DEF CallOK, Counted, Held, Picked, Answered, Clean, FilledAfresh
<1>6. Budgeted(f)
  BY <1>1, <1>2, <1>3, <1>4 DEF CallOK, Budgeted
<1>7. CallOK(c, f)
  BY <1>4, <1>5, <1>6 DEF CallOK
<1> QED BY <1>1, <1>7, ChangeKeeps

\* client.Do follows a redirect within its limit, or fails.
LEMMA RedirectKeeps ==
    ASSUME CallInv, NEW c \in Callers, Redirect(c)
    PROVE  CallInv'
<1>. DEFINE k == call[c]
            f == [k EXCEPT !.hop = None, !.hops = @ + 1]
<1>1. k.pc = "flight"
  BY DEF Redirect, At
<1>2. CallOK(c, k)
  BY DEF CallInv
<1>3. CASE Fail(c, k, TRUE)
  BY <1>1, <1>3, AttemptFails, FailKeeps
<1>4. CASE MayFollow(c) /\ Change(c, f)
  <2>1. k.hops + 1 < k.job.redirects
    BY <1>4 DEF MayFollow, Job
  <2>. HIDE DEF k
  <2>2. /\ Typed(f) /\ f.pc = k.pc /\ f.job = k.job /\ f.deadline = k.deadline
        /\ f.attempt = k.attempt /\ f.header = k.header /\ f.inst = k.inst
        /\ f.offered = k.offered /\ f.sent = k.sent /\ f.at = k.at /\ f.passed = k.passed
        /\ f.hop = None /\ f.open = k.open /\ f.released = k.released
        /\ f.filled = k.filled /\ f.hops = k.hops + 1
    BY <1>2 DEF CallOK, Typed, Fields
  <2>. HIDE DEF f
  <2>3. Counted(c, f) /\ Held(f) /\ Picked(f)
    BY <1>1, <1>2, <2>1, <2>2 DEF CallOK, Counted, Held, Picked
  <2>4. Budgeted(f) /\ Answered(f)
    BY <1>1, <1>2, <2>2 DEF CallOK, Budgeted, Answered, Clean, FilledAfresh
  <2>5. CallOK(c, f)
    BY <2>2, <2>3, <2>4 DEF CallOK
  <2> QED BY <1>4, <2>5, ChangeKeeps
<1> QED BY <1>3, <1>4 DEF Redirect

\* The response arrives with an open body.
LEMMA RespondKeeps ==
    ASSUME CallInv, NEW c \in Callers, Respond(c)
    PROVE  CallInv'
<1>. DEFINE k == call[c]
<1>1. k.pc = "flight"
  BY DEF Respond, At
<1>2. CallOK(c, k)
  BY DEF CallInv
<1>3. PICK status, body :
        Change(c, [k EXCEPT
            !.reply = [status |-> status, body |-> body], !.open = @ + 1,
            !.pc = IF status # "expected" THEN "drain"
                   ELSE IF k.job.stream THEN "stream" ELSE "handle"])
  BY DEF Respond, Job
<1>. DEFINE pc == IF status # "expected" THEN "drain"
                  ELSE IF k.job.stream THEN "stream" ELSE "handle"
            reply == [status |-> status, body |-> body]
            f == [k EXCEPT !.reply = reply, !.open = @ + 1, !.pc = pc]
<1>. HIDE DEF k
<1>4. pc \in {"drain", "stream", "handle"}
  OBVIOUS
<1>. HIDE DEF pc, reply
<1>5. /\ Typed(f) /\ f.pc = pc /\ f.job = k.job /\ f.deadline = k.deadline
      /\ f.attempt = k.attempt /\ f.header = k.header /\ f.sent = k.sent
      /\ f.at = k.at /\ f.passed = k.passed /\ f.reply = reply
      /\ f.hop = k.hop /\ f.open = k.open + 1 /\ f.released = k.released
      /\ f.filled = k.filled /\ f.hops = k.hops
  BY <1>2, <1>4 DEF CallOK, Typed, Fields, Pcs
<1>. HIDE DEF f
<1>6. Counted(c, f) /\ Held(f)
  BY <1>1, <1>2, <1>4, <1>5 DEF CallOK, Counted, Held
<1>7. Budgeted(f) /\ Picked(f)
  BY <1>1, <1>2, <1>4, <1>5 DEF CallOK, Budgeted, Picked
<1>8. Answered(f)
  BY <1>1, <1>2, <1>4, <1>5 DEF CallOK, Answered, Clean, FilledAfresh
<1>9. CallOK(c, f)
  BY <1>5, <1>6, <1>7, <1>8 DEF CallOK
<1> QED BY <1>3, <1>9, ChangeKeeps DEF f, pc, reply, k

\* A response of unexpected status is drained and closed.
LEMMA DrainKeeps ==
    ASSUME CallInv, NEW c \in Callers, Drain(c)
    PROVE  CallInv'
<1>. DEFINE k == call[c]
            f == [k EXCEPT !.open = @ - 1]
<1>1. k.pc = "drain" /\ \E r : Fail(c, f, r)
  BY DEF Drain, At
<1>2. CallOK(c, k)
  BY DEF CallInv
<1>. HIDE DEF k
<1>3. /\ Typed(f) /\ f.job = k.job /\ f.deadline = k.deadline /\ f.attempt = k.attempt
      /\ f.sent = k.sent /\ f.passed = k.passed /\ f.open = k.open - 1
      /\ f.released = k.released
      /\ f.filled = k.filled /\ f.hops = k.hops
  BY <1>2 DEF CallOK, Typed, Fields
<1>. HIDE DEF f
<1>4. Failing(c, f)
  BY <1>1, <1>2, <1>3 DEF CallOK, Counted, Held, Budgeted, Failing
<1>5. Clean(f)
  BY <1>1, <1>2, <1>3 DEF CallOK, Answered, Clean
<1> QED BY <1>1, <1>4, <1>5, FailKeeps

\* The response handler accepts or refuses the body, which is closed. What it
\* refuses is retried only by a call that asked for that.
LEMMA HandleKeeps ==
    ASSUME CallInv, NEW c \in Callers, Handle(c)
    PROVE  CallInv'
<1>. DEFINE k == call[c]
            g == [k EXCEPT !.open = @ - 1]
            h == [g EXCEPT !.code = Decoded(k), !.filled = Filled(k)]
<1>1. k.pc = "handle"
  BY DEF Handle, At
<1>2. CallOK(c, k) /\ Clean(k)
  BY <1>1 DEF CallInv, CallOK, Answered
<1>3. ASSUME NEW v PROVE AppErrorRetried(k.job, v) => RetriesRefused(k.job)
  BY DEF AppErrorRetried, RetriesRefused
<1>4. \/ \E r : Fail(c, g, r)
      \/ \E r : Fail(c, h, r) /\ (r => RetriesRefused(k.job))
      \/ Change(c, Return(h, "ok"))
  <2>1. \/ \E v : Fail(c, g, AppErrorRetried(k.job, v))
        \/ \E v : Fail(c, h, AppErrorRetried(k.job, v))
        \/ Change(c, Return(h, "ok"))
    BY DEF Handle, Job
  <2>. HIDE DEF g, h, k
  <2> QED BY <1>3, <2>1
<1>. HIDE DEF k
<1>5. Filled(k) \in {k.filled, k.filled \cup {k.attempt}}
  BY DEF Filled
<1>6. ASSUME NEW f, NEW v, NEW s, f = [[k EXCEPT !.open = @ - 1] EXCEPT !.code = v, !.filled = s]
      PROVE  Failing(c, f) /\ f.filled = s /\ f.job = k.job /\ f.attempt = k.attempt
  <2>1. /\ Typed(f) /\ f.job = k.job /\ f.deadline = k.deadline /\ f.attempt = k.attempt
        /\ f.sent = k.sent /\ f.passed = k.passed /\ f.open = k.open - 1
        /\ f.released = k.released /\ f.filled = s
    BY <1>2, <1>6 DEF CallOK, Typed, Fields
  <2> QED BY <1>1, <1>2, <2>1 DEF CallOK, Counted, Held, Budgeted, Failing
<1>7. Failing(c, g) /\ Clean(g)
  <2>1. /\ Typed(g) /\ g.job = k.job /\ g.deadline = k.deadline /\ g.attempt = k.attempt
        /\ g.sent = k.sent /\ g.passed = k.passed /\ g.open = k.open - 1
        /\ g.released = k.released /\ g.filled = k.filled
    BY <1>2 DEF CallOK, Typed, Fields
  <2>. HIDE DEF g
  <2>2. Failing(c, g)
    BY <1>1, <1>2, <2>1 DEF CallOK, Counted, Held, Budgeted, Failing
  <2> QED BY <1>2, <2>1, <2>2 DEF Clean
<1>8. /\ Failing(c, h) /\ h.job = k.job
      /\ RetriesRefused(h.job) \/ h.filled \subseteq {h.attempt}
  <2>1. Failing(c, h) /\ h.filled = Filled(k) /\ h.job = k.job /\ h.attempt = k.attempt
    BY <1>6
  <2>. HIDE DEF h
  <2>2. RetriesRefused(k.job) \/ Filled(k) \subseteq {k.attempt}
    BY <1>2, <1>5 DEF Clean
  <2> QED BY <2>1, <2>2
<1>. HIDE DEF g, h
<1>9. CASE \E r : Fail(c, g, r)
  BY <1>9, <1>7, FailKeeps
<1>10. CASE \E r : Fail(c, h, r) /\ (r => RetriesRefused(k.job))
  <2>1. PICK r : Fail(c, h, r) /\ (r => RetriesRefused(k.job))
    BY <1>10
  <2>2. Clean(h) \/ ~r
    BY <1>8, <2>1 DEF Clean
  <2> QED BY <1>8, <2>1, <2>2, FailKeeps
<1>11. CASE Change(c, Return(h, "ok"))
  <2>1. CallOK(c, Return(h, "ok"))
    BY <1>8, ReturnOK
  <2> QED BY <1>11, <2>1, ChangeKeeps
<1> QED BY <1>4, <1>9, <1>10, <1>11

\* The next attempt begins: it is not beyond the last, because the last one
\* does not wait.
LEMMA WakeKeeps ==
    ASSUME CallInv, NEW c \in Callers, Wake(c)
    PROVE  CallInv'
<1>. DEFINE k == call[c]
            f == [k EXCEPT !.pc = "prepare", !.wake = 0, !.attempt = @ + 1]
<1>1. k.pc = "backoff" /\ Change(c, f)
  BY DEF Wake, At
<1>2. CallOK(c, k)
  BY DEF CallInv
<1>. HIDE DEF k
<1>3. /\ Typed(f) /\ f.pc = "prepare" /\ f.job = k.job /\ f.deadline = k.deadline
      /\ f.attempt = k.attempt + 1 /\ f.header = k.header /\ f.sent = k.sent
      /\ f.at = k.at /\ f.passed = k.passed /\ f.hop = k.hop /\ f.open = k.open
      /\ f.released = k.released
      /\ f.filled = k.filled /\ f.hops = k.hops
  BY <1>2 DEF CallOK, Typed, Fields, Pcs
<1>. HIDE DEF f
<1>4. Counted(c, f)
  <2>1. /\ k.job \in Jobs[c] /\ k.attempt < Attempts(k.job) /\ k.sent <= k.attempt
        /\ k.hops > 0 => k.hops < k.job.redirects
    BY <1>1, <1>2 DEF CallOK, Counted
  <2>2. k.attempt \in Int /\ k.sent \in Int /\ Attempts(k.job) \in Int
    BY <1>2, <2>1, AttemptsPositive DEF CallOK, Typed
  <2> QED BY <1>3, <2>1, <2>2 DEF Counted
<1>5. Held(f) /\ Budgeted(f)
  BY <1>1, <1>2, <1>3 DEF CallOK, Held, Budgeted
<1>6. Answered(f) /\ Picked(f)
  BY <1>1, <1>2, <1>3 DEF CallOK, Answered, Clean, FilledAfresh, Picked
<1>7. CallOK(c, f)
  BY <1>3, <1>4, <1>5, <1>6 DEF CallOK
<1> QED BY <1>1, <1>7, ChangeKeeps

\* The caller closes the stream, and with it the context.
LEMMA CloseStreamKeeps ==
    ASSUME CallInv, NEW c \in Callers, CloseStream(c)
    PROVE  CallInv' /\ call'[c].pc = "done"
<1>. DEFINE k == call[c]
            f == [k EXCEPT !.open = @ - 1, !.released = TRUE, !.pc = "done", !.outcome = "ok"]
<1>1. k.pc = "stream" /\ Change(c, f)
  BY DEF CloseStream, CloseBody, At
<1>2. CallOK(c, k)
  BY DEF CallInv
<1>. HIDE DEF k
<1>3. /\ Typed(f) /\ f.pc = "done" /\ f.job = k.job /\ f.deadline = k.deadline
      /\ f.attempt = k.attempt /\ f.header = k.header /\ f.sent = k.sent
      /\ f.at = k.at /\ f.passed = k.passed /\ f.hop = k.hop /\ f.open = k.open - 1
      /\ f.reply = k.reply /\ f.released
      /\ f.filled = k.filled /\ f.hops = k.hops
  BY <1>2 DEF CallOK, Typed, Fields, Pcs
<1>. HIDE DEF f
<1>4. Counted(c, f) /\ Held(f) /\ Budgeted(f)
  BY <1>1, <1>2, <1>3 DEF CallOK, Counted, Held, Budgeted
<1>5. Answered(f) /\ Picked(f)
  BY <1>1, <1>2, <1>3 DEF CallOK, Answered, Clean, FilledAfresh, Picked
<1>6. CallOK(c, f)
  BY <1>3, <1>4, <1>5 DEF CallOK
<1> QED BY <1>1, <1>3, <1>6, ChangeKeeps DEF Change, CallInv

\* Every step of the agent keeps CallInv.
LEMMA AgentKeeps ==
    ASSUME CallInv, NEW c \in Callers, Agent(c)
    PROVE  CallInv'
    BY StartKeeps, CancelKeeps, PrepareKeeps, ResolveKeeps, SendKeeps, LoseKeeps, ArriveKeeps,
       RedirectKeeps, RespondKeeps, DrainKeeps, HandleKeeps, WakeKeeps, GiveUpKeeps DEF Agent

\* CallInv holds before any call.
LEMMA CallInit ==
    ASSUME Init
    PROVE  CallInv
<1>. DEFINE k == Unstarted
<1>1. /\ Typed(k) /\ k.pc = "idle" /\ k.attempt = 1 /\ k.sent = 0 /\ k.hop = None
      /\ k.passed = 0 /\ k.deadline = 0 /\ k.open = 0 /\ ~k.released
      /\ k.hops = 0 /\ k.filled = {}
  BY DEF Unstarted, Typed, Fields, Pcs
<1>. HIDE DEF k
<1>2. ASSUME NEW c \in Callers PROVE CallOK(c, k)
  BY <1>1 DEF CallOK, Counted, Held, Budgeted, Answered, Clean, FilledAfresh, Picked
<1> QED BY <1>2 DEF Init, CallInv, k

\* What CallInv says implies every property of HttpAgent.
LEMMA CallProperties ==
    ASSUME CallInv
    PROVE  SentAtMost /\ BudgetPassedOn /\ NothingLeaked /\ SuccessIsFresh /\ PickIsCallable
<1>1. SentAtMost
  <2>. SUFFICES ASSUME NEW c \in Callers, call[c].pc # "idle"
       PROVE /\ call[c].sent <= call[c].attempt
             /\ ~Repeatable(call[c].job) => call[c].sent <= 1
             /\ Repeatable(call[c].job) /\ call[c].job.retry.attempts > 0 =>
                  call[c].sent <= call[c].job.retry.attempts
             /\ call[c].hops > 0 => call[c].hops < call[c].job.redirects
    BY DEF SentAtMost
  <2>. DEFINE k == call[c]
  <2>1. Typed(k) /\ Counted(c, k) /\ k.pc # "idle"
    BY DEF CallInv, CallOK
  <2>. HIDE DEF k
  <2>2. /\ k.job \in Jobs[c] /\ k.sent <= k.attempt /\ k.attempt <= Attempts(k.job)
        /\ k.sent \in Int /\ k.attempt \in Int
        /\ k.hops > 0 => k.hops < k.job.redirects
    BY <2>1 DEF Counted, Typed
  <2>3. /\ Attempts(k.job) \in Int
        /\ ~Repeatable(k.job) => Attempts(k.job) = 1
        /\ Repeatable(k.job) /\ k.job.retry.attempts > 0 =>
             Attempts(k.job) = k.job.retry.attempts
    BY <2>2, AttemptsPositive
  <2>4. k.sent <= Attempts(k.job)
    BY <2>2, <2>3
  <2> QED BY <2>2, <2>3, <2>4 DEF k
<1>2. BudgetPassedOn
  BY DEF BudgetPassedOn, CallInv, CallOK, Budgeted
<1>3. NothingLeaked
  BY DEF NothingLeaked, CallInv, CallOK, Held
<1>4. SuccessIsFresh
  BY DEF SuccessIsFresh, CallInv, CallOK, Answered, Clean, FilledAfresh
<1>5. PickIsCallable
  BY DEF PickIsCallable, CallInv, CallOK, Picked
<1> QED BY <1>1, <1>2, <1>3, <1>4, <1>5

\* A step of the agent changes one call.
LEMMA AgentChanges ==
    ASSUME CallInv, NEW c \in Callers, Agent(c) \/ CloseStream(c)
    PROVE  \E k : Change(c, k)
<1>1. ASSUME NEW k, NEW r, Fail(c, k, r) PROVE \E n : Change(c, n)
  BY <1>1 DEF Fail
<1>2. CASE Prepare(c)
  BY <1>1, <1>2, PrepareCases
<1>3. CASE Start(c) \/ Cancel(c) \/ Arrive(c) \/ Respond(c) \/ Wake(c) \/ GiveUp(c) \/ CloseStream(c)
  BY <1>3 DEF Start, Cancel, Arrive, Respond, Wake, GiveUp, CloseStream
<1>4. CASE Resolve(c)
  BY <1>1, <1>4 DEF Resolve
<1>5. CASE Send(c) \/ Lose(c) \/ Redirect(c) \/ Drain(c)
  BY <1>1, <1>5 DEF Send, Lose, Redirect, Drain
<1>6. CASE Handle(c)
  BY <1>1, <1>6 DEF Handle
<1> QED BY <1>2, <1>3, <1>4, <1>5, <1>6 DEF Agent

\* A step of one call leaves the others alone.
LEMMA OthersKeep ==
    ASSUME CallInv, NEW c \in Callers, Agent(c) \/ CloseStream(c), NEW d \in Callers, d # c
    PROVE  call'[d] = call[d]
<1>1. PICK k : Change(c, k)
  BY AgentChanges
<1> QED BY <1>1 DEF Change, CallInv

\* The agent does nothing more to a call that returned or handed its stream
\* over.
LEMMA AgentRests ==
    ASSUME CallInv, NEW c \in Callers, Agent(c), call[c].pc \in {"stream", "done"}
    PROVE  call'[c].pc = call[c].pc
<1>1. Change(c, [call[c] EXCEPT !.canceled = TRUE])
  BY DEF Agent, Start, Cancel, Prepare, Resolve, Send, Lose, Arrive, Redirect, Respond, Drain,
         Handle, Wake, GiveUp, At
<1>2. DOMAIN call[c] = Fields
  BY DEF CallInv, CallOK, Typed
<1> QED BY <1>1, <1>2 DEF Change, CallInv, Fields

\* A step of one download keeps IInv if the new state of that download is as
\* DownloadOK says. Every step of Download is an instance of this.
LEMMA DownloaderMoves ==
    ASSUME IInv, CallInv', NEW c \in Downloaders, NEW w, NEW t,
           work' = [work EXCEPT ![c] = w], handlers' = handlers,
           DOMAIN temp' = Downloaders, temp'[c] = t,
           \A d \in Downloaders : d # c => temp'[d] = temp[d] /\ call'[d] = call[d],
           DownloadOK(w, call'[c].pc, t), WholeFile'
    PROVE  IInv'
<1>1. ASSUME NEW d \in Downloaders PROVE DownloadOK(work'[d], call'[d].pc, temp'[d])
  <2>1. CASE d = c
    BY <2>1 DEF IInv
  <2>2. CASE d # c
    BY <2>2 DEF IInv
  <2> QED BY <2>1, <2>2
<1> QED BY <1>1 DEF IInv

\* A download may return an error at any point, provided its file is gone and
\* its stream closed.
LEMMA RefuseOK ==
    ASSUME NEW w, NEW pc, NEW t, NEW p, DownloadOK(w, pc, t), w.kind = "http" => p = "done"
    PROVE  DownloadOK([w EXCEPT !.pc = "done", !.result = "error"], p, None)
<1>. DEFINE v == [w EXCEPT !.pc = "done", !.result = "error"]
<1>1. /\ DOMAIN v = DOMAIN w /\ v.pc = "done" /\ v.kind = w.kind /\ v.size = w.size
      /\ v.length = w.length /\ v.read = w.read
  BY DEF DownloadOK
<1>. HIDE DEF v
<1> QED BY <1>1 DEF DownloadOK, Loading, v

\* The deferred calls of Download close the stream.
LEMMA RefuseCloses ==
    ASSUME IInv, NEW c \in Downloaders, Refuse(c), Close(c), dst' = dst,
           DOMAIN temp' = Downloaders, temp'[c] = None,
           \A d \in Downloaders : d # c => temp'[d] = temp[d]
    PROVE  IInv'
<1>1. CallInv /\ c \in Callers
  BY ResourceAssumption DEF IInv
<1>2. DownloadOK(work[c], call[c].pc, temp[c])
  BY DEF IInv
<1>3. /\ CallInv' /\ (work[c].kind = "http" => call'[c].pc = "done")
      /\ \A d \in Downloaders : d # c => temp'[d] = temp[d] /\ call'[d] = call[d]
  <2>1. CASE work[c].kind = "http"
    <3>1. CloseStream(c)
      BY <2>1 DEF Close
    <3> QED BY <1>1, <3>1, CloseStreamKeeps, OthersKeep, ResourceAssumption
  <2>2. CASE work[c].kind # "http"
    <3>1. now' = now /\ call' = call
      BY <2>2 DEF Close
    <3> QED BY <1>1, <2>2, <3>1 DEF CallInv
  <2> QED BY <2>1, <2>2
<1>4. /\ work' = [work EXCEPT ![c] = [work[c] EXCEPT !.pc = "done", !.result = "error"]]
      /\ handlers' = handlers
  BY DEF Refuse, Working
<1>5. DownloadOK([work[c] EXCEPT !.pc = "done", !.result = "error"], call'[c].pc, None)
  BY <1>2, <1>3, RefuseOK
<1>6. WholeFile'
  BY DEF IInv, WholeFile
<1> QED BY <1>3, <1>4, <1>5, <1>6, DownloaderMoves

\* A step of Download fails.
LEMMA AbandonKeeps ==
    ASSUME IInv, NEW c \in Downloaders, Abandon(c)
    PROVE  IInv'
<1>1. /\ DOMAIN temp' = Downloaders /\ temp'[c] = None
      /\ \A d \in Downloaders : d # c => temp'[d] = temp[d]
  BY DEF Abandon, IInv
<1>2. Refuse(c) /\ Close(c) /\ dst' = dst
  BY DEF Abandon
<1> QED BY <1>1, <1>2, RefuseCloses

\* CallInv depends on the clock and the calls only.
LEMMA CallsRest ==
    ASSUME IInv, UNCHANGED <<now, call>>
    PROVE  CallInv' /\ (\A d \in Downloaders : call'[d] = call[d])
    BY DEF IInv, CallInv

\* Download returns an error with nothing opened.
LEMMA RefusedKeeps ==
    ASSUME IInv, NEW c \in Downloaders, work[c].kind = "http" => call[c].pc = "done",
           temp[c] = None, Refuse(c), UNCHANGED <<now, call, temp, dst>>
    PROVE  IInv'
<1>1. DownloadOK(work[c], call[c].pc, temp[c])
  BY DEF IInv
<1>2. /\ work' = [work EXCEPT ![c] = [work[c] EXCEPT !.pc = "done", !.result = "error"]]
      /\ handlers' = handlers
  BY DEF Refuse, Working
<1>3. CallInv' /\ call'[c].pc = call[c].pc
  BY CallsRest
<1>4. DownloadOK([work[c] EXCEPT !.pc = "done", !.result = "error"], call'[c].pc, None)
  BY <1>1, <1>3, RefuseOK
<1>5. /\ DOMAIN temp' = Downloaders /\ temp'[c] = None
      /\ \A d \in Downloaders : d # c => temp'[d] = temp[d] /\ call'[d] = call[d]
  BY DEF IInv
<1>6. WholeFile'
  BY DEF IInv, WholeFile
<1> QED BY <1>2, <1>3, <1>4, <1>5, <1>6, DownloaderMoves

\* A step of Download that touches neither file nor stream.
LEMMA WorkingKeeps ==
    ASSUME IInv, NEW c \in Downloaders, NEW w, Working(c, w), UNCHANGED <<now, call, temp, dst>>,
           DownloadOK(w, call[c].pc, temp[c])
    PROVE  IInv'
<1>1. work' = [work EXCEPT ![c] = w] /\ handlers' = handlers
  BY DEF Working
<1>2. CallInv' /\ call'[c].pc = call[c].pc
  BY CallsRest
<1>3. /\ DOMAIN temp' = Downloaders /\ temp'[c] = temp[c]
      /\ \A d \in Downloaders : d # c => temp'[d] = temp[d] /\ call'[d] = call[d]
  BY DEF IInv
<1>4. WholeFile'
  BY DEF IInv, WholeFile
<1>5. DownloadOK(w, call'[c].pc, temp[c])
  BY <1>2
<1> QED BY <1>1, <1>2, <1>3, <1>4, <1>5, DownloaderMoves

\* Open (manager.go:59) routes the identifier to its handler.
LEMMA DownloadKeeps ==
    ASSUME IInv, NEW c \in Downloaders, Download(c)
    PROVE  IInv'
<1>. DEFINE w == work[c]
<1>1. w.pc = "idle" /\ UNCHANGED <<now, call, temp, dst>>
  BY DEF Download
<1>2. DownloadOK(w, call[c].pc, temp[c])
  BY DEF IInv
<1>3. w.kind = None /\ temp[c] = None /\ w.read = 0
  BY <1>1, <1>2 DEF DownloadOK
<1>4. CASE Refuse(c)
  BY <1>1, <1>3, <1>4, RefusedKeeps, ResourceAssumption
<1>5. ASSUME NEW s \in Schemes, NEW size \in Sizes, NEW length,
             handlers[s] # "none",
             length \in (CASE handlers[s] = "http" -> {-1} [] handlers[s] = "data" -> {size}
                           [] handlers[s] = "custom" -> {-1, size}),
             Working(c, [[w EXCEPT !.kind = handlers[s], !.size = size,
                                   !.pc = IF handlers[s] = "http" THEN "agent" ELSE "place"]
                          EXCEPT !.length = length])
      PROVE  IInv'
  <2>. DEFINE kind == handlers[s]
              pc == IF kind = "http" THEN "agent" ELSE "place"
              v == [[w EXCEPT !.kind = kind, !.size = size, !.pc = pc] EXCEPT !.length = length]
  <2>1. kind \in {"http", "data", "custom"}
    BY <1>5 DEF IInv
  <2>2. size \in Nat
    BY ResourceAssumption
  <2>3. length \in Int /\ (kind = "data" => length = size)
    BY <1>5, <2>1, <2>2
  <2>. HIDE DEF w, kind
  <2>4. /\ DOMAIN v = DOMAIN w /\ v.pc = pc /\ v.kind = kind /\ v.size = size
        /\ v.length = length /\ v.read = w.read
    BY <1>2 DEF DownloadOK
  <2>. HIDE DEF v
  <2>5. DownloadOK(v, call[c].pc, temp[c])
    BY <1>2, <1>3, <2>1, <2>2, <2>3, <2>4 DEF DownloadOK, Loading
  <2> QED BY <1>1, <1>5, <2>5, WorkingKeeps DEF v, w, kind
<1> QED BY <1>4, <1>5 DEF Download

\* The DoStream of the http handler failed.
LEMMA OpenFailedKeeps ==
    ASSUME IInv, NEW c \in Downloaders, OpenFailed(c)
    PROVE  IInv'
<1>1. DownloadOK(work[c], call[c].pc, temp[c])
  BY DEF IInv
<1>2. work[c].pc = "agent" /\ call[c].pc = "done" /\ Refuse(c)
      /\ UNCHANGED <<now, call, temp, dst>>
  BY DEF OpenFailed, At
<1>3. temp[c] = None
  BY <1>1, <1>2 DEF DownloadOK
<1> QED BY <1>2, <1>3, RefusedKeeps

\* The http handler has its stream, and looks at the announced length.
LEMMA OpenedKeeps ==
    ASSUME IInv, NEW c \in Downloaders, Opened(c)
    PROVE  IInv'
<1>. DEFINE w == work[c]
<1>1. DownloadOK(w, call[c].pc, temp[c])
  BY DEF IInv
<1>2. w.pc = "agent" /\ call[c].pc = "stream" /\ temp' = temp /\ dst' = dst
  BY DEF Opened, At, files
<1>3. w.kind = "http" /\ temp[c] = None
  BY <1>1, <1>2 DEF DownloadOK
<1>4. CASE Refuse(c) /\ CloseStream(c)
  <2>1. Close(c)
    BY <1>3, <1>4 DEF Close
  <2>2. DOMAIN temp' = Downloaders /\ temp'[c] = None
        /\ \A d \in Downloaders : d # c => temp'[d] = temp[d]
    BY <1>2, <1>3 DEF IInv
  <2> QED BY <1>2, <1>4, <2>1, <2>2, RefuseCloses
<1>5. ASSUME NEW length \in {-1, w.size}, UNCHANGED <<now, call>>,
             Working(c, [w EXCEPT !.pc = "place", !.length = length])
      PROVE  IInv'
  <2>. DEFINE v == [w EXCEPT !.pc = "place", !.length = length]
  <2>. HIDE DEF w
  <2>1. /\ DOMAIN v = DOMAIN w /\ v.pc = "place" /\ v.kind = w.kind /\ v.size = w.size
        /\ v.length = length /\ v.read = w.read
    BY <1>1 DEF DownloadOK
  <2>2. length \in Int
    BY <1>1, <1>5 DEF DownloadOK
  <2>. HIDE DEF v
  <2>3. DownloadOK(v, call[c].pc, temp[c])
    BY <1>1, <1>2, <1>3, <2>1, <2>2 DEF DownloadOK, Loading
  <2> QED BY <1>2, <1>5, <2>3, WorkingKeeps DEF v, w
<1> QED BY <1>4, <1>5 DEF Opened

\* The temporary file is created.
LEMMA PlaceKeeps ==
    ASSUME IInv, NEW c \in Downloaders, Place(c)
    PROVE  IInv'
<1>1. CASE Abandon(c)
  BY <1>1, AbandonKeeps
<1>2. CASE /\ temp' = [temp EXCEPT ![c] = 0]
           /\ Working(c, [work[c] EXCEPT !.pc = "copy"])
           /\ UNCHANGED <<now, call, dst>>
  <2>. DEFINE w == work[c]
              v == [w EXCEPT !.pc = "copy"]
  <2>1. DownloadOK(w, call[c].pc, temp[c]) /\ w.pc = "place"
    BY DEF IInv, Place
  <2>2. work' = [work EXCEPT ![c] = v] /\ handlers' = handlers
    BY <1>2 DEF Working
  <2>. HIDE DEF w
  <2>3. /\ DOMAIN v = DOMAIN w /\ v.pc = "copy" /\ v.kind = w.kind /\ v.size = w.size
        /\ v.length = w.length /\ v.read = w.read
    BY <2>1 DEF DownloadOK
  <2>. HIDE DEF v
  <2>4. DownloadOK(v, call[c].pc, 0)
    BY <2>1, <2>3, ResourceAssumption DEF DownloadOK, Loading
  <2>5. CallInv' /\ call'[c].pc = call[c].pc
    BY <1>2, CallsRest
  <2>6. DownloadOK(v, call'[c].pc, 0)
    BY <2>4, <2>5
  <2>7. /\ DOMAIN temp' = Downloaders /\ temp'[c] = 0
        /\ \A d \in Downloaders : d # c => temp'[d] = temp[d] /\ call'[d] = call[d]
    BY <1>2 DEF IInv
  <2>8. WholeFile'
    BY <1>2 DEF IInv, WholeFile
  <2> QED BY <2>2, <2>5, <2>6, <2>7, <2>8, DownloaderMoves
<1> QED BY <1>1, <1>2 DEF Place

\* A Read that reports no excess returns what the body has, and no more than
\* the limit leaves; it reports the end only at the end, or where a broken
\* connection looks like it.
LEMMA ReadsWithin ==
    ASSUME NEW w, NEW n \in Reads(w), w.read \in Nat, w.size \in Nat, Read(w, n).err # "over"
    PROVE  /\ n \in Nat /\ w.read + n <= w.size /\ Read(w, n).n = n
           /\ Read(w, n).err = "eof" => n = 0 /\ (BrokenLooksDone(w) \/ w.read = w.size)
           /\ w.kind = "http" => w.read + n <= MaxBytes
<1>1. n \in Nat /\ w.read + n <= w.size /\ (n = 0 => w.read = w.size \/ BrokenLooksDone(w))
  BY DEF Reads
<1>2. MaxBytes \in Nat
  BY ResourceAssumption
<1>3. CASE w.kind = "http"
  BY <1>1, <1>2, <1>3 DEF Read, LimitRead
<1>4. CASE w.kind # "http"
  BY <1>1, <1>4 DEF Read
<1> QED BY <1>3, <1>4

\* io.Copy reads and writes once.
LEMMA CopyKeeps ==
    ASSUME IInv, NEW c \in Downloaders, Copy(c)
    PROVE  IInv'
<1>. DEFINE w == work[c]
<1>1. CASE Abandon(c)
  BY <1>1, AbandonKeeps
<1>2. ASSUME NEW n \in Reads(w), Read(w, n).err # "over",
             temp' = [temp EXCEPT ![c] = @ + Read(w, n).n],
             Working(c, [w EXCEPT !.read = @ + n,
                                  !.pc = IF Read(w, n).err = "eof" THEN "check" ELSE @]),
             UNCHANGED <<now, call, dst>>
      PROVE  IInv'
  <2>1. DownloadOK(w, call[c].pc, temp[c]) /\ w.pc = "copy"
    BY DEF IInv, Copy
  <2>2. temp[c] = w.read /\ w.read \in Nat /\ w.size \in Nat
    BY <2>1 DEF DownloadOK
  <2>3. /\ n \in Nat /\ w.read + n <= w.size /\ Read(w, n).n = n
        /\ Read(w, n).err = "eof" => n = 0 /\ (BrokenLooksDone(w) \/ w.read = w.size)
        /\ w.kind = "http" => w.read + n <= MaxBytes
    BY <1>2, <2>2, ReadsWithin
  <2>. DEFINE pc == IF Read(w, n).err = "eof" THEN "check" ELSE w.pc
              v == [w EXCEPT !.read = @ + n, !.pc = pc]
              t == w.read + n
  <2>4. pc \in {"copy", "check"} /\ (pc = "check" => n = 0 /\ (BrokenLooksDone(w) \/ w.read = w.size))
    BY <2>1, <2>3
  <2>5. work' = [work EXCEPT ![c] = v] /\ handlers' = handlers
    BY <1>2 DEF Working
  <2>6. /\ DOMAIN temp' = Downloaders /\ temp'[c] = t
        /\ \A d \in Downloaders : d # c => temp'[d] = temp[d] /\ call'[d] = call[d]
    BY <1>2, <2>2, <2>3 DEF IInv
  <2>7. CallInv' /\ call'[c].pc = call[c].pc
    BY <1>2, CallsRest
  <2>8. WholeFile'
    BY <1>2 DEF IInv, WholeFile
  <2>. HIDE DEF w, pc
  <2>9. /\ DOMAIN v = DOMAIN w /\ v.pc = pc /\ v.kind = w.kind /\ v.size = w.size
        /\ v.length = w.length /\ v.read = t
    BY <2>1 DEF DownloadOK
  <2>10. t \in Nat
    BY <2>2, <2>3
  <2>. HIDE DEF v
  <2>11. v.pc \in {"check", "rename"} => BrokenLooksDone(v) \/ v.read = v.size
    BY <2>2, <2>3, <2>4, <2>9 DEF BrokenLooksDone
  <2>. HIDE DEF t
  <2>12. DownloadOK(v, call[c].pc, t)
    BY <2>1, <2>3, <2>4, <2>9, <2>10, <2>11 DEF DownloadOK, Loading, t
  <2>13. DownloadOK(v, call'[c].pc, t)
    BY <2>7, <2>12
  <2> QED BY <2>5, <2>6, <2>7, <2>8, <2>13, DownloaderMoves
<1> QED BY <1>1, <1>2 DEF Copy

\* The announced size is checked once more: for a data URL it is the only
\* check of this limit.
LEMMA CheckKeeps ==
    ASSUME IInv, NEW c \in Downloaders, Check(c)
    PROVE  IInv'
<1>1. CASE Abandon(c)
  BY <1>1, AbandonKeeps
<1>2. CASE /\ ~(work[c].length >= 0 /\ work[c].length > MaxBytes)
           /\ Working(c, [work[c] EXCEPT !.pc = "rename"])
           /\ UNCHANGED <<now, call, temp, dst>>
  <2>. DEFINE w == work[c]
              v == [w EXCEPT !.pc = "rename"]
  <2>1. DownloadOK(w, call[c].pc, temp[c]) /\ w.pc = "check"
    BY DEF IInv, Check
  <2>2. ~(w.length >= 0 /\ w.length > MaxBytes)
    BY <1>2
  <2>. HIDE DEF w
  <2>3. /\ DOMAIN v = DOMAIN w /\ v.pc = "rename" /\ v.kind = w.kind /\ v.size = w.size
        /\ v.length = w.length /\ v.read = w.read
    BY <2>1 DEF DownloadOK
  <2>. HIDE DEF v
  <2>4. w.kind # "custom" => w.read <= MaxBytes
    BY <2>1, <2>2, ResourceAssumption DEF DownloadOK, Loading, BrokenLooksDone
  <2>5. DownloadOK(v, call[c].pc, temp[c])
    BY <2>1, <2>3, <2>4 DEF DownloadOK, Loading, BrokenLooksDone
  <2> QED BY <1>2, <2>5, WorkingKeeps DEF v, w
<1> QED BY <1>1, <1>2 DEF Check

\* The temporary file becomes the destination.
LEMMA RenameKeeps ==
    ASSUME IInv, NEW c \in Downloaders, Rename(c)
    PROVE  IInv'
<1>1. CASE Abandon(c)
  BY <1>1, AbandonKeeps
<1>2. CASE /\ dst' = [kind |-> work[c].kind, holds |-> temp[c], size |-> work[c].size,
                        length |-> work[c].length]
           /\ temp' = [temp EXCEPT ![c] = None]
           /\ Close(c)
           /\ Working(c, [work[c] EXCEPT !.pc = "done", !.result = "ok"])
  <2>. DEFINE w == work[c]
              v == [w EXCEPT !.pc = "done", !.result = "ok"]
  <2>1. DownloadOK(w, call[c].pc, temp[c]) /\ w.pc = "rename"
    BY DEF IInv, Rename
  <2>2. work' = [work EXCEPT ![c] = v] /\ handlers' = handlers
    BY <1>2 DEF Working
  <2>3. /\ CallInv' /\ (w.kind = "http" => call'[c].pc = "done")
        /\ \A d \in Downloaders : d # c => call'[d] = call[d]
    <3>1. CallInv /\ c \in Callers
      BY ResourceAssumption DEF IInv
    <3>2. CASE w.kind = "http"
      <4>1. CloseStream(c)
        BY <1>2, <3>2 DEF Close
      <4> QED BY <3>1, <4>1, CloseStreamKeeps, OthersKeep, ResourceAssumption
    <3>3. CASE w.kind # "http"
      <4>1. now' = now /\ call' = call
        BY <1>2, <3>3 DEF Close
      <4> QED BY <3>1, <3>3, <4>1 DEF CallInv
    <3> QED BY <3>2, <3>3
  <2>4. /\ DOMAIN temp' = Downloaders /\ temp'[c] = None
        /\ \A d \in Downloaders : d # c => temp'[d] = temp[d] /\ call'[d] = call[d]
    BY <1>2, <2>3 DEF IInv
  <2>5. WholeFile'
    <3>1. /\ BrokenLooksDone(w) \/ temp[c] = w.size
          /\ w.kind # "custom" => temp[c] <= MaxBytes
      BY <2>1 DEF DownloadOK
    <3>2. /\ dst'.holds = temp[c] /\ dst'.size = w.size /\ dst'.kind = w.kind
          /\ dst'.length = w.length
      BY <1>2
    <3> QED BY <3>1, <3>2 DEF WholeFile, BrokenLooksDone
  <2>. HIDE DEF w
  <2>6. /\ DOMAIN v = DOMAIN w /\ v.pc = "done" /\ v.kind = w.kind /\ v.size = w.size
        /\ v.length = w.length /\ v.read = w.read
    BY <2>1 DEF DownloadOK
  <2>. HIDE DEF v
  <2>7. DownloadOK(v, call'[c].pc, None)
    BY <2>1, <2>3, <2>6 DEF DownloadOK, Loading
  <2> QED BY <2>2, <2>3, <2>4, <2>5, <2>7, DownloaderMoves
<1> QED BY <1>1, <1>2 DEF Rename

\* The agent takes a step for a caller, or for a download that is waiting for
\* it or has its stream.
LEMMA CallsKeeps ==
    ASSUME IInv, NEW c \in Callers, Calls(c)
    PROVE  IInv'
<1>1. CallInv
  BY DEF IInv
<1>2. /\ Agent(c) \/ CloseStream(c)
      /\ c \in Downloaders => Agent(c) /\ work[c].kind = "http"
      /\ UNCHANGED <<handlers, work, temp, dst>>
  BY DEF Calls
<1>3. CallInv'
  BY <1>1, <1>2, AgentKeeps, CloseStreamKeeps
<1>4. ASSUME NEW d \in Downloaders
      PROVE  DownloadOK(work[d], call'[d].pc, temp[d])
  <2>1. DownloadOK(work[d], call[d].pc, temp[d]) /\ d \in Callers
    BY ResourceAssumption DEF IInv
  <2>2. CASE d # c
    BY <1>1, <1>2, <2>1, <2>2, OthersKeep
  <2>3. CASE d = c
    <3>1. call[d].pc \in {"stream", "done"} => call'[d].pc = call[d].pc
      BY <1>1, <1>2, <2>3, AgentRests
    <3> QED BY <2>1, <3>1 DEF DownloadOK
  <2> QED BY <2>2, <2>3
<1> QED BY <1>2, <1>3, <1>4 DEF IInv, WholeFile

\* IInv holds at the start.
LEMMA InitIInv ==
    ASSUME ManagerInit
    PROVE  IInv
<1>1. CallInv
  BY CallInit DEF ManagerInit
<1>2. DOMAIN handlers = Schemes
      /\ \A s \in Schemes : handlers[s] \in {"http", "none", "data", "custom"}
  BY DEF ManagerInit, Schemes
<1>. DEFINE w == [pc |-> "idle", kind |-> None, size |-> 0, length |-> -1, read |-> 0,
                  result |-> None]
<1>3. DownloadOK(w, "idle", None)
  BY ResourceAssumption DEF DownloadOK, Loading
<1>4. ASSUME NEW c \in Downloaders PROVE DownloadOK(work[c], call[c].pc, temp[c])
  <2>1. work[c] = w /\ temp[c] = None /\ call[c].pc = "idle"
    BY ResourceAssumption DEF ManagerInit, Init, Unstarted
  <2> QED BY <1>3, <2>1
<1>5. DOMAIN work = Downloaders /\ DOMAIN temp = Downloaders /\ WholeFile
  BY DEF ManagerInit, WholeFile
<1> QED BY <1>1, <1>2, <1>4, <1>5 DEF IInv

\* Every step keeps IInv.
LEMMA NextIInv ==
    ASSUME IInv, [Next]_vars
    PROVE  IInv'
<1>1. CASE UNCHANGED vars
  BY <1>1 DEF vars, IInv, CallInv, WholeFile
<1>2. CASE Tick /\ UNCHANGED <<handlers, work, temp, dst>>
  BY <1>2 DEF Tick, IInv, CallInv, WholeFile
<1>3. ASSUME NEW s \in Registered, Register(s) PROVE IInv'
  <2>1. CallInv' /\ WholeFile'
    BY <1>3 DEF Register, IInv, CallInv, WholeFile
  <2>2. DOMAIN handlers' = Schemes
        /\ \A x \in Schemes : handlers'[x] \in {"http", "none", "data", "custom"}
    BY <1>3 DEF Register, IInv
  <2> QED BY <1>3, <2>1, <2>2 DEF Register, IInv
<1>4. CASE \E c \in Callers : Calls(c)
  BY <1>4, CallsKeeps
<1>5. ASSUME NEW c \in Downloaders, Step(c) PROVE IInv'
  BY <1>5, DownloadKeeps, OpenFailedKeeps, OpenedKeeps, PlaceKeeps, CopyKeeps, CheckKeeps,
     RenameKeeps DEF Step
<1> QED BY <1>1, <1>2, <1>3, <1>4, <1>5 DEF Next

\* IInv holds in every reachable state.
THEOREM Invariance == Spec => []IInv
<1>1. ManagerInit => IInv
  BY InitIInv
<1>2. IInv /\ [Next]_vars => IInv'
  BY NextIInv
<1> QED BY <1>1, <1>2, PTL DEF Spec

\* A call that must not be repeated sends at most one request, and no call
\* more than its attempts, whatever fails and in whatever order (agent.go
\* retryDoHTTP).
THEOREM RequestsBounded == Spec => []SentAtMost
<1>1. IInv => SentAtMost
  BY CallProperties DEF IInv
<1> QED BY <1>1, Invariance, PTL

\* The next service never gets a deadline beyond the one of the call, but for
\* the time the headers travelled (tracing.go injectTraceHeaders,
\* ContextFromHeaders).
THEOREM BudgetsShrink == Spec => []BudgetPassedOn
<1>1. IInv => BudgetPassedOn
  BY CallProperties DEF IInv
<1> QED BY <1>1, Invariance, PTL

\* No response body and no context outlives its call (agent.go Do, DoStream,
\* doHTTP).
THEOREM BodiesClosed == Spec => []NothingLeaked
<1>1. IInv => NothingLeaked
  BY CallProperties DEF IInv
<1> QED BY <1>1, Invariance, PTL

\* When Do succeeds, nothing in the caller's result comes from an earlier
\* answer, unless the call retries what its handler refuses (resp.go
\* JSONRespHandler, agent.go doHTTP).
THEOREM SuccessesFresh == Spec => []SuccessIsFresh
<1>1. IInv => SuccessIsFresh
  BY CallProperties DEF IInv
<1> QED BY <1>1, Invariance, PTL

\* A request goes to a callable instance of this attempt's resolution
\* (discovery.go Pick).
THEOREM PicksCallable == Spec => []PickIsCallable
<1>1. IInv => PickIsCallable
  BY CallProperties DEF IInv
<1> QED BY <1>1, Invariance, PTL

\* The destination of Download is absent or whole and within the limit at
\* every moment (over http, whole if the response had a length), and a download that returned has left nothing behind
\* (manager.go Download, http.go limitReadCloser).
THEOREM DownloadsWhole == Spec => []AllOrNothing
<1>1. IInv => AllOrNothing
  BY DEF IInv, DownloadOK, WholeFile, AllOrNothing, At
<1> QED BY <1>1, Invariance, PTL

==============================================================================
