------------------------------ MODULE HttpAgent ------------------------------
(***************************************************************************)
(* httpx.Agent: one HTTP call with its deadline budget, its retries and    *)
(* its service discovery, and the context the next service builds from the *)
(* headers it receives (httpx/agent.go, tracing.go, discovery.go,          *)
(* resp.go).                                                               *)
(*                                                                         *)
(* Every caller runs one call.  A call is the record call[c]; its pc says  *)
(* what Do or DoStream is waiting for.  Time is a discrete clock of which  *)
(* Ms ticks make a millisecond, the resolution of the budget header, and   *)
(* time passes between any two steps.  The network, the servers, the       *)
(* resolver, the response handlers and the pre-handlers belong to others:  *)
(* they fail or answer as they like.                                       *)
(***************************************************************************)
EXTENDS Integers

CONSTANTS
    Callers,         \* the goroutines that make a call
    Jobs,            \* Jobs[c]: the calls c may make (their options in effect)
    Instances,       \* what a resolver can return: [health, zone, weight]
    None,            \* an absent deadline, retry option, zone, instance
    Ms,              \* ticks of the clock in a millisecond
    Width,           \* bits of a time.Duration
    DefaultQuota,    \* defaultTimeoutQuota, in ticks
    DefaultAttempts, \* defaultRetryAttempts
    HopDefault,      \* defaultTimeout the next service gives ContextFromHeaders
    HopMax,          \* maxTimeout it gives
    MaxTime          \* bound on the clock

ASSUME AgentAssumption ==
    /\ {Ms, DefaultQuota, DefaultAttempts, Width} \subseteq Nat \ {0}
    /\ {HopDefault, HopMax, MaxTime} \subseteq Nat
    /\ None \notin Int
(* Durations and counts are numbers, deadlines may be absent.              *)
ASSUME JobAssumption ==
    \A c \in Callers : \A j \in Jobs[c] :
        /\ j.quota \in Int /\ {j.ctx, j.passed} \subseteq Int \cup {None}
        /\ j.retry # None => j.retry.attempts \in Int
        /\ j.discovery \in {"off", "override", "noResolver", "on"}
        /\ j.redirects \in Nat

VARIABLES now, call

(***************************************************************************)
(* State.  header and at are the budget announced and when it was, sent    *)
(* how often client.Do sent the request, hops the redirects the last one   *)
(* followed, hop what the service it reached made of it; reply is the      *)
(* response in hand.  code is the Code field of the response wrapper and   *)
(* filled the attempts whose answers have set fields of wrapper or result: *)
(* both outlive an attempt.                                                *)
(*                                                                         *)
(* A body is empty, not JSON at all, JSON in which some field has the      *)
(* wrong type (Unmarshal sets the others and fails), or whole; JSON may    *)
(* come without the field code.                                            *)
(***************************************************************************)
Statuses == {"expected", "retry", "other"}
Codes == {0, 1}
Bodies == [form : {"empty", "malformed"}, code : {None}]
             \cup [form : {"mismatch", "whole"}, code : {None} \cup Codes]

Unstarted == [pc |-> "idle", job |-> None, deadline |-> 0, attempt |-> 1, wake |-> 0,
              header |-> 0, inst |-> None, offered |-> {}, sent |-> 0, at |-> 0,
              passed |-> 0, hop |-> None, hops |-> 0, reply |-> None, code |-> 0,
              filled |-> {}, open |-> 0, canceled |-> FALSE, released |-> FALSE,
              outcome |-> None]

Init == now = 0 /\ call = [c \in Callers |-> Unstarted]

Job(c) == call[c].job
At(c, pc) == call[c].pc = pc
Change(c, new) == call' = [call EXCEPT ![c] = new] /\ UNCHANGED now

(* The call's context has ended: its deadline passed, the caller cancelled *)
(* the parent context or the agent its own.                                *)
Done(c) ==
    call[c].canceled \/ call[c].released \/ now >= call[c].deadline

(* Mutant: the request is built without the context.                       *)
FaultyBound(c) == FALSE

(* The request is built with the call's context, so the transport gives up *)
(* once that has ended.                                                    *)
RequestBound(c) == Done(c)

(* The call returns, and both Do and DoStream release the context unless   *)
(* they hand it to the caller with a stream.  What the attempts left       *)
(* behind is forgotten, but for what they wrote into the caller's result.  *)
Forget(k) ==
    [k EXCEPT !.header = 0, !.at = 0, !.wake = 0, !.inst = None, !.offered = {},
              !.hop = None, !.hops = 0]

Return(k, outcome) ==
    [Forget(k) EXCEPT !.pc = "done", !.deadline = 0, !.passed = 0, !.code = 0,
                      !.canceled = FALSE, !.outcome = outcome, !.released = TRUE]

------------------------------------------------------------------------------
(***************************************************************************)
(* Retrying.                                                               *)
(***************************************************************************)
(* Mutant: every method is retried.                                        *)
FaultyMethod(j) == TRUE

canRetryMethod(j) == j.retry.idempotent \/ j.safe

Attempts(j) ==
    IF j.retry = None \/ ~canRetryMethod(j) THEN 1
    ELSE IF j.retry.attempts <= 0 THEN DefaultAttempts ELSE j.retry.attempts

(* base << (attempt - 1) in a signed Width-bit integer: a shift that       *)
(* overflows can come out negative or zero, and then there is no delay.    *)
Shift(base, n) ==
    LET u == (base * 2^n) % 2^Width IN IF u >= 2^(Width - 1) THEN u - 2^Width ELSE u

retryDelay(j, attempt) ==
    LET shifted == Shift(j.retry.base, attempt - 1)
        delay == IF shifted > j.retry.max THEN j.retry.max ELSE shifted
    IN  IF delay <= 0 THEN {0}
        ELSE {delay \div 2 + jitter \div 2 : jitter \in 0..(delay - 1)}

(* An attempt failed: the loop ends on the last attempt, on an error that  *)
(* is not marked retryable and when the delay would use up the budget.     *)
AfterFailure(k, retryable) ==
    IF k.attempt = Attempts(k.job) \/ ~retryable THEN {Return(k, "error")}
    ELSE {IF k.deadline - now <= d THEN Return(k, "error")
          ELSE [Forget(k) EXCEPT !.pc = "backoff", !.reply = None, !.wake = now + d] :
              d \in retryDelay(k.job, k.attempt)}

Fail(c, k, retryable) == \E next \in AfterFailure(k, retryable) : Change(c, next)

------------------------------------------------------------------------------
(***************************************************************************)
(* Do and DoStream: init.                                                  *)
(***************************************************************************)
Earlier(s, t) == IF s = None \/ (t # None /\ t < s) THEN t ELSE s

(* The deadline that came with the request, else the context's own.        *)
authoritativeDeadline(passed, ctx) == IF passed # None THEN passed ELSE ctx

(* The deadline passed on with the request; a context never outlives its   *)
(* parent, so the context ends at the earlier of the two in any case.      *)
contextWithAuthoritativeDeadline(ctx, deadline) == Earlier(ctx, deadline)

(* init: an option or the trace identifier may fail; without any deadline  *)
(* the call gets its quota.                                                *)
Start(c) ==
    /\ At(c, "idle")
    /\ \E j \in Jobs[c] :
         \/ Change(c, Return([call[c] EXCEPT !.job = j], "error"))
         \/ LET quota == IF j.quota <= 0 THEN DefaultQuota ELSE j.quota
                given == authoritativeDeadline(j.passed, j.ctx)
                d == contextWithAuthoritativeDeadline(
                         j.ctx, IF given = None THEN now + quota ELSE given)
            IN  /\ d <= MaxTime
                /\ Change(c, [call[c] EXCEPT !.job = j, !.passed = d, !.pc = "prepare",
                                             !.deadline = Earlier(j.ctx, d)])

(* The caller cancels the context it gave the call.                        *)
Cancel(c) ==
    /\ call[c].pc \notin {"idle", "done"} /\ Job(c).cancels /\ ~call[c].canceled
    /\ Change(c, [call[c] EXCEPT !.canceled = TRUE])

------------------------------------------------------------------------------
(***************************************************************************)
(* Discovery: RandomPicker.                                                *)
(***************************************************************************)
Callable(j, i) == j.all \/ i.health \in {"", "healthy"}
Near(j, i) == j.zone = None \/ i.zone \in {None, j.zone}

(* Mutant: the fallback outside the zone forgets the health check.         *)
FaultyCandidates(j, offered) ==
    LET near == {i \in offered : Callable(j, i) /\ Near(j, i)} IN
    IF near = {} /\ j.zone # None THEN offered ELSE near

(* Callable instances of the preferred zone, or of any zone when there is  *)
(* none; weights decide unless no candidate has a positive one.            *)
Candidates(j, offered) ==
    LET near == {i \in offered : Callable(j, i) /\ Near(j, i)} IN
    IF near = {} /\ j.zone # None THEN {i \in offered : Callable(j, i)} ELSE near

Pick(j, offered) ==
    LET candidates == Candidates(j, offered)
        weighted == {i \in candidates : i.weight > 0}
    IN  IF weighted = {} THEN candidates ELSE weighted

(* Mutant: rounded up instead of down.                                     *)
FaultyRemainingMS(c) == (call[c].passed - now + Ms - 1) \div Ms

------------------------------------------------------------------------------
(***************************************************************************)
(* One attempt: prepareRequest and doHTTP.                                 *)
(***************************************************************************)
(* The budget left, in whole milliseconds, as the header carries it.       *)
RemainingMS(c) == (call[c].passed - now) \div Ms

(* The budget is checked, the pre-handlers run (and may fail, with an      *)
(* error marked retryable or not), the headers are set, and discovery      *)
(* begins when it is on.                                                   *)
Prepare(c) ==
    LET j == Job(c)
        k == [call[c] EXCEPT !.header = RemainingMS(c), !.at = now, !.inst = None, !.offered = {}]
    IN  /\ At(c, "prepare")
        /\ \/ now >= call[c].deadline /\ Fail(c, call[c], FALSE)
           \/ /\ now < call[c].deadline
              /\ \/ \E retryable \in BOOLEAN : Fail(c, call[c], retryable)
                 \/ now >= call[c].passed /\ Fail(c, call[c], FALSE)
                 \/ /\ now < call[c].passed
                    /\ CASE j.discovery = "off" -> Change(c, [k EXCEPT !.pc = "send"])
                         [] j.discovery = "override" ->
                              \E i \in Instances : Change(c, [k EXCEPT !.pc = "send", !.inst = i])
                         [] j.discovery = "noResolver" -> Fail(c, k, FALSE)
                         [] j.discovery = "on" -> Change(c, [k EXCEPT !.pc = "resolve"])

(* The resolver answers, each attempt anew, or fails.                      *)
Resolve(c) ==
    /\ At(c, "resolve")
    /\ \/ \E retryable \in BOOLEAN : Fail(c, call[c], retryable)
       \/ \E offered \in SUBSET Instances :
            LET picks == Pick(Job(c), offered) IN
            \/ picks = {} /\ Fail(c, call[c], FALSE)
            \/ \E i \in picks :
                 Change(c, [call[c] EXCEPT !.pc = "send", !.inst = i, !.offered = offered])

(* client.Do: a request whose context has ended is not sent.  Whatever     *)
(* client.Do fails with is a url.Error, hence a net.Error, hence retryable.*)
Send(c) ==
    /\ At(c, "send")
    /\ \/ RequestBound(c) /\ Fail(c, call[c], TRUE)
       \/ /\ ~RequestBound(c)
          /\ Change(c, [call[c] EXCEPT !.pc = "flight", !.sent = @ + 1, !.hop = None,
                                       !.hops = 0])

(* The connection fails, or is never made.                                 *)
Lose(c) == At(c, "flight") /\ Fail(c, call[c], TRUE)

(* ContextFromHeaders in the service the request reaches: a header of 0 is *)
(* no budget at all, and the default stands.                               *)
HopTimeout(header) ==
    LET asked == IF header > 0 THEN header * Ms ELSE HopDefault IN
    IF HopMax > 0 /\ (asked = 0 \/ asked > HopMax) THEN HopMax ELSE asked

Arrive(c) ==
    /\ At(c, "flight") /\ call[c].hop = None
    /\ LET timeout == HopTimeout(call[c].header) IN
       Change(c, [call[c] EXCEPT
           !.hop = [deadline |-> IF timeout > 0 THEN now + timeout ELSE None,
                    transit |-> now - call[c].at]])

(* CheckRedirect (net/http's own unless the http handler of resource set   *)
(* one): via holds the first request too.                                  *)
MayFollow(c) == call[c].hops + 1 < Job(c).redirects

(* The server redirects.  client.Do repeats the request elsewhere, with    *)
(* the headers it had, until its limit, and then fails like any transport. *)
Redirect(c) ==
    /\ At(c, "flight") /\ call[c].hop # None /\ ~RequestBound(c)
    /\ \/ MayFollow(c) /\ Change(c, [call[c] EXCEPT !.hop = None, !.hops = @ + 1])
       \/ ~MayFollow(c) /\ Fail(c, call[c], TRUE)

(* The response arrives: what the status says decides what becomes of its  *)
(* body.  A stream is handed to the caller, who now owns body and context. *)
Respond(c) ==
    /\ At(c, "flight") /\ call[c].hop # None /\ ~RequestBound(c)
    /\ \E status \in Statuses, body \in Bodies :
         /\ status # "expected" \/ Job(c).stream => body.form = "empty"
         /\ Change(c, [call[c] EXCEPT
             !.reply = [status |-> status, body |-> body], !.open = @ + 1,
             !.pc = IF status # "expected" THEN "drain"
                    ELSE IF Job(c).stream THEN "stream" ELSE "handle"])

(* An unexpected status: the body is read as far as it goes and closed.    *)
Drain(c) ==
    /\ At(c, "drain")
    /\ Fail(c, [call[c] EXCEPT !.open = @ - 1], call[c].reply.status = "retry")

(* JSONRespHandler with a CommonWrapper: an empty body is accepted as it   *)
(* is; a body without a code leaves the wrapper's code as an earlier       *)
(* attempt set it; Validate refuses any code but 0 and the ones the caller *)
(* allows.  (Without a wrapper nothing sets the code, and every whole body *)
(* is accepted.)                                                           *)
Decoded(k) == IF k.reply.body.code = None THEN k.code ELSE k.reply.body.code

Filled(k) ==
    IF k.reply.body.form \in {"mismatch", "whole"} THEN k.filled \cup {k.attempt} ELSE k.filled

Accepted(k) ==
    \/ k.reply.body.form = "empty"
    \/ k.reply.body.form = "whole" /\ Decoded(k) \in {0} \cup k.job.allow

(* Mutant: whatever the handler reports is tried again.                    *)
FaultyAppErrorRetried(j, validated) == TRUE

(* An error of the handler is retried when the options say so, or when the *)
(* wrapper's Validate was reached and marks its errors itself.             *)
AppErrorRetried(j, validated) ==
    (j.retry # None /\ j.retry.appError) \/ (validated /\ j.marks)

(* The response handler reads the body, which may fail, and accepts it or  *)
(* not.  The body is closed either way, and Do releases the context on     *)
(* success too.                                                            *)
Handle(c) ==
    LET k == [call[c] EXCEPT !.open = @ - 1]
        read == [k EXCEPT !.code = Decoded(call[c]), !.filled = Filled(call[c])]
    IN  /\ At(c, "handle")
        /\ \/ Fail(c, k, AppErrorRetried(Job(c), FALSE))
           \/ Accepted(call[c]) /\ Change(c, Return(read, "ok"))
           \/ /\ ~Accepted(call[c])
              /\ Fail(c, read, AppErrorRetried(Job(c), call[c].reply.body.form = "whole"))

(* The backoff timer fires, or the context ends first.                     *)
Wake(c) ==
    /\ At(c, "backoff") /\ now >= call[c].wake
    /\ Change(c, [call[c] EXCEPT !.pc = "prepare", !.wake = 0, !.attempt = @ + 1])

GiveUp(c) == At(c, "backoff") /\ Done(c) /\ Change(c, Return(call[c], "error"))

(* Mutant: the body is not wrapped, so closing it releases nothing.        *)
FaultyCloseBody(k) == [k EXCEPT !.open = @ - 1]

(* The caller of DoStream closes the body, which releases the context.     *)
CloseBody(k) == [k EXCEPT !.open = @ - 1, !.released = TRUE]

CloseStream(c) ==
    At(c, "stream") /\ Change(c, [CloseBody(call[c]) EXCEPT !.pc = "done", !.outcome = "ok"])

Tick == now < MaxTime /\ now' = now + 1 /\ UNCHANGED call

Agent(c) ==
    \/ Start(c) \/ Cancel(c) \/ Prepare(c) \/ Resolve(c) \/ Send(c) \/ Lose(c)
    \/ Arrive(c) \/ Redirect(c) \/ Respond(c) \/ Drain(c) \/ Handle(c) \/ Wake(c) \/ GiveUp(c)

(* Time passes, the agent's own steps are taken, the resolver answers, and *)
(* what is bound to the context ends once the context has.                 *)
Interrupted(c) == RequestBound(c) /\ (Lose(c) \/ Drain(c) \/ Handle(c))

------------------------------------------------------------------------------
(***************************************************************************)
(* Properties.                                                             *)
(***************************************************************************)
(* A call whose method is not safe to repeat, and that nobody declared     *)
(* idempotent, is sent at most once, whatever fails and however the retry  *)
(* options are set; no call is sent more often than it has attempts, and   *)
(* no request is redirected more often than its client allows (agent.go    *)
(* retryDoHTTP, http.go newHTTPHandler).  What a server redirects (307,    *)
(* 308) is repeated at the server's word and not counted as sent.          *)
Repeatable(j) == j.retry # None /\ (j.safe \/ j.retry.idempotent)

SentAtMost ==
    \A c \in Callers :
        LET k == call[c] IN
        k.pc # "idle" =>
            /\ k.sent <= k.attempt
            /\ ~Repeatable(k.job) => k.sent <= 1
            /\ Repeatable(k.job) /\ k.job.retry.attempts > 0 => k.sent <= k.job.retry.attempts
            /\ k.hops > 0 => k.hops < k.job.redirects

(* The next service, when it was given a budget, does not work past the    *)
(* end of the call it works for by more than the time between the headers  *)
(* and their arrival: discovery and travel, which nobody deducts           *)
(* (tracing.go injectTraceHeaders, ContextFromHeaders).                    *)
BudgetPassedOn ==
    \A c \in Callers :
        LET k == call[c] IN
        k.hop # None /\ k.header > 0 => k.hop.deadline <= k.deadline + k.hop.transit

(* No response body and no context timer outlives its call; while a caller *)
(* holds a stream the body is open and the agent has not cancelled it      *)
(* (agent.go Do, DoStream, doHTTP, cancelOnCloseReadCloser).               *)
NothingLeaked ==
    \A c \in Callers :
        LET k == call[c] IN
        /\ k.pc = "done" => k.open = 0 /\ k.released
        /\ k.pc # "done" => k.open = IF k.pc \in {"drain", "handle", "stream"} THEN 1 ELSE 0
        /\ k.pc # "done" => ~k.released

(* When Do reports success, the caller's result and wrapper hold what the  *)
(* answer of the last attempt said and nothing of an earlier, refused one, *)
(* unless the caller asked for errors of the handler to be retried (resp.go*)
(* JSONRespHandler, agent.go doHTTP).                                      *)
RetriesRefused(j) == j.marks \/ (j.retry # None /\ j.retry.appError)

FilledAfresh(k) == k.pc = "done" /\ k.outcome = "ok" => k.filled \subseteq {k.attempt}

SuccessIsFresh == \A c \in Callers : FilledAfresh(call[c]) \/ RetriesRefused(call[c].job)

(* The same of every call: "JSONResp decodes a JSON response into ret", and *)
(* the response is the one Do succeeded with (resp.go JSONResp).           *)
ResultIsFresh == \A c \in Callers : FilledAfresh(call[c])

(* The instance a request goes to is callable, was offered by this         *)
(* attempt's resolution, and is outside the preferred zone only when no    *)
(* callable one inside was offered (discovery.go Pick).                    *)
PickIsCallable ==
    \A c \in Callers :
        LET k == call[c] IN
        k.pc = "flight" /\ k.job.discovery = "on" =>
            /\ k.inst \in k.offered /\ Callable(k.job, k.inst)
            /\ Near(k.job, k.inst) \/ \A i \in k.offered : Callable(k.job, i) => ~Near(k.job, i)

(* A call that began returns, or hands its stream to the caller, whatever  *)
(* the server does (the context bounds everything it waits for).           *)
CallReturns ==
    \A c \in Callers : call[c].pc = "prepare" ~> call[c].pc \in {"stream", "done"}

==============================================================================
