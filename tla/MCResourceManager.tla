-------------------------- MODULE MCResourceManager --------------------------
(***************************************************************************)
(* A caller of the agent on its own, and a download on its own: they share *)
(* nothing but the clock, so states in which both have begun are not       *)
(* explored (Apart).                                                       *)
(***************************************************************************)
EXTENDS ResourceManager

CONSTANTS caller, downloader, here, there

Retry(attempts, base, appError, idempotent) ==
    [attempts |-> attempts, base |-> base, max |-> 3, appError |-> appError,
     idempotent |-> idempotent]

Plain == [stream |-> FALSE, safe |-> TRUE, retry |-> None, quota |-> 2, ctx |-> None,
          passed |-> None, cancels |-> FALSE, discovery |-> "off", zone |-> None, all |-> FALSE,
          redirects |-> 0, allow |-> {}, marks |-> FALSE]

(* Plain calls: a POST with retries and one declared idempotent, a GET     *)
(* that retries application errors and one whose wrapper marks them, some  *)
(* that follow a redirect or allow a code, ones with discovery, and        *)
(* contexts with one deadline, the other, both and none.                   *)
MCJobs == [c \in Callers |->
    CASE c = downloader -> {[Plain EXCEPT !.stream = TRUE, !.quota = 3, !.cancels = TRUE,
                                 !.redirects = 2, !.retry = Retry(2, 1, FALSE, FALSE)]}
      [] c = caller ->
         {[Plain EXCEPT !.safe = FALSE, !.retry = Retry(2, 1, FALSE, FALSE), !.redirects = 2],
          [Plain EXCEPT !.safe = FALSE, !.retry = Retry(2, 2, FALSE, TRUE), !.quota = 0,
               !.allow = {1}],
          [Plain EXCEPT !.retry = Retry(0, 1, TRUE, FALSE), !.ctx = 3, !.passed = 5],
          [Plain EXCEPT !.retry = Retry(2, 1, FALSE, FALSE), !.marks = TRUE],
          [Plain EXCEPT !.stream = TRUE, !.ctx = 4, !.passed = 3, !.cancels = TRUE],
          [Plain EXCEPT !.discovery = "on", !.zone = here, !.passed = 4],
          [Plain EXCEPT !.discovery = "on", !.all = TRUE],
          [Plain EXCEPT !.discovery = "override"],
          [Plain EXCEPT !.discovery = "noResolver", !.retry = Retry(2, 1, TRUE, FALSE)]}]

MCInstances ==
    {[health |-> "healthy", zone |-> here, weight |-> 0],
     [health |-> "", zone |-> there, weight |-> 1],
     [health |-> "unhealthy", zone |-> there, weight |-> 1]}

Apart == call[caller] = Unstarted \/ \A c \in Downloaders : work[c].pc = "idle"
==============================================================================
