--------------------------- MODULE ResourceManager ---------------------------
(***************************************************************************)
(* resource.Manager: Open routes an identifier to the handler of its       *)
(* scheme, Download writes what was opened to a file (resource/manager.go, *)
(* http.go, data.go).  The http handler opens its stream with the agent of *)
(* HttpAgent, so this module composes the two: a downloader is a caller of *)
(* the agent that reads the stream through limitReadCloser into a          *)
(* temporary file of its own and renames that.                             *)
(*                                                                         *)
(* A body is a number of units; a file is whose body it holds and how much *)
(* of it.                                                                  *)
(***************************************************************************)
EXTENDS HttpAgent

CONSTANTS
    Registered,    \* schemes for which a handler may be registered
    Downloaders,   \* callers that run Manager.Download
    Sizes,         \* how many units a resource has
    Buffer,        \* what io.Copy asks for in one Read
    MaxBytes,      \* Options.MaxBytes
    DataMaxBytes   \* Options.DataMaxBytes

ASSUME ResourceAssumption ==
    /\ Registered \subseteq {"https", "http", "data"}
    /\ Downloaders \subseteq Callers /\ Sizes \subseteq Nat
    /\ {Buffer, MaxBytes, DataMaxBytes} \subseteq Nat \ {0}
    /\ None \notin {"http", "data", "custom"}

VARIABLES
    handlers,   \* scheme -> which handler serves it
    work,       \* what each download is doing
    temp,       \* what each download's temporary file holds, or None
    dst         \* what the destination holds, or None

vars == <<now, call, handlers, work, temp, dst>>
files == <<temp, dst>>

Schemes == {"https", "http", "data"}

(* NewManager: http is served only when the options enable it.             *)
ManagerInit ==
    /\ Init
    /\ handlers \in {[s \in Schemes |-> IF s = "data" THEN "data" ELSE "http"],
                     [https |-> "http", http |-> "none", data |-> "data"]}
    /\ work = [c \in Downloaders |-> [pc |-> "idle", kind |-> None, size |-> 0,
                                      length |-> -1, read |-> 0, result |-> None]]
    /\ temp = [c \in Downloaders |-> None]
    /\ dst = None

Working(c, new) == work' = [work EXCEPT ![c] = new] /\ UNCHANGED handlers

(* Register replaces the handler of a scheme; downloads that are under way *)
(* keep the one they looked up.                                            *)
Register(s) ==
    /\ handlers[s] # "custom"
    /\ handlers' = [handlers EXCEPT ![s] = "custom"]
    /\ UNCHANGED <<now, call, work, temp, dst>>

------------------------------------------------------------------------------
(***************************************************************************)
(* Open.                                                                   *)
(***************************************************************************)
Refuse(c) == Working(c, [work[c] EXCEPT !.pc = "done", !.result = "error"])

(* Download and Open refuse an empty path, an identifier that does not     *)
(* parse and a scheme without handler; a data URL is decoded, and refused  *)
(* above its own limit; a registered handler fails or returns a stream.    *)
Download(c) ==
    /\ work[c].pc = "idle" /\ UNCHANGED <<now, call, temp, dst>>
    /\ \/ Refuse(c)
       \/ \E s \in Schemes, size \in Sizes :
            LET kind == handlers[s]
                w == [work[c] EXCEPT !.kind = kind, !.size = size,
                                     !.pc = IF kind = "http" THEN "agent" ELSE "place"]
            IN  IF kind = "none" \/ (kind = "data" /\ size > DataMaxBytes) THEN Refuse(c)
                ELSE \E length \in (CASE kind = "http" -> {-1} [] kind = "data" -> {size}
                                      [] kind = "custom" -> {-1, size}) :
                         Working(c, [w EXCEPT !.length = length])

(* The http handler's DoStream has failed.                                 *)
OpenFailed(c) ==
    /\ work[c].pc = "agent" /\ At(c, "done")
    /\ Refuse(c) /\ UNCHANGED <<now, call, temp, dst>>

(* It has a stream: the response may announce its length, and one above    *)
(* the limit is closed unread.                                             *)
Opened(c) ==
    /\ work[c].pc = "agent" /\ At(c, "stream") /\ UNCHANGED files
    /\ \E length \in {-1, work[c].size} :
         \/ length > MaxBytes /\ Refuse(c) /\ CloseStream(c)
         \/ /\ length <= MaxBytes /\ UNCHANGED <<now, call>>
            /\ Working(c, [work[c] EXCEPT !.pc = "place", !.length = length])

------------------------------------------------------------------------------
(***************************************************************************)
(* The rest of Download.                                                   *)
(***************************************************************************)
(* The deferred calls: an unfinished temporary file is removed, the body   *)
(* closed.                                                                 *)
Close(c) == IF work[c].kind = "http" THEN CloseStream(c) ELSE UNCHANGED <<now, call>>

Abandon(c) ==
    temp' = [temp EXCEPT ![c] = None] /\ UNCHANGED dst /\ Close(c) /\ Refuse(c)

(* The parent directory is looked at and the temporary file created.       *)
Place(c) ==
    /\ work[c].pc = "place"
    /\ \/ Abandon(c)
       \/ /\ temp' = [temp EXCEPT ![c] = 0]
          /\ Working(c, [work[c] EXCEPT !.pc = "copy"])
          /\ UNCHANGED <<now, call, dst>>

(* Mutant: the stream just ends at the limit.                              *)
FaultyRead(w, n) == [n |-> n, err |-> IF n = 0 \/ w.read + n > MaxBytes THEN "eof" ELSE "none"]

(* limitReadCloser.Read, n being what the body returned: the excess is cut *)
(* off and reported.                                                       *)
LimitRead(w, n) ==
    IF w.read + n > MaxBytes THEN [n |-> MaxBytes - w.read, err |-> "over"]
    ELSE [n |-> n, err |-> IF n = 0 THEN "eof" ELSE "none"]

(* It asks for one unit more than is left, to see that there is one; other *)
(* bodies are read without limit.  Nothing is read at the end only, but a  *)
(* connection that breaks under a response without a length may look like  *)
(* the end.                                                                *)
BrokenLooksDone(w) == w.kind = "http" /\ w.length = -1

Reads(w) ==
    LET asked == IF w.kind = "http" /\ Buffer > MaxBytes - w.read + 1
                 THEN MaxBytes - w.read + 1 ELSE Buffer
    IN  {n \in 0..asked : /\ w.read + n <= w.size
                          /\ n = 0 => w.read = w.size \/ BrokenLooksDone(w)
                          /\ w.read = w.size => n = 0}

Read(w, n) ==
    IF w.kind = "http" THEN LimitRead(w, n)
    ELSE [n |-> n, err |-> IF n = 0 THEN "eof" ELSE "none"]

(* io.Copy: one Read and one Write.  The Write can fail, and so can the    *)
(* Read, which does when the call's context has ended (the body of an http *)
(* stream is bound to it).                                                 *)
Copy(c) ==
    LET w == work[c] IN
    /\ w.pc = "copy"
    /\ \/ Abandon(c)
       \/ /\ ~(w.kind = "http" /\ RequestBound(c))
          /\ \E n \in Reads(w) :
               LET r == Read(w, n) IN
               \/ r.err = "over" /\ Abandon(c)
               \/ /\ r.err # "over"
                  /\ temp' = [temp EXCEPT ![c] = @ + r.n]
                  /\ Working(c, [w EXCEPT !.read = @ + n,
                                          !.pc = IF r.err = "eof" THEN "check" ELSE @])
                  /\ UNCHANGED <<now, call, dst>>

(* The announced size is checked once more (a data URL has a limit of its  *)
(* own and may be above this one) and the temporary file closed.           *)
Check(c) ==
    /\ work[c].pc = "check"
    /\ \/ Abandon(c)
       \/ /\ ~(work[c].length >= 0 /\ work[c].length > MaxBytes)
          /\ Working(c, [work[c] EXCEPT !.pc = "rename"])
          /\ UNCHANGED <<now, call, temp, dst>>

Rename(c) ==
    /\ work[c].pc = "rename"
    /\ \/ Abandon(c)
       \/ /\ dst' = [kind |-> work[c].kind, holds |-> temp[c], size |-> work[c].size,
                     length |-> work[c].length]
          /\ temp' = [temp EXCEPT ![c] = None]
          /\ Close(c)
          /\ Working(c, [work[c] EXCEPT !.pc = "done", !.result = "ok"])

------------------------------------------------------------------------------
Step(c) ==
    \/ Download(c) \/ OpenFailed(c) \/ Opened(c) \/ Place(c) \/ Copy(c) \/ Check(c) \/ Rename(c)

(* The agent of a caller, or of a download whose handler is the http one.  *)
Calls(c) ==
    /\ c \in Downloaders => work[c].kind = "http"
    /\ Agent(c) \/ (c \notin Downloaders /\ CloseStream(c))
    /\ UNCHANGED <<handlers, work, temp, dst>>

Next ==
    \/ Tick /\ UNCHANGED <<handlers, work, temp, dst>>
    \/ \E s \in Registered : Register(s)
    \/ \E c \in Callers : Calls(c)
    \/ \E c \in Downloaders : Step(c)

Rest == UNCHANGED <<handlers, work, temp, dst>>

(* Time passes; the agent and the manager take the steps that are theirs;  *)
(* a request, a response body and a handler end once their context has.    *)
Fairness ==
    /\ WF_vars(Tick /\ Rest)
    /\ \A c \in Callers :
         WF_vars(Rest /\ (Prepare(c) \/ Resolve(c) \/ Send(c) \/ Wake(c) \/ GiveUp(c) \/ Interrupted(c)))
    /\ \A c \in Downloaders :
         /\ WF_vars(OpenFailed(c) \/ Opened(c) \/ Place(c) \/ Check(c) \/ Rename(c))
         /\ WF_vars(RequestBound(c) /\ Copy(c))
         /\ WF_vars(work[c].pc = "agent" /\ Start(c) /\ Rest)

Spec == ManagerInit /\ [][Next]_vars /\ Fairness

------------------------------------------------------------------------------
(***************************************************************************)
(* Properties.                                                             *)
(***************************************************************************)
(* The destination, at every moment and so at every crash, is absent or    *)
(* holds a whole resource, unless that came over http without a length;    *)
(* and never one of a built-in handler above the limit, although the limit *)
(* is enforced on a stream whose length nobody announced; and a download   *)
(* that returned has left no temporary file and no open stream, whichever  *)
(* step failed (manager.go Download and its deferred calls, http.go        *)
(* limitReadCloser).                                                       *)
AllOrNothing ==
    /\ dst # None =>
         /\ BrokenLooksDone(dst) \/ dst.holds = dst.size
         /\ dst.kind # "custom" => dst.holds <= MaxBytes
    /\ \A c \in Downloaders :
         work[c].pc = "done" => temp[c] = None /\ (work[c].kind = "http" => At(c, "done"))

(* Calls return, and a download over http does even when the server stops  *)
(* sending in the middle of the body: the context of the call bounds the   *)
(* stream too (agent.go DoStream, manager.go Download).                    *)
EverythingReturns ==
    CallReturns /\ \A c \in Downloaders : work[c].pc = "agent" ~> work[c].pc = "done"
==============================================================================
