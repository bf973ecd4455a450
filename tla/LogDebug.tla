------------------------------ MODULE LogDebug ------------------------------
(***************************************************************************)
(* The log debug service (crates/dlp-log-debug-service): the service       *)
(* thread from StartPending to Stopped, the /logs handler, and the tail    *)
(* reader, which looks at a log three times (its length, the byte before   *)
(* the window, the window) while the program that owns the log goes on     *)
(* appending to it, moves it out of the folder or starts it anew.          *)
(*                                                                         *)
(* A log is a sequence of bytes, each a newline or not; there is one, and  *)
(* its directory is the one folder that a valid configuration names.       *)
(***************************************************************************)
EXTENDS Integers, Sequences, FiniteSetsExt

CONSTANTS
    Request,    \* slots for connections, each with the request it carries
    MaxLength,  \* bound on the length of the log
    MaxBytes,   \* max_response_bytes
    MaxLines,   \* max_tail_lines
    None

ASSUME BoundsAssumption == MaxBytes \in Nat \ {0} /\ MaxLines \in Nat \ {0}

Byte == {"newline", "other"}

VARIABLES
    file,     \* does config.json parse and pass RuntimeConfig::try_from?
    mode,     \* the access mode loaded at start, None before
    thread,   \* where service_main is
    status,   \* the status last published to the service manager
    stop,     \* the value in the watch channel
    log,      \* the contents of the log
    place,    \* "folder", or "elsewhere" once it has been moved
    request   \* the connections, each with its request

vars == <<file, mode, thread, status, stop, log, place, request>>

\* The paths a client may ask for: the log's path in the folder, its path
\* when it has been moved, and one that is not absolute.
Path == {"folder", "elsewhere", "relative"}
\* The tail parameter: left out, a number, or one that usize does not parse.
TailParameter == {None} \cup 0..MaxLines + 1

\* No connection; one with no request under way; one with a request of which
\* the client has sent a part.
NoRequest == [at |-> "none"]
Idle == [at |-> "idle"]
Receiving == [at |-> "receiving"]
\* The handler is through, and the answer is being written to the client.
Answered(answer) == [at |-> "answered", answer |-> answer]

\* A request between two steps of its handler: what it has found out so far.
Opened == [at : {"opened"}, lines : 1..MaxLines]
ToStat == [at : {"stat"}, lines : 1..MaxLines, recreated : BOOLEAN]
ToPeek == [at : {"peek"}, lines : 1..MaxLines, recreated : BOOLEAN, length : Nat, start : Nat]
ToRead == [at : {"read"}, lines : 1..MaxLines, recreated : BOOLEAN, length : Nat, start : Nat,
           boundary : BOOLEAN]

IsRequest(q) ==
    \/ q.at \in {"none", "idle", "receiving", "accepted", "answered"}
    \/ q \in Opened \cup ToStat \cup ToPeek \cup ToRead

TypeOK ==
    /\ file \in BOOLEAN /\ stop \in BOOLEAN
    /\ mode \in {None, "RemoteAllowlist", "LocalhostOnly"}
    /\ thread \in {"register", "load", "bind", "publish", "serve", "end", "done"}
    /\ status \in {None, "StartPending", "Running", "Stopped", "Failed"}
    /\ log \in Seq(Byte)
    /\ place \in {"folder", "elsewhere"}
    /\ DOMAIN request = Request
    /\ \A r \in Request : IsRequest(request[r])

Init ==
    /\ file \in BOOLEAN
    /\ mode = None
    /\ thread = "register"
    /\ status = None
    /\ stop = FALSE
    /\ log = <<>>
    /\ place = "folder"
    /\ request = [r \in Request |-> NoRequest]

-----------------------------------------------------------------------------
(* The service thread.                                                     *)

\* stop_with_error, and the early return when StartPending cannot be
\* published: the thread ends; a status that cannot be published is lost.
StopWithError ==
    /\ thread' = "done"
    /\ status' \in {"Failed", status}

\* The control handler is registered and StartPending published.
Register ==
    /\ thread = "register"
    /\ \/ thread' = "load" /\ status' = "StartPending"
       \/ thread' = "done" /\ UNCHANGED status
    /\ UNCHANGED <<file, mode, stop, log, place, request>>

\* load_runtime_config: anything wrong with the file gives localhost_only.
LoadConfig ==
    /\ thread = "load"
    /\ thread' = "bind"
    /\ mode' = IF file THEN "RemoteAllowlist" ELSE "LocalhostOnly"
    /\ UNCHANGED <<file, status, stop, log, place, request>>

BindListener ==
    /\ thread = "bind"
    /\ \/ thread' = "publish" /\ UNCHANGED status
       \/ StopWithError
    /\ UNCHANGED <<file, mode, stop, log, place, request>>

PublishRunning ==
    /\ thread = "publish"
    /\ \/ thread' = "serve" /\ status' = "Running"
       \/ StopWithError
    /\ UNCHANGED <<file, mode, stop, log, place, request>>

\* The handler has the request; the connection waits for its client.
InFlight(r) == request[r].at \in {"accepted", "opened", "stat", "peek", "read"}
AwaitsClient(r) == request[r].at \in {"receiving", "answered"}

\* Mutant: serve_http returns as soon as the channel holds true.
DrainedAtOnce == stop
\* Mutant: it waits until the clients have closed their connections.
DrainedWhenClosed == stop /\ \A r \in Request : request[r].at = "none"
\* serve_http with graceful shutdown: it returns when the channel holds true
\* and every connection is idle, which closes it.  There is no timeout: a
\* client that has sent a part of its request, or does not take its answer,
\* is waited for.
Drained == stop /\ \A r \in Request : ~InFlight(r) /\ ~AwaitsClient(r)

ServeReturns ==
    /\ thread = "serve"
    /\ Drained
    /\ thread' = "end"
    /\ UNCHANGED <<file, mode, status, stop, log, place, request>>

PublishStopped ==
    /\ thread = "end"
    /\ thread' = "done"
    /\ status' \in {"Stopped", status}
    /\ request' = [r \in Request |-> NoRequest]
    /\ UNCHANGED <<file, mode, stop, log, place>>

-----------------------------------------------------------------------------
(* The service manager and the program that writes the log.                *)

Stop ==
    /\ thread \notin {"register", "done"}
    /\ stop' = TRUE
    /\ UNCHANGED <<file, mode, thread, status, log, place, request>>

\* config.json is read once, so an edit while the service runs has no effect.
EditConfig ==
    /\ thread = "register"
    /\ file' = ~file
    /\ UNCHANGED <<mode, thread, status, stop, log, place, request>>

AppendByte ==
    /\ Len(log) < MaxLength
    /\ \E b \in Byte : log' = Append(log, b)
    /\ UNCHANGED <<file, mode, thread, status, stop, place, request>>

\* The log is moved out of its folder, or back.
Move ==
    /\ place' = IF place = "folder" THEN "elsewhere" ELSE "folder"
    /\ UNCHANGED <<file, mode, thread, status, stop, log, request>>

\* The log is created anew (CREATE_ALWAYS) under the readers it has.
Recreate ==
    /\ log # <<>>
    /\ log' = <<>>
    /\ request' = [r \in Request |->
           IF request[r].at \in {"stat", "peek", "read"}
           THEN [request[r] EXCEPT !.recreated = TRUE] ELSE request[r]]
    /\ UNCHANGED <<file, mode, thread, status, stop, place>>

-----------------------------------------------------------------------------
(* The clients.  A connection is accepted, and its next request begun,     *)
(* while the service serves and the channel holds false; the rest of a     *)
(* request that was begun is received also after a stop.                   *)

Becomes(r, next) ==
    /\ request' = [request EXCEPT ![r] = next]
    /\ UNCHANGED <<file, mode, thread, status, stop, log, place>>

Connect(r) ==
    /\ thread = "serve" /\ ~stop
    /\ request[r].at = "none"
    /\ Becomes(r, Idle)

BeginRequest(r) ==
    /\ thread = "serve" /\ ~stop
    /\ request[r].at = "idle"
    /\ Becomes(r, Receiving)

\* The request is there as a whole.
Accept(r) ==
    /\ thread = "serve"
    /\ request[r].at = "receiving"
    /\ \E peer \in {"loopback", "listed", "other"}, path \in Path, tail \in TailParameter :
           Becomes(r, [at |-> "accepted", peer |-> peer, path |-> path, tail |-> tail])

\* The client has its answer; the connection is kept.
TakeAnswer(r) ==
    /\ request[r].at = "answered"
    /\ Becomes(r, Idle)

\* The client closes the connection, or breaks it off.
Disconnect(r) ==
    /\ request[r].at = "idle" \/ AwaitsClient(r)
    /\ Becomes(r, NoRequest)

Client(r) == Connect(r) \/ BeginRequest(r) \/ Accept(r) \/ TakeAnswer(r) \/ Disconnect(r)

-----------------------------------------------------------------------------
(* The /logs handler.                                                      *)

AuthorizePeer(peer) == peer = "loopback" \/ (peer = "listed" /\ mode = "RemoteAllowlist")

\* The number of lines the handler asks the reader for, None when it refuses.
Lines(tail) ==
    IF tail = None THEN MaxLines
    ELSE IF tail \in 1..MaxLines THEN tail ELSE None

\* The checks on the request, then the open.
OpenFile(r) ==
    /\ thread = "serve"
    /\ request[r].at = "accepted"
    /\ LET q == request[r] IN
       Becomes(r,
           IF ~AuthorizePeer(q.peer) THEN Answered("untrusted_client")
           ELSE IF Lines(q.tail) = None THEN Answered("invalid_tail")
           ELSE IF q.path = "relative" THEN Answered("invalid_path")
           ELSE IF q.path # place THEN Answered("file_not_found")
           ELSE [at |-> "opened", lines |-> Lines(q.tail)])

\* final_path_for_handle and authorize_canonical_target, on the handle; a
\* localhost_only configuration has no folder.
AuthorizeTarget(r) ==
    /\ thread = "serve"
    /\ request[r].at = "opened"
    /\ Becomes(r,
           IF mode = "RemoteAllowlist" /\ place = "folder"
           THEN [at |-> "stat", lines |-> request[r].lines, recreated |-> FALSE]
           ELSE Answered("forbidden_path"))

\* read_bounded_tail_file, first look: the length gives the window's start.
WindowStart(length) == IF length > MaxBytes THEN length - MaxBytes ELSE 0

Stat(r) ==
    /\ thread = "serve"
    /\ request[r].at = "stat"
    /\ Becomes(r, [at |-> "peek", lines |-> request[r].lines, recreated |-> request[r].recreated,
                   length |-> Len(log), start |-> WindowStart(Len(log))])

\* Mutant: a window always starts a line.
StartsAnywhere(contents, start) == TRUE
\* Second look: is the byte before the window a newline?
StartsAtBoundary(contents, start) == start = 0 \/ contents[start] = "newline"

Peek(r) ==
    /\ thread = "serve"
    /\ request[r].at = "peek"
    /\ LET q == request[r] IN
       Becomes(r,
           IF q.start > Len(log) THEN Answered("read_failed")
           ELSE [at |-> "read", lines |-> q.lines, recreated |-> q.recreated, length |-> q.length,
                 start |-> q.start, boundary |-> StartsAtBoundary(log, q.start)])

Newlines(bytes) == {i \in DOMAIN bytes : bytes[i] = "newline"}

\* The part of the window that is cut off in front: through its first
\* newline when the window starts within a line.
DropPartialFirst(bytes, boundary) ==
    IF boundary THEN bytes
    ELSE IF Newlines(bytes) = {} THEN <<>>
    ELSE SubSeq(bytes, Min(Newlines(bytes)) + 1, Len(bytes))

\* ... and behind: what follows the last newline.
DropPartialLast(bytes) ==
    IF Newlines(bytes) = {} THEN <<>> ELSE SubSeq(bytes, 1, Max(Newlines(bytes)))

\* The newest lines: cut after the (lines + 1)th newline from the end.
KeepLast(bytes, lines) ==
    LET older == {i \in Newlines(bytes) :
                     Cardinality({j \in Newlines(bytes) : j >= i}) = lines + 1}
    IN  IF older = {} THEN bytes ELSE SubSeq(bytes, Max(older) + 1, Len(bytes))

\* Third look: the window is read and cut to whole lines.
ReadWindow(r) ==
    /\ thread = "serve"
    /\ request[r].at = "read"
    /\ LET q == request[r]
           bytes == SubSeq(log, q.start + 1, Min({q.start + MaxBytes, Len(log)}))
       IN  Becomes(r, [at |-> "answered", answer |-> "content", asked |-> q, upTo |-> log,
                       content |-> KeepLast(DropPartialLast(DropPartialFirst(bytes, q.boundary)), q.lines)])

\* Another method than GET, a file that cannot be opened or has no final
\* path, a read that fails, or bytes that are no text.
Failure ==
    [accepted |-> "method_not_allowed", opened |-> "forbidden_path",
     stat |-> "read_failed", peek |-> "read_failed", read |-> "read_failed"]

HandlerFails(r) ==
    /\ thread = "serve"
    /\ InFlight(r)
    /\ request[r].at = "accepted" => AuthorizePeer(request[r].peer)
    /\ Becomes(r, Answered(Failure[request[r].at]))

Handle(r) ==
    OpenFile(r) \/ AuthorizeTarget(r) \/ Stat(r) \/ Peek(r) \/ ReadWindow(r) \/ HandlerFails(r)

-----------------------------------------------------------------------------
ServiceThread ==
    Register \/ LoadConfig \/ BindListener \/ PublishRunning \/ ServeReturns \/ PublishStopped

Next ==
    \/ ServiceThread
    \/ Stop \/ EditConfig \/ AppendByte \/ Move \/ Recreate
    \/ \E r \in Request : Client(r) \/ Handle(r)

\* The service thread runs, and the handler of an accepted request runs: it
\* awaits nothing.  Nothing makes a client send, read or close.
Spec ==
    /\ Init /\ [][Next]_vars
    /\ WF_vars(ServiceThread)
    /\ \A r \in Request : WF_vars(Handle(r))

-----------------------------------------------------------------------------
(* Properties.                                                             *)

\* The longest run of at most the given number of whole lines that ends with
\* the last newline seen and starts within MaxBytes of the length.
NewestLines(seen, length, lines) ==
    LET ends == {0} \cup Newlines(seen)
        last == Max(ends)
        starts == {s \in ends : /\ s >= length - MaxBytes
                                /\ Cardinality({i \in Newlines(seen) : i > s}) <= lines}
    IN  IF starts = {} THEN <<>> ELSE SubSeq(seen, Min(starts) + 1, last)

\* What an answer holds: the newest lines up to the end of the window, or of
\* the log when it was read, and no more than the window.
HoldsNewest(q) ==
    q.at = "answered" /\ q.answer = "content" /\ ~q.asked.recreated =>
        LET seen == SubSeq(q.upTo, 1, Min({q.asked.start + MaxBytes, Len(q.upTo)}))
        IN  /\ Len(seen) >= q.asked.length
            /\ Len(q.content) <= MaxBytes
            /\ q.content = NewestLines(seen, q.asked.length, q.asked.lines)

\* "Complete newest lines" (config.rs): unless the log was created anew
\* meanwhile, the content answered is the newest lines in reach of the
\* window, although the three looks at the log see three lengths.
TailIsNewest == \A r \in Request : HoldsNewest(request[r])

\* What the looks have seen is still so, unless the log was created anew: it
\* only grows.
LookHolds(q) ==
    /\ q.at \in {"peek", "read"} =>
          q.start = WindowStart(q.length) /\ (~q.recreated => q.length <= Len(log))
    /\ q.at = "read" /\ ~q.recreated => q.boundary = StartsAtBoundary(log, q.start)

Inv ==
    /\ TypeOK
    /\ \A r \in Request : LookHolds(request[r])
    /\ TailIsNewest

\* A stop sent at any time after the handler is registered, be it before
\* the service serves or while requests are in flight, ends the service, if
\* no client leaves its request half sent, or its answer unread, for ever;
\* no client has to close its connection.
StopIsHonoured ==
    (\A r \in Request : []<>(~AwaitsClient(r))) => (stop ~> thread = "done")

\* A request that was received as a whole is answered, a stop notwithstanding.
AcceptedIsAnswered == \A r \in Request : InFlight(r) ~> request[r].at = "answered"
=============================================================================
