------------------------------ MODULE McpClient ------------------------------
(***************************************************************************)
(* One MCP server behind mcp/client.py and mcp/adapter.py: a child process *)
(* that speaks JSON-RPC over its pipes, and workers of one event loop that *)
(* call its tools at the same time.  A request is written to stdin; a      *)
(* thread of the loop's pool then reads stdout until the line with its id  *)
(* comes, and goes on reading when its caller has given up.  What is not    *)
(* awaited runs in the thread of the loop: writing to a pipe that is full,  *)
(* reading stderr to its end and closing a pipe that a thread reads stop    *)
(* every worker and every timer until they return.                         *)
(* A process is known by its generation: 1 for the first that is started.  *)
(* A request is known by its place in asks, and so are the line that       *)
(* answers it and the reader that looks for that line.                     *)
(***************************************************************************)
EXTENDS Integers, Sequences, FiniteSets

CONSTANTS
    Workers,
    PoolSize,     \* threads of the executor behind asyncio.to_thread
    MaxClock,     \* bound: the last millisecond
    MaxStarts,    \* bound: processes that are started
    MaxRequests   \* bound: no execution begins once so many requests are sent

ASSUME McpAssumption ==
    /\ PoolSize \in Nat \ {0}
    /\ MaxClock \in Nat /\ MaxStarts \in Nat /\ MaxRequests \in Nat

VARIABLES
    cur,       \* generation of _processes[name], 0 when there is none
    live,      \* generations whose process runs
    started,   \* generations so far
    inited,    \* name in _initialized
    clock,     \* int(time.time() * 1000)
    asks,      \* the requests in the order they were sent
    pending,   \* requests that can still be answered
    out,       \* generation -> the lines in its stdout pipe
    readers,   \* _read_json calls that have not returned
    worker,    \* worker -> what it waits for
    blocked    \* the thread of the event loop is inside a call of the system

vars == <<cur, live, started, inited, clock, asks, pending, out, readers, worker, blocked>>

Gens == 1 .. MaxStarts
InitializeId == 1
ListId == 2

Idle == [pc |-> "idle", n |-> 0, got |-> 0]
Leaving == [pc |-> "leaving", n |-> 0, got |-> 0]
Waiting(n) == [pc |-> "waiting", n |-> n, got |-> 0]
Writing(n) == [pc |-> "writing", n |-> n, got |-> 0]

Running == cur \in live

Kind(w) == asks[worker[w].n].kind

\* The loop runs a handler of w up to its next await.
Turn(w, pc) == ~blocked /\ worker[w].pc = pc

\* The executor takes its work in the order it came.
HasThread(r) == Cardinality({q \in readers : q < r}) < PoolSize

\* A thread is inside readline on the pipe of g.
BeingRead(g) == \E r \in readers : asks[r].gen = g /\ HasThread(r)

Init ==
    /\ cur = 0 /\ live = {} /\ started = 0 /\ inited = FALSE
    /\ clock = ListId + 1
    /\ asks = <<>> /\ pending = {} /\ readers = {}
    /\ out = [g \in Gens |-> <<>>]
    /\ worker = [w \in Workers |-> Idle]
    /\ blocked = FALSE

-----------------------------------------------------------------------------
(* Pieces of the handlers: what a worker does up to its next await.        *)

\* _send_request to generation g: write, flush, a reader for the pool.
Ask(w, g, kind, id) ==
    LET n == Len(asks) + 1 IN
    /\ asks' = Append(asks, [gen |-> g, id |-> id, kind |-> kind])
    /\ pending' = pending \cup {n}
    /\ readers' = readers \cup {n}
    /\ worker' = [worker EXCEPT ![w] = Waiting(n)]
    /\ blocked' = FALSE

\* The same when stdin is full: write or flush holds the loop.  (Initialize and
\* tools/list are the first messages into a new pipe and fit.)
AskBlocks(w) ==
    /\ asks' = Append(asks, [gen |-> cur, id |-> clock, kind |-> "call"])
    /\ worker' = [worker EXCEPT ![w] = Writing(Len(asks) + 1)]
    /\ blocked' = TRUE
    /\ UNCHANGED <<pending, readers>>

\* execute returns; what it says of a failure is left out.
Finish(w) ==
    /\ worker' = [worker EXCEPT ![w] = Idle]
    /\ blocked' = FALSE
    /\ UNCHANGED <<asks, readers>>

\* It would, after a read or a close that holds the loop.
Hang(w) ==
    /\ worker' = [worker EXCEPT ![w] = Leaving]
    /\ blocked' = TRUE
    /\ UNCHANGED <<asks, readers>>

\* call_tool gave None: execute reads what a process that has gone wrote to
\* stderr, to the end, which a child of that process may keep open.
NoResult(w) == Finish(w) \/ (cur # 0 /\ ~Running /\ Hang(w))

\* call_tool: nothing is sent to a server that is not initialized or not up.
CallTool(w, isInit) ==
    IF isInit /\ Running THEN Ask(w, cur, "call", clock) \/ AskBlocks(w)
    ELSE NoResult(w) /\ UNCHANGED pending

\* shutdown_server: the entries go, the process is terminated, its pipes are
\* closed -- before or after the threads that read them have seen what is left.
Shutdown ==
    /\ cur' = 0 /\ inited' = FALSE
    /\ live' = live \ {cur}
    /\ pending' = {q \in pending : asks[q].gen # cur}
    /\ out' \in {out, [g \in Gens |-> IF g = cur THEN <<>> ELSE out[g]]}

\* shutdown_server for a worker whose start_server fails.  stdout cannot be
\* closed as long as a thread is inside readline, and that thread gets its end
\* of file when nobody holds the other end, a child of the process included.
ShutdownFor(w) == Shutdown /\ (Finish(w) \/ (BeingRead(cur) /\ Hang(w)))

-----------------------------------------------------------------------------
(* MCPToolAdapter.execute, and start_server under it.                      *)

\* execute finds the server in _initialized, or start_server finds a process
\* that runs and takes it for initialized.
Execute(w) ==
    /\ Turn(w, "idle") /\ Len(asks) < MaxRequests
    /\ inited \/ Running
    /\ CallTool(w, inited)
    /\ UNCHANGED <<cur, live, started, inited, clock, out>>

\* Mutant: a server that runs is not looked for.
StartServer_Blind(w) ==
    /\ Turn(w, "idle") /\ ~inited
    /\ started < MaxStarts /\ Len(asks) < MaxRequests
    /\ started' = started + 1
    /\ cur' = started + 1
    /\ live' = live \cup {started + 1}
    /\ Ask(w, started + 1, "initialize", InitializeId)
    /\ UNCHANGED <<inited, clock, out>>

\* start_server: Popen, then the initialize request.
StartServer(w) ==
    /\ Turn(w, "idle") /\ ~inited /\ ~Running
    /\ started < MaxStarts /\ Len(asks) < MaxRequests
    /\ started' = started + 1
    /\ cur' = started + 1
    /\ live' = live \cup {started + 1}
    /\ Ask(w, started + 1, "initialize", InitializeId)
    /\ UNCHANGED <<inited, clock, out>>

\* Popen raises: the entry of a dead process goes.
StartFails(w) ==
    /\ Turn(w, "idle") /\ ~inited /\ ~Running
    /\ ShutdownFor(w)
    /\ UNCHANGED <<started, clock>>

\* initialize was answered: the notification, then tools/list.  A process that
\* has gone meanwhile lists no tools; start_server has succeeded all the same.
Initialized(w) ==
    /\ Turn(w, "resumed") /\ Kind(w) = "initialize" /\ worker[w].got # 0
    /\ inited' = TRUE
    /\ IF Running THEN Ask(w, cur, "list", ListId) ELSE CallTool(w, TRUE)
    /\ UNCHANGED <<cur, live, started, clock, out>>

\* No answer, or an error: the process is shut down -- whichever it is by now.
NotInitialized(w) ==
    /\ Turn(w, "resumed") /\ Kind(w) = "initialize"
    /\ ShutdownFor(w)
    /\ UNCHANGED <<started, clock>>

\* Tools or none: start_server returns True and the tool is called.
Discovered(w) ==
    /\ Turn(w, "resumed") /\ Kind(w) = "list"
    /\ CallTool(w, inited)
    /\ UNCHANGED <<cur, live, started, inited, clock, out>>

\* An answer that is no list of tools raises: start_server fails after all.
NotDiscovered(w) ==
    /\ Turn(w, "resumed") /\ Kind(w) = "list" /\ worker[w].got # 0
    /\ ShutdownFor(w)
    /\ UNCHANGED <<started, clock>>

\* A result, an error, or neither.
CallReturns(w) ==
    /\ Turn(w, "resumed") /\ Kind(w) = "call"
    /\ NoResult(w)
    /\ UNCHANGED <<cur, live, started, inited, clock, pending, out>>

\* asyncio gives up on a reader: one that waits for a thread is taken from the
\* pool, one that has a thread reads on.
DropReader(w) ==
    readers' = {r \in readers : r # worker[w].n \/ HasThread(r)}

\* Mutant: wait_for is left out for calls of tools.
TimeOut_NotCalls(w) ==
    /\ Turn(w, "waiting") /\ Kind(w) # "call"
    /\ DropReader(w)
    /\ worker' = [worker EXCEPT ![w].pc = "resumed", ![w].got = 0]
    /\ UNCHANGED <<cur, live, started, inited, clock, asks, pending, out, blocked>>

\* wait_for raises TimeoutError in _send_request, which returns None.
TimeOut(w) ==
    /\ Turn(w, "waiting")
    /\ DropReader(w)
    /\ worker' = [worker EXCEPT ![w].pc = "resumed", ![w].got = 0]
    /\ UNCHANGED <<cur, live, started, inited, clock, asks, pending, out, blocked>>

\* The worker is cancelled: CancelledError passes every except clause.
CancelWorker(w) ==
    /\ Turn(w, "waiting") \/ Turn(w, "resumed")
    /\ DropReader(w)
    /\ worker' = [worker EXCEPT ![w] = Idle]
    /\ UNCHANGED <<cur, live, started, inited, clock, asks, pending, out, blocked>>

\* remove_server or shutdown_all, by whoever owns the client.
CloseServer ==
    /\ ~blocked /\ cur # 0
    /\ Shutdown
    /\ blocked' \in {FALSE, BeingRead(cur)}
    /\ UNCHANGED <<started, clock, asks, readers, worker>>

-----------------------------------------------------------------------------
(* What ends a call that holds the loop.                                   *)

\* The server has read on: the request is out, and a reader looks for its answer.
Written(w) ==
    /\ worker[w].pc = "writing" /\ Running
    /\ pending' = pending \cup {worker[w].n}
    /\ readers' = readers \cup {worker[w].n}
    /\ worker' = [worker EXCEPT ![w] = Waiting(worker[w].n)]
    /\ blocked' = FALSE
    /\ UNCHANGED <<cur, live, started, inited, clock, asks, out>>

\* The server has gone or closed its end: _send_request returns None.
WriteFails(w) ==
    /\ worker[w].pc = "writing"
    /\ NoResult(w)
    /\ UNCHANGED <<cur, live, started, inited, clock, pending, out>>

\* The last holder of the pipe has closed it.
Leave(w) ==
    /\ worker[w].pc = "leaving"
    /\ Finish(w)
    /\ UNCHANGED <<cur, live, started, inited, clock, pending, out>>

Closed ==
    /\ blocked /\ \A w \in Workers : worker[w].pc \notin {"writing", "leaving"}
    /\ blocked' = FALSE
    /\ UNCHANGED <<cur, live, started, inited, clock, asks, pending, out, readers, worker>>

-----------------------------------------------------------------------------
(* The threads of the pool and the process.                                *)

\* The future of reader r is resolved with line l; nobody may await it now.
Deliver(r, l) ==
    worker' = [w \in Workers |->
                 IF worker[w].pc = "waiting" /\ worker[w].n = r
                 THEN [worker[w] EXCEPT !.pc = "resumed", !.got = l]
                 ELSE worker[w]]

\* Mutant: the first line that is JSON is the answer.
Matches_Any(r, l) == asks[l].gen = asks[r].gen

\* _read_json takes the line that has the id of its request.
Matches(r, l) == asks[l].id = asks[r].id

ReadLine(r) ==
    LET pipe == out[asks[r].gen] IN
    /\ HasThread(r) /\ pipe # <<>>
    /\ out' = [out EXCEPT ![asks[r].gen] = Tail(pipe)]
    /\ IF Matches(r, Head(pipe))
       THEN readers' = readers \ {r} /\ Deliver(r, Head(pipe))
       ELSE UNCHANGED <<readers, worker>>
    /\ UNCHANGED <<cur, live, started, inited, clock, asks, pending, blocked>>

\* End of file, or the pipe was closed.
ReadEof(r) ==
    /\ HasThread(r) /\ out[asks[r].gen] = <<>> /\ asks[r].gen \notin live
    /\ readers' = readers \ {r}
    /\ Deliver(r, 0)
    /\ UNCHANGED <<cur, live, started, inited, clock, asks, pending, out, blocked>>

\* The server answers its requests in any order, late or never.
ServerAnswers(q) ==
    /\ asks[q].gen \in live
    /\ pending' = pending \ {q}
    /\ out' = [out EXCEPT ![asks[q].gen] = Append(@, q)]
    /\ UNCHANGED <<cur, live, started, inited, clock, asks, readers, worker, blocked>>

ServerDies(g) ==
    /\ live' = live \ {g}
    /\ pending' = {q \in pending : asks[q].gen # g}
    /\ UNCHANGED <<cur, started, inited, clock, asks, out, readers, worker, blocked>>

Tick ==
    /\ clock < MaxClock
    /\ clock' = clock + 1
    /\ UNCHANGED <<cur, live, started, inited, asks, pending, out, readers, worker, blocked>>

-----------------------------------------------------------------------------
Resume(w) ==
    \/ Initialized(w) \/ NotInitialized(w)
    \/ Discovered(w) \/ NotDiscovered(w) \/ CallReturns(w)

Unblock(w) == Written(w) \/ WriteFails(w) \/ Leave(w)

Next ==
    \/ \E w \in Workers :
          \/ Execute(w) \/ StartServer(w) \/ StartFails(w)
          \/ Resume(w) \/ TimeOut(w) \/ CancelWorker(w) \/ Unblock(w)
    \/ \E r \in readers : ReadLine(r) \/ ReadEof(r)
    \/ \E q \in pending : ServerAnswers(q)
    \/ \E g \in live : ServerDies(g)
    \/ CloseServer \/ Closed \/ Tick

Spec == Init /\ [][Next]_vars

\* Whenever the event loop is free it resumes whoever is ready and lets the
\* timers fire that are due, all of them before it starts over.  Nothing is
\* assumed of the server, of the threads or of the end of a call that blocks.
FairSpec == Spec /\ \A w \in Workers : SF_vars(Resume(w) \/ TimeOut(w))

-----------------------------------------------------------------------------
Requests == 1 .. Len(asks)

\* Requests go to processes that were started; lines, readers and workers go
\* by requests that were sent.
TypeOK ==
    /\ started \in 0 .. MaxStarts /\ cur \in 0 .. started
    /\ live \subseteq 1 .. started /\ inited \in BOOLEAN /\ clock \in Nat
    /\ asks \in Seq([gen : 1 .. started, id : Nat,
                     kind : {"initialize", "list", "call"}])
    /\ pending \subseteq Requests /\ readers \subseteq Requests
    /\ out \in [Gens -> Seq(Requests)]
    /\ worker \in [Workers -> [pc : {"idle", "waiting", "resumed", "writing", "leaving"},
                               n : 0 .. Len(asks), got : 0 .. Len(asks)]]
    /\ \A w \in Workers : worker[w].n = 0 => worker[w] \in {Idle, Leaving}
    /\ blocked \in BOOLEAN

\* Whatever starts, fails, is cancelled and starts again at the same time, no
\* process is lost: only the one of the table can be running (start_server's
\* "kill process to prevent zombie leaks", client.py:155).
OneProcess == live \subseteq {cur}

\* Lines that come late, out of order, for requests that were given up or from
\* a process that is gone are skipped, whichever thread meets them
\* (client.py:254-257): a call returns its own answer, or that of a call to the
\* same process that was sent in the same millisecond and so has the same id.
AnswerHasMyId ==
    \A w \in Workers :
       worker[w].got # 0
          => /\ asks[worker[w].got].gen = asks[worker[w].n].gen
             /\ asks[worker[w].got].id = asks[worker[w].n].id

\* A pipe holds the lines of its own process.
LinesAreOwn ==
    \A g \in Gens : \A k \in 1 .. Len(out[g]) : asks[out[g][k]].gen = g

\* Every call of a tool returns, whatever the server and the threads do, unless
\* one blocks the loop for ever: a server that does not read its stdin, or a
\* child of a server that keeps a pipe open, takes every timer with it.
CallsReturn ==
    \/ <>[]blocked
    \/ \A w \in Workers : worker[w].pc # "idle" ~> worker[w].pc = "idle"
=============================================================================
