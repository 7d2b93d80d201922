-------------------------- MODULE McpClient_proofs --------------------------
(***************************************************************************)
(* The client never loses a process and never takes a line for the answer  *)
(* to a request it does not name, for any number of workers, threads,      *)
(* processes and requests.  OneProcess is inductive; AnswerHasMyId rests   *)
(* on LinesAreOwn, since a reader looks at the id of a line only.  What a  *)
(* step may do to requests, pipes and workers is said once, in Grows,      *)
(* PipesMove and WorkersMove; StepKeeps shows that these suffice, and each *)
(* action is shown to be such a step.  Of the liveness of calls the safe   *)
(* half is proved: whatever happens to a call brings it nearer its end.    *)
(***************************************************************************)
EXTENDS McpClient, SequenceTheorems, TLAPS

Request(n) == [gen : 1 .. n, id : Nat, kind : {"initialize", "list", "call"}]

WorkerState(n) ==
    [pc : {"idle", "waiting", "resumed", "writing", "leaving"}, n : 0 .. n, got : 0 .. n]

Inv == TypeOK /\ LinesAreOwn /\ OneProcess /\ AnswerHasMyId

Counters ==
    /\ started' \in 0 .. MaxStarts /\ cur' \in 0 .. started'
    /\ live' \subseteq 1 .. started' /\ inited' \in BOOLEAN /\ clock' \in Nat

\* Whatever is sent is added at the end; no request changes.
Grows ==
    /\ started <= started'
    /\ asks' = asks \/ \E x \in Request(started') : asks' = Append(asks, x)
    /\ pending' \subseteq Requests' /\ readers' \subseteq Requests'

\* A pipe gets a line of its process, loses its first, or is closed.
PipesMove ==
    /\ out' = [g \in Gens |-> out'[g]]
    /\ \A g \in Gens :
          \/ out'[g] = out[g]
          \/ out'[g] = <<>>
          \/ out[g] # <<>> /\ out'[g] = Tail(out[g])
          \/ \E q \in Requests : asks[q].gen = g /\ out'[g] = Append(out[g], q)

\* A worker without an answer, or one that gets the answer it waits for.
WorkersMove ==
    /\ blocked' \in BOOLEAN
    /\ worker' = [w \in Workers |-> worker'[w]]
    /\ \A w \in Workers :
          \/ worker'[w] = worker[w]
          \/ /\ worker'[w] \in WorkerState(Len(asks'))
             /\ worker'[w].got = 0
             /\ worker'[w].n = 0 => worker'[w] \in {Idle, Leaving}
          \/ \E l \in Requests :
                /\ worker'[w] = [worker[w] EXCEPT !.pc = "resumed", !.got = l]
                /\ worker[w].n \in Requests
                /\ asks[l].gen = asks[worker[w].n].gen
                /\ asks[l].id = asks[worker[w].n].id

-----------------------------------------------------------------------------
\* What growth means for the requests that were there.
LEMMA GrowthKeeps ==
    ASSUME TypeOK, Counters, Grows
    PROVE  /\ asks' \in Seq(Request(started'))
           /\ Len(asks) \in Nat /\ Len(asks') \in Nat /\ Len(asks) <= Len(asks')
           /\ Requests \subseteq Requests'
           /\ \A n \in 1 .. Len(asks) : asks'[n] = asks[n]
<1>1. Request(started) \subseteq Request(started')
  BY McpAssumption DEF TypeOK, Counters, Grows, Request
<1>2. asks \in Seq(Request(started))
  BY DEF TypeOK, Request
<1>3. asks \in Seq(Request(started'))
  BY <1>1, <1>2, SeqMonotonic
<1>4. Len(asks) \in Nat
  BY <1>2, LenProperties
<1>5. CASE asks' = asks
  BY <1>3, <1>4, <1>5 DEF Requests
<1>6. CASE \E x \in Request(started') : asks' = Append(asks, x)
  <2>1. PICK x \in Request(started') : asks' = Append(asks, x)
    BY <1>6
  <2>2. /\ asks' \in Seq(Request(started')) /\ Len(asks') = Len(asks) + 1
        /\ \A n \in 1 .. Len(asks) : asks'[n] = asks[n]
    BY <1>3, <2>1, AppendProperties
  <2> QED
    BY <1>4, <2>2 DEF Requests
<1> QED
  BY <1>5, <1>6 DEF Grows

\* Such a step keeps the types.
LEMMA StepKeepsTypes ==
    ASSUME TypeOK, Counters, Grows, PipesMove, WorkersMove
    PROVE  TypeOK'
<1>1. /\ asks' \in Seq(Request(started'))
      /\ Len(asks) \in Nat /\ Len(asks') \in Nat /\ Len(asks) <= Len(asks')
      /\ Requests \subseteq Requests'
  BY GrowthKeeps
<1>2. out' \in [Gens -> Seq(Requests')]
  <2> SUFFICES ASSUME NEW g \in Gens PROVE out'[g] \in Seq(Requests')
    BY DEF PipesMove
  <2>0. out[g] \in Seq(Requests)
    BY DEF TypeOK
  <2>1. out[g] \in Seq(Requests')
    BY <1>1, <2>0, SeqMonotonic
  <2>2. CASE out'[g] = out[g]
    BY <2>1, <2>2
  <2>3. CASE out'[g] = <<>>
    BY <2>3, EmptySeq
  <2>4. CASE out[g] # <<>> /\ out'[g] = Tail(out[g])
    BY <2>1, <2>4, HeadTailProperties
  <2>5. CASE \E q \in Requests : asks[q].gen = g /\ out'[g] = Append(out[g], q)
    BY <1>1, <2>1, <2>5, AppendProperties
  <2> QED
    BY <2>2, <2>3, <2>4, <2>5 DEF PipesMove
<1>3. \A w \in Workers : /\ worker'[w] \in WorkerState(Len(asks'))
                         /\ worker'[w].n = 0 => worker'[w] \in {Idle, Leaving}
  <2> SUFFICES ASSUME NEW w \in Workers
               PROVE  /\ worker'[w] \in WorkerState(Len(asks'))
                      /\ worker'[w].n = 0 => worker'[w] \in {Idle, Leaving}
    OBVIOUS
  <2>1. /\ worker[w] \in WorkerState(Len(asks))
        /\ worker[w].n = 0 => worker[w] \in {Idle, Leaving}
    BY DEF TypeOK, WorkerState
  <2>2. worker[w] \in WorkerState(Len(asks'))
    BY <1>1, <2>1 DEF WorkerState
  <2>3. CASE worker'[w] = worker[w]
    BY <2>1, <2>2, <2>3
  <2>4. CASE \E l \in Requests :
                /\ worker'[w] = [worker[w] EXCEPT !.pc = "resumed", !.got = l]
                /\ worker[w].n \in Requests
    <3>1. PICK l \in Requests :
                worker'[w] = [worker[w] EXCEPT !.pc = "resumed", !.got = l]
      BY <2>4
    <3>2. l \in 0 .. Len(asks')
      BY <1>1, <3>1 DEF Requests
    <3>3. worker'[w].n \in Requests
      BY <2>2, <2>4, <3>1 DEF WorkerState
    <3>4. worker'[w] \in WorkerState(Len(asks'))
      BY <2>2, <3>1, <3>2 DEF WorkerState
    <3>5. worker'[w].n # 0
      BY <1>1, <3>3 DEF Requests
    <3> QED
      BY <3>4, <3>5
  <2> QED
    BY <2>3, <2>4 DEF WorkersMove
<1>4. worker' \in [Workers -> WorkerState(Len(asks'))]
  BY <1>3 DEF WorkersMove
<1> QED
  BY <1>1, <1>2, <1>3, <1>4 DEF TypeOK, Counters, Grows, WorkersMove, Request, WorkerState, Idle,
     Leaving

\* ... the lines in their pipes ...
LEMMA StepKeepsLines ==
    ASSUME TypeOK, LinesAreOwn, Counters, Grows, PipesMove
    PROVE  LinesAreOwn'
<1>1. Requests \subseteq Requests' /\ \A n \in 1 .. Len(asks) : asks'[n] = asks[n]
  BY GrowthKeeps
<1> SUFFICES ASSUME NEW g \in Gens, NEW k \in 1 .. Len(out'[g])
             PROVE  asks'[out'[g][k]].gen = g
  BY DEF LinesAreOwn, Gens
<1>2. /\ out[g] \in Seq(Requests)
      /\ \A j \in 1 .. Len(out[g]) : asks[out[g][j]].gen = g
  BY DEF TypeOK, LinesAreOwn
<1>3. \A j \in 1 .. Len(out[g]) : asks'[out[g][j]].gen = g
  BY <1>1, <1>2, ElementOfSeq DEF Requests
<1>4. CASE out'[g] = out[g]
  BY <1>3, <1>4
<1>5. CASE out'[g] = <<>>
  BY <1>5
<1>6. CASE out[g] # <<>> /\ out'[g] = Tail(out[g])
  BY <1>2, <1>3, <1>6, HeadTailProperties, LenProperties
<1>7. CASE \E q \in Requests : asks[q].gen = g /\ out'[g] = Append(out[g], q)
  <2>1. PICK q \in Requests : asks[q].gen = g /\ out'[g] = Append(out[g], q)
    BY <1>7
  <2>2. /\ Len(out'[g]) = Len(out[g]) + 1 /\ Len(out[g]) \in Nat
        /\ \A j \in 1 .. Len(out[g]) : out'[g][j] = out[g][j]
        /\ out'[g][Len(out[g]) + 1] = q
    BY <1>2, <2>1, AppendProperties, LenProperties
  <2>3. asks'[q].gen = g
    BY <1>1, <2>1 DEF Requests
  <2> QED
    BY <1>3, <2>2, <2>3
<1> QED
  BY <1>4, <1>5, <1>6, <1>7 DEF PipesMove

\* ... and the answers with those who asked for them.
LEMMA StepKeepsAnswers ==
    ASSUME TypeOK, AnswerHasMyId, Counters, Grows, WorkersMove
    PROVE  AnswerHasMyId'
<1>1. \A n \in 1 .. Len(asks) : asks'[n] = asks[n]
  BY GrowthKeeps
<1> SUFFICES ASSUME NEW w \in Workers, worker'[w].got # 0
             PROVE  /\ asks'[worker'[w].got].gen = asks'[worker'[w].n].gen
                    /\ asks'[worker'[w].got].id = asks'[worker'[w].n].id
  BY DEF AnswerHasMyId
<1>2. Len(asks) \in Nat
  BY GrowthKeeps
<1>3. worker[w] \in WorkerState(Len(asks))
  BY DEF TypeOK, WorkerState
<1>4. CASE worker'[w] = worker[w]
  <2>1. worker[w].got \in 1 .. Len(asks)
    BY <1>2, <1>3, <1>4 DEF WorkerState
  <2>2. worker[w].n \in 1 .. Len(asks)
    BY <1>2, <1>3, <1>4 DEF WorkerState, Idle, Leaving, TypeOK
  <2> QED
    BY <1>1, <1>4, <2>1, <2>2 DEF AnswerHasMyId
<1>5. CASE \E l \in Requests :
              /\ worker'[w] = [worker[w] EXCEPT !.pc = "resumed", !.got = l]
              /\ worker[w].n \in Requests
              /\ asks[l].gen = asks[worker[w].n].gen
              /\ asks[l].id = asks[worker[w].n].id
  BY <1>1, <1>3, <1>5 DEF WorkerState, Requests
<1> QED
  BY <1>4, <1>5 DEF WorkersMove

\* Together, with what only the step itself can say of the processes.
LEMMA StepKeeps ==
    ASSUME Inv, Counters, Grows, PipesMove, WorkersMove, live' \subseteq {cur'}
    PROVE  Inv'
  BY StepKeepsTypes, StepKeepsLines, StepKeepsAnswers DEF Inv, OneProcess

-----------------------------------------------------------------------------
(* The pieces of the handlers.                                             *)

\* One more request is one more place for pending requests and readers.
LEMMA AskMoves ==
    ASSUME TypeOK, NEW w \in Workers, NEW g \in 1 .. started',
           NEW kind \in {"initialize", "list", "call"}, NEW id \in Nat,
           started' \in Nat, started <= started', Ask(w, g, kind, id)
    PROVE  Grows /\ WorkersMove
<1> DEFINE k == Len(asks) + 1
           x == [gen |-> g, id |-> id, kind |-> kind]
<1>1. asks' = Append(asks, x) /\ x \in Request(started')
  BY DEF Ask, Request
<1>2. Len(asks) \in Nat /\ Len(asks') = k
  BY <1>1, AppendProperties, LenProperties DEF TypeOK
<1>3. Requests \subseteq Requests' /\ k \in Requests'
  BY <1>2 DEF Requests
<1>4. Grows
  BY <1>1, <1>3 DEF Grows, Ask, TypeOK
<1>6. Waiting(k) \in WorkerState(Len(asks')) /\ Waiting(k).got = 0 /\ Waiting(k).n # 0
  BY <1>2 DEF Waiting, WorkerState
<1>7. worker' = [worker EXCEPT ![w] = Waiting(k)]
  BY DEF Ask
<1>8. WorkersMove
  BY <1>6, <1>7 DEF WorkersMove, TypeOK, Ask
<1> QED
  BY <1>4, <1>8

\* The same for a request that is still being written, with nobody to read yet.
LEMMA AskBlocksMoves ==
    ASSUME TypeOK, NEW w \in Workers, Running, started' = started, AskBlocks(w)
    PROVE  Grows /\ WorkersMove
<1> DEFINE k == Len(asks) + 1
           x == [gen |-> cur, id |-> clock, kind |-> "call"]
<1>1. started \in Nat /\ cur \in 1 .. started /\ clock \in Nat
  BY McpAssumption DEF TypeOK, Running
<1>2. asks' = Append(asks, x) /\ x \in Request(started')
  BY <1>1 DEF AskBlocks, Request
<1>3. Len(asks) \in Nat /\ Len(asks') = k
  BY <1>2, AppendProperties, LenProperties DEF TypeOK
<1>4. Requests \subseteq Requests'
  BY <1>3 DEF Requests
<1>5. Grows
  BY <1>1, <1>2, <1>4 DEF Grows, AskBlocks, TypeOK
<1>6. Writing(k) \in WorkerState(Len(asks')) /\ Writing(k).got = 0 /\ Writing(k).n # 0
  BY <1>3 DEF Writing, WorkerState
<1>7. worker' = [worker EXCEPT ![w] = Writing(k)] /\ blocked' \in BOOLEAN
  BY DEF AskBlocks
<1>8. WorkersMove
  BY <1>6, <1>7 DEF WorkersMove, TypeOK
<1> QED
  BY <1>5, <1>8

\* A worker whose call is over, at once or after a call that holds the loop.
LEMMA FinishMoves ==
    ASSUME TypeOK, NEW w \in Workers, started' \in Nat, started <= started',
           Finish(w) \/ Hang(w), pending' \subseteq Requests
    PROVE  Grows /\ WorkersMove
<1>1. Len(asks) \in Nat
  BY LenProperties DEF TypeOK
<1>2. /\ Idle \in WorkerState(Len(asks')) /\ Idle.got = 0
      /\ Leaving \in WorkerState(Len(asks')) /\ Leaving.got = 0
  BY <1>1 DEF Idle, Leaving, WorkerState, Finish, Hang
<1>3. Grows
  BY DEF Grows, Finish, Hang, TypeOK, Requests
<1>4. \E x \in {Idle, Leaving} : worker' = [worker EXCEPT ![w] = x] /\ blocked' \in BOOLEAN
  BY DEF Finish, Hang
<1>5. WorkersMove
  BY <1>2, <1>4 DEF WorkersMove, TypeOK
<1> QED
  BY <1>3, <1>5

LEMMA CallMoves ==
    ASSUME TypeOK, NEW w \in Workers, NEW isInit \in BOOLEAN, started' = started,
           CallTool(w, isInit)
    PROVE  Grows /\ WorkersMove
<1>1. CASE isInit /\ Running
  <2>1. cur \in 1 .. started' /\ clock \in Nat /\ started' \in Nat
    BY <1>1, McpAssumption DEF TypeOK, Running
  <2>2. CASE Ask(w, cur, "call", clock)
    BY <2>1, <2>2, AskMoves DEF TypeOK
  <2>3. CASE AskBlocks(w)
    BY <1>1, <2>3, AskBlocksMoves
  <2> QED
    BY <1>1, <2>2, <2>3 DEF CallTool
<1>2. CASE ~(isInit /\ Running)
  <2>1. (Finish(w) \/ Hang(w)) /\ pending' \subseteq Requests
    BY <1>2 DEF CallTool, NoResult, TypeOK
  <2> QED
    BY <2>1, FinishMoves, McpAssumption DEF TypeOK
<1> QED
  BY <1>1, <1>2

\* The process of the table goes, whichever it is.
LEMMA ShutdownKeeps ==
    ASSUME TypeOK, OneProcess, Shutdown, UNCHANGED <<started, clock>>
    PROVE  /\ Counters /\ PipesMove /\ live' \subseteq {cur'}
           /\ pending' \subseteq Requests
<1>0. cur' = 0 /\ inited' = FALSE /\ live' \subseteq live /\ started' = started
  BY DEF Shutdown
<1>1. Counters
  <2>1. started' \in 0 .. MaxStarts /\ cur' \in 0 .. started'
    BY <1>0, McpAssumption DEF TypeOK
  <2>2. live' \subseteq 1 .. started' /\ inited' \in BOOLEAN
    BY <1>0 DEF TypeOK
  <2>3. clock' \in Nat
    BY DEF TypeOK
  <2> QED
    BY <2>1, <2>2, <2>3 DEF Counters
<1>2. PipesMove
  BY DEF Shutdown, TypeOK, PipesMove
<1>3. live' \subseteq {cur'} /\ pending' \subseteq Requests
  BY DEF Shutdown, TypeOK, OneProcess
<1> QED
  BY <1>1, <1>2, <1>3

-----------------------------------------------------------------------------
\* What a step does that sends nothing and starts or stops no process.
LEMMA QuietStep ==
    ASSUME Inv, UNCHANGED <<cur, live, started, inited, asks>>, clock' \in Nat,
           pending' \subseteq Requests, readers' \subseteq Requests,
           PipesMove, WorkersMove
    PROVE  Inv'
<1>1. Counters /\ Grows
  BY DEF Inv, TypeOK, Counters, Grows, Requests
<1>2. live' \subseteq {cur'}
  BY DEF Inv, OneProcess
<1> QED
  BY <1>1, <1>2, StepKeeps

LEMMA Stutters ==
    ASSUME TypeOK
    PROVE  /\ UNCHANGED out => PipesMove
           /\ UNCHANGED worker /\ blocked' \in BOOLEAN => WorkersMove
  BY DEF TypeOK, PipesMove, WorkersMove

\* A worker that waits, waits for a request; resumed without an answer it is
\* as good as before.
LEMMA WaitingWorker ==
    ASSUME TypeOK, NEW w \in Workers, worker[w].pc = "waiting"
    PROVE  LET x == [worker[w] EXCEPT !.pc = "resumed", !.got = 0] IN
              /\ Len(asks) \in Nat /\ worker[w].n \in Requests
              /\ x \in WorkerState(Len(asks)) /\ x.got = 0 /\ x.n # 0
<1>1. Len(asks) \in Nat
  BY LenProperties DEF TypeOK
<1>2. worker[w] \in WorkerState(Len(asks))
  BY DEF TypeOK, WorkerState
<1>3. worker[w].n # 0
  BY DEF TypeOK, Idle, Leaving
<1>4. worker[w].n \in Requests
  BY <1>1, <1>2, <1>3 DEF WorkerState, Requests
<1> DEFINE x == [worker[w] EXCEPT !.pc = "resumed", !.got = 0]
<1>5. 0 \in 0 .. Len(asks) /\ worker[w].n \in 0 .. Len(asks)
  BY <1>1, <1>2 DEF WorkerState
<1>6. x \in WorkerState(Len(asks))
  BY <1>2, <1>5 DEF WorkerState
<1>7. x.got = 0 /\ x.n # 0
  BY <1>2, <1>3 DEF WorkerState
<1> QED
  BY <1>1, <1>4, <1>6, <1>7

-----------------------------------------------------------------------------
\* Every action is such a step.
LEMMA NextKeeps ==
    ASSUME Inv, [Next]_vars
    PROVE  Inv'
<1> USE DEF Inv
<1>0. started \in Nat /\ clock \in Nat /\ (UNCHANGED out => PipesMove)
      /\ (UNCHANGED worker /\ blocked' \in BOOLEAN => WorkersMove)
      /\ blocked \in BOOLEAN
  BY Stutters, McpAssumption DEF TypeOK
<1>1. ASSUME NEW w \in Workers, Execute(w) PROVE Inv'
  <2>1. Grows /\ WorkersMove
    BY <1>1, CallMoves DEF Execute, TypeOK
  <2>2. Counters /\ live' \subseteq {cur'}
    BY <1>1 DEF Execute, TypeOK, Counters, OneProcess
  <2> QED
    BY <1>0, <1>1, <2>1, <2>2, StepKeeps DEF Execute
<1>2. ASSUME NEW w \in Workers, StartServer(w) PROVE Inv'
  <2>1. started' = started + 1 /\ cur' = started' /\ live' = live \cup {started'}
        /\ started < MaxStarts /\ Ask(w, started', "initialize", InitializeId)
    BY <1>2 DEF StartServer
  <2>2. Grows /\ WorkersMove
    BY <1>0, <2>1, AskMoves DEF InitializeId
  <2>3. live = {}
    BY <1>2 DEF StartServer, Running, OneProcess
  <2>4. Counters
    BY <1>0, <1>2, <2>1, <2>3, McpAssumption DEF StartServer, Counters, TypeOK
  <2> QED
    BY <1>0, <1>2, <2>1, <2>2, <2>3, <2>4, StepKeeps DEF StartServer
<1>3. ASSUME NEW w \in Workers, StartFails(w) PROVE Inv'
  <2>1. Counters /\ PipesMove /\ live' \subseteq {cur'} /\ pending' \subseteq Requests
    BY <1>3, ShutdownKeeps DEF StartFails, ShutdownFor
  <2>2. Grows /\ WorkersMove
    BY <1>0, <1>3, <2>1, FinishMoves DEF StartFails, ShutdownFor
  <2> QED
    BY <2>1, <2>2, StepKeeps
<1>4. ASSUME NEW w \in Workers, Initialized(w) PROVE Inv'
  <2>1. Counters /\ live' \subseteq {cur'}
    BY <1>4 DEF Initialized, Counters, TypeOK, OneProcess
  <2>2. CASE Running
    <3>1. cur \in 1 .. started'
      BY <1>0, <1>4, <2>2 DEF Initialized, Running, TypeOK
    <3>2. Grows /\ WorkersMove
      BY <1>0, <1>4, <2>2, <3>1, AskMoves DEF Initialized, ListId
    <3> QED
      BY <1>0, <1>4, <2>1, <3>2, StepKeeps DEF Initialized
  <2>3. CASE ~Running
    <3>1. Grows /\ WorkersMove
      BY <1>4, <2>3, CallMoves DEF Initialized
    <3> QED
      BY <1>0, <1>4, <2>1, <3>1, StepKeeps DEF Initialized
  <2> QED
    BY <2>2, <2>3
<1>5. ASSUME NEW w \in Workers, NotInitialized(w) \/ NotDiscovered(w) PROVE Inv'
  <2>0. ShutdownFor(w) /\ UNCHANGED <<started, clock>>
    BY <1>5 DEF NotInitialized, NotDiscovered
  <2>1. Counters /\ PipesMove /\ live' \subseteq {cur'} /\ pending' \subseteq Requests
    BY <2>0, ShutdownKeeps DEF ShutdownFor
  <2>2. Grows /\ WorkersMove
    BY <1>0, <2>0, <2>1, FinishMoves DEF ShutdownFor
  <2> QED
    BY <2>1, <2>2, StepKeeps
<1>6. ASSUME NEW w \in Workers, Discovered(w) PROVE Inv'
  <2>1. Grows /\ WorkersMove
    BY <1>6, CallMoves DEF Discovered, TypeOK
  <2>2. Counters /\ live' \subseteq {cur'}
    BY <1>6 DEF Discovered, TypeOK, Counters, OneProcess
  <2> QED
    BY <1>0, <1>6, <2>1, <2>2, StepKeeps DEF Discovered
<1>7. ASSUME NEW w \in Workers, CallReturns(w) PROVE Inv'
  <2>1. Grows /\ WorkersMove
    BY <1>0, <1>7, FinishMoves DEF CallReturns, NoResult, TypeOK
  <2>2. Counters /\ live' \subseteq {cur'}
    BY <1>7 DEF CallReturns, TypeOK, Counters, OneProcess
  <2> QED
    BY <1>0, <1>7, <2>1, <2>2, StepKeeps DEF CallReturns
<1>8. ASSUME NEW w \in Workers, TimeOut(w) PROVE Inv'
  <2> DEFINE x == [worker[w] EXCEPT !.pc = "resumed", !.got = 0]
  <2>1. worker' = [worker EXCEPT ![w] = x] /\ worker[w].pc = "waiting" /\ asks' = asks
    BY <1>8 DEF TimeOut, Turn, TypeOK
  <2>2. x \in WorkerState(Len(asks')) /\ x.got = 0 /\ x.n # 0
    BY <2>1, WaitingWorker
  <2>3. WorkersMove
    BY <1>0, <1>8, <2>1, <2>2 DEF TypeOK, WorkersMove, TimeOut
  <2>4. pending' \subseteq Requests /\ readers' \subseteq Requests
    BY <1>8 DEF TimeOut, DropReader, TypeOK
  <2> QED
    BY <1>0, <1>8, <2>3, <2>4, QuietStep DEF TimeOut
<1>9. ASSUME NEW w \in Workers, CancelWorker(w) PROVE Inv'
  <2>1. worker' = [worker EXCEPT ![w] = Idle] /\ Len(asks) \in Nat
    BY <1>9, LenProperties DEF CancelWorker, TypeOK
  <2>idle. Idle \in WorkerState(Len(asks')) /\ Idle.got = 0
    BY <1>9, <2>1 DEF CancelWorker, WorkerState, Idle
  <2>2. WorkersMove
    BY <1>0, <1>9, <2>1, <2>idle DEF TypeOK, WorkersMove, CancelWorker
  <2>3. pending' \subseteq Requests /\ readers' \subseteq Requests
    BY <1>9 DEF CancelWorker, DropReader, TypeOK
  <2> QED
    BY <1>0, <1>9, <2>2, <2>3, QuietStep DEF CancelWorker
<1>10. ASSUME NEW r \in readers, ReadLine(r) PROVE Inv'
  <2> DEFINE g == asks[r].gen
             l == Head(out[g])
  <2>sent. r \in 1 .. Len(asks) /\ asks \in Seq(Request(started))
    BY DEF TypeOK, Requests, Request
  <2>typed. asks[r] \in Request(started)
    BY <2>sent, ElementOfSeq
  <2>1. r \in Requests /\ g \in 1 .. started
    BY <2>sent, <2>typed DEF Requests, Request
  <2>2. g \in Gens
    BY <1>0, <2>1, McpAssumption DEF Gens, TypeOK
  <2>3. out[g] # <<>> /\ out[g] \in Seq(Requests)
    BY <1>10, <2>2 DEF ReadLine, TypeOK
  <2>4. l \in Requests /\ asks[l].gen = g
    BY <2>2, <2>3, EmptySeq, HeadTailProperties DEF LinesAreOwn
  <2>5. PipesMove
    BY <1>10, <2>2, <2>3 DEF ReadLine, PipesMove, TypeOK
  <2>6. CASE Matches(r, l)
    <3>1. readers' = readers \ {r} /\ Deliver(r, l)
      BY <1>10, <2>6 DEF ReadLine
    <3>2. WorkersMove
      BY <1>0, <1>10, <2>1, <2>4, <2>6, <3>1 DEF Deliver, Matches, WorkersMove, TypeOK, ReadLine
    <3> QED
      BY <1>0, <1>10, <2>5, <3>1, <3>2, QuietStep DEF ReadLine, TypeOK
  <2>7. CASE ~Matches(r, l)
    BY <1>0, <1>10, <2>5, <2>7, QuietStep DEF ReadLine, TypeOK
  <2> QED
    BY <2>6, <2>7
<1>11. ASSUME NEW r \in readers, ReadEof(r) PROVE Inv'
  <2>1. Len(asks) \in Nat
    BY LenProperties DEF TypeOK
  <2> DEFINE x(w) == [worker[w] EXCEPT !.pc = "resumed", !.got = 0]
  <2>given. worker' = [w \in Workers |-> IF worker[w].pc = "waiting" /\ worker[w].n = r
                                     THEN x(w) ELSE worker[w]]
    BY <1>11 DEF ReadEof, Deliver
  <2>typed. \A w \in Workers : worker[w].pc = "waiting" =>
           x(w) \in WorkerState(Len(asks)) /\ x(w).got = 0 /\ x(w).n # 0
    BY WaitingWorker
  <2>2. WorkersMove
    BY <1>0, <1>11, <2>given, <2>typed DEF ReadEof, WorkersMove
  <2>3. readers' \subseteq Requests /\ pending' \subseteq Requests
    BY <1>11 DEF ReadEof, TypeOK
  <2> QED
    BY <1>0, <1>11, <2>2, <2>3, QuietStep DEF ReadEof
<1>12. ASSUME NEW q \in pending, ServerAnswers(q) PROVE Inv'
  <2>1. PipesMove
    BY <1>12 DEF ServerAnswers, PipesMove, TypeOK
  <2> QED
    BY <1>0, <1>12, <2>1, QuietStep DEF ServerAnswers, TypeOK
<1>13. ASSUME NEW g \in live, ServerDies(g) PROVE Inv'
  <2>1. Counters
    BY <1>13 DEF ServerDies, TypeOK, Counters
  <2>2. Grows
    <3>1. pending \subseteq Requests /\ readers \subseteq Requests
      BY DEF TypeOK
    <3>2. pending' \subseteq pending /\ UNCHANGED <<asks, readers, started>>
      BY <1>13 DEF ServerDies
    <3> QED
      BY <1>0, <3>1, <3>2 DEF Grows, Requests
  <2>3. live' \subseteq {cur'}
    BY <1>13 DEF ServerDies, OneProcess
  <2> QED
    BY <1>0, <1>13, <2>1, <2>2, <2>3, StepKeeps DEF ServerDies
<1>14. CASE CloseServer
  <2>1. Counters /\ PipesMove /\ live' \subseteq {cur'} /\ pending' \subseteq Requests
    BY <1>14, ShutdownKeeps DEF CloseServer
  <2>2. Grows
    BY <1>0, <1>14, <2>1 DEF CloseServer, TypeOK, Grows, Requests
  <2>3. BeingRead(cur) \in BOOLEAN
    BY Zenon DEF BeingRead
  <2>4. blocked' \in BOOLEAN
    BY <1>14, <2>3 DEF CloseServer
  <2> QED
    BY <1>0, <1>14, <2>1, <2>2, <2>4, StepKeeps DEF CloseServer
<1>15. CASE Tick \/ Closed \/ UNCHANGED vars
  <2>1. /\ UNCHANGED <<cur, live, started, inited, asks, pending, out, readers, worker>>
        /\ clock' \in Nat /\ blocked' \in BOOLEAN
    <3>1. CASE Tick
      BY <1>0, <3>1 DEF Tick
    <3>2. CASE Closed
      BY <1>0, <3>2 DEF Closed
    <3>3. CASE UNCHANGED vars
      BY <1>0, <3>3 DEF vars
    <3> QED
      BY <1>15, <3>1, <3>2, <3>3
  <2> QED
    BY <1>0, <2>1, QuietStep DEF TypeOK
<1>16. ASSUME NEW w \in Workers, Written(w) PROVE Inv'
  <2> DEFINE x == Waiting(worker[w].n)
  <2>1. worker' = [worker EXCEPT ![w] = x] /\ worker[w].pc = "writing" /\ asks' = asks
    BY <1>16 DEF Written
  <2>2. Len(asks) \in Nat /\ worker[w] \in WorkerState(Len(asks))
    BY LenProperties DEF TypeOK, WorkerState
  <2>3. worker[w].n # 0
    BY <2>1 DEF TypeOK, Idle, Leaving
  <2>4. worker[w].n \in Requests
    BY <2>2, <2>3 DEF WorkerState, Requests
  <2>5. x \in WorkerState(Len(asks')) /\ x.n # 0 /\ x.got = 0
    BY <2>1, <2>2, <2>3 DEF WorkerState, Waiting
  <2>6. WorkersMove
    BY <1>16, <2>1, <2>5 DEF WorkersMove, Written, TypeOK
  <2>7. pending' \subseteq Requests /\ readers' \subseteq Requests
    BY <1>16, <2>4 DEF Written, TypeOK
  <2> QED
    BY <1>0, <1>16, <2>6, <2>7, QuietStep DEF Written
<1>17. ASSUME NEW w \in Workers, WriteFails(w) \/ Leave(w) PROVE Inv'
  <2>0. (Finish(w) \/ Hang(w)) /\ started' = started /\ pending' \subseteq Requests
    BY <1>17 DEF WriteFails, Leave, NoResult, TypeOK
  <2>1. Grows /\ WorkersMove
    BY <1>0, <2>0, FinishMoves
  <2>2. Counters /\ live' \subseteq {cur'}
    BY <1>17 DEF WriteFails, Leave, TypeOK, Counters, OneProcess
  <2> QED
    BY <1>0, <1>17, <2>1, <2>2, StepKeeps DEF WriteFails, Leave
<1> QED
  BY <1>1, <1>2, <1>3, <1>4, <1>5, <1>6, <1>7, <1>8, <1>9, <1>10, <1>11, <1>12,
     <1>13, <1>14, <1>15, <1>16, <1>17
  DEF Next, Resume, Unblock

LEMMA InitHolds == Init => Inv
<1> SUFFICES ASSUME Init PROVE Inv
  OBVIOUS
<1>1. Len(asks) = 0 /\ asks \in Seq(Request(started))
  BY EmptySeq DEF Init
<1>2. asks \in Seq([gen : 1 .. started, id : Nat, kind : {"initialize", "list", "call"}])
  BY <1>1 DEF Request
<1>3. worker \in [Workers -> [pc : {"idle", "waiting", "resumed", "writing", "leaving"},
                             n : 0 .. Len(asks), got : 0 .. Len(asks)]]
  BY <1>1 DEF Init, Idle
<1>4. out \in [Gens -> Seq(Requests)]
  BY EmptySeq DEF Init
<1>5. started \in 0 .. MaxStarts /\ cur \in 0 .. started /\ clock \in Nat
  BY McpAssumption DEF Init, ListId
<1>6. /\ live \subseteq 1 .. started /\ inited \in BOOLEAN
      /\ pending \subseteq Requests /\ readers \subseteq Requests
  BY DEF Init
<1>7. (\A w \in Workers : worker[w] = Idle) /\ blocked \in BOOLEAN
  BY DEF Init
<1>8. TypeOK
  BY <1>2, <1>3, <1>4, <1>5, <1>6, <1>7 DEF TypeOK
<1>9. LinesAreOwn /\ OneProcess /\ AnswerHasMyId
  BY DEF Init, LinesAreOwn, OneProcess, AnswerHasMyId, Idle, Gens
<1> QED
  BY <1>8, <1>9 DEF Inv

\* The inductive invariant: requests, pipes, readers and workers refer to each
\* other within bounds, and lines stay in the pipe of the process they are from.
THEOREM McpInvariant == Spec => []Inv
  BY InitHolds, NextKeeps, PTL DEF Spec

\* Whatever starts, fails, is cancelled or dies at the same time, at most the
\* process of the table runs (McpClient.start_server, shutdown_server).
THEOREM McpOneProcess == Spec => []OneProcess
  BY McpInvariant, PTL DEF Inv

\* Every result belongs to a request to the same process under the same id
\* (McpClient._read_json), however late or crossed the lines come.
THEOREM McpAnswersMatch == Spec => []AnswerHasMyId
  BY McpInvariant, PTL DEF Inv
-----------------------------------------------------------------------------
(* What the calls do: each waits for at most three answers, one after the  *)
(* other.                                                                  *)

\* The answers a worker may still wait for, the one it waits for included.
Waits == [initialize |-> 3, list |-> 2, call |-> 1]

\* Steps that are left to a worker.
Rank == [writing |-> 1, waiting |-> 0, resumed |-> -1]
Distance(w) ==
    CASE worker[w].pc = "idle"    -> 0
      [] worker[w].pc = "leaving" -> 1
      [] OTHER                    -> 3 * Waits[Kind(w)] + Rank[worker[w].pc]

\* Whatever happens to a worker inside a call brings the call nearer its end:
\* its request is written, its answer comes or its timer fires, it goes on to
\* the next request of the three, or it is over.  No failure, shutdown or restart
\* by another worker, and no call that holds the loop, sends it back to an
\* earlier one (MCPToolAdapter.execute to call_tool).
CallsWindDown ==
    \A w \in Workers :
       worker[w].pc # "idle" /\ worker'[w] # worker[w]
          => Distance(w)' < Distance(w)

\* A worker in a call stays, ends, is written or resumed, or sends the next
\* request.
GoesOn(w) ==
    \/ worker'[w] = worker[w]
    \/ worker'[w] = Idle
    \/ worker'[w] = Leaving /\ worker[w].pc # "leaving"
    \/ /\ worker[w].pc = "writing" /\ worker'[w].pc = "waiting"
       /\ worker'[w].n = worker[w].n
    \/ /\ worker[w].pc = "waiting" /\ worker'[w].pc = "resumed"
       /\ worker'[w].n = worker[w].n
    \/ /\ worker[w].pc = "resumed"
       /\ \E kind \in {"list", "call"} : \E g, id :
             /\ Waits[kind] < Waits[Kind(w)]
             /\ worker'[w] \in {Waiting(Len(asks) + 1), Writing(Len(asks) + 1)}
             /\ asks' = Append(asks, [gen |-> g, id |-> id, kind |-> kind])

\* A worker in a call that is not about to end it is at a request that was sent.
LEMMA BusyWorker ==
    ASSUME TypeOK, NEW w \in Workers, worker[w].pc \notin {"idle", "leaving"}
    PROVE  /\ Len(asks) \in Nat /\ worker[w].n \in 1 .. Len(asks)
           /\ worker[w].pc \in {"writing", "waiting", "resumed"}
           /\ Kind(w) \in {"initialize", "list", "call"}
<1>1. Len(asks) \in Nat
  BY LenProperties DEF TypeOK
<1>2. worker[w] \in WorkerState(Len(asks)) /\ worker[w].n # 0
  BY DEF TypeOK, WorkerState, Idle, Leaving
<1>3. worker[w].n \in 1 .. Len(asks)
  BY <1>1, <1>2 DEF WorkerState
<1> asks \in Seq(Request(started))
  BY DEF TypeOK, Request
<1>4. asks[worker[w].n] \in Request(started)
  BY <1>3, ElementOfSeq
<1> QED
  BY <1>1, <1>2, <1>3, <1>4 DEF Kind, Request, WorkerState

\* How far a call is at least from its end.
LEMMA BusyDistance ==
    ASSUME TypeOK, NEW w \in Workers, worker[w].pc # "idle"
    PROVE  /\ Distance(w) >= 1 /\ Distance(w) \in Nat
           /\ worker[w].pc # "leaving" =>
                 /\ Distance(w) = 3 * Waits[Kind(w)] + Rank[worker[w].pc]
                 /\ Waits[Kind(w)] \in 1 .. 3 /\ Distance(w) >= 2
<1>1. CASE worker[w].pc = "leaving"
  BY <1>1 DEF Distance
<1>2. CASE worker[w].pc # "leaving"
  <2>1. worker[w].pc \in {"writing", "waiting", "resumed"} /\ Waits[Kind(w)] \in 1 .. 3
    BY <1>2, BusyWorker DEF Waits
  <2>2. Rank[worker[w].pc] \in {-1, 0, 1}
    BY <2>1 DEF Rank
  <2>3. Distance(w) = 3 * Waits[Kind(w)] + Rank[worker[w].pc]
    BY <1>2 DEF Distance
  <2> QED
    BY <2>1, <2>2, <2>3
<1> QED
  BY <1>1, <1>2

\* Such a move is a move towards the end.
LEMMA GoingOnWindsDown ==
    ASSUME TypeOK, NEW w \in Workers, worker[w].pc # "idle",
           worker'[w] # worker[w], GoesOn(w),
           \A n \in 1 .. Len(asks) : asks'[n] = asks[n]
    PROVE  Distance(w)' < Distance(w)
<1>1. /\ Distance(w) >= 1 /\ Distance(w) \in Nat
      /\ worker[w].pc # "leaving" =>
            /\ Distance(w) = 3 * Waits[Kind(w)] + Rank[worker[w].pc]
            /\ Waits[Kind(w)] \in 1 .. 3 /\ Distance(w) >= 2
  BY BusyDistance
<1>2. CASE worker'[w] = Idle
  <2>1. Distance(w)' = 0
    BY <1>2 DEF Distance, Idle
  <2> QED
    BY <1>1, <2>1
<1>3. CASE worker'[w] = Leaving /\ worker[w].pc # "leaving"
  <2>1. Distance(w)' = 1
    BY <1>3 DEF Distance, Leaving
  <2> QED
    BY <1>1, <1>3, <2>1
<1>4. ASSUME NEW p, NEW q, worker[w].pc = p, worker'[w].pc = q, worker'[w].n = worker[w].n,
             <<p, q>> \in {<<"writing", "waiting">>, <<"waiting", "resumed">>}
      PROVE  Distance(w)' < Distance(w)
  <2>1. worker[w].n \in 1 .. Len(asks)
    BY <1>4, BusyWorker
  <2>2. Kind(w)' = Kind(w)
    BY <1>4, <2>1 DEF Kind
  <2>3. Distance(w)' = 3 * Waits[Kind(w)] + Rank[q]
    BY <1>4, <2>2 DEF Distance
  <2>4. Rank[q] \in {-1, 0} /\ Rank[p] = Rank[q] + 1
    BY <1>4 DEF Rank
  <2> QED
    BY <1>1, <1>4, <2>3, <2>4
<1>5. ASSUME worker[w].pc = "resumed",
             NEW kind \in {"list", "call"}, NEW g, NEW id,
             Waits[kind] < Waits[Kind(w)],
             worker'[w] \in {Waiting(Len(asks) + 1), Writing(Len(asks) + 1)},
             asks' = Append(asks, [gen |-> g, id |-> id, kind |-> kind])
      PROVE  Distance(w)' < Distance(w)
  <2>0. Len(asks) \in Nat
    BY LenProperties DEF TypeOK
  <2>1. asks'[Len(asks) + 1].kind = kind
    BY <2>0, <1>5, AppendProperties DEF TypeOK
  <2>2. Kind(w)' = kind /\ worker'[w].pc \in {"waiting", "writing"}
    BY <1>5, <2>1 DEF Kind, Waiting, Writing
  <2>3. Waits[kind] \in 1 .. 3
    BY <1>5 DEF Waits
  <2>4. Distance(w)' = 3 * Waits[kind] + Rank[worker'[w].pc]
    BY <2>2 DEF Distance
  <2>5. Rank[worker'[w].pc] \in {0, 1} /\ Rank["resumed"] = -1
    BY <2>2 DEF Rank
  <2> QED
    BY <1>1, <1>5, <2>3, <2>4, <2>5
<1> QED
  BY <1>2, <1>3, <1>4, <1>5 DEF GoesOn

\* The end of a call is such a move, at once or after a call that holds the loop.
LEMMA EndGoesOn ==
    ASSUME TypeOK, NEW w \in Workers,
           worker' = [worker EXCEPT ![w] = Idle]
              \/ (worker' = [worker EXCEPT ![w] = Leaving] /\ worker[w].pc # "leaving")
    PROVE  \A v \in Workers : GoesOn(v)
  BY DEF TypeOK, GoesOn

\* So is the next request, as long as it is a later one of the three.
LEMMA CallGoesOn ==
    ASSUME NEW w \in Workers, NEW isInit \in BOOLEAN, TypeOK, CallTool(w, isInit),
           worker[w].pc = "resumed", Kind(w) \in {"initialize", "list"}
    PROVE  \A v \in Workers : GoesOn(v)
<1>1. worker = [v \in Workers |-> worker[v]]
  BY DEF TypeOK
<1>2. CASE isInit /\ Running
  <2>1. Waits["call"] < Waits[Kind(w)]
    BY DEF Waits
  <2>2. \E x \in {Waiting(Len(asks) + 1), Writing(Len(asks) + 1)} :
           worker' = [worker EXCEPT ![w] = x]
    BY <1>2 DEF CallTool, Ask, AskBlocks
  <2>3. asks' = Append(asks, [gen |-> cur, id |-> clock, kind |-> "call"])
    BY <1>2 DEF CallTool, Ask, AskBlocks
  <2> QED
    BY <1>1, <2>1, <2>2, <2>3 DEF GoesOn
<1>3. CASE ~(isInit /\ Running)
  BY <1>3, EndGoesOn DEF CallTool, NoResult, Finish, Hang
<1> QED
  BY <1>2, <1>3

\* A step of one worker that is not in a call.
LEMMA BeginGoesOn ==
    ASSUME TypeOK, NEW w \in Workers, worker[w].pc = "idle", NEW x,
           worker' = [worker EXCEPT ![w] = x]
    PROVE  \A v \in Workers : worker[v].pc # "idle" => GoesOn(v)
  BY DEF TypeOK, GoesOn

\* An answer, or the end of a pipe, that comes to the worker that waits for it.
LEMMA DeliveryGoesOn ==
    ASSUME TypeOK, NEW r, NEW l, Deliver(r, l)
    PROVE  \A v \in Workers : GoesOn(v)
<1> TAKE v \in Workers
<1>1. CASE worker[v].pc = "waiting" /\ worker[v].n = r
  <2>1. worker'[v] = [worker[v] EXCEPT !.pc = "resumed", !.got = l]
    BY <1>1 DEF Deliver
  <2> QED
    BY <1>1, <2>1 DEF GoesOn, TypeOK
<1>2. CASE ~(worker[v].pc = "waiting" /\ worker[v].n = r)
  BY <1>2 DEF Deliver, GoesOn
<1> QED
  BY <1>1, <1>2

\* Every action, as a worker in a call sees it.
LEMMA NextGoesOn ==
    ASSUME TypeOK, [Next]_vars
    PROVE  \A v \in Workers : worker[v].pc # "idle" => GoesOn(v)
<1> USE DEF TypeOK, Turn
<1>1. ASSUME NEW w \in Workers, Execute(w) PROVE \A v \in Workers : worker[v].pc # "idle" => GoesOn(v)
  <2>1. \E x : worker' = [worker EXCEPT ![w] = x]
    BY <1>1 DEF Execute, CallTool, NoResult, Ask, AskBlocks, Finish, Hang
  <2> QED
    BY <1>1, <2>1, BeginGoesOn DEF Execute
<1>2. ASSUME NEW w \in Workers, StartServer(w) \/ StartFails(w)
      PROVE  \A v \in Workers : worker[v].pc # "idle" => GoesOn(v)
  <2>1. worker[w].pc = "idle" /\ \E x : worker' = [worker EXCEPT ![w] = x]
    BY <1>2 DEF StartServer, StartFails, ShutdownFor, Ask, Finish, Hang
  <2> QED
    BY <2>1, BeginGoesOn
<1>3. ASSUME NEW w \in Workers, Initialized(w) PROVE \A v \in Workers : GoesOn(v)
  <2>1. worker[w].pc = "resumed" /\ Kind(w) = "initialize"
    BY <1>3 DEF Initialized
  <2>2. CASE Running
    <3>1. Waits["list"] < Waits[Kind(w)]
      BY <2>1 DEF Waits
    <3>2. worker' = [worker EXCEPT ![w] = Waiting(Len(asks) + 1)]
          /\ asks' = Append(asks, [gen |-> cur, id |-> ListId, kind |-> "list"])
      BY <1>3, <2>2 DEF Initialized, Ask
    <3> QED
      BY <2>1, <3>1, <3>2 DEF GoesOn
  <2>3. CASE ~Running
    BY <1>3, <2>1, <2>3, CallGoesOn DEF Initialized
  <2> QED
    BY <2>2, <2>3
<1>4. ASSUME NEW w \in Workers, Discovered(w) PROVE \A v \in Workers : GoesOn(v)
  BY <1>4, CallGoesOn DEF Discovered
<1>5. ASSUME NEW w \in Workers,
             \/ NotInitialized(w) \/ NotDiscovered(w) \/ CallReturns(w) \/ CancelWorker(w)
             \/ WriteFails(w) \/ Leave(w)
      PROVE  \A v \in Workers : GoesOn(v)
  <2>1. \/ worker' = [worker EXCEPT ![w] = Idle]
        \/ worker' = [worker EXCEPT ![w] = Leaving] /\ worker[w].pc # "leaving"
    BY <1>5 DEF NotInitialized, NotDiscovered, CallReturns, CancelWorker, WriteFails, Leave,
       ShutdownFor, NoResult, Finish, Hang
  <2> QED
    BY <2>1, EndGoesOn
<1>6. ASSUME NEW w \in Workers, TimeOut(w) \/ Written(w) PROVE \A v \in Workers : GoesOn(v)
  <2>1. CASE TimeOut(w)
    <3>1. /\ worker[w].pc = "waiting"
          /\ worker' = [worker EXCEPT ![w].pc = "resumed", ![w].got = 0]
      BY <2>1 DEF TimeOut
    <3> QED
      BY <3>1 DEF GoesOn
  <2>2. CASE Written(w)
    <3>1. worker[w].pc = "writing" /\ worker' = [worker EXCEPT ![w] = Waiting(worker[w].n)]
      BY <2>2 DEF Written
    <3> QED
      BY <3>1 DEF GoesOn, Waiting
  <2> QED
    BY <1>6, <2>1, <2>2
<1>7. ASSUME NEW r \in readers, ReadLine(r) \/ ReadEof(r) PROVE \A v \in Workers : GoesOn(v)
  <2>1. UNCHANGED worker \/ \E l : Deliver(r, l)
    BY <1>7 DEF ReadLine, ReadEof
  <2> QED
    BY <2>1, DeliveryGoesOn DEF GoesOn
<1>8. ASSUME \/ \E q \in pending : ServerAnswers(q)
             \/ \E g \in live : ServerDies(g)
             \/ CloseServer \/ Closed \/ Tick \/ UNCHANGED vars
      PROVE  \A v \in Workers : GoesOn(v)
  BY <1>8 DEF ServerAnswers, ServerDies, CloseServer, Closed, Tick, vars, GoesOn
<1> QED
  BY <1>1, <1>2, <1>3, <1>4, <1>5, <1>6, <1>7, <1>8 DEF Next, Resume, Unblock

\* Once a request was sent it stays what it is, in every step.
LEMMA RequestsStay ==
    ASSUME TypeOK, [Next]_vars
    PROVE  \A n \in 1 .. Len(asks) : asks'[n] = asks[n]
<1>1. asks' = asks \/ \E x : asks' = Append(asks, x)
  BY DEF Next, vars, Resume, Unblock, Execute, StartServer, StartFails, Initialized, NotInitialized,
         Discovered, NotDiscovered, CallReturns, TimeOut, CancelWorker, Written, WriteFails, Leave,
         ReadLine, ReadEof, ServerAnswers, ServerDies, CloseServer, Closed, Tick,
         CallTool, NoResult, ShutdownFor, Ask, AskBlocks, Finish, Hang
<1>2. asks \in Seq(Request(started))
  BY DEF TypeOK, Request
<1> QED
  BY <1>1, <1>2, AppendProperties DEF TypeOK

\* The safe half of "every call returns" (CallsReturn, which TLC checks): a call
\* takes at most nine steps of its worker, so it can only hang by standing still.
THEOREM McpCallsWindDown == Spec => [][CallsWindDown]_vars
<1>1. TypeOK /\ [Next]_vars => [CallsWindDown]_vars
  BY NextGoesOn, RequestsStay, GoingOnWindsDown DEF CallsWindDown
<1>2. Spec => []TypeOK
  BY McpInvariant, PTL DEF Inv
<1> QED
  BY <1>1, <1>2, PTL DEF Spec
=============================================================================
