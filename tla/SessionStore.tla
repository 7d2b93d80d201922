---------------------------- MODULE SessionStore ----------------------------
(***************************************************************************)
(* Sessions and their runs in ~/.harness/sessions.db, shared by            *)
(* interactive shells and by the one-shot `harness session` commands.      *)
(* A command of SessionManager is several storage calls, each a            *)
(* transaction of its own: it reads the row, checks the transition in      *)
(* memory, writes the row, records an event.  Another process may run, or  *)
(* this one may fail or die, between any two of them.                      *)
(***************************************************************************)
EXTENDS Naturals, FiniteSets

CONSTANTS
    Shells,       \* interactive shells (cli/interactive.py)
    Clis,         \* one-shot commands (cli/main.py)
    Sessions,     \* session ids
    Runs,         \* run ids
    Commands,     \* the lifecycle commands users have
    NoSession, NoRun,
    MaxFaults     \* bound: crashes and storage errors of a behaviour

ASSUME SessionAssumption ==
    /\ Shells \cap Clis = {}
    /\ NoSession \notin Sessions
    /\ NoRun \notin Runs
    /\ Commands \subseteq
          {"pause", "resume", "complete", "fail", "abort", "archive"}
    /\ MaxFaults \in Nat

VARIABLES
    sess,     \* session id -> status of its row, "none" or "deleted"
    runs,     \* run id -> [st, sid] of its row
    log,      \* session_events: [sid, run, type]
    mem,      \* sessions with rows in the memory table
    proc,     \* process -> where its command is and what it has read
    done,     \* every write that took effect, for the properties
    lost,     \* run id -> why nobody will ever end it, for the properties
    faults

vars == <<sess, runs, log, mem, proc, done, lost, faults>>

Procs == Shells \cup Clis

Status == {"active", "paused", "completed", "failed", "aborted", "archived"}
RunEnds == {"completed", "failed", "interrupted"}

SessionTransitions ==
    [active    |-> {"paused", "completed", "failed", "aborted"},
     paused    |-> {"active", "aborted", "archived"},
     completed |-> {"archived"},
     failed    |-> {"active", "archived"},
     aborted   |-> {"archived"},
     archived  |-> {}]

RunTransitions ==
    [running     |-> RunEnds,
     completed   |-> {},
     failed      |-> {},
     interrupted |-> {}]

Target ==
    [pause |-> "paused", resume |-> "active", complete |-> "completed",
     fail |-> "failed", abort |-> "aborted", archive |-> "archived"]

RunTarget ==
    [complete |-> "completed", fail |-> "failed", interrupt |-> "interrupted"]

Idle == [pc |-> "idle", cmd |-> "none", sid |-> NoSession, run |-> NoRun,
         seen |-> "none", was |-> NoSession]

\* A shell between two tasks; a one-shot command is over.
Rest(p) == IF p \in Shells
           THEN [proc[p] EXCEPT !.pc = "shell", !.cmd = "none", !.run = NoRun,
                                !.seen = "none", !.was = NoSession]
           ELSE Idle

Exists(s) == s \in Sessions /\ sess[s] \in Status
RunExists(r) == r \in Runs /\ runs[r].st \in DOMAIN RunTransitions

\* The event a command records: of the session, or of the run it is about.
EventOf(p) == [sid |-> proc[p].sid, run |-> proc[p].run, type |-> proc[p].cmd]

Init ==
    /\ sess = [s \in Sessions |-> "none"]
    /\ runs = [r \in Runs |-> [st |-> "none", sid |-> NoSession]]
    /\ log = {} /\ mem = {} /\ done = {}
    /\ proc = [p \in Procs |-> Idle]
    /\ lost = [r \in Runs |-> "no"]
    /\ faults = 0

-----------------------------------------------------------------------------
(* Commands on a session.                                                  *)

\* A shell that is set up creates a session only when none is active or
\* paused; later, or by a one-shot command, one is created when a user asks.
MayCreate(p) ==
    \/ p \in Clis /\ proc[p].pc = "idle"
    \/ p \in Shells /\ proc[p].pc = "shell"
    \/ /\ p \in Shells /\ proc[p].pc = "idle"
       /\ \A t \in Sessions : sess[t] \notin {"active", "paused"}

\* create_session: the row is inserted, the event comes next.
CreateSession(p, s) ==
    /\ MayCreate(p)
    /\ sess[s] = "none"
    /\ sess' = [sess EXCEPT ![s] = "active"]
    /\ done' = done \cup {[sid |-> s, run |-> NoRun, type |-> "create"]}
    /\ proc' = [proc EXCEPT ![p] = [Idle EXCEPT !.pc = "log", !.cmd = "create",
                                                !.sid = s, !.was = proc[p].sid]]
    /\ UNCHANGED <<runs, log, mem, lost, faults>>

\* A shell takes up a session that is active or paused; it leaves the row.
AttachSession(p, s) ==
    /\ p \in Shells /\ proc[p].pc = "idle"
    /\ sess[s] \in {"active", "paused"}
    /\ proc' = [proc EXCEPT ![p] = [Idle EXCEPT !.pc = "shell", !.sid = s]]
    /\ UNCHANGED <<sess, runs, log, mem, done, lost, faults>>

(* Mutant: the event is recorded before the row is written. *)
ReadSession_LogsFirst(p, cmd, s) ==
    /\ p \in Clis /\ proc[p].pc = "idle" /\ cmd \in Commands
    /\ Exists(s)
    /\ Target[cmd] \in SessionTransitions[sess[s]]
    /\ log' = log \cup {[sid |-> s, run |-> NoRun, type |-> cmd]}
    /\ proc' = [proc EXCEPT ![p] = [Idle EXCEPT !.pc = "write", !.cmd = cmd,
                                                !.sid = s, !.seen = sess[s]]]
    /\ UNCHANGED <<sess, runs, mem, done, lost, faults>>

(* Mutant: the status is set without transition_to. *)
ReadSession_Unchecked(p, cmd, s) ==
    /\ p \in Clis /\ proc[p].pc = "idle" /\ cmd \in Commands
    /\ Exists(s)
    /\ proc' = [proc EXCEPT ![p] = [Idle EXCEPT !.pc = "write", !.cmd = cmd,
                                                !.sid = s, !.seen = sess[s]]]
    /\ UNCHANGED <<sess, runs, log, mem, done, lost, faults>>

\* pause_session ... archive_session: get_session and transition_to.
ReadSession(p, cmd, s) ==
    /\ p \in Clis /\ proc[p].pc = "idle" /\ cmd \in Commands
    /\ Exists(s)
    /\ Target[cmd] \in SessionTransitions[sess[s]]
    /\ proc' = [proc EXCEPT ![p] = [Idle EXCEPT !.pc = "write", !.cmd = cmd,
                                                !.sid = s, !.seen = sess[s]]]
    /\ UNCHANGED <<sess, runs, log, mem, done, lost, faults>>

\* update_session writes the row unconditionally, or finds none to write.
WriteSession(p) ==
    /\ proc[p].pc = "write"
    /\ LET s == proc[p].sid IN
          IF Exists(s)
          THEN /\ sess' = [sess EXCEPT ![s] = Target[proc[p].cmd]]
               /\ done' = done \cup {EventOf(p)}
          ELSE UNCHANGED <<sess, done>>
    /\ proc' = [proc EXCEPT ![p].pc = "log"]
    /\ UNCHANGED <<runs, log, mem, lost, faults>>

\* `session delete` looks the session up and asks its user ...
AskDelete(p, s) ==
    /\ p \in Clis /\ proc[p].pc = "idle" /\ Exists(s)
    /\ proc' = [proc EXCEPT ![p] = [Idle EXCEPT !.pc = "confirm", !.sid = s]]
    /\ UNCHANGED <<sess, runs, log, mem, done, lost, faults>>

\* ... and deletes the rows of all five tables in one transaction.
DeleteSession(p) ==
    /\ proc[p].pc = "confirm"
    /\ LET s == proc[p].sid IN
          /\ sess' = [sess EXCEPT ![s] = "deleted"]
          /\ runs' = [r \in Runs |-> IF runs[r].sid = s
                                     THEN [runs[r] EXCEPT !.st = "deleted"]
                                     ELSE runs[r]]
          /\ log' = {e \in log : e.sid # s}
          /\ mem' = mem \ {s}
    /\ proc' = [proc EXCEPT ![p] = Idle]
    /\ UNCHANGED <<done, lost, faults>>

Decline(p) ==
    /\ proc[p].pc = "confirm"
    /\ proc' = [proc EXCEPT ![p] = Idle]
    /\ UNCHANGED <<sess, runs, log, mem, done, lost, faults>>

MayAddMemory(p, s) ==
    \/ p \in Clis /\ proc[p].pc = "idle"
    \/ p \in Shells /\ proc[p].pc = "shell" /\ proc[p].sid = s

\* add_memory inserts for whatever id it is given.
AddMemory(p, s) ==
    /\ MayAddMemory(p, s)
    /\ mem' = mem \cup {s}
    /\ done' = done \cup {[sid |-> s, run |-> NoRun, type |-> "memory"]}
    /\ proc' = [proc EXCEPT ![p] = [Idle EXCEPT !.pc = "log", !.cmd = "memory",
                                                !.sid = s]]
    /\ UNCHANGED <<sess, runs, log, lost, faults>>

-----------------------------------------------------------------------------
(* Runs.                                                                   *)

\* start_run looks the session up, whatever its status.
StartRun(p) ==
    /\ p \in Shells /\ proc[p].pc = "shell" /\ Exists(proc[p].sid)
    /\ proc' = [proc EXCEPT ![p].pc = "insert", ![p].cmd = "start"]
    /\ UNCHANGED <<sess, runs, log, mem, done, lost, faults>>

InsertRun(p, r) ==
    /\ proc[p].pc = "insert"
    /\ runs[r].st = "none"
    /\ runs' = [runs EXCEPT ![r] = [st |-> "running", sid |-> proc[p].sid]]
    /\ done' = done \cup {[sid |-> proc[p].sid, run |-> r, type |-> "start"]}
    /\ proc' = [proc EXCEPT ![p].pc = "log", ![p].run = r]
    /\ UNCHANGED <<sess, log, mem, lost, faults>>

(* Mutant: a cancelled task is not recorded. *)
FinishTask_IgnoresCancel(p, how) ==
    /\ proc[p].pc = "exec"
    /\ proc' = [proc EXCEPT ![p] = IF how = "interrupt" THEN Rest(p)
                                   ELSE [@ EXCEPT !.pc = "endread", !.cmd = how]]
    /\ UNCHANGED <<sess, runs, log, mem, done, lost, faults>>

\* The task is over: execute_interactive returned, was cancelled, or raised.
FinishTask(p, how) ==
    /\ proc[p].pc = "exec"
    /\ proc' = [proc EXCEPT ![p].pc = "endread", ![p].cmd = how]
    /\ UNCHANGED <<sess, runs, log, mem, done, lost, faults>>

(* Mutant: an ended run may be ended again. *)
ReadRun_Unchecked(p) ==
    /\ proc[p].pc = "endread"
    /\ LET r == proc[p].run IN
          proc' = [proc EXCEPT ![p] =
                      IF RunExists(r)
                      THEN [@ EXCEPT !.pc = "endwrite"]
                      ELSE Rest(p)]
    /\ UNCHANGED <<sess, runs, log, mem, done, lost, faults>>

\* complete_run, interrupt_run, fail_run: get_run and transition_to; their
\* ValueError is swallowed by the shell.
ReadRun(p) ==
    /\ proc[p].pc = "endread"
    /\ LET r == proc[p].run IN
          proc' = [proc EXCEPT ![p] =
                      IF /\ RunExists(r)
                         /\ RunTarget[proc[p].cmd] \in RunTransitions[runs[r].st]
                      THEN [@ EXCEPT !.pc = "endwrite"]
                      ELSE Rest(p)]
    /\ UNCHANGED <<sess, runs, log, mem, done, lost, faults>>

WriteRun(p) ==
    /\ proc[p].pc = "endwrite"
    /\ LET r == proc[p].run IN
          IF RunExists(r)
          THEN /\ runs' = [runs EXCEPT ![r].st = RunTarget[proc[p].cmd]]
               /\ done' = done \cup {EventOf(p)}
          ELSE UNCHANGED <<runs, done>>
    /\ proc' = [proc EXCEPT ![p].pc = "log"]
    /\ UNCHANGED <<sess, log, mem, lost, faults>>

(* Mutant: Ctrl+C leaves complete_run and nothing else is done. *)
CtrlC_Leaves(p) ==
    /\ proc[p].cmd = "complete" /\ p \in Shells
    /\ proc[p].pc \in {"endread", "endwrite", "log"}
    /\ proc' = [proc EXCEPT ![p] = Rest(p)]
    /\ UNCHANGED <<sess, runs, log, mem, done, lost, faults>>

\* Ctrl+C while the result is shown or complete_run is at work: the handler
\* around both calls interrupt_run.
CtrlC(p) ==
    /\ proc[p].cmd = "complete" /\ p \in Shells
    /\ proc[p].pc \in {"endread", "endwrite", "log"}
    /\ proc' = [proc EXCEPT ![p].pc = "endread", ![p].cmd = "interrupt"]
    /\ UNCHANGED <<sess, runs, log, mem, done, lost, faults>>

-----------------------------------------------------------------------------
(* The last call of every command, and what can go wrong.                  *)

\* _emit_event; no foreign key is enforced on the row it inserts.
EmitEvent(p) ==
    /\ proc[p].pc = "log"
    /\ log' = log \cup {EventOf(p)}
    /\ proc' = [proc EXCEPT ![p] = IF @.cmd = "start"
                                   THEN [@ EXCEPT !.pc = "exec"]
                                   ELSE Rest(p)]
    /\ UNCHANGED <<sess, runs, mem, done, lost, faults>>

Abandon(p, why) ==
    LET r == proc[p].run IN
       lost' = IF RunExists(r) /\ runs[r].st = "running"
               THEN [lost EXCEPT ![r] = why] ELSE lost

\* A storage call raises (the database is locked for 10 s, the disk is
\* full): a shell swallows it and goes on, with the session it had if it was
\* about to get another, and without its run if it was about to get one.
StorageError(p) ==
    /\ proc[p].pc \in {"write", "insert", "log", "endread", "endwrite", "confirm"}
    /\ faults < MaxFaults
    /\ faults' = faults + 1
    /\ Abandon(p, "fault")
    /\ proc' = [proc EXCEPT ![p] = IF @.cmd = "create" /\ p \in Shells
                                   THEN [Rest(p) EXCEPT !.sid = proc[p].was]
                                   ELSE Rest(p)]
    /\ UNCHANGED <<sess, runs, log, mem, done>>

\* A KeyboardInterrupt that nobody catches: in start_run, in a handler that
\* records the other ends (`except Exception` lets it pass), or in a command
\* on a session.  InteractiveShell.run ends with it.
CtrlCEscapes(p) ==
    /\ p \in Shells /\ proc[p].cmd # "complete"
    /\ proc[p].pc \in {"insert", "log", "endread", "endwrite"}
    /\ Abandon(p, "ctrl+c")
    /\ proc' = [proc EXCEPT ![p] = Idle]
    /\ UNCHANGED <<sess, runs, log, mem, done, faults>>

\* The process is killed; to a one-shot command Ctrl+C does the same.
Crash(p) ==
    /\ proc[p].pc # "idle"
    /\ faults < MaxFaults
    /\ faults' = faults + 1
    /\ Abandon(p, "crash")
    /\ proc' = [proc EXCEPT ![p] = Idle]
    /\ UNCHANGED <<sess, runs, log, mem, done>>

ExitShell(p) ==
    /\ p \in Shells /\ proc[p].pc = "shell"
    /\ proc' = [proc EXCEPT ![p] = Idle]
    /\ UNCHANGED <<sess, runs, log, mem, done, lost, faults>>

-----------------------------------------------------------------------------
Continue(p) ==
    \/ WriteSession(p) \/ EmitEvent(p) \/ ReadRun(p) \/ WriteRun(p)
    \/ \E how \in DOMAIN RunTarget : FinishTask(p, how)

Next ==
    \E p \in Procs :
       \/ Continue(p) \/ StartRun(p) \/ CtrlC(p) \/ DeleteSession(p) \/ Decline(p)
       \/ StorageError(p) \/ Crash(p) \/ CtrlCEscapes(p) \/ ExitShell(p)
       \/ \E r \in Runs : InsertRun(p, r)
       \/ \E s \in Sessions :
             \/ CreateSession(p, s) \/ AttachSession(p, s) \/ AskDelete(p, s)
             \/ AddMemory(p, s)
             \/ \E cmd \in Commands : ReadSession(p, cmd, s)

Spec == Init /\ [][Next]_vars

\* A process goes on with the command it is in, and a task comes to an end
\* (AgentLoop and EngineeringRuntime are where that is shown).
FairSpec == Spec /\ \A p \in Procs : WF_vars(Continue(p))

-----------------------------------------------------------------------------
Event == [sid : Sessions, run : Runs \cup {NoRun},
          type : {"create", "memory", "start", "interrupt"} \cup DOMAIN Target]

TypeOK ==
    /\ sess \in [Sessions -> Status \cup {"none", "deleted"}]
    /\ runs \in [Runs -> [st : DOMAIN RunTransitions \cup {"none", "deleted"},
                          sid : Sessions \cup {NoSession}]]
    /\ log \subseteq Event /\ done \subseteq Event
    /\ mem \subseteq Sessions
    /\ lost \in [Runs -> {"no", "fault", "crash", "ctrl+c"}]
    /\ faults \in 0 .. MaxFaults
    /\ proc \in [Procs ->
          [pc : {"idle", "shell", "write", "confirm", "log", "insert", "exec",
                 "endread", "endwrite"},
           cmd : {"none", "create", "memory", "start", "interrupt"}
                    \cup DOMAIN Target,
           sid : Sessions \cup {NoSession}, run : Runs \cup {NoRun},
           seen : Status \cup {"none"}, was : Sessions \cup {NoSession}]]

\* The event log never tells of something that did not happen, whatever
\* crashes between the write and its event: an event of a row that still
\* exists is that of a write that took effect (_emit_event comes last in
\* every method of SessionManager).
LogIsTrue ==
    \A e \in log : e \in done \/ sess[e.sid] = "deleted"

\* A session leaves the path of SESSION_TRANSITIONS only when two processes
\* overlap: the writer had read a status the row no longer has.
StepsAreLegal ==
    [][\A s \in Sessions :
          (sess[s] \in Status /\ sess'[s] # sess[s]) =>
             \/ sess'[s] \in SessionTransitions[sess[s]] \cup {"deleted"}
             \/ \E p \in Clis : /\ proc[p].pc = "write" /\ proc'[p].pc = "log"
                                /\ proc[p].sid = s /\ proc[p].seen # sess[s]]_vars

\* A run ends once: however Ctrl+C, errors and crashes cut the calls that
\* record the end, its row never changes again and the log holds one end.
EndIsFinal ==
    [][\A r \in Runs :
          /\ runs[r].st \in RunEnds => runs'[r].st \in {runs[r].st, "deleted"}
          /\ Cardinality({e \in log' : e.run = r /\ e.type \in DOMAIN RunTarget})
                <= 1]_vars

\* A row that says RUNNING belongs to a shell that is at work on it, unless
\* a crash or a storage error took the shell off the run, or a Ctrl+C that
\* found it in start_run or recording a failure or an earlier Ctrl+C
\* (cli/interactive.py:1265, 1416, 1431).  One that finds the task at work, or
\* its result being shown and recorded, leaves no such row.
RunningIsTended ==
    \A r \in Runs : runs[r].st = "running" =>
       lost[r] # "no" \/ \E p \in Shells : proc[p].run = r

\* Every run that was started gets its end recorded, or is deleted, unless
\* its shell crashed, lost the database or was left by such a Ctrl+C.
RunsAreClosed ==
    \A r \in Runs :
       runs[r].st = "running" ~> (runs[r].st # "running" \/ lost[r] # "no")

-----------------------------------------------------------------------------
(* The inductive invariant: what keeps the properties above true.          *)

IsEnd(e) == e.run \in Runs /\ e.type \in DOMAIN RunTarget

\* Only one-shot commands write sessions and only shells write runs; a
\* command holds what its next step needs.
ProcsFit ==
    \A p \in Procs :
       /\ proc[p].pc = "idle" => proc[p] = Idle
       /\ proc[p].pc \notin {"idle", "shell"} => proc[p].sid \in Sessions
       /\ proc[p].pc \in {"write", "confirm"} =>
             p \in Clis /\ sess[proc[p].sid] # "none"
       /\ proc[p].pc = "write" => /\ proc[p].cmd \in DOMAIN Target
                                  /\ proc[p].seen \in Status
                                  /\ Target[proc[p].cmd] \in SessionTransitions[proc[p].seen]
       /\ proc[p].pc \in {"endread", "endwrite"} => proc[p].cmd \in DOMAIN RunTarget
       /\ proc[p].pc \in {"insert", "exec", "endread", "endwrite"} => p \in Shells
       /\ proc[p].pc = "insert" => proc[p].cmd = "start"
       /\ proc[p].pc = "log" => /\ proc[p].cmd # "none"
                                /\ proc[p].cmd = "start" => p \in Shells
       /\ proc[p].run \in Runs <=>
             /\ p \in Shells
             /\ \/ proc[p].pc \in {"exec", "endread", "endwrite"}
                \/ proc[p].pc = "log" /\ proc[p].cmd \in {"start"} \cup DOMAIN RunTarget

\* A row of a run is deleted with its session only.
RowsFit ==
    \A r \in Runs :
       /\ runs[r].st # "none" => runs[r].sid \in Sessions
       /\ runs[r].st = "deleted" => sess[runs[r].sid] = "deleted"

\* A run is in the hands of one shell, which has not recorded its end yet: it
\* may have written it, when its event is next or Ctrl+C made it start over.
RunsFit ==
    \A p \in Procs :
       proc[p].run \in Runs =>
          /\ runs[proc[p].run].st # "none"
          /\ runs[proc[p].run].sid = proc[p].sid
          /\ proc[p].pc = "endwrite" => runs[proc[p].run].st \in {"running", "deleted"}
          /\ proc[p].pc = "log" /\ proc[p].cmd # "start" => runs[proc[p].run].st # "running"
          /\ \A e \in log : IsEnd(e) => e.run # proc[p].run
          /\ \A q \in Procs : proc[q].run = proc[p].run => q = p

\* An event that is about to be recorded is true, and an end is recorded once.
EventsFit ==
    /\ \A p \in Procs :
          proc[p].pc = "log" => EventOf(p) \in done \/ sess[proc[p].sid] = "deleted"
    /\ \A e \in log : e.run \in Runs => runs[e.run].st # "none"
    /\ \A e, f \in log : IsEnd(e) /\ IsEnd(f) /\ e.run = f.run => e = f

SessionInv ==
    /\ TypeOK /\ ProcsFit /\ RowsFit /\ RunsFit /\ EventsFit
    /\ LogIsTrue /\ RunningIsTended
=============================================================================
