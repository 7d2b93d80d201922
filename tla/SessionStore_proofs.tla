------------------------- MODULE SessionStore_proofs -------------------------
(***************************************************************************)
(* Theorems about SessionStore, for any shells, commands, sessions and     *)
(* runs and any number of faults.  Steps come in four shapes: a process    *)
(* goes on and the tables stay (Quiet), it writes rows and will log that   *)
(* (Write), it logs (EmitEvent), it deletes a session (DeleteSession).      *)
(***************************************************************************)
EXTENDS SessionStore, FiniteSetTheorems, TLAPS

Commanded == {"none", "create", "memory", "start", "interrupt"} \cup DOMAIN Target

ProcState ==
    [pc : {"idle", "shell", "write", "confirm", "log", "insert", "exec",
           "endread", "endwrite"},
     cmd : Commanded,
     sid : Sessions \cup {NoSession}, run : Runs \cup {NoRun},
     seen : Status \cup {"none"}, was : Sessions \cup {NoSession}]

\* ProcsFit of one process whose state is x.
Fit(p, x) ==
    /\ x.pc = "idle" => x = Idle
    /\ x.pc \notin {"idle", "shell"} => x.sid \in Sessions
    /\ x.pc \in {"write", "confirm"} => p \in Clis /\ sess[x.sid] # "none"
    /\ x.pc = "write" => /\ x.cmd \in DOMAIN Target
                         /\ x.seen \in Status
                         /\ Target[x.cmd] \in SessionTransitions[x.seen]
    /\ x.pc \in {"endread", "endwrite"} => x.cmd \in DOMAIN RunTarget
    /\ x.pc \in {"insert", "exec", "endread", "endwrite"} => p \in Shells
    /\ x.pc = "insert" => x.cmd = "start"
    /\ x.pc = "log" => x.cmd # "none" /\ (x.cmd = "start" => p \in Shells)
    /\ x.run \in Runs <=>
          /\ p \in Shells
          /\ \/ x.pc \in {"exec", "endread", "endwrite"}
             \/ x.pc = "log" /\ x.cmd \in {"start"} \cup DOMAIN RunTarget

\* A row of a session is never taken back, and a deleted one stays deleted.
SessForward ==
    /\ sess' \in [Sessions -> Status \cup {"none", "deleted"}]
    /\ \A s \in Sessions : /\ sess[s] # "none" => sess'[s] # "none"
                           /\ sess[s] = "deleted" => sess'[s] = "deleted"

LostForward ==
    /\ lost' \in [Runs -> {"no", "fault", "crash", "ctrl+c"}]
    /\ \A r \in Runs : lost[r] # "no" => lost'[r] # "no"
    /\ faults' \in 0 .. MaxFaults

Moves(p, x) == x \in ProcState /\ proc' = [proc EXCEPT ![p] = x]

LEMMA FitIsProcsFit ==
    /\ ProcsFit <=> \A p \in Procs : Fit(p, proc[p])
    /\ ProcsFit' <=> \A p \in Procs : Fit(p, proc[p])'
  BY DEF ProcsFit, Fit

\* What moves is one process.
LEMMA OneMoves ==
    ASSUME TypeOK, NEW p \in Procs, NEW x, Moves(p, x)
    PROVE  /\ proc' \in [Procs -> ProcState]
           /\ proc'[p] = x
           /\ \A q \in Procs : q # p => proc'[q] = proc[q]
  BY DEF TypeOK, Moves, ProcState, Commanded

\* ... so the others fit as they did.
LEMMA MovesFit ==
    ASSUME TypeOK, ProcsFit, SessForward, NEW p \in Procs, NEW x,
           Moves(p, x), Fit(p, x)
    PROVE  ProcsFit'
<1>1. proc' \in [Procs -> ProcState] /\ proc \in [Procs -> ProcState]
  BY OneMoves DEF TypeOK, ProcState, Commanded
<1> SUFFICES ASSUME NEW q \in Procs PROVE Fit(q, proc[q])'
  BY FitIsProcsFit
<1>2. Fit(q, proc'[q])
  BY OneMoves, FitIsProcsFit
<1>3. proc'[q].pc \in {"write", "confirm"} => proc'[q].sid \in Sessions
  BY <1>2 DEF Fit
<1> QED BY <1>2, <1>3 DEF Fit, SessForward

-----------------------------------------------------------------------------
(* A process goes on, or is gone: the tables stay.                          *)

Quiet(p, x) ==
    /\ Moves(p, x) /\ Fit(p, x) /\ x.pc # "log"
    /\ UNCHANGED <<sess, runs, log, mem, done>>
    /\ LostForward
    /\ x.run \in Runs => x.run = proc[p].run /\ x.sid = proc[p].sid
    /\ x.run \in Runs /\ x.pc = "endwrite" => runs[x.run].st \in {"running", "deleted"}
    /\ (/\ proc[p].run \in Runs /\ x.run # proc[p].run
        /\ runs[proc[p].run].st = "running")
       => lost'[proc[p].run] # "no"

LEMMA QuietKeeps ==
    ASSUME SessionInv, NEW p \in Procs, NEW x, Quiet(p, x)
    PROVE  SessionInv'
<1>1. /\ proc' \in [Procs -> ProcState] /\ proc'[p] = x /\ x \in ProcState
      /\ \A q \in Procs : q # p => proc'[q] = proc[q]
      /\ proc \in [Procs -> ProcState]
  BY OneMoves DEF Quiet, SessionInv, TypeOK, ProcState, Commanded, Moves
<1>2. TypeOK'
  BY <1>1 DEF SessionInv, TypeOK, Quiet, LostForward, ProcState, Commanded, Event
<1>3. ProcsFit'
  <2>1. SessForward
    BY DEF Quiet, SessForward, SessionInv, TypeOK
  <2> QED BY <2>1, MovesFit DEF Quiet, SessionInv
<1>4. RowsFit' /\ LogIsTrue'
  BY DEF SessionInv, RowsFit, LogIsTrue, Quiet
<1>5. RunsFit'
  <2> SUFFICES ASSUME NEW q \in Procs, proc'[q].run \in Runs
               PROVE  /\ runs[proc'[q].run].st # "none"
                      /\ runs[proc'[q].run].sid = proc'[q].sid
                      /\ proc'[q].pc = "endwrite" => runs[proc'[q].run].st \in {"running", "deleted"}
                      /\ proc'[q].pc = "log" /\ proc'[q].cmd # "start" => runs[proc'[q].run].st # "running"
                      /\ \A e \in log : IsEnd(e) => e.run # proc'[q].run
                      /\ \A o \in Procs : proc'[o].run = proc'[q].run => o = q
    BY DEF RunsFit, Quiet, IsEnd
  <2>1. proc'[q].run = proc[q].run /\ proc'[q].sid = proc[q].sid
    BY <1>1 DEF Quiet
  <2>2. \A o \in Procs : proc'[o].run = proc'[q].run => proc[o].run = proc[q].run
    BY <2>1, <1>1 DEF Quiet
  <2>3. CASE q = p
    BY <2>1, <2>2, <2>3, <1>1 DEF SessionInv, RunsFit, Quiet
  <2>4. CASE q # p
    BY <2>1, <2>2, <2>4, <1>1 DEF SessionInv, RunsFit, Quiet
  <2> QED BY <2>3, <2>4
<1>6. EventsFit'
  <2>1. \A q \in Procs : proc'[q].pc = "log" => proc'[q] = proc[q]
    BY <1>1 DEF Quiet
  <2> QED BY <2>1 DEF SessionInv, EventsFit, Quiet, EventOf, IsEnd
<1>7. RunningIsTended'
  <2> SUFFICES ASSUME NEW r \in Runs, runs[r].st = "running", lost'[r] = "no"
               PROVE  \E q \in Shells : proc'[q].run = r
    BY DEF RunningIsTended, Quiet
  <2>1. lost[r] = "no"
    BY DEF Quiet, LostForward
  <2>2. PICK q \in Shells : proc[q].run = r
    BY <2>1 DEF SessionInv, RunningIsTended
  <2>3. proc'[q].run = r
    BY <2>2, <1>1 DEF Quiet, Procs
  <2> QED BY <2>3
<1> QED BY <1>2, <1>3, <1>4, <1>5, <1>6, <1>7 DEF SessionInv

-----------------------------------------------------------------------------
(* Rows are written, and their event is next.                               *)

Write(p, x) ==
    /\ Moves(p, x) /\ Fit(p, x) /\ x.pc = "log"
    /\ SessForward
    /\ UNCHANGED <<log, lost, faults>>
    /\ mem' \subseteq Sessions
    /\ runs' \in [Runs -> [st : DOMAIN RunTransitions \cup {"none", "deleted"},
                           sid : Sessions \cup {NoSession}]]
    /\ done \subseteq done' /\ done' \subseteq Event
    /\ \/ [sid |-> x.sid, run |-> x.run, type |-> x.cmd] \in done'
       \/ sess'[x.sid] = "deleted"
    /\ \A r \in Runs : r # x.run => runs'[r] = runs[r]
    /\ proc[p].run \in Runs => x.run = proc[p].run
    /\ x.run \in Runs =>
          /\ runs'[x.run].st # "none" /\ runs'[x.run].sid = x.sid
          /\ runs'[x.run].st = "deleted" => runs[x.run] = runs'[x.run]
          /\ x.cmd # "start" => runs'[x.run].st # "running"
          /\ x.run = proc[p].run \/ runs[x.run].st = "none"

LEMMA WriteKeeps ==
    ASSUME SessionInv, NEW p \in Procs, NEW x, Write(p, x)
    PROVE  SessionInv'
<1>1. /\ proc' \in [Procs -> ProcState] /\ proc'[p] = x /\ x \in ProcState
      /\ \A q \in Procs : q # p => proc'[q] = proc[q]
      /\ proc \in [Procs -> ProcState]
  BY OneMoves DEF Write, SessionInv, TypeOK, ProcState, Commanded, Moves
<1>2. TypeOK'
  BY <1>1 DEF SessionInv, TypeOK, Write, SessForward, ProcState, Commanded, Event
<1>3. ProcsFit'
  BY MovesFit DEF Write, SessionInv
<1>4. RowsFit'
  <2> SUFFICES ASSUME NEW r \in Runs
               PROVE  /\ runs'[r].st # "none" => runs'[r].sid \in Sessions
                      /\ runs'[r].st = "deleted" => sess'[runs'[r].sid] = "deleted"
    BY DEF RowsFit
  <2>1. x.sid \in Sessions
    BY DEF Write, Fit
  <2>2. CASE r = x.run
    BY <2>1, <2>2 DEF Write, SessionInv, RowsFit, SessForward
  <2>3. CASE r # x.run
    BY <2>3 DEF Write, SessionInv, RowsFit, SessForward
  <2> QED BY <2>2, <2>3
<1>5. LogIsTrue'
  BY DEF Write, SessionInv, LogIsTrue, SessForward, TypeOK, Event
<1>6. RunsFit'
  <2> SUFFICES ASSUME NEW q \in Procs, proc'[q].run \in Runs
               PROVE  /\ runs'[proc'[q].run].st # "none"
                      /\ runs'[proc'[q].run].sid = proc'[q].sid
                      /\ proc'[q].pc = "endwrite" => runs'[proc'[q].run].st \in {"running", "deleted"}
                      /\ proc'[q].pc = "log" /\ proc'[q].cmd # "start" => runs'[proc'[q].run].st # "running"
                      /\ \A e \in log : IsEnd(e) => e.run # proc'[q].run
                      /\ \A o \in Procs : proc'[o].run = proc'[q].run => o = q
    BY DEF RunsFit, Write, IsEnd
  <2>1. x.run \in Runs => \A o \in Procs : proc[o].run = x.run => o = p
    BY DEF Write, SessionInv, RunsFit
  <2>2. x.run \in Runs => \A e \in log : IsEnd(e) => e.run # x.run
    BY DEF Write, SessionInv, RunsFit, EventsFit
  <2>3. CASE q = p
    BY <2>1, <2>2, <2>3, <1>1 DEF Write
  <2>4. CASE q # p
    <3>1. proc'[q] = proc[q] /\ proc[q].run # x.run
      BY <2>1, <2>4, <1>1
    <3>2. runs'[proc[q].run] = runs[proc[q].run]
      BY <3>1 DEF Write
    <3>3. \A o \in Procs : proc'[o].run = proc[q].run => proc[o].run = proc[q].run
      BY <3>1, <1>1
    <3> QED BY <3>1, <3>2, <3>3 DEF SessionInv, RunsFit
  <2> QED BY <2>3, <2>4
<1>7. EventsFit'
  <2>1. \A q \in Procs :
           proc'[q].pc = "log" =>
              \/ [sid |-> proc'[q].sid, run |-> proc'[q].run, type |-> proc'[q].cmd] \in done'
              \/ sess'[proc'[q].sid] = "deleted"
    <3> SUFFICES ASSUME NEW q \in Procs, q # p, proc[q].pc = "log"
                 PROVE  \/ [sid |-> proc[q].sid, run |-> proc[q].run, type |-> proc[q].cmd] \in done'
                        \/ sess'[proc[q].sid] = "deleted"
      BY <1>1 DEF Write
    <3>1. proc[q].sid \in Sessions
      BY FitIsProcsFit DEF SessionInv, Fit
    <3> QED BY <3>1 DEF SessionInv, EventsFit, EventOf, Write, SessForward
  <2>2. \A e \in log : e.run \in Runs => runs'[e.run].st # "none"
    BY DEF SessionInv, EventsFit, Write
  <2>3. log' = log
    BY DEF Write
  <2> QED BY <2>1, <2>2, <2>3 DEF SessionInv, EventsFit, EventOf, IsEnd
<1>8. RunningIsTended'
  <2> SUFFICES ASSUME NEW r \in Runs, runs'[r].st = "running", lost[r] = "no"
               PROVE  \E q \in Shells : proc'[q].run = r
    BY DEF RunningIsTended, Write
  <2>1. CASE r = x.run
    BY <2>1, <1>1 DEF Write, Fit
  <2>2. CASE r # x.run
    <3>1. PICK q \in Shells : proc[q].run = r
      BY <2>2 DEF Write, SessionInv, RunningIsTended
    <3>2. proc'[q].run = r
      BY <3>1, <2>2, <1>1 DEF Write, Procs
    <3> QED BY <3>2
  <2> QED BY <2>1, <2>2
<1> QED BY <1>2, <1>3, <1>4, <1>5, <1>6, <1>7, <1>8 DEF SessionInv

-----------------------------------------------------------------------------
(* An event is recorded.                                                    *)

\* What a shell keeps between tasks, and what is left of a command.
LEMMA RestFits ==
    ASSUME TypeOK, NEW p \in Procs
    PROVE  /\ Rest(p) \in ProcState /\ Fit(p, Rest(p))
           /\ Rest(p).run = NoRun /\ Rest(p).pc \in {"idle", "shell"}
           /\ Idle \in ProcState /\ Fit(p, Idle) /\ Idle.run = NoRun
           /\ NoRun \notin Runs
<1>1. Idle \in ProcState /\ Fit(p, Idle) /\ Idle.run = NoRun /\ Idle.pc = "idle"
  BY SessionAssumption DEF Idle, ProcState, Commanded, Fit
<1>2. CASE p \in Shells
  <2> DEFINE y == [proc[p] EXCEPT !.pc = "shell", !.cmd = "none", !.run = NoRun,
                                  !.seen = "none", !.was = NoSession]
  <2>1. proc[p] \in ProcState
    BY DEF TypeOK, ProcState, Commanded
  <2>2. y \in ProcState /\ y.run = NoRun /\ y.pc = "shell"
    BY <2>1 DEF ProcState, Commanded
  <2>3. Fit(p, y)
    BY <2>2, SessionAssumption DEF Fit
  <2>4. Rest(p) = y
    BY <1>2 DEF Rest
  <2> QED BY <1>1, <2>2, <2>3, <2>4, SessionAssumption
<1>3. CASE p \notin Shells
  BY <1>1, <1>3, SessionAssumption DEF Rest
<1> QED BY <1>2, <1>3

LEMMA EmitKeeps ==
    ASSUME SessionInv, NEW p \in Procs, EmitEvent(p)
    PROVE  SessionInv'
<1> DEFINE e == EventOf(p)
           x == IF proc[p].cmd = "start" THEN [proc[p] EXCEPT !.pc = "exec"] ELSE Rest(p)
<1>0. /\ proc[p].pc = "log" /\ log' = log \cup {e}
      /\ UNCHANGED <<sess, runs, mem, done, lost, faults>>
  BY DEF EmitEvent
<1>a. proc[p] \in ProcState /\ Fit(p, proc[p])
  BY FitIsProcsFit DEF SessionInv, TypeOK, ProcState, Commanded
<1>1. proc' = [proc EXCEPT ![p] = x]
  BY DEF EmitEvent
<1>2. x \in ProcState /\ Fit(p, x) /\ x.pc \in {"exec", "idle", "shell"}
  <2>1. CASE proc[p].cmd = "start"
    <3> DEFINE y == [proc[p] EXCEPT !.pc = "exec"]
    <3>1. y \in ProcState /\ y.pc = "exec" /\ y.run = proc[p].run /\ y.sid = proc[p].sid
      BY <1>a DEF ProcState, Commanded
    <3>2. Fit(p, y)
      BY <3>1, <1>a, <1>0, <2>1 DEF Fit
    <3> QED BY <2>1, <3>1, <3>2
  <2>2. CASE proc[p].cmd # "start"
    BY <2>2, RestFits DEF SessionInv
  <2> QED BY <2>1, <2>2
<1>3. x.run \in Runs => /\ x.run = proc[p].run /\ x.sid = proc[p].sid
                        /\ proc[p].cmd = "start"
  BY <1>a, RestFits DEF SessionInv, ProcState
<1>4. Moves(p, x)
  BY <1>1, <1>2 DEF Moves
<1>5. /\ proc' \in [Procs -> ProcState] /\ proc'[p] = x
      /\ \A q \in Procs : q # p => proc'[q] = proc[q]
  BY <1>4, OneMoves DEF SessionInv
<1>6. /\ e \in done \/ sess[e.sid] = "deleted"
      /\ e.sid \in Sessions /\ e.run = proc[p].run /\ e.type = proc[p].cmd
  BY <1>0, <1>a DEF SessionInv, EventsFit, EventOf, Fit
<1>7. e \in Event
  <2>1. e.type # "none"
    BY <1>0, <1>6, <1>a DEF Fit
  <2> QED BY <2>1, <1>a, <1>6 DEF EventOf, Event, ProcState, Commanded
<1>8. TypeOK'
  BY <1>0, <1>5, <1>7 DEF SessionInv, TypeOK, ProcState, Commanded, Event
<1>9. ProcsFit'
  BY <1>0, <1>2, <1>4, MovesFit DEF SessionInv, SessForward, TypeOK
<1>10. RowsFit' /\ LogIsTrue'
  BY <1>0, <1>6 DEF SessionInv, RowsFit, LogIsTrue
<1>11. e.run \in Runs => /\ runs[e.run].st # "none"
                         /\ \A f \in log : IsEnd(f) => f.run # e.run
                         /\ \A q \in Procs : proc[q].run = e.run => q = p
                         /\ proc[p].cmd # "start" => runs[e.run].st # "running"
  BY <1>0, <1>6 DEF SessionInv, RunsFit
<1>12. EventsFit'
  <2>1. \A q \in Procs : proc'[q].pc = "log" => proc'[q] = proc[q]
    BY <1>2, <1>5
  <2> QED BY <2>1, <1>0, <1>11 DEF SessionInv, EventsFit, EventOf, IsEnd
<1>13. RunsFit'
  <2> SUFFICES ASSUME NEW q \in Procs, proc'[q].run \in Runs
               PROVE  /\ runs[proc'[q].run].st # "none"
                      /\ runs[proc'[q].run].sid = proc'[q].sid
                      /\ proc'[q].pc = "endwrite" => runs[proc'[q].run].st \in {"running", "deleted"}
                      /\ proc'[q].pc = "log" /\ proc'[q].cmd # "start" => runs[proc'[q].run].st # "running"
                      /\ \A f \in log' : IsEnd(f) => f.run # proc'[q].run
                      /\ \A o \in Procs : proc'[o].run = proc'[q].run => o = q
    BY <1>0 DEF RunsFit, IsEnd
  <2>1. proc'[q].run = proc[q].run /\ proc'[q].sid = proc[q].sid
    BY <1>3, <1>5
  <2>2. \A o \in Procs : proc'[o].run = proc'[q].run => proc[o].run = proc[q].run
    BY <2>1, <1>3, <1>5
  <2>3. q # p => e.run # proc[q].run
    BY <2>1, <1>11
  <2>4. q = p => ~IsEnd(e)
    BY <1>3, <1>5, <1>6 DEF IsEnd, RunTarget
  <2>5. \A f \in log' : IsEnd(f) => f.run # proc'[q].run
    BY <2>1, <2>3, <2>4, <1>0 DEF SessionInv, RunsFit
  <2> QED BY <2>1, <2>2, <2>5, <1>2, <1>5 DEF SessionInv, RunsFit
<1>14. RunningIsTended'
  <2> SUFFICES ASSUME NEW r \in Runs, runs[r].st = "running", lost[r] = "no"
               PROVE  \E q \in Shells : proc'[q].run = r
    BY <1>0 DEF RunningIsTended
  <2>1. PICK q \in Shells : proc[q].run = r
    BY DEF SessionInv, RunningIsTended
  <2>2. CASE q = p
    <3>1. proc[p].cmd = "start"
      BY <2>1, <2>2, <1>6, <1>11
    <3>2. x.run = r
      BY <3>1, <2>1, <2>2, <1>a DEF ProcState
    <3> QED BY <3>2, <2>2, <1>5
  <2>3. CASE q # p
    BY <2>1, <2>3, <1>5 DEF Procs
  <2> QED BY <2>2, <2>3
<1> QED BY <1>8, <1>9, <1>10, <1>12, <1>13, <1>14 DEF SessionInv

-----------------------------------------------------------------------------
(* A session is deleted, with what belongs to it.                           *)

LEMMA DeleteKeeps ==
    ASSUME SessionInv, NEW p \in Procs, DeleteSession(p)
    PROVE  SessionInv'
<1> DEFINE s == proc[p].sid
<1>0. /\ proc[p].pc = "confirm"
      /\ sess' = [sess EXCEPT ![s] = "deleted"]
      /\ runs' = [r \in Runs |-> IF runs[r].sid = s
                                 THEN [runs[r] EXCEPT !.st = "deleted"] ELSE runs[r]]
      /\ log' = {e \in log : e.sid # s} /\ mem' = mem \ {s}
      /\ UNCHANGED <<done, lost, faults>>
  BY DEF DeleteSession
<1>a. proc[p] \in ProcState /\ Fit(p, proc[p]) /\ s \in Sessions
  BY <1>0, FitIsProcsFit DEF SessionInv, TypeOK, ProcState, Commanded, Fit
<1>1. Moves(p, Idle) /\ Fit(p, Idle)
  BY RestFits DEF Moves, DeleteSession, SessionInv
<1>2. /\ proc' \in [Procs -> ProcState] /\ proc'[p] = Idle
      /\ \A q \in Procs : q # p => proc'[q] = proc[q]
  BY <1>1, OneMoves DEF SessionInv
<1>3. /\ SessForward /\ sess'[s] = "deleted"
      /\ runs' \in [Runs -> [st : DOMAIN RunTransitions \cup {"none", "deleted"},
                             sid : Sessions \cup {NoSession}]]
      /\ \A r \in Runs : /\ runs'[r].sid = runs[r].sid
                         /\ runs'[r].st = IF runs[r].sid = s THEN "deleted" ELSE runs[r].st
  <2>1. SessForward /\ sess'[s] = "deleted"
    BY <1>0, <1>a DEF SessForward, SessionInv, TypeOK
  <2> QED BY <2>1, <1>0 DEF SessionInv, TypeOK
<1>4. TypeOK'
  BY <1>0, <1>2, <1>3 DEF SessionInv, TypeOK, SessForward, ProcState, Commanded, Event
<1>5. ProcsFit'
  BY <1>1, <1>3, MovesFit DEF SessionInv
<1>6. RowsFit'
  BY <1>3, <1>a DEF SessionInv, RowsFit, SessForward
<1>7. LogIsTrue'
  BY <1>0, <1>3 DEF SessionInv, LogIsTrue, SessForward, TypeOK, Event
<1>8. proc[p].run \notin Runs /\ Idle.run \notin Runs
  BY <1>0, <1>a, RestFits DEF Fit, SessionInv
<1>9. RunsFit'
  <2> SUFFICES ASSUME NEW q \in Procs, proc'[q].run \in Runs
               PROVE  /\ runs'[proc'[q].run].st # "none"
                      /\ runs'[proc'[q].run].sid = proc'[q].sid
                      /\ proc'[q].pc = "endwrite" => runs'[proc'[q].run].st \in {"running", "deleted"}
                      /\ proc'[q].pc = "log" /\ proc'[q].cmd # "start" => runs'[proc'[q].run].st # "running"
                      /\ \A f \in log' : IsEnd(f) => f.run # proc'[q].run
                      /\ \A o \in Procs : proc'[o].run = proc'[q].run => o = q
    BY DEF RunsFit, IsEnd
  <2>1. proc'[q] = proc[q]
    BY <1>2, <1>8
  <2>2. \A o \in Procs : proc'[o].run = proc'[q].run => proc[o].run = proc[q].run
    BY <2>1, <1>2, <1>8
  <2>3. \A f \in log' : f \in log
    BY <1>0
  <2> QED BY <2>1, <2>2, <2>3, <1>3 DEF SessionInv, RunsFit
<1>10. EventsFit'
  <2>1. \A q \in Procs : proc'[q].pc = "log" => proc'[q] = proc[q]
    BY <1>2 DEF Idle
  <2>2. \A q \in Procs : proc[q].pc = "log" => proc[q].sid \in Sessions
    BY FitIsProcsFit DEF SessionInv, Fit
  <2>3. \A q \in Procs :
           proc'[q].pc = "log" =>
              \/ [sid |-> proc'[q].sid, run |-> proc'[q].run, type |-> proc'[q].cmd] \in done'
              \/ sess'[proc'[q].sid] = "deleted"
    BY <2>1, <2>2, <1>0, <1>3 DEF SessionInv, EventsFit, EventOf, SessForward
  <2>4. log' \subseteq log
    BY <1>0
  <2>5. \A e \in log' : e.run \in Runs => runs'[e.run].st # "none"
    BY <2>4, <1>3 DEF SessionInv, EventsFit
  <2> QED BY <2>3, <2>4, <2>5 DEF SessionInv, EventsFit, EventOf, IsEnd
<1>11. RunningIsTended'
  BY <1>0, <1>2, <1>3, <1>8 DEF SessionInv, RunningIsTended, Procs
<1> QED BY <1>4, <1>5, <1>6, <1>7, <1>9, <1>10, <1>11 DEF SessionInv

-----------------------------------------------------------------------------
(* Every action is of one of the shapes.                                    *)

LEMMA StateOf ==
    ASSUME SessionInv, NEW p \in Procs
    PROVE  /\ proc[p] \in ProcState /\ Fit(p, proc[p])
           /\ sess \in [Sessions -> Status \cup {"none", "deleted"}]
  BY FitIsProcsFit DEF SessionInv, TypeOK, ProcState, Commanded

\* A process that leaves its command, having abandoned its run if it had one.
LEMMA LeaveKeeps ==
    ASSUME SessionInv, NEW p \in Procs, NEW x \in ProcState, NEW why \in {"fault", "crash", "ctrl+c"},
           Fit(p, x), x.run = NoRun, x.pc \in {"idle", "shell"},
           proc' = [proc EXCEPT ![p] = x],
           UNCHANGED <<sess, runs, log, mem, done>>, faults' \in 0 .. MaxFaults,
           Abandon(p, why)
    PROVE  SessionInv'
<1>1. LostForward
  BY DEF LostForward, Abandon, SessionInv, TypeOK, RunExists
<1>2. proc[p].run \in Runs /\ runs[proc[p].run].st = "running" => lost'[proc[p].run] # "no"
  BY DEF Abandon, RunExists, RunTransitions, SessionInv, TypeOK
<1>3. Quiet(p, x)
  BY <1>1, <1>2, SessionAssumption DEF Quiet, Moves
<1> QED BY <1>3, QuietKeeps

\* A process that holds no run, or keeps the one it has.
LEMMA GoesOn ==
    ASSUME SessionInv, NEW p \in Procs, NEW x \in ProcState,
           Fit(p, x), x.pc # "log", proc' = [proc EXCEPT ![p] = x],
           UNCHANGED <<sess, runs, log, mem, done, lost, faults>>,
           \/ x.run = NoRun /\ proc[p].run \notin Runs
           \/ x.run = NoRun /\ runs[proc[p].run].st # "running"
           \/ /\ x.run = proc[p].run /\ x.sid = proc[p].sid
              /\ x.pc = "endwrite" => runs[x.run].st \in {"running", "deleted"}
    PROVE  SessionInv'
<1>1. LostForward
  BY DEF LostForward, SessionInv, TypeOK
<1>2. Quiet(p, x)
  BY <1>1, SessionAssumption DEF Quiet, Moves
<1> QED BY <1>2, QuietKeeps

LEMMA CreateKeeps ==
    ASSUME SessionInv, NEW p \in Procs, NEW s \in Sessions, CreateSession(p, s)
    PROVE  SessionInv'
<1> DEFINE x == [Idle EXCEPT !.pc = "log", !.cmd = "create", !.sid = s, !.was = proc[p].sid]
           e == [sid |-> s, run |-> NoRun, type |-> "create"]
<1>1. proc[p] \in ProcState /\ Fit(p, proc[p])
  BY StateOf
<1>2. /\ x \in ProcState /\ x.run = NoRun /\ x.sid = s /\ x.cmd = "create" /\ x.pc = "log"
  BY <1>1 DEF ProcState, Commanded, Idle
<1>3. Fit(p, x)
  BY <1>2, SessionAssumption DEF Fit, RunTarget
<1>4. proc[p].run \notin Runs
  BY <1>1 DEF Fit, CreateSession, MayCreate, Procs
<1>5. SessForward
  BY DEF CreateSession, SessForward, SessionInv, TypeOK, Status
<1>6. e \in Event /\ done' = done \cup {e}
  BY DEF CreateSession, Event
<1>7. Write(p, x)
  <2>1. Moves(p, x) /\ UNCHANGED <<log, lost, faults, runs, mem>>
    BY <1>2 DEF Moves, CreateSession
  <2>2. done \subseteq done' /\ done' \subseteq Event
    BY <1>6 DEF SessionInv, TypeOK
  <2>3. [sid |-> x.sid, run |-> x.run, type |-> x.cmd] \in done'
    BY <1>2, <1>6
  <2> QED BY <2>1, <2>2, <2>3, <1>2, <1>3, <1>4, <1>5, SessionAssumption
          DEF Write, SessionInv, TypeOK
<1> QED BY <1>7, WriteKeeps

LEMMA AttachKeeps ==
    ASSUME SessionInv, NEW p \in Procs, NEW s \in Sessions, AttachSession(p, s)
    PROVE  SessionInv'
<1> DEFINE x == [Idle EXCEPT !.pc = "shell", !.sid = s]
<1>1. proc[p] \in ProcState /\ Fit(p, proc[p])
  BY StateOf
<1>2. x \in ProcState /\ x.run = NoRun /\ x.pc = "shell"
  BY DEF ProcState, Commanded, Idle
<1>3. Fit(p, x) /\ proc[p].run \notin Runs
  BY <1>1, <1>2, SessionAssumption DEF Fit, AttachSession
<1> QED BY <1>2, <1>3, GoesOn DEF AttachSession

LEMMA ReadSessionKeeps ==
    ASSUME SessionInv, NEW p \in Procs, NEW s \in Sessions, NEW cmd \in Commands,
           ReadSession(p, cmd, s)
    PROVE  SessionInv'
<1> DEFINE x == [Idle EXCEPT !.pc = "write", !.cmd = cmd, !.sid = s, !.seen = sess[s]]
<1>1. proc[p] \in ProcState /\ Fit(p, proc[p])
  BY StateOf
<1>2. cmd \in DOMAIN Target /\ cmd \in Commanded
  BY SessionAssumption DEF Target, Commanded
<1>3. sess[s] \in Status /\ Target[cmd] \in SessionTransitions[sess[s]]
  BY DEF ReadSession, Exists
<1>4. /\ x \in ProcState /\ x.run = NoRun /\ x.pc = "write" /\ x.sid = s
      /\ x.cmd = cmd /\ x.seen = sess[s]
  BY <1>2, <1>3 DEF ProcState, Idle
<1>5. Fit(p, x) /\ proc[p].run \notin Runs
  BY <1>1, <1>2, <1>3, <1>4, SessionAssumption DEF Fit, ReadSession, Status
<1> QED BY <1>4, <1>5, GoesOn DEF ReadSession

LEMMA AskDeleteKeeps ==
    ASSUME SessionInv, NEW p \in Procs, NEW s \in Sessions, AskDelete(p, s)
    PROVE  SessionInv'
<1> DEFINE x == [Idle EXCEPT !.pc = "confirm", !.sid = s]
<1>1. proc[p] \in ProcState /\ Fit(p, proc[p])
  BY StateOf
<1>2. x \in ProcState /\ x.run = NoRun /\ x.pc = "confirm" /\ x.sid = s
  BY DEF ProcState, Commanded, Idle
<1>3. Fit(p, x) /\ proc[p].run \notin Runs
  BY <1>1, <1>2, SessionAssumption DEF Fit, AskDelete, Exists, Status
<1> QED BY <1>2, <1>3, GoesOn DEF AskDelete

LEMMA AddMemoryKeeps ==
    ASSUME SessionInv, NEW p \in Procs, NEW s \in Sessions, AddMemory(p, s)
    PROVE  SessionInv'
<1> DEFINE x == [Idle EXCEPT !.pc = "log", !.cmd = "memory", !.sid = s]
           e == [sid |-> s, run |-> NoRun, type |-> "memory"]
<1>1. proc[p] \in ProcState /\ Fit(p, proc[p])
  BY StateOf
<1>2. /\ x \in ProcState /\ x.run = NoRun /\ x.sid = s /\ x.cmd = "memory" /\ x.pc = "log"
  BY DEF ProcState, Commanded, Idle
<1>3. Fit(p, x) /\ proc[p].run \notin Runs
  BY <1>1, <1>2, SessionAssumption DEF Fit, RunTarget, AddMemory, MayAddMemory
<1>5. SessForward
  BY DEF AddMemory, SessForward, SessionInv, TypeOK
<1>6. e \in Event /\ done' = done \cup {e}
  BY DEF AddMemory, Event
<1>7. Write(p, x)
  <2>1. Moves(p, x) /\ UNCHANGED <<log, lost, faults, runs>> /\ mem' \subseteq Sessions
    BY <1>2 DEF Moves, AddMemory, SessionInv, TypeOK
  <2>2. done \subseteq done' /\ done' \subseteq Event
    BY <1>6 DEF SessionInv, TypeOK
  <2>3. [sid |-> x.sid, run |-> x.run, type |-> x.cmd] \in done'
    BY <1>2, <1>6
  <2> QED BY <2>1, <2>2, <2>3, <1>2, <1>3, <1>5, SessionAssumption
          DEF Write, SessionInv, TypeOK
<1> QED BY <1>7, WriteKeeps

LEMMA WriteSessionKeeps ==
    ASSUME SessionInv, NEW p \in Procs, WriteSession(p)
    PROVE  SessionInv'
<1> DEFINE s == proc[p].sid
           x == [proc[p] EXCEPT !.pc = "log"]
<1>0. proc[p].pc = "write" /\ proc' = [proc EXCEPT ![p] = x]
      /\ UNCHANGED <<runs, log, mem, lost, faults>>
  <2>1. proc[p].pc = "write" /\ proc' = [proc EXCEPT ![p].pc = "log"]
    BY DEF WriteSession
  <2> QED BY <2>1 DEF WriteSession
<1>1. proc[p] \in ProcState /\ Fit(p, proc[p])
  BY StateOf
<1>2. /\ x \in ProcState /\ x.pc = "log" /\ x.sid = s /\ x.cmd = proc[p].cmd
      /\ x.run = proc[p].run
  BY <1>1 DEF ProcState
<1>3. /\ s \in Sessions /\ sess[s] # "none" /\ p \in Clis
      /\ proc[p].cmd \in DOMAIN Target /\ proc[p].run \notin Runs
  BY <1>0, <1>1, SessionAssumption DEF Fit
<1>4. x.run \notin Runs /\ Fit(p, x)
  BY <1>1, <1>2, <1>3, SessionAssumption DEF Fit, Target
<1>5. /\ SessForward /\ done \subseteq done' /\ done' \subseteq Event
      /\ \/ [sid |-> x.sid, run |-> x.run, type |-> x.cmd] \in done'
         \/ sess'[x.sid] = "deleted"
  <2>1. CASE Exists(s)
    <3>1. sess' = [sess EXCEPT ![s] = Target[proc[p].cmd]] /\ done' = done \cup {EventOf(p)}
      BY <2>1 DEF WriteSession
    <3>2. Target[proc[p].cmd] \in Status
      BY <1>3 DEF Target, Status
    <3>3. SessForward
      BY <2>1, <3>1, <3>2 DEF SessForward, SessionInv, TypeOK, Exists, Status
    <3>4. EventOf(p) \in Event
      BY <1>1, <1>3 DEF EventOf, Event, ProcState
    <3>5. done \subseteq done' /\ done' \subseteq Event
      BY <3>1, <3>4 DEF SessionInv, TypeOK
    <3> QED BY <3>1, <3>3, <3>5, <1>2 DEF EventOf
  <2>2. CASE ~Exists(s)
    <3>1. UNCHANGED <<sess, done>>
      BY <2>2 DEF WriteSession
    <3>2. sess[s] = "deleted"
      BY <2>2, <1>3 DEF Exists, SessionInv, TypeOK
    <3> QED BY <3>1, <3>2, <1>2 DEF SessForward, SessionInv, TypeOK
  <2> QED BY <2>1, <2>2
<1>6. Write(p, x)
  BY <1>0, <1>2, <1>3, <1>4, <1>5 DEF Write, Moves, SessionInv, TypeOK
<1> QED BY <1>6, WriteKeeps

LEMMA DeclineKeeps ==
    ASSUME SessionInv, NEW p \in Procs, Decline(p)
    PROVE  SessionInv'
<1>1. proc[p].run \notin Runs
  BY StateOf, SessionAssumption DEF Decline, Fit
<1> QED BY <1>1, RestFits, GoesOn DEF Decline, SessionInv, Idle

LEMMA StartRunKeeps ==
    ASSUME SessionInv, NEW p \in Procs, StartRun(p)
    PROVE  SessionInv'
<1> DEFINE x == [proc[p] EXCEPT !.pc = "insert", !.cmd = "start"]
<1>0. /\ p \in Shells /\ proc[p].pc = "shell" /\ proc[p].sid \in Sessions
      /\ UNCHANGED <<sess, runs, log, mem, done, lost, faults>>
  BY DEF StartRun, Exists
<1>1. proc[p] \in ProcState /\ Fit(p, proc[p])
  BY StateOf
<1>2. proc' = [proc EXCEPT ![p] = x]
  BY DEF StartRun
<1>3. /\ x \in ProcState /\ x.pc = "insert" /\ x.cmd = "start"
      /\ x.run = proc[p].run /\ x.sid = proc[p].sid
  BY <1>1 DEF ProcState, Commanded
<1>4. proc[p].run \notin Runs /\ Fit(p, x)
  BY <1>0, <1>1, <1>3, SessionAssumption DEF Fit
<1> QED BY <1>0, <1>2, <1>3, <1>4, GoesOn

LEMMA InsertRunKeeps ==
    ASSUME SessionInv, NEW p \in Procs, NEW r \in Runs, InsertRun(p, r)
    PROVE  SessionInv'
<1> DEFINE x == [proc[p] EXCEPT !.pc = "log", !.run = r]
           e == [sid |-> proc[p].sid, run |-> r, type |-> "start"]
           row == [st |-> "running", sid |-> proc[p].sid]
<1>0. /\ proc[p].pc = "insert" /\ runs[r].st = "none"
      /\ runs' = [runs EXCEPT ![r] = row]
      /\ done' = done \cup {e}
      /\ UNCHANGED <<sess, log, mem, lost, faults>>
  BY DEF InsertRun
<1>1. proc[p] \in ProcState /\ Fit(p, proc[p])
  BY StateOf
<1>2. proc' = [proc EXCEPT ![p] = x]
  BY DEF InsertRun
<1>3. /\ proc[p].sid \in Sessions /\ p \in Shells /\ proc[p].cmd = "start"
      /\ proc[p].run \notin Runs
  BY <1>0, <1>1, SessionAssumption DEF Fit
<1>4. /\ x \in ProcState /\ x.pc = "log" /\ x.cmd = "start" /\ x.run = r
      /\ x.sid = proc[p].sid
  BY <1>1, <1>3 DEF ProcState
<1>5. Fit(p, x)
  BY <1>3, <1>4 DEF Fit
<1>6. /\ runs' \in [Runs -> [st : DOMAIN RunTransitions \cup {"none", "deleted"},
                             sid : Sessions \cup {NoSession}]]
      /\ runs'[r].st = "running" /\ runs'[r].sid = proc[p].sid
      /\ \A o \in Runs : o # r => runs'[o] = runs[o]
  BY <1>0, <1>3 DEF SessionInv, TypeOK, RunTransitions
<1>7. done \subseteq done' /\ done' \subseteq Event /\ e \in done'
  BY <1>0, <1>3 DEF SessionInv, TypeOK, Event
<1>8. Write(p, x)
  BY <1>0, <1>2, <1>3, <1>4, <1>5, <1>6, <1>7
     DEF Write, Moves, SessForward, SessionInv, TypeOK
<1> QED BY <1>8, WriteKeeps

LEMMA FinishTaskKeeps ==
    ASSUME SessionInv, NEW p \in Procs, NEW how \in DOMAIN RunTarget, FinishTask(p, how)
    PROVE  SessionInv'
<1> DEFINE x == [proc[p] EXCEPT !.pc = "endread", !.cmd = how]
<1>1. proc[p] \in ProcState /\ Fit(p, proc[p]) /\ proc[p].pc = "exec"
  BY StateOf DEF FinishTask
<1>2. proc' = [proc EXCEPT ![p] = x]
  BY DEF FinishTask
<1>3. /\ x \in ProcState /\ x.pc = "endread" /\ x.cmd = how
      /\ x.run = proc[p].run /\ x.sid = proc[p].sid
  BY <1>1 DEF ProcState, Commanded, RunTarget, Target
<1>4. Fit(p, x)
  BY <1>1, <1>3 DEF Fit
<1> QED BY <1>2, <1>3, <1>4, GoesOn DEF FinishTask

LEMMA CtrlCKeeps ==
    ASSUME SessionInv, NEW p \in Procs, CtrlC(p)
    PROVE  SessionInv'
<1> DEFINE x == [proc[p] EXCEPT !.pc = "endread", !.cmd = "interrupt"]
<1>1. /\ proc[p] \in ProcState /\ Fit(p, proc[p]) /\ p \in Shells
      /\ proc[p].pc \in {"endread", "endwrite", "log"} /\ proc[p].cmd = "complete"
  BY StateOf DEF CtrlC
<1>2. proc' = [proc EXCEPT ![p] = x]
  BY DEF CtrlC
<1>3. /\ x \in ProcState /\ x.pc = "endread" /\ x.cmd = "interrupt"
      /\ x.run = proc[p].run /\ x.sid = proc[p].sid
  BY <1>1 DEF ProcState, Commanded
<1>4. Fit(p, x)
  BY <1>1, <1>3 DEF Fit, RunTarget
<1> QED BY <1>2, <1>3, <1>4, GoesOn DEF CtrlC

\* The run whose end is recorded is in the table, or went with its session.
LEMMA EndingRun ==
    ASSUME SessionInv, NEW p \in Procs, proc[p].pc \in {"endread", "endwrite"}
    PROVE  /\ proc[p].run \in Runs /\ proc[p].sid \in Sessions
           /\ proc[p].cmd \in DOMAIN RunTarget /\ p \in Shells
           /\ runs[proc[p].run].sid = proc[p].sid
           /\ \/ RunExists(proc[p].run)
              \/ runs[proc[p].run].st = "deleted" /\ sess[proc[p].sid] = "deleted"
           /\ proc[p].pc = "endwrite" => runs[proc[p].run].st \in {"running", "deleted"}
<1>1. proc[p] \in ProcState /\ Fit(p, proc[p])
  BY StateOf
<1>2. /\ proc[p].run \in Runs /\ proc[p].sid \in Sessions
      /\ proc[p].cmd \in DOMAIN RunTarget /\ p \in Shells
  BY <1>1 DEF Fit
<1>3. /\ runs[proc[p].run].sid = proc[p].sid /\ runs[proc[p].run].st # "none"
      /\ proc[p].pc = "endwrite" => runs[proc[p].run].st \in {"running", "deleted"}
  BY <1>2 DEF SessionInv, RunsFit
<1> QED BY <1>2, <1>3 DEF SessionInv, RowsFit, TypeOK, RunExists

LEMMA ReadRunKeeps ==
    ASSUME SessionInv, NEW p \in Procs, ReadRun(p)
    PROVE  SessionInv'
<1> DEFINE r == proc[p].run
           legal == RunExists(r) /\ RunTarget[proc[p].cmd] \in RunTransitions[runs[r].st]
           x == [proc[p] EXCEPT !.pc = "endwrite"]
<1>1. proc[p] \in ProcState /\ Fit(p, proc[p]) /\ proc[p].pc = "endread"
  BY StateOf DEF ReadRun
<1>2. proc' = [proc EXCEPT ![p] = IF legal THEN x ELSE Rest(p)]
  BY DEF ReadRun
<1>3. UNCHANGED <<sess, runs, log, mem, done, lost, faults>>
  BY DEF ReadRun
<1>4. /\ r \in Runs /\ proc[p].cmd \in DOMAIN RunTarget /\ p \in Shells
      /\ RunExists(r) \/ runs[r].st = "deleted"
  <2>1. proc[p].pc \in {"endread", "endwrite"}
    BY <1>1
  <2> QED BY <2>1, EndingRun
<1>5. runs[r].st = "running" <=> legal
  BY <1>4 DEF RunExists, RunTarget, RunTransitions, RunEnds
<1>6. CASE legal
  <2>1. /\ x \in ProcState /\ x.pc = "endwrite" /\ x.cmd = proc[p].cmd
        /\ x.run = r /\ x.sid = proc[p].sid
    BY <1>1 DEF ProcState
  <2>2. Fit(p, x)
    BY <2>1, <1>1 DEF Fit
  <2> QED BY <2>1, <2>2, <1>2, <1>3, <1>5, <1>6, GoesOn
<1>7. CASE ~legal
  <2>1. /\ Rest(p) \in ProcState /\ Fit(p, Rest(p)) /\ Rest(p).run = NoRun
        /\ Rest(p).pc # "log"
    BY RestFits DEF SessionInv
  <2> QED BY <2>1, <1>2, <1>3, <1>5, <1>7, GoesOn
<1> QED BY <1>6, <1>7

LEMMA WriteRunKeeps ==
    ASSUME SessionInv, NEW p \in Procs, WriteRun(p)
    PROVE  SessionInv'
<1> DEFINE r == proc[p].run
           x == [proc[p] EXCEPT !.pc = "log"]
           e == [sid |-> x.sid, run |-> x.run, type |-> x.cmd]
<1>1. proc[p] \in ProcState /\ Fit(p, proc[p]) /\ proc[p].pc = "endwrite"
  BY StateOf DEF WriteRun
<1>2. /\ proc' = [proc EXCEPT ![p] = x]
      /\ UNCHANGED <<sess, log, mem, lost, faults>>
  BY DEF WriteRun
<1>3. /\ x \in ProcState /\ x.pc = "log" /\ x.cmd = proc[p].cmd
      /\ x.run = r /\ x.sid = proc[p].sid
  BY <1>1 DEF ProcState
<1>4. /\ r \in Runs /\ proc[p].sid \in Sessions /\ proc[p].cmd \in DOMAIN RunTarget
      /\ p \in Shells /\ runs[r].sid = proc[p].sid
      /\ RunExists(r) \/ (runs[r].st = "deleted" /\ sess[proc[p].sid] = "deleted")
      /\ runs[r].st \in {"running", "deleted"}
  <2>1. proc[p].pc \in {"endread", "endwrite"}
    BY <1>1
  <2> QED BY <1>1, <2>1, EndingRun
<1>5. Fit(p, x)
  BY <1>1, <1>3, <1>4 DEF Fit, RunTarget
<1>6. /\ runs' \in [Runs -> [st : DOMAIN RunTransitions \cup {"none", "deleted"},
                             sid : Sessions \cup {NoSession}]]
      /\ \A o \in Runs : o # r => runs'[o] = runs[o]
      /\ done \subseteq done' /\ done' \subseteq Event
      /\ e \in done' \/ sess[x.sid] = "deleted"
      /\ runs'[r].st # "none" /\ runs'[r].sid = x.sid /\ runs'[r].st # "running"
      /\ runs'[r].st = "deleted" => runs'[r] = runs[r]
  <2>1. CASE RunExists(r)
    <3>1. /\ runs' = [runs EXCEPT ![r].st = RunTarget[proc[p].cmd]]
          /\ done' = done \cup {EventOf(p)}
      BY <2>1 DEF WriteRun
    <3>2. RunTarget[proc[p].cmd] \in RunEnds
      BY <1>4 DEF RunTarget, RunEnds
    <3>3. /\ runs' \in [Runs -> [st : DOMAIN RunTransitions \cup {"none", "deleted"},
                                 sid : Sessions \cup {NoSession}]]
          /\ \A o \in Runs : o # r => runs'[o] = runs[o]
          /\ runs'[r].st = RunTarget[proc[p].cmd] /\ runs'[r].sid = runs[r].sid
      BY <1>4, <3>1, <3>2 DEF SessionInv, TypeOK, RunTransitions, RunEnds
    <3>4. EventOf(p) = e /\ e \in Event
      BY <1>3, <1>4 DEF EventOf, Event, RunTarget, Target
    <3>5. done \subseteq done' /\ done' \subseteq Event /\ e \in done'
      BY <3>1, <3>4 DEF SessionInv, TypeOK
    <3> QED BY <3>2, <3>3, <3>5, <1>3, <1>4 DEF RunEnds
  <2>2. CASE ~RunExists(r)
    <3>1. UNCHANGED <<runs, done>> /\ runs[r].st = "deleted" /\ sess[proc[p].sid] = "deleted"
      BY <2>2, <1>4 DEF WriteRun
    <3> QED BY <3>1, <1>3, <1>4 DEF SessionInv, TypeOK
  <2> QED BY <2>1, <2>2
<1>7. Write(p, x)
  BY <1>2, <1>3, <1>4, <1>5, <1>6 DEF Write, Moves, SessForward, SessionInv, TypeOK
<1> QED BY <1>7, WriteKeeps

LEMMA FaultKeeps ==
    ASSUME SessionInv, NEW p \in Procs, StorageError(p) \/ Crash(p)
    PROVE  SessionInv'
<1>1. faults' \in 0 .. MaxFaults
  BY SessionAssumption DEF SessionInv, TypeOK, StorageError, Crash
<1>2. CASE Crash(p)
  BY <1>1, <1>2, RestFits, LeaveKeeps DEF Crash, SessionInv, Idle
<1>3. CASE StorageError(p)
  <2> DEFINE x == IF proc[p].cmd = "create" /\ p \in Shells
                  THEN [Rest(p) EXCEPT !.sid = proc[p].was] ELSE Rest(p)
  <2>1. /\ Rest(p) \in ProcState /\ Fit(p, Rest(p)) /\ Rest(p).run = NoRun
        /\ Rest(p).pc \in {"idle", "shell"} /\ NoRun \notin Runs
        /\ p \in Shells => Rest(p).pc = "shell"
    BY RestFits, StateOf DEF SessionInv, Rest, ProcState
  <2>2. proc[p].was \in Sessions \cup {NoSession}
    BY StateOf DEF ProcState
  <2>3. /\ x \in ProcState /\ x.run = NoRun /\ x.pc \in {"idle", "shell"}
        /\ p \in Shells => x.pc = "shell"
    BY <2>1, <2>2 DEF ProcState
  <2>4. Fit(p, x)
    BY <2>1, <2>3 DEF Fit
  <2>5. /\ proc' = [proc EXCEPT ![p] = x] /\ Abandon(p, "fault")
        /\ UNCHANGED <<sess, runs, log, mem, done>>
    BY <1>3 DEF StorageError
  <2> QED BY <1>1, <2>3, <2>4, <2>5, LeaveKeeps
<1> QED BY <1>2, <1>3

LEMMA EscapeKeeps ==
    ASSUME SessionInv, NEW p \in Procs, CtrlCEscapes(p)
    PROVE  SessionInv'
<1>1. faults' \in 0 .. MaxFaults
  BY DEF SessionInv, TypeOK, CtrlCEscapes
<1> QED BY <1>1, RestFits, LeaveKeeps DEF CtrlCEscapes, SessionInv, Idle

LEMMA ExitKeeps ==
    ASSUME SessionInv, NEW p \in Procs, ExitShell(p)
    PROVE  SessionInv'
<1>1. proc[p].run \notin Runs
  BY StateOf DEF ExitShell, Fit
<1> QED BY <1>1, RestFits, GoesOn DEF ExitShell, SessionInv, Idle

-----------------------------------------------------------------------------
LEMMA InitHolds == Init => SessionInv
<1> SUFFICES ASSUME Init PROVE SessionInv
  OBVIOUS
<1>1. Idle \in ProcState /\ Idle.pc = "idle" /\ Idle.run \notin Runs
  BY SessionAssumption DEF Idle, ProcState, Commanded
<1>2. TypeOK
  <2>1. proc \in [Procs -> ProcState]
    BY <1>1 DEF Init
  <2> QED BY <2>1, SessionAssumption DEF Init, TypeOK, ProcState, Commanded
<1>3. ProcsFit
  BY <1>1 DEF Init, ProcsFit
<1> QED BY <1>1, <1>2, <1>3
        DEF Init, SessionInv, RowsFit, RunsFit, EventsFit, LogIsTrue, RunningIsTended

LEMMA NextKeeps ==
    ASSUME SessionInv, [Next]_vars
    PROVE  SessionInv'
<1>1. CASE UNCHANGED vars
  BY <1>1 DEF vars, SessionInv, TypeOK, ProcsFit, RowsFit, RunsFit, EventsFit,
              LogIsTrue, RunningIsTended, EventOf, IsEnd
<1>2. ASSUME NEW p \in Procs, Continue(p)
      PROVE  SessionInv'
  BY <1>2, WriteSessionKeeps, EmitKeeps, ReadRunKeeps, WriteRunKeeps, FinishTaskKeeps
     DEF Continue
<1>3. ASSUME NEW p \in Procs,
             \/ StartRun(p) \/ CtrlC(p) \/ DeleteSession(p) \/ Decline(p)
             \/ StorageError(p) \/ Crash(p) \/ CtrlCEscapes(p) \/ ExitShell(p)
             \/ \E r \in Runs : InsertRun(p, r)
      PROVE  SessionInv'
  BY <1>3, StartRunKeeps, CtrlCKeeps, DeleteKeeps, DeclineKeeps, FaultKeeps, EscapeKeeps, ExitKeeps,
     InsertRunKeeps
<1>4. ASSUME NEW p \in Procs, NEW s \in Sessions,
             \/ CreateSession(p, s) \/ AttachSession(p, s) \/ AskDelete(p, s)
             \/ AddMemory(p, s)
             \/ \E cmd \in Commands : ReadSession(p, cmd, s)
      PROVE  SessionInv'
  BY <1>4, CreateKeeps, AttachKeeps, AskDeleteKeeps, AddMemoryKeeps, ReadSessionKeeps
<1> QED BY <1>1, <1>2, <1>3, <1>4 DEF Next

\* The inductive invariant: types, what a process between two storage calls has
\* read and holds, the rows and the events it will write (SessionManager).
THEOREM SessionInvariant == Spec => []SessionInv
  BY InitHolds, NextKeeps, PTL DEF Spec

\* The event log tells of nothing that did not happen (_emit_event comes last).
THEOREM SessionLogIsTrue == Spec => []LogIsTrue
  BY SessionInvariant, PTL DEF SessionInv

\* A RUNNING row has a shell at work on it, or a fault took the shell away, or a
\* Ctrl+C that start_run, fail_run or interrupt_run did not survive.
THEOREM SessionRunningIsTended == Spec => []RunningIsTended
  BY SessionInvariant, PTL DEF SessionInv

\* A run ends once and is logged to end once, however Ctrl+C and faults cut
\* the calls that say so (RUN_TRANSITIONS).
THEOREM SessionEndIsFinal == Spec => EndIsFinal
<1> DEFINE Ends(r) == {e \in log : e.run = r /\ e.type \in DOMAIN RunTarget}
           Step(r) == /\ runs[r].st \in RunEnds => runs'[r].st \in {runs[r].st, "deleted"}
                      /\ Cardinality(Ends(r)') <= 1
<1>1. ASSUME SessionInv, SessionInv', [Next]_vars, NEW r \in Runs
      PROVE  Step(r)
  <2>1. ASSUME runs[r].st \in RunEnds
        PROVE  runs'[r].st \in {runs[r].st, "deleted"}
    <3> SUFFICES ASSUME runs'[r] # runs[r] PROVE runs'[r].st = "deleted"
      OBVIOUS
    <3>1. CASE \E p \in Procs : WriteRun(p)
      <4>1. PICK p \in Procs : WriteRun(p)
        BY <3>1
      <4>2. proc[p].run = r /\ proc[p].pc = "endwrite"
        BY <1>1, <4>1 DEF WriteRun, SessionInv, TypeOK
      <4>3. runs[r].st \in {"running", "deleted"}
        BY <1>1, <4>2, EndingRun
      <4> QED BY <4>3, <2>1 DEF RunEnds
    <3>2. CASE \E p \in Procs, o \in Runs : InsertRun(p, o)
      BY <1>1, <3>2, <2>1 DEF InsertRun, RunEnds, SessionInv, TypeOK
    <3>3. CASE \E p \in Procs : DeleteSession(p)
      BY <1>1, <3>3 DEF DeleteSession, SessionInv, TypeOK
    <3>4. runs' # runs => \/ \E p \in Procs : WriteRun(p) \/ DeleteSession(p)
                          \/ \E p \in Procs, o \in Runs : InsertRun(p, o)
      BY <1>1 DEF Next, Continue, vars, WriteSession, EmitEvent, ReadRun, FinishTask, StartRun,
             CtrlC, Decline, StorageError, Crash, CtrlCEscapes, ExitShell, CreateSession,
             AttachSession, AskDelete, AddMemory, ReadSession
    <3> QED BY <3>1, <3>2, <3>3, <3>4
  <2>2. Cardinality(Ends(r)') <= 1
    <3>1. \A e, f \in Ends(r)' : e = f
      BY <1>1 DEF SessionInv, EventsFit, IsEnd
    <3>2. CASE Ends(r)' = {}
      BY <3>2, FS_EmptySet
    <3>3. CASE Ends(r)' # {}
      <4>1. PICK e : e \in Ends(r)'
        BY <3>3
      <4>2. Ends(r)' = {e}
        BY <3>1, <4>1
      <4>3. Cardinality({e}) = 1
        BY FS_Singleton
      <4> QED BY <4>2, <4>3
    <3> QED BY <3>2, <3>3
  <2> QED BY <2>1, <2>2
<1>2. SessionInv /\ SessionInv' /\ [Next]_vars =>
         [\A r \in Runs :
             /\ runs[r].st \in RunEnds => runs'[r].st \in {runs[r].st, "deleted"}
             /\ Cardinality({e \in log' : e.run = r /\ e.type \in DOMAIN RunTarget}) <= 1]_vars
  BY <1>1
<1> QED BY <1>2, SessionInvariant, PTL DEF EndIsFinal, Spec

\* A status leaves the table of transitions only when the writer had read one
\* that another process has changed since (Session.transition_to).
THEOREM SessionStepsAreLegal == Spec => StepsAreLegal
<1> DEFINE Legal(s) ==
             \/ sess'[s] \in SessionTransitions[sess[s]] \cup {"deleted"}
             \/ \E p \in Clis : /\ proc[p].pc = "write" /\ proc'[p].pc = "log"
                                /\ proc[p].sid = s /\ proc[p].seen # sess[s]
<1>1. ASSUME SessionInv, [Next]_vars, NEW s \in Sessions,
             sess[s] \in Status, sess'[s] # sess[s]
      PROVE  Legal(s)
  <2>1. CASE \E p \in Procs : WriteSession(p)
    <3>1. PICK p \in Procs : WriteSession(p)
      BY <2>1
    <3>2. /\ proc[p].pc = "write" /\ proc[p].sid = s /\ sess'[s] = Target[proc[p].cmd]
      BY <3>1, <1>1 DEF WriteSession, SessionInv, TypeOK
    <3>3. /\ Target[proc[p].cmd] \in SessionTransitions[proc[p].seen] /\ p \in Clis
      BY <3>2, StateOf, <1>1 DEF Fit
    <3>4. proc'[p].pc = "log"
      BY <3>1, <1>1 DEF WriteSession, SessionInv, TypeOK
    <3> QED BY <3>2, <3>3, <3>4
  <2>2. CASE \E p \in Procs, t \in Sessions : CreateSession(p, t)
    BY <2>2, <1>1 DEF CreateSession, Status, SessionInv, TypeOK
  <2>3. CASE \E p \in Procs : DeleteSession(p)
    BY <2>3, <1>1 DEF DeleteSession, SessionInv, TypeOK
  <2>4. sess' # sess => \/ \E p \in Procs : WriteSession(p) \/ DeleteSession(p)
                        \/ \E p \in Procs, t \in Sessions : CreateSession(p, t)
    BY <1>1 DEF Next, Continue, vars, WriteRun, EmitEvent, ReadRun, FinishTask, StartRun,
           CtrlC, Decline, StorageError, Crash, CtrlCEscapes, ExitShell, InsertRun,
           AttachSession, AskDelete, AddMemory, ReadSession
  <2> QED BY <2>1, <2>2, <2>3, <2>4, <1>1
<1>2. SessionInv /\ [Next]_vars =>
         [\A s \in Sessions :
             (sess[s] \in Status /\ sess'[s] # sess[s]) =>
                \/ sess'[s] \in SessionTransitions[sess[s]] \cup {"deleted"}
                \/ \E p \in Clis : /\ proc[p].pc = "write" /\ proc'[p].pc = "log"
                                   /\ proc[p].sid = s /\ proc[p].seen # sess[s]]_vars
  BY <1>1
<1> QED BY <1>2, SessionInvariant, PTL DEF StepsAreLegal, Spec
=============================================================================
