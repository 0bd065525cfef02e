----------------------------- MODULE PerfRunProofs -----------------------------
(***************************************************************************)
(* PerfRun's safety invariants hold for every set of exit codes and every  *)
(* amount of work.  The inductive invariant says, for each control point   *)
(* of the parent, what the child can be doing, who holds the pipe, which   *)
(* events are on, what they have counted and what will be returned.        *)
(***************************************************************************)
EXTENDS PerfRun, TLAPS

BeforeFork == {"main", "pipe", "fork", "raw_open", "raw_run", "raw_bench"}
Gated      == {"close_rd", "open", "reset", "enable", "release"}
Reaped     == {"disable", "read", "print"}

\* Which part of its life the child is in, given the parent's control point.
ChildPhase ==
  /\ pc \in BeforeFork => child = "none" /\ token = 0
  /\ pc \in Gated \cup {"fail_child", "fail_wait"} =>
       token = 0 /\ child \in {"born", "reading", "zombie"}
  /\ pc \in {"close_wr", "wait"} => child \in ChildAlive \cup {"zombie"}
  /\ pc \in Reaped => child = "reaped"
  /\ pc = "done" => child \in {"none", "reaped"}

\* Who can hold an end of the pipe.
PipePhase ==
  /\ "child" \in wr => child = "born"
  /\ "child" \in rd => child \in {"born", "reading", "got"}
  /\ "parent" \in wr => pc \in Gated \cup {"fork", "close_wr", "fail_child"}
  /\ "parent" \in rd => pc \in {"fork", "close_rd"}

\* Which events are on, and that none is open once the wrapper returns.
EventPhase ==
  /\ pc \in {"main", "pipe", "fork", "close_rd"} => \A e \in Events : ev[e] = "none"
  /\ pc \in {"enable", "raw_open"} /\ at = "instret" => ev["cycles"] = "enabled"
  /\ pc \in {"release", "close_wr", "wait", "raw_run", "raw_bench"} =>
       \A e \in Events : ev[e] = "enabled"
  /\ pc \in {"fail_wait", "done"} => \A e \in Events : ev[e] \in {"none", "closed"}
  /\ at = "instret" => pc \in {"open", "reset", "enable", "disable", "read", "raw_open"}

\* What the counts are, relative to the work of the benchmark.
CountPhase ==
  /\ pc \in {"main", "pipe", "fork"} \cup Gated => work = 0
  /\ pc \in {"main", "pipe", "fork"} => \A e \in Events : count[e] = 0
  /\ child \in {"born", "reading", "got", "exec"} => work = 0
  /\ \A e \in Events :
       /\ child = "born"    => count[e] = 0
       /\ child = "reading" => count[e] <= 1
       /\ child = "got"     => count[e] <= 2
       /\ child = "exec"    => count[e] <= 3
       /\ child \in {"running", "zombie", "reaped"} => count[e] <= work + 4
       /\ pc \in {"close_wr", "wait"} \cup Reaped => work <= count[e]
  /\ got # {} => child = "reaped"
  /\ \A e \in got : out[e] = count[e] /\ work <= count[e] /\ count[e] <= work + 4

\* What the caller will be told.
ReportPhase ==
  /\ cstatus % 256 = 0 \/ cstatus \in {SIGHUP, SIGKILL}
  /\ pc \in {"raw_open", "raw_run", "raw_bench"} => args.mode = "raw"
  /\ pc \in Reaped => status \in {cstatus, EXIT_FAILURE}
  /\ pc = "read" /\ at = "instret" => "cycles" \in got
  /\ pc = "print" => got = Events \/ status = EXIT_FAILURE
  /\ args.mode = "user_count" /\ pc \in ParentFinal /\ ret = 0 =>
       child = "reaped" /\ cstatus = 0 /\ got = Events

IInv == TypeOK /\ ChildPhase /\ PipePhase /\ EventPhase /\ CountPhase /\ ReportPhase

\* A set of events that has both is all of them.
LEMMA BothEvents ==
  ASSUME NEW S \in SUBSET Events, "cycles" \in S
  PROVE  S \cup {"instret"} = Events
  BY DEF Events

\* Types of the control state.
LEMMA ControlTypeOKStep ==
  ControlTypeOK /\ [Next]_vars => ControlTypeOK'
  <1> SUFFICES ASSUME ControlTypeOK, [Next]_vars PROVE ControlTypeOK'
    OBVIOUS
  <1> USE DEF ControlTypeOK, ParentRunning, ParentFinal, ChildAlive, Events, Goto,
        Advance, Return, FailChild, parent, kid, pipe, obs
  <1>1. CASE main
    BY <1>1 DEF main
  <1>2. CASE MakePipe
    BY <1>2 DEF MakePipe
  <1>3. CASE Fork
    BY <1>3 DEF Fork
  <1>4. CASE CloseReadEnd
    BY <1>4 DEF CloseReadEnd
  <1>5. CASE open_hw_event
    BY <1>5 DEF open_hw_event
  <1>6. CASE Reset
    BY <1>6 DEF Reset
  <1>7. CASE Enable
    BY <1>7 DEF Enable
  <1>8. CASE Release
    BY <1>8 DEF Release, ParentDies
  <1>9. CASE CloseWriteEnd
    BY <1>9 DEF CloseWriteEnd
  <1>10. CASE Wait
    BY <1>10 DEF Wait
  <1>11. CASE Disable
    BY <1>11 DEF Disable
  <1>12. CASE read_u64
    BY <1>12 DEF read_u64
  <1>13. CASE ReportCounts
    BY <1>13 DEF ReportCounts
  <1>14. CASE CloseAll
    BY <1>14 DEF CloseAll
  <1>15. CASE FailWait
    BY <1>15 DEF FailWait
  <1>16. CASE RawOpen
    BY <1>16 DEF RawOpen
  <1>17. CASE RawRun
    BY <1>17 DEF RawRun
  <1>18. CASE RawBench
    BY <1>18 DEF RawBench, Tick
  <1>19. CASE ChildRead
    BY <1>19 DEF ChildRead, Tick, ChildDies
  <1>20. CASE ChildExec
    BY <1>20 DEF ChildExec, Tick, ChildDies
  <1>21. CASE ChildCloseWriteEnd
    BY <1>21 DEF ChildCloseWriteEnd, Tick
  <1>22. CASE ChildCloseReadEnd
    BY <1>22 DEF ChildCloseReadEnd, Tick
  <1>23. CASE ChildExit
    BY <1>23 DEF ChildExit, ChildDies
  <1>24. CASE ChildKilled
    BY <1>24 DEF ChildKilled, ChildDies
  <1>25. CASE ParentKilled
    BY <1>25 DEF ParentKilled, ParentDies
  <1>26. CASE UNCHANGED <<args, pc, at, child>>
    BY <1>26
  <1>27. QED
    BY <1>1, <1>2, <1>3, <1>4, <1>5, <1>6, <1>7, <1>8, <1>9, <1>10, <1>11, <1>12,
       <1>13, <1>14, <1>15, <1>16, <1>17, <1>18, <1>19, <1>20, <1>21, <1>22, <1>23,
       <1>24, <1>25, <1>26
    DEF Next, ParentStep, ChildStep, Terminated, vars, ChildWork, ThreadWork, Tick

\* Types of the pipe.
LEMMA PipeTypeOKStep ==
  PipeTypeOK /\ [Next]_vars => PipeTypeOK'
  <1> SUFFICES ASSUME PipeTypeOK, [Next]_vars PROVE PipeTypeOK'
    OBVIOUS
  <1> USE DEF PipeTypeOK, Procs, Goto, Advance, Return, FailChild, parent, kid, pipe,
        obs
  <1>1. CASE MakePipe
    BY <1>1 DEF MakePipe
  <1>2. CASE Fork
    BY <1>2 DEF Fork
  <1>3. CASE CloseReadEnd
    BY <1>3 DEF CloseReadEnd
  <1>4. CASE Release
    BY <1>4 DEF Release, ParentDies
  <1>5. CASE CloseWriteEnd
    BY <1>5 DEF CloseWriteEnd
  <1>6. CASE CloseAll
    BY <1>6 DEF CloseAll
  <1>7. CASE ChildCloseWriteEnd
    BY <1>7 DEF ChildCloseWriteEnd, Tick
  <1>8. CASE ChildRead
    <2>1. CASE token > 0
      <3>1. token' = 0 /\ wr' = wr /\ rd' = rd
        BY <1>8, <2>1 DEF ChildRead
      <3>2. QED
        BY <3>1
    <2>2. CASE ~(token > 0)
      BY <1>8, <2>2 DEF ChildRead, ChildDies
    <2>3. QED
      BY <2>1, <2>2
  <1>9. CASE ChildCloseReadEnd
    BY <1>9 DEF ChildCloseReadEnd, Tick
  <1>10. CASE ChildExec
    BY <1>10 DEF ChildExec, Tick, ChildDies
  <1>11. CASE ChildExit
    BY <1>11 DEF ChildExit, ChildDies
  <1>12. CASE ChildKilled
    BY <1>12 DEF ChildKilled, ChildDies
  <1>13. CASE ParentKilled
    BY <1>13 DEF ParentKilled, ParentDies
  <1>14. CASE UNCHANGED <<wr, rd, token>>
    BY <1>14
  <1>15. QED
    BY <1>1, <1>2, <1>3, <1>4, <1>5, <1>6, <1>7, <1>8, <1>9, <1>10, <1>11, <1>12,
       <1>13, <1>14
    DEF Next, ParentStep, ChildStep, Terminated, vars, main, open_hw_event, Reset,
        Enable, Wait, Disable, read_u64, ReportCounts, FailWait, RawOpen, RawRun, RawBench,
        ChildWork, ThreadWork, Tick

\* Types of the events and of the observation.
LEMMA CountTypeOKStep ==
  ControlTypeOK /\ CountTypeOK /\ [Next]_vars => CountTypeOK'
  <1> SUFFICES ASSUME ControlTypeOK, CountTypeOK, [Next]_vars PROVE CountTypeOK'
    OBVIOUS
  <1> USE DEF ControlTypeOK, CountTypeOK, Events, Goto, Advance, Return, FailChild,
        parent, kid, pipe, obs
  <1>1. CASE open_hw_event
    BY <1>1 DEF open_hw_event
  <1>2. CASE Reset
    BY <1>2 DEF Reset
  <1>3. CASE Enable
    BY <1>3 DEF Enable
  <1>4. CASE Release
    BY <1>4 DEF Release, ParentDies
  <1>5. CASE Disable
    BY <1>5 DEF Disable
  <1>6. CASE read_u64
    BY <1>6 DEF read_u64
  <1>7. CASE ReportCounts
    BY <1>7 DEF ReportCounts
  <1>8. CASE CloseAll
    BY <1>8 DEF CloseAll
  <1>9. CASE RawOpen
    BY <1>9 DEF RawOpen
  <1>10. CASE RawRun
    BY <1>10 DEF RawRun
  <1>11. CASE RawBench
    BY <1>11, BoundsAssumption DEF RawBench, Tick
  <1>12. CASE ChildCloseWriteEnd
    BY <1>12 DEF ChildCloseWriteEnd, Tick
  <1>13. CASE ChildRead
    BY <1>13 DEF ChildRead, Tick, ChildDies
  <1>14. CASE ChildCloseReadEnd
    BY <1>14 DEF ChildCloseReadEnd, Tick
  <1>15. CASE ChildExec
    BY <1>15 DEF ChildExec, Tick, ChildDies
  <1>16. CASE ChildWork
    BY <1>16, BoundsAssumption DEF ChildWork, Tick
  <1>17. CASE ThreadWork
    BY <1>17, BoundsAssumption DEF ThreadWork
  <1>18. CASE ParentKilled
    BY <1>18 DEF ParentKilled, ParentDies
  <1>19. CASE UNCHANGED <<ev, count, out, work, twork, got>>
    BY <1>19
  <1>20. QED
    BY <1>1, <1>2, <1>3, <1>4, <1>5, <1>6, <1>7, <1>8, <1>9, <1>10, <1>11, <1>12,
       <1>13, <1>14, <1>15, <1>16, <1>17, <1>18, <1>19
    DEF Next, ParentStep, ChildStep, Terminated, vars, main, MakePipe, Fork,
        CloseReadEnd, CloseWriteEnd, Wait, FailWait, ChildExit, ChildKilled, ChildDies

\* Types of the statuses: 16 bits of wait status, 8 of exit code.
LEMMA StatusTypeOKStep ==
  StatusTypeOK /\ [Next]_vars => StatusTypeOK'
  <1> SUFFICES ASSUME StatusTypeOK, [Next]_vars PROVE StatusTypeOK'
    OBVIOUS
  <1> USE DEF StatusTypeOK, EXIT_FAILURE, Goto, Advance, Return, FailChild, parent,
        kid, pipe, obs
  <1>1. CASE main
    BY <1>1 DEF main
  <1>2. CASE MakePipe
    BY <1>2 DEF MakePipe
  <1>3. CASE Fork
    BY <1>3 DEF Fork
  <1>4. CASE Release
    BY <1>4 DEF Release, ParentDies, SIGPIPE
  <1>5. CASE Wait
    BY <1>5 DEF Wait
  <1>6. CASE read_u64
    BY <1>6 DEF read_u64
  <1>7. CASE ReportCounts
    BY <1>7 DEF ReportCounts, wait_status_to_exit, WIFEXITED, WEXITSTATUS, WTERMSIG
  <1>8. CASE FailWait
    BY <1>8 DEF FailWait
  <1>9. CASE RawOpen
    BY <1>9 DEF RawOpen
  <1>10. CASE RawRun
    BY <1>10 DEF RawRun
  <1>11. CASE RawBench
    BY <1>11, BoundsAssumption DEF RawBench, Tick
  <1>12. CASE ChildRead
    BY <1>12 DEF ChildRead, Tick, ChildDies, Exited
  <1>13. CASE ChildExec
    BY <1>13 DEF ChildExec, Tick, ChildDies, Exited
  <1>14. CASE ChildExit
    BY <1>14, BoundsAssumption DEF ChildExit, ChildDies, Exited
  <1>15. CASE ChildKilled
    BY <1>15 DEF ChildKilled, ChildDies, Signaled, SIGHUP, SIGKILL
  <1>16. CASE ParentKilled
    BY <1>16 DEF ParentKilled, ParentDies, SIGKILL
  <1>17. CASE UNCHANGED <<cstatus, status, ret>>
    BY <1>17
  <1>18. QED
    BY <1>1, <1>2, <1>3, <1>4, <1>5, <1>6, <1>7, <1>8, <1>9, <1>10, <1>11, <1>12,
       <1>13, <1>14, <1>15, <1>16, <1>17
    DEF Next, ParentStep, ChildStep, Terminated, vars, CloseReadEnd, open_hw_event,
        Reset, Enable, CloseWriteEnd, Disable, CloseAll, ChildCloseWriteEnd,
        ChildCloseReadEnd, ChildWork, ThreadWork, Tick

\* The parent's control point bounds where the child can be.
LEMMA ChildPhaseStep ==
  PipeTypeOK /\ ChildPhase /\ [Next]_vars => ChildPhase'
  <1> SUFFICES ASSUME PipeTypeOK, ChildPhase, [Next]_vars PROVE ChildPhase'
    OBVIOUS
  <1> USE DEF PipeTypeOK, ChildPhase, BeforeFork, Gated, Reaped, ChildAlive, Goto,
        Advance, Return, FailChild, parent, kid, pipe, obs
  <1>1. CASE main
    BY <1>1 DEF main
  <1>2. CASE MakePipe
    BY <1>2 DEF MakePipe
  <1>3. CASE Fork
    BY <1>3 DEF Fork
  <1>4. CASE CloseReadEnd
    BY <1>4 DEF CloseReadEnd
  <1>5. CASE open_hw_event
    BY <1>5 DEF open_hw_event
  <1>6. CASE Reset
    BY <1>6 DEF Reset
  <1>7. CASE Release
    BY <1>7 DEF Release, ParentDies
  <1>8. CASE CloseWriteEnd
    BY <1>8 DEF CloseWriteEnd
  <1>9. CASE Wait
    BY <1>9 DEF Wait
  <1>10. CASE Disable
    BY <1>10 DEF Disable
  <1>11. CASE read_u64
    BY <1>11 DEF read_u64
  <1>12. CASE ReportCounts
    BY <1>12 DEF ReportCounts
  <1>13. CASE CloseAll
    BY <1>13 DEF CloseAll
  <1>14. CASE FailWait
    BY <1>14 DEF FailWait
  <1>15. CASE RawOpen
    BY <1>15 DEF RawOpen
  <1>16. CASE RawRun
    BY <1>16 DEF RawRun
  <1>17. CASE Enable
    BY <1>17 DEF Enable
  <1>18. CASE RawBench
    BY <1>18 DEF RawBench, Tick
  <1>19. CASE ChildCloseWriteEnd
    BY <1>19 DEF ChildCloseWriteEnd, Tick
  <1>20. CASE ChildRead
    BY <1>20 DEF ChildRead, Tick, ChildDies
  <1>21. CASE ChildCloseReadEnd
    BY <1>21 DEF ChildCloseReadEnd, Tick
  <1>22. CASE ChildExec
    BY <1>22 DEF ChildExec, Tick, ChildDies
  <1>23. CASE ChildExit
    BY <1>23 DEF ChildExit, ChildDies
  <1>24. CASE ChildKilled
    BY <1>24 DEF ChildKilled, ChildDies
  <1>25. CASE ParentKilled
    BY <1>25 DEF ParentKilled, ParentDies
  <1>26. CASE UNCHANGED <<pc, child, token>>
    BY <1>26
  <1>27. QED
    BY <1>1, <1>2, <1>3, <1>4, <1>5, <1>6, <1>7, <1>8, <1>9, <1>10, <1>11, <1>12,
       <1>13, <1>14, <1>15, <1>16, <1>17, <1>18, <1>19, <1>20, <1>21, <1>22, <1>23,
       <1>24, <1>25, <1>26
    DEF Next, ParentStep, ChildStep, Terminated, vars, ChildWork, ThreadWork, Tick

\* Who can hold an end of the pipe.
LEMMA PipePhaseStep ==
  ChildPhase /\ PipePhase /\ [Next]_vars => PipePhase'
  <1> SUFFICES ASSUME ChildPhase, PipePhase, [Next]_vars PROVE PipePhase'
    OBVIOUS
  <1> USE DEF ChildPhase, PipePhase, BeforeFork, Gated, Reaped, ChildAlive, Procs,
        Goto, Advance, Return, FailChild, parent, kid, pipe, obs
  <1>1. CASE main
    BY <1>1 DEF main
  <1>2. CASE MakePipe
    BY <1>2 DEF MakePipe
  <1>3. CASE Fork
    BY <1>3 DEF Fork
  <1>4. CASE CloseReadEnd
    BY <1>4 DEF CloseReadEnd
  <1>5. CASE open_hw_event
    BY <1>5 DEF open_hw_event
  <1>6. CASE Reset
    BY <1>6 DEF Reset
  <1>7. CASE Enable
    BY <1>7 DEF Enable
  <1>8. CASE Release
    BY <1>8 DEF Release, ParentDies
  <1>9. CASE CloseWriteEnd
    BY <1>9 DEF CloseWriteEnd
  <1>10. CASE Wait
    BY <1>10 DEF Wait
  <1>11. CASE Disable
    BY <1>11 DEF Disable
  <1>12. CASE read_u64
    BY <1>12 DEF read_u64
  <1>13. CASE ReportCounts
    BY <1>13 DEF ReportCounts
  <1>14. CASE CloseAll
    BY <1>14 DEF CloseAll
  <1>15. CASE FailWait
    BY <1>15 DEF FailWait
  <1>16. CASE RawOpen
    BY <1>16 DEF RawOpen
  <1>17. CASE RawRun
    BY <1>17 DEF RawRun
  <1>18. CASE RawBench
    BY <1>18 DEF RawBench, Tick
  <1>19. CASE ChildCloseWriteEnd
    BY <1>19 DEF ChildCloseWriteEnd, Tick
  <1>20. CASE ChildRead
    BY <1>20 DEF ChildRead, Tick, ChildDies
  <1>21. CASE ChildCloseReadEnd
    BY <1>21 DEF ChildCloseReadEnd, Tick
  <1>22. CASE ChildExec
    BY <1>22 DEF ChildExec, Tick, ChildDies
  <1>23. CASE ChildExit
    BY <1>23 DEF ChildExit, ChildDies
  <1>24. CASE ChildKilled
    BY <1>24 DEF ChildKilled, ChildDies
  <1>25. CASE ParentKilled
    BY <1>25 DEF ParentKilled, ParentDies
  <1>26. CASE UNCHANGED <<pc, child, wr, rd>>
    BY <1>26
  <1>27. QED
    BY <1>1, <1>2, <1>3, <1>4, <1>5, <1>6, <1>7, <1>8, <1>9, <1>10, <1>11, <1>12,
       <1>13, <1>14, <1>15, <1>16, <1>17, <1>18, <1>19, <1>20, <1>21, <1>22, <1>23,
       <1>24, <1>25, <1>26
    DEF Next, ParentStep, ChildStep, Terminated, vars, ChildWork, ThreadWork, Tick

\* Which events are on.
LEMMA EventPhaseStep ==
  ControlTypeOK /\ CountTypeOK /\ EventPhase /\ [Next]_vars => EventPhase'
  <1> SUFFICES ASSUME ControlTypeOK, CountTypeOK, EventPhase, [Next]_vars PROVE EventPhase'
    OBVIOUS
  <1> USE DEF ControlTypeOK, CountTypeOK, EventPhase, Events, Goto, Advance, Return,
        FailChild, parent, kid, pipe, obs
  <1>1. CASE main
    BY <1>1 DEF main
  <1>2. CASE MakePipe
    BY <1>2 DEF MakePipe
  <1>3. CASE Fork
    BY <1>3 DEF Fork
  <1>4. CASE CloseReadEnd
    BY <1>4 DEF CloseReadEnd
  <1>5. CASE open_hw_event
    BY <1>5 DEF open_hw_event
  <1>6. CASE Reset
    BY <1>6 DEF Reset
  <1>7. CASE Enable
    BY <1>7 DEF Enable
  <1>8. CASE Release
    BY <1>8 DEF Release, ParentDies
  <1>9. CASE CloseWriteEnd
    BY <1>9 DEF CloseWriteEnd
  <1>10. CASE Wait
    BY <1>10 DEF Wait
  <1>11. CASE Disable
    BY <1>11 DEF Disable
  <1>12. CASE read_u64
    BY <1>12 DEF read_u64
  <1>13. CASE ReportCounts
    BY <1>13 DEF ReportCounts
  <1>14. CASE CloseAll
    BY <1>14 DEF CloseAll
  <1>15. CASE FailWait
    BY <1>15 DEF FailWait
  <1>16. CASE RawOpen
    BY <1>16 DEF RawOpen
  <1>17. CASE RawRun
    BY <1>17 DEF RawRun
  <1>18. CASE RawBench
    BY <1>18 DEF RawBench, Tick
  <1>19. CASE ParentKilled
    BY <1>19 DEF ParentKilled, ParentDies
  <1>20. CASE UNCHANGED <<pc, at, ev>>
    BY <1>20
  <1>21. QED
    BY <1>1, <1>2, <1>3, <1>4, <1>5, <1>6, <1>7, <1>8, <1>9, <1>10, <1>11, <1>12,
       <1>13, <1>14, <1>15, <1>16, <1>17, <1>18, <1>19, <1>20
    DEF Next, ParentStep, ChildStep, Terminated, vars, ChildCloseWriteEnd, ChildRead,
        ChildCloseReadEnd, ChildExec, ChildWork, ChildExit, ThreadWork, ChildKilled,
        Tick, ChildDies

\* What the counts are.
LEMMA CountPhaseStep ==
  ControlTypeOK /\ CountTypeOK /\ ChildPhase /\ EventPhase /\ CountPhase /\ [Next]_vars => CountPhase'
  <1> SUFFICES ASSUME ControlTypeOK, CountTypeOK, ChildPhase, EventPhase, CountPhase, [Next]_vars PROVE CountPhase'
    OBVIOUS
  <1> USE DEF ControlTypeOK, CountTypeOK, ChildPhase, EventPhase, CountPhase,
        BeforeFork, Gated, Reaped, ChildAlive, Events, Goto, Advance, Return,
        FailChild, parent, kid, pipe, obs
  <1>1. CASE main
    BY <1>1 DEF main
  <1>2. CASE MakePipe
    BY <1>2 DEF MakePipe
  <1>3. CASE Fork
    BY <1>3 DEF Fork
  <1>4. CASE CloseReadEnd
    BY <1>4 DEF CloseReadEnd
  <1>5. CASE open_hw_event
    BY <1>5 DEF open_hw_event
  <1>6. CASE Reset
    BY <1>6 DEF Reset
  <1>7. CASE Enable
    BY <1>7 DEF Enable
  <1>8. CASE Release
    BY <1>8 DEF Release, ParentDies
  <1>9. CASE CloseWriteEnd
    BY <1>9 DEF CloseWriteEnd
  <1>10. CASE Wait
    BY <1>10 DEF Wait
  <1>11. CASE Disable
    BY <1>11 DEF Disable
  <1>12. CASE read_u64
    BY <1>12 DEF read_u64
  <1>13. CASE ReportCounts
    BY <1>13 DEF ReportCounts
  <1>14. CASE CloseAll
    BY <1>14 DEF CloseAll
  <1>15. CASE FailWait
    BY <1>15 DEF FailWait
  <1>16. CASE RawOpen
    BY <1>16 DEF RawOpen
  <1>17. CASE RawRun
    BY <1>17 DEF RawRun
  <1>18. CASE RawBench
    BY <1>18 DEF RawBench, Tick
  <1>19. CASE ChildCloseWriteEnd
    BY <1>19 DEF ChildCloseWriteEnd, Tick
  <1>20. CASE ChildRead
    BY <1>20 DEF ChildRead, Tick, ChildDies
  <1>21. CASE ChildCloseReadEnd
    BY <1>21 DEF ChildCloseReadEnd, Tick
  <1>22. CASE ChildExec
    BY <1>22 DEF ChildExec, Tick, ChildDies
  <1>23. CASE ChildWork
    BY <1>23 DEF ChildWork, Tick
  <1>24. CASE ChildExit
    BY <1>24 DEF ChildExit, ChildDies
  <1>25. CASE ChildKilled
    BY <1>25 DEF ChildKilled, ChildDies
  <1>26. CASE ParentKilled
    BY <1>26 DEF ParentKilled, ParentDies
  <1>27. CASE UNCHANGED <<pc, child, ev, count, out, work, got>>
    BY <1>27
  <1>28. QED
    BY <1>1, <1>2, <1>3, <1>4, <1>5, <1>6, <1>7, <1>8, <1>9, <1>10, <1>11, <1>12,
       <1>13, <1>14, <1>15, <1>16, <1>17, <1>18, <1>19, <1>20, <1>21, <1>22, <1>23,
       <1>24, <1>25, <1>26, <1>27
    DEF Next, ParentStep, ChildStep, Terminated, vars, ThreadWork

\* What the caller is told.
LEMMA ReportPhaseStep ==
  ControlTypeOK /\ StatusTypeOK /\ CountTypeOK /\ ChildPhase /\ ReportPhase /\ [Next]_vars => ReportPhase'
  <1> SUFFICES ASSUME ControlTypeOK, StatusTypeOK, CountTypeOK, ChildPhase, ReportPhase, [Next]_vars PROVE ReportPhase'
    OBVIOUS
  <1> USE DEF ControlTypeOK, StatusTypeOK, CountTypeOK, ChildPhase, ReportPhase,
        BeforeFork, Reaped, ChildAlive, Events, ParentFinal, EXIT_FAILURE, SIGHUP,
        SIGKILL, Goto, Advance, Return, FailChild, parent, kid, pipe, obs
  <1>1. CASE main
    BY <1>1 DEF main
  <1>2. CASE MakePipe
    BY <1>2 DEF MakePipe
  <1>3. CASE Fork
    BY <1>3 DEF Fork
  <1>4. CASE CloseReadEnd
    BY <1>4 DEF CloseReadEnd
  <1>5. CASE open_hw_event
    BY <1>5 DEF open_hw_event
  <1>6. CASE Reset
    BY <1>6 DEF Reset
  <1>7. CASE Enable
    BY <1>7 DEF Enable
  <1>8. CASE Release
    BY <1>8 DEF Release, ParentDies, SIGPIPE
  <1>9. CASE CloseWriteEnd
    BY <1>9 DEF CloseWriteEnd
  <1>10. CASE Wait
    BY <1>10 DEF Wait
  <1>11. CASE Disable
    BY <1>11 DEF Disable
  <1>12. CASE read_u64
    <2>1. CASE status' = EXIT_FAILURE /\ Goto("print") /\ UNCHANGED <<out, got>>
      BY <1>12, <2>1 DEF read_u64
    <2>2. CASE got' = got \cup {at} /\ Advance("print") /\ UNCHANGED status
      <3>1. at = "instret" => got' = Events
        <4> HAVE at = "instret"
        <4>1. "cycles" \in got
          BY <1>12 DEF read_u64
        <4>2. QED
          BY <2>2, <4>1, BothEvents
      <3>2. at = "cycles" => at \in got'
        BY <2>2
      <3>3. QED
        BY <1>12, <2>2, <3>1, <3>2 DEF read_u64
    <2>3. QED
      BY <1>12, <2>1, <2>2 DEF read_u64
  <1>13. CASE ReportCounts
    BY <1>13 DEF ReportCounts, wait_status_to_exit, WIFEXITED, WEXITSTATUS, WTERMSIG
  <1>14. CASE CloseAll
    BY <1>14 DEF CloseAll
  <1>15. CASE FailWait
    BY <1>15 DEF FailWait
  <1>16. CASE RawOpen
    BY <1>16 DEF RawOpen
  <1>17. CASE RawRun
    BY <1>17 DEF RawRun
  <1>18. CASE RawBench
    BY <1>18 DEF RawBench, Tick
  <1>19. CASE ChildCloseWriteEnd
    BY <1>19 DEF ChildCloseWriteEnd, Tick
  <1>20. CASE ChildRead
    BY <1>20 DEF ChildRead, Tick, ChildDies, Exited
  <1>21. CASE ChildCloseReadEnd
    BY <1>21 DEF ChildCloseReadEnd, Tick
  <1>22. CASE ChildExec
    BY <1>22 DEF ChildExec, Tick, ChildDies, Exited
  <1>23. CASE ChildExit
    BY <1>23, BoundsAssumption DEF ChildExit, ChildDies, Exited
  <1>24. CASE ChildKilled
    BY <1>24 DEF ChildKilled, ChildDies, Signaled
  <1>25. CASE ParentKilled
    BY <1>25 DEF ParentKilled, ParentDies
  <1>26. CASE UNCHANGED <<args, pc, at, child, cstatus, status, ret, got>>
    BY <1>26
  <1>27. QED
    BY <1>1, <1>2, <1>3, <1>4, <1>5, <1>6, <1>7, <1>8, <1>9, <1>10, <1>11, <1>12,
       <1>13, <1>14, <1>15, <1>16, <1>17, <1>18, <1>19, <1>20, <1>21, <1>22, <1>23,
       <1>24, <1>25, <1>26
    DEF Next, ParentStep, ChildStep, Terminated, vars, ChildWork, ThreadWork, Tick

\* The initial states satisfy the inductive invariant.
LEMMA InitIInv == Init => IInv
  BY BoundsAssumption
  DEF Init, IInv, TypeOK, ControlTypeOK, PipeTypeOK, CountTypeOK, StatusTypeOK,
      ChildPhase, PipePhase, EventPhase, CountPhase, ReportPhase, BeforeFork, Gated,
      Reaped, ParentRunning, ParentFinal, ChildAlive, Events, Procs, SIGHUP, SIGKILL

\* IInv is an invariant: the heart of every theorem below.
THEOREM Invariance == Spec => []IInv
  <1>1. IInv /\ [Next]_vars => IInv'
    BY ControlTypeOKStep, PipeTypeOKStep, CountTypeOKStep, StatusTypeOKStep,
       ChildPhaseStep, PipePhaseStep, EventPhaseStep, CountPhaseStep, ReportPhaseStep
    DEF IInv, TypeOK
  <1>2. QED
    BY InitIInv, <1>1, PTL DEF Spec

\* Types are kept, for every set of exit codes and every amount of work.
THEOREM TypeCorrect == Spec => []TypeOK
  BY Invariance, PTL DEF IInv

\* The benchmark never runs outside the counters (lines 192-202 of perf_run.c
\* against the child's read on line 165).
THEOREM NeverUncounted == Spec => []NoUncountedWork
  <1>1. IInv => NoUncountedWork
    BY DEF IInv, TypeOK, ControlTypeOK, ChildPhase, EventPhase, NoUncountedWork, BeforeFork,
           Gated, Reaped, ChildAlive, ParentRunning, ParentFinal
  <1>2. QED
    BY Invariance, <1>1, PTL

\* A count that was read is the first task's work plus at most the four steps
\* the child takes before it is the benchmark.
THEOREM CountsCorrect == Spec => []CountsAreBenchmark
  <1>1. IInv => CountsAreBenchmark
    BY DEF IInv, TypeOK, CountTypeOK, CountPhase, CountsAreBenchmark, PreExecSteps
  <1>2. QED
    BY Invariance, <1>1, PTL

\* Exit 0 is only returned for a benchmark that ran, succeeded and was counted.
THEOREM SuccessCorrect == Spec => []SuccessIsEarned
  <1>1. IInv => SuccessIsEarned
    BY DEF IInv, ReportPhase, SuccessIsEarned, Exited
  <1>2. QED
    BY Invariance, <1>1, PTL

\* Neither a descriptor nor a zombie outlives a wrapper that returned.
THEOREM Clean == Spec => []NothingLeftBehind
  <1>1. IInv => NothingLeftBehind
    BY DEF IInv, TypeOK, PipeTypeOK, ChildPhase, PipePhase, EventPhase, NothingLeftBehind,
           Procs, Gated
  <1>2. QED
    BY Invariance, <1>1, PTL
=============================================================================
