------------------------------- MODULE PerfRun -------------------------------
(***************************************************************************)
(* tools/perf_run.c: the benchmark wrapper installed on the target.        *)
(*                                                                         *)
(* Two processes and a pipe.  In --user-count mode the parent forks a      *)
(* child that blocks in read() on a pipe, opens two perf events on it,     *)
(* enables them, writes the release token, waits and prints the counts.    *)
(* In the default (raw) mode the process opens both events on itself and   *)
(* execs the benchmark in place.                                           *)
(*                                                                         *)
(* One parent action per system call: between any two of them the child,   *)
(* or a signal from outside, may take a step.                              *)
(***************************************************************************)
EXTENDS Integers

CONSTANTS
  ExitCodes,      \* exit codes a benchmark may return
  MaxWork,        \* user-mode steps the benchmark's first task may take
  MaxThreadWork   \* user-mode steps of the threads the benchmark starts

ASSUME BoundsAssumption ==
  /\ MaxWork \in Nat
  /\ MaxThreadWork \in Nat
  /\ ExitCodes \subseteq Nat /\ \A c \in ExitCodes : c < 256

VARIABLES
  args,     \* argv and the signal dispositions inherited from the caller
  pc,       \* control point of the parent
  at,       \* the event that the parent's current system call is about
  child,    \* control point of the forked child
  cstatus,  \* the wait status the child died with
  wr,       \* processes holding the write end of sync_pipe
  rd,       \* processes holding the read end of sync_pipe
  token,    \* bytes in the pipe
  ev,       \* state of fd_cycles / fd_instret (fd1 / fd2 in raw mode)
  count,    \* the kernel's count of each event
  out,      \* the parent's variables cycles and instret
  status,   \* the parent's variable status
  ret,      \* what the caller of perf_run sees once it has ended
  \* observation of the benchmark
  work,     \* steps the benchmark's first task has taken
  twork,    \* steps its other threads have taken
  got       \* events whose count was read

vars == <<args, pc, at, child, cstatus, wr, rd, token, ev, count, out, status,
          ret, work, twork, got>>
obs  == <<work, twork, got>>
pipe == <<wr, rd, token>>
kid  == <<child, cstatus>>

Events == {"cycles", "instret"}
Procs  == {"parent", "child"}

EXIT_FAILURE == 1
SIGHUP  == 1
SIGKILL == 9
SIGPIPE == 13

\* Wait statuses as the C library encodes them.
Exited(code)        == code * 256
Signaled(sig)       == sig
WIFEXITED(s)        == s % 128 = 0
WEXITSTATUS(s)      == (s \div 256) % 256
WTERMSIG(s)         == s % 128
\* Mutant: the raw wait status is returned.
RawWaitStatus(s) == s

wait_status_to_exit(s) ==
  IF WIFEXITED(s) THEN WEXITSTATUS(s) ELSE 128 + WTERMSIG(s)

Args == [mode : {"help", "user_count", "raw"}, bench : {"given", "absent"},
         sigpipe : {"default", "ignored"}, sigchld : {"default", "ignored"}]

ParentRunning == {"main", "pipe", "fork", "close_rd", "open", "reset", "enable",
                  "release", "close_wr", "wait", "disable", "read", "print",
                  "fail_child", "fail_wait", "raw_open", "raw_run", "raw_bench"}
ParentFinal   == {"done", "killed"}

ChildAlive == {"born", "reading", "got", "exec", "running"}

Init ==
  /\ args \in Args
  /\ pc = "main" /\ at = "cycles"
  /\ child = "none" /\ cstatus = 0
  /\ wr = {} /\ rd = {} /\ token = 0
  /\ ev    = [e \in Events |-> "none"]
  /\ count = [e \in Events |-> 0]
  /\ out   = [e \in Events |-> 0]
  /\ status = 0 /\ ret = 0
  /\ work = 0 /\ twork = 0 /\ got = {}

----------------------------------------------------------------------------
\* Control of the parent.

Goto(p)     == pc' = p /\ at' = "cycles"
\* "a(cycles) || a(instret)": the first call's success leads to the second.
Advance(p)  == IF at = "cycles" THEN pc' = pc /\ at' = "instret" ELSE Goto(p)
Return(r)   == Goto("done") /\ ret' = r
FailChild   == Goto("fail_child")

main ==
  /\ pc = "main"
  /\ \/ args.mode = "help" /\ Return(0)
     \/ args.mode = "user_count" /\ args.bench = "absent" /\ Return(EXIT_FAILURE)
     \/ args.mode = "user_count" /\ args.bench = "given" /\ Goto("pipe") /\ UNCHANGED ret
     \/ args.mode = "raw" /\ Goto("raw_open") /\ UNCHANGED ret
  /\ UNCHANGED <<args, kid, pipe, ev, count, out, status, obs>>

MakePipe ==
  /\ pc = "pipe"
  /\ \/ wr' = {"parent"} /\ rd' = {"parent"} /\ Goto("fork") /\ UNCHANGED ret
     \/ Return(EXIT_FAILURE) /\ UNCHANGED <<wr, rd>>
  /\ UNCHANGED <<args, kid, token, ev, count, out, status, obs>>

Fork ==
  /\ pc = "fork"
  /\ \/ /\ child' = "born" /\ wr' = Procs /\ rd' = Procs
        /\ Goto("close_rd") /\ UNCHANGED ret
     \/ wr' = {} /\ rd' = {} /\ Return(EXIT_FAILURE) /\ UNCHANGED child
  /\ UNCHANGED <<args, cstatus, token, ev, count, out, status, obs>>

CloseReadEnd ==
  /\ pc = "close_rd"
  /\ rd' = rd \ {"parent"}
  /\ Goto("open")
  /\ UNCHANGED <<args, kid, wr, token, ev, count, out, status, ret, obs>>

\* perf_event_open on the child, disabled; an exiting task gives ESRCH.
open_hw_event ==
  /\ pc = "open"
  /\ \/ child \in ChildAlive /\ ev' = [ev EXCEPT ![at] = "disabled"] /\ Advance("reset")
     \/ FailChild /\ UNCHANGED ev
  /\ UNCHANGED <<args, kid, pipe, count, out, status, ret, obs>>

Reset ==
  /\ pc = "reset"
  /\ \/ count' = [count EXCEPT ![at] = 0] /\ Advance("enable")
     \/ FailChild /\ UNCHANGED count
  /\ UNCHANGED <<args, kid, pipe, ev, out, status, ret, obs>>

\* Mutant: only the first of the two events is enabled.
EnableFirstOnly ==
  /\ pc = "enable"
  /\ ev' = [ev EXCEPT ![at] = "enabled"] /\ Goto("release")
  /\ UNCHANGED <<args, kid, pipe, count, out, status, ret, obs>>

Enable ==
  /\ pc = "enable"
  /\ \/ ev' = [ev EXCEPT ![at] = "enabled"] /\ Advance("release")
     \/ FailChild /\ UNCHANGED ev
  /\ UNCHANGED <<args, kid, pipe, count, out, status, ret, obs>>

\* The kernel's cleanup when the parent dies: its descriptors are closed.
ParentDies(r) ==
  /\ pc' = "killed" /\ at' = "cycles" /\ ret' = r
  /\ wr' = wr \ {"parent"} /\ rd' = rd \ {"parent"}
  /\ ev' = [e \in Events |-> IF ev[e] = "none" THEN "none" ELSE "closed"]

\* write() of the token.  With no reader left the kernel raises SIGPIPE; only
\* a caller that had it ignored lets write() return EPIPE.
Release ==
  /\ pc = "release"
  /\ \/ rd # {} /\ token' = 1 /\ Goto("close_wr") /\ UNCHANGED <<wr, rd, ev, ret>>
     \/ rd = {} /\ args.sigpipe = "ignored" /\ FailChild
        /\ UNCHANGED <<wr, rd, token, ev, ret>>
     \/ rd = {} /\ args.sigpipe = "default" /\ ParentDies(128 + SIGPIPE)
        /\ UNCHANGED token
  /\ UNCHANGED <<args, kid, count, out, status, obs>>

CloseWriteEnd ==
  /\ pc = "close_wr"
  /\ wr' = wr \ {"parent"}
  /\ Goto("wait")
  /\ UNCHANGED <<args, kid, rd, token, ev, count, out, status, ret, obs>>

\* Mutant: waitpid with WNOHANG.
WaitNoHang ==
  /\ pc = "wait"
  /\ status' = cstatus
  /\ Goto("disable")
  /\ UNCHANGED <<args, kid, pipe, ev, count, out, ret, obs>>

\* waitpid blocks until the child is dead.  When SIGCHLD is ignored the kernel
\* reaps the child itself and waitpid fails with ECHILD.
Wait ==
  /\ pc = "wait"
  /\ child = "zombie" /\ child' = "reaped"
  /\ status' = IF args.sigchld = "ignored" THEN EXIT_FAILURE ELSE cstatus
  /\ Goto("disable")
  /\ UNCHANGED <<args, cstatus, pipe, ev, count, out, ret, obs>>

\* A failing DISABLE is only reported, and skips the second one.
Disable ==
  /\ pc = "disable"
  /\ \/ ev' = [ev EXCEPT ![at] = "disabled"] /\ Advance("read")
     \/ Goto("read") /\ UNCHANGED ev
  /\ UNCHANGED <<args, kid, pipe, count, out, status, ret, obs>>

\* Mutant: a failing read is not turned into a failing status.
ReadIgnoresErrors ==
  /\ pc = "read"
  /\ \/ /\ out' = [out EXCEPT ![at] = count[at]] /\ got' = got \cup {at}
        /\ Advance("print")
     \/ Goto("print") /\ UNCHANGED <<out, got>>
  /\ UNCHANGED <<args, kid, pipe, ev, count, status, ret, work, twork>>

read_u64 ==
  /\ pc = "read"
  /\ \/ /\ out' = [out EXCEPT ![at] = count[at]] /\ got' = got \cup {at}
        /\ Advance("print") /\ UNCHANGED status
     \/ status' = EXIT_FAILURE /\ Goto("print") /\ UNCHANGED <<out, got>>
  /\ UNCHANGED <<args, kid, pipe, ev, count, ret, work, twork>>

ReportCounts ==
  /\ pc = "print"
  /\ ev' = [e \in Events |-> "closed"]
  /\ Return(wait_status_to_exit(status))
  /\ UNCHANGED <<args, kid, pipe, count, out, status, obs>>

CloseAll ==
  /\ pc = "fail_child"
  /\ wr' = wr \ {"parent"}
  /\ ev' = [e \in Events |-> IF ev[e] = "none" THEN "none" ELSE "closed"]
  /\ Goto("fail_wait")
  /\ UNCHANGED <<args, kid, rd, token, count, out, status, ret, obs>>

\* Mutant: the failure path returns without reaping the child.
FailNoWait ==
  /\ pc = "fail_wait"
  /\ Return(EXIT_FAILURE)
  /\ UNCHANGED <<args, kid, pipe, ev, count, out, status, obs>>

FailWait ==
  /\ pc = "fail_wait"
  /\ child = "zombie" /\ child' = "reaped"
  /\ Return(EXIT_FAILURE)
  /\ UNCHANGED <<args, cstatus, pipe, ev, count, out, status, obs>>

----------------------------------------------------------------------------
\* Default mode: the same process becomes the benchmark.

RawOpen ==
  /\ pc = "raw_open"
  /\ \/ ev' = [ev EXCEPT ![at] = "enabled"] /\ Advance("raw_run") /\ UNCHANGED ret
     \/ /\ ev' = [e \in Events |-> IF ev[e] = "none" THEN "none" ELSE "closed"]
        /\ Return(EXIT_FAILURE)
  /\ UNCHANGED <<args, kid, pipe, count, out, status, obs>>

RawRun ==
  /\ pc = "raw_run"
  /\ \/ args.bench = "given" /\ Goto("raw_bench") /\ UNCHANGED <<ev, ret>>
     \/ /\ ev' = [e \in Events |-> "closed"]
        /\ Return(IF args.bench = "given" THEN EXIT_FAILURE ELSE 0)
  /\ UNCHANGED <<args, kid, pipe, count, out, status, obs>>

----------------------------------------------------------------------------
\* A user-mode step of the first task of the benchmark's process, counted by
\* whichever of its events is enabled.
Tick == count' = [e \in Events |-> IF ev[e] = "enabled" THEN count[e] + 1 ELSE count[e]]

RawBench ==
  /\ pc = "raw_bench"
  /\ \/ work < MaxWork /\ work' = work + 1 /\ Tick /\ UNCHANGED <<pc, at, ret, ev>>
     \/ /\ \E c \in ExitCodes : Return(c)
        /\ ev' = [e \in Events |-> "closed"] /\ UNCHANGED <<work, count>>
  /\ UNCHANGED <<args, kid, pipe, out, status, twork, got>>

parent == <<args, pc, at, ev, out, status, ret, got>>

ChildDies(s) ==
  /\ child' = "zombie" /\ cstatus' = s
  /\ wr' = wr \ {"child"} /\ rd' = rd \ {"child"}

\* Mutant: the child keeps its copy of the write end open.
ChildKeepsWriteEnd ==
  /\ child = "born" /\ child' = "reading" /\ Tick
  /\ UNCHANGED <<parent, cstatus, pipe, work, twork>>

ChildCloseWriteEnd ==
  /\ child = "born" /\ child' = "reading"
  /\ wr' = wr \ {"child"} /\ Tick
  /\ UNCHANGED <<parent, cstatus, rd, token, work, twork>>

\* read() returns the token, or 0 once nobody holds the write end.
ChildRead ==
  /\ child = "reading" /\ Tick
  /\ \/ token > 0 /\ token' = 0 /\ child' = "got" /\ UNCHANGED <<wr, rd, cstatus>>
     \/ token = 0 /\ wr = {} /\ ChildDies(Exited(127)) /\ UNCHANGED token
  /\ UNCHANGED <<parent, work, twork>>

ChildCloseReadEnd ==
  /\ child = "got" /\ child' = "exec"
  /\ rd' = rd \ {"child"} /\ Tick
  /\ UNCHANGED <<parent, cstatus, wr, token, work, twork>>

ChildExec ==
  /\ child = "exec" /\ Tick
  /\ \/ child' = "running" /\ UNCHANGED <<cstatus, wr, rd>>
     \/ ChildDies(Exited(127))
  /\ UNCHANGED <<parent, token, work, twork>>

ChildWork ==
  /\ child = "running"
  /\ work < MaxWork /\ work' = work + 1 /\ Tick
  /\ UNCHANGED <<parent, kid, pipe, twork>>

\* pe.inherit is 0: a task the benchmark starts is not counted.
ThreadWork ==
  /\ child = "running"
  /\ twork < MaxThreadWork /\ twork' = twork + 1
  /\ UNCHANGED <<parent, kid, pipe, count, work>>

ChildExit ==
  /\ child = "running"
  /\ \E c \in ExitCodes : ChildDies(Exited(c))
  /\ UNCHANGED <<parent, token, count, work, twork>>

\* Signals sent from outside.
ChildKilled ==
  /\ child \in ChildAlive
  /\ \E s \in {SIGHUP, SIGKILL} : ChildDies(Signaled(s))
  /\ UNCHANGED <<parent, token, count, work, twork>>

ParentKilled ==
  /\ pc \in ParentRunning
  /\ ParentDies(128 + SIGKILL)
  /\ UNCHANGED <<args, kid, token, count, out, status, obs>>

----------------------------------------------------------------------------
\* Both processes have ended; an orphaned zombie is init's to reap.
Terminated ==
  /\ pc \in ParentFinal
  /\ child \notin ChildAlive
  /\ UNCHANGED vars

ParentStep == \/ main \/ MakePipe \/ Fork \/ CloseReadEnd \/ open_hw_event \/ Reset
              \/ Enable \/ Release \/ CloseWriteEnd \/ Wait \/ Disable \/ read_u64
              \/ ReportCounts \/ CloseAll \/ FailWait \/ RawOpen \/ RawRun \/ RawBench
ChildStep  == \/ ChildCloseWriteEnd \/ ChildRead \/ ChildCloseReadEnd \/ ChildExec
              \/ ChildWork \/ ChildExit

Next == ParentStep \/ ChildStep \/ ThreadWork \/ ChildKilled \/ ParentKilled \/ Terminated

\* The scheduler runs every runnable process, and the benchmark ends.
Fairness == WF_vars(ParentStep) /\ WF_vars(ChildStep)

Spec     == Init /\ [][Next]_vars
FairSpec == Spec /\ Fairness

----------------------------------------------------------------------------
\* The steps of the child that may be counted before the benchmark's own: the
\* close, the read, the close and the execve of run_user_count's child branch.
PreExecSteps == 4

ControlTypeOK ==
  /\ args \in Args
  /\ pc \in ParentRunning \cup ParentFinal
  /\ at \in Events
  /\ child \in ChildAlive \cup {"none", "zombie", "reaped"}

PipeTypeOK ==
  wr \in SUBSET Procs /\ rd \in SUBSET Procs /\ token \in 0..1

CountTypeOK ==
  /\ ev \in [Events -> {"none", "disabled", "enabled", "closed"}]
  /\ count \in [Events -> Nat] /\ out \in [Events -> Nat]
  /\ work \in 0..MaxWork /\ twork \in 0..MaxThreadWork
  /\ got \in SUBSET Events

StatusTypeOK ==
  /\ cstatus \in Nat /\ cstatus < 65536
  /\ status  \in Nat /\ status < 65536
  /\ ret \in Nat /\ ret < 256

\* Every variable keeps to its range (perf_run.c's locals, the pipe, the fds, a
\* wait status of 16 bits and an exit code of 8).
TypeOK == ControlTypeOK /\ PipeTypeOK /\ CountTypeOK /\ StatusTypeOK

\* The benchmark never runs outside the counters: from execve to its death both
\* events are open and enabled, unless the wrapper itself was killed meanwhile
\* (order of lines 192-202 against the child's read on line 165).
NoUncountedWork ==
  (child = "running" /\ pc # "killed") \/ pc = "raw_bench" =>
    \A e \in Events : ev[e] = "enabled"

\* A count that was read is the benchmark's first task's work and at most the
\* four steps of the child before it: nothing is lost, nothing foreign counted.
CountsAreBenchmark ==
  \A e \in got : out[e] - work \in 0..PreExecSteps

\* Exit 0 of --user-count means the benchmark ran, exited 0, and both counts
\* were read; a benchmark that failed, or never ran, is never a success.
SuccessIsEarned ==
  args.mode = "user_count" /\ pc \in ParentFinal /\ ret = 0 =>
    /\ child = "reaped" /\ cstatus = Exited(0)
    /\ got = Events

\* A benchmark inherits neither end of the synchronisation pipe, so it cannot
\* keep the wrapper's pipe open (lines 164 and 167), and a wrapper that returned
\* left neither a zombie nor an open descriptor.
NothingLeftBehind ==
  /\ child = "running" => "child" \notin wr \cup rd
  /\ pc = "done" => /\ child \in {"none", "reaped"}
                    /\ wr = {} /\ rd = {}
                    /\ \A e \in Events : ev[e] \in {"none", "closed"}

\* A process started by the wrapper always comes to an end: whatever system call
\* fails, or whoever is killed, neither side waits for the other for ever.
BothEnd == <>[](pc \in ParentFinal /\ child \notin ChildAlive)

\* The comment on lines 8-9 of perf_run.c and the README promise whole-process
\* counts: what every thread of the benchmark executed is in the count.
WholeProcessCounted ==
  \A e \in got : out[e] >= work + twork
=============================================================================
