---------------------------- MODULE QemuVncProofs ----------------------------
(***************************************************************************)
(* The safety invariants of test-qemu-vnc.sh, for every set of pids and    *)
(* both timeouts.  What makes them inductive is, per control point of the  *)
(* command, what it already knows about QEMU and about the files: a start  *)
(* removes the files only after it has seen no QEMU, a stop removes them   *)
(* or repairs the image only once its pid is dead or has been SIGKILLed.   *)
(***************************************************************************)
EXTENDS QemuVnc, TLAPS

Stopping == {"term", "stop_wait", "kill"}   \* stop has read a pid

\* Types of the control state and of the processes.
ControlTypes ==
  /\ pc \in StartSteps \cup StopSteps \cup {"idle"}
  /\ cmd \in Commands
  /\ pid \in Pids \cup {NoPid}
  /\ pidfile \in Pids \cup {NoPid}
  /\ exefile \in Exes \cup {"none"}
  /\ others \subseteq Pids

\* What QEMU is; no other process has its pid.
QemuTypes ==
  /\ qemu \in [st : {"none", "booting", "serving", "stopping", "dying"},
               pid : Pids \cup {NoPid}, exe : Exes, disk : {"image", "deleted"}]
  /\ qemu.st # "none" => qemu.pid \in Pids /\ qemu.pid \notin others

\* Which command can be at which step.
CommandPhase ==
  /\ pc \in StartSteps => cmd.name # "stop"
  /\ pc \in StopSteps  => cmd.name = "stop"

\* How much the artifacts hold while the image is built.
ImagePhase ==
  /\ image \in [is : {"none", "full"}, of : {"current", "older"}]
  /\ pc \in {"mkfs", "populate"} => src = "full"
  /\ pc = "mv" => tmp = "full"

\* What start and stop know of QEMU.
QemuPhase ==
  /\ pc \in {"clear", "launch", "forget", "fsck"} => ~Running
  /\ pc = "launch" => exefile = cmd.sys
  /\ pc \in Stopping => pid \in Pids \ others
  /\ pc \in Stopping /\ Running => qemu.pid = pid

IInv == /\ ControlTypes /\ QemuTypes /\ CommandPhase /\ ImagePhase /\ QemuPhase
        /\ AlwaysFindable /\ OnlyQemuSignalled /\ StopStops

\* A new checkout satisfies it.
LEMMA InitIInv == Init => IInv
  BY QemuVncAssumption
  DEF Init, IInv, ControlTypes, QemuTypes, CommandPhase, ImagePhase, QemuPhase,
      AlwaysFindable, OnlyQemuSignalled, StopStops, Running, StartSteps, StopSteps,
      Stopping, Commands, Exes, NoImage, NoQemu

\* Every step of a command, of QEMU, of its guest and of the host keeps it.
LEMMA NextIInv == IInv /\ [Next]_vars => IInv'
  <1> SUFFICES ASSUME IInv, [Next]_vars PROVE IInv'
    OBVIOUS
  <1> USE QemuVncAssumption
      DEF IInv, ControlTypes, QemuTypes, CommandPhase, ImagePhase, QemuPhase,
        AlwaysFindable, OnlyQemuSignalled, StopStops, Running, Alive, qemu_pid,
        pid_is_qemu, StartSteps, StopSteps, Stopping, Commands, Exes, NoImage, NoQemu,
        Goto, Loop, Exit, die, build, files, watch
  <1>1. ASSUME NEW c \in Commands, Run(c) PROVE IInv'
    BY <1>1 DEF Run
  <1>2. CASE Abort
    BY <1>2 DEF Abort
  <1>3. CASE ensure_kernel
    BY <1>3 DEF ensure_kernel
  <1>4. CASE ensure_vnc_rootfs_archive
    BY <1>4 DEF ensure_vnc_rootfs_archive
  <1>5. CASE build_rootfs
    BY <1>5 DEF build_rootfs
  <1>6. CASE package_rootfs
    BY <1>6 DEF package_rootfs, ArchiveWritten
  <1>7. CASE build_ext4_image
    BY <1>7 DEF build_ext4_image, ImageReady, RemoveImage
  <1>8. CASE ClearSource
    BY <1>8 DEF ClearSource
  <1>9. CASE extract_rootfs_archive
    BY <1>9 DEF extract_rootfs_archive
  <1>10. CASE TruncateTmp
    BY <1>10 DEF TruncateTmp
  <1>11. CASE MkfsTmp
    BY <1>11 DEF MkfsTmp
  <1>12. CASE MoveImage
    BY <1>12 DEF MoveImage, ImageReady
  <1>13. CASE start_qemu
    BY <1>13 DEF start_qemu
  <1>14. CASE RecordExe
    BY <1>14 DEF RecordExe
  <1>15. CASE LaunchQemu
    BY <1>15 DEF LaunchQemu
  <1>16. CASE RecheckPid
    BY <1>16 DEF RecheckPid
  <1>17. CASE wait_for_vnc
    BY <1>17 DEF wait_for_vnc
  <1>18. CASE stop_qemu
    BY <1>18 DEF stop_qemu, RemoveFiles, Found
  <1>19. CASE SendTerm
    BY <1>19 DEF SendTerm, Signal
  <1>20. CASE StopWait
    BY <1>20 DEF StopWait, RemoveFiles
  <1>21. CASE SendKill
    BY <1>21 DEF SendKill, Signal
  <1>22. CASE ForgetPid
    BY <1>22 DEF ForgetPid, RemoveFiles
  <1>23. CASE Fsck
    BY <1>23 DEF Fsck
  <1>24. CASE GuestServes
    BY <1>24 DEF GuestServes
  <1>25. CASE GuestWrites
    BY <1>25 DEF GuestWrites
  <1>26. CASE Repackage
    BY <1>26 DEF Repackage, ArchiveWritten
  <1>27. ASSUME NEW orderly \in BOOLEAN, QemuEnds(orderly) PROVE IInv'
    BY <1>27 DEF QemuEnds
  <1>28. ASSUME NEW p \in Pids, Spawn(p) PROVE IInv'
    BY <1>28 DEF Spawn
  <1>29. ASSUME NEW p \in Pids, OtherEnds(p) PROVE IInv'
    BY <1>29 DEF OtherEnds
  <1>30. CASE UNCHANGED vars
    BY <1>30 DEF vars
  <1> QED
    BY <1>1, <1>2, <1>3, <1>4, <1>5, <1>6, <1>7, <1>8, <1>9, <1>10, <1>11, <1>12, <1>13,
       <1>14, <1>15, <1>16, <1>17, <1>18, <1>19, <1>20, <1>21, <1>22, <1>23, <1>24, <1>25,
       <1>26, <1>27, <1>28, <1>29, <1>30 DEF Next, Script, Host

\* IInv is an invariant: each theorem below takes its property from it.
THEOREM Invariance == Spec => []IInv
  BY InitIInv, NextIInv, PTL DEF Spec

\* From its launch until it is SIGKILLed or gone, QEMU is found by qemu_pid whatever
\* QEMU_SYSTEM the command is given (the files are removed on line 367 of
\* test-qemu-vnc.sh only after line 347 has found none), for every set of pids.
THEOREM Findable == Spec => []AlwaysFindable
  <1>1. IInv => AlwaysFindable
    BY DEF IInv
  <1>2. QED
    BY Invariance, <1>1, PTL

\* stop signals no process but QEMU: the pid it checked is not another process's
\* when SIGTERM and, a timeout later, SIGKILL are sent.
THEOREM SignalsQemuOnly == Spec => []OnlyQemuSignalled
  <1>1. IInv => OnlyQemuSignalled
    BY DEF IInv
  <1>2. QED
    BY Invariance, <1>1, PTL

\* e2fsck is only reached with QEMU gone or SIGKILLed.
THEOREM FsckIsOffline == Spec => []FsckOffline
  <1>1. IInv => FsckOffline
    BY DEF IInv, QemuPhase, FsckOffline
  <1>2. QED
    BY Invariance, <1>1, PTL

\* A stop that returned 0 left no QEMU running, and none runs until the next start.
THEOREM StopIsFinal == Spec => []StopStops
  <1>1. IInv => StopStops
    BY DEF IInv
  <1>2. QED
    BY Invariance, <1>1, PTL

\* No interrupted or failed command leaves a partial file system at ROOTFS_IMAGE.
THEOREM WholeImage == Spec => []ImageIsWhole
  <1>1. IInv => ImageIsWhole
    BY DEF IInv, ImagePhase, ImageIsWhole
  <1>2. QED
    BY Invariance, <1>1, PTL
=============================================================================
