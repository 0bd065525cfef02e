------------------------------- MODULE QemuVnc -------------------------------
(***************************************************************************)
(* scripts/test-qemu-vnc.sh: build an ext4 image from the rootfs archive,  *)
(* boot it in a detached QEMU, find that QEMU again through a pid file and *)
(* stop it.                                                                *)
(*                                                                         *)
(* One terminal runs one command after another.  Beside it run the         *)
(* detached QEMU, its guest (which writes to the image and may power off), *)
(* and the other processes of the host, which may be given the pid of a    *)
(* QEMU that is gone.  A command may be interrupted, or a tool it calls    *)
(* may fail, before any of its steps: what it had written so far stays.    *)
(***************************************************************************)
EXTENDS Naturals

CONSTANTS
  Pids,        \* process ids of the host
  NoPid,       \* no process id
  WaitTicks,   \* rounds of the loop in wait_for_vnc (WAIT_TIMEOUT)
  StopTicks    \* rounds of the loop in stop_qemu (30 s)

ASSUME QemuVncAssumption ==
  NoPid \notin Pids /\ WaitTicks \in Nat /\ StopTicks \in Nat

VARIABLES
  pc, cmd, rc, ticks, pid,   \* the running command, its locals, the last exit code
  kernel, rootfs, archive,   \* KERNEL, ROOTFS_DIR, ROOTFS_TAR
  src, tmp, image, newer,    \* EXT4_SRC, ROOTFS_IMAGE.tmp, ROOTFS_IMAGE, its -nt
  pidfile, exefile,          \* QEMU_PID_FILE, QEMU_EXE_FILE
  qemu,                      \* the QEMU process
  others,                    \* pids of the host's other processes
  answered,                  \* a start has read the RFB banner of this QEMU
  hit                        \* other processes that stop has signalled

vars == <<pc, cmd, rc, ticks, pid, kernel, rootfs, archive, src, tmp, image,
          newer, pidfile, exefile, qemu, others, answered, hit>>
build   == <<kernel, rootfs, archive, src, tmp>>
files   == <<pidfile, exefile>>
watch   == <<answered, hit>>

\* An executable named qemu-system-*, or one of another name.
Exes     == {"qemu-system", "custom"}
Commands == [name : {"start", "image", "stop"}, sys : Exes]

NoImage == [is |-> "none", of |-> "current"]
NoQemu  == [st |-> "none", pid |-> NoPid, exe |-> "qemu-system", disk |-> "image"]

StartSteps == {"kernel", "archive", "rootfs", "package", "image", "clear_src",
               "untar", "mkfs", "populate", "mv", "check", "clear", "launch",
               "recheck", "wait"}
StopSteps  == {"stop", "term", "stop_wait", "kill", "forget", "fsck"}

Init ==
  /\ pc = "idle" /\ rc = 0 /\ ticks = 0 /\ pid = NoPid
  /\ cmd = [name |-> "stop", sys |-> "qemu-system"]
  /\ kernel = FALSE
  /\ rootfs = "none" /\ archive \in {"none", "whole"}
  /\ src = "none" /\ tmp = "none" /\ image = NoImage /\ newer = FALSE
  /\ pidfile = NoPid /\ exefile = "none"
  /\ qemu = NoQemu /\ others = {} /\ answered = FALSE /\ hit = {}

----------------------------------------------------------------------------
\* Processes.

Alive(p) == p \in others \/ (qemu.st # "none" /\ qemu.pid = p)   \* kill -0
Running  == qemu.st \in {"booting", "serving", "stopping"}       \* not SIGKILLed

\* The image name is on the command line and the executable is QEMU_SYSTEM,
\* the one start recorded, or some qemu-system-*.
pid_is_qemu(p, sys) ==
  /\ qemu.st # "none" /\ p = qemu.pid
  /\ qemu.exe \in {sys, exefile, "qemu-system"}

\* Mutant: the pid in the file is believed.
AnyPid(sys) == pidfile # NoPid /\ Alive(pidfile)

qemu_pid(sys) == pidfile # NoPid /\ pid_is_qemu(pidfile, sys)

\* Any process of the host may hold the port, and where ss is missing no port
\* is seen listening.
port_listening == BOOLEAN

Goto(p)    == pc' = p /\ UNCHANGED <<rc, ticks, pid>>
Loop(p, n) == pc' = p /\ ticks' = n /\ UNCHANGED <<rc, pid>>
Exit(n)    == pc' = "idle" /\ rc' = n /\ ticks' = 0 /\ pid' = NoPid
die        == Exit(1)

Run(c) ==
  /\ pc = "idle"
  /\ cmd' = c
  /\ Goto([start |-> "kernel", image |-> "archive", stop |-> "stop"][c.name])
  /\ UNCHANGED <<build, image, newer, files, qemu, others, watch>>

\* Ctrl-C, a missing tool, a refused path: set -e ends the command here.
Abort ==
  /\ pc # "idle" /\ die
  /\ UNCHANGED <<cmd, build, image, newer, files, qemu, others, watch>>

----------------------------------------------------------------------------
\* start and image: the artifacts.

ensure_kernel ==
  /\ pc = "kernel"
  /\ kernel' = TRUE /\ Goto("archive")
  /\ UNCHANGED <<cmd, rootfs, archive, src, tmp, image, newer, files, qemu,
                 others, watch>>

\* -f ROOTFS_TAR is all that is asked of an archive, the marker file
\* /etc/default/karudeb-vnc all that is asked of a directory.
ensure_vnc_rootfs_archive ==
  /\ pc = "archive"
  /\ \/ archive # "none" /\ Goto("image") /\ UNCHANGED <<rootfs, archive>>
     \/ /\ archive = "none" /\ rootfs = "none"
        /\ rootfs' = "unmarked" /\ Goto("rootfs") /\ UNCHANGED archive
     \/ /\ archive = "none" /\ rootfs = "unmarked"
        /\ die /\ UNCHANGED <<rootfs, archive>>
     \/ /\ archive = "none" /\ rootfs = "marked"
        /\ archive' = "torn" /\ Goto("package") /\ UNCHANGED rootfs
  /\ UNCHANGED <<cmd, kernel, src, tmp, image, newer, files, qemu, others, watch>>

build_rootfs ==
  /\ pc = "rootfs"
  /\ rootfs' = "marked" /\ Goto("archive")
  /\ UNCHANGED <<cmd, kernel, archive, src, tmp, image, newer, files, qemu,
                 others, watch>>

\* ROOTFS_TAR is new: an image there may be is older, and of another archive.
ArchiveWritten ==
  /\ newer' = FALSE
  /\ image' = [image EXCEPT !.of = IF image.is = "none" THEN @ ELSE "older"]

\* package-rootfs.sh ends.  Without zstd it writes another file, ending in
\* .gz, and ROOTFS_TAR stays missing.
package_rootfs ==
  /\ pc = "package"
  /\ \/ archive' = "whole" /\ ArchiveWritten
     \/ archive' = "none" /\ UNCHANGED <<newer, image>>
  /\ Goto("image")
  /\ UNCHANGED <<cmd, kernel, rootfs, src, tmp, files, qemu, others, watch>>

\* ROOTFS_IMAGE -nt ROOTFS_TAR, which also holds when the archive is missing.
ImageNewer == image.is # "none" /\ (archive = "none" \/ newer)

ImageReady == IF cmd.name = "start" THEN Goto("check") ELSE Exit(0)

\* rm -rf ROOTFS_IMAGE: a QEMU that has it open keeps the deleted file.
RemoveImage ==
  /\ image' = NoImage
  /\ newer' = FALSE
  /\ qemu' = IF qemu.st = "none" THEN qemu ELSE [qemu EXCEPT !.disk = "deleted"]

build_ext4_image ==
  /\ pc = "image"
  /\ \E FORCE_IMAGE \in {0, 1} :
       IF ImageNewer /\ FORCE_IMAGE # 1
       THEN ImageReady /\ UNCHANGED <<image, newer, qemu>>
       ELSE Goto("clear_src") /\ RemoveImage
  /\ UNCHANGED <<cmd, build, files, others, watch>>

ClearSource ==
  /\ pc = "clear_src"
  /\ src' = "part" /\ Goto("untar")
  /\ UNCHANGED <<cmd, kernel, rootfs, archive, tmp, image, newer, files, qemu,
                 others, watch>>

\* Mutant: the decompressor's failure is lost in the pipe (no pipefail).
UntarNoPipefail ==
  /\ pc = "untar"
  /\ Goto("mkfs")
  /\ src' = IF archive = "whole" THEN "full" ELSE src
  /\ UNCHANGED <<cmd, kernel, rootfs, archive, tmp, image, newer, files, qemu,
                 others, watch>>

\* A torn or missing archive makes the decompressor fail.
extract_rootfs_archive ==
  /\ pc = "untar"
  /\ IF archive = "whole"
     THEN src' = "full" /\ Goto("mkfs")
     ELSE die /\ UNCHANGED src
  /\ UNCHANGED <<cmd, kernel, rootfs, archive, tmp, image, newer, files, qemu,
                 others, watch>>

TruncateTmp ==
  /\ pc = "mkfs"
  /\ tmp' = "part" /\ Goto("populate")
  /\ UNCHANGED <<cmd, kernel, rootfs, archive, src, image, newer, files, qemu,
                 others, watch>>

MkfsTmp ==
  /\ pc = "populate"
  /\ tmp' = src /\ Goto("mv")
  /\ UNCHANGED <<cmd, kernel, rootfs, archive, src, image, newer, files, qemu,
                 others, watch>>

MoveImage ==
  /\ pc = "mv"
  /\ image' = [is |-> tmp, of |-> "current"]
  /\ newer' = TRUE /\ tmp' = "none"
  /\ ImageReady
  /\ UNCHANGED <<cmd, kernel, rootfs, archive, src, files, qemu, others, watch>>

----------------------------------------------------------------------------
\* start: QEMU.

start_qemu ==
  /\ pc = "check"
  /\ IF ~kernel \/ image.is = "none" THEN die
     ELSE IF qemu_pid(cmd.sys) THEN Exit(0)
     ELSE \E busy \in port_listening : IF busy THEN die ELSE Goto("clear")
  /\ UNCHANGED <<cmd, build, image, newer, files, qemu, others, watch>>

\* Mutant: the executable is not recorded.
ForgetExe ==
  /\ pc = "clear"
  /\ pidfile' = NoPid /\ exefile' = "none" /\ Goto("launch")
  /\ UNCHANGED <<cmd, build, image, newer, qemu, others, watch>>

\* rm -f of the old files, then QEMU_EXE_FILE is written.
RecordExe ==
  /\ pc = "clear"
  /\ pidfile' = NoPid /\ exefile' = cmd.sys /\ Goto("launch")
  /\ UNCHANGED <<cmd, build, image, newer, qemu, others, watch>>

\* With -daemonize QEMU returns after it has opened the image, bound its
\* ports and written the pid file; it fails while another holds them.
LaunchQemu ==
  /\ pc = "launch"
  /\ \/ /\ qemu.st = "none"
        /\ \E p \in Pids \ others :
             /\ pidfile' = p
             /\ qemu' = [st |-> "booting", pid |-> p, exe |-> cmd.sys, disk |-> "image"]
        /\ answered' = FALSE
        /\ Goto("recheck")
     \/ die /\ UNCHANGED <<pidfile, qemu, answered>>
  /\ UNCHANGED <<cmd, build, image, newer, exefile, others, hit>>

RecheckPid ==
  /\ pc = "recheck"
  /\ IF qemu_pid(cmd.sys) THEN Loop("wait", 0) ELSE die
  /\ UNCHANGED <<cmd, build, image, newer, files, qemu, others, watch>>

\* Mutant: the deadline is pushed on by every unanswered probe.
WaitForever ==
  /\ pc = "wait"
  /\ IF ~qemu_pid(cmd.sys) THEN die /\ UNCHANGED answered
     ELSE \/ /\ qemu.st = "serving"
             /\ answered' = TRUE /\ Exit(0)
          \/ Goto("wait") /\ UNCHANGED answered
  /\ UNCHANGED <<cmd, build, image, newer, files, qemu, others, hit>>

\* One round of the loop.  A probe of a busy guest may also go unanswered.
wait_for_vnc ==
  /\ pc = "wait"
  /\ IF ticks >= WaitTicks \/ ~qemu_pid(cmd.sys)
     THEN die /\ UNCHANGED answered
     ELSE \/ /\ qemu.st = "serving"
             /\ answered' = TRUE /\ Exit(0)
          \/ Loop("wait", ticks + 1) /\ UNCHANGED answered
  /\ UNCHANGED <<cmd, build, image, newer, files, qemu, others, hit>>

----------------------------------------------------------------------------
\* stop.

RemoveFiles == pidfile' = NoPid /\ exefile' = "none"
Found(p)    == pc' = "term" /\ pid' = p /\ UNCHANGED <<rc, ticks>>

\* kill PID, for whichever process has that id now.
Signal(st) ==
  /\ qemu' = IF qemu.pid = pid /\ qemu.st \notin {"none", "dying"}
             THEN [qemu EXCEPT !.st = st] ELSE qemu
  /\ hit'  = hit \union (others \intersect {pid})

\* Mutant: the recorded executable is removed although QEMU was found.
StopForgetsExe ==
  /\ pc = "stop"
  /\ RemoveFiles
  /\ IF qemu_pid(cmd.sys) THEN Found(pidfile) ELSE Exit(0)
  /\ UNCHANGED <<cmd, build, image, newer, qemu, others, watch>>

stop_qemu ==
  /\ pc = "stop"
  /\ IF qemu_pid(cmd.sys)
     THEN Found(pidfile) /\ UNCHANGED files
     ELSE RemoveFiles /\ Exit(0)
  /\ UNCHANGED <<cmd, build, image, newer, qemu, others, watch>>

SendTerm ==
  /\ pc = "term"
  /\ Signal("stopping") /\ Loop("stop_wait", 0)
  /\ UNCHANGED <<cmd, build, image, newer, files, others, answered>>

\* Mutant: stop goes on when its deadline passes, without SIGKILL.
StopGivesUp ==
  /\ pc = "stop_wait"
  /\ IF ticks >= StopTicks THEN Goto("fsck") /\ UNCHANGED files
     ELSE IF Alive(pid) THEN Loop("stop_wait", ticks + 1) /\ UNCHANGED files
     ELSE RemoveFiles /\ Goto("fsck")
  /\ UNCHANGED <<cmd, build, image, newer, qemu, others, watch>>

\* One round of the loop; the test after it finds a dead process dead again.
StopWait ==
  /\ pc = "stop_wait"
  /\ IF ticks >= StopTicks THEN Goto("kill") /\ UNCHANGED files
     ELSE IF Alive(pid) THEN Loop("stop_wait", ticks + 1) /\ UNCHANGED files
     ELSE RemoveFiles /\ Goto("fsck")
  /\ UNCHANGED <<cmd, build, image, newer, qemu, others, watch>>

SendKill ==
  /\ pc = "kill"
  /\ IF Alive(pid) THEN Signal("dying") /\ Goto("forget")
     ELSE Goto("fsck") /\ UNCHANGED <<qemu, hit>>
  /\ UNCHANGED <<cmd, build, image, newer, files, others, answered>>

ForgetPid ==
  /\ pc = "forget"
  /\ RemoveFiles /\ Goto("fsck")
  /\ UNCHANGED <<cmd, build, image, newer, qemu, others, watch>>

\* e2fsck -fy writes the image; its exit code, 1 when it repaired something,
\* is the command's.  E2FSCK_ON_STOP=0 or a missing e2fsck skips it.
Fsck ==
  /\ pc = "fsck"
  /\ \/ image.is # "none" /\ newer' = TRUE /\ \E n \in {0, 1} : Exit(n)
     \/ Exit(0) /\ UNCHANGED newer
  /\ UNCHANGED <<cmd, build, image, files, qemu, others, watch>>

----------------------------------------------------------------------------
\* QEMU, its guest and the host.

\* The guest's VNC server comes up, and the guest writes to its disk.
GuestServes ==
  /\ qemu.st = "booting" /\ qemu' = [qemu EXCEPT !.st = "serving"]
  /\ UNCHANGED <<pc, cmd, rc, ticks, pid, build, image, newer, files, others, watch>>

GuestWrites ==
  /\ qemu.st # "none" /\ qemu.disk = "image" /\ ~newer /\ image.is # "none"
  /\ newer' = TRUE
  /\ UNCHANGED <<pc, cmd, rc, ticks, pid, build, image, files, qemu, others, watch>>

\* An orderly exit (SIGTERM, guest power-off) removes the pid file; a crash
\* or a SIGKILL leaves it.
QemuEnds(orderly) ==
  /\ qemu.st # "none" /\ (orderly => qemu.st # "dying")
  /\ qemu' = NoQemu
  /\ pidfile' = IF orderly /\ pidfile = qemu.pid THEN NoPid ELSE pidfile
  /\ UNCHANGED <<pc, cmd, rc, ticks, pid, build, image, newer, exefile, others, watch>>

\* Pids are handed out in turn: none comes round again while a stop that has
\* read it is running.
Spawn(p) ==
  /\ p \notin others /\ ~Alive(p) /\ ~(pc \in StopSteps /\ p = pid)
  /\ others' = others \union {p}
  /\ UNCHANGED <<pc, cmd, rc, ticks, pid, build, image, newer, files, qemu, watch>>

OtherEnds(p) ==
  /\ p \in others /\ others' = others \ {p}
  /\ UNCHANGED <<pc, cmd, rc, ticks, pid, build, image, newer, files, qemu, watch>>

\* package-rootfs.sh run by hand between two commands; it overwrites
\* ROOTFS_TAR in place and may be cut short.
Repackage ==
  /\ pc = "idle"
  /\ archive' \in {"whole", "torn"} /\ ArchiveWritten
  /\ UNCHANGED <<pc, cmd, rc, ticks, pid, kernel, rootfs, src, tmp, files, qemu, others, watch>>

Script ==
  \/ ensure_kernel \/ ensure_vnc_rootfs_archive \/ build_rootfs \/ package_rootfs
  \/ build_ext4_image \/ ClearSource \/ extract_rootfs_archive \/ TruncateTmp
  \/ MkfsTmp \/ MoveImage
  \/ start_qemu \/ RecordExe \/ LaunchQemu \/ RecheckPid \/ wait_for_vnc
  \/ stop_qemu \/ SendTerm \/ StopWait \/ SendKill \/ ForgetPid \/ Fsck

Host ==
  \/ GuestServes \/ GuestWrites \/ Repackage
  \/ \E orderly \in BOOLEAN : QemuEnds(orderly)
  \/ \E p \in Pids : Spawn(p) \/ OtherEnds(p)

Next == (\E c \in Commands : Run(c)) \/ Abort \/ Script \/ Host

Spec     == Init /\ [][Next]_vars
\* The shell keeps running; QEMU may hang for ever.
FairSpec == Spec /\ WF_vars(Script)

----------------------------------------------------------------------------
\* Properties.

\* "The latter two keep status/stop working when QEMU_SYSTEM was only set for
\* start": from its launch until it is SIGKILLed or gone, QEMU is found by
\* qemu_pid whatever QEMU_SYSTEM the next command is given.
AlwaysFindable == Running => \A sys \in Exes : qemu_pid(sys)

\* stop signals the QEMU of this image and never the process that was given
\* the pid a crashed QEMU left behind in QEMU_PID_FILE.
OnlyQemuSignalled == hit = {}

\* e2fsck never repairs an image that a QEMU which has not been SIGKILLed
\* has open.
FsckOffline == pc = "fsck" => ~(Running /\ qemu.disk = "image")

\* A stop that returns 0 leaves no QEMU but one that SIGKILL is removing.
StopStops == (pc = "idle" /\ cmd.name = "stop" /\ rc = 0) => ~Running

\* Whatever step was interrupted or failed, a file at ROOTFS_IMAGE is a file
\* system that holds the whole of an archive.
ImageIsWhole == image.is \in {"none", "full"}

\* Every command ends, also when the guest never answers and QEMU ignores
\* SIGTERM.
CommandsReturn == (pc # "idle") ~> (pc = "idle")

\* README.md:712-713 "launches QEMU in the background, waits for the forwarded
\* VNC service to answer": after a start that returned 0 the VNC service of
\* the QEMU that is running has answered.
StartWaitsForVnc ==
  (pc = "idle" /\ cmd.name = "start" /\ rc = 0 /\ Running) => answered

\* scripts/test-qemu-vnc.sh:304 "Ext4 VNC image is older than the rootfs
\* archive; rebuilding it": the image a start boots was built from the archive
\* that is there.
BootsCurrentArchive == pc = "launch" => image.of = "current"
=============================================================================
