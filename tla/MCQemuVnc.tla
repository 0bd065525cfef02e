------------------------------ MODULE MCQemuVnc ------------------------------
(* Two pids, so that a stale pid file may name the new QEMU, no process or    *)
(* another process; each waiting loop may run out or be left before that.     *)
EXTENDS QemuVnc

CONSTANTS p1, p2

MCPids == {p1, p2}
=============================================================================
