------------------------------ MODULE MCPerfRun ------------------------------
(* A benchmark of at most two counted steps that may start one thread, and   *)
(* that exits with 0 or 3.                                                    *)
EXTENDS PerfRun

MCExitCodes == {0, 3}
=============================================================================
