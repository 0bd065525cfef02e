------------------------------ MODULE NfsRoot -------------------------------
(***************************************************************************)
(* install-nfs-root.sh: an exported root directory replaced by the content *)
(* of the root file system archive.  Every step may be the last one of an  *)
(* interrupted command; between commands the archive may be packaged anew, *)
(* or cut short.                                                           *)
(***************************************************************************)
EXTENDS Naturals

CONSTANTS
  Builds,       \* root file systems that were packaged
  RootFiles     \* files in each of them

VARIABLES
  pc, ret,      \* as in KernelBuild
  force,        \* FORCE=1
  archive,      \* [build, whole]: ROOTFS_TAR
  dest,         \* DEST is a directory
  root          \* from which build each file in it is, or "none"

nvars == <<force, archive, dest, root>>

Init ==
  /\ pc = "idle" /\ ret = "none" /\ force = FALSE
  /\ archive \in [build : Builds, whole : BOOLEAN]
  /\ dest = FALSE /\ root = [f \in RootFiles |-> "none"]

Exit(how) == pc' = "idle" /\ ret' = how
Goto(l)   == pc' = l /\ UNCHANGED ret

\* The next command, with the archive as it is then.
Run ==
  /\ pc = "idle"
  /\ force' \in BOOLEAN
  /\ archive' \in [build : Builds, whole : BOOLEAN]
  /\ pc' = "replace" /\ ret' = "none"
  /\ UNCHANGED <<dest, root>>

Replace ==
  /\ pc = "replace"
  /\ IF ~dest THEN Goto("create") ELSE IF force THEN Goto("remove") ELSE Exit("failed")
  /\ UNCHANGED nvars

\* rm -rf, one file after the other and the directory last.
RemoveRoot ==
  /\ pc = "remove"
  /\ \/ /\ \E f \in RootFiles : root[f] # "none" /\ root' = [root EXCEPT ![f] = "none"]
        /\ UNCHANGED <<pc, ret, dest>>
     \/ /\ \A f \in RootFiles : root[f] = "none"
        /\ dest' = FALSE /\ Goto("create") /\ UNCHANGED root
  /\ UNCHANGED <<force, archive>>

CreateRoot ==
  /\ pc = "create"
  /\ dest' = TRUE /\ Goto("extract")
  /\ UNCHANGED <<force, archive, root>>

\* zstdcat | tar, the form of archive that package-rootfs.sh writes (a plain .tar, cut
\* between two members, would not be noticed and is not modelled): a torn archive ends the decompressor with an error, after any
\* number of files; pipefail makes it the pipeline's.
Extract ==
  /\ pc = "extract"
  /\ \/ /\ \E f \in RootFiles : root[f] = "none" /\ root' = [root EXCEPT ![f] = archive.build]
        /\ UNCHANGED <<pc, ret>>
     \/ /\ archive.whole /\ \A f \in RootFiles : root[f] # "none"
        /\ Exit("ok") /\ UNCHANGED root
     \/ ~archive.whole /\ Exit("failed") /\ UNCHANGED root
  /\ UNCHANGED <<force, archive, dest>>

Abort == pc # "idle" /\ Exit("killed") /\ UNCHANGED nvars

Next == Run \/ Replace \/ RemoveRoot \/ CreateRoot \/ Extract \/ Abort

----------------------------------------------------------------------------
\* An installation that returns 0 left exactly the archive's files in DEST.
SuccessIsComplete ==
  pc = "idle" /\ ret = "ok" => dest /\ \A f \in RootFiles : root[f] = archive.build

\* DEST never holds files of two root file systems, not even half-way.
NeverMixed ==
  \A f, g \in RootFiles : root[f] # "none" /\ root[g] # "none" => root[f] = root[g]
=============================================================================
