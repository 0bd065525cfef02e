----------------------------- MODULE HostBuilds -----------------------------
(***************************************************************************)
(* The host scripts that build in place, each with interrupts before any   *)
(* step and restarts on what was left: the kernel, the Zvknhk OpenSSL and  *)
(* the NFS root.  They share no file, so each is explored on its own.      *)
(***************************************************************************)
EXTENDS Naturals, Sequences

CONSTANTS Inputs, Builds, RootFiles

\* A missing file and a torn stamp are told apart from every value a file can have.
ASSUME HostBuildsAssumption ==
  "none" \notin Inputs \cup Builds /\ "torn" \notin Inputs

VARIABLES
  script,                                       \* the script in use
  pc, ret,                                      \* of its running command
  goal, tarball, srcdir, tree, nth, image,      \* KernelBuild
  want, build, out,                             \* OpensslBuild
  force, archive, dest, root                    \* NfsRoot

Kernel  == INSTANCE KernelBuild
Openssl == INSTANCE OpensslBuild
Nfs     == INSTANCE NfsRoot

kvars == <<goal, tarball, srcdir, tree, nth, image>>
ovars == <<want, build, out>>
nvars == <<force, archive, dest, root>>
vars  == <<script, pc, ret, kvars, ovars, nvars>>

Init ==
  /\ script \in {"build-linux", "build-zvknhk-openssl", "install-nfs-root"}
  /\ Kernel!Init /\ Openssl!Init /\ Nfs!Init

BuildLinux ==
  /\ script = "build-linux" /\ Kernel!Next
  /\ UNCHANGED <<script, ovars, nvars>>

BuildOpenssl ==
  /\ script = "build-zvknhk-openssl" /\ Openssl!Next
  /\ UNCHANGED <<script, kvars, nvars>>

InstallNfsRoot ==
  /\ script = "install-nfs-root" /\ Nfs!Next
  /\ UNCHANGED <<script, kvars, ovars>>

Next == BuildLinux \/ BuildOpenssl \/ InstallNfsRoot

Spec == Init /\ [][Next]_vars

----------------------------------------------------------------------------
\* A command that returns 0 has done what it is for, whatever interrupted or
\* failed commands before it left behind: Image has the verified source with every
\* patch (build-linux.sh), the staged programs and VERSION are of the current inputs
\* (build-zvknhk-openssl.sh), DEST has the archive's files (install-nfs-root.sh).
SuccessIsComplete ==
  CASE script = "build-linux"          -> Kernel!SuccessIsComplete
    [] script = "build-zvknhk-openssl" -> Openssl!SuccessIsComplete
    [] script = "install-nfs-root"     -> Nfs!SuccessIsComplete

\* At no moment, between commands or within one, does the kernel source tree hold a
\* file of an unverified tarball, SSL_BUILD files of two configurations, or DEST files
\* of two root file systems.  The programs staged in OUT_DIR are another matter.
NeverMixed == Kernel!NeverMixed /\ Openssl!NeverMixed /\ Nfs!NeverMixed

\* openssl and pqcbench, as staged for build-rootfs.sh, are of the same libcrypto
\* whenever no command is running (build-zvknhk-openssl.sh).
StagedTogether == script = "build-zvknhk-openssl" => Openssl!StagedTogether
=============================================================================
