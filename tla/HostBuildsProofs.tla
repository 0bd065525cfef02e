-------------------------- MODULE HostBuildsProofs --------------------------
(***************************************************************************)
(* What a command of the host scripts may find is what any number of       *)
(* interrupted commands left.  The inductive invariant of each script has  *)
(* a part about its files alone, which every interrupt keeps, and a part   *)
(* about what the running command has made of them so far.                 *)
(***************************************************************************)
EXTENDS HostBuilds, TLAPS

----------------------------------------------------------------------------
\* build-linux.sh.  A file is missing, from the verified tarball or patched, and
\* only what a patch changes can be patched.
KernelFiles ==
  /\ tree \in [Kernel!Files -> {"none", "stock", "patched"}]
  /\ \A f \in {"merge_config.sh", "other"} : tree[f] # "patched"

\* The patches before the one the loop is at are in the tree.
KernelPhase ==
  /\ nth \in 1..3
  /\ pc = "extract" => tarball = "stock"
  /\ pc \in {"fetch", "sums", "verify", "extract", "check"} => nth = 1
  /\ pc = "apply" => nth <= 2
  /\ pc \in {"patch", "apply"} => \A p \in 1..2 : p < nth => Kernel!Reverse(Kernel!patches[p])
  /\ pc = "clean" => goal = "clean"
  /\ pc = "fetch" /\ srcdir => goal = "fetch"
  /\ Kernel!SuccessIsComplete

KernelInv == KernelFiles /\ (script = "build-linux" => KernelPhase)

----------------------------------------------------------------------------
\* build-zvknhk-openssl.sh.  Whatever is left of the build directory was made
\* under one set of inputs.
OpensslFiles ==
  /\ want \in Inputs
  /\ build \in [Openssl!BuildFiles -> Inputs \cup {"none", "torn"}]
  /\ \A f \in Openssl!BuildFiles : build[f] = "torn" => f = "stamp"
  /\ \A f, g \in Openssl!BuildFiles :
       build[f] \in Inputs /\ build[g] \in Inputs => build[f] = build[g]
  /\ out \in [Openssl!OutFiles -> Inputs \cup {"none"}]

OpensslPhase ==
  /\ pc = "configure" => \A f \in Openssl!BuildFiles : build[f] = "none"
  /\ pc \in {"stamp", "stamped"} =>
       build["Makefile"] = want /\ \A f \in Openssl!Objects : build[f] = "none"
  /\ pc \in {"make", "pqcbench", "install"} => build["Makefile"] = want
  /\ pc \in {"pqcbench", "install"} => \A f \in Openssl!Objects : build[f] = want
  /\ pc \in {"install", "version"} => out["pqcbench"] = want
  /\ pc = "version" => out["openssl"] = want
  /\ Openssl!SuccessIsComplete

OpensslInv == OpensslFiles /\ (script = "build-zvknhk-openssl" => OpensslPhase)

----------------------------------------------------------------------------
\* install-nfs-root.sh.  A directory that is not there holds no file.
NfsFiles ==
  /\ archive \in [build : Builds, whole : BOOLEAN]
  /\ root \in [RootFiles -> Builds \cup {"none"}]
  /\ ~dest => \A f \in RootFiles : root[f] = "none"
  /\ Nfs!NeverMixed

NfsPhase ==
  /\ pc = "create" => \A f \in RootFiles : root[f] = "none"
  /\ pc = "extract" => dest /\ \A f \in RootFiles : root[f] \in {"none", archive.build}
  /\ Nfs!SuccessIsComplete

NfsInv == NfsFiles /\ (script = "install-nfs-root" => NfsPhase)

IInv ==
  /\ script \in {"build-linux", "build-zvknhk-openssl", "install-nfs-root"}
  /\ KernelInv /\ OpensslInv /\ NfsInv

----------------------------------------------------------------------------
\* The two patches, and which files they change.
LEMMA Patches ==
  /\ Len(Kernel!patches) = 2
  /\ Kernel!patches[1] = {"riscv_pmu_sbi.c"}
  /\ Kernel!patches[2] = {"vdso/Makefile", "vdso/memset.c"}
  BY DEF Kernel!patches

\* New directories satisfy the invariant.
LEMMA InitIInv == Init => IInv
  <1> SUFFICES ASSUME Init PROVE IInv
    OBVIOUS
  <1>1. KernelInv
    BY DEF Init, Kernel!Init, KernelInv, KernelFiles, KernelPhase, Kernel!Files,
           Kernel!Packed, Kernel!NoTree, Kernel!SuccessIsComplete
  <1>2. OpensslInv
    BY HostBuildsAssumption
    DEF Init, Openssl!Init, OpensslInv, OpensslFiles, OpensslPhase, Openssl!BuildFiles,
        Openssl!Objects, Openssl!OutFiles, Openssl!SuccessIsComplete
  <1>3. NfsInv
    BY DEF Init, Nfs!Init, NfsInv, NfsFiles, NfsPhase, Nfs!NeverMixed, Nfs!SuccessIsComplete
  <1> QED
    BY <1>1, <1>2, <1>3 DEF IInv, Init

\* Each step of build-linux.sh, and an interrupt before it, keeps its invariant.
LEMMA KernelStep ==
  ASSUME KernelFiles, KernelPhase, Kernel!Next
  PROVE  KernelFiles' /\ KernelPhase'
  <1> USE Patches
      DEF KernelFiles, KernelPhase, Kernel!Files, Kernel!Packed, Kernel!Reverse,
        Kernel!SuccessIsComplete, Kernel!Exit, Kernel!Goto, Kernel!kvars
  <1>1. CASE Kernel!Run
    BY <1>1 DEF Kernel!Run
  <1>2. CASE Kernel!RemoveBuild
    BY <1>2 DEF Kernel!RemoveBuild, Kernel!NoTree
  <1>3. CASE Kernel!AlreadyPresent
    BY <1>3 DEF Kernel!AlreadyPresent
  <1>4. CASE Kernel!FetchTarball
    BY <1>4 DEF Kernel!FetchTarball
  <1>5. CASE Kernel!FetchSums
    BY <1>5 DEF Kernel!FetchSums
  <1>6. CASE Kernel!sha256sum
    BY <1>6 DEF Kernel!sha256sum
  <1>7. CASE Kernel!tar
    BY <1>7 DEF Kernel!tar
  <1>8. CASE Kernel!CheckTree
    BY <1>8 DEF Kernel!CheckTree
  <1>9. CASE Kernel!apply_linux_patches
    BY <1>9 DEF Kernel!apply_linux_patches, Kernel!Forward
  <1>10. CASE Kernel!patch
    BY <1>10 DEF Kernel!patch
  <1>11. CASE Kernel!make
    BY <1>11 DEF Kernel!make
  <1>12. CASE Kernel!Abort
    BY <1>12 DEF Kernel!Abort
  <1> QED
    BY <1>1, <1>2, <1>3, <1>4, <1>5, <1>6, <1>7, <1>8, <1>9, <1>10, <1>11, <1>12
    DEF Kernel!Next

\* Each step of build-zvknhk-openssl.sh, and an interrupt before it, keeps its
\* invariant.
LEMMA OpensslStep ==
  ASSUME OpensslFiles, OpensslPhase, Openssl!Next
  PROVE  OpensslFiles' /\ OpensslPhase'
  <1> USE HostBuildsAssumption
      DEF OpensslFiles, OpensslPhase, Openssl!BuildFiles, Openssl!Objects, Openssl!OutFiles,
        Openssl!SuccessIsComplete, Openssl!Exit, Openssl!Goto, Openssl!Staged, Openssl!ovars
  <1>1. CASE Openssl!Run
    BY <1>1 DEF Openssl!Run
  <1>2. CASE Openssl!RemoveOut
    BY <1>2 DEF Openssl!RemoveOut
  <1>3. CASE Openssl!check_sources
    BY <1>3 DEF Openssl!check_sources
  <1>4. CASE Openssl!Reuse
    BY <1>4 DEF Openssl!Reuse, Openssl!SameInputs
  <1>5. CASE Openssl!RemoveBuild
    BY <1>5 DEF Openssl!RemoveBuild
  <1>6. CASE Openssl!Configure
    BY <1>6 DEF Openssl!Configure
  <1>7. CASE Openssl!WriteStamp
    BY <1>7 DEF Openssl!WriteStamp
  <1>8. CASE Openssl!make
    BY <1>8 DEF Openssl!make
  <1>9. CASE Openssl!LinkPqcbench
    BY <1>9 DEF Openssl!LinkPqcbench
  <1>10. CASE Openssl!InstallOpenssl
    BY <1>10 DEF Openssl!InstallOpenssl
  <1>11. CASE Openssl!WriteVersion
    BY <1>11 DEF Openssl!WriteVersion
  <1>12. CASE Openssl!Abort
    BY <1>12 DEF Openssl!Abort
  <1> QED
    BY <1>1, <1>2, <1>3, <1>4, <1>5, <1>6, <1>7, <1>8, <1>9, <1>10, <1>11, <1>12
    DEF Openssl!Next

\* Each step of install-nfs-root.sh, and an interrupt before it, keeps its
\* invariant.
LEMMA NfsStep ==
  ASSUME NfsFiles, NfsPhase, Nfs!Next
  PROVE  NfsFiles' /\ NfsPhase'
  <1> USE HostBuildsAssumption
      DEF NfsFiles, NfsPhase, Nfs!NeverMixed, Nfs!SuccessIsComplete, Nfs!Exit, Nfs!Goto,
        Nfs!nvars
  <1>1. CASE Nfs!Run
    BY <1>1 DEF Nfs!Run
  <1>2. CASE Nfs!Replace
    BY <1>2 DEF Nfs!Replace
  <1>3. CASE Nfs!RemoveRoot
    BY <1>3 DEF Nfs!RemoveRoot
  <1>4. CASE Nfs!CreateRoot
    BY <1>4 DEF Nfs!CreateRoot
  <1>5. CASE Nfs!Extract
    BY <1>5 DEF Nfs!Extract
  <1>6. CASE Nfs!Abort
    BY <1>6 DEF Nfs!Abort
  <1> QED
    BY <1>1, <1>2, <1>3, <1>4, <1>5, <1>6 DEF Nfs!Next

\* IInv is an invariant.  A command touches only its own script's files, so the
\* other two scripts' invariants are carried over.
THEOREM Invariance == Spec => []IInv
  <1>1. ASSUME IInv, [Next]_vars PROVE IInv'
    <2>1. CASE BuildLinux
      <3>1. KernelFiles' /\ KernelPhase'
        BY <1>1, <2>1, KernelStep DEF BuildLinux, IInv, KernelInv
      <3>2. OpensslFiles' /\ NfsFiles'
        BY <1>1, <2>1 DEF BuildLinux, IInv, OpensslInv, NfsInv, OpensslFiles, NfsFiles,
                          Nfs!NeverMixed, ovars, nvars
      <3> QED
        BY <1>1, <2>1, <3>1, <3>2 DEF BuildLinux, IInv, KernelInv, OpensslInv, NfsInv
    <2>2. CASE BuildOpenssl
      <3>1. OpensslFiles' /\ OpensslPhase'
        BY <1>1, <2>2, OpensslStep DEF BuildOpenssl, IInv, OpensslInv
      <3>2. KernelFiles' /\ NfsFiles'
        BY <1>1, <2>2 DEF BuildOpenssl, IInv, KernelInv, NfsInv, KernelFiles, NfsFiles,
                          Nfs!NeverMixed, kvars, nvars
      <3> QED
        BY <1>1, <2>2, <3>1, <3>2 DEF BuildOpenssl, IInv, KernelInv, OpensslInv, NfsInv
    <2>3. CASE InstallNfsRoot
      <3>1. NfsFiles' /\ NfsPhase'
        BY <1>1, <2>3, NfsStep DEF InstallNfsRoot, IInv, NfsInv
      <3>2. KernelFiles' /\ OpensslFiles'
        BY <1>1, <2>3 DEF InstallNfsRoot, IInv, KernelInv, OpensslInv, KernelFiles,
                          OpensslFiles, kvars, ovars
      <3> QED
        BY <1>1, <2>3, <3>1, <3>2 DEF InstallNfsRoot, IInv, KernelInv, OpensslInv, NfsInv
    <2>4. CASE UNCHANGED vars
      BY <1>1, <2>4
      DEF vars, kvars, ovars, nvars, IInv, KernelInv, OpensslInv, NfsInv, KernelFiles,
          KernelPhase, OpensslFiles, OpensslPhase, NfsFiles, NfsPhase, Nfs!NeverMixed,
          Kernel!SuccessIsComplete, Openssl!SuccessIsComplete, Nfs!SuccessIsComplete,
          Kernel!Reverse
    <2> QED
      BY <1>1, <2>1, <2>2, <2>3, <2>4 DEF Next
  <1> QED
    BY InitIInv, <1>1, PTL DEF Spec

\* A command that returns 0 has done what it is for, whatever commands before it
\* left behind, for every set of inputs, root file systems and files in them.
THEOREM SuccessCorrect == Spec => []SuccessIsComplete
  <1>1. IInv => SuccessIsComplete
    BY DEF IInv, KernelInv, KernelPhase, OpensslInv, OpensslPhase, NfsInv, NfsPhase,
           SuccessIsComplete
  <1> QED
    BY Invariance, <1>1, PTL

\* No kernel source tree ever holds a file of an unverified tarball, no OpenSSL build
\* directory files of two configurations, no NFS root files of two root file systems,
\* not even half-way through a command or after an interrupted one.  Nothing is said of
\* the programs staged in OUT_DIR, which an interrupted build does leave mixed.
THEOREM NeverMixedCorrect == Spec => []NeverMixed
  <1>1. IInv => NeverMixed
    <2> SUFFICES ASSUME IInv PROVE NeverMixed
      OBVIOUS
    <2>1. Kernel!NeverMixed
      BY DEF IInv, KernelInv, KernelFiles, Kernel!NeverMixed
    <2>2. Openssl!NeverMixed
      BY DEF IInv, OpensslInv, OpensslFiles, Openssl!NeverMixed
    <2> QED
      BY <2>1, <2>2 DEF IInv, NfsInv, NfsFiles, NeverMixed
  <1> QED
    BY Invariance, <1>1, PTL
=============================================================================
