---------------------------- MODULE KernelBuild -----------------------------
(***************************************************************************)
(* fetch-linux-source.sh and build-linux.sh: the kernel source is fetched, *)
(* checked, unpacked and patched in place, then built.  Every step may be  *)
(* the last one of an interrupted command; the next command starts from    *)
(* the files it finds.                                                     *)
(*                                                                         *)
(* A file of the tree is "none", "stock" (from the tarball the checksums   *)
(* name), "altered" (from another one) or "patched".  tar and patch write  *)
(* their files one at a time, in any order.                                *)
(***************************************************************************)
EXTENDS Naturals, Sequences

VARIABLES
  pc,       \* where the running command is, or "idle"
  ret,      \* how the last command ended: "none", "ok", "failed", "killed"
  goal,     \* "fetch", "build" or "clean"
  tarball,  \* TARBALL_PATH: "none", "stock" or "altered"
  srcdir,   \* LINUX_SRC is a directory
  tree,     \* the files in it
  nth,      \* the patch the loop is at
  image     \* the tree that Image was built from, or NoTree

kvars == <<goal, tarball, srcdir, tree, nth, image>>

\* Files of the tarball: the script build-linux.sh calls, the two that patches
\* change, and one for all the rest.  The second patch also creates a file.
Packed == {"merge_config.sh", "riscv_pmu_sbi.c", "vdso/Makefile", "other"}
Files  == Packed \cup {"vdso/memset.c"}
patches == << {"riscv_pmu_sbi.c"}, {"vdso/Makefile", "vdso/memset.c"} >>

NoTree == [f \in Files |-> "none"]

Init ==
  /\ pc = "idle" /\ ret = "none" /\ goal = "fetch" /\ tarball = "none"
  /\ srcdir = FALSE /\ tree = NoTree /\ nth = 1 /\ image = NoTree

Exit(how) == pc' = "idle" /\ ret' = how
Goto(l)   == pc' = l /\ UNCHANGED ret

Run ==
  /\ pc = "idle"
  /\ goal' \in {"fetch", "build", "clean"}
  /\ nth' = 1
  /\ pc' = CASE goal' = "clean" -> "clean"
             [] goal' = "build" /\ srcdir -> "check"
             [] OTHER -> "fetch"
  /\ ret' = "none"
  /\ UNCHANGED <<tarball, srcdir, tree, image>>

\* clean-build.sh: rm -rf of everything, one file after the other.
RemoveBuild ==
  /\ pc = "clean"
  /\ \/ /\ \E f \in Files : tree[f] # "none" /\ tree' = [tree EXCEPT ![f] = "none"]
        /\ UNCHANGED <<pc, ret, tarball, srcdir, image>>
     \/ /\ tarball # "none" /\ tarball' = "none"
        /\ UNCHANGED <<pc, ret, tree, srcdir, image>>
     \/ /\ image # NoTree /\ image' = NoTree
        /\ UNCHANGED <<pc, ret, tree, srcdir, tarball>>
     \/ /\ srcdir /\ tree = NoTree /\ srcdir' = FALSE
        /\ UNCHANGED <<pc, ret, tarball, tree, image>>
     \/ /\ tree = NoTree /\ ~srcdir /\ tarball = "none" /\ image = NoTree
        /\ Exit("ok") /\ UNCHANGED <<tarball, tree, srcdir, image>>
  /\ UNCHANGED <<goal, nth>>

----------------------------------------------------------------------------
\* fetch-linux-source.sh.  curl writes a temporary file that only the rename
\* makes TARBALL_PATH; the mirror may serve another file than it should.
AlreadyPresent == pc = "fetch" /\ srcdir /\ Exit("ok") /\ UNCHANGED kvars

FetchTarball ==
  /\ pc = "fetch" /\ ~srcdir
  /\ \/ /\ tarball = "none" /\ tarball' \in {"stock", "altered"}
        /\ Goto("sums")
     \/ tarball = "none" /\ Exit("failed") /\ UNCHANGED tarball
     \/ tarball # "none" /\ Goto("sums") /\ UNCHANGED tarball
  /\ UNCHANGED <<goal, srcdir, tree, nth, image>>

\* curl and grep for the checksum: each may fail.
FetchSums ==
  /\ pc = "sums"
  /\ Goto("verify") \/ Exit("failed")
  /\ UNCHANGED kvars

sha256sum ==
  /\ pc = "verify"
  /\ IF tarball = "stock" THEN Goto("extract") ELSE Exit("failed")
  /\ UNCHANGED kvars

tar ==
  /\ pc = "extract"
  /\ srcdir' = TRUE
  /\ \/ /\ \E f \in Packed : tree[f] = "none" /\ tree' = [tree EXCEPT ![f] = tarball]
        /\ UNCHANGED <<pc, ret>>
     \/ /\ \A f \in Packed : tree[f] # "none"
        /\ IF goal = "fetch" THEN Exit("ok") ELSE Goto("check")
        /\ UNCHANGED tree
  /\ UNCHANGED <<goal, tarball, nth, image>>

----------------------------------------------------------------------------
\* build-linux.sh
CheckTree ==
  /\ pc = "check"
  /\ IF tree["merge_config.sh"] = "none" THEN Exit("failed") ELSE Goto("patch")
  /\ UNCHANGED kvars

\* What the dry runs of patch find.
Forward(p) == \A f \in p : tree[f] = (IF f \in Packed THEN "stock" ELSE "none")
Reverse(p) == \A f \in p : tree[f] = "patched"

\* Mutant: a patch that neither applies nor is applied is passed over.
SkipUnclean ==
  /\ pc = "patch" /\ nth <= Len(patches)
  /\ IF Forward(patches[nth]) THEN Goto("apply") /\ UNCHANGED nth
     ELSE nth' = nth + 1 /\ UNCHANGED <<pc, ret>>
  /\ UNCHANGED <<goal, tarball, srcdir, tree, image>>

apply_linux_patches ==
  /\ pc = "patch" /\ nth <= Len(patches)
  /\ IF Forward(patches[nth]) THEN Goto("apply") /\ UNCHANGED nth
     ELSE IF Reverse(patches[nth]) THEN nth' = nth + 1 /\ UNCHANGED <<pc, ret>>
     ELSE Exit("failed") /\ UNCHANGED nth
  /\ UNCHANGED <<goal, tarball, srcdir, tree, image>>

patch ==
  /\ pc = "apply"
  /\ \/ /\ \E f \in patches[nth] : tree[f] # "patched" /\ tree' = [tree EXCEPT ![f] = "patched"]
        /\ UNCHANGED <<pc, ret, nth>>
     \/ /\ Reverse(patches[nth])
        /\ nth' = nth + 1 /\ Goto("patch") /\ UNCHANGED tree
  /\ UNCHANGED <<goal, tarball, srcdir, image>>

\* External: make ends with an error when a source file is missing, and may for
\* other reasons.  That it does so for any file is assumed: no file here is one that
\* the build does not need, and none is cut short.
make ==
  /\ pc = "patch" /\ nth > Len(patches)
  /\ \/ /\ \A f \in Packed : tree[f] # "none"
        /\ image' = tree /\ Exit("ok")
     \/ Exit("failed") /\ UNCHANGED image
  /\ UNCHANGED <<goal, tarball, srcdir, tree, nth>>

\* An interrupt, or a disk that is full.
Abort == pc # "idle" /\ Exit("killed") /\ UNCHANGED kvars

Next == Run \/ RemoveBuild \/ AlreadyPresent \/ FetchTarball \/ FetchSums \/ sha256sum \/ tar
        \/ CheckTree \/ apply_linux_patches \/ patch \/ make \/ Abort

----------------------------------------------------------------------------
\* A build that returns 0 made Image from a complete tree of the verified tarball
\* with every patch in it, whatever earlier commands left behind.
SuccessIsComplete ==
  pc = "idle" /\ ret = "ok" /\ goal = "build" =>
    image = [f \in Files |-> IF \E p \in 1..Len(patches) : f \in patches[p]
                             THEN "patched" ELSE "stock"]

\* No file of the tree comes from a tarball whose checksum was not verified.
NeverMixed == \A f \in Files : tree[f] # "altered"
=============================================================================
