---------------------------- MODULE OpensslBuild ----------------------------
(***************************************************************************)
(* build-zvknhk-openssl.sh build: OpenSSL configured and built in a        *)
(* directory that is reused when its stamp shows the same inputs.  Every   *)
(* step may be the last one of an interrupted command; between commands    *)
(* the inputs (flags, cross prefix, compiler version) may change.          *)
(***************************************************************************)
EXTENDS Naturals

CONSTANT Inputs     \* what configure_inputs may print

VARIABLES
  pc, ret,  \* as in KernelBuild
  want,     \* what configure_inputs prints now
  build,    \* SSL_BUILD: under which inputs each file was made, or "none"
  out       \* OUT_DIR: the same for the staged files

ovars == <<want, build, out>>

Objects == {"libcrypto.a", "apps/openssl"}
BuildFiles == Objects \cup {"Makefile", "stamp"}
OutFiles == {"pqcbench", "openssl", "VERSION"}

Init ==
  /\ pc = "idle" /\ ret = "none" /\ want \in Inputs
  /\ build = [f \in BuildFiles |-> "none"]
  /\ out = [f \in OutFiles |-> "none"]

Exit(how) == pc' = "idle" /\ ret' = how
Goto(l)   == pc' = l /\ UNCHANGED ret
Staged(f, v, l) == out' = [out EXCEPT ![f] = v] /\ Goto(l) /\ UNCHANGED <<want, build>>

Run ==
  /\ pc = "idle"
  /\ want' \in Inputs
  /\ pc' \in {"sources", "clean"} /\ ret' = "none"
  /\ UNCHANGED <<build, out>>

\* The action clean: rm -rf OUT_DIR, which holds the build directory too.
RemoveOut ==
  /\ pc = "clean"
  /\ \/ /\ \E f \in BuildFiles : build[f] # "none" /\ build' = [build EXCEPT ![f] = "none"]
        /\ UNCHANGED <<pc, ret, out>>
     \/ /\ \E f \in OutFiles : out[f] # "none" /\ out' = [out EXCEPT ![f] = "none"]
        /\ UNCHANGED <<pc, ret, build>>
     \/ /\ \A f \in BuildFiles : build[f] = "none"
        /\ \A f \in OutFiles : out[f] = "none"
        /\ Exit("cleaned") /\ UNCHANGED <<build, out>>
  /\ UNCHANGED want

check_sources == pc = "sources" /\ (Goto("reuse") \/ Exit("failed")) /\ UNCHANGED ovars

\* The stamp holds exactly what configure_inputs prints.  A compiler is known by its
\* version line: one rebuilt under the same line is the same input here too.
SameInputs == build["Makefile"] # "none" /\ build["stamp"] = want

Reuse ==
  /\ pc = "reuse"
  /\ Goto(IF SameInputs THEN "make" ELSE "remove")
  /\ UNCHANGED ovars

\* Mutant: the directory is configured again where it is.
KeepDirectory == pc = "remove" /\ Goto("configure") /\ UNCHANGED ovars

\* rm -rf, one file after the other.
RemoveBuild ==
  /\ pc = "remove"
  /\ \/ /\ \E f \in BuildFiles : build[f] # "none" /\ build' = [build EXCEPT ![f] = "none"]
        /\ UNCHANGED <<pc, ret>>
     \/ /\ \A f \in BuildFiles : build[f] = "none"
        /\ Goto("configure") /\ UNCHANGED build
  /\ UNCHANGED <<want, out>>

Configure ==
  /\ pc = "configure"
  /\ \/ build' = [build EXCEPT !["Makefile"] = want] /\ Goto("stamp")
     \/ Exit("failed") /\ UNCHANGED build
  /\ UNCHANGED <<want, out>>

\* The redirection empties the stamp before configure_inputs fills it.
WriteStamp ==
  /\ \/ /\ pc = "stamp"
        /\ build' = [build EXCEPT !["stamp"] = "torn"] /\ Goto("stamped")
     \/ /\ pc = "stamped"
        /\ build' = [build EXCEPT !["stamp"] = want] /\ Goto("make")
  /\ UNCHANGED <<want, out>>

\* make builds what is missing, with the flags in the Makefile; it removes a target
\* it is interrupted in, and may fail.
make ==
  /\ pc = "make"
  /\ \/ /\ \E f \in Objects : build[f] = "none" /\ build' = [build EXCEPT ![f] = build["Makefile"]]
        /\ UNCHANGED <<pc, ret>>
     \/ /\ \A f \in Objects : build[f] # "none"
        /\ Goto("pqcbench") /\ UNCHANGED build
     \/ Exit("failed") /\ UNCHANGED build
  /\ UNCHANGED <<want, out>>

LinkPqcbench == pc = "pqcbench" /\ Staged("pqcbench", build["libcrypto.a"], "install")
InstallOpenssl == pc = "install" /\ Staged("openssl", build["apps/openssl"], "version")

WriteVersion ==
  /\ pc = "version"
  /\ out' = [out EXCEPT !["VERSION"] = want]
  /\ Exit("ok")
  /\ UNCHANGED <<want, build>>

Abort == pc # "idle" /\ Exit("killed") /\ UNCHANGED ovars

Next == Run \/ RemoveOut \/ check_sources \/ Reuse \/ RemoveBuild \/ Configure \/ WriteStamp
        \/ make \/ LinkPqcbench \/ InstallOpenssl \/ WriteVersion \/ Abort

----------------------------------------------------------------------------
\* A build that returns 0 staged both programs and VERSION under the inputs it
\* was given.
SuccessIsComplete ==
  pc = "idle" /\ ret = "ok" => \A f \in OutFiles : out[f] = want

\* "a toolchain change forces a reconfigure rather than mixing objects": what there is
\* in the build directory, the stamp included unless it is torn, is of the same inputs,
\* so that no stamp vouches for objects made under others.
NeverMixed ==
  \A f, g \in BuildFiles :
    build[f] \notin {"none", "torn"} /\ build[g] \notin {"none", "torn"} => build[f] = build[g]

\* "demo/pqcbench linked against the same libcrypto": when no command runs and both
\* programs are there, which is all that build-rootfs.sh asks before it installs them,
\* they were made under the same inputs.
StagedTogether ==
  pc = "idle" /\ out["pqcbench"] # "none" /\ out["openssl"] # "none" =>
    out["pqcbench"] = out["openssl"]
=============================================================================
