# TLA+ models of karudeb

karudeb builds a Debian riscv64 NFS-root system for the karu64 soft core: host
scripts (`scripts/`), tools that run on the target (`tools/`) and ML-KEM and
ML-DSA in C with RISC-V vector code (`tools/pqc/`). These modules model the parts
whose correctness rests on control, ordering or machine arithmetic, check them with TLC and prove the
main results with TLAPS. Paths below are relative to the repository.

## Inventory

| Component | State | Operations | Hard part |
|---|---|---|---|
| `tools/perf_run.c` | pipe, two perf events, child, wait status | `--user-count`, raw mode | two processes and a pipe; any system call may fail, either process may be killed |
| `tools/pqc/*/fips202.c` | 25 lanes, `pos` | init, absorb, finalize, squeeze, squeezeblocks, absorb_once, one-shot shake and sha3 | chunk and block boundaries |
| samplers: `mldsa_poly.c`, `mlkem_kpke.c`, both `rvv_poly.c` | `buf`, `pos`, `ctr` | poly_uniform, poly_uniform_eta, gen_matrix | refill in the middle of a candidate, clamped vector stores, vector code equal to scalar code |
| `poly_challenge` | `i`, `pos`, `signs`, `c` | one function | shuffle order, refill during a placement |
| `tools/pqc/mldsa/mldsa.c` | keys, locals of the rejection loop | keygen, sign, verify, pack_sig, unpack_sig | four rejections at different points, wrap-around of the high part, canonical hints |
| `tools/pqc/mlkem/mlkem.c`, `mlkem_kpke.c` | key and ciphertext buffers | keygen, encaps, decaps | implicit rejection, buffer layout |
| arithmetic: `reduce.h`, `mldsa_reduce.h`, `*_ntt.c`, `*_poly.c`, `cbd*.c` | none | reductions, transforms, compression, packing | machine widths, growth between reductions, vector code equal to scalar code |
| `keccak.c` | 25 lanes | the permutation | unrolled rounds with swapped names, vector lanes that depend on VLEN |
| `scripts/test-qemu-vnc.sh` | archive, image, pid file, executable file, QEMU process | start, image, stop, status, probe | interrupts, stale pid files, deadlines, an image that a guest writes to |
| `scripts/build-rootfs.sh`, `package-rootfs.sh` | root tree, archive | build, configure, package | interrupted builds that look complete |
| `scripts/install-nfs-root.sh`, `install-9p-root.sh`, `export-nfs-root.sh` | export tree, exports file | install, export | replaced in place while in use |
| `scripts/fetch-linux-source.sh`, `build-linux.sh` | tarball, checksum, source tree, patches, build tree | fetch, patch, build | existence taken for completeness |
| `scripts/stage-karu64-tftp.sh` | staged files, TFTP root | stage | a board fetching during a copy, the retry chain |
| `scripts/build-zvknhk-openssl.sh` | build tree, configuration stamp | build, check, clean | interrupted configuration |
| `karudeb-vnc` init script (in `build-rootfs.sh`) | VNC display | start, stop, restart | retries |
| images, firmware, launchers, benchmarks, probes | files written once, measurements | | little state |

Interactions: the samplers and `poly_challenge` read the sponge through
`squeezeblocks` (so they rely on its "no block started" precondition);
`mldsa_sign_internal` uses the samplers, `poly_challenge` and the hint encoding;
`test-qemu-vnc.sh` calls `build-rootfs.sh`, `package-rootfs.sh` and the kernel
build and shares their files; benchmarks on the target run under `perf_run`.

What makes each part correct is stated as the properties below; everything that is
hard to test is listed, with its line, under `hazards` in `PROJECT.json`.

## Modules

Each component has a module; `MC*` modules give the constants for TLC; `*Proofs`
modules hold the theorems.

### PerfRun: `tools/perf_run.c`

`pc` is the parent's next system call, `at` the event it is about (the code's
`call(cycles) || call(instret)`), `child` the child's. `wr` and `rd` are the
processes that hold each end of `sync_pipe`, `token` the byte in it, `ev` and
`count` the two events, `out` and `status` the parent's locals, `ret` what the
caller of `perf_run` sees. The arguments and the inherited dispositions of SIGPIPE
and SIGCHLD are chosen at the start. `work`, `twork` and `got` only observe. The
kernel (counting, SIGPIPE, descriptors closed at exit), the benchmark and signals
from outside are external. A call of the child before `execve` costs one counted
step, hence `PreExecSteps = 4`.

- `NoUncountedWork`: between `execve` and its death the benchmark always has both
  events enabled (unless the wrapper was killed).
- `CountsAreBenchmark`: a count that was read is the benchmark's work plus at most
  the child's four steps before it.
- `SuccessIsEarned`: exit 0 means the benchmark exited 0 and both counts were read.
- `NothingLeftBehind`: the benchmark inherits no pipe end; a wrapper that returned
  left no zombie and no descriptor.
- `BothEnd`: both processes come to an end.
- `WholeProcessCounted` (violated): see Findings.

### XOF and Fips202: `tools/pqc/mlkem/fips202.c` (and the copy in mldsa)

`XOF` is the promise: message byte i goes to block i div Rate at offset i mod Rate,
the padding closes the last block, output byte j comes from the j-th byte of the
blocks after it. `Fips202` has one step per loop iteration, `pos` as in
`keccak_state`, and `perm`, the number of permutations, in place of the lanes.
Every XOR and every read is recorded with its block and offset, which are XOF's own
variables: the refinement mapping is the identity on them. The rate is a constant,
which stands for SHAKE128, SHAKE256, SHA3-256 and SHA3-512; callers keep to the
documented precondition of `squeezeblocks`.

- `PositionIsBytesTaken`: `pos` stays inside the block and, with `perm`, counts the
  bytes absorbed.
- `OneShotComplete`: one-shot calls write exactly `outlen` bytes.
- `ImplementsXOF`: the refinement.
- `CallsReturn`: no chunk size makes a loop spin.

### Sampling, Challenge, Samplers: polynomials from a SHAKE stream

`Sampling`: a sampler is a record of sizes (bytes per unit, candidates per unit, units
per round, tail loop, kept bytes, block size, blocks squeezed first, spare bytes,
coefficients). A byte is its place in the stream; which candidates are rejected is
chosen at the start. `GroupRound` is a round of the first loop (one unit for scalar
code, a group for vector code), `TailRound` one of the loop after it, `Kept` the
bytes `poly_uniform` moves to the front, `Refill` the next block. `Challenge` is
`poly_challenge`, one step per byte read and per placement, any byte at any time.
`Samplers` runs one call of either.

- `InBounds`: `buf` and the polynomial of a rejection sampler are never overrun.
- `FirstAccepted`: the coefficients are the first accepted candidates of the
  stream, whichever loops produced them, and a refill only happens once all
  complete candidates are used.
- `SamplerReturns`: with all coefficients.
- `TypeOK`: `poly_challenge` makes no access outside its buffer, the polynomial or the
  64 sign bits.
- `ExactlyTau`: the number of non-zero coefficients, after every placement.

### MldsaSign: `mldsa.c`

Key generation, the loop from `rej:` to `pack_sig` and verification, one step per
check. The ring has one coefficient, so the NTT does not matter; `decompose`,
`make_hint`, `use_hint`, `power2round` and `chknorm` are the code's functions with
the parameters as constants. The random oracle is injective.

- `SignedVerifies`: what sign writes, verify accepts.
- `MaskHidesKey`: the z of a signature could have come from every short s1.
- `LowBitsHideKey`: w - c s2 is so far from an edge that every short s2 would have
  given the same high part.
- `TypeOK` includes the ranges that the packers rely on.

### KEM and MlkemKem: `mlkem.c`, `mlkem_kpke.c`

`KEM` is the promise: a key pair is an injective table from messages to ciphertexts;
encapsulation gives a row and its secret; decapsulation finds the row, and for any
other ciphertext returns a secret of that key and that ciphertext alone. `MlkemKem`
has the three calls as actions and a channel that alters a coefficient or delivers to
the wrong key. A buffer is the set of fields written to it, `<<offset, size, value>>`
in bytes, with the code's offsets and sizes for all three parameter sets: a field
written over is lost. Polynomials have two coefficients, compression and noise
their real ranges. Digests are terms; `verify` and `cmov` are taken by their results,
without the masks of machine words. `table` and `drawn` only observe. With two
coefficients the noise of a decryption is always below a quarter of q. With the code's
256 its worst case is not, and ML-KEM fails to decrypt with a very small probability:
that failure is not in the model, and the refinement is to be read without it.

- `ImplementsKEM`: the refinement; `Meaning` maps a key to whose secret it is.
- `BuffersExact`: keys and ciphertexts fill their buffers without gap or overlap.
- `NoiseOnce`: no seed and nonce serve two noise polynomials.

### MlkemRing, MldsaRing, Keccak, Kernels: the arithmetic

`MlkemRing` and `MldsaRing` follow the calls each caller makes (transform, multiply
and accumulate, reduce, back, add) in the C and in the vector build, one step per
layer, on 256 words of the real width. The vector build keeps its registers, lane
permutations and tables. All of it is linear, so that the polynomials X^i show what
happens to every polynomial. Beside the words an interval bounds what *any* input of
the callers could make of a coefficient. `Keccak` has the two unrolled rounds with
their names, the round constants, and what the vector form loads and stores around
`vkeccak` for VLEN 128 and 256. `Kernels` runs any of the three.

- `Splits`: after each layer the words are the residues modulo the factors so far.
- `Product`: each call sequence ends with the product, without a Montgomery factor.
- `InRange`: no word overflows for any input, and what `caddq` is given lies within
  (-q, q).
- `IsKeccakP`: every round, and the vector form, is Keccak-p[1600, 24].

### PolyCodec, HintCodec, Codecs: bytes

`PolyCodec` has every packer and unpacker of both schemes as a recipe of shifts (a
word is the set of its one bits), compression by multiply and shift, and the noise of
`cbd.c` and `cbd_rvv.c`. It starts on any eight coefficients of a format's range
(`Ends`) or any bytes of noise. `HintCodec` is the hint part of `pack_sig` and `unpack_sig`,
one step per polynomial, started on every hint vector of weight up to omega and on
every string of bytes. `Codecs` runs either; `MCPrimitives` joins it with `Kernels` in
one run.

- `LittleEndian`: the bytes are the little-endian string of the (rounded) coefficients.
- `CoefficientsReturn`: the unpacker gives the coefficients back, for a compressed
  format within half a step.
- `NoiseIsBinomial`: both builds give the centred binomial sums of the same bits (the
  masked additions within a word are taken by their result).
- `HintsInBounds`: decoding reads and writes nothing outside.
- `RoundTrip`: what is packed is accepted and decoded to the same vector.
- `OneEncoding`: bytes that are accepted are the bytes `pack_sig` writes for the
  decoded vector (stated without its loop).

### KernelBuild, OpensslBuild, NfsRoot, HostBuilds: scripts that build in place

`KernelBuild` is `fetch-linux-source.sh`, `build-linux.sh` and `clean-build.sh`,
`OpensslBuild` `build-zvknhk-openssl.sh` (build and clean), `NfsRoot`
`install-nfs-root.sh`. A file is where it came from; `tar`, `patch` and `rm -rf` touch
one file per step in any order; `Abort` ends a command before any step and the next
command starts from what is there, with other inputs if it likes. They share no file:
`HostBuilds` explores each on its own.

- `SuccessIsComplete`: a command that returns 0 has done what it is for, whatever was
  left before it: Image has the verified source with every patch, the staged programs
  and VERSION are of the current inputs, DEST has the archive's files.
- `NeverMixed`: at no point of any command does the kernel source tree hold sources of an
  unverified tarball, DEST files of two root file systems, or the OpenSSL build directory
  two configurations among its objects, its Makefile and the stamp that vouches for them
  (unless it is torn). It says nothing of `OUT_DIR`, where the programs are staged.
- `StagedTogether` (violated): see Findings.

What they assume: `make` ends with an error when any source file is missing, and files
are missing rather than cut short. A compiler is its version line, as in the stamp: one
rebuilt under the same line counts as the same input, although the script's comment (lines
118 to 120) speaks of any toolchain change. `NfsRoot` unpacks the `.tar.zst` that
`package-rootfs.sh` writes; of the other formats, a plain `.tar` cut between two members
would pass unnoticed.

After an interrupted extraction, or half a patch, every later kernel build ends with an
error until the source is removed: no other command of the model gets out of that state.

### QemuVnc: `scripts/test-qemu-vnc.sh`

`pc` is the next step of the running command; `cmd` its name and whether
`QEMU_SYSTEM` names a `qemu-system-*` binary. Files are abstracted to what the
script asks of them and what can be wrong with them: the archive is missing, torn
or whole; the image is missing, partial or full, built from the current or an older
archive, and newer than the archive or not. `Abort` ends a command before any of
its steps. Beside the script run QEMU (booting, serving, terminating, killed), its
guest, other processes that may get a pid again, and a repackaging by hand.

- `AlwaysFindable`: `qemu_pid` finds a live QEMU under every `QEMU_SYSTEM`.
- `OnlyQemuSignalled`: `stop` never signals a process that was given a stale pid.
- `FsckOffline`: no repair of an image that a live QEMU has open.
- `StopStops`: after a `stop` that returned 0, no QEMU but one that SIGKILL is
  removing.
- `ImageIsWhole`: a file at `ROOTFS_IMAGE` holds a complete archive.
- `CommandsReturn`: every command ends.
- `StartWaitsForVnc`, `BootsCurrentArchive` (violated): see Findings.

## Runs

| Run | Instance | Why it is enough |
|---|---|---|
| `perf_run` | two counted steps, one thread step, exit codes 0 and 3 | every call succeeds and fails, each side dies at each point; more work only lengthens the count |
| `perf_run_threads` | as above, five thread steps | more thread work than the four steps before `execve`, so the shortfall shows |
| `fips202` | rate 3, digest 2, up to 7 bytes in and out | two full blocks and a rest, every chunking, every mix of calls |
| `qemu_vnc`, `qemu_vnc_waits`, `qemu_vnc_stale` | two pids, one round per waiting loop | a stale pid may be free, reused or QEMU's own; each loop may be left before and at its deadline |
| `samplers` | seven samplers with scaled sizes, every subset of rejections in five units; N = 6, tau = 4, rate 3, one byte of signs | groups of two, refills, blocks that end inside a unit, rejections on both sides of each boundary; refills before, in and after a placement, every collision |
| `mldsa_sign` | Q = 33, 2^D = 8, gamma1 = gamma2 = 4, two rows, one hint allowed, two rounds | all four rejections happen, so do hints in both directions and the wrap of the high part |
| `mlkem_kem` | the three parameter sets, two key pairs, two ciphertexts on the way, messages of two bits | honest, altered (lowest and highest bit of any coefficient) and misdirected ciphertexts, in any order with key generation |
| `primitives` | kernels: every X^i through one caller of each vector build, six of them through every caller of both builds; one bit in every lane, two patterns in two lanes for both vector lengths | the transforms are linear; X^255 meets every factor; single bits and dense lanes drive theta, rho and chi (every state: see the theorems) |
| | codecs: every reduced coefficient for the compressed formats, eight consecutive ones in a group; for the others every single bit and both ends of the range at each of eight places; one noise byte at each place, at two of them with every value; hints with N = 5, two polynomials, omega 3 | each bit of each word is moved once, each field of each noise byte is met (all coefficients and bytes together: see the theorems); every hint vector and every byte string of that size |
| `host_builds`, `host_builds_staged` | two sets of inputs, two root file systems of three files, the repository's two kernel patches | every prefix of every command, followed by every other |

Bounds are constants: `MaxWork`, `MaxThreadWork`, `MaxIn`, `MaxOut`, `MaxUnits`,
`MaxTries`, `WaitTicks`, `StopTicks`, `MaxNet`, and the sets `Kinds`, `KemInputs`,
`DsaInputs`, `Starts`, `Groups`, `Noise`. Deadlock is checked in every run but
`mlkem_kem`, where nothing may be left to do; models of functions that return have an
explicit final step. No symmetry is used.

Fairness. PerfRun: weak fairness of each process, that is, the scheduler runs what
is runnable and the benchmark ends. Fips202, Samplers: a function that was called
keeps executing. QemuVnc: weak fairness of the script's steps only; QEMU, its guest
and the host owe nothing.

Every property is accompanied by a mutant of the code (marked `Mutant` in the
modules) that violates it.

## Findings

1. `perf_run_threads` / `WholeProcessCounted`: `open_hw_event` does not set
   `inherit`, so `--user-count` counts the benchmark's first task only, while the
   comment in `perf_run.c` and the README say "whole-process".
2. `qemu_vnc_waits` / `StartWaitsForVnc`: a start that finds QEMU running returns 0
   without waiting for VNC, for instance after an interrupted first start.
3. `qemu_vnc_stale` / `BootsCurrentArchive`: the `-nt` test takes an image that a
   guest or e2fsck touched after a repackaging for a current one.
4. `host_builds_staged` / `StagedTogether`: `build-zvknhk-openssl.sh` replaces pqcbench,
   openssl and VERSION in `OUT_DIR` one after the other. A build under new inputs that is
   interrupted after the first leaves the new pqcbench beside the old openssl;
   `build-rootfs.sh` asks only that both be executable and installs them, while the script
   and the README say that both are linked against the same libcrypto.

## Theorems

All theorems hold for every value of the constants that satisfies the module's
ASSUME, not only for the instances above, and are checked by TLAPS.

- `PerfRunProofs`: `TypeCorrect`, `NeverUncounted`, `CountsCorrect`,
  `SuccessCorrect`, `Clean`. None of the invariants is inductive alone. `IInv` adds,
  for each control point of the parent, what holds of the child, the pipe and the
  events there: the child cannot have passed its read before the token was written,
  the token is written only with both events enabled, and until the release the
  child has taken no step but its four. Proved per part of `IInv`, per action.
- `Fips202Proofs`: `PositionCorrect`, `OneShotCorrect`, `Refinement`,
  `PermutationCorrect`, `RangesCorrect`. The invariant
  ties `perm` and `pos` to the bytes taken while absorbing, and to the bytes given
  and the length of the message while squeezing; from it each step is a step of XOF
  or a stutter. The arithmetic of quotient and remainder is isolated in lemmas.
  `PermutationCorrect` is about module Keccak, the instance `Hash` of Kernels, and any
  25 lanes at the start. FIPS 202 defines rotations by a walk over the lanes and round constants by
  a shift register. Both recursive functions exist by induction (`StepByStep`) and are
  then unrolled: the walk in 24 steps, the register seven steps at a time
  (`SevenSteps`) for the 24 rounds. This gives `RowsPiRho` and `Constants`: the tables
  of `keccak.c` are those of FIPS 202. `RoundIsRefRound` compares the lanes of a round;
  the invariant `KeccakInv` says that element n of the vector group holds lane n of the
  reference (`ElementIsLane`, for both vector lengths).
  `RangesCorrect` is about the arithmetic kernels beside it, in both builds and for
  every input of the callers. `InRange` bounds one word at a time and is not inductive:
  `RangesInv` gives, per call and per layer, how far the coefficients can have grown
  (`KemLow`, `KemHigh`, `DsaMost`). The call sequences enter only through which call may
  follow which (`KemAfter`, `DsaAfter`), so the bounds hold of any sequence of that shape
  and of these sizes. The proof is about the intervals the model carries; that they
  enclose the coefficients of every input is how each action was written (`Redc`, `Grow`),
  and is not proved.
- `QemuVncProofs`: `Findable`, `SignalsQemuOnly`, `FsckIsOffline`, `StopIsFinal`,
  `WholeImage`, for any set of pids and any deadlines. `IInv` says, per step of the
  command, what it already knows: a start that has passed its check saw no QEMU, so
  there is none until it launches one; the pid a stop is signalling and waiting for
  is QEMU's or nobody's (the kernel hands pids out in turn, so the model gives none
  again while a stop that has read it is running); a repair is reached only once that pid is dead or
  killed; `ROOTFS_IMAGE` is only ever set by the rename of a complete file.
- `HostBuildsProofs`: `SuccessCorrect`, `NeverMixedCorrect` (the kernel tree, the OpenSSL
  build directory and the NFS root; not the staged programs), for any inputs, builds
  and files. The invariant of each script has a part about its files alone, which an
  interrupt at any step must leave true, and a part about how far the running command
  is. The first is what a next command may rely on, and all it may rely on.
- `MldsaSignProofs`: `Completeness`, `MaskHides`, `LowBitsHide`, `TypeCorrect`, for
  every Q, Gamma1, Gamma2, Beta, Eta, Omega, D and number of rows in
  `MldsaAssumption`. Lemmas about one coefficient come first: `HighOf` (what
  `decompose` gives for u * 2 * Gamma2 + v, the wrap at Q - 1 included) and
  `HintGivesBack` (`use_hint` undoes what `make_hint` saw, in both directions and
  across the wrap). `IInv` then carries, step by step, the congruences modulo Q between
  key, mask, commitment and response with the bounds that the checks passed so far
  have established.
- `SamplersProofs`: `SamplersInBounds`, `SamplersFirstAccepted`, `ChallengeInRange`,
  `ChallengeWeight`. For the rejection samplers `RejInv` says that the buffer is a
  consecutive piece of the stream, that the output is what `Select` keeps of the
  candidates before the position (clamped to n), and that the position is at a unit's
  start. That a refill joins seamlessly needs `Select` of joined sequences to be the
  join, shown by induction. In `poly_challenge` the coefficients from i on are zero,
  which is what makes a placement add exactly one non-zero coefficient.
- `CodecsProofs`: `AlwaysInBounds`, `HintsReturn`, `EncodingIsUnique`, for every
  number of coefficients and polynomials and every omega below N. A finite set of
  numbers has exactly one ascending list; the invariant says which rows the bytes
  before k list, in `pack_sig` and in `unpack_sig`, and that the running counts are the
  weights of those rows.
  `PackedLittleEndian`, `CoefficientsUnpack`, `NoiseBinomial`: for any coefficients in
  their formats' ranges and any bytes. A recipe is `Aligned` when each shift leaves a
  bit at its place in the bit string; all packers and unpackers are, so gathering by
  them cuts one and the same string into words of another length. The multiplications
  that stand for division by q are exact on the range they are used on, by bounding the
  error of the multiplier; `poly_tomsg`, which does not reduce first, is exact on
  -1664..1664. The invariant `PolyInv` has the bytes as that string, and the unpacked
  coefficients as what `Decode` makes of the packed words. Noise: the bits of a field
  and the bits of the stream it comes from are in bijection by a shift, in both builds.
- `MlkemKemProofs`: `BuffersFilled`, `NoiseDrawnOnce`, for any owners and any number of
  ciphertexts on the way. Buffers: a full buffer stays full when a field is put or a
  buffer copied behind it, or when a field is replaced. Noise: two owners' keys differ
  because each ends with its owner's seed, and the digest that decapsulation reads
  from its own buffer is that of the encapsulation key, so its coins are those of an
  encapsulation for the same owner and message.
  `DecryptionNoise`, `Refinement`: every step is a step of KEM or a stutter. The
  polynomials are lifted to pairs of integers (`Like`: equal modulo q), vectors padded
  to four. There (A s).p = s.(A^T p), so that decryption is left with the message plus
  e.p, e2 and s.e1 and the rounding errors of the compressed ciphertext
  (`RoundingError`), and each bit survives noise of up to a quarter of q (`BitSurvives`):
  `DecryptionNoise`, which leaves the size of the noise open. Only the refinement uses
  that it is small enough for each parameter set, which two coefficients guarantee and
  256 would not (`LeftOverOfTwo`). `RInv` adds to the invariant of the buffers that each key pair is the
  one its owner's key generation wrote, and that whatever is on the way has the fields
  of a ciphertext. From this: two messages never share a ciphertext; the comparison in
  `verify`, over exactly filled buffers, is equality; and what is re-encrypted agrees
  with the ciphertext just when it is one of the owner's. Operators of the model
  depend on the parameter set only, which no step changes (`At`, an instance with the
  parameter set as its argument).

Assumptions, beside the constants being numbers or sets of the right kind:
`MldsaAssumption` has what FIPS 204's parameter sets satisfy (2 * Gamma2 divides
Q - 1, Beta bounds c times a short secret, Gamma1 and Gamma2 exceed Beta, 2^D is even);
`SamplingAssumption` has what the `#error` of `gen_matrix` and the block sizes of SHAKE
guarantee; `HintAssumption` that the ones fit in the index bytes (omega < N);
`CodecsAssumption` that coefficients are in the range of their format, which the
reductions before each packer give, and that noise is bytes;
`KernelsAssumption` that an input names one of the two builds and of the modelled callers;
`HostBuildsAssumption` that the marks for a missing and a torn file are not inputs;
`MlkemAssumption` that the parameter sets are those of the table in `mlkem.c` and that
owners are numbers (noise is a function of one).

Induction over data is used in one form: a set of natural numbers with 0 and closed
under successor is Nat (`NatSetInduction`), from the well-foundedness of <.

Only model-checked:

- the liveness properties `BothEnd`, `CallsReturn`, `SamplerReturns`, `CommandsReturn`
  (fairness and ENABLED are outside the prover's reach);
- `Splits`, `Product`: sums over 256 residues of a product of polynomials, which would
  take induction over the data. The transforms are linear, so the X^i of the run stand
  for all polynomials; linearity itself is argued, not proved.

## Plan

Done, in this order: PerfRun, XOF and Fips202, QemuVnc, Sampling, Challenge,
MldsaSign, HintCodec; the rings and Keccak; PolyCodec; KEM and MlkemKem; the scripts of
HostBuilds; the proofs of PerfRun, Fips202, QemuVnc, HostBuilds, MldsaSign, Samplers,
the hint encoding, the buffers and noise of MlkemKem and its refinement of KEM, the
packing of coefficients, the Keccak permutation and the ranges of the kernels.

Next:

1. Proofs: linearity of the transforms, on which the inputs of the kernels in `primitives` rest; that the
   intervals of `InRange` enclose the coefficients.
2. `Netboot`: staging against a board that fetches, and the retry chain of the
   U-Boot command; the marker of the root file system build; the `karudeb-vnc` service.

## Not modelled

The `vkeccak` instruction, the hash functions' strength and the timing of the code.
ML-DSA message contexts and the reading of answer files in the test drivers are
straight copies. Launchers, TAP set-up and host checks build command lines. Benchmarks
and probes measure hardware. The configuration of the root tree is a list of file
writes; compilers, `make`, `tar` and `patch` appear in HostBuilds only by which files
they write, and a file cut short by an interrupt is not told from a missing one.
`install-9p-root.sh`, the exports file and the TFTP staging remain for later. Two
terminals running `test-qemu-vnc.sh` at once share files without any lock, so there is
no promise to check; the same holds for two kernel builds at once.
