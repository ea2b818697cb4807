# JanOS: TLA+ models, model checks and proofs

JanOS is a fork of the Go toolchain. Its own logic is a set of files added under `src/colonel/src/`
(`runtime/janos_*.go`, `runtime/genesis`, `sync/janos_idempotent.go`, `cmd/janos`,
`cmd/link/internal/ld/janos_*.go`, `internal/tpm2`, `internal/secureenclave`, `internal/hwkey`,
`internal/runtime/janos_hash`, `attest`) and a few hooks in upstream files.
`src/colonel/additions.md` describes them. This directory models that logic. Upstream Go is
modelled only where the added code rests on it.

`PROJECT.json` has the machine-readable side: components, runs, the line of code behind every
definition (`map`), the hazards, the findings and the theorems.

## 1. Inventory

| Part | State | Operations | What is hard | What makes it correct |
|---|---|---|---|---|
| Identity and provenance (`runtime/janos_identity.go`, `janos_provenance.go`) | a provenance record in every `g` and `g0`; one heap block per identity; the list of block-finalized hooks; one slot for a block whose finalizer is attached late | boot mint, `newproc1` copy, `janosSpark`, goroutine exit, `Identify`, finalization | free descriptors keep their record; timers and C threads start goroutines off system goroutines; addresses are reused; everything races the collector | whatever is keyed on an address belongs to the identity there; provenance is whole and fixed; every block is finalized |
| `sync.Idempotent` | per value: a map from block address to `Once`, a flag; a global registry of weak pointers | `Do`, `selfRegister`, the finalizer hook, `evictBlock` | two mutexes taken in both orders; a slot used after its lock is released; address reuse | `f` runs once per identity; no deadlock |
| Genesis phase (`runtime/genesis`) | per identity: traits, index by type, frozen, WaitGroup | `Register` in three forms, `closePhase`, `CurrentSelf`, `TraitOf`, `SparkAs` | the close releases its mutex to wait; asynchronous initializers; a child built from a snapshot | a Self is complete when it is seen and never changes; phases end |
| Deferral (`runtime/genesis`, `internal/runtime/exithook`) | the process's list and one list per spark; the exit-hook lock and list | `Defer`, `DeferSelf`, both drains, `os.Exit`, main's return | registration during the drain; several goroutines exiting; cleanups that panic, exit or call `Goexit` | nothing registered in time is skipped; last in, first out; exit happens |
| Divined build and boot (`cmd/janos`, `cmd/link/internal/ld/janos_*.go`, `runtime/janos_cert_*.go`, `janos_selfhash*.go`) | signets, linked files, the expected keys of the running janos | ceremony, link, diviner pass, build ID rewrite, boot | two independent canonicalisations must agree; the file is rewritten after it is signed; chains of builds | a divined file boots as released, nothing else does; a family line is not left |
| Sanitize (`runtime/janos_sanitize.go`, hooks in `mgcsweep.go`, `stack.go`) | per span: sweep generation, mark and allocation bits, `needzero`; the span each P has cached; stack pools and caches; dead `g`s with their stacks | sweep of small objects and large spans, `stackfree`, allocation, refill, flush, scavenging | the sweeper writes to memory that others allocate from; `needzero` believed wrongly; stacks that never come to `stackfree` | what is freed is clear; what is in use is never cleared |
| TPM 2.0 (`internal/tpm2`), `internal/hwkey` | device mutex, cached storage root key, transient handles | `Open`, `Close`, `GetRandom`, `Info`, `GenerateKey`, `Sign`, `ECDH`, `Key.Close` | a command that fails half way, three transient slots, a key closed during a call | handles are flushed on every path; a call is atomic and by its key |
| `attest` | none | `Probe`, `Available` | what the machine denies | they agree |
| P-256 and ECDSA (`runtime/janos_p256_*.go`, `janos_ecdsa_p256.go`), identity keys | none | scalar and point arithmetic, verification, key derivation, ECDH | carries, ranges, infinity | they are the textbook's |
| SHA-2 (`internal/runtime/janos_hash`) | a block buffer, its fill, a length | `Write`, `Sum`, `Reset` | block boundaries | pieces do not matter |
| Secure Enclave, KMS clients | none of their own | platform calls, requests, DER | short integers | every signer's signature verifies |

How the parts interact. `schedinit` runs the boot checks (DivinedBoot) on `m0.g0`, then mints the
main identity there; `newproc1` carries the record to every goroutine (Identity). `SparkAs`
(Genesis) is the only caller of `janosSpark` (Identity). Genesis and `sync` key their state on
block addresses and rely on the finalizer to call their hooks (Identity, Idempotent). A spark's
exit runs its deferrals and the process's exit hooks run the rest (Deferral). The boot check hashes
and verifies with Sha2 and P256 what a diviner signed and RawSignature converted. The memory of
identity blocks and of stacks is cleared by Sanitize's sweeper.

## 2. Modules

**Identity** – boot, goroutines, sparks, collection and finalization. `prov[x]` is
`gp.provenance` of a descriptor or system goroutine, kept when the goroutine dies and
overwritten when the descriptor is reused. `bstate`/`binc`/`bfin` are the heap object at an
address, which mint it is, and whether it has a finalizer. `janosSpark` is three steps
(`SparkMint`, `SparkGo`, `SparkInstall`), as other goroutines run between them. `TimerGo` is the
`go` statement that `time.AfterFunc` executes on the `g0` of a thread; `CgoCallback` is a C
thread's `g`. `table` stands for the maps of genesis and sync: which mint an entry was made for.
The collector and user code that keeps an Identity value are external.

**Idempotent** – `Do` and the finalizer hook, one step per lock operation, over the identities
Identity provides: an address is not handed out before the hook for its former block has
returned, which is what `KeysAreCurrent` and its proof show. `OncePerIdentity` is the promise of
the package comment with no locks and addresses; `DoIsOncePerIdentity` is the refinement
(`at` is a function of `pc`, `slot` is a history variable, as the code forgets evicted slots).

**Genesis** – the phase of main and of sparks. `closePhase` is five steps around its lock,
unlock, wait, lock. `WriteOnceSelf` is the "atomic on open" promise; the refinement maps
published to frozen and hides traits that nobody can observe yet.

**Deferral** – the two drains are the same steps over different registries. `Exit`, `RunLock`,
`RunHook`, `RunUnlock` and `ExitProcess` are `exithook.Run` and the exit after it, on any number of
goroutines. A cleanup is the number of its registration. `CleanupGoexits` is `runtime.Goexit` in a
cleanup: the goroutine that drains is gone, with the rest of its batch, and the hook lock is free.

**DivinedBoot** – a file is a record of the regions that the linker's and the runtime's
canonicalisation treat apart; a digest is what is left. `DivinerDigest` is translated from the
linker, `RuntimeDigest` from the runtime, step by step and independently. Signatures are exact. A
link mode says whether there is a Go build ID, what `-B` is (its default, `none`, `gobuildid` or an
explicit value) and what the target is; from it come the host build ID (Mach-O UUID or GNU note),
which an explicit `-B` gives without a Go build ID too, and the code signature of darwin/arm64.

**Tpm2** – one shared `Device`. A handle is a slot number, one command with its answer is one
step, and every call is a chain of such steps between `Lock` and `Unlock`. A command works, fails,
or is done while its answer is lost; `lost` names the slots that a fault took away, so that
`SlotsAccounted` can say that nothing else fills the TPM. The TPM is external. `TestDev` and
`DerefDev` are the two unlocked reads of `k.dev` in `Sign` and `ECDH`, between which `Key.Close` may
come. `HardwareKey` is the promise of `internal/hwkey`: every call takes effect at one moment, or
fails. The refinement maps a minted key to its number, a settled call to `ret`, and the session to
the transport.

**Sanitize** – two page-sized spans that hold small objects, one large object, standard stacks or
a large stack. A word is zero, a link of the stack lists, or what a program wrote. `gen` is
`sweepgen` relative to the heap's, `preserve` the P that sweeps a span to cache it. The sweep is two
steps, as other threads run between them. `gcmarkBits`, `freeindex`, `freeIndexForScan` and
`allocBits` are kept, because the choice of what to clear is made from them; marking itself is its
result. A goroutine's stack moves between `stackalloc`, `copystack`, `gfput`, `gfget` and
`markrootFreeGStacks`.

**P256**, **IdentityKeys**, **Sha2**, **RawSignature** – operators, and for `Sha2` the streaming
digest as a state machine. `P256` multiplies scalars limb by limb with the carries of the code and
adds points with its formulas; the reference beside it is the chord and tangent law. The field
inversion is the power P − 2 of the small curve's P; the addition chain of the code, which is made
for the P of P-256, is `InvertExponent`, the exponent it ends with as a bag of powers of two;
`VerifiesECDSA` compares it with p − 2. In `Sha2` the compression function is free, so that digests
are equal if and only if the blocks are; `Write` and `Reset` are its actions, `Sum` an operator, as
it works on a copy, and `Reset` leaves the buffer as it is, as in the code. `RawSignature` has the
three ways a signature gets to r||s, DER with a length in long form, which only `derToRS` takes, and
numbers too long for their fields included. `IdentityKeys` is the derivation of an identity's key
pair and the computation of `Identity.Derive`.

**Attest** – what `Probe` and `Available` answer, as operators over the machine they find.

The `MC*` modules give the constants their values.

## 3. Runs

| Run | Instance | Shows |
|---|---|---|
| `identity` | 3 descriptors, 2 system goroutines, 2 addresses, 1 hook, 3 mints | the safety properties of Identity and `EntriesEvicted` |
| `identity_timer` | the same with 2 hooks, symmetric in descriptors, addresses and hooks | a goroutine without an identity (finding) |
| `idempotent` | 4 goroutines, 3 identities, two of them at one address, 1 Idempotent | refinement of OncePerIdentity, slot ownership, no lock cycle, `Do` returns |
| `genesis` | main and 2 sparks, 2 types, 2 origins, 2 asynchronous initializers | refinement of WriteOnceSelf, lookups agree, phases close |
| `deferral` | 3 cleanups, 1 spark, 2 exiting goroutines | cleanups run before exit, in order, and exit happens |
| `divined_boot` | 3 keys, 2 programs with or without a key or a build ID embedded, 1 file, 7 link modes, 2 epochs, revocations of a release epoch and of a user | `BootsIffZeroedAlike`, `ReleasedIsSigned`, `FamilyLine` |
| `divined_no_buildid` | Mach-O for arm64 without a Go build ID | the digests disagree (finding) |
| `tpm2` | 2 goroutines, 3 slots, 2 keys, 2 faults | no handle is forgotten, the cached root key is valid, refinement of HardwareKey, calls return |
| `attest_agree` | the two character devices of Linux, TBS, hw.optional.arm64 | `Available` and `Probe` disagree (finding) |
| `sanitize` | 2 pages of 2 words, 1 P, 1 goroutine, 2 collections, 2 objects, 1 finalizer | freed memory is clear, `needzero` is honest, reachable objects keep their bytes |
| `sanitize_new_stack` | the same with 2 goroutines and 1 collection | a new goroutine on a dead one's stack (finding) |
| `crypto` | limbs of 2 bits, 3 of them; the curve y² = x³ − 3x + 20 over GF(41), of order 37; every odd modulus between 32 and 64; every signature, point and seed of 6 bits; DER of numbers of up to 7 bits; messages of up to 9 bytes in blocks of 4 | `MontMulIsProduct`, `VerifiesECDSA`, `PartiesAgree`, `StreamIsWhole` |

Why the bounds are enough. Identity needs a parent, a spark and a third descriptor that is reused,
and an address that is minted twice: with main's block pinned that takes two addresses and three
mints. Idempotent needs two goroutines racing for one `Once` and a later identity at the same
address. Genesis needs an inherited index, an own trait on top and a grandchild. Deferral needs a
batch of two and one registered while it runs, and an exit that waits for another. DivinedBoot
needs a release and a guild and a user that differ; one file at a time suffices because files
influence each other only through the running janos. Tpm2 takes the fewest slots a TPM may have,
and two faults fill them: the root key and two objects that were not flushed, after which every
load is refused. Sanitize needs a page that is used twice in different ways, a span with a dead and
a live object, and a second collection over what the first left; with two Ps instead of one (3.3
million states) the same properties hold, which takes too long for a regular run. The small curve
has what P-256 has: n < p < 2^256 < 2n in proportion, so that a value can be below R and above n,
and x coordinates that are reduced modulo n; a limb overflow that needs more than three limbs to
show would be missed. The link modes of `divined_boot` have each region of the host's with and
without a Go build ID; the modes left out give the same regions together, and all of them hold as
well (0.4 million states, too long for a regular run). Epochs there fit the slot.

`CHECK_DEADLOCK FALSE` is set where the system may stop: a program that ended, or one whose
bounded mints or registrations are used up.

Fairness. Identity: the collector and the finalizer goroutine, as `sysmon` forces a collection
every two minutes and queueing wakes the finalizer; nothing is assumed of user goroutines.
Idempotent: goroutines inside `Do` are scheduled and `f` returns; strong fairness for lock
acquisition, because `sync.Mutex` hands a lock to a waiter after one millisecond. Genesis: package
inits are finite, an asynchronous initializer stops adding work and calls `Done`. Deferral:
goroutines are scheduled, cleanups return and their background work ends, as the documentation
of `Defer` asks of them; exiting goroutines that spin on the exit-hook lock need weak fairness
only, since the first of them ends the process. Tpm2: a command comes to an end, and the mutex is
handed over as above.

## 4. Proofs

Each `XProofs` module extends `X` and proves its theorems for every value of the constants, from the
`XAssumption` of `X` alone unless something else is said here. Each has one inductive invariant
`IInv`, one lemma or step per action that says the action keeps it, and `NextInv`, which joins them.

**IdentityProofs** – `TypeOK`, `KeysAreCurrent`, `FinalizerNotLost`, `MainBlockPinned`,
`WholeProvenance`, `InstanceMatchesBlock` and `ProvenanceFixed`, for any sets of goroutines,
threads, addresses, hooks and any number of mints. Assumed: main has a descriptor, system
goroutines are apart from the others, nil is no address. `KeysAreCurrent` is not inductive: that an
entry is current now does not say that it is dropped before its address is minted again. `KeyInv`
adds that an entry's package has registered its hook, that the block is live or queued and, while
the finalizer goroutine has that block, that the hook is still to be called; so when the hook list
of a block is done no entry is left, and only then may its address become free. `RefInv` says that
whatever refers to a block refers to a live one and carries its number, so that a lookup enters the
right number; with unique numbers (`MintInv`) this gives `InstanceMatchesBlock`. `BootInv` ties the
boot sequence to the state: nothing is minted before main's block, the one-block slot is empty
again before any spark, and `m0.g0` refers to main's block for ever, which is `MainBlockPinned`.

**IdempotentProofs** – `TypeOK`, `SlotHasOwner`, `NoLockCycle` and the refinement of
OncePerIdentity. `NoLockCycle` rests on `LockInv` and `RegInv`: the list holds only Idempotents
whose flag is set, the flag is set under `i.mu` by the goroutine that goes on to register, and one
that is still to register is therefore not on the list the hook walks. `SlotHasOwner` needs
`EvictInv`: while the hook is at work for a block, the Idempotents it has walked past have no slot
for the address, and those it has not are still in `walk`; an Idempotent with a slot is on the
list, so that the walk meets it. For the refinement, `OnceInv` says that the `Once` a goroutine
holds is the one in its identity's slot, and `HistoryInv` that the history variable `slot`, which
the abstract specification reads, agrees with `entries` as long as the identity lives. A step of
the locks then maps to a stutter and the others to the step of the same name.

**GenesisProofs** – `TypeOK`, `AsyncInitsDone`, `LookupsAgree` and the refinement of WriteOnceSelf.
`PhaseInv` ties the mutex to the steps of `closePhase` that hold it, and `frozen` to those after
it. `AsyncInv` bounds the initializers that ask for their Self by the WaitGroup and says that it is
zero once the close has waited: nothing may register work between the wait and the freeze.
`IndexInv` says that `typeIdx` is the inverse of the sequence of trait types, which is what both
lookups read and what each append must keep. `SparkInv` says that a child's snapshot is its
parent's frozen Self and stays in front of its own traits, so that publishing it is the abstract
step.

**DeferralProofs** – `TypeOK` (no cleanup is invoked twice), `CleanedUpAtExit`,
`CleanedUpAtSparkExit` and the action property `LastRegisteredFirst`. `QueueInv` says that the
lists are ascending, hold what is not invoked yet, and share nothing. `PlaceInv` is the heart of
the two invariants: a registered cleanup that is not invoked is in a list unless its drain is gone
with `runtime.Goexit`. `DrainInv` relates the batch and the WaitGroup to the stage of the drain,
and says that a list left over came too late. `ExitInv` relates the hook lock, the hook list and
the drain of the process: the process does not end before the goroutine that holds the lock is
through.

**DivinedBootProofs** – `TypeOK` and `FamilyLine`; `ReleasedIsSigned` for epochs that fit in the
bits the slot keeps (`\A e \in Epoch : e < 2^WireBits`), without which a truncated epoch escapes its
revocation; and `BootsIffZeroedAlike`, for every link mode and whatever programs embed. The last is
an equivalence: a file that should boot does so if and only if it embeds neither of its own expected
keys, which the runtime zeroes wherever they are and the linker at their symbols only, and, if it
has no Go build ID, has no host build ID and no code signature either, which the runtime zeroes
always and the linker with a Go build ID only. `DivinedBoots`, the claim of the linker's comment, is
this without the condition and is false (`divined_no_buildid`). `FileInv` follows a file from the
link through the rewrites: `Sealed` says what the signature in its slot was made over, `UserEntered`
the same for a user entry, and an heir expects a guild's key. `RuntimeLeaves` computes what the
runtime leaves of a sealed file, and `DigestsMeet` compares that with what was signed, field by
field. The boot check is then a calculation from `FileInv`. `DivinedBootAssumption` says of
`2^WireBits` only that it is a positive number, as the provers know nothing of powers; TLC evaluates
it.

**Tpm2Proofs** – `TypeOK`, `SlotsAccounted`, `CachedSRKIsValid` and the refinement of HardwareKey,
for any number of goroutines, keys, slots and faults. `SlotsAccounted` names the handle a call
holds, so it needs to know which step holds which: `MutexInv` says that a goroutine between `Lock`
and `Unlock` is the owner of the mutex, `HandleInv` that a handle is held exactly in the steps
after the command that made it and before its flush, and that it is a key's and not the root key's.
`CallInv` ties the steps of a call to its operation, key and result, and `BoundInv` counts the
calls that may still mint a key; from them the refinement maps each command to a stutter and the
one that settles a call to its effect.

**SanitizeProofs** – `TypeOK`, `FreedIsClean`, `NeedzeroIsHonest` and the action property
`ReachableKeepsBytes`, for any number of pages, words in a page, Ps, goroutines, collections,
objects and finalizers, whether or not scavenged pages keep their bytes. Assumed: a page has at
least two words, and Nil is neither a P nor a page. `FreedIsClean` says nothing about who may write
to memory that is free, so it needs the rest of the state in order: `StackInv` says that every word
of a stack is in one place (the pool, one P's cache, a page of `stackLarge`, one g, or the old
stack of one g), on a page that is a stack span, so that a page that leaves the pool has no stack
on it; `OwnInv` says that an object no sweep has freed is allocated according to the bits of its
span, so that the loop of the sweep meets every object that is not marked, and clears it; `BitInv`,
that the scan index is behind the free index and that a large span has one object. `MarkInv` is
what keeps the sweep off live objects: a reachable object is marked, or older than the cycle in a
span that is swept or cached and will be marked by the next mark termination, and the finalizers of
a span that is being swept belong to marked objects. `CacheInv` says that a span is cached by one P
at most, that the cached span of a P that has not been flushed is stale, and that a sweeper that
keeps a span for its P is flushed: without it two Ps would hand out one slot, or a P would allocate
from bits the sweep is about to replace. `ZeroInv` is the watermark's promise: a page above it is
scavenged and zero, a scavenged page is zero unless the system keeps bytes, and free slots of a
span without needzero are zero. The steps of the stacks share one lemma (`StackActionKeeps`: they
touch only stack pages and free pages), those of the collector another (`MarkStepKeeps`: they touch
marks and generations only), and both mallocs a third (`Born`).

**Sha2Proofs** – `StreamIsWhole`, for any block size, length field, set of bytes and bounds on
messages and pieces. Assumed: the length field is shorter than a block, as 8 of 64 and 16 of 128
bytes are. The property speaks of the result of `Sum` only, which does not say what a `Write` may
rely on. `IInv` does: the message is `u \o v`, where `u` is whole blocks and has been hashed, and
`v` is less than a block and at the front of the buffer, whatever is behind it (`Carries`). `FillUp`
and `WriteCarries` go through the branches of `Write`: afterwards either the begun block has been
completed or nothing is left to write, so the later branches never overwrite a begun block.
They rest on `BlocksConcat`: the blocks of `u \o v` are those of `u` and then those of `v` when `u`
is whole blocks, which needs that quotient and rest are unique (`DivUnique`; the provers know
division only by its defining inequality). `Padding` shows that the number of zeros the standard
allows is unique and is the one `Sum` computes, that the padding fits in `tmp`, and that the result
is whole blocks. `HoldsTail` is the invariant in closed form, as TLC can evaluate it: `h` is the
blocks of `msg`, and the first `nx` bytes of the buffer are its last. `NextInv` has a step for each
action, and `InvStream` is one more `Write`, that of the padding. The numbers are not
bounded: in the code `len` is a `uint64` that counts bytes, so the theorem is about messages of less
than 2^61 bytes.

Only model-checked: all liveness (`EntriesEvicted`, `DoReturns`, `PhaseCloses`, `ExitHappens`,
`CallsReturn`; the prover has no fairness reasoning) and the arithmetic of P256, RawSignature and
IdentityKeys (`MontMulIsProduct`, `VerifiesECDSA`, `PartiesAgree`): what their recursive definitions
compute needs induction over limbs and bits, which the installed provers cannot do. Every other
property of a passing run is a theorem.

## 5. Findings

1. `identity_timer`: "Every goroutine has a valid Identity from spawn time", but a timer's
   goroutine copies the provenance of the `g0` of the thread that runs the timer, which has none
   unless that is `m0`. A genesis call there ends the process.
2. `divined_no_buildid`: "both sides converge on the same digest", but with an empty `-buildid`
   the linker hashes a Mach-O code signature that the runtime zeroes. So it does with the GNU note
   or UUID of an explicit `-B 0x…` (`BootsIffZeroedAlike` has all the cases).
3. `attest_agree`: "Available() is true exactly when Probe() returns a nil error", but with
   `/dev/tpmrm0` denied and `/dev/tpm0` open, Linux's `available` goes on to the second route and
   `probe` stops at the first.
4. `sanitize_new_stack`: the stack of a goroutine that dies "goes back through stackfree, which
   should memclr the stack range", but `gfput` frees only stacks that are not of the standard size.
   The others stay, with their bytes, on the dead `g`, and the next goroutine runs on them.

The models show more differences, which have no run of their own. On Linux a TPM 1.2 device is
reported as TPM 2.0 with a nil error; on Windows it is unavailable. `Defer` succeeds after the
drain's last look and its cleanup is never invoked (`tooLate` in Deferral). A divined binary that
cannot be hashed throws, where the comment on `janosMaxBinarySize` says it stays undivined
(`BootTrust(b, FALSE)`). A program that embeds one of its own expected keys does not boot: the
runtime zeroes every occurrence of such a key in the file, the linker only its symbols
(`BootsIffZeroedAlike`). A release epoch "appears in the JANOSCRT slot as revoke_epoch"
(`signet.go`) in three of its four bytes (`EncodedEpoch`), so that the revocation of a wider one
matches nothing. `fatalMissingIdentity` says "No cleanup handlers. The program is gone.", and its
`os.Exit(2)` runs them (`Exit`). `janosDeriveIdentityKey` says that it draws again when a seed is n
or more; `SetBytesBE` reduces and does not fail, so it never does, and the seed is used as it is,
for the point as well (`PartiesAgree` shows that both ends agree). `Derive` says that its caller is
refused if it is not on the goroutine that minted the identity; the code compares blocks, and every
goroutine of the identity may call it. The comment in the sweep loop says that arena chunks are
cleared too, and the condition under it leaves them out (they are unmapped instead). A free stack is
zero but for the link of its free list, in its first word. After `runtime.Goexit` in a shutdown
cleanup the process goes on with its hook spent, and a later exit runs no cleanup.

## 6. Not modelled

Upstream Go, except what the modules above use. It is nearly all of the repository: of some 1.6
million lines of implementation (compiler, linker, standard library, generated rewrite rules) the
JanOS additions are about nine thousand. The share of lines that `map` covers is therefore small
whatever is modelled; modelling the compiler's generated tables would say nothing about JanOS.

Generated field arithmetic (`janos_p256_fiat.go`): 256-bit limbs are out of TLC's reach, and the
code comes with its own proof. The compression functions of SHA-2, HMAC and HKDF. The HTTP and PEM
code of the diviner clients, `mksignet`, and the calls of the Secure Enclave wrappers: one request
each, no state. `quantum/identity.go` is excluded from every build.

Inside the modelled parts: inception times, wording of errors, external linking and 32-bit ELF,
library build modes (where `runtime.main` returns before the phase is closed), user arenas, the tiny
allocator, work buffers, the electric fence, the freegc experiment and changes of the standard
stack size, descriptor numbers reused after `Device.Close`.

## 7. Plan

The slot layout (`EncodeSlot` against `decodeJanosEntry`) as a round trip over bounded inputs.
