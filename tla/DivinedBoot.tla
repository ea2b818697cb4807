----------------------------- MODULE DivinedBoot -----------------------------
(***************************************************************************)
(* The family line of a JanOS binary: the release ceremony makes a signet, *)
(* the linker inherits the expected keys of the janos that runs it and, in *)
(* the diviner pass, signs the image and seals the JANOSCRT slot; the go   *)
(* command and the host's code signing rewrite parts of the file; at boot  *)
(* the runtime hashes its own file and checks the slot before any user     *)
(* code runs.                                                              *)
(*                                                                         *)
(* The linker and the runtime compute the signed digest with two separate  *)
(* canonicalisations, which have to leave the same bytes standing.         *)
(*                                                                         *)
(* Abstractions: a file is a record of the regions the two treat apart; a  *)
(* digest is what its canonicalisation leaves; a signature names its       *)
(* signer and what was signed, and verifies for exactly those; a revoke    *)
(* epoch has EpochBits bits in a signet (32 in the code) and WireBits in a *)
(* slot (24 in the code). A file is a 64-bit little-endian ELF or Mach-O   *)
(* file of an internal link.                                               *)
(***************************************************************************)
EXTENDS Naturals, FiniteSets

CONSTANTS
  Key,        \* P-256 keys of guilds, releases and users
  Text,       \* contents of the code and data of a program
  Extra,      \* what a program embeds: Plain, IdCopy or the bytes of a key
  Plain,      \* nothing the canonicalisations look for
  IdCopy,     \* a second copy of its Go build ID
  Place,      \* files
  Epoch,      \* release_epoch values used in ceremonies
  EpochBits,  \* width of release_epoch in a signet
  WireBits,   \* width of revoke_epoch in a slot
  Flags,      \* link modes, see LinkFlags
  Revoked,    \* janosRevokedReleases: a set of [key, epoch]
  RevokedUsers, \* janosRevokedUsers
  MaxSignets, \* bound: signets made
  Zero,       \* zeroed bytes; the all-zero key, certificate and digest
  Sentinel,   \* the undivined placeholder of the expected keys
  None        \* no file

Wildcard == 2^EpochBits - 1

\* What the regions of the host depend on: whether -buildid is given; the -B
\* flag, where "0x" stands for an explicit host build ID that is not all zero;
\* the target.
LinkFlags == [id: BOOLEAN, B: {"", "none", "gobuildid", "0x"},
              darwin: BOOLEAN, arm64: BOOLEAN]

ASSUME DivinedBootAssumption ==
  /\ Extra \subseteq Key \cup {Plain, IdCopy}
  /\ EpochBits \in Nat /\ WireBits \in Nat
  /\ 2^WireBits \in Nat \ {0}  \* no prover knows more of ^ than this
  /\ Epoch \subseteq 0..(2^EpochBits - 1)
  /\ Flags \subseteq LinkFlags
  /\ \A e \in Revoked \cup RevokedUsers : e.key \in Key /\ e.epoch \in 0..Wildcard
  /\ Zero # Sentinel /\ Plain # IdCopy
  /\ {Plain, IdCopy, Zero, Sentinel, None} \cap Key = {}

VARIABLES
  signets,    \* signets that exist
  disk,       \* [Place -> a linked file or None]
  running     \* the janos that runs: its expected keys

vars == <<signets, disk, running>>

Sign(k, m) == [by |-> k, msg |-> m]
NoSig == [by |-> Zero, msg |-> Zero]
\* janosP256VerifyRS
Verifies(k, m, s) == s # NoSig /\ s.by = k /\ s.msg = m

\* A key in a message, so that it is like a digest.
KeyDigest(k) == [key |-> k]

-----------------------------------------------------------------------------
(* Ceremony *)

\* The ceremony tool: the root signs the release key's digest; it refuses
\* one key in both roles.
Ceremony(root, release, epoch) ==
  /\ Cardinality(signets) < MaxSignets
  /\ root # release
  /\ signets' = signets \cup
       {[guild |-> root, release |-> release, epoch |-> epoch,
         parentCert |-> Sign(root, KeyDigest(release))]}
  /\ UNCHANGED <<disk, running>>

\* A signet is a text file: somebody puts another guild_pubkey in, or removes
\* the release_parent_cert.
EditSignet(s, guild, cert) ==
  /\ signets' = (signets \ {s}) \cup
                {[s EXCEPT !.guild = guild, !.parentCert = cert]}
  /\ UNCHANGED <<disk, running>>

-----------------------------------------------------------------------------
(* The linker *)

\* runtime.JanosParentKeys: no family line reads as the zero key.
ParentKey(k) == IF k = Sentinel THEN Zero ELSE k

\* janosInheritParentKeysIntoOutput: the zero key is not patched in.
ZeroPatched(k) == ParentKey(k)
NotInherited(k) == Sentinel
InheritedKey(k) == IF ParentKey(k) = Zero THEN Sentinel ELSE ParentKey(k)

\* EncodeSlot and decodeJanosEntry keep three bytes of the revoke epoch.
EncodedEpoch(e) == e % 2^WireBits

UndivinedSlot ==
  [version |-> 0, guild |-> Zero, release |-> Zero, epoch |-> 0,
   parentCert |-> NoSig, sig |-> NoSig,
   user |-> Zero, userEpoch |-> 0, userCert |-> NoSig, userSig |-> NoSig]

\* The -B flag: its default is the Go build ID, and "gobuildid" without one
\* ends the link before it writes anything.
HostFlag(f) == IF f.B = "" /\ f.id THEN "gobuildid" ELSE f.B
LinkGoesOn(f) == HostFlag(f) = "gobuildid" => f.id

\* addbuildinfo: the host build ID, which an explicit -B gives whether or not
\* there is a Go build ID: the UUID of a Mach-O file, the GNU note of an ELF
\* file.
HostBuildID(f) ==
  IF HostFlag(f) \in {"", "none"} THEN "none"
  ELSE IF f.darwin THEN "uuid" ELSE "note"

NeedCodeSign(f) == f.darwin /\ f.arm64

\* The file asmb2 leaves, after janosInheritParentKeysIntoOutput. linked, heir
\* and signet are history: the text that was linked; whether the linker was
\* divined; the signet used.
Assembled(t, x, f) ==
  [text |-> t, extra |-> x, guild |-> InheritedKey(running.guild),
   release |-> InheritedKey(running.release), slot |-> UndivinedSlot,
   buildID |-> IF f.id THEN "link" ELSE "none",
   hostID |-> HostBuildID(f),
   codesig |-> IF NeedCodeSign(f) THEN "link" ELSE "none",
   linked |-> t, heir |-> running.guild # Sentinel, signet |-> {}]

\* What is left of a copy of the build ID that the program embeds, once every
\* occurrence of the ID is zeroed.
WithoutID(b) == IF b.extra = IdCopy /\ b.buildID # "none" THEN Zero ELSE b.extra

\* What FindAndHash leaves of the Go build ID.
IDAsLinked(b) == b.buildID
HashedID(b) == "none"

\* The digest the diviner signs: the slot and the expected keys are zeroed
\* where their symbols are; FindAndHash zeroes the Go build ID wherever it is
\* and leaves the host's regions out, but is only called with an ID.
DivinerDigest(b) ==
  [text |-> b.text, extra |-> WithoutID(b), slot |-> Zero,
   guild |-> Zero, release |-> Zero, buildID |-> HashedID(b),
   hostID |-> IF b.buildID = "none" THEN b.hostID ELSE "none",
   codesig |-> IF b.buildID = "none" THEN b.codesig ELSE "none"]

\* signet.ValidateForBuild
ValidateForBuild(s) == s.guild # Zero /\ s.release # Zero /\ s.parentCert # NoSig

\* What janosDivinerPass seals.
Divined(b, s) ==
  [b EXCEPT !.guild = s.guild, !.release = s.release, !.signet = {s},
            !.slot = [UndivinedSlot EXCEPT
                        !.version = 1, !.guild = s.guild, !.release = s.release,
                        !.epoch = EncodedEpoch(s.epoch),
                        !.parentCert = s.parentCert,
                        !.sig = Sign(s.release, DivinerDigest(b))]]

Link(p, t, x, f) ==
  /\ LinkGoesOn(f)
  /\ disk' = [disk EXCEPT ![p] = Assembled(t, x, f)]
  /\ UNCHANGED <<signets, running>>

\* janosDivinerPass with the diviner of key d; an error fails the link, which
\* leaves no file.
LinkDivined(p, t, x, f, s, d) ==
  /\ LinkGoesOn(f)
  /\ disk' = [disk EXCEPT ![p] =
       IF ValidateForBuild(s) /\ d = s.release
       THEN Divined(Assembled(t, x, f), s)
       ELSE None]
  /\ UNCHANGED <<signets, running>>

\* The go command writes the final build ID over the linker's, everywhere, and
\* signs a signed file anew. The host build ID stays.
RewriteBuildID(p) ==
  /\ disk[p] # None
  /\ disk[p].buildID = "link"
  /\ disk' = [disk EXCEPT ![p].buildID = "final",
                              ![p].codesig = IF @ = "link" THEN "signed" ELSE @]
  /\ UNCHANGED <<signets, running>>

\* Somebody changes the program after the link.
Patch(p, t) ==
  /\ disk[p] # None
  /\ t # disk[p].text
  /\ disk' = [disk EXCEPT ![p].text = t]
  /\ UNCHANGED <<signets, running>>

\* A user of a release adds the optional third entry to a sealed slot.
AddUserEntry(p, u, e) ==
  /\ disk[p] # None
  /\ disk[p].slot.version = 1
  /\ disk[p].slot.user = Zero
  /\ u \notin {disk[p].guild, disk[p].release}
  /\ disk' = [disk EXCEPT
       ![p].slot.user = u,
       ![p].slot.userEpoch = EncodedEpoch(e),
       ![p].slot.userCert = Sign(disk[p].release, KeyDigest(u)),
       ![p].slot.userSig = Sign(u, disk[p].slot.sig.msg)]
  /\ UNCHANGED <<signets, running>>

-----------------------------------------------------------------------------
(* Boot *)

\* The steps of janosCanonicalHash. A sealed slot is found by its header;
SlotZeroed(b) == IF b.slot.version = 1 THEN [b EXCEPT !.slot = Zero] ELSE b

\* the expected keys are zeroed wherever their bytes occur, in their own
\* variables and in what the program embeds;
KeysZeroed(b) ==
  [b EXCEPT !.guild = Zero, !.release = Zero,
            !.extra = IF @ \in {b.guild, b.release} THEN Zero ELSE @]

\* the host's regions are zeroed, those of a Mach-O file
MachoExcluded(b) ==
  [b EXCEPT !.codesig = "none", !.hostID = IF @ = "uuid" THEN "none" ELSE @]

\* and that of an ELF file;
ElfExcluded(b) == [b EXCEPT !.hostID = IF @ = "note" THEN "none" ELSE @]

\* the Go build ID is found and zeroed wherever it occurs.
BuildIDZeroed(b) == [b EXCEPT !.extra = WithoutID(b), !.buildID = "none"]

RuntimeDigest(b) ==
  LET z == BuildIDZeroed(ElfExcluded(MachoExcluded(KeysZeroed(SlotZeroed(b)))))
  IN  [text |-> z.text, extra |-> z.extra, slot |-> z.slot, guild |-> z.guild,
       release |-> z.release, buildID |-> z.buildID, hostID |-> z.hostID,
       codesig |-> z.codesig]

\* janosInitBinaryHash: a file that cannot be read, or is longer than
\* janosMaxBinarySize, leaves the zero hash and TrustNone.
BinaryHash(b, readable) == IF readable THEN RuntimeDigest(b) ELSE [text |-> Zero]

HashTrust(readable) == IF readable THEN "TrustSelfAttested" ELSE "TrustNone"

\* janosIsRevoked
janosIsRevoked(list, k, epoch) ==
  \E e \in list : e.key = k /\ (e.epoch = Wildcard \/ e.epoch = epoch)

\* janosVerifyChainSlot
ParentUnchecked(s, h, g, r) ==
  /\ s.version = 1
  /\ s.guild = g
  /\ s.release = r
  /\ Verifies(r, h, s.sig)
  /\ ~janosIsRevoked(Revoked, r, s.epoch)

ReleaseEntryOK(s, h, g, r) ==
  /\ s.version = 1
  /\ s.guild = g
  /\ s.release = r
  /\ Verifies(g, KeyDigest(r), s.parentCert)
  /\ Verifies(r, h, s.sig)
  /\ ~janosIsRevoked(Revoked, r, s.epoch)

\* The entry of a user is optional.
UserEntryOK(s, h) ==
  s.user # Zero =>
    /\ Verifies(s.release, KeyDigest(s.user), s.userCert)
    /\ Verifies(s.user, h, s.userSig)
    /\ ~janosIsRevoked(RevokedUsers, s.user, s.userEpoch)

\* janosVerifyCertSlot: bootstrap mode enforces nothing, strict mode needs a
\* sealed slot with a valid chain.
Strict(b) == ~(b.guild = Sentinel /\ b.release = Sentinel)

BootTrust(b, readable) ==
  IF ~Strict(b) THEN HashTrust(readable)
  ELSE IF /\ Sentinel \notin {b.guild, b.release}
          /\ b.slot.version # 0
          /\ ReleaseEntryOK(b.slot, BinaryHash(b, readable), b.guild, b.release)
          /\ UserEntryOK(b.slot, BinaryHash(b, readable))
       THEN "TrustJanosReleased"
       ELSE "throw"

\* A file is started; if it gets past the checks it is the janos that links.
Boot(p, readable) ==
  /\ disk[p] # None
  /\ BootTrust(disk[p], readable) # "throw"
  /\ running' = [guild |-> disk[p].guild, release |-> disk[p].release]
  /\ UNCHANGED <<signets, disk>>

-----------------------------------------------------------------------------
\* janos-v0, which stock Go built, runs.
Init ==
  /\ signets = {}
  /\ disk = [p \in Place |-> None]
  /\ running = [guild |-> Sentinel, release |-> Sentinel]

Next ==
  \/ \E k, r \in Key, e \in Epoch : Ceremony(k, r, e)
  \/ \E s \in signets, k \in Key \cup {Zero} : EditSignet(s, k, s.parentCert)
  \/ \E s \in signets : EditSignet(s, s.guild, NoSig)
  \/ \E p \in Place, t \in Text, x \in Extra, f \in Flags : Link(p, t, x, f)
  \/ \E p \in Place, t \in Text, x \in Extra, f \in Flags, s \in signets, d \in Key :
       LinkDivined(p, t, x, f, s, d)
  \/ \E p \in Place : RewriteBuildID(p)
  \/ \E p \in Place, t \in Text : Patch(p, t)
  \/ \E p \in Place, u \in Key, e \in Epoch : AddUserEntry(p, u, e)
  \/ \E p \in Place, readable \in BOOLEAN : Boot(p, readable)

Spec == Init /\ [][Next]_vars

-----------------------------------------------------------------------------
(* Properties *)

\* Every variable has its type.
TypeOK ==
  /\ \A s \in signets :
       /\ s.guild \in Key \cup {Zero}
       /\ s.release \in Key
       /\ s.epoch \in Epoch
       /\ s.parentCert.by \in Key \cup {Zero}
  /\ \A p \in Place : disk[p] # None =>
       /\ disk[p].text \in Text
       /\ disk[p].extra \in Extra
       /\ {disk[p].guild, disk[p].release} \subseteq Key \cup {Sentinel}
       /\ disk[p].slot.version \in {0, 1}
       /\ disk[p].slot.epoch \in 0..(2^WireBits - 1)
       /\ disk[p].buildID \in {"none", "link", "final"}
       /\ disk[p].hostID \in {"none", "note", "uuid"}
       /\ disk[p].codesig \in {"none", "link", "signed"}
  /\ {running.guild, running.release} \subseteq Key \cup {Sentinel}

\* The files that can be started.
Files == {disk[p] : p \in Place} \ {None}

\* The signet a file was divined with is one the ceremony made.
Authorized(b) ==
  \E s \in b.signet : s.parentCert = Sign(s.guild, KeyDigest(s.release))

\* Nothing a released boot rests on is revoked.
Current(b) ==
  /\ ~janosIsRevoked(Revoked, b.slot.release, b.slot.epoch)
  /\ ~janosIsRevoked(RevokedUsers, b.slot.user, b.slot.userEpoch)

\* A divined file that nobody has changed and whose keys are current.
Releasable(b) == b.text = b.linked /\ Authorized(b) /\ Current(b)

\* "The runtime at boot applies matching zeroing to its on-disk read so both
\* sides converge on the same digest" (janosDivinerPass): a divined file that
\* can be read boots as released, whatever the go command and the host's code
\* signing have rewritten since the link.
DivinedBoots ==
  \A b \in Files : Releasable(b) => BootTrust(b, TRUE) = "TrustJanosReleased"

\* Where the zeroing does match: the program embeds neither of its own expected
\* keys, which the runtime zeroes wherever they are, and a file without a Go
\* build ID has none of the host's regions, which the runtime always zeroes.
ZeroedAlike(b) ==
  /\ b.extra \notin {b.guild, b.release}
  /\ b.buildID = "none" => b.hostID = "none" /\ b.codesig = "none"

\* What of that is true: after any rewriting by the go command and the host's
\* code signing, in every link mode, a divined file boots as released exactly
\* where the two canonicalisations zero the same bytes.
BootsIffZeroedAlike ==
  \A b \in Files :
    Releasable(b) =>
      (BootTrust(b, TRUE) = "TrustJanosReleased" <=> ZeroedAlike(b))

\* Only what the guild's release has signed, with a current key, and nobody has
\* changed since boots as released.
ReleasedIsSigned ==
  \A b \in Files, readable \in BOOLEAN :
    BootTrust(b, readable) = "TrustJanosReleased" =>
      /\ readable
      /\ b.text = b.linked
      /\ \E s \in b.signet :
           /\ s.guild = b.guild
           /\ s.release = b.release
           /\ s.parentCert = Sign(s.guild, KeyDigest(s.release))
           /\ \A e \in Revoked :
                e.key = s.release => e.epoch \notin {Wildcard, s.epoch}

\* "colonels of a divined janos MUST also be divined": whatever a divined janos
\* links, divined or not, runs as released or not at all, and so does all that
\* it links in turn.
FamilyLine ==
  \A b \in Files, readable \in BOOLEAN :
    b.heir => BootTrust(b, readable) \in {"TrustJanosReleased", "throw"}
=============================================================================
