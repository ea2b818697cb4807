-------------------------- MODULE DivinedBootProofs --------------------------
(***************************************************************************)
(* Proofs about the family line, for any keys, programs, files, link modes *)
(* and revocation lists: only what a release has signed boots as released, *)
(* what a divined janos links boots as released or not at all, and a       *)
(* divined file boots exactly where the two canonicalisations zero the     *)
(* same bytes.                                                             *)
(*                                                                         *)
(* All that the files on disk have in common is a property of one file;    *)
(* each operation on a file has a lemma that says it keeps the property.   *)
(***************************************************************************)
EXTENDS DivinedBoot, TLAPS

Certificate == {NoSig} \cup {Sign(k, KeyDigest(r)) : k, r \in Key}

Signet ==
  [guild: Key \cup {Zero}, release: Key, epoch: Epoch, parentCert: Certificate]

ExpectedKey == Key \cup {Sentinel}

\* The fields of a file that have a type of their own.
FileTyped(b) ==
  /\ b.text \in Text
  /\ b.linked \in Text
  /\ b.extra \in Extra
  /\ b.guild \in ExpectedKey
  /\ b.release \in ExpectedKey
  /\ b.buildID \in {"none", "link", "final"}
  /\ b.hostID \in {"none", "note", "uuid"}
  /\ b.codesig \in {"none", "link", "signed"}
  /\ b.heir \in BOOLEAN
  /\ b.slot.version \in {0, 1}
  /\ b.slot.epoch \in 0..(2^WireBits - 1)

\* A slot that is not sealed is the placeholder. A sealed one says what its
\* signet says, and its signature is of the file as it was linked, however
\* the build ID and the host's regions were rewritten since.
Sealed(b) ==
  IF b.slot.version = 0
  THEN b.signet = {}
  ELSE \E s \in Signet :
         /\ b.signet = {s} /\ s.guild \in Key
         /\ b.guild = s.guild /\ b.slot.guild = s.guild
         /\ b.release = s.release /\ b.slot.release = s.release
         /\ b.slot.epoch = EncodedEpoch(s.epoch)
         /\ b.slot.parentCert = s.parentCert
         /\ b.slot.sig = Sign(s.release, DivinerDigest([b EXCEPT !.text = b.linked]))

\* A user's entry was made by the release for the digest it signed.
UserEntered(b) ==
  b.slot.user # Zero =>
    /\ b.slot.version = 1 /\ b.slot.user \in Key
    /\ b.slot.userCert = Sign(b.release, KeyDigest(b.slot.user))
    /\ b.slot.userSig = Sign(b.slot.user, b.slot.sig.msg)

FileFields == {"text", "extra", "guild", "release", "slot", "buildID", "hostID",
               "codesig", "linked", "heir", "signet"}
SlotFields == {"version", "guild", "release", "epoch", "parentCert", "sig",
               "user", "userEpoch", "userCert", "userSig"}

\* What is true of every file: it is a record with these fields, and
FileInv(b) ==
  /\ DOMAIN b = FileFields
  /\ DOMAIN b.slot = SlotFields
  /\ FileTyped(b)
  /\ Sealed(b)
  /\ UserEntered(b)
  /\ b.heir => b.guild \in Key

IInv ==
  /\ signets \subseteq Signet
  /\ DOMAIN disk = Place
  /\ \A p \in Place : disk[p] # None => FileInv(disk[p])
  /\ running.guild \in ExpectedKey
  /\ running.release \in ExpectedKey

-----------------------------------------------------------------------------
(* What the operations make of a file *)

\* A slot keeps EpochBits of an epoch down to WireBits.
LEMMA EpochFits ==
  /\ \A e \in Epoch : EncodedEpoch(e) \in 0..(2^WireBits - 1)
  /\ 0 \in 0..(2^WireBits - 1)
  /\ Epoch \subseteq Nat
  <1>1. \A n \in Nat \ {0}, e \in Nat : e % n \in 0..(n - 1)
    OBVIOUS
  <1>2. \A e \in Epoch : e \in Nat
    BY DivinedBootAssumption
  <1>3. 2^WireBits \in Nat \ {0}
    BY DivinedBootAssumption
  <1>4. 0 \in 0..(2^WireBits - 1)
    BY <1>3
  <1> QED
    BY <1>1, <1>2, <1>3, <1>4 DEF EncodedEpoch

\* What is inherited is a key, or the placeholder where the parent has none.
LEMMA Inherits ==
  ASSUME NEW k \in ExpectedKey
  PROVE  InheritedKey(k) = k
  BY DivinedBootAssumption DEF ExpectedKey, InheritedKey, ParentKey

\* Certificates are records of the two fields.
LEMMA CertificateFields ==
  ASSUME NEW c \in Certificate, c # NoSig
  PROVE  /\ \E k, r \in Key : c = Sign(k, KeyDigest(r))
         /\ c = Sign(c.by, c.msg)
  BY DEF Certificate, Sign

\* The file asmb2 leaves.
LEMMA LinkedFile ==
  ASSUME IInv, NEW t \in Text, NEW x \in Extra, NEW f \in Flags
  PROVE  FileInv(Assembled(t, x, f)) /\ Assembled(t, x, f).slot = UndivinedSlot
  <1> DEFINE b == Assembled(t, x, f)
  <1>1. /\ DOMAIN b = FileFields /\ b.slot = UndivinedSlot
        /\ DOMAIN UndivinedSlot = SlotFields
    BY DEF Assembled, FileFields, UndivinedSlot, SlotFields
  <1>2. /\ b.text = t /\ b.extra = x /\ b.linked = t /\ b.signet = {}
        /\ b.guild = InheritedKey(running.guild)
        /\ b.release = InheritedKey(running.release)
        /\ b.heir = (running.guild # Sentinel)
        /\ b.buildID = IF f.id THEN "link" ELSE "none"
        /\ b.hostID = HostBuildID(f)
        /\ b.codesig = IF NeedCodeSign(f) THEN "link" ELSE "none"
    BY DEF Assembled
  <1>3. UndivinedSlot.version = 0 /\ UndivinedSlot.epoch = 0 /\ UndivinedSlot.user = Zero
    BY DEF UndivinedSlot
  <1>4. b.guild = running.guild /\ b.release = running.release
    BY <1>2, Inherits DEF IInv
  <1>5. HostBuildID(f) \in {"none", "note", "uuid"}
    BY DEF HostBuildID
  <1> HIDE DEF b
  <1>6. /\ b.buildID \in {"none", "link"} /\ b.hostID \in {"none", "note", "uuid"}
        /\ b.codesig \in {"none", "link"}
    BY <1>2, <1>5
  <1>7. FileTyped(b)
    BY <1>1, <1>2, <1>3, <1>4, <1>6, EpochFits DEF FileTyped, IInv
  <1>8. Sealed(b) /\ UserEntered(b)
    BY <1>1, <1>2, <1>3 DEF Sealed, UserEntered
  <1>9. b.heir => b.guild \in Key
    BY <1>2, <1>4 DEF IInv, ExpectedKey
  <1> QED
    BY <1>1, <1>7, <1>8, <1>9 DEF FileInv, b

\* The file janosDivinerPass seals.
LEMMA DivinedFile ==
  ASSUME NEW b, FileInv(b), b.slot = UndivinedSlot, b.text = b.linked,
         NEW s \in Signet, ValidateForBuild(s)
  PROVE  FileInv(Divined(b, s))
  <1> DEFINE c == Divined(b, s)
             slot == [UndivinedSlot EXCEPT
                        !.version = 1, !.guild = s.guild, !.release = s.release,
                        !.epoch = EncodedEpoch(s.epoch),
                        !.parentCert = s.parentCert,
                        !.sig = Sign(s.release, DivinerDigest(b))]
  <1>s. /\ s.guild \in Key /\ s.release \in Key /\ s.epoch \in Epoch
    BY DEF ValidateForBuild, Signet
  <1>slot. /\ DOMAIN slot = SlotFields
           /\ slot.version = 1 /\ slot.guild = s.guild /\ slot.release = s.release
           /\ slot.epoch = EncodedEpoch(s.epoch) /\ slot.parentCert = s.parentCert
           /\ slot.sig = Sign(s.release, DivinerDigest(b)) /\ slot.user = Zero
    BY DEF UndivinedSlot, SlotFields
  <1>1. /\ DOMAIN c = FileFields /\ c.slot = slot
        /\ c.guild = s.guild /\ c.release = s.release /\ c.signet = {s}
        /\ c.text = b.text /\ c.extra = b.extra /\ c.linked = b.linked
        /\ c.buildID = b.buildID /\ c.hostID = b.hostID
        /\ c.codesig = b.codesig /\ c.heir = b.heir
    BY DEF Divined, FileInv, FileFields
  <1> HIDE DEF c, slot
  <1>2. FileTyped(c)
    BY <1>s, <1>slot, <1>1, EpochFits DEF FileInv, FileTyped, ExpectedKey
  <1>3. DivinerDigest([c EXCEPT !.text = c.linked]) = DivinerDigest(b)
    <2> DEFINE d == [c EXCEPT !.text = c.linked]
    <2>1. /\ d.text = b.text /\ d.extra = b.extra /\ d.buildID = b.buildID
          /\ d.hostID = b.hostID /\ d.codesig = b.codesig
      BY <1>1 DEF FileFields
    <2> HIDE DEF d
    <2> QED
      BY <2>1 DEF DivinerDigest, WithoutID, HashedID, d
  <1>4. Sealed(c)
    BY <1>s, <1>slot, <1>1, <1>3 DEF Sealed
  <1>5. UserEntered(c)
    BY <1>slot, <1>1 DEF UserEntered
  <1> QED
    BY <1>s, <1>slot, <1>1, <1>2, <1>4, <1>5 DEF FileInv, c

\* The text a signature is of: that of the file as linked.
LEMMA SameDigest ==
  ASSUME NEW b, NEW c, DOMAIN b = FileFields, DOMAIN c = FileFields,
         c.linked = b.linked, c.extra = b.extra,
         c.buildID = "none" <=> b.buildID = "none",
         b.buildID = "none" => c.hostID = b.hostID /\ c.codesig = b.codesig
  PROVE  DivinerDigest([c EXCEPT !.text = c.linked])
           = DivinerDigest([b EXCEPT !.text = b.linked])
  <1> DEFINE d == [c EXCEPT !.text = c.linked]
             e == [b EXCEPT !.text = b.linked]
  <1>1. /\ d.text = c.linked /\ d.extra = c.extra /\ d.buildID = c.buildID
        /\ d.hostID = c.hostID /\ d.codesig = c.codesig
        /\ e.text = b.linked /\ e.extra = b.extra /\ e.buildID = b.buildID
        /\ e.hostID = b.hostID /\ e.codesig = b.codesig
    BY DEF FileFields
  <1> HIDE DEF d, e
  <1>2. WithoutID(d) = WithoutID(e) /\ HashedID(d) = HashedID(e)
    BY <1>1 DEF WithoutID, HashedID
  <1> QED
    BY <1>1, <1>2 DEF DivinerDigest, d, e

\* The final build ID and the host's new code signature.
LEMMA RewrittenFile ==
  ASSUME NEW b, FileInv(b), b.buildID = "link",
         NEW h \in {"none", "link", "signed"},
         NEW c, c = [b EXCEPT !.buildID = "final", !.codesig = h]
  PROVE  FileInv(c)
  <1>1. /\ DOMAIN c = FileFields /\ c.slot = b.slot
        /\ c.guild = b.guild /\ c.release = b.release /\ c.signet = b.signet
        /\ c.text = b.text /\ c.extra = b.extra /\ c.linked = b.linked
        /\ c.buildID = "final" /\ c.hostID = b.hostID
        /\ c.codesig = h /\ c.heir = b.heir
    BY DEF FileInv, FileFields
  <1>2. FileTyped(c) /\ UserEntered(c)
    BY <1>1 DEF FileInv, FileTyped, UserEntered
  <1>3. Sealed(c)
    <2>1. DivinerDigest([c EXCEPT !.text = c.linked])
            = DivinerDigest([b EXCEPT !.text = b.linked])
      BY <1>1, SameDigest DEF FileInv
    <2> QED
      BY <1>1, <2>1 DEF FileInv, Sealed
  <1> QED
    BY <1>1, <1>2, <1>3 DEF FileInv

\* A change of the program.
LEMMA PatchedFile ==
  ASSUME NEW b, FileInv(b), NEW t \in Text, NEW c, c = [b EXCEPT !.text = t]
  PROVE  FileInv(c)
  <1>1. /\ DOMAIN c = FileFields /\ c.slot = b.slot
        /\ c.guild = b.guild /\ c.release = b.release /\ c.signet = b.signet
        /\ c.text = t /\ c.extra = b.extra /\ c.linked = b.linked
        /\ c.buildID = b.buildID /\ c.hostID = b.hostID
        /\ c.codesig = b.codesig /\ c.heir = b.heir
    BY DEF FileInv, FileFields
  <1>2. FileTyped(c) /\ UserEntered(c)
    BY <1>1 DEF FileInv, FileTyped, UserEntered
  <1>3. Sealed(c)
    <2>1. DivinerDigest([c EXCEPT !.text = c.linked])
            = DivinerDigest([b EXCEPT !.text = b.linked])
      BY <1>1, SameDigest DEF FileInv
    <2> QED
      BY <1>1, <2>1 DEF FileInv, Sealed
  <1> QED
    BY <1>1, <1>2, <1>3 DEF FileInv

\* A user's entry.
LEMMA EnteredFile ==
  ASSUME NEW b, FileInv(b), b.slot.version = 1, b.slot.user = Zero,
         NEW u \in Key, NEW e, NEW c,
         c = [b EXCEPT !.slot.user = u, !.slot.userEpoch = e,
                       !.slot.userCert = Sign(b.release, KeyDigest(u)),
                       !.slot.userSig = Sign(u, b.slot.sig.msg)]
  PROVE  FileInv(c)
  <1>1. /\ DOMAIN c = FileFields
        /\ c.guild = b.guild /\ c.release = b.release /\ c.signet = b.signet
        /\ c.text = b.text /\ c.extra = b.extra /\ c.linked = b.linked
        /\ c.buildID = b.buildID /\ c.hostID = b.hostID
        /\ c.codesig = b.codesig /\ c.heir = b.heir
    BY DEF FileInv, FileFields
  <1> DEFINE r == b.slot
             x == Sign(b.release, KeyDigest(u))
             y == Sign(u, b.slot.sig.msg)
             t == [r EXCEPT !.user = u, !.userEpoch = e, !.userCert = x, !.userSig = y]
  <1>2. c.slot = t /\ DOMAIN r = SlotFields
    BY DEF FileInv, FileFields, SlotFields
  <1>3. /\ DOMAIN c.slot = SlotFields
        /\ c.slot.version = b.slot.version /\ c.slot.guild = b.slot.guild
        /\ c.slot.release = b.slot.release /\ c.slot.epoch = b.slot.epoch
        /\ c.slot.parentCert = b.slot.parentCert /\ c.slot.sig = b.slot.sig
        /\ c.slot.user = u /\ c.slot.userCert = Sign(b.release, KeyDigest(u))
        /\ c.slot.userSig = Sign(u, b.slot.sig.msg)
    <2> HIDE DEF r, x, y
    <2>1. /\ DOMAIN t = SlotFields
          /\ t.version = r.version /\ t.guild = r.guild /\ t.release = r.release
          /\ t.epoch = r.epoch /\ t.parentCert = r.parentCert /\ t.sig = r.sig
          /\ t.user = u /\ t.userCert = x /\ t.userSig = y
      BY <1>2 DEF SlotFields
    <2> HIDE DEF t
    <2> QED
      BY <1>2, <2>1 DEF r, x, y
  <1>4. FileTyped(c)
    BY <1>1, <1>3 DEF FileInv, FileTyped
  <1>5. UserEntered(c)
    BY <1>1, <1>3 DEF UserEntered
  <1>6. Sealed(c)
    <2>1. DivinerDigest([c EXCEPT !.text = c.linked])
            = DivinerDigest([b EXCEPT !.text = b.linked])
      BY <1>1, SameDigest DEF FileInv
    <2> QED
      BY <1>1, <1>3, <2>1 DEF FileInv, Sealed
  <1> QED
    BY <1>1, <1>3, <1>4, <1>5, <1>6 DEF FileInv

-----------------------------------------------------------------------------
(* One step *)

\* A step that puts one file, or None, in its place.
LEMMA OneFile ==
  ASSUME IInv, NEW p \in Place, NEW b, disk' = [disk EXCEPT ![p] = b],
         b # None => FileInv(b), UNCHANGED <<signets, running>>
  PROVE  IInv'
  <1>1. DOMAIN disk' = Place /\ disk'[p] = b
    BY DEF IInv
  <1>2. \A q \in Place : q # p => disk'[q] = disk[q]
    BY DEF IInv
  <1> QED
    BY <1>1, <1>2 DEF IInv

\* Ceremony and the edits of a signet keep IInv.
LEMMA SignetStep ==
  ASSUME IInv,
         \/ \E k, r \in Key, e \in Epoch : Ceremony(k, r, e)
         \/ \E s \in signets, k \in Key \cup {Zero} : EditSignet(s, k, s.parentCert)
         \/ \E s \in signets : EditSignet(s, s.guild, NoSig)
  PROVE  IInv'
  <1>1. UNCHANGED <<disk, running>>
    BY DEF Ceremony, EditSignet
  <1>2. ASSUME NEW k \in Key, NEW r \in Key, NEW e \in Epoch, Ceremony(k, r, e)
        PROVE  signets' \subseteq Signet
    <2>1. Sign(k, KeyDigest(r)) \in Certificate
      BY DEF Certificate
    <2> QED
      BY <1>2, <2>1 DEF IInv, Ceremony, Signet
  <1>3. ASSUME NEW s \in signets, NEW k \in Key \cup {Zero}, NEW c \in Certificate,
               EditSignet(s, k, c)
        PROVE  signets' \subseteq Signet
    <2>1. s \in Signet
      BY DEF IInv
    <2>2. [s EXCEPT !.guild = k, !.parentCert = c] \in Signet
      BY <2>1 DEF Signet
    <2> QED
      BY <1>3, <2>2 DEF IInv, EditSignet
  <1>4. \A s \in signets : s.parentCert \in Certificate /\ s.guild \in Key \cup {Zero}
    BY DEF IInv, Signet
  <1>5. NoSig \in Certificate
    BY DEF Certificate
  <1> QED
    BY <1>1, <1>2, <1>3, <1>4, <1>5 DEF IInv

\* Every step keeps IInv.
LEMMA NextIInv == IInv /\ [Next]_vars => IInv'
  <1> SUFFICES ASSUME IInv, [Next]_vars PROVE IInv'
    OBVIOUS
  <1>dom. DOMAIN disk = Place
    BY DEF IInv
  <1>1. ASSUME NEW p \in Place, NEW t \in Text, NEW x \in Extra, NEW f \in Flags,
               Link(p, t, x, f)
        PROVE  IInv'
    BY <1>1, LinkedFile, OneFile DEF Link
  <1>2. ASSUME NEW p \in Place, NEW t \in Text, NEW x \in Extra, NEW f \in Flags,
               NEW s \in signets, NEW d \in Key, LinkDivined(p, t, x, f, s, d)
        PROVE  IInv'
    <2> DEFINE a == Assembled(t, x, f)
               b == IF ValidateForBuild(s) /\ d = s.release THEN Divined(a, s) ELSE None
    <2>1. FileInv(a) /\ a.slot = UndivinedSlot
      BY LinkedFile
    <2>2. a.text = a.linked
      BY DEF Assembled
    <2>3. s \in Signet
      BY DEF IInv
    <2>4. b # None => FileInv(b)
      <3> HIDE DEF a
      <3> QED
        BY <2>1, <2>2, <2>3, DivinedFile
    <2>5. disk' = [disk EXCEPT ![p] = b] /\ UNCHANGED <<signets, running>>
      BY <1>2 DEF LinkDivined
    <2> QED
      BY <2>4, <2>5, OneFile
  <1>3. ASSUME NEW p \in Place, RewriteBuildID(p) PROVE IInv'
    <2> DEFINE h == IF disk[p].codesig = "link" THEN "signed" ELSE disk[p].codesig
               c == [disk[p] EXCEPT !.buildID = "final", !.codesig = h]
    <2>1. FileInv(disk[p]) /\ disk[p].buildID = "link"
      BY <1>3 DEF RewriteBuildID, IInv
    <2>2. h \in {"none", "link", "signed"}
      BY <2>1 DEF FileInv, FileTyped
    <2>3. disk' = [disk EXCEPT ![p] = c] /\ UNCHANGED <<signets, running>>
      <3>1. DOMAIN disk[p] = FileFields
        BY <2>1 DEF FileInv
      <3> QED
        BY <1>3, <1>dom, <3>1 DEF RewriteBuildID, FileFields
    <2>4. FileInv(c)
      BY <2>1, <2>2, RewrittenFile
    <2> QED
      BY <2>3, <2>4, OneFile
  <1>4. ASSUME NEW p \in Place, NEW t \in Text, Patch(p, t) PROVE IInv'
    <2> DEFINE c == [disk[p] EXCEPT !.text = t]
    <2>1. FileInv(disk[p])
      BY <1>4 DEF Patch, IInv
    <2>2. disk' = [disk EXCEPT ![p] = c] /\ UNCHANGED <<signets, running>>
      BY <1>4 DEF Patch
    <2>3. FileInv(c)
      BY <2>1, PatchedFile
    <2> QED
      BY <2>2, <2>3, OneFile
  <1>5. ASSUME NEW p \in Place, NEW u \in Key, NEW e \in Epoch, AddUserEntry(p, u, e)
        PROVE  IInv'
    <2> DEFINE b == disk[p]
               c == [b EXCEPT !.slot.user = u, !.slot.userEpoch = EncodedEpoch(e),
                              !.slot.userCert = Sign(b.release, KeyDigest(u)),
                              !.slot.userSig = Sign(u, b.slot.sig.msg)]
    <2>1. FileInv(b) /\ b.slot.version = 1 /\ b.slot.user = Zero
      BY <1>5 DEF AddUserEntry, IInv
    <2>2. disk' = [disk EXCEPT ![p] = c] /\ UNCHANGED <<signets, running>>
      BY <1>5, <1>dom DEF AddUserEntry
    <2>3. FileInv(c)
      BY <2>1, EnteredFile
    <2> HIDE DEF c
    <2> QED
      BY <2>2, <2>3, OneFile
  <1>6. ASSUME NEW p \in Place, NEW readable \in BOOLEAN, Boot(p, readable)
        PROVE  IInv'
    <2>1. disk[p].guild \in ExpectedKey /\ disk[p].release \in ExpectedKey
      BY <1>6 DEF Boot, IInv, FileInv, FileTyped
    <2>2. running' = [guild |-> disk[p].guild, release |-> disk[p].release]
      BY <1>6 DEF Boot
    <2>3. UNCHANGED <<signets, disk>>
      BY <1>6 DEF Boot
    <2> QED
      BY <2>1, <2>2, <2>3 DEF IInv
  <1>7. CASE UNCHANGED vars
    BY <1>7 DEF vars, IInv
  <1> QED
    BY <1>1, <1>2, <1>3, <1>4, <1>5, <1>6, <1>7, SignetStep DEF Next

\* The initial state satisfies IInv.
LEMMA InitIInv == Init => IInv
  BY DEF Init, IInv, ExpectedKey

\* The inductive invariant holds throughout.
THEOREM Invariance == Spec => []IInv
  BY InitIInv, NextIInv, PTL DEF Spec

\* Every variable keeps its type.
THEOREM TypeCorrect == Spec => []TypeOK
  <1>1. ASSUME IInv PROVE TypeOK
    <2>1. \A c \in Certificate : c.by \in Key \cup {Zero}
      BY DEF Certificate, Sign, NoSig
    <2>2. \A s \in signets : /\ s.guild \in Key \cup {Zero} /\ s.release \in Key
                             /\ s.epoch \in Epoch /\ s.parentCert.by \in Key \cup {Zero}
      BY <1>1, <2>1 DEF IInv, Signet
    <2> QED
      BY <1>1, <2>2 DEF IInv, TypeOK, FileInv, FileTyped, ExpectedKey
  <1> QED
    BY <1>1, Invariance, PTL

\* "colonels of a divined janos MUST also be divined": whatever a divined janos
\* links runs as released or not at all.
THEOREM FamilyLineHolds == Spec => []FamilyLine
  <1>1. ASSUME IInv PROVE FamilyLine
    <2>1. \A b \in Files : FileInv(b)
      BY <1>1 DEF IInv, Files
    <2>2. \A b \in Files : b.heir => b.guild # Sentinel
      BY <2>1, DivinedBootAssumption DEF FileInv
    <2> QED
      BY <2>2 DEF FamilyLine, BootTrust, Strict
  <1> QED
    BY <1>1, Invariance, PTL

\* Only what the guild's release has signed, with a key that is not revoked,
\* and nobody has changed since boots as released: as long as no ceremony uses
\* an epoch that a slot cannot hold. An epoch that does not fit is cut off, and
\* the revocation of it then finds nothing.
THEOREM ReleasedSigned ==
  ASSUME \A e \in Epoch : e < 2^WireBits
  PROVE  Spec => []ReleasedIsSigned
  <1>1. ASSUME IInv, NEW b \in Files, NEW readable \in BOOLEAN,
               BootTrust(b, readable) = "TrustJanosReleased"
        PROVE  /\ readable
               /\ b.text = b.linked
               /\ \E s \in b.signet :
                    /\ s.guild = b.guild
                    /\ s.release = b.release
                    /\ s.parentCert = Sign(s.guild, KeyDigest(s.release))
                    /\ \A e \in Revoked :
                         e.key = s.release => e.epoch \notin {Wildcard, s.epoch}
    <2> DEFINE hash == BinaryHash(b, readable)
    <2>1. FileInv(b)
      BY <1>1 DEF IInv, Files
    <2>2. b.slot.version # 0 /\ ReleaseEntryOK(b.slot, hash, b.guild, b.release)
      BY <1>1 DEF BootTrust, HashTrust
    <2>3. PICK s \in Signet :
            /\ b.signet = {s} /\ b.guild = s.guild /\ b.release = s.release
            /\ b.slot.epoch = EncodedEpoch(s.epoch)
            /\ b.slot.parentCert = s.parentCert
            /\ b.slot.sig = Sign(s.release, DivinerDigest([b EXCEPT !.text = b.linked]))
      BY <2>1, <2>2 DEF FileInv, Sealed
    <2>4. DivinerDigest([b EXCEPT !.text = b.linked]) = hash
      BY <2>2, <2>3 DEF ReleaseEntryOK, Verifies, Sign
    <2>5. s.parentCert = Sign(s.guild, KeyDigest(s.release))
      <3>1. s.parentCert \in Certificate
        BY DEF Signet
      <3>2. /\ s.parentCert # NoSig /\ s.parentCert.by = s.guild
            /\ s.parentCert.msg = KeyDigest(s.release)
        BY <2>2, <2>3 DEF ReleaseEntryOK, Verifies
      <3> QED
        BY <3>1, <3>2, CertificateFields
    <2>6. [b EXCEPT !.text = b.linked].text = b.linked
      BY <2>1 DEF FileInv, FileFields
    <2>7. readable
      <3>1. DOMAIN [text |-> Zero] = {"text"}
        OBVIOUS
      <3>2. "hostID" \in DOMAIN DivinerDigest([b EXCEPT !.text = b.linked])
        BY DEF DivinerDigest
      <3> QED
        BY <2>4, <3>1, <3>2 DEF BinaryHash
    <2>8. b.text = b.linked
      <3>1. hash = RuntimeDigest(b)
        BY <2>7 DEF BinaryHash
      <3>2. RuntimeDigest(b).text = b.text
        <4>1. DOMAIN b = FileFields
          BY <2>1 DEF FileInv
        <4>2. \A c : DOMAIN c = FileFields =>
                /\ DOMAIN SlotZeroed(c) = FileFields /\ SlotZeroed(c).text = c.text
                /\ DOMAIN KeysZeroed(c) = FileFields /\ KeysZeroed(c).text = c.text
                /\ DOMAIN MachoExcluded(c) = FileFields /\ MachoExcluded(c).text = c.text
                /\ DOMAIN ElfExcluded(c) = FileFields /\ ElfExcluded(c).text = c.text
                /\ BuildIDZeroed(c).text = c.text
          BY DEF SlotZeroed, KeysZeroed, MachoExcluded, ElfExcluded, BuildIDZeroed,
                 FileFields
        <4> QED
          BY <4>1, <4>2 DEF RuntimeDigest
      <3>3. DivinerDigest([b EXCEPT !.text = b.linked]).text = b.linked
        BY <2>6 DEF DivinerDigest
      <3> QED
        BY <2>4, <3>1, <3>2, <3>3
    <2>9. b.slot.epoch = s.epoch
      <3>1. \A n \in Nat \ {0}, e \in Nat : e < n => e % n = e
        OBVIOUS
      <3>2. s.epoch \in Epoch
        BY DEF Signet
      <3>3. s.epoch \in Nat
        BY <3>2, EpochFits
      <3>4. 2^WireBits \in Nat \ {0}
        BY DivinedBootAssumption
      <3>5. s.epoch < 2^WireBits
        BY <3>2
      <3> QED
        BY <2>3, <3>1, <3>3, <3>4, <3>5 DEF EncodedEpoch
    <2>10. \A e \in Revoked : e.key = s.release => e.epoch \notin {Wildcard, s.epoch}
      BY <2>2, <2>3, <2>9 DEF ReleaseEntryOK, janosIsRevoked
    <2> QED
      BY <2>3, <2>5, <2>7, <2>8, <2>10
  <1>2. IInv => ReleasedIsSigned
    BY <1>1 DEF ReleasedIsSigned
  <1> QED
    BY <1>2, Invariance, PTL

\* What the program embeds, once the runtime has zeroed its expected keys.
WithoutKeys(b) == IF b.extra \in {b.guild, b.release} THEN Zero ELSE b.extra

\* What the runtime leaves standing of a sealed file.
LEMMA RuntimeLeaves ==
  ASSUME NEW b, FileInv(b), b.slot.version = 1
  PROVE  RuntimeDigest(b) =
           [text |-> b.text,
            extra |-> IF WithoutKeys(b) = IdCopy /\ b.buildID # "none"
                      THEN Zero ELSE WithoutKeys(b),
            slot |-> Zero, guild |-> Zero, release |-> Zero,
            buildID |-> "none", hostID |-> "none", codesig |-> "none"]
  <1> DEFINE z1 == SlotZeroed(b)
             z2 == KeysZeroed(z1)
             z3 == MachoExcluded(z2)
             z4 == ElfExcluded(z3)
             z5 == BuildIDZeroed(z4)
  <1>b. DOMAIN b = FileFields /\ b.hostID \in {"none", "note", "uuid"}
    BY DEF FileInv, FileTyped
  <1>1. /\ DOMAIN z1 = FileFields /\ z1.slot = Zero /\ z1.text = b.text
        /\ z1.extra = b.extra /\ z1.guild = b.guild /\ z1.release = b.release
        /\ z1.buildID = b.buildID /\ z1.hostID = b.hostID
    BY <1>b DEF SlotZeroed, FileFields
  <1> HIDE DEF z1
  <1>2. /\ DOMAIN z2 = FileFields /\ z2.slot = Zero /\ z2.text = b.text
        /\ z2.extra = WithoutKeys(b) /\ z2.guild = Zero /\ z2.release = Zero
        /\ z2.buildID = b.buildID /\ z2.hostID = b.hostID
    BY <1>1 DEF KeysZeroed, WithoutKeys, FileFields
  <1> HIDE DEF z2
  <1>3. /\ DOMAIN z3 = FileFields /\ z3.slot = Zero /\ z3.text = b.text
        /\ z3.extra = WithoutKeys(b) /\ z3.guild = Zero /\ z3.release = Zero
        /\ z3.buildID = b.buildID /\ z3.codesig = "none"
        /\ z3.hostID = IF b.hostID = "uuid" THEN "none" ELSE b.hostID
    BY <1>2 DEF MachoExcluded, FileFields
  <1> HIDE DEF z3
  <1>4. /\ DOMAIN z4 = FileFields /\ z4.slot = Zero /\ z4.text = b.text
        /\ z4.extra = WithoutKeys(b) /\ z4.guild = Zero /\ z4.release = Zero
        /\ z4.buildID = b.buildID /\ z4.codesig = "none" /\ z4.hostID = "none"
    BY <1>3, <1>b DEF ElfExcluded, FileFields
  <1> HIDE DEF z4
  <1>5. /\ z5.slot = Zero /\ z5.text = b.text /\ z5.guild = Zero /\ z5.release = Zero
        /\ z5.extra = IF WithoutKeys(b) = IdCopy /\ b.buildID # "none"
                      THEN Zero ELSE WithoutKeys(b)
        /\ z5.buildID = "none" /\ z5.codesig = "none" /\ z5.hostID = "none"
    BY <1>4 DEF BuildIDZeroed, WithoutID, FileFields
  <1>6. RuntimeDigest(b) =
          [text |-> z5.text, extra |-> z5.extra, slot |-> z5.slot, guild |-> z5.guild,
           release |-> z5.release, buildID |-> z5.buildID, hostID |-> z5.hostID,
           codesig |-> z5.codesig]
    BY DEF RuntimeDigest, z1, z2, z3, z4
  <1> HIDE DEF z5
  <1> QED
    BY <1>5, <1>6

\* The linker and the runtime leave the same bytes standing of a sealed file
\* exactly where they zero it alike.
LEMMA DigestsMeet ==
  ASSUME NEW b, FileInv(b), b.slot.version = 1, b.text = b.linked,
         b.guild \in Key, b.release \in Key
  PROVE  RuntimeDigest(b) = DivinerDigest([b EXCEPT !.text = b.linked])
           <=> ZeroedAlike(b)
  <1> DEFINE d == [b EXCEPT !.text = b.linked]
             x == IF WithoutKeys(b) = IdCopy /\ b.buildID # "none"
                  THEN Zero ELSE WithoutKeys(b)
             h == IF b.buildID = "none" THEN b.hostID ELSE "none"
             c == IF b.buildID = "none" THEN b.codesig ELSE "none"
  <1>1. /\ d.text = b.text /\ d.extra = b.extra /\ d.buildID = b.buildID
        /\ d.hostID = b.hostID /\ d.codesig = b.codesig
    BY DEF FileInv, FileFields
  <1> HIDE DEF d
  <1>2. DivinerDigest(d) =
          [text |-> b.text, extra |-> WithoutID(b), slot |-> Zero, guild |-> Zero,
           release |-> Zero, buildID |-> "none", hostID |-> h, codesig |-> c]
    BY <1>1 DEF DivinerDigest, HashedID, WithoutID
  <1>3. RuntimeDigest(b) =
          [text |-> b.text, extra |-> x, slot |-> Zero, guild |-> Zero,
           release |-> Zero, buildID |-> "none", hostID |-> "none", codesig |-> "none"]
    BY RuntimeLeaves
  <1>4. x = WithoutID(b) <=> b.extra \notin {b.guild, b.release}
    BY DivinedBootAssumption DEF WithoutID, WithoutKeys
  <1>5. h = "none" /\ c = "none"
          <=> (b.buildID = "none" => b.hostID = "none" /\ b.codesig = "none")
    OBVIOUS
  <1> HIDE DEF x, h, c
  <1>6. RuntimeDigest(b) = DivinerDigest(d)
          <=> x = WithoutID(b) /\ h = "none" /\ c = "none"
    BY <1>2, <1>3
  <1> QED
    BY <1>4, <1>5, <1>6 DEF ZeroedAlike, d

\* A divined file that nobody changed and whose keys are current boots as
\* released, whatever the go command and the host have rewritten, exactly where
\* janosDivinerPass and janosCanonicalHash zero the same bytes: not if the
\* program embeds one of its own expected keys, nor if it has a host build ID or
\* a code signature and no Go build ID.
THEOREM BootsExactly == Spec => []BootsIffZeroedAlike
  <1>1. ASSUME IInv, NEW b \in Files, Releasable(b)
        PROVE  BootTrust(b, TRUE) = "TrustJanosReleased" <=> ZeroedAlike(b)
    <2> DEFINE hash == BinaryHash(b, TRUE)
               signed == DivinerDigest([b EXCEPT !.text = b.linked])
    <2>1. FileInv(b) /\ b.text = b.linked /\ Authorized(b) /\ Current(b)
      BY <1>1 DEF IInv, Files, Releasable
    <2>2. b.slot.version = 1
      BY <2>1 DEF Authorized, FileInv, FileTyped, Sealed
    <2>3. PICK s \in Signet :
            /\ b.signet = {s} /\ s.guild \in Key
            /\ b.guild = s.guild /\ b.slot.guild = s.guild
            /\ b.release = s.release /\ b.slot.release = s.release
            /\ b.slot.parentCert = s.parentCert
            /\ b.slot.sig = Sign(s.release, signed)
      BY <2>1, <2>2 DEF FileInv, Sealed
    <2>4. s.parentCert = Sign(s.guild, KeyDigest(s.release)) /\ s.release \in Key
      BY <2>1, <2>3 DEF Authorized, Signet
    <2>5. hash = signed <=> ZeroedAlike(b)
      BY <2>1, <2>2, <2>3, <2>4, DigestsMeet DEF BinaryHash
    <2> HIDE DEF hash, signed
    <2>6. \A k \in Key : \A m : Verifies(k, m, Sign(k, m))
      BY DivinedBootAssumption DEF Verifies, Sign, NoSig
    <2>7. ReleaseEntryOK(b.slot, hash, b.guild, b.release) <=> hash = signed
      <3>1. Verifies(s.release, hash, b.slot.sig) <=> hash = signed
        BY <2>3, <2>4, <2>6 DEF Verifies, Sign
      <3> QED
        BY <2>1, <2>2, <2>3, <2>4, <2>6, <3>1 DEF ReleaseEntryOK, Current
    <2>8. hash = signed => UserEntryOK(b.slot, hash)
      <3>1. b.slot.sig.msg = signed
        BY <2>3 DEF Sign
      <3> QED
        BY <2>1, <2>3, <2>4, <2>6, <3>1 DEF UserEntryOK, FileInv, UserEntered, Current
    <2>9. Strict(b) /\ Sentinel \notin {b.guild, b.release}
      BY <2>3, <2>4, DivinedBootAssumption DEF Strict
    <2>10. BootTrust(b, TRUE) = "TrustJanosReleased"
             <=> /\ ReleaseEntryOK(b.slot, hash, b.guild, b.release)
                 /\ UserEntryOK(b.slot, hash)
      <3> DEFINE ok == /\ ReleaseEntryOK(b.slot, hash, b.guild, b.release)
                       /\ UserEntryOK(b.slot, hash)
      <3>1. b.slot.version # 0
        BY <2>2
      <3>2. BootTrust(b, TRUE) = IF ok THEN "TrustJanosReleased" ELSE "throw"
        BY <2>9, <3>1, Zenon DEF BootTrust, hash
      <3> HIDE DEF ok
      <3>3. BootTrust(b, TRUE) = "TrustJanosReleased" <=> ok
        BY <3>2
      <3> QED
        BY <3>3, Zenon DEF ok
    <2> QED
      BY <2>5, <2>7, <2>8, <2>10
  <1>2. IInv => BootsIffZeroedAlike
    BY <1>1 DEF BootsIffZeroedAlike
  <1> QED
    BY <1>2, Invariance, PTL
=============================================================================
