---------------------------- MODULE MCDivinedBoot ----------------------------
(* DivinedBoot with small sets of keys, programs and link modes. *)
EXTENDS DivinedBoot

CONSTANTS k1, k2, k3

\* Release k2 is revoked at epoch 1 only, and user k1 at every epoch.
SomeRevoked == {[key |-> k2, epoch |-> 1]}
SomeRevokedUsers == {[key |-> k1, epoch |-> Wildcard]}
NoneRevoked == {}

Mode(id, B, darwin, arm64) ==
  [id |-> id, B |-> B, darwin |-> darwin, arm64 |-> arm64]

\* The usual modes of an ELF and a signed Mach-O file, with a Go build ID;
\* without one, the host's regions each on their own, and none of them; a link
\* that is refused.
SomeFlags ==
  {Mode(TRUE, "", FALSE, FALSE), Mode(TRUE, "", TRUE, TRUE),
   Mode(FALSE, "0x", FALSE, FALSE), Mode(FALSE, "0x", TRUE, FALSE),
   Mode(FALSE, "none", TRUE, TRUE), Mode(FALSE, "", FALSE, FALSE),
   Mode(FALSE, "gobuildid", FALSE, FALSE)}

\* Mach-O files for arm64, linked with neither a Go build ID nor -B.
NoBuildID == {Mode(FALSE, "", TRUE, TRUE)}
=============================================================================
