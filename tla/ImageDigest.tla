----------------------------- MODULE ImageDigest -----------------------------
(***************************************************************************)
(* What the resume stores know of the server they measured: the digest of  *)
(* server_image_digest (scripts/lib-bench.sh).  It hashes the reference of *)
(* the deployment's image and the server arguments, not the image: a tag   *)
(* like :dev (scripts/target-env.sh) that is pushed again keeps its        *)
(* digest.  Here the arguments count as a part of the reference.           *)
(***************************************************************************)
EXTENDS Functions

CONSTANTS
  Mode,      \* the server under test
  Images,    \* server images an operator may deploy
  Reference, \* the name each image is deployed by
  None       \* Python's None, or nothing

ASSUME DigestAssumption ==
  /\ DOMAIN Reference = Images
  /\ None \notin Range(Reference)

Digests == Range(Reference) \cup {None}

\* Mutant: no deployment is looked up, only the arguments are hashed.
MutantDigest(img) == None

\* The deployment is known for three modes only; for any other the image reads as the
\* empty string.
KnownModes == {"wal", "ursula", "s2"}

Digest(img) == IF Mode \in KnownModes THEN Reference[img] ELSE None

\* No reference is used for two images.
ReferencesFixed == \A i, j \in Images : Reference[i] = Reference[j] => i = j
=============================================================================
