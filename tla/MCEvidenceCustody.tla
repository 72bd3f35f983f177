---------------------------- MODULE MCEvidenceCustody ----------------------------
(***************************************************************************)
(* The instance of EvidenceCustody that TLC checks: two archivers and a    *)
(* reader, a payload the HGC-03 script accepts and one it refuses, two     *)
(* genuine signatures and a bad one, and three writes of other tools.      *)
(***************************************************************************)
EXTENDS EvidenceCustody, TLC

CONSTANTS good, bad, sig1, sig2, forged

\* A record whose payload version does not exist when it is written first, one
\* with a bad signature, and altered bytes under the key of the good payload.
MCForeign == {[key |-> CommitKey, content |-> [payload |-> good, version |-> 2, bundle |-> sig1]],
              [key |-> CommitKey, content |-> [payload |-> good, version |-> 1, bundle |-> forged]],
              [key |-> good, content |-> Damaged]}
ArchiverSymmetry == Permutations(Archivers)
=============================================================================
