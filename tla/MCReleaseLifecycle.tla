--------------------------- MODULE MCReleaseLifecycle ---------------------------
(***************************************************************************)
(* Small instances of ReleaseLifecycle for TLC.  Images 1 and 2 are a      *)
(* runtime/dev pair; image 3, where there is one, is a singleton.          *)
(***************************************************************************)
EXTENDS ReleaseProperties

CONSTANTS ReleaseCount, ImageCount

MCReleases == 1 .. ReleaseCount
MCImages == 1 .. ImageCount
MCUnits == {{1, 2}, {3}} \cap SUBSET MCImages
MCDigests == 0 .. ReleaseCount

\* Every release holds the whole catalog.
FullMembers == [r \in MCReleases |-> MCImages]
\* Release 1 holds the catalog, 2 only the singleton, 3 only the pair.
SplitMembers == [r \in MCReleases |-> CASE r = 1 -> MCImages [] r = 2 -> {3} [] OTHER -> {1, 2}]

\* Every release rebuilds every image but the singleton, which is reproducible.
MCDigest == [r \in MCReleases |-> [i \in MCImages |-> IF i = 3 THEN 0 ELSE r]]

\* DEV has no soak, as in policies/release; HOM has one tick.
MCSoak == [e \in Envs |-> IF e = "DEV" THEN 0 ELSE 1]
MCOpen == [e \in Envs |-> MCImages]
MCHomOnly == [e \in Envs |-> IF e = "HOM" THEN MCImages ELSE {}]
=============================================================================
