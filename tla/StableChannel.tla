----------------------------- MODULE StableChannel ------------------------------
(***************************************************************************)
(* What the release lifecycle promises to the consumers of a destination,  *)
(* without jobs, records or registries: each unit (a runtime image and its *)
(* dev image, or an image alone) shows one release or is paused.           *)
(***************************************************************************)
EXTENDS Naturals

CONSTANTS
    Releases,
    Units,
    Contents    \* Contents[r]: the units release r ships

VARIABLES
    shown,      \* shown[e][u]: {r}, {0} when nothing was ever released, {} when paused
    passed,     \* passed[e]: the promotions to e that completed
    approved    \* the releases HOM may take

channelVars == <<shown, passed, approved>>

Destinations == {"DEV", "HOM"}
Behind(e, u, r) == \A q \in passed[e] : u \in Contents[q] => q <= r

Init ==
    /\ shown \in [Destinations -> [Units -> {{r} : r \in Releases \cup {0}}]]
    /\ passed \in [Destinations -> SUBSET Releases]
    /\ approved \subseteq Releases
    /\ \A e \in Destinations, u \in Units : \A r \in shown[e][u] : Behind(e, u, r)
    /\ \A u \in Units : shown["HOM"][u] = {0}

\* A promotion, a recovery or a failure takes a unit off.
Pause(e, u) ==
    /\ shown[e][u] # {}
    /\ shown' = [shown EXCEPT ![e][u] = {}]
    /\ UNCHANGED <<passed, approved>>

\* A paused unit comes back with a release that ships it and is not older than
\* any completed promotion; in HOM it is a release DEV approved.
Release(e, u, r) ==
    /\ shown[e][u] = {}
    /\ u \in Contents[r]
    /\ Behind(e, u, r)
    /\ e = "HOM" => r \in approved
    /\ shown' = [shown EXCEPT ![e][u] = {r}]
    /\ \/ UNCHANGED passed
       \/ /\ \A v \in Contents[r] : shown'[e][v] = {r}
          /\ passed' = [passed EXCEPT ![e] = @ \cup {r}]
    /\ UNCHANGED approved

\* HOM may take a release that DEV shows whole.
Approve(r) ==
    /\ \A u \in Contents[r] : shown["DEV"][u] = {r}
    /\ approved' = approved \cup {r}
    /\ UNCHANGED <<shown, passed>>

Next ==
    \/ \E e \in Destinations, u \in Units : Pause(e, u) \/ \E r \in Releases : Release(e, u, r)
    \/ \E r \in Releases : Approve(r)

Spec == Init /\ [][Next]_channelVars
=============================================================================
