------------------------------ MODULE UnitPromotion ------------------------------
(***************************************************************************)
(* What a batch promises about the stable tags, without phases, members in *)
(* hand or lost answers: runs are offered to whole units, all of them at   *)
(* once and soaked; a tag moves to the run its unit was offered; and a     *)
(* unit counts as promoted once every tag of it was moved and seen there.  *)
(***************************************************************************)
EXTENDS Naturals

CONSTANTS
    Frameworks,
    UnitOf,      \* UnitOf[f]: the unit of framework f
    Runs         \* the build runs, from 1

VARIABLES
    soaked,      \* runs up to this one have soaked
    tag,         \* tag[f]: the run its stable tag points at, 0 for none
    offer,       \* offer[u]: the run this batch offers to unit u, 0 for none
    written,     \* the tags this batch moved
    confirmed,   \* those it saw at what was offered
    counted      \* the frameworks it promoted

promotionVars == <<soaked, tag, offer, written, confirmed, counted>>

Units == {UnitOf[f] : f \in Frameworks}
Members(u) == {f \in Frameworks : UnitOf[f] = u}
Nothing == [u \in Units |-> 0]

Init ==
    /\ soaked = 0 /\ tag = [f \in Frameworks |-> 0]
    /\ offer = Nothing /\ written = {} /\ confirmed = {} /\ counted = {}

Soak ==
    /\ soaked' = soaked + 1
    /\ UNCHANGED <<tag, offer, written, confirmed, counted>>

\* The only time a batch offers anything: nothing is moved before.
Offer ==
    /\ offer = Nothing /\ written = {}
    /\ offer' \in [Units -> 0..soaked]
    /\ UNCHANGED <<soaked, tag, written, confirmed, counted>>

Write(f) ==
    /\ offer[UnitOf[f]] # 0
    /\ tag' = [tag EXCEPT ![f] = offer[UnitOf[f]]]
    /\ written' = written \cup {f}
    /\ UNCHANGED <<soaked, offer, confirmed, counted>>

Confirm(f) ==
    /\ offer[UnitOf[f]] # 0 /\ tag[f] = offer[UnitOf[f]]
    /\ confirmed' = confirmed \cup {f}
    /\ UNCHANGED <<soaked, tag, offer, written, counted>>

\* All of a unit or nothing.
Count(u) ==
    /\ Members(u) \subseteq written \cap confirmed
    /\ counted' = counted \cup Members(u)
    /\ UNCHANGED <<soaked, tag, offer, written, confirmed>>

\* The next batch starts from nothing, and leaves the tags as they are.
NewBatch ==
    /\ offer' = Nothing /\ written' = {} /\ confirmed' = {} /\ counted' = {}
    /\ UNCHANGED <<soaked, tag>>

\* An administrator moves a tag.
Move(f) ==
    /\ \E k \in Runs : tag' = [tag EXCEPT ![f] = k]
    /\ UNCHANGED <<soaked, offer, written, confirmed, counted>>

Next ==
    \/ Soak \/ Offer \/ NewBatch
    \/ \E f \in Frameworks : Write(f) \/ Confirm(f) \/ Move(f)
    \/ \E u \in Units : Count(u)

Spec == Init /\ [][Next]_promotionVars
================================================================================
