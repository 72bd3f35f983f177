---------------------------- MODULE CommitRegister -----------------------------
(***************************************************************************)
(* What the custody promises to the archivers of a release, without keys,  *)
(* versions, read-backs or partial calls: one register that is written at  *)
(* most once, with a record fit to stand for the release, and answers that *)
(* agree with it.                                                          *)
(***************************************************************************)
CONSTANTS
    Archivers,
    Records,
    Fit         \* the records commit_record may write

VARIABLES
    committed,  \* {r}, or {} while there is no commit record
    asked,      \* asked[a]: {r} once archiver a has frozen r
    told,       \* told[a]: the answer to the last attempt of a
    claims      \* the archivers that may be told CREATED

registerVars == <<committed, asked, told, claims>>

Init ==
    /\ committed = {}
    /\ asked = [a \in Archivers |-> {}]
    /\ told = [a \in Archivers |-> "none"]
    /\ claims = {}

\* There are infinitely many records, so r is named by the new value.
Freeze(a) ==
    /\ asked[a] = {}
    /\ \E r \in asked'[a] : r \in Records /\ asked' = [asked EXCEPT ![a] = {r}]
    /\ UNCHANGED <<committed, told, claims>>

\* A new attempt, or the end of a process, with or without what it asked for.
Restart(a) ==
    /\ told' = [told EXCEPT ![a] = "none"]
    /\ asked' \in {asked, [asked EXCEPT ![a] = {}]}
    /\ claims' \in {claims, claims \ {a}}
    /\ UNCHANGED committed

\* The record takes effect at once.  Only then is there a claim, and one that
\* is lost with the response is given to nobody else.
Commit(a) ==
    /\ committed = {}
    /\ asked[a] # {} /\ asked[a] \subseteq Fit
    /\ committed' = asked[a]
    /\ claims' \in {{}, {a}}
    /\ told' \in {told, [told EXCEPT ![a] = "ERROR"]}
    /\ UNCHANGED asked

\* Another tool takes the register.
Take ==
    /\ committed = {}
    /\ \E r \in committed' : r \in Records /\ committed' = {r}
    /\ UNCHANGED <<asked, told, claims>>

\* The answers agree with the register, now and for good; an ERROR says nothing.
Answer(a, t) ==
    /\ asked[a] # {}
    /\ t = "CREATED" => a \in claims
    /\ t \in {"CREATED", "ALREADY_PRESENT_IDENTICAL"} => committed = asked[a] /\ committed \subseteq Fit
    /\ t = "CONFLICT" => committed # {} /\ committed # asked[a]
    /\ told' = [told EXCEPT ![a] = t]
    /\ claims' \in {claims, claims \ {a}}
    /\ UNCHANGED <<committed, asked>>

Next ==
    \/ \E a \in Archivers :
        \/ Freeze(a) \/ Restart(a) \/ Commit(a)
        \/ \E t \in {"CREATED", "ALREADY_PRESENT_IDENTICAL", "CONFLICT", "ERROR"} : Answer(a, t)
    \/ Take

Spec == Init /\ [][Next]_registerVars
================================================================================
