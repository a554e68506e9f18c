-------------------------- MODULE InstalledRelease -------------------------
(***************************************************************************)
(* What the update manager promises about the release an installation     *)
(* says it runs: an update only ever goes above every version it has had, *)
(* and the way back leads only to a version it has had.  The promise is    *)
(* kept by the record: when that is lost, the installation is as new.      *)
(***************************************************************************)
EXTENDS Naturals

CONSTANT Base        \* the version the program itself has

VARIABLES
    installed,       \* installedVersion
    highest,         \* highestEverInstalled
    ever             \* every version that was the installed one, as far as is known

vars == <<installed, highest, ever>>

Init == installed = Base /\ highest = Base /\ ever = {Base}

Install ==
    /\ installed' > highest
    /\ highest' = installed'
    /\ ever' = ever \cup {installed'}

\* A release that was left again before it was written down counts as installed.
Return ==
    /\ installed' \in ever
    /\ highest' >= highest
    /\ ever' = ever

\* The record is lost: a version below one that was installed can be installed again.
Forget ==
    /\ installed' = Base
    /\ highest' = Base
    /\ ever' = {Base}

Next == Install \/ Return \/ Forget

Spec == Init /\ [][Next]_vars
=============================================================================
