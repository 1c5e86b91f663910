----------------------------- MODULE LedArbiter -----------------------------
(***************************************************************************)
(* What liblight/lights.c promises about the shared LED, without locks or  *)
(* sysfs: three users of increasing importance each want a configuration,  *)
(* and the LED shows the one of the most important user that is lit.       *)
(* The LED may go through an Updating phase, never through a mixture.      *)
(***************************************************************************)
EXTENDS Integers

CONSTANTS Configs,      \* configurations a user can ask for
          Off,          \* the dark configuration
          Updating,     \* the LED is being reprogrammed
          Lit(_)        \* whether a configuration is lit

VARIABLES want, panel
vars == <<want, panel>>

Best ==
    IF \E i \in 0..2 : Lit(want[i])
    THEN want[CHOOSE i \in 0..2 : Lit(want[i]) /\ \A j \in (i + 1)..2 : ~Lit(want[j])]
    ELSE Off

Init == want = [i \in 0..2 |-> Off] /\ panel = Off

(* A new request is accepted only when the LED is up to date. *)
Request ==
    /\ panel = Best
    /\ \E i \in 0..2, c \in Configs : want' = [want EXCEPT ![i] = c]
    /\ UNCHANGED panel

Blank == panel # Updating /\ panel' = Updating /\ UNCHANGED want
Show == panel = Updating /\ panel' = Best /\ UNCHANGED want

Next == Request \/ Blank \/ Show

Spec == Init /\ [][Next]_vars

(* An out-of-date LED is brought up to date. *)
FairSpec == Spec /\ WF_vars(panel # Best /\ (Blank \/ Show))
=============================================================================
