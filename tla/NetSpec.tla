------------------------------ MODULE NetSpec ------------------------------
(***************************************************************************)
(* What a commit-confirmed network change promises an admin. A change is   *)
(* tried, made final, then confirmed; until it is confirmed it returns to  *)
(* the configuration that was on file when it was tried. Each of these     *)
(* happens at once, to the host and to the record on file together,        *)
(* although the code runs a helper, takes its time and races other admins  *)
(* and timers. NetworkChange is shown to implement this.                   *)
(***************************************************************************)
CONSTANTS
    Confs,       \* configurations of the host
    Nil,
    Dependable   \* the root helper and the saves do what is asked, the server stays up

VARIABLES
    saved,     \* the configuration on file
    running,   \* the one the host runs
    agreed,    \* the last one that an admin confirmed from the new address
    stage,     \* how far the change under way is
    back,      \* what it returns to, or Nil
    offer,     \* what it asks for, or Nil
    stacked    \* a change was tried on top of another since the last confirmation

vars == <<saved, running, agreed, stage, back, offer, stacked>>

AInit ==
    /\ saved \in Confs
    /\ running = saved
    /\ agreed = saved
    /\ stage = "none"
    /\ back = Nil
    /\ offer = Nil
    /\ stacked = FALSE

\* A change begins with a transitional configuration, and takes the place of another.
Try ==
    /\ saved' \in Confs
    /\ running' = saved'
    /\ offer' \in Confs
    /\ back' = saved
    /\ stage' = "dual"
    /\ stacked' = (stacked \/ stage # "none")
    /\ UNCHANGED agreed

Finalize ==
    /\ stage = "dual"
    /\ saved' = offer
    /\ running' = offer
    /\ stage' = "finalizing"
    /\ UNCHANGED <<agreed, back, offer, stacked>>

Over == stage' = "none" /\ back' = Nil /\ offer' = Nil

Confirm ==
    /\ stage = "finalizing"
    /\ agreed' = offer
    /\ stacked' = FALSE
    /\ Over
    /\ UNCHANGED <<saved, running>>

\* Nobody looks whether the helper managed to put the old configuration back.
Return ==
    /\ stage # "none"
    /\ saved' = back
    /\ running' \in IF Dependable THEN {back} ELSE Confs
    /\ Over
    /\ UNCHANGED <<agreed, stacked>>

\* A server that restarts forgets the change, and the host keeps what it has.
Forget ==
    /\ ~Dependable
    /\ Over
    /\ running' \in Confs
    /\ UNCHANGED <<saved, agreed, stacked>>

\* A helper or a save that fails may leave the host with something else than what is
\* on file.
Falter ==
    /\ ~Dependable
    /\ running' \in Confs
    /\ UNCHANGED <<saved, agreed, stage, back, offer, stacked>>

ANext == Try \/ Finalize \/ Confirm \/ Return \/ Forget \/ Falter

ASpec == AInit /\ [][ANext]_vars
=============================================================================
