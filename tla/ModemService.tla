---------------------------- MODULE ModemService ----------------------------
(***************************************************************************)
(* What a modem's life looks like to those who depend on it: the stages of *)
(* initialisation come in their order, a modem is in service only once it  *)
(* was configured, and what it was configured for lasts until it starts    *)
(* over.  CableModem, with its timers, frames and races, implements it     *)
(* (its Stage and modem.registered in the place of the two variables).     *)
(***************************************************************************)
VARIABLES
    stage,              \* of initialisation
    configured          \* it was registered since it last started over

vars == <<stage, configured>>

Init == stage = "down" /\ configured = FALSE

(* At any time, and whatever for: power, a timer, an operator, a bad file.  *)
StartOver == stage' = "down" /\ configured' = FALSE

Advance(from, to) == stage = from /\ stage' = to

FindDownstream == Advance("down", "searching") /\ UNCHANGED configured
FindUpstream == Advance("searching", "ranging") /\ UNCHANGED configured
Provision == Advance("ranging", "provisioning") /\ ~configured /\ UNCHANGED configured
Register == Advance("provisioning", "online") /\ ~configured /\ configured' = TRUE
Refuse == Advance("provisioning", "rejected") /\ UNCHANGED configured

(* A rejected modem whose last ranging answer is overdue ranges again.      *)
TryAgain == Advance("rejected", "ranging") /\ UNCHANGED configured

(* An operator moves the modem, which ranges and is in service as before.   *)
Move == Advance("online", "ranging") /\ UNCHANGED configured
Resume == Advance("ranging", "online") /\ configured /\ UNCHANGED configured

Next ==
    \/ StartOver \/ FindDownstream \/ FindUpstream
    \/ Provision \/ Register \/ Refuse \/ TryAgain
    \/ Move \/ Resume

Spec == Init /\ [][Next]_vars
=============================================================================
