---------------------------- MODULE MCBurstSizing ---------------------------
(* Frames about the limits of the profiles on the default channel: 3.2 MHz, *)
(* mini-slots of four ticks, 64-QAM for DOCSIS 2.0.                         *)
EXTENDS BurstSizing

=============================================================================
