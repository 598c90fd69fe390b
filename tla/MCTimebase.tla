----------------------------- MODULE MCTimebase -----------------------------
(* A small instance of Timebase for TLC.                                    *)
EXTENDS Timebase

MCDelays == {12, 30}
=============================================================================
