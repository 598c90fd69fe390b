------------------------ MODULE MCProvisioningServer ------------------------
(***************************************************************************)
(* Values for TLC: a file with a short last block, one that fills its      *)
(* blocks, one the server does not have, and one that was changed.         *)
(***************************************************************************)
EXTENDS ProvisioningServer

MCFiles ==
    {[size |-> 3, served |-> TRUE, intact |-> TRUE],
     [size |-> 2, served |-> TRUE, intact |-> TRUE],
     [size |-> 1, served |-> FALSE, intact |-> TRUE],
     [size |-> 1, served |-> TRUE, intact |-> FALSE]}
=============================================================================
