---------------------------- MODULE MCForwarding ----------------------------
(* Two modems with a host each; the second is kept off the network.         *)
EXTENDS Forwarding

MCHosts == {"h1", "h2"}
MCModems == {"m1", "m2"}
MCBehind == [h \in MCHosts |-> IF h = "h1" THEN "m1" ELSE "m2"]
MCNames == MCHosts \union MCModems \union {"cable", "nsi", "server"}
MCOnLink == [n \in MCNames |->
    CASE n \in MCHosts -> MCHosts \union {"cable"}
      [] n \in MCModems -> MCModems \union {"cable"}
      [] n = "cable" -> MCHosts \union MCModems \union {"cable"}
      [] OTHER -> {"nsi", "server"}]
MCGateway == [n \in MCNames |->
    CASE n \in MCHosts \union MCModems -> "cable"
      [] n = "server" -> "nsi"
      [] OTHER -> "server"]
MCAccess == [m \in MCModems |-> m = "m1"]
MCMaxCpe == [m \in MCModems |-> 1]
MCBridgeLimit == [m \in MCModems |-> 4]
MCTargets == [h \in MCHosts |->
    IF h = "h1" THEN <<{"server"}, {"nsi", "m2"}>> ELSE <<{"nsi"}>>]
=============================================================================
