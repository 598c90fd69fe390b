--------------------------- MODULE MCRegistration ---------------------------
(* Three specifications: one of a flow in each direction, with a rate, a    *)
(* priority and a number of CPEs beyond their fields (the rate beyond the   *)
(* limit, too), one of two, a refused one after one that is not, and        *)
(* settings that the CMTS's digest takes in another order than the file's   *)
(* or not at all.                                                           *)
EXTENDS Registration

CONSTANTS m1, m2

Flow(ref, rate, priority) == [ref |-> ref, rate |-> rate, priority |-> priority]

MCSpecs ==
    [plain |->
        [access |-> TRUE, extra |-> {}, channel |-> <<>>, classifiers |-> <<>>,
         us |-> <<Flow(1, <<1002>>, <<257>>)>>, ds |-> <<Flow(2, <<20>>, <<>>)>>,
         maxCpe |-> <<256>>, privacy |-> FALSE],
     closed |->
        [access |-> FALSE, extra |-> {"CLASS_OF_SERVICE", "SNMP_WRITE_ACCESS", "VENDOR_SPECIFIC"},
         channel |-> <<>>, classifiers |-> <<>>,
         us |-> <<Flow(1, <<>>, <<1>>), Flow(3, <<10>>, <<5>>)>>,
         ds |-> <<Flow(2, <<100>>, <<1>>)>>,
         maxCpe |-> <<>>, privacy |-> TRUE],
     greedy |->
        [access |-> TRUE, extra |-> {"DOWNSTREAM_FREQUENCY"}, channel |-> <<2>>,
         classifiers |-> <<4>>, us |-> <<Flow(1, <<2>>, <<1>>)>>,
         ds |-> <<Flow(2, <<101>>, <<1>>)>>, maxCpe |-> <<1>>, privacy |-> FALSE]]
MCConfigFile == (m1 :> "closed") @@ (m2 :> "greedy")
MCIs20 == (m1 :> TRUE) @@ (m2 :> FALSE)
MCMaxAdmitted == [us |-> 10, ds |-> 100]
=============================================================================
