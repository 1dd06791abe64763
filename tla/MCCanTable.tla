----------------------------- MODULE MCCanTable -----------------------------
(* Instance of CanTable for TLC: a broadcast identifier and an ECU's that      *)
(* differ in one bit; an exact subscription written with bits that take no     *)
(* part in matching, a group over both, and its twin (same mask, same matches, *)
(* another pair), in a table of two slots.                                     *)
EXTENDS CanTable

MCBus   == {{1}}
MCObd   == {{1, 2}}
MCBits  == {1, 2}
MCEvery == [i \in MCBus |-> Cardinality(i)]
MCNamed == {[id |-> {1, 31}, mask |-> {1, 2, 30}], [id |-> {1}, mask |-> {1}],
            [id |-> {1, 2}, mask |-> {1}]}
MCRules == {[mode |-> "every_frame", arg |-> 2], [mode |-> "periodic", arg |-> 2]}
=============================================================================
