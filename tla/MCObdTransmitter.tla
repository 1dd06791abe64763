-------------------------- MODULE MCObdTransmitter --------------------------
(* Values of the constants of ObdTransmitter for TLC: a car whose two ECUs     *)
(* share a PID, and the poll sets a client installs on it.                     *)
EXTENDS ObdTransmitter

TwoEcus == [engine |-> {1, 2}, gearbox |-> {2, 3}]
Entry(g, m) == [group |-> g, min |-> m]

Fast  == [ms |-> 0, list |-> <<Entry(<<2, 3>>, 0), Entry(<<1>>, 0)>>]
Slow  == [ms |-> 2, list |-> <<Entry(<<1>>, 0), Entry(<<3>>, 7), Entry(<<1>>, 0)>>]
FastAndSlow == {Fast, Slow}
Minimum == {[ms |-> 0, list |-> <<Entry(<<1>>, 0), Entry(<<2, 3>>, 3)>>]}
=============================================================================
