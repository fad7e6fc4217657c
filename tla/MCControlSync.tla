---------------------------- MODULE MCControlSync ----------------------------
(* The registers the server is found with when the client connects: as another *)
(* client left them, the divider out of the range of the box and the           *)
(* modulation at a divider no frequency of the box stands for.                 *)
EXTENDS ControlSync

FoundRegisters == {[div |-> 6, mod |-> 5, demod |-> 1]}

\* As a client of this kind left them.
FoundInRange == {[div |-> 4, mod |-> 6, demod |-> 0]}
=============================================================================
