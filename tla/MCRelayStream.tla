---------------------------- MODULE MCRelayStream ----------------------------
(* RelayStream on small sets of forwarders and subscribers.                *)
EXTENDS RelayStream, TLC

\* Forwarder executions are interchangeable, and so are subscribers (used by
\* the runs that check no temporal property).
Symmetry == Permutations(Conns) \cup Permutations(Subs)
=============================================================================
