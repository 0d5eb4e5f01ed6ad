------------------------------ MODULE MCContentBus -----------------------------
(* ContentBus for TLC, with channels that one event fills under a transport *)
(* that Close stops, and channels that hold two under one that it leaves    *)
(* running.  All four together take TLC too long, and Close looks at no     *)
(* buffer.                                                                  *)
EXTENDS ContentBus

BusInit == Init /\ (channelBuffer > 1 <=> ~stops)

BusSpec == BusInit /\ [][Next]_vars /\ Fairness
================================================================================
