---- MODULE MCRelayWorker ----
(* Small instances of RelayWorker. *)
EXTENDS RelayWorker

CONSTANTS e1, e2, e3, r1, r2, user

\* e3 is another spelling of e1.
TheKey == [e \in Endpoints |-> IF e = e2 THEN r2 ELSE r1]
Edited == {<<e1, e2>>, <<e2, e3>>}
Both == {<<e1, e2>>}
====
