---- MODULE MCMediaRepair ----
(* Instances of MediaRepair for TLC: three chunks, two of them published    *)
(* at once and two asked for at a time.                                     *)
EXTENDS MediaRepair
====
