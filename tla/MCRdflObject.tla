---------------------------- MODULE MCRdflObject ----------------------------
(***************************************************************************)
(* Instances of RdflObject for TLC.                                        *)
(***************************************************************************)
EXTENDS RdflObject

SomeLoads == {{"AUTOCLOSE"}, {"MONITORING"}, {"MONITORING", "FULLEMPTY"}}
MonitoringLoads == {{"MONITORING"}}
SomeTimeouts == {-5, -1, 2500000}
NegativeTimeouts == {-5, -1}

=============================================================================
