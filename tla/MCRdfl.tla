------------------------------- MODULE MCRdfl -------------------------------
(***************************************************************************)
(* Instances of Rdfl, and of its refinement of ByteFifo, for TLC.          *)
(***************************************************************************)
EXTENDS RdflFifo

ManagedDescriptors == {{}, {"AUTOCLOSE"}, {"LOCAL_OPEN"}, {"LOCAL_OPEN", "AUTOCLOSE"}}
BufferPolicies == {{}, {"FULLEMPTY"}, {"ADJUST_BUFFSIZE"}}

=============================================================================
