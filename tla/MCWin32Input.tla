------------------------------ MODULE MCWin32Input ------------------------------
(***************************************************************************)
(* The two filters of text on Windows: what is typed, and the output of    *)
(* ConPTY. They share nothing, so that each is followed with the other at  *)
(* rest.                                                                   *)
(***************************************************************************)
EXTENDS Win32Input, ResizeReports

MCInit == DecoderInit /\ OutputInit

MCNext ==
    \/ wrote = <<>> /\ DecoderNext /\ UNCHANGED outputVars
    \/ received = <<>> /\ OutputNext /\ UNCHANGED decoderVars

MCSpec == MCInit /\ [][MCNext]_<<decoderVars, outputVars>>
=============================================================================
