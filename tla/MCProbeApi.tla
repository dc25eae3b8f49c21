---------------------------- MODULE MCProbeApi -----------------------------
(* Model values for ProbeApi.                                              *)
EXTENDS ProbeApi

CONSTANTS m1, m2
============================================================================
