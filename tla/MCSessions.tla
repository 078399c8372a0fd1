----------------------------- MODULE MCSessions -----------------------------
(* Instances of Sessions for TLC.                                          *)
EXTENDS Sessions

CONSTANTS ann

ResetOnly == {"invite", "reset"}
=============================================================================
