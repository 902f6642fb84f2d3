--------------------------- MODULE MCDesktopSession ---------------------------
(* Instances of DesktopSession: two process handles, so that an old process  *)
(* and a new one are told apart, one control request.                        *)
EXTENDS DesktopSession, TLC
=============================================================================
