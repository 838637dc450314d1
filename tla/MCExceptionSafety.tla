------------------------- MODULE MCExceptionSafety -------------------------
(* Small instances of ExceptionSafety for TLC.                             *)
EXTENDS ExceptionSafety
=============================================================================
