--------------------------- MODULE MCExternalStop ---------------------------
(* An instance of ExternalStop for TLC. *)
EXTENDS ExternalStop

\* Programs that neither load other programs nor raise an exception.
PlainKinds == {"Continue", "Halt", "Exit", "Error", "Yield"}
=============================================================================
