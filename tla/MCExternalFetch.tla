--------------------------- MODULE MCExternalFetch ---------------------------
(* A file that only fetch() asks for, one that both processes do, and two  *)
(* of a family.                                                            *)
EXTENDS ExternalFetch

CONSTANTS own, common, one, two

MCPinned == <<own, common>>
MCFamily == <<common, one, two>>
=============================================================================
