--------------------------- MODULE MC_OrderGateway ---------------------------
(* OrderGateway for TLC: client 1 sends two requests, so both can share    *)
(* one read and one timestamp; client 2 sends one, which can be read       *)
(* before, between or after them.                                          *)
EXTENDS OrderGateway

MC_MaxReqs == <<2, 1>>
MC_MaxReqs_Stranded == <<1>>
=============================================================================
