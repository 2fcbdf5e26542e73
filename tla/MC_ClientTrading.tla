--------------------------- MODULE MC_ClientTrading ---------------------------
(* ClientTrading with a negative loss limit, which a .cfg cannot write.     *)
EXTENDS ClientTrading

MC_LossMax == -10
=============================================================================
