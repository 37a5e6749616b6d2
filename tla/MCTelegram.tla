------------------------------ MODULE MCTelegram ------------------------------
(***************************************************************************)
(* Instances of TelegramDelivery for TLC.                                  *)
(***************************************************************************)
EXTENDS TelegramDelivery, TLC

\* Disks differ only in identity.
Disks == Permutations(Serials)
=============================================================================
