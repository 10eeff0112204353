-------------------------- MODULE MCTelegramIntake --------------------------
(* Instances of TelegramIntake for TLC: one channel, a few messages.       *)
EXTENDS TelegramIntake
=============================================================================
