-------------------------- MODULE MCWatcherEngine --------------------------
(* Instances of WatcherEngine for TLC: two instruments.                    *)
EXTENDS WatcherEngine

CONSTANTS gold, euro

GoldEuro == <<gold, euro>>
=============================================================================
