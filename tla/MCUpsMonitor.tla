----------------------------- MODULE MCUpsMonitor -----------------------------
(* A small instance of UpsMonitor for TLC: one place for clients.          *)
EXTENDS UpsMonitor

CONSTANTS place

OnePlace == {place}
LineAndBattery == {"OL", "OB"}

=============================================================================
