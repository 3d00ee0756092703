----------------------------- MODULE MCMonitor -----------------------------
(* The constants of module MonitorConsole for TLC: two clients, who with    *)
(* the server thread are one too many for a wait.                           *)
EXTENDS MonitorConsole

CONSTANTS c1, c2

MCConns == {c1, c2}
=============================================================================
