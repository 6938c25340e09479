-------------------------- MODULE MCAlertAggregator --------------------------
(* Two processes on one Redis list and a standalone one; two or three alerts, *)
(* two of them with the same key; one external channel and the HUD.           *)
EXTENDS AlertAggregator, TLC

CONSTANTS a1, a2, a3, p1, p2, p3, k1, k2, feishu, hud

MCKey == [a \in Alerts |-> IF a = a3 THEN k2 ELSE k1]
MCChannels == <<feishu, hud>>
===============================================================================
