---------------------------- MODULE MCAuditShipper ----------------------------
(* Instances of the shipper: three entries, two milliseconds, pages of two. *)
EXTENDS AuditShipper

CONSTANTS w1, w2
===============================================================================
