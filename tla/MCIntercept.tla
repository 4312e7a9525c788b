----------------------------- MODULE MCIntercept -----------------------------
(***************************************************************************)
(* Intercept with one client port, one DNS server and an IPv6 range with a *)
(* single allocatable address, which two domains take in turns.  The TTLs  *)
(* keep the order of the program's defaults: the NAT table's closing TTL   *)
(* (30 s) is below the record TTL (60 s), which is below the NAT table's   *)
(* TTL for established connections (300 s).                                *)
(***************************************************************************)
EXTENDS Intercept, TLC

MCNet == "v6" :> 4
MCTop == "v6" :> 7
MCMaxAddr == "v6" :> 15
MCNormal == "a" :> "a" @@ "b" :> "b"
MCFamilyOf == [c \in Clients |-> "v6"]
MCRequests == {<<[family |-> "v6", name |-> n]>> : n \in Names}
=============================================================================
