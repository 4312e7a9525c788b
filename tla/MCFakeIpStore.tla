--------------------------- MODULE MCFakeIpStore ---------------------------
(***************************************************************************)
(* FakeIpStore on a small instance.  The IPv4 range has eight addresses,   *)
(* four of them allocatable; the IPv6 range four, with one allocatable, so *)
(* that two domains exhaust it.  The IPv6 range ends the address space.    *)
(***************************************************************************)
EXTENDS FakeIpStore, TLC

MCNet == "v4" :> 8 @@ "v6" :> 4
MCTop == "v4" :> 15 @@ "v6" :> 7
MCMaxAddr == "v4" :> 31 @@ "v6" :> 7

\* Three requests for two domains, one domain in two spellings; one request asks
\* for a record type that is not faked, one for both families.
MCNormal == "a." :> "a" @@ "A" :> "a" @@ "b" :> "b"
Query(f, n) == [family |-> f, name |-> n]
MCRequests ==
  {<<Query("v4", "a.")>>,
   <<Query("other", "A"), Query("v6", "A")>>,
   <<Query("v4", "b"), Query("v6", "b")>>}

TaskSymmetry == Permutations(Tasks)
=============================================================================
