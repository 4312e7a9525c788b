-------------------------- MODULE MCUpstreamExecutor --------------------------
(***************************************************************************)
(* UpstreamExecutor with plans for one URL that differ in one thing each.  *)
(***************************************************************************)
EXTENDS UpstreamExecutor, TLC

CONSTANTS sys1, sys2, udp1, udp2   \* addresses

Url == [scheme |-> "https", host |-> "origin", port |-> None]
Base == [url |-> Url, host |-> None, connect_host |-> None, connect_ip |-> None,
         sni |-> None, dns |-> None]

MCPlans ==
  {[Base EXCEPT !.dns = [mode |-> "system", server |-> None]],
   [Base EXCEPT !.dns = [mode |-> "udp", server |-> "s"]],
   [Base EXCEPT !.connect_ip = "fixed"]}

\* The DNS server s gives other addresses than the system's resolver.
MCAnswers ==
  [k \in Keys |-> IF k[1] = SystemResolver THEN {sys1, sys2} ELSE {udp1, udp2}]

Symmetry ==
  Permutations(Requests) \cup Permutations({sys1, sys2}) \cup Permutations({udp1, udp2})
=============================================================================
