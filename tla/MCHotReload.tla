----------------------------- MODULE MCHotReload -----------------------------
(* HotReload on a handful of configurations.                               *)
EXTENDS HotReload

WinDivert(dns) == [kind |-> "windivert", stack |-> "smoltcp", dns |-> dns]
Tun(stack, dns) == [kind |-> "tun", stack |-> stack, dns |-> dns]

Config(listen, tls, backend, plugins, rules) ==
  [listen |-> listen, tls_port |-> tls, backend |-> backend, plugins |-> plugins,
   rules |-> rules]

Base == Config(10, None, WinDivert("d1"), "p1", "r1")

\* Another backend and another port: the new HTTP port is Base's TLS port.
Shifted == Config(11, None, Tun("smoltcp", "d1"), "p1", "r2")

\* Every component changes but the TLS listener: 11 is also Base's default.
Moved == Config(20, 11, WinDivert("d2"), "p2", "r2")

\* The backend kind changes and nothing else.
Smoltcp == Config(10, None, Tun("smoltcp", "d1"), "p1", "r1")

MixedConfigs == {Base, Shifted, Moved}
PortConfigs == {Smoltcp, Shifted}
KindConfigs == {Base, Smoltcp}
=============================================================================
