------------------------ MODULE MCTransparentRuntime ------------------------
EXTENDS TransparentRuntime, TLC

\* Two of the five captures and two of the five core tasks, in the code's order.
MCCaptures == <<"windivert-TcpRequestRedirect", "windivert-TcpProxyResponse">>
MCCoreTasks == <<"tun-smoltcp-runner", "tun-smoltcp-tcp">>
MCNames == {TlsListener, NatCleanup} \cup Range(MCCaptures) \cup Range(MCCoreTasks)

\* A client for either host, one that verifies ECDSA only and one without SNI.
MCHellos == {[host |-> "a.test", schemes |-> {"rsa", "ecdsa"}],
             [host |-> "b.test", schemes |-> {"ecdsa"}],
             [host |-> None, schemes |-> {"rsa"}]}
=============================================================================
