--------------------------- MODULE MCRequestFlow ---------------------------
(* One request against three rule sets and four plugin configurations. *)
EXTENDS RequestFlow, TLC

CONSTANT r1

MCHost(l) == [labels |-> l, bracketed |-> FALSE]
V6 == MCHost(<<"::1">>)
Site == MCHost(<<"a", "com">>)

MCUrl(scheme, host, port, path) ==
    [scheme |-> scheme, host |-> host, port |-> port, path |-> path]

\* Paths over the bytes '/', 'x', 'y', '*' and '.', which are 0 to 4.
Page == MCUrl("https", Site, 443, <<0, 1>>)
Deep == MCUrl("https", Site, 443, <<0, 1, 1>>)
Other == MCUrl("http", MCHost(<<"b">>), 80, <<0, 2>>)
Cdn == MCUrl("https", MCHost(<<"m">>), 443, <<0>>)

Inbound(entry, method, absolute, headers) ==
    [entry |-> entry, method |-> method, absolute |-> absolute, path |-> <<0, 1>>,
     host |-> [host |-> Site, port |-> None], tls |-> TRUE, headers |-> headers,
     body |-> "payload"]

Asterisk(entry) == [Inbound(entry, "OPTIONS", None, {}) EXCEPT !.path = <<3>>]

MCInbounds ==
    { Inbound("proxy", "POST", Page, {"content-length", "x"}),
      Inbound("proxy", "POST", Deep, {"content-length", "opaque"}),
      Inbound("proxy", "GET", Other, {}),
      Inbound("proxy", "GET", None, {}),
      Inbound("transparent", "POST", None, {"x"}),
      Inbound("transparent", "CONNECT", None, {}),
      [Inbound("transparent", "GET", None, {}) EXCEPT !.host = None],
      Inbound("transparent", "GET", None, {}) @@ [original_url |-> Other],
      Inbound("transparent", "GET", None, {}) @@ [original_scheme |-> "ftp"],
      Inbound("explicit-https", "POST", None, {}),
      Inbound("explicit-https", "GET", [Page EXCEPT !.port = 8443], {}),
      Inbound("explicit-https", "GET", Page, {}),
      Asterisk("transparent"),
      Asterisk("explicit-https") }

MCBrackets == {V6}

MCTargets == { [host |-> Site, port |-> 443], [host |-> V6, port |-> 443],
               [host |-> Site, port |-> 8443], [host |-> Site, port |-> None] }

MCStreams == { <<22, 3, 1>>, <<22, 9>>, <<22>>, <<71, 69, 84>>, <<>> }

Mirror == [type |-> "mirror", upstream |-> [url |-> Cdn, dns |-> [mode |-> "system"]]]
BadMirror == [type |-> "mirror", upstream |-> [url |-> Cdn, connect_ip |-> 1,
                                               dns |-> [mode |-> "udp", server |-> 1]]]
Direct == [type |-> "direct"]
Reject == [type |-> "reject", status |-> 451]
Plugin == [type |-> "plugin", name |-> "p"]

Urls == {Page, Deep, Other, MCUrl("https", [V6 EXCEPT !.bracketed = TRUE], 443, <<0, 1>>)}

MCRuleSets ==
    { [u \in Urls |-> Plugin],
      [u \in {Page, Other} |-> IF u = Page THEN Mirror ELSE [type |-> "respond", file |-> TRUE]],
      [u \in {Page, Deep} |-> IF u = Page THEN Reject ELSE Direct] }

Definition(enabled, stages, request, response, rules) ==
    [name |-> "p", enabled |-> enabled, stages |-> stages, loads |-> TRUE,
     permissions |-> [on_request |-> request, on_response |-> response], rules |-> rules]

Stages == {"on_load", "on_compile", "on_request", "on_response"}

Program == << [matcher |-> [exact |-> Deep], action |-> Reject],
              [matcher |-> [prefix |-> Page], action |-> Direct],
              [matcher |-> [host_suffix |-> MCHost(<<"", "com">>), scheme |-> "https",
                            path_suffix |-> <<1>>],
               action |-> Mirror] >>

Configured(definitions) == [enabled |-> TRUE, definitions |-> definitions]

MCPluginOptions ==
    { Configured({Definition(TRUE, Stages, TRUE, TRUE, Program)}),
      Configured({Definition(TRUE, {"on_request", "on_response"}, FALSE, FALSE, <<>>)}),
      Configured({Definition(TRUE, {"on_compile", "on_response"}, TRUE, FALSE,
                             <<[matcher |-> [hosts |-> {Site}, path_prefix |-> <<0>>],
                                action |-> Mirror]>>)}),
      Configured({Definition(TRUE, {}, TRUE, TRUE, <<>>)}),
      Configured({Definition(TRUE, {"on_compile"}, TRUE, TRUE,
                             <<[matcher |-> [host |-> Site], action |-> BadMirror]>>)}),
      Configured({Definition(FALSE, Stages, TRUE, TRUE, Program)}),
      [enabled |-> FALSE, definitions |-> {}] }

Header(name, value) == [name |-> name, value |-> value]

MCRequestOutputs ==
    { None,
      [action |-> [type |-> "reject"]],
      [action |-> [type |-> "reject", status |-> 42]],
      [action |-> BadMirror],
      [action |-> Mirror, request |-> [url |-> Other, headers |-> <<Header("x", None)>>]],
      [action |-> Direct, request |-> [method |-> "PUT", body |-> "patch",
                                       headers |-> <<Header("content-length", 1)>>]],
      [request |-> [url |-> Other, headers |-> <<Header("x", 1)>>]],
      [request |-> [headers |-> <<>>, malformed |-> TRUE]] }

MCResponseOutputs ==
    { None,
      [status |-> "patched", headers |-> <<Header("x", 1)>>],
      [body |-> "patch", headers |-> <<Header("content-length", 1)>>],
      [headers |-> <<>>, malformed |-> TRUE] }

MCResponses == { [status |-> "ok", headers |-> {"content-length", "transfer-encoding"},
                  body |-> "reply"] }
=============================================================================
