---------------------------- MODULE MCRuleEngine ----------------------------
(***************************************************************************)
(* Rule sets of up to MaxRules rules out of a pool in which the matchers   *)
(* overlap, and the URLs on both sides of each of their boundaries.        *)
(***************************************************************************)
EXTENDS RuleEngine, SequencesExt

CONSTANT MaxRules

\* Labels from the right: "com", "a.com", "b.a.com", "ba.com".
Com == <<"com">>
ACom == <<"com", "a">>
BACom == <<"com", "a", "b">>
BaCom == <<"com", "ba">>

Root == <<"/">>
Dir == <<"/", "x", "/">>
File == <<"/", "x">>
Below == <<"/", "x", "/", "y">>
Beside == <<"/", "x", "y">>

V4(bits) == [family |-> "v4", bits |-> bits]
V6(bits) == [family |-> "v6", bits |-> bits]

MCAddresses == {V4(<<>>), V4(<<0>>), V4(<<0, 1>>), V4(<<1, 1>>), V6(<<0, 1>>)}

Named(labels, dot) == [labels |-> labels, dot |-> dot, ip |-> None]
Literal(ip) == [labels |-> <<"literal">>, dot |-> FALSE, ip |-> ip]

At(host, port, path) ==
    [scheme |-> "https", host |-> host, port |-> port, path |-> path, query |-> None]

MCUrls ==
    {At(Named(ACom, FALSE), 443, p) : p \in {Root, File, Dir, Below, Beside}}
    \cup {At(Named(h, FALSE), 443, Below) : h \in {BACom, BaCom, Com}}
    \cup {At(Named(ACom, TRUE), 443, File), At(Named(ACom, FALSE), 80, File),
          [At(Named(ACom, FALSE), 443, File) EXCEPT !.query = "q"]}
    \cup {At(Literal(ip), 443, Root) : ip \in {V4(<<0, 1>>), V4(<<1, 1>>), V6(<<0, 1>>)}}

Unrestricted == [scheme |-> None, port |-> None, path_prefix |-> None]

R(matcher, action, priority, spread) ==
    [matcher |-> matcher, action |-> action, priority |-> priority, spread |-> spread]

UrlMatch(kind, path) == [kind |-> kind, origin |-> At(Named(ACom, FALSE), 443, path)]
HostMatch(hosts, common) == [kind |-> "hosts", hosts |-> hosts, common |-> common]
SuffixMatch(suffix) == [kind |-> "suffix", suffix |-> suffix, common |-> Unrestricted]

Pool ==
    {R(UrlMatch("exact", File), "reject", 1, FALSE),
     R(UrlMatch("prefix", File), "mirror", 1, TRUE),
     R(UrlMatch("prefix", Dir), "mirror", 2, FALSE),
     R(UrlMatch("prefix", Root), "direct", 0, FALSE),
     R(HostMatch({ACom, BaCom}, [Unrestricted EXCEPT !.path_prefix = Dir]), "plugin", 2, TRUE),
     R(HostMatch({ACom}, [Unrestricted EXCEPT !.port = 80]), "respond", 1, FALSE),
     R(SuffixMatch(ACom), "mirror", 1, TRUE),
     R(SuffixMatch(BACom), "direct", 0, TRUE),
     R(SuffixMatch(Com), "reject", 0, FALSE),
     R([kind |-> "ip", ip |-> V4(<<0, 1>>), common |-> Unrestricted], "reject", 1, FALSE),
     R([kind |-> "cidr", net |-> V4(<<0>>), common |-> Unrestricted], "mirror", 2, TRUE),
     R([kind |-> "cidr", net |-> V4(<<>>), common |-> Unrestricted], "direct", 0, FALSE)}

MCRuleSets == BoundedSeq(Pool, MaxRules)

\* Every rule set is tried as the first one; what a reload brings replaces it
\* whole, so that a few stand for all.
MCReloads == BoundedSeq({r \in Pool : r.action = "direct"}, 1)
=============================================================================
