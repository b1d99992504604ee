-------------------------- MODULE MCWebsocketProxy --------------------------
EXTENDS WebsocketProxy, Authentication

CONSTANTS a1, a2, x1, x2, x3, k1, k2, k3

\* Every request comes through a load balancer that appends a2.
OneHeader == {<<a1, a2>>}

\* What the proxy is started with: two applications of one connection each.
api_keys == try_from(<<<<x1, k1, 1>>, <<x2, k2, 1>>>>)
Applications == {get_application_for_key(api_keys, k, NoApp) : k \in {k1, k2, k3}} \ {NoApp}
Limits == get_rate_limits(api_keys)

\* Well-formed arguments, and one of every malformed kind.
SomeArguments ==
    {<<x, k, 1>> : x \in {x1, x2, x3}, k \in {k1, k2, k3}} \cup
    {<<Empty>>, <<x1>>, <<x1, Empty>>, <<x1, k1>>, <<x1, k1, Empty>>, <<x1, k1, 1, 1>>,
     <<x1, k1, Garbage>>, <<Empty, k1, 1>>, <<x1, Empty, 1>>}

\* The proxy starts with exactly the applications, keys and limits of its
\* arguments, and does not start when they are malformed or when two of them
\* share an application or a key: otherwise a key would admit its holder under
\* the limit of another application.  Start-up is the initial state, and the
\* arguments are every list of up to three.
KeysAreUnambiguous ==
    Init => \A args \in UNION {[1 .. n -> Arguments] : n \in 0 .. 3} : ParsedAsGiven(args)
=============================================================================
