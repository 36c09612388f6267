-------------------------- MODULE MCSiteResolution --------------------------
(* Two requests, two keys of the gateway, and three sites.                 *)
EXTENDS SiteResolution

\* In time at the start; issued later; forged; longer lived than allowed.
MCTokens ==
    {[kid |-> k, signed |-> TRUE, iat |-> 0, exp |-> 2] : k \in Kids}
        \cup {[kid |-> FirstKey, signed |-> TRUE, iat |-> 3, exp |-> 5],
              [kid |-> FirstKey, signed |-> FALSE, iat |-> 0, exp |-> 2]}

\* Behind the gateway the catalog has the configured site only; the other
\* transports, which need no key, start with any catalog and see it change.
MCInit == Init /\ (transport = "gateway" => catalog = <<Configured>>)
MCNext == Next /\ (transport = "gateway" => UNCHANGED controller)
MCSpec == MCInit /\ [][MCNext]_vars /\ Fairness
=============================================================================
