---------------------------- MODULE MCComponents ----------------------------
(* The components on small instances, of which TLC explores one at a time. *)
EXTENDS Components, TLC

CONSTANTS a1, a2, b1, b2     \* interchangeable, in each component two of its things

\* A published version and two more, two people; two attempts, two clients, two users of a
\* connection that works or of one no client can be built from.
Versions == {seeded, a1, a2}
People == {b1, b2}
Two == {a1, a2}

\* Two syncs of two articles, edited twice in two units of time, on one page.
Syncs == {b1, b2}

\* A token that only reads is asked for, and one that does more; a person with one role that
\* is given and taken has one request at a time.
TokensAskedFor == {{"audit.read"}, {"audit.read", "policy.manage"}}

\* One tenant, three calls, one of which a rule of the second policy raises; night hours,
\* and hours that say nothing; days of three minutes and weeks of two days.
nightly == [level |-> 3, sop |-> [hash |-> 1, level |-> 3], raise |-> {}, automatic |-> {"host"},
            freeze |-> {}, hours |-> {[days |-> {0}, start |-> 2, end |-> 1]},
            rate |-> [max |-> 1, minutes |-> 2], ttl |-> 2, within |-> 2]
frozen == [nightly EXCEPT !.raise = {"db"}, !.automatic = {"host", "db"}, !.hours = {},
                          !.freeze = {[start |-> 1, end |-> 3]}, !.within = 1]
invalid == [frozen EXCEPT !.freeze = {[start |-> 2, end |-> 2]}]
wants(targets) == [tier |-> 1, targets |-> targets, hash |-> 1, permitted |-> TRUE]
Writes == Two \cup {"failover"}
Wants == [a \in Writes |-> IF a \in Two THEN wants({"host"}) ELSE wants({"host", "db"})]
Submitted == {nightly, frozen, invalid}
Stored == {nightly, invalid}

\* A read, a write, another write on its grant, and a test of settings that lie outside.
Calls4 == {"read", "write", "again", "probe"}
signed(what, tier, from, grant, expires) ==
    [kind |-> what, tier |-> tier, target |-> "host", settings |-> from, grant |-> grant,
     expires |-> expires, of |-> "x"]
Signed ==
    [read |-> signed("read", 0, "a", none, 3),
     write |-> signed("write", 1, "b", "g", 2),
     again |-> signed("write", 1, "b", "g", 4),
     probe |-> signed("test", 0, "out", none, 3)]
OneGrant == [g |-> [for |-> "x", expires |-> 3]]

\* Every combination of settings with embedded workers.
AllSettings ==
    [demo: BOOLEAN, off: BOOLEAN, mocks: BOOLEAN, live: {FALSE}, embedded: {TRUE},
     secret: {"none", "short", "long"}, sign_in: BOOLEAN, loopback: BOOLEAN,
     database: {"none", "sqlite", "postgres"}, role: {"application", "owner"},
     runner: {"unsigned", "signed"}]

\* Two SOPs that fit well, in part or hardly; two values that may be located, of which one
\* parameter may have either and another one, and a constant.
Fittings ==
    {[keywords |-> 3, hits |-> 2, title |-> 0, titled |-> TRUE, same |-> {"ci"}, other |-> {}],
     [keywords |-> 2, hits |-> 1, title |-> 6, titled |-> TRUE, same |-> {}, other |-> {}],
     [keywords |-> 0, hits |-> 0, title |-> 6, titled |-> TRUE, same |-> {}, other |-> {"category"}],
     [keywords |-> 0, hits |-> 0, title |-> 0, titled |-> FALSE, same |-> {}, other |-> {}]}
extracted == [kind |-> "extraction", advisor |-> TRUE, value |-> none]
Sources == [host |-> extracted, queue |-> extracted,
            zone |-> [kind |-> "constant", advisor |-> FALSE, value |-> "eu"]]
Declared == [host |-> {"db1", "db2"}, queue |-> {"db2"}, zone |-> {"eu"}]

\* A list and, in the context, a number and a boolean.
zero == [type |-> "number", is |-> 0]
one == [type |-> "number", is |-> 1]
Lists == {[type |-> "list", is |-> {one}]}
Looks == {zero, [type |-> "boolean", is |-> 1]}

\* Two addresses and a secret.
Recognisable == [ada |-> "EMAIL", bob |-> "EMAIL", key |-> "SECRET"]

\* A table and the log.
TableAndLog == <<"sops", "audit_events">>

Symmetry == Permutations(Two) \cup Permutations(People)
=============================================================================
