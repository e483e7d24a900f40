----------------------------- MODULE MCStartup -----------------------------
EXTENDS Startup

E(adapter, names, fields) == [adapter |-> adapter, names |-> names, fields |-> fields]

\* Named wrongly in one way, in both, and in both behind another mistake.
MCEntries ==
    {E("mock", {"model", "deployment"}, TRUE), E("cohere", {"model"}, TRUE),
     E("azure_openai", {"model"}, TRUE), E("bedrock", {"deployment"}, FALSE)}

MCName == {"a", "b"}
MCMention == MCName \cup {"ghost"}
MCGeometry == {<<4, 2>>, <<5, 2>>, <<2, 4>>}
MCPreferences == {<<>>, <<"a">>, <<"b", "a">>, <<"a", "a">>, <<"ghost", "b", "b">>}
\* What an operator may write of them: no mistake that a report would name, or one
\* that it did not.
MCLists == {<<"a">>, <<"b">>, <<"b", "a">>, <<"ghost", "b">>}

Mapping(providers, preference, geometry, key) ==
    [logs |-> "json", file |-> "mapping", providers |-> providers,
     preference |-> preference, geometry |-> geometry, key |-> key, url |-> "redis"]

Everywhere(e) == [n \in MCName |-> e]

\* Every mapping of these; with one mapping, every setting beside it; and everything
\* that can be wrong at once.
MCDeployments ==
    LET sound == Mapping(Everywhere(E("cohere", {"model"}, TRUE)), <<"a">>, <<4, 2>>, "text")
        wrong == Mapping(Everywhere(E("bedrock", {"deployment"}, FALSE)), <<"ghost", "b", "b">>,
                         <<5, 2>>, "unset")
    IN
    {Mapping(e, p, <<4, 2>>, k) : e \in [MCName -> MCEntries \cup {None}],
        p \in MCPreferences, k \in {"text", "blank"}}
    \cup {[sound EXCEPT !.logs = l, !.file = f, !.url = u] :
        l \in {"json", "console", "blank", "unknown"},
        f \in {"mapping", "missing", "unreadable", "not_yaml", "empty", "no_mapping"},
        u \in {"redis", "blank", "unset", "no_scheme"}}
    \cup {[sound EXCEPT !.geometry = g, !.key = k, !.url = u] :
        g \in MCGeometry, k \in {"text", "unset"}, u \in {"redis", "no_scheme"}}
    \cup {[wrong EXCEPT !.logs = "unknown", !.file = "missing", !.url = "no_scheme"]}
=============================================================================
