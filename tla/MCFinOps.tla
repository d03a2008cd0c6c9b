------------------------------ MODULE MCFinOps ------------------------------
(* Two overlapping reports, a catalog that grows, and policies that change. *)
EXTENDS FinOps

\* A European self-managed provider, a French and an American managed one.
MCProviders ==
    [eu |-> [zone |-> "europe", managed |-> FALSE, sensitive |-> TRUE, in |-> 2, out |-> 4],
     fr |-> [zone |-> "francecentral", managed |-> TRUE, sensitive |-> TRUE, in |-> 1, out |-> 2],
     az |-> [zone |-> "eastus", managed |-> TRUE, sensitive |-> FALSE, in |-> 1, out |-> 1]]

Model(n, p, t) == [name |-> <<"user", n>>, model |-> n, provider |-> p, sensitive |-> p = "eu",
                   tier |-> t, ns |-> Empty, app |-> Empty]

MCCatalogs == << <<Model("mid", "eu", "medium")>>,
                 <<Model("mid", "eu", "medium"), Model("new", "az", "high"),
                   Model("tiny", "fr", "low")>> >>

MCDefaults == [gpt |-> [provider |-> "openai", zone |-> "US", in |-> 5, out |-> 9]]

Series(m, p, t, ns, app, sum, count) ==
    [model |-> m, provider |-> p, type |-> t, ns |-> ns, app |-> app, sum |-> sum, count |-> count]

MCScraped == <<Series("gpt", "openai", "input", "a", "web", 10, 2),
               Series("gpt", "openai", "input", "b", "bot", 8, 2),
               Series("mid", "x", "output", "a", "web", 6, 3),
               Series("new", "az", "input", "b", "bot", 4, 1),
               Series("mid", "x", "duration", "a", "web", 7, 3)>>

MCScrapes == {{}, {1, 2, 3, 5}, {2, 4}}

Policy(allowed, forbidden, external, mode) ==
    [allowed |-> allowed, forbidden |-> forbidden, external |-> external, mode |-> mode]

MCPolicies == <<Policy({}, {"us"}, TRUE, "enforce"),
                Policy({"europe"}, {"france", "us"}, FALSE, "warn")>>

MCBudgets == << [ns |-> "a", app |-> Empty, period |-> "monthly", budget |-> 50, warning |-> 50,
                 critical |-> 80, hard |-> 100, mode |-> "enforce", onPhase |-> "Critical",
                 fallback |-> <<"user", "tiny">>, minTier |-> "low", maxLatency |-> 0] >>

MCEgress == {[ns |-> "a", app |-> "web", zone |-> "US", provider |-> "openai"],
             [ns |-> "b", app |-> "bot", zone |-> Empty, provider |-> "azure-openai"]}

MCScope == [all |-> Empty, b |-> "b"]

=============================================================================
