---------------------------- MODULE MCEnrichment ----------------------------
(* Model checking of Enrichment: people with and without a LinkedIn URL, with *)
(* what makes a batch row differ from a single lookup.                        *)
EXTENDS Enrichment

UrlOf(form, slashes, slug) == [form |-> form, slashes |-> slashes, slug |-> slug]
Ann ==
    [first |-> <<"ann">>, last |-> <<"lee">>, gap |-> FALSE, full |-> Missing,
     company |-> <<"acme", "inc">>, domain |-> Missing,
     url |-> UrlOf("http", 0, <<"ann", "lee">>)]
LinkedIn(slashes) ==
    [first |-> Missing, last |-> Missing, gap |-> FALSE, full |-> Missing,
     company |-> <<"acme">>, domain |-> Missing, url |-> UrlOf("bare", slashes, <<"ann", "lee">>)]

MCPeople == {"ann", "linked", "nameless", "broken", "named", "padded"}
MCGiven ==
    [q \in MCPeople |->
        CASE q = "ann" -> Ann
          [] q = "linked" -> LinkedIn(2)
          [] q = "nameless" -> [Ann EXCEPT !.first = Blank, !.domain = Blank,
                                           !.url = NoUrl]
          [] q = "broken" -> [LinkedIn(0) EXCEPT !.url.slug = <<"%">>]
          [] q = "named" -> [LinkedIn(1) EXCEPT !.full = <<"ann", "van", "lee">>]
          [] q = "padded" -> [Ann EXCEPT !.gap = TRUE, !.domain = <<"acme">>]]
MCFiles == {<<"linked", "ann">>, <<"nameless", "broken">>, <<"padded", "named">>}

\* Bound: of the lookups and jobs, two begin.  Single lookups are alike, so the
\* first one to begin is s1.
CONSTANTS s1, s2
Begun(a) == lookup[a].at # "idle"
TwoBegin ==
    /\ Cardinality({a \in Agents : Begun(a)}) <= 2
    /\ Begun(s2) => Begun(s1)

=============================================================================
