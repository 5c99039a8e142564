---- MODULE MCAgentMemory ----
(* Model-checking instance of AgentMemory. *)
EXTENDS AgentMemory

\* Two spellings of one service, a padded one, a second name for it, and a
\* store.
MCNormalized ==
    [text \in {"Auth", "auth", "Auth ", "Login", "login", "Store", "svc", "doc"} |->
        CASE text \in {"Auth", "auth", "Auth "} -> "auth"
          [] text \in {"Login", "login"} -> "login"
          [] OTHER -> text]

MCExactKey == [value \in {"S-1", "s-1"} |-> "s-1"]

MCGeneratedId ==
    <<"r1", None, "svc", "auth">> :> 1 @@ <<"r1", "b1", "svc", "auth">> :> 2 @@
    <<"r1", "b1", "svc", "login">> :> 3 @@ <<None, None, "svc", "auth">> :> 5 @@
    <<None, None, "svc", "Store">> :> 6

Mention(local_id, kind, label, confidence) ==
    [local_id |-> local_id, kind |-> kind, label |-> label, confidence |-> confidence,
     stable_id |-> None, aliases |-> <<>>, attributes |-> {}, external |-> <<>>, hints |-> <<>>]

Relation(local_id, source, relation, target, confidence) ==
    [local_id |-> local_id, source |-> source, relation |-> relation, target |-> target,
     confidence |-> confidence, valid_from |-> None, valid_until |-> None]

Input(source, repository, branch, entities, relations) ==
    [provider |-> "p", source |-> source, content |-> "c", occurred_at |-> 1,
     repository |-> repository, branch |-> branch, entities |-> entities, relations |-> relations]

\* A service with an alias calls a store with a stable identifier.
Calls(confidence) ==
    Input("d1", "r1", None,
        <<[Mention("m", "svc", "Auth", 9000) EXCEPT !.aliases = <<"Login">>],
          [Mention("n", "svc", "Store", 9500) EXCEPT !.stable_id = 4, !.external = <<<<"key", "S-1">>>>]>>,
        <<Relation("r", "m", "calls", "n", confidence)>>)

\* Two names that are one service or two, depending on the catalog, so that
\* the relation between them may become a self-loop.
Uses ==
    Input("d2", "r1", "b1",
        <<Mention("m", "svc", "login", 9500), Mention("n", "svc", "auth", 9500)>>,
        <<Relation("r", "m", "uses", "n", 9500), Relation("q", "n", "calls", "n", 8000)>>)

\* A mention below the minimum score, and one with an external identifier
\* and hints; it happens too late for the first recording time.
Owns ==
    [Input("d3", None, None,
        <<Mention("m", "svc", "Auth", 7000),
          [Mention("n", "svc", "Store", 9900) EXCEPT
              !.external = <<<<"key", "s-1">>>>, !.hints = <<[entity_id |-> 1, confidence |-> 9400],
                                                       [entity_id |-> 4, confidence |-> 7000]>>]>>,
        <<[Relation("r", "m", "owns", "n", 9000) EXCEPT !.valid_until = 3]>>) EXCEPT !.occurred_at = 2]

\* The stable identifier with another kind, and two mentions of one service,
\* with two alias attributes of which a listed alias overwrites the first.
Describes ==
    Input("d4", "r1", None,
        <<[Mention("m", "doc", "Store", 9900) EXCEPT !.stable_id = 4],
          Mention("n", "svc", "auth", 8600),
          [Mention("o", "svc", "auth", 8800) EXCEPT
              !.aliases = <<"Store">>, !.attributes = {<<0, "Auth">>, <<1, "Login">>}]>>,
        <<Relation("r", "m", "uses", "n", 9000), Relation("q", "o", "uses", "m", 9000)>>)

\* The first source is extracted in two ways.
MCExtractions == {Calls(9500), Calls(6000), Uses, Owns, Describes}

\* The first source, with an alias attribute that ends in a blank.
MCPadded == {[Calls(9500) EXCEPT !.entities[1].attributes = {<<1, "Auth ">>}], Uses}

\* With no margin to keep, equals are told apart by their identifiers.
MCPolicies ==
    {[minimum_score |-> 8000, minimum_margin |-> 500, create_unmatched |-> TRUE],
     [minimum_score |-> 8000, minimum_margin |-> 500, create_unmatched |-> FALSE],
     [minimum_score |-> 8000, minimum_margin |-> 0, create_unmatched |-> TRUE]}

MCFactIds ==
    UNION {{<<Origin(x), r.local_id, s, r.relation, t>> : r \in ToSet(x.relations), s, t \in Entities} :
              x \in MCExtractions}

\* Some order of the hashes.
MCFactRank ==
    [id \in MCFactIds |->
        100 * (CASE id[1][2] = "d1" -> 3 [] id[1][2] = "d2" -> 1 [] id[1][2] = "d3" -> 4 [] OTHER -> 2)
          + (IF id[2] = "q" THEN 50 ELSE 0) + 7 * id[3] + id[5]]

MCEventIds ==
    {<<"fact", f[1], f>> : f \in MCFactIds}
        \cup {<<"node", Origin(x), e>> : x \in MCExtractions, e \in Entities}

MCEstimate ==
    [text \in {"Auth", "auth", "Auth ", "Login", "login", "Store", "svc", "doc", "S-1", "s-1", "r1", "b1",
               "calls", "uses", "owns"} |-> IF text = "uses" THEN 20 ELSE 1]

Request(seeds, known_at, budget, depth) ==
    [seeds |-> seeds, valid_at |-> 2, known_at |-> known_at, token_budget |-> budget,
     max_depth |-> depth, relations |-> {}, repositories |-> {}, branches |-> {}]

MCRequests ==
    {Request(<<4>>, 2, 300, 1), Request(<<1>>, 2, 78, 2), Request(<<5, 1, 5>>, 2, 102, 2),
     Request(<<2>>, 1, 84, 0), Request(<<3>>, 2, 58, 1), Request(<<3>>, 2, 68, 1),
     [Request(<<1>>, 2, 300, 2) EXCEPT !.repositories = {"r1"}],
     [Request(<<2>>, 2, 300, 2) EXCEPT !.branches = {"b1"}],
     [Request(<<4>>, 1, 300, 2) EXCEPT !.relations = {"calls", "owns"}]}

Hit(entity, channel, score) == [entity |-> entity, channel |-> channel, score |-> score]

MCQueries == {[limit |-> 2, channels |-> {}], [limit |-> 3, channels |-> {1, 3}]}

\* The hits of a provider that returns three.
Three(u, v, w) == [name |-> 2, hits |-> <<u, v, w>>]

\* Two providers, twice in another order and on other scales; two of one name,
\* and these swapped.
MCAnswers ==
    {<<Three(Hit(4, 1, 7), Hit(1, 3, 7), Hit(4, 3, 7)),
       [name |-> 1, hits |-> <<Hit(6, 1, 1), Hit(4, 2, 900), Hit(1, 3, 800), Hit(1, 1, 900)>>]>>,
     <<[name |-> 1, hits |-> <<Hit(1, 1, 9), Hit(6, 1, 0), Hit(1, 3, 8), Hit(4, 2, 9)>>],
       Three(Hit(1, 3, 0), Hit(4, 3, 0), Hit(4, 1, 0))>>,
     <<Three(Hit(4, 3, 60), Hit(4, 1, 60), Hit(1, 3, 60)),
       [name |-> 1, hits |-> <<Hit(1, 3, 2), Hit(1, 1, 1000), Hit(6, 1, 1), Hit(4, 2, 1000)>>]>>,
     <<[name |-> 1, hits |-> <<Hit(1, 1, 5)>>], [name |-> 1, hits |-> <<Hit(4, 1, 5)>>]>>,
     <<[name |-> 1, hits |-> <<Hit(4, 1, 2)>>], [name |-> 1, hits |-> <<Hit(1, 1, 3)>>]>>}

====
