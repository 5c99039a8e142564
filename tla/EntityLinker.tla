---------------------------- MODULE EntityLinker ----------------------------
(***************************************************************************)
(* `EntityLinker` (src/src/extraction/linker): which entity of a catalog a *)
(* mention means.  A linker is the sequence of the nodes of the view it    *)
(* was built from; its hash indexes are lookups in that sequence.          *)
(*                                                                         *)
(* A text is a model value or string whose only structure is its normal    *)
(* form.  A node carries its aliases (the values of its alias attributes)  *)
(* and its external identifiers, pairs of an attribute's key and value.    *)
(* Texts and identifiers that validation rejects are not inputs, but for   *)
(* the values of alias attributes, which nothing validates before a linker *)
(* is built; and hashes do not collide.                                    *)
(***************************************************************************)
EXTENDS Optional, Sequences, FiniteSets, SequencesExt, FiniteSetsExt, Iterators, Ordering

CONSTANTS
    Normalized,    \* Normalized[text]: its normal form, two spellings may share one
    Malformed,     \* the texts that validate_text rejects
    ExactKey,      \* ExactKey[value]: an external identifier without case and blanks
    GeneratedId    \* GeneratedId[<<repository, branch, kind, label>>]: the hashed EntityId

SameText(x, y) == Normalized[x] = Normalized[y]

\* generated_id.
Generated(mention, input) ==
    GeneratedId[<<input.repository, input.branch,
                  Normalized[mention.kind], Normalized[mention.label]>>]

-----------------------------------------------------------------------------
\* Scores, in basis points.

Clamp(score) == IF score < 0 THEN 0 ELSE IF score > 10000 THEN 10000 ELSE score

Bonus(wanted, actual, same, other, none) ==
    IF wanted = None THEN 0
    ELSE IF actual = wanted THEN same
    ELSE IF actual = None THEN none ELSE other

ScopeScore(base, node, input) ==
    Clamp(base + Bonus(input.repository, node.repository, 400, -2000, -300)
               + Bonus(input.branch, node.branch, 200, -700, -100))

Scoped(node, input) ==
    \/ input.repository # None /\ node.repository = input.repository
    \/ input.branch # None /\ node.branch = input.branch

Candidate(node, base, method, mention, input) ==
    [entity_id |-> node.id,
     score |-> Min({ScopeScore(base, node, input), mention.confidence}),
     method |-> IF method = "Label" /\ Scoped(node, input) THEN "ScopedLabel" ELSE method]

\* from_view builds a linker of these nodes, unless one has a malformed alias.
Buildable(nodes) == \A k \in DOMAIN nodes : nodes[k].aliases \cap Malformed = {}

\* The indexes of the linker: which of its nodes a key leads to.
OfKind(linker, kind) == {n \in DOMAIN linker : SameText(linker[n].kind, kind)}

Labelled(linker, text) == {n \in DOMAIN linker : SameText(linker[n].label, text)}

Aliased(linker, text) == {n \in DOMAIN linker : \E a \in linker[n].aliases : SameText(a, text)}

External(linker, pair) ==
    {n \in DOMAIN linker :
        \E e \in linker[n].external : e[1] = pair[1] /\ ExactKey[e[2]] = ExactKey[pair[2]]}

WithId(linker, id) == {n \in DOMAIN linker : linker[n].id = id}

\* What collect_candidates looks up, in its order: the nodes an index gives,
\* the score they start from and the method they would be linked by.
Lookups(linker, mention) ==
    <<[at |-> Labelled(linker, mention.label), base |-> 9000, method |-> "Label"],
      [at |-> Aliased(linker, mention.label), base |-> 8500, method |-> "Alias"]>>
      \o [k \in DOMAIN mention.aliases |->
            [at |-> Aliased(linker, mention.aliases[k]), base |-> 8500, method |-> "Alias"]]
      \o [k \in DOMAIN mention.external |->
            [at |-> External(linker, mention.external[k]), base |-> 9700, method |-> "ExternalId"]]
      \o [k \in DOMAIN mention.hints |->
            [at |-> WithId(linker, mention.hints[k].entity_id), base |-> mention.hints[k].confidence,
             method |-> "ProviderHint"]]

\* The candidates of one lookup; nodes of another kind are passed over.
Found(linker, lookup, mention, input) ==
    LET nodes == Filtered(linker, lookup.at \cap OfKind(linker, mention.kind))
    IN  [k \in DOMAIN nodes |-> Candidate(nodes[k], lookup.base, lookup.method, mention, input)]

Matches(linker, mention, input) ==
    LET lookups == Lookups(linker, mention)
    IN  FlattenSeq([k \in DOMAIN lookups |-> Found(linker, lookups[k], mention, input)])

\* Mutant: a later match of an entity replaces an earlier one.
AddCandidateLatest(candidates, candidate) ==
    {c \in candidates : c.entity_id # candidate.entity_id} \cup {candidate}

\* add_candidate: the best match of every entity, the first among equals.
AddCandidate(candidates, candidate) ==
    IF \E c \in candidates : c.entity_id = candidate.entity_id /\ c.score >= candidate.score
    THEN candidates
    ELSE {c \in candidates : c.entity_id # candidate.entity_id} \cup {candidate}

\* The best match of every entity.
BestMatches(matches) ==
    LET best[k \in 0..Len(matches)] ==
            IF k = 0 THEN {} ELSE AddCandidate(best[k - 1], matches[k])
    IN  best[Len(matches)]

\* By score, the identifier breaks ties.
Better(candidates) ==
    {p \in candidates \X candidates :
        \/ p[1].score > p[2].score
        \/ p[1].score = p[2].score /\ p[1].entity_id < p[2].entity_id}

CollectCandidates(linker, mention, input) ==
    LET candidates == BestMatches(Matches(linker, mention, input))
    IN  SortedSet(candidates, Better(candidates))

-----------------------------------------------------------------------------
\* Decisions; None is an error of the whole plan.

LinkMethod == {"StableId", "ExternalId", "ProviderHint", "ScopedLabel", "Label", "Alias", "Created",
               "Ambiguous", "Unresolved"}

Decision(mention, id, score, method) ==
    [mention_id |-> mention.local_id, entity_id |-> id, score |-> score, method |-> method]

LinkStableId(linker, mention) ==
    LET known == WithId(linker, mention.stable_id)
    IN  IF known = {} THEN Decision(mention, mention.stable_id, mention.confidence, "Created")
        ELSE IF known \cap OfKind(linker, mention.kind) = {} THEN None
        ELSE Decision(mention, mention.stable_id, mention.confidence, "StableId")

\* Mutant: the generated identifier is not looked up.
UnmatchedUnchecked(linker, mention, input, policy) ==
    IF ~policy.create_unmatched THEN Decision(mention, None, 0, "Unresolved")
    ELSE Decision(mention, Generated(mention, input), mention.confidence, "Created")

Unmatched(linker, mention, input, policy) ==
    LET id == Generated(mention, input)
    IN  IF ~policy.create_unmatched THEN Decision(mention, None, 0, "Unresolved")
        ELSE IF WithId(linker, id) # {} THEN None
        ELSE Decision(mention, id, mention.confidence, "Created")

ResolveCandidates(linker, mention, input, policy, candidates) ==
    LET best == candidates[1]
    IN  IF candidates = <<>> \/ best.score < policy.minimum_score
        THEN Unmatched(linker, mention, input, policy)
        ELSE IF Len(candidates) > 1 /\ best.score - candidates[2].score < policy.minimum_margin
        THEN Decision(mention, None, best.score, "Ambiguous")
        ELSE Decision(mention, best.entity_id, best.score, best.method)

Link(linker, mention, input, policy) ==
    IF mention.stable_id # None THEN LinkStableId(linker, mention)
    ELSE ResolveCandidates(linker, mention, input, policy,
                           CollectCandidates(linker, mention, input))

=============================================================================
