----------------------------- MODULE Retrieval -----------------------------
(***************************************************************************)
(* Reciprocal-rank fusion (src/src/context/retrieval.rs).  A provider is   *)
(* its name and the hits it returns, in its own order; entities, channels  *)
(* and names are numbers with the order the code sorts them by.  A call    *)
(* that fails fails the whole fusion and is left out.                      *)
(***************************************************************************)
EXTENDS Optional, Sequences, SequencesExt, FiniteSetsExt, Functions, Iterators, Ordering

RrfK == 60
RrfScale == 1000000000

HitBefore(h, g) ==
    \/ h.score > g.score
    \/ h.score = g.score /\ h.entity < g.entity
    \/ h.score = g.score /\ h.entity = g.entity /\ h.channel < g.channel

\* The hits of the channels that the query asks for.
Wanted(hits, query) ==
    Filtered(hits, {k \in DOMAIN hits : query.channels = {} \/ hits[k].channel \in query.channels})

\* The first hit of every entity.
Deduped(hits) ==
    Filtered(hits, {k \in DOMAIN hits : \A j \in 1..(k - 1) : hits[j].entity # hits[k].entity})

Truncated(seq, limit) == SubSeq(seq, 1, Min({limit, Len(seq)}))

\* Mutant: a provider's hits are ranked as they come.
RankedUnsorted(provider, query) == Truncated(Deduped(Wanted(provider.hits, query)), query.limit)

\* The hits of a provider that count, by rank.
Ranked(provider, query) ==
    Truncated(Deduped(SortBy(Wanted(provider.hits, query), HitBefore)), query.limit)

\* The contributions of a provider: entity, score and RetrievalSource.
Contributions(provider, query) ==
    LET ranked == Ranked(provider, query)
    IN  [rank \in DOMAIN ranked |->
            [entity |-> ranked[rank].entity, score |-> RrfScale \div (RrfK + rank),
             source |-> [provider |-> provider.name, channel |-> ranked[rank].channel,
                         rank |-> rank, raw_score |-> ranked[rank].score]]]

\* What all providers contribute to an entity.
Contributed(all, entity) == {k \in DOMAIN all : all[k].entity = entity}

FusedScore(all, entity) ==
    SumFunctionOnSet([k \in DOMAIN all |-> all[k].score], Contributed(all, entity))

\* The entities with their scores, best first; the identifier breaks ties.
Ranking(all) ==
    LET scored == {<<all[k].entity, FusedScore(all, all[k].entity)>> : k \in DOMAIN all}
        Better(x, y) == x[2] > y[2] \/ (x[2] = y[2] /\ x[1] < y[1])
    IN  SortedSet(scored, {p \in scored \X scored : Better(p[1], p[2])})

FusedHit(all, entity, score) ==
    [entity |-> entity, fused_score |-> score,
     sources |-> Filtered([k \in DOMAIN all |-> all[k].source], Contributed(all, entity))]

\* validate_providers: no two providers have one name.
ValidProviders(providers) ==
    \A j, k \in DOMAIN providers : providers[j].name = providers[k].name => j = k

NameBefore(p, q) == p.name < q.name

\* The rest of fuse_retrieval, for valid providers.
FuseRetrieval(providers, query) ==
    LET sorted == SortBy(providers, NameBefore)
        all == FlattenSeq([k \in DOMAIN sorted |-> Contributions(sorted[k], query)])
        ranking == Truncated(Ranking(all), query.limit)
    IN  [k \in DOMAIN ranking |-> FusedHit(all, ranking[k][1], ranking[k][2])]

=============================================================================
