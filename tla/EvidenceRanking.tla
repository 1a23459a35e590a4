---------------------------- MODULE EvidenceRanking ----------------------------
(****************************************************************************)
(* How what was found for a question is put in order: the walks over the    *)
(* facts, the fusion of the three layers of a search, and the roles of the  *)
(* pieces of evidence.  These are functions without a state.                *)
(****************************************************************************)
EXTENDS Integers, Sequences, FiniteSets, SequencesExt

CONSTANT HitsPerLayer   \* top_k

ASSUME HitsConstant == HitsPerLayer \in Nat \ {0}

-------------------------------------------------------------------------------
(* Walks over the facts, a set of pairs of a source and a target            *)

\* What is walked after each number of hops, with what is not to be visited
\* again: the path of a walk, which begins with its source or after it.
Walks(facts, start, hops, withStart) ==
    LET walk[n \in 1..hops] ==
            IF n = 1 THEN {[source |-> f[1], target |-> f[2], depth |-> 1,
                            path |-> {IF withStart THEN f[1] ELSE f[2]}] : f \in {g \in facts : g[1] = start}}
            ELSE LET before == walk[n - 1]
                 IN UNION {{[source |-> f[1], target |-> f[2], depth |-> n, path |-> w.path \cup {f[2]}] :
                                f \in {g \in facts : g[1] = w.target /\ g[2] \notin w.path}} : w \in before}
    IN UNION {walk[n] : n \in 1..hops}

GraphQuery(facts, start, hops) ==
    {[source |-> w.source, target |-> w.target, depth |-> w.depth] : w \in Walks(facts, start, hops, FALSE)}

\* Mutant: the path of a walk begins after its source, as in a graph query.
DescendantsAround(facts, anchor, hops) == {w.target : w \in Walks(facts, anchor, hops, FALSE)}

Descendants(facts, anchor, hops) == {w.target : w \in Walks(facts, anchor, hops, TRUE)}

-------------------------------------------------------------------------------
(* The fusion of the layers                                                 *)

\* The first hit of each key.
DedupeByKey(hits) ==
    LET firsts == {i \in DOMAIN hits : \A j \in 1..(i - 1) : hits[j].key # hits[i].key}
    IN [n \in 1..Cardinality(firsts) |-> hits[CHOOSE i \in firsts : Cardinality({j \in firsts : j <= i}) = n]]

\* Walks back to where they began are no hits; the others by relevance, then by
\* depth (the names that decide last are left to the order there was).
GraphLane(hits, found) ==
    LET kept == DedupeByKey(SelectSeq(hits, LAMBDA h : h.key # found))
        before(i, j) == \/ kept[i].relevance > kept[j].relevance
                        \/ kept[i].relevance = kept[j].relevance
                              /\ (kept[i].depth < kept[j].depth \/ (kept[i].depth = kept[j].depth /\ i <= j))
    IN [n \in DOMAIN kept |-> kept[CHOOSE i \in DOMAIN kept : Cardinality({j \in DOMAIN kept : before(j, i)}) = n].key]

\* 1 / (60 + rank), in parts of a multiple of the first denominators.
Weight(rank) == (61 * 62 * 63 * 64) \div (60 + rank)

\* Keys in the order in which the lanes hold them, by the sum of their weights.
RrfMerge(lanes) ==
    LET all == FlattenSeq(lanes)
        keys == {i \in DOMAIN all : \A j \in 1..(i - 1) : all[j] # all[i]}
        score == [i \in keys |-> LET places(lane) == {r \in DOMAIN lane : lane[r] = all[i]}
                                 IN FoldSeq(LAMBDA lane, sum : sum + FoldSet(LAMBDA r, s : s + Weight(r), 0, places(lane)),
                                            0, lanes)]
        before(i, j) == score[i] > score[j] \/ (score[i] = score[j] /\ i <= j)
        fused == [n \in 1..Cardinality(keys) |->
                     all[CHOOSE i \in keys : Cardinality({j \in keys : before(j, i)}) = n]]
    IN SubSeq(fused, 1, IF Len(fused) < HitsPerLayer THEN Len(fused) ELSE HitsPerLayer)

-------------------------------------------------------------------------------
(* The roles of the evidence                                                *)

RoleFor(channel, intent) ==
    IF \/ intent \in {"FACT", "ATTRIBUTE"} /\ channel = "chunk"
       \/ intent \in {"RELATION", "MULTI_HOP", "LIST"} /\ channel = "graph"
       \/ intent \in {"AGGREGATION", "COMPARISON", "TREND"} /\ channel = "capability"
       \/ intent \in {"CAUSAL", "MIXED"} /\ channel \in {"capability", "graph"}
    THEN "primary" ELSE "auxiliary"

\* The i-th piece against the one that holds its key: of two the better one stays
\* in the earlier place, and the other conflicts.
Resolved(evidence, i) ==
    LET same == {j \in 1..(i - 1) : evidence[j].channel = evidence[i].channel /\ evidence[j].ref = evidence[i].ref}
        j == CHOOSE j \in same : \A k \in same : j <= k
    IN IF same = {} THEN evidence
       ELSE IF evidence[j].confidence >= evidence[i].confidence
       THEN [evidence EXCEPT ![i].conflict = TRUE]
       ELSE [evidence EXCEPT ![j] = evidence[i], ![i] = [evidence[j] EXCEPT !.conflict = TRUE]]

\* Primary evidence first, each part by confidence.
RoleLayer(evidence, intent) ==
    LET resolved[i \in 0..Len(evidence)] ==
            IF i = 0 THEN [n \in DOMAIN evidence |->
                [evidence[n] EXCEPT !.role = RoleFor(evidence[n].channel, intent), !.conflict = FALSE]]
            ELSE LET before == resolved[i - 1] IN Resolved(before, i)
        done == resolved[Len(evidence)]
        above(i, j) == \/ done[i].role = "primary" /\ done[j].role # "primary"
                       \/ done[i].role = done[j].role
                             /\ (done[i].confidence > done[j].confidence
                                    \/ (done[i].confidence = done[j].confidence /\ i <= j))
    IN [n \in DOMAIN done |-> done[CHOOSE i \in DOMAIN done : Cardinality({j \in DOMAIN done : above(j, i)}) = n]]

-------------------------------------------------------------------------------
\* A count of descendants is exact: whatever circles there are, it counts what
\* can be reached within the hops, once, and the anchor only if it leads to
\* itself.  Reached is the reference, by sets.
Reached(facts, start, hops) ==
    LET step[n \in 0..hops] ==
            IF n = 0 THEN {start}
            ELSE LET before == step[n - 1] IN before \cup {f[2] : f \in {g \in facts : g[1] \in before}}
    IN step[hops]
DescendantsExact(facts, anchor, hops) ==
    Descendants(facts, anchor, hops) =
        (Reached(facts, anchor, hops) \ {anchor}) \cup (IF <<anchor, anchor>> \in facts THEN {anchor} ELSE {})

\* No layer pushes another out: the n-th hit of each layer is among the first
\* hits of as many rounds, each key is there once, and a graph that leads to one
\* neighbour on several ways does not count for more.
FusionIsFair(profiled, hits, chunks, found) ==
    LET lanes == SelectSeq(<<profiled, GraphLane(hits, found), chunks>>, LAMBDA lane : lane # <<>>)
        fused == RrfMerge(lanes)
    IN /\ IsInjective(fused)
       /\ \A l \in DOMAIN lanes : \A n \in DOMAIN lanes[l] :
             (n - 1) * Len(lanes) + l <= HitsPerLayer =>
                 \E p \in DOMAIN fused : p <= n * Len(lanes) /\ fused[p] = lanes[l][n]

\* Of the evidence with one source the best piece stands and the others conflict;
\* nothing is lost, and what is primary for the intent comes first.
RolesExact(evidence, intent) ==
    LET ranked == RoleLayer(evidence, intent)
        same(e, f) == e.channel = f.channel /\ e.ref = f.ref
        pieces(s) == [i \in DOMAIN s |-> <<s[i].channel, s[i].ref, s[i].confidence>>]
    IN /\ \A x \in ToSet(pieces(evidence)) \cup ToSet(pieces(ranked)) :
             Cardinality({i \in DOMAIN evidence : pieces(evidence)[i] = x}) =
             Cardinality({i \in DOMAIN ranked : pieces(ranked)[i] = x})
       /\ \A i \in DOMAIN ranked :
             /\ Cardinality({j \in DOMAIN ranked : same(ranked[i], ranked[j]) /\ ~ranked[j].conflict}) = 1
             /\ \A j \in DOMAIN ranked :
                   same(ranked[i], ranked[j]) /\ ~ranked[i].conflict => ranked[i].confidence >= ranked[j].confidence
             /\ \A j \in 1..(i - 1) : ranked[i].role = "primary" => ranked[j].role = "primary"
===============================================================================
