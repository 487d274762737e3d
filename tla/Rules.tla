-------------------------------- MODULE Rules --------------------------------
(***************************************************************************)
(* The rule engine (crates/core-rules/src/engine.rs) under the writes of   *)
(* db.rs: rules derive edges between nodes whose properties match, keep    *)
(* provenance of the edges they added, and after each write bring them up  *)
(* to date incrementally, each rule looking only at the nodes the write    *)
(* can concern to it.                                                      *)
(*                                                                         *)
(* A write is one action, as it runs under the write lock; what it does is *)
(* a function of the graph, put together from the engine's own functions.  *)
(* Those take and give back a record g: the graph (alive, value, edges),   *)
(* the rules with what they own, and what a hook keeps for its duration.   *)
(* A property is a set of tokens, empty when it is absent, and predicates  *)
(* are overlaps; rules, nodes and edge types are numbers, in the order of  *)
(* their names, ids and keys.  Candidate indexes are taken to offer all    *)
(* that match; weights, namespaces, vector indexes and views are left out. *)
(***************************************************************************)
EXTENDS Integers, Sequences, FiniteSets, FiniteSetsExt, SequencesExt

CONSTANTS
    Cases,           \* the bounds: the labels of the nodes in the order of their ids, what
                     \* their properties may hold, the rules in the order of their names,
                     \* the edges users write, and DEFAULT_MAX_EDGES
    Fields,          \* the properties of a node
    MaxChainDepth    \* MAX_CHAIN_DEPTH

ASSUME RulesAssumption ==
    /\ \A c \in Cases : \A i \in DOMAIN c.rules :
          c.rules[i].field \in Fields /\ c.rules[i].k \in Nat /\ c.rules[i].min \in Nat
    /\ MaxChainDepth \in Nat \ {0}

VARIABLES
    case,    \* which of the Cases this is
    db,      \* the graph and the engine's state
    user,    \* the edges users wrote and did not delete
    holes    \* the edge types and sources that lack an edge the engine knowingly leaves out

vars == <<case, db, user, holes>>

Def(i)  == case.rules[i]
None    == 0
NoVia   == [label |-> "none", edge |-> 0, out |-> TRUE]
IsVia(r)   == r.via # NoVia
IsTopK(r)  == r.k # None

Before(a, b) ==
    \/ a[1] < b[1]
    \/ a[1] = b[1] /\ a[2] < b[2]
    \/ a[1] = b[1] /\ a[2] = b[2] /\ Len(a) = 3 /\ a[3] < b[3]
InOrder(S)  == SetToSortSeq(S, Before)
Ascending(S) == SetToSortSeq(S, <)

-----------------------------------------------------------------------------
(* What a rule desires.                                                    *)

\* evaluate: the Jaccard ratio of two token sets, in twelfths, if it is at least min.
Score(r, a, b) ==
    LET j == IF a \cap b = {} THEN 0
             ELSE (12 * Cardinality(a \cap b)) \div Cardinality(a \cup b)
    IN IF j >= r.min THEN j ELSE 0

Labelled(g, n, label) == n \in g.alive /\ case.labels[n] = label

\* The edge over which a rule hops from its source s to v, and the nodes it
\* compares with a destination: the source itself, or those a hop away.
Hop(r, s, v) == IF r.via.out THEN <<r.via.edge, s, v>> ELSE <<r.via.edge, v, s>>
Hops(r, s, g) ==
    IF IsVia(r) THEN {v \in g.alive : Labelled(g, v, r.via.label) /\ Hop(r, s, v) \in g.edges}
    ELSE {s}

\* The best score of d for s, 0 for none.  The node now deleted is out of it.
Weight(r, s, d, g) ==
    Max({0} \cup {Score(r, g.value[v][r.field], g.value[d][r.field]) :
                     v \in Hops(r, s, g) \ {g.doomed}})

\* Mutant: the node being deleted is still a candidate (ledger row 106).
DesiredStill(r, s, g) ==
    IF Labelled(g, s, r.src)
    THEN {d \in g.alive \ {s} : Labelled(g, d, r.dst) /\ Weight(r, s, d, g) > 0}
    ELSE {}

\* compute_desired, compute_desired_via: the destinations s is to have edges to.
Desired(r, s, g) ==
    IF Labelled(g, s, r.src) /\ s # g.doomed
    THEN {d \in g.alive \ {s, g.doomed} : Labelled(g, d, r.dst) /\ Weight(r, s, d, g) > 0}
    ELSE {}

\* filter_src_top_k: the k best, of equals the ones first in the order of keys.
TopK(r, s, g) ==
    LET better(e, d) == \/ Weight(r, s, e, g) > Weight(r, s, d, g)
                        \/ Weight(r, s, e, g) = Weight(r, s, d, g) /\ e < d
        all == Desired(r, s, g)
    IN {d \in all : Cardinality({e \in all : better(e, d)}) < r.k}

Wanted(r, s, g) ==
    {<<r.edge, s, d>> : d \in IF IsTopK(r) THEN TopK(r, s, g) ELSE Desired(r, s, g)}

Sources(r, g) == {s \in g.alive : Labelled(g, s, r.src)}
Expected(r, g) == UNION {Wanted(r, s, g) : s \in Sources(r, g)}

-----------------------------------------------------------------------------
(* Applying it.                                                            *)

\* A rule gives up edges: they leave the graph and its provenance.
Drop(g, i, ts) ==
    [g EXCEPT !.edges = @ \ ts, !.prov[i] = @ \ ts, !.deltas = @ \o InOrder(ts)]

Retract(g, i, ts) == [Drop(g, i, ts) EXCEPT !.retracted = @ \cup {<<i, t>> : t \in ts}]

\* A rule adds edges.  It owns those that were not there.  One without a top-k
\* is tripped by the first edge beyond its budget, and then adds no more.
Add(g, i, t) ==
    IF t \in g.edges THEN g
    ELSE [g EXCEPT !.edges = @ \cup {t}, !.prov[i] = @ \cup {t}, !.deltas = Append(@, t)]
AddCapped(g, i, t) ==
    IF t \in g.prov[i] THEN g
    ELSE IF g.tripped[i] \/ Cardinality(g.prov[i]) >= case.budget
    THEN [g EXCEPT !.tripped[i] = TRUE]
    ELSE Add(g, i, t)

\* apply_desired_scoped: of the edges current, only those desired stay.
Apply(g, i, current, desired) ==
    FoldLeft(LAMBDA h, t : IF IsTopK(Def(i)) THEN Add(h, i, t) ELSE AddCapped(h, i, t),
             Retract(g, i, current \ desired), InOrder(desired))

\* apply_per_src_top_k, apply_desired_from: the edges from one source.
ApplyFrom(g, i, s) ==
    Apply(g, i, {t \in g.prov[i] : t[2] = s}, Wanted(Def(i), s, g))

\* apply_desired: the edges from and to one node, of a rule that is plain.
Touching(ts, n) == {t \in ts : n \in {t[2], t[3]}}
ApplyTouching(g, i, n) ==
    Apply(g, i, Touching(g.prov[i], n), Touching(Expected(Def(i), g), n))

\* One rule evaluated again for a source whose edge another rule gave up.
ApplyFor(g, i, s) ==
    IF ~IsVia(Def(i)) /\ ~IsTopK(Def(i)) THEN ApplyTouching(g, i, s)
    ELSE IF IsVia(Def(i)) /\ g.tripped[i] THEN g
    ELSE ApplyFrom(g, i, s)

ApplyEach(g, targets) == FoldLeft(LAMBDA h, x : ApplyFor(h, x[1], x[2]), g, InOrder(targets))

\* reclaim_retracted: the other rules over the edge type of an edge that was
\* given up are evaluated for its source.  What they give up is not followed.
ReclaimTargets(g) ==
    {<<i, s>> \in g.rules \X (g.alive \ {g.doomed}) :
        /\ Labelled(g, s, Def(i).src)
        /\ \E <<j, t>> \in g.retracted : j # i /\ t[1] = Def(i).edge /\ t[2] = s}
Reclaim(g) ==
    LET h == ApplyEach([g EXCEPT !.retracted = {}], ReclaimTargets(g))
    IN [h EXCEPT !.retracted = {}, !.unchased = @ \cup {<<x[2][1], x[2][2]>> : x \in h.retracted}]

-----------------------------------------------------------------------------
(* The hooks.                                                              *)

\* pair_matched_before, via_pair_matched_before: d matched s when it was `was`.
MatchedBefore(r, s, was, g) ==
    \E v \in Hops(r, s, g) : Score(r, g.value[v][r.field], was[r.field]) > 0

\* Mutant: only the rule's own provenance leads to a source (ledger row 83).
MatchedIntoOwned(r, n, was, g) == {}

\* The sources with an edge into n, whoever owns it, that n was a match for: a
\* top-k rule may have given up its next-best for an edge another rule owns.
MatchedInto(r, n, was, g) ==
    {s \in Sources(r, g) \ {n} : <<r.edge, s, n>> \in g.edges /\ MatchedBefore(r, s, was, g)}

\* Mutant: the neighbours in the direction of the hop, instead of against it.
BehindForward(r, n, g) ==
    {s \in Sources(r, g) : IsVia(r) /\ Labelled(g, n, r.via.label) /\ Hop(r, n, s) \in g.edges}

\* The sources that hop to n.
Behind(r, n, g) ==
    {s \in Sources(r, g) : IsVia(r) /\ Labelled(g, n, r.via.label) /\ Hop(r, s, n) \in g.edges}

\* The sources a change of n concerns, as the destination it is.
Into(i, n, was, g) ==
    LET r == Def(i) IN
    IF Labelled(g, n, r.dst)
    THEN {s \in Sources(r, g) : n \in Desired(r, s, g)}
         \cup {t[2] : t \in {u \in g.prov[i] : u[3] = n}}
         \cup (IF IsTopK(r) THEN MatchedInto(r, n, was, g) ELSE {})
    ELSE {}

\* on_node_changed_inner for one rule: a plain one looks at the edges of n, one
\* with a top-k at each source n is or may be picked by, one with a hop at each
\* source n is, is a hop away from, or may be a destination of; the last not if
\* it has no top-k and is tripped.
RuleOnNode(g, i, n, was) ==
    LET r == Def(i)
        self == {n} \cap Sources(r, g)
        from(h, s) == IF ~IsTopK(r) /\ h.tripped[i] THEN h ELSE ApplyFrom(h, i, s)
    IN IF IsVia(r)
       THEN FoldLeft(from, g, Ascending(self \cup Behind(r, n, g) \cup Into(i, n, was, g)))
       ELSE IF IsTopK(r)
       THEN FoldLeft(from, FoldLeft(from, g, Ascending(self)), Ascending(Into(i, n, was, g) \ {n}))
       ELSE ApplyTouching(g, i, n)

Concerns(r, n, fields) ==
    r.field \in fields /\ case.labels[n] \in {r.src, r.dst} \cup (IF IsVia(r) THEN {r.via.label} ELSE {})

OnNode(g, n, fields, was) ==
    LET fire(h, i) == IF Concerns(Def(i), n, fields) THEN RuleOnNode(h, i, n, was) ELSE h
    IN Reclaim(FoldLeft(fire, g, Ascending(g.rules)))

\* on_edge_changed_inner: rules that hop over the edge, each source once in a
\* level of a chain.
OnEdge(g, t, chained) ==
    LET src(r) == IF r.via.out THEN t[2] ELSE t[3]
        via(r) == IF r.via.out THEN t[3] ELSE t[2]
        fire(h, i) ==
            LET r == Def(i) IN
            IF /\ IsVia(r) /\ r.via.edge = t[1]
               /\ Labelled(h, src(r), r.src) /\ Labelled(h, via(r), r.via.label)
               /\ ~(chained /\ <<i, src(r)>> \in h.fired)
            THEN [ApplyFrom(h, i, src(r)) EXCEPT !.fired = @ \cup {<<i, src(r)>>}]
            ELSE h
    IN Reclaim(FoldLeft(fire, g, Ascending(g.rules)))

\* chain_from: the edges a level added or gave up are edges changed for the
\* rules that hop over them, at the next level.  (Without such a rule, when the
\* code does not chain, it does nothing.)
OverVia(g, ts) == SelectSeq(ts, LAMBDA t : \E i \in g.rules : IsVia(Def(i)) /\ Def(i).via.edge = t[1])
Level(g) ==
    FoldLeft(LAMBDA h, t : OnEdge(h, t, TRUE),
             [g EXCEPT !.deltas = << >>, !.fired = {}], OverVia(g, g.deltas))
Chain(g) ==
    LET h == FoldLeft(LAMBDA x, level : Level(x), g, [l \in 1 .. MaxChainDepth |-> l])
    IN [h EXCEPT !.deltas = << >>, !.fired = {}, !.doomed = None,
                 !.truncated = @ \/ OverVia(h, h.deltas) # << >>]

\* on_node_removed, with the node still there (doomed); db.rs then sweeps what
\* edges it has left.  The edges of a rule that touch it go without being
\* offered to others; the sources that lose a top-k pick or a hop are evaluated.
OnRemoved(g, n) ==
    LET was == g.value[n]
        backfill == {<<i, s>> \in g.rules \X (g.alive \ {n}) :
                        /\ IsTopK(Def(i))
                        /\ \/ <<Def(i).edge, s, n>> \in g.prov[i]
                           \/ Labelled(g, n, Def(i).dst) /\ s \in MatchedInto(Def(i), n, was, g)}
        behind == {<<i, s>> \in g.rules \X (g.alive \ {n}) : s \in Behind(Def(i), n, g)}
        bare == FoldLeft(LAMBDA h, i : Drop(h, i, Touching(h.prov[i], n)),
                         [g EXCEPT !.doomed = n], Ascending(g.rules))
        again(h, x) == ApplyFrom(h, x[1], x[2])
    IN Reclaim(FoldLeft(again, FoldLeft(again, bare, InOrder(backfill)), InOrder(behind)))

\* rebuild_inner: a rule without a top-k only if all it desires is in its budget,
\* and then it is no longer tripped.
RebuildInner(g, i) ==
    LET r == Def(i)
        all == Expected(r, g)
        fresh == Retract([g EXCEPT !.tripped[i] = FALSE], i, g.prov[i] \ all)
    IN IF ~IsTopK(r) /\ Cardinality(all) > case.budget THEN [g EXCEPT !.tripped[i] = TRUE]
       ELSE Reclaim(FoldLeft(LAMBDA h, t : Add(h, i, t), fresh, InOrder(all)))

-----------------------------------------------------------------------------
(* The writes (db.rs, apply).                                              *)

\* The edges of a type that some rule wants from s and that are not there.
Lacks(g, type, s) ==
    UNION {Wanted(Def(i), s, g) : i \in {j \in g.rules : Def(j).edge = type /\ ~g.tripped[j]}} \ g.edges

\* A hook ends with its chain.  The engine leaves out an edge knowingly when a
\* user deleted it (would_derive lets a delete through where a cap may bind), and
\* when a second round of retractions took it (reclaim_retracted does not follow
\* those); `holes` keeps track of both until nothing is missing there.
WriteBut(g, deleted) ==
    /\ LET h == Chain(g)
       IN /\ db' = [h EXCEPT !.unchased = {}]
          /\ holes' = {x \in holes \cup deleted \cup h.unchased : Lacks(h, x[1], x[2]) # {}}
    /\ UNCHANGED case
Write(g) == WriteBut(g, {})

Init ==
    /\ case \in Cases
    /\ db = [alive |-> {}, value |-> << >>, edges |-> {}, rules |-> {},
             prov |-> [i \in DOMAIN case.rules |-> {}],
             tripped |-> [i \in DOMAIN case.rules |-> FALSE],
             doomed |-> None, retracted |-> {}, unchased |-> {}, deltas |-> << >>, fired |-> {},
             truncated |-> FALSE]
    /\ user = {} /\ holes = {}

InsertNode ==
    /\ Len(db.value) < Len(case.labels)
    /\ LET n == Len(db.value) + 1 IN
       \E v \in [Fields -> UNION {case.values[n][f] : f \in Fields}] :
          /\ \A f \in Fields : v[f] \in case.values[n][f]
          /\ Write(OnNode([db EXCEPT !.alive = @ \cup {n}, !.value = Append(@, v)], n, Fields, v))
    /\ UNCHANGED user

\* SetProp, also to the value it has, and with an empty value RemoveProp, which
\* prepare_remove_prop passes over if there is none.
SetProp(n, f, v) ==
    /\ v = {} => db.value[n][f] # {}
    /\ Write(OnNode([db EXCEPT !.value[n][f] = v], n, {f}, db.value[n]))
    /\ UNCHANGED user

DeleteNode(n) ==
    /\ LET g == Chain(OnRemoved(db, n))
       IN Write([g EXCEPT !.alive = @ \ {n}, !.edges = @ \ Touching(@, n)])
    /\ user' = user \ Touching(user, n)

Owned == UNION {db.prov[i] : i \in db.rules}

\* prepare_insert_edge refuses an edge a rule owns; one that is there changes nothing.
MayInsertEdge(t) ==
    /\ {t[2], t[3]} \subseteq db.alive
    /\ t \notin Owned \cup db.edges

InsertEdge(t) ==
    /\ MayInsertEdge(t)
    /\ Write(OnEdge([db EXCEPT !.edges = @ \cup {t}], t, FALSE))
    /\ user' = user \cup {t}

\* A rule would derive the edge, whatever cap it has: one that may bind says no.
WouldDerive(t) ==
    \E i \in db.rules :
        LET r == Def(i)
            targets == Cardinality({d \in db.alive : Labelled(db, d, r.dst)})
        IN /\ r.edge = t[1] /\ t[2] # t[3]
           /\ Labelled(db, t[2], r.src) /\ Labelled(db, t[3], r.dst)
           /\ IF IsTopK(r) THEN targets =< r.k
              ELSE Cardinality(Sources(r, db)) * targets =< case.budget
           /\ Weight(r, t[2], t[3], db) > 0

\* prepare_delete_edge refuses an edge that a rule owns or would derive.
MayDeleteEdge(t) ==
    /\ t \in db.edges \ Owned
    /\ ~WouldDerive(t)

DeleteEdge(t) ==
    /\ MayDeleteEdge(t)
    /\ WriteBut(OnEdge([db EXCEPT !.edges = @ \ {t}], t, FALSE), {<<t[1], t[2]>>})
    /\ user' = user \ {t}

\* check_create_rule, find_cycle_through: from the edges the rule writes no
\* chain of hops leads to those it hops over.
Arcs(rules) == {<<Def(i).via.edge, Def(i).edge>> : i \in {j \in rules : IsVia(Def(j))}}
Reached(rules, e) ==
    FoldLeft(LAMBDA S, i : S \cup {a[2] : a \in {b \in Arcs(rules) : b[1] \in S}},
             {e}, Ascending(rules))
MayCreate(i) == IsVia(Def(i)) => Def(i).via.edge \notin Reached(db.rules \cup {i}, Def(i).edge)

CreateRule(i) ==
    /\ i \notin db.rules
    /\ MayCreate(i)
    /\ LET g == [db EXCEPT !.rules = @ \cup {i}, !.tripped[i] = FALSE]
       IN Write(FoldLeft(LAMBDA h, s : ApplyFrom(h, i, s), g, Ascending(Sources(Def(i), g))))
    /\ UNCHANGED user

DeleteRule(i) ==
    /\ i \in db.rules
    /\ LET g == [Drop(db, i, db.prov[i]) EXCEPT !.rules = @ \ {i}, !.tripped[i] = FALSE]
           same == {j \in g.rules : Def(j).edge = Def(i).edge}
       IN Write(FoldLeft(RebuildInner, g, Ascending(same)))
    /\ UNCHANGED user

RebuildRule(i) ==
    /\ i \in db.rules
    /\ Write(RebuildInner(db, i))
    /\ UNCHANGED user

Next ==
    \/ InsertNode
    \/ \E n \in db.alive :
          \/ \E f \in Fields : \E v \in case.values[n][f] : SetProp(n, f, v)
          \/ DeleteNode(n)
    \/ \E t \in case.user : InsertEdge(t) \/ DeleteEdge(t)
    \/ \E i \in DOMAIN case.rules : CreateRule(i) \/ DeleteRule(i) \/ RebuildRule(i)

Spec == Init /\ [][Next]_vars

-----------------------------------------------------------------------------
(* Properties.                                                             *)

\* No chain hit MAX_CHAIN_DEPTH with hops still to follow (chain_truncations).
Settled == ~db.truncated

\* Whatever sequence of writes led here, an edge a rule owns is one a rebuild of
\* the rule from scratch would derive: no hook (on_node_changed, on_edge_changed,
\* on_node_removed, their chains and reclaims) forgets a source whose edges a
\* write made wrong.  Left out is a via-hop rule that is tripped, for which
\* on_node_changed_via and reclaim_retracted apply nothing, retractions included.
NothingStale ==
    Settled => \A i \in db.rules :
        ~(IsVia(Def(i)) /\ db.tripped[i]) => db.prov[i] \subseteq Expected(Def(i), db)

\* And an edge a rebuild would derive is there, owned by this rule, by another, or
\* a user's: no edge is lost when its owner gives it up (ledger rows 37, 84), when a
\* better match another rule owned goes away (row 83), or when a hop appears or
\* disappears.  Left out are tripped rules and the holes the engine leaves knowingly.
NothingMissing ==
    Settled => \A i \in db.rules :
        ~db.tripped[i] =>
            \A t \in Expected(Def(i), db) : t \in db.edges \/ <<t[1], t[2]>> \in holes

\* Provenance and topology agree: every edge in the graph was written by a user or
\* is in the provenance of exactly one rule, every edge in a provenance is in the
\* graph, and no edge has lost an end.  Deleting a node is the hard case: the hook
\* and its chain run while the node still matches, and the sweep after it does not
\* touch provenance (ledger row 106).
EveryEdgeHasOneOwner ==
    /\ db.edges = user \cup Owned /\ user \cap Owned = {}
    /\ \A i, j \in db.rules : i # j => db.prov[i] \cap db.prov[j] = {}
    /\ \A t \in db.edges : {t[2], t[3]} \subseteq db.alive
=============================================================================
