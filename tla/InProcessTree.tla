---------------------------- MODULE InProcessTree ----------------------------
(* Tree, the rank assignment of the in-process wrapper that knows the         *)
(* topology (inprocess/rank_assignment.py).  Each rank keeps a copy of the    *)
(* tree and repairs it in every restart from the set of terminated ranks; the *)
(* copies agree as long as the sets do, so that one tree is modelled here.    *)
(*                                                                            *)
(* A leaf is named by its place in the depth-first order of the tree, a node  *)
(* by its layer and the leaves below it.                                      *)
EXTENDS Integers, FiniteSets, SequencesExt

CONSTANTS
    Setups    \* [layers, home, env, divisor]: the layers from the root down,
              \* each [min, max, reserve, backfill]; home[l][d], the node above
              \* leaf l at layer d; env, the rank a leaf has from its launcher;
              \* divisor, what world_size_filter makes the world divisible by

NoLimit == 0  \* max_ranks = None
None == -1

ASSUME SetupsAssumption ==
    \A s \in Setups : LET leaves == DOMAIN s.home  layers == DOMAIN s.layers IN
        /\ leaves = 0 .. Cardinality(leaves) - 1
        /\ {s.env[l] : l \in leaves} = leaves
        /\ \A d \in layers : s.layers[d].min \in Nat /\ s.layers[d].max \in Nat
        /\ \A l, m \in leaves : s.home[l][1] = s.home[m][1]
        /\ \A d \in layers, l, m \in leaves : s.home[l][d] = s.home[m][d] =>
              /\ d > 1 => s.home[l][d - 1] = s.home[m][d - 1]
              /\ \A k \in l .. m : s.home[k][d] = s.home[l][d]

VARIABLES
    setup,
    mode,               \* per leaf: "initialized", "active", "inactive", "terminated"
    active_rank,        \* per leaf, or None
    active_world_size,
    rank,               \* per leaf; those of terminated leaves come last
    world_size,
    inactive            \* the leaves in inactive_nodes of the root, oldest first;
                        \* those of a node below are its own leaves among them

vars == <<setup, mode, active_rank, active_world_size, rank, world_size, inactive>>

Leaves == DOMAIN setup.home
Layers == DOMAIN setup.layers
Layer(d) == setup.layers[d]

\* iter_leaves of the node above leaf l at layer d
Under(d, l) == {m \in Leaves : setup.home[m][d] = setup.home[l][d]}

Below(leaves, key, l) == {m \in leaves : key[m] < key[l]}

Sorted(leaves, key) ==
    [i \in 1 .. Cardinality(leaves) |->
        CHOOSE l \in leaves : Cardinality(Below(leaves, key, l)) = i - 1]

\* The layers from the lowest up to where a flag ends.
UpTo(flagged) == {d \in Layers : \A e \in d .. Len(setup.layers) : e \in flagged}

ReserveLayers  == UpTo({d \in Layers : Layer(d).reserve})
BackfillLayers == UpTo({d \in Layers : Layer(d).backfill})

-----------------------------------------------------------------------------
(* The first call: bounded_activate visits the leaves in order.               *)

HasRoom(active, l) ==
    \A d \in Layers :
        Layer(d).max = NoLimit \/ Cardinality(active \cap Under(d, l)) < Layer(d).max

Activated ==
    FoldLeft(LAMBDA active, l : IF HasRoom(active, l) THEN active \cup {l} ELSE active,
             {}, Sorted(Leaves, [l \in Leaves |-> l]))

Built ==
    LET active == Activated IN
    [mode |-> [l \in Leaves |-> IF l \in active THEN "active" ELSE "inactive"],
     active_rank |-> [l \in Leaves |->
         IF l \in active THEN Cardinality({m \in active : m < l}) ELSE None],
     size |-> Cardinality(active),
     inactive |-> Sorted(Leaves \ active, [l \in Leaves |-> l])]

Tree ==
    IF \E l \in Leaves : mode[l] = "initialized" THEN Built
    ELSE [mode |-> mode, active_rank |-> active_rank, size |-> active_world_size,
          inactive |-> inactive]

-----------------------------------------------------------------------------
(* propagate_terminations and Node.terminate                                  *)

Living(t) == {l \in Leaves : t.mode[l] # "terminated"}

TooFew(t, d, l, lost) == Cardinality((Under(d, l) \cap Living(t)) \ lost) < Layer(d).min

\* Mutant: parents are looked at before their children.
PropagateDownwards(t, lost) ==
    FoldLeft(LAMBDA gone, d : gone \cup {l \in Living(t) : TooFew(t, d, l, gone)},
             lost, [d \in Layers |-> d])

PropagateTerminations(t, lost) ==
    FoldLeft(LAMBDA gone, d : gone \cup {l \in Living(t) : TooFew(t, d, l, gone)},
             lost, Reverse([d \in Layers |-> d]))

Terminate(t, lost) ==
    [t EXCEPT !.mode = [l \in Leaves |-> IF l \in lost THEN "terminated" ELSE @[l]],
              !.inactive = SelectSeq(@, LAMBDA l : l \notin lost)]

-----------------------------------------------------------------------------
(* replace_with_inactive: the latest spare of the nearest node that has one.  *)

Spares(t, d, l) == SelectSeq(t.inactive, LAMBDA m : m \in Under(d, l))

\* Mutant: only the lowest layer is searched.
ReplaceInHost(t, l) ==
    IF ReserveLayers = {} \/ Spares(t, Len(setup.layers), l) = <<>> THEN t
    ELSE LET spare == Last(Spares(t, Len(setup.layers), l)) IN
         [t EXCEPT !.mode[spare] = "active",
                   !.active_rank[spare] = t.active_rank[l],
                   !.active_rank[l] = None,
                   !.inactive = SelectSeq(@, LAMBDA m : m # spare)]

Replace(t, l) ==
    LET found == {d \in ReserveLayers : Spares(t, d, l) # <<>>} IN
    IF found = {} THEN t
    ELSE LET spare == Last(Spares(t, Max(found), l)) IN
         [t EXCEPT !.mode[spare] = "active",
                   !.active_rank[spare] = t.active_rank[l],
                   !.active_rank[l] = None,
                   !.inactive = SelectSeq(@, LAMBDA m : m # spare)]

ReplaceWithInactive(t, lost) == FoldLeft(Replace, t, Sorted(lost, rank))

-----------------------------------------------------------------------------
(* replace_with_backfill and shift_ranks, for the lost ranks nobody replaced: *)
(* they still have their active rank.                                         *)

BackfillDomain(l) == IF BackfillLayers = {} THEN {} ELSE Under(Min(BackfillLayers), l)

\* In a domain the largest active ranks, as many as it has lost, take over lost
\* ones, both in order.  A move is a leaf and the lost one whose rank it takes.
MovesIn(t, domain, lost) ==
    LET active == Sorted({l \in domain : t.mode[l] = "active"}, t.active_rank)
        gaps   == Sorted(lost \cap domain, rank)
        n      == Min({Len(active), Len(gaps)})
    IN  {[leaf |-> active[Len(active) - n + i], gap |-> gaps[i]] : i \in 1 .. n}

\* Mutant: gaps are filled from anywhere in the tree.
BackfillFromAnywhere(t, lost) == IF BackfillLayers = {} THEN {} ELSE MovesIn(t, Leaves, lost)

ReplaceWithBackfill(t, lost) ==
    UNION {MovesIn(t, BackfillDomain(l), lost) : l \in lost}

\* replaced_active: the active ranks that fall vacant.
Vacant(t, lost, moves) ==
    {t.active_rank[l] : l \in (lost \ {m.gap : m \in moves}) \cup {m.leaf : m \in moves}}

ShiftRanks(t, lost) ==
    LET moves  == ReplaceWithBackfill(t, lost)
        vacant == Vacant(t, lost, moves)
        Moved(l) == {m.gap : m \in {n \in moves : n.leaf = l}}
        backfilled == [l \in Leaves |->
            t.active_rank[IF Moved(l) = {} THEN l ELSE CHOOSE g \in Moved(l) : TRUE]]
    IN  [t EXCEPT
            !.size = @ - Cardinality(lost),
            !.active_rank = [l \in Leaves |->
                IF backfilled[l] = None THEN None
                ELSE backfilled[l] - Cardinality({v \in vacant : v < backfilled[l]})]]

-----------------------------------------------------------------------------
(* filter_active_world_size                                                   *)
FilterActiveWorldSize(t) ==
    LET size == (t.size \div setup.divisor) * setup.divisor
        over == {l \in Leaves : t.mode[l] = "active" /\ t.active_rank[l] >= size}
    IN  [t EXCEPT !.size = size,
                  !.mode = [l \in Leaves |-> IF l \in over THEN "inactive" ELSE @[l]],
                  !.active_rank = [l \in Leaves |-> IF l \in over THEN None ELSE @[l]],
                  !.inactive = @ \o Sorted(over, [l \in Leaves |-> l])]

(* recompute_rank: the living leaves first.                                   *)
RecomputedRank(t, l) ==
    IF l \in Living(t) THEN Cardinality({m \in Living(t) : m < l})
    ELSE Cardinality(Living(t)) + Cardinality({m \in Leaves \ Living(t) : m < l})

-----------------------------------------------------------------------------
Init ==
    /\ setup \in Setups
    /\ mode = [l \in Leaves |-> "initialized"]
    /\ active_rank = [l \in Leaves |-> None]
    /\ active_world_size = 0
    /\ rank = [l \in Leaves |-> setup.env[l]]
    /\ world_size = Cardinality(Leaves)
    /\ inactive = <<>>

(* What __call__ makes of a tree that loses leaves.                           *)
Repaired(tree, lost) ==
    LET activeLost == {l \in lost : tree.mode[l] = "active"}
        replaced   == ReplaceWithInactive(Terminate(tree, lost), activeLost)
        unhandled  == {l \in activeLost : replaced.active_rank[l] # None}
        repaired   == IF unhandled = {} THEN replaced ELSE ShiftRanks(replaced, unhandled)
    IN [FilterActiveWorldSize(repaired) EXCEPT
            !.active_rank = [l \in Leaves |-> IF l \in lost THEN None ELSE @[l]]]

(* __call__ of every rank, with the leaves of the ranks in terminated_ranks.  *)
(* The quantifiers name a value, so that it is computed once.                 *)
Call(terminated) ==
    \E lost \in {PropagateTerminations(Tree, terminated)} :
        \E t \in {Repaired(Tree, lost)} :
            /\ mode' = t.mode
            /\ active_rank' = t.active_rank
            /\ active_world_size' = t.size
            /\ inactive' = t.inactive
            /\ world_size' = world_size - Cardinality(lost)
            /\ rank' = [l \in Leaves |-> RecomputedRank(t, l)]
            /\ UNCHANGED setup

(* CallWrapper.__call__: once before the first iteration, then in each        *)
(* restart with what the store says has terminated in it.                     *)
FirstCall == (\E l \in Leaves : mode[l] = "initialized") /\ Call({})

Restart(terminated) ==
    /\ \A l \in Leaves : mode[l] # "initialized"
    /\ \A l \in terminated : mode[l] # "terminated"
    /\ Call(terminated)

Next == FirstCall \/ \E terminated \in SUBSET Leaves : Restart(terminated)

Spec == Init /\ [][Next]_vars
=============================================================================
