----------------------- MODULE InProcessTreeProperties -----------------------
(* What Tree promises the function that is restarted.                         *)
EXTENDS InProcessTree

ActiveLeaves == {l \in Leaves : mode[l] = "active"}
Alive == {l \in Leaves : mode[l] # "terminated"}

(* After every repair the active leaves have the active ranks from 0 to       *)
(* active_world_size - 1 and the living ones the ranks from 0 to              *)
(* world_size - 1, each once, and the pool of spares is what is neither       *)
(* active nor terminated: replacing, backfilling, shifting and filtering in   *)
(* one call, call after call, lose or duplicate no rank.                      *)
RanksAreConsecutive ==
    /\ {active_rank[l] : l \in ActiveLeaves} = 0 .. active_world_size - 1
    /\ Cardinality(ActiveLeaves) = active_world_size
    /\ {rank[l] : l \in Alive} = 0 .. world_size - 1
    /\ Cardinality(Alive) = world_size
    /\ Range(inactive) = Alive \ ActiveLeaves
    /\ \A l \in Leaves \ ActiveLeaves : active_rank[l] = None

(* A node has no living leaf or as many as min_ranks asks for, at every layer *)
(* of the tree: what a termination takes down in one branch counts in the     *)
(* branches above it.                                                         *)
BranchesAreWholeOrGone ==
    \A d \in Layers, l \in Alive : Cardinality(Under(d, l) \cap Alive) >= Layer(d).min

(* What every call of Tree returns is sound, in its ranks and its branches.   *)
TreeIsSound ==
    (\A l \in Leaves : mode[l] # "initialized") =>
        RanksAreConsecutive /\ BranchesAreWholeOrGone

(* The world shrinks only where no spare is left: the widest node that is     *)
(* searched for spares has as many active leaves after a repair as before     *)
(* when one of its spares is still in reserve, whatever nodes below lost or   *)
(* gave away (a filter of the world size makes spares of its own).            *)
SparesAreUsed ==
    [][\A m \in Leaves :
          /\ mode[m] = "inactive" /\ mode'[m] = "inactive"
          /\ ReserveLayers # {} /\ setup.divisor = 1
          =>
              LET domain == Under(Min(ReserveLayers), m)
              IN  Cardinality(ActiveLeaves' \cap domain) >= Cardinality(ActiveLeaves \cap domain)]_vars

(* A repair moves no rank it need not move.  While the active world keeps its *)
(* size every survivor keeps its active rank; when it shrinks, survivors that *)
(* have lost nobody in their backfill domain keep their order and only move   *)
(* down.                                                                      *)
Survivors == {l \in ActiveLeaves : mode'[l] = "active"}
Bereft == {l \in Leaves : \E m \in BackfillDomain(l) : mode[m] # "terminated" /\ mode'[m] = "terminated"}

RepairIsLocal ==
    [][/\ active_world_size' = active_world_size =>
              \A l \in Survivors : active_rank'[l] = active_rank[l]
       /\ \A l, m \in Survivors \ Bereft :
              /\ active_rank'[l] <= active_rank[l]
              /\ active_rank[l] < active_rank[m] => active_rank'[l] < active_rank'[m]]_vars

(* rank_assignment.py:271: max_ranks is "the maximum number of ranks to       *)
(* activate in a subtree".                                                    *)
MaxRanksHolds ==
    \A d \in Layers, l \in Leaves :
        Layer(d).max # NoLimit =>
            Cardinality(ActiveLeaves \cap Under(d, l)) <= Layer(d).max
=============================================================================
