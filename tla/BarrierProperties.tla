------------------------- MODULE BarrierProperties -------------------------
(***************************************************************************)
(* What the rendezvous barrier promises.                                   *)
(***************************************************************************)
EXTENDS BarrierRendezvous

Labels == {"init", "initSet", "keyCheck", "keySet", "s0", "s0read", "count", "mark", "add",
           "rankGet", "rankSet", "slotGet", "slotSet",
           "close", "probe", "fetch", "decide", "assign", "finish",
           "s3", "s3done", "s3rank", "active", "open",
           "stop", "stopOpen", "fault", "conflict", "gone"}

Groups == {Group[n] : n \in Launchers}

StoreTypeOK ==
    /\ round_done \in [Rounds -> {"absent", "open", "closed"}]
    /\ join_count \in [Rounds -> 0 .. MaxSlots]
    /\ slot_key \in [Slots -> SlotValues]
    /\ rank_key \in [Slots -> RankValues]
    /\ shutdown \in Reasons \cup {"absent", "empty"}
    /\ unhealthy_count \in Nat
    /\ unhealthy_groups \in [Rounds -> SUBSET Groups]

LocalTypeOK ==
    /\ pc \in [Procs -> Labels]
    /\ round \in [Procs -> Rounds]
    /\ slot \in [Procs -> Slots \cup {0}]
    /\ expected \in [Procs -> SlotValues \cup RankValues]
    /\ rank \in [Procs -> Int]

HostTypeOK ==
    /\ present \subseteq Slots /\ probed \in 0 .. MaxSlots
    /\ snapshot \in [Slots -> Launchers \cup {NoNode}]
    /\ gate \in {"unset", "armed", "expired"}
    /\ previous_active \subseteq Int \X Groups

(* Every variable holds a value of its kind: in particular the keys only ever
   hold round-fenced values of launchers that exist. *)
TypeOK == StoreTypeOK /\ LocalTypeOK /\ HostTypeOK

-----------------------------------------------------------------------------
(* Joining *)

(* Two launchers in one round never hold the same slot, whatever crashes,
   timeouts and reopened rounds do: the slot is what store.add returned. *)
SlotExclusive ==
    \A m, n \in Launchers :
        m # n /\ round[m] = round[n] /\ slot[m] # 0 => slot[m] # slot[n]

(* _round_fenced_compare_set calls a different value of the same round in a
   slot's keys a violation of the protocol: nobody ever finds one. *)
NoSameRoundConflict == \A n \in Procs : pc[n] # "conflict"

(* ... and a compare_set lost to an older round is "unexpected": while every
   launcher is needed in every round it does not happen, nor do two nodes with
   one infrastructure rank end the host. *)
NoUnexpectedConflict == \A n \in Procs : pc[n] # "fault"

(* The fence of the reused keys: what a slot holds for round r is never
   replaced by a value of an older round, neither by a slow joiner nor by the
   host's unconditional multi_set. *)
FenceMonotone ==
    [][ \A k \in Slots : /\ slot_key'[k].round >= slot_key[k].round
                         /\ rank_key'[k].round >= rank_key[k].round ]_vars

-----------------------------------------------------------------------------
(* Closing *)

(* A closed round stays closed: open_rendezvous and __init__ only create the
   key of a round, they never write over it. *)
ClosedStaysClosed ==
    [][ \A r \in Rounds : round_done[r] = "closed" => round_done'[r] = "closed" ]_vars

(* When round_done becomes 1, the keys already hold the whole assignment: each
   of the MinNodes active ranks is in exactly one slot, in a slot that a
   launcher of this round filled.  So whoever sees the 1 can read its rank. *)
ClosingPublishesRanks ==
    [][ \A r \in Rounds :
          round_done[r] = "open" /\ round_done'[r] = "closed" =>
            \A i \in 0 .. MinNodes - 1 :
              \E k \in Slots :
                /\ rank_key[k] = [round |-> r, rank |-> i]
                /\ slot_key[k].round = r
                /\ \A j \in Slots :
                     rank_key[j] = [round |-> r, rank |-> i] => j = k ]_vars

(* Two launchers that run workers in one round have different group ranks,
   although they read their ranks from keys that later rounds reuse. *)
DistinctActiveRanks ==
    \A m, n \in Launchers :
        /\ m # n /\ pc[m] = "active" /\ pc[n] = "active" /\ round[m] = round[n]
        => rank[m] # rank[n]

(* Rounds are opened one after the other: a next round exists while its
   predecessor is not closed only if the job is being shut down. *)
RoundsOpenInOrder ==
    \A r \in 0 .. MaxRound :
        round_done[r + 1] # "absent" /\ round_done[r] # "closed" => IsShutdown

RankedActive(r) ==
    {n \in Launchers : \E k \in Slots : /\ slot_key[k] = [round |-> r, node |-> n]
                                        /\ rank_key[k].round = r /\ IsActive(rank_key[k].rank)}

(* The host replaces nodes only as it should: it keeps no node whose replacement
   group is marked unhealthy this round, although that node's keys may still be
   in the store, and gives active ranks to the nodes it kept; and as long as the
   last call has not expired, it leaves out no previously active node of a
   healthy group. *)
DecisionReplacesOnlyTheLost ==
    [][ LET r == round[Host]
            kept(s) == {s[k] : k \in Slots} \ {NoNode}
        IN
        /\ pc[Host] = "decide" /\ pc'[Host] = "assign" =>
              /\ \A n \in kept(snapshot') : Group[n] \notin unhealthy_groups[r]
              /\ GateEnabled /\ gate # "expired" =>
                    \A a \in previous_active :
                       a[2] \in unhealthy_groups[r] \/ \E n \in kept(snapshot') : Infra[n] = a[1]
        /\ pc[Host] = "assign" /\ pc'[Host] = "finish" =>
              RankedActive(r)' \subseteq kept(snapshot) ]_vars

(* With replacement groups configured, the active nodes of a round that closes
   belong to groups of which ReplacementGroupSize members joined. *)
WorldOfCompleteGroups ==
    [][ \A r \in Rounds : round_done[r] = "open" /\ round_done'[r] = "closed" =>
          \A n \in RankedActive(r) :
             Cardinality({m \in Launchers : /\ Group[m] = Group[n]
                             /\ \E k \in Slots : slot_key[k] = [round |-> r, node |-> m]})
               >= ReplacementGroupSize ]_vars

(* The first reason recorded in the shutdown key stays: every node that ends
   later maps it to the same exit code. *)
FirstReasonStays == [][IsShutdown => shutdown' = shutdown]_vars

-----------------------------------------------------------------------------
(* Progress *)

(* An open round closes, or the job is being shut down: nobody waits for ever
   in Step 2 or 3 although all the launchers are alive. *)
OpenRoundResolves ==
    \A r \in Rounds : round_done[r] = "open" ~> round_done[r] = "closed" \/ IsShutdown

(* The two store writes of signal_no_restart end the job on every node. *)
StopEndsEveryLauncher ==
    shutdown = "no_restart" ~> \A n \in Procs : pc[n] = "gone"
=============================================================================
