-------------------------- MODULE InProcessProofs --------------------------
(* What the in-process wrapper promises, for every number of ranks, of        *)
(* restarts and of faults, when no main process is killed where its monitor   *)
(* process does not know of its iteration, or at the iteration barrier.       *)
EXTENDS InProcessProperties, FiniteSetTheorems, TLAPS

(* The new rank of rank r when the ranks T are terminated.                    *)
Shifted(r, T) == r - Cardinality({t \in T : r > t})

(* Between two numbers there are so many of a set.                            *)
LEMMA FewBetween ==
    \A T : \A a, b \in Int : a <= b + 1 /\ (\A t \in T : t \in a .. b) =>
        /\ IsFiniteSet(T) /\ Cardinality(T) \in 0 .. b - a + 1
        /\ Cardinality(T) = b - a + 1 => T = a .. b
<1> SUFFICES ASSUME NEW T, NEW a \in Int, NEW b \in Int, a <= b + 1,
                    \A t \in T : t \in a .. b
             PROVE  /\ IsFiniteSet(T) /\ Cardinality(T) \in 0 .. b - a + 1
                    /\ Cardinality(T) = b - a + 1 => T = a .. b
  OBVIOUS
<1>1. IsFiniteSet(a .. b) /\ Cardinality(a .. b) = b - a + 1  BY FS_Interval
<1>2. T \in SUBSET (a .. b)  OBVIOUS
<1>3. IsFiniteSet(T) /\ Cardinality(T) <= b - a + 1
      /\ (Cardinality(a .. b) = Cardinality(T) => a .. b = T)
  BY <1>1, <1>2, FS_Subset
<1>4. Cardinality(T) \in Nat  BY <1>3, FS_CardinalityType
<1>5. Cardinality(T) \in 0 .. b - a + 1  BY <1>3, <1>4
<1> QED BY <1>1, <1>3, <1>5

(* A set of ranks of a world is finite, and no larger than the world.         *)
LEMMA FewRanks ==
    ASSUME NEW w \in Nat, NEW T, \A t \in T : t \in 0 .. w - 1
    PROVE  /\ IsFiniteSet(T) /\ Cardinality(T) \in 0 .. w
           /\ Cardinality(T) = w => T = 0 .. w - 1
<1>1. 0 \in Int /\ w - 1 \in Int /\ 0 <= (w - 1) + 1 /\ (w - 1) - 0 + 1 = w  OBVIOUS
<1> QED BY <1>1, FewBetween

(* A set and a part of it that is split in two.                               *)
LEMMA Parts ==
    ASSUME NEW A, NEW B, IsFiniteSet(A), IsFiniteSet(B)
    PROVE  /\ IsFiniteSet(A \cup B)
           /\ Cardinality(A \cup B) \in Nat
           /\ Cardinality(A \cup B) <= Cardinality(A) + Cardinality(B)
<1>1. IsFiniteSet(A \cap B)  BY FS_Subset
<1>2. Cardinality(A) \in Nat /\ Cardinality(B) \in Nat /\ Cardinality(A \cap B) \in Nat
  BY <1>1, FS_CardinalityType
<1>3. IsFiniteSet(A \cup B)
      /\ Cardinality(A \cup B) = Cardinality(A) + Cardinality(B) - Cardinality(A \cap B)
  BY FS_Union
<1> QED BY <1>2, <1>3, FS_CardinalityType

(* A rank that stays has a place in the smaller world.                        *)
LEMMA ShiftedFits ==
    ASSUME NEW w \in Nat, NEW T, \A t \in T : t \in 0 .. w - 1,
           NEW r \in 0 .. w - 1, r \notin T
    PROVE  /\ Shifted(r, T) \in Nat /\ Shifted(r, T) < w - Cardinality(T)
           /\ w - Cardinality(T) \in 1 .. w
<1> DEFINE Low == {t \in T : r > t}
           High == {t \in T : t > r}
<1>1. IsFiniteSet(T) /\ Cardinality(T) \in 0 .. w  BY FewRanks
<1>2. IsFiniteSet(Low) /\ Cardinality(Low) \in 0 .. r
  <2>1. \A t \in Low : t \in 0 .. r - 1  OBVIOUS
  <2>2. 0 \in Int /\ r - 1 \in Int /\ 0 <= (r - 1) + 1  OBVIOUS
  <2> HIDE DEF Low
  <2>3. IsFiniteSet(Low) /\ Cardinality(Low) \in 0 .. (r - 1) - (0) + 1
    BY <2>1, <2>2, FewBetween
  <2> QED BY <2>3
<1>3. IsFiniteSet(High) /\ Cardinality(High) \in 0 .. w - 1 - r
  <2>1. \A t \in High : t \in r + 1 .. w - 1  OBVIOUS
  <2>2. r + 1 \in Int /\ w - 1 \in Int /\ r + 1 <= (w - 1) + 1  OBVIOUS
  <2> HIDE DEF High
  <2>3. IsFiniteSet(High) /\ Cardinality(High) \in 0 .. (w - 1) - (r + 1) + 1
    BY <2>1, <2>2, FewBetween
  <2> QED BY <2>3
<1>4. T = Low \cup High  OBVIOUS
<1>5. Shifted(r, T) = r - Cardinality(Low)  BY DEF Shifted
<1> HIDE DEF Low, High
<1>6. Cardinality(T) <= Cardinality(Low) + Cardinality(High)  BY <1>2, <1>3, <1>4, Parts
<1> QED BY <1>1, <1>2, <1>3, <1>5, <1>6

(* Ranks that stay keep their order.                                          *)
LEMMA ShiftedGrows ==
    ASSUME NEW w \in Nat, NEW T, \A t \in T : t \in 0 .. w - 1,
           NEW r \in Nat, NEW s \in 0 .. w - 1, r \notin T, s \notin T, r < s
    PROVE  Shifted(r, T) < Shifted(s, T)
<1> DEFINE Low(x) == {t \in T : x > t}
           Mid == {t \in T : t > r /\ s > t}
<1>1. IsFiniteSet(Low(r)) /\ Cardinality(Low(r)) \in 0 .. r
  <2>1. \A t \in Low(r) : t \in 0 .. r - 1  OBVIOUS
  <2>2. 0 \in Int /\ r - 1 \in Int /\ 0 <= (r - 1) + 1  OBVIOUS
  <2> HIDE DEF Low
  <2>3. IsFiniteSet(Low(r)) /\ Cardinality(Low(r)) \in 0 .. (r - 1) - (0) + 1
    BY <2>1, <2>2, FewBetween
  <2> QED BY <2>3
<1>2. IsFiniteSet(Mid) /\ Cardinality(Mid) \in 0 .. s - r - 1
  <2>1. \A t \in Mid : t \in r + 1 .. s - 1  OBVIOUS
  <2>2. r + 1 \in Int /\ s - 1 \in Int /\ r + 1 <= (s - 1) + 1  OBVIOUS
  <2> HIDE DEF Mid
  <2>3. IsFiniteSet(Mid) /\ Cardinality(Mid) \in 0 .. (s - 1) - (r + 1) + 1
    BY <2>1, <2>2, FewBetween
  <2> QED BY <2>3
<1>3. Low(s) = Low(r) \cup Mid  OBVIOUS
<1>4. Shifted(r, T) = r - Cardinality(Low(r)) /\ Shifted(s, T) = s - Cardinality(Low(s))
  BY DEF Shifted
<1> HIDE DEF Low, Mid
<1>5. Cardinality(Low(s)) \in Nat /\ Cardinality(Low(s)) <= Cardinality(Low(r)) + Cardinality(Mid)
  BY <1>1, <1>2, <1>3, Parts
<1> QED BY <1>1, <1>2, <1>4, <1>5

(* Two ranks that stay never get the same new rank.                           *)
LEMMA ShiftedDiffers ==
    ASSUME NEW w \in Nat, NEW T, \A t \in T : t \in 0 .. w - 1,
           NEW r \in 0 .. w - 1, NEW s \in 0 .. w - 1, r \notin T, s \notin T,
           Shifted(r, T) = Shifted(s, T)
    PROVE  r = s
<1>1. Shifted(r, T) \in Nat  BY ShiftedFits
<1>2. CASE r < s  BY <1>1, <1>2, ShiftedGrows
<1>3. CASE s < r  BY <1>1, <1>3, ShiftedGrows
<1> QED BY <1>2, <1>3

-----------------------------------------------------------------------------
(* The places where a main process may be killed without harm: all but the    *)
(* start of an iteration and the iteration barrier.                           *)
KilledAt ==
    {"run", "raised", "hung", "stuck", "complete", "restart",
     "exit", "recorded", "leaving", "ending"}

Labels == Working \cup {"barrier", "exit", "recorded", "leaving", "ending",
                        "hosting", "gone", "failed", "dead"}

(* Where the main process of a rank is that was recorded as terminated.       *)
Lost == {"dead", "recorded", "leaving", "ending", "hosting", "gone", "failed"}

Keys == [interrupted : BOOLEAN, completed : BOOLEAN, terminated : SUBSET Ranks,
         owner : [Ranks -> Ranks \cup {NoOne}], finished : Nat,
         all_finished : BOOLEAN, arrived : SUBSET Ranks, released : BOOLEAN]

Shape ==
    /\ store \in [Iterations -> Keys]
    /\ main \in [Ranks -> Labels]
    /\ state \in [Ranks -> States]
    /\ monitor \in [Ranks -> {"on", "mourning", "recorded", "leaving", "over"}]
    /\ view \in [Ranks -> States \cup {NoView}]
    /\ watching \in [Ranks -> BOOLEAN]
    /\ queue \in [Ranks -> Seq(Messages)]

(* The world of an iteration: who arrived at the barrier before it, without   *)
(* the terminated.                                                            *)
WorldOf(k) ==
    IF k = 0 THEN World
    ELSE Cardinality(store[k - 1].arrived) - Cardinality(store[k - 1].terminated)

(* A rank owns its place in its iteration, and comes past every barrier on    *)
(* the way.                                                                   *)
Placed == \A i \in Ranks :
    /\ store[Iter(i)].owner[state[i].rank] = i
    /\ state[i].world = WorldOf(Iter(i)) /\ state[i].rank < state[i].world
    /\ \A k \in Iterations : k < Iter(i) => store[k].released

(* The owner of a place has it now, or had it and was not terminated.         *)
Owned == \A k \in Iterations : \A r, j \in Ranks : store[k].owner[r] = j =>
    /\ Iter(j) >= k /\ r < WorldOf(k)
    /\ Iter(j) = k => r = state[j].rank
    /\ Iter(j) > k => r \notin store[k].terminated

(* ... and came to it from a place in the iteration before.                   *)
Came == \A k \in Iterations : \A r, j \in Ranks :
    k + 1 \in Iterations /\ store[k + 1].owner[r] = j =>
        \E q \in Ranks : /\ store[k].owner[q] = j /\ q \notin store[k].terminated
                         /\ r = Shifted(q, store[k].terminated)

(* Only owned places are marked.                                              *)
Marked == \A k \in Iterations : \A r \in Ranks :
    r \in store[k].arrived \/ r \in store[k].terminated => store[k].owner[r] \in Ranks

(* The barrier lets go when the whole world has arrived.                      *)
Full == \A k \in Iterations :
    store[k].released => store[k].arrived = 0 .. WorldOf(k) - 1 /\ WorldOf(k) \in Nat \ {0}

WorldInv == Placed /\ Owned /\ Came /\ Marked /\ Full

(* Who has arrived waits or is terminated, and who is terminated is lost.     *)
Calm == \A i \in Ranks :
    /\ state[i].rank \in Here(i).arrived =>
          main[i] = "barrier" \/ state[i].rank \in Here(i).terminated
    /\ state[i].rank \in Here(i).terminated => main[i] \in Lost
    /\ main[i] = "recorded" \/ monitor[i] = "recorded" => state[i].rank \in Here(i).terminated
    /\ main[i] \in {"restart", "barrier"} => Iter(i) < MaxIterations

-----------------------------------------------------------------------------
(* A step of the store: the ranks R arrive at the barrier of iteration k, and *)
(* the ranks D are terminated.                                                *)
Grows(k, R, D) ==
    /\ \A l \in Iterations : store'[l].owner = store[l].owner
    /\ \A l \in Iterations : l # k =>
          /\ store'[l].arrived = store[l].arrived
          /\ store'[l].terminated = store[l].terminated
          /\ store'[l].released = store[l].released
    /\ store'[k].arrived = store[k].arrived \cup R
    /\ store'[k].terminated = store[k].terminated \cup D
    /\ store'[k].released <=>
          \/ store[k].released
          \/ R # {} /\ Cardinality(store[k].arrived \cup R) = WorldOf(k)

(* Nobody is marked behind the back of those who left.                        *)
Permitted(k, R, D) ==
    /\ \A r \in R \cup D : store[k].owner[r] \in Ranks /\ Iter(store[k].owner[r]) = k
    /\ store[k].released => R \subseteq store[k].arrived /\ D \subseteq store[k].terminated

LEMMA KeysOf ==
    ASSUME Shape, NEW k \in Iterations
    PROVE  /\ \A r \in store[k].arrived : r \in Ranks
           /\ \A r \in store[k].terminated : r \in Ranks
           /\ store[k].owner \in [Ranks -> Ranks \cup {NoOne}]
           /\ store[k].released \in BOOLEAN
           /\ Cardinality(store[k].arrived) \in Nat /\ Cardinality(store[k].terminated) \in Nat
<1>1. store[k] \in Keys  BY DEF Shape
<1>2. /\ \A r \in store[k].arrived : r \in Ranks
      /\ \A r \in store[k].terminated : r \in Ranks
  BY <1>1 DEF Keys
<1>3. \A T : (\A t \in T : t \in Ranks) => Cardinality(T) \in Nat
  <2> SUFFICES ASSUME NEW T, \A t \in T : t \in Ranks PROVE Cardinality(T) \in Nat
    OBVIOUS
  <2>1. World \in Nat /\ \A t \in T : t \in 0 .. World - 1  BY SizesAssumption DEF Ranks
  <2>2. Cardinality(T) \in 0 .. World  BY <2>1, FewRanks
  <2> QED BY <2>1, <2>2
<1>4. Cardinality(store[k].arrived) \in Nat /\ Cardinality(store[k].terminated) \in Nat
  BY <1>2, <1>3
<1> QED BY <1>1, <1>2, <1>4 DEF Keys

LEMMA WorldOfType ==
    ASSUME Shape, NEW k \in Iterations
    PROVE  WorldOf(k) \in Int
<1>1. CASE k = 0  BY <1>1, SizesAssumption DEF WorldOf
<1>2. CASE k # 0
  <2>1. k - 1 \in Iterations  BY <1>2, SizesAssumption DEF Iterations
  <2>2. /\ Cardinality(store[k - 1].arrived) \in Nat
        /\ Cardinality(store[k - 1].terminated) \in Nat
    BY <2>1, KeysOf
  <2> QED BY <1>2, <2>2 DEF WorldOf
<1> QED BY <1>1, <1>2

(* The world of an iteration that somebody reached is settled.                *)
LEMMA WorldStays ==
    ASSUME Shape, NEW k \in Iterations, NEW R, NEW D, Grows(k, R, D), Permitted(k, R, D),
           NEW l \in Iterations, l = 0 \/ store[l - 1].released
    PROVE  WorldOf(l)' = WorldOf(l)
<1>1. CASE l = 0  BY <1>1 DEF WorldOf
<1>2. CASE l # 0 /\ l - 1 # k
  <2>1. l - 1 \in Iterations  BY <1>2, SizesAssumption DEF Iterations
  <2>2. /\ store'[l - 1].arrived = store[l - 1].arrived
        /\ store'[l - 1].terminated = store[l - 1].terminated
    BY <1>2, <2>1 DEF Grows
  <2> QED BY <1>2, <2>2 DEF WorldOf
<1>3. CASE l # 0 /\ l - 1 = k
  <2>1. R \subseteq store[k].arrived /\ D \subseteq store[k].terminated
    BY <1>3 DEF Permitted
  <2>2. /\ store'[l - 1].arrived = store[l - 1].arrived
        /\ store'[l - 1].terminated = store[l - 1].terminated
    BY <1>3, <2>1 DEF Grows
  <2> QED BY <1>3, <2>2 DEF WorldOf
<1> QED BY <1>1, <1>2, <1>3

(* Iterations in which somebody owns a place have been reached.               *)
LEMMA Reached ==
    ASSUME Shape, Placed, Owned, NEW l \in Iterations, NEW r \in Ranks,
           store[l].owner[r] \in Ranks
    PROVE  l = 0 \/ store[l - 1].released
<1> DEFINE j == store[l].owner[r]
<1>1. j \in Ranks /\ Iter(j) >= l  BY DEF Owned
<1>2. Iter(j) \in Iterations  BY <1>1 DEF Shape, States, Iter
<1>3. CASE l # 0
  <2>1. l - 1 \in Iterations /\ l - 1 < Iter(j)
    BY <1>1, <1>2, <1>3, SizesAssumption DEF Iterations
  <2> QED BY <1>1, <2>1 DEF Placed
<1> QED BY <1>3

(* Such a step changes nobody's place.                                        *)
LEMMA WorldStep ==
    ASSUME Shape, Shape', WorldInv, state' = state, NEW k \in Iterations,
           NEW R \in SUBSET Ranks, NEW D \in SUBSET Ranks, Grows(k, R, D), Permitted(k, R, D)
    PROVE  WorldInv'
<1>1. Placed /\ Owned /\ Came /\ Marked /\ Full  BY DEF WorldInv
<1>2. \A l \in Iterations : \A r \in Ranks :
          store[l].owner[r] \in Ranks => WorldOf(l)' = WorldOf(l)
  BY <1>1, Reached, WorldStays
<1>3. \A i \in Ranks : Iter(i) \in Iterations /\ state[i].rank \in Ranks /\ Iter(i)' = Iter(i)
  BY DEF Shape, States, Iter
<1>4. \A l \in Iterations : store'[l].owner = store[l].owner  BY DEF Grows
<1>5. \A l \in Iterations : store[l].released =>
          /\ store'[l].arrived = store[l].arrived
          /\ store'[l].terminated = store[l].terminated
          /\ store'[l].released
  BY DEF Grows, Permitted
<1>6. Placed'
  <2> SUFFICES ASSUME NEW i \in Ranks
               PROVE  /\ store'[Iter(i)'].owner[state'[i].rank] = i
                      /\ state'[i].world = WorldOf(Iter(i))' /\ state'[i].rank < state'[i].world
                      /\ \A l \in Iterations : l < Iter(i)' => store'[l].released
    BY DEF Placed
  <2>1. /\ store[Iter(i)].owner[state[i].rank] = i
        /\ state[i].world = WorldOf(Iter(i)) /\ state[i].rank < state[i].world
        /\ \A l \in Iterations : l < Iter(i) => store[l].released
    BY <1>1 DEF Placed
  <2>2. PICK n \in Iterations : n = Iter(i)  BY <1>3
  <2>3. WorldOf(n)' = WorldOf(n)  BY <1>2, <1>3, <2>1, <2>2
  <2>4. WorldOf(Iter(i))' = WorldOf(n)'  BY <1>3, <2>2 DEF WorldOf
  <2> QED BY <1>3, <1>4, <1>5, <2>1, <2>2, <2>3, <2>4
<1>7. Owned'
  <2> SUFFICES ASSUME NEW l \in Iterations, NEW r \in Ranks, NEW j \in Ranks,
                      store'[l].owner[r] = j
               PROVE  /\ Iter(j)' >= l /\ r < WorldOf(l)'
                      /\ Iter(j)' = l => r = state'[j].rank
                      /\ Iter(j)' > l => r \notin store'[l].terminated
    BY DEF Owned
  <2>1. store[l].owner[r] = j  BY <1>4
  <2>2. /\ Iter(j) >= l /\ r < WorldOf(l)
        /\ Iter(j) = l => r = state[j].rank
        /\ Iter(j) > l => r \notin store[l].terminated
    BY <1>1, <2>1 DEF Owned
  <2>3. Iter(j) > l => store[l].released  BY <1>1 DEF Placed
  <2> QED BY <1>2, <1>3, <1>5, <2>1, <2>2, <2>3
<1>8. Came'
  <2> SUFFICES ASSUME NEW l \in Iterations, NEW r \in Ranks, NEW j \in Ranks,
                      l + 1 \in Iterations, store'[l + 1].owner[r] = j
               PROVE  \E q \in Ranks : /\ store'[l].owner[q] = j /\ q \notin store'[l].terminated
                                       /\ r = Shifted(q, store'[l].terminated)
    BY DEF Came
  <2>1. store[l + 1].owner[r] = j  BY <1>4
  <2>2. store[l].released
    <3>1. l + 1 # 0 /\ (l + 1) - 1 = l  BY SizesAssumption DEF Iterations
    <3> QED BY <1>1, <2>1, <3>1, Reached
  <2>3. store'[l].terminated = store[l].terminated  BY <1>5, <2>2
  <2> QED BY <1>1, <1>4, <2>1, <2>3 DEF Came
<1>9. Marked'
  <2> SUFFICES ASSUME NEW l \in Iterations, NEW r \in Ranks,
                      r \in store'[l].arrived \/ r \in store'[l].terminated
               PROVE  store'[l].owner[r] \in Ranks
    BY DEF Marked
  <2>1. CASE r \in store[l].arrived \/ r \in store[l].terminated  BY <1>1, <1>4, <2>1 DEF Marked
  <2>2. CASE l = k /\ r \in R \cup D  BY <1>4, <2>2 DEF Permitted
  <2> QED BY <2>1, <2>2 DEF Grows
<1>10. Full'
  <2> SUFFICES ASSUME NEW l \in Iterations, store'[l].released
               PROVE  store'[l].arrived = 0 .. WorldOf(l)' - 1 /\ WorldOf(l)' \in Nat \ {0}
    BY DEF Full
  <2>1. CASE store[l].released
    <3>1. store[l].arrived = 0 .. WorldOf(l) - 1 /\ WorldOf(l) \in Nat \ {0}
      BY <1>1, <2>1 DEF Full
    <3>2. 0 \in store[l].arrived /\ 0 \in Ranks  BY <3>1, SizesAssumption DEF Ranks
    <3>3. WorldOf(l)' = WorldOf(l)  BY <1>1, <1>2, <3>2 DEF Marked
    <3> QED BY <1>5, <2>1, <3>1, <3>3
  <2>2. CASE ~store[l].released
    <3>1. l = k /\ R # {} /\ Cardinality(store'[k].arrived) = WorldOf(k)  BY <2>2 DEF Grows
    <3>2. PICK r \in R : TRUE  BY <3>1
    <3>3. store[k].owner[r] \in Ranks  BY <3>2 DEF Permitted
    <3>4. WorldOf(k)' = WorldOf(k)  BY <1>2, <3>2, <3>3
    <3>5. \A q \in store'[k].arrived : q \in Ranks  BY KeysOf, <3>2 DEF Grows
    <3>6. \A q \in store'[k].arrived : q \in 0 .. WorldOf(k) - 1
      <4> SUFFICES ASSUME NEW q \in store'[k].arrived PROVE q \in 0 .. WorldOf(k) - 1
        OBVIOUS
      <4>1. q \in Ranks /\ store'[k].owner[q] \in Ranks  BY <1>9, <3>5 DEF Marked
      <4>2. store[k].owner[q] \in Ranks  BY <1>4, <4>1
      <4>3. q < WorldOf(k)  BY <1>1, <4>1, <4>2 DEF Owned
      <4> QED BY <4>1, <4>3, WorldOfType DEF Ranks
    <3>7. WorldOf(k) \in Nat \ {0}
      <4>1. r \in store'[k].arrived  BY <3>2 DEF Grows
      <4> QED BY <3>6, <4>1, WorldOfType
    <3>8. store'[k].arrived = 0 .. WorldOf(k) - 1  BY <3>1, <3>6, <3>7, FewRanks
    <3> QED BY <3>1, <3>4, <3>7, <3>8
  <2> QED BY <2>1, <2>2
<1> QED BY <1>6, <1>7, <1>8, <1>9, <1>10 DEF WorldInv

-----------------------------------------------------------------------------
(* The next place of a rank that comes past the barrier is free.              *)
LEMMA NextPlace ==
    ASSUME Shape, WorldInv, NEW i \in Ranks, NEW k \in Iterations, k = Iter(i),
           store[k].released, state[i].rank \notin store[k].terminated, k < MaxIterations,
           NEW n, n = ShiftRanks(state[i], store[k].terminated)
    PROVE  /\ k + 1 \in Iterations /\ n.iteration = k + 1
           /\ n \in States /\ n.rank \in Ranks
           /\ n.world = WorldOf(k + 1) /\ n.rank < n.world
           /\ n.rank = Shifted(state[i].rank, store[k].terminated)
           /\ store[k + 1].owner[n.rank] = NoOne
<1> DEFINE T == store[k].terminated
           r == state[i].rank
<1>1. k + 1 \in Iterations /\ n.iteration = k + 1 /\ n.world = state[i].world - Cardinality(T)
      /\ n.rank = Shifted(r, T)
  BY SizesAssumption DEF Iterations, ShiftRanks, Shifted, Iter
<1>2. Placed /\ Owned /\ Came /\ Marked /\ Full  BY DEF WorldInv
<1>3. r \in Ranks /\ state[i].world = WorldOf(k) /\ r < WorldOf(k) /\ store[k].owner[r] = i
  BY <1>2 DEF Placed, Shape, States
<1>4. state[i].world \in 1 .. World  BY DEF Shape, States
<1>5. PICK w \in Nat : w = WorldOf(k) /\ w <= World  BY <1>3, <1>4, SizesAssumption
<1>6. \A q \in Ranks : store[k].owner[q] \in Ranks => q \in 0 .. w - 1
  BY <1>2, <1>5, SizesAssumption DEF Owned, Ranks
<1>7. \A t \in T : t \in 0 .. w - 1  BY <1>2, <1>6, KeysOf DEF Marked
<1>8. r \in 0 .. w - 1 /\ r \notin T  BY <1>3, <1>6
<1>9. /\ Shifted(r, T) \in Nat /\ Shifted(r, T) < w - Cardinality(T)
      /\ w - Cardinality(T) \in 1 .. w
  BY <1>7, <1>8, ShiftedFits
<1>10. n.rank \in Ranks /\ n.world \in 1 .. World /\ n.rank < n.world
  BY <1>1, <1>3, <1>5, <1>9, SizesAssumption DEF Ranks
<1>11. n \in States
  BY <1>1, <1>10 DEF States, ShiftRanks
<1>12. n.world = WorldOf(k + 1)
  <2>1. store[k].arrived = 0 .. w - 1  BY <1>2, <1>5 DEF Full
  <2>2. Cardinality(store[k].arrived) = w
    <3>1. Cardinality(0 .. w - 1) = w  BY FS_Interval
    <3> QED BY <2>1, <3>1
  <2>3. k + 1 # 0 /\ (k + 1) - 1 = k  BY SizesAssumption DEF Iterations
  <2> QED BY <1>1, <1>3, <1>5, <2>2, <2>3 DEF WorldOf
<1>13. store[k + 1].owner[n.rank] = NoOne
  <2>1. SUFFICES ASSUME store[k + 1].owner[n.rank] # NoOne PROVE FALSE  OBVIOUS
  <2>2. PICK j \in Ranks : j = store[k + 1].owner[n.rank]
    BY <1>1, <1>10, <2>1, KeysOf
  <2>3. PICK q \in Ranks : store[k].owner[q] = j /\ q \notin T /\ n.rank = Shifted(q, T)
    BY <1>1, <1>2, <1>10, <2>2 DEF Came
  <2>4. q \in 0 .. w - 1  BY <1>6, <2>3
  <2>5. q = r  BY <1>1, <1>7, <1>8, <2>3, <2>4, ShiftedDiffers
  <2>6. j = i  BY <1>3, <2>3, <2>5
  <2>7. PICK l \in Iterations, s \in Ranks : l = k + 1 /\ s = n.rank /\ store[l].owner[s] = i
    BY <1>1, <1>10, <2>2, <2>6
  <2>8. Iter(i) >= l  BY <1>2, <2>7 DEF Owned
  <2> QED BY <1>1, <1>3, <2>7, <2>8, SizesAssumption DEF Iterations
<1> QED BY <1>1, <1>10, <1>11, <1>12, <1>13

(* The step past the barrier.                                                 *)
Enters(i, k, n) ==
    /\ state' = [state EXCEPT ![i] = n]
    /\ store' = [store EXCEPT ![k + 1].owner[n.rank] = i]

LEMMA EnterStep ==
    ASSUME Shape, Shape', WorldInv, NEW i \in Ranks, NEW k \in Iterations, k = Iter(i),
           store[k].released, state[i].rank \notin store[k].terminated, k < MaxIterations,
           NEW n, n = ShiftRanks(state[i], store[k].terminated), Enters(i, k, n)
    PROVE  WorldInv'
<1>1. Placed /\ Owned /\ Came /\ Marked /\ Full  BY DEF WorldInv
<1>2. /\ k + 1 \in Iterations /\ n.iteration = k + 1
      /\ n \in States /\ n.rank \in Ranks
      /\ n.world = WorldOf(k + 1) /\ n.rank < n.world
      /\ n.rank = Shifted(state[i].rank, store[k].terminated)
      /\ store[k + 1].owner[n.rank] = NoOne
  BY NextPlace
<1>3. \A l \in Iterations : /\ store'[l].arrived = store[l].arrived
                            /\ store'[l].terminated = store[l].terminated
                            /\ store'[l].released = store[l].released
  BY DEF Enters, Shape, Keys
<1>4. \A l \in Iterations : \A r \in Ranks : l # k + 1 \/ r # n.rank =>
          store'[l].owner[r] = store[l].owner[r]
  BY DEF Enters, Shape, Keys
<1>5. store'[k + 1].owner[n.rank] = i  BY <1>2 DEF Enters, Shape, Keys
<1>6. state'[i] = n /\ \A j \in Ranks : j # i => state'[j] = state[j]
  BY DEF Enters, Shape
<1>7. \A l \in Iterations : WorldOf(l)' = WorldOf(l)
  <2> SUFFICES ASSUME NEW l \in Iterations PROVE WorldOf(l)' = WorldOf(l)  OBVIOUS
  <2>1. l = 0 \/ l - 1 \in Iterations  BY SizesAssumption DEF Iterations
  <2> QED BY <1>3, <2>1 DEF WorldOf
<1>8. \A j \in Ranks : Iter(j) \in Iterations /\ state[j].rank \in Ranks
  BY DEF Shape, States, Iter
<1>9. Iter(i)' = k + 1 /\ \A j \in Ranks : j # i => Iter(j)' = Iter(j)
  BY <1>2, <1>6 DEF Iter
<1>10. Placed'
  <2> SUFFICES ASSUME NEW j \in Ranks
               PROVE  /\ store'[Iter(j)'].owner[state'[j].rank] = j
                      /\ state'[j].world = WorldOf(Iter(j))' /\ state'[j].rank < state'[j].world
                      /\ \A l \in Iterations : l < Iter(j)' => store'[l].released
    BY DEF Placed
  <2>1. PICK m : m = Iter(j)'  OBVIOUS
  <2>2. WorldOf(Iter(j))' = WorldOf(m)'  BY <2>1 DEF WorldOf
  <2>3. CASE j = i
    <3>1. m = k + 1  BY <1>9, <2>1, <2>3
    <3>2. \A l \in Iterations : l < k + 1 => store[l].released
      BY <1>1, SizesAssumption DEF Placed, Iterations
    <3> QED BY <1>2, <1>3, <1>5, <1>6, <1>7, <2>1, <2>2, <2>3, <3>1, <3>2
  <2>4. CASE j # i
    <3>1. m = Iter(j) /\ m \in Iterations /\ state[j].rank \in Ranks
      BY <1>8, <1>9, <2>1, <2>4
    <3>2. /\ store[m].owner[state[j].rank] = j
          /\ state[j].world = WorldOf(m) /\ state[j].rank < state[j].world
          /\ \A l \in Iterations : l < m => store[l].released
      BY <1>1, <3>1 DEF Placed
    <3>3. m # k + 1 \/ state[j].rank # n.rank  BY <1>2, <3>2 DEF NoOne, Ranks
    <3>4. store'[m].owner[state[j].rank] = j  BY <1>4, <3>1, <3>2, <3>3
    <3>5. state'[j] = state[j]  BY <1>6, <2>4
    <3> QED BY <1>3, <1>7, <2>1, <2>2, <3>1, <3>2, <3>4, <3>5
  <2> QED BY <2>3, <2>4
<1>11. Owned'
  <2> SUFFICES ASSUME NEW l \in Iterations, NEW r \in Ranks, NEW j \in Ranks,
                      store'[l].owner[r] = j
               PROVE  /\ Iter(j)' >= l /\ r < WorldOf(l)'
                      /\ Iter(j)' = l => r = state'[j].rank
                      /\ Iter(j)' > l => r \notin store'[l].terminated
    BY DEF Owned
  <2>1. CASE l = k + 1 /\ r = n.rank
    <3>1. j = i  BY <1>5, <2>1
    <3> QED BY <1>2, <1>6, <1>7, <1>9, <2>1, <3>1, SizesAssumption DEF Iterations
  <2>2. CASE l # k + 1 \/ r # n.rank
    <3>1. store[l].owner[r] = j  BY <1>4, <2>2
    <3>2. /\ Iter(j) >= l /\ r < WorldOf(l)
          /\ Iter(j) = l => r = state[j].rank
          /\ Iter(j) > l => r \notin store[l].terminated
      BY <1>1, <3>1 DEF Owned
    <3>3. CASE j # i  BY <1>3, <1>6, <1>7, <1>9, <3>2, <3>3
    <3>4. CASE j = i
      <4>1. k >= l /\ Iter(j)' = k + 1  BY <1>9, <3>2, <3>4
      <4>2. Iter(j)' > l /\ Iter(j)' >= l /\ Iter(j)' # l
        BY <4>1, SizesAssumption DEF Iterations
      <4>3. r \notin store[l].terminated
        <5>1. CASE k = l  BY <3>2, <3>4, <5>1
        <5>2. CASE k > l  BY <3>2, <3>4, <5>2
        <5> QED BY <4>1, <5>1, <5>2, SizesAssumption DEF Iterations
      <4> QED BY <1>3, <1>7, <3>2, <4>2, <4>3
    <3> QED BY <3>3, <3>4
  <2> QED BY <2>1, <2>2
<1>12. Came'
  <2> SUFFICES ASSUME NEW l \in Iterations, NEW r \in Ranks, NEW j \in Ranks,
                      l + 1 \in Iterations, store'[l + 1].owner[r] = j
               PROVE  \E q \in Ranks : /\ store'[l].owner[q] = j /\ q \notin store'[l].terminated
                                       /\ r = Shifted(q, store'[l].terminated)
    BY DEF Came
  <2>1. PICK q \in Ranks : /\ store[l].owner[q] = j /\ q \notin store[l].terminated
                           /\ r = Shifted(q, store[l].terminated)
    <3>1. CASE l + 1 = k + 1 /\ r = n.rank
      <4>1. l = k /\ j = i  BY <1>5, <3>1, SizesAssumption DEF Iterations
      <4> QED BY <1>1, <1>2, <1>8, <3>1, <4>1 DEF Placed
    <3>2. CASE l + 1 # k + 1 \/ r # n.rank  BY <1>1, <1>4, <3>2 DEF Came
    <3> QED BY <3>1, <3>2
  <2>2. l # k + 1 \/ q # n.rank  BY <1>2, <2>1 DEF NoOne, Ranks
  <2>3. store'[l].owner[q] = j  BY <1>4, <2>1, <2>2
  <2> QED BY <1>3, <2>1, <2>3
<1>13. Marked'
  <2> SUFFICES ASSUME NEW l \in Iterations, NEW r \in Ranks,
                      r \in store'[l].arrived \/ r \in store'[l].terminated
               PROVE  store'[l].owner[r] \in Ranks
    BY DEF Marked
  <2>1. CASE l = k + 1 /\ r = n.rank  BY <1>5, <2>1
  <2>2. CASE l # k + 1 \/ r # n.rank  BY <1>1, <1>3, <1>4, <2>2 DEF Marked
  <2> QED BY <2>1, <2>2
<1>14. Full'
  BY <1>1, <1>3, <1>7 DEF Full
<1> QED BY <1>10, <1>11, <1>12, <1>13, <1>14 DEF WorldInv

-----------------------------------------------------------------------------
(* What is on its way to a monitor process with view v, of a rank with state  *)
(* s: starts of ever later iterations, the last of them that of s.            *)
Starts(q, p) == p \in 1 .. Len(q) /\ q[p].kind = "start"

Backlog(s, v, q) ==
    /\ v = s \/ v.iteration < s.iteration
    /\ \A p \in 1 .. Len(q) : Starts(q, p) =>
          /\ v.iteration < q[p].state.iteration
          /\ q[p].state = s \/ q[p].state.iteration < s.iteration
    /\ \A p, r \in 1 .. Len(q) : p < r /\ Starts(q, p) /\ Starts(q, r) =>
          q[p].state.iteration < q[r].state.iteration

Told(s, v, q) == v = s \/ \E p \in 1 .. Len(q) : q[p] = Start(s)

LEMMA MessageTypes ==
    /\ \A m \in Messages : m.kind = "start" => m.state \in States /\ m = Start(m.state)
    /\ \A s \in States : Start(s) \in Messages /\ Start(s).kind = "start" /\ Start(s).state = s
    /\ Disable \in Messages /\ Disable.kind = "disable"
    /\ RecordInterrupted \in Messages /\ RecordInterrupted.kind = "record"
BY DEF Messages, Start, Disable, RecordInterrupted

LEMMA StateTypes ==
    /\ \A s \in States : s.iteration \in Nat /\ s.iteration \in Iterations
                         /\ s.rank \in Ranks /\ s.world \in 1 .. World
    /\ NoView.iteration = -1 /\ NoView \notin States
<1>1. \A s \in States : s.iteration \in Nat /\ s.iteration \in Iterations
                         /\ s.rank \in Ranks /\ s.world \in 1 .. World
  BY SizesAssumption DEF States, Iterations
<1>2. NoView.iteration = -1  BY DEF NoView
<1> QED BY <1>1, <1>2

(* A message that is no start.                                                *)
LEMMA TellMore ==
    ASSUME NEW s \in States, NEW v \in States \cup {NoView}, NEW q \in Seq(Messages),
           NEW m \in Messages, m.kind # "start", Backlog(s, v, q), Told(s, v, q)
    PROVE  Backlog(s, v, q \o <<m>>) /\ Told(s, v, q \o <<m>>)
<1> DEFINE t == q \o <<m>>
<1>1. /\ t \in Seq(Messages) /\ Len(t) = Len(q) + 1 /\ Len(q) \in Nat
      /\ \A p \in 1 .. Len(q) : t[p] = q[p]
      /\ t[Len(q) + 1] = m
  OBVIOUS
<1> HIDE DEF t
<1>2. \A p \in 1 .. Len(t) : Starts(t, p) => p \in 1 .. Len(q) /\ Starts(q, p) /\ t[p] = q[p]
  BY <1>1 DEF Starts
<1>3. Backlog(s, v, t)  BY <1>2 DEF Backlog
<1>4. Told(s, v, t)  BY <1>1 DEF Told
<1> QED BY <1>3, <1>4 DEF t

(* The start of the next iteration.                                           *)
LEMMA TellNext ==
    ASSUME NEW s \in States, NEW v \in States \cup {NoView}, NEW q \in Seq(Messages),
           NEW n \in States, n.iteration = s.iteration + 1, Backlog(s, v, q)
    PROVE  Backlog(n, v, q \o <<Disable, Start(n)>>) /\ Told(n, v, q \o <<Disable, Start(n)>>)
<1> DEFINE t == q \o <<Disable, Start(n)>>
<1>1. /\ t \in Seq(Messages) /\ Len(t) = Len(q) + 2 /\ Len(q) \in Nat
      /\ \A p \in 1 .. Len(q) : t[p] = q[p]
      /\ t[Len(q) + 1] = Disable /\ t[Len(q) + 2] = Start(n)
  BY MessageTypes
<1>2. \A p \in 1 .. Len(q) : q[p] \in Messages  OBVIOUS
<1> HIDE DEF t
<1>3. \A p \in 1 .. Len(t) : Starts(t, p) =>
          \/ p \in 1 .. Len(q) /\ Starts(q, p) /\ t[p] = q[p]
          \/ p = Len(q) + 2 /\ t[p] = Start(n)
  BY <1>1, MessageTypes DEF Starts
<1>4. Start(n).state = n  BY MessageTypes
<1>5. s.iteration \in Nat /\ n.iteration \in Nat /\ v.iteration \in Int  BY StateTypes
<1>6. v.iteration <= s.iteration  BY <1>5 DEF Backlog
<1>7. \A p \in 1 .. Len(q) : Starts(q, p) =>
          /\ q[p].state.iteration \in Nat /\ v.iteration < q[p].state.iteration
          /\ q[p].state.iteration <= s.iteration
  <2> SUFFICES ASSUME NEW p \in 1 .. Len(q), Starts(q, p)
               PROVE  /\ q[p].state.iteration \in Nat /\ v.iteration < q[p].state.iteration
                      /\ q[p].state.iteration <= s.iteration
    OBVIOUS
  <2>1. q[p].state \in States  BY <1>2, MessageTypes DEF Starts
  <2>2. q[p].state.iteration \in Nat  BY <2>1, StateTypes
  <2> QED BY <1>5, <2>2 DEF Backlog
<1>8. \A p \in 1 .. Len(t) : Starts(t, p) =>
          /\ v.iteration < t[p].state.iteration
          /\ t[p].state = n \/ t[p].state.iteration < n.iteration
  BY <1>3, <1>4, <1>5, <1>6, <1>7
<1>9. \A p, r \in 1 .. Len(t) : p < r /\ Starts(t, p) /\ Starts(t, r) =>
          t[p].state.iteration < t[r].state.iteration
  <2> SUFFICES ASSUME NEW p \in 1 .. Len(t), NEW r \in 1 .. Len(t), p < r,
                      Starts(t, p), Starts(t, r)
               PROVE  t[p].state.iteration < t[r].state.iteration
    OBVIOUS
  <2>1. p \in 1 .. Len(q) /\ Starts(q, p) /\ t[p] = q[p]  BY <1>1, <1>3
  <2>2. CASE r \in 1 .. Len(q) /\ Starts(q, r) /\ t[r] = q[r]  BY <2>1, <2>2 DEF Backlog
  <2>3. CASE r = Len(q) + 2 /\ t[r] = Start(n)  BY <1>4, <1>5, <1>7, <2>1, <2>3
  <2> QED BY <1>3, <2>2, <2>3
<1>10. Backlog(n, v, t)  BY <1>5, <1>6, <1>8, <1>9 DEF Backlog
<1>11. Told(n, v, t)  BY <1>1 DEF Told
<1> QED BY <1>10, <1>11 DEF t

(* The first message is received.                                             *)
LEMMA Hear ==
    ASSUME NEW s \in States, NEW v \in States \cup {NoView}, NEW q \in Seq(Messages),
           q # << >>, Backlog(s, v, q), Told(s, v, q),
           NEW u, u = IF Head(q).kind = "start" THEN Head(q).state ELSE v
    PROVE  /\ Backlog(s, u, Tail(q)) /\ Told(s, u, Tail(q))
           /\ u \in States \cup {NoView}
           /\ Head(q).kind = "start" => u \in States
<1> DEFINE t == Tail(q)
<1>1. /\ t \in Seq(Messages) /\ Len(q) = Len(t) + 1 /\ Len(t) \in Nat
      /\ Head(q) = q[1] /\ q[1] \in Messages
      /\ \A p \in 1 .. Len(t) : t[p] = q[p + 1] /\ p + 1 \in 1 .. Len(q)
  OBVIOUS
<1> HIDE DEF t
<1>2. \A p \in 1 .. Len(t) : Starts(t, p) => p + 1 \in 1 .. Len(q) /\ Starts(q, p + 1)
  BY <1>1 DEF Starts
<1>3. \A p, r \in 1 .. Len(t) : p < r /\ Starts(t, p) /\ Starts(t, r) =>
          t[p].state.iteration < t[r].state.iteration
  BY <1>1, <1>2 DEF Backlog
<1>4. CASE Head(q).kind = "start"
  <2>1. u = q[1].state /\ q[1].state \in States /\ q[1] = Start(u) /\ Starts(q, 1)
    BY <1>1, <1>4, MessageTypes DEF Starts
  <2>2. 1 \in 1 .. Len(q)  BY <1>1
  <2>3. u = s \/ u.iteration < s.iteration  BY <2>1, <2>2 DEF Backlog
  <2>4. \A p \in 1 .. Len(t) : Starts(t, p) =>
          /\ u.iteration < t[p].state.iteration
          /\ t[p].state = s \/ t[p].state.iteration < s.iteration
    BY <1>1, <1>2, <2>1, <2>2 DEF Backlog
  <2>5. Backlog(s, u, t)  BY <1>3, <2>3, <2>4 DEF Backlog
  <2>6. Told(s, u, t)
    <3>1. CASE v = s
      <4>1. v.iteration < u.iteration /\ (u = s \/ u.iteration < s.iteration)
        BY <2>1, <2>2 DEF Backlog
      <4>2. u.iteration \in Nat /\ s.iteration \in Nat  BY <2>1, StateTypes
      <4> QED BY <3>1, <4>1, <4>2 DEF Told
    <3>2. CASE v # s
      <4>1. PICK p \in 1 .. Len(q) : q[p] = Start(s)  BY <3>2 DEF Told
      <4>2. CASE p = 1  BY <2>1, <4>1, <4>2, MessageTypes DEF Told
      <4>3. CASE p # 1
        <5>1. p - 1 \in 1 .. Len(t) /\ (p - 1) + 1 = p  BY <1>1, <4>3
        <5> QED BY <1>1, <4>1, <5>1 DEF Told
      <4> QED BY <4>2, <4>3
    <3> QED BY <3>1, <3>2
  <2> QED BY <2>1, <2>5, <2>6 DEF t
<1>5. CASE Head(q).kind # "start"
  <2>1. u = v  BY <1>5
  <2>2. Backlog(s, u, t)
    <3>1. \A p \in 1 .. Len(t) : Starts(t, p) =>
          /\ u.iteration < t[p].state.iteration
          /\ t[p].state = s \/ t[p].state.iteration < s.iteration
      BY <1>1, <1>2, <2>1 DEF Backlog
    <3>2. u = s \/ u.iteration < s.iteration  BY <2>1 DEF Backlog
    <3> QED BY <1>3, <3>1, <3>2 DEF Backlog
  <2>3. Told(s, u, t)
    <3>1. CASE v = s  BY <2>1, <3>1 DEF Told
    <3>2. CASE v # s
      <4>1. PICK p \in 1 .. Len(q) : q[p] = Start(s)  BY <3>2 DEF Told
      <4>2. p # 1  BY <1>1, <1>5, <4>1, MessageTypes
      <4>3. p - 1 \in 1 .. Len(t) /\ (p - 1) + 1 = p  BY <1>1, <4>2
      <4> QED BY <1>1, <4>1, <4>3 DEF Told
    <3> QED BY <3>1, <3>2
  <2> QED BY <1>5, <2>1, <2>2, <2>3 DEF t
<1> QED BY <1>4, <1>5

(* The end of the queue is lost.                                              *)
LEMMA CutOff ==
    ASSUME NEW s \in States, NEW v \in States \cup {NoView}, NEW q \in Seq(Messages),
           NEW n \in 0 .. Len(q), Backlog(s, v, q)
    PROVE  Backlog(s, v, SubSeq(q, 1, n)) /\ SubSeq(q, 1, n) \in Seq(Messages)
<1> DEFINE t == SubSeq(q, 1, n)
<1>1. /\ t \in Seq(Messages) /\ Len(t) = n
      /\ \A p \in 1 .. Len(t) : t[p] = q[p] /\ p \in 1 .. Len(q)
  OBVIOUS
<1> HIDE DEF t
<1>2. \A p \in 1 .. Len(t) : Starts(t, p) => Starts(q, p)  BY <1>1 DEF Starts
<1>3. Backlog(s, v, t)  BY <1>1, <1>2 DEF Backlog
<1> QED BY <1>1, <1>3 DEF t

LEMMA NothingSent ==
    ASSUME NEW s, NEW v, NEW q, Backlog(s, v, q)
    PROVE  Backlog(s, v, << >>)
<1>1. \A p \in 1 .. Len(<< >>) : FALSE  OBVIOUS
<1> QED BY <1>1 DEF Backlog

(* Who knows its rank's iteration is told of no other.                        *)
LEMMA NoMoreStarts ==
    ASSUME NEW s \in States, NEW q \in Seq(Messages), Backlog(s, s, q)
    PROVE  \A p \in 1 .. Len(q) : q[p].kind # "start"
<1> SUFFICES ASSUME NEW p \in 1 .. Len(q), q[p].kind = "start" PROVE FALSE
  OBVIOUS
<1>1. q[p].state \in States  BY MessageTypes
<1>2. q[p].state.iteration \in Nat /\ s.iteration \in Nat  BY <1>1, StateTypes
<1>3. s.iteration < q[p].state.iteration /\ (q[p].state = s \/ q[p].state.iteration < s.iteration)
  BY DEF Backlog, Starts
<1> QED BY <1>2, <1>3

-----------------------------------------------------------------------------
(* The monitor process of a rank that is alive listens, and has been or will  *)
(* be told of its state; it knows the state of a rank that is dead.           *)
Lives(i) ==
    /\ Backlog(state[i], view[i], queue[i])
    /\ main[i] \notin {"dead", "gone"} => monitor[i] = "on"
    /\ monitor[i] = "on" => Told(state[i], view[i], queue[i])
    /\ main[i] = "dead" /\ monitor[i] # "over" => view[i] = state[i]
    /\ monitor[i] \in {"mourning", "recorded", "leaving"} => main[i] = "dead"
    /\ watching[i] => view[i] # NoView

Life == \A i \in Ranks : Lives(i)

(* The invariant.                                                             *)
WrapperInv == Shape /\ WorldInv /\ Calm /\ Life

(* What every step but the one past the barrier does: ranks R arrive and      *)
(* ranks D are terminated in iteration k.                                     *)
Moves(k, R, D) ==
    /\ state' = state
    /\ Grows(k, R, D) /\ Permitted(k, R, D)
    /\ \A r \in D : main'[store[k].owner[r]] \in Lost
    /\ \A r \in R : main'[store[k].owner[r]] = "barrier" \/ r \in store[k].terminated \cup D
    /\ \A i \in Ranks :
          /\ main[i] = "barrier" => main'[i] = "barrier"
          /\ main[i] \in Lost => main'[i] \in Lost
          /\ main'[i] \in {"restart", "barrier"} => Iter(i) < MaxIterations
          /\ main'[i] = "recorded" \/ monitor'[i] = "recorded" =>
                \/ state[i].rank \in store[Iter(i)].terminated
                \/ Iter(i) = k /\ state[i].rank \in D

SomeMoves == \E k \in Iterations : \E R, D \in SUBSET Ranks : Moves(k, R, D)

LEMMA Self ==
    ASSUME Shape, WorldInv, NEW i \in Ranks
    PROVE  /\ Iter(i) \in Iterations /\ store[Iter(i)] \in Keys
           /\ Here(i) = store[Iter(i)]
           /\ state[i] \in States /\ state[i].rank \in Ranks
           /\ store[Iter(i)].owner[state[i].rank] = i
BY DEF Shape, States, Iter, Here, WorldInv, Placed

LEMMA CalmStep ==
    ASSUME Shape, WorldInv, Calm, NEW k \in Iterations, NEW R \in SUBSET Ranks,
           NEW D \in SUBSET Ranks, Moves(k, R, D)
    PROVE  Calm'
<1> SUFFICES ASSUME NEW i \in Ranks
             PROVE  /\ state'[i].rank \in Here(i)'.arrived =>
                          main'[i] = "barrier" \/ state'[i].rank \in Here(i)'.terminated
                    /\ state'[i].rank \in Here(i)'.terminated => main'[i] \in Lost
                    /\ main'[i] = "recorded" \/ monitor'[i] = "recorded" =>
                          state'[i].rank \in Here(i)'.terminated
                    /\ main'[i] \in {"restart", "barrier"} => Iter(i)' < MaxIterations
  BY DEF Calm
<1>1. PICK l \in Iterations : l = Iter(i)  BY Self
<1>2. PICK r \in Ranks : r = state[i].rank  BY Self
<1>3. state'[i].rank = r /\ Here(i)' = store'[l] /\ Iter(i)' = l
  BY <1>1, <1>2 DEF Moves, Here, Iter
<1>4. store[l].owner[r] = i  BY <1>1, <1>2, Self
<1>5. /\ r \in store[l].arrived => main[i] = "barrier" \/ r \in store[l].terminated
      /\ r \in store[l].terminated => main[i] \in Lost
      /\ main[i] = "recorded" \/ monitor[i] = "recorded" => r \in store[l].terminated
      /\ main[i] \in {"restart", "barrier"} => l < MaxIterations
  BY <1>1, <1>2, Self DEF Calm
<1>6. /\ r \in store'[l].arrived <=> r \in store[l].arrived \/ (l = k /\ r \in R)
      /\ r \in store'[l].terminated <=> r \in store[l].terminated \/ (l = k /\ r \in D)
  BY DEF Moves, Grows
<1>7. r \in store'[l].arrived => main'[i] = "barrier" \/ r \in store'[l].terminated
  BY <1>4, <1>5, <1>6 DEF Moves
<1>8. r \in store'[l].terminated => main'[i] \in Lost
  BY <1>4, <1>5, <1>6 DEF Moves
<1>9. main'[i] = "recorded" \/ monitor'[i] = "recorded" => r \in store'[l].terminated
  BY <1>1, <1>2, <1>6 DEF Moves
<1>10. main'[i] \in {"restart", "barrier"} => l < MaxIterations
  BY <1>1 DEF Moves
<1> QED BY <1>3, <1>7, <1>8, <1>9, <1>10

LEMMA MovesKeep ==
    ASSUME Shape, Shape', WorldInv, Calm, SomeMoves
    PROVE  WorldInv' /\ Calm'
<1>1. PICK k \in Iterations, R \in SUBSET Ranks, D \in SUBSET Ranks : Moves(k, R, D)
  BY DEF SomeMoves
<1>2. Calm'  BY <1>1, CalmStep
<1>3. state' = state /\ Grows(k, R, D) /\ Permitted(k, R, D)  BY <1>1 DEF Moves
<1>4. WorldInv'  BY <1>3, WorldStep
<1> QED BY <1>2, <1>4

(* A step that marks nobody.                                                  *)
Unmarked ==
    /\ state' = state
    /\ \A l \in Iterations :
          /\ store'[l].owner = store[l].owner /\ store'[l].arrived = store[l].arrived
          /\ store'[l].terminated = store[l].terminated
          /\ store'[l].released = store[l].released

LEMMA UnmarkedMoves ==
    ASSUME Shape, Unmarked,
           \A i \in Ranks :
              /\ main[i] = "barrier" => main'[i] = "barrier"
              /\ main[i] \in Lost => main'[i] \in Lost
              /\ main'[i] \in {"restart", "barrier"} => Iter(i) < MaxIterations
              /\ main'[i] = "recorded" \/ monitor'[i] = "recorded" =>
                    state[i].rank \in store[Iter(i)].terminated
    PROVE  SomeMoves
<1>1. 0 \in Iterations  BY SizesAssumption DEF Iterations
<1>2. Grows(0, {}, {}) /\ Permitted(0, {}, {})
  BY <1>1 DEF Unmarked, Grows, Permitted
<1>3. Moves(0, {}, {})  BY <1>2 DEF Moves, Unmarked
<1> QED BY <1>1, <1>3 DEF SomeMoves

(* The keys after ranks are terminated, and after they arrive.                *)
LEMMA TerminatedKeys ==
    ASSUME NEW K \in Keys, NEW R \in SUBSET Ranks
    PROVE  /\ Terminated(K, R) \in Keys
           /\ Terminated(K, R).owner = K.owner /\ Terminated(K, R).arrived = K.arrived
           /\ Terminated(K, R).released = K.released
           /\ Terminated(K, R).terminated = K.terminated \cup R
           /\ Terminated(K, R).interrupted = TRUE
           /\ Terminated(K, R).finished = K.finished
           /\ Terminated(K, R).all_finished = K.all_finished
BY DEF Keys, Terminated

LEMMA ArrivedKeys ==
    ASSUME NEW K \in Keys, NEW R \in SUBSET Ranks, NEW w
    PROVE  /\ Arrived(K, R, w) \in Keys
           /\ Arrived(K, R, w).owner = K.owner /\ Arrived(K, R, w).terminated = K.terminated
           /\ Arrived(K, R, w).arrived = K.arrived \cup R
           /\ Arrived(K, R, w).released <=> K.released \/ Cardinality(K.arrived \cup R) = w
BY DEF Keys, Arrived

LEMMA ArrivedCounts ==
    ASSUME NEW K \in Keys, NEW R \in SUBSET Ranks, NEW w
    PROVE  \E L \in Keys :
               /\ L = Arrived(K, R, w)
               /\ L.owner = K.owner /\ L.terminated = K.terminated
               /\ L.interrupted = K.interrupted
               /\ L.finished = K.finished
               /\ L.all_finished = K.all_finished
<1>1. PICK b \in BOOLEAN : b = (K.released \/ Cardinality(K.arrived \cup R) = w)  OBVIOUS
<1>2. Arrived(K, R, w) = [K EXCEPT !.arrived = @ \cup R, !.released = b]
  BY <1>1 DEF Arrived, Keys
<1>3. [K EXCEPT !.arrived = @ \cup R, !.released = b] \in Keys  BY DEF Keys
<1> QED BY <1>2, <1>3 DEF Keys

(* A step of one rank leaves the others as they live.                         *)
Only(i) == \A j \in Ranks : j # i =>
    /\ state'[j] = state[j] /\ main'[j] = main[j] /\ monitor'[j] = monitor[j]
    /\ view'[j] = view[j] /\ watching'[j] = watching[j] /\ queue'[j] = queue[j]

LEMMA LifeStep ==
    ASSUME Life, NEW i \in Ranks, Only(i), Lives(i)'
    PROVE  Life'
<1> SUFFICES ASSUME NEW j \in Ranks PROVE Lives(j)'  BY DEF Life
<1>1. CASE j = i  BY <1>1
<1>2. CASE j # i
  <2>1. Lives(j)  BY DEF Life
  <2> QED BY <1>2, <2>1 DEF Only, Lives
<1> QED BY <1>1, <1>2

(* The main process goes on to x, and the store marks nobody.                 *)
LEMMA GoOn ==
    ASSUME WrapperInv, NEW i \in Ranks, NEW x \in Labels, Goto(i, x),
           store' \in [Iterations -> Keys], Unmarked,
           UNCHANGED <<monitor, view, watching, queue>>,
           main[i] # "barrier", x \notin {"dead", "recorded"}, main[i] \notin {"dead", "gone"},
           main[i] \in Lost => x \in Lost,
           x \in {"restart", "barrier"} => Iter(i) < MaxIterations
    PROVE  Shape' /\ SomeMoves /\ Life'
<1>1. Shape /\ WorldInv /\ Calm /\ Life  BY DEF WrapperInv
<1>2. main'[i] = x /\ \A j \in Ranks : j # i => main'[j] = main[j]
  BY <1>1 DEF Goto, Shape
<1>3. Shape'
  BY <1>1, <1>2 DEF Shape, Goto, Unmarked
<1>4. SomeMoves
  <2>1. \A j \in Ranks :
              /\ main[j] = "barrier" => main'[j] = "barrier"
              /\ main[j] \in Lost => main'[j] \in Lost
              /\ main'[j] \in {"restart", "barrier"} => Iter(j) < MaxIterations
              /\ main'[j] = "recorded" \/ monitor'[j] = "recorded" =>
                    state[j].rank \in store[Iter(j)].terminated
    BY <1>1, <1>2, Self DEF Calm
  <2> QED BY <1>1, <2>1, UnmarkedMoves
<1>5. Life'
  <2>1. Only(i)  BY <1>2 DEF Only, Unmarked
  <2>2. Lives(i)  BY <1>1 DEF Life
  <2>3. Lives(i)'  BY <1>2, <2>2 DEF Lives, Unmarked
  <2> QED BY <1>1, <2>1, <2>3, LifeStep
<1> QED BY <1>3, <1>4, <1>5

LEMMA SameStore ==
    ASSUME Shape, UNCHANGED <<store, state>>
    PROVE  store' \in [Iterations -> Keys] /\ Unmarked
BY DEF Shape, Unmarked

LEMMA WorkStep ==
    ASSUME WrapperInv, NEW i \in Ranks,
           Return(i) \/ RankShouldRestart(i) \/ GiveUp(i) \/ Shutdown(i) \/ HostLeaves(i) \/ Hang(i)
    PROVE  Shape' /\ SomeMoves /\ Life'
<1>1. store' \in [Iterations -> Keys] /\ Unmarked
  BY SameStore DEF WrapperInv, Return, RankShouldRestart, GiveUp, Shutdown, HostLeaves, Hang
<1>2. CASE Return(i)  BY <1>1, <1>2, GoOn DEF Return, Labels, Lost
<1>3. CASE RankShouldRestart(i)
  BY <1>1, <1>3, GoOn DEF RankShouldRestart, Labels, Working, Lost
<1>4. CASE GiveUp(i)  BY <1>1, <1>4, GoOn DEF GiveUp, Labels, Lost
<1>5. CASE Shutdown(i)
  <2>1. PICK x \in {"hosting", "gone", "failed"} : Goto(i, x)  BY <1>5 DEF Shutdown
  <2>2. x \in Labels /\ x \in Lost  BY <2>1 DEF Labels, Lost
  <2> QED BY <1>1, <1>5, <2>1, <2>2, GoOn DEF Shutdown
<1>6. CASE HostLeaves(i)  BY <1>1, <1>6, GoOn DEF HostLeaves, Labels, Lost
<1>7. CASE Hang(i)
  <2>1. PICK x \in {"hung", "stuck"} : Goto(i, x)  BY <1>7 DEF Hang
  <2>2. x \in Labels  BY <2>1 DEF Labels, Working, InFunction
  <2>3. main[i] = "run" /\ UNCHANGED <<monitor, view, watching, queue>>  BY <1>7 DEF Hang
  <2> QED BY <1>1, <2>1, <2>2, <2>3, GoOn DEF Lost
<1> QED BY <1>2, <1>3, <1>4, <1>5, <1>6, <1>7

LEMMA FnReturnsStep ==
    ASSUME WrapperInv, NEW i \in Ranks, FnReturns(i)
    PROVE  Shape' /\ SomeMoves /\ Life'
<1>1. Shape /\ WorldInv  BY DEF WrapperInv
<1>2. PICK k \in Iterations : k = Iter(i)  BY <1>1, Self
<1>3. PICK K \in Keys : K = store[k]  BY <1>1 DEF Shape
<1>4. PICK c \in Nat : c = K.finished + 1  BY DEF Keys
<1>5. PICK f \in BOOLEAN : f = (K.all_finished \/ c = state[i].world)  OBVIOUS
<1>6. store' = [store EXCEPT ![k] = [K EXCEPT !.completed = TRUE, !.finished = c,
                                              !.all_finished = f]]
  BY <1>1, <1>2, <1>3, <1>4, <1>5 DEF FnReturns, Here, Shape, Keys
<1>7. [K EXCEPT !.completed = TRUE, !.finished = c, !.all_finished = f] \in Keys
  BY <1>3, <1>4, <1>5 DEF Keys
<1>8. store' \in [Iterations -> Keys]  BY <1>1, <1>6, <1>7 DEF Shape
<1>9. Unmarked
  BY <1>1, <1>3, <1>6 DEF Shape, Unmarked, FnReturns, Keys
<1> QED BY <1>8, <1>9, GoOn DEF FnReturns, Labels, Working, InFunction, Lost

(* The keys of one iteration are replaced.                                    *)
LEMMA Replaced ==
    ASSUME Shape, NEW k \in Iterations, NEW K \in Keys, store' = [store EXCEPT ![k] = K],
           NEW R, NEW D,
           K.owner = store[k].owner,
           K.arrived = store[k].arrived \cup R, K.terminated = store[k].terminated \cup D,
           K.released <=> \/ store[k].released
                          \/ R # {} /\ Cardinality(store[k].arrived \cup R) = WorldOf(k)
    PROVE  store' \in [Iterations -> Keys] /\ Grows(k, R, D)
<1>1. store'[k] = K /\ \A l \in Iterations : l # k => store'[l] = store[l]
  BY DEF Shape
<1>2. store' \in [Iterations -> Keys]  BY DEF Shape
<1>3. Grows(k, R, D)  BY <1>1 DEF Grows
<1> QED BY <1>2, <1>3

LEMMA Terminates ==
    ASSUME Shape, NEW k \in Iterations, NEW D \in SUBSET Ranks,
           store' = [store EXCEPT ![k] = Terminated(@, D)]
    PROVE  store' \in [Iterations -> Keys] /\ Grows(k, {}, D)
<1>1. store[k] \in Keys  BY DEF Shape
<1>2. PICK K \in Keys : K = Terminated(store[k], D)  BY <1>1, TerminatedKeys
<1>3. store' = [store EXCEPT ![k] = K]  BY <1>2 DEF Shape
<1>4. /\ K.owner = store[k].owner /\ K.arrived = store[k].arrived \cup {}
      /\ K.terminated = store[k].terminated \cup D
      /\ K.released = store[k].released
  BY <1>1, <1>2, TerminatedKeys
<1> QED BY <1>3, <1>4, Replaced

LEMMA Arrives ==
    ASSUME Shape, NEW k \in Iterations, NEW R \in SUBSET Ranks, R # {},
           store' = [store EXCEPT ![k] = Arrived(@, R, WorldOf(k))]
    PROVE  store' \in [Iterations -> Keys] /\ Grows(k, R, {})
<1>1. PICK L \in Keys : L = store[k]  BY DEF Shape
<1>2. PICK w : w = WorldOf(k)  OBVIOUS
<1>3. /\ Arrived(L, R, w) \in Keys
      /\ Arrived(L, R, w).owner = L.owner /\ Arrived(L, R, w).terminated = L.terminated
      /\ Arrived(L, R, w).arrived = L.arrived \cup R
      /\ Arrived(L, R, w).released <=> L.released \/ Cardinality(L.arrived \cup R) = w
  BY ArrivedKeys
<1>4. PICK K \in Keys : K = Arrived(L, R, w)  BY <1>3
<1>5. store' = [store EXCEPT ![k] = K]  BY <1>1, <1>2, <1>4 DEF Shape
<1>6. K.owner = L.owner /\ K.arrived = L.arrived \cup R /\ K.terminated = L.terminated \cup {}
  BY <1>3, <1>4
<1>7. K.released <=> L.released \/ Cardinality(L.arrived \cup R) = w
  BY <1>3, <1>4
<1>8. K.released <=> \/ store[k].released
                     \/ R # {} /\ Cardinality(store[k].arrived \cup R) = WorldOf(k)
  BY <1>1, <1>2, <1>7
<1> QED BY <1>1, <1>5, <1>6, <1>8, Replaced

LEMMA TerminatesAndArrives ==
    ASSUME Shape, NEW k \in Iterations, NEW S \in SUBSET Ranks, S # {},
           store' = [store EXCEPT ![k] = Arrived(Terminated(@, S), S, WorldOf(k))]
    PROVE  store' \in [Iterations -> Keys] /\ Grows(k, S, S)
<1>1. PICK L \in Keys : L = store[k]  BY DEF Shape
<1>2. PICK w : w = WorldOf(k)  OBVIOUS
<1>3. PICK M \in Keys : M = Terminated(L, S)  BY TerminatedKeys
<1>4. /\ M.owner = L.owner /\ M.arrived = L.arrived /\ M.released = L.released
      /\ M.terminated = L.terminated \cup S
  BY <1>3, TerminatedKeys
<1>5. /\ Arrived(M, S, w) \in Keys
      /\ Arrived(M, S, w).owner = M.owner /\ Arrived(M, S, w).terminated = M.terminated
      /\ Arrived(M, S, w).arrived = M.arrived \cup S
      /\ Arrived(M, S, w).released <=> M.released \/ Cardinality(M.arrived \cup S) = w
  BY ArrivedKeys
<1>6. PICK K \in Keys : K = Arrived(M, S, w)  BY <1>5
<1>7. store' = [store EXCEPT ![k] = K]  BY <1>1, <1>2, <1>3, <1>6 DEF Shape
<1>8. K.owner = L.owner /\ K.arrived = L.arrived \cup S /\ K.terminated = L.terminated \cup S
  BY <1>4, <1>5, <1>6
<1>9. K.released <=> M.released \/ Cardinality(M.arrived \cup S) = w
  BY <1>5, <1>6
<1>10. K.released <=> \/ store[k].released
                      \/ S # {} /\ Cardinality(store[k].arrived \cup S) = WorldOf(k)
  BY <1>1, <1>2, <1>4, <1>9
<1> QED BY <1>1, <1>7, <1>8, <1>10, Replaced

(* More ranks than the world has never arrive.                                *)
LEMMA NoOverflow ==
    ASSUME Shape, WorldInv, NEW k \in Iterations, NEW r \in Ranks, store[k].owner[r] \in Ranks
    PROVE  ~Overflow(store[k], {r}, WorldOf(k))
<1>1. \A q \in store[k].arrived \cup {r} : q \in Ranks /\ q < WorldOf(k)
  <2> SUFFICES ASSUME NEW q \in store[k].arrived \cup {r} PROVE q \in Ranks /\ q < WorldOf(k)
    OBVIOUS
  <2>1. q \in Ranks  BY KeysOf
  <2>2. store[k].owner[q] \in Ranks  BY <2>1 DEF WorldInv, Marked
  <2> QED BY <2>1, <2>2 DEF WorldInv, Owned
<1>2. WorldOf(k) \in Nat  BY <1>1, WorldOfType DEF Ranks
<1>3. \A q \in store[k].arrived \cup {r} : q \in 0 .. WorldOf(k) - 1
  BY <1>1, <1>2 DEF Ranks
<1>4. Cardinality(store[k].arrived \cup {r}) \in 0 .. WorldOf(k)  BY <1>2, <1>3, FewRanks
<1> QED BY <1>2, <1>4 DEF Overflow

(* Nobody is at work behind a barrier that let go.                            *)
LEMMA AllArrived ==
    ASSUME Shape, WorldInv, Calm, NEW i \in Ranks, store[Iter(i)].released
    PROVE  /\ state[i].rank \in store[Iter(i)].arrived
           /\ main[i] = "barrier" \/ state[i].rank \in store[Iter(i)].terminated
<1>1. PICK k \in Iterations : k = Iter(i)  BY Self
<1>2. PICK r \in Ranks : r = state[i].rank  BY Self
<1>3. r < WorldOf(k)  BY <1>1, <1>2, Self DEF WorldInv, Owned
<1>4. store[k].arrived = 0 .. WorldOf(k) - 1 /\ WorldOf(k) \in Nat  BY <1>1 DEF WorldInv, Full
<1>5. r \in store[k].arrived  BY <1>3, <1>4 DEF Ranks
<1> QED BY <1>1, <1>2, <1>5, Self DEF Calm

LEMMA ArriveAtBarrierStep ==
    ASSUME WrapperInv, NEW i \in Ranks, ArriveAtBarrier(i)
    PROVE  Shape' /\ SomeMoves /\ Life'
<1>1. Shape /\ WorldInv /\ Calm /\ Life  BY DEF WrapperInv
<1>2. PICK k \in Iterations : k = Iter(i)  BY <1>1, Self
<1>3. PICK r \in Ranks : r = state[i].rank  BY <1>1, Self
<1>4. store[k].owner[r] = i /\ Here(i) = store[k] /\ state[i].world = WorldOf(k)
  BY <1>1, <1>2, <1>3, Self DEF WorldInv, Placed
<1>5. main' = [main EXCEPT ![i] = "barrier"]
  <2>1. ~Overflow(store[k], {r}, WorldOf(k))  BY <1>1, <1>4, NoOverflow
  <2> QED BY <1>3, <1>4, <2>1 DEF ArriveAtBarrier, Goto
<1>6. store' = [store EXCEPT ![k] = Arrived(@, {r}, WorldOf(k))]
  BY <1>2, <1>3, <1>4 DEF ArriveAtBarrier
<1>7. store' \in [Iterations -> Keys] /\ Grows(k, {r}, {})  BY <1>1, <1>6, Arrives
<1>8. main[i] = "restart" /\ UNCHANGED <<state, monitor, view, watching, queue>>
  BY DEF ArriveAtBarrier
<1>9. main'[i] = "barrier" /\ \A j \in Ranks : j # i => main'[j] = main[j]
  BY <1>1, <1>5 DEF Shape
<1>10. Shape'  BY <1>1, <1>5, <1>7, <1>8 DEF Shape, Labels
<1>11. SomeMoves
  <2>1. ~store[k].released
    BY <1>1, <1>2, <1>3, <1>4, <1>8, AllArrived DEF Calm, Lost
  <2>2. Permitted(k, {r}, {})  BY <1>2, <1>4, <2>1 DEF Permitted
  <2>3. \A j \in Ranks :
            /\ main[j] = "barrier" => main'[j] = "barrier"
            /\ main[j] \in Lost => main'[j] \in Lost
            /\ main'[j] \in {"restart", "barrier"} => Iter(j) < MaxIterations
            /\ main'[j] = "recorded" \/ monitor'[j] = "recorded" =>
                  state[j].rank \in store[Iter(j)].terminated
    BY <1>1, <1>8, <1>9, Self DEF Calm, Lost
  <2>4. Moves(k, {r}, {})  BY <1>4, <1>7, <1>8, <1>9, <2>2, <2>3 DEF Moves
  <2> QED BY <2>4 DEF SomeMoves
<1>12. Life'
  <2>1. Only(i)  BY <1>8, <1>9 DEF Only
  <2>2. Lives(i)'  BY <1>1, <1>8, <1>9 DEF Lives, Life
  <2> QED BY <1>1, <2>1, <2>2, LifeStep
<1> QED BY <1>10, <1>11, <1>12

LEMMA ExitRecordsStep ==
    ASSUME WrapperInv, NEW i \in Ranks, ExitRecords(i)
    PROVE  Shape' /\ SomeMoves /\ Life'
<1>1. Shape /\ WorldInv /\ Calm /\ Life  BY DEF WrapperInv
<1>2. PICK k \in Iterations : k = Iter(i)  BY <1>1, Self
<1>3. PICK r \in Ranks : r = state[i].rank  BY <1>1, Self
<1>4. store[k].owner[r] = i  BY <1>1, <1>2, <1>3, Self
<1>5. store' = [store EXCEPT ![k] = Terminated(@, {r})]  BY <1>2, <1>3 DEF ExitRecords
<1>6. store' \in [Iterations -> Keys] /\ Grows(k, {}, {r})  BY <1>1, <1>5, Terminates
<1>7. main[i] = "exit" /\ UNCHANGED <<state, monitor, view, watching, queue>>
  BY DEF ExitRecords
<1>8. main'[i] = "recorded" /\ \A j \in Ranks : j # i => main'[j] = main[j]
  BY <1>1 DEF Shape, ExitRecords, Goto
<1>9. Shape'  BY <1>1, <1>6, <1>7 DEF Shape, Labels, ExitRecords, Goto
<1>10. SomeMoves
  <2>1. store[k].released => r \in store[k].terminated
    BY <1>1, <1>2, <1>3, <1>7, AllArrived
  <2>2. Permitted(k, {}, {r})  BY <1>2, <1>4, <2>1 DEF Permitted
  <2>3. \A j \in Ranks :
            /\ main[j] = "barrier" => main'[j] = "barrier"
            /\ main[j] \in Lost => main'[j] \in Lost
            /\ main'[j] \in {"restart", "barrier"} => Iter(j) < MaxIterations
            /\ main'[j] = "recorded" \/ monitor'[j] = "recorded" =>
                  \/ state[j].rank \in store[Iter(j)].terminated
                  \/ Iter(j) = k /\ state[j].rank \in {r}
    BY <1>1, <1>2, <1>3, <1>7, <1>8, Self DEF Calm, Lost
  <2>4. Moves(k, {}, {r})  BY <1>4, <1>6, <1>7, <1>8, <2>2, <2>3 DEF Moves, Lost
  <2> QED BY <2>4 DEF SomeMoves
<1>11. Life'
  <2>1. Only(i)  BY <1>7, <1>8 DEF Only
  <2>2. Lives(i)'  BY <1>1, <1>7, <1>8 DEF Lives, Life
  <2> QED BY <1>1, <2>1, <2>2, LifeStep
<1> QED BY <1>9, <1>10, <1>11

LEMMA ExitArrivesStep ==
    ASSUME WrapperInv, NEW i \in Ranks, ExitArrives(i)
    PROVE  Shape' /\ SomeMoves /\ Life'
<1>1. Shape /\ WorldInv /\ Calm /\ Life  BY DEF WrapperInv
<1>2. PICK k \in Iterations : k = Iter(i)  BY <1>1, Self
<1>3. PICK r \in Ranks : r = state[i].rank  BY <1>1, Self
<1>4. store[k].owner[r] = i /\ Here(i) = store[k] /\ state[i].world = WorldOf(k)
  BY <1>1, <1>2, <1>3, Self DEF WorldInv, Placed
<1>5. main' = [main EXCEPT ![i] = "leaving"]
  <2>1. ~Overflow(store[k], {r}, WorldOf(k))  BY <1>1, <1>4, NoOverflow
  <2> QED BY <1>3, <1>4, <2>1 DEF ExitArrives, Goto
<1>6. store' = [store EXCEPT ![k] = Arrived(@, {r}, WorldOf(k))]
  BY <1>2, <1>3, <1>4 DEF ExitArrives
<1>7. store' \in [Iterations -> Keys] /\ Grows(k, {r}, {})  BY <1>1, <1>6, Arrives
<1>8. main[i] = "recorded" /\ UNCHANGED <<state, monitor, view, watching, queue>>
  BY DEF ExitArrives
<1>9. main'[i] = "leaving" /\ \A j \in Ranks : j # i => main'[j] = main[j]
  BY <1>1, <1>5 DEF Shape
<1>10. Shape'  BY <1>1, <1>5, <1>7, <1>8 DEF Shape, Labels
<1>11. SomeMoves
  <2>1. store[k].released => r \in store[k].arrived
    BY <1>1, <1>2, <1>3, AllArrived
  <2>2. Permitted(k, {r}, {})  BY <1>2, <1>4, <2>1 DEF Permitted
  <2>3. r \in store[k].terminated  BY <1>1, <1>3, <1>4, <1>8 DEF Calm
  <2>4. \A j \in Ranks :
            /\ main[j] = "barrier" => main'[j] = "barrier"
            /\ main[j] \in Lost => main'[j] \in Lost
            /\ main'[j] \in {"restart", "barrier"} => Iter(j) < MaxIterations
            /\ main'[j] = "recorded" \/ monitor'[j] = "recorded" =>
                  state[j].rank \in store[Iter(j)].terminated
    BY <1>1, <1>8, <1>9, Self DEF Calm, Lost
  <2>5. Moves(k, {r}, {})  BY <1>4, <1>7, <1>8, <2>2, <2>3, <2>4 DEF Moves
  <2> QED BY <2>5 DEF SomeMoves
<1>12. Life'
  <2>1. Only(i)  BY <1>8, <1>9 DEF Only
  <2>2. Lives(i)'  BY <1>1, <1>8, <1>9 DEF Lives, Life
  <2> QED BY <1>1, <2>1, <2>2, LifeStep
<1> QED BY <1>10, <1>11, <1>12

(* A step of the store and of the two processes that marks nobody.            *)
LEMMA UnmarkedStep ==
    ASSUME Shape, WorldInv, Calm, NEW i \in Ranks, Unmarked,
           main[i] # "barrier",
           main[i] \in Lost => main'[i] \in Lost,
           main'[i] \in {"restart", "barrier"} => main[i] = main'[i],
           main'[i] = "recorded" => main[i] = "recorded",
           monitor'[i] = "recorded" => monitor[i] = "recorded",
           \A j \in Ranks : j # i => main'[j] = main[j] /\ monitor'[j] = monitor[j]
    PROVE  SomeMoves
<1>1. \A j \in Ranks :
            /\ main[j] = "barrier" => main'[j] = "barrier"
            /\ main[j] \in Lost => main'[j] \in Lost
            /\ main'[j] \in {"restart", "barrier"} => Iter(j) < MaxIterations
            /\ main'[j] = "recorded" \/ monitor'[j] = "recorded" =>
                  state[j].rank \in store[Iter(j)].terminated
  BY Self DEF Calm
<1> QED BY <1>1, UnmarkedMoves

(* The main process goes on to x, and tells its monitor process something.    *)
LEMMA GoAndTell ==
    ASSUME WrapperInv, NEW i \in Ranks, NEW x \in {"raised", "ending"}, Goto(i, x),
           NEW m \in Messages, m.kind # "start", Send(i, <<m>>),
           UNCHANGED <<store, state, monitor, view, watching>>,
           main[i] \notin {"barrier", "dead", "gone"}, main[i] \in Lost => x \in Lost
    PROVE  Shape' /\ SomeMoves /\ Life'
<1>1. Shape /\ WorldInv /\ Calm /\ Life  BY DEF WrapperInv
<1>2. Lives(i) /\ monitor[i] = "on"  BY <1>1 DEF Life, Lives
<1>3. main'[i] = x /\ \A j \in Ranks : j # i => main'[j] = main[j]
  BY <1>1 DEF Goto, Shape
<1>4. /\ queue' = [queue EXCEPT ![i] = @ \o <<m>>]
      /\ queue[i] \in Seq(Messages) /\ queue[i] \o <<m>> \in Seq(Messages)
  BY <1>1, <1>2 DEF Send, Shape
<1>5. queue'[i] = queue[i] \o <<m>> /\ \A j \in Ranks : j # i => queue'[j] = queue[j]
  BY <1>1, <1>4 DEF Shape
<1>6. Shape'
  <2>1. main' \in [Ranks -> Labels]  BY <1>1 DEF Goto, Shape, Labels, Working, InFunction
  <2>2. queue' \in [Ranks -> Seq(Messages)]  BY <1>1, <1>4 DEF Shape
  <2> QED BY <1>1, <2>1, <2>2 DEF Shape
<1>7. Unmarked  BY DEF Unmarked
<1>8. SomeMoves  BY <1>1, <1>3, <1>7, UnmarkedStep
<1>9. Life'
  <2>1. Only(i)  BY <1>3, <1>5 DEF Only
  <2>2. Backlog(state[i], view[i], queue[i]) /\ Told(state[i], view[i], queue[i])
    BY <1>2 DEF Lives
  <2>3. state[i] \in States /\ view[i] \in States \cup {NoView}  BY <1>1 DEF Shape
  <2>4. Backlog(state[i], view[i], queue'[i]) /\ Told(state[i], view[i], queue'[i])
    BY <1>4, <1>5, <2>2, <2>3, TellMore
  <2>5. Lives(i)'  BY <1>2, <1>3, <2>4 DEF Lives
  <2> QED BY <1>1, <2>1, <2>5, LifeStep
<1> QED BY <1>6, <1>8, <1>9

LEMMA RaiseStep ==
    ASSUME WrapperInv, NEW i \in Ranks, Raise(i)
    PROVE  Shape' /\ SomeMoves /\ Life'
BY GoAndTell, MessageTypes DEF Raise, Lost

LEMMA ExitLeavesStep ==
    ASSUME WrapperInv, NEW i \in Ranks, ExitLeaves(i)
    PROVE  Shape' /\ SomeMoves /\ Life'
BY GoAndTell, MessageTypes DEF ExitLeaves, Lost

(* A main process is killed where its monitor process knows its iteration.    *)
LEMMA Knows ==
    ASSUME DyingAt \subseteq KilledAt, NEW i \in Ranks, Where(i) \in DyingAt
    PROVE  /\ main[i] \in KilledAt /\ view[i] = state[i]
<1>1. Where(i) \in KilledAt  OBVIOUS
<1> QED BY <1>1 DEF Where, KilledAt

LEMMA DieStep ==
    ASSUME DyingAt \subseteq KilledAt, WrapperInv, NEW i \in Ranks, Die(i)
    PROVE  Shape' /\ SomeMoves /\ Life'
<1>1. Shape /\ WorldInv /\ Calm /\ Life  BY DEF WrapperInv
<1>2. main[i] \in KilledAt /\ view[i] = state[i]  BY Knows DEF Die
<1>3. main'[i] = "dead" /\ \A j \in Ranks : j # i => main'[j] = main[j]
  BY <1>1 DEF Die, Goto, Shape
<1>4. PICK n \in 0 .. Len(queue[i]) : queue' = [queue EXCEPT ![i] = SubSeq(@, 1, n)]
  BY DEF Die
<1>5. queue'[i] = SubSeq(queue[i], 1, n) /\ \A j \in Ranks : j # i => queue'[j] = queue[j]
  BY <1>1, <1>4 DEF Shape
<1>6. Lives(i)  BY <1>1 DEF Life
<1>7. state[i] \in States /\ view[i] \in States \cup {NoView} /\ queue[i] \in Seq(Messages)
  BY <1>1 DEF Shape
<1>8. Backlog(state[i], view[i], queue'[i]) /\ queue'[i] \in Seq(Messages)
  BY <1>5, <1>6, <1>7, CutOff DEF Lives
<1>9. UNCHANGED <<store, state, monitor, view, watching>>  BY DEF Die
<1>10. Shape'
  <2>1. main' \in [Ranks -> Labels]  BY <1>1 DEF Die, Goto, Shape, Labels
  <2>2. queue' \in [Ranks -> Seq(Messages)]  BY <1>1, <1>4, <1>5, <1>8 DEF Shape
  <2> QED BY <1>1, <1>9, <2>1, <2>2 DEF Shape
<1>11. SomeMoves
  <2>1. Unmarked  BY <1>9 DEF Unmarked
  <2> QED BY <1>1, <1>2, <1>3, <1>9, <2>1, UnmarkedStep DEF KilledAt, Lost
<1>12. Life'
  <2>1. Only(i)  BY <1>3, <1>5, <1>9 DEF Only
  <2>2. Told(state[i], view[i], queue'[i])  BY <1>2 DEF Told
  <2>3. Lives(i)'  BY <1>2, <1>3, <1>6, <1>8, <1>9, <2>2 DEF Lives
  <2> QED BY <1>1, <2>1, <2>3, LifeStep
<1> QED BY <1>10, <1>11, <1>12

LEMMA LoseNodeStep ==
    ASSUME DyingAt \subseteq KilledAt, WrapperInv, NEW i \in Ranks, LoseNode(i)
    PROVE  Shape' /\ SomeMoves /\ Life'
<1>1. Shape /\ WorldInv /\ Calm /\ Life  BY DEF WrapperInv
<1>2. main[i] \in KilledAt /\ view[i] = state[i]  BY Knows DEF LoseNode
<1>3. /\ main'[i] = "dead" /\ monitor'[i] = "over" /\ watching'[i] = FALSE /\ queue'[i] = << >>
      /\ \A j \in Ranks : j # i => /\ main'[j] = main[j] /\ monitor'[j] = monitor[j]
                                   /\ watching'[j] = watching[j] /\ queue'[j] = queue[j]
  BY <1>1 DEF LoseNode, Goto, Shape
<1>4. UNCHANGED <<store, state, view>>  BY DEF LoseNode
<1>5. Shape'
  <2>1. main' \in [Ranks -> Labels]  BY <1>1 DEF LoseNode, Goto, Shape, Labels
  <2>2. << >> \in Seq(Messages)  OBVIOUS
  <2>3. queue' \in [Ranks -> Seq(Messages)]  BY <1>1, <2>2 DEF Shape, LoseNode
  <2>4. monitor' \in [Ranks -> {"on", "mourning", "recorded", "leaving", "over"}]
        /\ watching' \in [Ranks -> BOOLEAN]
    BY <1>1 DEF Shape, LoseNode
  <2> QED BY <1>1, <1>4, <2>1, <2>3, <2>4 DEF Shape
<1>6. SomeMoves
  <2>1. Unmarked  BY <1>4 DEF Unmarked
  <2> QED BY <1>1, <1>2, <1>3, <2>1, UnmarkedStep DEF KilledAt, Lost
<1>7. Life'
  <2>1. Only(i)  BY <1>3, <1>4 DEF Only
  <2>2. Lives(i)  BY <1>1 DEF Life
  <2>3. Backlog(state[i], view[i], << >>)  BY <2>2, NothingSent DEF Lives
  <2>4. Lives(i)'  BY <1>3, <1>4, <2>3 DEF Lives
  <2> QED BY <1>1, <2>1, <2>4, LifeStep
<1> QED BY <1>5, <1>6, <1>7

(* Past the barrier.                                                          *)
LEMMA RestartStep ==
    ASSUME WrapperInv, NEW i \in Ranks, Restart(i)
    PROVE  WrapperInv'
<1>1. Shape /\ WorldInv /\ Calm /\ Life  BY DEF WrapperInv
<1>2. PICK k \in Iterations : k = Iter(i)  BY <1>1, Self
<1>3. Here(i) = store[k]  BY <1>1, <1>2, Self
<1>4. PICK n : n = ShiftRanks(state[i], store[k].terminated)  OBVIOUS
<1>5. main[i] = "barrier" /\ store[k].released /\ k < MaxIterations
  BY <1>1, <1>2, <1>3 DEF Restart, Calm
<1>6. state[i].rank \notin store[k].terminated
  BY <1>1, <1>3, <1>5 DEF Calm, Lost
<1>7. /\ k + 1 \in Iterations /\ n.iteration = k + 1
      /\ n \in States /\ n.rank \in Ranks
      /\ store[k + 1].owner[n.rank] = NoOne
  BY <1>1, <1>2, <1>4, <1>5, <1>6, NextPlace
<1>8. /\ state' = [state EXCEPT ![i] = n]
      /\ store' = [store EXCEPT ![k + 1].owner[n.rank] = i]
      /\ Goto(i, "run") /\ Send(i, <<Disable, Start(n)>>)
  BY <1>3, <1>4, <1>6, <1>7 DEF Restart
<1>9. UNCHANGED <<monitor, view, watching>>  BY DEF Restart
<1>10. Lives(i) /\ monitor[i] = "on"  BY <1>1, <1>5 DEF Life, Lives
<1>11. /\ main'[i] = "run" /\ state'[i] = n
       /\ \A j \in Ranks : j # i => main'[j] = main[j] /\ state'[j] = state[j]
  BY <1>1, <1>8 DEF Goto, Shape
<1>12. queue[i] \in Seq(Messages) /\ queue[i] \o <<Disable, Start(n)>> \in Seq(Messages)
  BY <1>1, <1>7, MessageTypes DEF Shape
<1>13. queue' = [queue EXCEPT ![i] = @ \o <<Disable, Start(n)>>]
  BY <1>8, <1>10 DEF Send
<1>14. /\ queue'[i] = queue[i] \o <<Disable, Start(n)>>
       /\ \A j \in Ranks : j # i => queue'[j] = queue[j]
  BY <1>1, <1>13 DEF Shape
<1>15. Shape'
  <2>1. store' \in [Iterations -> Keys]
    <3>1. PICK K \in Keys : K = store[k + 1]  BY <1>1, <1>7 DEF Shape
    <3>2. [K EXCEPT !.owner = [@ EXCEPT ![n.rank] = i]] \in Keys  BY DEF Keys
    <3>3. store' = [store EXCEPT ![k + 1] = [K EXCEPT !.owner = [@ EXCEPT ![n.rank] = i]]]
      BY <1>8, <3>1
    <3> QED BY <1>1, <3>2, <3>3 DEF Shape
  <2>2. state' \in [Ranks -> States]  BY <1>1, <1>7, <1>8 DEF Shape
  <2>3. main' \in [Ranks -> Labels]
    BY <1>1, <1>8 DEF Goto, Shape, Labels, Working, InFunction
  <2>4. queue' \in [Ranks -> Seq(Messages)]  BY <1>1, <1>12, <1>13 DEF Shape
  <2> QED BY <1>1, <1>9, <2>1, <2>2, <2>3, <2>4 DEF Shape
<1>16. WorldInv'
  <2>1. Enters(i, k, n)  BY <1>8 DEF Enters
  <2> QED BY <1>1, <1>2, <1>4, <1>5, <1>6, <1>15, <2>1, EnterStep
<1>17. \A l \in Iterations : /\ store'[l].arrived = store[l].arrived
                             /\ store'[l].terminated = store[l].terminated
  BY <1>1, <1>8 DEF Shape, Keys
<1>18. Calm'
  <2> SUFFICES ASSUME NEW j \in Ranks
               PROVE  /\ state'[j].rank \in Here(j)'.arrived =>
                            main'[j] = "barrier" \/ state'[j].rank \in Here(j)'.terminated
                      /\ state'[j].rank \in Here(j)'.terminated => main'[j] \in Lost
                      /\ main'[j] = "recorded" \/ monitor'[j] = "recorded" =>
                            state'[j].rank \in Here(j)'.terminated
                      /\ main'[j] \in {"restart", "barrier"} => Iter(j)' < MaxIterations
    BY DEF Calm
  <2>1. CASE j = i
    <3>1. state'[j].rank = n.rank /\ Here(j)' = store'[k + 1]
      BY <1>7, <1>11, <2>1 DEF Here, Iter
    <3>2. n.rank \notin store[k + 1].arrived /\ n.rank \notin store[k + 1].terminated
      BY <1>1, <1>7 DEF WorldInv, Marked, NoOne, Ranks
    <3>3. n.rank \notin Here(j)'.arrived /\ n.rank \notin Here(j)'.terminated
      BY <1>7, <1>17, <3>1, <3>2
    <3> QED BY <1>9, <1>10, <1>11, <2>1, <3>1, <3>3
  <2>2. CASE j # i
    <3>1. PICK l \in Iterations : l = Iter(j)  BY <1>1, Self
    <3>2. Here(j) = store[l] /\ Here(j)' = store'[l] /\ Iter(j)' = l
      BY <1>11, <2>2, <3>1 DEF Here, Iter
    <3> QED BY <1>1, <1>9, <1>11, <1>17, <2>2, <3>1, <3>2 DEF Calm
  <2> QED BY <2>1, <2>2
<1>19. Life'
  <2>1. Only(i)  BY <1>9, <1>11, <1>14 DEF Only
  <2>2. state[i] \in States /\ view[i] \in States \cup {NoView}  BY <1>1 DEF Shape
  <2>3. n.iteration = state[i].iteration + 1  BY <1>2, <1>7 DEF Iter
  <2>4. Backlog(n, view[i], queue'[i]) /\ Told(n, view[i], queue'[i])
    BY <1>7, <1>10, <1>12, <1>14, <2>2, <2>3, TellNext DEF Lives
  <2>5. watching[i] => view[i] # NoView  BY <1>10 DEF Lives
  <2>6. Lives(i)'  BY <1>9, <1>10, <1>11, <2>4, <2>5 DEF Lives
  <2> QED BY <1>1, <2>1, <2>6, LifeStep
<1> QED BY <1>15, <1>16, <1>18, <1>19 DEF WrapperInv

-----------------------------------------------------------------------------
(* The monitor process.                                                       *)
LEMMA InterruptedKeys ==
    ASSUME Shape, NEW k, store' = [store EXCEPT ![k].interrupted = TRUE], state' = state
    PROVE  store' \in [Iterations -> Keys] /\ Unmarked
<1>1. \A K \in Keys : [K EXCEPT !.interrupted = TRUE] \in Keys  BY DEF Keys
<1>2. store' \in [Iterations -> Keys]  BY <1>1 DEF Shape
<1>3. Unmarked  BY DEF Shape, Keys, Unmarked
<1> QED BY <1>2, <1>3

LEMMA ReceiveStep ==
    ASSUME WrapperInv, NEW i \in Ranks, Receive(i)
    PROVE  Shape' /\ SomeMoves /\ Life'
<1>1. Shape /\ WorldInv /\ Calm /\ Life  BY DEF WrapperInv
<1>2. PICK m : m = Head(queue[i])  OBVIOUS
<1>3. PICK u : u = IF m.kind = "start" THEN m.state ELSE view[i]  OBVIOUS
<1>4. /\ state[i] \in States /\ view[i] \in States \cup {NoView}
      /\ queue[i] \in Seq(Messages) /\ queue[i] # << >> /\ monitor[i] = "on"
  BY <1>1 DEF Shape, Receive
<1>5. Lives(i)  BY <1>1 DEF Life
<1>6. /\ Backlog(state[i], u, Tail(queue[i])) /\ Told(state[i], u, Tail(queue[i]))
      /\ u \in States \cup {NoView}
      /\ m.kind = "start" => u \in States
  BY <1>2, <1>3, <1>4, <1>5, Hear DEF Lives
<1>7. m \in Messages /\ Tail(queue[i]) \in Seq(Messages)  BY <1>2, <1>4
<1>8. /\ queue' = [queue EXCEPT ![i] = Tail(@)]
      /\ view' = [view EXCEPT ![i] = u]
      /\ watching' = [watching EXCEPT ![i] = m.kind = "start" \/ (@ /\ m.kind # "disable")]
      /\ UNCHANGED <<main, state>>
  BY <1>1, <1>2, <1>3 DEF Receive, Shape
<1>9. monitor' = IF m.kind # "start" /\ main[i] = "dead"
                 THEN [monitor EXCEPT ![i] = "mourning"] ELSE monitor
  BY <1>2 DEF Receive
<1>10. store' \in [Iterations -> Keys] /\ Unmarked
  <2>1. CASE m.kind = "record"
    <3>1. PICK k : k = view[i].iteration  OBVIOUS
    <3>2. store' = [store EXCEPT ![k].interrupted = TRUE]  BY <1>2, <2>1, <3>1 DEF Receive
    <3> QED BY <1>1, <1>8, <3>2, InterruptedKeys
  <2>2. CASE m.kind # "record"
    <3>1. store' = store  BY <1>2, <2>2 DEF Receive
    <3> QED BY <1>1, <1>8, <3>1, SameStore
  <2> QED BY <2>1, <2>2
<1>11. watching'[i] => m.kind = "start" \/ watching[i]  BY <1>1, <1>8 DEF Shape
<1>12. /\ queue'[i] = Tail(queue[i]) /\ view'[i] = u
       /\ monitor'[i] = IF m.kind # "start" /\ main[i] = "dead" THEN "mourning" ELSE monitor[i]
       /\ \A j \in Ranks : j # i =>
             /\ queue'[j] = queue[j] /\ view'[j] = view[j] /\ watching'[j] = watching[j]
             /\ monitor'[j] = monitor[j]
  BY <1>1, <1>8, <1>9 DEF Shape
<1>13. Shape'
  <2>1. queue' \in [Ranks -> Seq(Messages)] /\ view' \in [Ranks -> States \cup {NoView}]
    <3>1. PICK t \in Seq(Messages) : t = Tail(queue[i])  BY <1>7
    <3>2. queue' = [queue EXCEPT ![i] = t]  BY <1>8, <3>1
    <3>3. queue' \in [Ranks -> Seq(Messages)]  BY <1>1, <3>2 DEF Shape
    <3>4. view' \in [Ranks -> States \cup {NoView}]  BY <1>1, <1>6, <1>8 DEF Shape
    <3> QED BY <3>3, <3>4
  <2>2. watching' \in [Ranks -> BOOLEAN]
    <3>1. PICK w \in BOOLEAN : w = (m.kind = "start" \/ (watching[i] /\ m.kind # "disable"))
      OBVIOUS
    <3>2. watching' = [watching EXCEPT ![i] = w]  BY <1>1, <1>8, <3>1 DEF Shape
    <3> QED BY <1>1, <3>2 DEF Shape
  <2>3. monitor' \in [Ranks -> {"on", "mourning", "recorded", "leaving", "over"}]
    BY <1>1, <1>9 DEF Shape
  <2> QED BY <1>1, <1>8, <1>10, <2>1, <2>2, <2>3 DEF Shape
<1>14. SomeMoves
  <2>1. \A j \in Ranks :
            /\ main[j] = "barrier" => main'[j] = "barrier"
            /\ main[j] \in Lost => main'[j] \in Lost
            /\ main'[j] \in {"restart", "barrier"} => Iter(j) < MaxIterations
            /\ main'[j] = "recorded" \/ monitor'[j] = "recorded" =>
                  state[j].rank \in store[Iter(j)].terminated
    BY <1>1, <1>4, <1>8, <1>12, Self DEF Calm
  <2> QED BY <1>1, <1>10, <2>1, UnmarkedMoves
<1>15. Life'
  <2>1. Only(i)  BY <1>8, <1>12 DEF Only
  <2>2. Backlog(state'[i], view'[i], queue'[i]) /\ Told(state'[i], view'[i], queue'[i])
    BY <1>6, <1>8, <1>12
  <2>3. main[i] = "dead" => u = state[i]
    <3>1. SUFFICES ASSUME main[i] = "dead" PROVE u = state[i]  OBVIOUS
    <3>2. view[i] = state[i]  BY <1>4, <1>5, <3>1 DEF Lives
    <3>3. m.kind # "start"
      <4>1. \A p \in 1 .. Len(queue[i]) : queue[i][p].kind # "start"
        BY <1>4, <1>5, <3>2, NoMoreStarts DEF Lives
      <4>2. 1 \in 1 .. Len(queue[i]) /\ m = queue[i][1]  BY <1>2, <1>4
      <4> QED BY <4>1, <4>2
    <3> QED BY <1>3, <3>2, <3>3
  <2>4. watching'[i] => view'[i] # NoView
    <3>1. CASE m.kind = "start"  BY <1>6, <1>12, <3>1, StateTypes
    <3>2. CASE m.kind # "start"  BY <1>3, <1>5, <1>11, <1>12, <3>2 DEF Lives
    <3> QED BY <3>1, <3>2
  <2>5. Lives(i)'  BY <1>4, <1>5, <1>8, <1>12, <2>2, <2>3, <2>4 DEF Lives
  <2> QED BY <1>1, <2>1, <2>5, LifeStep
<1> QED BY <1>13, <1>14, <1>15

LEMMA SoftTimeoutStep ==
    ASSUME WrapperInv, NEW i \in Ranks, SoftTimeout(i)
    PROVE  Shape' /\ SomeMoves /\ Life'
<1>1. Shape /\ WorldInv /\ Calm /\ Life  BY DEF WrapperInv
<1>2. PICK k : k = view[i].iteration  OBVIOUS
<1>3. store' = [store EXCEPT ![k].interrupted = TRUE]  BY <1>2 DEF SoftTimeout
<1>4. UNCHANGED <<main, state, monitor, view, watching, queue>>  BY DEF SoftTimeout
<1>5. store' \in [Iterations -> Keys] /\ Unmarked  BY <1>1, <1>3, <1>4, InterruptedKeys
<1>6. Shape'  BY <1>1, <1>4, <1>5 DEF Shape
<1>7. SomeMoves
  <2>1. main[i] # "barrier"  BY DEF SoftTimeout
  <2> QED BY <1>1, <1>4, <1>5, <2>1, UnmarkedStep
<1>8. Life'  BY <1>1, <1>4 DEF Life, Lives
<1> QED BY <1>6, <1>7, <1>8

(* A rank is terminated by its monitor process.                               *)
LEMMA OwnTermination ==
    ASSUME Shape, WorldInv, Calm, NEW i \in Ranks, NEW k \in Iterations, k = Iter(i),
           NEW r \in Ranks, r = state[i].rank, state' = state,
           store' = [store EXCEPT ![k] = Terminated(@, {r})],
           main[i] \in {"stuck", "dead"}, main'[i] = "dead",
           \A j \in Ranks : j # i => main'[j] = main[j] /\ monitor'[j] = monitor[j]
    PROVE  store' \in [Iterations -> Keys] /\ SomeMoves
<1>1. store' \in [Iterations -> Keys] /\ Grows(k, {}, {r})
  <2>1. {r} \in SUBSET Ranks  OBVIOUS
  <2> QED BY <2>1, Terminates
<1>2. store[k].owner[r] = i  BY Self
<1>3. store[k].released => r \in store[k].terminated  BY AllArrived
<1>4. Permitted(k, {}, {r})  BY <1>2, <1>3 DEF Permitted
<1>5. \A j \in Ranks :
            /\ main[j] = "barrier" => main'[j] = "barrier"
            /\ main[j] \in Lost => main'[j] \in Lost
            /\ main'[j] \in {"restart", "barrier"} => Iter(j) < MaxIterations
            /\ main'[j] = "recorded" \/ monitor'[j] = "recorded" =>
                  \/ state[j].rank \in store[Iter(j)].terminated
                  \/ Iter(j) = k /\ state[j].rank \in {r}
  BY Self DEF Calm, Lost
<1>6. Moves(k, {}, {r})  BY <1>1, <1>2, <1>4, <1>5 DEF Moves, Lost
<1> QED BY <1>1, <1>6 DEF SomeMoves

LEMMA HardTimeoutStep ==
    ASSUME WrapperInv, NEW i \in Ranks, HardTimeout(i)
    PROVE  Shape' /\ SomeMoves /\ Life'
<1>1. Shape /\ WorldInv /\ Calm /\ Life  BY DEF WrapperInv
<1>2. /\ monitor[i] = "on" /\ queue[i] = << >> /\ main[i] = "stuck"
      /\ UNCHANGED <<state, monitor, view, watching, queue>>
  BY DEF HardTimeout
<1>3. Lives(i)  BY <1>1 DEF Life
<1>4. view[i] = state[i]
  <2>1. \A p \in 1 .. Len(queue[i]) : FALSE  BY <1>2
  <2> QED BY <1>2, <1>3, <2>1 DEF Lives, Told
<1>5. PICK k \in Iterations : k = Iter(i)  BY <1>1, Self
<1>6. PICK r \in Ranks : r = state[i].rank  BY <1>1, Self
<1>7. store' = [store EXCEPT ![k] = Terminated(@, {r})]
  BY <1>4, <1>5, <1>6 DEF HardTimeout, Iter
<1>8. main'[i] = "dead" /\ \A j \in Ranks : j # i => main'[j] = main[j]
  BY <1>1 DEF HardTimeout, Goto, Shape
<1>9. store' \in [Iterations -> Keys] /\ SomeMoves
  BY <1>1, <1>2, <1>5, <1>6, <1>7, <1>8, OwnTermination
<1>10. Shape'
  <2>1. main' \in [Ranks -> Labels]  BY <1>1 DEF HardTimeout, Goto, Shape, Labels
  <2> QED BY <1>1, <1>2, <1>9, <2>1 DEF Shape
<1>11. Life'
  <2>1. Only(i)  BY <1>2, <1>8 DEF Only
  <2>2. Lives(i)'  BY <1>2, <1>3, <1>4, <1>8 DEF Lives
  <2> QED BY <1>1, <2>1, <2>2, LifeStep
<1> QED BY <1>9, <1>10, <1>11

LEMMA HardTimeoutAtEndStep ==
    ASSUME WrapperInv, NEW i \in Ranks, HardTimeoutAtEnd(i)
    PROVE  Shape' /\ SomeMoves /\ Life'
<1>1. Shape /\ WorldInv /\ Calm /\ Life  BY DEF WrapperInv
<1>2. /\ monitor[i] = "on" /\ queue[i] = << >> /\ main[i] = "failed"
      /\ UNCHANGED <<store, state, monitor, view, watching, queue>>
  BY DEF HardTimeoutAtEnd
<1>3. Lives(i)  BY <1>1 DEF Life
<1>4. view[i] = state[i]
  <2>1. \A p \in 1 .. Len(queue[i]) : FALSE  BY <1>2
  <2> QED BY <1>2, <1>3, <2>1 DEF Lives, Told
<1>5. main'[i] = "dead" /\ \A j \in Ranks : j # i => main'[j] = main[j]
  BY <1>1 DEF HardTimeoutAtEnd, Goto, Shape
<1>6. Shape'
  <2>1. main' \in [Ranks -> Labels]  BY <1>1 DEF HardTimeoutAtEnd, Goto, Shape, Labels
  <2> QED BY <1>1, <1>2, <2>1 DEF Shape
<1>7. SomeMoves
  <2>1. Unmarked  BY <1>2 DEF Unmarked
  <2> QED BY <1>1, <1>2, <1>5, <2>1, UnmarkedStep DEF Lost
<1>8. Life'
  <2>1. Only(i)  BY <1>2, <1>5 DEF Only
  <2>2. Lives(i)'  BY <1>2, <1>3, <1>4, <1>5 DEF Lives
  <2> QED BY <1>1, <2>1, <2>2, LifeStep
<1> QED BY <1>6, <1>7, <1>8

LEMMA MournRecordsStep ==
    ASSUME WrapperInv, NEW i \in Ranks, MournRecords(i)
    PROVE  Shape' /\ SomeMoves /\ Life'
<1>1. Shape /\ WorldInv /\ Calm /\ Life  BY DEF WrapperInv
<1>2. Lives(i)  BY <1>1 DEF Life
<1>3. main[i] = "dead" /\ monitor[i] # "over"  BY <1>2 DEF MournRecords, Lives
<1>4. view[i] = state[i] /\ state[i] \in States  BY <1>1, <1>2, <1>3 DEF Lives, Shape
<1>5. view[i] # NoView  BY <1>4, StateTypes
<1>6. PICK k \in Iterations : k = Iter(i)  BY <1>1, Self
<1>7. PICK r \in Ranks : r = state[i].rank  BY <1>1, Self
<1>8. store' = [store EXCEPT ![k] = Terminated(@, {r})]
  BY <1>4, <1>5, <1>6, <1>7 DEF MournRecords, Iter
<1>9. /\ monitor' = [monitor EXCEPT ![i] = "recorded"]
      /\ UNCHANGED <<main, state, view, watching, queue>>
  BY <1>5 DEF MournRecords
<1>10. monitor'[i] = "recorded" /\ \A j \in Ranks : j # i => monitor'[j] = monitor[j]
  BY <1>1, <1>9 DEF Shape
<1>11. store' \in [Iterations -> Keys] /\ SomeMoves
  BY <1>1, <1>3, <1>6, <1>7, <1>8, <1>9, <1>10, OwnTermination
<1>12. Shape'
  <2>1. monitor' \in [Ranks -> {"on", "mourning", "recorded", "leaving", "over"}]
    BY <1>1, <1>9 DEF Shape
  <2> QED BY <1>1, <1>9, <1>11, <2>1 DEF Shape
<1>13. Life'
  <2>1. Only(i)  BY <1>9, <1>10 DEF Only
  <2>2. Lives(i)'  BY <1>2, <1>3, <1>4, <1>9, <1>10 DEF Lives
  <2> QED BY <1>1, <2>1, <2>2, LifeStep
<1> QED BY <1>11, <1>12, <1>13

LEMMA MournArrivesStep ==
    ASSUME WrapperInv, NEW i \in Ranks, MournArrives(i)
    PROVE  Shape' /\ SomeMoves /\ Life'
<1>1. Shape /\ WorldInv /\ Calm /\ Life  BY DEF WrapperInv
<1>2. Lives(i) /\ monitor[i] = "recorded"  BY <1>1 DEF Life, MournArrives
<1>3. main[i] = "dead" /\ view[i] = state[i]  BY <1>2 DEF Lives
<1>4. PICK k \in Iterations : k = Iter(i)  BY <1>1, Self
<1>5. PICK r \in Ranks : r = state[i].rank  BY <1>1, Self
<1>6. store[k].owner[r] = i /\ state[i].world = WorldOf(k) /\ Here(i) = store[k]
  BY <1>1, <1>4, <1>5, Self DEF WorldInv, Placed
<1>7. There(i) = store[k] /\ view[i].iteration = k /\ view[i].rank = r /\ view[i].world = WorldOf(k)
  BY <1>3, <1>4, <1>5, <1>6 DEF There, Iter
<1>8. store' = [store EXCEPT ![k] = Arrived(@, {r}, WorldOf(k))]
  BY <1>7 DEF MournArrives
<1>9. monitor' = [monitor EXCEPT ![i] = "leaving"]
  <2>1. ~Overflow(store[k], {r}, WorldOf(k))  BY <1>1, <1>6, NoOverflow
  <2> QED BY <1>7, <2>1 DEF MournArrives
<1>10. UNCHANGED <<main, state, view, watching, queue>>  BY DEF MournArrives
<1>11. monitor'[i] = "leaving" /\ \A j \in Ranks : j # i => monitor'[j] = monitor[j]
  BY <1>1, <1>9 DEF Shape
<1>12. store' \in [Iterations -> Keys] /\ Grows(k, {r}, {})  BY <1>1, <1>8, Arrives
<1>13. SomeMoves
  <2>1. store[k].released => r \in store[k].arrived
    BY <1>1, <1>4, <1>5, AllArrived
  <2>2. Permitted(k, {r}, {})  BY <1>4, <1>6, <2>1 DEF Permitted
  <2>3. r \in store[k].terminated  BY <1>1, <1>2, <1>5, <1>6 DEF Calm
  <2>4. \A j \in Ranks :
            /\ main[j] = "barrier" => main'[j] = "barrier"
            /\ main[j] \in Lost => main'[j] \in Lost
            /\ main'[j] \in {"restart", "barrier"} => Iter(j) < MaxIterations
            /\ main'[j] = "recorded" \/ monitor'[j] = "recorded" =>
                  state[j].rank \in store[Iter(j)].terminated
    BY <1>1, <1>10, <1>11, Self DEF Calm
  <2>5. Moves(k, {r}, {})  BY <1>10, <1>12, <2>2, <2>3, <2>4 DEF Moves
  <2> QED BY <2>5 DEF SomeMoves
<1>14. Shape'
  <2>1. monitor' \in [Ranks -> {"on", "mourning", "recorded", "leaving", "over"}]
    BY <1>1, <1>9 DEF Shape
  <2> QED BY <1>1, <1>10, <1>12, <2>1 DEF Shape
<1>15. Life'
  <2>1. Only(i)  BY <1>10, <1>11 DEF Only
  <2>2. Lives(i)'  BY <1>2, <1>3, <1>10, <1>11 DEF Lives
  <2> QED BY <1>1, <2>1, <2>2, LifeStep
<1> QED BY <1>13, <1>14, <1>15

LEMMA LastStep ==
    ASSUME WrapperInv, NEW i \in Ranks, MournLeaves(i) \/ Stop(i)
    PROVE  Shape' /\ SomeMoves /\ Life'
<1>1. Shape /\ WorldInv /\ Calm /\ Life  BY DEF WrapperInv
<1>2. Lives(i)  BY <1>1 DEF Life
<1>3. /\ UNCHANGED <<store, main, state, view>>
      /\ monitor' = [monitor EXCEPT ![i] = "over"]
      /\ watching' = [watching EXCEPT ![i] = FALSE]
  BY DEF MournLeaves, Stop
<1>4. PICK q : /\ q \in Seq(Messages) /\ (q = queue[i] \/ q = << >>)
               /\ queue' = [queue EXCEPT ![i] = q]
  <2>1. queue[i] \in Seq(Messages) /\ << >> \in Seq(Messages)  BY <1>1 DEF Shape
  <2>2. CASE MournLeaves(i)
    <3>1. queue' = [queue EXCEPT ![i] = queue[i]]  BY <1>1, <2>2 DEF Shape, MournLeaves
    <3> QED BY <2>1, <3>1
  <2>3. CASE Stop(i)
    <3>1. queue' = [queue EXCEPT ![i] = << >>]  BY <2>3 DEF Stop
    <3> QED BY <2>1, <3>1
  <2> QED BY <2>2, <2>3
<1>5. /\ monitor'[i] = "over" /\ watching'[i] = FALSE /\ queue'[i] = q
      /\ \A j \in Ranks : j # i => /\ monitor'[j] = monitor[j] /\ watching'[j] = watching[j]
                                   /\ queue'[j] = queue[j]
  BY <1>1, <1>3, <1>4 DEF Shape
<1>6. main[i] \in {"dead", "gone"}  BY <1>2 DEF MournLeaves, Stop, Lives
<1>7. Shape'
  <2>1. queue' \in [Ranks -> Seq(Messages)]  BY <1>1, <1>4 DEF Shape
  <2>2. monitor' \in [Ranks -> {"on", "mourning", "recorded", "leaving", "over"}]
        /\ watching' \in [Ranks -> BOOLEAN]
    BY <1>1, <1>3 DEF Shape
  <2> QED BY <1>1, <1>3, <2>1, <2>2 DEF Shape
<1>8. SomeMoves
  <2>1. Unmarked  BY <1>3 DEF Unmarked
  <2> QED BY <1>1, <1>3, <1>5, <1>6, <2>1, UnmarkedStep
<1>9. Life'
  <2>1. Only(i)  BY <1>3, <1>5 DEF Only
  <2>2. Backlog(state[i], view[i], q)  BY <1>2, <1>4, NothingSent DEF Lives
  <2>3. Lives(i)'  BY <1>3, <1>5, <1>6, <2>2 DEF Lives
  <2> QED BY <1>1, <2>1, <2>3, LifeStep
<1> QED BY <1>7, <1>8, <1>9

LEMMA TerminateSilentStep ==
    ASSUME WrapperInv, NEW i \in Ranks, TerminateSilent(i)
    PROVE  Shape' /\ SomeMoves /\ Life'
<1>1. Shape /\ WorldInv /\ Calm /\ Life  BY DEF WrapperInv
<1>2. Lives(i) /\ watching[i]  BY <1>1 DEF Life, TerminateSilent
<1>3. state[i] \in States /\ view[i] \in States  BY <1>1, <1>2 DEF Shape, Lives
<1>4. PICK k \in Iterations : k = view[i].iteration  BY <1>3, StateTypes
<1>5. ~store[k].released  BY <1>4 DEF TerminateSilent
<1>6. view[i] = state[i] /\ k = Iter(i)
  <2>1. view[i] = state[i] \/ k < Iter(i)  BY <1>2, <1>4 DEF Lives, Backlog, Iter
  <2>2. ~(k < Iter(i))  BY <1>1, <1>5 DEF WorldInv, Placed
  <2> QED BY <1>4, <2>1, <2>2 DEF Iter
<1>7. PICK S \in SUBSET Ranks : S = Silent(k)  BY DEF Silent
<1>8. S # {}  BY <1>4, <1>7 DEF TerminateSilent
<1>9. view[i].world = WorldOf(k)  BY <1>1, <1>6 DEF WorldInv, Placed
<1>10. store' = [store EXCEPT ![k] = Arrived(Terminated(@, S), S, WorldOf(k))]
  BY <1>4, <1>7, <1>9 DEF TerminateSilent
<1>11. /\ UNCHANGED <<main, state, monitor, view, queue>>
       /\ watching' \in [Ranks -> BOOLEAN] /\ watching'[i] = FALSE
       /\ \A j \in Ranks : j # i => watching'[j] = watching[j]
  BY <1>1 DEF TerminateSilent, Shape
<1>12. store' \in [Iterations -> Keys] /\ Grows(k, S, S)  BY <1>1, <1>8, <1>10, TerminatesAndArrives
<1>13. \A r \in S : /\ store[k].owner[r] \in Ranks /\ Iter(store[k].owner[r]) = k
                    /\ main[store[k].owner[r]] \in Lost
  <2> SUFFICES ASSUME NEW r \in S
               PROVE  /\ store[k].owner[r] \in Ranks /\ Iter(store[k].owner[r]) = k
                      /\ main[store[k].owner[r]] \in Lost
    OBVIOUS
  <2>1. r \in Ranks /\ store[k].owner[r] # NoOne /\ monitor[store[k].owner[r]] = "over"
    BY <1>7 DEF Silent
  <2>2. PICK j \in Ranks : j = store[k].owner[r]  BY <1>1, <2>1, KeysOf
  <2>3. Iter(j) >= k /\ Iter(j) \in Iterations  BY <1>1, <2>1, <2>2, Self DEF WorldInv, Owned
  <2>4. ~(k < Iter(j))  BY <1>1, <1>5 DEF WorldInv, Placed
  <2>5. Iter(j) = k  BY <2>3, <2>4, SizesAssumption DEF Iterations
  <2>6. main[j] \in {"dead", "gone"}  BY <1>1, <2>1, <2>2 DEF Life, Lives
  <2> QED BY <2>2, <2>5, <2>6 DEF Lost
<1>14. SomeMoves
  <2>1. Permitted(k, S, S)  BY <1>5, <1>13 DEF Permitted
  <2>2. \A j \in Ranks :
            /\ main[j] = "barrier" => main'[j] = "barrier"
            /\ main[j] \in Lost => main'[j] \in Lost
            /\ main'[j] \in {"restart", "barrier"} => Iter(j) < MaxIterations
            /\ main'[j] = "recorded" \/ monitor'[j] = "recorded" =>
                  state[j].rank \in store[Iter(j)].terminated
    BY <1>1, <1>11, Self DEF Calm
  <2>3. Moves(k, S, S)  BY <1>11, <1>12, <1>13, <2>1, <2>2 DEF Moves
  <2> QED BY <2>3 DEF SomeMoves
<1>15. Shape'  BY <1>1, <1>11, <1>12 DEF Shape
<1>16. Life'
  <2>1. Only(i)  BY <1>11 DEF Only
  <2>2. Lives(i)'  BY <1>2, <1>11 DEF Lives
  <2> QED BY <1>1, <2>1, <2>2, LifeStep
<1> QED BY <1>14, <1>15, <1>16

-----------------------------------------------------------------------------
LEMMA InitWrapper == Init => WrapperInv
<1> SUFFICES ASSUME Init PROVE WrapperInv  OBVIOUS
<1>1. World \in Nat \ {0} /\ 0 \in Iterations  BY SizesAssumption DEF Iterations
<1>2. \A i \in Ranks : /\ state[i] \in States /\ state[i].iteration = 0
                       /\ state[i].rank = i /\ state[i].world = World
  BY <1>1 DEF Init, States, Ranks
<1>3. /\ \A k \in Iterations : /\ store[k].terminated = {} /\ store[k].arrived = {}
                               /\ store[k].released = FALSE
      /\ \A r \in Ranks : store[0].owner[r] = r
      /\ \A k \in Iterations : k # 0 => \A r \in Ranks : store[k].owner[r] = NoOne
  BY <1>1 DEF Init, EmptyStore
<1>4. Shape
  <2>1. store \in [Iterations -> Keys]
    <3>1. PICK E \in Keys : E = EmptyStore  BY DEF EmptyStore, Keys
    <3>2. PICK first \in Keys : first = [E EXCEPT !.owner = [r \in Ranks |-> r]]  BY DEF Keys
    <3>3. store = [k \in Iterations |-> IF k = 0 THEN first ELSE E]  BY <3>1, <3>2 DEF Init
    <3> QED BY <3>3
  <2>2. main \in [Ranks -> Labels]  BY DEF Init, Labels, Working, InFunction
  <2>3. state \in [Ranks -> States]  BY <1>2 DEF Init
  <2>4. queue \in [Ranks -> Seq(Messages)]
    <3>1. \A i \in Ranks : <<Start(state[i])>> \in Seq(Messages)  BY <1>2, MessageTypes
    <3> QED BY <3>1 DEF Init
  <2>5. /\ monitor \in [Ranks -> {"on", "mourning", "recorded", "leaving", "over"}]
        /\ view \in [Ranks -> States \cup {NoView}]
    BY DEF Init
  <2>6. watching \in [Ranks -> BOOLEAN]  BY DEF Init
  <2> QED BY <2>1, <2>2, <2>3, <2>4, <2>5, <2>6 DEF Shape
<1>5. WorldInv
  <2>1. Placed
    <3> SUFFICES ASSUME NEW i \in Ranks
                 PROVE  /\ store[Iter(i)].owner[state[i].rank] = i
                        /\ state[i].world = WorldOf(Iter(i)) /\ state[i].rank < state[i].world
                        /\ \A k \in Iterations : k < Iter(i) => store[k].released
      BY DEF Placed
    <3>1. Iter(i) = 0 /\ WorldOf(Iter(i)) = World  BY <1>2 DEF Iter, WorldOf
    <3> QED BY <1>1, <1>2, <1>3, <3>1, SizesAssumption DEF Ranks, Iterations
  <2>2. Owned
    <3> SUFFICES ASSUME NEW k \in Iterations, NEW r \in Ranks, NEW j \in Ranks,
                        store[k].owner[r] = j
                 PROVE  /\ Iter(j) >= k /\ r < WorldOf(k)
                        /\ Iter(j) = k => r = state[j].rank
                        /\ Iter(j) > k => r \notin store[k].terminated
      BY DEF Owned
    <3>1. k = 0 /\ r = j  BY <1>1, <1>3 DEF NoOne, Ranks
    <3> QED BY <1>1, <1>2, <3>1 DEF Iter, WorldOf, Ranks
  <2>3. Came
    <3> SUFFICES ASSUME NEW k \in Iterations, NEW r \in Ranks, NEW j \in Ranks,
                        k + 1 \in Iterations, store[k + 1].owner[r] = j
                 PROVE  FALSE
      BY DEF Came
    <3>1. k + 1 # 0  BY SizesAssumption DEF Iterations
    <3> QED BY <1>1, <1>3, <3>1 DEF NoOne, Ranks
  <2>4. Marked /\ Full  BY <1>3 DEF Marked, Full
  <2> QED BY <2>1, <2>2, <2>3, <2>4 DEF WorldInv
<1>6. Calm
  <2> SUFFICES ASSUME NEW i \in Ranks
               PROVE  /\ Here(i).arrived = {} /\ Here(i).terminated = {}
                      /\ main[i] = "run" /\ monitor[i] = "on"
    BY DEF Calm
  <2> QED BY <1>1, <1>2, <1>3 DEF Here, Iter, Init
<1>7. Life
  <2> SUFFICES ASSUME NEW i \in Ranks PROVE Lives(i)  BY DEF Life
  <2>1. /\ view[i] = NoView /\ queue[i] = <<Start(state[i])>> /\ main[i] = "run"
        /\ monitor[i] = "on" /\ watching[i] = FALSE
    BY DEF Init
  <2>2. /\ Len(queue[i]) = 1 /\ queue[i][1] = Start(state[i]) /\ 1 .. 1 = {1}
        /\ Start(state[i]).state = state[i]
    BY <1>2, <2>1, MessageTypes
  <2>3. view[i].iteration < state[i].iteration  BY <1>2, <2>1, StateTypes
  <2>4. Backlog(state[i], view[i], queue[i])  BY <2>2, <2>3 DEF Backlog
  <2>5. Told(state[i], view[i], queue[i])  BY <2>2 DEF Told
  <2> QED BY <2>1, <2>4, <2>5 DEF Lives
<1> QED BY <1>4, <1>5, <1>6, <1>7 DEF WrapperInv

LEMMA StutterMoves == WrapperInv /\ UNCHANGED vars => Shape' /\ SomeMoves
<1> SUFFICES ASSUME WrapperInv, UNCHANGED vars PROVE Shape' /\ SomeMoves  OBVIOUS
<1>1. Shape /\ WorldInv /\ Calm  BY DEF WrapperInv
<1>2. Shape'  BY <1>1 DEF Shape, vars
<1>3. Unmarked  BY DEF Unmarked, vars
<1>4. \A j \in Ranks :
            /\ main[j] = "barrier" => main'[j] = "barrier"
            /\ main[j] \in Lost => main'[j] \in Lost
            /\ main'[j] \in {"restart", "barrier"} => Iter(j) < MaxIterations
            /\ main'[j] = "recorded" \/ monitor'[j] = "recorded" =>
                  state[j].rank \in store[Iter(j)].terminated
  BY <1>1, Self DEF Calm, vars
<1>5. SomeMoves  BY <1>1, <1>3, <1>4, UnmarkedMoves
<1> QED BY <1>2, <1>5

LEMMA StutterStep == WrapperInv /\ UNCHANGED vars => WrapperInv'
<1> SUFFICES ASSUME WrapperInv, UNCHANGED vars PROVE WrapperInv'  OBVIOUS
<1>1. Shape /\ WorldInv /\ Calm /\ Life  BY DEF WrapperInv
<1>2. Shape' /\ SomeMoves  BY StutterMoves
<1>3. WorldInv' /\ Calm'  BY <1>1, <1>2, MovesKeep
<1>4. Life'  BY <1>1 DEF Life, Lives, vars
<1> QED BY <1>2, <1>3, <1>4 DEF WrapperInv

LEMMA WrapperStep ==
    DyingAt \subseteq KilledAt /\ WrapperInv /\ [Next]_vars => WrapperInv'
<1> SUFFICES ASSUME DyingAt \subseteq KilledAt, WrapperInv, [Next]_vars PROVE WrapperInv'
  OBVIOUS
<1>1. ASSUME Shape' /\ SomeMoves /\ Life' PROVE WrapperInv'
  BY <1>1, MovesKeep DEF WrapperInv
<1>2. CASE UNCHANGED vars  BY <1>2, StutterStep
<1>3. ASSUME NEW i \in Ranks, Main(i) PROVE WrapperInv'
  <2>1. CASE Return(i) \/ RankShouldRestart(i) \/ Shutdown(i) \/ HostLeaves(i)
    BY <1>1, <2>1, WorkStep
  <2>2. CASE ArriveAtBarrier(i)  BY <1>1, <2>2, ArriveAtBarrierStep
  <2>3. CASE Restart(i)  BY <2>3, RestartStep
  <2>4. CASE ExitRecords(i)  BY <1>1, <2>4, ExitRecordsStep
  <2>5. CASE ExitArrives(i)  BY <1>1, <2>5, ExitArrivesStep
  <2>6. CASE ExitLeaves(i)  BY <1>1, <2>6, ExitLeavesStep
  <2> QED BY <1>3, <2>1, <2>2, <2>3, <2>4, <2>5, <2>6 DEF Main
<1>4. ASSUME NEW i \in Ranks, Monitor(i) PROVE WrapperInv'
  <2>1. CASE Receive(i)  BY <1>1, <2>1, ReceiveStep
  <2>2. CASE SoftTimeout(i)  BY <1>1, <2>2, SoftTimeoutStep
  <2>3. CASE HardTimeout(i)  BY <1>1, <2>3, HardTimeoutStep
  <2>4. CASE TerminateSilent(i)  BY <1>1, <2>4, TerminateSilentStep
  <2>5. CASE MournRecords(i)  BY <1>1, <2>5, MournRecordsStep
  <2>6. CASE MournArrives(i)  BY <1>1, <2>6, MournArrivesStep
  <2>7. CASE MournLeaves(i) \/ Stop(i)  BY <1>1, <2>7, LastStep
  <2>8. CASE HardTimeoutAtEnd(i)  BY <1>1, <2>8, HardTimeoutAtEndStep
  <2> QED BY <1>4, <2>1, <2>2, <2>3, <2>4, <2>5, <2>6, <2>7, <2>8 DEF Monitor
<1>5. ASSUME NEW i \in Ranks, Function(i) PROVE WrapperInv'
  <2>1. CASE FnReturns(i)  BY <1>1, <2>1, FnReturnsStep
  <2>2. CASE Raise(i)  BY <1>1, <2>2, RaiseStep
  <2>3. CASE Hang(i) \/ GiveUp(i)  BY <1>1, <2>3, WorkStep
  <2> QED BY <1>5, <2>1, <2>2, <2>3 DEF Function
<1>6. ASSUME NEW i \in Ranks, Die(i) PROVE WrapperInv'  BY <1>1, <1>6, DieStep
<1>7. ASSUME NEW i \in Ranks, LoseNode(i) PROVE WrapperInv'  BY <1>1, <1>7, LoseNodeStep
<1> QED BY <1>2, <1>3, <1>4, <1>5, <1>6, <1>7 DEF Next

LEMMA Invariant == DyingAt \subseteq KilledAt => (Spec => []WrapperInv)
<1> SUFFICES ASSUME DyingAt \subseteq KilledAt PROVE Spec => []WrapperInv  OBVIOUS
<1>1. WrapperInv /\ [Next]_vars => WrapperInv'  BY WrapperStep
<1> QED BY <1>1, InitWrapper, PTL DEF Spec

(* The function restarts simultaneously: nobody is at work in an iteration    *)
(* that another, not terminated, has left (wrap.py).                          *)
THEOREM RestartsTogether ==
    DyingAt \subseteq KilledAt => (Spec => []RestartIsSynchronized)
<1>1. WrapperInv => RestartIsSynchronized
  <2> SUFFICES ASSUME WrapperInv, NEW i \in Ranks, NEW j \in Ranks,
                      main[i] \in Working, main[j] \in Working, Iter(j) < Iter(i)
               PROVE  Discarded(j)
    BY DEF RestartIsSynchronized
  <2>1. Shape /\ WorldInv /\ Calm  BY DEF WrapperInv
  <2>2. store[Iter(j)].released  BY <2>1, Self DEF WorldInv, Placed
  <2>3. main[j] # "barrier"  BY DEF Working, InFunction
  <2> QED BY <2>1, <2>2, <2>3, AllArrived, Self DEF Discarded
<1> SUFFICES ASSUME DyingAt \subseteq KilledAt PROVE Spec => []RestartIsSynchronized  OBVIOUS
<1>2. Spec => []WrapperInv  BY Invariant
<1> QED BY <1>1, <1>2, PTL

(* The ranks of an iteration agree on their world, and differ in it.          *)
THEOREM WorldsAgree ==
    DyingAt \subseteq KilledAt => (Spec => []OneWorld)
<1>1. WrapperInv => OneWorld
  <2> SUFFICES ASSUME WrapperInv, NEW i \in Ranks, NEW j \in Ranks, Iter(i) = Iter(j)
               PROVE  /\ state[i].rank < state[i].world /\ state[i].world = state[j].world
                      /\ i # j => state[i].rank # state[j].rank
    BY DEF OneWorld
  <2>1. Shape /\ WorldInv /\ Placed  BY DEF WrapperInv, WorldInv
  <2>2. PICK k \in Iterations : k = Iter(i) /\ k = Iter(j)  BY <2>1, Self
  <2>3. /\ state[i].world = WorldOf(k) /\ state[i].rank < state[i].world
        /\ store[k].owner[state[i].rank] = i
    BY <2>1, <2>2 DEF Placed
  <2>4. state[j].world = WorldOf(k) /\ store[k].owner[state[j].rank] = j
    BY <2>1, <2>2 DEF Placed
  <2> QED BY <2>3, <2>4
<1> SUFFICES ASSUME DyingAt \subseteq KilledAt PROVE Spec => []OneWorld  OBVIOUS
<1>2. Spec => []WrapperInv  BY Invariant
<1> QED BY <1>1, <1>2, PTL

(* The faults of a rank cost nobody else its place.                           *)
THEOREM HealthyKeepTheirPlace ==
    DyingAt \subseteq KilledAt => (Spec => []OnlyTheFaultyAreTerminated)
<1>1. WrapperInv => OnlyTheFaultyAreTerminated
  <2> SUFFICES ASSUME WrapperInv, NEW k \in Iterations, NEW r \in store[k].terminated
               PROVE  /\ store[k].owner[r] # NoOne
                      /\ main[store[k].owner[r]] \in Lost
    BY DEF OnlyTheFaultyAreTerminated, Lost
  <2>1. Shape /\ WorldInv /\ Calm  BY DEF WrapperInv
  <2>2. r \in Ranks  BY <2>1, KeysOf
  <2>3. PICK j \in Ranks : j = store[k].owner[r]  BY <2>1, <2>2 DEF WorldInv, Marked
  <2>4. Iter(j) >= k /\ (Iter(j) = k => r = state[j].rank) /\ ~(Iter(j) > k)
    BY <2>1, <2>2, <2>3 DEF WorldInv, Owned
  <2>5. Iter(j) = k  BY <2>1, <2>4, Self, SizesAssumption DEF Iterations
  <2>6. Here(j) = store[k] /\ r = state[j].rank  BY <2>1, <2>4, <2>5, Self
  <2>7. main[j] \in Lost  BY <2>1, <2>6 DEF Calm
  <2> QED BY <2>3, <2>7 DEF NoOne, Ranks
<1> SUFFICES ASSUME DyingAt \subseteq KilledAt PROVE Spec => []OnlyTheFaultyAreTerminated
  OBVIOUS
<1>2. Spec => []WrapperInv  BY Invariant
<1> QED BY <1>1, <1>2, PTL

-----------------------------------------------------------------------------
(* Completion.  The ranks of an iteration that are not in its function any    *)
(* more; those that finished it are among them.                               *)
NotRunning(k) == {r \in Ranks : /\ store[k].owner[r] \in Ranks
                                /\ ~(/\ Iter(store[k].owner[r]) = k
                                     /\ main[store[k].owner[r]] = "run")}

(* Some rank has left the function without having finished it.                *)
Short(k) == store[k].finished < Cardinality(NotRunning(k))

(* A message in q to a monitor process with view v records iteration k as     *)
(* interrupted.                                                               *)
About(v, q, p, k) ==
    /\ q[p].kind = "record"
    /\ \/ k = v.iteration /\ \A x \in 1 .. p - 1 : q[x].kind # "start"
       \/ \E x \in 1 .. p - 1 : /\ q[x].kind = "start" /\ q[x].state.iteration = k
                                /\ \A y \in x + 1 .. p - 1 : q[y].kind # "start"
Noted(v, q, k) == \E p \in 1 .. Len(q) : About(v, q, p, k)

(* What the completion barrier counts, and what stands behind an interruption *)
(* without a termination.                                                     *)
Count == \A k \in Iterations :
    /\ store[k].finished <= Cardinality(NotRunning(k))
    /\ store[k].all_finished =>
          store[k].finished >= WorldOf(k) /\ \E r \in Ranks : store[k].owner[r] \in Ranks
    /\ store[k].interrupted /\ store[k].terminated = {} => Short(k)

Behind == \A i \in Ranks :
    /\ main[i] \in {"raised", "hung", "stuck"} => Short(Iter(i))
    /\ main[i] \in {"restart", "barrier"} => store[Iter(i)].interrupted
    /\ \A k \in Iterations :
          /\ k < Iter(i) => store[k].interrupted
          /\ monitor[i] = "on" /\ Noted(view[i], queue[i], k) => Short(k)

CompletionInv == WrapperInv /\ Count /\ Behind

LEMMA NotRunningFinite ==
    \A k : IsFiniteSet(NotRunning(k)) /\ Cardinality(NotRunning(k)) \in Nat
<1> SUFFICES ASSUME NEW k
             PROVE  IsFiniteSet(NotRunning(k)) /\ Cardinality(NotRunning(k)) \in Nat
  OBVIOUS
<1>1. World \in Nat  BY SizesAssumption
<1>2. \A r \in NotRunning(k) : r \in 0 .. World - 1  BY DEF NotRunning, Ranks
<1> QED BY <1>1, <1>2, FewRanks

-----------------------------------------------------------------------------
(* The messages of a queue after it changes.                                  *)
LEMMA NotedMore ==
    ASSUME NEW v, NEW q \in Seq(Messages), NEW t \in Seq(Messages), NEW k,
           \A p \in 1 .. Len(t) : t[p].kind # "record", Noted(v, q \o t, k)
    PROVE  Noted(v, q, k)
<1> DEFINE u == q \o t
<1>1. /\ Len(u) = Len(q) + Len(t) /\ Len(q) \in Nat /\ Len(t) \in Nat
      /\ \A p \in 1 .. Len(q) : u[p] = q[p]
      /\ \A p \in 1 .. Len(t) : u[Len(q) + p] = t[p]
  OBVIOUS
<1> HIDE DEF u
<1>2. PICK p \in 1 .. Len(u) : About(v, u, p, k)  BY DEF u, Noted
<1>3. p \in 1 .. Len(q)
  <2>1. CASE p > Len(q)
    <3>1. p - Len(q) \in 1 .. Len(t) /\ Len(q) + (p - Len(q)) = p  BY <1>1, <2>1
    <3> QED BY <1>1, <1>2, <3>1 DEF About
  <2> QED BY <1>1, <2>1
<1>4. p \in Nat /\ \A x \in 1 .. p : u[x] = q[x]  BY <1>1, <1>3
<1>5. About(v, q, p, k)
  <2>1. u[p] = q[p] /\ \A x \in 1 .. p - 1 : u[x] = q[x]  BY <1>3, <1>4
  <2>2. \A x \in 1 .. p - 1 : \A y \in x + 1 .. p - 1 : u[y] = q[y]
    <3> HIDE <1>1, <1>2
    <3> QED BY <1>4
  <2> QED BY <1>2, <2>1, <2>2 DEF About
<1> QED BY <1>3, <1>5 DEF Noted

LEMMA NotedCut ==
    ASSUME NEW v, NEW q \in Seq(Messages), NEW n \in 0 .. Len(q), NEW k,
           Noted(v, SubSeq(q, 1, n), k)
    PROVE  Noted(v, q, k)
<1> DEFINE u == SubSeq(q, 1, n)
<1>1. /\ Len(u) = n
      /\ \A p \in 1 .. n : u[p] = q[p] /\ p \in 1 .. Len(q)
  OBVIOUS
<1> HIDE DEF u
<1>2. PICK p \in 1 .. n : About(v, u, p, k)  BY <1>1 DEF u, Noted
<1>3. u[p] = q[p] /\ \A x \in 1 .. p - 1 : u[x] = q[x] /\ \A y \in x + 1 .. p - 1 : u[y] = q[y]
  BY <1>1
<1>4. About(v, q, p, k)  BY <1>2, <1>3 DEF About
<1> QED BY <1>1, <1>4 DEF Noted

LEMMA NotedHeard ==
    ASSUME NEW v, NEW q \in Seq(Messages), q # << >>, NEW k,
           NEW u, u = IF Head(q).kind = "start" THEN Head(q).state ELSE v,
           Noted(u, Tail(q), k)
    PROVE  Noted(v, q, k)
<1> DEFINE t == Tail(q)
<1>1. /\ Len(q) = Len(t) + 1 /\ Len(t) \in Nat
      /\ Head(q) = q[1]
      /\ \A p \in 1 .. Len(t) : t[p] = q[p + 1] /\ p + 1 \in 1 .. Len(q)
  OBVIOUS
<1> HIDE DEF t
<1>2. PICK p \in 1 .. Len(t) : About(u, t, p, k)  BY DEF t, Noted
<1>3. p + 1 \in 1 .. Len(q) /\ q[p + 1].kind = "record"  BY <1>1, <1>2 DEF About
<1>4. \A y \in 2 .. p : q[y] = t[y - 1] /\ y - 1 \in 1 .. p - 1  BY <1>1
<1>5. \/ k = v.iteration /\ \A x \in 1 .. p : q[x].kind # "start"
      \/ \E x \in 1 .. p : /\ q[x].kind = "start" /\ q[x].state.iteration = k
                           /\ \A y \in x + 1 .. p : q[y].kind # "start"
  <2>1. CASE k = u.iteration /\ \A x \in 1 .. p - 1 : t[x].kind # "start"
    <3>1. \A y \in 2 .. p : q[y].kind # "start"  BY <1>4, <2>1
    <3>2. CASE Head(q).kind = "start"
      <4>1. 1 \in 1 .. p /\ q[1].kind = "start" /\ q[1].state.iteration = k
            /\ \A y \in 1 + 1 .. p : q[y].kind # "start"
        BY <1>1, <2>1, <3>1, <3>2
      <4> QED BY <4>1
    <3>3. CASE Head(q).kind # "start"
      <4>1. \A x \in 1 .. p : q[x].kind # "start"
        <5> SUFFICES ASSUME NEW x \in 1 .. p PROVE q[x].kind # "start"  OBVIOUS
        <5>1. x = 1 \/ x \in 2 .. p  OBVIOUS
        <5> QED BY <1>1, <3>1, <3>3, <5>1
      <4> QED BY <2>1, <3>3, <4>1
    <3> QED BY <3>2, <3>3
  <2>2. CASE \E x \in 1 .. p - 1 : /\ t[x].kind = "start" /\ t[x].state.iteration = k
                                   /\ \A y \in x + 1 .. p - 1 : t[y].kind # "start"
    <3>1. PICK x \in 1 .. p - 1 : /\ t[x].kind = "start" /\ t[x].state.iteration = k
                                  /\ \A y \in x + 1 .. p - 1 : t[y].kind # "start"
      BY <2>2
    <3>2. x + 1 \in 1 .. p /\ q[x + 1] = t[x]  BY <1>1
    <3>3. \A y \in (x + 1) + 1 .. p : q[y].kind # "start"
      <4> SUFFICES ASSUME NEW y \in (x + 1) + 1 .. p PROVE q[y].kind # "start"  OBVIOUS
      <4>1. y \in 2 .. p /\ y - 1 \in x + 1 .. p - 1  OBVIOUS
      <4> QED BY <1>4, <3>1, <4>1
    <3> QED BY <3>1, <3>2, <3>3
  <2> QED BY <1>2, <2>1, <2>2 DEF About
<1>6. About(v, q, p + 1, k)
  <2>1. (p + 1) - 1 = p  OBVIOUS
  <2> QED BY <1>3, <1>5, <2>1 DEF About
<1> QED BY <1>3, <1>6 DEF Noted

(* A record that is sent now is about the iteration of its rank.              *)
LEMMA NotedNow ==
    ASSUME NEW s \in States, NEW v \in States \cup {NoView}, NEW q \in Seq(Messages),
           Backlog(s, v, q), Told(s, v, q), NEW k, Noted(v, q \o <<RecordInterrupted>>, k)
    PROVE  Noted(v, q, k) \/ k = s.iteration
<1> DEFINE u == q \o <<RecordInterrupted>>
<1>1. /\ Len(u) = Len(q) + 1 /\ Len(q) \in Nat
      /\ \A p \in 1 .. Len(q) : u[p] = q[p]
  OBVIOUS
<1> HIDE DEF u
<1>2. PICK p \in 1 .. Len(u) : About(v, u, p, k)  BY DEF u, Noted
<1>3. CASE p \in 1 .. Len(q)
  <2>1. u[p] = q[p] /\ \A x \in 1 .. p - 1 : u[x] = q[x] /\ \A y \in x + 1 .. p - 1 : u[y] = q[y]
    BY <1>1, <1>3
  <2>2. About(v, q, p, k)  BY <1>2, <2>1 DEF About
  <2> QED BY <1>3, <2>2 DEF Noted
<1>4. CASE p = Len(q) + 1
  <2>1. \A x \in 1 .. p - 1 : u[x] = q[x] /\ x \in 1 .. Len(q)  BY <1>1, <1>4
  <2>2. CASE k = v.iteration /\ \A x \in 1 .. p - 1 : u[x].kind # "start"
    <3>1. \A x \in 1 .. Len(q) : q[x].kind # "start"  BY <1>1, <1>4, <2>2
    <3>2. v = s  BY <3>1, MessageTypes DEF Told
    <3> QED BY <2>2, <3>2
  <2>3. CASE \E x \in 1 .. p - 1 : /\ u[x].kind = "start" /\ u[x].state.iteration = k
                                   /\ \A y \in x + 1 .. p - 1 : u[y].kind # "start"
    <3>1. PICK x \in 1 .. p - 1 : /\ u[x].kind = "start" /\ u[x].state.iteration = k
                                  /\ \A y \in x + 1 .. p - 1 : u[y].kind # "start"
      BY <2>3
    <3>2. x \in 1 .. Len(q) /\ Starts(q, x) /\ q[x].state.iteration = k
      BY <2>1, <3>1 DEF Starts
    <3>3. v # s  BY <3>2, NoMoreStarts DEF Starts
    <3>4. PICK z \in 1 .. Len(q) : q[z] = Start(s)  BY <3>3 DEF Told
    <3>5. Starts(q, z) /\ q[z].state = s  BY <3>4, MessageTypes DEF Starts
    <3>6. ~(z > x)
      <4>1. SUFFICES ASSUME z > x PROVE FALSE  OBVIOUS
      <4>2. z \in x + 1 .. p - 1  BY <1>1, <1>4, <3>2, <4>1
      <4> QED BY <2>1, <3>1, <3>5, <4>2 DEF Starts
    <3>7. ~(z < x)
      <4>1. SUFFICES ASSUME z < x PROVE FALSE  OBVIOUS
      <4>2. s.iteration < q[x].state.iteration  BY <3>2, <3>5, <4>1 DEF Backlog
      <4>3. q[x].state = s \/ q[x].state.iteration < s.iteration  BY <3>2 DEF Backlog
      <4>4. q[x].state \in States  BY <3>2, MessageTypes DEF Starts
      <4>5. q[x].state.iteration \in Nat /\ s.iteration \in Nat  BY <4>4, StateTypes
      <4> QED BY <4>2, <4>3, <4>5
    <3>8. z = x  BY <3>6, <3>7
    <3> QED BY <3>2, <3>5, <3>8
  <2> QED BY <1>2, <2>2, <2>3 DEF About
<1> QED BY <1>1, <1>3, <1>4

-----------------------------------------------------------------------------
(* What a step does to this that neither finishes the function nor starts an  *)
(* iteration.                                                                 *)
StoreSteady == \A k \in Iterations :
    /\ store'[k].owner = store[k].owner
    /\ store'[k].finished = store[k].finished
    /\ store'[k].all_finished = store[k].all_finished
    /\ store[k].terminated \subseteq store'[k].terminated
    /\ store[k].interrupted => store'[k].interrupted
    /\ store'[k].interrupted => store[k].interrupted \/ store'[k].terminated # {} \/ Short(k)

SteadyRank(i) ==
    /\ main'[i] = "run" => main[i] = "run"
    /\ main'[i] \in {"restart", "barrier"} => store[Iter(i)].interrupted
    /\ \A k \in Iterations :
          /\ Iter(i) = k /\ main'[i] \in {"raised", "hung", "stuck"} =>
                main[i] \in {"raised", "hung", "stuck"} \/ Short(k)'
          /\ monitor'[i] = "on" /\ Noted(view'[i], queue'[i], k) =>
                (monitor[i] = "on" /\ Noted(view[i], queue[i], k)) \/ Short(k)'

MainSteady == \A i \in Ranks : SteadyRank(i)

LEMMA NotRunningGrows ==
    ASSUME state' = state, NEW k \in Iterations, store'[k].owner = store[k].owner,
           \A i \in Ranks : main'[i] = "run" => main[i] = "run"
    PROVE  \A r \in NotRunning(k) : r \in NotRunning(k)'
<1> SUFFICES ASSUME NEW r \in NotRunning(k) PROVE r \in NotRunning(k)'
  OBVIOUS
<1>1. PICK j \in Ranks : /\ j = store[k].owner[r] /\ r \in Ranks
                         /\ ~(Iter(j) = k /\ main[j] = "run")
  BY DEF NotRunning
<1>2. store'[k].owner[r] = j /\ Iter(j)' = Iter(j)  BY <1>1 DEF Iter
<1>3. ~(Iter(j)' = k /\ main'[j] = "run")  BY <1>1, <1>2
<1> QED BY <1>1, <1>2, <1>3 DEF NotRunning, Iter

LEMMA MoreNotRunning ==
    ASSUME NEW k, \A r \in NotRunning(k) : r \in NotRunning(k)'
    PROVE  /\ Cardinality(NotRunning(k)) \in Nat /\ Cardinality(NotRunning(k)') \in Nat
           /\ Cardinality(NotRunning(k)) <= Cardinality(NotRunning(k)')
<1>1. PICK A : A = NotRunning(k)  OBVIOUS
<1>2. PICK B : B = NotRunning(k)'  OBVIOUS
<1>3. World \in Nat /\ \A r \in B : r \in 0 .. World - 1
  BY <1>2, SizesAssumption DEF NotRunning, Ranks
<1>4. IsFiniteSet(B)  BY <1>3, FewRanks
<1>5. A \in SUBSET B  BY <1>1, <1>2
<1>6. IsFiniteSet(A) /\ Cardinality(A) <= Cardinality(B)  BY <1>4, <1>5, FS_Subset
<1> QED BY <1>1, <1>2, <1>4, <1>6, FS_CardinalityType

LEMMA ShortStays ==
    ASSUME Shape, state' = state, NEW k \in Iterations, store'[k].owner = store[k].owner,
           store'[k].finished = store[k].finished,
           \A i \in Ranks : main'[i] = "run" => main[i] = "run"
    PROVE  /\ Short(k) => Short(k)'
           /\ store[k].finished <= Cardinality(NotRunning(k)) =>
                 store'[k].finished <= Cardinality(NotRunning(k))'
<1>1. /\ Cardinality(NotRunning(k)) \in Nat /\ Cardinality(NotRunning(k)') \in Nat
      /\ Cardinality(NotRunning(k)) <= Cardinality(NotRunning(k)')
  BY NotRunningGrows, MoreNotRunning
<1>2. store[k].finished \in Nat  BY DEF Shape, Keys
<1> QED BY <1>1, <1>2 DEF Short

(* The worlds that are settled stay.                                          *)
LEMMA SettledWorlds ==
    ASSUME Shape, WorldInv, SomeMoves
    PROVE  \A l \in Iterations : \A r \in Ranks :
               store[l].owner[r] \in Ranks => WorldOf(l)' = WorldOf(l)
<1>1. PICK k \in Iterations, R \in SUBSET Ranks, D \in SUBSET Ranks : Moves(k, R, D)
  BY DEF SomeMoves
<1>2. Grows(k, R, D) /\ Permitted(k, R, D)  BY <1>1 DEF Moves
<1> SUFFICES ASSUME NEW l \in Iterations, NEW r \in Ranks, store[l].owner[r] \in Ranks
             PROVE  WorldOf(l)' = WorldOf(l)
  OBVIOUS
<1>3. l = 0 \/ store[l - 1].released  BY Reached DEF WorldInv
<1> QED BY <1>2, <1>3, WorldStays

LEMMA SteadyStep ==
    ASSUME Shape, Shape', WorldInv, Count, Behind, SomeMoves, StoreSteady, MainSteady
    PROVE  Count' /\ Behind'
<1>1. state' = state  BY DEF SomeMoves, Moves
<1>2. \A k \in Iterations :
          /\ Short(k) => Short(k)'
          /\ store'[k].finished <= Cardinality(NotRunning(k))'
  <2> SUFFICES ASSUME NEW k \in Iterations
               PROVE  /\ Short(k) => Short(k)'
                      /\ store'[k].finished <= Cardinality(NotRunning(k))'
    OBVIOUS
  <2>1. store'[k].owner = store[k].owner /\ store'[k].finished = store[k].finished
    BY DEF StoreSteady
  <2>2. \A i \in Ranks : main'[i] = "run" => main[i] = "run"  BY DEF MainSteady, SteadyRank
  <2>3. store[k].finished <= Cardinality(NotRunning(k))  BY DEF Count
  <2> QED BY <1>1, <2>1, <2>2, <2>3, ShortStays
<1>3. Count'
  <2> SUFFICES ASSUME NEW k \in Iterations
               PROVE  /\ store'[k].finished <= Cardinality(NotRunning(k))'
                      /\ store'[k].all_finished =>
                            /\ store'[k].finished >= WorldOf(k)'
                            /\ \E r \in Ranks : store'[k].owner[r] \in Ranks
                      /\ store'[k].interrupted /\ store'[k].terminated = {} => Short(k)'
    BY DEF Count
  <2>1. ASSUME store'[k].all_finished
        PROVE  /\ store'[k].finished >= WorldOf(k)'
               /\ \E r \in Ranks : store'[k].owner[r] \in Ranks
    <3>1. store[k].finished >= WorldOf(k) /\ \E r \in Ranks : store[k].owner[r] \in Ranks
      BY <2>1 DEF StoreSteady, Count
    <3>2. WorldOf(k)' = WorldOf(k)  BY <3>1, SettledWorlds
    <3> QED BY <3>1, <3>2 DEF StoreSteady
  <2>2. ASSUME store'[k].interrupted, store'[k].terminated = {} PROVE Short(k)'
    <3>1. store[k].terminated = {} /\ (store[k].interrupted \/ Short(k))
      BY <2>2 DEF StoreSteady
    <3> QED BY <1>2, <3>1 DEF Count
  <2> QED BY <1>2, <2>1, <2>2
<1>4. Behind'
  <2> SUFFICES ASSUME NEW i \in Ranks
               PROVE  /\ main'[i] \in {"raised", "hung", "stuck"} => Short(Iter(i))'
                      /\ main'[i] \in {"restart", "barrier"} => store'[Iter(i)'].interrupted
                      /\ \A k \in Iterations :
                            /\ k < Iter(i)' => store'[k].interrupted
                            /\ monitor'[i] = "on" /\ Noted(view'[i], queue'[i], k) => Short(k)'
    BY DEF Behind
  <2>1. PICK l \in Iterations : l = Iter(i)  BY Self
  <2>2. Iter(i)' = l  BY <1>1, <2>1 DEF Iter
  <2>3. Short(l)' = Short(Iter(i))'  BY <2>2 DEF Short, NotRunning
  <2>4. main'[i] \in {"raised", "hung", "stuck"} => Short(l)'
    BY <1>2, <2>1 DEF MainSteady, SteadyRank, Behind
  <2>5. main'[i] \in {"restart", "barrier"} => store'[l].interrupted
    BY <2>1 DEF MainSteady, SteadyRank, StoreSteady
  <2>6. \A k \in Iterations :
            /\ k < l => store'[k].interrupted
            /\ monitor'[i] = "on" /\ Noted(view'[i], queue'[i], k) => Short(k)'
    BY <1>2, <2>1 DEF MainSteady, SteadyRank, StoreSteady, Behind
  <2> QED BY <2>2, <2>3, <2>4, <2>5, <2>6
<1> QED BY <1>3, <1>4

-----------------------------------------------------------------------------
(* The store in these steps.                                                  *)
LEMMA SteadyStores ==
    ASSUME Shape, NEW k \in Iterations, NEW D \in SUBSET Ranks, NEW w,
           \/ store' = store
           \/ D # {} /\ store' = [store EXCEPT ![k] = Terminated(@, D)]
           \/ store' = [store EXCEPT ![k] = Arrived(@, D, w)]
           \/ D # {} /\ store' = [store EXCEPT ![k] = Arrived(Terminated(@, D), D, w)]
    PROVE  StoreSteady
<1>1. CASE store' = store  BY <1>1 DEF StoreSteady
<1>2. ASSUME NEW K \in Keys, store' = [store EXCEPT ![k] = K],
             K.owner = store[k].owner, K.finished = store[k].finished,
             K.all_finished = store[k].all_finished,
             store[k].terminated \subseteq K.terminated,
             store[k].interrupted => K.interrupted,
             K.interrupted => store[k].interrupted \/ K.terminated # {}
      PROVE  StoreSteady
  <2>1. store'[k] = K /\ \A l \in Iterations : l # k => store'[l] = store[l]
    BY <1>2 DEF Shape
  <2> QED BY <1>2, <2>1 DEF StoreSteady
<1>3. PICK L \in Keys : L = store[k]  BY DEF Shape
<1>4. PICK M \in Keys : M = Terminated(L, D)  BY TerminatedKeys
<1>5. /\ M.owner = L.owner /\ M.finished = L.finished /\ M.all_finished = L.all_finished
      /\ M.terminated = L.terminated \cup D /\ M.interrupted = TRUE
  BY <1>4, TerminatedKeys
<1>6. CASE D # {} /\ store' = [store EXCEPT ![k] = Terminated(@, D)]
  <2>1. store' = [store EXCEPT ![k] = M]  BY <1>3, <1>4, <1>6 DEF Shape
  <2> QED BY <1>2, <1>3, <1>5, <1>6, <2>1
<1>7. CASE store' = [store EXCEPT ![k] = Arrived(@, D, w)]
  <2>1. PICK K \in Keys :
            /\ K = Arrived(L, D, w)
            /\ K.owner = L.owner /\ K.terminated = L.terminated
            /\ K.interrupted = L.interrupted
            /\ K.finished = L.finished
            /\ K.all_finished = L.all_finished
    BY ArrivedCounts
  <2>2. store' = [store EXCEPT ![k] = K]  BY <1>3, <1>7, <2>1 DEF Shape
  <2> QED BY <1>2, <1>3, <2>1, <2>2
<1>8. CASE D # {} /\ store' = [store EXCEPT ![k] = Arrived(Terminated(@, D), D, w)]
  <2>1. PICK K \in Keys :
            /\ K = Arrived(M, D, w)
            /\ K.owner = M.owner /\ K.terminated = M.terminated
            /\ K.interrupted = M.interrupted
            /\ K.finished = M.finished
            /\ K.all_finished = M.all_finished
    BY ArrivedCounts
  <2>2. store' = [store EXCEPT ![k] = K]  BY <1>3, <1>4, <1>8, <2>1 DEF Shape
  <2> QED BY <1>2, <1>3, <1>5, <1>8, <2>1, <2>2
<1> QED BY <1>1, <1>6, <1>7, <1>8

LEMMA OneSteady ==
    ASSUME Behind, NEW i \in Ranks, Only(i), SteadyRank(i)
    PROVE  MainSteady
<1> SUFFICES ASSUME NEW j \in Ranks PROVE SteadyRank(j)  BY DEF MainSteady
<1>1. CASE j = i  BY <1>1
<1>2. CASE j # i
  <2>1. /\ main'[j] = main[j] /\ monitor'[j] = monitor[j] /\ view'[j] = view[j]
        /\ queue'[j] = queue[j]
    BY <1>2 DEF Only
  <2> QED BY <2>1 DEF Behind, SteadyRank
<1> QED BY <1>1, <1>2

(* The steps of the main process that tell nothing.                           *)
Silently(i) ==
    \/ Return(i) \/ RankShouldRestart(i) \/ GiveUp(i) \/ Shutdown(i) \/ HostLeaves(i)
    \/ ArriveAtBarrier(i) \/ ExitRecords(i) \/ ExitArrives(i) \/ HardTimeout(i)
    \/ HardTimeoutAtEnd(i)

LEMMA SilentSteps ==
    ASSUME CompletionInv, NEW i \in Ranks, Silently(i)
    PROVE  StoreSteady /\ MainSteady
<1>1. Shape /\ WorldInv /\ Calm /\ Life /\ Behind  BY DEF CompletionInv, WrapperInv
<1>2. PICK k \in Iterations : k = Iter(i)  BY <1>1, Self
<1>3. PICK r \in Ranks : r = state[i].rank  BY <1>1, Self
<1>4. Here(i) = store[k]  BY <1>1, <1>2, Self
<1>5. UNCHANGED <<state, monitor, view, watching, queue>>
  BY DEF Silently, Return, RankShouldRestart, GiveUp, Shutdown, HostLeaves,
         ArriveAtBarrier, ExitRecords, ExitArrives, HardTimeout, HardTimeoutAtEnd
<1>6. StoreSteady
  <2>1. PICK D \in SUBSET Ranks : D = {r}  OBVIOUS
  <2>2. D # {}  BY <2>1
  <2>3. CASE \/ Return(i) \/ RankShouldRestart(i) \/ GiveUp(i) \/ Shutdown(i) \/ HostLeaves(i)
             \/ HardTimeoutAtEnd(i)
    <3>1. store' = store
      BY <2>3 DEF Return, RankShouldRestart, GiveUp, Shutdown, HostLeaves, HardTimeoutAtEnd
    <3> QED BY <1>1, <2>1, <3>1, SteadyStores
  <2>4. CASE ArriveAtBarrier(i) \/ ExitArrives(i)
    <3>1. PICK w : store' = [store EXCEPT ![k] = Arrived(@, D, w)]
      BY <1>2, <1>3, <2>1, <2>4 DEF ArriveAtBarrier, ExitArrives
    <3> QED BY <1>1, <3>1, SteadyStores
  <2>5. CASE ExitRecords(i)
    <3>1. store' = [store EXCEPT ![k] = Terminated(@, D)]
      BY <1>2, <1>3, <2>1, <2>5 DEF ExitRecords
    <3> QED BY <1>1, <2>2, <3>1, SteadyStores
  <2>6. CASE HardTimeout(i)
    <3>1. Lives(i) /\ queue[i] = << >> /\ monitor[i] = "on"
      BY <1>1, <2>6 DEF Life, HardTimeout
    <3>2. \A p \in 1 .. Len(queue[i]) : FALSE  BY <3>1
    <3>3. view[i] = state[i]  BY <3>1, <3>2 DEF Lives, Told
    <3>4. store' = [store EXCEPT ![k] = Terminated(@, D)]
      BY <1>2, <1>3, <2>1, <2>6, <3>3 DEF HardTimeout, Iter
    <3> QED BY <1>1, <2>2, <3>4, SteadyStores
  <2> QED BY <2>3, <2>4, <2>5, <2>6 DEF Silently
<1>7. PICK x : /\ Goto(i, x) /\ x \notin {"run", "raised", "hung", "stuck"}
               /\ x \in {"restart", "barrier"} => store[k].interrupted
  <2>1. main[i] \in {"restart", "barrier"} => store[k].interrupted  BY <1>1, <1>2 DEF Behind
  <2>2. CASE Return(i)  BY <2>2 DEF Return
  <2>3. CASE RankShouldRestart(i)  BY <1>4, <2>3 DEF RankShouldRestart
  <2>4. CASE GiveUp(i)  BY <2>4 DEF GiveUp
  <2>5. CASE Shutdown(i)
    <3>1. PICK x \in {"hosting", "gone", "failed"} : Goto(i, x)  BY <2>5 DEF Shutdown
    <3> QED BY <3>1
  <2>6. CASE HostLeaves(i)  BY <2>6 DEF HostLeaves
  <2>7. CASE ArriveAtBarrier(i)
    <3>1. PICK x \in {"exit", "barrier"} : Goto(i, x)  BY <2>7 DEF ArriveAtBarrier
    <3>2. store[k].interrupted  BY <2>1, <2>7 DEF ArriveAtBarrier
    <3> QED BY <3>1, <3>2
  <2>8. CASE ExitRecords(i)  BY <2>8 DEF ExitRecords
  <2>9. CASE ExitArrives(i)
    <3>1. PICK x \in {"ending", "leaving"} : Goto(i, x)  BY <2>9 DEF ExitArrives
    <3> QED BY <3>1
  <2>10. CASE HardTimeout(i)  BY <2>10 DEF HardTimeout
  <2>11. CASE HardTimeoutAtEnd(i)  BY <2>11 DEF HardTimeoutAtEnd
  <2> QED BY <2>2, <2>3, <2>4, <2>5, <2>6, <2>7, <2>8, <2>9, <2>10, <2>11 DEF Silently
<1>8. main'[i] = x /\ \A j \in Ranks : j # i => main'[j] = main[j]
  BY <1>1, <1>7 DEF Goto, Shape
<1>9. Only(i)  BY <1>5, <1>8 DEF Only
<1>10. SteadyRank(i)  BY <1>2, <1>5, <1>7, <1>8 DEF SteadyRank
<1> QED BY <1>1, <1>6, <1>9, <1>10, OneSteady

(* Somebody leaves the function: one more is not running.                     *)
LEMMA LeavesFunction ==
    ASSUME Shape, WorldInv, NEW i \in Ranks, NEW k \in Iterations, k = Iter(i),
           main[i] = "run", main'[i] # "run", state' = state,
           store'[k].owner = store[k].owner,
           \A j \in Ranks : main'[j] = "run" => main[j] = "run"
    PROVE  /\ Cardinality(NotRunning(k)) \in Nat /\ Cardinality(NotRunning(k)') \in Nat
           /\ Cardinality(NotRunning(k)) + 1 <= Cardinality(NotRunning(k)')
<1>1. PICK r \in Ranks : r = state[i].rank  BY Self
<1>2. store[k].owner[r] = i  BY <1>1, Self
<1>3. r \notin NotRunning(k)  BY <1>2 DEF NotRunning
<1>4. r \in NotRunning(k)'  BY <1>2 DEF NotRunning
<1>5. \A q \in NotRunning(k) : q \in NotRunning(k)'  BY NotRunningGrows
<1>6. PICK A : A = NotRunning(k)  OBVIOUS
<1>7. PICK B : B = NotRunning(k)'  OBVIOUS
<1>8. World \in Nat /\ \A q \in B : q \in 0 .. World - 1
  BY <1>7, SizesAssumption DEF NotRunning, Ranks
<1>9. IsFiniteSet(B)  BY <1>8, FewRanks
<1>10. A \in SUBSET B /\ A \cup {r} \in SUBSET B  BY <1>4, <1>5, <1>6, <1>7
<1>11. IsFiniteSet(A) /\ Cardinality(A \cup {r}) <= Cardinality(B)  BY <1>9, <1>10, FS_Subset
<1>12. Cardinality(A \cup {r}) = Cardinality(A) + 1  BY <1>3, <1>6, <1>11, FS_AddElement
<1> QED BY <1>6, <1>7, <1>9, <1>11, <1>12, FS_CardinalityType

LEMMA LeavesShort ==
    ASSUME Shape, WorldInv, Count, NEW i \in Ranks, NEW k \in Iterations, k = Iter(i),
           main[i] = "run", main'[i] # "run", UNCHANGED <<store, state>>,
           \A j \in Ranks : main'[j] = "run" => main[j] = "run"
    PROVE  Short(k)'
<1>1. /\ Cardinality(NotRunning(k)) \in Nat /\ Cardinality(NotRunning(k)') \in Nat
      /\ Cardinality(NotRunning(k)) + 1 <= Cardinality(NotRunning(k)')
  BY LeavesFunction
<1>2. store[k].finished \in Nat  BY DEF Shape, Keys
<1>3. store[k].finished <= Cardinality(NotRunning(k))  BY DEF Count
<1> QED BY <1>1, <1>2, <1>3 DEF Short

LEMMA HangSteady ==
    ASSUME CompletionInv, NEW i \in Ranks, Hang(i)
    PROVE  StoreSteady /\ MainSteady
<1>1. Shape /\ WorldInv /\ Count /\ Behind  BY DEF CompletionInv, WrapperInv
<1>2. PICK k \in Iterations : k = Iter(i)  BY <1>1, Self
<1>3. UNCHANGED <<store, state, monitor, view, watching, queue>>  BY DEF Hang
<1>4. StoreSteady  BY <1>3 DEF StoreSteady
<1>5. PICK x \in {"hung", "stuck"} : Goto(i, x)  BY DEF Hang
<1>6. /\ main[i] = "run" /\ main'[i] = x
      /\ \A j \in Ranks : j # i => main'[j] = main[j]
  BY <1>1, <1>5 DEF Goto, Shape, Hang
<1>7. Short(k)'  BY <1>1, <1>2, <1>3, <1>6, LeavesShort
<1>8. Only(i)  BY <1>3, <1>6 DEF Only
<1>9. SteadyRank(i)  BY <1>2, <1>3, <1>6, <1>7 DEF SteadyRank
<1> QED BY <1>1, <1>4, <1>8, <1>9, OneSteady

LEMMA RaiseSteady ==
    ASSUME CompletionInv, NEW i \in Ranks, Raise(i)
    PROVE  StoreSteady /\ MainSteady
<1>1. Shape /\ WorldInv /\ Life /\ Count /\ Behind  BY DEF CompletionInv, WrapperInv
<1>2. PICK k \in Iterations : k = Iter(i)  BY <1>1, Self
<1>3. UNCHANGED <<store, state, monitor, view, watching>> /\ main[i] = "run"  BY DEF Raise
<1>4. StoreSteady  BY <1>3 DEF StoreSteady
<1>5. main'[i] = "raised" /\ \A j \in Ranks : j # i => main'[j] = main[j]
  BY <1>1 DEF Goto, Shape, Raise
<1>6. Lives(i) /\ monitor[i] = "on"  BY <1>1, <1>3 DEF Life, Lives
<1>7. /\ queue'[i] = queue[i] \o <<RecordInterrupted>>
      /\ \A j \in Ranks : j # i => queue'[j] = queue[j]
  BY <1>1, <1>6 DEF Raise, Send, Shape
<1>8. Short(k)'  BY <1>1, <1>2, <1>3, <1>5, LeavesShort
<1>9. state[i] \in States /\ view[i] \in States \cup {NoView} /\ queue[i] \in Seq(Messages)
  BY <1>1 DEF Shape
<1>10. \A l \in Iterations : Noted(view[i], queue'[i], l) =>
          Noted(view[i], queue[i], l) \/ Short(l)'
  <2> SUFFICES ASSUME NEW l \in Iterations, Noted(view[i], queue'[i], l)
               PROVE  Noted(view[i], queue[i], l) \/ Short(l)'
    OBVIOUS
  <2>1. Noted(view[i], queue[i], l) \/ l = state[i].iteration
    BY <1>6, <1>7, <1>9, NotedNow DEF Lives
  <2>2. l = state[i].iteration => l = k  BY <1>2 DEF Iter
  <2> QED BY <1>8, <2>1, <2>2
<1>11. Only(i)  BY <1>3, <1>5, <1>7 DEF Only
<1>12. SteadyRank(i)  BY <1>2, <1>3, <1>5, <1>6, <1>8, <1>10 DEF SteadyRank
<1> QED BY <1>1, <1>4, <1>11, <1>12, OneSteady

LEMMA KilledSteady ==
    ASSUME CompletionInv, NEW i \in Ranks, ExitLeaves(i) \/ Die(i) \/ LoseNode(i)
    PROVE  StoreSteady /\ MainSteady
<1>1. Shape /\ WorldInv /\ Life /\ Behind  BY DEF CompletionInv, WrapperInv
<1>2. store' = store /\ state' = state /\ view' = view  BY DEF ExitLeaves, Die, LoseNode
<1>3. StoreSteady  BY <1>2 DEF StoreSteady
<1>4. main'[i] \in {"ending", "dead"} /\ \A j \in Ranks : j # i => main'[j] = main[j]
  BY <1>1 DEF Goto, Shape, ExitLeaves, Die, LoseNode
<1>5. queue[i] \in Seq(Messages)  BY <1>1 DEF Shape
<1>6. monitor'[i] = "on" => monitor[i] = "on"  BY <1>1 DEF ExitLeaves, Die, LoseNode, Shape
<1>7. \A l \in Iterations : Noted(view[i], queue'[i], l) => Noted(view[i], queue[i], l)
  <2> SUFFICES ASSUME NEW l \in Iterations, Noted(view[i], queue'[i], l)
               PROVE  Noted(view[i], queue[i], l)
    OBVIOUS
  <2>1. CASE ExitLeaves(i)
    <3>1. monitor[i] = "on"  BY <1>1, <2>1 DEF ExitLeaves, Life, Lives
    <3>2. queue'[i] = queue[i] \o <<Disable>>  BY <1>1, <2>1, <3>1 DEF ExitLeaves, Send, Shape
    <3>3. /\ <<Disable>> \in Seq(Messages)
          /\ \A p \in 1 .. Len(<<Disable>>) : <<Disable>>[p].kind # "record"
      BY MessageTypes
    <3> QED BY <1>5, <3>2, <3>3, NotedMore
  <2>2. CASE Die(i)
    <3>1. PICK n \in 0 .. Len(queue[i]) : queue' = [queue EXCEPT ![i] = SubSeq(@, 1, n)]
      BY <2>2 DEF Die
    <3>2. queue'[i] = SubSeq(queue[i], 1, n)  BY <1>1, <3>1 DEF Shape
    <3> QED BY <1>5, <3>2, NotedCut
  <2>3. CASE LoseNode(i)
    <3>1. queue'[i] = << >>  BY <1>1, <2>3 DEF LoseNode, Shape
    <3>2. \A p \in 1 .. Len(queue'[i]) : FALSE  BY <3>1
    <3> QED BY <3>2 DEF Noted
  <2> QED BY <2>1, <2>2, <2>3
<1>8. \A j \in Ranks : j # i => /\ monitor'[j] = monitor[j] /\ queue'[j] = queue[j]
                                /\ watching'[j] = watching[j]
  BY <1>1 DEF ExitLeaves, Die, LoseNode, Send, Shape
<1>9. Only(i)  BY <1>2, <1>4, <1>8 DEF Only
<1>10. SteadyRank(i)  BY <1>2, <1>4, <1>6, <1>7 DEF SteadyRank
<1> QED BY <1>1, <1>3, <1>9, <1>10, OneSteady

(* The record of an interruption, for a reason.                               *)
LEMMA InterruptedStore ==
    ASSUME Shape, NEW k, k \in Iterations => Short(k),
           store' = [store EXCEPT ![k].interrupted = TRUE]
    PROVE  StoreSteady
BY DEF Shape, Keys, StoreSteady

LEMMA ReceiveSteady ==
    ASSUME CompletionInv, NEW i \in Ranks, Receive(i)
    PROVE  StoreSteady /\ MainSteady
<1>1. Shape /\ WorldInv /\ Life /\ Behind  BY DEF CompletionInv, WrapperInv
<1>2. PICK m : m = Head(queue[i])  OBVIOUS
<1>3. PICK u : u = IF m.kind = "start" THEN m.state ELSE view[i]  OBVIOUS
<1>4. queue[i] \in Seq(Messages) /\ queue[i] # << >> /\ monitor[i] = "on"
  BY <1>1 DEF Shape, Receive
<1>5. UNCHANGED <<main, state>>  BY DEF Receive
<1>6. /\ queue'[i] = Tail(queue[i]) /\ view'[i] = u
      /\ \A j \in Ranks : j # i => /\ queue'[j] = queue[j] /\ view'[j] = view[j]
                                   /\ watching'[j] = watching[j] /\ monitor'[j] = monitor[j]
  BY <1>1, <1>2, <1>3 DEF Shape, Receive
<1>7. StoreSteady
  <2>1. CASE m.kind # "record"
    <3>1. store' = store  BY <1>2, <2>1 DEF Receive
    <3> QED BY <3>1 DEF StoreSteady
  <2>2. CASE m.kind = "record"
    <3>1. PICK k : k = view[i].iteration  OBVIOUS
    <3>2. 1 \in 1 .. Len(queue[i]) /\ m = queue[i][1] /\ \A x \in 1 .. 1 - 1 : FALSE
      BY <1>2, <1>4
    <3>3. About(view[i], queue[i], 1, k)  BY <2>2, <3>1, <3>2 DEF About
    <3>4. Noted(view[i], queue[i], k)  BY <3>2, <3>3 DEF Noted
    <3>5. k \in Iterations => Short(k)  BY <1>1, <1>4, <3>4 DEF Behind
    <3>6. store' = [store EXCEPT ![k].interrupted = TRUE]  BY <1>2, <2>2, <3>1 DEF Receive
    <3> QED BY <1>1, <3>5, <3>6, InterruptedStore
  <2> QED BY <2>1, <2>2
<1>8. \A l \in Iterations : Noted(view'[i], queue'[i], l) => Noted(view[i], queue[i], l)
  BY <1>2, <1>3, <1>4, <1>6, NotedHeard
<1>9. Only(i)  BY <1>5, <1>6 DEF Only
<1>10. SteadyRank(i)  BY <1>1, <1>4, <1>5, <1>8 DEF SteadyRank, Behind
<1> QED BY <1>1, <1>7, <1>9, <1>10, OneSteady

LEMMA SoftTimeoutSteady ==
    ASSUME CompletionInv, NEW i \in Ranks, SoftTimeout(i)
    PROVE  StoreSteady /\ MainSteady
<1>1. Shape /\ WorldInv /\ Life /\ Behind  BY DEF CompletionInv, WrapperInv
<1>2. /\ monitor[i] = "on" /\ queue[i] = << >> /\ main[i] \in {"hung", "stuck"}
      /\ UNCHANGED <<main, state, monitor, view, watching, queue>>
  BY DEF SoftTimeout
<1>3. Lives(i)  BY <1>1 DEF Life
<1>4. \A p \in 1 .. Len(queue[i]) : FALSE  BY <1>2
<1>5. view[i] = state[i]  BY <1>2, <1>3, <1>4 DEF Lives, Told
<1>6. PICK k : k = Iter(i)  OBVIOUS
<1>7. Short(Iter(i))  BY <1>1, <1>2 DEF Behind
<1>8. Short(k)  BY <1>6, <1>7
<1>9. store' = [store EXCEPT ![k].interrupted = TRUE]
  BY <1>5, <1>6 DEF SoftTimeout, Iter
<1>10. StoreSteady  BY <1>1, <1>8, <1>9, InterruptedStore
<1>11. MainSteady  BY <1>1, <1>2 DEF MainSteady, SteadyRank, Behind
<1> QED BY <1>10, <1>11

LEMMA MourningSteady ==
    ASSUME CompletionInv, NEW i \in Ranks,
           MournRecords(i) \/ MournArrives(i) \/ MournLeaves(i) \/ Stop(i)
    PROVE  StoreSteady /\ MainSteady
<1>1. Shape /\ WorldInv /\ Life /\ Behind  BY DEF CompletionInv, WrapperInv
<1>2. Lives(i)  BY <1>1 DEF Life
<1>3. UNCHANGED <<main, state, view>>
  BY DEF MournRecords, MournArrives, MournLeaves, Stop
<1>4. /\ monitor'[i] # "on"
      /\ \A j \in Ranks : j # i => /\ monitor'[j] = monitor[j] /\ watching'[j] = watching[j]
                                   /\ queue'[j] = queue[j]
  BY <1>1 DEF MournRecords, MournArrives, MournLeaves, Stop, Shape
<1>5. StoreSteady
  <2>1. PICK k \in Iterations : k = Iter(i)  BY <1>1, Self
  <2>2. PICK r \in Ranks : r = state[i].rank  BY <1>1, Self
  <2>3. PICK D \in SUBSET Ranks : D = {r}  OBVIOUS
  <2>4. D # {}  BY <2>3
  <2>5. CASE MournRecords(i)
    <3>1. main[i] = "dead" /\ monitor[i] # "over"  BY <1>2, <2>5 DEF MournRecords, Lives
    <3>2. view[i] = state[i] /\ state[i] \in States  BY <1>1, <1>2, <3>1 DEF Lives, Shape
    <3>3. view[i] # NoView  BY <3>2, StateTypes
    <3>4. store' = [store EXCEPT ![k] = Terminated(@, D)]
      BY <2>1, <2>2, <2>3, <2>5, <3>2, <3>3 DEF MournRecords, Iter
    <3> QED BY <1>1, <2>4, <3>4, SteadyStores
  <2>6. CASE MournArrives(i)
    <3>1. main[i] = "dead" /\ view[i] = state[i]  BY <1>2, <2>6 DEF MournArrives, Lives
    <3>2. PICK w : store' = [store EXCEPT ![k] = Arrived(@, D, w)]
      BY <2>1, <2>2, <2>3, <2>6, <3>1 DEF MournArrives, Iter
    <3> QED BY <1>1, <3>2, SteadyStores
  <2>7. CASE MournLeaves(i) \/ Stop(i)
    <3>1. store' = store  BY <2>7 DEF MournLeaves, Stop
    <3> QED BY <1>1, <3>1, SteadyStores
  <2> QED BY <2>5, <2>6, <2>7
<1>6. Only(i)  BY <1>3, <1>4 DEF Only
<1>7. SteadyRank(i)  BY <1>1, <1>3, <1>4 DEF SteadyRank, Behind
<1> QED BY <1>1, <1>5, <1>6, <1>7, OneSteady

LEMMA TerminateSilentSteady ==
    ASSUME CompletionInv, NEW i \in Ranks, TerminateSilent(i)
    PROVE  StoreSteady /\ MainSteady
<1>1. Shape /\ WorldInv /\ Life /\ Behind  BY DEF CompletionInv, WrapperInv
<1>2. Lives(i) /\ watching[i]  BY <1>1 DEF Life, TerminateSilent
<1>3. view[i] \in States  BY <1>1, <1>2 DEF Shape, Lives
<1>4. PICK k \in Iterations : k = view[i].iteration  BY <1>3, StateTypes
<1>5. PICK S \in SUBSET Ranks : S = Silent(k)  BY DEF Silent
<1>6. S # {}  BY <1>4, <1>5 DEF TerminateSilent
<1>7. PICK w : store' = [store EXCEPT ![k] = Arrived(Terminated(@, S), S, w)]
  BY <1>4, <1>5 DEF TerminateSilent
<1>8. StoreSteady  BY <1>1, <1>6, <1>7, SteadyStores
<1>9. UNCHANGED <<main, state, monitor, view, queue>>  BY DEF TerminateSilent
<1>10. MainSteady  BY <1>1, <1>9 DEF MainSteady, SteadyRank, Behind
<1> QED BY <1>8, <1>10

(* A rank finishes the function.                                              *)
LEMMA FnReturnsCounts ==
    ASSUME Slow = {}, CompletionInv, NEW i \in Ranks, FnReturns(i)
    PROVE  Count' /\ Behind'
<1>1. Shape /\ WorldInv /\ Calm /\ Life /\ Count /\ Behind  BY DEF CompletionInv, WrapperInv
<1>2. Shape' /\ SomeMoves  BY FnReturnsStep DEF CompletionInv
<1>3. PICK k \in Iterations : k = Iter(i)  BY <1>1, Self
<1>4. main[i] = "run" /\ UNCHANGED <<state, monitor, view, queue>>  BY DEF FnReturns
<1>5. main'[i] = "complete" /\ \A j \in Ranks : j # i => main'[j] = main[j]
  BY <1>1 DEF FnReturns, Goto, Shape
<1>6. state[i].world = WorldOf(k) /\ store[k].owner[state[i].rank] = i /\ state[i].rank \in Ranks
  BY <1>1, <1>3, Self DEF WorldInv, Placed
<1>7. /\ \A l \in Iterations : l # k => store'[l] = store[l]
      /\ store'[k].owner = store[k].owner /\ store'[k].terminated = store[k].terminated
      /\ store'[k].interrupted = store[k].interrupted
      /\ store'[k].finished = store[k].finished + 1
      /\ store'[k].all_finished => store[k].all_finished \/ store[k].finished + 1 = WorldOf(k)
  <2>1. PICK K \in Keys : K = store[k]  BY <1>1 DEF Shape
  <2>2. PICK c \in Nat : c = K.finished + 1  BY DEF Keys
  <2>3. PICK f \in BOOLEAN : f = (K.all_finished \/ c = WorldOf(k))  OBVIOUS
  <2>4. Here(i) = store[k]  BY <1>1, <1>3, Self
  <2>5. store' = [store EXCEPT ![k] = [K EXCEPT !.completed = TRUE, !.finished = c,
                                                !.all_finished = f]]
    BY <1>1, <1>3, <1>6, <2>1, <2>2, <2>3, <2>4 DEF FnReturns, Shape, Keys
  <2>6. PICK L : L = [K EXCEPT !.completed = TRUE, !.finished = c, !.all_finished = f]
    OBVIOUS
  <2>7. /\ L.owner = K.owner /\ L.terminated = K.terminated /\ L.interrupted = K.interrupted
        /\ L.finished = c /\ L.all_finished = f
    BY <2>6 DEF Keys
  <2>8. store'[k] = L /\ \A l \in Iterations : l # k => store'[l] = store[l]
    BY <1>1, <2>5, <2>6 DEF Shape
  <2> QED BY <2>1, <2>2, <2>3, <2>7, <2>8
<1>8. \A j \in Ranks : main'[j] = "run" => main[j] = "run"  BY <1>5
<1>9. \A l \in Iterations : /\ Short(l) => Short(l)'
                            /\ store'[l].finished <= Cardinality(NotRunning(l))'
  <2> SUFFICES ASSUME NEW l \in Iterations
               PROVE  /\ Short(l) => Short(l)'
                      /\ store'[l].finished <= Cardinality(NotRunning(l))'
    OBVIOUS
  <2>1. store[l].finished <= Cardinality(NotRunning(l))  BY <1>1 DEF Count
  <2>2. CASE l # k  BY <1>1, <1>4, <1>7, <1>8, <2>1, <2>2, ShortStays
  <2>3. CASE l = k
    <3>1. /\ Cardinality(NotRunning(k)) \in Nat /\ Cardinality(NotRunning(k)') \in Nat
          /\ Cardinality(NotRunning(k)) + 1 <= Cardinality(NotRunning(k)')
      BY <1>1, <1>3, <1>4, <1>5, <1>7, <1>8, LeavesFunction
    <3>2. store[k].finished \in Nat  BY <1>1 DEF Shape, Keys
    <3> QED BY <1>7, <2>1, <2>3, <3>1, <3>2 DEF Short
  <2> QED BY <2>2, <2>3
<1>10. Count'
  <2> SUFFICES ASSUME NEW l \in Iterations
               PROVE  /\ store'[l].finished <= Cardinality(NotRunning(l))'
                      /\ store'[l].all_finished =>
                            /\ store'[l].finished >= WorldOf(l)'
                            /\ \E r \in Ranks : store'[l].owner[r] \in Ranks
                      /\ store'[l].interrupted /\ store'[l].terminated = {} => Short(l)'
    BY DEF Count
  <2>1. ASSUME store'[l].all_finished
        PROVE  /\ store'[l].finished >= WorldOf(l)'
               /\ \E r \in Ranks : store'[l].owner[r] \in Ranks
    <3>1. store[l].finished \in Nat /\ WorldOf(l) \in Int
      BY <1>1, WorldOfType DEF Shape, Keys
    <3>2. store'[l].finished >= WorldOf(l) /\ \E r \in Ranks : store[l].owner[r] \in Ranks
      <4>1. CASE store[l].all_finished
        <5>1. store[l].finished >= WorldOf(l) /\ \E r \in Ranks : store[l].owner[r] \in Ranks
          BY <1>1, <4>1 DEF Count
        <5>2. store'[l].finished >= store[l].finished  BY <1>7, <3>1
        <5>3. store'[l].finished \in Int  BY <1>7, <3>1
        <5> QED BY <3>1, <5>1, <5>2, <5>3
      <4>2. CASE ~store[l].all_finished
        <5>1. l = k  BY <1>7, <2>1, <4>2
        <5>2. store'[l].finished = WorldOf(l)  BY <1>7, <2>1, <4>2, <5>1
        <5> QED BY <1>6, <3>1, <5>1, <5>2
      <4> QED BY <4>1, <4>2
    <3>3. WorldOf(l)' = WorldOf(l)  BY <1>1, <1>2, <3>2, SettledWorlds
    <3>4. store'[l].owner = store[l].owner  BY <1>7
    <3> QED BY <3>2, <3>3, <3>4
  <2>2. store'[l].interrupted /\ store'[l].terminated = {} => Short(l)'
    BY <1>1, <1>7, <1>9 DEF Count
  <2> QED BY <1>9, <2>1, <2>2
<1>11. Behind'
  <2> SUFFICES ASSUME NEW j \in Ranks
               PROVE  /\ main'[j] \in {"raised", "hung", "stuck"} => Short(Iter(j))'
                      /\ main'[j] \in {"restart", "barrier"} => store'[Iter(j)'].interrupted
                      /\ \A l \in Iterations :
                            /\ l < Iter(j)' => store'[l].interrupted
                            /\ monitor'[j] = "on" /\ Noted(view'[j], queue'[j], l) => Short(l)'
    BY DEF Behind
  <2>1. PICK n \in Iterations : n = Iter(j)  BY <1>1, Self
  <2>2. Iter(j)' = n  BY <1>4, <2>1 DEF Iter
  <2>3. Short(n)' = Short(Iter(j))'  BY <2>2 DEF Short, NotRunning
  <2>4. main'[j] \in {"raised", "hung", "stuck"} => Short(n)'
    BY <1>1, <1>5, <1>9, <2>1 DEF Behind
  <2>5. \A l \in Iterations : store'[l].interrupted = store[l].interrupted  BY <1>7
  <2>6. main'[j] \in {"restart", "barrier"} => store'[n].interrupted
    BY <1>1, <1>5, <2>1, <2>5 DEF Behind
  <2>7. \A l \in Iterations :
            /\ l < n => store'[l].interrupted
            /\ monitor'[j] = "on" /\ Noted(view'[j], queue'[j], l) => Short(l)'
    BY <1>1, <1>4, <1>9, <2>1, <2>5 DEF Behind
  <2> QED BY <2>2, <2>3, <2>4, <2>6, <2>7
<1> QED BY <1>10, <1>11

(* A rank starts the next iteration.                                          *)
LEMMA RestartCounts ==
    ASSUME CompletionInv, NEW i \in Ranks, Restart(i)
    PROVE  Count' /\ Behind'
<1>1. Shape /\ WorldInv /\ Calm /\ Life /\ Count /\ Behind  BY DEF CompletionInv, WrapperInv
<1>2. PICK k \in Iterations : k = Iter(i)  BY <1>1, Self
<1>3. Here(i) = store[k]  BY <1>1, <1>2, Self
<1>4. PICK n : n = ShiftRanks(state[i], store[k].terminated)  OBVIOUS
<1>5. main[i] = "barrier" /\ store[k].released /\ k < MaxIterations
  BY <1>1, <1>2, <1>3 DEF Restart, Calm
<1>6. state[i].rank \notin store[k].terminated
  BY <1>1, <1>3, <1>5 DEF Calm, Lost
<1>7. /\ k + 1 \in Iterations /\ n.iteration = k + 1
      /\ n \in States /\ n.rank \in Ranks
      /\ store[k + 1].owner[n.rank] = NoOne
  BY <1>1, <1>2, <1>4, <1>5, <1>6, NextPlace
<1>8. /\ state' = [state EXCEPT ![i] = n]
      /\ store' = [store EXCEPT ![k + 1].owner[n.rank] = i]
      /\ Goto(i, "run") /\ Send(i, <<Disable, Start(n)>>)
      /\ UNCHANGED <<monitor, view>>
  BY <1>3, <1>4, <1>6, <1>7 DEF Restart
<1>9. /\ main'[i] = "run" /\ state'[i] = n
      /\ \A j \in Ranks : j # i => main'[j] = main[j] /\ state'[j] = state[j]
  BY <1>1, <1>8 DEF Goto, Shape
<1>10. Iter(i)' = k + 1 /\ \A j \in Ranks : j # i => Iter(j)' = Iter(j)
  BY <1>7, <1>9 DEF Iter
<1>11. \A l \in Iterations :
          /\ store'[l].finished = store[l].finished
          /\ store'[l].all_finished = store[l].all_finished
          /\ store'[l].interrupted = store[l].interrupted
          /\ store'[l].terminated = store[l].terminated
          /\ store'[l].arrived = store[l].arrived
          /\ \A r \in Ranks : l # k + 1 \/ r # n.rank => store'[l].owner[r] = store[l].owner[r]
  BY <1>1, <1>8 DEF Shape, Keys
<1>12. \A l \in Iterations : WorldOf(l)' = WorldOf(l)
  <2> SUFFICES ASSUME NEW l \in Iterations PROVE WorldOf(l)' = WorldOf(l)  OBVIOUS
  <2>1. l = 0 \/ l - 1 \in Iterations  BY SizesAssumption DEF Iterations
  <2> QED BY <1>11, <2>1 DEF WorldOf
<1>13. \A l \in Iterations : \A r \in NotRunning(l) : r \in NotRunning(l)'
  <2> SUFFICES ASSUME NEW l \in Iterations, NEW r \in NotRunning(l)
               PROVE  r \in NotRunning(l)'
    OBVIOUS
  <2>1. PICK j \in Ranks : /\ j = store[l].owner[r] /\ r \in Ranks
                           /\ ~(Iter(j) = l /\ main[j] = "run")
    BY DEF NotRunning
  <2>2. l # k + 1 \/ r # n.rank  BY <1>7, <2>1 DEF NoOne, Ranks
  <2>3. store'[l].owner[r] = j  BY <1>11, <2>1, <2>2
  <2>4. ~(Iter(j)' = l /\ main'[j] = "run")
    <3>1. CASE j # i  BY <1>9, <1>10, <2>1, <3>1
    <3>2. CASE j = i
      <4>1. k >= l  BY <1>1, <1>2, <2>1, <3>2 DEF WorldInv, Owned
      <4>2. k + 1 # l  BY <4>1, SizesAssumption DEF Iterations
      <4> QED BY <1>10, <3>2, <4>2
    <3> QED BY <3>1, <3>2
  <2> QED BY <2>1, <2>3, <2>4 DEF NotRunning, Iter
<1>14. \A l \in Iterations : /\ Short(l) => Short(l)'
                             /\ store'[l].finished <= Cardinality(NotRunning(l))'
  <2> SUFFICES ASSUME NEW l \in Iterations
               PROVE  /\ Short(l) => Short(l)'
                      /\ store'[l].finished <= Cardinality(NotRunning(l))'
    OBVIOUS
  <2>1. /\ Cardinality(NotRunning(l)) \in Nat /\ Cardinality(NotRunning(l)') \in Nat
        /\ Cardinality(NotRunning(l)) <= Cardinality(NotRunning(l)')
    BY <1>13, MoreNotRunning
  <2>2. store[l].finished <= Cardinality(NotRunning(l)) /\ store[l].finished \in Nat
    BY <1>1 DEF Count, Shape, Keys
  <2> QED BY <1>11, <2>1, <2>2 DEF Short
<1>15. Count'
  <2> SUFFICES ASSUME NEW l \in Iterations
               PROVE  /\ store'[l].finished <= Cardinality(NotRunning(l))'
                      /\ store'[l].all_finished =>
                            /\ store'[l].finished >= WorldOf(l)'
                            /\ \E r \in Ranks : store'[l].owner[r] \in Ranks
                      /\ store'[l].interrupted /\ store'[l].terminated = {} => Short(l)'
    BY DEF Count
  <2>1. ASSUME store'[l].all_finished
        PROVE  /\ store'[l].finished >= WorldOf(l)'
               /\ \E r \in Ranks : store'[l].owner[r] \in Ranks
    <3>1. store[l].finished >= WorldOf(l)  BY <1>1, <1>11, <2>1 DEF Count
    <3>2. PICK r \in Ranks : store[l].owner[r] \in Ranks  BY <1>1, <1>11, <2>1 DEF Count
    <3>3. l # k + 1 \/ r # n.rank  BY <1>7, <3>2 DEF NoOne, Ranks
    <3>4. store'[l].owner[r] \in Ranks  BY <1>11, <3>2, <3>3
    <3> QED BY <1>11, <1>12, <3>1, <3>4
  <2>2. store'[l].interrupted /\ store'[l].terminated = {} => Short(l)'
    BY <1>1, <1>11, <1>14 DEF Count
  <2> QED BY <1>14, <2>1, <2>2
<1>16. Behind'
  <2> SUFFICES ASSUME NEW j \in Ranks
               PROVE  /\ main'[j] \in {"raised", "hung", "stuck"} => Short(Iter(j))'
                      /\ main'[j] \in {"restart", "barrier"} => store'[Iter(j)'].interrupted
                      /\ \A l \in Iterations :
                            /\ l < Iter(j)' => store'[l].interrupted
                            /\ monitor'[j] = "on" /\ Noted(view'[j], queue'[j], l) => Short(l)'
    BY DEF Behind
  <2>1. CASE j = i
    <3>1. store[k].interrupted  BY <1>1, <1>2, <1>5 DEF Behind
    <3>2. \A l \in Iterations : l < k + 1 => store'[l].interrupted
      <4> SUFFICES ASSUME NEW l \in Iterations, l < k + 1 PROVE store'[l].interrupted
        OBVIOUS
      <4>1. l = k \/ l < k  BY SizesAssumption DEF Iterations
      <4>2. store[l].interrupted  BY <1>1, <1>2, <3>1, <4>1 DEF Behind
      <4> QED BY <1>11, <4>2
    <3>3. monitor[i] = "on"  BY <1>1, <1>5 DEF Life, Lives
    <3>4. queue[i] \in Seq(Messages) /\ queue'[i] = queue[i] \o <<Disable, Start(n)>>
      BY <1>1, <1>8, <3>3 DEF Send, Shape
    <3>5. /\ <<Disable, Start(n)>> \in Seq(Messages)
          /\ \A p \in 1 .. Len(<<Disable, Start(n)>>) : <<Disable, Start(n)>>[p].kind # "record"
      <4>1. PICK a \in Messages : a = Disable /\ a.kind # "record"  BY MessageTypes
      <4>2. PICK b \in Messages : b = Start(n) /\ b.kind # "record"  BY <1>7, MessageTypes
      <4>3. /\ <<a, b>> \in Seq(Messages)
            /\ \A p \in 1 .. Len(<<a, b>>) : <<a, b>>[p].kind # "record"
        BY <4>1, <4>2
      <4> QED BY <4>1, <4>2, <4>3
    <3>6. \A l \in Iterations : Noted(view'[i], queue'[i], l) => Short(l)'
      <4> SUFFICES ASSUME NEW l \in Iterations, Noted(view[i], queue'[i], l) PROVE Short(l)'
        BY <1>8
      <4>1. Noted(view[i], queue[i], l)  BY <3>4, <3>5, NotedMore
      <4> QED BY <1>1, <1>14, <3>3, <4>1 DEF Behind
    <3> QED BY <1>9, <1>10, <2>1, <3>2, <3>6
  <2>2. CASE j # i
    <3>1. PICK m \in Iterations : m = Iter(j)  BY <1>1, Self
    <3>2. Iter(j)' = m  BY <1>10, <2>2, <3>1
    <3>3. Short(m)' = Short(Iter(j))'  BY <3>2 DEF Short, NotRunning
    <3>4. main'[j] = main[j] /\ monitor'[j] = monitor[j] /\ view'[j] = view[j]
          /\ queue'[j] = queue[j]
      BY <1>1, <1>8, <1>9, <2>2 DEF Send, Shape
    <3>5. main'[j] \in {"raised", "hung", "stuck"} => Short(m)'
      BY <1>1, <1>14, <3>1, <3>4 DEF Behind
    <3>6. main'[j] \in {"restart", "barrier"} => store'[m].interrupted
      BY <1>1, <1>11, <3>1, <3>4 DEF Behind
    <3>7. \A l \in Iterations :
            /\ l < m => store'[l].interrupted
            /\ monitor'[j] = "on" /\ Noted(view'[j], queue'[j], l) => Short(l)'
      BY <1>1, <1>11, <1>14, <3>1, <3>4 DEF Behind
    <3> QED BY <3>2, <3>3, <3>5, <3>6, <3>7
  <2> QED BY <2>1, <2>2
<1> QED BY <1>15, <1>16

LEMMA InitCounts == Init => CompletionInv
<1> SUFFICES ASSUME Init PROVE CompletionInv  OBVIOUS
<1>1. WrapperInv  BY InitWrapper
<1>2. /\ \A k \in Iterations : /\ store[k].interrupted = FALSE /\ store[k].finished = 0
                               /\ store[k].all_finished = FALSE
      /\ \A i \in Ranks : main[i] = "run" /\ Iter(i) = 0
      /\ \A i \in Ranks : queue[i] = <<Start(state[i])>>
  <2>1. 0 \in Iterations  BY SizesAssumption DEF Iterations
  <2> QED BY <2>1 DEF Init, EmptyStore, Iter
<1>3. Count
  <2> SUFFICES ASSUME NEW k \in Iterations PROVE store[k].finished <= Cardinality(NotRunning(k))
    BY <1>2 DEF Count
  <2> QED BY <1>2, NotRunningFinite
<1>4. Behind
  <2> SUFFICES ASSUME NEW i \in Ranks, NEW k \in Iterations
               PROVE  ~(k < Iter(i)) /\ ~Noted(view[i], queue[i], k)
    BY <1>2 DEF Behind
  <2>1. ~(k < Iter(i))  BY <1>2, SizesAssumption DEF Iterations
  <2>2. Len(queue[i]) = 1 /\ queue[i][1].kind # "record"
    <3>1. Start(state[i]).kind = "start"  BY DEF Start
    <3>2. PICK m : m = Start(state[i])  OBVIOUS
    <3>3. queue[i] = <<m>> /\ m.kind = "start"  BY <1>2, <3>1, <3>2
    <3>4. Len(<<m>>) = 1 /\ <<m>>[1] = m  OBVIOUS
    <3> QED BY <3>3, <3>4
  <2>3. \A p \in 1 .. Len(queue[i]) : p = 1  BY <2>2
  <2> QED BY <2>1, <2>2, <2>3 DEF Noted, About
<1> QED BY <1>1, <1>3, <1>4 DEF CompletionInv

LEMMA CompletionStep ==
    (DyingAt \subseteq KilledAt) /\ Slow = {} /\ CompletionInv /\ [Next]_vars => CompletionInv'
<1> SUFFICES ASSUME DyingAt \subseteq KilledAt, Slow = {}, CompletionInv, [Next]_vars
             PROVE  CompletionInv'
  OBVIOUS
<1>1. WrapperInv /\ Shape /\ WorldInv /\ Count /\ Behind  BY DEF CompletionInv, WrapperInv
<1>2. WrapperInv'  BY <1>1, WrapperStep
<1>3. ASSUME Shape' /\ SomeMoves, StoreSteady /\ MainSteady PROVE Count' /\ Behind'
  BY <1>1, <1>3, SteadyStep
<1>4. ASSUME UNCHANGED vars PROVE Count' /\ Behind'
  <2>1. Shape' /\ SomeMoves  BY <1>1, <1>4, StutterMoves DEF CompletionInv
  <2>2. StoreSteady  BY <1>4 DEF vars, StoreSteady
  <2>3. MainSteady
    <3> SUFFICES ASSUME NEW i \in Ranks PROVE SteadyRank(i)  BY DEF MainSteady
    <3> QED BY <1>1, <1>4 DEF vars, SteadyRank, Behind
  <2> QED BY <1>3, <2>1, <2>2, <2>3
<1>5. ASSUME NEW i \in Ranks, Main(i) PROVE Count' /\ Behind'
  <2>1. CASE Return(i) \/ RankShouldRestart(i) \/ Shutdown(i) \/ HostLeaves(i)
    <3>1. Silently(i)  BY <2>1 DEF Silently
    <3> QED BY <1>1, <1>3, <2>1, <3>1, WorkStep, SilentSteps
  <2>2. CASE ArriveAtBarrier(i)
    <3>1. Silently(i)  BY <2>2 DEF Silently
    <3> QED BY <1>1, <1>3, <2>2, <3>1, ArriveAtBarrierStep, SilentSteps
  <2>3. CASE Restart(i)  BY <2>3, RestartCounts
  <2>4. CASE ExitRecords(i)
    <3>1. Silently(i)  BY <2>4 DEF Silently
    <3> QED BY <1>1, <1>3, <2>4, <3>1, ExitRecordsStep, SilentSteps
  <2>5. CASE ExitArrives(i)
    <3>1. Silently(i)  BY <2>5 DEF Silently
    <3> QED BY <1>1, <1>3, <2>5, <3>1, ExitArrivesStep, SilentSteps
  <2>6. CASE ExitLeaves(i)  BY <1>1, <1>3, <2>6, ExitLeavesStep, KilledSteady
  <2> QED BY <1>5, <2>1, <2>2, <2>3, <2>4, <2>5, <2>6 DEF Main
<1>6. ASSUME NEW i \in Ranks, Monitor(i) PROVE Count' /\ Behind'
  <2>1. CASE Receive(i)  BY <1>1, <1>3, <2>1, ReceiveStep, ReceiveSteady
  <2>2. CASE SoftTimeout(i)  BY <1>1, <1>3, <2>2, SoftTimeoutStep, SoftTimeoutSteady
  <2>3. CASE HardTimeout(i)
    <3>1. Silently(i)  BY <2>3 DEF Silently
    <3> QED BY <1>1, <1>3, <2>3, <3>1, HardTimeoutStep, SilentSteps
  <2>4. CASE TerminateSilent(i)
    BY <1>1, <1>3, <2>4, TerminateSilentStep, TerminateSilentSteady
  <2>5. CASE MournRecords(i)  BY <1>1, <1>3, <2>5, MournRecordsStep, MourningSteady
  <2>6. CASE MournArrives(i)  BY <1>1, <1>3, <2>6, MournArrivesStep, MourningSteady
  <2>7. CASE MournLeaves(i) \/ Stop(i)  BY <1>1, <1>3, <2>7, LastStep, MourningSteady
  <2>8. CASE HardTimeoutAtEnd(i)
    <3>1. Silently(i)  BY <2>8 DEF Silently
    <3> QED BY <1>1, <1>3, <2>8, <3>1, HardTimeoutAtEndStep, SilentSteps
  <2> QED BY <1>6, <2>1, <2>2, <2>3, <2>4, <2>5, <2>6, <2>7, <2>8 DEF Monitor
<1>7. ASSUME NEW i \in Ranks, Function(i) PROVE Count' /\ Behind'
  <2>1. CASE FnReturns(i)  BY <2>1, FnReturnsCounts
  <2>2. CASE Raise(i)  BY <1>1, <1>3, <2>2, RaiseStep, RaiseSteady
  <2>3. CASE Hang(i)  BY <1>1, <1>3, <2>3, WorkStep, HangSteady
  <2>4. CASE GiveUp(i)
    <3>1. Silently(i)  BY <2>4 DEF Silently
    <3> QED BY <1>1, <1>3, <2>4, <3>1, WorkStep, SilentSteps
  <2> QED BY <1>7, <2>1, <2>2, <2>3, <2>4 DEF Function
<1>8. ASSUME NEW i \in Ranks, Die(i) PROVE Count' /\ Behind'
  BY <1>1, <1>3, <1>8, DieStep, KilledSteady
<1>9. ASSUME NEW i \in Ranks, LoseNode(i) PROVE Count' /\ Behind'
  BY <1>1, <1>3, <1>9, LoseNodeStep, KilledSteady
<1>10. ASSUME Next PROVE Count' /\ Behind'
  <2>1. PICK i \in Ranks : Main(i) \/ Monitor(i) \/ Function(i) \/ Die(i) \/ LoseNode(i)
    BY <1>10 DEF Next
  <2> QED BY <1>5, <1>6, <1>7, <1>8, <1>9, <2>1
<1>11. Count' /\ Behind'  BY <1>4, <1>10
<1> QED BY <1>2, <1>11 DEF CompletionInv

(* When the completion barrier lets an iteration go and nobody was terminated *)
(* in it, all its ranks have finished the function, and it is over.           *)
THEOREM CompletionEnds ==
    (DyingAt \subseteq KilledAt) /\ Slow = {} => (Spec => []CompletionIsFinal)
<1>1. CompletionInv => CompletionIsFinal
  <2> SUFFICES ASSUME CompletionInv, NEW k \in Iterations, store[k].all_finished,
                      store[k].terminated = {}, NEW i \in Ranks
               PROVE  /\ Iter(i) <= k
                      /\ Iter(i) = k => main[i] \notin InFunction \cup {"restart", "barrier"}
    BY DEF CompletionIsFinal
  <2>1. Shape /\ WorldInv /\ Count /\ Behind  BY DEF CompletionInv, WrapperInv
  <2>2. store[k].finished \in Nat /\ store[k].finished >= WorldOf(k) /\ WorldOf(k) \in Int
        /\ store[k].finished <= Cardinality(NotRunning(k))
    BY <2>1, WorldOfType DEF Count, Shape, Keys
  <2>3. PICK A : A = NotRunning(k)  OBVIOUS
  <2>4. \A r \in A : r \in Ranks /\ r < WorldOf(k)
    BY <2>1, <2>3 DEF NotRunning, WorldInv, Owned
  <2>5. PICK w \in Nat : w = WorldOf(k)
    <3>1. PICK r \in Ranks : store[k].owner[r] \in Ranks  BY <2>1 DEF Count
    <3>2. r < WorldOf(k)  BY <2>1, <3>1 DEF WorldInv, Owned
    <3> QED BY <2>2, <3>2, SizesAssumption DEF Ranks
  <2>6. \A r \in A : r \in 0 .. w - 1  BY <2>4, <2>5 DEF Ranks
  <2>7. Cardinality(A) \in 0 .. w /\ (Cardinality(A) = w => A = 0 .. w - 1)  BY <2>6, FewRanks
  <2>8. ~Short(k) /\ A = 0 .. w - 1  BY <2>2, <2>3, <2>5, <2>7 DEF Short
  <2>9. ~store[k].interrupted  BY <2>1, <2>8 DEF Count
  <2>10. Iter(i) \in Iterations /\ state[i].rank \in Ranks  BY <2>1, Self
  <2>11. Iter(i) <= k  BY <2>1, <2>9, <2>10, SizesAssumption DEF Behind, Iterations
  <2>12. ASSUME Iter(i) = k PROVE main[i] \notin InFunction \cup {"restart", "barrier"}
    <3>1. main[i] \notin {"raised", "hung", "stuck"}  BY <2>1, <2>8, <2>12 DEF Behind
    <3>2. main[i] \notin {"restart", "barrier"}  BY <2>1, <2>9, <2>12 DEF Behind
    <3>3. main[i] # "run"
      <4>1. store[k].owner[state[i].rank] = i /\ state[i].rank < WorldOf(k)
        BY <2>1, <2>12 DEF WorldInv, Placed
      <4>2. state[i].rank \in A  BY <2>5, <2>8, <2>10, <4>1 DEF Ranks
      <4> QED BY <2>3, <2>12, <4>1, <4>2 DEF NotRunning
    <3> QED BY <3>1, <3>2, <3>3 DEF InFunction
  <2> QED BY <2>11, <2>12
<1> SUFFICES ASSUME DyingAt \subseteq KilledAt, Slow = {} PROVE Spec => []CompletionIsFinal
  OBVIOUS
<1>2. CompletionInv /\ [Next]_vars => CompletionInv'  BY CompletionStep
<1>3. Spec => []CompletionInv  BY <1>2, InitCounts, PTL DEF Spec
<1> QED BY <1>1, <1>3, PTL
=============================================================================
