----------------------------- MODULE RankProofs -----------------------------
(***************************************************************************)
(* The ranks that _assign_group_ranks gives, for every set of participants *)
(* that can be ranked, every segment length and every group size.          *)
(*                                                                         *)
(* First the closed form of RankAssignment: the rank order is a strict     *)
(* order, so counting the earlier ones numbers the participants; the seats *)
(* of the domains are whole segments, and the feasibility test counts      *)
(* them; so the active ranks fill the world (RanksFillTheWorld, which the  *)
(* proofs about the rendezvous use).                                       *)
(*                                                                         *)
(* Then the loop of GroupRankLoop: sorting visits the domains and their    *)
(* members in that order (VisitsDomains, PlaceInDomain), LocalsAfter is    *)
(* the loop's invariant and OnePass the step that preserves it, so the     *)
(* loop computes the closed form (LoopComputesClosedForm).  From this and  *)
(* from JoinedIsRankable follow the properties that TLC checks of the      *)
(* loop on a few nodes.                                                    *)
(***************************************************************************)
EXTENDS GroupRankLoop, FiniteSetTheorems, TLAPS

-----------------------------------------------------------------------------
(* Counting *)

(* The values a function takes on a finite set are finitely many. *)
LEMMA FiniteImage ==
  ASSUME NEW S, IsFiniteSet(S), NEW f
  PROVE  IsFiniteSet({f[x] : x \in S})
<1> DEFINE T == {f[x] : x \in S}
           g == [x \in S |-> f[x]]
<1>1. g \in Surjection(S, T)
  BY DEF Surjection
<1> QED
  BY <1>1, FS_Surjection

(* A set of naturals has a least element; an induction is an argument about the
   least counterexample. *)
LEMMA LeastNatural ==
  ASSUME NEW T, T \subseteq Nat, T # {} PROVE \E m \in T : \A k \in T : m <= k
<1> DEFINE R == {ss \in Nat \X Nat : ss[1] < ss[2]}
<1>1. OpToRel(<, Nat) = R
  BY DEF OpToRel
<1>2. IsWellFoundedOn(R, Nat)
  BY <1>1, NatLessThanWellFounded
<1> HIDE DEF R
<1>3. PICK m \in T : \A k \in T : ~(<<k, m>> \in R)
  BY <1>2, WFMin
<1>4. \A k \in T : m <= k
  <2> SUFFICES ASSUME NEW k \in T PROVE m <= k
    OBVIOUS
  <2>1. <<k, m>> \in Nat \X Nat /\ <<k, m>>[1] = k /\ <<k, m>>[2] = m
    OBVIOUS
  <2>2. ~(k < m)
    BY <1>3, <2>1 DEF R
  <2> QED
    BY <2>2
<1> QED
  BY <1>4

\* A strict total order on D, given by its pairs, and who comes before p in it.
StrictOrder(D, R) ==
    /\ \A p \in D : <<p, p>> \notin R
    /\ \A p, q, r \in D : <<p, q>> \in R /\ <<q, r>> \in R => <<p, r>> \in R
    /\ \A p, q \in D : p # q => <<p, q>> \in R \/ <<q, p>> \in R
Below(D, R, p) == {q \in D : <<q, p>> \in R}

(* The numbers of those that come before number a finite set from 0 on. *)
LEMMA BelowGrows ==
  ASSUME NEW D, IsFiniteSet(D), NEW R, StrictOrder(D, R), NEW p \in D
  PROVE  /\ Cardinality(Below(D, R, p)) \in Nat
         /\ Cardinality(Below(D, R, p)) < Cardinality(D)
         /\ \A q \in D : <<p, q>> \in R =>
               Cardinality(Below(D, R, p)) < Cardinality(Below(D, R, q))
<1>1. \A q \in D : /\ Below(D, R, q) \in SUBSET D /\ IsFiniteSet(Below(D, R, q))
                   /\ Cardinality(Below(D, R, q)) \in Nat
  BY FS_Subset, FS_CardinalityType DEF Below
<1>2. Cardinality(D) \in Nat
  BY FS_CardinalityType
<1>3. ASSUME NEW B, IsFiniteSet(B), Below(D, R, p) \in SUBSET B, p \in B
      PROVE  Cardinality(Below(D, R, p)) < Cardinality(B)
  <2>1. Cardinality(Below(D, R, p)) <= Cardinality(B) /\ Cardinality(B) \in Nat
    BY <1>3, FS_Subset, FS_CardinalityType
  <2>2. p \notin Below(D, R, p)
    BY DEF Below, StrictOrder
  <2>3. Cardinality(B) # Cardinality(Below(D, R, p))
    BY <1>3, <2>2, FS_Subset
  <2> QED
    BY <1>1, <2>1, <2>3
<1>4. ASSUME NEW q \in D, <<p, q>> \in R
      PROVE  Cardinality(Below(D, R, p)) < Cardinality(Below(D, R, q))
  <2>1. Below(D, R, p) \in SUBSET Below(D, R, q) /\ p \in Below(D, R, q)
    BY <1>4 DEF Below, StrictOrder
  <2> QED
    BY <1>1, <1>3, <2>1
<1> QED
  BY <1>1, <1>3, <1>4

(* Those numbers are different, and every number below the count is one of them. *)
LEMMA Numbering ==
  ASSUME NEW D, IsFiniteSet(D), NEW R, StrictOrder(D, R)
  PROVE  /\ \A p, q \in D : p # q => Cardinality(Below(D, R, p)) # Cardinality(Below(D, R, q))
         /\ \A i \in Nat : i < Cardinality(D) => \E p \in D : Cardinality(Below(D, R, p)) = i
<1> DEFINE n == Cardinality(D)
           I == 0 .. n - 1
           pos == [p \in D |-> Cardinality(Below(D, R, p))]
<1>1. n \in Nat /\ IsFiniteSet(I) /\ Cardinality(I) = n
  <2>1. n \in Nat
    BY FS_CardinalityType
  <2>2. 0 \in Int /\ n - 1 \in Int
    BY <2>1
  <2>3. IsFiniteSet(I) /\ Cardinality(I) = IF 0 > n - 1 THEN 0 ELSE n - 1 - 0 + 1
    BY <2>2, FS_Interval
  <2> QED
    BY <2>1, <2>3
<1>2. \A p \in D : Cardinality(Below(D, R, p)) \in Nat /\ Cardinality(Below(D, R, p)) < n
  BY BelowGrows
<1>3. \A p, q \in D : p # q => Cardinality(Below(D, R, p)) # Cardinality(Below(D, R, q))
  <2> SUFFICES ASSUME NEW p \in D, NEW q \in D, p # q
               PROVE  Cardinality(Below(D, R, p)) # Cardinality(Below(D, R, q))
    OBVIOUS
  <2>1. CASE <<p, q>> \in R
    BY <2>1, <1>2, BelowGrows
  <2>2. CASE <<q, p>> \in R
    BY <2>2, <1>2, BelowGrows
  <2> QED
    BY <2>1, <2>2 DEF StrictOrder
<1>4. pos \in Injection(D, I)
  <2>1. pos \in [D -> I]
    BY <1>1, <1>2
  <2>2. \A p, q \in D : p # q => pos[p] # pos[q]
    BY <1>3
  <2> QED
    BY <2>1, <2>2 DEF Injection, IsInjective
<1>5. pos \in Surjection(D, I)
  BY <1>1, <1>4, FS_Injection
<1>6. \A i \in I : \E p \in D : Cardinality(Below(D, R, p)) = i
  BY <1>5 DEF Surjection
<1>7. \A i \in Nat : i < n => i \in I
  BY <1>1
<1>8. \A i \in Nat : i < n => \E p \in D : Cardinality(Below(D, R, p)) = i
  <2> HIDE DEF I
  <2> QED
    BY <1>6, <1>7
<1> QED
  BY <1>3, <1>8

(* So the first m of them are m. *)
LEMMA FirstOnes ==
  ASSUME NEW D, IsFiniteSet(D), NEW R, StrictOrder(D, R),
         NEW m \in Nat, m <= Cardinality(D)
  PROVE  Cardinality({p \in D : Cardinality(Below(D, R, p)) < m}) = m
<1> DEFINE E == {p \in D : Cardinality(Below(D, R, p)) < m}
           f == [p \in E |-> Cardinality(Below(D, R, p))]
<1>1. Cardinality(D) \in Nat
  BY FS_CardinalityType
<1>2. \A p \in D : Cardinality(Below(D, R, p)) \in Nat
  BY BelowGrows
<1>3. \A p, q \in D : p # q => Cardinality(Below(D, R, p)) # Cardinality(Below(D, R, q))
  BY Numbering
<1>4. \A i \in 0 .. m - 1 : \E p \in D : Cardinality(Below(D, R, p)) = i
  BY <1>1, Numbering
<1>8. f \in Bijection(E, 0 .. m - 1)
  <2>1. f \in [E -> 0 .. m - 1]
    BY <1>2
  <2>2. \A p, q \in E : p # q => f[p] # f[q]
    BY <1>3
  <2>3. \A i \in 0 .. m - 1 : \E p \in E : f[p] = i
    BY <1>4
  <2> QED
    BY <2>1, <2>2, <2>3 DEF Bijection, Injection, Surjection, IsInjective
<1>9. IsFiniteSet(E)
  BY FS_Subset
<1>10. Cardinality(0 .. m - 1) = Cardinality(E)
  <2>1. ExistsBijection(E, 0 .. m - 1)
    BY <1>8 DEF ExistsBijection
  <2> HIDE DEF E
  <2> QED
    BY <1>9, <2>1, FS_Bijection
<1>11. Cardinality(0 .. m - 1) = m
  <2>1. Cardinality(0 .. m - 1) = IF 0 > m - 1 THEN 0 ELSE m - 1 - 0 + 1
    BY FS_Interval
  <2> QED
    BY <2>1
<1> QED
  BY <1>10, <1>11

(* A finite set of integers has a least element. *)
LEMMA LeastInteger ==
  ASSUME NEW T, T \subseteq Int, IsFiniteSet(T), T # {}
  PROVE  \E m \in T : \A k \in T : m <= k
<1> DEFINE R == {pr \in T \X T : pr[1] < pr[2]}
           N == {Cardinality(Below(T, R, x)) : x \in T}
<1>1. \A x, y \in T : <<x, y>> \in R <=> x < y
  OBVIOUS
<1> HIDE DEF R
<1>2. StrictOrder(T, R)
  <2>1. \A x \in T : x \in Int
    OBVIOUS
  <2> QED
    BY <1>1, <2>1 DEF StrictOrder
<1>3. N \subseteq Nat /\ N # {}
  BY <1>2, BelowGrows
<1>4. PICK c \in N : \A k \in N : c <= k
  <2> HIDE DEF N
  <2> QED
    BY <1>3, LeastNatural
<1>5. PICK m \in T : c = Cardinality(Below(T, R, m))
  BY <1>4
<1>6. \A k \in T : m <= k
  <2> SUFFICES ASSUME NEW k \in T, ~(m <= k) PROVE FALSE
    OBVIOUS
  <2>1. k < m /\ <<k, m>> \in R
    BY <1>1
  <2>2. Cardinality(Below(T, R, k)) < Cardinality(Below(T, R, m))
    BY <2>1, <1>2, BelowGrows
  <2>3. Cardinality(Below(T, R, k)) \in Nat /\ Cardinality(Below(T, R, m)) \in Nat
    BY <1>2, BelowGrows
  <2>4. c <= Cardinality(Below(T, R, k))
    BY <1>4
  <2> QED
    BY <2>2, <2>3, <2>4, <1>5
<1> QED
  BY <1>6

-----------------------------------------------------------------------------
(* The rank order *)

\* Participants that can be ranked: different nodes, and no RuntimeError.
Rankable(P) ==
    /\ IsFiniteSet(P)
    /\ \A p \in P : p.node \in Int /\ p.infra \in Int
    /\ \A p, q \in P : p # q => p.node # q.node
    /\ ~DuplicateInfra(P)

(* Two participants never have the same place in the rank order. *)
LEMMA KeysDiffer ==
  ASSUME NEW P, Rankable(P)
  PROVE  /\ \A p \in P : SortKey(P, p) \in Int
         /\ \A p, q \in P : p # q => SortKey(P, p) # SortKey(P, q)
<1>1. CASE ~HasUnassignedInfra(P)
  <2>1. \A p \in P : SortKey(P, p) = p.infra
    BY <1>1 DEF SortKey
  <2>2. \A p, q \in P : p # q => p.infra # q.infra
    BY <1>1 DEF Rankable, DuplicateInfra
  <2> QED
    BY <2>1, <2>2 DEF Rankable
<1>2. CASE HasUnassignedInfra(P)
  <2> DEFINE R == {pr \in P \X P : pr[1].node < pr[2].node}
  <2>1. \A p, q \in P : <<p, q>> \in R <=> p.node < q.node
    OBVIOUS
  <2> HIDE DEF R
  <2>2. StrictOrder(P, R)
    <3>1. \A p \in P : p.node \in Int
      BY DEF Rankable
    <3>2. \A p, q \in P : p # q => p.node # q.node
      BY DEF Rankable
    <3> QED
      BY <2>1, <3>1, <3>2 DEF StrictOrder
  <2>3. \A p \in P : SortKey(P, p) = Cardinality(Below(P, R, p))
    <3> SUFFICES ASSUME NEW p \in P PROVE SortKey(P, p) = Cardinality(Below(P, R, p))
      OBVIOUS
    <3>1. Below(P, R, p) = {q \in P : q.node < p.node}
      BY <2>1 DEF Below
    <3> QED
      BY <3>1, <1>2 DEF SortKey
  <2>4. IsFiniteSet(P)
    BY DEF Rankable
  <2>5. \A p \in P : Cardinality(Below(P, R, p)) \in Nat
    BY <2>2, <2>4, BelowGrows
  <2>6. \A p, q \in P : p # q => Cardinality(Below(P, R, p)) # Cardinality(Below(P, R, q))
    <3>1. 0 \in Nat /\ 0 <= Cardinality(P)
      BY <2>4, FS_CardinalityType
    <3> QED
      BY <2>2, <2>4, <3>1, Numbering
  <2> QED
    BY <2>3, <2>5, <2>6
<1> QED
  BY <1>1, <1>2

(* To be in one domain is an equivalence. *)
LEMMA DomainsPartition ==
  \A p, q, r : /\ SameDomain(p, p)
               /\ SameDomain(p, q) => SameDomain(q, p)
               /\ SameDomain(p, q) /\ SameDomain(q, r) => SameDomain(p, r)
BY DEF SameDomain

\* The domain of p among the candidates.
DomainOf(A, p) == {q \in A : SameDomain(p, q)}

(* A domain has the place of its first participant. *)
LEMMA DomainKeyIsLeast ==
  ASSUME NEW P, Rankable(P), NEW A, A \subseteq P, NEW p \in A
  PROVE  /\ DomainKey(P, A, p) \in Int
         /\ \E r \in A : SameDomain(p, r) /\ DomainKey(P, A, p) = SortKey(P, r)
         /\ \A q \in A : SameDomain(p, q) => DomainKey(P, A, p) <= SortKey(P, q)
<1> DEFINE T == {SortKey(P, q) : q \in {r \in A : SameDomain(p, r)}}
           B == {r \in A : SameDomain(p, r)}
           key == [q \in B |-> SortKey(P, q)]
<1>1. \A q \in A : SortKey(P, q) \in Int
  BY KeysDiffer
<1>2. T \subseteq Int
  BY <1>1
<1>3. T # {}
  BY DomainsPartition
<1>4. IsFiniteSet(T)
  <2>1. IsFiniteSet(B)
    BY FS_Subset DEF Rankable
  <2>2. T = {key[q] : q \in B}
    OBVIOUS
  <2>3. IsFiniteSet({key[q] : q \in B})
    <3> HIDE DEF B, key
    <3> QED
      BY <2>1, FiniteImage
  <2> QED
    BY <2>2, <2>3
<1>5. \E k \in T : \A q \in A : SameDomain(p, q) => k <= SortKey(P, q)
  <2>1. PICK k \in T : \A j \in T : k <= j
    <3> HIDE DEF T
    <3> QED
      BY <1>2, <1>3, <1>4, LeastInteger
  <2> QED
    BY <2>1
<1>6. /\ DomainKey(P, A, p) \in T
      /\ \A q \in A : SameDomain(p, q) => DomainKey(P, A, p) <= SortKey(P, q)
  <2>1. DomainKey(P, A, p) = CHOOSE k \in T : \A q \in A : SameDomain(p, q) => k <= SortKey(P, q)
    BY DEF DomainKey
  <2> HIDE DEF T
  <2> QED
    BY <1>5, <2>1
<1> QED
  BY <1>2, <1>6

\* The pairs of the loop's visiting order.
Visiting(P, A) == {pr \in A \X A : Before(P, A, pr[1], pr[2])}

(* The loop visits the candidates one after the other, whole domains together. *)
LEMMA VisitingIsOrder ==
  ASSUME NEW P, Rankable(P), NEW A, A \subseteq P
  PROVE  StrictOrder(A, Visiting(P, A))
<1>1. \A p, q \in A : <<p, q>> \in Visiting(P, A) <=> Before(P, A, p, q)
  BY DEF Visiting
<1>2. \A p \in A : SortKey(P, p) \in Int /\ DomainKey(P, A, p) \in Int
  BY KeysDiffer, DomainKeyIsLeast
<1>3. \A p, q \in A : p # q => SortKey(P, p) # SortKey(P, q)
  BY KeysDiffer
<1>4. ASSUME NEW p \in A, NEW q \in A, SameDomain(p, q)
      PROVE  DomainKey(P, A, p) = DomainKey(P, A, q)
  <2>1. PICK r \in A : SameDomain(p, r) /\ DomainKey(P, A, p) = SortKey(P, r)
    BY DomainKeyIsLeast
  <2>2. PICK s \in A : SameDomain(q, s) /\ DomainKey(P, A, q) = SortKey(P, s)
    BY DomainKeyIsLeast
  <2>3. SameDomain(q, r) /\ SameDomain(p, s)
    BY <1>4, <2>1, <2>2, DomainsPartition
  <2>4. DomainKey(P, A, p) <= SortKey(P, s) /\ DomainKey(P, A, q) <= SortKey(P, r)
    BY <2>3, DomainKeyIsLeast
  <2> QED
    BY <2>1, <2>2, <2>4, <1>2
<1>5. ASSUME NEW p \in A, NEW q \in A, ~SameDomain(p, q)
      PROVE  DomainKey(P, A, p) # DomainKey(P, A, q)
  <2>1. PICK r \in A : SameDomain(p, r) /\ DomainKey(P, A, p) = SortKey(P, r)
    BY DomainKeyIsLeast
  <2>2. PICK s \in A : SameDomain(q, s) /\ DomainKey(P, A, q) = SortKey(P, s)
    BY DomainKeyIsLeast
  <2>3. r # s
    <3> SUFFICES ASSUME r = s PROVE FALSE
      OBVIOUS
    <3>1. SameDomain(r, q)
      BY <2>2, DomainsPartition
    <3> QED
      BY <3>1, <1>5, <2>1, DomainsPartition
  <2> QED
    BY <2>1, <2>2, <2>3, <1>3
<1>6. \A p \in A : ~Before(P, A, p, p)
  BY <1>2 DEF Before
<1>7. ASSUME NEW p \in A, NEW q \in A, NEW r \in A, Before(P, A, p, q), Before(P, A, q, r)
      PROVE  Before(P, A, p, r)
  <2>1. CASE SameDomain(p, q) /\ SameDomain(q, r)
    <3>1. SameDomain(p, r) /\ DomainKey(P, A, p) = DomainKey(P, A, q)
          /\ DomainKey(P, A, q) = DomainKey(P, A, r)
      BY <2>1, <1>4, DomainsPartition
    <3>2. SortKey(P, p) < SortKey(P, q) /\ SortKey(P, q) < SortKey(P, r)
      BY <3>1, <1>2, <1>7 DEF Before
    <3>3. SortKey(P, p) < SortKey(P, r)
      BY <3>2, <1>2
    <3> QED
      BY <3>1, <3>3 DEF Before
  <2>2. CASE SameDomain(p, q) /\ ~SameDomain(q, r)
    <3>1. DomainKey(P, A, p) = DomainKey(P, A, q) /\ DomainKey(P, A, q) < DomainKey(P, A, r)
      BY <2>2, <1>4, <1>7 DEF Before
    <3> QED
      BY <3>1 DEF Before
  <2>3. CASE ~SameDomain(p, q) /\ SameDomain(q, r)
    <3>1. DomainKey(P, A, p) < DomainKey(P, A, q) /\ DomainKey(P, A, q) = DomainKey(P, A, r)
      BY <2>3, <1>4, <1>7 DEF Before
    <3> QED
      BY <3>1 DEF Before
  <2>4. CASE ~SameDomain(p, q) /\ ~SameDomain(q, r)
    <3>1. DomainKey(P, A, p) < DomainKey(P, A, q) /\ DomainKey(P, A, q) < DomainKey(P, A, r)
      BY <2>4, <1>7 DEF Before
    <3>2. DomainKey(P, A, p) < DomainKey(P, A, r)
      BY <3>1, <1>2
    <3> QED
      BY <3>2 DEF Before
  <2> QED
    BY <2>1, <2>2, <2>3, <2>4
<1>8. ASSUME NEW p \in A, NEW q \in A, p # q
      PROVE  Before(P, A, p, q) \/ Before(P, A, q, p)
  <2>1. CASE SameDomain(p, q)
    <3>1. SameDomain(q, p) /\ (SortKey(P, p) < SortKey(P, q) \/ SortKey(P, q) < SortKey(P, p))
      BY <2>1, <1>2, <1>3, <1>8, DomainsPartition
    <3> QED
      BY <2>1, <3>1 DEF Before
  <2>2. CASE ~SameDomain(p, q)
    <3>1. DomainKey(P, A, p) < DomainKey(P, A, q) \/ DomainKey(P, A, q) < DomainKey(P, A, p)
      BY <2>2, <1>2, <1>5
    <3> QED
      BY <3>1 DEF Before
  <2> QED
    BY <2>1, <2>2
<1> QED
  BY <1>1, <1>6, <1>7, <1>8 DEF StrictOrder

-----------------------------------------------------------------------------
(* Whole segments *)

(* A segment has at least one participant. *)
LEMMA SegmentIsPositive == SegmentLen \in Nat /\ SegmentLen >= 1
BY SegmentAssumption DEF SegmentLen

(* A number written as q * d + t with t below d has quotient q and remainder t, ... *)
LEMMA QuotientIs ==
  ASSUME NEW d \in Nat \ {0}, NEW q \in Nat, NEW t \in 0 .. d - 1
  PROVE  (q * d + t) \div d = q /\ (q * d + t) % d = t
OBVIOUS

(* ... and every natural can be written that way. *)
LEMMA Division ==
  ASSUME NEW a \in Nat, NEW d \in Nat \ {0}
  PROVE  \E q \in Nat, t \in 0 .. d - 1 : a = q * d + t
<1> DEFINE T == {x \in Nat : \E q \in Nat : a = q * d + x}
<1>1. T \subseteq Nat /\ T # {}
  <2>1. a = 0 * d + a
    OBVIOUS
  <2> QED
    BY <2>1
<1>2. PICK m \in T : \A x \in T : m <= x
  <2> HIDE DEF T
  <2> QED
    BY <1>1, LeastNatural
<1>3. PICK q \in Nat : a = q * d + m
  BY <1>2
<1>4. ASSUME m >= d PROVE FALSE
  <2>1. m - d \in Nat /\ q + 1 \in Nat
    BY <1>2, <1>4
  <2>2. (q + 1) * d = q * d + d /\ q * d \in Nat
    OBVIOUS
  <2>3. a = (q + 1) * d + (m - d)
    BY <1>2, <1>3, <2>2
  <2>4. m - d \in T
    BY <2>1, <2>3
  <2>5. m <= m - d
    BY <1>2, <2>4
  <2> QED
    BY <1>2, <2>5
<1> QED
  BY <1>2, <1>3, <1>4

(* Whole segments come out of a division whole. *)
LEMMA DivideSegments ==
  ASSUME NEW c \in Nat, NEW a \in Nat, NEW d \in Nat \ {0}
  PROVE  /\ (c * d + a) \div d = c + (a \div d)
         /\ a \div d \in Nat /\ (a \div d) * d <= a /\ (a \div d) * d \in Nat
         /\ c * d \in Nat
<1>1. PICK q \in Nat, t \in 0 .. d - 1 : a = q * d + t
  BY Division
<1>2. a \div d = q
  BY <1>1, QuotientIs
<1>3. c * d \in Nat /\ q * d \in Nat /\ (c + q) * d = c * d + q * d
  OBVIOUS
<1>4. c + q \in Nat /\ (c + q) * d + t = c * d + a
  BY <1>1, <1>3
<1>5. ((c + q) * d + t) \div d = c + q
  BY <1>4, QuotientIs
<1> QED
  BY <1>1, <1>2, <1>3, <1>4, <1>5

-----------------------------------------------------------------------------
(* The sum over the domains *)

\* One step of the sum over a set of domains: MapThenSumSet takes one of them out.
First(s) == CHOOSE x \in s : TRUE
Step(s, g) == IF s = {} THEN 0
              ELSE (Cardinality(First(s)) \div SegmentLen) + g[s \ {First(s)}]
Sums(D, g) == g = [s \in SUBSET D |-> Step(s, g)]

(* The feasibility test is such a sum. *)
LEMMA FeasibilityIsSum ==
  ASSUME NEW A, NEW ws
  PROVE  CanMeetSegmentConstraint(A, ws)
           <=> (CHOOSE g : Sums(DomainsOf(A), g))[DomainsOf(A)] >= ws \div SegmentLen
BY DEF CanMeetSegmentConstraint, MapThenSumSet, MapThenFoldSet, Step, First, Sums

(* Seats in whole segments, domain by domain, are counted by the sum. *)
LEMMA SumCountsSeats ==
  ASSUME NEW D, IsFiniteSet(D), NEW T,
         \A d \in D : /\ IsFiniteSet(d) /\ IsFiniteSet(T[d])
                      /\ Cardinality(T[d]) = (Cardinality(d) \div SegmentLen) * SegmentLen,
         \A d, e \in D : d # e => T[d] \cap T[e] = {}
  PROVE  LET sum == (CHOOSE g : Sums(D, g))[D]
         IN  sum \in Nat /\ sum * SegmentLen = Cardinality(UNION {T[d] : d \in D})
<1> DEFINE U(s) == UNION {T[d] : d \in s}
           L == SegmentLen
           whole(d) == Cardinality(d) \div L
           n(s) == Cardinality(U(s))
<1>1. L \in Nat \ {0}
  BY SegmentIsPositive
<1>2. \A d \in D : whole(d) \in Nat /\ Cardinality(T[d]) = whole(d) * L
  BY <1>1, FS_CardinalityType, DivideSegments
<1>3. ASSUME NEW s \in SUBSET D PROVE IsFiniteSet(U(s)) /\ n(s) \in Nat
  <2>1. IsFiniteSet(s)
    BY FS_Subset
  <2>2. IsFiniteSet({T[d] : d \in s})
    BY <2>1, FiniteImage
  <2>3. \A t \in {T[d] : d \in s} : IsFiniteSet(t)
    OBVIOUS
  <2>4. IsFiniteSet(U(s))
    BY <2>2, <2>3, FS_UNION
  <2> QED
    BY <2>4, FS_CardinalityType
<1>4. ASSUME NEW s \in SUBSET D, NEW x \in s
      PROVE  n(s) = whole(x) * L + n(s \ {x})
  <2>1. s \ {x} \in SUBSET D /\ x \in D
    OBVIOUS
  <2>2. U(s) = T[x] \cup U(s \ {x})
    OBVIOUS
  <2>3. T[x] \cap U(s \ {x}) = {}
    BY <2>1
  <2>4. IsFiniteSet(T[x]) /\ IsFiniteSet(U(s \ {x})) /\ n(s \ {x}) \in Nat
    BY <2>1, <1>3
  <2>5. Cardinality(T[x] \cup U(s \ {x}))
          = Cardinality(T[x]) + Cardinality(U(s \ {x})) - Cardinality(T[x] \cap U(s \ {x}))
    <3> HIDE DEF U
    <3> QED
      BY <2>4, FS_Union
  <2>6. Cardinality(T[x] \cap U(s \ {x})) = 0
    BY <2>3, FS_EmptySet
  <2>7. Cardinality(T[x]) = whole(x) * L /\ whole(x) * L \in Nat
    BY <2>1, <1>1, <1>2
  <2>8. Cardinality(U(s)) = Cardinality(T[x] \cup U(s \ {x}))
    BY <2>2
  <2> HIDE DEF U, whole
  <2> QED
    BY <2>4, <2>5, <2>6, <2>7, <2>8
<1>5. n({}) = 0
  <2>1. U({}) = {}
    OBVIOUS
  <2> QED
    BY <2>1, FS_EmptySet
<1>6. \A s \in SUBSET D : s # {} =>
        /\ First(s) \in s /\ First(s) \in D
        /\ s \ {First(s)} \in SUBSET D
        /\ Cardinality(s \ {First(s)}) \in Nat
        /\ Cardinality(s) \in Nat
        /\ Cardinality(s \ {First(s)}) < Cardinality(s)
  <2> SUFFICES ASSUME NEW s \in SUBSET D, s # {}
               PROVE  /\ First(s) \in s /\ First(s) \in D
                      /\ s \ {First(s)} \in SUBSET D
                      /\ Cardinality(s \ {First(s)}) \in Nat
                      /\ Cardinality(s) \in Nat
                      /\ Cardinality(s \ {First(s)}) < Cardinality(s)
    OBVIOUS
  <2>1. First(s) \in s
    BY DEF First
  <2>2. IsFiniteSet(s) /\ Cardinality(s) \in Nat
    BY FS_Subset, FS_CardinalityType
  <2>3. /\ IsFiniteSet(s \ {First(s)})
        /\ Cardinality(s \ {First(s)}) = Cardinality(s) - 1
    BY <2>1, <2>2, FS_RemoveElement
  <2>4. Cardinality(s \ {First(s)}) \in Nat
    BY <2>3, FS_CardinalityType
  <2> QED
    BY <2>1, <2>2, <2>3, <2>4
<1>7. \E g : Sums(D, g)
  <2> DEFINE h == [s \in SUBSET D |-> n(s) \div L]
  <2>1. ASSUME NEW s \in SUBSET D PROVE h[s] = Step(s, h)
    <3>1. CASE s = {}
      <4>1. n(s) = 0
        BY <3>1, <1>5
      <4>2. n(s) \div L = 0
        BY <4>1, <1>1
      <4> QED
        BY <3>1, <4>2 DEF Step
    <3>2. CASE s # {}
      <4> DEFINE x == First(s)
      <4>1. x \in s /\ x \in D /\ s \ {x} \in SUBSET D
        BY <3>2, <1>6
      <4>2. n(s) = whole(x) * L + n(s \ {x})
        BY <4>1, <1>4
      <4>3. whole(x) \in Nat /\ n(s \ {x}) \in Nat
        BY <4>1, <1>2, <1>3
      <4>4. (whole(x) * L + n(s \ {x})) \div L = whole(x) + (n(s \ {x}) \div L)
        <5> HIDE DEF whole, n, L
        <5> QED
          BY <4>3, <1>1, DivideSegments
      <4>5. h[s] = whole(x) + h[s \ {x}]
        BY <4>1, <4>2, <4>4
      <4> QED
        BY <3>2, <4>5 DEF Step
    <3> QED
      BY <3>1, <3>2
  <2>2. h = [s \in SUBSET D |-> Step(s, h)]
    <3>1. h = [s \in SUBSET D |-> h[s]]
      OBVIOUS
    <3> HIDE DEF h
    <3> QED
      BY <2>1, <3>1
  <2> HIDE DEF h
  <2> QED
    BY <2>2 DEF Sums
<1>8. PICK g : g = (CHOOSE f : Sums(D, f)) /\ Sums(D, g)
  BY <1>7
<1>9. \A s \in SUBSET D : g[s] = Step(s, g)
  BY <1>8 DEF Sums
<1>10. \A s \in SUBSET D : g[s] \in Nat /\ g[s] * L = n(s)
  <2> DEFINE Bad == {s \in SUBSET D : ~(g[s] \in Nat /\ g[s] * L = n(s))}
             Sizes == {k \in Nat : \E s \in Bad : k = Cardinality(s)}
  <2> SUFFICES ASSUME Bad # {} PROVE FALSE
    OBVIOUS
  <2>1. \A s \in SUBSET D : Cardinality(s) \in Nat
    BY FS_Subset, FS_CardinalityType
  <2>2. Sizes \subseteq Nat /\ Sizes # {}
    BY <2>1
  <2>3. PICK m \in Sizes : \A k \in Sizes : m <= k
    <3> HIDE DEF Sizes
    <3> QED
      BY <2>2, LeastNatural
  <2>4. PICK s \in Bad : m = Cardinality(s)
    BY <2>3
  <2>5. s \in SUBSET D /\ ~(g[s] \in Nat /\ g[s] * L = n(s))
    BY <2>4
  <2> HIDE DEF n, whole
  <2>6. CASE s = {}
    <3>1. g[s] = 0
      BY <2>5, <2>6, <1>9 DEF Step
    <3> QED
      BY <2>5, <2>6, <3>1, <1>1, <1>5
  <2>7. CASE s # {}
    <3>1. PICK x : x = First(s)
      OBVIOUS
    <3>2. PICK r : r = s \ {x}
      OBVIOUS
    <3>3. /\ x \in s /\ x \in D /\ r \in SUBSET D
          /\ Cardinality(r) \in Nat /\ Cardinality(r) < Cardinality(s)
      BY <2>5, <2>7, <3>1, <3>2, <1>6
    <3>4. r \notin Bad
      <4> SUFFICES ASSUME r \in Bad PROVE FALSE
        OBVIOUS
      <4>1. Cardinality(r) \in Sizes
        BY <3>3
      <4>2. m <= Cardinality(r) /\ m \in Nat
        BY <4>1, <2>3
      <4> QED
        BY <4>2, <3>3, <2>4
    <3>5. g[r] \in Nat /\ g[r] * L = n(r)
      BY <3>3, <3>4
    <3>6. g[s] = whole(x) + g[r]
      BY <2>5, <2>7, <3>1, <3>2, <1>9 DEF Step, whole
    <3>7. n(s) = whole(x) * L + n(r) /\ whole(x) \in Nat
      BY <2>5, <3>2, <3>3, <1>2, <1>4
    <3>8. (whole(x) + g[r]) * L = whole(x) * L + g[r] * L
      BY <3>5, <3>7, <1>1
    <3> QED
      BY <2>5, <3>5, <3>6, <3>7, <3>8
  <2> QED
    BY <2>6, <2>7
<1>11. D \in SUBSET D
  OBVIOUS
<1> QED
  BY <1>8, <1>10, <1>11

\* The pairs of participants in the order of their ranks.
RankOrder(P) == {pr \in P \X P : SortKey(P, pr[1]) < SortKey(P, pr[2])}

(* It is a strict order: the sort keys of different participants differ. *)
LEMMA RankOrderIsOrder ==
  ASSUME NEW P, Rankable(P), NEW A, A \subseteq P
  PROVE  /\ \A p, q \in P : <<p, q>> \in RankOrder(P) <=> SortKey(P, p) < SortKey(P, q)
         /\ StrictOrder(A, RankOrder(P))
<1>1. \A p, q \in P : <<p, q>> \in RankOrder(P) <=> SortKey(P, p) < SortKey(P, q)
  BY DEF RankOrder
<1>2. \A p \in A : SortKey(P, p) \in Int
  BY KeysDiffer
<1>3. \A p, q \in A : p # q => SortKey(P, p) # SortKey(P, q)
  BY KeysDiffer
<1>4. \A p, q \in A : <<p, q>> \in RankOrder(P) <=> SortKey(P, p) < SortKey(P, q)
  BY <1>1
<1> QED
  BY <1>1, <1>2, <1>3, <1>4 DEF StrictOrder

(* Of each domain the whole segments are seated. *)
LEMMA SeatsOfDomain ==
  ASSUME NEW P, Rankable(P), NEW A, A \subseteq P, NEW d \in DomainsOf(A)
  PROVE  /\ d \subseteq A /\ IsFiniteSet(d)
         /\ Cardinality(d \cap Seated(P, A)) = (Cardinality(d) \div SegmentLen) * SegmentLen
<1>1. PICK p \in A : d = DomainOf(A, p)
  BY DEF DomainsOf, DomainOf
<1>2. d \subseteq A /\ IsFiniteSet(d) /\ Cardinality(d) \in Nat
  <2>1. IsFiniteSet(P) /\ d \in SUBSET P /\ d \subseteq A
    BY <1>1 DEF Rankable, DomainOf
  <2>2. IsFiniteSet(d)
    BY <2>1, FS_Subset
  <2> QED
    BY <2>1, <2>2, FS_CardinalityType
<1> DEFINE m == (Cardinality(d) \div SegmentLen) * SegmentLen
           R == RankOrder(P)
<1>3. m \in Nat /\ m <= Cardinality(d)
  <2>1. SegmentLen \in Nat \ {0}
    BY SegmentIsPositive
  <2> QED
    BY <1>2, <2>1, DivideSegments
<1>4. ASSUME NEW q \in d PROVE q \in Seated(P, A) <=> Cardinality(Below(d, R, q)) < m
  <2>1. q \in A /\ SameDomain(p, q)
    BY <1>1 DEF DomainOf
  <2>2. {r \in A : SameDomain(q, r)} = d
    BY <1>1, <2>1, DomainsPartition DEF DomainOf
  <2>3. EarlierInDomain(P, A, q) = Below(d, R, q)
    <3>1. \A r : r \in d <=> r \in A /\ SameDomain(q, r)
      BY <2>2
    <3>2. \A r \in d : <<r, q>> \in R <=> SortKey(P, r) < SortKey(P, q)
      BY <1>2, <2>1, RankOrderIsOrder
    <3>3. \A r : r \in EarlierInDomain(P, A, q) <=> r \in Below(d, R, q)
      BY <3>1, <3>2 DEF EarlierInDomain, Below
    <3> QED
      BY <3>3
  <2>4. SegmentsOf(A, q) * SegmentLen = m
    BY <2>2 DEF SegmentsOf
  <2> QED
    BY <2>1, <2>3, <2>4 DEF Seated
<1>5. StrictOrder(d, R)
  BY <1>2, RankOrderIsOrder
<1>6. Cardinality({q \in d : Cardinality(Below(d, R, q)) < m}) = m
  <2> HIDE DEF m, R
  <2> QED
    BY <1>2, <1>3, <1>5, FirstOnes
<1>7. d \cap Seated(P, A) = {q \in d : Cardinality(Below(d, R, q)) < m}
  BY <1>4
<1> QED
  BY <1>2, <1>6, <1>7

(* Two different domains have no participant in common, and every candidate is in one. *)
LEMMA DomainsAreApart ==
  ASSUME NEW A
  PROVE  /\ \A d, e \in DomainsOf(A) : d # e => d \cap e = {}
         /\ \A p \in A : \E d \in DomainsOf(A) : p \in d
<1>1. ASSUME NEW d \in DomainsOf(A), NEW e \in DomainsOf(A), NEW x \in d \cap e PROVE d = e
  <2>1. PICK p \in A : d = {q \in A : SameDomain(p, q)}
    BY DEF DomainsOf
  <2>2. PICK r \in A : e = {q \in A : SameDomain(r, q)}
    BY DEF DomainsOf
  <2>3. SameDomain(p, x) /\ SameDomain(r, x)
    BY <2>1, <2>2
  <2>4. \A q \in A : SameDomain(p, q) <=> SameDomain(r, q)
    BY <2>3, DomainsPartition
  <2> QED
    BY <2>1, <2>2, <2>4
<1>2. ASSUME NEW p \in A PROVE \E d \in DomainsOf(A) : p \in d
  <2>1. p \in {q \in A : SameDomain(p, q)}
    BY DomainsPartition
  <2> QED
    BY <2>1 DEF DomainsOf
<1> QED
  BY <1>1, <1>2

(* The test adds up the segments of the seated participants. *)
LEMMA SeatsAreSum ==
  ASSUME NEW P, Rankable(P), NEW A, A \subseteq P
  PROVE  /\ IsFiniteSet(Seated(P, A))
         /\ \E sum \in Nat :
               /\ sum * SegmentLen = Cardinality(Seated(P, A))
               /\ \A ws : CanMeetSegmentConstraint(A, ws) <=> sum >= ws \div SegmentLen
<1> DEFINE D == DomainsOf(A)
           T == [d \in D |-> d \cap Seated(P, A)]
           sum == (CHOOSE g : Sums(D, g))[D]
<1>1. IsFiniteSet(A) /\ IsFiniteSet(Seated(P, A))
  <2>1. Seated(P, A) \in SUBSET A
    BY DEF Seated
  <2>2. IsFiniteSet(A)
    BY FS_Subset DEF Rankable
  <2> QED
    BY <2>1, <2>2, FS_Subset
<1>2. IsFiniteSet(D)
  <2> DEFINE f == [p \in A |-> {q \in A : SameDomain(p, q)}]
  <2>1. D = {f[p] : p \in A}
    BY DEF DomainsOf
  <2>2. IsFiniteSet({f[p] : p \in A})
    <3> HIDE DEF f
    <3> QED
      BY <1>1, FiniteImage
  <2> QED
    BY <2>1, <2>2
<1>3. \A d \in D : /\ IsFiniteSet(d) /\ IsFiniteSet(T[d])
                   /\ Cardinality(T[d]) = (Cardinality(d) \div SegmentLen) * SegmentLen
  <2> SUFFICES ASSUME NEW d \in D
               PROVE  /\ IsFiniteSet(d) /\ IsFiniteSet(T[d])
                      /\ Cardinality(T[d]) = (Cardinality(d) \div SegmentLen) * SegmentLen
    OBVIOUS
  <2>1. T[d] = d \cap Seated(P, A)
    OBVIOUS
  <2>2. /\ IsFiniteSet(d)
        /\ Cardinality(d \cap Seated(P, A)) = (Cardinality(d) \div SegmentLen) * SegmentLen
    BY SeatsOfDomain
  <2>3. IsFiniteSet(d \cap Seated(P, A))
    BY <2>2, FS_Intersection
  <2> QED
    BY <2>1, <2>2, <2>3
<1>4. \A d, e \in D : d # e => T[d] \cap T[e] = {}
  <2>1. \A d, e \in D : d # e => d \cap e = {}
    BY DomainsAreApart
  <2> QED
    BY <2>1
<1>5. UNION {T[d] : d \in D} = Seated(P, A)
  <2>1. Seated(P, A) \subseteq A
    BY DEF Seated
  <2>2. \A p \in Seated(P, A) : \E d \in D : p \in T[d]
    BY <2>1, DomainsAreApart
  <2> QED
    BY <2>2
<1>6. sum \in Nat /\ sum * SegmentLen = Cardinality(Seated(P, A))
  <2>1. sum \in Nat /\ sum * SegmentLen = Cardinality(UNION {T[d] : d \in D})
    <3> HIDE DEF D, T
    <3> QED
      BY <1>2, <1>3, <1>4, SumCountsSeats
  <2> QED
    BY <2>1, <1>5
<1>7. \A ws : CanMeetSegmentConstraint(A, ws) <=> sum >= ws \div SegmentLen
  BY FeasibilityIsSum
<1> HIDE DEF sum
<1> QED
  BY <1>1, <1>6, <1>7

(* A world size is a number of whole segments. *)
LEMMA WholeSegments ==
  ASSUME NEW ws \in Nat, ws % SegmentLen = 0
  PROVE  \E w \in Nat : ws = w * SegmentLen /\ ws \div SegmentLen = w
<1>1. SegmentLen \in Nat \ {0}
  BY SegmentIsPositive
<1>2. PICK q \in Nat, t \in 0 .. SegmentLen - 1 : ws = q * SegmentLen + t
  BY <1>1, Division
<1>3. ws \div SegmentLen = q /\ ws % SegmentLen = t
  BY <1>1, <1>2, QuotientIs
<1>4. t = 0 /\ q * SegmentLen \in Nat
  BY <1>1, <1>3
<1>5. ws = q * SegmentLen
  BY <1>2, <1>4
<1> QED
  BY <1>3, <1>5

(* Whole segments: multiplication keeps the order. *)
LEMMA Scale ==
  ASSUME NEW a \in Nat, NEW b \in Nat, NEW d \in Nat
  PROVE  /\ a * d \in Nat /\ b * d \in Nat
         /\ (a + b) * d = a * d + b * d
         /\ a <= b => a * d <= b * d /\ (b - a) * d = b * d - a * d
<1>1. a * d \in Nat /\ b * d \in Nat /\ (a + b) * d = a * d + b * d
  OBVIOUS
<1>2. ASSUME a <= b PROVE a * d <= b * d /\ (b - a) * d = b * d - a * d
  <2>1. PICK e \in Nat : b = a + e
    <3>1. b - a \in Nat /\ b = a + (b - a)
      BY <1>2
    <3> QED
      BY <3>1
  <2>2. (a + e) * d = a * d + e * d /\ e * d \in Nat
    OBVIOUS
  <2>3. b - a = e
    BY <2>1
  <2> QED
    BY <1>1, <2>1, <2>2, <2>3
<1> QED
  BY <1>1, <1>2

(* A world that the domains can fill has as many seats as it needs. *)
LEMMA EnoughSeats ==
  ASSUME NEW P, Rankable(P), NEW A, A \subseteq P, NEW ws \in Nat,
         ws % SegmentLen = 0, CanMeetSegmentConstraint(A, ws)
  PROVE  IsFiniteSet(Seated(P, A)) /\ ws <= Cardinality(Seated(P, A))
<1>1. PICK sum \in Nat : /\ sum * SegmentLen = Cardinality(Seated(P, A))
                        /\ sum >= ws \div SegmentLen
  BY SeatsAreSum
<1>2. PICK w \in Nat : ws = w * SegmentLen /\ ws \div SegmentLen = w
  BY WholeSegments
<1>3. w * SegmentLen <= sum * SegmentLen
  BY <1>1, <1>2, SegmentIsPositive, Scale
<1> QED
  BY <1>1, <1>2, <1>3, SeatsAreSum

-----------------------------------------------------------------------------
\* Each rank below the world size is that of one candidate, and of nobody else.
FillsTheWorld(A, S, ranks, ws) ==
    /\ \A p \in A \cup S : ranks[p] \in Nat /\ (ranks[p] < ws => p \in A)
    /\ \A p, q \in A \cup S : p # q /\ ranks[p] < ws /\ ranks[q] < ws => ranks[p] # ranks[q]
    /\ \A i \in Nat : i < ws => \E p \in A : ranks[p] = i

(* assign_group_ranks fills the world, for any participants that can be ranked and
   whose domains hold segments enough. *)
THEOREM RanksFillTheWorld ==
  ASSUME NEW A, NEW S, Rankable(A \cup S), NEW ws \in Nat,
         ws % SegmentLen = 0, CanMeetSegmentConstraint(A, ws)
  PROVE  FillsTheWorld(A, S, AssignGroupRanks(A, S, ws), ws)
<1> DEFINE P == A \cup S
           ranks == AssignGroupRanks(A, S, ws)
           D == Seated(P, A)
           R == Visiting(P, A)
           active == ActiveSet(P, A, ws)
           spare == A \ active
<1>1. IsFiniteSet(D) /\ ws <= Cardinality(D) /\ D \subseteq A
  BY EnoughSeats DEF Seated
<1>2. StrictOrder(D, R)
  <2>1. StrictOrder(A, R)
    BY VisitingIsOrder
  <2> QED
    BY <1>1, <2>1 DEF StrictOrder
<1>3. \A p \in A : SeatedBefore(P, A, p) = Below(D, R, p)
  BY <1>1 DEF SeatedBefore, Below, Visiting
<1>4. active = {p \in D : Cardinality(Below(D, R, p)) < ws}
  BY <1>1, <1>3 DEF ActiveSet
<1>5. /\ \A p, q \in D : p # q => Cardinality(Below(D, R, p)) # Cardinality(Below(D, R, q))
      /\ \A i \in Nat : i < ws => \E p \in D : Cardinality(Below(D, R, p)) = i
  <2>1. Cardinality(D) \in Nat
    BY <1>1, FS_CardinalityType
  <2> HIDE DEF D, R
  <2> QED
    BY <1>1, <1>2, <2>1, Numbering
<1>6. \A p \in D : Cardinality(Below(D, R, p)) \in Nat
  <2> HIDE DEF D, R
  <2> QED
    BY <1>1, <1>2, BelowGrows
<1>7. \A p \in active : p \in A /\ ranks[p] = Cardinality(Below(D, R, p)) /\ ranks[p] \in Nat
  <2>1. \A p \in active : p \in P /\ p \in A /\ p \in D
    BY <1>1, <1>4
  <2>2. \A p \in active : ranks[p] = Cardinality(SeatedBefore(P, A, p))
    BY <2>1 DEF AssignGroupRanks
  <2> QED
    BY <1>3, <1>6, <2>1, <2>2
<1>8. ASSUME NEW p \in P, p \notin active PROVE ranks[p] \in Nat /\ ranks[p] >= ws
  <2>1. IsFiniteSet(A) /\ IsFiniteSet(S)
    <3>1. IsFiniteSet(P) /\ A \in SUBSET P /\ S \in SUBSET P
      BY DEF Rankable
    <3> QED
      BY <3>1, FS_Subset
  <2>2. IsFiniteSet(spare) /\ Cardinality(spare) \in Nat
    BY <2>1, FS_Difference, FS_CardinalityType
  <2>3. Cardinality({q \in spare : Before(P, A, q, p)}) \in Nat
    <3>1. {q \in spare : Before(P, A, q, p)} \in SUBSET spare
      OBVIOUS
    <3> HIDE DEF spare
    <3> QED
      BY <2>2, <3>1, FS_Subset, FS_CardinalityType
  <2>4. Cardinality({q \in S : SortKey(P, q) < SortKey(P, p)}) \in Nat
    <3>1. {q \in S : SortKey(P, q) < SortKey(P, p)} \in SUBSET S
      OBVIOUS
    <3> QED
      BY <2>1, <3>1, FS_Subset, FS_CardinalityType
  <2>5. ranks[p] = IF p \in A THEN ws + Cardinality({q \in spare : Before(P, A, q, p)})
                   ELSE ws + Cardinality(spare)
                        + Cardinality({q \in S : SortKey(P, q) < SortKey(P, p)})
    BY <1>8 DEF AssignGroupRanks
  <2> HIDE DEF ranks, spare, P, active
  <2> QED
    BY <2>2, <2>3, <2>4, <2>5
<1> HIDE DEF ranks, active, D, R
<1>9. \A p \in P : ranks[p] \in Nat /\ (ranks[p] < ws => p \in active)
  <2> SUFFICES ASSUME NEW p \in P PROVE ranks[p] \in Nat /\ (ranks[p] < ws => p \in active)
    OBVIOUS
  <2> QED
    BY <1>7, <1>8
<1>10. \A p, q \in P : p # q /\ ranks[p] < ws /\ ranks[q] < ws => ranks[p] # ranks[q]
  BY <1>4, <1>5, <1>7, <1>9
<1>11. \A i \in Nat : i < ws => \E p \in A : ranks[p] = i
  <2> SUFFICES ASSUME NEW i \in Nat, i < ws PROVE \E p \in A : ranks[p] = i
    OBVIOUS
  <2>1. PICK p \in D : Cardinality(Below(D, R, p)) = i
    BY <1>5
  <2>2. p \in active
    BY <1>4, <2>1
  <2> QED
    BY <1>7, <2>1, <2>2
<1>12. \A p \in P : ranks[p] < ws => p \in A
  BY <1>7, <1>9
<1>13. ranks = AssignGroupRanks(A, S, ws)
  BY DEF ranks
<1> QED
  BY <1>9, <1>10, <1>11, <1>12, <1>13 DEF FillsTheWorld

-----------------------------------------------------------------------------
(* The loop: its order, its locals after each domain, its result *)

(* Sorted lists every element of a finite set once, from the smallest key on. *)
LEMMA SortedIs ==
  ASSUME NEW D, IsFiniteSet(D), NEW key, \A p \in D : key[p] \in Int,
         \A p, q \in D : p # q => key[p] # key[q]
  PROVE  LET s == Sorted(D, key)
             n == Cardinality(D)
         IN  /\ n \in Nat /\ DOMAIN s = 1 .. n /\ Len(s) = n
             /\ \A i \in 1 .. n : s[i] \in D
             /\ \A i \in 1 .. n : Cardinality({q \in D : key[q] < key[s[i]]}) = i - 1
             /\ \A p \in D : \E i \in 1 .. n : s[i] = p
             /\ \A i, j \in 1 .. n : key[s[i]] < key[s[j]] <=> i < j
             /\ \A i, j \in 1 .. n : s[i] = s[j] => i = j
<1> DEFINE n == Cardinality(D)
           R == {pr \in D \X D : key[pr[1]] < key[pr[2]]}
           s == Sorted(D, key)
<1>1. n \in Nat
  BY FS_CardinalityType
<1>2. \A p, q \in D : <<p, q>> \in R <=> key[p] < key[q]
  OBVIOUS
<1>3. \A p \in D : {q \in D : key[q] < key[p]} = Below(D, R, p)
  BY <1>2 DEF Below
<1> HIDE DEF R
<1>4. StrictOrder(D, R)
  <2>1. \A p \in D : ~(<<p, p>> \in R)
    BY <1>2
  <2>2. \A p, q, r \in D : <<p, q>> \in R /\ <<q, r>> \in R => <<p, r>> \in R
    BY <1>2
  <2>3. \A p, q \in D : p # q => <<p, q>> \in R \/ <<q, p>> \in R
    BY <1>2
  <2> QED
    BY <2>1, <2>2, <2>3 DEF StrictOrder
<1>5. DOMAIN s = 1 .. n /\ Len(s) = n
  BY <1>1 DEF Sorted
<1>6. ASSUME NEW i \in 1 .. n
      PROVE  s[i] \in D /\ Cardinality({q \in D : key[q] < key[s[i]]}) = i - 1
  <2>1. i - 1 \in Nat /\ i - 1 < n
    BY <1>1
  <2>2. \E p \in D : Cardinality(Below(D, R, p)) = i - 1
    BY <1>4, <2>1, Numbering
  <2>3. \E p \in D : Cardinality({q \in D : key[q] < key[p]}) = i - 1
    BY <2>2, <1>3
  <2>4. s[i] = CHOOSE p \in D : Cardinality({q \in D : key[q] < key[p]}) = i - 1
    BY DEF Sorted
  <2> QED
    BY <2>3, <2>4
<1> HIDE DEF s
<1>7. ASSUME NEW p \in D PROVE \E i \in 1 .. n : s[i] = p
  <2>1. Cardinality(Below(D, R, p)) \in Nat /\ Cardinality(Below(D, R, p)) < n
    BY <1>4, BelowGrows
  <2>2. PICK i \in 1 .. n : i = Cardinality(Below(D, R, p)) + 1
    BY <2>1, <1>1
  <2>3. s[i] \in D /\ Cardinality(Below(D, R, s[i])) = Cardinality(Below(D, R, p))
    <3>1. s[i] \in D /\ Cardinality(Below(D, R, s[i])) = i - 1
      BY <1>3, <1>6
    <3> QED
      BY <3>1, <2>1, <2>2
  <2>4. s[i] = p
    BY <2>3, <1>4, Numbering
  <2> QED
    BY <2>4
<1>8. ASSUME NEW i \in 1 .. n, NEW j \in 1 .. n, key[s[i]] < key[s[j]] PROVE i < j
  <2>1. s[i] \in D /\ s[j] \in D /\ <<s[i], s[j]>> \in R
    BY <1>2, <1>6, <1>8
  <2>2. Cardinality(Below(D, R, s[i])) < Cardinality(Below(D, R, s[j]))
    BY <2>1, <1>4, BelowGrows
  <2>3. Cardinality(Below(D, R, s[i])) = i - 1 /\ Cardinality(Below(D, R, s[j])) = j - 1
    BY <2>1, <1>3, <1>6
  <2> QED
    BY <2>2, <2>3
<1>9. ASSUME NEW i \in 1 .. n, NEW j \in 1 .. n, s[i] = s[j] PROVE i = j
  <2>1. i - 1 = j - 1
    BY <1>6, <1>9
  <2> QED
    BY <2>1
<1>10. ASSUME NEW i \in 1 .. n, NEW j \in 1 .. n, i < j PROVE key[s[i]] < key[s[j]]
  <2>1. s[i] # s[j]
    BY <1>9, <1>10
  <2>2. /\ key[s[i]] \in Int /\ key[s[j]] \in Int /\ key[s[i]] # key[s[j]]
    BY <2>1, <1>6
  <2>3. ~(key[s[j]] < key[s[i]])
    BY <1>8, <1>10
  <2> QED
    BY <2>2, <2>3
<1> QED
  BY <1>1, <1>5, <1>6, <1>7, <1>8, <1>9, <1>10 DEF s

\* The sort keys as a function, and the key of a domain: that of its first participant.
Keys(P) == [p \in P |-> SortKey(P, p)]
FirstKeys(P, A) == [d \in DomainsOf(A) |-> Min({Keys(P)[p] : p \in d})]

\* The domains in the order of the loop, and the participants of the first k of them.
DomainAt(P, A) == Sorted(DomainsOf(A), FirstKeys(P, A))
Visited(P, A, k) == UNION {DomainAt(P, A)[i] : i \in 1 .. k}

(* The candidates have finitely many domains. *)
LEMMA FiniteDomains ==
  ASSUME NEW A, IsFiniteSet(A)
  PROVE  IsFiniteSet(DomainsOf(A)) /\ Cardinality(DomainsOf(A)) \in Nat
<1> DEFINE f == [p \in A |-> {q \in A : SameDomain(p, q)}]
<1>1. DomainsOf(A) = {f[p] : p \in A}
  BY DEF DomainsOf
<1>2. IsFiniteSet({f[p] : p \in A})
  <2> HIDE DEF f
  <2> QED
    BY FiniteImage
<1> QED
  BY <1>1, <1>2, FS_CardinalityType

(* A domain is the participants that are in one domain with any of its members. *)
LEMMA DomainMembers ==
  ASSUME NEW A, NEW d \in DomainsOf(A), NEW p \in d
  PROVE  /\ d \subseteq A
         /\ \A q \in A : q \in d <=> SameDomain(p, q)
         /\ \A q \in A : q \in d <=> SameDomain(q, p)
<1>1. PICK r \in A : d = {q \in A : SameDomain(r, q)}
  BY DEF DomainsOf
<1>2. SameDomain(r, p)
  BY <1>1
<1>3. \A q \in A : q \in d <=> SameDomain(p, q)
  BY <1>1, <1>2, DomainsPartition
<1> QED
  BY <1>1, <1>3, DomainsPartition

(* The key of a domain is DomainKey of its members; different domains have
   different ones. *)
LEMMA FirstKeysAre ==
  ASSUME NEW P, Rankable(P), NEW A, A \subseteq P
  PROVE  /\ \A d \in DomainsOf(A) : \A p \in d : FirstKeys(P, A)[d] = DomainKey(P, A, p)
         /\ \A d \in DomainsOf(A) : FirstKeys(P, A)[d] \in Int
         /\ \A d, e \in DomainsOf(A) : d # e => FirstKeys(P, A)[d] # FirstKeys(P, A)[e]
<1> DEFINE key == FirstKeys(P, A)
<1>1. ASSUME NEW d \in DomainsOf(A), NEW p \in d PROVE key[d] = DomainKey(P, A, p)
  <2> DEFINE T == {Keys(P)[q] : q \in d}
             k == DomainKey(P, A, p)
  <2>1. p \in A /\ d \subseteq A /\ \A q \in A : q \in d <=> SameDomain(p, q)
    BY DomainMembers
  <2>2. \A q \in d : Keys(P)[q] = SortKey(P, q) /\ SortKey(P, q) \in Int
    BY <2>1, KeysDiffer DEF Keys
  <2>3. k \in T /\ k \in Int
    BY <2>1, <2>2, DomainKeyIsLeast
  <2>4. \A q \in d : k <= SortKey(P, q)
    BY <2>1, DomainKeyIsLeast
  <2>5. \A x \in T : k <= x /\ x \in Int
    BY <2>2, <2>4
  <2>6. key[d] = Min(T)
    BY DEF FirstKeys
  <2> HIDE DEF T, k
  <2>7. Min(T) \in T /\ \A y \in T : Min(T) <= y
    BY <2>3, <2>5 DEF Min
  <2>8. Min(T) = k
    <3>1. Min(T) <= k /\ k <= Min(T) /\ Min(T) \in Int
      BY <2>3, <2>5, <2>7
    <3> QED
      BY <3>1, <2>3
  <2> QED
    BY <2>6, <2>8 DEF k
<1>2. ASSUME NEW d \in DomainsOf(A) PROVE \E p \in A : p \in d
  <2>1. PICK p \in A : d = {q \in A : SameDomain(p, q)}
    BY DEF DomainsOf
  <2> QED
    BY <2>1, DomainsPartition
<1>3. ASSUME NEW d \in DomainsOf(A) PROVE key[d] \in Int
  BY <1>1, <1>2, DomainKeyIsLeast
<1>4. ASSUME NEW d \in DomainsOf(A), NEW e \in DomainsOf(A), d # e PROVE key[d] # key[e]
  <2>1. PICK p \in A : p \in d
    BY <1>2
  <2>2. PICK q \in A : q \in e
    BY <1>2
  <2>3. ~SameDomain(p, q)
    <3>1. q \notin d
      BY <1>4, <2>2, DomainsAreApart
    <3> QED
      BY <3>1, <2>1, DomainMembers
  <2>4. PICK r \in A : SameDomain(p, r) /\ DomainKey(P, A, p) = SortKey(P, r)
    BY DomainKeyIsLeast
  <2>5. PICK t \in A : SameDomain(q, t) /\ DomainKey(P, A, q) = SortKey(P, t)
    BY DomainKeyIsLeast
  <2>6. r # t
    BY <2>3, <2>4, <2>5, DomainsPartition
  <2>7. SortKey(P, r) # SortKey(P, t)
    BY <2>6, KeysDiffer
  <2> QED
    BY <1>1, <2>1, <2>2, <2>4, <2>5, <2>7
<1> QED
  BY <1>1, <1>3, <1>4

(* The loop visits every domain once, in the order of DomainKey. *)
LEMMA VisitsDomains ==
  ASSUME NEW P, Rankable(P), NEW A, A \subseteq P
  PROVE  LET n == Cardinality(DomainsOf(A))
             dom == DomainAt(P, A)
         IN  /\ n \in Nat /\ DOMAIN dom = 1 .. n /\ Len(dom) = n
             /\ \A k \in 1 .. n : dom[k] \in DomainsOf(A)
             /\ \A p \in A : \E k \in 1 .. n : p \in dom[k]
             /\ \A j, k \in 1 .. n : \A p \in dom[j], q \in dom[k] :
                   /\ DomainKey(P, A, p) < DomainKey(P, A, q) <=> j < k
                   /\ p = q => j = k
<1> DEFINE n == Cardinality(DomainsOf(A))
           dom == DomainAt(P, A)
           D == DomainsOf(A)
           key == FirstKeys(P, A)
<1>1. IsFiniteSet(D)
  <2>1. IsFiniteSet(A)
    BY FS_Subset DEF Rankable
  <2> QED
    BY <2>1, FiniteDomains
<1>2. (\A d \in D : key[d] \in Int) /\ (\A d, e \in D : d # e => key[d] # key[e])
  BY FirstKeysAre
<1>3. /\ n \in Nat /\ DOMAIN dom = 1 .. n /\ Len(dom) = n
      /\ \A i \in 1 .. n : dom[i] \in D
      /\ \A p \in D : \E i \in 1 .. n : dom[i] = p
      /\ \A i, j \in 1 .. n : key[dom[i]] < key[dom[j]] <=> i < j
      /\ \A i, j \in 1 .. n : dom[i] = dom[j] => i = j
  <2>1. dom = Sorted(D, key)
    BY DEF DomainAt
  <2> HIDE DEF dom, D, key
  <2> QED
    BY <1>1, <1>2, <2>1, SortedIs DEF D
<1>4. ASSUME NEW p \in A PROVE \E k \in 1 .. n : p \in dom[k]
  BY <1>3, DomainsAreApart
<1>5. ASSUME NEW j \in 1 .. n, NEW k \in 1 .. n, NEW p \in dom[j], NEW q \in dom[k]
      PROVE  /\ DomainKey(P, A, p) < DomainKey(P, A, q) <=> j < k
             /\ p = q => j = k
  <2>1. key[dom[j]] = DomainKey(P, A, p) /\ key[dom[k]] = DomainKey(P, A, q)
    BY <1>3, FirstKeysAre
  <2>2. p = q => dom[j] = dom[k]
    BY <1>3, DomainsAreApart
  <2> QED
    BY <1>3, <2>1, <2>2
<1> QED
  BY <1>3, <1>4, <1>5

(* What has been visited after k domains, and who comes before a participant of
   the next. *)
LEMMA VisitedSoFar ==
  ASSUME NEW P, Rankable(P), NEW A, A \subseteq P
  PROVE  LET n == Cardinality(DomainsOf(A))
             dom == DomainAt(P, A)
         IN  /\ Visited(P, A, 0) = {} /\ Visited(P, A, n) = A
             /\ \A k \in 0 .. n : Visited(P, A, k) \subseteq A /\ IsFiniteSet(Visited(P, A, k))
             /\ \A k \in 1 .. n : /\ dom[k] \subseteq A /\ IsFiniteSet(dom[k])
                                  /\ Visited(P, A, k) = Visited(P, A, k - 1) \cup dom[k]
                                  /\ Visited(P, A, k - 1) \cap dom[k] = {}
             /\ \A k \in 1 .. n : \A p \in dom[k], q \in A :
                   Before(P, A, q, p) <=> \/ q \in Visited(P, A, k - 1)
                                          \/ q \in dom[k] /\ SortKey(P, q) < SortKey(P, p)
<1> DEFINE n == Cardinality(DomainsOf(A))
           dom == DomainAt(P, A)
           V(k) == Visited(P, A, k)
<1>1. /\ n \in Nat
      /\ \A k \in 1 .. n : dom[k] \in DomainsOf(A)
      /\ \A p \in A : \E k \in 1 .. n : p \in dom[k]
      /\ \A j, k \in 1 .. n : \A p \in dom[j], q \in dom[k] :
            /\ DomainKey(P, A, p) < DomainKey(P, A, q) <=> j < k
            /\ p = q => j = k
  BY VisitsDomains
<1>2. IsFiniteSet(A)
  BY FS_Subset DEF Rankable
<1>3. \A k \in 1 .. n : dom[k] \subseteq A /\ IsFiniteSet(dom[k])
  <2>1. \A k \in 1 .. n : dom[k] \subseteq A
    BY <1>1 DEF DomainsOf
  <2> QED
    BY <1>2, <2>1, FS_Subset
<1>4. \A k \in Int : \A p : p \in V(k) <=> \E i \in 1 .. k : p \in dom[i]
  BY DEF Visited
<1> HIDE DEF V, dom, n
<1>5. V(0) = {}
  BY <1>4
<1>6. \A k \in 0 .. n : V(k) \subseteq A /\ IsFiniteSet(V(k))
  <2>1. \A k \in 0 .. n : V(k) \subseteq A
    BY <1>1, <1>3, <1>4
  <2> QED
    BY <1>2, <2>1, FS_Subset
<1>7. V(n) = A
  BY <1>1, <1>4, <1>6
<1>8. ASSUME NEW k \in 1 .. n
      PROVE  V(k) = V(k - 1) \cup dom[k] /\ V(k - 1) \cap dom[k] = {}
  <2>1. \A i \in 1 .. k : i \in 1 .. k - 1 \/ i = k
    BY <1>1
  <2>2. V(k) = V(k - 1) \cup dom[k]
    BY <1>1, <1>4, <2>1
  <2>3. ASSUME NEW p \in V(k - 1), p \in dom[k] PROVE FALSE
    <3>1. PICK i \in 1 .. k - 1 : p \in dom[i]
      BY <1>1, <1>4
    <3>2. i \in 1 .. n /\ i # k
      BY <1>1
    <3> QED
      BY <1>1, <2>3, <3>1, <3>2
  <2> QED
    BY <2>2, <2>3
<1>9. ASSUME NEW k \in 1 .. n, NEW p \in dom[k], NEW q \in A
      PROVE  Before(P, A, q, p) <=> \/ q \in V(k - 1)
                                    \/ q \in dom[k] /\ SortKey(P, q) < SortKey(P, p)
  <2>1. PICK j \in 1 .. n : q \in dom[j]
    BY <1>1
  <2>2. q \in dom[k] <=> SameDomain(q, p)
    BY <1>1, DomainMembers
  <2>3. DomainKey(P, A, q) < DomainKey(P, A, p) <=> j < k
    BY <1>1, <2>1
  <2>4. j < k <=> q \in V(k - 1)
    <3>1. ASSUME j < k PROVE q \in V(k - 1)
      BY <1>1, <1>4, <2>1, <3>1
    <3>2. ASSUME q \in V(k - 1) PROVE j < k
      <4>1. PICK i \in 1 .. k - 1 : q \in dom[i]
        BY <1>1, <1>4, <3>2
      <4>2. i \in 1 .. n /\ i < k
        BY <1>1
      <4> QED
        BY <1>1, <2>1, <4>1, <4>2
    <3> QED
      BY <3>1, <3>2
  <2>5. Before(P, A, q, p) <=> \/ DomainKey(P, A, q) < DomainKey(P, A, p)
                               \/ SameDomain(q, p) /\ SortKey(P, q) < SortKey(P, p)
    BY DEF Before
  <2> QED
    BY <2>2, <2>3, <2>4, <2>5
<1> QED
  BY <1>3, <1>5, <1>6, <1>7, <1>8, <1>9 DEF V, dom, n

\* The participants of the k-th domain in rank order.
MembersAt(P, A, k) == Sorted(DomainAt(P, A)[k], Keys(P))

(* The participants of a domain, in rank order: the whole segments are seated, and
   before a seated one are the seats of the domains before and those of the
   participants before it. *)
LEMMA PlaceInDomain ==
  ASSUME NEW P, Rankable(P), NEW A, A \subseteq P,
         NEW k \in 1 .. Cardinality(DomainsOf(A))
  PROVE  LET d == DomainAt(P, A)[k]
             m == Cardinality(d)
             s == MembersAt(P, A, k)
             full == (m \div SegmentLen) * SegmentLen
             taken == Seated(P, A) \cap Visited(P, A, k - 1)
         IN  /\ m \in Nat /\ DOMAIN s = 1 .. m /\ Len(s) = m
             /\ full \in Nat /\ full <= m
             /\ \A i \in 1 .. m : s[i] \in d
             /\ \A p \in d : \E i \in 1 .. m : s[i] = p
             /\ \A i, j \in 1 .. m : SortKey(P, s[i]) < SortKey(P, s[j]) <=> i < j
             /\ \A i, j \in 1 .. m : s[i] = s[j] => i = j
             /\ \A i \in 1 .. m : Cardinality({q \in d : SortKey(P, q) < SortKey(P, s[i])}) = i - 1
             /\ \A i \in 1 .. m : s[i] \in Seated(P, A) <=> i <= full
             /\ \A i \in 1 .. m : i <= full =>
                   SeatedBefore(P, A, s[i])
                     = taken \cup {q \in d : SortKey(P, q) < SortKey(P, s[i])}
<1> DEFINE d == DomainAt(P, A)[k]
           m == Cardinality(d)
           s == MembersAt(P, A, k)
           full == (m \div SegmentLen) * SegmentLen
           taken == Seated(P, A) \cap Visited(P, A, k - 1)
           Bef(p) == {q \in d : SortKey(P, q) < SortKey(P, p)}
<1>1. d \in DomainsOf(A) /\ d \subseteq A /\ IsFiniteSet(d)
  BY VisitsDomains, VisitedSoFar
<1>2. \A p \in d : Keys(P)[p] = SortKey(P, p) /\ SortKey(P, p) \in Int
  BY <1>1, KeysDiffer DEF Keys
<1>3. \A p, q \in d : p # q => Keys(P)[p] # Keys(P)[q]
  BY <1>1, <1>2, KeysDiffer
<1>4. /\ m \in Nat /\ DOMAIN s = 1 .. m /\ Len(s) = m
      /\ \A i \in 1 .. m : s[i] \in d
      /\ \A i \in 1 .. m : Cardinality({q \in d : Keys(P)[q] < Keys(P)[s[i]]}) = i - 1
      /\ \A p \in d : \E i \in 1 .. m : s[i] = p
      /\ \A i, j \in 1 .. m : Keys(P)[s[i]] < Keys(P)[s[j]] <=> i < j
      /\ \A i, j \in 1 .. m : s[i] = s[j] => i = j
  <2>1. s = Sorted(d, Keys(P)) /\ m = Cardinality(d)
    BY DEF MembersAt
  <2>2. \A p \in d : Keys(P)[p] \in Int
    BY <1>2
  <2> HIDE DEF s, d, m
  <2>3. LET t == Sorted(d, Keys(P))
            n == Cardinality(d)
        IN  /\ n \in Nat /\ DOMAIN t = 1 .. n /\ Len(t) = n
            /\ \A i \in 1 .. n : t[i] \in d
            /\ \A i \in 1 .. n : Cardinality({q \in d : Keys(P)[q] < Keys(P)[t[i]]}) = i - 1
            /\ \A p \in d : \E i \in 1 .. n : t[i] = p
            /\ \A i, j \in 1 .. n : Keys(P)[t[i]] < Keys(P)[t[j]] <=> i < j
            /\ \A i, j \in 1 .. n : t[i] = t[j] => i = j
    BY <1>1, <1>3, <2>2, SortedIs
  <2> QED
    BY <2>1, <2>3
<1>5. full \in Nat /\ full <= m
  <2>1. SegmentLen \in Nat \ {0}
    BY SegmentIsPositive
  <2> HIDE DEF m
  <2> QED
    BY <1>4, <2>1, DivideSegments
<1>6. \A i \in 1 .. m : Cardinality(Bef(s[i])) = i - 1
  <2> SUFFICES ASSUME NEW i \in 1 .. m PROVE Cardinality(Bef(s[i])) = i - 1
    OBVIOUS
  <2>1. Bef(s[i]) = {q \in d : Keys(P)[q] < Keys(P)[s[i]]}
    BY <1>2, <1>4
  <2> QED
    BY <1>4, <2>1
<1>7. ASSUME NEW i \in 1 .. m PROVE s[i] \in Seated(P, A) <=> i <= full
  <2>1. s[i] \in A /\ \A q \in A : q \in d <=> SameDomain(s[i], q)
    BY <1>1, <1>4, DomainMembers
  <2>2. {q \in A : SameDomain(s[i], q)} = d
    BY <1>1, <2>1
  <2>3. EarlierInDomain(P, A, s[i]) = Bef(s[i])
    BY <1>1, <2>1 DEF EarlierInDomain
  <2>4. SegmentsOf(A, s[i]) * SegmentLen = full
    BY <2>2 DEF SegmentsOf
  <2>5. s[i] \in Seated(P, A) <=> i - 1 < full
    BY <2>1, <2>3, <2>4, <1>6 DEF Seated
  <2> HIDE DEF full
  <2> QED
    BY <2>5, <1>5, <1>4
<1>8. ASSUME NEW i \in 1 .. m, NEW j \in 1 .. m
      PROVE  SortKey(P, s[i]) < SortKey(P, s[j]) <=> i < j
  <2>1. Keys(P)[s[i]] = SortKey(P, s[i]) /\ Keys(P)[s[j]] = SortKey(P, s[j])
    BY <1>2, <1>4
  <2> QED
    BY <1>4, <2>1
<1>9. ASSUME NEW i \in 1 .. m, i <= full
      PROVE  SeatedBefore(P, A, s[i]) = taken \cup Bef(s[i])
  <2>1. \A q \in A : Before(P, A, q, s[i]) <=> q \in Visited(P, A, k - 1) \/ q \in Bef(s[i])
    BY <1>4, VisitedSoFar
  <2>2. \A q \in Bef(s[i]) : q \in Seated(P, A)
    <3> SUFFICES ASSUME NEW q \in d, SortKey(P, q) < SortKey(P, s[i])
                 PROVE  q \in Seated(P, A)
      OBVIOUS
    <3>1. PICK j \in 1 .. m : s[j] = q
      BY <1>4
    <3>2. j < i
      BY <1>8, <3>1
    <3>3. j <= full
      BY <1>4, <1>5, <1>9, <3>2
    <3> QED
      BY <1>7, <3>1, <3>3
  <2>3. Seated(P, A) \subseteq A
    BY DEF Seated
  <2> QED
    BY <2>1, <2>2, <2>3 DEF SeatedBefore
<1> HIDE DEF full, taken, m, s, d
<1>10. \A i \in 1 .. m : s[i] \in Seated(P, A) <=> i <= full
  BY <1>7
<1>11. \A i \in 1 .. m : i <= full => SeatedBefore(P, A, s[i]) = taken \cup Bef(s[i])
  BY <1>9
<1> QED
  BY <1>4, <1>5, <1>6, <1>8, <1>10, <1>11 DEF full, taken, m, s, d

(* Every domain adds its whole segments to the seats visited. *)
LEMMA SeatsVisited ==
  ASSUME NEW P, Rankable(P), NEW A, A \subseteq P
  PROVE  /\ \A k \in 0 .. Cardinality(DomainsOf(A)) :
                /\ Cardinality(Seated(P, A) \cap Visited(P, A, k)) \in Nat
                /\ \E c \in Nat :
                     Cardinality(Seated(P, A) \cap Visited(P, A, k)) = c * SegmentLen
         /\ \A k \in 1 .. Cardinality(DomainsOf(A)) :
                Cardinality(Seated(P, A) \cap Visited(P, A, k))
                  = Cardinality(Seated(P, A) \cap Visited(P, A, k - 1))
                    + (Cardinality(DomainAt(P, A)[k]) \div SegmentLen) * SegmentLen
<1> DEFINE n == Cardinality(DomainsOf(A))
           V(k) == Seated(P, A) \cap Visited(P, A, k)
           dom(k) == DomainAt(P, A)[k]
           has(k) == Cardinality(dom(k)) \div SegmentLen
<1>1. n \in Nat /\ SegmentLen \in Nat \ {0}
  BY VisitsDomains, SegmentIsPositive
<1>2. \A k \in 0 .. n : IsFiniteSet(V(k)) /\ Cardinality(V(k)) \in Nat
  BY VisitedSoFar, FS_Intersection, FS_CardinalityType
<1>3. V(0) = {} /\ Cardinality(V(0)) = 0
  BY VisitedSoFar, FS_EmptySet
<1>4. ASSUME NEW k \in 1 .. n
      PROVE  Cardinality(V(k)) = Cardinality(V(k - 1)) + has(k) * SegmentLen /\ has(k) \in Nat
  <2> DEFINE T == dom(k) \cap Seated(P, A)
  <2>1. dom(k) \in DomainsOf(A)
    BY VisitsDomains
  <2>2. IsFiniteSet(T) /\ Cardinality(T) = has(k) * SegmentLen /\ IsFiniteSet(dom(k))
    <3>1. IsFiniteSet(dom(k)) /\ Cardinality(T) = has(k) * SegmentLen
      <4>1. \A d \in DomainsOf(A) :
              /\ IsFiniteSet(d)
              /\ Cardinality(d \cap Seated(P, A)) = (Cardinality(d) \div SegmentLen) * SegmentLen
        BY SeatsOfDomain
      <4> QED
        BY <2>1, <4>1
    <3> HIDE DEF dom, has
    <3> QED
      BY <3>1, FS_Intersection
  <2>3. V(k) = V(k - 1) \cup T /\ V(k - 1) \cap T = {}
    BY VisitedSoFar
  <2>4. k - 1 \in 0 .. n
    BY <1>1
  <2>5. Cardinality(V(k - 1) \cup T)
          = Cardinality(V(k - 1)) + Cardinality(T) - Cardinality(V(k - 1) \cap T)
    <3>1. IsFiniteSet(V(k - 1))
      BY <1>2, <2>4
    <3> HIDE DEF V, T
    <3> QED
      BY <2>2, <3>1, FS_Union
  <2>6. Cardinality(V(k - 1) \cap T) = 0
    BY <2>3, FS_EmptySet
  <2>7. has(k) \in Nat /\ has(k) * SegmentLen \in Nat
    <3>1. Cardinality(dom(k)) \in Nat
      BY <2>2, FS_CardinalityType
    <3> QED
      BY <1>1, <3>1, DivideSegments
  <2>8. Cardinality(V(k - 1)) \in Nat
    BY <1>2, <2>4
  <2>9. Cardinality(V(k)) = Cardinality(V(k - 1) \cup T)
    BY <2>3
  <2> HIDE DEF V, T, has, dom
  <2> QED
    BY <2>2, <2>5, <2>6, <2>7, <2>8, <2>9
<1> HIDE DEF V, has, n
<1>5. \A k \in 0 .. n : \E c \in Nat : Cardinality(V(k)) = c * SegmentLen
  <2> DEFINE Bad == {k \in 0 .. n : ~ \E c \in Nat : Cardinality(V(k)) = c * SegmentLen}
  <2> SUFFICES ASSUME Bad # {} PROVE FALSE
    OBVIOUS
  <2>1. PICK k \in Bad : \A j \in Bad : k <= j
    <3>1. Bad \subseteq Nat
      BY <1>1
    <3> HIDE DEF Bad
    <3> QED
      BY <3>1, LeastNatural
  <2>2. CASE k = 0
    <3>1. Cardinality(V(k)) = 0 * SegmentLen
      BY <1>1, <1>3, <2>2
    <3> QED
      BY <2>1, <3>1
  <2>3. CASE k # 0
    <3>1. k \in 1 .. n /\ k - 1 \in 0 .. n /\ k - 1 \notin Bad
      <4>1. k \in 1 .. n /\ k - 1 \in 0 .. n
        BY <1>1, <2>1, <2>3
      <4>2. k - 1 \notin Bad
        <5> HIDE DEF Bad
        <5> QED
          BY <2>1, <4>1
      <4> QED
        BY <4>1, <4>2
    <3>2. PICK c \in Nat : Cardinality(V(k - 1)) = c * SegmentLen
      BY <3>1
    <3>3. Cardinality(V(k)) = c * SegmentLen + has(k) * SegmentLen /\ has(k) \in Nat
      BY <3>1, <3>2, <1>4
    <3>4. (c + has(k)) * SegmentLen = c * SegmentLen + has(k) * SegmentLen /\ c + has(k) \in Nat
      BY <1>1, <3>3
    <3> QED
      BY <2>1, <3>3, <3>4
  <2> QED
    BY <2>2, <2>3
<1> QED
  BY <1>2, <1>3, <1>4, <1>5 DEF V, has, n

\* The active participants among those visited.
ActiveVisited(P, A, ws, k) == ActiveSet(P, A, ws) \cap Visited(P, A, k)

(* After k domains the active ones are the seats visited, up to the world size. *)
LEMMA ActiveSoFar ==
  ASSUME NEW P, Rankable(P), NEW A, A \subseteq P, NEW ws \in Nat,
         NEW k \in 0 .. Cardinality(DomainsOf(A))
  PROVE  LET seats == Cardinality(Seated(P, A) \cap Visited(P, A, k))
             act == Cardinality(ActiveVisited(P, A, ws, k))
         IN  /\ seats <= ws => act = seats
             /\ ws <= seats => act = ws
<1> DEFINE D == Seated(P, A) \cap Visited(P, A, k)
           R == Visiting(P, A)
           n == Cardinality(DomainsOf(A))
<1>1. IsFiniteSet(D) /\ Cardinality(D) \in Nat /\ D \subseteq A
  BY VisitedSoFar, FS_Intersection, FS_CardinalityType DEF Seated
<1>2. StrictOrder(D, R)
  <2>1. StrictOrder(A, R)
    BY VisitingIsOrder
  <2> QED
    BY <1>1, <2>1 DEF StrictOrder
<1>3. ASSUME NEW p \in D PROVE SeatedBefore(P, A, p) = Below(D, R, p)
  <2>1. PICK i \in 1 .. k : p \in DomainAt(P, A)[i]
    BY DEF Visited
  <2>2. i \in 1 .. n /\ n \in Nat
    BY VisitsDomains
  <2>3. \A q \in A : Before(P, A, q, p) => q \in Visited(P, A, i - 1) \/ q \in DomainAt(P, A)[i]
    BY <2>1, <2>2, VisitedSoFar
  <2>4. Visited(P, A, i - 1) \subseteq Visited(P, A, k) /\ DomainAt(P, A)[i] \subseteq Visited(P, A, k)
    BY <2>2 DEF Visited
  <2>5. \A q \in Seated(P, A) : Before(P, A, q, p) => q \in D
    BY <2>3, <2>4 DEF Seated
  <2>6. \A q \in A : <<q, p>> \in R <=> Before(P, A, q, p)
    BY <1>1 DEF Visiting
  <2>7. \A q : q \in SeatedBefore(P, A, p) <=> q \in Below(D, R, p)
    <3> HIDE DEF R
    <3> QED
      BY <2>5, <2>6, <1>1 DEF SeatedBefore, Below
  <2> QED
    BY <2>7
<1>4. ActiveVisited(P, A, ws, k) = {p \in D : Cardinality(Below(D, R, p)) < ws}
  BY <1>3 DEF ActiveVisited, ActiveSet
<1> HIDE DEF D, R
<1>5. ASSUME Cardinality(D) <= ws PROVE {p \in D : Cardinality(Below(D, R, p)) < ws} = D
  <2>1. \A p \in D : Cardinality(Below(D, R, p)) \in Nat /\ Cardinality(Below(D, R, p)) < Cardinality(D)
    BY <1>1, <1>2, BelowGrows
  <2> QED
    BY <1>1, <1>5, <2>1
<1>6. ASSUME ws <= Cardinality(D) PROVE Cardinality({p \in D : Cardinality(Below(D, R, p)) < ws}) = ws
  BY <1>1, <1>2, <1>6, FirstOnes
<1> QED
  BY <1>4, <1>5, <1>6 DEF D

\* How many segments the loop takes from the k-th domain.
Taken(P, A, ws, k) ==
    LET wanted == (ws \div SegmentLen)
                    - (Cardinality(ActiveVisited(P, A, ws, k - 1)) \div SegmentLen)
        has == Cardinality(DomainAt(P, A)[k]) \div SegmentLen
    IN  IF wanted > 0 /\ has > 0 THEN IF has < wanted THEN has ELSE wanted ELSE 0

TakenSeats(P, A, ws, k) == Taken(P, A, ws, k) * SegmentLen

(* The loop takes as many participants from a domain as the closed form makes active
   there: the first ones, and their ranks continue those of the domains before. *)
LEMMA DomainTakes ==
  ASSUME NEW P, Rankable(P), NEW A, A \subseteq P, NEW ws \in Nat, ws % SegmentLen = 0,
         NEW k \in 1 .. Cardinality(DomainsOf(A))
  PROVE  LET s == MembersAt(P, A, k)
             m == Cardinality(DomainAt(P, A)[k])
             t == Taken(P, A, ws, k)
             take == t * SegmentLen
             old == Cardinality(ActiveVisited(P, A, ws, k - 1))
             new == Cardinality(ActiveVisited(P, A, ws, k))
         IN  /\ t \in Nat /\ take \in Nat /\ take <= m /\ old \in Nat
             /\ new = old + take
             /\ new \div SegmentLen = (old \div SegmentLen) + t
             /\ \A i \in 1 .. m : s[i] \in ActiveSet(P, A, ws) <=> i <= take
             /\ \A i \in 1 .. m : i <= take => Cardinality(SeatedBefore(P, A, s[i])) = old + i - 1
<1> DEFINE n == Cardinality(DomainsOf(A))
           L == SegmentLen
           s == MembersAt(P, A, k)
           d == DomainAt(P, A)[k]
           m == Cardinality(d)
           h == m \div L
           t == Taken(P, A, ws, k)
           V == Visited(P, A, k - 1)
           seats == Cardinality(Seated(P, A) \cap V)
           seats2 == Cardinality(Seated(P, A) \cap Visited(P, A, k))
           old == Cardinality(ActiveVisited(P, A, ws, k - 1))
           new == Cardinality(ActiveVisited(P, A, ws, k))
           Bef(p) == {q \in d : SortKey(P, q) < SortKey(P, p)}
<1>1. n \in Nat /\ L \in Nat \ {0} /\ k \in 0 .. n /\ k - 1 \in 0 .. n
  BY VisitsDomains, SegmentIsPositive
<1>2. PICK w \in Nat : ws = w * L /\ ws \div L = w
  BY WholeSegments
<1>3. /\ m \in Nat /\ h \in Nat /\ h * L \in Nat /\ h * L <= m
  <2>1. m \in Nat
    BY PlaceInDomain
  <2> HIDE DEF m, L
  <2> QED
    BY <1>1, <2>1, DivideSegments
<1>4. PICK c \in Nat : seats = c * L
  <2>1. \A j \in 0 .. n : \E c \in Nat : Cardinality(Seated(P, A) \cap Visited(P, A, j)) = c * L
    BY SeatsVisited
  <2> QED
    BY <1>1, <2>1
<1>5. seats \in Nat /\ seats2 = seats + h * L
  BY <1>1, SeatsVisited
<1>6. /\ seats <= ws => old = seats
      /\ ws <= seats => old = ws
      /\ seats2 <= ws => new = seats2
      /\ ws <= seats2 => new = ws
  BY <1>1, ActiveSoFar
<1>7. /\ \A i \in 1 .. m : s[i] \in d
      /\ \A i \in 1 .. m : Cardinality(Bef(s[i])) = i - 1
      /\ \A i \in 1 .. m : s[i] \in Seated(P, A) <=> i <= h * L
      /\ \A i \in 1 .. m : i <= h * L => SeatedBefore(P, A, s[i]) = (Seated(P, A) \cap V) \cup Bef(s[i])
  BY PlaceInDomain
<1>8. \A i \in 1 .. m : i <= h * L => Cardinality(SeatedBefore(P, A, s[i])) = seats + i - 1
  <2> SUFFICES ASSUME NEW i \in 1 .. m, i <= h * L
               PROVE  Cardinality(SeatedBefore(P, A, s[i])) = seats + i - 1
    OBVIOUS
  <2> DEFINE X == Seated(P, A) \cap V
             Y == Bef(s[i])
  <2>1. SeatedBefore(P, A, s[i]) = X \cup Y /\ Cardinality(Y) = i - 1
    BY <1>7
  <2>2. IsFiniteSet(V) /\ IsFiniteSet(d) /\ V \cap d = {}
    BY <1>1, VisitedSoFar
  <2>3. IsFiniteSet(X) /\ IsFiniteSet(Y) /\ X \cap Y = {}
    <3>1. X \in SUBSET V /\ Y \in SUBSET d
      OBVIOUS
    <3> HIDE DEF X, Y, V, d
    <3> QED
      BY <2>2, <3>1, FS_Subset
  <2>4. Cardinality(X) = seats
    OBVIOUS
  <2>5. Cardinality(X \cup Y) = Cardinality(X) + Cardinality(Y) - Cardinality(X \cap Y)
    <3> HIDE DEF X, Y
    <3> QED
      BY <2>3, FS_Union
  <2>6. Cardinality(X \cap Y) = 0
    BY <2>3, FS_EmptySet
  <2> HIDE DEF X, Y, seats, m
  <2> QED
    BY <2>1, <2>4, <2>5, <2>6, <1>3, <1>5
<1>9. \A i \in 1 .. m : s[i] \in ActiveSet(P, A, ws) <=> i <= h * L /\ seats + i - 1 < ws
  BY <1>7, <1>8 DEF ActiveSet
<1>10. t = IF w - (old \div L) > 0 /\ h > 0
           THEN IF h < w - (old \div L) THEN h ELSE w - (old \div L)
           ELSE 0
  BY <1>2 DEF Taken
<1> HIDE DEF L, s, d, m, h, t, V, seats, seats2, old, new
<1>11. /\ t \in Nat /\ t * L \in Nat /\ t * L <= m /\ old \in Nat
       /\ new = old + t * L
       /\ new \div L = (old \div L) + t
       /\ \A i \in 1 .. m : (i <= h * L /\ seats + i - 1 < ws) <=> i <= t * L
       /\ t = 0 \/ old = seats
  <2>1. \A q \in Nat : (q * L) \div L = q
    <3> SUFFICES ASSUME NEW q \in Nat PROVE (q * L) \div L = q
      OBVIOUS
    <3>1. 0 \in 0 .. L - 1 /\ q * L \in Nat
      BY <1>1
    <3>2. (q * L + 0) \div L = q
      BY <1>1, <3>1, QuotientIs
    <3> QED
      BY <3>1, <3>2
  <2>2. CASE c >= w
    <3>1. w * L <= c * L /\ c * L \in Nat /\ w * L \in Nat
      BY <1>1, <2>2, Scale
    <3>2. old = ws /\ old \div L = w /\ new = ws
      BY <3>1, <1>2, <1>3, <1>4, <1>5, <1>6, <2>1
    <3>3. t = 0 /\ t * L = 0
      BY <3>2, <1>1, <1>10
    <3>4. \A i \in 1 .. m : ~(seats + i - 1 < ws) /\ ~(i <= 0)
      BY <3>1, <1>2, <1>3, <1>4
    <3> QED
      BY <3>1, <3>2, <3>3, <3>4, <1>2, <1>3
  <2>3. CASE c < w
    <3>1. c * L <= w * L /\ c * L \in Nat /\ w * L \in Nat /\ (w - c) * L = w * L - c * L /\ w - c \in Nat
      BY <1>1, <2>3, Scale
    <3>2. old = seats /\ old \div L = c
      BY <3>1, <1>2, <1>4, <1>6, <2>1
    <3>3. t = IF h < w - c THEN h ELSE w - c
      BY <3>2, <1>3, <1>10, <2>3
    <3>4. CASE h < w - c
      <4>1. t = h
        BY <3>3, <3>4
      <4>2. h * L <= (w - c) * L
        BY <3>1, <3>4, <1>1, <1>3, Scale
      <4>3. seats2 <= ws /\ new = seats2
        BY <4>2, <3>1, <1>2, <1>3, <1>4, <1>5, <1>6
      <4>4. new = (c + h) * L /\ c + h \in Nat
        BY <4>3, <1>1, <1>3, <1>4, <1>5, Scale
      <4>5. new \div L = c + h
        BY <4>4, <2>1
      <4>6. \A i \in 1 .. m : i <= h * L => seats + i - 1 < ws
        BY <4>2, <3>1, <1>2, <1>3, <1>4
      <4> QED
        BY <4>1, <4>3, <4>5, <4>6, <3>2, <1>3, <1>5
    <3>5. CASE ~(h < w - c)
      <4>1. t = w - c
        BY <3>3, <3>5
      <4>2. (w - c) * L <= h * L
        BY <3>1, <3>5, <1>1, <1>3, Scale
      <4>3. ws <= seats2 /\ new = ws
        BY <4>2, <3>1, <1>2, <1>3, <1>4, <1>5, <1>6
      <4>4. new \div L = w
        BY <4>3, <1>2, <2>1
      <4>5. \A i \in 1 .. m : (i <= h * L /\ seats + i - 1 < ws) <=> i <= (w - c) * L
        BY <4>2, <3>1, <1>2, <1>3, <1>4
      <4> QED
        BY <4>1, <4>2, <4>3, <4>4, <4>5, <3>1, <3>2, <1>2, <1>3, <1>4, <1>5
    <3> QED
      BY <3>4, <3>5
  <2> QED
    BY <2>2, <2>3, <1>2
<1>12. \A i \in 1 .. m : i <= t * L => Cardinality(SeatedBefore(P, A, s[i])) = old + i - 1
  <2> SUFFICES ASSUME NEW i \in 1 .. m, i <= t * L
               PROVE  Cardinality(SeatedBefore(P, A, s[i])) = old + i - 1
    OBVIOUS
  <2>1. i <= h * L
    BY <1>11
  <2>2. t # 0
    BY <1>1, <1>3
  <2> QED
    BY <2>1, <2>2, <1>8, <1>11
<1>13. \A i \in 1 .. m : s[i] \in ActiveSet(P, A, ws) <=> i <= t * L
  BY <1>9, <1>11
<1> QED
  BY <1>11, <1>12, <1>13 DEF L, s, d, m, t, old, new

\* The ranks of the participants P, of which A are candidates.
ClosedForm(P, A, ws) == AssignGroupRanks(A, P \ A, ws)

(* The rank of an active participant: how many seats come before. *)
LEMMA ActiveRank ==
  ASSUME NEW P, NEW A, A \subseteq P, NEW ws, NEW p \in ActiveSet(P, A, ws)
  PROVE  p \in A /\ ClosedForm(P, A, ws)[p] = Cardinality(SeatedBefore(P, A, p))
<1>1. p \in A /\ p \in P /\ A \cup (P \ A) = P
  BY DEF ActiveSet, Seated
<1> QED
  BY <1>1 DEF ClosedForm, AssignGroupRanks

(* A spare's rank: after the world, in the order of visits. *)
LEMMA SpareRank ==
  ASSUME NEW P, NEW A, A \subseteq P, NEW ws, NEW p \in A \ ActiveSet(P, A, ws)
  PROVE  ClosedForm(P, A, ws)[p]
           = ws + Cardinality({q \in A \ ActiveSet(P, A, ws) : Before(P, A, q, p)})
<1>1. p \in P /\ A \cup (P \ A) = P
  OBVIOUS
<1> QED
  BY <1>1 DEF ClosedForm, AssignGroupRanks

\* The participants of incomplete groups before p in rank order.
StandbysBefore(P, A, p) == {q \in P \ A : SortKey(P, q) < SortKey(P, p)}

(* The rank of a participant of an incomplete group: after the spares. *)
LEMMA StandbyRank ==
  ASSUME NEW P, NEW A, A \subseteq P, NEW ws, NEW p \in P \ A
  PROVE  ClosedForm(P, A, ws)[p]
           = ws + Cardinality(A \ ActiveSet(P, A, ws))
             + Cardinality(StandbysBefore(P, A, p))
<1>1. p \notin ActiveSet(P, A, ws) /\ p \in P /\ p \notin A /\ A \cup (P \ A) = P
  BY DEF ActiveSet, Seated
<1> QED
  BY <1>1 DEF ClosedForm, AssignGroupRanks, StandbysBefore

\* Who of the k-th domain is not active continues the ranks of the spares so far.
SparesContinue(P, A, ws, k) ==
    LET s == MembersAt(P, A, k)
        take == TakenSeats(P, A, ws, k)
        left == Cardinality(Visited(P, A, k - 1) \ ActiveSet(P, A, ws))
    IN  \A i \in 1 .. Cardinality(DomainAt(P, A)[k]) :
            take < i => ClosedForm(P, A, ws)[s[i]] = ws + left + (i - take) - 1

(* The other participants of a domain get the next ranks above the world size. *)
LEMMA DomainSpares ==
  ASSUME NEW P, Rankable(P), NEW A, A \subseteq P, NEW ws \in Nat, ws % SegmentLen = 0,
         NEW k \in 1 .. Cardinality(DomainsOf(A))
  PROVE  LET m == Cardinality(DomainAt(P, A)[k])
             take == TakenSeats(P, A, ws, k)
             left == Cardinality(Visited(P, A, k - 1) \ ActiveSet(P, A, ws))
         IN  /\ left \in Nat
             /\ Cardinality(Visited(P, A, k) \ ActiveSet(P, A, ws)) = left + (m - take)
             /\ SparesContinue(P, A, ws, k)
<1> DEFINE s == MembersAt(P, A, k)
           d == DomainAt(P, A)[k]
           m == Cardinality(d)
           take == TakenSeats(P, A, ws, k)
           active == ActiveSet(P, A, ws)
           V == Visited(P, A, k - 1)
           W == Visited(P, A, k)
           Bef(p) == {q \in d : SortKey(P, q) < SortKey(P, p)}
<1>2. /\ m \in Nat /\ take \in Nat /\ take <= m
      /\ Cardinality(active \cap V) \in Nat
      /\ Cardinality(active \cap W) = Cardinality(active \cap V) + take
      /\ \A i \in 1 .. m : s[i] \in active <=> i <= take
  <2>1. m \in Nat
    BY PlaceInDomain
  <2> DEFINE old == Cardinality(ActiveVisited(P, A, ws, k - 1))
             new == Cardinality(ActiveVisited(P, A, ws, k))
  <2>2. /\ take \in Nat /\ take <= m /\ old \in Nat /\ new = old + take
        /\ \A i \in 1 .. m : s[i] \in active <=> i <= take
    BY DomainTakes DEF TakenSeats
  <2>3. old = Cardinality(active \cap V) /\ new = Cardinality(active \cap W)
    BY DEF ActiveVisited
  <2> HIDE DEF old, new, s, m, take, active, V, W
  <2> QED
    BY <2>1, <2>2, <2>3
<1>3. /\ IsFiniteSet(V) /\ IsFiniteSet(d) /\ IsFiniteSet(W)
      /\ W = V \cup d /\ V \cap d = {} /\ d \subseteq A /\ V \subseteq A
  <2>1. Cardinality(DomainsOf(A)) \in Nat
    BY VisitsDomains
  <2>2. k \in 0 .. Cardinality(DomainsOf(A)) /\ k - 1 \in 0 .. Cardinality(DomainsOf(A))
    BY <2>1
  <2> QED
    BY <2>2, VisitedSoFar
<1>4. /\ \A i \in 1 .. m : s[i] \in d
      /\ \A p \in d : \E i \in 1 .. m : s[i] = p
      /\ \A i, j \in 1 .. m : SortKey(P, s[i]) < SortKey(P, s[j]) <=> i < j
      /\ \A i \in 1 .. m : Cardinality(Bef(s[i])) = i - 1
  BY PlaceInDomain
<1>5. \A i \in 1 .. m : \A q \in A : Before(P, A, q, s[i]) <=> q \in V \/ q \in Bef(s[i])
  BY <1>4, VisitedSoFar
<1>6. \A i \in 1 .. m : take < i =>
        ClosedForm(P, A, ws)[s[i]]
          = ws + Cardinality({q \in A \ active : Before(P, A, q, s[i])})
  <2> SUFFICES ASSUME NEW i \in 1 .. m, take < i
               PROVE  ClosedForm(P, A, ws)[s[i]]
                        = ws + Cardinality({q \in A \ active : Before(P, A, q, s[i])})
    OBVIOUS
  <2>1. s[i] \notin active /\ s[i] \in A /\ s[i] \in P
    <3> HIDE DEF s, m, take, active
    <3> QED
      BY <1>2, <1>3, <1>4
  <2> HIDE DEF s
  <2> QED
    BY <2>1, SpareRank
<1> HIDE DEF s, d, m, take, active, V, W
<1>7. Cardinality(active \cap d) = take
  <2> DEFINE X == active \cap V
             Y == active \cap d
  <2>1. active \cap W = X \cup Y /\ X \cap Y = {}
    BY <1>3
  <2>2. IsFiniteSet(X) /\ IsFiniteSet(Y) /\ Cardinality(Y) \in Nat
    BY <1>3, FS_Intersection, FS_CardinalityType
  <2>3. Cardinality(X \cup Y) = Cardinality(X) + Cardinality(Y) - Cardinality(X \cap Y)
    <3> HIDE DEF X, Y
    <3> QED
      BY <2>2, FS_Union
  <2>4. Cardinality(X \cap Y) = 0
    BY <2>1, FS_EmptySet
  <2>5. Cardinality(X \cup Y) = Cardinality(X) + take
    BY <1>2, <2>1
  <2> HIDE DEF X
  <2> QED
    BY <2>2, <2>3, <2>4, <2>5, <1>2 DEF X
<1>8. Cardinality(d \ active) = m - take /\ IsFiniteSet(d \ active)
  <2>1. Cardinality(d \ active) = Cardinality(d) - Cardinality(d \cap active)
    BY <1>3, FS_Difference
  <2>2. d \cap active = active \cap d
    OBVIOUS
  <2>3. Cardinality(d) = m
    BY DEF m
  <2> QED
    BY <2>1, <2>2, <2>3, <1>3, <1>7, FS_Difference
<1>9. Cardinality(V \ active) \in Nat /\ IsFiniteSet(V \ active)
  BY <1>3, FS_Difference, FS_CardinalityType
<1>10. Cardinality(W \ active) = Cardinality(V \ active) + (m - take)
  <2> DEFINE X == V \ active
             Y == d \ active
  <2>1. W \ active = X \cup Y /\ X \cap Y = {}
    BY <1>3
  <2>2. Cardinality(X \cup Y) = Cardinality(X) + Cardinality(Y) - Cardinality(X \cap Y)
    <3>1. IsFiniteSet(X) /\ IsFiniteSet(Y)
      BY <1>8, <1>9
    <3> HIDE DEF X, Y
    <3> QED
      BY <3>1, FS_Union
  <2>3. Cardinality(X \cap Y) = 0
    BY <2>1, FS_EmptySet
  <2>4. Cardinality(X) \in Nat /\ Cardinality(Y) = m - take
    BY <1>8, <1>9
  <2>5. Cardinality(W \ active) = Cardinality(X) + (m - take)
    <3> HIDE DEF X, Y
    <3>1. Cardinality(X \cup Y) = Cardinality(X) + (m - take)
      BY <2>2, <2>3, <2>4, <1>2
    <3> QED
      BY <2>1, <3>1
  <2> QED
    BY <2>5
<1>11. ASSUME NEW i \in 1 .. m, take < i
       PROVE  Cardinality({q \in A \ active : Before(P, A, q, s[i])})
                = Cardinality(V \ active) + (i - take) - 1
  <2> DEFINE X == V \ active
             Y == Bef(s[i]) \ active
  <2>1. {q \in A \ active : Before(P, A, q, s[i])} = X \cup Y /\ X \cap Y = {}
    <3>1. \A q \in A : Before(P, A, q, s[i]) <=> q \in V \/ q \in Bef(s[i])
      BY <1>5
    <3>2. Bef(s[i]) \subseteq d
      OBVIOUS
    <3> QED
      BY <3>1, <3>2, <1>3
  <2>2. IsFiniteSet(Bef(s[i])) /\ Bef(s[i]) \subseteq d
    <3>1. Bef(s[i]) \in SUBSET d
      OBVIOUS
    <3> QED
      BY <3>1, <1>3, FS_Subset
  <2>3. Bef(s[i]) \cap active = active \cap d
    <3>1. ASSUME NEW q \in active \cap d PROVE q \in Bef(s[i])
      <4>1. PICK j \in 1 .. m : s[j] = q
        BY <1>4
      <4>2. j <= take
        BY <4>1, <1>2
      <4>3. j < i
        BY <4>2, <1>2, <1>11
      <4> QED
        BY <4>1, <4>3, <1>4
    <3> QED
      BY <2>2, <3>1
  <2>4. Cardinality(Y) = (i - 1) - take /\ IsFiniteSet(Y)
    <3>1. Cardinality(Y) = Cardinality(Bef(s[i])) - Cardinality(Bef(s[i]) \cap active) /\ IsFiniteSet(Y)
      <4> HIDE DEF Bef
      <4> QED
        BY <2>2, FS_Difference
    <3>2. Cardinality(Bef(s[i])) = i - 1
      BY <1>4
    <3> QED
      BY <3>1, <3>2, <2>3, <1>7
  <2>5. Cardinality(X \cup Y) = Cardinality(X) + Cardinality(Y) - Cardinality(X \cap Y)
    <3> HIDE DEF Y
    <3>1. IsFiniteSet(X)
      BY <1>9
    <3> HIDE DEF X
    <3> QED
      BY <2>4, <3>1, FS_Union
  <2>6. Cardinality(X \cap Y) = 0
    BY <2>1, FS_EmptySet
  <2>7. Cardinality(X) \in Nat /\ Cardinality(X) = Cardinality(V \ active)
    BY <1>9
  <2> HIDE DEF X, Y
  <2>8. Cardinality(X \cup Y) = Cardinality(X) + ((i - 1) - take)
    BY <2>4, <2>5, <2>6, <2>7, <1>2
  <2>9. Cardinality(X \cup Y) = Cardinality(V \ active) + (i - take) - 1
    BY <2>7, <2>8, <1>2, <1>9
  <2> QED
    BY <2>1, <2>9
<1>12. \A i \in 1 .. m : take < i =>
         ClosedForm(P, A, ws)[s[i]] = ws + Cardinality(V \ active) + (i - take) - 1
  <2> SUFFICES ASSUME NEW i \in 1 .. m, take < i
               PROVE  ClosedForm(P, A, ws)[s[i]]
                        = ws + Cardinality(V \ active) + (i - take) - 1
    OBVIOUS
  <2>1. ClosedForm(P, A, ws)[s[i]]
          = ws + (Cardinality(V \ active) + (i - take) - 1)
    BY <1>6, <1>11
  <2> QED
    BY <2>1, <1>2, <1>9
<1>13. SparesContinue(P, A, ws, k)
  BY <1>12 DEF SparesContinue, s, d, m, take, active, V
<1> QED
  BY <1>9, <1>10, <1>13 DEF d, m, take, active, V, W

\* The locals of the loop after k domains, in closed form.
LocalsAfter(P, A, ws, k) ==
    LET act == Cardinality(ActiveVisited(P, A, ws, k))
    IN  [rank |-> [p \in Visited(P, A, k) |-> ClosedForm(P, A, ws)[p]],
         active |-> act,
         segments |-> act \div SegmentLen,
         standby |-> ws + Cardinality(Visited(P, A, k) \ ActiveSet(P, A, ws))]

(* One pass of the loop body leads from these locals to the next ones. *)
LEMMA OnePass ==
  ASSUME NEW P, Rankable(P), NEW A, A \subseteq P, NEW ws \in Nat, ws % SegmentLen = 0,
         NEW k \in 1 .. Cardinality(DomainsOf(A))
  PROVE  WalkDomain(ws, LocalsAfter(P, A, ws, k - 1), MembersAt(P, A, k))
           = LocalsAfter(P, A, ws, k)
<1> DEFINE s == MembersAt(P, A, k)
           d == DomainAt(P, A)[k]
           m == Cardinality(d)
           t == Taken(P, A, ws, k)
           take == t * SegmentLen
           active == ActiveSet(P, A, ws)
           V == Visited(P, A, k - 1)
           W == Visited(P, A, k)
           old == Cardinality(ActiveVisited(P, A, ws, k - 1))
           new == Cardinality(ActiveVisited(P, A, ws, k))
           st == LocalsAfter(P, A, ws, k - 1)
           ranks == ClosedForm(P, A, ws)
           indexOf(p) == CHOOSE i \in DOMAIN s : s[i] = p
<1>2. /\ m \in Nat /\ DOMAIN s = 1 .. m /\ Len(s) = m
      /\ \A i \in 1 .. m : s[i] \in d
      /\ \A p \in d : \E i \in 1 .. m : s[i] = p
      /\ \A i, j \in 1 .. m : s[i] = s[j] => i = j
  BY PlaceInDomain
<1>3. /\ t \in Nat /\ take \in Nat /\ take <= m /\ old \in Nat
      /\ new = old + take
      /\ new \div SegmentLen = (old \div SegmentLen) + t
      /\ \A i \in 1 .. m : s[i] \in active <=> i <= take
      /\ \A i \in 1 .. m : i <= take => Cardinality(SeatedBefore(P, A, s[i])) = old + i - 1
  BY DomainTakes
<1>4. /\ Cardinality(V \ active) \in Nat
      /\ Cardinality(W \ active) = Cardinality(V \ active) + (m - take)
      /\ \A i \in 1 .. m : take < i =>
            ranks[s[i]] = ws + Cardinality(V \ active) + (i - take) - 1
  <2> DEFINE left == Cardinality(Visited(P, A, k - 1) \ ActiveSet(P, A, ws))
             seats == TakenSeats(P, A, ws, k)
  <2>1. /\ left \in Nat
        /\ Cardinality(Visited(P, A, k) \ ActiveSet(P, A, ws)) = left + (m - seats)
        /\ SparesContinue(P, A, ws, k)
    BY DomainSpares
  <2>3. \A i \in 1 .. m : seats < i => ranks[s[i]] = ws + left + (i - seats) - 1
    BY <2>1 DEF SparesContinue
  <2>2. seats = take
    BY DEF TakenSeats
  <2> HIDE DEF seats, take
  <2> QED
    BY <2>1, <2>2, <2>3
<1>5. W = V \cup d /\ V \cap d = {} /\ d \subseteq A
  BY VisitedSoFar
<1>6. /\ st.rank = [p \in V |-> ranks[p]] /\ st.active = old
      /\ st.segments = old \div SegmentLen
      /\ st.standby = ws + Cardinality(V \ active)
  BY DEF LocalsAfter
<1>7. {s[i] : i \in DOMAIN s} = d
  <2> HIDE DEF s, d, m
  <2> QED
    BY <1>2
<1>8. ASSUME NEW p \in d
      PROVE  ranks[p] = IF indexOf(p) <= take THEN st.active + indexOf(p) - 1
                        ELSE st.standby + (indexOf(p) - take) - 1
  <2>1. indexOf(p) \in 1 .. m /\ s[indexOf(p)] = p
    BY <1>2
  <2>2. PICK i \in 1 .. m : i = indexOf(p) /\ s[i] = p
    BY <2>1
  <2>3. CASE i <= take
    <3>1. p \in active /\ p \in P
      <4>1. p \in active
        <5> HIDE DEF s, active, take, m
        <5> QED
          BY <2>2, <2>3, <1>3
      <4> QED
        BY <4>1, <1>5
    <3>2. ranks[p] = Cardinality(SeatedBefore(P, A, p))
      <4> HIDE DEF s, take
      <4> QED
        BY <3>1, ActiveRank
    <3>3. Cardinality(SeatedBefore(P, A, p)) = old + i - 1
      BY <2>2, <2>3, <1>3
    <3>4. st.active + i - 1 = old + i - 1
      BY <1>6
    <3> HIDE DEF indexOf, st, ranks, take
    <3> QED
      BY <2>2, <2>3, <3>2, <3>3, <3>4
  <2>4. CASE ~(i <= take)
    <3>1. take < i
      BY <2>4, <1>2, <1>3
    <3>2. ranks[p] = ws + Cardinality(V \ active) + (i - take) - 1
      BY <2>2, <3>1, <1>4
    <3>3. st.standby + (i - take) - 1 = ws + Cardinality(V \ active) + (i - take) - 1
      BY <1>6
    <3> HIDE DEF indexOf, st, ranks, take
    <3> QED
      BY <2>2, <2>4, <3>2, <3>3
  <2> QED
    BY <2>3, <2>4
<1>9. LET wanted == (ws \div SegmentLen) - st.segments
          has == Len(s) \div SegmentLen
      IN  t = IF wanted > 0 /\ has > 0 THEN IF has < wanted THEN has ELSE wanted ELSE 0
  BY <1>2, <1>6 DEF Taken
<1>10. WalkDomain(ws, st, s)
         = [rank |-> [p \in DOMAIN st.rank \cup {s[i] : i \in DOMAIN s} |->
                        IF p \in DOMAIN st.rank THEN st.rank[p]
                        ELSE IF indexOf(p) <= take THEN st.active + indexOf(p) - 1
                             ELSE st.standby + (indexOf(p) - take) - 1],
            active |-> st.active + take,
            segments |-> st.segments + t,
            standby |-> st.standby + (Len(s) - take)]
  <2> HIDE DEF s, st
  <2> QED
    BY <1>9 DEF WalkDomain
<1> HIDE DEF s, d, m, t, take, active, V, W, old, new, st, ranks
<1>11. [p \in DOMAIN st.rank \cup {s[i] : i \in DOMAIN s} |->
          IF p \in DOMAIN st.rank THEN st.rank[p]
          ELSE IF indexOf(p) <= take THEN st.active + indexOf(p) - 1
               ELSE st.standby + (indexOf(p) - take) - 1]
         = [p \in W |-> ranks[p]]
  <2>1. DOMAIN st.rank = V /\ \A p \in V : st.rank[p] = ranks[p]
    BY <1>6
  <2>2. DOMAIN st.rank \cup {s[i] : i \in DOMAIN s} = W
    BY <2>1, <1>5, <1>7
  <2>3. \A p \in W : p \notin V => p \in d
    BY <1>5
  <2> HIDE DEF indexOf
  <2> QED
    BY <2>1, <2>2, <2>3, <1>8
<1>12. st.standby + (Len(s) - take) = ws + Cardinality(W \ active)
  BY <1>2, <1>3, <1>4, <1>6
<1>13. st.active + take = new /\ st.segments + t = new \div SegmentLen
  BY <1>3, <1>6
<1>14. WalkDomain(ws, st, s)
         = [rank |-> [p \in W |-> ranks[p]], active |-> new,
            segments |-> new \div SegmentLen, standby |-> ws + Cardinality(W \ active)]
  <2> HIDE DEF indexOf
  <2> QED
    BY <1>10, <1>11, <1>12, <1>13
<1>15. LocalsAfter(P, A, ws, k)
         = [rank |-> [p \in W |-> ranks[p]], active |-> new,
            segments |-> new \div SegmentLen, standby |-> ws + Cardinality(W \ active)]
  BY DEF LocalsAfter, W, ranks, new, active
<1> QED
  BY <1>14, <1>15 DEF st, s

\* The locals the loop starts with, and one unfolding of its recursion.
FirstLocals(ws) == [rank |-> [p \in {} |-> UNASSIGNED],
                    active |-> 0, segments |-> 0, standby |-> ws]
Unfold(P, A, ws, st) ==
    [k \in 0 .. Cardinality(DomainsOf(A)) |->
        IF k = 0 THEN FirstLocals(ws) ELSE WalkDomain(ws, st[k - 1], MembersAt(P, A, k))]

(* The loop walks the domains of VisitsDomains, each in rank order. *)
LEMMA LoopUnfolds ==
  ASSUME NEW P, Rankable(P), NEW A, A \subseteq P, NEW ws
  PROVE  LoopResult(A, P \ A, ws)
           = (CHOOSE st : st = Unfold(P, A, ws, st))[Cardinality(DomainsOf(A))]
<1> DEFINE n == Cardinality(DomainsOf(A))
           sorted == SortedDomains(P, A)
<1>1. A \cup (P \ A) = P
  OBVIOUS
<1>2. n \in Nat /\ DOMAIN DomainAt(P, A) = 1 .. n
  BY VisitsDomains
<1>3. sorted = [k \in 1 .. n |-> MembersAt(P, A, k)]
  <2>1. sorted = [k \in DOMAIN DomainAt(P, A) |-> MembersAt(P, A, k)]
    BY DEF SortedDomains, DomainAt, MembersAt, FirstKeys, Keys
  <2> QED
    BY <2>1, <1>2
<1>4. Len(sorted) = n /\ \A k \in 1 .. n : sorted[k] = MembersAt(P, A, k)
  <2> HIDE DEF sorted, n
  <2> QED
    BY <1>2, <1>3
<1>5. LoopResult(A, P \ A, ws)
        = (CHOOSE st : st = [k \in 0 .. Len(sorted) |->
                               IF k = 0 THEN FirstLocals(ws)
                               ELSE WalkDomain(ws, st[k - 1], sorted[k])])[Len(sorted)]
  BY <1>1 DEF LoopResult, FirstLocals
<1>6. ASSUME NEW st
      PROVE  [k \in 0 .. Len(sorted) |->
                IF k = 0 THEN FirstLocals(ws) ELSE WalkDomain(ws, st[k - 1], sorted[k])]
               = Unfold(P, A, ws, st)
  <2> HIDE DEF sorted
  <2>1. \A k \in 0 .. n : k = 0 \/ k \in 1 .. n
    BY <1>2
  <2> QED
    BY <1>4, <2>1 DEF Unfold
<1> HIDE DEF sorted
<1> QED
  BY <1>4, <1>5, <1>6

(* After all domains the locals are those of the closed form. *)
LEMMA LoopIs ==
  ASSUME NEW P, Rankable(P), NEW A, A \subseteq P, NEW ws \in Nat, ws % SegmentLen = 0
  PROVE  LoopResult(A, P \ A, ws) = LocalsAfter(P, A, ws, Cardinality(DomainsOf(A)))
<1> DEFINE n == Cardinality(DomainsOf(A))
           h == [k \in 0 .. n |-> LocalsAfter(P, A, ws, k)]
<1>1. n \in Nat
  BY VisitsDomains
<1>2. LocalsAfter(P, A, ws, 0) = FirstLocals(ws)
  <2>1. Visited(P, A, 0) = {}
    BY VisitedSoFar
  <2>2. ActiveVisited(P, A, ws, 0) = {} /\ Visited(P, A, 0) \ ActiveSet(P, A, ws) = {}
    BY <2>1 DEF ActiveVisited
  <2>3. Cardinality({}) = 0 /\ 0 \div SegmentLen = 0 /\ ws + 0 = ws
    BY FS_EmptySet, SegmentIsPositive
  <2>4. [p \in {} |-> ClosedForm(P, A, ws)[p]] = [p \in {} |-> UNASSIGNED]
    OBVIOUS
  <2> QED
    BY <2>1, <2>2, <2>3, <2>4 DEF LocalsAfter, FirstLocals
<1>3. ASSUME NEW k \in 1 .. n
      PROVE  WalkDomain(ws, LocalsAfter(P, A, ws, k - 1), MembersAt(P, A, k))
               = LocalsAfter(P, A, ws, k)
  BY OnePass
<1>4. h = Unfold(P, A, ws, h)
  <2>1. ASSUME NEW k \in 0 .. n
        PROVE  LocalsAfter(P, A, ws, k)
                 = IF k = 0 THEN FirstLocals(ws) ELSE WalkDomain(ws, h[k - 1], MembersAt(P, A, k))
    <3>1. CASE k = 0
      BY <3>1, <1>2
    <3>2. CASE k # 0
      <4>1. k \in 1 .. n /\ k - 1 \in 0 .. n
        BY <3>2, <1>1
      <4>2. h[k - 1] = LocalsAfter(P, A, ws, k - 1)
        BY <4>1
      <4> QED
        BY <3>2, <4>1, <4>2, <1>3
    <3> QED
      BY <3>1, <3>2
  <2>2. Unfold(P, A, ws, h) = [k \in 0 .. n |-> LocalsAfter(P, A, ws, k)]
    <3> HIDE DEF h
    <3> QED
      BY <2>1 DEF Unfold
  <2> QED
    BY <2>2
<1>5. PICK st : /\ st = (CHOOSE f : f = Unfold(P, A, ws, f))
                /\ st = Unfold(P, A, ws, st)
  <2>1. \E f : f = Unfold(P, A, ws, f)
    <3> HIDE DEF h
    <3> QED
      BY <1>4
  <2> QED
    BY <2>1
<1>6. /\ st[0] = FirstLocals(ws)
      /\ \A k \in 1 .. n : st[k] = WalkDomain(ws, st[k - 1], MembersAt(P, A, k))
  <2>1. \A k \in 0 .. n :
          st[k] = IF k = 0 THEN FirstLocals(ws)
                  ELSE WalkDomain(ws, st[k - 1], MembersAt(P, A, k))
    BY <1>5 DEF Unfold
  <2> QED
    BY <2>1, <1>1
<1> HIDE DEF h
<1>7. \A k \in 0 .. n : st[k] = LocalsAfter(P, A, ws, k)
  <2> DEFINE Bad == {k \in 0 .. n : st[k] # LocalsAfter(P, A, ws, k)}
  <2> SUFFICES ASSUME Bad # {} PROVE FALSE
    OBVIOUS
  <2>1. PICK k \in Bad : \A j \in Bad : k <= j
    <3>1. Bad \subseteq Nat
      BY <1>1
    <3> HIDE DEF Bad
    <3> QED
      BY <3>1, LeastNatural
  <2>2. k # 0
    BY <2>1, <1>2, <1>6
  <2>3. k \in 1 .. n /\ k - 1 \in 0 .. n
    BY <2>1, <2>2, <1>1
  <2>4. k - 1 \notin Bad
    <3> HIDE DEF Bad
    <3> QED
      BY <2>1, <2>3
  <2>5. st[k - 1] = LocalsAfter(P, A, ws, k - 1)
    BY <2>3, <2>4
  <2>6. st[k] = LocalsAfter(P, A, ws, k)
    BY <2>3, <2>5, <1>3, <1>6
  <2> QED
    BY <2>1, <2>6
<1>8. LoopResult(A, P \ A, ws) = st[n]
  BY <1>5, LoopUnfolds
<1>9. n \in 0 .. n
  BY <1>1
<1> QED
  BY <1>7, <1>8, <1>9

(* There are never more active participants than the world has ranks, and as many
   when the seats suffice. *)
LEMMA ActiveCount ==
  ASSUME NEW P, Rankable(P), NEW A, A \subseteq P, NEW ws \in Nat
  PROVE  LET seats == Cardinality(Seated(P, A))
             active == ActiveSet(P, A, ws)
         IN  /\ IsFiniteSet(active) /\ seats \in Nat /\ active \subseteq Seated(P, A)
             /\ seats <= ws => Cardinality(active) = seats
             /\ ws <= seats => Cardinality(active) = ws
             /\ Cardinality(active) <= ws
<1> DEFINE n == Cardinality(DomainsOf(A))
           active == ActiveSet(P, A, ws)
           seats == Cardinality(Seated(P, A))
<1>1. n \in Nat /\ n \in 0 .. n
  BY VisitsDomains
<1>2. Visited(P, A, n) = A /\ Seated(P, A) \subseteq A /\ active \subseteq Seated(P, A)
  BY VisitedSoFar DEF Seated, ActiveSet
<1>3. ActiveVisited(P, A, ws, n) = active /\ Seated(P, A) \cap Visited(P, A, n) = Seated(P, A)
  BY <1>2 DEF ActiveVisited
<1>4. /\ Cardinality(Seated(P, A) \cap Visited(P, A, n)) <= ws =>
            Cardinality(ActiveVisited(P, A, ws, n))
              = Cardinality(Seated(P, A) \cap Visited(P, A, n))
      /\ ws <= Cardinality(Seated(P, A) \cap Visited(P, A, n)) =>
            Cardinality(ActiveVisited(P, A, ws, n)) = ws
  BY <1>1, ActiveSoFar
<1>5. /\ seats <= ws => Cardinality(active) = seats
      /\ ws <= seats => Cardinality(active) = ws
  BY <1>3, <1>4
<1>6. IsFiniteSet(active) /\ seats \in Nat
  <2>1. IsFiniteSet(Seated(P, A))
    BY SeatsAreSum
  <2> QED
    BY <2>1, <1>2, FS_Subset, FS_CardinalityType
<1>7. Cardinality(active) <= ws
  <2> HIDE DEF seats, active
  <2> QED
    BY <1>5, <1>6
<1> QED
  BY <1>2, <1>5, <1>6, <1>7

(* The locals when the loop has ended. *)
LEMMA LoopEnds ==
  ASSUME NEW P, Rankable(P), NEW A, A \subseteq P, NEW ws \in Nat, ws % SegmentLen = 0
  PROVE  /\ \A p \in A : LoopResult(A, P \ A, ws).rank[p] = ClosedForm(P, A, ws)[p]
         /\ LoopResult(A, P \ A, ws).segments
              = Cardinality(ActiveSet(P, A, ws)) \div SegmentLen
         /\ LoopResult(A, P \ A, ws).standby = ws + Cardinality(A \ ActiveSet(P, A, ws))
<1> DEFINE n == Cardinality(DomainsOf(A))
           act == Cardinality(ActiveVisited(P, A, ws, n))
<1>1. LoopResult(A, P \ A, ws) = LocalsAfter(P, A, ws, n)
  BY LoopIs
<1>2. Visited(P, A, n) = A /\ ActiveSet(P, A, ws) \subseteq A
  BY VisitedSoFar DEF ActiveSet, Seated
<1>3. ActiveVisited(P, A, ws, n) = ActiveSet(P, A, ws)
  BY <1>2 DEF ActiveVisited
<1>4. LocalsAfter(P, A, ws, n) =
        [rank |-> [p \in Visited(P, A, n) |-> ClosedForm(P, A, ws)[p]],
         active |-> act,
         segments |-> act \div SegmentLen,
         standby |-> ws + Cardinality(Visited(P, A, n) \ ActiveSet(P, A, ws))]
  BY DEF LocalsAfter
<1> HIDE DEF n
<1>5. /\ LocalsAfter(P, A, ws, n).rank = [p \in Visited(P, A, n) |-> ClosedForm(P, A, ws)[p]]
      /\ LocalsAfter(P, A, ws, n).segments = act \div SegmentLen
      /\ LocalsAfter(P, A, ws, n).standby
           = ws + Cardinality(Visited(P, A, n) \ ActiveSet(P, A, ws))
  BY <1>4
<1> QED
  BY <1>1, <1>2, <1>3, <1>5

(* The loop runs out of nodes exactly when the feasibility test fails. *)
LEMMA ExactFeasibility ==
  ASSUME NEW P, Rankable(P), NEW A, A \subseteq P, NEW ws \in Nat, ws % SegmentLen = 0
  PROVE  CanMeetSegmentConstraint(A, ws) <=> ~Insufficient(A, P \ A, ws)
<1> DEFINE act == Cardinality(ActiveSet(P, A, ws))
           L == SegmentLen
<1>1. PICK sum \in Nat : /\ sum * L = Cardinality(Seated(P, A))
                         /\ CanMeetSegmentConstraint(A, ws) <=> sum >= ws \div L
  BY SeatsAreSum
<1>2. PICK w \in Nat : ws = w * L /\ ws \div L = w
  BY WholeSegments
<1>3. LoopResult(A, P \ A, ws).segments = act \div L
  BY LoopEnds
<1>4. /\ sum * L <= ws => act = sum * L
      /\ ws <= sum * L => act = ws
  BY <1>1, ActiveCount
<1>5. L \in Nat \ {0} /\ \A q \in Nat : (q * L) \div L = q
  <2>1. L \in Nat \ {0}
    BY SegmentIsPositive
  <2>2. ASSUME NEW q \in Nat PROVE (q * L) \div L = q
    <3>1. 0 \in 0 .. L - 1 /\ q * L \in Nat
      BY <2>1
    <3>2. (q * L + 0) \div L = q
      BY <2>1, <3>1, QuotientIs
    <3> QED
      BY <3>1, <3>2
  <2> QED
    BY <2>1, <2>2
<1> HIDE DEF act, L
<1>6. CASE sum >= w
  <2>1. w * L <= sum * L
    BY <1>5, <1>6, Scale
  <2>2. act \div L = w
    BY <2>1, <1>2, <1>4, <1>5
  <2> QED
    BY <2>2, <1>1, <1>2, <1>3, <1>6 DEF Insufficient, L
<1>7. CASE sum < w
  <2>1. sum * L <= w * L
    BY <1>5, <1>7, Scale
  <2>2. act \div L = sum
    BY <2>1, <1>2, <1>4, <1>5
  <2> QED
    BY <2>2, <1>1, <1>2, <1>3, <1>7 DEF Insufficient, L
<1> QED
  BY <1>6, <1>7

(* The loop computes the closed form, feasible or not. *)
LEMMA LoopComputesClosedForm ==
  ASSUME NEW P, Rankable(P), NEW A, A \subseteq P, NEW ws \in Nat, ws % SegmentLen = 0
  PROVE  LoopRanks(A, P \ A, ws) = ClosedForm(P, A, ws)
<1> DEFINE S == P \ A
           st == LoopResult(A, S, ws)
           last == Sorted(S, Keys(P))
           indexOf(p) == CHOOSE i \in DOMAIN last : last[i] = p
           spare == A \ ActiveSet(P, A, ws)
<1>1. A \cup S = P
  OBVIOUS
<1>2. LoopRanks(A, S, ws) = [p \in P |-> IF p \in A THEN st.rank[p]
                                        ELSE st.standby + indexOf(p) - 1]
  <2> DEFINE F(Q) == [p \in Q |-> IF p \in A THEN st.rank[p]
                       ELSE st.standby + (CHOOSE i \in DOMAIN Sorted(S, Keys(Q)) :
                                             Sorted(S, Keys(Q))[i] = p) - 1]
  <2>1. LoopRanks(A, S, ws) = F(A \cup S)
    BY DEF LoopRanks, Keys
  <2>2. F(P) = [p \in P |-> IF p \in A THEN st.rank[p]
                              ELSE st.standby + indexOf(p) - 1]
    OBVIOUS
  <2>3. F(A \cup S) = F(P)
    <3> HIDE DEF F, S
    <3> QED
      BY <1>1
  <2> HIDE DEF F, S
  <2> QED
    BY <2>1, <2>2, <2>3
<1>3. /\ \A p \in A : st.rank[p] = ClosedForm(P, A, ws)[p]
      /\ st.standby = ws + Cardinality(spare)
  BY LoopEnds
<1>4. ASSUME NEW p \in S PROVE st.standby + indexOf(p) - 1 = ClosedForm(P, A, ws)[p]
  <2>1. IsFiniteSet(S)
    <3>1. S \in SUBSET P
      OBVIOUS
    <3> QED
      BY <3>1, FS_Subset DEF Rankable
  <2>2. \A q \in S : Keys(P)[q] = SortKey(P, q) /\ Keys(P)[q] \in Int
    BY KeysDiffer DEF Keys
  <2>3. \A q, r \in S : q # r => Keys(P)[q] # Keys(P)[r]
    BY <2>2, KeysDiffer
  <2>4. /\ DOMAIN last = 1 .. Cardinality(S)
        /\ \A q \in S : \E i \in 1 .. Cardinality(S) : last[i] = q
        /\ \A i \in 1 .. Cardinality(S) :
              Cardinality({q \in S : Keys(P)[q] < Keys(P)[last[i]]}) = i - 1
    <3> HIDE DEF S
    <3> QED
      BY <2>1, <2>2, <2>3, SortedIs
  <2>5. PICK i \in 1 .. Cardinality(S) : i = indexOf(p) /\ last[i] = p
    BY <2>4
  <2>6. {q \in S : Keys(P)[q] < Keys(P)[p]} = {q \in S : SortKey(P, q) < SortKey(P, p)}
    BY <2>2
  <2>7. Cardinality({q \in S : SortKey(P, q) < SortKey(P, p)}) = i - 1
    BY <2>4, <2>5, <2>6
  <2>8. ClosedForm(P, A, ws)[p] = ws + Cardinality(spare)
           + Cardinality({q \in S : SortKey(P, q) < SortKey(P, p)})
    <3>1. p \in P \ A
      OBVIOUS
    <3>2. ClosedForm(P, A, ws)[p] = ws + Cardinality(A \ ActiveSet(P, A, ws))
                                    + Cardinality(StandbysBefore(P, A, p))
      BY <3>1, StandbyRank
    <3> QED
      BY <3>2 DEF StandbysBefore
  <2>9. Cardinality(spare) \in Nat
    <3>1. spare \in SUBSET P
      OBVIOUS
    <3> QED
      BY <3>1, FS_Subset, FS_CardinalityType DEF Rankable
  <2> HIDE DEF indexOf, st, spare, S
  <2> QED
    BY <2>5, <2>7, <2>8, <2>9, <1>3
<1>5. DOMAIN ClosedForm(P, A, ws) = P
  BY <1>1 DEF ClosedForm, AssignGroupRanks
<1>6. ClosedForm(P, A, ws) = [p \in P |-> ClosedForm(P, A, ws)[p]]
  BY <1>1 DEF ClosedForm, AssignGroupRanks
<1>7. ASSUME NEW p \in P
      PROVE  (IF p \in A THEN st.rank[p] ELSE st.standby + indexOf(p) - 1)
               = ClosedForm(P, A, ws)[p]
  <2>1. CASE p \in A
    BY <2>1, <1>3
  <2>2. CASE p \notin A
    <3> HIDE DEF indexOf, st
    <3> QED
      BY <2>2, <1>4
  <2> QED
    BY <2>1, <2>2
<1> HIDE DEF indexOf, st
<1> QED
  BY <1>2, <1>6, <1>7

-----------------------------------------------------------------------------
(* Segments stay in domains *)

(* A whole number of segments lies below a quotient as it lies below the number. *)
LEMMA SegmentsBelow ==
  ASSUME NEW a \in Nat, NEW b \in Nat, NEW c \in Nat, NEW d \in Nat \ {0},
         a < c * d, c * d <= b
  PROVE  a \div d < b \div d
<1>1. a \div d \in Nat /\ (a \div d) * d <= a /\ b \div d \in Nat
  <2>1. \A n \in Nat : n \div d \in Nat /\ (n \div d) * d <= n
    BY DivideSegments
  <2> QED
    BY <2>1
<1>2. PICK t \in Nat : b = c * d + t
  <2>1. c * d \in Nat /\ b - c * d \in Nat
    <3>1. c * d \in Nat
      BY DivideSegments
    <3> QED
      BY <3>1
  <2> DEFINE x == c * d
  <2>2. b = x + (b - x)
    <3>1. x \in Nat
      BY <2>1
    <3> HIDE DEF x
    <3> QED
      BY <3>1
  <2> QED
    BY <2>1, <2>2
<1>3. b \div d = c + (t \div d) /\ t \div d \in Nat
  BY <1>2, DivideSegments
<1>4. a \div d < c
  <2> SUFFICES ASSUME c <= a \div d PROVE FALSE
    BY <1>1
  <2>1. c * d <= (a \div d) * d /\ c * d \in Nat /\ (a \div d) * d \in Nat
    <3> DEFINE e == a \div d
    <3>1. e \in Nat /\ c <= e
      BY <1>1
    <3> HIDE DEF e
    <3>2. c * d <= e * d /\ c * d \in Nat /\ e * d \in Nat
      BY <3>1, Scale
    <3> QED
      BY <3>2 DEF e
  <2> QED
    BY <2>1, <1>1
<1> QED
  BY <1>1, <1>3, <1>4

(* Who is seated in an earlier domain has a rank in an earlier segment. *)
LEMMA EarlierSegment ==
  ASSUME NEW P, Rankable(P), NEW A, A \subseteq P,
         NEW p \in Seated(P, A), NEW q \in Seated(P, A),
         DomainKey(P, A, p) < DomainKey(P, A, q)
  PROVE  Cardinality(SeatedBefore(P, A, p)) \div SegmentLen
           < Cardinality(SeatedBefore(P, A, q)) \div SegmentLen
<1> DEFINE n == Cardinality(DomainsOf(A))
           dom == DomainAt(P, A)
<1>1. p \in A /\ q \in A
  BY DEF Seated
<1>2. PICK j \in 1 .. n : p \in dom[j]
  BY <1>1, VisitsDomains
<1>3. PICK k \in 1 .. n : q \in dom[k]
  BY <1>1, VisitsDomains
<1>4. j < k
  BY <1>2, <1>3, VisitsDomains
<1>5. n \in Nat
  BY VisitsDomains
<1> DEFINE V == Seated(P, A) \cap Visited(P, A, j)
<1> HIDE DEF n
<1>6. /\ Visited(P, A, j) \subseteq Visited(P, A, k - 1)
      /\ j \in 0 .. n
  <2>1. \A i \in 1 .. j : i \in 1 .. (k - 1)
    BY <1>4, <1>5
  <2> QED
    BY <2>1, <1>5 DEF Visited
<1>7. IsFiniteSet(Seated(P, A))
  BY SeatsAreSum
<1>8. IsFiniteSet(V)
  <2>1. V \in SUBSET Seated(P, A)
    OBVIOUS
  <2> QED
    BY <2>1, <1>7, FS_Subset
<1>9. /\ Visited(P, A, j) = Visited(P, A, j - 1) \cup dom[j]
      /\ \A r \in A : Before(P, A, r, p) => r \in Visited(P, A, j - 1) \/ r \in dom[j]
      /\ \A r \in A : r \in Visited(P, A, k - 1) => Before(P, A, r, q)
      /\ \A r \in A : Before(P, A, r, p) => r # p
  <2>1. \A i \in 1 .. n : Visited(P, A, i) = Visited(P, A, i - 1) \cup dom[i]
    BY VisitedSoFar DEF n
  <2>2. \A i \in 1 .. n : \A x \in dom[i], r \in A :
            Before(P, A, r, x) <=> \/ r \in Visited(P, A, i - 1)
                                   \/ r \in dom[i] /\ SortKey(P, r) < SortKey(P, x)
    BY VisitedSoFar DEF n
  <2>3. ~Before(P, A, p, p)
    <3>1. <<p, p>> \notin Visiting(P, A)
      BY <1>1, VisitingIsOrder DEF StrictOrder
    <3>2. <<p, p>> \in A \X A /\ <<p, p>>[1] = p /\ <<p, p>>[2] = p
      BY <1>1
    <3> QED
      BY <3>1, <3>2 DEF Visiting
  <2> QED
    BY <2>1, <2>2, <2>3, <1>2, <1>3
<1>10. Cardinality(SeatedBefore(P, A, p)) < Cardinality(V)
  <2>1. SeatedBefore(P, A, p) \in SUBSET V /\ p \in V /\ p \notin SeatedBefore(P, A, p)
    BY <1>2, <1>9 DEF SeatedBefore, Seated
  <2>2. SeatedBefore(P, A, p) \in SUBSET V /\ SeatedBefore(P, A, p) # V
    BY <2>1
  <2> HIDE DEF V
  <2>3. IsFiniteSet(SeatedBefore(P, A, p)) /\ Cardinality(SeatedBefore(P, A, p)) <= Cardinality(V)
           /\ (Cardinality(SeatedBefore(P, A, p)) = Cardinality(V) => SeatedBefore(P, A, p) = V)
    BY <2>2, <1>8, FS_Subset
  <2>4. Cardinality(SeatedBefore(P, A, p)) \in Nat /\ Cardinality(V) \in Nat
    BY <2>3, <1>8, FS_CardinalityType
  <2> QED
    BY <2>2, <2>3, <2>4
<1>11. Cardinality(V) <= Cardinality(SeatedBefore(P, A, q))
  <2>1. V \in SUBSET SeatedBefore(P, A, q)
    BY <1>6, <1>9 DEF SeatedBefore, Seated
  <2>2. SeatedBefore(P, A, q) \in SUBSET Seated(P, A)
    BY DEF SeatedBefore
  <2>3. IsFiniteSet(SeatedBefore(P, A, q))
    BY <2>2, <1>7, FS_Subset
  <2> QED
    BY <2>1, <2>3, FS_Subset
<1>12. \A r \in {p, q} : Cardinality(SeatedBefore(P, A, r)) \in Nat
  <2> SUFFICES ASSUME NEW r PROVE Cardinality(SeatedBefore(P, A, r)) \in Nat
    OBVIOUS
  <2>1. SeatedBefore(P, A, r) \in SUBSET Seated(P, A)
    BY DEF SeatedBefore
  <2> QED
    BY <2>1, <1>7, FS_Subset, FS_CardinalityType
<1>13. PICK c \in Nat : Cardinality(V) = c * SegmentLen
  BY <1>6, SeatsVisited DEF n
<1>14. SegmentLen \in Nat \ {0}
  BY SegmentIsPositive
<1> HIDE DEF V
<1> QED
  BY <1>10, <1>11, <1>12, <1>13, <1>14, SegmentsBelow

(* The active ranks of one segment stay in one domain. *)
LEMMA SegmentsStayInDomains ==
  ASSUME NEW P, Rankable(P), NEW A, A \subseteq P, NEW ws \in Nat,
         NEW p \in ActiveSet(P, A, ws), NEW q \in ActiveSet(P, A, ws),
         ClosedForm(P, A, ws)[p] \div SegmentLen = ClosedForm(P, A, ws)[q] \div SegmentLen
  PROVE  SameDomain(p, q)
<1> DEFINE n == Cardinality(DomainsOf(A))
           dom == DomainAt(P, A)
           rank(r) == Cardinality(SeatedBefore(P, A, r))
<1>1. p \in Seated(P, A) /\ q \in Seated(P, A) /\ p \in A /\ q \in A
  BY DEF ActiveSet, Seated
<1>2. rank(p) \div SegmentLen = rank(q) \div SegmentLen
  BY ActiveRank
<1>3. \A r \in {p, q} : rank(r) \div SegmentLen \in Int
  <2> SUFFICES ASSUME NEW r PROVE rank(r) \div SegmentLen \in Int
    OBVIOUS
  <2>1. IsFiniteSet(Seated(P, A)) /\ SeatedBefore(P, A, r) \in SUBSET Seated(P, A)
    BY SeatsAreSum DEF SeatedBefore
  <2>2. rank(r) \in Nat
    BY <2>1, FS_Subset, FS_CardinalityType
  <2>3. SegmentLen \in Nat \ {0}
    BY SegmentIsPositive
  <2> QED
    BY <2>2, <2>3
<1>4. PICK j \in 1 .. n : p \in dom[j]
  BY <1>1, VisitsDomains
<1>5. PICK k \in 1 .. n : q \in dom[k]
  BY <1>1, VisitsDomains
<1>6. ~(j < k)
  <2> SUFFICES ASSUME j < k PROVE FALSE
    OBVIOUS
  <2>1. DomainKey(P, A, p) < DomainKey(P, A, q)
    BY <1>4, <1>5, VisitsDomains
  <2>2. rank(p) \div SegmentLen < rank(q) \div SegmentLen
    BY <2>1, <1>1, EarlierSegment
  <2> QED
    BY <2>2, <1>2, <1>3
<1>7. ~(k < j)
  <2> SUFFICES ASSUME k < j PROVE FALSE
    OBVIOUS
  <2>1. DomainKey(P, A, q) < DomainKey(P, A, p)
    BY <1>4, <1>5, VisitsDomains
  <2>2. rank(q) \div SegmentLen < rank(p) \div SegmentLen
    BY <2>1, <1>1, EarlierSegment
  <2> QED
    BY <2>2, <1>2, <1>3
<1>8. j = k /\ dom[j] \in DomainsOf(A)
  <2>1. n \in Nat
    BY VisitsDomains
  <2>2. dom[j] \in DomainsOf(A)
    BY VisitsDomains
  <2> HIDE DEF n
  <2> QED
    BY <2>1, <2>2, <1>6, <1>7
<1> QED
  BY <1>1, <1>4, <1>5, <1>8, DomainMembers

-----------------------------------------------------------------------------
(* The ranks are dense *)

(* The members of a set that come before one of them, numbered in two ways: by a
   strict order, and from an offset. *)
LEMMA NumberedFrom ==
  ASSUME NEW D, IsFiniteSet(D), NEW R, StrictOrder(D, R), NEW base \in Nat,
         NEW f, \A p \in D : f[p] = base + Cardinality(Below(D, R, p))
  PROVE  /\ Cardinality(D) \in Nat
         /\ {f[p] : p \in D} = base .. (base + Cardinality(D) - 1)
<1>1. Cardinality(D) \in Nat
  BY FS_CardinalityType
<1>2. \A p \in D : /\ Cardinality(Below(D, R, p)) \in Nat
                   /\ Cardinality(Below(D, R, p)) < Cardinality(D)
  BY BelowGrows
<1>3. \A i \in Nat : i < Cardinality(D) => \E p \in D : Cardinality(Below(D, R, p)) = i
  BY Numbering
<1>4. ASSUME NEW v \in base .. (base + Cardinality(D) - 1) PROVE \E p \in D : f[p] = v
  <2>1. v - base \in Nat /\ v - base < Cardinality(D) /\ v = base + (v - base)
    BY <1>1
  <2>2. PICK p \in D : Cardinality(Below(D, R, p)) = v - base
    BY <2>1, <1>3
  <2> QED
    BY <2>1, <2>2
<1>5. ASSUME NEW p \in D PROVE f[p] \in base .. (base + Cardinality(D) - 1)
  BY <1>1, <1>2
<1> QED
  BY <1>1, <1>4, <1>5

(* Disjoint sets add up. *)
LEMMA DisjointUnion ==
  ASSUME NEW D, IsFiniteSet(D), NEW E, IsFiniteSet(E), D \cap E = {}
  PROVE  IsFiniteSet(D \cup E) /\ Cardinality(D \cup E) = Cardinality(D) + Cardinality(E)
<1>1. /\ IsFiniteSet(D \cup E)
      /\ Cardinality(D \cup E) = Cardinality(D) + Cardinality(E) - Cardinality(D \cap E)
  BY FS_Union
<1>2. Cardinality(D \cap E) = 0 /\ Cardinality(D) \in Nat /\ Cardinality(E) \in Nat
  BY FS_EmptySet, FS_CardinalityType
<1> QED
  BY <1>1, <1>2

(* The ranks are 0 .. n - 1: the active ones fill the world, the spares follow, the
   participants of incomplete groups come last. *)
LEMMA RanksAreDense ==
  ASSUME NEW P, Rankable(P), NEW A, A \subseteq P, NEW ws \in Nat, ws % SegmentLen = 0,
         CanMeetSegmentConstraint(A, ws)
  PROVE  /\ \A p \in P : ClosedForm(P, A, ws)[p] \in 0 .. (Cardinality(P) - 1)
         /\ \A i \in 0 .. (Cardinality(P) - 1) : \E p \in P : ClosedForm(P, A, ws)[p] = i
<1> DEFINE active == ActiveSet(P, A, ws)
           spare == A \ active
           S == P \ A
           rank == ClosedForm(P, A, ws)
           D == Seated(P, A)
           R == Visiting(P, A)
           K == RankOrder(P)
<1>1. /\ active \subseteq D /\ D \subseteq A /\ spare \subseteq A
      /\ P = active \cup (spare \cup S)
      /\ active \cap (spare \cup S) = {} /\ spare \cap S = {}
  BY DEF ActiveSet, Seated
<1>2. /\ IsFiniteSet(active) /\ IsFiniteSet(spare) /\ IsFiniteSet(S)
      /\ Cardinality(active) \in Nat /\ Cardinality(spare) \in Nat /\ Cardinality(S) \in Nat
  <2>1. \A T \in SUBSET P : IsFiniteSet(T) /\ Cardinality(T) \in Nat
    BY FS_Subset, FS_CardinalityType DEF Rankable
  <2>2. active \in SUBSET P /\ spare \in SUBSET P /\ S \in SUBSET P
    BY <1>1
  <2> HIDE DEF active, spare, S
  <2> QED
    BY <2>1, <2>2
<1>3. Cardinality(active) = ws
  <2>1. ws <= Cardinality(Seated(P, A))
    BY EnoughSeats
  <2> QED
    BY <2>1, ActiveCount
<1>4. Cardinality(P) = ws + Cardinality(spare) + Cardinality(S)
  <2> HIDE DEF active, spare, S
  <2>1. /\ IsFiniteSet(spare \cup S)
        /\ Cardinality(spare \cup S) = Cardinality(spare) + Cardinality(S)
    BY <1>1, <1>2, DisjointUnion
  <2>2. Cardinality(P) = Cardinality(active) + Cardinality(spare \cup S)
    <3> DEFINE rest == spare \cup S
    <3>1. P = active \cup rest /\ active \cap rest = {} /\ IsFiniteSet(rest)
      BY <1>1, <2>1
    <3> HIDE DEF rest
    <3>2. Cardinality(active \cup rest) = Cardinality(active) + Cardinality(rest)
      BY <1>2, <3>1, DisjointUnion
    <3> QED
      BY <3>1, <3>2 DEF rest
  <2> QED
    BY <1>2, <1>3, <2>1, <2>2
<1>5. StrictOrder(A, R) /\ StrictOrder(S, K)
  <2>1. S \subseteq P
    OBVIOUS
  <2> HIDE DEF S
  <2> QED
    BY <2>1, VisitingIsOrder, RankOrderIsOrder
<1>6. StrictOrder(D, R) /\ StrictOrder(spare, R)
  <2> HIDE DEF spare, D, R
  <2> QED
    BY <1>1, <1>5 DEF StrictOrder
<1>7. /\ \A p \in active : rank[p] \in Nat /\ rank[p] < ws
      /\ \A i \in Nat : i < ws => \E p \in active : rank[p] = i
  <2>1. \A p \in active : rank[p] = Cardinality(SeatedBefore(P, A, p))
    BY ActiveRank
  <2>2. \A p \in A : SeatedBefore(P, A, p) = Below(D, R, p)
    BY <1>1 DEF SeatedBefore, Below, Visiting
  <2>3. IsFiniteSet(D) /\ ws <= Cardinality(D) /\ Cardinality(D) \in Nat
    BY EnoughSeats, FS_CardinalityType
  <2>4. active = {p \in D : Cardinality(Below(D, R, p)) < ws}
    BY <1>1, <2>2 DEF ActiveSet
  <2> HIDE DEF active, rank, D, R
  <2>5. \A p \in D : Cardinality(Below(D, R, p)) \in Nat
    BY <1>6, <2>3, BelowGrows
  <2>6. \A i \in Nat : i < Cardinality(D) => \E p \in D : Cardinality(Below(D, R, p)) = i
    BY <1>6, <2>3, Numbering
  <2>7. \A p \in active : rank[p] = Cardinality(Below(D, R, p)) /\ p \in D
    BY <1>1, <2>1, <2>2
  <2>8. ASSUME NEW i \in Nat, i < ws PROVE \E p \in active : rank[p] = i
    <3>1. PICK p \in D : Cardinality(Below(D, R, p)) = i
      BY <2>3, <2>6, <2>8
    <3> QED
      BY <2>4, <2>7, <2>8, <3>1
  <2> QED
    BY <2>4, <2>5, <2>7, <2>8
<1>8. \A p \in spare : rank[p] = ws + Cardinality(Below(spare, R, p))
  <2> SUFFICES ASSUME NEW p \in spare PROVE rank[p] = ws + Cardinality(Below(spare, R, p))
    OBVIOUS
  <2>1. p \in A \ ActiveSet(P, A, ws)
    OBVIOUS
  <2>2. rank[p] = ws + Cardinality({q \in A \ ActiveSet(P, A, ws) : Before(P, A, q, p)})
    BY <2>1, SpareRank
  <2>3. {q \in A \ ActiveSet(P, A, ws) : Before(P, A, q, p)} = Below(spare, R, p)
    BY <2>1 DEF Below, Visiting
  <2> QED
    BY <2>2, <2>3
<1>9. \A p \in S : rank[p] = (ws + Cardinality(spare)) + Cardinality(Below(S, K, p))
  <2> SUFFICES ASSUME NEW p \in S
               PROVE  rank[p] = (ws + Cardinality(spare)) + Cardinality(Below(S, K, p))
    OBVIOUS
  <2>1. p \in P \ A
    OBVIOUS
  <2>2. ClosedForm(P, A, ws)[p] = ws + Cardinality(A \ ActiveSet(P, A, ws))
                                  + Cardinality(StandbysBefore(P, A, p))
    BY <2>1, StandbyRank
  <2>3. StandbysBefore(P, A, p) = Below(S, K, p)
    BY <2>1, RankOrderIsOrder DEF Below, StandbysBefore
  <2> QED
    BY <2>2, <2>3
<1>10. {rank[p] : p \in spare} = ws .. (ws + Cardinality(spare) - 1)
  <2> HIDE DEF spare, rank, R
  <2> QED
    BY <1>2, <1>6, <1>8, NumberedFrom
<1>11. {rank[p] : p \in S}
         = (ws + Cardinality(spare)) .. (ws + Cardinality(spare) + Cardinality(S) - 1)
  <2> DEFINE base == ws + Cardinality(spare)
  <2>1. base \in Nat
    <3> HIDE DEF spare
    <3> QED
      BY <1>2
  <2> HIDE DEF S, rank, K, base
  <2>2. {rank[p] : p \in S} = base .. (base + Cardinality(S) - 1)
    BY <2>1, <1>2, <1>5, <1>9, NumberedFrom DEF base
  <2> QED
    BY <2>2 DEF base
<1> HIDE DEF active, spare, S, rank
<1>12. ASSUME NEW p \in P PROVE rank[p] \in 0 .. (Cardinality(P) - 1)
  <2>1. CASE p \in active
    BY <2>1, <1>2, <1>4, <1>7
  <2>2. CASE p \in spare
    <3>1. rank[p] \in ws .. (ws + Cardinality(spare) - 1)
      BY <2>2, <1>10
    <3> QED
      BY <3>1, <1>2, <1>4
  <2>3. CASE p \in S
    <3>1. rank[p] \in (ws + Cardinality(spare)) .. (ws + Cardinality(spare) + Cardinality(S) - 1)
      BY <2>3, <1>11
    <3> QED
      BY <3>1, <1>2, <1>4
  <2> QED
    BY <1>1, <2>1, <2>2, <2>3
<1>13. ASSUME NEW i \in 0 .. (Cardinality(P) - 1) PROVE \E p \in P : rank[p] = i
  <2>1. CASE i < ws
    <3>1. i \in Nat
      OBVIOUS
    <3> QED
      BY <3>1, <2>1, <1>1, <1>7
  <2>2. CASE i \in ws .. (ws + Cardinality(spare) - 1)
    BY <2>2, <1>1, <1>10
  <2>3. CASE i \in (ws + Cardinality(spare)) .. (ws + Cardinality(spare) + Cardinality(S) - 1)
    BY <2>3, <1>1, <1>11
  <2> QED
    BY <2>1, <2>2, <2>3, <1>2, <1>4
<1> QED
  BY <1>12, <1>13 DEF rank

-----------------------------------------------------------------------------
(* Who loses a rank *)

(* One more makes a bigger set. *)
LEMMA OneMore ==
  ASSUME NEW X, NEW T, IsFiniteSet(T), X \subseteq T, NEW q \in T \ X
  PROVE  /\ IsFiniteSet(X) /\ Cardinality(X) \in Nat /\ Cardinality(T) \in Nat
         /\ Cardinality(X) + 1 <= Cardinality(T)
<1>1. X \in SUBSET T /\ X \cup {q} \in SUBSET T /\ q \notin X
  OBVIOUS
<1>2. IsFiniteSet(X) /\ Cardinality(X) \in Nat /\ Cardinality(T) \in Nat
  BY <1>1, FS_Subset, FS_CardinalityType
<1>3. Cardinality(X \cup {q}) = Cardinality(X) + 1
  BY <1>1, <1>2, FS_AddElement
<1>4. Cardinality(X \cup {q}) <= Cardinality(T)
  BY <1>1, FS_Subset
<1> QED
  BY <1>2, <1>3, <1>4

(* The order of visits, given by its pairs and by Before. *)
LEMMA BeforeOrders ==
  ASSUME NEW P, Rankable(P), NEW A, A \subseteq P
  PROVE  /\ \A p, q \in A : <<p, q>> \in Visiting(P, A) <=> Before(P, A, p, q)
         /\ \A p \in A : ~Before(P, A, p, p)
         /\ \A p, q, r \in A : Before(P, A, p, q) /\ Before(P, A, q, r) => Before(P, A, p, r)
<1>1. \A p, q \in A : <<p, q>> \in Visiting(P, A) <=> Before(P, A, p, q)
  BY DEF Visiting
<1>2. StrictOrder(A, Visiting(P, A))
  BY VisitingIsOrder
<1> QED
  BY <1>1, <1>2 DEF StrictOrder

(* More participants fill no fewer segments. *)
LEMMA WholeSegmentsGrow ==
  ASSUME NEW a \in Nat, NEW b \in Nat, a <= b
  PROVE  (a \div SegmentLen) * SegmentLen <= (b \div SegmentLen) * SegmentLen
<1> DEFINE x == a \div SegmentLen
           y == b \div SegmentLen
<1>1. SegmentLen \in Nat \ {0}
  BY SegmentIsPositive
<1>2. x \in Nat /\ y \in Nat /\ x <= y
  BY <1>1
<1> HIDE DEF x, y
<1>3. x * SegmentLen <= y * SegmentLen
  BY <1>1, <1>2, Scale
<1> QED
  BY <1>3 DEF x, y

(* Who is not seated comes after every seated member of the domain. *)
LEMMA UnseatedComesLast ==
  ASSUME NEW P, Rankable(P), NEW A, A \subseteq P,
         NEW q \in A \ Seated(P, A), NEW r \in Seated(P, A), SameDomain(q, r)
  PROVE  Before(P, A, r, q)
<1> DEFINE early(p) == EarlierInDomain(P, A, p)
           full == SegmentsOf(A, q) * SegmentLen
<1>1. q \in A /\ r \in A /\ q \in P /\ r \in P
  BY DEF Seated
<1>2. \A p \in A : SameDomain(q, p) <=> SameDomain(r, p)
  BY DomainsPartition
<1>3. SegmentsOf(A, r) = SegmentsOf(A, q)
  <2>1. {p \in A : SameDomain(r, p)} = {p \in A : SameDomain(q, p)}
    BY <1>2
  <2> QED
    BY <2>1 DEF SegmentsOf
<1>4. /\ Cardinality(early(r)) < full
      /\ ~(Cardinality(early(q)) < full)
  BY <1>1, <1>3 DEF Seated
<1>5. \A p \in A : IsFiniteSet(early(p)) /\ Cardinality(early(p)) \in Nat
  <2> SUFFICES ASSUME NEW p \in A
               PROVE  IsFiniteSet(early(p)) /\ Cardinality(early(p)) \in Nat
    OBVIOUS
  <2>1. early(p) \in SUBSET P /\ IsFiniteSet(P)
    BY DEF EarlierInDomain, Rankable
  <2> QED
    BY <2>1, FS_Subset, FS_CardinalityType
<1>6. full \in Int
  <2>1. IsFiniteSet({p \in A : SameDomain(q, p)})
    <3>1. {p \in A : SameDomain(q, p)} \in SUBSET P /\ IsFiniteSet(P)
      BY DEF Rankable
    <3> QED
      BY <3>1, FS_Subset
  <2>2. Cardinality({p \in A : SameDomain(q, p)}) \in Nat
    BY <2>1, FS_CardinalityType
  <2> DEFINE c == Cardinality({p \in A : SameDomain(q, p)})
  <2>3. full = (c \div SegmentLen) * SegmentLen /\ c \in Nat
    BY <2>2 DEF SegmentsOf
  <2> HIDE DEF c, full
  <2> QED
    BY <2>3, SegmentIsPositive, DivideSegments
<1>7. SortKey(P, r) < SortKey(P, q)
  <2> SUFFICES ASSUME ~(SortKey(P, r) < SortKey(P, q)) PROVE FALSE
    OBVIOUS
  <2>1. \A p \in A : SortKey(P, p) \in Int
    BY KeysDiffer
  <2>2. early(q) \in SUBSET early(r)
    BY <1>1, <1>2, <2>1 DEF EarlierInDomain
  <2>3. Cardinality(early(q)) <= Cardinality(early(r))
    BY <1>1, <1>5, <2>2, FS_Subset
  <2> HIDE DEF full, early
  <2> QED
    BY <1>1, <1>4, <1>5, <1>6, <2>3
<1> QED
  BY <1>1, <1>7, DomainsPartition DEF Before

(* A participant loses its active rank, when more take part or more are candidates,
   only together with somebody earlier in the new order who gains one. *)
LEMMA LostOnlyToEarlier ==
  ASSUME NEW P, Rankable(P), NEW A, A \subseteq P,
         NEW P2, Rankable(P2), NEW A2, A2 \subseteq P2, A \subseteq A2,
         NEW ws \in Nat,
         NEW q \in ActiveSet(P, A, ws) \ ActiveSet(P2, A2, ws)
  PROVE  \E r \in ActiveSet(P2, A2, ws) \ ActiveSet(P, A, ws) : Before(P2, A2, r, q)
<1> DEFINE act == ActiveSet(P, A, ws)
           act2 == ActiveSet(P2, A2, ws)
           seated2 == Seated(P2, A2)
           D == SeatedBefore(P2, A2, q)
           R == Visiting(P2, A2)
           X == {r \in act2 : Before(P2, A2, r, q)}
<1> SUFFICES ASSUME \A r \in act2 \ act : ~Before(P2, A2, r, q)
             PROVE  FALSE
  OBVIOUS
<1>1. /\ q \in act /\ q \in Seated(P, A) /\ q \in A /\ q \in A2 /\ q \notin act2
      /\ act2 \subseteq seated2 /\ seated2 \subseteq A2
      /\ act \subseteq Seated(P, A) /\ Seated(P, A) \subseteq A
  BY DEF ActiveSet, Seated
<1>2. X \subseteq act /\ q \notin X
  BY <1>1
<1>3. IsFiniteSet(act) /\ Cardinality(act) <= ws
  BY ActiveCount
<1>4. IsFiniteSet(D) /\ Cardinality(D) \in Nat /\ D \subseteq seated2
  <2>1. D \in SUBSET seated2 /\ IsFiniteSet(seated2)
    BY SeatsAreSum DEF SeatedBefore
  <2> QED
    BY <2>1, FS_Subset, FS_CardinalityType
<1>5. \A r \in A2 : <<r, q>> \in R <=> Before(P2, A2, r, q)
  BY <1>1, BeforeOrders
<1>6. StrictOrder(A2, R) /\ StrictOrder(D, R)
  <2>1. StrictOrder(A2, R)
    BY VisitingIsOrder
  <2> HIDE DEF D, R
  <2> QED
    BY <2>1, <1>1, <1>4 DEF StrictOrder
<1>7. \A r \in D : SeatedBefore(P2, A2, r) = Below(D, R, r)
  <2> SUFFICES ASSUME NEW r \in D PROVE SeatedBefore(P2, A2, r) = Below(D, R, r)
    OBVIOUS
  <2>1. r \in A2 /\ Before(P2, A2, r, q)
    BY <1>1, <1>4 DEF SeatedBefore
  <2>2. \A x \in seated2 : Before(P2, A2, x, r) => Before(P2, A2, x, q)
    BY <1>1, <2>1, BeforeOrders
  <2>3. \A x \in seated2 : Before(P2, A2, x, r) <=> <<x, r>> \in R
    BY <1>1, <2>1, BeforeOrders
  <2> HIDE DEF R
  <2> QED
    BY <2>2, <2>3 DEF SeatedBefore, Below
<1>8. X = {r \in D : Cardinality(Below(D, R, r)) < ws}
  <2>1. X = {r \in D : Cardinality(SeatedBefore(P2, A2, r)) < ws}
    BY <1>1 DEF ActiveSet, SeatedBefore
  <2> HIDE DEF X, D, R
  <2> QED
    BY <1>7, <2>1
<1>9. CASE ws <= Cardinality(D)
  <2>1. Cardinality(X) = ws
    <3> HIDE DEF X, D, R
    <3> QED
      BY <1>4, <1>6, <1>8, <1>9, FirstOnes
  <2>2. Cardinality(X) + 1 <= Cardinality(act)
    <3> HIDE DEF X, act
    <3> QED
      BY <1>1, <1>2, <1>3, OneMore
  <2>3. Cardinality(act) \in Nat
    BY <1>3, FS_CardinalityType
  <2> HIDE DEF X, act
  <2> QED
    BY <2>1, <2>2, <2>3, <1>3
<1>10. CASE Cardinality(D) < ws
  <2> DEFINE d == {r \in A : SameDomain(q, r)}
             d2 == {r \in A2 : SameDomain(q, r)}
             places == d \cap Seated(P, A)
             places2 == d2 \cap seated2
  <2>1. D = X
    <3>1. \A r \in D : Cardinality(Below(D, R, r)) < Cardinality(D)
                       /\ Cardinality(Below(D, R, r)) \in Nat
      <4> HIDE DEF D, R
      <4> QED
        BY <1>4, <1>6, BelowGrows
    <3> HIDE DEF D, R, X
    <3> QED
      BY <1>4, <1>8, <1>10, <3>1
  <2>2. q \notin seated2
    BY <1>1, <1>10 DEF ActiveSet
  <2>3. places2 \subseteq D
    <3> SUFFICES ASSUME NEW r \in places2 PROVE r \in D
      OBVIOUS
    <3>1. r \in seated2 /\ SameDomain(q, r)
      OBVIOUS
    <3>2. Before(P2, A2, r, q)
      BY <1>1, <2>2, <3>1, UnseatedComesLast
    <3> QED
      BY <3>1, <3>2 DEF SeatedBefore
  <2>4. places2 \subseteq places /\ q \in places /\ q \notin places2
    <3>1. places2 \subseteq Seated(P, A) /\ places2 \subseteq A
      <4> HIDE DEF places2, D, X, act
      <4> QED
        BY <1>1, <1>2, <2>1, <2>3
    <3>2. q \in d
      BY <1>1, DomainsPartition
    <3> QED
      BY <1>1, <2>2, <3>1, <3>2
  <2>5. /\ d \in DomainsOf(A) /\ d2 \in DomainsOf(A2)
        /\ d \in SUBSET d2
    BY <1>1 DEF DomainsOf
  <2>6. /\ IsFiniteSet(d)
        /\ Cardinality(places) = (Cardinality(d) \div SegmentLen) * SegmentLen
    <3> HIDE DEF d
    <3> QED
      BY <2>5, SeatsOfDomain
  <2>7. /\ IsFiniteSet(d2)
        /\ Cardinality(places2) = (Cardinality(d2) \div SegmentLen) * SegmentLen
    <3> HIDE DEF d2
    <3> QED
      BY <2>5, SeatsOfDomain
  <2>8. Cardinality(places2) + 1 <= Cardinality(places) /\ Cardinality(places) \in Nat
           /\ Cardinality(places2) \in Nat
    <3>1. IsFiniteSet(places)
      <4>1. places \in SUBSET d
        OBVIOUS
      <4> QED
        BY <4>1, <2>6, FS_Subset
    <3> HIDE DEF places, places2
    <3> QED
      BY <3>1, <2>4, OneMore
  <2>9. Cardinality(places) <= Cardinality(places2)
    <3>1. Cardinality(d) <= Cardinality(d2) /\ Cardinality(d) \in Nat /\ Cardinality(d2) \in Nat
      BY <2>5, <2>6, <2>7, FS_Subset, FS_CardinalityType
    <3> HIDE DEF d, d2, places, places2
    <3> QED
      BY <3>1, <2>6, <2>7, WholeSegmentsGrow
  <2> HIDE DEF places, places2
  <2> QED
    BY <2>8, <2>9
<1> QED
  BY <1>4, <1>9, <1>10

-----------------------------------------------------------------------------
(* The theorems about GroupRankLoop *)

(* Only active participants have ranks of the world. *)
LEMMA RanksBelowAreActive ==
  ASSUME NEW P, Rankable(P), NEW A, A \subseteq P, NEW ws \in Nat
  PROVE  /\ \A p \in P : ClosedForm(P, A, ws)[p] < ws => p \in ActiveSet(P, A, ws)
         /\ \A p \in ActiveSet(P, A, ws) : p \in A /\ ClosedForm(P, A, ws)[p] < ws
<1> DEFINE active == ActiveSet(P, A, ws)
           spare == A \ active
           rank == ClosedForm(P, A, ws)
<1>1. \A T \in SUBSET P : Cardinality(T) \in Nat
  BY FS_Subset, FS_CardinalityType DEF Rankable
<1>2. ASSUME NEW p \in P, p \notin active PROVE rank[p] \in Nat /\ rank[p] >= ws
  <2>1. A \cup (P \ A) = P
    OBVIOUS
  <2>2. rank[p] = IF p \in A THEN ws + Cardinality({q \in spare : Before(P, A, q, p)})
                  ELSE ws + Cardinality(spare)
                       + Cardinality({q \in P \ A : SortKey(P, q) < SortKey(P, p)})
    BY <1>2, <2>1 DEF ClosedForm, AssignGroupRanks
  <2>3. /\ {q \in spare : Before(P, A, q, p)} \in SUBSET P
        /\ spare \in SUBSET P
        /\ {q \in P \ A : SortKey(P, q) < SortKey(P, p)} \in SUBSET P
    OBVIOUS
  <2>4. /\ Cardinality({q \in spare : Before(P, A, q, p)}) \in Nat
        /\ Cardinality(spare) \in Nat
        /\ Cardinality({q \in P \ A : SortKey(P, q) < SortKey(P, p)}) \in Nat
    <3> HIDE DEF spare
    <3> QED
      BY <1>1, <2>3
  <2> HIDE DEF rank, spare
  <2> QED
    BY <2>2, <2>4
<1>3. \A p \in active : p \in A /\ p \in P /\ rank[p] = Cardinality(SeatedBefore(P, A, p))
  BY ActiveRank
<1>4. \A p \in active : Cardinality(SeatedBefore(P, A, p)) < ws
  BY DEF ActiveSet
<1>5. ASSUME NEW p \in P, rank[p] < ws PROVE p \in active
  <2> SUFFICES ASSUME p \notin active PROVE FALSE
    OBVIOUS
  <2>1. rank[p] \in Nat /\ rank[p] >= ws
    BY <1>2
  <2> HIDE DEF rank
  <2> QED
    BY <1>5, <2>1
<1> QED
  BY <1>3, <1>4, <1>5

\* The participants that have joined can be ranked.
JoinedRankably == Rankable(joined) /\ joined \subseteq Entrants

(* The invariant: participants that arrive with a node of their own, and with an
   infrastructure rank of their own or none, can be ranked at any time. *)
LEMMA JoinedIsRankable == ArrivalSpec => []JoinedRankably
<1>1. NobodyJoined => JoinedRankably
  BY FS_EmptySet DEF NobodyJoined, JoinedRankably, Rankable, DuplicateInfra
<1>2. ASSUME JoinedRankably, [Arriving]_joined
      PROVE  JoinedRankably'
  <2>1. CASE UNCHANGED joined
    BY <1>2, <2>1 DEF JoinedRankably, Rankable, DuplicateInfra, HasUnassignedInfra
  <2>2. ASSUME NEW p \in Entrants, Arrive(p)
        PROVE  JoinedRankably'
    <3>1. joined' = joined \cup {p} /\ IsFiniteSet(joined')
      BY <1>2, <2>2, FS_AddElement DEF Arrive, JoinedRankably, Rankable
    <3>2. /\ joined' \subseteq Entrants
          /\ \A q \in joined' : q.node \in Int /\ q.infra \in Int
      BY <1>2, <3>1, EntrantsAssumption DEF JoinedRankably
    <3>3. \A q, r \in joined' : q # r => q.node # r.node
      BY <1>2, <2>2, <3>1 DEF Arrive, JoinedRankably, Rankable
    <3>4. ~DuplicateInfra(joined')
      <4> SUFFICES ASSUME ~HasUnassignedInfra(joined'),
                          NEW q \in joined', NEW r \in joined', q # r, q.infra = r.infra
                   PROVE  FALSE
        BY DEF DuplicateInfra
      <4>1. p.infra # -1 /\ ~HasUnassignedInfra(joined)
        BY <3>1 DEF HasUnassignedInfra
      <4>2. \A s \in joined : s.infra # p.infra
        BY <2>2, <4>1 DEF Arrive
      <4>3. q \in joined /\ r \in joined
        BY <3>1, <4>2
      <4> QED
        BY <1>2, <4>1, <4>3 DEF JoinedRankably, Rankable, DuplicateInfra
    <3> QED
      BY <3>1, <3>2, <3>3, <3>4 DEF JoinedRankably, Rankable, DuplicateInfra, HasUnassignedInfra
  <2> QED
    BY <1>2, <2>1, <2>2 DEF Arriving
<1> QED
  BY <1>1, <1>2, PTL DEF ArrivalSpec

(* Candidates and standbys are the two parts of the participants, and a world size
   of the configuration is a number of whole segments. *)
LEMMA SplitJoined ==
  ASSUME NEW ws \in WorldSizes
  PROVE  /\ Candidates \subseteq joined /\ Standbys = joined \ Candidates
         /\ ws \in Nat /\ ws % SegmentLen = 0
BY WorldSizesAssumption DEF Candidates, Standbys, CompleteParticipants, IncompleteParticipants

(* The test that _host_close_round makes before it assigns ranks is exact: the loop
   runs out of nodes if and only if the test fails. *)
THEOREM TheTestIsExact == ArrivalSpec => []FeasibilityIsExact
<1>1. JoinedRankably => FeasibilityIsExact
  <2> SUFFICES ASSUME JoinedRankably, NEW ws \in WorldSizes
               PROVE  Feasible(ws) <=> ~Insufficient(Candidates, Standbys, ws)
    BY DEF FeasibilityIsExact
  <2>1. CanMeetSegmentConstraint(Candidates, ws)
          <=> ~Insufficient(Candidates, joined \ Candidates, ws)
    BY SplitJoined, ExactFeasibility DEF JoinedRankably
  <2> QED
    BY <2>1, SplitJoined DEF Feasible
<1> QED
  BY <1>1, JoinedIsRankable, PTL

(* The loop of _assign_group_ranks computes the closed form that the model of the
   rendezvous uses, so what is proved of the one holds of the other. *)
THEOREM TheLoopIsClosed == ArrivalSpec => []LoopIsClosedForm
<1>1. JoinedRankably => LoopIsClosedForm
  <2> SUFFICES ASSUME JoinedRankably, NEW ws \in WorldSizes
               PROVE  LoopRanks(Candidates, Standbys, ws)
                        = AssignGroupRanks(Candidates, Standbys, ws)
    BY DEF LoopIsClosedForm
  <2>1. LoopRanks(Candidates, joined \ Candidates, ws)
          = ClosedForm(joined, Candidates, ws)
    BY SplitJoined, LoopComputesClosedForm DEF JoinedRankably
  <2> QED
    BY <2>1, SplitJoined DEF ClosedForm
<1> QED
  BY <1>1, JoinedIsRankable, PTL

(* The ranks are dense, the world is filled by members of complete groups, and a
   segment of active ranks stays in one domain. *)
THEOREM RanksAreDenseAndInSegments == ArrivalSpec => []RanksAreDenseAndSegmented
<1>1. JoinedRankably => RanksAreDenseAndSegmented
  <2> SUFFICES ASSUME JoinedRankably, NEW ws \in WorldSizes, Feasible(ws)
               PROVE  LET rank == LoopRanks(Candidates, Standbys, ws)
                      IN  /\ {rank[p] : p \in joined} = 0 .. (Cardinality(joined) - 1)
                          /\ \A p, q \in joined :
                                /\ rank[p] < ws /\ rank[q] < ws
                                /\ rank[p] \div SegmentLen = rank[q] \div SegmentLen
                                => /\ Segment = 0 \/ p.domain = q.domain
                                   /\ GroupSize > 0 =>
                                        Cardinality({r \in joined : r.group = p.group})
                                          >= GroupSize
    BY DEF RanksAreDenseAndSegmented
  <2> DEFINE A == Candidates
             rank == ClosedForm(joined, A, ws)
  <2>1. /\ Rankable(joined) /\ A \subseteq joined /\ ws \in Nat /\ ws % SegmentLen = 0
        /\ CanMeetSegmentConstraint(A, ws)
    BY SplitJoined DEF JoinedRankably, Feasible
  <2>2. LoopRanks(Candidates, Standbys, ws) = rank
    <3>1. LoopRanks(Candidates, joined \ Candidates, ws) = ClosedForm(joined, Candidates, ws)
      BY <2>1, LoopComputesClosedForm
    <3> QED
      BY <3>1, SplitJoined
  <2> HIDE DEF A
  <2>3. {rank[p] : p \in joined} = 0 .. (Cardinality(joined) - 1)
    <3>1. \A p \in joined : rank[p] \in 0 .. (Cardinality(joined) - 1)
      BY <2>1, RanksAreDense
    <3>2. \A i \in 0 .. (Cardinality(joined) - 1) : \E p \in joined : rank[p] = i
      BY <2>1, RanksAreDense
    <3> HIDE DEF rank
    <3> QED
      BY <3>1, <3>2
  <2>4. \A p \in joined : rank[p] < ws => p \in ActiveSet(joined, A, ws)
    BY <2>1, RanksBelowAreActive
  <2>5. \A p \in A : GroupSize > 0 =>
            Cardinality({r \in joined : r.group = p.group}) >= GroupSize
    BY DEF A, Candidates, CompleteParticipants
  <2>6. \A p \in ActiveSet(joined, A, ws) : p \in A
    BY DEF ActiveSet, Seated
  <2>7. ASSUME NEW p \in joined, NEW q \in joined, rank[p] < ws, rank[q] < ws,
               rank[p] \div SegmentLen = rank[q] \div SegmentLen
        PROVE  /\ Segment = 0 \/ p.domain = q.domain
               /\ GroupSize > 0 =>
                    Cardinality({r \in joined : r.group = p.group}) >= GroupSize
    <3>1. p \in ActiveSet(joined, A, ws) /\ q \in ActiveSet(joined, A, ws)
      BY <2>4, <2>7
    <3>2. SameDomain(p, q)
      BY <2>1, <2>7, <3>1, SegmentsStayInDomains
    <3> QED
      BY <2>5, <2>6, <3>1, <3>2 DEF SameDomain
  <2> HIDE DEF rank
  <2> QED
    BY <2>2, <2>3, <2>7
<1> QED
  BY <1>1, JoinedIsRankable, PTL

(* A group that is complete stays complete when more participants come. *)
LEMMA CandidatesStay ==
  ASSUME NEW P2, IsFiniteSet(P2), NEW P, P \subseteq P2
  PROVE  CompleteParticipants(P, GroupSize) \subseteq CompleteParticipants(P2, GroupSize)
<1>1. ASSUME NEW p \in P, Cardinality({q \in P : q.group = p.group}) >= GroupSize
      PROVE  Cardinality({q \in P2 : q.group = p.group}) >= GroupSize
  <2>1. /\ {q \in P2 : q.group = p.group} \in SUBSET P2
        /\ {q \in P : q.group = p.group} \in SUBSET {q \in P2 : q.group = p.group}
    OBVIOUS
  <2>2. IsFiniteSet({q \in P2 : q.group = p.group})
    BY <2>1, FS_Subset
  <2>3. /\ Cardinality({q \in P : q.group = p.group})
             <= Cardinality({q \in P2 : q.group = p.group})
        /\ Cardinality({q \in P : q.group = p.group}) \in Nat
        /\ Cardinality({q \in P2 : q.group = p.group}) \in Nat
    BY <2>1, <2>2, FS_Subset, FS_CardinalityType
  <2> QED
    BY <1>1, <2>3, EntrantsAssumption
<1> QED
  BY <1>1 DEF CompleteParticipants

\* The first key of p's domain, as the property names it.
StartOf(P, A, p) == Min({SortKey(P, q) : q \in {r \in A : SameDomain(p, r)}})

(* It is the domain's place in the order of the visits. *)
LEMMA StartIsDomainKey ==
  ASSUME NEW P, Rankable(P), NEW A, A \subseteq P, NEW p \in A
  PROVE  StartOf(P, A, p) = DomainKey(P, A, p)
<1> DEFINE T == {SortKey(P, q) : q \in {r \in A : SameDomain(p, r)}}
           k == DomainKey(P, A, p)
<1>1. /\ k \in Int /\ \A j \in T : k <= j
      /\ k \in T /\ T \subseteq Int
  <2>1. /\ k \in Int
        /\ \E r \in A : SameDomain(p, r) /\ k = SortKey(P, r)
        /\ \A q \in A : SameDomain(p, q) => k <= SortKey(P, q)
    BY DomainKeyIsLeast
  <2>2. \A q \in A : SortKey(P, q) \in Int
    BY KeysDiffer
  <2> HIDE DEF k
  <2> QED
    BY <2>1, <2>2
<1>2. StartOf(P, A, p) = CHOOSE x \in T : \A y \in T : x <= y
  BY DEF StartOf, Min
<1> HIDE DEF k, T
<1>3. (CHOOSE x \in T : \A y \in T : x <= y) = k
  <2> DEFINE x == CHOOSE x \in T : \A y \in T : x <= y
  <2>1. x \in T /\ \A y \in T : x <= y
    BY <1>1
  <2> HIDE DEF x
  <2>2. x = k
    BY <1>1, <2>1
  <2> QED
    BY <2>2 DEF x
<1> QED
  BY <1>2, <1>3 DEF k

(* The active participants are those whom the loop gives a rank of the world. *)
LEMMA SeatsAreActive ==
  ASSUME NEW P, Rankable(P), NEW A, A \subseteq P, NEW ws \in Nat, ws % SegmentLen = 0
  PROVE  LET rank == LoopRanks(A, P \ A, ws)
         IN  {p \in A : rank[p] < ws} = ActiveSet(P, A, ws)
<1>1. LoopRanks(A, P \ A, ws) = ClosedForm(P, A, ws)
  BY LoopComputesClosedForm
<1>2. /\ \A p \in P : ClosedForm(P, A, ws)[p] < ws => p \in ActiveSet(P, A, ws)
      /\ \A p \in ActiveSet(P, A, ws) : p \in A /\ ClosedForm(P, A, ws)[p] < ws
  BY RanksBelowAreActive
<1> QED
  BY <1>1, <1>2

(* A late join costs a node its active rank only together with a node of the new
   assignment that comes before it in the new order. *)
THEOREM LostRanksGoToEarlier == ArrivalSpec => RankLostOnlyToEarlier
<1>1. ASSUME JoinedRankably, JoinedRankably', [Arriving]_joined
      PROVE  LosesOnlyToEarlier \/ UNCHANGED joined
  <2> DEFINE A == Candidates
             A2 == Candidates'
             P == joined
             P2 == joined'
  <2> SUFFICES ASSUME Arriving PROVE LosesOnlyToEarlier
    BY <1>1
  <2>1. /\ Rankable(P) /\ Rankable(P2) /\ P \subseteq P2
        /\ A \subseteq P /\ A2 \subseteq P2 /\ A \subseteq A2
        /\ Standbys = P \ A /\ Standbys' = P2 \ A2
    <3>1. P \subseteq P2 /\ IsFiniteSet(P2) /\ Rankable(P) /\ Rankable(P2)
      BY <1>1 DEF Arriving, Arrive, JoinedRankably, Rankable
    <3>2. A = CompleteParticipants(P, GroupSize) /\ A2 = CompleteParticipants(P2, GroupSize)
      BY DEF Candidates
    <3>3. CompleteParticipants(P, GroupSize) \subseteq CompleteParticipants(P2, GroupSize)
      BY <3>1, CandidatesStay
    <3>4. /\ CompleteParticipants(P, GroupSize) \subseteq P
          /\ CompleteParticipants(P2, GroupSize) \subseteq P2
      BY DEF CompleteParticipants
    <3>5. Standbys = P \ A /\ Standbys' = P2 \ A2
      BY DEF Candidates, Standbys, IncompleteParticipants
    <3> QED
      BY <3>1, <3>2, <3>3, <3>4, <3>5
  <2> SUFFICES ASSUME NEW ws \in WorldSizes
               PROVE
        LET seats(B, S) == LET rank == LoopRanks(B, S, ws) IN {p \in B : rank[p] < ws}
            key(p) == SortKey(P2, p)
            start(p) == Min({key(q) : q \in {r \in A2 : SameDomain(p, r)}})
            earlier(r, q) == start(r) < start(q) \/ (SameDomain(r, q) /\ key(r) < key(q))
            before == seats(A, Standbys)
            after == seats(A2, Standbys')
        IN  \A q \in before \ after : \E r \in after \ before : earlier(r, q)
    BY DEF LosesOnlyToEarlier
  <2> DEFINE seats(B, S) == LET rank == LoopRanks(B, S, ws) IN {p \in B : rank[p] < ws}
             act == ActiveSet(P, A, ws)
             act2 == ActiveSet(P2, A2, ws)
             start(p) == Min({SortKey(P2, q) : q \in {r \in A2 : SameDomain(p, r)}})
             earlier(r, q) == \/ start(r) < start(q)
                              \/ SameDomain(r, q) /\ SortKey(P2, r) < SortKey(P2, q)
  <2>2. ws \in Nat /\ ws % SegmentLen = 0
    BY SplitJoined
  <2> HIDE DEF A, A2, P, P2
  <2>3. seats(A, Standbys) = act /\ seats(A2, Standbys') = act2
    <3>1. {p \in A : LoopRanks(A, P \ A, ws)[p] < ws} = act
      BY <2>1, <2>2, SeatsAreActive
    <3>2. {p \in A2 : LoopRanks(A2, P2 \ A2, ws)[p] < ws} = act2
      BY <2>1, <2>2, SeatsAreActive
    <3> QED
      BY <2>1, <3>1, <3>2
  <2>4. ASSUME NEW q \in act \ act2
        PROVE  \E r \in act2 \ act : earlier(r, q)
    <3>1. PICK r \in act2 \ act : Before(P2, A2, r, q)
      BY <2>1, <2>2, LostOnlyToEarlier
    <3>2. r \in A2 /\ q \in A2
      BY <2>1 DEF ActiveSet, Seated
    <3>3. start(r) = DomainKey(P2, A2, r) /\ start(q) = DomainKey(P2, A2, q)
      BY <2>1, <3>2, StartIsDomainKey DEF StartOf
    <3> HIDE DEF start
    <3>4. earlier(r, q)
      BY <3>1, <3>3 DEF Before
    <3> QED
      BY <3>1, <3>4
  <2> HIDE DEF act, act2
  <2> QED
    BY <2>3, <2>4
<1> QED
  BY <1>1, JoinedIsRankable, PTL DEF RankLostOnlyToEarlier, ArrivalSpec
=============================================================================
