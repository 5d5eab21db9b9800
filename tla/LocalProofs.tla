---------------------------- MODULE LocalProofs -----------------------------
(* Proofs of invariants of the local checkpoint manager for any world size,   *)
(* any cliques, any number of iterations and of faults.                       *)
EXTENDS LocalCheckpointProperties, WellFoundedInduction, TLAPS

-----------------------------------------------------------------------------
(* Minima and maxima, which the code takes of bounded sets of integers.       *)

LEMMA SomeMin ==
    ASSUME NEW S \in SUBSET Nat, S # {}
    PROVE  Min(S) \in S /\ \A x \in S : Min(S) <= x
<1> DEFINE R == {ss \in Nat \X Nat : ss[1] < ss[2]}
<1>1. IsWellFoundedOn(R, Nat)
  BY NatLessThanWellFounded DEF OpToRel
<1>2. PICK m \in S : \A y \in S : ~(<<y, m>> \in R)
  <2> HIDE DEF R
  <2> QED BY <1>1, WFMin
<1>3. \A y \in S : m <= y
  <2> TAKE y \in S
  <2>1. <<y, m>> \in Nat \X Nat /\ <<y, m>>[1] = y /\ <<y, m>>[2] = m
    OBVIOUS
  <2>2. ~(y < m)
    BY <1>2, <2>1
  <2> QED BY <2>2
<1>4. \E x \in S : \A y \in S : x <= y
  BY <1>3
<1> QED BY <1>4 DEF Min

LEMMA SomeMax ==
    ASSUME NEW n \in Nat, NEW S, S \subseteq Int, S # {}, \A x \in S : x <= n
    PROVE  Max(S) \in S /\ \A x \in S : x <= Max(S)
<1> DEFINE T == {n - x : x \in S}
<1>1. T \in SUBSET Nat /\ T # {}
  <2>1. \A x \in S : n - x \in Nat
    OBVIOUS
  <2> QED BY <2>1
<1>2. Min(T) \in T /\ \A y \in T : Min(T) <= y
  BY <1>1, SomeMin
<1>3. PICK m \in S : Min(T) = n - m
  BY <1>2
<1>4. \A x \in S : x <= m
  <2> TAKE x \in S
  <2>1. n - m <= n - x
    BY <1>2, <1>3
  <2> QED BY <2>1
<1>5. \E x \in S : \A y \in S : x >= y
  BY <1>4
<1> QED BY <1>5 DEF Max

LEMMA MaxOfTwo ==
    ASSUME NEW a \in Int, NEW b \in Int
    PROVE  Max({a, b}) = IF a >= b THEN a ELSE b
<1>1. \E x \in {a, b} : \A y \in {a, b} : x >= y
  OBVIOUS
<1>2. Max({a, b}) \in {a, b} /\ \A y \in {a, b} : Max({a, b}) >= y
  BY <1>1 DEF Max
<1> QED BY <1>2

-----------------------------------------------------------------------------
(* The cliques of replication.                                                *)

LEMMA QuotientIs ==
    ASSUME NEW d \in Nat \ {0}, NEW q \in Nat, NEW t \in 0 .. d - 1
    PROVE  (q * d + t) \div d = q /\ (q * d + t) % d = t
OBVIOUS

LEMMA Products ==
    ASSUME NEW a \in Nat, NEW b \in Nat, NEW c \in Nat
    PROVE  /\ a * c \in Nat
           /\ (a + 1) * c = a * c + c
           /\ (a + b) * c = a * c + b * c
           /\ (a * b) * c = a * (b * c)
           /\ a * b = b * a
<1>1. a * c \in Nat
  OBVIOUS
<1>2. (a + 1) * c = a * c + c
  OBVIOUS
<1>3. (a + b) * c = a * c + b * c
  OBVIOUS
<1>4. (a * b) * c = a * (b * c)
  OBVIOUS
<1>5. a * b = b * a
  OBVIOUS
<1> QED BY <1>1, <1>2, <1>3, <1>4, <1>5

LEMMA ProductGrows ==
    ASSUME NEW a \in Nat, NEW b \in Nat, NEW c \in Nat, a <= b
    PROVE  a * c <= b * c
<1>1. PICK e \in Nat : b = a + e
  <2>1. b - a \in Nat /\ b = a + (b - a)
    OBVIOUS
  <2> QED BY <2>1
<1>2. b * c = a * c + e * c /\ a * c \in Nat /\ e * c \in Nat
  BY <1>1, Products
<1> QED BY <1>2

LEMMA Division ==
    ASSUME NEW a \in Nat, NEW d \in Nat \ {0}
    PROVE  \E q \in Nat, t \in 0 .. d - 1 : a = q * d + t
<1> DEFINE T == {x \in Nat : \E q \in Nat : a = q * d + x}
<1>1. T \in SUBSET Nat /\ a \in T
  <2>1. a = 0 * d + a
    OBVIOUS
  <2> QED BY <2>1
<1>2. PICK m \in T : \A x \in T : m <= x
  <2> HIDE DEF T
  <2> QED BY <1>1, SomeMin
<1>3. PICK q \in Nat : a = q * d + m
  BY <1>2
<1>4. ASSUME m >= d PROVE FALSE
  <2>1. m - d \in Nat /\ q + 1 \in Nat
    BY <1>2, <1>4
  <2>2. (q + 1) * d = q * d + d /\ q * d \in Nat
    BY Products
  <2>3. a = (q + 1) * d + (m - d)
    BY <1>2, <1>3, <2>2
  <2>4. m - d \in T
    BY <2>1, <2>3
  <2>5. m <= m - d
    BY <1>2, <2>4
  <2> QED BY <1>2, <2>5
<1>5. m \in 0 .. d - 1
  BY <1>2, <1>4
<1> QED BY <1>3, <1>5

(* A rank is known by its group of cliques, its clique and its place there.   *)
Place(s, q, u, k) == q * (s.jump * s.factor) + (k * s.jump + u)

LEMMA SetupTypes ==
    ASSUME NEW s \in Setups
    PROVE  /\ s.jump \in Nat \ {0} /\ s.factor \in Nat \ {0}
           /\ s.jump * s.factor \in Nat \ {0}
<1>1. s.jump \in Nat \ {0} /\ s.factor \in Nat \ {0}
  BY ConstantsAssumption
<1>2. \A a, b \in Nat \ {0} : a * b \in Nat \ {0}
  OBVIOUS
<1> QED BY <1>1, <1>2

LEMMA Within ==
    ASSUME NEW j \in Nat \ {0}, NEW f \in Nat \ {0}, NEW k \in 0 .. f - 1, NEW u \in 0 .. j - 1
    PROVE  k * j + u \in 0 .. (j * f) - 1
<1>1. (k + 1) * j = k * j + j /\ k * j \in Nat
  BY Products
<1>2. (k + 1) * j <= f * j
  <2>1. k + 1 \in Nat /\ f \in Nat /\ j \in Nat /\ k + 1 <= f
    OBVIOUS
  <2> QED BY <2>1, ProductGrows
<1>3. f * j = j * f
  OBVIOUS
<1>4. PICK p \in Nat : p = k * j
  BY <1>1
<1>5. PICK n \in Int : n = j * f
  OBVIOUS
<1>6. p + j <= n
  BY <1>1, <1>2, <1>3, <1>4, <1>5
<1>7. p + u \in 0 .. n - 1
  BY <1>6
<1> QED BY <1>4, <1>5, <1>7

\* Where the clique of a place begins.
LEMMA FirstOf ==
    ASSUME NEW s \in Setups, NEW q \in Nat, NEW u \in 0 .. s.jump - 1, NEW k \in 0 .. s.factor - 1
    PROVE  /\ Place(s, q, u, k) \in Nat
           /\ (Place(s, q, u, k) \div (s.jump * s.factor)) * (s.jump * s.factor)
                + (Place(s, q, u, k) % s.jump) = Place(s, q, u, 0)
           /\ Place(s, q, u, k) = Place(s, q, u, 0) + k * s.jump
<1> DEFINE j == s.jump
           f == s.factor
           d == j * f
<1>1. j \in Nat \ {0} /\ f \in Nat \ {0} /\ d \in Nat \ {0}
  BY SetupTypes
<1>2. k * j + u \in 0 .. d - 1
  BY <1>1, Within
<1>3. Place(s, q, u, k) = q * d + (k * j + u)
  BY DEF Place
<1>4. Place(s, q, u, k) \div d = q
  <2>1. PICK t \in 0 .. d - 1 : t = k * j + u
    BY <1>2
  <2>2. Place(s, q, u, k) = q * d + t
    BY <1>3, <2>1
  <2> HIDE DEF d
  <2> QED BY <1>1, <2>2, QuotientIs
<1>5. q * d \in Nat /\ k * j \in Nat
  <2>1. q \in Nat /\ d \in Nat /\ k \in Nat /\ j \in Nat
    BY <1>1
  <2> HIDE DEF d
  <2> QED BY <2>1, Products
<1>6. Place(s, q, u, k) % j = u
  <2>1. q * d = (q * f) * j
    <3>1. d = f * j
      BY <1>1
    <3>2. q * (f * j) = (q * f) * j
      BY <1>1, Products
    <3> QED BY <3>1, <3>2
  <2>2. q * f \in Nat /\ k \in Nat
    BY <1>1, Products
  <2>3. (q * f + k) * j = (q * f) * j + k * j
    BY <1>1, <2>2, Products
  <2>4. Place(s, q, u, k) = (q * f + k) * j + u
    <3>1. PICK x \in Nat, y \in Nat : x = q * d /\ y = k * j
      BY <1>5
    <3>2. Place(s, q, u, k) = x + (y + u)
      BY <1>3, <3>1
    <3>3. (q * f + k) * j = x + y
      BY <2>1, <2>3, <3>1
    <3> QED BY <1>1, <3>1, <3>2, <3>3
  <2>5. PICK m \in Nat : m = q * f + k
    BY <2>2
  <2>6. (m * j + u) % j = u
    BY <1>1, QuotientIs
  <2> QED BY <2>4, <2>5, <2>6
<1>7. Place(s, q, u, 0) = q * d + u
  BY <1>1 DEF Place
<1>8. Place(s, q, u, k) \in Nat /\ Place(s, q, u, k) = Place(s, q, u, 0) + k * j
  <2>1. PICK x \in Nat, y \in Nat : x = q * d /\ y = k * j
    BY <1>5
  <2>2. u \in Nat
    BY <1>1
  <2>3. Place(s, q, u, k) = x + (y + u) /\ Place(s, q, u, 0) = x + u
    BY <1>3, <1>7, <2>1
  <2> QED BY <2>1, <2>2, <2>3
<1> QED BY <1>4, <1>6, <1>7, <1>8

LEMMA CliqueOf ==
    ASSUME NEW s \in Setups, NEW q \in Nat, NEW u \in 0 .. s.jump - 1, NEW k \in 0 .. s.factor - 1
    PROVE  Clique(s, Place(s, q, u, k)) = {Place(s, q, u, m) : m \in 0 .. s.factor - 1}
<1> DEFINE first == Place(s, q, u, 0)
<1>1. Clique(s, Place(s, q, u, k)) = {first + m * s.jump : m \in 0 .. s.factor - 1}
  <2>1. (Place(s, q, u, k) \div (s.jump * s.factor)) * (s.jump * s.factor)
           + (Place(s, q, u, k) % s.jump) = first
    BY FirstOf
  <2> HIDE DEF first
  <2> QED BY <2>1 DEF Clique
<1>2. \A m \in 0 .. s.factor - 1 : first + m * s.jump = Place(s, q, u, m)
  BY FirstOf
<1> HIDE DEF first
<1> QED BY <1>1, <1>2

LEMMA PlaceOf ==
    ASSUME NEW s \in Setups, NEW r \in Nat
    PROVE  \E q \in Nat, u \in 0 .. s.jump - 1, k \in 0 .. s.factor - 1 : r = Place(s, q, u, k)
<1> DEFINE j == s.jump
           f == s.factor
           d == j * f
<1>1. j \in Nat \ {0} /\ f \in Nat \ {0} /\ d \in Nat \ {0}
  BY SetupTypes
<1>2. PICK q \in Nat, t \in 0 .. d - 1 : r = q * d + t
  <2> HIDE DEF d
  <2> QED BY <1>1, Division
<1>3. t \in Nat
  BY <1>1
<1>4. PICK k \in Nat, u \in 0 .. j - 1 : t = k * j + u
  BY <1>1, <1>3, Division
<1>5. k \in 0 .. f - 1
  <2>1. ASSUME k >= f PROVE FALSE
    <3>1. f * j <= k * j /\ k * j \in Nat
      BY <1>1, <2>1, ProductGrows, Products
    <3>2. f * j = d
      BY <1>1
    <3>3. PICK p \in Nat, n \in Nat : p = k * j /\ n = d
      BY <1>1, <3>1
    <3>4. n <= p /\ t = p + u /\ t <= n - 1 /\ u \in Nat
      BY <1>1, <1>2, <1>4, <3>1, <3>2, <3>3
    <3> QED BY <1>3, <3>3, <3>4
  <2> QED BY <1>1, <2>1
<1>6. r = Place(s, q, u, k)
  BY <1>2, <1>4 DEF Place
<1> QED BY <1>5, <1>6

(* Every rank belongs to one clique, its own: parse_group_sequence splits the *)
(* world, which the cliques divide.                                           *)
LEMMA Cliques ==
    ASSUME NEW s \in Setups, NEW r \in Ranks
    PROVE  /\ r \in Clique(s, r) /\ Clique(s, r) \subseteq Ranks
           /\ \A o \in Clique(s, r) : Clique(s, o) = Clique(s, r)
<1>1. r \in Nat /\ r < World /\ World \in Nat
  BY ConstantsAssumption DEF Ranks
<1>2. PICK q \in Nat, u \in 0 .. s.jump - 1, k \in 0 .. s.factor - 1 : r = Place(s, q, u, k)
  BY <1>1, PlaceOf
<1>3. Clique(s, r) = {Place(s, q, u, m) : m \in 0 .. s.factor - 1}
  BY <1>2, CliqueOf
<1>4. \A m \in 0 .. s.factor - 1 : Clique(s, Place(s, q, u, m)) = Clique(s, r)
  BY <1>2, CliqueOf
<1>5. ASSUME NEW m \in 0 .. s.factor - 1 PROVE Place(s, q, u, m) \in Ranks
  <2> DEFINE d == s.jump * s.factor
  <2>1. d \in Nat \ {0} /\ World % d = 0 /\ s.jump \in Nat \ {0} /\ s.factor \in Nat \ {0}
    BY SetupTypes, ConstantsAssumption
  <2>2. PICK p \in Nat, t \in 0 .. d - 1 : World = p * d + t
    <3>1. World \in Nat /\ d \in Nat \ {0}
      BY <1>1, <2>1
    <3>2. \A e \in Nat \ {0} : \E p \in Nat, t \in 0 .. e - 1 : World = p * e + t
      BY <3>1, Division
    <3> HIDE DEF d
    <3> QED BY <3>1, <3>2
  <2>3. t = 0
    <3> HIDE DEF d
    <3>1. World % d = t
      BY <2>1, <2>2, QuotientIs
    <3> QED BY <2>1, <3>1
  <2>4. World = p * d
    <3>1. p * d \in Nat
      <4>1. d \in Nat
        BY <2>1
      <4> HIDE DEF d
      <4> QED BY <4>1, Products
    <3> QED BY <2>2, <2>3, <3>1
  <2>5. k * s.jump + u \in 0 .. d - 1 /\ m * s.jump + u \in 0 .. d - 1
    BY <2>1, Within
  <2>6. PICK a \in 0 .. d - 1, b \in 0 .. d - 1 :
           r = q * d + a /\ Place(s, q, u, m) = q * d + b
    BY <1>2, <2>5 DEF Place
  <2> HIDE DEF d
  <2>7. q * d \in Nat /\ p * d \in Nat
    BY <2>1, Products
  <2>8. q < p
    <3>1. ASSUME p <= q PROVE FALSE
      <4>1. p * d <= q * d
        BY <2>1, <3>1, ProductGrows
      <4> QED BY <1>1, <2>1, <2>4, <2>6, <2>7, <4>1
    <3> QED BY <3>1
  <2>9. (q + 1) * d <= p * d /\ (q + 1) * d = q * d + d
    BY <2>1, <2>8, ProductGrows, Products
  <2>10. Place(s, q, u, m) < World /\ Place(s, q, u, m) \in Nat
    <3>1. PICK x \in Nat : x = q * d
      BY <2>7
    <3>2. x + d <= World
      BY <2>4, <2>9, <3>1
    <3> QED BY <1>1, <2>1, <2>6, <3>1, <3>2
  <2> QED BY <1>1, <2>10 DEF Ranks
<1> QED BY <1>2, <1>3, <1>4, <1>5

LEMMA StoresOf ==
    ASSUME setup \in Setups, NEW r \in Ranks
    PROVE  /\ r \in Stores(r) /\ Stores(r) \subseteq Ranks
           /\ \A o \in Stores(r) : Stores(o) = Stores(r)
BY Cliques DEF Stores

LEMMA SomeRank == 0 \in Ranks
BY ConstantsAssumption DEF Ranks

-----------------------------------------------------------------------------
(* The inductive invariant.                                                   *)

\* The directory of r holds the shard of o for iteration i.
Has(r, i, o) == [iteration |-> i, rank |-> o] \in MyCkptIds(r)

Cleanups == [kind : {"outdated", "failed"}, iteration : 1 .. MaxIteration + 1]

Types ==
    /\ setup \in Setups
    /\ DOMAIN files = Ranks
    /\ \A r \in Ranks : \A f \in files[r] : f.iteration \in Iterations /\ f.rank \in Ranks
    /\ pc \in [Ranks -> Modes]
    /\ iteration \in [Ranks -> 1 .. MaxIteration + 1]
    /\ latest \in [Ranks -> {NoIteration} \cup Iterations]
    /\ listed \in [Ranks -> SUBSET Ids]
    /\ arrived \subseteq Ranks
    /\ todo \in [Ranks -> SUBSET Ranks]
    /\ cleaning \in [Ranks -> SUBSET Cleanups]
    /\ saved \in {NoIteration} \cup Iterations

Good(r)   == pc[r] = "deciding" /\ latest[r] >= iteration[r]
Bad(r)    == pc[r] = "deciding" /\ latest[r] < iteration[r]
Works(r)  == pc[r] \in {"training", "writing", "written"}
Failed(r) == pc[r] = "failed"

(* The collectives keep the ranks together: while one of them is somewhere,   *)
(* the others are not far.                                                    *)
Starting   == \A r \in Ranks : pc[r] = "starting"
Resuming   == \A r \in Ranks : pc[r] = "loading" \/ Works(r) \/ Failed(r)
Validating == \A r \in Ranks : pc[r] = "validating"
Advancing  == \A r \in Ranks : Good(r) \/ Works(r) \/ Failed(r)
Aborting   == \A r \in Ranks : Bad(r) \/ Failed(r)

Phases == Starting \/ Resuming \/ Validating \/ Advancing \/ Aborting

(* The iteration the job is at, which each rank knows in its own way.         *)
Current(r) ==
    IF pc[r] = "loading" THEN latest[r] + 1
    ELSE IF Good(r) THEN iteration[r] + 1
    ELSE iteration[r]

Together == \A q, r \in Ranks : Current(q) = Current(r)

(* It is after the last good save, and nothing complete lies ahead.           *)
GoesOn(r) ==
    pc[r] # "starting" =>
        /\ Current(r) > saved
        /\ \A j \in Iterations : j > Current(r) => ~Retrievable(j)

Starts(r) == pc[r] = "starting" => iteration[r] = 1

Loads(r) ==
    pc[r] = "loading" =>
        latest[r] # NoIteration /\ Holders(r) # {} /\ Retrievable(latest[r])

(* A rank writes its shards from the lowest on.                               *)
Writes(r) ==
    pc[r] = "writing" =>
        /\ iteration[r] \in Iterations
        /\ todo[r] # {} /\ todo[r] \subseteq Stores(r)
        /\ \A o \in Stores(r) \ todo[r] :
              Has(r, iteration[r], o) /\ \A t \in todo[r] : o < t

Decides(r) == Good(r) => Retrievable(iteration[r])

(* What a thread still has to remove is older than the last good save, or it  *)
(* is what a failed save left, and then the job is at its end.                *)
Cleans(r) ==
    \A task \in cleaning[r] :
        \/ task.kind = "outdated" /\ task.iteration <= saved
        \/ task.kind = "failed" /\ task.iteration > saved /\ Aborting

(* What a rank has listed is still what its directory holds.                  *)
Lists(r) ==
    r \in arrived =>
        /\ pc[r] \in {"starting", "validating"}
        /\ \A i \in Iterations, o \in Ranks : i >= saved =>
             ([iteration |-> i, rank |-> o] \in listed[r] <=> Has(r, i, o))

(* With a shard of an iteration a directory has the lower ones of the clique: *)
(* some directory of a complete clique has them all.                          *)
Prefixes(r) ==
    \A i \in Iterations : \A o, p \in Stores(r) : o < p /\ Has(r, i, p) => Has(r, i, o)

SavedStays == saved # NoIteration => Retrievable(saved)

RankInv(r) ==
    /\ GoesOn(r) /\ Starts(r) /\ Loads(r) /\ Writes(r) /\ Decides(r)
    /\ Cleans(r) /\ Lists(r) /\ Prefixes(r)

LocalInv == Types /\ Phases /\ Together /\ SavedStays /\ \A r \in Ranks : RankInv(r)

-----------------------------------------------------------------------------
(* What the steps do to the directories.                                      *)

\* F has the shard of o for iteration i, complete.
Stored(F, i, o) == \E f \in F : ~f.dirty /\ f.iteration = i /\ f.rank = o

InDirectory(F, S, i, o) ==
    [iteration |-> i, rank |-> o]
        \in {[iteration |-> f.iteration, rank |-> f.rank] : f \in {g \in F : ~g.dirty /\ g.rank \in S}}

LEMMA DirectoryHolds ==
    ASSUME NEW F, NEW S, NEW i, NEW o
    PROVE  InDirectory(F, S, i, o) <=> o \in S /\ Stored(F, i, o)
<1>1. \A f : [iteration |-> i, rank |-> o] = [iteration |-> f.iteration, rank |-> f.rank]
                <=> i = f.iteration /\ o = f.rank
  OBVIOUS
<1> QED BY <1>1 DEF InDirectory, Stored

LEMMA HasFile ==
    ASSUME NEW r, NEW i, NEW o
    PROVE  /\ Has(r, i, o) <=> o \in Stores(r) /\ Stored(files[r], i, o)
           /\ Has(r, i, o)' <=> o \in Stores(r)' /\ Stored(files'[r], i, o)
<1>1. Has(r, i, o) <=> InDirectory(files[r], Stores(r), i, o)
  BY DEF Has, MyCkptIds, InDirectory
<1>2. Has(r, i, o)' <=> InDirectory(files'[r], Stores(r)', i, o)
  BY DEF Has, MyCkptIds, InDirectory
<1> QED BY <1>1, <1>2, DirectoryHolds

LEMMA SameStores == setup' = setup => \A r : Stores(r)' = Stores(r)
BY DEF Stores

LEMMA SameDirectory ==
    ASSUME setup' = setup, NEW r, files'[r] = files[r]
    PROVE  \A i, o : Has(r, i, o)' <=> Has(r, i, o)
BY SameStores, HasFile

\* Nothing is lost of an iteration, or nothing is added to it.
Keeps(i) == \A r, o \in Ranks : Has(r, i, o) => Has(r, i, o)'
Gains(i) == \E r, o \in Ranks : Has(r, i, o)' /\ ~Has(r, i, o)

LEMMA RetrievableStays ==
    ASSUME Types, setup' = setup, NEW i
    PROVE  /\ Keeps(i) /\ Retrievable(i) => Retrievable(i)'
           /\ ~Gains(i) /\ Retrievable(i)' => Retrievable(i)
<1>1. \A r \in Ranks : Stores(r)' = Stores(r) /\ Stores(r) \subseteq Ranks
  BY SameStores, StoresOf DEF Types
<1>2. Retrievable(i) <=> \A r \in Ranks : \E s \in Stores(r) : Has(s, i, r)
  BY DEF Retrievable, Has
<1>3. Retrievable(i)' <=> \A r \in Ranks : \E s \in Stores(r)' : Has(s, i, r)'
  BY DEF Retrievable, Has
<1> QED BY <1>1, <1>2, <1>3 DEF Keeps, Gains

LEMMA QuietDisk ==
    ASSUME Types, UNCHANGED <<setup, files>>
    PROVE  /\ \A r : Stores(r)' = Stores(r)
           /\ \A r, i, o : Has(r, i, o)' <=> Has(r, i, o)
           /\ \A i : Retrievable(i)' <=> Retrievable(i)
<1>1. \A r : Stores(r)' = Stores(r)
  BY SameStores
<1>2. \A r, i, o : Has(r, i, o)' <=> Has(r, i, o)
  BY SameDirectory
<1>3. ASSUME NEW i PROVE Retrievable(i)' <=> Retrievable(i)
  <2>1. Keeps(i) /\ ~Gains(i)
    BY <1>2 DEF Keeps, Gains
  <2> QED BY <2>1, RetrievableStays
<1> QED BY <1>1, <1>2, <1>3

\* A cleanup takes all of some iterations from one directory.
Gone(task, i) == IF task.kind = "outdated" THEN i < task.iteration ELSE i = task.iteration

LEMMA Cleaned ==
    ASSUME Types, setup' = setup, NEW r \in Ranks, NEW task,
           files' = [files EXCEPT ![r] = Remaining(r, task)]
    PROVE  /\ \A q \in Ranks : \A i, o :
                 Has(q, i, o)' <=> Has(q, i, o) /\ ~(q = r /\ Gone(task, i))
           /\ DOMAIN files' = Ranks
           /\ \A q \in Ranks : files'[q] \subseteq files[q]
<1>1. /\ DOMAIN files' = Ranks
      /\ \A q \in Ranks : files'[q] = IF q = r THEN Remaining(r, task) ELSE files[q]
  BY DEF Types
<1>2. Remaining(r, task) = {f \in files[r] : ~Gone(task, f.iteration)}
  BY DEF Remaining, Removes, Gone
<1>3. ASSUME NEW q \in Ranks, NEW i, NEW o
      PROVE  Has(q, i, o)' <=> Has(q, i, o) /\ ~(q = r /\ Gone(task, i))
  <2>1. CASE q = r
    <3>1. files'[r] = {f \in files[r] : ~Gone(task, f.iteration)}
      BY <1>1, <1>2
    <3>2. Stored(files'[r], i, o) <=> Stored(files[r], i, o) /\ ~Gone(task, i)
      BY <3>1 DEF Stored
    <3>3. Stores(r)' = Stores(r)
      BY SameStores
    <3> QED BY <2>1, <3>2, <3>3, HasFile
  <2>2. CASE q # r
    BY <1>1, <2>2, SameDirectory
  <2> QED BY <2>1, <2>2
<1> QED BY <1>1, <1>2, <1>3

WithShard(F, i, o, tag) ==
    {f \in F : f.iteration # i \/ f.rank # o} \cup {FileOf(i, o, FALSE, tag)}

\* A renamed file adds one shard, and only replaces what it is itself.
LEMMA Renamed ==
    ASSUME Types, setup' = setup, NEW r \in Ranks, NEW i, NEW o, o \in Stores(r), NEW tag,
           files' = [files EXCEPT ![r] = WithShard(@, i, o, tag)]
    PROVE  \A q \in Ranks : \A j, p :
               Has(q, j, p)' <=> Has(q, j, p) \/ (q = r /\ j = i /\ p = o)
<1> DEFINE new == FileOf(i, o, FALSE, tag)
           F == {f \in files[r] : f.iteration # i \/ f.rank # o} \cup {new}
<1>1. \A q \in Ranks : files'[q] = IF q = r THEN F ELSE files[q]
  BY DEF Types, WithShard
<1>2. new.iteration = i /\ new.rank = o /\ ~new.dirty
  BY DEF FileOf
<1>3. Stores(r)' = Stores(r)
  BY SameStores
<1>4. ASSUME NEW j, NEW p
      PROVE  Has(r, j, p)' <=> Has(r, j, p) \/ (j = i /\ p = o)
  <2> HIDE DEF new
  <2>1. Stored(F, j, p) <=> (j = i /\ p = o) \/ Stored(files[r], j, p)
    BY <1>2 DEF Stored
  <2>2. files'[r] = F
    BY <1>1
  <2> HIDE DEF F
  <2>3. Has(r, j, p)' <=> p \in Stores(r) /\ Stored(F, j, p)
    BY <1>3, <2>2, HasFile
  <2>4. Has(r, j, p) <=> p \in Stores(r) /\ Stored(files[r], j, p)
    BY HasFile
  <2>5. CASE j = i /\ p = o
    BY <2>1, <2>3, <2>5
  <2>6. CASE ~(j = i /\ p = o)
    BY <2>1, <2>3, <2>4, <2>6
  <2> QED BY <2>5, <2>6
<1>5. ASSUME NEW q \in Ranks, q # r, NEW j, NEW p PROVE Has(q, j, p)' <=> Has(q, j, p)
  <2>1. files'[q] = files[q]
    BY <1>1, <1>5
  <2> QED BY <2>1, SameDirectory
<1> QED BY <1>4, <1>5

\* A file that is being written does not count.
LEMMA Dirtied ==
    ASSUME Types, setup' = setup, NEW r \in Ranks, NEW i, NEW o,
           files' = [files EXCEPT ![r] = @ \cup {DirtyFile(i, o)}]
    PROVE  \A q \in Ranks : \A j, p : Has(q, j, p)' <=> Has(q, j, p)
<1>1. \A q \in Ranks : files'[q] = IF q = r THEN files[r] \cup {DirtyFile(i, o)} ELSE files[q]
  BY DEF Types
<1>2. DirtyFile(i, o).dirty
  BY DEF DirtyFile, FileOf
<1>3. \A q \in Ranks : Stores(q)' = Stores(q)
  BY SameStores
<1>4. ASSUME NEW q \in Ranks, NEW j, NEW p
      PROVE  Stored(files'[q], j, p) <=> Stored(files[q], j, p)
  BY <1>1, <1>2 DEF Stored
<1> QED BY <1>3, <1>4, HasFile

-----------------------------------------------------------------------------
(* A rank that a step leaves alone.                                           *)

LEMMA IterationsAreIntegers ==
    /\ NoIteration \in Int
    /\ \A i \in Iterations : i \in Nat /\ i > NoIteration
    /\ \A i \in 1 .. MaxIteration + 1 : i \in Nat
BY ConstantsAssumption DEF Iterations, NoIteration

LEMMA Bystander ==
    ASSUME LocalInv, NEW q \in Ranks, NEW lost, setup' = setup,
           saved' \in {NoIteration} \cup Iterations, saved <= saved',
           pc'[q] = pc[q], iteration'[q] = iteration[q], latest'[q] = latest[q],
           todo'[q] = todo[q], cleaning'[q] \subseteq cleaning[q],
           pc[q] = "loading" => listed' = listed,
           q \in arrived' => q \in arrived /\ listed'[q] = listed[q],
           Aborting => Aborting' /\ saved' = saved,
           pc[q] # "starting" => Current(q) > saved',
           \A i \in Iterations, o \in Ranks : Has(q, i, o)' <=> Has(q, i, o) /\ i \notin lost,
           \A j \in Iterations : pc[q] # "starting" /\ j > Current(q) => ~Gains(j),
           Aborting \/ \A j \in Iterations : j >= saved' => Keeps(j) /\ j \notin lost
    PROVE  /\ RankInv(q)' /\ Current(q)' = Current(q)
           /\ Works(q)' = Works(q) /\ Good(q)' = Good(q)
           /\ Bad(q)' = Bad(q) /\ Failed(q)' = Failed(q)
<1>1. /\ Works(q)' = Works(q) /\ Good(q)' = Good(q)
      /\ Bad(q)' = Bad(q) /\ Failed(q)' = Failed(q)
  BY DEF Works, Good, Bad, Failed
<1>2. Current(q)' = Current(q)
  BY <1>1 DEF Current
<1>3. Types /\ Stores(q)' = Stores(q) /\ Stores(q) \subseteq Ranks /\ RankInv(q)
  BY SameStores, StoresOf DEF LocalInv, Types
<1>4. /\ iteration[q] \in Nat /\ latest[q] \in Int /\ saved \in Int /\ saved' \in Int
      /\ latest[q] # NoIteration => latest[q] \in Iterations
  <2>1. iteration[q] \in 1 .. MaxIteration + 1 /\ latest[q] \in {NoIteration} \cup Iterations
    BY <1>3 DEF Types
  <2>2. saved \in {NoIteration} \cup Iterations
    BY <1>3 DEF Types
  <2>3. \A x \in {NoIteration} \cup Iterations : x \in Int
    BY IterationsAreIntegers
  <2> QED BY <2>1, <2>2, <2>3, IterationsAreIntegers
<1>5. GoesOn(q)'
  <2>1. ASSUME pc[q] # "starting", NEW j \in Iterations, j > Current(q)
        PROVE  ~Retrievable(j)'
    BY <1>3, <2>1, RetrievableStays DEF RankInv, GoesOn
  <2> QED BY <1>2, <2>1 DEF GoesOn
<1>6. Starts(q)'
  BY <1>3 DEF RankInv, Starts
<1>7. Loads(q)'
  <2> SUFFICES ASSUME pc[q] = "loading" PROVE Loads(q)'
    BY DEF Loads
  <2>1. latest[q] \in Iterations /\ Holders(q) # {} /\ Retrievable(latest[q])
    BY <1>3, <1>4 DEF RankInv, Loads
  <2>2. ~Aborting /\ Current(q) = latest[q] + 1
    BY DEF Aborting, Bad, Failed, Current
  <2>3. latest[q] >= saved'
    BY <1>4, <2>2
  <2>4. PICK i \in Iterations : i = latest[q]
    BY <2>1
  <2>5. Retrievable(i)'
    <3>1. Keeps(i) /\ Retrievable(i)
      BY <2>1, <2>2, <2>3, <2>4
    <3> QED BY <1>3, <3>1, RetrievableStays
  <2>6. Retrievable(latest[q])'
    BY <2>4, <2>5 DEF Retrievable
  <2>7. Holders(q)' = Holders(q)
    BY <1>3 DEF Holders
  <2>8. latest[q]' # NoIteration
    BY <1>3, <2>1, IterationsAreIntegers
  <2>9. Holders(q)' # {}
    BY <2>1, <2>7
  <2> QED BY <2>6, <2>8, <2>9 DEF Loads
<1>8. Writes(q)'
  <2> SUFFICES ASSUME pc[q] = "writing"
               PROVE  Writes(q)'
    BY DEF Writes
  <2>1. /\ iteration[q] \in Iterations
        /\ todo[q] # {} /\ todo[q] \subseteq Stores(q)
        /\ \A o \in Stores(q) \ todo[q] :
              Has(q, iteration[q], o) /\ \A t \in todo[q] : o < t
    BY <1>3 DEF RankInv, Writes
  <2>2. ~Aborting /\ iteration[q] >= saved'
    BY <1>4 DEF Aborting, Bad, Failed, Current, Good
  <2>3. \A o \in Ranks : Has(q, iteration[q], o)' <=> Has(q, iteration[q], o)
    <3>1. PICK i \in Iterations : i = iteration[q]
      BY <2>1
    <3>2. \A o \in Ranks : Has(q, i, o)' <=> Has(q, i, o)
      BY <2>2, <3>1
    <3> QED BY <3>1, <3>2 DEF Has
  <2> QED BY <1>3, <2>1, <2>3 DEF Writes
<1>9. Decides(q)'
  <2> SUFFICES ASSUME Good(q) PROVE Retrievable(iteration[q])'
    BY <1>1 DEF Decides
  <2>1. Retrievable(iteration[q]) /\ latest[q] >= iteration[q]
    BY <1>3 DEF RankInv, Decides, Good
  <2>2. ~Aborting /\ Current(q) = iteration[q] + 1 /\ pc[q] # "starting"
    BY <1>4, <2>1 DEF Aborting, Bad, Failed, Current, Good
  <2>3. iteration[q] >= saved' /\ iteration[q] \in Iterations
    BY <1>3, <1>4, <2>1, <2>2, ConstantsAssumption DEF Types, Iterations, NoIteration
  <2>4. Retrievable(iteration[q])'
    <3>1. Keeps(iteration[q])
      BY <2>2, <2>3
    <3>2. PICK i \in Iterations : i = iteration[q]
      BY <2>3
    <3>3. Retrievable(i)'
      BY <1>3, <2>1, <3>1, <3>2, RetrievableStays
    <3> QED BY <3>2, <3>3 DEF Retrievable
  <2> QED BY <2>4
<1>10. Cleans(q)'
  <2>1. \A task \in cleaning[q] : task.iteration \in 1 .. MaxIteration + 1
    BY <1>3 DEF Types, Cleanups
  <2>2. \A task \in cleaning[q] : task.iteration \in Int
    BY <2>1, IterationsAreIntegers
  <2> QED BY <1>3, <1>4, <2>2 DEF RankInv, Cleans
<1>11. Lists(q)'
  <2>1. q \in arrived' => pc'[q] \in {"starting", "validating"}
    BY <1>3 DEF RankInv, Lists
  <2>2. ASSUME q \in arrived', NEW i \in Iterations, NEW o \in Ranks, i >= saved'
        PROVE  [iteration |-> i, rank |-> o] \in listed'[q] <=> Has(q, i, o)'
    <3>1. i >= saved
      BY <1>4, <2>2, IterationsAreIntegers
    <3>2. i \notin lost
      BY <2>1, <2>2 DEF Aborting, Bad, Failed
    <3> QED BY <1>3, <2>2, <3>1, <3>2 DEF RankInv, Lists
  <2> QED BY <2>1, <2>2 DEF Lists
<1>12. Prefixes(q)'
  <2> SUFFICES ASSUME NEW i \in Iterations, NEW o \in Stores(q), NEW p \in Stores(q),
                      o < p, Has(q, i, p)'
               PROVE  Has(q, i, o)'
    BY <1>3 DEF Prefixes
  <2>1. Has(q, i, p) /\ i \notin lost
    BY <1>3
  <2>2. Has(q, i, o)
    BY <1>3, <2>1 DEF RankInv, Prefixes
  <2> QED BY <1>3, <2>1, <2>2
<1> QED BY <1>1, <1>2, <1>5, <1>6, <1>7, <1>8, <1>9, <1>10, <1>11, <1>12 DEF RankInv

-----------------------------------------------------------------------------
(* A step of one rank.                                                        *)

Moves(q) ==
    /\ pc[q] = "starting" => pc'[q] = "starting"
    /\ pc[q] = "validating" => pc'[q] = "validating"
    /\ pc[q] = "loading" => pc'[q] = "loading" \/ Works(q)'
    /\ Works(q) => Works(q)' \/ Failed(q)'
    /\ Failed(q) => Failed(q)'
    /\ Good(q) => Good(q)' \/ Works(q)'
    /\ Bad(q) => Bad(q)' \/ Failed(q)'

Aside(q) ==
    /\ pc'[q] = pc[q] /\ iteration'[q] = iteration[q] /\ latest'[q] = latest[q]
    /\ todo'[q] = todo[q] /\ cleaning'[q] = cleaning[q]
    /\ listed'[q] = listed[q] /\ (q \in arrived' => q \in arrived)

LEMMA AsideMoves ==
    ASSUME NEW q, Aside(q)
    PROVE  Moves(q) /\ Current(q)' = Current(q)
<1>1. /\ Works(q)' = Works(q) /\ Good(q)' = Good(q)
      /\ Bad(q)' = Bad(q) /\ Failed(q)' = Failed(q)
  BY DEF Aside, Works, Good, Bad, Failed
<1>2. Current(q)' = Current(q)
  BY <1>1 DEF Aside, Current
<1> QED BY <1>1, <1>2 DEF Aside, Moves

LEMMA PhasesStay ==
    ASSUME Phases, \A q \in Ranks : Moves(q)
    PROVE  Phases' /\ (Aborting => Aborting')
<1>1. Starting => Starting'
  BY DEF Starting, Moves
<1>2. Resuming => Resuming'
  BY DEF Resuming, Moves
<1>3. Validating => Validating'
  BY DEF Validating, Moves
<1>4. Advancing => Advancing'
  BY DEF Advancing, Moves
<1>5. Aborting => Aborting'
  BY DEF Aborting, Moves
<1> QED BY <1>1, <1>2, <1>3, <1>4, <1>5 DEF Phases

LEMMA PhaseOf ==
    ASSUME LocalInv, NEW q \in Ranks, NEW r \in Ranks
    PROVE  /\ pc[q] = "starting" <=> pc[r] = "starting"
           /\ pc[q] = "validating" <=> pc[r] = "validating"
           /\ pc[q] = "starting" => Starting
           /\ pc[q] = "validating" => Validating
           /\ pc[q] = "loading" => Resuming
           /\ Good(q) => Advancing
           /\ Bad(q) => Aborting
           /\ Works(q) => Resuming \/ Advancing
<1> USE DEF Works, Good, Bad, Failed
<1>1. Phases
  BY DEF LocalInv
<1>2. CASE Starting
  BY <1>2 DEF Starting
<1>3. CASE Resuming
  BY <1>3 DEF Resuming
<1>4. CASE Validating
  BY <1>4 DEF Validating
<1>5. CASE Advancing
  <2>1. ~Bad(q)
    <3>1. iteration[q] \in Int /\ latest[q] \in Int
      BY IterationsAreIntegers DEF LocalInv, Types
    <3> QED BY <1>5, <3>1 DEF Advancing
  <2> QED BY <1>5, <2>1 DEF Advancing
<1>6. CASE Aborting
  <2>1. ~Good(q)
    <3>1. iteration[q] \in Int /\ latest[q] \in Int
      BY IterationsAreIntegers DEF LocalInv, Types
    <3> QED BY <1>6, <3>1 DEF Aborting
  <2> QED BY <1>6, <2>1 DEF Aborting
<1> QED BY <1>1, <1>2, <1>3, <1>4, <1>5, <1>6 DEF Phases

LEMMA OneMoves ==
    ASSUME LocalInv, NEW r \in Ranks, setup' = setup, Types', SavedStays',
           saved <= saved', Aborting => saved' = saved,
           \A q \in Ranks \ {r} : Aside(q),
           pc[r] \in {"starting", "validating"} \/ listed' = listed,
           Moves(r), Current(r)' = Current(r), pc[r] # "starting" => Current(r) > saved',
           \A q \in Ranks \ {r} : \A i \in Iterations, o \in Ranks :
               Has(q, i, o)' <=> Has(q, i, o),
           \A j \in Iterations : Gains(j) => pc[r] # "starting" /\ j <= Current(r),
           Aborting \/ \A j \in Iterations : j >= saved' => Keeps(j),
           Starts(r)', Loads(r)', Writes(r)', Decides(r)', Cleans(r)', Lists(r)', Prefixes(r)'
    PROVE  LocalInv'
<1>1. \A q \in Ranks : Moves(q) /\ Current(q)' = Current(q)
  BY AsideMoves
<1>2. Phases' /\ Together' /\ (Aborting => Aborting')
  <2>1. Phases' /\ (Aborting => Aborting')
    BY <1>1, PhasesStay DEF LocalInv
  <2>2. Together'
    BY <1>1 DEF LocalInv, Together
  <2> QED BY <2>1, <2>2
<1>3. saved' \in {NoIteration} \cup Iterations /\ Types
  BY DEF LocalInv, Types
<1>4. ASSUME NEW j \in Iterations, pc[r] # "starting", j > Current(r) PROVE ~Gains(j)
  <2>1. j \in Int
    BY IterationsAreIntegers
  <2>2. Current(r) \in Int
    <3>1. iteration[r] \in Int /\ latest[r] \in Int
      BY <1>3, IterationsAreIntegers DEF Types
    <3> QED BY <3>1 DEF Current
  <2> QED BY <1>4, <2>1, <2>2
<1>5. ASSUME NEW q \in Ranks, q # r PROVE RankInv(q)'
  <2>1. Aside(q)
    BY <1>5
  <2>2. pc[q] = "loading" => listed' = listed
    BY PhaseOf
  <2>3. Current(q) = Current(r)
    BY DEF LocalInv, Together
  <2>4. pc[q] = "starting" <=> pc[r] = "starting"
    BY PhaseOf
  <2>5. PICK lost : lost = {}
    OBVIOUS
  <2>6. \A i \in Iterations, o \in Ranks : Has(q, i, o)' <=> Has(q, i, o) /\ i \notin lost
    BY <1>5, <2>5
  <2>7. \A j \in Iterations : pc[q] # "starting" /\ j > Current(q) => ~Gains(j)
    BY <1>4, <2>3, <2>4
  <2>8. Aborting \/ \A j \in Iterations : j >= saved' => Keeps(j) /\ j \notin lost
    BY <2>5
  <2>9. pc[q] # "starting" => Current(q) > saved'
    BY <2>3, <2>4
  <2>10. /\ pc'[q] = pc[q] /\ iteration'[q] = iteration[q] /\ latest'[q] = latest[q]
         /\ todo'[q] = todo[q] /\ cleaning'[q] \subseteq cleaning[q]
         /\ q \in arrived' => q \in arrived /\ listed'[q] = listed[q]
    BY <2>1 DEF Aside
  <2>11. Aborting => Aborting' /\ saved' = saved
    BY <1>2
  <2> HIDE <1>5
  <2> QED BY <1>3, <2>2, <2>6, <2>7, <2>8, <2>9, <2>10, <2>11, Bystander
<1>6. GoesOn(r)'
  <2>1. ASSUME NEW j \in Iterations, pc[r] # "starting", j > Current(r) PROVE ~Retrievable(j)'
    <3>1. ~Gains(j) /\ ~Retrievable(j)
      BY <1>4, <2>1 DEF LocalInv, RankInv, GoesOn
    <3> QED BY <1>3, <3>1, RetrievableStays
  <2>2. pc'[r] # "starting" => pc[r] # "starting"
    BY DEF Moves
  <2> QED BY <2>1, <2>2 DEF GoesOn
<1>7. RankInv(r)'
  BY <1>6 DEF RankInv
<1> QED BY <1>2, <1>5, <1>7 DEF LocalInv

LEMMA Quiet ==
    ASSUME LocalInv, UNCHANGED <<setup, files, saved>>
    PROVE  /\ \A r, i, o : Has(r, i, o)' <=> Has(r, i, o)
           /\ \A i : Keeps(i) /\ ~Gains(i)
           /\ SavedStays' /\ saved <= saved'
           /\ \A r : Prefixes(r)' <=> Prefixes(r)
<1>1. Types
  BY DEF LocalInv
<1>2. /\ \A r : Stores(r)' = Stores(r)
      /\ \A r, i, o : Has(r, i, o)' <=> Has(r, i, o)
      /\ \A i : Retrievable(i)' <=> Retrievable(i)
  BY <1>1, QuietDisk
<1>3. \A i : Keeps(i) /\ ~Gains(i)
  BY <1>2 DEF Keeps, Gains
<1>4. SavedStays'
  <2>1. PICK i : i = saved
    OBVIOUS
  <2>2. saved # NoIteration => Retrievable(i)'
    BY <1>2, <2>1 DEF LocalInv, SavedStays
  <2>3. Retrievable(i)' => Retrievable(saved)'
    BY <2>1 DEF Retrievable
  <2> QED BY <2>2, <2>3 DEF SavedStays
<1>5. saved <= saved'
  BY <1>1, IterationsAreIntegers DEF Types
<1>6. \A r : Prefixes(r)' <=> Prefixes(r)
  BY <1>2 DEF Prefixes
<1> QED BY <1>2, <1>3, <1>4, <1>5, <1>6

LEMMA Ahead ==
    ASSUME LocalInv, NEW r \in Ranks
    PROVE  pc[r] # "starting" => Current(r) > saved
BY DEF LocalInv, RankInv, GoesOn

LEMMA ListIdsStep ==
    ASSUME LocalInv, NEW r \in Ranks, ListIds(r)
    PROVE  LocalInv'
<1> USE DEF ListIds, disk, writing, history
<1>1. /\ \A i, o : Has(r, i, o)' <=> Has(r, i, o)
      /\ \A q \in Ranks : \A i \in Iterations, o \in Ranks : Has(q, i, o)' <=> Has(q, i, o)
      /\ \A i : Keeps(i) /\ ~Gains(i)
      /\ SavedStays' /\ saved <= saved' /\ Prefixes(r)'
  BY Quiet DEF LocalInv, RankInv
<1>2. listed' = [listed EXCEPT ![r] = MyCkptIds(r)] /\ MyCkptIds(r) \subseteq Ids
  BY DEF MyCkptIds, Ids, LocalInv, Types
<1>3. Types'
  <2>1. listed' \in [Ranks -> SUBSET Ids]
    BY <1>2 DEF LocalInv, Types
  <2> QED BY <2>1 DEF LocalInv, Types
<1>4. listed'[r] = MyCkptIds(r) /\ \A q \in Ranks \ {r} : listed'[q] = listed[q]
  BY <1>2 DEF LocalInv, Types
<1>5. \A q \in Ranks \ {r} : Aside(q)
  BY <1>4 DEF Aside
<1>6. Moves(r) /\ Current(r)' = Current(r)
  <2>1. /\ Works(r)' = Works(r) /\ Good(r)' = Good(r)
        /\ Bad(r)' = Bad(r) /\ Failed(r)' = Failed(r)
    BY DEF Works, Good, Bad, Failed
  <2> QED BY <2>1 DEF Moves, Current
<1>7. Starts(r)' /\ Loads(r)' /\ Writes(r)' /\ Decides(r)'
  BY DEF Starts, Loads, Writes, Decides, Good, LocalInv, RankInv
<1>8. Cleans(r)'
  BY DEF Cleans, Aborting, Bad, Failed, LocalInv, RankInv
<1>9. Lists(r)'
  <2>1. \A i, o : [iteration |-> i, rank |-> o] \in listed'[r] <=> Has(r, i, o)
    BY <1>4 DEF Has
  <2> QED BY <1>1, <2>1 DEF Lists
<1> HIDE DEF ListIds
<1>10. setup' = setup /\ saved' = saved /\ pc[r] \in {"starting", "validating"}
  BY DEF ListIds
<1> QED BY <1>1, <1>3, <1>5, <1>6, <1>7, <1>8, <1>9, <1>10, OneMoves, Ahead

LEMMA Integral ==
    ASSUME LocalInv, NEW r \in Ranks
    PROVE  /\ iteration[r] \in Nat /\ latest[r] \in Int /\ saved \in Int
           /\ latest[r] # NoIteration => latest[r] \in Iterations
           /\ Current(r) \in Int
<1>1. iteration[r] \in 1 .. MaxIteration + 1 /\ latest[r] \in {NoIteration} \cup Iterations
  BY DEF LocalInv, Types
<1>2. saved \in {NoIteration} \cup Iterations
  BY DEF LocalInv, Types
<1>3. \A x \in {NoIteration} \cup Iterations : x \in Int
  BY IterationsAreIntegers
<1>4. iteration[r] \in Nat /\ latest[r] \in Int
  BY <1>1, <1>3, IterationsAreIntegers
<1> QED BY <1>1, <1>2, <1>3, <1>4 DEF Current

LEMMA LoadStep ==
    ASSUME LocalInv, NEW r \in Ranks, Load(r)
    PROVE  LocalInv'
<1> USE DEF Load, disk, writing, finding
<1>1. pc[r] = "loading" /\ Holders(r) # {} /\ latest[r] \in Iterations
  BY Integral DEF LocalInv, RankInv, Loads
<1>2. iteration' = [iteration EXCEPT ![r] = latest[r] + 1] /\ pc' = [pc EXCEPT ![r] = "training"]
  BY <1>1
<1>3. UNCHANGED <<setup, files, saved, cleaning, latest, listed, arrived, todo>>
  OBVIOUS
<1> HIDE DEF Load
<1>4. /\ \A i, o : Has(r, i, o)' <=> Has(r, i, o)
      /\ \A q \in Ranks : \A i \in Iterations, o \in Ranks : Has(q, i, o)' <=> Has(q, i, o)
      /\ \A i : Keeps(i) /\ ~Gains(i)
      /\ SavedStays' /\ saved <= saved' /\ Prefixes(r)'
  BY <1>3, Quiet DEF LocalInv, RankInv
<1>5. Types'
  <2>1. latest[r] + 1 \in 1 .. MaxIteration + 1
    BY <1>1, ConstantsAssumption DEF Iterations
  <2>2. iteration' \in [Ranks -> 1 .. MaxIteration + 1]
    BY <1>2, <2>1 DEF LocalInv, Types
  <2>3. pc' \in [Ranks -> Modes]
    BY <1>2 DEF LocalInv, Types, Modes
  <2> QED BY <1>3, <2>2, <2>3 DEF LocalInv, Types
<1>6. /\ pc'[r] = "training" /\ iteration'[r] = latest[r] + 1
      /\ \A q \in Ranks \ {r} : pc'[q] = pc[q] /\ iteration'[q] = iteration[q]
  BY <1>2 DEF LocalInv, Types
<1>7. \A q \in Ranks \ {r} : Aside(q)
  BY <1>3, <1>6 DEF Aside
<1>8. Moves(r)
  BY <1>1, <1>6 DEF Moves, Works, Failed, Good, Bad
<1>9. Current(r)' = Current(r)
  BY <1>1, <1>6 DEF Current, Good
<1>10. Starts(r)' /\ Loads(r)' /\ Writes(r)' /\ Decides(r)'
  BY <1>6 DEF Starts, Loads, Writes, Decides, Good
<1>11. Cleans(r)'
  <2>1. ~Aborting
    BY <1>1 DEF Aborting, Bad, Failed
  <2> QED BY <1>3, <2>1 DEF Cleans, LocalInv, RankInv
<1>12. Lists(r)'
  BY <1>1, <1>3 DEF Lists, LocalInv, RankInv
<1> QED BY <1>3, <1>4, <1>5, <1>7, <1>8, <1>9, <1>10, <1>11, <1>12, OneMoves, Ahead

\* A rank that writes is behind no one, and nobody looks for a checkpoint.
LEMMA Writing ==
    ASSUME LocalInv, NEW r \in Ranks, pc[r] = "writing"
    PROVE  /\ ~Aborting /\ r \notin arrived /\ Current(r) = iteration[r]
           /\ iteration[r] > saved /\ iteration[r] \in Iterations
           /\ todo[r] \subseteq Stores(r) /\ todo[r] # {} /\ Stores(r) \subseteq Ranks
           /\ Min(todo[r]) \in todo[r] /\ \A t \in todo[r] : Min(todo[r]) <= t
           /\ Works(r)
<1>1. Writes(r) /\ Lists(r) /\ GoesOn(r)
  BY DEF LocalInv, RankInv
<1>2. ~Aborting /\ r \notin arrived /\ Works(r) /\ Current(r) = iteration[r]
  BY <1>1 DEF Lists, Aborting, Bad, Failed, Works, Current, Good
<1>3. /\ iteration[r] \in Iterations
      /\ todo[r] \subseteq Stores(r) /\ todo[r] # {} /\ Stores(r) \subseteq Ranks
  BY <1>1, StoresOf DEF Writes, LocalInv, Types
<1>4. todo[r] \in SUBSET Nat
  <2>1. Ranks \subseteq Nat
    BY ConstantsAssumption DEF Ranks
  <2> QED BY <1>3, <2>1
<1>5. Min(todo[r]) \in todo[r] /\ \A t \in todo[r] : Min(todo[r]) <= t
  BY <1>3, <1>4, SomeMin
<1> QED BY <1>1, <1>2, <1>3, <1>5 DEF GoesOn

LEMMA RaiseStep ==
    ASSUME LocalInv, NEW r \in Ranks, pc[r] = "writing", Raise(r),
           UNCHANGED <<setup, files, cleaning, iteration, latest, listed, arrived, saved>>
    PROVE  LocalInv'
<1>1. /\ ~Aborting /\ r \notin arrived /\ Current(r) = iteration[r] /\ Works(r)
  BY Writing
<1>2. PICK next \in {"written", "failed"} : pc' = [pc EXCEPT ![r] = next]
  BY DEF Raise
<1>3. todo' = [todo EXCEPT ![r] = {}]
  BY DEF Raise
<1>4. /\ \A q \in Ranks : \A i \in Iterations, o \in Ranks : Has(q, i, o)' <=> Has(q, i, o)
      /\ \A i : Keeps(i) /\ ~Gains(i)
      /\ SavedStays' /\ saved <= saved' /\ Prefixes(r)'
  BY Quiet DEF LocalInv, RankInv
<1>5. Types'
  <2>1. pc' \in [Ranks -> Modes]
    BY <1>2 DEF LocalInv, Types, Modes
  <2>2. todo' \in [Ranks -> SUBSET Ranks]
    BY <1>3 DEF LocalInv, Types
  <2> QED BY <2>1, <2>2 DEF LocalInv, Types
<1>6. /\ pc'[r] = next
      /\ \A q \in Ranks \ {r} : pc'[q] = pc[q] /\ todo'[q] = todo[q]
  BY <1>2, <1>3 DEF LocalInv, Types
<1>7. \A q \in Ranks \ {r} : Aside(q)
  BY <1>6 DEF Aside
<1>8. Moves(r) /\ Current(r)' = Current(r)
  <2>1. Moves(r)
    BY <1>6 DEF Moves, Works, Failed, Good, Bad
  <2> QED BY <1>1, <1>6, <2>1 DEF Current, Good
<1>9. Starts(r)' /\ Loads(r)' /\ Writes(r)' /\ Decides(r)'
  BY <1>6 DEF Starts, Loads, Writes, Decides, Good
<1>10. Cleans(r)' /\ Lists(r)'
  BY <1>1 DEF Cleans, Lists, LocalInv, RankInv
<1> QED BY <1>1, <1>4, <1>5, <1>7, <1>8, <1>9, <1>10, OneMoves, Ahead

LEMMA WriteFailsStep ==
    ASSUME LocalInv, NEW r \in Ranks, WriteFails(r)
    PROVE  LocalInv'
<1>1. pc[r] = "writing" /\ Raise(r)
  BY DEF WriteFails
<1>2. UNCHANGED <<setup, files, cleaning, iteration, latest, listed, arrived, saved>>
  BY DEF WriteFails, disk, finding, history
<1> QED BY <1>1, <1>2, RaiseStep

\* The last good save survives what takes nothing of it.
LEMMA SavedSurvives ==
    ASSUME LocalInv, setup' = setup, saved' = saved,
           \A j \in Iterations : j = saved => Keeps(j)
    PROVE  SavedStays'
<1> SUFFICES ASSUME saved # NoIteration PROVE Retrievable(saved)'
  BY DEF SavedStays
<1>1. PICK i \in Iterations : i = saved
  BY DEF LocalInv, Types
<1>2. Keeps(i)
  BY <1>1
<1>3. Retrievable(i)
  BY <1>1 DEF LocalInv, SavedStays
<1>4. Retrievable(i)'
  BY <1>2, <1>3, RetrievableStays DEF LocalInv
<1> QED BY <1>1, <1>4 DEF Retrievable

LEMMA OpenDirtyStep ==
    ASSUME LocalInv, NEW r \in Ranks, OpenDirty(r)
    PROVE  LocalInv'
<1> DEFINE f == DirtyFile(iteration[r], Min(todo[r]))
<1>1. pc[r] = "writing" /\ UNCHANGED <<setup, iteration, latest, listed, arrived, cleaning, saved>>
  BY DEF OpenDirty, finding, history
<1>2. CASE f \in files[r]
  BY <1>1, <1>2, RaiseStep DEF OpenDirty
<1>3. CASE f \notin files[r]
  <2>1. files' = [files EXCEPT ![r] = @ \cup {f}] /\ UNCHANGED <<pc, todo>>
    BY <1>3 DEF OpenDirty
  <2>2. /\ ~Aborting /\ r \notin arrived /\ Works(r)
        /\ iteration[r] \in Iterations /\ Min(todo[r]) \in Ranks
    BY <1>1, Writing
  <2>3. \A q \in Ranks : \A j, p : Has(q, j, p)' <=> Has(q, j, p)
    BY <1>1, <2>1, Dirtied DEF LocalInv
  <2>4. /\ \A q \in Ranks : \A i \in Iterations, o \in Ranks : Has(q, i, o)' <=> Has(q, i, o)
        /\ \A i : Keeps(i) /\ ~Gains(i)
    BY <2>3 DEF Keeps, Gains
  <2>5. Types'
    <3>1. f.iteration \in Iterations /\ f.rank \in Ranks
      BY <2>2 DEF DirtyFile, FileOf
    <3>2. DOMAIN files' = Ranks
      BY <2>1 DEF LocalInv, Types
    <3>3. \A q \in Ranks : \A g \in files'[q] : g.iteration \in Iterations /\ g.rank \in Ranks
      <4> HIDE DEF f
      <4> QED BY <2>1, <3>1 DEF LocalInv, Types
    <3> QED BY <1>1, <2>1, <3>2, <3>3 DEF LocalInv, Types
  <2>6. SavedStays' /\ saved <= saved'
    <3>1. SavedStays'
      BY <1>1, <2>4, SavedSurvives
    <3> QED BY <1>1, <3>1, Integral
  <2>7. \A q \in Ranks : Aside(q)
    BY <1>1, <2>1 DEF Aside
  <2>8. Moves(r) /\ Current(r)' = Current(r)
    BY <2>7, AsideMoves
  <2>9. Starts(r)' /\ Loads(r)' /\ Decides(r)' /\ Cleans(r)' /\ Lists(r)'
    BY <1>1, <2>1, <2>2 DEF Starts, Loads, Decides, Good, Cleans, Lists, LocalInv, RankInv
  <2>10. Writes(r)' /\ Prefixes(r)'
    <3>1. Writes(r) /\ Prefixes(r) /\ Stores(r)' = Stores(r) /\ Stores(r) \subseteq Ranks
      BY <1>1, SameStores, StoresOf DEF LocalInv, Types, RankInv
    <3>2. Prefixes(r)'
      BY <2>3, <3>1 DEF Prefixes
    <3>3. PICK i : i = iteration[r]
      OBVIOUS
    <3>4. \A o : Has(r, i, o)' <=> Has(r, i, o)
      BY <2>3
    <3>5. \A o : Has(r, iteration[r], o)' <=> Has(r, iteration[r], o)
      BY <1>1, <3>3, <3>4 DEF Has
    <3>6. Writes(r)'
      BY <1>1, <2>1, <3>1, <3>5 DEF Writes
    <3> QED BY <3>2, <3>6
  <2> QED BY <1>1, <2>4, <2>5, <2>6, <2>7, <2>8, <2>9, <2>10, OneMoves, Ahead
<1> QED BY <1>2, <1>3

LEMMA AllWrittenStep ==
    ASSUME LocalInv, AllWritten
    PROVE  LocalInv'
<1>1. UNCHANGED <<setup, files, cleaning, iteration, latest, arrived, todo, saved>>
  BY DEF AllWritten, disk, writing, history
<1>2. \A q \in Ranks : pc[q] = "written" /\ pc'[q] = "validating"
  BY DEF AllWritten
<1>3. /\ \A i : Keeps(i) /\ ~Gains(i)
      /\ SavedStays' /\ \A r : Prefixes(r)' <=> Prefixes(r)
  BY <1>1, Quiet
<1>4. Types'
  <2>1. pc' \in [Ranks -> Modes] /\ listed' \in [Ranks -> SUBSET Ids]
    BY DEF AllWritten, Modes
  <2> QED BY <1>1, <2>1 DEF LocalInv, Types
<1>5. Phases' /\ ~Aborting
  BY <1>2, SomeRank DEF Phases, Validating, Aborting, Bad, Failed
<1>6. \A q \in Ranks : Current(q)' = Current(q)
  BY <1>1, <1>2 DEF Current, Good
<1>7. Together'
  BY <1>6 DEF LocalInv, Together
<1>8. ASSUME NEW q \in Ranks PROVE RankInv(q)'
  <2>1. q \notin arrived
    BY <1>2 DEF LocalInv, RankInv, Lists
  <2>2. GoesOn(q)'
    <3>1. Current(q) > saved /\ \A j \in Iterations : j > Current(q) => ~Retrievable(j)
      BY <1>2 DEF LocalInv, RankInv, GoesOn
    <3>2. \A j \in Iterations : Retrievable(j)' => Retrievable(j)
      BY <1>1, <1>3, RetrievableStays DEF LocalInv
    <3> QED BY <1>1, <1>6, <3>1, <3>2 DEF GoesOn
  <2>3. Starts(q)' /\ Loads(q)' /\ Writes(q)' /\ Decides(q)'
    BY <1>2 DEF Starts, Loads, Writes, Decides, Good
  <2>4. Cleans(q)'
    BY <1>1, <1>5 DEF LocalInv, RankInv, Cleans
  <2>5. Lists(q)'
    BY <1>1, <2>1 DEF Lists
  <2>6. Prefixes(q)'
    BY <1>3 DEF LocalInv, RankInv
  <2> QED BY <2>2, <2>3, <2>4, <2>5, <2>6 DEF RankInv
<1> QED BY <1>3, <1>4, <1>5, <1>7, <1>8 DEF LocalInv

\* What is left to a thread takes nothing that is still needed.
LEMMA TaskIs ==
    ASSUME LocalInv, NEW r \in Ranks, NEW task \in cleaning[r]
    PROVE  /\ task.iteration \in Int
           /\ \A j \in Iterations : Gone(task, j) => Aborting \/ j < saved
           /\ \A j \in Iterations : j = saved => ~Gone(task, j)
<1>1. task.iteration \in 1 .. MaxIteration + 1
  BY DEF LocalInv, Types, Cleanups
<1>2. task.iteration \in Int /\ saved \in Int /\ \A j \in Iterations : j \in Int
  BY <1>1, IterationsAreIntegers, Integral
<1>3. \/ task.kind = "outdated" /\ task.iteration <= saved
      \/ task.kind = "failed" /\ task.iteration > saved /\ Aborting
  BY DEF LocalInv, RankInv, Cleans
<1>4. CASE task.kind = "outdated" /\ task.iteration <= saved
  BY <1>1, <1>2, <1>4 DEF Gone
<1>5. CASE task.kind = "failed" /\ task.iteration > saved /\ Aborting
  BY <1>1, <1>2, <1>5 DEF Gone
<1> QED BY <1>3, <1>4, <1>5

LEMMA CleanStep ==
    ASSUME LocalInv, NEW r \in Ranks, Clean(r)
    PROVE  LocalInv'
<1>1. UNCHANGED <<setup, pc, iteration, latest, listed, arrived, todo, saved>>
  BY DEF Clean, finding, writing, history
<1>2. PICK task \in cleaning[r] :
         /\ files' = [files EXCEPT ![r] = Remaining(r, task)]
         /\ cleaning' = [cleaning EXCEPT ![r] = @ \ {task}]
  BY DEF Clean
<1>3. /\ \A q \in Ranks : \A i, o : Has(q, i, o)' <=> Has(q, i, o) /\ ~(q = r /\ Gone(task, i))
      /\ DOMAIN files' = Ranks
      /\ \A q \in Ranks : files'[q] \subseteq files[q]
  BY <1>1, <1>2, Cleaned DEF LocalInv
<1>4. /\ \A j \in Iterations : Gone(task, j) => Aborting \/ j < saved
      /\ \A j \in Iterations : j = saved => ~Gone(task, j)
  BY TaskIs
<1>5. saved \in Int /\ saved' = saved /\ \A j \in Iterations : j \in Int
  BY <1>1, Integral, IterationsAreIntegers
<1>6. Types'
  <2>1. \A q \in Ranks : \A f \in files'[q] : f.iteration \in Iterations /\ f.rank \in Ranks
    BY <1>3 DEF LocalInv, Types
  <2>2. cleaning' \in [Ranks -> SUBSET Cleanups]
    BY <1>2 DEF LocalInv, Types
  <2> QED BY <1>1, <1>3, <2>1, <2>2 DEF LocalInv, Types
<1>7. SavedStays'
  <2>1. \A j \in Iterations : j = saved => Keeps(j)
    BY <1>3, <1>4 DEF Keeps
  <2> QED BY <1>1, <2>1, SavedSurvives
<1>8. \A q \in Ranks : Moves(q)
  <2>1. \A q \in Ranks : /\ Works(q)' = Works(q) /\ Good(q)' = Good(q)
                         /\ Bad(q)' = Bad(q) /\ Failed(q)' = Failed(q)
    BY <1>1 DEF Works, Good, Bad, Failed
  <2> QED BY <1>1, <2>1 DEF Moves
<1>9. Phases' /\ (Aborting => Aborting')
  BY <1>8, PhasesStay DEF LocalInv
<1>10. ASSUME NEW q \in Ranks PROVE RankInv(q)' /\ Current(q)' = Current(q)
  <2>1. PICK lost : lost = {i \in Iterations : q = r /\ Gone(task, i)}
    OBVIOUS
  <2>2. \A i \in Iterations, o \in Ranks : Has(q, i, o)' <=> Has(q, i, o) /\ i \notin lost
    BY <1>3, <2>1
  <2>3. \A j \in Iterations : ~Gains(j)
    BY <1>3 DEF Gains
  <2>4. Aborting \/ \A j \in Iterations : j >= saved' => Keeps(j) /\ j \notin lost
    <3>1. \A j \in Iterations : j >= saved => Aborting \/ ~Gone(task, j)
      BY <1>4, <1>5
    <3> QED BY <1>3, <1>5, <2>1, <3>1 DEF Keeps
  <2>5. cleaning'[q] \subseteq cleaning[q]
    BY <1>2 DEF LocalInv, Types
  <2>6. /\ pc'[q] = pc[q] /\ iteration'[q] = iteration[q] /\ latest'[q] = latest[q]
        /\ todo'[q] = todo[q] /\ listed' = listed
        /\ (q \in arrived' => q \in arrived /\ listed'[q] = listed[q])
    BY <1>1
  <2>7. Aborting => Aborting' /\ saved' = saved
    BY <1>1, <1>9
  <2>8. pc[q] # "starting" => Current(q) > saved'
    BY <1>1, Ahead
  <2>9. saved' \in {NoIteration} \cup Iterations /\ saved <= saved'
    BY <1>5 DEF LocalInv, Types
  <2> HIDE DEF LocalInv
  <2> QED BY <1>1, <2>2, <2>3, <2>4, <2>5, <2>6, <2>7, <2>8, <2>9, Bystander
<1>11. Together'
  BY <1>10 DEF LocalInv, Together
<1> QED BY <1>6, <1>7, <1>9, <1>10, <1>11 DEF LocalInv

LEMMA RenameStep ==
    ASSUME LocalInv, NEW r \in Ranks, Rename(r)
    PROVE  LocalInv'
<1>1. PICK i, o : i = iteration[r] /\ o = Min(todo[r])
  OBVIOUS
<1>2. UNCHANGED <<setup, iteration, latest, listed, arrived, cleaning, saved>> /\ pc[r] = "writing"
  BY DEF Rename, finding, history
<1>3. /\ files' = [files EXCEPT ![r] =
            {f \in @ : f.iteration # i \/ f.rank # o} \cup {FileOf(i, o, FALSE, run)}]
      /\ todo' = [todo EXCEPT ![r] = @ \ {o}]
      /\ pc' = [pc EXCEPT ![r] = IF todo'[r] = {} THEN "written" ELSE @]
  BY <1>1 DEF Rename
<1>4. /\ ~Aborting /\ r \notin arrived /\ Current(r) = i /\ i > saved /\ i \in Iterations
      /\ todo[r] \subseteq Stores(r) /\ Stores(r) \subseteq Ranks
      /\ o \in todo[r] /\ (\A t \in todo[r] : o <= t) /\ Works(r)
  <2>1. /\ ~Aborting /\ r \notin arrived /\ Works(r)
        /\ todo[r] \subseteq Stores(r) /\ Stores(r) \subseteq Ranks
    BY <1>2, Writing
  <2>2. Current(r) = i /\ i > saved /\ i \in Iterations
    BY <1>1, <1>2, Writing
  <2>3. o \in todo[r] /\ \A t \in todo[r] : o <= t
    BY <1>1, <1>2, Writing
  <2> QED BY <2>1, <2>2, <2>3
<1>5. \A q \in Ranks : \A j, p :
          Has(q, j, p)' <=> Has(q, j, p) \/ (q = r /\ j = i /\ p = o)
  <2>1. Types /\ o \in Stores(r) /\ setup' = setup
    BY <1>2, <1>4 DEF LocalInv
  <2>2. PICK tag : tag = run
    OBVIOUS
  <2>3. files' = [files EXCEPT ![r] = WithShard(@, i, o, tag)]
    BY <1>3, <2>2 DEF WithShard
  <2> QED BY <2>1, <2>3, Renamed
<1>6. /\ todo'[r] = todo[r] \ {o}
      /\ pc'[r] = IF todo'[r] = {} THEN "written" ELSE "writing"
      /\ \A q \in Ranks \ {r} : pc'[q] = pc[q] /\ todo'[q] = todo[q]
  BY <1>2, <1>3 DEF LocalInv, Types
<1>7. Types'
  <2> DEFINE new == FileOf(i, o, FALSE, run)
  <2>1. new.iteration \in Iterations /\ new.rank \in Ranks
    BY <1>4 DEF FileOf
  <2> HIDE DEF new
  <2>2. DOMAIN files' = Ranks
    BY <1>3 DEF LocalInv, Types
  <2>3. \A q \in Ranks : \A f \in files'[q] : f \in files[q] \/ f = new
    BY <1>3 DEF LocalInv, Types, new
  <2>4. \A q \in Ranks : \A f \in files'[q] : f.iteration \in Iterations /\ f.rank \in Ranks
    BY <2>1, <2>3 DEF LocalInv, Types
  <2>5. todo' \in [Ranks -> SUBSET Ranks]
    BY <1>3 DEF LocalInv, Types
  <2>6. pc' \in [Ranks -> Modes]
    BY <1>3 DEF LocalInv, Types, Modes
  <2> QED BY <1>2, <2>2, <2>4, <2>5, <2>6 DEF LocalInv, Types
<1>8. /\ \A j \in Iterations : Keeps(j)
      /\ \A j \in Iterations : Gains(j) => j = i
  BY <1>5 DEF Keeps, Gains
<1>9. saved \in Int /\ i \in Int /\ \A q \in Ranks : q \in Nat
  <2>1. \A q \in Ranks : q \in Nat
    BY ConstantsAssumption DEF Ranks
  <2> QED BY <1>4, <2>1, Integral, IterationsAreIntegers
<1>10. SavedStays' /\ saved <= saved'
  <2>1. SavedStays'
    BY <1>2, <1>8, SavedSurvives
  <2> QED BY <1>2, <1>9, <2>1
<1>11. \A q \in Ranks \ {r} : Aside(q)
  BY <1>2, <1>6 DEF Aside
<1>12. Moves(r) /\ Current(r)' = Current(r)
  <2>1. Moves(r)
    BY <1>2, <1>6 DEF Moves, Works, Failed, Good, Bad
  <2> QED BY <1>1, <1>2, <1>4, <1>6, <2>1 DEF Current, Good
<1>13. Starts(r)' /\ Loads(r)' /\ Decides(r)'
  BY <1>6 DEF Starts, Loads, Decides, Good
<1>14. Cleans(r)' /\ Lists(r)'
  BY <1>2, <1>4 DEF Cleans, Lists, LocalInv, RankInv
<1>15. Stores(r)' = Stores(r) /\ Writes(r) /\ Prefixes(r)
  BY <1>2, SameStores DEF LocalInv, RankInv
<1>16. /\ \A x \in Stores(r) \ todo[r] : Has(r, i, x) /\ \A t \in todo[r] : x < t
  BY <1>1, <1>2, <1>15 DEF Writes
<1>17. Writes(r)'
  <2> SUFFICES ASSUME todo'[r] # {} PROVE Writes(r)'
    BY <1>6 DEF Writes
  <2>1. iteration'[r] = i /\ i \in Iterations /\ todo'[r] \subseteq Stores(r)'
    BY <1>1, <1>2, <1>4, <1>6, <1>15
  <2>2. ASSUME NEW x \in Stores(r) \ todo'[r]
        PROVE  Has(r, i, x)' /\ \A t \in todo'[r] : x < t
    <3>1. CASE x = o
      <4>1. \A t \in todo'[r] : t \in Nat /\ x <= t /\ x # t
        BY <1>4, <1>6, <1>9, <3>1
      <4>2. x \in Nat
        BY <1>4, <1>9, <3>1
      <4> QED BY <1>5, <3>1, <4>1, <4>2
    <3>2. CASE x # o
      <4>1. x \in Stores(r) \ todo[r]
        BY <1>6, <2>2, <3>2
      <4> QED BY <1>5, <1>6, <1>16, <4>1
    <3> QED BY <3>1, <3>2
  <2>3. \A x \in Stores(r)' \ todo'[r] : Has(r, iteration[r], x)' /\ \A t \in todo'[r] : x < t
    <3>1. \A x : Has(r, iteration[r], x)' <=> Has(r, i, x)'
      BY <2>1 DEF Has
    <3> QED BY <1>15, <2>2, <3>1
  <2> QED BY <2>1, <2>3 DEF Writes
<1>18. Prefixes(r)'
  <2> SUFFICES ASSUME NEW j \in Iterations, NEW x \in Stores(r), NEW p \in Stores(r),
                      x < p, Has(r, j, p)'
               PROVE  Has(r, j, x)'
    BY <1>15 DEF Prefixes
  <2>1. CASE Has(r, j, p)
    BY <1>5, <1>15, <2>1 DEF Prefixes
  <2>2. CASE j = i /\ p = o
    <3>1. x \notin todo[r]
      BY <1>4, <1>9, <2>2
    <3> QED BY <1>5, <1>16, <2>2, <3>1
  <2> QED BY <1>5, <2>1, <2>2
<1>19. \A j \in Iterations : Gains(j) => pc[r] # "starting" /\ j <= Current(r)
  BY <1>2, <1>4, <1>8, <1>9
<1>20. \A q \in Ranks \ {r} : \A j \in Iterations, p \in Ranks : Has(q, j, p)' <=> Has(q, j, p)
  BY <1>5
<1>21. pc[r] # "starting" => Current(r) > saved'
  BY <1>2, Ahead
<1> QED BY <1>2, <1>4, <1>7, <1>8, <1>10, <1>11, <1>12, <1>13, <1>14, <1>17, <1>18, <1>19,
           <1>20, <1>21, OneMoves

(* finalize_fn: what its cleanup leaves.                                      *)
LEMMA CleanupStarts ==
    ASSUME LocalInv, NEW r \in Ranks, NEW kind \in {"outdated", "failed"},
           StartCleanup(r, kind), setup' = setup,
           NEW task, task = [kind |-> kind, iteration |-> iteration[r]]
    PROVE  /\ DOMAIN files' = Ranks
           /\ \A q \in Ranks : files'[q] \subseteq files[q]
           /\ cleaning' \in [Ranks -> SUBSET Cleanups]
           /\ \A q \in Ranks \ {r} : cleaning'[q] = cleaning[q]
           /\ \A t \in cleaning'[r] : t \in cleaning[r] \/ t = task
           /\ \A q \in Ranks \ {r} : \A i, o : Has(q, i, o)' <=> Has(q, i, o)
           /\ \A i : ~Gains(i) /\ (Gone(task, i) \/ Keeps(i))
           /\ Prefixes(r)'
<1>1. Types /\ Prefixes(r) /\ Stores(r)' = Stores(r)
  BY SameStores DEF LocalInv, RankInv
<1>2. CASE setup.async
  <2>1. cleaning' = [cleaning EXCEPT ![r] = @ \cup {task}] /\ UNCHANGED files
    BY <1>2 DEF StartCleanup
  <2>2. task \in Cleanups
    BY <1>1 DEF Cleanups, Types
  <2>3. /\ cleaning' \in [Ranks -> SUBSET Cleanups]
        /\ \A q \in Ranks \ {r} : cleaning'[q] = cleaning[q]
        /\ \A t \in cleaning'[r] : t \in cleaning[r] \/ t = task
    BY <1>1, <2>1, <2>2 DEF Types
  <2>4. \A q, i, o : Has(q, i, o)' <=> Has(q, i, o)
    BY <1>1, <2>1, QuietDisk
  <2>5. Prefixes(r)'
    BY <1>1, <2>4 DEF Prefixes
  <2>6. \A i : ~Gains(i) /\ Keeps(i)
    BY <2>4 DEF Gains, Keeps
  <2>7. DOMAIN files' = Ranks /\ \A q \in Ranks : files'[q] \subseteq files[q]
    BY <1>1, <2>1 DEF Types
  <2> QED BY <2>3, <2>4, <2>5, <2>6, <2>7
<1>3. CASE ~setup.async
  <2>1. files' = [files EXCEPT ![r] = Remaining(r, task)] /\ UNCHANGED cleaning
    BY <1>3 DEF StartCleanup
  <2>2. /\ \A q \in Ranks : \A i, o :
              Has(q, i, o)' <=> Has(q, i, o) /\ ~(q = r /\ Gone(task, i))
        /\ DOMAIN files' = Ranks
        /\ \A q \in Ranks : files'[q] \subseteq files[q]
    BY <1>1, <2>1, Cleaned
  <2>3. /\ cleaning' \in [Ranks -> SUBSET Cleanups]
        /\ \A q \in Ranks \ {r} : cleaning'[q] = cleaning[q]
        /\ \A t \in cleaning'[r] : t \in cleaning[r] \/ t = task
    BY <1>1, <2>1 DEF Types
  <2>4. \A i : ~Gains(i) /\ (Gone(task, i) \/ Keeps(i))
    BY <2>2 DEF Gains, Keeps
  <2>5. Prefixes(r)'
    <3> SUFFICES ASSUME NEW i \in Iterations, NEW o \in Stores(r), NEW p \in Stores(r),
                        o < p, Has(r, i, p)'
                 PROVE  Has(r, i, o)'
      BY <1>1 DEF Prefixes
    <3>1. Has(r, i, p) /\ ~Gone(task, i)
      BY <2>2
    <3>2. Has(r, i, o)
      BY <1>1, <3>1 DEF Prefixes
    <3> QED BY <2>2, <3>1, <3>2
  <2>6. \A q \in Ranks \ {r} : \A i, o : Has(q, i, o)' <=> Has(q, i, o)
    BY <2>2
  <2> QED BY <2>2, <2>3, <2>4, <2>5, <2>6
<1> QED BY <1>2, <1>3

LEMMA FinalizeStep ==
    ASSUME LocalInv, NEW r \in Ranks, Finalize(r)
    PROVE  LocalInv'
<1> DEFINE kind == IF latest[r] < iteration[r] THEN "failed" ELSE "outdated"
<1>1. UNCHANGED <<setup, listed, arrived, todo>> /\ pc[r] = "deciding"
  BY DEF Finalize, writing
<1>2. latest' = [latest EXCEPT ![r] = NoIteration] /\ StartCleanup(r, kind)
  BY DEF Finalize
<1>3. PICK i : i = iteration[r]
  OBVIOUS
<1>4. PICK task : task = [kind |-> kind, iteration |-> i]
  OBVIOUS
<1>5. /\ i \in Nat /\ latest[r] \in Int /\ saved \in Int
      /\ latest[r] # NoIteration => latest[r] \in Iterations
  BY <1>3, Integral
<1>6. /\ DOMAIN files' = Ranks
      /\ \A q \in Ranks : files'[q] \subseteq files[q]
      /\ cleaning' \in [Ranks -> SUBSET Cleanups]
      /\ \A q \in Ranks \ {r} : cleaning'[q] = cleaning[q]
      /\ \A t \in cleaning'[r] : t \in cleaning[r] \/ t = task
      /\ \A q \in Ranks \ {r} : \A j, o : Has(q, j, o)' <=> Has(q, j, o)
      /\ \A j : ~Gains(j) /\ (Gone(task, j) \/ Keeps(j))
      /\ Prefixes(r)'
  <2>1. kind \in {"outdated", "failed"}
    OBVIOUS
  <2> HIDE DEF kind
  <2> QED BY <1>1, <1>2, <1>3, <1>4, <2>1, CleanupStarts
<1>7. /\ latest' \in [Ranks -> {NoIteration} \cup Iterations]
      /\ latest'[r] = NoIteration /\ \A q \in Ranks \ {r} : latest'[q] = latest[q]
  BY <1>2 DEF LocalInv, Types
<1>8. Current(r) > saved /\ r \notin arrived
  BY <1>1, Ahead DEF LocalInv, RankInv, Lists
<1>9. \A q \in Ranks : \A f \in files'[q] : f.iteration \in Iterations /\ f.rank \in Ranks
  BY <1>6 DEF LocalInv, Types
<1>10. \A j \in Iterations : j \in Int
  BY IterationsAreIntegers
<1>11. CASE latest[r] < iteration[r]
  <2>1. /\ pc' = [pc EXCEPT ![r] = "failed"] /\ UNCHANGED <<iteration, saved>>
        /\ task.kind = "failed" /\ task.iteration = i
    BY <1>4, <1>11 DEF Finalize
  <2>2. Aborting /\ Bad(r) /\ Current(r) = i /\ i > saved
    <3>1. Bad(r)
      BY <1>1, <1>11 DEF Bad
    <3>2. Current(r) = i
      BY <1>1, <1>3, <1>5, <1>11 DEF Current, Good
    <3> QED BY <1>8, <3>1, <3>2, PhaseOf
  <2>3. pc'[r] = "failed" /\ \A q \in Ranks \ {r} : pc'[q] = pc[q]
    BY <2>1 DEF LocalInv, Types
  <2>4. Types'
    <3>1. pc' \in [Ranks -> Modes]
      BY <2>1 DEF LocalInv, Types, Modes
    <3> QED BY <1>1, <1>6, <1>7, <1>9, <2>1, <3>1 DEF LocalInv, Types
  <2>5. SavedStays' /\ saved <= saved'
    <3>1. \A j \in Iterations : j = saved => Keeps(j)
      BY <1>5, <1>6, <2>1, <2>2 DEF Gone
    <3> QED BY <1>1, <1>5, <2>1, <3>1, SavedSurvives
  <2>6. \A q \in Ranks \ {r} : Aside(q)
    BY <1>1, <1>6, <1>7, <2>1, <2>3 DEF Aside
  <2>7. Moves(r) /\ Current(r)' = Current(r)
    <3>1. ~Good(r) /\ Failed(r)'
      BY <1>3, <1>5, <1>11, <2>3 DEF Good, Failed
    <3>2. Moves(r)
      BY <1>1, <3>1 DEF Moves, Works, Failed
    <3> QED BY <1>3, <2>1, <2>2, <2>3, <3>2 DEF Current, Good
  <2>8. Starts(r)' /\ Loads(r)' /\ Writes(r)' /\ Decides(r)'
    BY <2>3 DEF Starts, Loads, Writes, Decides, Good
  <2>9. Aborting'
    <3>1. \A q \in Ranks : Moves(q)
      BY <2>6, <2>7, AsideMoves
    <3> QED BY <2>2, <3>1, PhasesStay DEF LocalInv
  <2>10. Cleans(r)'
    <3>1. \A t \in cleaning[r] : \/ t.kind = "outdated" /\ t.iteration <= saved
                                 \/ t.kind = "failed" /\ t.iteration > saved
      BY DEF LocalInv, RankInv, Cleans
    <3>2. \A t \in cleaning'[r] : \/ t.kind = "outdated" /\ t.iteration <= saved
                                  \/ t.kind = "failed" /\ t.iteration > saved
      BY <1>6, <2>1, <2>2, <3>1
    <3> QED BY <2>1, <2>9, <3>2 DEF Cleans
  <2>11. Lists(r)'
    BY <1>1, <1>8 DEF Lists
  <2> QED BY <1>1, <1>6, <1>8, <2>1, <2>2, <2>4, <2>5, <2>6, <2>7, <2>8, <2>10, <2>11, OneMoves
<1>12. CASE ~(latest[r] < iteration[r])
  <2>1. /\ saved' = Max({saved, iteration[r]})
        /\ iteration' = [iteration EXCEPT ![r] = @ + 1]
        /\ pc' = [pc EXCEPT ![r] = "training"]
        /\ task.kind = "outdated" /\ task.iteration = i
    BY <1>4, <1>12 DEF Finalize
  <2>2. Good(r) /\ Current(r) = i + 1 /\ i \in Iterations /\ Retrievable(iteration[r])
    <3>1. Good(r)
      BY <1>1, <1>3, <1>5, <1>12 DEF Good
    <3>2. Current(r) = i + 1
      BY <1>1, <1>3, <3>1 DEF Current, Good
    <3>3. i \in Iterations
      <4>1. latest[r] \in Iterations /\ i <= latest[r]
        <5>1. i <= latest[r]
          BY <1>3, <1>5, <1>12
        <5> QED BY <1>5, <5>1 DEF NoIteration
      <4>2. i \in 1 .. MaxIteration + 1
        BY <1>3 DEF LocalInv, Types
      <4> QED BY <4>1, <4>2, ConstantsAssumption DEF Iterations
    <3> QED BY <3>1, <3>2, <3>3 DEF LocalInv, RankInv, Decides
  <2>3. ~Aborting
    <3>1. ~Bad(r) /\ ~Failed(r)
      BY <1>1, <1>12 DEF Bad, Failed
    <3> QED BY <3>1 DEF Aborting
  <2>4. saved' = i /\ saved <= i
    BY <1>3, <1>5, <1>8, <2>1, <2>2, MaxOfTwo
  <2>5. /\ pc'[r] = "training" /\ iteration'[r] = i + 1
        /\ \A q \in Ranks \ {r} : pc'[q] = pc[q] /\ iteration'[q] = iteration[q]
    BY <1>3, <2>1 DEF LocalInv, Types
  <2>6. Types'
    <3>1. pc' \in [Ranks -> Modes]
      BY <2>1 DEF LocalInv, Types, Modes
    <3>2. i + 1 \in 1 .. MaxIteration + 1
      BY <2>2, ConstantsAssumption DEF Iterations
    <3>3. iteration' \in [Ranks -> 1 .. MaxIteration + 1]
      BY <1>3, <2>1, <3>2 DEF LocalInv, Types
    <3> QED BY <1>1, <1>6, <1>7, <1>9, <2>2, <2>4, <3>1, <3>3 DEF LocalInv, Types
  <2>7. \A j \in Iterations : j >= i => Keeps(j)
    BY <1>5, <1>6, <1>10, <2>1 DEF Gone
  <2>8. SavedStays'
    <3>1. Keeps(i) /\ Retrievable(i)
      BY <1>3, <1>5, <2>2, <2>7
    <3>2. Retrievable(i)'
      BY <1>1, <3>1, RetrievableStays DEF LocalInv
    <3>3. Retrievable(saved)'
      BY <2>4, <3>2 DEF Retrievable
    <3> QED BY <3>3 DEF SavedStays
  <2>9. \A q \in Ranks \ {r} : Aside(q)
    BY <1>1, <1>6, <1>7, <2>5 DEF Aside
  <2>10. Moves(r) /\ Current(r)' = Current(r)
    <3>1. Moves(r)
      BY <1>1, <1>3, <1>12, <2>5 DEF Moves, Works, Failed, Good, Bad
    <3> QED BY <2>2, <2>5, <3>1 DEF Current, Good
  <2>11. Starts(r)' /\ Loads(r)' /\ Writes(r)' /\ Decides(r)'
    BY <2>5 DEF Starts, Loads, Writes, Decides, Good
  <2>12. Cleans(r)'
    <3>1. \A t \in cleaning[r] : t.kind = "outdated" /\ t.iteration <= saved
      BY <2>3 DEF LocalInv, RankInv, Cleans
    <3>2. \A t \in cleaning[r] : t.iteration \in Int
      BY TaskIs
    <3>3. \A t \in cleaning'[r] : t.kind = "outdated" /\ t.iteration <= saved'
      BY <1>5, <1>6, <2>1, <2>4, <3>1, <3>2
    <3> QED BY <3>3 DEF Cleans
  <2>13. Lists(r)'
    BY <1>1, <1>8 DEF Lists
  <2>14. \A j \in Iterations : Gains(j) => pc[r] # "starting" /\ j <= Current(r)
    BY <1>6
  <2>15. \A j \in Iterations : j >= saved' => Keeps(j)
    BY <2>4, <2>7
  <2>16. Current(r) > saved' /\ saved <= saved'
    BY <1>5, <2>2, <2>4
  <2> QED BY <1>1, <1>6, <2>3, <2>6, <2>8, <2>9, <2>10, <2>11, <2>12, <2>13, <2>14, <2>15, <2>16,
             OneMoves
<1> QED BY <1>11, <1>12

LEMMA BeginSaveStep ==
    ASSUME LocalInv, NEW r \in Ranks, BeginSave(r)
    PROVE  LocalInv'
<1>1. PICK c : c = Stores(r)
  OBVIOUS
<1>2. UNCHANGED <<setup, files, cleaning, iteration, listed, arrived, saved>>
  BY DEF BeginSave, disk, history
<1>3. \A m \in c : pc[m] = "training" /\ iteration[m] \in Iterations
  BY <1>1 DEF BeginSave
<1>4. /\ latest' = [m \in Ranks |-> IF m \in c THEN NoIteration ELSE latest[m]]
      /\ todo' = [m \in Ranks |-> IF m \in c THEN c ELSE todo[m]]
      /\ pc' = [m \in Ranks |-> IF m \in c THEN "writing" ELSE pc[m]]
  BY <1>1 DEF BeginSave
<1>5. r \in c /\ c \subseteq Ranks /\ \A q \in c : Stores(q) = c
  BY <1>1, StoresOf DEF LocalInv, Types
<1>6. Types'
  <2>1. latest' \in [Ranks -> {NoIteration} \cup Iterations] /\ todo' \in [Ranks -> SUBSET Ranks]
    BY <1>4, <1>5 DEF LocalInv, Types
  <2>2. pc' \in [Ranks -> Modes]
    BY <1>4 DEF LocalInv, Types, Modes
  <2> QED BY <1>2, <2>1, <2>2 DEF LocalInv, Types
<1>7. /\ \A q, i, o : Has(q, i, o)' <=> Has(q, i, o)
      /\ \A i : Keeps(i) /\ ~Gains(i)
      /\ SavedStays' /\ saved <= saved'
      /\ \A q : Prefixes(q)' <=> Prefixes(q)
  BY <1>2, Quiet
<1>8. ASSUME NEW q \in c
      PROVE  Moves(q) /\ Current(q)' = Current(q)
  BY <1>2, <1>3, <1>4, <1>5 DEF Moves, Works, Failed, Good, Bad, Current
<1>9. ASSUME NEW q \in Ranks \ c PROVE Aside(q)
  BY <1>2, <1>4 DEF Aside
<1>10. \A q \in Ranks : Moves(q) /\ Current(q)' = Current(q)
  BY <1>8, <1>9, AsideMoves
<1>11. Phases' /\ (Aborting => Aborting')
  BY <1>10, PhasesStay DEF LocalInv
<1>12. Together'
  BY <1>10 DEF LocalInv, Together
<1>13. ASSUME NEW q \in c PROVE RankInv(q)'
  <2>1. q \in Ranks /\ pc[q] = "training" /\ pc'[q] = "writing" /\ todo'[q] = c
    BY <1>3, <1>4, <1>5
  <2>2. ~Aborting /\ q \notin arrived
    BY <2>1 DEF Aborting, Bad, Failed, LocalInv, RankInv, Lists
  <2>3. GoesOn(q)'
    <3>1. Current(q) > saved /\ \A j \in Iterations : j > Current(q) => ~Retrievable(j)
      BY <2>1 DEF LocalInv, RankInv, GoesOn
    <3>2. \A j \in Iterations : Retrievable(j)' => Retrievable(j)
      BY <1>2, <1>7, RetrievableStays DEF LocalInv
    <3> QED BY <1>2, <1>8, <3>1, <3>2 DEF GoesOn
  <2>4. Starts(q)' /\ Loads(q)' /\ Decides(q)'
    BY <2>1 DEF Starts, Loads, Decides, Good
  <2>5. Writes(q)'
    <3>1. Stores(q)' = c /\ iteration'[q] \in Iterations
      BY <1>2, <1>3, <1>5, SameStores
    <3> QED BY <1>5, <2>1, <3>1 DEF Writes
  <2>6. Cleans(q)' /\ Lists(q)'
    BY <1>2, <2>1, <2>2 DEF Cleans, Lists, LocalInv, RankInv
  <2>7. Prefixes(q)'
    BY <1>7, <2>1 DEF LocalInv, RankInv
  <2> QED BY <2>3, <2>4, <2>5, <2>6, <2>7 DEF RankInv
<1>14. ASSUME NEW q \in Ranks \ c PROVE RankInv(q)'
  <2>1. PICK lost : lost = {}
    OBVIOUS
  <2>2. \A i \in Iterations, o \in Ranks : Has(q, i, o)' <=> Has(q, i, o) /\ i \notin lost
    BY <1>7, <2>1
  <2>3. \A j \in Iterations : Keeps(j) /\ ~Gains(j) /\ j \notin lost
    BY <1>7, <2>1
  <2>4. /\ pc'[q] = pc[q] /\ iteration'[q] = iteration[q] /\ latest'[q] = latest[q]
        /\ todo'[q] = todo[q] /\ cleaning'[q] \subseteq cleaning[q] /\ listed' = listed
        /\ q \in arrived' => q \in arrived /\ listed'[q] = listed[q]
    BY <1>2, <1>9 DEF Aside
  <2>5. Aborting => Aborting' /\ saved' = saved
    BY <1>2, <1>11
  <2>6. pc[q] # "starting" => Current(q) > saved'
    BY <1>2, Ahead
  <2>7. saved' \in {NoIteration} \cup Iterations
    BY <1>6 DEF Types
  <2> QED BY <1>2, <1>7, <2>2, <2>3, <2>4, <2>5, <2>6, <2>7, Bystander
<1> QED BY <1>6, <1>7, <1>11, <1>12, <1>13, <1>14 DEF LocalInv

-----------------------------------------------------------------------------
(* find_latest: the lists that were gathered show what can be loaded.         *)

LEMMA CoveredIs ==
    ASSUME LocalInv, arrived = Ranks, NEW i \in Iterations, i >= saved
    PROVE  /\ Covered(i) = Ranks <=> Retrievable(i)
           /\ Covered(i) = Ranks =>
                \A r \in Ranks : \E s \in Stores(r) : [iteration |-> i, rank |-> r] \in listed[s]
<1>1. \A q, o \in Ranks : [iteration |-> i, rank |-> o] \in listed[q] <=> Has(q, i, o)
  BY DEF LocalInv, RankInv, Lists
<1>2. \A q \in Ranks : \A id \in listed[q] :
          id.rank \in Ranks /\ id = [iteration |-> id.iteration, rank |-> id.rank]
  BY DEF LocalInv, Types, Ids
<1>3. \A o : o \in Covered(i) <=>
                o \in Ranks /\ \E q \in Ranks : [iteration |-> i, rank |-> o] \in listed[q]
  <2> TAKE o
  <2>1. o \in Covered(i) <=> \E q \in Ranks : \E id \in listed[q] : id.iteration = i /\ id.rank = o
    BY DEF Covered
  <2>2. ASSUME NEW q \in Ranks
        PROVE  (\E id \in listed[q] : id.iteration = i /\ id.rank = o)
                 <=> o \in Ranks /\ [iteration |-> i, rank |-> o] \in listed[q]
    BY <1>2
  <2> QED BY <2>1, <2>2
<1>4. \A r \in Ranks : Stores(r) \subseteq Ranks
  BY StoresOf DEF LocalInv, Types
<1>5. \A q, o \in Ranks : Has(q, i, o) => q \in Stores(o)
  <2> SUFFICES ASSUME NEW q \in Ranks, NEW o \in Ranks, Has(q, i, o) PROVE q \in Stores(o)
    OBVIOUS
  <2>1. o \in Stores(q)
    BY HasFile
  <2> QED BY <2>1, StoresOf DEF LocalInv, Types
<1>6. Retrievable(i) <=> \A r \in Ranks : \E s \in Stores(r) : Has(s, i, r)
  BY DEF Retrievable, Has
<1>7. ASSUME Covered(i) = Ranks, NEW r \in Ranks
      PROVE  \E s \in Stores(r) : [iteration |-> i, rank |-> r] \in listed[s] /\ Has(s, i, r)
  <2>1. PICK q \in Ranks : [iteration |-> i, rank |-> r] \in listed[q]
    BY <1>3, <1>7
  <2> QED BY <1>1, <1>5, <2>1
<1>8. ASSUME Retrievable(i) PROVE Covered(i) = Ranks
  <2>1. \A r \in Ranks : \E s \in Ranks : [iteration |-> i, rank |-> r] \in listed[s]
    BY <1>1, <1>4, <1>6, <1>8
  <2> QED BY <1>3, <2>1
<1> QED BY <1>6, <1>7, <1>8

LEMMA LatestIs ==
    ASSUME LocalInv, arrived = Ranks
    PROVE  /\ LatestComplete \in {NoIteration} \cup Iterations /\ LatestComplete \in Int
           /\ LatestComplete # NoIteration => Covered(LatestComplete) = Ranks
           /\ \A i \in Iterations : i >= saved /\ Retrievable(i) => i <= LatestComplete
           /\ saved <= LatestComplete
<1> DEFINE S == {NoIteration} \cup {i \in Iterations : Covered(i) = Ranks}
<1>1. LatestComplete = Max(S)
  BY DEF LatestComplete
<1>2. S \subseteq Int /\ S # {} /\ \A x \in S : x <= MaxIteration
  <2>1. MaxIteration \in Nat \ {0}
    BY ConstantsAssumption
  <2> QED BY <2>1 DEF Iterations, NoIteration
<1>3. Max(S) \in S /\ \A x \in S : x <= Max(S)
  <2>1. MaxIteration \in Nat
    BY ConstantsAssumption
  <2> HIDE DEF S
  <2> QED BY <1>2, <2>1, SomeMax
<1>4. LatestComplete \in S /\ \A x \in S : x <= LatestComplete
  BY <1>1, <1>3
<1>5. /\ LatestComplete \in {NoIteration} \cup Iterations /\ LatestComplete \in Int
      /\ LatestComplete # NoIteration => Covered(LatestComplete) = Ranks
  BY <1>2, <1>4
<1>6. ASSUME NEW i \in Iterations, i >= saved, Retrievable(i) PROVE i <= LatestComplete
  <2>1. Covered(i) = Ranks
    BY <1>6, CoveredIs
  <2> QED BY <1>4, <2>1
<1>7. saved <= LatestComplete
  <2>1. saved \in {NoIteration} \cup Iterations /\ saved \in Int
    BY SomeRank, Integral DEF LocalInv, Types
  <2>2. CASE saved = NoIteration
    BY <1>4, <2>2
  <2>3. CASE saved # NoIteration
    <3>1. PICK i \in Iterations : i = saved
      BY <2>1, <2>3
    <3>2. Retrievable(i) /\ i >= saved
      BY <2>1, <2>3, <3>1 DEF LocalInv, SavedStays
    <3> QED BY <1>6, <3>1, <3>2
  <2> QED BY <2>2, <2>3
<1> QED BY <1>5, <1>6, <1>7

LEMMA GatherIdsStep ==
    ASSUME LocalInv, GatherIds
    PROVE  LocalInv'
<1>1. PICK L : L = LatestComplete
  OBVIOUS
<1>2. arrived = Ranks /\ arrived' = {}
      /\ UNCHANGED <<setup, files, cleaning, iteration, listed, todo, saved>>
  BY DEF GatherIds, disk, writing, history
<1>3. /\ \A r \in Ranks : latest'[r] = L
      /\ \A r \in Ranks : pc'[r] =
            IF pc[r] = "starting" THEN IF L = NoIteration THEN "training" ELSE "loading"
            ELSE "deciding"
  BY <1>1 DEF GatherIds, AfterStart
<1>4. /\ L \in {NoIteration} \cup Iterations /\ L \in Int
      /\ L # NoIteration => Covered(L) = Ranks
      /\ \A i \in Iterations : i >= saved /\ Retrievable(i) => i <= L
      /\ saved <= L
  BY <1>1, <1>2, LatestIs
<1>5. Types'
  <2>1. latest' = [r \in Ranks |-> L]
    BY <1>1 DEF GatherIds
  <2>2. pc' \in [Ranks -> Modes]
    BY DEF GatherIds, AfterStart, Modes
  <2> QED BY <1>2, <1>4, <2>1, <2>2 DEF LocalInv, Types
<1>6. /\ \A i : Keeps(i) /\ ~Gains(i)
      /\ SavedStays' /\ \A r : Prefixes(r)' <=> Prefixes(r)
  BY <1>2, Quiet
<1>7. \A j : Retrievable(j)' <=> Retrievable(j)
  BY <1>2, QuietDisk DEF LocalInv
<1>8. saved \in Int /\ \A j \in Iterations : j \in Int /\ j > NoIteration
  BY IterationsAreIntegers, SomeRank, Integral
<1>9. \A q \in Ranks : pc[q] \in {"starting", "validating"}
  BY <1>2 DEF LocalInv, RankInv, Lists
<1>10. ~Aborting
  BY <1>9, SomeRank DEF Aborting, Bad, Failed
<1>11. ASSUME NEW q \in Ranks
       PROVE  Starts(q)' /\ Writes(q)' /\ Cleans(q)' /\ Lists(q)' /\ Prefixes(q)'
  <2>1. Starts(q)' /\ Writes(q)'
    BY <1>3 DEF Starts, Writes
  <2>2. Cleans(q)'
    BY <1>2, <1>10 DEF LocalInv, RankInv, Cleans
  <2>3. Lists(q)'
    BY <1>2 DEF Lists
  <2> QED BY <1>6, <2>1, <2>2, <2>3 DEF LocalInv, RankInv
<1>12. CASE pc[0] = "starting"
  <2>1. \A q \in Ranks : pc[q] = "starting" /\ iteration[q] = 1
    BY <1>12, SomeRank, PhaseOf DEF LocalInv, RankInv, Starts
  <2>2. CASE L = NoIteration
    <3>1. saved = NoIteration
      <4>1. saved \in {NoIteration} \cup Iterations
        BY DEF LocalInv, Types
      <4> QED BY <1>4, <1>8, <2>2, <4>1
    <3>2. \A q \in Ranks : pc'[q] = "training" /\ iteration'[q] = 1
      BY <1>2, <1>3, <2>1, <2>2
    <3>3. \A q \in Ranks : Current(q)' = 1
      BY <3>2 DEF Current, Good
    <3>4. Phases' /\ Together'
      BY <3>2, <3>3 DEF Phases, Resuming, Works, Together
    <3>5. \A j \in Iterations : ~Retrievable(j)
      BY <1>4, <1>8, <2>2, <3>1
    <3>6. \A q \in Ranks : GoesOn(q)'
      <4>1. 1 > saved'
        BY <1>2, <3>1 DEF NoIteration
      <4> QED BY <1>7, <3>3, <3>5, <4>1 DEF GoesOn
    <3>7. \A q \in Ranks : Loads(q)' /\ Decides(q)'
      BY <3>2 DEF Loads, Decides, Good
    <3>8. \A q \in Ranks : RankInv(q)'
      BY <1>11, <3>6, <3>7 DEF RankInv
    <3> QED BY <1>5, <1>6, <3>4, <3>8 DEF LocalInv
  <2>3. CASE L # NoIteration
    <3>1. L \in Iterations /\ Covered(L) = Ranks
      BY <1>4, <2>3
    <3>2. /\ Retrievable(L)
          /\ \A r \in Ranks : \E s \in Stores(r) : [iteration |-> L, rank |-> r] \in listed[s]
      <4>1. L >= saved
        BY <1>4, <1>8
      <4> QED BY <1>2, <3>1, <4>1, CoveredIs
    <3>3. \A q \in Ranks : pc'[q] = "loading" /\ latest'[q] = L
      BY <1>3, <2>1, <2>3
    <3>4. \A q \in Ranks : Current(q)' = L + 1
      BY <3>3 DEF Current
    <3>5. Phases' /\ Together'
      BY <3>3, <3>4 DEF Phases, Resuming, Together
    <3>6. \A j \in Iterations : j > L + 1 => ~Retrievable(j)
      BY <1>4, <1>8
    <3>7. \A q \in Ranks : GoesOn(q)'
      <4>1. L + 1 > saved'
        BY <1>2, <1>4, <1>8
      <4> QED BY <1>7, <3>4, <3>6, <4>1 DEF GoesOn
    <3>8. ASSUME NEW q \in Ranks PROVE Loads(q)'
      <4>1. Retrievable(latest[q])'
        <5>1. Retrievable(L)'
          BY <1>7, <3>2
        <5> QED BY <3>3, <5>1 DEF Retrievable
      <4>2. Holders(q)' # {}
        <5>1. PICK s \in Stores(q) : [iteration |-> L, rank |-> q] \in listed[s]
          BY <3>2
        <5>2. Stores(q)' = Stores(q)
          BY <1>2, SameStores
        <5> QED BY <1>2, <3>3, <5>1, <5>2 DEF Holders
      <4>3. latest'[q] # NoIteration
        BY <2>3, <3>3
      <4> QED BY <4>1, <4>2, <4>3 DEF Loads
    <3>9. \A q \in Ranks : Decides(q)'
      BY <3>3 DEF Decides, Good
    <3>10. \A q \in Ranks : RankInv(q)'
      BY <1>11, <3>7, <3>8, <3>9 DEF RankInv
    <3> QED BY <1>5, <1>6, <3>5, <3>10 DEF LocalInv
  <2> QED BY <2>2, <2>3
<1>13. CASE pc[0] # "starting"
  <2>1. \A q \in Ranks : pc[q] = "validating"
    BY <1>9, <1>13, SomeRank, PhaseOf
  <2>2. PICK c : c = iteration[0]
    OBVIOUS
  <2>3. \A q \in Ranks : iteration[q] = c /\ iteration'[q] = c
    <3>1. \A q \in Ranks : Current(q) = iteration[q]
      BY <2>1 DEF Current, Good
    <3>2. \A q \in Ranks : Current(q) = Current(0)
      BY SomeRank DEF LocalInv, Together
    <3> QED BY <1>2, <2>2, <3>1, <3>2, SomeRank
  <2>4. c > saved /\ \A j \in Iterations : j > c => ~Retrievable(j)
    <3>1. Current(0) = c
      BY <2>1, <2>2, SomeRank DEF Current, Good
    <3>2. GoesOn(0) /\ pc[0] = "validating"
      BY <2>1, SomeRank DEF LocalInv, RankInv
    <3> QED BY <3>1, <3>2 DEF GoesOn
  <2>5. c \in Int
    BY <2>2, SomeRank, Integral
  <2>6. \A q \in Ranks : pc'[q] = "deciding" /\ latest'[q] = L /\ iteration'[q] = c
    BY <1>3, <2>1, <2>3
  <2>7. \A q \in Ranks : Loads(q)'
    BY <2>6 DEF Loads
  <2>8. CASE L >= c
    <3>1. L = c /\ Retrievable(c) /\ c \in Iterations
      <4>1. L # NoIteration
        <5>1. c \in Nat
          BY <2>2, SomeRank, Integral
        <5> QED BY <2>8, <5>1 DEF NoIteration
      <4>2. L \in Iterations /\ Covered(L) = Ranks /\ L >= saved
        BY <1>4, <1>8, <4>1
      <4>3. Retrievable(L)
        BY <1>2, <4>2, CoveredIs
      <4>4. L = c
        BY <1>4, <2>4, <2>5, <2>8, <4>2, <4>3
      <4> QED BY <4>2, <4>3, <4>4
    <3>2. \A q \in Ranks : Good(q)' /\ Current(q)' = c + 1
      BY <2>6, <2>8 DEF Good, Current
    <3>3. Phases' /\ Together'
      BY <3>2 DEF Phases, Advancing, Together
    <3>4. \A q \in Ranks : GoesOn(q)'
      <4>1. c + 1 > saved' /\ \A j \in Iterations : j > c + 1 => ~Retrievable(j)
        BY <1>2, <1>8, <2>4, <2>5
      <4> QED BY <1>7, <3>2, <4>1 DEF GoesOn
    <3>5. ASSUME NEW q \in Ranks PROVE Decides(q)'
      <4>1. Retrievable(c)'
        BY <1>7, <3>1
      <4>2. Retrievable(iteration[q])'
        BY <2>6, <4>1 DEF Retrievable
      <4> QED BY <4>2 DEF Decides
    <3>6. \A q \in Ranks : RankInv(q)'
      BY <1>11, <2>7, <3>4, <3>5 DEF RankInv
    <3> QED BY <1>5, <1>6, <3>3, <3>6 DEF LocalInv
  <2>9. CASE ~(L >= c)
    <3>1. L < c
      BY <1>4, <2>5, <2>9
    <3>2. \A q \in Ranks : Bad(q)' /\ ~Good(q)' /\ Current(q)' = c
      BY <2>6, <2>9, <3>1 DEF Good, Bad, Current
    <3>3. Phases' /\ Together'
      BY <3>2 DEF Phases, Aborting, Together
    <3>4. \A q \in Ranks : GoesOn(q)'
      BY <1>2, <1>7, <2>4, <3>2 DEF GoesOn
    <3>5. \A q \in Ranks : Decides(q)'
      BY <3>2 DEF Decides
    <3>6. \A q \in Ranks : RankInv(q)'
      BY <1>11, <2>7, <3>4, <3>5 DEF RankInv
    <3> QED BY <1>5, <1>6, <3>3, <3>6 DEF LocalInv
  <2> QED BY <2>8, <2>9
<1> QED BY <1>12, <1>13

-----------------------------------------------------------------------------
(* A restart.                                                                 *)

\* Some directory of every clique has all of the last good save.
LEMMA SomeIntact ==
    ASSUME LocalInv, saved # NoIteration, NEW r \in Ranks
    PROVE  \E m \in Stores(r) : Intact(m)
<1>1. /\ r \in Stores(r) /\ Stores(r) \subseteq Ranks
      /\ \A o \in Stores(r) : Stores(o) = Stores(r)
  BY StoresOf DEF LocalInv, Types
<1>2. PICK top \in Stores(r) : \A o \in Stores(r) : o <= top
  <2>1. World \in Nat /\ \A o \in Ranks : o \in Nat /\ o <= World
    BY ConstantsAssumption DEF Ranks
  <2>2. Stores(r) \subseteq Int /\ Stores(r) # {} /\ \A o \in Stores(r) : o <= World
    BY <1>1, <2>1
  <2> QED BY <2>1, <2>2, SomeMax
<1>3. saved \in Iterations /\ Retrievable(saved)
  BY DEF LocalInv, Types, SavedStays
<1>4. PICK m \in Stores(top) : Has(m, saved, top)
  BY <1>1, <1>2, <1>3 DEF Retrievable, Has
<1>5. m \in Ranks /\ m \in Stores(r) /\ Stores(m) = Stores(r)
  BY <1>1, <1>2, <1>4
<1>6. ASSUME NEW o \in Stores(m) PROVE Has(m, saved, o)
  <2>1. CASE o = top
    BY <1>4, <2>1
  <2>2. CASE o # top
    <3>1. o < top
      <4>1. \A x \in Ranks : x \in Nat
        BY ConstantsAssumption DEF Ranks
      <4> QED BY <1>1, <1>2, <1>5, <2>2, <4>1
    <3>2. Prefixes(m)
      BY <1>5 DEF LocalInv, RankInv
    <3> QED BY <1>2, <1>3, <1>4, <1>5, <3>1, <3>2 DEF Prefixes
  <2> QED BY <2>1, <2>2
<1>7. Intact(m)
  BY <1>6 DEF Intact, Has
<1> QED BY <1>5, <1>7

LEMMA RestartStep ==
    ASSUME LocalInv, NEW lost, NEW cost, Restart(lost, cost), lost = {} \/ Tolerated(lost)
    PROVE  LocalInv'
<1>1. UNCHANGED <<setup, saved>> /\ arrived' = {}
  BY DEF Restart
<1>2. /\ pc' = [r \in Ranks |-> "starting"] /\ iteration' = [r \in Ranks |-> 1]
      /\ latest' = [r \in Ranks |-> NoIteration] /\ listed' = [r \in Ranks |-> {}]
      /\ todo' = [r \in Ranks |-> {}] /\ cleaning' = [r \in Ranks |-> {}]
  BY DEF Restart
<1>3. files' = [r \in Ranks |-> IF r \in lost THEN {} ELSE files[r]]
  BY DEF Restart
<1>4. Types'
  <2>1. DOMAIN files' = Ranks
    BY <1>3
  <2>2. \A r \in Ranks : \A f \in files'[r] : f.iteration \in Iterations /\ f.rank \in Ranks
    BY <1>3 DEF LocalInv, Types
  <2>3. 1 \in 1 .. MaxIteration + 1
    BY ConstantsAssumption
  <2> QED BY <1>1, <1>2, <2>1, <2>2, <2>3 DEF LocalInv, Types, Modes
<1>5. /\ \A r \in Ranks : Stores(r)' = Stores(r) /\ Stores(r) \subseteq Ranks
      /\ \A r \in Ranks : r \in Stores(r) /\ \A o \in Stores(r) : Stores(o) = Stores(r)
  BY <1>1, SameStores, StoresOf DEF LocalInv, Types
<1>6. ASSUME NEW r \in Ranks, NEW i, NEW o
      PROVE  Has(r, i, o)' <=> Has(r, i, o) /\ r \notin lost
  <2>1. CASE r \in lost
    <3>1. ~Stored(files'[r], i, o)
      BY <1>3, <2>1 DEF Stored
    <3> QED BY <2>1, <3>1, HasFile
  <2>2. CASE r \notin lost
    <3>1. files'[r] = files[r]
      BY <1>3, <2>2
    <3> QED BY <1>1, <2>2, <3>1, SameDirectory
  <2> QED BY <2>1, <2>2
<1>7. SavedStays'
  <2> SUFFICES ASSUME saved # NoIteration PROVE Retrievable(saved)'
    BY <1>1 DEF SavedStays
  <2>1. ASSUME NEW r \in Ranks
        PROVE  \E m \in Stores(r) : m \notin lost /\ Has(m, saved, r)
    <3>1. PICK m \in Stores(r) : m \notin lost /\ Intact(m)
      <4>1. \E m \in Stores(r) : Intact(m)
        BY SomeIntact
      <4>2. CASE lost = {}
        BY <4>1, <4>2
      <4>3. CASE Tolerated(lost)
        BY <4>1, <4>3 DEF Tolerated
      <4> QED BY <4>2, <4>3
    <3>2. r \in Stores(m)
      BY <1>5
    <3> QED BY <3>1, <3>2 DEF Intact, Has
  <2>2. PICK i : i = saved
    OBVIOUS
  <2>3. ASSUME NEW r \in Ranks PROVE \E m \in Stores(r)' : Has(m, i, r)'
    <3>1. PICK m \in Stores(r) : m \notin lost /\ Has(m, i, r)
      BY <2>1, <2>2
    <3> QED BY <1>5, <1>6, <3>1
  <2>4. Retrievable(i)'
    BY <2>3 DEF Retrievable, Has
  <2> QED BY <1>1, <2>2, <2>4 DEF Retrievable
<1>8. Phases' /\ Together'
  BY <1>2 DEF Phases, Starting, Together, Current, Good
<1>9. ASSUME NEW r \in Ranks PROVE RankInv(r)'
  <2>1. GoesOn(r)' /\ Starts(r)' /\ Loads(r)' /\ Writes(r)' /\ Decides(r)'
    BY <1>2 DEF GoesOn, Starts, Loads, Writes, Decides, Good
  <2>2. Cleans(r)' /\ Lists(r)'
    BY <1>1, <1>2 DEF Cleans, Lists
  <2>3. Prefixes(r)'
    <3> SUFFICES ASSUME NEW i \in Iterations, NEW o \in Stores(r), NEW p \in Stores(r),
                        o < p, Has(r, i, p)'
                 PROVE  Has(r, i, o)'
      BY <1>5 DEF Prefixes
    <3> QED BY <1>6 DEF LocalInv, RankInv, Prefixes
  <2> QED BY <2>1, <2>2, <2>3 DEF RankInv
<1> QED BY <1>4, <1>7, <1>8, <1>9 DEF LocalInv

-----------------------------------------------------------------------------
(* The invariant, and what it says of a job that restarts.                    *)

LEMMA InitLocal == Init => LocalInv
<1> SUFFICES ASSUME Init PROVE LocalInv
  OBVIOUS
<1> USE DEF Init
<1>1. Types
  <2>1. 1 \in 1 .. MaxIteration + 1
    BY ConstantsAssumption
  <2> QED BY <2>1 DEF Types, Modes
<1>2. Phases /\ Together
  BY DEF Phases, Starting, Together, Current, Good
<1>3. SavedStays
  BY DEF SavedStays
<1>4. ASSUME NEW r \in Ranks PROVE RankInv(r)
  <2>1. GoesOn(r) /\ Starts(r) /\ Loads(r) /\ Writes(r) /\ Decides(r)
    BY DEF GoesOn, Starts, Loads, Writes, Decides, Good
  <2>2. Cleans(r) /\ Lists(r)
    BY DEF Cleans, Lists
  <2>3. Prefixes(r)
    <3>1. \A i, o : ~Stored({}, i, o)
      BY DEF Stored
    <3>2. \A i, o : ~Has(r, i, o)
      BY <3>1, HasFile
    <3> QED BY <3>2 DEF Prefixes
  <2> QED BY <2>1, <2>2, <2>3 DEF RankInv
<1> QED BY <1>1, <1>2, <1>3, <1>4 DEF LocalInv

LEMMA StutterStep == LocalInv /\ UNCHANGED vars => LocalInv'
<1> SUFFICES ASSUME LocalInv, UNCHANGED vars PROVE LocalInv'
  OBVIOUS
<1> USE DEF vars, disk, finding, writing, history
<1>1. SavedStays' /\ (\A r : Prefixes(r)' <=> Prefixes(r)) /\ \A i : Keeps(i) /\ ~Gains(i)
  BY Quiet
<1>2. Types' /\ Phases' /\ Together'
  <2>1. \A q \in Ranks : Aside(q)
    BY DEF Aside
  <2>2. Phases' /\ Together'
    BY <2>1, AsideMoves, PhasesStay DEF LocalInv, Together
  <2>3. Types'
    BY DEF LocalInv, Types
  <2> QED BY <2>2, <2>3
<1>3. ASSUME NEW q \in Ranks PROVE RankInv(q)'
  <2>1. PICK lost : lost = {}
    OBVIOUS
  <2>2. \A i \in Iterations, o \in Ranks : Has(q, i, o)' <=> Has(q, i, o) /\ i \notin lost
    BY <2>1, Quiet
  <2>3. \A j \in Iterations : Keeps(j) /\ ~Gains(j) /\ j \notin lost
    BY <1>1, <2>1
  <2>4. Aborting => Aborting' /\ saved' = saved
    <3>1. \A r \in Ranks : Moves(r)
      BY AsideMoves DEF Aside
    <3> QED BY <3>1, PhasesStay DEF LocalInv
  <2>5. pc[q] # "starting" => Current(q) > saved'
    BY Ahead
  <2>6. saved' \in {NoIteration} \cup Iterations /\ saved <= saved'
    BY Integral DEF LocalInv, Types
  <2>7. /\ pc'[q] = pc[q] /\ iteration'[q] = iteration[q] /\ latest'[q] = latest[q]
        /\ todo'[q] = todo[q] /\ cleaning'[q] \subseteq cleaning[q] /\ listed' = listed
        /\ q \in arrived' => q \in arrived /\ listed'[q] = listed[q] /\ setup' = setup
    OBVIOUS
  <2> QED BY <2>2, <2>3, <2>4, <2>5, <2>6, <2>7, Bystander
<1> QED BY <1>1, <1>2, <1>3 DEF LocalInv

LEMMA StepLocal == LocalInv /\ [Next]_vars => LocalInv'
<1> SUFFICES ASSUME LocalInv, [Next]_vars PROVE LocalInv'
  OBVIOUS
<1>1. ASSUME NEW r \in Ranks, RankStep(r) PROVE LocalInv'
  BY <1>1, ListIdsStep, LoadStep, BeginSaveStep, OpenDirtyStep, RenameStep, FinalizeStep,
     CleanStep DEF RankStep
<1>2. ASSUME NEW r \in Ranks, WriteFails(r) PROVE LocalInv'
  BY <1>2, WriteFailsStep
<1>3. ASSUME GatherIds \/ AllWritten PROVE LocalInv'
  BY <1>3, GatherIdsStep, AllWrittenStep
<1>4. ASSUME RestartAfterFailure PROVE LocalInv'
  BY <1>4, RestartStep DEF RestartAfterFailure
<1>5. ASSUME NEW lost \in SUBSET Ranks, Killed(lost) PROVE LocalInv'
  BY <1>5, RestartStep DEF Killed
<1>6. CASE UNCHANGED vars
  BY <1>6, StutterStep
<1> QED BY <1>1, <1>2, <1>3, <1>4, <1>5, <1>6 DEF Next

LEMMA Invariant == Spec => []LocalInv
BY InitLocal, StepLocal, PTL DEF Spec

(* The checkpoint of the last save that finalize_fn reported as good can be   *)
(* loaded at every later moment, whatever is killed, fails or is cleaned up.  *)
THEOREM SavedIsKept == Spec => []SavedIsRecoverable
<1>1. LocalInv => SavedIsRecoverable
  <2> SUFFICES ASSUME LocalInv, saved # NoIteration PROVE SavedIsRecoverable
    BY DEF SavedIsRecoverable
  <2>1. saved \in Iterations /\ Retrievable(saved)
    BY DEF LocalInv, Types, SavedStays
  <2>2. PICK i \in Iterations : i = saved
    BY <2>1
  <2>3. i >= saved
    BY <2>2, IterationsAreIntegers
  <2> QED BY <2>1, <2>2, <2>3 DEF SavedIsRecoverable
<1> QED BY <1>1, Invariant, PTL

(* After find_latest and load all ranks go on from one iteration, which lies  *)
(* after the last good save.                                                  *)
THEOREM RanksResumeTogether == Spec => []ResumesTogether
<1>1. LocalInv => ResumesTogether
  <2> SUFFICES ASSUME LocalInv PROVE ResumesTogether
    OBVIOUS
  <2>1. \A r \in Ranks : pc[r] \in {"training", "writing"} => Current(r) = iteration[r]
    BY DEF Current, Good
  <2>2. \A r \in Ranks : pc[r] = "training" => iteration[r] > saved
    BY <2>1, Ahead
  <2>3. \A q, r \in Ranks : pc[q] = "writing" /\ pc[r] = "writing" => iteration[q] = iteration[r]
    BY <2>1 DEF LocalInv, Together
  <2> QED BY <2>2, <2>3 DEF ResumesTogether
<1> QED BY <1>1, Invariant, PTL

(* What find_latest announces can be loaded, by every rank: retrieve_plan     *)
(* finds a holder in the clique of each.                                      *)
THEOREM LatestIsLoadable == Spec => []LatestCanBeLoaded
<1>1. LocalInv => LatestCanBeLoaded
  BY DEF LocalInv, RankInv, Loads, LatestCanBeLoaded
<1> QED BY <1>1, Invariant, PTL
=============================================================================
