---------------------------- MODULE HomeFeedProofs ----------------------------
(***************************************************************************)
(* The home feed, for every catalogue, every number of raters, every limit *)
(* and whatever changes while it is put together.                          *)
(***************************************************************************)
EXTENDS HomeFeed, FiniteSetTheorems, SequenceTheorems, TLAPS

-----------------------------------------------------------------------------
(* The k-th smallest: counting what is smaller numbers a finite set without a  *)
(* gap.                                                                        *)

LEMMA FirstNaturals ==
    ASSUME NEW k \in Nat
    PROVE  IsFiniteSet(0..k - 1) /\ Cardinality(0..k - 1) = k
BY FS_Interval

LEMMA NthFacts ==
    ASSUME NEW P \in SUBSET Nat, IsFiniteSet(P)
    PROVE  /\ Cardinality(P) \in Nat
           /\ \A k \in 1..Cardinality(P) :
                 Nth(P, k) \in P /\ Cardinality({j \in P : j < Nth(P, k)}) = k - 1
           /\ \A k, l \in 1..Cardinality(P) : Nth(P, k) = Nth(P, l) => k = l
           /\ \A i \in P : \E k \in 1..Cardinality(P) : Nth(P, k) = i
<1> DEFINE below(i) == {j \in P : j < i}
           size == Cardinality(P)
           rank == [i \in P |-> Cardinality(below(i))]
<1>1. size \in Nat
  BY FS_CardinalityType
<1>2. ASSUME NEW i \in P PROVE rank[i] \in 0..size - 1
  <2>1. below(i) \subseteq P \ {i}
    OBVIOUS
  <2>2. IsFiniteSet(P \ {i}) /\ Cardinality(P \ {i}) = size - 1
    BY FS_RemoveElement
  <2>3. Cardinality(below(i)) <= size - 1 /\ Cardinality(below(i)) \in Nat
    BY <2>1, <2>2, FS_Subset, FS_CardinalityType
  <2>4. QED
    BY <1>1, <2>3
<1>3. ASSUME NEW i \in P, NEW j \in P, i < j PROVE rank[i] # rank[j]
  <2>1. P \subseteq Nat /\ i \in Nat /\ j \in Nat
    OBVIOUS
  <2>2. \A x \in P : x < i => x < j
    <3> SUFFICES ASSUME NEW x \in Nat, x < i PROVE x < j
      BY <2>1
    <3> QED
      BY <1>3, <2>1
  <2>3. i \in below(j) /\ i \notin below(i)
    BY <1>3, <2>1
  <2>4. below(i) \subseteq below(j) /\ below(i) # below(j)
    BY <2>2, <2>3
  <2>5. IsFiniteSet(below(j))
    BY FS_Subset
  <2>6. QED
    BY <2>4, <2>5, FS_Subset
<1>4. ASSUME NEW i \in P, NEW j \in P, rank[i] = rank[j] PROVE i = j
  BY <1>3, <1>4
<1>5. rank \in Injection(P, 0..size - 1)
  BY <1>2, <1>4 DEF Injection, IsInjective
<1>6. IsFiniteSet(0..size - 1) /\ Cardinality(0..size - 1) = size
  BY <1>1, FirstNaturals
<1>7. rank \in Surjection(P, 0..size - 1)
  BY <1>5, <1>6, FS_Injection
<1>8. ASSUME NEW k \in 1..size PROVE Nth(P, k) \in P /\ Cardinality(below(Nth(P, k))) = k - 1
  <2>1. k - 1 \in 0..size - 1
    BY <1>1
  <2>2. PICK i \in P : rank[i] = k - 1
    <3> HIDE DEF rank
    <3>1. QED
      BY <1>7, <2>1 DEF Surjection
  <2>3. QED
    BY <2>2 DEF Nth
<1>9. ASSUME NEW k \in 1..size, NEW l \in 1..size, Nth(P, k) = Nth(P, l) PROVE k = l
  <2>1. k - 1 = l - 1
    BY <1>8, <1>9
  <2>2. QED
    BY <1>1, <2>1
<1>10. ASSUME NEW i \in P PROVE \E k \in 1..size : Nth(P, k) = i
  <2>1. rank[i] + 1 \in 1..size
    BY <1>1, <1>2
  <2>2. rank[Nth(P, rank[i] + 1)] = rank[i] /\ Nth(P, rank[i] + 1) \in P
    BY <1>1, <1>2, <1>8, <2>1
  <2>3. Nth(P, rank[i] + 1) = i
    BY <1>4, <2>2
  <2>4. QED
    BY <2>1, <2>3
<1>11. QED
  BY <1>1, <1>8, <1>9, <1>10

-----------------------------------------------------------------------------
(* Lists: what they hold, and whether they repeat anything. *)

Items(seq) == {seq[i] : i \in DOMAIN seq}
Distinct(seq) == \A i, k \in DOMAIN seq : seq[i] = seq[k] => i = k

LEMMA ItemsAreSet == \A seq : ToSet(seq) = Items(seq)
BY DEF ToSet, Items

(* A list is as long as it has items, or longer if it repeats some. *)
LEMMA ItemsCount ==
    ASSUME NEW S, NEW seq \in Seq(S)
    PROVE  /\ IsFiniteSet(Items(seq)) /\ Cardinality(Items(seq)) \in Nat
           /\ Cardinality(Items(seq)) <= Len(seq)
           /\ Distinct(seq) => Cardinality(Items(seq)) = Len(seq)
<1>1. Len(seq) \in Nat /\ DOMAIN seq = 1..Len(seq) /\ seq \in [1..Len(seq) -> S]
  BY LenProperties
<1>2. IsFiniteSet(1..Len(seq)) /\ Cardinality(1..Len(seq)) = Len(seq)
  <2> DEFINE n == Len(seq)
  <2>1. n \in Int /\ 1 \in Int /\ (1 > n => n = 0)
    BY <1>1
  <2> HIDE DEF n
  <2>2. IsFiniteSet(1..n) /\ Cardinality(1..n) = n
    BY <2>1, FS_Interval
  <2>3. QED
    BY <2>2 DEF n
<1>3. seq \in Surjection(1..Len(seq), Items(seq))
  BY <1>1 DEF Surjection, Items
<1>4. Distinct(seq) => seq \in Injection(1..Len(seq), Items(seq))
  BY <1>1, <1>3 DEF Distinct, Injection, IsInjective, Surjection
<1>5. QED
  BY <1>2, <1>3, <1>4, FS_Surjection, FS_CardinalityType

(* The items at some places of a list, in their order. *)
LEMMA SublistFacts ==
    ASSUME NEW S, NEW seq \in Seq(S), NEW P \in SUBSET DOMAIN seq
    PROVE  /\ Sublist(seq, P) \in Seq(S)
           /\ Items(Sublist(seq, P)) = {seq[i] : i \in P}
           /\ (\A i, k \in P : seq[i] = seq[k] => i = k) => Distinct(Sublist(seq, P))
<1> DEFINE n == Cardinality(P)
           sub == Sublist(seq, P)
<1>1. DOMAIN seq = 1..Len(seq) /\ Len(seq) \in Nat /\ \A i \in DOMAIN seq : seq[i] \in S
  BY LenProperties, ElementOfSeq
<1>2. P \subseteq Nat /\ IsFiniteSet(P)
  <2>1. IsFiniteSet(1..Len(seq))
    BY <1>1, FS_Interval
  <2>2. QED
    BY <1>1, <2>1, FS_Subset
<1>3. /\ n \in Nat /\ \A k \in 1..n : Nth(P, k) \in P
      /\ \A k, l \in 1..n : Nth(P, k) = Nth(P, l) => k = l
      /\ \A i \in P : \E k \in 1..n : Nth(P, k) = i
  BY <1>2, NthFacts
<1>4. sub = [k \in 1..n |-> seq[Nth(P, k)]] /\ DOMAIN sub = 1..n
  BY DEF Sublist
<1> HIDE DEF n, sub
<1>5. sub \in [1..n -> S]
  BY <1>1, <1>3, <1>4
<1>6. sub \in Seq(S)
  BY <1>3, <1>5
<1>7. Items(sub) = {seq[i] : i \in P}
  <2>1. \A x \in Items(sub) : x \in {seq[i] : i \in P}
    BY <1>3, <1>4 DEF Items
  <2>2. ASSUME NEW i \in P PROVE seq[i] \in Items(sub)
    <3>1. PICK k \in 1..n : Nth(P, k) = i
      BY <1>3
    <3>2. QED
      BY <1>4, <3>1 DEF Items
  <2>3. QED
    BY <2>1, <2>2
<1>8. (\A i, k \in P : seq[i] = seq[k] => i = k) => Distinct(sub)
  BY <1>3, <1>4 DEF Distinct
<1>9. QED
  BY <1>6, <1>7, <1>8 DEF sub

(* The newest of a set: as many as asked for, if there are so many. *)
LEMMA NewestFacts ==
    ASSUME NEW set \in SUBSET Nat, IsFiniteSet(set), NEW n \in Nat
    PROVE  /\ Newest(set, n) \in Seq(set) /\ Distinct(Newest(set, n))
           /\ Len(Newest(set, n)) = Smaller(n, Cardinality(set))
<1> DEFINE size == Cardinality(set)
           m == Smaller(n, size)
           list == Newest(set, n)
<1>1. /\ size \in Nat /\ \A k \in 1..size : Nth(set, k) \in set
      /\ \A k, l \in 1..size : Nth(set, k) = Nth(set, l) => k = l
  BY NthFacts
<1>2. m \in Nat /\ m <= size
  BY <1>1 DEF Smaller
<1>3. list = [k \in 1..m |-> Nth(set, size + 1 - k)]
  BY DEF Newest
<1> HIDE DEF size, m, list
<1>4. \A k \in 1..m : size + 1 - k \in 1..size
  BY <1>1, <1>2
<1>5. list \in [1..m -> set]
  BY <1>1, <1>3, <1>4
<1>6. Distinct(list)
  <2> SUFFICES ASSUME NEW k \in 1..m, NEW l \in 1..m, list[k] = list[l] PROVE k = l
    BY <1>3 DEF Distinct
  <2>1. size + 1 - k = size + 1 - l
    BY <1>1, <1>3, <1>4
  <2>2. QED
    BY <1>1, <2>1
<1>7. list \in Seq(set) /\ Len(list) = m
  BY <1>2, <1>5
<1>8. QED
  BY <1>6, <1>7 DEF list, m, size

(* list begins with target and adds items that are not in it, each once. *)
Extends(list, target) ==
    /\ Len(target) <= Len(list)
    /\ \A i \in DOMAIN target : list[i] = target[i]
    /\ \A i, k \in DOMAIN list : list[i] = list[k] /\ i > Len(target) => i = k

(* What is added are the first occurrences of items that target lacks. *)
LEMMA NewPlacesFacts ==
    ASSUME NEW S, NEW target \in Seq(S), NEW seq \in Seq(S)
    PROVE  /\ NewPlaces(target, seq) \in SUBSET DOMAIN seq
           /\ \A i \in NewPlaces(target, seq) : seq[i] \notin Items(target)
           /\ \A i, k \in NewPlaces(target, seq) : seq[i] = seq[k] => i = k
           /\ \A i \in DOMAIN seq : seq[i] \in Items(target) \/
                  \E k \in NewPlaces(target, seq) : seq[k] = seq[i]
<1>1. DOMAIN seq = 1..Len(seq) /\ Len(seq) \in Nat
  BY LenProperties
<1>2. NewPlaces(target, seq) = {i \in DOMAIN seq : /\ seq[i] \notin Items(target)
                                                  /\ \A j \in 1..i - 1 : seq[j] # seq[i]}
  BY ItemsAreSet DEF NewPlaces
<1>3. ASSUME NEW i \in NewPlaces(target, seq), NEW k \in NewPlaces(target, seq), seq[i] = seq[k]
      PROVE  i = k
  <2>1. i \in Nat /\ k \in Nat /\ i >= 1 /\ k >= 1
    BY <1>1, <1>2
  <2>2. ~(i \in 1..k - 1) /\ ~(k \in 1..i - 1)
    BY <1>2, <1>3
  <2>3. QED
    BY <2>1, <2>2
<1>4. ASSUME NEW i \in DOMAIN seq, seq[i] \notin Items(target)
      PROVE  \E k \in NewPlaces(target, seq) : seq[k] = seq[i]
  <2> DEFINE P == {j \in DOMAIN seq : seq[j] = seq[i]}
  <2>1. IsFiniteSet(1..Len(seq))
    BY <1>1, FS_Interval
  <2>2. P \in SUBSET Nat /\ IsFiniteSet(P) /\ i \in P
    BY <1>1, <2>1, FS_Subset
  <2>3. Cardinality(P) \in Nat /\ Cardinality(P) # 0
    BY <2>2, FS_CardinalityType, FS_EmptySet
  <2>4. 1 \in 1..Cardinality(P) /\ 1 - 1 = 0
    BY <2>3
  <2> DEFINE first == Nth(P, 1)
  <2>5. first \in P /\ Cardinality({j \in P : j < first}) = 0
    BY <2>2, <2>4, NthFacts
  <2>6. IsFiniteSet({j \in P : j < first})
    BY <2>2, FS_Subset
  <2>7. {j \in P : j < first} = {}
    BY <2>5, <2>6, FS_EmptySet
  <2>8. first \in DOMAIN seq /\ seq[first] = seq[i]
    BY <2>5
  <2> HIDE DEF first
  <2>9. \A j \in 1..first - 1 : seq[j] # seq[first]
    BY <1>1, <2>7, <2>8
  <2>10. QED
    BY <1>2, <1>4, <2>8, <2>9
<1>5. QED
  BY <1>2, <1>3, <1>4

LEMMA MergeFacts ==
    ASSUME NEW S, NEW target \in Seq(S), NEW seq \in Seq(S)
    PROVE  /\ MergeUnique(target, seq) \in Seq(S)
           /\ Items(MergeUnique(target, seq)) = Items(target) \cup Items(seq)
           /\ Extends(MergeUnique(target, seq), target)
<1> DEFINE P == NewPlaces(target, seq)
           sub == Sublist(seq, P)
           list == MergeUnique(target, seq)
<1>1. /\ sub \in Seq(S) /\ Distinct(sub)
      /\ Items(sub) = {seq[i] : i \in P}
  BY NewPlacesFacts, SublistFacts
<1>2. \A x \in Items(sub) : x \notin Items(target)
  BY <1>1, NewPlacesFacts
<1>3. Items(seq) \subseteq Items(target) \cup Items(sub) /\ Items(sub) \subseteq Items(seq)
  <2>1. /\ P \subseteq DOMAIN seq
        /\ \A i \in DOMAIN seq : seq[i] \in Items(target) \/ \E k \in P : seq[k] = seq[i]
    BY NewPlacesFacts
  <2>2. Items(sub) = {seq[i] : i \in P}
    BY <1>1
  <2>3. Items(seq) = {seq[i] : i \in DOMAIN seq}
    BY DEF Items
  <2> HIDE DEF P, sub
  <2>4. QED
    BY <2>1, <2>2, <2>3
<1>4. list = target \o sub
  BY DEF MergeUnique
<1> HIDE DEF P, sub, list
<1>5. /\ list \in Seq(S) /\ Len(list) = Len(target) + Len(sub)
      /\ \A i \in 1..Len(list) : list[i] = IF i <= Len(target) THEN target[i]
                                                              ELSE sub[i - Len(target)]
  BY <1>1, <1>4, ConcatProperties
<1>6. /\ Len(target) \in Nat /\ DOMAIN target = 1..Len(target)
      /\ Len(sub) \in Nat /\ DOMAIN sub = 1..Len(sub)
      /\ DOMAIN list = 1..Len(list)
  BY <1>1, <1>5, LenProperties
<1>7. ASSUME NEW i \in DOMAIN list
      PROVE  \/ i \in DOMAIN target /\ list[i] = target[i]
             \/ i - Len(target) \in DOMAIN sub /\ list[i] = sub[i - Len(target)]
  BY <1>5, <1>6
<1>8. \A i \in DOMAIN target : i \in DOMAIN list /\ list[i] = target[i]
  BY <1>5, <1>6
<1>9. \A i \in DOMAIN sub : i + Len(target) \in DOMAIN list /\ list[i + Len(target)] = sub[i]
  BY <1>5, <1>6
<1>10. Items(list) = Items(target) \cup Items(sub)
  BY <1>7, <1>8, <1>9 DEF Items
<1>11. ASSUME NEW i \in DOMAIN list, NEW k \in DOMAIN list, list[i] = list[k], i > Len(target)
       PROVE  i = k
  <2>1. i - Len(target) \in DOMAIN sub /\ list[i] = sub[i - Len(target)]
    BY <1>5, <1>6, <1>11
  <2>2. list[i] \notin Items(target)
    BY <1>2, <2>1 DEF Items
  <2>3. ~(k \in DOMAIN target)
    BY <1>8, <1>11, <2>2 DEF Items
  <2>4. k - Len(target) \in DOMAIN sub /\ list[k] = sub[k - Len(target)]
    BY <1>7, <2>3
  <2>5. i - Len(target) = k - Len(target)
    BY <1>1, <1>11, <2>1, <2>4 DEF Distinct
  <2>6. QED
    BY <1>6, <2>5
<1>12. Extends(list, target)
  BY <1>5, <1>6, <1>8, <1>11 DEF Extends
<1>13. QED
  BY <1>3, <1>5, <1>10, <1>12 DEF list

LEMMA ListOfSubset ==
    ASSUME NEW S, NEW T, S \subseteq T, NEW seq \in Seq(S)
    PROVE  seq \in Seq(T) /\ Items(seq) \subseteq S
<1>1. Len(seq) \in Nat /\ DOMAIN seq = 1..Len(seq) /\ seq \in [1..Len(seq) -> S]
  BY LenProperties
<1>2. seq \in [1..Len(seq) -> T]
  BY <1>1
<1>3. QED
  BY <1>1, <1>2 DEF Items

LEMMA TakeFacts ==
    ASSUME NEW S, NEW seq \in Seq(S), NEW n \in Nat
    PROVE  /\ Take(seq, n) \in Seq(S) /\ Len(Take(seq, n)) = Smaller(Len(seq), n)
           /\ Smaller(Len(seq), n) \in Nat /\ Smaller(Len(seq), n) <= Len(seq)
           /\ \A i \in 1..Smaller(Len(seq), n) : Take(seq, n)[i] = seq[i]
<1> DEFINE m == Smaller(Len(seq), n)
<1>1. Len(seq) \in Nat /\ DOMAIN seq = 1..Len(seq) /\ \A i \in 1..Len(seq) : seq[i] \in S
  BY LenProperties, ElementOfSeq
<1>2. m \in Nat /\ m <= Len(seq)
  BY <1>1 DEF Smaller
<1>3. Take(seq, n) = SubSeq(seq, 1, m)
  BY DEF Take
<1> HIDE DEF m
<1>4. /\ SubSeq(seq, 1, m) \in Seq(S) /\ Len(SubSeq(seq, 1, m)) = m
      /\ \A i \in 1..m : SubSeq(seq, 1, m)[i] = seq[i]
  BY <1>1, <1>2
<1>5. QED
  BY <1>2, <1>3, <1>4 DEF m

LEMMA ExtendsDistinct ==
    ASSUME NEW S, NEW target \in Seq(S), NEW list \in Seq(S),
           Extends(list, target), Distinct(target)
    PROVE  Distinct(list)
<1>1. /\ Len(target) \in Nat /\ DOMAIN target = 1..Len(target)
      /\ Len(list) \in Nat /\ DOMAIN list = 1..Len(list)
  BY LenProperties
<1>2. QED
  BY <1>1 DEF Extends, Distinct

(* padItems: nothing is lost, nothing is invented, and the result is as long *)
(* as it must be, or as what there is to pad with allows.                    *)
LEMMA PadFacts ==
    ASSUME NEW S, NEW target \in Seq(S), NEW seq \in Seq(S), Distinct(seq)
    PROVE  /\ PadItems(target, seq) \in Seq(S)
           /\ Items(PadItems(target, seq)) \subseteq Items(target) \cup Items(seq)
           /\ Extends(PadItems(target, seq), target)
           /\ Len(PadItems(target, seq)) >= Smaller(MinItems, Len(seq))
<1> DEFINE all == MergeUnique(target, seq)
           pad == PadItems(target, seq)
<1>1. MinItems \in Nat \ {0}
  BY HomeAssumption
<1>2. /\ Len(target) \in Nat /\ DOMAIN target = 1..Len(target)
      /\ Len(seq) \in Nat /\ DOMAIN seq = 1..Len(seq)
  BY LenProperties
<1>3. CASE Len(target) >= MinItems
  <2>1. pad = target
    BY <1>3 DEF PadItems
  <2>2. Extends(target, target)
    BY <1>2 DEF Extends
  <2>3. Len(target) >= Smaller(MinItems, Len(seq))
    BY <1>1, <1>2, <1>3 DEF Smaller
  <2>4. QED
    BY <2>1, <2>2, <2>3
<1>4. CASE ~(Len(target) >= MinItems)
  <2> DEFINE m == Smaller(Len(all), MinItems)
  <2>1. /\ all \in Seq(S) /\ Items(all) = Items(target) \cup Items(seq)
        /\ Extends(all, target)
    BY MergeFacts
  <2>2. pad = Take(all, MinItems)
    BY <1>4 DEF PadItems
  <2>3. Len(seq) <= Len(all)
    <3>1. /\ Cardinality(Items(seq)) = Len(seq)
          /\ IsFiniteSet(Items(all)) /\ Cardinality(Items(all)) <= Len(all)
          /\ Cardinality(Items(all)) \in Nat /\ Len(all) \in Nat
      BY <2>1, ItemsCount, LenProperties
    <3>2. Items(seq) \subseteq Items(all)
      BY <2>1
    <3>3. Cardinality(Items(seq)) <= Cardinality(Items(all))
      BY <3>1, <3>2, FS_Subset
    <3>4. QED
      BY <1>2, <3>1, <3>3
  <2> HIDE DEF all, pad
  <2>4. /\ pad \in Seq(S) /\ Len(pad) = m /\ m \in Nat /\ m <= Len(all)
        /\ \A i \in 1..m : pad[i] = all[i]
    BY <1>1, <2>1, <2>2, TakeFacts
  <2>5. Len(all) \in Nat /\ DOMAIN all = 1..Len(all) /\ DOMAIN pad = 1..m
    BY <2>1, <2>4, LenProperties
  <2>6. Len(target) <= m /\ m >= Smaller(MinItems, Len(seq))
    BY <1>1, <1>2, <1>4, <2>1, <2>3, <2>5 DEF Smaller, Extends
  <2> HIDE DEF m
  <2>7. \A i \in DOMAIN pad : i \in DOMAIN all /\ pad[i] = all[i]
    BY <2>4, <2>5
  <2>8. Items(pad) \subseteq Items(all)
    BY <2>7 DEF Items
  <2>9. Extends(pad, target)
    BY <1>2, <2>1, <2>4, <2>5, <2>6, <2>7 DEF Extends
  <2>10. QED
    BY <2>1, <2>4, <2>6, <2>8, <2>9 DEF pad
<1>5. QED
  BY <1>3, <1>4

-----------------------------------------------------------------------------
(* Averages: comparing them crosswise orders their quotients. *)

LEMMA TimesMonotone ==
    ASSUME NEW i \in Nat, NEW j \in Nat, i <= j, NEW k \in Nat
    PROVE  i * k <= j * k /\ i * k \in Nat /\ j * k \in Nat
OBVIOUS

LEMMA TimesStrict ==
    ASSUME NEW i \in Nat, NEW j \in Nat, i < j, NEW k \in Nat \ {0}
    PROVE  i * k < j * k
OBVIOUS

LEMMA Rearranged ==
    ASSUME NEW i \in Nat, NEW j \in Nat, NEW k \in Nat
    PROVE  (i * j) * k = (i * k) * j
OBVIOUS

LEMMA QuotientFacts ==
    ASSUME NEW n \in Nat, NEW d \in Nat \ {0}
    PROVE  n \div d \in Nat /\ (n \div d) * d <= n /\ n < (n \div d + 1) * d
OBVIOUS

LEMMA QuotientOrder ==
    ASSUME NEW a \in Nat, NEW b \in Nat, NEW c \in Nat \ {0}, NEW d \in Nat \ {0},
           b * c <= a * d
    PROVE  (60 * b) \div d <= (60 * a) \div c
<1> DEFINE q == (60 * b) \div d
           r == (60 * a) \div c
<1>1. 60 * b \in Nat /\ 60 * a \in Nat /\ c \in Nat /\ d \in Nat
  OBVIOUS
<1>2. q \in Nat /\ q * d <= 60 * b /\ r \in Nat /\ 60 * a < (r + 1) * c
  BY <1>1, QuotientFacts
<1> HIDE DEF q, r
<1> SUFFICES ASSUME q >= r + 1 PROVE FALSE
  BY <1>2 DEF q, r
<1>3. r + 1 \in Nat /\ r + 1 <= q /\ (r + 1) * c \in Nat /\ q * d \in Nat
  BY <1>2
<1>4. (60 * a) * d < ((r + 1) * c) * d
  BY <1>1, <1>2, <1>3, TimesStrict
<1>5. ((r + 1) * c) * d = ((r + 1) * d) * c
  BY <1>1, <1>3, Rearranged
<1>6. (r + 1) * d <= q * d /\ (r + 1) * d \in Nat
  BY <1>1, <1>2, <1>3, TimesMonotone
<1>7. ((r + 1) * d) * c <= (60 * b) * c /\ ((r + 1) * d) * c \in Nat
  <2>1. (r + 1) * d <= 60 * b
    BY <1>1, <1>2, <1>3, <1>6
  <2>2. QED
    BY <1>1, <1>6, <2>1, TimesMonotone
<1>8. (60 * b) * c <= (60 * a) * d
  OBVIOUS
<1>9. QED
  BY <1>1, <1>4, <1>5, <1>7, <1>8

-----------------------------------------------------------------------------
(* A list that is merged into an empty one, whole, comes out as it went in. *)

LEMMA NthOfAll ==
    ASSUME NEW n \in Nat, NEW k \in 1..n
    PROVE  Cardinality(1..n) = n /\ Nth(1..n, k) = k
<1>1. 1..n \in SUBSET Nat /\ IsFiniteSet(1..n) /\ Cardinality(1..n) = n
  BY FS_Interval
<1> DEFINE i == Nth(1..n, k)
<1>2. i \in 1..n /\ Cardinality({j \in 1..n : j < i}) = k - 1
  BY <1>1, NthFacts
<1> HIDE DEF i
<1>3. {j \in 1..n : j < i} = 1..(i - 1)
  BY <1>2
<1>4. i - 1 \in Nat /\ Cardinality(1..(i - 1)) = i - 1
  <2> DEFINE m == i - 1
  <2>1. m \in Nat
    BY <1>2
  <2> HIDE DEF m
  <2>2. Cardinality(1..m) = m
    BY <2>1, FS_Interval
  <2>3. QED
    BY <2>1, <2>2 DEF m
<1>5. i - 1 = k - 1
  BY <1>2, <1>3, <1>4
<1>6. i = k
  BY <1>2, <1>5
<1>7. QED
  BY <1>1, <1>6 DEF i

LEMMA SublistOfAll ==
    ASSUME NEW S, NEW seq \in Seq(S)
    PROVE  Sublist(seq, DOMAIN seq) = seq
<1> DEFINE n == Len(seq)
<1>1. n \in Nat /\ DOMAIN seq = 1..n /\ seq \in [1..n -> S]
  BY LenProperties
<1>2. Cardinality(1..n) = n
  <2> HIDE DEF n
  <2>1. QED
    BY <1>1, FS_Interval
<1>3. \A k \in 1..n : Nth(1..n, k) = k
  BY <1>1, NthOfAll
<1>4. Sublist(seq, DOMAIN seq) = [k \in 1..n |-> seq[Nth(1..n, k)]]
  BY <1>1, <1>2 DEF Sublist
<1>5. Sublist(seq, DOMAIN seq) = [k \in 1..n |-> seq[k]]
  BY <1>3, <1>4
<1>6. QED
  BY <1>1, <1>5

LEMMA MergeIntoNothing ==
    ASSUME NEW S, NEW seq \in Seq(S), Distinct(seq)
    PROVE  MergeUnique(<<>>, seq) = seq
<1>1. DOMAIN seq = 1..Len(seq) /\ Len(seq) \in Nat /\ ToSet(<<>>) = {}
  BY LenProperties, ItemsAreSet DEF Items
<1>2. \A i \in DOMAIN seq : \A j \in 1..i - 1 : j \in DOMAIN seq /\ j # i
  BY <1>1
<1>3. NewPlaces(<<>>, seq) = DOMAIN seq
  BY <1>1, <1>2 DEF NewPlaces, Distinct
<1>4. <<>> \o seq = seq
  BY ConcatEmptySeq
<1>5. QED
  BY <1>3, <1>4, SublistOfAll DEF MergeUnique

-----------------------------------------------------------------------------
(* The invariant. *)

Watched == published \subseteq seen /\ steady \subseteq published \cap Monuments

FromCatalogue ==
    Items(featured) \cup Items(items) \cup Items(feed) \subseteq seen

(* The fallback list stays short of MIN_FOR_YOU_ITEMS until it is handed over. *)
FeedGrows ==
    /\ Distinct(feed)
    /\ pc \in {"featured", "snapshot", "item", "profile", "suited"} => feed = <<>>
    /\ pc \in {"ratings", "rated", "recent"} => Len(feed) < MinItems

(* The first k items of the snapshot that was read have been looked up; those *)
(* that were found each come from a place of their own.                       *)
FoundIn(whole, k, rest, found) ==
    /\ k \in 0..Len(whole) /\ Len(rest) = Len(whole) - k
    /\ \A i \in 1..Len(rest) : rest[i] = whole[k + i]
    /\ \E place \in [1..Len(found) -> 1..k] :
          /\ \A i \in 1..Len(found) : found[i] = whole[place[i]]
          /\ \A i, j \in 1..Len(found) : place[i] = place[j] => i = j

LooksUp ==
    /\ pc = "item" => source = "snapshot" /\ todo # <<>>
    /\ pc \in {"featured", "snapshot"} => items = <<>> /\ source = "none"
    /\ pc = "suited" => persona \in Personas
    /\ source = "snapshot" /\ pc # "done" =>
          \E k \in 0..Len(payload) : FoundIn(payload, k, todo, items)

(* Without a snapshot, without a persona and with nothing changing, what is in *)
(* the list so far is what is best rated.                                      *)
Averages == [m \in Rated |-> Average(m)]

Ranked(list) ==
    /\ \A i, k \in DOMAIN list :
          i < k /\ list[k] \in Rated =>
              list[i] \in Rated /\ Averages[list[i]] >= Averages[list[k]]
    /\ \A m \in Rated \ ToSet(list), i \in DOMAIN list :
          list[i] \in Rated /\ Averages[list[i]] >= Averages[m]

Ranks ==
    (changes = 0 /\ source = "fallback" /\ profile = "none" /\ Rated \subseteq published) =>
        /\ pc # "suited"
        /\ pc \in {"profile", "ratings", "rated"} => feed = <<>>
        /\ pc = "rated" => wanted \in TopRated
        /\ pc = "recent" => feed \in TopRated
        /\ pc = "done" => Ranked(items)

HomeInv ==
    /\ TypeOK /\ Watched /\ FromCatalogue /\ FeedGrows /\ LooksUp
    /\ EnoughItems /\ NoDuplicates

-----------------------------------------------------------------------------
(* The snapshot, item by item. *)

OnlyRepeats(list, whole) ==
    \A i, k \in DOMAIN list :
        i # k /\ list[i] = list[k] =>
            \E j, l \in DOMAIN whole : j # l /\ whole[j] = list[i] /\ whole[l] = list[i]

LEMMA FoundRepeats ==
    ASSUME NEW S, NEW whole \in Seq(S), NEW rest \in Seq(S), NEW found \in Seq(S),
           NEW k \in 0..Len(whole), FoundIn(whole, k, rest, found)
    PROVE  OnlyRepeats(found, whole)
<1>1. /\ Len(whole) \in Nat /\ DOMAIN whole = 1..Len(whole)
      /\ Len(found) \in Nat /\ DOMAIN found = 1..Len(found)
  BY LenProperties
<1>2. PICK place \in [1..Len(found) -> 1..k] :
          /\ \A i \in 1..Len(found) : found[i] = whole[place[i]]
          /\ \A i, j \in 1..Len(found) : place[i] = place[j] => i = j
  BY DEF FoundIn
<1>3. \A i \in DOMAIN found : place[i] \in DOMAIN whole
  BY <1>1, <1>2
<1>4. QED
  BY <1>1, <1>2, <1>3 DEF OnlyRepeats

(* What pads a list brings in no repetition. *)
LEMMA ExtendsRepeats ==
    ASSUME NEW S, NEW whole \in Seq(S), NEW target \in Seq(S), NEW list \in Seq(S),
           Extends(list, target), OnlyRepeats(target, whole)
    PROVE  OnlyRepeats(list, whole)
<1>1. /\ Len(target) \in Nat /\ DOMAIN target = 1..Len(target)
      /\ Len(list) \in Nat /\ DOMAIN list = 1..Len(list)
  BY LenProperties
<1>2. ASSUME NEW i \in DOMAIN list, NEW k \in DOMAIN list, i # k, list[i] = list[k]
      PROVE  /\ i \in DOMAIN target /\ k \in DOMAIN target
             /\ target[i] = list[i] /\ target[k] = list[k]
  BY <1>1, <1>2 DEF Extends
<1>3. QED
  BY <1>2 DEF OnlyRepeats

LEMMA FoundFirst ==
    ASSUME NEW S, NEW whole \in Seq(S)
    PROVE  0 \in 0..Len(whole) /\ FoundIn(whole, 0, whole, <<>>)
<1>1. Len(whole) \in Nat
  BY LenProperties
<1>2. Len(<<>>) = 0 /\ 1..0 = {}
  BY EmptySeq
<1>3. [i \in {} |-> 0] \in [{} -> {}]
  OBVIOUS
<1>4. \E place \in [1..Len(<<>>) -> 1..0] :
          /\ \A i \in 1..Len(<<>>) : <<>>[i] = whole[place[i]]
          /\ \A i, j \in 1..Len(<<>>) : place[i] = place[j] => i = j
  BY <1>2, <1>3
<1>5. Len(whole) = Len(whole) - 0 /\ \A i \in 1..Len(whole) : whole[i] = whole[0 + i]
  BY <1>1
<1>6. 0 \in 0..Len(whole)
  BY <1>1
<1>7. QED
  BY <1>4, <1>5, <1>6, Zenon DEF FoundIn

LEMMA FoundNext ==
    ASSUME NEW S, NEW whole \in Seq(S), NEW rest \in Seq(S), NEW found \in Seq(S), rest # <<>>,
           NEW k \in 0..Len(whole), FoundIn(whole, k, rest, found)
    PROVE  /\ k + 1 \in 0..Len(whole)
           /\ FoundIn(whole, k + 1, Tail(rest), found)
           /\ FoundIn(whole, k + 1, Tail(rest), Append(found, Head(rest)))
<1>1. /\ Len(whole) \in Nat /\ DOMAIN whole = 1..Len(whole)
      /\ Len(rest) \in Nat \ {0} /\ DOMAIN rest = 1..Len(rest)
      /\ Len(found) \in Nat /\ DOMAIN found = 1..Len(found)
  BY LenProperties, EmptySeq
<1>2. /\ k + 1 \in 0..Len(whole) /\ Len(rest) = Len(whole) - k
      /\ \A i \in 1..Len(rest) : rest[i] = whole[k + i]
  BY <1>1 DEF FoundIn
<1>3. PICK place \in [1..Len(found) -> 1..k] :
          /\ \A i \in 1..Len(found) : found[i] = whole[place[i]]
          /\ \A i, j \in 1..Len(found) : place[i] = place[j] => i = j
  BY DEF FoundIn
<1>4. /\ Len(Tail(rest)) = Len(whole) - (k + 1)
      /\ \A i \in 1..Len(Tail(rest)) : Tail(rest)[i] = whole[k + 1 + i]
  <2> DEFINE m == Len(Tail(rest))
  <2>1. /\ m = Len(rest) - 1
        /\ \A i \in 1..m : Tail(rest)[i] = rest[i + 1]
    BY <1>1, HeadTailProperties
  <2> HIDE DEF m
  <2>2. \A i \in 1..m : i + 1 \in 1..Len(rest) /\ k + (i + 1) = k + 1 + i
    BY <1>1, <2>1
  <2>3. \A i \in 1..m : rest[i + 1] = whole[k + (i + 1)]
    BY <1>2, <2>2
  <2>4. m = Len(whole) - (k + 1)
    <3>1. Len(whole) - k - 1 = Len(whole) - (k + 1)
      BY <1>1
    <3>2. QED
      BY <1>2, <2>1, <3>1
  <2>5. \A i \in 1..m : Tail(rest)[i] = whole[k + 1 + i]
    BY <2>1, <2>2, <2>3
  <2>6. QED
    BY <2>4, <2>5 DEF m
<1>5. FoundIn(whole, k + 1, Tail(rest), found)
  <2>1. place \in [1..Len(found) -> 1..(k + 1)]
    BY <1>1, <1>3
  <2>2. QED
    BY <1>2, <1>3, <1>4, <2>1 DEF FoundIn
<1>6. FoundIn(whole, k + 1, Tail(rest), Append(found, Head(rest)))
  <2> DEFINE n == Len(found)
             more == Append(found, Head(rest))
             at == [i \in 1..(n + 1) |-> IF i = n + 1 THEN k + 1 ELSE place[i]]
  <2>1. /\ Len(more) = n + 1 /\ more[n + 1] = Head(rest)
        /\ \A i \in 1..n : more[i] = found[i]
    BY <1>1, AppendProperties
  <2>2. Head(rest) = whole[k + 1]
    <3>1. Head(rest) = rest[1] /\ 1 \in 1..Len(rest)
      BY <1>1, HeadTailProperties
    <3>2. QED
      BY <1>2, <3>1
  <2> HIDE DEF more
  <2>3. at \in [1..(n + 1) -> 1..(k + 1)]
    BY <1>1, <1>3
  <2>4. /\ at[n + 1] = k + 1
        /\ \A i \in 1..n : at[i] = place[i] /\ place[i] \in 1..k
    <3>1. n + 1 \in 1..(n + 1) /\ \A i \in 1..n : i \in 1..(n + 1) /\ i # n + 1
      BY <1>1
    <3> HIDE DEF n
    <3>2. QED
      BY <1>3, <3>1 DEF n
  <2>5. \A i \in 1..(n + 1) : i = n + 1 \/ i \in 1..n
    BY <1>1
  <2>6. k + 1 \notin 1..k
    BY <1>1
  <2> HIDE DEF at, n
  <2>7. \A i \in 1..(n + 1) : more[i] = whole[at[i]]
    BY <1>3, <2>1, <2>2, <2>4, <2>5 DEF n
  <2>8. \A i, j \in 1..(n + 1) : at[i] = at[j] => i = j
    BY <1>3, <2>4, <2>5, <2>6 DEF n
  <2>9. \E p \in [1..Len(more) -> 1..(k + 1)] :
            /\ \A i \in 1..Len(more) : more[i] = whole[p[i]]
            /\ \A i, j \in 1..Len(more) : p[i] = p[j] => i = j
    <3>1. \E p \in [1..(n + 1) -> 1..(k + 1)] :
              /\ \A i \in 1..(n + 1) : more[i] = whole[p[i]]
              /\ \A i, j \in 1..(n + 1) : p[i] = p[j] => i = j
      BY <2>3, <2>7, <2>8, Zenon
    <3>2. Len(more) = n + 1
      BY <2>1
    <3>3. QED
      BY <3>1, <3>2, Zenon
  <2>10. FoundIn(whole, k + 1, Tail(rest), more)
    BY <1>2, <1>4, <2>9 DEF FoundIn
  <2>11. QED
    BY <2>10 DEF more
<1>7. QED
  BY <1>2, <1>5, <1>6

-----------------------------------------------------------------------------
(* The lists that the queries answer. *)

LEMMA FiniteMonuments ==
    ASSUME NEW set \in SUBSET Monuments
    PROVE  /\ set \in SUBSET Nat /\ set \subseteq Content
           /\ IsFiniteSet(set) /\ Cardinality(set) \in Nat
<1>1. set \subseteq Content /\ IsFiniteSet(Content) /\ set \in SUBSET Nat
  BY HomeAssumption DEF Content
<1>2. QED
  BY <1>1, FS_Subset, FS_CardinalityType

LEMMA NewestOfContent ==
    ASSUME NEW set \in SUBSET Monuments, NEW n \in Nat
    PROVE  /\ Newest(set, n) \in Seq(Content) /\ Items(Newest(set, n)) \subseteq set
           /\ Distinct(Newest(set, n))
           /\ Len(Newest(set, n)) = Smaller(n, Cardinality(set))
<1>1. set \in SUBSET Nat /\ set \subseteq Content /\ IsFiniteSet(set)
  BY FiniteMonuments
<1>2. /\ Newest(set, n) \in Seq(set) /\ Distinct(Newest(set, n))
      /\ Len(Newest(set, n)) = Smaller(n, Cardinality(set))
  BY <1>1, NewestFacts
<1>3. QED
  BY <1>1, <1>2, ListOfSubset

LEMMA TopRatedType ==
    ASSUME NEW list \in TopRated
    PROVE  list \in Lists /\ Len(list) <= MinItems
<1> DEFINE n == Smaller(Cardinality(Rated), MinItems)
<1>1. Rated \in SUBSET Monuments
  BY DEF Rated
<1>2. Rated \subseteq Content /\ Cardinality(Rated) \in Nat
  BY <1>1, FiniteMonuments
<1>3. n \in Nat /\ n <= MinItems
  BY <1>2, HomeAssumption DEF Smaller
<1>4. list \in [1..n -> Rated]
  BY DEF TopRated, TupleOf
<1> HIDE DEF n
<1>5. list \in [1..n -> Content]
  BY <1>2, <1>4
<1>6. list \in Seq(Content) /\ Len(list) = n
  BY <1>3, <1>5
<1>7. QED
  BY <1>3, <1>6 DEF Lists

(* What the request may add to its fallback list. *)
LEMMA RatedList ==
    ASSUME TypeOK
    PROVE  LET list == Sublist(wanted, {i \in DOMAIN wanted : wanted[i] \in published})
           IN  list \in Seq(Content) /\ Items(list) \subseteq published
<1> DEFINE P == {i \in DOMAIN wanted : wanted[i] \in published}
<1>1. wanted \in Seq(Content) /\ P \in SUBSET DOMAIN wanted
  BY DEF TypeOK, Lists
<1>2. /\ Sublist(wanted, P) \in Seq(Content)
      /\ Items(Sublist(wanted, P)) = {wanted[i] : i \in P}
  BY <1>1, SublistFacts
<1>3. QED
  BY <1>2

(* A step that leaves the catalogue alone and makes the fallback list longer. *)
LEMMA FeedGrown ==
    ASSUME TypeOK, Watched, FromCatalogue, FeedGrows, NEW list \in Seq(Content),
           Items(list) \subseteq published
    PROVE  /\ MergeUnique(feed, list) \in Lists
           /\ Items(MergeUnique(feed, list)) \subseteq seen
           /\ Items(list) \subseteq Items(MergeUnique(feed, list))
           /\ Distinct(MergeUnique(feed, list))
<1>1. feed \in Seq(Content)
  BY DEF TypeOK, Lists
<1>2. /\ MergeUnique(feed, list) \in Seq(Content)
      /\ Items(MergeUnique(feed, list)) = Items(feed) \cup Items(list)
      /\ Extends(MergeUnique(feed, list), feed)
  BY <1>1, MergeFacts
<1>3. Distinct(MergeUnique(feed, list))
  BY <1>1, <1>2, ExtendsDistinct DEF FeedGrows
<1>4. QED
  BY <1>2, <1>3 DEF Lists, Watched, FromCatalogue

(* Answering with the fallback list, or padding with it, is all right whenever *)
(* that list is long enough and repeats nothing.                               *)
LEMMA Finished ==
    ASSUME HomeInv, pc # "done", NEW list \in Lists, Items(list) \subseteq seen, Distinct(list),
           Len(list) >= Smaller(MinItems, Cardinality(steady)),
           Finish(list), UNCHANGED <<source, seen, steady, payload>>
    PROVE  /\ items' \in Lists /\ Items(items') \subseteq seen
           /\ pc' = "done" /\ EnoughItems' /\ NoDuplicates'
<1>1. /\ list \in Seq(Content) /\ items \in Seq(Content) /\ payload \in Seq(Content)
      /\ todo \in Seq(Content) /\ Items(items) \subseteq seen
      /\ Cardinality(steady) \in Nat /\ MinItems \in Nat
      /\ pc' = "done"
  <2>1. list \in Seq(Content) /\ items \in Seq(Content) /\ todo \in Seq(Content)
    BY DEF HomeInv, TypeOK, Lists
  <2>2. payload \in Seq(Content) /\ MinItems \in Nat
    BY HomeAssumption DEF HomeInv, TypeOK
  <2>3. Cardinality(steady) \in Nat
    <3>1. steady \in SUBSET Monuments
      BY DEF HomeInv, Watched
    <3>2. QED
      BY <3>1, FiniteMonuments
  <2>4. Items(items) \subseteq seen /\ pc' = "done"
    BY DEF HomeInv, FromCatalogue, Finish, Goto
  <2>5. QED
    BY <2>1, <2>2, <2>3, <2>4
<1>2. Len(list) \in Nat /\ DOMAIN list = 1..Len(list)
  BY <1>1, LenProperties
<1>3. CASE source = "snapshot"
  <2>1. items' = PadItems(items, list)
    BY <1>3 DEF Finish
  <2>2. /\ items' \in Seq(Content)
        /\ Items(items') \subseteq Items(items) \cup Items(list)
        /\ Extends(items', items)
        /\ Len(items') >= Smaller(MinItems, Len(list))
    BY <1>1, <2>1, PadFacts
  <2>3. PICK k \in 0..Len(payload) : FoundIn(payload, k, todo, items)
    BY <1>3 DEF HomeInv, LooksUp
  <2>4. OnlyRepeats(items, payload)
    BY <1>1, <2>3, FoundRepeats
  <2>5. OnlyRepeats(items', payload)
    BY <1>1, <2>2, <2>4, ExtendsRepeats
  <2>6. Len(items') \in Nat
    BY <2>2, LenProperties
  <2>7. Len(items') >= Smaller(MinItems, Cardinality(steady))
    BY <1>1, <1>2, <2>2, <2>6 DEF Smaller
  <2>8. QED
    BY <1>1, <2>2, <2>5, <2>7 DEF Lists, EnoughItems, NoDuplicates, OnlyRepeats
<1>4. CASE source # "snapshot"
  <2>1. items' = list
    BY <1>4 DEF Finish
  <2>2. NoDuplicates'
    BY <2>1 DEF NoDuplicates, Distinct
  <2>3. QED
    BY <1>1, <2>1, <2>2 DEF EnoughItems
<1>5. QED
  BY <1>3, <1>4

-----------------------------------------------------------------------------
(* The first states, and one lemma per step. *)

LEMMA HomeInit == Init => HomeInv
<1> SUFFICES ASSUME Init PROVE HomeInv
  OBVIOUS
<1>1. /\ <<>> \in Seq(Content) /\ Len(<<>>) = 0 /\ DOMAIN <<>> = {}
      /\ MinItems \in Nat \ {0} /\ MaxChanges \in Nat /\ <<>> \in Payloads
  BY HomeAssumption, EmptySeq
<1>2. published \in SUBSET Content /\ seen = published /\ steady = published \cap Monuments
  BY DEF Init
<1>3. TypeOK
  BY <1>1 DEF Init, TypeOK, Lists
<1>4. Watched
  BY <1>2 DEF Watched
<1>5. FromCatalogue
  BY <1>1 DEF Init, FromCatalogue, Items
<1>6. FeedGrows
  BY <1>1 DEF Init, FeedGrows, Distinct
<1>7. LooksUp /\ EnoughItems /\ NoDuplicates
  BY DEF Init, LooksUp, EnoughItems, NoDuplicates
<1>8. QED
  BY <1>3, <1>4, <1>5, <1>6, <1>7 DEF HomeInv

(* Where nothing but the program counter moves on before the end. *)
LEMMA NotYetDone == pc' # "done" => EnoughItems' /\ NoDuplicates'
BY DEF EnoughItems, NoDuplicates

LEMMA GetFeaturedStep == HomeInv /\ GetFeatured => HomeInv'
<1> SUFFICES ASSUME HomeInv, GetFeatured PROVE HomeInv'
  OBVIOUS
<1> USE DEF GetFeatured, world, Goto
<1>1. /\ featured' \in Lists /\ Items(featured') \subseteq published
  <2>1. published \cap Monuments \in SUBSET Monuments /\ Featured \in Nat
    BY HomeAssumption
  <2>2. featured' = Newest(published \cap Monuments, Featured)
    OBVIOUS
  <2>3. QED
    BY <2>1, <2>2, NewestOfContent DEF Lists
<1>2. TypeOK'
  BY <1>1 DEF HomeInv, TypeOK, Lists
<1>3. Watched' /\ FeedGrows'
  BY DEF HomeInv, Watched, FeedGrows
<1>4. FromCatalogue'
  BY <1>1 DEF HomeInv, Watched, FromCatalogue
<1>5. LooksUp'
  BY DEF HomeInv, LooksUp
<1>6. EnoughItems' /\ NoDuplicates'
  BY NotYetDone
<1>7. QED
  BY <1>2, <1>3, <1>4, <1>5, <1>6 DEF HomeInv

LEMMA GetValidSnapshotStep == HomeInv /\ GetValidSnapshot => HomeInv'
<1> SUFFICES ASSUME HomeInv, GetValidSnapshot PROVE HomeInv'
  OBVIOUS
<1> USE DEF GetValidSnapshot, world, Goto
<1>1. snapshot \in Payloads /\ snapshot \in Seq(Content)
  BY HomeAssumption DEF HomeInv, TypeOK
<1>2. TypeOK'
  BY <1>1 DEF HomeInv, TypeOK, Lists
<1>3. Watched' /\ FeedGrows' /\ FromCatalogue'
  <2>1. feed = <<>> /\ pc' \in {"item", "profile"}
    BY DEF HomeInv, FeedGrows
  <2>2. Watched' /\ FromCatalogue'
    BY DEF HomeInv, Watched, FromCatalogue
  <2>3. FeedGrows'
    BY <2>1 DEF HomeInv, FeedGrows
  <2>4. QED
    BY <2>2, <2>3
<1>4. LooksUp'
  <2>1. items = <<>> /\ items' = items /\ payload' = snapshot
    BY DEF HomeInv, LooksUp
  <2>2. 0 \in 0..Len(snapshot) /\ FoundIn(snapshot, 0, snapshot, <<>>)
    BY <1>1, FoundFirst
  <2>3. CASE source' = "snapshot"
    <3>1. todo' = snapshot /\ snapshot # <<>> /\ pc' = "item"
      BY <2>3
    <3>2. QED
      BY <2>1, <2>2, <2>3, <3>1 DEF LooksUp
  <2>4. CASE source' # "snapshot"
    <3>1. pc' = "profile"
      BY <2>4
    <3>2. QED
      BY <2>4, <3>1 DEF LooksUp
  <2>5. QED
    BY <2>3, <2>4
<1>5. EnoughItems' /\ NoDuplicates'
  BY NotYetDone
<1>6. QED
  BY <1>2, <1>3, <1>4, <1>5 DEF HomeInv

LEMMA EnrichItemStep == HomeInv /\ EnrichItem => HomeInv'
<1> SUFFICES ASSUME HomeInv, EnrichItem PROVE HomeInv'
  OBVIOUS
<1> USE DEF EnrichItem, world, Goto
<1>1. /\ todo \in Seq(Content) /\ todo # <<>> /\ items \in Seq(Content)
      /\ payload \in Seq(Content) /\ Items(items) \subseteq seen
      /\ published \subseteq seen /\ source = "snapshot" /\ MinItems \in Nat
  BY HomeAssumption DEF HomeInv, TypeOK, Lists, LooksUp, FromCatalogue, Watched
<1>2. Head(todo) \in Content /\ Tail(todo) \in Seq(Content)
  BY <1>1, HeadTailProperties
<1>3. items' \in Seq(Content) /\ Items(items') \subseteq seen
  <2>1. CASE items' = items
    BY <1>1, <2>1
  <2>2. CASE items' = Append(items, Head(todo)) /\ Head(todo) \in published
    <3>1. /\ Append(items, Head(todo)) \in Seq(Content)
          /\ Len(items) \in Nat /\ DOMAIN items = 1..Len(items)
          /\ Len(Append(items, Head(todo))) = Len(items) + 1
          /\ Append(items, Head(todo))[Len(items) + 1] = Head(todo)
          /\ \A i \in 1..Len(items) : Append(items, Head(todo))[i] = items[i]
      BY <1>1, <1>2, AppendProperties, LenProperties
    <3>2. DOMAIN items' = 1..Len(items')
      BY <2>2, <3>1, LenProperties
    <3>3. ASSUME NEW i \in DOMAIN items' PROVE items'[i] \in seen
      <4>1. i = Len(items) + 1 \/ i \in DOMAIN items
        BY <2>2, <3>1, <3>2, <3>3
      <4>2. QED
        BY <1>1, <2>2, <3>1, <4>1 DEF Items
    <3>4. QED
      BY <2>2, <3>1, <3>3 DEF Items
  <2>3. QED
    BY <2>1, <2>2
<1>4. PICK k \in 0..Len(payload) : FoundIn(payload, k, todo, items)
  BY DEF HomeInv, LooksUp
<1>5. k + 1 \in 0..Len(payload) /\ FoundIn(payload, k + 1, todo', items')
  BY <1>1, <1>4, FoundNext
<1>6. /\ pc' \in {"item", "done", "profile"} /\ (pc' = "item" => todo' # <<>>)
      /\ pc' = "done" => Len(items') >= MinItems
  BY DEF AfterItem
<1>7. TypeOK'
  BY <1>2, <1>3, <1>6 DEF HomeInv, TypeOK, Lists
<1>8. Watched'
  BY DEF HomeInv, Watched
<1>9. FromCatalogue'
  BY <1>3 DEF HomeInv, FromCatalogue
<1>10. FeedGrows'
  BY <1>6 DEF HomeInv, FeedGrows
<1>11. LooksUp'
  BY <1>1, <1>5, <1>6 DEF LooksUp
<1>12. EnoughItems'
  <2>1. Len(items') \in Nat /\ Cardinality(steady) \in Nat
    <3>1. steady \in SUBSET Monuments
      BY DEF HomeInv, Watched
    <3>2. QED
      BY <1>3, <3>1, FiniteMonuments, LenProperties
  <2>2. Len(items') >= MinItems => Len(items') >= Smaller(MinItems, Cardinality(steady))
    BY <1>1, <2>1 DEF Smaller
  <2>3. QED
    BY <1>6, <2>2 DEF EnoughItems
<1>13. NoDuplicates'
  <2>1. OnlyRepeats(items', payload)
    BY <1>1, <1>2, <1>3, <1>5, FoundRepeats
  <2>2. QED
    BY <2>1 DEF NoDuplicates, OnlyRepeats
<1>14. QED
  BY <1>7, <1>8, <1>9, <1>10, <1>11, <1>12, <1>13 DEF HomeInv

LEMMA FindProfileStep == HomeInv /\ FindProfile => HomeInv'
<1> SUFFICES ASSUME HomeInv, FindProfile PROVE HomeInv'
  OBVIOUS
<1> USE DEF FindProfile, world, Goto
<1>1. pc' \in {"suited", "ratings"} /\ pc = "profile"
  OBVIOUS
<1>2. TypeOK'
  BY <1>1 DEF HomeInv, TypeOK, Lists
<1>3. Watched' /\ FromCatalogue'
  BY DEF HomeInv, Watched, FromCatalogue
<1>4. FeedGrows'
  <2>1. feed = <<>> /\ Len(<<>>) < MinItems
    BY HomeAssumption, EmptySeq DEF HomeInv, FeedGrows
  <2>2. QED
    BY <1>1, <2>1 DEF HomeInv, FeedGrows
<1>5. LooksUp'
  BY <1>1 DEF HomeInv, LooksUp, TypeOK
<1>6. EnoughItems' /\ NoDuplicates'
  BY <1>1, NotYetDone
<1>7. QED
  BY <1>2, <1>3, <1>4, <1>5, <1>6 DEF HomeInv

LEMMA FindRatingsStep == HomeInv /\ FindRatings => HomeInv'
<1> SUFFICES ASSUME HomeInv, FindRatings PROVE HomeInv'
  OBVIOUS
<1> USE DEF FindRatings, world, Goto
<1>1. pc' \in {"rated", "recent"} /\ pc = "ratings" /\ wanted' \in TopRated
  OBVIOUS
<1>2. wanted' \in Lists /\ Len(wanted') <= MinItems
  BY <1>1, TopRatedType
<1>3. Len(feed) < MinItems
  BY <1>1 DEF HomeInv, FeedGrows
<1>4. TypeOK'
  BY <1>1, <1>2, <1>3 DEF HomeInv, TypeOK, Lists
<1>5. Watched' /\ FromCatalogue'
  BY DEF HomeInv, Watched, FromCatalogue
<1>6. FeedGrows'
  BY <1>1, <1>3 DEF HomeInv, FeedGrows
<1>7. LooksUp'
  BY <1>1 DEF HomeInv, LooksUp
<1>8. EnoughItems' /\ NoDuplicates'
  BY <1>1, NotYetDone
<1>9. QED
  BY <1>4, <1>5, <1>6, <1>7, <1>8 DEF HomeInv

(* What the three queries for the fallback list have in common. *)
LEMMA FeedStep ==
    ASSUME HomeInv, pc \in {"suited", "rated", "recent"},
           feed' \in Lists, Items(feed') \subseteq seen, Distinct(feed'),
           UNCHANGED <<world, featured, source, todo, persona, wanted, seen, steady, payload>>,
           \/ /\ Len(feed') < MinItems /\ pc' \in {"ratings", "recent"} /\ UNCHANGED items
           \/ /\ Len(feed') >= Smaller(MinItems, Cardinality(steady)) /\ Finish(feed')
    PROVE  HomeInv'
<1> USE DEF world
<1>1. /\ items' \in Lists /\ Items(items') \subseteq seen
      /\ \/ pc' = "done"
         \/ pc' \in {"ratings", "recent"} /\ Len(feed') < MinItems /\ items' = items
      /\ EnoughItems' /\ NoDuplicates'
  <2>1. CASE Len(feed') < MinItems /\ pc' \in {"ratings", "recent"} /\ UNCHANGED items
    <3>1. items \in Lists /\ Items(items) \subseteq seen
      BY DEF HomeInv, TypeOK, FromCatalogue
    <3>2. EnoughItems' /\ NoDuplicates'
      BY <2>1, NotYetDone
    <3>3. QED
      BY <2>1, <3>1, <3>2
  <2>2. CASE Len(feed') >= Smaller(MinItems, Cardinality(steady)) /\ Finish(feed')
    <3>1. pc # "done" /\ UNCHANGED <<source, seen, steady, payload>>
      OBVIOUS
    <3>2. QED
      BY <2>2, <3>1, Finished
  <2>3. QED
    BY <2>1, <2>2
<1>2. TypeOK'
  BY <1>1 DEF HomeInv, TypeOK
<1>3. Watched'
  BY DEF HomeInv, Watched
<1>4. FromCatalogue'
  BY <1>1 DEF HomeInv, FromCatalogue
<1>5. FeedGrows'
  BY <1>1 DEF FeedGrows
<1>6. LooksUp'
  BY <1>1 DEF HomeInv, LooksUp
<1>7. QED
  BY <1>1, <1>2, <1>3, <1>4, <1>5, <1>6 DEF HomeInv

LEMMA LongEnough ==
    ASSUME HomeInv, NEW n \in Nat, n >= MinItems
    PROVE  n >= Smaller(MinItems, Cardinality(steady))
<1>1. steady \in SUBSET Monuments
  BY DEF HomeInv, Watched
<1>2. Cardinality(steady) \in Nat /\ MinItems \in Nat
  BY <1>1, FiniteMonuments, HomeAssumption
<1>3. QED
  BY <1>2 DEF Smaller

LEMMA FindSuitedStep == HomeInv /\ FindSuited => HomeInv'
<1> SUFFICES ASSUME HomeInv, FindSuited PROVE HomeInv'
  OBVIOUS
<1>1. /\ pc = "suited" /\ feed' = Newest(published \cap Suits[persona], MinItems)
      /\ \/ Len(feed') < MinItems /\ pc' = "ratings" /\ UNCHANGED items
         \/ Len(feed') >= MinItems /\ Finish(feed')
      /\ UNCHANGED <<world, featured, source, todo, persona, wanted, seen, steady, payload>>
  BY DEF FindSuited, Goto
<1>2. published \cap Suits[persona] \in SUBSET Monuments
  BY <1>1, HomeAssumption DEF HomeInv, LooksUp
<1>3. feed' \in Lists /\ Items(feed') \subseteq seen /\ Distinct(feed')
  <2>1. /\ feed' \in Seq(Content) /\ Distinct(feed')
        /\ Items(feed') \subseteq published \cap Suits[persona]
    BY <1>1, <1>2, NewestOfContent, HomeAssumption
  <2>2. QED
    BY <2>1 DEF HomeInv, Watched, Lists
<1>4. Len(feed') >= MinItems => Len(feed') >= Smaller(MinItems, Cardinality(steady))
  <2>1. Len(feed') \in Nat
    BY <1>3, LenProperties DEF Lists
  <2>2. QED
    BY <2>1, LongEnough
<1>5. QED
  BY <1>1, <1>3, <1>4, FeedStep

LEMMA FindRatedStep == HomeInv /\ FindRated => HomeInv'
<1> SUFFICES ASSUME HomeInv, FindRated PROVE HomeInv'
  OBVIOUS
<1> DEFINE found == Sublist(wanted, {i \in DOMAIN wanted : wanted[i] \in published})
<1>1. /\ pc = "rated" /\ feed' = MergeUnique(feed, found)
      /\ \/ Len(feed') < MinItems /\ pc' = "recent" /\ UNCHANGED items
         \/ Len(feed') >= MinItems /\ Finish(feed')
      /\ UNCHANGED <<world, featured, source, todo, persona, wanted, seen, steady, payload>>
  BY DEF FindRated, Goto
<1>2. TypeOK /\ Watched /\ FromCatalogue /\ FeedGrows
  BY DEF HomeInv
<1>3. found \in Seq(Content) /\ Items(found) \subseteq published
  BY <1>2, RatedList
<1> HIDE DEF found
<1>4. feed' \in Lists /\ Items(feed') \subseteq seen /\ Distinct(feed')
  BY <1>1, <1>2, <1>3, FeedGrown
<1>5. Len(feed') >= MinItems => Len(feed') >= Smaller(MinItems, Cardinality(steady))
  <2>1. Len(feed') \in Nat
    BY <1>4, LenProperties DEF Lists
  <2>2. QED
    BY <2>1, LongEnough
<1>6. QED
  BY <1>1, <1>4, <1>5, FeedStep

LEMMA FindRecentStep == HomeInv /\ FindRecent => HomeInv'
<1> SUFFICES ASSUME HomeInv, FindRecent PROVE HomeInv'
  OBVIOUS
<1> DEFINE recent == Newest(published \cap Monuments, MinItems)
<1>1. /\ pc = "recent" /\ feed' = MergeUnique(feed, recent) /\ Finish(feed')
      /\ UNCHANGED <<world, featured, source, todo, persona, wanted, seen, steady, payload>>
  BY DEF FindRecent
<1>2. TypeOK /\ Watched /\ FromCatalogue /\ FeedGrows /\ MinItems \in Nat
  BY HomeAssumption DEF HomeInv
<1>3. published \cap Monuments \in SUBSET Monuments
  OBVIOUS
<1>4. /\ recent \in Seq(Content) /\ Items(recent) \subseteq published \cap Monuments
      /\ Distinct(recent)
      /\ Len(recent) = Smaller(MinItems, Cardinality(published \cap Monuments))
  BY <1>2, <1>3, NewestOfContent
<1> HIDE DEF recent
<1>5. /\ feed' \in Lists /\ Items(feed') \subseteq seen /\ Distinct(feed')
      /\ Items(recent) \subseteq Items(feed')
  <2>1. Items(recent) \subseteq published
    BY <1>4
  <2>2. QED
    BY <1>1, <1>2, <1>4, <2>1, FeedGrown
<1>6. Len(feed') >= Smaller(MinItems, Cardinality(steady))
  <2>1. /\ IsFiniteSet(Items(feed')) /\ Cardinality(Items(feed')) <= Len(feed')
        /\ Cardinality(Items(feed')) \in Nat /\ Len(feed') \in Nat
    BY <1>5, ItemsCount, LenProperties DEF Lists
  <2>2. Cardinality(Items(recent)) = Len(recent) /\ Len(recent) \in Nat
    BY <1>4, ItemsCount, LenProperties
  <2>3. Cardinality(Items(recent)) <= Cardinality(Items(feed'))
    BY <1>5, <2>1, FS_Subset
  <2>4. /\ IsFiniteSet(published \cap Monuments)
        /\ Cardinality(published \cap Monuments) \in Nat
    BY <1>3, FiniteMonuments
  <2>5. steady \subseteq published \cap Monuments
    BY <1>2 DEF Watched
  <2>6. /\ Cardinality(steady) <= Cardinality(published \cap Monuments)
        /\ Cardinality(steady) \in Nat
    BY <2>4, <2>5, FS_Subset, FS_CardinalityType
  <2>7. QED
    BY <1>2, <1>4, <2>1, <2>2, <2>3, <2>4, <2>6 DEF Smaller
<1>7. QED
  BY <1>1, <1>5, <1>6, FeedStep

(* Meanwhile the request itself stands still. *)
LEMMA ChangeKeeps ==
    ASSUME HomeInv, Change, TypeOK', Watched', seen \subseteq seen'
    PROVE  HomeInv'
<1> USE DEF Change, locals
<1>1. FromCatalogue'
  BY DEF HomeInv, FromCatalogue
<1>2. FeedGrows' /\ LooksUp'
  BY DEF HomeInv, FeedGrows, LooksUp
<1>3. EnoughItems' /\ NoDuplicates'
  BY NotYetDone
<1>4. QED
  BY <1>1, <1>2, <1>3 DEF HomeInv

LEMMA MeanwhileStep ==
    ASSUME HomeInv,
           \/ \E c \in Content : SetStatus(c)
           \/ \E u \in Raters, m \in Monuments, stars \in Stars : UpsertRating(u, m, stars)
           \/ \E p \in Personas : SubmitQuiz(p)
           \/ \E list \in Payloads \ {<<>>} : SaveSnapshot(list)
    PROVE  HomeInv'
<1>1. TypeOK /\ Watched /\ MaxChanges \in Nat
  BY HomeAssumption DEF HomeInv
<1>2. ASSUME Change PROVE changes' \in 0..MaxChanges
  BY <1>1, <1>2 DEF Change, TypeOK
<1>3. ASSUME NEW c \in Content, SetStatus(c) PROVE HomeInv'
  <2>1. Change /\ seen \subseteq seen' /\ changes' \in 0..MaxChanges
    BY <1>2, <1>3 DEF SetStatus
  <2>2. /\ published' = IF c \in published THEN published \ {c} ELSE published \cup {c}
        /\ seen' = seen \cup {c} /\ steady' = steady \ {c}
    BY <1>3 DEF SetStatus
  <2>3. Watched'
    BY <1>1, <2>2 DEF Watched
  <2>4. TypeOK'
    BY <1>1, <1>3, <2>1, <2>2 DEF TypeOK, SetStatus, Change, locals, Lists
  <2>5. QED
    BY <2>1, <2>3, <2>4, ChangeKeeps
<1>4. ASSUME NEW u \in Raters, NEW m \in Monuments, NEW stars \in Stars, UpsertRating(u, m, stars)
      PROVE  HomeInv'
  <2>1. Change /\ seen \subseteq seen' /\ changes' \in 0..MaxChanges
    BY <1>2, <1>4 DEF UpsertRating
  <2>2. Watched'
    BY <1>1, <1>4 DEF Watched, UpsertRating
  <2>3. rating' \in [Raters -> [Monuments -> Stars \cup {0}]]
    BY <1>1, <1>4 DEF UpsertRating, TypeOK
  <2>4. TypeOK'
    BY <1>1, <1>4, <2>1, <2>3 DEF TypeOK, UpsertRating, Change, locals, Lists
  <2>5. QED
    BY <2>1, <2>2, <2>4, ChangeKeeps
<1>5. ASSUME NEW p \in Personas, SubmitQuiz(p) PROVE HomeInv'
  <2>1. Change /\ seen \subseteq seen' /\ changes' \in 0..MaxChanges
    BY <1>2, <1>5 DEF SubmitQuiz
  <2>2. Watched'
    BY <1>1, <1>5 DEF Watched, SubmitQuiz
  <2>3. TypeOK'
    BY <1>1, <1>5, <2>1 DEF TypeOK, SubmitQuiz, Change, locals, Lists
  <2>4. QED
    BY <2>1, <2>2, <2>3, ChangeKeeps
<1>6. ASSUME NEW list \in Payloads, SaveSnapshot(list) PROVE HomeInv'
  <2>1. Change /\ seen \subseteq seen' /\ changes' \in 0..MaxChanges
    BY <1>2, <1>6 DEF SaveSnapshot
  <2>2. Watched'
    BY <1>1, <1>6 DEF Watched, SaveSnapshot
  <2>3. TypeOK'
    BY <1>1, <1>6, <2>1 DEF TypeOK, SaveSnapshot, Change, locals, Lists
  <2>4. QED
    BY <2>1, <2>2, <2>3, ChangeKeeps
<1>7. QED
  BY <1>3, <1>4, <1>5, <1>6

LEMMA HomeStutter == HomeInv /\ UNCHANGED vars => HomeInv'
<1> SUFFICES ASSUME HomeInv, UNCHANGED vars PROVE HomeInv'
  OBVIOUS
<1> USE DEF vars, world, locals
<1>1. TypeOK' /\ Watched' /\ FromCatalogue'
  BY DEF HomeInv, TypeOK, Watched, FromCatalogue, Lists
<1>2. FeedGrows' /\ LooksUp'
  BY DEF HomeInv, FeedGrows, LooksUp
<1>3. EnoughItems' /\ NoDuplicates'
  BY DEF HomeInv, EnoughItems, NoDuplicates
<1>4. QED
  BY <1>1, <1>2, <1>3 DEF HomeInv

-----------------------------------------------------------------------------

(* HomeInv holds at every moment of a home request (getHome).                  *)
THEOREM HomeInvariance == Spec => []HomeInv
<1>1. Init => HomeInv
  BY HomeInit
<1>2. HomeInv /\ [Next]_vars => HomeInv'
  <2> SUFFICES ASSUME HomeInv, [Next]_vars PROVE HomeInv'
    OBVIOUS
  <2>1. CASE GetHome
    BY <2>1, GetFeaturedStep, GetValidSnapshotStep, EnrichItemStep, FindProfileStep,
       FindSuitedStep, FindRatingsStep, FindRatedStep, FindRecentStep DEF GetHome
  <2>2. CASE UNCHANGED vars
    BY <2>2, HomeStutter
  <2>3. CASE ~GetHome /\ ~UNCHANGED vars
    BY <2>3, MeanwhileStep DEF Next
  <2>4. QED
    BY <2>1, <2>2, <2>3
<1>3. QED
  BY <1>1, <1>2, PTL DEF Spec

(* Type correctness of the request, its locals and what changes around it.     *)
THEOREM HomeTypes == Spec => []TypeOK
<1>1. HomeInv => TypeOK
  BY DEF HomeInv
<1>2. QED
  BY <1>1, HomeInvariance, PTL

(* The feed has MIN_FOR_YOU_ITEMS items, or as many as monuments that were     *)
(* published all the time, whatever is taken off between two queries of        *)
(* buildFallbackItems and padItems.                                            *)
THEOREM FeedsAreLongEnough == Spec => []EnoughItems
<1>1. HomeInv => EnoughItems
  BY DEF HomeInv
<1>2. QED
  BY <1>1, HomeInvariance, PTL

(* mergeUnique and padItems repeat nothing: a repeated item is repeated by the *)
(* snapshot itself.                                                            *)
THEOREM FeedsDoNotRepeat == Spec => []NoDuplicates
<1>1. HomeInv => NoDuplicates
  BY DEF HomeInv
<1>2. QED
  BY <1>1, HomeInvariance, PTL

(* Neither list shows content that was not published during the request.       *)
THEOREM FeedsShowPublished == Spec => []OnlyPublished
<1>1. HomeInv => OnlyPublished
  BY ItemsAreSet DEF HomeInv, FromCatalogue, OnlyPublished
<1>2. QED
  BY <1>1, HomeInvariance, PTL

-----------------------------------------------------------------------------
(* The best rated come first. *)

LEMMA ScoreTypes ==
    ASSUME TypeOK, NEW m \in Monuments
    PROVE  Total(m) \in Nat /\ Count(m) \in Nat
<1>1. IsFiniteSet(Raters) /\ \A u \in Raters : rating[u][m] \in Nat
  <2>1. rating \in [Raters -> [Monuments -> Stars \cup {0}]]
    BY DEF TypeOK
  <2>2. IsFiniteSet(Raters) /\ Stars \cup {0} \subseteq Nat
    BY HomeAssumption
  <2>3. QED
    BY <2>1, <2>2
<1> DEFINE Given(u) == {u} \X (1..rating[u][m])
           all == {Given(u) : u \in Raters}
<1>2. IsFiniteSet(all)
  <2> DEFINE f == [u \in Raters |-> Given(u)]
  <2>1. f \in Surjection(Raters, all)
    BY DEF Surjection
  <2> HIDE DEF f, all
  <2>2. QED
    BY <1>1, <2>1, FS_Surjection
<1>3. ASSUME NEW u \in Raters PROVE IsFiniteSet(Given(u))
  <2> DEFINE n == rating[u][m]
  <2>1. n \in Nat
    BY <1>1
  <2> HIDE DEF n
  <2>2. IsFiniteSet(1..n) /\ IsFiniteSet({u})
    <3>1. IsFiniteSet(1..n)
      BY <2>1, FS_Interval
    <3>2. IsFiniteSet({u})
      BY FS_Singleton, Zenon
    <3>3. QED
      BY <3>1, <3>2
  <2>3. IsFiniteSet({u} \X (1..n))
    BY <2>2, FS_Product
  <2>4. QED
    BY <2>3 DEF n
<1>4. IsFiniteSet(UNION all)
  BY <1>2, <1>3, FS_UNION
<1>5. Cardinality(UNION all) \in Nat
  BY <1>4, FS_CardinalityType
<1>6. {u \in Raters : rating[u][m] # 0} \subseteq Raters
  OBVIOUS
<1>7. Count(m) \in Nat
  BY <1>1, <1>6, FS_Subset, FS_CardinalityType DEF Count
<1>8. QED
  BY <1>5, <1>7 DEF Total

LEMMA NotBetterRated ==
    ASSUME TypeOK, NEW x \in Rated, NEW y \in Rated, ~BetterRated(y, x)
    PROVE  Average(x) >= Average(y) /\ Average(x) \in Nat /\ Average(y) \in Nat
<1> DEFINE a == Total(x)
           b == Total(y)
           c == Count(x)
           d == Count(y)
<1>1. x \in Monuments /\ y \in Monuments /\ c > 0 /\ d > 0
  BY DEF Rated
<1>2. a \in Nat /\ b \in Nat /\ c \in Nat \ {0} /\ d \in Nat \ {0}
  BY <1>1, ScoreTypes
<1>3. ~(b * c > a * d)
  BY DEF BetterRated
<1>4. Average(x) = (60 * a) \div c /\ Average(y) = (60 * b) \div d
  BY DEF Average
<1> HIDE DEF a, b, c, d
<1>5. b * c <= a * d
  BY <1>2, <1>3
<1>6. (60 * a) \div c \in Nat /\ (60 * b) \div d \in Nat
  BY <1>2, QuotientFacts
<1>7. (60 * b) \div d <= (60 * a) \div c
  BY <1>2, <1>5, QuotientOrder
<1>8. QED
  BY <1>4, <1>6, <1>7

LEMMA TopRatedFacts ==
    ASSUME TypeOK, NEW list \in TopRated
    PROVE  /\ list \in Seq(Content) /\ DOMAIN list = 1..Len(list) /\ Len(list) \in Nat
           /\ Items(list) \subseteq Rated /\ Distinct(list)
           /\ Len(list) < MinItems => Rated \subseteq Items(list)
           /\ \A i, k \in DOMAIN list : i < k => Average(list[i]) >= Average(list[k])
           /\ \A m \in Rated \ Items(list), i \in DOMAIN list : Average(list[i]) >= Average(m)
<1> DEFINE n == Smaller(Cardinality(Rated), MinItems)
<1>1. Rated \in SUBSET Monuments
  BY DEF Rated
<1>2. IsFiniteSet(Rated) /\ Cardinality(Rated) \in Nat /\ MinItems \in Nat
  BY <1>1, FiniteMonuments, HomeAssumption
<1>3. n \in Nat
  BY <1>2 DEF Smaller
<1>4. /\ list \in [1..n -> Rated] /\ IsInjective(list)
      /\ \A i, k \in 1..n : i < k => ~BetterRated(list[k], list[i])
      /\ \A m \in Rated \ ToSet(list) : \A i \in 1..n : ~BetterRated(m, list[i])
  BY DEF TopRated, TupleOf
<1>5. n < MinItems => n = Cardinality(Rated)
  BY <1>2 DEF Smaller
<1> HIDE DEF n
<1>6. list \in Seq(Content) /\ DOMAIN list = 1..n /\ Len(list) = n
  BY <1>3, <1>4, TopRatedType DEF Lists
<1>7. Items(list) \subseteq Rated
  BY <1>4, <1>6 DEF Items
<1>8. Distinct(list)
  BY <1>4 DEF Distinct, IsInjective
<1>9. Len(list) < MinItems => Rated \subseteq Items(list)
  <2>1. SUFFICES ASSUME n < MinItems PROVE Rated \subseteq Items(list)
    BY <1>6
  <2>2. Cardinality(Items(list)) = Cardinality(Rated)
    BY <1>5, <1>6, <1>8, <2>1, ItemsCount
  <2>3. Items(list) = Rated
    BY <1>2, <1>7, <2>2, FS_Subset
  <2>4. QED
    BY <2>3
<1>10. ASSUME NEW i \in DOMAIN list, NEW k \in DOMAIN list, i < k
       PROVE  Average(list[i]) >= Average(list[k])
  BY <1>4, <1>6, <1>10, NotBetterRated
<1>11. ASSUME NEW m \in Rated \ Items(list), NEW i \in DOMAIN list
       PROVE  Average(list[i]) >= Average(m)
  <2>1. m \in Rated /\ ~BetterRated(m, list[i]) /\ list[i] \in Rated
    BY <1>4, <1>6, ItemsAreSet
  <2>2. QED
    BY <2>1, NotBetterRated
<1>12. QED
  BY <1>3, <1>6, <1>7, <1>8, <1>9, <1>10, <1>11

(* The list of the best rated, and any list that has all of them in front. *)
LEMMA TopIsRanked ==
    ASSUME TypeOK, NEW list \in TopRated
    PROVE  Ranked(list)
<1>1. \A i \in DOMAIN list : list[i] \in Rated
  BY TopRatedFacts DEF Items
<1>2. QED
  BY <1>1, TopRatedFacts, ItemsAreSet DEF Ranked, Averages

LEMMA ExtendedIsRanked ==
    ASSUME TypeOK, NEW list \in TopRated, Len(list) < MinItems,
           NEW more \in Seq(Content), Extends(more, list)
    PROVE  Ranked(more)
<1>1. /\ DOMAIN list = 1..Len(list) /\ Len(list) \in Nat
      /\ \A i \in DOMAIN list : list[i] \in Rated
      /\ \A m \in Rated : \E i \in DOMAIN list : list[i] = m
      /\ \A i, k \in DOMAIN list : i < k => Average(list[i]) >= Average(list[k])
  BY TopRatedFacts DEF Items
<1>2. DOMAIN more = 1..Len(more) /\ Len(more) \in Nat /\ Len(list) <= Len(more)
  BY LenProperties DEF Extends
<1>3. \A i \in DOMAIN list : i \in DOMAIN more /\ more[i] = list[i]
  BY <1>1, <1>2 DEF Extends
<1>4. ASSUME NEW k \in DOMAIN more, more[k] \in Rated
      PROVE  k \in DOMAIN list
  <2>1. PICK j \in DOMAIN list : list[j] = more[k]
    BY <1>1, <1>4
  <2>2. j \in DOMAIN more /\ more[j] = more[k]
    BY <1>3, <2>1
  <2>3. ~(k > Len(list)) \/ k = j
    BY <2>2 DEF Extends
  <2>4. QED
    BY <1>1, <1>2, <2>1, <2>3
<1>5. ASSUME NEW i \in DOMAIN more, NEW k \in DOMAIN more, i < k, more[k] \in Rated
      PROVE  more[i] \in Rated /\ Average(more[i]) >= Average(more[k])
  <2>1. k \in DOMAIN list /\ i \in DOMAIN list
    <3>1. k \in DOMAIN list
      BY <1>4, <1>5
    <3>2. QED
      BY <1>1, <1>2, <1>5, <3>1
  <2>2. QED
    BY <1>1, <1>3, <1>5, <2>1
<1>6. \A m \in Rated : m \in ToSet(more)
  BY <1>1, <1>3, ItemsAreSet DEF Items
<1>7. QED
  BY <1>5, <1>6 DEF Ranked, Averages

(* The ranking depends on the ratings alone. *)
LEMMA RankingKeeps ==
    ASSUME rating' = rating
    PROVE  Rated' = Rated /\ TopRated' = TopRated /\ Averages' = Averages
<1>1. Rated' = Rated
  BY DEF Rated, Count
<1>2. TopRated' = TopRated
  BY <1>1 DEF TopRated, BetterRated, Total, Count
<1>3. Averages' = Averages
  BY <1>1 DEF Averages, Average, Total, Count
<1>4. QED
  BY <1>1, <1>2, <1>3

Undisturbed ==
    changes = 0 /\ source = "fallback" /\ profile = "none" /\ Rated \subseteq published

LEMMA RanksFindRated ==
    ASSUME HomeInv, Ranks, Undisturbed, FindRated
    PROVE  Ranks'
<1> DEFINE P == {i \in DOMAIN wanted : wanted[i] \in published}
<1>1. TypeOK /\ pc = "rated" /\ feed = <<>> /\ wanted \in TopRated
  BY DEF HomeInv, Ranks, Undisturbed, FindRated
<1>2. /\ wanted \in Seq(Content) /\ Items(wanted) \subseteq Rated /\ Distinct(wanted)
  BY <1>1, TopRatedFacts
<1>3. P = DOMAIN wanted
  BY <1>2 DEF Undisturbed, Items
<1>4. feed' = wanted
  <2>1. feed' = MergeUnique(feed, Sublist(wanted, P))
    BY DEF FindRated
  <2>2. Sublist(wanted, P) = wanted
    BY <1>2, <1>3, SublistOfAll
  <2>3. QED
    BY <1>1, <1>2, <2>1, <2>2, MergeIntoNothing
<1>5. rating' = rating /\ source = "fallback"
  BY DEF FindRated, world, Undisturbed
<1>6. TopRated' = TopRated
  BY <1>5, RankingKeeps
<1>7. CASE pc' = "recent"
  BY <1>1, <1>4, <1>6, <1>7 DEF Ranks
<1>8. CASE Finish(feed')
  <2>1. items' = wanted /\ pc' = "done" /\ source' = source
    BY <1>4, <1>5, <1>8 DEF Finish, Goto, FindRated
  <2>2. Ranked(wanted)
    BY <1>1, TopIsRanked
  <2>3. Ranked(items)'
    BY <1>5, <2>1, <2>2, RankingKeeps DEF Ranked
  <2>4. QED
    BY <2>1, <2>3 DEF Ranks
<1>9. QED
  BY <1>7, <1>8 DEF FindRated, Goto

LEMMA RanksFindRecent ==
    ASSUME HomeInv, Ranks, Undisturbed, FindRecent
    PROVE  Ranks'
<1> DEFINE recent == Newest(published \cap Monuments, MinItems)
<1>1. /\ TypeOK /\ pc = "recent" /\ feed \in TopRated /\ Len(feed) < MinItems
      /\ feed \in Seq(Content) /\ MinItems \in Nat
  BY HomeAssumption DEF HomeInv, FeedGrows, Ranks, Undisturbed, FindRecent, TypeOK, Lists
<1>2. published \cap Monuments \in SUBSET Monuments
  OBVIOUS
<1>3. recent \in Seq(Content)
  BY <1>1, <1>2, NewestOfContent
<1>4. feed' = MergeUnique(feed, recent)
  BY DEF FindRecent
<1> HIDE DEF recent
<1>5. feed' \in Seq(Content) /\ Extends(feed', feed)
  BY <1>1, <1>3, <1>4, MergeFacts
<1>6. Ranked(feed')
  BY <1>1, <1>5, ExtendedIsRanked
<1>7. items' = feed' /\ pc' = "done" /\ rating' = rating
  BY DEF FindRecent, Finish, Goto, world, Undisturbed
<1>8. Ranked(items)'
  BY <1>6, <1>7, RankingKeeps DEF Ranked
<1>9. QED
  BY <1>7, <1>8 DEF Ranks

LEMMA RanksFindRatings ==
    ASSUME HomeInv, Ranks, Undisturbed, FindRatings
    PROVE  Ranks'
<1>1. /\ pc = "ratings" /\ feed = <<>> /\ feed' = feed
      /\ wanted' \in TopRated /\ rating' = rating
      /\ \/ wanted' = <<>> /\ pc' = "recent"
         \/ pc' = "rated"
  BY DEF Ranks, Undisturbed, FindRatings, Goto, world
<1>2. TopRated' = TopRated
  BY <1>1, RankingKeeps
<1>3. QED
  BY <1>1, <1>2 DEF Ranks

LEMMA RanksStep == HomeInv /\ Ranks /\ [Next]_vars => Ranks'
<1> SUFFICES ASSUME HomeInv, Ranks, [Next]_vars, Undisturbed' PROVE Ranks'
  BY DEF Ranks, Undisturbed
<1>1. ASSUME Change PROVE FALSE
  <2>1. changes' = changes + 1 /\ changes \in Nat /\ changes' = 0
    BY <1>1, HomeAssumption DEF Change, HomeInv, TypeOK, Undisturbed
  <2>2. QED
    BY <2>1
<1>2. GetHome \/ UNCHANGED vars
  BY <1>1 DEF Next, SetStatus, UpsertRating, SubmitQuiz, SaveSnapshot
<1>3. UNCHANGED world
  BY <1>2 DEF GetHome, GetFeatured, GetValidSnapshot, EnrichItem, FindProfile, FindSuited,
      FindRatings, FindRated, FindRecent, vars
<1>4. Rated' = Rated /\ TopRated' = TopRated
  BY <1>3, RankingKeeps DEF world
<1>5. changes = 0 /\ profile = "none" /\ Rated \subseteq published
  BY <1>3, <1>4 DEF world, Undisturbed
<1>6. CASE GetFeatured
  BY <1>6 DEF GetFeatured, HomeInv, LooksUp, Undisturbed
<1>7. CASE GetValidSnapshot
  <2>1. feed = <<>> /\ feed' = feed /\ pc' = "profile"
    BY <1>7 DEF GetValidSnapshot, HomeInv, FeedGrows, Undisturbed, Goto
  <2>2. QED
    BY <2>1 DEF Ranks
<1>8. CASE EnrichItem
  BY <1>8 DEF EnrichItem, HomeInv, LooksUp, Undisturbed
<1>9. CASE source = "fallback" /\ (FindProfile \/ FindSuited \/ FindRatings \/ FindRated \/ FindRecent)
  <2>1. Undisturbed
    BY <1>5, <1>9 DEF Undisturbed
  <2>2. CASE FindProfile
    <3>1. feed = <<>> /\ feed' = feed /\ pc' = "ratings"
      BY <1>5, <2>1, <2>2 DEF FindProfile, Goto, Ranks, Undisturbed
    <3>2. QED
      BY <3>1 DEF Ranks
  <2>3. CASE FindSuited
    BY <2>1, <2>3 DEF FindSuited, Ranks, Undisturbed
  <2>4. QED
    BY <1>9, <2>1, <2>2, <2>3, RanksFindRatings, RanksFindRated, RanksFindRecent
<1>10. CASE UNCHANGED vars
  <2>1. rating' = rating /\ Undisturbed
    BY <1>5, <1>10 DEF vars, world, locals, Undisturbed
  <2>2. Ranked(items)' <=> Ranked(items)
    BY <1>10, RankingKeeps DEF vars, world, locals, Ranked
  <2>3. UNCHANGED <<pc, feed, wanted>>
    BY <1>10 DEF vars, locals
  <2>4. QED
    BY <1>4, <2>1, <2>2, <2>3 DEF Ranks, Undisturbed
<1>11. source' = source \/ GetValidSnapshot
  BY <1>2 DEF GetHome, GetFeatured, EnrichItem, FindProfile, FindSuited,
      FindRatings, FindRated, FindRecent, vars, locals
<1>12. QED
  BY <1>2, <1>6, <1>7, <1>8, <1>9, <1>10, <1>11 DEF GetHome, Undisturbed

(* getTopRatedMonuments and the merging after it keep the order of the averages: *)
(* nothing is shown before, or instead of, what is better rated.                 *)
THEOREM BestRatedComeFirst == Spec => []BestRatedFirst
<1>1. Init => HomeInv /\ Ranks
  <2>1. Init => Ranks
    BY DEF Init, Ranks
  <2>2. QED
    BY <2>1, HomeInit
<1>2. HomeInv /\ Ranks /\ [Next]_vars => Ranks'
  BY RanksStep
<1>3. Ranks => BestRatedFirst
  BY DEF Ranks, BestRatedFirst, Ranked, Averages
<1>4. QED
  BY <1>1, <1>2, <1>3, HomeInvariance, PTL DEF Spec
=============================================================================
