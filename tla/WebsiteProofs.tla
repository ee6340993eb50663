----------------------------- MODULE WebsiteProofs -----------------------------
(***************************************************************************)
(* What is written is read back as it was entered, for any number of       *)
(* paragraphs, rows and affiliations: a review from its reply in the       *)
(* Discussion, and the contributors of a proposal from the two strings     *)
(* they are stored as.  Both sides are sequences: the lemmas say what a    *)
(* filter keeps, where the parts of a joined sequence stand, and what the  *)
(* parser finds between two headings.  With it every invariant of the site *)
(* is proved, and the last theorem states them of the site as a whole.     *)
(***************************************************************************)
EXTENDS PageProofs, AccountProofs, SequenceTheorems

(***************************************************************************)
(*                        What a filter keeps                              *)
(***************************************************************************)
Rises(f) == \A k, l \in DOMAIN f : k < l => f[k] < f[l]
Listable(I) == \E f \in Bijection(1..Cardinality(I), I) : Rises(f)

(* A set of indices is finite, and empty when it counts none.               *)
LEMMA IndicesFinite ==
  ASSUME NEW n \in Nat, NEW I \in SUBSET (1..n)
  PROVE  IsFiniteSet(I) /\ Cardinality(I) \in Nat /\ (I = {} <=> Cardinality(I) = 0)
  <1>1. 1 \in Int /\ n \in Int
    OBVIOUS
  <1>2. IsFiniteSet(1..n)
    BY <1>1, FS_Interval
  <1>3. IsFiniteSet(I)
    BY <1>2, FS_Subset
  <1>. QED BY <1>3, FS_CardinalityType, FS_EmptySet

(* A listing of a set hits every element once.                              *)
LEMMA BijectionIs ==
  ASSUME NEW m \in Nat, NEW I, NEW f
  PROVE  f \in Bijection(1..m, I) <=> /\ f \in [1..m -> I]
                                      /\ \A k, l \in 1..m : f[k] = f[l] => k = l
                                      /\ \A i \in I : \E k \in 1..m : f[k] = i
  BY DEF Bijection, Injection, Surjection, IsInjective

(* A set of indices can be listed: if it were not so for those up to n, the *)
(* least such n would have one to which n is added last.                    *)
LEMMA OneMore ==
  ASSUME NEW n \in Nat \ {0}, NEW I \in SUBSET (1..n), n \in I, Listable(I \ {n})
  PROVE  Listable(I)
  <1>. DEFINE J == I \ {n}
              c == Cardinality(J)
  <1>1. IsFiniteSet(I)
    BY IndicesFinite
  <1>2. IsFiniteSet(J) /\ c \in Nat /\ Cardinality(I) = c + 1
    <2>1. Cardinality(J) = Cardinality(I) - 1 /\ IsFiniteSet(J)
      BY <1>1, FS_RemoveElement
    <2>2. Cardinality(I) \in Nat /\ Cardinality(J) \in Nat
      BY <1>1, <2>1, FS_CardinalityType
    <2>. QED BY <2>1, <2>2
  <1>3. PICK f \in Bijection(1..c, J) : Rises(f)
    BY DEF Listable
  <1>. HIDE DEF c
  <1>4. /\ f \in [1..c -> J] /\ \A k, l \in 1..c : f[k] = f[l] => k = l
        /\ \A i \in J : \E k \in 1..c : f[k] = i
    BY <1>2, <1>3, BijectionIs, SMTT(60)
  <1>. DEFINE g == [k \in 1..(c + 1) |-> IF k = c + 1 THEN n ELSE f[k]]
  <1>0. \A k \in 1..c : k \in 1..(c + 1) /\ k # c + 1
    BY <1>2
  <1>01. \A k \in 1..c : f[k] \in J
    BY <1>4
  <1>5. \A k \in 1..c : g[k] = f[k] /\ f[k] \in J /\ f[k] \in 1..n /\ f[k] # n
    BY <1>0, <1>01
  <1>6. g[c + 1] = n /\ DOMAIN g = 1..(c + 1)
    BY <1>2
  <1>7. \A k \in 1..(c + 1) : k = c + 1 \/ k \in 1..c
    BY <1>2
  <1>. HIDE DEF g, J
  <1>8. g \in [1..(c + 1) -> I]
    BY <1>5, <1>6, <1>7 DEF g, J
  <1>9. \A k, l \in 1..(c + 1) : g[k] = g[l] => k = l
    BY <1>4, <1>5, <1>6, <1>7
  <1>10. \A i \in I : \E k \in 1..(c + 1) : g[k] = i
    <2>1. \A k \in 1..c : k \in 1..(c + 1)
      BY <1>2
    <2>2. c + 1 \in 1..(c + 1)
      BY <1>2
    <2>. QED BY <1>4, <1>5, <1>6, <2>1, <2>2 DEF J
  <1>11. g \in Bijection(1..(c + 1), I)
    <2>. DEFINE d == c + 1
    <2>1. d \in Nat /\ d = c + 1
      BY <1>2
    <2>. HIDE DEF d
    <2>2. g \in Bijection(1..d, I)
      BY <1>8, <1>9, <1>10, <2>1, BijectionIs
    <2>. QED BY <2>1, <2>2
  <1>12. Rises(g)
    <2>. SUFFICES ASSUME NEW k \in 1..(c + 1), NEW l \in 1..(c + 1), k < l PROVE g[k] < g[l]
      BY <1>6 DEF Rises
    <2>1. k \in 1..c
      BY <1>2
    <2>2. CASE l = c + 1
      BY <2>1, <2>2, <1>5, <1>6
    <2>3. CASE l \in 1..c
      BY <2>1, <2>3, <1>3, <1>4, <1>5 DEF Rises
    <2>. QED BY <1>7, <2>2, <2>3
  <1>. QED BY <1>2, <1>11, <1>12 DEF Listable

LEMMA NothingListed == Listable({})
  <1>1. Cardinality({}) = 0
    BY FS_EmptySet
  <1>. DEFINE f == [k \in 1..0 |-> 0]
  <1>3. 0 \in Nat /\ 1..0 = {} /\ DOMAIN f = 1..0
    OBVIOUS
  <1>4. f \in [1..0 -> {}]
    BY <1>3
  <1>. HIDE DEF f
  <1>5. f \in Bijection(1..0, {})
    BY <1>3, <1>4, BijectionIs
  <1>2. f \in Bijection(1..0, {}) /\ Rises(f)
    BY <1>3, <1>5 DEF Rises
  <1>. QED BY <1>1, <1>2 DEF Listable

(* Every set of indices can be listed in ascending order.                   *)
LEMMA IndicesListed == ASSUME NEW n \in Nat, NEW I \in SUBSET (1..n) PROVE Listable(I)
  <1>. DEFINE Bad == {m \in Nat : \E K \in SUBSET (1..m) : ~Listable(K)}
  <1>1. ASSUME Bad # {} PROVE FALSE
    <2>1. PICK m \in Bad : \A x \in Bad : m <= x
      BY <1>1, FirstExists
    <2>2. PICK K \in SUBSET (1..m) : ~Listable(K)
      OBVIOUS
    <2>3. m \in Nat /\ m # 0
      <3>1. m = 0 => K = {}
        BY <2>2
      <3>. QED BY <2>2, <3>1, NothingListed
    <2>4. m - 1 \in Nat /\ m - 1 \notin Bad
      BY <2>1, <2>3
    <2>5. \A L \in SUBSET (1..(m - 1)) : Listable(L)
      BY <2>4
    <2>6. CASE m \notin K
      BY <2>2, <2>3, <2>5, <2>6
    <2>7. CASE m \in K
      <3>1. K \ {m} \in SUBSET (1..(m - 1))
        BY <2>3
      <3>. QED BY <2>2, <2>3, <2>5, <2>7, <3>1, OneMore
    <2>. QED BY <2>6, <2>7
  <1>. QED BY <1>1

(* So Ascending is such a listing.                                          *)
LEMMA AscendingIs ==
  ASSUME NEW n \in Nat, NEW I \in SUBSET (1..n)
  PROVE  /\ Cardinality(I) \in Nat /\ (I = {} <=> Cardinality(I) = 0)
         /\ Ascending(I) \in Bijection(1..Cardinality(I), I) /\ Rises(Ascending(I))
  <1>1. Cardinality(I) \in Nat /\ (I = {} <=> Cardinality(I) = 0)
    BY IndicesFinite
  <1>2. \E f \in Bijection(1..Cardinality(I), I) : Rises(f)
    BY IndicesListed DEF Listable
  <1>3. Ascending(I) = CHOOSE f \in Bijection(1..Cardinality(I), I) : Rises(f)
    BY DEF Ascending, Rises
  <1>. QED BY <1>1, <1>2, <1>3

(* What is kept is of the sequence, and nothing only if no index is.        *)
LEMMA KeptIs ==
  ASSUME NEW S, NEW s \in Seq(S), NEW I \in SUBSET (DOMAIN s)
  PROVE  /\ KeptAt(s, I) \in Seq(S) /\ Len(KeptAt(s, I)) \in Nat
         /\ KeptAt(s, I) = <<>> <=> I = {}
         /\ \A k \in 1..Len(KeptAt(s, I)) : \E i \in I : KeptAt(s, I)[k] = s[i]
  <1>. DEFINE f == Ascending(I)
              c == Cardinality(I)
  <1>1. Len(s) \in Nat /\ I \in SUBSET (1..Len(s))
    OBVIOUS
  <1>2. c \in Nat /\ (I = {} <=> c = 0) /\ f \in Bijection(1..c, I)
    BY <1>1, AscendingIs
  <1>. HIDE DEF f, c
  <1>3. f \in [1..c -> I]
    BY <1>2, BijectionIs
  <1>4. KeptAt(s, I) = [k \in 1..c |-> s[f[k]]]
    BY <1>3 DEF KeptAt, f
  <1>5. \A k \in 1..c : f[k] \in I /\ s[f[k]] \in S
    BY <1>3
  <1>6. KeptAt(s, I) \in Seq(S) /\ Len(KeptAt(s, I)) = c
    BY <1>2, <1>4, <1>5
  <1>. QED BY <1>2, <1>4, <1>5, <1>6

(* An order that rises and misses no index of an interval is the identity.  *)
LEMMA RisesStraight ==
  ASSUME NEW a \in Nat, NEW m \in Nat, NEW f \in Bijection(1..m, (a + 1)..(a + m)), Rises(f)
  PROVE  \A k \in 1..m : f[k] = a + k
  <1>. DEFINE I == (a + 1)..(a + m)
  <1>0. f \in Bijection(1..m, I)
    OBVIOUS
  <1>01. /\ f \in [1..m -> I] /\ \A k, l \in 1..m : f[k] = f[l] => k = l
         /\ \A i \in I : \E k \in 1..m : f[k] = i
    <2>. HIDE DEF I
    <2>. QED BY <1>0, BijectionIs, SMTT(60)
  <1>1. /\ f \in [1..m -> (a + 1)..(a + m)] /\ \A k, l \in 1..m : f[k] = f[l] => k = l
        /\ \A i \in (a + 1)..(a + m) : \E k \in 1..m : f[k] = i
    BY <1>01
  <1>2. \A k \in 1..m : f[k] \in Nat
    BY <1>1
  <1>. DEFINE Off == {k \in 1..m : f[k] # a + k}
  <1>3. ASSUME Off # {} PROVE FALSE
    <2>0. Off \subseteq Nat
      OBVIOUS
    <2>1. PICK k \in Off : \A x \in Off : k <= x
      BY <1>3, <2>0, FirstExists
    <2>2. k \in 1..m /\ f[k] # a + k /\ a + k \in (a + 1)..(a + m)
      OBVIOUS
    <2>3. PICK l \in 1..m : f[l] = a + k
      BY <1>1, <2>2
    <2>4. \A x \in 1..m : x < k => f[x] = a + x
      BY <2>1, <2>2
    <2>. HIDE DEF Off
    <2>5. l > k
      BY <2>2, <2>3, <2>4
    <2>6. f[k] < a + k
      BY <1>1, <2>2, <2>3, <2>5 DEF Rises
    <2>7. f[k] \in (a + 1)..(a + m)
      BY <1>1, <2>2
    <2>. DEFINE x == f[k] - a
    <2>8. x \in 1..m /\ x < k /\ f[k] = a + x
      BY <2>2, <2>6, <2>7
    <2>9. f[x] = f[k]
      BY <2>4, <2>8
    <2>. QED BY <1>1, <2>2, <2>8, <2>9
  <1>. QED BY <1>3

(* The elements at an interval of indices are that part of the sequence.    *)
LEMMA KeptInterval ==
  ASSUME NEW S, NEW s \in Seq(S), NEW a \in Nat, NEW m \in Nat, a + m <= Len(s)
  PROVE  KeptAt(s, (a + 1)..(a + m)) = [k \in 1..m |-> s[a + k]]
  <1>. DEFINE I == (a + 1)..(a + m)
              f == Ascending(I)
  <1>1. Len(s) \in Nat /\ I \in SUBSET (1..Len(s))
    OBVIOUS
  <1>2. Cardinality(I) = m
    <2>1. \A x, y \in Int : Cardinality(x..y) = IF x > y THEN 0 ELSE y - x + 1
      BY FS_Interval
    <2>2. Cardinality(I) = IF a + 1 > a + m THEN 0 ELSE (a + m) - (a + 1) + 1
      BY <2>1
    <2>. QED BY <2>2
  <1>3. f \in Bijection(1..m, I) /\ Rises(f)
    BY <1>1, <1>2, AscendingIs
  <1>4. \A k \in 1..m : f[k] = a + k
    BY <1>3, RisesStraight
  <1>5. DOMAIN f = 1..m
    BY <1>3, BijectionIs
  <1>6. KeptAt(s, I) = [k \in DOMAIN f |-> s[f[k]]]
    BY DEF KeptAt
  <1>. HIDE DEF f
  <1>. QED BY <1>4, <1>5, <1>6

(* A filter that rejects nothing changes nothing.                           *)
LEMMA KeptAll == ASSUME NEW S, NEW s \in Seq(S) PROVE KeptAt(s, DOMAIN s) = s
  <1>. DEFINE n == Len(s)
  <1>1. n \in Nat /\ 0 \in Nat /\ 0 + n <= n /\ DOMAIN s = (0 + 1)..(0 + n)
    OBVIOUS
  <1>2. KeptAt(s, (0 + 1)..(0 + n)) = [k \in 1..n |-> s[0 + k]]
    BY <1>1, KeptInterval
  <1>3. [k \in 1..n |-> s[0 + k]] = s
    OBVIOUS
  <1>. QED BY <1>1, <1>2, <1>3

(***************************************************************************)
(*                     The contributors of a proposal                      *)
(***************************************************************************)
Given(people) == {people[i].affiliation : i \in DOMAIN people} \ {Blank}
EveryoneNamed(people) == people \in Seq(Row) /\ \A i \in DOMAIN people : people[i].name # <<>>

(* filter(Boolean) of at most one affiliation.                              *)
LEMMA NonBlankIs ==
  /\ NonBlank(<<Blank>>) = <<>> /\ NonBlank(<<>>) = <<>>
  /\ \A a : a # Blank => NonBlank(<<a>>) = <<a>>
  <1>1. NonBlank(<<Blank>>) = <<>>
    <2>1. <<Blank>> \in Seq({Blank}) /\ {i \in DOMAIN <<Blank>> : <<Blank>>[i] # Blank} = {}
      OBVIOUS
    <2>2. KeptAt(<<Blank>>, {}) = <<>>
      BY <2>1, KeptIs
    <2>. QED BY <2>1, <2>2 DEF NonBlank
  <1>2. NonBlank(<<>>) = <<>>
    <2>1. <<>> \in Seq({Blank}) /\ {i \in DOMAIN <<>> : <<>>[i] # Blank} = {}
      OBVIOUS
    <2>2. KeptAt(<<>>, {}) = <<>>
      BY <2>1, KeptIs
    <2>. QED BY <2>1, <2>2 DEF NonBlank
  <1>3. ASSUME NEW a, a # Blank PROVE NonBlank(<<a>>) = <<a>>
    <2>. DEFINE s == <<a>>
    <2>1. s \in Seq({a}) /\ {i \in DOMAIN s : s[i] # Blank} = DOMAIN s
      BY <1>3
    <2>2. KeptAt(s, DOMAIN s) = s
      BY <2>1, KeptAll
    <2>. QED BY <2>1, <2>2 DEF NonBlank
  <1>. QED BY <1>1, <1>2, <1>3

(* filter(Boolean) leaves nothing only if all are blank.                    *)
LEMMA NonBlankNot ==
  ASSUME NEW S, NEW s \in Seq(S)
  PROVE  /\ NonBlank(s) = <<>> <=> \A i \in DOMAIN s : s[i] = Blank
         /\ NonBlank(s) \in Seq(S)
  <1>. DEFINE I == {i \in DOMAIN s : s[i] # Blank}
  <1>1. KeptAt(s, I) \in Seq(S) /\ (KeptAt(s, I) = <<>> <=> I = {})
    BY KeptIs
  <1>. QED BY <1>1 DEF NonBlank

(* joinContributors drops the rows without a name.                          *)
LEMMA NamedIs ==
  ASSUME NEW people \in Seq(Row)
  PROVE  EveryoneNamed(Named(people))
  <1>. DEFINE I == {i \in DOMAIN people : people[i].name # <<>>}
              kept == KeptAt(people, I)
  <1>0. I \in SUBSET (DOMAIN people)
    OBVIOUS
  <1>1. kept \in Seq(Row) /\ \A k \in 1..Len(kept) : \E i \in I : kept[k] = people[i]
    <2>. HIDE DEF I
    <2>. QED BY <1>0, KeptIs
  <1>. HIDE DEF kept
  <1>2. \A k \in DOMAIN kept : kept[k].name # <<>>
    BY <1>1
  <1>3. Named(people) = kept
    BY DEF Named, kept
  <1>. QED BY <1>1, <1>2, <1>3 DEF EveryoneNamed

(* Nobody named is dropped.                                                 *)
LEMMA NamedStay == ASSUME NEW people, EveryoneNamed(people) PROVE Named(people) = people
  <1>1. {i \in DOMAIN people : people[i].name # <<>>} = DOMAIN people
    BY DEF EveryoneNamed
  <1>2. KeptAt(people, DOMAIN people) = people
    BY KeptAll DEF EveryoneNamed
  <1>. QED BY <1>1, <1>2 DEF Named

(* joinContributors: no affiliation, one for everybody, or aligned slots.   *)
Aligned(people) == [i \in DOMAIN people |-> IF people[i].affiliation = Blank THEN None ELSE people[i].affiliation]

LEMMA OneOfThem == ASSUME NEW a PROVE SetToSeq({a}) = <<a>>
  <1>1. Cardinality({a}) = 1
    BY FS_Singleton
  <1>2. \A f \in [1..1 -> {a}] : f = <<a>>
    <2>. SUFFICES ASSUME NEW f \in [1..1 -> {a}] PROVE f = <<a>>
      OBVIOUS
    <2>1. DOMAIN f = 1..1 /\ 1 \in 1..1 /\ f[1] = a
      OBVIOUS
    <2>2. \A k \in 1..1 : k = 1
      OBVIOUS
    <2>3. f = [k \in 1..1 |-> a]
      BY <2>1, <2>2
    <2>4. <<a>> = [k \in 1..1 |-> a]
      OBVIOUS
    <2>. QED BY <2>3, <2>4
  <1>3. <<a>> \in [1..1 -> {a}] /\ IsInjective(<<a>>)
    BY DEF IsInjective
  <1>. QED BY <1>1, <1>2, <1>3 DEF SetToSeq

(* What joinContributors stores, by how many affiliations are given.        *)
LEMMA JoinedIs ==
  ASSUME NEW people, EveryoneNamed(people)
  PROVE  /\ JoinContributors(people).name = [i \in DOMAIN people |-> people[i].name]
         /\ Given(people) = {} => JoinContributors(people).affiliation = <<>>
         /\ \A a : Given(people) = {a} => JoinContributors(people).affiliation = <<a>>
         /\ Given(people) # {} /\ (\A a : Given(people) # {a})
              => JoinContributors(people).affiliation = Aligned(people) /\ Len(people) > 1
  <1>. DEFINE D == Given(people)
  <1>1. Named(people) = people
    BY NamedStay
  <1>2. JoinContributors(people) =
          [name |-> [i \in DOMAIN people |-> people[i].name],
           affiliation |-> CASE D = {} -> <<>> [] Cardinality(D) = 1 -> SetToSeq(D) [] OTHER -> Aligned(people)]
    BY <1>1 DEF JoinContributors, Given, Aligned
  <1>3. people \in Seq(Row) /\ Len(people) \in Nat
    BY DEF EveryoneNamed
  <1>4. IsFiniteSet(D)
    <2>. DEFINE f == [i \in 1..Len(people) |-> people[i].affiliation]
                T == {people[i].affiliation : i \in DOMAIN people}
    <2>1. f \in Surjection(1..Len(people), T)
      <3>1. DOMAIN people = 1..Len(people)
        BY <1>3, LenProperties
      <3>2. f \in [1..Len(people) -> T] /\ \A x \in T : \E i \in 1..Len(people) : f[i] = x
        BY <3>1
      <3>. HIDE DEF f, T
      <3>. QED BY <3>2 DEF Surjection
    <2>2. IsFiniteSet(1..Len(people))
      BY <1>3, IndicesFinite
    <2>3. IsFiniteSet(T)
      BY <2>1, <2>2, FS_Surjection
    <2>. QED BY <2>3, FS_Subset DEF Given
  <1>5. Cardinality(D) = 1 <=> \E a : D = {a}
    BY <1>4, FS_Singleton
  <1>6. Cardinality({}) = 0
    BY FS_EmptySet
  <1>. HIDE DEF D
  <1>7. D # {} /\ (\A a : D # {a}) => Len(people) > 1
    <2>. SUFFICES ASSUME D # {}, \A a : D # {a}, ~(Len(people) > 1) PROVE FALSE
      OBVIOUS
    <2>1. CASE Len(people) = 0
      BY <1>3, <2>1 DEF D, Given
    <2>2. CASE Len(people) = 1
      <3>1. DOMAIN people = {1}
        BY <1>3, <2>2
      <3>2. D \subseteq {people[1].affiliation}
        BY <3>1 DEF D, Given
      <3>. QED BY <3>2
    <2>. QED BY <1>3, <2>1, <2>2
  <1>8. \A a : D = {a} => D # {} /\ Cardinality(D) = 1 /\ SetToSeq(D) = <<a>>
    BY <1>5, OneOfThem
  <1>9. (\A a : D # {a}) => Cardinality(D) # 1
    BY <1>5
  <1>. DEFINE J == CASE D = {} -> <<>> [] Cardinality(D) = 1 -> SetToSeq(D) [] OTHER -> Aligned(people)
  <1>10. D = {} => J = <<>>
    BY <1>6
  <1>11. \A a : D = {a} => J = <<a>>
    BY <1>8
  <1>12. D # {} /\ (\A a : D # {a}) => J = Aligned(people)
    BY <1>9
  <1>13. JoinContributors(people) = [name |-> [i \in DOMAIN people |-> people[i].name], affiliation |-> J]
    BY <1>2
  <1>. HIDE DEF J
  <1>14. /\ JoinContributors(people).name = [i \in DOMAIN people |-> people[i].name]
         /\ JoinContributors(people).affiliation = J
    BY <1>13
  <1>. QED BY <1>7, <1>10, <1>11, <1>12, <1>14 DEF D

(* What is known of a row with a name.                                      *)
LEMMA RowsAre ==
  ASSUME NEW people, EveryoneNamed(people)
  PROVE  /\ people \in Seq(Row) /\ Len(people) \in Nat /\ DOMAIN people = 1..Len(people)
         /\ \A i \in DOMAIN people : /\ people[i].name \in Names /\ people[i].name # <<>>
                                     /\ people[i].affiliation \in Affiliations \cup {Blank}
                                     /\ people[i].affiliation # None
         /\ None # Blank
  <1>1. None # Blank /\ None \notin Affiliations
    BY ContributorsAssumption DEF None, Blank
  <1>2. \A r \in Row : r.name \in Names /\ r.affiliation \in Affiliations \cup {Blank}
    BY DEF Row
  <1>. QED BY <1>1, <1>2 DEF EveryoneNamed

(* parseNames gives the names back.                                         *)
LEMMA NamesParse ==
  ASSUME NEW people, EveryoneNamed(people), Len(people) = 1 => Len(people[1].name) = 1
  PROVE  ParseNames([i \in DOMAIN people |-> people[i].name]) = [i \in DOMAIN people |-> people[i].name]
  <1>. DEFINE names == [i \in DOMAIN people |-> people[i].name]
  <1>1. Len(names) = Len(people) /\ DOMAIN names = 1..Len(people)
    BY RowsAre
  <1>2. CASE Len(people) # 1
    BY <1>1, <1>2 DEF ParseNames
  <1>3. CASE Len(people) = 1
    <2>0. DOMAIN people = 1..1 /\ 1 \in DOMAIN people
      BY <1>3, RowsAre
    <2>1. people[1].name \in Names /\ people[1].name # <<>> /\ Len(people[1].name) = 1
      BY <1>3, <2>0, RowsAre
    <2>2. PICK p : people[1].name = <<p>>
      BY <2>1 DEF Names
    <2>3. names = [i \in 1..1 |-> <<p>>]
      <3>1. \A i \in 1..1 : i = 1
        OBVIOUS
      <3>. QED BY <2>0, <2>2, <3>1
    <2>4. names[1] = <<p>> /\ Len(names) = 1
      BY <2>0, <2>2, <1>1, <1>3
    <2>5. [k \in DOMAIN <<p>> |-> <<<<p>>[k]>>] = [i \in 1..1 |-> <<p>>]
      <3>1. DOMAIN <<p>> = 1..1
        OBVIOUS
      <3>2. \A k \in 1..1 : <<p>>[k] = p
        OBVIOUS
      <3>. QED BY <3>1, <3>2
    <2>6. ParseNames(names) = names
      <3>. HIDE DEF names
      <3>. QED BY <2>3, <2>4, <2>5 DEF ParseNames
    <2>. QED BY <2>6
  <1>. QED BY <1>2, <1>3

(* parseAffiliations gives the slots back, "none" as a blank.               *)
LEMMA SlotsParse ==
  /\ ParseAffiliations(<<>>) = <<Blank>>
  /\ \A a : a # None => ParseAffiliations(<<a>>) = <<a>>
  /\ \A people : EveryoneNamed(people) /\ Len(people) > 1
       => ParseAffiliations(Aligned(people)) = [i \in DOMAIN people |-> people[i].affiliation]
  <1>1. ParseAffiliations(<<>>) = <<Blank>>
    BY DEF ParseAffiliations
  <1>2. ASSUME NEW a, a # None PROVE ParseAffiliations(<<a>>) = <<a>>
    <2>. DEFINE s == <<a>>
    <2>1. s # <<>> /\ DOMAIN s = 1..1 /\ (\A k \in 1..1 : s[k] = a) /\ s = [k \in 1..1 |-> a]
      OBVIOUS
    <2>. HIDE DEF s
    <2>2. ParseAffiliations(s) = [k \in 1..1 |-> a]
      BY <1>2, <2>1 DEF ParseAffiliations
    <2>. QED BY <2>1, <2>2 DEF s
  <1>3. ASSUME NEW people, EveryoneNamed(people), Len(people) > 1
        PROVE  ParseAffiliations(Aligned(people)) = [i \in DOMAIN people |-> people[i].affiliation]
    <2>. DEFINE s == Aligned(people)
    <2>1. DOMAIN s = DOMAIN people /\ DOMAIN people = 1..Len(people) /\ Len(people) \in Nat
      BY <1>3, RowsAre DEF Aligned
    <2>2. s # <<>>
      <3>1. 1 \in DOMAIN s
        BY <1>3, <2>1
      <3>. QED BY <3>1
    <2>3. \A i \in DOMAIN people : (IF s[i] = None THEN Blank ELSE s[i]) = people[i].affiliation
      BY <1>3, RowsAre DEF Aligned
    <2>. HIDE DEF s
    <2>. QED BY <2>1, <2>2, <2>3 DEF ParseAffiliations, s
  <1>. QED BY <1>1, <1>2, <1>3

(* What is read back of joined people, in the three cases of the join.      *)
ComesBack(people, back) ==
  /\ DOMAIN back = DOMAIN people
  /\ \A i \in DOMAIN people :
       /\ back[i].name = people[i].name
       /\ Given(people) = {} => back[i].affiliation = <<>>
       /\ \A a : Given(people) = {a} => back[i].affiliation = <<a>>
       /\ Given(people) # {} /\ (\A a : Given(people) # {a})
            => back[i].affiliation = NonBlank(<<people[i].affiliation>>)

(* splitContributors takes the case joinContributors took.                  *)
LEMMA BackIs ==
  ASSUME NEW people, EveryoneNamed(people), Len(people) = 1 => Len(people[1].name) = 1,
         NEW back, back = SplitContributors(JoinContributors(people))
  PROVE  ComesBack(people, back)
  <1>. DEFINE saved == JoinContributors(people)
              names == [i \in DOMAIN people |-> people[i].name]
              affs == ParseAffiliations(saved.affiliation)
              given == NonBlank(affs)
              Shows(i) ==
                CASE given = <<>> -> <<>>
                  [] given # <<>> /\ Len(affs) = Len(names) -> NonBlank(<<affs[i]>>)
                  [] given # <<>> /\ Len(affs) # Len(names) /\ Len(affs) = 1 -> affs
                  [] given # <<>> /\ Len(affs) # Len(names) /\ Len(affs) > 1 /\ Len(names) = 1 -> affs
                  [] OTHER -> IF i = 1 THEN given ELSE <<>>
  <1>0. people \in Seq(Row) /\ Len(people) \in Nat /\ DOMAIN people = 1..Len(people) /\ Len(names) = Len(people)
    BY RowsAre
  <1>1. ParseNames(saved.name) = names
    BY JoinedIs, NamesParse
  <1>2. back = [i \in DOMAIN people |-> [name |-> people[i].name, affiliation |-> Shows(i)]]
    <2>1. DOMAIN names = DOMAIN people /\ \A i \in DOMAIN people : names[i] = people[i].name
      OBVIOUS
    <2>. HIDE DEF names
    <2>. QED BY <1>1, <2>1 DEF SplitContributors
  <1>3. DOMAIN back = DOMAIN people
        /\ \A i \in DOMAIN people : back[i].name = people[i].name /\ back[i].affiliation = Shows(i)
    BY <1>2
  <1>. HIDE DEF names
  <1>4. ASSUME Given(people) = {}, NEW i \in DOMAIN people PROVE Shows(i) = <<>>
    <2>1. given = <<>>
      BY <1>4, JoinedIs, SlotsParse, NonBlankIs
    <2>. QED BY <2>1
  <1>5. ASSUME NEW a, Given(people) = {a}, NEW i \in DOMAIN people PROVE Shows(i) = <<a>>
    <2>1. a # Blank /\ a # None
      BY <1>5, RowsAre DEF Given
    <2>2. affs = <<a>>
      BY <1>5, <2>1, JoinedIs, SlotsParse
    <2>3. given = <<a>> /\ <<a>> # <<>> /\ Len(<<a>>) = 1 /\ <<a>>[1] = a
      BY <2>1, <2>2, NonBlankIs
    <2>4. CASE Len(names) = 1
      <3>1. i = 1
        BY <1>0, <2>4
      <3>2. NonBlank(<<affs[i]>>) = <<a>>
        BY <2>1, <2>2, <2>3, <3>1, NonBlankIs
      <3>. HIDE DEF given, affs
      <3>. QED BY <2>2, <2>3, <2>4, <3>2
    <2>5. CASE Len(names) # 1
      <3>. HIDE DEF given, affs
      <3>. QED BY <2>2, <2>3, <2>5
    <2>. QED BY <2>4, <2>5
  <1>6. ASSUME Given(people) # {}, \A a : Given(people) # {a}, NEW i \in DOMAIN people
        PROVE  Shows(i) = NonBlank(<<people[i].affiliation>>)
    <2>1. affs = [k \in DOMAIN people |-> people[k].affiliation]
      BY <1>6, JoinedIs, SlotsParse
    <2>2. affs \in Seq(Affiliations \cup {Blank}) /\ Len(affs) = Len(names) /\ affs[i] = people[i].affiliation
          /\ DOMAIN affs = DOMAIN people /\ \A k \in DOMAIN people : affs[k] = people[k].affiliation
      BY <1>0, <2>1, RowsAre
    <2>3. given # <<>>
      <3>1. PICK k \in DOMAIN people : people[k].affiliation # Blank
        BY <1>6 DEF Given
      <3>. HIDE DEF affs
      <3>. QED BY <2>2, <3>1, NonBlankNot
    <2>. HIDE DEF given, affs
    <2>. QED BY <2>2, <2>3
  <1>. HIDE DEF Shows
  <1>. QED BY <1>3, <1>4, <1>5, <1>6 DEF ComesBack

(* A person with at most one affiliation becomes one row.                   *)
LEMMA AsRowIs ==
  ASSUME NEW n, NEW a
  PROVE  /\ AsRow([name |-> n, affiliation |-> <<>>]) = [name |-> n, affiliation |-> Blank]
         /\ AsRow([name |-> n, affiliation |-> <<a>>]) = [name |-> n, affiliation |-> a]
  <1>1. Len(<<>>) # 1 /\ Len(<<a>>) = 1 /\ <<a>>[1] = a
    OBVIOUS
  <1>. QED BY <1>1 DEF AsRow

(* So everybody comes back as entered, or shares the one affiliation.       *)
LEMMA PeopleAre ==
  ASSUME NEW people, EveryoneNamed(people), Len(people) = 1 => Len(people[1].name) = 1,
         NEW back, back = SplitContributors(JoinContributors(people))
  PROVE  /\ [i \in DOMAIN back |-> back[i].name] = [i \in DOMAIN people |-> people[i].name]
         /\ \A i \in DOMAIN people :
              \/ back[i].affiliation = NonBlank(<<people[i].affiliation>>)
              \/ people[i].affiliation = Blank /\ Cardinality(Given(people)) = 1
                 /\ ToSet(back[i].affiliation) = Given(people)
         /\ JoinContributors([i \in DOMAIN back |-> AsRow(back[i])]) = JoinContributors(people)
  <1>a. ComesBack(people, back)
    BY BackIs
  <1>. DEFINE again == [i \in DOMAIN back |-> AsRow(back[i])]
              Sole == \E a : Given(people) = {a}
              Aff(i) == IF Given(people) = {} THEN Blank
                        ELSE IF Sole THEN CHOOSE a : Given(people) = {a} ELSE people[i].affiliation
  <1>b. /\ DOMAIN back = DOMAIN people
        /\ \A i \in DOMAIN people :
             /\ back[i].name = people[i].name
             /\ Given(people) = {} => back[i].affiliation = <<>>
             /\ \A a : Given(people) = {a} => back[i].affiliation = <<a>>
             /\ Given(people) # {} /\ (\A a : Given(people) # {a})
                  => back[i].affiliation = NonBlank(<<people[i].affiliation>>)
    BY <1>a DEF ComesBack
  <1>0. /\ DOMAIN back = DOMAIN people /\ Given(people) \subseteq Affiliations \cup {Blank}
        /\ \A i \in DOMAIN people : people[i].affiliation # Blank => people[i].affiliation \in Given(people)
    BY <1>b, RowsAre DEF Given
  <1>1. [i \in DOMAIN back |-> back[i].name] = [i \in DOMAIN people |-> people[i].name]
    BY <1>b
  <1>2. ASSUME NEW i \in DOMAIN people
        PROVE  \/ back[i].affiliation = NonBlank(<<people[i].affiliation>>)
               \/ people[i].affiliation = Blank /\ Cardinality(Given(people)) = 1
                  /\ ToSet(back[i].affiliation) = Given(people)
    <2>1. CASE Given(people) = {}
      BY <1>0, <2>1, <1>b, NonBlankIs
    <2>2. ASSUME NEW a, Given(people) = {a}
          PROVE  \/ back[i].affiliation = NonBlank(<<people[i].affiliation>>)
                 \/ people[i].affiliation = Blank /\ Cardinality(Given(people)) = 1
                    /\ ToSet(back[i].affiliation) = Given(people)
      <3>1. back[i].affiliation = <<a>>
        BY <2>2, <1>b
      <3>0. a # Blank
        BY <2>2 DEF Given
      <3>2. people[i].affiliation \in {a, Blank}
        BY <1>0, <2>2
      <3>3. ToSet(<<a>>) = {a} /\ Cardinality({a}) = 1
        BY FS_Singleton DEF ToSet
      <3>. QED BY <2>2, <3>0, <3>1, <3>2, <3>3, NonBlankIs
    <2>3. CASE Given(people) # {} /\ \A a : Given(people) # {a}
      BY <2>3, <1>b
    <2>. QED BY <2>1, <2>2, <2>3
  <1>3. ASSUME NEW i \in DOMAIN people PROVE AsRow(back[i]) = [name |-> people[i].name, affiliation |-> Aff(i)]
    <2>0. back[i] = [name |-> back[i].name, affiliation |-> back[i].affiliation]
      BY <1>0 DEF SplitContributors
    <2>1. CASE Given(people) = {}
      <3>1. Aff(i) = Blank
        BY <2>1
      <3>2. back[i] = [name |-> people[i].name, affiliation |-> <<>>]
        BY <2>0, <2>1, <1>b
      <3>. HIDE DEF Aff
      <3>. QED BY <3>1, <3>2, AsRowIs
    <2>2. ASSUME NEW a, Given(people) = {a} PROVE AsRow(back[i]) = [name |-> people[i].name, affiliation |-> Aff(i)]
      <3>1. Aff(i) = a
        BY <2>2
      <3>2. back[i] = [name |-> people[i].name, affiliation |-> <<a>>]
        BY <2>0, <2>2, <1>b
      <3>. HIDE DEF Aff
      <3>. QED BY <3>1, <3>2, AsRowIs
    <2>3. CASE Given(people) # {} /\ \A a : Given(people) # {a}
      <3>1. Aff(i) = people[i].affiliation
        BY <2>3
      <3>2. back[i] = [name |-> people[i].name, affiliation |-> NonBlank(<<people[i].affiliation>>)]
        BY <2>0, <2>3, <1>b
      <3>. HIDE DEF Aff
      <3>3. CASE people[i].affiliation = Blank
        BY <3>1, <3>2, <3>3, AsRowIs, NonBlankIs
      <3>4. CASE people[i].affiliation # Blank
        BY <3>1, <3>2, <3>4, AsRowIs, NonBlankIs
      <3>. QED BY <3>3, <3>4
    <2>. QED BY <2>1, <2>2, <2>3
  <1>4. \A i \in DOMAIN people : Aff(i) \in Affiliations \cup {Blank}
    <2>. SUFFICES ASSUME NEW i \in DOMAIN people PROVE Aff(i) \in Affiliations \cup {Blank}
      OBVIOUS
    <2>1. CASE Sole
      <3>1. PICK a : Given(people) = {a}
        BY <2>1
      <3>2. Aff(i) = a
        BY <3>1
      <3>. QED BY <1>0, <3>1, <3>2
    <2>2. CASE ~Sole
      BY <2>2, RowsAre
    <2>. QED BY <2>1, <2>2
  <1>5. again = [i \in DOMAIN people |-> [name |-> people[i].name, affiliation |-> Aff(i)]]
    BY <1>0, <1>3
  <1>. HIDE DEF Aff, again
  <1>6. /\ DOMAIN again = DOMAIN people
        /\ \A i \in DOMAIN people : again[i].name = people[i].name /\ again[i].affiliation = Aff(i)
    BY <1>5
  <1>7. EveryoneNamed(again)
    <2>1. \A i \in DOMAIN people : [name |-> people[i].name, affiliation |-> Aff(i)] \in Row
      BY <1>4, RowsAre DEF Row
    <2>2. again \in Seq(Row)
      BY <1>5, <2>1, RowsAre
    <2>. QED BY <1>6, <2>2, RowsAre DEF EveryoneNamed
  <1>8. Given(again) = Given(people)
    <2>1. CASE Given(people) = {}
      BY <1>6, <2>1 DEF Aff, Given
    <2>2. ASSUME NEW a, Given(people) = {a} PROVE Given(again) = Given(people)
      <3>1. \A i \in DOMAIN people : Aff(i) = a
        BY <2>2 DEF Aff
      <3>2. a # Blank /\ DOMAIN people # {}
        BY <2>2 DEF Given
      <3>3. {again[i].affiliation : i \in DOMAIN again} = {a}
        BY <1>6, <3>1, <3>2
      <3>. QED BY <2>2, <3>2, <3>3 DEF Given
    <2>3. CASE Given(people) # {} /\ \A a : Given(people) # {a}
      <3>1. \A i \in DOMAIN people : again[i].affiliation = people[i].affiliation
        BY <1>6, <2>3 DEF Aff
      <3>2. {again[i].affiliation : i \in DOMAIN again} = {people[i].affiliation : i \in DOMAIN people}
        BY <1>6, <3>1
      <3>. QED BY <3>2 DEF Given
    <2>. QED BY <2>1, <2>2, <2>3
  <1>c. \A p \in {people, again} :
          /\ JoinContributors(p).name = [i \in DOMAIN p |-> p[i].name]
          /\ Given(p) = {} => JoinContributors(p).affiliation = <<>>
          /\ \A a : Given(p) = {a} => JoinContributors(p).affiliation = <<a>>
          /\ Given(p) # {} /\ (\A a : Given(p) # {a}) => JoinContributors(p).affiliation = Aligned(p)
    <2>. SUFFICES ASSUME NEW p, p = people \/ p = again
                  PROVE  /\ JoinContributors(p).name = [i \in DOMAIN p |-> p[i].name]
                         /\ Given(p) = {} => JoinContributors(p).affiliation = <<>>
                         /\ \A a : Given(p) = {a} => JoinContributors(p).affiliation = <<a>>
                         /\ Given(p) # {} /\ (\A a : Given(p) # {a}) => JoinContributors(p).affiliation = Aligned(p)
      OBVIOUS
    <2>1. EveryoneNamed(p)
      BY <1>7
    <2>. QED BY <2>1, JoinedIs
  <1>9. JoinContributors(again).name = JoinContributors(people).name
    BY <1>6, <1>c
  <1>10. JoinContributors(again).affiliation = JoinContributors(people).affiliation
    <2>1. CASE Given(people) = {}
      BY <1>8, <1>c, <2>1
    <2>2. ASSUME NEW a, Given(people) = {a} PROVE JoinContributors(again).affiliation = JoinContributors(people).affiliation
      BY <1>8, <1>c, <2>2
    <2>3. CASE Given(people) # {} /\ \A a : Given(people) # {a}
      <3>1. \A i \in DOMAIN people : again[i].affiliation = people[i].affiliation
        BY <1>6, <2>3 DEF Aff
      <3>2. Aligned(again) = Aligned(people)
        BY <1>6, <3>1 DEF Aligned
      <3>. QED BY <1>8, <1>c, <2>3, <3>2
    <2>. QED BY <2>1, <2>2, <2>3
  <1>11. JoinContributors(again) = JoinContributors(people)
    <2>1. /\ JoinContributors(again) = [name |-> JoinContributors(again).name, affiliation |-> JoinContributors(again).affiliation]
          /\ JoinContributors(people) = [name |-> JoinContributors(people).name, affiliation |-> JoinContributors(people).affiliation]
      BY DEF JoinContributors
    <2>. QED BY <1>9, <1>10, <2>1
  <1>. QED BY <1>1, <1>2, <1>11 DEF again

(* What is read back, of whatever rows, can be edited as rows.              *)
LEMMA ReadBackIsRows ==
  ASSUME NEW people, EveryoneNamed(people), NEW back, back = SplitContributors(JoinContributors(people))
  PROVE  [i \in DOMAIN back |-> AsRow(back[i])] \in Seq(Row)
  <1>. DEFINE Aff == Affiliations \cup {Blank}
              saved == JoinContributors(people)
              names == ParseNames(saved.name)
              affs == ParseAffiliations(saved.affiliation)
              given == NonBlank(affs)
              Shows(i) ==
                CASE given = <<>> -> <<>>
                  [] given # <<>> /\ Len(affs) = Len(names) -> NonBlank(<<affs[i]>>)
                  [] given # <<>> /\ Len(affs) # Len(names) /\ Len(affs) = 1 -> affs
                  [] given # <<>> /\ Len(affs) # Len(names) /\ Len(affs) > 1 /\ Len(names) = 1 -> affs
                  [] OTHER -> IF i = 1 THEN given ELSE <<>>
  <1>1. back = [i \in DOMAIN names |-> [name |-> names[i], affiliation |-> Shows(i)]]
    BY DEF SplitContributors
  <1>2. names \in Seq(Names)
    <2>. DEFINE n == [i \in DOMAIN people |-> people[i].name]
    <2>0. saved.name = n
      BY JoinedIs
    <2>1. n \in Seq(Names)
      BY RowsAre
    <2>. HIDE DEF n
    <2>2. CASE Len(n) # 1
      BY <2>0, <2>1, <2>2 DEF ParseNames
    <2>3. CASE Len(n) = 1
      <3>1. n[1] \in Names
        BY <2>1, <2>3
      <3>2. \A x \in Names : x \in Seq(NameParts)
        <4>. SUFFICES ASSUME NEW x \in Names PROVE x \in Seq(NameParts)
          OBVIOUS
        <4>1. CASE x = <<>>
          BY <4>1
        <4>2. ASSUME NEW p \in NameParts, x = <<p>> PROVE x \in Seq(NameParts)
          BY <4>2
        <4>3. ASSUME NEW p \in NameParts, NEW q \in NameParts, x = <<p, q>> PROVE x \in Seq(NameParts)
          BY <4>3
        <4>. QED BY <4>1, <4>2, <4>3 DEF Names
      <3>3. \A p \in NameParts : <<p>> \in Names
        BY DEF Names
      <3>4. [k \in DOMAIN n[1] |-> <<n[1][k]>>] \in Seq(Names)
        BY <3>1, <3>2, <3>3
      <3>. QED BY <2>0, <2>3, <3>4 DEF ParseNames
    <2>. QED BY <2>2, <2>3
  <1>3. affs \in Seq(Aff)
    <2>1. Given(people) \subseteq Aff /\ Blank \in Aff
      BY RowsAre DEF Given
    <2>2. CASE Given(people) = {}
      <3>1. affs = <<Blank>>
        BY <2>2, JoinedIs, SlotsParse
      <3>. QED BY <2>1, <3>1
    <2>3. ASSUME NEW a, Given(people) = {a} PROVE affs \in Seq(Aff)
      <3>1. a # None /\ a \in Aff
        BY <2>1, <2>3, RowsAre DEF Given
      <3>2. affs = <<a>>
        BY <2>3, <3>1, JoinedIs, SlotsParse
      <3>. QED BY <3>1, <3>2
    <2>4. CASE Given(people) # {} /\ \A a : Given(people) # {a}
      <3>1. affs = [i \in DOMAIN people |-> people[i].affiliation]
        BY <2>4, JoinedIs, SlotsParse
      <3>. QED BY <3>1, RowsAre
    <2>. QED BY <2>2, <2>3, <2>4
  <1>. HIDE DEF names, affs
  <1>4. given \in Seq(Aff)
    BY <1>3, NonBlankNot
  <1>5. ASSUME NEW i \in DOMAIN names PROVE Shows(i) \in Seq(Aff)
    <2>. HIDE DEF given
    <2>1. CASE Len(affs) = Len(names)
      <3>1. affs[i] \in Aff
        BY <1>2, <1>3, <2>1
      <3>2. NonBlank(<<affs[i]>>) \in Seq(Aff)
        <4>. DEFINE s == <<affs[i]>>
        <4>1. s \in Seq(Aff)
          BY <3>1
        <4>. QED BY <4>1, NonBlankNot
      <3>. QED BY <2>1, <3>2
    <2>2. CASE Len(affs) # Len(names)
      <3>. HIDE DEF Aff
      <3>. QED BY <1>3, <1>4, <2>2
    <2>. QED BY <2>1, <2>2
  <1>. HIDE DEF Shows
  <1>6. ASSUME NEW i \in DOMAIN names PROVE AsRow(back[i]) \in Row
    <2>1. back[i] = [name |-> names[i], affiliation |-> Shows(i)] /\ names[i] \in Names
      BY <1>1, <1>2
    <2>2. Len(Shows(i)) = 1 => Shows(i)[1] \in Aff
      BY <1>5
    <2>. QED BY <2>1, <2>2 DEF AsRow, Row
  <1>7. DOMAIN back = DOMAIN names
    BY <1>1
  <1>. QED BY <1>2, <1>6, <1>7

(* The rows keep their form: in particular what is read back is a row.      *)
LEMMA ContributorsStep == rows \in Seq(Row) /\ [ContributorsNext]_rows => rows' \in Seq(Row)
  <1>. SUFFICES ASSUME rows \in Seq(Row), [ContributorsNext]_rows PROVE rows' \in Seq(Row)
    OBVIOUS
  <1>1. CASE AddRow
    <2>1. BlankRow \in Row
      BY DEF BlankRow, Row, Names
    <2>. QED BY <1>1, <2>1 DEF AddRow
  <1>2. ASSUME NEW i \in 1..MaxRows, RemoveRow(i) PROVE rows' \in Seq(Row)
    <2>1. i \in 2..Len(rows) /\ rows' = SubSeq(rows, 1, i - 1) \o SubSeq(rows, i + 1, Len(rows))
      BY <1>2 DEF RemoveRow, RemoveAt
    <2>2. SubSeq(rows, 1, i - 1) \in Seq(Row) /\ SubSeq(rows, i + 1, Len(rows)) \in Seq(Row)
      BY <2>1
    <2>. QED BY <2>1, <2>2
  <1>3. ASSUME NEW i \in 1..MaxRows, NEW row \in Row, TypeRow(i, row) PROVE rows' \in Seq(Row)
    BY <1>3 DEF TypeRow
  <1>4. CASE SaveAndEdit
    <2>. DEFINE named == Named(rows)
                back == SplitContributors(JoinContributors(rows))
    <2>1. rows' = [i \in DOMAIN back |-> AsRow(back[i])]
      BY <1>4 DEF SaveAndEdit
    <2>2. EveryoneNamed(named) /\ named # <<>>
      BY <1>4, NamedIs DEF SaveAndEdit
    <2>3. Named(named) = named
      BY <2>2, NamedStay
    <2>4. JoinContributors(rows) = JoinContributors(named)
      BY <2>3 DEF JoinContributors
    <2>. QED BY <2>1, <2>2, <2>4, ReadBackIsRows
  <1>5. CASE UNCHANGED rows
    BY <1>5
  <1>. QED BY <1>1, <1>2, <1>3, <1>4, <1>5 DEF ContributorsNext
(* The form starts with one blank row, and its rows stay rows.              *)
LEMMA ContributorsStart == ContributorsInit => rows \in Seq(Row)
  <1>1. BlankRow \in Row
    BY DEF BlankRow, Row, Names
  <1>. QED BY <1>1 DEF ContributorsInit

(* The two for the rows of the form.                                        *)
LEMMA EveryoneComesBack == rows \in Seq(Row) => PeopleComeBack
  <1>. SUFFICES ASSUME rows \in Seq(Row), Len(Named(rows)) = 1 => Len(Named(rows)[1].name) = 1
                PROVE  LET back == SplitContributors(JoinContributors(rows))
                       IN  /\ [i \in DOMAIN back |-> back[i].name] = [i \in DOMAIN Named(rows) |-> Named(rows)[i].name]
                           /\ \A i \in DOMAIN Named(rows) :
                                \/ back[i].affiliation = NonBlank(<<Named(rows)[i].affiliation>>)
                                \/ Named(rows)[i].affiliation = Blank /\ Cardinality(Given(Named(rows))) = 1
                                   /\ ToSet(back[i].affiliation) = Given(Named(rows))
                           /\ JoinContributors([i \in DOMAIN back |-> AsRow(back[i])]) = JoinContributors(rows)
    BY DEF PeopleComeBack, Given
  <1>1. EveryoneNamed(Named(rows))
    BY NamedIs
  <1>2. JoinContributors(rows) = JoinContributors(Named(rows))
    <2>1. Named(Named(rows)) = Named(rows)
      BY <1>1, NamedStay
    <2>. QED BY <2>1 DEF JoinContributors
  <1>. QED BY <1>1, <1>2, PeopleAre

(***************************************************************************)
(*                        Parts of a joined sequence                       *)
(***************************************************************************)
LEMMA LeastIs ==
  ASSUME NEW I \in SUBSET Nat, NEW m \in I, \A j \in I : m <= j
  PROVE  (CHOOSE i \in I : \A j \in I : i <= j) = m
  <1>1. \A i \in I : (\A j \in I : i <= j) => i = m
    OBVIOUS
  <1>. QED BY <1>1

(* Where each element of three joined sequences stands.                     *)
LEMMA JoinedAt ==
  ASSUME NEW S, NEW A \in Seq(S), NEW l \in S, NEW B \in Seq(S), NEW C \in Seq(S),
         NEW L, L = ((A \o <<l>>) \o B) \o C
  PROVE  /\ L \in Seq(S) /\ Len(L) = Len(A) + 1 + Len(B) + Len(C) /\ DOMAIN L = 1..Len(L)
         /\ Len(A) \in Nat /\ Len(B) \in Nat /\ Len(C) \in Nat
         /\ \A i \in 1..Len(A) : L[i] = A[i]
         /\ L[Len(A) + 1] = l
         /\ \A i \in 1..Len(B) : L[Len(A) + 1 + i] = B[i]
         /\ \A i \in 1..Len(C) : L[Len(A) + 1 + Len(B) + i] = C[i]
  <1>. DEFINE o == <<l>>
              D == A \o o
              E == D \o B
  <1>0. o \in Seq(S) /\ Len(o) = 1 /\ o[1] = l
    OBVIOUS
  <1>00. Len(A) \in Nat /\ Len(B) \in Nat /\ Len(C) \in Nat
    OBVIOUS
  <1>. HIDE DEF o
  <1>1. /\ D \in Seq(S) /\ Len(D) = Len(A) + Len(o)
        /\ \A i \in 1..Len(A) + Len(o) : D[i] = IF i <= Len(A) THEN A[i] ELSE o[i - Len(A)]
    BY <1>0, ConcatProperties
  <1>. HIDE DEF D
  <1>1a. D \in Seq(S)
    BY <1>1
  <1>2. /\ E \in Seq(S) /\ Len(E) = Len(D) + Len(B)
        /\ \A i \in 1..Len(D) + Len(B) : E[i] = IF i <= Len(D) THEN D[i] ELSE B[i - Len(D)]
    BY <1>1a, ConcatProperties
  <1>2a. E \in Seq(S)
    BY <1>2
  <1>. HIDE DEF E
  <1>3. /\ E \o C \in Seq(S) /\ Len(E \o C) = Len(E) + Len(C)
        /\ \A i \in 1..Len(E) + Len(C) : (E \o C)[i] = IF i <= Len(E) THEN E[i] ELSE C[i - Len(E)]
    BY <1>2a, ConcatProperties
  <1>4. /\ L \in Seq(S) /\ Len(L) = Len(E) + Len(C)
        /\ \A i \in 1..Len(E) + Len(C) : L[i] = IF i <= Len(E) THEN E[i] ELSE C[i - Len(E)]
    <2>1. L = E \o C
      BY DEF E, D, o
    <2>. QED BY <1>3, <2>1
  <1>9. DOMAIN L = 1..Len(L)
    BY <1>4
  <1>5. \A i \in 1..Len(A) : L[i] = A[i]
    BY <1>00, <1>1, <1>2, <1>4
  <1>6. L[Len(A) + 1] = l
    BY <1>00, <1>0, <1>1, <1>2, <1>4
  <1>7. \A i \in 1..Len(B) : L[Len(A) + 1 + i] = B[i]
    BY <1>00, <1>1, <1>2, <1>4
  <1>8. \A i \in 1..Len(C) : L[Len(A) + 1 + Len(B) + i] = C[i]
    BY <1>00, <1>1, <1>2, <1>4
  <1>. QED BY <1>00, <1>0, <1>1, <1>2, <1>4, <1>5, <1>6, <1>7, <1>8, <1>9

(* What follows the only start, up to where one in stop begins what is left.*)
LEMMA BetweenParts ==
  ASSUME NEW S, NEW A \in Seq(S), NEW l \in S, NEW B \in Seq(S), NEW C \in Seq(S), NEW start, NEW stop,
         l.line = start, \A i \in 1..Len(A) : A[i].line # start,
         \A i \in 1..Len(B) : B[i].line \notin stop,
         C # <<>> => C[1].line \in stop
  PROVE  Between(((A \o <<l>>) \o B) \o C, start, stop) = B
  <1>. DEFINE L == ((A \o <<l>>) \o B) \o C
              starts == {i \in DOMAIN L : L[i].line = start}
              first == CHOOSE i \in starts : \A j \in starts : i <= j
              rest == SubSeq(L, first + 1, Len(L))
              stops == {i \in DOMAIN rest : rest[i].line \in stop}
              cut == CHOOSE i \in stops : \A j \in stops : i <= j
              p == Len(A) + 1
              b == Len(B)
  <1>1. /\ L \in Seq(S) /\ Len(L) = p + b + Len(C) /\ DOMAIN L = 1..Len(L)
        /\ p \in Nat /\ b \in Nat /\ Len(C) \in Nat /\ Len(A) \in Nat
        /\ \A i \in 1..Len(A) : L[i] = A[i]
        /\ L[p] = l
        /\ \A i \in 1..b : L[p + i] = B[i]
        /\ \A i \in 1..Len(C) : L[p + b + i] = C[i]
    BY JoinedAt
  <1>0. Between(L, start, stop) = IF starts = {} THEN <<>>
           ELSE IF stops = {} THEN rest
           ELSE SubSeq(rest, 1, cut - 1)
    BY DEF Between
  <1>. HIDE DEF L
  <1>2. p \in starts /\ \A j \in starts : p <= j
    <2>1. p \in DOMAIN L /\ L[p].line = start
      BY <1>1
    <2>2. \A j \in DOMAIN L : j \in 1..Len(A) \/ p <= j
      BY <1>1
    <2>. QED BY <1>1, <2>1, <2>2
  <1>3. first = p
    <2>1. starts \in SUBSET Nat
      BY <1>1
    <2>. HIDE DEF starts
    <2>. QED BY <1>2, <2>1, LeastIs
  <1>4. /\ rest \in Seq(S) /\ Len(rest) = b + Len(C)
        /\ \A i \in 1..(b + Len(C)) : rest[i] = L[p + i]
    <2>1. rest = SubSeq(L, p + 1, Len(L))
      BY <1>3
    <2>2. \A i \in (p + 1)..Len(L) : L[i] \in S
      BY <1>1
    <2>. DEFINE a == p + 1
                z == Len(L)
    <2>3. a \in Int /\ z \in Int /\ a = p + 1 /\ z = p + b + Len(C)
      BY <1>1
    <2>. HIDE DEF rest, p, b, a, z
    <2>4. /\ SubSeq(L, a, z) \in Seq(S)
          /\ Len(SubSeq(L, a, z)) = IF a <= z THEN z - a + 1 ELSE 0
          /\ \A i \in 1..z - a + 1 : SubSeq(L, a, z)[i] = L[a + i - 1]
      BY <2>2, <2>3, SubSeqProperties DEF a, z
    <2>5. Len(rest) = b + Len(C) /\ rest \in Seq(S)
      BY <1>1, <2>1, <2>3, <2>4 DEF a, z
    <2>6. \A i \in 1..(b + Len(C)) : rest[i] = L[p + i]
      <3>. SUFFICES ASSUME NEW i \in 1..(b + Len(C)) PROVE rest[i] = L[p + i]
        OBVIOUS
      <3>1. i \in 1..z - a + 1 /\ a + i - 1 = p + i
        BY <1>1, <2>3
      <3>. QED BY <2>1, <2>4, <3>1 DEF a, z
    <2>. QED BY <2>5, <2>6
  <1>t. p \in Nat /\ b \in Nat /\ Len(C) \in Nat
    BY <1>1
  <1>5. DOMAIN rest = 1..(b + Len(C))
    BY <1>4
  <1>6. \A i \in 1..b : rest[i] = B[i]
    <2>1. \A i \in 1..b : i \in 1..(b + Len(C))
      BY <1>1
    <2>. HIDE DEF rest, p, b
    <2>. QED BY <1>1, <1>4, <2>1
  <1>7. \A i \in 1..Len(C) : rest[b + i] = C[i]
    <2>1. \A i \in 1..Len(C) : b + i \in 1..(b + Len(C)) /\ p + (b + i) = p + b + i
      <3>. HIDE DEF p, b, rest
      <3>. QED BY <1>t
    <2>. HIDE DEF rest, p, b
    <2>. QED BY <1>1, <1>4, <2>1
  <1>. HIDE DEF rest, first, p
  <1>8. CASE C = <<>>
    <2>1. Len(C) = 0
      BY <1>8
    <2>2. stops = {}
      BY <1>1, <1>5, <1>6, <2>1
    <2>3. rest = B
      BY <1>1, <1>4, <1>6, <2>1, SeqEqual
    <2>. QED BY <1>0, <1>2, <2>2, <2>3 DEF L
  <1>9. CASE C # <<>>
    <2>1. Len(C) \in Nat \ {0} /\ C[1].line \in stop
      BY <1>9, EmptySeq
    <2>2. b + 1 \in stops /\ \A j \in stops : b + 1 <= j
      BY <1>1, <1>5, <1>6, <1>7, <2>1
    <2>3. stops \in SUBSET Nat
      BY <1>5
    <2>4. cut = b + 1
      <3>. HIDE DEF stops
      <3>. QED BY <2>2, <2>3, LeastIs
    <2>5. SubSeq(rest, 1, b) = B
      <3>1. \A i \in 1..b : rest[i] \in S
        BY <1>1, <1>4
      <3>2. /\ SubSeq(rest, 1, b) \in Seq(S) /\ Len(SubSeq(rest, 1, b)) = IF 1 <= b THEN b - 1 + 1 ELSE 0
            /\ \A i \in 1..b - 1 + 1 : SubSeq(rest, 1, b)[i] = rest[1 + i - 1]
        <4>1. 1 \in Int /\ b \in Int
          BY <1>1
        <4>. HIDE DEF b
        <4>. QED BY <3>1, <4>1, SubSeqProperties
      <3>3. Len(SubSeq(rest, 1, b)) = b
        BY <1>1, <3>2
      <3>4. \A i \in 1..b : SubSeq(rest, 1, b)[i] = B[i]
        BY <1>1, <1>6, <3>2
      <3>. QED BY <3>2, <3>3, <3>4, SeqEqual
    <2>6. cut - 1 = b
      <3>. HIDE DEF cut, b
      <3>. QED BY <1>t, <2>4
    <2>7. stops # {} /\ starts # {}
      BY <1>2, <2>2
    <2>. HIDE DEF stops, starts, b, cut
    <2>8. Between(L, start, stop) = SubSeq(rest, 1, cut - 1)
      BY <1>0, <2>7, Zenon
    <2>. QED BY <2>5, <2>6, <2>8 DEF L, b
  <1>. QED BY <1>8, <1>9

(***************************************************************************)
(*                     A review, written and read                          *)
(***************************************************************************)
Marks == [decision: {"", "approved", "changes_requested", "rejected"}, verifiability: {0, 5}, runtime: {"", "too_long"}]
LineOf(T) == [line: T, marker: Marks]

(* What a reviewer may type without using the form's own markers, and what  *)
(* of it stands in the reply.                                               *)
Unmarked == {"plain", "short", "### Other", "Decision: other"}
Safe == {"plain", "short", "\\### Other", "\\Decision: other"}

(* What a reviewer may type that is none of the form's own markers.         *)
LEMMA FreeIs == Paragraphs \ Reserved = Unmarked
  BY DEF Paragraphs, Reserved, Unmarked

(* safeText escapes headings and decisions, and the parser undoes it.       *)
LEMMA SafeIs ==
  ASSUME NEW txt \in Seq(Unmarked)
  PROVE  /\ SafeText(txt) \in Seq(Safe) /\ Len(SafeText(txt)) = Len(txt)
         /\ Unescaped(SafeText(txt)) = txt
  <1>. DEFINE f(p) == CASE p = "### Other" -> "\\### Other"
                        [] p = "Decision: other" -> "\\Decision: other"
                        [] OTHER -> p
              g(p) == CASE p = "\\### Other" -> "### Other"
                        [] p = "\\Decision: other" -> "Decision: other"
                        [] OTHER -> p
              n == Len(txt)
  <1>1. \A p \in Unmarked : f(p) \in Safe /\ g(f(p)) = p
    BY DEF Unmarked, Safe
  <1>2. n \in Nat /\ DOMAIN txt = 1..n /\ (\A i \in 1..n : txt[i] \in Unmarked) /\ txt = [i \in 1..n |-> txt[i]]
    OBVIOUS
  <1>3. SafeText(txt) = [i \in 1..n |-> f(txt[i])]
    BY <1>2 DEF SafeText
  <1>. DEFINE s == SafeText(txt)
  <1>4. Unescaped(s) = [i \in DOMAIN s |-> g(s[i])]
    BY DEF Unescaped
  <1>. HIDE DEF f, g, n, s
  <1>5. s \in Seq(Safe) /\ Len(s) = n /\ DOMAIN s = 1..n /\ \A i \in 1..n : s[i] = f(txt[i])
    BY <1>1, <1>2, <1>3 DEF s
  <1>6. \A i \in 1..n : g(s[i]) = txt[i]
    BY <1>1, <1>2, <1>5
  <1>7. Unescaped(s) = txt
    BY <1>2, <1>4, <1>5, <1>6
  <1>. QED BY <1>5, <1>7 DEF s, n

(* A text as lines of a reply, and back.                                    *)
LEMMA LinesAre ==
  ASSUME NEW T, NEW txt \in Seq(T)
  PROVE  /\ Lines(txt) \in Seq(LineOf(T)) /\ Len(Lines(txt)) = Len(txt)
         /\ TextOf(Lines(txt)) = txt
  <1>. DEFINE n == Len(txt)
              m == Marker(EmptyReview)
              s == Lines(txt)
  <1>1. m \in Marks
    BY DEF Marker, EmptyReview, Marks
  <1>2. n \in Nat /\ DOMAIN txt = 1..n /\ (\A i \in 1..n : txt[i] \in T) /\ txt = [i \in 1..n |-> txt[i]]
    OBVIOUS
  <1>3. s = [i \in 1..n |-> [line |-> txt[i], marker |-> m]]
    BY <1>2 DEF Lines
  <1>. HIDE DEF n, m, s
  <1>4. \A i \in 1..n : [line |-> txt[i], marker |-> m] \in LineOf(T)
    BY <1>1, <1>2 DEF LineOf
  <1>5. s \in Seq(LineOf(T)) /\ Len(s) = n /\ DOMAIN s = 1..n
    BY <1>2, <1>3, <1>4
  <1>6. \A i \in 1..n : s[i].line = txt[i]
    BY <1>3
  <1>7. TextOf(s) = txt
    BY <1>2, <1>5, <1>6 DEF TextOf
  <1>. QED BY <1>5, <1>7 DEF s, n

(* A line of its own.                                                       *)
LEMMA OneIs ==
  ASSUME NEW T, NEW p \in T
  PROVE  \E l \in LineOf(T) : OneLine(p) = <<l>> /\ l.line = p
  <1>. DEFINE l == [line |-> p, marker |-> Marker(EmptyReview)]
              s == <<p>>
  <1>1. Marker(EmptyReview) \in Marks
    BY DEF Marker, EmptyReview, Marks
  <1>2. l \in LineOf(T) /\ l.line = p
    BY <1>1 DEF LineOf
  <1>3. DOMAIN s = 1..1 /\ \A i \in 1..1 : s[i] = p
    OBVIOUS
  <1>4. OneLine(p) = [i \in DOMAIN s |-> [line |-> s[i], marker |-> Marker(EmptyReview)]]
    BY DEF OneLine, Lines
  <1>. HIDE DEF s, l
  <1>5. OneLine(p) = [i \in 1..1 |-> l]
    BY <1>3, <1>4 DEF l
  <1>6. [i \in 1..1 |-> l] = <<l>>
    OBVIOUS
  <1>. QED BY <1>2, <1>5, <1>6

(* Lines stay lines where more texts are allowed.                           *)
LEMMA Wider ==
  ASSUME NEW T, NEW U, T \subseteq U, NEW s \in Seq(LineOf(T))
  PROVE  s \in Seq(LineOf(U))
  <1>1. LineOf(T) \subseteq LineOf(U)
    BY DEF LineOf
  <1>. QED BY <1>1, SeqMonotonic

LEMMA LinesIn ==
  ASSUME NEW T, NEW s \in Seq(LineOf(T))
  PROVE  \A i \in 1..Len(s) : s[i].line \in T
  <1>1. \A i \in 1..Len(s) : s[i] \in LineOf(T)
    OBVIOUS
  <1>. QED BY <1>1 DEF LineOf

(* Without its heading a section is empty.                                  *)
LEMMA NothingBetween ==
  ASSUME NEW T, NEW s \in Seq(LineOf(T)), NEW start, start \notin T, NEW stop
  PROVE  Between(s, start, stop) = <<>>
  <1>. DEFINE starts == {i \in DOMAIN s : s[i].line = start}
  <1>1. starts = {}
    BY LinesIn
  <1>. QED BY <1>1 DEF Between

(* BetweenParts with the lines of its parts told by their texts.            *)
LEMMA BetweenTexts ==
  ASSUME NEW U, NEW TA, NEW TB, TA \subseteq U, TB \subseteq U, NEW start \in U, NEW stop,
         start \notin TA, stop \cap TB = {},
         NEW A \in Seq(LineOf(TA)), NEW l \in LineOf(U), l.line = start,
         NEW B \in Seq(LineOf(TB)), NEW C \in Seq(LineOf(U)), C # <<>> => C[1].line \in stop
  PROVE  Between(((A \o <<l>>) \o B) \o C, start, stop) = B
  <1>1. A \in Seq(LineOf(U)) /\ B \in Seq(LineOf(U))
    BY Wider
  <1>2. \A i \in 1..Len(A) : A[i].line # start
    BY LinesIn
  <1>3. \A i \in 1..Len(B) : B[i].line \notin stop
    BY LinesIn
  <1>. QED BY <1>1, <1>2, <1>3, BetweenParts

(* A completed form in which the reviewer used none of its markers.         *)
Filled(r) == /\ r.decision \in {"approved", "changes_requested", "rejected"} /\ r.verifiability \in {0, 5}
             /\ r.runtime \in {"", "too_long"} /\ \A t \in Texts : r.text[t] \in Seq(Unmarked)

(* The verdict on verification comes back without the score and the padding.*)
VText == Safe \cup {"Verifiability: 5/5", "padding", "Not rated"}

(* The placeholder reads as nothing.                                        *)
LEMMA NothingRated == EvaluationOf(<<"Not rated">>) = <<>>
  <1>1. <<"Not rated">> # <<>> /\ <<"Not rated">>[1] = "Not rated"
    OBVIOUS
  <1>. QED BY <1>1 DEF EvaluationOf

(* Where each element of e stands between the two parts it is framed by.    *)
FramedBy(full, score, e, tail, S) ==
  /\ full \in Seq(S) /\ Len(full) = Len(score) + Len(e) + Len(tail)
  /\ \A k \in 1..Len(e) : full[Len(score) + k] = e[k]
  /\ \A k \in DOMAIN full : k \notin (Len(score) + 1)..(Len(score) + Len(e)) =>
       \/ \E j \in 1..Len(score) : full[k] = score[j]
       \/ \E j \in 1..Len(tail) : full[k] = tail[j]

(* Three joined parts stand so.                                             *)
LEMMA Framed ==
  ASSUME NEW S, NEW score \in Seq(S), NEW e \in Seq(S), NEW tail \in Seq(S),
         NEW full, full = (score \o e) \o tail
  PROVE  FramedBy(full, score, e, tail, S)
  <1>. DEFINE D == score \o e
              a == Len(score)
              m == Len(e)
              z == Len(tail)
  <1>1. a \in Nat /\ m \in Nat /\ z \in Nat
    BY LenProperties
  <1>2. /\ D \in Seq(S) /\ Len(D) = a + m
        /\ \A i \in 1..a + m : D[i] = IF i <= a THEN score[i] ELSE e[i - a]
    BY ConcatProperties
  <1>2a. D \in Seq(S)
    BY <1>2
  <1>. HIDE DEF D
  <1>3. /\ D \o tail \in Seq(S) /\ Len(D \o tail) = Len(D) + z
        /\ \A i \in 1..Len(D) + z : (D \o tail)[i] = IF i <= Len(D) THEN D[i] ELSE tail[i - Len(D)]
    BY <1>2a, ConcatProperties
  <1>4. full = D \o tail
    BY DEF D
  <1>5. DOMAIN full = 1..Len(full)
    BY <1>3, <1>4, LenProperties
  <1>6. /\ full \in Seq(S) /\ Len(full) = a + m + z /\ DOMAIN full = 1..(a + m + z)
        /\ \A i \in 1..(a + m + z) : full[i] = IF i <= a + m THEN D[i] ELSE tail[i - (a + m)]
    BY <1>2, <1>3, <1>4, <1>5
  <1>. HIDE DEF a, m, z
  <1>7. ASSUME NEW k \in 1..m PROVE full[a + k] = e[k]
    <2>1. a + k \in 1..(a + m + z) /\ a + k \in 1..a + m /\ a + k <= a + m /\ ~(a + k <= a) /\ (a + k) - a = k
      BY <1>1
    <2>. QED BY <1>2, <1>6, <2>1
  <1>8. ASSUME NEW k \in DOMAIN full, k \notin (a + 1)..(a + m)
        PROVE  (\E j \in 1..a : full[k] = score[j]) \/ (\E j \in 1..z : full[k] = tail[j])
    <2>1. CASE k <= a
      <3>1. k \in 1..a /\ k \in 1..(a + m) /\ k \in 1..(a + m + z) /\ k <= a + m
        BY <1>1, <1>6, <2>1
      <3>. QED BY <1>2, <1>6, <2>1, <3>1
    <2>2. CASE ~(k <= a)
      <3>1. k \in 1..(a + m + z) /\ ~(k <= a + m) /\ k - (a + m) \in 1..z
        BY <1>1, <1>6, <1>8, <2>2
      <3>. QED BY <1>6, <3>1
    <2>. QED BY <2>1, <2>2
  <1>. QED BY <1>6, <1>7, <1>8 DEF a, m, z, FramedBy

(* A filter that rejects the frame keeps the middle.                        *)
LEMMA KeptMiddle ==
  ASSUME NEW S, NEW full \in Seq(S), NEW e \in Seq(S), NEW a \in Nat, a + Len(e) <= Len(full),
         \A k \in 1..Len(e) : full[a + k] = e[k]
  PROVE  KeptAt(full, (a + 1)..(a + Len(e))) = e
  <1>. DEFINE m == Len(e)
  <1>1. m \in Nat /\ e \in [1..m -> S]
    BY LenProperties
  <1>2. KeptAt(full, (a + 1)..(a + m)) = [k \in 1..m |-> full[a + k]]
    BY <1>1, KeptInterval
  <1>3. e = [k \in 1..m |-> e[k]]
    BY <1>1
  <1>. QED BY <1>2, <1>3

Padding == {"padding", "Verifiability: 5/5"}
ScoreOnly == {"Verifiability: 5/5"}
PaddingOnly == {"padding"}

(* The sentences kept are the ones between the score and the padding.       *)
LEMMA EvaluationKept ==
  ASSUME NEW score \in Seq(ScoreOnly), NEW e \in Seq(Safe), NEW tail \in Seq(PaddingOnly),
         NEW full, full = (score \o e) \o tail, full # <<>>
  PROVE  full \in Seq(VText) /\ EvaluationOf(full) = e
  <1>. DEFINE T == Safe \cup Padding
              I == {i \in DOMAIN full : full[i] \notin Padding}
              a == Len(score)
              m == Len(e)
  <1>1. score \in Seq(T) /\ e \in Seq(T) /\ tail \in Seq(T) /\ score \in Seq(Padding) /\ tail \in Seq(Padding)
    <2>1. ScoreOnly \subseteq Padding /\ PaddingOnly \subseteq Padding
      BY DEF Padding, ScoreOnly, PaddingOnly
    <2>2. ScoreOnly \subseteq T /\ PaddingOnly \subseteq T /\ Safe \subseteq T
      BY <2>1
    <2>. HIDE DEF T
    <2>. QED BY <2>1, <2>2, SeqMonotonic
  <1>2. T \subseteq VText /\ "Not rated" \notin T /\ Safe \cap Padding = {}
    BY DEF VText, Safe, Padding
  <1>3. EvaluationOf(full) = IF full # <<>> /\ full[1] = "Not rated" THEN <<>> ELSE KeptAt(full, I)
    BY DEF EvaluationOf, Padding
  <1>1a. score \in Seq(T) /\ e \in Seq(T) /\ tail \in Seq(T)
    BY <1>1
  <1>. HIDE DEF T, a, m
  <1>f. FramedBy(full, score, e, tail, T)
    BY <1>1a, Framed
  <1>4. /\ full \in Seq(T) /\ Len(full) = a + m + Len(tail)
        /\ \A k \in 1..m : full[a + k] = e[k]
        /\ \A k \in DOMAIN full : k \notin (a + 1)..(a + m) =>
             (\E j \in 1..a : full[k] = score[j]) \/ (\E j \in 1..Len(tail) : full[k] = tail[j])
    BY <1>f DEF a, m, FramedBy
  <1>5. a \in Nat /\ m \in Nat /\ Len(tail) \in Nat
    BY LenProperties DEF a, m
  <1>6. \A k \in DOMAIN full : k \notin (a + 1)..(a + m) => full[k] \in Padding
    <2>1. \A j \in 1..a : score[j] \in Padding
      BY <1>1, ElementOfSeq DEF a
    <2>2. \A j \in 1..Len(tail) : tail[j] \in Padding
      BY <1>1, ElementOfSeq
    <2>. QED BY <1>4, <2>1, <2>2
  <1>7. \A i \in (a + 1)..(a + m) : full[i] \in Safe
    <2>. SUFFICES ASSUME NEW i \in (a + 1)..(a + m) PROVE full[i] \in Safe
      OBVIOUS
    <2>1. i - a \in 1..m /\ a + (i - a) = i
      BY <1>5
    <2>2. e[i - a] \in Safe
      BY <2>1, ElementOfSeq DEF m
    <2>. QED BY <1>4, <2>1, <2>2
  <1>8. DOMAIN full = 1..Len(full) /\ Len(full) \in Nat
    BY <1>4, LenProperties
  <1>9. (a + 1)..(a + m) \subseteq DOMAIN full /\ a + m <= Len(full)
    BY <1>4, <1>5, <1>8
  <1>10. I = (a + 1)..(a + m)
    BY <1>2, <1>6, <1>7, <1>9
  <1>11. KeptAt(full, (a + 1)..(a + m)) = e
    BY <1>1a, <1>4, <1>5, <1>9, KeptMiddle DEF m
  <1>13. full[1] # "Not rated"
    <2>1. 1 \in 1..Len(full)
      BY <1>4, <1>8
    <2>2. full[1] \in T
      BY <1>4, <2>1, ElementOfSeq
    <2>. QED BY <1>2, <2>2
  <1>14. full \in Seq(VText)
    BY <1>2, <1>4, SeqMonotonic
  <1>. HIDE DEF I
  <1>. QED BY <1>3, <1>10, <1>11, <1>13, <1>14

(* isPlaceholder and the filter undo toV1Payload's scores and padding.      *)
LEMMA VerificationReads ==
  ASSUME NEW r, Filled(r)
  PROVE  /\ Verification(r) \in Seq(VText)
         /\ Unescaped(EvaluationOf(Verification(r))) = r.text["evaluation"]
  <1>. DEFINE e == SafeText(r.text["evaluation"])
              score == IF r.verifiability # 0 THEN <<"Verifiability: 5/5">> ELSE <<>>
              said == score \o e
  <1>1. e \in Seq(Safe) /\ Unescaped(e) = r.text["evaluation"]
    BY SafeIs DEF Filled, Texts
  <1>2. score \in Seq(ScoreOnly)
    <2>1. <<"Verifiability: 5/5">> \in Seq(ScoreOnly)
      BY DEF ScoreOnly
    <2>2. <<>> \in Seq(ScoreOnly)
      BY EmptySeq
    <2>. QED BY <2>1, <2>2
  <1>3. score \in Seq(VText) /\ e \in Seq(VText)
    <2>. HIDE DEF e, score
    <2>1. Safe \subseteq VText /\ ScoreOnly \subseteq VText
      BY DEF VText, ScoreOnly
    <2>. QED BY <1>1, <1>2, <2>1, SeqMonotonic
  <1>4. Verification(r) = CASE said = <<>> -> <<"Not rated">>
                            [] said # <<>> /\ \A i \in DOMAIN said : said[i] = "short" -> Append(said, "padding")
                            [] OTHER -> said
    BY DEF Verification
  <1>. HIDE DEF e, score
  <1>5. said \in Seq(VText) /\ (said = <<>> => e = <<>>)
    BY <1>3, ConcatProperties, ConcatEqualIffEmpty
  <1>11. CASE said = <<>>
    <2>3. Verification(r) = <<"Not rated">>
      BY <1>4, <1>11
    <2>4. <<"Not rated">> \in Seq(VText)
      BY DEF VText
    <2>. QED BY <1>1, <1>5, <1>11, <2>3, <2>4, NothingRated
  <1>12. CASE said # <<>> /\ \A i \in DOMAIN said : said[i] = "short"
    <2>1. Verification(r) = Append(said, "padding")
      BY <1>4, <1>12
    <2>2. Append(said, "padding") = said \o <<"padding">>
      <3>. HIDE DEF said
      <3>1. "padding" \in VText
        BY DEF VText
      <3>. QED BY <1>5, <3>1, AppendIsConcat
    <2>3. <<"padding">> \in Seq(PaddingOnly)
      BY DEF PaddingOnly
    <2>4. said \o <<"padding">> # <<>>
      <3>1. <<"padding">> \in Seq(VText)
        BY DEF VText
      <3>. HIDE DEF said
      <3>. QED BY <1>5, <1>12, <3>1, ConcatEqualIffEmpty
    <2>. QED BY <1>1, <1>2, <2>1, <2>2, <2>3, <2>4, EvaluationKept
  <1>13. CASE said # <<>> /\ ~ \A i \in DOMAIN said : said[i] = "short"
    <2>1. Verification(r) = said
      BY <1>4, <1>13
    <2>2. said = said \o <<>>
      <3>. HIDE DEF said
      <3>. QED BY <1>5, ConcatEmptySeq
    <2>3. <<>> \in Seq(PaddingOnly)
      BY EmptySeq
    <2>. QED BY <1>1, <1>2, <1>13, <2>1, <2>2, <2>3, EvaluationKept
  <1>. QED BY <1>11, <1>12, <1>13

GeneralLabel == "**General comments**"
EnvironmentLabel == "**Environment and resources**"
ScoreText == {"**Scores**", "table"}
EnvironmentText == Safe \cup {EnvironmentLabel, "Runtime estimate: too_long"}
NoteText == Safe \cup ScoreText \cup EnvironmentText \cup {GeneralLabel}
AnyText == NoteText \cup VText \cup Headings \cup Labels \cup {"Decision: approved", "Decision: changes_requested", "Decision: rejected"}
AnyLine == LineOf(AnyText)

(* The parts of the notes.                                                  *)
ScoreLines(r) == IF r.verifiability # 0 THEN Lines(<<"**Scores**", "table">>) ELSE <<>>
GeneralLines(r) == Lines(SafeText(r.text["general"]))
RuntimeLine(r) == IF r.runtime # "" THEN OneLine("Runtime estimate: too_long") ELSE <<>>
EnvironmentLines(r) == Lines(SafeText(r.text["environment"]))
HasEnvironment(r) == r.text["environment"] # <<>> \/ r.runtime # ""
EnvironmentPart(r) ==
  IF HasEnvironment(r) THEN (OneLine(EnvironmentLabel) \o RuntimeLine(r)) \o EnvironmentLines(r) ELSE <<>>
MarkLine(r) == [line |-> "marker", marker |-> Marker(r)]
NoteLines(r) == ((ScoreLines(r) \o OneLine(GeneralLabel)) \o GeneralLines(r)) \o EnvironmentPart(r)

(* The notes are the lines for the reader, then the marker.                 *)
LEMMA NotesAre == ASSUME NEW r PROVE Notes(r) = NoteLines(r) \o <<MarkLine(r)>>
  BY DEF Notes, NoteLines, MarkLine, EnvironmentPart, HasEnvironment, EnvironmentLines, RuntimeLine, GeneralLines,
         ScoreLines, GeneralLabel, EnvironmentLabel

LEMMA Joined ==
  ASSUME NEW T, NEW s \in Seq(LineOf(T)), NEW t \in Seq(LineOf(T))
  PROVE  s \o t \in Seq(LineOf(T))
  BY ConcatProperties

(* The texts of each part of the notes, apart where the parser looks.       *)
LEMMA TextsOfNotes ==
  /\ Safe \subseteq EnvironmentText /\ EnvironmentText \subseteq NoteText /\ Safe \subseteq NoteText
  /\ ScoreText \subseteq NoteText /\ GeneralLabel \in NoteText
  /\ EnvironmentLabel \in EnvironmentText /\ "Runtime estimate: too_long" \in EnvironmentText
  /\ NoteText \subseteq AnyText /\ Safe \subseteq AnyText /\ ScoreText \subseteq AnyText /\ VText \subseteq AnyText
  /\ "marker" \in AnyText /\ "marker" \notin NoteText /\ "marker" \notin VText
  /\ GeneralLabel \in AnyText /\ EnvironmentLabel \in AnyText
  /\ GeneralLabel \in Labels /\ EnvironmentLabel \in Labels /\ "marker" \in Labels
  /\ Labels \cap Safe = {} /\ GeneralLabel \notin ScoreText /\ EnvironmentLabel \notin ScoreText
  /\ EnvironmentLabel # GeneralLabel
  /\ Headings \cap NoteText = {} /\ Headings \cap VText = {} /\ "marker" \notin Headings
  BY DEF EnvironmentText, NoteText, AnyText, ScoreText, Labels, Headings, VText, Safe, GeneralLabel, EnvironmentLabel

LEMMA PartsAre ==
  ASSUME NEW r, Filled(r)
  PROVE  /\ ScoreLines(r) \in Seq(LineOf(ScoreText))
         /\ GeneralLines(r) \in Seq(LineOf(Safe)) /\ TextOf(GeneralLines(r)) = SafeText(r.text["general"])
         /\ EnvironmentLines(r) \in Seq(LineOf(Safe)) /\ TextOf(EnvironmentLines(r)) = SafeText(r.text["environment"])
         /\ RuntimeLine(r) \in Seq(LineOf({"Runtime estimate: too_long"}))
         /\ MarkLine(r) \in LineOf({"marker"})
  <1>1. ScoreLines(r) \in Seq(LineOf(ScoreText))
    <2>1. <<"**Scores**", "table">> \in Seq(ScoreText)
      BY DEF ScoreText
    <2>2. <<>> \in Seq(LineOf(ScoreText))
      BY EmptySeq
    <2>. QED BY <2>1, <2>2, LinesAre DEF ScoreLines
  <1>2. r.text["general"] \in Seq(Unmarked) /\ r.text["environment"] \in Seq(Unmarked)
    BY DEF Filled, Texts
  <1>3. SafeText(r.text["general"]) \in Seq(Safe) /\ SafeText(r.text["environment"]) \in Seq(Safe)
    BY <1>2, SafeIs
  <1>4. RuntimeLine(r) \in Seq(LineOf({"Runtime estimate: too_long"}))
    <2>. DEFINE T == {"Runtime estimate: too_long"}
    <2>1. <<"Runtime estimate: too_long">> \in Seq(T)
      OBVIOUS
    <2>2. <<>> \in Seq(LineOf(T))
      BY EmptySeq
    <2>. HIDE DEF T
    <2>3. RuntimeLine(r) \in Seq(LineOf(T))
      BY <2>1, <2>2, LinesAre DEF RuntimeLine, OneLine
    <2>. QED BY <2>3 DEF T
  <1>5. MarkLine(r) \in LineOf({"marker"})
    BY DEF MarkLine, Marker, LineOf, Marks, Filled
  <1>. QED BY <1>1, <1>3, <1>4, <1>5, LinesAre DEF GeneralLines, EnvironmentLines

(* The environment block begins with its label, if it is there.             *)
LEMMA EnvironmentPartIs ==
  ASSUME NEW r, Filled(r)
  PROVE  /\ EnvironmentPart(r) \in Seq(LineOf(EnvironmentText))
         /\ EnvironmentPart(r) # <<>> => EnvironmentPart(r)[1].line = EnvironmentLabel
         /\ RuntimeLine(r) \o EnvironmentLines(r) \in Seq(LineOf(EnvironmentText \ {EnvironmentLabel}))
         /\ \E l \in LineOf(EnvironmentText) :
              /\ l.line = EnvironmentLabel
              /\ HasEnvironment(r) => EnvironmentPart(r) = <<l>> \o (RuntimeLine(r) \o EnvironmentLines(r))
  <1>. DEFINE S == LineOf(EnvironmentText)
              N == EnvironmentText \ {EnvironmentLabel}
              rt == RuntimeLine(r)
              el == EnvironmentLines(r)
  <1>1. PICK l \in S : OneLine(EnvironmentLabel) = <<l>> /\ l.line = EnvironmentLabel
    BY TextsOfNotes, OneIs
  <1>2. {"Runtime estimate: too_long"} \subseteq N /\ Safe \subseteq N /\ N \subseteq EnvironmentText
    BY DEF EnvironmentText, EnvironmentLabel, Safe
  <1>. HIDE DEF S, N
  <1>3. rt \in Seq(LineOf(N)) /\ el \in Seq(LineOf(N))
    BY <1>2, PartsAre, Wider
  <1>. HIDE DEF rt, el
  <1>4. rt \in Seq(S) /\ el \in Seq(S)
    BY <1>2, <1>3, Wider DEF S
  <1>5. rt \o el \in Seq(LineOf(N))
    BY <1>3, Joined
  <1>6. rt \o el \in Seq(S)
    BY <1>2, <1>5, Wider DEF S
  <1>7. <<l>> \in Seq(S) /\ Len(<<l>>) = 1 /\ <<l>>[1] = l
    OBVIOUS
  <1>8. (<<l>> \o rt) \o el = <<l>> \o (rt \o el)
    <2>. DEFINE o == <<l>>
    <2>1. o \in Seq(S)
      BY <1>7
    <2>. HIDE DEF o
    <2>2. (o \o rt) \o el = o \o (rt \o el)
      BY <1>4, <2>1, ConcatAssociative
    <2>. QED BY <2>2 DEF o
  <1>9. CASE HasEnvironment(r)
    <2>1. EnvironmentPart(r) = <<l>> \o (rt \o el)
      BY <1>1, <1>8, <1>9 DEF EnvironmentPart, rt, el
    <2>. DEFINE o == <<l>>
                x == rt \o el
    <2>2. o \in Seq(S) /\ Len(o) = 1 /\ o[1] = l /\ x \in Seq(S)
      BY <1>6, <1>7
    <2>3. o \in Seq(S) /\ x \in Seq(S)
      BY <2>2
    <2>. HIDE DEF o, x
    <2>4. /\ o \o x \in Seq(S) /\ Len(o \o x) = Len(o) + Len(x)
          /\ \A i \in 1..Len(o) + Len(x) : (o \o x)[i] = IF i <= Len(o) THEN o[i] ELSE x[i - Len(o)]
      BY <2>3, ConcatProperties
    <2>5. Len(x) \in Nat
      BY <2>3, LenProperties
    <2>6. (o \o x)[1] = l
      BY <2>2, <2>4, <2>5
    <2>7. EnvironmentPart(r) = o \o x
      BY <2>1 DEF o, x
    <2>. QED BY <1>1, <1>5, <2>1, <2>4, <2>6, <2>7 DEF S, N, rt, el
  <1>10. CASE ~HasEnvironment(r)
    <2>1. EnvironmentPart(r) = <<>>
      BY <1>10 DEF EnvironmentPart
    <2>2. <<>> \in Seq(S)
      BY EmptySeq
    <2>. QED BY <1>1, <1>5, <1>10, <2>1, <2>2 DEF S, N, rt, el
  <1>. QED BY <1>9, <1>10

LEMMA NoteLinesAre == ASSUME NEW r, Filled(r) PROVE NoteLines(r) \in Seq(LineOf(NoteText))
  <1>1. PICK l \in LineOf(NoteText) : OneLine(GeneralLabel) = <<l>>
    BY TextsOfNotes, OneIs
  <1>2. <<l>> \in Seq(LineOf(NoteText))
    OBVIOUS
  <1>3. /\ ScoreLines(r) \in Seq(LineOf(NoteText)) /\ GeneralLines(r) \in Seq(LineOf(NoteText))
        /\ EnvironmentPart(r) \in Seq(LineOf(NoteText))
    BY TextsOfNotes, PartsAre, EnvironmentPartIs, Wider
  <1>4. ScoreLines(r) \o OneLine(GeneralLabel) \in Seq(LineOf(NoteText))
    BY <1>1, <1>2, <1>3, Joined
  <1>5. (ScoreLines(r) \o OneLine(GeneralLabel)) \o GeneralLines(r) \in Seq(LineOf(NoteText))
    BY <1>3, <1>4, Joined
  <1>. QED BY <1>3, <1>5, Joined DEF NoteLines

(* All parts of the notes are lines of a reply.                             *)
LEMMA AnyNotes ==
  ASSUME NEW r, Filled(r)
  PROVE  /\ NoteLines(r) \in Seq(AnyLine) /\ MarkLine(r) \in AnyLine /\ <<MarkLine(r)>> \in Seq(AnyLine)
         /\ ScoreLines(r) \in Seq(AnyLine) /\ GeneralLines(r) \in Seq(AnyLine)
         /\ EnvironmentPart(r) \in Seq(AnyLine)
         /\ Notes(r) \in Seq(AnyLine) /\ Notes(r) \in Seq(LineOf(NoteText \cup {"marker"}))
  <1>1. MarkLine(r) \in AnyLine
    <2>1. LineOf({"marker"}) \subseteq AnyLine
      BY TextsOfNotes DEF LineOf, AnyLine
    <2>. QED BY <2>1, PartsAre
  <1>2. <<MarkLine(r)>> \in Seq(AnyLine)
    BY <1>1
  <1>3. /\ NoteLines(r) \in Seq(AnyLine) /\ ScoreLines(r) \in Seq(AnyLine) /\ GeneralLines(r) \in Seq(AnyLine)
    BY TextsOfNotes, PartsAre, NoteLinesAre, Wider DEF AnyLine
  <1>4. EnvironmentPart(r) \in Seq(AnyLine)
    <2>1. EnvironmentText \subseteq AnyText
      BY TextsOfNotes
    <2>. QED BY <2>1, EnvironmentPartIs, Wider DEF AnyLine
  <1>5. Notes(r) \in Seq(AnyLine)
    BY <1>2, <1>3, NotesAre, Joined DEF AnyLine
  <1>6. Notes(r) \in Seq(LineOf(NoteText \cup {"marker"}))
    <2>. DEFINE T == NoteText \cup {"marker"}
    <2>1. NoteText \subseteq T /\ {"marker"} \subseteq T
      OBVIOUS
    <2>. HIDE DEF T
    <2>2. LineOf({"marker"}) \subseteq LineOf(T)
      BY <2>1 DEF LineOf
    <2>3. MarkLine(r) \in LineOf(T)
      BY <2>2, PartsAre
    <2>4. <<MarkLine(r)>> \in Seq(LineOf(T))
      BY <2>3
    <2>5. NoteLines(r) \in Seq(LineOf(T))
      BY <2>1, NoteLinesAre, Wider
    <2>6. Notes(r) \in Seq(LineOf(T))
      BY <2>4, <2>5, NotesAre, Joined
    <2>. QED BY <2>6 DEF T
  <1>. QED BY <1>1, <1>2, <1>3, <1>4, <1>5, <1>6

(* The first of two joined sequences that is not empty begins them.         *)
LEMMA Begins ==
  ASSUME NEW S, NEW s \in Seq(S), NEW t \in Seq(S), s \o t # <<>>
  PROVE  (s \o t)[1] = IF s # <<>> THEN s[1] ELSE t[1]
  <1>1. CASE s = <<>>
    BY <1>1, ConcatEmptySeq
  <1>2. CASE s # <<>>
    <2>1. Len(s) \in Nat \ {0} /\ Len(t) \in Nat
      BY <1>2, EmptySeq, LenProperties
    <2>2. \A i \in 1..Len(s) + Len(t) : (s \o t)[i] = IF i <= Len(s) THEN s[i] ELSE t[i - Len(s)]
      BY ConcatProperties
    <2>3. 1 \in 1..Len(s) + Len(t) /\ 1 <= Len(s)
      BY <2>1
    <2>. QED BY <1>2, <2>2, <2>3
  <1>. QED BY <1>1, <1>2

(* block finds the general comments.                                        *)
LEMMA GeneralReads ==
  ASSUME NEW r, Filled(r) PROVE Block(Notes(r), GeneralLabel) = GeneralLines(r)
  <1>. DEFINE s == ScoreLines(r)
              g == GeneralLines(r)
              e == EnvironmentPart(r)
              m == <<MarkLine(r)>>
              c == e \o m
  <1>1. PICK l \in AnyLine : OneLine(GeneralLabel) = <<l>> /\ l.line = GeneralLabel
    BY TextsOfNotes, OneIs DEF AnyLine
  <1>. DEFINE a == (s \o <<l>>) \o g
  <1>2. s \in Seq(AnyLine) /\ g \in Seq(AnyLine) /\ e \in Seq(AnyLine) /\ m \in Seq(AnyLine)
    BY AnyNotes
  <1>3. <<l>> \in Seq(AnyLine)
    OBVIOUS
  <1>4. Notes(r) = (a \o e) \o m
    BY <1>1, NotesAre DEF NoteLines
  <1>5. c # <<>> => c[1].line \in Labels
    <2>1. m # <<>> /\ m[1] = MarkLine(r) /\ MarkLine(r).line = "marker"
      BY DEF MarkLine
    <2>2. e # <<>> => e[1].line = EnvironmentLabel
      BY EnvironmentPartIs
    <2>. HIDE DEF e, m
    <2>3. c # <<>> => c[1] = IF e # <<>> THEN e[1] ELSE m[1]
      BY <1>2, Begins
    <2>. HIDE DEF c
    <2>. QED BY <2>1, <2>2, <2>3, TextsOfNotes
  <1>. HIDE DEF s, g, e, m
  <1>6. a \in Seq(AnyLine)
    <2>1. s \o <<l>> \in Seq(AnyLine)
      BY <1>2, <1>3, ConcatProperties
    <2>. QED BY <1>2, <2>1, ConcatProperties
  <1>7. (a \o e) \o m = a \o c
    <2>1. a \in Seq(AnyLine) /\ e \in Seq(AnyLine) /\ m \in Seq(AnyLine)
      BY <1>2, <1>6
    <2>. HIDE DEF a
    <2>2. (a \o e) \o m = a \o (e \o m)
      BY <2>1, ConcatAssociative
    <2>. QED BY <2>2
  <1>8. c \in Seq(AnyLine)
    BY <1>2, ConcatProperties
  <1>. HIDE DEF c
  <1>9. Between(((s \o <<l>>) \o g) \o c, GeneralLabel, Labels) = g
    <2>1. ScoreText \subseteq AnyText /\ Safe \subseteq AnyText /\ GeneralLabel \in AnyText
          /\ GeneralLabel \notin ScoreText /\ Labels \cap Safe = {}
      BY TextsOfNotes
    <2>2. s \in Seq(LineOf(ScoreText)) /\ g \in Seq(LineOf(Safe)) /\ l \in LineOf(AnyText) /\ c \in Seq(LineOf(AnyText))
      BY <1>8, PartsAre DEF s, g, AnyLine
    <2>. QED BY <1>1, <1>5, <2>1, <2>2, BetweenTexts
  <1>. QED BY <1>4, <1>7, <1>9 DEF Block, g

(* block finds the environment comments, or none.                           *)
LEMMA EnvironmentBlock ==
  ASSUME NEW r, Filled(r)
  PROVE  Block(Notes(r), EnvironmentLabel)
           = IF HasEnvironment(r) THEN RuntimeLine(r) \o EnvironmentLines(r) ELSE <<>>
  <1>. DEFINE a == (ScoreLines(r) \o OneLine(GeneralLabel)) \o GeneralLines(r)
              b == RuntimeLine(r) \o EnvironmentLines(r)
              m == <<MarkLine(r)>>
              T == AnyText \ {EnvironmentLabel}
  <1>1. PICK g \in LineOf(T) : OneLine(GeneralLabel) = <<g>> /\ g.line = GeneralLabel
    <2>1. GeneralLabel \in T
      BY TextsOfNotes
    <2>. HIDE DEF T
    <2>. QED BY <2>1, OneIs
  <1>2. <<g>> \in Seq(LineOf(T))
    OBVIOUS
  <1>0. T \subseteq AnyText /\ EnvironmentLabel \notin T
    OBVIOUS
  <1>3. ScoreText \subseteq T /\ Safe \subseteq T /\ "marker" \in T
    BY TextsOfNotes DEF Labels, EnvironmentLabel
  <1>. HIDE DEF T
  <1>4. ScoreLines(r) \in Seq(LineOf(T)) /\ GeneralLines(r) \in Seq(LineOf(T))
    BY <1>3, PartsAre, Wider
  <1>5. a \in Seq(LineOf(T))
    <2>1. ScoreLines(r) \o OneLine(GeneralLabel) \in Seq(LineOf(T))
      BY <1>1, <1>2, <1>4, Joined
    <2>. QED BY <1>4, <2>1, Joined
  <1>6. Notes(r) = (a \o EnvironmentPart(r)) \o m
    BY NotesAre DEF NoteLines
  <1>7. m \in Seq(LineOf(T)) /\ m # <<>> /\ m[1].line = "marker"
    <2>1. LineOf({"marker"}) \subseteq LineOf(T)
      BY <1>3 DEF LineOf
    <2>2. MarkLine(r) \in LineOf(T) /\ MarkLine(r).line = "marker"
      BY <2>1, PartsAre DEF MarkLine
    <2>. QED BY <2>2
  <1>. HIDE DEF a, m
  <1>8. CASE HasEnvironment(r)
    <2>1. PICK l \in LineOf(EnvironmentText) : l.line = EnvironmentLabel /\ EnvironmentPart(r) = <<l>> \o b
      BY <1>8, EnvironmentPartIs
    <2>. DEFINE o == <<l>>
                N == EnvironmentText \ {EnvironmentLabel}
    <2>2. l \in LineOf(AnyText)
      <3>1. LineOf(EnvironmentText) \subseteq LineOf(AnyText)
        BY TextsOfNotes DEF LineOf
      <3>. QED BY <3>1
    <2>3. o \in Seq(LineOf(AnyText))
      BY <2>2
    <2>4. N \subseteq AnyText /\ Labels \cap N = {}
      <3>1. Labels \cap EnvironmentText = {EnvironmentLabel}
        BY TextsOfNotes DEF EnvironmentText, EnvironmentLabel, Labels
      <3>. QED BY <3>1, TextsOfNotes
    <2>5. b \in Seq(LineOf(N))
      BY EnvironmentPartIs
    <2>. HIDE DEF o, N, b
    <2>6. a \in Seq(LineOf(AnyText)) /\ m \in Seq(LineOf(AnyText)) /\ b \in Seq(LineOf(AnyText))
      BY <1>0, <1>5, <1>7, <2>4, <2>5, Wider
    <2>7. a \o (o \o b) = (a \o o) \o b
      BY <2>3, <2>6, ConcatAssociative
    <2>8. Between(((a \o <<l>>) \o b) \o m, EnvironmentLabel, Labels) = b
      <3>1. "marker" \in Labels /\ EnvironmentLabel \in AnyText
        BY TextsOfNotes
      <3>. QED BY <1>0, <1>5, <1>7, <2>1, <2>2, <2>4, <2>5, <2>6, <3>1, BetweenTexts
    <2>. QED BY <1>6, <1>8, <2>1, <2>7, <2>8 DEF Block, o, b
  <1>9. CASE ~HasEnvironment(r)
    <2>1. EnvironmentPart(r) = <<>>
      BY <1>9 DEF EnvironmentPart
    <2>2. a \o <<>> = a
      BY <1>5, ConcatEmptySeq
    <2>3. Notes(r) \in Seq(LineOf(T))
      BY <1>5, <1>6, <1>7, <2>1, <2>2, Joined
    <2>4. Between(Notes(r), EnvironmentLabel, Labels) = <<>>
      BY <1>0, <2>3, NothingBetween
    <2>. QED BY <1>9, <2>4 DEF Block
  <1>. QED BY <1>8, <1>9

(* The text of joined lines is the joined text.                             *)
LEMMA TextsJoin ==
  ASSUME NEW T, NEW s \in Seq(LineOf(T)), NEW t \in Seq(LineOf(T))
  PROVE  TextOf(s \o t) = TextOf(s) \o TextOf(t)
  <1>. DEFINE S == LineOf(T)
              n == Len(s)
              m == Len(t)
              st == s \o t
              a == TextOf(s)
              b == TextOf(t)
  <1>1. n \in Nat /\ m \in Nat /\ DOMAIN s = 1..n /\ DOMAIN t = 1..m
    BY LenProperties
  <1>2. /\ st \in Seq(S) /\ Len(st) = n + m
        /\ \A i \in 1..n + m : st[i] = IF i <= n THEN s[i] ELSE t[i - n]
    BY ConcatProperties
  <1>3. DOMAIN st = 1..(n + m)
    BY <1>2, LenProperties
  <1>4. a = [i \in 1..n |-> s[i].line] /\ b = [i \in 1..m |-> t[i].line]
        /\ TextOf(st) = [i \in 1..(n + m) |-> st[i].line]
    BY <1>1, <1>3 DEF TextOf
  <1>5. (\A i \in 1..n : s[i].line \in T) /\ \A i \in 1..m : t[i].line \in T
    BY LinesIn
  <1>. HIDE DEF n, m, st, a, b
  <1>6. a \in Seq(T) /\ b \in Seq(T) /\ Len(a) = n /\ Len(b) = m
    BY <1>1, <1>4, <1>5
  <1>7. /\ a \o b \in Seq(T) /\ Len(a \o b) = Len(a) + Len(b)
        /\ \A i \in 1..Len(a) + Len(b) : (a \o b)[i] = IF i <= Len(a) THEN a[i] ELSE b[i - Len(a)]
    BY <1>6, ConcatProperties
  <1>8. \A i \in 1..(n + m) : st[i].line = (a \o b)[i]
    <2>. SUFFICES ASSUME NEW i \in 1..(n + m) PROVE st[i].line = (a \o b)[i]
      OBVIOUS
    <2>1. CASE i <= n
      <3>1. i \in 1..n
        BY <1>1, <2>1
      <3>. QED BY <1>2, <1>4, <1>6, <1>7, <2>1, <3>1
    <2>2. CASE ~(i <= n)
      <3>1. i - n \in 1..m /\ i \in 1..n + m /\ i \in 1..Len(a) + Len(b) /\ ~(i <= Len(a)) /\ i - Len(a) = i - n
        BY <1>1, <1>6, <2>2
      <3>2. st[i] = t[i - n] /\ (a \o b)[i] = b[i - n]
        BY <1>2, <1>7, <2>2, <3>1
      <3>. QED BY <1>4, <3>1, <3>2
    <2>. QED BY <2>1, <2>2
  <1>9. TextOf(st) \in Seq(T) /\ Len(TextOf(st)) = n + m
    <2>1. \A i \in 1..(n + m) : (a \o b)[i] \in T
      BY <1>6, <1>7, ElementOfSeq
    <2>2. \A i \in 1..(n + m) : st[i].line \in T
      BY <1>8, <2>1
    <2>3. n + m \in Nat
      BY <1>1
    <2>. DEFINE z == n + m
    <2>4. TextOf(st) = [i \in 1..z |-> st[i].line] /\ z \in Nat /\ \A i \in 1..z : st[i].line \in T
      BY <1>4, <2>2, <2>3
    <2>. HIDE DEF z
    <2>5. TextOf(st) \in Seq(T) /\ Len(TextOf(st)) = z
      BY <2>4
    <2>. QED BY <2>5 DEF z
  <1>10. TextOf(st) = a \o b
    <2>1. \A i \in 1..(n + m) : TextOf(st)[i] = (a \o b)[i]
      BY <1>4, <1>8
    <2>. QED BY <1>6, <1>7, <1>9, <2>1, SeqEqual
  <1>. QED BY <1>10 DEF st, a, b

(* Removing the first of joined lines leaves the others.                    *)
LEMMA DropFirst ==
  ASSUME NEW S, NEW p \in S, NEW v \in Seq(S) PROVE RemoveAt(<<p>> \o v, 1) = v
  <1>. DEFINE o == <<p>>
              w == o \o v
              m == Len(v)
              x == SubSeq(w, 2, Len(w))
  <1>1. o \in Seq(S) /\ Len(o) = 1
    OBVIOUS
  <1>1a. o \in Seq(S)
    BY <1>1
  <1>. HIDE DEF o
  <1>2. /\ w \in Seq(S) /\ Len(w) = Len(o) + Len(v)
        /\ \A i \in 1..Len(o) + Len(v) : w[i] = IF i <= Len(o) THEN o[i] ELSE v[i - Len(o)]
    BY <1>1a, ConcatProperties
  <1>3. m \in Nat /\ m = Len(v)
    BY LenProperties
  <1>. HIDE DEF w, m
  <1>4. w \in Seq(S) /\ Len(w) = 1 + m /\ \A i \in 1..m : w[1 + i] = v[i]
    BY <1>1, <1>2, <1>3
  <1>4a. \A i \in 2..Len(w) : w[i] \in S
    BY <1>3, <1>4
  <1>5. /\ SubSeq(w, 2, 1 + m) \in Seq(S)
        /\ Len(SubSeq(w, 2, 1 + m)) = m
        /\ \A i \in 1..m : SubSeq(w, 2, 1 + m)[i] = v[i]
    <2>. DEFINE z == 1 + m
    <2>1. z \in Int /\ 2 \in Int /\ z = 1 + m /\ \A i \in 2..z : w[i] \in S
      BY <1>3, <1>4, <1>4a
    <2>. HIDE DEF z
    <2>2. /\ SubSeq(w, 2, z) \in Seq(S)
          /\ Len(SubSeq(w, 2, z)) = IF 2 <= z THEN z - 2 + 1 ELSE 0
          /\ \A i \in 1..z - 2 + 1 : SubSeq(w, 2, z)[i] = w[2 + i - 1]
      BY <2>1, SubSeqProperties
    <2>3. Len(SubSeq(w, 2, z)) = m
      BY <1>3, <2>1, <2>2
    <2>4. \A i \in 1..m : SubSeq(w, 2, z)[i] = v[i]
      <3>. SUFFICES ASSUME NEW i \in 1..m PROVE SubSeq(w, 2, z)[i] = v[i]
        OBVIOUS
      <3>1. i \in 1..z - 2 + 1 /\ 2 + i - 1 = 1 + i
        BY <1>3, <2>1
      <3>. QED BY <1>4, <2>2, <3>1
    <2>. QED BY <2>2, <2>3, <2>4 DEF z
  <1>6. x = v
    <2>1. x = SubSeq(w, 2, 1 + m)
      BY <1>4
    <2>. HIDE DEF x
    <2>. QED BY <1>3, <1>5, <2>1, SeqEqual
  <1>7. SubSeq(w, 1, 1 - 1) = <<>>
    <2>1. 1 \in Int /\ 0 \in Int /\ 0 < 1 /\ 1 - 1 = 0
      OBVIOUS
    <2>. QED BY <2>1, SubSeqEmpty
  <1>8. <<>> \o v = v
    BY ConcatEmptySeq
  <1>9. RemoveAt(w, 1) = SubSeq(w, 1, 1 - 1) \o x
    BY DEF RemoveAt
  <1>. HIDE DEF x
  <1>. QED BY <1>6, <1>7, <1>8, <1>9 DEF w, o

(* Without the runtime line they are what was typed.                        *)
LEMMA EnvironmentReads ==
  ASSUME NEW r, Filled(r)
  PROVE  Unescaped(WithoutRuntime(TextOf(Block(Notes(r), EnvironmentLabel)))) = r.text["environment"]
  <1>. DEFINE v == SafeText(r.text["environment"])
              T == Safe \cup {"Runtime estimate: too_long"}
              w == TextOf(Block(Notes(r), EnvironmentLabel))
  <1>1. v \in Seq(Safe) /\ Unescaped(v) = r.text["environment"]
    BY SafeIs DEF Filled, Texts
  <1>2. TextOf(EnvironmentLines(r)) = v
    BY PartsAre
  <1>0. Safe \cap RuntimeLines = {} /\ Safe \subseteq T /\ "Runtime estimate: too_long" \in T
    BY DEF Safe, RuntimeLines
  <1>01. {"Runtime estimate: too_long"} \subseteq T
    OBVIOUS
  <1>3. v \in Seq(T) /\ EnvironmentLines(r) \in Seq(LineOf(T)) /\ RuntimeLine(r) \in Seq(LineOf(T))
    <2>. HIDE DEF T, v
    <2>. QED BY <1>0, <1>01, <1>1, PartsAre, Wider, SeqMonotonic
  <1>4. DOMAIN v = 1..Len(v) /\ \A i \in DOMAIN v : v[i] \in Safe
    BY <1>1, LenProperties, ElementOfSeq
  <1>. HIDE DEF T, v
  <1>5. WithoutRuntime(v) = v
    <2>1. {i \in DOMAIN v : v[i] \in RuntimeLines} = {}
      BY <1>0, <1>4
    <2>. QED BY <2>1 DEF WithoutRuntime
  <1>6. CASE ~HasEnvironment(r)
    <2>0. r.text["environment"] = <<>> /\ Block(Notes(r), EnvironmentLabel) = <<>>
      BY <1>6, EnvironmentBlock DEF HasEnvironment
    <2>00. TextOf(<<>>) = <<>>
      BY DEF TextOf
    <2>1. w = <<>> /\ r.text["environment"] = <<>>
      BY <2>0, <2>00
    <2>2. WithoutRuntime(<<>>) = <<>> /\ Unescaped(<<>>) = <<>>
      BY DEF WithoutRuntime, Unescaped
    <2>. QED BY <2>1, <2>2
  <1>7. CASE HasEnvironment(r) /\ r.runtime = ""
    <2>1. RuntimeLine(r) = <<>>
      BY <1>7 DEF RuntimeLine
    <2>2. w = v
      BY <1>2, <1>3, <1>7, <2>1, EnvironmentBlock, ConcatEmptySeq
    <2>. HIDE DEF w
    <2>. QED BY <1>1, <1>5, <2>2 DEF w
  <1>8. CASE HasEnvironment(r) /\ r.runtime # ""
    <2>. DEFINE p == "Runtime estimate: too_long"
                o == <<p>>
    <2>1. RuntimeLine(r) = Lines(o)
      BY <1>8 DEF RuntimeLine, OneLine
    <2>2. o \in Seq(T) /\ o # <<>> /\ o[1] = p
      <3>1. p \in T
        BY <1>0
      <3>. HIDE DEF p
      <3>. QED BY <3>1
    <2>. HIDE DEF o
    <2>3. TextOf(RuntimeLine(r)) = o
      BY <2>1, <2>2, LinesAre
    <2>4. w = o \o v
      BY <1>2, <1>3, <1>8, <2>3, EnvironmentBlock, TextsJoin
    <2>5. w \in Seq(T) /\ w # <<>> /\ w[1] = p
      <3>1. w \in Seq(T)
        BY <1>3, <2>2, <2>4, ConcatProperties
      <3>2. w # <<>>
        <4>1. o \in Seq(T) /\ v \in Seq(T)
          BY <1>3, <2>2
        <4>2. o \o v = <<>> => o = <<>>
          BY <4>1, ConcatEqualIffEmpty
        <4>. HIDE DEF w
        <4>. QED BY <2>2, <2>4, <4>2
      <3>. HIDE DEF w
      <3>3. w[1] = o[1]
        BY <1>3, <2>2, <2>4, <3>2, Begins
      <3>. QED BY <2>2, <3>1, <3>2, <3>3
    <2>6. RemoveAt(w, 1) = v
      BY <1>0, <1>3, <2>4, DropFirst DEF o
    <2>. DEFINE at == {i \in DOMAIN w : w[i] \in RuntimeLines}
    <2>. HIDE DEF w
    <2>7. 1 \in at /\ at \in SUBSET Nat /\ \A j \in at : 1 <= j
      <3>1. Len(w) \in Nat \ {0} /\ DOMAIN w = 1..Len(w)
        BY <2>5, EmptySeq, LenProperties
      <3>2. p \in RuntimeLines
        BY DEF RuntimeLines
      <3>3. 1 \in DOMAIN w /\ DOMAIN w \subseteq Nat /\ \A j \in DOMAIN w : 1 <= j
        <4>. HIDE DEF p
        <4>. QED BY <3>1
      <3>. HIDE DEF p
      <3>. QED BY <2>5, <3>2, <3>3
    <2>8. WithoutRuntime(w) = IF at = {} THEN w ELSE RemoveAt(w, CHOOSE i \in at : \A j \in at : i <= j)
      BY DEF WithoutRuntime
    <2>. HIDE DEF at
    <2>9. (CHOOSE i \in at : \A j \in at : i <= j) = 1
      BY <2>7, LeastIs
    <2>10. WithoutRuntime(w) = v
      BY <2>6, <2>7, <2>8, <2>9
    <2>. QED BY <1>1, <2>10 DEF w
  <1>. QED BY <1>6, <1>7, <1>8

DecisionText == {"Decision: approved", "Decision: changes_requested", "Decision: rejected"}
VerificationHeading == "### Verification Method"
NotesHeading == "### Review Notes"

(* The texts of the reply's own lines, apart where the parser looks.        *)
LEMMA TextsOfComment ==
  /\ DecisionText \subseteq AnyText /\ VerificationHeading \in AnyText /\ NotesHeading \in AnyText
  /\ VerificationHeading \in Headings /\ NotesHeading \in Headings
  /\ DecisionText \cap Headings = {} /\ "marker" \notin DecisionText
  /\ VerificationHeading # NotesHeading /\ VerificationHeading # "marker" /\ NotesHeading # "marker"
  /\ NotesHeading \notin VText /\ NotesHeading \notin DecisionText /\ VerificationHeading \notin DecisionText
  BY DEF DecisionText, VerificationHeading, NotesHeading, AnyText, Headings, VText, Safe

(* The reply: its decision, its two headings and what stands under them.    *)
IsReply(r, c, d, v, n) ==
  /\ d \in LineOf(DecisionText) /\ d.line = DecisionLine[r.decision]
  /\ v \in LineOf({VerificationHeading}) /\ v.line = VerificationHeading
  /\ n \in LineOf({NotesHeading}) /\ n.line = NotesHeading
  /\ c = (((<<d>> \o <<v>>) \o Lines(Verification(r))) \o <<n>>) \o Notes(r)

(* render_comment's reply is its four parts.                                *)
LEMMA ReplyIs ==
  ASSUME NEW r, Filled(r) PROVE \E d, v, n : IsReply(r, ToComment(r), d, v, n)
  <1>1. DecisionLine[r.decision] \in DecisionText
    <2>1. /\ DecisionLine["approved"] = "Decision: approved" /\ DecisionLine["rejected"] = "Decision: rejected"
          /\ DecisionLine["changes_requested"] = "Decision: changes_requested"
      BY DEF DecisionLine
    <2>2. r.decision = "approved" \/ r.decision = "changes_requested" \/ r.decision = "rejected"
      BY DEF Filled
    <2>. QED BY <2>1, <2>2 DEF DecisionText
  <1>2. PICK d \in LineOf(DecisionText) : OneLine(DecisionLine[r.decision]) = <<d>> /\ d.line = DecisionLine[r.decision]
    BY <1>1, OneIs
  <1>3. PICK v \in LineOf({VerificationHeading}) : OneLine(VerificationHeading) = <<v>> /\ v.line = VerificationHeading
    BY OneIs
  <1>4. PICK n \in LineOf({NotesHeading}) : OneLine(NotesHeading) = <<n>> /\ n.line = NotesHeading
    BY OneIs
  <1>5. ToComment(r) = (((OneLine(DecisionLine[r.decision]) \o OneLine(VerificationHeading))
                          \o Lines(Verification(r))) \o OneLine(NotesHeading)) \o Notes(r)
    BY DEF ToComment, VerificationHeading, NotesHeading
  <1>6. IsReply(r, ToComment(r), d, v, n)
    BY <1>2, <1>3, <1>4, <1>5 DEF IsReply
  <1>. QED BY <1>6

LEMMA ReplyParts ==
  ASSUME NEW r, Filled(r), NEW c, NEW d, NEW v, NEW n, IsReply(r, c, d, v, n)
  PROVE  /\ <<d>> \in Seq(LineOf(DecisionText)) /\ <<d>> \in Seq(AnyLine)
         /\ v \in AnyLine /\ <<v>> \in Seq(AnyLine) /\ n \in AnyLine /\ <<n>> \in Seq(AnyLine)
         /\ Lines(Verification(r)) \in Seq(LineOf(VText)) /\ Lines(Verification(r)) \in Seq(AnyLine)
         /\ TextOf(Lines(Verification(r))) = Verification(r)
         /\ Notes(r) \in Seq(AnyLine)
  <1>1. LineOf(DecisionText) \subseteq AnyLine /\ LineOf({VerificationHeading}) \subseteq AnyLine
        /\ LineOf({NotesHeading}) \subseteq AnyLine
    BY TextsOfComment DEF LineOf, AnyLine
  <1>2. d \in LineOf(DecisionText) /\ d \in AnyLine /\ v \in AnyLine /\ n \in AnyLine
    BY <1>1 DEF IsReply
  <1>3. <<d>> \in Seq(LineOf(DecisionText)) /\ <<d>> \in Seq(AnyLine) /\ <<v>> \in Seq(AnyLine) /\ <<n>> \in Seq(AnyLine)
    BY <1>2
  <1>4. Verification(r) \in Seq(VText)
    BY VerificationReads
  <1>5. Lines(Verification(r)) \in Seq(LineOf(VText)) /\ TextOf(Lines(Verification(r))) = Verification(r)
    BY <1>4, LinesAre
  <1>6. Lines(Verification(r)) \in Seq(AnyLine)
    BY <1>5, TextsOfNotes, Wider DEF AnyLine
  <1>. QED BY <1>2, <1>3, <1>5, <1>6, AnyNotes

(* section finds the verification method.                                   *)
LEMMA VerificationSection ==
  ASSUME NEW r, Filled(r), NEW c, NEW d, NEW v, NEW n, IsReply(r, c, d, v, n)
  PROVE  TextOf(Section(c, VerificationHeading)) = Verification(r)
  <1>. DEFINE a == <<d>>
              b == Lines(Verification(r))
              o == <<n>>
              m == Notes(r)
              e == o \o m
              h == (a \o <<v>>) \o b
  <1>1. /\ a \in Seq(LineOf(DecisionText)) /\ a \in Seq(AnyLine) /\ v \in AnyLine /\ <<v>> \in Seq(AnyLine)
        /\ o \in Seq(AnyLine) /\ b \in Seq(LineOf(VText)) /\ b \in Seq(AnyLine) /\ m \in Seq(AnyLine)
        /\ TextOf(b) = Verification(r)
    BY ReplyParts
  <1>2. c = (h \o o) \o m /\ v.line = VerificationHeading /\ n.line = NotesHeading
    BY DEF IsReply
  <1>3. o # <<>> /\ o[1] = n
    OBVIOUS
  <1>. HIDE DEF a, b, o, m
  <1>4. h \in Seq(AnyLine)
    <2>1. a \o <<v>> \in Seq(AnyLine)
      BY <1>1, ConcatProperties
    <2>. QED BY <1>1, <2>1, ConcatProperties
  <1>5. (h \o o) \o m = h \o e
    <2>1. h \in Seq(AnyLine) /\ o \in Seq(AnyLine) /\ m \in Seq(AnyLine)
      BY <1>1, <1>4
    <2>. HIDE DEF h
    <2>2. (h \o o) \o m = h \o (o \o m)
      BY <2>1, ConcatAssociative
    <2>. QED BY <2>2
  <1>6. e \in Seq(AnyLine)
    BY <1>1, ConcatProperties
  <1>7. e # <<>> => e[1].line \in Headings
    <2>1. e # <<>> => e[1] = o[1]
      BY <1>1, <1>3, Begins
    <2>. HIDE DEF e
    <2>. QED BY <1>2, <1>3, <2>1, TextsOfComment
  <1>. HIDE DEF e
  <1>8. Between(((a \o <<v>>) \o b) \o e, VerificationHeading, Headings) = b
    <2>1. DecisionText \subseteq AnyText /\ VText \subseteq AnyText /\ VerificationHeading \in AnyText
          /\ VerificationHeading \notin DecisionText /\ Headings \cap VText = {}
      BY TextsOfComment, TextsOfNotes
    <2>2. a \in Seq(LineOf(DecisionText)) /\ b \in Seq(LineOf(VText)) /\ v \in LineOf(AnyText)
          /\ e \in Seq(LineOf(AnyText)) /\ v.line = VerificationHeading
      BY <1>1, <1>2, <1>6 DEF AnyLine
    <2>. QED BY <1>7, <2>1, <2>2, BetweenTexts
  <1>. QED BY <1>1, <1>2, <1>5, <1>8 DEF Section

(* section finds the review notes.                                          *)
LEMMA NotesSection ==
  ASSUME NEW r, Filled(r), NEW c, NEW d, NEW v, NEW n, IsReply(r, c, d, v, n)
  PROVE  Section(c, NotesHeading) = Notes(r)
  <1>. DEFINE T == DecisionText \cup {VerificationHeading} \cup VText
              h == (<<d>> \o <<v>>) \o Lines(Verification(r))
              m == Notes(r)
              M == NoteText \cup {"marker"}
  <1>1. d \in LineOf(DecisionText) /\ v \in LineOf({VerificationHeading}) /\ n.line = NotesHeading
        /\ c = (h \o <<n>>) \o m
    BY DEF IsReply
  <1>2. h \in Seq(LineOf(T))
    <2>0. DecisionText \subseteq T /\ {VerificationHeading} \subseteq T /\ VText \subseteq T
      OBVIOUS
    <2>. HIDE DEF T
    <2>1. LineOf(DecisionText) \subseteq LineOf(T) /\ LineOf({VerificationHeading}) \subseteq LineOf(T)
      BY <2>0 DEF LineOf
    <2>2. d \in LineOf(T) /\ v \in LineOf(T)
      BY <1>1, <2>1
    <2>3. <<d>> \in Seq(LineOf(T)) /\ <<v>> \in Seq(LineOf(T))
      BY <2>2
    <2>4. Lines(Verification(r)) \in Seq(LineOf(T))
      BY <2>0, ReplyParts, Wider
    <2>5. <<d>> \o <<v>> \in Seq(LineOf(T))
      BY <2>3, Joined
    <2>. QED BY <2>4, <2>5, Joined
  <1>3. T \subseteq AnyText /\ NotesHeading \notin T /\ M \subseteq AnyText /\ Headings \cap M = {} /\ NotesHeading \in AnyText
    BY TextsOfComment, TextsOfNotes
  <1>4. m \in Seq(LineOf(M)) /\ n \in LineOf(AnyText)
    BY AnyNotes, ReplyParts DEF AnyLine
  <1>5. <<>> \in Seq(LineOf(AnyText))
    BY EmptySeq
  <1>. HIDE DEF T, M, h, m
  <1>6. Between(((h \o <<n>>) \o m) \o <<>>, NotesHeading, Headings) = m
    <2>. DEFINE e == <<>>
    <2>1. n.line = NotesHeading /\ e \in Seq(LineOf(AnyText)) /\ (e # <<>> => e[1].line \in Headings)
      BY <1>1, <1>5
    <2>. HIDE DEF e
    <2>2. Between(((h \o <<n>>) \o m) \o e, NotesHeading, Headings) = m
      BY <1>2, <1>3, <1>4, <2>1, BetweenTexts
    <2>. QED BY <2>2 DEF e
  <1>7. ((h \o <<n>>) \o m) \o <<>> = (h \o <<n>>) \o m
    <2>. DEFINE o == <<n>>
                w == (h \o o) \o m
    <2>1. o \in Seq(LineOf(AnyText))
      BY <1>4
    <2>. HIDE DEF o
    <2>2. h \in Seq(LineOf(AnyText)) /\ m \in Seq(LineOf(AnyText))
      BY <1>2, <1>3, <1>4, Wider
    <2>3. h \o o \in Seq(LineOf(AnyText))
      BY <2>1, <2>2, Joined
    <2>4. w \in Seq(LineOf(AnyText))
      BY <2>2, <2>3, Joined
    <2>. HIDE DEF w
    <2>5. w \o <<>> = w
      BY <2>4, ConcatEmptySeq
    <2>. QED BY <2>5 DEF w, o
  <1>. QED BY <1>1, <1>6, <1>7 DEF Section, m

(* The reply's first line and its marker.                                   *)
LEMMA DecisionAndMarker ==
  ASSUME NEW r, Filled(r), NEW c, NEW d, NEW v, NEW n, IsReply(r, c, d, v, n),
         NEW marks, marks = {i \in DOMAIN c : c[i].line = "marker"}
  PROVE  /\ c[1].line = DecisionLine[r.decision]
         /\ marks # {} /\ c[CHOOSE i \in marks : \A j \in marks : i <= j].marker = Marker(r)
  <1>. DEFINE T == AnyText \ {"marker"}
              a == <<d>>
              w == <<v>>
              b == Lines(Verification(r))
              o == <<n>>
              k == NoteLines(r)
              m == <<MarkLine(r)>>
              h == (((a \o w) \o b) \o o) \o k
  <1>1. c = (((a \o w) \o b) \o o) \o (k \o m)
    BY NotesAre DEF IsReply
  <1>2. d.line = DecisionLine[r.decision] /\ d \in LineOf(DecisionText) /\ v \in LineOf({VerificationHeading})
        /\ n \in LineOf({NotesHeading})
    BY DEF IsReply
  <1>3. a \in Seq(LineOf(T)) /\ w \in Seq(LineOf(T)) /\ b \in Seq(LineOf(T)) /\ o \in Seq(LineOf(T)) /\ k \in Seq(LineOf(T))
    <2>0. DecisionText \subseteq T /\ {VerificationHeading} \subseteq T /\ {NotesHeading} \subseteq T /\ VText \subseteq T
          /\ NoteText \subseteq T
      BY TextsOfComment, TextsOfNotes
    <2>. HIDE DEF T
    <2>1. LineOf(DecisionText) \subseteq LineOf(T) /\ LineOf({VerificationHeading}) \subseteq LineOf(T)
          /\ LineOf({NotesHeading}) \subseteq LineOf(T)
      BY <2>0 DEF LineOf
    <2>2. d \in LineOf(T) /\ v \in LineOf(T) /\ n \in LineOf(T)
      BY <1>2, <2>1
    <2>3. a \in Seq(LineOf(T)) /\ w \in Seq(LineOf(T)) /\ o \in Seq(LineOf(T))
      BY <2>2
    <2>. HIDE DEF a, w, o
    <2>. QED BY <2>0, <2>3, ReplyParts, NoteLinesAre, Wider
  <1>4. a # <<>> /\ a[1] = d
    OBVIOUS
  <1>5. /\ "marker" \notin T /\ T \subseteq AnyText
    OBVIOUS
  <1>6. MarkLine(r) \in AnyLine /\ m \in Seq(AnyLine) /\ Len(m) = 1 /\ m[1] = MarkLine(r)
    BY AnyNotes
  <1>. HIDE DEF T, a, w, b, o, k, m
  <1>7. a \o w \in Seq(LineOf(T)) /\ (a \o w) \o b \in Seq(LineOf(T)) /\ ((a \o w) \o b) \o o \in Seq(LineOf(T))
        /\ h \in Seq(LineOf(T))
    <2>1. a \o w \in Seq(LineOf(T))
      BY <1>3, Joined
    <2>2. (a \o w) \o b \in Seq(LineOf(T))
      BY <1>3, <2>1, Joined
    <2>3. ((a \o w) \o b) \o o \in Seq(LineOf(T))
      BY <1>3, <2>2, Joined
    <2>4. h \in Seq(LineOf(T))
      BY <1>3, <2>3, Joined
    <2>. QED BY <2>1, <2>2, <2>3, <2>4
  <1>8. h # <<>> /\ h[1] = d
    <2>1. \A s, t \in Seq(LineOf(T)) : s # <<>> => s \o t # <<>> /\ (s \o t)[1] = s[1]
      <3>. SUFFICES ASSUME NEW s \in Seq(LineOf(T)), NEW t \in Seq(LineOf(T)), s # <<>>
                    PROVE  s \o t # <<>> /\ (s \o t)[1] = s[1]
        OBVIOUS
      <3>1. s \o t # <<>>
        BY ConcatEqualIffEmpty
      <3>. QED BY <3>1, Begins
    <2>2. a \o w # <<>> /\ (a \o w)[1] = d
      BY <1>3, <1>4, <2>1
    <2>3. (a \o w) \o b # <<>> /\ ((a \o w) \o b)[1] = d
      BY <1>3, <1>7, <2>1, <2>2
    <2>4. ((a \o w) \o b) \o o # <<>> /\ (((a \o w) \o b) \o o)[1] = d
      BY <1>3, <1>7, <2>1, <2>3
    <2>. QED BY <1>3, <1>7, <2>1, <2>4
  <1>9. c = h \o m
    <2>. DEFINE x == ((a \o w) \o b) \o o
    <2>1. x \in Seq(AnyLine) /\ k \in Seq(AnyLine)
      BY <1>3, <1>5, <1>7, Wider DEF AnyLine
    <2>2. c = x \o (k \o m) /\ h = x \o k
      BY <1>1
    <2>. HIDE DEF x, h
    <2>3. (x \o k) \o m = x \o (k \o m)
      BY <1>6, <2>1, ConcatAssociative
    <2>. QED BY <2>2, <2>3
  <1>10. h \in Seq(AnyLine)
    BY <1>5, <1>7, Wider DEF AnyLine
  <1>11. \A i \in 1..Len(h) : h[i].line # "marker"
    BY <1>5, <1>7, LinesIn
  <1>. HIDE DEF h
  <1>12. /\ h \o m \in Seq(AnyLine) /\ Len(h \o m) = Len(h) + Len(m)
         /\ \A i \in 1..Len(h) + Len(m) : (h \o m)[i] = IF i <= Len(h) THEN h[i] ELSE m[i - Len(h)]
    BY <1>6, <1>10, ConcatProperties
  <1>13. Len(h) \in Nat \ {0}
    BY <1>8, <1>10, EmptySeq
  <1>14. DOMAIN c = 1..(Len(h) + 1)
    <2>1. DOMAIN c = 1..Len(c)
      BY <1>9, <1>12, LenProperties
    <2>. QED BY <1>6, <1>9, <1>12, <2>1
  <1>15. c[Len(h) + 1] = MarkLine(r)
    <2>1. Len(h) + 1 \in 1..Len(h) + Len(m) /\ ~(Len(h) + 1 <= Len(h)) /\ (Len(h) + 1) - Len(h) = 1
      BY <1>6, <1>13
    <2>. QED BY <1>6, <1>9, <1>12, <2>1
  <1>16. \A i \in 1..Len(h) : c[i] = h[i]
    <2>1. \A i \in 1..Len(h) : i \in 1..Len(h) + Len(m) /\ i <= Len(h)
      BY <1>6, <1>13
    <2>. QED BY <1>9, <1>12, <2>1
  <1>17. MarkLine(r).line = "marker" /\ MarkLine(r).marker = Marker(r)
    BY DEF MarkLine
  <1>18. marks = {Len(h) + 1}
    <2>1. \A i \in 1..(Len(h) + 1) : i = Len(h) + 1 \/ i \in 1..Len(h)
      BY <1>13
    <2>2. Len(h) + 1 \in 1..(Len(h) + 1)
      BY <1>13
    <2>. QED BY <1>11, <1>14, <1>15, <1>16, <1>17, <2>1, <2>2
  <1>19. (CHOOSE i \in marks : \A j \in marks : i <= j) = Len(h) + 1
    <2>1. marks \in SUBSET Nat /\ Len(h) + 1 \in marks /\ \A j \in marks : Len(h) + 1 <= j
      BY <1>13, <1>18
    <2>. QED BY <2>1, LeastIs
  <1>20. c[1] = d
    <2>1. 1 \in 1..Len(h)
      BY <1>13
    <2>. QED BY <1>8, <1>16, <2>1
  <1>. QED BY <1>2, <1>15, <1>17, <1>18, <1>19, <1>20

(* What is parsed of a reply is what it was written from.                   *)
LEMMA ParsedIs ==
  ASSUME NEW r, Filled(r)
  PROVE  ParsedReview(ToComment(r)) =
           [found |-> TRUE,
            review |-> [decision |-> r.decision, verifiability |-> r.verifiability, runtime |-> r.runtime,
                        text |-> [general |-> r.text["general"], environment |-> r.text["environment"],
                                  evaluation |-> r.text["evaluation"]]]]
  <1>. DEFINE c == ToComment(r)
              marks == {i \in DOMAIN c : c[i].line = "marker"}
              data == c[CHOOSE i \in marks : \A j \in marks : i <= j].marker
              notes == Section(c, NotesHeading)
              said == TextOf(Section(c, VerificationHeading))
              decided == CHOOSE x \in FormDecisions : c[1].line = DecisionLine[x]
  <1>1. PICK d, v, n : IsReply(r, c, d, v, n)
    BY ReplyIs
  <1>0. ParsedReview(c) =
          IF marks = {} THEN [found |-> FALSE, review |-> EmptyReview]
          ELSE [found |-> TRUE, review |->
            [decision |-> decided, verifiability |-> data.verifiability, runtime |-> data.runtime,
             text |-> [general |-> Unescaped(TextOf(Block(notes, GeneralLabel))),
                       environment |-> Unescaped(WithoutRuntime(TextOf(Block(notes, EnvironmentLabel)))),
                       evaluation |-> Unescaped(EvaluationOf(said))]]]
    BY DEF ParsedReview, NotesHeading, VerificationHeading, GeneralLabel, EnvironmentLabel
  <1>2. c[1].line = DecisionLine[r.decision] /\ marks # {} /\ data = Marker(r)
    <2>. HIDE DEF c
    <2>. QED BY <1>1, DecisionAndMarker
  <1>3. notes = Notes(r) /\ said = Verification(r)
    <2>. HIDE DEF c
    <2>. QED BY <1>1, NotesSection, VerificationSection
  <1>. HIDE DEF c, marks, data, notes, said
  <1>4. decided = r.decision
    <2>1. /\ DecisionLine["approved"] = "Decision: approved" /\ DecisionLine["rejected"] = "Decision: rejected"
          /\ DecisionLine["changes_requested"] = "Decision: changes_requested"
      BY DEF DecisionLine
    <2>2. r.decision = "approved" \/ r.decision = "changes_requested" \/ r.decision = "rejected"
      BY DEF Filled
    <2>3. r.decision \in FormDecisions /\ \A x \in FormDecisions : c[1].line = DecisionLine[x] => x = r.decision
      BY <1>2, <2>1, <2>2 DEF FormDecisions
    <2>. QED BY <1>2, <2>3
  <1>5. data.verifiability = r.verifiability /\ data.runtime = r.runtime
    BY <1>2 DEF Marker
  <1>6. Unescaped(TextOf(Block(notes, GeneralLabel))) = r.text["general"]
    <2>1. r.text["general"] \in Seq(Unmarked)
      BY DEF Filled, Texts
    <2>. QED BY <1>3, <2>1, GeneralReads, PartsAre, SafeIs
  <1>7. Unescaped(WithoutRuntime(TextOf(Block(notes, EnvironmentLabel)))) = r.text["environment"]
    BY <1>3, EnvironmentReads
  <1>8. Unescaped(EvaluationOf(said)) = r.text["evaluation"]
    BY <1>3, VerificationReads
  <1>. HIDE DEF decided
  <1>. QED BY <1>0, <1>2, <1>4, <1>5, <1>6, <1>7, <1>8 DEF c

ReviewForm == [decision: {"", "approved", "changes_requested", "rejected"}, verifiability: {0, 5}, runtime: {"", "too_long"},
             text: [Texts -> Seq(Typed)]]

(* A reply in the Discussion is the form it was published from.             *)
FormatShape == review \in ReviewForm /\ (comment # <<>> => comment = ToComment(review) /\ review.decision # "")

(* A reply is the form's review, at the start and after every step.         *)
LEMMA FormatStart == FormatInit => FormatShape
  <1>. SUFFICES ASSUME FormatInit PROVE FormatShape
    OBVIOUS
  <1>1. EmptyReview \in ReviewForm
    BY DEF EmptyReview, ReviewForm
  <1>. QED BY <1>1 DEF FormatInit, FormatShape

LEMMA FormatStep == FormatShape /\ [FormatNext]_fvars => FormatShape'
  <1>. SUFFICES ASSUME FormatShape, [FormatNext]_fvars PROVE FormatShape'
    OBVIOUS
  <1>0. /\ review \in ReviewForm /\ review.text \in [Texts -> Seq(Typed)]
        /\ review.decision \in {"", "approved", "changes_requested", "rejected"} /\ review.verifiability \in {0, 5}
        /\ review.runtime \in {"", "too_long"}
    BY DEF FormatShape, ReviewForm
  <1>1. ASSUME NEW d \in {"approved", "changes_requested", "rejected"}, Decide(d) PROVE FormatShape'
    <2>1. [review EXCEPT !.decision = d] \in ReviewForm
      BY <1>0 DEF ReviewForm
    <2>. QED BY <1>1, <2>1 DEF Decide, Filling, FormatShape
  <1>2. ASSUME NEW n \in {0, 5}, Score(n) PROVE FormatShape'
    <2>1. [review EXCEPT !.verifiability = n] \in ReviewForm
      BY <1>0 DEF ReviewForm
    <2>. QED BY <1>2, <2>1 DEF Score, Filling, FormatShape
  <1>3. ASSUME NEW v \in {"", "too_long"}, JudgeRuntime(v) PROVE FormatShape'
    <2>1. [review EXCEPT !.runtime = v] \in ReviewForm
      BY <1>0 DEF ReviewForm
    <2>. QED BY <1>3, <2>1 DEF JudgeRuntime, Filling, FormatShape
  <1>4. ASSUME NEW t \in Texts, NEW p \in Typed, Write(t, p) PROVE FormatShape'
    <2>. DEFINE x == Append(review.text[t], p)
                y == [review.text EXCEPT ![t] = x]
    <2>1. x \in Seq(Typed)
      <3>1. review.text[t] \in Seq(Typed)
        BY <1>0
      <3>. QED BY <3>1, AppendProperties
    <2>. HIDE DEF x
    <2>2. y \in [Texts -> Seq(Typed)]
      BY <1>0, <2>1
    <2>3. review' = [review EXCEPT !.text = y]
      BY <1>4 DEF Write, x
    <2>. HIDE DEF y
    <2>4. [review EXCEPT !.text = y] \in ReviewForm
      BY <1>0, <2>2 DEF ReviewForm
    <2>. QED BY <1>4, <2>3, <2>4 DEF Write, Filling, FormatShape
  <1>5. CASE PublishForm
    BY <1>0, <1>5 DEF PublishForm, ValidReview, FormatShape
  <1>6. CASE NewForm
    <2>1. EmptyReview \in ReviewForm
      BY DEF EmptyReview, ReviewForm
    <2>. QED BY <1>6, <2>1 DEF NewForm, FormatShape
  <1>7. CASE UNCHANGED fvars
    BY <1>7 DEF fvars, FormatShape
  <1>. QED BY <1>1, <1>2, <1>3, <1>4, <1>5, <1>6, <1>7 DEF FormatNext, FormDecisions

(* So what is parsed is what was published.                                 *)
LEMMA ReviewReadsBack == FormatShape => ReadsBackExactly
  <1>. SUFFICES ASSUME FormatShape, comment # <<>>,
                       \A t \in Texts : \A i \in DOMAIN review.text[t] : review.text[t][i] \notin Reserved
                PROVE  ParsedReview(comment) = [found |-> TRUE, review |-> review]
    BY DEF ReadsBackExactly
  <1>1. /\ review \in ReviewForm /\ review.text \in [Texts -> Seq(Typed)]
        /\ review.decision \in {"approved", "changes_requested", "rejected"} /\ review.verifiability \in {0, 5}
        /\ review.runtime \in {"", "too_long"}
    BY DEF FormatShape, ReviewForm
  <1>2. \A t \in Texts : review.text[t] \in Seq(Unmarked)
    <2>. SUFFICES ASSUME NEW t \in Texts PROVE review.text[t] \in Seq(Unmarked)
      OBVIOUS
    <2>. DEFINE s == review.text[t]
    <2>1. s \in Seq(Typed) /\ \A i \in DOMAIN s : s[i] \notin Reserved
      BY <1>1
    <2>. HIDE DEF s
    <2>2. \A i \in 1..Len(s) : s[i] \in Typed /\ s[i] \notin Reserved
      BY <2>1, LenProperties, ElementOfSeq
    <2>3. \A i \in 1..Len(s) : s[i] \in Unmarked
      BY <2>2, FormatAssumption, FreeIs
    <2>4. s \in [1..Len(s) -> Typed] /\ Len(s) \in Nat
      BY <2>1, LenProperties
    <2>5. s \in [1..Len(s) -> Unmarked]
      BY <2>3, <2>4
    <2>6. s \in Seq(Unmarked)
      BY <2>4, <2>5, SeqDef
    <2>. QED BY <2>6 DEF s
  <1>3. Filled(review)
    BY <1>1, <1>2 DEF Filled
  <1>4. review.text = [general |-> review.text["general"], environment |-> review.text["environment"],
                       evaluation |-> review.text["evaluation"]]
    BY <1>1 DEF Texts
  <1>5. review = [decision |-> review.decision, verifiability |-> review.verifiability, runtime |-> review.runtime,
                  text |-> review.text]
    BY <1>1 DEF ReviewForm
  <1>6. comment = ToComment(review)
    BY DEF FormatShape
  <1>. QED BY <1>3, <1>4, <1>5, <1>6, ParsedIs

(***************************************************************************)
(*                         The site as a whole                             *)
(***************************************************************************)
(* A page's own variables change in its own steps only.                     *)
LEMMA PagesApart ==
  [Next]_vars => /\ [FormatNext]_fvars /\ [ContributorsNext]_rows /\ [DrawerNext]_dvars /\ [EditorNext]_evars
                 /\ [SubmitNext]_svars /\ [CheckNext]_kvars /\ [HeaderNext]_avars
  BY DEF Next, vars, fvars, ReviewerPage, DrawerPage, EditorPage, SubmitPage, FormatPage, BoardPage, ThreadPage,
         ContributorsPage, CheckPage, AccountPage, HeaderPage

(* What a reviewer publishes with none of the form's own markers in it, and *)
(* what contributors a proposal is stored with, is read back as it was      *)
(* entered: whatever texts and names, and however many (reviews.js,         *)
(* people.js).                                                              *)
THEOREM WrittenIsReadBack == Spec => []WrittenReadsBack
  <1>. DEFINE Inv == FormatShape /\ rows \in Seq(Row)
  <1>1. Init => Inv
    BY FormatStart, ContributorsStart DEF Init
  <1>2. Inv /\ [Next]_vars => Inv'
    BY FormatStep, ContributorsStep, PagesApart
  <1>3. Inv => WrittenReadsBack
    BY ReviewReadsBack, EveryoneComesBack DEF WrittenReadsBack
  <1>. QED BY <1>1, <1>2, <1>3, PTL DEF Spec

(* The site implements the specification of each page with state of its     *)
(* own: what is proved of a page holds of the site.                         *)
THEOREM SiteKeepsPages == Spec => DrawerSpec /\ EditorSpec /\ SubmitSpec /\ CheckSpec /\ HeaderSpec
  <1>1. Init => DrawerInit /\ EditorInit /\ SubmitInit /\ CheckInit /\ HeaderInit
    BY DEF Init
  <1>. QED BY <1>1, PagesApart, PTL DEF Spec, DrawerSpec, EditorSpec, SubmitSpec, CheckSpec, HeaderSpec

(* Everything the run of the site checks of its states holds for every      *)
(* number of people, texts, drawers, versions, tasks and answers.           *)
THEOREM SiteIsRight ==
  Spec => [](/\ EmailsAreProven /\ ProofIsForShownEmail /\ OwnReviewsStayListed /\ DraftsAreOwn
             /\ NothingUnseenIsLost /\ DraftKeepsAnswers /\ WrittenReadsBack /\ BoardTellsStatus
             /\ HeaderTellsSession /\ NewestReviewCounts /\ JudgedByWhatExisted)
  <1>. QED BY SiteKeepsPages, AddressesAreProven, FormKeepsItsProof, OwnReviewsListed, DraftsStayOwn,
              EditorLosesNothing, DraftLosesNoAnswer, WrittenIsReadBack, BoardTellsOneStory, HeaderComesRight,
              NewestReviewsCount, JudgedByHistory, PTL
================================================================================
