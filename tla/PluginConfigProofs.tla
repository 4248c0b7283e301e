------------------------- MODULE PluginConfigProofs -------------------------
(***************************************************************************)
(* What the conversion of a configuration returns, for any default plugins *)
(* and whatever the caller gives.                                          *)
(***************************************************************************)
EXTENDS ResultStore, FiniteSetTheorems, SequenceTheorems, TLAPS

----------------------------------------------------------------------------
(* The elements of a list at given indices.                                *)

(***************************************************************************)
(* The ranks of the elements of a finite set of numbers are 1, 2, ...      *)
(***************************************************************************)
LEMMA RankOrder ==
    ASSUME NEW I \in SUBSET Nat, IsFiniteSet(I), NEW i \in I, NEW m \in I
    PROVE  /\ Rank(I, i) \in 1 .. Cardinality(I)
           /\ i < m <=> Rank(I, i) < Rank(I, m)
<1> DEFINE upto(x) == {j \in I : j <= x}
<1>1. Cardinality(I) \in Nat
  BY FS_CardinalityType
<1>2. ASSUME NEW x \in I
      PROVE  /\ IsFiniteSet(upto(x)) /\ Cardinality(upto(x)) \in Nat
             /\ Cardinality(upto(x)) \in 1 .. Cardinality(I)
  <2>1. upto(x) \in SUBSET I /\ x \in upto(x)
    OBVIOUS
  <2> HIDE DEF upto
  <2>2. IsFiniteSet(upto(x)) /\ Cardinality(upto(x)) <= Cardinality(I)
    BY <2>1, FS_Subset
  <2>3. Cardinality(upto(x)) \in Nat /\ Cardinality(upto(x)) # 0
    BY <2>1, <2>2, FS_CardinalityType, FS_EmptySet
  <2>4. QED
    BY <1>1, <2>2, <2>3
<1>3. ASSUME NEW x \in I, NEW y \in I, x < y
      PROVE  Cardinality(upto(x)) < Cardinality(upto(y))
  <2>1. upto(x) \in SUBSET upto(y) /\ y \in upto(y) /\ y \notin upto(x)
    <3>1. I \subseteq Int /\ x \in Int /\ y \in Int
      OBVIOUS
    <3>2. \A j \in Int : j <= x => j <= y
      BY <1>3, <3>1
    <3>3. ~(y <= x) /\ y <= y
      BY <1>3, <3>1
    <3>4. QED
      BY <3>1, <3>2, <3>3
  <2> HIDE DEF upto
  <2>2. /\ Cardinality(upto(x)) <= Cardinality(upto(y))
        /\ Cardinality(upto(x)) # Cardinality(upto(y))
    BY <1>2, <2>1, FS_Subset
  <2>3. Cardinality(upto(x)) \in Nat /\ Cardinality(upto(y)) \in Nat
    BY <1>2
  <2>4. QED
    BY <2>2, <2>3
<1>4. Rank(I, i) = Cardinality(upto(i)) /\ Rank(I, m) = Cardinality(upto(m))
  BY DEF Rank
<1> HIDE DEF upto
<1>5. Cardinality(upto(i)) \in Nat /\ Cardinality(upto(m)) \in Nat
  BY <1>2
<1>6. i < m => Cardinality(upto(i)) < Cardinality(upto(m))
  BY <1>3
<1>7. m < i => Cardinality(upto(m)) < Cardinality(upto(i))
  BY <1>3
<1>8. i < m <=> Cardinality(upto(i)) < Cardinality(upto(m))
  <2>1. i \in Nat /\ m \in Nat
    OBVIOUS
  <2>2. CASE i = m
    BY <2>1, <2>2, <1>5
  <2>3. CASE i # m
    BY <2>1, <2>3, <1>5, <1>6, <1>7
  <2>4. QED
    BY <2>2, <2>3
<1>9. QED
  BY <1>2, <1>4, <1>8

\* f has the elements of I, each once and in order.
Enumerates(f, I) ==
    /\ f \in [1 .. Cardinality(I) -> I]
    /\ \A k, l \in 1 .. Cardinality(I) : k < l => f[k] < f[l]
    /\ \A i \in I : \E k \in 1 .. Cardinality(I) : f[k] = i

(***************************************************************************)
(* A sublist has the elements at these indices, each index once, and keeps *)
(* their order: what appending them in a loop over the list makes.         *)
(***************************************************************************)
LEMMA SublistIs ==
    ASSUME NEW list, NEW I \in SUBSET Nat, IsFiniteSet(I)
    PROVE  \E f : /\ Enumerates(f, I)
                  /\ Sublist(list, I) = [k \in 1 .. Cardinality(I) |-> list[f[k]]]
<1> DEFINE n == Cardinality(I)
           rank == [i \in I |-> Rank(I, i)]
           f == [k \in 1 .. n |-> CHOOSE i \in I : Rank(I, i) = k]
<1>1. n \in Nat
  BY FS_CardinalityType
<1>2. \A i \in I : Rank(I, i) \in 1 .. n
  BY RankOrder
<1>3. \A i, m \in I : i < m <=> Rank(I, i) < Rank(I, m)
  BY RankOrder
<1>4. \A k \in 1 .. n : \E i \in I : Rank(I, i) = k
  <2>1. rank \in [I -> 1 .. n]
    BY <1>2
  <2>2. \A i, m \in I : Rank(I, i) = Rank(I, m) => i = m
    <3> SUFFICES ASSUME NEW i \in I, NEW m \in I, Rank(I, i) = Rank(I, m)
                 PROVE  i = m
      OBVIOUS
    <3>1. Rank(I, i) \in 1 .. n /\ Rank(I, m) \in 1 .. n
      BY <1>2
    <3>2. ~(i < m) /\ ~(m < i)
      BY <1>1, <1>3, <3>1
    <3>3. QED
      BY <3>2
  <2>3. rank \in Injection(I, 1 .. n)
    BY <2>1, <2>2 DEF Injection, IsInjective
  <2>4. IsFiniteSet(1 .. n) /\ Cardinality(1 .. n) = n
    BY <1>1, FS_Interval
  <2> HIDE DEF rank
  <2>5. Cardinality(I) = Cardinality(1 .. n) <=> rank \in Surjection(I, 1 .. n)
    <3> HIDE DEF n
    <3>1. QED
      BY <2>3, <2>4, FS_Injection
  <2>6. rank \in Surjection(I, 1 .. n)
    BY <2>4, <2>5
  <2>7. QED
    BY <2>6 DEF Surjection, rank
<1>5. /\ f \in [1 .. n -> I]
      /\ \A k \in 1 .. n : Rank(I, f[k]) = k
  <2>1. ASSUME NEW k \in 1 .. n
        PROVE  /\ (CHOOSE i \in I : Rank(I, i) = k) \in I
               /\ Rank(I, CHOOSE i \in I : Rank(I, i) = k) = k
    BY <1>4, <2>1
  <2>2. QED
    BY <2>1
<1>6. Sublist(list, I) = [k \in 1 .. n |-> list[f[k]]]
  BY DEF Sublist
<1> HIDE DEF n, f
<1>7. \A k, l \in 1 .. n : k < l => f[k] < f[l]
  BY <1>3, <1>5
<1>8. ASSUME NEW i \in I PROVE \E k \in 1 .. n : f[k] = i
  <2>1. Rank(I, i) \in 1 .. n /\ f[Rank(I, i)] \in I
    BY <1>2, <1>5
  <2>2. Rank(I, f[Rank(I, i)]) = Rank(I, i)
    BY <1>5, <2>1
  <2>3. ~(i < f[Rank(I, i)]) /\ ~(f[Rank(I, i)] < i)
    <3>1. /\ i < f[Rank(I, i)] => Rank(I, i) < Rank(I, f[Rank(I, i)])
          /\ f[Rank(I, i)] < i => Rank(I, f[Rank(I, i)]) < Rank(I, i)
      BY <1>3, <2>1
    <3>2. Rank(I, i) \in Nat
      BY <1>1, <2>1
    <3>3. QED
      BY <2>2, <3>1, <3>2
  <2>4. i \in Nat /\ f[Rank(I, i)] \in Nat
    BY <2>1
  <2>5. f[Rank(I, i)] = i
    BY <2>3, <2>4
  <2>6. QED
    BY <2>1, <2>5
<1>9. Enumerates(f, I)
  BY <1>5, <1>7, <1>8 DEF Enumerates, n
<1>10. QED
  BY <1>6, <1>9, Zenon DEF n

----------------------------------------------------------------------------
(* Names and lists.                                                        *)

\* The words of names.
Words == STRING \cup {pluginSuffix}

(***************************************************************************)
(* The name of a wrapping plugin tells which one it wraps, and is not that *)
(* of a plugin that wraps none.                                            *)
(***************************************************************************)
LEMMA WrappingNames ==
    /\ PlainNames \subseteq Seq(Words)
    /\ \A n \in Seq(Words) : pluginName(n) \in Seq(Words) \ PlainNames
    /\ \A n, m \in Seq(Words) : pluginName(n) = pluginName(m) => n = m
<1>1. PlainNames \subseteq Seq(Words)
  <2> SUFFICES ASSUME NEW n \in PlainNames PROVE n \in Seq(Words)
    OBVIOUS
  <2> DEFINE P == STRING \ {pluginSuffix}
  <2>1. n \in Seq(P) /\ P \subseteq Words
    BY DEF PlainNames, Words
  <2> HIDE DEF P
  <2>2. n \in [1 .. Len(n) -> P] /\ Len(n) \in Nat
    BY <2>1
  <2>3. n \in [1 .. Len(n) -> Words]
    BY <2>1, <2>2
  <2>4. QED
    BY <2>2, <2>3
<1>2. ASSUME NEW n \in Seq(Words)
      PROVE  pluginName(n) \in Seq(Words) \ PlainNames
  <2>1. pluginSuffix \in Words
    BY DEF Words
  <2>2. /\ pluginName(n) \in Seq(Words)
        /\ Len(pluginName(n)) = Len(n) + 1
        /\ pluginName(n)[Len(n) + 1] = pluginSuffix
    BY <2>1, AppendProperties DEF pluginName
  <2>3. ASSUME pluginName(n) \in PlainNames PROVE FALSE
    <3> DEFINE P == STRING \ {pluginSuffix}
    <3>1. pluginName(n) \in Seq(P) /\ pluginSuffix \notin P
      BY <2>3 DEF PlainNames
    <3> HIDE DEF P
    <3>2. Len(n) + 1 \in 1 .. Len(pluginName(n))
      BY <2>2
    <3>3. pluginName(n)[Len(n) + 1] \in P
      BY <3>1, <3>2
    <3>4. QED
      BY <2>2, <3>1, <3>3
  <2>4. QED
    BY <2>2, <2>3
<1>3. ASSUME NEW n \in Seq(Words), NEW m \in Seq(Words),
             pluginName(n) = pluginName(m)
      PROVE  n = m
  <2>1. pluginSuffix \in Words
    BY DEF Words
  <2>2. Append(n, pluginSuffix) = Append(m, pluginSuffix)
    BY <1>3 DEF pluginName
  <2> HIDE DEF pluginName
  <2>3. QED
    BY <1>3, <2>1, <2>2, AppendInjective
<1>4. QED
  BY <1>1, <1>2, <1>3

\* The default plugins are lists, and their names are plain.
LEMMA DefaultLists ==
    ASSUME NEW list \in {DefaultFilterPlugins, DefaultScorePlugins,
                         defaultFilterScorePlugins}
    PROVE  /\ Len(list) \in Nat /\ DOMAIN list = 1 .. Len(list)
           /\ \A i \in DOMAIN list : list[i].name \in PlainNames
<1> DEFINE P == [name : PlainNames, weight : Nat]
<1>1. DefaultFilterPlugins \in Seq(P) /\ DefaultScorePlugins \in Seq(P)
  BY PluginAssumption
<1>2. \A p \in P : p.name \in PlainNames
  OBVIOUS
<1> HIDE DEF P
<1>3. list \in Seq(P)
  <2>1. DefaultScorePlugins \o DefaultFilterPlugins \in Seq(P)
    BY <1>1, ConcatProperties
  <2>2. QED
    BY <1>1, <2>1, Zenon DEF defaultFilterScorePlugins
<1>4. QED
  BY <1>2, <1>3

\* Both lists are part of the list of all default plugins.
LEMMA RegisteredDefaults ==
    ASSUME NEW list \in {DefaultFilterPlugins, DefaultScorePlugins}
    PROVE  DefaultNames(list) \subseteq DefaultNames(defaultFilterScorePlugins)
<1> DEFINE P == [name : PlainNames, weight : Nat]
           f == DefaultFilterPlugins
           s == DefaultScorePlugins
<1>1. f \in Seq(P) /\ s \in Seq(P)
  BY PluginAssumption
<1> HIDE DEF P, f, s
<1>2. /\ \A i \in DOMAIN s : i \in DOMAIN (s \o f) /\ (s \o f)[i] = s[i]
      /\ \A i \in DOMAIN f : /\ Len(s) + i \in DOMAIN (s \o f)
                             /\ (s \o f)[Len(s) + i] = f[i]
  BY <1>1
<1>3. DefaultNames(s) \subseteq DefaultNames(s \o f)
  BY <1>2 DEF DefaultNames
<1>4. DefaultNames(f) \subseteq DefaultNames(s \o f)
  BY <1>2 DEF DefaultNames
<1>5. QED
  BY <1>3, <1>4 DEF defaultFilterScorePlugins, f, s

\* Indices of a list are a finite set of numbers.
LEMMA Indices ==
    ASSUME NEW n \in Nat, NEW I \in SUBSET (1 .. n)
    PROVE  I \in SUBSET Nat /\ IsFiniteSet(I) /\ Cardinality(I) \in Nat
<1>1. IsFiniteSet(1 .. n)
  BY FS_Interval
<1>2. IsFiniteSet(I)
  BY <1>1, FS_Subset
<1>3. QED
  BY <1>2, FS_CardinalityType

----------------------------------------------------------------------------
(* The plugins.                                                            *)

(***************************************************************************)
(* The converted plugin set enables the wrappers of the default plugins    *)
(* that are not disabled, and no others.                                   *)
(***************************************************************************)
LEMMA ConvertSetIs ==
    ASSUME NEW pls, NEW list \in {DefaultFilterPlugins, DefaultScorePlugins},
           All \notin pls.disabled
    PROVE  DefaultNames(ConvertSet(pls, list).enabled)
             = {pluginName(n) : n \in DefaultNames(list) \ pls.disabled}
<1> DEFINE I == {i \in DOMAIN list : list[i].name \notin pls.disabled}
           kept == Sublist(list, I)
           n == Cardinality(I)
           en == ConvertSet(pls, list).enabled
<1>1. I \in SUBSET Nat /\ IsFiniteSet(I)
  <2>1. Len(list) \in Nat /\ DOMAIN list = 1 .. Len(list)
    BY DefaultLists
  <2>2. I \in SUBSET (1 .. Len(list))
    BY <2>1
  <2> HIDE DEF I
  <2>3. QED
    BY <2>1, <2>2, Indices
<1>2. en = [i \in DOMAIN kept |-> Wrapper(kept[i])]
  BY DEF ConvertSet
<1>3. \A i \in I : i \in DOMAIN list /\ list[i].name \notin pls.disabled
  OBVIOUS
<1>4. \A i \in DOMAIN list : list[i].name \notin pls.disabled => i \in I
  OBVIOUS
<1> HIDE DEF I, en
<1>5. PICK f : /\ f \in [1 .. n -> I] /\ \A i \in I : \E k \in 1 .. n : f[k] = i
               /\ kept = [k \in 1 .. n |-> list[f[k]]]
  <2>1. \E f : /\ Enumerates(f, I)
              /\ Sublist(list, I) = [k \in 1 .. Cardinality(I) |-> list[f[k]]]
    <3>1. PICK J : J = I
      OBVIOUS
    <3>2. J \in SUBSET Nat /\ IsFiniteSet(J)
      BY <1>1, <3>1
    <3>3. \E f : /\ Enumerates(f, J)
                /\ Sublist(list, J) = [k \in 1 .. Cardinality(J) |-> list[f[k]]]
      <4> HIDE DEF kept, n
      <4>1. QED
        BY <3>2, SublistIs
    <3>4. QED
      BY <3>1, <3>3
  <2>2. QED
    BY <2>1 DEF Enumerates
<1> HIDE DEF kept, n
<1>6. DOMAIN en = 1 .. n /\ \A k \in 1 .. n : en[k].name = pluginName(list[f[k]].name)
  BY <1>2, <1>5 DEF Wrapper
<1>7. ASSUME NEW k \in DOMAIN en
      PROVE  en[k].name \in {pluginName(x) : x \in DefaultNames(list) \ pls.disabled}
  <2>1. f[k] \in DOMAIN list /\ list[f[k]].name \notin pls.disabled
    BY <1>3, <1>5, <1>6
  <2>2. QED
    BY <1>6, <2>1 DEF DefaultNames
<1>8. ASSUME NEW x \in DefaultNames(list) \ pls.disabled
      PROVE  \E k \in DOMAIN en : en[k].name = pluginName(x)
  <2>1. PICK i \in DOMAIN list : list[i].name = x
    BY DEF DefaultNames
  <2>2. PICK k \in 1 .. n : f[k] = i
    BY <1>4, <1>5, <2>1
  <2>3. QED
    BY <1>6, <2>1, <2>2
<1>9. DefaultNames(en) \subseteq {pluginName(x) : x \in DefaultNames(list) \ pls.disabled}
  BY <1>7 DEF DefaultNames
<1>10. {pluginName(x) : x \in DefaultNames(list) \ pls.disabled} \subseteq DefaultNames(en)
  BY <1>8 DEF DefaultNames
<1>11. QED
  BY <1>9, <1>10 DEF en

----------------------------------------------------------------------------
(* The plugins' configurations.                                            *)

\* The default plugins that have arguments, each once, in some order.
LEMMA NamesWithArgs ==
    ASSUME NEW names, names = SetToSeq(DOMAIN DefaultArgs)
    PROVE  /\ Cardinality(DOMAIN DefaultArgs) \in Nat
           /\ names \in [1 .. Cardinality(DOMAIN DefaultArgs) -> DOMAIN DefaultArgs]
           /\ IsInjective(names)
<1> DEFINE D == DOMAIN DefaultArgs
           n == Cardinality(D)
<1>1. n \in Nat /\ ExistsBijection(1 .. n, D)
  BY PluginAssumption, FS_CardinalityType
<1>2. \E f \in [1 .. n -> D] : IsInjective(f)
  BY <1>1 DEF ExistsBijection, Bijection, Injection
<1>3. names = CHOOSE f \in [1 .. n -> D] : IsInjective(f)
  BY DEF SetToSeq
<1> HIDE DEF n, D
<1>4. names \in [1 .. n -> D] /\ IsInjective(names)
  BY <1>2, <1>3
<1>5. QED
  BY <1>1, <1>4 DEF n, D

\* The plugins whose wrappers are configured, each once.
LEMMA WrappedWithArgs ==
    ASSUME NEW wrapped, NEW n,
           wrapped = Sublist(defaultFilterScorePlugins, WithArgs(defaultFilterScorePlugins)),
           n = Cardinality(WithArgs(defaultFilterScorePlugins))
    PROVE  /\ n \in Nat /\ DOMAIN wrapped = 1 .. n
           /\ \A k \in 1 .. n : wrapped[k].name \in DOMAIN DefaultArgs
           /\ \A k, l \in 1 .. n : wrapped[k].name = wrapped[l].name => k = l
<1> DEFINE list == defaultFilterScorePlugins
           I == WithArgs(list)
<1>1. Len(list) \in Nat /\ DOMAIN list = 1 .. Len(list)
  BY DefaultLists
<1>2. /\ I \in SUBSET (1 .. Len(list))
      /\ \A i \in I : list[i].name \in DOMAIN DefaultArgs
      /\ \A i \in I : \A j \in 1 .. i - 1 : list[j].name # list[i].name
  BY <1>1 DEF WithArgs
<1> HIDE DEF list, I
<1>3. I \in SUBSET Nat /\ IsFiniteSet(I) /\ n \in Nat
  BY <1>1, <1>2, Indices DEF list, I
<1>4. ASSUME NEW i \in I, NEW j \in I, list[i].name = list[j].name
      PROVE  i = j
  <2>1. i \in 1 .. Len(list) /\ j \in 1 .. Len(list)
    BY <1>2
  <2>2. i \notin 1 .. j - 1 /\ j \notin 1 .. i - 1
    BY <1>2, <1>4
  <2>3. QED
    BY <1>1, <2>1, <2>2
<1>5. PICK f : /\ f \in [1 .. n -> I]
               /\ \A k, l \in 1 .. n : k < l => f[k] < f[l]
               /\ wrapped = [k \in 1 .. n |-> list[f[k]]]
  <2>1. \E f : Enumerates(f, I) /\ wrapped = [k \in 1 .. n |-> list[f[k]]]
    BY <1>3, SublistIs DEF list, I
  <2>2. n = Cardinality(I)
    BY DEF list, I
  <2>3. QED
    BY <2>1, <2>2 DEF Enumerates
<1>6. ASSUME NEW k \in 1 .. n, NEW l \in 1 .. n, wrapped[k].name = wrapped[l].name
      PROVE  k = l
  <2>1. f[k] \in I /\ f[l] \in I /\ list[f[k]].name = list[f[l]].name
    BY <1>5, <1>6
  <2>2. f[k] = f[l] /\ f[k] \in Nat
    BY <1>3, <1>4, <2>1
  <2>3. ~(k < l) /\ ~(l < k)
    BY <1>5, <2>2
  <2>4. QED
    BY <1>3, <2>3
<1>7. ASSUME NEW k \in 1 .. n PROVE wrapped[k].name \in DOMAIN DefaultArgs
  BY <1>2, <1>5
<1>8. QED
  BY <1>3, <1>5, <1>6, <1>7

(***************************************************************************)
(* Some wrapper is configured: of the default plugins that have arguments, *)
(* the first in the list is there.                                         *)
(***************************************************************************)
LEMMA SomeWrapperHasArgs == Cardinality(WithArgs(defaultFilterScorePlugins)) \in Nat \ {0}
<1> DEFINE list == defaultFilterScorePlugins
           D == DOMAIN DefaultArgs
           J == {j \in DOMAIN list : list[j].name \in D}
<1>1. Len(list) \in Nat /\ DOMAIN list = 1 .. Len(list)
  BY DefaultLists
<1>2. J # {}
  <2>1. PICK some \in {DefaultFilterPlugins, DefaultScorePlugins} :
           \E i \in DOMAIN some : some[i].name \in D
    BY PluginAssumption
  <2>2. PICK i \in DOMAIN some : some[i].name \in D
    BY <2>1
  <2>3. some[i].name \in DefaultNames(list)
    BY <2>2, RegisteredDefaults DEF DefaultNames
  <2> HIDE DEF list, D
  <2>4. QED
    BY <2>2, <2>3 DEF DefaultNames
<1>3. J \subseteq Nat
  <2> HIDE DEF list, D
  <2>1. QED
    BY <1>1
<1>4. PICK i \in J : \A j \in J : <<j, i>> \notin OpToRel(<, Nat)
  <2> HIDE DEF J
  <2>1. QED
    BY <1>2, <1>3, NatLessThanWellFounded, WFMin
<1>5. ASSUME NEW j \in J PROVE ~(j < i)
  <2>1. i \in Nat /\ j \in Nat
    BY <1>3
  <2>2. QED
    BY <1>4, <2>1 DEF OpToRel
<1>6. i \in WithArgs(list)
  <2>1. i \in 1 .. Len(list) /\ list[i].name \in D
    BY <1>1
  <2>2. ASSUME NEW j \in 1 .. i - 1 PROVE list[j].name # list[i].name
    <3>1. j \in DOMAIN list /\ j < i
      BY <1>1, <2>1
    <3>2. j \notin J
      BY <1>5, <3>1
    <3>3. QED
      BY <2>1, <3>1, <3>2
  <2> HIDE DEF list
  <2>3. QED
    BY <1>1, <2>1, <2>2 DEF WithArgs
<1>7. PICK I : I = WithArgs(list)
  OBVIOUS
<1>8. I \in SUBSET (1 .. Len(list))
  BY <1>1, <1>7 DEF WithArgs
<1>9. IsFiniteSet(I) /\ Cardinality(I) \in Nat
  BY <1>1, <1>8, Indices
<1>10. Cardinality(I) # 0
  BY <1>6, <1>7, <1>9, FS_EmptySet
<1>11. QED
  BY <1>7, <1>9, <1>10

(***************************************************************************)
(* A converted list of plugin configurations has no plugin twice, and has  *)
(* for the wrapper of a plugin the arguments of the plugin.  There is a    *)
(* wrapper among them, which has no default arguments.                     *)
(***************************************************************************)
LEMMA NewPluginConfigIs ==
    ASSUME NEW pc, NEW new, new = NewPluginConfig(pc)
    PROVE  /\ \A j, k \in DOMAIN new :
                 /\ new[j].name = new[k].name => j = k
                 /\ new[j].name = pluginName(new[k].name) => new[j].object = new[k].object
           /\ \E k \in DOMAIN new : new[k].name \notin DOMAIN DefaultArgs
<1> DEFINE args == Arguments(pc)
           D == DOMAIN DefaultArgs
           m == Cardinality(D)
           I == WithArgs(defaultFilterScorePlugins)
           n == Cardinality(I)
<1>1. PICK names : names = SetToSeq(D)
  OBVIOUS
<1>2. PICK wrapped : wrapped = Sublist(defaultFilterScorePlugins, I)
  OBVIOUS
<1>3. /\ m \in Nat /\ names \in [1 .. m -> D]
      /\ \A i, j \in 1 .. m : names[i] = names[j] => i = j
  BY <1>1, NamesWithArgs DEF IsInjective
<1>4. /\ n \in Nat /\ n # 0 /\ DOMAIN wrapped = 1 .. n
      /\ \A k \in 1 .. n : wrapped[k].name \in D
      /\ \A k, l \in 1 .. n : wrapped[k].name = wrapped[l].name => k = l
  BY <1>2, WrappedWithArgs, SomeWrapperHasArgs
<1>5. D \subseteq PlainNames
  BY PluginAssumption
<1> DEFINE own == [i \in 1 .. m |-> ConfigEntry(names[i], args[names[i]])]
           wrap == [i \in 1 .. n |-> ConfigEntry(pluginName(wrapped[i].name),
                                                 args[wrapped[i].name])]
<1>6. new = own \o wrap
  BY <1>1, <1>2, <1>3, <1>4 DEF NewPluginConfig
<1> HIDE DEF args, D, m, I, n
<1>7. \A i \in 1 .. m : own[i].name = names[i] /\ own[i].object = args[names[i]]
  BY DEF ConfigEntry
<1>8. \A i \in 1 .. n : /\ wrap[i].name = pluginName(wrapped[i].name)
                        /\ wrap[i].object = args[wrapped[i].name]
  BY DEF ConfigEntry
<1>9. /\ DOMAIN new = 1 .. m + n
      /\ \A i \in 1 .. m : new[i] = own[i]
      /\ \A i \in m + 1 .. m + n : i - m \in 1 .. n /\ new[i] = wrap[i - m]
  <2> DEFINE S == {own[i] : i \in 1 .. m} \cup {wrap[i] : i \in 1 .. n}
  <2>1. own \in [1 .. m -> S] /\ wrap \in [1 .. n -> S]
    OBVIOUS
  <2> HIDE DEF own, wrap, S
  <2>2. own \in Seq(S) /\ wrap \in Seq(S) /\ Len(own) = m /\ Len(wrap) = n
    BY <1>3, <1>4, <2>1
  <2>3. /\ new \in Seq(S) /\ Len(new) = m + n
        /\ \A i \in 1 .. m + n : new[i] = IF i <= m THEN own[i] ELSE wrap[i - m]
    <3>1. /\ own \o wrap \in Seq(S)
          /\ Len(own \o wrap) = Len(own) + Len(wrap)
          /\ \A i \in 1 .. Len(own) + Len(wrap) :
                (own \o wrap)[i] = IF i <= Len(own) THEN own[i] ELSE wrap[i - Len(own)]
      BY <2>2, ConcatProperties, Zenon
    <3>2. QED
      BY <1>6, <2>2, <3>1, Zenon
  <2>4. /\ DOMAIN new = 1 .. m + n
        /\ \A i \in 1 .. m : i \in 1 .. m + n /\ i <= m
        /\ \A i \in m + 1 .. m + n : i \in 1 .. m + n /\ ~(i <= m) /\ i - m \in 1 .. n
    BY <1>3, <1>4, <2>3
  <2>5. QED
    BY <2>3, <2>4
<1> HIDE DEF own, wrap
<1>10. ASSUME NEW x \in D, NEW y \in D
       PROVE  x # pluginName(y) /\ (pluginName(x) = pluginName(y) => x = y)
  <2>1. x \in Seq(Words) /\ y \in Seq(Words) /\ x \in PlainNames
    BY <1>5, WrappingNames
  <2>2. QED
    BY <2>1, WrappingNames
<1>11. \E k \in DOMAIN new : new[k].name \notin D
  <2>1. m + 1 \in m + 1 .. m + n /\ m + 1 \in 1 .. m + n /\ (m + 1) - m = 1
    BY <1>3, <1>4
  <2>2. new[m + 1].name = pluginName(wrapped[1].name) /\ wrapped[1].name \in D
    BY <1>4, <1>8, <1>9, <2>1
  <2>3. QED
    BY <1>9, <1>10, <2>1, <2>2
<1> SUFFICES ASSUME NEW j \in DOMAIN new, NEW k \in DOMAIN new
             PROVE  /\ new[j].name = new[k].name => j = k
                    /\ new[j].name = pluginName(new[k].name)
                          => new[j].object = new[k].object
  BY <1>11 DEF D
<1>12. /\ j \in 1 .. m \/ j \in m + 1 .. m + n
       /\ k \in 1 .. m \/ k \in m + 1 .. m + n
  BY <1>3, <1>4, <1>9
<1>13. CASE j \in 1 .. m /\ k \in 1 .. m
  <2>1. /\ new[j].name = names[j] /\ new[k].name = names[k]
        /\ names[j] \in D /\ names[k] \in D
    BY <1>3, <1>7, <1>9, <1>13
  <2>2. QED
    BY <1>3, <1>10, <1>13, <2>1
<1>14. CASE j \in 1 .. m /\ k \in m + 1 .. m + n
  <2>1. /\ new[j].name = names[j] /\ names[j] \in D
        /\ new[k].name = pluginName(wrapped[k - m].name) /\ wrapped[k - m].name \in D
    BY <1>3, <1>4, <1>7, <1>8, <1>9, <1>14
  <2>2. names[j] # pluginName(pluginName(wrapped[k - m].name))
    <3>1. /\ wrapped[k - m].name \in Seq(Words) /\ names[j] \in PlainNames
      BY <1>5, <2>1, WrappingNames
    <3>2. QED
      BY <3>1, WrappingNames
  <2>3. QED
    BY <1>10, <2>1, <2>2
<1>15. CASE j \in m + 1 .. m + n /\ k \in 1 .. m
  <2>1. /\ new[k].name = names[k] /\ names[k] \in D /\ new[k].object = args[names[k]]
        /\ new[j].name = pluginName(wrapped[j - m].name) /\ wrapped[j - m].name \in D
        /\ new[j].object = args[wrapped[j - m].name]
    BY <1>3, <1>4, <1>7, <1>8, <1>9, <1>15
  <2>2. QED
    BY <1>10, <2>1
<1>16. CASE j \in m + 1 .. m + n /\ k \in m + 1 .. m + n
  <2>1. /\ new[j].name = pluginName(wrapped[j - m].name) /\ wrapped[j - m].name \in D
        /\ new[k].name = pluginName(wrapped[k - m].name) /\ wrapped[k - m].name \in D
        /\ j - m \in 1 .. n /\ k - m \in 1 .. n
    BY <1>4, <1>8, <1>9, <1>16
  <2>2. new[j].name = new[k].name => j - m = k - m
    BY <1>4, <1>10, <2>1
  <2>3. j - m = k - m => j = k
    BY <1>3, <1>4, <1>16
  <2>4. new[j].name # pluginName(new[k].name)
    <3>1. /\ wrapped[j - m].name \in Seq(Words) /\ wrapped[k - m].name \in Seq(Words)
          /\ wrapped[j - m].name \in PlainNames
      BY <1>5, <2>1, WrappingNames
    <3>2. pluginName(wrapped[k - m].name) \in Seq(Words) \ PlainNames
      BY <3>1, WrappingNames
    <3>3. QED
      BY <2>1, <3>1, <3>2, WrappingNames
  <2>5. QED
    BY <2>2, <2>3, <2>4
<1>17. QED
  BY <1>12, <1>13, <1>14, <1>15, <1>16

----------------------------------------------------------------------------
(* The conversion of all profiles.                                         *)

(***************************************************************************)
(* A loop is ok only if all its steps are: of steps that are not, there is *)
(* a first one, which ends it.                                             *)
(***************************************************************************)
LEMMA LoopIsOk ==
    ASSUME NEW n \in Nat, NEW steps, DOMAIN steps = 1 .. n,
           \A i \in 1 .. n : steps[i] \in {"ok", "error", "panic"},
           LoopOutcome(steps) = "ok"
    PROVE  \A i \in 1 .. n : steps[i] = "ok"
<1> DEFINE bad == {i \in 1 .. n : steps[i] # "ok"}
<1> SUFFICES ASSUME bad # {} PROVE FALSE
  OBVIOUS
<1>1. bad \subseteq Nat
  OBVIOUS
<1>2. PICK i \in bad : \A j \in bad : <<j, i>> \notin OpToRel(<, Nat)
  <2> HIDE DEF bad
  <2>1. QED
    BY <1>1, NatLessThanWellFounded, WFMin
<1>3. ASSUME NEW j \in bad PROVE ~(j < i)
  <2>1. i \in Nat /\ j \in Nat
    BY <1>1
  <2>2. QED
    BY <1>2, <2>1 DEF OpToRel
<1>4. \A j \in DOMAIN steps : j < i => steps[j] = "ok"
  BY <1>3
<1>5. i \in DOMAIN steps /\ steps[i] \in {"error", "panic"}
  OBVIOUS
<1>6. LoopOutcome(steps) # "ok"
  BY <1>4, <1>5 DEF LoopOutcome
<1>7. QED
  BY <1>6

\* A loop has one of three outcomes.
LEMMA LoopOutcomeIs ==
    ASSUME NEW steps
    PROVE  LoopOutcome(steps) \in {"ok", "error", "panic"}
BY DEF LoopOutcome

\* NewPluginConfig succeeds, fails or panics.
LEMMA ConfigOutcomeType ==
    ASSUME NEW pc
    PROVE  ConfigOutcome(pc) \in {"ok", "error", "panic"}
<1>1. PICK steps : ConfigOutcome(pc) \in {LoopOutcome(steps), "panic"}
  BY DEF ConfigOutcome
<1>2. QED
  BY <1>1, LoopOutcomeIs

(***************************************************************************)
(* A conversion that is ok has converted every profile.                    *)
(***************************************************************************)
LEMMA EveryProfileIsConverted ==
    ASSUME NEW profs, Len(profs) \in Nat, DOMAIN profs = 1 .. Len(profs),
           NEW c, c = convertConfigurationForSimulator(profs), c.outcome = "ok",
           NEW given, given = GivenProfiles(profs)
    PROVE  /\ DOMAIN c.profiles = DOMAIN given
           /\ \A i \in DOMAIN given :
                 /\ ConfigOutcome(given[i].pluginConfig) = "ok"
                 /\ c.profiles[i] = ConvertProfile(given[i])
<1> DEFINE steps == [i \in DOMAIN given |-> ConfigOutcome(given[i].pluginConfig)]
<1>1. PICK n \in Nat : DOMAIN given = 1 .. n
  <2>1. CASE profs = <<>>
    <3>1. DOMAIN given = 1 .. 1
      BY <2>1 DEF GivenProfiles
    <3>2. QED
      BY <3>1
  <2>2. CASE profs # <<>>
    BY <2>2 DEF GivenProfiles
  <2>3. QED
    BY <2>1, <2>2
<1>2. /\ DOMAIN steps = 1 .. n
      /\ \A i \in 1 .. n : steps[i] \in {"ok", "error", "panic"}
  BY <1>1, ConfigOutcomeType
<1>3. LoopOutcome(steps) = "ok"
  BY DEF convertConfigurationForSimulator
<1>4. \A i \in 1 .. n : steps[i] = "ok"
  <2> HIDE DEF steps
  <2>1. QED
    BY <1>2, <1>3, LoopIsOk
<1>5. \A i \in DOMAIN given : ConfigOutcome(given[i].pluginConfig) = "ok"
  BY <1>1, <1>4
<1>6. c.profiles = [i \in DOMAIN given |->
                       IF \A j \in DOMAIN given : j < i => steps[j] = "ok"
                       THEN ConvertProfile(given[i]) ELSE given[i]]
  BY DEF convertConfigurationForSimulator
<1>7. \A i \in DOMAIN given : c.profiles[i] = ConvertProfile(given[i])
  <2> HIDE DEF steps
  <2>1. QED
    BY <1>1, <1>4, <1>6
<1>8. QED
  BY <1>5, <1>6, <1>7

(***************************************************************************)
(* An object that was converted, wholly or up to an error, is not          *)
(* converted again: its first profile has the configuration of a wrapper,  *)
(* or still the one that failed.                                           *)
(***************************************************************************)
LEMMA SecondConversionFails ==
    ASSUME NEW profs, Len(profs) \in Nat,
           profs = [i \in 1 .. Len(profs) |-> profs[i]],
           NEW again, again = convertConfigurationForSimulator(profs).profiles
    PROVE  convertConfigurationForSimulator(again).outcome # "ok"
<1>1. PICK given : given = GivenProfiles(profs)
  OBVIOUS
<1>2. PICK n \in Nat \ {0} : DOMAIN given = 1 .. n
  <2>1. CASE profs = <<>>
    <3>1. DOMAIN given = 1 .. 1
      BY <1>1, <2>1 DEF GivenProfiles
    <3>2. 1 \in Nat \ {0}
      OBVIOUS
    <3>3. QED
      BY <3>1, <3>2, Zenon
  <2>2. CASE profs # <<>>
    <3>1. Len(profs) # 0
      <4> SUFFICES ASSUME Len(profs) = 0 PROVE FALSE
        OBVIOUS
      <4>1. 1 .. Len(profs) = {}
        OBVIOUS
      <4>2. QED
        BY <2>2, <4>1
    <3>2. given = profs /\ DOMAIN profs = 1 .. Len(profs)
      BY <1>1, <2>2 DEF GivenProfiles
    <3>3. QED
      BY <3>1, <3>2
  <2>3. QED
    BY <2>1, <2>2
<1>3. 1 \in 1 .. n
  OBVIOUS
<1>4. DOMAIN again = 1 .. n /\ again[1] = ConvertProfile(given[1])
  <2>1. PICK steps : steps = [i \in DOMAIN given |-> ConfigOutcome(given[i].pluginConfig)]
    OBVIOUS
  <2>2. again = [i \in DOMAIN given |->
                    IF \A j \in DOMAIN given : j < i => steps[j] = "ok"
                    THEN ConvertProfile(given[i]) ELSE given[i]]
    BY <1>1, <2>1 DEF convertConfigurationForSimulator
  <2>3. \A j \in DOMAIN given : ~(j < 1)
    BY <1>2
  <2>4. QED
    BY <1>2, <1>3, <2>2, <2>3
<1>5. again # <<>>
  BY <1>3, <1>4
<1>6. GivenProfiles(again) = again
  BY <1>5 DEF GivenProfiles
<1>7. ConfigOutcome(again[1].pluginConfig) # "ok"
  <2>1. PICK pc : pc = given[1].pluginConfig
    OBVIOUS
  <2>2. CASE ConfigOutcome(pc) # "ok"
    <3>1. again[1].pluginConfig = pc
      BY <1>4, <2>1, <2>2 DEF ConvertProfile
    <3>2. QED
      BY <2>2, <3>1
  <2>3. CASE ConfigOutcome(pc) = "ok"
    <3>1. PICK new : new = again[1].pluginConfig
      OBVIOUS
    <3>2. new = NewPluginConfig(pc)
      BY <1>4, <2>1, <2>3, <3>1 DEF ConvertProfile
    <3>3. \E k \in DOMAIN new : new[k].name \notin DOMAIN DefaultArgs
      BY <3>2, NewPluginConfigIs
    <3>4. ConfigOutcome(new) # "ok"
      BY <3>3 DEF ConfigOutcome
    <3>5. QED
      BY <3>1, <3>4
  <2>4. QED
    BY <2>2, <2>3
<1>8. PICK steps : steps = [i \in DOMAIN again |-> ConfigOutcome(again[i].pluginConfig)]
  OBVIOUS
<1>9. convertConfigurationForSimulator(again).outcome = LoopOutcome(steps)
  BY <1>6, <1>8 DEF convertConfigurationForSimulator
<1>10. /\ DOMAIN steps = 1 .. n
       /\ \A i \in 1 .. n : steps[i] \in {"ok", "error", "panic"}
  BY <1>4, <1>8, ConfigOutcomeType
<1>11. steps[1] # "ok"
  BY <1>3, <1>4, <1>7, <1>8
<1>12. QED
  BY <1>3, <1>9, <1>10, <1>11, LoopIsOk
=============================================================================
