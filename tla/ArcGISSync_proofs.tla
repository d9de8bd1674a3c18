-------------------------- MODULE ArcGISSync_proofs --------------------------
(***************************************************************************)
(* Theorems about ArcGISSync, for any number of observations, batches and  *)
(* chains of cycles, every page size, and any number of writes, saves of   *)
(* the configuration, failed requests and crashes.                         *)
(***************************************************************************)
EXTENDS ArcGISSync, FiniteSetTheorems, SequenceTheorems, WellFoundedInduction, TLAPS

(***************************************************************************)
(* The inductive invariant, in parts.                                      *)
(***************************************************************************)
(* Every write has a time of its own, and a save of the configuration that *)
(* changes it is counted.                                                  *)
ClockInv ==
    /\ now <= MaxTime
    /\ config <= upsets + 1
    /\ \A o \in Observations : doc[o].ver <= now
    /\ \A o, x \in Observations : doc[o].ver = doc[x].ver => o = x

(* What a batch and a cycle hold in each of their phases. *)
PhaseInv ==
    /\ \A b \in DOMAIN batch :
        /\ batch[b].at = "query" =>
            batch[b].bins = NoBins /\ batch[b].asked = {} /\ batch[b].deletions = {}
        /\ batch[b].at = "send" => batch[b].items = <<>>
    /\ \A l \in Chains : loop[l].at # "send" => loop[l].bins = NoBins

(* Where an observation may be that can become a feature. *)
Asks(bt, o)    == \E i \in bt.asked : i.obs = o
Adds(bt, o)    == o \in Of(bt.bins.adds)
Carries(bt, o) == o \in Of(bt.items) \/ Adds(bt, o) \/ Asks(bt, o)
Pends(p, o)    == o \in Of(pending[p].adds)
Sends(l, o)    == o \in Of(loop[l].bins.adds)

(* It is in one batch, in what one processor has pending, or in what one   *)
(* cycle sends, ...                                                        *)
AloneInv(o) ==
    /\ \A b, c \in DOMAIN batch : Carries(batch[b], o) /\ Carries(batch[c], o) => b = c
    /\ \A p, q \in Processors : Pends(p, o) /\ Pends(q, o) => p = q
    /\ \A k, l \in Chains : Sends(k, o) /\ Sends(l, o) => k = l
    /\ \A b \in DOMAIN batch, p \in Processors : ~(Carries(batch[b], o) /\ Pends(p, o))
    /\ \A b \in DOMAIN batch, l \in Chains : ~(Carries(batch[b], o) /\ Sends(l, o))
    /\ \A p \in Processors, l \in Chains : ~(Pends(p, o) /\ Sends(l, o))

(* ... there once, ...                                                     *)
Once(items, o) == \A i, j \in DOMAIN items : items[i].obs = o /\ items[j].obs = o => i = j

OnceIn(bt, o) ==
    /\ Once(bt.items, o) /\ Once(bt.bins.adds, o)
    /\ \A i, j \in bt.asked : i.obs = o /\ j.obs = o => i = j
    /\ ~(Adds(bt, o) /\ Asks(bt, o))

OnceInv(o) ==
    /\ \A b \in DOMAIN batch : OnceIn(batch[b], o)
    /\ \A p \in Processors : Once(pending[p].adds, o)
    /\ \A l \in Chains : Once(loop[l].bins.adds, o)

(* ... and has no feature when it is about to be added.                    *)
NewInv(o) ==
    /\ \A b \in DOMAIN batch : Adds(batch[b], o) => Features(o) = {}
    /\ \A p \in Processors : Pends(p, o) => Features(o) = {}
    /\ \A l \in Chains : Sends(l, o) => Features(o) = {}

SingleInv(o) == \A f, g \in Features(o) : f = g

FeatureInv(o) == AloneInv(o) /\ OnceInv(o) /\ NewInv(o) /\ SingleInv(o)

StateInv == TypeOK /\ ClockInv /\ PhaseInv

SyncInv == StateInv /\ \A o \in Observations \ again : FeatureInv(o)

-----------------------------------------------------------------------------
(***************************************************************************)
(* Lists: what the operators of the model return for every list.           *)
(***************************************************************************)
LEMMA LeastNatural ==
  ASSUME NEW S \in SUBSET Nat, S # {}
  PROVE  \E m \in S : \A n \in S : m <= n
<1> DEFINE Less == OpToRel(<, Nat)
<1>1. IsWellFoundedOn(Less, Nat)
  BY NatLessThanWellFounded
<1>2. PICK m \in S : \A n \in S : <<n, m>> \notin Less
  <2> HIDE DEF Less
  <2> QED  BY <1>1, WFMin
<1>3. \A n \in S : ~(n < m)
  BY <1>2 DEF OpToRel
<1> QED  BY <1>3

LEMMA GreatestNatural ==
  ASSUME NEW n \in Nat, NEW S \in SUBSET (0..n), S # {}
  PROVE  Max(S) \in S /\ \A k \in S : k <= Max(S)
<1> DEFINE gaps == {n - m : m \in S}
<1>1. PICK r \in gaps : \A s \in gaps : r <= s
  <2>1. \A m \in S : n - m \in Nat
    OBVIOUS
  <2>2. gaps \in SUBSET Nat /\ gaps # {}
    BY <2>1
  <2> HIDE DEF gaps
  <2> QED  BY <2>2, LeastNatural
<1>2. PICK m \in S : r = n - m
  OBVIOUS
<1>3. \A k \in S : m >= k
  <2> TAKE k \in S
  <2>1. n - k \in gaps
    OBVIOUS
  <2>2. n - m <= n - k
    BY <1>1, <1>2, <2>1
  <2> QED  BY <2>2
<1>4. Max(S) \in S /\ \A k \in S : Max(S) >= k
  BY <1>3 DEF Max
<1> QED  BY <1>4

(* The function that Kept is defined by follows its own equation. *)
LEMMA KeptFunction ==
  ASSUME NEW S, NEW items \in Seq(S), NEW obs
  PROVE  \E kept :
            /\ kept = [n \in 0..Len(items) |->
                          IF n = 0 THEN <<>>
                          ELSE IF items[n].obs \in obs THEN Append(kept[n - 1], items[n])
                          ELSE kept[n - 1]]
            /\ Kept(items, obs) = kept[Len(items)]
<1> DEFINE Follows(f, k) ==
        f = [n \in 0..k |->
                IF n = 0 THEN <<>>
                ELSE IF items[n].obs \in obs THEN Append(f[n - 1], items[n]) ELSE f[n - 1]]
           bad == {k \in 0..Len(items) : ~\E f : Follows(f, k)}
<1>1. bad = {}
  <2> SUFFICES ASSUME bad # {} PROVE FALSE
    OBVIOUS
  <2>1. PICK m \in bad : \A n \in bad : m <= n
    <3>1. bad \in SUBSET Nat
      OBVIOUS
    <3> HIDE DEF bad
    <3> QED  BY <3>1, LeastNatural
  <2>2. m # 0
    <3>1. Follows([n \in 0..0 |-> <<>>], 0)
      OBVIOUS
    <3> QED  BY <3>1
  <2>3. m \in 0..Len(items) /\ m - 1 \in 0..Len(items) /\ m - 1 \notin bad
    <3>1. m \in 0..Len(items) /\ \A n \in bad : m <= n
      BY <2>1
    <3>2. m - 1 \in 0..Len(items) /\ ~(m <= m - 1)
      BY <2>2, <3>1
    <3> HIDE DEF bad
    <3> QED  BY <3>1, <3>2
  <2>4. PICK f : Follows(f, m - 1)
    BY <2>3
  <2> DEFINE g == [n \in 0..m |->
                      IF n < m THEN f[n]
                      ELSE IF items[m].obs \in obs THEN Append(f[m - 1], items[m]) ELSE f[m - 1]]
             h == [n \in 0..m |->
                      IF n = 0 THEN <<>>
                      ELSE IF items[n].obs \in obs THEN Append(g[n - 1], items[n]) ELSE g[n - 1]]
  <2>5. \A n \in 0..m : g[n] = h[n]
    <3> TAKE n \in 0..m
    <3>1. CASE n = 0
      BY <2>2, <2>4, <3>1
    <3>2. CASE n # 0 /\ n < m
      <4>1. n \in 0..(m - 1) /\ n - 1 \in 0..(m - 1) /\ n - 1 \in 0..m /\ n - 1 < m
        BY <3>2
      <4>2. f[n] = IF items[n].obs \in obs THEN Append(f[n - 1], items[n]) ELSE f[n - 1]
        BY <2>4, <3>2, <4>1
      <4>3. g[n] = f[n] /\ g[n - 1] = f[n - 1]
        BY <3>2, <4>1
      <4> QED  BY <3>2, <4>2, <4>3
    <3>3. CASE n = m
      <4>1. m - 1 \in 0..m /\ m - 1 < m
        BY <2>2
      <4>2. g[m - 1] = f[m - 1]
        BY <4>1
      <4> QED  BY <2>2, <3>3, <4>2
    <3> QED  BY <3>1, <3>2, <3>3
  <2>6. g = h
    BY <2>5
  <2>7. Follows(g, m)
    BY <2>6
  <2> QED  BY <2>1, <2>7
<1>2. \E f : Follows(f, Len(items))
  <2>1. Len(items) \in 0..Len(items)
    OBVIOUS
  <2> QED  BY <1>1, <2>1
<1> DEFINE kept == CHOOSE f : Follows(f, Len(items))
<1>3. Follows(kept, Len(items))
  BY <1>2
<1>4. Kept(items, obs) = kept[Len(items)]
  BY DEF Kept
<1> HIDE DEF kept
<1> QED  BY <1>3, <1>4

(* What is kept are items of the list, of the observations asked for, in   *)
(* the order of the list.                                                  *)
LEMMA KeptPicks ==
  ASSUME NEW S, NEW items \in Seq(S), NEW obs
  PROVE  /\ Kept(items, obs) \in Seq(S)
         /\ \E pick \in [1..Len(Kept(items, obs)) -> 1..Len(items)] :
               /\ \A j \in 1..Len(Kept(items, obs)) :
                     Kept(items, obs)[j] = items[pick[j]] /\ items[pick[j]].obs \in obs
               /\ \A i, j \in 1..Len(Kept(items, obs)) : i < j => pick[i] < pick[j]
<1> DEFINE value(f, n) == IF n = 0 THEN <<>>
                          ELSE IF items[n].obs \in obs THEN Append(f[n - 1], items[n])
                          ELSE f[n - 1]
<1>1. PICK kept :
            /\ kept = [n \in 0..Len(items) |-> value(kept, n)]
            /\ Kept(items, obs) = kept[Len(items)]
  BY KeptFunction
<1> DEFINE Picks(list, n, pick) ==
        /\ pick \in [1..Len(list) -> 1..n]
        /\ \A j \in 1..Len(list) : list[j] = items[pick[j]] /\ items[pick[j]].obs \in obs
        /\ \A i, j \in 1..Len(list) : i < j => pick[i] < pick[j]
           Good(n) == kept[n] \in Seq(S) /\ \E pick : Picks(kept[n], n, pick)
           bad == {n \in 0..Len(items) : ~Good(n)}
<1>2. kept[0] = <<>>
  <2>1. 0 \in 0..Len(items) /\ value(kept, 0) = <<>>
    OBVIOUS
  <2> HIDE DEF value
  <2> QED  BY <1>1, <2>1
<1>3. \A n \in 1..Len(items) :
        kept[n] = IF items[n].obs \in obs THEN Append(kept[n - 1], items[n]) ELSE kept[n - 1]
  <2> TAKE n \in 1..Len(items)
  <2>1. n \in 0..Len(items) /\ n # 0
    OBVIOUS
  <2>2. kept[n] = value(kept, n)
    <3> HIDE DEF value
    <3> QED  BY <1>1, <2>1
  <2> QED  BY <2>1, <2>2
<1>4. Good(0)
  <2>1. Len(<<>>) = 0 /\ 1..0 = {}
    OBVIOUS
  <2>2. Picks(<<>>, 0, [j \in {} |-> 0])
    BY <2>1
  <2>3. <<>> \in Seq(S)
    OBVIOUS
  <2> HIDE DEF Picks
  <2> QED  BY <1>2, <2>2, <2>3
<1>5. ASSUME NEW n \in 1..Len(items), Good(n - 1)
      PROVE  Good(n)
  <2>1. PICK p : Picks(kept[n - 1], n - 1, p)
    BY <1>5
  <2> DEFINE list == kept[n - 1]
  <2>2. list \in Seq(S) /\ Len(list) \in Nat
    BY <1>5
  <2>3. CASE items[n].obs \notin obs
    <3>1. kept[n] = list
      BY <1>3, <2>3
    <3>2. Picks(list, n, p)
      BY <2>1
    <3> QED  BY <2>2, <3>1, <3>2
  <2>4. CASE items[n].obs \in obs
    <3> DEFINE q == [j \in 1..(Len(list) + 1) |-> IF j <= Len(list) THEN p[j] ELSE n]
    <3>0. items[n] \in S
      OBVIOUS
    <3>1. kept[n] = Append(list, items[n]) /\ items[n] \in S
      BY <1>3, <2>4, <3>0
    <3> HIDE DEF list
    <3>2. Append(list, items[n]) \in Seq(S) /\ Len(Append(list, items[n])) = Len(list) + 1
      BY <2>2, <3>1
    <3>3. \A j \in 1..Len(list) : Append(list, items[n])[j] = list[j] /\ q[j] = p[j]
      BY <2>2, <3>1
    <3>4. Append(list, items[n])[Len(list) + 1] = items[n] /\ q[Len(list) + 1] = n
      BY <2>2, <3>1
    <3>5. \A j \in 1..Len(list) : p[j] \in 1..(n - 1)
      BY <2>1 DEF list
    <3>6. \A j \in 1..(Len(list) + 1) : j \in 1..Len(list) \/ j = Len(list) + 1
      BY <2>2
    <3>7. q \in [1..(Len(list) + 1) -> 1..n]
      BY <3>5
    <3>8. \A j \in 1..(Len(list) + 1) :
            Append(list, items[n])[j] = items[q[j]] /\ items[q[j]].obs \in obs
      <4>1. \A j \in 1..Len(list) : list[j] = items[p[j]] /\ items[p[j]].obs \in obs
        BY <2>1 DEF list
      <4> HIDE DEF q
      <4> QED  BY <2>4, <3>3, <3>4, <3>6, <4>1
    <3>9. \A i, j \in 1..(Len(list) + 1) : i < j => q[i] < q[j]
      <4> TAKE i, j \in 1..(Len(list) + 1)
      <4> HAVE i < j
      <4>1. i \in 1..Len(list) /\ q[i] = p[i]
        BY <2>2, <3>3
      <4>2. CASE j \in 1..Len(list)
        BY <2>1, <3>3, <4>1, <4>2 DEF list
      <4>3. CASE j = Len(list) + 1
        BY <3>4, <3>5, <4>1, <4>3
      <4> QED  BY <3>6, <4>2, <4>3
    <3>10. Picks(Append(list, items[n]), n, q)
      <4> HIDE DEF q
      <4> QED  BY <3>2, <3>7, <3>8, <3>9
    <3> HIDE DEF Picks, q
    <3> QED  BY <3>1, <3>2, <3>10
  <2> QED  BY <2>3, <2>4
<1>6. bad = {}
  <2> HIDE DEF Good
  <2> SUFFICES ASSUME bad # {} PROVE FALSE
    OBVIOUS
  <2>1. PICK m \in bad : \A n \in bad : m <= n
    <3>1. bad \in SUBSET Nat
      OBVIOUS
    <3> HIDE DEF bad
    <3> QED  BY <3>1, LeastNatural
  <2>2. m \in 0..Len(items) /\ ~Good(m) /\ m # 0
    BY <1>4, <2>1
  <2>3. m \in 1..Len(items) /\ m - 1 \in 0..Len(items) /\ ~(m <= m - 1)
    BY <2>2
  <2>4. Good(m - 1)
    BY <2>1, <2>3
  <2> QED  BY <1>5, <2>2, <2>3, <2>4
<1>7. Good(Len(items))
  BY <1>6
<1>8. PICK pick : Picks(Kept(items, obs), Len(items), pick)
  <2> HIDE DEF Picks
  <2> QED  BY <1>1, <1>7
<1> QED  BY <1>1, <1>7, <1>8

LEMMA KeptOnce ==
  ASSUME NEW S, NEW items \in Seq(S), NEW obs
  PROVE  /\ Kept(items, obs) \in Seq(S)
         /\ Of(Kept(items, obs)) \subseteq Of(items) \cap obs
         /\ \A o : Once(items, o) => Once(Kept(items, obs), o)
<1> DEFINE kept == Kept(items, obs)
<1>1. kept \in Seq(S)
  BY KeptPicks
<1>2. PICK pick \in [1..Len(kept) -> 1..Len(items)] :
        /\ \A j \in 1..Len(kept) : kept[j] = items[pick[j]] /\ items[pick[j]].obs \in obs
        /\ \A i, j \in 1..Len(kept) : i < j => pick[i] < pick[j]
  BY KeptPicks
<1> HIDE DEF kept
<1>3. DOMAIN kept = 1..Len(kept) /\ DOMAIN items = 1..Len(items)
  BY <1>1
<1>4. Of(kept) \subseteq Of(items) \cap obs
  BY <1>2, <1>3 DEF Of
<1>5. ASSUME NEW o, Once(items, o)
      PROVE  Once(kept, o)
  <2> SUFFICES ASSUME NEW i \in 1..Len(kept), NEW j \in 1..Len(kept),
                      kept[i].obs = o, kept[j].obs = o
               PROVE  i = j
    BY <1>3 DEF Once
  <2>1. pick[i] \in 1..Len(items) /\ pick[j] \in 1..Len(items) /\ pick[i] = pick[j]
    BY <1>2, <1>3, <1>5 DEF Once
  <2>2. Len(kept) \in Nat /\ Len(items) \in Nat
    BY <1>1
  <2> QED  BY <1>2, <2>1, <2>2
<1> QED  BY <1>1, <1>4, <1>5 DEF kept

(* An observation that is in a list at most once is kept at most once.     *)
LEMMA KeptOwn ==
  ASSUME NEW S, NEW items \in Seq(S), NEW o
  PROVE  /\ o \notin Of(items) => Kept(items, {o}) = <<>>
         /\ Once(items, o) => Len(Kept(items, {o})) <= 1
<1> DEFINE kept == Kept(items, {o})
<1>1. kept \in Seq(S) /\ Of(kept) \subseteq Of(items) \cap {o}
  BY KeptOnce
<1>2. Once(items, o) => Once(kept, o)
  BY KeptOnce
<1> HIDE DEF kept
<1>3. Len(kept) \in Nat /\ DOMAIN kept = 1..Len(kept)
  BY <1>1
<1>4. \A j \in 1..Len(kept) : kept[j].obs = o
  BY <1>1, <1>3 DEF Of
<1>5. ASSUME o \notin Of(items) PROVE kept = <<>>
  <2>1. Of(kept) = {}
    BY <1>1, <1>5
  <2>2. 1 \notin 1..Len(kept)
    BY <1>3, <2>1 DEF Of
  <2>3. Len(kept) = 0
    BY <1>3, <2>2
  <2> QED  BY <1>1, <2>3
<1>6. ASSUME Once(items, o) PROVE Len(kept) <= 1
  <2> SUFFICES ASSUME Len(kept) >= 2 PROVE FALSE
    BY <1>3
  <2>1. 1 \in 1..Len(kept) /\ 2 \in 1..Len(kept)
    BY <1>3
  <2> QED  BY <1>2, <1>3, <1>4, <1>6, <2>1 DEF Once
<1> QED  BY <1>5, <1>6 DEF kept

(***************************************************************************)
(* The observations modified after a time can be sorted, as every write    *)
(* has a time of its own.                                                  *)
(***************************************************************************)
Sorted(s, found) ==
    /\ s \in [1..Cardinality(found) -> found]
    /\ \A i, j \in DOMAIN s : i < j => doc[s[i]].ver < doc[s[j]].ver

LEMMA SortedExists ==
  ASSUME doc \in [Observations -> [ver : Times, archived : BOOLEAN, early : BOOLEAN]],
         \A o, x \in Observations : doc[o].ver = doc[x].ver => o = x
  PROVE  \A found \in SUBSET Observations : \E s : Sorted(s, found)
<1> DEFINE bad == {found \in SUBSET Observations : ~\E s : Sorted(s, found)}
<1>1. IsFiniteSet(Observations)
  BY FS_Interval, ArcGISAssumption DEF Observations
<1>2. SUFFICES ASSUME bad # {} PROVE FALSE
  OBVIOUS
<1>3. PICK S \in bad : \A U \in bad : <<U, S>> \notin StrictSubsetOrdering(Observations)
  <2>1. IsWellFoundedOn(StrictSubsetOrdering(Observations), SUBSET Observations)
    BY <1>1, FS_StrictSubsetOrderingWellFounded, FS_FiniteSubsetsOfFinite
  <2>2. bad \subseteq SUBSET Observations
    OBVIOUS
  <2> HIDE DEF bad
  <2> QED  BY <1>2, <2>1, <2>2, WFMin
<1>4. S \in SUBSET Observations /\ IsFiniteSet(S) /\ ~\E s : Sorted(s, S)
  BY <1>1, <1>3, FS_Subset
<1>5. S # {}
  <2>1. SUFFICES ASSUME S = {} PROVE \E s : Sorted(s, S)
    BY <1>4
  <2>2. Cardinality(S) = 0 /\ 1..0 = {}
    BY <2>1, FS_EmptySet
  <2>3. Sorted([j \in {} |-> 0], S)
    BY <2>1, <2>2 DEF Sorted
  <2> QED  BY <2>3
<1> DEFINE versions == {doc[o].ver : o \in S}
<1>6. PICK x \in S : \A o \in S : doc[o].ver <= doc[x].ver
  <2>1. versions \in SUBSET (0..(MaxTime + 1)) /\ versions # {}
    BY <1>4, <1>5 DEF Times
  <2>0. MaxTime + 1 \in Nat
    BY ArcGISAssumption
  <2>2. Max(versions) \in versions /\ \A v \in versions : v <= Max(versions)
    <3> HIDE DEF versions
    <3> QED  BY <2>1, <2>0, GreatestNatural
  <2>3. PICK x \in S : doc[x].ver = Max(versions)
    BY <2>2
  <2>4. \A o \in S : doc[o].ver \in versions
    OBVIOUS
  <2> HIDE DEF versions
  <2> QED  BY <2>2, <2>3, <2>4
<1>7. \A o \in S \ {x} : doc[o].ver < doc[x].ver
  BY <1>4, <1>6 DEF Times
<1>8. PICK r : Sorted(r, S \ {x})
  <2>1. S \ {x} \in SUBSET Observations /\ <<S \ {x}, S>> \in StrictSubsetOrdering(Observations)
    BY <1>4, <1>6 DEF StrictSubsetOrdering
  <2> QED  BY <1>3, <2>1
<1> DEFINE n == Cardinality(S \ {x})
           s == [i \in 1..(n + 1) |-> IF i <= n THEN r[i] ELSE x]
<1>9. n \in Nat /\ Cardinality(S) = n + 1
  BY <1>4, <1>6, FS_RemoveElement, FS_CardinalityType, FS_Subset
<1>10. r \in [1..n -> S \ {x}] /\ \A i, j \in 1..n : i < j => doc[r[i]].ver < doc[r[j]].ver
  BY <1>8 DEF Sorted
<1> HIDE DEF n
<1>11. s \in [1..(n + 1) -> S]
  BY <1>6, <1>9, <1>10
<1>12. \A i, j \in 1..(n + 1) : i < j => doc[s[i]].ver < doc[s[j]].ver
  <2> TAKE i, j \in 1..(n + 1)
  <2> HAVE i < j
  <2>1. i \in 1..n /\ s[i] = r[i]
    BY <1>9
  <2>2. CASE j \in 1..n
    BY <1>9, <1>10, <2>1, <2>2
  <2>3. CASE j = n + 1
    <3>1. s[j] = x /\ r[i] \in S \ {x}
      BY <1>9, <1>10, <2>1, <2>3
    <3> QED  BY <1>7, <2>1, <3>1
  <2> QED  BY <1>9, <2>2, <2>3
<1>13. Sorted(s, S)
  <2> HIDE DEF s
  <2> QED  BY <1>9, <1>11, <1>12 DEF Sorted
<1> QED  BY <1>4, <1>13

LEMMA FoundList ==
  ASSUME TypeOK, ClockInv, NEW t
  PROVE  /\ findLastModifiedAfter(t) \in Seq(Observations)
         /\ \A i, j \in DOMAIN findLastModifiedAfter(t) :
               findLastModifiedAfter(t)[i] = findLastModifiedAfter(t)[j] => i = j
<1> DEFINE found == {o \in Observations : doc[o].ver >= t}
           list  == findLastModifiedAfter(t)
<1>1. doc \in [Observations -> [ver : Times, archived : BOOLEAN, early : BOOLEAN]]
  BY DEF TypeOK
<1>2. \E s : Sorted(s, found)
  BY <1>1, SortedExists DEF ClockInv
<1>3. Sorted(list, found)
  BY <1>2 DEF Sorted, findLastModifiedAfter
<1>4. IsFiniteSet(found) /\ Cardinality(found) \in Nat
  <2>1. IsFiniteSet(Observations)
    BY FS_Interval, ArcGISAssumption DEF Observations
  <2> QED  BY <2>1, FS_Subset, FS_CardinalityType
<1>5. list \in [1..Cardinality(found) -> Observations]
  BY <1>3 DEF Sorted
<1> HIDE DEF found, list
<1>6. list \in Seq(Observations)
  BY <1>4, <1>5
<1>7. \A i, j \in DOMAIN list : list[i] = list[j] => i = j
  <2> SUFFICES ASSUME NEW i \in DOMAIN list, NEW j \in DOMAIN list, list[i] = list[j], i # j
               PROVE  FALSE
    OBVIOUS
  <2>1. i \in 1..Cardinality(found) /\ j \in 1..Cardinality(found) /\ (i < j \/ j < i)
    BY <1>4, <1>5
  <2>2. doc[list[i]].ver < doc[list[j]].ver \/ doc[list[j]].ver < doc[list[i]].ver
    BY <1>3, <2>1 DEF Sorted
  <2>3. list[i] \in Observations /\ doc[list[i]].ver \in Nat
    BY <1>1, <1>5, <2>1, ArcGISAssumption DEF Times
  <2> QED  BY <2>2, <2>3
<1> QED  BY <1>6, <1>7 DEF list

(***************************************************************************)
(* The layer after each kind of request.                                   *)
(***************************************************************************)
Shown(features) == {f \in DOMAIN features : features[f] # 0}

LEMMA AddedLayer ==
  ASSUME layer \in [Observations -> Seq(Times)], NEW adds \in Seq(Item)
  PROVE  /\ Added(adds) \in [Observations -> Seq(Times)]
         /\ \A o \in Observations :
               /\ o \notin Of(adds) => Added(adds)[o] = layer[o]
               /\ Once(adds, o) /\ Features(o) = {} =>
                     \A f, g \in Shown(Added(adds)[o]) : f = g
<1> SUFFICES ASSUME NEW o \in Observations
             PROVE  /\ Added(adds)[o] \in Seq(Times)
                    /\ o \notin Of(adds) => Added(adds)[o] = layer[o]
                    /\ Once(adds, o) /\ Features(o) = {} =>
                          \A f, g \in Shown(Added(adds)[o]) : f = g
  <2>1. Added(adds) = [o \in Observations |-> Added(adds)[o]]
    BY DEF Added
  <2> QED  BY <2>1
<1> DEFINE own  == Kept(adds, {o})
           tail == [i \in DOMAIN own |-> own[i].ver]
<1>1. own \in Seq(Item)
  BY KeptOnce
<1>2. Added(adds)[o] = layer[o] \o tail
  BY DEF Added
<1>3. o \notin Of(adds) => own = <<>>
  BY KeptOwn
<1>4. Once(adds, o) => Len(own) <= 1
  BY KeptOwn
<1> HIDE DEF own
<1>5. tail \in Seq(Times) /\ Len(tail) = Len(own)
  <2>1. Len(own) \in Nat /\ DOMAIN own = 1..Len(own) /\ \A i \in 1..Len(own) : own[i] \in Item
    BY <1>1
  <2>2. \A i \in 1..Len(own) : own[i].ver \in Times
    BY <2>1 DEF Item
  <2>3. tail \in [1..Len(own) -> Times]
    BY <2>1, <2>2
  <2> HIDE DEF tail
  <2> QED  BY <2>1, <2>3
<1>6. layer[o] \in Seq(Times)
  OBVIOUS
<1> HIDE DEF tail
<1>7. layer[o] \o tail \in Seq(Times) /\ Len(layer[o] \o tail) = Len(layer[o]) + Len(tail)
  <2> DEFINE old == layer[o]
  <2>1. old \in Seq(Times)
    BY <1>6
  <2> HIDE DEF old
  <2>2. old \o tail \in Seq(Times) /\ Len(old \o tail) = Len(old) + Len(tail)
    BY <1>5, <2>1, ConcatProperties
  <2> QED  BY <2>2 DEF old
<1>8. o \notin Of(adds) => tail = <<>>
  <2>1. o \notin Of(adds) => Len(tail) = 0
    BY <1>3, <1>5
  <2> QED  BY <1>5, <2>1, EmptySeq
<1>9. o \notin Of(adds) => layer[o] \o tail = layer[o]
  BY <1>6, <1>8
<1>10. ASSUME Once(adds, o), Features(o) = {},
              NEW f \in Shown(layer[o] \o tail)
       PROVE  f = Len(layer[o]) + 1
  <2>1. f \in 1..(Len(layer[o]) + Len(tail)) /\ (layer[o] \o tail)[f] # 0
    BY <1>7 DEF Shown
  <2>2. f \notin 1..Len(layer[o])
    <3> SUFFICES ASSUME f \in 1..Len(layer[o]) PROVE FALSE
      OBVIOUS
    <3>1. (layer[o] \o tail)[f] = layer[o][f]
      BY <1>5, <1>6
    <3>2. f \in Features(o)
      BY <1>6, <2>1, <3>1 DEF Features
    <3> QED  BY <1>10, <3>2
  <2>3. Len(tail) <= 1 /\ Len(tail) \in Nat /\ Len(layer[o]) \in Nat
    BY <1>4, <1>5, <1>6, <1>10
  <2> QED  BY <2>1, <2>2, <2>3
<1> QED  BY <1>2, <1>7, <1>9, <1>10

LEMMA UpdatedLayer ==
  ASSUME layer \in [Observations -> Seq(Times)], NEW updates \in Seq(Change)
  PROVE  /\ Updated(updates) \in [Observations -> Seq(Times)]
         /\ \A o \in Observations : Shown(Updated(updates)[o]) \subseteq Features(o)
<1> SUFFICES ASSUME NEW o \in Observations
             PROVE  /\ Updated(updates)[o] \in Seq(Times)
                    /\ Shown(Updated(updates)[o]) \subseteq Features(o)
  <2>1. Updated(updates) = [o \in Observations |-> Updated(updates)[o]]
    BY DEF Updated
  <2> QED  BY <2>1
<1> DEFINE own(f) == {u \in DOMAIN updates : updates[u].obs = o /\ updates[u].id = f}
           value(f) == IF layer[o][f] = 0 \/ own(f) = {} THEN layer[o][f]
                       ELSE updates[Max(own(f))].ver
<1>1. Updated(updates)[o] = [f \in DOMAIN layer[o] |-> value(f)]
  BY DEF Updated
<1>2. layer[o] \in Seq(Times)
  OBVIOUS
<1>3. \A f \in DOMAIN layer[o] : value(f) \in Times
  <2> TAKE f \in DOMAIN layer[o]
  <2>1. CASE own(f) = {}
    BY <1>2, <2>1
  <2>2. CASE own(f) # {}
    <3>1. own(f) \in SUBSET (0..Len(updates)) /\ Len(updates) \in Nat
      OBVIOUS
    <3>2. Max(own(f)) \in own(f)
      <4> HIDE DEF own
      <4> QED  BY <2>2, <3>1, GreatestNatural
    <3>3. updates[Max(own(f))] \in Change
      BY <3>2
    <3> QED  BY <1>2, <3>3 DEF Change
  <2> QED  BY <2>1, <2>2
<1>4. \A f \in DOMAIN layer[o] : layer[o][f] = 0 => value(f) = 0
  OBVIOUS
<1> HIDE DEF value
<1>5. Updated(updates)[o] \in Seq(Times)
  BY <1>1, <1>2, <1>3
<1>6. Shown(Updated(updates)[o]) \subseteq Features(o)
  BY <1>1, <1>4 DEF Shown, Features
<1> QED  BY <1>5, <1>6

LEMMA DeletedLayer ==
  ASSUME layer \in [Observations -> Seq(Times)], NEW d \in Observations
  PROVE  /\ Deleted(d) \in [Observations -> Seq(Times)]
         /\ \A o \in Observations : Shown(Deleted(d)[o]) \subseteq Features(o)
<1>1. [i \in DOMAIN layer[d] |-> 0] \in Seq(Times)
  <2>1. layer[d] \in Seq(Times) /\ 0 \in Times
    BY ArcGISAssumption DEF Times
  <2> QED  BY <2>1
<1>2. Deleted(d) = [layer EXCEPT ![d] = [i \in DOMAIN layer[d] |-> 0]]
  BY DEF Deleted
<1>3. Deleted(d) \in [Observations -> Seq(Times)]
  BY <1>1, <1>2
<1>4. \A o \in Observations : Deleted(d)[o] = IF o = d THEN [i \in DOMAIN layer[d] |-> 0] ELSE layer[o]
  BY <1>2
<1>5. \A o \in Observations : Shown(Deleted(d)[o]) \subseteq Features(o)
  BY <1>4 DEF Shown, Features
<1> QED  BY <1>3, <1>5

(* A batch that goes on takes the place of itself, or leaves the list. *)
LEMMA RestMoves ==
  ASSUME batch \in Seq(Batch), NEW b \in DOMAIN batch, NEW new \in Batch, Rest(b, new)
  PROVE  /\ batch' \in Seq(Batch)
         /\ \E was \in [DOMAIN batch' -> DOMAIN batch] :
               /\ \A c, d \in DOMAIN batch' : was[c] = was[d] => c = d
               /\ \A c \in DOMAIN batch' : batch'[c] = IF was[c] = b THEN new ELSE batch[was[c]]
<1>1. CASE batch' = [batch EXCEPT ![b] = new]
  <2> DEFINE was == [c \in DOMAIN batch |-> c]
  <2>1. batch' \in Seq(Batch) /\ DOMAIN batch' = DOMAIN batch
    BY <1>1
  <2>2. \A c \in DOMAIN batch : batch'[c] = IF c = b THEN new ELSE batch[c]
    BY <1>1
  <2>3. was \in [DOMAIN batch' -> DOMAIN batch]
    BY <2>1
  <2> QED  BY <2>1, <2>2, <2>3
<1>2. CASE batch' = RemoveAt(batch, b)
  <2> DEFINE was == [c \in 1..(Len(batch) - 1) |-> IF c < b THEN c ELSE c + 1]
             front == SubSeq(batch, 1, b - 1)
             back  == SubSeq(batch, b + 1, Len(batch))
  <2>1. b \in 1..Len(batch) /\ Len(batch) \in Nat /\ batch' = front \o back
    BY <1>2 DEF RemoveAt
  <2>2. /\ front \in Seq(Batch) /\ Len(front) = b - 1
        /\ \A c \in 1..(b - 1) : front[c] = batch[c]
    BY <2>1
  <2>3. /\ back \in Seq(Batch) /\ Len(back) = Len(batch) - b
        /\ \A c \in 1..(Len(batch) - b) : back[c] = batch[b + c]
    BY <2>1
  <2> HIDE DEF front, back
  <2>4. batch' \in Seq(Batch) /\ Len(batch') = Len(batch) - 1
    BY <2>1, <2>2, <2>3
  <2>5. DOMAIN batch' = 1..(Len(batch) - 1)
    BY <2>4
  <2>6. \A c \in 1..(Len(batch) - 1) : was[c] \in 1..Len(batch) /\ was[c] # b
    BY <2>1
  <2>7. \A c \in 1..(Len(batch) - 1) : batch'[c] = batch[was[c]]
    <3> TAKE c \in 1..(Len(batch) - 1)
    <3>1. CASE c < b
      <4>1. c \in 1..(b - 1) /\ was[c] = c
        BY <2>1, <3>1
      <4>2. batch'[c] = front[c]
        BY <2>1, <2>2, <2>3, <4>1
      <4> QED  BY <2>2, <4>1, <4>2
    <3>2. CASE ~(c < b)
      <4>1. c - (b - 1) \in 1..(Len(batch) - b) /\ was[c] = c + 1 /\ b + (c - (b - 1)) = c + 1
        BY <2>1, <3>2
      <4>2. Len(front) < c /\ c <= Len(front) + Len(back) /\ c \in Nat
        BY <2>1, <2>2, <2>3, <3>2
      <4>3. (front \o back)[c] = back[c - Len(front)]
        BY <2>2, <2>3, <4>2
      <4>4. batch'[c] = back[c - (b - 1)]
        BY <2>1, <2>2, <4>3
      <4> QED  BY <2>3, <4>1, <4>4
    <3> QED  BY <3>1, <3>2
  <2>8. \A c, d \in 1..(Len(batch) - 1) : was[c] = was[d] => c = d
    BY <2>1
  <2>9. was \in [DOMAIN batch' -> DOMAIN batch]
    BY <2>1, <2>5, <2>6
  <2> HIDE DEF was
  <2> QED  BY <2>4, <2>5, <2>6, <2>7, <2>8, <2>9
<1> QED  BY <1>1, <1>2 DEF Rest

-----------------------------------------------------------------------------
(***************************************************************************)
(* Types, clocks and phases.                                               *)
(***************************************************************************)
LEMMA Values ==
  /\ 0 \in Times /\ 1 \in Processors /\ 1 \in Chains /\ Times \subseteq Nat
  /\ NoBins \in Bins
  /\ \A at \in {"none", "armed", "config", "query", "send", "page", "end"} :
        NoCycle(at) \in Cycle /\ NoCycle(at).bins = NoBins /\ NoCycle(at).at = at
<1>1. /\ 0 \in Times /\ 1 \in Processors /\ 1 \in Chains /\ Times \subseteq Nat
  BY ArcGISAssumption DEF Times, Processors, Chains
<1>2. NoBins \in Bins
  BY DEF NoBins, Bins
<1> QED  BY <1>1, <1>2 DEF NoCycle, Cycle

LEMMA InitState == Init => StateInv
<1> SUFFICES ASSUME Init PROVE StateInv
  OBVIOUS
<1>1. doc \in [Observations -> [ver : Times, archived : BOOLEAN, early : BOOLEAN]]
  BY ArcGISAssumption DEF Init, Observations, Times
<1>2. /\ now \in Times /\ upsets \in 0..MaxUpsets
      /\ config \in Processors /\ proc \in Processors /\ timer \in Chains
      /\ link \in {"new", "made", "failed"}
      /\ again \in SUBSET Observations /\ doubtful \in SUBSET Observations
  BY ArcGISAssumption, Values DEF Init, Times
<1>3. layer \in [Observations -> Seq(Times)] /\ batch \in Seq(Batch)
  BY DEF Init
<1>4. time \in [Processors -> Times] /\ pending \in [Processors -> Bins]
  BY Values DEF Init
<1>5. loop \in [Chains -> Cycle]
  BY Values DEF Init
<1>6. ClockInv
  BY ArcGISAssumption DEF Init, ClockInv, Observations
<1>7. PhaseInv
  <2>1. \A l \in Chains : loop[l].bins = NoBins
    BY Values DEF Init
  <2>2. batch = <<>>
    BY DEF Init
  <2> QED  BY <2>1, <2>2 DEF PhaseInv
<1> QED  BY <1>1, <1>2, <1>3, <1>4, <1>5, <1>6, <1>7 DEF StateInv, TypeOK

LEMMA SaveState ==
  ASSUME StateInv, NEW o \in Observations, NEW archived \in BOOLEAN, NEW early \in BOOLEAN,
         Save(o, archived, early)
  PROVE  StateInv'
<1>1. TypeOK /\ ClockInv /\ PhaseInv
  BY DEF StateInv
<1>2. /\ now < MaxTime /\ now' = now + 1
      /\ doc' = [doc EXCEPT ![o] = [ver |-> now + 1, archived |-> archived, early |-> early]]
      /\ UNCHANGED <<layer, upsets, config, proc, link, timer, time, pending, loop, batch, again>>
  BY DEF Save, setup, work
<1>3. doubtful' \in SUBSET Observations
  BY <1>1 DEF Save, TypeOK
<1>4. now \in Nat /\ now' \in Times /\ now' <= MaxTime
  BY <1>1, <1>2, ArcGISAssumption DEF TypeOK, Times
<1>5. doc' \in [Observations -> [ver : Times, archived : BOOLEAN, early : BOOLEAN]]
  BY <1>1, <1>2, <1>4 DEF TypeOK
<1>6. TypeOK'
  BY <1>1, <1>2, <1>3, <1>4, <1>5 DEF TypeOK
<1>7. \A x \in Observations : doc'[x].ver = IF x = o THEN now + 1 ELSE doc[x].ver
  BY <1>1, <1>2 DEF TypeOK
<1>8. \A x \in Observations : doc[x].ver \in Nat /\ doc[x].ver <= now
  BY <1>1, Values DEF TypeOK, ClockInv
<1>9. ClockInv'
  BY <1>1, <1>2, <1>4, <1>7, <1>8 DEF ClockInv
<1>10. PhaseInv'
  BY <1>1, <1>2 DEF PhaseInv
<1> QED  BY <1>6, <1>9, <1>10 DEF StateInv

(* A cycle that goes on, with what it leaves alone. *)
LEMMA GoesState ==
  ASSUME StateInv, NEW l \in Chains, NEW cycle \in Cycle, Goes(l, cycle),
         cycle.at # "send" => cycle.bins = NoBins
  PROVE  loop' \in [Chains -> Cycle] /\ \A k \in Chains : loop'[k].at # "send" => loop'[k].bins = NoBins
BY DEF StateInv, TypeOK, PhaseInv, Goes

LEMMA ConfigState ==
  ASSUME StateInv, NEW changed \in BOOLEAN, putConfig(changed)
  PROVE  StateInv'
<1>1. TypeOK /\ ClockInv /\ PhaseInv
  BY DEF StateInv
<1> DEFINE stopped == IF loop[timer].at = "armed"
                      THEN [loop EXCEPT ![timer] = NoCycle("none")] ELSE loop
           off == {l \in Chains : stopped[l].at = "none"}
           next == CHOOSE l \in off : TRUE
<1>2. /\ upsets < MaxUpsets /\ upsets' = upsets + 1
      /\ config' = IF changed THEN config + 1 ELSE config
      /\ off # {} /\ loop' = [stopped EXCEPT ![next] = NoCycle("config")]
      /\ UNCHANGED <<doc, now, layer, proc, link, timer, time, pending, batch, again, doubtful>>
  BY DEF putConfig, outside, history
<1>3. stopped \in [Chains -> Cycle] /\ \A l \in Chains : stopped[l].at # "send" => stopped[l].bins = NoBins
  BY <1>1, Values DEF TypeOK, PhaseInv
<1>4. next \in Chains
  BY <1>2
<1> HIDE DEF stopped, next
<1>5. loop' \in [Chains -> Cycle] /\ \A l \in Chains : loop'[l].at # "send" => loop'[l].bins = NoBins
  BY <1>2, <1>3, <1>4, Values
<1>6. upsets' \in 0..MaxUpsets /\ config' \in Processors /\ config' <= upsets' + 1
  BY <1>1, <1>2, ArcGISAssumption DEF TypeOK, ClockInv, Processors
<1>7. TypeOK'
  BY <1>1, <1>2, <1>5, <1>6 DEF TypeOK
<1>8. ClockInv' /\ PhaseInv'
  BY <1>1, <1>2, <1>5, <1>6 DEF ClockInv, PhaseInv
<1> QED  BY <1>7, <1>8 DEF StateInv

LEMMA CrashState ==
  ASSUME StateInv, Crash
  PROVE  StateInv'
<1>1. TypeOK /\ ClockInv /\ PhaseInv
  BY DEF StateInv
<1>2. /\ upsets < MaxUpsets /\ upsets' = upsets + 1 /\ timer' = 1 /\ batch' = <<>>
      /\ loop' = [l \in Chains |-> NoCycle(IF l = 1 THEN "config" ELSE "none")]
      /\ time' = [p \in Processors |-> 0] /\ pending' = [p \in Processors |-> NoBins]
      /\ link' = "new" /\ UNCHANGED <<doc, now, layer, config, proc, again, doubtful>>
  BY DEF Crash, outside, history
<1>3. loop' \in [Chains -> Cycle] /\ \A l \in Chains : loop'[l].bins = NoBins
  BY <1>2, Values
<1>4. time' \in [Processors -> Times] /\ pending' \in [Processors -> Bins] /\ timer' \in Chains
  BY <1>2, Values
<1>5. upsets' \in 0..MaxUpsets /\ config' <= upsets' + 1 /\ batch' \in Seq(Batch) /\ DOMAIN batch' = {}
  BY <1>1, <1>2, ArcGISAssumption DEF TypeOK, ClockInv, Processors
<1>6. TypeOK'
  BY <1>1, <1>2, <1>3, <1>4, <1>5 DEF TypeOK
<1>7. ClockInv' /\ PhaseInv'
  BY <1>1, <1>2, <1>3, <1>5 DEF ClockInv, PhaseInv
<1> QED  BY <1>6, <1>7 DEF StateInv

LEMMA OfType ==
  /\ \A items \in Seq(Item) : Of(items) \subseteq Observations
  /\ \A changes \in Seq(Change) : Of(changes) \subseteq Observations
  /\ \A bins \in Bins : InBins(bins) \subseteq Observations
<1>1. \A items \in Seq(Item) : Of(items) \subseteq Observations
  <2> TAKE items \in Seq(Item)
  <2>1. \A i \in DOMAIN items : items[i] \in Item
    OBVIOUS
  <2> QED  BY <2>1 DEF Of, Item
<1>2. \A changes \in Seq(Change) : Of(changes) \subseteq Observations
  <2> TAKE changes \in Seq(Change)
  <2>1. \A i \in DOMAIN changes : changes[i] \in Change
    OBVIOUS
  <2> QED  BY <2>1 DEF Of, Change
<1> QED  BY <1>1, <1>2 DEF InBins, Bins

LEMMA InFlightType ==
  ASSUME TypeOK
  PROVE  InFlight \subseteq Observations
<1>1. \A b \in DOMAIN batch :
        Of(batch[b].items) \cup InBins(batch[b].bins) \cup batch[b].deletions
           \cup {i.obs : i \in batch[b].asked} \subseteq Observations
  <2> TAKE b \in DOMAIN batch
  <2>1. batch[b] \in Batch
    BY DEF TypeOK
  <2>2. /\ batch[b].items \in Seq(Item) /\ batch[b].bins \in Bins
        /\ batch[b].deletions \subseteq Observations /\ batch[b].asked \subseteq Item
    BY <2>1 DEF Batch
  <2>3. {i.obs : i \in batch[b].asked} \subseteq Observations
    BY <2>2 DEF Item
  <2> QED  BY <2>2, <2>3, OfType
<1>2. \A p \in Processors : InBins(pending[p]) \subseteq Observations
  BY OfType DEF TypeOK
<1>3. \A l \in Chains : InBins(loop[l].bins) \subseteq Observations
  <2> TAKE l \in Chains
  <2>1. loop[l].bins \in Bins
    BY DEF TypeOK, Cycle
  <2> QED  BY <2>1, OfType
<1> QED  BY <1>1, <1>2, <1>3 DEF InFlight

(* What a cycle does when it reads the configuration: it goes on with a    *)
(* processor, or there is none.                                            *)
Starts(l, cycle) ==
    /\ loop[l].at \in {"armed", "config"}
    /\ \/ link' = "made" /\ cycle = [NoCycle("query") EXCEPT !.proc = config]
       \/ link' = "failed" /\ cycle = NoCycle("armed")
    /\ proc # config \/ link = "new" \/ link' = link
    /\ Goes(l, cycle)
    /\ proc' = config
    /\ doubtful' = IF proc = config THEN doubtful ELSE doubtful \cup InFlight
    /\ upsets' \in 0..MaxUpsets /\ upsets <= upsets' /\ timer' \in {timer, l}
    /\ UNCHANGED <<doc, now, layer, config, time, pending, batch, again>>

LEMMA ConfigRead ==
  ASSUME StateInv, NEW l \in Chains, updateConfig(l) \/ LayersFail(l) \/ NoLayers(l)
  PROVE  \E cycle : Starts(l, cycle)
<1>1. upsets \in 0..MaxUpsets /\ MaxUpsets \in Nat
  BY ArcGISAssumption DEF StateInv, TypeOK
<1>2. CASE updateConfig(l)
  <2>1. Starts(l, [NoCycle("query") EXCEPT !.proc = config])
    BY <1>1, <1>2 DEF updateConfig, Configured, Reconfigured, Starts, outside
  <2> QED  BY <2>1
<1>3. CASE LayersFail(l)
  <2>1. Starts(l, NoCycle("armed"))
    BY <1>1, <1>3 DEF LayersFail, Configured, Reconfigured, Starts, outside
  <2> QED  BY <2>1
<1>4. CASE NoLayers(l)
  <2>1. Starts(l, NoCycle("armed"))
    BY <1>1, <1>4 DEF NoLayers, Reconfigured, Starts, outside, history
  <2> QED  BY <2>1
<1> QED  BY <1>2, <1>3, <1>4

LEMMA UpdateConfigState ==
  ASSUME StateInv, NEW l \in Chains, NEW cycle, Starts(l, cycle)
  PROVE  StateInv'
<1>1. TypeOK /\ ClockInv /\ PhaseInv
  BY DEF StateInv
<1>2. /\ proc' = config /\ Goes(l, cycle)
      /\ doubtful' = (IF proc = config THEN doubtful ELSE doubtful \cup InFlight)
      /\ upsets' \in 0..MaxUpsets /\ upsets <= upsets' /\ timer' \in Chains
      /\ link' \in {"new", "made", "failed"}
      /\ UNCHANGED <<doc, now, layer, config, time, pending, batch, again>>
  BY <1>1 DEF Starts, TypeOK
<1>3. cycle \in Cycle /\ cycle.bins = NoBins
  BY <1>1, Values DEF Starts, TypeOK, NoCycle, Cycle
<1>4. loop' \in [Chains -> Cycle] /\ \A k \in Chains : loop'[k].at # "send" => loop'[k].bins = NoBins
  BY <1>2, <1>3, GoesState
<1>5. doubtful' \in SUBSET Observations
  BY <1>1, <1>2, InFlightType DEF TypeOK
<1>6. TypeOK'
  BY <1>1, <1>2, <1>4, <1>5 DEF TypeOK
<1>7. config \in Nat /\ upsets \in Nat /\ upsets' \in Nat
  BY <1>1, <1>2, ArcGISAssumption DEF TypeOK, Processors
<1>8. ClockInv' /\ PhaseInv'
  BY <1>1, <1>2, <1>4, <1>7 DEF ClockInv, PhaseInv
<1> QED  BY <1>6, <1>8 DEF StateInv

LEMMA FirstPageType ==
  ASSUME StateInv
  PROVE  FirstPage \in Cycle /\ FirstPage.bins = NoBins
<1>1. now + 1 \in Times /\ proc \in Processors
  BY ArcGISAssumption, Values DEF StateInv, TypeOK, ClockInv, Times
<1> QED  BY <1>1, Values DEF FirstPage, NoCycle, Cycle

LEMMA PendingState ==
  ASSUME StateInv, NEW l \in Chains, processPendingUpdates(l)
  PROVE  StateInv'
<1>1. TypeOK /\ ClockInv /\ PhaseInv
  BY DEF StateInv
<1> DEFINE p == loop[l].proc
<1>2. PICK old \in SUBSET Observations :
        /\ Existing(old)
        /\ LET bins == [pending[p] EXCEPT !.adds = Kept(@, Observations \ old)] IN
           Goes(l, IF bins = NoBins THEN FirstPage
                   ELSE [loop[l] EXCEPT !.at = "send", !.bins = bins])
  BY DEF processPendingUpdates
<1> DEFINE bins == [pending[p] EXCEPT !.adds = Kept(@, Observations \ old)]
           cycle == IF bins = NoBins THEN FirstPage
                    ELSE [loop[l] EXCEPT !.at = "send", !.bins = bins]
<1>3. /\ pending' = [pending EXCEPT ![p] = NoBins] /\ loop[l].at = "query"
      /\ UNCHANGED <<doc, now, layer, config, proc, link, timer, time, batch, again, doubtful>>
  BY DEF processPendingUpdates, outside, setup, history
<1>4. upsets' = upsets \/ (upsets < MaxUpsets /\ upsets' = upsets + 1)
  BY <1>2 DEF Existing
<1>5. p \in Processors /\ loop[l] \in Cycle /\ pending[p] \in Bins
  BY <1>1 DEF TypeOK, Cycle
<1>6. bins \in Bins
  BY <1>5, KeptOnce DEF Bins
<1>7. cycle \in Cycle /\ (cycle.at # "send" => cycle.bins = NoBins)
  <2>1. CASE bins = NoBins
    BY <2>1, FirstPageType
  <2>2. CASE bins # NoBins
    <3> HIDE DEF bins
    <3> QED  BY <1>5, <1>6, <2>2 DEF Cycle
  <2> QED  BY <2>1, <2>2
<1>8. loop' \in [Chains -> Cycle] /\ \A k \in Chains : loop'[k].at # "send" => loop'[k].bins = NoBins
  <2>1. Goes(l, cycle)
    BY <1>2
  <2> HIDE DEF cycle
  <2> QED  BY <1>7, <2>1, GoesState
<1>9. pending' \in [Processors -> Bins]
  BY <1>1, <1>3, <1>5, Values DEF TypeOK
<1>10. upsets' \in 0..MaxUpsets /\ config <= upsets' + 1
  BY <1>1, <1>4, ArcGISAssumption DEF TypeOK, ClockInv, Processors
<1>11. TypeOK'
  BY <1>1, <1>3, <1>8, <1>9, <1>10 DEF TypeOK
<1>12. ClockInv' /\ PhaseInv'
  BY <1>1, <1>3, <1>8, <1>10 DEF ClockInv, PhaseInv
<1> QED  BY <1>11, <1>12 DEF StateInv

(* A request changes the layer and nothing else of the state's shape. *)
LEMMA SendTypes ==
  ASSUME StateInv, NEW bins \in Bins, NEW kind \in Kinds, send(bins, kind)
  PROVE  /\ layer' \in [Observations -> Seq(Times)]
         /\ upsets' \in 0..MaxUpsets /\ upsets <= upsets'
         /\ doubtful' \in SUBSET Observations
<1>1. TypeOK
  BY DEF StateInv
<1>2. bins.adds \in Seq(Item) /\ bins.updates \in Seq(Change)
  BY DEF Bins
<1>3. CASE kind = "adds"
  <2>1. Requested(Of(bins.adds), Added(bins.adds))
    BY <1>3 DEF send
  <2>2. Added(bins.adds) \in [Observations -> Seq(Times)] /\ Of(bins.adds) \subseteq Observations
    BY <1>1, <1>2, AddedLayer, OfType DEF TypeOK
  <2> QED  BY <1>1, <2>1, <2>2, ArcGISAssumption DEF Requested, TypeOK
<1>4. CASE kind = "updates"
  <2>1. Requested(Of(bins.updates), Updated(bins.updates))
    BY <1>4 DEF send
  <2>2. Updated(bins.updates) \in [Observations -> Seq(Times)] /\ Of(bins.updates) \subseteq Observations
    BY <1>1, <1>2, UpdatedLayer, OfType DEF TypeOK
  <2> QED  BY <1>1, <2>1, <2>2, ArcGISAssumption DEF Requested, TypeOK
<1> QED  BY <1>3, <1>4 DEF Kinds

LEMMA SendPendingState ==
  ASSUME StateInv, NEW l \in Chains, NEW kind \in Kinds, SendPending(l, kind)
  PROVE  StateInv'
<1>1. TypeOK /\ ClockInv /\ PhaseInv
  BY DEF StateInv
<1> DEFINE rest == [loop[l].bins EXCEPT ![kind] = <<>>]
           cycle == IF rest = NoBins THEN FirstPage ELSE [loop[l] EXCEPT !.bins = rest]
<1>2. /\ loop[l].at = "send" /\ send(loop[l].bins, kind) /\ Goes(l, cycle)
      /\ UNCHANGED <<doc, now, config, proc, link, timer, time, pending, batch, again>>
  BY DEF SendPending, outside, setup
<1>3. loop[l] \in Cycle /\ loop[l].bins \in Bins
  BY <1>1 DEF TypeOK, Cycle
<1>4. rest \in Bins
  <2>1. rest = IF kind = "adds" THEN [adds |-> <<>>, updates |-> loop[l].bins.updates]
               ELSE [adds |-> loop[l].bins.adds, updates |-> <<>>]
    BY <1>3 DEF Bins, Kinds
  <2>2. /\ loop[l].bins.adds \in Seq(Item) /\ loop[l].bins.updates \in Seq(Change)
        /\ <<>> \in Seq(Item) /\ <<>> \in Seq(Change)
    BY <1>3 DEF Bins
  <2> HIDE DEF rest
  <2> QED  BY <2>1, <2>2 DEF Bins
<1>5. cycle \in Cycle /\ (cycle.at # "send" => cycle.bins = NoBins)
  <2> HIDE DEF rest
  <2> QED  BY <1>2, <1>3, <1>4, FirstPageType DEF Cycle
<1>6. loop' \in [Chains -> Cycle] /\ \A k \in Chains : loop'[k].at # "send" => loop'[k].bins = NoBins
  <2> HIDE DEF cycle
  <2> QED  BY <1>2, <1>5, GoesState
<1>7. /\ layer' \in [Observations -> Seq(Times)] /\ upsets' \in 0..MaxUpsets /\ upsets <= upsets'
      /\ doubtful' \in SUBSET Observations
  BY <1>2, <1>3, SendTypes
<1>8. TypeOK'
  BY <1>1, <1>2, <1>6, <1>7 DEF TypeOK
<1>9. ClockInv' /\ PhaseInv'
  BY <1>1, <1>2, <1>6, <1>7, ArcGISAssumption DEF ClockInv, PhaseInv, TypeOK, Processors
<1> QED  BY <1>8, <1>9 DEF StateInv

LEMMA EndCycleState ==
  ASSUME StateInv, NEW l \in Chains, EndCycle(l)
  PROVE  StateInv'
<1>1. TypeOK /\ ClockInv /\ PhaseInv
  BY DEF StateInv
<1>2. /\ Goes(l, NoCycle("armed")) /\ timer' = l
      /\ time' = (IF link = "made" THEN [time EXCEPT ![proc] = loop[l].next] ELSE time)
      /\ doubtful' = (IF link # "made" \/ (loop[l].proc = proc /\ Reading \ {l} = {})
                      THEN doubtful ELSE Observations)
      /\ UNCHANGED <<doc, now, layer, upsets, config, proc, link, pending, batch, again>>
  BY DEF EndCycle, Armed, outside
<1>3. loop' \in [Chains -> Cycle] /\ \A k \in Chains : loop'[k].at # "send" => loop'[k].bins = NoBins
  BY <1>2, Values, GoesState
<1>4. loop[l].next \in Times
  BY <1>1 DEF TypeOK, Cycle
<1>5. time' \in [Processors -> Times] /\ doubtful' \in SUBSET Observations
  BY <1>1, <1>2, <1>4 DEF TypeOK
<1>6. TypeOK'
  BY <1>1, <1>2, <1>3, <1>5 DEF TypeOK
<1>7. ClockInv' /\ PhaseInv'
  BY <1>1, <1>2, <1>3 DEF ClockInv, PhaseInv
<1> QED  BY <1>6, <1>7 DEF StateInv

LEMMA FunctionList ==
  ASSUME NEW S, NEW n \in Nat, NEW f \in [1..n -> S]
  PROVE  f \in Seq(S)
OBVIOUS

(* What a page returns, and what is kept of it: each observation once. *)
LEMMA PageItems ==
  ASSUME StateInv, NEW t, NEW m \in Nat, NEW n \in Int, NEW page, NEW items, NEW obs,
         page = SubSeq(findLastModifiedAfter(t), m + 1, n), n <= Len(findLastModifiedAfter(t)),
         items = [i \in DOMAIN page |-> [obs |-> page[i], ver |-> doc[page[i]].ver,
                                         archived |-> doc[page[i]].archived]]
  PROVE  /\ items \in Seq(Item) /\ Len(page) \in Nat
         /\ \A o : Once(items, o)
         /\ Kept(items, obs) \in Seq(Item) /\ \A o : Once(Kept(items, obs), o)
<1> DEFINE found == findLastModifiedAfter(t)
<1>1. TypeOK /\ ClockInv
  BY DEF StateInv
<1>2. found \in Seq(Observations) /\ \A i, j \in DOMAIN found : found[i] = found[j] => i = j
  BY <1>1, FoundList
<1>3. page = SubSeq(found, m + 1, n) /\ n <= Len(found)
  OBVIOUS
<1> HIDE DEF found
<1>4. /\ page \in Seq(Observations) /\ Len(found) \in Nat
      /\ Len(page) = IF m + 1 <= n THEN n - m ELSE 0
      /\ \A i \in 1..Len(page) : page[i] = found[m + i]
  BY <1>2, <1>3
<1>5. /\ Len(page) \in Nat /\ DOMAIN page = 1..Len(page)
      /\ \A i \in 1..Len(page) : m + i \in DOMAIN found
  BY <1>2, <1>3, <1>4
<1>6. \A i \in 1..Len(page) : page[i] \in Observations /\ items[i] \in Item /\ items[i].obs = page[i]
  <2> TAKE i \in 1..Len(page)
  <2>1. page[i] \in Observations
    BY <1>4
  <2>2. doc[page[i]] \in [ver : Times, archived : BOOLEAN, early : BOOLEAN]
    BY <1>1, <2>1 DEF TypeOK
  <2> QED  BY <1>5, <2>1, <2>2 DEF Item
<1>7. items \in Seq(Item) /\ DOMAIN items = 1..Len(page)
  <2> DEFINE length == Len(page)
  <2>1. length \in Nat /\ DOMAIN items = 1..length
    BY <1>5
  <2>2. items = [i \in 1..length |-> items[i]]
    BY <1>5
  <2>3. \A i \in 1..length : items[i] \in Item
    BY <1>6
  <2> HIDE DEF length
  <2>4. items \in [1..length -> Item]
    BY <2>2, <2>3
  <2>5. items \in Seq(Item)
    BY <2>1, <2>4, FunctionList
  <2> QED  BY <2>1, <2>5 DEF length
<1>8. ASSUME NEW o PROVE Once(items, o)
  <2> SUFFICES ASSUME NEW i \in DOMAIN items, NEW j \in DOMAIN items,
                      items[i].obs = o, items[j].obs = o
               PROVE  i = j
    BY DEF Once
  <2>0. i \in 1..Len(page) /\ j \in 1..Len(page)
    BY <1>7
  <2>1. found[m + i] = found[m + j]
    BY <1>4, <1>6, <2>0
  <2>2. m + i = m + j
    BY <1>2, <1>5, <2>0, <2>1
  <2> QED  BY <1>5, <2>0, <2>2
<1>9. Kept(items, obs) \in Seq(Item) /\ \A o : Once(Kept(items, obs), o)
  BY <1>7, <1>8, KeptOnce
<1> QED  BY <1>5, <1>7, <1>8, <1>9

(* What a cycle does when it reads a page. *)
Read(l, items, next) ==
    /\ items \in Seq(Item) /\ \A o : Once(items, o)
    /\ batch' = Append(batch, [at |-> "query", proc |-> loop[l].proc, items |-> items,
                               bins |-> NoBins, asked |-> {}, deletions |-> {}])
    /\ next \in Cycle /\ next.at # "send" /\ next.bins = NoBins /\ Goes(l, next)
    /\ again' = again \cup (Of(items) \cap InFlight)
    /\ doubtful' \in SUBSET Observations
    /\ UNCHANGED <<doc, now, layer, upsets, config, proc, link, timer, time, pending>>

LEMMA PageRead ==
  ASSUME StateInv, NEW l \in Chains, queryAndSend(l)
  PROVE  \E items, next : Read(l, items, next)
<1> DEFINE found == findLastModifiedAfter(time[loop[l].proc])
           skip  == loop[l].page * PageSize
           last  == IF skip + PageSize < Len(found) THEN skip + PageSize ELSE Len(found)
           page  == SubSeq(found, skip + 1, last)
           left  == (IF loop[l].page = 0 THEN Len(found) ELSE loop[l].left) - Len(page)
           read  == [i \in DOMAIN page |-> [obs |-> page[i], ver |-> doc[page[i]].ver,
                                            archived |-> doc[page[i]].archived]]
           items == Kept(read, Synced)
           old   == Of(read) \cap InFlight
           next  == [loop[l] EXCEPT !.at = IF left > 0 THEN "page" ELSE "end",
                                    !.page = IF @ < LastId THEN @ + 1 ELSE @, !.left = left]
<1>1. TypeOK /\ ClockInv /\ PhaseInv
  BY DEF StateInv
<1>2. /\ loop[l].at = "page"
      /\ batch' = Append(batch, [at |-> "query", proc |-> loop[l].proc, items |-> items,
                                 bins |-> NoBins, asked |-> {}, deletions |-> {}])
      /\ Goes(l, next)
      /\ again' = again \cup (Of(items) \cap InFlight)
      /\ doubtful' = (IF loop[l].proc = proc THEN (doubtful \ Of(read)) \cup old
                      ELSE doubtful \cup Of(read))
      /\ UNCHANGED <<doc, now, layer, upsets, config, proc, link, timer, time, pending>>
  BY DEF queryAndSend, outside, setup
<1>3. loop[l] \in Cycle /\ loop[l].bins = NoBins
  BY <1>1, <1>2 DEF TypeOK, PhaseInv
<1>4. Len(found) \in Nat
  BY <1>1, FoundList
<1>5. loop[l].page \in Nat /\ loop[l].left \in Int /\ skip \in Nat
  BY <1>3, ArcGISAssumption DEF Cycle
<1>6. last \in Int /\ last <= Len(found)
  BY <1>4, <1>5, ArcGISAssumption
<1> HIDE DEF skip, last
<1>7. /\ items \in Seq(Item) /\ Len(page) \in Nat /\ \A o : Once(items, o)
      /\ read \in Seq(Item)
  BY <1>5, <1>6, PageItems
<1> HIDE DEF found, page, read, items
<1>8. left \in Int
  BY <1>4, <1>5, <1>7
<1> HIDE DEF left
<1>9. next \in Cycle /\ next.at # "send" /\ next.bins = NoBins
  <2> DEFINE go   == IF left > 0 THEN "page" ELSE "end"
             past == IF loop[l].page < LastId THEN loop[l].page + 1 ELSE loop[l].page
  <2>1. next = [loop[l] EXCEPT !.at = go, !.page = past, !.left = left]
    BY <1>3 DEF Cycle
  <2>2. go \in {"page", "end"} /\ past \in Nat
    BY <1>5
  <2> HIDE DEF go, past, next
  <2> QED  BY <1>3, <1>8, <2>1, <2>2 DEF Cycle
<1> HIDE DEF next
<1>10. doubtful' \in SUBSET Observations
  <2>1. Of(items) \subseteq Observations /\ Of(read) \subseteq Observations
    BY <1>7, OfType
  <2> QED  BY <1>1, <1>2, <2>1 DEF TypeOK
<1>11. Read(l, items, next)
  BY <1>2, <1>7, <1>9, <1>10 DEF Read
<1> QED  BY <1>11

LEMMA PageState ==
  ASSUME StateInv, NEW l \in Chains, queryAndSend(l)
  PROVE  StateInv'
<1>1. TypeOK /\ ClockInv /\ PhaseInv
  BY DEF StateInv
<1>2. PICK items, next : Read(l, items, next)
  BY PageRead
<1> DEFINE new == [at |-> "query", proc |-> loop[l].proc, items |-> items,
                   bins |-> NoBins, asked |-> {}, deletions |-> {}]
<1>3. new \in Batch
  <2>1. loop[l].proc \in Processors
    BY <1>1 DEF TypeOK, Cycle
  <2> QED  BY <1>2, <2>1, Values DEF Read, Batch
<1>4. /\ batch' \in Seq(Batch)
      /\ \A b \in DOMAIN batch' : batch'[b] = new \/ (b \in DOMAIN batch /\ batch'[b] = batch[b])
  <2>1. batch \in Seq(Batch) /\ batch' = Append(batch, new)
    BY <1>1, <1>2 DEF TypeOK, Read
  <2> HIDE DEF new
  <2> QED  BY <1>3, <2>1
<1>5. loop' \in [Chains -> Cycle] /\ \A k \in Chains : loop'[k].at # "send" => loop'[k].bins = NoBins
  BY <1>2, GoesState DEF Read
<1>6. again' \in SUBSET Observations
  BY <1>1, <1>2, OfType DEF TypeOK, Read
<1>7. TypeOK'
  BY <1>1, <1>2, <1>4, <1>5, <1>6 DEF TypeOK, Read
<1>8. PhaseInv'
  BY <1>1, <1>4, <1>5 DEF PhaseInv
<1>9. ClockInv'
  BY <1>1, <1>2 DEF ClockInv, Read
<1> QED  BY <1>7, <1>8, <1>9 DEF StateInv

-----------------------------------------------------------------------------
(***************************************************************************)
(* A batch that goes on: its types and phases.                             *)
(***************************************************************************)
RestOf(new) ==
    /\ new \in Batch
    /\ new.at = "query" => new.bins = NoBins /\ new.asked = {} /\ new.deletions = {}
    /\ new.at = "send" => new.items = <<>>

LEMMA RestState ==
  ASSUME StateInv, NEW b \in DOMAIN batch, NEW new, RestOf(new), Rest(b, new),
         UNCHANGED <<doc, now, config, proc, link, timer, time, loop>>,
         layer' \in [Observations -> Seq(Times)], upsets' \in 0..MaxUpsets, upsets <= upsets',
         pending' \in [Processors -> Bins],
         again' \in SUBSET Observations, doubtful' \in SUBSET Observations
  PROVE  StateInv'
<1>1. TypeOK /\ ClockInv /\ PhaseInv
  BY DEF StateInv
<1>2. new \in Batch /\ batch \in Seq(Batch)
  BY <1>1 DEF RestOf, TypeOK
<1>3. batch' \in Seq(Batch)
  BY <1>2, RestMoves
<1>4. PICK was \in [DOMAIN batch' -> DOMAIN batch] :
        \A c \in DOMAIN batch' : batch'[c] = IF was[c] = b THEN new ELSE batch[was[c]]
  BY <1>2, RestMoves
<1>5. \A c \in DOMAIN batch' : batch'[c] = new \/ \E d \in DOMAIN batch : batch'[c] = batch[d]
  BY <1>4
<1>6. TypeOK'
  BY <1>1, <1>3 DEF TypeOK
<1>7. ClockInv'
  <2>1. config \in Int /\ upsets \in Int /\ upsets' \in Int
    BY <1>1, ArcGISAssumption DEF TypeOK, Processors
  <2>2. config' = config /\ config <= upsets + 1 /\ upsets <= upsets'
    BY <1>1 DEF ClockInv
  <2>3. \A c, d, u, v \in Int : c <= u + 1 /\ u <= v /\ d = c => d <= v + 1
    OBVIOUS
  <2>4. config' <= upsets' + 1
    BY <2>1, <2>2, <2>3
  <2> QED  BY <1>1, <2>4 DEF ClockInv
<1>8. PhaseInv'
  BY <1>1, <1>5 DEF PhaseInv, RestOf
<1> QED  BY <1>6, <1>7, <1>8 DEF StateInv

LEMMA BatchType ==
  ASSUME StateInv, NEW b \in DOMAIN batch
  PROVE  /\ batch[b].at \in {"query", "send"} /\ batch[b].proc \in Processors
         /\ batch[b].items \in Seq(Item) /\ batch[b].bins \in Bins
         /\ batch[b].bins.adds \in Seq(Item) /\ batch[b].bins.updates \in Seq(Change)
         /\ batch[b].asked \subseteq Item /\ batch[b].deletions \subseteq Observations
         /\ batch[b].at = "query" =>
            batch[b].bins = NoBins /\ batch[b].asked = {} /\ batch[b].deletions = {}
         /\ batch[b].at = "send" => batch[b].items = <<>>
<1>1. batch[b] \in Batch
  BY DEF StateInv, TypeOK
<1>2. batch[b].bins \in Bins
  BY <1>1 DEF Batch
<1>3. batch[b].bins.adds \in Seq(Item) /\ batch[b].bins.updates \in Seq(Change)
  BY <1>2 DEF Bins
<1> QED  BY <1>1, <1>2, <1>3 DEF Batch, StateInv, PhaseInv

(* What a batch is sorted into once it is known which observations exist.  *)
SortedInto(b, old) ==
    LET items == batch[b].items
        live  == {i.obs : i \in {j \in ToSet(items) : ~j.archived}} IN
    [at |-> "send", proc |-> batch[b].proc, items |-> <<>>,
     bins |-> [adds |-> Kept(items, live \ old),
               updates |-> pending[batch[b].proc].updates],
     asked |-> {i \in ToSet(items) : i.obs \in live \cap old},
     deletions |-> (Of(items) \ live) \cap old]

LEMMA SortedIntoType ==
  ASSUME StateInv, NEW b \in DOMAIN batch, NEW old \in SUBSET Observations
  PROVE  RestOf(SortedInto(b, old))
<1> DEFINE items == batch[b].items
           live  == {i.obs : i \in {j \in ToSet(items) : ~j.archived}}
<1>1. items \in Seq(Item) /\ batch[b].proc \in Processors
  BY BatchType
<1>2. Kept(items, live \ old) \in Seq(Item)
  BY <1>1, KeptOnce
<1>3. pending[batch[b].proc].updates \in Seq(Change)
  BY <1>1 DEF StateInv, TypeOK, Bins
<1>4. {i \in ToSet(items) : i.obs \in live \cap old} \in SUBSET Item
  BY <1>1 DEF ToSet
<1>5. (Of(items) \ live) \cap old \in SUBSET Observations
  OBVIOUS
<1>6. <<>> \in Seq(Item)
  OBVIOUS
<1> HIDE DEF live
<1> QED  BY <1>1, <1>2, <1>3, <1>4, <1>5, <1>6 DEF RestOf, SortedInto, Batch, Bins, live

LEMMA SortState ==
  ASSUME StateInv, NEW b \in DOMAIN batch, processArcObjects(b)
  PROVE  StateInv'
<1>1. TypeOK
  BY DEF StateInv
<1>2. PICK old \in SUBSET Observations :
        /\ Existing(old) /\ Rest(b, SortedInto(b, old))
        /\ doubtful' = IF old = existingObservationIds THEN doubtful
                       ELSE doubtful \cup Of(batch[b].items)
        /\ again' = IF old = existingObservationIds THEN again
                    ELSE again \cup Of(batch[b].items)
  BY DEF processArcObjects, SortedInto
<1>3. UNCHANGED <<doc, now, layer, config, proc, link, timer, time, pending, loop>>
  BY DEF processArcObjects, outside, setup
<1>4. Of(batch[b].items) \subseteq Observations
  BY BatchType, OfType
<1>5. upsets' \in 0..MaxUpsets /\ upsets <= upsets'
  BY <1>1, <1>2, ArcGISAssumption DEF Existing, TypeOK
<1>6. again' \in SUBSET Observations /\ doubtful' \in SUBSET Observations
  BY <1>1, <1>2, <1>4 DEF TypeOK
<1>7. RestOf(SortedInto(b, old))
  BY SortedIntoType
<1> QED  BY <1>1, <1>2, <1>3, <1>5, <1>6, <1>7, RestState DEF TypeOK

LEMMA SendBatchState ==
  ASSUME StateInv, NEW b \in DOMAIN batch, NEW kind \in Kinds, SendBatch(b, kind)
  PROVE  /\ StateInv'
         /\ RestOf([batch[b] EXCEPT !.bins[kind] = <<>>])
<1> DEFINE new  == [batch[b] EXCEPT !.bins[kind] = <<>>]
           bins == [batch[b].bins EXCEPT ![kind] = <<>>]
<1>1. TypeOK
  BY DEF StateInv
<1>2. /\ batch[b].at = "send" /\ send(batch[b].bins, kind) /\ Rest(b, new)
      /\ UNCHANGED <<doc, now, config, proc, link, timer, time, pending, loop, again>>
  BY DEF SendBatch, outside, setup
<1>3. batch[b] \in Batch /\ batch[b].bins \in Bins
  BY <1>1, BatchType DEF TypeOK
<1>4. bins \in Bins
  <2>1. bins = IF kind = "adds" THEN [adds |-> <<>>, updates |-> batch[b].bins.updates]
               ELSE [adds |-> batch[b].bins.adds, updates |-> <<>>]
    BY <1>3 DEF Bins, Kinds
  <2>2. <<>> \in Seq(Item) /\ <<>> \in Seq(Change)
    OBVIOUS
  <2> HIDE DEF bins
  <2> QED  BY <2>1, <2>2, BatchType DEF Bins
<1>5. new = [batch[b] EXCEPT !.bins = bins]
  BY <1>3 DEF Batch
<1>6. RestOf(new)
  <2> HIDE DEF bins, new
  <2> QED  BY <1>2, <1>3, <1>4, <1>5, BatchType DEF RestOf, Batch
<1>7. /\ layer' \in [Observations -> Seq(Times)] /\ upsets' \in 0..MaxUpsets /\ upsets <= upsets'
      /\ doubtful' \in SUBSET Observations
  BY <1>2, <1>3, SendTypes
<1>8. StateInv'
  <2> HIDE DEF new
  <2> QED  BY <1>1, <1>2, <1>6, <1>7, RestState DEF TypeOK
<1> QED  BY <1>6, <1>8

LEMMA DeleteState ==
  ASSUME StateInv, NEW b \in DOMAIN batch, NEW o \in Observations, sendDelete(b, o)
  PROVE  StateInv'
<1> DEFINE new == [batch[b] EXCEPT !.deletions = @ \ {o}]
<1>1. TypeOK
  BY DEF StateInv
<1>2. /\ batch[b].at = "send" /\ Requested({o}, Deleted(o)) /\ Rest(b, new)
      /\ UNCHANGED <<doc, now, config, proc, link, timer, time, pending, loop, again>>
  BY DEF sendDelete, outside, setup
<1>3. RestOf(new)
  <2>1. batch[b] \in Batch
    BY <1>1 DEF TypeOK
  <2> QED  BY <1>2, <2>1, BatchType DEF RestOf, Batch
<1>4. Deleted(o) \in [Observations -> Seq(Times)]
  BY <1>1, DeletedLayer DEF TypeOK
<1>5. /\ layer' \in [Observations -> Seq(Times)] /\ upsets' \in 0..MaxUpsets /\ upsets <= upsets'
      /\ doubtful' \in SUBSET Observations
  BY <1>1, <1>2, <1>4, ArcGISAssumption DEF Requested, TypeOK
<1> HIDE DEF new
<1> QED  BY <1>1, <1>2, <1>3, <1>5, RestState DEF TypeOK

LEMMA AskedState ==
  ASSUME StateInv, NEW b \in DOMAIN batch, NEW i \in batch[b].asked
  PROVE  RestOf([batch[b] EXCEPT !.asked = @ \ {i}]) /\ i \in Item
<1>1. batch[b] \in Batch
  BY DEF StateInv, TypeOK
<1> QED  BY <1>1, BatchType DEF RestOf, Batch

LEMMA QueryState ==
  ASSUME StateInv, NEW b \in DOMAIN batch, NEW i \in batch[b].asked, queryObservation(b, i)
  PROVE  StateInv'
<1> DEFINE id   == CHOOSE f \in Features(i.obs) : \A g \in Features(i.obs) : f <= g
           p    == batch[b].proc
           new  == [batch[b] EXCEPT !.asked = @ \ {i}]
           change == [obs |-> i.obs, ver |-> i.ver, id |-> id]
           bins == IF Features(i.obs) = {} THEN [pending[p] EXCEPT !.adds = Append(@, i)]
                   ELSE IF layer[i.obs][id] < i.ver
                   THEN [pending[p] EXCEPT !.updates = Append(@, change)]
                   ELSE pending[p]
<1>1. TypeOK
  BY DEF StateInv
<1>2. /\ Rest(b, new) /\ pending' = [pending EXCEPT ![p] = bins]
      /\ UNCHANGED <<doc, now, layer, upsets, config, proc, link, timer, time, loop, again, doubtful>>
  BY DEF queryObservation, outside, setup, history
<1>3. RestOf(new) /\ i \in Item /\ p \in Processors /\ pending[p] \in Bins
  BY <1>1, AskedState, BatchType DEF TypeOK
<1>4. i.obs \in Observations /\ i.ver \in Times
  BY <1>3 DEF Item
<1>5. Features(i.obs) # {} => id \in Nat
  <2>1. layer[i.obs] \in Seq(Times)
    BY <1>1, <1>4 DEF TypeOK
  <2>2. Features(i.obs) \in SUBSET Nat
    BY <2>1 DEF Features
  <2> QED  BY <2>2, LeastNatural
<1> HIDE DEF id
<1>6. Features(i.obs) # {} => change \in Change
  BY <1>4, <1>5 DEF Change
<1> HIDE DEF change
<1>7. pending[p].adds \in Seq(Item) /\ pending[p].updates \in Seq(Change)
  BY <1>3 DEF Bins
<1>8. /\ Append(pending[p].adds, i) \in Seq(Item)
      /\ Features(i.obs) # {} => Append(pending[p].updates, change) \in Seq(Change)
  BY <1>3, <1>6, <1>7
<1>9. bins \in Bins
  BY <1>3, <1>7, <1>8 DEF Bins
<1> HIDE DEF bins, new
<1>10. pending' \in [Processors -> Bins]
  BY <1>1, <1>2, <1>9 DEF TypeOK
<1> QED  BY <1>1, <1>2, <1>3, <1>10, RestState DEF TypeOK

LEMMA FailState ==
  ASSUME StateInv, NEW b \in DOMAIN batch, NEW i \in batch[b].asked, QueryFails(b, i)
  PROVE  StateInv'
<1> DEFINE new == [batch[b] EXCEPT !.asked = @ \ {i}]
<1>1. TypeOK
  BY DEF StateInv
<1>2. /\ upsets < MaxUpsets /\ upsets' = upsets + 1 /\ doubtful' = doubtful \cup {i.obs}
      /\ Rest(b, new)
      /\ UNCHANGED <<doc, now, layer, config, proc, link, timer, time, pending, loop, again>>
  BY DEF QueryFails, outside, setup
<1>3. RestOf(new) /\ i.obs \in Observations
  BY AskedState DEF Item
<1>4. upsets' \in 0..MaxUpsets /\ upsets <= upsets' /\ doubtful' \in SUBSET Observations
  BY <1>1, <1>2, <1>3, ArcGISAssumption DEF TypeOK
<1> HIDE DEF new
<1> QED  BY <1>1, <1>2, <1>3, <1>4, RestState DEF TypeOK

LEMMA StateStep == StateInv /\ [Next]_vars => StateInv'
<1> SUFFICES ASSUME StateInv, [Next]_vars PROVE StateInv'
  OBVIOUS
<1>1. ASSUME NEW o \in Observations, NEW archived \in BOOLEAN, NEW early \in BOOLEAN,
             Save(o, archived, early)
      PROVE  StateInv'
  BY <1>1, SaveState
<1>2. ASSUME NEW changed \in BOOLEAN, putConfig(changed) PROVE StateInv'
  BY <1>2, ConfigState
<1>3. ASSUME NEW l \in Chains, CycleStep(l) \/ LayersFail(l) PROVE StateInv'
  <2>1. CASE updateConfig(l) \/ LayersFail(l) \/ NoLayers(l)
    BY <2>1, ConfigRead, UpdateConfigState
  <2> QED  BY <1>3, <2>1, PendingState, SendPendingState, PageState, EndCycleState DEF CycleStep
<1>4. ASSUME NEW b \in DOMAIN batch, BatchStep(b) PROVE StateInv'
  BY <1>4, SortState, SendBatchState, DeleteState, QueryState DEF BatchStep
<1>5. ASSUME NEW b \in DOMAIN batch, NEW i \in batch[b].asked, QueryFails(b, i) PROVE StateInv'
  BY <1>5, FailState
<1>6. CASE Crash
  BY <1>6, CrashState
<1>7. CASE UNCHANGED vars
  <2>1. TypeOK /\ ClockInv /\ PhaseInv
    BY DEF StateInv
  <2>2. UNCHANGED <<doc, now, layer, upsets, config, proc, link, timer, time, pending, loop, batch,
                    again, doubtful>>
    BY <1>7 DEF vars, outside, setup, work, history
  <2>3. TypeOK' /\ ClockInv' /\ PhaseInv'
    BY <2>1, <2>2 DEF TypeOK, ClockInv, PhaseInv
  <2> QED  BY <2>3 DEF StateInv
<1> QED  BY <1>1, <1>2, <1>3, <1>4, <1>5, <1>6, <1>7 DEF Next

-----------------------------------------------------------------------------
(***************************************************************************)
(* One holder, and one feature.                                            *)
(***************************************************************************)
LEMMA Empty ==
  /\ Of(<<>>) = {} /\ NoBins.adds = <<>>
  /\ \A o : Once(<<>>, o)
BY DEF Of, NoBins, Once

(* Nothing takes an observation that did not hold it.                      *)
LEMMA FewerHolders ==
  ASSUME NEW o \in Observations, FeatureInv(o),
         NEW was \in [DOMAIN batch' -> DOMAIN batch],
         \A c, d \in DOMAIN batch' : was[c] = was[d] => c = d,
         \A c \in DOMAIN batch' :
            /\ Carries(batch'[c], o) => Carries(batch[was[c]], o)
            /\ OnceIn(batch'[c], o)
            /\ Adds(batch'[c], o) => Features(o)' = {},
         \A p \in Processors :
            /\ o \in Of(pending'[p].adds) => Pends(p, o) /\ Features(o)' = {}
            /\ Once(pending'[p].adds, o),
         \A l \in Chains :
            /\ o \in Of(loop'[l].bins.adds) => Sends(l, o) /\ Features(o)' = {}
            /\ Once(loop'[l].bins.adds, o),
         SingleInv(o)'
  PROVE  FeatureInv(o)'
<1>1. AloneInv(o)
  BY DEF FeatureInv
<1>2. \A p \in Processors : Pends(p, o)' => Pends(p, o) /\ Features(o)' = {}
  BY DEF Pends
<1>3. \A l \in Chains : Sends(l, o)' => Sends(l, o) /\ Features(o)' = {}
  BY DEF Sends
<1>4. \A c \in DOMAIN batch' : was[c] \in DOMAIN batch
  OBVIOUS
<1>5. AloneInv(o)'
  BY <1>1, <1>2, <1>3, <1>4 DEF AloneInv
<1>6. OnceInv(o)'
  BY DEF OnceInv
<1>7. NewInv(o)'
  BY <1>2, <1>3 DEF NewInv
<1> QED  BY <1>5, <1>6, <1>7 DEF FeatureInv

(* The batches are as they were, and the layer shows as much.              *)
LEMMA SameBatches ==
  ASSUME NEW o \in Observations, FeatureInv(o), UNCHANGED batch,
         \A b \in DOMAIN batch : Adds(batch[b], o) => Features(o)' = {},
         \A p \in Processors :
            /\ o \in Of(pending'[p].adds) => Pends(p, o) /\ Features(o)' = {}
            /\ Once(pending'[p].adds, o),
         \A l \in Chains :
            /\ o \in Of(loop'[l].bins.adds) => Sends(l, o) /\ Features(o)' = {}
            /\ Once(loop'[l].bins.adds, o),
         SingleInv(o)'
  PROVE  FeatureInv(o)'
<1> DEFINE was == [b \in DOMAIN batch |-> b]
<1>1. was \in [DOMAIN batch' -> DOMAIN batch] /\ \A c \in DOMAIN batch' : was[c] = c /\ batch'[c] = batch[c]
  OBVIOUS
<1>2. \A c \in DOMAIN batch' : OnceIn(batch'[c], o)
  BY <1>1 DEF FeatureInv, OnceInv
<1> HIDE DEF was
<1>3. /\ \A c, d \in DOMAIN batch' : was[c] = was[d] => c = d
      /\ \A c \in DOMAIN batch' :
            /\ Carries(batch'[c], o) => Carries(batch[was[c]], o)
            /\ Adds(batch'[c], o) => Features(o)' = {}
  BY <1>1
<1> QED  BY <1>1, <1>2, <1>3, FewerHolders

(* One batch goes on, with no more than it carried.                        *)
LEMMA RestHolds ==
  ASSUME StateInv, NEW o \in Observations, FeatureInv(o),
         NEW b \in DOMAIN batch, NEW new, RestOf(new), Rest(b, new), UNCHANGED <<pending, loop>>,
         Carries(new, o) => Carries(batch[b], o), OnceIn(new, o),
         Adds(new, o) => Features(o)' = {},
         \A c \in DOMAIN batch \ {b} : Adds(batch[c], o) => Features(o)' = {},
         \A p \in Processors : Pends(p, o) => Features(o)' = {},
         \A l \in Chains : Sends(l, o) => Features(o)' = {},
         SingleInv(o)'
  PROVE  FeatureInv(o)'
<1>1. new \in Batch /\ batch \in Seq(Batch)
  BY DEF StateInv, TypeOK, RestOf
<1>2. PICK was \in [DOMAIN batch' -> DOMAIN batch] :
        /\ \A c, d \in DOMAIN batch' : was[c] = was[d] => c = d
        /\ \A c \in DOMAIN batch' : batch'[c] = IF was[c] = b THEN new ELSE batch[was[c]]
  BY <1>1, RestMoves
<1>3. \A c \in DOMAIN batch' :
        /\ Carries(batch'[c], o) => Carries(batch[was[c]], o)
        /\ OnceIn(batch'[c], o)
        /\ Adds(batch'[c], o) => Features(o)' = {}
  <2> TAKE c \in DOMAIN batch'
  <2>1. was[c] \in DOMAIN batch
    OBVIOUS
  <2>2. CASE was[c] = b
    <3>1. batch'[c] = new
      BY <1>2, <2>2
    <3> QED  BY <2>2, <3>1
  <2>3. CASE was[c] # b
    <3>1. batch'[c] = batch[was[c]]
      BY <1>2, <2>3
    <3>2. OnceIn(batch[was[c]], o)
      BY <2>1 DEF FeatureInv, OnceInv
    <3> QED  BY <2>1, <2>3, <3>1, <3>2
  <2> QED  BY <2>2, <2>3
<1>4. \A p \in Processors :
        /\ o \in Of(pending'[p].adds) => Pends(p, o) /\ Features(o)' = {}
        /\ Once(pending'[p].adds, o)
  BY DEF Pends, FeatureInv, OnceInv
<1>5. \A l \in Chains :
        /\ o \in Of(loop'[l].bins.adds) => Sends(l, o) /\ Features(o)' = {}
        /\ Once(loop'[l].bins.adds, o)
  BY DEF Sends, FeatureInv, OnceInv
<1> QED  BY <1>2, <1>3, <1>4, <1>5, FewerHolders

(* The observation's features after a request.                             *)
LEMMA SendFeatures ==
  ASSUME StateInv, NEW bins \in Bins, NEW kind \in Kinds, send(bins, kind),
         NEW o \in Observations, SingleInv(o),
         Once(bins.adds, o), o \in Of(bins.adds) => Features(o) = {}
  PROVE  /\ SingleInv(o)'
         /\ Features(o)' \subseteq Features(o) \/ (kind = "adds" /\ o \in Of(bins.adds))
<1>1. layer \in [Observations -> Seq(Times)]
  BY DEF StateInv, TypeOK
<1>2. bins.adds \in Seq(Item) /\ bins.updates \in Seq(Change)
  BY DEF Bins
<1>3. Features(o) = Shown(layer[o]) /\ Features(o)' = Shown(layer'[o])
  BY DEF Features, Shown
<1>4. CASE Features(o)' \subseteq Features(o)
  BY <1>4 DEF SingleInv
<1>5. CASE UNCHANGED layer
  <2>1. Features(o)' = Features(o)
    BY <1>5 DEF Features
  <2> QED  BY <1>4, <2>1
<1>6. CASE kind = "adds" /\ layer' = Added(bins.adds)
  <2>1. CASE o \notin Of(bins.adds)
    <3>1. layer'[o] = layer[o]
      BY <1>1, <1>2, <1>6, <2>1, AddedLayer
    <3> QED  BY <1>3, <1>4, <3>1
  <2>2. CASE o \in Of(bins.adds)
    <3>1. \A f, g \in Shown(layer'[o]) : f = g
      BY <1>1, <1>2, <1>6, <2>2, AddedLayer
    <3> QED  BY <1>3, <1>6, <2>2, <3>1 DEF SingleInv
  <2> QED  BY <2>1, <2>2
<1>7. CASE kind = "updates" /\ layer' = Updated(bins.updates)
  <2>1. Shown(layer'[o]) \subseteq Features(o)
    BY <1>1, <1>2, <1>7, UpdatedLayer
  <2> QED  BY <1>3, <1>4, <2>1
<1> QED  BY <1>5, <1>6, <1>7 DEF send, Requested, Kinds

(* No feature is requested: the layer and the history are left alone.      *)
LEMMA SaveFeature ==
  ASSUME StateInv, NEW o \in Observations, FeatureInv(o),
         UNCHANGED <<layer, pending, loop, batch>>
  PROVE  FeatureInv(o)'
<1>1. Features(o)' = Features(o)
  BY DEF Features
<1>2. SingleInv(o)' /\ \A b \in DOMAIN batch : Adds(batch[b], o) => Features(o)' = {}
  BY <1>1 DEF FeatureInv, SingleInv, NewInv
<1>3. \A p \in Processors :
        /\ o \in Of(pending'[p].adds) => Pends(p, o) /\ Features(o)' = {}
        /\ Once(pending'[p].adds, o)
  BY <1>1 DEF Pends, FeatureInv, OnceInv, NewInv
<1>4. \A l \in Chains :
        /\ o \in Of(loop'[l].bins.adds) => Sends(l, o) /\ Features(o)' = {}
        /\ Once(loop'[l].bins.adds, o)
  BY <1>1 DEF Sends, FeatureInv, OnceInv, NewInv
<1> QED  BY <1>2, <1>3, <1>4, SameBatches

(* A cycle that begins or ends holds nothing.                              *)
LEMMA LoopFeature ==
  ASSUME StateInv, NEW o \in Observations, FeatureInv(o),
         UNCHANGED <<layer, pending, batch>>,
         \A l \in Chains : loop'[l].bins = NoBins \/ loop'[l].bins = loop[l].bins
  PROVE  FeatureInv(o)'
<1>1. Features(o)' = Features(o)
  BY DEF Features
<1>2. SingleInv(o)' /\ \A b \in DOMAIN batch : Adds(batch[b], o) => Features(o)' = {}
  BY <1>1 DEF FeatureInv, SingleInv, NewInv
<1>3. \A p \in Processors :
        /\ o \in Of(pending'[p].adds) => Pends(p, o) /\ Features(o)' = {}
        /\ Once(pending'[p].adds, o)
  BY <1>1 DEF Pends, FeatureInv, OnceInv, NewInv
<1>4. \A l \in Chains :
        /\ o \in Of(loop'[l].bins.adds) => Sends(l, o) /\ Features(o)' = {}
        /\ Once(loop'[l].bins.adds, o)
  BY <1>1, Empty DEF Sends, FeatureInv, OnceInv, NewInv
<1> QED  BY <1>2, <1>3, <1>4, SameBatches

LEMMA ConfigFeature ==
  ASSUME StateInv, NEW o \in Observations, FeatureInv(o), NEW changed \in BOOLEAN, putConfig(changed)
  PROVE  FeatureInv(o)'
<1>1. loop \in [Chains -> Cycle] /\ timer \in Chains
  BY DEF StateInv, TypeOK
<1> DEFINE stopped == IF loop[timer].at = "armed"
                      THEN [loop EXCEPT ![timer] = NoCycle("none")] ELSE loop
           off == {l \in Chains : stopped[l].at = "none"}
           next == CHOOSE l \in off : TRUE
<1>2. loop' = [stopped EXCEPT ![next] = NoCycle("config")] /\ UNCHANGED <<layer, pending, batch>>
  BY DEF putConfig, outside, history
<1>3. /\ DOMAIN stopped = Chains
      /\ \A l \in Chains : stopped[l].bins = NoBins \/ stopped[l].bins = loop[l].bins
  BY <1>1, Values
<1> HIDE DEF stopped, next
<1>4. \A l \in Chains : loop'[l].bins = NoBins \/ loop'[l].bins = loop[l].bins
  BY <1>2, <1>3, Values
<1> QED  BY <1>2, <1>4, LoopFeature

LEMMA UpdateConfigFeature ==
  ASSUME StateInv, NEW o \in Observations, FeatureInv(o), NEW l \in Chains, NEW cycle, Starts(l, cycle)
  PROVE  FeatureInv(o)'
<1>1. loop \in [Chains -> Cycle]
  BY DEF StateInv, TypeOK
<1>2. Goes(l, cycle) /\ UNCHANGED <<layer, pending, batch>>
  BY DEF Starts
<1>3. cycle.bins = NoBins
  BY DEF Starts, NoCycle
<1>4. \A k \in Chains : loop'[k].bins = NoBins \/ loop'[k].bins = loop[k].bins
  BY <1>1, <1>2, <1>3 DEF Goes
<1> QED  BY <1>2, <1>4, LoopFeature

LEMMA EndCycleFeature ==
  ASSUME StateInv, NEW o \in Observations, FeatureInv(o), NEW l \in Chains, EndCycle(l)
  PROVE  FeatureInv(o)'
<1>1. loop \in [Chains -> Cycle]
  BY DEF StateInv, TypeOK
<1>2. Goes(l, NoCycle("armed")) /\ UNCHANGED <<layer, pending, batch>>
  BY DEF EndCycle, Armed, outside
<1>3. \A k \in Chains : loop'[k].bins = NoBins \/ loop'[k].bins = loop[k].bins
  BY <1>1, <1>2, Values DEF Goes
<1> QED  BY <1>2, <1>3, LoopFeature

LEMMA CrashFeature ==
  ASSUME StateInv, NEW o \in Observations, FeatureInv(o), Crash
  PROVE  FeatureInv(o)'
<1>1. /\ loop' = [l \in Chains |-> NoCycle(IF l = 1 THEN "config" ELSE "none")]
      /\ pending' = [p \in Processors |-> NoBins] /\ batch' = <<>> /\ UNCHANGED layer
  BY DEF Crash
<1>2. \A l \in Chains : loop'[l].bins = NoBins
  BY <1>1, Values
<1>3. \A p \in Processors : pending'[p] = NoBins
  BY <1>1
<1>4. SingleInv(o)'
  BY <1>1 DEF FeatureInv, SingleInv, Features
<1> DEFINE was == [b \in {} |-> b]
<1>5. DOMAIN batch' = {} /\ was \in [{} -> DOMAIN batch]
  BY <1>1
<1> HIDE DEF was
<1>6. /\ \A p \in Processors : o \notin Of(pending'[p].adds) /\ Once(pending'[p].adds, o)
      /\ \A l \in Chains : o \notin Of(loop'[l].bins.adds) /\ Once(loop'[l].bins.adds, o)
  BY <1>2, <1>3, Empty
<1> QED  BY <1>4, <1>5, <1>6, FewerHolders

LEMMA InitFeature ==
  ASSUME Init, NEW o \in Observations
  PROVE  FeatureInv(o)
<1>1. \A l \in Chains : loop[l].bins = NoBins
  BY Values DEF Init
<1>2. \A p \in Processors : pending[p] = NoBins
  BY DEF Init
<1>3. DOMAIN batch = {} /\ Features(o) = {}
  BY DEF Init, Features
<1>4. /\ \A p \in Processors : ~Pends(p, o) /\ Once(pending[p].adds, o)
      /\ \A l \in Chains : ~Sends(l, o) /\ Once(loop[l].bins.adds, o)
  BY <1>1, <1>2, Empty DEF Pends, Sends
<1> QED  BY <1>3, <1>4 DEF FeatureInv, AloneInv, OnceInv, NewInv, SingleInv

(* What is pending becomes what the cycle sends.                           *)
LEMMA PendingFeature ==
  ASSUME StateInv, NEW o \in Observations, FeatureInv(o), NEW l \in Chains, processPendingUpdates(l)
  PROVE  FeatureInv(o)'
<1>1. TypeOK /\ PhaseInv
  BY DEF StateInv
<1> DEFINE p == loop[l].proc
<1>2. PICK old \in SUBSET Observations :
        LET bins == [pending[p] EXCEPT !.adds = Kept(@, Observations \ old)] IN
        Goes(l, IF bins = NoBins THEN FirstPage
                ELSE [loop[l] EXCEPT !.at = "send", !.bins = bins])
  BY DEF processPendingUpdates
<1> DEFINE adds == Kept(pending[p].adds, Observations \ old)
           bins == [pending[p] EXCEPT !.adds = Kept(@, Observations \ old)]
           cycle == IF bins = NoBins THEN FirstPage
                    ELSE [loop[l] EXCEPT !.at = "send", !.bins = bins]
<1>3. /\ pending' = [pending EXCEPT ![p] = NoBins] /\ loop[l].at = "query"
      /\ UNCHANGED <<layer, batch>>
  BY DEF processPendingUpdates
<1>4. p \in Processors /\ loop[l] \in Cycle /\ pending[p] \in Bins /\ pending[p].adds \in Seq(Item)
  BY <1>1 DEF TypeOK, Cycle, Bins
<1>5. Of(adds) \subseteq Of(pending[p].adds) /\ (Once(pending[p].adds, o) => Once(adds, o))
  BY <1>4, KeptOnce
<1>6. bins.adds = adds
  BY <1>4 DEF Bins
<1> HIDE DEF adds, bins
<1>7. cycle.bins.adds = adds
  BY <1>4, <1>6, FirstPageType DEF Cycle
<1>8. loop' = [loop EXCEPT ![l] = cycle] /\ loop \in [Chains -> Cycle]
  BY <1>1, <1>2 DEF Goes, bins, TypeOK
<1> HIDE DEF cycle, p
<1>9. \A k \in Chains : loop'[k].bins.adds = IF k = l THEN adds ELSE loop[k].bins.adds
  BY <1>7, <1>8
<1>10. \A q \in Processors : pending'[q].adds = IF q = p THEN <<>> ELSE pending[q].adds
  BY <1>1, <1>3, Empty DEF TypeOK
<1>11. Features(o)' = Features(o)
  BY <1>3 DEF Features
<1>12. ~Sends(l, o)
  BY <1>1, <1>3, Empty DEF PhaseInv, Sends
<1>13. /\ \A q \in Processors : Pends(q, o)' => Pends(q, o) /\ q # p
       /\ \A k \in Chains : Sends(k, o)' => IF k = l THEN Pends(p, o) ELSE Sends(k, o)
  BY <1>5, <1>9, <1>10, Empty DEF Pends, Sends
<1>14. AloneInv(o)'
  BY <1>3, <1>4, <1>13 DEF FeatureInv, AloneInv
<1>15. OnceInv(o)'
  <2>1. Once(pending[p].adds, o)
    BY <1>4 DEF FeatureInv, OnceInv
  <2> QED  BY <1>3, <1>5, <1>9, <1>10, <2>1, Empty DEF FeatureInv, OnceInv
<1>16. NewInv(o)'
  BY <1>3, <1>4, <1>11, <1>13 DEF FeatureInv, NewInv
<1>17. SingleInv(o)'
  BY <1>11 DEF FeatureInv, SingleInv
<1> QED  BY <1>14, <1>15, <1>16, <1>17 DEF FeatureInv

(* Once an observation is sent, nothing holds it.                          *)
LEMMA SendPendingFeature ==
  ASSUME StateInv, NEW o \in Observations, FeatureInv(o),
         NEW l \in Chains, NEW kind \in Kinds, SendPending(l, kind)
  PROVE  FeatureInv(o)'
<1>1. TypeOK /\ PhaseInv
  BY DEF StateInv
<1> DEFINE bins == loop[l].bins
           rest == [bins EXCEPT ![kind] = <<>>]
           cycle == IF rest = NoBins THEN FirstPage ELSE [loop[l] EXCEPT !.bins = rest]
<1>2. send(bins, kind) /\ Goes(l, cycle) /\ UNCHANGED <<pending, batch>>
  BY DEF SendPending
<1>3. loop \in [Chains -> Cycle] /\ loop[l] \in Cycle /\ bins \in Bins
  BY <1>1 DEF TypeOK, Cycle
<1>4. rest.adds = IF kind = "adds" THEN <<>> ELSE bins.adds
  BY <1>3 DEF Bins, Kinds
<1>5. cycle.bins = rest
  <2> HIDE DEF rest, bins
  <2> QED  BY <1>3, FirstPageType DEF Cycle
<1> HIDE DEF rest, cycle
<1>6. \A k \in Chains : loop'[k].bins.adds = IF k # l THEN loop[k].bins.adds
                                             ELSE IF kind = "adds" THEN <<>> ELSE bins.adds
  BY <1>2, <1>3, <1>4, <1>5 DEF Goes
<1>7. Once(bins.adds, o) /\ (o \in Of(bins.adds) => Features(o) = {}) /\ SingleInv(o)
  BY DEF FeatureInv, OnceInv, NewInv, Sends
<1>8. SingleInv(o)' /\ (Features(o)' \subseteq Features(o) \/ (kind = "adds" /\ o \in Of(bins.adds)))
  <2> HIDE DEF bins
  <2> QED  BY <1>2, <1>3, <1>7, SendFeatures
<1>9. kind = "adds" /\ o \in Of(bins.adds) =>
        /\ \A b \in DOMAIN batch : ~Adds(batch[b], o)
        /\ \A p \in Processors : ~Pends(p, o)
        /\ \A k \in Chains : k # l => ~Sends(k, o)
  BY DEF FeatureInv, AloneInv, Sends, Carries
<1>10. \A b \in DOMAIN batch : Adds(batch[b], o) => Features(o)' = {}
  BY <1>8, <1>9 DEF FeatureInv, NewInv
<1>11. \A p \in Processors :
        /\ o \in Of(pending'[p].adds) => Pends(p, o) /\ Features(o)' = {}
        /\ Once(pending'[p].adds, o)
  BY <1>2, <1>8, <1>9 DEF Pends, FeatureInv, OnceInv, NewInv
<1>12. \A k \in Chains :
        /\ o \in Of(loop'[k].bins.adds) => Sends(k, o) /\ Features(o)' = {}
        /\ Once(loop'[k].bins.adds, o)
  <2> TAKE k \in Chains
  <2>1. o \in Of(loop'[k].bins.adds) => Sends(k, o) /\ (kind = "adds" => k # l)
    BY <1>6, Empty DEF Sends
  <2>2. Sends(k, o) => Features(o) = {}
    BY DEF FeatureInv, NewInv
  <2>3. Once(loop'[k].bins.adds, o)
    BY <1>6, Empty DEF FeatureInv, OnceInv
  <2> QED  BY <1>8, <1>9, <2>1, <2>2, <2>3
<1> QED  BY <1>2, <1>8, <1>10, <1>11, <1>12, SameBatches

LEMMA SendBatchFeature ==
  ASSUME StateInv, NEW o \in Observations, FeatureInv(o),
         NEW b \in DOMAIN batch, NEW kind \in Kinds, SendBatch(b, kind)
  PROVE  FeatureInv(o)'
<1> DEFINE bins == batch[b].bins
           new  == [batch[b] EXCEPT !.bins[kind] = <<>>]
<1>1. send(bins, kind) /\ Rest(b, new) /\ UNCHANGED <<pending, loop>>
  BY DEF SendBatch
<1>2. batch[b] \in Batch /\ bins \in Bins
  BY BatchType DEF StateInv, TypeOK
<1>3. RestOf(new)
  BY SendBatchState
<1>4. /\ new.bins.adds = (IF kind = "adds" THEN <<>> ELSE bins.adds)
      /\ new.items = batch[b].items /\ new.asked = batch[b].asked
  BY <1>2 DEF Batch, Bins, Kinds
<1>5. OnceIn(batch[b], o)
  BY DEF FeatureInv, OnceInv
<1> HIDE DEF new
<1>6. /\ Carries(new, o) => Carries(batch[b], o)
      /\ Adds(new, o) => kind # "adds" /\ Adds(batch[b], o)
  BY <1>4, Empty DEF Carries, Adds, Asks
<1>7. OnceIn(new, o)
  BY <1>4, <1>5, <1>6, Empty DEF OnceIn, Asks
<1>8. /\ Once(bins.adds, o) /\ SingleInv(o)
      /\ o \in Of(bins.adds) => Features(o) = {}
  BY <1>5 DEF FeatureInv, NewInv, OnceIn, Adds
<1>9. SingleInv(o)' /\ (Features(o)' \subseteq Features(o) \/ (kind = "adds" /\ Adds(batch[b], o)))
  <2>1. SingleInv(o)' /\ (Features(o)' \subseteq Features(o) \/ (kind = "adds" /\ o \in Of(bins.adds)))
    <3> HIDE DEF bins
    <3> QED  BY <1>1, <1>2, <1>8, SendFeatures
  <2> QED  BY <2>1 DEF Adds
<1>10. kind = "adds" /\ Adds(batch[b], o) =>
        /\ \A c \in DOMAIN batch \ {b} : ~Adds(batch[c], o)
        /\ \A p \in Processors : ~Pends(p, o)
        /\ \A l \in Chains : ~Sends(l, o)
  BY DEF FeatureInv, AloneInv, Carries
<1>11. /\ Adds(new, o) => Features(o)' = {}
       /\ \A c \in DOMAIN batch \ {b} : Adds(batch[c], o) => Features(o)' = {}
       /\ \A p \in Processors : Pends(p, o) => Features(o)' = {}
       /\ \A l \in Chains : Sends(l, o) => Features(o)' = {}
  BY <1>6, <1>9, <1>10 DEF FeatureInv, NewInv
<1> QED  BY <1>1, <1>3, <1>6, <1>7, <1>9, <1>11, RestHolds

(* A request that adds nothing, or none at all.                            *)
LEMMA ShrinkFeature ==
  ASSUME StateInv, NEW o \in Observations, FeatureInv(o), NEW b \in DOMAIN batch,
         NEW new, RestOf(new), Rest(b, new), UNCHANGED <<pending, loop>>,
         new.items = batch[b].items, new.bins = batch[b].bins, new.asked \subseteq batch[b].asked,
         Features(o)' \subseteq Features(o)
  PROVE  FeatureInv(o)'
<1>1. OnceIn(batch[b], o)
  BY DEF FeatureInv, OnceInv
<1>2. (Carries(new, o) => Carries(batch[b], o)) /\ (Adds(new, o) => Adds(batch[b], o))
  BY DEF Carries, Adds, Asks
<1>3. OnceIn(new, o)
  BY <1>1 DEF OnceIn, Adds, Asks
<1>4. /\ Adds(new, o) => Features(o)' = {}
      /\ \A c \in DOMAIN batch \ {b} : Adds(batch[c], o) => Features(o)' = {}
      /\ \A p \in Processors : Pends(p, o) => Features(o)' = {}
      /\ \A l \in Chains : Sends(l, o) => Features(o)' = {}
  BY <1>2 DEF FeatureInv, NewInv
<1>5. SingleInv(o)'
  BY DEF FeatureInv, SingleInv
<1> QED  BY <1>2, <1>3, <1>4, <1>5, RestHolds

LEMMA DeleteFeature ==
  ASSUME StateInv, NEW o \in Observations, FeatureInv(o),
         NEW b \in DOMAIN batch, NEW d \in Observations, sendDelete(b, d)
  PROVE  FeatureInv(o)'
<1> DEFINE new == [batch[b] EXCEPT !.deletions = @ \ {d}]
<1>1. /\ batch[b].at = "send" /\ Requested({d}, Deleted(d)) /\ Rest(b, new)
      /\ UNCHANGED <<pending, loop>>
  BY DEF sendDelete
<1>2. batch[b] \in Batch /\ layer \in [Observations -> Seq(Times)]
  BY DEF StateInv, TypeOK
<1>3. RestOf(new)
  BY <1>1, <1>2, BatchType DEF RestOf, Batch
<1>4. new.items = batch[b].items /\ new.bins = batch[b].bins /\ new.asked = batch[b].asked
  BY <1>2 DEF Batch
<1>5. Features(o)' \subseteq Features(o)
  <2>1. Features(o)' = Shown(layer'[o]) /\ Features(o) = Shown(layer[o])
    BY DEF Features, Shown
  <2>2. layer' = layer \/ layer' = Deleted(d)
    BY <1>1 DEF Requested
  <2> QED  BY <1>2, <2>1, <2>2, DeletedLayer
<1> HIDE DEF new
<1> QED  BY <1>1, <1>3, <1>4, <1>5, ShrinkFeature

LEMMA FailFeature ==
  ASSUME StateInv, NEW o \in Observations, FeatureInv(o),
         NEW b \in DOMAIN batch, NEW i \in batch[b].asked, QueryFails(b, i)
  PROVE  FeatureInv(o)'
<1> DEFINE new == [batch[b] EXCEPT !.asked = @ \ {i}]
<1>1. Rest(b, new) /\ UNCHANGED <<layer, pending, loop>>
  BY DEF QueryFails
<1>2. batch[b] \in Batch
  BY DEF StateInv, TypeOK
<1>3. new.items = batch[b].items /\ new.bins = batch[b].bins /\ new.asked \subseteq batch[b].asked
  BY <1>2 DEF Batch
<1>4. RestOf(new) /\ Features(o)' \subseteq Features(o)
  BY <1>1, AskedState DEF Features
<1> HIDE DEF new
<1> QED  BY <1>1, <1>3, <1>4, ShrinkFeature

(* A page that is sorted: an observation with no feature will be added, or *)
(* the query for the existing observations failed.                         *)
LEMMA SortFeature ==
  ASSUME StateInv, NEW b \in DOMAIN batch, processArcObjects(b),
         NEW o \in Observations \ again', FeatureInv(o)
  PROVE  FeatureInv(o)'
<1>1. PICK old \in SUBSET Observations :
        /\ Rest(b, SortedInto(b, old))
        /\ again' = IF old = existingObservationIds THEN again
                    ELSE again \cup Of(batch[b].items)
  BY DEF processArcObjects, SortedInto
<1>2. UNCHANGED <<layer, pending, loop>>
  BY DEF processArcObjects, outside, setup
<1> DEFINE items == batch[b].items
           live  == {i.obs : i \in {j \in ToSet(items) : ~j.archived}}
           new   == SortedInto(b, old)
<1>3. items \in Seq(Item) /\ OnceIn(batch[b], o)
  BY BatchType DEF FeatureInv, OnceInv
<1>4. RestOf(new)
  BY SortedIntoType
<1>5. /\ new.items = <<>> /\ new.bins.adds = Kept(items, live \ old)
      /\ new.asked = {i \in ToSet(items) : i.obs \in live \cap old}
  BY DEF SortedInto
<1>6. /\ Of(Kept(items, live \ old)) \subseteq Of(items) \cap (live \ old)
      /\ Once(items, o) => Once(Kept(items, live \ old), o)
  <2> HIDE DEF live
  <2> QED  BY <1>3, KeptOnce
<1> HIDE DEF live, new
<1>7. Adds(new, o) => o \in Of(items) /\ o \notin old
  BY <1>5, <1>6 DEF Adds
<1>8. Asks(new, o) => o \in Of(items) /\ o \in old
  BY <1>5 DEF Asks, Of, ToSet
<1>9. Carries(new, o) => Carries(batch[b], o)
  BY <1>5, <1>7, <1>8, Empty DEF Carries
<1>10. OnceIn(new, o)
  <2>1. Once(new.bins.adds, o) /\ Once(new.items, o) /\ ~(Adds(new, o) /\ Asks(new, o))
    BY <1>3, <1>5, <1>6, <1>7, <1>8, Empty DEF OnceIn
  <2>2. \A i, j \in new.asked : i.obs = o /\ j.obs = o => i = j
    BY <1>3, <1>5 DEF OnceIn, Once, ToSet
  <2> QED  BY <2>1, <2>2 DEF OnceIn
<1>11. Features(o)' = Features(o)
  BY <1>2 DEF Features
<1>12. Adds(new, o) => Features(o) = {}
  BY <1>1, <1>7 DEF existingObservationIds
<1>13. /\ \A c \in DOMAIN batch \ {b} : Adds(batch[c], o) => Features(o)' = {}
       /\ \A p \in Processors : Pends(p, o) => Features(o)' = {}
       /\ \A l \in Chains : Sends(l, o) => Features(o)' = {}
       /\ SingleInv(o)'
  BY <1>11 DEF FeatureInv, NewInv, SingleInv
<1> QED  BY <1>1, <1>2, <1>4, <1>9, <1>10, <1>11, <1>12, <1>13, RestHolds DEF new

LEMMA Appended ==
  ASSUME NEW S, NEW list \in Seq(S), NEW i \in S, NEW o
  PROVE  /\ Of(Append(list, i)) = Of(list) \cup {i.obs}
         /\ Once(list, o) /\ (i.obs = o => o \notin Of(list)) => Once(Append(list, i), o)
<1> DEFINE n == Len(list)
<1>1. n \in Nat /\ DOMAIN list = 1..n /\ DOMAIN Append(list, i) = 1..(n + 1)
  OBVIOUS
<1>2. \A j \in 1..(n + 1) : Append(list, i)[j] = IF j = n + 1 THEN i ELSE list[j]
  OBVIOUS
<1> HIDE DEF n
<1>3. Of(Append(list, i)) = Of(list) \cup {i.obs}
  <2>1. ASSUME NEW x \in Of(Append(list, i)) PROVE x \in Of(list) \cup {i.obs}
    <3>1. PICK j \in 1..(n + 1) : x = Append(list, i)[j].obs
      BY <1>1, <2>1 DEF Of
    <3>2. j = n + 1 \/ j \in 1..n
      BY <1>1
    <3> QED  BY <1>1, <1>2, <3>1, <3>2 DEF Of
  <2>2. ASSUME NEW j \in 1..n PROVE list[j].obs \in Of(Append(list, i))
    <3>1. j \in 1..(n + 1) /\ Append(list, i)[j] = list[j]
      BY <1>1, <1>2
    <3> QED  BY <1>1, <3>1 DEF Of
  <2>3. i.obs \in Of(Append(list, i))
    <3>1. n + 1 \in 1..(n + 1) /\ Append(list, i)[n + 1] = i
      BY <1>1, <1>2
    <3> QED  BY <1>1, <3>1 DEF Of
  <2> QED  BY <1>1, <2>1, <2>2, <2>3 DEF Of
<1>4. ASSUME Once(list, o), i.obs = o => o \notin Of(list)
      PROVE  Once(Append(list, i), o)
  <2> SUFFICES ASSUME NEW j \in 1..(n + 1), NEW k \in 1..(n + 1),
                      Append(list, i)[j].obs = o, Append(list, i)[k].obs = o
               PROVE  j = k
    BY <1>1 DEF Once
  <2>1. CASE i.obs = o
    <3>1. \A m \in 1..n : list[m].obs # o
      BY <1>1, <1>4, <2>1 DEF Of
    <3> QED  BY <1>1, <1>2, <3>1
  <2>2. CASE i.obs # o
    <3>1. j \in 1..n /\ k \in 1..n
      BY <1>1, <1>2, <2>2
    <3> QED  BY <1>1, <1>2, <1>4, <3>1 DEF Once
  <2> QED  BY <2>1, <2>2
<1> QED  BY <1>3, <1>4

(* What is asked for and has no feature is pending instead.                *)
LEMMA QueryFeature ==
  ASSUME StateInv, NEW o \in Observations, FeatureInv(o),
         NEW b \in DOMAIN batch, NEW i \in batch[b].asked, queryObservation(b, i)
  PROVE  FeatureInv(o)'
<1> DEFINE p   == batch[b].proc
           new == [batch[b] EXCEPT !.asked = @ \ {i}]
<1>1. Rest(b, new) /\ UNCHANGED <<layer, loop>>
  BY DEF queryObservation
<1>2. /\ batch \in Seq(Batch) /\ batch[b] \in Batch /\ p \in Processors
      /\ pending[p].adds \in Seq(Item) /\ i \in Item
  BY BatchType DEF StateInv, TypeOK, Bins
<1>3. \/ Features(i.obs) = {} /\ pending'[p].adds = Append(pending[p].adds, i)
      \/ pending'[p].adds = pending[p].adds
  BY <1>2 DEF queryObservation, StateInv, TypeOK, Bins
<1>4. \A q \in Processors : q # p => pending'[q] = pending[q]
  BY <1>2 DEF queryObservation, StateInv, TypeOK
<1>5. RestOf(new) /\ new \in Batch
  BY AskedState DEF RestOf
<1>6. new.items = batch[b].items /\ new.bins = batch[b].bins /\ new.asked = batch[b].asked \ {i}
  BY <1>2 DEF Batch
<1>7. Features(o)' = Features(o)
  BY <1>1 DEF Features
<1>8. OnceIn(batch[b], o) /\ batch[b].items = <<>>
  BY BatchType DEF FeatureInv, OnceInv
<1> HIDE DEF new, p
<1>9. (Carries(new, o) => Carries(batch[b], o)) /\ (Adds(new, o) <=> Adds(batch[b], o))
  BY <1>6 DEF Carries, Adds, Asks
<1>10. OnceIn(new, o)
  BY <1>6, <1>8 DEF OnceIn, Adds, Asks
<1>11. i.obs = o => ~Carries(new, o) /\ Carries(batch[b], o)
  BY <1>6, <1>8, Empty DEF Carries, OnceIn, Adds, Asks
<1>12. PICK was \in [DOMAIN batch' -> DOMAIN batch] :
        /\ \A c, d \in DOMAIN batch' : was[c] = was[d] => c = d
        /\ \A c \in DOMAIN batch' : batch'[c] = IF was[c] = b THEN new ELSE batch[was[c]]
  BY <1>1, <1>2, <1>5, RestMoves
<1>13. \A c \in DOMAIN batch' :
        /\ Carries(batch'[c], o) => Carries(batch[was[c]], o)
        /\ OnceIn(batch'[c], o)
        /\ Adds(batch'[c], o) => Features(o)' = {}
  <2> TAKE c \in DOMAIN batch'
  <2>1. was[c] \in DOMAIN batch
    OBVIOUS
  <2>2. CASE was[c] = b
    <3>1. batch'[c] = new
      BY <1>12, <2>2
    <3>2. Adds(batch[b], o) => Features(o) = {}
      BY DEF FeatureInv, NewInv
    <3> QED  BY <1>7, <1>9, <1>10, <2>2, <3>1, <3>2
  <2>3. CASE was[c] # b
    <3>1. batch'[c] = batch[was[c]]
      BY <1>12, <2>3
    <3>2. OnceIn(batch[was[c]], o) /\ (Adds(batch[was[c]], o) => Features(o) = {})
      BY <2>1 DEF FeatureInv, OnceInv, NewInv
    <3> QED  BY <1>7, <3>1, <3>2
  <2> QED  BY <2>2, <2>3
<1>14. \A l \in Chains :
        /\ o \in Of(loop'[l].bins.adds) => Sends(l, o) /\ Features(o)' = {}
        /\ Once(loop'[l].bins.adds, o)
  BY <1>1, <1>7 DEF Sends, FeatureInv, OnceInv, NewInv
<1>15. SingleInv(o)'
  BY <1>7 DEF FeatureInv, SingleInv
<1>16. \A q \in Processors : Once(pending[q].adds, o) /\ (Pends(q, o) => Features(o) = {})
  BY DEF FeatureInv, OnceInv, NewInv
<1>17. CASE i.obs # o \/ pending'[p].adds = pending[p].adds
  <2>1. /\ o \in Of(pending'[p].adds) <=> Pends(p, o)
        /\ Once(pending'[p].adds, o)
    <3>1. Once(pending[p].adds, o)
      BY <1>2, <1>16
    <3>2. CASE pending'[p].adds = pending[p].adds
      BY <3>1, <3>2 DEF Pends
    <3>3. CASE i.obs # o /\ pending'[p].adds = Append(pending[p].adds, i)
      <4>1. /\ Of(Append(pending[p].adds, i)) = Of(pending[p].adds) \cup {i.obs}
            /\ Once(Append(pending[p].adds, i), o)
        BY <1>2, <3>1, <3>3, Appended
      <4> QED  BY <3>3, <4>1 DEF Pends
    <3> QED  BY <1>3, <1>17, <3>2, <3>3
  <2>2. \A q \in Processors :
        /\ o \in Of(pending'[q].adds) => Pends(q, o) /\ Features(o)' = {}
        /\ Once(pending'[q].adds, o)
    BY <1>4, <1>7, <1>16, <2>1 DEF Pends
  <2> QED  BY <1>12, <1>13, <1>14, <1>15, <2>2, FewerHolders
<1>18. CASE i.obs = o /\ Features(o) = {} /\ pending'[p].adds = Append(pending[p].adds, i)
  <2>1. /\ \A q \in Processors : ~Pends(q, o)
        /\ \A l \in Chains : ~Sends(l, o)
        /\ \A c \in DOMAIN batch : Carries(batch[c], o) => c = b
    BY <1>11, <1>18 DEF FeatureInv, AloneInv
  <2>2. \A c \in DOMAIN batch' : ~Carries(batch'[c], o)
    BY <1>11, <1>12, <1>13, <1>18, <2>1
  <2>3. \A l \in Chains : ~Sends(l, o)'
    BY <1>1, <2>1 DEF Sends
  <2>4. \A q \in Processors : Pends(q, o)' => q = p
    BY <1>4, <2>1 DEF Pends
  <2>5. Once(pending'[p].adds, o)
    BY <1>2, <1>16, <1>18, <2>1, Appended DEF Pends
  <2>6. AloneInv(o)'
    BY <2>2, <2>3, <2>4 DEF AloneInv
  <2>7. OnceInv(o)'
    BY <1>4, <1>13, <1>14, <1>16, <2>5 DEF OnceInv
  <2>8. NewInv(o)'
    BY <1>7, <1>18 DEF NewInv
  <2> QED  BY <1>15, <2>6, <2>7, <2>8 DEF FeatureInv
<1> QED  BY <1>3, <1>17, <1>18

(* Whoever holds an observation has it in flight.                          *)
LEMMA HeldInFlight ==
  ASSUME NEW o
  PROVE  /\ \A b \in DOMAIN batch : Carries(batch[b], o) => o \in InFlight
         /\ \A p \in Processors : Pends(p, o) => o \in InFlight
         /\ \A l \in Chains : Sends(l, o) => o \in InFlight
<1>1. ASSUME NEW b \in DOMAIN batch, Carries(batch[b], o) PROVE o \in InFlight
  <2>1. o \in Of(batch[b].items) \cup InBins(batch[b].bins) \cup batch[b].deletions
                 \cup {i.obs : i \in batch[b].asked}
    BY <1>1 DEF Carries, Adds, Asks, InBins
  <2> QED  BY <2>1 DEF InFlight
<1>2. ASSUME NEW p \in Processors, Pends(p, o) PROVE o \in InFlight
  <2>1. o \in InBins(pending[p])
    BY <1>2 DEF Pends, InBins
  <2> QED  BY <2>1 DEF InFlight
<1>3. ASSUME NEW l \in Chains, Sends(l, o) PROVE o \in InFlight
  <2>1. o \in InBins(loop[l].bins)
    BY <1>3 DEF Sends, InBins
  <2> QED  BY <2>1 DEF InFlight
<1> QED  BY <1>1, <1>2, <1>3

(* A page that is read holds what nothing else does, or it is read again.  *)
LEMMA PageFeature ==
  ASSUME StateInv, NEW l \in Chains, queryAndSend(l),
         NEW o \in Observations \ again', FeatureInv(o)
  PROVE  FeatureInv(o)'
<1>1. PICK items, next : Read(l, items, next)
  BY PageRead
<1> DEFINE new == [at |-> "query", proc |-> loop[l].proc, items |-> items,
                   bins |-> NoBins, asked |-> {}, deletions |-> {}]
<1>2. /\ batch \in Seq(Batch) /\ loop \in [Chains -> Cycle]
      /\ batch' = Append(batch, new) /\ Goes(l, next) /\ next.bins = NoBins
      /\ Once(items, o) /\ o \notin Of(items) \cap InFlight
      /\ UNCHANGED <<layer, pending>>
  BY <1>1 DEF Read, StateInv, TypeOK
<1>3. /\ Carries(new, o) <=> o \in Of(items)
      /\ ~Adds(new, o) /\ OnceIn(new, o)
  BY <1>2, Empty DEF Carries, Adds, Asks, OnceIn
<1> HIDE DEF new
<1> DEFINE n == Len(batch)
<1>4. /\ DOMAIN batch = 1..n /\ n \in Nat /\ DOMAIN batch' = 1..(n + 1)
      /\ batch'[n + 1] = new /\ \A c \in 1..n : batch'[c] = batch[c]
  BY <1>2
<1>5. \A c \in DOMAIN batch' : c = n + 1 \/ c \in DOMAIN batch
  <2> HIDE DEF n
  <2> QED  BY <1>4
<1>6. \A k \in Chains : loop'[k].bins.adds = IF k = l THEN <<>> ELSE loop[k].bins.adds
  BY <1>2, Empty DEF Goes
<1>7. Features(o)' = Features(o)
  BY <1>2 DEF Features
<1>8. /\ \A q \in Processors : Pends(q, o)' <=> Pends(q, o)
      /\ \A k \in Chains : Sends(k, o)' => Sends(k, o)
  BY <1>2, <1>6, Empty DEF Pends, Sends
<1> HIDE DEF n
<1>9. Carries(new, o) =>
        /\ \A b \in DOMAIN batch : ~Carries(batch[b], o)
        /\ \A p \in Processors : ~Pends(p, o)
        /\ \A k \in Chains : ~Sends(k, o)
  BY <1>2, <1>3, HeldInFlight
<1>10. AloneInv(o)'
  BY <1>4, <1>5, <1>8, <1>9 DEF FeatureInv, AloneInv
<1>11. OnceInv(o)'
  BY <1>2, <1>3, <1>4, <1>5, <1>6, Empty DEF FeatureInv, OnceInv
<1>12. NewInv(o)'
  BY <1>3, <1>4, <1>5, <1>7, <1>8 DEF FeatureInv, NewInv
<1>13. SingleInv(o)'
  BY <1>7 DEF FeatureInv, SingleInv
<1> QED  BY <1>10, <1>11, <1>12, <1>13 DEF FeatureInv

-----------------------------------------------------------------------------
LEMMA FeatureStep ==
  ASSUME StateInv, [Next]_vars, NEW o \in Observations \ again', o \notin again => FeatureInv(o)
  PROVE  FeatureInv(o)'
<1>1. again \in SUBSET Observations
  BY DEF StateInv, TypeOK
<1>2. ASSUME NEW x \in Observations, NEW archived \in BOOLEAN, NEW early \in BOOLEAN,
             Save(x, archived, early)
      PROVE  FeatureInv(o)'
  BY <1>2, SaveFeature DEF Save, setup, work
<1>3. ASSUME NEW changed \in BOOLEAN, putConfig(changed) PROVE FeatureInv(o)'
  <2>1. again' = again
    BY <1>3 DEF putConfig, history
  <2> QED  BY <1>3, <2>1, ConfigFeature
<1>4. ASSUME NEW l \in Chains, CycleStep(l) \/ LayersFail(l) PROVE FeatureInv(o)'
  <2>1. CASE updateConfig(l) \/ LayersFail(l) \/ NoLayers(l)
    <3>1. PICK cycle : Starts(l, cycle)
      BY <2>1, ConfigRead
    <3> QED  BY <3>1, UpdateConfigFeature DEF Starts
  <2>2. CASE processPendingUpdates(l)
    <3>1. again' = again
      BY <2>2 DEF processPendingUpdates, history
    <3> QED  BY <2>2, <3>1, PendingFeature
  <2>3. CASE queryAndSend(l)
    <3>1. again \subseteq again'
      BY <2>3, PageRead DEF Read
    <3> QED  BY <2>3, <3>1, PageFeature
  <2>4. CASE EndCycle(l)
    <3>1. again' = again
      BY <2>4 DEF EndCycle, Armed
    <3> QED  BY <2>4, <3>1, EndCycleFeature
  <2>5. ASSUME NEW kind \in Kinds, SendPending(l, kind) PROVE FeatureInv(o)'
    <3>1. again' = again
      BY <2>5 DEF SendPending
    <3> QED  BY <2>5, <3>1, SendPendingFeature
  <2> QED  BY <1>4, <2>1, <2>2, <2>3, <2>4, <2>5 DEF CycleStep
<1>5. ASSUME NEW b \in DOMAIN batch, BatchStep(b) PROVE FeatureInv(o)'
  <2>1. CASE processArcObjects(b)
    <3>1. again \subseteq again'
      BY <2>1 DEF processArcObjects
    <3> QED  BY <2>1, <3>1, SortFeature
  <2>2. ASSUME NEW kind \in Kinds, SendBatch(b, kind) PROVE FeatureInv(o)'
    <3>1. again' = again
      BY <2>2 DEF SendBatch
    <3> QED  BY <2>2, <3>1, SendBatchFeature
  <2>3. ASSUME NEW d \in Observations, sendDelete(b, d) PROVE FeatureInv(o)'
    <3>1. again' = again
      BY <2>3 DEF sendDelete
    <3> QED  BY <2>3, <3>1, DeleteFeature
  <2>4. ASSUME NEW i \in batch[b].asked, queryObservation(b, i) PROVE FeatureInv(o)'
    <3>1. again' = again
      BY <2>4 DEF queryObservation, history
    <3> QED  BY <2>4, <3>1, QueryFeature
  <2> QED  BY <1>5, <2>1, <2>2, <2>3, <2>4 DEF BatchStep
<1>6. ASSUME NEW b \in DOMAIN batch, NEW i \in batch[b].asked, QueryFails(b, i) PROVE FeatureInv(o)'
  <2>1. again' = again
    BY <1>6 DEF QueryFails
  <2> QED  BY <1>6, <2>1, FailFeature
<1>7. CASE Crash
  <2>1. again' = again
    BY <1>7 DEF Crash, history
  <2> QED  BY <1>7, <2>1, CrashFeature
<1>8. CASE UNCHANGED vars
  BY <1>8, SaveFeature DEF vars, work, history
<1> QED  BY <1>2, <1>3, <1>4, <1>5, <1>6, <1>7, <1>8 DEF Next

(* From the beginning and after every step: types, clocks and phases; and  *)
(* an observation that was never read while one of its versions was on its *)
(* way is held once, by one holder of all the batches in flight, the       *)
(* processors' pending lists and the cycles' requests, and has no feature  *)
(* when it is held to be added (processArcObjects, queryAndSend).          *)
THEOREM SyncCorrect == Spec => []SyncInv
<1>1. Init => SyncInv
  BY InitState, InitFeature DEF SyncInv
<1>2. SyncInv /\ [Next]_vars => SyncInv'
  <2> SUFFICES ASSUME SyncInv, [Next]_vars PROVE SyncInv'
    OBVIOUS
  <2>1. StateInv /\ StateInv'
    BY StateStep DEF SyncInv
  <2>2. ASSUME NEW o \in Observations \ again' PROVE FeatureInv(o)'
    BY <2>1, FeatureStep DEF SyncInv
  <2> QED  BY <2>1, <2>2 DEF SyncInv
<1> QED  BY <1>1, <1>2, PTL DEF Spec

(* The types of the state, the batches and the cycles always hold.         *)
THEOREM TypeCorrect == Spec => []TypeOK
<1>1. SyncInv => TypeOK
  BY DEF SyncInv, StateInv
<1> QED  BY <1>1, SyncCorrect, PTL

(* However many batches and chains of cycles overlap, whatever requests    *)
(* fail and whenever the server restarts, an observation has one feature,  *)
(* unless it was read while an earlier version of it was on its way, or    *)
(* the query for the existing observations failed: queryAndSend does not   *)
(* await the batch, and a batch finds what is new by that query.           *)
THEOREM OneFeatureCorrect == Spec => []OneFeature
<1>1. SyncInv => OneFeature
  <2> SUFFICES ASSUME SyncInv, NEW o \in Observations \ again PROVE Cardinality(Features(o)) <= 1
    BY DEF OneFeature
  <2>1. \A f, g \in Features(o) : f = g
    BY DEF SyncInv, FeatureInv, SingleInv
  <2>2. CASE Features(o) = {}
    BY <2>2, FS_EmptySet
  <2>3. CASE Features(o) # {}
    <3>1. PICK f \in Features(o) : TRUE
      BY <2>3
    <3>2. Features(o) = {f}
      BY <2>1
    <3> QED  BY <3>2, FS_Singleton
  <2> QED  BY <2>2, <2>3
<1> QED  BY <1>1, SyncCorrect, PTL
=============================================================================
