------------------------- MODULE ArcGISEdits_proofs -------------------------
(***************************************************************************)
(* What becomes of an edit: the version the layer shows never goes back,   *)
(* and no version is forgotten, for any number of observations, batches    *)
(* and chains of cycles, every page size, and any number of writes, saves  *)
(* of the configuration, failed requests and crashes.                      *)
(***************************************************************************)
EXTENDS ArcGISSync_proofs

-----------------------------------------------------------------------------
(***************************************************************************)
(* The work in hand, by what is to become of it.                           *)
(***************************************************************************)
ToSort   == UNION {ToSet(batch[b].items) : b \in DOMAIN batch}
ToAdd    == UNION {ToSet(batch[b].bins.adds) : b \in DOMAIN batch}
ToAsk    == UNION {batch[b].asked : b \in DOMAIN batch}
ToDelete == UNION {batch[b].deletions : b \in DOMAIN batch}

(* Asked for and not found, which is added by a later cycle. *)
Missing ==
    (UNION {ToSet(pending[p].adds) : p \in Processors})
       \cup (UNION {ToSet(loop[l].bins.adds) : l \in Chains})

ToUpdate ==
    (UNION {ToSet(batch[b].bins.updates) : b \in DOMAIN batch})
       \cup (UNION {ToSet(pending[p].updates) : p \in Processors})
       \cup (UNION {ToSet(loop[l].bins.updates) : l \in Chains})

Work == ToSort \cup ToAdd \cup ToAsk \cup Missing \cup ToUpdate

(* A list has a version of an observation. *)
Has(list, o, v) == \E i \in ToSet(list) : i.obs = o /\ i.ver = v

(* A version of an observation is on its way to the layer.                 *)
Carried(o, v) == \E i \in Work : i.obs = o /\ i.ver = v

(***************************************************************************)
(* Versions.                                                               *)
(***************************************************************************)
(* No version is newer than the stored one, ...                            *)
NotAhead(o) ==
    /\ 0 < doc[o].ver
    /\ \A v \in Times : Carried(o, v) => 0 < v /\ v <= doc[o].ver
    /\ \A f \in Features(o) : layer[o][f] <= doc[o].ver

(* ... one at a time is on its way, and it is not older than what is shown.*)
OneVersion(o) ==
    \A v \in Times : Carried(o, v) =>
        /\ \A w \in Times : Carried(o, w) => v = w
        /\ \A f \in Features(o) : layer[o][f] <= v

VersionInv(o) == NotAhead(o) /\ (o \notin again \cap doubtful => OneVersion(o))

(* A feature of an observation never goes back to an earlier version,      *)
(* unless the observation was read while one was on its way and not read   *)
(* cleanly since: updates are sent without waiting for earlier ones (send, *)
(* processArcObjects).                                                     *)
LayerNeverRegresses ==
    [][\A o \in Observations \ (again \cap doubtful) : \A f \in Features(o) :
           layer'[o][f] # 0 => layer[o][f] <= layer'[o][f]]_vars

(***************************************************************************)
(* An observation that was last read cleanly.                              *)
(***************************************************************************)
Names(items) == {i.obs : i \in items}

(* It is read once, it is not missing, it is asked for when it has a       *)
(* feature, it is updated in a feature it has, and nothing else is done    *)
(* with it while it is sorted or deleted.                                  *)
CleanInv(o) ==
    /\ \A b, c \in DOMAIN batch : o \in Of(batch[b].items) \cap Of(batch[c].items) => b = c
    /\ o \in Names(ToSort) => o \notin Names(ToAdd \cup ToAsk \cup ToUpdate) \cup ToDelete
    /\ o \in ToDelete => o \notin Names(ToSort \cup ToAdd \cup ToAsk \cup ToUpdate)
    /\ o \notin Names(Missing)
    /\ o \in Names(ToAsk) => Features(o) # {}
    /\ \A u \in ToUpdate : u.obs = o => u.id \in Features(o)

(* The last version is sorted by what is stored, and sent unless archived. *)
LiveInv(o) ==
    /\ \A i \in ToSort : i.obs = o /\ i.ver = doc[o].ver => i.archived = doc[o].archived
    /\ \A i \in ToAdd \cup ToAsk \cup ToUpdate : i.obs = o /\ i.ver = doc[o].ver => ~doc[o].archived

(* A new processor has read everything, and the pages a cycle reads are    *)
(* those written before it began.                                          *)
ReadInv ==
    /\ proc <= config
    /\ \A p \in Processors : time[p] <= now + 1 /\ (p > proc => time[p] = 0)
    /\ \A l \in Chains :
        /\ loop[l].next <= now + 1
        /\ loop[l].at = "page" => loop[l].page = 0 \/ loop[l].left > 0

(* A processor there is none of has read nothing, and a cycle under way    *)
(* began with the processor there is or an earlier one.                    *)
LinkInv ==
    /\ link # "made" => time[proc] = 0
    /\ \A l \in Chains : loop[l].at \in {"query", "send", "page", "end"} =>
          link # "new" /\ loop[l].proc <= proc

(***************************************************************************)
(* Nothing is forgotten.                                                   *)
(***************************************************************************)
(* Its place among the observations modified after a time.                 *)
Place(t, o) == Cardinality({x \in Observations : t <= doc[x].ver /\ doc[x].ver <= doc[o].ver})

(* A cycle has yet to read the observation. *)
Ahead(l, o) ==
    LET t    == time[loop[l].proc]
        read == loop[l].page * PageSize IN
    /\ loop[l].at = "page" /\ t <= doc[o].ver
    /\ loop[l].page = 0 \/ (read < Place(t, o) /\ Place(t, o) <= read + loop[l].left)

(* The processor has not read the last version, and no cycle that reads    *)
(* for it ends without having read it.  Where there is no processor, the   *)
(* next one made has everything to read (LinkInv).                         *)
ToRead(o) ==
    /\ time[proc] <= doc[o].ver
    /\ link = "made" =>
          \A l \in Chains :
             (loop[l].proc = proc /\ loop[l].at \in {"page", "end"} /\ doc[o].ver < loop[l].next)
                => Ahead(l, o)

(* A feature is going to show the last version, or to be deleted with it.  *)
OnItsWay(o) == Carried(o, doc[o].ver) \/ (doc[o].archived /\ o \in ToDelete)

(* The last version is shown, and nothing is on its way to change that.    *)
Settled(o) == InSync(o) /\ o \notin Names(Work) \cup ToDelete

(* There is no processor, because the server starts or the requests for    *)
(* the layer failed, and the next one made has everything to read.  It is  *)
(* made when the server starts, or when the configuration changes.         *)
Unlinked == link # "made" /\ time[proc] = 0 /\ \A p \in Processors : p > proc => time[p] = 0

(* The last version of every observation is shown, or it is one of before  *)
(* the event's date, or it is on its way to the layer, or the processor is *)
(* going to read it: in the cycles that read pages and otherwise in the    *)
(* next one; or there is no processor, and then the next one made begins   *)
(* from nothing.  Left out is an observation that was passed over, read    *)
(* while an earlier version was on its way, or had a request fail.         *)
NothingLost ==
    \A o \in Observations \ doubtful :
        \/ InSync(o) \/ OnItsWay(o)
        \/ link = "made" /\ ToRead(o)
        \/ Unlinked

Followed(o) == OnItsWay(o) \/ ToRead(o) \/ Settled(o)

EditInv(o) == CleanInv(o) /\ LiveInv(o) /\ Followed(o)

(* What is doubtful may be anywhere; versions are kept in order for all.   *)
SafeInv ==
    /\ StateInv /\ ReadInv /\ LinkInv
    /\ \A o \in Observations : VersionInv(o)
    /\ \A o \in Observations \ doubtful : EditInv(o)

-----------------------------------------------------------------------------
(***************************************************************************)
(* Lists.                                                                  *)
(***************************************************************************)
LEMMA ListSet ==
  /\ ToSet(<<>>) = {} /\ ToSet(NoBins.adds) = {} /\ ToSet(NoBins.updates) = {}
  /\ \A list : Of(list) = Names(ToSet(list))
  /\ \A S, list : list \in Seq(S) => ToSet(list) \subseteq S
<1>1. \A list : Of(list) = Names(ToSet(list))
  BY DEF Of, Names, ToSet
<1>2. \A S, list : list \in Seq(S) => ToSet(list) \subseteq S
  BY DEF ToSet
<1> QED  BY <1>1, <1>2 DEF ToSet, NoBins

LEMMA AppendSet ==
  ASSUME NEW S, NEW list \in Seq(S), NEW x \in S
  PROVE  ToSet(Append(list, x)) = ToSet(list) \cup {x}
<1> DEFINE n == Len(list)
<1>1. n \in Nat /\ DOMAIN list = 1..n /\ DOMAIN Append(list, x) = 1..(n + 1)
  OBVIOUS
<1>2. \A j \in 1..(n + 1) : Append(list, x)[j] = IF j = n + 1 THEN x ELSE list[j]
  OBVIOUS
<1> HIDE DEF n
<1>3. \A j \in 1..(n + 1) : j = n + 1 \/ j \in 1..n
  BY <1>1
<1>4. n + 1 \in 1..(n + 1) /\ \A j \in 1..n : j \in 1..(n + 1) /\ j # n + 1
  BY <1>1
<1>5. ToSet(Append(list, x)) = {Append(list, x)[j] : j \in 1..(n + 1)} /\ ToSet(list) = {list[j] : j \in 1..n}
  BY <1>1 DEF ToSet
<1> QED  BY <1>2, <1>3, <1>4, <1>5

(* What is kept of a list is all that is asked for.                        *)
LEMMA KeptSet ==
  ASSUME NEW S, NEW items \in Seq(S), NEW obs
  PROVE  ToSet(Kept(items, obs)) = {i \in ToSet(items) : i.obs \in obs}
<1>1. PICK kept :
        /\ kept = [n \in 0..Len(items) |->
                      IF n = 0 THEN <<>>
                      ELSE IF items[n].obs \in obs THEN Append(kept[n - 1], items[n])
                      ELSE kept[n - 1]]
        /\ Kept(items, obs) = kept[Len(items)]
  BY KeptFunction
<1> DEFINE upTo(n) == {i \in {items[k] : k \in 1..n} : i.obs \in obs}
           Good(n) == kept[n] \in Seq(S) /\ ToSet(kept[n]) = upTo(n)
           bad == {n \in 0..Len(items) : ~Good(n)}
<1>2. kept[0] = <<>>
  <2>1. 0 \in 0..Len(items)
    OBVIOUS
  <2> QED  BY <1>1, <2>1
<1>3. Good(0)
  BY <1>2, ListSet
<1>4. ASSUME NEW n \in 1..Len(items), Good(n - 1)
      PROVE  Good(n)
  <2>1. n \in 0..Len(items) /\ n # 0 /\ items[n] \in S
    OBVIOUS
  <2>2. kept[n] = IF items[n].obs \in obs THEN Append(kept[n - 1], items[n]) ELSE kept[n - 1]
    BY <1>1, <2>1
  <2>3. 1..n = (1..(n - 1)) \cup {n}
    OBVIOUS
  <2>4. upTo(n) = IF items[n].obs \in obs THEN upTo(n - 1) \cup {items[n]} ELSE upTo(n - 1)
    BY <2>3
  <2>5. kept[n - 1] \in Seq(S) /\ ToSet(kept[n - 1]) = upTo(n - 1)
    BY <1>4
  <2> DEFINE before == upTo(n - 1)
             list == kept[n - 1]
             item == items[n]
  <2> HIDE DEF upTo
  <2>6. ToSet(Append(list, item)) = ToSet(list) \cup {item} /\ Append(list, item) \in Seq(S)
    <3>1. list \in Seq(S) /\ item \in S
      BY <2>1, <2>5
    <3> HIDE DEF list, item
    <3> QED  BY <3>1, AppendSet
  <2> QED  BY <2>2, <2>4, <2>5, <2>6
<1>5. bad = {}
  <2> HIDE DEF Good
  <2> SUFFICES ASSUME bad # {} PROVE FALSE
    OBVIOUS
  <2>1. PICK m \in bad : \A n \in bad : m <= n
    <3>1. bad \in SUBSET Nat
      OBVIOUS
    <3> HIDE DEF bad
    <3> QED  BY <3>1, LeastNatural
  <2>2. m \in 0..Len(items) /\ ~Good(m) /\ m # 0
    BY <1>3, <2>1
  <2>3. m \in 1..Len(items) /\ m - 1 \in 0..Len(items) /\ ~(m <= m - 1)
    BY <2>2
  <2>4. Good(m - 1)
    BY <2>1, <2>3
  <2> QED  BY <1>4, <2>2, <2>3, <2>4
<1>6. Good(Len(items)) /\ {items[k] : k \in 1..Len(items)} = ToSet(items)
  <2>1. Len(items) \in 0..Len(items) /\ DOMAIN items = 1..Len(items)
    OBVIOUS
  <2>2. Good(Len(items))
    <3> HIDE DEF Good
    <3> QED  BY <1>5, <2>1
  <2>3. {items[k] : k \in 1..Len(items)} = ToSet(items)
    BY <2>1 DEF ToSet
  <2> QED  BY <2>2, <2>3
<1> QED  BY <1>1, <1>6

(* The versions that an answered request leaves.                           *)
LEMMA AddedVersions ==
  ASSUME layer \in [Observations -> Seq(Times)], NEW adds \in Seq(Item), NEW o \in Observations
  PROVE  /\ DOMAIN layer[o] \subseteq DOMAIN Added(adds)[o]
         /\ \A f \in Shown(Added(adds)[o]) :
               (f \in Features(o) /\ Added(adds)[o][f] = layer[o][f]) \/ Has(adds, o, Added(adds)[o][f])
         /\ \A f \in Features(o) : f \in Shown(Added(adds)[o])
         /\ \A v : Has(adds, o, v) => \E f \in DOMAIN Added(adds)[o] : Added(adds)[o][f] = v
<1> DEFINE own  == Kept(adds, {o})
           tail == [i \in DOMAIN own |-> own[i].ver]
           old  == layer[o]
           new  == Added(adds)[o]
<1>1. own \in Seq(Item) /\ ToSet(own) = {i \in ToSet(adds) : i.obs \in {o}}
  BY KeptOnce, KeptSet
<1>2. new = old \o tail
  BY DEF Added
<1> HIDE DEF own, new
<1>3. Len(own) \in Nat /\ DOMAIN own = 1..Len(own) /\ \A i \in 1..Len(own) : own[i] \in ToSet(own)
  BY <1>1 DEF ToSet
<1>4. \A i \in 1..Len(own) : Has(adds, o, own[i].ver)
  BY <1>1, <1>3 DEF Has
<1>5. old \in Seq(Times) /\ Len(old) \in Nat /\ DOMAIN old = 1..Len(old)
  <2>1. old \in Seq(Times)
    OBVIOUS
  <2> HIDE DEF old
  <2> QED  BY <2>1
<1>6. tail \in Seq(Times) /\ Len(tail) = Len(own)
  <2>1. \A i \in 1..Len(own) : own[i] \in Item
    BY <1>1, <1>3
  <2>2. \A i \in 1..Len(own) : own[i].ver \in Times
    BY <2>1 DEF Item
  <2>3. tail \in [1..Len(own) -> Times]
    BY <1>3, <2>2
  <2> HIDE DEF tail
  <2> QED  BY <1>3, <2>3
<1>7. \A i \in 1..Len(own) : tail[i] = own[i].ver
  BY <1>3
<1> HIDE DEF tail
<1>8. /\ new \in Seq(Times) /\ Len(new) = Len(old) + Len(own)
      /\ \A i \in 1..(Len(old) + Len(own)) : new[i] = IF i <= Len(old) THEN old[i] ELSE tail[i - Len(old)]
  <2> HIDE DEF old
  <2>1. /\ old \o tail \in Seq(Times) /\ Len(old \o tail) = Len(old) + Len(tail)
        /\ \A i \in 1..(Len(old) + Len(tail)) :
              (old \o tail)[i] = IF i <= Len(old) THEN old[i] ELSE tail[i - Len(old)]
    BY <1>5, <1>6, ConcatProperties
  <2> QED  BY <1>2, <1>6, <2>1
<1>9. DOMAIN new = 1..(Len(old) + Len(own))
  <2> HIDE DEF old
  <2> QED  BY <1>3, <1>5, <1>8
<1>10. \A i \in DOMAIN old : i \in DOMAIN new /\ new[i] = old[i]
  <2> HIDE DEF old
  <2> QED  BY <1>3, <1>5, <1>8, <1>9
<1>11. \A i \in DOMAIN new : i \in DOMAIN old \/ \E j \in 1..Len(own) : new[i] = own[j].ver
  <2> TAKE i \in DOMAIN new
  <2>1. CASE i <= Len(old)
    <3> HIDE DEF old
    <3> QED  BY <1>3, <1>5, <1>9, <2>1
  <2>2. CASE ~(i <= Len(old))
    <3> HIDE DEF old
    <3>1. i - Len(old) \in 1..Len(own) /\ new[i] = tail[i - Len(old)]
      BY <1>3, <1>5, <1>8, <1>9, <2>2
    <3> QED  BY <1>7, <3>1
  <2> QED  BY <2>1, <2>2
<1>12. \A j \in 1..Len(own) : j + Len(old) \in DOMAIN new /\ new[j + Len(old)] = own[j].ver
  <2> TAKE j \in 1..Len(own)
  <2> HIDE DEF old
  <2>1. j + Len(old) \in 1..(Len(old) + Len(own)) /\ ~(j + Len(old) <= Len(old)) /\ (j + Len(old)) - Len(old) = j
    BY <1>3, <1>5
  <2> QED  BY <1>7, <1>8, <1>9, <2>1
<1>13. ASSUME NEW v, Has(adds, o, v) PROVE \E f \in DOMAIN new : new[f] = v
  <2>1. PICK i \in ToSet(own) : i.ver = v
    BY <1>1, <1>13 DEF Has
  <2>2. PICK j \in 1..Len(own) : own[j] = i
    BY <1>3, <2>1 DEF ToSet
  <2> QED  BY <1>12, <2>1, <2>2
<1>14. ASSUME NEW f \in Shown(new)
       PROVE  (f \in Features(o) /\ new[f] = layer[o][f]) \/ Has(adds, o, new[f])
  BY <1>4, <1>10, <1>11, <1>14 DEF Shown, Features
<1>15. \A f \in Features(o) : f \in Shown(new)
  BY <1>10 DEF Shown, Features
<1> QED  BY <1>10, <1>13, <1>14, <1>15 DEF new

LEMMA UpdatedVersions ==
  ASSUME layer \in [Observations -> Seq(Times)], NEW updates \in Seq(Change), NEW o \in Observations
  PROVE  /\ DOMAIN layer[o] = DOMAIN Updated(updates)[o]
         /\ \A f \in Shown(Updated(updates)[o]) :
               /\ f \in Features(o)
               /\ Updated(updates)[o][f] = layer[o][f] \/ Has(updates, o, Updated(updates)[o][f])
         /\ \A f \in Features(o) :
               Updated(updates)[o][f] = layer[o][f] \/ Has(updates, o, Updated(updates)[o][f])
         /\ \A u \in ToSet(updates) : u.obs = o /\ u.id \in Features(o) =>
               Has(updates, o, Updated(updates)[o][u.id])
<1> DEFINE own(f) == {u \in DOMAIN updates : updates[u].obs = o /\ updates[u].id = f}
           new == Updated(updates)[o]
<1>1. /\ DOMAIN new = DOMAIN layer[o]
      /\ \A f \in DOMAIN layer[o] :
            new[f] = IF layer[o][f] = 0 \/ own(f) = {} THEN layer[o][f] ELSE updates[Max(own(f))].ver
  BY DEF Updated
<1>2. ASSUME NEW f, own(f) # {} PROVE Has(updates, o, updates[Max(own(f))].ver)
  <2>1. own(f) \in SUBSET (0..Len(updates)) /\ Len(updates) \in Nat
    OBVIOUS
  <2>2. Max(own(f)) \in own(f)
    <3> HIDE DEF own
    <3> QED  BY <1>2, <2>1, GreatestNatural
  <2>3. updates[Max(own(f))] \in ToSet(updates) /\ updates[Max(own(f))].obs = o
    BY <2>2 DEF ToSet
  <2> HIDE DEF own
  <2> QED  BY <2>3 DEF Has
<1>3. ASSUME NEW u \in ToSet(updates), u.obs = o PROVE own(u.id) # {}
  <2>1. PICK k \in DOMAIN updates : u = updates[k]
    BY DEF ToSet
  <2> QED  BY <1>3, <2>1
<1> HIDE DEF own, new
<1>4. \A f \in Shown(new) : f \in Features(o)
  BY <1>1 DEF Shown, Features
<1>5. \A f \in Features(o) : new[f] = layer[o][f] \/ Has(updates, o, new[f])
  BY <1>1, <1>2 DEF Features
<1>6. \A u \in ToSet(updates) : u.obs = o /\ u.id \in Features(o) => Has(updates, o, new[u.id])
  BY <1>1, <1>2, <1>3 DEF Features
<1> QED  BY <1>1, <1>4, <1>5, <1>6 DEF new

LEMMA DeletedVersions ==
  ASSUME layer \in [Observations -> Seq(Times)], NEW d \in Observations, NEW o \in Observations
  PROVE  /\ DOMAIN layer[o] = DOMAIN Deleted(d)[o]
         /\ o # d => Deleted(d)[o] = layer[o]
         /\ Shown(Deleted(d)[d]) = {}
<1>1. Deleted(d) = [layer EXCEPT ![d] = [i \in DOMAIN layer[d] |-> 0]]
  BY DEF Deleted
<1> QED  BY <1>1 DEF Shown

-----------------------------------------------------------------------------
(***************************************************************************)
(* What each step does with the work in hand.                              *)
(***************************************************************************)
LEMMA WorkType ==
  ASSUME StateInv
  PROVE  /\ ToSort \cup ToAdd \cup ToAsk \cup Missing \subseteq Item /\ ToUpdate \subseteq Change
         /\ ToDelete \subseteq Observations
         /\ \A i \in Work : i.obs \in Observations /\ i.ver \in Times
<1>1. /\ \A p \in Processors : pending[p].adds \in Seq(Item) /\ pending[p].updates \in Seq(Change)
      /\ \A l \in Chains : loop[l].bins.adds \in Seq(Item) /\ loop[l].bins.updates \in Seq(Change)
  <2>1. /\ \A p \in Processors : pending[p] \in Bins
        /\ \A l \in Chains : loop[l].bins \in Bins
    BY DEF StateInv, TypeOK, Cycle
  <2> QED  BY <2>1 DEF Bins
<1>2. /\ \A p \in Processors : ToSet(pending[p].adds) \subseteq Item /\ ToSet(pending[p].updates) \subseteq Change
      /\ \A l \in Chains : ToSet(loop[l].bins.adds) \subseteq Item /\ ToSet(loop[l].bins.updates) \subseteq Change
  BY <1>1, ListSet
<1>3. \A b \in DOMAIN batch :
        /\ ToSet(batch[b].items) \subseteq Item /\ ToSet(batch[b].bins.adds) \subseteq Item
        /\ ToSet(batch[b].bins.updates) \subseteq Change /\ batch[b].asked \subseteq Item
        /\ batch[b].deletions \subseteq Observations
  BY BatchType, ListSet
<1>4. ToSort \subseteq Item /\ ToAdd \subseteq Item /\ ToAsk \subseteq Item /\ ToDelete \subseteq Observations
  BY <1>3 DEF ToSort, ToAdd, ToAsk, ToDelete
<1>5. Missing \subseteq Item /\ ToUpdate \subseteq Change
  BY <1>2, <1>3 DEF Missing, ToUpdate
<1>6. /\ \A i \in Item : i.obs \in Observations /\ i.ver \in Times
      /\ \A u \in Change : u.obs \in Observations /\ u.ver \in Times
  BY DEF Item, Change
<1> QED  BY <1>4, <1>5, <1>6 DEF Work

(* The work in hand is what is in flight. *)
LEMMA WorkInFlight == Names(Work) \cup ToDelete \subseteq InFlight
<1>1. \A b \in DOMAIN batch :
        Of(batch[b].items) \cup InBins(batch[b].bins) \cup batch[b].deletions
           \cup {i.obs : i \in batch[b].asked} \subseteq InFlight
  BY DEF InFlight
<1>2. \A p \in Processors : InBins(pending[p]) \subseteq InFlight
  BY DEF InFlight
<1>3. \A l \in Chains : InBins(loop[l].bins) \subseteq InFlight
  BY DEF InFlight
<1>4. \A bins : InBins(bins) = Names(ToSet(bins.adds)) \cup Names(ToSet(bins.updates))
  BY ListSet DEF InBins
<1>5. \A b \in DOMAIN batch :
        /\ Names(ToSet(batch[b].items)) \subseteq InFlight /\ Names(ToSet(batch[b].bins.adds)) \subseteq InFlight
        /\ Names(ToSet(batch[b].bins.updates)) \subseteq InFlight
        /\ batch[b].deletions \subseteq InFlight /\ Names(batch[b].asked) \subseteq InFlight
  BY <1>1, <1>4, ListSet DEF Names
<1>6. /\ Names(ToSort) \subseteq InFlight /\ Names(ToAdd) \subseteq InFlight
      /\ Names(ToAsk) \subseteq InFlight /\ ToDelete \subseteq InFlight
  BY <1>5 DEF ToSort, ToAdd, ToAsk, ToDelete, Names
<1>7. Names(Missing) \subseteq InFlight
  BY <1>2, <1>3, <1>4 DEF Missing, Names
<1>8. Names(ToUpdate) \subseteq InFlight
  BY <1>2, <1>3, <1>4, <1>5 DEF ToUpdate, Names
<1> QED  BY <1>6, <1>7, <1>8 DEF Work, Names

Still == UNCHANGED <<ToSort, ToAdd, ToAsk, ToDelete, Missing, ToUpdate>>

LEMMA SameWork ==
  ASSUME UNCHANGED <<batch, pending>>, \A l \in Chains : loop'[l].bins = loop[l].bins
  PROVE  Still
<1>1. UNCHANGED <<ToSort, ToAdd, ToAsk, ToDelete>>
  BY DEF ToSort, ToAdd, ToAsk, ToDelete
<1>2. UNCHANGED <<Missing, ToUpdate>>
  BY DEF Missing, ToUpdate
<1> QED  BY <1>1, <1>2 DEF Still

LEMMA ConfigFlow ==
  ASSUME StateInv, NEW changed \in BOOLEAN, putConfig(changed)
  PROVE  Still /\ \A l \in Chains : loop'[l] = loop[l] \/ loop'[l].at \in {"none", "config"}
<1> DEFINE stopped == IF loop[timer].at = "armed"
                      THEN [loop EXCEPT ![timer] = NoCycle("none")] ELSE loop
           off == {l \in Chains : stopped[l].at = "none"}
           next == CHOOSE l \in off : TRUE
<1>1. /\ off # {} /\ loop' = [stopped EXCEPT ![next] = NoCycle("config")]
      /\ UNCHANGED <<pending, batch>>
  BY DEF putConfig
<1>2. loop \in [Chains -> Cycle] /\ \A l \in Chains : loop[l].at # "send" => loop[l].bins = NoBins
  BY DEF StateInv, TypeOK, PhaseInv
<1>3. /\ stopped \in [Chains -> Cycle]
      /\ \A l \in Chains : stopped[l].bins = loop[l].bins /\ (stopped[l] = loop[l] \/ stopped[l].at = "none")
      /\ \A l \in Chains : stopped[l].at # "send" => stopped[l].bins = NoBins
  BY <1>2, Values
<1>4. next \in off
  BY <1>1
<1> HIDE DEF stopped, next
<1>5. \A l \in Chains : loop'[l].bins = loop[l].bins
  BY <1>1, <1>2, <1>3, <1>4, Values
<1>6. \A l \in Chains : loop'[l] = loop[l] \/ loop'[l].at \in {"none", "config"}
  BY <1>1, <1>3, Values
<1> QED  BY <1>1, <1>5, <1>6, SameWork

LEMMA UpdateConfigFlow ==
  ASSUME StateInv, NEW l \in Chains, NEW cycle, Starts(l, cycle)
  PROVE  Still
<1>1. /\ Goes(l, cycle) /\ loop[l].bins = NoBins /\ cycle.bins = NoBins
      /\ loop \in [Chains -> Cycle] /\ UNCHANGED <<pending, batch>>
  BY DEF Starts, NoCycle, StateInv, TypeOK, PhaseInv
<1>2. \A k \in Chains : loop'[k].bins = loop[k].bins
  BY <1>1 DEF Goes
<1> QED  BY <1>1, <1>2, SameWork

LEMMA EndCycleFlow ==
  ASSUME StateInv, NEW l \in Chains, EndCycle(l)
  PROVE  Still
<1>1. /\ Goes(l, NoCycle("armed")) /\ loop[l].bins = NoBins
      /\ loop \in [Chains -> Cycle] /\ UNCHANGED <<pending, batch>>
  BY DEF EndCycle, Armed, NothingNew, StateInv, TypeOK, PhaseInv
<1>2. \A k \in Chains : loop'[k].bins = loop[k].bins
  BY <1>1 DEF Goes, NoCycle
<1> QED  BY <1>1, <1>2, SameWork

LEMMA CrashFlow ==
  ASSUME Crash
  PROVE  ToSort' = {} /\ ToAdd' = {} /\ ToAsk' = {} /\ ToDelete' = {} /\ Missing' = {} /\ ToUpdate' = {}
<1>1. /\ batch' = <<>> /\ \A p \in Processors : pending'[p] = NoBins
      /\ \A l \in Chains : loop'[l].bins = NoBins
  BY DEF Crash, NoCycle
<1>2. ToSort' = {} /\ ToAdd' = {} /\ ToAsk' = {} /\ ToDelete' = {}
  BY <1>1 DEF ToSort, ToAdd, ToAsk, ToDelete
<1>3. Missing' = {}
  <2>1. /\ \A p \in Processors : ToSet(pending'[p].adds) = {}
        /\ \A l \in Chains : ToSet(loop'[l].bins.adds) = {}
    BY <1>1, ListSet
  <2> QED  BY <2>1 DEF Missing
<1>4. ToUpdate' = {}
  <2>1. /\ \A p \in Processors : ToSet(pending'[p].updates) = {}
        /\ \A l \in Chains : ToSet(loop'[l].bins.updates) = {}
        /\ DOMAIN batch' = {}
    BY <1>1, ListSet
  <2> QED  BY <2>1 DEF ToUpdate
<1> QED  BY <1>2, <1>3, <1>4

(* A cycle that goes on changes what it has to send. *)
LEMMA GoesFlow ==
  ASSUME loop \in [Chains -> Cycle], NEW l \in Chains, NEW cycle, Goes(l, cycle), UNCHANGED <<batch, pending>>
  PROVE  /\ UNCHANGED <<ToSort, ToAdd, ToAsk, ToDelete>>
         /\ ToSet(loop[l].bins.adds) \subseteq Missing /\ ToSet(loop[l].bins.updates) \subseteq ToUpdate
         /\ Missing' \subseteq Missing \cup ToSet(cycle.bins.adds)
         /\ ToUpdate' \subseteq ToUpdate \cup ToSet(cycle.bins.updates)
         /\ ToUpdate \subseteq ToUpdate' \cup ToSet(loop[l].bins.updates)
         /\ ToSet(cycle.bins.updates) \subseteq ToUpdate'
<1>1. UNCHANGED <<ToSort, ToAdd, ToAsk, ToDelete>>
  BY DEF ToSort, ToAdd, ToAsk, ToDelete
<1>2. \A k \in Chains : loop'[k] = IF k = l THEN cycle ELSE loop[k]
  BY DEF Goes
<1>3. Missing' \subseteq Missing \cup ToSet(cycle.bins.adds) /\ ToSet(loop[l].bins.adds) \subseteq Missing
  <2>1. \A k \in Chains : ToSet(loop[k].bins.adds) \subseteq Missing
    BY DEF Missing
  <2>2. \A p \in Processors : ToSet(pending[p].adds) \subseteq Missing
    BY DEF Missing
  <2>3. \A k \in Chains : ToSet(loop'[k].bins.adds) \subseteq Missing \cup ToSet(cycle.bins.adds)
    BY <1>2, <2>1
  <2>4. \A p \in Processors : ToSet(pending'[p].adds) \subseteq Missing
    BY <2>2
  <2>5. Missing' \subseteq Missing \cup ToSet(cycle.bins.adds)
    <3> SUFFICES ASSUME NEW i \in Missing' PROVE i \in Missing \cup ToSet(cycle.bins.adds)
      OBVIOUS
    <3>1. \/ \E p \in Processors : i \in ToSet(pending'[p].adds)
          \/ \E k \in Chains : i \in ToSet(loop'[k].bins.adds)
      BY DEF Missing
    <3> QED  BY <2>3, <2>4, <3>1
  <2> QED  BY <2>1, <2>5
<1> DEFINE held == (UNION {ToSet(batch[b].bins.updates) : b \in DOMAIN batch})
                     \cup (UNION {ToSet(pending[p].updates) : p \in Processors})
           sent == (UNION {ToSet(loop[k].bins.updates) : k \in Chains})
<1>4. ToUpdate = held \cup sent /\ ToUpdate' = held \cup sent'
  BY DEF ToUpdate
<1>5. /\ sent' \subseteq sent \cup ToSet(cycle.bins.updates) /\ sent \subseteq sent' \cup ToSet(loop[l].bins.updates)
      /\ ToSet(loop[l].bins.updates) \subseteq sent /\ ToSet(cycle.bins.updates) \subseteq sent'
  <2>1. \A k \in Chains : ToSet(loop[k].bins.updates) \subseteq sent
    OBVIOUS
  <2>2. \A k \in Chains : ToSet(loop'[k].bins.updates) \subseteq sent'
    OBVIOUS
  <2>3. \A k \in Chains : ToSet(loop'[k].bins.updates) \subseteq sent \cup ToSet(cycle.bins.updates)
    BY <1>2, <2>1
  <2>4. \A k \in Chains : ToSet(loop[k].bins.updates) \subseteq sent' \cup ToSet(loop[l].bins.updates)
    BY <1>2, <2>2
  <2> QED  BY <1>2, <2>1, <2>2, <2>3, <2>4
<1> HIDE DEF held, sent
<1> QED  BY <1>1, <1>3, <1>4, <1>5

LEMMA PendingFlow ==
  ASSUME StateInv, NEW l \in Chains, processPendingUpdates(l)
  PROVE  /\ UNCHANGED <<ToSort, ToAdd, ToAsk, ToDelete, ToUpdate>> /\ Missing' \subseteq Missing
         /\ \/ Goes(l, FirstPage)
            \/ \E cycle : Goes(l, cycle) /\ cycle.at = "send"
<1> DEFINE p == loop[l].proc
<1>1. PICK old \in SUBSET Observations :
        LET bins == [pending[p] EXCEPT !.adds = Kept(@, Observations \ old)] IN
        Goes(l, IF bins = NoBins THEN FirstPage
                ELSE [loop[l] EXCEPT !.at = "send", !.bins = bins])
  BY DEF processPendingUpdates
<1> DEFINE bins == [pending[p] EXCEPT !.adds = Kept(@, Observations \ old)]
           cycle == IF bins = NoBins THEN FirstPage
                    ELSE [loop[l] EXCEPT !.at = "send", !.bins = bins]
<1>2. /\ pending' = [pending EXCEPT ![p] = NoBins] /\ loop[l].bins = NoBins /\ UNCHANGED batch
      /\ loop[l] \in Cycle /\ loop \in [Chains -> Cycle] /\ pending \in [Processors -> Bins]
  BY DEF processPendingUpdates, StateInv, TypeOK, PhaseInv
<1>3. p \in Processors /\ pending[p] \in Bins
  BY <1>2 DEF Cycle
<1>4. bins.updates = pending[p].updates /\ bins.adds = Kept(pending[p].adds, Observations \ old)
  BY <1>3 DEF Bins
<1>5. ToSet(bins.adds) \subseteq ToSet(pending[p].adds)
  <2>1. pending[p].adds \in Seq(Item)
    BY <1>3 DEF Bins
  <2> QED  BY <1>4, <2>1, KeptSet
<1>6. cycle.bins = bins /\ (cycle = FirstPage \/ cycle.at = "send")
  <2>1. CASE bins = NoBins
    BY <2>1, FirstPageType
  <2>2. CASE bins # NoBins
    <3> HIDE DEF bins
    <3> QED  BY <1>2, <2>2 DEF Cycle
  <2> QED  BY <2>1, <2>2
<1>7. Goes(l, cycle)
  BY <1>1
<1> HIDE DEF cycle, bins, p
<1>8. \A k \in Chains : loop'[k] = IF k = l THEN cycle ELSE loop[k]
  BY <1>2, <1>7 DEF Goes
<1>9. \A q \in Processors : pending'[q] = IF q = p THEN NoBins ELSE pending[q]
  BY <1>2
<1>10. UNCHANGED <<ToSort, ToAdd, ToAsk, ToDelete>>
  BY <1>2 DEF ToSort, ToAdd, ToAsk, ToDelete
<1>11. ToSet(NoBins.adds) = {} /\ ToSet(NoBins.updates) = {}
  BY ListSet
<1>12. Missing' \subseteq Missing
  <2>1. /\ \A q \in Processors : ToSet(pending[q].adds) \subseteq Missing
        /\ \A k \in Chains : ToSet(loop[k].bins.adds) \subseteq Missing
    BY DEF Missing
  <2>2. /\ \A q \in Processors : ToSet(pending'[q].adds) \subseteq Missing
        /\ \A k \in Chains : ToSet(loop'[k].bins.adds) \subseteq Missing
    BY <1>3, <1>5, <1>6, <1>8, <1>9, <1>11, <2>1
  <2> QED  BY <2>2 DEF Missing
<1>13. ToUpdate' = ToUpdate
  <2> DEFINE held == (UNION {ToSet(batch[b].bins.updates) : b \in DOMAIN batch})
             kept == UNION {ToSet(pending[q].updates) : q \in Processors}
             sent == UNION {ToSet(loop[k].bins.updates) : k \in Chains}
  <2>1. ToUpdate = held \cup kept \cup sent /\ ToUpdate' = held' \cup kept' \cup sent' /\ held' = held
    BY <1>2 DEF ToUpdate
  <2>2. kept = kept' \cup ToSet(pending[p].updates)
    <3>1. \A q \in Processors : ToSet(pending'[q].updates) \subseteq ToSet(pending[q].updates)
      BY <1>9, <1>11
    <3>2. \A q \in Processors \ {p} : ToSet(pending'[q].updates) = ToSet(pending[q].updates)
      BY <1>9
    <3> QED  BY <1>3, <3>1, <3>2
  <2>3. sent' = sent \cup ToSet(pending[p].updates)
    <3>1. \A k \in Chains : ToSet(loop'[k].bins.updates) =
                IF k = l THEN ToSet(pending[p].updates) ELSE ToSet(loop[k].bins.updates)
      BY <1>4, <1>6, <1>8
    <3>2. ToSet(loop[l].bins.updates) = {}
      BY <1>2, <1>11
    <3> QED  BY <3>1, <3>2
  <2> HIDE DEF held, kept, sent
  <2> QED  BY <2>1, <2>2, <2>3
<1> QED  BY <1>6, <1>7, <1>10, <1>12, <1>13

LEMMA SendPendingFlow ==
  ASSUME StateInv, NEW l \in Chains, NEW kind \in Kinds, SendPending(l, kind)
  PROVE  /\ UNCHANGED <<ToSort, ToAdd, ToAsk, ToDelete>> /\ Missing' \subseteq Missing
         /\ ToSet(loop[l].bins.adds) \subseteq Missing /\ ToSet(loop[l].bins.updates) \subseteq ToUpdate
         /\ ToUpdate' \subseteq ToUpdate /\ (kind = "adds" => ToUpdate' = ToUpdate)
         /\ ToUpdate \subseteq ToUpdate' \cup ToSet(loop[l].bins.updates)
         /\ \/ Goes(l, FirstPage)
            \/ \E cycle : Goes(l, cycle) /\ cycle.at = "send"
<1> DEFINE rest == [loop[l].bins EXCEPT ![kind] = <<>>]
           cycle == IF rest = NoBins THEN FirstPage ELSE [loop[l] EXCEPT !.bins = rest]
<1>1. /\ loop[l].at = "send" /\ Goes(l, cycle) /\ UNCHANGED <<pending, batch>>
      /\ loop \in [Chains -> Cycle] /\ loop[l] \in Cycle
  BY DEF SendPending, StateInv, TypeOK
<1>2. /\ rest.adds \in {<<>>, loop[l].bins.adds} /\ rest.updates \in {<<>>, loop[l].bins.updates}
      /\ kind = "adds" => rest.updates = loop[l].bins.updates
  <2>1. loop[l].bins \in Bins
    BY <1>1 DEF Cycle
  <2> QED  BY <2>1 DEF Bins, Kinds
<1>3. ToSet(rest.adds) \subseteq ToSet(loop[l].bins.adds) /\ ToSet(rest.updates) \subseteq ToSet(loop[l].bins.updates)
  BY <1>2, ListSet
<1> HIDE DEF rest
<1>4. cycle.bins = rest /\ (cycle = FirstPage \/ cycle.at = "send")
  BY <1>1, FirstPageType DEF Cycle
<1> HIDE DEF cycle
<1>5. /\ UNCHANGED <<ToSort, ToAdd, ToAsk, ToDelete>>
      /\ ToSet(loop[l].bins.adds) \subseteq Missing /\ ToSet(loop[l].bins.updates) \subseteq ToUpdate
      /\ Missing' \subseteq Missing \cup ToSet(cycle.bins.adds)
      /\ ToUpdate' \subseteq ToUpdate \cup ToSet(cycle.bins.updates)
      /\ ToUpdate \subseteq ToUpdate' \cup ToSet(loop[l].bins.updates)
      /\ ToSet(cycle.bins.updates) \subseteq ToUpdate'
  BY <1>1, GoesFlow
<1>6. kind = "adds" => ToUpdate' = ToUpdate
  BY <1>2, <1>3, <1>4, <1>5
<1> QED  BY <1>1, <1>3, <1>4, <1>5, <1>6

(* A batch that goes on: the others are there before and after it.         *)
LEMMA RestKeeps ==
  ASSUME batch \in Seq(Batch), NEW b \in DOMAIN batch, NEW new \in Batch, Rest(b, new)
  PROVE  /\ \A c \in DOMAIN batch' : batch'[c] = new \/ \E d \in DOMAIN batch \ {b} : batch'[c] = batch[d]
         /\ \A d \in DOMAIN batch \ {b} : \E c \in DOMAIN batch' : batch'[c] = batch[d]
         /\ \/ \E c \in DOMAIN batch' : batch'[c] = new
            \/ new.bins = NoBins /\ new.asked = {} /\ new.deletions = {}
<1>1. \A c \in DOMAIN batch' : batch'[c] = new \/ \E d \in DOMAIN batch \ {b} : batch'[c] = batch[d]
  <2>1. PICK was \in [DOMAIN batch' -> DOMAIN batch] :
          \A c \in DOMAIN batch' : batch'[c] = IF was[c] = b THEN new ELSE batch[was[c]]
    BY RestMoves
  <2> QED  BY <2>1
<1>2. CASE batch' = [batch EXCEPT ![b] = new]
  <2>1. DOMAIN batch' = DOMAIN batch /\ batch'[b] = new /\ \A d \in DOMAIN batch \ {b} : batch'[d] = batch[d]
    BY <1>2
  <2> QED  BY <1>1, <2>1
<1>3. CASE batch' = RemoveAt(batch, b) /\ new.bins = NoBins /\ new.asked = {} /\ new.deletions = {}
  <2> DEFINE front == SubSeq(batch, 1, b - 1)
             back  == SubSeq(batch, b + 1, Len(batch))
  <2>1. b \in 1..Len(batch) /\ Len(batch) \in Nat /\ DOMAIN batch = 1..Len(batch) /\ batch' = front \o back
    BY <1>3 DEF RemoveAt
  <2>2. /\ front \in Seq(Batch) /\ Len(front) = b - 1
        /\ \A c \in 1..(b - 1) : front[c] = batch[c]
    BY <2>1
  <2>3. /\ back \in Seq(Batch) /\ Len(back) = Len(batch) - b
        /\ \A c \in 1..(Len(batch) - b) : back[c] = batch[b + c]
    BY <2>1
  <2> HIDE DEF front, back
  <2>4. /\ front \o back \in Seq(Batch) /\ Len(front \o back) = Len(front) + Len(back)
        /\ \A i \in 1..(Len(front) + Len(back)) :
              (front \o back)[i] = IF i <= Len(front) THEN front[i] ELSE back[i - Len(front)]
    BY <2>2, <2>3, ConcatProperties
  <2> DEFINE n == Len(batch)
  <2>0. n \in Nat /\ b \in 1..n /\ Len(front) = b - 1 /\ Len(back) = n - b
    BY <2>1, <2>2, <2>3
  <2>5. DOMAIN batch' = 1..(n - 1)
    <3> HIDE DEF n
    <3>1. Len(front) + Len(back) = n - 1 /\ n - 1 \in Nat
      BY <2>0
    <3>2. DOMAIN (front \o back) = 1..(n - 1)
      BY <2>4, <3>1
    <3> QED  BY <2>1, <3>2
  <2>6. ASSUME NEW d \in DOMAIN batch \ {b} PROVE \E c \in DOMAIN batch' : batch'[c] = batch[d]
    <3>1. CASE d < b
      <4>1. d \in 1..(b - 1) /\ d \in 1..(Len(front) + Len(back)) /\ d <= Len(front) /\ d \in 1..(n - 1)
        <5>1. d \in 1..n
          BY <2>1
        <5> HIDE DEF n
        <5> QED  BY <2>0, <3>1, <5>1
      <4> QED  BY <2>1, <2>2, <2>4, <2>5, <4>1
    <3>2. CASE b < d
      <4>1. /\ d - 1 \in 1..(Len(front) + Len(back)) /\ ~(d - 1 <= Len(front)) /\ d - 1 \in 1..(n - 1)
            /\ (d - 1) - Len(front) = d - b /\ d - b \in 1..(n - b) /\ b + (d - b) = d
        <5>1. d \in 1..n
          BY <2>1
        <5> HIDE DEF n
        <5> QED  BY <2>0, <3>2, <5>1
      <4>2. batch'[d - 1] = back[d - b]
        BY <2>1, <2>4, <4>1
      <4> QED  BY <2>3, <2>5, <4>1, <4>2
    <3> QED  BY <2>1, <3>1, <3>2
  <2> QED  BY <1>1, <1>3, <2>6
<1> QED  BY <1>2, <1>3 DEF Rest

LEMMA RestFlow ==
  ASSUME StateInv, NEW b \in DOMAIN batch, NEW new, RestOf(new), new.at = "send", Rest(b, new)
  PROVE  /\ ToSort' \subseteq ToSort /\ ToSort \subseteq ToSort' \cup ToSet(batch[b].items)
         /\ \A i \in ToSort' : \E d \in DOMAIN batch \ {b} : i \in ToSet(batch[d].items)
         /\ ToAdd' \subseteq ToAdd \cup ToSet(new.bins.adds)
         /\ ToAdd \subseteq ToAdd' \cup ToSet(batch[b].bins.adds) /\ ToSet(new.bins.adds) \subseteq ToAdd'
         /\ ToAsk' \subseteq ToAsk \cup new.asked
         /\ ToAsk \subseteq ToAsk' \cup batch[b].asked /\ new.asked \subseteq ToAsk'
         /\ ToDelete' \subseteq ToDelete \cup new.deletions
         /\ ToDelete \subseteq ToDelete' \cup batch[b].deletions /\ new.deletions \subseteq ToDelete'
         /\ UNCHANGED <<pending, loop>> =>
               /\ Missing' = Missing
               /\ ToUpdate' \subseteq ToUpdate \cup ToSet(new.bins.updates)
               /\ ToUpdate \subseteq ToUpdate' \cup ToSet(batch[b].bins.updates)
               /\ ToSet(new.bins.updates) \subseteq ToUpdate'
<1>1. batch \in Seq(Batch) /\ new \in Batch /\ new.items = <<>>
  BY DEF StateInv, TypeOK, RestOf
<1>2. \A c \in DOMAIN batch' : batch'[c] = new \/ \E d \in DOMAIN batch \ {b} : batch'[c] = batch[d]
  BY <1>1, RestKeeps
<1>3. \A d \in DOMAIN batch \ {b} : \E c \in DOMAIN batch' : batch'[c] = batch[d]
  BY <1>1, RestKeeps
<1>4. \/ \E c \in DOMAIN batch' : batch'[c] = new
      \/ new.bins = NoBins /\ new.asked = {} /\ new.deletions = {}
  BY <1>1, RestKeeps
<1>5. ToSet(<<>>) = {} /\ ToSet(NoBins.adds) = {} /\ ToSet(NoBins.updates) = {}
  BY ListSet
<1>6. \A i \in ToSort' : \E d \in DOMAIN batch \ {b} : i \in ToSet(batch[d].items)
  <2> SUFFICES ASSUME NEW i \in ToSort' PROVE \E d \in DOMAIN batch \ {b} : i \in ToSet(batch[d].items)
    OBVIOUS
  <2>1. PICK c \in DOMAIN batch' : i \in ToSet(batch'[c].items)
    BY DEF ToSort
  <2>2. batch'[c] # new
    BY <1>1, <1>5, <2>1
  <2> QED  BY <1>2, <2>1, <2>2
<1>7. ToSort' \subseteq ToSort
  BY <1>6 DEF ToSort
<1>8. ToSort \subseteq ToSort' \cup ToSet(batch[b].items)
  BY <1>3 DEF ToSort
<1>9. /\ ToAdd' \subseteq ToAdd \cup ToSet(new.bins.adds)
      /\ ToAdd \subseteq ToAdd' \cup ToSet(batch[b].bins.adds) /\ ToSet(new.bins.adds) \subseteq ToAdd'
  <2>1. ToAdd' \subseteq ToAdd \cup ToSet(new.bins.adds)
    BY <1>2 DEF ToAdd
  <2>2. ToAdd \subseteq ToAdd' \cup ToSet(batch[b].bins.adds)
    BY <1>3 DEF ToAdd
  <2>3. ToSet(new.bins.adds) \subseteq ToAdd'
    BY <1>4, <1>5 DEF ToAdd
  <2> QED  BY <2>1, <2>2, <2>3
<1>10. /\ ToAsk' \subseteq ToAsk \cup new.asked
       /\ ToAsk \subseteq ToAsk' \cup batch[b].asked /\ new.asked \subseteq ToAsk'
  <2>1. ToAsk' \subseteq ToAsk \cup new.asked
    BY <1>2 DEF ToAsk
  <2>2. ToAsk \subseteq ToAsk' \cup batch[b].asked
    BY <1>3 DEF ToAsk
  <2>3. new.asked \subseteq ToAsk'
    BY <1>4 DEF ToAsk
  <2> QED  BY <2>1, <2>2, <2>3
<1>11. /\ ToDelete' \subseteq ToDelete \cup new.deletions
       /\ ToDelete \subseteq ToDelete' \cup batch[b].deletions /\ new.deletions \subseteq ToDelete'
  <2>1. ToDelete' \subseteq ToDelete \cup new.deletions
    BY <1>2 DEF ToDelete
  <2>2. ToDelete \subseteq ToDelete' \cup batch[b].deletions
    BY <1>3 DEF ToDelete
  <2>3. new.deletions \subseteq ToDelete'
    BY <1>4 DEF ToDelete
  <2> QED  BY <2>1, <2>2, <2>3
<1>12. ASSUME UNCHANGED <<pending, loop>>
       PROVE  /\ Missing' = Missing
              /\ ToUpdate' \subseteq ToUpdate \cup ToSet(new.bins.updates)
              /\ ToUpdate \subseteq ToUpdate' \cup ToSet(batch[b].bins.updates)
              /\ ToSet(new.bins.updates) \subseteq ToUpdate'
  <2> DEFINE held == UNION {ToSet(batch[c].bins.updates) : c \in DOMAIN batch}
             rest == (UNION {ToSet(pending[p].updates) : p \in Processors})
                       \cup UNION {ToSet(loop[l].bins.updates) : l \in Chains}
  <2>1. Missing' = Missing
    BY <1>12 DEF Missing
  <2>2. ToUpdate = held \cup rest /\ ToUpdate' = held' \cup rest
    BY <1>12 DEF ToUpdate
  <2>3. held' \subseteq held \cup ToSet(new.bins.updates)
    BY <1>2
  <2>4. held \subseteq held' \cup ToSet(batch[b].bins.updates)
    BY <1>3
  <2>5. ToSet(new.bins.updates) \subseteq held'
    BY <1>4, <1>5
  <2> HIDE DEF held, rest
  <2> QED  BY <2>1, <2>2, <2>3, <2>4, <2>5
<1> QED  BY <1>6, <1>7, <1>8, <1>9, <1>10, <1>11, <1>12

(* What a batch holds is part of the work in hand.                         *)
LEMMA BatchWork ==
  ASSUME NEW b \in DOMAIN batch
  PROVE  /\ ToSet(batch[b].items) \subseteq ToSort /\ ToSet(batch[b].bins.adds) \subseteq ToAdd
         /\ batch[b].asked \subseteq ToAsk /\ batch[b].deletions \subseteq ToDelete
         /\ ToSet(batch[b].bins.updates) \subseteq ToUpdate
BY DEF ToSort, ToAdd, ToAsk, ToDelete, ToUpdate

LEMMA SendBatchFlow ==
  ASSUME StateInv, NEW b \in DOMAIN batch, NEW kind \in Kinds, SendBatch(b, kind)
  PROVE  /\ UNCHANGED <<ToSort, ToAsk, ToDelete, Missing>>
         /\ ToSet(batch[b].bins.adds) \subseteq ToAdd /\ ToSet(batch[b].bins.updates) \subseteq ToUpdate
         /\ ToAdd' \subseteq ToAdd /\ ToUpdate' \subseteq ToUpdate
         /\ kind = "adds" => ToUpdate' = ToUpdate /\ ToAdd \subseteq ToAdd' \cup ToSet(batch[b].bins.adds)
         /\ kind = "updates" => ToAdd' = ToAdd /\ ToUpdate \subseteq ToUpdate' \cup ToSet(batch[b].bins.updates)
<1> DEFINE new == [batch[b] EXCEPT !.bins[kind] = <<>>]
<1>1. /\ batch[b].at = "send" /\ Rest(b, new) /\ UNCHANGED <<pending, loop>>
      /\ RestOf(new) /\ batch[b] \in Batch /\ batch[b].bins \in Bins
  <2>1. RestOf(new)
    BY SendBatchState
  <2>2. batch[b] \in Batch /\ batch[b].bins \in Bins
    BY BatchType DEF StateInv, TypeOK
  <2> QED  BY <2>1, <2>2 DEF SendBatch
<1>2. /\ new.at = "send" /\ new.asked = batch[b].asked /\ new.deletions = batch[b].deletions
      /\ new.bins = [batch[b].bins EXCEPT ![kind] = <<>>]
  BY <1>1 DEF Batch
<1>3. /\ kind = "adds" => new.bins.adds = <<>> /\ new.bins.updates = batch[b].bins.updates
      /\ kind = "updates" => new.bins.adds = batch[b].bins.adds /\ new.bins.updates = <<>>
  BY <1>1, <1>2 DEF Bins
<1> HIDE DEF new
<1>4. ToSet(<<>>) = {} /\ batch[b].items = <<>>
  BY <1>1, ListSet, BatchType
<1>5. /\ ToSort' \subseteq ToSort /\ ToSort \subseteq ToSort' \cup ToSet(batch[b].items)
      /\ ToAdd' \subseteq ToAdd \cup ToSet(new.bins.adds)
      /\ ToAdd \subseteq ToAdd' \cup ToSet(batch[b].bins.adds) /\ ToSet(new.bins.adds) \subseteq ToAdd'
      /\ ToAsk' \subseteq ToAsk \cup new.asked
      /\ ToAsk \subseteq ToAsk' \cup batch[b].asked /\ new.asked \subseteq ToAsk'
      /\ ToDelete' \subseteq ToDelete \cup new.deletions
      /\ ToDelete \subseteq ToDelete' \cup batch[b].deletions /\ new.deletions \subseteq ToDelete'
      /\ Missing' = Missing
      /\ ToUpdate' \subseteq ToUpdate \cup ToSet(new.bins.updates)
      /\ ToUpdate \subseteq ToUpdate' \cup ToSet(batch[b].bins.updates)
      /\ ToSet(new.bins.updates) \subseteq ToUpdate'
  BY <1>1, <1>2, RestFlow
<1>6. /\ ToSet(batch[b].bins.adds) \subseteq ToAdd /\ ToSet(batch[b].bins.updates) \subseteq ToUpdate
      /\ batch[b].asked \subseteq ToAsk /\ batch[b].deletions \subseteq ToDelete
  BY BatchWork
<1>7. UNCHANGED <<ToSort, ToAsk, ToDelete, Missing>>
  BY <1>2, <1>4, <1>5, <1>6
<1>8. CASE kind = "adds"
  BY <1>3, <1>4, <1>5, <1>6, <1>7, <1>8
<1>9. CASE kind = "updates"
  BY <1>3, <1>4, <1>5, <1>6, <1>7, <1>9
<1> QED  BY <1>8, <1>9 DEF Kinds

LEMMA DeleteFlow ==
  ASSUME StateInv, NEW b \in DOMAIN batch, NEW d \in Observations, sendDelete(b, d)
  PROVE  /\ UNCHANGED <<ToSort, ToAdd, ToAsk, Missing, ToUpdate>>
         /\ ToDelete' \subseteq ToDelete /\ ToDelete \subseteq ToDelete' \cup {d} /\ d \in ToDelete
<1> DEFINE new == [batch[b] EXCEPT !.deletions = @ \ {d}]
<1>1. /\ batch[b].at = "send" /\ Rest(b, new) /\ UNCHANGED <<pending, loop>>
      /\ batch[b] \in Batch /\ d \in batch[b].deletions
  BY DEF sendDelete, StateInv, TypeOK
<1>2. /\ new.at = "send" /\ new.asked = batch[b].asked /\ new.deletions = batch[b].deletions \ {d}
      /\ new.bins = batch[b].bins /\ RestOf(new)
  BY <1>1, BatchType DEF Batch, RestOf
<1> HIDE DEF new
<1>3. ToSet(<<>>) = {} /\ batch[b].items = <<>>
  BY <1>1, ListSet, BatchType
<1>4. /\ ToSort' \subseteq ToSort /\ ToSort \subseteq ToSort' \cup ToSet(batch[b].items)
      /\ ToAdd' \subseteq ToAdd \cup ToSet(new.bins.adds)
      /\ ToAdd \subseteq ToAdd' \cup ToSet(batch[b].bins.adds) /\ ToSet(new.bins.adds) \subseteq ToAdd'
      /\ ToAsk' \subseteq ToAsk \cup new.asked
      /\ ToAsk \subseteq ToAsk' \cup batch[b].asked /\ new.asked \subseteq ToAsk'
      /\ ToDelete' \subseteq ToDelete \cup new.deletions
      /\ ToDelete \subseteq ToDelete' \cup batch[b].deletions /\ new.deletions \subseteq ToDelete'
      /\ Missing' = Missing
      /\ ToUpdate' \subseteq ToUpdate \cup ToSet(new.bins.updates)
      /\ ToUpdate \subseteq ToUpdate' \cup ToSet(batch[b].bins.updates)
      /\ ToSet(new.bins.updates) \subseteq ToUpdate'
  BY <1>1, <1>2, RestFlow
<1>5. /\ ToSet(batch[b].bins.adds) \subseteq ToAdd /\ ToSet(batch[b].bins.updates) \subseteq ToUpdate
      /\ batch[b].asked \subseteq ToAsk /\ batch[b].deletions \subseteq ToDelete
  BY BatchWork
<1> QED  BY <1>1, <1>2, <1>3, <1>4, <1>5

(* A query for a feature that is answered or fails: the batch asks no more.*)
AskedOnce(b, i) == Rest(b, [batch[b] EXCEPT !.asked = @ \ {i}])

LEMMA AskedFlow ==
  ASSUME StateInv, NEW b \in DOMAIN batch, NEW i \in batch[b].asked, AskedOnce(b, i)
  PROVE  /\ UNCHANGED <<ToSort, ToAdd, ToDelete>> /\ i \in ToAsk
         /\ ToAsk' \subseteq ToAsk /\ ToAsk \subseteq ToAsk' \cup {i}
         /\ UNCHANGED <<pending, loop>> => UNCHANGED <<Missing, ToUpdate>>
         /\ UNION {ToSet(batch'[c].bins.updates) : c \in DOMAIN batch'}
              = UNION {ToSet(batch[c].bins.updates) : c \in DOMAIN batch}
<1> DEFINE new == [batch[b] EXCEPT !.asked = @ \ {i}]
<1>1. /\ Rest(b, new) /\ batch[b] \in Batch /\ RestOf(new) /\ batch[b].at = "send"
      /\ batch \in Seq(Batch)
  <2>1. RestOf(new)
    BY AskedState
  <2>2. Rest(b, new)
    BY DEF AskedOnce
  <2>3. batch \in Seq(Batch) /\ batch[b] \in Batch
    BY DEF StateInv, TypeOK
  <2>4. batch[b].at = "send"
    BY BatchType
  <2> HIDE DEF new
  <2> QED  BY <2>1, <2>2, <2>3, <2>4
<1>2. /\ new.at = "send" /\ new.asked = batch[b].asked \ {i} /\ new.deletions = batch[b].deletions
      /\ new.bins = batch[b].bins /\ new \in Batch
  BY <1>1 DEF Batch, RestOf
<1> HIDE DEF new
<1>3. ToSet(<<>>) = {} /\ batch[b].items = <<>>
  BY <1>1, ListSet, BatchType
<1>4. /\ ToSort' \subseteq ToSort /\ ToSort \subseteq ToSort' \cup ToSet(batch[b].items)
      /\ ToAdd' \subseteq ToAdd \cup ToSet(new.bins.adds)
      /\ ToAdd \subseteq ToAdd' \cup ToSet(batch[b].bins.adds) /\ ToSet(new.bins.adds) \subseteq ToAdd'
      /\ ToAsk' \subseteq ToAsk \cup new.asked
      /\ ToAsk \subseteq ToAsk' \cup batch[b].asked /\ new.asked \subseteq ToAsk'
      /\ ToDelete' \subseteq ToDelete \cup new.deletions
      /\ ToDelete \subseteq ToDelete' \cup batch[b].deletions /\ new.deletions \subseteq ToDelete'
  BY <1>1, <1>2, RestFlow
<1>5. /\ ToSet(batch[b].bins.adds) \subseteq ToAdd /\ ToSet(batch[b].bins.updates) \subseteq ToUpdate
      /\ batch[b].asked \subseteq ToAsk /\ batch[b].deletions \subseteq ToDelete
  BY BatchWork
<1>6. UNCHANGED <<ToSort, ToAdd, ToDelete>> /\ ToAsk' \subseteq ToAsk /\ ToAsk \subseteq ToAsk' \cup {i}
  BY <1>2, <1>3, <1>4, <1>5
<1>7. UNION {ToSet(batch'[c].bins.updates) : c \in DOMAIN batch'}
        = UNION {ToSet(batch[c].bins.updates) : c \in DOMAIN batch}
  <2>1. \A c \in DOMAIN batch' : batch'[c] = new \/ \E d \in DOMAIN batch : batch'[c] = batch[d]
    BY <1>1, <1>2, RestKeeps
  <2>2. \A d \in DOMAIN batch \ {b} : \E c \in DOMAIN batch' : batch'[c] = batch[d]
    BY <1>1, <1>2, RestKeeps
  <2>3. (\E c \in DOMAIN batch' : batch'[c] = new) \/ new.bins = NoBins
    BY <1>1, <1>2, RestKeeps
  <2>4. \A c \in DOMAIN batch' : \E d \in DOMAIN batch : batch'[c].bins.updates = batch[d].bins.updates
    BY <1>2, <2>1
  <2>5. \A d \in DOMAIN batch :
          \/ ToSet(batch[d].bins.updates) = {}
          \/ \E c \in DOMAIN batch' : batch'[c].bins.updates = batch[d].bins.updates
    BY <1>2, <2>2, <2>3, ListSet
  <2> QED  BY <2>4, <2>5
<1>8. UNCHANGED <<pending, loop>> => UNCHANGED <<Missing, ToUpdate>>
  BY <1>7 DEF Missing, ToUpdate
<1> QED  BY <1>5, <1>6, <1>7, <1>8

LEMMA FailFlow ==
  ASSUME StateInv, NEW b \in DOMAIN batch, NEW i \in batch[b].asked, QueryFails(b, i)
  PROVE  /\ UNCHANGED <<ToSort, ToAdd, ToDelete, Missing, ToUpdate>> /\ i \in ToAsk
         /\ ToAsk' \subseteq ToAsk /\ ToAsk \subseteq ToAsk' \cup {i}
<1>1. AskedOnce(b, i) /\ UNCHANGED <<pending, loop>>
  BY DEF QueryFails, AskedOnce
<1> QED  BY <1>1, AskedFlow

(* What a query for a feature adds to what is pending.                     *)
Update(i) ==
    [obs |-> i.obs, ver |-> i.ver,
     id |-> CHOOSE f \in Features(i.obs) : \A g \in Features(i.obs) : f <= g]

LEMMA QueryFlow ==
  ASSUME StateInv, NEW b \in DOMAIN batch, NEW i \in batch[b].asked, queryObservation(b, i)
  PROVE  /\ UNCHANGED <<ToSort, ToAdd, ToDelete>> /\ i \in ToAsk
         /\ ToAsk' \subseteq ToAsk /\ ToAsk \subseteq ToAsk' \cup {i}
         /\ i \in Item /\ (Features(i.obs) # {} => Update(i).id \in Features(i.obs))
         /\ \/ Features(i.obs) = {} /\ Missing' = Missing \cup {i} /\ ToUpdate' = ToUpdate
            \/ Features(i.obs) # {} /\ Missing' = Missing /\ ToUpdate' = ToUpdate \cup {Update(i)}
            \/ /\ Features(i.obs) # {} /\ layer[i.obs][Update(i).id] >= i.ver
               /\ Missing' = Missing /\ ToUpdate' = ToUpdate
<1> DEFINE p == batch[b].proc
           change == Update(i)
           bins == IF Features(i.obs) = {} THEN [pending[p] EXCEPT !.adds = Append(@, i)]
                   ELSE IF layer[i.obs][change.id] < i.ver
                   THEN [pending[p] EXCEPT !.updates = Append(@, change)]
                   ELSE pending[p]
<1>1. AskedOnce(b, i) /\ pending' = [pending EXCEPT ![p] = bins] /\ UNCHANGED <<layer, loop>>
  BY DEF queryObservation, AskedOnce, Update
<1>2. /\ i \in Item /\ p \in Processors /\ pending \in [Processors -> Bins]
      /\ layer \in [Observations -> Seq(Times)]
  BY AskedState, BatchType DEF StateInv, TypeOK
<1>3. pending[p].adds \in Seq(Item) /\ pending[p].updates \in Seq(Change) /\ pending[p] \in Bins
  BY <1>2 DEF Bins
<1>4. /\ UNCHANGED <<ToSort, ToAdd, ToDelete>> /\ i \in ToAsk
      /\ ToAsk' \subseteq ToAsk /\ ToAsk \subseteq ToAsk' \cup {i}
      /\ UNION {ToSet(batch'[c].bins.updates) : c \in DOMAIN batch'}
           = UNION {ToSet(batch[c].bins.updates) : c \in DOMAIN batch}
  BY <1>1, AskedFlow
<1>5. i.obs \in Observations /\ i.ver \in Times
  BY <1>2 DEF Item
<1>6. ASSUME Features(i.obs) # {} PROVE change.id \in Features(i.obs) /\ change \in Change
  <2>1. Features(i.obs) \in SUBSET Nat
    BY <1>2, <1>5 DEF Features
  <2>2. PICK f \in Features(i.obs) : \A g \in Features(i.obs) : f <= g
    BY <1>6, <2>1, LeastNatural
  <2>3. change.id \in Features(i.obs)
    BY <2>2 DEF Update
  <2>4. change.id \in Nat /\ change = [obs |-> i.obs, ver |-> i.ver, id |-> change.id]
    BY <2>1, <2>3 DEF Update
  <2> HIDE DEF change
  <2> QED  BY <1>5, <2>3, <2>4 DEF Change
<1> HIDE DEF change, p
<1>7. /\ Features(i.obs) = {} => bins.adds = Append(pending[p].adds, i) /\ bins.updates = pending[p].updates
      /\ Features(i.obs) # {} /\ layer[i.obs][change.id] < i.ver =>
            bins.adds = pending[p].adds /\ bins.updates = Append(pending[p].updates, change)
      /\ Features(i.obs) # {} /\ ~(layer[i.obs][change.id] < i.ver) => bins = pending[p]
  BY <1>3 DEF Bins
<1>8. /\ ToSet(Append(pending[p].adds, i)) = ToSet(pending[p].adds) \cup {i}
      /\ Features(i.obs) # {} => ToSet(Append(pending[p].updates, change)) = ToSet(pending[p].updates) \cup {change}
  BY <1>2, <1>3, <1>6, AppendSet
<1> HIDE DEF bins
<1>9. \A q \in Processors : pending'[q] = IF q = p THEN bins ELSE pending[q]
  BY <1>1, <1>2
<1> DEFINE adds    == UNION {ToSet(pending[q].adds) : q \in Processors}
           updates == UNION {ToSet(pending[q].updates) : q \in Processors}
           others  == UNION {ToSet(loop[l].bins.adds) : l \in Chains}
           rest    == (UNION {ToSet(batch[c].bins.updates) : c \in DOMAIN batch})
                        \cup UNION {ToSet(loop[l].bins.updates) : l \in Chains}
<1>10. Missing = adds \cup others /\ Missing' = adds' \cup others'
  BY DEF Missing
<1>11. ToUpdate = updates \cup rest /\ ToUpdate' = updates' \cup rest'
  BY DEF ToUpdate
<1>12. others' = others /\ rest' = rest
  BY <1>1, <1>4
<1>13. ASSUME NEW x, ToSet(bins.adds) = ToSet(pending[p].adds) \cup x PROVE adds' = adds \cup x
  <2>1. \A q \in Processors : ToSet(pending'[q].adds) = IF q = p THEN ToSet(pending[q].adds) \cup x
                                                        ELSE ToSet(pending[q].adds)
    BY <1>9, <1>13
  <2> QED  BY <1>2, <2>1
<1>14. ASSUME NEW x, ToSet(bins.updates) = ToSet(pending[p].updates) \cup x PROVE updates' = updates \cup x
  <2>1. \A q \in Processors : ToSet(pending'[q].updates) = IF q = p THEN ToSet(pending[q].updates) \cup x
                                                           ELSE ToSet(pending[q].updates)
    BY <1>9, <1>14
  <2> QED  BY <1>2, <2>1
<1>15. /\ bins.adds = pending[p].adds => adds' = adds
       /\ bins.updates = pending[p].updates => updates' = updates
  <2>1. \A s : s = s \cup {}
    OBVIOUS
  <2> HIDE DEF adds, updates
  <2> QED  BY <1>13, <1>14, <2>1
<1> HIDE DEF adds, updates, others, rest
<1>16. CASE Features(i.obs) = {}
  <2>1. adds' = adds \cup {i} /\ updates' = updates
    BY <1>7, <1>8, <1>13, <1>15, <1>16
  <2> QED  BY <1>2, <1>4, <1>10, <1>11, <1>12, <1>16, <2>1
<1>17. CASE Features(i.obs) # {} /\ layer[i.obs][change.id] < i.ver
  <2>1. adds' = adds /\ updates' = updates \cup {change}
    BY <1>7, <1>8, <1>14, <1>15, <1>17
  <2> QED  BY <1>2, <1>4, <1>6, <1>10, <1>11, <1>12, <1>17, <2>1 DEF change
<1>18. CASE Features(i.obs) # {} /\ ~(layer[i.obs][change.id] < i.ver)
  <2>1. adds' = adds /\ updates' = updates
    BY <1>7, <1>15, <1>18
  <2>2. layer[i.obs][change.id] \in Nat /\ i.ver \in Nat
    <3>1. layer[i.obs] \in Seq(Times) /\ change.id \in DOMAIN layer[i.obs]
      BY <1>2, <1>5, <1>6, <1>18 DEF Features
    <3>2. layer[i.obs][change.id] \in Times
      BY <3>1
    <3> QED  BY <1>5, <3>2, Values
  <2>3. layer[i.obs][change.id] >= i.ver
    BY <1>18, <2>2
  <2> QED  BY <1>2, <1>4, <1>6, <1>10, <1>11, <1>12, <1>18, <2>1, <2>3 DEF change
<1> QED  BY <1>16, <1>17, <1>18

(* A batch is sorted by the features there are.                            *)
LEMMA SortFlow ==
  ASSUME StateInv, NEW b \in DOMAIN batch, processArcObjects(b)
  PROVE  \E old, live \in SUBSET Observations :
            /\ live = {i.obs : i \in {j \in ToSet(batch[b].items) : ~j.archived}}
            /\ \/ old = existingObservationIds /\ UNCHANGED <<again, doubtful>>
               \/ /\ doubtful' = doubtful \cup Of(batch[b].items)
                  /\ again' = again \cup Of(batch[b].items)
            /\ ToSet(batch[b].items) \subseteq ToSort
            /\ ToSort' \subseteq ToSort /\ ToSort \subseteq ToSort' \cup ToSet(batch[b].items)
            /\ \A i \in ToSort' : \E d \in DOMAIN batch \ {b} : i \in ToSet(batch[d].items)
            /\ ToAdd' = ToAdd \cup {i \in ToSet(batch[b].items) : i.obs \in live \ old}
            /\ ToAsk' = ToAsk \cup {i \in ToSet(batch[b].items) : i.obs \in live \cap old}
            /\ ToDelete' = ToDelete \cup ((Of(batch[b].items) \ live) \cap old)
            /\ Missing' = Missing /\ ToUpdate' = ToUpdate
<1>1. PICK old \in SUBSET Observations :
        /\ Rest(b, SortedInto(b, old))
        /\ doubtful' = IF old = existingObservationIds THEN doubtful
                       ELSE doubtful \cup Of(batch[b].items)
        /\ again' = IF old = existingObservationIds THEN again
                    ELSE again \cup Of(batch[b].items)
  BY DEF processArcObjects, SortedInto
<1> DEFINE live  == {i.obs : i \in {j \in ToSet(batch[b].items) : ~j.archived}}
           items == batch[b].items
           new   == SortedInto(b, old)
<1>2. RestOf(new) /\ UNCHANGED <<pending, loop>> /\ batch[b].at = "query"
  BY SortedIntoType DEF processArcObjects
<1>3. items \in Seq(Item) /\ batch[b].proc \in Processors
  BY BatchType
<1>4. /\ new.at = "send" /\ new.bins.adds = Kept(items, live \ old)
      /\ new.bins.updates = pending[batch[b].proc].updates
      /\ new.asked = {i \in ToSet(items) : i.obs \in live \cap old}
      /\ new.deletions = (Of(items) \ live) \cap old
  BY DEF SortedInto
<1> HIDE DEF new, live
<1>5. ToSet(new.bins.adds) = {i \in ToSet(items) : i.obs \in live \ old}
  <2> HIDE DEF items
  <2> QED  BY <1>3, <1>4, KeptSet
<1>6. /\ ToSet(batch[b].bins.adds) = {} /\ batch[b].asked = {} /\ batch[b].deletions = {}
      /\ ToSet(batch[b].bins.updates) = {}
  BY <1>2, BatchType, ListSet
<1>7. /\ ToSort' \subseteq ToSort /\ ToSort \subseteq ToSort' \cup ToSet(batch[b].items)
      /\ \A i \in ToSort' : \E d \in DOMAIN batch \ {b} : i \in ToSet(batch[d].items)
      /\ ToAdd' \subseteq ToAdd \cup ToSet(new.bins.adds)
      /\ ToAdd \subseteq ToAdd' \cup ToSet(batch[b].bins.adds) /\ ToSet(new.bins.adds) \subseteq ToAdd'
      /\ ToAsk' \subseteq ToAsk \cup new.asked
      /\ ToAsk \subseteq ToAsk' \cup batch[b].asked /\ new.asked \subseteq ToAsk'
      /\ ToDelete' \subseteq ToDelete \cup new.deletions
      /\ ToDelete \subseteq ToDelete' \cup batch[b].deletions /\ new.deletions \subseteq ToDelete'
      /\ Missing' = Missing
      /\ ToUpdate' \subseteq ToUpdate \cup ToSet(new.bins.updates)
      /\ ToUpdate \subseteq ToUpdate' \cup ToSet(batch[b].bins.updates)
  BY <1>1, <1>2, <1>4, RestFlow DEF new
<1>8. ToSet(pending[batch[b].proc].updates) \subseteq ToUpdate
  BY <1>3 DEF ToUpdate
<1>9. /\ ToAdd' = ToAdd \cup {i \in ToSet(batch[b].items) : i.obs \in live \ old}
      /\ ToAsk' = ToAsk \cup {i \in ToSet(batch[b].items) : i.obs \in live \cap old}
      /\ ToDelete' = ToDelete \cup ((Of(batch[b].items) \ live) \cap old)
      /\ ToUpdate' = ToUpdate
  <2>1. ToAdd' = ToAdd \cup ToSet(new.bins.adds)
    BY <1>6, <1>7
  <2>2. ToAsk' = ToAsk \cup new.asked
    BY <1>6, <1>7
  <2>3. ToDelete' = ToDelete \cup new.deletions
    BY <1>6, <1>7
  <2>4. ToUpdate' = ToUpdate
    BY <1>4, <1>6, <1>7, <1>8
  <2> QED  BY <1>4, <1>5, <2>1, <2>2, <2>3, <2>4
<1>10. ToSet(batch[b].items) \subseteq ToSort
  BY BatchWork
<1>11. \/ old = existingObservationIds /\ UNCHANGED <<again, doubtful>>
       \/ /\ doubtful' = doubtful \cup Of(batch[b].items)
          /\ again' = again \cup Of(batch[b].items)
  BY <1>1
<1>12. live \in SUBSET Observations
  <2> HIDE DEF items
  <2>1. ToSet(items) \subseteq Item
    BY <1>3, ListSet
  <2> QED  BY <2>1 DEF live, items, Item
<1> HIDE DEF items
<1> WITNESS old \in SUBSET Observations, live \in SUBSET Observations
<1> QED  BY <1>7, <1>9, <1>10, <1>11 DEF live

(* A page that is read: its items, but for those of before the event's     *)
(* date, what becomes of the cycle, and what is doubtful.                  *)
PageOf(l) ==
    LET found == findLastModifiedAfter(time[loop[l].proc])
        skip  == loop[l].page * PageSize IN
    SubSeq(found, skip + 1, IF skip + PageSize < Len(found) THEN skip + PageSize ELSE Len(found))

ReadsPage(l, items, next, left) ==
    /\ items \in Seq(Item) /\ loop[l].at = "page"
    /\ Of(items) = ToSet(PageOf(l)) \cap Synced
    /\ \A i \in ToSet(items) : i.ver = doc[i.obs].ver /\ i.archived = doc[i.obs].archived
    /\ batch' = Append(batch, [at |-> "query", proc |-> loop[l].proc, items |-> items,
                               bins |-> NoBins, asked |-> {}, deletions |-> {}])
    /\ left = (IF loop[l].page = 0 THEN Len(findLastModifiedAfter(time[loop[l].proc]))
               ELSE loop[l].left) - Len(PageOf(l))
    /\ next = [loop[l] EXCEPT !.at = IF left > 0 THEN "page" ELSE "end",
                              !.page = IF loop[l].page < LastId THEN loop[l].page + 1 ELSE loop[l].page,
                              !.left = left]
    /\ loop[l] \in Cycle /\ left \in Int /\ Goes(l, next)
    /\ again' = again \cup (Of(items) \cap InFlight)
    /\ doubtful' = IF loop[l].proc = proc
                   THEN (doubtful \ ToSet(PageOf(l))) \cup (ToSet(PageOf(l)) \cap InFlight)
                   ELSE doubtful \cup ToSet(PageOf(l))
    /\ UNCHANGED <<doc, now, layer, upsets, config, proc, link, timer, time, pending>>

LEMMA PageFlow ==
  ASSUME StateInv, NEW l \in Chains, queryAndSend(l)
  PROVE  \E items, next, left : ReadsPage(l, items, next, left)
<1> DEFINE found == findLastModifiedAfter(time[loop[l].proc])
           skip  == loop[l].page * PageSize
           last  == IF skip + PageSize < Len(found) THEN skip + PageSize ELSE Len(found)
           page  == SubSeq(found, skip + 1, last)
           left  == (IF loop[l].page = 0 THEN Len(found) ELSE loop[l].left) - Len(page)
           read  == [i \in DOMAIN page |-> [obs |-> page[i], ver |-> doc[page[i]].ver,
                                            archived |-> doc[page[i]].archived]]
           items == Kept(read, Synced)
           next  == [loop[l] EXCEPT !.at = IF left > 0 THEN "page" ELSE "end",
                                    !.page = IF loop[l].page < LastId THEN loop[l].page + 1 ELSE loop[l].page,
                                    !.left = left]
<1>1. TypeOK /\ ClockInv /\ PhaseInv
  BY DEF StateInv
<1>2. loop[l] \in Cycle
  BY <1>1 DEF TypeOK
<1>3. /\ loop[l].at = "page"
      /\ batch' = Append(batch, [at |-> "query", proc |-> loop[l].proc, items |-> items,
                                 bins |-> NoBins, asked |-> {}, deletions |-> {}])
      /\ Goes(l, next)
      /\ again' = again \cup (Of(items) \cap InFlight)
      /\ doubtful' = (IF loop[l].proc = proc THEN (doubtful \ Of(read)) \cup (Of(read) \cap InFlight)
                      ELSE doubtful \cup Of(read))
      /\ UNCHANGED <<doc, now, layer, upsets, config, proc, link, timer, time, pending>>
  BY <1>2 DEF queryAndSend, outside, setup, Cycle
<1>4. Len(found) \in Nat
  BY <1>1, FoundList
<1>5. loop[l].page \in Nat /\ loop[l].left \in Int /\ skip \in Nat
  BY <1>2, ArcGISAssumption DEF Cycle
<1>6. last \in Int /\ last <= Len(found)
  BY <1>4, <1>5, ArcGISAssumption
<1>7. page = PageOf(l)
  BY DEF PageOf
<1> HIDE DEF skip, last
<1>8. read \in Seq(Item) /\ items \in Seq(Item) /\ Len(page) \in Nat
  BY <1>5, <1>6, PageItems
<1> HIDE DEF found, page
<1>8a. Of(read) = ToSet(page)
  BY DEF Of, ToSet
<1>8b. \A i \in ToSet(read) : i.ver = doc[i.obs].ver /\ i.archived = doc[i.obs].archived
  BY DEF ToSet
<1> HIDE DEF read
<1>8c. ToSet(items) = {i \in ToSet(read) : i.obs \in Synced}
  BY <1>8, KeptSet
<1>9. Of(items) = ToSet(page) \cap Synced
  BY <1>8a, <1>8c, ListSet DEF Names
<1>10. \A i \in ToSet(items) : i.ver = doc[i.obs].ver /\ i.archived = doc[i.obs].archived
  BY <1>8b, <1>8c
<1> HIDE DEF items
<1>11. left \in Int
  BY <1>4, <1>5, <1>8
<1>12. left = (IF loop[l].page = 0 THEN Len(found) ELSE loop[l].left) - Len(page)
  OBVIOUS
<1> HIDE DEF left
<1> WITNESS items, next, left
<1> QED  BY <1>2, <1>3, <1>7, <1>8, <1>8a, <1>9, <1>10, <1>11, <1>12 DEF found, ReadsPage

LEMMA PageWork ==
  ASSUME StateInv, NEW l \in Chains, NEW items, NEW next, NEW left, ReadsPage(l, items, next, left)
  PROVE  /\ UNCHANGED <<ToAdd, ToAsk, ToDelete, Missing, ToUpdate>>
         /\ ToSort' = ToSort \cup ToSet(items)
         /\ \E n : /\ DOMAIN batch' = DOMAIN batch \cup {n} /\ n \notin DOMAIN batch
                   /\ batch'[n].items = items /\ \A c \in DOMAIN batch : batch'[c] = batch[c]
<1> DEFINE new == [at |-> "query", proc |-> loop[l].proc, items |-> items,
                   bins |-> NoBins, asked |-> {}, deletions |-> {}]
           n == Len(batch)
<1>1. /\ batch \in Seq(Batch) /\ loop \in [Chains -> Cycle] /\ loop[l].bins = NoBins
      /\ next.bins = NoBins /\ Goes(l, next) /\ UNCHANGED pending
  BY DEF StateInv, TypeOK, PhaseInv, ReadsPage, Cycle
<1>2. new.items = items /\ new.bins = NoBins /\ new.asked = {} /\ new.deletions = {}
  OBVIOUS
<1>3. batch' = Append(batch, new)
  BY DEF ReadsPage
<1> HIDE DEF new
<1>4. /\ DOMAIN batch = 1..n /\ n \in Nat /\ DOMAIN batch' = 1..(n + 1)
      /\ batch'[n + 1] = new /\ \A c \in 1..n : batch'[c] = batch[c]
  <2>1. new \in Batch
    <3>1. items \in Seq(Item) /\ loop[l].proc \in Processors
      BY DEF ReadsPage, Cycle
    <3> QED  BY <3>1, Values DEF new, Batch
  <2> QED  BY <1>1, <1>3, <2>1
<1> HIDE DEF n
<1>5. /\ DOMAIN batch' = DOMAIN batch \cup {n + 1}
      /\ \A c \in DOMAIN batch : batch'[c] = batch[c]
      /\ n + 1 \notin DOMAIN batch
  BY <1>4
<1>6. ToSet(NoBins.adds) = {} /\ ToSet(NoBins.updates) = {}
  BY ListSet
<1>7. ToSort' = ToSort \cup ToSet(items)
  BY <1>2, <1>4, <1>5 DEF ToSort
<1>8. UNCHANGED <<ToAdd, ToAsk, ToDelete>>
  <2>1. ToAdd' = ToAdd
    BY <1>2, <1>4, <1>5, <1>6 DEF ToAdd
  <2>2. ToAsk' = ToAsk
    BY <1>2, <1>4, <1>5 DEF ToAsk
  <2>3. ToDelete' = ToDelete
    BY <1>2, <1>4, <1>5 DEF ToDelete
  <2> QED  BY <2>1, <2>2, <2>3
<1>9. \A k \in Chains : loop'[k].bins = loop[k].bins
  BY <1>1 DEF Goes
<1>10. Missing' = Missing
  BY <1>1, <1>9 DEF Missing
<1>11. ToUpdate' = ToUpdate
  <2> DEFINE held == UNION {ToSet(batch[c].bins.updates) : c \in DOMAIN batch}
             kept == UNION {ToSet(pending[p].updates) : p \in Processors}
             sent == UNION {ToSet(loop[k].bins.updates) : k \in Chains}
  <2>1. held' = held
    BY <1>2, <1>4, <1>5, <1>6
  <2>2. kept' = kept /\ sent' = sent
    BY <1>1, <1>9
  <2>3. ToUpdate = held \cup kept \cup sent /\ ToUpdate' = held' \cup kept' \cup sent'
    BY DEF ToUpdate
  <2> HIDE DEF held, kept, sent
  <2> QED  BY <2>1, <2>2, <2>3
<1> QED  BY <1>2, <1>4, <1>5, <1>7, <1>8, <1>10, <1>11

-----------------------------------------------------------------------------
(***************************************************************************)
(* Versions: the layer takes those on their way, and nothing else is new.  *)
(***************************************************************************)
Keeps(o) == \A v \in Times : Carried(o, v)' => Carried(o, v)

Shows(o) ==
    /\ DOMAIN layer[o] \subseteq DOMAIN layer'[o]
    /\ \A f \in Shown(layer'[o]) :
          (f \in Features(o) /\ layer'[o][f] = layer[o][f]) \/ Carried(o, layer'[o][f])

LEMMA VersionKept ==
  ASSUME StateInv, StateInv', NEW o \in Observations, VersionInv(o), Keeps(o), Shows(o),
         doc[o].ver <= doc'[o].ver,
         o \in again \cap doubtful => o \in again' \cap doubtful'
  PROVE  VersionInv(o)'
<1>1. /\ doc[o].ver \in Nat /\ doc'[o].ver \in Nat
      /\ \A f \in Features(o) : layer[o][f] \in Times
      /\ \A f \in Features(o)' : layer'[o][f] \in Times /\ f \in Shown(layer'[o])
  <2>1. doc[o].ver \in Times /\ doc'[o].ver \in Times /\ layer[o] \in Seq(Times) /\ layer'[o] \in Seq(Times)
    BY DEF StateInv, TypeOK
  <2>2. doc[o].ver \in Nat /\ doc'[o].ver \in Nat
    BY <2>1, Values
  <2>3. \A f \in Features(o) : layer[o][f] \in Times
    BY <2>1 DEF Features
  <2>4. \A f \in Features(o)' : layer'[o][f] \in Times /\ f \in Shown(layer'[o])
    BY <2>1 DEF Features, Shown
  <2> QED  BY <2>2, <2>3, <2>4
<1>2. Times \subseteq Nat
  BY Values
<1>3. \A v \in Times : Carried(o, v)' => Carried(o, v)
  BY DEF Keeps
<1>4. \A f \in Features(o)' :
        (f \in Features(o) /\ layer'[o][f] = layer[o][f]) \/ Carried(o, layer'[o][f])
  BY <1>1 DEF Shows
<1>5. NotAhead(o)'
  <2>1. 0 < doc'[o].ver
    BY <1>1 DEF VersionInv, NotAhead
  <2>2. ASSUME NEW v \in Times, Carried(o, v)' PROVE 0 < v /\ v <= doc'[o].ver
    <3>1. 0 < v /\ v <= doc[o].ver
      BY <1>3, <2>2 DEF VersionInv, NotAhead
    <3> QED  BY <1>1, <1>2, <3>1
  <2>3. ASSUME NEW f \in Features(o)' PROVE layer'[o][f] <= doc'[o].ver
    <3>1. layer'[o][f] <= doc[o].ver /\ layer'[o][f] \in Times
      BY <1>1, <1>4 DEF VersionInv, NotAhead
    <3>2. \A a, b, c \in Nat : a <= b /\ b <= c => a <= c
      OBVIOUS
    <3> QED  BY <1>1, <1>2, <3>1, <3>2
  <2> QED  BY <2>1, <2>2, <2>3 DEF NotAhead
<1>6. ASSUME o \notin again' \cap doubtful' PROVE OneVersion(o)'
  <2>1. OneVersion(o)
    BY <1>6 DEF VersionInv
  <2>2. SUFFICES ASSUME NEW v \in Times, Carried(o, v)'
                 PROVE  /\ \A w \in Times : Carried(o, w)' => v = w
                        /\ \A f \in Features(o)' : layer'[o][f] <= v
    BY DEF OneVersion
  <2>3. Carried(o, v)
    BY <1>3, <2>2
  <2>4. \A w \in Times : Carried(o, w)' => v = w
    BY <1>3, <2>1, <2>3 DEF OneVersion
  <2>5. ASSUME NEW f \in Features(o)' PROVE layer'[o][f] <= v
    <3>1. CASE f \in Features(o) /\ layer'[o][f] = layer[o][f]
      BY <2>1, <2>3, <3>1 DEF OneVersion
    <3>2. CASE Carried(o, layer'[o][f])
      <4>1. layer'[o][f] \in Times
        BY <1>1
      <4>2. layer'[o][f] = v /\ v \in Nat
        BY <1>2, <2>1, <2>3, <3>2, <4>1 DEF OneVersion
      <4>3. \A a, c \in Nat : a = c => a <= c
        OBVIOUS
      <4> QED  BY <4>2, <4>3
    <3> QED  BY <1>4, <3>1, <3>2
  <2> QED  BY <2>4, <2>5
<1> QED  BY <1>5, <1>6 DEF VersionInv

LEMMA FewerCarried ==
  ASSUME NEW o, \A i \in Work' : \E j \in Work : j.obs = i.obs /\ j.ver = i.ver
  PROVE  Keeps(o)
BY DEF Keeps, Carried

LEMMA SameLayer ==
  ASSUME UNCHANGED layer, NEW o
  PROVE  Shows(o)
BY DEF Shows, Shown, Features

LEMMA SendShows ==
  ASSUME StateInv, NEW bins \in Bins, NEW kind \in Kinds, send(bins, kind), NEW o \in Observations,
         ToSet(bins.adds) \subseteq Work, ToSet(bins.updates) \subseteq Work
  PROVE  Shows(o)
<1>1. layer \in [Observations -> Seq(Times)] /\ bins.adds \in Seq(Item) /\ bins.updates \in Seq(Change)
  BY DEF StateInv, TypeOK, Bins
<1>2. CASE layer' = layer
  BY <1>2, SameLayer
<1>3. CASE layer' = Added(bins.adds)
  <2>1. /\ DOMAIN layer[o] \subseteq DOMAIN layer'[o]
        /\ \A f \in Shown(layer'[o]) :
              (f \in Features(o) /\ layer'[o][f] = layer[o][f]) \/ Has(bins.adds, o, layer'[o][f])
    BY <1>1, <1>3, AddedVersions
  <2> QED  BY <2>1 DEF Shows, Has, Carried
<1>4. CASE layer' = Updated(bins.updates)
  <2>1. /\ DOMAIN layer[o] = DOMAIN layer'[o]
        /\ \A f \in Shown(layer'[o]) :
              /\ f \in Features(o)
              /\ layer'[o][f] = layer[o][f] \/ Has(bins.updates, o, layer'[o][f])
    BY <1>1, <1>4, UpdatedVersions
  <2> QED  BY <2>1 DEF Shows, Has, Carried
<1>5. layer' = layer \/ layer' = Added(bins.adds) \/ layer' = Updated(bins.updates)
  BY DEF send, Requested, Kinds
<1> QED  BY <1>2, <1>3, <1>4, <1>5

(* Every step but the reading of a page. *)
LEMMA WorkStep ==
  ASSUME StateInv, [Next]_vars, \A l \in Chains : ~queryAndSend(l), NEW o \in Observations
  PROVE  /\ Keeps(o) /\ Shows(o) /\ doc[o].ver <= doc'[o].ver
         /\ again \cap doubtful \subseteq again' \cap doubtful'
<1> USE DEF Work
<1>1. doc[o].ver \in Nat /\ now \in Nat /\ doc[o].ver <= now
  BY Values DEF StateInv, TypeOK, ClockInv
<1>2. Still => Keeps(o)
  BY FewerCarried DEF Still
<1>3. ASSUME NEW x \in Observations, NEW archived \in BOOLEAN, NEW early \in BOOLEAN, Save(x, archived, early)
      PROVE  /\ Keeps(o) /\ Shows(o) /\ doc[o].ver <= doc'[o].ver
             /\ again \cap doubtful \subseteq again' \cap doubtful'
  <2>1. /\ doc' = [doc EXCEPT ![x] = [ver |-> now + 1, archived |-> archived, early |-> early]]
        /\ UNCHANGED <<layer, batch, pending, loop, again>> /\ doubtful \subseteq doubtful'
    BY <1>3 DEF Save, work
  <2>2. doc'[o].ver \in {now + 1, doc[o].ver}
    BY <2>1 DEF StateInv, TypeOK
  <2>3. Still
    BY <2>1, SameWork
  <2> QED  BY <1>1, <1>2, <2>1, <2>2, <2>3, SameLayer
<1>4. ASSUME NEW changed \in BOOLEAN, putConfig(changed)
      PROVE  /\ Keeps(o) /\ Shows(o) /\ doc[o].ver <= doc'[o].ver
             /\ again \cap doubtful \subseteq again' \cap doubtful'
  <2>1. UNCHANGED <<doc, layer, again, doubtful>>
    BY <1>4 DEF putConfig, outside, history
  <2> QED  BY <1>1, <1>2, <1>4, <2>1, ConfigFlow, SameLayer
<1>5. ASSUME NEW l \in Chains, updateConfig(l) \/ LayersFail(l) \/ NoLayers(l)
      PROVE  /\ Keeps(o) /\ Shows(o) /\ doc[o].ver <= doc'[o].ver
             /\ again \cap doubtful \subseteq again' \cap doubtful'
  <2>0. PICK cycle : Starts(l, cycle)
    BY <1>5, ConfigRead
  <2>1. UNCHANGED <<doc, layer, again>> /\ doubtful \subseteq doubtful'
    BY <2>0 DEF Starts
  <2> QED  BY <1>1, <1>2, <2>0, <2>1, UpdateConfigFlow, SameLayer
<1>6. ASSUME NEW l \in Chains, EndCycle(l)
      PROVE  /\ Keeps(o) /\ Shows(o) /\ doc[o].ver <= doc'[o].ver
             /\ again \cap doubtful \subseteq again' \cap doubtful'
  <2>1. UNCHANGED <<doc, layer, again>> /\ doubtful \cap Observations \subseteq doubtful'
    BY <1>6 DEF EndCycle, Armed, outside
  <2>2. doubtful \subseteq Observations
    BY DEF StateInv, TypeOK
  <2> QED  BY <1>1, <1>2, <1>6, <2>1, <2>2, EndCycleFlow, SameLayer
<1>7. ASSUME NEW l \in Chains, processPendingUpdates(l)
      PROVE  /\ Keeps(o) /\ Shows(o) /\ doc[o].ver <= doc'[o].ver
             /\ again \cap doubtful \subseteq again' \cap doubtful'
  <2>1. UNCHANGED <<doc, layer, again, doubtful>>
    BY <1>7 DEF processPendingUpdates, outside, history
  <2>2. Work' \subseteq Work
    BY <1>7, PendingFlow
  <2> QED  BY <1>1, <2>1, <2>2, FewerCarried, SameLayer
<1>8. ASSUME NEW l \in Chains, NEW kind \in Kinds, SendPending(l, kind)
      PROVE  /\ Keeps(o) /\ Shows(o) /\ doc[o].ver <= doc'[o].ver
             /\ again \cap doubtful \subseteq again' \cap doubtful'
  <2>1. UNCHANGED <<doc, again>> /\ send(loop[l].bins, kind) /\ loop[l].bins \in Bins
    BY <1>8 DEF SendPending, outside, StateInv, TypeOK, Cycle
  <2>2. Work' \subseteq Work /\ ToSet(loop[l].bins.adds) \subseteq Work /\ ToSet(loop[l].bins.updates) \subseteq Work
    BY <1>8, SendPendingFlow
  <2>3. doubtful \subseteq doubtful'
    BY <2>1 DEF send, Requested
  <2>4. Shows(o)
    BY <2>1, <2>2, SendShows
  <2> QED  BY <1>1, <2>1, <2>2, <2>3, <2>4, FewerCarried
<1>9. ASSUME NEW b \in DOMAIN batch, processArcObjects(b)
      PROVE  /\ Keeps(o) /\ Shows(o) /\ doc[o].ver <= doc'[o].ver
             /\ again \cap doubtful \subseteq again' \cap doubtful'
  <2>1. UNCHANGED <<doc, layer>>
    BY <1>9 DEF processArcObjects, outside
  <2>2. Work' \subseteq Work /\ again \subseteq again' /\ doubtful \subseteq doubtful'
    BY <1>9, SortFlow
  <2> QED  BY <1>1, <2>1, <2>2, FewerCarried, SameLayer
<1>10. ASSUME NEW b \in DOMAIN batch, NEW kind \in Kinds, SendBatch(b, kind)
       PROVE  /\ Keeps(o) /\ Shows(o) /\ doc[o].ver <= doc'[o].ver
              /\ again \cap doubtful \subseteq again' \cap doubtful'
  <2>1. UNCHANGED <<doc, again>> /\ send(batch[b].bins, kind) /\ batch[b].bins \in Bins
    BY <1>10, BatchType DEF SendBatch, outside
  <2>2. Work' \subseteq Work /\ ToSet(batch[b].bins.adds) \subseteq Work /\ ToSet(batch[b].bins.updates) \subseteq Work
    BY <1>10, SendBatchFlow
  <2>3. doubtful \subseteq doubtful'
    BY <2>1 DEF send, Requested
  <2>4. Shows(o)
    BY <2>1, <2>2, SendShows
  <2> QED  BY <1>1, <2>1, <2>2, <2>3, <2>4, FewerCarried
<1>11. ASSUME NEW b \in DOMAIN batch, NEW d \in Observations, sendDelete(b, d)
       PROVE  /\ Keeps(o) /\ Shows(o) /\ doc[o].ver <= doc'[o].ver
              /\ again \cap doubtful \subseteq again' \cap doubtful'
  <2>1. UNCHANGED <<doc, again>> /\ Requested({d}, Deleted(d))
    BY <1>11 DEF sendDelete, outside
  <2>2. Work' \subseteq Work
    BY <1>11, DeleteFlow
  <2>3. doubtful \subseteq doubtful' /\ (layer' = layer \/ layer' = Deleted(d))
    BY <2>1 DEF Requested
  <2>4. Shows(o)
    <3>1. CASE layer' = layer
      BY <3>1, SameLayer
    <3>2. CASE layer' = Deleted(d)
      <4>1. layer \in [Observations -> Seq(Times)]
        BY DEF StateInv, TypeOK
      <4>2. /\ DOMAIN layer[o] = DOMAIN layer'[o]
            /\ layer'[o] = layer[o] \/ Shown(layer'[o]) = {}
        BY <3>2, <4>1, DeletedVersions
      <4> QED  BY <4>2 DEF Shows, Shown, Features
    <3> QED  BY <2>3, <3>1, <3>2
  <2> QED  BY <1>1, <2>1, <2>2, <2>3, <2>4, FewerCarried
<1>12. ASSUME NEW b \in DOMAIN batch, NEW i \in batch[b].asked, queryObservation(b, i)
       PROVE  /\ Keeps(o) /\ Shows(o) /\ doc[o].ver <= doc'[o].ver
              /\ again \cap doubtful \subseteq again' \cap doubtful'
  <2>1. UNCHANGED <<doc, layer, again, doubtful>>
    BY <1>12 DEF queryObservation, outside, history
  <2>2. /\ ToSort' = ToSort /\ ToAdd' = ToAdd /\ ToAsk' \subseteq ToAsk /\ i \in ToAsk
        /\ Missing' \subseteq Missing \cup {i} /\ ToUpdate' \subseteq ToUpdate \cup {Update(i)}
    BY <1>12, QueryFlow
  <2>3. Update(i).obs = i.obs /\ Update(i).ver = i.ver
    BY DEF Update
  <2>4. \A j \in Work' : \E k \in Work : k.obs = j.obs /\ k.ver = j.ver
    BY <2>2, <2>3
  <2> QED  BY <1>1, <2>1, <2>4, FewerCarried, SameLayer
<1>13. ASSUME NEW b \in DOMAIN batch, NEW i \in batch[b].asked, QueryFails(b, i)
       PROVE  /\ Keeps(o) /\ Shows(o) /\ doc[o].ver <= doc'[o].ver
              /\ again \cap doubtful \subseteq again' \cap doubtful'
  <2>1. UNCHANGED <<doc, layer, again>> /\ doubtful \subseteq doubtful'
    BY <1>13 DEF QueryFails, outside
  <2>2. Work' \subseteq Work
    BY <1>13, FailFlow
  <2> QED  BY <1>1, <2>1, <2>2, FewerCarried, SameLayer
<1>14. CASE Crash
  <2>1. UNCHANGED <<doc, layer, again, doubtful>>
    BY <1>14 DEF Crash, outside, history
  <2>2. Work' = {}
    BY <1>14, CrashFlow
  <2> QED  BY <1>1, <2>1, <2>2, FewerCarried, SameLayer
<1>15. CASE UNCHANGED vars
  <2>1. UNCHANGED <<doc, layer, batch, pending, loop, again, doubtful>>
    BY <1>15 DEF vars, outside, work, history
  <2>2. Still
    BY <2>1, SameWork
  <2> QED  BY <1>1, <1>2, <2>1, <2>2, SameLayer
<1> QED  BY <1>3, <1>4, <1>5, <1>6, <1>7, <1>8, <1>9, <1>10, <1>11, <1>12, <1>13, <1>14, <1>15
         DEF Next, CycleStep, BatchStep

(* A page is read with the stored versions.                                *)
LEMMA PageVersion ==
  ASSUME StateInv, StateInv', NEW l \in Chains, queryAndSend(l), NEW o \in Observations, VersionInv(o)
  PROVE  VersionInv(o)'
<1>0. PICK items, next, left : ReadsPage(l, items, next, left)
  BY PageFlow
<1>1. /\ \A i \in ToSet(items) : i.ver = doc[i.obs].ver
      /\ again' = again \cup (Of(items) \cap InFlight)
      /\ doubtful' = IF loop[l].proc = proc
                     THEN (doubtful \ ToSet(PageOf(l))) \cup (ToSet(PageOf(l)) \cap InFlight)
                     ELSE doubtful \cup ToSet(PageOf(l))
      /\ UNCHANGED <<doc, layer>>
  BY <1>0 DEF ReadsPage
<1>1a. Of(items) \subseteq ToSet(PageOf(l))
  BY <1>0 DEF ReadsPage
<1>2. /\ UNCHANGED <<ToAdd, ToAsk, ToDelete, Missing, ToUpdate>>
      /\ ToSort' = ToSort \cup ToSet(items)
  BY <1>0, PageWork
<1>3. Of(items) = Names(ToSet(items))
  BY ListSet
<1>4. \A v \in Times : Carried(o, v)' => Carried(o, v) \/ (o \in Of(items) /\ v = doc[o].ver)
  BY <1>1, <1>2, <1>3 DEF Carried, Work, Names
<1>5. Shows(o) /\ doc'[o] = doc[o] /\ doc[o].ver \in Times
  BY <1>1, SameLayer DEF StateInv, TypeOK
<1>6. CASE o \notin ToSet(PageOf(l)) \/ (o \in InFlight /\ o \notin Of(items))
  <2>1. Keeps(o)
    BY <1>1a, <1>4, <1>6 DEF Keeps
  <2>2. o \in again \cap doubtful => o \in again' \cap doubtful'
    BY <1>1, <1>6
  <2>3. doc[o].ver <= doc'[o].ver
    <3>1. \A v \in Nat : v <= v
      OBVIOUS
    <3> QED  BY <1>5, <3>1, Values
  <2> QED  BY <1>5, <2>1, <2>2, <2>3, VersionKept
<1>7. CASE o \in Of(items) \/ (o \in ToSet(PageOf(l)) /\ o \notin InFlight)
  <2>1. NotAhead(o)
    BY DEF VersionInv
  <2>2. /\ doc[o].ver \in Nat /\ 0 < doc[o].ver /\ Features(o)' = Features(o)
        /\ \A f \in Features(o)' : layer'[o][f] <= doc[o].ver
    BY <1>1, <1>5, <2>1, Values DEF NotAhead, Features
  <2>3. NotAhead(o)'
    BY <1>4, <1>5, <2>1, <2>2 DEF NotAhead
  <2>4. CASE o \in InFlight
    BY <1>1, <1>1a, <1>7, <2>3, <2>4 DEF VersionInv
  <2>5. CASE o \notin InFlight
    <3>1. \A v \in Times : ~Carried(o, v)
      BY <2>5, WorkInFlight DEF Carried, Names
    <3>2. OneVersion(o)'
      BY <1>4, <2>2, <3>1 DEF OneVersion
    <3> QED  BY <2>3, <3>2 DEF VersionInv
  <2> QED  BY <2>4, <2>5
<1> QED  BY <1>6, <1>7

LEMMA InitWork ==
  ASSUME Init
  PROVE  ToSort = {} /\ ToAdd = {} /\ ToAsk = {} /\ ToDelete = {} /\ Missing = {} /\ ToUpdate = {}
<1>1. /\ batch = <<>> /\ \A p \in Processors : pending[p] = NoBins
      /\ \A l \in Chains : loop[l].bins = NoBins
  BY DEF Init, NoCycle
<1>2. DOMAIN batch = {} /\ ToSet(NoBins.adds) = {} /\ ToSet(NoBins.updates) = {}
  BY <1>1, ListSet
<1>3. ToSort = {} /\ ToAdd = {} /\ ToAsk = {} /\ ToDelete = {}
  BY <1>2 DEF ToSort, ToAdd, ToAsk, ToDelete
<1>4. Missing = {} /\ ToUpdate = {}
  BY <1>1, <1>2 DEF Missing, ToUpdate
<1> QED  BY <1>3, <1>4

LEMMA InitVersion ==
  ASSUME Init, NEW o \in Observations
  PROVE  VersionInv(o)
<1>1. \A v : ~Carried(o, v)
  BY InitWork DEF Carried, Work
<1>2. doc[o].ver = o /\ 0 < o /\ Features(o) = {}
  BY ArcGISAssumption DEF Init, Observations, Features
<1> QED  BY <1>1, <1>2 DEF VersionInv, NotAhead, OneVersion

VersionsInv == StateInv /\ \A o \in Observations : VersionInv(o)

LEMMA VersionStep == VersionsInv /\ [Next]_vars => VersionsInv'
<1> SUFFICES ASSUME VersionsInv, [Next]_vars PROVE VersionsInv'
  OBVIOUS
<1>1. StateInv /\ StateInv'
  BY StateStep DEF VersionsInv
<1>2. ASSUME NEW o \in Observations PROVE VersionInv(o)'
  <2>1. VersionInv(o)
    BY DEF VersionsInv
  <2>2. CASE \E l \in Chains : queryAndSend(l)
    BY <1>1, <2>1, <2>2, PageVersion
  <2>3. CASE \A l \in Chains : ~queryAndSend(l)
    <3>1. /\ Keeps(o) /\ Shows(o) /\ doc[o].ver <= doc'[o].ver
          /\ again \cap doubtful \subseteq again' \cap doubtful'
      BY <1>1, <2>3, WorkStep
    <3> QED  BY <1>1, <2>1, <3>1, VersionKept
  <2> QED  BY <2>2, <2>3
<1> QED  BY <1>1, <1>2 DEF VersionsInv

(* Of all that is on its way no version is newer than the stored one, and  *)
(* unless the observation was read while one was on its way, and not read  *)
(* cleanly since, there is one version at a time, no older than what the   *)
(* layer shows (queryAndSend, queryObservation).                           *)
THEOREM VersionsCorrect == Spec => []VersionsInv
<1>1. Init => VersionsInv
  BY InitState, InitVersion DEF VersionsInv
<1> QED  BY <1>1, VersionStep, PTL DEF Spec

(* A feature never goes back to an earlier version of its observation,     *)
(* whatever overlaps, fails or restarts, unless the observation was read   *)
(* while a version was on its way: updates are sent without waiting for    *)
(* the answers of earlier ones (send, processArcObjects).                  *)
THEOREM LayerNeverRegressesCorrect == Spec => LayerNeverRegresses
<1> DEFINE Forward == \A o \in Observations \ (again \cap doubtful) : \A f \in Features(o) :
                         layer'[o][f] # 0 => layer[o][f] <= layer'[o][f]
<1>1. VersionsInv /\ VersionsInv' /\ [Next]_vars => Forward
  <2> SUFFICES ASSUME VersionsInv, VersionsInv', [Next]_vars,
                      NEW o \in Observations \ (again \cap doubtful), NEW f \in Features(o),
                      layer'[o][f] # 0
               PROVE  layer[o][f] <= layer'[o][f]
    OBVIOUS
  <2>1. StateInv /\ StateInv' /\ OneVersion(o)
    BY DEF VersionsInv, VersionInv
  <2>2. layer[o] \in Seq(Times) /\ layer'[o] \in Seq(Times) /\ f \in DOMAIN layer[o]
    BY <2>1 DEF StateInv, TypeOK, Features
  <2>3. Shows(o)
    <3>1. CASE \E l \in Chains : queryAndSend(l)
      BY <3>1, SameLayer DEF queryAndSend
    <3>2. CASE \A l \in Chains : ~queryAndSend(l)
      BY <2>1, <3>2, WorkStep
    <3> QED  BY <3>1, <3>2
  <2>4. f \in Shown(layer'[o])
    BY <2>2, <2>3 DEF Shows, Shown
  <2>5. layer[o][f] \in Times /\ layer'[o][f] \in Times
    BY <2>2, <2>4 DEF Shown
  <2>6. CASE layer'[o][f] = layer[o][f]
    <3>1. \A v \in Nat : v <= v
      OBVIOUS
    <3> QED  BY <2>5, <2>6, <3>1, Values
  <2>7. CASE Carried(o, layer'[o][f])
    BY <2>1, <2>5, <2>7 DEF OneVersion
  <2> QED  BY <2>3, <2>4, <2>6, <2>7 DEF Shows
<1>2. Forward => [Forward]_vars
  OBVIOUS
<1> QED  BY <1>1, VersionStep, VersionsCorrect, PTL DEF Spec, LayerNeverRegresses

-----------------------------------------------------------------------------
(***************************************************************************)
(* What the processors have read.                                          *)
(***************************************************************************)
CycleRead(cycle, clock) ==
    /\ cycle.next <= clock + 1
    /\ cycle.at = "page" => cycle.page = 0 \/ cycle.left > 0

LEMMA CycleReads ==
  ASSUME StateInv
  PROVE  /\ \A at \in {"none", "armed", "config", "query"} :
               CycleRead(NoCycle(at), now) /\ CycleRead([NoCycle(at) EXCEPT !.proc = config], now)
         /\ CycleRead(FirstPage, now)
         /\ \A l \in Chains, cycle \in Cycle :
               ReadInv /\ cycle.at # "page" /\ cycle.next = loop[l].next => CycleRead(cycle, now)
<1>1. now \in Nat
  BY Values DEF StateInv, TypeOK
<1> QED  BY <1>1 DEF CycleRead, NoCycle, FirstPage, ReadInv

LEMMA CyclesRead ==
  ASSUME StateInv, ReadInv, now' = now, NEW l \in Chains, NEW cycle, Goes(l, cycle), CycleRead(cycle, now)
  PROVE  \A k \in Chains : CycleRead(loop'[k], now')
<1>1. \A k \in Chains : loop'[k] = IF k = l THEN cycle ELSE loop[k]
  BY DEF Goes, StateInv, TypeOK
<1>2. \A k \in Chains : CycleRead(loop[k], now)
  BY DEF ReadInv, CycleRead
<1> QED  BY <1>1, <1>2

LEMMA ReadKept ==
  ASSUME ReadInv, UNCHANGED <<now, proc, config, time>>, \A k \in Chains : CycleRead(loop'[k], now')
  PROVE  ReadInv'
<1>1. proc' <= config' /\ \A p \in Processors : time'[p] <= now' + 1 /\ (p > proc' => time'[p] = 0)
  BY DEF ReadInv
<1>2. \A l \in Chains :
        /\ loop'[l].next <= now' + 1
        /\ loop'[l].at = "page" => loop'[l].page = 0 \/ loop'[l].left > 0
  BY DEF CycleRead
<1> QED  BY <1>1, <1>2 DEF ReadInv

LEMMA CycleReadStep ==
  ASSUME StateInv, ReadInv, NEW l \in Chains, CycleStep(l) \/ LayersFail(l)
  PROVE  ReadInv'
<1>1. /\ proc \in Processors /\ config \in Processors /\ now \in Nat /\ loop[l] \in Cycle
      /\ time \in [Processors -> Times] /\ loop[l].next \in Nat
  BY Values DEF StateInv, TypeOK, Cycle
<1>2. CASE updateConfig(l) \/ LayersFail(l) \/ NoLayers(l)
  <2>0. PICK cycle : Starts(l, cycle)
    BY <1>2, ConfigRead
  <2>1. /\ Goes(l, cycle) /\ cycle \in {[NoCycle("query") EXCEPT !.proc = config], NoCycle("armed")}
        /\ proc' = config /\ UNCHANGED <<now, config, time>>
    BY <2>0 DEF Starts
  <2>2. \A k \in Chains : CycleRead(loop'[k], now')
    BY <2>1, CycleReads, CyclesRead
  <2>3. \A p \in Processors : p > config => p > proc
    BY <1>1 DEF ReadInv, Processors
  <2>4. proc' <= config' /\ \A p \in Processors : time'[p] <= now' + 1 /\ (p > proc' => time'[p] = 0)
    <3>1. \A n \in Nat : n <= n
      OBVIOUS
    <3> QED  BY <1>1, <2>1, <2>3, <3>1, ArcGISAssumption DEF ReadInv, Processors
  <2> QED  BY <2>2, <2>4 DEF ReadInv, CycleRead
<1>3. CASE processPendingUpdates(l)
  <2>1. UNCHANGED <<now, proc, config, time>> /\ loop[l].at = "query"
    BY <1>3 DEF processPendingUpdates, outside, setup
  <2>2. PICK bins : Goes(l, IF bins = NoBins THEN FirstPage ELSE [loop[l] EXCEPT !.at = "send", !.bins = bins])
    BY <1>3 DEF processPendingUpdates
  <2>3. CycleRead([loop[l] EXCEPT !.at = "send", !.bins = bins], now)
    BY <1>1 DEF ReadInv, CycleRead, Cycle
  <2>4. \A k \in Chains : CycleRead(loop'[k], now')
    <3>1. CASE Goes(l, FirstPage)
      BY <2>1, <3>1, CycleReads, CyclesRead
    <3>2. CASE Goes(l, [loop[l] EXCEPT !.at = "send", !.bins = bins])
      BY <2>1, <2>3, <3>2, CyclesRead
    <3> QED  BY <2>2, <3>1, <3>2
  <2> QED  BY <2>1, <2>4, ReadKept
<1>4. CASE queryAndSend(l)
  <2>1. PICK items, next, left : ReadsPage(l, items, next, left)
    BY <1>4, PageFlow
  <2>2. /\ Goes(l, next) /\ next.next = loop[l].next /\ (next.at = "page" => next.left > 0)
        /\ UNCHANGED <<now, proc, config, time>>
    BY <2>1 DEF ReadsPage, Cycle
  <2>3. CycleRead(next, now)
    BY <2>2 DEF ReadInv, CycleRead
  <2> QED  BY <2>2, <2>3, CyclesRead, ReadKept
<1>5. CASE EndCycle(l)
  <2>1. /\ Goes(l, NoCycle("armed"))
        /\ time' = (IF link = "made" THEN [time EXCEPT ![proc] = loop[l].next] ELSE time)
        /\ UNCHANGED <<now, proc, config>>
    BY <1>5 DEF EndCycle, Armed, outside
  <2>2. \A k \in Chains : CycleRead(loop'[k], now')
    BY <2>1, CycleReads, CyclesRead
  <2>3. \A p \in Processors : time'[p] <= now' + 1 /\ (p > proc' => time'[p] = 0)
    <3> TAKE p \in Processors
    <3>1. CASE p = proc
      BY <1>1, <2>1, <3>1, ArcGISAssumption DEF ReadInv, Processors
    <3>2. CASE p # proc
      BY <1>1, <2>1, <3>2 DEF ReadInv
    <3> QED  BY <3>1, <3>2
  <2> QED  BY <2>1, <2>2, <2>3 DEF ReadInv, CycleRead
<1>6. ASSUME NEW kind \in Kinds, SendPending(l, kind) PROVE ReadInv'
  <2>1. UNCHANGED <<now, proc, config, time>> /\ loop[l].at = "send"
    BY <1>6 DEF SendPending, outside, setup
  <2>2. PICK rest : Goes(l, IF rest = NoBins THEN FirstPage ELSE [loop[l] EXCEPT !.bins = rest])
    BY <1>6 DEF SendPending
  <2>3. CycleRead([loop[l] EXCEPT !.bins = rest], now)
    BY <1>1, <2>1 DEF ReadInv, CycleRead, Cycle
  <2>4. \A k \in Chains : CycleRead(loop'[k], now')
    <3>1. CASE Goes(l, FirstPage)
      BY <2>1, <3>1, CycleReads, CyclesRead
    <3>2. CASE Goes(l, [loop[l] EXCEPT !.bins = rest])
      BY <2>1, <2>3, <3>2, CyclesRead
    <3> QED  BY <2>2, <3>1, <3>2
  <2> QED  BY <2>1, <2>4, ReadKept
<1> QED  BY <1>2, <1>3, <1>4, <1>5, <1>6 DEF CycleStep

LEMMA ReadStep == StateInv /\ ReadInv /\ [Next]_vars => ReadInv'
<1> SUFFICES ASSUME StateInv, ReadInv, [Next]_vars PROVE ReadInv'
  OBVIOUS
<1>1. /\ proc \in Processors /\ config \in Processors /\ now \in Nat
      /\ time \in [Processors -> Times] /\ \A l \in Chains : loop[l].next \in Nat
  BY Values DEF StateInv, TypeOK, Cycle
<1>2. ASSUME NEW o \in Observations, NEW archived \in BOOLEAN, NEW early \in BOOLEAN, Save(o, archived, early) PROVE ReadInv'
  <2>1. now' = now + 1 /\ UNCHANGED <<config, proc, time, loop>>
    BY <1>2 DEF Save, setup, work
  <2>2. \A n, m \in Nat : n <= m + 1 => n <= m + 1 + 1
    OBVIOUS
  <2>3. \A p \in Processors : time[p] \in Nat
    BY <1>1, Values
  <2> QED  BY <1>1, <2>1, <2>2, <2>3 DEF ReadInv
<1>3. ASSUME NEW changed \in BOOLEAN, putConfig(changed) PROVE ReadInv'
  <2>1. config' \in {config, config + 1} /\ UNCHANGED <<now, proc, time>>
    BY <1>3 DEF putConfig, outside
  <2>2. \A k \in Chains : CycleRead(loop'[k], now')
    <3> DEFINE stopped == IF loop[timer].at = "armed"
                          THEN [loop EXCEPT ![timer] = NoCycle("none")] ELSE loop
               off  == {l \in Chains : stopped[l].at = "none"}
               next == CHOOSE l \in off : TRUE
    <3>1. loop' = [stopped EXCEPT ![next] = NoCycle("config")]
      BY <1>3 DEF putConfig
    <3>2. loop \in [Chains -> Cycle] /\ \A k \in Chains : CycleRead(loop[k], now)
      BY DEF StateInv, TypeOK, ReadInv, CycleRead
    <3>3. CycleRead(NoCycle("none"), now) /\ CycleRead(NoCycle("config"), now)
      BY CycleReads
    <3>4. DOMAIN stopped = Chains /\ \A k \in Chains : CycleRead(stopped[k], now)
      BY <3>2, <3>3
    <3> HIDE DEF stopped, next
    <3> QED  BY <2>1, <3>1, <3>3, <3>4
  <2>3. proc' <= config'
    BY <1>1, <2>1, ArcGISAssumption DEF ReadInv, Processors
  <2> QED  BY <2>1, <2>2, <2>3 DEF ReadInv, CycleRead
<1>4. ASSUME NEW l \in Chains, CycleStep(l) \/ LayersFail(l) PROVE ReadInv'
  BY <1>4, CycleReadStep
<1>5. ASSUME NEW b \in DOMAIN batch,
             BatchStep(b) \/ \E i \in batch[b].asked : QueryFails(b, i)
      PROVE  ReadInv'
  <2>1. UNCHANGED <<now, proc, config, time, loop>>
    BY <1>5 DEF BatchStep, processArcObjects, SendBatch, sendDelete, queryObservation, QueryFails, outside, setup
  <2> QED  BY <2>1 DEF ReadInv
<1>6. CASE Crash
  <2>1. /\ time' = [p \in Processors |-> 0] /\ UNCHANGED <<now, proc, config>>
        /\ loop' = [l \in Chains |-> NoCycle(IF l = 1 THEN "config" ELSE "none")]
    BY <1>6 DEF Crash, outside
  <2>2. \A l \in Chains : CycleRead(loop'[l], now')
    BY <2>1, CycleReads
  <2> QED  BY <1>1, <2>1, <2>2 DEF ReadInv, CycleRead
<1>7. CASE UNCHANGED vars
  <2>1. UNCHANGED <<now, proc, config, time, loop>>
    BY <1>7 DEF vars, outside, setup, work
  <2> QED  BY <2>1 DEF ReadInv
<1> QED  BY <1>2, <1>3, <1>4, <1>5, <1>6, <1>7 DEF Next

LEMMA InitRead == Init => ReadInv
<1> SUFFICES ASSUME Init PROVE ReadInv
  OBVIOUS
<1>1. /\ now = LastId /\ config = 1 /\ proc = 1 /\ time = [p \in Processors |-> 0]
      /\ \A l \in Chains : loop[l].next = 0 /\ loop[l].page = 0
  BY DEF Init, NoCycle
<1> QED  BY <1>1, ArcGISAssumption DEF ReadInv

(* Where there is a processor, and for which one a cycle is under way.     *)
UnderWay(cycle) == cycle.at \in {"query", "send", "page", "end"}

(* A cycle that goes on does so with the same processor, or the one now.   *)
LEMMA LinkKept ==
  ASSUME StateInv, LinkInv, NEW l \in Chains, NEW cycle, Goes(l, cycle), UNCHANGED <<proc, link>>,
         UnderWay(cycle) => UnderWay(loop[l]) /\ cycle.proc \in {proc, loop[l].proc},
         link # "made" => UNCHANGED time
  PROVE  LinkInv'
<1>1. \A k \in Chains : loop'[k] = IF k = l THEN cycle ELSE loop[k]
  BY DEF Goes, StateInv, TypeOK
<1>2. proc \in Nat
  BY ArcGISAssumption DEF StateInv, TypeOK, Processors
<1> QED  BY <1>1, <1>2 DEF LinkInv, UnderWay

LEMMA CycleLinkStep ==
  ASSUME StateInv, ReadInv, LinkInv, NEW l \in Chains, CycleStep(l) \/ LayersFail(l)
  PROVE  LinkInv'
<1>0. /\ proc \in Processors /\ config \in Processors /\ loop \in [Chains -> Cycle]
      /\ \A k \in Chains : loop[k].proc \in Processors
  BY DEF StateInv, TypeOK, Cycle
<1>1. CASE updateConfig(l) \/ LayersFail(l) \/ NoLayers(l)
  <2>1. PICK cycle : Starts(l, cycle)
    BY <1>1, ConfigRead
  <2>2. /\ proc' = config /\ Goes(l, cycle) /\ UNCHANGED time
        /\ \/ link' = "made" /\ cycle = [NoCycle("query") EXCEPT !.proc = config]
           \/ link' = "failed" /\ cycle = NoCycle("armed")
        /\ proc # config \/ link = "new" \/ link' = link
    BY <2>1 DEF Starts
  <2>3. proc <= config
    BY DEF ReadInv
  <2>4. link' # "made" => time'[proc'] = 0
    <3>1. CASE proc = config
      BY <2>2, <3>1 DEF LinkInv
    <3>2. CASE proc # config
      BY <1>0, <2>2, <2>3, <3>2, ArcGISAssumption DEF ReadInv, Processors
    <3> QED  BY <3>1, <3>2
  <2>5. ASSUME NEW k \in Chains, loop'[k].at \in {"query", "send", "page", "end"}
        PROVE  link' # "new" /\ loop'[k].proc <= proc'
    <3>1. CASE k = l
      BY <1>0, <2>2, <2>5, <3>1, ArcGISAssumption DEF Goes, NoCycle, Processors
    <3>2. CASE k # l
      <4>1. loop'[k] = loop[k]
        BY <1>0, <2>2, <3>2 DEF Goes
      <4>2. loop[k].proc <= proc
        BY <2>5, <4>1 DEF LinkInv
      <4> QED  BY <1>0, <2>2, <2>3, <4>1, <4>2, ArcGISAssumption DEF Processors
    <3> QED  BY <3>1, <3>2
  <2> QED  BY <2>4, <2>5 DEF LinkInv
<1>2. CASE processPendingUpdates(l)
  <2>1. UNCHANGED <<proc, link, time>> /\ UnderWay(loop[l])
    BY <1>2 DEF processPendingUpdates, setup, UnderWay
  <2>2. PICK bins : Goes(l, IF bins = NoBins THEN FirstPage ELSE [loop[l] EXCEPT !.at = "send", !.bins = bins])
    BY <1>2 DEF processPendingUpdates
  <2>3. FirstPage.proc = proc /\ [loop[l] EXCEPT !.at = "send", !.bins = bins].proc = loop[l].proc
    BY <1>0 DEF FirstPage, NoCycle, Cycle
  <2> QED  BY <2>1, <2>2, <2>3, LinkKept
<1>3. ASSUME NEW kind \in Kinds, SendPending(l, kind) PROVE LinkInv'
  <2>1. UNCHANGED <<proc, link, time>> /\ UnderWay(loop[l])
    BY <1>3 DEF SendPending, setup, UnderWay
  <2>2. PICK rest : Goes(l, IF rest = NoBins THEN FirstPage ELSE [loop[l] EXCEPT !.bins = rest])
    BY <1>3 DEF SendPending
  <2>3. FirstPage.proc = proc /\ [loop[l] EXCEPT !.bins = rest].proc = loop[l].proc
    BY <1>0 DEF FirstPage, NoCycle, Cycle
  <2> QED  BY <2>1, <2>2, <2>3, LinkKept
<1>4. CASE queryAndSend(l)
  <2>1. PICK items, next, left : ReadsPage(l, items, next, left)
    BY <1>4, PageFlow
  <2>2. /\ Goes(l, next) /\ next.proc = loop[l].proc /\ UnderWay(loop[l])
        /\ UNCHANGED <<proc, link, time>>
    BY <2>1 DEF ReadsPage, Cycle, UnderWay
  <2> QED  BY <2>2, LinkKept
<1>5. CASE EndCycle(l)
  <2>1. /\ Goes(l, NoCycle("armed")) /\ UNCHANGED <<proc, link>>
        /\ link # "made" => UNCHANGED time
    BY <1>5 DEF EndCycle, Armed
  <2>2. ~UnderWay(NoCycle("armed"))
    BY DEF UnderWay, NoCycle
  <2> QED  BY <2>1, <2>2, LinkKept
<1> QED  BY <1>1, <1>2, <1>3, <1>4, <1>5 DEF CycleStep

LEMMA LinkStep == StateInv /\ ReadInv /\ LinkInv /\ [Next]_vars => LinkInv'
<1> SUFFICES ASSUME StateInv, ReadInv, LinkInv, [Next]_vars PROVE LinkInv'
  OBVIOUS
<1>1. UNCHANGED <<proc, link, time, loop>> => LinkInv'
  BY DEF LinkInv
<1>2. ASSUME NEW o \in Observations, NEW archived \in BOOLEAN, NEW early \in BOOLEAN, Save(o, archived, early)
      PROVE  LinkInv'
  BY <1>1, <1>2 DEF Save, setup, work
<1>3. ASSUME NEW changed \in BOOLEAN, putConfig(changed) PROVE LinkInv'
  <2>1. UNCHANGED <<proc, link, time>>
    BY <1>3 DEF putConfig
  <2>2. \A l \in Chains : loop'[l] = loop[l] \/ loop'[l].at \in {"none", "config"}
    BY <1>3, ConfigFlow
  <2> QED  BY <2>1, <2>2 DEF LinkInv
<1>4. ASSUME NEW l \in Chains, CycleStep(l) \/ LayersFail(l) PROVE LinkInv'
  BY <1>4, CycleLinkStep
<1>5. ASSUME NEW b \in DOMAIN batch,
             BatchStep(b) \/ \E i \in batch[b].asked : QueryFails(b, i)
      PROVE  LinkInv'
  BY <1>1, <1>5 DEF BatchStep, processArcObjects, SendBatch, sendDelete, queryObservation, QueryFails, setup
<1>6. CASE Crash
  <2>1. /\ time' = [p \in Processors |-> 0] /\ UNCHANGED proc /\ proc \in Processors
        /\ \A l \in Chains : loop'[l].at \in {"none", "config"}
    BY <1>6 DEF Crash, NoCycle, StateInv, TypeOK
  <2> QED  BY <2>1 DEF LinkInv
<1>7. CASE UNCHANGED vars
  BY <1>1, <1>7 DEF vars, setup, work
<1> QED  BY <1>2, <1>3, <1>4, <1>5, <1>6, <1>7 DEF Next

LEMMA InitLink == Init => LinkInv
<1> SUFFICES ASSUME Init PROVE LinkInv
  OBVIOUS
<1>1. /\ proc = 1 /\ time = [p \in Processors |-> 0] /\ 1 \in Processors
      /\ \A l \in Chains : loop[l].at \in {"config", "none"}
  BY ArcGISAssumption DEF Init, NoCycle, Processors
<1>2. time[proc] = 0
  BY <1>1
<1> QED  BY <1>1, <1>2 DEF LinkInv

-----------------------------------------------------------------------------
(***************************************************************************)
(* An observation that was last read cleanly is handled in one way.        *)
(***************************************************************************)
OneReading(o) ==
    \A b, c \in DOMAIN batch : o \in Of(batch[b].items) \cap Of(batch[c].items) => b = c

(* Features are lost by a deletion, and no other way.                      *)
LEMMA SendStays ==
  ASSUME StateInv, NEW o \in Observations, VersionInv(o), NEW bins \in Bins, NEW kind \in Kinds,
         send(bins, kind), ToSet(bins.updates) \subseteq Work
  PROVE  Features(o) \subseteq Features(o)'
<1>1. layer \in [Observations -> Seq(Times)] /\ bins.adds \in Seq(Item) /\ bins.updates \in Seq(Change)
  BY DEF StateInv, TypeOK, Bins
<1>2. Features(o)' = Shown(layer'[o])
  BY DEF Features, Shown
<1>3. CASE layer' = layer
  BY <1>3 DEF Features
<1>4. CASE layer' = Added(bins.adds)
  BY <1>1, <1>2, <1>4, AddedVersions
<1>5. CASE layer' = Updated(bins.updates)
  <2>1. /\ DOMAIN layer[o] = DOMAIN layer'[o]
        /\ \A f \in Features(o) :
              layer'[o][f] = layer[o][f] \/ Has(bins.updates, o, layer'[o][f])
    BY <1>1, <1>5, UpdatedVersions
  <2>2. ASSUME NEW f \in Features(o), Has(bins.updates, o, layer'[o][f]) PROVE layer'[o][f] # 0
    <3>1. Carried(o, layer'[o][f])
      BY <2>2 DEF Has, Carried
    <3>2. layer'[o][f] \in Times
      BY <3>1, WorkType DEF Carried
    <3> QED  BY <3>1, <3>2, Values DEF VersionInv, NotAhead
  <2> QED  BY <2>1, <2>2 DEF Features
<1>6. layer' = layer \/ layer' = Added(bins.adds) \/ layer' = Updated(bins.updates)
  BY DEF send, Requested, Kinds
<1> QED  BY <1>3, <1>4, <1>5, <1>6

LEMMA FeaturesStay ==
  ASSUME StateInv, [Next]_vars, NEW o \in Observations, VersionInv(o), o \notin ToDelete
  PROVE  Features(o) \subseteq Features(o)'
<1>1. UNCHANGED layer => Features(o)' = Features(o)
  BY DEF Features
<1>2. ASSUME NEW l \in Chains, NEW kind \in Kinds, SendPending(l, kind) PROVE Features(o) \subseteq Features(o)'
  <2>1. send(loop[l].bins, kind) /\ loop[l].bins \in Bins
    BY <1>2 DEF SendPending, StateInv, TypeOK, Cycle
  <2>2. ToSet(loop[l].bins.updates) \subseteq Work
    BY <1>2, SendPendingFlow DEF Work
  <2> QED  BY <2>1, <2>2, SendStays
<1>3. ASSUME NEW b \in DOMAIN batch, NEW kind \in Kinds, SendBatch(b, kind) PROVE Features(o) \subseteq Features(o)'
  <2>1. send(batch[b].bins, kind) /\ batch[b].bins \in Bins
    BY <1>3, BatchType DEF SendBatch
  <2>2. ToSet(batch[b].bins.updates) \subseteq Work
    BY BatchWork DEF Work
  <2> QED  BY <2>1, <2>2, SendStays
<1>4. ASSUME NEW b \in DOMAIN batch, NEW d \in Observations, sendDelete(b, d)
      PROVE  Features(o) \subseteq Features(o)'
  <2>1. Requested({d}, Deleted(d)) /\ o # d
    BY <1>4, DeleteFlow DEF sendDelete
  <2>2. layer \in [Observations -> Seq(Times)]
    BY DEF StateInv, TypeOK
  <2>3. layer'[o] = layer[o]
    BY <2>1, <2>2, DeletedVersions DEF Requested
  <2> QED  BY <2>3 DEF Features
<1>5. ASSUME NEW x \in Observations, NEW archived \in BOOLEAN, NEW early \in BOOLEAN, Save(x, archived, early) PROVE UNCHANGED layer
  BY <1>5 DEF Save
<1>6. ASSUME NEW changed \in BOOLEAN, putConfig(changed) PROVE UNCHANGED layer
  BY <1>6 DEF putConfig
<1>7. ASSUME NEW l \in Chains,
             \/ updateConfig(l) \/ LayersFail(l) \/ NoLayers(l)
             \/ processPendingUpdates(l) \/ queryAndSend(l) \/ EndCycle(l)
      PROVE  UNCHANGED layer
  BY <1>7 DEF updateConfig, Configured, LayersFail, NoLayers, processPendingUpdates, queryAndSend, EndCycle, Armed
<1>8. ASSUME NEW b \in DOMAIN batch,
             processArcObjects(b) \/ \E i \in batch[b].asked : queryObservation(b, i) \/ QueryFails(b, i)
      PROVE  UNCHANGED layer
  BY <1>8 DEF processArcObjects, queryObservation, QueryFails
<1>9. Crash \/ UNCHANGED vars => UNCHANGED layer
  BY DEF Crash, vars
<1> QED  BY <1>1, <1>2, <1>3, <1>4, <1>5, <1>6, <1>7, <1>8, <1>9 DEF Next, CycleStep, BatchStep

LEMMA RestReading ==
  ASSUME StateInv, NEW o, OneReading(o), NEW b \in DOMAIN batch, NEW new, RestOf(new), Rest(b, new),
         new.at = "send"
  PROVE  OneReading(o)'
<1>1. batch \in Seq(Batch) /\ new \in Batch /\ Of(new.items) = {}
  BY Empty DEF StateInv, TypeOK, RestOf
<1>2. PICK was \in [DOMAIN batch' -> DOMAIN batch] :
        /\ \A c, d \in DOMAIN batch' : was[c] = was[d] => c = d
        /\ \A c \in DOMAIN batch' : batch'[c] = IF was[c] = b THEN new ELSE batch[was[c]]
  BY <1>1, RestMoves
<1>3. \A c \in DOMAIN batch' :
        o \in Of(batch'[c].items) => was[c] \in DOMAIN batch /\ o \in Of(batch[was[c]].items)
  BY <1>1, <1>2
<1> QED  BY <1>2, <1>3 DEF OneReading

LEMMA ReadingStep ==
  ASSUME StateInv, [Next]_vars, \A l \in Chains : ~queryAndSend(l), NEW o, OneReading(o)
  PROVE  OneReading(o)'
<1>1. UNCHANGED batch => OneReading(o)'
  BY DEF OneReading
<1>2. ASSUME NEW b \in DOMAIN batch, processArcObjects(b) PROVE OneReading(o)'
  <2>1. PICK old \in SUBSET Observations : Rest(b, SortedInto(b, old))
    BY <1>2 DEF processArcObjects, SortedInto
  <2>2. SortedInto(b, old).at = "send"
    BY DEF SortedInto
  <2> QED  BY <2>1, <2>2, SortedIntoType, RestReading
<1>3. ASSUME NEW b \in DOMAIN batch, NEW kind \in Kinds, SendBatch(b, kind) PROVE OneReading(o)'
  <2> DEFINE new == [batch[b] EXCEPT !.bins[kind] = <<>>]
  <2>1. RestOf(new)
    BY <1>3, SendBatchState
  <2>2. Rest(b, new) /\ batch[b].at = "send" /\ batch[b] \in Batch
    BY <1>3 DEF SendBatch, StateInv, TypeOK
  <2>3. new.at = "send"
    BY <2>2 DEF Batch
  <2> HIDE DEF new
  <2> QED  BY <2>1, <2>2, <2>3, RestReading
<1>4. ASSUME NEW b \in DOMAIN batch, NEW d \in Observations, sendDelete(b, d) PROVE OneReading(o)'
  <2> DEFINE new == [batch[b] EXCEPT !.deletions = @ \ {d}]
  <2>1. Rest(b, new) /\ batch[b].at = "send" /\ batch[b] \in Batch
    BY <1>4 DEF sendDelete, StateInv, TypeOK
  <2>2. new.at = "send" /\ RestOf(new)
    BY <2>1, BatchType DEF Batch, RestOf
  <2> HIDE DEF new
  <2> QED  BY <2>1, <2>2, RestReading
<1>5. ASSUME NEW b \in DOMAIN batch, NEW i \in batch[b].asked, queryObservation(b, i) \/ QueryFails(b, i)
      PROVE  OneReading(o)'
  <2> DEFINE new == [batch[b] EXCEPT !.asked = @ \ {i}]
  <2>0. Rest(b, new)
    BY <1>5 DEF queryObservation, QueryFails
  <2>1. Rest(b, new) /\ batch[b] \in Batch /\ batch[b].at = "send" /\ RestOf(new)
    <3>1. i \in Item /\ RestOf(new)
      BY AskedState
    <3> HIDE DEF new
    <3>2. batch[b] \in Batch
      BY DEF StateInv, TypeOK
    <3>3. batch[b].at = "send"
      BY BatchType
    <3> QED  BY <2>0, <3>1, <3>2, <3>3
  <2>2. new.at = "send"
    BY <2>1 DEF Batch
  <2> HIDE DEF new
  <2> QED  BY <2>1, <2>2, RestReading
<1>6. ASSUME NEW x \in Observations, NEW archived \in BOOLEAN, NEW early \in BOOLEAN, Save(x, archived, early) PROVE UNCHANGED batch
  BY <1>6 DEF Save, work
<1>7. ASSUME NEW changed \in BOOLEAN, putConfig(changed) PROVE UNCHANGED batch
  BY <1>7 DEF putConfig
<1>8. ASSUME NEW l \in Chains, CycleStep(l) \/ LayersFail(l) PROVE UNCHANGED batch
  BY <1>8 DEF CycleStep, updateConfig, Configured, LayersFail, NoLayers, processPendingUpdates, EndCycle, Armed, SendPending
<1>9. CASE Crash
  <2>1. DOMAIN batch' = {}
    BY <1>9 DEF Crash
  <2> QED  BY <2>1 DEF OneReading
<1>10. CASE UNCHANGED vars
  BY <1>1, <1>10 DEF vars, work
<1> QED  BY <1>1, <1>2, <1>3, <1>4, <1>5, <1>6, <1>7, <1>8, <1>9, <1>10 DEF Next, BatchStep

(* The work in hand does not grow.                                         *)
FewerWork ==
    /\ ToSort' \subseteq ToSort /\ ToAdd' \subseteq ToAdd /\ ToAsk' \subseteq ToAsk
    /\ ToDelete' \subseteq ToDelete /\ Missing' \subseteq Missing /\ ToUpdate' \subseteq ToUpdate

LEMMA FewerClean ==
  ASSUME NEW o, CleanInv(o), FewerWork, OneReading(o)',
         o \notin ToDelete => Features(o) \subseteq Features(o)'
  PROVE  CleanInv(o)'
<1>1. \A S, U : S \subseteq U /\ o \in Names(S) => o \in Names(U)
  BY DEF Names
<1>2. /\ o \in Names(ToSort)' => o \in Names(ToSort)
      /\ o \in Names(ToAsk)' => o \in Names(ToAsk)
      /\ o \in Names(Missing)' => o \in Names(Missing)
      /\ o \in Names(ToAdd \cup ToAsk \cup ToUpdate)' => o \in Names(ToAdd \cup ToAsk \cup ToUpdate)
      /\ o \in Names(ToSort \cup ToAdd \cup ToAsk \cup ToUpdate)' =>
            o \in Names(ToSort \cup ToAdd \cup ToAsk \cup ToUpdate)
  BY <1>1 DEF FewerWork, Names
<1>3. o \in ToDelete' => o \in ToDelete
  BY DEF FewerWork
<1>4. ASSUME o \in Names(ToAsk)' PROVE Features(o)' # {}
  <2>1. o \notin ToDelete
    BY <1>2, <1>4 DEF CleanInv, Names
  <2> QED  BY <1>2, <1>4, <2>1 DEF CleanInv
<1>5. ASSUME NEW u \in ToUpdate', u.obs = o PROVE u.id \in Features(o)'
  <2>1. u \in ToUpdate /\ o \in Names(ToUpdate)
    BY <1>5 DEF FewerWork, Names
  <2>2. o \notin ToDelete
    BY <2>1 DEF CleanInv, Names
  <2> QED  BY <1>5, <2>1, <2>2 DEF CleanInv
<1> QED  BY <1>2, <1>3, <1>4, <1>5 DEF CleanInv, OneReading

(* Every step but the three that read, sort and ask. *)
LEMMA FewerStep ==
  ASSUME StateInv, [Next]_vars, \A l \in Chains : ~queryAndSend(l),
         \A b \in DOMAIN batch :
            ~processArcObjects(b) /\ \A i \in batch[b].asked : ~queryObservation(b, i)
  PROVE  FewerWork
<1>1. Still => FewerWork
  BY DEF Still, FewerWork
<1>2. ASSUME NEW x \in Observations, NEW archived \in BOOLEAN, NEW early \in BOOLEAN, Save(x, archived, early) PROVE Still
  <2>1. UNCHANGED <<batch, pending, loop>>
    BY <1>2 DEF Save, work
  <2> QED  BY <2>1, SameWork
<1>3. ASSUME NEW l \in Chains, NEW kind \in Kinds, SendPending(l, kind) PROVE FewerWork
  BY <1>3, SendPendingFlow DEF FewerWork
<1>4. ASSUME NEW l \in Chains, CycleStep(l) \/ LayersFail(l) PROVE FewerWork
  <2>1. processPendingUpdates(l) => FewerWork
    BY PendingFlow DEF FewerWork
  <2>2. EndCycle(l) => FewerWork
    BY <1>1, EndCycleFlow
  <2>3. ASSUME updateConfig(l) \/ LayersFail(l) \/ NoLayers(l) PROVE FewerWork
    <3>1. PICK cycle : Starts(l, cycle)
      BY <2>3, ConfigRead
    <3> QED  BY <1>1, <3>1, UpdateConfigFlow
  <2> QED  BY <1>3, <1>4, <2>1, <2>2, <2>3 DEF CycleStep
<1>5. ASSUME NEW b \in DOMAIN batch, NEW kind \in Kinds, SendBatch(b, kind) PROVE FewerWork
  BY <1>5, SendBatchFlow DEF FewerWork
<1>6. ASSUME NEW b \in DOMAIN batch, NEW d \in Observations, sendDelete(b, d) PROVE FewerWork
  BY <1>6, DeleteFlow DEF FewerWork
<1>7. ASSUME NEW b \in DOMAIN batch, NEW i \in batch[b].asked, QueryFails(b, i) PROVE FewerWork
  BY <1>7, FailFlow DEF FewerWork
<1>8. ASSUME NEW changed \in BOOLEAN, putConfig(changed) PROVE Still
  BY <1>8, ConfigFlow
<1>9. CASE Crash
  BY <1>9, CrashFlow DEF FewerWork
<1>10. CASE UNCHANGED vars
  <2>1. UNCHANGED <<batch, pending, loop>>
    BY <1>10 DEF vars, work
  <2> QED  BY <1>1, <2>1, SameWork
<1> QED  BY <1>1, <1>2, <1>4, <1>5, <1>6, <1>7, <1>8, <1>9, <1>10 DEF Next, BatchStep

(* The items of a batch are nowhere else, ...                              *)
LEMMA SortClean ==
  ASSUME StateInv, NEW b \in DOMAIN batch, processArcObjects(b), NEW o \in Observations,
         CleanInv(o), OneReading(o)', o \notin doubtful'
  PROVE  CleanInv(o)'
<1>1. UNCHANGED layer
  BY DEF processArcObjects
<1>2. PICK old, live \in SUBSET Observations :
        /\ live = {i.obs : i \in {j \in ToSet(batch[b].items) : ~j.archived}}
        /\ \/ old = existingObservationIds /\ UNCHANGED <<again, doubtful>>
           \/ /\ doubtful' = doubtful \cup Of(batch[b].items)
              /\ again' = again \cup Of(batch[b].items)
        /\ ToSet(batch[b].items) \subseteq ToSort
        /\ ToSort' \subseteq ToSort /\ ToSort \subseteq ToSort' \cup ToSet(batch[b].items)
        /\ \A i \in ToSort' : \E d \in DOMAIN batch \ {b} : i \in ToSet(batch[d].items)
        /\ ToAdd' = ToAdd \cup {i \in ToSet(batch[b].items) : i.obs \in live \ old}
        /\ ToAsk' = ToAsk \cup {i \in ToSet(batch[b].items) : i.obs \in live \cap old}
        /\ ToDelete' = ToDelete \cup ((Of(batch[b].items) \ live) \cap old)
        /\ Missing' = Missing /\ ToUpdate' = ToUpdate
  BY SortFlow
<1> DEFINE items == batch[b].items
<1>3. Of(items) = Names(ToSet(items)) /\ Features(o)' = Features(o)
  BY <1>1, ListSet DEF Features
<1> HIDE DEF items
<1>4. CASE o \notin Of(items)
  <2>1. \A i \in ToSet(items) : i.obs # o
    BY <1>3, <1>4 DEF Names
  <2>2. \A S, U : (\A i \in S : i.obs = o => i \in U) /\ o \in Names(S) => o \in Names(U)
    BY DEF Names
  <2>3. /\ \A i \in ToSort' : i \in ToSort
        /\ \A i \in ToAdd' : i.obs = o => i \in ToAdd
        /\ \A i \in ToAsk' : i.obs = o => i \in ToAsk
        /\ o \in ToDelete' => o \in ToDelete
    BY <1>2, <1>4, <2>1 DEF items
  <2>4. /\ o \in Names(ToSort)' => o \in Names(ToSort)
        /\ o \in Names(ToAsk)' => o \in Names(ToAsk)
        /\ o \in Names(ToAdd \cup ToAsk \cup ToUpdate)' => o \in Names(ToAdd \cup ToAsk \cup ToUpdate)
        /\ o \in Names(ToSort \cup ToAdd \cup ToAsk \cup ToUpdate)' =>
              o \in Names(ToSort \cup ToAdd \cup ToAsk \cup ToUpdate)
    BY <1>2, <2>3 DEF Names
  <2> QED  BY <1>2, <1>3, <2>3, <2>4 DEF CleanInv, OneReading
<1>5. CASE o \in Of(items)
  <2>1. old = existingObservationIds
    BY <1>2, <1>5 DEF items
  <2>2. o \in Names(ToSort)
    BY <1>2, <1>3, <1>5 DEF Names, items
  <2>3. o \notin Names(ToAdd \cup ToAsk \cup ToUpdate) /\ o \notin ToDelete /\ o \notin Names(Missing)
    BY <2>2 DEF CleanInv
  <2>4. o \notin Names(ToSort)'
    <3> SUFFICES ASSUME NEW i \in ToSort', i.obs = o PROVE FALSE
      BY DEF Names
    <3>1. PICK d \in DOMAIN batch \ {b} : i \in ToSet(batch[d].items)
      BY <1>2
    <3>2. o \in Of(batch[d].items)
      BY <3>1, ListSet DEF Names
    <3> QED  BY <1>5, <3>1, <3>2 DEF CleanInv, items
  <2>5. o \in Names(ToAdd)' => o \in live \ old
    BY <1>2, <2>3 DEF Names
  <2>6. o \in Names(ToAsk)' => o \in live \cap old
    BY <1>2, <2>3 DEF Names
  <2>7. o \in ToDelete' => o \notin live
    BY <1>2, <2>3
  <2>8. o \notin Names(ToUpdate)' /\ \A u \in ToUpdate' : u.obs # o
    BY <1>2, <2>3 DEF Names
  <2>9. o \in old => Features(o)' # {}
    BY <1>3, <2>1 DEF existingObservationIds
  <2>10. o \in Names(ToAdd \cup ToAsk \cup ToUpdate)' <=> o \in Names(ToAdd)' \cup Names(ToAsk)' \cup Names(ToUpdate)'
    BY DEF Names
  <2>11. o \in Names(ToSort \cup ToAdd \cup ToAsk \cup ToUpdate)' <=>
             o \in Names(ToSort)' \cup Names(ToAdd)' \cup Names(ToAsk)' \cup Names(ToUpdate)'
    BY DEF Names
  <2> QED  BY <1>2, <2>3, <2>4, <2>5, <2>6, <2>7, <2>8, <2>9, <2>10, <2>11 DEF CleanInv, OneReading
<1> QED  BY <1>4, <1>5

(* ... what is asked for becomes an update, ...                            *)
LEMMA QueryClean ==
  ASSUME StateInv, NEW b \in DOMAIN batch, NEW i \in batch[b].asked, queryObservation(b, i),
         NEW o \in Observations, CleanInv(o), OneReading(o)'
  PROVE  CleanInv(o)'
<1>1. UNCHANGED layer
  BY DEF queryObservation
<1>2. /\ UNCHANGED <<ToSort, ToAdd, ToDelete>> /\ i \in ToAsk
      /\ ToAsk' \subseteq ToAsk /\ ToAsk \subseteq ToAsk' \cup {i}
      /\ i \in Item /\ (Features(i.obs) # {} => Update(i).id \in Features(i.obs))
      /\ \/ Features(i.obs) = {} /\ Missing' = Missing \cup {i} /\ ToUpdate' = ToUpdate
         \/ Features(i.obs) # {} /\ Missing' = Missing /\ ToUpdate' = ToUpdate \cup {Update(i)}
         \/ /\ Features(i.obs) # {} /\ layer[i.obs][Update(i).id] >= i.ver
            /\ Missing' = Missing /\ ToUpdate' = ToUpdate
  BY QueryFlow
<1>3. Features(o)' = Features(o)
  BY <1>1 DEF Features
<1>4. i.obs = o => Features(o) # {}
  BY <1>2 DEF CleanInv, Names
<1>5. o \notin Names(Missing)'
  BY <1>2, <1>4 DEF CleanInv, Names
<1>6. Update(i).obs = i.obs
  BY DEF Update
<1>7. \A u \in ToUpdate' : u.obs = o => u \in ToUpdate \/ (u = Update(i) /\ i.obs = o)
  BY <1>2, <1>6
<1>8. \A u \in ToUpdate' : u.obs = o => u.id \in Features(o)'
  BY <1>2, <1>3, <1>7 DEF CleanInv
<1>9. o \in Names(ToUpdate)' => o \in Names(ToUpdate) \cup Names(ToAsk)
  BY <1>2, <1>7 DEF Names
<1>10. o \in Names(ToAsk)' => o \in Names(ToAsk)
  BY <1>2 DEF Names
<1>11. /\ o \in Names(ToAdd \cup ToAsk \cup ToUpdate)' => o \in Names(ToAdd \cup ToAsk \cup ToUpdate)
       /\ o \in Names(ToSort \cup ToAdd \cup ToAsk \cup ToUpdate)' =>
             o \in Names(ToSort \cup ToAdd \cup ToAsk \cup ToUpdate)
  BY <1>2, <1>9, <1>10 DEF Names
<1> QED  BY <1>2, <1>3, <1>5, <1>8, <1>10, <1>11 DEF CleanInv, OneReading

(* ... and what a page returns and is not in flight is nowhere yet.        *)
LEMMA PageClean ==
  ASSUME StateInv, NEW l \in Chains, NEW items, NEW next, NEW left, ReadsPage(l, items, next, left),
         NEW o \in Observations, o \notin doubtful', o \notin doubtful => CleanInv(o)
  PROVE  CleanInv(o)'
<1>1. /\ UNCHANGED <<ToAdd, ToAsk, ToDelete, Missing, ToUpdate>>
      /\ ToSort' = ToSort \cup ToSet(items)
  BY PageWork
<1>2. PICK n : /\ DOMAIN batch' = DOMAIN batch \cup {n} /\ n \notin DOMAIN batch
               /\ batch'[n].items = items /\ \A c \in DOMAIN batch : batch'[c] = batch[c]
  BY PageWork
<1>3. /\ UNCHANGED layer
      /\ doubtful' = IF loop[l].proc = proc
                     THEN (doubtful \ ToSet(PageOf(l))) \cup (ToSet(PageOf(l)) \cap InFlight)
                     ELSE doubtful \cup ToSet(PageOf(l))
      /\ Of(items) = ToSet(PageOf(l)) \cap Synced
  BY DEF ReadsPage
<1>4. Features(o)' = Features(o) /\ Of(items) = Names(ToSet(items))
  BY <1>3, ListSet DEF Features
<1>5. CASE o \notin ToSet(PageOf(l))
  <2>0. o \notin Of(items)
    BY <1>3, <1>5
  <2>1. CleanInv(o)
    BY <1>3, <1>5
  <2>2. OneReading(o)'
    BY <1>2, <2>0, <2>1 DEF OneReading, CleanInv
  <2>3. /\ o \in Names(ToSort)' => o \in Names(ToSort)
        /\ o \in Names(ToSort \cup ToAdd \cup ToAsk \cup ToUpdate)' =>
              o \in Names(ToSort \cup ToAdd \cup ToAsk \cup ToUpdate)
    BY <1>1, <1>4, <2>0 DEF Names
  <2> QED  BY <1>1, <1>4, <2>1, <2>2, <2>3 DEF CleanInv, OneReading, Names
<1>6. CASE o \in ToSet(PageOf(l))
  <2>1. o \notin InFlight
    BY <1>3, <1>6
  <2>2. o \notin Names(Work) /\ o \notin ToDelete
    BY <2>1, WorkInFlight
  <2>3. \A c \in DOMAIN batch : o \notin Of(batch[c].items)
    <3> SUFFICES ASSUME NEW c \in DOMAIN batch, o \in Of(batch[c].items) PROVE FALSE
      OBVIOUS
    <3>1. o \in Names(ToSort)
      BY BatchWork, ListSet DEF Names
    <3> QED  BY <2>2, <3>1 DEF Work, Names
  <2>4. OneReading(o)'
    BY <1>2, <2>3 DEF OneReading
  <2>5. /\ o \notin Names(ToAdd \cup ToAsk \cup ToUpdate) /\ o \notin Names(Missing)
        /\ o \notin Names(ToAsk) /\ \A u \in ToUpdate : u.obs # o
    BY <2>2 DEF Work, Names
  <2> QED  BY <1>1, <2>2, <2>4, <2>5 DEF CleanInv, OneReading, Names
<1> QED  BY <1>5, <1>6

(* What is doubtful stays so until it is read again. *)
LEMMA DoubtStays ==
  ASSUME StateInv, [Next]_vars, \A l \in Chains : ~queryAndSend(l)
  PROVE  doubtful \subseteq doubtful'
<1>1. doubtful \subseteq Observations
  BY DEF StateInv, TypeOK
<1>2. \A o \in Observations, archived, early \in BOOLEAN : Save(o, archived, early) => doubtful \subseteq doubtful'
  BY DEF Save
<1>3. \A changed \in BOOLEAN : putConfig(changed) => doubtful \subseteq doubtful'
  BY DEF putConfig, history
<1>4. ASSUME NEW l \in Chains, CycleStep(l) \/ LayersFail(l) PROVE doubtful \subseteq doubtful'
  <2>1. \/ updateConfig(l) \/ LayersFail(l) \/ NoLayers(l)
        \/ processPendingUpdates(l) \/ EndCycle(l)
        => doubtful \subseteq doubtful'
    BY <1>1 DEF updateConfig, Configured, LayersFail, NoLayers, processPendingUpdates, EndCycle, Armed, history
  <2>2. \A kind \in Kinds : SendPending(l, kind) => doubtful \subseteq doubtful'
    BY DEF SendPending, send, Requested
  <2> QED  BY <1>4, <2>1, <2>2 DEF CycleStep
<1>5. ASSUME NEW b \in DOMAIN batch, BatchStep(b) PROVE doubtful \subseteq doubtful'
  <2>1. processArcObjects(b) => doubtful \subseteq doubtful'
    BY DEF processArcObjects
  <2>2. \A kind \in Kinds : SendBatch(b, kind) => doubtful \subseteq doubtful'
    BY DEF SendBatch, send, Requested
  <2>3. \A d \in Observations : sendDelete(b, d) => doubtful \subseteq doubtful'
    BY DEF sendDelete, Requested
  <2>4. \A i \in batch[b].asked : queryObservation(b, i) => doubtful \subseteq doubtful'
    BY DEF queryObservation, history
  <2> QED  BY <1>5, <2>1, <2>2, <2>3, <2>4 DEF BatchStep
<1>6. \A b \in DOMAIN batch : \A i \in batch[b].asked : QueryFails(b, i) => doubtful \subseteq doubtful'
  BY DEF QueryFails
<1>7. Crash \/ UNCHANGED vars => doubtful \subseteq doubtful'
  BY DEF Crash, vars, history
<1> QED  BY <1>2, <1>3, <1>4, <1>5, <1>6, <1>7 DEF Next

LEMMA CleanStep ==
  ASSUME StateInv, [Next]_vars, NEW o \in Observations, VersionInv(o),
         o \notin doubtful', o \notin doubtful => CleanInv(o)
  PROVE  CleanInv(o)'
<1>1. CASE \E l \in Chains : queryAndSend(l)
  <2>1. PICK l \in Chains : queryAndSend(l)
    BY <1>1
  <2>2. PICK items, next, left : ReadsPage(l, items, next, left)
    BY <2>1, PageFlow
  <2> QED  BY <2>2, PageClean
<1>2. CASE \A l \in Chains : ~queryAndSend(l)
  <2>1. CleanInv(o) /\ OneReading(o)
    BY <1>2, DoubtStays DEF CleanInv, OneReading
  <2>2. OneReading(o)'
    BY <1>2, <2>1, ReadingStep
  <2>3. ASSUME NEW b \in DOMAIN batch, processArcObjects(b) PROVE CleanInv(o)'
    BY <2>1, <2>2, <2>3, SortClean
  <2>4. ASSUME NEW b \in DOMAIN batch, NEW i \in batch[b].asked, queryObservation(b, i) PROVE CleanInv(o)'
    BY <2>1, <2>2, <2>4, QueryClean
  <2>5. CASE \A b \in DOMAIN batch :
               ~processArcObjects(b) /\ \A i \in batch[b].asked : ~queryObservation(b, i)
    <3>1. FewerWork
      BY <1>2, <2>5, FewerStep
    <3>2. o \notin ToDelete => Features(o) \subseteq Features(o)'
      BY FeaturesStay
    <3> QED  BY <2>1, <2>2, <3>1, <3>2, FewerClean
  <2> QED  BY <2>3, <2>4, <2>5
<1> QED  BY <1>1, <1>2

-----------------------------------------------------------------------------
(***************************************************************************)
(* What is stored, and what a version says of it.                          *)
(***************************************************************************)
LEMMA DocStays ==
  ASSUME [Next]_vars, \A o \in Observations, archived, early \in BOOLEAN : ~Save(o, archived, early)
  PROVE  UNCHANGED doc
<1>1. \A changed \in BOOLEAN : putConfig(changed) => UNCHANGED doc
  BY DEF putConfig, outside
<1>2. ASSUME NEW l \in Chains, CycleStep(l) \/ LayersFail(l) PROVE UNCHANGED doc
  BY <1>2 DEF CycleStep, updateConfig, Configured, LayersFail, NoLayers, processPendingUpdates, queryAndSend, EndCycle, Armed, SendPending, outside
<1>3. ASSUME NEW b \in DOMAIN batch, BatchStep(b) \/ \E i \in batch[b].asked : QueryFails(b, i)
      PROVE  UNCHANGED doc
  BY <1>3 DEF BatchStep, processArcObjects, SendBatch, sendDelete, queryObservation, QueryFails, outside
<1>4. Crash \/ UNCHANGED vars => UNCHANGED doc
  BY DEF Crash, vars, outside
<1> QED  BY <1>1, <1>2, <1>3, <1>4 DEF Next

(* A write is newer than all that is on its way, shown or read.            *)
LEMMA SaveIsNew ==
  ASSUME StateInv, NEW x \in Observations, NEW archived \in BOOLEAN, NEW early \in BOOLEAN, Save(x, archived, early)
  PROVE  /\ Still /\ UNCHANGED <<layer, batch, pending, loop, time, proc, config, link>>
         /\ doc'[x] = [ver |-> now + 1, archived |-> archived, early |-> early]
         /\ \A o \in Observations \ {x} : doc'[o] = doc[o]
         /\ now \in Nat /\ \A o \in Observations : doc[o].ver \in Nat /\ doc[o].ver < now + 1
<1>1. UNCHANGED <<layer, batch, pending, loop, time, proc, config, link>>
  BY DEF Save, setup, work
<1>2. doc \in [Observations -> [ver : Times, archived : BOOLEAN, early : BOOLEAN]]
  BY DEF StateInv, TypeOK
<1>3. doc' = [doc EXCEPT ![x] = [ver |-> now + 1, archived |-> archived, early |-> early]]
  BY DEF Save
<1>4. now \in Nat /\ \A o \in Observations : doc[o].ver \in Nat /\ doc[o].ver <= now
  BY <1>2, Values DEF StateInv, TypeOK, ClockInv
<1> QED  BY <1>1, <1>2, <1>3, <1>4, SameWork

LEMMA SaveLive ==
  ASSUME StateInv, NEW x \in Observations, NEW archived \in BOOLEAN, NEW early \in BOOLEAN, Save(x, archived, early),
         NEW o \in Observations, VersionInv(o), LiveInv(o)
  PROVE  LiveInv(o)'
<1>1. /\ Still /\ doc'[x] = [ver |-> now + 1, archived |-> archived, early |-> early]
      /\ \A y \in Observations \ {x} : doc'[y] = doc[y]
      /\ now \in Nat /\ doc[o].ver \in Nat /\ doc[o].ver < now + 1
  BY SaveIsNew
<1>2. CASE x = o
  <2>1. \A i \in Work : i.obs = o => i.ver \in Nat /\ i.ver <= doc[o].ver
    <3> SUFFICES ASSUME NEW i \in Work, i.obs = o PROVE i.ver \in Nat /\ i.ver <= doc[o].ver
      OBVIOUS
    <3>1. i.ver \in Times
      BY WorkType
    <3> QED  BY <3>1, Values DEF VersionInv, NotAhead, Carried
  <2>2. doc'[o].ver = now + 1
    BY <1>1, <1>2
  <2>3. \A v \in Nat : v <= doc[o].ver => v # now + 1
    BY <1>1
  <2>4. \A i \in Work : i.obs = o => i.ver # doc'[o].ver
    BY <2>1, <2>2, <2>3
  <2> QED  BY <1>1, <2>4 DEF LiveInv, Still, Work
<1>3. CASE x # o
  <2>1. doc'[o] = doc[o]
    BY <1>1, <1>3
  <2> QED  BY <1>1, <2>1 DEF LiveInv, Still
<1> QED  BY <1>2, <1>3

LEMMA FewerLive ==
  ASSUME NEW o, LiveInv(o), FewerWork, UNCHANGED doc
  PROVE  LiveInv(o)'
BY DEF LiveInv, FewerWork

(* Items of the same version are sorted in the same way. *)
LEMMA SortLive ==
  ASSUME StateInv, NEW b \in DOMAIN batch, processArcObjects(b), NEW o \in Observations,
         LiveInv(o), OneVersion(o)
  PROVE  LiveInv(o)'
<1>1. UNCHANGED doc
  BY DEF processArcObjects, outside
<1>2. PICK old, live \in SUBSET Observations :
        /\ live = {i.obs : i \in {j \in ToSet(batch[b].items) : ~j.archived}}
        /\ ToSet(batch[b].items) \subseteq ToSort
        /\ ToSort' \subseteq ToSort
        /\ ToAdd' = ToAdd \cup {i \in ToSet(batch[b].items) : i.obs \in live \ old}
        /\ ToAsk' = ToAsk \cup {i \in ToSet(batch[b].items) : i.obs \in live \cap old}
        /\ ToUpdate' = ToUpdate
  BY SortFlow
<1>3. ASSUME NEW i \in ToSet(batch[b].items), i.obs = o, o \in live, i.ver = doc[o].ver
      PROVE  ~doc[o].archived
  <2>1. PICK j \in ToSet(batch[b].items) : ~j.archived /\ j.obs = o
    BY <1>2, <1>3
  <2>2. i \in ToSort /\ j \in ToSort
    BY <1>2, <2>1
  <2>3. i \in Work /\ j \in Work
    BY <2>2 DEF Work
  <2>4. Carried(o, i.ver) /\ Carried(o, j.ver) /\ i.ver \in Times /\ j.ver \in Times
    BY <1>3, <2>1, <2>3, WorkType DEF Carried
  <2>5. j.ver = doc[o].ver
    BY <1>3, <2>4 DEF OneVersion
  <2> QED  BY <2>1, <2>2, <2>5 DEF LiveInv
<1>4. \A i \in (ToAdd \cup ToAsk \cup ToUpdate)' :
         i.obs = o => \/ i \in ToAdd \cup ToAsk \cup ToUpdate
                      \/ i \in ToSet(batch[b].items) /\ o \in live
  BY <1>2
<1>5. \A i \in (ToAdd \cup ToAsk \cup ToUpdate)' : i.obs = o /\ i.ver = doc'[o].ver => ~doc'[o].archived
  BY <1>1, <1>3, <1>4 DEF LiveInv
<1> QED  BY <1>1, <1>2, <1>5 DEF LiveInv

LEMMA QueryLive ==
  ASSUME StateInv, NEW b \in DOMAIN batch, NEW i \in batch[b].asked, queryObservation(b, i),
         NEW o \in Observations, LiveInv(o)
  PROVE  LiveInv(o)'
<1>1. UNCHANGED doc
  BY DEF queryObservation, outside
<1>2. /\ UNCHANGED <<ToSort, ToAdd>> /\ i \in ToAsk /\ ToAsk' \subseteq ToAsk
      /\ ToUpdate' \subseteq ToUpdate \cup {Update(i)}
  BY QueryFlow
<1>3. Update(i).obs = i.obs /\ Update(i).ver = i.ver
  BY DEF Update
<1>4. \A j \in (ToAdd \cup ToAsk \cup ToUpdate)' : \E k \in ToAdd \cup ToAsk \cup ToUpdate :
         k.obs = j.obs /\ k.ver = j.ver
  BY <1>2, <1>3
<1> QED  BY <1>1, <1>2, <1>4 DEF LiveInv

LEMMA PageLive ==
  ASSUME StateInv, NEW l \in Chains, NEW items, NEW next, NEW left, ReadsPage(l, items, next, left),
         NEW o \in Observations, o \notin doubtful', o \notin doubtful => LiveInv(o)
  PROVE  LiveInv(o)'
<1>1. /\ UNCHANGED <<ToAdd, ToAsk, ToDelete, Missing, ToUpdate>>
      /\ ToSort' = ToSort \cup ToSet(items)
  BY PageWork
<1>2. /\ UNCHANGED doc
      /\ \A i \in ToSet(items) : i.ver = doc[i.obs].ver /\ i.archived = doc[i.obs].archived
      /\ doubtful' = IF loop[l].proc = proc
                     THEN (doubtful \ ToSet(PageOf(l))) \cup (ToSet(PageOf(l)) \cap InFlight)
                     ELSE doubtful \cup ToSet(PageOf(l))
      /\ Of(items) = ToSet(PageOf(l)) \cap Synced
  BY DEF ReadsPage
<1>3. Of(items) = Names(ToSet(items))
  BY ListSet
<1>4. CASE o \notin ToSet(PageOf(l))
  <2>1. LiveInv(o)
    BY <1>2, <1>4
  <2> QED  BY <1>1, <1>2, <2>1 DEF LiveInv
<1>5. CASE o \in ToSet(PageOf(l))
  <2>1. o \notin Names(Work)
    BY <1>2, <1>5, WorkInFlight
  <2>2. \A i \in ToSort \cup ToAdd \cup ToAsk \cup ToUpdate : i.obs # o
    BY <2>1 DEF Work, Names
  <2> QED  BY <1>1, <1>2, <2>2 DEF LiveInv
<1> QED  BY <1>4, <1>5

LEMMA LiveStep ==
  ASSUME StateInv, [Next]_vars, NEW o \in Observations, VersionInv(o),
         o \notin doubtful', o \notin doubtful => LiveInv(o)
  PROVE  LiveInv(o)'
<1>1. CASE \E l \in Chains : queryAndSend(l)
  <2>1. PICK l \in Chains : queryAndSend(l)
    BY <1>1
  <2>2. PICK items, next, left : ReadsPage(l, items, next, left)
    BY <2>1, PageFlow
  <2> QED  BY <2>2, PageLive
<1>2. CASE \A l \in Chains : ~queryAndSend(l)
  <2>1. LiveInv(o) /\ OneVersion(o)
    BY <1>2, DoubtStays DEF VersionInv
  <2>2. ASSUME NEW b \in DOMAIN batch, processArcObjects(b) PROVE LiveInv(o)'
    BY <2>1, <2>2, SortLive
  <2>3. ASSUME NEW b \in DOMAIN batch, NEW i \in batch[b].asked, queryObservation(b, i) PROVE LiveInv(o)'
    BY <2>1, <2>3, QueryLive
  <2>4. ASSUME NEW x \in Observations, NEW archived \in BOOLEAN, NEW early \in BOOLEAN, Save(x, archived, early) PROVE LiveInv(o)'
    BY <2>1, <2>4, SaveLive
  <2>5. CASE /\ \A b \in DOMAIN batch :
                   ~processArcObjects(b) /\ \A i \in batch[b].asked : ~queryObservation(b, i)
             /\ \A x \in Observations, archived, early \in BOOLEAN : ~Save(x, archived, early)
    BY <1>2, <2>1, <2>5, FewerStep, DocStays, FewerLive
  <2> QED  BY <2>2, <2>3, <2>4, <2>5
<1> QED  BY <1>1, <1>2

-----------------------------------------------------------------------------
(***************************************************************************)
(* The order in which observations are read.                               *)
(***************************************************************************)
(* The list has every observation modified since, each at its place.       *)
LEMMA FoundPlace ==
  ASSUME StateInv, NEW t \in Nat
  PROVE  /\ Len(findLastModifiedAfter(t)) <= LastId
         /\ \A o \in Observations : t <= doc[o].ver =>
               /\ Place(t, o) \in 1..Len(findLastModifiedAfter(t))
               /\ findLastModifiedAfter(t)[Place(t, o)] = o
<1> DEFINE found == {o \in Observations : doc[o].ver >= t}
           list  == findLastModifiedAfter(t)
           n     == Cardinality(found)
<1>1. /\ doc \in [Observations -> [ver : Times, archived : BOOLEAN, early : BOOLEAN]]
      /\ \A o, x \in Observations : doc[o].ver = doc[x].ver => o = x
      /\ \A o \in Observations : doc[o].ver \in Nat
  BY Values DEF StateInv, TypeOK, ClockInv
<1>2. Sorted(list, found)
  <2>1. \E s : Sorted(s, found)
    BY <1>1, SortedExists
  <2> QED  BY <2>1 DEF Sorted, findLastModifiedAfter
<1>3. IsFiniteSet(found) /\ n \in Nat /\ n <= LastId
  <2>1. IsFiniteSet(Observations) /\ Cardinality(Observations) = LastId
    BY FS_Interval, ArcGISAssumption DEF Observations
  <2>2. found \in SUBSET Observations
    OBVIOUS
  <2> HIDE DEF found
  <2> QED  BY <2>1, <2>2, FS_Subset, FS_CardinalityType
<1>4. list \in [1..n -> found] /\ \A i, j \in 1..n : i < j => doc[list[i]].ver < doc[list[j]].ver
  BY <1>2 DEF Sorted
<1>5. \A o \in found : o \in Observations /\ t <= doc[o].ver
  BY <1>1
<1>6. \A o \in Observations : t <= doc[o].ver => o \in found
  BY <1>1
<1> HIDE DEF found, list, n
<1>7. \A i, j \in 1..n : doc[list[i]].ver <= doc[list[j]].ver <=> i <= j
  <2> SUFFICES ASSUME NEW i \in 1..n, NEW j \in 1..n
               PROVE  doc[list[i]].ver <= doc[list[j]].ver <=> i <= j
    OBVIOUS
  <2>1. doc[list[i]].ver \in Nat /\ doc[list[j]].ver \in Nat
    BY <1>1, <1>4, <1>5
  <2>2. (i < j \/ j < i \/ i = j) /\ i \in Nat /\ j \in Nat
    BY <1>3
  <2>3. CASE i < j
    BY <1>4, <2>1, <2>2, <2>3
  <2>4. CASE j < i
    BY <1>4, <2>1, <2>2, <2>4
  <2>5. CASE i = j
    BY <2>1, <2>2, <2>5
  <2> QED  BY <2>2, <2>3, <2>4, <2>5
<1>8. \A i, j \in 1..n : list[i] = list[j] => i = j
  <2> SUFFICES ASSUME NEW i \in 1..n, NEW j \in 1..n, list[i] = list[j] PROVE i = j
    OBVIOUS
  <2>1. doc[list[i]].ver \in Nat /\ doc[list[i]].ver = doc[list[j]].ver
    BY <1>1, <1>4, <1>5
  <2>2. i <= j /\ j <= i
    BY <1>7, <2>1
  <2> QED  BY <1>3, <2>2
<1>9. Len(list) = n /\ DOMAIN list = 1..n
  <2>1. list \in Seq(found)
    BY <1>3, <1>4, FunctionList
  <2> QED  BY <1>3, <1>4, <2>1
<1>10. \A o \in found : \E i \in 1..n : list[i] = o
  <2>1. list \in Injection(1..n, found)
    BY <1>4, <1>8 DEF Injection, IsInjective
  <2>2. Cardinality(1..n) = n
    BY <1>3, FS_Interval
  <2>3. list \in Surjection(1..n, found)
    BY <1>3, <2>1, <2>2, FS_Injection DEF n
  <2> QED  BY <2>3 DEF Surjection
<1>11. ASSUME NEW o \in Observations, t <= doc[o].ver
       PROVE  Place(t, o) \in 1..n /\ list[Place(t, o)] = o
  <2>1. PICK i \in 1..n : list[i] = o
    BY <1>6, <1>10, <1>11
  <2> DEFINE before == {x \in Observations : t <= doc[x].ver /\ doc[x].ver <= doc[o].ver}
             first  == [j \in 1..i |-> list[j]]
  <2>2. \A j \in 1..i : j \in 1..n /\ j <= i
    BY <1>3
  <2>3. \A j \in 1..i : list[j] \in before
    BY <1>4, <1>5, <1>7, <2>1, <2>2
  <2>4. \A x \in before : \E j \in 1..i : list[j] = x
    <3> SUFFICES ASSUME NEW x \in before PROVE \E j \in 1..i : list[j] = x
      OBVIOUS
    <3>1. PICK j \in 1..n : list[j] = x
      BY <1>6, <1>10
    <3>2. j <= i
      BY <1>7, <2>1, <3>1
    <3>3. j \in 1..i
      BY <1>3, <3>2
    <3> QED  BY <3>1, <3>3
  <2> HIDE DEF before
  <2>5. first \in Injection(1..i, before) /\ first \in Surjection(1..i, before)
    <3>1. first \in [1..i -> before]
      BY <2>3
    <3>2. \A j, k \in 1..i : first[j] = first[k] => j = k
      BY <1>8, <2>2
    <3>3. \A x \in before : \E j \in 1..i : first[j] = x
      BY <2>4
    <3> QED  BY <3>1, <3>2, <3>3 DEF Injection, IsInjective, Surjection
  <2> HIDE DEF first
  <2>6. IsFiniteSet(1..i) /\ Cardinality(1..i) = i
    BY <1>3, FS_Interval
  <2>7. Cardinality(before) = i
    BY <2>5, <2>6, FS_Surjection
  <2> QED  BY <2>1, <2>7 DEF Place, before
<1> QED  BY <1>3, <1>9, <1>11 DEF list

LEMMA PartOfList ==
  ASSUME NEW S, NEW list \in Seq(S), NEW m \in Nat, NEW n \in Nat, n <= Len(list)
  PROVE  /\ SubSeq(list, m + 1, n) \in Seq(S)
         /\ Len(SubSeq(list, m + 1, n)) = IF m + 1 <= n THEN n - m ELSE 0
         /\ \A i \in 1..Len(SubSeq(list, m + 1, n)) : SubSeq(list, m + 1, n)[i] = list[m + i]
OBVIOUS

(* What a page returns: the observations whose place is on it. *)
LEMMA PagePlace ==
  ASSUME StateInv, NEW t \in Nat, NEW skip \in Nat, NEW page,
         page = SubSeq(findLastModifiedAfter(t), skip + 1,
                       IF skip + PageSize < Len(findLastModifiedAfter(t)) THEN skip + PageSize
                       ELSE Len(findLastModifiedAfter(t))),
         NEW o \in Observations, t <= doc[o].ver, o \notin ToSet(page), skip < Place(t, o)
  PROVE  /\ Place(t, o) \in Nat /\ skip + PageSize < Place(t, o)
         /\ Place(t, o) <= Len(findLastModifiedAfter(t)) /\ Len(findLastModifiedAfter(t)) \in Nat
         /\ Len(page) = PageSize /\ skip + PageSize < LastId
<1> DEFINE list == findLastModifiedAfter(t)
           place == Place(t, o)
           last == IF skip + PageSize < Len(list) THEN skip + PageSize ELSE Len(list)
<1>1. Len(list) <= LastId /\ place \in 1..Len(list) /\ list[place] = o
  BY FoundPlace
<1>2. list \in Seq(Observations) /\ Len(list) \in Nat
  BY FoundList DEF StateInv
<1>3. page = SubSeq(list, skip + 1, last) /\ skip < place /\ PageSize \in Nat \ {0} /\ LastId \in Nat
  BY ArcGISAssumption
<1> HIDE DEF list, place
<1>4. place \in Nat /\ place <= Len(list)
  BY <1>1, <1>2
<1>5. /\ skip + 1 \in 1..(Len(list) + 1) /\ last \in 0..Len(list) /\ skip <= last
  BY <1>2, <1>3, <1>4
<1>6. last \in Nat /\ last <= Len(list) /\ (last = skip + PageSize \/ last = Len(list))
      /\ (skip + PageSize < Len(list) => last = skip + PageSize)
  BY <1>2, <1>3
<1> HIDE DEF last
<1>7. /\ Len(page) = last - skip /\ page \in Seq(Observations)
      /\ \A i \in 1..(last - skip) : page[i] = list[skip + i]
  <2>1. /\ page \in Seq(Observations)
        /\ Len(page) = IF skip + 1 <= last THEN last - skip ELSE 0
        /\ \A i \in 1..Len(page) : page[i] = list[skip + i]
    <3> DEFINE part == SubSeq(list, skip + 1, last)
    <3>1. list \in Seq(Observations) /\ last \in Nat /\ last <= Len(list)
      BY <1>2, <1>6
    <3>2. /\ part \in Seq(Observations)
          /\ Len(part) = IF skip + 1 <= last THEN last - skip ELSE 0
          /\ \A i \in 1..Len(part) : part[i] = list[skip + i]
      BY <3>1, PartOfList
    <3>3. page = part
      BY <1>3
    <3> HIDE DEF part
    <3> QED  BY <3>2, <3>3
  <2>2. Len(page) = last - skip
    BY <1>5, <1>6, <2>1
  <2> QED  BY <2>1, <2>2
<1>8. ~(place <= last)
  <2> SUFFICES ASSUME place <= last PROVE FALSE
    OBVIOUS
  <2>1. place - skip \in 1..(last - skip) /\ skip + (place - skip) = place
    BY <1>3, <1>4, <1>6
  <2>2. page[place - skip] = o
    BY <1>1, <1>7, <2>1
  <2>3. DOMAIN page = 1..(last - skip)
    BY <1>5, <1>6, <1>7
  <2> QED  BY <2>1, <2>2, <2>3 DEF ToSet
<1>9. last = skip + PageSize /\ last < place
  BY <1>3, <1>4, <1>6, <1>8
<1>10. Len(page) = PageSize /\ skip + PageSize < LastId /\ skip + PageSize < place
  BY <1>1, <1>2, <1>3, <1>4, <1>7, <1>9
<1> QED  BY <1>2, <1>4, <1>10 DEF list, place

-----------------------------------------------------------------------------
(***************************************************************************)
(* The last version is on its way until the layer shows it.                *)
(***************************************************************************)
WorkTyped == \A i \in Work : i.obs \in Observations /\ i.ver \in Times

LEMMA WorkTypedNext == StateInv' => WorkTyped'
<1>1. StateInv => WorkTyped
  BY WorkType DEF WorkTyped
<1> QED  BY <1>1, PTL

(* An observation that is read cleanly, ...                                *)
Clear(o) ==
    StateInv /\ VersionInv(o) /\ o \notin doubtful /\ CleanInv(o) /\ LiveInv(o)

(* ... whose last version is shown and whatever else is on its way.        *)
LEMMA Settles ==
  ASSUME StateInv', NEW o \in Observations, Clear(o), Carried(o, doc[o].ver), doc'[o] = doc[o], Keeps(o),
         InSync(o)', o \notin ToDelete'
  PROVE  Followed(o)'
<1>1. CASE o \in Names(Work)'
  <2>1. PICK i \in Work' : i.obs = o
    BY <1>1 DEF Names
  <2>2. i.ver \in Times
    BY <2>1, WorkTypedNext DEF WorkTyped
  <2>3. Carried(o, i.ver)'
    BY <2>1 DEF Carried
  <2>4. OneVersion(o) /\ doc[o].ver \in Times
    BY DEF Clear, VersionInv, StateInv, TypeOK
  <2>5. i.ver = doc[o].ver
    BY <2>2, <2>3, <2>4 DEF Keeps, OneVersion
  <2> QED  BY <2>3, <2>5 DEF Followed, OnItsWay
<1>2. CASE o \notin Names(Work)'
  BY <1>2 DEF Followed, Settled
<1> QED  BY <1>1, <1>2

LEMMA OnItsWayStays ==
  ASSUME NEW o, OnItsWay(o), doc'[o] = doc[o],
         \A i \in Work : i.obs = o /\ i.ver = doc[o].ver => i \in Work',
         o \in ToDelete => o \in ToDelete'
  PROVE  Followed(o)'
BY DEF OnItsWay, Carried, Followed

(* A request that is answered shows the last version. *)
LEMMA SendAnswered ==
  ASSUME NEW o \in Observations, Clear(o), o \notin doubtful', doc'[o] = doc[o],
         NEW bins \in Bins, NEW kind \in Kinds, send(bins, kind),
         NEW i \in ToSet(bins[kind]), i.obs = o, i.ver = doc[o].ver,
         ToSet(bins.updates) \subseteq ToUpdate, kind = "adds" => i \in ToAdd
  PROVE  InSync(o)'
<1>1. /\ layer \in [Observations -> Seq(Times)] /\ bins.adds \in Seq(Item) /\ bins.updates \in Seq(Change)
      /\ doc[o].ver \in Times /\ doc[o].ver # 0
  <2>1. /\ layer \in [Observations -> Seq(Times)] /\ bins.adds \in Seq(Item) /\ bins.updates \in Seq(Change)
        /\ doc[o].ver \in Times
    BY DEF Clear, StateInv, TypeOK, Bins
  <2>2. 0 < doc[o].ver
    BY DEF Clear, VersionInv, NotAhead
  <2> QED  BY <2>1, <2>2, Values
<1>2. ~doc'[o].archived
  BY DEF Clear, LiveInv, Kinds
<1>3. o \in Of(bins[kind])
  BY ListSet DEF Names
<1>4. layer' = IF kind = "adds" THEN Added(bins.adds) ELSE Updated(bins.updates)
  BY <1>3 DEF send, Requested
<1>5. CASE kind = "adds"
  <2>1. Has(bins.adds, o, doc[o].ver)
    BY <1>5 DEF Has
  <2>2. PICK f \in DOMAIN layer'[o] : layer'[o][f] = doc[o].ver
    <3>1. \A v : Has(bins.adds, o, v) => \E f \in DOMAIN Added(bins.adds)[o] : Added(bins.adds)[o][f] = v
      BY <1>1, AddedVersions
    <3>2. layer' = Added(bins.adds)
      BY <1>4, <1>5
    <3> QED  BY <2>1, <3>1, <3>2
  <2> QED  BY <1>1, <1>2, <2>2 DEF InSync, Features
<1>6. CASE kind = "updates"
  <2>1. i \in ToUpdate /\ i \in ToSet(bins.updates)
    BY <1>6
  <2>2. i.id \in Features(o)
    BY <2>1 DEF Clear, CleanInv
  <2>3. DOMAIN layer'[o] = DOMAIN layer[o] /\ Has(bins.updates, o, layer'[o][i.id])
    BY <1>1, <1>4, <1>6, <2>1, <2>2, UpdatedVersions
  <2>4. PICK u \in ToSet(bins.updates) : u.obs = o /\ u.ver = layer'[o][i.id]
    BY <2>3 DEF Has
  <2>5. u \in Work /\ i \in Work
    BY <2>1, <2>4 DEF Work
  <2>6. Carried(o, u.ver) /\ Carried(o, doc[o].ver) /\ u.ver \in Times
    BY <2>4, <2>5, WorkType DEF Carried, Clear
  <2>7. u.ver = doc[o].ver
    BY <1>1, <2>6 DEF Clear, VersionInv, OneVersion
  <2>8. i.id \in DOMAIN layer'[o]
    BY <2>2, <2>3 DEF Features
  <2> QED  BY <1>1, <1>2, <2>4, <2>7, <2>8 DEF InSync, Features
<1> QED  BY <1>5, <1>6 DEF Kinds

LEMMA SendPendingFollows ==
  ASSUME StateInv', NEW o \in Observations, Clear(o), o \notin doubtful', OnItsWay(o), Keeps(o),
         NEW l \in Chains, NEW kind \in Kinds, SendPending(l, kind)
  PROVE  Followed(o)'
<1>1. /\ UNCHANGED <<ToSort, ToAdd, ToAsk, ToDelete>>
      /\ ToSet(loop[l].bins.adds) \subseteq Missing /\ ToSet(loop[l].bins.updates) \subseteq ToUpdate
      /\ (kind = "adds" => ToUpdate' = ToUpdate)
      /\ ToUpdate \subseteq ToUpdate' \cup ToSet(loop[l].bins.updates)
  BY SendPendingFlow DEF Clear
<1>2. doc'[o] = doc[o] /\ send(loop[l].bins, kind) /\ loop[l].bins \in Bins
  BY DEF SendPending, outside, Clear, StateInv, TypeOK, Cycle
<1>3. CASE \A i \in Work : i.obs = o /\ i.ver = doc[o].ver => i \in Work'
  BY <1>1, <1>2, <1>3, OnItsWayStays
<1>4. ASSUME NEW i \in Work, i.obs = o, i.ver = doc[o].ver, i \notin Work' PROVE Followed(o)'
  <2>1. i \notin Missing
    BY <1>4 DEF Clear, CleanInv, Names
  <2>2. i \in ToUpdate /\ i \in ToSet(loop[l].bins.updates) /\ kind = "updates"
    BY <1>1, <1>4, <2>1 DEF Work, Kinds
  <2>3. InSync(o)'
    BY <1>1, <1>2, <1>4, <2>2, SendAnswered
  <2>4. o \notin ToDelete'
    BY <1>1, <1>4, <2>2 DEF Clear, CleanInv, Names
  <2>5. Carried(o, doc[o].ver)
    BY <1>4 DEF Carried
  <2> QED  BY <1>2, <2>3, <2>4, <2>5, Settles
<1> QED  BY <1>3, <1>4

LEMMA SendBatchFollows ==
  ASSUME StateInv', NEW o \in Observations, Clear(o), o \notin doubtful', OnItsWay(o), Keeps(o),
         NEW b \in DOMAIN batch, NEW kind \in Kinds, SendBatch(b, kind)
  PROVE  Followed(o)'
<1>1. /\ UNCHANGED <<ToSort, ToAsk, ToDelete, Missing>>
      /\ ToSet(batch[b].bins.adds) \subseteq ToAdd /\ ToSet(batch[b].bins.updates) \subseteq ToUpdate
      /\ kind = "adds" => ToUpdate' = ToUpdate /\ ToAdd \subseteq ToAdd' \cup ToSet(batch[b].bins.adds)
      /\ kind = "updates" => ToAdd' = ToAdd /\ ToUpdate \subseteq ToUpdate' \cup ToSet(batch[b].bins.updates)
  BY SendBatchFlow DEF Clear
<1>2. doc'[o] = doc[o] /\ send(batch[b].bins, kind) /\ batch[b].bins \in Bins
  BY BatchType DEF SendBatch, outside, Clear
<1>3. CASE \A i \in Work : i.obs = o /\ i.ver = doc[o].ver => i \in Work'
  BY <1>1, <1>2, <1>3, OnItsWayStays
<1>4. ASSUME NEW i \in Work, i.obs = o, i.ver = doc[o].ver, i \notin Work' PROVE Followed(o)'
  <2>1. i \in ToAdd \cup ToUpdate /\ i \in ToSet(batch[b].bins[kind]) /\ (kind = "adds" => i \in ToAdd)
    BY <1>1, <1>4 DEF Work, Kinds
  <2>2. InSync(o)'
    BY <1>1, <1>2, <1>4, <2>1, SendAnswered
  <2>3. o \notin ToDelete'
    BY <1>1, <1>4, <2>1 DEF Clear, CleanInv, Names
  <2>4. Carried(o, doc[o].ver)
    BY <1>4 DEF Carried
  <2> QED  BY <1>2, <2>2, <2>3, <2>4, Settles
<1> QED  BY <1>3, <1>4

LEMMA DeleteFollows ==
  ASSUME StateInv', NEW o \in Observations, Clear(o), o \notin doubtful', OnItsWay(o),
         NEW b \in DOMAIN batch, NEW d \in Observations, sendDelete(b, d)
  PROVE  Followed(o)'
<1>1. /\ UNCHANGED <<ToSort, ToAdd, ToAsk, Missing, ToUpdate>>
      /\ ToDelete' \subseteq ToDelete /\ ToDelete \subseteq ToDelete' \cup {d} /\ d \in ToDelete
  BY DeleteFlow DEF Clear
<1>2. doc'[o] = doc[o] /\ Requested({d}, Deleted(d))
  BY DEF sendDelete, outside
<1>3. CASE d # o \/ o \in ToDelete'
  BY <1>1, <1>2, <1>3, OnItsWayStays DEF Work
<1>4. CASE d = o /\ o \notin ToDelete'
  <2>1. o \notin Names(Work)
    BY <1>1, <1>4 DEF Clear, CleanInv, Work, Names
  <2>2. doc[o].archived
    BY <2>1 DEF OnItsWay, Carried, Names
  <2>3. layer' = Deleted(o)
    BY <1>2, <1>4 DEF Requested
  <2>4. layer \in [Observations -> Seq(Times)]
    BY DEF Clear, StateInv, TypeOK
  <2>5. Features(o)' = {}
    BY <2>3, <2>4, DeletedVersions DEF Features, Shown
  <2>6. o \notin Names(Work)'
    BY <1>1, <2>1 DEF Work, Names
  <2> QED  BY <1>2, <1>4, <2>2, <2>5, <2>6 DEF Followed, Settled, InSync
<1> QED  BY <1>3, <1>4

(* A feature that is no older needs no update. *)
LEMMA QueryFollows ==
  ASSUME StateInv', NEW o \in Observations, Clear(o), OnItsWay(o), Keeps(o),
         NEW b \in DOMAIN batch, NEW i \in batch[b].asked, queryObservation(b, i)
  PROVE  Followed(o)'
<1>1. /\ UNCHANGED <<ToSort, ToAdd, ToDelete>> /\ i \in ToAsk
      /\ ToAsk' \subseteq ToAsk /\ ToAsk \subseteq ToAsk' \cup {i}
      /\ (Features(i.obs) # {} => Update(i).id \in Features(i.obs))
      /\ \/ Features(i.obs) = {} /\ Missing' = Missing \cup {i} /\ ToUpdate' = ToUpdate
         \/ Features(i.obs) # {} /\ Missing' = Missing /\ ToUpdate' = ToUpdate \cup {Update(i)}
         \/ /\ Features(i.obs) # {} /\ layer[i.obs][Update(i).id] >= i.ver
            /\ Missing' = Missing /\ ToUpdate' = ToUpdate
  BY QueryFlow DEF Clear
<1>2. UNCHANGED <<doc, layer>>
  BY DEF queryObservation, outside
<1>3. CASE i.obs = o /\ i.ver = doc[o].ver /\ ToUpdate' # ToUpdate \cup {Update(i)} /\ i \notin Missing'
  <2>1. layer[o][Update(i).id] >= doc[o].ver /\ Update(i).id \in Features(o)
    BY <1>1, <1>3
  <2>2. layer[o][Update(i).id] <= doc[o].ver
    BY <2>1 DEF Clear, VersionInv, NotAhead
  <2>3. layer[o][Update(i).id] \in Nat /\ doc[o].ver \in Nat
    <3>1. layer[o] \in Seq(Times) /\ doc[o].ver \in Times /\ Update(i).id \in DOMAIN layer[o]
      BY <2>1 DEF Clear, StateInv, TypeOK, Features
    <3>2. layer[o][Update(i).id] \in Times
      BY <3>1
    <3> QED  BY <3>1, <3>2, Values
  <2>4. layer[o][Update(i).id] = doc[o].ver
    BY <2>1, <2>2, <2>3
  <2>5. ~doc[o].archived
    BY <1>1, <1>3 DEF Clear, LiveInv
  <2>6. InSync(o)'
    BY <1>2, <2>1, <2>4, <2>5 DEF InSync, Features
  <2>7. o \notin ToDelete'
    BY <1>1, <1>3 DEF Clear, CleanInv, Names
  <2>8. Carried(o, doc[o].ver)
    BY <1>1, <1>3 DEF Carried, Work
  <2> QED  BY <1>2, <2>6, <2>7, <2>8, Settles
<1>4. CASE i.obs = o /\ i.ver = doc[o].ver /\ (ToUpdate' = ToUpdate \cup {Update(i)} \/ i \in Missing')
  <2>1. Update(i).obs = i.obs /\ Update(i).ver = i.ver
    BY DEF Update
  <2>2. Carried(o, doc[o].ver)'
    BY <1>2, <1>4, <2>1 DEF Carried, Work
  <2> QED  BY <1>2, <2>2 DEF Followed, OnItsWay
<1>5. CASE ~(i.obs = o /\ i.ver = doc[o].ver)
  <2>1. \A j \in Work : j.obs = o /\ j.ver = doc[o].ver => j \in Work'
    BY <1>1, <1>5 DEF Work
  <2> QED  BY <1>1, <1>2, <2>1, OnItsWayStays
<1> QED  BY <1>3, <1>4, <1>5

(* What is sorted is added, asked for or deleted, or has nothing to delete.*)
LEMMA SortFollows ==
  ASSUME StateInv', NEW o \in Observations, Clear(o), o \notin doubtful', OnItsWay(o), Keeps(o),
         NEW b \in DOMAIN batch, processArcObjects(b)
  PROVE  Followed(o)'
<1>1. PICK old, live \in SUBSET Observations :
        /\ live = {i.obs : i \in {j \in ToSet(batch[b].items) : ~j.archived}}
        /\ \/ old = existingObservationIds /\ UNCHANGED <<again, doubtful>>
           \/ /\ doubtful' = doubtful \cup Of(batch[b].items)
              /\ again' = again \cup Of(batch[b].items)
        /\ ToSet(batch[b].items) \subseteq ToSort
        /\ ToSort' \subseteq ToSort /\ ToSort \subseteq ToSort' \cup ToSet(batch[b].items)
        /\ \A i \in ToSort' : \E d \in DOMAIN batch \ {b} : i \in ToSet(batch[d].items)
        /\ ToAdd' = ToAdd \cup {i \in ToSet(batch[b].items) : i.obs \in live \ old}
        /\ ToAsk' = ToAsk \cup {i \in ToSet(batch[b].items) : i.obs \in live \cap old}
        /\ ToDelete' = ToDelete \cup ((Of(batch[b].items) \ live) \cap old)
        /\ Missing' = Missing /\ ToUpdate' = ToUpdate
  BY SortFlow DEF Clear
<1>2. UNCHANGED <<doc, layer>>
  BY DEF processArcObjects, outside
<1> DEFINE items == batch[b].items
<1>3. Of(items) = Names(ToSet(items))
  BY ListSet
<1>4. CASE \A i \in Work : i.obs = o /\ i.ver = doc[o].ver => i \in Work'
  BY <1>1, <1>2, <1>4, OnItsWayStays
<1>5. ASSUME NEW i \in Work, i.obs = o, i.ver = doc[o].ver, i \notin Work' PROVE Followed(o)'
  <2>1. i \in ToSort /\ i \in ToSet(items)
    BY <1>1, <1>5 DEF Work
  <2>2. o \in Of(items) /\ o \in Names(ToSort)
    BY <1>3, <1>5, <2>1 DEF Names
  <2>3. old = existingObservationIds /\ o \notin ToDelete /\ doc[o].archived = i.archived
    BY <1>1, <1>5, <2>1, <2>2 DEF Clear, CleanInv, LiveInv
  <2>4. i \notin ToAdd' /\ i \notin ToAsk'
    BY <1>5 DEF Work
  <2>5. o \notin live
    BY <1>1, <1>5, <2>1, <2>4
  <2>6. doc[o].archived
    BY <1>1, <1>5, <2>1, <2>3, <2>5
  <2>7. CASE o \in old
    BY <1>1, <1>2, <2>2, <2>5, <2>6, <2>7 DEF Followed, OnItsWay
  <2>8. CASE o \notin old
    <3>1. Features(o)' = {} /\ o \notin ToDelete'
      BY <1>1, <1>2, <2>3, <2>8 DEF existingObservationIds, Features
    <3>2. InSync(o)'
      BY <1>2, <2>6, <3>1 DEF InSync
    <3>3. Carried(o, doc[o].ver)
      BY <1>5 DEF Carried
    <3> QED  BY <1>2, <3>1, <3>2, <3>3, Settles
  <2> QED  BY <2>7, <2>8
<1> QED  BY <1>4, <1>5

LEMMA OnItsWayStep ==
  ASSUME StateInv', [Next]_vars, NEW o \in Observations, Clear(o), o \notin doubtful', OnItsWay(o),
         \A l \in Chains : ~queryAndSend(l), ~Crash, doc'[o] = doc[o]
  PROVE  Followed(o)'
<1>1. Keeps(o)
  BY WorkStep DEF Clear
<1>2. Still => Followed(o)'
  BY OnItsWayStays DEF Still, Work
<1>3. ASSUME NEW x \in Observations, NEW archived \in BOOLEAN, NEW early \in BOOLEAN, Save(x, archived, early) PROVE Still
  <2>1. UNCHANGED <<batch, pending, loop>>
    BY <1>3 DEF Save, work
  <2> QED  BY <2>1, SameWork
<1>4. ASSUME NEW l \in Chains, CycleStep(l) \/ LayersFail(l) PROVE Followed(o)'
  <2>0. ASSUME updateConfig(l) \/ LayersFail(l) \/ NoLayers(l) PROVE Still
    <3>1. PICK cycle : Starts(l, cycle)
      BY <2>0, ConfigRead DEF Clear
    <3> QED  BY <3>1, UpdateConfigFlow DEF Clear
  <2>1. EndCycle(l) => Still
    BY EndCycleFlow DEF Clear
  <2>2. ASSUME processPendingUpdates(l) PROVE Followed(o)'
    <3>1. UNCHANGED <<ToSort, ToAdd, ToAsk, ToDelete, ToUpdate>>
      BY <2>2, PendingFlow DEF Clear
    <3>2. \A i \in Missing : i.obs # o
      BY DEF Clear, CleanInv, Names
    <3> QED  BY <3>1, <3>2, OnItsWayStays DEF Work
  <2>3. \A kind \in Kinds : SendPending(l, kind) => Followed(o)'
    BY <1>1, SendPendingFollows
  <2> QED  BY <1>2, <1>4, <2>0, <2>1, <2>2, <2>3 DEF CycleStep
<1>5. ASSUME NEW b \in DOMAIN batch, BatchStep(b) PROVE Followed(o)'
  <2>1. processArcObjects(b) => Followed(o)'
    BY <1>1, SortFollows
  <2>2. \A kind \in Kinds : SendBatch(b, kind) => Followed(o)'
    BY <1>1, SendBatchFollows
  <2>3. \A d \in Observations : sendDelete(b, d) => Followed(o)'
    BY DeleteFollows
  <2>4. \A i \in batch[b].asked : queryObservation(b, i) => Followed(o)'
    BY <1>1, QueryFollows
  <2> QED  BY <1>5, <2>1, <2>2, <2>3, <2>4 DEF BatchStep
<1>6. ASSUME NEW b \in DOMAIN batch, NEW i \in batch[b].asked, QueryFails(b, i) PROVE Followed(o)'
  <2>1. /\ UNCHANGED <<ToSort, ToAdd, ToDelete, Missing, ToUpdate>>
        /\ ToAsk \subseteq ToAsk' \cup {i}
    BY <1>6, FailFlow DEF Clear
  <2>2. i.obs # o
    BY <1>6 DEF QueryFails
  <2> QED  BY <2>1, <2>2, OnItsWayStays DEF Work
<1>7. ASSUME NEW changed \in BOOLEAN, putConfig(changed) PROVE Still
  BY <1>7, ConfigFlow DEF Clear
<1>8. CASE UNCHANGED vars
  <2>1. UNCHANGED <<batch, pending, loop>>
    BY <1>8 DEF vars, work
  <2> QED  BY <1>2, <2>1, SameWork
<1> QED  BY <1>2, <1>3, <1>4, <1>5, <1>6, <1>7, <1>8 DEF Next

(* What is shown stays, as long as nothing is on its way.                  *)
LEMMA SettledStep ==
  ASSUME StateInv, StateInv', [Next]_vars, NEW o \in Observations, VersionInv(o), Settled(o),
         \A l \in Chains : ~queryAndSend(l), doc'[o] = doc[o]
  PROVE  Followed(o)'
<1>1. Keeps(o) /\ Shows(o)
  BY WorkStep
<1>2. o \notin Names(Work) /\ o \notin ToDelete /\ InSync(o)
  BY DEF Settled
<1>3. \A v : ~Carried(o, v)
  BY <1>2 DEF Carried, Names
<1>4. o \notin Names(Work)'
  <2> SUFFICES ASSUME NEW i \in Work', i.obs = o PROVE FALSE
    BY DEF Names
  <2>1. i.ver \in Times /\ Carried(o, i.ver)'
    BY WorkTypedNext DEF WorkTyped, Carried
  <2> QED  BY <1>1, <1>3, <2>1 DEF Keeps
<1>5. o \notin ToDelete'
  <2>1. ASSUME NEW b \in DOMAIN batch, processArcObjects(b) PROVE o \notin ToDelete'
    <3>1. ToSet(batch[b].items) \subseteq ToSort /\ ToDelete' \subseteq ToDelete \cup Of(batch[b].items)
      BY <2>1, SortFlow
    <3>2. o \notin Of(batch[b].items)
      BY <1>2, <3>1, ListSet DEF Names, Work
    <3> QED  BY <1>2, <3>1, <3>2
  <2>2. ASSUME NEW b \in DOMAIN batch, NEW i \in batch[b].asked, queryObservation(b, i)
        PROVE  o \notin ToDelete'
    BY <1>2, <2>2, QueryFlow
  <2>3. CASE \A b \in DOMAIN batch :
               ~processArcObjects(b) /\ \A i \in batch[b].asked : ~queryObservation(b, i)
    BY <1>2, <2>3, FewerStep DEF FewerWork
  <2> QED  BY <2>1, <2>2, <2>3
<1>6. layer[o] \in Seq(Times) /\ layer'[o] \in Seq(Times)
  BY DEF StateInv, TypeOK
<1>7. \A f \in Features(o)' : f \in Features(o) /\ layer'[o][f] = layer[o][f]
  <2>1. \A f \in Features(o)' : f \in Shown(layer'[o])
    BY DEF Features, Shown
  <2> QED  BY <1>1, <1>3, <2>1 DEF Shows
<1>8. Features(o) \subseteq Features(o)'
  BY <1>2, FeaturesStay
<1>9. InSync(o)'
  <2>1. CASE doc[o].archived
    BY <1>2, <1>7, <2>1 DEF InSync
  <2>2. CASE ~doc[o].archived /\ doc[o].early
    BY <2>2 DEF InSync
  <2>3. CASE ~doc[o].archived /\ ~doc[o].early
    <3>1. PICK f \in Features(o) : layer[o][f] = doc[o].ver
      BY <1>2, <2>3 DEF InSync
    <3>2. f \in Features(o)' /\ layer'[o][f] = doc'[o].ver
      BY <1>7, <1>8, <3>1
    <3> QED  BY <2>3, <3>2 DEF InSync
  <2> QED  BY <2>1, <2>2, <2>3
<1> QED  BY <1>4, <1>5, <1>9 DEF Followed, Settled

-----------------------------------------------------------------------------
(***************************************************************************)
(* The last version is going to be read until it is.                       *)
(***************************************************************************)
(* Cycles that go on, and those that begin, have yet to read it.           *)
LEMMA StillToRead ==
  ASSUME NEW o \in Observations, ToRead(o), UNCHANGED <<doc, time, proc, link>>,
         \A l \in Chains : \/ loop'[l] = loop[l]
                           \/ loop'[l].at \notin {"page", "end"}
                           \/ loop'[l] = FirstPage
  PROVE  Followed(o)'
<1>1. \A t : Place(t, o)' = Place(t, o)
  BY DEF Place
<1>2. ASSUME link' = "made", NEW l \in Chains, loop'[l].proc = proc',
             loop'[l].at \in {"page", "end"}, doc'[o].ver < loop'[l].next
      PROVE  Ahead(l, o)'
  <2>1. CASE loop'[l] = loop[l]
    <3>1. Ahead(l, o)
      BY <1>2, <2>1 DEF ToRead
    <3> QED  BY <1>1, <2>1, <3>1 DEF Ahead
  <2>2. CASE loop'[l] = FirstPage
    <3>1. FirstPage.at = "page" /\ FirstPage.proc = proc /\ FirstPage.page = 0
      BY <1>2 DEF FirstPage, NoCycle
    <3> QED  BY <2>2, <3>1 DEF Ahead, ToRead
  <2> QED  BY <1>2, <2>1, <2>2
<1> QED  BY <1>2 DEF ToRead, Followed

(* No cycle has begun for a processor that is new.                         *)
LEMMA StartsReads ==
  ASSUME StateInv, ReadInv, LinkInv, NEW l \in Chains, NEW cycle, Starts(l, cycle),
         NEW o \in Observations, ToRead(o)
  PROVE  Followed(o)'
<1>1. /\ proc \in Processors /\ config \in Processors /\ doc[o].ver \in Nat
      /\ loop \in [Chains -> Cycle] /\ time[proc] <= doc[o].ver
      /\ \A k \in Chains : loop[k].proc \in Processors
  BY Values DEF StateInv, TypeOK, ToRead, Cycle
<1>2. /\ UNCHANGED <<doc, time>> /\ proc' = config /\ Goes(l, cycle) /\ cycle.at \in {"query", "armed"}
      /\ proc # config \/ link = "new" \/ link' = link
  BY DEF Starts, NoCycle
<1>3. time[config] <= doc[o].ver
  <2>1. CASE config = proc
    BY <1>1, <2>1
  <2>2. CASE config # proc
    <3>1. config > proc
      BY <1>1, <2>2, ArcGISAssumption DEF ReadInv, Processors
    <3>2. time[config] = 0
      BY <1>1, <3>1 DEF ReadInv
    <3> QED  BY <1>1, <3>2
  <2> QED  BY <2>1, <2>2
<1>4. ASSUME link' = "made", NEW k \in Chains, loop'[k].proc = proc',
             loop'[k].at \in {"page", "end"}, doc'[o].ver < loop'[k].next
      PROVE  Ahead(k, o)'
  <2>1. k # l /\ loop'[k] = loop[k]
    BY <1>1, <1>2, <1>4 DEF Goes
  <2>2. link # "new" /\ loop[k].proc <= proc
    BY <1>4, <2>1 DEF LinkInv
  <2>3. proc = config
    BY <1>1, <1>2, <1>4, <2>1, <2>2, ArcGISAssumption DEF ReadInv, Processors
  <2>4. link = "made"
    BY <1>2, <1>4, <2>2, <2>3
  <2>5. Ahead(k, o)
    BY <1>2, <1>4, <2>1, <2>3, <2>4 DEF ToRead
  <2>6. \A t : Place(t, o)' = Place(t, o)
    BY <1>2 DEF Place
  <2> QED  BY <1>2, <2>1, <2>5, <2>6 DEF Ahead
<1> QED  BY <1>2, <1>3, <1>4 DEF ToRead, Followed

LEMMA SaveReads ==
  ASSUME StateInv, ReadInv, NEW x \in Observations, NEW archived \in BOOLEAN, NEW early \in BOOLEAN, Save(x, archived, early),
         NEW o \in Observations, o \notin doubtful', x = o \/ ToRead(o)
  PROVE  Followed(o)'
<1>1. /\ UNCHANGED <<loop, time, proc, link>>
      /\ doc'[x] = [ver |-> now + 1, archived |-> archived, early |-> early]
      /\ \A y \in Observations \ {x} : doc'[y] = doc[y]
      /\ now \in Nat /\ \A y \in Observations : doc[y].ver \in Nat /\ doc[y].ver < now + 1
  BY SaveIsNew
<1>2. CASE x = o
  <2>1. \A l \in Chains : loop[l].next \in Nat /\ loop[l].next <= now + 1
    BY Values DEF ReadInv, StateInv, TypeOK, Cycle
  <2>2. proc \in Processors /\ time[proc] <= now + 1
    BY DEF ReadInv, StateInv, TypeOK
  <2>3. doc'[o].ver = now + 1
    BY <1>1, <1>2
  <2>4. \A l \in Chains : ~(doc'[o].ver < loop[l].next)
    BY <1>1, <2>1, <2>3
  <2> QED  BY <1>1, <2>2, <2>3, <2>4 DEF ToRead, Followed
<1>3. CASE x # o
  <2>1. doc'[o] = doc[o] /\ ToRead(o)
    BY <1>1, <1>3
  <2>2. ASSUME link = "made", NEW l \in Chains, loop[l].proc = proc,
               loop[l].at \in {"page", "end"}, doc[o].ver < loop[l].next
        PROVE  Ahead(l, o)'
    <3>1. Ahead(l, o)
      BY <2>1, <2>2 DEF ToRead
    <3> DEFINE t == time[loop[l].proc]
    <3>2. CASE loop[l].page = 0
      BY <1>1, <2>1, <3>1, <3>2 DEF Ahead
    <3>3. CASE loop[l].page # 0
      <4>1. t \in Nat /\ loop[l].page \in Nat
        BY Values DEF StateInv, TypeOK, Cycle
      <4>2. l \in Reading
        BY <3>1, <3>3, <4>1 DEF Ahead, Reading
      <4>3. ~(t <= doc[x].ver /\ doc[x].ver <= doc[o].ver)
        <5> SUFFICES ASSUME t <= doc[x].ver, doc[x].ver <= doc[o].ver PROVE FALSE
          OBVIOUS
        <5>1. doc[x].ver # doc[o].ver
          BY <1>3 DEF StateInv, ClockInv
        <5>2. doc[o].ver > doc[x].ver /\ doc[x].ver >= t
          <6> HIDE DEF t
          <6> QED  BY <1>1, <4>1, <5>1
        <5>3. o \in doubtful'
          BY <4>2, <5>2 DEF Save
        <5> QED  BY <5>3
      <4>4. ~(doc'[x].ver <= doc[o].ver)
        BY <1>1
      <4>5. {y \in Observations : t <= doc'[y].ver /\ doc'[y].ver <= doc'[o].ver}
              = {y \in Observations : t <= doc[y].ver /\ doc[y].ver <= doc[o].ver}
        <5> HIDE DEF t
        <5>1. \A y \in Observations :
                (t <= doc'[y].ver /\ doc'[y].ver <= doc'[o].ver) <=> (t <= doc[y].ver /\ doc[y].ver <= doc[o].ver)
          BY <1>1, <2>1, <4>3, <4>4
        <5> QED  BY <5>1
      <4>6. Place(t, o)' = Place(t, o)
        BY <1>1, <4>5 DEF Place
      <4> QED  BY <1>1, <2>1, <3>1, <4>6 DEF Ahead
    <3> QED  BY <3>2, <3>3
  <2> QED  BY <1>1, <2>1, <2>2 DEF ToRead, Followed
<1> QED  BY <1>2, <1>3

LEMMA CrashReads ==
  ASSUME StateInv, Crash, NEW o \in Observations
  PROVE  Followed(o)'
<1>1. /\ UNCHANGED <<doc, proc>> /\ time' = [p \in Processors |-> 0]
      /\ \A l \in Chains : loop'[l].at \in {"config", "none"}
  BY DEF Crash, outside, NoCycle
<1>2. time'[proc'] <= doc'[o].ver
  <2>1. proc \in Processors /\ doc[o].ver \in Nat
    BY Values DEF StateInv, TypeOK
  <2>2. time'[proc'] = 0
    BY <1>1, <2>1
  <2> QED  BY <1>1, <2>1, <2>2
<1> QED  BY <1>1, <1>2 DEF ToRead, Followed

(* The time that a cycle sets is no later than what it has not read.       *)
LEMMA EndCycleReads ==
  ASSUME StateInv, NEW l \in Chains, EndCycle(l), NEW o \in Observations, o \notin doubtful', ToRead(o)
  PROVE  Followed(o)'
<1>0. CASE link # "made"
  <2>1. UNCHANGED <<doc, proc, link, time>>
    BY <1>0 DEF EndCycle, Armed, outside
  <2> QED  BY <1>0, <2>1 DEF ToRead, Followed
<1>a. SUFFICES ASSUME link = "made" PROVE Followed(o)'
  BY <1>0
<1>1. /\ loop[l].at = "end" \/ NothingNew(l)
      /\ Goes(l, NoCycle("armed")) /\ time' = [time EXCEPT ![proc] = loop[l].next]
      /\ UNCHANGED <<doc, proc>>
      /\ loop[l].proc = proc /\ Reading \ {l} = {}
  BY <1>a DEF EndCycle, Armed, outside
<1>2. /\ loop \in [Chains -> Cycle] /\ time \in [Processors -> Times] /\ proc \in Processors
      /\ doc[o].ver \in Nat /\ loop[l].next \in Nat
      /\ \A k \in Chains : time[loop[k].proc] \in Nat /\ loop[k].page \in Nat /\ loop[k].proc \in Processors
  BY Values DEF StateInv, TypeOK, Cycle
<1>3. loop[l].next <= doc[o].ver
  <2> SUFFICES ASSUME doc[o].ver < loop[l].next PROVE FALSE
    BY <1>2
  <2>1. Ahead(l, o)
    BY <1>a, <1>1 DEF ToRead, NothingNew
  <2>2. findLastModifiedAfter(time[loop[l].proc]) = <<>>
    BY <1>1, <2>1 DEF Ahead, NothingNew
  <2>3. Place(time[loop[l].proc], o) \in 1..Len(findLastModifiedAfter(time[loop[l].proc]))
    BY <1>2, <2>1, FoundPlace DEF Ahead
  <2>4. Len(<<>>) = 0 /\ 1..0 = {}
    OBVIOUS
  <2> QED  BY <2>2, <2>3, <2>4
<1>4. ASSUME NEW k \in Chains, loop'[k].proc = proc', loop'[k].at \in {"page", "end"},
             doc'[o].ver < loop'[k].next
      PROVE  Ahead(k, o)'
  <2>1. k # l /\ loop'[k] = loop[k]
    BY <1>1, <1>2, <1>4 DEF Goes, NoCycle
  <2>2. Ahead(k, o)
    BY <1>a, <1>1, <1>4, <2>1 DEF ToRead
  <2>3. loop[k].page = 0
    BY <1>1, <1>2, <2>1, <2>2 DEF Reading, Ahead
  <2>4. time'[loop[k].proc] <= doc[o].ver
    BY <1>1, <1>2, <1>3, <2>2 DEF Ahead
  <2> QED  BY <1>1, <2>1, <2>2, <2>3, <2>4 DEF Ahead
<1> QED  BY <1>1, <1>2, <1>3, <1>4 DEF ToRead, Followed

LEMMA ToReadStep ==
  ASSUME StateInv, ReadInv, LinkInv, [Next]_vars, NEW o \in Observations, o \notin doubtful', ToRead(o),
         \A l \in Chains : ~queryAndSend(l)
  PROVE  Followed(o)'
<1>0. /\ proc \in Processors /\ config \in Processors /\ doc[o].ver \in Nat
      /\ loop \in [Chains -> Cycle] /\ time[proc] <= doc[o].ver
  BY Values DEF StateInv, TypeOK, ToRead
<1>1. ASSUME NEW x \in Observations, NEW archived \in BOOLEAN, NEW early \in BOOLEAN, Save(x, archived, early) PROVE Followed(o)'
  BY <1>1, SaveReads
<1>2. ASSUME NEW changed \in BOOLEAN, putConfig(changed) PROVE Followed(o)'
  <2>1. UNCHANGED <<doc, time, proc, link>>
    BY <1>2 DEF putConfig, outside
  <2>2. \A l \in Chains : loop'[l] = loop[l] \/ loop'[l].at \in {"none", "config"}
    BY <1>2, ConfigFlow
  <2> QED  BY <1>0, <2>1, <2>2, StillToRead
<1>3. ASSUME NEW l \in Chains, CycleStep(l) \/ LayersFail(l) PROVE Followed(o)'
  <2>1. CASE updateConfig(l) \/ LayersFail(l) \/ NoLayers(l)
    <3>1. PICK cycle : Starts(l, cycle)
      BY <2>1, ConfigRead
    <3> QED  BY <3>1, StartsReads
  <2>2. CASE processPendingUpdates(l)
    <3>1. UNCHANGED <<doc, time, proc, link>>
      BY <2>2 DEF processPendingUpdates, outside, setup
    <3>2. Goes(l, FirstPage) \/ \E cycle : Goes(l, cycle) /\ cycle.at = "send"
      BY <2>2, PendingFlow
    <3>3. \A k \in Chains : loop'[k] = loop[k] \/ loop'[k] = FirstPage \/ loop'[k].at = "send"
      BY <1>0, <3>2 DEF Goes
    <3> QED  BY <1>0, <3>1, <3>3, StillToRead
  <2>3. ASSUME NEW kind \in Kinds, SendPending(l, kind) PROVE Followed(o)'
    <3>1. UNCHANGED <<doc, time, proc, link>>
      BY <2>3 DEF SendPending, outside, setup
    <3>2. Goes(l, FirstPage) \/ \E cycle : Goes(l, cycle) /\ cycle.at = "send"
      BY <2>3, SendPendingFlow
    <3>3. \A k \in Chains : loop'[k] = loop[k] \/ loop'[k] = FirstPage \/ loop'[k].at = "send"
      BY <1>0, <3>2 DEF Goes
    <3> QED  BY <1>0, <3>1, <3>3, StillToRead
  <2>4. CASE EndCycle(l)
    BY <2>4, EndCycleReads
  <2> QED  BY <1>3, <2>1, <2>2, <2>3, <2>4 DEF CycleStep
<1>4. ASSUME NEW b \in DOMAIN batch, BatchStep(b) \/ \E i \in batch[b].asked : QueryFails(b, i)
      PROVE  Followed(o)'
  <2>1. UNCHANGED <<doc, time, proc, link, loop>>
    BY <1>4 DEF BatchStep, processArcObjects, SendBatch, sendDelete, queryObservation, QueryFails,
                outside, setup
  <2> QED  BY <1>0, <2>1, StillToRead
<1>5. CASE Crash
  BY <1>5, CrashReads
<1>6. CASE UNCHANGED vars
  <2>1. UNCHANGED <<doc, time, proc, link, loop>>
    BY <1>6 DEF vars, outside, setup, work
  <2> QED  BY <1>0, <2>1, StillToRead
<1> QED  BY <1>1, <1>2, <1>3, <1>4, <1>5, <1>6 DEF Next

(* What a cycle has yet to read is on the page it reads or a later one.    *)
LEMMA PageAhead ==
  ASSUME StateInv, NEW l \in Chains, NEW items, NEW next, NEW left, ReadsPage(l, items, next, left),
         NEW o \in Observations, o \notin ToSet(PageOf(l)), Ahead(l, o)
  PROVE  Ahead(l, o)'
<1> DEFINE t     == time[loop[l].proc]
           found == findLastModifiedAfter(t)
           skip  == loop[l].page * PageSize
           place == Place(t, o)
           page  == PageOf(l)
<1>1. /\ loop[l] \in Cycle /\ t \in Nat /\ loop[l].page \in Nat /\ loop[l].left \in Int /\ t <= doc[o].ver
      /\ PageSize \in Nat \ {0} /\ LastId \in Nat
  BY Values, ArcGISAssumption DEF StateInv, TypeOK, Cycle, Ahead
<1>2. skip \in Nat /\ loop[l].page <= skip
      /\ (loop[l].page = 0 => skip = 0) /\ (loop[l].page + 1) * PageSize = skip + PageSize
  <2>1. \A p, s \in Nat : s # 0 => p * s \in Nat /\ p <= p * s /\ (p + 1) * s = p * s + s
    <3> SUFFICES ASSUME NEW p \in Nat, NEW s \in Nat, s # 0
                 PROVE  p * s \in Nat /\ p <= p * s /\ (p + 1) * s = p * s + s
      OBVIOUS
    <3>1. p * s \in Nat /\ (p + 1) * s = p * s + s
      OBVIOUS
    <3>2. p <= p * s
      OBVIOUS
    <3> QED  BY <3>1, <3>2
  <2>2. \A s \in Nat : 0 * s = 0
    OBVIOUS
  <2> QED  BY <1>1, <2>1, <2>2
<1>3. /\ loop' = [loop EXCEPT ![l] = next] /\ loop \in [Chains -> Cycle]
      /\ next = [loop[l] EXCEPT !.at = IF left > 0 THEN "page" ELSE "end",
                                !.page = IF loop[l].page < LastId THEN loop[l].page + 1 ELSE loop[l].page,
                                !.left = left]
      /\ left = (IF loop[l].page = 0 THEN Len(found) ELSE loop[l].left) - Len(page) /\ left \in Int
      /\ UNCHANGED <<doc, time>>
  BY DEF ReadsPage, Goes, StateInv, TypeOK
<1>4. page = SubSeq(found, skip + 1, IF skip + PageSize < Len(found) THEN skip + PageSize ELSE Len(found))
  BY DEF PageOf
<1>5. skip < place /\ (loop[l].page # 0 => place <= skip + loop[l].left)
  <2>1. CASE loop[l].page = 0
    <3>1. place \in 1..Len(found)
      BY <1>1, FoundPlace
    <3>2. found \in Seq(Observations)
      BY FoundList DEF StateInv
    <3> HIDE DEF place, found, skip
    <3> QED  BY <1>2, <2>1, <3>1, <3>2
  <2>2. CASE loop[l].page # 0
    BY <2>2 DEF Ahead
  <2> QED  BY <2>1, <2>2
<1>6. /\ place \in Nat /\ skip + PageSize < place /\ place <= Len(found) /\ Len(found) \in Nat
      /\ Len(page) = PageSize /\ skip + PageSize < LastId
  <2>1. o \notin ToSet(page)
    OBVIOUS
  <2>2. skip \in Nat /\ t \in Nat /\ t <= doc[o].ver /\ skip < place
    BY <1>1, <1>2, <1>5
  <2> HIDE DEF page, skip, t
  <2> QED  BY <1>4, <2>1, <2>2, PagePlace
<1>7. Place(time[loop[l].proc], o)' = place
  BY <1>3 DEF Place
<1> HIDE DEF found, place, page, t
<1>8. left > 0 /\ place <= skip + PageSize + left /\ loop[l].page < LastId
  <2> HIDE DEF skip
  <2> QED  BY <1>1, <1>2, <1>3, <1>5, <1>6
<1>9. /\ loop'[l] = next /\ next.at = "page" /\ next.page = loop[l].page + 1 /\ next.left = left
      /\ next.proc = loop[l].proc
  BY <1>1, <1>3, <1>8 DEF Cycle
<1>10. time'[loop'[l].proc] <= doc'[o].ver
  BY <1>1, <1>3, <1>9 DEF t
<1>11. loop'[l].page * PageSize = skip + PageSize
  BY <1>2, <1>9
<1>12. /\ loop'[l].page * PageSize < Place(time[loop[l].proc], o)'
       /\ Place(time[loop[l].proc], o)' <= loop'[l].page * PageSize + loop'[l].left
  BY <1>6, <1>7, <1>8, <1>9, <1>11
<1> QED  BY <1>9, <1>10, <1>12 DEF Ahead

LEMMA PageFollows ==
  ASSUME StateInv, NEW l \in Chains, NEW items, NEW next, NEW left, ReadsPage(l, items, next, left),
         NEW o \in Observations, o \notin doubtful', o \notin doubtful => Followed(o)
  PROVE  Followed(o)'
<1>1. /\ UNCHANGED <<ToAdd, ToAsk, ToDelete, Missing, ToUpdate>>
      /\ ToSort' = ToSort \cup ToSet(items)
  BY PageWork
<1>2. /\ UNCHANGED <<doc, layer, time, proc, link>> /\ loop' = [loop EXCEPT ![l] = next]
      /\ loop \in [Chains -> Cycle]
      /\ next.next = loop[l].next /\ next.proc = loop[l].proc /\ loop[l].at = "page"
      /\ \A i \in ToSet(items) : i.ver = doc[i.obs].ver
      /\ doubtful' = IF loop[l].proc = proc
                     THEN (doubtful \ ToSet(PageOf(l))) \cup (ToSet(PageOf(l)) \cap InFlight)
                     ELSE doubtful \cup ToSet(PageOf(l))
      /\ Of(items) = ToSet(PageOf(l)) \cap Synced
  BY DEF ReadsPage, Goes, Cycle, StateInv, TypeOK
<1>3. Of(items) = Names(ToSet(items))
  BY ListSet
<1>4. CASE o \in Of(items)
  <2>1. PICK i \in ToSet(items) : i.obs = o
    BY <1>3, <1>4 DEF Names
  <2>2. i \in Work' /\ i.ver = doc'[o].ver
    BY <1>1, <1>2, <2>1 DEF Work
  <2> QED  BY <2>1, <2>2 DEF Followed, OnItsWay, Carried
<1>5. CASE o \in ToSet(PageOf(l)) \ Of(items)
  <2>1. ~doc'[o].archived /\ doc'[o].early /\ o \notin InFlight
    BY <1>2, <1>5 DEF Synced
  <2>2. o \notin Names(Work) /\ o \notin ToDelete
    BY <2>1, WorkInFlight
  <2>3. o \notin Names(Work)' /\ o \notin ToDelete'
    BY <1>1, <1>3, <1>5, <2>2 DEF Names, Work
  <2> QED  BY <2>1, <2>3 DEF Followed, Settled, InSync
<1>6. CASE o \notin ToSet(PageOf(l))
  <2>0. o \notin Of(items)
    BY <1>2, <1>6
  <2>1. Followed(o)
    BY <1>2, <1>6
  <2>2. CASE OnItsWay(o)
    BY <1>1, <1>2, <2>2, OnItsWayStays DEF Work
  <2>3. CASE Settled(o)
    <3>1. InSync(o)'
      BY <1>2, <2>3 DEF Settled, InSync, Features
    <3>2. o \notin Names(Work)' /\ o \notin ToDelete'
      BY <1>1, <1>3, <2>0, <2>3 DEF Settled, Names, Work
    <3> QED  BY <3>1, <3>2 DEF Followed, Settled
  <2>4. CASE ToRead(o)
    <3>1. ASSUME link' = "made", NEW k \in Chains, loop'[k].proc = proc',
                 loop'[k].at \in {"page", "end"}, doc'[o].ver < loop'[k].next
          PROVE  Ahead(k, o)'
      <4>1. CASE k = l
        <5>1. Ahead(l, o)
          BY <1>2, <2>4, <3>1, <4>1 DEF ToRead
        <5> QED  BY <1>6, <4>1, <5>1, PageAhead
      <4>2. CASE k # l
        <5>1. loop'[k] = loop[k]
          BY <1>2, <4>2
        <5>2. Ahead(k, o)
          BY <1>2, <2>4, <3>1, <5>1 DEF ToRead
        <5>3. \A t : Place(t, o)' = Place(t, o)
          BY <1>2 DEF Place
        <5> QED  BY <1>2, <5>1, <5>2, <5>3 DEF Ahead
      <4> QED  BY <4>1, <4>2
    <3>2. time'[proc'] <= doc'[o].ver
      BY <1>2, <2>4 DEF ToRead
    <3> QED  BY <3>1, <3>2 DEF ToRead, Followed
  <2> QED  BY <2>1, <2>2, <2>3, <2>4 DEF Followed
<1> QED  BY <1>2, <1>4, <1>5, <1>6

LEMMA FollowStep ==
  ASSUME StateInv, StateInv', ReadInv, LinkInv, [Next]_vars, NEW o \in Observations, VersionInv(o),
         o \notin doubtful', o \notin doubtful => EditInv(o)
  PROVE  Followed(o)'
<1>1. CASE \E l \in Chains : queryAndSend(l)
  <2>1. PICK l \in Chains : queryAndSend(l)
    BY <1>1
  <2>2. PICK items, next, left : ReadsPage(l, items, next, left)
    BY <2>1, PageFlow
  <2> QED  BY <2>2, PageFollows DEF EditInv
<1>2. CASE \A l \in Chains : ~queryAndSend(l)
  <2>1. o \notin doubtful
    BY <1>2, DoubtStays
  <2>2. Clear(o) /\ Followed(o)
    BY <2>1 DEF Clear, EditInv
  <2>3. CASE Crash
    BY <2>3, CrashReads
  <2>4. CASE \E archived, early \in BOOLEAN : Save(o, archived, early)
    BY <2>4, SaveReads
  <2>5. CASE ~Crash /\ \A archived, early \in BOOLEAN : ~Save(o, archived, early)
    <3>1. doc'[o] = doc[o]
      <4>1. CASE \E x \in Observations, archived, early \in BOOLEAN : Save(x, archived, early)
        <5>1. PICK x \in Observations, archived, early \in BOOLEAN : Save(x, archived, early)
          BY <4>1
        <5> QED  BY <2>5, <5>1, SaveIsNew
      <4>2. CASE \A x \in Observations, archived, early \in BOOLEAN : ~Save(x, archived, early)
        BY <4>2, DocStays
      <4> QED  BY <4>1, <4>2
    <3>2. OnItsWay(o) => Followed(o)'
      BY <1>2, <2>2, <2>5, <3>1, OnItsWayStep
    <3>3. Settled(o) => Followed(o)'
      BY <1>2, <3>1, SettledStep
    <3>4. ToRead(o) => Followed(o)'
      BY <1>2, ToReadStep
    <3> QED  BY <2>2, <3>2, <3>3, <3>4 DEF Followed
  <2> QED  BY <2>3, <2>4, <2>5
<1> QED  BY <1>1, <1>2

LEMMA InitEdit ==
  ASSUME Init, NEW o \in Observations
  PROVE  EditInv(o)
<1>1. /\ DOMAIN batch = {} /\ time = [p \in Processors |-> 0] /\ proc = 1 /\ link = "new" /\ doc[o].ver = o
      /\ \A l \in Chains : loop[l].at \in {"config", "none"}
  BY DEF Init, NoCycle
<1>2. CleanInv(o)
  BY <1>1, InitWork DEF CleanInv, Names
<1>3. LiveInv(o)
  BY InitWork DEF LiveInv
<1>4. time[proc] = 0 /\ 0 <= doc[o].ver
  BY <1>1, Values, ArcGISAssumption DEF Observations
<1> QED  BY <1>1, <1>2, <1>3, <1>4 DEF EditInv, Followed, ToRead

LEMMA SafeStep == SafeInv /\ [Next]_vars => SafeInv'
<1> SUFFICES ASSUME SafeInv, [Next]_vars PROVE SafeInv'
  OBVIOUS
<1>1. StateInv /\ ReadInv /\ LinkInv /\ (\A o \in Observations : VersionInv(o))
      /\ \A o \in Observations \ doubtful : EditInv(o)
  BY DEF SafeInv
<1>2. StateInv' /\ ReadInv' /\ LinkInv' /\ \A o \in Observations : VersionInv(o)'
  BY <1>1, StateStep, ReadStep, LinkStep, VersionStep DEF VersionsInv
<1>3. ASSUME NEW o \in Observations, o \notin doubtful' PROVE EditInv(o)'
  <2>1. VersionInv(o) /\ (o \notin doubtful => EditInv(o))
    BY <1>1
  <2>2. CleanInv(o)'
    BY <1>1, <1>3, <2>1, CleanStep DEF EditInv
  <2>3. LiveInv(o)'
    BY <1>1, <1>3, <2>1, LiveStep DEF EditInv
  <2>4. Followed(o)'
    BY <1>1, <1>2, <1>3, <2>1, FollowStep
  <2> QED  BY <2>2, <2>3, <2>4 DEF EditInv
<1> QED  BY <1>2, <1>3 DEF SafeInv

(* The inductive invariant: every observation has one version on its way,  *)
(* is handled in one way, and its last version is followed from its write  *)
(* until the layer shows it (queryAndSend, processArcObjects, send).       *)
THEOREM SafeCorrect == Spec => []SafeInv
<1>1. Init => SafeInv
  BY InitState, InitRead, InitLink, InitVersion, InitEdit DEF SafeInv
<1> QED  BY <1>1, SafeStep, PTL DEF Spec

(* No edit is forgotten: the last version of every observation is shown,   *)
(* or of before the event's date, or on its way, or a cycle will read it,  *)
(* whatever pages, cycles, saves of the configuration, failures and        *)
(* restarts overlap; unless it was passed over, read while an earlier      *)
(* version was on its way, or had a request fail, the cases that           *)
(* EditsReachLayer leaves out.  After the requests for the layer have      *)
(* failed none reads it, and the next processor made has everything to     *)
(* read (FeatureLayerProcessor, ObservationProcessor).                     *)
THEOREM NothingLostCorrect == Spec => []NothingLost
<1>1. SafeInv => NothingLost
  <2> SUFFICES ASSUME SafeInv PROVE NothingLost
    OBVIOUS
  <2>1. \A o \in Observations \ doubtful : OnItsWay(o) \/ ToRead(o) \/ InSync(o)
    BY DEF SafeInv, EditInv, Followed, Settled
  <2>2. link = "made" \/ Unlinked
    BY DEF SafeInv, ReadInv, LinkInv, Unlinked
  <2> QED  BY <2>1, <2>2 DEF NothingLost
<1> QED  BY <1>1, SafeCorrect, PTL

(* What was modified before the time of the processor, and is not in       *)
(* flight, is shown, unless it is of before the event's date (InSync):     *)
(* nothing older needs to be read again, which is why the next cycle       *)
(* begins there (processAndScheduleNext, lastTimeStamp).                   *)
ReadIsShown ==
    \A o \in Observations \ doubtful : doc[o].ver < time[proc] /\ o \notin InFlight => InSync(o)

(* The time a processor has read up to is one it can rely on, for every    *)
(* observation that was last read cleanly (ObservationProcessor).          *)
THEOREM ReadIsShownCorrect == Spec => []ReadIsShown
<1>1. SafeInv => ReadIsShown
  <2> SUFFICES ASSUME SafeInv, NEW o \in Observations \ doubtful,
                      doc[o].ver < time[proc], o \notin InFlight
               PROVE  InSync(o)
    BY DEF ReadIsShown
  <2>1. doc[o].ver \in Nat /\ time[proc] \in Nat
    BY Values DEF SafeInv, StateInv, TypeOK
  <2>2. ~ToRead(o)
    BY <2>1 DEF ToRead
  <2>3. ~OnItsWay(o)
    BY WorkInFlight DEF OnItsWay, Carried, Names
  <2> QED  BY <2>2, <2>3 DEF SafeInv, EditInv, Followed, Settled
<1> QED  BY <1>1, SafeCorrect, PTL
=============================================================================
