----------------------- MODULE ImageProcessing_proofs -----------------------
(***************************************************************************)
(* Theorems about ImageProcessing, for any set of images, any batch size,  *)
(* and any number of uploads, configuration changes and failures.          *)
(***************************************************************************)
EXTENDS ImageProcessing, FiniteSetTheorems, SequenceTheorems, TLAPS

(***************************************************************************)
(* The inductive invariant, in parts.                                      *)
(***************************************************************************)
(* An interval has an attachment at hand while it works on one. *)
WorkInv ==
    \A i \in Chains :
        interval[i].at \in {"read", "store", "patch", "thumb", "mark"} => interval[i].todo # <<>>

AliveIn(chains) == {i \in Chains : chains[i].at # "none"}
Count(chains) == Cardinality(AliveIn(chains))

(* A chain of its own for each stop that found an interval at work: while  *)
(* the plugin is stopped, and when neither the interval begun last nor the *)
(* timer armed last is there, one chain fewer is alive.                    *)
ChainInv ==
    /\ interrupted <= configs
    /\ Count(interval) <= 1 + interrupted
    /\ control.stopped => Count(interval) <= interrupted
    /\ control.running \notin Running /\ interval[control.timer].at # "armed" =>
           Count(interval) <= interrupted

(* What an upload wrote is in the file until the next upload, or is what   *)
(* an interval has at hand to put there.                                   *)
KeptInv ==
    \A a \in Images \ contended :
        /\ file[a].up = IF upload[a].at = "streaming" THEN upload[a].up ELSE newest[a]
        /\ \A i \in Chains : interval[i].at = "store" /\ Has(i, a) =>
               interval[i].up = file[a].up /\ upload[a].at # "streaming"

ImageInv == TypeOK /\ WorkInv /\ ChainInv /\ KeptInv

Control == [stopped : BOOLEAN, running : Chains, timer : Chains]
-----------------------------------------------------------------------------
(***************************************************************************)
(* Chains, counted.                                                        *)
(***************************************************************************)
LEMMA ChainsFinite ==
  IsFiniteSet(Chains) /\ Cardinality(Chains) = MaxConfigs + 1 /\ 1 \in Chains
<1>1. MaxConfigs + 1 \in Int /\ 1 \in Int /\ ~(1 > MaxConfigs + 1) /\ 1 \in Chains
  BY ImageProcessingAssumption DEF Chains
<1>2. QED
  BY <1>1, FS_Interval, ImageProcessingAssumption DEF Chains

LEMMA CountType == ASSUME NEW f PROVE Count(f) \in Nat /\ IsFiniteSet(AliveIn(f))
<1>1. AliveIn(f) \subseteq Chains
  BY DEF AliveIn
<1>2. IsFiniteSet(AliveIn(f))
  BY <1>1, ChainsFinite, FS_Subset
<1>3. QED
  BY <1>2, FS_CardinalityType DEF Count

(* One chain that comes to life or ends counts for one. *)
LEMMA CountStep ==
  ASSUME NEW f, NEW g, NEW i \in Chains, \A k \in Chains \ {i} : g[k] = f[k]
  PROVE  Count(g) = IF f[i].at # "none" /\ g[i].at = "none" THEN Count(f) - 1
                    ELSE IF f[i].at = "none" /\ g[i].at # "none" THEN Count(f) + 1
                    ELSE Count(f)
<1>1. CASE f[i].at # "none" /\ g[i].at = "none"
  <2>1. AliveIn(g) = AliveIn(f) \ {i} /\ i \in AliveIn(f)
    BY <1>1 DEF AliveIn
  <2>2. QED
    BY <1>1, <2>1, CountType, FS_RemoveElement DEF Count
<1>2. CASE f[i].at = "none" /\ g[i].at # "none"
  <2>1. AliveIn(g) = AliveIn(f) \cup {i} /\ i \notin AliveIn(f)
    BY <1>2 DEF AliveIn
  <2>2. QED
    BY <1>2, <2>1, CountType, FS_AddElement DEF Count
<1>3. CASE (f[i].at # "none") <=> (g[i].at # "none")
  <2>1. AliveIn(g) = AliveIn(f)
    BY <1>3 DEF AliveIn
  <2>2. QED
    BY <1>3, <2>1 DEF Count
<1>4. QED
  BY <1>1, <1>2, <1>3

LEMMA FreeChain ==
  ASSUME NEW f, Count(f) <= MaxConfigs
  PROVE  \E k \in Chains : f[k].at = "none"
<1> SUFFICES ASSUME \A k \in Chains : f[k].at # "none" PROVE FALSE
  OBVIOUS
<1>1. AliveIn(f) = Chains
  BY DEF AliveIn
<1>2. QED
  BY <1>1, ChainsFinite, ImageProcessingAssumption DEF Count

LEMMA NoIntervalFields ==
  ASSUME NEW at \in {"none", "armed", "config"}
  PROVE  NoInterval(at) \in Interval /\ NoInterval(at).at = at
<1>1. <<>> \in Seq(Images) /\ NoRecord \in Record /\ 0 \in Uploads /\ 0 \in Nat
  BY ImageProcessingAssumption, EmptySeq DEF NoRecord, Record, Uploads
<1>2. QED
  BY <1>1 DEF NoInterval, Interval

(* A chain begins where there was none. *)
LEMMA StartEffect ==
  ASSUME NEW chains \in [Chains -> Interval], NEW c \in Control,
         c.stopped => Count(chains) <= MaxConfigs, start(chains, c)
  PROVE  /\ interval' \in [Chains -> Interval] /\ control' \in Control
         /\ ~c.stopped => interval' = chains /\ control' = c
         /\ c.stopped =>
               /\ ~control'.stopped
               /\ interval'[control'.running].at = "config"
               /\ \A i \in Chains : interval'[i] = chains[i] \/ interval'[i].at = "config"
               /\ Count(interval') = Count(chains) + 1
<1>1. CASE ~c.stopped
  BY <1>1 DEF start
<1>2. CASE c.stopped
  <2> DEFINE k == CHOOSE k \in Chains : chains[k].at = "none"
  <2>1. k \in Chains /\ chains[k].at = "none"
    BY <1>2, FreeChain
  <2>2. /\ interval' = [chains EXCEPT ![k] = NoInterval("config")]
        /\ control' = [c EXCEPT !.stopped = FALSE, !.running = k]
    BY <1>2 DEF start
  <2> HIDE DEF k
  <2>3. /\ control' \in Control /\ control'.running = k
        /\ ~control'.stopped
    BY <2>1, <2>2 DEF Control
  <2>4. /\ interval' \in [Chains -> Interval]
        /\ interval'[k] = NoInterval("config")
        /\ \A i \in Chains \ {k} : interval'[i] = chains[i]
    BY <2>1, <2>2, NoIntervalFields
  <2>5. interval'[k].at = "config"
    BY <2>4, NoIntervalFields
  <2>6. Count(interval') = Count(chains) + 1
    BY <2>1, <2>4, <2>5, CountStep
  <2>7. QED
    BY <1>2, <2>3, <2>4, <2>5, <2>6
<1>3. QED
  BY <1>1, <1>2 DEF Control

(* An interval that ends leaves the chains counted right. *)
LEMMA EndsEffect ==
  ASSUME TypeOK, ChainInv, NEW i \in Chains, i \in Running, NEW at \in {"none", "armed"},
         Ends(i, NoInterval(at)), UNCHANGED <<interrupted, configs>>
  PROVE  /\ interval' \in [Chains -> Interval] /\ control' \in Control
         /\ waiting' \in SUBSET Chains
         /\ \A k \in Chains :
               interval'[k] = interval[k] \/ interval'[k].at \in {"none", "armed", "config"}
         /\ ChainInv'
<1> DEFINE chains == [interval EXCEPT ![i] = NoInterval(at)]
           c == [control EXCEPT !.timer = IF NoInterval(at).at = "armed" THEN i ELSE @]
<1>1. /\ IF i \in waiting THEN start(chains, c) ELSE interval' = chains /\ control' = c
      /\ waiting' = waiting \ {i}
  BY DEF Ends
<1>2. /\ chains \in [Chains -> Interval] /\ chains[i] = NoInterval(at)
      /\ \A k \in Chains \ {i} : chains[k] = interval[k]
  BY NoIntervalFields DEF TypeOK
<1>3. chains[i].at = at
  BY <1>2, NoIntervalFields
<1>4. c \in Control /\ c.stopped = control.stopped /\ c.running = control.running
      /\ c.timer = IF at = "armed" THEN i ELSE control.timer
  BY NoIntervalFields DEF TypeOK, Control
<1> HIDE DEF chains, c
<1>5. Count(chains) = IF at = "none" THEN Count(interval) - 1 ELSE Count(interval)
  BY <1>2, <1>3, CountStep DEF Running
<1>6. /\ Count(interval) \in Nat /\ Count(chains) \in Nat
      /\ interrupted \in Nat /\ interrupted <= configs /\ configs <= MaxConfigs
      /\ configs \in Nat /\ MaxConfigs \in Nat
  BY CountType, ImageProcessingAssumption DEF TypeOK, ChainInv
<1>7. c.stopped => Count(chains) <= MaxConfigs
  BY <1>4, <1>5, <1>6 DEF ChainInv
<1>8. CASE start(chains, c) /\ c.stopped
  <2>1. /\ interval' \in [Chains -> Interval] /\ control' \in Control
        /\ ~control'.stopped
        /\ interval'[control'.running].at = "config"
        /\ \A k \in Chains : interval'[k] = chains[k] \/ interval'[k].at = "config"
        /\ Count(interval') = Count(chains) + 1
    BY <1>2, <1>4, <1>7, <1>8, StartEffect
  <2>2. control'.running \in Running'
    BY <2>1 DEF Running, Control
  <2>3. Count(interval') <= 1 + interrupted
    BY <1>4, <1>5, <1>6, <1>8, <2>1 DEF ChainInv
  <2>4. ChainInv'
    BY <1>6, <2>1, <2>2, <2>3 DEF ChainInv
  <2>5. QED
    BY <1>1, <1>2, <1>3, <2>1, <2>4 DEF TypeOK
<1>9. CASE interval' = chains /\ control' = c
  <2>1. Count(interval') <= 1 + interrupted
        /\ (control'.stopped => Count(interval') <= interrupted)
    BY <1>4, <1>5, <1>6, <1>9 DEF ChainInv
  <2>2. control'.running \notin Running' /\ interval'[control'.timer].at # "armed" =>
            Count(interval') <= interrupted
    <3>1. CASE at = "armed"
      BY <1>3, <1>4, <1>9, <3>1
    <3>2. CASE at = "none"
      BY <1>5, <1>6, <1>9, <3>2 DEF ChainInv
    <3>3. QED
      BY <3>1, <3>2
  <2>3. ChainInv'
    BY <1>6, <2>1, <2>2 DEF ChainInv
  <2>4. QED
    BY <1>1, <1>2, <1>3, <1>4, <1>9, <2>3 DEF TypeOK
<1>10. QED
  BY <1>1, <1>2, <1>4, <1>7, <1>8, <1>9, StartEffect

-----------------------------------------------------------------------------
(***************************************************************************)
(* What a step of an interval makes of it.                                 *)
(***************************************************************************)
Working == {"config", "events", "next", "read", "store", "patch", "thumb", "mark"}

LEMMA IntervalFields ==
  ASSUME NEW chain \in Interval, NEW at \in Working
  PROVE  /\ [chain EXCEPT !.at = at] \in Interval
         /\ \A n \in Nat : [chain EXCEPT !.at = at, !.start = n] \in Interval
         /\ \A s \in Seq(Images) : [chain EXCEPT !.at = at, !.todo = s] \in Interval
         /\ \A r \in Record : [chain EXCEPT !.at = at, !.original = r] \in Interval
         /\ \A u \in Uploads : [chain EXCEPT !.at = at, !.up = u] \in Interval
         /\ \A s \in Seq(Images), n \in Nat :
                [chain EXCEPT !.at = at, !.todo = s, !.latest = n] \in Interval
<1> DEFINE Phases == {"none", "armed"} \cup Working
           Todo == Seq(Images)
<1>1. Interval = [at : Phases, start : Nat, todo : Todo, original : Record, latest : Nat,
                  up : Uploads]
  BY DEF Interval, Working
<1>2. at \in Phases
  OBVIOUS
<1> HIDE DEF Phases, Todo
<1>3. chain \in [at : Phases, start : Nat, todo : Todo, original : Record, latest : Nat,
                up : Uploads]
  BY <1>1
<1>4. [chain EXCEPT !.at = at] \in Interval
  BY <1>1, <1>2, <1>3
<1>5. \A n \in Nat : [chain EXCEPT !.at = at, !.start = n] \in Interval
  BY <1>1, <1>2, <1>3
<1>6. \A s \in Todo : [chain EXCEPT !.at = at, !.todo = s] \in Interval
  BY <1>1, <1>2, <1>3
<1>7. \A r \in Record : [chain EXCEPT !.at = at, !.original = r] \in Interval
  BY <1>1, <1>2, <1>3
<1>8. \A u \in Uploads : [chain EXCEPT !.at = at, !.up = u] \in Interval
  BY <1>1, <1>2, <1>3
<1>9. \A s \in Todo, n \in Nat :
          [chain EXCEPT !.at = at, !.todo = s, !.latest = n] \in Interval
  BY <1>1, <1>2, <1>3
<1>10. QED
  BY <1>4, <1>5, <1>6, <1>7, <1>8, <1>9 DEF Todo

LEMMA ChainUpdate ==
  ASSUME TypeOK, NEW i \in Chains, NEW chain \in Interval,
         interval' = [interval EXCEPT ![i] = chain]
  PROVE  /\ interval' \in [Chains -> Interval]
         /\ interval'[i] = chain
         /\ \A k \in Chains \ {i} : interval'[k] = interval[k]
  BY DEF TypeOK

LEMMA OldestFirstType ==
  ASSUME NEW S \in SUBSET Images, NEW s \in OldestFirst(S),
         NEW m \in Nat
  PROVE  SubSeq(s, 1, IF Len(s) < m THEN Len(s) ELSE m) \in Seq(Images)
<1>1. Cardinality(S) \in Nat
  BY ImageProcessingAssumption, FS_Subset, FS_CardinalityType
<1>2. s \in [1..Cardinality(S) -> Images]
  BY DEF OldestFirst, Injection
<1>3. s \in Seq(Images) /\ Len(s) = Cardinality(S)
  <2>1. s \in Seq(Images)
    BY <1>1, <1>2, SeqDef
  <2>2. QED
    BY <1>1, <1>2, <2>1
<1>4. \A n \in Int : n <= Len(s) => \A j \in 1..n : s[j] \in Images
  BY <1>1, <1>2, <1>3
<1> DEFINE n == IF Len(s) < m THEN Len(s) ELSE m
<1>5. n \in Int /\ n <= Len(s) /\ 1 \in Int
  BY <1>1, <1>3
<1> HIDE DEF n
<1>6. SubSeq(s, 1, n) \in Seq(Images)
  BY <1>4, <1>5, SubSeqProperties
<1>7. QED
  BY <1>6 DEF n

(* A step within an interval. *)
WorkStep(i) ==
    \/ GetConfig(i) /\ enabled
    \/ FindUnprocessedAttachments(i) \/ FindById(i) \/ autoOrient(i) \/ OrientFails(i)
    \/ SaveOriented(i) \/ PatchOriented(i) \/ PatchThumbnails(i) \/ MarkOriented(i)

LEMMA HeadIsImage ==
  ASSUME TypeOK, NEW i \in Chains, interval[i].todo # <<>>
  PROVE  Head(interval[i].todo) \in Images /\ Tail(interval[i].todo) \in Seq(Images)
<1>1. interval[i].todo \in Seq(Images)
  BY DEF TypeOK, Interval
<1>2. QED
  BY <1>1, HeadTailProperties

LEMMA WorkEffect ==
  ASSUME TypeOK, WorkInv, NEW i \in Chains, WorkStep(i)
  PROVE  /\ interval' \in [Chains -> Interval]
         /\ \A k \in Chains \ {i} : interval'[k] = interval[k]
         /\ interval[i].at \in Working /\ interval'[i].at \in Working
         /\ interval'[i].at \in {"read", "store", "patch", "thumb", "mark"} =>
                interval'[i].todo # <<>>
         /\ interval'[i].at = "store" =>
                /\ autoOrient(i)
                /\ interval'[i].todo = interval[i].todo
                /\ interval'[i].up = file[Head(interval[i].todo)].up
<1> DEFINE Goal(chain) ==
       /\ chain \in Interval
       /\ interval' = [interval EXCEPT ![i] = chain]
       /\ interval[i].at \in Working /\ chain.at \in Working
       /\ chain.at \in {"read", "store", "patch", "thumb", "mark"} => chain.todo # <<>>
       /\ chain.at = "store" =>
              /\ autoOrient(i) /\ chain.todo = interval[i].todo
              /\ chain.up = file[Head(interval[i].todo)].up
<1>1. SUFFICES \E chain : Goal(chain)
  BY ChainUpdate
<1>2. interval[i] \in Interval
  BY DEF TypeOK
<1>3. CASE GetConfig(i) /\ enabled
  <2> DEFINE chain == [interval[i] EXCEPT !.at = "events", !.start = now]
  <2>1. chain \in Interval
    BY <1>2, IntervalFields DEF TypeOK, Working
  <2>2. chain.at = "events"
    BY <1>2 DEF Interval
  <2>3. interval' = [interval EXCEPT ![i] = chain] /\ interval[i].at = "config"
    BY <1>3 DEF GetConfig
  <2> HIDE DEF chain
  <2>4. Goal(chain)
    BY <2>1, <2>2, <2>3 DEF Working
  <2>5. QED
    BY <2>4
<1>4. CASE FindUnprocessedAttachments(i)
  <2>1. PICK found \in OldestFirst(Unprocessed(i)) :
            interval' = [interval EXCEPT ![i].at = "next",
                            ![i].todo = SubSeq(found, 1, IF Len(found) < BatchSize
                                                         THEN Len(found) ELSE BatchSize)]
    BY <1>4 DEF FindUnprocessedAttachments
  <2> DEFINE todo == SubSeq(found, 1, IF Len(found) < BatchSize THEN Len(found) ELSE BatchSize)
             chain == [interval[i] EXCEPT !.at = "next", !.todo = todo]
  <2>2. todo \in Seq(Images)
    BY OldestFirstType, ImageProcessingAssumption DEF Unprocessed
  <2>3. interval' = [interval EXCEPT ![i] = chain] /\ interval[i].at = "events"
    BY <1>4, <2>1 DEF FindUnprocessedAttachments
  <2> HIDE DEF todo
  <2>4. chain \in Interval
    BY <1>2, <2>2, IntervalFields DEF Working
  <2>5. chain.at = "next"
    BY <1>2 DEF Interval
  <2> HIDE DEF chain
  <2>6. Goal(chain)
    BY <2>3, <2>4, <2>5 DEF Working
  <2>7. QED
    BY <2>6
<1>5. CASE FindById(i)
  <2> DEFINE original == attachment[Head(interval[i].todo)]
             chain == [interval[i] EXCEPT !.at = "read", !.original = original]
  <2>1. interval' = [interval EXCEPT ![i] = chain] /\ interval[i].at = "next"
        /\ interval[i].todo # <<>>
    BY <1>5 DEF FindById
  <2>2. original \in Record
    BY <2>1, HeadIsImage DEF TypeOK
  <2> HIDE DEF original
  <2>3. chain \in Interval
    BY <1>2, <2>2, IntervalFields DEF Working
  <2>4. chain.at = "read" /\ chain.todo = interval[i].todo
    BY <1>2 DEF Interval
  <2> HIDE DEF chain
  <2>5. Goal(chain)
    BY <2>1, <2>3, <2>4 DEF Working
  <2>6. QED
    BY <2>5
<1>6. CASE autoOrient(i)
  <2> DEFINE up == file[Head(interval[i].todo)].up
             chain == [interval[i] EXCEPT !.at = "store", !.up = up]
  <2>1. interval' = [interval EXCEPT ![i] = chain] /\ interval[i].at = "read"
    BY <1>6 DEF autoOrient
  <2>2. interval[i].todo # <<>>
    BY <2>1 DEF WorkInv
  <2>3. up \in Uploads
    BY <2>2, HeadIsImage DEF TypeOK, File
  <2>4. up = file[Head(interval[i].todo)].up
    OBVIOUS
  <2> HIDE DEF up
  <2>5. chain \in Interval
    BY <1>2, <2>3, IntervalFields DEF Working
  <2>6. chain.at = "store" /\ chain.todo = interval[i].todo /\ chain.up = up
    BY <1>2 DEF Interval
  <2> HIDE DEF chain
  <2>7. Goal(chain)
    BY <1>6, <2>1, <2>2, <2>4, <2>5, <2>6 DEF Working
  <2>8. QED
    BY <2>7
<1>7. CASE OrientFails(i) \/ SaveOriented(i) \/ PatchOriented(i)
  <2>1. PICK at \in {"mark", "patch", "thumb"} :
            /\ interval' = [interval EXCEPT ![i] = [interval[i] EXCEPT !.at = at]]
            /\ interval[i].at \in {"read", "store", "patch"}
    BY <1>7 DEF OrientFails, SaveOriented, PatchOriented, Step
  <2> DEFINE chain == [interval[i] EXCEPT !.at = at]
  <2>2. chain \in Interval
    BY <1>2, <2>1, IntervalFields DEF Working
  <2>3. chain.at = at /\ chain.todo = interval[i].todo
    BY <1>2 DEF Interval
  <2>4. interval' = [interval EXCEPT ![i] = chain]
    BY <2>1
  <2> HIDE DEF chain
  <2>5. Goal(chain)
    BY <2>1, <2>2, <2>3, <2>4 DEF Working, WorkInv
  <2>6. QED
    BY <2>5
<1>8. CASE PatchThumbnails(i) \/ MarkOriented(i)
  <2>1. PICK latest \in Nat : Done(i, latest)
    <3>1. interval[i].latest \in Nat /\ interval[i].original.modified \in Nat
      BY <1>2 DEF Interval, Record
    <3>2. QED
      BY <1>8, <3>1 DEF PatchThumbnails, MarkOriented, Higher
  <2>2. interval[i].at \in {"thumb", "mark"}
    BY <1>8 DEF PatchThumbnails, MarkOriented
  <2> DEFINE todo == Tail(interval[i].todo)
             chain == [interval[i] EXCEPT !.at = "next", !.todo = todo, !.latest = latest]
  <2>3. todo \in Seq(Images)
    BY <2>2, HeadIsImage DEF WorkInv
  <2>4. interval' = [interval EXCEPT ![i] = chain]
    BY <2>1 DEF Done
  <2> HIDE DEF todo
  <2>5. chain \in Interval
    BY <1>2, <2>1, <2>3, IntervalFields DEF Working
  <2>6. chain.at = "next"
    BY <1>2 DEF Interval
  <2> HIDE DEF chain
  <2>7. Goal(chain)
    BY <2>2, <2>4, <2>5, <2>6 DEF Working
  <2>8. QED
    BY <2>7
<1>9. QED
  BY <1>3, <1>4, <1>5, <1>6, <1>7, <1>8 DEF WorkStep

(* Chains that only move on are as many as before. *)
LEMMA WorkChains ==
  ASSUME TypeOK, WorkInv, ChainInv, NEW i \in Chains, WorkStep(i) PROVE ChainInv'
<1>1. UNCHANGED <<control, interrupted, configs>>
  BY DEF WorkStep, GetConfig, FindUnprocessedAttachments, FindById, autoOrient, OrientFails,
         SaveOriented, PatchOriented, PatchThumbnails, MarkOriented, Step, Local, requests
<1>2. /\ \A k \in Chains \ {i} : interval'[k] = interval[k]
      /\ interval[i].at \in Working /\ interval'[i].at \in Working
  BY WorkEffect
<1>3. Count(interval') = Count(interval)
  BY <1>2, CountStep DEF Working
<1>4. \A k \in Chains : /\ k \in Running' <=> k \in Running
                        /\ interval'[k].at = "armed" <=> interval[k].at = "armed"
  BY <1>2 DEF Running, Working
<1>5. control.running \in Chains /\ control.timer \in Chains
  BY DEF TypeOK
<1>6. QED
  BY <1>1, <1>3, <1>4, <1>5 DEF ChainInv

-----------------------------------------------------------------------------
(***************************************************************************)
(* Every step preserves the invariant.                                     *)
(***************************************************************************)
LEMMA InitImageInv == Init => ImageInv
<1> SUFFICES ASSUME Init PROVE ImageInv
  OBVIOUS
<1> USE ImageProcessingAssumption
<1>1. /\ interval \in [Chains -> Interval]
      /\ \A i \in Chains : interval[i].at = IF i = 1 THEN "config" ELSE "none"
  BY NoIntervalFields DEF Init
<1>2. 1 \in Chains /\ NoRecord \in Record /\ NoUpload \in Upload
  BY ChainsFinite DEF NoRecord, Record, NoUpload, Upload, Uploads
<1>3. TypeOK
  <2>1. /\ attachment \in [Images -> Record] /\ file \in [Images -> File]
        /\ upload \in [Images -> Upload] /\ newest \in [Images -> Uploads]
    BY <1>2 DEF Init, File, Uploads
  <2>2. /\ now \in Nat /\ uploads \in Uploads /\ configs \in 0..MaxConfigs
        /\ faults \in 0..MaxFaults /\ watermark \in Nat /\ interrupted \in 0..MaxConfigs
    BY DEF Init, Uploads
  <2>3. control \in [stopped : BOOLEAN, running : Chains, timer : Chains]
    BY <1>2 DEF Init
  <2>4. enabled \in BOOLEAN /\ waiting \in SUBSET Chains /\ contended \in SUBSET Images
    BY DEF Init
  <2>5. QED
    BY <1>1, <2>1, <2>2, <2>3, <2>4 DEF TypeOK
<1>4. WorkInv
  BY <1>1 DEF WorkInv
<1>5. ChainInv
  <2>1. AliveIn(interval) = {1}
    BY <1>1, <1>2 DEF AliveIn
  <2>2. Count(interval) = 1
    BY <2>1, FS_Singleton DEF Count
  <2>3. control.running \in Running /\ ~control.stopped
    BY <1>1, <1>2 DEF Init, Running
  <2>4. QED
    BY <2>2, <2>3 DEF Init, ChainInv
<1>6. KeptInv
  BY <1>1 DEF Init, KeptInv, NoUpload
<1>7. QED
  BY <1>3, <1>4, <1>5, <1>6 DEF ImageInv

LEMMA PatchType ==
  ASSUME TypeOK, NEW a \in Images, NEW copy \in Record, patchAttachment(a, copy)
  PROVE  attachment' \in [Images -> Record] /\ now' \in Nat
<1>1. now + 1 \in Nat /\ now' = now + 1
  BY DEF TypeOK, patchAttachment
<1>2. [copy EXCEPT !.modified = now + 1] \in Record
  BY <1>1 DEF Record
<1>3. QED
  BY <1>1, <1>2 DEF TypeOK, patchAttachment

(* An upload streams to the file, and whoever orients meanwhile is noted. *)
LEMMA UploadImageInv ==
  ASSUME ImageInv, NEW a \in Images,
         StartUpload(a) \/ FinishStream(a) \/ AnswerUpload(a) \/ BreakUpload(a)
  PROVE  ImageInv'
<1> USE ImageProcessingAssumption
<1>1. UNCHANGED <<control, waiting, interval, watermark, configs, enabled, interrupted>>
  BY DEF StartUpload, FinishStream, AnswerUpload, BreakUpload, loop, history
<1>2. TypeOK /\ upload[a] \in Upload /\ file[a] \in File
  BY DEF ImageInv, TypeOK
<1>3. NoUpload \in Upload
  BY DEF NoUpload, NoRecord, Upload, Record, Uploads
<1>4. WorkInv' /\ ChainInv'
  BY <1>1 DEF ImageInv, WorkInv, ChainInv, Running, Count, AliveIn
<1>5. ASSUME interval' \in [Chains -> Interval],
             attachment' \in [Images -> Record], now' \in Nat,
             file' \in [Images -> File], upload' \in [Images -> Upload],
             newest' \in [Images -> Uploads], uploads' \in Uploads, faults' \in 0..MaxFaults,
             contended' \in SUBSET Images
      PROVE  TypeOK'
  BY <1>1, <1>2, <1>5 DEF TypeOK
<1>6. CASE StartUpload(a)
  <2>1. uploads + 1 \in Uploads
    BY <1>2, <1>6 DEF StartUpload, TypeOK, Uploads
  <2>2. PICK up \in Uploads :
            /\ up = uploads + 1
            /\ upload' = [upload EXCEPT ![a] = [up |-> up, at |-> "streaming",
                                                before |-> attachment[a]]]
            /\ file' = [file EXCEPT ![a] = [up |-> up, form |-> "partial"]]
    BY <1>6, <2>1 DEF StartUpload
  <2>3. /\ [up |-> up, at |-> "streaming", before |-> attachment[a]] \in Upload
        /\ [up |-> up, form |-> "partial"] \in File
    BY <1>2 DEF TypeOK, Upload, File
  <2>4. TypeOK'
    <3>1. upload' \in [Images -> Upload] /\ file' \in [Images -> File]
      BY <1>2, <2>2, <2>3 DEF TypeOK
    <3>2. uploads' \in Uploads
      BY <1>6, <2>1 DEF StartUpload
    <3>3. UNCHANGED <<attachment, now, faults, newest>> /\ contended' \in SUBSET Images
      BY <1>2, <1>6 DEF StartUpload, TypeOK
    <3>4. QED
      BY <1>1, <1>2, <1>5, <3>1, <3>2, <3>3 DEF TypeOK
  <2>5. KeptInv'
    <3>1. ASSUME NEW b \in Images \ contended', NEW i \in Chains,
                 interval[i].at = "store", Has(i, b)
          PROVE  b # a
      BY <1>6, <3>1 DEF StartUpload, Running
    <3>2. contended \subseteq contended' /\ newest' = newest
      BY <1>6 DEF StartUpload
    <3>3. /\ upload'[a].at = "streaming" /\ upload'[a].up = up /\ file'[a].up = up
          /\ \A b \in Images \ {a} : upload'[b] = upload[b] /\ file'[b] = file[b]
      BY <1>2, <2>2 DEF TypeOK
    <3>4. QED
      BY <1>1, <3>1, <3>2, <3>3 DEF ImageInv, KeptInv, Has
  <2>6. QED
    BY <1>4, <2>4, <2>5 DEF ImageInv
<1>7. CASE FinishStream(a)
  <2>1. /\ upload[a].at = "streaming"
        /\ upload' = [upload EXCEPT ![a] = [upload[a] EXCEPT !.at = "stored"]]
        /\ \/ file' = [file EXCEPT ![a] = [file[a] EXCEPT !.form = "whole"]]
           \/ file' = file
        /\ newest' = [newest EXCEPT ![a] = upload[a].up]
        /\ UNCHANGED <<attachment, now, uploads, faults, contended>>
    BY <1>7 DEF FinishStream
  <2>2. /\ [upload[a] EXCEPT !.at = "stored"] \in Upload
        /\ [file[a] EXCEPT !.form = "whole"] \in File
        /\ upload[a].up \in Uploads
    BY <1>2 DEF Upload, File
  <2>3. /\ upload' \in [Images -> Upload] /\ file' \in [Images -> File]
        /\ newest' \in [Images -> Uploads]
    BY <1>2, <2>1, <2>2 DEF TypeOK
  <2>4. TypeOK'
    BY <1>1, <1>2, <1>5, <2>1, <2>3 DEF TypeOK
  <2>5. /\ upload'[a].at = "stored" /\ newest'[a] = upload[a].up
        /\ \A b \in Images : file'[b].up = file[b].up
        /\ \A b \in Images \ {a} : upload'[b] = upload[b] /\ newest'[b] = newest[b]
    <3>1. upload'[a] = [upload[a] EXCEPT !.at = "stored"] /\ newest'[a] = upload[a].up
          /\ \A b \in Images \ {a} : upload'[b] = upload[b] /\ newest'[b] = newest[b]
      BY <1>2, <2>1 DEF TypeOK
    <3>2. upload'[a].at = "stored"
      BY <1>2, <3>1 DEF Upload
    <3>3. \A b \in Images : file'[b].up = file[b].up
      BY <1>2, <2>1 DEF TypeOK, File
    <3>4. QED
      BY <3>1, <3>2, <3>3
  <2>6. KeptInv'
    BY <1>1, <2>1, <2>5 DEF ImageInv, KeptInv, Has
  <2>7. QED
    BY <1>4, <2>4, <2>6 DEF ImageInv
<1>8. CASE AnswerUpload(a)
  <2>1. /\ upload[a].at = "stored"
        /\ upload' = [upload EXCEPT ![a] = NoUpload]
        /\ \/ patchAttachment(a, [upload[a].before EXCEPT !.content = TRUE])
           \/ UNCHANGED <<attachment, now>>
        /\ UNCHANGED <<file, uploads, faults, newest, contended>>
    BY <1>8 DEF AnswerUpload, history
  <2>2. [upload[a].before EXCEPT !.content = TRUE] \in Record
    BY <1>2 DEF Upload, Record
  <2>3. attachment' \in [Images -> Record] /\ now' \in Nat
    BY <1>2, <2>1, <2>2, PatchType DEF TypeOK
  <2>4. upload' \in [Images -> Upload]
    BY <1>2, <1>3, <2>1 DEF TypeOK
  <2>5. TypeOK'
    BY <1>1, <1>2, <1>5, <2>1, <2>3, <2>4 DEF TypeOK
  <2>6. /\ upload'[a].at = "none"
        /\ \A b \in Images \ {a} : upload'[b] = upload[b]
    BY <1>2, <2>1 DEF TypeOK, NoUpload
  <2>7. KeptInv'
    BY <1>1, <2>1, <2>6 DEF ImageInv, KeptInv, Has
  <2>8. QED
    BY <1>4, <2>5, <2>7 DEF ImageInv
<1>9. CASE BreakUpload(a)
  <2>1. /\ upload[a].at = "streaming"
        /\ upload' = [upload EXCEPT ![a] = NoUpload]
        /\ newest' = [newest EXCEPT ![a] = upload[a].up]
        /\ faults < MaxFaults /\ faults' = faults + 1
        /\ UNCHANGED <<attachment, file, now, uploads, contended>>
    BY <1>9 DEF BreakUpload, store
  <2>2. upload' \in [Images -> Upload] /\ newest' \in [Images -> Uploads]
    BY <1>2, <1>3, <2>1 DEF TypeOK, Upload
  <2>3. faults' \in 0..MaxFaults
    BY <1>2, <2>1 DEF TypeOK
  <2>4. TypeOK'
    BY <1>1, <1>2, <1>5, <2>1, <2>2, <2>3 DEF TypeOK
  <2>5. /\ upload'[a].at = "none" /\ newest'[a] = upload[a].up
        /\ \A b \in Images \ {a} : upload'[b] = upload[b] /\ newest'[b] = newest[b]
    BY <1>2, <2>1 DEF TypeOK, NoUpload
  <2>6. KeptInv'
    BY <1>1, <2>1, <2>5 DEF ImageInv, KeptInv, Has
  <2>7. QED
    BY <1>4, <2>4, <2>6 DEF ImageInv
<1>10. QED
  BY <1>6, <1>7, <1>8, <1>9

(* Files keep their upload when no interval reaches the phase that stores. *)
LEMMA KeptSame ==
  ASSUME KeptInv, UNCHANGED <<upload, newest>>, contended \subseteq contended',
         \A a \in Images \ contended : file'[a].up = file[a].up,
         \A i \in Chains : interval'[i] = interval[i] \/ interval'[i].at # "store"
  PROVE  KeptInv'
  BY DEF KeptInv, Has

LEMMA WorkImageInv ==
  ASSUME ImageInv, NEW i \in Chains, WorkStep(i) PROVE ImageInv'
<1> USE ImageProcessingAssumption
<1>1. /\ UNCHANGED <<upload, uploads, configs, enabled, control, waiting, watermark, faults,
                     newest, interrupted>>
  BY DEF WorkStep, GetConfig, FindUnprocessedAttachments, FindById, autoOrient, OrientFails,
         SaveOriented, PatchOriented, PatchThumbnails, MarkOriented, Step, Local, requests
<1>2. TypeOK /\ WorkInv
  BY DEF ImageInv
<1>3. /\ interval' \in [Chains -> Interval]
      /\ \A k \in Chains \ {i} : interval'[k] = interval[k]
      /\ interval'[i].at \in {"read", "store", "patch", "thumb", "mark"} =>
             interval'[i].todo # <<>>
      /\ interval'[i].at = "store" =>
             /\ autoOrient(i)
             /\ interval'[i].todo = interval[i].todo
             /\ interval'[i].up = file[Head(interval[i].todo)].up
  BY <1>2, WorkEffect
<1>4. WorkInv'
  BY <1>2, <1>3 DEF WorkInv
<1>5. ChainInv'
  BY <1>2, WorkChains DEF ImageInv
<1>6. \/ UNCHANGED <<attachment, now>>
      \/ /\ interval[i].at \in {"patch", "thumb", "mark"}
         /\ \E copy \in Record : patchAttachment(Head(interval[i].todo), copy)
  <2>1. interval[i].original \in Record
    BY <1>2 DEF TypeOK, Interval
  <2>2. Oriented(i) \in Record /\ [interval[i].original EXCEPT !.oriented = TRUE] \in Record
    BY <2>1 DEF Oriented, Record
  <2>3. CASE PatchOriented(i) \/ PatchThumbnails(i)
    BY <2>2, <2>3 DEF PatchOriented, PatchThumbnails, Step
  <2>4. CASE MarkOriented(i)
    BY <2>2, <2>4 DEF MarkOriented
  <2>5. CASE ~(PatchOriented(i) \/ PatchThumbnails(i) \/ MarkOriented(i))
    BY <2>5 DEF WorkStep, GetConfig, FindUnprocessedAttachments, FindById, autoOrient,
                OrientFails, SaveOriented, store
  <2>6. QED
    BY <2>3, <2>4, <2>5
<1>7. attachment' \in [Images -> Record] /\ now' \in Nat
  <2>1. interval[i].at \in {"patch", "thumb", "mark"} => Head(interval[i].todo) \in Images
    BY <1>2, HeadIsImage DEF WorkInv
  <2>2. QED
    BY <1>2, <1>6, <2>1, PatchType DEF TypeOK
<1>8. CASE SaveOriented(i)
  <2> DEFINE a == Head(interval[i].todo)
  <2>1. /\ interval[i].at = "store"
        /\ file' = [file EXCEPT ![a] = [up |-> interval[i].up, form |-> "oriented"]]
        /\ contended' = contended
    BY <1>8 DEF SaveOriented, Step
  <2>2. a \in Images /\ Has(i, a)
    BY <1>2, <2>1, HeadIsImage DEF WorkInv, Has
  <2> HIDE DEF a
  <2>3. interval[i].up \in Uploads
    BY <1>2 DEF TypeOK, Interval
  <2>4. [up |-> interval[i].up, form |-> "oriented"] \in File
    BY <2>3 DEF File
  <2>5. file' \in [Images -> File]
    BY <1>2, <2>1, <2>4 DEF TypeOK
  <2>6. TypeOK'
    BY <1>1, <1>2, <1>3, <1>7, <2>1, <2>5 DEF TypeOK
  <2>7. \A b \in Images \ contended : file'[b].up = file[b].up
    <3>1. a \notin contended => interval[i].up = file[a].up
      BY <2>1, <2>2 DEF ImageInv, KeptInv
    <3>2. file'[a].up = interval[i].up /\ \A b \in Images \ {a} : file'[b] = file[b]
      BY <1>2, <2>1, <2>2 DEF TypeOK
    <3>3. QED
      BY <3>1, <3>2
  <2>8. interval'[i].at # "store"
    BY <1>3, <2>1 DEF autoOrient
  <2>9. KeptInv'
    BY <1>1, <1>3, <2>1, <2>7, <2>8, KeptSame DEF ImageInv
  <2>10. QED
    BY <1>4, <1>5, <2>6, <2>9 DEF ImageInv
<1>9. CASE autoOrient(i)
  <2> DEFINE a == Head(interval[i].todo)
  <2>1. /\ file' = file
        /\ contended' = IF upload[a].at = "streaming" THEN contended \cup {a} ELSE contended
        /\ interval[i].at = "read"
    BY <1>9 DEF autoOrient, store
  <2>2. a \in Images
    BY <1>2, <2>1, HeadIsImage DEF WorkInv
  <2>3. TypeOK'
    <3>1. contended' \in SUBSET Images
      BY <1>2, <2>1, <2>2 DEF TypeOK
    <3>2. QED
      BY <1>1, <1>2, <1>3, <1>7, <2>1, <3>1 DEF TypeOK
  <2>4. KeptInv'
    <3>1. ASSUME NEW b \in Images \ contended', interval'[i].at = "store", Has(i, b)'
          PROVE  interval'[i].up = file'[b].up /\ upload'[b].at # "streaming"
      <4>1. b = a
        BY <1>3, <3>1 DEF Has
      <4>2. QED
        BY <1>1, <1>3, <2>1, <3>1, <4>1
    <3>2. contended \subseteq contended'
      BY <2>1
    <3>3. QED
      BY <1>1, <1>3, <2>1, <3>1, <3>2 DEF ImageInv, KeptInv, Has
  <2>5. QED
    BY <1>4, <1>5, <2>3, <2>4 DEF ImageInv
<1>10. CASE ~SaveOriented(i) /\ ~autoOrient(i)
  <2>1. UNCHANGED <<file, contended>>
    BY <1>10 DEF WorkStep, GetConfig, FindUnprocessedAttachments, FindById, OrientFails,
          PatchOriented, PatchThumbnails, MarkOriented, store
  <2>2. TypeOK'
    BY <1>1, <1>2, <1>3, <1>7, <2>1 DEF TypeOK
  <2>3. KeptInv'
    BY <1>1, <1>3, <1>10, <2>1, KeptSame DEF ImageInv
  <2>4. QED
    BY <1>4, <1>5, <2>2, <2>3 DEF ImageInv
<1>11. QED
  BY <1>8, <1>9, <1>10

(* What begins or ends an interval. *)
LEMMA QuietImageInv ==
  ASSUME ImageInv, UNCHANGED <<attachment, file, now, upload, uploads, newest, contended>>,
         interval' \in [Chains -> Interval], control' \in Control,
         waiting' \in SUBSET Chains, watermark' \in Nat, enabled' \in BOOLEAN,
         configs' \in 0..MaxConfigs, faults' \in 0..MaxFaults, interrupted' \in 0..MaxConfigs,
         \A k \in Chains :
            interval'[k] = interval[k] \/ interval'[k].at \in {"none", "armed", "config"},
         ChainInv'
  PROVE  ImageInv'
<1>1. TypeOK'
  BY DEF ImageInv, TypeOK, Control
<1>2. WorkInv'
  BY DEF ImageInv, WorkInv
<1>3. KeptInv'
  BY KeptSame DEF ImageInv
<1>4. QED
  BY <1>1, <1>2, <1>3 DEF ImageInv

LEMMA EndImageInv ==
  ASSUME ImageInv, NEW i \in Chains,
         (GetConfig(i) /\ ~enabled) \/ ScheduleNext(i) \/ IntervalFails(i)
  PROVE  ImageInv'
<1> USE ImageProcessingAssumption
<1>1. PICK at \in {"none", "armed"} : Ends(i, NoInterval(at))
  BY DEF GetConfig, ScheduleNext, IntervalFails
<1>2. i \in Running
  BY DEF GetConfig, ScheduleNext, IntervalFails, Running
<1>3. UNCHANGED <<attachment, file, now, upload, uploads, configs, enabled, newest, contended,
                  interrupted>>
  BY DEF GetConfig, ScheduleNext, IntervalFails, Local, store, requests
<1>4. watermark' \in Nat /\ faults' \in 0..MaxFaults
  <2>1. /\ watermark \in Nat /\ faults \in 0..MaxFaults /\ interval[i].latest \in Nat
    BY DEF ImageInv, TypeOK, Interval
  <2>2. watermark' = watermark \/ watermark' = interval[i].latest
    BY DEF GetConfig, ScheduleNext, IntervalFails
  <2>3. faults' = faults \/ (faults < MaxFaults /\ faults' = faults + 1)
    BY DEF GetConfig, ScheduleNext, IntervalFails
  <2>4. QED
    BY <2>1, <2>2, <2>3
<1>5. /\ interval' \in [Chains -> Interval] /\ control' \in Control
      /\ waiting' \in SUBSET Chains
      /\ \A k \in Chains :
            interval'[k] = interval[k] \/ interval'[k].at \in {"none", "armed", "config"}
      /\ ChainInv'
  BY <1>1, <1>2, <1>3, EndsEffect DEF ImageInv
<1>6. enabled' \in BOOLEAN /\ configs' \in 0..MaxConfigs /\ interrupted' \in 0..MaxConfigs
  BY <1>3 DEF ImageInv, TypeOK
<1>7. QED
  BY <1>3, <1>4, <1>5, <1>6, QuietImageInv

LEMMA TimerImageInv ==
  ASSUME ImageInv, NEW i \in Chains, TimerFires(i) PROVE ImageInv'
<1>1. PICK at \in {"none", "config"} :
         /\ interval' = [interval EXCEPT ![i] = NoInterval(at)]
         /\ control.stopped <=> at = "none"
  BY DEF TimerFires
<1>2. /\ interval[i].at = "armed"
      /\ control' = [control EXCEPT !.running = i]
      /\ UNCHANGED <<attachment, file, now, waiting, watermark, faults, contended, upload,
                     uploads, configs, enabled, newest, interrupted>>
  BY DEF TimerFires, Local, store, requests
<1>3. /\ interval' \in [Chains -> Interval] /\ interval'[i].at = at
      /\ \A k \in Chains \ {i} : interval'[k] = interval[k]
  <2>1. NoInterval(at) \in Interval /\ NoInterval(at).at = at
    BY <1>1, NoIntervalFields
  <2>2. QED
    BY <1>1, <2>1 DEF ImageInv, TypeOK
<1>4. control' \in Control /\ control'.running = i /\ control'.timer = control.timer
  BY <1>2 DEF ImageInv, TypeOK, Control
<1>5. control'.stopped = control.stopped
  BY <1>2 DEF ImageInv, TypeOK
<1>6. Count(interval') = IF at = "none" THEN Count(interval) - 1 ELSE Count(interval)
  BY <1>2, <1>3, CountStep
<1>7. Count(interval) \in Nat /\ interrupted \in Nat
  BY CountType, ImageProcessingAssumption DEF ImageInv, TypeOK
<1>8. ChainInv'
  <2>1. CASE at = "none"
    BY <1>1, <1>2, <1>5, <1>6, <1>7, <2>1 DEF ImageInv, ChainInv
  <2>2. CASE at = "config"
    <3>1. control'.running \in Running' /\ ~control'.stopped
      BY <1>1, <1>3, <1>4, <1>5, <2>2 DEF Running
    <3>2. QED
      BY <1>2, <1>6, <1>7, <2>2, <3>1 DEF ImageInv, ChainInv
  <2>3. QED
    BY <2>1, <2>2
<1>9. QED
  BY <1>2, <1>3, <1>4, <1>8, QuietImageInv DEF ImageInv, TypeOK

(* The timer is cancelled; what is at work ends later, and is counted.     *)
LEMMA ConfigImageInv ==
  ASSUME ImageInv, NEW on \in BOOLEAN, applyConfig(on) PROVE ImageInv'
<1> USE ImageProcessingAssumption
<1> DEFINE t == control.timer
           chains == IF interval[t].at = "armed"
                     THEN [interval EXCEPT ![t] = NoInterval("none")] ELSE interval
           c == [control EXCEPT !.stopped = TRUE]
<1>1. /\ configs < MaxConfigs /\ configs' = configs + 1 /\ enabled' = on
      /\ UNCHANGED <<attachment, file, now, upload, uploads, watermark, faults, newest,
                     contended>>
  BY DEF applyConfig, Saved, store
<1>2. IF control.running \in Running
      THEN /\ waiting' = waiting \cup {control.running}
           /\ interval' = chains /\ control' = c
           /\ interrupted' = interrupted + 1
      ELSE start(chains, c) /\ UNCHANGED <<waiting, interrupted>>
  BY DEF applyConfig
<1>3. t \in Chains /\ control.running \in Chains
  BY DEF ImageInv, TypeOK
<1>4. c \in Control /\ c.stopped /\ c.running = control.running /\ c.timer = t
  BY DEF ImageInv, TypeOK, Control
<1>5. /\ chains \in [Chains -> Interval]
      /\ \A k \in Chains \ {t} : chains[k] = interval[k]
      /\ chains[t].at = IF interval[t].at = "armed" THEN "none" ELSE interval[t].at
      /\ chains[t] = interval[t] \/ chains[t].at = "none"
  <2>1. NoInterval("none") \in Interval /\ NoInterval("none").at = "none"
    BY NoIntervalFields
  <2>2. QED
    BY <1>3, <2>1 DEF ImageInv, TypeOK
<1> HIDE DEF t, chains, c
<1>6. Count(chains) = IF interval[t].at = "armed" THEN Count(interval) - 1 ELSE Count(interval)
  BY <1>3, <1>5, CountStep
<1>7. /\ Count(interval) \in Nat /\ Count(chains) \in Nat /\ interrupted \in Nat
      /\ configs \in Nat /\ interrupted <= configs /\ interrupted \in 0..MaxConfigs
  BY CountType DEF ImageInv, TypeOK, ChainInv
<1>8. /\ configs' \in 0..MaxConfigs /\ enabled' \in BOOLEAN
      /\ watermark' \in Nat /\ faults' \in 0..MaxFaults
  BY <1>1, <1>7 DEF ImageInv, TypeOK
<1>9. CASE control.running \in Running
  <2>1. /\ waiting' \in SUBSET Chains
        /\ interval' = chains /\ control' = c /\ interrupted' = interrupted + 1
    BY <1>2, <1>3, <1>9 DEF ImageInv, TypeOK
  <2>2. Count(interval') <= interrupted'
    BY <1>6, <1>7, <2>1 DEF ImageInv, ChainInv
  <2>3. interrupted' \in 0..MaxConfigs /\ interrupted' <= configs'
    BY <1>1, <1>7, <2>1
  <2>4. ChainInv'
    BY <1>7, <2>1, <2>2, <2>3 DEF ChainInv
  <2>5. \A k \in Chains :
            interval'[k] = interval[k] \/ interval'[k].at \in {"none", "armed", "config"}
    BY <1>5, <2>1
  <2>6. interval' \in [Chains -> Interval] /\ control' \in Control
    BY <1>4, <1>5, <2>1
  <2>7. QED
    BY <1>1, <1>8, <2>1, <2>3, <2>4, <2>5, <2>6, QuietImageInv
<1>10. CASE control.running \notin Running
  <2>1. Count(chains) <= interrupted
    BY <1>6, <1>7, <1>10 DEF ImageInv, ChainInv, t
  <2>2. Count(chains) <= MaxConfigs /\ start(chains, c) /\ UNCHANGED <<waiting, interrupted>>
    BY <1>1, <1>2, <1>7, <1>10, <2>1
  <2>3. /\ interval' \in [Chains -> Interval] /\ control' \in Control
        /\ ~control'.stopped
        /\ interval'[control'.running].at = "config"
        /\ \A i \in Chains : interval'[i] = chains[i] \/ interval'[i].at = "config"
        /\ Count(interval') = Count(chains) + 1
    BY <1>4, <1>5, <2>2, StartEffect
  <2>4. control'.running \in Running'
    BY <2>3 DEF Running, Control
  <2>5. ChainInv'
    BY <1>1, <1>7, <2>1, <2>2, <2>3, <2>4 DEF ChainInv
  <2>6. \A k \in Chains :
            interval'[k] = interval[k] \/ interval'[k].at \in {"none", "armed", "config"}
    BY <1>5, <2>3
  <2>7. waiting' \in SUBSET Chains /\ interrupted' \in 0..MaxConfigs
    BY <2>2 DEF ImageInv, TypeOK
  <2>8. QED
    BY <1>1, <1>8, <2>3, <2>5, <2>6, <2>7, QuietImageInv
<1>11. QED
  BY <1>9, <1>10

LEMMA NextImageInv == ImageInv /\ [Next]_vars => ImageInv'
<1> SUFFICES ASSUME ImageInv, [Next]_vars PROVE ImageInv'
  OBVIOUS
<1>1. CASE UNCHANGED vars
  BY <1>1 DEF vars, store, loop, requests, history, ImageInv, TypeOK, WorkInv, ChainInv,
              KeptInv, Running, Has, Count, AliveIn
<1>2. ASSUME NEW i \in Chains, IntervalStep(i) \/ IntervalFails(i) PROVE ImageInv'
  BY <1>2, WorkImageInv, EndImageInv, TimerImageInv DEF IntervalStep, WorkStep
<1>3. QED
  BY <1>1, <1>2, UploadImageInv, ConfigImageInv DEF Next

-----------------------------------------------------------------------------
(***************************************************************************)
(* Theorems.                                                               *)
(***************************************************************************)
(* The inductive invariant of files, chains of intervals and their count.  *)
THEOREM ImageCorrect == Spec => []ImageInv
  BY InitImageInv, NextImageInv, PTL DEF Spec

(* Records, files, uploads and intervals keep their types.                 *)
THEOREM TypeCorrect == Spec => []TypeOK
<1>1. ImageInv => TypeOK
  BY DEF ImageInv
<1>2. QED
  BY <1>1, ImageCorrect, PTL

(* However often the configuration changes, there is one chain of          *)
(* intervals, and one more only for each stop that found one at work       *)
(* (stop, processAndScheduleNext).                                         *)
THEOREM NoOtherChainCorrect == Spec => []NoOtherChain
<1>1. ImageInv => NoOtherChain
  BY DEF ImageInv, ChainInv, NoOtherChain, Count, AliveIn, Alive
<1>2. QED
  BY <1>1, ImageCorrect, PTL

(* The file of an image holds the last upload, as it came or oriented,     *)
(* unless one came while the image was being oriented                      *)
(* (orientAttachmentImage, saveContent).                                   *)
THEOREM NewestUploadKeptCorrect == Spec => []NewestUploadKept
<1>1. ImageInv => NewestUploadKept
  BY DEF ImageInv, KeptInv, NewestUploadKept
<1>2. QED
  BY <1>1, ImageCorrect, PTL
=============================================================================
