------------------------------ MODULE ArcGISSync ------------------------------
(***************************************************************************)
(* The ArcGIS plugin: a cycle that reads the observations of an event      *)
(* modified since the last cycle, page by page, and sends them to a        *)
(* feature layer.  A page becomes a batch, which nothing waits for: it     *)
(* asks which observations have features, adds those that have none, asks  *)
(* for the feature of each other one, and deletes those of archived ones.  *)
(* The answers are sent by the next cycle, or by a batch that comes first. *)
(*                                                                         *)
(* One event and one layer, enabled throughout, with one date from which   *)
(* the event is synced; geometry changes, deleted events, attachments of   *)
(* features and edited forms are left out.  Requests to the layer are      *)
(* answered in any order, or fail, which is logged and no more.  The one   *)
(* for the existing observations is answered with all of them, that is,    *)
(* there are no more than the layer returns at once.                       *)
(***************************************************************************)
EXTENDS Integers, Sequences, FiniteSets, SequencesExt

CONSTANTS
    LastId,       (* observations are 1..LastId                            *)
    PageSize,     (* batchSize of the configuration                        *)
    MaxBatches,   (* bound: batches in flight at once                      *)
    MaxChains,    (* bound: chains of cycles at once                       *)
    MaxTime,      (* bound: observations written, those at first included  *)
    MaxUpsets     (* bound: saves of the configuration, requests that fail *)
                  (* and crashes, together                                 *)

ASSUME ArcGISAssumption ==
    /\ LastId \in Nat /\ PageSize \in Nat \ {0} /\ MaxBatches \in Nat \ {0}
    /\ MaxChains \in Nat \ {0}
    /\ MaxTime \in Nat /\ LastId <= MaxTime /\ MaxUpsets \in Nat

VARIABLES
    doc,          (* observations: lastModified, whether archived, and     *)
                  (* whether its timestamp is before the date from which   *)
                  (* the event is synced (it is not asked of archived ones)*)
    now, upsets,
    layer,        (* features of an observation, by object id: lastModified*)
                  (* of the version each one shows, 0 when deleted         *)
    config,       (* the saved configuration                               *)
    proc,         (* the configuration of _previousConfig                  *)
    link,         (* the layer processor made for it: "new" when there is  *)
                  (* no _previousConfig, "failed" when there is none       *)
    time,         (* lastTimeStamp of each processor                       *)
    pending,      (* _pendingNewAndUpdates of each processor               *)
    loop,         (* chains of cycles, each with its timer                 *)
    timer,        (* the chain whose timer can be cleared                  *)
    batch,        (* calls of processArcObjects in flight, oldest first    *)
    again,        (* history: observations read while one was in flight    *)
    doubtful      (* history: read that way, passed over, or request lost  *)

outside == <<doc, now>>
setup   == <<config, proc, link, timer>>
work    == <<time, pending, loop, batch>>
history == <<again, doubtful>>
vars    == <<outside, layer, upsets, setup, work, history>>

Observations == 1..LastId
Chains  == 1..MaxChains
Processors == 1..(MaxUpsets + 1)
Batches == 1..MaxBatches
Times   == 0..(MaxTime + 1)
Item   == [obs : Observations, ver : Times, archived : BOOLEAN]
Change == [obs : Observations, ver : Times, id : Nat]
Bins   == [adds : Seq(Item), updates : Seq(Change)]
Batch  == [at : {"query", "send"}, proc : Processors, items : Seq(Item), bins : Bins,
           asked : SUBSET Item, deletions : SUBSET Observations]
Cycle  == [at : {"none", "armed", "config", "query", "send", "page", "end"}, proc : Processors,
           next : Times, page : Nat, left : Int, bins : Bins]

NoBins   == [adds |-> <<>>, updates |-> <<>>]
NoCycle(at) == [at |-> at, proc |-> 1, next |-> 0, page |-> 0, left |-> 0, bins |-> NoBins]

(* The layer is new to the observations there are. *)
Init ==
    /\ now = LastId
    /\ doc = [o \in Observations |-> [ver |-> o, archived |-> FALSE, early |-> FALSE]]
    /\ upsets = 0
    /\ layer = [o \in Observations |-> <<>>]
    /\ config = 1 /\ proc = 1 /\ link = "new"
    /\ time = [p \in Processors |-> 0]
    /\ pending = [p \in Processors |-> NoBins]
    /\ loop = [l \in Chains |-> NoCycle(IF l = 1 THEN "config" ELSE "none")]
    /\ timer = 1
    /\ batch = <<>>
    /\ again = {} /\ doubtful = {}

-----------------------------------------------------------------------------
(***************************************************************************)
(* Features, and the requests that change them.                            *)
(***************************************************************************)
Features(o) == {i \in DOMAIN layer[o] : layer[o][i] # 0}

existingObservationIds == {o \in Observations : Features(o) # {}}

(* The items of some of the observations, in the order of the list. *)
Kept(items, obs) ==
    LET kept[n \in 0..Len(items)] ==
            IF n = 0 THEN <<>>
            ELSE IF items[n].obs \in obs THEN Append(kept[n - 1], items[n])
            ELSE kept[n - 1] IN
    kept[Len(items)]

Of(items) == {items[i].obs : i \in DOMAIN items}

InBins(bins) == Of(bins.adds) \cup Of(bins.updates)

InFlight ==
    UNION ({Of(batch[b].items) \cup InBins(batch[b].bins) \cup batch[b].deletions
              \cup {i.obs : i \in batch[b].asked} : b \in DOMAIN batch}
           \cup {InBins(pending[p]) : p \in Processors} \cup {InBins(loop[l].bins) : l \in Chains})

(* An added feature gets the next object id. *)
Added(adds) ==
    [o \in Observations |->
        LET own == Kept(adds, {o}) IN
        layer[o] \o [i \in DOMAIN own |-> own[i].ver]]

(* A feature that is there takes the last of its updates. *)
Updated(updates) ==
    [o \in Observations |->
        [f \in DOMAIN layer[o] |->
            LET own == {u \in DOMAIN updates : updates[u].obs = o /\ updates[u].id = f} IN
            IF layer[o][f] = 0 \/ own = {} THEN layer[o][f] ELSE updates[Max(own)].ver]]

Deleted(o) == [layer EXCEPT ![o] = [i \in DOMAIN @ |-> 0]]

(* A request to the layer is answered, or fails and is not repeated. *)
Requested(obs, result) ==
    \/ layer' = result /\ UNCHANGED <<upsets, doubtful>>
    \/ /\ upsets < MaxUpsets
       /\ upsets' = upsets + 1
       /\ doubtful' = doubtful \cup obs
       /\ UNCHANGED layer

Kinds == {"adds", "updates"}

(* The two requests of send are answered in either order. *)
send(bins, kind) ==
    /\ bins[kind] # <<>>
    /\ Requested(Of(bins[kind]), IF kind = "adds" THEN Added(bins.adds) ELSE Updated(bins.updates))

-----------------------------------------------------------------------------
(***************************************************************************)
(* Observations, the configuration and the server.                         *)
(***************************************************************************)
Reading == {l \in Chains : loop[l].at = "page" /\ loop[l].page > 0}

(* An observation that a page has returned goes to the end of the list, so *)
(* the next page leaves out the first one it should have returned.         *)
Save(o, archived, early) ==
    /\ now < MaxTime
    /\ now' = now + 1
    /\ doc' = [doc EXCEPT ![o] = [ver |-> now + 1, archived |-> archived, early |-> early]]
    /\ doubtful' = doubtful \cup
            IF \E l \in Reading : doc[o].ver >= time[loop[l].proc]
            THEN {x \in Observations : doc[x].ver > doc[o].ver} ELSE {}
    /\ UNCHANGED <<layer, upsets, setup, work, again>>

(* Clears the timer and begins a cycle, whether or not one is under way. *)
putConfig(changed) ==
    LET stopped == IF loop[timer].at = "armed"
                   THEN [loop EXCEPT ![timer] = NoCycle("none")] ELSE loop
        off == {l \in Chains : stopped[l].at = "none"} IN
    /\ upsets < MaxUpsets
    /\ upsets' = upsets + 1
    /\ config' = IF changed THEN config + 1 ELSE config
    /\ off # {}
    /\ loop' = [stopped EXCEPT ![CHOOSE l \in off : TRUE] = NoCycle("config")]
    /\ UNCHANGED <<outside, layer, proc, link, timer, time, pending, batch, history>>

Crash ==
    /\ upsets < MaxUpsets
    /\ upsets' = upsets + 1
    /\ loop' = [l \in Chains |-> NoCycle(IF l = 1 THEN "config" ELSE "none")]
    /\ timer' = 1
    /\ link' = "new"
    /\ time' = [p \in Processors |-> 0]
    /\ pending' = [p \in Processors |-> NoBins]
    /\ batch' = <<>>
    /\ UNCHANGED <<outside, layer, config, proc, history>>

-----------------------------------------------------------------------------
(***************************************************************************)
(* A cycle.                                                                *)
(***************************************************************************)
Goes(l, cycle) == loop' = [loop EXCEPT ![l] = cycle]

(* The configuration read is not the one before, or is the first.          *)
Reconfigured == config # proc \/ link = "new"

(* A new configuration gets a new processor, which has read nothing; what  *)
(* the old one had yet to send is dropped.                                 *)
Configured(l, answer) ==
    /\ loop[l].at \in {"armed", "config"}
    /\ proc' = config /\ link' = answer
    /\ doubtful' = IF proc = config THEN doubtful ELSE doubtful \cup InFlight
    /\ UNCHANGED <<outside, layer, config, time, pending, batch, again>>

(* The requests for the layer are one step with the rest of it: no other   *)
(* cycle begins while they are out.                                        *)
updateConfig(l) ==
    /\ Reconfigured \/ link = "made"
    /\ Configured(l, "made")
    /\ Goes(l, [NoCycle("query") EXCEPT !.proc = config])
    /\ UNCHANGED <<upsets, timer>>

(* The sign-in or a request for the layer fails, which is logged: there is *)
(* no processor, and the configuration counts as the one before.           *)
LayersFail(l) ==
    /\ Reconfigured
    /\ upsets < MaxUpsets
    /\ upsets' = upsets + 1
    /\ Configured(l, "failed")
    /\ Goes(l, NoCycle("armed"))
    /\ timer' = l

(* Without a processor there is nothing to do, now and in later cycles.    *)
NoLayers(l) ==
    /\ loop[l].at \in {"armed", "config"}
    /\ ~Reconfigured /\ link = "failed"
    /\ Goes(l, NoCycle("armed"))
    /\ timer' = l
    /\ UNCHANGED <<outside, layer, upsets, config, proc, link, time, pending, batch, history>>

(* MUTANT of FirstPage: counts the time on twice. *)
FirstPageLater == [NoCycle(IF link = "made" THEN "page" ELSE "end")
                     EXCEPT !.proc = proc, !.next = now + 2]

(* The pages are read from now on; what is written later is newer.  There  *)
(* are none to read for a processor another cycle failed to replace.       *)
FirstPage == [NoCycle(IF link = "made" THEN "page" ELSE "end")
                EXCEPT !.proc = proc, !.next = now + 1]

(* The query of the existing observations; one that fails finds none. *)
Existing(old) ==
    \/ old = existingObservationIds /\ UNCHANGED upsets
    \/ old = {} /\ upsets < MaxUpsets /\ upsets' = upsets + 1

processPendingUpdates(l) ==
    LET p == loop[l].proc IN
    /\ loop[l].at = "query"
    /\ \E old \in SUBSET Observations :
        /\ Existing(old)
        /\ LET bins == [pending[p] EXCEPT !.adds = Kept(@, Observations \ old)] IN
           Goes(l, IF bins = NoBins THEN FirstPage
                   ELSE [loop[l] EXCEPT !.at = "send", !.bins = bins])
    /\ pending' = [pending EXCEPT ![p] = NoBins]
    /\ UNCHANGED <<outside, layer, setup, time, batch, history>>

SendPending(l, kind) ==
    LET rest == [loop[l].bins EXCEPT ![kind] = <<>>] IN
    /\ loop[l].at = "send"
    /\ send(loop[l].bins, kind)
    /\ Goes(l, IF rest = NoBins THEN FirstPage ELSE [loop[l] EXCEPT !.bins = rest])
    /\ UNCHANGED <<outside, setup, time, pending, batch, again>>

findLastModifiedAfter(t) ==
    LET found == {o \in Observations : doc[o].ver >= t} IN
    CHOOSE s \in [1..Cardinality(found) -> found] :
        \A i, j \in DOMAIN s : i < j => doc[s[i]].ver < doc[s[j]].ver

(* Observations of before the event's date are read and passed over,       *)
(* unless they are archived.                                               *)
Synced == {o \in Observations : doc[o].archived \/ ~doc[o].early}

(* The first page counts what is left to read.  A page past the end leaves *)
(* the count as it is, and the next one is read; that no page from the     *)
(* number of observations on holds any bounds the number of the page.      *)
queryAndSend(l) ==
    LET found == findLastModifiedAfter(time[loop[l].proc])
        skip  == loop[l].page * PageSize
        page  == SubSeq(found, skip + 1, IF skip + PageSize < Len(found) THEN skip + PageSize
                                         ELSE Len(found))
        left  == (IF loop[l].page = 0 THEN Len(found) ELSE loop[l].left) - Len(page)
        read  == [i \in DOMAIN page |-> [obs |-> page[i], ver |-> doc[page[i]].ver,
                                         archived |-> doc[page[i]].archived]]
        items == Kept(read, Synced)
        old   == Of(read) \cap InFlight IN
    /\ loop[l].at = "page"
    /\ found # <<>>
    /\ Len(batch) < MaxBatches
    /\ batch' = Append(batch, [at |-> "query", proc |-> loop[l].proc, items |-> items,
                               bins |-> NoBins, asked |-> {}, deletions |-> {}])
    /\ Goes(l, [loop[l] EXCEPT !.at = IF left > 0 THEN "page" ELSE "end",
                               !.page = IF @ < LastId THEN @ + 1 ELSE @, !.left = left])
    /\ again' = again \cup (Of(items) \cap InFlight)
    /\ doubtful' = IF loop[l].proc = proc THEN (doubtful \ Of(read)) \cup old
                   ELSE doubtful \cup Of(read)
    /\ UNCHANGED <<outside, layer, upsets, setup, time, pending>>

(* Nothing is new, which ends the loop unless some are left to read. *)
NothingNew(l) ==
    /\ loop[l].at = "page" /\ loop[l].left = 0
    /\ findLastModifiedAfter(time[loop[l].proc]) = <<>>

(* Another cycle's next page is counted from the time set here, and what   *)
(* one processor has read is not what the next one has.                    *)
Armed(l) ==
    /\ loop[l].at = "end" \/ NothingNew(l)
    /\ Goes(l, NoCycle("armed"))
    /\ timer' = l
    /\ doubtful' = IF link # "made" \/ (loop[l].proc = proc /\ Reading \ {l} = {})
                   THEN doubtful ELSE Observations
    /\ UNCHANGED <<outside, layer, upsets, config, proc, link, pending, batch, again>>

(* MUTANT of EndCycle: takes the time when the pages are read. *)
EndCycleLate(l) ==
    /\ Armed(l)
    /\ time' = IF link = "made" THEN [time EXCEPT ![proc] = now + 1] ELSE time

(* The time taken before the first page becomes that of the processor      *)
(* there is now, if there is one.                                          *)
EndCycle(l) ==
    /\ Armed(l)
    /\ time' = IF link = "made" THEN [time EXCEPT ![proc] = loop[l].next] ELSE time

-----------------------------------------------------------------------------
(***************************************************************************)
(* A batch.                                                                *)
(***************************************************************************)
(* A batch with nothing left in flight is gone. *)
Rest(b, new) ==
    batch' = IF new.bins = NoBins /\ new.asked = {} /\ new.deletions = {}
             THEN RemoveAt(batch, b) ELSE [batch EXCEPT ![b] = new]

(* Sends, besides its adds, whatever updates are pending: they stay so. *)
processArcObjects(b) ==
    LET items == batch[b].items
        live  == {i.obs : i \in {j \in ToSet(items) : ~j.archived}} IN
    /\ batch[b].at = "query"
    /\ \E old \in SUBSET Observations :
        /\ Existing(old)
        /\ Rest(b, [at |-> "send", proc |-> batch[b].proc, items |-> <<>>,
                    bins |-> [adds |-> Kept(items, live \ old),
                              updates |-> pending[batch[b].proc].updates],
                    asked |-> {i \in ToSet(items) : i.obs \in live \cap old},
                    deletions |-> (Of(items) \ live) \cap old])
        /\ doubtful' = IF old = existingObservationIds THEN doubtful
                       ELSE doubtful \cup Of(batch[b].items)
        /\ again' = IF old = existingObservationIds THEN again
                    ELSE again \cup Of(batch[b].items)
    /\ UNCHANGED <<outside, layer, setup, time, pending, loop>>

(* MUTANT of SendBatch: sends again what was answered. *)
SendBatchAgain(b, kind) ==
    /\ batch[b].at = "send"
    /\ send(batch[b].bins, kind)
    /\ UNCHANGED <<outside, setup, work, again>>

SendBatch(b, kind) ==
    /\ batch[b].at = "send"
    /\ send(batch[b].bins, kind)
    /\ Rest(b, [batch[b] EXCEPT !.bins[kind] = <<>>])
    /\ UNCHANGED <<outside, setup, time, pending, loop, again>>

sendDelete(b, o) ==
    /\ batch[b].at = "send"
    /\ batch[b].bins = NoBins
    /\ o \in batch[b].deletions
    /\ Requested({o}, Deleted(o))
    /\ Rest(b, [batch[b] EXCEPT !.deletions = @ \ {o}])
    /\ UNCHANGED <<outside, setup, time, pending, loop, again>>

(* The features of an observation that was updated come in the order of    *)
(* their ids; only the first is looked at.                                 *)
queryObservation(b, i) ==
    LET id == CHOOSE f \in Features(i.obs) : \A g \in Features(i.obs) : f <= g
        p  == batch[b].proc
        change == [obs |-> i.obs, ver |-> i.ver, id |-> id]
        bins == IF Features(i.obs) = {} THEN [pending[p] EXCEPT !.adds = Append(@, i)]
                ELSE IF layer[i.obs][id] < i.ver
                THEN [pending[p] EXCEPT !.updates = Append(@, change)]
                ELSE pending[p] IN
    /\ i \in batch[b].asked
    /\ Rest(b, [batch[b] EXCEPT !.asked = @ \ {i}])
    /\ pending' = [pending EXCEPT ![p] = bins]
    /\ UNCHANGED <<outside, layer, upsets, setup, time, loop, history>>

QueryFails(b, i) ==
    /\ i \in batch[b].asked
    /\ upsets < MaxUpsets
    /\ upsets' = upsets + 1
    /\ doubtful' = doubtful \cup {i.obs}
    /\ Rest(b, [batch[b] EXCEPT !.asked = @ \ {i}])
    /\ UNCHANGED <<outside, layer, setup, time, pending, loop, again>>

-----------------------------------------------------------------------------
CycleStep(l) ==
    \/ updateConfig(l) \/ NoLayers(l)
    \/ processPendingUpdates(l) \/ queryAndSend(l) \/ EndCycle(l)
    \/ \E kind \in Kinds : SendPending(l, kind)

BatchStep(b) ==
    /\ b \in DOMAIN batch
    /\ \/ processArcObjects(b)
       \/ \E kind \in Kinds : SendBatch(b, kind)
       \/ \E o \in Observations : sendDelete(b, o)
       \/ \E i \in batch[b].asked : queryObservation(b, i)

Next ==
    \/ \E o \in Observations, archived, early \in BOOLEAN :
            ~(archived /\ early) /\ Save(o, archived, early)
    \/ \E changed \in BOOLEAN : putConfig(changed)
    \/ \E l \in Chains : CycleStep(l) \/ LayersFail(l)
    \/ \E b \in DOMAIN batch : BatchStep(b) \/ \E i \in batch[b].asked : QueryFails(b, i)
    \/ Crash

Spec == Init /\ [][Next]_vars

(* Timers fire, and every request is answered or fails. *)
FairSpec ==
    /\ Spec
    /\ \A l \in Chains : WF_vars(CycleStep(l))
    /\ \A b \in Batches : WF_vars(BatchStep(b))

-----------------------------------------------------------------------------
(***************************************************************************)
(* Properties.                                                             *)
(***************************************************************************)
TypeOK ==
    /\ doc \in [Observations -> [ver : Times, archived : BOOLEAN, early : BOOLEAN]]
    /\ now \in Times /\ upsets \in 0..MaxUpsets
    /\ layer \in [Observations -> Seq(Times)]
    /\ config \in Processors /\ proc \in Processors /\ timer \in Chains
    /\ link \in {"new", "made", "failed"}
    /\ time \in [Processors -> Times]
    /\ pending \in [Processors -> Bins]
    /\ loop \in [Chains -> Cycle]
    /\ batch \in Seq(Batch)
    /\ again \in SUBSET Observations /\ doubtful \in SUBSET Observations

(* An observation has one feature, unless it was read while an earlier     *)
(* version of it was still on its way to the layer, or the query for the   *)
(* existing observations failed (queryAndSend does not await the batch).   *)
OneFeature == \A o \in Observations \ again : Cardinality(Features(o)) <= 1

(* The layer shows the last version, or nothing of an archived one.  Of an *)
(* observation of before the event's date it shows whatever it did.        *)
InSync(o) ==
    IF doc[o].archived THEN Features(o) = {}
    ELSE doc[o].early \/ \E f \in Features(o) : layer[o][f] = doc[o].ver

(* What the layer shows in the end is what is stored, unless the           *)
(* observation was last read while an earlier version of it was on its     *)
(* way, was passed over by a page because another one was edited or        *)
(* another cycle ended, or had a request fail (FeatureLayerProcessor).     *)
(* The next clean reading, after an edit or a restart, makes it good.      *)
(* Once the requests for the layer have failed nothing is sent at all,     *)
(* until the configuration changes or the server restarts                  *)
(* (ObservationProcessor.getFeatureServiceLayers).                         *)
EditsReachLayer ==
    \A o \in Observations : <>[](link = "failed" \/ o \in doubtful \/ InSync(o))

(* New observations, edits and deletions are reflected in the layer, as    *)
(* the documentation of the plugin promises, whatever happens meanwhile.   *)
EditsReflected == \A o \in Observations : <>[]InSync(o)
=============================================================================
