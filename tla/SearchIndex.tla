----------------------------- MODULE SearchIndex -----------------------------
(***************************************************************************)
(* The search index of an event: one row for each form entry of each       *)
(* observation, unique by the id of the form entry.                        *)
(*                                                                         *)
(* Two kinds of writers keep it, and nothing orders them:                  *)
(*   - the handler of every saved observation deletes the rows of the      *)
(*     observation and inserts its entries, one after the other.  Nothing  *)
(*     waits for it, and what it throws is caught by the emitter of the    *)
(*     event, which logs it: the rest of its entries is not inserted;      *)
(*   - an indexing job, started at boot or by an administrator, claims the *)
(*     event, reads all observations in the order of their ids and inserts *)
(*     the entries that have no row, in batches; a forced one first        *)
(*     deletes every row of the event.                                     *)
(***************************************************************************)
EXTENDS Naturals, FiniteSets

CONSTANTS
    LastId,       (* observation ids are 1..LastId                         *)
    Entries,      (* form entries an observation may have                  *)
    Requests,     (* indexing requests of administrators                   *)
    Boot,         (* the job every start of the server begins with         *)
    BatchSize,    (* rows a job collects before it inserts them; 1000      *)
    Existing,     (* bound: entries an observation has before any is saved *)
    Edited,       (* bound: observations saved while the server runs       *)
    MaxSaves,     (* bound: observations saved                             *)
    MaxMishaps    (* bound: calls the database fails and crashes, together *)

ASSUME SearchIndexAssumption ==
    /\ LastId \in Nat /\ BatchSize \in Nat \ {0}
    /\ MaxSaves \in Nat /\ MaxMishaps \in Nat
    /\ Boot \notin Requests
    /\ Existing \subseteq Entries
    /\ Edited \subseteq 1..LastId

Observations == 1..LastId
Jobs     == Requests \cup {Boot}
Saves    == 1..MaxSaves
Versions == 0..(MaxSaves + 1)

VARIABLES
    doc,          (* the stored observations: number of the save, entries  *)
    index,        (* version at which an entry is indexed, 0 for no row    *)
    status,       (* observationSearchStatus of the event                  *)
    handler,      (* what the handler of each save has left to do          *)
    job,          (* the indexing jobs                                     *)
    saves, mishaps,
    unsettled,    (* history: observations two writers had in hand at once,*)
                  (* or whose handler was cut short                        *)
    unfound       (* history: observations two handlers had at once, whose *)
                  (* handler was cut short or that a job failed to index,  *)
                  (* since the last job began or an edit alone did         *)

stored  == <<doc, index, status>>
bounds  == <<saves, mishaps>>
history == <<unsettled, unfound>>
vars    == <<stored, handler, job, bounds, history>>

HandlerState == [at : {"none", "delete", "insert", "done"}, obs : 0..LastId,
                 left : SUBSET Entries, alone : BOOLEAN]
Row      == [obs : Observations, entry : Entries, ver : Versions]
JobState == [at : {"idle", "read", "claim", "clear", "iterate", "flush", "done"},
             stale : BOOLEAN, next : 1..(LastId + 1),
             batch : SUBSET Row, alone : BOOLEAN, robbed : BOOLEAN]

NoHandler == [at |-> "none", obs |-> 0, left |-> {}, alone |-> TRUE]
DoneHandler == [NoHandler EXCEPT !.at = "done"]
NoJob(at) == [at |-> at, stale |-> FALSE, next |-> 1, batch |-> {},
              alone |-> TRUE, robbed |-> FALSE]

HandlersOf(o) == {s \in Saves : handler[s].at \in {"delete", "insert"} /\ handler[s].obs = o}
Handled  == {o \in Observations : HandlersOf(o) # {}}
Working(j) == job[j].at \in {"clear", "iterate", "flush"}
Indexing == {j \in Jobs : Working(j)}

(* Observations that exist before the server first indexes have version 1. *)
Init ==
    /\ doc \in [Observations -> {[ver |-> 0, entries |-> {}], [ver |-> 1, entries |-> Existing]}]
    /\ index = [o \in Observations |-> [e \in Entries |-> 0]]
    /\ status = "pending"
    /\ handler = [s \in Saves |-> NoHandler]
    /\ job = [j \in Jobs |-> NoJob(IF j = Boot THEN "read" ELSE "idle")]
    /\ saves = 0 /\ mishaps = 0
    /\ unsettled = {} /\ unfound = {}

-----------------------------------------------------------------------------
(***************************************************************************)
(* Saved observations.                                                     *)
(***************************************************************************)
(* An observation is stored and its handler starts.  The entries may be    *)
(* any: a save from an older copy brings back entries another one removed. *)
Save(o, entries) ==
    /\ saves < MaxSaves
    /\ saves' = saves + 1
    /\ doc' = [doc EXCEPT ![o] = [ver |-> saves + 2, entries |-> entries]]
    /\ handler' = [s \in Saves |->
            IF s = saves + 1
            THEN [at |-> "delete", obs |-> o, left |-> entries,
                  alone |-> HandlersOf(o) = {} /\ Indexing = {}]
            ELSE IF s \in HandlersOf(o) THEN [handler[s] EXCEPT !.alone = FALSE]
            ELSE handler[s]]
    /\ job' = [j \in Jobs |-> IF Working(j) THEN [job[j] EXCEPT !.alone = FALSE] ELSE job[j]]
    /\ unsettled' = IF HandlersOf(o) = {} /\ Indexing = {} THEN unsettled
                    ELSE unsettled \cup {o}
    /\ unfound' = IF HandlersOf(o) = {} THEN unfound \ {o} ELSE unfound \cup {o}
    /\ UNCHANGED <<index, status, mishaps>>

(* A handler that had the observation to itself the whole time settles it. *)
Finished(s) == unsettled' = IF handler[s].alone THEN unsettled \ {handler[s].obs} ELSE unsettled

Deleted(s) ==
    /\ handler[s].at = "delete"
    /\ IF handler[s].left = {}
       THEN handler' = [handler EXCEPT ![s] = DoneHandler] /\ Finished(s)
       ELSE handler' = [handler EXCEPT ![s].at = "insert"] /\ UNCHANGED unsettled
    /\ UNCHANGED <<doc, status, job, bounds, unfound>>

(* MUTANT of HandlerDeletes: leaves the rows of removed entries behind. *)
HandlerDeletesOwn(s) ==
    LET o == handler[s].obs IN
    /\ Deleted(s)
    /\ index' = [index EXCEPT ![o] = [e \in Entries |->
                    IF e \in handler[s].left THEN 0 ELSE index[o][e]]]

HandlerDeletes(s) ==
    LET o == handler[s].obs IN
    /\ Deleted(s)
    /\ index' = [index EXCEPT ![o] = [e \in Entries |-> 0]]

HandlerInserts(s, e) ==
    LET o == handler[s].obs
        left == handler[s].left \ {e} IN
    /\ handler[s].at = "insert"
    /\ e \in handler[s].left
    /\ index[o][e] = 0
    /\ index' = [index EXCEPT ![o][e] = s + 1]
    /\ IF left = {}
       THEN handler' = [handler EXCEPT ![s] = DoneHandler] /\ Finished(s)
       ELSE handler' = [handler EXCEPT ![s].left = left] /\ UNCHANGED unsettled
    /\ UNCHANGED <<doc, status, job, bounds, unfound>>

Mishap == mishaps < MaxMishaps /\ mishaps' = mishaps + 1

(* A handler that rejects is logged; nothing tries again. *)
CutShort(s) ==
    /\ handler' = [handler EXCEPT ![s] = DoneHandler]
    /\ unsettled' = unsettled \cup {handler[s].obs}
    /\ unfound' = unfound \cup {handler[s].obs}
    /\ UNCHANGED <<stored, job, saves>>

(* The row is there already, inserted by another writer since. *)
HandlerThrows(s, e) ==
    /\ handler[s].at = "insert"
    /\ e \in handler[s].left
    /\ index[handler[s].obs][e] # 0
    /\ CutShort(s)
    /\ UNCHANGED mishaps

(* The database fails the deletion, or an insertion. *)
HandlerFails(s) ==
    /\ handler[s].at \in {"delete", "insert"}
    /\ Mishap
    /\ CutShort(s)

(* The process ends and starts again: handlers and jobs are gone, and the  *)
(* boot job reads the event as the old process left it.                    *)
Restart ==
    /\ handler' = [s \in Saves |-> IF handler[s].at = "none" THEN NoHandler ELSE DoneHandler]
    /\ job' = [j \in Jobs |-> IF j = Boot THEN NoJob("read")
                              ELSE IF job[j].at = "idle" THEN job[j] ELSE NoJob("done")]
    /\ unsettled' = unsettled \cup Handled
    /\ UNCHANGED <<stored, saves, unfound>>

Crash ==
    /\ Mishap
    /\ Restart

-----------------------------------------------------------------------------
(***************************************************************************)
(* Indexing jobs.  Only the one of the boot is not forced.                 *)
(***************************************************************************)
Forced(j) == j # Boot

JobGoes(j, new) ==
    /\ job' = [job EXCEPT ![j] = new]
    /\ UNCHANGED <<doc, handler, bounds, unfound>>

(* What a job reads of the event before it awaits anything else. *)
Request(j) ==
    /\ job[j].at \in {"idle", "read"}
    /\ j = Boot <=> job[j].at = "read"
    /\ JobGoes(j, [job[j] EXCEPT !.at = "claim", !.stale = (status = "running")])
    /\ UNCHANGED <<index, status, unsettled>>

(* A new value of the status takes the claim of every other job away. *)
Others(j, new) ==
    [k \in Jobs |-> IF k = j THEN new
                    ELSE IF Working(k) THEN [job[k] EXCEPT !.robbed = TRUE] ELSE job[k]]

(* MUTANT of ResetStale: leaves the event to the job that claimed it. *)
LeaveStale(j) ==
    /\ job[j].at = "claim"
    /\ job[j].stale
    /\ JobGoes(j, NoJob("done"))
    /\ UNCHANGED <<index, status, unsettled>>

(* The claim that was seen is taken for one that a crash left behind. *)
ResetStale(j) ==
    /\ job[j].at = "claim"
    /\ job[j].stale
    /\ status' = "pending"
    /\ job' = Others(j, [job[j] EXCEPT !.stale = FALSE])
    /\ UNCHANGED <<doc, index, handler, bounds, history>>

(* Once the event is claimed, the job starts over whatever is in flight. *)
Start(j) ==
    LET alone == Handled = {} /\ Indexing = {} IN
    /\ job[j].at = "claim"
    /\ ~job[j].stale
    /\ status' = "running"
    /\ job' = [k \in Jobs |->
            IF k = j THEN [job[j] EXCEPT !.at = IF Forced(j) THEN "clear" ELSE "iterate",
                                         !.alone = alone]
            ELSE IF Working(k) THEN [job[k] EXCEPT !.alone = FALSE] ELSE job[k]]
    /\ handler' = [s \in Saves |->
            IF handler[s].at \in {"delete", "insert"}
            THEN [handler[s] EXCEPT !.alone = FALSE] ELSE handler[s]]
    /\ unsettled' = unsettled \cup (IF Indexing = {} THEN Handled ELSE Observations)
    /\ unfound' = unfound \cap Handled
    /\ UNCHANGED <<doc, index, bounds>>

(* MUTANT of claimIndexing: indexes whether or not the event is claimed. *)
claimIndexingAnyway(j) == Start(j)

claimIndexing(j) == status # "running" /\ Start(j)

SkipRunning(j) ==
    /\ job[j].at = "claim"
    /\ ~job[j].stale
    /\ status = "running"
    /\ JobGoes(j, NoJob("done"))
    /\ UNCHANGED <<index, status, unsettled>>

Clear(j) ==
    /\ job[j].at = "clear"
    /\ index' = [o \in Observations |-> [e \in Entries |-> 0]]
    /\ JobGoes(j, [job[j] EXCEPT !.at = "iterate"])
    /\ UNCHANGED <<status, unsettled>>

searchDocsForObservation(o) ==
    {[obs |-> o, entry |-> e, ver |-> doc[o].ver] : e \in doc[o].entries}

ReadNext(j) ==
    LET o == job[j].next
        batch == job[j].batch \cup searchDocsForObservation(o)
        full == Cardinality(batch) >= BatchSize \/ o = LastId IN
    /\ job[j].at = "iterate"
    /\ o <= LastId
    /\ JobGoes(j, [job[j] EXCEPT !.next = o + 1, !.batch = batch,
                                 !.at = IF full THEN "flush" ELSE "iterate"])
    /\ UNCHANGED <<index, status, unsettled>>

(* MUTANT of insertIgnoreDuplicates: a duplicate fails the job. *)
insertDuplicateThrows(j, row) ==
    /\ job[j].at = "flush"
    /\ row \in job[j].batch
    /\ IF index[row.obs][row.entry] = 0
       THEN /\ index' = [index EXCEPT ![row.obs][row.entry] = row.ver]
            /\ job' = [job EXCEPT ![j].batch = @ \ {row}]
            /\ UNCHANGED status
       ELSE /\ status' = "pending"
            /\ job' = Others(j, NoJob("done"))
            /\ UNCHANGED index
    /\ UNCHANGED <<doc, handler, bounds, history>>

(* The batch is not inserted in order: a duplicate does not stop the rest. *)
insertIgnoreDuplicates(j, row) ==
    /\ job[j].at = "flush"
    /\ row \in job[j].batch
    /\ index' = [index EXCEPT ![row.obs][row.entry] = IF @ = 0 THEN row.ver ELSE @]
    /\ JobGoes(j, [job[j] EXCEPT !.batch = @ \ {row}])
    /\ UNCHANGED <<status, unsettled>>

Flushed(j) ==
    /\ job[j].at = "flush"
    /\ job[j].batch = {}
    /\ job[j].next <= LastId
    /\ JobGoes(j, [job[j] EXCEPT !.at = "iterate"])
    /\ UNCHANGED <<index, status, unsettled>>

(* MUTANT of Indexed: a status the event does not know. *)
IndexedComplete(j) ==
    /\ job[j].at = "flush"
    /\ job[j].batch = {}
    /\ job[j].next > LastId
    /\ status' = "complete"
    /\ job' = Others(j, NoJob("done"))
    /\ UNCHANGED <<doc, index, handler, bounds, history>>

(* A forced job that had the index to itself leaves nothing to doubt. *)
Indexed(j) ==
    /\ job[j].at = "flush"
    /\ job[j].batch = {}
    /\ job[j].next > LastId
    /\ status' = "indexed"
    /\ job' = Others(j, NoJob("done"))
    /\ unsettled' = IF Forced(j) /\ job[j].alone THEN {} ELSE unsettled
    /\ UNCHANGED <<doc, index, handler, bounds, unfound>>

(* Whatever fails, the event waits for the next start or request. *)
IndexingFails(j) ==
    /\ Mishap
    /\ Working(j)
    /\ status' = "pending"
    /\ job' = Others(j, NoJob("done"))
    /\ unfound' = Observations
    /\ UNCHANGED <<doc, index, handler, saves, unsettled>>

-----------------------------------------------------------------------------
HandlerStep(s) ==
    \/ HandlerDeletes(s)
    \/ \E e \in Entries : HandlerInserts(s, e) \/ HandlerThrows(s, e)

JobStep(j) ==
    \/ ResetStale(j) \/ claimIndexing(j) \/ SkipRunning(j) \/ Clear(j)
    \/ ReadNext(j) \/ Flushed(j) \/ Indexed(j)
    \/ \E row \in job[j].batch : insertIgnoreDuplicates(j, row)

Next ==
    \/ \E o \in Edited, entries \in SUBSET Entries : Save(o, entries)
    \/ \E s \in Saves : HandlerStep(s) \/ HandlerFails(s)
    \/ \E j \in Jobs : Request(j) \/ JobStep(j) \/ IndexingFails(j)
    \/ Crash

Spec == Init /\ [][Next]_vars

(* What was sent to the database is answered, and the boot job is started. *)
FairSpec ==
    /\ Spec
    /\ \A s \in Saves : WF_vars(HandlerStep(s))
    /\ \A j \in Jobs : WF_vars(JobStep(j))
    /\ WF_vars(Request(Boot))

-----------------------------------------------------------------------------
(***************************************************************************)
(* Properties.                                                             *)
(***************************************************************************)
TypeOK ==
    /\ doc \in [Observations -> [ver : Versions, entries : SUBSET Entries]]
    /\ index \in [Observations -> [Entries -> Versions]]
    /\ status \in {"pending", "running", "indexed"}
    /\ handler \in [Saves -> HandlerState]
    /\ job \in [Jobs -> JobState]
    /\ saves \in 0..MaxSaves /\ mishaps \in 0..MaxMishaps
    /\ unsettled \in SUBSET Observations /\ unfound \in SUBSET Observations

(* Two jobs index the event at once only when the claim of one of them was *)
(* taken away, by a request that took it for the claim of a crashed server *)
(* or by a job that had lost its own claim and ended (claimIndexing).      *)
OneIndexer ==
    \A j, k \in Indexing : j = k \/ job[j].robbed \/ job[k].robbed

(* A row shows the observation as it is stored, unless its handler is      *)
(* still at work, or the observation was written while another handler, or *)
(* a job, had it, or its handler was cut short by the database or with the *)
(* server, and no handler that had it to itself, nor a forced job, came    *)
(* after (MongooseObservationSearchRepository.save and .populate).         *)
NeverStale ==
    \A o \in Observations \ (unsettled \cup Handled), e \in Entries :
        index[o][e] # 0 => e \in doc[o].entries /\ index[o][e] = doc[o].ver

(* Every entry of every stored observation ends up in the index, in some   *)
(* version, whatever saves, forced jobs and crashes did on the way: a      *)
(* search can show an old text and cannot lose the entry.  It loses it     *)
(* only when two handlers of the observation crossed, when one was cut     *)
(* short by the database or by a row of a job's, or when a job failed; and *)
(* then the next save, job or start makes up for it.                       *)
SavedIsFound ==
    \A o \in Observations :
        <>[](o \in unfound \/ \A e \in doc[o].entries : index[o][e] # 0)

(* A claim is given back, though the server that made it may have crashed: *)
(* the next start resets it (indexAllEvents).                              *)
ClaimReleased == status = "running" ~> status # "running"
=============================================================================
