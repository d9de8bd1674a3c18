------------------------------ MODULE SftpSync ------------------------------
(***************************************************************************)
(* The SFTP plugin: a polling loop that uploads the observations of one    *)
(* event to a remote server and records, per observation, how that went.   *)
(*                                                                         *)
(* A cycle gathers what to send (records left PENDING, and one page of the *)
(* observations modified since the latest version sent), then archives and *)
(* uploads one after the other.  Around it, clients write observations and *)
(* attachments, an administrator requeues records and saves the            *)
(* configuration, which stops and starts the loop, and the server restarts.*)
(*                                                                         *)
(* Every write gets a time of its own, so that the time of its last        *)
(* modification also identifies the version of an observation.             *)
(***************************************************************************)
EXTENDS Naturals, FiniteSets, FiniteSetsExt

CONSTANTS
    Observations,   (* observation ids                                     *)
    Loops,          (* polling loops that may be alive at once             *)
    Rule,           (* "Create" or "CreateAndUpdate"                       *)
    PageSize,       (* observations the query returns at most              *)
    Timeout,        (* how long an archive may stay incomplete             *)
    MaxTime,        (* bound: writes and ticks of the clock                *)
    MaxAdmin,       (* bound: requeues and saves of the configuration      *)
    MaxFaults,      (* bound: restarts and calls that fail                 *)
    None            (* no loop                                             *)

ASSUME SftpAssumption ==
    /\ Rule \in {"Create", "CreateAndUpdate"}
    /\ PageSize \in Nat \ {0}
    /\ Timeout \in Nat
    /\ MaxTime \in Nat \ {0}
    /\ MaxAdmin \in Nat
    /\ MaxFaults \in Nat
    /\ None \notin Loops

VARIABLES
    now,
    modified,     (* when an observation was last modified, 0 before it is *)
    ready,        (* observations whose attachments all have their content *)
    sync,         (* the plugin's record of an observation                 *)
    remote,       (* the last version that was uploaded whole              *)
    partial,      (* observations whose remote file has a part of a version*)
    startTime,    (* when the plugin was constructed                       *)
    skipDone,     (* older observations were marked SKIPPED                *)
    isRunning,
    nextTimeout,  (* the loop whose timer a stop would clear               *)
    saving,       (* saves of the configuration that stopped, not started  *)
    loop,         (* where each loop stands, and what it has left to send  *)
    admin, faults,
    aborted,      (* history: a cycle was cut short by the database        *)
    overlapped,   (* history: a loop was started while there was another   *)
    torn          (* history: partial files that no outcome was recorded of*)

clients == <<now, modified, ready>>
control == <<startTime, skipDone, isRunning, nextTimeout, saving>>
history == <<aborted, overlapped, torn>>
server  == <<remote, partial>>
bounds  == <<admin, faults, history>>
vars    == <<clients, sync, server, control, loop, bounds>>

Time == 0..MaxTime
Version == [obs : Observations, at : Time]   (* an observation as it was read *)
SyncStatus == {"none", "SUCCESS", "FAILED", "PENDING", "SKIPPED"}
SyncRecord == [status : SyncStatus, modified : Time]
Phase == {"off", "asleep", "awake", "skipped", "gathered", "connect", "send",
          "put", "putting", "success", "failed", "pending"}
(* pending goes before fresh; sending is the one under way, if any; a cycle *)
(* is awaited when a request that saves the configuration runs it.          *)
LoopState == [at : Phase, pending : SUBSET Version, fresh : SUBSET Version,
              sending : SUBSET Version, awaited : BOOLEAN]

At(p) == [at |-> p, pending |-> {}, fresh |-> {}, sending |-> {}, awaited |-> FALSE]
Read(o) == [obs |-> o, at |-> modified[o]]

Init ==
    /\ now = 1
    /\ modified = [o \in Observations |-> 0]
    /\ ready = {}
    /\ sync = [o \in Observations |-> [status |-> "none", modified |-> 0]]
    /\ remote = [o \in Observations |-> 0]
    /\ partial = {}
    /\ startTime = 1
    /\ skipDone = FALSE
    /\ isRunning = TRUE
    /\ nextTimeout = None
    /\ saving = 0
    /\ \E l \in Loops : loop = [k \in Loops |-> At(IF k = l THEN "awake" ELSE "off")]
    /\ admin = 0
    /\ faults = 0
    /\ aborted = FALSE /\ overlapped = FALSE /\ torn = {}

-----------------------------------------------------------------------------
(***************************************************************************)
(* Clients.  Attachment content that arrives touches the observation too.  *)
(***************************************************************************)
Write(o) ==
    /\ now < MaxTime
    /\ now' = now + 1
    /\ modified' = [modified EXCEPT ![o] = now + 1]
    /\ UNCHANGED <<sync, server, control, loop, bounds>>

Create(o) ==
    /\ modified[o] = 0
    /\ Write(o)
    /\ ready' = ready \cup {o} \/ UNCHANGED ready

Edit(o) ==
    /\ modified[o] # 0
    /\ Write(o)
    /\ UNCHANGED ready

AttachmentArrives(o) ==
    /\ modified[o] # 0
    /\ o \notin ready
    /\ Write(o)
    /\ ready' = ready \cup {o}

Tick ==
    /\ now < MaxTime
    /\ now' = now + 1
    /\ UNCHANGED <<modified, ready, sync, server, control, loop, bounds>>

-----------------------------------------------------------------------------
(***************************************************************************)
(* The plugin's records.                                                   *)
(***************************************************************************)
(* MUTANT of postStatus: stamps the record with the time it is written. *)
postStatusNow(o, status, time) ==
    sync' = [sync EXCEPT ![o] =
        [status |-> status, modified |-> IF time = 0 THEN @.modified ELSE now]]

(* A status without a time keeps the time of the last success. *)
postStatus(o, status, time) ==
    sync' = [sync EXCEPT ![o] =
        [status |-> status, modified |-> IF time = 0 THEN @.modified ELSE time]]

findLatestSyncedObservationTime ==
    Max({0} \cup {sync[o].modified : o \in {p \in Observations : sync[p].status = "SUCCESS"}})

queryTime == Max({findLatestSyncedObservationTime, startTime})

isProcessed(o) == sync[o].status = "SUCCESS"

(* MUTANT of isSyncedAtLastModified: any success will do. *)
isSyncedOnce(o, time) ==
    sync[o].status = "SUCCESS"

isSyncedAtLastModified(o, time) ==
    sync[o].status = "SUCCESS" /\ sync[o].modified >= time

Settled(o) == IF Rule = "Create" THEN isProcessed(o)
                                 ELSE isSyncedAtLastModified(o, modified[o])

(* The query names no order: the index it uses returns the oldest first. *)
FirstPage ==
    LET matches == {o \in Observations : modified[o] >= queryTime /\ modified[o] # 0}
    IN  {o \in matches : Cardinality({p \in matches : modified[p] < modified[o]}) < PageSize}

-----------------------------------------------------------------------------
(***************************************************************************)
(* One cycle of a loop.                                                    *)
(***************************************************************************)
Moves(l, from, state) ==
    /\ loop[l].at = from
    /\ loop' = [loop EXCEPT ![l] = state]

(* MUTANT of EndsCycle: schedules itself whether or not it was stopped. *)
EndsCycleAnyway(l) == loop' = [loop EXCEPT ![l] = At("asleep")] /\ nextTimeout' = l

(* A loop that finds the plugin stopped does not schedule itself again. *)
EndsCycle(l) ==
    IF isRunning
    THEN loop' = [loop EXCEPT ![l] = At("asleep")] /\ nextTimeout' = l
    ELSE loop' = [loop EXCEPT ![l] = At("off")] /\ UNCHANGED nextTimeout

Wake(l) ==
    /\ Moves(l, "asleep", At(IF isRunning THEN "awake" ELSE "off"))
    /\ UNCHANGED <<clients, sync, server, control, bounds>>

skipMissedObservations(l) ==
    /\ Moves(l, "awake", [loop[l] EXCEPT !.at = "skipped"])
    /\ skipDone' = TRUE
    /\ sync' = [o \in Observations |->
           IF ~skipDone /\ modified[o] \in 1..startTime - 1 /\ sync[o].status = "none"
           THEN [sync[o] EXCEPT !.status = "SKIPPED"] ELSE sync[o]]
    /\ UNCHANGED <<clients, server, startTime, isRunning, nextTimeout, saving, bounds>>

FindPending(l) ==
    /\ Moves(l, "skipped", [loop[l] EXCEPT
           !.at = "gathered",
           !.pending = {Read(o) : o \in {p \in Observations : sync[p].status = "PENDING"}}])
    /\ UNCHANGED <<clients, sync, server, control, bounds>>

FindModified(l) ==
    /\ Moves(l, "gathered", [loop[l] EXCEPT
           !.at = "connect",
           !.fresh = {Read(o) : o \in {p \in FirstPage : ~Settled(p)}}])
    /\ UNCHANGED <<clients, sync, server, control, bounds>>

NothingToSend(l) == loop[l].pending = {} /\ loop[l].fresh = {}

Connect(l) ==
    /\ ~NothingToSend(l)
    /\ Moves(l, "connect", [loop[l] EXCEPT !.at = "send"])
    /\ UNCHANGED <<clients, sync, server, control, bounds>>

EndCycle(l) ==
    /\ loop[l].at \in {"connect", "send"}
    /\ NothingToSend(l)
    /\ EndsCycle(l)
    /\ UNCHANGED <<clients, sync, server, startTime, skipDone, isRunning, saving, bounds>>

Oldest(S) == {v \in S : \A w \in S : v.at <= w.at}

(* MUTANT of createArchive: what is fresh goes before what is pending. *)
createArchiveFreshFirst(l) ==
    \E v \in IF loop[l].fresh # {} THEN Oldest(loop[l].fresh) ELSE loop[l].pending :
        /\ Moves(l, "send", [loop[l] EXCEPT
               !.at = IF v.obs \in ready \/ v.at + Timeout > now THEN "put" ELSE "pending",
               !.pending = IF loop[l].fresh # {} THEN loop[l].pending
                                                 ELSE loop[l].pending \ {v},
               !.fresh = loop[l].fresh \ {v},
               !.sending = {v}])
        /\ UNCHANGED <<clients, sync, server, control, bounds>>

(* An archive is complete when the content of every attachment can be read. *)
createArchive(l) ==
    \E v \in IF loop[l].pending # {} THEN loop[l].pending ELSE Oldest(loop[l].fresh) :
        /\ Moves(l, "send", [loop[l] EXCEPT
               !.at = IF v.obs \in ready \/ v.at + Timeout > now THEN "put" ELSE "pending",
               !.pending = loop[l].pending \ {v},
               !.fresh = IF loop[l].pending # {} THEN loop[l].fresh
                                                 ELSE loop[l].fresh \ {v},
               !.sending = {v}])
        /\ UNCHANGED <<clients, sync, server, control, bounds>>

Sends(l, o) == \E v \in loop[l].sending : v.obs = o

(* The remote file is written in place, over the one that is there. *)
OpenRemote(l) ==
    /\ Moves(l, "put", [loop[l] EXCEPT !.at = "putting"])
    /\ partial' = partial \cup {v.obs : v \in loop[l].sending}
    /\ UNCHANGED <<clients, sync, remote, control, bounds>>

PuttingTo(o) == {l \in Loops : loop[l].at = "putting" /\ Sends(l, o)}

Put(l) ==
    /\ Moves(l, "putting", [loop[l] EXCEPT !.at = "success"])
    /\ \E v \in loop[l].sending :
        /\ remote' = [remote EXCEPT ![v.obs] = v.at]
        /\ partial' = IF PuttingTo(v.obs) = {l} THEN partial \ {v.obs} ELSE partial
        /\ torn' = torn \ {v.obs}
    /\ UNCHANGED <<clients, sync, control, admin, faults, aborted, overlapped>>

Outcome == [success |-> "SUCCESS", failed |-> "FAILED", pending |-> "PENDING"]

(* MUTANT of PostOutcome: keeps what it sent. *)
PostOutcomeKeeps(l) ==
    /\ loop[l].at \in DOMAIN Outcome
    /\ loop' = [loop EXCEPT ![l].at = "send"]
    /\ \E v \in loop[l].sending :
          postStatus(v.obs, Outcome[loop[l].at], IF loop[l].at = "success" THEN v.at ELSE 0)
    /\ UNCHANGED <<clients, server, control, bounds>>

(* MUTANT of PostOutcome: records the observation as it is now, not as it was sent. *)
PostOutcomeLatest(l) ==
    /\ loop[l].at \in DOMAIN Outcome
    /\ loop' = [loop EXCEPT ![l].at = "send", ![l].sending = {}]
    /\ \E v \in loop[l].sending :
          postStatus(v.obs, Outcome[loop[l].at],
                     IF loop[l].at = "success" THEN modified[v.obs] ELSE 0)
    /\ UNCHANGED <<clients, server, control, bounds>>

PostOutcome(l) ==
    /\ loop[l].at \in DOMAIN Outcome
    /\ loop' = [loop EXCEPT ![l].at = "send", ![l].sending = {}]
    /\ \E v \in loop[l].sending :
          postStatus(v.obs, Outcome[loop[l].at], IF loop[l].at = "success" THEN v.at ELSE 0)
    /\ UNCHANGED <<clients, server, control, bounds>>

-----------------------------------------------------------------------------
(***************************************************************************)
(* What can go wrong in a cycle.                                           *)
(***************************************************************************)
Fault == faults < MaxFaults /\ faults' = faults + 1

(* What was being written, and has neither an outcome recorded nor a loop.  *)
CutOff(loops) == partial \cap {v.obs : v \in UNION {loop[l].sending : l \in loops}}

(* An upload that fails, which leaves the part that was written, or a       *)
(* success that cannot be recorded.                                         *)
SendFails(l) ==
    /\ loop[l].at \in {"put", "putting", "success"}
    /\ Fault
    /\ loop' = [loop EXCEPT ![l].at = "failed"]
    /\ UNCHANGED <<clients, sync, server, control, admin, history>>

(* No connection: nothing was taken on, all is left for the next cycle. *)
ConnectFails(l) ==
    /\ loop[l].at = "connect"
    /\ ~NothingToSend(l)
    /\ Fault
    /\ EndsCycle(l)
    /\ UNCHANGED <<clients, sync, server, startTime, skipDone, isRunning, saving,
                   admin, history>>

(* The database fails while the cycle gathers: it is not scheduled again.   *)
(* The request that awaits it says so; without one, no one handles the      *)
(* rejection and the server stops (see Restart).  Skipping is not tried      *)
(* again when it was what failed.                                           *)
GatherFails(l) ==
    /\ loop[l].at \in {"awake", "skipped", "gathered"}
    /\ loop[l].awaited
    /\ Fault
    /\ loop' = [loop EXCEPT ![l] = At("off")]
    /\ skipDone' = (skipDone \/ loop[l].at = "awake") \/ UNCHANGED skipDone
    /\ UNCHANGED <<clients, sync, server, startTime, isRunning, nextTimeout, saving,
                   admin, history>>

(* The database refuses the outcome: the rest of the queue is dropped. *)
PostFails(l) ==
    /\ loop[l].at \in {"failed", "pending"}
    /\ Fault
    /\ EndsCycle(l)
    /\ aborted' = TRUE
    /\ torn' = torn \cup CutOff({l})
    /\ UNCHANGED <<clients, sync, server, startTime, skipDone, isRunning, saving,
                   admin, overlapped>>

(* The server restarts, some time after it stopped. *)
Restart ==
    /\ now < MaxTime
    /\ Fault
    /\ now' = now + 1
    /\ startTime' = now + 1
    /\ skipDone' = FALSE
    /\ isRunning' = TRUE
    /\ nextTimeout' = None
    /\ saving' = 0
    /\ \E l \in Loops : loop' = [k \in Loops |-> At(IF k = l THEN "awake" ELSE "off")]
    /\ torn' = torn \cup CutOff(Loops)
    /\ UNCHANGED <<modified, ready, sync, server, admin, aborted, overlapped>>

-----------------------------------------------------------------------------
(***************************************************************************)
(* The administrator.                                                      *)
(***************************************************************************)
requeueObservation(o) ==
    /\ admin < MaxAdmin
    /\ admin' = admin + 1
    /\ sync[o].status # "none"
    /\ postStatus(o, "PENDING", 0)
    /\ UNCHANGED <<clients, server, control, loop, faults, history>>

(* Saving the configuration: stop, store, start.  The stop clears a timer; *)
(* a cycle that is under way goes on.                                      *)
stop ==
    /\ admin < MaxAdmin
    /\ admin' = admin + 1
    /\ isRunning' = FALSE
    /\ saving' = saving + 1
    /\ loop' = [l \in Loops |-> IF l = nextTimeout /\ loop[l].at = "asleep"
                                THEN At("off") ELSE loop[l]]
    /\ UNCHANGED <<clients, sync, server, startTime, skipDone, nextTimeout, faults,
                   history>>

start(l) ==
    /\ saving > 0
    /\ saving' = saving - 1
    /\ isRunning' = TRUE
    /\ Moves(l, "off", [At("awake") EXCEPT !.awaited = TRUE])
    /\ overlapped' = (overlapped \/ \E k \in Loops \ {l} : loop[k].at # "off")
    /\ UNCHANGED <<clients, sync, server, startTime, skipDone, nextTimeout, admin, faults,
                   aborted, torn>>

-----------------------------------------------------------------------------
CycleStep(l) ==
    \/ Wake(l) \/ skipMissedObservations(l) \/ FindPending(l) \/ FindModified(l)
    \/ Connect(l) \/ createArchive(l) \/ OpenRemote(l) \/ Put(l) \/ PostOutcome(l)
    \/ EndCycle(l)

Next ==
    \/ \E o \in Observations :
          Create(o) \/ Edit(o) \/ AttachmentArrives(o) \/ requeueObservation(o)
    \/ Tick
    \/ \E l \in Loops :
          CycleStep(l) \/ SendFails(l) \/ GatherFails(l) \/ ConnectFails(l)
             \/ PostFails(l) \/ start(l)
    \/ stop
    \/ Restart

Spec == Init /\ [][Next]_vars

(* Timers fire, and a call to the database or the remote server answers. *)
FairSpec == Spec /\ \A l \in Loops : WF_vars(CycleStep(l))
-----------------------------------------------------------------------------
(* Every variable keeps its type: a loop holds a version exactly while it   *)
(* sends it.                                                                *)
TypeOK ==
    /\ now \in Time
    /\ modified \in [Observations -> Time]
    /\ ready \subseteq Observations
    /\ sync \in [Observations -> SyncRecord]
    /\ remote \in [Observations -> Time]
    /\ startTime \in Time
    /\ skipDone \in BOOLEAN
    /\ isRunning \in BOOLEAN
    /\ nextTimeout \in Loops \cup {None}
    /\ saving \in Nat
    /\ loop \in [Loops -> LoopState]
    /\ \A l \in Loops : Cardinality(loop[l].sending) =
           (IF loop[l].at \in {"put", "putting", "success", "failed", "pending"} THEN 1 ELSE 0)
    /\ admin \in 0..MaxAdmin
    /\ faults \in 0..MaxFaults
    /\ aborted \in BOOLEAN
    /\ overlapped \in BOOLEAN
    /\ partial \subseteq Observations
    /\ torn \subseteq Observations

(* A stopped plugin comes to rest: no timer is left that would wake a loop, *)
(* unless the save of a configuration had started a loop beside another     *)
(* one, of which a stop clears one timer (SFTPController.stop).             *)
StopClearsTimer ==
    ~overlapped => \A l \in Loops :
        loop[l].at = "asleep" => isRunning /\ nextTimeout = l

(* A record of success means what it says: that version was uploaded whole, *)
(* or a newer one, and the remote file is whole, but while a loop writes    *)
(* over it or has yet to record that this failed; a restart in that time,   *)
(* or a database that refuses the outcome, leaves the record as it was.     *)
SuccessIsUploaded ==
    ~overlapped => \A o \in Observations : isProcessed(o) =>
        /\ remote[o] >= sync[o].modified
        /\ o \in partial =>
              \/ o \in torn
              \/ \E l \in Loops : loop[l].at \in {"putting", "failed"} /\ Sends(l, o)

(* One loop never puts an older version over a newer one, though an         *)
(* observation may be in its queue twice, as pending and as modified.       *)
RemoteNeverRegresses ==
    [][~overlapped => \A o \in Observations : remote'[o] >= remote[o]]_vars

Queued(o) == \E l \in Loops :
    \E v \in loop[l].pending \cup loop[l].fresh \cup loop[l].sending : v.obs = o

(* "Automatically exports observations as they are created or updated": a   *)
(* version written since the plugin started that was not sent stays within  *)
(* reach of a later cycle, or shows as pending or failed.                   *)
NothingSlips ==
    \A o \in Observations :
        modified[o] >= startTime /\ ~Settled(o) /\ ~aborted /\ ~overlapped =>
            \/ sync[o].status \in {"PENDING", "FAILED"}
            \/ Queued(o)
            \/ modified[o] >= queryTime

(* While no attachment is outstanding, every version written is eventually  *)
(* followed by the upload of that version, or a later one, though a page    *)
(* does not hold all the observations.                                      *)
LatestVersionUploaded ==
    [](\A o \in Observations : modified[o] # 0 => o \in ready) =>
        \A o \in Observations : \A t \in Time \ {0} :
            modified[o] = t ~> remote[o] >= t
=============================================================================
