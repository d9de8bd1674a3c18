--------------------------- MODULE SftpSync_proofs ---------------------------
(***************************************************************************)
(* Theorems about SftpSync, for every set of observations and loops, both  *)
(* rules, every page size and timeout, and any number of writes, requeues, *)
(* saves of the configuration, failures and restarts.                      *)
(***************************************************************************)
EXTENDS SftpSync, FiniteSetTheorems, WellFoundedInduction, TLAPS

(***************************************************************************)
(* The inductive invariant, in parts.                                      *)
(***************************************************************************)
Sending == {"put", "putting", "success", "failed", "pending"}

InHand(l) == loop[l].pending \cup loop[l].fresh \cup loop[l].sending

(* What a loop holds in each phase of its cycle. *)
PhaseInv(l) ==
    /\ loop[l].at \in Sending => \E v \in Version : loop[l].sending = {v}
    /\ loop[l].at \notin Sending => loop[l].sending = {}
    /\ loop[l].at \in {"off", "asleep", "awake", "skipped"} => loop[l].pending = {}
    /\ loop[l].at \in {"off", "asleep", "awake", "skipped", "gathered"} => loop[l].fresh = {}

(* A version is read after it was written, and sent after it was read. *)
VersionInv ==
    /\ \A o \in Observations : remote[o] <= modified[o] /\ modified[o] <= now
    /\ \A o \in Observations : sync[o].status # "none" => modified[o] # 0
    /\ \A l \in Loops : \A v \in InHand(l) : v.at # 0 /\ v.at <= modified[v.obs]

(* Loops that never overlapped: one is alive, and a stop reaches it. *)
AloneInv == \A k, l \in Loops : loop[k].at # "off" /\ loop[l].at # "off" => k = l

TimerInv == \A l \in Loops : loop[l].at = "asleep" => isRunning /\ nextTimeout = l

(* A queue holds an observation once as pending and once as modified, the  *)
(* older first, and no version older than the one sent.                    *)
QueueInv(l) ==
    /\ \A v \in InHand(l) : remote[v.obs] <= v.at
    /\ \A v, w \in loop[l].pending : v.obs = w.obs => v = w
    /\ \A v, w \in loop[l].fresh : v.obs = w.obs => v = w
    /\ \A v \in loop[l].pending, w \in loop[l].fresh : v.obs = w.obs => v.at <= w.at
    /\ \A v \in loop[l].sending, w \in loop[l].pending \cup loop[l].fresh :
           v.obs = w.obs => v.at <= w.at
    /\ loop[l].at = "success" => \A v \in loop[l].sending : remote[v.obs] = v.at

SentInv == \A o \in Observations : isProcessed(o) => remote[o] >= sync[o].modified

OneLoopInv == AloneInv /\ TimerInv /\ SentInv /\ \A l \in Loops : QueueInv(l)

SyncInv ==
    /\ TypeOK
    /\ \A l \in Loops : PhaseInv(l)
    /\ VersionInv
    /\ ~overlapped => OneLoopInv
-----------------------------------------------------------------------------
(***************************************************************************)
(* Types.                                                                  *)
(***************************************************************************)
(* Where a loop stands after a step that sets some of its fields. *)
LEMMA LoopFields ==
  ASSUME NEW k \in LoopState, NEW p \in Phase, NEW pending \in SUBSET Version,
         NEW fresh \in SUBSET Version, NEW sending \in SUBSET Version
  PROVE  /\ At(p) \in LoopState
         /\ [At(p) EXCEPT !.awaited = TRUE] \in LoopState
         /\ [k EXCEPT !.at = p] \in LoopState
         /\ [k EXCEPT !.at = p, !.pending = pending] \in LoopState
         /\ [k EXCEPT !.at = p, !.fresh = fresh] \in LoopState
         /\ [k EXCEPT !.at = p, !.sending = sending] \in LoopState
         /\ [k EXCEPT !.at = p, !.pending = pending, !.fresh = fresh, !.sending = sending]
                \in LoopState
<1>1. At(p) \in LoopState
  BY DEF At, LoopState
<1>2. [At(p) EXCEPT !.awaited = TRUE] \in LoopState
  BY <1>1 DEF LoopState
<1>3. \A g \in LoopState : [g EXCEPT !.at = p] \in LoopState
  BY DEF LoopState
<1>4. \A g \in LoopState : [g EXCEPT !.pending = pending] \in LoopState
  BY DEF LoopState
<1>5. \A g \in LoopState : [g EXCEPT !.fresh = fresh] \in LoopState
  BY DEF LoopState
<1>6. \A g \in LoopState : [g EXCEPT !.sending = sending] \in LoopState
  BY DEF LoopState
<1>7. QED
  BY <1>1, <1>2, <1>3, <1>4, <1>5, <1>6

(* The steps that change nothing but where their loop stands. *)
LEMMA MovesEffect ==
  ASSUME loop \in [Loops -> LoopState], NEW l \in Loops, NEW state \in LoopState,
         loop' = [loop EXCEPT ![l] = state]
  PROVE  /\ loop' \in [Loops -> LoopState]
         /\ loop'[l] = state
         /\ \A k \in Loops \ {l} : loop'[k] = loop[k]
  OBVIOUS

(* A loop at rest, or at the start of a cycle, has nothing in hand. *)
LEMMA RestEffect ==
  ASSUME loop \in [Loops -> LoopState], NEW l \in Loops, NEW p \in Phase,
         \/ loop' = [loop EXCEPT ![l] = At(p)]
         \/ loop' = [loop EXCEPT ![l] = [At(p) EXCEPT !.awaited = TRUE]]
  PROVE  /\ loop' \in [Loops -> LoopState]
         /\ loop'[l].at = p /\ loop'[l].pending = {} /\ loop'[l].fresh = {}
         /\ loop'[l].sending = {}
         /\ \A k \in Loops \ {l} : loop'[k] = loop[k]
<1>1. At(p) \in LoopState /\ [At(p) EXCEPT !.awaited = TRUE] \in LoopState
  BY LoopFields
<1>2. PICK state \in LoopState :
          /\ loop' = [loop EXCEPT ![l] = state]
          /\ state = At(p) \/ state = [At(p) EXCEPT !.awaited = TRUE]
  BY <1>1
<1>3. state.at = p /\ state.pending = {} /\ state.fresh = {} /\ state.sending = {}
  BY <1>2 DEF At
<1>4. QED
  BY <1>2, <1>3

(* Loops whose rest, or cycle, comes to an end. *)
LEMMA RestStep ==
  ASSUME TypeOK, NEW l \in Loops,
         \/ Wake(l) \/ EndCycle(l) \/ GatherFails(l) \/ ConnectFails(l) \/ PostFails(l)
         \/ start(l)
  PROVE  /\ loop' \in [Loops -> LoopState]
         /\ loop'[l].at \in {"off", "asleep", "awake"}
         /\ loop'[l].pending = {} /\ loop'[l].fresh = {} /\ loop'[l].sending = {}
         /\ \A k \in Loops \ {l} : loop'[k] = loop[k]
<1>1. PICK p \in {"off", "asleep", "awake"} :
          \/ loop' = [loop EXCEPT ![l] = At(p)]
          \/ loop' = [loop EXCEPT ![l] = [At(p) EXCEPT !.awaited = TRUE]]
  BY DEF Wake, EndCycle, GatherFails, ConnectFails, PostFails, start, EndsCycle, Moves
<1>2. p \in Phase
  BY DEF Phase
<1>3. QED
  BY <1>1, <1>2, RestEffect DEF TypeOK

(* The other steps of a cycle. *)
LEMMA ReadIsVersion ==
  ASSUME TypeOK, NEW o \in Observations
  PROVE  Read(o) \in Version /\ Read(o).obs = o /\ Read(o).at = modified[o]
  BY DEF TypeOK, Read, Version, Time

LEMMA SkipStep ==
  ASSUME TypeOK, NEW l \in Loops, skipMissedObservations(l)
  PROVE  /\ loop' \in [Loops -> LoopState]
         /\ loop'[l].at = "skipped" /\ loop'[l].pending = loop[l].pending
         /\ loop'[l].fresh = loop[l].fresh /\ loop'[l].sending = loop[l].sending
         /\ \A k \in Loops \ {l} : loop'[k] = loop[k]
         /\ loop[l].at = "awake"
         /\ \A o \in Observations :
                \/ sync'[o] = sync[o]
                \/ modified[o] # 0 /\ sync'[o].status = "SKIPPED" /\ sync'[o] \in SyncRecord
<1>1. /\ loop[l].at = "awake"
      /\ loop' = [loop EXCEPT ![l] = [loop[l] EXCEPT !.at = "skipped"]]
  BY DEF skipMissedObservations, Moves
<1>2. [loop[l] EXCEPT !.at = "skipped"] \in LoopState
  BY LoopFields DEF TypeOK, Phase
<1>3. ASSUME NEW o \in Observations
      PROVE  \/ sync'[o] = sync[o]
             \/ modified[o] # 0 /\ sync'[o].status = "SKIPPED" /\ sync'[o] \in SyncRecord
  <2>1. sync[o] \in SyncRecord /\ startTime \in Nat
    BY DEF TypeOK, Time
  <2>2. [sync[o] EXCEPT !.status = "SKIPPED"] \in SyncRecord
    BY <2>1 DEF SyncRecord, SyncStatus
  <2>3. QED
    BY <2>1, <2>2 DEF skipMissedObservations, SyncRecord
<1>4. QED
  BY <1>1, <1>2, <1>3 DEF TypeOK, LoopState

LEMMA FindStep ==
  ASSUME TypeOK, NEW l \in Loops, FindPending(l) \/ FindModified(l)
  PROVE  /\ loop' \in [Loops -> LoopState]
         /\ loop'[l].sending = loop[l].sending
         /\ \A k \in Loops \ {l} : loop'[k] = loop[k]
         /\ \/ /\ loop[l].at = "skipped" /\ loop'[l].at = "gathered"
               /\ loop'[l].fresh = loop[l].fresh
               /\ loop'[l].pending = {Read(o) : o \in {p \in Observations :
                                                           sync[p].status = "PENDING"}}
            \/ /\ loop[l].at = "gathered" /\ loop'[l].at = "connect"
               /\ loop'[l].pending = loop[l].pending
               /\ loop'[l].fresh = {Read(o) : o \in {p \in FirstPage : ~Settled(p)}}
<1>1. loop[l] \in LoopState
  BY DEF TypeOK
<1>2. CASE FindPending(l)
  <2> DEFINE pending == {Read(o) : o \in {p \in Observations : sync[p].status = "PENDING"}}
  <2>1. /\ loop[l].at = "skipped"
        /\ loop' = [loop EXCEPT ![l] = [loop[l] EXCEPT !.at = "gathered", !.pending = pending]]
    BY <1>2 DEF FindPending, Moves
  <2>2. pending \in SUBSET Version
    BY ReadIsVersion
  <2> HIDE DEF pending
  <2>3. [loop[l] EXCEPT !.at = "gathered", !.pending = pending] \in LoopState
    BY <1>1, <2>2, LoopFields DEF Phase
  <2>4. /\ loop' \in [Loops -> LoopState]
        /\ loop'[l] = [loop[l] EXCEPT !.at = "gathered", !.pending = pending]
        /\ \A k \in Loops \ {l} : loop'[k] = loop[k]
    BY <2>1, <2>3, MovesEffect DEF TypeOK
  <2>5. /\ loop'[l].sending = loop[l].sending /\ loop'[l].at = "gathered"
        /\ loop'[l].fresh = loop[l].fresh /\ loop'[l].pending = pending
    BY <1>1, <2>4 DEF LoopState
  <2>6. QED
    BY <2>1, <2>4, <2>5 DEF pending
<1>3. CASE FindModified(l)
  <2> DEFINE fresh == {Read(o) : o \in {p \in FirstPage : ~Settled(p)}}
  <2>1. /\ loop[l].at = "gathered"
        /\ loop' = [loop EXCEPT ![l] = [loop[l] EXCEPT !.at = "connect", !.fresh = fresh]]
    BY <1>3 DEF FindModified, Moves
  <2>2. fresh \in SUBSET Version
    BY ReadIsVersion DEF FirstPage
  <2> HIDE DEF fresh
  <2>3. [loop[l] EXCEPT !.at = "connect", !.fresh = fresh] \in LoopState
    BY <1>1, <2>2, LoopFields DEF Phase
  <2>4. /\ loop' \in [Loops -> LoopState]
        /\ loop'[l] = [loop[l] EXCEPT !.at = "connect", !.fresh = fresh]
        /\ \A k \in Loops \ {l} : loop'[k] = loop[k]
    BY <2>1, <2>3, MovesEffect DEF TypeOK
  <2>5. /\ loop'[l].sending = loop[l].sending /\ loop'[l].at = "connect"
        /\ loop'[l].fresh = fresh /\ loop'[l].pending = loop[l].pending
    BY <1>1, <2>4 DEF LoopState
  <2>6. QED
    BY <2>1, <2>4, <2>5 DEF fresh
<1>4. QED
  BY <1>2, <1>3

LEMMA ConnectStep ==
  ASSUME TypeOK, NEW l \in Loops, Connect(l) \/ OpenRemote(l) \/ Put(l) \/ SendFails(l)
  PROVE  /\ loop' \in [Loops -> LoopState]
         /\ loop'[l].pending = loop[l].pending /\ loop'[l].fresh = loop[l].fresh
         /\ loop'[l].sending = loop[l].sending
         /\ \A k \in Loops \ {l} : loop'[k] = loop[k]
         /\ \/ Connect(l) /\ loop[l].at = "connect" /\ loop'[l].at = "send"
            \/ OpenRemote(l) /\ loop[l].at = "put" /\ loop'[l].at = "putting"
            \/ Put(l) /\ loop[l].at = "putting" /\ loop'[l].at = "success"
            \/ /\ SendFails(l) /\ loop[l].at \in {"put", "putting", "success"}
               /\ loop'[l].at = "failed"
<1>1. PICK p \in {"send", "putting", "success", "failed"} :
          /\ loop' = [loop EXCEPT ![l] = [loop[l] EXCEPT !.at = p]]
          /\ \/ Connect(l) /\ loop[l].at = "connect" /\ p = "send"
             \/ OpenRemote(l) /\ loop[l].at = "put" /\ p = "putting"
             \/ Put(l) /\ loop[l].at = "putting" /\ p = "success"
             \/ /\ SendFails(l) /\ loop[l].at \in {"put", "putting", "success"}
                /\ p = "failed"
  BY DEF Connect, OpenRemote, Put, SendFails, Moves
<1>2. p \in Phase
  BY DEF Phase
<1>3. loop[l] \in LoopState /\ [loop[l] EXCEPT !.at = p] \in LoopState
  BY <1>2, LoopFields DEF TypeOK
<1>4. /\ loop' \in [Loops -> LoopState]
      /\ loop'[l] = [loop[l] EXCEPT !.at = p]
      /\ \A k \in Loops \ {l} : loop'[k] = loop[k]
  BY <1>1, <1>3, MovesEffect DEF TypeOK
<1>5. /\ loop'[l].at = p
      /\ loop'[l].pending = loop[l].pending /\ loop'[l].fresh = loop[l].fresh
      /\ loop'[l].sending = loop[l].sending
  BY <1>3, <1>4 DEF LoopState
<1>6. QED
  BY <1>1, <1>4, <1>5

(* A version is taken off the queue: a pending one first, then the oldest. *)
LEMMA ArchiveStep ==
  ASSUME TypeOK, NEW l \in Loops, createArchive(l)
  PROVE  /\ loop' \in [Loops -> LoopState]
         /\ \A k \in Loops \ {l} : loop'[k] = loop[k]
         /\ loop[l].at = "send" /\ loop'[l].at \in {"put", "pending"}
         /\ \E v \in Version :
               /\ loop'[l].sending = {v}
               /\ \/ /\ v \in loop[l].pending
                     /\ loop'[l].pending = loop[l].pending \ {v}
                     /\ loop'[l].fresh = loop[l].fresh
                  \/ /\ v \in loop[l].fresh /\ loop[l].pending = {}
                     /\ loop'[l].pending = {}
                     /\ loop'[l].fresh = loop[l].fresh \ {v}
<1>1. loop[l] \in LoopState /\ loop[l].pending \in SUBSET Version
      /\ loop[l].fresh \in SUBSET Version
  BY DEF TypeOK, LoopState
<1>2. PICK v \in IF loop[l].pending # {} THEN loop[l].pending ELSE Oldest(loop[l].fresh) :
        Moves(l, "send", [loop[l] EXCEPT
               !.at = IF v.obs \in ready \/ v.at + Timeout > now THEN "put" ELSE "pending",
               !.pending = loop[l].pending \ {v},
               !.fresh = IF loop[l].pending # {} THEN loop[l].fresh
                                                 ELSE loop[l].fresh \ {v},
               !.sending = {v}])
  BY DEF createArchive
<1>3. PICK p \in {"put", "pending"} :
        p = IF v.obs \in ready \/ v.at + Timeout > now THEN "put" ELSE "pending"
  OBVIOUS
<1> DEFINE pending == loop[l].pending \ {v}
           sending == {v}
           fresh == IF loop[l].pending # {} THEN loop[l].fresh ELSE loop[l].fresh \ {v}
<1>4. /\ v \in Version /\ pending \in SUBSET Version /\ fresh \in SUBSET Version
      /\ p \in Phase /\ sending \in SUBSET Version /\ sending = {v}
  BY <1>1 DEF Oldest, Phase
<1>5. /\ loop[l].at = "send"
      /\ loop' = [loop EXCEPT ![l] = [loop[l] EXCEPT
              !.at = p, !.pending = pending, !.fresh = fresh, !.sending = sending]]
  BY <1>2, <1>3 DEF Moves
<1>6. \/ v \in loop[l].pending /\ fresh = loop[l].fresh
      \/ /\ v \in loop[l].fresh /\ loop[l].pending = {} /\ pending = {}
         /\ fresh = loop[l].fresh \ {v}
  BY DEF Oldest
<1>7. pending = loop[l].pending \ {v}
  OBVIOUS
<1> HIDE DEF pending, fresh, sending
<1>8. [loop[l] EXCEPT !.at = p, !.pending = pending, !.fresh = fresh, !.sending = sending]
          \in LoopState
  BY <1>1, <1>4, LoopFields
<1>9. /\ loop' \in [Loops -> LoopState]
      /\ loop'[l] = [loop[l] EXCEPT
              !.at = p, !.pending = pending, !.fresh = fresh, !.sending = sending]
      /\ \A k \in Loops \ {l} : loop'[k] = loop[k]
  BY <1>5, <1>8, MovesEffect DEF TypeOK
<1>10. loop'[l].at = p /\ loop'[l].pending = pending /\ loop'[l].fresh = fresh
       /\ loop'[l].sending = sending
  BY <1>1, <1>9 DEF LoopState
<1>11. QED
  BY <1>4, <1>5, <1>6, <1>7, <1>9, <1>10

LEMMA PostStep ==
  ASSUME TypeOK, NEW l \in Loops, PostOutcome(l)
  PROVE  /\ loop' \in [Loops -> LoopState]
         /\ \A k \in Loops \ {l} : loop'[k] = loop[k]
         /\ loop[l].at \in {"success", "failed", "pending"} /\ loop'[l].at = "send"
         /\ loop'[l].pending = loop[l].pending /\ loop'[l].fresh = loop[l].fresh
         /\ loop'[l].sending = {}
         /\ \E v \in loop[l].sending :
               postStatus(v.obs, Outcome[loop[l].at],
                          IF loop[l].at = "success" THEN v.at ELSE 0)
<1>1. loop[l] \in LoopState
  BY DEF TypeOK
<1>2. loop' = [loop EXCEPT ![l] = [loop[l] EXCEPT !.at = "send", !.sending = {}]]
  BY DEF PostOutcome
<1>3. [loop[l] EXCEPT !.at = "send", !.sending = {}] \in LoopState
  BY <1>1, LoopFields DEF Phase
<1>4. /\ loop' \in [Loops -> LoopState]
      /\ loop'[l] = [loop[l] EXCEPT !.at = "send", !.sending = {}]
      /\ \A k \in Loops \ {l} : loop'[k] = loop[k]
  BY <1>2, <1>3, MovesEffect DEF TypeOK
<1>5. /\ loop'[l].at = "send" /\ loop'[l].sending = {}
      /\ loop'[l].pending = loop[l].pending /\ loop'[l].fresh = loop[l].fresh
  BY <1>1, <1>4 DEF LoopState
<1>6. loop[l].at \in {"success", "failed", "pending"}
  BY DEF PostOutcome, Outcome
<1>7. QED
  BY <1>4, <1>5, <1>6 DEF PostOutcome

(* A record gets its status, and the time unless it is left out. *)
LEMMA PostStatusEffect ==
  ASSUME TypeOK, NEW o \in Observations, NEW status \in SyncStatus, NEW time \in Time,
         postStatus(o, status, time)
  PROVE  /\ sync' \in [Observations -> SyncRecord]
         /\ sync'[o].status = status
         /\ sync'[o].modified = IF time = 0 THEN sync[o].modified ELSE time
         /\ \A p \in Observations \ {o} : sync'[p] = sync[p]
<1>1. PICK m \in Time :
        /\ m = IF time = 0 THEN sync[o].modified ELSE time
        /\ sync' = [sync EXCEPT ![o] = [status |-> status, modified |-> m]]
  BY DEF postStatus, TypeOK, SyncRecord
<1>2. [status |-> status, modified |-> m] \in SyncRecord
  BY DEF SyncRecord
<1>3. QED
  BY <1>1, <1>2 DEF TypeOK

(* One version is under way exactly in the phases that send. *)
LEMMA SendingType ==
  ASSUME NEW f \in [Loops -> LoopState],
         \A l \in Loops : /\ f[l].at \in Sending => \E v \in Version : f[l].sending = {v}
                          /\ f[l].at \notin Sending => f[l].sending = {}
  PROVE  \A l \in Loops : Cardinality(f[l].sending) =
             (IF f[l].at \in {"put", "putting", "success", "failed", "pending"} THEN 1 ELSE 0)
<1> SUFFICES ASSUME NEW l \in Loops
             PROVE  Cardinality(f[l].sending) = (IF f[l].at \in Sending THEN 1 ELSE 0)
  BY DEF Sending
<1>1. CASE f[l].at \in Sending
  BY <1>1, FS_Singleton
<1>2. CASE f[l].at \notin Sending
  BY <1>2, FS_EmptySet
<1>3. QED
  BY <1>1, <1>2

LEMMA InitSyncInv == Init => SyncInv
<1> SUFFICES ASSUME Init PROVE SyncInv
  OBVIOUS
<1> USE SftpAssumption
<1>1. PICK l \in Loops : loop = [k \in Loops |-> At(IF k = l THEN "awake" ELSE "off")]
  BY DEF Init
<1>2. /\ loop \in [Loops -> LoopState]
      /\ \A k \in Loops : /\ loop[k].at = IF k = l THEN "awake" ELSE "off"
                          /\ loop[k].pending = {} /\ loop[k].fresh = {}
                          /\ loop[k].sending = {}
  BY <1>1 DEF At, LoopState, Phase
<1>3. \A k \in Loops : PhaseInv(k)
  BY <1>2 DEF PhaseInv, Sending
<1>4. TypeOK
  <2>1. \A k \in Loops : Cardinality(loop[k].sending) =
            (IF loop[k].at \in {"put", "putting", "success", "failed", "pending"} THEN 1 ELSE 0)
    BY <1>2, <1>3, SendingType DEF PhaseInv
  <2>2. /\ now \in Time /\ modified \in [Observations -> Time] /\ ready \subseteq Observations
        /\ sync \in [Observations -> SyncRecord] /\ remote \in [Observations -> Time]
    BY DEF Init, Time, SyncRecord, SyncStatus
  <2>3. /\ startTime \in Time /\ nextTimeout \in Loops \cup {None} /\ saving \in Nat
        /\ admin \in 0..MaxAdmin /\ faults \in 0..MaxFaults
    BY DEF Init, Time
  <2>4. /\ skipDone \in BOOLEAN /\ isRunning \in BOOLEAN
        /\ aborted \in BOOLEAN /\ overlapped \in BOOLEAN
        /\ partial \subseteq Observations /\ torn \subseteq Observations
    BY DEF Init
  <2>5. QED
    BY <1>2, <2>1, <2>2, <2>3, <2>4 DEF TypeOK
<1>5. VersionInv
  BY <1>2 DEF Init, VersionInv, InHand
<1>6. OneLoopInv
  BY <1>2 DEF Init, OneLoopInv, AloneInv, TimerInv, SentInv, QueueInv, InHand, isProcessed
<1>7. QED
  BY <1>3, <1>4, <1>5, <1>6 DEF SyncInv

-----------------------------------------------------------------------------
(***************************************************************************)
(* Every step preserves the invariant.                                     *)
(***************************************************************************)
(* Time passes and clients write: what was read before stays older. *)
LEMMA ClientSyncInv ==
  ASSUME SyncInv, \/ \E o \in Observations : Create(o) \/ Edit(o) \/ AttachmentArrives(o)
                  \/ Tick
  PROVE  SyncInv'
<1> USE SftpAssumption
<1>1. /\ now' = now + 1 /\ now < MaxTime
      /\ UNCHANGED <<sync, remote, partial, control, loop, bounds>>
      /\ ready' \subseteq Observations
      /\ \/ modified' = modified
         \/ \E o \in Observations : modified' = [modified EXCEPT ![o] = now + 1]
  BY DEF SyncInv, TypeOK, Create, Edit, AttachmentArrives, Write, Tick, server
<1>2. now \in Nat /\ \A o \in Observations : modified[o] \in Nat /\ modified[o] <= now
  BY DEF SyncInv, VersionInv, TypeOK, Time
<1>3. /\ modified' \in [Observations -> Time]
      /\ \A o \in Observations :
             modified'[o] <= now' /\ (modified'[o] = modified[o] \/ modified'[o] = now + 1)
  <2>1. now + 1 \in Time
    BY <1>1, <1>2 DEF Time
  <2>2. QED
    BY <1>1, <1>2, <2>1 DEF SyncInv, TypeOK
<1>4. TypeOK'
  <2>1. now' \in Time
    BY <1>1, <1>2 DEF Time
  <2>2. QED
    BY <1>1, <1>3, <2>1 DEF SyncInv, TypeOK, control, bounds, history
<1>5. VersionInv'
  <2>1. \A o \in Observations : remote[o] \in Nat /\ remote[o] <= modified[o]
    BY DEF SyncInv, VersionInv, TypeOK, Time
  <2>2. \A l \in Loops : \A v \in InHand(l) :
            /\ v.obs \in Observations /\ v.at \in Nat
            /\ v.at # 0 /\ v.at <= modified[v.obs]
    BY DEF SyncInv, VersionInv, TypeOK, LoopState, InHand, Version, Time
  <2>3. /\ \A o \in Observations : modified'[o] \in Nat /\ modified'[o] >= modified[o]
        /\ \A l \in Loops : InHand(l)' = InHand(l)
    BY <1>1, <1>2, <1>3 DEF InHand
  <2>4. \A o \in Observations : remote'[o] <= modified'[o] /\ modified'[o] <= now'
    BY <1>1, <1>2, <1>3, <2>1, <2>3
  <2>5. \A o \in Observations : sync'[o].status # "none" => modified'[o] # 0
    BY <1>1, <1>2, <1>3 DEF SyncInv, VersionInv
  <2>6. \A l \in Loops : \A v \in InHand(l)' : v.at # 0 /\ v.at <= modified'[v.obs]
    BY <1>2, <2>2, <2>3
  <2>7. QED
    BY <2>4, <2>5, <2>6 DEF VersionInv
<1>6. \A l \in Loops : PhaseInv(l)'
  BY <1>1 DEF SyncInv, PhaseInv
<1>7. ~overlapped' => OneLoopInv'
  BY <1>1 DEF SyncInv, OneLoopInv, AloneInv, TimerInv, SentInv, QueueInv, InHand, isProcessed,
              control, bounds, history
<1>8. QED
  BY <1>4, <1>5, <1>6, <1>7 DEF SyncInv

(* An administrator asks for an observation that has a record again. *)
LEMMA RequeueSyncInv ==
  ASSUME SyncInv, NEW o \in Observations, requeueObservation(o) PROVE SyncInv'
<1> USE SftpAssumption
<1>1. /\ sync' \in [Observations -> SyncRecord] /\ sync'[o].status = "PENDING"
      /\ \A p \in Observations \ {o} : sync'[p] = sync[p]
  <2>1. postStatus(o, "PENDING", 0) /\ "PENDING" \in SyncStatus /\ 0 \in Time
    BY DEF requeueObservation, SyncStatus, Time
  <2>2. QED
    BY <2>1, PostStatusEffect DEF SyncInv
<1>2. /\ UNCHANGED <<clients, remote, partial, control, loop, faults, history>>
      /\ admin' = admin + 1 /\ admin < MaxAdmin /\ sync[o].status # "none"
  BY DEF requeueObservation, server
<1>3. TypeOK'
  <2>1. admin' \in 0..MaxAdmin
    BY <1>2 DEF SyncInv, TypeOK
  <2>2. QED
    BY <1>1, <1>2, <2>1 DEF SyncInv, TypeOK, clients, control, history
<1>4. VersionInv' /\ \A l \in Loops : PhaseInv(l)'
  BY <1>1, <1>2 DEF SyncInv, VersionInv, PhaseInv, InHand, clients
<1>5. SentInv => SentInv'
  BY <1>1, <1>2 DEF SentInv, isProcessed
<1>6. ~overlapped' => OneLoopInv'
  BY <1>2, <1>5 DEF SyncInv, OneLoopInv, AloneInv, TimerInv, QueueInv, InHand, control, history
<1>7. QED
  BY <1>3, <1>4, <1>6 DEF SyncInv

(* A save of the configuration stops the loop, where it is asleep. *)
LEMMA StopSyncInv ==
  ASSUME SyncInv, stop PROVE SyncInv'
<1> USE SftpAssumption
<1>1. /\ UNCHANGED <<clients, sync, remote, partial, nextTimeout, history>>
      /\ loop' = [l \in Loops |-> IF l = nextTimeout /\ loop[l].at = "asleep"
                                  THEN At("off") ELSE loop[l]]
  BY DEF stop, server
<1>2. /\ loop' \in [Loops -> LoopState]
      /\ \A l \in Loops :
             \/ loop'[l] = loop[l] /\ (loop[l].at = "asleep" => l # nextTimeout)
             \/ /\ loop[l].at = "asleep" /\ loop'[l].at = "off"
                /\ loop'[l].pending = {} /\ loop'[l].fresh = {} /\ loop'[l].sending = {}
  <2>1. /\ At("off") \in LoopState /\ At("off").at = "off" /\ At("off").pending = {}
        /\ At("off").fresh = {} /\ At("off").sending = {}
    BY DEF At, LoopState, Phase
  <2>2. QED
    BY <1>1, <2>1 DEF SyncInv, TypeOK
<1>3. \A l \in Loops : PhaseInv(l)'
  BY <1>2 DEF SyncInv, PhaseInv, Sending
<1>4. TypeOK'
  <2>1. /\ admin' \in 0..MaxAdmin /\ saving' \in Nat /\ isRunning' = FALSE
        /\ UNCHANGED <<startTime, skipDone, faults>>
    BY DEF stop, SyncInv, TypeOK
  <2>2. \A l \in Loops : Cardinality(loop'[l].sending) =
            (IF loop'[l].at \in {"put", "putting", "success", "failed", "pending"} THEN 1 ELSE 0)
    BY <1>2, <1>3, SendingType DEF PhaseInv
  <2>3. QED
    BY <1>1, <1>2, <2>1, <2>2 DEF SyncInv, TypeOK, clients, history
<1>5. VersionInv'
  BY <1>1, <1>2 DEF SyncInv, VersionInv, InHand, clients
<1>6. ASSUME ~overlapped' PROVE OneLoopInv'
  <2>1. AloneInv /\ TimerInv /\ SentInv /\ \A l \in Loops : QueueInv(l)
    BY <1>1, <1>6 DEF SyncInv, OneLoopInv, history
  <2>2. AloneInv' /\ TimerInv' /\ SentInv'
    BY <1>1, <1>2, <2>1 DEF AloneInv, TimerInv, SentInv, isProcessed
  <2>3. \A l \in Loops : QueueInv(l)'
    BY <1>1, <1>2, <2>1 DEF QueueInv, InHand
  <2>4. QED
    BY <2>2, <2>3 DEF OneLoopInv
<1>7. QED
  BY <1>3, <1>4, <1>5, <1>6 DEF SyncInv

LEMMA RestartSyncInv ==
  ASSUME SyncInv, Restart PROVE SyncInv'
<1> USE SftpAssumption
<1>1. /\ UNCHANGED <<modified, ready, sync, remote, partial, admin, aborted, overlapped>>
      /\ now' = now + 1 /\ now < MaxTime /\ startTime' = now + 1
      /\ faults' = faults + 1 /\ faults < MaxFaults
      /\ skipDone' = FALSE /\ isRunning' = TRUE /\ nextTimeout' = None /\ saving' = 0
  BY DEF Restart, Fault, server
<1>2. PICK l \in Loops : loop' = [k \in Loops |-> At(IF k = l THEN "awake" ELSE "off")]
  BY DEF Restart
<1>3. /\ loop' \in [Loops -> LoopState]
      /\ \A k \in Loops : /\ loop'[k].at = IF k = l THEN "awake" ELSE "off"
                          /\ loop'[k].pending = {} /\ loop'[k].fresh = {}
                          /\ loop'[k].sending = {}
  BY <1>2 DEF At, LoopState, Phase
<1>4. \A k \in Loops : PhaseInv(k)'
  BY <1>3 DEF PhaseInv, Sending
<1>5. TypeOK'
  <2>1. \A k \in Loops : Cardinality(loop'[k].sending) =
            (IF loop'[k].at \in {"put", "putting", "success", "failed", "pending"} THEN 1 ELSE 0)
    BY <1>3, <1>4, SendingType DEF PhaseInv
  <2>2. now' \in Time /\ startTime' \in Time /\ faults' \in 0..MaxFaults
    BY <1>1 DEF SyncInv, TypeOK, Time
  <2>3. torn' \subseteq Observations
    BY DEF Restart, CutOff, SyncInv, TypeOK
  <2>4. QED
    BY <1>1, <1>3, <2>1, <2>2, <2>3 DEF SyncInv, TypeOK
<1>6. VersionInv'
  <2>1. now \in Nat /\ \A o \in Observations : modified[o] \in Nat
    BY DEF SyncInv, TypeOK, Time
  <2>2. QED
    BY <1>1, <1>3, <2>1 DEF SyncInv, VersionInv, InHand
<1>7. ~overlapped' => OneLoopInv'
  BY <1>1, <1>3
     DEF SyncInv, OneLoopInv, AloneInv, TimerInv, SentInv, QueueInv, InHand, isProcessed
<1>8. QED
  BY <1>4, <1>5, <1>6, <1>7 DEF SyncInv

(* While one loop is at work, the others are off. *)
LEMMA Bystanders ==
  ASSUME SyncInv, ~overlapped, NEW l \in Loops, loop[l].at # "off",
         \A k \in Loops \ {l} : loop'[k] = loop[k]
  PROVE  /\ AloneInv' /\ SentInv /\ QueueInv(l)
         /\ \A k \in Loops \ {l} : loop'[k].at = "off" /\ QueueInv(k)'
<1>1. OneLoopInv
  BY DEF SyncInv
<1>2. \A k \in Loops \ {l} : loop[k].at = "off"
  BY <1>1 DEF OneLoopInv, AloneInv
<1>3. AloneInv'
  BY <1>2 DEF AloneInv
<1>4. \A k \in Loops \ {l} :
          /\ loop'[k].at = "off" /\ loop'[k].pending = {} /\ loop'[k].fresh = {}
          /\ loop'[k].sending = {}
  BY <1>2 DEF SyncInv, PhaseInv, Sending
<1>5. QED
  BY <1>1, <1>3, <1>4 DEF OneLoopInv, QueueInv, InHand

LEMMA RestSyncInv ==
  ASSUME SyncInv, NEW l \in Loops,
         \/ Wake(l) \/ EndCycle(l) \/ GatherFails(l) \/ ConnectFails(l) \/ PostFails(l)
         \/ start(l)
  PROVE  SyncInv'
<1> USE SftpAssumption
<1>1. /\ loop' \in [Loops -> LoopState]
      /\ loop'[l].at \in {"off", "asleep", "awake"}
      /\ loop'[l].pending = {} /\ loop'[l].fresh = {} /\ loop'[l].sending = {}
      /\ \A k \in Loops \ {l} : loop'[k] = loop[k]
  BY RestStep DEF SyncInv
<1>2. UNCHANGED <<clients, sync, remote, partial>>
  BY DEF Wake, EndCycle, GatherFails, ConnectFails, PostFails, start, server
<1>3. \A k \in Loops : PhaseInv(k)'
  BY <1>1 DEF SyncInv, PhaseInv, Sending
<1>4. TypeOK'
  <2>1. /\ startTime' = startTime /\ skipDone' \in BOOLEAN /\ isRunning' \in BOOLEAN
        /\ nextTimeout' \in Loops \cup {None} /\ saving' \in Nat
    <3>1. startTime' = startTime /\ nextTimeout' \in Loops \cup {None} /\ saving' \in Nat
      BY DEF Wake, EndCycle, GatherFails, ConnectFails, PostFails, start, EndsCycle, control,
             SyncInv, TypeOK
    <3>2. isRunning' = isRunning \/ isRunning' = TRUE
      BY DEF Wake, EndCycle, GatherFails, ConnectFails, PostFails, start, control
    <3>3. skipDone' = skipDone \/ skipDone' = (skipDone \/ loop[l].at = "awake")
      BY DEF Wake, EndCycle, GatherFails, ConnectFails, PostFails, start, control
    <3>4. skipDone \in BOOLEAN /\ isRunning \in BOOLEAN
      BY DEF SyncInv, TypeOK
    <3>5. QED
      BY <3>1, <3>2, <3>3, <3>4
  <2>2. admin' = admin /\ faults' \in 0..MaxFaults
    BY DEF Wake, EndCycle, GatherFails, ConnectFails, PostFails, start, Fault, bounds,
           SyncInv, TypeOK
  <2>3. aborted' \in BOOLEAN /\ overlapped' \in BOOLEAN /\ torn' \subseteq Observations
    BY DEF Wake, EndCycle, GatherFails, ConnectFails, PostFails, start, bounds, history,
           SyncInv, TypeOK, CutOff
  <2>4. \A k \in Loops : Cardinality(loop'[k].sending) =
            (IF loop'[k].at \in {"put", "putting", "success", "failed", "pending"} THEN 1 ELSE 0)
    BY <1>1, <1>3, SendingType DEF PhaseInv
  <2>5. QED
    BY <1>1, <1>2, <2>1, <2>2, <2>3, <2>4 DEF SyncInv, TypeOK, clients
<1>5. VersionInv'
  BY <1>1, <1>2 DEF SyncInv, VersionInv, InHand, clients
<1>6. ASSUME ~overlapped' PROVE OneLoopInv'
  <2>1. ~overlapped
    BY <1>6 DEF Wake, EndCycle, GatherFails, ConnectFails, PostFails, start, bounds, history
  <2>2. QueueInv(l)'
    BY <1>1 DEF QueueInv, InHand
  <2>3. SentInv'
    BY <1>2, <2>1 DEF SyncInv, OneLoopInv, SentInv, isProcessed
  <2>4. CASE start(l)
    <3>1. loop'[l].at = "awake" /\ \A k \in Loops \ {l} : loop'[k] = loop[k] /\ loop[k].at = "off"
      <4>1. \A k \in Loops \ {l} : loop[k].at = "off"
        BY <1>6, <2>4 DEF start
      <4>2. loop' = [loop EXCEPT ![l] = [At("awake") EXCEPT !.awaited = TRUE]]
        BY <2>4 DEF start, Moves
      <4>3. loop'[l].at = "awake"
        BY <4>2 DEF At, SyncInv, TypeOK
      <4>4. QED
        BY <1>1, <4>1, <4>3
    <3>2. AloneInv' /\ TimerInv'
      BY <3>1 DEF AloneInv, TimerInv
    <3>3. \A k \in Loops \ {l} : QueueInv(k)'
      BY <1>2, <2>1, <3>1 DEF SyncInv, OneLoopInv, QueueInv, InHand
    <3>4. QED
      BY <2>2, <2>3, <3>2, <3>3 DEF OneLoopInv
  <2>5. CASE ~start(l)
    <3>1. loop[l].at # "off"
      BY <2>5 DEF Wake, EndCycle, GatherFails, ConnectFails, PostFails, Moves
    <3>2. AloneInv' /\ \A k \in Loops \ {l} : loop'[k].at = "off" /\ QueueInv(k)'
      BY <1>1, <2>1, <3>1, Bystanders
    <3>3. loop'[l].at = "asleep" => isRunning' /\ nextTimeout' = l
      <4>1. CASE Wake(l) \/ GatherFails(l)
        <5>1. PICK p \in {"off", "awake"} : loop' = [loop EXCEPT ![l] = At(p)]
          BY <4>1 DEF Wake, GatherFails, Moves
        <5>2. loop'[l].at = p
          BY <5>1 DEF At, SyncInv, TypeOK
        <5>3. QED
          BY <5>2
      <4>2. CASE EndCycle(l) \/ ConnectFails(l) \/ PostFails(l)
        <5>1. EndsCycle(l) /\ isRunning' = isRunning
          BY <4>2 DEF EndCycle, ConnectFails, PostFails
        <5>2. CASE isRunning
          BY <5>1, <5>2 DEF EndsCycle
        <5>3. CASE ~isRunning
          <6>1. loop' = [loop EXCEPT ![l] = At("off")]
            BY <5>1, <5>3 DEF EndsCycle
          <6>2. loop'[l].at = "off"
            BY <6>1 DEF At, SyncInv, TypeOK
          <6>3. QED
            BY <6>2
        <5>4. QED
          BY <5>2, <5>3
      <4>3. QED
        BY <2>5, <4>1, <4>2
    <3>4. TimerInv'
      BY <3>2, <3>3 DEF TimerInv
    <3>5. QED
      BY <2>2, <2>3, <3>2, <3>4 DEF OneLoopInv
  <2>6. QED
    BY <2>4, <2>5
<1>7. QED
  BY <1>3, <1>4, <1>5, <1>6 DEF SyncInv

LEMMA SkipSyncInv ==
  ASSUME SyncInv, NEW l \in Loops, skipMissedObservations(l) PROVE SyncInv'
<1>1. /\ loop' \in [Loops -> LoopState]
      /\ loop'[l].at = "skipped" /\ loop'[l].pending = loop[l].pending
      /\ loop'[l].fresh = loop[l].fresh /\ loop'[l].sending = loop[l].sending
      /\ \A k \in Loops \ {l} : loop'[k] = loop[k]
      /\ loop[l].at = "awake"
      /\ \A o \in Observations :
             \/ sync'[o] = sync[o]
             \/ modified[o] # 0 /\ sync'[o].status = "SKIPPED" /\ sync'[o] \in SyncRecord
  BY SkipStep DEF SyncInv
<1>2. /\ skipDone' = TRUE
      /\ UNCHANGED <<clients, remote, partial, startTime, isRunning, nextTimeout, saving, bounds>>
  BY DEF skipMissedObservations, server
<1>3. \A k \in Loops : PhaseInv(k)'
  BY <1>1 DEF SyncInv, PhaseInv, Sending
<1>4. TypeOK'
  <2>1. sync' \in [Observations -> SyncRecord]
    <3>1. \A o \in Observations : sync'[o] \in SyncRecord
      BY <1>1 DEF SyncInv, TypeOK
    <3>2. DOMAIN sync' = Observations /\ sync' = [o \in Observations |-> sync'[o]]
      BY DEF skipMissedObservations
    <3>3. QED
      BY <3>1, <3>2
  <2>2. \A k \in Loops : Cardinality(loop'[k].sending) =
            (IF loop'[k].at \in {"put", "putting", "success", "failed", "pending"} THEN 1 ELSE 0)
    BY <1>1, <1>3, SendingType DEF PhaseInv
  <2>3. QED
    BY <1>1, <1>2, <2>1, <2>2 DEF SyncInv, TypeOK, clients, bounds, history
<1>5. VersionInv'
  <2>1. \A k \in Loops : InHand(k)' = InHand(k)
    BY <1>1 DEF InHand
  <2>2. QED
    BY <1>1, <1>2, <2>1 DEF SyncInv, VersionInv, clients
<1>6. ASSUME ~overlapped' PROVE OneLoopInv'
  <2>1. ~overlapped
    BY <1>2, <1>6 DEF bounds, history
  <2>2. /\ AloneInv' /\ SentInv /\ QueueInv(l)
        /\ \A k \in Loops \ {l} : loop'[k].at = "off" /\ QueueInv(k)'
    BY <1>1, <2>1, Bystanders
  <2>3. TimerInv'
    BY <1>1, <2>2 DEF TimerInv
  <2>4. SentInv'
    BY <1>1, <1>2, <2>2 DEF SentInv, isProcessed
  <2>5. QueueInv(l)'
    BY <1>1, <1>2, <2>2 DEF QueueInv, InHand
  <2>6. QED
    BY <2>2, <2>3, <2>4, <2>5 DEF OneLoopInv
<1>7. QED
  BY <1>3, <1>4, <1>5, <1>6 DEF SyncInv

(* What a cycle gathers is as new as the observations are. *)
LEMMA FindSyncInv ==
  ASSUME SyncInv, NEW l \in Loops, FindPending(l) \/ FindModified(l) PROVE SyncInv'
<1>1. /\ loop' \in [Loops -> LoopState]
      /\ loop'[l].sending = loop[l].sending
      /\ \A k \in Loops \ {l} : loop'[k] = loop[k]
      /\ \/ /\ loop[l].at = "skipped" /\ loop'[l].at = "gathered"
            /\ loop'[l].fresh = loop[l].fresh
            /\ loop'[l].pending = {Read(o) : o \in {p \in Observations :
                                                        sync[p].status = "PENDING"}}
         \/ /\ loop[l].at = "gathered" /\ loop'[l].at = "connect"
            /\ loop'[l].pending = loop[l].pending
            /\ loop'[l].fresh = {Read(o) : o \in {p \in FirstPage : ~Settled(p)}}
  BY FindStep DEF SyncInv
<1>2. UNCHANGED <<clients, sync, remote, partial, control, bounds>>
  BY DEF FindPending, FindModified, server
<1>3. \A k \in Loops : PhaseInv(k)'
  BY <1>1 DEF SyncInv, PhaseInv, Sending
<1>4. TypeOK'
  <2>1. \A k \in Loops : Cardinality(loop'[k].sending) =
            (IF loop'[k].at \in {"put", "putting", "success", "failed", "pending"} THEN 1 ELSE 0)
    BY <1>1, <1>3, SendingType DEF PhaseInv
  <2>2. QED
    BY <1>1, <1>2, <2>1 DEF SyncInv, TypeOK, clients, control, bounds, history
<1>5. loop[l].sending = {} /\ loop[l].fresh = {} /\ (loop[l].at = "skipped" => loop[l].pending = {})
  BY <1>1 DEF SyncInv, PhaseInv, Sending
<1>6. \A o \in Observations : /\ Read(o) \in Version
                              /\ Read(o).obs = o /\ Read(o).at = modified[o]
  BY ReadIsVersion DEF SyncInv
<1>7. /\ \A o \in FirstPage : o \in Observations /\ modified[o] # 0
      /\ \A o \in Observations : sync[o].status = "PENDING" => modified[o] # 0
  BY DEF FirstPage, SyncInv, VersionInv
<1>8. \A o \in Observations : modified[o] \in Nat /\ remote[o] \in Nat /\ remote[o] <= modified[o]
  BY DEF SyncInv, TypeOK, VersionInv, Time
<1>9. \A v \in InHand(l)' : \/ v \in InHand(l)
                            \/ \E o \in Observations : v = Read(o) /\ modified[o] # 0
  BY <1>1, <1>7 DEF InHand
<1>10. VersionInv'
  <2>1. \A v \in InHand(l)' : v.at # 0 /\ v.at <= modified[v.obs]
    BY <1>6, <1>8, <1>9 DEF SyncInv, VersionInv
  <2>2. \A k \in Loops \ {l} : InHand(k)' = InHand(k)
    BY <1>1 DEF InHand
  <2>3. QED
    BY <1>2, <2>1, <2>2 DEF SyncInv, VersionInv, clients
<1>11. ASSUME ~overlapped' PROVE OneLoopInv'
  <2>1. ~overlapped
    BY <1>2, <1>11 DEF bounds, history
  <2>2. /\ AloneInv' /\ SentInv /\ QueueInv(l)
        /\ \A k \in Loops \ {l} : loop'[k].at = "off" /\ QueueInv(k)'
    BY <1>1, <2>1, Bystanders
  <2>3. TimerInv'
    BY <1>1, <2>2 DEF TimerInv
  <2>4. SentInv'
    BY <1>2, <2>2 DEF SentInv, isProcessed
  <2>5. QueueInv(l)'
    <3>1. \A v \in InHand(l)' : remote'[v.obs] <= v.at
      BY <1>2, <1>6, <1>8, <1>9, <2>2 DEF QueueInv
    <3>2. loop'[l].sending = {} /\ loop'[l].at # "success"
      BY <1>1, <1>5
    <3>3. CASE loop[l].at = "skipped"
      BY <1>1, <1>5, <1>6, <3>1, <3>2, <3>3 DEF QueueInv
    <3>4. CASE loop[l].at = "gathered"
      <4>1. /\ loop'[l].pending = loop[l].pending
            /\ loop'[l].fresh = {Read(o) : o \in {p \in FirstPage : ~Settled(p)}}
        BY <1>1, <3>4
      <4>2. \A v \in loop'[l].fresh : v.obs \in Observations /\ v = Read(v.obs)
                                      /\ v.at = modified[v.obs]
        BY <1>6, <1>7, <4>1
      <4>3. \A v \in loop[l].pending : v.at <= modified[v.obs]
        BY DEF SyncInv, VersionInv, InHand
      <4>4. \A v \in loop'[l].pending, w \in loop'[l].fresh : v.obs = w.obs => v.at <= w.at
        BY <4>1, <4>2, <4>3
      <4>5. \A v, w \in loop'[l].fresh : v.obs = w.obs => v = w
        BY <4>2
      <4>6. QED
        BY <2>2, <3>1, <3>2, <4>1, <4>4, <4>5 DEF QueueInv
    <3>5. QED
      BY <1>1, <3>3, <3>4
  <2>6. QED
    BY <2>2, <2>3, <2>4, <2>5 DEF OneLoopInv
<1>12. QED
  BY <1>3, <1>4, <1>10, <1>11 DEF SyncInv

(* Connecting, an upload, an upload that fails. *)
LEMMA ConnectSyncInv ==
  ASSUME SyncInv, NEW l \in Loops, Connect(l) \/ OpenRemote(l) \/ Put(l) \/ SendFails(l) PROVE SyncInv'
<1> USE SftpAssumption
<1>1. /\ loop' \in [Loops -> LoopState]
      /\ loop'[l].pending = loop[l].pending /\ loop'[l].fresh = loop[l].fresh
      /\ loop'[l].sending = loop[l].sending
      /\ \A k \in Loops \ {l} : loop'[k] = loop[k]
      /\ \/ Connect(l) /\ loop[l].at = "connect" /\ loop'[l].at = "send"
         \/ OpenRemote(l) /\ loop[l].at = "put" /\ loop'[l].at = "putting"
         \/ Put(l) /\ loop[l].at = "putting" /\ loop'[l].at = "success"
         \/ /\ SendFails(l) /\ loop[l].at \in {"put", "putting", "success"}
            /\ loop'[l].at = "failed"
  BY ConnectStep DEF SyncInv
<1>2. /\ UNCHANGED <<clients, sync, control, admin, aborted, overlapped>>
      /\ faults' = faults \/ (faults' = faults + 1 /\ faults < MaxFaults)
  BY DEF Connect, OpenRemote, Put, SendFails, Fault, bounds, history
<1>3. \A k \in Loops : PhaseInv(k)'
  BY <1>1 DEF SyncInv, PhaseInv, Sending
<1>4. \/ remote' = remote /\ ~Put(l)
      \/ /\ loop[l].at = "putting" /\ loop'[l].at = "success"
         /\ \E v \in Version : /\ loop[l].sending = {v}
                               /\ remote' = [remote EXCEPT ![v.obs] = v.at]
  <2>1. CASE Put(l)
    <3>1. loop[l].at = "putting" /\ loop'[l].at = "success"
      BY <1>1, <2>1 DEF Put, Moves
    <3>2. PICK v \in Version : loop[l].sending = {v}
      BY <3>1 DEF SyncInv, PhaseInv, Sending
    <3>3. QED
      BY <2>1, <3>1, <3>2 DEF Put
  <2>2. CASE ~Put(l)
    BY <1>1, <2>2 DEF Connect, OpenRemote, SendFails, server
  <2>3. QED
    BY <2>1, <2>2
<1>5. /\ remote' \in [Observations -> Time]
      /\ partial' \subseteq Observations /\ torn' \subseteq Observations
  <2>1. remote' \in [Observations -> Time]
    BY <1>4 DEF SyncInv, TypeOK, Version
  <2>2. loop[l].sending \subseteq Version
    BY DEF SyncInv, TypeOK, LoopState
  <2>3. partial' \subseteq Observations /\ torn' \subseteq Observations
    BY <1>1, <2>2 DEF Connect, OpenRemote, Put, SendFails, server, bounds, history, Version,
                      SyncInv, TypeOK
  <2>4. QED
    BY <2>1, <2>3
<1>6. TypeOK'
  <2>1. \A k \in Loops : Cardinality(loop'[k].sending) =
            (IF loop'[k].at \in {"put", "putting", "success", "failed", "pending"} THEN 1 ELSE 0)
    BY <1>1, <1>3, SendingType DEF PhaseInv
  <2>2. faults' \in 0..MaxFaults
    BY <1>2 DEF SyncInv, TypeOK
  <2>3. QED
    BY <1>1, <1>2, <1>5, <2>1, <2>2 DEF SyncInv, TypeOK, clients, control
<1>7. \A k \in Loops : InHand(k)' = InHand(k)
  BY <1>1 DEF InHand
<1>8. VersionInv'
  <2>1. \A o \in Observations : remote'[o] = remote[o]
            \/ \E v \in InHand(l) : v.obs = o /\ remote'[o] = v.at
    BY <1>4 DEF InHand, SyncInv, TypeOK
  <2>2. QED
    BY <1>2, <1>7, <2>1 DEF SyncInv, VersionInv, clients
<1>9. ASSUME ~overlapped' PROVE OneLoopInv'
  <2>1. ~overlapped /\ loop[l].at # "off"
    BY <1>1, <1>2, <1>9
  <2>2. /\ AloneInv' /\ SentInv /\ QueueInv(l)
        /\ \A k \in Loops \ {l} : loop'[k].at = "off" /\ QueueInv(k)'
    BY <1>1, <2>1, Bystanders
  <2>3. TimerInv'
    BY <1>1, <2>2 DEF TimerInv
  <2>4. CASE remote' = remote /\ ~Put(l)
    <3>1. loop'[l].at # "success"
      BY <1>1, <2>4
    <3>2. SentInv' /\ QueueInv(l)'
      BY <1>1, <1>2, <1>7, <2>2, <2>4, <3>1 DEF SentInv, isProcessed, QueueInv
    <3>3. QED
      BY <2>2, <2>3, <3>2 DEF OneLoopInv
  <2>5. ASSUME NEW v \in Version, loop[l].sending = {v}, loop[l].at = "putting",
               remote' = [remote EXCEPT ![v.obs] = v.at]
        PROVE  OneLoopInv'
    <3>1. /\ v.obs \in Observations /\ remote'[v.obs] = v.at /\ remote[v.obs] <= v.at
          /\ \A o \in Observations \ {v.obs} : remote'[o] = remote[o]
      BY <2>2, <2>5 DEF Version, SyncInv, TypeOK, QueueInv, InHand
    <3>2. \A w \in InHand(l) : w.obs = v.obs => v.at <= w.at
      <4>1. v.at <= v.at
        BY DEF Version, Time
      <4>2. QED
        BY <2>2, <2>5, <4>1 DEF QueueInv, InHand
    <3>3. \A w \in InHand(l) : w.obs \in Observations
      BY DEF SyncInv, TypeOK, LoopState, InHand, Version
    <3>4. \A w \in InHand(l)' : remote'[w.obs] <= w.at
      BY <1>7, <2>2, <3>1, <3>2, <3>3 DEF QueueInv
    <3>5. QueueInv(l)'
      BY <1>1, <2>2, <2>5, <3>1, <3>4 DEF QueueInv
    <3>6. SentInv'
      <4>1. \A o \in Observations : /\ remote[o] \in Nat /\ remote'[o] \in Nat
                                    /\ sync[o].modified \in Nat /\ remote[o] <= remote'[o]
        BY <1>5, <3>1 DEF SyncInv, TypeOK, SyncRecord, Time
      <4>2. QED
        BY <1>2, <2>2, <4>1 DEF SentInv, isProcessed
    <3>7. QED
      BY <2>2, <2>3, <3>5, <3>6 DEF OneLoopInv
  <2>6. QED
    BY <1>4, <2>4, <2>5
<1>10. QED
  BY <1>3, <1>6, <1>8, <1>9 DEF SyncInv

(* A version is taken on: those after it in the queue are newer. *)
LEMMA ArchiveSyncInv ==
  ASSUME SyncInv, NEW l \in Loops, createArchive(l) PROVE SyncInv'
<1>1. PICK v \in Version :
      /\ loop' \in [Loops -> LoopState]
      /\ \A k \in Loops \ {l} : loop'[k] = loop[k]
      /\ loop[l].at = "send" /\ loop'[l].at \in {"put", "pending"}
      /\ loop'[l].sending = {v}
      /\ \/ /\ v \in loop[l].pending
            /\ loop'[l].pending = loop[l].pending \ {v}
            /\ loop'[l].fresh = loop[l].fresh
         \/ /\ v \in loop[l].fresh /\ loop[l].pending = {}
            /\ loop'[l].pending = {}
            /\ loop'[l].fresh = loop[l].fresh \ {v}
  BY ArchiveStep DEF SyncInv
<1>2. UNCHANGED <<clients, sync, remote, partial, control, bounds>>
  BY DEF createArchive, server
<1>3. \A k \in Loops : PhaseInv(k)'
  BY <1>1 DEF SyncInv, PhaseInv, Sending
<1>4. TypeOK'
  <2>1. \A k \in Loops : Cardinality(loop'[k].sending) =
            (IF loop'[k].at \in {"put", "putting", "success", "failed", "pending"} THEN 1 ELSE 0)
    BY <1>1, <1>3, SendingType DEF PhaseInv
  <2>2. QED
    BY <1>1, <1>2, <2>1 DEF SyncInv, TypeOK, clients, control, bounds, history
<1>5. InHand(l)' \subseteq InHand(l) /\ \A k \in Loops \ {l} : InHand(k)' = InHand(k)
  BY <1>1 DEF InHand
<1>6. VersionInv'
  BY <1>2, <1>5 DEF SyncInv, VersionInv, clients
<1>7. ASSUME ~overlapped' PROVE OneLoopInv'
  <2>1. ~overlapped
    BY <1>2, <1>7 DEF bounds, history
  <2>2. /\ AloneInv' /\ SentInv /\ QueueInv(l)
        /\ \A k \in Loops \ {l} : loop'[k].at = "off" /\ QueueInv(k)'
    BY <1>1, <2>1, Bystanders
  <2>3. TimerInv' /\ SentInv'
    BY <1>1, <1>2, <2>2 DEF TimerInv, SentInv, isProcessed
  <2>4. QueueInv(l)'
    <3>1. \A w \in InHand(l)' : remote'[w.obs] <= w.at
      BY <1>2, <1>5, <2>2 DEF QueueInv
    <3>2. \A w \in loop'[l].pending \cup loop'[l].fresh : v.obs = w.obs => v.at <= w.at
      BY <1>1, <2>2 DEF QueueInv
    <3>3. QED
      BY <1>1, <2>2, <3>1, <3>2 DEF QueueInv
  <2>5. QED
    BY <2>2, <2>3, <2>4 DEF OneLoopInv
<1>8. QED
  BY <1>3, <1>4, <1>6, <1>7 DEF SyncInv

(* The outcome is recorded: a success names the version that is there. *)
LEMMA PostSyncInv ==
  ASSUME SyncInv, NEW l \in Loops, PostOutcome(l) PROVE SyncInv'
<1>1. /\ loop' \in [Loops -> LoopState]
      /\ \A k \in Loops \ {l} : loop'[k] = loop[k]
      /\ loop[l].at \in {"success", "failed", "pending"} /\ loop'[l].at = "send"
      /\ loop'[l].pending = loop[l].pending /\ loop'[l].fresh = loop[l].fresh
      /\ loop'[l].sending = {}
      /\ \E v \in loop[l].sending :
            postStatus(v.obs, Outcome[loop[l].at], IF loop[l].at = "success" THEN v.at ELSE 0)
  BY PostStep DEF SyncInv
<1>2. PICK v \in loop[l].sending :
          postStatus(v.obs, Outcome[loop[l].at], IF loop[l].at = "success" THEN v.at ELSE 0)
  BY <1>1
<1>3. PICK status \in {"SUCCESS", "FAILED", "PENDING"}, time \in Time :
          /\ postStatus(v.obs, status, time)
          /\ status = "SUCCESS" => loop[l].at = "success" /\ time = v.at
  <2>1. v \in Version /\ v.at \in Time /\ 0 \in Time
    BY SftpAssumption DEF SyncInv, TypeOK, LoopState, Version, Time
  <2>2. CASE loop[l].at = "success"
    BY <1>2, <2>1, <2>2 DEF Outcome
  <2>3. CASE loop[l].at = "failed"
    BY <1>2, <2>1, <2>3 DEF Outcome
  <2>4. CASE loop[l].at = "pending"
    BY <1>2, <2>1, <2>4 DEF Outcome
  <2>5. QED
    BY <1>1, <2>2, <2>3, <2>4
<1>4. UNCHANGED <<clients, remote, partial, control, bounds>>
  BY DEF PostOutcome, server
<1>5. v.obs \in Observations /\ v.at # 0 /\ modified[v.obs] # 0
  <2>1. v \in Version /\ v \in InHand(l)
    BY DEF SyncInv, TypeOK, LoopState, InHand
  <2>2. QED
    BY <2>1 DEF SyncInv, TypeOK, VersionInv, Version, Time
<1>6. /\ sync' \in [Observations -> SyncRecord]
      /\ sync'[v.obs].status = status
      /\ sync'[v.obs].modified = IF time = 0 THEN sync[v.obs].modified ELSE time
      /\ \A p \in Observations \ {v.obs} : sync'[p] = sync[p]
  <2>1. status \in SyncStatus
    BY DEF SyncStatus
  <2>2. QED
    BY <1>3, <1>5, <2>1, PostStatusEffect DEF SyncInv
<1>7. \A k \in Loops : PhaseInv(k)'
  BY <1>1 DEF SyncInv, PhaseInv, Sending
<1>8. TypeOK'
  <2>1. \A k \in Loops : Cardinality(loop'[k].sending) =
            (IF loop'[k].at \in {"put", "putting", "success", "failed", "pending"} THEN 1 ELSE 0)
    BY <1>1, <1>7, SendingType DEF PhaseInv
  <2>2. QED
    BY <1>1, <1>4, <1>6, <2>1 DEF SyncInv, TypeOK, clients, control, bounds, history
<1>9. InHand(l)' \subseteq InHand(l) /\ \A k \in Loops \ {l} : InHand(k)' = InHand(k)
  BY <1>1 DEF InHand
<1>10. VersionInv'
  BY <1>4, <1>5, <1>6, <1>9 DEF SyncInv, VersionInv, clients
<1>11. ASSUME ~overlapped' PROVE OneLoopInv'
  <2>1. ~overlapped
    BY <1>4, <1>11 DEF bounds, history
  <2>2. /\ AloneInv' /\ SentInv /\ QueueInv(l)
        /\ \A k \in Loops \ {l} : loop'[k].at = "off" /\ QueueInv(k)'
    BY <1>1, <2>1, Bystanders
  <2>3. TimerInv'
    BY <1>1, <2>2 DEF TimerInv
  <2>4. SentInv'
    <3>1. status = "SUCCESS" => remote'[v.obs] = v.at /\ sync'[v.obs].modified = v.at
      BY <1>3, <1>4, <1>5, <1>6, <2>2 DEF QueueInv
    <3>2. v.at >= v.at
      BY DEF SyncInv, TypeOK, LoopState, Version, Time
    <3>3. QED
      BY <1>4, <1>6, <2>2, <3>1, <3>2 DEF SentInv, isProcessed
  <2>5. QueueInv(l)'
    BY <1>1, <1>4, <1>9, <2>2 DEF QueueInv
  <2>6. QED
    BY <2>2, <2>3, <2>4, <2>5 DEF OneLoopInv
<1>12. QED
  BY <1>7, <1>8, <1>10, <1>11 DEF SyncInv

LEMMA NextSyncInv == SyncInv /\ [Next]_vars => SyncInv'
<1> SUFFICES ASSUME SyncInv, [Next]_vars PROVE SyncInv'
  OBVIOUS
<1>1. CASE UNCHANGED vars
  BY <1>1 DEF vars, clients, control, bounds, history, server, SyncInv, TypeOK, PhaseInv, VersionInv,
              OneLoopInv, AloneInv, TimerInv, SentInv, QueueInv, InHand, isProcessed
<1>2. ASSUME NEW l \in Loops, CycleStep(l) PROVE SyncInv'
  BY <1>2, RestSyncInv, SkipSyncInv, FindSyncInv, ConnectSyncInv, ArchiveSyncInv, PostSyncInv
     DEF CycleStep
<1>3. ASSUME NEW l \in Loops, SendFails(l) PROVE SyncInv'
  BY <1>3, ConnectSyncInv
<1>4. QED
  BY <1>1, <1>2, <1>3, ClientSyncInv, RequeueSyncInv, RestSyncInv, StopSyncInv, RestartSyncInv
     DEF Next

-----------------------------------------------------------------------------
(***************************************************************************)
(* The remote file of an observation recorded as sent.                     *)
(***************************************************************************)
(* A part of a version has the loop that writes it, or that has yet to     *)
(* record that it failed; or its record is no success, or no outcome will  *)
(* be recorded.  What was put is whole until its outcome is recorded.      *)
PartInv == ~overlapped =>
    /\ \A o \in partial \ torn :
          \/ sync[o].status # "SUCCESS"
          \/ \E l \in Loops : loop[l].at \in {"putting", "failed"} /\ Sends(l, o)
    /\ \A l \in Loops : loop[l].at = "success" => \A v \in loop[l].sending : v.obs \notin partial

(* The steps that neither begin nor end an upload or its outcome. *)
LEMMA AsidePartInv ==
  ASSUME SyncInv, PartInv, overlapped' = FALSE => overlapped = FALSE,
         partial' = partial, torn \subseteq torn',
         \A o \in Observations : sync'[o].status = "SUCCESS" => sync[o].status = "SUCCESS",
         \A l \in Loops :
             loop[l].at \in {"putting", "success", "failed"}
                 \/ loop'[l].at \in {"putting", "success", "failed"} => loop'[l] = loop[l]
  PROVE  PartInv'
<1> SUFFICES ASSUME ~overlapped' PROVE
       /\ \A o \in partial' \ torn' :
             \/ sync'[o].status # "SUCCESS"
             \/ \E l \in Loops : loop'[l].at \in {"putting", "failed"} /\ Sends(l, o)'
       /\ \A l \in Loops :
             loop'[l].at = "success" => \A v \in loop'[l].sending : v.obs \notin partial'
  BY DEF PartInv
<1>1. ~overlapped /\ partial \subseteq Observations
  BY DEF SyncInv, TypeOK
<1>2. ASSUME NEW o \in partial' \ torn', sync'[o].status = "SUCCESS"
      PROVE  \E l \in Loops : loop'[l].at \in {"putting", "failed"} /\ Sends(l, o)'
  <2>1. PICK l \in Loops : loop[l].at \in {"putting", "failed"} /\ Sends(l, o)
    BY <1>1, <1>2 DEF PartInv
  <2>2. loop'[l] = loop[l]
    BY <2>1
  <2>3. QED
    BY <2>1, <2>2 DEF Sends
<1>3. QED
  BY <1>1, <1>2 DEF PartInv

LEMMA SendPartInv ==
  ASSUME SyncInv, PartInv, NEW l \in Loops, ~overlapped,
         OpenRemote(l) \/ Put(l) \/ SendFails(l)
  PROVE  PartInv'
<1>1. /\ loop'[l].sending = loop[l].sending
      /\ \A k \in Loops \ {l} : loop'[k] = loop[k]
      /\ \/ OpenRemote(l) /\ loop[l].at = "put" /\ loop'[l].at = "putting"
         \/ Put(l) /\ loop[l].at = "putting" /\ loop'[l].at = "success"
         \/ /\ SendFails(l) /\ loop[l].at \in {"put", "putting", "success"}
            /\ loop'[l].at = "failed"
  <2>1. ~Connect(l)
    BY DEF OpenRemote, Put, SendFails, Connect, Moves
  <2>2. QED
    BY <2>1, ConnectStep DEF SyncInv
<1>2. PICK v \in Version : loop[l].sending = {v}
  BY <1>1 DEF SyncInv, PhaseInv, Sending
<1>3. \A k \in Loops \ {l} : loop[k].at = "off" /\ loop'[k].at = "off"
  BY <1>1 DEF SyncInv, OneLoopInv, AloneInv
<1>4. sync' = sync
  BY DEF OpenRemote, Put, SendFails
<1>5. ASSUME NEW o \in partial, o \notin torn, o # v.obs PROVE sync[o].status # "SUCCESS"
  BY <1>2, <1>3, <1>5 DEF PartInv, Sends
<1>6. Sends(l, v.obs)' /\ Sends(l, v.obs)
  BY <1>1, <1>2 DEF Sends
<1>7. CASE OpenRemote(l)
  <2>1. partial' = partial \cup {v.obs} /\ torn' = torn /\ loop'[l].at = "putting"
    BY <1>1, <1>2, <1>7 DEF OpenRemote, Moves, bounds, history
  <2>2. QED
    BY <1>3, <1>4, <1>5, <1>6, <2>1 DEF PartInv
<1>8. CASE Put(l)
  <2>1. loop[l].at = "putting" /\ loop'[l].at = "success"
    BY <1>1, <1>8 DEF Put, Moves
  <2>2. PuttingTo(v.obs) = {l}
    BY <1>3, <1>6, <2>1 DEF PuttingTo
  <2>3. partial' = partial \ {v.obs} /\ torn' = torn \ {v.obs}
    BY <1>2, <1>8, <2>2 DEF Put
  <2>4. QED
    BY <1>1, <1>2, <1>3, <1>4, <1>5, <2>1, <2>3 DEF PartInv
<1>9. CASE SendFails(l)
  <2>1. partial' = partial /\ torn' = torn /\ loop'[l].at = "failed"
    BY <1>1, <1>9 DEF SendFails, server, history
  <2>2. QED
    BY <1>3, <1>4, <1>5, <1>6, <2>1 DEF PartInv
<1>10. QED
  BY <1>7, <1>8, <1>9

(* The outcome is recorded, or the database refuses it. *)
LEMMA OutcomePartInv ==
  ASSUME SyncInv, PartInv, NEW l \in Loops, ~overlapped, PostOutcome(l) \/ PostFails(l)
  PROVE  PartInv'
<1>1. /\ \A k \in Loops \ {l} : loop'[k] = loop[k]
      /\ loop[l].at \in {"success", "failed", "pending"}
      /\ loop'[l].at \notin {"putting", "success", "failed"}
  BY PostStep, RestStep DEF SyncInv, PostFails
<1>2. PICK v \in Version : loop[l].sending = {v}
  BY <1>1 DEF SyncInv, PhaseInv, Sending
<1>3. \A k \in Loops \ {l} : loop[k].at = "off" /\ loop'[k].at = "off"
  BY <1>1 DEF SyncInv, OneLoopInv, AloneInv
<1>4. ASSUME NEW o \in partial, o \notin torn, o # v.obs PROVE sync[o].status # "SUCCESS"
  BY <1>2, <1>3, <1>4 DEF PartInv, Sends
<1>5. partial' = partial /\ partial \subseteq Observations /\ v.obs \in Observations
  BY DEF PostOutcome, PostFails, server, Version, SyncInv, TypeOK
<1>6. CASE PostFails(l)
  <2>1. sync' = sync /\ torn' = torn \cup (partial \cap {v.obs})
    BY <1>2, <1>6 DEF PostFails, CutOff
  <2>2. QED
    BY <1>1, <1>3, <1>4, <1>5, <2>1 DEF PartInv
<1>7. CASE PostOutcome(l)
  <2>1. torn' = torn
    BY <1>7 DEF PostOutcome, bounds, history
  <2>2. /\ \A o \in Observations \ {v.obs} : sync'[o] = sync[o]
        /\ loop[l].at # "success" => sync'[v.obs].status # "SUCCESS"
    <3>1. postStatus(v.obs, Outcome[loop[l].at], IF loop[l].at = "success" THEN v.at ELSE 0)
      BY <1>2, <1>7 DEF PostOutcome
    <3>2. /\ Outcome[loop[l].at] \in SyncStatus
          /\ loop[l].at # "success" => Outcome[loop[l].at] # "SUCCESS"
      BY <1>1 DEF Outcome, SyncStatus
    <3>3. (IF loop[l].at = "success" THEN v.at ELSE 0) \in Time
      BY SftpAssumption DEF Version, Time
    <3>4. QED
      BY <1>5, <3>1, <3>2, <3>3, PostStatusEffect DEF SyncInv
  <2>3. loop[l].at = "success" => v.obs \notin partial
    BY <1>2 DEF PartInv
  <2>4. QED
    BY <1>1, <1>3, <1>4, <1>5, <2>1, <2>2, <2>3 DEF PartInv
<1>8. QED
  BY <1>6, <1>7

LEMMA RestartPartInv ==
  ASSUME SyncInv, PartInv, Restart PROVE PartInv'
<1>1. /\ partial' = partial /\ sync' = sync /\ overlapped' = overlapped
      /\ torn' = torn \cup CutOff(Loops)
  BY DEF Restart, server
<1>2. \A k \in Loops : loop'[k].at \in {"awake", "off"}
  BY DEF Restart, At
<1>3. ASSUME NEW o \in partial, o \notin torn', ~overlapped PROVE sync[o].status # "SUCCESS"
  <2>1. \A l \in Loops : ~Sends(l, o)
    BY <1>1, <1>3 DEF CutOff, Sends
  <2>2. QED
    BY <1>1, <1>3, <2>1 DEF PartInv
<1>4. QED
  BY <1>1, <1>2, <1>3 DEF PartInv

LEMMA NextPartInv == SyncInv /\ PartInv /\ [Next]_vars => PartInv'
<1> SUFFICES ASSUME SyncInv, PartInv, [Next]_vars PROVE PartInv'
  OBVIOUS
<1>1. CASE UNCHANGED <<sync, server, loop, history>>
  BY <1>1, AsidePartInv DEF server, history
<1>2. ASSUME NEW o \in Observations, requeueObservation(o) PROVE PartInv'
  <2>1. \A p \in Observations : sync'[p].status = "SUCCESS" => sync[p].status = "SUCCESS"
    <3>1. postStatus(o, "PENDING", 0) /\ "PENDING" \in SyncStatus /\ 0 \in Time
      BY <1>2, SftpAssumption DEF requeueObservation, SyncStatus, Time
    <3>2. QED
      BY <3>1, PostStatusEffect DEF SyncInv
  <2>2. QED
    BY <1>2, <2>1, AsidePartInv DEF requeueObservation, server, history
<1>3. CASE stop
  <2>1. \A l \in Loops : loop'[l] = loop[l] \/ (loop[l].at = "asleep" /\ loop'[l].at = "off")
    BY <1>3 DEF stop, At
  <2>2. UNCHANGED <<sync, server, history>>
    BY <1>3 DEF stop
  <2>3. QED
    BY <2>1, <2>2, AsidePartInv DEF server, history
<1>4. ASSUME NEW l \in Loops,
             \/ Wake(l) \/ EndCycle(l) \/ GatherFails(l) \/ ConnectFails(l) \/ start(l)
      PROVE  PartInv'
  <2>1. /\ loop'[l].at \in {"off", "asleep", "awake"}
        /\ \A k \in Loops \ {l} : loop'[k] = loop[k]
    BY <1>4, RestStep DEF SyncInv
  <2>2. loop[l].at \notin {"putting", "success", "failed"}
    BY <1>4 DEF Wake, EndCycle, GatherFails, ConnectFails, start, Moves
  <2>3. /\ UNCHANGED <<sync, partial, torn>> /\ (overlapped' = FALSE => overlapped = FALSE)
    BY <1>4 DEF Wake, EndCycle, GatherFails, ConnectFails, start, server, bounds, history,
                SyncInv, TypeOK
  <2>4. QED
    BY <2>1, <2>2, <2>3, AsidePartInv
<1>5. ASSUME NEW l \in Loops, skipMissedObservations(l) PROVE PartInv'
  <2>1. UNCHANGED <<server, history>>
    BY <1>5 DEF skipMissedObservations, bounds
  <2>2. QED
    BY <1>5, <2>1, SkipStep, AsidePartInv DEF SyncInv, server, history
<1>6. ASSUME NEW l \in Loops, FindPending(l) \/ FindModified(l) \/ Connect(l) \/ createArchive(l)
      PROVE  PartInv'
  <2>1. UNCHANGED <<sync, server, history>>
    BY <1>6 DEF FindPending, FindModified, Connect, createArchive, bounds
  <2>2. /\ loop[l].at \in {"skipped", "gathered", "connect", "send"}
        /\ loop'[l].at \in {"gathered", "connect", "send", "put", "pending"}
        /\ \A k \in Loops \ {l} : loop'[k] = loop[k]
    <3>1. CASE FindPending(l) \/ FindModified(l)
      BY <3>1, FindStep DEF SyncInv
    <3>2. CASE Connect(l)
      <4>1. /\ loop[l].at = "connect"
            /\ loop' = [loop EXCEPT ![l] = [loop[l] EXCEPT !.at = "send"]]
        BY <3>2 DEF Connect, Moves
      <4>2. QED
        BY <4>1 DEF SyncInv, TypeOK, LoopState
    <3>3. CASE createArchive(l)
      BY <3>3, ArchiveStep DEF SyncInv
    <3>4. QED
      BY <1>6, <3>1, <3>2, <3>3
  <2>3. QED
    BY <2>1, <2>2, AsidePartInv DEF server, history
<1>7. ASSUME NEW l \in Loops,
             OpenRemote(l) \/ Put(l) \/ SendFails(l) \/ PostOutcome(l) \/ PostFails(l)
      PROVE  PartInv'
  <2>1. overlapped' = overlapped
    BY <1>7 DEF OpenRemote, Put, SendFails, PostOutcome, PostFails, bounds, history
  <2>2. QED
    BY <1>7, <2>1, SendPartInv, OutcomePartInv DEF PartInv
<1>8. CASE \/ Tick
           \/ \E o \in Observations : Create(o) \/ Edit(o) \/ AttachmentArrives(o)
  <2>1. UNCHANGED <<sync, server, loop, history>>
    BY <1>8 DEF Tick, Create, Edit, AttachmentArrives, Write, bounds
  <2>2. QED
    BY <1>1, <2>1
<1>9. CASE UNCHANGED vars
  BY <1>1, <1>9 DEF vars, bounds
<1>10. QED
  BY <1>2, <1>3, <1>4, <1>5, <1>6, <1>7, <1>8, <1>9, RestartPartInv DEF Next, CycleStep

-----------------------------------------------------------------------------
(***************************************************************************)
(* Theorems.                                                               *)
(***************************************************************************)
(* The inductive invariant of the records, the loops and their queues.     *)
THEOREM SyncCorrect == Spec => []SyncInv
  BY InitSyncInv, NextSyncInv, PTL DEF Spec

(* Records, versions and loops keep their types; a loop holds a version    *)
(* exactly while it sends it.                                              *)
THEOREM TypeCorrect == Spec => []TypeOK
<1>1. SyncInv => TypeOK
  BY DEF SyncInv
<1>2. QED
  BY <1>1, SyncCorrect, PTL

(* A stop leaves no timer behind, unless loops overlapped.                 *)
THEOREM StopClearsTimerCorrect == Spec => []StopClearsTimer
<1>1. SyncInv => StopClearsTimer
  BY DEF SyncInv, OneLoopInv, TimerInv, StopClearsTimer
<1>2. QED
  BY <1>1, SyncCorrect, PTL

(* An observation recorded as sent was uploaded in that version or a newer *)
(* one, and its remote file is whole, but while a loop writes over it, or  *)
(* has yet to record that it failed to, or after a loop was cut off there  *)
(* (sftpObservations, sftpObservation); unless loops overlapped.           *)
THEOREM SuccessIsUploadedCorrect == Spec => []SuccessIsUploaded
<1>1. Init => PartInv
  BY DEF Init, PartInv, At
<1>2. SyncInv /\ PartInv => SuccessIsUploaded
  BY DEF SyncInv, OneLoopInv, SentInv, SuccessIsUploaded, PartInv, isProcessed
<1>3. QED
  BY <1>1, <1>2, NextPartInv, SyncCorrect, PTL DEF Spec

(* No step of a loop that works alone puts an older version over a newer   *)
(* one, though its queue may hold both (gatherObservationsToSync).         *)
THEOREM RemoteNeverRegressesCorrect == Spec => RemoteNeverRegresses
<1>1. ASSUME SyncInv, [Next]_vars
      PROVE  [~overlapped => \A o \in Observations : remote'[o] >= remote[o]]_vars
  <2>1. \A o \in Observations : remote[o] \in Nat
    BY <1>1 DEF SyncInv, TypeOK, Time
  <2>2. CASE remote' = remote
    BY <2>1, <2>2
  <2>3. ASSUME NEW l \in Loops, Put(l), ~overlapped
        PROVE  \A o \in Observations : remote'[o] >= remote[o]
    <3>1. PICK v \in loop[l].sending : remote' = [remote EXCEPT ![v.obs] = v.at]
      BY <2>3 DEF Put
    <3>2. remote[v.obs] <= v.at /\ v.at \in Nat
      BY <1>1, <2>3 DEF SyncInv, OneLoopInv, QueueInv, InHand, TypeOK, LoopState, Version, Time
    <3>3. QED
      BY <1>1, <2>1, <3>1, <3>2 DEF SyncInv, TypeOK
  <2>4. remote' = remote \/ \E l \in Loops : Put(l)
    BY <1>1
       DEF Next, Create, Edit, AttachmentArrives, Write, requeueObservation, Tick, CycleStep,
           Wake, skipMissedObservations, FindPending, FindModified, Connect, createArchive,
           OpenRemote, PostOutcome, EndCycle, SendFails, GatherFails, ConnectFails, PostFails,
           start, stop, Restart, server, vars
  <2>5. QED
    BY <2>2, <2>3, <2>4
<1>2. QED
  BY <1>1, SyncCorrect, PTL DEF Spec, RemoteNeverRegresses
-----------------------------------------------------------------------------
(***************************************************************************)
(* Nothing slips by the moving query time of SftpSync, as long as a page   *)
(* holds all the observations there are.                                   *)
(***************************************************************************)

(* A later version of some observation is recorded as sent, or about to be.*)
Behind(o) == \E p \in Observations : isProcessed(p) /\ sync[p].modified > modified[o]

Beyond(o) ==
    \/ Behind(o)
    \/ \E l \in Loops : loop[l].at # "gathered" /\ \E w \in InHand(l) : w.at > modified[o]

Masked(o) == sync[o].status \in {"PENDING", "FAILED"}

Current(o) == \E l \in Loops : Read(o) \in InHand(l)

(* Nothing was sent in this cycle yet. *)
Gathering == \A l \in Loops : loop[l].at \notin Sending \cup {"send"}

(* An observation that is behind is in the queue as it is now, or has a    *)
(* record that shows; and so it is before anything of a cycle is sent.     *)
ReachInv(o) ==
    modified[o] >= startTime =>
        /\ Beyond(o) /\ Queued(o) => Current(o)
        /\ Beyond(o) /\ ~Queued(o) /\ ~Settled(o) => Masked(o)
        /\ Gathering /\ Behind(o) /\ ~Settled(o) => Masked(o)

(* What was found pending still is when the page is read. *)
FoundInv ==
    \A l \in Loops : loop[l].at = "gathered" =>
        \A v \in loop[l].pending : sync[v.obs].status = "PENDING"

PageInv ==
    /\ startTime # 0
    /\ ~overlapped /\ ~aborted => FoundInv /\ \A o \in Observations : ReachInv(o)
-----------------------------------------------------------------------------
(***************************************************************************)
(* The query time and the page.                                            *)
(***************************************************************************)
(* A finite set of times has a latest: otherwise a least subset without    *)
(* one would, by one element less, have one.                               *)
LEMMA MaxExists ==
  ASSUME NEW S \in SUBSET Nat, IsFiniteSet(S), S # {}
  PROVE  Max(S) \in S /\ \A y \in S : Max(S) >= y
<1> DEFINE HasMax(U) == \E x \in U : \A y \in U : x >= y
           T == {U \in SUBSET S : U # {} /\ ~HasMax(U)}
<1>1. T = {}
  <2> SUFFICES ASSUME T # {} PROVE FALSE
    OBVIOUS
  <2>1. IsWellFoundedOn(StrictSubsetOrdering(S), SUBSET S)
    BY FS_StrictSubsetOrderingWellFounded, FS_FiniteSubsetsOfFinite
  <2>2. PICK U \in T : \A V \in T : <<V, U>> \notin StrictSubsetOrdering(S)
    <3>1. T \subseteq SUBSET S
      OBVIOUS
    <3> HIDE DEF T
    <3>2. QED
      BY <2>1, <3>1, WFMin
  <2>3. PICK x \in U : TRUE
    OBVIOUS
  <2>4. U \ {x} \notin T
    <3>1. U \ {x} \in SUBSET S /\ U \in SUBSET S /\ U \ {x} # U
      BY <2>3
    <3>2. <<U \ {x}, U>> \in StrictSubsetOrdering(S)
      BY <3>1 DEF StrictSubsetOrdering
    <3>3. QED
      BY <2>2, <3>2
  <2>5. CASE U \ {x} = {}
    <3>1. \A y \in U : x >= y
      BY <2>3, <2>5
    <3>2. QED
      BY <2>3, <3>1
  <2>6. CASE U \ {x} # {}
    <3>1. PICK m \in U \ {x} : \A y \in U \ {x} : m >= y
      BY <2>4, <2>6
    <3>2. m \in Nat /\ x \in Nat
      BY <2>3
    <3>3. CASE m >= x
      BY <3>1, <3>3
    <3>4. CASE x > m
      <4>1. \A y \in U : x >= y
        BY <3>1, <3>2, <3>4
      <4>2. QED
        BY <2>3, <4>1
    <3>5. QED
      BY <3>2, <3>3, <3>4
  <2>7. QED
    BY <2>5, <2>6
<1>2. HasMax(S)
  BY <1>1
<1>3. QED
  BY <1>2 DEF Max

(* What was modified since the start is within reach of the query exactly  *)
(* when nothing newer was sent.                                            *)
LEMMA QueryReach ==
  ASSUME TypeOK, NEW o \in Observations, modified[o] >= startTime
  PROVE  modified[o] >= queryTime <=> ~Behind(o)
<1> DEFINE done == {p \in Observations : sync[p].status = "SUCCESS"}
           times == {0} \cup {sync[p].modified : p \in done}
<1>1. modified[o] \in Nat /\ startTime \in Nat /\ MaxTime \in Nat
  BY SftpAssumption DEF TypeOK, Time
<1>2. times \in SUBSET Nat /\ \A t \in times : t <= MaxTime
  BY SftpAssumption DEF TypeOK, SyncRecord, Time
<1>3. IsFiniteSet(times)
  <2> HIDE DEF times
  <2>1. QED
    BY <1>1, <1>2, FS_BoundedSetOfNaturals
<1>4. /\ findLatestSyncedObservationTime \in times
      /\ \A t \in times : findLatestSyncedObservationTime >= t
  <2>1. times # {}
    OBVIOUS
  <2>2. findLatestSyncedObservationTime = Max(times)
    BY DEF findLatestSyncedObservationTime
  <2> HIDE DEF times
  <2>3. QED
    BY <1>2, <1>3, <2>1, <2>2, MaxExists
<1>5. /\ queryTime \in {findLatestSyncedObservationTime, startTime}
      /\ queryTime >= findLatestSyncedObservationTime /\ queryTime >= startTime
  <2> DEFINE latest == findLatestSyncedObservationTime
  <2>1. latest \in Nat
    BY <1>2, <1>4
  <2>2. {latest, startTime} \in SUBSET Nat /\ {latest, startTime} # {}
    BY <1>1, <2>1
  <2>3. IsFiniteSet({latest, startTime})
    <3>1. IsFiniteSet({latest} \cup {startTime})
      BY FS_Singleton, FS_AddElement
    <3>2. {latest, startTime} = {latest} \cup {startTime}
      OBVIOUS
    <3>3. QED
      BY <3>1, <3>2
  <2>4. queryTime = Max({latest, startTime})
    BY DEF queryTime
  <2> HIDE DEF latest
  <2>5. queryTime \in {latest, startTime} /\ \A t \in {latest, startTime} : queryTime >= t
    BY <2>2, <2>3, <2>4, MaxExists
  <2>6. QED
    BY <2>5 DEF latest
<1>6. CASE Behind(o)
  <2>1. PICK p \in Observations : isProcessed(p) /\ sync[p].modified > modified[o]
    BY <1>6 DEF Behind
  <2>2. sync[p].modified \in times
    BY <2>1 DEF isProcessed
  <2>3. queryTime > modified[o]
    BY <1>1, <1>2, <1>4, <1>5, <2>1, <2>2
  <2>4. QED
    BY <1>1, <1>2, <1>4, <1>5, <1>6, <2>3
<1>7. CASE ~Behind(o)
  <2>1. \A t \in times : t <= modified[o]
    <3>1. \A p \in done : sync[p].modified <= modified[o]
      BY <1>1, <1>7 DEF Behind, isProcessed, TypeOK, SyncRecord, Time
    <3>2. QED
      BY <1>1, <3>1
  <2>2. QED
    BY <1>1, <1>2, <1>4, <1>5, <1>7, <2>1
<1>8. QED
  BY <1>6, <1>7

(* A page that holds all observations leaves out none the query matches. *)
LEMMA WholePage ==
  ASSUME IsFiniteSet(Observations), Cardinality(Observations) <= PageSize, TypeOK,
         NEW o \in Observations, modified[o] >= queryTime, modified[o] # 0
  PROVE  o \in FirstPage
<1> DEFINE matches == {p \in Observations : modified[p] >= queryTime /\ modified[p] # 0}
           older == {p \in matches : modified[p] < modified[o]}
<1>1. older \in SUBSET (Observations \ {o}) /\ o \in matches
  BY DEF TypeOK, Time
<1>2. /\ IsFiniteSet(Observations \ {o})
      /\ Cardinality(Observations \ {o}) = Cardinality(Observations) - 1
  BY FS_RemoveElement
<1>3. IsFiniteSet(older) /\ Cardinality(older) <= Cardinality(Observations \ {o})
  <2> HIDE DEF older
  <2>1. QED
    BY <1>1, <1>2, FS_Subset
<1>4. Cardinality(older) < PageSize
  <2>1. Cardinality(older) \in Nat /\ Cardinality(Observations) \in Nat
    BY <1>3, FS_CardinalityType
  <2>2. QED
    BY <1>2, <1>3, <2>1, SftpAssumption
<1>5. QED
  BY <1>1, <1>4 DEF FirstPage

-----------------------------------------------------------------------------
(***************************************************************************)
(* Every step preserves the invariant.                                     *)
(***************************************************************************)
LEMMA InitPageInv == Init => PageInv
<1> SUFFICES ASSUME Init PROVE PageInv
  OBVIOUS
<1>1. PICK l \in Loops : loop = [k \in Loops |-> At(IF k = l THEN "awake" ELSE "off")]
  BY DEF Init
<1>2. \A k \in Loops : loop[k].at \in {"awake", "off"} /\ InHand(k) = {}
  BY <1>1 DEF At, InHand
<1>3. \A o \in Observations : ~Behind(o)
  BY DEF Init, Behind, isProcessed
<1>4. \A o \in Observations : ~Beyond(o)
  BY <1>2, <1>3 DEF Beyond
<1>5. QED
  BY <1>2, <1>3, <1>4 DEF Init, PageInv, FoundInv, ReachInv

(* Steps that neither record anything of an observation nor change what is *)
(* in hand.                                                                *)
LEMMA SameHand ==
  ASSUME NEW o \in Observations, ReachInv(o),
         UNCHANGED <<modified, startTime>>, sync'[o] = sync[o], Behind(o)' => Behind(o),
         \A k \in Loops : /\ InHand(k)' = InHand(k)
                          /\ loop[k].at = "gathered" => loop'[k].at = "gathered",
         Gathering' => Gathering
  PROVE  ReachInv(o)'
<1>1. Beyond(o)' => Beyond(o)
  BY DEF Beyond
<1>2. /\ Queued(o)' <=> Queued(o)
      /\ Current(o)' <=> Current(o)
      /\ Settled(o)' <=> Settled(o)
      /\ Masked(o)' <=> Masked(o)
  BY DEF Queued, Current, InHand, Read, Settled, isProcessed, isSyncedAtLastModified, Masked
<1>3. QED
  BY <1>1, <1>2 DEF ReachInv

LEMMA SameRecords ==
  ASSUME NEW o \in Observations, UNCHANGED <<modified, sync>>
  PROVE  sync'[o] = sync[o] /\ (Behind(o)' <=> Behind(o))
  BY DEF Behind, isProcessed

(* Between cycles, and until the page is read, a cycle holds nothing more  *)
(* than what it found pending.                                             *)
LEMMA EmptyHanded ==
  ASSUME NEW o \in Observations, \A k \in Loops : InHand(k) = {}
  PROVE  ~Queued(o) /\ (Beyond(o) <=> Behind(o))
  BY DEF Queued, InHand, Beyond

LEMMA ClientPageInv ==
  ASSUME SyncInv, PageInv,
         \/ \E o \in Observations : Create(o) \/ Edit(o) \/ AttachmentArrives(o)
         \/ Tick
  PROVE  PageInv'
<1>1. /\ UNCHANGED <<sync, remote, partial, control, loop, bounds>>
      /\ \/ modified' = modified
         \/ \E p \in Observations : modified' = [modified EXCEPT ![p] = now + 1]
  BY DEF Create, Edit, AttachmentArrives, Write, Tick, server
<1>2. startTime' = startTime /\ overlapped' = overlapped /\ aborted' = aborted
  BY <1>1 DEF control, bounds, history
<1>3. \A k \in Loops : InHand(k)' = InHand(k) /\ loop'[k] = loop[k]
  BY <1>1 DEF InHand
<1>4. FoundInv => FoundInv'
  BY <1>1 DEF FoundInv
<1>5. ASSUME ~overlapped, ~aborted, NEW o \in Observations PROVE ReachInv(o)'
  <2>1. ReachInv(o)
    BY <1>5 DEF PageInv
  <2>2. CASE modified' = modified
    BY <1>1, <1>2, <1>3, <2>1, <2>2, SameHand, SameRecords DEF Gathering
  <2>3. ASSUME NEW p \in Observations, modified' = [modified EXCEPT ![p] = now + 1]
        PROVE  ReachInv(o)'
    <3>1. CASE o = p
      <4>1. modified'[o] = now + 1 /\ now \in Nat
        BY <2>3, <3>1 DEF SyncInv, TypeOK, Time
      <4>2. \A q \in Observations : isProcessed(q) => sync[q].modified <= now
        <5>1. \A q \in Observations :
                  /\ isProcessed(q) => remote[q] >= sync[q].modified
                  /\ remote[q] <= modified[q] /\ modified[q] <= now
                  /\ remote[q] \in Nat /\ modified[q] \in Nat /\ sync[q].modified \in Nat
          BY <1>5 DEF SyncInv, OneLoopInv, SentInv, VersionInv, TypeOK, SyncRecord, Time
        <5>2. QED
          BY <4>1, <5>1
      <4>3. \A k \in Loops : \A w \in InHand(k) : w.at <= now /\ w.at \in Nat
        <5>1. \A k \in Loops : \A w \in InHand(k) :
                  /\ w.at <= modified[w.obs] /\ modified[w.obs] <= now
                  /\ w.at \in Nat /\ modified[w.obs] \in Nat
          BY DEF SyncInv, VersionInv, InHand, TypeOK, LoopState, Version, Time
        <5>2. QED
          BY <4>1, <5>1
      <4>4. \A q \in Observations : sync[q].modified \in Nat
        BY DEF SyncInv, TypeOK, SyncRecord, Time
      <4>5. ~Behind(o)'
        BY <1>1, <4>1, <4>2, <4>4 DEF Behind, isProcessed
      <4>6. ~Beyond(o)'
        BY <1>3, <4>1, <4>3, <4>5 DEF Beyond
      <4>7. QED
        BY <4>5, <4>6 DEF ReachInv
    <3>2. CASE o # p
      <4>1. modified'[o] = modified[o]
        BY <2>3, <3>2 DEF SyncInv, TypeOK
      <4>2. (Behind(o)' <=> Behind(o)) /\ (Beyond(o)' <=> Beyond(o))
        BY <1>1, <1>3, <4>1 DEF Behind, Beyond, isProcessed
      <4>3. /\ Queued(o)' <=> Queued(o)
            /\ Current(o)' <=> Current(o)
            /\ Settled(o)' <=> Settled(o)
            /\ Masked(o)' <=> Masked(o)
            /\ Gathering' <=> Gathering
        BY <1>1, <1>3, <4>1 DEF Queued, Current, Read, Settled, isProcessed,
              isSyncedAtLastModified, Masked, Gathering
      <4>4. QED
        BY <1>2, <2>1, <4>1, <4>2, <4>3 DEF ReachInv
    <3>3. QED
      BY <3>1, <3>2
  <2>4. QED
    BY <1>1, <2>2, <2>3
<1>6. QED
  BY <1>2, <1>4, <1>5 DEF PageInv

LEMMA RequeuePageInv ==
  ASSUME SyncInv, PageInv, NEW p \in Observations, requeueObservation(p) PROVE PageInv'
<1>1. /\ sync'[p].status = "PENDING"
      /\ \A o \in Observations \ {p} : sync'[o] = sync[o]
  <2>1. postStatus(p, "PENDING", 0) /\ "PENDING" \in SyncStatus /\ 0 \in Time
    BY SftpAssumption DEF requeueObservation, SyncStatus, Time
  <2>2. QED
    BY <2>1, PostStatusEffect DEF SyncInv
<1>2. /\ UNCHANGED <<modified, startTime, loop, overlapped, aborted>>
  BY DEF requeueObservation, clients, control, history
<1>3. FoundInv => FoundInv'
  <2>1. \A l \in Loops : \A v \in loop[l].pending : v.obs \in Observations
    BY DEF SyncInv, TypeOK, LoopState, Version
  <2>2. QED
    BY <1>1, <1>2, <2>1 DEF FoundInv
<1>4. ASSUME NEW o \in Observations, ReachInv(o) PROVE ReachInv(o)'
  <2>1. (Behind(o)' => Behind(o)) /\ (Beyond(o)' => Beyond(o))
    BY <1>1, <1>2 DEF Behind, Beyond, isProcessed, InHand
  <2>2. /\ Queued(o)' <=> Queued(o)
        /\ Current(o)' <=> Current(o)
        /\ Gathering' <=> Gathering
    BY <1>2 DEF Queued, Current, Read, InHand, Gathering
  <2>3. CASE o = p
    <3>1. Masked(o)'
      BY <1>1, <2>3 DEF Masked
    <3>2. QED
      BY <1>2, <1>4, <2>1, <2>2, <3>1 DEF ReachInv
  <2>4. CASE o # p
    <3>1. (Settled(o)' <=> Settled(o)) /\ (Masked(o)' <=> Masked(o))
      BY <1>1, <1>2, <2>4 DEF Masked, Settled, isProcessed, isSyncedAtLastModified
    <3>2. QED
      BY <1>2, <1>4, <2>1, <2>2, <3>1 DEF ReachInv
  <2>5. QED
    BY <2>3, <2>4
<1>5. QED
  BY <1>2, <1>3, <1>4 DEF PageInv

LEMMA StopPageInv ==
  ASSUME SyncInv, PageInv, stop PROVE PageInv'
<1>1. /\ UNCHANGED <<modified, startTime, sync, overlapped, aborted>>
      /\ loop' = [l \in Loops |-> IF l = nextTimeout /\ loop[l].at = "asleep"
                                  THEN At("off") ELSE loop[l]]
  BY DEF stop, clients, history
<1>2. \A l \in Loops : \/ loop'[l] = loop[l]
                       \/ /\ loop[l].at = "asleep" /\ loop'[l].at = "off"
                          /\ InHand(l)' = {}
  <2>1. At("off").at = "off" /\ At("off").pending = {} /\ At("off").fresh = {}
        /\ At("off").sending = {}
    BY DEF At
  <2>2. QED
    BY <1>1, <2>1 DEF InHand
<1>3. \A l \in Loops : loop[l].at = "asleep" => InHand(l) = {}
  BY DEF SyncInv, PhaseInv, InHand, Sending
<1>4. \A l \in Loops : InHand(l)' = InHand(l)
  BY <1>2, <1>3 DEF InHand
<1>5. FoundInv => FoundInv'
  BY <1>1, <1>2 DEF FoundInv
<1>6. Gathering' => Gathering
  BY <1>2 DEF Gathering, Sending
<1>7. \A o \in Observations : ReachInv(o) => ReachInv(o)'
  BY <1>1, <1>2, <1>4, <1>6, SameHand, SameRecords
<1>8. QED
  BY <1>1, <1>5, <1>7 DEF PageInv

(* After a restart, only what is written from then on counts. *)
LEMMA RestartPageInv ==
  ASSUME SyncInv, PageInv, Restart PROVE PageInv'
<1>1. startTime' = now + 1 /\ modified' = modified
  BY DEF Restart
<1>2. now \in Nat /\ \A o \in Observations : modified[o] \in Nat /\ modified[o] <= now
  BY DEF SyncInv, VersionInv, TypeOK, Time
<1>3. \A o \in Observations : ReachInv(o)'
  BY <1>1, <1>2 DEF ReachInv
<1>4. FoundInv'
  <2>1. PICK l \in Loops : loop' = [k \in Loops |-> At(IF k = l THEN "awake" ELSE "off")]
    BY DEF Restart
  <2>2. \A k \in Loops : loop'[k].at \in {"awake", "off"}
    BY <2>1 DEF At
  <2>3. QED
    BY <2>2 DEF FoundInv
<1>5. QED
  BY <1>1, <1>2, <1>3, <1>4 DEF PageInv

(* The loops that do nothing hold nothing. *)
LEMMA OthersEmpty ==
  ASSUME SyncInv, ~overlapped, NEW l \in Loops,
         loop[l].at # "off" \/ \A k \in Loops \ {l} : loop[k].at = "off",
         \A k \in Loops \ {l} : loop'[k] = loop[k]
  PROVE  \A k \in Loops \ {l} : /\ loop[k].at = "off" /\ loop'[k].at = "off"
                                /\ InHand(k) = {} /\ InHand(k)' = {}
<1>1. \A k \in Loops \ {l} : loop[k].at = "off"
  BY DEF SyncInv, OneLoopInv, AloneInv
<1>2. \A k \in Loops \ {l} : InHand(k) = {}
  BY <1>1 DEF SyncInv, PhaseInv, InHand, Sending
<1>3. QED
  BY <1>1, <1>2 DEF InHand

LEMMA RestPageInv ==
  ASSUME SyncInv, PageInv, NEW l \in Loops,
         \/ Wake(l) \/ EndCycle(l) \/ GatherFails(l) \/ ConnectFails(l) \/ PostFails(l)
         \/ start(l)
  PROVE  PageInv'
<1>1. /\ loop'[l].at \in {"off", "asleep", "awake"}
      /\ loop'[l].pending = {} /\ loop'[l].fresh = {} /\ loop'[l].sending = {}
      /\ \A k \in Loops \ {l} : loop'[k] = loop[k]
  BY RestStep DEF SyncInv
<1>2. UNCHANGED <<modified, sync, startTime>>
  BY DEF Wake, EndCycle, GatherFails, ConnectFails, PostFails, start, clients, control
<1>3. PostFails(l) => aborted'
  BY DEF PostFails
<1>4. (overlapped => overlapped') /\ (~PostFails(l) => aborted' = aborted)
  <2>1. CASE start(l)
    BY <2>1 DEF start
  <2>2. CASE PostFails(l)
    BY <2>2 DEF PostFails
  <2>3. CASE Wake(l) \/ EndCycle(l) \/ GatherFails(l) \/ ConnectFails(l)
    BY <2>3 DEF Wake, EndCycle, GatherFails, ConnectFails, bounds, history
  <2>4. QED
    BY <2>1, <2>2, <2>3
<1>5. ASSUME ~PostFails(l), ~overlapped', ~aborted'
      PROVE  FoundInv' /\ \A o \in Observations : ReachInv(o)'
  <2>1. ~overlapped /\ ~aborted
    BY <1>4, <1>5
  <2>2. loop[l].at # "off" \/ \A k \in Loops \ {l} : loop[k].at = "off"
    BY <1>5 DEF Wake, EndCycle, GatherFails, ConnectFails, start, Moves
  <2>3. \A k \in Loops \ {l} : /\ loop[k].at = "off" /\ loop'[k].at = "off"
                               /\ InHand(k) = {} /\ InHand(k)' = {}
    BY <1>1, <2>1, <2>2, OthersEmpty
  <2>4. \A k \in Loops : InHand(k)' = {} /\ loop'[k].at # "gathered"
    BY <1>1, <2>3 DEF InHand
  <2>5. FoundInv'
    BY <2>4 DEF FoundInv
  <2>6. ASSUME NEW o \in Observations, modified[o] >= startTime, Behind(o), ~Settled(o)
        PROVE  Masked(o)
    <3>1. ReachInv(o)
      BY <2>1 DEF PageInv
    <3>2. CASE loop[l].at \notin Sending \cup {"send"}
      BY <2>3, <2>6, <3>1, <3>2 DEF ReachInv, Gathering, Sending
    <3>3. CASE loop[l].at \in Sending \cup {"send"}
      <4>1. EndCycle(l) /\ loop[l].at = "send" /\ NothingToSend(l)
        BY <1>5, <3>3
           DEF Wake, EndCycle, GatherFails, ConnectFails, start, Moves, Sending
      <4>2. \A k \in Loops : InHand(k) = {}
        BY <2>3, <4>1 DEF NothingToSend, SyncInv, PhaseInv, Sending, InHand
      <4>3. QED
        BY <2>6, <3>1, <4>2, EmptyHanded DEF ReachInv
    <3>4. QED
      BY <3>2, <3>3
  <2>7. ASSUME NEW o \in Observations PROVE ReachInv(o)'
    <3>1. ~Queued(o)' /\ (Beyond(o)' => Behind(o)')
      BY <2>4 DEF Queued, InHand, Beyond
    <3>2. /\ Behind(o)' <=> Behind(o)
          /\ Settled(o)' <=> Settled(o)
          /\ Masked(o)' <=> Masked(o)
      BY <1>2 DEF Behind, Settled, isProcessed, isSyncedAtLastModified, Masked
    <3>3. QED
      BY <1>2, <2>6, <3>1, <3>2 DEF ReachInv
  <2>8. QED
    BY <2>5, <2>7
<1>6. QED
  BY <1>2, <1>3, <1>5 DEF PageInv

(* Observations older than the start of the plugin are out of its reach. *)
LEMMA SkipPageInv ==
  ASSUME SyncInv, PageInv, NEW l \in Loops, skipMissedObservations(l) PROVE PageInv'
<1>1. /\ loop[l].at = "awake" /\ loop'[l].at = "skipped"
      /\ loop'[l].pending = loop[l].pending /\ loop'[l].fresh = loop[l].fresh
      /\ loop'[l].sending = loop[l].sending
      /\ \A k \in Loops \ {l} : loop'[k] = loop[k]
      /\ \A o \in Observations : sync'[o] = sync[o] \/ sync'[o].status = "SKIPPED"
  BY SkipStep DEF SyncInv
<1>2. UNCHANGED <<modified, startTime, overlapped, aborted>>
  BY DEF skipMissedObservations, clients, bounds, history
<1>3. \A k \in Loops : InHand(k)' = InHand(k)
  BY <1>1 DEF InHand
<1>4. FoundInv => FoundInv'
  <2>1. ASSUME FoundInv, NEW k \in Loops, loop'[k].at = "gathered", NEW v \in loop'[k].pending
        PROVE  sync'[v.obs].status = "PENDING"
    <3>1. loop'[k] = loop[k] /\ v \in Version
      BY <1>1, <2>1 DEF SyncInv, TypeOK, LoopState
    <3>2. v.obs \in Observations /\ sync[v.obs].status = "PENDING"
      BY <2>1, <3>1 DEF FoundInv, Version
    <3>3. QED
      BY <3>2 DEF skipMissedObservations
  <2>2. QED
    BY <2>1 DEF FoundInv
<1>5. ASSUME ~overlapped, NEW o \in Observations, ReachInv(o) PROVE ReachInv(o)'
  <2>1. CASE modified[o] >= startTime
    <3>1. sync'[o] = sync[o]
      <4>1. modified[o] \in Nat /\ startTime \in Nat
        BY DEF SyncInv, TypeOK, Time
      <4>2. modified[o] \notin 1..startTime - 1
        BY <2>1, <4>1
      <4>3. QED
        BY <4>2 DEF skipMissedObservations
    <3>2. Behind(o)' => Behind(o)
      BY <1>1, <1>2 DEF Behind, isProcessed
    <3>3. Gathering
      BY <1>1, <1>5 DEF Gathering, Sending, SyncInv, OneLoopInv, AloneInv
    <3>4. QED
      BY <1>1, <1>2, <1>3, <1>5, <3>1, <3>2, <3>3, SameHand
  <2>2. CASE ~(modified[o] >= startTime)
    BY <1>2, <2>2 DEF ReachInv
  <2>3. QED
    BY <2>1, <2>2
<1>6. QED
  BY <1>2, <1>4, <1>5 DEF PageInv

LEMMA FindPendingPageInv ==
  ASSUME SyncInv, PageInv, NEW l \in Loops, FindPending(l) PROVE PageInv'
<1> DEFINE pending == {Read(o) : o \in {p \in Observations : sync[p].status = "PENDING"}}
<1>1. /\ loop[l].at = "skipped" /\ loop'[l].at = "gathered"
      /\ loop'[l].pending = pending
      /\ loop'[l].fresh = loop[l].fresh /\ loop'[l].sending = loop[l].sending
      /\ \A k \in Loops \ {l} : loop'[k] = loop[k]
  <2>1. loop[l].at = "skipped"
    BY DEF FindPending, Moves
  <2>2. QED
    BY <2>1, FindStep DEF SyncInv
<1>2. UNCHANGED <<modified, sync, startTime, overlapped, aborted>>
  BY DEF FindPending, clients, control, bounds, history
<1>3. \A v \in pending : v.obs \in Observations /\ sync[v.obs].status = "PENDING"
                           /\ v = Read(v.obs)
  BY DEF Read
<1> HIDE DEF pending
<1>4. ASSUME ~overlapped, ~aborted PROVE FoundInv' /\ \A o \in Observations : ReachInv(o)'
  <2>1. \A k \in Loops \ {l} : /\ loop[k].at = "off" /\ loop'[k].at = "off"
                               /\ InHand(k) = {} /\ InHand(k)' = {}
    BY <1>1, <1>4, OthersEmpty
  <2>2. InHand(l)' = pending /\ loop[l].sending = {}
    BY <1>1 DEF SyncInv, PhaseInv, InHand, Sending
  <2>3. FoundInv'
    BY <1>1, <1>2, <1>3, <2>1 DEF FoundInv
  <2>4. Gathering
    BY <1>1, <2>1 DEF Gathering, Sending
  <2>5. ASSUME NEW o \in Observations PROVE ReachInv(o)'
    <3>1. ReachInv(o)
      BY <1>4 DEF PageInv
    <3>2. Beyond(o)' => Behind(o)
      BY <1>1, <1>2, <2>1, SameRecords DEF Beyond
    <3>3. /\ Behind(o)' <=> Behind(o)
          /\ Settled(o)' <=> Settled(o)
          /\ Masked(o)' <=> Masked(o)
      BY <1>2, SameRecords DEF Settled, isProcessed, isSyncedAtLastModified, Masked
    <3>4. Queued(o)' => Current(o)'
      <4>1. ASSUME Queued(o)' PROVE Current(o)'
        <5>1. PICK k \in Loops : \E v \in InHand(k)' : v.obs = o
          BY <4>1 DEF Queued, InHand
        <5>2. k = l
          BY <2>1, <5>1
        <5>3. Read(o) \in InHand(l)'
          BY <1>3, <2>2, <5>1, <5>2
        <5>4. Read(o)' = Read(o)
          BY <1>2 DEF Read
        <5>5. QED
          BY <5>3, <5>4 DEF Current
      <4>2. QED
        BY <4>1
    <3>5. QED
      BY <1>2, <2>4, <3>1, <3>2, <3>3, <3>4 DEF ReachInv
  <2>6. QED
    BY <2>3, <2>5
<1>5. QED
  BY <1>2, <1>4 DEF PageInv

LEMMA FindModifiedPageInv ==
  ASSUME IsFiniteSet(Observations), Cardinality(Observations) <= PageSize,
         SyncInv, PageInv, NEW l \in Loops, FindModified(l)
  PROVE  PageInv'
<1> DEFINE fresh == {Read(o) : o \in {p \in FirstPage : ~Settled(p)}}
<1>1. /\ loop[l].at = "gathered" /\ loop'[l].at = "connect"
      /\ loop'[l].pending = loop[l].pending /\ loop'[l].fresh = fresh
      /\ loop'[l].sending = loop[l].sending
      /\ \A k \in Loops \ {l} : loop'[k] = loop[k]
  <2>1. loop[l].at = "gathered"
    BY DEF FindModified, Moves
  <2>2. QED
    BY <2>1, FindStep DEF SyncInv
<1>2. UNCHANGED <<modified, sync, startTime, overlapped, aborted>>
  BY DEF FindModified, clients, control, bounds, history
<1>3. \A o \in Observations : Read(o)' = Read(o)
  BY <1>2 DEF Read
<1>4. \A o \in FirstPage : ~Settled(o) => Read(o) \in fresh
  OBVIOUS
<1> HIDE DEF fresh
<1>5. ASSUME ~overlapped, ~aborted PROVE FoundInv' /\ \A o \in Observations : ReachInv(o)'
  <2>1. \A k \in Loops \ {l} : /\ loop[k].at = "off" /\ loop'[k].at = "off"
                               /\ InHand(k) = {} /\ InHand(k)' = {}
    BY <1>1, <1>5, OthersEmpty
  <2>2. InHand(l) = loop[l].pending /\ InHand(l)' = loop[l].pending \cup fresh
    BY <1>1 DEF SyncInv, PhaseInv, InHand, Sending
  <2>3. FoundInv'
    BY <1>1, <2>1 DEF FoundInv
  <2>4. Gathering
    BY <1>1, <2>1 DEF Gathering, Sending
  <2>5. ASSUME NEW o \in Observations, modified[o] >= startTime PROVE ReachInv(o)'
    <3>1. ReachInv(o)
      BY <1>5 DEF PageInv
    <3>2. /\ Behind(o)' <=> Behind(o)
          /\ Settled(o)' <=> Settled(o)
          /\ Masked(o)' <=> Masked(o)
      BY <1>2, SameRecords DEF Settled, isProcessed, isSyncedAtLastModified, Masked
    <3>3. ~Settled(o) /\ o \notin FirstPage => Behind(o)
      <4>1. modified[o] # 0
        BY <2>5 DEF PageInv, SyncInv, TypeOK, Time
      <4>2. QED
        BY <2>5, <4>1, QueryReach, WholePage DEF SyncInv
    <3>4. o \in FirstPage /\ ~Settled(o) => Current(o)'
      <4>1. o \in FirstPage /\ ~Settled(o) => Read(o)' \in InHand(l)'
        BY <1>3, <1>4, <2>2
      <4>2. QED
        BY <4>1 DEF Current
    <3>5. Current(o) => Current(o)'
      <4>1. \A k \in Loops : Read(o) \in InHand(k) => Read(o)' \in InHand(k)'
        BY <1>3, <2>1, <2>2
      <4>2. QED
        BY <4>1 DEF Current
    <3>6. ASSUME Queued(o)', ~Current(o)' PROVE ~Beyond(o)'
      <4>1. PICK k \in Loops : \E v \in InHand(k)' : v.obs = o
        BY <3>6 DEF Queued, InHand
      <4>2. PICK v \in loop[l].pending \cup fresh : v.obs = o
        BY <2>1, <2>2, <4>1
      <4>3. v \notin fresh
        <5>1. v \in fresh => v = Read(o)
          BY <4>2 DEF fresh, Read
        <5>2. v \in fresh => Read(o)' \in InHand(l)'
          BY <1>3, <2>2, <5>1
        <5>3. QED
          BY <3>6, <5>2 DEF Current
      <4>4. sync[o].status = "PENDING" /\ Queued(o)
        BY <1>1, <1>5, <4>2, <4>3 DEF PageInv, FoundInv, Queued
      <4>5. ~Settled(o)
        BY <4>4 DEF Settled, isProcessed, isSyncedAtLastModified
      <4>6. Beyond(o)
        BY <3>3, <3>4, <3>6, <4>5 DEF Beyond
      <4>7. QED
        BY <2>5, <3>1, <3>5, <3>6, <4>4, <4>6 DEF ReachInv
    <3>7. ASSUME ~Queued(o)', ~Settled(o) PROVE Masked(o)
      <4>1. ~Current(o)'
        <5>1. Read(o)'.obs = o
          BY DEF Read
        <5>2. QED
          BY <3>7, <5>1 DEF Current, Queued, InHand
      <4>2. Behind(o)
        BY <3>3, <3>4, <3>7, <4>1
      <4>3. QED
        BY <2>4, <2>5, <3>1, <3>7, <4>2 DEF ReachInv
    <3>8. QED
      BY <2>4, <2>5, <3>1, <3>2, <3>6, <3>7 DEF ReachInv
  <2>6. ASSUME NEW o \in Observations, ~(modified[o] >= startTime) PROVE ReachInv(o)'
    BY <1>2, <2>6 DEF ReachInv
  <2>7. QED
    BY <2>3, <2>5, <2>6
<1>6. QED
  BY <1>2, <1>5 DEF PageInv

(* What is under way is still in hand. *)
LEMMA SendPageInv ==
  ASSUME SyncInv, PageInv, NEW l \in Loops,
         Connect(l) \/ OpenRemote(l) \/ Put(l) \/ SendFails(l) \/ createArchive(l)
  PROVE  PageInv'
<1>1. /\ loop[l].at # "gathered" /\ loop'[l].at \in Sending \cup {"send"}
      /\ InHand(l)' = InHand(l)
      /\ \A k \in Loops \ {l} : loop'[k] = loop[k]
  <2>1. CASE createArchive(l)
    <3>1. PICK v \in Version :
             /\ loop[l].at = "send" /\ loop'[l].at \in {"put", "pending"}
             /\ loop'[l].sending = {v}
             /\ \A k \in Loops \ {l} : loop'[k] = loop[k]
             /\ \/ /\ v \in loop[l].pending
                   /\ loop'[l].pending = loop[l].pending \ {v}
                   /\ loop'[l].fresh = loop[l].fresh
                \/ /\ v \in loop[l].fresh /\ loop[l].pending = {}
                   /\ loop'[l].pending = {}
                   /\ loop'[l].fresh = loop[l].fresh \ {v}
      BY <2>1, ArchiveStep DEF SyncInv
    <3>2. loop[l].sending = {}
      BY <3>1 DEF SyncInv, PhaseInv, Sending
    <3>3. InHand(l)' = InHand(l)
      BY <3>1, <3>2 DEF InHand
    <3>4. QED
      BY <3>1, <3>3 DEF Sending
  <2>2. CASE Connect(l) \/ OpenRemote(l) \/ Put(l) \/ SendFails(l)
    BY <2>2, ConnectStep DEF SyncInv, Sending, InHand
  <2>3. QED
    BY <2>1, <2>2
<1>2. UNCHANGED <<modified, sync, startTime, overlapped, aborted>>
  BY DEF Connect, OpenRemote, Put, SendFails, createArchive, clients, control, bounds, history
<1>3. FoundInv => FoundInv'
  <2>1. \A k \in Loops : loop'[k].at = "gathered" => loop'[k] = loop[k]
    BY <1>1 DEF Sending
  <2>2. QED
    BY <1>2, <2>1 DEF FoundInv
<1>4. \A k \in Loops : InHand(k)' = InHand(k)
  BY <1>1 DEF InHand
<1>5. ~Gathering'
  BY <1>1 DEF Gathering
<1>6. \A o \in Observations : ReachInv(o) => ReachInv(o)'
  BY <1>1, <1>2, <1>4, <1>5, SameHand, SameRecords
<1>7. QED
  BY <1>2, <1>3, <1>6 DEF PageInv

(* What was sent is recorded: it was the observation as it is now, or that *)
(* is still in the queue, if anything newer went before it.                *)
LEMMA PostPageInv ==
  ASSUME SyncInv, PageInv, NEW l \in Loops, PostOutcome(l) PROVE PageInv'
<1>1. /\ loop[l].at \in {"success", "failed", "pending"} /\ loop'[l].at = "send"
      /\ loop'[l].pending = loop[l].pending /\ loop'[l].fresh = loop[l].fresh
      /\ loop'[l].sending = {}
      /\ \A k \in Loops \ {l} : loop'[k] = loop[k]
  BY PostStep DEF SyncInv
<1>2. PICK v \in Version :
         /\ loop[l].sending = {v}
         /\ postStatus(v.obs, Outcome[loop[l].at], IF loop[l].at = "success" THEN v.at ELSE 0)
  <2>1. PICK v \in Version : loop[l].sending = {v}
    BY <1>1 DEF SyncInv, PhaseInv, Sending
  <2>2. QED
    BY <2>1, PostStep DEF SyncInv
<1>3. /\ v.obs \in Observations /\ v.at \in Nat /\ v.at # 0 /\ v.at <= modified[v.obs]
      /\ v \in InHand(l)
  <2>1. v \in InHand(l)
    BY <1>2 DEF InHand
  <2>2. QED
    BY <2>1 DEF SyncInv, VersionInv, Version, Time
<1>4. /\ IF loop[l].at = "success"
           THEN sync'[v.obs].status = "SUCCESS" /\ sync'[v.obs].modified = v.at
           ELSE sync'[v.obs].status \in {"FAILED", "PENDING"}
      /\ \A o \in Observations \ {v.obs} : sync'[o] = sync[o]
  <2>1. Outcome[loop[l].at] \in SyncStatus
    BY <1>1 DEF Outcome, SyncStatus
  <2>2. (IF loop[l].at = "success" THEN v.at ELSE 0) \in Time
    BY SftpAssumption DEF Version, Time
  <2>3. /\ sync'[v.obs].status = Outcome[loop[l].at]
        /\ sync'[v.obs].modified =
              IF (IF loop[l].at = "success" THEN v.at ELSE 0) = 0
              THEN sync[v.obs].modified ELSE IF loop[l].at = "success" THEN v.at ELSE 0
        /\ \A o \in Observations \ {v.obs} : sync'[o] = sync[o]
    BY <1>2, <1>3, <2>1, <2>2, PostStatusEffect DEF SyncInv
  <2>4. CASE loop[l].at = "success"
    BY <1>3, <2>3, <2>4 DEF Outcome
  <2>5. CASE loop[l].at # "success"
    BY <1>1, <2>3, <2>5 DEF Outcome
  <2>6. QED
    BY <2>3, <2>4, <2>5
<1>5. UNCHANGED <<modified, startTime, overlapped, aborted>>
  BY DEF PostOutcome, clients, control, bounds, history
<1>6. ~Gathering'
  BY <1>1 DEF Gathering
<1>7. ASSUME ~overlapped, ~aborted PROVE FoundInv' /\ \A o \in Observations : ReachInv(o)'
  <2>1. \A k \in Loops \ {l} : /\ loop[k].at = "off" /\ loop'[k].at = "off"
                               /\ InHand(k) = {} /\ InHand(k)' = {}
    BY <1>1, <1>7, OthersEmpty
  <2>2. FoundInv'
    BY <1>1, <2>1 DEF FoundInv
  <2>3. /\ InHand(l) = loop[l].pending \cup loop[l].fresh \cup {v}
        /\ InHand(l)' = loop[l].pending \cup loop[l].fresh
    BY <1>1, <1>2 DEF InHand
  <2>4. ASSUME NEW o \in Observations PROVE Beyond(o)' => Beyond(o)
    <3>1. Behind(o)' => Behind(o) \/ v.at > modified[o]
      <4>1. ASSUME NEW p \in Observations, isProcessed(p)', sync'[p].modified > modified'[o]
            PROVE  Behind(o) \/ v.at > modified[o]
        BY <1>4, <1>5, <4>1 DEF Behind, isProcessed
      <4>2. QED
        BY <4>1 DEF Behind
    <3>2. v.at > modified[o] => Beyond(o)
      BY <1>1, <1>3 DEF Beyond
    <3>3. ASSUME NEW k \in Loops, NEW w \in InHand(k)', w.at > modified'[o] PROVE Beyond(o)
      <4>1. k = l /\ w \in InHand(l)
        BY <2>1, <2>3, <3>3
      <4>2. QED
        BY <1>1, <1>5, <3>3, <4>1 DEF Beyond
    <3>4. QED
      BY <3>1, <3>2, <3>3 DEF Beyond
  <2>5. ASSUME NEW o \in Observations, o # v.obs PROVE ReachInv(o)'
    <3>1. ReachInv(o) /\ sync'[o] = sync[o]
      BY <1>4, <1>7, <2>5 DEF PageInv
    <3>2. /\ Settled(o)' <=> Settled(o)
          /\ Masked(o)' <=> Masked(o)
      BY <1>5, <3>1 DEF Settled, isProcessed, isSyncedAtLastModified, Masked
    <3>3. \A k \in Loops : \A w \in Version :
              w.obs = o => (w \in InHand(k)' <=> w \in InHand(k))
      BY <2>1, <2>3, <2>5
    <3>4. \A k \in Loops : InHand(k) \subseteq Version /\ InHand(k)' \subseteq InHand(k)
      BY <2>1, <2>3 DEF SyncInv, TypeOK, LoopState, InHand
    <3>5. Queued(o)' <=> Queued(o)
      <4>1. Queued(o) <=> \E k \in Loops : \E w \in InHand(k) : w.obs = o
        BY DEF Queued, InHand
      <4>2. Queued(o)' <=> \E k \in Loops : \E w \in InHand(k)' : w.obs = o
        BY DEF Queued, InHand
      <4>3. QED
        BY <3>3, <3>4, <4>1, <4>2
    <3>6. Current(o)' <=> Current(o)
      <4>1. Read(o)' = Read(o) /\ Read(o).obs = o /\ Read(o) \in Version
        BY <1>5, ReadIsVersion DEF Read, SyncInv
      <4>2. \A k \in Loops : Read(o)' \in InHand(k)' <=> Read(o) \in InHand(k)
        BY <3>3, <4>1
      <4>3. QED
        BY <4>2 DEF Current
    <3>7. QED
      BY <1>5, <1>6, <2>4, <3>1, <3>2, <3>5, <3>6 DEF ReachInv
  <2>6. ASSUME NEW o \in Observations, o = v.obs PROVE ReachInv(o)'
    <3> SUFFICES ASSUME modified[o] >= startTime, Beyond(o)'
                 PROVE  Current(o)' \/ (~Queued(o)' /\ (Settled(o)' \/ Masked(o)'))
      <4>1. Current(o)' => Queued(o)'
        <5>1. Read(o)'.obs = o
          BY DEF Read
        <5>2. QED
          BY <5>1 DEF Current, Queued, InHand
      <4>2. QED
        BY <1>5, <1>6, <4>1 DEF ReachInv
    <3>1. Current(o)
      <4>1. Queued(o)
        BY <1>2, <2>6 DEF Queued
      <4>2. QED
        BY <1>7, <2>4, <4>1 DEF PageInv, ReachInv
    <3>2. /\ Read(o) \in InHand(l)
          /\ Read(o)' = Read(o) /\ Read(o).at = modified[o] /\ Read(o).obs = o
          /\ Read(o) \in Version
      BY <1>5, <2>1, <3>1, ReadIsVersion DEF Current, Read, SyncInv
    <3>3. CASE Read(o) \in loop[l].pending \cup loop[l].fresh
      <4>1. Read(o)' \in InHand(l)'
        BY <2>3, <3>2, <3>3
      <4>2. QED
        BY <4>1 DEF Current
    <3>4. CASE Read(o) \notin loop[l].pending \cup loop[l].fresh
      <4>1. v.at = modified[o]
        BY <2>3, <3>2, <3>4
      <4>2. ~Queued(o)'
        <5>1. ASSUME Queued(o)' PROVE FALSE
          <6>1. PICK k \in Loops : \E w \in InHand(k)' : w.obs = o
            BY <5>1 DEF Queued, InHand
          <6>2. PICK w \in loop[l].pending \cup loop[l].fresh : w.obs = o
            BY <2>1, <2>3, <6>1
          <6>3. w \in Version /\ w.at \in Nat /\ modified[o] \in Nat
            BY <6>2 DEF SyncInv, TypeOK, LoopState, Version, Time
          <6>4. v.at <= w.at
            BY <1>2, <1>7, <2>6, <6>2 DEF SyncInv, OneLoopInv, QueueInv
          <6>5. w.at <= modified[o]
            BY <6>2 DEF SyncInv, VersionInv, InHand
          <6>6. w.at = Read(o).at /\ w.obs = Read(o).obs
            BY <3>2, <4>1, <6>2, <6>3, <6>4, <6>5
          <6>7. w = Read(o)
            BY <3>2, <6>3, <6>6 DEF Version
          <6>8. QED
            BY <3>4, <6>2, <6>7
        <5>2. QED
          BY <5>1
      <4>3. CASE loop[l].at = "success"
        <5>1. sync'[o].status = "SUCCESS" /\ sync'[o].modified >= modified'[o]
          BY <1>3, <1>4, <1>5, <2>6, <4>1, <4>3
        <5>2. Settled(o)'
          BY <5>1 DEF Settled, isProcessed, isSyncedAtLastModified
        <5>3. QED
          BY <4>2, <5>2
      <4>4. CASE loop[l].at # "success"
        BY <1>4, <2>6, <4>2, <4>4 DEF Masked
      <4>5. QED
        BY <4>3, <4>4
    <3>5. QED
      BY <3>3, <3>4
  <2>7. QED
    BY <2>2, <2>5, <2>6
<1>8. QED
  BY <1>5, <1>7 DEF PageInv

LEMMA NextPageInv ==
  ASSUME IsFiniteSet(Observations), Cardinality(Observations) <= PageSize
  PROVE  SyncInv /\ PageInv /\ [Next]_vars => PageInv'
<1> SUFFICES ASSUME SyncInv, PageInv, [Next]_vars PROVE PageInv'
  OBVIOUS
<1>1. CASE UNCHANGED vars
  BY <1>1 DEF vars, clients, control, bounds, history, PageInv, FoundInv, ReachInv, Beyond,
              Behind, InHand, Queued, Current, Read, Settled, Masked, Gathering, isProcessed,
              isSyncedAtLastModified
<1>2. ASSUME NEW l \in Loops, CycleStep(l) PROVE PageInv'
  BY <1>2, RestPageInv, SkipPageInv, FindPendingPageInv, FindModifiedPageInv, SendPageInv,
     PostPageInv DEF CycleStep
<1>3. ASSUME NEW l \in Loops, SendFails(l) PROVE PageInv'
  BY <1>3, SendPageInv
<1>4. QED
  BY <1>1, <1>2, <1>3, ClientPageInv, RequeuePageInv, RestPageInv, StopPageInv, RestartPageInv
     DEF Next

-----------------------------------------------------------------------------
(* While a page of the query holds all observations, a version written     *)
(* since the plugin started that was not sent is in a queue, shows as      *)
(* pending or failed, or is found by the next query, whatever was sent     *)
(* before it, unless loops overlapped or the database cut a cycle short    *)
(* (gatherObservationsToSync).                                             *)
THEOREM NothingSlipsCorrect ==
  ASSUME IsFiniteSet(Observations), Cardinality(Observations) <= PageSize
  PROVE  Spec => []NothingSlips
<1>1. SyncInv /\ PageInv => NothingSlips
  <2> SUFFICES ASSUME SyncInv, PageInv, NEW o \in Observations, modified[o] >= startTime,
                      ~Settled(o), ~aborted, ~overlapped, ~Queued(o), ~(modified[o] >= queryTime)
               PROVE  Masked(o)
    BY DEF NothingSlips, Masked
  <2>1. Beyond(o)
    BY QueryReach DEF SyncInv, Beyond
  <2>2. QED
    BY <2>1 DEF PageInv, ReachInv
<1>2. Init => SyncInv /\ PageInv
  BY InitSyncInv, InitPageInv
<1>3. SyncInv /\ PageInv /\ [Next]_vars => (SyncInv /\ PageInv)'
  BY NextSyncInv, NextPageInv
<1>4. QED
  BY <1>1, <1>2, <1>3, PTL DEF Spec
=============================================================================
