-------------------------- MODULE SearchIndex_proofs --------------------------
(***************************************************************************)
(* Theorems about SearchIndex, for every set of form entries and indexing  *)
(* requests, every batch size and any number of saves, failed jobs and     *)
(* crashes.                                                                *)
(***************************************************************************)
EXTENDS SearchIndex, TLAPS

(***************************************************************************)
(* The inductive invariant, in parts.                                      *)
(***************************************************************************)
(* The entry's row, if there is one, shows the observation as stored. *)
Fresh(o, e) == index[o][e] # 0 => e \in doc[o].entries /\ index[o][e] = doc[o].ver

(* A row of a batch shows it as well. *)
FreshRow(row) == row.entry \in doc[row.obs].entries /\ row.ver = doc[row.obs].ver

(* A claim is with the job that made it, or with whoever took it away. *)
ClaimInv == \A j \in Indexing : job[j].robbed \/ status = "running"

(* Only a job that works has read anything, and not before it cleared. *)
BatchInv == \A j \in Jobs : ~Working(j) \/ job[j].at = "clear" => job[j].batch = {}

(* Handlers are those of the saves there were. *)
Active(s) == handler[s].at \in {"delete", "insert"}

StartedInv ==
    \A s \in Saves : /\ s > saves => handler[s].at = "none"
                     /\ Active(s) => handler[s].obs \in Observations

(* A handler that is alone has its observation to itself, and has inserted *)
(* every entry it has not left.                                            *)
HandlerInv(s) ==
    Active(s) /\ handler[s].alone =>
        LET o == handler[s].obs IN
        /\ Indexing = {}
        /\ \A t \in Saves : Active(t) /\ handler[t].obs = o => t = s
        /\ doc[o].ver = s + 1
        /\ handler[s].left \subseteq doc[o].entries
        /\ handler[s].at = "insert" =>
              \A e \in Entries : IF e \in handler[s].left THEN index[o][e] = 0 ELSE Fresh(o, e)

(* A forced job that is alone has cleared the index of all that is stale.  *)
JobInv(j) ==
    Working(j) /\ job[j].alone =>
        /\ \A s \in Saves : ~Active(s)
        /\ \A k \in Indexing : k = j
        /\ Forced(j) /\ job[j].at # "clear" =>
              /\ \A o \in Observations, e \in Entries : Fresh(o, e)
              /\ \A row \in job[j].batch : FreshRow(row)

(* What is not unsettled is at one writer at most, and in every batch      *)
(* and every row as it is stored.                                          *)
QuietInv(o) ==
    o \notin unsettled =>
        /\ \A s \in Saves : Active(s) /\ handler[s].obs = o => handler[s].alone
        /\ (\A s \in Saves : Active(s) => handler[s].obs # o) =>
              \A e \in Entries : Fresh(o, e)
        /\ \A j \in Indexing : \A row \in job[j].batch : row.obs = o => FreshRow(row)

IndexInv ==
    /\ TypeOK
    /\ ClaimInv
    /\ OneIndexer
    /\ BatchInv
    /\ StartedInv
    /\ \A s \in Saves : HandlerInv(s)
    /\ \A j \in Jobs : JobInv(j)
    /\ \A o \in Observations : QuietInv(o)
-----------------------------------------------------------------------------
(***************************************************************************)
(* Types.                                                                  *)
(***************************************************************************)
LEMMA RestType ==
  /\ NoHandler \in HandlerState
  /\ DoneHandler \in HandlerState
  /\ \A at \in {"idle", "read", "done"} : NoJob(at) \in JobState
<1> USE SearchIndexAssumption
<1>1. NoHandler \in HandlerState
  BY DEF NoHandler, HandlerState
<1>2. DoneHandler \in HandlerState
  BY <1>1 DEF DoneHandler, HandlerState
<1>3. \A at \in {"idle", "read", "done"} : NoJob(at) \in JobState
  BY DEF NoJob, JobState
<1>4. QED
  BY <1>1, <1>2, <1>3

(* Setting a field of a handler, or of a job, leaves it of its type. *)
LEMMA HandlerFields ==
  ASSUME NEW h \in HandlerState,
         NEW at \in {"none", "delete", "insert", "done"}, NEW left \in SUBSET Entries
  PROVE  /\ [h EXCEPT !.at = at] \in HandlerState
         /\ [h EXCEPT !.left = left] \in HandlerState
         /\ [h EXCEPT !.alone = FALSE] \in HandlerState
         /\ [h EXCEPT !.at = at, !.left = left] \in HandlerState
<1>1. [h EXCEPT !.at = at] \in HandlerState
  BY DEF HandlerState
<1>2. \A g \in HandlerState : [g EXCEPT !.left = left] \in HandlerState
  BY DEF HandlerState
<1>3. [h EXCEPT !.alone = FALSE] \in HandlerState
  BY DEF HandlerState
<1>4. [[h EXCEPT !.at = at] EXCEPT !.left = left] \in HandlerState
  BY <1>1, <1>2
<1>5. QED
  BY <1>1, <1>2, <1>3, <1>4

JobPhase == {"idle", "read", "claim", "clear", "iterate", "flush", "done"}

LEMMA JobFields ==
  ASSUME NEW k \in JobState
  PROVE  /\ [k EXCEPT !.alone = FALSE] \in JobState
         /\ [k EXCEPT !.robbed = TRUE] \in JobState
         /\ \A at \in JobPhase : [k EXCEPT !.at = at] \in JobState
         /\ \A at \in JobPhase, alone \in BOOLEAN :
                [k EXCEPT !.at = at, !.alone = alone] \in JobState
         /\ \A batch \in SUBSET Row : [k EXCEPT !.batch = batch] \in JobState
         /\ \A next \in 1..(LastId + 1), batch \in SUBSET Row, at \in JobPhase :
                [k EXCEPT !.next = next, !.batch = batch, !.at = at] \in JobState
<1> USE DEF JobPhase
<1>1. \A g \in JobState, at \in JobPhase : [g EXCEPT !.at = at] \in JobState
  BY DEF JobState
<1>2. \A g \in JobState, batch \in SUBSET Row : [g EXCEPT !.batch = batch] \in JobState
  BY DEF JobState
<1>3. \A g \in JobState, alone \in BOOLEAN : [g EXCEPT !.alone = alone] \in JobState
  BY DEF JobState
<1>4. [k EXCEPT !.robbed = TRUE] \in JobState
  BY DEF JobState
<1>5. \A next \in 1..(LastId + 1) : [k EXCEPT !.next = next] \in JobState
  BY DEF JobState
<1>6. QED
  BY <1>1, <1>2, <1>3, <1>4, <1>5

LEMMA InitTypeOK == Init => TypeOK
<1> SUFFICES ASSUME Init PROVE TypeOK
  OBVIOUS
<1> USE SearchIndexAssumption, RestType DEF Init
<1>1. doc \in [Observations -> [ver : Versions, entries : SUBSET Entries]]
  BY DEF Versions
<1>2. index \in [Observations -> [Entries -> Versions]]
  BY DEF Versions
<1>3. job \in [Jobs -> JobState]
  OBVIOUS
<1>4. QED
  BY <1>1, <1>2, <1>3 DEF TypeOK

(* The jobs whose claim a job takes away. *)
LEMMA OthersType ==
  ASSUME TypeOK, NEW j \in Jobs, NEW new \in JobState
  PROVE  Others(j, new) \in [Jobs -> JobState]
  BY DEF TypeOK, Others, JobState

LEMMA RestartType ==
  ASSUME TypeOK, Restart
  PROVE  /\ handler' \in [Saves -> HandlerState] /\ job' \in [Jobs -> JobState]
         /\ unsettled' \in SUBSET Observations
<1> USE RestType DEF TypeOK, Restart
<1>1. handler' \in [Saves -> HandlerState]
  OBVIOUS
<1>2. job' \in [Jobs -> JobState]
  OBVIOUS
<1>3. QED
  BY <1>1, <1>2 DEF Handled

(* A handler that rejects leaves its rows, and its observation in doubt. *)
LEMMA CutEffect ==
  ASSUME TypeOK, NEW s \in Saves, CutShort(s), handler[s].at \in {"delete", "insert"}
  PROVE  /\ UNCHANGED <<doc, index, status, job, saves>>
         /\ handler' \in [Saves -> HandlerState] /\ handler'[s].at = "done"
         /\ \A t \in Saves \ {s} : handler'[t] = handler[t]
         /\ unsettled' = unsettled \cup {handler[s].obs}
         /\ unfound' = unfound \cup {handler[s].obs}
  BY RestType DEF CutShort, TypeOK, DoneHandler, NoHandler, stored

LEMMA CutTypeOK ==
  ASSUME TypeOK, NEW s \in Saves, handler[s].obs \in Observations,
         HandlerFails(s) \/ \E e \in Entries : HandlerThrows(s, e)
  PROVE  TypeOK'
<1>1. CutShort(s) /\ handler[s].at \in {"delete", "insert"}
  BY DEF HandlerFails, HandlerThrows
<1>2. mishaps' \in 0..MaxMishaps
  BY SearchIndexAssumption DEF HandlerFails, HandlerThrows, Mishap, TypeOK
<1>3. QED
  BY <1>1, <1>2, CutEffect DEF TypeOK

LEMMA HandlerTypeOK ==
  ASSUME TypeOK, NEW s \in Saves,
         HandlerDeletes(s) \/ \E e \in Entries : HandlerInserts(s, e)
  PROVE  TypeOK'
<1> USE SearchIndexAssumption DEF TypeOK, bounds
<1>1. CASE HandlerDeletes(s)
  <2>1. handler[s].obs \in 0..LastId /\ unsettled' \in SUBSET Observations
    BY <1>1 DEF HandlerDeletes, Deleted, Finished, HandlerState
  <2>2. handler' \in [Saves -> HandlerState]
    <3>1. \/ handler' = [handler EXCEPT ![s] = [handler[s] EXCEPT !.at = "insert"]]
          \/ handler' = [handler EXCEPT ![s] = DoneHandler]
      BY <1>1 DEF HandlerDeletes, Deleted
    <3>2. [handler[s] EXCEPT !.at = "insert"] \in HandlerState
      BY HandlerFields
    <3>3. QED
      BY <3>1, <3>2, RestType
  <2>3. index' \in [Observations -> [Entries -> Versions]]
    <3>1. [e \in Entries |-> 0] \in [Entries -> Versions]
      BY DEF Versions
    <3>2. QED
      BY <1>1, <3>1 DEF HandlerDeletes
  <2>4. QED
    BY <1>1, <2>1, <2>2, <2>3 DEF HandlerDeletes, Deleted
<1>2. ASSUME NEW e \in Entries, HandlerInserts(s, e) PROVE TypeOK'
  <2>1. unsettled' \in SUBSET Observations
    BY <1>2 DEF HandlerInserts, Finished
  <2>2. handler' \in [Saves -> HandlerState]
    <3>1. handler[s].left \ {e} \in SUBSET Entries
      BY DEF HandlerState
    <3>2. CASE handler[s].left \ {e} = {}
      <4>1. handler' = [handler EXCEPT ![s] = DoneHandler]
        BY <1>2, <3>2 DEF HandlerInserts
      <4>2. QED
        BY <4>1, RestType
    <3>3. CASE handler[s].left \ {e} # {}
      <4>1. handler' = [handler EXCEPT ![s] = [handler[s] EXCEPT !.left = handler[s].left \ {e}]]
        BY <1>2, <3>3 DEF HandlerInserts
      <4>2. QED
        BY <3>1, <4>1, HandlerFields
    <3>4. QED
      BY <3>2, <3>3
  <2>3. index' \in [Observations -> [Entries -> Versions]]
    <3>1. s + 1 \in Versions
      BY DEF Saves, Versions
    <3>2. QED
      BY <1>2, <3>1 DEF HandlerInserts
  <2>4. QED
    BY <1>2, <2>1, <2>2, <2>3 DEF HandlerInserts
<1>3. QED
  BY <1>1, <1>2

LEMMA JobTypeOK ==
  ASSUME TypeOK, NEW j \in Jobs, Request(j) \/ JobStep(j) \/ IndexingFails(j)
  PROVE  TypeOK'
<1> USE SearchIndexAssumption DEF TypeOK, bounds, history, JobGoes
<1>1. CASE Request(j)
  <2>1. [job[j] EXCEPT !.at = "claim", !.stale = (status = "running")] \in JobState
    BY DEF JobState
  <2> DEFINE new == [job[j] EXCEPT !.at = "claim", !.stale = (status = "running")]
  <2>2. job' = [job EXCEPT ![j] = new] /\ UNCHANGED <<stored, handler, bounds, history>>
    BY <1>1 DEF Request, stored
  <2> HIDE DEF new
  <2>3. new \in JobState
    BY <2>1 DEF new
  <2>4. QED
    BY <2>2, <2>3 DEF stored
<1>2. CASE ResetStale(j)
  <2>1. [job[j] EXCEPT !.stale = FALSE] \in JobState
    BY DEF JobState
  <2>2. QED
    BY <1>2, <2>1, OthersType DEF ResetStale
<1>3. CASE claimIndexing(j)
  <2>1. job' \in [Jobs -> JobState]
    <3> DEFINE alone == Handled = {} /\ Indexing = {}
    <3>2. job' = [k \in Jobs |->
              IF k = j THEN [job[j] EXCEPT !.at = IF Forced(j) THEN "clear" ELSE "iterate",
                                           !.alone = alone]
              ELSE IF Working(k) THEN [job[k] EXCEPT !.alone = FALSE] ELSE job[k]]
      BY <1>3 DEF claimIndexing, Start
    <3>3. [job[j] EXCEPT !.at = IF Forced(j) THEN "clear" ELSE "iterate", !.alone = alone]
              \in JobState
      <4>1. alone \in BOOLEAN /\ job[j] \in JobState
        OBVIOUS
      <4>2. (IF Forced(j) THEN "clear" ELSE "iterate") \in JobPhase
        BY DEF JobPhase
      <4> HIDE DEF alone
      <4>3. QED
        BY <4>1, <4>2, JobFields
    <3>4. \A k \in Jobs : [job[k] EXCEPT !.alone = FALSE] \in JobState
      BY JobFields
    <3> HIDE DEF alone
    <3>5. QED
      BY <3>2, <3>3, <3>4
  <2>2. handler' \in [Saves -> HandlerState]
    BY <1>3, HandlerFields DEF claimIndexing, Start
  <2>3. unsettled' \in SUBSET Observations /\ unfound' \in SUBSET Observations
    BY <1>3 DEF claimIndexing, Start, Handled
  <2>4. QED
    BY <1>3, <2>1, <2>2, <2>3 DEF claimIndexing, Start
<1>4. CASE SkipRunning(j)
  BY <1>4, RestType DEF SkipRunning
<1>5. CASE Clear(j)
  <2>1. job' \in [Jobs -> JobState]
    BY <1>5 DEF Clear, JobState
  <2>2. QED
    BY <1>5, <2>1 DEF Clear, Versions
<1>6. CASE ReadNext(j)
  <2>1. searchDocsForObservation(job[j].next) \in SUBSET Row
    BY <1>6 DEF ReadNext, searchDocsForObservation, Row, JobState, Observations
  <2>2. job[j].next + 1 \in 1..(LastId + 1)
    BY <1>6 DEF ReadNext, JobState
  <2>3. job' \in [Jobs -> JobState]
    <3>1. job[j].batch \in SUBSET Row
      BY DEF JobState
    <3>2. PICK at \in JobPhase :
            job' = [job EXCEPT ![j] = [job[j] EXCEPT !.next = job[j].next + 1,
                       !.batch = job[j].batch \cup searchDocsForObservation(job[j].next),
                       !.at = at]]
      BY <1>6 DEF ReadNext, JobPhase
    <3>3. QED
      BY <2>1, <2>2, <3>1, <3>2, JobFields
  <2>4. QED
    BY <1>6, <2>3 DEF ReadNext
<1>7. CASE Flushed(j)
  BY <1>7 DEF Flushed, JobState
<1>8. CASE Indexed(j)
  BY <1>8, RestType, OthersType DEF Indexed
<1>9. ASSUME NEW row \in job[j].batch, insertIgnoreDuplicates(j, row) PROVE TypeOK'
  <2>1. row \in Row
    BY DEF JobState
  <2>2. job' \in [Jobs -> JobState]
    BY <1>9 DEF insertIgnoreDuplicates, JobState
  <2>3. index' \in [Observations -> [Entries -> Versions]]
    BY <1>9, <2>1 DEF insertIgnoreDuplicates, Row
  <2>4. QED
    BY <1>9, <2>2, <2>3 DEF insertIgnoreDuplicates
<1>10. CASE IndexingFails(j)
  <2>1. mishaps' \in 0..MaxMishaps
    BY <1>10 DEF IndexingFails, Mishap
  <2>2. QED
    BY <1>10, <2>1, RestType, OthersType DEF IndexingFails
<1>11. QED
  BY <1>1, <1>2, <1>3, <1>4, <1>5, <1>6, <1>7, <1>8, <1>9, <1>10 DEF JobStep

LEMMA SaveTypeOK ==
  ASSUME TypeOK, NEW o \in Observations, NEW entries \in SUBSET Entries, Save(o, entries)
  PROVE  TypeOK'
<1> USE SearchIndexAssumption
<1>1. saves + 1 \in Saves /\ saves + 2 \in Versions /\ saves' \in 0..MaxSaves
  BY DEF TypeOK, Save, Saves, Versions
<1>2. doc' \in [Observations -> [ver : Versions, entries : SUBSET Entries]]
  BY <1>1 DEF TypeOK, Save
<1>3. handler' \in [Saves -> HandlerState]
  <2>1. [at |-> "delete", obs |-> o, left |-> entries,
         alone |-> HandlersOf(o) = {} /\ Indexing = {}] \in HandlerState
    BY DEF HandlerState, Observations
  <2>2. \A s \in Saves : [handler[s] EXCEPT !.alone = FALSE] \in HandlerState
    BY HandlerFields DEF TypeOK
  <2>3. QED
    BY <2>1, <2>2 DEF TypeOK, Save
<1>4. job' \in [Jobs -> JobState]
  BY DEF TypeOK, Save, JobState
<1>5. QED
  BY <1>1, <1>2, <1>3, <1>4 DEF TypeOK, Save
LEMMA NextTypeOK == TypeOK /\ StartedInv /\ [Next]_vars => TypeOK'
<1> SUFFICES ASSUME TypeOK, StartedInv, [Next]_vars PROVE TypeOK'
  OBVIOUS
<1> USE SearchIndexAssumption
<1>1. ASSUME NEW o \in Observations, NEW entries \in SUBSET Entries, Save(o, entries)
      PROVE  TypeOK'
  BY <1>1, SaveTypeOK
<1>2. CASE Crash
  <2>1. mishaps' \in 0..MaxMishaps
    BY <1>2 DEF Crash, Mishap, TypeOK
  <2>2. QED
    BY <1>2, <2>1, RestartType DEF Crash, Restart, stored, TypeOK
<1>3. CASE UNCHANGED vars
  BY <1>3 DEF TypeOK, vars, stored, bounds, history
<1>4. ASSUME NEW s \in Saves, HandlerFails(s) \/ \E e \in Entries : HandlerThrows(s, e)
      PROVE  TypeOK'
  <2>1. handler[s].obs \in Observations
    BY <1>4 DEF HandlerFails, HandlerThrows, StartedInv, Active
  <2>2. QED
    BY <1>4, <2>1, CutTypeOK
<1>5. \A o \in Edited : o \in Observations
  BY DEF Observations
<1>6. QED
  BY <1>1, <1>2, <1>3, <1>4, <1>5, HandlerTypeOK, JobTypeOK DEF Next, HandlerStep

-----------------------------------------------------------------------------
(***************************************************************************)
(* What each step of a handler changes.                                    *)
(***************************************************************************)
(* A handler works on its own rows, and settles its observation at its end.*)
LEMMA HandlerEffect ==
  ASSUME TypeOK, NEW s \in Saves,
         HandlerDeletes(s) \/ \E e \in Entries : HandlerInserts(s, e)
  PROVE  /\ UNCHANGED <<doc, status, job, saves>>
         /\ Active(s)
         /\ \A t \in Saves \ {s} : handler'[t] = handler[t]
         /\ handler'[s].at \in {"insert", "done"}
         /\ Active(s)' => /\ handler'[s].obs = handler[s].obs
                          /\ handler'[s].alone = handler[s].alone
         /\ \A o \in Observations \ {handler[s].obs} : index'[o] = index[o]
         /\ unsettled' = IF Active(s)' \/ ~handler[s].alone
                         THEN unsettled ELSE unsettled \ {handler[s].obs}
<1> USE DEF TypeOK, HandlerState, Active, bounds, Finished, DoneHandler, NoHandler
<1>1. CASE HandlerDeletes(s)
  BY <1>1 DEF HandlerDeletes, Deleted
<1>2. ASSUME NEW e \in Entries, HandlerInserts(s, e)
      PROVE  /\ Active(s)' => /\ handler'[s].obs = handler[s].obs
                              /\ handler'[s].alone = handler[s].alone
             /\ \A t \in Saves \ {s} : handler'[t] = handler[t]
             /\ handler'[s].at \in {"insert", "done"}
             /\ handler'[s].at = "insert" => unsettled' = unsettled
             /\ handler'[s].at = "done" => Finished(s)
  BY <1>2 DEF HandlerInserts
<1>3. ASSUME NEW e \in Entries, HandlerInserts(s, e)
      PROVE  /\ UNCHANGED <<doc, status, job, saves>>
             /\ handler[s].at = "insert"
             /\ \A o \in Observations \ {handler[s].obs} : index'[o] = index[o]
  BY <1>3 DEF HandlerInserts
<1>4. QED
  BY <1>1, <1>2, <1>3

LEMMA DeleteEffect ==
  ASSUME TypeOK, NEW s \in Saves, HandlerDeletes(s), handler[s].obs \in Observations
  PROVE  /\ handler[s].at = "delete"
         /\ \A e \in Entries : index'[handler[s].obs][e] = 0
         /\ handler'[s].left = handler[s].left
         /\ handler'[s].at = "done" => handler[s].left = {}
  BY DEF HandlerDeletes, Deleted, TypeOK, HandlerState, DoneHandler, NoHandler

LEMMA InsertEffect ==
  ASSUME TypeOK, NEW s \in Saves, NEW e \in Entries, HandlerInserts(s, e),
         handler[s].obs \in Observations
  PROVE  /\ handler[s].at = "insert"
         /\ e \in handler[s].left
         /\ index'[handler[s].obs][e] = s + 1
         /\ \A f \in Entries \ {e} : index'[handler[s].obs][f] = index[handler[s].obs][f]
         /\ handler'[s].left = handler[s].left \ {e}
         /\ handler'[s].at = "done" => handler[s].left = {e}
<1> USE DEF TypeOK, HandlerState, DoneHandler, NoHandler
<1>1. /\ handler[s].at = "insert"
      /\ e \in handler[s].left
      /\ index'[handler[s].obs][e] = s + 1
      /\ \A f \in Entries \ {e} : index'[handler[s].obs][f] = index[handler[s].obs][f]
  BY DEF HandlerInserts
<1>2. CASE handler[s].left \ {e} = {}
  BY <1>1, <1>2 DEF HandlerInserts
<1>3. CASE handler[s].left \ {e} # {}
  <2>1. handler' = [handler EXCEPT ![s].left = handler[s].left \ {e}]
    BY <1>3 DEF HandlerInserts
  <2>2. handler'[s].at = handler[s].at /\ handler'[s].left = handler[s].left \ {e}
    BY <2>1
  <2>3. QED
    BY <1>1, <2>2
<1>4. QED
  BY <1>1, <1>2, <1>3

(* The end of the process: nobody is at work, and who was is unsettled. *)
LEMMA RestartEffect ==
  ASSUME TypeOK, Restart
  PROVE  /\ UNCHANGED <<doc, index, status, saves>>
         /\ \A s \in Saves : /\ handler'[s].at \in {"none", "done"}
                             /\ handler'[s].at = "none" <=> handler[s].at = "none"
         /\ \A j \in Jobs : ~Working(j)' /\ (job'[j].batch = {} \/ job'[j] = job[j])
         /\ \A o \in Observations : o \notin unsettled' =>
                o \notin unsettled /\ \A s \in Saves : Active(s) => handler[s].obs # o
<1> USE DEF TypeOK, Restart, stored
<1>1. \A s \in Saves : /\ handler'[s].at \in {"none", "done"}
                       /\ handler'[s].at = "none" <=> handler[s].at = "none"
  BY DEF NoHandler, DoneHandler
<1>2. \A j \in Jobs : ~Working(j)' /\ (job'[j].batch = {} \/ job'[j] = job[j])
  BY DEF NoJob, Working
<1>3. \A o \in Observations : o \notin unsettled' =>
          o \notin unsettled /\ \A s \in Saves : Active(s) => handler[s].obs # o
  BY DEF Handled, HandlersOf, Active
<1>4. QED
  BY <1>1, <1>2, <1>3

(* A save begins a handler; whoever has the observation is not alone now. *)
LEMMA SaveEffect ==
  ASSUME TypeOK, NEW o \in Observations, NEW entries \in SUBSET Entries, Save(o, entries)
  PROVE  /\ saves' = saves + 1 /\ saves' \in Saves /\ UNCHANGED <<index, status>>
         /\ doc'[o].ver = saves' + 1 /\ doc'[o].entries = entries
         /\ \A p \in Observations \ {o} : doc'[p] = doc[p]
         /\ /\ handler'[saves'].at = "delete" /\ handler'[saves'].obs = o
            /\ handler'[saves'].left = entries
            /\ handler'[saves'].alone <=> HandlersOf(o) = {} /\ Indexing = {}
         /\ \A t \in Saves \ {saves'} :
                /\ handler'[t].at = handler[t].at /\ handler'[t].obs = handler[t].obs
                /\ handler'[t].left = handler[t].left
                /\ handler'[t].alone <=> handler[t].alone /\ ~(Active(t) /\ handler[t].obs = o)
         /\ \A j \in Jobs : /\ Working(j)' <=> Working(j)
                            /\ job'[j].at = job[j].at /\ job'[j].batch = job[j].batch
                            /\ job'[j].robbed <=> job[j].robbed
                            /\ Working(j) => ~job'[j].alone
         /\ \A p \in Observations \ {o} : p \in unsettled' <=> p \in unsettled
         /\ o \notin unsettled' => o \notin unsettled /\ HandlersOf(o) = {} /\ Indexing = {}
<1> USE SearchIndexAssumption DEF TypeOK, HandlerState, JobState
<1> DEFINE new == [at |-> "delete", obs |-> o, left |-> entries,
                   alone |-> HandlersOf(o) = {} /\ Indexing = {}]
<1>1. saves' = saves + 1 /\ saves' \in Saves /\ UNCHANGED <<index, status>>
  BY DEF Save, Saves
<1>2. /\ doc'[o].ver = saves' + 1 /\ doc'[o].entries = entries
      /\ \A p \in Observations \ {o} : doc'[p] = doc[p]
  BY DEF Save
<1>3. handler' = [s \in Saves |-> IF s = saves'  THEN new
                     ELSE IF s \in HandlersOf(o) THEN [handler[s] EXCEPT !.alone = FALSE]
                     ELSE handler[s]]
  BY <1>1 DEF Save
<1>4. handler'[saves'] = new
  BY <1>1, <1>3
<1>5. ASSUME NEW t \in Saves \ {saves'}
      PROVE  /\ handler'[t].at = handler[t].at /\ handler'[t].obs = handler[t].obs
             /\ handler'[t].left = handler[t].left
             /\ handler'[t].alone <=> handler[t].alone /\ ~(Active(t) /\ handler[t].obs = o)
  <2>1. CASE t \in HandlersOf(o)
    <3>1. handler'[t] = [handler[t] EXCEPT !.alone = FALSE]
      BY <1>3, <2>1
    <3>2. QED
      BY <2>1, <3>1 DEF HandlersOf, Active
  <2>2. CASE t \notin HandlersOf(o)
    BY <1>3, <2>2 DEF HandlersOf, Active
  <2>3. QED
    BY <2>1, <2>2
<1>6. ASSUME NEW j \in Jobs
      PROVE  /\ Working(j)' <=> Working(j)
             /\ job'[j].at = job[j].at /\ job'[j].batch = job[j].batch
             /\ job'[j].robbed <=> job[j].robbed
             /\ Working(j) => ~job'[j].alone
  BY DEF Save, Working
<1>7. /\ \A p \in Observations \ {o} : p \in unsettled' <=> p \in unsettled
      /\ o \notin unsettled' => o \notin unsettled /\ HandlersOf(o) = {} /\ Indexing = {}
  BY DEF Save
<1>8. /\ handler'[saves'].at = "delete" /\ handler'[saves'].obs = o
      /\ handler'[saves'].left = entries
      /\ handler'[saves'].alone <=> HandlersOf(o) = {} /\ Indexing = {}
  <2>1. /\ handler'[saves'].at = "delete" /\ handler'[saves'].obs = o
        /\ handler'[saves'].left = entries
    BY <1>4
  <2>2. handler'[saves'].alone = (HandlersOf(o) = {} /\ Indexing = {})
    BY <1>4
  <2>3. QED
    BY <2>1, <2>2
<1> HIDE DEF TypeOK, HandlerState, JobState, new
<1>9. QED
  BY <1>1, <1>2, <1>5, <1>6, <1>7, <1>8

-----------------------------------------------------------------------------
(***************************************************************************)
(* What each step of a job changes.                                        *)
(***************************************************************************)
(* A job that only moves on by itself. *)
LEMMA GoesEffect ==
  ASSUME TypeOK, NEW j \in Jobs,
         \/ Request(j) \/ SkipRunning(j) \/ Clear(j) \/ ReadNext(j) \/ Flushed(j)
         \/ \E row \in job[j].batch : insertIgnoreDuplicates(j, row)
  PROVE  /\ UNCHANGED <<doc, status, handler, saves, unsettled>>
         /\ \A k \in Jobs \ {j} : job'[k] = job[k]
         /\ Working(j)' => /\ Working(j)
                           /\ job'[j].alone <=> job[j].alone
                           /\ job'[j].robbed <=> job[j].robbed
<1> USE DEF TypeOK, JobState, JobGoes, Working, bounds
<1>1. CASE Request(j)
  BY <1>1 DEF Request
<1>2. CASE SkipRunning(j)
  BY <1>2 DEF SkipRunning, NoJob
<1>3. CASE Clear(j)
  BY <1>3 DEF Clear
<1>4. CASE ReadNext(j)
  <2>1. PICK at \in JobPhase :
          job' = [job EXCEPT ![j] = [job[j] EXCEPT !.next = job[j].next + 1,
                     !.batch = job[j].batch \cup searchDocsForObservation(job[j].next),
                     !.at = at]]
    BY <1>4 DEF ReadNext, JobPhase
  <2>2. QED
    BY <1>4, <2>1 DEF ReadNext
<1>5. CASE Flushed(j)
  BY <1>5 DEF Flushed
<1>6. ASSUME NEW row \in job[j].batch, insertIgnoreDuplicates(j, row)
      PROVE  /\ UNCHANGED <<doc, status, handler, saves, unsettled>>
             /\ \A k \in Jobs \ {j} : job'[k] = job[k]
             /\ Working(j)
             /\ job'[j].alone <=> job[j].alone
             /\ job'[j].robbed <=> job[j].robbed
  BY <1>6 DEF insertIgnoreDuplicates
<1>7. QED
  BY <1>1, <1>2, <1>3, <1>4, <1>5, <1>6

(* The rows and the batch, step by step. *)
LEMMA RowsEffect ==
  ASSUME TypeOK, BatchInv, NEW j \in Jobs,
         \/ Request(j) \/ SkipRunning(j) \/ Clear(j) \/ ReadNext(j) \/ Flushed(j)
         \/ \E row \in job[j].batch : insertIgnoreDuplicates(j, row)
  PROVE  /\ \A o \in Observations, e \in Entries :
                \/ index'[o][e] = index[o][e]
                \/ Working(j) /\ index'[o][e] = 0
                \/ Working(j) /\ \E row \in job[j].batch :
                       row.obs = o /\ row.entry = e /\ index'[o][e] = row.ver
         /\ \A row \in job'[j].batch :
                row \in job[j].batch \/ (row.obs \in Observations /\ FreshRow(row))
         /\ ~Working(j)' \/ job'[j].at = "clear" => job'[j].batch = {}
         /\ Working(j)' /\ job'[j].at # "clear" =>
                job[j].at # "clear" \/ \A o \in Observations, e \in Entries : index'[o][e] = 0
<1> USE DEF TypeOK, JobState, JobGoes, Working
<1>1. CASE Request(j)
  BY <1>1 DEF Request, BatchInv
<1>2. CASE SkipRunning(j)
  BY <1>2 DEF SkipRunning, NoJob
<1>3. CASE Clear(j)
  <2>1. Working(j) /\ \A o \in Observations, e \in Entries : index'[o][e] = 0
    BY <1>3 DEF Clear
  <2>2. job'[j].at = "iterate" /\ job'[j].batch = job[j].batch
    BY <1>3 DEF Clear
  <2>3. QED
    BY <2>1, <2>2
<1>4. CASE ReadNext(j)
  <2>1. PICK at \in {"flush", "iterate"} :
          job' = [job EXCEPT ![j] = [job[j] EXCEPT !.next = job[j].next + 1,
                     !.batch = job[j].batch \cup searchDocsForObservation(job[j].next),
                     !.at = at]]
    BY <1>4 DEF ReadNext
  <2>2. /\ job[j].next \in Observations
        /\ \A row \in searchDocsForObservation(job[j].next) :
              row.obs \in Observations /\ FreshRow(row)
    BY <1>4 DEF ReadNext, searchDocsForObservation, FreshRow, Observations
  <2>3. job'[j].batch = job[j].batch \cup searchDocsForObservation(job[j].next)
        /\ job'[j].at \in {"flush", "iterate"}
    BY <2>1
  <2>4. job[j].at = "iterate" /\ index' = index
    BY <1>4 DEF ReadNext
  <2> HIDE DEF TypeOK, JobState, JobGoes
  <2>5. QED
    BY <2>2, <2>3, <2>4
<1>5. CASE Flushed(j)
  BY <1>5 DEF Flushed
<1>6. ASSUME NEW row \in job[j].batch, insertIgnoreDuplicates(j, row)
      PROVE  /\ \A o \in Observations, e \in Entries :
                    \/ index'[o][e] = index[o][e]
                    \/ row.obs = o /\ row.entry = e /\ index'[o][e] = row.ver
             /\ job'[j].batch \subseteq job[j].batch
             /\ job'[j].at = "flush" /\ job[j].at = "flush"
  <2>1. row.obs \in Observations /\ row.entry \in Entries
    BY DEF Row
  <2>2. \A o \in Observations, e \in Entries :
            \/ index'[o][e] = index[o][e]
            \/ row.obs = o /\ row.entry = e /\ index'[o][e] = row.ver
    <3>1. index' = [index EXCEPT ![row.obs] = [index[row.obs] EXCEPT ![row.entry] =
                       IF index[row.obs][row.entry] = 0 THEN row.ver
                       ELSE index[row.obs][row.entry]]]
      BY <1>6 DEF insertIgnoreDuplicates
    <3>2. QED
      BY <2>1, <3>1
  <2>3. job'[j].batch \subseteq job[j].batch /\ job'[j].at = "flush" /\ job[j].at = "flush"
    BY <1>6 DEF insertIgnoreDuplicates
  <2>4. QED
    BY <2>2, <2>3
<1>7. CASE \E row \in job[j].batch : insertIgnoreDuplicates(j, row)
  <2>1. PICK row \in job[j].batch : insertIgnoreDuplicates(j, row)
    BY <1>7
  <2> HIDE DEF TypeOK, JobState, JobGoes
  <2>2. QED
    BY <1>6, <2>1
<1>8. QED
  BY <1>1, <1>2, <1>3, <1>4, <1>5, <1>7

(* A job that takes every claim away: it ended, failed or reset the event. *)
LEMMA OthersEffect ==
  ASSUME TypeOK, NEW j \in Jobs, NEW new \in JobState, job' = Others(j, new),
         new.at \in {"claim", "done"}
  PROVE  /\ job'[j] = new /\ ~Working(j)'
         /\ \A k \in Jobs \ {j} :
               /\ Working(k)' <=> Working(k)
               /\ job'[k].at = job[k].at /\ job'[k].batch = job[k].batch
               /\ job'[k].alone <=> job[k].alone
               /\ Working(k) => job'[k].robbed
<1>1. job'[j] = new
  BY DEF Others
<1>2. ASSUME NEW k \in Jobs \ {j}
      PROVE  /\ job'[k].at = job[k].at /\ job'[k].batch = job[k].batch
             /\ job'[k].alone <=> job[k].alone
             /\ Working(k) => job'[k].robbed
  BY DEF Others, TypeOK, JobState
<1>3. QED
  BY <1>1, <1>2 DEF Working

(* A job starts: it has the index to itself only when nobody is at work. *)
LEMMA StartEffect ==
  ASSUME TypeOK, NEW j \in Jobs, Start(j)
  PROVE  /\ UNCHANGED <<doc, index, saves>> /\ status' = "running"
         /\ ~Working(j) /\ Working(j)'
         /\ job'[j].at = IF Forced(j) THEN "clear" ELSE "iterate"
         /\ job'[j].batch = job[j].batch
         /\ job'[j].alone <=> Handled = {} /\ Indexing = {}
         /\ \A k \in Jobs \ {j} :
               /\ Working(k)' <=> Working(k)
               /\ job'[k].at = job[k].at /\ job'[k].batch = job[k].batch
               /\ job'[k].robbed <=> job[k].robbed
               /\ Working(k) => ~job'[k].alone
         /\ \A s \in Saves : /\ handler'[s].at = handler[s].at
                             /\ handler'[s].obs = handler[s].obs
                             /\ Active(s) => ~handler'[s].alone
         /\ \A o \in Observations : o \notin unsettled' =>
                o \notin unsettled /\ Indexing = {} /\ o \notin Handled
<1> USE DEF Start, TypeOK, JobState
<1> DEFINE alone == Handled = {} /\ Indexing = {}
<1>1. PICK at \in JobPhase :
        /\ at = IF Forced(j) THEN "clear" ELSE "iterate"
        /\ job'[j] = [job[j] EXCEPT !.at = at, !.alone = alone]
  BY DEF JobPhase
<1>2. job'[j].at = at /\ job'[j].batch = job[j].batch /\ job'[j].alone = alone
  <2>1. alone \in BOOLEAN
    OBVIOUS
  <2> HIDE DEF alone
  <2>2. QED
    BY <1>1, <2>1
<1>3. ASSUME NEW k \in Jobs \ {j}
      PROVE  /\ job'[k].at = job[k].at /\ job'[k].batch = job[k].batch
             /\ job'[k].robbed <=> job[k].robbed
             /\ Working(k) => ~job'[k].alone
  OBVIOUS
<1>4. \A s \in Saves : /\ handler'[s].at = handler[s].at
                       /\ handler'[s].obs = handler[s].obs
                       /\ Active(s) => ~handler'[s].alone
  BY DEF HandlerState, Active
<1>5. \A o \in Observations : o \notin unsettled' =>
          o \notin unsettled /\ Indexing = {} /\ o \notin Handled
  OBVIOUS
<1>6. /\ UNCHANGED <<doc, index, saves>> /\ status' = "running"
      /\ ~Working(j)
  BY DEF Working, bounds
<1>7. Working(j)' /\ \A k \in Jobs \ {j} : Working(k)' <=> Working(k)
  BY <1>1, <1>2, <1>3 DEF Working
<1> HIDE DEF Start, TypeOK, JobState
<1>8. QED
  BY <1>1, <1>2, <1>3, <1>4, <1>5, <1>6, <1>7

-----------------------------------------------------------------------------
(***************************************************************************)
(* Every step preserves the invariant.                                     *)
(***************************************************************************)
LEMMA SaveIndexInv ==
  ASSUME IndexInv, NEW o \in Observations, NEW entries \in SUBSET Entries, Save(o, entries)
  PROVE  IndexInv'
<1>1. TypeOK /\ TypeOK'
  BY SaveTypeOK DEF IndexInv
<1>2. /\ saves' = saves + 1 /\ saves' \in Saves /\ UNCHANGED <<index, status>>
      /\ doc'[o].ver = saves' + 1 /\ doc'[o].entries = entries
      /\ \A p \in Observations \ {o} : doc'[p] = doc[p]
      /\ /\ handler'[saves'].at = "delete" /\ handler'[saves'].obs = o
         /\ handler'[saves'].left = entries
         /\ handler'[saves'].alone <=> HandlersOf(o) = {} /\ Indexing = {}
      /\ \A t \in Saves \ {saves'} :
             /\ handler'[t].at = handler[t].at /\ handler'[t].obs = handler[t].obs
             /\ handler'[t].left = handler[t].left
             /\ handler'[t].alone <=> handler[t].alone /\ ~(Active(t) /\ handler[t].obs = o)
      /\ \A j \in Jobs : /\ Working(j)' <=> Working(j)
                         /\ job'[j].at = job[j].at /\ job'[j].batch = job[j].batch
                         /\ job'[j].robbed <=> job[j].robbed
                         /\ Working(j) => ~job'[j].alone
      /\ \A p \in Observations \ {o} : p \in unsettled' <=> p \in unsettled
      /\ o \notin unsettled' => o \notin unsettled /\ HandlersOf(o) = {} /\ Indexing = {}
  BY <1>1, SaveEffect
<1>3. Indexing' = Indexing
  BY <1>2 DEF Indexing
<1>4. \A t \in Saves : Active(t)' <=> t = saves' \/ Active(t)
  BY <1>2 DEF Active
<1>5. ClaimInv' /\ OneIndexer'
  BY <1>2, <1>3 DEF IndexInv, ClaimInv, OneIndexer, Indexing
<1>6. BatchInv'
  BY <1>2 DEF IndexInv, BatchInv
<1>7. StartedInv'
  BY <1>1, <1>2, <1>4 DEF IndexInv, StartedInv, TypeOK, Saves
<1>8. ASSUME NEW s \in Saves PROVE HandlerInv(s)'
  <2>1. CASE s = saves'
    <3>1. ASSUME handler'[s].alone, NEW t \in Saves, Active(t)', handler'[t].obs = o
          PROVE  t = s
      BY <1>2, <1>4, <2>1, <3>1 DEF HandlersOf, Active
    <3>2. QED
      BY <1>2, <1>3, <2>1, <3>1 DEF HandlerInv
  <2>2. CASE s # saves' /\ Active(s)' /\ handler'[s].alone
    <3>1. /\ Active(s) /\ handler[s].alone /\ handler[s].obs # o
          /\ handler[s].obs \in Observations
      BY <1>2, <1>4, <2>2 DEF IndexInv, StartedInv
    <3>2. /\ Indexing = {}
          /\ \A t \in Saves : Active(t) /\ handler[t].obs = handler[s].obs => t = s
          /\ doc[handler[s].obs].ver = s + 1
          /\ handler[s].left \subseteq doc[handler[s].obs].entries
          /\ handler[s].at = "insert" => \A e \in Entries :
                IF e \in handler[s].left THEN index[handler[s].obs][e] = 0
                                         ELSE Fresh(handler[s].obs, e)
      BY <3>1 DEF IndexInv, HandlerInv
    <3>3. /\ handler'[s].at = handler[s].at /\ handler'[s].obs = handler[s].obs
          /\ handler'[s].left = handler[s].left /\ doc'[handler[s].obs] = doc[handler[s].obs]
      BY <1>2, <2>2, <3>1
    <3>4. \A t \in Saves : Active(t)' /\ handler'[t].obs = handler'[s].obs => t = s
      BY <1>2, <1>4, <3>1, <3>2, <3>3
    <3>5. \A e \in Entries : Fresh(handler[s].obs, e) => Fresh(handler[s].obs, e)'
      BY <1>2, <3>3 DEF Fresh
    <3>6. QED
      BY <1>2, <1>3, <3>2, <3>3, <3>4, <3>5 DEF HandlerInv, Fresh
  <2>3. QED
    BY <2>1, <2>2 DEF HandlerInv
<1>9. \A j \in Jobs : JobInv(j)'
  BY <1>2 DEF JobInv
<1>10. ASSUME NEW p \in Observations PROVE QuietInv(p)'
  <2>1. CASE p = o
    BY <1>2, <1>3, <1>4, <2>1 DEF QuietInv, HandlersOf, Active
  <2>2. CASE p # o
    <3>1. \A s \in Saves : Active(s)' /\ handler'[s].obs = p =>
              /\ Active(s) /\ handler[s].obs = p
              /\ handler[s].alone <=> handler'[s].alone
      BY <1>2, <1>4, <2>2
    <3>2. \A s \in Saves : Active(s) /\ handler[s].obs = p =>
              Active(s)' /\ handler'[s].obs = p
      <4>1. \A s \in Saves : Active(s) => s # saves'
        BY <1>1, <1>2 DEF IndexInv, StartedInv, Active, TypeOK, Saves
      <4>2. QED
        BY <1>2, <1>4, <4>1
    <3>3. /\ \A e \in Entries : Fresh(p, e) <=> Fresh(p, e)'
          /\ \A row : row.obs = p => (FreshRow(row) <=> FreshRow(row)')
      BY <1>2, <2>2 DEF Fresh, FreshRow
    <3>4. \A j \in Indexing' : j \in Indexing /\ job'[j].batch = job[j].batch
      BY <1>2, <1>3 DEF Indexing
    <3>5. QED
      BY <1>2, <2>2, <3>1, <3>2, <3>3, <3>4 DEF IndexInv, QuietInv
  <2>3. QED
    BY <2>1, <2>2
<1>11. QED
  BY <1>1, <1>5, <1>6, <1>7, <1>8, <1>9, <1>10 DEF IndexInv

(* A handler that was alone to its end leaves the rows as stored. *)
LEMMA HandlerSettles ==
  ASSUME IndexInv, NEW s \in Saves, NEW o \in Observations, o = handler[s].obs,
         HandlerDeletes(s) \/ \E e \in Entries : HandlerInserts(s, e),
         handler[s].alone
  PROVE  /\ handler'[s].left \subseteq doc[o].entries
         /\ \A e \in Entries : Fresh(o, e)' \/ (Active(s)' /\ e \in handler'[s].left)
         /\ \A e \in handler'[s].left : index'[o][e] = 0
<1>1. TypeOK /\ Active(s) /\ UNCHANGED doc /\ handler'[s].at \in {"insert", "done"}
  BY HandlerEffect DEF IndexInv
<1>3. /\ doc[o].ver = s + 1
      /\ handler[s].left \subseteq doc[o].entries
      /\ handler[s].at = "insert" =>
            \A e \in Entries : IF e \in handler[s].left THEN index[o][e] = 0 ELSE Fresh(o, e)
  BY <1>1 DEF IndexInv, HandlerInv
<1>4. CASE HandlerDeletes(s)
  BY <1>1, <1>3, <1>4, DeleteEffect DEF Fresh, TypeOK, HandlerState
<1>5. ASSUME NEW f \in Entries, HandlerInserts(s, f)
      PROVE  /\ handler'[s].left \subseteq doc[o].entries
             /\ \A e \in Entries : Fresh(o, e)' \/ (Active(s)' /\ e \in handler'[s].left)
             /\ \A e \in handler'[s].left : index'[o][e] = 0
  <2>1. /\ handler[s].at = "insert"
        /\ f \in handler[s].left
        /\ index'[o][f] = s + 1
        /\ \A e \in Entries \ {f} : index'[o][e] = index[o][e]
        /\ handler'[s].left = handler[s].left \ {f}
        /\ handler'[s].at = "done" => handler[s].left = {f}
    BY <1>1, <1>5, InsertEffect
  <2>2. Fresh(o, f)'
    BY <1>1, <1>3, <2>1 DEF Fresh
  <2>3. ASSUME NEW e \in Entries \ {f} PROVE Fresh(o, e)' \/ (Active(s)' /\ e \in handler'[s].left)
    BY <1>1, <1>3, <2>1 DEF Fresh, Active
  <2>4. \A e \in handler'[s].left : index'[o][e] = 0
    BY <1>1, <1>3, <2>1 DEF TypeOK, HandlerState
  <2>5. QED
    BY <1>3, <2>1, <2>2, <2>3, <2>4
<1>6. QED
  BY <1>4, <1>5

LEMMA HandlerIndexInv ==
  ASSUME IndexInv, NEW s \in Saves,
         HandlerDeletes(s) \/ \E e \in Entries : HandlerInserts(s, e)
  PROVE  IndexInv'
<1>1. TypeOK /\ TypeOK'
  BY HandlerTypeOK DEF IndexInv
<1>2. /\ UNCHANGED <<doc, status, job, saves>>
      /\ Active(s)
      /\ \A t \in Saves \ {s} : handler'[t] = handler[t]
      /\ handler'[s].at \in {"insert", "done"}
      /\ Active(s)' => /\ handler'[s].obs = handler[s].obs
                       /\ handler'[s].alone = handler[s].alone
      /\ \A o \in Observations \ {handler[s].obs} : index'[o] = index[o]
      /\ unsettled' = IF Active(s)' \/ ~handler[s].alone
                      THEN unsettled ELSE unsettled \ {handler[s].obs}
  BY <1>1, HandlerEffect
<1>3. handler[s].obs \in Observations
  BY <1>2 DEF IndexInv, StartedInv
<1>4. \A j \in Jobs : Working(j)' <=> Working(j)
  BY <1>2 DEF Working
<1>5. Indexing' = Indexing
  BY <1>4 DEF Indexing
<1>6. \A t \in Saves : Active(t)' => Active(t)
  BY <1>2 DEF Active
<1>7. ClaimInv' /\ OneIndexer' /\ BatchInv' /\ StartedInv'
  BY <1>2, <1>4, <1>5, <1>6
     DEF IndexInv, ClaimInv, OneIndexer, BatchInv, StartedInv, Active
<1>8. ASSUME NEW t \in Saves, Active(t)', handler'[t].alone PROVE HandlerInv(t)'
  <2> DEFINE o == handler[t].obs
  <2>1. Active(t) /\ handler[t].alone /\ handler'[t].obs = o /\ o \in Observations
    BY <1>2, <1>6, <1>8 DEF IndexInv, StartedInv
  <2>2. /\ Indexing = {}
        /\ \A u \in Saves : Active(u) /\ handler[u].obs = o => u = t
        /\ doc[o].ver = t + 1
        /\ handler[t].left \subseteq doc[o].entries
        /\ handler[t].at = "insert" =>
              \A e \in Entries : IF e \in handler[t].left THEN index[o][e] = 0 ELSE Fresh(o, e)
    BY <2>1 DEF IndexInv, HandlerInv
  <2>3. \A u \in Saves : Active(u)' /\ handler'[u].obs = o => u = t
    BY <1>2, <1>6, <2>2
  <2>4. CASE t = s
    BY <1>2, <1>5, <2>1, <2>2, <2>3, <2>4, HandlerSettles DEF HandlerInv
  <2>5. CASE t # s
    <3>1. o # handler[s].obs
      BY <1>2, <2>2, <2>5
    <3>2. index'[o] = index[o] /\ handler'[t] = handler[t] /\ doc' = doc
      BY <1>2, <2>1, <2>5, <3>1
    <3>3. \A e \in Entries : Fresh(o, e) => Fresh(o, e)'
      BY <3>2 DEF Fresh
    <3>4. QED
      BY <1>5, <2>1, <2>2, <2>3, <3>2, <3>3 DEF HandlerInv, Fresh
  <2>6. QED
    BY <2>4, <2>5
<1>9. ASSUME NEW j \in Jobs PROVE JobInv(j)'
  BY <1>2, <1>4 DEF IndexInv, JobInv
<1>10. ASSUME NEW o \in Observations, o \notin unsettled' PROVE QuietInv(o)'
  <2>1. CASE o = handler[s].obs
    <3>1. handler[s].alone
      BY <1>2, <1>10, <2>1 DEF IndexInv, QuietInv
    <3>2. /\ Indexing = {}
          /\ \A u \in Saves : Active(u) /\ handler[u].obs = o => u = s
      BY <1>2, <2>1, <3>1 DEF IndexInv, HandlerInv
    <3>3. ~Active(s)' => \A e \in Entries : Fresh(o, e)'
      BY <1>2, <2>1, <3>1, HandlerSettles DEF Fresh
    <3>4. \A u \in Saves : Active(u)' /\ handler'[u].obs = o => u = s
      BY <1>2, <1>6, <3>2
    <3>5. QED
      BY <1>2, <1>5, <2>1, <3>1, <3>2, <3>3, <3>4 DEF QuietInv
  <2>2. CASE o # handler[s].obs
    <3>1. o \notin unsettled /\ index'[o] = index[o] /\ doc' = doc
      BY <1>2, <1>10, <2>2
    <3>2. \A u \in Saves : Active(u) /\ handler[u].obs = o <=> Active(u)' /\ handler'[u].obs = o
      BY <1>2, <2>2 DEF Active
    <3>3. /\ \A e \in Entries : Fresh(o, e) <=> Fresh(o, e)'
          /\ \A row : FreshRow(row) <=> FreshRow(row)'
      BY <3>1 DEF Fresh, FreshRow
    <3>4. \A u \in Saves : Active(u)' => handler'[u].alone = handler[u].alone
      BY <1>2
    <3>5. QED
      BY <1>2, <1>5, <3>1, <3>2, <3>3, <3>4 DEF IndexInv, QuietInv
  <2>3. QED
    BY <2>1, <2>2
<1>11. QED
  BY <1>1, <1>7, <1>8, <1>9, <1>10 DEF IndexInv, HandlerInv, QuietInv

(* A handler that rejects leaves nothing but its own observation in doubt. *)
LEMMA CutIndexInv ==
  ASSUME IndexInv, NEW s \in Saves,
         HandlerFails(s) \/ \E e \in Entries : HandlerThrows(s, e)
  PROVE  IndexInv'
<1>1. CutShort(s) /\ handler[s].at \in {"delete", "insert"} /\ TypeOK
  BY DEF HandlerFails, HandlerThrows, IndexInv
<1>2. handler[s].obs \in Observations
  BY <1>1 DEF IndexInv, StartedInv, Active
<1>3. TypeOK'
  BY <1>1, <1>2, CutTypeOK
<1>4. /\ UNCHANGED <<doc, index, status, job, saves>>
      /\ handler'[s].at = "done" /\ \A t \in Saves \ {s} : handler'[t] = handler[t]
      /\ unsettled' = unsettled \cup {handler[s].obs}
  BY <1>1, CutEffect
<1>5. /\ \A t \in Saves : Active(t)' => t # s /\ Active(t) /\ handler'[t] = handler[t]
      /\ \A t \in Saves : Active(t) /\ t # s => Active(t)'
  BY <1>4 DEF Active
<1>6. \A j \in Jobs : Working(j)' <=> Working(j)
  BY <1>4 DEF Working
<1>7. Indexing' = Indexing
  BY <1>6 DEF Indexing
<1>8. /\ \A o \in Observations, e \in Entries : Fresh(o, e) <=> Fresh(o, e)'
      /\ \A row : FreshRow(row) <=> FreshRow(row)'
  BY <1>4 DEF Fresh, FreshRow
<1>9. ClaimInv' /\ OneIndexer' /\ BatchInv'
  BY <1>4, <1>6, <1>7 DEF IndexInv, ClaimInv, OneIndexer, BatchInv
<1>10. StartedInv'
  BY <1>1, <1>4, <1>5 DEF IndexInv, StartedInv
<1>11. ASSUME NEW t \in Saves, Active(t)', handler'[t].alone PROVE HandlerInv(t)'
  <2>1. t # s /\ Active(t) /\ handler'[t] = handler[t] /\ handler[t].obs \in Observations
    BY <1>5, <1>11 DEF IndexInv, StartedInv
  <2>2. HandlerInv(t)
    BY DEF IndexInv
  <2>3. QED
    BY <1>4, <1>5, <1>7, <1>8, <1>11, <2>1, <2>2 DEF HandlerInv
<1>12. \A j \in Jobs : JobInv(j)'
  BY <1>4, <1>5, <1>6, <1>7, <1>8 DEF IndexInv, JobInv
<1>13. ASSUME NEW o \in Observations, o \notin unsettled' PROVE QuietInv(o)'
  <2>1. o \notin unsettled /\ o # handler[s].obs
    BY <1>4, <1>13
  <2>2. \A t \in Saves : Active(t) /\ handler[t].obs = o => Active(t)' /\ handler'[t] = handler[t]
    BY <1>4, <1>5, <2>1
  <2>3. QED
    BY <1>4, <1>5, <1>7, <1>8, <2>1, <2>2 DEF IndexInv, QuietInv
<1>14. QED
  BY <1>3, <1>9, <1>10, <1>11, <1>12, <1>13 DEF IndexInv, HandlerInv, QuietInv

LEMMA RestartIndexInv ==
  ASSUME IndexInv, TypeOK', Restart PROVE IndexInv'
<1>1. /\ UNCHANGED <<doc, index, status, saves>>
      /\ \A s \in Saves : /\ handler'[s].at \in {"none", "done"}
                          /\ handler'[s].at = "none" <=> handler[s].at = "none"
      /\ \A j \in Jobs : ~Working(j)' /\ (job'[j].batch = {} \/ job'[j] = job[j])
      /\ \A o \in Observations : o \notin unsettled' =>
             o \notin unsettled /\ \A s \in Saves : Active(s) => handler[s].obs # o
  BY RestartEffect DEF IndexInv
<1>2. Indexing' = {} /\ \A s \in Saves : ~Active(s)'
  BY <1>1 DEF Indexing, Active
<1>3. ClaimInv' /\ OneIndexer' /\ StartedInv'
  BY <1>1, <1>2 DEF IndexInv, ClaimInv, OneIndexer, StartedInv
<1>4. BatchInv'
  BY <1>1 DEF IndexInv, BatchInv, Working
<1>5. \A o \in Observations : QuietInv(o)'
  BY <1>1, <1>2 DEF IndexInv, QuietInv, Fresh
<1>6. QED
  BY <1>1, <1>2, <1>3, <1>4, <1>5 DEF IndexInv, HandlerInv, JobInv

LEMMA GoesIndexInv ==
  ASSUME IndexInv, NEW j \in Jobs,
         \/ Request(j) \/ SkipRunning(j) \/ Clear(j) \/ ReadNext(j) \/ Flushed(j)
         \/ \E row \in job[j].batch : insertIgnoreDuplicates(j, row)
  PROVE  IndexInv'
<1>1. TypeOK /\ BatchInv /\ TypeOK'
  BY JobTypeOK DEF IndexInv, JobStep
<1>2. /\ UNCHANGED <<doc, status, handler, saves, unsettled>>
      /\ \A k \in Jobs \ {j} : job'[k] = job[k]
      /\ Working(j)' => /\ Working(j)
                        /\ job'[j].alone <=> job[j].alone
                        /\ job'[j].robbed <=> job[j].robbed
  BY <1>1, GoesEffect
<1>3. /\ \A o \in Observations, e \in Entries :
             \/ index'[o][e] = index[o][e]
             \/ Working(j) /\ index'[o][e] = 0
             \/ Working(j) /\ \E row \in job[j].batch :
                    row.obs = o /\ row.entry = e /\ index'[o][e] = row.ver
      /\ \A row \in job'[j].batch :
             row \in job[j].batch \/ (row.obs \in Observations /\ FreshRow(row))
      /\ ~Working(j)' \/ job'[j].at = "clear" => job'[j].batch = {}
      /\ Working(j)' /\ job'[j].at # "clear" =>
             job[j].at # "clear" \/ \A o \in Observations, e \in Entries : index'[o][e] = 0
  BY <1>1, RowsEffect
<1>4. \A k \in Jobs : Working(k)' => Working(k)
  BY <1>2 DEF Working
<1>5. Indexing' \subseteq Indexing /\ \A s \in Saves : Active(s)' <=> Active(s)
  BY <1>2, <1>4 DEF Indexing, Active
<1>6. ClaimInv' /\ OneIndexer'
  BY <1>2, <1>5 DEF IndexInv, ClaimInv, OneIndexer, Indexing
<1>7. BatchInv'
  BY <1>2, <1>3 DEF IndexInv, BatchInv, Working
<1>8. StartedInv'
  BY <1>2, <1>5 DEF IndexInv, StartedInv
<1>9. \A row : FreshRow(row) <=> FreshRow(row)'
  BY <1>2 DEF FreshRow
<1>10. ~Working(j) => \A o \in Observations, e \in Entries : index'[o][e] = index[o][e]
  BY <1>3
<1>11. ASSUME NEW s \in Saves, Active(s)', handler'[s].alone PROVE HandlerInv(s)'
  <2>1. Active(s) /\ handler[s].alone /\ handler[s].obs \in Observations
    BY <1>2, <1>5, <1>11 DEF IndexInv, StartedInv
  <2>2. Indexing = {} /\ HandlerInv(s)
    BY <2>1 DEF IndexInv, HandlerInv
  <2>3. \A e \in Entries : index'[handler[s].obs][e] = index[handler[s].obs][e]
    BY <1>10, <2>1, <2>2 DEF Indexing
  <2>4. Indexing' = {}
    BY <1>5, <2>2
  <2>5. QED
    BY <1>2, <1>5, <2>1, <2>2, <2>3, <2>4 DEF HandlerInv, Fresh
<1>12. ASSUME NEW k \in Jobs, Working(k)', job'[k].alone PROVE JobInv(k)'
  <2>1. Working(k) /\ job[k].alone
    BY <1>2, <1>4, <1>12
  <2>2. /\ \A s \in Saves : ~Active(s)
        /\ \A l \in Indexing : l = k
        /\ Forced(k) /\ job[k].at # "clear" =>
              /\ \A o \in Observations, e \in Entries : Fresh(o, e)
              /\ \A row \in job[k].batch : FreshRow(row)
    BY <2>1 DEF IndexInv, JobInv
  <2>3. ASSUME Forced(k), job'[k].at # "clear"
        PROVE  /\ \A o \in Observations, e \in Entries : Fresh(o, e)'
               /\ \A row \in job'[k].batch : FreshRow(row)'
    <3>1. CASE k # j
      <4>1. job'[k] = job[k] /\ ~Working(j)
        BY <1>2, <2>2, <3>1 DEF Indexing
      <4>2. QED
        BY <1>2, <1>9, <1>10, <2>2, <2>3, <4>1 DEF Fresh
    <3>2. CASE k = j /\ job[j].at # "clear"
      <4>1. \A row \in job'[k].batch : FreshRow(row)'
        BY <1>3, <1>9, <2>2, <2>3, <3>2
      <4>2. \A o \in Observations, e \in Entries : Fresh(o, e)'
        BY <1>2, <1>3, <2>2, <2>3, <3>2 DEF Fresh, FreshRow
      <4>3. QED
        BY <4>1, <4>2
    <3>3. CASE k = j /\ job[j].at = "clear"
      <4>1. \A o \in Observations, e \in Entries : Fresh(o, e)'
        BY <1>3, <1>12, <2>3, <3>3 DEF Fresh
      <4>2. job[j].batch = {}
        BY <3>3 DEF IndexInv, BatchInv
      <4>3. QED
        BY <1>3, <1>9, <3>3, <4>1, <4>2
    <3>4. QED
      BY <3>1, <3>2, <3>3
  <2>4. QED
    BY <1>5, <2>2, <2>3 DEF JobInv
<1>13. ASSUME NEW o \in Observations, o \notin unsettled' PROVE QuietInv(o)'
  <2>1. /\ \A s \in Saves : Active(s) /\ handler[s].obs = o => handler[s].alone
        /\ (\A s \in Saves : Active(s) => handler[s].obs # o) =>
              \A e \in Entries : Fresh(o, e)
        /\ \A k \in Indexing : \A row \in job[k].batch : row.obs = o => FreshRow(row)
    BY <1>2, <1>13 DEF IndexInv, QuietInv
  <2>2. ASSUME \A s \in Saves : Active(s)' => handler'[s].obs # o, NEW e \in Entries
        PROVE  Fresh(o, e)'
    <3>1. Fresh(o, e)
      BY <1>2, <1>5, <2>1, <2>2
    <3>2. CASE Working(j)
      BY <1>2, <1>3, <2>1, <3>1, <3>2 DEF Fresh, FreshRow, Indexing
    <3>3. CASE ~Working(j)
      BY <1>2, <1>10, <3>1, <3>3 DEF Fresh
    <3>4. QED
      BY <3>2, <3>3
  <2>3. ASSUME NEW k \in Indexing', NEW row \in job'[k].batch, row.obs = o
        PROVE  FreshRow(row)'
    <3>1. k \in Indexing /\ k \in Jobs
      BY <1>5 DEF Indexing
    <3>2. QED
      BY <1>2, <1>3, <1>9, <2>1, <2>3, <3>1
  <2>4. \A s \in Saves : Active(s)' /\ handler'[s].obs = o => handler'[s].alone
    BY <1>2, <1>5, <2>1
  <2>5. QED
    BY <2>2, <2>3, <2>4 DEF QuietInv
<1>14. QED
  BY <1>1, <1>6, <1>7, <1>8, <1>11, <1>12, <1>13 DEF IndexInv, HandlerInv, JobInv, QuietInv

(* A job that ends, fails or resets the event takes every claim away. *)
LEMMA OthersIndexInv ==
  ASSUME IndexInv, NEW j \in Jobs, ResetStale(j) \/ Indexed(j) \/ IndexingFails(j)
  PROVE  IndexInv'
<1>1. TypeOK /\ TypeOK'
  BY JobTypeOK DEF IndexInv, JobStep
<1>2. /\ UNCHANGED <<doc, index, handler, saves>>
      /\ \/ unsettled' = unsettled
         \/ Indexed(j) /\ Forced(j) /\ job[j].alone /\ unsettled' = {}
  BY DEF ResetStale, Indexed, IndexingFails, bounds, history
<1>3. PICK new \in JobState :
        job' = Others(j, new) /\ new.at \in {"claim", "done"} /\ new.batch = {}
  <2>1. CASE ResetStale(j)
    <3>1. job[j].batch = {}
      BY <2>1 DEF IndexInv, BatchInv, ResetStale, Working
    <3>2. [job[j] EXCEPT !.stale = FALSE] \in JobState
      <4>1. job[j] \in JobState
        BY <1>1 DEF TypeOK
      <4>2. QED
        BY <4>1 DEF JobState
    <3>3. /\ [job[j] EXCEPT !.stale = FALSE].at = "claim"
          /\ [job[j] EXCEPT !.stale = FALSE].batch = {}
      BY <1>1, <2>1, <3>1 DEF ResetStale, TypeOK, JobState
    <3>4. QED
      BY <2>1, <3>2, <3>3 DEF ResetStale
  <2>2. CASE Indexed(j) \/ IndexingFails(j)
    <3>1. NoJob("done") \in JobState
      BY RestType
    <3>2. NoJob("done").at = "done" /\ NoJob("done").batch = {}
      BY DEF NoJob
    <3>3. QED
      BY <2>2, <3>1, <3>2 DEF Indexed, IndexingFails
  <2>3. QED
    BY <2>1, <2>2
<1>4. /\ job'[j] = new /\ ~Working(j)'
      /\ \A k \in Jobs \ {j} :
            /\ Working(k)' <=> Working(k)
            /\ job'[k].at = job[k].at /\ job'[k].batch = job[k].batch
            /\ job'[k].alone <=> job[k].alone
            /\ Working(k) => job'[k].robbed
  BY <1>1, <1>3, OthersEffect
<1>5. \A k \in Indexing' : k \in Jobs \ {j} /\ k \in Indexing
  BY <1>4 DEF Indexing
<1>6. \A s \in Saves : Active(s)' <=> Active(s)
  BY <1>2 DEF Active
<1>7. ClaimInv' /\ OneIndexer'
  BY <1>4, <1>5 DEF ClaimInv, OneIndexer, Indexing
<1>8. BatchInv'
  BY <1>3, <1>4 DEF IndexInv, BatchInv
<1>9. StartedInv'
  BY <1>2, <1>6 DEF IndexInv, StartedInv
<1>10. /\ \A o \in Observations, e \in Entries : Fresh(o, e) <=> Fresh(o, e)'
       /\ \A row : FreshRow(row) <=> FreshRow(row)'
  BY <1>2 DEF Fresh, FreshRow
<1>11. ASSUME NEW s \in Saves PROVE HandlerInv(s)'
  <2>1. \A o \in Observations, e \in Entries : index'[o][e] = index[o][e]
    BY <1>2
  <2>2. Indexing = {} => Indexing' = {}
    BY <1>5
  <2>3. Active(s) => handler[s].obs \in Observations
    BY DEF IndexInv, StartedInv
  <2>4. QED
    BY <1>2, <1>6, <2>2, <2>3 DEF IndexInv, HandlerInv, Fresh
<1>12. ASSUME NEW k \in Jobs, Working(k)', job'[k].alone PROVE JobInv(k)'
  <2>1. k # j /\ Working(k) /\ job[k].alone
    BY <1>4, <1>12
  <2>2. QED
    BY <1>4, <1>5, <1>6, <1>10, <2>1 DEF IndexInv, JobInv
<1>13. CASE unsettled' = unsettled
  <2>1. ASSUME NEW o \in Observations, o \notin unsettled' PROVE QuietInv(o)'
    <3>1. /\ \A s \in Saves : Active(s) /\ handler[s].obs = o => handler[s].alone
          /\ (\A s \in Saves : Active(s) => handler[s].obs # o) =>
                \A e \in Entries : Fresh(o, e)
          /\ \A k \in Indexing : \A row \in job[k].batch : row.obs = o => FreshRow(row)
      BY <1>13, <2>1 DEF IndexInv, QuietInv
    <3>2. \A k \in Indexing' : \A row \in job'[k].batch : row.obs = o => FreshRow(row)'
      BY <1>4, <1>5, <1>10, <3>1
    <3>3. QED
      BY <1>2, <1>6, <1>10, <3>1, <3>2 DEF QuietInv
  <2>2. QED
    BY <1>1, <1>7, <1>8, <1>9, <1>11, <1>12, <2>1 DEF IndexInv, JobInv, QuietInv
<1>14. CASE Indexed(j) /\ Forced(j) /\ job[j].alone
  <2>1. /\ \A s \in Saves : ~Active(s)
        /\ \A k \in Indexing : k = j
        /\ \A o \in Observations, e \in Entries : Fresh(o, e)
    BY <1>14 DEF IndexInv, JobInv, Indexed, Working
  <2>2. Indexing' = {}
    BY <1>5, <2>1
  <2>3. \A o \in Observations : QuietInv(o)'
    BY <1>6, <1>10, <2>1, <2>2 DEF QuietInv
  <2>4. QED
    BY <1>1, <1>7, <1>8, <1>9, <1>11, <1>12, <2>3 DEF IndexInv, JobInv
<1>15. QED
  BY <1>2, <1>13, <1>14

LEMMA StartIndexInv ==
  ASSUME IndexInv, NEW j \in Jobs, claimIndexing(j) PROVE IndexInv'
<1>1. TypeOK /\ TypeOK' /\ Start(j)
  BY JobTypeOK DEF IndexInv, JobStep, claimIndexing
<1>2. /\ UNCHANGED <<doc, index, saves>> /\ status' = "running"
      /\ ~Working(j) /\ Working(j)'
      /\ job'[j].at = IF Forced(j) THEN "clear" ELSE "iterate"
      /\ job'[j].batch = job[j].batch
      /\ job'[j].alone <=> Handled = {} /\ Indexing = {}
      /\ \A k \in Jobs \ {j} :
            /\ Working(k)' <=> Working(k)
            /\ job'[k].at = job[k].at /\ job'[k].batch = job[k].batch
            /\ job'[k].robbed <=> job[k].robbed
            /\ Working(k) => ~job'[k].alone
      /\ \A s \in Saves : /\ handler'[s].at = handler[s].at
                          /\ handler'[s].obs = handler[s].obs
                          /\ Active(s) => ~handler'[s].alone
      /\ \A o \in Observations : o \notin unsettled' =>
             o \notin unsettled /\ Indexing = {} /\ o \notin Handled
  BY <1>1, StartEffect
<1>3. \A s \in Saves : Active(s)' <=> Active(s)
  BY <1>2 DEF Active
<1>4. job[j].batch = {}
  BY <1>2 DEF IndexInv, BatchInv
<1>5. Indexing = {} => \A k \in Indexing' : k = j
  BY <1>2 DEF Indexing
<1>6. \A s \in Saves : Active(s) => handler[s].obs \in Handled
  BY DEF IndexInv, StartedInv, Handled, HandlersOf, Active
<1>7. ClaimInv' /\ OneIndexer'
  <2>1. \A k \in Indexing : job[k].robbed
    BY <1>1 DEF IndexInv, ClaimInv, claimIndexing
  <2>2. \A k \in Indexing' : k = j \/ job'[k].robbed
    BY <1>2, <2>1 DEF Indexing
  <2>3. QED
    BY <1>2, <2>2 DEF ClaimInv, OneIndexer
<1>8. BatchInv'
  BY <1>2, <1>4 DEF IndexInv, BatchInv
<1>9. StartedInv'
  BY <1>2, <1>3 DEF IndexInv, StartedInv
<1>10. \A s \in Saves : HandlerInv(s)'
  BY <1>2, <1>3 DEF HandlerInv
<1>11. \A k \in Jobs : JobInv(k)'
  BY <1>2, <1>3, <1>5, <1>6 DEF JobInv
<1>12. ASSUME NEW o \in Observations, o \notin unsettled' PROVE QuietInv(o)'
  <2>1. /\ o \notin unsettled /\ Indexing = {}
        /\ \A s \in Saves : Active(s) => handler[s].obs # o
    BY <1>2, <1>6, <1>12
  <2>2. \A e \in Entries : Fresh(o, e)'
    BY <1>2, <2>1 DEF IndexInv, QuietInv, Fresh
  <2>3. QED
    BY <1>2, <1>3, <1>4, <1>5, <2>1, <2>2 DEF QuietInv
<1>13. QED
  BY <1>1, <1>7, <1>8, <1>9, <1>10, <1>11, <1>12 DEF IndexInv, QuietInv

LEMMA InitIndexInv == Init => IndexInv
<1> SUFFICES ASSUME Init PROVE IndexInv
  OBVIOUS
<1>1. TypeOK
  BY InitTypeOK
<1>2. \A s \in Saves : handler[s].at = "none" /\ ~Active(s)
  BY DEF Init, NoHandler, Active
<1>3. \A j \in Jobs : ~Working(j) /\ job[j].batch = {}
  BY DEF Init, NoJob, Working
<1>4. Indexing = {}
  BY <1>3 DEF Indexing
<1>5. \A o \in Observations, e \in Entries : Fresh(o, e)
  BY DEF Init, Fresh
<1>6. QED
  BY <1>1, <1>2, <1>3, <1>4, <1>5
     DEF IndexInv, ClaimInv, OneIndexer, BatchInv, StartedInv, HandlerInv, JobInv, QuietInv

LEMMA NextIndexInv == IndexInv /\ [Next]_vars => IndexInv'
<1> SUFFICES ASSUME IndexInv, [Next]_vars PROVE IndexInv'
  OBVIOUS
<1>1. TypeOK'
  BY NextTypeOK DEF IndexInv
<1>2. ASSUME NEW s \in Saves, HandlerStep(s) \/ HandlerFails(s) PROVE IndexInv'
  BY <1>2, HandlerIndexInv, CutIndexInv DEF HandlerStep
<1>3. ASSUME NEW j \in Jobs, Request(j) \/ JobStep(j) \/ IndexingFails(j) PROVE IndexInv'
  BY <1>3, GoesIndexInv, OthersIndexInv, StartIndexInv DEF JobStep
<1>4. CASE Crash
  BY <1>1, <1>4, RestartIndexInv DEF Crash
<1>5. CASE UNCHANGED vars
  BY <1>1, <1>5 DEF vars, stored, bounds, history, IndexInv, ClaimInv, OneIndexer, BatchInv,
                    StartedInv, HandlerInv, JobInv, QuietInv, Fresh, FreshRow, Active, Indexing, Working
<1>6. \A o \in Edited : o \in Observations
  BY SearchIndexAssumption DEF Observations
<1>7. QED
  BY <1>2, <1>3, <1>4, <1>5, <1>6, SaveIndexInv DEF Next

-----------------------------------------------------------------------------
(***************************************************************************)
(* Theorems.                                                               *)
(***************************************************************************)
(* The inductive invariant of the index, its writers and their history.    *)
THEOREM IndexCorrect == Spec => []IndexInv
  BY InitIndexInv, NextIndexInv, PTL DEF Spec

(* Handlers, jobs and rows stay of their types, whatever the order of the  *)
(* saves, requests, failures and crashes.                                  *)
THEOREM TypeCorrect == Spec => []TypeOK
<1>1. IndexInv => TypeOK
  BY DEF IndexInv
<1>2. QED
  BY <1>1, IndexCorrect, PTL

(* Two jobs index the event at once only when one lost its claim to a      *)
(* request that took it for stale (claimIndexing, indexAllEvents).         *)
THEOREM OneIndexerCorrect == Spec => []OneIndexer
<1>1. IndexInv => OneIndexer
  BY DEF IndexInv
<1>2. QED
  BY <1>1, IndexCorrect, PTL

(* A row shows its observation as stored, unless its handler is at work,   *)
(* two writers had it at once, or a handler of it was cut short, by the    *)
(* database, a row it found or a crash, and none had it to itself since:   *)
(* what the handlers and the jobs promise each other without ever waiting  *)
(* for one another (ObservationSearchRepository.save and .populate).       *)
THEOREM NeverStaleCorrect == Spec => []NeverStale
<1>1. IndexInv => NeverStale
  <2> SUFFICES ASSUME IndexInv, NEW o \in Observations \ (unsettled \cup Handled)
               PROVE  \A e \in Entries : Fresh(o, e)
    BY DEF NeverStale, Fresh
  <2>1. \A s \in Saves : Active(s) => handler[s].obs # o
    BY DEF Handled, HandlersOf, Active
  <2>2. QED
    BY <2>1 DEF IndexInv, QuietInv
<1>2. QED
  BY <1>1, IndexCorrect, PTL
=============================================================================
