--------------------------- MODULE ImageProcessing ---------------------------
(***************************************************************************)
(* The image plugin: a loop that looks for uploaded images which are not   *)
(* oriented yet, writes the oriented image over the uploaded one, patches  *)
(* the attachment and then patches it again with its thumbnails.  A new    *)
(* configuration stops the loop and starts another.                        *)
(*                                                                         *)
(* Uploads go straight to the attachment's file, as they do where no hook  *)
(* is registered.  One attachment stands for an active observation and its *)
(* image; lastModified is the observation's, counted in modifications.     *)
(***************************************************************************)
EXTENDS Naturals, Sequences, FiniteSets, Functions

CONSTANTS
    Images,      (* attachments that hold an image                         *)
    BatchSize,   (* intervalBatchSize                                      *)
    MaxUploads,  (* bound: uploads                                         *)
    MaxConfigs,  (* bound: configuration changes                           *)
    MaxFaults    (* bound: intervals that fail, uploads that break         *)

ASSUME ImageProcessingAssumption ==
    /\ IsFiniteSet(Images)
    /\ BatchSize \in Nat \ {0}
    /\ MaxUploads \in Nat /\ MaxConfigs \in Nat /\ MaxFaults \in Nat

VARIABLES
    attachment,   (* what the database says of each image                  *)
    file,         (* the file at its path: which upload, and in what form  *)
    upload,       (* the upload in hand for each image                     *)
    now, uploads, configs, faults,
    enabled,      (* the saved configuration                               *)
    control,      (* processing: stopped, whose interval and timer it has  *)
    waiting,      (* intervals whose end a stop waits for                  *)
    interval,     (* chains of intervals, each with its timer              *)
    watermark,    (* latestAttachmentProcessedTimestamp                    *)
    newest,       (* history: the last upload that was answered            *)
    contended,    (* history: images uploaded while they were processed    *)
    interrupted   (* history: stops that found an interval at work         *)

store    == <<attachment, file, now>>
loop     == <<control, waiting, interval, watermark>>
requests == <<upload, uploads, configs, enabled>>
history  == <<newest, contended, interrupted>>
vars     == <<store, loop, requests, faults, history>>

Chains    == 1..(MaxConfigs + 1)
Uploads   == 0..MaxUploads
Record    == [content : BOOLEAN, oriented : BOOLEAN, modified : Nat]
File      == [up : Uploads, form : {"none", "partial", "whole", "oriented"}]
Upload    == [up : Uploads, at : {"none", "streaming", "stored"}, before : Record]
Interval  == [at : {"none", "armed", "config", "events", "next", "read", "store",
                    "patch", "thumb", "mark"},
              start : Nat, todo : Seq(Images), original : Record, latest : Nat, up : Uploads]

NoRecord   == [content |-> FALSE, oriented |-> FALSE, modified |-> 0]
NoUpload   == [up |-> 0, at |-> "none", before |-> NoRecord]
NoInterval(at) == [at |-> at, start |-> 0, todo |-> <<>>, original |-> NoRecord,
                   latest |-> 0, up |-> 0]

Alive   == {i \in Chains : interval[i].at # "none"}
Running == {i \in Chains : interval[i].at \notin {"none", "armed"}}
Has(i, a) == interval[i].todo # <<>> /\ Head(interval[i].todo) = a

Init ==
    /\ attachment = [a \in Images |-> NoRecord]
    /\ file = [a \in Images |-> [up |-> 0, form |-> "none"]]
    /\ upload = [a \in Images |-> NoUpload]
    /\ now = 1 /\ uploads = 0 /\ configs = 0 /\ faults = 0
    /\ enabled = TRUE
    /\ control = [stopped |-> FALSE, running |-> 1, timer |-> 1]
    /\ waiting = {}
    /\ interval = [i \in Chains |-> NoInterval(IF i = 1 THEN "config" ELSE "none")]
    /\ watermark = 0
    /\ newest = [a \in Images |-> 0]
    /\ contended = {} /\ interrupted = 0

(* A patch writes the attachment as the patcher had read it, with what it  *)
(* changes, and the observation is modified.                               *)
patchAttachment(a, copy) ==
    /\ attachment' = [attachment EXCEPT ![a] = [copy EXCEPT !.modified = now + 1]]
    /\ now' = now + 1

-----------------------------------------------------------------------------
(***************************************************************************)
(* Uploads, one of an image at a time.                                     *)
(***************************************************************************)
(* The stream truncates the file.                                          *)
StartUpload(a) ==
    /\ upload[a].at = "none"
    /\ uploads < MaxUploads
    /\ uploads' = uploads + 1
    /\ upload' = [upload EXCEPT ![a] = [up |-> uploads + 1, at |-> "streaming",
                                        before |-> attachment[a]]]
    /\ file' = [file EXCEPT ![a] = [up |-> uploads + 1, form |-> "partial"]]
    /\ contended' = IF \E i \in Running : Has(i, a) /\ interval[i].at = "store"
                    THEN contended \cup {a} ELSE contended
    /\ UNCHANGED <<attachment, now, loop, configs, enabled, faults, newest, interrupted>>

(* A file that was renamed over the one that streams takes its place. *)
FinishStream(a) ==
    /\ upload[a].at = "streaming"
    /\ upload' = [upload EXCEPT ![a].at = "stored"]
    /\ file' = IF file[a].up = upload[a].up /\ file[a].form = "partial"
               THEN [file EXCEPT ![a].form = "whole"] ELSE file
    /\ newest' = [newest EXCEPT ![a] = upload[a].up]
    /\ UNCHANGED <<attachment, now, loop, uploads, configs, enabled, faults, contended,
                   interrupted>>

(* Nothing is patched when the size is what the record says already. *)
AnswerUpload(a) ==
    LET before == upload[a].before IN
    /\ upload[a].at = "stored"
    /\ upload' = [upload EXCEPT ![a] = NoUpload]
    /\ \/ patchAttachment(a, [before EXCEPT !.content = TRUE])
       \/ before.content /\ UNCHANGED <<attachment, now>>
    /\ UNCHANGED <<file, loop, uploads, configs, enabled, faults, history>>

BreakUpload(a) ==
    /\ upload[a].at = "streaming"
    /\ faults < MaxFaults
    /\ faults' = faults + 1
    /\ upload' = [upload EXCEPT ![a] = NoUpload]
    /\ newest' = [newest EXCEPT ![a] = upload[a].up]
    /\ UNCHANGED <<store, loop, uploads, configs, enabled, contended, interrupted>>

-----------------------------------------------------------------------------
(***************************************************************************)
(* Start and stop.                                                         *)
(***************************************************************************)
(* A new chain begins, unless one was begun since the stop. *)
start(chains, c) ==
    LET k == CHOOSE k \in Chains : chains[k].at = "none" IN
    IF c.stopped
    THEN /\ interval' = [chains EXCEPT ![k] = NoInterval("config")]
         /\ control' = [c EXCEPT !.stopped = FALSE, !.running = k]
    ELSE interval' = chains /\ control' = c

(* The interval ends, and whoever waited for it starts at once.  Nothing   *)
(* that ends an interval asks whether it was stopped.                      *)
Ends(i, chain) ==
    LET chains == [interval EXCEPT ![i] = chain]
        c == [control EXCEPT !.timer = IF chain.at = "armed" THEN i ELSE @] IN
    /\ IF i \in waiting THEN start(chains, c) ELSE interval' = chains /\ control' = c
    /\ waiting' = waiting \ {i}

Saved(on) ==
    /\ configs < MaxConfigs
    /\ configs' = configs + 1
    /\ enabled' = on
    /\ UNCHANGED <<store, upload, uploads, watermark, faults, newest, contended>>

(* MUTANT of applyConfig: does not cancel the timer. *)
applyConfigTimed(on) ==
    /\ Saved(on)
    /\ IF control.running \in Running
       THEN /\ waiting' = waiting \cup {control.running}
            /\ control' = [control EXCEPT !.stopped = TRUE]
            /\ interrupted' = interrupted + 1
            /\ UNCHANGED interval
       ELSE start(interval, [control EXCEPT !.stopped = TRUE]) /\ UNCHANGED <<waiting, interrupted>>

(* Saves the configuration; stops, which cancels the timer that was armed  *)
(* last, and starts when the interval that was begun last has ended.       *)
applyConfig(on) ==
    LET t == control.timer
        chains == IF interval[t].at = "armed"
                  THEN [interval EXCEPT ![t] = NoInterval("none")] ELSE interval IN
    /\ Saved(on)
    /\ IF control.running \in Running
       THEN /\ waiting' = waiting \cup {control.running}
            /\ interval' = chains
            /\ control' = [control EXCEPT !.stopped = TRUE]
            /\ interrupted' = interrupted + 1
       ELSE start(chains, [control EXCEPT !.stopped = TRUE]) /\ UNCHANGED <<waiting, interrupted>>

-----------------------------------------------------------------------------
(***************************************************************************)
(* An interval.                                                            *)
(***************************************************************************)
Local == UNCHANGED <<requests, newest, interrupted>>

TimerFires(i) ==
    /\ interval[i].at = "armed"
    /\ IF control.stopped
       THEN interval' = [interval EXCEPT ![i] = NoInterval("none")]
       ELSE interval' = [interval EXCEPT ![i] = NoInterval("config")]
    /\ control' = [control EXCEPT !.running = i]
    /\ Local /\ UNCHANGED <<store, waiting, watermark, faults, contended>>

(* MUTANT of GetConfig: does not look whether the plugin is enabled. *)
GetConfigAlways(i) ==
    /\ interval[i].at = "config"
    /\ interval' = [interval EXCEPT ![i].at = "events", ![i].start = now]
    /\ Local /\ UNCHANGED <<store, control, waiting, watermark, faults, contended>>

GetConfig(i) ==
    /\ interval[i].at = "config"
    /\ IF enabled
       THEN /\ interval' = [interval EXCEPT ![i].at = "events", ![i].start = now]
            /\ UNCHANGED <<control, waiting>>
       ELSE Ends(i, NoInterval("none"))
    /\ Local /\ UNCHANGED <<store, watermark, faults, contended>>

Unprocessed(i) ==
    {a \in Images : /\ attachment[a].content /\ ~attachment[a].oriented
                    /\ watermark <= attachment[a].modified
                    /\ attachment[a].modified <= interval[i].start}

OldestFirst(S) ==
    {s \in Injection(1..Cardinality(S), S) :
        \A j, k \in DOMAIN s : j < k => attachment[s[j]].modified <= attachment[s[k]].modified}

FindUnprocessedAttachments(i) ==
    /\ interval[i].at = "events"
    /\ \E found \in OldestFirst(Unprocessed(i)) :
          interval' = [interval EXCEPT ![i].at = "next",
                          ![i].todo = SubSeq(found, 1, IF Len(found) < BatchSize
                                                       THEN Len(found) ELSE BatchSize)]
    /\ Local /\ UNCHANGED <<store, control, waiting, watermark, faults, contended>>

Step(i, from, to) ==
    /\ interval[i].at = from
    /\ interval' = [interval EXCEPT ![i].at = to]
    /\ Local /\ UNCHANGED <<control, waiting, watermark, faults>>

FindById(i) ==
    /\ interval[i].at = "next"
    /\ interval[i].todo # <<>>
    /\ interval' = [interval EXCEPT ![i].at = "read",
                                    ![i].original = attachment[Head(interval[i].todo)]]
    /\ Local /\ UNCHANGED <<store, control, waiting, watermark, faults, contended>>

(* MUTANT of autoOrient: keeps what was staged for the image before. *)
autoOrientStaged(i) ==
    LET a == Head(interval[i].todo) IN
    /\ interval[i].at = "read"
    /\ interval' = [interval EXCEPT ![i].at = "store"]
    /\ contended' = IF upload[a].at = "streaming" THEN contended \cup {a} ELSE contended
    /\ Local /\ UNCHANGED <<store, control, waiting, watermark, faults>>

(* Reads and orients into a pending file; a partial image may pass. *)
autoOrient(i) ==
    LET a == Head(interval[i].todo) IN
    /\ interval[i].at = "read"
    /\ interval' = [interval EXCEPT ![i].at = "store", ![i].up = file[a].up]
    /\ contended' = IF upload[a].at = "streaming" THEN contended \cup {a} ELSE contended
    /\ Local /\ UNCHANGED <<store, control, waiting, watermark, faults>>

(* No content, or none the image service can decode. *)
OrientFails(i) == Step(i, "read", "mark") /\ UNCHANGED <<store, contended>>

(* MUTANT of SaveOriented: leaves the file pending. *)
SaveOrientedPending(i) ==
    LET a == Head(interval[i].todo) IN
    /\ Step(i, "store", "patch")
    /\ file' = [file EXCEPT ![a] = [up |-> interval[i].up, form |-> "pending"]]
    /\ UNCHANGED <<attachment, now, contended>>

(* The pending file is renamed over the uploaded one. *)
SaveOriented(i) ==
    LET a == Head(interval[i].todo) IN
    /\ Step(i, "store", "patch")
    /\ file' = [file EXCEPT ![a] = [up |-> interval[i].up, form |-> "oriented"]]
    /\ UNCHANGED <<attachment, now, contended>>

Oriented(i) == [interval[i].original EXCEPT !.content = TRUE, !.oriented = TRUE]

PatchOriented(i) ==
    /\ Step(i, "patch", "thumb")
    /\ patchAttachment(Head(interval[i].todo), Oriented(i))
    /\ UNCHANGED <<file, contended>>

Higher(m, n) == IF m > n THEN m ELSE n

Done(i, latest) ==
    interval' = [interval EXCEPT ![i].at = "next", ![i].todo = Tail(interval[i].todo),
                                 ![i].latest = latest]

PatchThumbnails(i) ==
    /\ interval[i].at = "thumb"
    /\ patchAttachment(Head(interval[i].todo), Oriented(i))
    /\ Done(i, Higher(interval[i].latest, interval[i].original.modified))
    /\ Local /\ UNCHANGED <<file, control, waiting, watermark, faults, contended>>

(* An image that fails is not tried again, and moves no watermark. *)
MarkOriented(i) ==
    /\ interval[i].at = "mark"
    /\ IF interval[i].original.oriented THEN UNCHANGED <<attachment, now>>
       ELSE patchAttachment(Head(interval[i].todo),
                            [interval[i].original EXCEPT !.oriented = TRUE])
    /\ Done(i, interval[i].latest)
    /\ Local /\ UNCHANGED <<file, control, waiting, watermark, faults, contended>>

(* MUTANT of ScheduleNext: keeps the watermark when nothing was processed. *)
ScheduleNextKept(i) ==
    /\ interval[i].at = "next" /\ interval[i].todo = <<>>
    /\ watermark' = Higher(watermark, interval[i].latest)
    /\ Ends(i, NoInterval("armed"))
    /\ Local /\ UNCHANGED <<store, faults, contended>>

(* Zero when nothing was processed, so the next interval looks at all. *)
ScheduleNext(i) ==
    /\ interval[i].at = "next" /\ interval[i].todo = <<>>
    /\ watermark' = interval[i].latest
    /\ Ends(i, NoInterval("armed"))
    /\ Local /\ UNCHANGED <<store, faults, contended>>

(* A rejection of any step after the configuration is logged, and no timer *)
(* is armed after it; what the interval had written stays.                 *)
IntervalFails(i) ==
    /\ interval[i].at \notin {"none", "armed", "config"}
    /\ faults < MaxFaults
    /\ faults' = faults + 1
    /\ Ends(i, NoInterval("none"))
    /\ Local /\ UNCHANGED <<store, watermark, contended>>

-----------------------------------------------------------------------------
IntervalStep(i) ==
    \/ TimerFires(i) \/ GetConfig(i) \/ FindUnprocessedAttachments(i) \/ FindById(i)
    \/ autoOrient(i) \/ OrientFails(i) \/ SaveOriented(i) \/ PatchOriented(i)
    \/ PatchThumbnails(i) \/ MarkOriented(i) \/ ScheduleNext(i)

Next ==
    \/ \E a \in Images : StartUpload(a) \/ FinishStream(a) \/ AnswerUpload(a) \/ BreakUpload(a)
    \/ \E on \in BOOLEAN : applyConfig(on)
    \/ \E i \in Chains : IntervalStep(i) \/ IntervalFails(i)

Spec == Init /\ [][Next]_vars

(* Timers fire, and what an interval awaits is answered. *)
FairSpec == Spec /\ \A i \in Chains : WF_vars(IntervalStep(i))

-----------------------------------------------------------------------------
(***************************************************************************)
(* Properties.                                                             *)
(***************************************************************************)
TypeOK ==
    /\ attachment \in [Images -> Record]
    /\ file \in [Images -> File]
    /\ upload \in [Images -> Upload]
    /\ now \in Nat /\ uploads \in Uploads /\ configs \in 0..MaxConfigs /\ faults \in 0..MaxFaults
    /\ enabled \in BOOLEAN
    /\ control \in [stopped : BOOLEAN, running : Chains, timer : Chains]
    /\ waiting \in SUBSET Chains
    /\ interval \in [Chains -> Interval]
    /\ watermark \in Nat
    /\ newest \in [Images -> Uploads]
    /\ contended \in SUBSET Images /\ interrupted \in 0..MaxConfigs

(* The file of an image holds the last upload, oriented or not: only an    *)
(* upload that came while the image was being oriented is written over     *)
(* (orientAttachmentImage, saveContent).                                   *)
NewestUploadKept ==
    \A a \in Images \ contended :
        upload[a].at # "streaming" => file[a].up = newest[a]

(* Every uploaded image is oriented or given up in the end, whatever       *)
(* failed, whichever older patch was written over it and wherever the      *)
(* watermark stood, as long as the plugin is enabled and no interval ended *)
(* with an error, which nothing starts again (processImageAttachments).    *)
EventuallyOriented ==
    \A a \in Images :
        <>[](attachment[a].content => attachment[a].oriented \/ ~enabled \/ faults > 0)

(* A new configuration leaves one chain of intervals, and one more only    *)
(* for each stop that came while an interval was at work: that one arms    *)
(* its timer after the stop cancelled it (stop).                           *)
NoOtherChain == Cardinality(Alive) <= 1 + interrupted

(* A plugin that is disabled for good stops working, however many chains   *)
(* of intervals it has (safeGetConfig, processAndScheduleNext).            *)
DisabledStops == <>[](enabled \/ Alive = {})
=============================================================================
