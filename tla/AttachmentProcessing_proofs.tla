-------------------- MODULE AttachmentProcessing_proofs --------------------
(***************************************************************************)
(* Theorems about AttachmentProcessing, for every set of attachments,      *)
(* uploads and editors, every retry limit and batch size, and any number   *)
(* of crashes.                                                             *)
(***************************************************************************)
EXTENDS AttachmentProcessing, TLAPS

(* An attachment record the job builds from the one it read is a record. *)
LEMMA ProcessedType ==
    ASSUME TypeOK, jobAt = "patch"
    PROVE  Processed \in AttachmentDoc
<1> USE DEF TypeOK, AttachmentDoc, Status
<1>1. CASE verdict = "pass"
  BY <1>1 DEF Processed, Patched
<1>2. CASE verdict = "reject"
  BY <1>2 DEF Processed, Patched
<1>3. CASE verdict = "error"
  <2>1. CASE GivesUp
    BY <1>3, <2>1 DEF Processed, Patched
  <2>2. CASE ~GivesUp
    BY <1>3, <2>2 DEF Processed, Patched
  <2> QED  BY <2>1, <2>2
<1> QED
  BY <1>1, <1>2, <1>3

LEMMA RecordsType ==
    /\ Absent \in AttachmentDoc
    /\ Fresh \in AttachmentDoc
    /\ Done \in UploadState
    /\ NoDoc \in ObservationDoc
    /\ \A d \in ObservationDoc : NoEdit(d) \in EditState
<1>1. Absent \in AttachmentDoc /\ Fresh \in AttachmentDoc
  BY DEF Absent, Fresh, AttachmentDoc, Status
<1>2. Done \in UploadState
  BY <1>1 DEF Done, UploadState
<1>3. NoDoc \in ObservationDoc
  BY <1>1 DEF NoDoc, ObservationDoc
<1>4. \A d \in ObservationDoc : NoEdit(d) \in EditState
  BY DEF NoEdit, EditState
<1> QED  BY <1>1, <1>2, <1>3, <1>4

LEMMA InitTypeOK == Init => TypeOK
<1> SUFFICES ASSUME Init PROVE TypeOK
  OBVIOUS
<1>1. doc \in ObservationDoc
  BY RecordsType DEF Init, ObservationDoc
<1>2. upload \in [Uploads -> UploadState]
  BY RecordsType DEF Init, UploadState
<1>3. edit \in [Editors -> EditState]
  BY RecordsType DEF Init
<1>4. jobSeen \in AttachmentDoc /\ jobSeen.staged = None
  BY RecordsType DEF Init, Absent
<1> QED
  BY <1>1, <1>2, <1>3, <1>4, ProcessingAssumption DEF Init, TypeOK

(***************************************************************************)
(* Type correctness: one lemma for the upload requests, one for the job,   *)
(* one for the edits, each with a step per action.                         *)
(***************************************************************************)
LEMMA patchAttachmentType ==
    ASSUME TypeOK, NEW a, NEW r \in AttachmentDoc, patchAttachment(a, r)
    PROVE  doc' \in ObservationDoc
  BY DEF TypeOK, patchAttachment, ObservationDoc

LEMMA UploadTypeOK ==
    ASSUME TypeOK, NEW u \in Uploads,
           FindForUpload(u) \/ StageContent(u) \/ StagingFails(u) \/ StorePatch(u)
    PROVE  TypeOK'
<1> USE ProcessingAssumption DEF TypeOK, jobVars, editVars
<1>0. Target[u] \in Attachments
  OBVIOUS
<1>1. CASE FindForUpload(u)
  <2>1. doc[Target[u]] \in AttachmentDoc
    BY <1>0 DEF ObservationDoc
  <2>2. upload' \in [Uploads -> UploadState]
    BY <1>1, <2>1 DEF FindForUpload, UploadState
  <2> QED  BY <1>1, <2>2 DEF FindForUpload
<1>2. CASE StageContent(u)
  <2>1. upload' \in [Uploads -> UploadState]
    BY <1>2 DEF StageContent, UploadState
  <2> QED  BY <1>2, <2>1 DEF StageContent
<1>3. CASE StagingFails(u)
  <2>1. upload' \in [Uploads -> UploadState]
    BY <1>3, RecordsType DEF StagingFails
  <2> QED  BY <1>3, <2>1 DEF StagingFails
<1>4. CASE StorePatch(u)
  <2>1. upload' \in [Uploads -> UploadState]
    BY <1>4, RecordsType DEF StorePatch
  <2>2. upload[u].seen.retries \in Nat
    BY DEF UploadState, AttachmentDoc
  <2>3. Patched("pending", u, upload[u].seen.retries) \in AttachmentDoc
    BY <2>2 DEF Patched, AttachmentDoc, Status
  <2>4. doc' \in ObservationDoc
    BY <1>4, <2>3, patchAttachmentType DEF StorePatch
  <2>5. acked' \in [Attachments -> Uploads \cup {None}]
    BY <1>4, <1>0 DEF StorePatch
  <2> QED  BY <1>4, <2>1, <2>4, <2>5 DEF StorePatch
<1> QED  BY <1>1, <1>2, <1>3, <1>4

LEMMA JobTypeOK ==
    ASSUME TypeOK, JobStep \/ UnexpectedError
    PROVE  TypeOK'
<1> USE ProcessingAssumption DEF TypeOK, editVars
<1>0. Absent \in AttachmentDoc /\ Absent.staged = None
  BY RecordsType DEF Absent
<1>1. CASE findPendingAttachments
  BY <1>1 DEF findPendingAttachments, FirstPending, PendingOn
<1>2. CASE EndBatch
  BY <1>2 DEF EndBatch
<1>3. ASSUME NEW a \in Attachments, FindAttachment(a) PROVE TypeOK'
  <2>1. doc[a] \in AttachmentDoc /\ doc[a].staged \in Uploads \cup {None}
    BY DEF ObservationDoc, AttachmentDoc
  <2>2. CASE doc[a].status = "absent" \/ doc[a].staged = None
    BY <1>3, <2>2 DEF FindAttachment, Hold
  <2>3. CASE ~(doc[a].status = "absent" \/ doc[a].staged = None)
    BY <1>3, <2>1, <2>3 DEF FindAttachment
  <2> QED  BY <2>2, <2>3
<1>4. CASE RunPipeline
  <2>1. verdict' \in {"pass", "reject", "error"}
    BY <1>4 DEF RunPipeline, Outcomes
  <2>2. jobAt' \in {"finalize", "discard", "patch"}
    <3>1. CASE verdict' = "pass"
      BY <1>4, <3>1 DEF RunPipeline
    <3>2. CASE verdict' = "reject"
      BY <1>4, <3>2 DEF RunPipeline
    <3>3. CASE verdict' = "error"
      <4>1. CASE GivesUp
        BY <1>4, <3>3, <4>1 DEF RunPipeline
      <4>2. CASE ~GivesUp
        BY <1>4, <3>3, <4>2 DEF RunPipeline
      <4> QED  BY <4>1, <4>2
    <3> QED  BY <2>1, <3>1, <3>2, <3>3
  <2>3. jobSeen.staged \in Uploads /\ jobAtt \in Attachments
    BY <1>4 DEF RunPipeline
  <2>4. scans' \in [Uploads -> 0..RetryLimit]
    BY <1>4, <2>3 DEF RunPipeline
  <2> QED  BY <1>4, <2>1, <2>2, <2>3, <2>4 DEF RunPipeline
<1>5. CASE SaveContent
  <2>1. jobSeen.staged \in Uploads /\ jobAtt \in Attachments
    BY <1>5 DEF SaveContent
  <2>2. CASE jobSeen.staged \in pendingDir
    BY <1>5, <2>1, <2>2 DEF SaveContent
  <2>3. CASE jobSeen.staged \notin pendingDir
    BY <1>5, <1>0, <2>3 DEF SaveContent, LetGo
  <2> QED  BY <2>2, <2>3
<1>6. CASE DeleteStagedContent
  BY <1>6 DEF DeleteStagedContent
<1>7. CASE PatchProcessed
  <2>1. doc' \in ObservationDoc
    BY <1>7, ProcessedType, patchAttachmentType DEF PatchProcessed
  <2> QED  BY <1>7, <1>0, <2>1 DEF PatchProcessed, LetGo
<1>8. CASE UnexpectedError
  BY <1>8, <1>0 DEF UnexpectedError, LetGo
<1> QED
  BY <1>1, <1>2, <1>3, <1>4, <1>5, <1>6, <1>7, <1>8 DEF JobStep

LEMMA RestartTypeOK ==
    ASSUME TypeOK, ServerRestarts, faults' \in 0..MaxFaults
    PROVE  TypeOK'
<1>1. upload' \in [Uploads -> UploadState]
  BY RecordsType DEF TypeOK, ServerRestarts
<1>2. edit' \in [Editors -> EditState]
  BY RecordsType DEF ServerRestarts
<1>3. pendingDir' \subseteq Uploads
  BY DEF TypeOK, ServerRestarts
<1>4. jobSeen' \in AttachmentDoc /\ jobSeen'.staged = None
  BY RecordsType DEF ServerRestarts, LetGo, Absent
<1> QED  BY <1>1, <1>2, <1>3, <1>4 DEF TypeOK, ServerRestarts, LetGo

LEMMA EditTypeOK ==
    ASSUME TypeOK, NEW e \in Editors,
           \/ \E add, remove \in SUBSET Attachments : PrepareEdit(e, add, remove)
           \/ FindDocument(e) \/ SaveDocument(e) \/ VersionError(e)
    PROVE  TypeOK'
<1> USE ProcessingAssumption DEF TypeOK, jobVars
<1>1. ASSUME NEW add \in SUBSET Attachments, NEW remove \in SUBSET Attachments,
             PrepareEdit(e, add, remove)
      PROVE  TypeOK'
  <2>1. [NoEdit(doc) EXCEPT !.at = "prepared", !.add = add, !.remove = remove]
          \in EditState
    BY DEF NoEdit, EditState
  <2>2. edit' \in [Editors -> EditState]
    BY <1>1, <2>1 DEF PrepareEdit
  <2>3. edits' \in 0..MaxEdits
    <3>1. edits < MaxEdits /\ edits' = edits + 1
      BY <1>1 DEF PrepareEdit
    <3> QED  BY <3>1
  <2>4. issued' \subseteq Attachments
    <3>1. issued' = issued \cup add
      BY <1>1 DEF PrepareEdit
    <3> QED  BY <3>1
  <2> QED  BY <1>1, <2>2, <2>3, <2>4 DEF PrepareEdit
<1>2. CASE FindDocument(e)
  <2>1. edit' \in [Editors -> EditState]
    <3> DEFINE e1 == [edit EXCEPT ![e].at = "saving"]
               e2 == [e1 EXCEPT ![e].base = doc]
    <3>1. e1 \in [Editors -> EditState]
      BY DEF EditState
    <3>2. e2 \in [Editors -> EditState]
      <4> HIDE DEF e1
      <4> QED  BY <3>1 DEF EditState
    <3>3. [e2 EXCEPT ![e].stale = FALSE] \in [Editors -> EditState]
      <4> HIDE DEF e2
      <4> QED  BY <3>2 DEF EditState
    <3> QED  BY <1>2, <3>3 DEF FindDocument
  <2> QED  BY <1>2, <2>1 DEF FindDocument
<1>3. CASE SaveDocument(e)
  <2>1. edit[e] \in EditState
    OBVIOUS
  <2>2. Edited(e) \in ObservationDoc
    BY <2>1, RecordsType DEF Edited, EditState, ObservationDoc
  <2>3. doc' \in ObservationDoc
    BY <1>3, <2>2 DEF SaveDocument
  <2>4. edit' \in [Editors -> EditState]
    <3>1. ASSUME NEW f \in Editors
          PROVE  [edit[f] EXCEPT !.stale = TRUE] \in EditState
      BY DEF EditState
    <3> QED  BY <1>3, <3>1, RecordsType DEF SaveDocument
  <2>5. removing' \subseteq Attachments
    BY <1>3, <2>1 DEF SaveDocument, EditState
  <2> QED  BY <1>3, <2>3, <2>4, <2>5 DEF SaveDocument
<1>4. CASE VersionError(e)
  BY <1>4, RestartTypeOK DEF VersionError
<1> QED  BY <1>1, <1>2, <1>3, <1>4

LEMMA NextTypeOK == TypeOK /\ [Next]_vars => TypeOK'
<1> SUFFICES ASSUME TypeOK, [Next]_vars PROVE TypeOK'
  OBVIOUS
<1> USE ProcessingAssumption
<1>1. ASSUME NEW a \in Attachments, DeleteContent(a) PROVE TypeOK'
  BY <1>1 DEF TypeOK, DeleteContent, jobVars
<1>2. CASE Crash
  <2>1. faults' \in 0..MaxFaults
    BY <1>2 DEF TypeOK, Crash
  <2> QED  BY <1>2, <2>1, RestartTypeOK DEF Crash
<1>3. CASE UNCHANGED vars
  BY <1>3 DEF TypeOK, vars, jobVars, editVars
<1> QED
  BY <1>1, <1>2, <1>3, UploadTypeOK, JobTypeOK, EditTypeOK DEF Next

(* Every variable keeps its type. *)
THEOREM TypeCorrect == Spec => []TypeOK
  BY InitTypeOK, NextTypeOK, PTL DEF Spec
-----------------------------------------------------------------------------
(***************************************************************************)
(* Publication.  What keeps unscanned content out of the final paths is    *)
(* that the job moves the file it remembers having scanned, so the         *)
(* invariant has to say of the job's memory what it says of the paths.     *)
(***************************************************************************)
ScannedBeforeMove == jobAt = "finalize" => jobSeen.staged \notin Malware

PublicationInv == TypeOK /\ OnlyScannedContentPublished /\ ScannedBeforeMove

LEMMA InitPublicationInv == Init => PublicationInv
  BY InitTypeOK, ProcessingAssumption
  DEF Init, PublicationInv, OnlyScannedContentPublished, ScannedBeforeMove

(* Outside the job the final paths are only ever emptied. *)
LEMMA OthersPublishNothing ==
    ASSUME PublicationInv, [Next]_vars, ~(JobStep \/ UnexpectedError)
    PROVE  OnlyScannedContentPublished' /\ ScannedBeforeMove'
<1> USE DEF PublicationInv, OnlyScannedContentPublished, ScannedBeforeMove,
            jobVars, editVars
<1>1. ASSUME NEW u \in Uploads,
             FindForUpload(u) \/ StageContent(u) \/ StagingFails(u) \/ StorePatch(u)
      PROVE  OnlyScannedContentPublished' /\ ScannedBeforeMove'
  BY <1>1 DEF FindForUpload, StageContent, StagingFails, StorePatch
<1>2. ASSUME NEW e \in Editors,
             \/ \E add, remove \in SUBSET Attachments : PrepareEdit(e, add, remove)
             \/ FindDocument(e) \/ SaveDocument(e) \/ VersionError(e)
      PROVE  OnlyScannedContentPublished' /\ ScannedBeforeMove'
  BY <1>2 DEF PrepareEdit, FindDocument, SaveDocument, VersionError,
                ServerRestarts
<1>3. ASSUME NEW a \in Attachments, DeleteContent(a)
      PROVE  OnlyScannedContentPublished' /\ ScannedBeforeMove'
  <2>1. finalDir' = [finalDir EXCEPT ![a] = None]
    BY <1>3 DEF DeleteContent
  <2>2. OnlyScannedContentPublished'
    BY <2>1, ProcessingAssumption DEF TypeOK
  <2> QED  BY <1>3, <2>2 DEF DeleteContent
<1>4. CASE Crash
  BY <1>4 DEF Crash, ServerRestarts
<1>5. CASE UNCHANGED vars
  BY <1>5 DEF vars
<1> QED
  BY <1>1, <1>2, <1>3, <1>4, <1>5 DEF Next

LEMMA JobPublishesScanned ==
    ASSUME PublicationInv, JobStep \/ UnexpectedError
    PROVE  OnlyScannedContentPublished' /\ ScannedBeforeMove'
<1> USE DEF PublicationInv, OnlyScannedContentPublished, ScannedBeforeMove
<1>1. CASE findPendingAttachments \/ EndBatch
  BY <1>1 DEF findPendingAttachments, EndBatch
<1>2. ASSUME NEW a \in Attachments, FindAttachment(a)
      PROVE  OnlyScannedContentPublished' /\ ScannedBeforeMove'
  BY <1>2 DEF FindAttachment
<1>3. CASE RunPipeline
  <2>1. finalDir' = finalDir /\ jobSeen' = jobSeen
    BY <1>3 DEF RunPipeline
  <2>2. CASE verdict' = "pass"
    <3>1. "pass" \in Outcomes(jobSeen.staged)
      BY <1>3, <2>2 DEF RunPipeline
    <3>2. jobSeen.staged \notin Malware
      BY <3>1 DEF Outcomes
    <3> QED  BY <2>1, <3>2
  <2>3. CASE verdict' = "reject"
    <3>1. jobAt' = "discard"
      BY <1>3, <2>3 DEF RunPipeline
    <3> QED  BY <2>1, <3>1
  <2>4. CASE verdict' \notin {"pass", "reject"}
    <3>1. jobAt' = IF GivesUp THEN "discard" ELSE "patch"
      BY <1>3, <2>4 DEF RunPipeline
    <3> QED  BY <2>1, <3>1
  <2> QED  BY <2>2, <2>3, <2>4
<1>4. CASE SaveContent
  <2>1. jobSeen.staged \notin Malware
    BY <1>4 DEF SaveContent
  <2>2. OnlyScannedContentPublished'
    <3>1. CASE jobSeen.staged \in pendingDir
      <4>1. finalDir' = [finalDir EXCEPT ![jobAtt] = jobSeen.staged]
        BY <1>4, <3>1 DEF SaveContent
      <4> QED  BY <4>1, <2>1 DEF TypeOK
    <3>2. CASE jobSeen.staged \notin pendingDir
      BY <1>4, <3>2 DEF SaveContent
    <3> QED  BY <3>1, <3>2
  <2>3. jobAt' \in {"patch", "next"}
    BY <1>4 DEF SaveContent
  <2> QED  BY <2>2, <2>3
<1>5. CASE DeleteStagedContent \/ PatchProcessed \/ UnexpectedError
  BY <1>5 DEF DeleteStagedContent, PatchProcessed, UnexpectedError
<1> QED
  BY <1>1, <1>2, <1>3, <1>4, <1>5 DEF JobStep

(* Content that a hook would reject never reaches a final path, whatever   *)
(* uploads, edits and crashes come between its scan and its move.          *)
THEOREM PublicationCorrect == Spec => []OnlyScannedContentPublished
<1>1. PublicationInv /\ [Next]_vars => PublicationInv'
  BY NextTypeOK, OthersPublishNothing, JobPublishesScanned DEF PublicationInv
<1>2. PublicationInv => OnlyScannedContentPublished
  BY DEF PublicationInv
<1> QED  BY InitPublicationInv, <1>1, <1>2, PTL DEF Spec
-----------------------------------------------------------------------------
(***************************************************************************)
(* Retries.  The count of failed scans travels in the record: the job      *)
(* writes it to the document, edits carry it in their copies, and an       *)
(* upload takes it over from the record it found.  While each attachment   *)
(* gets one upload, none of these counts a scan that did not happen.       *)
(***************************************************************************)
OneUploadEach == \A u, v \in Uploads : Target[u] = Target[v] => u = v

(* A record of an attachment counts no more than the scans of its upload.  *)
Counted(a, r, up, sc) ==
    /\ r.staged # None => /\ Target[r.staged] = a
                          /\ up[r.staged].at = "done"
                          /\ r.retries <= sc[r.staged]
    /\ r.retries # 0 => \E u \in Uploads : Target[u] = a /\ up[u].at = "done"

RecordsInv ==
    /\ \A a \in Attachments : Counted(a, doc[a], upload, scans)
    /\ \A e \in Editors, a \in Attachments : Counted(a, edit[e].seen[a], upload, scans)
    /\ \A u \in Uploads : upload[u].at \in {"found", "staged"} => upload[u].seen.retries = 0

JobRetryInv ==
    /\ jobAt \notin {"idle", "next"} => Counted(jobAtt, jobSeen, upload, scans)
    /\ jobAt = "finalize" => verdict = "pass"
    /\ jobAt \in {"discard", "patch"} /\ verdict = "error" =>
           IF GivesUp THEN scans[jobSeen.staged] >= RetryLimit
                      ELSE jobAt = "patch" /\ scans[jobSeen.staged] > jobSeen.retries

RetryInv == TypeOK /\ RecordsInv /\ JobRetryInv

(* Uploads that are done stay done, and scans are not taken back. *)
Onward ==
    \A u \in Uploads : /\ upload[u].at = "done" => upload'[u].at = "done"
                       /\ scans[u] \in Nat /\ scans'[u] \in Nat /\ scans[u] <= scans'[u]

LEMMA CountedOnward ==
    ASSUME Onward
    PROVE  \A a, r : r \in AttachmentDoc /\ Counted(a, r, upload, scans) =>
                         Counted(a, r, upload', scans')
<1> SUFFICES ASSUME NEW a, NEW r \in AttachmentDoc, Counted(a, r, upload, scans)
             PROVE  Counted(a, r, upload', scans')
  OBVIOUS
<1>1. r.staged \in Uploads \cup {None} /\ r.retries \in Nat
  BY DEF AttachmentDoc
<1> QED  BY <1>1 DEF Counted, Onward

LEMMA CountedNone ==
    ASSUME NEW a, NEW r, r.staged = None, r.retries = 0, NEW up, NEW sc
    PROVE  Counted(a, r, up, sc)
  BY DEF Counted

LEMMA ScansType == ASSUME TypeOK PROVE \A u \in Uploads : scans[u] \in Nat
  BY ProcessingAssumption DEF TypeOK

(* The job's part, for the steps of others. *)
LEMMA JobApart ==
    ASSUME RetryInv, Onward, UNCHANGED <<jobAt, jobAtt, jobSeen, verdict, scans>>
    PROVE  JobRetryInv'
<1>1. Counted(jobAtt, jobSeen, upload, scans) => Counted(jobAtt, jobSeen, upload', scans')
  BY CountedOnward DEF RetryInv, TypeOK
<1> QED  BY <1>1 DEF RetryInv, JobRetryInv, GivesUp

LEMMA UploadRetry ==
    ASSUME OneUploadEach, RetryInv, NEW u \in Uploads,
           FindForUpload(u) \/ StageContent(u) \/ StagingFails(u) \/ StorePatch(u)
    PROVE  RecordsInv' /\ JobRetryInv'
<1>1. /\ UNCHANGED <<edit, scans, jobAt, jobAtt, jobSeen, verdict>>
      /\ upload[u].at # "done"
      /\ \A v \in Uploads \ {u} : upload'[v] = upload[v]
  BY DEF FindForUpload, StageContent, StagingFails, StorePatch, jobVars, editVars, RetryInv,
         TypeOK
<1>2. Onward
  BY <1>1, ScansType DEF Onward, RetryInv
<1>3. JobRetryInv'
  BY <1>1, <1>2, JobApart
<1>4. Target[u] \in Attachments
  BY ProcessingAssumption
<1>5. /\ \A a \in Attachments : doc[a] \in AttachmentDoc
      /\ \A e \in Editors, a \in Attachments : edit[e].seen[a] \in AttachmentDoc
  BY DEF RetryInv, TypeOK, ObservationDoc, EditState
<1>6. \A e \in Editors, a \in Attachments : Counted(a, edit'[e].seen[a], upload', scans')
  BY <1>1, <1>2, <1>5, CountedOnward DEF RetryInv, RecordsInv
<1>7. \A a \in Attachments : Counted(a, doc[a], upload', scans')
  BY <1>2, <1>5, CountedOnward DEF RetryInv, RecordsInv
<1>8. upload'[u].at \in {"found", "staged"} => upload'[u].seen.retries = 0
  <2>1. CASE FindForUpload(u)
    <3>1. upload[u].at = "idle" /\ upload'[u].seen = doc[Target[u]]
      BY <2>1 DEF FindForUpload, RetryInv, TypeOK
    <3>2. doc[Target[u]].retries = 0
      BY <1>4, <3>1 DEF OneUploadEach, RetryInv, RecordsInv, Counted
    <3> QED  BY <3>1, <3>2
  <2>2. CASE StageContent(u)
    <3>1. upload[u] \in UploadState
      BY DEF RetryInv, TypeOK
    <3>2. upload[u].at = "found" /\ upload'[u].seen = upload[u].seen
      BY <2>2, <3>1 DEF StageContent, UploadState, RetryInv, TypeOK
    <3> QED  BY <3>2 DEF RetryInv, RecordsInv
  <2>3. CASE StagingFails(u) \/ StorePatch(u)
    BY <2>3 DEF StagingFails, StorePatch, Done, RetryInv, TypeOK
  <2> QED  BY <2>1, <2>2, <2>3
<1>9. \A a \in Attachments : Counted(a, doc'[a], upload', scans')
  <2>1. CASE StorePatch(u)
    <3> DEFINE r == Patched("pending", u, upload[u].seen.retries)
    <3>1. r.staged = u /\ r.retries = 0
      BY <2>1 DEF StorePatch, Patched, RetryInv, RecordsInv
    <3>2. upload'[u].at = "done"
      BY <2>1 DEF StorePatch, Done, RetryInv, TypeOK
    <3>3. Counted(Target[u], r, upload', scans')
      <4> HIDE DEF r
      <4> QED  BY <1>2, <3>1, <3>2 DEF Counted, Onward
    <3>4. \A a \in Attachments : doc'[a] = doc[a] \/ (a = Target[u] /\ doc'[a] = r)
      BY <2>1 DEF StorePatch, patchAttachment, RetryInv, TypeOK, ObservationDoc
    <3> HIDE DEF r
    <3> QED  BY <1>7, <3>3, <3>4
  <2>2. CASE ~StorePatch(u)
    <3>1. doc' = doc
      BY <2>2 DEF FindForUpload, StageContent, StagingFails
    <3> QED  BY <1>7, <3>1
  <2> QED  BY <2>1, <2>2
<1>10. RecordsInv'
  <2>1. \A v \in Uploads :
            upload'[v].at \in {"found", "staged"} => upload'[v].seen.retries = 0
    BY <1>1, <1>8 DEF RetryInv, RecordsInv
  <2> QED  BY <1>6, <1>9, <2>1 DEF RecordsInv
<1> QED  BY <1>3, <1>10

LEMMA JobRetry ==
    ASSUME RetryInv, JobStep \/ UnexpectedError
    PROVE  RecordsInv' /\ JobRetryInv'
<1> USE ProcessingAssumption
<1>1. UNCHANGED <<edit, upload>>
  BY DEF JobStep, findPendingAttachments, EndBatch, FindAttachment, RunPipeline, SaveContent,
         DeleteStagedContent, PatchProcessed, UnexpectedError, editVars
<1>2. TypeOK /\ RecordsInv /\ JobRetryInv
  BY DEF RetryInv
<1>3. /\ \A a \in Attachments : doc[a] \in AttachmentDoc
      /\ \A e \in Editors, a \in Attachments : edit[e].seen[a] \in AttachmentDoc
      /\ jobSeen \in AttachmentDoc
  BY <1>2 DEF TypeOK, ObservationDoc, EditState
<1>4. ASSUME scans' = scans PROVE Onward
  BY <1>1, <1>2, <1>4, ScansType DEF Onward
<1>5. ASSUME scans' = scans, doc' = doc PROVE RecordsInv'
  BY <1>1, <1>2, <1>5 DEF RecordsInv
<1>6. CASE findPendingAttachments \/ EndBatch \/ UnexpectedError
  <2>1. doc' = doc /\ scans' = scans /\ jobAt' \in {"idle", "next"}
    BY <1>6 DEF findPendingAttachments, EndBatch, UnexpectedError
  <2>2. JobRetryInv'
    BY <2>1 DEF JobRetryInv
  <2> QED  BY <1>5, <2>1, <2>2
<1>7. ASSUME NEW a \in Attachments, FindAttachment(a)
      PROVE  RecordsInv' /\ JobRetryInv'
  <2>1. doc' = doc /\ scans' = scans
    BY <1>7 DEF FindAttachment
  <2>2. jobAt' = "next" \/ (jobAt' = "scan" /\ jobAtt' = a /\ jobSeen' = doc[a])
    BY <1>7 DEF FindAttachment
  <2>3. Counted(a, doc[a], upload, scans)
    BY <1>2 DEF RecordsInv
  <2>4. Counted(a, doc[a], upload', scans')
    BY <1>1, <2>1, <2>3
  <2>5. JobRetryInv'
    BY <2>2, <2>4 DEF JobRetryInv
  <2> QED  BY <1>5, <2>1, <2>5
<1>8. CASE RunPipeline
  <2> DEFINE u == jobSeen.staged
  <2>1. /\ jobAt = "scan" /\ doc' = doc
        /\ scans' = [scans EXCEPT ![u] = IF @ < RetryLimit THEN @ + 1 ELSE @]
        /\ UNCHANGED <<jobAtt, jobSeen>>
        /\ verdict' = "pass" => jobAt' = "finalize"
        /\ verdict' = "reject" => jobAt' = "discard"
        /\ verdict' = "error" => jobAt' = IF GivesUp THEN "discard" ELSE "patch"
        /\ verdict' \in {"pass", "reject", "error"}
    BY <1>8 DEF RunPipeline, Outcomes
  <2>2. u \in Uploads /\ jobSeen.retries \in Nat
    BY <1>2, <1>3, <2>1 DEF TypeOK, AttachmentDoc
  <2>3. Counted(jobAtt, jobSeen, upload, scans) /\ jobSeen.retries <= scans[u]
    <3>1. Counted(jobAtt, jobSeen, upload, scans)
      BY <1>2, <2>1 DEF JobRetryInv
    <3> QED  BY <2>2, <3>1 DEF Counted
  <2>4. \A v \in Uploads : scans[v] \in Nat
    BY <1>2, ScansType
  <2>5. /\ scans'[u] = IF scans[u] < RetryLimit THEN scans[u] + 1 ELSE scans[u]
        /\ \A v \in Uploads \ {u} : scans'[v] = scans[v]
    BY <1>2, <2>1, <2>2 DEF TypeOK
  <2>6. Onward
    BY <1>1, <2>2, <2>4, <2>5 DEF Onward
  <2>7. RecordsInv'
    BY <1>1, <1>2, <1>3, <2>1, <2>6, CountedOnward DEF RecordsInv
  <2>8. Counted(jobAtt', jobSeen', upload', scans')
    BY <1>3, <2>1, <2>3, <2>6, CountedOnward
  <2>9. IF GivesUp THEN scans'[u] >= RetryLimit ELSE scans'[u] > jobSeen.retries
    BY <2>2, <2>3, <2>4, <2>5 DEF GivesUp
  <2>10. (GivesUp' <=> GivesUp) /\ jobSeen'.staged = u
    BY <2>1 DEF GivesUp
  <2>11. JobRetryInv'
    <3>1. CASE verdict' = "pass"
      BY <2>1, <2>8, <3>1 DEF JobRetryInv
    <3>2. CASE verdict' = "reject"
      BY <2>1, <2>8, <3>2 DEF JobRetryInv
    <3>3. CASE verdict' = "error" /\ GivesUp
      BY <2>1, <2>8, <2>9, <2>10, <3>3 DEF JobRetryInv
    <3>4. CASE verdict' = "error" /\ ~GivesUp
      BY <2>1, <2>8, <2>9, <2>10, <3>4 DEF JobRetryInv
    <3> QED  BY <2>1, <3>1, <3>2, <3>3, <3>4
  <2> QED  BY <2>7, <2>11
<1>9. CASE SaveContent
  <2>1. doc' = doc /\ scans' = scans /\ jobAt = "finalize"
    BY <1>9 DEF SaveContent
  <2>2. jobAt' = "next" \/ (jobAt' = "patch" /\ UNCHANGED <<jobAtt, jobSeen, verdict>>)
    BY <1>9 DEF SaveContent
  <2>3. JobRetryInv'
    BY <1>1, <1>2, <2>1, <2>2 DEF JobRetryInv
  <2> QED  BY <1>5, <2>1, <2>3
<1>10. CASE DeleteStagedContent
  <2>1. /\ doc' = doc /\ scans' = scans /\ jobAt = "discard" /\ jobAt' = "patch"
        /\ UNCHANGED <<jobAtt, jobSeen, verdict>>
    BY <1>10 DEF DeleteStagedContent
  <2>2. JobRetryInv'
    BY <1>1, <1>2, <2>1 DEF JobRetryInv, GivesUp
  <2> QED  BY <1>5, <2>1, <2>2
<1>11. CASE PatchProcessed
  <2>1. /\ jobAt = "patch" /\ jobAt' = "next" /\ scans' = scans
        /\ patchAttachment(jobAtt, Processed)
    BY <1>11 DEF PatchProcessed
  <2>2. Counted(jobAtt, jobSeen, upload, scans) /\ jobSeen.staged \in Uploads
        /\ jobSeen.retries \in Nat
    BY <1>2, <1>3, <2>1 DEF JobRetryInv, TypeOK, AttachmentDoc
  <2>3. Counted(jobAtt, Processed, upload, scans)
    <3> DEFINE u == jobSeen.staged
    <3>1. Target[u] = jobAtt /\ upload[u].at = "done" /\ jobSeen.retries <= scans[u]
      BY <2>2 DEF Counted
    <3>2. PICK r : r = Processed
      OBVIOUS
    <3>3. \/ r.staged = None
          \/ r.staged = u /\ r.retries <= scans[u]
      <4>1. CASE verdict = "pass"
        BY <3>2, <4>1 DEF Processed, Patched
      <4>2. CASE verdict = "reject"
        BY <3>2, <4>2 DEF Processed, Patched
      <4>3. CASE verdict = "error" /\ GivesUp
        BY <3>2, <4>3 DEF Processed, Patched
      <4>4. CASE verdict = "error" /\ ~GivesUp
        <5>1. r.staged = u /\ r.retries = jobSeen.retries + 1
          BY <3>2, <4>4 DEF Processed, Patched
        <5>2. scans[u] > jobSeen.retries /\ scans[u] \in Nat
          BY <1>2, <2>1, <2>2, <4>4, ScansType DEF JobRetryInv
        <5> QED  BY <2>2, <5>1, <5>2
      <4> QED  BY <1>2, <4>1, <4>2, <4>3, <4>4 DEF TypeOK
    <3> QED  BY <2>2, <3>1, <3>2, <3>3 DEF Counted
  <2>4. \A a \in Attachments : doc'[a] = doc[a] \/ (a = jobAtt /\ doc'[a] = Processed)
    BY <1>2, <2>1 DEF patchAttachment, TypeOK, ObservationDoc
  <2>5. RecordsInv'
    BY <1>1, <1>2, <2>1, <2>3, <2>4 DEF RecordsInv
  <2>6. JobRetryInv'
    BY <2>1 DEF JobRetryInv
  <2> QED  BY <2>5, <2>6
<1> QED
  BY <1>6, <1>7, <1>8, <1>9, <1>10, <1>11 DEF JobStep

LEMMA RestartRetry ==
    ASSUME RetryInv, ServerRestarts
    PROVE  RecordsInv' /\ JobRetryInv'
<1>1. /\ UNCHANGED <<doc, scans>> /\ jobAt' = "idle"
      /\ upload' = [u \in Uploads |-> IF upload[u].at = "idle" THEN upload[u] ELSE Done]
      /\ edit' = [e \in Editors |-> NoEdit(NoDoc)]
  BY DEF ServerRestarts
<1>2. \A u \in Uploads : upload'[u].at \in {"idle", "done"}
                         /\ (upload[u].at = "done" => upload'[u].at = "done")
  BY <1>1 DEF Done
<1>3. Onward
  BY <1>1, <1>2, ScansType DEF Onward, RetryInv
<1>4. \A a \in Attachments : Counted(a, doc'[a], upload', scans')
  <2>1. \A a \in Attachments : doc[a] \in AttachmentDoc
    BY DEF RetryInv, TypeOK, ObservationDoc
  <2> QED  BY <1>1, <1>3, <2>1, CountedOnward DEF RetryInv, RecordsInv
<1>5. \A e \in Editors, a \in Attachments : Counted(a, edit'[e].seen[a], upload', scans')
  <2>1. \A e \in Editors, a \in Attachments : edit'[e].seen[a] = Absent
    BY <1>1 DEF NoEdit, NoDoc
  <2>2. Absent.staged = None /\ Absent.retries = 0
    BY DEF Absent
  <2> QED  BY <2>1, <2>2, CountedNone
<1>6. RecordsInv'
  BY <1>2, <1>4, <1>5 DEF RecordsInv
<1>7. JobRetryInv'
  BY <1>1 DEF JobRetryInv
<1> QED  BY <1>6, <1>7

(* An edit writes, and reads, records that were on the document. *)
LEMMA EditRetry ==
    ASSUME RetryInv, NEW e \in Editors,
           \/ \E add, remove \in SUBSET Attachments : PrepareEdit(e, add, remove)
           \/ FindDocument(e) \/ SaveDocument(e) \/ VersionError(e)
    PROVE  RecordsInv' /\ JobRetryInv'
<1>1. CASE VersionError(e)
  BY <1>1, RestartRetry DEF VersionError
<1>2. CASE ~VersionError(e)
  <2>1. UNCHANGED <<upload, scans, jobAt, jobAtt, jobSeen, verdict>>
    BY <1>2 DEF PrepareEdit, FindDocument, SaveDocument, jobVars
  <2>2. Onward
    BY <2>1, ScansType DEF Onward, RetryInv
  <2>3. JobRetryInv'
    BY <2>1, <2>2, JobApart
  <2>4. \A a : Counted(a, Absent, upload, scans) /\ Counted(a, Fresh, upload, scans)
    <3>1. Absent.staged = None /\ Absent.retries = 0 /\ Fresh.staged = None
          /\ Fresh.retries = 0
      BY DEF Absent, Fresh
    <3> QED  BY <3>1, CountedNone
  <2>5. \A a \in Attachments : Counted(a, doc'[a], upload, scans)
    <3>1. doc' = doc \/ doc' = Edited(e)
      BY <1>2 DEF PrepareEdit, FindDocument, SaveDocument
    <3>2. \A a \in Attachments : Edited(e)[a] \in {Absent, Fresh, edit[e].seen[a]}
      BY DEF Edited
    <3> QED  BY <2>4, <3>1, <3>2 DEF RetryInv, RecordsInv
  <2>6. \A f \in Editors, a \in Attachments :
            edit'[f].seen[a] \in {Absent, doc[a], edit[f].seen[a]}
    <3>1. ASSUME NEW add \in SUBSET Attachments, NEW remove \in SUBSET Attachments,
                 PrepareEdit(e, add, remove)
          PROVE  \A f \in Editors : edit'[f].seen \in {doc, edit[f].seen}
      BY <3>1 DEF PrepareEdit, NoEdit, RetryInv, TypeOK
    <3>2. CASE FindDocument(e)
      <4>1. edit' = [edit EXCEPT ![e] = [edit[e] EXCEPT !.at = "saving", !.base = doc,
                                                       !.stale = FALSE]]
        BY <3>2 DEF FindDocument, RetryInv, TypeOK
      <4>2. edit[e] \in EditState
        BY DEF RetryInv, TypeOK
      <4>3. [edit[e] EXCEPT !.at = "saving", !.base = doc, !.stale = FALSE].seen = edit[e].seen
        BY <4>2 DEF EditState
      <4> QED  BY <4>1, <4>3 DEF RetryInv, TypeOK
    <3>3. CASE SaveDocument(e)
      <4>1. \A f \in Editors : [edit[f] EXCEPT !.stale = TRUE].seen = edit[f].seen
        BY DEF RetryInv, TypeOK, EditState
      <4>2. \A f \in Editors : edit'[f].seen \in {NoDoc, edit[f].seen}
        BY <3>3, <4>1 DEF SaveDocument, NoEdit
      <4> QED  BY <4>2 DEF NoDoc
    <3> QED  BY <1>2, <3>1, <3>2, <3>3
  <2>7. RecordsInv'
    BY <2>1, <2>4, <2>5, <2>6 DEF RetryInv, RecordsInv
  <2> QED  BY <2>3, <2>7
<1> QED  BY <1>1, <1>2

LEMMA InitRetryInv == Init => RetryInv
<1> SUFFICES ASSUME Init PROVE RetryInv
  OBVIOUS
<1>1. TypeOK
  BY InitTypeOK
<1>2. Absent.staged = None /\ Absent.retries = 0 /\ Fresh.staged = None /\ Fresh.retries = 0
  BY DEF Absent, Fresh
<1>3. \A a \in Attachments : doc[a].staged = None /\ doc[a].retries = 0
  BY <1>2 DEF Init
<1>4. \A e \in Editors, a \in Attachments :
          edit[e].seen[a].staged = None /\ edit[e].seen[a].retries = 0
  BY <1>2 DEF Init, NoEdit, NoDoc
<1>5. RecordsInv
  BY <1>3, <1>4, CountedNone DEF Init, RecordsInv
<1>6. JobRetryInv
  BY DEF Init, JobRetryInv
<1> QED  BY <1>1, <1>5, <1>6 DEF RetryInv

LEMMA NextRetryInv ==
    ASSUME OneUploadEach
    PROVE  RetryInv /\ [Next]_vars => RetryInv'
<1> SUFFICES ASSUME RetryInv, [Next]_vars PROVE RecordsInv' /\ JobRetryInv'
  BY NextTypeOK DEF RetryInv
<1>1. ASSUME \/ \E a \in Attachments : DeleteContent(a)
             \/ UNCHANGED vars
      PROVE  RecordsInv' /\ JobRetryInv'
  <2>1. UNCHANGED <<doc, edit, upload, scans, jobAt, jobAtt, jobSeen, verdict>>
    BY <1>1 DEF DeleteContent, vars, jobVars, editVars
  <2> QED  BY <2>1 DEF RetryInv, RecordsInv, JobRetryInv, GivesUp
<1>2. CASE Crash
  BY <1>2, RestartRetry DEF Crash
<1> QED
  BY <1>1, <1>2, UploadRetry, JobRetry, EditRetry DEF Next

(* While each attachment gets one upload, a hook that fails on it is asked *)
(* RetryLimit times before the upload is given up, whatever is edited and  *)
(* however often the server dies in between (processPendingAttachment).    *)
THEOREM RetriesBeforeGivingUpCorrect ==
    ASSUME OneUploadEach
    PROVE  Spec => []RetriesBeforeGivingUp
<1>1. RetryInv => RetriesBeforeGivingUp
  BY DEF RetryInv, JobRetryInv, RetriesBeforeGivingUp
<1> QED  BY <1>1, InitRetryInv, NextRetryInv, PTL DEF Spec
-----------------------------------------------------------------------------
(***************************************************************************)
(* Removal.  While one client edits the observation, its copy has the      *)
(* attachments the document has, and what was removed is gone for good:    *)
(* from the document, from the copy, and from what is still to be added.   *)
(* Only then may its content be deleted.                                   *)
(***************************************************************************)
OneEditor == \A e, f \in Editors : e = f

IsAbsent(r) == r.status = "absent"

Gone(a) == a \in issued /\ IsAbsent(doc[a]) /\ \A e \in Editors : a \notin edit[e].add

CopyInv(e) ==
    /\ IF edit[e].at = "idle" THEN edit[e].add = {} /\ edit[e].remove = {}
       ELSE \A a \in Attachments : IsAbsent(edit[e].seen[a]) <=> IsAbsent(doc[a])
    /\ edit[e].at = "saving" =>
           \A a \in Attachments : IsAbsent(edit[e].base[a]) <=> IsAbsent(doc[a])
    /\ \A a \in edit[e].add : a \in issued /\ IsAbsent(doc[a])
    /\ \A a \in edit[e].remove : ~IsAbsent(doc[a])
    /\ edit[e].at # "idle" =>
           \A a \in Attachments : edit[e].seen[a].status = "success" => finalDir[a] # None

EditInv ==
    /\ \A a \in Attachments : ~IsAbsent(doc[a]) => a \in issued
    /\ \A e \in Editors : CopyInv(e)
    /\ \A a \in removing : Gone(a)

(* The job says success once the content is there, or to no one. *)
MovedInv ==
    /\ jobAt = "discard" => verdict # "pass"
    /\ jobAt = "patch" /\ verdict = "pass" => finalDir[jobAtt] # None \/ Gone(jobAtt)

ContentInv == TypeOK /\ EditInv /\ MovedInv /\ SuccessHasContent

(* Steps that leave the edits alone, and content and attachments in place. *)
LEMMA SameAttachments ==
    ASSUME ContentInv, UNCHANGED <<edit, issued, removing>>,
           \A a \in Attachments : IsAbsent(doc'[a]) <=> IsAbsent(doc[a]),
           \A a \in Attachments : finalDir[a] # None => finalDir'[a] # None
    PROVE  EditInv' /\ \A a \in Attachments : Gone(a) => Gone(a)'
<1>1. \A a \in Attachments : Gone(a) => Gone(a)'
  BY DEF Gone, IsAbsent
<1>2. \A e \in Editors : edit[e] \in EditState
  BY DEF ContentInv, TypeOK
<1>3. ASSUME NEW e \in Editors PROVE CopyInv(e)'
  <2>1. CopyInv(e) /\ edit[e].add \subseteq Attachments /\ edit[e].remove \subseteq Attachments
    BY <1>2 DEF ContentInv, EditInv, EditState
  <2> QED  BY <2>1 DEF CopyInv, IsAbsent
<1>4. removing \subseteq Attachments
  BY DEF ContentInv, TypeOK
<1> QED  BY <1>1, <1>3, <1>4 DEF ContentInv, EditInv, IsAbsent

LEMMA patchAttachmentPresence ==
    ASSUME TypeOK, NEW a, NEW r, r.status # "absent", patchAttachment(a, r)
    PROVE  \A b \in Attachments :
               /\ IsAbsent(doc'[b]) <=> IsAbsent(doc[b])
               /\ doc'[b] = doc[b] \/ (b = a /\ ~IsAbsent(doc[b]) /\ doc'[b] = r)
  BY DEF TypeOK, patchAttachment, ObservationDoc, IsAbsent

LEMMA UploadContent ==
    ASSUME ContentInv, NEW u \in Uploads,
           FindForUpload(u) \/ StageContent(u) \/ StagingFails(u) \/ StorePatch(u)
    PROVE  EditInv' /\ MovedInv' /\ SuccessHasContent'
<1>1. UNCHANGED <<edit, issued, removing, finalDir, jobAt, jobAtt, verdict>>
  BY DEF FindForUpload, StageContent, StagingFails, StorePatch, jobVars, editVars
<1>2. \A a \in Attachments : /\ IsAbsent(doc'[a]) <=> IsAbsent(doc[a])
                             /\ doc'[a] = doc[a] \/ doc'[a].status = "pending"
  <2>1. CASE StorePatch(u)
    <3> DEFINE r == Patched("pending", u, upload[u].seen.retries)
    <3>1. r.status = "pending" /\ patchAttachment(Target[u], r)
      BY <2>1 DEF StorePatch, Patched
    <3> HIDE DEF r
    <3> QED  BY <3>1, patchAttachmentPresence DEF ContentInv
  <2>2. CASE ~StorePatch(u)
    BY <2>2 DEF FindForUpload, StageContent, StagingFails
  <2> QED  BY <2>1, <2>2
<1>3. EditInv' /\ \A a \in Attachments : Gone(a) => Gone(a)'
  BY <1>1, <1>2, SameAttachments
<1>4. MovedInv'
  BY <1>1, <1>3 DEF ContentInv, MovedInv, TypeOK
<1>5. SuccessHasContent'
  BY <1>1, <1>2 DEF ContentInv, SuccessHasContent
<1> QED  BY <1>3, <1>4, <1>5

LEMMA ProcessedStatus ==
    ASSUME TypeOK
    PROVE  /\ Processed.status # "absent"
           /\ Processed.status = "success" => verdict = "pass"
<1>1. CASE verdict = "pass"
  BY <1>1 DEF Processed, Patched
<1>2. CASE verdict = "reject"
  BY <1>2 DEF Processed, Patched
<1>3. CASE verdict = "error"
  <2>1. CASE GivesUp
    BY <1>3, <2>1 DEF Processed, Patched
  <2>2. CASE ~GivesUp
    BY <1>3, <2>2 DEF Processed, Patched
  <2> QED  BY <2>1, <2>2
<1> QED  BY <1>1, <1>2, <1>3 DEF TypeOK

LEMMA JobContent ==
    ASSUME ContentInv, JobStep \/ UnexpectedError
    PROVE  EditInv' /\ MovedInv' /\ SuccessHasContent'
<1> USE ProcessingAssumption
<1>1. UNCHANGED <<edit, issued, removing>>
  BY DEF JobStep, findPendingAttachments, EndBatch, FindAttachment, RunPipeline, SaveContent,
         DeleteStagedContent, PatchProcessed, UnexpectedError, editVars
<1>2. TypeOK /\ EditInv /\ MovedInv /\ SuccessHasContent
  BY DEF ContentInv
<1>3. ASSUME doc' = doc, \A a \in Attachments : finalDir[a] # None => finalDir'[a] # None
      PROVE  EditInv' /\ SuccessHasContent' /\ \A a \in Attachments : Gone(a) => Gone(a)'
  BY <1>1, <1>3, SameAttachments DEF ContentInv, SuccessHasContent
<1>4. CASE findPendingAttachments \/ EndBatch \/ UnexpectedError
           \/ \E a \in Attachments : FindAttachment(a)
  <2>1. UNCHANGED <<doc, finalDir>> /\ jobAt' \in {"idle", "next", "scan"}
    BY <1>4 DEF findPendingAttachments, EndBatch, UnexpectedError, FindAttachment
  <2>2. MovedInv'
    BY <2>1 DEF MovedInv
  <2> QED  BY <1>3, <2>1, <2>2
<1>5. CASE RunPipeline
  <2>1. /\ UNCHANGED <<doc, finalDir>>
        /\ verdict' = "pass" => jobAt' = "finalize"
    BY <1>5 DEF RunPipeline
  <2>2. MovedInv'
    BY <2>1 DEF MovedInv
  <2> QED  BY <1>3, <2>1, <2>2
<1>6. CASE SaveContent
  <2>1. jobAtt \in Attachments /\ jobSeen.staged # None /\ doc' = doc
    BY <1>2, <1>6 DEF SaveContent, TypeOK
  <2>2. CASE jobSeen.staged \in pendingDir
    <3>1. finalDir' = [finalDir EXCEPT ![jobAtt] = jobSeen.staged]
          /\ jobAt' = "patch" /\ jobAtt' = jobAtt
      BY <1>6, <2>2 DEF SaveContent
    <3>2. finalDir'[jobAtt] # None /\ \A a \in Attachments \ {jobAtt} : finalDir'[a] = finalDir[a]
      BY <1>2, <2>1, <3>1 DEF TypeOK
    <3>3. MovedInv'
      BY <3>1, <3>2 DEF MovedInv
    <3> QED  BY <1>3, <2>1, <3>2, <3>3
  <2>3. CASE jobSeen.staged \notin pendingDir
    <3>1. finalDir' = finalDir /\ jobAt' = "next"
      BY <1>6, <2>3 DEF SaveContent
    <3>2. MovedInv'
      BY <3>1 DEF MovedInv
    <3> QED  BY <1>3, <2>1, <3>1, <3>2
  <2> QED  BY <2>2, <2>3
<1>7. CASE DeleteStagedContent
  <2>1. UNCHANGED <<doc, finalDir, verdict>> /\ jobAt = "discard" /\ jobAt' = "patch"
    BY <1>7 DEF DeleteStagedContent
  <2>2. MovedInv'
    BY <1>2, <2>1 DEF MovedInv
  <2> QED  BY <1>3, <2>1, <2>2
<1>8. CASE PatchProcessed
  <2>1. /\ jobAt = "patch" /\ jobAt' = "next" /\ finalDir' = finalDir
        /\ patchAttachment(jobAtt, Processed)
    BY <1>8 DEF PatchProcessed
  <2>2. \A b \in Attachments :
            /\ IsAbsent(doc'[b]) <=> IsAbsent(doc[b])
            /\ doc'[b] = doc[b] \/ (b = jobAtt /\ ~IsAbsent(doc[b]) /\ doc'[b] = Processed)
    BY <1>2, <2>1, ProcessedStatus, patchAttachmentPresence
  <2>3. EditInv'
    BY <1>1, <2>1, <2>2, SameAttachments
  <2>4. MovedInv'
    BY <2>1 DEF MovedInv
  <2>5. SuccessHasContent'
    <3>1. ASSUME NEW a \in Attachments, doc'[a].status = "success" PROVE finalDir[a] # None
      <4>1. CASE doc'[a] = doc[a]
        BY <1>2, <3>1, <4>1 DEF SuccessHasContent
      <4>2. CASE a = jobAtt /\ ~IsAbsent(doc[a]) /\ doc'[a] = Processed
        <5>1. verdict = "pass"
          BY <1>2, <3>1, <4>2, ProcessedStatus
        <5> QED  BY <1>2, <2>1, <4>2, <5>1 DEF MovedInv, Gone
      <4> QED  BY <2>2, <4>1, <4>2
    <3> QED  BY <2>1, <3>1 DEF SuccessHasContent
  <2> QED  BY <2>3, <2>4, <2>5
<1> QED
  BY <1>4, <1>5, <1>6, <1>7, <1>8 DEF JobStep

LEMMA RestartContent ==
    ASSUME ContentInv, ServerRestarts
    PROVE  EditInv' /\ MovedInv' /\ SuccessHasContent'
<1>1. /\ UNCHANGED <<doc, finalDir, issued>> /\ jobAt' = "idle" /\ removing' = {}
      /\ edit' = [e \in Editors |-> NoEdit(NoDoc)]
  BY DEF ServerRestarts
<1>2. \A e \in Editors : edit'[e].at = "idle" /\ edit'[e].add = {} /\ edit'[e].remove = {}
  BY <1>1 DEF NoEdit
<1>3. \A e \in Editors : CopyInv(e)'
  BY <1>2 DEF CopyInv
<1> QED
  BY <1>1, <1>3 DEF ContentInv, EditInv, MovedInv, SuccessHasContent

LEMMA DeleteKeepsContent ==
    ASSUME ContentInv, NEW a \in Attachments, DeleteContent(a)
    PROVE  EditInv' /\ MovedInv' /\ SuccessHasContent'
<1>1. /\ UNCHANGED <<doc, edit, issued, jobAt, jobAtt, verdict>>
      /\ removing' = removing \ {a} /\ Gone(a)
      /\ \A b \in Attachments \ {a} : finalDir'[b] = finalDir[b]
  BY DEF DeleteContent, jobVars, ContentInv, EditInv, TypeOK
<1>2. \A b : Gone(b)' <=> Gone(b)
  BY <1>1 DEF Gone
<1>3. ASSUME NEW e \in Editors PROVE CopyInv(e)'
  <2>1. CopyInv(e)
    BY DEF ContentInv, EditInv
  <2>2. edit[e].at # "idle" => edit[e].seen[a].status = "absent"
    BY <1>1, <2>1 DEF CopyInv, Gone, IsAbsent
  <2> QED  BY <1>1, <2>1, <2>2 DEF CopyInv
<1>4. EditInv'
  BY <1>1, <1>2, <1>3 DEF ContentInv, EditInv
<1>5. MovedInv'
  <2>1. jobAt = "patch" => jobAtt \in Attachments
    BY DEF ContentInv, TypeOK
  <2> QED  BY <1>1, <1>2, <2>1 DEF ContentInv, MovedInv
<1>6. SuccessHasContent'
  BY <1>1 DEF ContentInv, SuccessHasContent, Gone, IsAbsent
<1> QED  BY <1>4, <1>5, <1>6

(* What the steps of one client's edit do to its own entry. *)
LEMMA PreparedEdit ==
    ASSUME TypeOK, NEW e \in Editors, NEW add, NEW remove, PrepareEdit(e, add, remove)
    PROVE  /\ edit'[e].at = "prepared" /\ edit'[e].seen = doc
           /\ edit'[e].add = add /\ edit'[e].remove = remove
<1>1. edit'[e] = [NoEdit(doc) EXCEPT !.at = "prepared", !.add = add, !.remove = remove]
  BY DEF PrepareEdit, TypeOK
<1> QED  BY <1>1 DEF NoEdit

LEMMA FoundEdit ==
    ASSUME TypeOK, NEW e \in Editors, FindDocument(e)
    PROVE  /\ edit'[e].at = "saving" /\ edit'[e].base = doc /\ edit'[e].seen = edit[e].seen
           /\ edit'[e].add = edit[e].add /\ edit'[e].remove = edit[e].remove
<1>1. edit' = [edit EXCEPT ![e] = [edit[e] EXCEPT !.at = "saving", !.base = doc,
                                                 !.stale = FALSE]]
  BY DEF FindDocument, TypeOK
<1>2. edit'[e] = [edit[e] EXCEPT !.at = "saving", !.base = doc, !.stale = FALSE]
  BY <1>1 DEF TypeOK
<1>3. edit[e] \in EditState
  BY DEF TypeOK
<1> QED  BY <1>2, <1>3 DEF EditState

(* A save puts on the document what it adds, and removes what it removes. *)
LEMMA SavedEdit ==
    ASSUME ContentInv, NEW e \in Editors, SaveDocument(e)
    PROVE  \A a \in Attachments :
               /\ a \in edit[e].remove => IsAbsent(doc'[a])
               /\ IsAbsent(doc[a]) /\ ~IsAbsent(doc'[a]) => a \in edit[e].add
               /\ doc'[a].status = "success" => finalDir[a] # None
<1>1. CopyInv(e) /\ edit[e].at = "saving" /\ SuccessHasContent
  BY DEF ContentInv, EditInv, SaveDocument
<1>2. ASSUME NEW a \in Attachments
      PROVE  /\ a \in edit[e].remove => IsAbsent(Edited(e)[a])
             /\ IsAbsent(doc[a]) /\ ~IsAbsent(Edited(e)[a]) => a \in edit[e].add
             /\ Edited(e)[a].status = "success" => finalDir[a] # None
  <2>1. CASE a \in edit[e].remove
    BY <1>1, <2>1 DEF Edited, Absent, IsAbsent
  <2>2. CASE a \notin edit[e].remove /\ a \in edit[e].add
    BY <2>2 DEF Edited, Fresh
  <2>3. CASE a \notin edit[e].remove /\ a \notin edit[e].add
    <3>1. Edited(e)[a] = edit[e].seen[a]
      BY <2>3 DEF Edited
    <3> QED  BY <1>1, <2>3, <3>1 DEF CopyInv
  <2> QED  BY <2>1, <2>2, <2>3
<1>3. CASE Edited(e) # edit[e].base
  <2>1. doc' = Edited(e)
    BY <1>3 DEF SaveDocument
  <2> QED  BY <1>2, <2>1
<1>4. CASE Edited(e) = edit[e].base
  <2>1. doc' = doc
    BY <1>4 DEF SaveDocument
  <2>2. \A a \in Attachments : a \notin edit[e].remove
    BY <1>1, <1>2, <1>4 DEF CopyInv
  <2> QED  BY <1>1, <2>1, <2>2 DEF SuccessHasContent
<1> QED  BY <1>3, <1>4

LEMMA EditContent ==
    ASSUME OneEditor, ContentInv, NEW e \in Editors,
           \/ \E add, remove \in SUBSET Attachments : PrepareEdit(e, add, remove)
           \/ FindDocument(e) \/ SaveDocument(e) \/ VersionError(e)
    PROVE  EditInv' /\ MovedInv' /\ SuccessHasContent'
<1>1. TypeOK /\ EditInv /\ MovedInv /\ SuccessHasContent
  BY DEF ContentInv
<1>2. Editors = {e}
  BY DEF OneEditor
<1>3. jobAt = "patch" => jobAtt \in Attachments
  BY <1>1 DEF TypeOK
<1>4. ASSUME NEW add \in SUBSET Attachments, NEW remove \in SUBSET Attachments,
             PrepareEdit(e, add, remove)
      PROVE  EditInv' /\ MovedInv' /\ SuccessHasContent'
  <2>1. /\ edit'[e].at = "prepared" /\ edit'[e].seen = doc
        /\ edit'[e].add = add /\ edit'[e].remove = remove
    BY <1>1, <1>4, PreparedEdit
  <2>2. /\ UNCHANGED <<doc, finalDir, jobAt, jobAtt, verdict, removing>>
        /\ issued' = issued \cup add /\ add \cap issued = {} /\ remove \subseteq Present(doc)
        /\ edit[e].at = "idle"
    BY <1>4 DEF PrepareEdit, jobVars
  <2>3. edit[e].add = {}
    BY <1>1, <2>2 DEF EditInv, CopyInv
  <2>4. CopyInv(e)'
    <3>1. \A a \in add : a \in issued' /\ IsAbsent(doc[a])
      BY <1>1, <2>2 DEF EditInv
    <3>2. \A a \in remove : ~IsAbsent(doc[a])
      BY <2>2 DEF Present, IsAbsent
    <3> QED  BY <1>1, <2>1, <2>2, <3>1, <3>2 DEF CopyInv, IsAbsent, SuccessHasContent
  <2>5. \A a : Gone(a) => Gone(a)'
    BY <1>2, <2>1, <2>2 DEF Gone, IsAbsent
  <2>6. EditInv'
    BY <1>1, <1>2, <2>2, <2>4, <2>5 DEF EditInv, IsAbsent
  <2> QED  BY <1>1, <2>2, <2>5, <2>6 DEF MovedInv, SuccessHasContent
<1>5. CASE FindDocument(e)
  <2>1. /\ edit'[e].at = "saving" /\ edit'[e].base = doc /\ edit'[e].seen = edit[e].seen
        /\ edit'[e].add = edit[e].add /\ edit'[e].remove = edit[e].remove
    BY <1>1, <1>5, FoundEdit
  <2>2. /\ UNCHANGED <<doc, finalDir, jobAt, jobAtt, verdict, removing, issued>>
        /\ edit[e].at = "prepared"
    BY <1>5 DEF FindDocument, jobVars
  <2>3. CopyInv(e)'
    <3>1. CopyInv(e)
      BY <1>1 DEF EditInv
    <3> QED  BY <2>1, <2>2, <3>1 DEF CopyInv, IsAbsent
  <2>4. \A a : Gone(a) => Gone(a)'
    BY <1>2, <2>1, <2>2 DEF Gone, IsAbsent
  <2>5. EditInv'
    BY <1>1, <1>2, <2>2, <2>3, <2>4 DEF EditInv, IsAbsent
  <2> QED  BY <1>1, <2>2, <2>4, <2>5 DEF MovedInv, SuccessHasContent
<1>6. CASE SaveDocument(e)
  <2>1. /\ UNCHANGED <<finalDir, jobAt, jobAtt, verdict, issued>>
        /\ removing' = removing \cup edit[e].remove
    BY <1>6 DEF SaveDocument, jobVars
  <2>2. edit'[e].at = "idle" /\ edit'[e].add = {} /\ edit'[e].remove = {}
    BY <1>6 DEF SaveDocument, NoEdit
  <2>3. CopyInv(e)'
    BY <2>2 DEF CopyInv
  <2>4. CopyInv(e) /\ edit[e] \in EditState
    BY <1>1 DEF EditInv, TypeOK
  <2>5. \A a \in Attachments :
            /\ a \in edit[e].remove => IsAbsent(doc'[a])
            /\ IsAbsent(doc[a]) /\ ~IsAbsent(doc'[a]) => a \in edit[e].add
            /\ doc'[a].status = "success" => finalDir[a] # None
    BY <1>6, SavedEdit
  <2>6. \A a \in Attachments : Gone(a) => Gone(a)'
    BY <1>2, <2>1, <2>2, <2>5 DEF Gone, IsAbsent
  <2>7. \A a \in edit[e].remove : Gone(a)'
    <3>1. edit[e].remove \subseteq Attachments
      BY <2>4 DEF EditState
    <3>2. \A a \in edit[e].remove : a \in issued
      BY <1>1, <2>4, <3>1 DEF EditInv, CopyInv
    <3> QED  BY <1>2, <2>1, <2>2, <2>5, <3>1, <3>2 DEF Gone, IsAbsent
  <2>8. \A a \in Attachments : ~IsAbsent(doc'[a]) => a \in issued
    BY <1>1, <2>4, <2>5 DEF EditInv, CopyInv
  <2>9. removing \subseteq Attachments
    BY <1>1 DEF TypeOK
  <2>10. EditInv'
    BY <1>1, <1>2, <2>1, <2>3, <2>6, <2>7, <2>8, <2>9 DEF EditInv, IsAbsent
  <2>11. MovedInv'
    BY <1>1, <1>3, <2>1, <2>6 DEF MovedInv
  <2>12. SuccessHasContent'
    BY <2>1, <2>5 DEF SuccessHasContent
  <2> QED  BY <2>10, <2>11, <2>12
<1>7. CASE VersionError(e)
  BY <1>7, RestartContent DEF VersionError
<1> QED  BY <1>4, <1>5, <1>6, <1>7

LEMMA InitContentInv == Init => ContentInv
<1> SUFFICES ASSUME Init PROVE ContentInv
  OBVIOUS
<1>1. \A a \in Attachments : doc[a].status # "success" /\ (a \notin Saved => IsAbsent(doc[a]))
  BY DEF Init, Absent, Fresh, IsAbsent
<1>2. \A e \in Editors : edit[e].at = "idle" /\ edit[e].add = {} /\ edit[e].remove = {}
  BY DEF Init, NoEdit
<1>3. \A e \in Editors : CopyInv(e)
  BY <1>2 DEF CopyInv
<1> QED
  BY <1>1, <1>3, InitTypeOK DEF Init, ContentInv, EditInv, MovedInv, SuccessHasContent

LEMMA NextContentInv ==
    ASSUME OneEditor
    PROVE  ContentInv /\ [Next]_vars => ContentInv'
<1> SUFFICES ASSUME ContentInv, [Next]_vars
             PROVE  EditInv' /\ MovedInv' /\ SuccessHasContent'
  BY NextTypeOK DEF ContentInv
<1>1. CASE Crash
  BY <1>1, RestartContent DEF Crash
<1>2. CASE UNCHANGED vars
  <2>1. UNCHANGED <<doc, edit, issued, removing, finalDir, jobAt, jobAtt, verdict>>
    BY <1>2 DEF vars, jobVars, editVars
  <2>2. EditInv' /\ \A a \in Attachments : Gone(a) => Gone(a)'
    BY <2>1, SameAttachments
  <2> QED  BY <2>1, <2>2 DEF ContentInv, TypeOK, MovedInv, SuccessHasContent
<1> QED
  BY <1>1, <1>2, UploadContent, JobContent, EditContent, DeleteKeepsContent DEF Next

(* While one client at a time edits the observation, an attachment that    *)
(* says "success" has its content in place, whatever the uploads, the job, *)
(* the deletions of removed content and crashes do (processPendingAttachment, *)
(* SaveObservation, the AttachmentsRemoved handler).                       *)
THEOREM SuccessHasContentCorrect ==
    ASSUME OneEditor
    PROVE  Spec => []SuccessHasContent
<1>1. ContentInv => SuccessHasContent
  BY DEF ContentInv
<1> QED  BY <1>1, InitContentInv, NextContentInv, PTL DEF Spec

(* While one client at a time edits the observation, no upload and no job  *)
(* step brings a removed attachment back, and no edit does but the one     *)
(* that adds it (patchAttachment, assignTo).                               *)
THEOREM RemovedStaysRemovedCorrect ==
    ASSUME OneEditor
    PROVE  Spec => RemovedStaysRemoved
<1>1. ASSUME ContentInv, Next
      PROVE  \A a \in Attachments :
                 IsAbsent(doc[a]) /\ ~IsAbsent(doc'[a]) => \E e \in Editors : a \in edit[e].add
  <2>1. TypeOK
    BY <1>1 DEF ContentInv
  <2>2. ASSUME NEW u \in Uploads, StorePatch(u)
        PROVE  \A a \in Attachments : IsAbsent(doc'[a]) <=> IsAbsent(doc[a])
    <3> DEFINE r == Patched("pending", u, upload[u].seen.retries)
    <3>1. r.status # "absent" /\ patchAttachment(Target[u], r)
      BY <2>2 DEF StorePatch, Patched
    <3> HIDE DEF r
    <3> QED  BY <2>1, <3>1, patchAttachmentPresence
  <2>3. CASE PatchProcessed
    BY <2>1, <2>3, ProcessedStatus, patchAttachmentPresence DEF PatchProcessed
  <2>4. ASSUME NEW e \in Editors, SaveDocument(e)
        PROVE  \A a \in Attachments :
                   IsAbsent(doc[a]) /\ ~IsAbsent(doc'[a]) => a \in edit[e].add
    BY <1>1, <2>4, SavedEdit
  <2>5. CASE doc' = doc
    BY <2>5
  <2>6. \/ doc' = doc \/ PatchProcessed
        \/ \E u \in Uploads : StorePatch(u)
        \/ \E e \in Editors : SaveDocument(e)
    BY <1>1 DEF Next, JobStep, FindForUpload, StageContent, StagingFails,
                findPendingAttachments, EndBatch, FindAttachment, RunPipeline,
                SaveContent, DeleteStagedContent, UnexpectedError, PrepareEdit,
                FindDocument, VersionError, ServerRestarts, DeleteContent, Crash
  <2> QED  BY <2>2, <2>3, <2>4, <2>5, <2>6
<1>2. ContentInv /\ [Next]_vars =>
          [\A a \in Attachments :
              doc[a].status = "absent" /\ doc'[a].status # "absent"
                  => \E e \in Editors : a \in edit[e].add]_vars
  BY <1>1 DEF IsAbsent
<1> QED  BY <1>2, InitContentInv, NextContentInv, PTL DEF Spec, RemovedStaysRemoved

-----------------------------------------------------------------------------
(***************************************************************************)
(* While each attachment gets one upload and nobody edits the observation, *)
(* for any number of attachments, uploads and crashes: what was            *)
(* acknowledged is tracked, and the upload requests, the job and the file  *)
(* moves implement AttachmentPromise.                                      *)
(***************************************************************************)
NobodyEdits == Editors = {}

(* The upload that was acknowledged, and no other, is what the attachment  *)
(* waits for or serves; its file is staged or at its final path, not both. *)
AttachmentInv(a) ==
    /\ acked[a] = None <=> doc[a].status \in {"none", "absent"}
    /\ acked[a] # None => Target[acked[a]] = a /\ upload[acked[a]].at = "done"
    /\ doc[a].staged = IF doc[a].status = "pending" THEN acked[a] ELSE None
    /\ doc[a].status = "success" => finalDir[a] # None
    /\ finalDir[a] # None => finalDir[a] = acked[a] /\ finalDir[a] \notin pendingDir

(* The record the job read is still the one on the document. *)
JobTrackInv ==
    /\ jobAt \notin {"idle", "next"} => doc[jobAtt] = jobSeen /\ jobSeen.status = "pending"
    /\ jobAt = "finalize" => verdict = "pass"
    /\ jobAt = "discard" => verdict # "pass"
    /\ jobAt = "patch" /\ verdict = "pass" => finalDir[jobAtt] # None
    /\ jobAt \in {"discard", "patch"} /\ verdict = "reject" =>
           finalDir[jobAtt] = None /\ jobSeen.staged \in Malware

TrackInv == TypeOK /\ removing = {} /\ JobTrackInv /\ \A a \in Attachments : AttachmentInv(a)

LEMMA InitTrackInv == Init => TrackInv
<1> SUFFICES ASSUME Init PROVE TrackInv
  OBVIOUS
<1>1. \A a \in Attachments : doc[a].status \in {"none", "absent"} /\ doc[a].staged = None
  BY DEF Init, Absent, Fresh
<1>2. \A a \in Attachments : acked[a] = None /\ finalDir[a] = None
  BY DEF Init
<1>3. \A a \in Attachments : AttachmentInv(a)
  BY <1>1, <1>2 DEF AttachmentInv
<1> QED  BY <1>3, InitTypeOK DEF Init, TrackInv, JobTrackInv

(* Nothing was acknowledged for the target of an upload still under way. *)
LEMMA NotYetAcked ==
    ASSUME OneUploadEach, TrackInv, NEW u \in Uploads, upload[u].at # "done"
    PROVE  acked[Target[u]] = None /\ doc[Target[u]].status \in {"none", "absent"}
<1>1. Target[u] \in Attachments
  BY ProcessingAssumption
<1>2. acked[Target[u]] \in Uploads \cup {None} /\ AttachmentInv(Target[u])
  BY <1>1 DEF TrackInv, TypeOK
<1> QED  BY <1>2 DEF AttachmentInv, OneUploadEach

LEMMA UploadTrack ==
    ASSUME OneUploadEach, TrackInv, NEW u \in Uploads,
           FindForUpload(u) \/ StageContent(u) \/ StagingFails(u) \/ StorePatch(u)
    PROVE  removing' = {} /\ JobTrackInv' /\ \A a \in Attachments : AttachmentInv(a)'
<1> DEFINE t == Target[u]
<1>1. t \in Attachments /\ None \notin Uploads
  BY ProcessingAssumption
<1>2. /\ UNCHANGED <<removing, finalDir, jobAt, jobAtt, jobSeen, verdict>>
      /\ pendingDir' \subseteq pendingDir \cup {u} /\ upload[u].at # "done"
      /\ \A v \in Uploads \ {u} : upload'[v] = upload[v]
  BY DEF FindForUpload, StageContent, StagingFails, StorePatch, jobVars, editVars, TrackInv,
         TypeOK
<1>3. acked[t] = None /\ doc[t].status \in {"none", "absent"}
  BY <1>2, NotYetAcked
<1>4. \A a \in Attachments : acked[a] \in Uploads \cup {None} /\ AttachmentInv(a)
  BY DEF TrackInv, TypeOK
<1>5. \A a \in Attachments : acked[a] # u
  BY <1>1, <1>2, <1>4 DEF AttachmentInv
<1>6. ASSUME NEW a \in Attachments, doc'[a] = doc[a], acked'[a] = acked[a]
      PROVE  AttachmentInv(a)'
  <2>1. acked[a] # None => acked[a] \in Uploads \ {u}
    BY <1>4, <1>5
  <2> QED  BY <1>2, <1>4, <1>5, <1>6, <2>1 DEF AttachmentInv
<1>7. ASSUME \A a \in Attachments \ {t} : doc'[a] = doc[a]
      PROVE  JobTrackInv'
  <2>1. jobAt \notin {"idle", "next"} => jobAtt \in Attachments \ {t}
    BY <1>3 DEF TrackInv, TypeOK, JobTrackInv
  <2> QED  BY <1>2, <1>7, <2>1 DEF TrackInv, JobTrackInv
<1>8. CASE ~StorePatch(u)
  <2>1. doc' = doc /\ acked' = acked
    BY <1>8 DEF FindForUpload, StageContent, StagingFails
  <2> QED  BY <1>2, <1>6, <1>7, <2>1 DEF TrackInv
<1>9. CASE StorePatch(u)
  <2> DEFINE r == Patched("pending", u, upload[u].seen.retries)
  <2>1. r.status = "pending" /\ r.staged = u
    BY DEF Patched
  <2>2. patchAttachment(t, r) /\ upload'[u].at = "done"
        /\ acked' = IF doc[t].status = "absent" THEN acked ELSE [acked EXCEPT ![t] = u]
    BY <1>9 DEF StorePatch, TrackInv, TypeOK, Done
  <2> HIDE DEF r
  <2>3. CASE doc[t].status = "absent"
    BY <1>2, <1>6, <1>7, <2>2, <2>3 DEF patchAttachment, TrackInv
  <2>4. CASE doc[t].status # "absent"
    <3>1. /\ doc'[t] = r /\ acked'[t] = u
          /\ \A a \in Attachments \ {t} : doc'[a] = doc[a] /\ acked'[a] = acked[a]
      BY <1>1, <2>2, <2>4 DEF patchAttachment, TrackInv, TypeOK, ObservationDoc
    <3>2. AttachmentInv(t)'
      <4>1. finalDir'[t] = None
        BY <1>1, <1>2, <1>3, <1>4 DEF AttachmentInv
      <4> QED  BY <1>1, <2>1, <2>2, <3>1, <4>1 DEF AttachmentInv
    <3> QED  BY <1>2, <1>6, <1>7, <3>1, <3>2 DEF TrackInv
  <2> QED  BY <2>3, <2>4
<1> QED  BY <1>8, <1>9

(* A step of the job that writes no record and moves no file. *)
LEMMA SameRecords ==
    ASSUME TrackInv, UNCHANGED <<doc, acked, upload, finalDir, removing>>,
           pendingDir' \subseteq pendingDir
    PROVE  removing' = {} /\ \A a \in Attachments : AttachmentInv(a)'
<1>1. ASSUME NEW a \in Attachments PROVE AttachmentInv(a)'
  <2>1. AttachmentInv(a)
    BY DEF TrackInv
  <2> QED  BY <2>1 DEF AttachmentInv
<1> QED  BY <1>1 DEF TrackInv

(* What is staged for the job's attachment was not published yet. *)
LEMMA StagedNotFinal ==
    ASSUME TrackInv, jobAt \notin {"idle", "next"}, jobSeen.staged \in pendingDir
    PROVE  finalDir[jobAtt] = None
<1>1. jobAtt \in Attachments /\ AttachmentInv(jobAtt) /\ doc[jobAtt] = jobSeen
      /\ jobSeen.status = "pending"
  BY DEF TrackInv, TypeOK, JobTrackInv
<1> QED  BY <1>1 DEF AttachmentInv

LEMMA JobTrack ==
    ASSUME TrackInv, JobStep \/ UnexpectedError
    PROVE  removing' = {} /\ JobTrackInv' /\ \A a \in Attachments : AttachmentInv(a)'
<1> USE ProcessingAssumption
<1>1. TypeOK /\ JobTrackInv
  BY DEF TrackInv
<1>2. CASE findPendingAttachments \/ EndBatch \/ UnexpectedError
  <2>1. UNCHANGED <<doc, acked, upload, finalDir, removing, pendingDir>>
        /\ jobAt' \in {"idle", "next"}
    BY <1>2 DEF findPendingAttachments, EndBatch, UnexpectedError, editVars
  <2>2. JobTrackInv'
    BY <2>1 DEF JobTrackInv
  <2> QED  BY <2>1, <2>2, SameRecords
<1>3. ASSUME NEW a \in Attachments, FindAttachment(a)
      PROVE  removing' = {} /\ JobTrackInv' /\ \A b \in Attachments : AttachmentInv(b)'
  <2>1. UNCHANGED <<doc, acked, upload, finalDir, removing, pendingDir>>
        /\ \/ jobAt' = "next"
           \/ jobAt' = "scan" /\ jobAtt' = a /\ jobSeen' = doc[a] /\ doc[a].staged # None
    BY <1>3 DEF FindAttachment, editVars
  <2>2. doc[a].staged # None => doc[a].status = "pending"
    BY DEF TrackInv, AttachmentInv
  <2>3. JobTrackInv'
    BY <2>1, <2>2 DEF JobTrackInv
  <2> QED  BY <2>1, <2>3, SameRecords
<1>4. CASE RunPipeline
  <2>1. /\ UNCHANGED <<doc, acked, upload, finalDir, removing, pendingDir, jobAtt, jobSeen>>
        /\ jobAt = "scan" /\ verdict' \in Outcomes(jobSeen.staged)
    BY <1>4 DEF RunPipeline, editVars
  <2>2. /\ verdict' = "pass" => jobAt' = "finalize"
        /\ verdict' = "reject" => jobAt' = "discard"
        /\ verdict' \notin {"pass", "reject"} => jobAt' \in {"discard", "patch"}
    <3>1. jobAt' = CASE verdict' = "pass"   -> "finalize"
                     [] verdict' = "reject" -> "discard"
                     [] OTHER               -> IF GivesUp THEN "discard" ELSE "patch"
      BY <1>4 DEF RunPipeline
    <3>2. (IF GivesUp THEN "discard" ELSE "patch") \in {"discard", "patch"}
      OBVIOUS
    <3> HIDE DEF GivesUp
    <3> QED  BY <3>1, <3>2
  <2>3. verdict' = "reject" => finalDir[jobAtt] = None /\ jobSeen.staged \in Malware
    <3>1. verdict' = "reject" => jobSeen.staged \in pendingDir \cap Malware
      BY <2>1 DEF Outcomes
    <3> QED  BY <2>1, <3>1, StagedNotFinal
  <2>4. JobTrackInv'
    BY <1>1, <2>1, <2>2, <2>3 DEF JobTrackInv
  <2> QED  BY <2>1, <2>4, SameRecords
<1>5. CASE SaveContent
  <2>1. jobAt = "finalize" /\ UNCHANGED <<doc, acked, upload, removing>>
    BY <1>5 DEF SaveContent, editVars
  <2>2. /\ jobAtt \in Attachments /\ jobSeen.staged \in Uploads /\ doc[jobAtt] = jobSeen
        /\ jobSeen.status = "pending" /\ verdict = "pass"
    BY <1>1, <2>1 DEF TypeOK, JobTrackInv
  <2>3. CASE jobSeen.staged \notin pendingDir
    <3>1. UNCHANGED <<finalDir, pendingDir>> /\ jobAt' = "next"
      BY <1>5, <2>3 DEF SaveContent
    <3>2. JobTrackInv'
      BY <3>1 DEF JobTrackInv
    <3> QED  BY <2>1, <3>1, <3>2, SameRecords
  <2>4. CASE jobSeen.staged \in pendingDir
    <3>1. /\ pendingDir' = pendingDir \ {jobSeen.staged}
          /\ finalDir'[jobAtt] = jobSeen.staged
          /\ \A a \in Attachments \ {jobAtt} : finalDir'[a] = finalDir[a]
          /\ jobAt' = "patch" /\ UNCHANGED <<jobAtt, jobSeen, verdict>>
      BY <1>1, <1>5, <2>4, <2>2 DEF SaveContent, TypeOK
    <3>2. JobTrackInv'
      BY <2>1, <2>2, <3>1 DEF JobTrackInv
    <3>3. ASSUME NEW a \in Attachments PROVE AttachmentInv(a)'
      <4>1. AttachmentInv(a)
        BY DEF TrackInv
      <4>2. CASE a = jobAtt
        BY <2>1, <2>2, <3>1, <4>1, <4>2 DEF AttachmentInv
      <4>3. CASE a # jobAtt
        BY <2>1, <3>1, <4>1, <4>3 DEF AttachmentInv
      <4> QED  BY <4>2, <4>3
    <3> QED  BY <2>1, <3>2, <3>3 DEF TrackInv
  <2> QED  BY <2>3, <2>4
<1>6. CASE DeleteStagedContent
  <2>1. /\ UNCHANGED <<doc, acked, upload, finalDir, removing, jobAtt, jobSeen, verdict>>
        /\ pendingDir' \subseteq pendingDir /\ jobAt = "discard" /\ jobAt' = "patch"
    BY <1>6 DEF DeleteStagedContent, editVars
  <2>2. JobTrackInv'
    BY <1>1, <2>1 DEF JobTrackInv
  <2> QED  BY <2>1, <2>2, SameRecords
<1>7. CASE PatchProcessed
  <2>1. /\ UNCHANGED <<pendingDir, finalDir, upload, removing, acked>>
        /\ jobAt = "patch" /\ jobAt' = "next" /\ patchAttachment(jobAtt, Processed)
    BY <1>7 DEF PatchProcessed, editVars
  <2>2. jobAtt \in Attachments /\ doc[jobAtt] = jobSeen /\ jobSeen.status = "pending"
        /\ AttachmentInv(jobAtt)
    BY <1>1, <2>1 DEF TypeOK, JobTrackInv, TrackInv
  <2>3. /\ Processed.status \in {"success", "rejected", "error", "pending"}
        /\ Processed.staged = IF Processed.status = "pending" THEN jobSeen.staged ELSE None
        /\ Processed.status = "success" => verdict = "pass"
    <3>1. CASE verdict = "pass"
      BY <3>1 DEF Processed, Patched
    <3>2. CASE verdict = "reject"
      BY <3>2 DEF Processed, Patched
    <3>3. CASE verdict = "error" /\ GivesUp
      BY <3>3 DEF Processed, Patched
    <3>4. CASE verdict = "error" /\ ~GivesUp
      BY <3>4 DEF Processed, Patched
    <3> QED  BY <1>1, <3>1, <3>2, <3>3, <3>4 DEF TypeOK
  <2>4. doc'[jobAtt] = Processed /\ \A a \in Attachments \ {jobAtt} : doc'[a] = doc[a]
    BY <1>1, <2>1, <2>2 DEF patchAttachment, TypeOK, ObservationDoc
  <2>5. JobTrackInv'
    BY <2>1 DEF JobTrackInv
  <2>6. ASSUME NEW a \in Attachments PROVE AttachmentInv(a)'
    <3>1. AttachmentInv(a)
      BY DEF TrackInv
    <3>2. CASE a = jobAtt
      BY <1>1, <2>1, <2>2, <2>3, <2>4, <3>2 DEF AttachmentInv, JobTrackInv
    <3>3. CASE a # jobAtt
      BY <2>1, <2>4, <3>1, <3>3 DEF AttachmentInv
    <3> QED  BY <3>2, <3>3
  <2> QED  BY <2>1, <2>5, <2>6 DEF TrackInv
<1> QED
  BY <1>2, <1>3, <1>4, <1>5, <1>6, <1>7 DEF JobStep

LEMMA RestartTrack ==
    ASSUME TrackInv, ServerRestarts
    PROVE  removing' = {} /\ JobTrackInv' /\ \A a \in Attachments : AttachmentInv(a)'
<1>1. /\ UNCHANGED <<doc, finalDir, acked>> /\ removing' = {} /\ jobAt' = "idle"
      /\ \A u \in Uploads : upload[u].at = "done" => upload'[u].at = "done"
      /\ \A u \in pendingDir' : u \in pendingDir \/ upload[u].at = "found"
  BY DEF ServerRestarts, Done
<1>2. JobTrackInv'
  BY <1>1 DEF JobTrackInv
<1>3. ASSUME NEW a \in Attachments PROVE AttachmentInv(a)'
  <2>1. AttachmentInv(a) /\ acked[a] \in Uploads \cup {None}
    BY DEF TrackInv, TypeOK
  <2> QED  BY <1>1, <2>1 DEF AttachmentInv
<1> QED  BY <1>1, <1>2, <1>3

(* Every step is one of an upload, of the job, or a restart, or a stutter. *)
LEMMA Steps ==
    ASSUME NobodyEdits, TrackInv, [Next]_vars
    PROVE  \/ \E u \in Uploads : FindForUpload(u) \/ StageContent(u) \/ StagingFails(u)
                                   \/ StorePatch(u)
           \/ JobStep \/ UnexpectedError
           \/ ServerRestarts
           \/ UNCHANGED vars
  BY DEF NobodyEdits, TrackInv, Next, DeleteContent, Crash

LEMMA NextTrackInv ==
    ASSUME OneUploadEach, NobodyEdits
    PROVE  TrackInv /\ [Next]_vars => TrackInv'
<1> SUFFICES ASSUME TrackInv, [Next]_vars
             PROVE  removing' = {} /\ JobTrackInv' /\ \A a \in Attachments : AttachmentInv(a)'
  BY NextTypeOK DEF TrackInv
<1>1. CASE UNCHANGED vars
  <2>1. UNCHANGED <<doc, acked, upload, finalDir, removing, pendingDir, jobAt, jobAtt,
                    jobSeen, verdict>>
    BY <1>1 DEF vars, jobVars, editVars
  <2> QED  BY <2>1, SameRecords DEF TrackInv, JobTrackInv
<1> QED  BY <1>1, Steps, UploadTrack, JobTrack, RestartTrack

(* While each attachment gets one upload and nobody edits the observation, *)
(* no acknowledged upload is forgotten, whatever the server's crashes and  *)
(* whichever uploads to other attachments come between (patchAttachment).  *)
THEOREM AckedUploadTrackedCorrect ==
    ASSUME OneUploadEach, NobodyEdits
    PROVE  Spec => []AckedUploadTracked
<1>1. TrackInv => AckedUploadTracked
  <2> SUFFICES ASSUME TrackInv, NEW a \in Attachments, acked[a] # None,
                      doc[a].status # "absent"
               PROVE  \/ doc[a].status = "pending" /\ doc[a].staged = acked[a]
                      \/ doc[a].status = "success" /\ finalDir[a] = acked[a]
                      \/ doc[a].status \in {"rejected", "error"}
    BY DEF AckedUploadTracked
  <2>1. AttachmentInv(a) /\ doc[a].status \in Status
    BY DEF TrackInv, TypeOK, ObservationDoc, AttachmentDoc
  <2> QED  BY <2>1 DEF AttachmentInv, Status
<1> QED  BY <1>1, InitTrackInv, NextTrackInv, PTL DEF Spec
-----------------------------------------------------------------------------
(***************************************************************************)
(* The refinement: every step maps to one of AttachmentPromise or to none. *)
(***************************************************************************)
statusMap == [a \in Attachments |-> doc[a].status]

LEMMA UploadRefines ==
    ASSUME OneUploadEach, TrackInv, NEW u \in Uploads,
           FindForUpload(u) \/ StageContent(u) \/ StagingFails(u) \/ StorePatch(u)
    PROVE  [Promise!Next]_(Promise!vars)
<1> DEFINE t == Target[u]
<1>1. t \in Attachments /\ finalDir' = finalDir
  BY ProcessingAssumption DEF FindForUpload, StageContent, StagingFails, StorePatch
<1>2. CASE doc' = doc
  BY <1>1, <1>2 DEF Promise!vars
<1>3. CASE StorePatch(u) /\ doc[t].status # "absent"
  <2> DEFINE r == Patched("pending", u, upload[u].seen.retries)
  <2>1. r.status = "pending" /\ doc' = [doc EXCEPT ![t] = r] /\ upload[u].at = "staged"
    BY <1>3 DEF StorePatch, patchAttachment, Patched
  <2> HIDE DEF r
  <2>2. doc[t].status = "none"
    BY <1>3, <2>1, NotYetAcked
  <2>3. \A a \in Attachments : doc'[a] = IF a = t THEN r ELSE doc[a]
    BY <2>1 DEF TrackInv, TypeOK, ObservationDoc
  <2>4. statusMap' = [statusMap EXCEPT ![t] = "pending"]
    <3>1. \A a \in Attachments : doc'[a].status = IF a = t THEN "pending" ELSE doc[a].status
      BY <2>1, <2>3
    <3> QED  BY <3>1 DEF statusMap
  <2>5. Promise!Accept(t)
    BY <1>1, <2>2, <2>4 DEF Promise!Accept, statusMap
  <2> QED  BY <1>1, <2>5 DEF Promise!Next
<1> QED
  BY <1>2, <1>3 DEF FindForUpload, StageContent, StagingFails, StorePatch, patchAttachment

LEMMA JobRefines ==
    ASSUME PublicationInv, TrackInv, JobStep \/ UnexpectedError
    PROVE  [Promise!Next]_(Promise!vars)
<1>1. TypeOK /\ JobTrackInv
  BY DEF TrackInv
<1>2. CASE doc' = doc /\ finalDir' = finalDir
  BY <1>2 DEF Promise!vars
<1>3. CASE SaveContent /\ jobSeen.staged \in pendingDir
  <2>1. /\ jobAt = "finalize" /\ doc' = doc
        /\ finalDir' = [finalDir EXCEPT ![jobAtt] = jobSeen.staged]
    BY <1>3 DEF SaveContent
  <2>2. /\ jobAtt \in Attachments /\ jobSeen.staged \in Uploads /\ doc[jobAtt] = jobSeen
        /\ doc[jobAtt].status = "pending" /\ jobSeen.staged \notin Malware
    BY <1>1, <2>1 DEF TypeOK, JobTrackInv, PublicationInv, ScannedBeforeMove
  <2>3. finalDir[jobAtt] = None
    BY <1>3, <2>1, StagedNotFinal
  <2>4. Target[jobSeen.staged] = jobAtt
    BY <2>2, ProcessingAssumption DEF TrackInv, AttachmentInv
  <2>5. Promise!Publish(jobAtt)
    BY <2>1, <2>2, <2>3, <2>4 DEF Promise!Publish
  <2> QED  BY <2>2, <2>5 DEF Promise!Next
<1>4. CASE PatchProcessed
  <2>0. PICK a \in Attachments : a = jobAtt
    BY <1>1, <1>4 DEF PatchProcessed, TypeOK
  <2>1. jobAt = "patch" /\ finalDir' = finalDir /\ patchAttachment(jobAtt, Processed)
    BY <1>4 DEF PatchProcessed
  <2>2. /\ jobAtt \in Attachments /\ doc[jobAtt] = jobSeen /\ doc[jobAtt].status = "pending"
        /\ jobSeen.staged \in Uploads
    BY <1>1, <2>1 DEF TypeOK, JobTrackInv
  <2>3. \A b \in Attachments : doc'[b] = IF b = jobAtt THEN Processed ELSE doc[b]
    BY <1>1, <2>1, <2>2 DEF patchAttachment, TypeOK, ObservationDoc
  <2>4. statusMap' = [statusMap EXCEPT ![jobAtt] = Processed.status]
    BY <2>3 DEF statusMap
  <2>5. CASE verdict = "pass"
    <3>1. Processed.status = "success"
      BY <2>5 DEF Processed, Patched
    <3>2. Promise!Confirm(a)
      BY <1>1, <2>0, <2>1, <2>2, <2>4, <2>5, <3>1 DEF Promise!Confirm, statusMap, JobTrackInv
    <3>4. Promise!Answer(a)
      BY <3>2 DEF Promise!Answer
    <3> QED  BY <3>4, <2>0 DEF Promise!Next
  <2>6. CASE verdict = "reject"
    <3>1. Processed.status = "rejected"
      BY <2>6 DEF Processed, Patched
    <3>2. Target[jobSeen.staged] = jobAtt /\ jobSeen.staged \in Malware /\ finalDir[jobAtt] = None
      BY <1>1, <2>1, <2>2, <2>6, ProcessingAssumption DEF TrackInv, AttachmentInv, JobTrackInv
    <3>3. Promise!Reject(a)
      BY <2>0, <2>1, <2>2, <2>4, <3>1, <3>2 DEF Promise!Reject, statusMap
    <3>4. Promise!Answer(a)
      BY <3>3 DEF Promise!Answer
    <3> QED  BY <3>4, <2>0 DEF Promise!Next
  <2>7. CASE verdict = "error" /\ GivesUp
    <3>1. Processed.status = "error"
      BY <2>7 DEF Processed, Patched
    <3>2. Promise!GiveUp(a)
      BY <2>0, <2>1, <2>2, <2>4, <3>1 DEF Promise!GiveUp, statusMap
    <3>4. Promise!Answer(a)
      BY <3>2 DEF Promise!Answer
    <3> QED  BY <3>4, <2>0 DEF Promise!Next
  <2>8. CASE verdict = "error" /\ ~GivesUp
    <3>1. Processed.status = "pending"
      BY <2>8 DEF Processed, Patched
    <3>2. statusMap' = statusMap
      BY <2>2, <2>4, <3>1 DEF statusMap
    <3> QED  BY <2>1, <3>2 DEF Promise!vars, statusMap
  <2> QED  BY <1>1, <2>5, <2>6, <2>7, <2>8 DEF TypeOK
<1> QED
  BY <1>2, <1>3, <1>4 DEF JobStep, findPendingAttachments, EndBatch, FindAttachment,
     RunPipeline, SaveContent, DeleteStagedContent, UnexpectedError

(* While each attachment gets one upload and nobody edits the observation, *)
(* the upload requests, the job and the file moves, crashes included,      *)
(* implement the abstract attachment: nothing is readable before a scan    *)
(* passed it, success means it is readable, an answer is final.            *)
THEOREM PromiseRefined ==
    ASSUME OneUploadEach, NobodyEdits, Saved = Attachments
    PROVE  Spec => Promise!Spec
<1>1. Init => Promise!Init
  <2> SUFFICES ASSUME Init PROVE Promise!Init
    OBVIOUS
  <2>1. \A a \in Attachments : doc[a].status = "none"
    BY DEF Init, Fresh
  <2> QED  BY <2>1 DEF Init, Promise!Init
<1>2. PublicationInv /\ [Next]_vars => PublicationInv'
  BY NextTypeOK, OthersPublishNothing, JobPublishesScanned DEF PublicationInv
<1>3. PublicationInv /\ TrackInv /\ [Next]_vars => [Promise!Next]_(Promise!vars)
  <2> SUFFICES ASSUME PublicationInv, TrackInv, [Next]_vars
               PROVE  [Promise!Next]_(Promise!vars)
    OBVIOUS
  <2>1. CASE ServerRestarts \/ UNCHANGED vars
    <3>1. UNCHANGED <<doc, finalDir>>
      BY <2>1 DEF ServerRestarts, vars
    <3> QED  BY <3>1 DEF Promise!vars
  <2> QED  BY <2>1, Steps, UploadRefines, JobRefines
<1> QED
  BY <1>1, <1>2, <1>3, InitTrackInv, NextTrackInv, InitPublicationInv, PTL
  DEF Spec, Promise!Spec
=============================================================================
