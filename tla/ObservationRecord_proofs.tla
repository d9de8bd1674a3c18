----------------------- MODULE ObservationRecord_proofs -----------------------
(***************************************************************************)
(* Theorems about ObservationRecord, for every set of users, flags and     *)
(* saves and any number of updates.                                        *)
(***************************************************************************)
EXTENDS ObservationRecord, TLAPS

(***************************************************************************)
(* The inductive invariant, in parts.                                      *)
(***************************************************************************)
(* A document that is not there yet, or a copy of one, is a new one.       *)
Unset(d) ==
    ~d.there => d.favoriteUserIds = {} /\ d.important = None /\ d.states = Active(Pending)

(* What a save has read is not younger than what it read next, or is there. *)
CopiesInv(s) ==
    /\ Unset(save[s].seen)
    /\ save[s].at = "seen" /\ save[s].seen.there => doc.there
    /\ save[s].at = "loaded" /\ save[s].seen.there => save[s].base.there
    /\ save[s].at = "loaded" /\ save[s].base.there => doc.there

(* A save that may yet write its first copy over a change of the document. *)
Updating(s) == save[s].at = "seen" \/ (save[s].at = "loaded" /\ save[s].base.there)

(* What a save is about to write of a part that is not exposed is what was *)
(* asked for last; so is what is stored.                                   *)
FavoriteInv(u) ==
    u \notin exposed =>
        /\ u \in doc.favoriteUserIds <=> u \in wish.favoriteUserIds
        /\ \A s \in Saves :
              /\ Updating(s)
              /\ save[s].at = "loaded" =>
                    save[s].seen.favoriteUserIds # save[s].base.favoriteUserIds
              => (u \in save[s].seen.favoriteUserIds <=> u \in wish.favoriteUserIds)

StateInv ==
    "state" \notin exposed =>
        /\ State(doc) = wish.state
        /\ \A s \in Saves :
              /\ Updating(s)
              /\ save[s].at = "loaded" => save[s].seen.states # save[s].base.states
              => State(save[s].seen) = wish.state

ImportantInv ==
    "important" \notin exposed =>
        /\ doc.important = wish.important
        /\ \A s \in Saves :
              /\ Updating(s)
              /\ save[s].seen.important # None
              /\ save[s].at = "loaded" => FlagDiffers(s)
              => save[s].seen.important = wish.important

(* Until the user is removed every copy names him.  From then on a save    *)
(* does not bring him back: its first copy does not name him, or it wrote  *)
(* him no more when he was removed.                                        *)
UserInv ==
    /\ ~userRemoved => /\ doc.user
                       /\ \A s \in Saves : save[s].seen.user /\ save[s].base.user
    /\ userRemoved /\ "user" \notin exposed =>
        /\ doc.there /\ ~doc.user
        /\ \A s \in Saves :
              /\ Updating(s)
              /\ save[s].at = "loaded" => ~save[s].base.user
              => ~save[s].seen.user

Alternate(q) == \A i \in 1..(Len(q) - 1) : q[i].name # q[i + 1].name

StatesInv == Alternate(doc.states) /\ \A s \in Saves : Alternate(save[s].seen.states)

RecordInv ==
    /\ TypeOK
    /\ Unset(doc)
    /\ \A s \in Saves : CopiesInv(s)
    /\ \A u \in Users : FavoriteInv(u)
    /\ StateInv
    /\ ImportantInv
    /\ UserInv
    /\ StatesInv

(***************************************************************************)
(* The steps, in the groups that the proofs below tell apart.              *)
(***************************************************************************)
(* Some saves are dropped, and nothing else changes. *)
Dropped ==
    /\ UNCHANGED <<doc, userRemoved, patches, wish, exposed>>
    /\ save' \in [Saves -> [at : {"idle", "seen", "loaded"}, seen : Document, base : Document]]
    /\ \A s \in Saves : save'[s] \in {save[s], Idle}

SaveStep(s) == findExisting(s) \/ findBeforeDoc(s) \/ UpdateDocument(s) \/ InsertDocument(s)

FavoriteStep(u) == addFavorite(u) \/ removeFavorite(u)

ImportantStep == removeImportant \/ \E flag \in Flags : addImportant(flag)

(* The state of a new observation. *)
LEMMA ActiveStates ==
  ASSUME NEW id \in Nat
  PROVE  /\ Active(id) \in Seq(Entry) /\ Alternate(Active(id))
         /\ \A d : d.states = Active(id) => State(d) = "active"
  BY DEF Active, Entry, States, Alternate, State

(* The documents that reads and updates start from. *)
LEMMA BlankDocument ==
  /\ Blank \in Document /\ ~Blank.there /\ Unset(Blank) /\ Alternate(Blank.states)
  /\ Blank.user
<1>1. Active(Pending) \in Seq(Entry) /\ Alternate(Active(Pending))
  BY ActiveStates DEF Pending
<1>2. QED
  BY <1>1 DEF Blank, Document, Unset

LEMMA StoredDocument ==
  /\ Stored \in Document /\ Stored.there /\ Stored.states = Active(1)
  /\ Stored.favoriteUserIds = {} /\ Stored.important = None /\ Stored.user
<1>1. Active(1) \in Seq(Entry) /\ Active(Pending) \in Seq(Entry)
  BY ActiveStates DEF Pending
<1>2. Blank \in Document /\ Blank.favoriteUserIds = {} /\ Blank.important = None /\ Blank.user
  BY BlankDocument DEF Blank
<1>3. ASSUME NEW d \in Document, NEW q \in Seq(Entry)
      PROVE  LET x == [d EXCEPT !.there = TRUE, !.states = q] IN
             /\ x \in Document /\ x.there /\ x.states = q
             /\ x.favoriteUserIds = d.favoriteUserIds /\ x.important = d.important
             /\ x.user = d.user
  BY DEF Document
<1>4. Pending + 1 = 1
  BY DEF Pending
<1>5. Stored = [Blank EXCEPT !.there = TRUE, !.states = Active(1)]
  BY <1>4 DEF Stored
<1>6. QED
  BY <1>1, <1>2, <1>3, <1>5

LEMMA NewIdType == ASSUME TypeOK PROVE NewId \in Nat
  BY ObservationRecordAssumption DEF TypeOK, Document, NewId

LEMMA StepCases ==
  ASSUME TypeOK, [Next]_vars
  PROVE  \/ Dropped
         \/ \E s \in Saves : SaveStep(s)
         \/ \E u \in Users : FavoriteStep(u)
         \/ ImportantStep
         \/ \E name \in States : addState(name)
         \/ removeUser
<1>0. Idle \in [at : {"idle", "seen", "loaded"}, seen : Document, base : Document]
  BY BlankDocument DEF Idle
<1>1. CASE UNCHANGED vars
  BY <1>1 DEF vars, Dropped, TypeOK
<1>2. ASSUME Restart PROVE Dropped
  BY <1>0, <1>2 DEF Restart, Dropped
<1>3. ASSUME NEW s \in Saves, Refused(s) PROVE Dropped
  BY <1>0, <1>3 DEF Refused, SaveGoes, Dropped, TypeOK
<1>4. QED
  BY <1>1, <1>2, <1>3 DEF Next, SaveStep, FavoriteStep, ImportantStep, VersionError,
     DuplicateId, Crash

(***************************************************************************)
(* Types.                                                                  *)
(***************************************************************************)
LEMMA WrittenType ==
  ASSUME TypeOK, NEW s \in Saves PROVE Written(s) \in Document
<1>1. doc.version + 1 \in Nat
  BY DEF TypeOK, Document
<1>2. doc \in Document /\ save[s].seen \in Document /\ save[s].base \in Document
  BY DEF TypeOK
<1>3. FlagDiffers(s) \in BOOLEAN /\ ArraysDiffer(s) \in BOOLEAN
  BY DEF FlagDiffers, ArraysDiffer
<1>4. Active(NewId) \in Seq(Entry)
  BY ActiveStates, NewIdType
<1>5. (doc.user \/ (save[s].seen.user /\ ~save[s].base.user)) \in BOOLEAN
  OBVIOUS
<1>6. QED
  BY <1>1, <1>2, <1>3, <1>4, <1>5 DEF Written, Document

LEMMA NextTypeOK == TypeOK /\ [Next]_vars => TypeOK'
<1> SUFFICES ASSUME TypeOK, [Next]_vars PROVE TypeOK'
  OBVIOUS
<1> USE ObservationRecordAssumption
<1>1. CASE Dropped
  BY <1>1 DEF Dropped, TypeOK
<1>2. ASSUME NEW s \in Saves, SaveStep(s) PROVE TypeOK'
  <2>1. CASE findExisting(s)
    BY <2>1, BlankDocument DEF findExisting, SaveGoes, TypeOK
  <2>2. CASE findBeforeDoc(s)
    BY <2>2 DEF findBeforeDoc, SaveGoes, TypeOK
  <2>3. CASE UpdateDocument(s)
    BY <2>3, WrittenType, BlankDocument DEF UpdateDocument, SaveGoes, Idle, TypeOK
  <2>4. CASE InsertDocument(s)
    <3>1. doc' \in Document
      <4>1. Active(Pending + 1) \in Seq(Entry)
        BY ActiveStates DEF Pending
      <4>2. QED
        BY <2>4, <4>1 DEF InsertDocument, TypeOK, Document
    <3>2. QED
      BY <2>4, <3>1, BlankDocument DEF InsertDocument, SaveGoes, Idle, TypeOK
  <2>5. QED
    BY <1>2, <2>1, <2>2, <2>3, <2>4 DEF SaveStep
<1>3. ASSUME Patch PROVE patches' \in 0..MaxPatches /\ save' = save /\ userRemoved' = userRemoved
  BY <1>3 DEF Patch, TypeOK
<1>4. ASSUME NEW u \in Users, FavoriteStep(u) PROVE TypeOK'
  <2>1. doc' \in Document
    <3>1. doc.favoriteUserIds \cup {u} \in SUBSET Users /\ doc.favoriteUserIds \ {u} \in SUBSET Users
      BY DEF TypeOK, Document
    <3>2. ASSUME NEW users \in SUBSET Users
          PROVE  [doc EXCEPT !.favoriteUserIds = users] \in Document
      BY DEF TypeOK, Document
    <3>3. QED
      BY <1>4, <3>1, <3>2 DEF FavoriteStep, addFavorite, removeFavorite
  <2>2. wish' \in Wish
    <3>1. wish.favoriteUserIds \cup {u} \in SUBSET Users /\ wish.favoriteUserIds \ {u} \in SUBSET Users
      BY DEF TypeOK, Wish
    <3>2. ASSUME NEW users \in SUBSET Users
          PROVE  [wish EXCEPT !.favoriteUserIds = users] \in Wish
      BY DEF TypeOK, Wish
    <3>3. QED
      BY <1>4, <3>1, <3>2 DEF FavoriteStep, addFavorite, removeFavorite
  <2>3. QED
    BY <1>3, <1>4, <2>1, <2>2 DEF FavoriteStep, addFavorite, removeFavorite, Exposing, TypeOK
<1>5. CASE ImportantStep
  <2>1. doc' \in Document /\ wish' \in Wish
    BY <1>5 DEF ImportantStep, addImportant, removeImportant, TypeOK, Document, Wish
  <2>2. QED
    BY <1>3, <1>5, <2>1 DEF ImportantStep, addImportant, removeImportant, Exposing, TypeOK
<1>6. ASSUME NEW name \in States, addState(name) PROVE TypeOK'
  <2>1. wish' \in Wish
    BY <1>6 DEF addState, StateAsked, TypeOK, Wish
  <2>2. <<[name |-> name, id |-> NewId]>> \o doc.states \in Seq(Entry)
    <3>1. [name |-> name, id |-> NewId] \in Entry
      BY NewIdType DEF Entry
    <3>2. doc.states \in Seq(Entry)
      BY DEF TypeOK, Document
    <3>3. QED
      BY <3>1, <3>2
  <2>3. doc' \in Document
    BY <1>6, <2>2 DEF addState, TypeOK, Document
  <2>4. QED
    BY <1>3, <1>6, <2>1, <2>3 DEF addState, StateAsked, Exposing, TypeOK
<1>7. CASE removeUser
  <2>1. doc' \in Document
    BY <1>7 DEF removeUser, TypeOK, Document
  <2>2. QED
    BY <1>7, <2>1 DEF removeUser, TypeOK
<1>8. QED
  BY <1>1, <1>2, <1>4, <1>5, <1>6, <1>7, StepCases

(***************************************************************************)
(* The parts of the invariant.                                             *)
(***************************************************************************)
(* What the steps of a save do, field by field. *)
LEMMA FindExistingEffect ==
  ASSUME TypeOK, NEW s \in Saves, findExisting(s)
  PROVE  /\ UNCHANGED <<doc, userRemoved, wish, exposed>>
         /\ save'[s].at = "seen"
         /\ save'[s].seen = doc
         /\ save'[s].base = Blank
         /\ \A t \in Saves \ {s} : save'[t] = save[t]
  BY DEF findExisting, SaveGoes, TypeOK

LEMMA FindBeforeDocEffect ==
  ASSUME TypeOK, NEW s \in Saves, findBeforeDoc(s)
  PROVE  /\ UNCHANGED <<doc, userRemoved, wish, exposed>>
         /\ save[s].at = "seen"
         /\ save'[s].at = "loaded"
         /\ save'[s].seen = save[s].seen
         /\ save'[s].base = doc
         /\ \A t \in Saves \ {s} : save'[t] = save[t]
  BY DEF findBeforeDoc, SaveGoes, TypeOK

LEMMA WriteEffect ==
  ASSUME TypeOK, NEW s \in Saves, UpdateDocument(s) \/ InsertDocument(s)
  PROVE  /\ UNCHANGED <<userRemoved, wish, exposed>>
         /\ save[s].at = "loaded"
         /\ save'[s] = Idle
         /\ \A t \in Saves \ {s} : save'[t] = save[t]
  BY DEF UpdateDocument, InsertDocument, Creating, SaveGoes, TypeOK

LEMMA InsertEffect ==
  ASSUME TypeOK, NEW s \in Saves, InsertDocument(s)
  PROVE  /\ ~save[s].base.there /\ ~doc.there
         /\ doc'.there
         /\ doc'.user = save[s].seen.user
         /\ doc'.favoriteUserIds = save[s].seen.favoriteUserIds
         /\ doc'.important = save[s].seen.important
         /\ doc'.states = Active(1)
  BY DEF InsertDocument, Creating, TypeOK, Document, Pending

LEMMA CopiesPreserved ==
  ASSUME RecordInv, [Next]_vars
  PROVE  Unset(doc)' /\ \A s \in Saves : CopiesInv(s)'
<1> USE DEF RecordInv, CopiesInv, Unset
<1>1. CASE Dropped
  BY <1>1, BlankDocument DEF Dropped, Idle
<1>2. ASSUME NEW s \in Saves, SaveStep(s)
      PROVE  Unset(doc)' /\ \A t \in Saves : CopiesInv(t)'
  <2>1. CASE findExisting(s)
    BY <2>1, BlankDocument, FindExistingEffect
  <2>2. CASE findBeforeDoc(s)
    BY <2>2, FindBeforeDocEffect
  <2>3. CASE UpdateDocument(s)
    BY <2>3, BlankDocument, WriteEffect DEF UpdateDocument, Idle, Written
  <2>4. CASE InsertDocument(s)
    BY <2>4, BlankDocument, WriteEffect, InsertEffect DEF Idle
  <2>5. QED
    BY <1>2, <2>1, <2>2, <2>3, <2>4 DEF SaveStep
<1>3. ASSUME Patch, doc'.there = doc.there
      PROVE  Unset(doc)' /\ \A s \in Saves : CopiesInv(s)'
  BY <1>3 DEF Patch
<1>4. ASSUME NEW u \in Users, FavoriteStep(u)
      PROVE  Unset(doc)' /\ \A s \in Saves : CopiesInv(s)'
  BY <1>3, <1>4 DEF FavoriteStep, addFavorite, removeFavorite, TypeOK, Document
<1>5. CASE ImportantStep
  BY <1>3, <1>5 DEF ImportantStep, addImportant, removeImportant, TypeOK, Document
<1>6. ASSUME NEW name \in States, addState(name)
      PROVE  Unset(doc)' /\ \A s \in Saves : CopiesInv(s)'
  BY <1>3, <1>6 DEF addState, StateAsked, TypeOK, Document
<1>7. CASE removeUser
  BY <1>7 DEF removeUser, TypeOK, Document
<1>8. QED
  BY <1>1, <1>2, <1>4, <1>5, <1>6, <1>7, StepCases

(* A user's favourite: the update that sets it exposes it to the saves that *)
(* may write an older value, and no other step adds such a save.            *)
LEMMA FavoritePreserved ==
  ASSUME RecordInv, [Next]_vars, NEW u \in Users
  PROVE  FavoriteInv(u)'
<1> USE DEF RecordInv, FavoriteInv, Updating
<1>1. CASE Dropped
  BY <1>1 DEF Dropped, Idle
<1>2. ASSUME NEW s \in Saves, SaveStep(s) PROVE FavoriteInv(u)'
  <2>1. CASE findExisting(s)
    BY <2>1, FindExistingEffect DEF Blank, Unset
  <2>2. CASE findBeforeDoc(s)
    BY <2>2, FindBeforeDocEffect
  <2>3. CASE UpdateDocument(s)
    <3>1. save[s].at = "loaded" /\ save[s].base.there
      BY <2>3 DEF UpdateDocument
    <3>2. doc'.favoriteUserIds = IF save[s].seen.favoriteUserIds # save[s].base.favoriteUserIds
                                 THEN save[s].seen.favoriteUserIds ELSE doc.favoriteUserIds
      BY <2>3 DEF UpdateDocument, Written
    <3>3. QED
      BY <2>3, <3>1, <3>2, WriteEffect DEF Idle
  <2>4. CASE InsertDocument(s)
    <3>1. save[s].seen.favoriteUserIds = {} /\ doc.favoriteUserIds = {}
      BY <2>4, InsertEffect, WriteEffect DEF CopiesInv, Unset
    <3>2. QED
      BY <2>4, <3>1, WriteEffect, InsertEffect DEF Idle
  <2>5. QED
    BY <1>2, <2>1, <2>2, <2>3, <2>4 DEF SaveStep
<1>3. ASSUME NEW v \in Users, FavoriteStep(v) PROVE FavoriteInv(u)'
  <2>0. /\ save' = save
        /\ exposed \subseteq exposed' \cup {v} /\ exposed' \subseteq exposed \cup {v}
    BY <1>3 DEF FavoriteStep, addFavorite, removeFavorite, Exposing, Patch
  <2>1. CASE u # v
    <3>1. /\ u \in doc'.favoriteUserIds <=> u \in doc.favoriteUserIds
          /\ u \in wish'.favoriteUserIds <=> u \in wish.favoriteUserIds
      <4>1. /\ DOMAIN doc = {"there", "user", "favoriteUserIds", "important", "states", "version"}
            /\ DOMAIN wish = {"favoriteUserIds", "important", "state"}
        BY DEF TypeOK, Document, Wish
      <4>2. CASE addFavorite(v)
        BY <2>1, <4>1, <4>2 DEF addFavorite
      <4>3. CASE removeFavorite(v)
        BY <2>1, <4>1, <4>3 DEF removeFavorite
      <4>4. QED
        BY <1>3, <4>2, <4>3 DEF FavoriteStep
    <3>2. QED
      BY <2>0, <2>1, <3>1
  <2>2. CASE u = v /\ addFavorite(u)
    <3>1. u \in doc'.favoriteUserIds /\ u \in wish'.favoriteUserIds
      BY <2>2 DEF addFavorite, TypeOK, Document, Wish
    <3>2. u \notin exposed' => \A s \in WritingUsers : u \in save[s].seen.favoriteUserIds
      BY <2>2 DEF addFavorite, Exposing
    <3>3. QED
      BY <2>0, <3>1, <3>2 DEF WritingUsers, InHand, Creating
  <2>3. CASE u = v /\ removeFavorite(u)
    <3>1. u \notin doc'.favoriteUserIds /\ u \notin wish'.favoriteUserIds
      BY <2>3 DEF removeFavorite, TypeOK, Document, Wish
    <3>2. u \notin exposed' => \A s \in WritingUsers : u \notin save[s].seen.favoriteUserIds
      BY <2>3 DEF removeFavorite, Exposing
    <3>3. QED
      BY <2>0, <3>1, <3>2 DEF WritingUsers, InHand, Creating
  <2>4. QED
    BY <1>3, <2>1, <2>2, <2>3 DEF FavoriteStep
<1>4. ASSUME doc'.favoriteUserIds = doc.favoriteUserIds,
             wish'.favoriteUserIds = wish.favoriteUserIds,
             save' = save, u \notin exposed' => u \notin exposed
      PROVE  FavoriteInv(u)'
  BY <1>4
<1>5. u \notin {"important", "state", "user"}
  BY ObservationRecordAssumption
<1>6. CASE ImportantStep
  <2>1. exposed \ {"important"} \subseteq exposed' /\ save' = save
    BY <1>6 DEF ImportantStep, addImportant, removeImportant, Exposing, Patch
  <2>2. QED
    BY <1>4, <1>5, <1>6, <2>1 DEF ImportantStep, addImportant, removeImportant, TypeOK, Document, Wish
<1>7. ASSUME NEW name \in States, addState(name) PROVE FavoriteInv(u)'
  <2>1. exposed \ {"state"} \subseteq exposed' /\ save' = save
    BY <1>7 DEF addState, StateAsked, Exposing, Patch
  <2>2. QED
    BY <1>4, <1>5, <1>7, <2>1 DEF addState, StateAsked, TypeOK, Document, Wish
<1>8. CASE removeUser
  BY <1>4, <1>8 DEF removeUser, TypeOK, Document
<1>9. QED
  BY <1>1, <1>2, <1>3, <1>6, <1>7, <1>8, StepCases

LEMMA StatePreserved ==
  ASSUME RecordInv, [Next]_vars
  PROVE  StateInv'
<1> USE DEF RecordInv, StateInv, Updating
<1>1. CASE Dropped
  BY <1>1 DEF Dropped, Idle, State
<1>2. ASSUME NEW s \in Saves, SaveStep(s) PROVE StateInv'
  <2>1. CASE findExisting(s)
    BY <2>1, FindExistingEffect DEF Blank, Unset, State
  <2>2. CASE findBeforeDoc(s)
    BY <2>2, FindBeforeDocEffect DEF State
  <2>3. CASE UpdateDocument(s)
    <3>1. save[s].at = "loaded" /\ save[s].base.there
      BY <2>3 DEF UpdateDocument
    <3>2. doc'.states = IF save[s].seen.states = save[s].base.states THEN doc.states
                        ELSE IF save[s].seen.there THEN save[s].seen.states ELSE Active(NewId)
      BY <2>3 DEF UpdateDocument, Written
    <3>3. save[s].seen.states # save[s].base.states => State(doc') = State(save[s].seen)
      <4>1. CASE save[s].seen.there
        BY <3>2, <4>1 DEF State
      <4>2. CASE ~save[s].seen.there
        <5>1. State(save[s].seen) = "active"
          BY <4>2, ActiveStates DEF CopiesInv, Unset, Pending
        <5>2. save[s].seen.states # save[s].base.states => State(doc') = "active"
          BY <3>2, <4>2, ActiveStates, NewIdType
        <5>3. QED
          BY <5>1, <5>2
      <4>3. QED
        BY <4>1, <4>2
    <3>4. save[s].seen.states = save[s].base.states => State(doc') = State(doc)
      BY <3>2 DEF State
    <3>5. QED
      BY <2>3, <3>1, <3>3, <3>4, WriteEffect DEF Idle, State
  <2>4. CASE InsertDocument(s)
    <3>1. State(doc) = "active" /\ State(doc') = "active"
      BY <2>4, InsertEffect, ActiveStates DEF Unset, Pending
    <3>2. QED
      BY <2>4, <3>1, WriteEffect DEF Idle, State
  <2>5. QED
    BY <1>2, <2>1, <2>2, <2>3, <2>4 DEF SaveStep
<1>3. ASSUME doc'.states = doc.states, wish'.state = wish.state,
             save' = save, "state" \notin exposed' => "state" \notin exposed
      PROVE  StateInv'
  BY <1>3 DEF State
<1>4. ASSUME NEW u \in Users, FavoriteStep(u) PROVE StateInv'
  <2>1. exposed \ {u} \subseteq exposed' /\ save' = save
    BY <1>4 DEF FavoriteStep, addFavorite, removeFavorite, Exposing, Patch
  <2>2. u # "state"
    BY ObservationRecordAssumption
  <2>3. doc'.states = doc.states /\ wish'.state = wish.state
    BY <1>4 DEF FavoriteStep, addFavorite, removeFavorite, TypeOK, Document, Wish
  <2>4. QED
    BY <1>3, <2>1, <2>2, <2>3
<1>5. CASE ImportantStep
  <2>1. exposed \ {"important"} \subseteq exposed' /\ save' = save
    BY <1>5 DEF ImportantStep, addImportant, removeImportant, Exposing, Patch
  <2>2. QED
    BY <1>3, <1>5, <2>1 DEF ImportantStep, addImportant, removeImportant, TypeOK, Document, Wish
<1>6. ASSUME NEW name \in States, addState(name) PROVE StateInv'
  <2>1. wish'.state = name /\ save' = save
    BY <1>6 DEF addState, StateAsked, Patch, TypeOK, Wish
  <2>2. State(doc') = name
    <3>1. CASE State(doc) = name
      BY <1>6, <3>1 DEF addState
    <3>2. CASE State(doc) # name
      <4>1. doc'.states = <<[name |-> name, id |-> NewId]>> \o doc.states
        BY <1>6, <3>2 DEF addState, TypeOK, Document
      <4>2. doc.states \in Seq(Entry) /\ [name |-> name, id |-> NewId] \in Entry
        BY NewIdType DEF TypeOK, Document, Entry
      <4>3. QED
        BY <4>1, <4>2 DEF State
    <3>3. QED
      BY <3>1, <3>2
  <2>3. "state" \notin exposed' => \A s \in WritingStates : State(save[s].seen) = name
    BY <1>6 DEF addState, StateAsked, Exposing
  <2>4. QED
    BY <2>1, <2>2, <2>3 DEF WritingStates, InHand, Creating, State
<1>7. CASE removeUser
  BY <1>3, <1>7 DEF removeUser, TypeOK, Document
<1>8. QED
  BY <1>1, <1>2, <1>4, <1>5, <1>6, <1>7, StepCases

LEMMA ImportantPreserved ==
  ASSUME RecordInv, [Next]_vars
  PROVE  ImportantInv'
<1> USE DEF RecordInv, ImportantInv, Updating, FlagDiffers
<1>1. CASE Dropped
  BY <1>1 DEF Dropped, Idle
<1>2. ASSUME NEW s \in Saves, SaveStep(s) PROVE ImportantInv'
  <2>1. CASE findExisting(s)
    BY <2>1, FindExistingEffect DEF Blank
  <2>2. CASE findBeforeDoc(s)
    BY <2>2, FindBeforeDocEffect
  <2>3. CASE UpdateDocument(s)
    <3>1. save[s].at = "loaded" /\ save[s].base.there
      BY <2>3 DEF UpdateDocument
    <3>2. doc'.important = IF FlagDiffers(s) THEN save[s].seen.important ELSE doc.important
      BY <2>3 DEF UpdateDocument, Written
    <3>3. QED
      BY <2>3, <3>1, <3>2, WriteEffect DEF Idle
  <2>4. CASE InsertDocument(s)
    <3>1. save[s].seen.important = None /\ doc.important = None
      BY <2>4, InsertEffect, WriteEffect DEF CopiesInv, Unset
    <3>2. QED
      BY <2>4, <3>1, WriteEffect, InsertEffect DEF Idle
  <2>5. QED
    BY <1>2, <2>1, <2>2, <2>3, <2>4 DEF SaveStep
<1>3. ASSUME doc'.important = doc.important, wish'.important = wish.important,
             save' = save, "important" \notin exposed' => "important" \notin exposed
      PROVE  ImportantInv'
  BY <1>3
<1>4. ASSUME NEW u \in Users, FavoriteStep(u) PROVE ImportantInv'
  <2>1. exposed \ {u} \subseteq exposed' /\ save' = save
    BY <1>4 DEF FavoriteStep, addFavorite, removeFavorite, Exposing, Patch
  <2>2. u # "important"
    BY ObservationRecordAssumption
  <2>3. doc'.important = doc.important /\ wish'.important = wish.important
    BY <1>4 DEF FavoriteStep, addFavorite, removeFavorite, TypeOK, Document, Wish
  <2>4. QED
    BY <1>3, <2>1, <2>2, <2>3
<1>5. CASE removeImportant
  <2>1. doc'.important = None /\ wish'.important = None /\ save' = save
    BY <1>5 DEF removeImportant, Patch, TypeOK, Document, Wish
  <2>2. "important" \notin exposed' => WritingFlag = {}
    BY <1>5 DEF removeImportant, Exposing
  <2>3. QED
    BY <2>1, <2>2 DEF WritingFlag, InHand, Creating
<1>6. ASSUME NEW flag \in Flags, addImportant(flag) PROVE ImportantInv'
  <2>1. doc'.important = flag /\ wish'.important = flag /\ save' = save
    BY <1>6 DEF addImportant, Patch, TypeOK, Document, Wish
  <2>2. "important" \notin exposed' => \A s \in WritingFlag : save[s].seen.important = flag
    BY <1>6 DEF addImportant, Exposing
  <2>3. QED
    BY <2>1, <2>2 DEF WritingFlag, InHand, Creating
<1>7. ASSUME NEW name \in States, addState(name) PROVE ImportantInv'
  <2>1. exposed \ {"state"} \subseteq exposed' /\ save' = save
    BY <1>7 DEF addState, StateAsked, Exposing, Patch
  <2>2. QED
    BY <1>3, <1>7, <2>1 DEF addState, StateAsked, TypeOK, Document, Wish
<1>8. CASE removeUser
  BY <1>3, <1>8 DEF removeUser, TypeOK, Document
<1>9. QED
  BY <1>1, <1>2, <1>4, <1>5, <1>6, <1>7, <1>8, StepCases DEF ImportantStep

(* A save does not name the user once he is removed, except as exposed. *)
LEMMA UserPreserved ==
  ASSUME RecordInv, [Next]_vars
  PROVE  UserInv'
<1> USE DEF RecordInv, UserInv, Updating
<1>0. Idle.at = "idle" /\ Idle.seen.user /\ Idle.base.user
  BY BlankDocument DEF Idle
<1>1. CASE Dropped
  BY <1>0, <1>1 DEF Dropped
<1>2. ASSUME NEW s \in Saves, SaveStep(s) PROVE UserInv'
  <2>1. CASE findExisting(s)
    BY <2>1, FindExistingEffect, BlankDocument
  <2>2. CASE findBeforeDoc(s)
    BY <2>2, FindBeforeDocEffect
  <2>3. CASE UpdateDocument(s)
    <3>1. save[s].at = "loaded" /\ save[s].base.there /\ doc'.there
      BY <2>3 DEF UpdateDocument, Written
    <3>2. doc'.user <=> doc.user \/ (save[s].seen.user /\ ~save[s].base.user)
      BY <2>3 DEF UpdateDocument, Written
    <3>3. QED
      BY <1>0, <2>3, <3>1, <3>2, WriteEffect
  <2>4. CASE InsertDocument(s)
    <3>1. ~doc.there /\ doc'.user = save[s].seen.user
      BY <2>4, InsertEffect
    <3>2. QED
      BY <1>0, <2>4, <3>1, WriteEffect
  <2>5. QED
    BY <1>2, <2>1, <2>2, <2>3, <2>4 DEF SaveStep
<1>3. ASSUME doc'.there = doc.there, doc'.user = doc.user, UNCHANGED <<save, userRemoved>>,
             "user" \notin exposed' => "user" \notin exposed
      PROVE  UserInv'
  BY <1>3
<1>4. ASSUME NEW u \in Users, FavoriteStep(u) PROVE UserInv'
  <2>1. exposed \ {u} \subseteq exposed' /\ UNCHANGED <<save, userRemoved>>
    BY <1>4 DEF FavoriteStep, addFavorite, removeFavorite, Exposing, Patch
  <2>2. u # "user"
    BY ObservationRecordAssumption
  <2>3. doc'.there = doc.there /\ doc'.user = doc.user
    BY <1>4 DEF FavoriteStep, addFavorite, removeFavorite, TypeOK, Document
  <2>4. QED
    BY <1>3, <2>1, <2>2, <2>3
<1>5. CASE ImportantStep
  <2>1. exposed \ {"important"} \subseteq exposed' /\ UNCHANGED <<save, userRemoved>>
    BY <1>5 DEF ImportantStep, addImportant, removeImportant, Exposing, Patch
  <2>2. QED
    BY <1>3, <1>5, <2>1 DEF ImportantStep, addImportant, removeImportant, TypeOK, Document
<1>6. ASSUME NEW name \in States, addState(name) PROVE UserInv'
  <2>1. exposed \ {"state"} \subseteq exposed' /\ UNCHANGED <<save, userRemoved>>
    BY <1>6 DEF addState, StateAsked, Exposing, Patch
  <2>2. doc'.there = doc.there /\ doc'.user = doc.user
    BY <1>6 DEF addState, TypeOK, Document
  <2>3. QED
    BY <1>3, <2>1, <2>2
<1>7. CASE removeUser
  <2>1. /\ ~userRemoved /\ userRemoved' /\ save' = save
        /\ doc'.there = doc.there /\ (doc'.user <=> ~doc.there)
    BY <1>7 DEF removeUser, TypeOK, Document
  <2>2. "user" \notin exposed' => doc.there /\ \A s \in Saves : save[s].at # "seen"
    BY <1>7 DEF removeUser
  <2>3. QED
    BY <2>1, <2>2
<1>8. QED
  BY <1>1, <1>2, <1>4, <1>5, <1>6, <1>7, StepCases

(* A state that is not the current one can be put before it. *)
LEMMA AlternateGrows ==
  ASSUME NEW q \in Seq(Entry), Alternate(q), NEW e \in Entry,
         q # <<>> => Head(q).name # e.name
  PROVE  Alternate(<<e>> \o q)
  BY DEF Alternate

LEMMA StatesPreserved ==
  ASSUME RecordInv, [Next]_vars
  PROVE  StatesInv'
<1> USE DEF RecordInv, StatesInv
<1>1. CASE Dropped
  BY <1>1, BlankDocument DEF Dropped, Idle
<1>2. ASSUME NEW s \in Saves, SaveStep(s) PROVE StatesInv'
  <2>1. CASE findExisting(s)
    BY <2>1, FindExistingEffect, BlankDocument
  <2>2. CASE findBeforeDoc(s)
    BY <2>2, FindBeforeDocEffect
  <2>3. CASE UpdateDocument(s)
    <3>1. doc'.states \in {save[s].seen.states, doc.states, Active(NewId)}
      BY <2>3 DEF UpdateDocument, Written
    <3>2. Alternate(Active(NewId))
      BY ActiveStates, NewIdType
    <3>3. Alternate(doc'.states)
      BY <3>1, <3>2
    <3>4. QED
      BY <2>3, <3>3, WriteEffect, BlankDocument DEF Idle
  <2>4. CASE InsertDocument(s)
    <3>1. Alternate(doc'.states)
      BY <2>4, InsertEffect, ActiveStates
    <3>2. QED
      BY <2>4, <3>1, WriteEffect, BlankDocument DEF Idle
  <2>5. QED
    BY <1>2, <2>1, <2>2, <2>3, <2>4 DEF SaveStep
<1>3. ASSUME doc'.states = doc.states, save' = save PROVE StatesInv'
  BY <1>3
<1>4. ASSUME NEW u \in Users, FavoriteStep(u) PROVE StatesInv'
  BY <1>3, <1>4 DEF FavoriteStep, addFavorite, removeFavorite, Patch, TypeOK, Document
<1>5. CASE ImportantStep
  BY <1>3, <1>5 DEF ImportantStep, addImportant, removeImportant, Patch, TypeOK, Document
<1>6. ASSUME NEW name \in States, addState(name) PROVE StatesInv'
  <2>1. save' = save
    BY <1>6 DEF addState, StateAsked, Patch
  <2>2. CASE State(doc) = name
    BY <1>3, <1>6, <2>1, <2>2 DEF addState
  <2>3. CASE State(doc) # name
    <3> DEFINE e == [name |-> name, id |-> NewId]
    <3>1. doc'.states = <<e>> \o doc.states
      BY <1>6, <2>3 DEF addState, TypeOK, Document
    <3>2. doc.states \in Seq(Entry) /\ (doc.states # <<>> => Head(doc.states).name # e.name)
      BY <2>3 DEF State, TypeOK, Document
    <3>3. e \in Entry
      BY NewIdType DEF Entry
    <3>4. Alternate(<<e>> \o doc.states)
      BY <3>2, <3>3, AlternateGrows
    <3>5. QED
      BY <2>1, <3>1, <3>4
  <2>4. QED
    BY <2>2, <2>3
<1>7. CASE removeUser
  BY <1>3, <1>7 DEF removeUser, TypeOK, Document
<1>8. QED
  BY <1>1, <1>2, <1>4, <1>5, <1>6, <1>7, StepCases

(***************************************************************************)
(* The theorems.                                                           *)
(***************************************************************************)
LEMMA InitRecordInv == Init => RecordInv
<1> SUFFICES ASSUME Init PROVE RecordInv
  OBVIOUS
<1> USE ObservationRecordAssumption DEF Init
<1>1. /\ doc \in Document /\ Unset(doc) /\ Alternate(doc.states) /\ State(doc) = "active"
      /\ doc.favoriteUserIds = {} /\ doc.important = None /\ doc.user
  <2>1. CASE doc = Blank
    BY <2>1, BlankDocument, ActiveStates DEF Unset, Pending
  <2>2. CASE doc = Stored
    BY <2>2, StoredDocument, ActiveStates DEF Unset
  <2>3. QED
    BY <2>1, <2>2
<1>3. Idle \in [at : {"idle", "seen", "loaded"}, seen : Document, base : Document]
  BY BlankDocument DEF Idle
<1>4. wish \in Wish
  BY DEF Wish, States
<1>5. TypeOK
  <2>1. save \in [Saves -> [at : {"idle", "seen", "loaded"}, seen : Document, base : Document]]
    BY <1>3
  <2>2. patches \in 0..MaxPatches
    OBVIOUS
  <2>3. QED
    BY <1>1, <1>4, <2>1, <2>2 DEF TypeOK
<1>6. \A s \in Saves : CopiesInv(s) /\ Alternate(save[s].seen.states)
  BY BlankDocument DEF CopiesInv, Idle
<1>7. \A u \in Users : FavoriteInv(u)
  BY <1>1 DEF FavoriteInv, Updating, Idle
<1>8. StateInv /\ ImportantInv
  BY <1>1 DEF StateInv, ImportantInv, Updating, Idle
<1>9. UserInv
  BY <1>1, BlankDocument DEF UserInv, Idle
<1>10. QED
  BY <1>1, <1>5, <1>6, <1>7, <1>8, <1>9 DEF RecordInv, StatesInv

(* The invariant above holds of every reachable state. *)
THEOREM RecordCorrect == Spec => []RecordInv
<1>1. RecordInv /\ [Next]_vars => RecordInv'
  BY NextTypeOK, CopiesPreserved, FavoritePreserved, StatePreserved, ImportantPreserved,
     UserPreserved, StatesPreserved DEF RecordInv
<1>2. QED
  BY <1>1, InitRecordInv, PTL DEF Spec

(* The variables keep their types (TypeOK), whatever copies are written.   *)
THEOREM TypeCorrect == Spec => []TypeOK
  BY RecordCorrect, PTL DEF RecordInv

(* A save undoes the favourite of a user only if it read the observation   *)
(* before (MongooseObservationRepository.save, addFavorite).               *)
THEOREM FavoritesCorrect == Spec => []FavoritesKept
<1>1. RecordInv => FavoritesKept
  BY DEF RecordInv, FavoriteInv, FavoritesKept
<1>2. QED
  BY <1>1, RecordCorrect, PTL

(* An observation stays archived, or active, as it was asked for last.     *)
THEOREM StateCorrect == Spec => []StateKept
<1>1. RecordInv => StateKept
  BY DEF RecordInv, StateInv, StateKept
<1>2. QED
  BY <1>1, RecordCorrect, PTL

(* The important flag stays as it was left (addImportant, removeImportant).*)
THEOREM ImportantCorrect == Spec => []ImportantKept
<1>1. RecordInv => ImportantKept
  BY DEF RecordInv, ImportantInv, ImportantKept
<1>2. QED
  BY <1>1, RecordCorrect, PTL

(* A save does not name a deleted user again, unless it had him in hand.   *)
THEOREM UserCorrect == Spec => []NoDeletedUser
<1>1. RecordInv => NoDeletedUser
  BY DEF RecordInv, UserInv, NoDeletedUser
<1>2. QED
  BY <1>1, RecordCorrect, PTL

(* No state follows itself in an observation (addState).                   *)
THEOREM AlternationCorrect == Spec => []StatesAlternate
<1>1. RecordInv => StatesAlternate
  BY DEF RecordInv, StatesInv, Alternate, StatesAlternate
<1>2. QED
  BY <1>1, RecordCorrect, PTL
=============================================================================
