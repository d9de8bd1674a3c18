-------------------------- MODULE ObservationRecord --------------------------
(***************************************************************************)
(* One observation document, and the two ways it is written:               *)
(*   - a save reads the document, awaits permissions and new ids, reads    *)
(*     the document again, sets on it what it made of the first copy and   *)
(*     writes the paths whose values differ from the second;               *)
(*   - favourites, the important flag, states and the removal of a user    *)
(*     are single updates, which no save waits for.                        *)
(* What a save changes of its own (geometry, forms, attachments) is left   *)
(* out here: every save may change it, and nothing else does.              *)
(***************************************************************************)
EXTENDS Naturals, Sequences

CONSTANTS
    Users,       (* users who mark the observation a favourite             *)
    Flags,       (* descriptions of the important flag                     *)
    Saves,       (* save requests in hand at once                          *)
    None,        (* no flag                                                *)
    MaxPatches,  (* bound: updates other than saves                        *)
    MaxVersion   (* bound: saves that wrote an array                       *)

ASSUME ObservationRecordAssumption ==
    /\ None \notin Flags
    /\ {"important", "state", "user"} \cap Users = {}
    /\ MaxPatches \in Nat /\ MaxVersion \in Nat

(* The names of the states, and the states stored, each with an id.        *)
States == {"active", "archive"}
Entry == [name : States, id : Nat]

Document == [there : BOOLEAN, user : BOOLEAN, favoriteUserIds : SUBSET Users,
             important : Flags \cup {None}, states : Seq(Entry), version : Nat]

(* An observation that is not there is, to the save that reads it, a new   *)
(* one: it names the user who asks, and is active, which is a state that   *)
(* gets its id when it is written (Pending until then).                    *)
Pending == 0
Active(id) == <<[name |-> "active", id |-> id]>>
Blank == [there |-> FALSE, user |-> TRUE, favoriteUserIds |-> {},
          important |-> None, states |-> Active(Pending), version |-> 0]
Stored == [Blank EXCEPT !.there = TRUE, !.states = Active(Pending + 1)]

Wish == [favoriteUserIds : SUBSET Users, important : Flags \cup {None}, state : States]

VARIABLES
    doc,          (* the document; user: it names the user who made it     *)
    save,         (* progress of the saves, what they read first and second*)
    userRemoved,  (* that user was taken off the observations he made      *)
    patches,
    wish,         (* history: what the last answered updates asked for     *)
    exposed       (* history: updates a save was about to undo             *)

vars == <<doc, save, userRemoved, patches, wish, exposed>>

Idle == [at |-> "idle", seen |-> Blank, base |-> Blank]

State(d) == Head(d.states).name

(* An id that no state has: every write that makes one is counted.         *)
NewId == doc.version + patches + 2

Init ==
    /\ doc \in {Blank, Stored}
    /\ save = [s \in Saves |-> Idle]
    /\ userRemoved = FALSE
    /\ patches = 0
    /\ wish = [favoriteUserIds |-> {}, important |-> None, state |-> "active"]
    /\ exposed = {}

-----------------------------------------------------------------------------
(***************************************************************************)
(* Saves.                                                                  *)
(***************************************************************************)
SaveGoes(s, new) ==
    /\ save' = [save EXCEPT ![s] = new]
    /\ UNCHANGED <<userRemoved, patches, wish, exposed>>

(* A save that has found no document either time. *)
Creating(s) == save[s].at = "loaded" /\ ~save[s].base.there

(* The copy all the attributes come from that the client does not send.    *)
(* The request may be of the user who made the observation, or makes it,   *)
(* even when he is removed: one that was authenticated before goes on.     *)
findExisting(s) ==
    /\ save[s].at = "idle"
    /\ SaveGoes(s, [at |-> "seen", seen |-> doc, base |-> Blank])
    /\ UNCHANGED doc

(* No permission, attributes that are not valid, or an id nobody was given. *)
Refused(s) ==
    /\ save[s].at = "seen" \/ Creating(s)
    /\ SaveGoes(s, Idle)
    /\ UNCHANGED doc

findBeforeDoc(s) ==
    /\ save[s].at = "seen"
    /\ SaveGoes(s, [at |-> "loaded", seen |-> save[s].seen, base |-> doc])
    /\ UNCHANGED doc

(* An array is written whole, and only to the version that was read.  The  *)
(* state of a new observation has an id of its own, so it differs from     *)
(* whatever another save has stored in the meantime.                       *)
ArraysDiffer(s) ==
    \/ save[s].seen.favoriteUserIds # save[s].base.favoriteUserIds
    \/ save[s].seen.states # save[s].base.states

(* MUTANT of FlagDiffers: a flag that is not set clears the one stored. *)
FlagDiffersAlways(s) == save[s].seen.important # save[s].base.important

(* A flag that is not set is not written. *)
FlagDiffers(s) ==
    save[s].seen.important \notin {None, save[s].base.important}

(* MUTANT of Written: writes every path of the first copy. *)
WrittenWhole(s) ==
    [save[s].seen EXCEPT !.there = TRUE, !.version = doc.version + 1]

(* The paths that differ from the second copy, over what is stored now; a  *)
(* user or a flag that is not set is not written.                          *)
Written(s) ==
    LET seen == save[s].seen
        base == save[s].base IN
    [there |-> TRUE,
     user |-> doc.user \/ (seen.user /\ ~base.user),
     favoriteUserIds |-> IF seen.favoriteUserIds # base.favoriteUserIds
                         THEN seen.favoriteUserIds ELSE doc.favoriteUserIds,
     important |-> IF FlagDiffers(s) THEN seen.important ELSE doc.important,
     states |-> IF seen.states = base.states THEN doc.states
                ELSE IF seen.there THEN seen.states ELSE Active(NewId),
     version |-> IF ArraysDiffer(s) THEN doc.version + 1 ELSE doc.version]

UpdateDocument(s) ==
    /\ save[s].at = "loaded"
    /\ save[s].base.there
    /\ ArraysDiffer(s) => /\ doc.version = save[s].base.version
                          /\ doc.version < MaxVersion
    /\ doc' = Written(s)
    /\ SaveGoes(s, Idle)

InsertDocument(s) ==
    /\ Creating(s) /\ ~doc.there
    /\ doc' = [save[s].seen EXCEPT !.there = TRUE, !.states = Active(Pending + 1)]
    /\ SaveGoes(s, Idle)

(* Nothing catches what the save throws, so the process ends and starts    *)
(* again, and every save in hand is lost.  It may end at any other time.   *)
Restart ==
    /\ save' = [s \in Saves |-> Idle]
    /\ UNCHANGED <<doc, userRemoved, patches, wish, exposed>>

VersionError(s) ==
    /\ save[s].at = "loaded"
    /\ save[s].base.there
    /\ ArraysDiffer(s) /\ doc.version # save[s].base.version
    /\ Restart

DuplicateId(s) ==
    /\ Creating(s) /\ doc.there
    /\ Restart

Crash == Restart

-----------------------------------------------------------------------------
(***************************************************************************)
(* Single updates.  Each one also notes whether a save in hand is about to *)
(* write an older value over it: one that has yet to read its second copy, *)
(* or whose second copy differed already.                                  *)
(***************************************************************************)
InHand == {s \in Saves : save[s].at # "idle" /\ ~Creating(s)}

(* Saves in hand that will write the users, the states, the flag. *)
WritingUsers ==
    {s \in InHand : save[s].at = "seen"
                    \/ save[s].seen.favoriteUserIds # save[s].base.favoriteUserIds}
WritingStates ==
    {s \in InHand : save[s].at = "seen" \/ save[s].seen.states # save[s].base.states}
WritingFlag ==
    {s \in InHand : save[s].seen.important # None /\ (save[s].at = "seen" \/ FlagDiffers(s))}

Exposing(what, undone) ==
    exposed' = IF undone THEN exposed \cup {what} ELSE exposed \ {what}

Patch ==
    /\ doc.there
    /\ patches < MaxPatches
    /\ patches' = patches + 1
    /\ UNCHANGED <<save, userRemoved>>

addFavorite(u) ==
    /\ Patch
    /\ doc' = [doc EXCEPT !.favoriteUserIds = @ \cup {u}]
    /\ wish' = [wish EXCEPT !.favoriteUserIds = @ \cup {u}]
    /\ Exposing(u, \E s \in WritingUsers : u \notin save[s].seen.favoriteUserIds)

removeFavorite(u) ==
    /\ Patch
    /\ doc' = [doc EXCEPT !.favoriteUserIds = @ \ {u}]
    /\ wish' = [wish EXCEPT !.favoriteUserIds = @ \ {u}]
    /\ Exposing(u, \E s \in WritingUsers : u \in save[s].seen.favoriteUserIds)

addImportant(flag) ==
    /\ Patch
    /\ doc' = [doc EXCEPT !.important = flag]
    /\ wish' = [wish EXCEPT !.important = flag]
    /\ Exposing("important", \E s \in WritingFlag : save[s].seen.important # flag)

(* MUTANT of removeImportant: sets the flag to false. *)
removeImportantFalse ==
    /\ Patch
    /\ doc' = [doc EXCEPT !.important = FALSE]
    /\ wish' = [wish EXCEPT !.important = None]
    /\ Exposing("important", WritingFlag # {})

removeImportant ==
    /\ Patch
    /\ doc' = [doc EXCEPT !.important = None]
    /\ wish' = [wish EXCEPT !.important = None]
    /\ Exposing("important", WritingFlag # {})

StateAsked(name) ==
    /\ Patch
    /\ wish' = [wish EXCEPT !.state = name]
    /\ Exposing("state", \E s \in WritingStates : State(save[s].seen) # name)

(* MUTANT of addState: does not ask for the current state. *)
addStateAgain(name) ==
    /\ StateAsked(name)
    /\ doc' = [doc EXCEPT !.states = <<[name |-> name, id |-> NewId]>> \o @]

(* MUTANT of addState: puts the state last. *)
addStateLast(name) ==
    /\ StateAsked(name)
    /\ doc' = IF State(doc) = name THEN doc
              ELSE [doc EXCEPT !.states = Append(@, [name |-> name, id |-> NewId])]

(* The update does nothing when the observation is in that state. *)
addState(name) ==
    /\ StateAsked(name)
    /\ doc' = IF State(doc) = name THEN doc
              ELSE [doc EXCEPT !.states = <<[name |-> name, id |-> NewId]>> \o @]

(* The user is taken off the observations he made.  It is one of the steps *)
(* that run in parallel before his document is deleted; a save that has    *)
(* read the observation, or is the first one and still to come, names him. *)
removeUser ==
    /\ ~userRemoved
    /\ userRemoved' = TRUE
    /\ doc' = [doc EXCEPT !.user = ~doc.there]
    /\ exposed' = IF ~doc.there \/ \E s \in Saves : save[s].at = "seen"
                  THEN exposed \cup {"user"} ELSE exposed
    /\ UNCHANGED <<save, patches, wish>>

-----------------------------------------------------------------------------
Next ==
    \/ \E s \in Saves :
        \/ findExisting(s) \/ Refused(s) \/ findBeforeDoc(s)
        \/ UpdateDocument(s) \/ InsertDocument(s) \/ VersionError(s) \/ DuplicateId(s)
    \/ \E u \in Users : addFavorite(u) \/ removeFavorite(u)
    \/ \E flag \in Flags : addImportant(flag)
    \/ removeImportant
    \/ \E name \in States : addState(name)
    \/ removeUser
    \/ Crash

Spec == Init /\ [][Next]_vars

-----------------------------------------------------------------------------
(***************************************************************************)
(* Properties.                                                             *)
(***************************************************************************)
TypeOK ==
    /\ doc \in Document
    /\ save \in [Saves -> [at : {"idle", "seen", "loaded"}, seen : Document, base : Document]]
    /\ userRemoved \in BOOLEAN
    /\ patches \in 0..MaxPatches
    /\ wish \in Wish
    /\ exposed \in SUBSET (Users \cup {"important", "state", "user"})

(* A favourite a user set or removed is as the user left it, unless a save *)
(* had read the observation before and either had yet to read it again, or *)
(* had found the favourites changed in between (ODB save).                 *)
FavoritesKept ==
    \A u \in Users \ exposed :
        u \in doc.favoriteUserIds <=> u \in wish.favoriteUserIds

(* An observation is archived, or active again, until someone asks for the *)
(* other, under the same condition; a save that found no observation the   *)
(* first time and one the second time is such a save, for it makes the     *)
(* observation active (ODB save, addState).                                *)
StateKept == "state" \in exposed \/ State(doc) = wish.state

(* The important flag is as it was left; only a flag that was removed or   *)
(* replaced can be undone, never one that was added where a save saw none. *)
ImportantKept == "important" \in exposed \/ doc.important = wish.important

(* An observation that was there when its user was removed does not name   *)
(* him again, unless a save had read it, and not yet read it again, then.  *)
NoDeletedUser == userRemoved /\ doc.there /\ doc.user => "user" \in exposed

(* No state follows itself, whoever asks at the same time and whichever    *)
(* copy of the states a save writes back.                                  *)
StatesAlternate ==
    \A i \in 1..(Len(doc.states) - 1) : doc.states[i].name # doc.states[i + 1].name
=============================================================================
