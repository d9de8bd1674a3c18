------------------------- MODULE AttachmentPromise -------------------------
(***************************************************************************)
(* What the server promises about the content of an attachment that gets   *)
(* one upload: nothing is readable before a scan has passed it, success    *)
(* means it is readable, and every upload is eventually answered for.      *)
(***************************************************************************)
EXTENDS Naturals

CONSTANTS Attachments, Uploads, Target, Malware, None

VARIABLES status,   (* what a client reads on the attachment *)
          content   (* what a client can download            *)

vars == <<status, content>>

Init ==
    /\ status = [a \in Attachments |-> "none"]
    /\ content = [a \in Attachments |-> None]

Accept(a) ==
    /\ status[a] = "none"
    /\ \E u \in Uploads : Target[u] = a
    /\ status' = [status EXCEPT ![a] = "pending"]
    /\ UNCHANGED content

Publish(a) ==
    /\ status[a] = "pending"
    /\ content[a] = None
    /\ \E u \in Uploads \ Malware :
          Target[u] = a /\ content' = [content EXCEPT ![a] = u]
    /\ UNCHANGED status

Confirm(a) ==
    /\ status[a] = "pending"
    /\ content[a] # None
    /\ status' = [status EXCEPT ![a] = "success"]
    /\ UNCHANGED content

Reject(a) ==
    /\ status[a] = "pending"
    /\ content[a] = None
    /\ \E u \in Malware : Target[u] = a
    /\ status' = [status EXCEPT ![a] = "rejected"]
    /\ UNCHANGED content

(* The scanner could not say, or the server stopped between two steps. *)
GiveUp(a) ==
    /\ status[a] = "pending"
    /\ status' = [status EXCEPT ![a] = "error"]
    /\ UNCHANGED content

Answer(a) == Confirm(a) \/ Reject(a) \/ GiveUp(a)

Next == \E a \in Attachments : Accept(a) \/ Publish(a) \/ Answer(a)

Spec == Init /\ [][Next]_vars

FairSpec == Spec /\ \A a \in Attachments : WF_vars(Answer(a))
=============================================================================
