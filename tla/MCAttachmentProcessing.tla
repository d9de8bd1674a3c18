----------------------- MODULE MCAttachmentProcessing -----------------------
(* Instances of AttachmentProcessing for TLC. *)
EXTENDS AttachmentProcessing, TLC

CONSTANTS u1, u2

(* One upload for each of two attachments. *)
TargetEach == u1 :> 1 @@ u2 :> 2

(* The first attachment is uploaded twice. *)
TargetTwice == u1 :> 1 @@ u2 :> 1

=============================================================================
