-------------------------------- MODULE Smtp --------------------------------
(***************************************************************************)
(* What a caller of SmtpEmailService.send learns about a message            *)
(* (app/services/email/smtp.py): the server accepted it or not, and the     *)
(* call returned a receipt, raised EmailSendOutcomeUnknown, or raised       *)
(* EmailSendKnownFailure.                                                   *)
(***************************************************************************)

\* A lost connection while the message is handed over is "unknown"; everything else
\* that is raised is "failed", a bad answer to QUIT after the message included.
SmtpOutcomes ==
    { [accepted |-> TRUE,  raised |-> "none"],
      [accepted |-> TRUE,  raised |-> "unknown"],
      [accepted |-> FALSE, raised |-> "unknown"],
      [accepted |-> FALSE, raised |-> "failed"],
      [accepted |-> TRUE,  raised |-> "failed"] }

\* The one outcome that tells the caller something untrue.
Misreported(o) == o.accepted /\ o.raised = "failed"

\* The status a delivery row gets for an outcome.
DeliveryStatus(o) ==
    CASE o.raised = "none" -> "delivered"
      [] o.raised = "unknown" -> "unknown_outcome"
      [] o.raised = "failed" -> "failed"

=============================================================================
