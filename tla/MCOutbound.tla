------------------------------ MODULE MCOutbound ------------------------------
(* Constants for model-checking Outbound. *)
EXTENDS Outbound, TLC

CONSTANTS yes, no, chat, offer, letter, p1, p2, p3

\* Two answers to one email, a WhatsApp reply, a quote and a new email.
MCKind == (yes :> "email_reply") @@ (no :> "email_reply") @@ (chat :> "whatsapp_reply")
            @@ (offer :> "quote") @@ (letter :> "mail")

\* Requests are interchangeable.
Symmetry == Permutations(Requests)
=============================================================================
