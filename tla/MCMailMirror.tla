----------------------------- MODULE MCMailMirror -----------------------------
(* Constants for model-checking MailMirror. *)
EXTENDS MailMirror, TLC

CONSTANTS m1, m2, s1, c1
=============================================================================
