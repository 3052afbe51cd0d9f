----------------------------- MODULE UplinkOnce -----------------------------
(* The uplink implements AtLeastOnce: given is what was typed, a copy is a  *)
(* row published for the receiver, reported are the messages to a user that *)
(* the client took off its list of those to resend.  Two things are not     *)
(* promised: anything of the acknowledgement of a group message, which says *)
(* nothing of rows for the group, and of a client whose goroutines do not   *)
(* keep up, as GetClientId can then draw one number twice and an            *)
(* acknowledgement mean either message.                                     *)
EXTENDS Uplink

Contract == INSTANCE AtLeastOnce WITH
  MaxCopies <- 1 + ResendMax,
  given     <- 1 .. typed,
  copies    <- peer,
  reported  <- IF paced THEN {m \in ctxDone : kind[m] # "group"} ELSE {}

(* A typed message is stored for its receiver, or the other members of its  *)
(* group, at most 1 + ResendCountMax times, and the client stops resending  *)
(* one to a user on an acknowledgement only once it is stored for that user *)
(* (client.go:116-123, 217-220; req.go:115-147, message.go:153-157).        *)
StoredBeforeReported == Contract!Spec
=============================================================================
