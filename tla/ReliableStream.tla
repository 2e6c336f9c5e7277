--------------------------- MODULE ReliableStream ---------------------------
(***************************************************************************)
(* What a layer of a connection promises to the layer above it: what one   *)
(* side has accepted reaches the other side in order, unchanged and in the *)
(* end, unless the layer has told that it is broken.                       *)
(***************************************************************************)
EXTENDS Naturals, Sequences, SequencesExt

VARIABLES
  sent,       \* what the sender's calls have accepted
  received,   \* what the receiver's calls have returned
  broken      \* an error was returned

streamVars == <<sent, received, broken>>

Init == sent = <<>> /\ received = <<>> /\ broken = FALSE

Send == IsStrictPrefix(sent, sent') /\ UNCHANGED <<received, broken>>

Receive ==
  /\ IsStrictPrefix(received, received') /\ IsPrefix(received', sent)
  /\ UNCHANGED <<sent, broken>>

Break == broken' = TRUE /\ UNCHANGED <<sent, received>>

Next == Send \/ Receive \/ Break

Spec == Init /\ [][Next]_streamVars

(* The receiver catches up with the sender.  (What an instance sends is    *)
(* bounded: its senders pause in the end.)                                 *)
Delivered == []<>(received = sent \/ broken)

FairSpec == Spec /\ Delivered
=============================================================================
