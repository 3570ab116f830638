----------------------------- MODULE LineStream -----------------------------
(***************************************************************************)
(* What protocol.h:7-13 promises of a connection: the receiver is handed    *)
(* the sender's lines, each once, whole and in order, each as a line that   *)
(* fits its buffer.  A connection may break at any time, and then an end of *)
(* the sequence is missing.                                                *)
(***************************************************************************)
EXTENDS Naturals, Sequences

CONSTANTS
    Lines,         \* what a sender may want to say
    Fit(_)         \* a line as its receiver sees it

VARIABLES sent, got, broken

vars == <<sent, got, broken>>

Init == sent = <<>> /\ got = <<>> /\ broken = FALSE

Send ==
    /\ ~broken
    /\ \E l \in Lines : sent' = Append(sent, l)
    /\ UNCHANGED <<got, broken>>

Deliver ==
    /\ Len(got) < Len(sent)
    /\ got' = Append(got, Fit(sent[Len(got) + 1]))
    /\ UNCHANGED <<sent, broken>>

Break == ~broken /\ broken' = TRUE /\ UNCHANGED <<sent, got>>

Next == Send \/ Deliver \/ Break

Safety == Init /\ [][Next]_vars

(* While the connection lasts, what was sent arrives. *)
Spec == Safety /\ WF_vars(~broken /\ Deliver)
=============================================================================
