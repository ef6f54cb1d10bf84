------------------------------ MODULE Channel -------------------------------
(***************************************************************************)
(* What a conversation promises its two ends: whatever one of them reads   *)
(* was written by the other, and it is read once.  Nothing is promised     *)
(* about the order, nor that all of it arrives.                            *)
(***************************************************************************)
EXTENDS Naturals

CONSTANTS Ends, Letters

VARIABLES
    written,   \* end -> letters written to it
    read       \* end -> how often it has read each letter

Init == written = [e \in Ends |-> {}] /\ read = [e \in Ends |-> [l \in Letters |-> 0]]

Write(e, l) ==
    /\ l \in Letters /\ \A f \in Ends : l \notin written[f]
    /\ written' = [written EXCEPT ![e] = @ \cup {l}]
    /\ UNCHANGED read

Read(e, l) ==
    /\ l \in written[e]
    /\ read[e][l] = 0
    /\ read' = [read EXCEPT ![e][l] = 1]
    /\ UNCHANGED written

Next ==
    \E e \in Ends : \/ \E l \in written'[e] \ written[e] : Write(e, l)
                   \/ \E l \in written[e] : Read(e, l)

Spec == Init /\ [][Next]_<<written, read>>

=============================================================================
