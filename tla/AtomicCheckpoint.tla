-------------------------- MODULE AtomicCheckpoint --------------------------
(***************************************************************************)
(* What the checkpoint store promises: it behaves as one register that     *)
(* holds the checkpoint recovery would use.  Captures are numbered.  A     *)
(* capture becomes current in one step, a call that returns 0 acknowledges *)
(* the current one, and a power loss may undo or complete the work in      *)
(* progress but never goes behind an acknowledged checkpoint.              *)
(***************************************************************************)
EXTENDS Naturals

VARIABLES
    current,   \* the capture recovery would use, 0 when there is none
    acked,     \* the latest capture a checkpoint call returned 0 for
    newest     \* the latest capture begun

vars == <<current, acked, newest>>

Init == current = 0 /\ acked = 0 /\ newest = 0

Capture ==
    /\ newest' = newest + 1
    /\ UNCHANGED <<current, acked>>

\* Only the newest capture is ever published, and never one older than current.
Publish ==
    /\ current < newest
    /\ current' = newest
    /\ UNCHANGED <<acked, newest>>

Acknowledge ==
    /\ acked < current
    /\ acked' = current
    /\ UNCHANGED <<current, newest>>

\* What happens while the machine stays up: current only ever becomes newest.
Step == Capture \/ Publish \/ Acknowledge

PowerLoss ==
    /\ current' \in acked .. newest
    /\ UNCHANGED <<acked, newest>>

Next == Step \/ PowerLoss

Spec == Init /\ [][Next]_vars

=============================================================================
