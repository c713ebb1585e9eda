----------------------------- MODULE FrameQueue -----------------------------
(***************************************************************************)
(* What the UDP scheduler promises its callers, without rings, sequence    *)
(* numbers or locks: a bounded first-in first-out queue of frames and the  *)
(* one frame that is being put on the wire.  Frames leave in the order in  *)
(* which they were queued, a queued frame is never changed, it is lost     *)
(* only when the whole queue is cleared, and the frame on the wire stays   *)
(* what it was until its transmission ends.                                *)
(***************************************************************************)
EXTENDS Integers, Sequences

CONSTANTS Frame,    \* the set of frames
          NoFrame,  \* "nothing is being sent"
          MaxLen    \* the queue's bound

VARIABLES queue,    \* frames accepted and not yet sent
          sending   \* the frame on the wire, or NoFrame

vars == <<queue, sending>>

Init == queue = <<>> /\ sending = NoFrame

Put == /\ Len(queue) < MaxLen
       /\ Len(queue') = Len(queue) + 1
       /\ queue'[Len(queue')] \in Frame
       /\ queue' = Append(queue, queue'[Len(queue')])
       /\ UNCHANGED sending

Drop == queue' = <<>> /\ UNCHANGED sending

StartSending == /\ queue # <<>>
                /\ sending = NoFrame
                /\ sending' = Head(queue)
                /\ queue' = Tail(queue)

EndSending == /\ sending # NoFrame
              /\ sending' = NoFrame
              /\ UNCHANGED queue

Next == Put \/ Drop \/ StartSending \/ EndSending

Spec == Init /\ [][Next]_vars

=============================================================================
