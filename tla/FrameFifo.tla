------------------------------ MODULE FrameFifo ------------------------------
(***************************************************************************)
(* What a descriptor ring promises: a bounded first-in first-out queue of  *)
(* frames.  Nothing is lost, repeated, reordered or altered between the    *)
(* moment a frame enters the ring and the moment it leaves it.             *)
(***************************************************************************)
EXTENDS Naturals, Sequences

CONSTANTS
  Frame,     \* the frames
  NoFrame,   \* marks that nothing has left the queue yet
  Capacity   \* frames the queue holds at most

VARIABLES
  queue,     \* the frames in the ring, the oldest first
  out        \* the last frame that left it

fifoVars == <<queue, out>>

Init == queue = << >> /\ out = NoFrame

Put(f) ==
  /\ Len(queue) < Capacity
  /\ queue' = Append(queue, f)
  /\ UNCHANGED out

Take ==
  /\ queue # << >>
  /\ out' = Head(queue)
  /\ queue' = Tail(queue)

Next == Take \/ \E f \in Frame : Put(f)

Spec == Init /\ [][Next]_fifoVars

\* Every frame that entered leaves in the end.
FairSpec == Spec /\ WF_fifoVars(Take)
=============================================================================
