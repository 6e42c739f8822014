------------------------------ MODULE CdcStream ------------------------------
(***************************************************************************)
(* What the CDC host driver promises its application about the bytes it  *)
(* sends: the bytes handed to it reach the device in order and each of   *)
(* them once.  Bytes still pending when the session closes (the device    *)
(* is detached) are dropped; no byte is dropped while the session lasts. *)
(* A new batch is accepted only when the previous one has gone.           *)
(***************************************************************************)
EXTENDS Naturals, Sequences

VARIABLES
  open,    \* a class session is up
  queue,   \* bytes accepted and not yet received by the device
  recv     \* the bytes the device has received, in order

streamVars == <<open, queue, recv>>

Init == open = FALSE /\ queue = <<>> /\ recv = <<>>

Open == ~open /\ open' = TRUE /\ UNCHANGED <<queue, recv>>

\* The session ends and what is pending is lost.
Close == open /\ open' = FALSE /\ queue' = <<>> /\ UNCHANGED recv

\* The application hands over a batch of bytes.
Submit == open /\ queue = <<>> /\ queue' # <<>> /\ UNCHANGED <<open, recv>>

\* The device receives the next k bytes.
Deliver ==
  /\ open
  /\ \E k \in 1..Len(queue) :
       /\ recv' = recv \o SubSeq(queue, 1, k)
       /\ queue' = SubSeq(queue, k + 1, Len(queue))
  /\ UNCHANGED open

Next == Open \/ Close \/ Submit \/ Deliver

Spec == Init /\ [][Next]_streamVars
=============================================================================
