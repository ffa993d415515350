------------------------------- MODULE KeyFifo -------------------------------
(***************************************************************************)
(* What the keyboard device promises the program that polls it: a bounded  *)
(* first-in first-out queue of key codes that drops what arrives when it   *)
(* is full, and answers NoKey when it is read empty.                       *)
(***************************************************************************)
EXTENDS Naturals, Sequences

CONSTANTS
  Keys,        \* key codes the frontend may inject
  NoKey,       \* the answer to a read of an empty queue
  QUEUE_SIZE   \* capacity

VARIABLES
  queue,       \* keys accepted and not yet read, oldest first
  answer       \* the last answer given to a DATA read

fifoVars == <<queue, answer>>

Init == queue = <<>> /\ answer = NoKey

(* A key arrives: it is kept exactly when there is room. *)
Accept(k) ==
  /\ Len(queue) < QUEUE_SIZE
  /\ queue' = Append(queue, k)
  /\ UNCHANGED answer

(* A DATA read takes the oldest key. *)
Take ==
  /\ queue # <<>>
  /\ answer' = Head(queue)
  /\ queue' = Tail(queue)

(* A DATA read of an empty queue. *)
TakeNothing ==
  /\ queue = <<>>
  /\ answer' = NoKey
  /\ UNCHANGED queue

Next == (\E k \in Keys : Accept(k)) \/ Take \/ TakeNothing

Spec == Init /\ [][Next]_fifoVars
=============================================================================
