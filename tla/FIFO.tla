-------------------------------- MODULE FIFO --------------------------------
(* What the ready queues promise: threads leave in the order in which they  *)
(* were put in, one may be taken out of the middle, and no more than        *)
(* Capacity are held.                                                       *)
EXTENDS Naturals, Sequences

CONSTANTS Threads, Capacity, NULL

VARIABLES
  content,   \* the queued threads, oldest first
  out        \* what the last call returned

Init == content = <<>> /\ out = NULL

Put(t) ==
  /\ Len(content) < Capacity
  /\ content' = Append(content, t)
  /\ out' = out

Get ==
  /\ content # <<>>
  /\ out' = Head(content)
  /\ content' = Tail(content)

Peek ==
  /\ content # <<>>
  /\ out' = Head(content)
  /\ content' = content

\* Without its i-th element.
Without(s, i) == [j \in 1..(Len(s) - 1) |-> IF j < i THEN s[j] ELSE s[j + 1]]

\* The oldest entry of t is taken out, if there is one.
Drop(t) ==
  /\ \/ \E i \in 1..Len(content) :
          /\ content[i] = t
          /\ \A j \in 1..(i - 1) : content[j] # t
          /\ content' = Without(content, i)
     \/ /\ \A i \in 1..Len(content) : content[i] # t
        /\ content' = content
  /\ out' = out

Next == Get \/ Peek \/ \E t \in Threads : Put(t) \/ Drop(t)

Spec == Init /\ [][Next]_<<content, out>>
=============================================================================
