---------------------------- MODULE BoundedFifo ----------------------------
(***************************************************************************)
(* What firmware/src/buf.h offers: a queue of at most Capacity items with  *)
(* one putter and one getter.  buf_put refuses only when the queue is      *)
(* full, buf_get only when it is empty, and items come out in the order    *)
(* they went in, each once.                                                *)
(***************************************************************************)
EXTENDS Naturals, Sequences

CONSTANTS Items,     \* what is queued: the bytes
          Capacity   \* how many fit

VARIABLES queue,     \* the items put and not yet got
          putret,    \* what the last buf_put to finish returned
          getret     \* what the last buf_get to finish returned: <<item>>, or
                     \* the empty sequence for `false'

Init == /\ queue = << >>
        /\ putret = TRUE
        /\ getret = << >>

Put == /\ Len(queue) < Capacity
       /\ \E item \in Items : queue' = Append(queue, item)
       /\ putret' = TRUE
       /\ UNCHANGED getret

PutFull == /\ Len(queue) = Capacity
           /\ putret' = FALSE
           /\ UNCHANGED <<queue, getret>>

Get == /\ queue # << >>
       /\ getret' = <<Head(queue)>>
       /\ queue' = Tail(queue)
       /\ UNCHANGED putret

GetEmpty == /\ queue = << >>
            /\ getret' = << >>
            /\ UNCHANGED <<queue, putret>>

Next == Put \/ PutFull \/ Get \/ GetEmpty

Spec == Init /\ [][Next]_<<queue, putret, getret>>
=============================================================================
