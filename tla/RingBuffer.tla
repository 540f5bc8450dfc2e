----------------------------- MODULE RingBuffer -----------------------------
(***************************************************************************)
(* The byte queue of firmware/src/buf.c.  It has no lock: buf.c argues     *)
(* that it is safe to call one function only from interrupt context and    *)
(* the other never from it, provided the index is stored after the data    *)
(* has been written or read.  Here the two functions are two processes     *)
(* that interleave at every access to shared memory, which covers both     *)
(* arrangements the UART uses (put in the interrupt for reception, get in  *)
(* the interrupt for transmission).                                        *)
(***************************************************************************)
EXTENDS Integers, Sequences

CONSTANTS Size,   \* slots in the array; one is always left empty
          Items

ASSUME SizeAssumption == Size \in Nat \ {0}

Slots == 0 .. Size - 1

VARIABLES data, read, write,     \* the shared structure
          put,                   \* buf_put: where it is, its locals
          get,                   \* buf_get: likewise
          putret, getret         \* results, as in BoundedFifo

vars == <<data, read, write, put, get, putret, getret>>

(* The modular increment of both functions. *)
NextSlot(i) == (i + 1) % Size

buf_init == /\ data \in [Slots -> Items]
            /\ read = 0
            /\ write = 0
            /\ put \in [pc : {"idle"}, write : {0}, item : Items]
            /\ get \in [pc : {"idle"}, read : {0}, item : Items]
            /\ putret = TRUE
            /\ getret = << >>

(* buf_put reads both indices.  Only itself changes `write'. *)
PutFull == /\ put.pc = "idle"
           /\ NextSlot(write) = read
           /\ putret' = FALSE
           /\ UNCHANGED <<data, read, write, put, get, getret>>

(* Mutated form of PutBegin. *)
PutBeginUnchecked(item) == /\ put.pc = "idle"
                           /\ put' = [pc |-> "store", write |-> write, item |-> item]
                           /\ UNCHANGED <<data, read, write, get, putret, getret>>

PutBegin(item) == /\ put.pc = "idle"
                  /\ NextSlot(write) # read
                  /\ put' = [pc |-> "store", write |-> write, item |-> item]
                  /\ UNCHANGED <<data, read, write, get, putret, getret>>

PutStore == /\ put.pc = "store"
            /\ data' = [data EXCEPT ![put.write] = put.item]
            /\ put' = [put EXCEPT !.pc = "publish"]
            /\ UNCHANGED <<read, write, get, putret, getret>>

PutPublish == /\ put.pc = "publish"
              /\ write' = NextSlot(put.write)
              /\ put' = [put EXCEPT !.pc = "idle"]
              /\ putret' = TRUE
              /\ UNCHANGED <<data, read, get, getret>>

GetEmpty == /\ get.pc = "idle"
            /\ write = read
            /\ getret' = << >>
            /\ UNCHANGED <<data, read, write, put, get, putret>>

GetBegin == /\ get.pc = "idle"
            /\ write # read
            /\ get' = [get EXCEPT !.pc = "load", !.read = read]
            /\ UNCHANGED <<data, read, write, put, putret, getret>>

GetLoad == /\ get.pc = "load"
           /\ get' = [get EXCEPT !.pc = "publish", !.item = data[get.read]]
           /\ UNCHANGED <<data, read, write, put, putret, getret>>

GetPublish == /\ get.pc = "publish"
              /\ read' = NextSlot(get.read)
              /\ get' = [get EXCEPT !.pc = "idle"]
              /\ getret' = <<get.item>>
              /\ UNCHANGED <<data, write, put, putret>>

buf_put == PutFull \/ (\E item \in Items : PutBegin(item)) \/ PutStore \/ PutPublish
buf_get == GetEmpty \/ GetBegin \/ GetLoad \/ GetPublish

Next == buf_put \/ buf_get

Spec == buf_init /\ [][Next]_vars
-----------------------------------------------------------------------------
(* The shape of the state. *)
TypeOK == /\ data \in [Slots -> Items]
          /\ read \in Slots
          /\ write \in Slots
          /\ put \in [pc : {"idle", "store", "publish"}, write : Slots, item : Items]
          /\ get \in [pc : {"idle", "load", "publish"}, read : Slots, item : Items]
          /\ putret \in BOOLEAN
          /\ getret \in {<< >>} \cup {<<i>> : i \in Items}

(* The items between the two indices, oldest first. *)
Fill    == IF read <= write THEN write - read ELSE write - read + Size
Slot(i) == IF read + i < Size THEN read + i ELSE read + i - Size
Queue   == [i \in 1 .. Fill |-> data[Slot(i - 1)]]

(* buf_put never stores into a slot between the indices, whatever buf_get  *)
(* has done to `read' since buf_put looked at it: the item a get is about  *)
(* to load is not overwritten.                                             *)
NoOverwrite == put.pc = "store" =>
                  /\ \A i \in 0 .. Fill - 1 : Slot(i) # put.write
                  /\ get.pc = "load" => get.read # put.write

(* The buffer is a bounded FIFO queue (BoundedFifo) that holds one item    *)
(* less than it has slots, as uart.c relies on: nothing is lost, repeated  *)
(* or reordered, and a call fails only for a full or an empty queue.       *)
Fifo == INSTANCE BoundedFifo WITH queue <- Queue, Capacity <- Size - 1
FifoSpec == Fifo!Spec
=============================================================================
