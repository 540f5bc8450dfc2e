-------------------------- MODULE RingBufferProofs --------------------------
(***************************************************************************)
(* RingBuffer implements BoundedFifo for every number of slots and every   *)
(* set of items.                                                           *)
(*                                                                         *)
(* TypeOK is inductive by itself.  NoOverwrite is not: it needs to know    *)
(* that the copies of the indices in the functions' locals are still the   *)
(* indices, that what buf_put saw (a free slot) and what buf_get saw (an   *)
(* item) are still there, and that a stored or loaded item is the one in   *)
(* the array.  `Locals' says so, and the refinement follows from it.       *)
(***************************************************************************)
EXTENDS RingBuffer, SequenceTheorems, TLAPS

Locals ==
    /\ put.pc # "idle"    => put.write = write /\ NextSlot(write) # read
    /\ put.pc = "publish" => data[write] = put.item
    /\ get.pc # "idle"    => get.read = read /\ read # write
    /\ get.pc = "publish" => get.item = data[read]

IInv == TypeOK /\ Locals

(* The modular increment, without the modulus. *)
LEMMA NextSlotValue ==
    ASSUME NEW i \in Slots
    PROVE  NextSlot(i) = IF i + 1 = Size THEN 0 ELSE i + 1
  BY SizeAssumption DEF Slots, NextSlot

LEMMA NextSlotType == \A i \in Slots : NextSlot(i) \in Slots
  BY SizeAssumption, NextSlotValue DEF Slots

LEMMA NextSlotInjective ==
    ASSUME NEW i \in Slots, NEW j \in Slots, i # j
    PROVE  NextSlot(i) # NextSlot(j)
<1>1. i \in 0 .. Size - 1 /\ j \in 0 .. Size - 1
  BY DEF Slots
<1>2. QED
  BY <1>1, NextSlotValue, SizeAssumption

(* Type correctness of the buffer: the indices stay inside the array. *)
THEOREM RingBufferTypeOK == Spec => []TypeOK
<1>1. buf_init => TypeOK
  BY SizeAssumption DEF buf_init, TypeOK, Slots
<1>2. TypeOK /\ [Next]_vars => TypeOK'
  <2> SUFFICES ASSUME TypeOK, [Next]_vars PROVE TypeOK'
    OBVIOUS
  <2> USE DEF TypeOK
  <2>1. CASE PutFull
    BY <2>1 DEF PutFull
  <2>2. ASSUME NEW item \in Items, PutBegin(item) PROVE TypeOK'
    BY <2>2 DEF PutBegin
  <2>3. CASE PutStore
    BY <2>3 DEF PutStore
  <2>4. CASE PutPublish
    BY <2>4, NextSlotType DEF PutPublish
  <2>5. CASE GetEmpty
    BY <2>5 DEF GetEmpty
  <2>6. CASE GetBegin
    BY <2>6 DEF GetBegin
  <2>7. CASE GetLoad
    BY <2>7 DEF GetLoad
  <2>8. CASE GetPublish
    BY <2>8, NextSlotType DEF GetPublish
  <2>9. CASE UNCHANGED vars
    BY <2>9 DEF vars
  <2>10. QED
    BY <2>1, <2>2, <2>3, <2>4, <2>5, <2>6, <2>7, <2>8, <2>9 DEF Next, buf_put, buf_get
<1>3. QED
  BY <1>1, <1>2, PTL DEF Spec

(* The locals of either function are not invalidated by the other. *)
LEMMA LocalsInvariant == Spec => []IInv
<1>1. buf_init => IInv
  BY SizeAssumption DEF buf_init, IInv, TypeOK, Locals, Slots
<1>2. IInv /\ TypeOK' /\ [Next]_vars => IInv'
  <2> SUFFICES ASSUME TypeOK, Locals, TypeOK', [Next]_vars PROVE Locals'
    BY DEF IInv
  <2> USE DEF TypeOK, Locals
  <2>1. CASE PutFull
    BY <2>1 DEF PutFull, NextSlot
  <2>2. ASSUME NEW item \in Items, PutBegin(item) PROVE Locals'
    BY <2>2 DEF PutBegin, NextSlot
  <2>3. CASE PutStore
    BY <2>3, NextSlotValue DEF PutStore
  <2>4. CASE PutPublish
    BY <2>4, NextSlotValue DEF PutPublish
  <2>5. CASE GetEmpty
    BY <2>5 DEF GetEmpty, NextSlot
  <2>6. CASE GetBegin
    BY <2>6 DEF GetBegin, NextSlot
  <2>7. CASE GetLoad
    BY <2>7 DEF GetLoad, NextSlot
  <2>8. CASE GetPublish
    <3>1. /\ get.pc = "publish" /\ get.read = read /\ read # write
          /\ read' = NextSlot(read) /\ get'.pc = "idle"
          /\ UNCHANGED <<data, write, put>>
      BY <2>8 DEF GetPublish
    <3>2. NextSlot(write) # NextSlot(read)
      BY <3>1, NextSlotInjective
    <3>3. QED
      BY <3>1, <3>2 DEF NextSlot
  <2>9. CASE UNCHANGED vars
    BY <2>9 DEF vars, NextSlot
  <2>10. QED
    BY <2>1, <2>2, <2>3, <2>4, <2>5, <2>6, <2>7, <2>8, <2>9 DEF Next, buf_put, buf_get
<1>3. QED
  BY <1>1, <1>2, RingBufferTypeOK, PTL DEF Spec

(* buf_put stores into no slot that holds an item or is being read. *)
THEOREM RingBufferNoOverwrite == Spec => []NoOverwrite
<1>1. IInv => NoOverwrite
  <2> SUFFICES ASSUME IInv, put.pc = "store" PROVE
         /\ \A i \in 0 .. Fill - 1 : Slot(i) # put.write
         /\ get.pc = "load" => get.read # put.write
    BY DEF NoOverwrite
  <2>1. put.write = write /\ (get.pc = "load" => get.read = read /\ read # write)
    BY DEF IInv, Locals
  <2>2. read \in 0 .. Size - 1 /\ write \in 0 .. Size - 1
    BY DEF IInv, TypeOK, Slots
  <2>3. ASSUME NEW i \in 0 .. Fill - 1 PROVE Slot(i) # write
    BY <2>2, <2>3, SizeAssumption DEF Fill, Slot
  <2>4. QED
    BY <2>1, <2>3
<1>2. QED
  BY <1>1, LocalsInvariant, PTL

-----------------------------------------------------------------------------
(* The refinement.                                                         *)

(* The queue between the indices: its length, its type, its head. *)
LEMMA QueueShape ==
    ASSUME TypeOK
    PROVE  /\ Fill \in 0 .. Size - 1
           /\ Queue \in Seq(Items)
           /\ Len(Queue) = Fill
           /\ \A i \in 1 .. Fill : Queue[i] = data[Slot(i - 1)]
           /\ Fill = 0 <=> read = write
           /\ Slot(0) = read
<1>1. read \in 0 .. Size - 1 /\ write \in 0 .. Size - 1 /\ Size \in Nat \ {0}
  BY SizeAssumption DEF TypeOK, Slots
<1>2. Fill \in 0 .. Size - 1 /\ (Fill = 0 <=> read = write) /\ Slot(0) = read
  BY <1>1 DEF Fill, Slot
<1>3. \A i \in 1 .. Fill : Slot(i - 1) \in Slots
  BY <1>1, <1>2 DEF Slot, Slots, Fill
<1>4. \A i \in 1 .. Fill : data[Slot(i - 1)] \in Items
  BY <1>3 DEF TypeOK
<1>5. Queue \in [1 .. Fill -> Items]
  BY <1>4 DEF Queue
<1>6. Queue \in Seq(Items) /\ Len(Queue) = Fill
  BY <1>2, <1>5
<1>7. QED
  BY <1>2, <1>6 DEF Queue

(* The queue is full exactly when the next slot is the one to be read. *)
LEMMA QueueFull ==
    ASSUME TypeOK
    PROVE  Fill = Size - 1 <=> NextSlot(write) = read
<1>1. read \in 0 .. Size - 1 /\ write \in 0 .. Size - 1 /\ Size \in Nat \ {0}
  BY SizeAssumption DEF TypeOK, Slots
<1>2. NextSlot(write) = IF write + 1 = Size THEN 0 ELSE write + 1
  BY NextSlotValue DEF TypeOK
<1>3. QED
  BY <1>1, <1>2 DEF Fill

(* Publishing the write index appends the stored item. *)
LEMMA PutPublishPuts ==
    ASSUME IInv, TypeOK', PutPublish
    PROVE  Fifo!Put
<1> DEFINE item == put.item
<1>1. /\ put.write = write /\ NextSlot(write) # read /\ data[write] = item
      /\ write' = NextSlot(write) /\ UNCHANGED <<data, read, getret>> /\ putret' = TRUE
  BY DEF IInv, Locals, PutPublish
<1>2. read \in 0 .. Size - 1 /\ write \in 0 .. Size - 1 /\ Size \in Nat \ {0} /\ item \in Items
  BY SizeAssumption DEF IInv, TypeOK, Slots
<1>3. write' = IF write + 1 = Size THEN 0 ELSE write + 1
  BY <1>1, NextSlotValue DEF IInv, TypeOK
<1>4. Fill < Size - 1
  <2>1. Fill # Size - 1
    BY <1>1, QueueFull DEF IInv
  <2>2. Fill \in 0 .. Size - 1
    BY QueueShape DEF IInv
  <2>3. QED
    BY <1>2, <2>1, <2>2
<1>5. Fill' = Fill + 1
  BY <1>1, <1>2, <1>3, <1>4 DEF Fill
<1>6. \A i \in Nat : Slot(i)' = Slot(i)
  BY <1>1 DEF Slot
<1>7. Slot(Fill) = write
  BY <1>2 DEF Slot, Fill
<1>8. Queue' = [i \in 1 .. Fill + 1 |-> data[Slot(i - 1)]]
  BY <1>1, <1>5, <1>6 DEF Queue
<1>9. Queue' = Append(Queue, item)
  <2> DEFINE appended == Append(Queue, item)
  <2>1. Queue \in Seq(Items) /\ Len(Queue) = Fill /\ Fill \in Nat
    BY QueueShape DEF IInv
  <2>2. appended = [i \in 1 .. Fill + 1 |-> IF i <= Fill THEN Queue[i] ELSE item]
    BY <2>1, <1>2
  <2>3. ASSUME NEW i \in 1 .. Fill + 1
        PROVE  data[Slot(i - 1)] = IF i <= Fill THEN Queue[i] ELSE item
    <3>1. CASE i <= Fill
      BY <3>1, <2>1, QueueShape DEF IInv
    <3>2. CASE i = Fill + 1
      BY <3>2, <2>1, <1>1, <1>7
    <3>3. QED
      BY <3>1, <3>2, <2>1
  <2>4. QED
    BY <2>2, <2>3, <1>8
<1>10. Len(Queue) < Size - 1
  BY <1>4, QueueShape DEF IInv
<1>11. QED
  BY <1>1, <1>2, <1>9, <1>10 DEF Fifo!Put

(* Publishing the read index removes the head, and it is the item loaded. *)
LEMMA GetPublishGets ==
    ASSUME IInv, TypeOK', GetPublish
    PROVE  Fifo!Get
<1>1. /\ get.read = read /\ read # write /\ get.item = data[read]
      /\ read' = NextSlot(read) /\ UNCHANGED <<data, write, putret>>
      /\ getret' = <<get.item>>
  BY DEF IInv, Locals, GetPublish
<1>2. read \in 0 .. Size - 1 /\ write \in 0 .. Size - 1 /\ Size \in Nat \ {0}
  BY SizeAssumption DEF IInv, TypeOK, Slots
<1>3. read' = IF read + 1 = Size THEN 0 ELSE read + 1
  BY <1>1, NextSlotValue DEF IInv, TypeOK
<1>4. /\ Queue \in Seq(Items) /\ Len(Queue) = Fill /\ Fill \in Nat /\ Fill > 0
      /\ Slot(0) = read
      /\ \A i \in 1 .. Fill : Queue[i] = data[Slot(i - 1)]
  BY <1>1, QueueShape DEF IInv
<1>5. Fill' = Fill - 1
  BY <1>1, <1>2, <1>3 DEF Fill
<1>7. \A i \in 1 .. Fill - 1 : Slot(i - 1)' = Slot(i)
  BY <1>1, <1>2, <1>3, <1>4 DEF Slot, Fill
<1>8. Queue' = [i \in 1 .. Fill - 1 |-> data[Slot(i)]]
  BY <1>1, <1>5, <1>7 DEF Queue
<1>9. Queue' = Tail(Queue)
  <2>1. Queue \in Seq(Items) /\ Len(Queue) = Fill /\ Queue # << >>
    BY <1>4
  <2>2. /\ Tail(Queue) \in Seq(Items)
        /\ Len(Tail(Queue)) = Fill - 1
        /\ \A i \in 1 .. Fill - 1 : Tail(Queue)[i] = Queue[i + 1]
    BY <2>1
  <2>3. \A i \in 1 .. Fill - 1 : Queue[i + 1] = data[Slot(i)]
    BY <1>4
  <2>4. Queue' \in Seq(Items) /\ Len(Queue') = Fill - 1
    <3>1. \A i \in 1 .. Fill - 1 : data[Slot(i)] \in Items
      BY <2>1, <2>3, <1>4
    <3>2. Queue' \in [1 .. Fill - 1 -> Items]
      BY <1>8, <3>1
    <3>3. QED
      BY <1>4, <3>2
  <2>5. QED
    BY <1>8, <2>2, <2>3, <2>4, SeqEqual
<1>10. Head(Queue) = get.item /\ Queue # << >>
  BY <1>1, <1>4
<1>11. QED
  BY <1>1, <1>9, <1>10 DEF Fifo!Get

(* RingBuffer implements the bounded FIFO queue, for any size and items. *)
THEOREM RingBufferIsFifo == Spec => FifoSpec
<1>1. buf_init => Fifo!Init
  <2> SUFFICES ASSUME buf_init PROVE Fifo!Init
    OBVIOUS
  <2>1. Fill = 0
    BY DEF buf_init, Fill
  <2>2. Queue = << >>
    BY <2>1 DEF Queue
  <2>3. QED
    BY <2>2 DEF Fifo!Init, buf_init
<1>2. IInv /\ TypeOK' /\ [Next]_vars => [Fifo!Next]_<<Queue, putret, getret>>
  <2> SUFFICES ASSUME IInv, TypeOK', [Next]_vars
               PROVE  Fifo!Next \/ UNCHANGED <<Queue, putret, getret>>
    OBVIOUS
  <2>1. CASE PutFull
    <3>1. Len(Queue) = Size - 1
      BY <2>1, QueueFull, QueueShape DEF IInv, PutFull
    <3>2. UNCHANGED <<Queue, getret>> /\ putret' = FALSE
      BY <2>1 DEF PutFull, Queue, Fill, Slot
    <3>3. QED
      BY <3>1, <3>2 DEF Fifo!Next, Fifo!PutFull
  <2>2. ASSUME NEW item \in Items, PutBegin(item)
        PROVE UNCHANGED <<Queue, putret, getret>>
    BY <2>2 DEF PutBegin, Queue, Fill, Slot
  <2>3. CASE PutStore
    <3>1. UNCHANGED <<read, write, putret, getret>> /\ data' = [data EXCEPT ![write] = put.item]
      BY <2>3 DEF PutStore, IInv, Locals
    <3>2. Fill' = Fill /\ \A i \in 1 .. Fill : Slot(i - 1)' = Slot(i - 1)
      BY <3>1 DEF Fill, Slot
    <3>3. \A i \in 1 .. Fill : Slot(i - 1) \in Slots /\ Slot(i - 1) # write
      BY SizeAssumption DEF IInv, TypeOK, Fill, Slot, Slots
    <3>4. \A i \in 1 .. Fill : data'[Slot(i - 1)] = data[Slot(i - 1)]
      BY <3>1, <3>3 DEF IInv, TypeOK
    <3>5. QED
      BY <3>1, <3>2, <3>4 DEF Queue
  <2>4. CASE PutPublish
    BY <2>4, PutPublishPuts DEF Fifo!Next
  <2>5. CASE GetEmpty
    <3>1. Queue = << >>
      BY <2>5, QueueShape DEF IInv, GetEmpty
    <3>2. UNCHANGED <<Queue, putret>> /\ getret' = << >>
      BY <2>5 DEF GetEmpty, Queue, Fill, Slot
    <3>3. QED
      BY <3>1, <3>2 DEF Fifo!Next, Fifo!GetEmpty
  <2>6. CASE GetBegin
    BY <2>6 DEF GetBegin, Queue, Fill, Slot
  <2>7. CASE GetLoad
    BY <2>7 DEF GetLoad, Queue, Fill, Slot
  <2>8. CASE GetPublish
    BY <2>8, GetPublishGets DEF Fifo!Next
  <2>9. CASE UNCHANGED vars
    BY <2>9 DEF vars, Queue, Fill, Slot
  <2>10. QED
    BY <2>1, <2>2, <2>3, <2>4, <2>5, <2>6, <2>7, <2>8, <2>9 DEF Next, buf_put, buf_get
<1>3. QED
  BY <1>1, <1>2, LocalsInvariant, RingBufferTypeOK, PTL DEF Spec, FifoSpec, Fifo!Spec
=============================================================================
