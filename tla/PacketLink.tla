----------------------------- MODULE PacketLink -----------------------------
(***************************************************************************)
(* What an IEEE 802.15.4 device driver owes to the network stack above it: *)
(* one transmission at a time, completed once and with its own timestamp;  *)
(* received frames handed up once, in order, with their own timestamps.    *)
(* A frame is its number, a timestamp is <<direction, number of its frame>>. *)
(***************************************************************************)
EXTENDS Integers, Sequences

None == 0

VARIABLES sending,    \* the transmission the stack waits for, or None
          completed,  \* transmissions completed: <<frame, timestamp>>
          delivered,  \* frames handed up: <<frame, timestamp>>
          failed,     \* the link underneath has broken its own promise
          doubtful    \* or has broken so much that timestamps of
                      \* transmissions may be those of earlier ones

linkVars == <<sending, completed, delivered, failed, doubtful>>

Init == /\ sending = None
        /\ completed = << >> /\ delivered = << >>
        /\ failed = FALSE /\ doubtful = FALSE

CONSTANT Frames

Stamps == {"tx", "rx"} \X Frames

Latest(log) == IF log = << >> THEN None ELSE log[Len(log)][1]

Xmit(f) == /\ sending = None
           /\ f > Latest(completed)
           /\ sending' = f
           /\ UNCHANGED <<completed, delivered, failed, doubtful>>

Complete(stamp) == /\ sending # None
                   /\ doubtful \/ stamp = <<"tx", sending>>
                   /\ completed' = Append(completed, <<sending, stamp>>)
                   /\ sending' = None
                   /\ UNCHANGED <<delivered, failed, doubtful>>

Deliver(f) == /\ f > Latest(delivered)
              /\ delivered' = Append(delivered, <<f, <<"rx", f>>>>)
              /\ UNCHANGED <<sending, completed, failed, doubtful>>

(* The interface is taken away; what was being sent is nobody's any more.  *)
Abandon == /\ sending' = None
           /\ UNCHANGED <<completed, delivered, failed, doubtful>>

Fail == failed'

Doubt == doubtful' /\ UNCHANGED <<sending, completed, delivered, failed>>

Next == \/ \E f \in Frames : Xmit(f) \/ Deliver(f)
        \/ \E stamp \in Stamps : Complete(stamp)
        \/ Abandon
        \/ Doubt
        \/ Fail

Spec == Init /\ [][Next]_linkVars
=============================================================================
