------------------------------ MODULE TagProofs ------------------------------
(***************************************************************************)
(* Theorems about Tag, for every period, count of anchors and responses:   *)
(* sleeping never cuts a blink short, stop stops, and an active radio is   *)
(* watched.                                                                *)
(***************************************************************************)
EXTENDS Tag, WellFoundedInduction, TLAPS

(* What the argument needs of the types. *)
Bits == {"rxdone", "rxerror", "txdone"}
Devs == [active : BOOLEAN, anchors : Nat, responses : Nat, radio : {"idle", "tx", "rx"},
         status : SUBSET Bits, pending : BOOLEAN, timer : BOOLEAN, overflow : BOOLEAN]

Shape == dev \in Devs /\ after \in {"poll", "supervisor", "cli", "proto"}

(* A blink is on its way. *)
Blinking(d) == d.radio = "tx" /\ d.responses = 0

(* It began with the radio's handler at rest, and the handler does not run  *)
(* again before it is sent; so radio_active stays set as long as it takes.  *)
(* proto_poll's second look at the state, and the last step of a shutdown,  *)
(* come after a look that found no blink, and no interrupt begins one.      *)
BlinkInv == Blinking(dev) => /\ dev.active /\ isr = "off" /\ ~dev.pending
                             /\ pc \notin {"doze", "inactive"}

(* Once the callbacks are cleared no interrupt starts anything; what the    *)
(* handlers had started before ends in the two steps of the shutdown.       *)
StopInv == ~callbacks =>
              /\ start = Never /\ ~tag_active
              /\ pc \notin {"start", "sent"}
              /\ pc # "shutdown" => ~dev.timer /\ ~dev.overflow
              /\ pc \notin {"shutdown", "off"} => dev.radio = "idle"

TagInv == Shape /\ BlinkInv /\ StopInv

-----------------------------------------------------------------------------
(* The functions that run in either context.                               *)

(* A transmission leaves the radio idle when it is late, asleep or not. *)
LEMMA TxStart ==
    ASSUME NEW d \in Devs, NEW delayed \in BOOLEAN, NEW e \in radio_txstart(d, delayed)
    PROVE  e \in Devs /\ e.responses = d.responses /\ e.active = d.active
           /\ e.pending = d.pending
<1>1. e = d \/ e = [d EXCEPT !.radio = "tx"] \/ e = [d EXCEPT !.radio = "idle", !.status = {}]
  BY DEF radio_txstart, Late, radio_txrxoff
<1> QED BY ONLY d \in Devs, <1>1 DEF Devs

LEMMA StartRx ==
    ASSUME NEW d \in Devs, NEW delayed \in BOOLEAN, NEW e \in start_rx(d, delayed)
    PROVE  e \in Devs /\ (Blinking(e) => Blinking(d))
<1> DEFINE x == [d EXCEPT !.active = TRUE, !.timer = TRUE]
<1>1. x \in Devs /\ x.radio = d.radio /\ x.responses = d.responses
  BY DEF Devs
<1>2. e \in radio_rxstart(x, delayed)
  BY DEF start_rx
<1> HIDE DEF x
<1>3. e = x \/ e = [x EXCEPT !.radio = "rx"] \/ e = [x EXCEPT !.radio = "idle", !.status = {}]
  BY <1>2 DEF radio_rxstart, Late, radio_txrxoff
<1> QED BY <1>1, <1>3 DEF Devs, Blinking

(* A response counts as sent before it is. *)
LEMMA Finish ==
    ASSUME NEW d \in Devs, NEW e \in tail_finish_ranging(d)
    PROVE  e \in Devs /\ (Blinking(e) => Blinking(d))
<1>1. CASE PacketPending(d)
  <2>1. PICK x \in radio_txstart(d, TRUE) : e = [x EXCEPT !.responses = @ + 1]
    BY <1>1 DEF tail_finish_ranging
  <2>2. x \in Devs
    BY <2>1, TxStart
  <2>3. e \in Devs /\ e.responses = x.responses + 1
    BY <2>1, <2>2 DEF Devs
  <2>4. x.responses \in Nat
    BY <2>2 DEF Devs
  <2> QED BY <2>3, <2>4 DEF Blinking
<1>2. CASE ~PacketPending(d)
  BY <1>2 DEF tail_finish_ranging, Devs, Blinking
<1> QED BY <1>1, <1>2

LEMMA RadioOff ==
    ASSUME NEW d \in Devs
    PROVE  /\ radio_txrxoff(d) \in Devs /\ radio_txrxoff(d).radio = "idle"
           /\ timer_stop(d) \in Devs /\ timer_stop(d).radio = d.radio
BY DEF radio_txrxoff, timer_stop, Devs

LEMMA Timing ==
    ASSUME NEW d \in Devs, NEW e \in tail_timing(d)
    PROVE  e \in Devs /\ (Blinking(e) => Blinking(d))
<1> DEFINE heard == IF d.anchors < max_anchors THEN [d EXCEPT !.anchors = @ + 1] ELSE d
           quiet == timer_stop(radio_txrxoff(heard))
<1>1. heard \in Devs /\ heard.radio = d.radio /\ heard.responses = d.responses
  BY DEF Devs
<1>2. e = heard \/ e \in tail_finish_ranging(quiet)
  BY DEF tail_timing
<1> HIDE DEF heard
<1>3. quiet \in Devs /\ quiet.radio = "idle"
  BY <1>1, RadioOff
<1> HIDE DEF quiet
<1>4. ~Blinking(quiet)
  BY <1>3 DEF Blinking
<1> QED BY <1>1, <1>2, <1>3, <1>4, Finish DEF Blinking

(* No callback begins a blink, and the timer's ends what it finds. *)
LEMMA Callbacks ==
    ASSUME NEW d \in Devs
    PROVE  /\ \A e \in proto_rxdone(d) \cup proto_rxerror(d) \cup proto_txdone(d) :
                 e \in Devs /\ (Blinking(e) => Blinking(d))
           /\ \A e \in proto_rxtimer(d) : e \in Devs /\ ~Blinking(e)
<1>1. ASSUME NEW e \in proto_rxdone(d) PROVE e \in Devs /\ (Blinking(e) => Blinking(d))
  <2>1. CASE e = [radio_txrxoff(d) EXCEPT !.active = FALSE]
    BY <2>1, RadioOff DEF Devs, Blinking
  <2>2. CASE e = d \/ e \in tail_timing(d)
    BY <2>2, Timing
  <2> QED BY <1>1, <2>1, <2>2 DEF proto_rxdone
<1>2. ASSUME NEW e \in proto_rxerror(d) PROVE e \in Devs /\ (Blinking(e) => Blinking(d))
  BY <1>2, StartRx DEF proto_rxerror
<1>3. ASSUME NEW e \in proto_txdone(d) PROVE e \in Devs /\ (Blinking(e) => Blinking(d))
  BY <1>3, StartRx, Finish DEF proto_txdone
<1>4. ASSUME NEW e \in proto_rxtimer(d) PROVE e \in Devs /\ ~Blinking(e)
  <2> DEFINE quiet == radio_txrxoff(d)
  <2>1. e \in tail_finish_ranging(quiet) /\ quiet \in Devs /\ ~Blinking(quiet)
    BY <1>4, RadioOff DEF proto_rxtimer, Blinking
  <2> HIDE DEF quiet
  <2> QED BY <2>1, Finish
<1> QED BY <1>1, <1>2, <1>3, <1>4

-----------------------------------------------------------------------------
LEMMA TagInit == Init => TagInv
BY DEF Init, TagInv, Shape, Devs, Bits, BlinkInv, Blinking, StopInv

(* A blink is not cut short by the radio's going to sleep in this step. *)
Kept == ~radio_sleeping /\ radio_sleeping' => ~(dev.radio = "tx" /\ dev.responses = 0)

LEMMA Raised ==
    ASSUME NEW d \in Devs, NEW bit \in Bits
    PROVE  /\ Raise(d, bit) \in Devs
           /\ Raise(d, bit).radio = d.radio
           /\ Raise(d, bit).timer = d.timer
           /\ Raise(d, bit).overflow = d.overflow
<1> DEFINE edge == d.pending \/ d.status = {}
           status == d.status \cup {bit}
<1>1. edge \in BOOLEAN /\ status \in SUBSET Bits
  BY DEF Devs
<1> HIDE DEF edge, status
<1>2. /\ [d EXCEPT !.status = status, !.pending = edge] \in Devs
      /\ [d EXCEPT !.status = status, !.pending = edge].radio = d.radio
      /\ [d EXCEPT !.status = status, !.pending = edge].timer = d.timer
      /\ [d EXCEPT !.status = status, !.pending = edge].overflow = d.overflow
  BY <1>1 DEF Devs
<1>3. Raise(d, bit) = [d EXCEPT !.status = status, !.pending = edge]
  BY Zenon DEF Raise, status, edge
<1> QED BY <1>2, <1>3

(* The interrupts and the hardware. *)
LEMMA InterruptStep ==
    ASSUME TagInv, GPIO_ODD_IRQHandler \/ TIMER0_IRQHandler \/ Radio \/ Timer
    PROVE  TagInv' /\ Kept
<1> USE DEF TagInv, Shape
<1>0. UNCHANGED <<pc, after, radio_sleeping, callbacks, tag_active, start>>
  BY DEF GPIO_ODD_IRQHandler, RadioIrq, Handle, TIMER0_IRQHandler, Radio, Timer, irq, device,
         times
<1>1. CASE RadioIrq
  <2>1. dev' = [dev EXCEPT !.pending = FALSE] /\ dev.pending
    BY <1>1 DEF RadioIrq
  <2>2. dev' \in Devs /\ ~Blinking(dev')
    BY <2>1 DEF Devs, Blinking, BlinkInv
  <2> QED BY <1>0, <2>1, <2>2 DEF BlinkInv, StopInv, Kept, Devs
<1>2. ASSUME NEW bit \in Bits, NEW called, NEW next, Handle(bit, called, next),
             \A e \in called : e \in Devs /\ (Blinking(e) => Blinking(Cleared(bit)))
      PROVE  TagInv' /\ Kept
  <2>1. Cleared(bit) \in Devs /\ (Blinking(Cleared(bit)) => Blinking(dev))
        /\ Cleared(bit).timer = dev.timer /\ Cleared(bit).overflow = dev.overflow
        /\ Cleared(bit).radio = dev.radio
    BY DEF Cleared, Devs, Blinking
  <2>2. isr = bit /\ bit # "off"
    BY <1>2 DEF Handle, Bits
  <2>3. ~Blinking(dev)
    BY <2>2 DEF BlinkInv
  <2>4. dev' = dev \/ dev' = Cleared(bit) \/ (callbacks /\ dev' \in called)
    BY <1>2 DEF Handle
  <2>5. dev' \in Devs /\ ~Blinking(dev')
    BY <1>2, <2>1, <2>3, <2>4
  <2>6. ~callbacks => /\ dev'.timer = dev.timer /\ dev'.overflow = dev.overflow
                      /\ dev'.radio = dev.radio
    BY <2>1, <2>4
  <2>7. UNCHANGED <<pc, after, radio_sleeping, callbacks, tag_active, start>>
    BY <1>2 DEF Handle, device, times
  <2> QED BY <2>5, <2>6, <2>7 DEF BlinkInv, StopInv, Kept
<1>3. CASE \/ Handle("rxdone", proto_rxdone(Cleared("rxdone")), "rxerror")
           \/ Handle("rxerror", proto_rxerror(Cleared("rxerror")), "txdone")
           \/ Handle("txdone", proto_txdone(Cleared("txdone")), "off")
  <2>1. \A bit \in Bits : Cleared(bit) \in Devs
    BY DEF Cleared, Devs
  <2>2. {"rxdone", "rxerror", "txdone"} \subseteq Bits
    BY DEF Bits
  <2>3. CASE Handle("rxdone", proto_rxdone(Cleared("rxdone")), "rxerror")
    BY <1>2, <2>1, <2>2, <2>3, Callbacks
  <2>4. CASE Handle("rxerror", proto_rxerror(Cleared("rxerror")), "txdone")
    BY <1>2, <2>1, <2>2, <2>4, Callbacks
  <2>5. CASE Handle("txdone", proto_txdone(Cleared("txdone")), "off")
    BY <1>2, <2>1, <2>2, <2>5, Callbacks
  <2> QED BY <1>3, <2>3, <2>4, <2>5
<1>4. CASE TIMER0_IRQHandler
  <2> DEFINE d == [dev EXCEPT !.overflow = FALSE]
  <2>1. d \in Devs
    BY DEF Devs
  <2>2. dev.overflow /\ dev' \in proto_rxtimer(d)
    BY <1>4 DEF TIMER0_IRQHandler
  <2> HIDE DEF d
  <2>3. dev' \in Devs /\ ~Blinking(dev')
    BY <2>1, <2>2, Callbacks
  <2> QED BY <1>0, <2>2, <2>3 DEF BlinkInv, StopInv, Kept
<1>5. CASE Radio
  <2>1. \/ dev.radio = "tx" /\ dev' = Raise([dev EXCEPT !.radio = "idle"], "txdone")
        \/ dev.radio = "rx" /\ dev' = Raise(dev, "rxdone")
        \/ dev.radio = "rx" /\ dev' = Raise(dev, "rxerror")
    BY <1>5 DEF Radio
  <2>2. dev' \in Devs /\ dev'.radio # "tx" /\ dev'.timer = dev.timer
        /\ dev'.overflow = dev.overflow /\ dev.radio # "idle"
    <3> DEFINE sent == [dev EXCEPT !.radio = "idle"]
    <3>1. sent \in Devs /\ sent.radio = "idle" /\ sent.timer = dev.timer
          /\ sent.overflow = dev.overflow /\ {"rxdone", "rxerror", "txdone"} \subseteq Bits
      BY DEF Devs, Bits
    <3> HIDE DEF sent
    <3>2. CASE dev.radio = "tx" /\ dev' = Raise(sent, "txdone")
      BY <3>1, <3>2, Raised
    <3>3. CASE dev.radio = "rx" /\ (dev' = Raise(dev, "rxdone") \/ dev' = Raise(dev, "rxerror"))
      BY <3>1, <3>3, Raised
    <3> QED BY <2>1, <3>2, <3>3 DEF sent
  <2> QED BY <1>0, <2>2 DEF BlinkInv, StopInv, Kept, Blinking
<1>6. CASE Timer
  <2>1. dev.timer /\ dev' = [dev EXCEPT !.timer = FALSE, !.overflow = TRUE] /\ isr' = isr
    BY <1>6 DEF Timer, irq
  <2>2. dev' \in Devs /\ dev'.radio = dev.radio /\ dev'.responses = dev.responses
        /\ dev'.active = dev.active /\ dev'.pending = dev.pending
    BY <2>1 DEF Devs
  <2> QED BY <1>0, <2>1, <2>2 DEF BlinkInv, StopInv, Kept, Blinking
<1> QED BY <1>1, <1>3, <1>4, <1>5, <1>6 DEF GPIO_ODD_IRQHandler

(* The main loop runs only where no interrupt is due. *)
LEMMA QuietStep ==
    ASSUME TagInv,
           UNCHANGED <<dev, isr, radio_sleeping, callbacks, tag_active>>,
           after' \in {"poll", "supervisor", "cli", "proto"},
           pc' \in {"doze", "inactive"} => ~Blinking(dev) \/ pc' = pc,
           ~callbacks => /\ start' = Never
                         /\ pc' \notin {"start", "sent", "off", "inactive"}
                         /\ pc # "shutdown" /\ pc # "off"
    PROVE  TagInv' /\ Kept
BY DEF TagInv, Shape, BlinkInv, Blinking, StopInv, Kept

(* What proto_prepare does to the state. *)
LEMMA Prepared ==
    ASSUME dev \in Devs, proto_prepare
    PROVE  /\ dev' \in Devs
           /\ dev' = dev \/ dev' = [dev EXCEPT !.active = TRUE]
           /\ radio_sleeping' => radio_sleeping
<1>1. dev' = dev \/ dev' = [dev EXCEPT !.active = TRUE]
  BY DEF proto_prepare
<1>2. [dev EXCEPT !.active = TRUE] \in Devs
  BY DEF Devs
<1>3. radio_sleeping' => radio_sleeping
  BY Zenon DEF proto_prepare
<1> QED BY <1>1, <1>2, <1>3

(* Arming events, and the start of the main loop and of a tag. *)
LEMMA EventStep ==
    ASSUME TagInv,
           proto_init \/ tag_with_period \/ PollEarly \/ PollStart \/ PollSupervisor
    PROVE  TagInv' /\ Kept
<1> USE DEF TagInv, Shape
<1>1. CASE proto_init
  BY <1>1, QuietStep DEF proto_init, irq, device, times, StopInv
<1>2. CASE tag_with_period
  <2>1. /\ proto_prepare /\ callbacks' /\ pc' = "start"
        /\ UNCHANGED <<isr, after>>
    BY <1>2 DEF tag_with_period, irq
  <2>2. /\ dev' \in Devs /\ (Blinking(dev') => Blinking(dev) /\ dev'.active)
        /\ dev'.pending = dev.pending
    BY <2>1, Prepared DEF Devs, Blinking, BlinkInv
  <2> QED BY <2>1, <2>2, Prepared DEF BlinkInv, StopInv, Kept
<1>3. CASE PollEarly
  <2>1. \/ proto_prepare
        \/ UNCHANGED <<dev, radio_sleeping>>
    BY <1>3 DEF PollEarly
  <2>2. /\ pc = "poll" /\ pc' = "events"
        /\ UNCHANGED <<isr, after, callbacks, tag_active, start>>
    BY <1>3 DEF PollEarly, irq
  <2>3. /\ dev' \in Devs /\ (radio_sleeping' => radio_sleeping)
        /\ dev' = dev \/ dev' = [dev EXCEPT !.active = TRUE]
    BY <2>1, Prepared
  <2>4. /\ (Blinking(dev') => Blinking(dev) /\ dev'.active)
        /\ dev'.pending = dev.pending /\ dev'.radio = dev.radio
        /\ dev'.timer = dev.timer /\ dev'.overflow = dev.overflow
    BY <2>3 DEF Devs, Blinking, BlinkInv
  <2> QED BY <2>2, <2>3, <2>4 DEF BlinkInv, StopInv, Kept
<1>4. CASE PollStart
  <2>1. ~callbacks => pc' = "supervisor" /\ start' = start
    BY <1>4 DEF PollStart, StopInv, Never
  <2> QED BY <1>4, <2>1, QuietStep DEF PollStart, irq, device, StopInv
<1>5. CASE PollSupervisor
  BY <1>5, QuietStep DEF PollSupervisor, irq, device, StopInv
<1> QED BY <1>1, <1>2, <1>3, <1>4, <1>5

(* tag_start. *)
LEMMA StartStep ==
    ASSUME TagInv, tag_start
    PROVE  TagInv' /\ Kept
<1> USE DEF TagInv, Shape
<1>0. callbacks /\ callbacks' = callbacks /\ isr = "off" /\ isr' = isr /\ ~dev.pending
      /\ after' = after /\ radio_sleeping' = radio_sleeping
  BY DEF tag_start, StartRefused, StartFlat, Blink, Sent, StopInv, MainRuns, irq, device
<1>1. CASE dev' = dev /\ pc' = after
  BY <1>0, <1>1 DEF BlinkInv, StopInv, Kept
<1>2. CASE Blink
  <2> DEFINE d == [dev EXCEPT !.anchors = 0, !.responses = 0, !.active = TRUE]
  <2>1. d \in Devs /\ d.active = TRUE /\ d.pending = dev.pending
    BY DEF Devs
  <2>2. dev' \in radio_txstart(d, FALSE) /\ pc' = "sent"
    BY <1>2 DEF Blink
  <2> HIDE DEF d
  <2>3. dev' \in Devs /\ dev'.active /\ ~dev'.pending
    BY <1>0, <2>1, <2>2, TxStart
  <2> QED BY <1>0, <2>2, <2>3 DEF BlinkInv, StopInv, Kept
<1> QED BY <1>1, <1>2 DEF tag_start, StartRefused, StartFlat, Sent

(* The two steps of tag_supervisor and stop that quieten the hardware. *)
LEMMA ShutdownStep ==
    ASSUME TagInv, Shutdown
    PROVE  TagInv' /\ Kept
<1> USE DEF TagInv, Shape
<1>0. /\ ~dev.overflow
      /\ UNCHANGED <<isr, after, radio_sleeping, callbacks, tag_active, start>>
  BY DEF Shutdown, MainRuns, irq, device, times
<1>1. CASE pc = "shutdown" /\ dev' = timer_stop(dev) /\ pc' = "off"
  <2>1. dev' \in Devs /\ ~dev'.timer /\ dev'.overflow = dev.overflow
        /\ dev'.radio = dev.radio /\ dev'.responses = dev.responses
        /\ dev'.active = dev.active /\ dev'.pending = dev.pending
    BY <1>1 DEF timer_stop, Devs
  <2> QED BY <1>0, <1>1, <2>1 DEF BlinkInv, Blinking, StopInv, Kept
<1>2. CASE pc = "off" /\ dev' = radio_txrxoff(dev) /\ pc' = "inactive"
  <2>1. dev' \in Devs /\ dev'.radio = "idle" /\ dev'.timer = dev.timer
        /\ dev'.overflow = dev.overflow
    BY <1>2 DEF radio_txrxoff, Devs
  <2> QED BY <1>0, <1>2, <2>1 DEF BlinkInv, Blinking, StopInv, Kept
<1>3. CASE pc = "inactive" /\ dev' = [dev EXCEPT !.active = FALSE] /\ pc' = after
  <2>1. dev' \in Devs /\ dev'.radio = dev.radio /\ dev'.responses = dev.responses
        /\ dev'.timer = dev.timer /\ dev'.overflow = dev.overflow
    BY <1>3 DEF Devs
  <2> QED BY <1>0, <1>3, <2>1 DEF BlinkInv, Blinking, StopInv, Kept
<1> QED BY <1>1, <1>2, <1>3 DEF Shutdown

(* Commands, and the radio's going to sleep. *)
LEMMA LoopStep ==
    ASSUME TagInv, cli_poll \/ proto_poll \/ Turn
    PROVE  TagInv' /\ Kept
<1> USE DEF TagInv, Shape
<1>1. CASE cli_poll
  <2>0. pc = "cli" /\ isr' = isr
    BY <1>1 DEF cli_poll, irq
  <2>1. CASE pc' \in {"proto", "tag"} /\ after' \in {after, "proto"}
             /\ UNCHANGED <<dev, radio_sleeping, callbacks, tag_active, start>>
    BY <2>0, <2>1, QuietStep DEF StopInv
  <2>2. CASE stop
    BY <2>0, <2>2 DEF stop, BlinkInv, StopInv, Kept
  <2>3. CASE proto_prepare_immediate /\ UNCHANGED after
    <3>1. pc' = "proto" /\ radio_sleeping
          /\ UNCHANGED <<dev, after, callbacks, tag_active, start>>
      BY <2>3 DEF proto_prepare_immediate, times
    <3> QED BY <2>0, <3>1 DEF BlinkInv, StopInv, Kept
  <2> QED BY <1>1, <2>1, <2>2, <2>3 DEF cli_poll, device, times
<1>2. CASE PollMovement
  <2>1. ~callbacks => start' = start
    BY <1>2 DEF PollMovement, StopInv
  <2> QED BY <1>2, <2>1, QuietStep DEF PollMovement, irq, device, StopInv
<1>3. CASE PollIdle
  <2>1. pc' = "doze" => ~Blinking(dev)
    BY <1>3 DEF PollIdle, BlinkInv
  <2>2. /\ pc = "idle?" /\ pc' \in {"doze", "turn"}
        /\ UNCHANGED <<dev, isr, after, radio_sleeping, callbacks, tag_active, start>>
    BY <1>3 DEF PollIdle, irq, device, times
  <2> QED BY <2>1, <2>2, QuietStep DEF StopInv
<1>4. CASE PollDoze
  <2>1. /\ pc = "doze" /\ pc' = "turn"
        /\ dev' = dev \/ dev' = [dev EXCEPT !.radio = "idle"]
        /\ UNCHANGED <<isr, after, callbacks, tag_active, start>>
    BY <1>4 DEF PollDoze, irq
  <2>2. ~Blinking(dev)
    BY <2>1 DEF BlinkInv
  <2>3. /\ dev' \in Devs /\ ~Blinking(dev')
        /\ dev'.timer = dev.timer /\ dev'.overflow = dev.overflow
        /\ dev.radio = "idle" => dev'.radio = "idle"
    BY <2>1, <2>2 DEF Devs, Blinking
  <2> QED BY <2>1, <2>2, <2>3 DEF BlinkInv, Blinking, StopInv, Kept
<1>5. CASE Turn
  <2>1. start = Never => start' = Never
    BY <1>5 DEF Turn, Later, times
  <2> QED BY <1>5, <2>1, QuietStep DEF Turn, irq, device, StopInv
<1> QED BY <1>1, <1>2, <1>3, <1>4, <1>5 DEF proto_poll

LEMMA TagStep == TagInv /\ [Next]_vars => TagInv' /\ Kept
<1>1. ASSUME TagInv, Next PROVE TagInv' /\ Kept
  BY <1>1, InterruptStep, EventStep, StartStep, ShutdownStep, LoopStep DEF Next, Main
<1>2. ASSUME TagInv, UNCHANGED vars PROVE TagInv' /\ Kept
  BY <1>2 DEF vars, irq, device, times, TagInv, Shape, BlinkInv, Blinking, StopInv, Kept
<1> QED BY <1>1, <1>2

-----------------------------------------------------------------------------
(* After stop nothing is sent and nothing is about to be, whatever the      *)
(* handlers do between the two commands of stop's shutdown                  *)
(* (proto.c:861-870): with the callbacks gone no interrupt undoes them.     *)
THEOREM TagStopStops == Spec => []StopStops
<1>1. TagInv => StopStops
  BY DEF TagInv, StopInv, StopStops
<1> QED BY TagInit, TagStep, <1>1, PTL DEF Spec

(* proto_poll looks at radio_active and then puts the radio to sleep, with  *)
(* interrupts enabled between (proto.c:885-892): whatever they do there, no *)
(* blink that is being sent is cut short.                                   *)
THEOREM TagSleepKeepsBlinks == Spec => SleepKeepsBlinks
<1>1. TagInv /\ [Next]_vars
        => [~radio_sleeping /\ radio_sleeping' =>
              ~(dev.radio = "tx" /\ dev.responses = 0)]_vars
  BY TagStep DEF Kept
<1> QED BY TagInit, TagStep, <1>1, PTL DEF Spec, SleepKeepsBlinks

-----------------------------------------------------------------------------
(* That an active radio is watched.                                        *)

Heard == {"rxdone", "rxerror"}

(* Nothing is left to answer, and nothing that comes changes that. *)
Settled(d) == d.responses > 0 /\ d.responses >= min_responses

(* The radio does, and these bits report, nothing that begins a listening   *)
(* with answers to come.                                                    *)
Over(d, bits) == /\ (d.radio = "rx" \/ bits \cap Heard # {}) => Settled(d)
                 /\ (d.radio = "tx" \/ "txdone" \in bits) => d.responses > 0

(* The bits a pass of the radio's handler has still to look at. *)
Left(where) == CASE where = "off" -> {}
                 [] where = "rxdone" -> Bits
                 [] where = "rxerror" -> {"rxerror", "txdone"}
                 [] where = "txdone" -> {"txdone"}

(* A transmission and a reception reported together are those of an answer: *)
(* a blink's end is seen alone.                                             *)
PassInv ==
    /\ isr \in {"off", "rxdone", "rxerror", "txdone"} /\ snapshot \subseteq Left(isr)
    /\ "txdone" \in snapshot /\ (dev.radio = "rx" \/ (dev.status \cup snapshot) \cap Heard # {})
         => dev.responses > 0
    /\ dev.pending /\ "txdone" \in dev.status /\ (dev.radio = "rx" \/ dev.status \cap Heard # {})
         => dev.responses > 0
    /\ isr # "off" /\ "txdone" \in dev.status \ snapshot => dev.responses > 0

(* When the radio is not active, all is over, but for a receive error that  *)
(* this pass of the handler has still to look at.                           *)
InactiveInv == ~dev.active => Over(dev, dev.status \cup (snapshot \cap {"txdone"}))

(* An event ends it. *)
Supervised == \/ supervisor # Never
              \/ just_woken /\ (start # Never \/ pc = "start")
              \/ pc \in {"shutdown", "off"}

(* The supervisor is taken away where the radio has been seen inactive; if  *)
(* the handlers make it active again after that, it listens with nothing to *)
(* answer, and its timer ends it.                                           *)
LooseInv ==
    /\ pc \in {"doze", "inactive"} \/ ~Supervised => Over(dev, dev.status \cup snapshot)
    /\ dev.active /\ (pc = "doze" \/ (~Supervised /\ pc # "inactive"))
         => Settled(dev) /\ (dev.timer \/ dev.overflow)

(* A radio that was just woken was woken with a good reading. *)
BatteryInv == /\ validity \in Int /\ (pc = "boot" => ~just_woken)
              /\ just_woken /\ ~radio_sleeping => ~low /\ validity > 0

(* From its start on a tag always has its next event armed. *)
EventInv ==
    /\ start \in Int /\ supervisor \in Int /\ since \in Nat
    /\ start <= Never /\ supervisor <= Never
    /\ pc \in {"boot", "tag"} => ~callbacks
    /\ callbacks => pc = "start" \/ start < Never
    /\ ~callbacks => /\ early = Never /\ supervisor = Never /\ ~dev.active
                     /\ pc \notin {"shutdown", "off", "inactive"}

WatchInv == PassInv /\ InactiveInv /\ LooseInv /\ BatteryInv /\ EventInv

(* What every callback keeps. *)
Follows(d, e) == /\ e \in Devs /\ e.responses >= d.responses
                 /\ e.status \subseteq d.status /\ e.pending = d.pending
                 /\ e.overflow = d.overflow
                 /\ e.radio = "tx" => d.radio = "tx" \/ e.responses > 0

LEMMA FollowsTwice ==
    ASSUME NEW c \in Devs, NEW d, NEW e, Follows(c, d), Follows(d, e)
    PROVE  Follows(c, e)
BY DEF Follows, Devs

LEMMA FinishDoes ==
    ASSUME NEW d \in Devs, NEW e \in tail_finish_ranging(d)
    PROVE  /\ Follows(d, e) /\ e.timer = d.timer
           /\ PacketPending(d) => e.active = d.active /\ e.radio \in {d.radio, "tx", "idle"}
           /\ ~PacketPending(d) => e = [d EXCEPT !.active = FALSE]
<1>1. CASE PacketPending(d)
  <2>1. PICK x \in radio_txstart(d, TRUE) : e = [x EXCEPT !.responses = @ + 1]
    BY <1>1 DEF tail_finish_ranging
  <2>2. x = d \/ x = [d EXCEPT !.radio = "tx"] \/ x = [d EXCEPT !.radio = "idle", !.status = {}]
    BY <2>1 DEF radio_txstart, Late, radio_txrxoff
  <2>3. /\ x \in Devs /\ x.responses = d.responses /\ x.status \subseteq d.status
        /\ x.pending = d.pending /\ x.overflow = d.overflow /\ x.timer = d.timer
        /\ x.active = d.active /\ x.radio \in {d.radio, "tx", "idle"}
    BY ONLY d \in Devs, <2>2 DEF Devs
  <2>4. /\ e \in Devs /\ e.responses = x.responses + 1 /\ e.status = x.status
        /\ e.pending = x.pending /\ e.overflow = x.overflow /\ e.timer = x.timer
        /\ e.active = x.active /\ e.radio = x.radio
    BY <2>1, <2>3 DEF Devs
  <2>5. d.responses \in Nat
    BY DEF Devs
  <2>6. Follows(d, e)
    BY <2>3, <2>4, <2>5 DEF Follows
  <2> QED BY <1>1, <2>3, <2>4, <2>6
<1>2. CASE ~PacketPending(d)
  <2>1. e = [d EXCEPT !.active = FALSE]
    BY <1>2 DEF tail_finish_ranging
  <2>2. /\ e \in Devs /\ e.responses = d.responses /\ e.status = d.status
        /\ e.pending = d.pending /\ e.overflow = d.overflow /\ e.timer = d.timer
        /\ e.radio = d.radio /\ d.responses \in Nat
    BY <2>1 DEF Devs
  <2>3. Follows(d, e)
    BY <2>2 DEF Follows
  <2> QED BY <1>2, <2>1, <2>2, <2>3
<1> QED BY <1>1, <1>2

LEMMA SettledDone ==
    ASSUME NEW d \in Devs, Settled(d)
    PROVE  ~PacketPending(d)
BY TagAssumption DEF Settled, PacketPending, Devs

LEMMA OffDoes ==
    ASSUME NEW d \in Devs
    PROVE  /\ radio_txrxoff(d) \in Devs /\ Follows(d, radio_txrxoff(d))
           /\ radio_txrxoff(d).radio = "idle" /\ radio_txrxoff(d).status = {}
           /\ radio_txrxoff(d).responses = d.responses /\ radio_txrxoff(d).active = d.active
           /\ radio_txrxoff(d).timer = d.timer
           /\ timer_stop(d) \in Devs /\ Follows(d, timer_stop(d))
           /\ timer_stop(d).radio = d.radio /\ timer_stop(d).status = d.status
           /\ timer_stop(d).responses = d.responses /\ timer_stop(d).active = d.active
<1> DEFINE off == [d EXCEPT !.radio = "idle", !.status = {}]
           stopped == [d EXCEPT !.timer = FALSE]
<1>1. /\ off \in Devs /\ off.radio = "idle" /\ off.status = {}
      /\ off.responses = d.responses /\ off.active = d.active /\ off.timer = d.timer
      /\ off.pending = d.pending /\ off.overflow = d.overflow /\ d.responses \in Nat
  BY DEF Devs
<1>2. /\ stopped \in Devs /\ stopped.radio = d.radio /\ stopped.status = d.status
      /\ stopped.responses = d.responses /\ stopped.active = d.active
      /\ stopped.pending = d.pending /\ stopped.overflow = d.overflow
  BY DEF Devs
<1>3. radio_txrxoff(d) = off /\ timer_stop(d) = stopped
  BY DEF radio_txrxoff, timer_stop
<1> HIDE DEF off, stopped
<1>4. Follows(d, off) /\ Follows(d, stopped)
  BY <1>1, <1>2 DEF Follows
<1> QED BY <1>1, <1>2, <1>3, <1>4

LEMMA StartRxDoes ==
    ASSUME NEW d \in Devs, NEW delayed \in BOOLEAN, NEW e \in start_rx(d, delayed)
    PROVE  Follows(d, e) /\ e.active /\ e.timer
<1> DEFINE x == [d EXCEPT !.active = TRUE, !.timer = TRUE]
<1>1. /\ x \in Devs /\ x.radio = d.radio /\ x.responses = d.responses /\ x.active /\ x.timer
      /\ x.status = d.status /\ x.pending = d.pending /\ x.overflow = d.overflow
  BY DEF Devs
<1>2. e \in radio_rxstart(x, delayed)
  BY DEF start_rx
<1> HIDE DEF x
<1>3. e = x \/ e = [x EXCEPT !.radio = "rx"] \/ e = radio_txrxoff(x)
  BY <1>2 DEF radio_rxstart, Late
<1>4. CASE e = x \/ e = radio_txrxoff(x)
  BY <1>1, <1>4, OffDoes DEF Follows
<1>5. CASE e = [x EXCEPT !.radio = "rx"]
  <2>1. /\ e \in Devs /\ e.responses = x.responses /\ e.status = x.status
        /\ e.pending = x.pending /\ e.overflow = x.overflow
    BY <1>1, <1>5 DEF Devs
  <2>2. e.active = x.active /\ e.timer = x.timer /\ e.radio = "rx" /\ x.responses \in Nat
    BY <1>1, <1>5 DEF Devs
  <2> QED BY <1>1, <2>1, <2>2 DEF Follows
<1> QED BY <1>3, <1>4, <1>5

(* A ranging request, or whatever the receiver has: no listening begins. *)
LEMMA RxDoneDoes ==
    ASSUME NEW d \in Devs, NEW e \in proto_rxdone(d)
    PROVE  /\ Follows(d, e) /\ (e.radio = "rx" => d.radio = "rx")
           /\ ~e.active => ~d.active \/ (e.radio # "rx" /\ e.status = {})
           /\ Settled(d) /\ e.active => d.active /\ e.timer = d.timer
<1>1. CASE e = [radio_txrxoff(d) EXCEPT !.active = FALSE]
  <2> DEFINE off == radio_txrxoff(d)
  <2>1. off \in Devs /\ Follows(d, off) /\ off.radio = "idle" /\ off.status = {}
    BY OffDoes
  <2> HIDE DEF off
  <2>2. /\ e \in Devs /\ e.responses = off.responses /\ e.status = {} /\ e.radio = "idle"
        /\ e.pending = off.pending /\ e.overflow = off.overflow /\ ~e.active
    BY <1>1, <2>1 DEF off, Devs
  <2> QED BY <2>1, <2>2 DEF Follows
<1>2. CASE e \in {d} \cup tail_timing(d)
  <2> DEFINE heard == IF d.anchors < max_anchors THEN [d EXCEPT !.anchors = @ + 1] ELSE d
             quiet == timer_stop(radio_txrxoff(heard))
  <2>1. /\ heard \in Devs /\ heard.radio = d.radio /\ heard.responses = d.responses
        /\ heard.status = d.status /\ heard.pending = d.pending /\ heard.active = d.active
        /\ heard.timer = d.timer /\ heard.overflow = d.overflow /\ d.responses \in Nat
    BY DEF Devs
  <2>2. e = d \/ e = heard \/ e \in tail_finish_ranging(quiet)
    BY <1>2 DEF tail_timing
  <2> HIDE DEF heard
  <2>3. Follows(d, heard)
    BY <2>1 DEF Follows
  <2>4. CASE e = d \/ e = heard
    BY <2>1, <2>3, <2>4 DEF Follows
  <2>5. CASE e \in tail_finish_ranging(quiet)
    <3>1. /\ quiet \in Devs /\ Follows(heard, quiet) /\ quiet.radio = "idle"
          /\ quiet.status = {} /\ quiet.responses = d.responses
      BY <2>1, OffDoes, FollowsTwice
    <3> HIDE DEF quiet
    <3>2. /\ Follows(d, e) /\ e.radio # "rx"
          /\ Settled(d) => ~e.active
      <4>1. Follows(quiet, e) /\ Follows(d, quiet)
        BY <2>1, <2>3, <2>5, <3>1, FinishDoes, FollowsTwice
      <4>2. Follows(d, e)
        BY <4>1, FollowsTwice
      <4>3. CASE PacketPending(quiet)
        <5>1. ~Settled(quiet)
          BY <3>1, <4>3, SettledDone
        <5> QED BY <2>5, <3>1, <4>2, <4>3, <5>1, FinishDoes DEF Settled
      <4>4. CASE ~PacketPending(quiet)
        <5>1. e = [quiet EXCEPT !.active = FALSE]
          BY <2>5, <3>1, <4>4, FinishDoes
        <5> QED BY <3>1, <4>2, <5>1 DEF Devs
      <4> QED BY <4>3, <4>4
    <3>3. e.status = {}
      BY <2>5, <3>1, FinishDoes DEF Follows
    <3> QED BY <3>2, <3>3
  <2> QED BY <2>2, <2>4, <2>5
<1> QED BY <1>1, <1>2 DEF proto_rxdone

(* The end of a transmission: of a blink, listen; of an answer, see whether *)
(* there is another.                                                        *)
LEMMA TxDoneDoes ==
    ASSUME NEW d \in Devs, NEW e \in proto_txdone(d)
    PROVE  /\ Follows(d, e)
           /\ e.radio = "rx" => d.radio = "rx" \/ (d.responses = 0 /\ e.active)
           /\ ~e.active /\ d.active => /\ ~PacketPending(d)
                                       /\ e.radio = d.radio /\ e.status = d.status
           /\ d.responses > 0 /\ e.active => d.active /\ ~Settled(d)
<1>1. CASE receive_after_transmit /\ d.responses = 0
  <2>1. e \in start_rx(d, TRUE)
    BY <1>1 DEF proto_txdone
  <2>2. Follows(d, e) /\ e.active
    BY ONLY d \in Devs, <2>1, StartRxDoes
  <2> QED BY <1>1, <2>2
<1>2. CASE ~(receive_after_transmit /\ d.responses = 0)
  <2>1. e \in tail_finish_ranging(d)
    BY <1>2 DEF proto_txdone
  <2>2. CASE PacketPending(d)
    BY <2>1, <2>2, FinishDoes, SettledDone
  <2>3. CASE ~PacketPending(d)
    <3>1. e = [d EXCEPT !.active = FALSE] /\ Follows(d, e)
      BY <2>1, <2>3, FinishDoes
    <3> QED BY <2>3, <3>1 DEF Devs
  <2> QED BY <2>2, <2>3
<1> QED BY <1>1, <1>2

(* The timer turns the receiver off. *)
LEMMA RxTimerDoes ==
    ASSUME NEW d \in Devs, NEW e \in proto_rxtimer(d)
    PROVE  /\ e \in Devs /\ e.responses >= d.responses
           /\ e.status = {} /\ e.radio # "rx" /\ e.pending = d.pending
           /\ e.radio = "tx" => e.responses > 0
           /\ e.active => d.active /\ ~Settled(d)
<1> DEFINE off == radio_txrxoff(d)
<1>1. /\ off \in Devs /\ Follows(d, off) /\ off.radio = "idle" /\ off.status = {}
      /\ off.responses = d.responses /\ off.active = d.active
  BY OffDoes
<1>2. e \in tail_finish_ranging(off)
  BY DEF proto_rxtimer
<1> HIDE DEF off
<1>3. Follows(d, e) /\ Follows(off, e)
  BY <1>1, <1>2, FinishDoes, FollowsTwice
<1>4. CASE PacketPending(off)
  <2>1. ~Settled(off)
    BY <1>1, <1>4, SettledDone
  <2>2. e.active = off.active /\ e.radio \in {"idle", "tx"}
    BY <1>1, <1>2, <1>4, FinishDoes
  <2> QED BY <1>1, <1>3, <2>1, <2>2 DEF Follows, Settled
<1>5. CASE ~PacketPending(off)
  <2>1. e = [off EXCEPT !.active = FALSE]
    BY <1>1, <1>2, <1>5, FinishDoes
  <2>2. ~e.active /\ e.radio = "idle"
    BY <1>1, <2>1 DEF Devs
  <2> QED BY <1>1, <1>3, <2>2 DEF Follows
<1> QED BY <1>4, <1>5

(* How the handler leaves what it found, having seen to one bit. *)
Outcome(bit, d, e) ==
    /\ Follows(d, e)
    /\ e.radio = "rx" /\ d.radio # "rx" =>
         e.active /\ (bit = "txdone" => d.responses = 0) /\ bit # "rxdone"
    /\ ~e.active /\ d.active =>
         \/ bit = "rxdone" /\ e.radio # "rx" /\ e.status = {}
         \/ bit = "txdone" /\ ~PacketPending(d) /\ e.radio = d.radio /\ e.status = d.status
    /\ bit \in Heard /\ Settled(d) /\ e.active => e.timer \/ (d.active /\ e.timer = d.timer)
    /\ bit = "txdone" /\ d.responses > 0 /\ e.active => d.active /\ ~Settled(d)

LEMMA Outcomes ==
    ASSUME NEW d \in Devs
    PROVE  /\ \A e \in proto_rxdone(d) : Outcome("rxdone", d, e)
           /\ \A e \in proto_rxerror(d) : Outcome("rxerror", d, e)
           /\ \A e \in proto_txdone(d) : Outcome("txdone", d, e)
           /\ \A bit \in Bits : ~d.active => Outcome(bit, d, d)
<1>1. ASSUME NEW e \in proto_rxdone(d) PROVE Outcome("rxdone", d, e)
  BY RxDoneDoes DEF Outcome, Heard
<1>2. ASSUME NEW e \in proto_rxerror(d) PROVE Outcome("rxerror", d, e)
  <2>1. Follows(d, e) /\ e.active /\ e.timer
    BY StartRxDoes DEF proto_rxerror
  <2> QED BY <2>1 DEF Outcome, Heard
<1>3. ASSUME NEW e \in proto_txdone(d) PROVE Outcome("txdone", d, e)
  BY TxDoneDoes DEF Outcome, Heard
<1>4. ASSUME NEW bit \in Bits, ~d.active PROVE Outcome(bit, d, d)
  BY <1>4 DEF Outcome, Follows, Devs
<1> QED BY <1>1, <1>2, <1>3, <1>4

LEMMA HandleWatched ==
    ASSUME TagInv, WatchInv, NEW bit \in Bits, NEW next \in {"off", "rxerror", "txdone"},
           isr = bit, isr' = next, Left(bit) \ {bit} \subseteq Left(next),
           bit \in snapshot, snapshot' = snapshot \ {bit},
           Outcome(bit, Cleared(bit), dev'),
           ~callbacks => dev' = Cleared(bit),
           UNCHANGED <<pc, after, device, battery, times>>
    PROVE  WatchInv'
<1> DEFINE d == Cleared(bit)
           e == dev'
<1>1. /\ d \in Devs /\ d.radio = dev.radio /\ d.responses = dev.responses
      /\ d.status = dev.status \ {bit} /\ d.pending = dev.pending /\ d.active = dev.active
      /\ d.timer = dev.timer /\ d.overflow = dev.overflow
      /\ d.responses \in Nat /\ dev.status \subseteq Bits
  BY DEF TagInv, Shape, Cleared, Devs
<1>2. Outcome(bit, d, e)
  OBVIOUS
<1> HIDE DEF d
<1>3. /\ e \in Devs /\ e.responses >= dev.responses /\ e.status \subseteq dev.status \ {bit}
      /\ e.pending = dev.pending /\ e.overflow = dev.overflow
      /\ e.radio = "tx" => e.responses > 0
      /\ e.responses \in Nat
  <2>1. dev.radio = "tx" => dev.responses > 0
    <3>1. isr # "off"
      BY DEF Bits
    <3> QED BY <1>1, <3>1 DEF TagInv, BlinkInv, Blinking
  <2>2. /\ e \in Devs /\ e.responses >= dev.responses /\ e.status \subseteq dev.status \ {bit}
        /\ e.pending = dev.pending /\ e.overflow = dev.overflow
        /\ e.radio = "tx" => dev.radio = "tx" \/ e.responses > 0
    BY <1>1, <1>2 DEF Outcome, Follows
  <2>3. e.responses \in Nat
    BY <2>2 DEF Devs
  <2> QED BY <1>1, <2>1, <2>2, <2>3
<1>4. Settled(dev) => Settled(e) /\ Settled(d)
  BY <1>1, <1>3, TagAssumption DEF Settled
<1> HIDE DEF e
<1>5. PassInv'
  <2>1. isr' \in {"off", "rxdone", "rxerror", "txdone"} /\ snapshot' \subseteq Left(isr')
    BY DEF WatchInv, PassInv
  <2>2. "txdone" \in snapshot' => bit \in Heard /\ "txdone" \in snapshot /\ dev.responses > 0
    BY DEF WatchInv, PassInv, Heard, Bits
  <2>3. ASSUME dev.pending, "txdone" \in e.status, e.radio = "rx" \/ e.status \cap Heard # {}
        PROVE  dev.responses > 0
    <3>1. "txdone" \in dev.status /\ bit # "txdone" /\ e.status \cap Heard \subseteq dev.status
      BY <1>3, <2>3
    <3>2. CASE dev.radio = "rx" \/ e.status \cap Heard # {}
      BY <2>3, <3>1, <3>2 DEF WatchInv, PassInv
    <3>3. CASE dev.radio # "rx" /\ e.radio = "rx"
      <4>1. bit = "rxerror"
        BY <1>1, <1>2, <3>1, <3>3 DEF Outcome, Bits
      <4>2. CASE "txdone" \in snapshot
        BY <4>1, <4>2 DEF WatchInv, PassInv, Heard
      <4>3. CASE "txdone" \notin snapshot
        BY <3>1, <4>1, <4>3 DEF WatchInv, PassInv
      <4> QED BY <4>2, <4>3
    <3> QED BY <2>3, <3>2, <3>3
  <2>4. ASSUME isr' # "off", "txdone" \in e.status \ snapshot'
        PROVE  dev.responses > 0
    <3>1. isr # "off" /\ "txdone" \in dev.status \ snapshot
      BY <1>3, <2>4 DEF Bits
    <3> QED BY <3>1 DEF WatchInv, PassInv
  <2>5. /\ "txdone" \in snapshot' => e.responses > 0
        /\ e.pending /\ "txdone" \in e.status /\ (e.radio = "rx" \/ e.status \cap Heard # {})
             => e.responses > 0
        /\ isr' # "off" /\ "txdone" \in e.status \ snapshot' => e.responses > 0
    BY <1>1, <1>3, <2>2, <2>3, <2>4
  <2> QED BY <2>1, <2>5 DEF PassInv, e
<1>6. InactiveInv'
  <2> SUFFICES ASSUME ~e.active
               PROVE  Over(e, e.status \cup (snapshot' \cap {"txdone"}))
    BY DEF InactiveInv, e
  <2>1. CASE ~dev.active
    <3>1. Over(dev, dev.status \cup (snapshot \cap {"txdone"}))
      BY <2>1 DEF WatchInv, InactiveInv
    <3>2. e.radio = "rx" => dev.radio = "rx"
      BY <1>1, <1>2 DEF Outcome
    <3> QED BY <1>1, <1>3, <1>4, <3>1, <3>2 DEF Over
  <2>2. CASE dev.active /\ bit = "rxdone" /\ e.radio # "rx" /\ e.status = {}
    <3>1. "txdone" \in snapshot' => dev.responses > 0
      BY <2>2 DEF WatchInv, PassInv, Heard
    <3> QED BY <1>1, <1>3, <2>2, <3>1 DEF Over, Heard
  <2>3. CASE /\ dev.active /\ bit = "txdone" /\ ~PacketPending(d)
             /\ e.radio = d.radio /\ e.status = d.status
    <3>1. e.responses >= min_responses
      BY <1>1, <1>3, <2>3, TagAssumption DEF PacketPending
    <3>2. e.radio = "rx" \/ e.status \cap Heard # {} => Settled(e)
      <4>1. e.radio = "rx" \/ e.status \cap Heard # {} => dev.responses > 0
        BY <1>1, <2>3 DEF WatchInv, PassInv
      <4> QED BY <1>1, <1>3, <3>1, <4>1 DEF Settled
    <3>3. "txdone" \notin e.status \cup (snapshot' \cap {"txdone"})
      BY <1>1, <2>3
    <3>4. (e.status \cup (snapshot' \cap {"txdone"})) \cap Heard = e.status \cap Heard
      BY <2>3
    <3> QED BY <1>3, <3>2, <3>3, <3>4 DEF Over
  <2> QED BY <1>1, <1>2, <2>1, <2>2, <2>3 DEF Outcome
<1>7. LooseInv'
  <2>1. /\ (Supervised' <=> Supervised) /\ pc' = pc
    BY DEF Supervised, device, times
  <2>2. ASSUME Over(dev, dev.status \cup snapshot)
        PROVE  Over(e, e.status \cup snapshot')
    <3>1. /\ bit \in Heard => Settled(dev)
          /\ bit = "txdone" => dev.responses > 0
      BY <2>2 DEF Over
    <3>2. e.radio = "rx" /\ dev.radio # "rx" => Settled(dev)
      BY <1>1, <1>2, <3>1 DEF Outcome, Heard, Bits
    <3> QED BY <1>1, <1>3, <1>4, <2>2, <3>2 DEF Over
  <2>3. ASSUME Over(dev, dev.status \cup snapshot),
               dev.active => Settled(dev) /\ (dev.timer \/ dev.overflow), e.active
        PROVE  Settled(e) /\ (e.timer \/ e.overflow)
    <3>1. CASE bit \in Heard
      <4>1. Settled(dev) /\ Settled(e) /\ Settled(d)
        BY <1>4, <2>3, <3>1 DEF Over
      <4>2. e.timer \/ (dev.active /\ e.timer = dev.timer)
        BY <1>1, <1>2, <2>3, <3>1, <4>1 DEF Outcome
      <4> QED BY <1>3, <2>3, <4>1, <4>2
    <3>2. CASE bit = "txdone"
      <4>1. dev.responses > 0
        BY <2>3, <3>2 DEF Over
      <4>2. dev.active /\ ~Settled(d)
        BY <1>1, <1>2, <2>3, <3>2, <4>1 DEF Outcome
      <4> QED BY <1>4, <2>3, <4>2
    <3> QED BY <3>1, <3>2 DEF Bits, Heard
  <2>4. pc # "doze" /\ Supervised => LooseInv' \/ pc = "inactive"
    BY <2>1 DEF LooseInv
  <2>5. CASE pc = "inactive"
    BY <2>1, <2>2, <2>5 DEF WatchInv, LooseInv, e
  <2>6. CASE pc # "inactive" /\ (pc = "doze" \/ ~Supervised)
    BY <2>1, <2>2, <2>3, <2>6 DEF WatchInv, LooseInv, e
  <2> QED BY <2>4, <2>5, <2>6
<1>8. BatteryInv'
  BY DEF WatchInv, BatteryInv, device, battery
<1>9. EventInv'
  <2>1. ~callbacks => ~e.active
    BY <1>1 DEF WatchInv, EventInv, e, d
  <2> QED BY <2>1 DEF WatchInv, EventInv, device, times, e
<1> QED BY <1>5, <1>6, <1>7, <1>8, <1>9 DEF WatchInv

LEMMA WatchInit == Init => WatchInv
<1> SUFFICES ASSUME Init PROVE WatchInv
  OBVIOUS
<1>1. /\ ~dev.active /\ dev.radio = "idle" /\ dev.status = {} /\ ~dev.pending
      /\ snapshot = {} /\ isr = "off" /\ pc = "boot"
  BY DEF Init
<1>2. Over(dev, {})
  BY <1>1 DEF Over, Heard
<1>3. PassInv /\ InactiveInv /\ LooseInv
  BY <1>1, <1>2 DEF PassInv, Left, InactiveInv, LooseInv
<1>4. BatteryInv /\ EventInv
  BY DEF Init, BatteryInv, EventInv, Never
<1> QED BY <1>3, <1>4 DEF WatchInv

(* The interrupts and the hardware. *)
LEMMA InterruptWatched ==
    ASSUME TagInv, WatchInv, GPIO_ODD_IRQHandler \/ TIMER0_IRQHandler \/ Radio \/ Timer
    PROVE  WatchInv'
<1>0. /\ UNCHANGED <<pc, after, radio_sleeping, just_woken, callbacks, tag_active>>
      /\ UNCHANGED <<low, validity, start, supervisor, early, since>>
      /\ UNCHANGED <<device, battery, times>>
  BY DEF GPIO_ODD_IRQHandler, RadioIrq, Handle, TIMER0_IRQHandler, Radio, Timer, device,
         times, battery
<1>1. /\ (Supervised' <=> Supervised) /\ BatteryInv'
  BY <1>0 DEF Supervised, WatchInv, BatteryInv
<1>2. (~callbacks => ~dev'.active) => EventInv'
  BY <1>0 DEF WatchInv, EventInv
<1>3. dev \in Devs /\ dev.responses \in Nat
  BY DEF TagInv, Shape, Devs
<1>4. CASE RadioIrq
  <2>1. /\ isr = "off" /\ isr' = "rxdone" /\ snapshot' = dev.status /\ dev.pending
        /\ dev' = [dev EXCEPT !.pending = FALSE]
    BY <1>4 DEF RadioIrq
  <2>2. /\ dev'.radio = dev.radio /\ dev'.responses = dev.responses
        /\ dev'.status = dev.status /\ dev'.pending = FALSE /\ dev'.active = dev.active
        /\ dev'.timer = dev.timer /\ dev'.overflow = dev.overflow /\ dev.status \subseteq Bits
    BY <1>3, <2>1 DEF Devs
  <2>3. snapshot = {} /\ Left("rxdone") = Bits
    BY <2>1 DEF WatchInv, PassInv, Left
  <2>4. PassInv'
    BY <2>1, <2>2, <2>3 DEF WatchInv, PassInv
  <2>5. InactiveInv'
    BY <2>1, <2>2, <2>3 DEF WatchInv, InactiveInv, Over, Settled
  <2>6. LooseInv'
    BY <1>0, <1>1, <2>1, <2>2, <2>3 DEF WatchInv, LooseInv, Over, Settled
  <2>7. ~callbacks => ~dev'.active
    BY <2>2 DEF WatchInv, EventInv
  <2> QED BY <1>1, <1>2, <2>4, <2>5, <2>6, <2>7 DEF WatchInv
<1>5. ASSUME NEW bit \in Bits, NEW called, NEW next \in {"off", "rxerror", "txdone"},
             Handle(bit, called, next), Left(bit) \ {bit} \subseteq Left(next),
             \A e \in called : Outcome(bit, Cleared(bit), e)
      PROVE  WatchInv'
  <2>1. isr = bit /\ isr' = next /\ snapshot' = snapshot \ {bit} /\ bit # "off"
    BY <1>5 DEF Handle, Bits
  <2>2. CASE bit \notin snapshot
    <3>1. dev' = dev /\ snapshot' = snapshot
      BY <1>5, <2>1, <2>2 DEF Handle
    <3>2. PassInv'
      <4>1. isr' \in {"off", "rxdone", "rxerror", "txdone"} /\ snapshot' \subseteq Left(isr')
        BY <1>5, <2>1 DEF WatchInv, PassInv
      <4>2. isr # "off"
        BY <2>1
      <4> QED BY <3>1, <4>1, <4>2 DEF WatchInv, PassInv
    <3>3. InactiveInv' /\ LooseInv'
      BY <1>0, <1>1, <3>1 DEF WatchInv, InactiveInv, LooseInv
    <3>4. ~callbacks => ~dev'.active
      BY <3>1 DEF WatchInv, EventInv
    <3> QED BY <1>1, <1>2, <3>2, <3>3, <3>4 DEF WatchInv
  <2>3. CASE bit \in snapshot
    <3>1. /\ callbacks => dev' \in called
          /\ ~callbacks => dev' = Cleared(bit)
      BY <1>5, <2>3 DEF Handle
    <3>2. Outcome(bit, Cleared(bit), dev')
      <4>1. Cleared(bit) \in Devs /\ Cleared(bit).active = dev.active
        BY <1>3 DEF Cleared, Devs
      <4>2. CASE callbacks
        BY <1>5, <3>1, <4>2
      <4>3. CASE ~callbacks
        BY <3>1, <4>1, <4>3, Outcomes DEF WatchInv, EventInv
      <4> QED BY <4>2, <4>3
    <3> QED BY <1>0, <1>5, <2>1, <2>3, <3>1, <3>2, HandleWatched
  <2> QED BY <2>2, <2>3
<1>6. CASE \/ Handle("rxdone", proto_rxdone(Cleared("rxdone")), "rxerror")
           \/ Handle("rxerror", proto_rxerror(Cleared("rxerror")), "txdone")
           \/ Handle("txdone", proto_txdone(Cleared("txdone")), "off")
  <2>1. \A bit \in Bits : Cleared(bit) \in Devs
    BY <1>3 DEF Cleared, Devs
  <2>2. /\ Left("rxdone") \ {"rxdone"} \subseteq Left("rxerror")
        /\ Left("rxerror") \ {"rxerror"} \subseteq Left("txdone")
        /\ Left("txdone") \ {"txdone"} \subseteq Left("off")
        /\ {"rxdone", "rxerror", "txdone"} \subseteq Bits
    BY DEF Left, Bits
  <2>3. CASE Handle("rxdone", proto_rxdone(Cleared("rxdone")), "rxerror")
    BY <1>5, <2>1, <2>2, <2>3, Outcomes
  <2>4. CASE Handle("rxerror", proto_rxerror(Cleared("rxerror")), "txdone")
    BY <1>5, <2>1, <2>2, <2>4, Outcomes
  <2>5. CASE Handle("txdone", proto_txdone(Cleared("txdone")), "off")
    BY <1>5, <2>1, <2>2, <2>5, Outcomes
  <2> QED BY <1>6, <2>3, <2>4, <2>5
<1>7. CASE TIMER0_IRQHandler
  <2> DEFINE d == [dev EXCEPT !.overflow = FALSE]
  <2>1. /\ d \in Devs /\ d.active = dev.active /\ d.responses = dev.responses
    BY <1>3 DEF Devs
  <2>2. /\ isr = "off" /\ dev.overflow /\ dev' \in proto_rxtimer(d)
        /\ isr' = isr /\ snapshot' = snapshot
    BY <1>7 DEF TIMER0_IRQHandler, irq
  <2> HIDE DEF d
  <2>3. /\ dev'.status = {} /\ dev'.radio # "rx" /\ (dev'.radio = "tx" => dev'.responses > 0)
        /\ dev'.active => dev.active /\ ~Settled(dev)
    BY <2>1, <2>2, RxTimerDoes DEF Settled
  <2>4. snapshot = {} /\ Over(dev', {})
    BY <2>2, <2>3 DEF WatchInv, PassInv, Left, Over, Heard
  <2>5. PassInv'
    BY <2>2, <2>3, <2>4 DEF WatchInv, PassInv
  <2>6. InactiveInv'
    <3>1. (dev.status \cup (snapshot \cap {"txdone"}))' = {}
      BY <2>2, <2>3, <2>4
    <3> QED BY <2>4, <3>1 DEF InactiveInv
  <2>7. LooseInv'
    <3>1. (dev.status \cup snapshot)' = {}
      BY <2>2, <2>3, <2>4
    <3> QED BY <1>0, <1>1, <2>3, <2>4, <3>1 DEF WatchInv, LooseInv
  <2>8. ~callbacks => ~dev'.active
    BY <2>3 DEF WatchInv, EventInv
  <2> QED BY <1>1, <1>2, <2>5, <2>6, <2>7, <2>8 DEF WatchInv
<1>8. CASE Radio
  <2>1. PICK bit \in Bits, r \in {"idle", "rx"} :
           /\ \/ dev.radio = "tx" /\ bit = "txdone" /\ r = "idle"
              \/ dev.radio = "rx" /\ bit \in Heard /\ r = "rx"
           /\ dev'.radio = r /\ dev'.status = dev.status \cup {bit}
           /\ dev'.pending = (dev.pending \/ dev.status = {})
           /\ dev'.active = dev.active /\ dev'.responses = dev.responses
           /\ dev'.timer = dev.timer /\ dev'.overflow = dev.overflow
    <3> DEFINE edge == dev.pending \/ dev.status = {}
    <3>1. edge \in BOOLEAN
      BY <1>3 DEF Devs
    <3> HIDE DEF edge
    <3>2. CASE dev.radio = "tx" /\ dev' = Raise([dev EXCEPT !.radio = "idle"], "txdone")
      <4>1. dev' = [dev EXCEPT !.radio = "idle", !.status = dev.status \cup {"txdone"},
                               !.pending = edge]
        BY <1>3, <3>2 DEF Raise, edge, Devs
      <4>2. /\ dev'.radio = "idle" /\ dev'.status = dev.status \cup {"txdone"}
            /\ dev'.pending = edge /\ dev'.active = dev.active
            /\ dev'.responses = dev.responses /\ dev'.timer = dev.timer
            /\ dev'.overflow = dev.overflow
        BY <1>3, <3>1, <4>1 DEF Devs
      <4> QED BY <3>2, <4>2 DEF Bits, Heard, edge
    <3>3. ASSUME NEW bit \in Heard, dev.radio = "rx", dev' = Raise(dev, bit)
          PROVE  /\ bit \in Bits /\ dev'.radio = "rx" /\ dev'.status = dev.status \cup {bit}
                 /\ dev'.pending = edge /\ dev'.active = dev.active
                 /\ dev'.responses = dev.responses /\ dev'.timer = dev.timer
                 /\ dev'.overflow = dev.overflow
      <4>1. dev' = [dev EXCEPT !.status = dev.status \cup {bit}, !.pending = edge]
        BY <1>3, <3>3 DEF Raise, edge, Devs
      <4> QED BY <1>3, <3>1, <3>3, <4>1 DEF Devs, Heard, Bits
    <3>4. {"rxdone", "rxerror"} = Heard
      BY DEF Heard
    <3> QED BY <1>8, <3>2, <3>3, <3>4 DEF Radio, edge
  <2>2. UNCHANGED <<isr, snapshot>>
    BY <1>8 DEF Radio, irq
  <2>3. dev.radio = "tx" /\ (isr # "off" \/ dev.pending) => dev.responses > 0
    BY <1>3 DEF TagInv, BlinkInv, Blinking
  <2>4. PassInv'
    <3>1. "txdone" \in snapshot /\ (dev'.radio = "rx" \/ (dev'.status \cup snapshot) \cap Heard # {})
            => dev.responses > 0
      BY <2>1 DEF WatchInv, PassInv, Heard
    <3>2. ASSUME dev'.pending, "txdone" \in dev'.status,
                 dev'.radio = "rx" \/ dev'.status \cap Heard # {}
          PROVE  dev.responses > 0
      <4>1. CASE dev.status = {}
        BY <2>1, <3>2, <4>1 DEF Heard
      <4>2. CASE dev.status # {} /\ dev.radio = "tx"
        BY <2>1, <2>3, <3>2, <4>2
      <4>3. CASE dev.status # {} /\ dev.radio = "rx"
        <5>1. dev.pending /\ "txdone" \in dev.status
          BY <2>1, <3>2, <4>3 DEF Heard
        <5> QED BY <4>3, <5>1 DEF WatchInv, PassInv
      <4> QED BY <2>1, <4>1, <4>2, <4>3
    <3>3. isr # "off" /\ "txdone" \in dev'.status \ snapshot => dev.responses > 0
      BY <2>1, <2>3 DEF WatchInv, PassInv, Heard
    <3> QED BY <2>1, <2>2, <3>1, <3>2, <3>3 DEF WatchInv, PassInv
  <2>5. ASSUME NEW bits \in SUBSET Bits, Over(dev, bits)
        PROVE  Over(dev', bits \cup {bit})
    BY <2>1, <2>5 DEF Over, Settled, Heard
  <2>6. InactiveInv'
    <3>1. dev.status \cup (snapshot \cap {"txdone"}) \in SUBSET Bits
      BY <1>3 DEF Devs, Bits
    <3>2. ~dev'.active => Over(dev', (dev.status \cup (snapshot \cap {"txdone"})) \cup {bit})
      BY <2>1, <2>5, <3>1 DEF WatchInv, InactiveInv
    <3>3. (dev.status \cup (snapshot \cap {"txdone"})) \cup {bit}
            = dev'.status \cup (snapshot \cap {"txdone"})
      BY <2>1
    <3> QED BY <2>2, <3>2, <3>3 DEF InactiveInv
  <2>7. LooseInv'
    <3>1. dev.status \cup snapshot \in SUBSET Bits
      BY <1>3 DEF Devs, Bits, WatchInv, PassInv, Left
    <3>2. (dev.status \cup snapshot) \cup {bit} = dev'.status \cup snapshot
      BY <2>1
    <3>3. Over(dev, dev.status \cup snapshot) => Over(dev', dev'.status \cup snapshot)
      BY <2>5, <3>1, <3>2
    <3> QED BY <1>0, <1>1, <2>1, <2>2, <3>3 DEF WatchInv, LooseInv, Settled
  <2>8. ~callbacks => ~dev'.active
    BY <2>1 DEF WatchInv, EventInv
  <2> QED BY <1>1, <1>2, <2>4, <2>6, <2>7, <2>8 DEF WatchInv
<1>9. CASE Timer
  <2>1. /\ dev.timer /\ dev' = [dev EXCEPT !.timer = FALSE, !.overflow = TRUE]
        /\ UNCHANGED <<isr, snapshot>>
    BY <1>9 DEF Timer, irq
  <2>2. /\ dev'.radio = dev.radio /\ dev'.responses = dev.responses
        /\ dev'.status = dev.status /\ dev'.pending = dev.pending
        /\ dev'.active = dev.active /\ dev'.overflow
    BY <1>3, <2>1 DEF Devs
  <2>3. PassInv' /\ InactiveInv'
    BY <2>1, <2>2 DEF WatchInv, PassInv, InactiveInv, Over, Settled
  <2>4. LooseInv'
    BY <1>0, <1>1, <2>1, <2>2 DEF WatchInv, LooseInv, Over, Settled
  <2>5. ~callbacks => ~dev'.active
    BY <2>2 DEF WatchInv, EventInv
  <2> QED BY <1>1, <1>2, <2>3, <2>4, <2>5 DEF WatchInv
<1> QED BY <1>4, <1>6, <1>7, <1>8, <1>9 DEF GPIO_ODD_IRQHandler

(* A period that is armed is one, and since is a count. *)
LEMMA NextStartArmed ==
    ASSUME NEW elapsed \in Nat, NEW t \in NextStart(elapsed)
    PROVE  t \in Int /\ t < Never
<1>1. PICK p \in Periods \cup {PERIOD_BATTERY_FLAT} :
         t = IF p < elapsed THEN 0 ELSE p - elapsed
  BY DEF NextStart
<1>2. p \in Nat /\ p < Never
  BY TagAssumption
<1> QED BY <1>1, <1>2 DEF Never

LEMMA SinceCounts ==
    ASSUME NEW n \in Nat
    PROVE  Min({n + 1, LongestPeriod}) \in Nat
<1> DEFINE S == {PERIOD_BATTERY_FLAT} \cup Periods
           T == {Never - p : p \in S}
<1>1. S \subseteq Nat /\ T \subseteq Nat /\ T # {}
  <2>1. \A p \in S : p \in Nat /\ p < Never
    BY TagAssumption
  <2>2. \A p \in S : Never - p \in Nat
    BY <2>1 DEF Never
  <2>3. PERIOD_BATTERY_FLAT \in S
    OBVIOUS
  <2> QED BY <2>1, <2>2, <2>3
<1>2. PICK m \in T : \A k \in T : ~(<<k, m>> \in OpToRel(<, Nat))
  BY <1>1, NatLessThanWellFounded, WFMin
<1>3. PICK q \in S : m = Never - q
  OBVIOUS
<1>4. ASSUME NEW p \in S
      PROVE  q >= p
  <2>1. Never - p \in T /\ Never - p \in Nat /\ m \in Nat /\ p \in Nat /\ q \in Nat
    BY <1>1
  <2>2. ~(Never - p < m)
    BY <1>2, <2>1 DEF OpToRel
  <2> QED BY <1>3, <2>1, <2>2 DEF Never
<1>5. LongestPeriod \in Nat
  <2>1. \E x \in S : \A y \in S : x >= y
    BY <1>4
  <2>2. Max(S) \in S
    BY <2>1 DEF Max
  <2> QED BY <1>1, <2>2 DEF LongestPeriod
<1>6. ASSUME NEW a \in Nat, NEW b \in Nat PROVE Min({a, b}) \in {a, b}
  <2>1. \E x \in {a, b} : \A y \in {a, b} : x =< y
    OBVIOUS
  <2> QED BY <2>1 DEF Min
<1> QED BY <1>5, <1>6

(* The main loop runs between the handlers' passes. *)
LEMMA BetweenPasses ==
    ASSUME WatchInv, MainRuns
    PROVE  /\ isr = "off" /\ snapshot = {} /\ ~dev.pending
           /\ ~dev.active => Over(dev, dev.status \cup snapshot)
<1>1. isr = "off" /\ snapshot = {} /\ ~dev.pending
  BY DEF WatchInv, PassInv, Left, MainRuns
<1>2. dev.status \cup (snapshot \cap {"txdone"}) = dev.status \cup snapshot
  BY <1>1
<1> QED BY <1>1, <1>2 DEF WatchInv, InactiveInv

(* A step of the main loop that leaves the radio alone. *)
LEMMA QuietWatched ==
    ASSUME WatchInv,
           UNCHANGED <<dev, isr, snapshot>>,
           pc' = "doze" => MainRuns /\ ~dev.active,
           pc # "inactive", pc' # "inactive",
           ~Supervised' => ~Supervised \/ (MainRuns /\ ~dev.active),
           BatteryInv', EventInv'
    PROVE  WatchInv'
<1>1. PassInv' /\ InactiveInv'
  BY DEF WatchInv, PassInv, InactiveInv
<1>2. MainRuns /\ ~dev.active => Over(dev, dev.status \cup snapshot)
  BY BetweenPasses
<1>3. LooseInv'
  BY <1>2 DEF WatchInv, LooseInv
<1> QED BY <1>1, <1>3 DEF WatchInv

(* A step of the main loop that changes what the radio does. *)
LEMMA RadioWatched ==
    ASSUME isr = "off" /\ snapshot = {}, UNCHANGED <<isr, snapshot>>,
           dev'.pending = FALSE,
           InactiveInv', LooseInv', BatteryInv', EventInv'
    PROVE  WatchInv'
BY DEF WatchInv, PassInv, Left

LEMMA LoopWatched ==
    ASSUME TagInv, WatchInv, ~Console,
           proto_init \/ PollStart \/ PollSupervisor \/ cli_poll \/ PollMovement \/ PollIdle
             \/ Turn
    PROVE  WatchInv'
<1>1. CASE proto_init
  <2>1. /\ pc = "boot" /\ pc' \in {"tag", "poll"} /\ validity' \in Int
        /\ UNCHANGED <<dev, isr, snapshot, radio_sleeping, just_woken, callbacks>>
        /\ UNCHANGED <<start, supervisor, early, since>>
    BY <1>1, TagAssumption DEF proto_init, proto_update_battery, irq, device, times
  <2>2. ~just_woken
    BY <2>1 DEF WatchInv, BatteryInv
  <2>3. BatteryInv' /\ EventInv' /\ (~Supervised' => ~Supervised)
    BY <2>1, <2>2 DEF WatchInv, BatteryInv, EventInv, Supervised
  <2> QED BY <2>1, <2>3, QuietWatched
<1>2. CASE PollStart
  <2>1. /\ pc = "events" /\ MainRuns
        /\ UNCHANGED <<dev, isr, snapshot, radio_sleeping, just_woken, callbacks, low, validity>>
        /\ UNCHANGED <<supervisor, early, since>>
        /\ \/ start <= 0 /\ start' = Never /\ pc' = "start"
           \/ pc' = "supervisor" /\ start' = start
    BY <1>2 DEF PollStart, irq, device, battery
  <2>2. BatteryInv'
    BY <2>1 DEF WatchInv, BatteryInv
  <2>3. EventInv'
    <3>1. ~callbacks => start = Never
      BY DEF TagInv, StopInv
    <3> QED BY <2>1, <3>1 DEF WatchInv, EventInv, Never
  <2>4. ~Supervised' => ~Supervised
    BY <2>1 DEF Supervised
  <2> QED BY <2>1, <2>2, <2>3, <2>4, QuietWatched
<1>3. CASE PollSupervisor
  <2>1. /\ pc = "supervisor" /\ MainRuns
        /\ UNCHANGED <<dev, isr, snapshot, radio_sleeping, just_woken, callbacks, low, validity>>
        /\ UNCHANGED <<start, early, since>>
        /\ \/ supervisor <= 0 /\ supervisor' = Never /\ dev.active /\ pc' = "shutdown"
           \/ supervisor <= 0 /\ supervisor' = Never /\ ~dev.active /\ pc' = "cli"
           \/ supervisor' = supervisor /\ pc' = "cli"
    BY <1>3 DEF PollSupervisor, irq, device, battery
  <2>2. BatteryInv'
    BY <2>1 DEF WatchInv, BatteryInv
  <2>3. EventInv'
    BY <2>1 DEF WatchInv, EventInv, Never
  <2>4. ~Supervised' => ~Supervised \/ (MainRuns /\ ~dev.active)
    BY <2>1 DEF Supervised
  <2> QED BY <2>1, <2>2, <2>3, <2>4, QuietWatched
<1>4. CASE cli_poll
  <2>1. /\ pc = "cli" /\ pc' = "proto"
        /\ UNCHANGED <<dev, isr, snapshot, radio_sleeping, just_woken, callbacks, low, validity>>
        /\ UNCHANGED <<start, supervisor, early, since>>
    BY <1>4 DEF cli_poll, irq, device, battery, times
  <2>2. BatteryInv' /\ EventInv' /\ (~Supervised' => ~Supervised)
    BY <2>1 DEF WatchInv, BatteryInv, EventInv, Supervised
  <2> QED BY <2>1, <2>2, QuietWatched
<1>5. CASE PollMovement
  <2>1. /\ pc = "proto" /\ pc' = "idle?"
        /\ UNCHANGED <<dev, isr, snapshot, radio_sleeping, just_woken, callbacks, low, validity>>
        /\ UNCHANGED <<supervisor, since>>
        /\ \/ tag_active /\ start' \in NextStart(since)
           \/ UNCHANGED <<start, early>>
    BY <1>5 DEF PollMovement, irq, device, battery
  <2>2. start' = start \/ (start' \in Int /\ start' < Never)
    BY <2>1, NextStartArmed DEF WatchInv, EventInv
  <2>3. ~callbacks => UNCHANGED <<start, early>>
    BY <2>1 DEF TagInv, StopInv
  <2>4. BatteryInv' /\ EventInv' /\ (~Supervised' => ~Supervised)
    BY <2>1, <2>2, <2>3 DEF WatchInv, BatteryInv, EventInv, Supervised, Never
  <2> QED BY <2>1, <2>4, QuietWatched
<1>6. CASE PollIdle
  <2>1. /\ pc = "idle?" /\ pc' \in {"doze", "turn"} /\ MainRuns
        /\ pc' = "doze" => ~dev.active
        /\ UNCHANGED <<dev, isr, snapshot, radio_sleeping, just_woken, callbacks, low, validity>>
        /\ UNCHANGED <<start, supervisor, early, since>>
    BY <1>6 DEF PollIdle, irq, device, battery, times
  <2>2. BatteryInv' /\ EventInv' /\ (~Supervised' => ~Supervised)
    BY <2>1 DEF WatchInv, BatteryInv, EventInv, Supervised
  <2> QED BY <2>1, <2>2, QuietWatched
<1>7. CASE Turn
  <2>1. /\ pc = "turn" /\ pc' = "poll"
        /\ UNCHANGED <<dev, isr, snapshot, radio_sleeping, just_woken, callbacks, low, validity>>
    BY <1>7 DEF Turn, irq, device, battery
  <2>2. \/ /\ start' = Later(start) /\ supervisor' = Later(supervisor)
           /\ early' = Later(early) /\ since' = Min({since + 1, LongestPeriod})
        \/ UNCHANGED <<start, supervisor, early, since>>
    BY <1>7 DEF Turn, times
  <2>3. since' \in Nat
    BY <2>2, SinceCounts DEF WatchInv, EventInv
  <2>4. BatteryInv' /\ EventInv' /\ (~Supervised' => ~Supervised)
    <3>1. /\ start' \in Int /\ start' <= Never /\ (start' = Never <=> start = Never)
          /\ supervisor' \in Int /\ supervisor' <= Never
          /\ supervisor' = Never <=> supervisor = Never
          /\ early = Never => early' = Never
      BY <2>2 DEF WatchInv, EventInv, Later, Never
    <3> QED BY <2>1, <2>3, <3>1 DEF WatchInv, BatteryInv, EventInv, Supervised, Never
  <2> QED BY <2>1, <2>4, QuietWatched
<1> QED BY <1>1, <1>2, <1>3, <1>4, <1>5, <1>6, <1>7

LEMMA PrepareWatched ==
    ASSUME TagInv, WatchInv, PollEarly \/ tag_with_period
    PROVE  WatchInv'
<1>0. dev \in Devs
  BY DEF TagInv, Shape
<1>1. /\ MainRuns /\ UNCHANGED <<isr, snapshot, start, supervisor, since>>
      /\ pc # "inactive" /\ pc' \notin {"doze", "inactive", "shutdown", "off", "boot"}
      /\ pc # "start" /\ pc \notin {"shutdown", "off"}
  BY DEF PollEarly, tag_with_period, irq, times
<1>2. /\ isr = "off" /\ snapshot = {} /\ ~dev.pending
      /\ ~dev.active => Over(dev, dev.status \cup snapshot)
  BY <1>1, BetweenPasses
<1>3. \/ PollEarly /\ early' = early /\ UNCHANGED <<dev, radio_sleeping, just_woken, low, validity>>
      \/ proto_prepare /\ (PollEarly => early <= 0)
  BY DEF PollEarly, tag_with_period, times, battery
<1>4. \/ /\ UNCHANGED <<dev, just_woken>> /\ (radio_sleeping' = radio_sleeping)
         /\ validity' \in Int
         /\ radio_sleeping \/ UNCHANGED <<low, validity>>
      \/ /\ dev' = [dev EXCEPT !.active = TRUE] /\ just_woken' = TRUE
         /\ radio_sleeping' = FALSE /\ ~low' /\ validity' \in Int /\ validity' > 0
         /\ PollEarly => early <= 0
  <2>1. CASE UNCHANGED <<dev, radio_sleeping, just_woken, low, validity>>
    BY <2>1 DEF WatchInv, BatteryInv
  <2>2. CASE proto_prepare /\ radio_sleeping /\ (PollEarly => early <= 0)
    <3>1. validity' \in Int /\ validity' > 0
      BY <2>2, TagAssumption DEF proto_prepare, proto_update_battery
    <3> QED BY <2>2, <3>1 DEF proto_prepare
  <2>3. CASE proto_prepare /\ ~radio_sleeping
    BY <2>1, <2>3 DEF proto_prepare, battery
  <2> QED BY <1>3, <2>1, <2>2, <2>3
<1>5. BatteryInv'
  BY <1>1, <1>4 DEF WatchInv, BatteryInv
<1>6. EventInv' /\ (dev' # dev => callbacks')
  <2>1. CASE tag_with_period
    <3>1. callbacks' = TRUE /\ pc' = "start"
      BY <2>1 DEF tag_with_period
    <3> QED BY <1>1, <3>1 DEF WatchInv, EventInv
  <2>2. CASE PollEarly
    <3>1. /\ callbacks' = callbacks /\ pc' = "events"
      BY <2>2 DEF PollEarly
    <3>2. ~callbacks => early' = early /\ dev' = dev
      BY <2>2 DEF PollEarly, WatchInv, EventInv, Never
    <3> QED BY <1>1, <1>4, <3>1, <3>2 DEF WatchInv, EventInv
  <2> QED BY <2>1, <2>2
<1>7. CASE UNCHANGED <<dev, just_woken>>
  <2>1. ~Supervised' => ~Supervised
    BY <1>1, <1>7 DEF Supervised
  <2> QED BY <1>1, <1>5, <1>6, <1>7, <2>1, QuietWatched
<1>8. CASE dev' = [dev EXCEPT !.active = TRUE] /\ just_woken' = TRUE /\ dev' # dev
  <2>1. dev'.active /\ dev'.pending = dev.pending /\ dev.pending \in BOOLEAN
    BY <1>0, <1>8 DEF Devs
  <2>2. Supervised'
    BY <1>6, <1>8 DEF EventInv, Supervised, Never
  <2>3. InactiveInv' /\ LooseInv'
    BY <1>1, <2>1, <2>2 DEF InactiveInv, LooseInv
  <2> QED BY <1>1, <1>2, <1>5, <1>6, <2>1, <2>3, RadioWatched
<1>9. CASE dev' = dev /\ just_woken' = TRUE
  <2>1. ~Supervised' => ~Supervised
    BY <1>1, <1>9 DEF Supervised
  <2> QED BY <1>1, <1>5, <1>6, <1>9, <2>1, QuietWatched
<1> QED BY <1>4, <1>7, <1>8, <1>9

(* The supervisor's end. *)
LEMMA ShutdownWatched ==
    ASSUME TagInv, WatchInv, Shutdown
    PROVE  WatchInv'
<1>0. dev \in Devs /\ after \in {"poll", "supervisor", "cli", "proto"}
  BY DEF TagInv, Shape
<1>1. /\ MainRuns /\ UNCHANGED <<isr, snapshot, radio_sleeping, just_woken, callbacks>>
      /\ UNCHANGED <<low, validity, start, supervisor, early, since>>
      /\ pc \in {"shutdown", "off", "inactive"}
      /\ pc' \notin {"doze", "shutdown", "start", "boot", "tag"}
  BY <1>0 DEF Shutdown, irq, device, battery, times
<1>2. /\ isr = "off" /\ snapshot = {} /\ ~dev.pending
  BY <1>1, BetweenPasses
<1>3. callbacks /\ BatteryInv' /\ EventInv'
  <2>1. callbacks
    BY <1>1 DEF WatchInv, EventInv
  <2> QED BY <1>1, <2>1 DEF WatchInv, BatteryInv, EventInv
<1>4. CASE pc = "shutdown" /\ dev' = timer_stop(dev) /\ pc' = "off"
  <2>1. /\ dev'.radio = dev.radio /\ dev'.status = dev.status /\ dev'.pending = FALSE
        /\ dev'.responses = dev.responses /\ dev'.active = dev.active
    BY <1>0, <1>2, <1>4, OffDoes DEF Follows, Devs
  <2>2. InactiveInv' /\ LooseInv'
    BY <1>1, <1>4, <2>1 DEF WatchInv, InactiveInv, LooseInv, Supervised, Over, Settled
  <2> QED BY <1>1, <1>2, <1>3, <2>1, <2>2, RadioWatched
<1>5. CASE pc = "off" /\ dev' = radio_txrxoff(dev) /\ pc' = "inactive"
  <2>1. dev'.radio = "idle" /\ dev'.status = {} /\ dev'.pending = FALSE
    BY <1>0, <1>2, <1>5, OffDoes DEF Follows, Devs
  <2>2. Over(dev', {}) /\ (dev.status \cup snapshot)' = {}
        /\ (dev.status \cup (snapshot \cap {"txdone"}))' = {}
    BY <1>1, <1>2, <2>1 DEF Over, Heard
  <2>3. InactiveInv' /\ LooseInv'
    BY <1>5, <2>2 DEF InactiveInv, LooseInv
  <2> QED BY <1>1, <1>2, <1>3, <2>1, <2>3, RadioWatched
<1>6. CASE pc = "inactive" /\ dev' = [dev EXCEPT !.active = FALSE] /\ pc' = after
  <2>1. /\ dev'.radio = dev.radio /\ dev'.status = dev.status /\ dev'.pending = FALSE
        /\ dev'.responses = dev.responses /\ dev'.active = FALSE
    BY <1>0, <1>2, <1>6 DEF Devs
  <2>2. Over(dev, dev.status \cup snapshot)
    BY <1>6 DEF WatchInv, LooseInv
  <2>3. Over(dev', dev.status)
    BY <1>2, <2>1, <2>2 DEF Over, Settled
  <2>4. (dev.status \cup snapshot)' = dev.status
        /\ (dev.status \cup (snapshot \cap {"txdone"}))' = dev.status
    BY <1>1, <1>2, <2>1
  <2>5. InactiveInv' /\ LooseInv'
    BY <2>1, <2>3, <2>4 DEF InactiveInv, LooseInv
  <2> QED BY <1>1, <1>2, <1>3, <2>1, <2>5, RadioWatched
<1> QED BY <1>4, <1>5, <1>6 DEF Shutdown

(* tag_start. *)
LEMMA StartWatched ==
    ASSUME TagInv, WatchInv, tag_start
    PROVE  WatchInv'
<1>0. dev \in Devs /\ after \in {"poll", "supervisor", "cli", "proto"}
  BY DEF TagInv, Shape
<1>1. /\ MainRuns /\ pc \in {"start", "sent"} /\ callbacks
      /\ UNCHANGED <<isr, snapshot, after, radio_sleeping, callbacks, low>>
  BY DEF tag_start, StartRefused, StartFlat, Blink, Sent, irq, device, battery, TagInv, StopInv
<1>2. /\ isr = "off" /\ snapshot = {} /\ ~dev.pending
  BY <1>1, BetweenPasses
<1>3. ASSUME since' = 0, start' \in NextStart(0)
      PROVE  since' \in Nat /\ start' \in Int /\ start' < Never
  BY <1>3, NextStartArmed
<1>4. CASE StartRefused
  <2>1. /\ pc = "start" /\ pc' = after /\ UNCHANGED <<dev, just_woken, validity, supervisor>>
        /\ since' = 0 /\ start' \in NextStart(0)
    BY <1>4 DEF StartRefused, device, battery
  <2>2. BatteryInv' /\ EventInv' /\ (~Supervised' => ~Supervised)
    BY <1>0, <1>1, <1>3, <2>1 DEF WatchInv, BatteryInv, EventInv, Supervised, Never
  <2> QED BY <1>0, <1>1, <2>1, <2>2, QuietWatched
<1>5. CASE StartFlat
  <2>1. /\ pc = "start" /\ pc' = after /\ UNCHANGED <<dev, validity, supervisor>>
        /\ just_woken' = FALSE /\ since' = 0 /\ start' \in NextStart(0)
        /\ ~radio_sleeping /\ (dev.active => just_woken) /\ (low \/ validity = 0)
    BY <1>5 DEF StartFlat, battery, CannotStart, proto_battery_flat
  <2>2. BatteryInv' /\ EventInv'
    BY <1>0, <1>1, <1>3, <2>1 DEF WatchInv, BatteryInv, EventInv, Never
  <2>3. ~dev.active
    BY <2>1 DEF WatchInv, BatteryInv
  <2> QED BY <1>0, <1>1, <2>1, <2>2, <2>3, QuietWatched
<1>6. CASE Blink
  <2> DEFINE d == [dev EXCEPT !.anchors = 0, !.responses = 0, !.active = TRUE]
  <2>1. d \in Devs /\ d.active = TRUE /\ d.pending = dev.pending
    BY <1>0 DEF Devs
  <2>2. /\ pc' = "sent" /\ just_woken' = FALSE /\ validity' = validity - 1
        /\ dev' \in radio_txstart(d, FALSE) /\ supervisor' = SUPERVISORY_TIMEOUT
        /\ since' = 0 /\ start' \in NextStart(0)
    BY <1>6 DEF Blink
  <2> HIDE DEF d
  <2>3. dev'.active /\ dev'.pending = FALSE
    <3>1. dev'.active = d.active /\ dev'.pending = d.pending
      BY <2>1, <2>2, TxStart
    <3>2. dev.pending = FALSE
      BY <1>0, <1>2 DEF Devs
    <3> QED BY <2>1, <3>1, <3>2
  <2>4. supervisor' \in Int /\ supervisor' < Never
    BY <2>2, TagAssumption
  <2>5. BatteryInv' /\ EventInv' /\ Supervised'
    BY <1>1, <1>3, <2>2, <2>4 DEF WatchInv, BatteryInv, EventInv, Supervised, Never
  <2>6. InactiveInv' /\ LooseInv'
    BY <2>2, <2>3, <2>5 DEF InactiveInv, LooseInv
  <2> QED BY <1>1, <1>2, <2>3, <2>5, <2>6, RadioWatched
<1>7. CASE Sent
  <2>1. /\ pc = "sent" /\ pc' = after /\ UNCHANGED <<dev, just_woken, validity>>
        /\ UNCHANGED <<start, supervisor, early, since>>
    BY <1>7 DEF Sent, device, battery, times
  <2>2. BatteryInv' /\ EventInv' /\ (~Supervised' => ~Supervised)
    BY <1>0, <1>1, <2>1 DEF WatchInv, BatteryInv, EventInv, Supervised
  <2> QED BY <1>0, <1>1, <2>1, <2>2, QuietWatched
<1> QED BY <1>4, <1>5, <1>6, <1>7 DEF tag_start

(* Taking the supervisor away, and sleeping. *)
LEMMA DozeWatched ==
    ASSUME TagInv, WatchInv, PollDoze
    PROVE  WatchInv'
<1>0. dev \in Devs
  BY DEF TagInv, Shape
<1>1. /\ MainRuns /\ pc = "doze" /\ pc' = "turn" /\ supervisor' = Never
      /\ UNCHANGED <<isr, snapshot, just_woken, callbacks, low, validity, start, since>>
      /\ dev' = dev \/ dev' = [dev EXCEPT !.radio = "idle"]
      /\ radio_sleeping' \/ radio_sleeping' = radio_sleeping
      /\ early' = EarlyAfterClearing(supervisor, {start})
  BY DEF PollDoze, irq, battery
<1>2. /\ isr = "off" /\ snapshot = {} /\ ~dev.pending
  BY <1>1, BetweenPasses
<1>3. /\ dev'.radio \in {dev.radio, "idle"} /\ dev'.status = dev.status
      /\ dev'.pending = FALSE /\ dev'.responses = dev.responses
      /\ dev'.active = dev.active /\ dev'.timer = dev.timer /\ dev'.overflow = dev.overflow
  BY <1>0, <1>1, <1>2 DEF Devs
<1>4. BatteryInv'
  BY <1>1 DEF WatchInv, BatteryInv
<1>5. EventInv'
  <2>1. early = Never => early' = Never
    BY <1>1 DEF EarlyAfterClearing
  <2> QED BY <1>1, <1>3, <2>1 DEF WatchInv, EventInv, Never
<1>6. InactiveInv' /\ LooseInv'
  <2>1. /\ Over(dev, dev.status \cup snapshot)
        /\ dev.active => Settled(dev) /\ (dev.timer \/ dev.overflow)
    BY <1>1 DEF WatchInv, LooseInv
  <2>2. Over(dev', dev.status)
    BY <1>2, <1>3, <2>1 DEF Over, Settled
  <2>3. (dev.status \cup snapshot)' = dev.status
        /\ (dev.status \cup (snapshot \cap {"txdone"}))' = dev.status
    BY <1>1, <1>2, <1>3
  <2> QED BY <1>3, <2>1, <2>2, <2>3 DEF InactiveInv, LooseInv, Settled
<1> QED BY <1>1, <1>2, <1>3, <1>4, <1>5, <1>6, RadioWatched

Watched == ~Console => WatchInv

LEMMA WatchStep == TagInv /\ Watched /\ [Next]_vars => Watched'
<1>1. ASSUME ~Console, TagInv, WatchInv, Next PROVE WatchInv'
  BY <1>1, InterruptWatched, LoopWatched, PrepareWatched, ShutdownWatched, StartWatched,
     DozeWatched DEF Next, Main, proto_poll
<1>2. ASSUME WatchInv, UNCHANGED vars PROVE WatchInv'
  BY <1>2 DEF vars, irq, device, battery, times, WatchInv, PassInv, InactiveInv, LooseInv,
     Supervised, BatteryInv, EventInv
<1> QED BY <1>1, <1>2 DEF Watched

(* While nobody types commands, an active radio always has something that   *)
(* ends it (proto.c:840-859, 885-892): the handlers may make it active      *)
(* again after proto_poll has seen it inactive and taken the supervisor     *)
(* away, but only to listen with nothing left to answer.                    *)
THEOREM TagWatched == Spec => [](~Console => ActiveIsWatched)
<1>1. WatchInv => ActiveIsWatched
  BY DEF WatchInv, LooseInv, Supervised, ActiveIsWatched
<1>2. Watched => (~Console => ActiveIsWatched)
  BY <1>1 DEF Watched
<1>3. Init => Watched
  BY WatchInit DEF Watched
<1> QED BY TagInit, TagStep, WatchStep, <1>2, <1>3, PTL DEF Spec
=============================================================================
