--------------------------------- MODULE Tag ---------------------------------
(***************************************************************************)
(* The tag's protocol, firmware/src/proto.c, with the interrupt side of    *)
(* firmware/src/radio.c and timer.c: blink, listen for anchors, respond,   *)
(* put the radio to sleep until the next blink.                            *)
(*                                                                         *)
(* The main loop runs time_event_poll, cli_poll, proto_poll in turn.  Two  *)
(* interrupt handlers of equal priority, the radio's and the timer's, come *)
(* between any two of its steps and change the same state.  The radio's    *)
(* line is edge triggered, so a status bit that is set while another still *)
(* is raises no interrupt.                                                 *)
(*                                                                         *)
(* Times are ticks from now; a turn of the main loop takes less than one.  *)
(* What wrapping times and the processor's sleep add is in TimeEvents.     *)
(* Frames, addresses and timestamps are left out: a received frame is a    *)
(* ranging request for this tag or another frame, a delayed transmission   *)
(* is in time or late.                                                     *)
(***************************************************************************)
EXTENDS Integers, FiniteSets, FiniteSetsExt

CONSTANTS Periods,               \* what tag_set_event may find: active or idle
                                 \* period, with jitter
          PERIOD_BATTERY_FLAT, SUPERVISORY_TIMEOUT, PROTO_PREPARETIME,
          BATTERY_BLINKS_VALID,
          max_anchors, min_responses,
          Console                \* someone types commands

(* When an event comes that is not armed: later than any that is. *)
Never == 1000

ASSUME TagAssumption ==
    /\ Periods \subseteq Nat /\ Periods # {}
    /\ {PERIOD_BATTERY_FLAT, SUPERVISORY_TIMEOUT, PROTO_PREPARETIME,
        BATTERY_BLINKS_VALID, max_anchors, min_responses} \subseteq Nat
    /\ SUPERVISORY_TIMEOUT > 0
    /\ PROTO_PREPARETIME > 0
    /\ IsFiniteSet(Periods)
    /\ PERIOD_BATTERY_FLAT > PROTO_PREPARETIME
    /\ \A t \in Periods \cup {PERIOD_BATTERY_FLAT, SUPERVISORY_TIMEOUT} : t < Never
    /\ Console \in BOOLEAN

VARIABLES
    dev,                     \* what the interrupt handlers share with the main loop:
                             \*   active      device.radio_active
                             \*   anchors     tag_data.anchors_heard
                             \*   responses   tag_data.responses_sent
                             \*   radio       what the radio does
                             \*   status      its status bits
                             \*   pending     the radio's interrupt is pending
                             \*   timer       TIMER0 counts
                             \*   overflow    TIMER0's interrupt is pending
    isr, snapshot,           \* GPIO_ODD_IRQHandler: where it is, the status it read
    pc, after,               \* where the main loop is; where tag_start returns to
    radio_sleeping, just_woken, receive_after_transmit,
    callbacks,               \* the protocol's callbacks are set
    tag_active,              \* tag_data.active
    low, validity,           \* the battery's last reading was; device.adc_validity_counter
    start, supervisor,       \* ticks until tag_start, tag_supervisor, or Never
    early,                   \* early_wakeup_time, likewise
    since                    \* ticks since tag_data.last_event

device == <<radio_sleeping, just_woken, receive_after_transmit, callbacks, tag_active>>
battery == <<low, validity>>
times  == <<start, supervisor, early, since>>
irq    == <<isr, snapshot>>
vars   == <<dev, irq, pc, after, device, battery, times>>

LongestPeriod == Max({PERIOD_BATTERY_FLAT} \cup Periods)

(* The main loop executes an instruction. *)
MainRuns == isr = "off" /\ ~dev.pending /\ ~dev.overflow

proto_battery_flat == low \/ validity = 0

-----------------------------------------------------------------------------
(* The radio and the timer, and the functions that run in either context:  *)
(* from a value of `dev' to the set of values they may leave.              *)

radio_txrxoff(d) == [d EXCEPT !.radio = "idle", !.status = {}]
timer_stop(d)    == [d EXCEPT !.timer = FALSE]

(* A sleeping radio ignores commands.  A delayed start may be too late. *)
Late(d, delayed) == IF delayed THEN {radio_txrxoff(d)} ELSE {}

radio_txstart(d, delayed) ==
    IF radio_sleeping THEN {d}
    ELSE {[d EXCEPT !.radio = "tx"]} \cup Late(d, delayed)

radio_rxstart(d, delayed) ==
    IF radio_sleeping THEN {d}
    ELSE {[d EXCEPT !.radio = "rx"]} \cup Late(d, delayed)

start_rx(d, delayed) == radio_rxstart([d EXCEPT !.active = TRUE, !.timer = TRUE], delayed)

PacketPending(d) == \/ d.responses < min_responses
                    \/ d.anchors > 0 /\ d.responses = 0

(* Answer if something is due, else the radio is done. *)
tail_finish_ranging(d) ==
    IF PacketPending(d)
    THEN {[x EXCEPT !.responses = @ + 1] : x \in radio_txstart(d, TRUE)}
    ELSE {[d EXCEPT !.active = FALSE]}

proto_txdone(d) == IF receive_after_transmit /\ d.responses = 0
                   THEN start_rx(d, TRUE) ELSE tail_finish_ranging(d)

(* A ranging request.  The last of max_anchors ends the listening. *)
tail_timing(d) ==
    LET heard == IF d.anchors < max_anchors THEN [d EXCEPT !.anchors = @ + 1] ELSE d
    IN  IF heard.anchors >= max_anchors
        THEN tail_finish_ranging(timer_stop(radio_txrxoff(heard)))
        ELSE {heard}

(* The receiver has overrun, or there is a frame. *)
proto_rxdone(d) == {[radio_txrxoff(d) EXCEPT !.active = FALSE]} \cup {d} \cup tail_timing(d)

proto_rxerror(d) == start_rx(d, FALSE)

proto_rxtimer(d) == tail_finish_ranging(radio_txrxoff(d))

-----------------------------------------------------------------------------
(* Interrupts.                                                             *)

(* TIMER0's interrupt goes first when both are pending. *)
RadioIrq == /\ isr = "off" /\ dev.pending /\ ~dev.overflow
            /\ dev' = [dev EXCEPT !.pending = FALSE]
            /\ snapshot' = dev.status
            /\ isr' = "rxdone"
            /\ UNCHANGED <<pc, after, device, battery, times>>

Cleared(bit) == [dev EXCEPT !.status = @ \ {bit}]

(* One bit of the status the handler has read: clear it and call back, with
   one of these outcomes.                                                  *)
Handle(bit, called, next) ==
    /\ isr = bit
    /\ dev' \in IF bit \notin snapshot THEN {dev}
               ELSE IF callbacks THEN called ELSE {Cleared(bit)}
    /\ isr' = next
    /\ snapshot' = snapshot \ {bit}
    /\ UNCHANGED <<pc, after, device, battery, times>>

GPIO_ODD_IRQHandler ==
    \/ RadioIrq
    \/ Handle("rxdone", proto_rxdone(Cleared("rxdone")), "rxerror")
    \/ Handle("rxerror", proto_rxerror(Cleared("rxerror")), "txdone")
    \/ Handle("txdone", proto_txdone(Cleared("txdone")), "off")

TIMER0_IRQHandler == /\ isr = "off" /\ dev.overflow
                     /\ dev' \in proto_rxtimer([dev EXCEPT !.overflow = FALSE])
                     /\ UNCHANGED <<irq, pc, after, device, battery, times>>

(* The hardware: a status bit, an edge if it is the first; an overflow. *)
Raise(d, bit) == [d EXCEPT !.status = @ \cup {bit},
                           !.pending = @ \/ d.status = {}]

Radio == /\ \/ dev.radio = "tx" /\ dev' = Raise([dev EXCEPT !.radio = "idle"], "txdone")
            \/ dev.radio = "rx" /\ dev' = Raise(dev, "rxdone")
            \/ dev.radio = "rx" /\ dev' = Raise(dev, "rxerror")
         /\ UNCHANGED <<irq, pc, after, device, battery, times>>

Timer == /\ dev.timer
         /\ dev' = [dev EXCEPT !.timer = FALSE, !.overflow = TRUE]
         /\ UNCHANGED <<irq, pc, after, device, battery, times>>

-----------------------------------------------------------------------------
(* Events: time.c without the wrapping.                                    *)

NextEarly(armed, from) ==
    Min({Never} \cup {t - PROTO_PREPARETIME :
                        t \in {u \in armed \ {Never} : u - PROTO_PREPARETIME >= from}})

EarlyAfterArming(t) == Min({early, t - PROTO_PREPARETIME})

EarlyAfterClearing(t, others) ==
    IF early # Never /\ early + PROTO_PREPARETIME = t THEN NextEarly(others, early) ELSE early

(* tag_set_event, `elapsed' ticks after the last event: ticks until the next. *)
NextStart(elapsed) ==
    {IF period < elapsed THEN 0 ELSE period - elapsed :
       period \in {IF proto_battery_flat /\ p < PERIOD_BATTERY_FLAT
                   THEN PERIOD_BATTERY_FLAT ELSE p : p \in Periods}}

proto_update_battery == low' \in BOOLEAN /\ validity' = BATTERY_BLINKS_VALID + 1

-----------------------------------------------------------------------------
(* proto_prepare: wake the radio for a use to come.                        *)
proto_prepare ==
    \/ ~radio_sleeping /\ UNCHANGED <<dev, radio_sleeping, just_woken, battery>>
    \/ /\ radio_sleeping
       /\ proto_update_battery
       /\ \/ low' /\ UNCHANGED <<dev, radio_sleeping, just_woken>>
          \/ /\ ~low'
             /\ radio_sleeping' = FALSE
             /\ just_woken' = TRUE
             /\ dev' = [dev EXCEPT !.active = TRUE]

(* time_event_poll: the early wakeup ... *)
PollEarly == /\ pc = "poll" /\ MainRuns
             /\ \/ /\ early <= 0
                   /\ early' = NextEarly({start, supervisor}, 1)
                   /\ proto_prepare
                \/ early > 0 /\ UNCHANGED <<early, dev, radio_sleeping, just_woken, battery>>
             /\ pc' = "events"
             /\ UNCHANGED <<irq, after, receive_after_transmit, callbacks, tag_active,
                            start, supervisor, since>>

(* ... tag_start ... *)
PollStart == /\ pc = "events" /\ MainRuns
             /\ \/ start <= 0 /\ start' = Never /\ pc' = "start" /\ after' = "supervisor"
                \/ start > 0 /\ pc' = "supervisor" /\ UNCHANGED <<start, after>>
             /\ UNCHANGED <<dev, irq, device, battery, supervisor, early, since>>

(* ... and tag_supervisor, which leaves an inactive radio alone. *)
PollSupervisor == /\ pc = "supervisor" /\ MainRuns
                  /\ \/ /\ supervisor <= 0
                        /\ supervisor' = Never
                        /\ pc' = IF dev.active THEN "shutdown" ELSE "cli"
                     \/ supervisor > 0 /\ pc' = "cli" /\ UNCHANGED supervisor
                  /\ after' = "cli"
                  /\ UNCHANGED <<dev, irq, device, battery, start, early, since>>

ShutdownRadioFirst ==
    /\ MainRuns
    /\ \/ pc = "shutdown" /\ dev' = radio_txrxoff(dev) /\ pc' = "off"
       \/ pc = "off" /\ dev' = timer_stop(dev) /\ pc' = "inactive"
       \/ pc = "inactive" /\ dev' = [dev EXCEPT !.active = FALSE] /\ pc' = after
    /\ UNCHANGED <<irq, after, device, battery, times>>

(* How tag_supervisor ends, and stop: an interrupt can come between. *)
Shutdown ==
    /\ MainRuns
    /\ \/ pc = "shutdown" /\ dev' = timer_stop(dev) /\ pc' = "off"
       \/ pc = "off" /\ dev' = radio_txrxoff(dev) /\ pc' = "inactive"
       \/ pc = "inactive" /\ dev' = [dev EXCEPT !.active = FALSE] /\ pc' = after
    /\ UNCHANGED <<irq, after, device, battery, times>>

(* tag_start up to the transmission: arm the next one, then see whether    *)
(* this one can be.                                                        *)
CannotStartWoken == radio_sleeping \/ dev.active

CannotStart == radio_sleeping \/ (dev.active /\ ~just_woken)

StartRefused == /\ pc = "start" /\ MainRuns
                /\ CannotStart
                /\ since' = 0
                /\ start' \in NextStart(0)
                /\ early' = EarlyAfterArming(start')
                /\ pc' = after
                /\ UNCHANGED <<dev, irq, after, device, battery, supervisor>>

StartFlat == /\ pc = "start" /\ MainRuns
             /\ ~CannotStart
             /\ proto_battery_flat
             /\ since' = 0
             /\ start' \in NextStart(0)
             /\ early' = EarlyAfterArming(start')
             /\ just_woken' = FALSE
             /\ tag_active' = TRUE
             /\ pc' = after
             /\ UNCHANGED <<dev, irq, after, radio_sleeping, receive_after_transmit,
                            callbacks, battery, supervisor>>

BlinkUnsupervised ==
         /\ pc = "start" /\ MainRuns
         /\ ~CannotStart
         /\ ~proto_battery_flat
         /\ since' = 0
         /\ start' \in NextStart(0)
         /\ early' = EarlyAfterArming(start')
         /\ just_woken' = FALSE
         /\ tag_active' = TRUE
         /\ receive_after_transmit' \in {max_anchors > 0, TRUE}
         /\ validity' = validity - 1
         /\ dev' \in radio_txstart([dev EXCEPT !.anchors = 0, !.responses = 0,
                                              !.active = TRUE], FALSE)
         /\ pc' = "sent"
         /\ UNCHANGED <<irq, after, radio_sleeping, callbacks, low, supervisor>>

Blink == /\ pc = "start" /\ MainRuns
         /\ ~CannotStart
         /\ ~proto_battery_flat
         /\ since' = 0
         /\ start' \in NextStart(0)
         /\ supervisor' = SUPERVISORY_TIMEOUT
         /\ early' = Min({early, start' - PROTO_PREPARETIME, supervisor' - PROTO_PREPARETIME})
         /\ just_woken' = FALSE
         /\ tag_active' = TRUE
         /\ receive_after_transmit' \in {max_anchors > 0, TRUE}
         /\ validity' = validity - 1
         /\ dev' \in radio_txstart([dev EXCEPT !.anchors = 0, !.responses = 0,
                                              !.active = TRUE], FALSE)
         /\ pc' = "sent"
         /\ UNCHANGED <<irq, after, radio_sleeping, callbacks, low>>

Sent == /\ pc = "sent" /\ MainRuns
        /\ pc' = after
        /\ UNCHANGED <<dev, irq, after, device, battery, times>>

tag_start == StartRefused \/ StartFlat \/ Blink \/ Sent

-----------------------------------------------------------------------------
(* Start-up and the command line.                                          *)

Init == /\ dev = [active |-> FALSE, anchors |-> 0, responses |-> 0, radio |-> "idle",
                  status |-> {}, pending |-> FALSE, timer |-> FALSE, overflow |-> FALSE]
        /\ isr = "off" /\ snapshot = {}
        /\ pc = "boot" /\ after = "poll"
        /\ radio_sleeping = FALSE /\ just_woken = FALSE /\ receive_after_transmit = FALSE
        /\ callbacks = FALSE /\ tag_active = FALSE
        /\ low = FALSE /\ validity = 0
        /\ start = Never /\ supervisor = Never /\ early = Never
        /\ since = 0

(* A tag that has no identity yet waits for commands. *)
proto_init == /\ pc = "boot"
              /\ proto_update_battery
              /\ \/ pc' = "tag"
                 \/ pc' = "poll"
              /\ UNCHANGED <<dev, irq, after, device, times>>

(* tag_with_period, up to its call of tag_start. *)
tag_with_period == /\ pc = "tag" /\ MainRuns
                   /\ proto_prepare
                   /\ callbacks' = TRUE
                   /\ receive_after_transmit' = (max_anchors > 0)
                   /\ pc' = "start"
                   /\ UNCHANGED <<irq, after, tag_active, times>>

(* stop, up to the shutdown. *)
stop == /\ callbacks' = FALSE
        /\ start' = Never
        /\ early' = EarlyAfterClearing(start, {supervisor})
        /\ tag_active' = FALSE
        /\ pc' = "shutdown"
        /\ after' = "proto"
        /\ UNCHANGED <<dev, radio_sleeping, just_woken, receive_after_transmit, battery,
                       supervisor, since>>

(* Commands that use the radio there and then. *)
proto_prepare_immediate ==
    /\ radio_sleeping
    /\ proto_update_battery
    /\ radio_sleeping' = low'
    /\ pc' = "proto"
    /\ UNCHANGED <<dev, just_woken, receive_after_transmit, callbacks, tag_active, times>>

cli_poll == /\ pc = "cli" /\ MainRuns
            /\ \/ pc' = "proto" /\ UNCHANGED <<dev, after, device, battery, times>>
               \/ /\ Console
                  /\ pc' = "tag" /\ after' = "proto"
                  /\ UNCHANGED <<dev, device, battery, times>>
               \/ Console /\ stop
               \/ Console /\ proto_prepare_immediate /\ UNCHANGED after
            /\ UNCHANGED irq

-----------------------------------------------------------------------------
(* proto_poll.                                                             *)

(* The tag has moved, or not. *)
PollMovement == /\ pc = "proto" /\ MainRuns
                /\ \/ /\ tag_active
                      /\ start' \in NextStart(since)
                      /\ early' = EarlyAfterArming(start')
                   \/ UNCHANGED <<start, early>>
                /\ pc' = "idle?"
                /\ UNCHANGED <<dev, irq, after, device, battery, supervisor, since>>

PollIdleUnchecked == /\ pc = "idle?" /\ MainRuns
                     /\ pc' = IF ~radio_sleeping THEN "doze" ELSE "turn"
                     /\ UNCHANGED <<dev, irq, after, device, battery, times>>

PollIdle == /\ pc = "idle?" /\ MainRuns
            /\ pc' = IF ~dev.active /\ ~radio_sleeping THEN "doze" ELSE "turn"
            /\ UNCHANGED <<dev, irq, after, device, battery, times>>

(* Nothing is going on: no supervisor, and sleep if there is time to.      *)
PollDoze == /\ pc = "doze" /\ MainRuns
            /\ supervisor' = Never
            /\ early' = EarlyAfterClearing(supervisor, {start})
            /\ \/ /\ start >= PROTO_PREPARETIME
                  /\ radio_sleeping' = TRUE
                  /\ dev' = [dev EXCEPT !.radio = "idle"]
               \/ /\ start < PROTO_PREPARETIME
                  /\ UNCHANGED <<radio_sleeping, dev>>
            /\ pc' = "turn"
            /\ UNCHANGED <<irq, after, just_woken, receive_after_transmit, callbacks,
                           tag_active, battery, start, since>>

proto_poll == PollMovement \/ PollIdle \/ PollDoze

(* The end of a turn; a tick may have passed. *)
Later(t) == IF t = Never THEN Never ELSE t - 1

Turn == /\ pc = "turn" /\ MainRuns
        /\ pc' = "poll"
        /\ \/ /\ start' = Later(start) /\ supervisor' = Later(supervisor)
              /\ early' = Later(early)
              /\ since' = Min({since + 1, LongestPeriod})
           \/ UNCHANGED times
        /\ UNCHANGED <<dev, irq, after, device, battery>>

-----------------------------------------------------------------------------
Main == \/ proto_init \/ tag_with_period \/ tag_start
        \/ PollEarly \/ PollStart \/ PollSupervisor \/ Shutdown
        \/ cli_poll \/ proto_poll \/ Turn

Next == Main \/ GPIO_ODD_IRQHandler \/ TIMER0_IRQHandler \/ Radio \/ Timer

(* Time passes, the processor executes, and frames and errors do not come   *)
(* so fast that the handlers take all its time.  The timer that ends the    *)
(* listening is restarted by every receive error; again and again there is  *)
(* a listening without one.                                                 *)
Fairness == /\ SF_vars(Main)
            /\ SF_vars(Turn /\ times' # times)
            /\ WF_vars(GPIO_ODD_IRQHandler)
            /\ WF_vars(TIMER0_IRQHandler)
            /\ SF_vars(Timer)
            /\ []<>MainRuns

Spec == Init /\ [][Next]_vars /\ Fairness
-----------------------------------------------------------------------------
(* The shape of the state. *)
TypeOK ==
    /\ dev \in [active : BOOLEAN, anchors : 0 .. max_anchors,
               responses : 0 .. Max({1, min_responses}), radio : {"idle", "tx", "rx"},
               status : SUBSET {"rxdone", "rxerror", "txdone"}, pending : BOOLEAN,
               timer : BOOLEAN, overflow : BOOLEAN]
    /\ isr \in {"off", "rxdone", "rxerror", "txdone"}
    /\ snapshot \subseteq {"rxdone", "rxerror", "txdone"}
    /\ pc \in {"boot", "poll", "events", "start", "sent", "supervisor", "shutdown", "off",
              "inactive", "cli", "tag", "proto", "idle?", "doze", "turn"}
    /\ after \in {"poll", "supervisor", "cli", "proto"}
    /\ {radio_sleeping, just_woken, receive_after_transmit, callbacks, tag_active, low}
         \subseteq BOOLEAN
    /\ validity \in 0 .. BATTERY_BLINKS_VALID + 1
    /\ {start, supervisor, early} \subseteq -2 .. LongestPeriod + SUPERVISORY_TIMEOUT \cup {Never}
    /\ since \in 0 .. LongestPeriod

(* While the radio is active there is something that ends it: the          *)
(* supervisor, the tag_start it was woken for, or the timer of a listening. *)
(* It is the interrupt handlers that make it active again and proto_poll   *)
(* that takes the supervisor away.                                         *)
ActiveIsWatched ==
    dev.active => \/ supervisor # Never
                  \/ just_woken /\ start # Never
                  \/ dev.timer \/ dev.overflow
                  \/ pc \in {"start", "shutdown", "off", "inactive"}

(* The comment at SUPERVISORY_TIMEOUT, "If the radio has remained active   *)
(* for over 100ms, we should assume something has gone horribly wrong and  *)
(* shut it down": an active radio that has been used has its supervisor.   *)
SupervisorArmed ==
    dev.active /\ ~just_woken =>
        supervisor # Never \/ pc \in {"start", "shutdown", "off", "inactive"}

(* The same comment: an active radio is shut down in the end. *)
RadioFreed == dev.active ~> ~dev.active

(* proto_poll puts the radio to sleep on the word of radio_active; a blink *)
(* that is being sent is never cut short by it, whatever the handlers did  *)
(* between its two looks at the state.                                     *)
SleepKeepsBlinks == [][~radio_sleeping /\ radio_sleeping' =>
                         ~(dev.radio = "tx" /\ dev.responses = 0)]_vars

(* After stop nothing is sent and nothing is about to be, even when the    *)
(* listening timer expires while stop runs.                                *)
StopStops == ~callbacks /\ pc \notin {"shutdown", "off", "inactive"} =>
                 /\ dev.radio = "idle" /\ ~dev.timer /\ ~dev.overflow
                 /\ start = Never

(* A tag that was started blinks again and again: a flat reading, an event *)
(* refused because the radio is asleep or active, a lost answer or an      *)
(* overrun never stop it for good, if the battery is not low for good.     *)
KeepsBlinking == <>[](~low) => [](pc = "tag" => []<>(pc = "sent"))
=============================================================================
