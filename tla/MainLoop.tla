------------------------------ MODULE MainLoop ------------------------------
(***************************************************************************)
(* The endless loop of firmware/src/main.c: what it polls, what the        *)
(* interrupt handlers leave for it (accel.c, entropy.c) and its decision   *)
(* to sleep.                                                               *)
(*                                                                         *)
(* A handler runs between any two steps; all have one priority.  In EM2    *)
(* the processor stops, and TIMER0 with it; any handler resumes the loop   *)
(* after EMU_EnterEM2.  Times are left out: an event is due or not.  The   *)
(* protocol (Tag), its events (TimeEvents) and the console (Uart) appear   *)
(* by what keeps the processor awake or wakes it.                          *)
(***************************************************************************)
EXTENDS Entropy

VARIABLES
  pc,
  accel_present,
  chip,           \* the accelerometer: "sniff", "awake" since it moved, "standby"
  needs_restart, fired,       \* accel_needs_restart, accel_interrupt_fired_state
  quiet,          \* accel_last_activity is more than transition_time ago
  tag_active, idle,           \* tag_data.active, tag_data.idle
  radio,          \* "off", "tx" or "rx"
  running,        \* of timer.c: TIMER0 counts (while the processor does not sleep)
  console,        \* "quiet", "printing" (tx_active of uart.c) or "pending"
                  \* (cli_pending of cli.c)
  alarm,          \* RTC_CompareSet for an event ahead
  moved           \* history: a movement that has not made the tag active

accel    == <<chip, needs_restart, fired, quiet>>
protocol == <<tag_active, idle, radio, running>>
vars     == <<pc, accel_present, accel, protocol, console, alarm, moved, entropyVars>>

Init == /\ pc = "time"
        /\ accel_present \in BOOLEAN
        /\ chip = "sniff" /\ needs_restart = FALSE /\ fired = FALSE /\ quiet \in BOOLEAN
        /\ tag_active = TRUE /\ idle = FALSE /\ radio = "off" /\ running = FALSE
        /\ console = "quiet"
        /\ alarm = FALSE /\ moved = FALSE
        /\ EntropyInit

Step(from, to) == pc = from /\ pc' = to
Wake == pc' = IF pc = "asleep" THEN "time" ELSE pc

-----------------------------------------------------------------------------
(* tag_set_event: idle once there was no movement for transition_time.     *)
tag_set_event(was) == idle' = (was \/ quiet)

(* time_event_poll: tag_start if it is due, tag_supervisor if the radio    *)
(* has been at it for too long.                                            *)
tag_start == /\ Step("time", "cli")
             /\ tag_active
             /\ tag_set_event(idle)
             /\ radio' \in IF radio = "off" THEN {"off", "tx"} ELSE {radio}
             /\ UNCHANGED <<accel, tag_active, running, console, alarm, moved, entropyVars>>

tag_supervisor == /\ Step("time", "cli")
                  /\ radio # "off"
                  /\ radio' = "off" /\ running' = FALSE
                  /\ UNCHANGED <<accel, tag_active, idle, console, alarm, moved, entropyVars>>

NothingDue == /\ Step("time", "cli")
              /\ UNCHANGED <<accel, protocol, console, alarm, moved, entropyVars>>

(* cli_poll: a command that prints and may wait, or one that stops or      *)
(* starts the tag.                                                         *)
cli_poll == /\ Step("cli", "proto")
            /\ \/ /\ console' \in {"quiet", "printing", "pending"}
                  /\ UNCHANGED <<protocol, moved>>
               \/ /\ tag_active' = FALSE /\ radio' = "off" /\ running' = FALSE
                  /\ moved' = FALSE
                  /\ UNCHANGED <<idle, console>>
               \/ /\ tag_active' = TRUE /\ tag_set_event(idle)
                  /\ UNCHANGED <<radio, running, console, moved>>
            /\ UNCHANGED <<accel, alarm, entropyVars>>

(* proto_poll: accel_interrupt_fired reads, then clears; a movement makes  *)
(* the tag active.                                                         *)
ReadFired == /\ pc = "proto"
             /\ pc' = IF fired THEN "clear" ELSE "accel"
             /\ UNCHANGED <<accel, protocol, console, alarm, moved, entropyVars>>

ClearFired == /\ Step("clear", "active")
              /\ fired' = FALSE
              /\ UNCHANGED <<chip, needs_restart, quiet, protocol, console, alarm, moved, entropyVars>>

Activate == /\ Step("active", "accel")
            /\ IF tag_active THEN tag_set_event(FALSE) /\ moved' = FALSE ELSE UNCHANGED <<idle, moved>>
            /\ UNCHANGED <<accel, tag_active, radio, running, console, alarm, entropyVars>>

(* accel_poll: the flag, then STANDBY, then SNIFF.  Mutant: both flags.    *)
PollClearsBoth == /\ pc = "accel"
                  /\ pc' = IF needs_restart THEN "standby" ELSE "entropy"
                  /\ needs_restart' = FALSE /\ fired' = FALSE
                  /\ UNCHANGED <<chip, quiet, protocol, console, alarm, moved, entropyVars>>

accel_poll == /\ pc = "accel"
              /\ pc' = IF needs_restart THEN "standby" ELSE "entropy"
              /\ needs_restart' = FALSE
              /\ UNCHANGED <<chip, fired, quiet, protocol, console, alarm, moved, entropyVars>>

Standby == /\ Step("standby", "sniff")
           /\ chip' = "standby"
           /\ UNCHANGED <<needs_restart, fired, quiet, protocol, console, alarm, moved, entropyVars>>

(* Mutant: the flag is cleared after the restart; a movement comes between. *)
SniffAndClear ==
  /\ Step("sniff", "entropy")
  /\ chip' \in {"sniff", "awake"} /\ needs_restart' = FALSE
  /\ fired' = (fired \/ chip' = "awake")
  /\ UNCHANGED <<quiet, protocol, console, alarm, moved, entropyVars>>

Sniff == /\ Step("sniff", "entropy")
         /\ chip' = "sniff"
         /\ UNCHANGED <<needs_restart, fired, quiet, protocol, console, alarm, moved, entropyVars>>

(* Mutant: "available" is cleared first.                                   *)
PollClearsFirst ==
  /\ \/ /\ pc = "entropy"
        /\ IF entropy_available THEN pc' = "available" /\ ClearAvailable
                                ELSE pc' = "cli_sleep" /\ UNCHANGED entropyVars
     \/ Step("available", "adaptive") /\ entropy_repetition_test
     \/ Step("adaptive", "update")    /\ entropy_adaptive_test
     \/ Step("update", "cli_sleep")   /\ drbg_update
  /\ UNCHANGED <<accel, protocol, console, alarm, moved>>

(* entropy_poll: "available" is cleared last.                              *)
entropy_poll ==
  /\ \/ /\ pc = "entropy"
        /\ IF entropy_available THEN pc' = "adaptive" /\ entropy_repetition_test
                                ELSE pc' = "cli_sleep" /\ UNCHANGED entropyVars
     \/ Step("adaptive", "update")     /\ entropy_adaptive_test
     \/ Step("update", "available")    /\ drbg_update
     \/ Step("available", "cli_sleep") /\ ClearAvailable
  /\ UNCHANGED <<accel, protocol, console, alarm, moved>>

(* The loop goes to sleep if nobody objects, in this order.                *)
SleepTest(from, awake, to) ==
  /\ pc = from
  /\ pc' = IF awake THEN "time" ELSE to
  /\ UNCHANGED <<accel, protocol, console, moved, entropyVars>>

cli_prepare_sleep  == SleepTest("cli_sleep", console = "pending", "uart_sleep") /\ UNCHANGED alarm
uart_prepare_sleep == SleepTest("uart_sleep", console = "printing", "time_sleep") /\ UNCHANGED alarm

(* Mutant: the compare register is left as it is.                          *)
PrepareNoAlarm == /\ \E soon \in BOOLEAN : /\ soon => tag_active
                                           /\ SleepTest("time_sleep", soon, "timer_sleep")
                  /\ alarm' = alarm

(* With no event ahead it does not set the alarm ("No plans to wake up").  *)
time_prepare_sleep == /\ \E soon \in BOOLEAN : /\ soon => tag_active
                                               /\ SleepTest("time_sleep", soon, "timer_sleep")
                      /\ alarm' = tag_active

timer_prepare_sleep == SleepTest("timer_sleep", running, "enter") /\ UNCHANGED alarm

EMU_EnterEM2 == /\ Step("enter", "asleep")
                /\ UNCHANGED <<accel, protocol, console, alarm, moved, entropyVars>>

-----------------------------------------------------------------------------
(* Interrupt handlers.  The accelerometer raises its line when it leaves   *)
(* sniff mode because of a movement.                                       *)
accel_interrupt_handler ==
  /\ accel_present /\ chip = "sniff"
  /\ chip' = "awake" /\ needs_restart' = TRUE /\ fired' = TRUE
  /\ quiet' = FALSE
  /\ moved' = tag_active
  /\ Wake
  /\ UNCHANGED <<protocol, console, alarm, entropyVars>>

(* Bound: the samples vary on a tag without accelerometer.                 *)
BoundedSample == accel_present => entropy_sample' = entropy_sample

(* proto_txdone registers a sample, then the radio listens, for as long as *)
(* the timer says, or is done.                                             *)
proto_txdone == /\ radio = "tx"
                /\ entropy_register /\ BoundedSample
                /\ radio' \in {"rx", "off"}
                /\ running' = (radio' = "rx")
                /\ Wake
                /\ UNCHANGED <<accel, tag_active, idle, console, alarm, moved>>

(* A response to what was received, or the end of the window; the timer    *)
(* only ends it while the processor is awake.                              *)
proto_rxdone == /\ radio = "rx"
                /\ radio' \in {"tx", "rx", "off"}
                /\ running' = (radio' = "rx" /\ running)
                /\ Wake
                /\ UNCHANGED <<accel, tag_active, idle, console, alarm, moved, entropyVars>>

TIMER0_IRQHandler == /\ running /\ pc # "asleep"
                     /\ radio' = "off" /\ running' = FALSE
                     /\ UNCHANGED <<pc, accel, tag_active, idle, console, alarm, moved, entropyVars>>

(* The alarm is at least TIME_SLEEP_THRESHOLD ahead: it does not ring      *)
(* before the processor sleeps.  Without one the counter comes round to    *)
(* the old value of the compare register.                                  *)
RTC_IRQHandler == /\ pc \notin {"timer_sleep", "enter"}
                  /\ alarm \/ pc = "asleep"
                  /\ alarm' = FALSE
                  /\ Wake
                  /\ UNCHANGED <<accel, protocol, console, moved, entropyVars>>

LEUART0_IRQHandler == /\ console = "printing"
                      /\ console' \in {"printing", "quiet"}
                      /\ Wake
                      /\ UNCHANGED <<accel, protocol, alarm, moved, entropyVars>>

(* transition_time passes without a movement.                              *)
Quiet == /\ ~quiet /\ quiet' = TRUE
         /\ moved' = FALSE
         /\ UNCHANGED <<pc, chip, needs_restart, fired, protocol, console, alarm, entropyVars>>

Loop == \/ tag_start \/ tag_supervisor \/ NothingDue \/ cli_poll
        \/ ReadFired \/ ClearFired \/ Activate
        \/ accel_poll \/ Standby \/ Sniff
        \/ entropy_poll
        \/ cli_prepare_sleep \/ uart_prepare_sleep \/ time_prepare_sleep
        \/ timer_prepare_sleep \/ EMU_EnterEM2
Handler == \/ accel_interrupt_handler \/ proto_txdone \/ proto_rxdone
           \/ TIMER0_IRQHandler \/ RTC_IRQHandler \/ LEUART0_IRQHandler
           \/ Quiet
Next == (Loop \/ Handler) /\ UNCHANGED accel_present

Spec == Init /\ [][Next]_vars

-----------------------------------------------------------------------------
TypeOK == /\ chip \in {"sniff", "awake", "standby"}
          /\ radio \in {"off", "tx", "rx"} /\ console \in {"quiet", "printing", "pending"}
          /\ {needs_restart, fired, quiet, tag_active, idle, running, alarm,
              moved} \subseteq BOOLEAN
          /\ EntropyTypeOK

(* A handler may run after the poll that looks for its flag and before the *)
(* processor sleeps: then its work waits, and TIMER0 stands still.  A tag  *)
(* never sleeps on such work without an event to wake it.                  *)
LeftWork      == needs_restart \/ fired \/ entropy_available \/ running
SleepHasAlarm == pc = "asleep" /\ LeftWork /\ tag_active => alarm

(* The accelerometer is in sniff mode, where it notices movements, or the  *)
(* main loop knows that it has to be put there.                            *)
ChipWatched == chip = "sniff" \/ needs_restart \/ pc \in {"standby", "sniff"}

(* A movement makes the tag active, also when it comes while an earlier    *)
(* one is handled.                                                         *)
MotionNotLost == moved => fired \/ pc = "active"
=============================================================================
