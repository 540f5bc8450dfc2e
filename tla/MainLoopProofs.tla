--------------------------- MODULE MainLoopProofs ---------------------------
(***************************************************************************)
(* Proofs about the main loop and the entropy source, for every limit of   *)
(* the health tests and of the generator.                                  *)
(***************************************************************************)
EXTENDS MainLoop, TLAPS

(* What is needed of types: a counter that is reset does not grow.         *)
CounterInv == drbg_samples \in Nat

(* A movement is remembered only while the tag is active.                  *)
MotionInv == /\ moved => tag_active
             /\ MotionNotLost

(* From time_prepare_sleep to the wake-up an active tag has an alarm: until *)
(* EMU_EnterEM2 it is too far ahead to ring, then ringing ends the sleep.  *)
AlarmInv == pc \in {"timer_sleep", "enter", "asleep"} /\ tag_active => alarm

(* The sample that is offered, or tested, is not in the generator yet.     *)
Offered   == entropy_available /\ pc # "available"
Tested    == pc \in {"adaptive", "update"}
SampleInv == Offered \/ Tested => ~mixed

-----------------------------------------------------------------------------
(* The accelerometer is never left awake or in standby without the main    *)
(* loop knowing it (accel.c:282-289 against accel_interrupt_handler).      *)
THEOREM MainLoopChipWatched == Spec => []ChipWatched
<1>1. Init => ChipWatched
  BY DEF Init, ChipWatched
<1>2. ChipWatched /\ [Next]_vars => ChipWatched'
  <2> SUFFICES ASSUME ChipWatched, [Next]_vars
               PROVE  ChipWatched'
    OBVIOUS
  <2>1. CASE accel_poll
    BY <2>1 DEF accel_poll, ChipWatched
  <2>2. CASE Standby
    BY <2>2 DEF Standby, Step, ChipWatched
  <2>3. CASE Sniff
    BY <2>3 DEF Sniff, ChipWatched
  <2>4. CASE accel_interrupt_handler
    BY <2>4 DEF accel_interrupt_handler, ChipWatched
  <2>5. CASE tag_start \/ tag_supervisor \/ NothingDue \/ cli_poll
             \/ ReadFired \/ ClearFired \/ Activate \/ entropy_poll
    BY <2>5 DEF tag_start, tag_supervisor, NothingDue, cli_poll, ReadFired, ClearFired,
                Activate, entropy_poll, Step, accel, ChipWatched
  <2>6. CASE cli_prepare_sleep \/ uart_prepare_sleep \/ time_prepare_sleep
             \/ timer_prepare_sleep \/ EMU_EnterEM2
    BY <2>6 DEF cli_prepare_sleep, uart_prepare_sleep, time_prepare_sleep,
                timer_prepare_sleep, EMU_EnterEM2, SleepTest, Step, accel, ChipWatched
  <2>7. CASE proto_txdone \/ proto_rxdone \/ TIMER0_IRQHandler
             \/ RTC_IRQHandler \/ LEUART0_IRQHandler \/ Quiet
    BY <2>7 DEF proto_txdone, proto_rxdone, TIMER0_IRQHandler, RTC_IRQHandler,
                LEUART0_IRQHandler, Quiet, Wake, accel, ChipWatched
  <2>8. CASE UNCHANGED vars
    BY <2>8 DEF vars, accel, ChipWatched
  <2> QED BY <2>1, <2>2, <2>3, <2>4, <2>5, <2>6, <2>7, <2>8 DEF Next, Loop, Handler
<1> QED BY <1>1, <1>2, PTL DEF Spec

(* No movement of an active tag is missed, also not one that comes between *)
(* the test of the flag, its clearing and its effect (accel.c:290-297,     *)
(* proto_poll).  MotionNotLost alone is not inductive: a stopped tag does  *)
(* not take notice of the flag.                                            *)
THEOREM MainLoopMotionNotLost == Spec => []MotionNotLost
<1>1. Init => MotionInv
  BY DEF Init, MotionInv, MotionNotLost
<1>2. MotionInv /\ [Next]_vars => MotionInv'
  <2> SUFFICES ASSUME MotionInv, [Next]_vars
               PROVE  MotionInv'
    OBVIOUS
  <2> USE DEF MotionInv, MotionNotLost
  <2>1. CASE ReadFired
    BY <2>1 DEF ReadFired, protocol, accel
  <2>2. CASE ClearFired
    BY <2>2 DEF ClearFired, Step, protocol
  <2>3. CASE Activate
    BY <2>3 DEF Activate, Step, accel
  <2>4. CASE cli_poll
    BY <2>4 DEF cli_poll, Step, protocol, accel
  <2>5. CASE accel_interrupt_handler
    BY <2>5 DEF accel_interrupt_handler, protocol
  <2>6. CASE Quiet
    BY <2>6 DEF Quiet, protocol
  <2>7. CASE tag_start \/ tag_supervisor \/ NothingDue
             \/ accel_poll \/ Standby \/ Sniff \/ entropy_poll
    BY <2>7 DEF tag_start, tag_supervisor, NothingDue, accel_poll, Standby, Sniff,
                entropy_poll, Step, protocol, accel
  <2>8. CASE cli_prepare_sleep \/ uart_prepare_sleep \/ time_prepare_sleep
             \/ timer_prepare_sleep \/ EMU_EnterEM2
    BY <2>8 DEF cli_prepare_sleep, uart_prepare_sleep, time_prepare_sleep,
                timer_prepare_sleep, EMU_EnterEM2, SleepTest, Step, protocol, accel
  <2>9. CASE proto_txdone \/ proto_rxdone \/ TIMER0_IRQHandler
             \/ RTC_IRQHandler \/ LEUART0_IRQHandler
    BY <2>9 DEF proto_txdone, proto_rxdone, TIMER0_IRQHandler, RTC_IRQHandler,
                LEUART0_IRQHandler, Wake, protocol, accel
  <2>10. CASE UNCHANGED vars
    BY <2>10 DEF vars, protocol, accel
  <2> QED BY <2>1, <2>2, <2>3, <2>4, <2>5, <2>6, <2>7, <2>8, <2>9, <2>10
             DEF Next, Loop, Handler
<1>3. MotionInv => MotionNotLost
  BY DEF MotionInv
<1> QED BY <1>1, <1>2, <1>3, PTL DEF Spec

(* An active tag never sleeps without an alarm on work that a handler left *)
(* behind the tests for a sleep (main.c:225-232, time.c).                  *)
THEOREM MainLoopSleepHasAlarm == Spec => []SleepHasAlarm
<1>1. Init => AlarmInv
  BY DEF Init, AlarmInv
<1>2. AlarmInv /\ [Next]_vars => AlarmInv'
  <2> SUFFICES ASSUME AlarmInv, [Next]_vars
               PROVE  AlarmInv'
    OBVIOUS
  <2> USE DEF AlarmInv
  <2>1. CASE time_prepare_sleep
    BY <2>1 DEF time_prepare_sleep, SleepTest, protocol
  <2>2. CASE cli_prepare_sleep \/ uart_prepare_sleep \/ timer_prepare_sleep \/ EMU_EnterEM2
    BY <2>2 DEF cli_prepare_sleep, uart_prepare_sleep, timer_prepare_sleep, EMU_EnterEM2,
                SleepTest, Step, protocol
  <2>3. CASE tag_start \/ tag_supervisor \/ NothingDue \/ cli_poll
             \/ ReadFired \/ ClearFired \/ Activate
    BY <2>3 DEF tag_start, tag_supervisor, NothingDue, cli_poll, ReadFired, ClearFired,
                Activate, Step
  <2>4. CASE accel_poll \/ Standby \/ Sniff \/ entropy_poll
    BY <2>4 DEF accel_poll, Standby, Sniff, entropy_poll, Step
  <2>5. CASE RTC_IRQHandler
    BY <2>5 DEF RTC_IRQHandler, Wake, protocol
  <2>6. CASE accel_interrupt_handler \/ proto_txdone \/ proto_rxdone
             \/ TIMER0_IRQHandler \/ LEUART0_IRQHandler \/ Quiet
    BY <2>6 DEF accel_interrupt_handler, proto_txdone, proto_rxdone, TIMER0_IRQHandler,
                LEUART0_IRQHandler, Quiet, Wake, protocol
  <2>7. CASE UNCHANGED vars
    BY <2>7 DEF vars, protocol
  <2> QED BY <2>1, <2>2, <2>3, <2>4, <2>5, <2>6, <2>7 DEF Next, Loop, Handler
<1>3. AlarmInv => SleepHasAlarm
  BY DEF AlarmInv, SleepHasAlarm
<1> QED BY <1>1, <1>2, <1>3, PTL DEF Spec

-----------------------------------------------------------------------------
(* What touches the samples: entropy_poll, and the handler that offers one. *)
LEMMA WhoTouchesSamples ==
    Next => entropy_poll \/ proto_txdone \/ UNCHANGED entropyVars
BY DEF Next, Loop, Handler, tag_start, tag_supervisor, NothingDue, cli_poll, ReadFired,
       ClearFired, Activate, accel_poll, Standby, Sniff, cli_prepare_sleep,
       uart_prepare_sleep, time_prepare_sleep, timer_prepare_sleep, EMU_EnterEM2, SleepTest,
       accel_interrupt_handler, proto_rxdone, TIMER0_IRQHandler, RTC_IRQHandler,
       LEUART0_IRQHandler, Quiet

(* Only drbg_update makes the generator's counter grow.                    *)
LEMMA TestsDoNotCount == ASSUME CounterInv, Next, pc # "update"
                         PROVE  drbg_samples' \in {0, drbg_samples}
<1> USE DEF TestFailed
<1>1. CASE entropy_poll
  BY <1>1 DEF entropy_poll, Step, entropy_repetition_test, entropy_adaptive_test, NewWindow,
              CountSample, ClearAvailable, entropyVars
<1>2. CASE proto_txdone
  BY <1>2 DEF proto_txdone, entropy_register
<1>3. CASE UNCHANGED entropyVars
  BY <1>3 DEF entropyVars
<1> QED BY <1>1, <1>2, <1>3, WhoTouchesSamples

LEMMA CounterStays == ASSUME CounterInv, Next PROVE CounterInv'
<1>1. CASE pc # "update"
  BY <1>1, TestsDoNotCount DEF CounterInv
<1>2. CASE pc = "update" /\ entropy_poll
  BY <1>2 DEF entropy_poll, Step, drbg_update, CounterInv
<1>3. CASE proto_txdone
  BY <1>3 DEF proto_txdone, entropy_register, CounterInv
<1>4. CASE UNCHANGED entropyVars
  BY <1>4 DEF entropyVars, CounterInv
<1> QED BY <1>1, <1>2, <1>3, <1>4, WhoTouchesSamples

(* SampleInv is what the order of entropy_poll gives: a sample is taken    *)
(* back only after it has been mixed in, and a new one is fresh.           *)
LEMMA SampleStays == ASSUME SampleInv, [Next]_vars PROVE SampleInv'
<1> USE DEF SampleInv, Offered, Tested
<1>1. CASE entropy_poll
  BY <1>1 DEF entropy_poll, Step, entropy_repetition_test, entropy_adaptive_test, NewWindow,
              CountSample, drbg_update, ClearAvailable, shared, entropyVars
<1>2. CASE proto_txdone
  BY <1>2 DEF proto_txdone, entropy_register
<1>3. CASE tag_start \/ tag_supervisor \/ NothingDue \/ cli_poll
           \/ ReadFired \/ ClearFired \/ Activate \/ accel_poll \/ Standby \/ Sniff
  BY <1>3 DEF tag_start, tag_supervisor, NothingDue, cli_poll, ReadFired, ClearFired, Activate,
              accel_poll, Standby, Sniff, Step, entropyVars, shared
<1>4. CASE cli_prepare_sleep \/ uart_prepare_sleep \/ time_prepare_sleep
           \/ timer_prepare_sleep \/ EMU_EnterEM2
  BY <1>4 DEF cli_prepare_sleep, uart_prepare_sleep, time_prepare_sleep, timer_prepare_sleep,
              EMU_EnterEM2, SleepTest, Step, entropyVars, shared
<1>5. CASE accel_interrupt_handler \/ proto_rxdone \/ TIMER0_IRQHandler
           \/ RTC_IRQHandler \/ LEUART0_IRQHandler \/ Quiet
  BY <1>5 DEF accel_interrupt_handler, proto_rxdone, TIMER0_IRQHandler, RTC_IRQHandler,
              LEUART0_IRQHandler, Quiet, Wake, entropyVars, shared
<1>6. CASE UNCHANGED vars
  BY <1>6 DEF vars, entropyVars, shared
<1> QED BY <1>1, <1>2, <1>3, <1>4, <1>5, <1>6 DEF Next, Loop, Handler

(* No sample is counted twice (entropy.c:112-124, entropy_register in the  *)
(* radio's handler), whatever the handler does between the four steps.     *)
THEOREM MainLoopNoSampleTwice == Spec => NoSampleTwice
<1>1. Init => CounterInv /\ SampleInv
  BY DEF Init, EntropyInit, CounterInv, SampleInv, Offered, Tested
<1>2. CounterInv /\ SampleInv /\ [Next]_vars => (CounterInv /\ SampleInv)'
  <2> SUFFICES ASSUME CounterInv, SampleInv, [Next]_vars
               PROVE  CounterInv' /\ SampleInv'
    OBVIOUS
  <2>1. CASE Next
    BY <2>1, CounterStays, SampleStays
  <2>2. CASE UNCHANGED vars
    BY <2>2, SampleStays DEF vars, entropyVars, CounterInv
  <2> QED BY <2>1, <2>2
<1>3. CounterInv /\ SampleInv /\ [Next]_vars
        => [~(mixed /\ drbg_samples' > drbg_samples)]_entropyVars
  <2> SUFFICES ASSUME CounterInv, SampleInv, [Next]_vars, mixed
               PROVE  ~(drbg_samples' > drbg_samples)
    OBVIOUS
  <2>1. pc # "update"
    BY DEF SampleInv, Tested
  <2>2. drbg_samples' \in {0, drbg_samples}
    BY <2>1, TestsDoNotCount DEF vars, entropyVars
  <2> QED BY <2>2 DEF CounterInv
<1> QED BY <1>1, <1>2, <1>3, PTL DEF Spec, NoSampleTwice

-----------------------------------------------------------------------------
(* The counter of repetitions wraps.                                       *)
LEMMA NextRepetition ==
    ASSUME NEW r \in 0 .. RepetitionValues - 1
    PROVE  (r + 1) % RepetitionValues = IF r + 1 = RepetitionValues THEN 0 ELSE r + 1
BY EntropyAssumption, SMT

(* A source that has been stuck for run samples: what the tests let through *)
(* is taken back at each repetition past the limit, so the counter of      *)
(* samples follows the counter of repetitions from one wrap to the next.   *)
Mixing   == IF Tested THEN 0 ELSE 1
StuckInv ==
  /\ repetitions \in 0 .. RepetitionValues - 1 /\ run \in 0 .. ENTROPY_MAX_REPETITIONS
  /\ drbg_samples \in Nat
  /\ run < ENTROPY_MAX_REPETITIONS => repetitions \in {run, run + 1}
  /\ repetitions >= ENTROPY_MAX_REPETITIONS => drbg_samples <= Mixing
  /\ run = ENTROPY_MAX_REPETITIONS /\ repetitions < ENTROPY_MAX_REPETITIONS
       => drbg_samples <= repetitions + 1 + Mixing

(* The repetition test, with the remainder resolved.                       *)
LEMMA RepetitionTest ==
    ASSUME StuckInv, pc = "entropy", entropy_repetition_test, pc' = "adaptive"
    PROVE  StuckInv'
<1> DEFINE R == RepetitionValues
           M == ENTROPY_MAX_REPETITIONS
<1>1. /\ R \in Nat /\ M \in Nat /\ 1 < M /\ M < R
  BY EntropyAssumption
<1>2. /\ repetitions \in 0 .. R - 1 /\ run \in 0 .. M /\ drbg_samples \in Nat
      /\ run < M => repetitions \in {run, run + 1}
      /\ repetitions >= M => drbg_samples <= 1
      /\ run = M /\ repetitions < M => drbg_samples <= repetitions + 2
  BY DEF StuckInv, Mixing, Tested
<1>3. drbg_samples' = IF repetitions' >= M THEN 0 ELSE drbg_samples
  BY DEF entropy_repetition_test, TestFailed, Repeats
<1>4. Mixing' = 0
  BY DEF Mixing, Tested
<1>5. CASE previous # entropy_sample
  <2>1. repetitions' = 1 /\ run' = 1
    BY <1>5 DEF entropy_repetition_test
  <2> QED BY <1>1, <1>2, <1>3, <1>4, <2>1 DEF StuckInv
<1>6. CASE previous = entropy_sample
  <2>1. repetitions' = IF repetitions + 1 = R THEN 0 ELSE repetitions + 1
    BY <1>2, <1>6, NextRepetition DEF entropy_repetition_test
  <2>2. run' = IF run = 0 THEN 1 ELSE IF run < M THEN run + 1 ELSE run
    BY <1>6 DEF entropy_repetition_test
  <2> QED BY <1>1, <1>2, <1>3, <1>4, <2>1, <2>2 DEF StuckInv
<1> QED BY <1>5, <1>6

(* A step that moves neither counter and does not enter or leave the tests. *)
LEMMA StuckStutter ==
    ASSUME StuckInv, UNCHANGED <<repetition, drbg_samples>>, Tested' <=> Tested
    PROVE  StuckInv'
BY DEF StuckInv, Mixing, repetition

(* A stuck source does not make the generator ready (entropy.c:80-93),     *)
(* although entropy_repetitions wraps and passes below the limit again.    *)
THEOREM MainLoopStuckNeverReady == Spec => []StuckNeverReady
<1>1. Init => StuckInv
  BY EntropyAssumption DEF Init, EntropyInit, StuckInv, Mixing, Tested
<1>2. StuckInv /\ [Next]_vars => StuckInv'
  <2> SUFFICES ASSUME StuckInv, [Next]_vars
               PROVE  StuckInv'
    OBVIOUS
  <2>1. CASE pc = "entropy" /\ entropy_poll
    <3>1. CASE entropy_available
      BY <2>1, <3>1, RepetitionTest DEF entropy_poll, Step
    <3>2. CASE ~entropy_available
      BY <2>1, <3>2, StuckStutter DEF entropy_poll, Step, Tested, entropyVars
    <3> QED BY <3>1, <3>2
  <2>2. CASE pc = "adaptive" /\ entropy_poll
    <3>1. entropy_adaptive_test /\ Tested /\ Tested'
      BY <2>2 DEF entropy_poll, Step, Tested
    <3>2. UNCHANGED repetition /\ drbg_samples' \in {0, drbg_samples}
      BY <3>1 DEF entropy_adaptive_test, NewWindow, CountSample, TestFailed
    <3> QED BY <3>1, <3>2, EntropyAssumption DEF StuckInv, Mixing, repetition
  <2>3. CASE pc = "update" /\ entropy_poll
    <3>1. drbg_update /\ Tested /\ ~Tested'
      BY <2>3 DEF entropy_poll, Step, Tested
    <3>2. UNCHANGED repetition /\ drbg_samples' \in {drbg_samples, drbg_samples + 1}
      BY <3>1 DEF drbg_update
    <3> QED BY <3>1, <3>2, EntropyAssumption DEF StuckInv, Mixing, repetition
  <2>4. CASE pc = "available" /\ entropy_poll
    BY <2>4, StuckStutter DEF entropy_poll, Step, Tested, ClearAvailable
  <2>5. CASE proto_txdone
    BY <2>5, StuckStutter DEF proto_txdone, Wake, Tested, entropy_register
  <2>6. CASE UNCHANGED vars
    BY <2>6, StuckStutter DEF vars, Tested, entropyVars
  <2>7. CASE Next /\ ~entropy_poll /\ ~proto_txdone
    <3>1. UNCHANGED <<repetition, drbg_samples>>
      BY <2>7, WhoTouchesSamples DEF entropyVars
    <3>2. CASE Loop
      <4>1. pc \notin {"adaptive", "update"} /\ pc' \notin {"adaptive", "update"}
        BY <2>7, <3>2 DEF Loop, tag_start, tag_supervisor, NothingDue, cli_poll, ReadFired, ClearFired,
             Activate, accel_poll, Standby, Sniff, cli_prepare_sleep, uart_prepare_sleep,
             time_prepare_sleep, timer_prepare_sleep, EMU_EnterEM2, SleepTest, Step
      <4>2. Tested' <=> Tested
        BY <4>1 DEF Tested
      <4> QED BY <3>1, <4>2, StuckStutter
    <3>3. CASE Handler
      <4>1. pc' = pc \/ (pc = "asleep" /\ pc' = "time")
        BY <2>7, <3>3 DEF Handler, accel_interrupt_handler, proto_rxdone, TIMER0_IRQHandler,
             RTC_IRQHandler, LEUART0_IRQHandler, Quiet, Wake
      <4>2. Tested' <=> Tested
        BY <4>1 DEF Tested
      <4> QED BY <3>1, <4>2, StuckStutter
    <3> QED BY <2>7, <3>2, <3>3 DEF Next
  <2>8. entropy_poll => pc \in {"entropy", "adaptive", "update", "available"}
    BY DEF entropy_poll, Step
  <2> QED BY <2>1, <2>2, <2>3, <2>4, <2>5, <2>6, <2>7, <2>8
<1>3. StuckInv => StuckNeverReady
  BY EntropyAssumption DEF StuckInv, StuckNeverReady, Mixing
<1> QED BY <1>1, <1>2, <1>3, PTL DEF Spec
=============================================================================
