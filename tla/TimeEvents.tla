----------------------------- MODULE TimeEvents -----------------------------
(***************************************************************************)
(* The scheduler of the tag firmware, firmware/src/time.c, and the part of *)
(* the main loop (main.c) that sleeps until the next event.                *)
(*                                                                         *)
(* Time is a counter that wraps (24 bits in the code, Modulus values here) *)
(* and that ticks between any two steps of the main loop.  An event is     *)
(* armed for a time; the early wakeup function (proto_prepare, which wakes *)
(* the radio) is to run `early_wakeup_advance' before each.  No interrupt  *)
(* handler touches this state, so the calls the rest of the main loop      *)
(* makes are atomic but for the ticks between them.                        *)
(*                                                                         *)
(* The history variable `due' holds what the wrapping times stand for: the *)
(* true number of ticks until an event.                                    *)
(***************************************************************************)
EXTENDS Integers, FiniteSets, FiniteSetsExt

CONSTANTS TIME_EVENTS,           \* how many events there are
          Modulus,               \* values of the counter: 2^24 in the code
          early_wakeup_advance,
          TIME_SLEEP_THRESHOLD,  \* no sleep when the next event is nearer
          MaxDelay,              \* bound: how far ahead callers arm an event
          MaxLag                 \* bound: ticks between two polls while awake

Half   == Modulus \div 2
Events == 1 .. TIME_EVENTS

(* Callers stay within the half range the comparisons can tell apart, the  *)
(* main loop turns faster than the 100 ms of TIME_SLEEP_THRESHOLD, and the *)
(* early wakeup comes before the event (PROTO_PREPARETIME, proto.c).       *)
ASSUME TimeAssumption ==
    /\ TIME_EVENTS \in Nat \ {0}
    /\ Modulus \in Nat \ {0} /\ Modulus % 2 = 0
    /\ {early_wakeup_advance, TIME_SLEEP_THRESHOLD, MaxDelay, MaxLag} \subseteq Nat
    /\ early_wakeup_advance > 0
    /\ MaxDelay + early_wakeup_advance + 2 * MaxLag < Half
    /\ MaxLag < TIME_SLEEP_THRESHOLD

Times        == 0 .. Modulus - 1
TIME_INVALID == -1       \* 0xffffffff: it has the same residue
TIME_VALID(t) == t \in Times

VARIABLES counter,            \* the RTC
          time_event_time,
          early_wakeup_time,
          compare,            \* the RTC's compare register
          pc,                 \* where the main loop is
          now,                \* local of time_event_poll: the time it read
          index,              \* its loop
          lag,                \* ticks since the last poll began, while awake
          due,                \* history: ticks until an armed event (0 when not)
          waiting,            \* history: armed at least `early_wakeup_advance'
                              \* ahead, and the early wakeup has not come
          stale               \* history: see RecentEarlyWakeup

vars == <<counter, time_event_time, early_wakeup_time, compare, pc, now, index,
          lag, due, waiting, stale>>

-----------------------------------------------------------------------------
time_ge(a, b)  == (a - b) % Modulus < Half

time_add(a, b) == (a + b) % Modulus
time_sub(a, b) == (a - b) % Modulus

Armed(times) == {e \in Events : TIME_VALID(times[e])}
Early(t)     == time_sub(t, early_wakeup_advance)

time_early_wakeup_set_nextLatest(times, from) ==
    LET early == {t \in {Early(times[e]) : e \in Armed(times)} : time_ge(t, from)}
    IN  IF early = {} THEN TIME_INVALID
        ELSE CHOOSE t \in early : \A u \in early : time_ge(t, u)

(* The first early wakeup no earlier than `from'. *)
time_early_wakeup_set_next(times, from) ==
    LET early == {t \in {Early(times[e]) : e \in Armed(times)} : time_ge(t, from)}
    IN  IF early = {} THEN TIME_INVALID
        ELSE CHOOSE t \in early : \A u \in early : time_ge(u, t)

Init == /\ counter \in Times
        /\ time_event_time = [e \in Events |-> TIME_INVALID]
        /\ early_wakeup_time = TIME_INVALID
        /\ compare = 0
        /\ pc = "body"
        /\ now = counter
        /\ index = 1
        /\ lag = 0
        /\ due = [e \in Events |-> 0]
        /\ waiting = [e \in Events |-> FALSE]
        /\ stale = FALSE

-----------------------------------------------------------------------------
(* Calls: by an event's function during the poll, or by the rest of the    *)
(* main loop.  The times are computed from a `time_now' read since the     *)
(* poll began.                                                             *)
Calling == pc \in {"callback", "body"}

time_event_schedule_at(e, lead) ==
    LET time  == time_add(counter, lead)
    IN  /\ Calling
        /\ lead >= -lag
        /\ time_event_time' = [time_event_time EXCEPT ![e] = time]
        /\ early_wakeup_time' =
             IF TIME_VALID(early_wakeup_time) /\ ~time_ge(early_wakeup_time, Early(time))
             THEN early_wakeup_time ELSE Early(time)
        /\ due' = [due EXCEPT ![e] = lead]
        /\ waiting' = [waiting EXCEPT ![e] = lead >= early_wakeup_advance]
        /\ UNCHANGED <<counter, compare, pc, now, index, lag>>

(* The same function with TIME_INVALID. *)
time_event_clear(e) ==
    /\ Calling
    /\ time_event_time' = [time_event_time EXCEPT ![e] = TIME_INVALID]
    /\ early_wakeup_time' =
         IF time_add(early_wakeup_time, early_wakeup_advance) = time_event_time[e]
         THEN time_early_wakeup_set_next(time_event_time', early_wakeup_time)
         ELSE early_wakeup_time
    /\ due' = [due EXCEPT ![e] = 0]
    /\ waiting' = [waiting EXCEPT ![e] = FALSE]
    /\ UNCHANGED <<counter, compare, pc, now, index, lag>>

-----------------------------------------------------------------------------
(* time_event_poll.                                                        *)

EarlyDue == TIME_VALID(early_wakeup_time) /\ time_ge(counter, early_wakeup_time)

PollBegin == /\ pc = "poll"
             /\ now' = counter
             /\ \/ /\ EarlyDue
                   /\ early_wakeup_time' =
                        time_early_wakeup_set_next(time_event_time, counter + 1)
                   /\ waiting' = [e \in Events |->
                                    waiting[e] /\ due[e] > early_wakeup_advance]
                \/ ~EarlyDue /\ UNCHANGED <<early_wakeup_time, waiting>>
             /\ index' = 1
             /\ lag' = 0
             /\ pc' = "events"
             /\ UNCHANGED <<counter, time_event_time, compare, due>>

FireUnwrapped(e) == TIME_VALID(time_event_time[e]) /\ now >= time_event_time[e]

(* The time has come for event e, by the time the poll began. *)
Fire(e) == TIME_VALID(time_event_time[e]) /\ time_ge(now, time_event_time[e])

PollEvent == /\ pc = "events"
             /\ index \in Events
             /\ \/ /\ Fire(index)
                   /\ time_event_time' = [time_event_time EXCEPT ![index] = TIME_INVALID]
                   /\ due' = [due EXCEPT ![index] = 0]
                   /\ waiting' = [waiting EXCEPT ![index] = FALSE]
                   /\ pc' = "callback"
                \/ /\ ~Fire(index)
                   /\ UNCHANGED <<time_event_time, due, waiting, pc>>
             /\ index' = index + 1
             /\ UNCHANGED <<counter, early_wakeup_time, compare, now, lag>>

CallbackReturn == /\ pc = "callback"
                  /\ pc' = "events"
                  /\ UNCHANGED <<counter, time_event_time, early_wakeup_time, compare,
                                 now, index, lag, due, waiting>>

PollEnd == /\ pc = "events"
           /\ index \notin Events
           /\ pc' = "body"
           /\ UNCHANGED <<counter, time_event_time, early_wakeup_time, compare,
                          now, index, lag, due, waiting>>

-----------------------------------------------------------------------------
(* time_prepare_sleep and the sleep itself.                                *)

Overdue  == \E e \in Armed(time_event_time) : time_ge(counter, time_event_time[e])
Deltas   == {time_sub(time_event_time[e], counter) : e \in Armed(time_event_time)}

(* time_to_next_event_and_wake, its result and its wake time. *)
Remaining == IF Overdue THEN 0 ELSE Min(Deltas)
WakeTime  == time_add(counter, Remaining)

SleepUntilEvent == <<Remaining, WakeTime>>

(* How long it sleeps, and until when: the next event, or the early wakeup *)
(* if that comes first.                                                    *)
SleepUntil == IF TIME_VALID(early_wakeup_time) /\ time_ge(WakeTime, early_wakeup_time)
              THEN IF time_ge(counter, early_wakeup_time) THEN <<0, counter>>
                   ELSE <<time_sub(early_wakeup_time, counter), early_wakeup_time>>
              ELSE <<Remaining, WakeTime>>

time_prepare_sleepNoThreshold ==
    /\ pc = "body"
    /\ Armed(time_event_time) # {}
    /\ SleepUntil[1] > 0
    /\ compare' = SleepUntil[2]
    /\ pc' = "enter"
    /\ UNCHANGED <<counter, time_event_time, early_wakeup_time, now, index, lag, due, waiting>>

time_prepare_sleep ==
    /\ pc = "body"
    /\ \/ /\ Armed(time_event_time) = {}
          /\ pc' = "enter"
          /\ UNCHANGED compare
       \/ /\ Armed(time_event_time) # {}
          /\ SleepUntil[1] < TIME_SLEEP_THRESHOLD
          /\ pc' = "poll"
          /\ UNCHANGED compare
       \/ /\ Armed(time_event_time) # {}
          /\ SleepUntil[1] >= TIME_SLEEP_THRESHOLD
          /\ compare' = SleepUntil[2]
          /\ pc' = "enter"
    /\ UNCHANGED <<counter, time_event_time, early_wakeup_time, now, index, lag, due, waiting>>

(* Something else keeps the processor awake. *)
Continue == /\ pc \in {"body", "enter"}
            /\ pc' = "poll"
            /\ UNCHANGED <<counter, time_event_time, early_wakeup_time, compare,
                           now, index, lag, due, waiting>>

EMU_EnterEM2 == /\ pc = "enter"
                /\ pc' = "asleep"
                /\ UNCHANGED <<counter, time_event_time, early_wakeup_time, compare,
                               now, index, lag, due, waiting>>

(* Another interrupt: the serial line, the accelerometer. *)
Wake == /\ pc = "asleep"
        /\ pc' = "poll"
        /\ lag' = 0
        /\ UNCHANGED <<counter, time_event_time, early_wakeup_time, compare,
                       now, index, due, waiting>>

-----------------------------------------------------------------------------
(* The counter advances.  The compare interrupt ends a sleep; the handler  *)
(* clears it, so before the sleep it has no effect.                        *)
Tick == /\ pc = "asleep" \/ lag < MaxLag
        /\ counter' = time_add(counter, 1)
        /\ due' = [e \in Events |-> IF TIME_VALID(time_event_time[e]) THEN due[e] - 1 ELSE 0]
        /\ \/ pc = "asleep" /\ counter' = compare /\ pc' = "poll" /\ lag' = 0
           \/ pc = "asleep" /\ counter' # compare /\ UNCHANGED <<pc, lag>>
           \/ pc # "asleep" /\ lag' = lag + 1 /\ UNCHANGED pc
        /\ UNCHANGED <<time_event_time, early_wakeup_time, compare, now, index, waiting>>

Next == \/ \E e \in Events, lead \in -MaxLag .. MaxDelay : time_event_schedule_at(e, lead)
        \/ \E e \in Events : time_event_clear(e)
        \/ PollBegin \/ PollEvent \/ CallbackReturn \/ PollEnd
        \/ time_prepare_sleep \/ Continue \/ EMU_EnterEM2 \/ Wake
        \/ Tick

(* An early wakeup left behind by a cleared event does not end a sleep; it *)
(* is forgotten when something else does. If that does not happen before   *)
(* it has been overdue for half the counter's range (0.76 days), the       *)
(* comparisons take it for one to come; `stale' remembers that they have.  *)
RecentEarlyWakeup == TIME_VALID(early_wakeup_time) =>
                        time_sub(counter, early_wakeup_time) # Half

Step == Next /\ stale' = (stale \/ ~RecentEarlyWakeup')
Spec == Init /\ [][Step]_vars
-----------------------------------------------------------------------------
(* The shape of the state. *)
TypeOK == /\ counter \in Times /\ compare \in Times /\ now \in Times
          /\ time_event_time \in [Events -> Times \cup {TIME_INVALID}]
          /\ early_wakeup_time \in Times \cup {TIME_INVALID}
          /\ pc \in {"poll", "events", "callback", "body", "enter", "asleep"}
          /\ index \in 1 .. TIME_EVENTS + 1
          /\ lag \in 0 .. MaxLag
          /\ due \in [Events -> Int]
          /\ waiting \in [Events -> BOOLEAN]

(* An event's function never runs before its time, wherever the counter    *)
(* wraps and however long the processor slept.                             *)
NeverEarly == [][\A e \in Events :
                    pc = "events" /\ pc' = "callback" /\ index = e => due[e] <= 0]_vars

(* Nor is it missed: no event stays armed past its time for longer than    *)
(* two turns of the main loop, although the processor sleeps in between    *)
(* and RTC_IRQHandler discards a compare match that precedes the sleep.    *)
NeverLate == \A e \in Armed(time_event_time) : due[e] >= -2 * MaxLag

(* proto_prepare has run when an event armed early_wakeup_advance or more  *)
(* ahead fires, at most early_wakeup_advance before its time: one          *)
(* variable, kept up to date as events are armed, moved and cleared, does  *)
(* for all of them, and a sleep ends for it, as long as none is stale.     *)
PreparedFirst == [][\A e \in Events :
                    pc = "events" /\ pc' = "callback" /\ index = e => stale \/ ~waiting[e]]_vars

(* It is not late either: while it is missing, the event is ahead by       *)
(* early_wakeup_advance, less one turn of the main loop.  (Likewise.)      *)
PreparedInTime == \A e \in Armed(time_event_time) :
                     waiting[e] /\ ~stale => due[e] >= early_wakeup_advance - MaxLag
=============================================================================
