------------------------------ MODULE Entropy ------------------------------
(***************************************************************************)
(* Random numbers of the tag, firmware/src/entropy.c with the counter of   *)
(* drbg.c: the radio's handler registers a sample (the low bits of a       *)
(* timestamp), entropy_poll in the main loop has it tested twice and mixes *)
(* it into the generator, which is ready after enough samples.             *)
(*                                                                         *)
(* What the generator computes is left out.  A sample is one of two        *)
(* values; each function reads it once, and the handler may write another  *)
(* one between two functions.                                              *)
(***************************************************************************)
EXTENDS Integers

CONSTANTS ENTROPY_MAX_REPETITIONS, ENTROPY_WINDOW, ENTROPY_ADAPTIVE_CUTOFF,
          drbg_samples_required,
          RepetitionValues    \* values of entropy_repetitions: 256 in the code

ASSUME EntropyAssumption ==
  /\ {ENTROPY_MAX_REPETITIONS, ENTROPY_WINDOW, ENTROPY_ADAPTIVE_CUTOFF,
      drbg_samples_required, RepetitionValues} \subseteq Nat
  /\ 1 < ENTROPY_MAX_REPETITIONS /\ ENTROPY_MAX_REPETITIONS < RepetitionValues
  /\ 1 < ENTROPY_ADAPTIVE_CUTOFF /\ ENTROPY_ADAPTIVE_CUTOFF < ENTROPY_WINDOW

Samples == {0, 1}

VARIABLES
  entropy_sample, entropy_available,
  previous, repetitions,             \* of the repetition test
  adaptive, seen, count,             \* of the adaptive test
  drbg_samples,
  run,      \* history: how often the last tested sample came in a row, up to
            \* ENTROPY_MAX_REPETITIONS
  mixed     \* history: the registered sample is in the generator already

shared      == <<entropy_sample, entropy_available>>
repetition  == <<previous, repetitions, run>>
window      == <<adaptive, seen, count>>
entropyVars == <<shared, repetition, window, drbg_samples, mixed>>

(* entropy_previous_sample starts as a sample that was seen once.          *)
EntropyInit == /\ entropy_sample = 0 /\ entropy_available = FALSE
               /\ previous = 0 /\ repetitions = 1 /\ run = 0
               /\ adaptive = 0 /\ seen = 0 /\ count = 0
               /\ drbg_samples = 0
               /\ mixed = TRUE

-----------------------------------------------------------------------------
(* In the radio's handler.                                                 *)
entropy_register == /\ entropy_sample' \in Samples
                    /\ entropy_available' = TRUE
                    /\ mixed' = FALSE
                    /\ UNCHANGED <<repetition, window, drbg_samples>>

(* entropy_test_failed: drbg_error.                                        *)
TestFailed(failed) == drbg_samples' = IF failed THEN 0 ELSE drbg_samples

(* Mutant: the test fails once per run.                                    *)
FailsOnce(r) == r = ENTROPY_MAX_REPETITIONS

Repeats(r) == r >= ENTROPY_MAX_REPETITIONS

entropy_repetition_test ==
  LET again == previous = entropy_sample
  IN  /\ previous' = entropy_sample
      /\ repetitions' = IF again THEN (repetitions + 1) % RepetitionValues ELSE 1
      /\ run' = IF ~again \/ run = 0 THEN 1
                ELSE IF run < ENTROPY_MAX_REPETITIONS THEN run + 1 ELSE run
      /\ TestFailed(Repeats(repetitions'))
      /\ UNCHANGED <<shared, window, mixed>>

(* A window begins with a new sample to count ...                          *)
NewWindow == /\ count = 0
             /\ adaptive' = entropy_sample
             /\ count' = 1 /\ seen' = 1
             /\ UNCHANGED drbg_samples

(* ... except after a failure: the count restarts at 0 and is incremented, *)
(* so the old sample is counted on, past the cutoff, for another window.   *)
Counted == IF entropy_sample = adaptive THEN seen + 1 ELSE seen
Cutoff  == Counted = ENTROPY_ADAPTIVE_CUTOFF /\ Counted # seen

CountSample ==
  /\ count # 0
  /\ seen' = Counted
  /\ TestFailed(Cutoff)
  /\ count' = ((IF Cutoff THEN 0 ELSE count) + 1) % ENTROPY_WINDOW
  /\ UNCHANGED adaptive

entropy_adaptive_test == /\ NewWindow \/ CountSample
                         /\ UNCHANGED <<shared, repetition, mixed>>

drbg_update == /\ drbg_samples' = IF drbg_samples < drbg_samples_required
                                  THEN drbg_samples + 1 ELSE drbg_samples
               /\ mixed' = TRUE
               /\ UNCHANGED <<shared, repetition, window>>

ClearAvailable == /\ entropy_available' = FALSE
                  /\ UNCHANGED <<entropy_sample, repetition, window, drbg_samples, mixed>>

drbg_ready == drbg_samples >= drbg_samples_required

-----------------------------------------------------------------------------
EntropyTypeOK == /\ entropy_sample \in Samples /\ entropy_available \in BOOLEAN
                 /\ repetitions \in 0 .. RepetitionValues - 1
                 /\ count \in 0 .. ENTROPY_WINDOW - 1
                 /\ seen \in 0 .. ENTROPY_ADAPTIVE_CUTOFF + ENTROPY_WINDOW
                 /\ drbg_samples \in 0 .. drbg_samples_required

(* A source that is stuck does not make the generator ready, although the  *)
(* counter of repetitions wraps and passes below the cutoff again.         *)
StuckNeverReady ==
  run = ENTROPY_MAX_REPETITIONS => drbg_samples <= ENTROPY_MAX_REPETITIONS + 1

(* No sample is mixed in and counted twice, although the handler writes    *)
(* the next one while the main loop works on this one.  (It may be lost.)  *)
NoSampleTwice == [][~(mixed /\ drbg_samples' > drbg_samples)]_entropyVars
=============================================================================
