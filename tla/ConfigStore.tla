---------------------------- MODULE ConfigStore ----------------------------
(***************************************************************************)
(* The configuration store of the tag firmware, firmware/src/config.c over *)
(* firmware/src/flash.c: an append-only log of entries in one of two flash *)
(* pages, compacted into the other page when the log is full.              *)
(*                                                                         *)
(* Each action performs at most one flash command (the erasure of a page   *)
(* or the programming of one 32-bit word), so a power loss can fall        *)
(* between any two.  Programming only clears bits: a word is the set of    *)
(* its bits that read 1, and programming is intersection.  Lengths are in  *)
(* words (the code's bytes rounded up by CONFIG_ALIGN), offsets count the  *)
(* words after the magic word, and the header's spare byte is left out.    *)
(***************************************************************************)
EXTENDS Integers, Sequences, FiniteSets, FiniteSetsExt

CONSTANTS KeyBits,    \* bits of the key field of a header
          LenBits,    \* bits of the length field: powers of two, by weight
          Keys,       \* keys the callers use
          Values,     \* values they store: sequences of words
          AreaWords,  \* words in a page, the magic word not counted
          NoValue     \* the key has no value

Word == [key : SUBSET KeyBits, len : SUBSET LenBits]

CONFIG_KEY_INVALID     == {}
CONFIG_KEY_UNPROGRAMMED == KeyBits

ASSUME WordAssumption ==
    /\ KeyBits # {}
    /\ LenBits \subseteq Nat \ {0} /\ IsFiniteSet(LenBits)
    /\ Keys \subseteq (SUBSET KeyBits) \ {CONFIG_KEY_INVALID, CONFIG_KEY_UNPROGRAMMED}
    /\ Values \subseteq Seq(Word)
ASSUME AreaAssumption == AreaWords \in Nat \ {0}
ASSUME NoValueAssumption == NoValue \notin Seq(Word)

Areas    == {1, 2}
Other(a) == 3 - a
Offsets  == 0 .. AreaWords - 1

(* What a flash page can hold. *)
Erased  == [key |-> KeyBits, len |-> LenBits]
Blank   == [magic |-> "erased", words |-> [i \in Offsets |-> Erased]]
Page    == [magic : {"erased", "magic", "null"}, words : [Offsets -> Word]]
Program(old, new) == [key |-> old.key \cap new.key, len |-> old.len \cap new.len]

VARIABLES flash,        \* the two pages; the only state that survives a power loss
          config_area,  \* the page in use
          phase,        \* where the firmware is in config.c
          after,        \* where config_compact returns to
          offset,       \* config_compact's position in the old page
          new_offset,   \* and in the new one
          queue,        \* words the flash_write calls in progress have still to program
          key, value,   \* the operation in progress, as in ConfigMap
          before,       \* history: what a start-up would have found when it began
          result,       \* what the last finished operation returned
          torn          \* history: power was lost over a half programmed value

ram  == <<config_area, after, offset, new_offset>>
job  == <<key, value, before, result>>
vars == <<flash, config_area, phase, after, offset, new_offset, queue,
          key, value, before, result, torn>>

-----------------------------------------------------------------------------
(* Reading a page.  `ws' is the function from offsets to words.            *)

Total(size, s) == MapThenSumSet(LAMBDA x : size[x], s)

LenValue == [s \in SUBSET LenBits |-> Total([b \in LenBits |-> b], s)]
CONFIG_LENGTH(w) == LenValue[w.len]
CONFIG_TOTLEN(w) == 1 + CONFIG_LENGTH(w)

(* config_put refuses a value whose length does not fit the field.         *)
ASSUME LengthAssumption == \A v \in Values : \E s \in SUBSET LenBits : LenValue[s] = Len(v)

(* Past the end of the page only a torn store is read; the model sees erased *)
(* flash there.                                                              *)
WordAt(ws, i)    == IF i \in Offsets THEN ws[i] ELSE Erased
WordsAt(ws, i, n) == [j \in 1 .. n |-> WordAt(ws, i + j - 1)]

(* The scan every function of config.c makes: from header to header until  *)
(* the limit is reached or the key is unprogrammed.  Where it stops ...    *)
ScanEnd(ws, limit) ==
    LET end[i \in Nat] ==
          IF i >= limit \/ ws[i].key = CONFIG_KEY_UNPROGRAMMED
          THEN i ELSE end[i + CONFIG_TOTLEN(ws[i])]
    IN  end[0]

(* ... and the headers it passes. *)
Headers(ws) ==
    LET from[i \in Nat] ==
          IF i >= AreaWords - 1 \/ ws[i].key = CONFIG_KEY_UNPROGRAMMED
          THEN {} ELSE {i} \cup from[i + CONFIG_TOTLEN(ws[i])]
    IN  from[0]

config_valid(page) == /\ page.magic = "magic"
                      /\ ScanEnd(page.words, AreaWords) < AreaWords

config_findfree(ws) == LET end == ScanEnd(ws, AreaWords - 1)
                       IN  IF end < AreaWords - 1 THEN end ELSE -1

FreeErased(ws, from) == \A i \in Offsets : i >= from => ws[i] = Erased

config_freespacevalid(ws) == /\ config_findfree(ws) >= 0
                             /\ FreeErased(ws, config_findfree(ws))

config_find(ws, k) == LET found == {i \in Headers(ws) : ws[i].key = k}
                      IN  IF found = {} THEN -1 ELSE Min(found)

config_get(ws, k) == LET i == config_find(ws, k)
                     IN  IF i < 0 THEN NoValue
                         ELSE WordsAt(ws, i + 1, CONFIG_LENGTH(ws[i]))

config_space_used_by_key(ws, k) ==
    LET i == config_find(ws, k) IN IF i < 0 THEN 0 ELSE CONFIG_TOTLEN(ws[i])

(* Mutated forms of a definition come just before it. *)
TotalLength(ws, s) == Total([i \in Offsets |-> CONFIG_TOTLEN(ws[i])], s)
config_freespaceDeletedCounted(ws) == AreaWords - 1 - TotalLength(ws, Headers(ws))

LiveHeaders(ws) == {i \in Headers(ws) : ws[i].key # CONFIG_KEY_INVALID}

config_freespace(ws) == AreaWords - 1 - TotalLength(ws, LiveHeaders(ws))

CONFIG_SPACE_FOR_KEYNoTerminator(free, len) == free >= 0 /\ free <= AreaWords - len - 1

CONFIG_SPACE_FOR_KEY(free, len) == free >= 0 /\ free <= AreaWords - len - 2

(* config_init's choice between the two pages; 0 when neither is valid. *)
ChosenArea(f) ==
    CASE ~config_valid(f[1]) /\ ~config_valid(f[2]) -> 0
      []  config_valid(f[1]) /\ ~config_valid(f[2]) -> 1
      [] ~config_valid(f[1]) /\  config_valid(f[2]) -> 2
      [] OTHER -> IF config_findfree(f[1].words) >= config_findfree(f[2].words)
                  THEN 1 ELSE 2

Contents(page) == [k \in Keys |-> config_get(page.words, k)]
Empty          == [k \in Keys |-> NoValue]

(* What config_get would answer after a power loss now and a start-up. *)
Recovered == LET a == ChosenArea(flash) IN IF a = 0 THEN Empty ELSE Contents(flash[a])

Live == flash[config_area].words
-----------------------------------------------------------------------------
(* Flash commands waiting in `queue': program word w at offset i of page a. *)

Write(a, i, w)     == [area |-> a, at |-> i, word |-> w]
Writes(a, i, ws)   == [j \in 1 .. Len(ws) |-> Write(a, i + j - 1, ws[j])]
LenField(n)        == CHOOSE s \in SUBSET LenBits : LenValue[s] = n
Header(k, n)       == [key |-> k, len |-> LenField(n)]
NullKey            == [key |-> CONFIG_KEY_INVALID, len |-> LenBits]

DeletionForgotten(k) == << >>

(* The write config_delete makes, if the key is there. *)
Deletion(k) == LET i == config_find(Live, k)
               IN  IF i < 0 THEN << >> ELSE <<Write(config_area, i, NullKey)>>

Return(outcome) == /\ phase' = "idle"
                   /\ result' = outcome
                   /\ key' = CONFIG_KEY_INVALID
                   /\ value' = NoValue
                   /\ before' = Recovered

Call(k, v) == /\ key' = k
              /\ value' = v
              /\ before' = Recovered
              /\ result' = "none"

Init == /\ flash = [a \in Areas |-> Blank]
        /\ config_area = 1
        /\ phase = "off"
        /\ after = "idle"
        /\ offset = 0
        /\ new_offset = 0
        /\ queue = << >>
        /\ key = CONFIG_KEY_INVALID
        /\ value = NoValue
        /\ before = Empty
        /\ result = "none"
        /\ torn = FALSE

-----------------------------------------------------------------------------
(* Start-up.                                                               *)

(* No page is valid: format page 1. *)
InitFormat == /\ phase = "off"
              /\ ChosenArea(flash) = 0
              /\ config_area' = 1
              /\ flash' = [flash EXCEPT ![1] = Blank]
              /\ phase' = "format"
              /\ UNCHANGED <<after, offset, new_offset, queue, job, torn>>

config_init_area == /\ phase = "format"
                    /\ flash' = [flash EXCEPT ![config_area].magic = "magic"]
                    /\ phase' = "idle"
                    /\ UNCHANGED <<ram, queue, job, torn>>

(* One page is valid: use it as it is. *)
InitOne == /\ phase = "off"
           /\ \E a \in Areas : /\ config_valid(flash[a])
                               /\ ~config_valid(flash[Other(a)])
                               /\ config_area' = a
           /\ phase' = "idle"
           /\ UNCHANGED <<flash, after, offset, new_offset, queue, job, torn>>

(* Both are: keep one, erase the other, compact if the free space is dirty. *)
InitBoth == /\ phase = "off"
            /\ \A a \in Areas : config_valid(flash[a])
            /\ LET a == ChosenArea(flash)
               IN  /\ config_area' = a
                   /\ flash' = [flash EXCEPT ![Other(a)] = Blank]
                   /\ phase' = IF config_freespacevalid(flash[a].words)
                               THEN "idle" ELSE "erase"
            /\ after' = "idle"
            /\ UNCHANGED <<offset, new_offset, queue, job, torn>>

-----------------------------------------------------------------------------
(* config_compact.                                                         *)

(* config_empty ignores its argument and looks at the page in use. *)
config_empty == flash[config_area] = Blank

CompactErase == /\ phase = "erase"
                /\ flash' = IF config_empty THEN flash
                            ELSE [flash EXCEPT ![Other(config_area)] = Blank]
                /\ phase' = "magic"
                /\ UNCHANGED <<ram, queue, job, torn>>

CompactMagicForgotten == /\ phase = "magic"
                         /\ phase' = "copy"
                         /\ offset' = 0
                         /\ new_offset' = 0
                         /\ UNCHANGED <<flash, config_area, after, queue, job, torn>>

CompactMagic == /\ phase = "magic"
                /\ flash' = [flash EXCEPT ![Other(config_area)].magic = "magic"]
                /\ phase' = "copy"
                /\ offset' = 0
                /\ new_offset' = 0
                /\ UNCHANGED <<config_area, after, queue, job, torn>>

(* The loop's test: there is an entry at `offset' to look at. *)
MoreEntries == /\ offset < AreaWords - 1
               /\ Live[offset].key # CONFIG_KEY_UNPROGRAMMED

CompactCopy == /\ phase = "copy"
               /\ queue = << >>
               /\ MoreEntries
               /\ LET total == CONFIG_TOTLEN(Live[offset])
                  IN  /\ offset' = offset + total
                      /\ \/ /\ Live[offset].key # CONFIG_KEY_INVALID
                            /\ queue' = Writes(Other(config_area), new_offset,
                                               WordsAt(Live, offset, total))
                            /\ new_offset' = new_offset + total
                         \/ /\ Live[offset].key = CONFIG_KEY_INVALID
                            /\ UNCHANGED <<queue, new_offset>>
               /\ UNCHANGED <<flash, config_area, phase, after, job, torn>>

CompactRetire == /\ phase = "copy"
                 /\ queue = << >>
                 /\ ~MoreEntries
                 /\ flash' = [flash EXCEPT ![config_area].magic = "null"]
                 /\ config_area' = Other(config_area)
                 /\ phase' = after
                 /\ offset' = 0
                 /\ new_offset' = 0
                 /\ UNCHANGED <<after, queue, job, torn>>

-----------------------------------------------------------------------------
(* config_put and config_delete.                                           *)

config_key_in_place(k, v) == config_get(Live, k) = v

Fits(k, v) == 1 + Len(v) - config_space_used_by_key(Live, k) <= config_freespace(Live)

(* The value is there already, or its replacement is known not to fit. *)
PutAtOnce(k, v) == /\ phase = "idle"
                   /\ \/ config_key_in_place(k, v) /\ result' = "stored"
                      \/ ~config_key_in_place(k, v) /\ ~Fits(k, v) /\ result' = "refused"
                   /\ UNCHANGED <<flash, ram, phase, queue, key, value, before, torn>>

PutBegin(k, v) == /\ phase = "idle"
                  /\ ~config_key_in_place(k, v)
                  /\ Fits(k, v)
                  /\ queue' = Deletion(k)
                  /\ phase' = "place"
                  /\ Call(k, v)
                  /\ UNCHANGED <<flash, ram, torn>>

(* After a compaction there is room.  The `return false' config_put has for  *)
(* the other case is unreachable and no action here: without room a store    *)
(* whose supply is steady would be deadlocked in phase "replace".            *)
Room == CONFIG_SPACE_FOR_KEY(config_findfree(Live), Len(value))

Append_entryHeaderFirst == LET free == config_findfree(Live)
                           IN  <<Write(config_area, free, Header(key, Len(value)))>>
                                 \o Writes(config_area, free + 1, value)

Append_entryNoData == <<Write(config_area, config_findfree(Live), Header(key, Len(value)))>>

(* The data first, its header last. *)
Append_entry == LET free == config_findfree(Live)
                IN  Writes(config_area, free + 1, value)
                      \o <<Write(config_area, free, Header(key, Len(value)))>>

PutWrite == /\ phase \in {"place", "replace"}
            /\ queue = << >>
            /\ Room
            /\ queue' = Append_entry
            /\ phase' = "write"
            /\ UNCHANGED <<flash, ram, job, torn>>

PutCompact == /\ phase = "place"
              /\ queue = << >>
              /\ ~Room
              /\ phase' = "erase"
              /\ after' = "replace"
              /\ UNCHANGED <<flash, config_area, offset, new_offset, queue, job, torn>>

PutReturn == /\ phase = "write"
             /\ queue = << >>
             /\ Return("stored")
             /\ UNCHANGED <<flash, ram, queue, torn>>

config_delete(k) == /\ phase = "idle"
                    /\ config_find(Live, k) >= 0
                    /\ queue' = Deletion(k)
                    /\ phase' = "delete"
                    /\ Call(k, NoValue)
                    /\ UNCHANGED <<flash, ram, torn>>

DeleteReturn == /\ phase = "delete"
                /\ queue = << >>
                /\ Return("deleted")
                /\ UNCHANGED <<flash, ram, queue, torn>>

-----------------------------------------------------------------------------
(* The next word of the flash_write in progress. *)
flash_write == /\ queue # << >>
               /\ LET w == Head(queue)
                  IN  flash' = [flash EXCEPT ![w.area].words[w.at] = Program(@, w.word)]
               /\ queue' = Tail(queue)
               /\ UNCHANGED <<ram, phase, job, torn>>

(* Everything but the flash is lost.  The store is torn if the value of an *)
(* entry was being programmed, its header not yet.                         *)
PowerLoss == /\ phase # "off"
             /\ phase' = "off"
             /\ config_area' = 1
             /\ after' = "idle"
             /\ offset' = 0
             /\ new_offset' = 0
             /\ queue' = << >>
             /\ key' = CONFIG_KEY_INVALID
             /\ value' = NoValue
             /\ before' = Recovered
             /\ result' = "none"
             /\ torn' = \/ torn
                        \/ phase = "write" /\ ~FreeErased(Live, ScanEnd(Live, AreaWords))
             /\ UNCHANGED flash

Next == \/ InitFormat \/ config_init_area \/ InitOne \/ InitBoth
        \/ CompactErase \/ CompactMagic \/ CompactCopy \/ CompactRetire
        \/ \E k \in Keys, v \in Values : PutAtOnce(k, v) \/ PutBegin(k, v)
        \/ PutWrite \/ PutCompact \/ PutReturn
        \/ \E k \in Keys : config_delete(k)
        \/ DeleteReturn
        \/ flash_write
        \/ PowerLoss

Spec == Init /\ [][Next]_vars

(* The same firmware on a supply that never fails. *)
PoweredSpec == Init /\ [][Next /\ ~PowerLoss]_vars

-----------------------------------------------------------------------------
(* Correctness.                                                            *)

(* The shape of the state. *)
TypeOK ==
    /\ flash \in [Areas -> Page]
    /\ config_area \in Areas
    /\ phase \in {"off", "idle", "format", "erase", "magic", "copy",
                  "place", "replace", "write", "delete"}
    /\ after \in {"idle", "replace"}
    /\ offset \in Nat
    /\ new_offset \in Nat
    /\ queue \in Seq([area : Areas, at : Nat, word : Word])
    /\ key \in Keys \cup {CONFIG_KEY_INVALID}
    /\ value \in Values \cup {NoValue}
    /\ DOMAIN before = Keys
    /\ result \in {"none", "stored", "refused", "deleted"}
    /\ torn \in BOOLEAN

(* config.h's contract: wherever a power loss falls in config_put,         *)
(* config_delete, config_compact or config_init, the next start-up finds   *)
(* every key with the value it was given, except that the key being        *)
(* written has its old value, its new one, or none.                        *)
ImplementsMap == INSTANCE ConfigMap
    WITH durable <- Recovered, NoKey <- CONFIG_KEY_INVALID
ConfigMapSpec == ImplementsMap!Spec

(* Between operations, what config_get reads is what it would read after a *)
(* restart: RAM's choice of page and config_init's agree.                  *)
RunningIsDurable == phase = "idle" /\ ~torn => Contents(flash[config_area]) = Recovered

(* config_find stops at the first match, so a formatted page must not hold *)
(* two live entries for a key: the older one would shadow the newer.       *)
OneEntryPerKey ==
    \A a \in Areas : flash[a].magic = "magic" /\ ~torn =>
        \A i, j \in Headers(flash[a].words) :
            flash[a].words[i].key = flash[a].words[j].key
              /\ flash[a].words[i].key # CONFIG_KEY_INVALID => i = j

(* Compaction and start-up never give up the last formatted page: a page   *)
(* loses its magic only when the other one has it, or when neither page    *)
(* was a valid store.                                                      *)
KeepsAFormattedPage ==
    [][\A a \in Areas : flash[a].magic = "magic" /\ flash'[a].magic # "magic"
          => flash'[Other(a)].magic = "magic" \/ ChosenArea(flash) = 0]_vars

(* The words a page needs for the map m. *)
Held(m)   == {k \in Keys : m[k] # NoValue}
Needed(m) == Total([k \in Held(m) |-> 1 + Len(m[k])], Held(m))

(* config_put's incremental bookkeeping (space required, less space used   *)
(* by the old entry, against the free space with deleted entries counted   *)
(* free) says yes exactly when the new map, with the unprogrammed word the *)
(* scans stop at, fits a page.                                             *)
FitsIsExact ==
    phase = "idle" /\ ~torn =>
        \A k \in Keys, v \in Values :
            Fits(k, v) <=> Needed([Contents(flash[config_area]) EXCEPT ![k] = v])
                             <= AreaWords - 1

(* config.h: "Writes a key. Returns true if successful".  When config_put  *)
(* returns true, config_get reads the value it was given.                  *)
StoredMeansStored ==
    [][phase = "write" /\ phase' = "idle"
          => config_get(flash'[config_area'].words, key) = value]_vars

(* config.c, config_init: when both pages are valid, "the one with the     *)
(* least free space probably has all the data that we care about": a power *)
(* loss anywhere in a compaction does not change what a start-up finds.    *)
CompactionKeepsStore ==
    [][(phase \in {"erase", "magic", "copy"} /\ ~torn) => UNCHANGED Recovered]_vars
=============================================================================
