--------------------------- MODULE AnchorRanging ---------------------------
(***************************************************************************)
(* Two-way ranging between anchors in demo/rtlsd.py: an Anchor wakes up,   *)
(* takes the next anchor of the server's list and has three beacons sent,  *)
(* its own, the peer's and its own again; from the reports of both ends    *)
(* follows the distance.  Here: one anchor that ranges with two others.    *)
(*                                                                         *)
(* Beacons and reports carry the number of the round they were asked for   *)
(* in, which no frame does.  Every anchor reports every beacon; the reports *)
(* of this one and of its current peer matter.                             *)
(***************************************************************************)
EXTENDS RtlsTimer

CONSTANTS Wakeups,   \* what random.uniform(*cfg.anchor_wakeup_timer) returns
          Rounds     \* bound: rounds started

Keys   == {"self", "peer"}   \* whose reports two_way_ranging uses
Others == 2                  \* Server.anchor_keys: this anchor, then the others

VARIABLES
  peer,      \* ranging_peer is set
  iter,      \* keys ranging_iter has yielded, or -1 when it is None
  heard,     \* ranging_blinks, or NoBlinks
  beacons,   \* FRAME messages on their way: [sub, round]
  round,     \* history: rounds started
  armedIn,   \* history: the round in which ranging_timer was armed
  twr        \* history: the rounds the last distance was computed from

anchorVars == <<peer, iter, heard, beacons, round, armedIn, twr>>

NoBlinks == [sub \in 0 .. 2 |-> [k \in Keys |-> 0]]

AnchorInit == /\ peer = FALSE /\ iter = -1 /\ heard = NoBlinks
              /\ beacons = {} /\ round = 0 /\ armedIn = 0 /\ twr = {}

Transmit(sub) == beacons' = beacons \cup {[sub |-> sub, round |-> round']}

-----------------------------------------------------------------------------
(* The callbacks run with the lock held and arm timeouts on their own      *)
(* thread.  Anchor.wakeup_expire: the next wake-up first ...               *)
wakeup_expire ==
  /\ timer = "wakeup"
  /\ armed' = armed \cup {"wakeup"}
  /\ \E delay \in Wakeups : TimerArm("wakeup", delay)
  /\ timer' = IF iter \in 1 .. Others /\ round < Rounds THEN "start" ELSE "loop"
  /\ iter' = IF iter \in {-1, Others + 1} THEN 0 ELSE iter + 1
  /\ UNCHANGED <<sock, net, peer, heard, beacons, round, armedIn, twr>>

(* ... then start_ranging_with, which arms two timeouts one after the other. *)
start_ranging_with ==
  /\ timer = "start"
  /\ peer' = TRUE /\ heard' = NoBlinks /\ round' = round + 1
  /\ Arm("giveup")
  /\ timer' = "request1"
  /\ UNCHANGED <<sock, net, iter, beacons, armedIn, twr>>

ArmRequest == /\ timer = "request1"
              /\ Arm("request")
              /\ round' = round
              /\ Transmit(0)
              /\ timer' = "loop"
              /\ UNCHANGED <<sock, net, peer, iter, heard, armedIn, twr>>

(* Anchor.request_expire.                                                  *)
request_expire ==
  /\ timer = "request"
  /\ round' = round
  /\ IF peer THEN Transmit(1) /\ Arm("response")
             ELSE UNCHANGED <<beacons, armed, list, collisions, taken>>
  /\ timer' = "loop"
  /\ UNCHANGED <<sock, net, peer, iter, heard, armedIn, twr>>

(* Anchor.response_expire.  Mutant: ranging_timer has the delay of         *)
(* timeout_timer.                                                          *)
ResponseSlow ==
  /\ timer = "response"
  /\ round' = round
  /\ IF peer THEN /\ Transmit(2) /\ "ranging" \notin armed
                  /\ armed' = armed \cup {"ranging"} /\ TimerArm("ranging", Delay["giveup"])
                  /\ armedIn' = round
             ELSE UNCHANGED <<beacons, armed, list, collisions, taken, armedIn>>
  /\ timer' = "loop"
  /\ UNCHANGED <<sock, net, peer, iter, heard, twr>>

response_expire ==
  /\ timer = "response"
  /\ round' = round
  /\ IF peer THEN /\ Transmit(2) /\ Arm("ranging")
                  /\ armedIn' = IF "ranging" \in armed THEN armedIn ELSE round
             ELSE UNCHANGED <<beacons, armed, list, collisions, taken, armedIn>>
  /\ timer' = "loop"
  /\ UNCHANGED <<sock, net, peer, iter, heard, twr>>

(* Anchor.finish_ranging leaves ranging_timer alone.                       *)
Anchor_finish_ranging == /\ Unarm({"giveup", "request", "response"})
                         /\ peer' = FALSE /\ heard' = NoBlinks

(* Mutant: a report that is missing counts as 0.                           *)
SomeReport == \E sub \in 0 .. 2, k \in Keys : heard[sub][k] # 0

(* Anchor.ranging_expire: two_way_ranging needs all six reports.           *)
Complete == \A sub \in 0 .. 2, k \in Keys : heard[sub][k] # 0

Anchor_ranging_expire ==
  /\ timer = "ranging"
  /\ IF peer THEN /\ twr' = IF Complete THEN {heard[sub][k] : sub \in 0 .. 2, k \in Keys} ELSE {}
                  /\ Anchor_finish_ranging
             ELSE UNCHANGED <<twr, armed, list, collisions, taken, peer, heard>>
  /\ timer' = "loop"
  /\ UNCHANGED <<sock, net, iter, beacons, round, armedIn>>

(* Anchor.timeout_expire.                                                  *)
Anchor_timeout_expire ==
  /\ timer = "giveup"
  /\ Anchor_finish_ranging
  /\ timer' = "loop"
  /\ UNCHANGED <<sock, net, iter, beacons, round, armedIn, twr>>

(* Both ends report a beacon that was sent.                                *)
SendBeacon == \E b \in beacons :
  /\ beacons' = beacons \ {b}
  /\ net' = net \cup {[sub |-> b.sub, key |-> k, round |-> b.round, age |-> 0] : k \in Keys}
  /\ UNCHANGED <<timerVars, sock, peer, iter, heard, round, armedIn, twr>>

(* Anchor.add_beacon on the socket thread: the test ...                    *)
Anchor_add_beacon == \E m \in net :
  /\ sock = Idle
  /\ net' = net \ {m}
  /\ sock' = IF peer THEN [at |-> "add", m |-> m] ELSE Idle
  /\ UNCHANGED <<timerVars, anchorVars>>

(* ... and the write, into None (TypeError, dropped) or into the           *)
(* dictionaries of a round that has begun meanwhile.                       *)
AddBeacon ==
  /\ sock.at = "add"
  /\ heard' = IF peer THEN [heard EXCEPT ![sock.m.sub][sock.m.key] = sock.m.round] ELSE heard
  /\ sock' = Idle
  /\ UNCHANGED <<timerVars, net, peer, iter, beacons, round, armedIn, twr>>

(* A beacon that was not sent in time is lost.                             *)
AnchorTime == /\ TimePasses
              /\ beacons' = {}
              /\ UNCHANGED <<peer, iter, heard, round, armedIn, twr>>

AnchorSocket == Anchor_add_beacon \/ AddBeacon
AnchorTimer  == \/ Expire /\ UNCHANGED anchorVars
                \/ wakeup_expire \/ start_ranging_with \/ ArmRequest
                \/ request_expire \/ response_expire \/ Anchor_ranging_expire \/ Anchor_timeout_expire
AnchorNext == \/ AnchorSocket \/ AnchorTimer \/ SendBeacon \/ AnchorTime
              \/ OthersTook /\ UNCHANGED anchorVars

-----------------------------------------------------------------------------
AnchorTypeOK == /\ peer \in BOOLEAN /\ iter \in -1 .. Others + 1
                /\ heard \in [0 .. 2 -> [Keys -> 0 .. Rounds]]
                /\ {round, armedIn} \subseteq 0 .. Rounds

(* finish_ranging does not unarm ranging_timer, and arm does nothing for a *)
(* timeout that is armed.  All the same it is never the timer of an earlier *)
(* round that ends a round, as long as wake-ups are far enough apart.      *)
OwnTimerEnds == timer = "ranging" /\ peer => armedIn = round

(* A distance is computed from the six reports of one round.               *)
OneRound == Cardinality(twr) <= 1
=============================================================================
