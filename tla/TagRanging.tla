----------------------------- MODULE TagRanging -----------------------------
(***************************************************************************)
(* How demo/rtlsd.py locates a tag, with the anchors' demo/anchord.py.     *)
(*                                                                         *)
(* The tag blinks; each anchor that hears it reports it, and the one that  *)
(* has been told to (REGISTER) answers with a beacon; the tag answers that *)
(* with a ranging frame; every frame heard is reported to the server, which *)
(* collects three dictionaries of reports and computes a position.  When it *)
(* has no beacon in time it asks for one (FRAME).                          *)
(*                                                                         *)
(* A report carries the number of the blink it belongs to, which no frame  *)
(* does: it is there for the properties.                                   *)
(***************************************************************************)
EXTENDS RtlsTimer

CONSTANTS Anchors,
          BlinkPeriod,  \* the least time between two blinks
          Blinks        \* bound: how often the tag blinks

None == 0

VARIABLES
  ranging, reports, beacon,   \* class Tag; reports = Tag.blinks
  choice, refs,               \* what cfg says of the beacon, Server.anchor_refs
  ctl,                        \* datagrams on their way to the anchors
  registered, toSend,         \* anchors: cfg.tags has the tag, beacon to send
  blink, since, window,       \* the tag: blinks so far, age, listens
  used,                       \* history: blinks whose reports the position at hand mixes
  failed                      \* history: select_beacon has raised ValueError

server  == <<ranging, reports, beacon>>
config  == <<choice, refs>>
anchors == <<ctl, registered, toSend>>
tag     == <<blink, since, window>>
tagHist == <<used, failed>>
tagVars == <<server, config, anchors, tag, tagHist>>

NoReports == [kind \in 0 .. 2 |-> [a \in Anchors |-> None]]

(* The server has just started, and the configuration forces a beacon or   *)
(* has it drawn from the anchors, which includes what the best of several  *)
(* would be; or there is one reference anchor, which an earlier round has  *)
(* selected.                                                               *)
Setup == \/ choice \in {"forced", "random"} /\ refs = Anchors /\ beacon = None
         \/ choice = "best" /\ refs = {Max(Anchors)} /\ beacon = Max(Anchors)

TagInit == /\ ranging = FALSE /\ reports = NoReports
           /\ Setup
           /\ registered = {beacon} \ {None}
           /\ ctl = {} /\ toSend = {}
           /\ blink = 0 /\ since = BlinkPeriod /\ window = FALSE
           /\ used = {} /\ failed = FALSE

-----------------------------------------------------------------------------
(* The air and the anchors.  recv_blink of anchord.py: report, and answer  *)
(* a blink of a registered tag once.                                       *)
Report(kind, src, a) == [kind |-> kind, src |-> src, anchor |-> a, blink |-> blink', age |-> 0]
Reports(kind, src, hearing) == {Report(kind, src, a) : a \in hearing}

Blink == \E hearing \in SUBSET Anchors :
  /\ blink < Blinks /\ since = BlinkPeriod
  /\ blink' = blink + 1 /\ since' = 0 /\ window' = TRUE
  /\ net' = net \cup Reports(0, None, hearing)
  /\ toSend' = toSend \cup (registered \cap hearing)
  /\ registered' = registered \ hearing
  /\ UNCHANGED <<timerVars, sock, server, config, ctl, tagHist>>

(* A beacon is reported by all who hear it, its sender included            *)
(* (recv_times); a tag that still listens answers it.                      *)
Beacon == \E a \in toSend, answered \in BOOLEAN :
  /\ answered => window
  /\ toSend' = toSend \ {a}
  /\ window' = (window /\ ~answered)
  /\ blink' = blink
  /\ net' = net \cup Reports(1, a, Anchors)
                \cup IF answered THEN Reports(2, None, Anchors) ELSE {}
  /\ UNCHANGED <<timerVars, sock, server, config, ctl, registered, since, tagHist>>

(* recv_client_msg of anchord.py.                                          *)
ControlArrives == \E m \in ctl :
  /\ ctl' = ctl \ {m}
  /\ IF m.type = "REGISTER" THEN registered' = registered \cup {m.to} /\ UNCHANGED toSend
                            ELSE toSend' = toSend \cup {m.to} /\ UNCHANGED registered
  /\ UNCHANGED <<rtlsVars, server, config, tag, tagHist>>

(* The tag listens for less than the time between two blinks.              *)
TagTime == /\ TimePasses
           /\ since' = Min({since + 1, BlinkPeriod})
           /\ window' = (window /\ since' < BlinkPeriod)
           /\ ctl' = {} /\ toSend' = {}
           /\ UNCHANGED <<server, config, registered, blink, tagHist>>

-----------------------------------------------------------------------------
(* The socket thread: Server.recv_anchor_frame, one datagram at a time.    *)
Store(m) == reports' = [reports EXCEPT ![m.kind][m.anchor] = m.blink]

Receive(m) == /\ sock = Idle
              /\ m \in net
              /\ net' = net \ {m}
              /\ UNCHANGED <<timer, list, collisions, taken, tagVars>>

(* Mutant of the second: timeout_timer is forgotten.                       *)
StartReset(m)  == [at |-> "reset", m |-> m]
StartTimers(m) == [at |-> "timeout", m |-> m]

(* Tag.add_blink, which starts a round with Tag.start_ranging if there is  *)
(* none: beacon_timer, timeout_timer, then the reports and the flag.       *)
add_blink == \E m \in net :
  /\ m.kind = 0 /\ Receive(m)
  /\ IF ranging THEN sock' = [at |-> "store", m |-> m] /\ UNCHANGED armed
                ELSE Claim("beacon", m, StartTimers(m))

ArmTimeout == /\ sock.at = "timeout"
              /\ Claim("timeout", sock.m, StartReset(sock.m))
              /\ UNCHANGED <<timer, list, collisions, taken, net, tagVars>>

(* Mutant: the reports of the previous round stay.                         *)
ResetNothing ==
  /\ sock.at = "reset"
  /\ ranging' = TRUE
  /\ sock' = [sock EXCEPT !.at = "store"]
  /\ UNCHANGED <<timerVars, net, beacon, reports, config, anchors, tag, tagHist>>

Reset == /\ sock.at = "reset"
         /\ reports' = NoReports
         /\ ranging' = TRUE
         /\ sock' = [sock EXCEPT !.at = "store"]
         /\ UNCHANGED <<timerVars, net, beacon, config, anchors, tag, tagHist>>

StoreBlink == /\ sock.at = "store" /\ sock.m.kind = 0
              /\ Store(sock.m)
              /\ sock' = Idle
              /\ UNCHANGED <<timerVars, net, ranging, beacon, config, anchors, tag, tagHist>>

(* Tag.add_beacon: only from the anchor that was selected, during a round. *)
(* Without one, "beacon.eui" raises and the report is dropped.             *)
add_beacon == \E m \in net :
  /\ m.kind = 1 /\ Receive(m)
  /\ sock' = IF ranging /\ m.src = beacon THEN [at |-> "store", m |-> m] ELSE Idle
  /\ UNCHANGED armed

StoreBeacon == /\ sock.at = "store" /\ sock.m.kind = 1
               /\ Store(sock.m)
               /\ sock' = IF "beacon" \in armed THEN [at |-> "unarm"] ELSE Idle
               /\ UNCHANGED <<timerVars, net, ranging, beacon, config, anchors, tag, tagHist>>

UnarmBeacon == /\ sock.at = "unarm" /\ LockIsFree
               /\ Unarm({"beacon"})
               /\ sock' = Idle
               /\ UNCHANGED <<timer, net, tagVars>>

(* Tag.add_ranging: it tests the flag, then stores and arms.               *)
add_ranging == \E m \in net :
  /\ m.kind = 2 /\ Receive(m)
  /\ sock' = IF ranging THEN [at |-> "store", m |-> m] ELSE Idle
  /\ UNCHANGED armed

StoreRanging == /\ sock.at = "store" /\ sock.m.kind = 2
                /\ Store(sock.m)
                /\ Claim("ranging", sock.m, Idle)
                /\ UNCHANGED <<timer, list, collisions, taken, net, ranging, beacon, config, anchors, tag, tagHist>>

-----------------------------------------------------------------------------
(* The timer thread.  Tag.beacon_expire.                                   *)
beacon_expire ==
  /\ timer = "beacon"
  /\ ctl' = ctl \cup IF beacon = None THEN {} ELSE {[type |-> "FRAME", to |-> beacon]}
  /\ timer' = "loop"
  /\ UNCHANGED <<armed, list, collisions, taken, sock, net, server, config, registered, toSend, tag, tagHist>>

(* Tag.ranging_expire begins with Tag.laterate: the blink, beacon and      *)
(* ranging reports of the beacon anchor with those of each other anchor    *)
(* that has all three.                                                     *)
HasAll(a)  == \A kind \in 0 .. 2 : reports[kind][a] # None
Located    == {a \in Anchors \ {beacon} : beacon # None /\ HasAll(beacon) /\ HasAll(a)}
Mixed      == {reports[kind][a] : kind \in 0 .. 2, a \in Located \cup {beacon}}

ranging_expire ==
  /\ timer = "ranging"
  /\ used' = IF Located = {} THEN {} ELSE Mixed
  /\ timer' = "timeout"
  /\ UNCHANGED <<armed, list, collisions, taken, sock, net, server, config, anchors, tag, failed>>

(* Then, as Tag.timeout_expire does: Tag.select_beacon.  The strongest of  *)
(* the reference anchors that heard the blink is any of them; with none    *)
(* the callback ends in a ValueError and the round goes on.                *)
Heard == {a \in refs : reports[0][a] # None}
Candidates == CASE choice = "forced" -> {Max(Anchors)}
                [] choice = "random" -> refs
                [] choice = "best"   -> Heard

select_beacon ==
  /\ timer = "timeout"
  /\ IF Candidates = {}
     THEN timer' = "loop" /\ failed' = TRUE /\ UNCHANGED <<beacon, ctl>>
     ELSE \E a \in Candidates :
            /\ beacon' = a
            /\ ctl' = ctl \cup {[type |-> "REGISTER", to |-> a]}
            /\ timer' = "finish" /\ UNCHANGED failed
  /\ UNCHANGED <<armed, list, collisions, taken, sock, net, ranging, reports, config, registered, toSend, tag, used>>

(* Mutant: the flag is lowered only if a position was computed.            *)
ClearLocated == /\ timer = "clear"
                /\ ranging' = (used = {})
                /\ timer' = "loop" /\ used' = {}
                /\ UNCHANGED <<armed, list, collisions, taken, sock, net, reports, beacon, config, anchors, tag, failed>>

(* Tag.finish_ranging: the timers, then the flag.                          *)
finish_ranging ==
  /\ timer = "finish"
  /\ Unarm({"beacon", "ranging", "timeout"})
  /\ timer' = "clear"
  /\ UNCHANGED <<sock, net, tagVars>>

Clear == /\ timer = "clear"
         /\ ranging' = FALSE
         /\ timer' = "loop" /\ used' = {}
         /\ UNCHANGED <<armed, list, collisions, taken, sock, net, reports, beacon, config, anchors, tag, failed>>

SocketThread == \/ add_blink \/ ArmTimeout \/ Reset \/ StoreBlink
                \/ add_beacon \/ StoreBeacon \/ UnarmBeacon
                \/ add_ranging \/ StoreRanging
                \/ Post /\ UNCHANGED tagVars
TimerThread  == \/ Expire /\ UNCHANGED tagVars
                \/ beacon_expire \/ ranging_expire \/ select_beacon
                \/ finish_ranging \/ Clear
TagNext == \/ SocketThread \/ TimerThread \/ Blink \/ Beacon \/ ControlArrives \/ TagTime
           \/ OthersTook /\ UNCHANGED tagVars

-----------------------------------------------------------------------------
TagTypeOK ==
  /\ ranging \in BOOLEAN /\ failed \in BOOLEAN
  /\ reports \in [0 .. 2 -> [Anchors -> 0 .. Blinks]]
  /\ beacon \in Anchors \cup {None}
  /\ registered \subseteq Anchors /\ toSend \subseteq Anchors
  /\ blink \in 0 .. Blinks /\ since \in 0 .. BlinkPeriod

(* A round is always watched: while the flag is up, a timeout that will    *)
(* lower it is armed and has an entry, or shares one, or the timer thread  *)
(* is about to lower it.  The flag is raised after the timeouts are armed  *)
(* and lowered after they are unarmed, in steps between which the other    *)
(* thread runs.  Not so once select_beacon has raised, as finish_ranging   *)
(* was not reached, nor once others have taken the entry.                  *)
Listed(who) == \E p \in DOMAIN list : who \in list[p].sharers

RangingWatched ==
  ranging /\ ~failed /\ "timeout" \notin taken
    => \/ "timeout" \in armed /\ Listed("timeout")
       \/ timer \in {"timeout", "ranging", "finish", "clear"}

(* Every round comes to an end, whatever datagrams are lost, and even if   *)
(* the entry of its timeout is overwritten by the tag itself: that is then *)
(* ranging_timer, which ends the round as well.  Another tag's or an       *)
(* anchor's timeout with the same expiry may leave the round without one.  *)
RangingEnds == ranging ~> ~ranging \/ failed \/ "timeout" \in taken

(* The same without that exception: a round may last for ever.             *)
AlwaysEnds == ranging ~> ~ranging \/ failed

(* A position is computed from the frames of one blink, although no frame  *)
(* says which blink it belongs to and reports arrive in any order, up to   *)
(* MaxDelay late: the round of one blink is over before the next, unless   *)
(* its timeout has been taken by others.                                   *)
OneBlink == ~failed /\ "timeout" \notin taken => Cardinality(used) <= 1
=============================================================================
