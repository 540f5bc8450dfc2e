---------------------------- MODULE HostLibrary ----------------------------
(***************************************************************************)
(* The host library python/blinks.py in a calibration program: the main    *)
(* thread connects to the anchors, calls them (RPC.call) and waits for     *)
(* blinks (Blinks.wait_blinks), the thread RPC.run receives. The two share *)
(* calls, handler and blinks. A step is what the interpreter runs between  *)
(* two points at which the other thread can tell the difference.           *)
(***************************************************************************)
EXTENDS Anchord, FiniteSetsExt

CONSTANTS Tuned,    \* the anchors that it connects to last, and tunes
          Values,   \* the values a program gives the attribute, Bad one of them
          Calls,    \* bound: calls made, the two connects included
          Blinks,   \* bound: blinks sent
          Halvings  \* how often wait_blinks halves its time before it gives up

ASSUME HostAssumption == Tuned \subseteq Anchors

VARIABLES
    seqnum,   \* RPC.seqnum
    calls,    \* RPC.calls: seqn |-> [data, set]
    handler,  \* the <<func, seqn>> registered in RPC.handler
    devices,  \* the anchors connected to
    euis,     \* those whose eui is known: a GETEUI given up leaves None
    sent,     \* [Anchors -> value]: the last good value asked for
    main,     \* where the main thread is
    op,       \* its call, or the message it sends
    answer,   \* what the last call returned; None is {}
    synced,   \* the anchors that answered a call made after the UDP message
    bid,      \* Blinks.bid
    blinks,   \* Blinks.blinks: bid |-> the anchors that have reported
    round,    \* the bids of this round
    missing,  \* wait_blinks: the bid found incomplete, 0 for none
    left,     \* the halvings left
    notified, \* the condition it waits on has been notified
    rx,       \* where the receiving thread is
    msg       \* the message it handles

rpcVars   == <<seqnum, calls, handler>>
mainVars  == <<devices, euis, sent, main, op, answer, synced>>
blinkVars == <<bid, round, missing, left>>
vars == <<daemonVars, rpcVars, mainVars, blinkVars, blinks, notified, rx, msg>>

None    == [func |-> "none"]
Message(func, a, seqn, value) == [func |-> func, anchor |-> a, seqn |-> seqn, value |-> value]

(* The program starts with the anchors that it does not tune connected.    *)
Init == /\ DaemonInit(Anchors \ Tuned)
        /\ seqnum = 1 /\ calls = << >> /\ handler = {}
        /\ devices = Anchors \ Tuned /\ euis = devices /\ sent = [a \in Anchors |-> 0] /\ synced = {}
        /\ main = "idle" /\ op = None /\ answer = None
        /\ bid = 1 /\ blinks = << >> /\ round = {} /\ missing = 0 /\ left = 0
        /\ notified = FALSE
        /\ rx = "poll" /\ msg = None

Without(f, x) == [y \in DOMAIN f \ {x} |-> f[y]]
With(f, x, v) == [y \in DOMAIN f \cup {x} |-> IF y = x THEN v ELSE f[y]]

-----------------------------------------------------------------------------
(* The main thread calls an anchor                                         *)

(* sendall to a daemon that has died raises, or the data is lost.          *)
Sends(a, m) == IF a \in dead THEN UNCHANGED toAnchor
               ELSE toAnchor' = [toAnchor EXCEPT ![a] = Append(@, m)]
MayRaise(a, next) == main' \in {next} \cup (IF a \in dead THEN {"raised"} ELSE {})

SameSeqnum == seqnum
NextSeqnum == seqnum + 1

(* RPC.call up to the wait: get_seqnum, init_call, sendargs.               *)
call(func, a, value) ==
    LET m == Message(func, a, seqnum, value) IN
    /\ main = "idle" /\ seqnum <= Calls
    /\ seqnum' = NextSeqnum
    /\ calls' = With(calls, seqnum, [data |-> None, set |-> FALSE])
    /\ handler' = handler \cup {<<func, seqnum>>}
    /\ Sends(a, m) /\ MayRaise(a, "wait")
    /\ op' = m /\ answer' = None
    /\ sent' = IF func = "SETDWATTR" /\ value # Bad THEN [sent EXCEPT ![a] = value] ELSE sent
    /\ UNCHANGED <<buff, busy, toHost, attr, udpPipes, dead, radio,
                   devices, euis, synced, blinkVars, blinks, notified, rx, msg>>

(* connect, of one anchor after the other, calls GETEUI; then the program  *)
(* reads and writes attributes.                                            *)
Connect == \E a \in Anchors \ devices : call("GETEUI", a, 0)
SetAttr == devices = Anchors /\ \E a \in Tuned, v \in Values : call("SETDWATTR", a, v)
GetAttr == devices = Anchors /\ \E a \in Tuned : call("GETDWATTR", a, 0)

MainStep(from, to) == main = from /\ main' = to

(* wait_call_return: the event is set, or the second is over. It reads the *)
(* data, whichever it was, and finish_call unregisters the handler ...     *)
WaitForEver ==
    /\ MainStep("wait", "finish")
    /\ calls[op.seqn].set
    /\ answer' = calls[op.seqn].data
    /\ handler' = handler \ {<<op.func, op.seqn>>}
    /\ UNCHANGED <<daemonVars, seqnum, calls, devices, euis, sent, op, synced,
                   blinkVars, blinks, notified, rx, msg>>

wait_call_return ==
    /\ MainStep("wait", "finish")
    /\ answer' = calls[op.seqn].data
    /\ handler' = handler \ {<<op.func, op.seqn>>}
    /\ UNCHANGED <<daemonVars, seqnum, calls, devices, euis, sent, op, synced,
                   blinkVars, blinks, notified, rx, msg>>

(* ... and takes the lock once more to pop the call. An answered call that *)
(* was made after the UDP message had come behind it.                      *)
finish_call ==
    /\ MainStep("finish", IF op.func = "GETEUI" THEN "bcast" ELSE "idle")
    /\ calls' = Without(calls, op.seqn)
    /\ devices' = devices \cup {op.anchor}
    /\ euis' = IF op.func = "GETEUI" /\ answer # None THEN euis \cup {op.anchor} ELSE euis
    /\ synced' = IF op.func # "GETEUI" /\ answer # None THEN synced \cup {op.anchor} ELSE synced
    /\ op' = (IF op.func = "GETEUI" THEN op ELSE None) /\ answer' = None
    /\ UNCHANGED <<daemonVars, seqnum, handler, sent, blinkVars, blinks, notified, rx, msg>>

(* The rest of connect: the UDP port goes down the same stream.            *)
RegisterByDatagram ==
    /\ main = "bcast" /\ main' = "idle" /\ op' = None
    /\ UNCHANGED <<daemonVars, rpcVars, devices, euis, sent, answer, synced,
                   blinkVars, blinks, notified, rx, msg>>

register_udp_bcast ==
    /\ main = "bcast"
    /\ Sends(op.anchor, Message("UDP", op.anchor, 0, 0)) /\ MayRaise(op.anchor, "idle")
    /\ op' = None
    /\ UNCHANGED <<buff, busy, toHost, attr, udpPipes, dead, radio, rpcVars,
                   devices, euis, sent, answer, synced, blinkVars, blinks, notified, rx, msg>>

-----------------------------------------------------------------------------
(* The main thread sends blinks and waits for the reports                  *)

blink(a) ==
    /\ main = "idle" /\ devices = Anchors /\ bid <= Blinks
    /\ bid' = bid + 1
    /\ blinks' = With(blinks, bid, {})
    /\ round' = round \cup {bid}
    /\ beacons' = IF a \in dead THEN beacons ELSE beacons \cup {<<a, bid>>}
    /\ UNCHANGED <<stream, pending, reports, losses, rpcVars, mainVars,
                   missing, left, notified, rx, msg>>

(* A device is looked for under its eui, and None is never found.          *)
Complete(b) == Anchors \subseteq blinks[b] \cap euis
Incomplete  == {b \in round : ~Complete(b)}

wait_blinks == /\ MainStep("idle", "test") /\ round # {}
               /\ left' = Halvings
               /\ UNCHANGED <<daemonVars, rpcVars, devices, euis, sent, op, answer, synced,
                              bid, round, missing, blinks, notified, rx, msg>>

(* blinks_accounted_for looks without the lock, and names the first bid.   *)
blinks_accounted_for ==
    /\ main = "test"
    /\ missing' = IF Incomplete = {} THEN 0 ELSE Min(Incomplete)
    /\ main' = IF Incomplete = {} THEN "use" ELSE "missing"
    /\ UNCHANGED <<daemonVars, rpcVars, devices, euis, sent, op, answer, synced,
                   bid, round, left, blinks, notified, rx, msg>>

(* Then it takes the condition's lock and waits, whatever has come since.  *)
Nap == /\ MainStep("missing", "nap")
       /\ notified' = FALSE
       /\ UNCHANGED <<daemonVars, rpcVars, devices, euis, sent, op, answer, synced,
                      bid, round, missing, left, blinks, rx, msg>>

(* Half the time is over, or less when notified; all of it ends the loop.  *)
AfterNap == IF left' = 0 THEN "use" ELSE "test"
WakeUp == /\ main = "nap"
          /\ left' \in {left - 1} \cup (IF notified THEN {left} ELSE {})
          /\ main' = AfterNap
          /\ UNCHANGED <<daemonVars, rpcVars, devices, euis, sent, op, answer, synced,
                         bid, round, missing, blinks, notified, rx, msg>>

(* The program reads the reports and purges its blinks, with reports still *)
(* to come or not. A report that it cannot do without raises KeyError      *)
(* first, and the blinks stay for good.                                    *)
purge_blinks ==
    /\ MainStep("use", "idle")
    /\ \/ blinks' = [b \in DOMAIN blinks \ round |-> blinks[b]]
       \/ Incomplete # {} /\ UNCHANGED blinks
    /\ round' = {} /\ missing' = 0 /\ left' = 0 /\ notified' = FALSE
    /\ UNCHANGED <<daemonVars, rpcVars, devices, euis, sent, op, answer, synced,
                   bid, rx, msg>>

-----------------------------------------------------------------------------
(* The receiving thread                                                    *)

RxStep(from) == rx = from /\ UNCHANGED <<seqnum, handler, mainVars, blinkVars>>
RxGoes(to)   == rx' = to /\ msg' = IF to = "poll" THEN None ELSE msg

(* recvmsg catches and reports every exception of a handler.               *)
EndsThread == "dead"
AfterError == "poll"

Registered(m) == <<m.func, m.seqn>> \in handler /\ m.seqn \in DOMAIN calls

(* An answer on a TCP stream: recvmsg looks for its handler, and           *)
(* handle_call_return for the call, which may be gone at each later step.  *)
recvmsg(a) ==
    LET m == Head(toHost[a])
    IN /\ RxStep("poll") /\ toHost[a] # <<>>
       /\ toHost' = [toHost EXCEPT ![a] = Tail(@)]
       /\ IF Registered(m) THEN rx' = "data" /\ msg' = m ELSE UNCHANGED <<rx, msg>>
       /\ UNCHANGED <<toAnchor, buff, busy, attr, udpPipes, dead, radio, calls, blinks, notified>>

(* The data of the call, or KeyError ...                                   *)
StoreInNew == /\ RxStep("data")
              /\ calls' = With(calls, msg.seqn, [data |-> msg, set |-> FALSE]) /\ RxGoes("set")
              /\ UNCHANGED <<daemonVars, blinks, notified>>

StoreData == /\ RxStep("data")
             /\ IF msg.seqn \in DOMAIN calls
                THEN calls' = [calls EXCEPT ![msg.seqn].data = msg] /\ RxGoes("set")
                ELSE UNCHANGED calls /\ RxGoes(AfterError)
             /\ UNCHANGED <<daemonVars, blinks, notified>>

(* ... and its event.                                                      *)
SetEvent == /\ RxStep("set")
            /\ IF msg.seqn \in DOMAIN calls
               THEN calls' = [calls EXCEPT ![msg.seqn].set = TRUE] /\ RxGoes("poll")
               ELSE UNCHANGED calls /\ RxGoes(AfterError)
            /\ UNCHANGED <<daemonVars, blinks, notified>>

(* A report by UDP: handle_blink looks whether the blink is known ...      *)
handle_blink(a, b) ==
    /\ RxStep("poll") /\ <<a, b>> \in reports
    /\ reports' = reports \ {<<a, b>>}
    /\ IF b \in DOMAIN blinks
       THEN rx' = "store" /\ msg' = Message("report", a, 0, b)
       ELSE UNCHANGED <<rx, msg>>
    /\ UNCHANGED <<stream, beacons, pending, losses, calls, blinks, notified>>

(* ... and stores it under the blink's lock, if it has not been purged.    *)
StoreBlink ==
    LET b == msg.value
    IN /\ RxStep("store")
       /\ IF b \in DOMAIN blinks
          THEN /\ blinks' = [blinks EXCEPT ![b] = @ \cup {msg.anchor}]
               /\ notified' = (notified \/ (main = "nap" /\ missing = b))
               /\ RxGoes("poll")
          ELSE UNCHANGED <<blinks, notified>> /\ RxGoes(AfterError)
       /\ UNCHANGED <<daemonVars, calls>>

-----------------------------------------------------------------------------
MainWaits   == wait_call_return \/ finish_call \/ register_udp_bcast
               \/ blinks_accounted_for \/ Nap \/ WakeUp \/ purge_blinks
MainChooses == Connect \/ SetAttr \/ GetAttr \/ wait_blinks \/ \E a \in Anchors : blink(a)
Receiver    == \/ StoreData \/ SetEvent \/ StoreBlink
               \/ \E a \in Anchors : recvmsg(a)
               \/ \E r \in reports : handle_blink(r[1], r[2])

Outside(A) == A /\ UNCHANGED <<rpcVars, mainVars, blinkVars, blinks, notified, rx, msg>>
Daemons    == Outside(\E a \in Anchors : Daemon(a))
Faults     == Outside(Lose \/ \E a \in Anchors : Crash(a))

Next == MainWaits \/ MainChooses \/ Receiver \/ Daemons \/ Faults

(* The two threads run and the daemons serve; nobody has to call or blink, *)
(* and nothing has to be lost or die.                                      *)
Spec == /\ Init /\ [][Next]_vars
        /\ WF_vars(MainWaits) /\ WF_vars(Receiver) /\ WF_vars(Daemons)

-----------------------------------------------------------------------------
TypeOK ==
    /\ seqnum \in 1 .. Calls + 1 /\ DOMAIN calls \subseteq 1 .. Calls
    /\ DOMAIN blinks \subseteq 1 .. Blinks /\ round \subseteq 1 .. Blinks
    /\ \A b \in DOMAIN blinks : blinks[b] \subseteq Anchors
    /\ bid \in 1 .. Blinks + 1 /\ left \in 0 .. Halvings /\ losses \in 0 .. Losses
    /\ attr \in [Anchors -> Values \cup {0}] /\ sent \in [Anchors -> Values \cup {0}]
    /\ euis \subseteq devices /\ devices \subseteq Anchors /\ synced \subseteq Anchors /\ dead \subseteq Anchors
    /\ main \in {"idle", "wait", "finish", "bcast", "raised",
                 "test", "missing", "nap", "use"}
    /\ rx \in {"poll", "data", "set", "store"}

(* What a call returns is the answer to that call and to no other, and     *)
(* says what the anchor has now: its attribute is the last good value sent.*)
(* Late answers of calls given up, requests queued behind each other and   *)
(* requests stranded behind a refused one do not mix.                      *)
AnswerIsCurrent ==
    (main = "finish" /\ answer # None) =>
        /\ answer.seqn = op.seqn /\ answer.anchor = op.anchor
        /\ answer.func = "GETEUI" \/ answer.value = sent[op.anchor]
        /\ attr[op.anchor] = sent[op.anchor]

(* Between calls nothing of a call is left, whatever comes late: neither   *)
(* its handler nor its entry. Only a call that raised leaves both.         *)
NothingLeft == main \in {"idle", "test", "missing", "nap", "use"} =>
                   DOMAIN calls = {} /\ handler = {}

(* Beacons are asked for by UDP, which may overtake the UDP registration   *)
(* in the TCP stream and is then dropped. After one answered call it may   *)
(* not: that anchor has registered the host.                               *)
BlinksAccepted == \A a \in synced \ dead : a \in udpPipes

(* A call comes to an end, answered, given up or raised, and a wait for    *)
(* blinks ends with its time, whatever is lost or dies.                    *)
MainReturns == main \in {"wait", "test"} ~> main \in {"idle", "raised"}

(* Every answer and report that arrives is taken from the network: no race *)
(* with the main thread ends the receiving thread.                         *)
ReceiverLives == []<>(rx = "poll" /\ \A a \in Anchors : toHost[a] = <<>>)

=============================================================================
