------------------------------ MODULE Anchord ------------------------------
(***************************************************************************)
(* The anchors' daemons (calib/anchord.py) as one host program sees them:  *)
(* each serves the host's TCP stream of requests one message at a time,    *)
(* sends the beacons the host asks for by UDP, and reports every beacon    *)
(* it sends or hears to the clients that registered for UDP.               *)
(*                                                                         *)
(* The network: a TCP stream each way per anchor, in order and lossless    *)
(* until the daemon dies; datagrams and radio frames unordered and lossy.  *)
(* A message is a record [func, anchor, seqn, value].                      *)
(***************************************************************************)
EXTENDS Integers, Sequences, FiniteSets, SequencesExt

CONSTANTS Anchors,   \* the anchors
          Losses,    \* bound: datagrams and frames lost
          Crashes,   \* bound: daemons that die
          Bad        \* the value that a DW1000 attribute refuses

VARIABLES
    toAnchor,   \* [Anchors -> Seq(message)]: what the daemon has not read
    buff,       \* [Anchors -> Seq(message)]: read and not yet handled
    busy,       \* the anchors whose daemon is inside recv_tcp_client
    toHost,     \* [Anchors -> Seq(message)]: answers on their way
    attr,       \* [Anchors -> value]: a DW1000 attribute of the anchor
    udpPipes,   \* the anchors with the host in socks.udp_pipes and udp_addrs
    dead,       \* the anchors whose daemon has died
    beacons,    \* datagrams to the daemons: <<anchor, bid>>
    pending,    \* frames at the WPAN socket: <<anchor, bid>>
    reports,    \* datagrams to the host: <<anchor, bid>>
    losses      \* datagrams and frames lost so far

daemonVars == <<toAnchor, buff, busy, toHost, attr, udpPipes, dead, beacons, pending, reports, losses>>
stream     == <<toAnchor, buff, busy, toHost, attr, udpPipes, dead>>
radio      == <<beacons, pending, reports, losses>>

DaemonInit(registered) ==
    /\ toAnchor = [a \in Anchors |-> <<>>] /\ buff = [a \in Anchors |-> <<>>]
    /\ toHost = [a \in Anchors |-> <<>>]
    /\ attr = [a \in Anchors |-> 0]
    /\ busy = {} /\ udpPipes = registered /\ dead = {}
    /\ beacons = {} /\ pending = {} /\ reports = {} /\ losses = 0

-----------------------------------------------------------------------------
(* Requests                                                                *)

(* The TCP socket is readable: recv_tcp_client reads all there is, behind  *)
(* what an exception left in the buffer.                                   *)
recv_tcp_client(a) ==
    /\ a \notin busy \cup dead /\ toAnchor[a] # <<>>
    /\ buff' = [buff EXCEPT ![a] = @ \o toAnchor[a]]
    /\ toAnchor' = [toAnchor EXCEPT ![a] = <<>>]
    /\ busy' = busy \cup {a}
    /\ UNCHANGED <<toHost, attr, udpPipes, dead, radio>>

(* recv_client_rpc: SETDWATTR answers with what the attribute reads after. *)
Stored(m, old) == IF m.func = "SETDWATTR" THEN m.value ELSE old
Value(m, new)  == IF m.func = "GETEUI" THEN m.anchor ELSE new

(* The attribute refuses a bad value: the exception leaves recv_tcp_client *)
(* for socket_loop. No answer, and what follows in the buffer stays there. *)
Refused(m) == m.func = "SETDWATTR" /\ m.value = Bad

(* recv_client_msg for the next message; after the last, back to the poll. *)
recv_client_msg(a) ==
    LET m   == Head(buff[a])
        new == Stored(m, attr[a])
    IN /\ a \in busy
       /\ buff' = [buff EXCEPT ![a] = Tail(@)]
       /\ busy' = IF Refused(m) \/ buff'[a] = <<>> THEN busy \ {a} ELSE busy
       /\ udpPipes' = IF m.func = "UDP" THEN udpPipes \cup {a} ELSE udpPipes
       /\ IF Refused(m) \/ m.func = "UDP"
          THEN UNCHANGED <<toHost, attr>>
          ELSE /\ attr' = [attr EXCEPT ![a] = new]
               /\ toHost' = [toHost EXCEPT ![a] = Append(@, [m EXCEPT !.value = Value(m, new)])]
       /\ UNCHANGED <<toAnchor, dead, radio>>

-----------------------------------------------------------------------------
(* Beacons and reports, from the poll only                                 *)

Heard(a, bid) == {<<r, bid>> : r \in Anchors}

(* A BEACON datagram of an unregistered address is dropped unseen. Sent,   *)
(* the frame comes back on this anchor's error queue and to the others.    *)
recv_udp_client(a, bid) ==
    /\ a \notin busy \cup dead /\ <<a, bid>> \in beacons
    /\ beacons' = beacons \ {<<a, bid>>}
    /\ pending' = IF a \in udpPipes THEN pending \cup Heard(a, bid) ELSE pending
    /\ UNCHANGED <<stream, reports, losses>>

(* recv_blink and recv_times: one report to every UDP client.              *)
send_udp_client(a, bid) ==
    /\ a \notin busy \cup dead /\ <<a, bid>> \in pending
    /\ pending' = pending \ {<<a, bid>>}
    /\ reports' = IF a \in udpPipes THEN reports \cup {<<a, bid>>} ELSE reports
    /\ UNCHANGED <<stream, beacons, losses>>

Lose == /\ losses < Losses /\ losses' = losses + 1
        /\ \/ \E b \in beacons : beacons' = beacons \ {b} /\ UNCHANGED <<pending, reports>>
           \/ \E p \in pending : pending' = pending \ {p} /\ UNCHANGED <<beacons, reports>>
           \/ \E r \in reports : reports' = reports \ {r} /\ UNCHANGED <<beacons, pending>>
        /\ UNCHANGED stream

(* A daemon dies: its clients, its buffer and what it had not read or the  *)
(* host had not received are gone. A new one does not know the host, who   *)
(* does not connect again. The attribute is the kernel's and stays.        *)
Crash(a) ==
    /\ a \notin dead /\ Cardinality(dead) < Crashes
    /\ dead' = dead \cup {a} /\ udpPipes' = udpPipes \ {a} /\ busy' = busy \ {a}
    /\ toAnchor' = [toAnchor EXCEPT ![a] = <<>>] /\ buff' = [buff EXCEPT ![a] = <<>>]
    /\ \E kept \in Prefixes(toHost[a]) : toHost' = [toHost EXCEPT ![a] = kept]
    /\ pending' = {p \in pending : p[1] # a} /\ beacons' = {b \in beacons : b[1] # a}
    /\ UNCHANGED <<attr, reports, losses>>

Daemon(a) == \/ recv_tcp_client(a) \/ recv_client_msg(a)
             \/ \E b \in beacons : recv_udp_client(a, b[2])
             \/ \E p \in pending : send_udp_client(a, p[2])

=============================================================================
