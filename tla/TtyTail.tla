------------------------------ MODULE TtyTail ------------------------------
(***************************************************************************)
(* An anchor: the kernel driver kernel/ttytail/ttytail.c on one end of a   *)
(* serial cable, the command line of the firmware, firmware/src/cli.c, on  *)
(* the other.                                                              *)
(*                                                                         *)
(* Actors: the open worker, the transmit worker, the line discipline's     *)
(* receiver and the network stack on the host; the main loop (cli_poll)    *)
(* and the radio's interrupt on the device.                                *)
(*                                                                         *)
(* A command is written in two pieces, so that partial writes and          *)
(* commands cut short exist; the device's answers are whole lines, of which *)
(* those the driver ignores (prompts, the banner, most echoes) are left    *)
(* out.  Frames are numbers, transmitted and received ones counted apart; a *)
(* timestamp names its frame.                                              *)
(***************************************************************************)
EXTENDS Integers, Sequences, SequencesExt

CONSTANTS TxFrames, RxFrames,  \* bounds: transmissions, frames on the air
          Opens,               \* bound: how often the port is opened again
          Faults               \* bound: lost lines, lost input, restarts

ASSUME TtyTailAssumption == {TxFrames, RxFrames, Opens, Faults} \subseteq Nat

None == 0

VARIABLES
  \* struct ttytail
  opener,    \* where ttytail_open_worker is, "registered" or "failed"
  ready, echo_off, eui64,
  line,      \* tx.line: [cmd, frame, offset], two pieces long
  work,      \* tx.work: "idle", "queued" or "counting" what it wrote
  wrote,     \* pieces written and not yet counted
  again,     \* tx.work has been queued again while it runs
  tx_skb, rx_skb,
  \* the cable
  down,      \* pieces on their way to the device
  up,        \* lines on their way to the driver
  \* the device
  clibuf,    \* pieces of the command line so far
  where,     \* where cli_poll is: "poll", "time" or "read"
  echo, pending, txcomplete, rxcomplete, txtime, rxtime, rxactive,
  radio,     \* "off", "rx" or "tx"
  \* history and bounds
  completed, delivered,
  mixed,     \* a line about a received frame has been lost
  broken,    \* the answer to a transmission may never come
  clobbered, \* a line was started before the last one was written
  taken,     \* transmissions accepted from the network stack
  heard,     \* frames the radio has received
  opens, faults

driver == <<opener, ready, echo_off, eui64, line, work, wrote, again, tx_skb, rx_skb>>
cli    == <<clibuf, where, echo, pending, txcomplete, rxcomplete, txtime, rxtime, rxactive, radio>>
logs   == <<completed, delivered>>
hist   == <<mixed, broken, clobbered, taken, heard, opens, faults>>
vars   == <<driver, down, up, cli, logs, hist>>

-----------------------------------------------------------------------------
(* The transmit datapath.                                                  *)
Pieces(l)       == << <<l.cmd, l.frame, 1>>, <<l.cmd, l.frame, 2>> >>
ttytail_tx_idle == line.offset = 2
Counting        == work = "counting"

(* schedule_work: a work item that runs is queued once more, one that is   *)
(* queued already is not.                                                  *)
Schedule == IF Counting THEN again' = TRUE /\ UNCHANGED <<work, wrote>>
                        ELSE work' = "queued" /\ UNCHANGED <<wrote, again>>

(* ttytail_tx_start.  WARN_ON(!ttytail_tx_idle) is only a warning: the line *)
(* is overwritten.                                                         *)
ttytail_tx_start(cmd, frame) ==
  /\ line' = [cmd |-> cmd, frame |-> frame, offset |-> 0]
  /\ Schedule
  /\ clobbered' = (clobbered \/ ~ttytail_tx_idle \/ Counting)

(* ttytail_tx_worker: write what the tty has room for ...                  *)
WorkerWrite ==
  /\ work = "queued"
  /\ IF ttytail_tx_idle
     THEN work' = "idle" /\ UNCHANGED <<wrote, down>>
     ELSE \E n \in 0 .. 2 - line.offset :
            /\ down' = down \o SubSeq(Pieces(line), line.offset + 1, line.offset + n)
            /\ work' = "counting" /\ wrote' = n
  /\ UNCHANGED <<opener, ready, echo_off, eui64, line, again, tx_skb, rx_skb, up, cli, logs, hist>>

(* ... then count it: into the wrong line, if another one has been started *)
(* meanwhile; that is overwriting, too.                                    *)
WorkerCount ==
  /\ Counting
  /\ line' = [line EXCEPT !.offset = @ + wrote]
  /\ work' = IF again THEN "queued" ELSE "idle"
  /\ wrote' = 0
  /\ again' = FALSE
  /\ UNCHANGED <<opener, ready, echo_off, eui64, tx_skb, rx_skb, down, up, cli, logs, hist>>

(* The tty has room again.  tty_wakeup calls this only while the tty has    *)
(* TTY_DO_WRITE_WAKEUP set, which ttytail.c never sets: it happens only if  *)
(* somebody else has, and the rest of a line may stay unwritten for ever.  *)
ttytail_write_wakeup ==
  /\ work = "idle" /\ ~ttytail_tx_idle
  /\ Schedule
  /\ UNCHANGED <<opener, ready, echo_off, eui64, line, tx_skb, rx_skb, down, up, cli, logs, hist>>

-----------------------------------------------------------------------------
(* Opening: ttytail_open, then ttytail_config in the open worker.          *)
Advance(from, condition, to) == /\ opener = from
                                /\ condition
                                /\ opener' = to
                                /\ UNCHANGED <<eui64, tx_skb, rx_skb, down, up, cli, logs, mixed, broken, taken, heard, opens, faults>>

ttytail_reset == /\ Advance("reset", ~Counting, "ready")
                 /\ ready' = FALSE
                 /\ ttytail_tx_start("reset", None)
                 /\ UNCHANGED echo_off

ConfigEcho == /\ Advance("ready", ready, "echo")
              /\ echo_off' = FALSE
              /\ ttytail_tx_start("echo", None)
              /\ UNCHANGED ready

ConfigEui == /\ Advance("echo", echo_off, "eui")
             /\ ttytail_tx_start("eui", None)
             /\ UNCHANGED <<ready, echo_off>>

ConfigRx == /\ Advance("eui", eui64, "rx")
            /\ ttytail_tx_start("rx", None)
            /\ UNCHANGED <<ready, echo_off>>

RegisterUnwritten == /\ Advance("rx", TRUE, "registered")
                     /\ UNCHANGED <<ready, echo_off, line, work, wrote, again, clobbered>>

Register == /\ Advance("rx", ttytail_tx_idle, "registered")
            /\ UNCHANGED <<ready, echo_off, line, work, wrote, again, clobbered>>

Busy == \/ work # "idle" \/ down # << >> \/ up # << >>
        \/ where # "poll" \/ pending \/ rxcomplete

(* TTYTAIL_TIMEOUT is 3 s, far longer than any answer that still comes.    *)
Timeout == /\ ~Busy
           /\ \/ opener = "ready" /\ ~ready
              \/ opener = "echo"  /\ ~echo_off
              \/ opener = "eui"   /\ ~eui64
              \/ opener = "rx"    /\ ~ttytail_tx_idle
           /\ opener' = "failed"
           /\ UNCHANGED <<ready, echo_off, eui64, line, work, wrote, again, tx_skb, rx_skb, down, up, cli, logs, hist>>

(* ttytail_close and ttytail_open: a new structure, all zero, for the same *)
(* device.  The open worker is no longer running, the transmit worker is   *)
(* cancelled where it is.                                                  *)
Reopen == /\ opener \in {"registered", "failed"} /\ ~Counting
          /\ opens < Opens
          /\ opens' = opens + 1
          /\ opener' = "reset"
          /\ ready' = FALSE /\ echo_off' = FALSE /\ eui64' = FALSE
          /\ line' = [cmd |-> "", frame |-> None, offset |-> 2]
          /\ work' = "idle" /\ wrote' = 0 /\ again' = FALSE
          /\ tx_skb' = None /\ rx_skb' = None
          /\ UNCHANGED <<down, up, cli, logs, mixed, broken, clobbered, taken, heard, faults>>

(* ttytail_xmit_async.  -ENOBUFS, while there is a transmission, leaves     *)
(* everything as it is.                                                    *)
ttytail_xmit_async == /\ opener = "registered"
                      /\ tx_skb = None
                      /\ taken < TxFrames
                      /\ taken' = taken + 1
                      /\ tx_skb' = taken + 1
                      /\ ttytail_tx_start("tx", taken + 1)
                      /\ UNCHANGED <<opener, ready, echo_off, eui64, rx_skb, down, up, cli, logs, mixed, broken, heard, opens, faults>>

(* ttytail_stop, and the interface up again: a line half written stays so  *)
(* until the tty has room again.                                           *)
ttytail_stop == /\ opener = "registered" /\ ~Counting
                /\ opens < Opens
                /\ opens' = opens + 1
                /\ work' = "idle" /\ wrote' = 0 /\ again' = FALSE
                /\ broken' = (broken \/ tx_skb # None)
                /\ UNCHANGED <<opener, ready, echo_off, eui64, line, tx_skb, rx_skb, down, up, cli, logs, mixed, clobbered, taken, heard, faults>>

-----------------------------------------------------------------------------
(* The receive datapath: ttytail_receive_buf2 hands complete lines to      *)
(* ttytail_rx.                                                             *)
Received(kind) == /\ up # << >> /\ Head(up)[1] = kind
                  /\ up' = Tail(up)
                  /\ UNCHANGED <<opener, line, work, wrote, again, down, cli, hist>>

RxReady == /\ Received("ready")
           /\ ready' = TRUE
           /\ UNCHANGED <<echo_off, eui64, tx_skb, rx_skb, logs>>

RxEcho == /\ Received("echo")
          /\ echo_off' = TRUE
          /\ UNCHANGED <<ready, eui64, tx_skb, rx_skb, logs>>

ttytail_rx_eui64 == /\ Received("eui")
                    /\ eui64' = TRUE
                    /\ UNCHANGED <<ready, echo_off, tx_skb, rx_skb, logs>>

(* A packet whose timestamp has not come is dropped.                       *)
ttytail_rx_packet == /\ Received("packet")
                     /\ rx_skb' = Head(up)[2]
                     /\ UNCHANGED <<ready, echo_off, eui64, tx_skb, logs>>

StampTxFirst == /\ Received("time")
                /\ IF tx_skb # None
                   THEN /\ completed' = Append(completed, <<tx_skb, Head(up)[2]>>)
                        /\ tx_skb' = None
                        /\ UNCHANGED <<rx_skb, delivered>>
                   ELSE /\ delivered' = IF rx_skb = None THEN delivered ELSE Append(delivered, <<rx_skb, Head(up)[2]>>)
                        /\ rx_skb' = None
                        /\ UNCHANGED <<tx_skb, completed>>
                /\ UNCHANGED <<ready, echo_off, eui64>>

(* The timestamp goes to the received packet if there is one, else to the  *)
(* transmission; a stray one goes nowhere.                                 *)
ttytail_rx_timestamp ==
  /\ Received("time")
  /\ \/ /\ rx_skb # None
        /\ delivered' = Append(delivered, <<rx_skb, Head(up)[2]>>)
        /\ rx_skb' = None
        /\ UNCHANGED <<tx_skb, completed>>
     \/ /\ rx_skb = None /\ tx_skb # None
        /\ completed' = Append(completed, <<tx_skb, Head(up)[2]>>)
        /\ tx_skb' = None
        /\ UNCHANGED <<rx_skb, delivered>>
     \/ /\ rx_skb = None /\ tx_skb = None
        /\ UNCHANGED <<tx_skb, rx_skb, logs>>
  /\ UNCHANGED <<ready, echo_off, eui64>>

-----------------------------------------------------------------------------
(* The device.  fn_reset and a restart leave it as after cli_init; what    *)
(* has already reached it is gone.                                         *)
cli_init == /\ clibuf' = << >> /\ where' = "poll" /\ echo' = TRUE /\ pending' = FALSE
            /\ txcomplete' = FALSE /\ rxcomplete' = FALSE /\ rxactive' = FALSE
            /\ txtime' = None /\ rxtime' = None
            /\ radio' = "off"
            /\ up' = Append(up, <<"ready">>)

(* cli_execute: what a line means.  A line that has been cut or run        *)
(* together is what its first word says, or not recognised.                *)
Whole(buf) == Len(buf) = 2 /\ buf = Pieces([cmd |-> buf[1][1], frame |-> buf[1][2]])

Meanings(buf) == IF buf # << >> /\ Whole(buf) THEN {buf[1]}
                 ELSE {<<"">>} \union {p \in {buf[i] : i \in DOMAIN buf \intersect {1}} : p[3] = 1}

fn_reset == /\ cli_init
            /\ \E n \in 1 .. Len(down) : down' = SubSeq(down, n + 1, Len(down))

fn_echo(whole) == /\ up' = IF whole /\ echo THEN Append(up, <<"echo">>) ELSE up
                  /\ echo' = FALSE
                  /\ UNCHANGED <<pending, txcomplete, rxcomplete, txtime, rxtime, rxactive, radio>>

fn_config_eui == /\ up' = Append(up, <<"eui">>)
                 /\ UNCHANGED <<echo, pending, txcomplete, rxcomplete, txtime, rxtime, rxactive, radio>>

fn_rx == /\ rxactive' = TRUE
         /\ radio' = IF radio = "tx" THEN "tx" ELSE "rx"
         /\ UNCHANGED <<up, echo, pending, txcomplete, rxcomplete, txtime, rxtime>>

(* The frame a transmission in progress sends is kept in txtime.           *)
fn_tx(f) == /\ radio' = "tx" /\ txtime' = f
            /\ pending' = TRUE
            /\ UNCHANGED <<up, echo, txcomplete, rxcomplete, rxtime, rxactive>>

Execute(buf, rest) ==
  \E m \in Meanings(buf) :
    \/ m[1] = "reset" /\ fn_reset
    \/ /\ m[1] # "reset"
       /\ \/ m[1] = "echo" /\ fn_echo(Whole(buf))
          \/ m[1] = "eui"  /\ fn_config_eui
          \/ m[1] = "rx"   /\ fn_rx
          \/ m[1] = "tx"   /\ fn_tx(m[2])
          \/ m[1] = ""     /\ UNCHANGED <<up, echo, pending, txcomplete, rxcomplete, txtime, rxtime, rxactive, radio>>
       /\ down' = Tail(down) /\ clibuf' = rest /\ where' = "read"

(* cli_poll reads its input while there is any, even after a command of    *)
(* the same loop has left something pending.  The line that resets the     *)
(* device begins with a line end, every command ends with one.             *)
cli_read ==
  /\ down # << >>
  /\ where = "read" \/ (where = "poll" /\ ~pending)
  /\ LET p == Head(down) IN
     IF p[1] = "reset" /\ p[3] = 1 THEN Execute(clibuf, <<p>>)
     ELSE IF p[3] = 2 THEN Execute(Append(clibuf, p), << >>)
     ELSE /\ clibuf' = Append(clibuf, p) /\ where' = "read"
          /\ down' = Tail(down)
          /\ UNCHANGED <<up, echo, pending, txcomplete, rxcomplete, txtime, rxtime, rxactive, radio>>
  /\ UNCHANGED <<driver, logs, hist>>

cli_read_end == /\ where = "read"
                /\ where' = "poll"
                /\ UNCHANGED <<driver, down, up, clibuf, echo, pending, txcomplete, rxcomplete, txtime, rxtime, rxactive, radio, logs, hist>>

TxPollStays == /\ where = "poll" /\ pending /\ txcomplete
               /\ txcomplete' = FALSE
               /\ up' = Append(up, <<"time", <<"tx", txtime>>>>)
               /\ UNCHANGED <<driver, down, clibuf, where, echo, pending, rxcomplete, txtime, rxtime, rxactive, radio, logs, hist>>

tx_poll == /\ where = "poll" /\ pending /\ txcomplete
           /\ txcomplete' = FALSE /\ pending' = FALSE
           /\ up' = Append(up, <<"time", <<"tx", txtime>>>>)
           /\ UNCHANGED <<driver, down, clibuf, where, echo, rxcomplete, txtime, rxtime, rxactive, radio, logs, hist>>

(* rx_poll prints the packet, then its timestamp, and then takes the next  *)
(* frame: a frame that comes meanwhile is dropped.                         *)
PrintPacket == /\ where = "poll" /\ ~pending /\ rxcomplete
               /\ up' = Append(up, <<"packet", rxtime>>)
               /\ where' = "time"
               /\ UNCHANGED <<driver, down, clibuf, echo, pending, txcomplete, rxcomplete, txtime, rxtime, rxactive, radio, logs, hist>>

PrintTime == /\ where = "time"
             /\ up' = Append(up, <<"time", <<"rx", rxtime>>>>)
             /\ rxcomplete' = FALSE
             /\ where' = "poll"
             /\ UNCHANGED <<driver, down, clibuf, echo, pending, txcomplete, txtime, rxtime, rxactive, radio, logs, hist>>

txrx_txdone == /\ radio = "tx"
               /\ txcomplete' = TRUE
               /\ radio' = IF rxactive THEN "rx" ELSE "off"
               /\ UNCHANGED <<driver, down, up, clibuf, where, echo, pending, rxcomplete, txtime, rxtime, rxactive, logs, hist>>

OverwriteRx == /\ radio = "rx" /\ heard < RxFrames
               /\ heard' = heard + 1
               /\ rxtime' = heard + 1 /\ rxcomplete' = TRUE
               /\ UNCHANGED <<driver, down, up, clibuf, where, echo, pending, txcomplete, txtime, rxactive, radio, logs, mixed, broken, clobbered, taken, opens, faults>>

(* A frame that comes while the last one has not been printed is dropped.  *)
txrx_rxdone == /\ radio = "rx" /\ heard < RxFrames
               /\ heard' = heard + 1
               /\ IF rxcomplete THEN UNCHANGED <<rxtime, rxcomplete>>
                  ELSE rxtime' = heard + 1 /\ rxcomplete' = TRUE
               /\ UNCHANGED <<driver, down, up, clibuf, where, echo, pending, txcomplete, txtime, rxactive, radio, logs, mixed, broken, clobbered, taken, opens, faults>>

-----------------------------------------------------------------------------
(* What may go wrong.  A line is lost or garbled on its way up.            *)
AboutReception(l) == l[1] = "packet" \/ (l[1] = "time" /\ l[2][1] = "rx")

Fault == faults < Faults /\ faults' = faults + 1

LoseLine == /\ Fault
            /\ \E i \in DOMAIN up :
                 /\ up' = RemoveAt(up, i)
                 /\ mixed' = (mixed \/ AboutReception(up[i]))
                 /\ broken' = (broken \/ ~AboutReception(up[i]))
            /\ UNCHANGED <<driver, down, cli, logs, clobbered, taken, heard, opens>>

(* Input overflows the 128 bytes of the device's queue while it prints.    *)
LoseInput == /\ Fault
             /\ where = "time"
             /\ \E i \in DOMAIN down : down' = RemoveAt(down, i)
             /\ broken' = TRUE
             /\ UNCHANGED <<driver, up, cli, logs, mixed, clobbered, taken, heard, opens>>

(* The device loses power and starts again.                                *)
Restart == /\ Fault
           /\ cli_init
           /\ \E n \in 0 .. Len(down) : down' = SubSeq(down, n + 1, Len(down))
           /\ broken' = TRUE
           /\ mixed' = (mixed \/ where = "time")
           /\ UNCHANGED <<driver, logs, clobbered, taken, heard, opens>>

-----------------------------------------------------------------------------
(* The port is opened while the device starts up (its greeting is on the   *)
(* way) or later.                                                          *)
Init == /\ opener = "reset"
        /\ ready = FALSE /\ echo_off = FALSE /\ eui64 = FALSE
        /\ line = [cmd |-> "", frame |-> None, offset |-> 2]
        /\ work = "idle" /\ wrote = 0 /\ again = FALSE
        /\ tx_skb = None /\ rx_skb = None
        /\ down = << >>
        /\ up \in {<< >>, << <<"ready">> >>}
        /\ clibuf = << >> /\ where = "poll" /\ echo = TRUE /\ pending = FALSE
        /\ txcomplete = FALSE /\ rxcomplete = FALSE /\ rxactive = FALSE
        /\ txtime = None /\ rxtime = None
        /\ radio = "off"
        /\ completed = << >> /\ delivered = << >>
        /\ mixed = FALSE /\ broken = FALSE /\ clobbered = FALSE
        /\ taken = 0 /\ heard = 0 /\ opens = 0 /\ faults = 0

OpenWorker == ttytail_reset \/ ConfigEcho \/ ConfigEui \/ ConfigRx \/ Register \/ Timeout
TxWorker   == WorkerWrite \/ WorkerCount \/ ttytail_write_wakeup
Receiver   == RxReady \/ RxEcho \/ ttytail_rx_eui64 \/ ttytail_rx_packet \/ ttytail_rx_timestamp
Reading    == cli_read \/ cli_read_end
Printing   == tx_poll \/ PrintPacket \/ PrintTime

(* cli_poll finds nothing to do, or waits for the transmission to end.     *)
PollNothing == /\ where = "poll"
               /\ IF pending THEN ~txcomplete ELSE ~rxcomplete /\ down = << >>
               /\ UNCHANGED vars

(* A behaviour is followed until a line is overwritten: from there on the  *)
(* device may get anything.                                                *)
Next == \/ /\ ~clobbered
           /\ \/ OpenWorker \/ TxWorker \/ Receiver
              \/ Reading \/ Printing
              \/ txrx_txdone \/ txrx_rxdone
              \/ Reopen \/ ttytail_stop \/ ttytail_xmit_async
              \/ LoseLine \/ LoseInput \/ Restart
        \/ PollNothing
        \/ clobbered /\ UNCHANGED vars

(* Nothing has been lost and no line overwritten.                          *)
Sound == ~broken /\ ~mixed /\ ~clobbered

(* The host or the device goes on: nothing asks that each of them does, as *)
(* neither can go on for ever alone.  Nothing is asked after a fault, and  *)
(* nothing of ttytail_write_wakeup, which nobody promises to call.         *)
Going    == WorkerWrite \/ WorkerCount \/ Receiver \/ Reading \/ Printing \/ txrx_txdone
Fairness == WF_vars(Sound /\ Going)

Spec == Init /\ [][Next]_vars /\ Fairness

-----------------------------------------------------------------------------
(* Each variable holds what its declaration in ttytail.h or cli.c allows.  *)
TypeOK == /\ opener \in {"reset", "ready", "echo", "eui", "rx", "registered", "failed"}
          /\ {ready, echo_off, eui64, again, echo, pending, txcomplete, rxcomplete, rxactive} \subseteq BOOLEAN
          /\ line.offset \in 0..2
          /\ work \in {"idle", "queued", "counting"} /\ wrote \in 0..2
          /\ tx_skb \in 0..TxFrames /\ rx_skb \in 0..RxFrames
          /\ where \in {"poll", "time", "read"}
          /\ radio \in {"off", "rx", "tx"}

(* The driver implements the link: as long as no line about a received      *)
(* frame is lost no frame gets another one's timestamp, none is handed up   *)
(* twice or out of order (ttytail.c:182-195 against cli.c:536-596), and a   *)
(* transmission gets its own, though the port is opened again over it and   *)
(* something else is lost, overrun or restarted.  It takes two such faults  *)
(* for it to get an earlier one's.                                          *)
Link == INSTANCE PacketLink WITH sending <- tx_skb, failed <- mixed,
                                 doubtful <- (faults > 1),
                                 Frames <- 1..(TxFrames + RxFrames)
LinkSpec == Link!Spec

(* The same of its receptions alone, however many faults there are.         *)
Reception == INSTANCE PacketLink WITH sending <- None, completed <- << >>,
                                      failed <- mixed, doubtful <- FALSE,
                                      Frames <- 1..RxFrames
ReceptionSpec == Reception!Spec

(* A registered interface has a device that listens, or has been told to,  *)
(* and that no longer echoes: the handshake of ttytail_config is not       *)
(* fooled by the greeting of a device that just starts.                    *)
OnItsWay(cmd) == \E p \in {down[i] : i \in DOMAIN down} \union {clibuf[i] : i \in DOMAIN clibuf} : p[1] = cmd
RegisteredMeansListening ==
  (opener = "registered" /\ ~broken /\ ~clobbered) => (~echo /\ (rxactive \/ OnItsWay("rx")))

(* A line of which the tty has taken a part only and the worker has gone:  *)
(* nothing in the driver sends it back (ttytail.c:52-56).                  *)
Unfinished == work = "idle" /\ ~ttytail_tx_idle

(* The network stack gets every transmission back, unless the link has     *)
(* lost something, a line was overwritten or the tty did not take the      *)
(* whole of one (ttytail.c:365, 66, 52).  After that only the tty's        *)
(* wakeup can help, for which the driver has not asked.                    *)
XmitCompletes == (tx_skb # None /\ Sound) ~> (tx_skb = None \/ ~Sound \/ Unfinished)

(* Without the last condition it does not hold: a write that takes a part  *)
(* is enough for the transmission to stay with the driver for ever.        *)
AlwaysCompletes == (tx_skb # None /\ Sound) ~> (tx_skb = None \/ ~Sound)

(* A received frame that waits for its timestamp is not replaced by the    *)
(* next one (ttytail.c:150), unless a line about a frame has been lost.    *)
NoneReplaced == [][rx_skb # None /\ ~mixed => rx_skb' \in {rx_skb, None}]_vars
=============================================================================
