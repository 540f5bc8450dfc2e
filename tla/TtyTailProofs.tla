--------------------------- MODULE TtyTailProofs ---------------------------
(***************************************************************************)
(* Theorems about an anchor, for any number of frames, openings and faults: *)
(* received frames go up once, in order and with their own timestamps; the *)
(* handshake of ttytail_config leaves a device that listens; and a         *)
(* transmission comes back with its own timestamp, though the port has     *)
(* been opened again over an earlier one.                                  *)
(***************************************************************************)
EXTENDS TtyTail, SequenceTheorems, TLAPS

Commands == {"", "reset", "echo", "eui", "rx"}

(* What is sent to the device, and what it answers.                        *)
Piece == (Commands \X {None} \X {1, 2}) \cup ({"tx"} \X (1 .. TxFrames) \X {1, 2})
Times == ({"tx"} \X (1 .. TxFrames)) \cup ({"rx"} \X (1 .. RxFrames))
Line  == {<<"ready">>, <<"echo">>, <<"eui">>}
         \cup ({"packet"} \X (1 .. RxFrames)) \cup ({"time"} \X Times)

(* The line being sent; when it asks for a transmission there is a frame.  *)
TxLines == [cmd : Commands, frame : {None}, offset : 0 .. 2]
           \cup [cmd : {"tx"}, frame : 1 .. TxFrames, offset : 0 .. 2]

DriverType == /\ opener \in {"reset", "ready", "echo", "eui", "rx", "registered", "failed"}
              /\ ready \in BOOLEAN /\ echo_off \in BOOLEAN /\ eui64 \in BOOLEAN /\ again \in BOOLEAN
              /\ line \in TxLines
              /\ work \in {"idle", "queued", "counting"}
              /\ wrote \in 0 .. 2 /\ line.offset + wrote <= 2
              /\ taken \in 0 .. TxFrames
              /\ tx_skb \in 0 .. TxFrames /\ rx_skb \in 0 .. RxFrames

(* There is a transmission or a frame whenever one is to be printed.       *)
DeviceType == /\ clibuf \in Seq(Piece)
              /\ where \in {"poll", "time", "read"}
              /\ echo \in BOOLEAN /\ pending \in BOOLEAN /\ txcomplete \in BOOLEAN
              /\ rxcomplete \in BOOLEAN /\ rxactive \in BOOLEAN
              /\ radio \in {"off", "rx", "tx"}
              /\ txtime \in 0 .. TxFrames /\ (pending => txtime # None)
              /\ heard \in 0 .. RxFrames /\ rxtime \in 0 .. heard
              /\ rxcomplete => rxtime # None
              /\ where = "time" => rxcomplete

DownType == down \in Seq(Piece)
UpType   == up \in Seq(Line)
LogType  == mixed \in BOOLEAN /\ faults \in Nat /\ delivered \in Seq((1 .. RxFrames) \X Times)

TypeInv == DriverType /\ DeviceType /\ DownType /\ UpType /\ LogType

-----------------------------------------------------------------------------
(* The line after the i-th, or the one that is being printed after the     *)
(* last, is the timestamp of frame f.                                      *)
StampFollows(i, f) == IF i < Len(up) THEN up[i + 1] = <<"time", <<"rx", f>>>>
                                     ELSE where = "time" /\ rxtime = f

IsPacket(i) == up[i][1] = "packet"

(* A packet and its timestamp stay together, on the cable and in the       *)
(* driver.                                                                 *)
TogetherInv == /\ \A i \in 1 .. Len(up) : IsPacket(i) => StampFollows(i, up[i][2])
               /\ rx_skb # None => StampFollows(0, rx_skb)

(* The last frame that may have been printed.                              *)
Printed == IF where = "time" THEN rxtime
           ELSE IF rxcomplete THEN rxtime - 1 ELSE heard

Delivered == Reception!Latest(delivered)

(* Frames are on their way in the order in which they were received: those *)
(* handed up, the one the driver keeps, those on the cable, the one that   *)
(* is not printed yet.                                                     *)
OrderInv == /\ Delivered <= Printed
            /\ rx_skb # None => Delivered < rx_skb /\ rx_skb <= Printed
            /\ \A i \in 1 .. Len(up) : IsPacket(i) =>
                 /\ Delivered < up[i][2] /\ rx_skb < up[i][2] /\ up[i][2] <= Printed
                 /\ \A j \in 1 .. i - 1 : IsPacket(j) => up[j][2] < up[i][2]

(* As long as no line about a reception is lost.                           *)
RxInv == ~mixed => TogetherInv /\ OrderInv

-----------------------------------------------------------------------------
(* What is left when the first n elements are gone.                        *)
LEMMA Suffix ==
    ASSUME NEW S, NEW s \in Seq(S), NEW n \in 0 .. Len(s)
    PROVE  /\ SubSeq(s, n + 1, Len(s)) \in Seq(S)
           /\ Len(SubSeq(s, n + 1, Len(s))) = Len(s) - n
           /\ \A i \in 1 .. Len(s) - n : SubSeq(s, n + 1, Len(s))[i] = s[n + i]
<1>1. Len(s) \in Nat /\ n \in Int /\ n + 1 \in Int /\ Len(s) \in Int
  BY LenProperties
<1>2. \A i \in n + 1 .. Len(s) : s[i] \in S
  BY <1>1, ElementOfSeq
<1> QED BY <1>1, <1>2, SubSeqProperties

(* What is left when the i-th element is gone.                             *)
LEMMA Removed ==
    ASSUME NEW S, NEW s \in Seq(S), NEW i \in 1 .. Len(s)
    PROVE  /\ RemoveAt(s, i) \in Seq(S)
           /\ Len(RemoveAt(s, i)) = Len(s) - 1
           /\ \A j \in 1 .. Len(s) - 1 :
                RemoveAt(s, i)[j] = s[IF j < i THEN j ELSE j + 1]
<1> DEFINE a == SubSeq(s, 1, i - 1)
           b == SubSeq(s, i + 1, Len(s))
<1>1. Len(s) \in Nat /\ i \in Int
  BY LenProperties
<1>2. /\ a \in Seq(S) /\ Len(a) = i - 1
      /\ \A j \in 1 .. i - 1 : a[j] = s[j]
  <2>1. \A j \in 1 .. i - 1 : s[j] \in S
    BY <1>1, ElementOfSeq
  <2>2. 1 \in Int /\ i - 1 \in Int
    BY <1>1
  <2> QED BY <1>1, <2>1, <2>2, SubSeqProperties
<1>3. /\ b \in Seq(S) /\ Len(b) = Len(s) - i
      /\ \A j \in 1 .. Len(s) - i : b[j] = s[i + j]
  <2>1. i \in 0 .. Len(s)
    BY <1>1
  <2> QED BY <2>1, Suffix
<1>4. RemoveAt(s, i) = a \o b
  BY DEF RemoveAt
<1> HIDE DEF a, b
<1>5. /\ a \o b \in Seq(S) /\ Len(a \o b) = Len(s) - 1
      /\ \A j \in 1 .. Len(s) - 1 :
           (a \o b)[j] = IF j <= Len(a) THEN a[j] ELSE b[j - Len(a)]
  <2>1. /\ a \o b \in Seq(S) /\ Len(a \o b) = Len(a) + Len(b)
        /\ \A j \in 1 .. Len(a) + Len(b) :
             (a \o b)[j] = IF j <= Len(a) THEN a[j] ELSE b[j - Len(a)]
    BY <1>2, <1>3, ConcatProperties
  <2>2. Len(a) + Len(b) = Len(s) - 1
    BY <1>1, <1>2, <1>3
  <2> QED BY ONLY <2>1, <2>2
<1>6. ASSUME NEW j \in 1 .. Len(s) - 1
      PROVE  (a \o b)[j] = s[IF j < i THEN j ELSE j + 1]
  <2>1. CASE j < i
    <3>1. j \in 1 .. i - 1 /\ j <= Len(a)
      BY <1>1, <1>2, <2>1
    <3> QED BY <1>2, <1>5, <2>1, <3>1
  <2>2. CASE ~(j < i)
    <3>1. ~(j <= Len(a)) /\ j - Len(a) \in 1 .. Len(s) - i /\ i + (j - Len(a)) = j + 1
      BY <1>1, <1>2, <2>2
    <3>2. b[j - Len(a)] = s[j + 1]
      BY <1>3, <3>1
    <3> QED BY <1>5, <2>2, <3>1, <3>2
  <2> QED BY <2>1, <2>2
<1> QED BY <1>4, <1>5, <1>6

(* The kinds of lines, and what follows for what they carry.               *)
LEMMA Kinds ==
    /\ <<"ready">> \in Line /\ <<"echo">> \in Line /\ <<"eui">> \in Line
    /\ \A f \in 1 .. RxFrames : <<"packet", f>> \in Line
    /\ \A t \in Times : <<"time", t>> \in Line
    /\ \A l \in Line : /\ l[1] \in {"ready", "echo", "eui", "packet", "time"}
                       /\ l[1] = "packet" => l[2] \in 1 .. RxFrames
                       /\ l[1] = "time" => l[2] \in Times
BY DEF Line

(* tx.work is queued, or queued once more.                                 *)
LEMMA StartTyped ==
    ASSUME DriverType,
           NEW cmd, NEW frame,
           ttytail_tx_start(cmd, frame),
           IF cmd = "tx" THEN frame \in 1 .. TxFrames ELSE cmd \in Commands /\ frame = None
    PROVE  /\ line' \in TxLines /\ line'.offset = 0
           /\ work' \in {"idle", "queued", "counting"}
           /\ wrote' = wrote /\ again' \in BOOLEAN
<1>1. line' = [cmd |-> cmd, frame |-> frame, offset |-> 0]
  BY DEF ttytail_tx_start
<1>2. line' \in TxLines
  <2>1. CASE cmd = "tx"
    <3>1. frame \in 1 .. TxFrames
      BY <2>1
    <3>2. line' \in [cmd : {"tx"}, frame : 1 .. TxFrames, offset : 0 .. 2]
      BY <1>1, <2>1, <3>1
    <3> QED BY <3>2 DEF TxLines
  <2>2. CASE cmd # "tx"
    <3>1. cmd \in Commands /\ frame = None
      BY <2>2
    <3>2. line' \in [cmd : Commands, frame : {None}, offset : 0 .. 2]
      BY <1>1, <3>1
    <3> QED BY <3>2 DEF TxLines
  <2> QED BY <2>1, <2>2
<1>3. /\ work' \in {"idle", "queued", "counting"}
      /\ wrote' = wrote /\ again' \in BOOLEAN
  BY DEF ttytail_tx_start, Schedule, Counting, DriverType
<1> QED BY <1>1, <1>2, <1>3

(* The driver's own state has its types after every step.                  *)
LEMMA DriverTyped ==
    ASSUME TypeInv, Next
    PROVE  DriverType'
<1> USE TtyTailAssumption DEF None
<1>0. DriverType
  BY DEF TypeInv
<1>1. line.offset \in 0 .. 2
  BY <1>0 DEF DriverType, TxLines
<1>2. CASE ttytail_reset
  <2>1. ttytail_tx_start("reset", None)
    BY <1>2 DEF ttytail_reset
  <2>2. /\ line' \in TxLines /\ line'.offset = 0
        /\ work' \in {"idle", "queued", "counting"}
        /\ wrote' = wrote /\ again' \in BOOLEAN
    BY <1>0, <2>1, StartTyped DEF Commands
  <2>3. /\ opener' \in {"ready", "echo", "eui", "rx"}
        /\ ready' \in BOOLEAN /\ echo_off' \in BOOLEAN
        /\ UNCHANGED <<eui64, tx_skb, rx_skb, taken>>
    BY <1>0, <1>2 DEF ttytail_reset, Advance, DriverType
  <2> QED BY <1>0, <1>1, <2>2, <2>3 DEF DriverType
<1>3. CASE ConfigEcho
  <2>1. ttytail_tx_start("echo", None)
    BY <1>3 DEF ConfigEcho
  <2>2. /\ line' \in TxLines /\ line'.offset = 0
        /\ work' \in {"idle", "queued", "counting"}
        /\ wrote' = wrote /\ again' \in BOOLEAN
    BY <1>0, <2>1, StartTyped DEF Commands
  <2>3. /\ opener' \in {"ready", "echo", "eui", "rx"}
        /\ ready' \in BOOLEAN /\ echo_off' \in BOOLEAN
        /\ UNCHANGED <<eui64, tx_skb, rx_skb, taken>>
    BY <1>0, <1>3 DEF ConfigEcho, Advance, DriverType
  <2> QED BY <1>0, <1>1, <2>2, <2>3 DEF DriverType
<1>4. CASE ConfigEui
  <2>1. ttytail_tx_start("eui", None)
    BY <1>4 DEF ConfigEui
  <2>2. /\ line' \in TxLines /\ line'.offset = 0
        /\ work' \in {"idle", "queued", "counting"}
        /\ wrote' = wrote /\ again' \in BOOLEAN
    BY <1>0, <2>1, StartTyped DEF Commands
  <2>3. /\ opener' \in {"ready", "echo", "eui", "rx"}
        /\ ready' \in BOOLEAN /\ echo_off' \in BOOLEAN
        /\ UNCHANGED <<eui64, tx_skb, rx_skb, taken>>
    BY <1>0, <1>4 DEF ConfigEui, Advance, DriverType
  <2> QED BY <1>0, <1>1, <2>2, <2>3 DEF DriverType
<1>5. CASE ConfigRx
  <2>1. ttytail_tx_start("rx", None)
    BY <1>5 DEF ConfigRx
  <2>2. /\ line' \in TxLines /\ line'.offset = 0
        /\ work' \in {"idle", "queued", "counting"}
        /\ wrote' = wrote /\ again' \in BOOLEAN
    BY <1>0, <2>1, StartTyped DEF Commands
  <2>3. /\ opener' \in {"ready", "echo", "eui", "rx"}
        /\ ready' \in BOOLEAN /\ echo_off' \in BOOLEAN
        /\ UNCHANGED <<eui64, tx_skb, rx_skb, taken>>
    BY <1>0, <1>5 DEF ConfigRx, Advance, DriverType
  <2> QED BY <1>0, <1>1, <2>2, <2>3 DEF DriverType
<1>6. CASE Register \/ Timeout
  BY <1>0, <1>6 DEF Register, Timeout, Advance, hist, DriverType
<1>7. CASE WorkerWrite
  <2>1. /\ work' \in {"idle", "counting"}
        /\ wrote' = wrote \/ wrote' \in 0 .. 2 - line.offset
        /\ UNCHANGED <<opener, ready, echo_off, eui64, line, again, tx_skb, rx_skb, taken>>
    BY <1>7 DEF WorkerWrite, hist
  <2>2. wrote' \in 0 .. 2 /\ line'.offset + wrote' <= 2
    BY <1>0, <1>1, <2>1 DEF DriverType
  <2> QED BY <1>0, <2>1, <2>2 DEF DriverType
<1>8. CASE WorkerCount
  <2>1. line' \in TxLines /\ line'.offset = line.offset + wrote
    BY <1>0, <1>1, <1>8 DEF WorkerCount, TxLines, hist, DriverType
  <2>2. /\ work' \in {"idle", "queued"} /\ wrote' = 0 /\ again' = FALSE
        /\ UNCHANGED <<opener, ready, echo_off, eui64, tx_skb, rx_skb, taken>>
    BY <1>8 DEF WorkerCount, hist
  <2>3. wrote' \in 0 .. 2 /\ line'.offset + wrote' <= 2
    BY <1>0, <1>1, <2>1, <2>2 DEF DriverType
  <2> QED BY <1>0, <2>1, <2>2, <2>3 DEF DriverType
<1>9. CASE ttytail_write_wakeup
  BY <1>0, <1>9 DEF ttytail_write_wakeup, Schedule, hist, DriverType
<1>10. CASE RxReady \/ RxEcho \/ ttytail_rx_eui64
  BY <1>0, <1>10 DEF RxReady, RxEcho, ttytail_rx_eui64, Received, hist, DriverType
<1>11. CASE ttytail_rx_packet
  <2>1. Head(up) \in Line /\ Head(up)[1] = "packet"
    BY <1>11, HeadTailProperties DEF TypeInv, UpType, ttytail_rx_packet, Received
  <2>2. rx_skb' \in 0 .. RxFrames
    BY <1>11, <2>1, Kinds DEF ttytail_rx_packet
  <2> QED BY <1>0, <1>11, <2>2 DEF ttytail_rx_packet, Received, hist, DriverType
<1>12. CASE ttytail_rx_timestamp
  <2>1. tx_skb' \in {tx_skb, None} /\ rx_skb' \in {rx_skb, None}
    BY <1>12 DEF ttytail_rx_timestamp
  <2>2. tx_skb' \in 0 .. TxFrames /\ rx_skb' \in 0 .. RxFrames
    BY <1>0, <2>1 DEF DriverType, None
  <2> QED BY <1>0, <1>12, <2>2 DEF ttytail_rx_timestamp, Received, hist, DriverType
<1>13. CASE cli_read \/ cli_read_end \/ tx_poll \/ PrintPacket \/ PrintTime
  BY <1>0, <1>13 DEF cli_read, cli_read_end, tx_poll, PrintPacket, PrintTime, driver, hist, DriverType
<1>14. CASE txrx_txdone \/ txrx_rxdone \/ LoseLine \/ LoseInput \/ Restart
  BY <1>0, <1>14 DEF txrx_txdone, txrx_rxdone, LoseLine, LoseInput, Restart, driver, hist, DriverType
<1>15. CASE Reopen
  <2>1. line' \in TxLines /\ line'.offset = 2
    <3>1. line' = [cmd |-> "", frame |-> None, offset |-> 2]
      BY <1>15 DEF Reopen
    <3> DEFINE l == [cmd |-> "", frame |-> 0, offset |-> 2]
    <3>2. l \in [cmd : Commands, frame : {None}, offset : 0 .. 2]
      BY DEF Commands
    <3> QED BY <3>1, <3>2 DEF TxLines
  <2>2. /\ opener' = "reset" /\ ready' = FALSE /\ echo_off' = FALSE /\ eui64' = FALSE
        /\ work' = "idle" /\ wrote' = 0 /\ again' = FALSE
        /\ tx_skb' = None /\ rx_skb' = None /\ taken' = taken
    BY <1>15 DEF Reopen
  <2>3. wrote' \in 0 .. 2 /\ line'.offset + wrote' <= 2
    BY <2>1, <2>2
  <2>4. tx_skb' \in 0 .. TxFrames /\ rx_skb' \in 0 .. RxFrames
    BY <2>2
  <2> QED BY <1>0, <2>1, <2>2, <2>3, <2>4 DEF DriverType
<1>16. CASE ttytail_stop
  <2>1. /\ work' = "idle" /\ wrote' = 0 /\ again' = FALSE
        /\ UNCHANGED <<opener, ready, echo_off, eui64, line, tx_skb, rx_skb, taken>>
    BY <1>16 DEF ttytail_stop
  <2>2. wrote' \in 0 .. 2 /\ line'.offset + wrote' <= 2
    BY <1>1, <2>1
  <2>3. line' \in TxLines
    BY <1>0, <2>1 DEF DriverType
  <2> QED BY <1>0, <2>1, <2>2, <2>3 DEF DriverType
<1>17. CASE ttytail_xmit_async
  <2>1. taken' \in 1 .. TxFrames /\ taken' = taken + 1
    BY <1>0, <1>17 DEF ttytail_xmit_async, hist, DriverType
  <2>2. ttytail_tx_start("tx", taken + 1)
    BY <1>17 DEF ttytail_xmit_async
  <2>3. /\ line' \in TxLines /\ line'.offset = 0
        /\ work' \in {"idle", "queued", "counting"}
        /\ wrote' = wrote /\ again' \in BOOLEAN
    BY <1>0, <2>1, <2>2, StartTyped
  <2> QED BY <1>0, <1>17, <2>1, <2>3 DEF ttytail_xmit_async, hist, DriverType
<1>18. CASE UNCHANGED vars
  BY <1>0, <1>18 DEF vars, driver, hist, DriverType
<1> QED BY <1>2, <1>3, <1>4, <1>5, <1>6, <1>7, <1>8, <1>9, <1>10, <1>11, <1>12, <1>13,
           <1>14, <1>15, <1>16, <1>17, <1>18
        DEF Next, OpenWorker, TxWorker, Receiver, Reading, Printing, PollNothing

(* A command that the device makes out of its buffer is what was sent, or  *)
(* nothing.                                                                *)
LEMMA MeaningsAreSent ==
    ASSUME NEW buf \in Seq(Piece), NEW m \in Meanings(buf), m[1] = "tx"
    PROVE  m \in Piece /\ m[2] \in 1 .. TxFrames
<1>1. m # <<"">>
  <2>1. <<"">>[1] = ""
    OBVIOUS
  <2> QED BY <2>1
<1>2. PICK i \in DOMAIN buf : m = buf[i]
  <2>1. CASE buf # << >> /\ Whole(buf)
    <3>1. m = buf[1] /\ Len(buf) = 2
      BY <2>1 DEF Meanings, Whole
    <3>2. 1 \in DOMAIN buf
      BY <3>1, LenProperties
    <3> QED BY <3>1, <3>2
  <2>2. CASE ~(buf # << >> /\ Whole(buf))
    BY <1>1, <2>2 DEF Meanings
  <2> QED BY <2>1, <2>2
<1>3. m \in Piece
  BY <1>2, ElementOfSeq, LenProperties
<1>4. m[2] \in 1 .. TxFrames
  BY <1>3 DEF Piece, Commands
<1> QED BY <1>3, <1>4

(* After cli_init.                                                         *)
LEMMA InitTyped ==
    ASSUME TypeInv, cli_init, heard' = heard
    PROVE  DeviceType' /\ UpType'
<1> USE TtyTailAssumption DEF None
<1>1. UpType'
  BY Kinds, AppendProperties DEF TypeInv, UpType, cli_init
<1>2. clibuf' \in Seq(Piece)
  BY EmptySeq DEF cli_init
<1>3. /\ where' = "poll" /\ echo' = TRUE /\ pending' = FALSE
      /\ txcomplete' = FALSE /\ rxcomplete' = FALSE /\ rxactive' = FALSE
      /\ radio' = "off"
  BY DEF cli_init
<1>4. txtime' \in 0 .. TxFrames /\ heard' \in 0 .. RxFrames /\ rxtime' \in 0 .. heard'
  BY DEF cli_init, TypeInv, DeviceType
<1> QED BY <1>1, <1>2, <1>3, <1>4 DEF DeviceType

(* Executing a command.                                                    *)
LEMMA ExecuteTyped ==
    ASSUME TypeInv, down # << >>,
           NEW buf \in Seq(Piece), NEW rest \in Seq(Piece),
           Execute(buf, rest), heard' = heard
    PROVE  DeviceType' /\ UpType' /\ DownType'
<1> USE TtyTailAssumption DEF None
<1>1. PICK m \in Meanings(buf) :
        \/ m[1] = "reset" /\ fn_reset
        \/ /\ m[1] # "reset"
           /\ \/ m[1] = "echo" /\ fn_echo(Whole(buf))
              \/ m[1] = "eui"  /\ fn_config_eui
              \/ m[1] = "rx"   /\ fn_rx
              \/ m[1] = "tx"   /\ fn_tx(m[2])
              \/ m[1] = ""     /\ UNCHANGED <<up, echo, pending, txcomplete, rxcomplete, txtime, rxtime, rxactive, radio>>
           /\ down' = Tail(down) /\ clibuf' = rest /\ where' = "read"
  BY DEF Execute
<1>2. CASE m[1] = "reset" /\ fn_reset
  <2>1. DownType'
    <3>1. PICK n \in 1 .. Len(down) : down' = SubSeq(down, n + 1, Len(down))
      BY <1>2 DEF fn_reset
    <3>2. n \in 0 .. Len(down)
      OBVIOUS
    <3> QED BY <3>1, <3>2, Suffix DEF TypeInv, DownType
  <2> QED BY <1>2, <2>1, InitTyped DEF fn_reset
<1>3. CASE m[1] # "reset"
  <2>1. down' = Tail(down) /\ clibuf' = rest /\ where' = "read"
    BY <1>1, <1>3
  <2>2. DownType'
    BY <2>1, HeadTailProperties DEF TypeInv, DownType
  <2>3. CASE m[1] = "echo" /\ fn_echo(Whole(buf))
    <3>1. UpType'
      BY <2>3, Kinds, AppendProperties DEF TypeInv, UpType, fn_echo
    <3> QED BY <2>1, <2>2, <2>3, <3>1 DEF TypeInv, DeviceType, fn_echo
  <2>4. CASE fn_config_eui
    <3>1. UpType'
      BY <2>4, Kinds, AppendProperties DEF TypeInv, UpType, fn_config_eui
    <3> QED BY <2>1, <2>2, <2>4, <3>1 DEF TypeInv, DeviceType, fn_config_eui
  <2>5. CASE fn_rx
    <3>1. UpType'
      BY <2>5 DEF TypeInv, UpType, fn_rx
    <3> QED BY <2>1, <2>2, <2>5, <3>1 DEF TypeInv, DeviceType, fn_rx
  <2>6. CASE m[1] = "tx" /\ fn_tx(m[2])
    <3>1. UpType'
      BY <2>6 DEF TypeInv, UpType, fn_tx
    <3>2. m[2] \in 1 .. TxFrames
      BY <2>6, MeaningsAreSent
    <3> QED BY <2>1, <2>2, <2>6, <3>1, <3>2 DEF TypeInv, DeviceType, fn_tx
  <2>7. CASE UNCHANGED <<up, echo, pending, txcomplete, rxcomplete, txtime, rxtime, rxactive, radio>>
    <3>1. UpType'
      BY <2>7 DEF TypeInv, UpType
    <3> QED BY <2>1, <2>2, <2>7, <3>1 DEF TypeInv, DeviceType
  <2> QED BY <1>1, <1>3, <2>3, <2>4, <2>5, <2>6, <2>7
<1> QED BY <1>1, <1>2, <1>3

(* Reading a piece.                                                        *)
LEMMA ReadTyped ==
    ASSUME TypeInv, cli_read
    PROVE  DeviceType' /\ UpType' /\ DownType'
<1> DEFINE p == Head(down)
<1>1. down # << >> /\ heard' = heard
  BY DEF cli_read, hist
<1>2. p \in Piece /\ Tail(down) \in Seq(Piece)
  BY <1>1, HeadTailProperties DEF TypeInv, DownType
<1>3. clibuf \in Seq(Piece) /\ Append(clibuf, p) \in Seq(Piece) /\ <<p>> \in Seq(Piece) /\ << >> \in Seq(Piece)
  BY <1>2, AppendProperties, EmptySeq DEF TypeInv, DeviceType
<1> HIDE DEF p
<1>4. CASE Execute(clibuf, <<p>>) \/ Execute(Append(clibuf, p), << >>)
  BY <1>1, <1>3, <1>4, ExecuteTyped
<1>5. CASE /\ clibuf' = Append(clibuf, p) /\ where' = "read"
           /\ down' = Tail(down)
           /\ UNCHANGED <<up, echo, pending, txcomplete, rxcomplete, txtime, rxtime, rxactive, radio>>
  BY <1>1, <1>2, <1>3, <1>5 DEF TypeInv, DeviceType, UpType, DownType
<1> QED BY <1>4, <1>5 DEF cli_read, p

(* The device and the cable have their types after every step.             *)
LEMMA CableTyped ==
    ASSUME TypeInv, Next
    PROVE  DeviceType' /\ UpType' /\ DownType'
<1> USE TtyTailAssumption DEF None
<1>0. DeviceType /\ UpType /\ DownType /\ DriverType
  BY DEF TypeInv
<1>1. CASE UNCHANGED <<down, up, cli, heard>>
  BY <1>0, <1>1 DEF cli, DeviceType, UpType, DownType
<1>2. CASE WorkerWrite
  <2>1. UNCHANGED <<up, cli, heard>>
    BY <1>2 DEF WorkerWrite, hist
  <2>2. DownType'
    <3>1. CASE down' = down
      BY <1>0, <3>1 DEF DownType
    <3>2. CASE \E n \in 0 .. 2 - line.offset :
                 down' = down \o SubSeq(Pieces(line), line.offset + 1, line.offset + n)
      <4>1. PICK n \in 0 .. 2 - line.offset :
              down' = down \o SubSeq(Pieces(line), line.offset + 1, line.offset + n)
        BY <3>2
      <4>2. line \in TxLines /\ line.offset \in 0 .. 2
        BY <1>0 DEF DriverType, TxLines
      <4>3. PICK a \in 0 .. 2 : a = line.offset
        BY <4>2
      <4>4. <<line.cmd, line.frame, 1>> \in Piece /\ <<line.cmd, line.frame, 2>> \in Piece
        BY <4>2 DEF TxLines, Piece
      <4>5. \A i \in 1 .. 2 : Pieces(line)[i] \in Piece
        BY <4>4 DEF Pieces
      <4>6. SubSeq(Pieces(line), a + 1, a + n) \in Seq(Piece)
        <5>1. a + 1 \in Int /\ a + n \in Int
          BY <4>3
        <5>2. \A i \in a + 1 .. a + n : i \in 1 .. 2
          BY <4>3
        <5> QED BY <4>5, <5>1, <5>2, SubSeqProperties
      <4> QED BY <1>0, <4>1, <4>3, <4>6, ConcatProperties DEF DownType
    <3> QED BY <1>2, <3>1, <3>2 DEF WorkerWrite
  <2> QED BY <1>0, <2>1, <2>2 DEF cli, DeviceType, UpType
<1>3. CASE Receiver
  <2>1. UNCHANGED <<down, cli, heard>> /\ up # << >> /\ up' = Tail(up)
    BY <1>3 DEF Receiver, RxReady, RxEcho, ttytail_rx_eui64, ttytail_rx_packet,
                ttytail_rx_timestamp, Received, hist
  <2> QED BY <1>0, <2>1, HeadTailProperties DEF cli, DeviceType, UpType, DownType
<1>4. CASE cli_read
  BY <1>4, ReadTyped
<1>5. CASE cli_read_end
  BY <1>0, <1>5 DEF cli_read_end, hist, DeviceType, UpType, DownType
<1>6. CASE tx_poll
  <2>1. UpType'
    <3>1. txtime \in 1 .. TxFrames
      BY <1>0, <1>6 DEF tx_poll, DeviceType
    <3>2. <<"time", <<"tx", txtime>>>> \in Line
      BY <3>1, Kinds DEF Times
    <3> QED BY <1>0, <1>6, <3>2, AppendProperties DEF tx_poll, UpType
  <2> QED BY <1>0, <1>6, <2>1 DEF tx_poll, hist, DeviceType, DownType
<1>7. CASE PrintPacket \/ PrintTime
  <2>1. rxtime \in 1 .. RxFrames
    BY <1>0, <1>7 DEF PrintPacket, PrintTime, DeviceType
  <2>2. <<"packet", rxtime>> \in Line /\ <<"time", <<"rx", rxtime>>>> \in Line
    BY <2>1, Kinds DEF Times
  <2>3. UpType'
    <3>1. PICK l \in Line : up' = Append(up, l)
      BY <1>7, <2>2 DEF PrintPacket, PrintTime
    <3> QED BY <1>0, <3>1, AppendProperties DEF UpType
  <2>4. /\ where' \in {"poll", "time"} /\ rxcomplete' \in BOOLEAN
        /\ where' = "time" => rxcomplete'
        /\ rxcomplete' => rxcomplete
        /\ UNCHANGED <<down, clibuf, echo, pending, txcomplete, txtime, rxtime, rxactive, radio, heard>>
    BY <1>0, <1>7 DEF PrintPacket, PrintTime, hist, DeviceType
  <2> QED BY <1>0, <2>3, <2>4 DEF DeviceType, DownType
<1>8. CASE txrx_txdone
  BY <1>0, <1>8 DEF txrx_txdone, hist, DeviceType, UpType, DownType
<1>9. CASE txrx_rxdone
  <2>1. /\ heard' \in 0 .. RxFrames /\ rxtime' \in 0 .. heard'
        /\ rxcomplete' = TRUE /\ rxtime' # None
    BY <1>0, <1>9 DEF txrx_rxdone, DeviceType
  <2>2. UNCHANGED <<down, up, clibuf, where, echo, pending, txcomplete, txtime, rxactive, radio>>
    BY <1>9 DEF txrx_rxdone
  <2> QED BY <1>0, <2>1, <2>2 DEF DeviceType, UpType, DownType
<1>10. CASE LoseLine
  <2>1. UpType'
    <3>1. PICK i \in DOMAIN up : up' = RemoveAt(up, i)
      BY <1>10 DEF LoseLine
    <3>2. i \in 1 .. Len(up)
      BY <1>0, <3>1, LenProperties DEF UpType
    <3> QED BY <1>0, <3>1, <3>2, Removed DEF UpType
  <2> QED BY <1>0, <1>10, <2>1 DEF LoseLine, cli, DeviceType, DownType
<1>11. CASE LoseInput
  <2>1. DownType'
    <3>1. PICK i \in DOMAIN down : down' = RemoveAt(down, i)
      BY <1>11 DEF LoseInput
    <3>2. i \in 1 .. Len(down)
      BY <1>0, <3>1, LenProperties DEF DownType
    <3> QED BY <1>0, <3>1, <3>2, Removed DEF DownType
  <2> QED BY <1>0, <1>11, <2>1 DEF LoseInput, cli, DeviceType, UpType
<1>12. CASE Restart
  <2>1. DownType'
    BY <1>0, <1>12, Suffix DEF Restart, DownType
  <2> QED BY <1>12, <2>1, InitTyped DEF Restart
<1>13. CASE \/ ttytail_reset \/ ConfigEcho \/ ConfigEui \/ ConfigRx \/ Register \/ Timeout
           \/ WorkerCount \/ ttytail_write_wakeup
  <2>1. UNCHANGED <<down, up, cli, heard>>
    BY <1>13 DEF ttytail_reset, ConfigEcho, ConfigEui, ConfigRx, Register, Timeout, Advance,
                 WorkerCount, ttytail_write_wakeup, hist
  <2> QED BY <1>1, <2>1
<1>14. CASE \/ Reopen \/ ttytail_stop \/ ttytail_xmit_async \/ UNCHANGED vars
  <2>1. UNCHANGED <<down, up, cli, heard>>
    BY <1>14 DEF Reopen, ttytail_stop, ttytail_xmit_async, vars, hist
  <2> QED BY <1>1, <2>1
<1> QED BY <1>2, <1>3, <1>4, <1>5, <1>6, <1>7, <1>8, <1>9, <1>10, <1>11, <1>12, <1>13, <1>14
        DEF Next, OpenWorker, TxWorker, Reading, Printing, PollNothing

(* A frame is handed up with one of the timestamps there are.              *)
LEMMA LogTyped ==
    ASSUME TypeInv, Next
    PROVE  LogType'
<1>0. DriverType /\ LogType /\ UpType
  BY DEF TypeInv
<1>1. CASE ttytail_rx_timestamp
  <2>1. CASE delivered' = delivered
    BY <1>0, <1>1, <2>1 DEF ttytail_rx_timestamp, Received, hist, LogType
  <2>2. CASE rx_skb # None /\ delivered' = Append(delivered, <<rx_skb, Head(up)[2]>>)
    <3>1. Head(up) \in Line /\ Head(up)[1] = "time"
      BY <1>0, <1>1, HeadTailProperties DEF UpType, ttytail_rx_timestamp, Received
    <3>2. rx_skb \in 1 .. RxFrames /\ Head(up)[2] \in Times
      BY <1>0, <2>2, <3>1, Kinds, TtyTailAssumption DEF DriverType, None
    <3>3. <<rx_skb, Head(up)[2]>> \in (1 .. RxFrames) \X Times
      BY <3>2
    <3>4. delivered' \in Seq((1 .. RxFrames) \X Times)
      BY <1>0, <2>2, <3>3, AppendProperties DEF LogType
    <3> QED BY <1>0, <1>1, <3>4 DEF ttytail_rx_timestamp, Received, hist, LogType
  <2> QED BY <1>1, <2>1, <2>2 DEF ttytail_rx_timestamp, logs
<1>2. CASE LoseLine \/ LoseInput \/ Restart
  <2>1. mixed' \in BOOLEAN /\ delivered' = delivered
    BY <1>0, <1>2 DEF LoseLine, LoseInput, Restart, AboutReception, logs, LogType
  <2>2. faults' = faults + 1
    BY <1>2 DEF LoseLine, LoseInput, Restart, Fault
  <2>3. faults' \in Nat
    BY <1>0, <2>2 DEF LogType
  <2> QED BY <1>0, <2>1, <2>3 DEF LogType
<1>3. CASE UNCHANGED <<mixed, faults, delivered>>
  BY <1>0, <1>3 DEF LogType
<1>4. CASE OpenWorker \/ TxWorker
  BY <1>3, <1>4 DEF OpenWorker, ttytail_reset, ConfigEcho, ConfigEui, ConfigRx, Register, Timeout, Advance,
                    TxWorker, WorkerWrite, WorkerCount, ttytail_write_wakeup, logs, hist
<1>5. CASE Reading \/ Printing \/ txrx_txdone \/ txrx_rxdone
  BY <1>3, <1>5 DEF Reading, cli_read, cli_read_end, Printing, tx_poll, PrintPacket, PrintTime,
                    txrx_txdone, txrx_rxdone, logs, hist
<1>6. CASE RxReady \/ RxEcho \/ ttytail_rx_eui64 \/ ttytail_rx_packet
  BY <1>3, <1>6 DEF RxReady, RxEcho, ttytail_rx_eui64, ttytail_rx_packet, Received, logs, hist
<1>7. CASE Reopen \/ ttytail_stop \/ ttytail_xmit_async \/ UNCHANGED vars
  BY <1>3, <1>7 DEF Reopen, ttytail_stop, ttytail_xmit_async, vars, logs, hist
<1> QED BY <1>1, <1>2, <1>4, <1>5, <1>6, <1>7 DEF Next, Receiver, PollNothing

(* Initially, and after every step.                                        *)
LEMMA TypeInductive ==
    /\ Init => TypeInv
    /\ TypeInv /\ [Next]_vars => TypeInv'
<1>1. ASSUME Init PROVE TypeInv
  <2> USE <1>1, TtyTailAssumption DEF None
  <2>1. line \in TxLines /\ line.offset = 2
    <3> DEFINE l == [cmd |-> "", frame |-> 0, offset |-> 2]
    <3>1. l \in [cmd : Commands, frame : {None}, offset : 0 .. 2]
      BY DEF Commands
    <3> QED BY <3>1 DEF Init, TxLines
  <2>0. /\ wrote = 0 /\ taken = 0 /\ tx_skb = 0 /\ rx_skb = 0
        /\ txtime = 0 /\ heard = 0 /\ rxtime = 0
    BY DEF Init
  <2>2. wrote \in 0 .. 2 /\ line.offset + wrote <= 2
    BY <2>0, <2>1
  <2>3. /\ taken \in 0 .. TxFrames /\ tx_skb \in 0 .. TxFrames /\ rx_skb \in 0 .. RxFrames
        /\ txtime \in 0 .. TxFrames /\ heard \in 0 .. RxFrames /\ rxtime \in 0 .. heard
    BY ONLY <2>0, TtyTailAssumption
  <2>4. DriverType
    BY <2>1, <2>2, <2>3 DEF Init, DriverType
  <2>5. clibuf \in Seq(Piece) /\ DownType
    BY EmptySeq DEF Init, DownType
  <2>6. DeviceType
    BY <2>3, <2>5 DEF Init, DeviceType
  <2>7. UpType
    <3>1. <<<<"ready">>>> \in Seq(Line)
      BY Kinds
    <3> QED BY <3>1, EmptySeq DEF Init, UpType
  <2>8. LogType
    BY EmptySeq DEF Init, LogType
  <2> QED BY <2>4, <2>5, <2>6, <2>7, <2>8 DEF TypeInv
<1>2. ASSUME TypeInv, Next PROVE TypeInv'
  BY <1>2, DriverTyped, CableTyped, LogTyped DEF TypeInv
<1>3. ASSUME TypeInv, UNCHANGED vars PROVE TypeInv'
  BY <1>3 DEF vars, driver, cli, logs, hist, TypeInv, DriverType, DeviceType, DownType, UpType, LogType
<1> QED BY <1>1, <1>2, <1>3

-----------------------------------------------------------------------------
(* The shape of the cable after it has lost its first line.                *)
LEMMA TailShape ==
    ASSUME UpType, up # << >>, up' = Tail(up)
    PROVE  /\ Head(up) = up[1] /\ Len(up) \in Nat /\ Len(up) >= 1
           /\ Len(up') = Len(up) - 1
           /\ \A i \in 1 .. Len(up) - 1 : up'[i] = up[i + 1]
<1>1. up \in Seq(Line)
  BY DEF UpType
<1>2. Len(up) \in Nat /\ Len(up) # 0
  BY <1>1, EmptySeq, LenProperties
<1>3. Head(up) = up[1] /\ Len(Tail(up)) = Len(up) - 1
  BY <1>1, HeadTailProperties
<1>4. \A i \in 1 .. Len(Tail(up)) : Tail(up)[i] = up[i + 1]
  BY <1>1, HeadTailProperties
<1> QED BY <1>2, <1>3, <1>4

(* The shape of the cable with one line more.                              *)
LEMMA AppendShape ==
    ASSUME UpType, NEW l \in Line, up' = Append(up, l)
    PROVE  /\ Len(up) \in Nat /\ Len(up') = Len(up) + 1
           /\ \A i \in 1 .. Len(up) : up'[i] = up[i]
           /\ up'[Len(up) + 1] = l
<1>1. up \in Seq(Line) /\ Len(up) \in Nat
  BY LenProperties DEF UpType
<1> QED BY <1>1, AppendProperties

(* Lines that are taken away or put behind others do not disturb the order *)
(* of the packets: g says where each one of them was.                      *)
LEMMA OrderKeptBy ==
    ASSUME TypeInv, UpType', OrderInv,
           NEW g \in [1 .. Len(up') -> Nat],
           \A i \in 1 .. Len(up') : up'[i][1] = "packet" =>
             /\ g[i] \in 1 .. Len(up) /\ up'[i] = up[g[i]]
             /\ \A j \in 1 .. i - 1 : up'[j][1] = "packet" => g[j] < g[i],
           Printed' \in Nat, Printed <= Printed',
           delivered' = delivered,
           rx_skb' = rx_skb \/ rx_skb' = None
    PROVE  OrderInv'
<1> USE TtyTailAssumption DEF None
<1>0. Len(up') \in Nat /\ Len(up) \in Nat /\ rx_skb \in Nat
  BY LenProperties DEF TypeInv, UpType, DriverType
<1>1. Delivered' = Delivered
  BY DEF Delivered, Reception!Latest
<1>2. Delivered \in Nat /\ Printed \in Int
  <2>1. delivered # << >> => delivered[Len(delivered)] \in (1 .. RxFrames) \X Times
    BY ElementOfSeq, LenProperties, EmptySeq DEF TypeInv, LogType
  <2>2. Delivered \in Nat
    BY <2>1 DEF Delivered, Reception!Latest, Reception!None
  <2> QED BY <2>2 DEF Printed, TypeInv, DeviceType
<1>3. ASSUME NEW i \in 1 .. Len(up'), up'[i][1] = "packet"
      PROVE  /\ up'[i][2] \in 1 .. RxFrames
             /\ Delivered < up'[i][2] /\ rx_skb < up'[i][2] /\ up'[i][2] <= Printed
             /\ \A j \in 1 .. i - 1 : up'[j][1] = "packet" => up'[j][2] < up'[i][2]
  <2>1. g[i] \in 1 .. Len(up) /\ up'[i] = up[g[i]] /\ up[g[i]][1] = "packet"
    BY <1>3
  <2>2. up[g[i]] \in Line
    BY <2>1, ElementOfSeq DEF TypeInv, UpType
  <2>3. up[g[i]][2] \in 1 .. RxFrames
    BY <2>1, <2>2, Kinds
  <2>4. Delivered < up[g[i]][2] /\ rx_skb < up[g[i]][2] /\ up[g[i]][2] <= Printed
    BY <2>1 DEF OrderInv, IsPacket
  <2>5. ASSUME NEW j \in 1 .. i - 1, up'[j][1] = "packet"
        PROVE  up'[j][2] < up'[i][2]
    <3>1. j \in 1 .. Len(up')
      BY <1>0
    <3>2. g[j] \in 1 .. Len(up) /\ up'[j] = up[g[j]] /\ g[j] < g[i]
      BY <1>3, <2>5, <3>1
    <3>3. g[j] \in 1 .. g[i] - 1 /\ up[g[j]][1] = "packet"
      BY <2>1, <2>5, <3>2
    <3> QED BY <2>1, <3>2, <3>3 DEF OrderInv, IsPacket
  <2> QED BY <2>1, <2>3, <2>4, <2>5
<1>4. ASSUME NEW i \in 1 .. Len(up'), IsPacket(i)'
      PROVE  /\ Delivered' < up'[i][2] /\ rx_skb' < up'[i][2] /\ up'[i][2] <= Printed'
             /\ \A j \in 1 .. i - 1 : IsPacket(j)' => up'[j][2] < up'[i][2]
  <2>1. up'[i][1] = "packet"
    BY <1>4 DEF IsPacket
  <2>2. up'[i][2] \in 1 .. RxFrames /\ rx_skb' < up'[i][2]
    BY <1>0, <1>3, <2>1
  <2>3. Delivered' < up'[i][2] /\ up'[i][2] <= Printed'
    BY <1>1, <1>2, <1>3, <2>1, <2>2
  <2>4. \A j \in 1 .. i - 1 : IsPacket(j)' => up'[j][2] < up'[i][2]
    BY <1>3, <2>1 DEF IsPacket
  <2> QED BY <2>2, <2>3, <2>4
<1>5. Delivered' <= Printed'
  BY <1>1, <1>2 DEF OrderInv
<1>6. rx_skb' # None => Delivered' < rx_skb' /\ rx_skb' <= Printed'
  BY <1>0, <1>1, <1>2 DEF OrderInv
<1> QED BY <1>4, <1>5, <1>6 DEF OrderInv

(* A line that is no packet is read: the driver keeps no packet then,      *)
(* unless the line is that packet's timestamp.                             *)
LEMMA RxInvTail ==
    ASSUME TypeInv, TypeInv', TogetherInv, OrderInv,
           up # << >>, up' = Tail(up), up[1][1] # "packet",
           UNCHANGED <<where, rxtime, rxcomplete, heard, delivered>>,
           rx_skb = None, rx_skb' = None
    PROVE  TogetherInv' /\ OrderInv'
<1> USE TtyTailAssumption DEF None
<1>1. /\ Head(up) = up[1] /\ Len(up) \in Nat /\ Len(up) >= 1
      /\ Len(up') = Len(up) - 1
      /\ \A i \in 1 .. Len(up) - 1 : up'[i] = up[i + 1]
  BY TailShape DEF TypeInv
<1>2. ASSUME NEW i \in 1 .. Len(up'), IsPacket(i)'
      PROVE  StampFollows(i, up[i][2])'
  <2>1. i + 1 \in 1 .. Len(up) /\ up'[i] = up[i + 1] /\ IsPacket(i + 1)
    BY <1>1, <1>2 DEF IsPacket
  <2>2. StampFollows(i + 1, up[i + 1][2])
    BY <2>1 DEF TogetherInv
  <2>3. CASE i + 1 < Len(up)
    <3>1. up[i + 2] = <<"time", <<"rx", up[i + 1][2]>>>> /\ up'[i + 1] = up[i + 2] /\ i < Len(up')
      BY <1>1, <2>2, <2>3 DEF StampFollows
    <3> QED BY <2>1, <3>1 DEF StampFollows
  <2>4. CASE ~(i + 1 < Len(up))
    <3>1. where = "time" /\ rxtime = up[i + 1][2] /\ ~(i < Len(up'))
      BY <1>1, <2>2, <2>4 DEF StampFollows
    <3> QED BY <2>1, <3>1 DEF StampFollows
  <2> QED BY <2>3, <2>4
<1>3. TogetherInv'
  BY <1>2 DEF TogetherInv
<1>4. OrderInv'
  <2> DEFINE g == [i \in 1 .. Len(up') |-> i + 1]
  <2>1. g \in [1 .. Len(up') -> Nat]
    BY <1>1
  <2>2. \A i \in 1 .. Len(up') :
             /\ g[i] \in 1 .. Len(up) /\ up'[i] = up[g[i]]
             /\ \A j \in 1 .. i - 1 : g[j] < g[i]
    BY <1>1
  <2>3. Printed' = Printed /\ Printed \in Nat
    BY DEF Printed, TypeInv, DeviceType
  <2>4. Printed' \in Nat /\ Printed <= Printed'
    BY <2>3
  <2>5. UpType'
    BY DEF TypeInv
  <2> HIDE DEF g
  <2> QED BY <2>1, <2>2, <2>4, <2>5, OrderKeptBy
<1> QED BY <1>3, <1>4

(* Nothing or a line that is no packet is printed, while no frame is.      *)
LEMMA RxInvAppend ==
    ASSUME TypeInv, TypeInv', TogetherInv, OrderInv,
           NEW l \in Line, l[1] # "packet",
           up' = up \/ up' = Append(up, l),
           where # "time", where' # "time", heard' = heard,
           ~rxcomplete' \/ (rxcomplete /\ rxtime' = rxtime),
           rx_skb' = rx_skb, delivered' = delivered
    PROVE  TogetherInv' /\ OrderInv'
<1> USE TtyTailAssumption DEF None
<1>1. /\ Len(up) \in Nat
      /\ \A i \in 1 .. Len(up) : up'[i] = up[i]
      /\ Len(up') \in {Len(up), Len(up) + 1}
      /\ Len(up') = Len(up) + 1 => up'[Len(up) + 1] = l
  <2>1. Len(up) \in Nat /\ UpType
    BY LenProperties DEF TypeInv, UpType
  <2> QED BY <2>1, AppendShape
<1>2. ASSUME NEW i \in 1 .. Len(up'), up'[i][1] = "packet"
      PROVE  i \in 1 .. Len(up) /\ up'[i] = up[i]
  BY <1>1, <1>2
<1>3. ASSUME NEW i \in 0 .. Len(up), NEW f, StampFollows(i, f)
      PROVE  StampFollows(i, f)'
  <2>1. i < Len(up) /\ up[i + 1] = <<"time", <<"rx", f>>>>
    BY <1>3 DEF StampFollows
  <2>2. i < Len(up') /\ up'[i + 1] = up[i + 1]
    BY <1>1, <2>1
  <2> QED BY <2>1, <2>2 DEF StampFollows
<1>4. TogetherInv'
  <2>1. ASSUME NEW i \in 1 .. Len(up'), IsPacket(i)'
        PROVE  StampFollows(i, up[i][2])'
    <3>1. i \in 1 .. Len(up) /\ up'[i] = up[i] /\ IsPacket(i)
      BY <1>2, <2>1 DEF IsPacket
    <3>2. StampFollows(i, up[i][2])
      BY <3>1 DEF TogetherInv
    <3> DEFINE f == up[i][2]
    <3>3. PICK h : h = f
      OBVIOUS
    <3>4. i \in 0 .. Len(up)
      BY <1>1, <3>1
    <3>5. StampFollows(i, h)'
      BY <1>3, <3>2, <3>3, <3>4
    <3>6. h = up'[i][2]
      BY <3>1, <3>3
    <3> QED BY <3>5, <3>6 DEF StampFollows
  <2>2. ASSUME rx_skb' # None PROVE StampFollows(0, rx_skb)'
    <3>1. StampFollows(0, rx_skb)
      BY <2>2 DEF TogetherInv
    <3>2. PICK h : h = rx_skb
      OBVIOUS
    <3>3. StampFollows(0, h)'
      BY <1>1, <1>3, <3>1, <3>2
    <3> QED BY <3>2, <3>3 DEF StampFollows
  <2> QED BY <2>1, <2>2 DEF TogetherInv
<1>5. OrderInv'
  <2> DEFINE g == [i \in 1 .. Len(up') |-> i]
  <2>1. g \in [1 .. Len(up') -> Nat]
    BY <1>1
  <2>2. \A i \in 1 .. Len(up') : up'[i][1] = "packet" =>
             /\ g[i] \in 1 .. Len(up) /\ up'[i] = up[g[i]]
             /\ \A j \in 1 .. i - 1 : up'[j][1] = "packet" => g[j] < g[i]
    BY <1>1, <1>2
  <2>3. Printed' \in Nat /\ Printed <= Printed'
    <3>1. /\ heard \in Nat /\ rxtime \in 0 .. heard
          /\ rxcomplete => rxtime # 0
          /\ rxcomplete' => rxcomplete /\ rxtime' = rxtime
      BY DEF TypeInv, DeviceType
    <3>2. Printed = IF rxcomplete THEN rxtime - 1 ELSE heard
      BY DEF Printed
    <3>3. Printed' = IF rxcomplete' THEN rxtime' - 1 ELSE heard
      BY DEF Printed
    <3>4. CASE rxcomplete'
      BY <3>1, <3>2, <3>3, <3>4
    <3>5. CASE ~rxcomplete'
      BY <3>1, <3>2, <3>3, <3>5
    <3> QED BY <3>4, <3>5
  <2>4. UpType'
    BY DEF TypeInv
  <2> HIDE DEF g
  <2> QED BY <2>1, <2>2, <2>3, <2>4, OrderKeptBy
<1> QED BY <1>4, <1>5

(* The stamps of the packets behind the first line stay where they are.    *)
LEMMA StampsBehind ==
    ASSUME TypeInv, TogetherInv,
           up # << >>, up' = Tail(up),
           UNCHANGED <<where, rxtime>>
    PROVE  /\ \A i \in 1 .. Len(up') : IsPacket(i)' => StampFollows(i, up[i][2])'
           /\ \A f : StampFollows(1, f) => StampFollows(0, f)'
<1>1. /\ Head(up) = up[1] /\ Len(up) \in Nat /\ Len(up) >= 1
      /\ Len(up') = Len(up) - 1
      /\ \A i \in 1 .. Len(up) - 1 : up'[i] = up[i + 1]
  BY TailShape DEF TypeInv
<1>2. ASSUME NEW i \in 0 .. Len(up'), NEW f, StampFollows(i + 1, f)
      PROVE  StampFollows(i, f)'
  <2>1. CASE i + 1 < Len(up)
    <3>1. up[i + 2] = <<"time", <<"rx", f>>>> /\ up'[i + 1] = up[i + 2] /\ i < Len(up')
      BY <1>1, <1>2, <2>1 DEF StampFollows
    <3> QED BY <3>1 DEF StampFollows
  <2>2. CASE ~(i + 1 < Len(up))
    <3>1. where = "time" /\ rxtime = f /\ ~(i < Len(up'))
      BY <1>1, <1>2, <2>2 DEF StampFollows
    <3> QED BY <3>1 DEF StampFollows
  <2> QED BY <2>1, <2>2
<1>3. ASSUME NEW i \in 1 .. Len(up'), IsPacket(i)'
      PROVE  StampFollows(i, up[i][2])'
  <2>1. i + 1 \in 1 .. Len(up) /\ up'[i] = up[i + 1] /\ IsPacket(i + 1)
    BY <1>1, <1>3 DEF IsPacket
  <2>2. StampFollows(i + 1, up[i + 1][2])
    BY <2>1 DEF TogetherInv
  <2>3. PICK f : f = up[i + 1][2]
    OBVIOUS
  <2>4. i \in 0 .. Len(up')
    BY <1>1
  <2>5. StampFollows(i, f)'
    BY <1>2, <2>2, <2>3, <2>4
  <2>6. up'[i][2] = f
    BY <2>1, <2>3
  <2> QED BY <2>5, <2>6 DEF StampFollows
<1>4. ASSUME NEW f, StampFollows(1, f)
      PROVE  StampFollows(0, f)'
  <2>1. 0 \in 0 .. Len(up') /\ 0 + 1 = 1
    BY <1>1
  <2> QED BY <1>2, <1>4, <2>1
<1> QED BY <1>3, <1>4

(* A packet is read.  There was none in the driver: its timestamp would    *)
(* stand before this one.                                                  *)
LEMMA RxInvPacket ==
    ASSUME TypeInv, TypeInv', TogetherInv, OrderInv, ttytail_rx_packet
    PROVE  TogetherInv' /\ OrderInv'
<1> USE TtyTailAssumption DEF None
<1>0. /\ up # << >> /\ up' = Tail(up) /\ Head(up)[1] = "packet" /\ rx_skb' = Head(up)[2]
      /\ UNCHANGED <<where, rxtime, rxcomplete, heard, delivered>>
  BY DEF ttytail_rx_packet, Received, cli, hist, logs
<1>1. /\ Head(up) = up[1] /\ Len(up) \in Nat /\ Len(up) >= 1
      /\ Len(up') = Len(up) - 1
      /\ \A i \in 1 .. Len(up) - 1 : up'[i] = up[i + 1]
  BY <1>0, TailShape DEF TypeInv
<1>2. up[1][1] = "packet" /\ 1 \in 1 .. Len(up) /\ IsPacket(1) /\ rx_skb' = up[1][2]
  BY <1>0, <1>1 DEF IsPacket
<1>3. StampFollows(0, rx_skb)'
  <2>1. StampFollows(1, up[1][2])
    BY <1>2 DEF TogetherInv
  <2>2. PICK f : f = up[1][2]
    OBVIOUS
  <2>3. StampFollows(0, f)'
    BY <1>0, <2>1, <2>2, StampsBehind
  <2> QED BY <1>2, <2>2, <2>3 DEF StampFollows
<1>4. TogetherInv'
  BY <1>0, <1>3, StampsBehind DEF TogetherInv
<1>5. Delivered' = Delivered /\ Printed' = Printed
  BY <1>0 DEF Delivered, Reception!Latest, Printed
<1>6. Delivered < up[1][2] /\ up[1][2] <= Printed
  BY <1>2 DEF OrderInv
<1>7. ASSUME NEW i \in 1 .. Len(up'), IsPacket(i)'
      PROVE  /\ Delivered' < up'[i][2] /\ rx_skb' < up'[i][2] /\ up'[i][2] <= Printed'
             /\ \A j \in 1 .. i - 1 : IsPacket(j)' => up'[j][2] < up'[i][2]
  <2>1. i + 1 \in 1 .. Len(up) /\ up'[i] = up[i + 1] /\ IsPacket(i + 1)
    BY <1>1, <1>7 DEF IsPacket
  <2>2. /\ Delivered < up[i + 1][2] /\ up[i + 1][2] <= Printed
        /\ \A j \in 1 .. i : IsPacket(j) => up[j][2] < up[i + 1][2]
    BY <2>1 DEF OrderInv
  <2>3. up[1][2] < up[i + 1][2]
    BY <1>2, <2>2
  <2>4. ASSUME NEW j \in 1 .. i - 1, IsPacket(j)'
        PROVE  up'[j][2] < up'[i][2]
    <3>1. j + 1 \in 1 .. i /\ j \in 1 .. Len(up) - 1
      BY ONLY <1>1, <2>1, j \in 1 .. i - 1, i \in 1 .. Len(up')
    <3>0. up'[j] = up[j + 1]
      BY ONLY <1>1, <3>1
    <3>2. IsPacket(j + 1)
      BY <2>4, <3>0 DEF IsPacket
    <3> QED BY <2>1, <2>2, <3>0, <3>1, <3>2
  <2> QED BY <1>2, <1>5, <2>1, <2>2, <2>3, <2>4
<1>8. Delivered' <= Printed' /\ Delivered' < rx_skb' /\ rx_skb' <= Printed'
  BY <1>2, <1>5, <1>6 DEF OrderInv
<1> QED BY <1>4, <1>7, <1>8 DEF OrderInv

(* A timestamp is read while the driver keeps a packet: it is its own.     *)
LEMMA RxInvStamp ==
    ASSUME TypeInv, TypeInv', TogetherInv, OrderInv,
           Received("time"), rx_skb # None, rx_skb' = None,
           delivered' = Append(delivered, <<rx_skb, Head(up)[2]>>)
    PROVE  /\ Head(up)[2] = <<"rx", rx_skb>> /\ Delivered < rx_skb
           /\ TogetherInv' /\ OrderInv'
<1> USE TtyTailAssumption DEF None
<1>0. /\ up # << >> /\ up' = Tail(up)
      /\ UNCHANGED <<where, rxtime, rxcomplete, heard>>
  BY DEF Received, cli, hist
<1>1. /\ Head(up) = up[1] /\ Len(up) \in Nat /\ Len(up) >= 1
      /\ Len(up') = Len(up) - 1
      /\ \A i \in 1 .. Len(up) - 1 : up'[i] = up[i + 1]
  BY <1>0, TailShape DEF TypeInv
<1>2. up[1] = <<"time", <<"rx", rx_skb>>>>
  <2>1. StampFollows(0, rx_skb)
    BY DEF TogetherInv
  <2> QED BY <1>1, <2>1 DEF StampFollows
<1>3. TogetherInv'
  BY <1>0, StampsBehind DEF TogetherInv
<1>4. Printed' = Printed
  BY <1>0 DEF Printed
<1>5. Delivered' = rx_skb
  <2>1. delivered \in Seq((1 .. RxFrames) \X Times) /\ delivered' \in Seq((1 .. RxFrames) \X Times)
    BY DEF TypeInv, LogType
  <2>2. <<rx_skb, Head(up)[2]>> \in (1 .. RxFrames) \X Times
    <3>1. Head(up)[2] = <<"rx", rx_skb>> /\ rx_skb \in 1 .. RxFrames
      BY <1>1, <1>2 DEF TypeInv, DriverType
    <3> QED BY <3>1 DEF Times
  <2>3. /\ Len(delivered') = Len(delivered) + 1 /\ Len(delivered) \in Nat
        /\ delivered'[Len(delivered) + 1] = <<rx_skb, Head(up)[2]>>
    BY <2>1, <2>2, AppendProperties, LenProperties
  <2>4. delivered' # << >>
    <3>1. Len(<< >>) = 0
      OBVIOUS
    <3> QED BY ONLY <2>3, <3>1
  <2>5. delivered'[Len(delivered')][1] = rx_skb
    BY <2>3
  <2> QED BY <2>4, <2>5 DEF Delivered, Reception!Latest
<1>6. Delivered < rx_skb /\ rx_skb <= Printed /\ rx_skb \in Nat
  BY DEF OrderInv, TypeInv, DriverType
<1>7. ASSUME NEW i \in 1 .. Len(up'), IsPacket(i)'
      PROVE  /\ Delivered' < up'[i][2] /\ rx_skb' < up'[i][2] /\ up'[i][2] <= Printed'
             /\ \A j \in 1 .. i - 1 : IsPacket(j)' => up'[j][2] < up'[i][2]
  <2>1. i + 1 \in 1 .. Len(up) /\ up'[i] = up[i + 1] /\ IsPacket(i + 1)
    BY <1>1, <1>7 DEF IsPacket
  <2>2. /\ rx_skb < up[i + 1][2] /\ up[i + 1][2] <= Printed
        /\ \A j \in 1 .. i : IsPacket(j) => up[j][2] < up[i + 1][2]
    BY <2>1 DEF OrderInv
  <2>3. up[i + 1][2] \in Nat
    <3>1. up[i + 1] \in Line
      BY <2>1, ElementOfSeq DEF TypeInv, UpType
    <3> QED BY <2>1, <3>1, Kinds DEF IsPacket
  <2>4. ASSUME NEW j \in 1 .. i - 1, IsPacket(j)'
        PROVE  up'[j][2] < up'[i][2]
    <3>1. j + 1 \in 1 .. i /\ j \in 1 .. Len(up) - 1
      BY ONLY <1>1, <2>1, j \in 1 .. i - 1, i \in 1 .. Len(up')
    <3>0. up'[j] = up[j + 1]
      BY ONLY <1>1, <3>1
    <3>2. IsPacket(j + 1)
      BY <2>4, <3>0 DEF IsPacket
    <3> QED BY <2>1, <2>2, <3>0, <3>1, <3>2
  <2>5. rx_skb' = 0 /\ rx_skb < up'[i][2] /\ up'[i][2] <= Printed'
    BY <1>4, <2>1, <2>2
  <2>6. Delivered' < up'[i][2]
    BY <1>5, <2>5
  <2>7. rx_skb' < up'[i][2]
    BY <1>6, <2>1, <2>3, <2>5
  <2> QED BY ONLY <2>4, <2>5, <2>6, <2>7
<1>8. OrderInv'
  <2>1. Delivered' <= Printed' /\ rx_skb' = 0
    BY <1>4, <1>5, <1>6
  <2> QED BY ONLY <1>7, <2>1 DEF OrderInv, None
<1> QED BY <1>1, <1>2, <1>3, <1>6, <1>8

(* A packet is printed: it comes last, and its timestamp is next.          *)
LEMMA RxInvPrintPacket ==
    ASSUME TypeInv, TypeInv', TogetherInv, OrderInv, PrintPacket
    PROVE  TogetherInv' /\ OrderInv'
<1> USE TtyTailAssumption DEF None
<1>0. /\ where = "poll" /\ where' = "time" /\ rxcomplete /\ up' = Append(up, <<"packet", rxtime>>)
      /\ UNCHANGED <<rx_skb, delivered, rxtime, rxcomplete, heard>>
  BY DEF PrintPacket, driver, logs, hist
<1>1. rxtime \in 1 .. RxFrames
  BY <1>0 DEF TypeInv, DeviceType
<1>2. /\ Len(up) \in Nat /\ Len(up') = Len(up) + 1
      /\ \A i \in 1 .. Len(up) : up'[i] = up[i]
      /\ up'[Len(up) + 1] = <<"packet", rxtime>>
  BY <1>0, <1>1, AppendShape, Kinds DEF TypeInv
<1>3. ASSUME NEW i \in 0 .. Len(up), NEW f, StampFollows(i, f)
      PROVE  StampFollows(i, f)'
  <2>1. i < Len(up) /\ up[i + 1] = <<"time", <<"rx", f>>>>
    BY <1>0, <1>3 DEF StampFollows
  <2>2. i < Len(up') /\ up'[i + 1] = up[i + 1]
    BY <1>2, <2>1
  <2> QED BY <2>1, <2>2 DEF StampFollows
<1>4. ASSUME NEW i \in 1 .. Len(up), IsPacket(i)'
      PROVE  /\ up'[i] = up[i] /\ IsPacket(i) /\ StampFollows(i, up[i][2])'
             /\ up[i][2] \in 1 .. RxFrames
  <2>1. up'[i] = up[i] /\ IsPacket(i)
    BY <1>2, <1>4 DEF IsPacket
  <2>2. StampFollows(i, up[i][2])
    BY <2>1 DEF TogetherInv
  <2>3. PICK f : f = up[i][2]
    OBVIOUS
  <2>4. i \in 0 .. Len(up)
    BY <1>2
  <2>5. StampFollows(i, f)'
    BY <1>3, <2>2, <2>3, <2>4
  <2>6. up[i] \in Line
    BY ElementOfSeq DEF TypeInv, UpType
  <2> QED BY <2>1, <2>3, <2>5, <2>6, Kinds DEF StampFollows, IsPacket
<1>5. TogetherInv'
  <2>1. ASSUME NEW i \in 1 .. Len(up'), IsPacket(i)'
        PROVE  StampFollows(i, up[i][2])'
    <3>1. CASE i \in 1 .. Len(up)
      BY <1>4, <2>1, <3>1
    <3>2. CASE i = Len(up) + 1
      <4>1. ~(i < Len(up')) /\ up'[i][2] = rxtime
        BY <1>2, <3>2
      <4> QED BY <1>0, <4>1 DEF StampFollows
    <3> QED BY <1>2, <3>1, <3>2
  <2>2. ASSUME rx_skb' # None PROVE StampFollows(0, rx_skb)'
    <3>1. StampFollows(0, rx_skb)
      BY <1>0, <2>2 DEF TogetherInv
    <3>2. PICK h : h = rx_skb
      OBVIOUS
    <3>3. StampFollows(0, h)'
      BY <1>2, <1>3, <3>1, <3>2
    <3> QED BY <1>0, <3>2, <3>3 DEF StampFollows
  <2> QED BY <2>1, <2>2 DEF TogetherInv
<1>6. Printed = rxtime - 1 /\ Printed' = rxtime /\ Delivered' = Delivered
  BY <1>0 DEF Printed, Delivered, Reception!Latest
<1>7. rx_skb' = rx_skb /\ rx_skb \in Nat /\ rx_skb <= Printed
  <2>1. rx_skb \in Nat
    BY DEF TypeInv, DriverType
  <2> QED BY <1>0, <1>1, <1>6, <2>1 DEF OrderInv
<1>8. Delivered <= Printed /\ (rx_skb # None => Delivered < rx_skb)
  BY DEF OrderInv
<1>9. Delivered \in Int
  <2>1. delivered # << >> => delivered[Len(delivered)] \in (1 .. RxFrames) \X Times
    BY ElementOfSeq, LenProperties, EmptySeq DEF TypeInv, LogType
  <2> QED BY <2>1 DEF Delivered, Reception!Latest, Reception!None
<1>10. ASSUME NEW i \in 1 .. Len(up'), IsPacket(i)'
       PROVE  /\ Delivered' < up'[i][2] /\ rx_skb' < up'[i][2] /\ up'[i][2] <= Printed'
              /\ \A j \in 1 .. i - 1 : IsPacket(j)' => up'[j][2] < up'[i][2]
  <2>1. CASE i \in 1 .. Len(up)
    <3>1. up'[i] = up[i] /\ IsPacket(i) /\ up[i][2] \in 1 .. RxFrames
      BY <1>4, <1>10, <2>1
    <3>2. /\ Delivered < up[i][2] /\ rx_skb < up[i][2] /\ up[i][2] <= Printed
          /\ \A j \in 1 .. i - 1 : IsPacket(j) => up[j][2] < up[i][2]
      BY <2>1, <3>1 DEF OrderInv
    <3>3. ASSUME NEW j \in 1 .. i - 1, IsPacket(j)' PROVE up'[j][2] < up'[i][2]
      <4>1. j \in 1 .. Len(up)
        BY <2>1
      <4> QED BY <1>4, <3>1, <3>2, <3>3, <4>1
    <3>4. up[i][2] <= Printed'
      BY <1>1, <1>6, <3>1, <3>2
    <3> QED BY <1>6, <1>7, <3>1, <3>2, <3>3, <3>4
  <2>2. CASE i = Len(up) + 1
    <3>1. up'[i][2] = rxtime
      BY <1>2, <2>2
    <3>2. Delivered < rxtime /\ rx_skb < rxtime
      BY <1>1, <1>6, <1>7, <1>8, <1>9
    <3>3. ASSUME NEW j \in 1 .. i - 1, IsPacket(j)' PROVE up'[j][2] < up'[i][2]
      <4>1. j \in 1 .. Len(up)
        BY <1>2, <2>2
      <4>2. up'[j] = up[j] /\ IsPacket(j) /\ up[j][2] \in 1 .. RxFrames
        BY <1>4, <3>3, <4>1
      <4>3. up[j][2] <= Printed
        BY <4>1, <4>2 DEF OrderInv
      <4> QED BY <1>1, <1>6, <3>1, <4>2, <4>3
    <3> QED BY <1>1, <1>6, <1>7, <3>1, <3>2, <3>3
  <2> QED BY <1>2, <2>1, <2>2
<1>11. Delivered' <= Printed' /\ (rx_skb' # None => Delivered' < rx_skb' /\ rx_skb' <= Printed')
  BY <1>1, <1>6, <1>7, <1>8, <1>9
<1> QED BY <1>5, <1>10, <1>11 DEF OrderInv

(* The timestamp of the packet that was printed last is printed.           *)
LEMMA RxInvPrintTime ==
    ASSUME TypeInv, TypeInv', TogetherInv, OrderInv, PrintTime
    PROVE  TogetherInv' /\ OrderInv'
<1> USE TtyTailAssumption DEF None
<1> DEFINE l == <<"time", <<"rx", rxtime>>>>
<1>0. /\ where = "time" /\ where' = "poll" /\ ~rxcomplete' /\ up' = Append(up, l)
      /\ UNCHANGED <<rx_skb, delivered, rxtime, heard>>
  BY DEF PrintTime, driver, logs, hist
<1>1. rxtime \in 1 .. RxFrames /\ rxtime <= heard /\ heard \in Nat
  BY <1>0 DEF TypeInv, DeviceType
<1>2. l \in Line
  BY <1>1, Kinds DEF Times
<1>3. /\ Len(up) \in Nat /\ Len(up') = Len(up) + 1
      /\ \A i \in 1 .. Len(up) : up'[i] = up[i]
      /\ up'[Len(up) + 1] = l
  BY <1>0, <1>2, AppendShape DEF TypeInv
<1>4. ASSUME NEW i \in 0 .. Len(up), NEW f, StampFollows(i, f)
      PROVE  StampFollows(i, f)'
  <2>1. i < Len(up')
    BY <1>3
  <2>2. up'[i + 1] = <<"time", <<"rx", f>>>>
    <3>1. CASE i < Len(up)
      BY <1>3, <1>4, <3>1 DEF StampFollows
    <3>2. CASE i = Len(up)
      BY <1>3, <1>4, <3>2 DEF StampFollows
    <3> QED BY <1>3, <3>1, <3>2
  <2> QED BY <2>1, <2>2 DEF StampFollows
<1>5. ASSUME NEW i \in 1 .. Len(up'), up'[i][1] = "packet"
      PROVE  i \in 1 .. Len(up) /\ up'[i] = up[i] /\ IsPacket(i)
  <2>1. i # Len(up) + 1
    BY <1>3, <1>5
  <2> QED BY <1>3, <1>5, <2>1 DEF IsPacket
<1> HIDE DEF l
<1>6. TogetherInv'
  <2>1. ASSUME NEW i \in 1 .. Len(up'), IsPacket(i)'
        PROVE  StampFollows(i, up[i][2])'
    <3>1. i \in 1 .. Len(up) /\ up'[i] = up[i] /\ IsPacket(i)
      BY <1>5, <2>1 DEF IsPacket
    <3>2. StampFollows(i, up[i][2])
      BY <3>1 DEF TogetherInv
    <3>3. PICK h : h = up[i][2]
      OBVIOUS
    <3>4. i \in 0 .. Len(up)
      BY <1>3, <3>1
    <3>5. StampFollows(i, h)'
      BY <1>4, <3>2, <3>3, <3>4
    <3>6. h = up'[i][2]
      BY <3>1, <3>3
    <3> QED BY <3>5, <3>6 DEF StampFollows
  <2>2. ASSUME rx_skb' # None PROVE StampFollows(0, rx_skb)'
    <3>1. StampFollows(0, rx_skb)
      BY <1>0, <2>2 DEF TogetherInv
    <3>2. PICK h : h = rx_skb
      OBVIOUS
    <3>3. StampFollows(0, h)'
      BY <1>3, <1>4, <3>1, <3>2
    <3> QED BY <1>0, <3>2, <3>3 DEF StampFollows
  <2> QED BY <2>1, <2>2 DEF TogetherInv
<1>7. OrderInv'
  <2> DEFINE g == [i \in 1 .. Len(up') |-> i]
  <2>1. g \in [1 .. Len(up') -> Nat]
    BY <1>3
  <2>2. \A i \in 1 .. Len(up') : up'[i][1] = "packet" =>
             /\ g[i] \in 1 .. Len(up) /\ up'[i] = up[g[i]]
             /\ \A j \in 1 .. i - 1 : up'[j][1] = "packet" => g[j] < g[i]
    BY <1>3, <1>5
  <2>3. Printed' \in Nat /\ Printed <= Printed'
    BY <1>0, <1>1 DEF Printed
  <2>4. UpType'
    BY DEF TypeInv
  <2> HIDE DEF g
  <2> QED BY <1>0, <2>1, <2>2, <2>3, <2>4, OrderKeptBy
<1> QED BY <1>6, <1>7

(* A line that is not about a reception is lost: it stood between no       *)
(* packet and its timestamp.                                               *)
LEMMA RxInvLoseLine ==
    ASSUME TypeInv, TypeInv', TogetherInv, OrderInv, LoseLine, ~mixed'
    PROVE  TogetherInv' /\ OrderInv'
<1> USE TtyTailAssumption DEF None
<1>0. UNCHANGED <<where, rxtime, rxcomplete, heard, rx_skb, delivered>>
  BY DEF LoseLine, driver, cli, logs
<1>1. PICK k \in DOMAIN up : up' = RemoveAt(up, k) /\ mixed' = (mixed \/ AboutReception(up[k]))
  BY DEF LoseLine
<1>2. /\ up \in Seq(Line) /\ Len(up) \in Nat /\ k \in 1 .. Len(up)
      /\ Len(up') = Len(up) - 1
      /\ \A i \in 1 .. Len(up) - 1 : up'[i] = up[IF i < k THEN i ELSE i + 1]
  <2>1. up \in Seq(Line)
    BY DEF TypeInv, UpType
  <2>2. k \in 1 .. Len(up) /\ Len(up) \in Nat
    BY <2>1, LenProperties
  <2> QED BY <1>1, <2>1, <2>2, Removed
<1>3. up[k][1] # "packet" /\ \A f : up[k] # <<"time", <<"rx", f>>>>
  <2>1. ~AboutReception(up[k])
    BY <1>1
  <2> QED BY <2>1 DEF AboutReception
<1> DEFINE from(i) == IF i < k THEN i ELSE i + 1
<1>4. ASSUME NEW i \in 0 .. Len(up'), NEW f,
             i = 0 \/ up'[i][1] = "packet",
             StampFollows(IF i = 0 THEN 0 ELSE from(i), f)
      PROVE  StampFollows(i, f)'
  <2> DEFINE j == IF i = 0 THEN 0 ELSE from(i)
  <2>1. StampFollows(j, f)
    BY <1>4
  <2>2. j \in 0 .. Len(up) /\ (i < k => j = i) /\ (~(i < k) => j = i + 1)
    BY <1>2
  <2> HIDE DEF j
  <2>3. CASE j < Len(up)
    <3>1. up[j + 1] = <<"time", <<"rx", f>>>>
      BY <2>1, <2>3 DEF StampFollows
    <3>2. k # j + 1
      BY <1>3, <3>1
    <3>3. i \in Nat /\ j \in Nat /\ k \in Nat /\ Len(up) \in Nat /\ k <= Len(up) /\ Len(up') = Len(up) - 1
      BY <1>2, <2>2
    <3>4. /\ i < Len(up') /\ i + 1 \in 1 .. Len(up) - 1
          /\ i + 1 < k => j + 1 = i + 1
          /\ ~(i + 1 < k) => j + 1 = i + 2
      BY ONLY <2>2, <2>3, <3>2, <3>3
    <3>5. up'[i + 1] = up[IF i + 1 < k THEN i + 1 ELSE i + 2]
      BY <1>2, <3>4
    <3>6. up'[i + 1] = up[j + 1]
      BY ONLY <3>4, <3>5
    <3> QED BY <3>1, <3>4, <3>6 DEF StampFollows
  <2>4. CASE ~(j < Len(up))
    <3>1. where = "time" /\ rxtime = f /\ j = Len(up)
      BY <1>2, <2>1, <2>2, <2>4 DEF StampFollows
    <3>2. j # k
      <4>1. CASE i = 0
        BY <1>2, <2>2, <4>1
      <4>2. CASE i # 0
        BY <1>2, <2>2, <4>2
      <4> QED BY <4>1, <4>2
    <3>3. ~(i < Len(up'))
      BY <1>2, <2>2, <3>1, <3>2
    <3> QED BY <1>0, <3>1, <3>3 DEF StampFollows
  <2> QED BY <2>3, <2>4
<1>5. TogetherInv'
  <2>1. ASSUME NEW i \in 1 .. Len(up'), IsPacket(i)'
        PROVE  StampFollows(i, up[i][2])'
    <3>1. i \in 0 .. Len(up') /\ i # 0 /\ i \in 1 .. Len(up) - 1
      BY <1>2
    <3>2. up'[i] = up[from(i)] /\ from(i) \in 1 .. Len(up)
      BY <1>2, <3>1
    <3> HIDE DEF from
    <3>3. up'[i][1] = "packet" /\ IsPacket(from(i))
      BY <2>1, <3>2 DEF IsPacket
    <3>4. StampFollows(from(i), up[from(i)][2])
      BY <3>2, <3>3 DEF TogetherInv
    <3>5. PICK h : h = up[from(i)][2]
      OBVIOUS
    <3>6. StampFollows(i, h)'
      BY <1>4, <3>1, <3>3, <3>4, <3>5
    <3>7. h = up'[i][2]
      BY <3>2, <3>5
    <3> QED BY <3>6, <3>7 DEF StampFollows
  <2>2. ASSUME rx_skb' # None PROVE StampFollows(0, rx_skb)'
    <3>1. StampFollows(0, rx_skb)
      BY <1>0, <2>2 DEF TogetherInv
    <3>2. PICK h : h = rx_skb
      OBVIOUS
    <3>3. 0 \in 0 .. Len(up')
      BY <1>2
    <3>4. StampFollows(0, h)'
      BY <1>4, <3>1, <3>2, <3>3
    <3> QED BY <1>0, <3>2, <3>4 DEF StampFollows
  <2> QED BY <2>1, <2>2 DEF TogetherInv
<1>6. OrderInv'
  <2> DEFINE g == [i \in 1 .. Len(up') |-> from(i)]
  <2>1. g \in [1 .. Len(up') -> Nat]
    BY <1>2
  <2>2. \A i \in 1 .. Len(up') :
             /\ g[i] \in 1 .. Len(up) /\ up'[i] = up[g[i]]
             /\ \A j \in 1 .. i - 1 : g[j] < g[i]
    <3>1. k \in Int /\ Len(up) \in Nat /\ Len(up') = Len(up) - 1
      BY <1>2
    <3>2. ASSUME NEW i \in 1 .. Len(up')
          PROVE  g[i] \in 1 .. Len(up) /\ up'[i] = up[g[i]]
      <4>1. i \in 1 .. Len(up) - 1 /\ g[i] = IF i < k THEN i ELSE i + 1
        BY <3>1
      <4>2. up'[i] = up[g[i]]
        BY ONLY <1>2, <4>1
      <4> HIDE DEF g
      <4> QED BY ONLY <3>1, <4>1, <4>2
    <3>3. ASSUME NEW i \in 1 .. Len(up'), NEW j \in 1 .. i - 1
          PROVE  g[j] < g[i]
      <4>1. j \in 1 .. Len(up') /\ i \in Int /\ j \in Int /\ j < i
        BY <3>1
      <4>2. g[i] = (IF i < k THEN i ELSE i + 1) /\ g[j] = (IF j < k THEN j ELSE j + 1)
        BY <4>1
      <4> HIDE DEF g
      <4> QED BY ONLY <3>1, <4>1, <4>2
    <3> QED BY <3>2, <3>3
  <2>3. Printed' = Printed /\ Printed \in Nat
    BY <1>0 DEF Printed, TypeInv, DeviceType
  <2>4. Printed' \in Nat /\ Printed <= Printed'
    BY <2>3
  <2>5. UpType'
    BY DEF TypeInv
  <2> HIDE DEF g
  <2> QED BY <1>0, <2>1, <2>2, <2>4, <2>5, OrderKeptBy
<1> QED BY <1>5, <1>6

(* A frame is received, and kept unless the last one has yet to be printed. *)
LEMMA RxInvReceived ==
    ASSUME TypeInv, TypeInv', TogetherInv, OrderInv, txrx_rxdone
    PROVE  TogetherInv' /\ OrderInv'
<1>0. UNCHANGED <<up, where, rx_skb, delivered>> /\ heard' = heard + 1
  BY DEF txrx_rxdone, driver, logs
<1>1. IF rxcomplete THEN UNCHANGED <<rxtime, rxcomplete>>
                    ELSE where # "time" /\ rxtime' = heard + 1 /\ rxcomplete'
  BY DEF txrx_rxdone, TypeInv, DeviceType
<1>2. \A i, f : StampFollows(i, f) => StampFollows(i, f)'
  BY <1>0, <1>1 DEF StampFollows
<1>3. TogetherInv'
  <2>1. \A i \in 1 .. Len(up) : IsPacket(i)' => StampFollows(i, up[i][2])'
    <3>1. ASSUME NEW i \in 1 .. Len(up), IsPacket(i)' PROVE StampFollows(i, up[i][2])'
      <4>1. StampFollows(i, up[i][2])
        BY <1>0, <3>1 DEF TogetherInv, IsPacket
      <4>2. PICK f : f = up[i][2]
        OBVIOUS
      <4>3. StampFollows(i, f)'
        BY <1>2, <4>1, <4>2
      <4> QED BY <1>0, <4>2, <4>3
    <3> QED BY <3>1
  <2>2. ASSUME rx_skb' # None PROVE StampFollows(0, rx_skb)'
    <3>1. PICK f : f = rx_skb
      OBVIOUS
    <3>2. StampFollows(0, f)'
      BY <1>0, <1>2, <2>2, <3>1 DEF TogetherInv
    <3> QED BY <1>0, <3>1, <3>2
  <2> QED BY <1>0, <2>1, <2>2 DEF TogetherInv
<1>4. Printed <= Printed' /\ Printed' \in Int /\ Printed \in Int
  <2>1. heard \in Nat /\ rxtime \in Nat /\ (where = "time" => rxcomplete)
    BY DEF TypeInv, DeviceType
  <2>2. Printed = IF where = "time" THEN rxtime ELSE IF rxcomplete THEN rxtime - 1 ELSE heard
    BY DEF Printed
  <2>3. Printed' = IF where = "time" THEN rxtime' ELSE IF rxcomplete' THEN rxtime' - 1 ELSE heard'
    BY <1>0 DEF Printed
  <2>4. CASE rxcomplete
    <3>1. rxtime' = rxtime /\ rxcomplete'
      BY <1>1, <2>4
    <3> QED BY <2>1, <2>2, <2>3, <2>4, <3>1
  <2>5. CASE ~rxcomplete
    <3>1. where # "time" /\ rxtime' = heard + 1 /\ rxcomplete'
      BY <1>1, <2>5
    <3> QED BY <2>1, <2>2, <2>3, <2>5, <3>1
  <2> QED BY <2>4, <2>5
<1>5. Delivered' = Delivered /\ Delivered \in Int /\ rx_skb \in Int
  <2>1. delivered # << >> => delivered[Len(delivered)] \in (1 .. RxFrames) \X Times
    BY ElementOfSeq, LenProperties, EmptySeq DEF TypeInv, LogType
  <2> QED BY <1>0, <2>1 DEF Delivered, Reception!Latest, Reception!None, TypeInv, DriverType
<1>6. ASSUME NEW i \in 1 .. Len(up), IsPacket(i) PROVE up[i][2] <= Printed'
  <2>1. up[i] \in Line
    BY ElementOfSeq DEF TypeInv, UpType
  <2>2. up[i][2] \in 1 .. RxFrames
    BY <1>6, <2>1, Kinds DEF IsPacket
  <2>3. up[i][2] <= Printed
    BY <1>6 DEF OrderInv
  <2> QED BY <1>4, <2>2, <2>3
<1>7. OrderInv'
  <2>1. ASSUME NEW i \in 1 .. Len(up'), IsPacket(i)'
        PROVE  /\ Delivered' < up'[i][2] /\ rx_skb' < up'[i][2] /\ up'[i][2] <= Printed'
               /\ \A j \in 1 .. i - 1 : IsPacket(j)' => up'[j][2] < up'[i][2]
    <3>1. i \in 1 .. Len(up) /\ IsPacket(i) /\ up'[i] = up[i]
      BY <1>0, <2>1 DEF IsPacket
    <3>2. /\ Delivered < up[i][2] /\ rx_skb < up[i][2]
          /\ \A j \in 1 .. i - 1 : IsPacket(j) => up[j][2] < up[i][2]
      BY <3>1 DEF OrderInv
    <3> QED BY <1>0, <1>5, <1>6, <3>1, <3>2 DEF IsPacket
  <2>2. Delivered' <= Printed' /\ (rx_skb' # None => Delivered' < rx_skb' /\ rx_skb' <= Printed')
    BY <1>0, <1>4, <1>5 DEF OrderInv
  <2> QED BY <2>1, <2>2 DEF OrderInv
<1> QED BY <1>3, <1>7

(* The driver's packet may go, the rest stays.                             *)
LEMMA RxInvSame ==
    ASSUME TypeInv, TypeInv', TogetherInv, OrderInv,
           UNCHANGED <<up, where, rxtime, rxcomplete, heard, delivered>>,
           rx_skb' = rx_skb \/ rx_skb' = None
    PROVE  TogetherInv' /\ OrderInv'
<1> USE TtyTailAssumption DEF None
<1>1. TogetherInv'
  BY DEF TogetherInv, StampFollows, IsPacket
<1>2. OrderInv'
  <2> DEFINE g == [i \in 1 .. Len(up') |-> i]
  <2>0. Len(up) \in Nat
    BY LenProperties DEF TypeInv, UpType
  <2>1. g \in [1 .. Len(up') -> Nat]
    BY <2>0
  <2>2. \A i \in 1 .. Len(up') :
             /\ g[i] \in 1 .. Len(up) /\ up'[i] = up[g[i]]
             /\ \A j \in 1 .. i - 1 : g[j] < g[i]
    BY <2>0
  <2>3. Printed' = Printed /\ Printed \in Nat
    BY DEF Printed, TypeInv, DeviceType
  <2>4. Printed' \in Nat /\ Printed <= Printed'
    BY <2>3
  <2>5. UpType'
    BY DEF TypeInv
  <2> HIDE DEF g
  <2> QED BY <2>1, <2>2, <2>4, <2>5, OrderKeptBy
<1> QED BY <1>1, <1>2

(* What the device answers to a command is not about a reception.          *)
LEMMA RxInvRead ==
    ASSUME TypeInv, TypeInv', TogetherInv, OrderInv, cli_read
    PROVE  TogetherInv' /\ OrderInv'
<1>1. UNCHANGED <<rx_skb, delivered, heard>>
  BY DEF cli_read, driver, logs, hist
<1>2. where # "time"
  BY DEF cli_read
<1> DEFINE Kept     == ~rxcomplete' \/ (rxcomplete /\ rxtime' = rxtime)
           Answered == up' = up \/ \E l \in {<<"ready">>, <<"echo">>, <<"eui">>} : up' = Append(up, l)
<1>6. ASSUME UNCHANGED <<rxcomplete, rxtime>> PROVE Kept
  BY <1>6
<1>3. where' # "time" /\ Kept /\ Answered
  <2>1. ASSUME NEW buf, NEW rest, Execute(buf, rest)
        PROVE  where' # "time" /\ Kept /\ Answered
    <3>1. CASE fn_reset
      BY <3>1 DEF fn_reset, cli_init
    <3>2. CASE /\ where' = "read"
               /\ \/ fn_echo(Whole(buf)) \/ fn_config_eui \/ fn_rx
                  \/ \E f : fn_tx(f)
                  \/ UNCHANGED <<up, echo, pending, txcomplete, rxcomplete, txtime, rxtime, rxactive, radio>>
      <4>1. UNCHANGED <<rxcomplete, rxtime>>
        BY <3>2 DEF fn_echo, fn_config_eui, fn_rx, fn_tx
      <4>2. Answered
        BY <3>2 DEF fn_echo, fn_config_eui, fn_rx, fn_tx
      <4> QED BY <1>6, <3>2, <4>1, <4>2
    <3> QED BY <2>1, <3>1, <3>2 DEF Execute
  <2>2. CASE /\ where' = "read"
             /\ UNCHANGED <<up, echo, pending, txcomplete, rxcomplete, txtime, rxtime, rxactive, radio>>
    BY <1>6, <2>2
  <2> QED BY <2>1, <2>2 DEF cli_read
<1>4. \A l \in {<<"ready">>, <<"echo">>, <<"eui">>} : l \in Line /\ l[1] # "packet"
  BY Kinds
<1>5. PICK l \in Line : l[1] # "packet" /\ (up' = up \/ up' = Append(up, l))
  BY <1>3, <1>4
<1> QED BY <1>1, <1>2, <1>3, <1>5, RxInvAppend

(* Every step keeps packets and timestamps together and in order.          *)
LEMMA RxInductive ==
    /\ Init => RxInv
    /\ TypeInv /\ RxInv /\ [Next]_vars => RxInv'
<1>1. ASSUME Init PROVE RxInv
  <2> USE TtyTailAssumption DEF None
  <2>1. up = << >> \/ up = <<<<"ready">>>>
    BY <1>1 DEF Init
  <2>2. \A i \in 1 .. Len(up) : ~IsPacket(i)
    BY <2>1 DEF IsPacket
  <2>3. rx_skb = None /\ Delivered = None /\ Printed = 0
    BY <1>1 DEF Init, Delivered, Reception!Latest, Reception!None, Printed
  <2> QED BY <2>2, <2>3 DEF RxInv, TogetherInv, OrderInv
<1>2. ASSUME TypeInv, RxInv, Next, ~mixed' PROVE TogetherInv' /\ OrderInv'
  <2>0. TypeInv'
    BY <1>2, TypeInductive
  <2>a. ~mixed
    BY <1>2 DEF Next, OpenWorker, ttytail_reset, ConfigEcho, ConfigEui, ConfigRx, Register, Timeout, Advance,
                TxWorker, WorkerWrite, WorkerCount, ttytail_write_wakeup,
                Receiver, RxReady, RxEcho, ttytail_rx_eui64, ttytail_rx_packet, ttytail_rx_timestamp, Received,
                Reading, cli_read, cli_read_end, Printing, tx_poll, PrintPacket, PrintTime,
                txrx_txdone, txrx_rxdone, Reopen, ttytail_stop, ttytail_xmit_async,
                LoseLine, LoseInput, Restart, PollNothing, vars, hist
  <2>b. TogetherInv /\ OrderInv
    BY <1>2, <2>a DEF RxInv
  <2>1. CASE UNCHANGED <<up, where, rxtime, rxcomplete, heard, delivered, rx_skb>>
    BY <1>2, <2>0, <2>b, <2>1, RxInvSame
  <2>2. CASE OpenWorker \/ TxWorker \/ ttytail_stop \/ ttytail_xmit_async \/ UNCHANGED vars
    <3>1. UNCHANGED <<up, where, rxtime, rxcomplete, heard, delivered, rx_skb>>
      BY <2>2 DEF OpenWorker, ttytail_reset, ConfigEcho, ConfigEui, ConfigRx, Register, Timeout, Advance,
                  TxWorker, WorkerWrite, WorkerCount, ttytail_write_wakeup,
                  ttytail_stop, ttytail_xmit_async, vars, driver, cli, logs, hist
    <3> QED BY <2>1, <3>1
  <2>3. CASE cli_read_end \/ txrx_txdone \/ LoseInput
    <3>1. CASE cli_read_end
      <4>2. UNCHANGED <<up, rxtime, rxcomplete, heard, delivered, rx_skb>> /\ where # "time" /\ where' # "time"
        BY <3>1 DEF cli_read_end, driver, logs, hist
      <4>3. PICK l : l = <<"ready">>
        OBVIOUS
      <4>4. l \in Line /\ l[1] # "packet"
        BY <4>3, Kinds
      <4>5. ~rxcomplete' \/ (rxcomplete /\ rxtime' = rxtime)
        BY <4>2
      <4> QED BY <1>2, <2>0, <2>b, <4>2, <4>4, <4>5, RxInvAppend
    <3>2. CASE txrx_txdone \/ LoseInput
      <4>1. UNCHANGED <<up, where, rxtime, rxcomplete, heard, delivered, rx_skb>>
        BY <3>2 DEF txrx_txdone, LoseInput, driver, cli, logs, hist
      <4> QED BY <2>1, <4>1
    <3> QED BY <2>3, <3>1, <3>2
  <2>4. CASE Reopen
    <3>1. UNCHANGED <<up, where, rxtime, rxcomplete, heard, delivered>> /\ rx_skb' = None
      BY <2>4 DEF Reopen, cli, logs
    <3> QED BY <1>2, <2>0, <2>b, <3>1, RxInvSame
  <2>5. CASE RxReady \/ RxEcho \/ ttytail_rx_eui64
    <3>1. /\ up # << >> /\ up' = Tail(up) /\ Head(up)[1] \in {"ready", "echo", "eui"}
          /\ UNCHANGED <<where, rxtime, rxcomplete, heard, delivered, rx_skb>>
      BY <2>5 DEF RxReady, RxEcho, ttytail_rx_eui64, Received, cli, logs, hist
    <3>2. Head(up) = up[1] /\ Len(up) \in Nat /\ Len(up) >= 1
      BY <1>2, <3>1, TailShape DEF TypeInv
    <3>3. rx_skb = None
      BY <2>b, <3>1, <3>2 DEF TogetherInv, StampFollows
    <3>4. up[1][1] # "packet" /\ rx_skb' = None
      BY <3>1, <3>2, <3>3
    <3> QED BY <1>2, <2>0, <2>b, <3>1, <3>3, <3>4, RxInvTail
  <2>6. CASE ttytail_rx_packet
    BY <1>2, <2>0, <2>b, <2>6, RxInvPacket
  <2>7. CASE ttytail_rx_timestamp
    <3>1. CASE rx_skb # None
      <4>1. Received("time") /\ rx_skb' = None /\ delivered' = Append(delivered, <<rx_skb, Head(up)[2]>>)
        BY <2>7, <3>1 DEF ttytail_rx_timestamp
      <4> QED BY <1>2, <2>0, <2>b, <3>1, <4>1, RxInvStamp
    <3>2. CASE rx_skb = None
      <4>1. /\ up # << >> /\ up' = Tail(up) /\ Head(up)[1] = "time"
            /\ UNCHANGED <<where, rxtime, rxcomplete, heard, delivered, rx_skb>>
        BY <2>7, <3>2 DEF ttytail_rx_timestamp, Received, cli, logs, hist
      <4>2. Head(up) = up[1]
        BY <1>2, <4>1, TailShape DEF TypeInv
      <4>3. up[1][1] # "packet" /\ rx_skb' = None
        BY <3>2, <4>1, <4>2
      <4> QED BY <1>2, <2>0, <2>b, <3>2, <4>1, <4>3, RxInvTail
    <3> QED BY <3>1, <3>2
  <2>8. CASE cli_read
    BY <1>2, <2>0, <2>b, <2>8, RxInvRead
  <2>9. CASE tx_poll
    <3>1. /\ up' = Append(up, <<"time", <<"tx", txtime>>>>) /\ txtime \in 1 .. TxFrames
          /\ where # "time" /\ where' # "time"
          /\ UNCHANGED <<rxtime, rxcomplete, heard, delivered, rx_skb>>
      BY <1>2, <2>9 DEF tx_poll, driver, logs, hist, TypeInv, DeviceType, None
    <3>2. PICK l : l = <<"time", <<"tx", txtime>>>>
      OBVIOUS
    <3>3. l \in Line /\ l[1] # "packet"
      BY <3>1, <3>2, Kinds DEF Times
    <3>4. ~rxcomplete' \/ (rxcomplete /\ rxtime' = rxtime)
      BY <3>1
    <3> QED BY <1>2, <2>0, <2>b, <3>1, <3>2, <3>3, <3>4, RxInvAppend
  <2>10. CASE PrintPacket
    BY <1>2, <2>0, <2>b, <2>10, RxInvPrintPacket
  <2>11. CASE PrintTime
    BY <1>2, <2>0, <2>b, <2>11, RxInvPrintTime
  <2>12. CASE txrx_rxdone
    BY <1>2, <2>0, <2>b, <2>12, RxInvReceived
  <2>13. CASE LoseLine
    BY <1>2, <2>0, <2>b, <2>13, RxInvLoseLine
  <2>14. CASE Restart
    <3>1. /\ up' = Append(up, <<"ready">>) /\ where # "time" /\ where' # "time" /\ ~rxcomplete'
          /\ UNCHANGED <<heard, delivered, rx_skb>>
      BY <1>2, <2>14 DEF Restart, cli_init, driver, logs, TypeInv, LogType
    <3>2. PICK l : l = <<"ready">>
      OBVIOUS
    <3>3. l \in Line /\ l[1] # "packet"
      BY <3>2, Kinds
    <3> QED BY <1>2, <2>0, <2>b, <3>1, <3>2, <3>3, RxInvAppend
  <2> QED BY <1>2, <2>2, <2>3, <2>4, <2>5, <2>6, <2>7, <2>8, <2>9, <2>10, <2>11, <2>12, <2>13, <2>14
          DEF Next, Receiver, Reading, Printing, PollNothing
<1>3. ASSUME RxInv, UNCHANGED vars PROVE RxInv'
  <2>1. UNCHANGED <<up, where, rxtime, rxcomplete, heard, delivered, rx_skb, mixed>>
    BY <1>3 DEF vars, driver, cli, logs, hist
  <2> QED BY <1>3, <2>1 DEF RxInv, TogetherInv, OrderInv, StampFollows, IsPacket, Printed, Delivered, Reception!Latest
<1> QED BY <1>1, <1>2, <1>3 DEF RxInv

(* Every step is one of the link's, as far as receptions go.               *)
LEMMA RxStep ==
    ASSUME TypeInv, RxInv, [Next]_vars
    PROVE  [Reception!Next]_(Reception!linkVars)
<1>1. CASE mixed'
  BY <1>1 DEF Reception!Next, Reception!Fail
<1>2. ASSUME ~mixed', delivered' = delivered
      PROVE  UNCHANGED Reception!linkVars
  <2>1. mixed' = mixed
    BY <1>2, TypeInductive
       DEF Next, OpenWorker, ttytail_reset, ConfigEcho, ConfigEui, ConfigRx, Register, Timeout, Advance,
           TxWorker, WorkerWrite, WorkerCount, ttytail_write_wakeup,
           Receiver, RxReady, RxEcho, ttytail_rx_eui64, ttytail_rx_packet, ttytail_rx_timestamp, Received,
           Reading, cli_read, cli_read_end, Printing, tx_poll, PrintPacket, PrintTime,
           txrx_txdone, txrx_rxdone, Reopen, ttytail_stop, ttytail_xmit_async,
           LoseLine, LoseInput, Restart, PollNothing, vars, hist, TypeInv, LogType
  <2> QED BY <1>2, <2>1 DEF Reception!linkVars
<1>3. ASSUME ~mixed', delivered' # delivered
      PROVE  Reception!Next
  <2>1. ttytail_rx_timestamp
    BY <1>3
       DEF Next, OpenWorker, ttytail_reset, ConfigEcho, ConfigEui, ConfigRx, Register, Timeout, Advance,
           TxWorker, WorkerWrite, WorkerCount, ttytail_write_wakeup,
           Receiver, RxReady, RxEcho, ttytail_rx_eui64, ttytail_rx_packet, Received,
           Reading, cli_read, cli_read_end, Printing, tx_poll, PrintPacket, PrintTime,
           txrx_txdone, txrx_rxdone, Reopen, ttytail_stop, ttytail_xmit_async,
           LoseLine, LoseInput, Restart, PollNothing, vars, logs
  <2>2. /\ Received("time") /\ rx_skb # None /\ rx_skb' = None
        /\ delivered' = Append(delivered, <<rx_skb, Head(up)[2]>>)
    BY <1>3, <2>1 DEF ttytail_rx_timestamp, logs
  <2>3. mixed' = mixed
    BY <2>2 DEF Received, hist
  <2>4. TogetherInv /\ OrderInv
    BY <1>3, <2>3 DEF RxInv
  <2>5. Head(up)[2] = <<"rx", rx_skb>> /\ Delivered < rx_skb
    BY <2>2, <2>4, RxInvStamp, TypeInductive
  <2>6. rx_skb \in 1 .. RxFrames
    BY <2>2, TtyTailAssumption DEF TypeInv, DriverType, None
  <2>7. Reception!Deliver(rx_skb)
    BY <2>2, <2>3, <2>5 DEF Reception!Deliver, Delivered
  <2> QED BY <2>6, <2>7 DEF Reception!Next
<1> QED BY <1>1, <1>2, <1>3

(* As long as no line about a received frame is lost, the driver hands up  *)
(* each received frame at most once, in order and with its own timestamp,  *)
(* whatever transmissions, openings, restarts and other losses come in     *)
(* between (ttytail.c:135-202 against cli.c:536-596).                       *)
THEOREM Receptions == Spec => ReceptionSpec
<1>1. Init => TypeInv /\ RxInv
  BY TypeInductive, RxInductive
<1>2. TypeInv /\ RxInv /\ [Next]_vars => (TypeInv /\ RxInv)'
  BY TypeInductive, RxInductive
<1>3. Init => Reception!Init
  BY DEF Init, Reception!Init, None, Reception!None
<1>4. TypeInv /\ RxInv /\ [Next]_vars => [Reception!Next]_(Reception!linkVars)
  BY RxStep
<1> QED BY <1>1, <1>2, <1>3, <1>4, PTL DEF Spec, ReceptionSpec, Reception!Spec

(* A received frame that waits for its timestamp has it at the head of the *)
(* cable, or is the one whose timestamp is being printed: the next packet  *)
(* line cannot come first and replace it (ttytail.c:139-145), whatever else *)
(* is lost, until a line about a received frame is.                        *)
THEOREM ReceivedFrameWaits == Spec => NoneReplaced
<1>1. Init => TypeInv /\ RxInv
  BY TypeInductive, RxInductive
<1>2. TypeInv /\ RxInv /\ [Next]_vars => (TypeInv /\ RxInv)'
  BY TypeInductive, RxInductive
<1>3. TypeInv /\ RxInv /\ [Next]_vars => [rx_skb # None /\ ~mixed => rx_skb' \in {rx_skb, None}]_vars
  <2> SUFFICES ASSUME TypeInv, RxInv, Next, rx_skb # None, ~mixed
               PROVE  rx_skb' \in {rx_skb, None}
    OBVIOUS
  <2>1. ~ttytail_rx_packet
    <3>1. up \in Seq(Line) /\ Len(up) \in Nat
      BY DEF TypeInv, UpType
    <3>2. StampFollows(0, rx_skb)
      BY DEF RxInv, TogetherInv
    <3>3. Len(up) > 0 => up[1][1] = "time"
      BY <3>1, <3>2 DEF StampFollows
    <3>4. up # << >> => Len(up) > 0 /\ Head(up) = up[1]
      BY <3>1, EmptySeq
    <3> QED BY <3>3, <3>4 DEF ttytail_rx_packet, Received
  <2>2. CASE Reopen
    <3>1. rx_skb' = None
      BY <2>2, Zenon DEF Reopen
    <3> QED BY <3>1
  <2>3. CASE ttytail_rx_timestamp
    BY <2>3 DEF ttytail_rx_timestamp
  <2>4. CASE ~Reopen /\ ~ttytail_rx_timestamp
    BY <2>1, <2>4
       DEF Next, OpenWorker, ttytail_reset, ConfigEcho, ConfigEui, ConfigRx, Register, Timeout, Advance,
           TxWorker, WorkerWrite, WorkerCount, ttytail_write_wakeup,
           Receiver, RxReady, RxEcho, ttytail_rx_eui64, Received,
           Reading, cli_read, cli_read_end, Printing, tx_poll, PrintPacket, PrintTime,
           txrx_txdone, txrx_rxdone, ttytail_stop, ttytail_xmit_async,
           LoseLine, LoseInput, Restart, PollNothing, vars, driver
  <2> QED BY <2>2, <2>3, <2>4
<1> QED BY <1>1, <1>2, <1>3, PTL DEF Spec, NoneReplaced

-----------------------------------------------------------------------------
(* The handshake.  What is left of the line being sent, and all that the   *)
(* device has still to execute.                                            *)
Rest == SubSeq(Pieces(line), line.offset + wrote + 1, 2)
Todo == (clibuf \o down) \o Rest

(* Words among pieces or lines: a piece and a line begin with theirs.      *)
Has(s, word)        == \E i \in 1 .. Len(s) : s[i][1] = word
NoneBehind(s, v, w) == \A i \in 1 .. Len(s) : s[i][1] = v => \A j \in i + 1 .. Len(s) : s[j][1] # w

(* A second piece comes behind its first one, a first piece behind a       *)
(* second one; but a reset cuts a command short.                           *)
Paired(s) == \A i \in 2 .. Len(s) :
               IF s[i][3] = 2 THEN s[i - 1] = <<s[i][1], s[i][2], 1>>
                              ELSE s[i - 1][3] = 2 \/ s[i][1] = "reset"

PairedInv == /\ clibuf # << >> => Len(clibuf) = 1 /\ clibuf[1][3] = 1
             /\ wrote # 0 => Counting
             /\ Paired(Todo)
             /\ Todo # << >> /\ opener # "reset" => Todo[Len(Todo)][3] = 2

(* No echo is told or answered behind a reset: an answer to an earlier     *)
(* handshake comes before the greeting that begins this one.               *)
EchoFirst == /\ NoneBehind(up, "ready", "echo") /\ NoneBehind(Todo, "reset", "echo")
             /\ Has(up, "ready") => ~Has(Todo, "echo")

NoEcho == ~Has(up, "echo") /\ ~Has(Todo, "echo")

(* The echo is told last and answered once, behind every reset.            *)
EchoLast == /\ NoneBehind(up, "echo", "ready") /\ NoneBehind(up, "echo", "echo")
            /\ NoneBehind(Todo, "echo", "reset")
            /\ \A i \in 1 .. Len(Todo) : Todo[i][1] = "echo" => i >= Len(Todo) - 1
            /\ Has(up, "echo") => ~Has(Todo, "reset") /\ ~Has(Todo, "echo") /\ ~echo

(* The device has been reset and told not to echo, and no other reset is   *)
(* on its way.                                                             *)
Clean == /\ ~Has(up, "ready") /\ ~Has(up, "echo")
         /\ ~Has(Todo, "reset") /\ ~Has(Todo, "echo") /\ ~echo

EchoSeen  == opener = "echo" /\ echo_off
Listening == rxactive \/ \E i \in 1 .. Len(Todo) : Todo[i] = <<"rx", None, 1>>

HandshakeInv == /\ opener \in {"reset", "ready", "failed"} => EchoFirst
                /\ opener = "ready" /\ ready => NoEcho
                /\ opener = "echo" /\ ~echo_off => EchoLast
                /\ EchoSeen \/ opener \in {"eui", "rx", "registered"} => Clean
                /\ opener \in {"rx", "registered"} => Listening
                /\ opener = "registered" /\ line.cmd = "rx" => line.offset + wrote = 2

(* As long as nothing but a line about a reception is lost.                *)
Unbroken == (~broken \/ faults = 0) /\ ~clobbered
OpenInv  == Unbroken => PairedInv /\ HandshakeInv

-----------------------------------------------------------------------------
(* Sequences of which some elements are gone, in the same order.           *)
Within(u, t) == \E g \in [1 .. Len(u) -> 1 .. Len(t)] :
                  \A i \in 1 .. Len(u) : u[i] = t[g[i]] /\ \A j \in 1 .. i - 1 : g[j] < g[i]

(* The first k elements are gone.                                          *)
Behind(u, t, k) == /\ k \in 0 .. Len(t) /\ Len(u) = Len(t) - k
                   /\ \A i \in 1 .. Len(u) : u[i] = t[i + k]

(* With fewer elements there are no more words, and none in another order. *)
LEMMA WithinKeeps ==
    ASSUME NEW u, NEW t, Len(u) \in Nat, Len(t) \in Nat, Within(u, t)
    PROVE  /\ \A w : Has(u, w) => Has(t, w)
           /\ \A v, w : NoneBehind(t, v, w) => NoneBehind(u, v, w)
<1>1. PICK g \in [1 .. Len(u) -> 1 .. Len(t)] :
        \A i \in 1 .. Len(u) : u[i] = t[g[i]] /\ \A j \in 1 .. i - 1 : g[j] < g[i]
  BY DEF Within
<1>2. ASSUME NEW w, Has(u, w) PROVE Has(t, w)
  BY <1>1, <1>2 DEF Has
<1>3. ASSUME NEW v, NEW w, NoneBehind(t, v, w),
             NEW i \in 1 .. Len(u), u[i][1] = v, NEW j \in i + 1 .. Len(u)
      PROVE  u[j][1] # w
  <2>1. j \in 1 .. Len(u) /\ i \in 1 .. j - 1
    OBVIOUS
  <2>2. g[i] \in 1 .. Len(t) /\ g[j] \in 1 .. Len(t) /\ g[i] < g[j] /\ u[i] = t[g[i]] /\ u[j] = t[g[j]]
    BY <1>1, <2>1
  <2>3. g[j] \in g[i] + 1 .. Len(t)
    BY <2>2
  <2> QED BY <1>3, <2>2, <2>3 DEF NoneBehind
<1> QED BY <1>2, <1>3 DEF NoneBehind

(* The same when they are missing at the front; pairs are then kept, too.  *)
LEMMA BehindKeeps ==
    ASSUME NEW u, NEW t, Len(u) \in Nat, Len(t) \in Nat, NEW k, Behind(u, t, k)
    PROVE  /\ Within(u, t)
           /\ Paired(t) => Paired(u)
           /\ Len(u) # 0 => u[Len(u)] = t[Len(t)]
<1>1. /\ k \in 0 .. Len(t) /\ Len(u) = Len(t) - k
      /\ \A i \in 1 .. Len(u) : u[i] = t[i + k]
  BY DEF Behind
<1>2. Within(u, t)
  <2> DEFINE g == [i \in 1 .. Len(u) |-> i + k]
  <2>1. g \in [1 .. Len(u) -> 1 .. Len(t)]
    BY <1>1
  <2>2. \A i \in 1 .. Len(u) : u[i] = t[g[i]] /\ \A j \in 1 .. i - 1 : g[j] < g[i]
    BY <1>1
  <2> HIDE DEF g
  <2> QED BY <2>1, <2>2 DEF Within
<1>3. ASSUME Paired(t) PROVE Paired(u)
  <2>1. ASSUME NEW i \in 2 .. Len(u)
        PROVE  IF u[i][3] = 2 THEN u[i - 1] = <<u[i][1], u[i][2], 1>>
                              ELSE u[i - 1][3] = 2 \/ u[i][1] = "reset"
    <3>1. i + k \in 2 .. Len(t) /\ i \in 1 .. Len(u) /\ i - 1 \in 1 .. Len(u) /\ (i - 1) + k = (i + k) - 1
      BY <1>1
    <3>2. u[i] = t[i + k] /\ u[i - 1] = t[(i + k) - 1]
      BY <1>1, <3>1
    <3>3. PICK h : h = i + k
      OBVIOUS
    <3>4. IF t[h][3] = 2 THEN t[h - 1] = <<t[h][1], t[h][2], 1>>
                         ELSE t[h - 1][3] = 2 \/ t[h][1] = "reset"
      BY <1>3, <3>1, <3>3 DEF Paired
    <3> QED BY <3>2, <3>3, <3>4
  <2> QED BY <2>1 DEF Paired
<1>4. Len(u) # 0 => u[Len(u)] = t[Len(t)]
  BY <1>1
<1> QED BY <1>2, <1>3, <1>4

(* One more element at the end.                                            *)
LEMMA AppendKeeps ==
    ASSUME NEW S, NEW t \in Seq(S), NEW x \in S
    PROVE  /\ \A w : Has(Append(t, x), w) <=> Has(t, w) \/ x[1] = w
           /\ \A v, w : NoneBehind(t, v, w) /\ (x[1] = w => ~Has(t, v))
                         => NoneBehind(Append(t, x), v, w)
<1> DEFINE u == Append(t, x)
<1>1. /\ Len(t) \in Nat /\ Len(u) = Len(t) + 1
      /\ \A i \in 1 .. Len(t) : u[i] = t[i]
      /\ u[Len(t) + 1] = x
  BY AppendProperties, LenProperties
<1> HIDE DEF u
<1>2. ASSUME NEW w PROVE Has(u, w) <=> Has(t, w) \/ x[1] = w
  <2>1. ASSUME Has(u, w), x[1] # w PROVE Has(t, w)
    <3>1. PICK i \in 1 .. Len(u) : u[i][1] = w
      BY <2>1 DEF Has
    <3>2. i \in 1 .. Len(t)
      BY <1>1, <2>1, <3>1
    <3> QED BY <1>1, <3>1, <3>2 DEF Has
  <2>2. ASSUME Has(t, w) PROVE Has(u, w)
    <3>1. PICK i \in 1 .. Len(t) : t[i][1] = w
      BY <2>2 DEF Has
    <3>2. i \in 1 .. Len(u) /\ u[i][1] = w
      BY <1>1, <3>1
    <3> QED BY <3>2 DEF Has
  <2>3. ASSUME x[1] = w PROVE Has(u, w)
    <3>1. Len(t) + 1 \in 1 .. Len(u) /\ u[Len(t) + 1][1] = w
      BY <1>1, <2>3
    <3> QED BY <3>1 DEF Has
  <2> QED BY <2>1, <2>2, <2>3
<1>3. ASSUME NEW v, NEW w, NoneBehind(t, v, w), x[1] = w => ~Has(t, v),
             NEW i \in 1 .. Len(u), u[i][1] = v, NEW j \in i + 1 .. Len(u)
      PROVE  u[j][1] # w
  <2>1. i \in 1 .. Len(t) /\ t[i][1] = v
    BY <1>1, <1>3
  <2>2. CASE j \in i + 1 .. Len(t)
    <3>1. u[j] = t[j]
      BY <1>1, <2>1, <2>2
    <3> QED BY <1>3, <2>1, <2>2, <3>1 DEF NoneBehind
  <2>3. CASE j = Len(t) + 1
    <3>1. u[j] = x
      BY <1>1, <2>3
    <3>2. Has(t, v)
      BY <2>1 DEF Has
    <3> QED BY <1>3, <3>1, <3>2
  <2>4. j \in i + 1 .. Len(t) \/ j = Len(t) + 1
    BY <1>1, <2>1
  <2> QED BY <2>2, <2>3, <2>4
<1>4. \A v, w : NoneBehind(t, v, w) /\ (x[1] = w => ~Has(t, v)) => NoneBehind(u, v, w)
  BY <1>3 DEF NoneBehind
<1> QED BY <1>2, <1>4 DEF u

(* One more command at the end.                                            *)
WithCommand(t, c, f) == Append(Append(t, <<c, f, 1>>), <<c, f, 2>>)

LEMMA PairAdded ==
    ASSUME NEW t \in Seq(Piece), NEW c, NEW f, NEW u, u = WithCommand(t, c, f),
           <<c, f, 1>> \in Piece, <<c, f, 2>> \in Piece
    PROVE  /\ u \in Seq(Piece) /\ Len(t) \in Nat /\ Len(u) = Len(t) + 2
           /\ \A i \in 1 .. Len(t) : u[i] = t[i]
           /\ u[Len(t) + 1] = <<c, f, 1>> /\ u[Len(t) + 2] = <<c, f, 2>>
           /\ \A w : Has(u, w) <=> Has(t, w) \/ w = c
           /\ \A v, w : NoneBehind(t, v, w) /\ (w = c => v # c /\ ~Has(t, v)) => NoneBehind(u, v, w)
           /\ Paired(t) /\ (t # << >> => t[Len(t)][3] = 2 \/ c = "reset") => Paired(u)
<1> DEFINE x == <<c, f, 1>>
           y == <<c, f, 2>>
           a == Append(t, x)
<1>1. /\ a \in Seq(Piece) /\ Len(t) \in Nat /\ Len(a) = Len(t) + 1
      /\ \A i \in 1 .. Len(t) : a[i] = t[i]
      /\ a[Len(t) + 1] = x
  BY AppendProperties, LenProperties
<1>2. x[1] = c /\ y[1] = c /\ x[2] = f /\ y[2] = f /\ x[3] = 1 /\ y[3] = 2 /\ x \in Piece /\ y \in Piece
  OBVIOUS
<1>3. u = Append(a, y)
  BY DEF WithCommand
<1> HIDE DEF x, y, a
<1>4. /\ \A w : Has(a, w) <=> Has(t, w) \/ c = w
      /\ \A v, w : NoneBehind(t, v, w) /\ (c = w => ~Has(t, v)) => NoneBehind(a, v, w)
  BY <1>2, AppendKeeps DEF a
<1>5. /\ \A w : Has(u, w) <=> Has(a, w) \/ c = w
      /\ \A v, w : NoneBehind(a, v, w) /\ (c = w => ~Has(a, v)) => NoneBehind(u, v, w)
  <2>1. /\ \A w : Has(Append(a, y), w) <=> Has(a, w) \/ y[1] = w
        /\ \A v, w : NoneBehind(a, v, w) /\ (y[1] = w => ~Has(a, v)) => NoneBehind(Append(a, y), v, w)
    BY ONLY <1>1, <1>2, AppendKeeps
  <2> QED BY ONLY <1>2, <1>3, <2>1
<1>6. /\ u \in Seq(Piece) /\ Len(u) = Len(a) + 1
      /\ \A i \in 1 .. Len(a) : u[i] = a[i]
      /\ u[Len(a) + 1] = y
  BY <1>1, <1>2, <1>3, AppendProperties
<1>7. /\ Len(u) = Len(t) + 2
      /\ \A i \in 1 .. Len(t) : u[i] = t[i]
      /\ u[Len(t) + 1] = x /\ u[Len(t) + 2] = y
  <2>1. Len(u) = Len(t) + 2 /\ u[Len(t) + 2] = y
    BY <1>1, <1>6
  <2>2. \A i \in 1 .. Len(t) : u[i] = t[i]
    BY <1>1, <1>6
  <2>3. u[Len(t) + 1] = x
    BY <1>1, <1>6
  <2> QED BY <2>1, <2>2, <2>3
<1>8. ASSUME Paired(t), t # << >> => t[Len(t)][3] = 2 \/ c = "reset" PROVE Paired(u)
  <2>1. ASSUME NEW i \in 2 .. Len(u)
        PROVE  IF u[i][3] = 2 THEN u[i - 1] = <<u[i][1], u[i][2], 1>>
                              ELSE u[i - 1][3] = 2 \/ u[i][1] = "reset"
    <3>1. CASE i \in 2 .. Len(t)
      <4>1. u[i] = t[i] /\ u[i - 1] = t[i - 1]
        BY <1>1, <1>7, <3>1
      <4> QED BY <1>8, <3>1, <4>1 DEF Paired
    <3>2. CASE i = Len(t) + 1
      <4>1. u[i] = x /\ Len(t) # 0 /\ i - 1 = Len(t) /\ u[Len(t)] = t[Len(t)]
        BY <1>1, <1>7, <3>2
      <4>2. t # << >>
        BY <4>1, EmptySeq
      <4> QED BY <1>2, <1>8, <4>1, <4>2
    <3>3. CASE i = Len(t) + 2
      <4>1. u[i] = y /\ i - 1 = Len(t) + 1
        BY <1>1, <1>7, <3>3
      <4>2. u[i - 1] = x
        BY <1>7, <4>1
      <4> QED BY <1>2, <4>1, <4>2 DEF x, y
    <3> QED BY <1>1, <1>7, <3>1, <3>2, <3>3
  <2> QED BY <2>1 DEF Paired
<1>9. ASSUME NEW v, NEW w, NoneBehind(t, v, w), w = c => v # c /\ ~Has(t, v)
      PROVE  NoneBehind(u, v, w)
  BY <1>4, <1>5, <1>9
<1> QED BY <1>1, <1>4, <1>5, <1>6, <1>7, <1>8, <1>9 DEF x, y

(* What is left of a line of which n pieces are written.                   *)
LEMMA Unwritten ==
    ASSUME NEW l \in TxLines, NEW n \in 0 .. 2, NEW r, r = SubSeq(Pieces(l), n + 1, 2)
    PROVE  /\ r \in Seq(Piece) /\ Len(r) = 2 - n
           /\ \A i \in 1 .. 2 - n : r[i] = <<l.cmd, l.frame, n + i>>
<1>1. <<l.cmd, l.frame, 1>> \in Piece /\ <<l.cmd, l.frame, 2>> \in Piece
  BY DEF TxLines, Piece
<1>2. /\ Pieces(l)[1] = <<l.cmd, l.frame, 1>> /\ Pieces(l)[2] = <<l.cmd, l.frame, 2>>
  BY DEF Pieces
<1>3. \A i \in 1 .. 2 : Pieces(l)[i] = <<l.cmd, l.frame, i>> /\ Pieces(l)[i] \in Piece
  BY <1>1, <1>2
<1>4. n + 1 \in Int /\ 2 \in Int /\ \A i \in n + 1 .. 2 : i \in 1 .. 2
  OBVIOUS
<1>5. \A i \in n + 1 .. 2 : Pieces(l)[i] \in Piece
  BY <1>3, <1>4
<1>6. /\ r \in Seq(Piece)
      /\ Len(r) = IF n + 1 <= 2 THEN 2 - (n + 1) + 1 ELSE 0
      /\ \A i \in 1 .. 2 - (n + 1) + 1 : r[i] = Pieces(l)[n + 1 + i - 1]
  BY <1>4, <1>5, SubSeqProperties
<1>7. Len(r) = 2 - n
  BY <1>6
<1>8. ASSUME NEW i \in 1 .. 2 - n PROVE r[i] = <<l.cmd, l.frame, n + i>>
  <2>1. i \in 1 .. 2 - (n + 1) + 1 /\ n + 1 + i - 1 = n + i /\ n + i \in 1 .. 2
    OBVIOUS
  <2> QED BY <1>3, <1>6, <2>1
<1> QED BY <1>6, <1>7, <1>8

(* What the device has still to execute is in its buffer, on the cable or  *)
(* not written yet, in this order.                                         *)
LEMMA Joined ==
    ASSUME NEW b \in Seq(Piece), NEW d \in Seq(Piece), NEW r \in Seq(Piece),
           NEW t, t = (b \o d) \o r
    PROVE  /\ t \in Seq(Piece) /\ Len(b) \in Nat /\ Len(d) \in Nat /\ Len(r) \in Nat
           /\ Len(t) = Len(b) + Len(d) + Len(r)
           /\ \A i \in 1 .. Len(b) : t[i] = b[i]
           /\ \A i \in 1 .. Len(d) : t[Len(b) + i] = d[i]
           /\ \A i \in 1 .. Len(r) : t[Len(b) + Len(d) + i] = r[i]
<1> DEFINE s == b \o d
<1>1. /\ Len(b) \in Nat /\ Len(d) \in Nat /\ Len(r) \in Nat
  BY LenProperties
<1>2. /\ s \in Seq(Piece) /\ Len(s) = Len(b) + Len(d)
      /\ \A i \in 1 .. Len(b) + Len(d) : s[i] = IF i <= Len(b) THEN b[i] ELSE d[i - Len(b)]
  BY ConcatProperties
<1>3. t = s \o r
  OBVIOUS
<1> HIDE DEF s
<1>4. /\ t \in Seq(Piece) /\ Len(t) = Len(s) + Len(r)
      /\ \A i \in 1 .. Len(s) + Len(r) : t[i] = IF i <= Len(s) THEN s[i] ELSE r[i - Len(s)]
  <2>1. /\ s \o r \in Seq(Piece) /\ Len(s \o r) = Len(s) + Len(r)
        /\ \A i \in 1 .. Len(s) + Len(r) : (s \o r)[i] = IF i <= Len(s) THEN s[i] ELSE r[i - Len(s)]
    <3>1. s \in Seq(Piece) /\ r \in Seq(Piece)
      BY <1>2
    <3> QED BY ONLY <3>1, ConcatProperties
  <2> QED BY ONLY <1>3, <2>1
<1>5. ASSUME NEW i \in 1 .. Len(b) PROVE t[i] = b[i]
  <2>1. i \in 1 .. Len(b) + Len(d) /\ i \in 1 .. Len(s) + Len(r) /\ i <= Len(b) /\ i <= Len(s)
    BY <1>1, <1>2
  <2> QED BY <1>2, <1>4, <2>1
<1>6. ASSUME NEW i \in 1 .. Len(d) PROVE t[Len(b) + i] = d[i]
  <2>1. PICK j : j = Len(b) + i
    OBVIOUS
  <2>2. j \in 1 .. Len(b) + Len(d) /\ j \in 1 .. Len(s) + Len(r) /\ ~(j <= Len(b)) /\ j <= Len(s) /\ j - Len(b) = i
    BY <1>1, <1>2, <2>1
  <2>3. t[j] = d[i]
    BY <1>2, <1>4, <2>2
  <2> QED BY <2>1, <2>3
<1>7. ASSUME NEW i \in 1 .. Len(r) PROVE t[Len(b) + Len(d) + i] = r[i]
  <2>1. PICK j : j = Len(b) + Len(d) + i
    OBVIOUS
  <2>2. j \in 1 .. Len(s) + Len(r) /\ ~(j <= Len(s)) /\ j - Len(s) = i
    BY <1>1, <1>2, <2>1
  <2>3. t[j] = r[i]
    BY <1>4, <2>2
  <2> QED BY <2>1, <2>3
<1> QED BY <1>1, <1>2, <1>4, <1>5, <1>6, <1>7

(* The same of Todo, before and after a step.                              *)
LEMMA TodoShape ==
    ASSUME TypeInv, TypeInv'
    PROVE  /\ Rest \in Seq(Piece) /\ Len(Rest) = 2 - (line.offset + wrote)
           /\ \A i \in 1 .. Len(Rest) : Rest[i] = <<line.cmd, line.frame, line.offset + wrote + i>>
           /\ Rest' \in Seq(Piece) /\ Len(Rest') = 2 - (line.offset + wrote)'
           /\ \A i \in 1 .. Len(Rest') : Rest'[i] = <<line'.cmd, line'.frame, (line.offset + wrote)' + i>>
           /\ line.offset \in 0 .. 2 /\ wrote \in 0 .. 2 /\ line.offset + wrote \in 0 .. 2
           /\ clibuf \in Seq(Piece) /\ down \in Seq(Piece)
           /\ clibuf' \in Seq(Piece) /\ down' \in Seq(Piece)
           /\ Todo = (clibuf \o down) \o Rest /\ Todo' = (clibuf' \o down') \o Rest'
           /\ Todo \in Seq(Piece) /\ Todo' \in Seq(Piece) /\ Len(Todo) \in Nat /\ Len(Todo') \in Nat
<1>1. /\ line \in TxLines /\ line.offset \in 0 .. 2 /\ wrote \in 0 .. 2 /\ line.offset + wrote \in 0 .. 2
      /\ clibuf \in Seq(Piece) /\ down \in Seq(Piece)
  <2>1. line \in TxLines /\ wrote \in 0 .. 2 /\ line.offset + wrote <= 2
    BY DEF TypeInv, DriverType
  <2>2. line.offset \in 0 .. 2
    BY <2>1 DEF TxLines
  <2>3. line.offset + wrote \in 0 .. 2
    BY ONLY <2>1, <2>2
  <2>4. clibuf \in Seq(Piece) /\ down \in Seq(Piece)
    BY DEF TypeInv, DeviceType, DownType
  <2> QED BY <2>1, <2>2, <2>3, <2>4
<1>2. /\ line' \in TxLines /\ line'.offset \in 0 .. 2 /\ wrote' \in 0 .. 2 /\ line'.offset + wrote' \in 0 .. 2
      /\ clibuf' \in Seq(Piece) /\ down' \in Seq(Piece)
  <2>1. line' \in TxLines /\ wrote' \in 0 .. 2 /\ line'.offset + wrote' <= 2
    BY DEF TypeInv, DriverType
  <2>2. line'.offset \in 0 .. 2
    BY <2>1 DEF TxLines
  <2>3. line'.offset + wrote' \in 0 .. 2
    BY ONLY <2>1, <2>2
  <2>4. clibuf' \in Seq(Piece) /\ down' \in Seq(Piece)
    BY DEF TypeInv, DeviceType, DownType
  <2> QED BY <2>1, <2>2, <2>3, <2>4
<1>3. PICK n \in 0 .. 2 : n = line.offset + wrote
  BY <1>1
<1>4. PICK m \in 0 .. 2 : m = line'.offset + wrote'
  BY <1>2
<1>5. /\ Rest \in Seq(Piece) /\ Len(Rest) = 2 - n
      /\ \A i \in 1 .. 2 - n : Rest[i] = <<line.cmd, line.frame, n + i>>
  <2>1. Rest = SubSeq(Pieces(line), n + 1, 2)
    BY <1>3 DEF Rest
  <2> QED BY <1>1, <2>1, Unwritten
<1>6. /\ Rest' \in Seq(Piece) /\ Len(Rest') = 2 - m
      /\ \A i \in 1 .. 2 - m : Rest'[i] = <<line'.cmd, line'.frame, m + i>>
  <2>1. Rest' = SubSeq(Pieces(line'), m + 1, 2)
    BY <1>4 DEF Rest, Pieces
  <2> QED BY <1>2, <2>1, Unwritten
<1>7. Todo = (clibuf \o down) \o Rest /\ Todo' = (clibuf' \o down') \o Rest'
  BY DEF Todo
<1>8. Todo \in Seq(Piece) /\ Todo' \in Seq(Piece)
  BY <1>1, <1>2, <1>5, <1>6, <1>7, Joined
<1> QED BY <1>1, <1>2, <1>3, <1>4, <1>5, <1>6, <1>7, <1>8, LenProperties

(* Starting a line behind one that is written.                             *)
LEMMA StartAdds ==
    ASSUME TypeInv, TypeInv', wrote # 0 => Counting,
           NEW c, NEW f, ttytail_tx_start(c, f), ~clobbered', UNCHANGED <<clibuf, down>>
    PROVE  /\ Todo' = WithCommand(Todo, c, f)
           /\ <<c, f, 1>> \in Piece /\ <<c, f, 2>> \in Piece
           /\ line'.cmd = c /\ wrote' = 0
<1> DEFINE b == clibuf \o down
           x == <<c, f, 1>>
           y == <<c, f, 2>>
<1>1. line'.cmd = c /\ line'.frame = f /\ line'.offset = 0
  BY DEF ttytail_tx_start
<1>2. line.offset = 2 /\ wrote = 0 /\ wrote' = 0
  BY DEF ttytail_tx_start, ttytail_tx_idle, Schedule, PairedInv
<1>3. /\ Rest \in Seq(Piece) /\ Len(Rest) = 0
      /\ Rest' \in Seq(Piece) /\ Len(Rest') = 2 /\ Rest'[1] = x /\ Rest'[2] = y
      /\ Todo = b \o Rest /\ Todo' = b \o Rest'
      /\ b \in Seq(Piece)
  <2>1. /\ Rest \in Seq(Piece) /\ Len(Rest) = 2 - (line.offset + wrote)
        /\ Rest' \in Seq(Piece) /\ Len(Rest') = 2 - (line.offset + wrote)'
        /\ \A i \in 1 .. Len(Rest') : Rest'[i] = <<line'.cmd, line'.frame, (line.offset + wrote)' + i>>
        /\ Todo = (clibuf \o down) \o Rest /\ Todo' = (clibuf' \o down') \o Rest'
        /\ clibuf \in Seq(Piece) /\ down \in Seq(Piece)
    BY TodoShape
  <2>2. Len(Rest) = 0 /\ Len(Rest') = 2
    BY <1>1, <1>2, <2>1
  <2>3. Rest'[1] = x /\ Rest'[2] = y
    <3>1. \A i \in 1 .. 2 : Rest'[i] = <<c, f, i>>
      BY <1>1, <1>2, <2>1, <2>2
    <3> QED BY <3>1
  <2>4. b \in Seq(Piece)
    BY <2>1, ConcatProperties
  <2> QED BY <2>1, <2>2, <2>3, <2>4
<1>4. x \in Piece /\ y \in Piece
  <2>1. 1 \in 1 .. Len(Rest') /\ 2 \in 1 .. Len(Rest')
    BY <1>3
  <2> QED BY ONLY <1>3, <2>1, ElementOfSeq
<1> HIDE DEF b, x, y
<1>5. Todo = b
  <2>1. Rest = << >>
    BY <1>3, EmptySeq
  <2> QED BY <1>3, <2>1, ConcatEmptySeq
<1>6. PICK r : r = Rest'
  OBVIOUS
<1>7. b \o r = Append(Append(b, x), y)
  <2> DEFINE u == b \o r
             a == Append(b, x)
             v == Append(a, y)
  <2>1. /\ Len(b) \in Nat /\ u \in Seq(Piece) /\ Len(u) = Len(b) + Len(r)
        /\ \A i \in 1 .. Len(b) + Len(r) : u[i] = IF i <= Len(b) THEN b[i] ELSE r[i - Len(b)]
    <3>1. r \in Seq(Piece)
      BY <1>3, <1>6
    <3> QED BY ONLY <1>3, <3>1, ConcatProperties, LenProperties
  <2>2. /\ a \in Seq(Piece) /\ Len(a) = Len(b) + 1
        /\ \A i \in 1 .. Len(b) : a[i] = b[i]
        /\ a[Len(b) + 1] = x
    BY <1>3, <1>4, AppendProperties
  <2> HIDE DEF a
  <2>3. /\ v \in Seq(Piece) /\ Len(v) = Len(a) + 1
        /\ \A i \in 1 .. Len(a) : v[i] = a[i]
        /\ v[Len(a) + 1] = y
    BY <1>4, <2>2, AppendProperties
  <2> HIDE DEF u, v
  <2>4. Len(r) = 2 /\ r[1] = x /\ r[2] = y
    BY <1>3, <1>6
  <2>5. ASSUME NEW i \in 1 .. Len(u) PROVE u[i] = v[i]
    <3>1. CASE i \in 1 .. Len(b)
      <4>1. u[i] = b[i] /\ a[i] = b[i] /\ i \in 1 .. Len(a)
        BY <2>1, <2>2, <2>4, <3>1
      <4> QED BY <2>3, <4>1
    <3>2. CASE i = Len(b) + 1
      <4>1. ~(i <= Len(b)) /\ i - Len(b) = 1 /\ i \in 1 .. Len(a)
        BY <2>1, <2>2, <3>2
      <4> QED BY <2>1, <2>2, <2>3, <2>4, <3>2, <4>1
    <3>3. CASE i = Len(b) + 2
      <4>1. ~(i <= Len(b)) /\ i - Len(b) = 2 /\ i = Len(a) + 1
        BY <2>1, <2>2, <3>3
      <4> QED BY <2>1, <2>3, <2>4, <3>3, <4>1
    <3> QED BY <2>1, <2>4, <3>1, <3>2, <3>3
  <2>6. Len(u) = Len(v)
    BY <2>1, <2>2, <2>3, <2>4
  <2>7. u = v
    BY <2>1, <2>3, <2>5, <2>6, SeqEqual
  <2> QED BY <2>7 DEF u, v, a
<1>8. Todo' = Append(Append(Todo, x), y)
  BY <1>3, <1>5, <1>6, <1>7
<1> QED BY <1>1, <1>2, <1>4, <1>8 DEF x, y, WithCommand

(* Writing moves pieces, and counting them, nothing.                       *)
LEMMA WritingKeeps ==
    ASSUME TypeInv, TypeInv', wrote # 0 => Counting, WorkerWrite \/ WorkerCount
    PROVE  /\ Todo' = Todo /\ (wrote' # 0 => Counting')
           /\ line'.cmd = line.cmd
           /\ line.offset + wrote = 2 => (line.offset + wrote)' = 2
<1>1. CASE WorkerWrite /\ ttytail_tx_idle
  <2>1. UNCHANGED <<line, wrote, down, clibuf>> /\ wrote = 0
    BY <1>1 DEF WorkerWrite, cli, PairedInv, Counting
  <2> QED BY <2>1 DEF Todo, Rest, Pieces
<1>2. CASE WorkerWrite /\ ~ttytail_tx_idle
  <2>1. PICK n \in 0 .. 2 - line.offset :
          down' = down \o SubSeq(Pieces(line), line.offset + 1, line.offset + n)
          /\ work' = "counting" /\ wrote' = n
    BY <1>2 DEF WorkerWrite
  <2>2. UNCHANGED <<line, clibuf>> /\ wrote = 0 /\ line.offset # 2
    BY <1>2 DEF WorkerWrite, cli, PairedInv, Counting, ttytail_tx_idle
  <2>3. PICK o \in 0 .. 1 : o = line.offset
    BY <2>2, TodoShape
  <2> DEFINE w == SubSeq(Pieces(line), o + 1, o + n)
  <2>4. n \in 0 .. 2 - o /\ n \in Int /\ o \in Int
    BY <2>1, <2>3
  <2>5. line \in TxLines
    BY DEF TypeInv, DriverType
  <2>6. /\ w \in Seq(Piece) /\ Len(w) = n
        /\ \A i \in 1 .. n : w[i] = <<line.cmd, line.frame, o + i>>
    <3>1. <<line.cmd, line.frame, 1>> \in Piece /\ <<line.cmd, line.frame, 2>> \in Piece
      BY <2>5 DEF TxLines, Piece
    <3>2. Pieces(line)[1] = <<line.cmd, line.frame, 1>> /\ Pieces(line)[2] = <<line.cmd, line.frame, 2>>
      BY DEF Pieces
    <3>3. \A i \in 1 .. 2 : Pieces(line)[i] = <<line.cmd, line.frame, i>> /\ Pieces(line)[i] \in Piece
      BY <3>1, <3>2
    <3>4. o + 1 \in Int /\ o + n \in Int /\ \A i \in o + 1 .. o + n : i \in 1 .. 2
      BY <2>4
    <3>5. \A i \in o + 1 .. o + n : Pieces(line)[i] \in Piece
      BY <3>3, <3>4
    <3>6. /\ w \in Seq(Piece)
          /\ Len(w) = IF o + 1 <= o + n THEN (o + n) - (o + 1) + 1 ELSE 0
          /\ \A i \in 1 .. (o + n) - (o + 1) + 1 : w[i] = Pieces(line)[o + 1 + i - 1]
      BY <3>4, <3>5, SubSeqProperties
    <3>7. Len(w) = n
      BY <2>4, <3>6
    <3>8. ASSUME NEW i \in 1 .. n PROVE w[i] = <<line.cmd, line.frame, o + i>>
      <4>1. i \in 1 .. (o + n) - (o + 1) + 1 /\ o + 1 + i - 1 = o + i /\ o + i \in 1 .. 2
        BY <2>4
      <4> QED BY <3>3, <3>6, <4>1
    <3> QED BY <3>6, <3>7, <3>8
  <2>7. down' = down \o w
    BY <2>1, <2>3
  <2> HIDE DEF w
  <2>8. PICK r : r = Rest
    OBVIOUS
  <2>9. PICK q : q = Rest'
    OBVIOUS
  <2>10. /\ r \in Seq(Piece) /\ Len(r) = 2 - o
         /\ \A i \in 1 .. Len(r) : r[i] = <<line.cmd, line.frame, o + i>>
         /\ q \in Seq(Piece) /\ Len(q) = 2 - (o + n)
         /\ \A i \in 1 .. Len(q) : q[i] = <<line.cmd, line.frame, o + n + i>>
         /\ clibuf \in Seq(Piece) /\ down \in Seq(Piece)
         /\ Todo = (clibuf \o down) \o r /\ Todo' = (clibuf \o (down \o w)) \o q
    <3>1. line.offset + wrote = o /\ (line.offset + wrote)' = o + n
      BY <2>1, <2>2, <2>3
    <3> QED BY <2>2, <2>7, <2>8, <2>9, <3>1, TodoShape
  <2>11. w \o q = r
    <3> DEFINE z == w \o q
    <3>1. /\ z \in Seq(Piece) /\ Len(z) = Len(w) + Len(q)
          /\ \A i \in 1 .. Len(w) + Len(q) : z[i] = IF i <= Len(w) THEN w[i] ELSE q[i - Len(w)]
      BY ONLY <2>6, <2>10, ConcatProperties
    <3> HIDE DEF z
    <3>2. Len(z) = Len(r)
      BY <2>4, <2>6, <2>10, <3>1
    <3>3. ASSUME NEW i \in 1 .. Len(z) PROVE z[i] = r[i]
      <4>1. i \in 1 .. 2 - o /\ r[i] = <<line.cmd, line.frame, o + i>> /\ i \in 1 .. Len(w) + Len(q)
        BY <2>4, <2>6, <2>10, <3>1, <3>2
      <4>2. CASE i <= n
        <5>1. i \in 1 .. n /\ i <= Len(w)
          BY <2>4, <2>6, <4>1, <4>2
        <5> QED BY <2>6, <3>1, <4>1, <5>1
      <4>3. CASE ~(i <= n)
        <5>1. ~(i <= Len(w)) /\ i - Len(w) \in 1 .. Len(q) /\ o + n + (i - Len(w)) = o + i
          BY <2>4, <2>6, <2>10, <4>1, <4>3
        <5>2. z[i] = q[i - Len(w)] /\ q[i - Len(w)] = <<line.cmd, line.frame, o + n + (i - Len(w))>>
          BY <2>10, <3>1, <4>1, <5>1
        <5> QED BY <4>1, <5>1, <5>2
      <4> QED BY <4>2, <4>3
    <3> QED BY <2>10, <3>1, <3>2, <3>3, SeqEqual DEF z
  <2>12. (clibuf \o (down \o w)) \o q = (clibuf \o down) \o (w \o q)
    <3>1. clibuf \in Seq(Piece) /\ down \in Seq(Piece) /\ w \in Seq(Piece) /\ q \in Seq(Piece)
      BY <2>6, <2>10
    <3>2. ASSUME NEW b \in Seq(Piece), NEW v \in Seq(Piece), NEW z \in Seq(Piece)
          PROVE  (b \o v) \o z = b \o (v \o z)
      BY ONLY ConcatAssociative
    <3>3. (clibuf \o down) \o w = clibuf \o (down \o w)
      BY ONLY <3>1, <3>2
    <3>4. PICK b \in Seq(Piece) : b = clibuf \o down
      BY <3>1, ConcatProperties
    <3>5. (b \o w) \o q = b \o (w \o q)
      BY ONLY <3>1, <3>2, <3>4
    <3> QED BY <3>3, <3>4, <3>5
  <2>13. Todo' = Todo
    BY <2>10, <2>11, <2>12
  <2>14. wrote' # 0 => Counting'
    BY <2>1 DEF Counting
  <2>15. line.offset + wrote # 2
    BY <2>2, <2>3
  <2> QED BY <2>2, <2>13, <2>14, <2>15
<1>3. CASE WorkerCount
  <2>1. /\ line' = [line EXCEPT !.offset = @ + wrote] /\ wrote' = 0
        /\ UNCHANGED <<clibuf, down>>
    BY <1>3 DEF WorkerCount, cli
  <2>2. line \in TxLines
    BY DEF TypeInv, DriverType
  <2>3. line'.cmd = line.cmd /\ line'.frame = line.frame /\ line'.offset = line.offset + wrote
    BY <2>1, <2>2 DEF TxLines
  <2>4. line.offset + wrote \in 0 .. 2
    BY TodoShape
  <2>5. line'.offset + wrote' = line.offset + wrote
    BY <2>1, <2>3, <2>4
  <2>6. Rest' = Rest
    BY <2>3, <2>5 DEF Rest, Pieces
  <2> QED BY <2>1, <2>3, <2>5, <2>6 DEF Todo
<1> QED BY <1>1, <1>2, <1>3

(* What is not written of a line goes with its interface.                  *)
LEMMA TodoReopened ==
    ASSUME TypeInv, TypeInv', Reopen
    PROVE  /\ Len(Todo') <= Len(Todo)
           /\ \A i \in 1 .. Len(Todo') : Todo'[i] = Todo[i]
<1>1. UNCHANGED <<down, clibuf>> /\ line'.offset = 2 /\ wrote' = 0
  BY DEF Reopen, cli
<1>2. /\ Rest \in Seq(Piece) /\ Rest' \in Seq(Piece)
      /\ Len(Rest') = 2 - (line.offset + wrote)'
      /\ clibuf \in Seq(Piece) /\ down \in Seq(Piece)
      /\ Todo = (clibuf \o down) \o Rest /\ Todo' = (clibuf \o down) \o Rest'
  BY <1>1, TodoShape
<1>3. PICK t, u, q, r :
        q \in Seq(Piece) /\ r \in Seq(Piece) /\ q = Rest /\ r = Rest' /\ t = Todo /\ u = Todo'
        /\ t = (clibuf \o down) \o q /\ u = (clibuf \o down) \o r
  BY <1>2
<1>4. Len(r) = 0
  BY <1>1, <1>2, <1>3
<1>5. /\ Len(t) = Len(clibuf) + Len(down) + Len(q) /\ Len(q) \in Nat
      /\ Len(clibuf) \in Nat /\ Len(down) \in Nat
      /\ \A i \in 1 .. Len(clibuf) : t[i] = clibuf[i]
      /\ \A i \in 1 .. Len(down) : t[Len(clibuf) + i] = down[i]
  BY <1>2, <1>3, Joined
<1>6. /\ Len(u) = Len(clibuf) + Len(down) + Len(r)
      /\ \A i \in 1 .. Len(clibuf) : u[i] = clibuf[i]
      /\ \A i \in 1 .. Len(down) : u[Len(clibuf) + i] = down[i]
  BY <1>2, <1>3, Joined
<1>7. ASSUME NEW i \in 1 .. Len(u) PROVE u[i] = t[i]
  <2>1. CASE i \in 1 .. Len(clibuf)
    BY <1>5, <1>6, <2>1
  <2>2. CASE i \notin 1 .. Len(clibuf)
    <3>1. PICK h \in 1 .. Len(down) : i = Len(clibuf) + h
      <4>1. i - Len(clibuf) \in 1 .. Len(down) /\ i = Len(clibuf) + (i - Len(clibuf))
        BY <1>4, <1>5, <1>6, <2>2
      <4> QED BY <4>1
    <3> QED BY <1>5, <1>6, <3>1
  <2> QED BY <2>1, <2>2
<1>8. Len(u) <= Len(t)
  BY <1>4, <1>5, <1>6
<1> QED BY <1>3, <1>7, <1>8

(* The first elements of a sequence.                                       *)
LEMMA PrefixKeeps ==
    ASSUME NEW u, NEW t, Len(u) \in Nat, Len(t) \in Nat, Len(u) <= Len(t),
           \A i \in 1 .. Len(u) : u[i] = t[i]
    PROVE  Within(u, t) /\ (Paired(t) => Paired(u))
<1>1. Within(u, t)
  <2> DEFINE g == [i \in 1 .. Len(u) |-> i]
  <2>1. g \in [1 .. Len(u) -> 1 .. Len(t)]
    OBVIOUS
  <2>2. \A i \in 1 .. Len(u) : u[i] = t[g[i]] /\ \A j \in 1 .. i - 1 : g[j] < g[i]
    OBVIOUS
  <2> HIDE DEF g
  <2> QED BY <2>1, <2>2 DEF Within
<1>2. ASSUME Paired(t), NEW i \in 2 .. Len(u)
      PROVE  IF u[i][3] = 2 THEN u[i - 1] = <<u[i][1], u[i][2], 1>>
                            ELSE u[i - 1][3] = 2 \/ u[i][1] = "reset"
  <2>1. i \in 2 .. Len(t) /\ u[i] = t[i] /\ u[i - 1] = t[i - 1]
    OBVIOUS
  <2> QED BY <1>2, <2>1 DEF Paired
<1> QED BY <1>1, <1>2 DEF Paired

(* No more greetings and echoes among the lines, and none in another order. *)
Calm(u, t) == /\ \A w \in {"ready", "echo"} : Has(u, w) => Has(t, w)
              /\ \A v, w \in {"ready", "echo"} : NoneBehind(t, v, w) => NoneBehind(u, v, w)

(* The driver takes the first line.                                        *)
LEMMA CalmTail ==
    ASSUME TypeInv, up # << >>, up' = Tail(up)
    PROVE  Calm(up', up)
<1>1. /\ Len(up) \in Nat /\ Len(up) >= 1
      /\ Len(up') = Len(up) - 1
      /\ \A i \in 1 .. Len(up) - 1 : up'[i] = up[i + 1]
  BY TailShape DEF TypeInv
<1>2. Behind(up', up, 1)
  BY <1>1 DEF Behind
<1>3. Len(up') \in Nat
  BY <1>1
<1>4. Within(up', up)
  BY <1>1, <1>2, <1>3, BehindKeeps
<1> QED BY <1>1, <1>3, <1>4, WithinKeeps DEF Calm

(* Another line comes.                                                     *)
LEMMA CalmAppend ==
    ASSUME TypeInv, NEW l \in Line, l[1] \notin {"ready", "echo"}
    PROVE  Calm(Append(up, l), up)
<1>1. up \in Seq(Line)
  BY DEF TypeInv, UpType
<1>2. /\ \A w : Has(Append(up, l), w) <=> Has(up, w) \/ l[1] = w
      /\ \A v, w : NoneBehind(up, v, w) /\ (l[1] = w => ~Has(up, v))
                    => NoneBehind(Append(up, l), v, w)
  BY <1>1, AppendKeeps
<1> QED BY <1>2 DEF Calm

(* A step that moves neither the opening worker nor what the device has to *)
(* execute.                                                                *)
LEMMA HandshakeSame ==
    ASSUME HandshakeInv, Todo' = Todo, Calm(up', up),
           UNCHANGED <<opener, ready, echo_off, echo, rxactive>>,
           line'.cmd = line.cmd,
           line.offset + wrote = 2 => (line.offset + wrote)' = 2
    PROVE  HandshakeInv'
<1>1. EchoFirst => EchoFirst'
  BY DEF EchoFirst, Calm
<1>2. NoEcho => NoEcho'
  BY DEF NoEcho, Calm
<1>3. EchoLast => EchoLast'
  BY DEF EchoLast, Calm
<1>4. Clean => Clean'
  BY DEF Clean, Calm
<1>5. Listening => Listening'
  BY DEF Listening
<1> QED BY <1>1, <1>2, <1>3, <1>4, <1>5 DEF HandshakeInv, EchoSeen

(* The driver takes a line.                                                *)
LEMMA HandshakeReceived ==
    ASSUME TypeInv, HandshakeInv, Receiver
    PROVE  HandshakeInv'
<1>1. /\ up # << >> /\ up' = Tail(up)
      /\ UNCHANGED <<opener, line, wrote, down, clibuf, echo, rxactive>>
  BY DEF Receiver, RxReady, RxEcho, ttytail_rx_eui64, ttytail_rx_packet, ttytail_rx_timestamp, Received, cli
<1>2. Todo' = Todo
  BY <1>1 DEF Todo, Rest, Pieces
<1>3. Calm(up', up)
  BY <1>1, CalmTail
<1>4. /\ Len(up) \in Nat /\ Len(up) >= 1 /\ Len(up') = Len(up) - 1 /\ Head(up) = up[1]
      /\ \A i \in 1 .. Len(up) - 1 : up'[i] = up[i + 1]
  BY <1>1, TailShape DEF TypeInv
<1>5. CASE RxReady
  <2>1. UNCHANGED echo_off /\ up[1][1] = "ready"
    BY <1>4, <1>5 DEF RxReady, Received
  <2>2. Has(up, "ready")
    BY <1>4, <2>1 DEF Has
  <2>3. EchoFirst => EchoFirst' /\ NoEcho'
    <3>1. ASSUME EchoFirst PROVE ~Has(up', "echo")
      <4>1. \A j \in 2 .. Len(up) : up[j][1] # "echo"
        BY <1>4, <2>1, <3>1 DEF EchoFirst, NoneBehind
      <4>2. \A i \in 1 .. Len(up') : up'[i][1] # "echo"
        BY <1>4, <4>1
      <4> QED BY <4>2 DEF Has
    <3>2. EchoFirst => NoEcho'
      BY <1>2, <2>2, <3>1 DEF EchoFirst, NoEcho
    <3>3. EchoFirst => EchoFirst'
      BY <1>2, <1>3 DEF EchoFirst, Calm
    <3> QED BY <3>2, <3>3
  <2>4. EchoLast => EchoLast'
    BY <1>1, <1>2, <1>3 DEF EchoLast, Calm
  <2>5. Clean => Clean'
    BY <1>1, <1>2, <1>3 DEF Clean, Calm
  <2>6. Listening => Listening'
    BY <1>1, <1>2 DEF Listening
  <2> QED BY <1>1, <2>1, <2>3, <2>4, <2>5, <2>6 DEF HandshakeInv, EchoSeen
<1>6. CASE RxEcho
  <2>1. UNCHANGED ready /\ up[1][1] = "echo" /\ echo_off' = TRUE
    BY <1>4, <1>6 DEF RxEcho, Received
  <2>2. Has(up, "echo")
    BY <1>4, <2>1 DEF Has
  <2>3. ~Clean
    BY <2>2 DEF Clean
  <2>4. EchoFirst => EchoFirst'
    BY <1>2, <1>3 DEF EchoFirst, Calm
  <2>5. NoEcho => NoEcho'
    BY <1>2, <1>3 DEF NoEcho, Calm
  <2>6. EchoLast => Clean'
    <3>1. ASSUME EchoLast PROVE ~Has(up', "ready") /\ ~Has(up', "echo")
      <4>1. \A j \in 2 .. Len(up) : up[j][1] # "ready" /\ up[j][1] # "echo"
        BY <1>4, <2>1, <3>1 DEF EchoLast, NoneBehind
      <4>2. \A i \in 1 .. Len(up') : up'[i][1] # "ready" /\ up'[i][1] # "echo"
        BY <1>4, <4>1
      <4> QED BY <4>2 DEF Has
    <3> QED BY <1>1, <1>2, <2>2, <3>1 DEF EchoLast, Clean
  <2> QED BY <1>1, <2>1, <2>3, <2>4, <2>5, <2>6 DEF HandshakeInv, EchoSeen
<1>7. CASE ttytail_rx_eui64 \/ ttytail_rx_packet \/ ttytail_rx_timestamp
  <2>1. UNCHANGED <<ready, echo_off>>
    BY <1>7 DEF ttytail_rx_eui64, ttytail_rx_packet, ttytail_rx_timestamp
  <2> QED BY <1>1, <1>2, <1>3, <2>1, HandshakeSame
<1> QED BY <1>5, <1>6, <1>7 DEF Receiver

(* With nothing on the cable there is one command at most, or a reset      *)
(* behind one that is cut short.                                           *)
LEMMA NothingBehind ==
    ASSUME TypeInv, TypeInv', PairedInv, down = << >>, opener # "reset"
    PROVE  NoneBehind(Todo, "reset", "echo")
<1>1. /\ Todo = (clibuf \o down) \o Rest
      /\ clibuf \in Seq(Piece) /\ down \in Seq(Piece) /\ Rest \in Seq(Piece)
      /\ Len(Rest) = 2 - (line.offset + wrote) /\ line.offset + wrote \in 0 .. 2
      /\ \A i \in 1 .. Len(Rest) : Rest[i] = <<line.cmd, line.frame, line.offset + wrote + i>>
  BY TodoShape
<1>2. /\ Len(clibuf) \in Nat /\ Len(down) \in Nat /\ Len(Rest) \in Nat
      /\ Len(Todo) = Len(clibuf) + Len(down) + Len(Rest)
      /\ \A i \in 1 .. Len(clibuf) : Todo[i] = clibuf[i]
      /\ \A i \in 1 .. Len(Rest) : Todo[Len(clibuf) + Len(down) + i] = Rest[i]
  BY <1>1, Joined
<1>3. Len(down) = 0
  BY EmptySeq
<1>4. Len(clibuf) \in {0, 1} /\ (Len(clibuf) = 1 => clibuf[1][3] = 1)
  BY <1>1, EmptySeq DEF PairedInv
<1>5. \A i \in 1 .. Len(Rest) : Todo[Len(clibuf) + i] = <<line.cmd, line.frame, line.offset + wrote + i>>
  BY <1>1, <1>2, <1>3
<1>6. SUFFICES ASSUME NEW i \in 1 .. Len(Todo), NEW j \in i + 1 .. Len(Todo),
                      Todo[i][1] = "reset", Todo[j][1] = "echo"
               PROVE  FALSE
  BY DEF NoneBehind
<1>7. CASE Len(clibuf) = 0
  <2>1. i \in 1 .. Len(Rest) /\ j \in 1 .. Len(Rest)
    BY <1>2, <1>3, <1>6, <1>7
  <2>2. Todo[i] = <<line.cmd, line.frame, line.offset + wrote + i>> /\ Todo[j] = <<line.cmd, line.frame, line.offset + wrote + j>>
    BY <1>5, <1>7, <2>1
  <2> QED BY <1>6, <2>2
<1>8. CASE Len(clibuf) = 1 /\ Len(Rest) # 0
  <2>1. Todo[2] = <<line.cmd, line.frame, line.offset + wrote + 1>> /\ Todo[1][3] = 1
    BY <1>2, <1>4, <1>5, <1>8
  <2>2. \A k \in 2 .. Len(Todo) : Todo[k][1] = line.cmd
    <3>1. ASSUME NEW k \in 2 .. Len(Todo) PROVE Todo[k][1] = line.cmd
      <4>1. PICK h \in 1 .. Len(Rest) : k = 1 + h
        <5>1. k - 1 \in 1 .. Len(Rest) /\ k = 1 + (k - 1)
          BY <1>2, <1>3, <1>8
        <5> QED BY <5>1
      <4> QED BY <1>5, <1>8, <4>1
    <3> QED BY <3>1
  <2>3. i = 1 /\ line.cmd = "echo"
    <3>1. j \in 2 .. Len(Todo)
      BY <1>2, <1>6
    <3>2. line.cmd = "echo"
      BY <1>6, <2>2, <3>1
    <3>3. ~(i \in 2 .. Len(Todo))
      BY <1>6, <2>2, <3>2
    <3> QED BY <1>2, <1>6, <3>2, <3>3
  <2>4. 2 \in 2 .. Len(Todo)
    BY <1>2, <1>8
  <2>5. IF Todo[2][3] = 2 THEN Todo[1] = <<Todo[2][1], Todo[2][2], 1>>
                          ELSE Todo[1][3] = 2 \/ Todo[2][1] = "reset"
    <3>1. PICK k : k = 2
      OBVIOUS
    <3>2. IF Todo[k][3] = 2 THEN Todo[k - 1] = <<Todo[k][1], Todo[k][2], 1>>
                            ELSE Todo[k - 1][3] = 2 \/ Todo[k][1] = "reset"
      BY <2>4, <3>1 DEF PairedInv, Paired
    <3> QED BY <3>1, <3>2
  <2> QED BY <1>6, <2>1, <2>3, <2>5
<1>9. CASE Len(clibuf) = 1 /\ Len(Rest) = 0
  BY <1>2, <1>3, <1>6, <1>9
<1> QED BY <1>2, <1>4, <1>7, <1>8, <1>9

(* The opening worker goes on, or gives up.                                *)
LEMMA HandshakeOpens ==
    ASSUME TypeInv, TypeInv', PairedInv, HandshakeInv, OpenWorker, ~clobbered'
    PROVE  PairedInv' /\ HandshakeInv'
<1>1. UNCHANGED <<up, down, clibuf, echo, rxactive>>
  BY DEF OpenWorker, ttytail_reset, ConfigEcho, ConfigEui, ConfigRx, Register, Timeout, Advance, cli
<1>2. Todo \in Seq(Piece) /\ Len(Todo) \in Nat
  BY TodoShape
<1>3. ASSUME NEW c, NEW f, ttytail_tx_start(c, f), opener # "reset" \/ c = "reset"
      PROVE  /\ PairedInv'
             /\ Len(Todo') = Len(Todo) + 2
             /\ \A i \in 1 .. Len(Todo) : Todo'[i] = Todo[i]
             /\ Todo'[Len(Todo) + 1] = <<c, f, 1>>
             /\ \A w : Has(Todo', w) <=> Has(Todo, w) \/ w = c
             /\ \A v, w : NoneBehind(Todo, v, w) /\ (w = c => v # c /\ ~Has(Todo, v)) => NoneBehind(Todo', v, w)
  <2>1. /\ Todo' = WithCommand(Todo, c, f)
        /\ <<c, f, 1>> \in Piece /\ <<c, f, 2>> \in Piece
        /\ wrote' = 0
    BY <1>1, <1>3, StartAdds DEF PairedInv
  <2>2. PICK u : u = Todo'
    OBVIOUS
  <2>3. /\ u \in Seq(Piece) /\ Len(u) = Len(Todo) + 2
        /\ \A i \in 1 .. Len(Todo) : u[i] = Todo[i]
        /\ u[Len(Todo) + 1] = <<c, f, 1>> /\ u[Len(Todo) + 2] = <<c, f, 2>>
        /\ \A w : Has(u, w) <=> Has(Todo, w) \/ w = c
        /\ \A v, w : NoneBehind(Todo, v, w) /\ (w = c => v # c /\ ~Has(Todo, v)) => NoneBehind(u, v, w)
        /\ Paired(Todo) /\ (Todo # << >> => Todo[Len(Todo)][3] = 2 \/ c = "reset") => Paired(u)
    <3>1. PICK t \in Seq(Piece) : t = Todo
      BY <1>2
    <3>2. u = WithCommand(t, c, f)
      BY <2>1, <2>2, <3>1
    <3>3. /\ u \in Seq(Piece) /\ Len(u) = Len(t) + 2
          /\ \A i \in 1 .. Len(t) : u[i] = t[i]
          /\ u[Len(t) + 1] = <<c, f, 1>> /\ u[Len(t) + 2] = <<c, f, 2>>
          /\ \A w : Has(u, w) <=> Has(t, w) \/ w = c
          /\ \A v, w : NoneBehind(t, v, w) /\ (w = c => v # c /\ ~Has(t, v)) => NoneBehind(u, v, w)
          /\ Paired(t) /\ (t # << >> => t[Len(t)][3] = 2 \/ c = "reset") => Paired(u)
      BY <2>1, <3>1, <3>2, PairAdded
    <3> QED BY <3>1, <3>3
  <2>4. Paired(u)
    BY <1>3, <2>3 DEF PairedInv
  <2>5. u[Len(u)][3] = 2
    BY <2>3
  <2>6. PairedInv'
    BY <1>1, <2>1, <2>2, <2>4, <2>5 DEF PairedInv
  <2> QED BY <2>2, <2>3, <2>6
<1>4. CASE ttytail_reset
  <2>1. /\ opener = "reset" /\ opener' = "ready" /\ ready' = FALSE
        /\ ttytail_tx_start("reset", None)
    BY <1>4 DEF ttytail_reset, Advance
  <2>2. EchoFirst
    BY <2>1 DEF HandshakeInv
  <2>3. /\ \A w : Has(Todo', w) <=> Has(Todo, w) \/ w = "reset"
        /\ NoneBehind(Todo, "reset", "echo") => NoneBehind(Todo', "reset", "echo")
        /\ PairedInv'
    BY <1>3, <2>1
  <2>4. EchoFirst'
    BY <1>1, <2>2, <2>3 DEF EchoFirst
  <2> QED BY <2>1, <2>3, <2>4 DEF HandshakeInv, EchoSeen
<1>5. CASE ConfigEcho
  <2>1. /\ opener = "ready" /\ ready /\ opener' = "echo" /\ echo_off' = FALSE
        /\ ttytail_tx_start("echo", None)
    BY <1>5 DEF ConfigEcho, Advance
  <2>2. NoEcho
    BY <2>1 DEF HandshakeInv
  <2>3. /\ Len(Todo') = Len(Todo) + 2
        /\ \A i \in 1 .. Len(Todo) : Todo'[i] = Todo[i]
        /\ NoneBehind(Todo, "echo", "reset") => NoneBehind(Todo', "echo", "reset")
        /\ PairedInv'
    BY <1>3, <2>1
  <2>4. \A i \in 1 .. Len(Todo) : Todo[i][1] # "echo"
    BY <2>2 DEF NoEcho, Has
  <2>5. NoneBehind(Todo', "echo", "reset")
    BY <2>3, <2>4 DEF NoneBehind
  <2>6. \A i \in 1 .. Len(Todo') : Todo'[i][1] = "echo" => i >= Len(Todo') - 1
    BY <1>2, <2>3, <2>4
  <2>7. NoneBehind(up, "echo", "ready") /\ NoneBehind(up, "echo", "echo")
    BY <2>2 DEF NoEcho, Has, NoneBehind
  <2>8. EchoLast'
    BY <1>1, <2>2, <2>5, <2>6, <2>7 DEF EchoLast, NoEcho
  <2> QED BY <2>1, <2>3, <2>8 DEF HandshakeInv, EchoSeen
<1>6. CASE ConfigEui
  <2>1. opener = "echo" /\ echo_off /\ opener' = "eui" /\ ttytail_tx_start("eui", None)
    BY <1>6 DEF ConfigEui, Advance
  <2>2. (\A w : Has(Todo', w) <=> Has(Todo, w) \/ w = "eui") /\ PairedInv'
    BY <1>3, <2>1
  <2>3. Clean'
    BY <1>1, <2>1, <2>2 DEF HandshakeInv, EchoSeen, Clean
  <2> QED BY <2>1, <2>2, <2>3 DEF HandshakeInv, EchoSeen
<1>7. CASE ConfigRx
  <2>1. opener = "eui" /\ opener' = "rx" /\ ttytail_tx_start("rx", None)
    BY <1>7 DEF ConfigRx, Advance
  <2>2. /\ \A w : Has(Todo', w) <=> Has(Todo, w) \/ w = "rx"
        /\ Len(Todo') = Len(Todo) + 2 /\ Todo'[Len(Todo) + 1] = <<"rx", None, 1>>
        /\ PairedInv'
    BY <1>3, <2>1
  <2>3. Clean'
    BY <1>1, <2>1, <2>2 DEF HandshakeInv, Clean
  <2>4. Len(Todo) + 1 \in 1 .. Len(Todo')
    BY <1>2, <2>2
  <2>5. Listening'
    BY <2>2, <2>4 DEF Listening
  <2> QED BY <2>1, <2>2, <2>3, <2>5 DEF HandshakeInv, EchoSeen
<1>8. CASE Register
  <2>1. /\ opener = "rx" /\ opener' = "registered" /\ line.offset = 2
        /\ UNCHANGED <<line, wrote, work>>
    BY <1>8 DEF Register, Advance, ttytail_tx_idle
  <2>2. Todo' = Todo
    BY <1>1, <2>1 DEF Todo, Rest, Pieces
  <2>3. PairedInv'
    BY <1>1, <2>1, <2>2 DEF PairedInv, Counting
  <2>4. Clean' /\ Listening'
    BY <1>1, <2>1, <2>2 DEF HandshakeInv, Clean, Listening
  <2>5. (line.offset + wrote)' = 2
    <3>1. wrote \in 0 .. 2 /\ line.offset + wrote \in 0 .. 2
      BY TodoShape
    <3> QED BY <2>1, <3>1
  <2> QED BY <2>1, <2>3, <2>4, <2>5 DEF HandshakeInv, EchoSeen
<1>9. CASE Timeout
  <2>1. /\ opener' = "failed" /\ UNCHANGED <<line, wrote, work, ready, echo_off>> /\ down = << >> /\ up = << >>
        /\ opener \in {"ready", "echo", "eui", "rx"} /\ (opener = "echo" => ~echo_off)
    BY <1>9 DEF Timeout, Busy
  <2>2. Todo' = Todo
    BY <1>1, <2>1 DEF Todo, Rest, Pieces
  <2>3. PairedInv'
    BY <1>1, <2>1, <2>2 DEF PairedInv, Counting
  <2>4. NoneBehind(Todo, "reset", "echo")
    BY <2>1, NothingBehind
  <2>5. EchoFirst'
    <3>1. ~Has(up, "ready") /\ NoneBehind(up, "ready", "echo")
      BY <2>1 DEF Has, NoneBehind
    <3> QED BY <1>1, <2>2, <2>4, <3>1 DEF EchoFirst
  <2> QED BY <2>1, <2>3, <2>5 DEF HandshakeInv, EchoSeen
<1> QED BY <1>4, <1>5, <1>6, <1>7, <1>8, <1>9 DEF OpenWorker

(* The port is opened again: what is not written of a line is lost.        *)
LEMMA HandshakeReopens ==
    ASSUME TypeInv, TypeInv', PairedInv, HandshakeInv, Reopen
    PROVE  PairedInv' /\ HandshakeInv'
<1>1. /\ UNCHANGED <<up, down, clibuf, echo, rxactive>>
      /\ opener \in {"registered", "failed"} /\ opener' = "reset"
      /\ line'.offset = 2 /\ wrote' = 0
  BY DEF Reopen, cli
<1>2. Todo \in Seq(Piece) /\ Todo' \in Seq(Piece) /\ Len(Todo) \in Nat /\ Len(Todo') \in Nat
  BY TodoShape
<1>3. PICK u \in Seq(Piece) : u = Todo'
  BY <1>2
<1>4. Len(u) <= Len(Todo) /\ \A i \in 1 .. Len(u) : u[i] = Todo[i]
  BY <1>3, TodoReopened
<1>5. Within(u, Todo) /\ (Paired(Todo) => Paired(u))
  <2>1. PICK t : t = Todo
    OBVIOUS
  <2>2. /\ Len(u) \in Nat /\ Len(t) \in Nat /\ Len(u) <= Len(t)
        /\ \A i \in 1 .. Len(u) : u[i] = t[i]
    BY <1>2, <1>3, <1>4, <2>1
  <2>3. Within(u, t) /\ (Paired(t) => Paired(u))
    BY ONLY <2>2, PrefixKeeps
  <2> QED BY <2>1, <2>3
<1>6. PairedInv'
  BY <1>1, <1>3, <1>5 DEF PairedInv
<1>7. /\ \A w : Has(u, w) => Has(Todo, w)
      /\ \A v, w : NoneBehind(Todo, v, w) => NoneBehind(u, v, w)
  BY <1>2, <1>3, <1>5, WithinKeeps
<1>8. CASE opener = "failed"
  <2>1. EchoFirst
    BY <1>8 DEF HandshakeInv
  <2>2. EchoFirst'
    BY <1>1, <1>3, <1>7, <2>1 DEF EchoFirst
  <2> QED BY <1>1, <1>6, <2>2 DEF HandshakeInv, EchoSeen
<1>9. CASE opener = "registered"
  <2>1. Clean
    BY <1>9 DEF HandshakeInv
  <2>2. ~Has(u, "echo") /\ ~Has(up, "ready")
    BY <1>7, <2>1 DEF Clean
  <2>3. NoneBehind(up, "ready", "echo") /\ NoneBehind(u, "reset", "echo")
    <3>1. \A i \in 1 .. Len(up) : up[i][1] # "ready"
      BY <2>2 DEF Has
    <3>2. \A j \in 1 .. Len(u) : u[j][1] # "echo"
      BY <2>2 DEF Has
    <3>3. ASSUME NEW i \in 1 .. Len(u), NEW j \in i + 1 .. Len(u) PROVE u[j][1] # "echo"
      <4>1. j \in 1 .. Len(u)
        BY <1>2, <1>3
      <4> QED BY <3>2, <4>1
    <3> QED BY <3>1, <3>3 DEF NoneBehind
  <2>4. EchoFirst'
    BY <1>1, <1>3, <2>2, <2>3 DEF EchoFirst
  <2> QED BY <1>1, <1>6, <2>4 DEF HandshakeInv, EchoSeen
<1> QED BY <1>1, <1>8, <1>9

(* A transmission is handed over.                                          *)
LEMMA HandshakeSends ==
    ASSUME TypeInv, TypeInv', PairedInv, HandshakeInv, ttytail_xmit_async, ~clobbered'
    PROVE  PairedInv' /\ HandshakeInv'
<1>1. /\ UNCHANGED <<opener, up, down, clibuf, echo, rxactive>>
      /\ opener = "registered"
      /\ ttytail_tx_start("tx", taken + 1)
  BY DEF ttytail_xmit_async, cli
<1>2. Todo \in Seq(Piece) /\ Len(Todo) \in Nat
  BY TodoShape
<1>3. /\ Todo' = WithCommand(Todo, "tx", taken + 1)
      /\ <<"tx", taken + 1, 1>> \in Piece /\ <<"tx", taken + 1, 2>> \in Piece
      /\ line'.cmd = "tx" /\ wrote' = 0
  BY <1>1, StartAdds DEF PairedInv
<1>4. PICK t, u, f : t \in Seq(Piece) /\ t = Todo /\ u = Todo' /\ f = taken + 1
  BY <1>2
<1>5. /\ Len(u) = Len(t) + 2
      /\ \A i \in 1 .. Len(t) : u[i] = t[i]
      /\ u[Len(t) + 2] = <<"tx", f, 2>>
      /\ \A w : Has(u, w) <=> Has(t, w) \/ w = "tx"
      /\ Paired(t) /\ (t # << >> => t[Len(t)][3] = 2) => Paired(u)
  <2>1. u = WithCommand(t, "tx", f) /\ <<"tx", f, 1>> \in Piece /\ <<"tx", f, 2>> \in Piece
    BY <1>3, <1>4
  <2>2. t \in Seq(Piece)
    BY <1>4
  <2> QED BY ONLY <2>1, <2>2, PairAdded
<1>6. PairedInv'
  <2>1. Paired(u)
    BY <1>1, <1>4, <1>5 DEF PairedInv
  <2>2. u[Len(u)][3] = 2
    BY <1>5
  <2> QED BY <1>1, <1>3, <1>4, <2>1, <2>2 DEF PairedInv
<1>7. Clean'
  BY <1>1, <1>4, <1>5 DEF HandshakeInv, Clean
<1>8. Listening'
  <2>1. CASE rxactive
    BY <1>1, <2>1 DEF Listening
  <2>2. CASE ~rxactive
    <3>1. PICK i \in 1 .. Len(t) : t[i] = <<"rx", None, 1>>
      BY <1>1, <1>4, <2>2 DEF HandshakeInv, Listening
    <3>2. i \in 1 .. Len(u) /\ u[i] = <<"rx", None, 1>>
      BY <1>2, <1>4, <1>5, <3>1
    <3> QED BY <1>4, <3>2 DEF Listening
  <2> QED BY <2>1, <2>2
<1> QED BY <1>1, <1>3, <1>6, <1>7, <1>8 DEF HandshakeInv, EchoSeen

(* The device has taken n pieces from the cable and keeps the last of them *)
(* in its buffer.                                                          *)
LEMMA Fewer ==
    ASSUME NEW b \in Seq(Piece), NEW d \in Seq(Piece), NEW r \in Seq(Piece),
           NEW b1 \in Seq(Piece), NEW d1 \in Seq(Piece), NEW n, Behind(d1, d, n),
           Len(b1) <= n, \A i \in 1 .. Len(b1) : b1[i] = d[n - Len(b1) + i],
           NEW t, t = (b \o d) \o r, NEW u, u = (b1 \o d1) \o r
    PROVE  Behind(u, t, Len(b) + n - Len(b1))
<1>1. /\ Len(b) \in Nat /\ Len(d) \in Nat /\ Len(r) \in Nat
      /\ Len(t) = Len(b) + Len(d) + Len(r)
      /\ \A i \in 1 .. Len(d) : t[Len(b) + i] = d[i]
      /\ \A i \in 1 .. Len(r) : t[Len(b) + Len(d) + i] = r[i]
  BY Joined
<1>2. /\ Len(b1) \in Nat /\ Len(d1) \in Nat
      /\ Len(u) = Len(b1) + Len(d1) + Len(r)
      /\ \A i \in 1 .. Len(b1) : u[i] = b1[i]
      /\ \A i \in 1 .. Len(d1) : u[Len(b1) + i] = d1[i]
      /\ \A i \in 1 .. Len(r) : u[Len(b1) + Len(d1) + i] = r[i]
  BY Joined
<1>3. /\ n \in 0 .. Len(d) /\ Len(d1) = Len(d) - n
      /\ \A i \in 1 .. Len(d1) : d1[i] = d[i + n]
  BY DEF Behind
<1>4. PICK k : k = Len(b) + n - Len(b1)
  OBVIOUS
<1>5. k \in 0 .. Len(t) /\ Len(u) = Len(t) - k
  BY <1>1, <1>2, <1>3, <1>4
<1>6. ASSUME NEW i \in 1 .. Len(u) PROVE u[i] = t[i + k]
  <2>1. CASE i \in 1 .. Len(b1)
    <3>1. PICK j : j = n - Len(b1) + i
      OBVIOUS
    <3>2. j \in 1 .. Len(d) /\ Len(b) + j = i + k
      <4>1. /\ Len(b) \in Nat /\ Len(d) \in Nat /\ Len(b1) \in Nat /\ n \in 0 .. Len(d)
            /\ Len(b1) <= n /\ k = Len(b) + n - Len(b1) /\ i \in 1 .. Len(b1) /\ j = n - Len(b1) + i
        BY <1>1, <1>2, <1>3, <1>4, <2>1, <3>1
      <4> QED BY ONLY <4>1
    <3>3. u[i] = d[j] /\ t[Len(b) + j] = d[j]
      BY <1>1, <1>2, <2>1, <3>1, <3>2
    <3> QED BY <3>2, <3>3
  <2>2. CASE i \in Len(b1) + 1 .. Len(b1) + Len(d1)
    <3>1. PICK j : j = i - Len(b1)
      OBVIOUS
    <3>2. j \in 1 .. Len(d1) /\ i = Len(b1) + j /\ j + n \in 1 .. Len(d) /\ Len(b) + (j + n) = i + k
      BY <1>1, <1>2, <1>3, <1>4, <2>2, <3>1
    <3>3. u[i] = d1[j] /\ d1[j] = d[j + n] /\ t[Len(b) + (j + n)] = d[j + n]
      BY <1>1, <1>2, <1>3, <3>2
    <3> QED BY <3>2, <3>3
  <2>3. CASE i \in Len(b1) + Len(d1) + 1 .. Len(u)
    <3>1. PICK j : j = i - (Len(b1) + Len(d1))
      OBVIOUS
    <3>2. j \in 1 .. Len(r) /\ i = Len(b1) + Len(d1) + j /\ Len(b) + Len(d) + j = i + k
      BY <1>1, <1>2, <1>3, <1>4, <2>3, <3>1
    <3>3. u[i] = r[j] /\ t[Len(b) + Len(d) + j] = r[j]
      BY <1>1, <1>2, <3>2
    <3> QED BY <3>2, <3>3
  <2>4. \/ i \in 1 .. Len(b1) \/ i \in Len(b1) + 1 .. Len(b1) + Len(d1)
        \/ i \in Len(b1) + Len(d1) + 1 .. Len(u)
    <3>1. Len(b1) \in Nat /\ Len(d1) \in Nat /\ Len(r) \in Nat /\ Len(u) = Len(b1) + Len(d1) + Len(r)
          /\ i \in 1 .. Len(u)
      BY <1>1, <1>2
    <3> QED BY ONLY <3>1
  <2> QED BY <2>1, <2>2, <2>3, <2>4
<1> QED BY <1>4, <1>5, <1>6 DEF Behind

(* What the device makes of the pieces that are gone: it ignores an end    *)
(* without a beginning, and loses some in a reset; it executes a command   *)
(* that a reset has cut short without an answer to an echo, and a whole    *)
(* command.                                                                *)
Gone        == Len(Todo) - Len(Todo')
Told(whole) == up' = (IF whole /\ echo THEN Append(up, <<"echo">>) ELSE up) /\ echo' = FALSE

Ignored   == /\ Gone \in {0, 1} /\ (Gone = 1 => Todo[1][3] = 2)
             /\ UNCHANGED <<up, echo, rxactive>>
ResetDone == Gone >= 1 /\ Todo[1][1] = "reset" /\ up' = Append(up, <<"ready">>)
CutShort  == /\ Gone = 1 /\ Len(Todo) >= 2 /\ Todo[2][1] = "reset"
             /\ up' \in {up, Append(up, <<"eui">>)}
Executed  == /\ Gone = 2 /\ Len(Todo) >= 2
             /\ Todo[2][1] = Todo[1][1] /\ Todo[2][3] = 2
             /\ Todo[1][1] = "echo" => Told(TRUE)
             /\ Todo[1][1] # "echo" => up' \in {up, Append(up, <<"eui">>)} /\ echo' = echo
             /\ IF Todo[1][1] = "rx" THEN rxactive' ELSE rxactive' = rxactive

(* One command's effect.                                                   *)
Effect(word, whole) == \/ word = "echo" /\ Told(whole) /\ UNCHANGED rxactive
                       \/ word = "eui" /\ up' = Append(up, <<"eui">>) /\ UNCHANGED <<echo, rxactive>>
                       \/ word = "rx" /\ rxactive' /\ UNCHANGED <<up, echo>>
                       \/ word \in {"tx", ""} /\ UNCHANGED <<up, echo, rxactive>>

LEMMA Effects ==
    ASSUME NEW buf, NEW rest, Execute(buf, rest)
    PROVE  \E m \in Meanings(buf) :
             \/ /\ m[1] = "reset" /\ clibuf' = << >> /\ up' = Append(up, <<"ready">>)
                /\ \E n \in 1 .. Len(down) : down' = SubSeq(down, n + 1, Len(down))
             \/ /\ m[1] # "reset" /\ clibuf' = rest /\ down' = Tail(down)
                /\ Effect(m[1], Whole(buf))
<1>1. PICK m \in Meanings(buf) :
        \/ m[1] = "reset" /\ fn_reset
        \/ /\ m[1] # "reset"
           /\ \/ m[1] = "echo" /\ fn_echo(Whole(buf))
              \/ m[1] = "eui"  /\ fn_config_eui
              \/ m[1] = "rx"   /\ fn_rx
              \/ m[1] = "tx"   /\ fn_tx(m[2])
              \/ m[1] = ""     /\ UNCHANGED <<up, echo, pending, txcomplete, rxcomplete, txtime, rxtime, rxactive, radio>>
           /\ down' = Tail(down) /\ clibuf' = rest /\ where' = "read"
  BY DEF Execute
<1>2. CASE m[1] = "reset" /\ fn_reset
  BY <1>2 DEF fn_reset, cli_init
<1>3. CASE /\ m[1] # "reset"
           /\ \/ m[1] = "echo" /\ fn_echo(Whole(buf))
              \/ m[1] = "eui"  /\ fn_config_eui
              \/ m[1] = "rx"   /\ fn_rx
              \/ m[1] = "tx"   /\ fn_tx(m[2])
              \/ m[1] = ""     /\ UNCHANGED <<up, echo, pending, txcomplete, rxcomplete, txtime, rxtime, rxactive, radio>>
           /\ down' = Tail(down) /\ clibuf' = rest
  <2>1. Effect(m[1], Whole(buf))
    BY <1>3 DEF Effect, Told, fn_echo, fn_config_eui, fn_rx, fn_tx
  <2> QED BY <1>3, <2>1
<1> QED BY <1>1, <1>2, <1>3

(* A piece alone means its word or nothing.                                *)
LEMMA CutMeanings ==
    ASSUME NEW buf \in Seq(Piece), Len(buf) \in {0, 1}, NEW m \in Meanings(buf)
    PROVE  ~Whole(buf) /\ (m = <<"">> \/ (Len(buf) = 1 /\ m = buf[1] /\ m[3] = 1))
<1>1. ~Whole(buf)
  BY DEF Whole
<1>2. CASE m = <<"">>
  BY <1>1, <1>2
<1>3. CASE m \in {p \in {buf[i] : i \in DOMAIN buf \intersect {1}} : p[3] = 1}
  <2>1. 1 \in DOMAIN buf /\ m = buf[1] /\ m[3] = 1
    BY <1>3
  <2>2. Len(buf) = 1
    BY <2>1, LenProperties
  <2> QED BY <1>1, <2>1, <2>2
<1> QED BY <1>1, <1>2, <1>3 DEF Meanings

(* Both pieces mean the command.                                           *)
LEMMA WholeMeanings ==
    ASSUME NEW buf \in Seq(Piece), Len(buf) = 2, NEW m \in Meanings(buf),
           buf[2][3] = 2, buf[1] = <<buf[2][1], buf[2][2], 1>>
    PROVE  Whole(buf) /\ m = buf[1]
<1>1. buf[1] \in Piece /\ buf[2] \in Piece
  <2>1. 1 \in 1 .. Len(buf) /\ 2 \in 1 .. Len(buf)
    OBVIOUS
  <2> QED BY <2>1, ElementOfSeq
<1>2. PICK c, f : buf[2] = <<c, f, 2>>
  BY <1>1 DEF Piece
<1>3. buf[1] = <<c, f, 1>>
  BY <1>2
<1> DEFINE l == [cmd |-> buf[1][1], frame |-> buf[1][2]]
<1>4. Pieces(l) = << <<c, f, 1>>, <<c, f, 2>> >>
  BY <1>3 DEF Pieces
<1>5. PICK x \in Piece, y \in Piece : x = buf[1] /\ y = buf[2]
  BY <1>1
<1>6. buf = <<x, y>>
  BY <1>5
<1>7. Whole(buf)
  BY <1>2, <1>3, <1>4, <1>5, <1>6 DEF Whole
<1>8. buf # << >>
  <2>1. ASSUME buf = << >> PROVE FALSE
    <3>1. Len(buf) = 0
      BY <2>1
    <3> QED BY <3>1
  <2> QED BY <2>1
<1> QED BY <1>7, <1>8 DEF Meanings

(* Reading a piece is one of these.                                        *)
LEMMA ReadCases ==
    ASSUME TypeInv, TypeInv', PairedInv, cli_read
    PROVE  /\ clibuf' # << >> => Len(clibuf') = 1 /\ clibuf'[1][3] = 1
           /\ Behind(Todo', Todo, Gone)
           /\ Ignored \/ ResetDone \/ CutShort \/ Executed
<1>1. down # << >> /\ Rest' = Rest
  BY DEF cli_read, driver, Rest, Pieces
<1>2. PICK b \in Seq(Piece), d \in Seq(Piece), r \in Seq(Piece), t \in Seq(Piece) :
        /\ b = clibuf /\ d = down /\ r = Rest /\ t = Todo /\ t = (b \o d) \o r
  BY TodoShape
<1>3. PICK b1 \in Seq(Piece), d1 \in Seq(Piece), u \in Seq(Piece) :
        /\ b1 = clibuf' /\ d1 = down' /\ u = Todo' /\ u = (b1 \o d1) \o r
  BY <1>1, <1>2, TodoShape
<1>4. /\ Len(b) \in Nat /\ Len(d) \in Nat /\ Len(t) \in Nat
      /\ Len(t) = Len(b) + Len(d) + Len(r) /\ Len(r) \in Nat
      /\ \A i \in 1 .. Len(b) : t[i] = b[i]
      /\ \A i \in 1 .. Len(d) : t[Len(b) + i] = d[i]
  BY <1>2, Joined, LenProperties
<1>5. /\ Len(d) >= 1 /\ Head(d) = d[1] /\ Tail(d) \in Seq(Piece)
      /\ Behind(Tail(d), d, 1)
  <2>1. d # << >> /\ Len(d) # 0
    BY <1>1, <1>2, EmptySeq
  <2>2. /\ Head(d) = d[1] /\ Tail(d) \in Seq(Piece) /\ Len(Tail(d)) = Len(d) - 1
        /\ \A i \in 1 .. Len(Tail(d)) : Tail(d)[i] = d[i + 1]
    BY <2>1, HeadTailProperties
  <2>3. Behind(Tail(d), d, 1)
    BY <1>4, <2>1, <2>2 DEF Behind
  <2> QED BY <1>4, <2>1, <2>2, <2>3
<1>6. PICK p \in Piece : p = d[1]
  <2>1. 1 \in 1 .. Len(d)
    BY <1>4, <1>5
  <2> QED BY <2>1, ElementOfSeq
<1>7. p[3] \in {1, 2} /\ t[Len(b) + 1] = p
  <2>1. p[3] \in {1, 2}
    BY <1>6 DEF Piece
  <2>2. 1 \in 1 .. Len(d)
    BY <1>4, <1>5
  <2> QED BY <1>4, <1>6, <2>1, <2>2
<1>8. Len(b) \in {0, 1} /\ (Len(b) = 1 => b[1][3] = 1)
  BY <1>2, EmptySeq DEF PairedInv
<1>9. Len(b) = 1 => /\ t[1] = b[1] /\ t[2] = p /\ Len(t) >= 2
                    /\ IF p[3] = 2 THEN b[1] = <<p[1], p[2], 1>> ELSE p[1] = "reset"
  <2> SUFFICES ASSUME Len(b) = 1
               PROVE  /\ t[1] = b[1] /\ t[2] = p /\ Len(t) >= 2
                      /\ IF p[3] = 2 THEN b[1] = <<p[1], p[2], 1>> ELSE p[1] = "reset"
    OBVIOUS
  <2>1. t[1] = b[1] /\ t[2] = p /\ Len(t) >= 2
    BY <1>4, <1>5, <1>7
  <2>2. PICK i \in 2 .. Len(t) : i = 2
    BY <1>4, <2>1
  <2>3. Paired(t)
    BY <1>2 DEF PairedInv
  <2>4. IF t[i][3] = 2 THEN t[i - 1] = <<t[i][1], t[i][2], 1>>
                       ELSE t[i - 1][3] = 2 \/ t[i][1] = "reset"
    BY <2>2, <2>3 DEF Paired
  <2>5. IF t[2][3] = 2 THEN t[1] = <<t[2][1], t[2][2], 1>>
                       ELSE t[1][3] = 2 \/ t[2][1] = "reset"
    BY <2>2, <2>4
  <2> QED BY <1>8, <2>1, <2>5
<1>10. ASSUME NEW n, Behind(d1, d, n), Len(b1) <= n, \A i \in 1 .. Len(b1) : b1[i] = d[n - Len(b1) + i]
       PROVE  Gone = Len(b) + n - Len(b1) /\ Behind(Todo', Todo, Gone)
  <2>1. PICK k : k = Len(b) + n - Len(b1)
    OBVIOUS
  <2>2. Behind(u, t, k)
    BY <1>2, <1>3, <1>10, <2>1, Fewer
  <2>3. k = Len(t) - Len(u)
    BY <1>4, <2>2 DEF Behind
  <2>4. Gone = k
    BY <1>2, <1>3, <2>3 DEF Gone
  <2> QED BY <1>2, <1>3, <2>1, <2>2, <2>4
<1>11. ASSUME b1 = << >>, NEW n, Behind(d1, d, n)
       PROVE  Gone = Len(b) + n /\ Behind(Todo', Todo, Gone)
  <2>1. Len(b1) = 0 /\ n \in Nat
    BY <1>4, <1>11, EmptySeq DEF Behind
  <2>2. Gone = Len(b) + n - Len(b1) /\ Behind(Todo', Todo, Gone)
    BY <1>10, <1>11, <2>1
  <2>3. Len(b) + n - Len(b1) = Len(b) + n
    BY <1>4, <2>1
  <2> QED BY <2>2, <2>3
<1>12. ASSUME b1 = <<p>>, d1 = Tail(d)
       PROVE  Gone = Len(b) /\ Behind(Todo', Todo, Gone)
  <2>1. Len(b1) = 1 /\ b1[1] = p
    BY <1>12
  <2>2. Gone = Len(b) + 1 - Len(b1) /\ Behind(Todo', Todo, Gone)
    <3>1. ASSUME NEW i \in 1 .. Len(b1) PROVE b1[i] = d[1 - Len(b1) + i]
      <4>1. i = 1 /\ 1 - Len(b1) + i = 1
        BY <2>1
      <4> QED BY <1>6, <2>1, <4>1
    <3>2. Behind(d1, d, 1) /\ Len(b1) <= 1
      BY <1>5, <1>12, <2>1
    <3> QED BY ONLY <1>10, <3>1, <3>2
  <2>3. Len(b) + 1 - Len(b1) = Len(b)
    BY <1>4, <2>1
  <2> QED BY <2>2, <2>3
<1>13. ASSUME NEW buf, Len(buf) >= 1, buf[1] = t[1], buf[1][1] = "reset", b1 = << >>,
              up' = Append(up, <<"ready">>),
              NEW n \in 1 .. Len(d), d1 = SubSeq(d, n + 1, Len(d))
       PROVE  Behind(Todo', Todo, Gone) /\ ResetDone
  <2>1. n \in 0 .. Len(d)
    BY <1>4
  <2>2. Behind(d1, d, n)
    <3>1. /\ Len(d1) = Len(d) - n
          /\ \A i \in 1 .. Len(d) - n : d1[i] = d[n + i]
      BY <1>13, <2>1, Suffix
    <3>2. ASSUME NEW i \in 1 .. Len(d1) PROVE d1[i] = d[i + n]
      <4>1. i \in 1 .. Len(d) - n /\ n + i = i + n
        BY <1>4, <2>1, <3>1
      <4> QED BY <3>1, <4>1
    <3> QED BY <2>1, <3>1, <3>2 DEF Behind
  <2>3. Gone = Len(b) + n /\ Behind(Todo', Todo, Gone)
    BY <1>11, <1>13, <2>2
  <2>4. Len(b) + n >= 1
    BY <1>4
  <2> QED BY <1>2, <1>13, <2>3, <2>4 DEF ResetDone
<1>14. CASE p[1] = "reset" /\ p[3] = 1
  <2>1. Execute(b, <<p>>)
    BY <1>2, <1>5, <1>6, <1>14 DEF cli_read
  <2>2. PICK m \in Meanings(b) :
          \/ /\ m[1] = "reset" /\ b1 = << >> /\ up' = Append(up, <<"ready">>)
             /\ \E n \in 1 .. Len(d) : d1 = SubSeq(d, n + 1, Len(d))
          \/ /\ m[1] # "reset" /\ b1 = <<p>> /\ d1 = Tail(d)
             /\ Effect(m[1], Whole(b))
    BY <1>2, <1>3, <2>1, Effects
  <2>3. ~Whole(b) /\ (m = <<"">> \/ (Len(b) = 1 /\ m = b[1] /\ m[3] = 1))
    BY <1>8, CutMeanings
  <2>4. CASE m[1] = "reset"
    <3>1. <<"">>[1] # "reset"
      OBVIOUS
    <3>2. Len(b) = 1 /\ b[1] = t[1] /\ b[1][1] = "reset"
      BY <1>9, <2>3, <2>4, <3>1
    <3>3. PICK n \in 1 .. Len(d) : d1 = SubSeq(d, n + 1, Len(d))
      BY <2>2, <2>4
    <3>4. b1 = << >> /\ up' = Append(up, <<"ready">>) /\ Len(b) >= 1
      BY <2>2, <2>4, <3>2
    <3>5. Behind(Todo', Todo, Gone) /\ ResetDone
      BY <1>13, <3>2, <3>3, <3>4
    <3> QED BY <1>3, <3>4, <3>5
  <2>5. CASE m[1] # "reset"
    <3>1. Gone = Len(b) /\ Behind(Todo', Todo, Gone)
      BY <1>12, <2>2, <2>5
    <3>2. Len(clibuf') = 1 /\ clibuf'[1][3] = 1
      BY <1>3, <1>14, <2>2, <2>5
    <3>3. CASE Len(b) = 0
      <4>1. m[1] = ""
        <5>1. Len(b) # 1
          BY <3>3
        <5>2. m = <<"">>
          BY ONLY <2>3, <5>1
        <5> QED BY <5>2
      <4>2. UNCHANGED <<up, echo, rxactive>>
        BY <2>2, <2>5, <4>1 DEF Effect
      <4>3. Ignored
        BY <3>1, <3>3, <4>2 DEF Ignored
      <4> QED BY <3>1, <3>2, <3>3, <4>3
    <3>4. CASE Len(b) = 1
      <4>1. up' \in {up, Append(up, <<"eui">>)}
        BY <2>2, <2>3, <2>5 DEF Effect, Told
      <4>2. CutShort
        BY <1>2, <1>9, <1>14, <3>1, <3>4, <4>1 DEF CutShort
      <4> QED BY <3>1, <3>2, <3>4, <4>2
    <3> QED BY <1>8, <3>3, <3>4
  <2> QED BY <2>4, <2>5
<1>15. CASE p[3] = 2
  <2> DEFINE a == Append(b, p)
  <2>1. Execute(a, << >>)
    BY <1>2, <1>5, <1>6, <1>15 DEF cli_read
  <2>2. /\ a \in Seq(Piece) /\ Len(a) = Len(b) + 1 /\ a[Len(b) + 1] = p
        /\ \A i \in 1 .. Len(b) : a[i] = b[i]
    BY <1>6, AppendProperties
  <2> HIDE DEF a
  <2>3. PICK m \in Meanings(a) :
          \/ /\ m[1] = "reset" /\ b1 = << >> /\ up' = Append(up, <<"ready">>)
             /\ \E n \in 1 .. Len(d) : d1 = SubSeq(d, n + 1, Len(d))
          \/ /\ m[1] # "reset" /\ b1 = << >> /\ d1 = Tail(d)
             /\ Effect(m[1], Whole(a))
    BY <1>2, <1>3, <2>1, Effects
  <2>4. b1 = << >>
    BY <2>3
  <2>5. CASE Len(b) = 0
    <3>1. Len(a) = 1 /\ a[1] = p
      BY <2>2, <2>5
    <3>2. m = <<"">>
      <4>1. m = <<"">> \/ (m = a[1] /\ m[3] = 1)
        BY <2>2, <2>3, <3>1, CutMeanings
      <4>2. m = a[1] => m[3] = 2
        BY <1>15, <3>1
      <4>3. 1 # 2
        OBVIOUS
      <4> QED BY ONLY <4>1, <4>2, <4>3
    <3>3. m[1] = ""
      BY <3>2
    <3>4. UNCHANGED <<up, echo, rxactive>> /\ d1 = Tail(d)
      BY <2>3, <3>3 DEF Effect
    <3>5. Gone = Len(b) + 1 /\ Behind(Todo', Todo, Gone)
      BY <1>5, <1>11, <2>4, <3>4
    <3>6. Ignored
      BY <1>2, <1>7, <1>15, <2>5, <3>4, <3>5 DEF Ignored
    <3> QED BY <1>3, <2>4, <3>5, <3>6
  <2>6. CASE Len(b) = 1
    <3>1. Len(a) = 2 /\ a[2] = p /\ a[1] = b[1] /\ b[1] = <<p[1], p[2], 1>>
      BY <1>9, <1>15, <2>2, <2>6
    <3>2. Whole(a) /\ m = a[1]
      BY <1>15, <2>2, <3>1, WholeMeanings
    <3>3. /\ t[1] = m /\ t[2] = p /\ Len(t) >= 2 /\ t[2][1] = t[1][1]
      <4>1. m[1] = p[1]
        BY <3>1, <3>2
      <4> QED BY <1>9, <2>6, <3>1, <3>2, <4>1
    <3>4. CASE m[1] = "reset"
      <4>1. PICK n \in 1 .. Len(d) : d1 = SubSeq(d, n + 1, Len(d))
        BY <2>3, <3>4
      <4>2. up' = Append(up, <<"ready">>) /\ Len(a) >= 1 /\ a[1] = t[1] /\ a[1][1] = "reset"
        BY <2>3, <3>1, <3>2, <3>3, <3>4
      <4>3. Behind(Todo', Todo, Gone) /\ ResetDone
        BY <1>13, <2>4, <4>1, <4>2
      <4> QED BY <1>3, <2>4, <4>3
    <3>5. CASE m[1] # "reset"
      <4>1. d1 = Tail(d) /\ Effect(m[1], TRUE)
        BY <2>3, <3>2, <3>5
      <4>2. Gone = Len(b) + 1 /\ Behind(Todo', Todo, Gone)
        BY <1>5, <1>11, <2>4, <4>1
      <4>3. Gone = 2 /\ Behind(Todo', Todo, Gone)
        BY <2>6, <4>2
      <4>4. Executed
        <5>1. /\ Todo[1][1] = m[1] /\ Len(Todo) >= 2 /\ Todo[2][1] = m[1] /\ Todo[2][3] = 2
          BY <1>2, <1>15, <3>3
        <5>2. /\ m[1] = "echo" => Told(TRUE)
              /\ m[1] # "echo" => up' \in {up, Append(up, <<"eui">>)} /\ echo' = echo
              /\ IF m[1] = "rx" THEN rxactive' ELSE rxactive' = rxactive
          BY <4>1 DEF Effect
        <5> QED BY <4>3, <5>1, <5>2 DEF Executed
      <4> QED BY <1>3, <2>4, <4>3, <4>4
    <3> QED BY <3>4, <3>5
  <2> QED BY <1>8, <2>5, <2>6
<1>16. CASE p[3] = 1 /\ p[1] # "reset"
  <2>1. /\ b1 = Append(b, p) /\ d1 = Tail(d)
        /\ UNCHANGED <<up, echo, rxactive>>
    BY <1>2, <1>3, <1>5, <1>6, <1>16 DEF cli_read
  <2>2. Len(b) = 0
    BY <1>8, <1>9, <1>16
  <2>3. b1 = <<p>>
    <3>1. b = << >>
      BY <2>2, EmptySeq
    <3> QED BY <2>1, <3>1
  <2>4. Gone = 0 /\ Behind(Todo', Todo, Gone)
    BY <1>12, <2>1, <2>2, <2>3
  <2>5. Len(clibuf') = 1 /\ clibuf'[1][3] = 1
    BY <1>3, <1>16, <2>3
  <2>6. Ignored
    BY <2>1, <2>4 DEF Ignored
  <2> QED BY <2>4, <2>5, <2>6
<1> QED BY <1>7, <1>14, <1>15, <1>16

(* The device reads.                                                       *)
LEMMA HandshakeReads ==
    ASSUME TypeInv, TypeInv', PairedInv, HandshakeInv, cli_read
    PROVE  PairedInv' /\ HandshakeInv'
<1>1. UNCHANGED <<opener, ready, echo_off, line, work, wrote>>
  BY DEF cli_read, driver
<1>2. PICK k : k = Gone /\ Behind(Todo', Todo, k)
  BY ReadCases
<1>3. PICK t \in Seq(Piece), u \in Seq(Piece) :
        t = Todo /\ u = Todo' /\ Len(t) \in Nat /\ Len(u) \in Nat
  BY TodoShape
<1>4. /\ k \in 0 .. Len(t) /\ Len(u) = Len(t) - k
      /\ \A i \in 1 .. Len(u) : u[i] = t[i + k]
  BY <1>2, <1>3 DEF Behind
<1>5. /\ Within(u, t) /\ (Paired(t) => Paired(u))
      /\ Len(u) # 0 => u[Len(u)] = t[Len(t)]
  BY <1>2, <1>3, BehindKeeps
<1>6. PairedInv'
  <2>1. clibuf' # << >> => Len(clibuf') = 1 /\ clibuf'[1][3] = 1
    BY ReadCases
  <2>2. u # << >> => t # << >> /\ u[Len(u)] = t[Len(t)]
    <3>1. u # << >> => Len(u) # 0
      BY EmptySeq
    <3>2. t = << >> => Len(t) = 0
      BY EmptySeq
    <3> QED BY <1>4, <1>5, <3>1, <3>2
  <2> QED BY <1>1, <1>3, <1>5, <2>1, <2>2 DEF PairedInv, Counting
<1>7. /\ \A w : Has(u, w) => Has(t, w)
      /\ \A v, w : NoneBehind(t, v, w) => NoneBehind(u, v, w)
  BY <1>3, <1>5, WithinKeeps
<1>8. ASSUME NEW l \in Line
      PROVE  /\ \A w : Has(Append(up, l), w) <=> Has(up, w) \/ l[1] = w
             /\ \A v, w : NoneBehind(up, v, w) /\ (l[1] = w => ~Has(up, v))
                           => NoneBehind(Append(up, l), v, w)
  <2>1. up \in Seq(Line)
    BY DEF TypeInv, UpType
  <2> QED BY <2>1, AppendKeeps
<1>9. up' \in {up, Append(up, <<"eui">>)} => Calm(up', up)
  <2>1. PICK l \in Line : l = <<"eui">> /\ l[1] = "eui"
    BY Kinds
  <2>2. Calm(Append(up, l), up)
    BY <2>1, CalmAppend
  <2>3. Calm(up, up)
    BY DEF Calm
  <2>4. up' = up => Calm(up', up)
    BY <2>3
  <2>5. up' = Append(up, l) => Calm(up', up)
    BY <2>2
  <2> QED BY <2>1, <2>4, <2>5
<1>10. up' = Append(up, <<"ready">>) =>
         /\ \A w : Has(up', w) <=> Has(up, w) \/ w = "ready"
         /\ \A v, w : NoneBehind(up, v, w) /\ (w = "ready" => ~Has(up, v)) => NoneBehind(up', v, w)
  <2>1. PICK l \in Line : l = <<"ready">> /\ l[1] = "ready"
    BY Kinds
  <2> QED BY <1>8, <2>1
<1>11. up' = Append(up, <<"echo">>) =>
         /\ \A w : Has(up', w) <=> Has(up, w) \/ w = "echo"
         /\ \A v, w : NoneBehind(up, v, w) /\ (w = "echo" => ~Has(up, v)) => NoneBehind(up', v, w)
  <2>1. PICK l \in Line : l = <<"echo">> /\ l[1] = "echo"
    BY Kinds
  <2> QED BY <1>8, <2>1
<1>12. CASE Ignored
  <2>1. /\ UNCHANGED <<up, echo, rxactive>>
        /\ k \in {0, 1} /\ (k = 1 => t[1][3] = 2)
    BY <1>2, <1>3, <1>12 DEF Ignored
  <2>2. EchoFirst => EchoFirst'
    BY <1>3, <1>7, <2>1 DEF EchoFirst
  <2>3. NoEcho => NoEcho'
    BY <1>3, <1>7, <2>1 DEF NoEcho
  <2>4. EchoLast => EchoLast'
    <3>1. ASSUME EchoLast, NEW i \in 1 .. Len(u), u[i][1] = "echo" PROVE i >= Len(u) - 1
      <4>1. i + k \in 1 .. Len(t) /\ t[i + k][1] = "echo"
        BY <1>3, <1>4, <3>1
      <4>2. i + k >= Len(t) - 1
        BY <1>3, <3>1, <4>1 DEF EchoLast
      <4> QED BY <1>3, <1>4, <4>2
    <3> QED BY <1>3, <1>7, <2>1, <3>1 DEF EchoLast
  <2>5. Clean => Clean'
    BY <1>3, <1>7, <2>1 DEF Clean
  <2>6. Listening => Listening'
    <3>1. CASE rxactive
      BY <2>1, <3>1 DEF Listening
    <3>2. ASSUME NEW i \in 1 .. Len(t), t[i] = <<"rx", None, 1>> PROVE Listening'
      <4>1. ~(k = 1 /\ i = 1)
        <5>1. t[i][3] = 1
          BY <3>2
        <5>2. t[i][3] # 2
          BY <5>1
        <5> QED BY <2>1, <5>2
      <4>2. PICK j : j = i - k
        OBVIOUS
      <4>3. j \in 1 .. Len(u) /\ j + k = i
        BY <1>3, <1>4, <2>1, <4>1, <4>2
      <4>4. u[j] = <<"rx", None, 1>>
        BY <1>4, <3>2, <4>3
      <4> QED BY <1>3, <4>3, <4>4 DEF Listening
    <3> QED BY <1>3, <3>1, <3>2 DEF Listening
  <2> QED BY <1>1, <1>6, <2>2, <2>3, <2>4, <2>5, <2>6 DEF HandshakeInv, EchoSeen
<1>13. CASE ResetDone
  <2>1. k >= 1 /\ t[1][1] = "reset" /\ up' = Append(up, <<"ready">>)
    BY <1>2, <1>3, <1>13 DEF ResetDone
  <2>2. 1 \in 1 .. Len(t)
    BY <1>3, <1>4, <2>1
  <2>3. Has(t, "reset")
    BY <2>1, <2>2 DEF Has
  <2>4. ~Clean
    BY <1>3, <2>3 DEF Clean
  <2>5. EchoFirst => EchoFirst'
    <3>1. ASSUME EchoFirst PROVE ~Has(u, "echo")
      <4>1. \A j \in 2 .. Len(t) : t[j][1] # "echo"
        BY <1>3, <2>1, <2>2, <3>1 DEF EchoFirst, NoneBehind
      <4>2. ASSUME NEW i \in 1 .. Len(u) PROVE u[i][1] # "echo"
        <5>1. i + k \in 2 .. Len(t)
          BY <1>3, <1>4, <2>1
        <5> QED BY <1>4, <4>1, <5>1
      <4> QED BY <4>2 DEF Has
    <3>2. EchoFirst => NoneBehind(up', "ready", "echo")
      BY <1>10, <2>1 DEF EchoFirst
    <3> QED BY <1>3, <1>7, <3>1, <3>2 DEF EchoFirst
  <2>6. NoEcho => NoEcho'
    BY <1>3, <1>7, <1>10, <2>1 DEF NoEcho
  <2>7. EchoLast => EchoLast'
    <3>1. ASSUME EchoLast, NEW i \in 1 .. Len(u), u[i][1] = "echo" PROVE i >= Len(u) - 1
      <4>1. i + k \in 1 .. Len(t) /\ t[i + k][1] = "echo"
        BY <1>3, <1>4, <3>1
      <4>2. i + k >= Len(t) - 1
        BY <1>3, <3>1, <4>1 DEF EchoLast
      <4> QED BY <1>3, <1>4, <4>2
    <3>2. EchoLast => ~Has(up, "echo")
      BY <1>3, <2>3 DEF EchoLast
    <3>3. EchoLast => /\ NoneBehind(up', "echo", "ready") /\ NoneBehind(up', "echo", "echo")
                      /\ ~Has(up', "echo")
      BY <1>10, <2>1, <3>2 DEF EchoLast
    <3>4. EchoLast => NoneBehind(u, "echo", "reset")
      BY <1>3, <1>7 DEF EchoLast
    <3> QED BY <1>3, <3>1, <3>3, <3>4 DEF EchoLast
  <2> QED BY <1>1, <1>6, <2>4, <2>5, <2>6, <2>7 DEF HandshakeInv, EchoSeen
<1>14. CASE CutShort
  <2>1. /\ k = 1 /\ Len(t) >= 2 /\ t[2][1] = "reset" /\ Calm(up', up)
    BY <1>2, <1>3, <1>9, <1>14 DEF CutShort
  <2>2. Has(t, "reset")
    <3>1. 2 \in 1 .. Len(t)
      BY <1>3, <2>1
    <3> QED BY <2>1, <3>1 DEF Has
  <2>3. ~Clean
    BY <1>3, <2>2 DEF Clean
  <2>4. EchoFirst => EchoFirst'
    BY <1>3, <1>7, <2>1 DEF EchoFirst, Calm
  <2>5. NoEcho => NoEcho'
    BY <1>3, <1>7, <2>1 DEF NoEcho, Calm
  <2>6. EchoLast => EchoLast'
    <3>1. ASSUME EchoLast, NEW i \in 1 .. Len(u), u[i][1] = "echo" PROVE i >= Len(u) - 1
      <4>1. i + k \in 1 .. Len(t) /\ t[i + k][1] = "echo"
        BY <1>3, <1>4, <3>1
      <4>2. i + k >= Len(t) - 1
        BY <1>3, <3>1, <4>1 DEF EchoLast
      <4> QED BY <1>3, <1>4, <4>2
    <3>2. EchoLast => ~Has(up', "echo")
      BY <1>3, <2>1, <2>2 DEF EchoLast, Calm
    <3>3. EchoLast => NoneBehind(up', "echo", "ready") /\ NoneBehind(up', "echo", "echo")
      BY <2>1 DEF EchoLast, Calm
    <3>4. EchoLast => NoneBehind(u, "echo", "reset")
      BY <1>3, <1>7 DEF EchoLast
    <3> QED BY <1>3, <3>1, <3>2, <3>3, <3>4 DEF EchoLast
  <2> QED BY <1>1, <1>6, <2>3, <2>4, <2>5, <2>6 DEF HandshakeInv, EchoSeen
<1>15. CASE Executed /\ Todo[1][1] = "echo"
  <2>1. /\ k = 2 /\ Len(t) >= 2 /\ t[1][1] = "echo" /\ echo' = FALSE
        /\ up' = IF echo THEN Append(up, <<"echo">>) ELSE up
    BY <1>2, <1>3, <1>15 DEF Executed, Told
  <2>2. Has(t, "echo") /\ 1 \in 1 .. Len(t)
    <3>1. 1 \in 1 .. Len(t)
      BY <1>3, <2>1
    <3> QED BY <2>1, <3>1 DEF Has
  <2>3. ~Clean /\ ~NoEcho
    BY <1>3, <2>2 DEF Clean, NoEcho
  <2>4. EchoFirst => EchoFirst'
    <3>1. ASSUME EchoFirst PROVE ~Has(up, "ready") /\ NoneBehind(up, "ready", "echo")
      BY <1>3, <2>2, <3>1 DEF EchoFirst
    <3>2. EchoFirst => ~Has(up', "ready") /\ NoneBehind(up', "ready", "echo")
      <4>1. CASE echo
        BY <1>11, <2>1, <3>1, <4>1
      <4>2. CASE ~echo
        BY <2>1, <3>1, <4>2
      <4> QED BY <4>1, <4>2
    <3> QED BY <1>3, <1>7, <3>2 DEF EchoFirst
  <2>5. EchoLast => EchoLast'
    <3>1. ASSUME EchoLast PROVE Len(u) = 0
      <4>1. 1 >= Len(t) - 1
        BY <1>3, <2>1, <2>2, <3>1 DEF EchoLast
      <4> QED BY <1>3, <1>4, <2>1, <4>1
    <3>2. ASSUME EchoLast PROVE ~Has(u, "reset") /\ ~Has(u, "echo")
      BY <3>1, <3>2 DEF Has
    <3>3. ASSUME EchoLast
          PROVE  ~Has(up, "echo") /\ NoneBehind(up, "echo", "ready") /\ NoneBehind(up, "echo", "echo")
      BY <1>3, <2>2, <3>3 DEF EchoLast
    <3>4. EchoLast => NoneBehind(up', "echo", "ready") /\ NoneBehind(up', "echo", "echo")
      <4>1. CASE echo
        BY <1>11, <2>1, <3>3, <4>1
      <4>2. CASE ~echo
        BY <2>1, <3>3, <4>2
      <4> QED BY <4>1, <4>2
    <3>5. EchoLast => NoneBehind(u, "echo", "reset") /\ \A i \in 1 .. Len(u) : u[i][1] = "echo" => i >= Len(u) - 1
      BY <1>3, <1>7, <3>1 DEF EchoLast
    <3> QED BY <1>3, <2>1, <3>2, <3>4, <3>5 DEF EchoLast
  <2> QED BY <1>1, <1>6, <2>3, <2>4, <2>5 DEF HandshakeInv, EchoSeen
<1>16. CASE Executed /\ Todo[1][1] # "echo"
  <2>1. /\ k = 2 /\ Len(t) >= 2 /\ t[2][3] = 2 /\ echo' = echo
        /\ Calm(up', up)
        /\ IF t[1][1] = "rx" THEN rxactive' ELSE rxactive' = rxactive
    BY <1>2, <1>3, <1>9, <1>16 DEF Executed
  <2>2. EchoFirst => EchoFirst'
    BY <1>3, <1>7, <2>1 DEF EchoFirst, Calm
  <2>3. NoEcho => NoEcho'
    BY <1>3, <1>7, <2>1 DEF NoEcho, Calm
  <2>4. EchoLast => EchoLast'
    <3>1. ASSUME EchoLast, NEW i \in 1 .. Len(u), u[i][1] = "echo" PROVE i >= Len(u) - 1
      <4>1. i + k \in 1 .. Len(t) /\ t[i + k][1] = "echo"
        BY <1>3, <1>4, <3>1
      <4>2. i + k >= Len(t) - 1
        BY <1>3, <3>1, <4>1 DEF EchoLast
      <4> QED BY <1>3, <1>4, <4>2
    <3>2. EchoLast => (Has(up', "echo") => ~Has(u, "reset") /\ ~Has(u, "echo") /\ ~echo')
      BY <1>3, <1>7, <2>1 DEF EchoLast, Calm
    <3>3. EchoLast => NoneBehind(up', "echo", "ready") /\ NoneBehind(up', "echo", "echo")
      BY <2>1 DEF EchoLast, Calm
    <3>4. EchoLast => NoneBehind(u, "echo", "reset")
      BY <1>3, <1>7 DEF EchoLast
    <3> QED BY <1>3, <3>1, <3>2, <3>3, <3>4 DEF EchoLast
  <2>5. Clean => Clean'
    BY <1>3, <1>7, <2>1 DEF Clean, Calm
  <2>6. Listening => Listening'
    <3>1. CASE rxactive
      BY <2>1, <3>1 DEF Listening
    <3>2. ASSUME NEW i \in 1 .. Len(t), t[i] = <<"rx", None, 1>> PROVE Listening'
      <4>1. CASE i = 1
        <5>1. t[1][1] = "rx"
          BY <3>2, <4>1
        <5> QED BY <2>1, <5>1 DEF Listening
      <4>2. CASE i # 1
        <5>1. i # 2
          <6>1. t[i][3] = 1
            BY <3>2
          <6>2. t[i][3] # 2
            BY <6>1
          <6> QED BY <2>1, <6>2
        <5>2. PICK j : j = i - 2
          OBVIOUS
        <5>3. j \in 1 .. Len(u) /\ j + k = i
          BY <1>3, <1>4, <2>1, <4>2, <5>1, <5>2
        <5>4. u[j] = <<"rx", None, 1>>
          BY <1>4, <3>2, <5>3
        <5> QED BY <1>3, <5>3, <5>4 DEF Listening
      <4> QED BY <4>1, <4>2
    <3> QED BY <1>3, <3>1, <3>2 DEF Listening
  <2> QED BY <1>1, <1>6, <2>2, <2>3, <2>4, <2>5, <2>6 DEF HandshakeInv, EchoSeen
<1> QED BY ReadCases, <1>12, <1>13, <1>14, <1>15, <1>16

(* Steps that move neither the opening worker nor what is to be executed.  *)
LEMMA OpenSame ==
    ASSUME PairedInv, HandshakeInv, Todo' = Todo, Calm(up', up),
           UNCHANGED <<opener, ready, echo_off, clibuf, echo, rxactive>>,
           line'.cmd = line.cmd, wrote' # 0 => Counting',
           line.offset + wrote = 2 => (line.offset + wrote)' = 2
    PROVE  PairedInv' /\ HandshakeInv'
<1>1. PairedInv'
  BY DEF PairedInv
<1> QED BY <1>1, HandshakeSame

(* A line that is lost on its way up.                                      *)
LEMMA LossWithin ==
    ASSUME TypeInv, LoseLine
    PROVE  /\ Within(up', up) /\ Len(up) \in Nat /\ Len(up') = Len(up) - 1
           /\ \E k \in 1 .. Len(up) :
                /\ \A j \in 1 .. Len(up) - 1 : up'[j] = up[IF j < k THEN j ELSE j + 1]
                /\ mixed' = (mixed \/ AboutReception(up[k]))
<1>1. up \in Seq(Line)
  BY DEF TypeInv, UpType
<1>2. PICK k \in 1 .. Len(up) : up' = RemoveAt(up, k) /\ mixed' = (mixed \/ AboutReception(up[k]))
  BY <1>1, LenProperties DEF LoseLine
<1>3. /\ Len(up) \in Nat /\ Len(up) >= 1 /\ Len(up') = Len(up) - 1
      /\ \A j \in 1 .. Len(up) - 1 : up'[j] = up[IF j < k THEN j ELSE j + 1]
  <2>1. Len(up') = Len(up) - 1 /\ \A j \in 1 .. Len(up) - 1 : up'[j] = up[IF j < k THEN j ELSE j + 1]
    BY <1>1, <1>2, Removed
  <2> QED BY <1>1, <1>2, <2>1, LenProperties
<1>4. Within(up', up)
  <2> DEFINE g == [j \in 1 .. Len(up') |-> IF j < k THEN j ELSE j + 1]
  <2>1. g \in [1 .. Len(up') -> 1 .. Len(up)]
    BY <1>2, <1>3
  <2>2. \A i \in 1 .. Len(up') : up'[i] = up[g[i]] /\ \A j \in 1 .. i - 1 : g[j] < g[i]
    BY <1>2, <1>3
  <2> HIDE DEF g
  <2> QED BY <2>1, <2>2 DEF Within
<1> QED BY <1>2, <1>3, <1>4

LEMMA CalmLoss ==
    ASSUME TypeInv, LoseLine
    PROVE  Calm(up', up)
<1>1. Within(up', up) /\ Len(up) \in Nat /\ Len(up') \in Nat
  <2>1. Within(up', up) /\ Len(up) \in Nat /\ Len(up') = Len(up) - 1 /\ \E k \in 1 .. Len(up) : TRUE
    BY LossWithin
  <2> QED BY <2>1
<1> QED BY <1>1, WithinKeeps DEF Calm

(* Nothing is to be executed in the beginning.                             *)
LEMMA NothingTold ==
    ASSUME Init
    PROVE  Todo = << >> /\ Len(Todo) = 0
<1>1. /\ clibuf = << >> /\ down = << >> /\ wrote = 0 /\ line.offset = 2
      /\ line = [cmd |-> "", frame |-> None, offset |-> 2]
  BY DEF Init
<1>2. line \in TxLines
  <2> DEFINE l == [cmd |-> "", frame |-> None, offset |-> 2]
  <2>1. l \in [cmd : Commands, frame : {None}, offset : 0 .. 2]
    BY DEF Commands
  <2> QED BY <1>1, <2>1 DEF TxLines
<1>3. Todo \in Seq(Piece) /\ Len(Todo) = 0
  <2>1. line.offset = 2 /\ wrote = 0
    BY <1>1
  <2>2. PICK n \in 0 .. 2 : n = line.offset + wrote /\ n = 2
    BY ONLY <2>1
  <2>3. Rest = SubSeq(Pieces(line), n + 1, 2)
    BY <2>2 DEF Rest
  <2>4. PICK r \in Seq(Piece) : r = Rest /\ Len(r) = 2 - n
    BY <1>2, <2>3, Unwritten
  <2>5. PICK e \in Seq(Piece) : e = << >> /\ Len(e) = 0
    BY EmptySeq
  <2>6. Todo = (e \o e) \o r
    BY <1>1, <2>4, <2>5 DEF Todo
  <2>7. Todo \in Seq(Piece) /\ Len(Todo) = Len(e) + Len(e) + Len(r)
    BY ONLY <2>4, <2>5, <2>6, Joined
  <2> QED BY ONLY <2>2, <2>4, <2>5, <2>7
<1>4. Todo = << >>
  BY <1>3, EmptySeq
<1> QED BY <1>3, <1>4

(* Every step keeps the handshake in order, unless an answer that matters  *)
(* is lost.                                                                *)
LEMMA OpenInductive ==
    /\ Init => OpenInv
    /\ TypeInv /\ OpenInv /\ [Next]_vars => OpenInv'
<1>1. ASSUME Init PROVE OpenInv
  <2>1. /\ clibuf = << >> /\ down = << >> /\ wrote = 0 /\ line.offset = 2 /\ line = [cmd |-> "", frame |-> None, offset |-> 2]
        /\ opener = "reset"
        /\ up = << >> \/ up = <<<<"ready">>>>
    BY <1>1 DEF Init
  <2>2. Todo = << >> /\ Len(Todo) = 0
    BY <1>1, NothingTold
  <2>3. PairedInv
    <3>1. Paired(Todo)
      BY <2>2 DEF Paired
    <3> QED BY <2>1, <2>2, <3>1 DEF PairedInv
  <2>4. EchoFirst
    <3>1. NoneBehind(Todo, "reset", "echo") /\ ~Has(Todo, "echo")
      BY <2>2 DEF NoneBehind, Has
    <3>2. Len(up) \in {0, 1}
      <4>1. CASE up = << >>
        BY <4>1
      <4>2. CASE up = <<<<"ready">>>>
        BY <4>2
      <4> QED BY <2>1, <4>1, <4>2
    <3>3. NoneBehind(up, "ready", "echo")
      BY <3>2 DEF NoneBehind
    <3> QED BY <3>1, <3>3 DEF EchoFirst
  <2> QED BY <2>1, <2>3, <2>4 DEF OpenInv, HandshakeInv, EchoSeen
<1>2. ASSUME TypeInv, OpenInv, Next, Unbroken' PROVE PairedInv' /\ HandshakeInv'
  <2>0. TypeInv'
    BY <1>2, TypeInductive
  <2>a. Unbroken
    <3>1. ~clobbered
      BY <1>2 DEF Next, PollNothing, vars, hist, Unbroken
    <3>2. broken => broken'
      BY <1>2 DEF Next, OpenWorker, ttytail_reset, ConfigEcho, ConfigEui, ConfigRx, Register, Timeout, Advance,
                  TxWorker, WorkerWrite, WorkerCount, ttytail_write_wakeup,
                  Receiver, RxReady, RxEcho, ttytail_rx_eui64, ttytail_rx_packet, ttytail_rx_timestamp, Received,
                  Reading, cli_read, cli_read_end, Printing, tx_poll, PrintPacket, PrintTime,
                  txrx_txdone, txrx_rxdone, Reopen, ttytail_stop, ttytail_xmit_async,
                  LoseLine, LoseInput, Restart, Fault, PollNothing, vars, hist
    <3>5. faults' = faults \/ faults' = faults + 1
      BY <1>2 DEF Next, OpenWorker, ttytail_reset, ConfigEcho, ConfigEui, ConfigRx, Register, Timeout, Advance,
                  TxWorker, WorkerWrite, WorkerCount, ttytail_write_wakeup,
                  Receiver, RxReady, RxEcho, ttytail_rx_eui64, ttytail_rx_packet, ttytail_rx_timestamp, Received,
                  Reading, cli_read, cli_read_end, Printing, tx_poll, PrintPacket, PrintTime,
                  txrx_txdone, txrx_rxdone, Reopen, ttytail_stop, ttytail_xmit_async,
                  LoseLine, LoseInput, Restart, Fault, PollNothing, vars, hist
    <3>3. faults \in Nat
      BY <1>2 DEF TypeInv, LogType
    <3>4. faults' = 0 => faults = 0
      BY <3>3, <3>5
    <3> QED BY <1>2, <3>1, <3>2, <3>4 DEF Unbroken
  <2>b. PairedInv /\ HandshakeInv
    BY <1>2, <2>a DEF OpenInv
  <2>c. ~clobbered'
    BY <1>2 DEF Unbroken
  <2>d. Calm(up, up)
    BY DEF Calm
  <2>1. CASE OpenWorker
    BY <1>2, <2>0, <2>b, <2>c, <2>1, HandshakeOpens
  <2>2. CASE WorkerWrite \/ WorkerCount
    <3>1. /\ Todo' = Todo /\ (wrote' # 0 => Counting') /\ line'.cmd = line.cmd
          /\ line.offset + wrote = 2 => (line.offset + wrote)' = 2
      BY <1>2, <2>0, <2>b, <2>2, WritingKeeps DEF PairedInv
    <3>2. UNCHANGED <<up, opener, ready, echo_off, clibuf, echo, rxactive>>
      BY <2>2 DEF WorkerWrite, WorkerCount, cli
    <3> QED BY <2>b, <2>d, <3>1, <3>2, OpenSame
  <2>3. ASSUME UNCHANGED <<opener, ready, echo_off, line, wrote, work, down, clibuf, echo, rxactive>>,
               Calm(up', up)
        PROVE  PairedInv' /\ HandshakeInv'
    <3>1. Todo' = Todo
      BY <2>3 DEF Todo, Rest, Pieces
    <3>2. wrote' # 0 => Counting'
      BY <2>b, <2>3 DEF PairedInv, Counting
    <3> QED BY <2>b, <2>3, <3>1, <3>2, OpenSame
  <2>4. CASE ttytail_write_wakeup \/ ttytail_stop
    <3>1. UNCHANGED <<opener, ready, echo_off, line, up, down, clibuf, echo, rxactive>>
      BY <2>4 DEF ttytail_write_wakeup, ttytail_stop, cli
    <3>2. wrote = 0 /\ wrote' = 0
      BY <2>b, <2>4 DEF ttytail_write_wakeup, ttytail_stop, Schedule, Counting, PairedInv
    <3>3. Todo' = Todo
      BY <3>1, <3>2 DEF Todo, Rest, Pieces
    <3> QED BY <2>b, <2>d, <3>1, <3>2, <3>3, OpenSame
  <2>5. CASE Receiver
    <3>1. UNCHANGED <<opener, line, wrote, work, down, clibuf>>
      BY <2>5 DEF Receiver, RxReady, RxEcho, ttytail_rx_eui64, ttytail_rx_packet, ttytail_rx_timestamp, Received, cli
    <3>2. Todo' = Todo
      BY <3>1 DEF Todo, Rest, Pieces
    <3>3. PairedInv'
      BY <2>b, <3>1, <3>2 DEF PairedInv, Counting
    <3> QED BY <1>2, <2>b, <2>5, <3>3, HandshakeReceived
  <2>6. CASE cli_read
    BY <1>2, <2>0, <2>b, <2>6, HandshakeReads
  <2>7. CASE cli_read_end \/ txrx_txdone \/ txrx_rxdone \/ UNCHANGED vars
    <3>1. UNCHANGED <<up, opener, ready, echo_off, line, wrote, work, down, clibuf, echo, rxactive>>
      BY <2>7 DEF cli_read_end, txrx_txdone, txrx_rxdone, vars, driver, cli
    <3> QED BY <2>3, <2>d, <3>1
  <2>8. CASE Printing
    <3>1. UNCHANGED <<opener, ready, echo_off, line, wrote, work, down, clibuf, echo, rxactive>>
      BY <2>8 DEF Printing, tx_poll, PrintPacket, PrintTime, driver
    <3>2. CASE tx_poll
      <4>1. txtime \in 1 .. TxFrames
        BY <1>2, <3>2, TtyTailAssumption DEF tx_poll, TypeInv, DeviceType, None
      <4>2. PICK l \in Line : l = <<"time", <<"tx", txtime>>>>
        BY <4>1, Kinds DEF Times
      <4>3. Calm(Append(up, l), up)
        BY <1>2, <4>2, CalmAppend
      <4> QED BY <2>3, <3>1, <3>2, <4>2, <4>3 DEF tx_poll
    <3>3. CASE PrintPacket \/ PrintTime
      <4>1. rxtime \in 1 .. RxFrames
        BY <1>2, <3>3, TtyTailAssumption DEF PrintPacket, PrintTime, TypeInv, DeviceType, None
      <4>2. PICK l \in Line : up' = Append(up, l) /\ l[1] \in {"packet", "time"}
        <5>1. <<"packet", rxtime>> \in Line /\ <<"time", <<"rx", rxtime>>>> \in Line
          BY <4>1, Kinds DEF Times
        <5> QED BY <3>3, <5>1 DEF PrintPacket, PrintTime
      <4>3. Calm(Append(up, l), up)
        BY <1>2, <4>2, CalmAppend
      <4> QED BY <2>3, <3>1, <4>2, <4>3
    <3> QED BY <2>8, <3>2, <3>3 DEF Printing
  <2>9. CASE Reopen
    BY <1>2, <2>0, <2>b, <2>9, HandshakeReopens
  <2>10. CASE ttytail_xmit_async
    BY <1>2, <2>0, <2>b, <2>c, <2>10, HandshakeSends
  <2>11. CASE LoseLine
    <3>1. UNCHANGED <<opener, ready, echo_off, line, wrote, work, down, clibuf, echo, rxactive>>
      BY <2>11 DEF LoseLine, driver, cli
    <3> QED BY <1>2, <2>3, <2>11, <3>1, CalmLoss
  <2>12. CASE LoseInput \/ Restart
    <3>1. broken' /\ faults' = faults + 1 /\ faults \in Nat
      BY <1>2, <2>12 DEF LoseInput, Restart, Fault, TypeInv, LogType
    <3> QED BY <1>2, <3>1 DEF Unbroken
  <2> QED BY <1>2, <2>1, <2>2, <2>4, <2>5, <2>6, <2>7, <2>8, <2>9, <2>10, <2>11, <2>12
          DEF Next, TxWorker, Reading, PollNothing
<1>3. ASSUME OpenInv, UNCHANGED vars PROVE OpenInv'
  <2>1. UNCHANGED <<broken, clobbered, faults>>
    BY <1>3 DEF vars, hist
  <2>2. UNCHANGED <<up, opener, ready, echo_off, line, wrote, work, down, clibuf, echo, rxactive>>
    BY <1>3 DEF vars, driver, cli
  <2>3. Todo' = Todo
    BY <2>2 DEF Todo, Rest, Pieces
  <2>4. Calm(up', up)
    BY <2>2 DEF Calm
  <2>5. PairedInv => (wrote' # 0 => Counting')
    BY <2>2 DEF PairedInv, Counting
  <2>6. PairedInv /\ HandshakeInv => PairedInv' /\ HandshakeInv'
    BY <2>2, <2>3, <2>4, <2>5, OpenSame
  <2> QED BY <1>3, <2>1, <2>6 DEF OpenInv, Unbroken
<1>4. TypeInv /\ OpenInv /\ Next => OpenInv'
  BY <1>2 DEF OpenInv
<1> QED BY <1>1, <1>3, <1>4

(* Whatever is lost about receptions, and whenever the port is opened and  *)
(* closed: a registered interface has a device that listens, or has been   *)
(* told to, and that does not echo (ttytail.c:456-524).                     *)
THEOREM Handshake == Spec => []RegisteredMeansListening
<1>1. Init => TypeInv /\ OpenInv
  BY TypeInductive, OpenInductive
<1>2. TypeInv /\ OpenInv /\ [Next]_vars => (TypeInv /\ OpenInv)'
  BY TypeInductive, OpenInductive
<1>3. ASSUME TypeInv, OpenInv, opener = "registered", Unbroken
      PROVE  ~echo /\ (rxactive \/ OnItsWay("rx"))
  <2>1. HandshakeInv
    BY <1>3 DEF OpenInv
  <2>2. ~echo
    BY <1>3, <2>1 DEF HandshakeInv, Clean
  <2>3. ASSUME NEW i \in 1 .. Len(Todo), Todo[i] = <<"rx", None, 1>> PROVE OnItsWay("rx")
    <3>1. /\ line \in TxLines /\ line.offset \in 0 .. 2 /\ wrote \in 0 .. 2 /\ line.offset + wrote <= 2
          /\ clibuf \in Seq(Piece) /\ down \in Seq(Piece)
      BY <1>3 DEF TypeInv, DriverType, DeviceType, DownType, TxLines
    <3>2. PICK n \in 0 .. 2 : n = line.offset + wrote
      BY <3>1
    <3>3. PICK r \in Seq(Piece) : /\ r = Rest /\ Len(r) = 2 - n
                                  /\ \A j \in 1 .. 2 - n : r[j] = <<line.cmd, line.frame, n + j>>
      <4>1. PICK l \in TxLines : l = line
        BY <3>1
      <4>2. Rest = SubSeq(Pieces(l), n + 1, 2)
        BY <3>2, <4>1 DEF Rest
      <4>3. /\ Rest \in Seq(Piece) /\ Len(Rest) = 2 - n
            /\ \A j \in 1 .. 2 - n : Rest[j] = <<l.cmd, l.frame, n + j>>
        BY <4>1, <4>2, Unwritten
      <4> QED BY <4>1, <4>3
    <3>4. PICK b \in Seq(Piece), d \in Seq(Piece), t \in Seq(Piece) :
            b = clibuf /\ d = down /\ t = Todo /\ t = (b \o d) \o r
      <4>1. (clibuf \o down) \o r \in Seq(Piece)
        BY <3>1, <3>3, ConcatProperties
      <4>2. Todo = (clibuf \o down) \o r
        BY <3>3 DEF Todo
      <4> QED BY ONLY <3>1, <4>1, <4>2
    <3>5. /\ Len(clibuf) \in Nat /\ Len(down) \in Nat /\ Len(r) \in Nat
          /\ Len(t) = Len(clibuf) + Len(down) + Len(r)
          /\ \A j \in 1 .. Len(clibuf) : t[j] = clibuf[j]
          /\ \A j \in 1 .. Len(down) : t[Len(clibuf) + j] = down[j]
          /\ \A j \in 1 .. Len(r) : t[Len(clibuf) + Len(down) + j] = r[j]
      <4>1. /\ Len(b) \in Nat /\ Len(d) \in Nat /\ Len(r) \in Nat
            /\ Len(t) = Len(b) + Len(d) + Len(r)
            /\ \A j \in 1 .. Len(b) : t[j] = b[j]
            /\ \A j \in 1 .. Len(d) : t[Len(b) + j] = d[j]
            /\ \A j \in 1 .. Len(r) : t[Len(b) + Len(d) + j] = r[j]
        <5>1. b \in Seq(Piece) /\ d \in Seq(Piece) /\ r \in Seq(Piece)
          BY <3>3, <3>4
        <5>2. t = (b \o d) \o r
          BY <3>4
        <5> QED BY ONLY <5>1, <5>2, Joined
      <4> QED BY <3>4, <4>1
    <3>6. t[i][1] = "rx" /\ i \in 1 .. Len(t)
      BY <2>3, <3>4
    <3>7. CASE i \in 1 .. Len(clibuf)
      <4>1. clibuf[i][1] = "rx" /\ i \in DOMAIN clibuf
        BY <3>1, <3>5, <3>6, <3>7
      <4> QED BY <4>1 DEF OnItsWay
    <3>8. CASE i \in Len(clibuf) + 1 .. Len(clibuf) + Len(down)
      <4>1. PICK j \in 1 .. Len(down) : i = Len(clibuf) + j
        <5>1. i - Len(clibuf) \in 1 .. Len(down) /\ i = Len(clibuf) + (i - Len(clibuf))
          BY <3>5, <3>8
        <5> QED BY <5>1
      <4>2. down[j][1] = "rx" /\ j \in DOMAIN down
        BY <3>1, <3>5, <3>6, <4>1
      <4> QED BY <4>2 DEF OnItsWay
    <3>9. CASE i \in Len(clibuf) + Len(down) + 1 .. Len(t)
      <4>1. PICK j \in 1 .. Len(r) : i = Len(clibuf) + Len(down) + j
        <5>1. i - (Len(clibuf) + Len(down)) \in 1 .. Len(r) /\ i = Len(clibuf) + Len(down) + (i - (Len(clibuf) + Len(down)))
          BY <3>5, <3>9
        <5> QED BY <5>1
      <4>2. r[j] = <<line.cmd, line.frame, n + j>> /\ r[j][1] = "rx"
        BY <3>3, <3>5, <3>6, <4>1
      <4>3. line.cmd = "rx" /\ n # 2
        BY <3>2, <3>3, <4>1, <4>2
      <4> QED BY <1>3, <2>1, <3>2, <4>3 DEF HandshakeInv
    <3> QED BY <3>5, <3>6, <3>7, <3>8, <3>9
  <2>4. Listening
    BY <1>3, <2>1 DEF HandshakeInv
  <2> QED BY <2>2, <2>3, <2>4 DEF Listening
<1>4. TypeInv /\ OpenInv => RegisteredMeansListening
  BY <1>3 DEF RegisteredMeansListening, Unbroken
<1> QED BY <1>1, <1>2, <1>4, PTL DEF Spec

-----------------------------------------------------------------------------
(* Transmissions.  A command w begins with the i-th piece, one is among the *)
(* pieces, one at most, those of one kind come before those of another.    *)
Starts(s, i, w)  == s[i][1] = w /\ s[i][3] = 1
Begun(s, w)      == \E i \in 1 .. Len(s) : Starts(s, i, w)
Once(s, w)       == \A i, j \in 1 .. Len(s) : Starts(s, i, w) /\ Starts(s, j, w) => i = j
InFront(s, v, w) == \A i, j \in 1 .. Len(s) : Starts(s, i, v) /\ Starts(s, j, w) => i < j

(* The same of lines: one that says w at most; and the timestamps of       *)
(* transmissions, which come before any echo.                              *)
Single(s, w)   == \A i, j \in 1 .. Len(s) : s[i][1] = w /\ s[j][1] = w => i = j
IsAnswer(l)    == l[1] = "time" /\ l[2][1] = "tx"
Answering(s)   == \E i \in 1 .. Len(s) : IsAnswer(s[i])
OneAnswer(s)   == \A i, j \in 1 .. Len(s) : IsAnswer(s[i]) /\ IsAnswer(s[j]) => i = j
AnswerFirst(s) == \A i, j \in 1 .. Len(s) : IsAnswer(s[i]) /\ s[j][1] = "echo" => i < j

(* At most one fault so far, none about a reception, and no line that is   *)
(* overwritten.                                                            *)
Trusted == faults <= 1 /\ ~mixed /\ ~clobbered

(* The buffer holds first pieces, a reset only at its beginning; and the   *)
(* opening worker's line is the one it has asked for.                      *)
BufferInv == /\ wrote # 0 => Counting
             /\ \A i \in 1 .. Len(clibuf) : clibuf[i][3] = 1 /\ (clibuf[i][1] = "reset" => i = 1)
             /\ opener = "ready" => line.cmd = "reset"
             /\ opener \in {"echo", "eui", "rx"} => line.cmd = opener

(* An echo or a request for the EUI is complete, or a reset cuts it short. *)
Followed(s, i) == i < Len(s) /\ s[i + 1] \in {<<s[i][1], s[i][2], 2>>, <<"reset", None, 1>>}
CutInv == \A i \in 1 .. Len(Todo) : Starts(Todo, i, "echo") \/ Starts(Todo, i, "eui")
                                     => Followed(Todo, i) \/ (i = Len(Todo) /\ opener = "reset")

(* No echo, no EUI is told or answered; one echo at most; no echo is told  *)
(* or answered behind an EUI.                                              *)
EchoFree == ~Has(up, "echo") /\ ~Begun(Todo, "echo")
EuiFree  == ~Has(up, "eui") /\ ~Begun(Todo, "eui")
OneEcho  == /\ Single(up, "echo") /\ Once(Todo, "echo")
            /\ Has(up, "echo") => ~Begun(Todo, "echo")
EuiLast  == /\ NoneBehind(up, "eui", "echo") /\ InFront(Todo, "echo", "eui")
            /\ Has(up, "eui") => ~Begun(Todo, "echo")

(* When the interface is registered every echo has been answered: the EUI  *)
(* has been, and if that was the answer to an earlier handshake, the echo  *)
(* was not.                                                                *)
EchoInv == /\ opener \in {"reset", "ready"} => EchoFree \/ (EuiFree /\ ~eui64)
           /\ opener = "failed" => EchoFree \/ EuiFree
           /\ opener = "echo" => \/ EuiFree /\ ~eui64
                                 \/ IF echo_off THEN EchoFree ELSE OneEcho
           /\ opener = "eui" => IF eui64 THEN EchoFree ELSE EuiLast
           /\ opener \in {"rx", "registered"} => EchoFree

(* The device has a transmission to answer.                                *)
Outstanding == pending \/ Begun(Todo, "tx")

(* There is one transmission at most: the one the network stack waits for, *)
(* if it does, or one of an interface that is gone.                        *)
OneInv == /\ OneAnswer(up) /\ Once(Todo, "tx")
          /\ Answering(up) => ~Outstanding
          /\ pending => ~Begun(Todo, "tx")
          /\ opener # "registered" => tx_skb = None
          /\ opener = "registered" =>
               /\ \A i \in 1 .. Len(up) : IsAnswer(up[i]) => up[i][2][2] = tx_skb
               /\ pending => txtime = tx_skb
               /\ \A i \in 1 .. Len(Todo) : Starts(Todo, i, "tx") => Todo[i][2] = tx_skb

(* A whole reset is on its way, behind the transmission and before any     *)
(* echo.                                                                   *)
ResetAt(s, k) == /\ k \in 1 .. Len(s) - 1
                 /\ s[k] = <<"reset", None, 1>> /\ s[k + 1] = <<"reset", None, 2>>
                 /\ \A i \in 1 .. Len(s) : /\ Starts(s, i, "tx") => i < k
                                           /\ Starts(s, i, "echo") => k < i
Purged == \E k \in 1 .. Len(Todo) : ResetAt(Todo, k)

(* The device has not been reset, and the driver has seen no greeting.     *)
Unread == ~ready /\ ~Has(up, "ready") /\ InFront(Todo, "tx", "reset")

(* What is left of a transmission whose interface is gone: no echo is      *)
(* answered before it is, or has been dropped by a reset.                  *)
StaleInv ==
  /\ AnswerFirst(up)
  /\ Outstanding => /\ ~Has(up, "echo")
                    /\ opener \in {"reset", "ready", "failed", "registered"} => ~Begun(Todo, "echo")
                    /\ opener = "ready" => Purged \/ (faults = 1 /\ Unread)
                    /\ opener = "echo" => Purged
  /\ EchoSeen \/ opener \in {"eui", "rx"} => ~Outstanding /\ ~Answering(up)

LinkInv == Trusted => CutInv /\ EchoInv /\ OneInv /\ StaleInv

(* As long as there is no fault: while the device listens or sends, or has *)
(* been told to, it is not reset, and there is no echo.                    *)
Active == rxactive \/ radio # "off" \/ rxcomplete \/ where = "time" \/ pending
Live   == Active \/ Begun(Todo, "rx") \/ Begun(Todo, "tx")
Steady == /\ ~Has(up, "ready")
          /\ opener \in {"reset", "ready"} => ~ready
          /\ opener \notin {"echo", "eui"}
          /\ ~Begun(Todo, "echo")
          /\ InFront(Todo, "rx", "reset") /\ InFront(Todo, "tx", "reset")
          /\ InFront(Todo, "eui", "rx") /\ InFront(Todo, "eui", "tx")
          /\ Active => ~Begun(Todo, "eui")
LiveInv == (faults = 0 /\ ~clobbered /\ Live) => Steady

(* The timestamp of a frame comes behind it; or its packet has gone with   *)
(* an interface that is, and then nothing has been read since.             *)
Early    == opener \in {"reset", "ready"} /\ ~ready
IsStamp(l) == l[1] = "time" /\ l[2][1] = "rx"
Expected == rx_skb # None \/ Early
Stamped  == /\ \A i \in 1 .. Len(up) : IsStamp(up[i]) =>
                 IF i = 1 THEN Expected ELSE up[i - 1][1] = "packet"
            /\ where = "time" => IF Len(up) = 0 THEN Expected ELSE up[Len(up)][1] = "packet"
StampInv == ~mixed => Stamped

-----------------------------------------------------------------------------
(* With fewer elements in the same order nothing begins that did not.      *)
LEMMA FewerBegun ==
    ASSUME NEW u, NEW t, Len(u) \in Nat, Len(t) \in Nat, Within(u, t)
    PROVE  /\ \A w : Begun(u, w) => Begun(t, w)
           /\ \A w : Once(t, w) => Once(u, w)
           /\ \A v, w : InFront(t, v, w) => InFront(u, v, w)
           /\ \A w : Single(t, w) => Single(u, w)
           /\ Answering(u) => Answering(t)
           /\ OneAnswer(t) => OneAnswer(u)
           /\ AnswerFirst(t) => AnswerFirst(u)
           /\ \A i \in 1 .. Len(u) : \E j \in 1 .. Len(t) : u[i] = t[j]
<1>1. PICK g \in [1 .. Len(u) -> 1 .. Len(t)] :
        \A i \in 1 .. Len(u) : u[i] = t[g[i]] /\ \A j \in 1 .. i - 1 : g[j] < g[i]
  BY DEF Within
<1>2. \A i \in 1 .. Len(u) : g[i] \in 1 .. Len(t) /\ u[i] = t[g[i]]
  BY <1>1
<1>3. ASSUME NEW i \in 1 .. Len(u), NEW j \in 1 .. Len(u)
      PROVE  /\ g[i] = g[j] => i = j
             /\ g[i] < g[j] => i < j
  <2>1. i < j => g[i] < g[j]
    <3>1. i < j => i \in 1 .. j - 1
      OBVIOUS
    <3> QED BY <1>1, <3>1
  <2>2. j < i => g[j] < g[i]
    <3>1. j < i => j \in 1 .. i - 1
      OBVIOUS
    <3> QED BY <1>1, <3>1
  <2>3. g[i] \in Nat /\ g[j] \in Nat
    BY <1>2
  <2> QED BY <2>1, <2>2, <2>3
<1>4. ASSUME NEW w, Begun(u, w) PROVE Begun(t, w)
  BY <1>2, <1>4 DEF Begun, Starts
<1>5. ASSUME NEW w, Once(t, w) PROVE Once(u, w)
  <2> SUFFICES ASSUME NEW i \in 1 .. Len(u), NEW j \in 1 .. Len(u), Starts(u, i, w), Starts(u, j, w)
               PROVE  i = j
    BY DEF Once
  <2>1. Starts(t, g[i], w) /\ Starts(t, g[j], w)
    BY <1>2 DEF Starts
  <2> QED BY <1>2, <1>3, <1>5, <2>1 DEF Once
<1>6. ASSUME NEW v, NEW w, InFront(t, v, w) PROVE InFront(u, v, w)
  <2> SUFFICES ASSUME NEW i \in 1 .. Len(u), NEW j \in 1 .. Len(u), Starts(u, i, v), Starts(u, j, w)
               PROVE  i < j
    BY DEF InFront
  <2>1. Starts(t, g[i], v) /\ Starts(t, g[j], w)
    BY <1>2 DEF Starts
  <2> QED BY <1>2, <1>3, <1>6, <2>1 DEF InFront
<1>7. ASSUME NEW w, Single(t, w) PROVE Single(u, w)
  <2> SUFFICES ASSUME NEW i \in 1 .. Len(u), NEW j \in 1 .. Len(u), u[i][1] = w, u[j][1] = w
               PROVE  i = j
    BY DEF Single
  <2>1. t[g[i]][1] = w /\ t[g[j]][1] = w
    BY <1>2
  <2> QED BY <1>2, <1>3, <1>7, <2>1 DEF Single
<1>8. ASSUME Answering(u) PROVE Answering(t)
  BY <1>2, <1>8 DEF Answering
<1>9. ASSUME OneAnswer(t) PROVE OneAnswer(u)
  <2> SUFFICES ASSUME NEW i \in 1 .. Len(u), NEW j \in 1 .. Len(u), IsAnswer(u[i]), IsAnswer(u[j])
               PROVE  i = j
    BY DEF OneAnswer
  <2>1. IsAnswer(t[g[i]]) /\ IsAnswer(t[g[j]])
    BY <1>2
  <2> QED BY <1>2, <1>3, <1>9, <2>1 DEF OneAnswer
<1>10. ASSUME AnswerFirst(t) PROVE AnswerFirst(u)
  <2> SUFFICES ASSUME NEW i \in 1 .. Len(u), NEW j \in 1 .. Len(u), IsAnswer(u[i]), u[j][1] = "echo"
               PROVE  i < j
    BY DEF AnswerFirst
  <2>1. IsAnswer(t[g[i]]) /\ t[g[j]][1] = "echo"
    BY <1>2
  <2> QED BY <1>2, <1>3, <1>10, <2>1 DEF AnswerFirst
<1> QED BY <1>2, <1>4, <1>5, <1>6, <1>7, <1>8, <1>9, <1>10

(* The same sequence.                                                      *)
LEMMA WithinItself ==
    ASSUME NEW t, Len(t) \in Nat
    PROVE  Within(t, t)
<1> DEFINE g == [i \in 1 .. Len(t) |-> i]
<1>1. g \in [1 .. Len(t) -> 1 .. Len(t)]
  OBVIOUS
<1>2. \A i \in 1 .. Len(t) : t[i] = t[g[i]] /\ \A j \in 1 .. i - 1 : g[j] < g[i]
  OBVIOUS
<1> HIDE DEF g
<1> QED BY <1>1, <1>2 DEF Within

(* Another line at the end.                                                *)
LEMMA OneMoreLine ==
    ASSUME NEW t \in Seq(Line), NEW x \in Line, NEW u, u = Append(t, x)
    PROVE  /\ Len(t) \in Nat /\ Len(u) = Len(t) + 1 /\ u[Len(t) + 1] = x
           /\ \A i \in 1 .. Len(t) : u[i] = t[i]
           /\ \A w : Has(u, w) <=> Has(t, w) \/ x[1] = w
           /\ \A v, w : NoneBehind(t, v, w) /\ (x[1] = w => ~Has(t, v)) => NoneBehind(u, v, w)
           /\ \A w : Single(t, w) /\ (x[1] = w => ~Has(t, w)) => Single(u, w)
           /\ Answering(u) <=> Answering(t) \/ IsAnswer(x)
           /\ OneAnswer(t) /\ (IsAnswer(x) => ~Answering(t)) => OneAnswer(u)
           /\ AnswerFirst(t) /\ (IsAnswer(x) => ~Has(t, "echo")) => AnswerFirst(u)
<1>1. /\ Len(t) \in Nat /\ Len(u) = Len(t) + 1 /\ u[Len(t) + 1] = x
      /\ \A i \in 1 .. Len(t) : u[i] = t[i]
  BY AppendProperties, LenProperties
<1>2. /\ \A w : Has(u, w) <=> Has(t, w) \/ x[1] = w
      /\ \A v, w : NoneBehind(t, v, w) /\ (x[1] = w => ~Has(t, v)) => NoneBehind(u, v, w)
  BY AppendKeeps
<1>3. \A i \in 1 .. Len(u) : (i \in 1 .. Len(t) /\ u[i] = t[i]) \/ (i = Len(t) + 1 /\ u[i] = x)
  BY <1>1
<1>4. \A i \in 1 .. Len(t) : i \in 1 .. Len(u) /\ u[i] = t[i] /\ i < Len(t) + 1
  BY <1>1
<1>5. Len(t) + 1 \in 1 .. Len(u)
  BY <1>1
<1>6. ASSUME NEW w, Single(t, w), x[1] = w => ~Has(t, w) PROVE Single(u, w)
  BY <1>3, <1>6 DEF Single, Has
<1>7. Answering(u) <=> Answering(t) \/ IsAnswer(x)
  BY <1>1, <1>3, <1>4, <1>5 DEF Answering
<1>8. ASSUME OneAnswer(t), IsAnswer(x) => ~Answering(t) PROVE OneAnswer(u)
  BY <1>3, <1>8 DEF OneAnswer, Answering
<1>9. ASSUME AnswerFirst(t), IsAnswer(x) => ~Has(t, "echo"),
             NEW i \in 1 .. Len(u), NEW j \in 1 .. Len(u), IsAnswer(u[i]), u[j][1] = "echo"
      PROVE  i < j
  <2>1. CASE i \in 1 .. Len(t) /\ u[i] = t[i] /\ j \in 1 .. Len(t) /\ u[j] = t[j]
    BY <1>9, <2>1 DEF AnswerFirst
  <2>2. CASE i \in 1 .. Len(t) /\ j = Len(t) + 1
    BY <1>1, <2>2
  <2>3. CASE i = Len(t) + 1 /\ u[i] = x
    <3>1. j # Len(t) + 1
      BY <1>1, <1>9, <2>3 DEF IsAnswer
    <3>2. j \in 1 .. Len(t) /\ u[j] = t[j]
      BY <1>3, <3>1
    <3> QED BY <1>9, <2>3, <3>2 DEF Has
  <2> QED BY <1>3, <2>1, <2>2, <2>3
<1>10. AnswerFirst(t) /\ (IsAnswer(x) => ~Has(t, "echo")) => AnswerFirst(u)
  BY <1>9 DEF AnswerFirst
<1> QED BY <1>1, <1>2, <1>6, <1>7, <1>8, <1>10

(* Another command at the end.                                             *)
LEMMA OneMoreCommand ==
    ASSUME NEW t \in Seq(Piece), NEW c, NEW f, NEW u, u = WithCommand(t, c, f),
           <<c, f, 1>> \in Piece, <<c, f, 2>> \in Piece
    PROVE  /\ u \in Seq(Piece) /\ Len(t) \in Nat /\ Len(u) = Len(t) + 2
           /\ \A i \in 1 .. Len(t) : u[i] = t[i]
           /\ u[Len(t) + 1] = <<c, f, 1>> /\ u[Len(t) + 2] = <<c, f, 2>>
           /\ \A w : \A i \in 1 .. Len(u) : Starts(u, i, w) <=>
                (i \in 1 .. Len(t) /\ Starts(t, i, w)) \/ (i = Len(t) + 1 /\ w = c)
           /\ \A w : Begun(u, w) <=> Begun(t, w) \/ w = c
           /\ \A w : Once(t, w) /\ (w = c => ~Begun(t, w)) => Once(u, w)
           /\ \A v, w : InFront(t, v, w) /\ (v = c => w # c /\ ~Begun(t, w)) => InFront(u, v, w)
<1>1. /\ u \in Seq(Piece) /\ Len(t) \in Nat /\ Len(u) = Len(t) + 2
      /\ \A i \in 1 .. Len(t) : u[i] = t[i]
      /\ u[Len(t) + 1] = <<c, f, 1>> /\ u[Len(t) + 2] = <<c, f, 2>>
  BY PairAdded
<1>2. ASSUME NEW i \in 1 .. Len(u), NEW w
      PROVE  Starts(u, i, w) <=> (i \in 1 .. Len(t) /\ Starts(t, i, w)) \/ (i = Len(t) + 1 /\ w = c)
  <2>1. CASE i \in 1 .. Len(t)
    BY <1>1, <2>1 DEF Starts
  <2>2. CASE i = Len(t) + 1
    <3>1. u[i] = <<c, f, 1>> /\ i \notin 1 .. Len(t)
      BY <1>1, <2>2
    <3> QED BY <2>2, <3>1 DEF Starts
  <2>3. CASE i = Len(t) + 2
    <3>1. u[i] = <<c, f, 2>> /\ i \notin 1 .. Len(t) /\ i # Len(t) + 1
      BY <1>1, <2>3
    <3>2. u[i][3] = 2
      BY <3>1
    <3> QED BY <3>1, <3>2 DEF Starts
  <2> QED BY <1>1, <2>1, <2>2, <2>3
<1>3. (\A i \in 1 .. Len(t) : i \in 1 .. Len(u) /\ i < Len(t) + 1) /\ Len(t) + 1 \in 1 .. Len(u)
  BY <1>1
<1>4. ASSUME NEW w PROVE Begun(u, w) <=> Begun(t, w) \/ w = c
  BY <1>2, <1>3 DEF Begun
<1>5. ASSUME NEW w, Once(t, w), w = c => ~Begun(t, w) PROVE Once(u, w)
  BY <1>2, <1>5 DEF Once, Begun
<1>6. ASSUME NEW v, NEW w, InFront(t, v, w), v = c => w # c /\ ~Begun(t, w),
             NEW i \in 1 .. Len(u), NEW j \in 1 .. Len(u), Starts(u, i, v), Starts(u, j, w)
      PROVE  i < j
  <2>1. (i \in 1 .. Len(t) /\ Starts(t, i, v)) \/ (i = Len(t) + 1 /\ v = c)
    BY <1>2, <1>6
  <2>2. (j \in 1 .. Len(t) /\ Starts(t, j, w)) \/ (j = Len(t) + 1 /\ w = c)
    BY <1>2, <1>6
  <2>3. v = c => ~(j \in 1 .. Len(t) /\ Starts(t, j, w)) /\ w # c
    BY <1>6 DEF Begun
  <2>4. i \in 1 .. Len(t) /\ Starts(t, i, v)
    BY <2>1, <2>2, <2>3
  <2> QED BY <1>3, <1>6, <2>2, <2>4 DEF InFront
<1>7. \A v, w : InFront(t, v, w) /\ (v = c => w # c /\ ~Begun(t, w)) => InFront(u, v, w)
  BY <1>6 DEF InFront
<1> QED BY <1>1, <1>2, <1>4, <1>5, <1>7

(* What the device does when it reads: nothing, or what the first piece    *)
(* says.                                                                   *)
Silent    == UNCHANGED <<pending, txtime, rxcomplete, rxactive, radio>> /\ where' = "read"
Restarted == up' = Append(up, <<"ready">>) /\ ~Active'
Listens   == UNCHANGED <<up, pending, txtime, rxcomplete>> /\ rxactive' /\ where' = "read"
Sends(f)  == UNCHANGED up /\ pending' /\ txtime' = f /\ where' = "read"

Does(w, f) == \/ w = "reset" /\ Restarted
              \/ w = "echo"  /\ Silent /\ up' = Append(up, <<"echo">>)
              \/ w = "eui"   /\ Silent /\ up' = Append(up, <<"eui">>)
              \/ w = "rx"    /\ Listens
              \/ w = "tx"    /\ Sends(f)

DoesNothing == Silent /\ UNCHANGED up

LEMMA Does1 ==
    ASSUME NEW buf \in Seq(Piece), NEW rest, Execute(buf, rest)
    PROVE  \/ /\ clibuf' = rest /\ down' = Tail(down) /\ DoesNothing
              /\ ~(Len(buf) = 2 /\ buf[1] = <<"reset", None, 1>> /\ buf[2] = <<"reset", None, 2>>)
           \/ /\ Len(buf) >= 1 /\ buf[1][3] = 1 /\ buf[1][1] = "reset" /\ Restarted
              /\ clibuf' = << >> /\ \E n \in 1 .. Len(down) : down' = SubSeq(down, n + 1, Len(down))
           \/ /\ Len(buf) >= 1 /\ buf[1][3] = 1 /\ buf[1][1] # "reset" /\ Does(buf[1][1], buf[1][2])
              /\ clibuf' = rest /\ down' = Tail(down)
<1>1. PICK m \in Meanings(buf) :
        \/ m[1] = "reset" /\ fn_reset
        \/ /\ m[1] # "reset"
           /\ \/ m[1] = "echo" /\ fn_echo(Whole(buf))
              \/ m[1] = "eui"  /\ fn_config_eui
              \/ m[1] = "rx"   /\ fn_rx
              \/ m[1] = "tx"   /\ fn_tx(m[2])
              \/ m[1] = ""     /\ UNCHANGED <<up, echo, pending, txcomplete, rxcomplete, txtime, rxtime, rxactive, radio>>
           /\ down' = Tail(down) /\ clibuf' = rest /\ where' = "read"
  BY DEF Execute
<1>2. m[1] # "" => Len(buf) >= 1 /\ m = buf[1] /\ buf[1][3] = 1
  <2>1. CASE buf # << >> /\ Whole(buf)
    <3>1. m = buf[1] /\ Len(buf) = 2 /\ buf = Pieces([cmd |-> buf[1][1], frame |-> buf[1][2]])
      BY <2>1 DEF Meanings, Whole
    <3>2. PICK x : x = <<buf[1][1], buf[1][2], 1>> /\ Pieces([cmd |-> buf[1][1], frame |-> buf[1][2]])[1] = x
      BY DEF Pieces
    <3>3. buf[1] = x
      BY ONLY <3>1, <3>2
    <3>4. x[3] = 1
      BY <3>2
    <3>5. 2 >= 1
      OBVIOUS
    <3> QED BY ONLY <3>1, <3>3, <3>4, <3>5
  <2>2. CASE ~(buf # << >> /\ Whole(buf))
    <3>1. m = <<"">> \/ m \in {p \in {buf[i] : i \in DOMAIN buf \intersect {1}} : p[3] = 1}
      BY <2>2 DEF Meanings
    <3>2. CASE m = <<"">>
      BY <3>2
    <3>3. CASE m \in {p \in {buf[i] : i \in DOMAIN buf \intersect {1}} : p[3] = 1}
      <4>1. 1 \in DOMAIN buf /\ m = buf[1] /\ m[3] = 1
        BY <3>3
      <4>2. 1 \in 1 .. Len(buf) /\ Len(buf) \in Nat
        BY <4>1, LenProperties
      <4>3. Len(buf) >= 1
        BY <4>2
      <4> QED BY <4>1, <4>3
    <3> QED BY <3>1, <3>2, <3>3
  <2> QED BY <2>1, <2>2
<1>3. CASE m[1] = "reset" /\ fn_reset
  <2>1. Restarted /\ clibuf' = << >> /\ \E n \in 1 .. Len(down) : down' = SubSeq(down, n + 1, Len(down))
    BY <1>3 DEF fn_reset, cli_init, Restarted, Active
  <2> QED BY <1>2, <1>3, <2>1
<1>5. m[1] # "reset" => ~(Len(buf) = 2 /\ buf[1] = <<"reset", None, 1>> /\ buf[2] = <<"reset", None, 2>>)
  <2>1. ASSUME Len(buf) = 2, buf[1] = <<"reset", None, 1>>, buf[2] = <<"reset", None, 2>>
        PROVE  m[1] = "reset"
    <3>1. buf[2][3] = 2 /\ buf[1] = <<buf[2][1], buf[2][2], 1>>
      BY <2>1
    <3>2. m = buf[1]
      BY <2>1, <3>1, WholeMeanings
    <3> QED BY <2>1, <3>2
  <2> QED BY <2>1
<1>4. CASE m[1] # "reset"
  <2>0. down' = Tail(down) /\ clibuf' = rest /\ where' = "read"
    BY <1>1, <1>4
  <2>1. CASE m[1] = "echo" /\ fn_echo(Whole(buf))
    <3>1. DoesNothing \/ Does(m[1], m[2])
      BY <2>0, <2>1 DEF fn_echo, Does, DoesNothing, Silent
    <3> QED BY <1>2, <1>4, <1>5, <2>0, <2>1, <3>1
  <2>2. CASE m[1] = "eui"  /\ fn_config_eui
    <3>1. Does(m[1], m[2])
      BY <2>0, <2>2 DEF fn_config_eui, Does, Silent
    <3> QED BY <1>2, <1>4, <2>0, <2>2, <3>1
  <2>3. CASE m[1] = "rx"   /\ fn_rx
    <3>1. Does(m[1], m[2])
      BY <2>0, <2>3 DEF fn_rx, Does, Listens
    <3> QED BY <1>2, <1>4, <2>0, <2>3, <3>1
  <2>4. CASE m[1] = "tx"   /\ fn_tx(m[2])
    <3>1. Does(m[1], m[2])
      BY <2>0, <2>4 DEF fn_tx, Does, Sends
    <3> QED BY <1>2, <1>4, <2>0, <2>4, <3>1
  <2>5. CASE m[1] = ""     /\ UNCHANGED <<up, echo, pending, txcomplete, rxcomplete, txtime, rxtime, rxactive, radio>>
    BY <1>4, <1>5, <2>0, <2>5 DEF DoesNothing, Silent
  <2> QED BY <1>1, <1>4, <2>1, <2>2, <2>3, <2>4, <2>5
<1> QED BY <1>1, <1>3, <1>4

(* The device reads: k pieces are gone.  A whole reset is never skipped.    *)
LEMMA Reads ==
    ASSUME TypeInv, TypeInv', BufferInv, cli_read
    PROVE  /\ \A i \in 1 .. Len(clibuf') : clibuf'[i][3] = 1 /\ (clibuf'[i][1] = "reset" => i = 1)
           /\ \E k \in 0 .. Len(Todo) :
                /\ Behind(Todo', Todo, k)
                /\ DoesNothing \/ (k >= 1 /\ Todo[1][3] = 1 /\ Does(Todo[1][1], Todo[1][2]))
                /\ \A j \in 1 .. k : ResetAt(Todo, j) => Restarted
<1>1. down # << >> /\ Rest' = Rest
  BY DEF cli_read, driver, Rest, Pieces
<1>2. PICK b \in Seq(Piece), d \in Seq(Piece), r \in Seq(Piece), t \in Seq(Piece) :
        /\ b = clibuf /\ d = down /\ r = Rest /\ t = Todo /\ t = (b \o d) \o r
  BY TodoShape
<1>3. PICK b1 \in Seq(Piece), d1 \in Seq(Piece), u \in Seq(Piece) :
        /\ b1 = clibuf' /\ d1 = down' /\ u = Todo' /\ u = (b1 \o d1) \o r
  BY <1>1, <1>2, TodoShape
<1>4. /\ Len(b) \in Nat /\ Len(d) \in Nat /\ Len(t) \in Nat
      /\ Len(t) = Len(b) + Len(d) + Len(r) /\ Len(r) \in Nat
      /\ \A i \in 1 .. Len(b) : t[i] = b[i]
      /\ \A i \in 1 .. Len(d) : t[Len(b) + i] = d[i]
      /\ \A i \in 1 .. Len(r) : t[Len(b) + Len(d) + i] = r[i]
  BY <1>2, Joined, LenProperties
<1>5. /\ Len(d) >= 1 /\ Head(d) = d[1] /\ Tail(d) \in Seq(Piece)
      /\ Behind(Tail(d), d, 1)
  <2>1. d # << >> /\ Len(d) # 0
    BY <1>1, <1>2, EmptySeq
  <2>2. /\ Head(d) = d[1] /\ Tail(d) \in Seq(Piece) /\ Len(Tail(d)) = Len(d) - 1
        /\ \A i \in 1 .. Len(Tail(d)) : Tail(d)[i] = d[i + 1]
    BY <2>1, HeadTailProperties
  <2>3. Behind(Tail(d), d, 1)
    BY <1>4, <2>1, <2>2 DEF Behind
  <2> QED BY <1>4, <2>1, <2>2, <2>3
<1>6. PICK p \in Piece : p = d[1]
  <2>1. 1 \in 1 .. Len(d)
    BY <1>4, <1>5
  <2> QED BY <2>1, ElementOfSeq
<1>7. p[3] \in {1, 2} /\ t[Len(b) + 1] = p
  <2>1. p[3] \in {1, 2}
    BY <1>6 DEF Piece
  <2>2. 1 \in 1 .. Len(d)
    BY <1>4, <1>5
  <2> QED BY <1>4, <1>6, <2>1, <2>2
<1>8. \A i \in 1 .. Len(b) : b[i][3] = 1 /\ (b[i][1] = "reset" => i = 1)
  BY <1>2 DEF BufferInv
<1>9. ASSUME NEW j \in 1 .. Len(b) + 1, ResetAt(t, j), j = Len(b) + 1 => p[3] = 2
      PROVE  Len(b) = 1 /\ b[1] = <<"reset", None, 1>> /\ p = <<"reset", None, 2>>
  <2>1. j + 1 \in 1 .. Len(t) /\ t[j] = <<"reset", None, 1>> /\ t[j + 1] = <<"reset", None, 2>>
    BY <1>4, <1>9 DEF ResetAt
  <2>2. t[j][3] = 1 /\ t[j][1] = "reset" /\ t[j + 1][3] = 2
    BY <2>1
  <2>3. j \in 1 .. Len(b)
    <3>1. j = Len(b) + 1 => p[3] = 1
      BY <1>7, <2>2
    <3> QED BY <1>4, <1>9, <3>1
  <2>4. j = 1 /\ b[1] = <<"reset", None, 1>>
    BY <1>4, <1>8, <2>1, <2>2, <2>3
  <2>5. t[2][3] = 2 /\ t[2] = <<"reset", None, 2>>
    BY <2>1, <2>2, <2>4
  <2>6. ~(2 \in 1 .. Len(b))
    <3>1. \A i \in 1 .. Len(b) : t[i][3] = 1
      BY <1>4, <1>8
    <3>2. 2 # 1
      OBVIOUS
    <3>3. 2 \in 1 .. Len(b) => t[2][3] = 1
      BY <3>1
    <3> QED BY ONLY <2>5, <3>2, <3>3
  <2>7. PICK n \in Nat : n = Len(b)
    BY <1>4
  <2>8. n = 1
    <3>1. ~(2 \in 1 .. n) /\ 1 \in 1 .. n
      BY <2>3, <2>4, <2>6, <2>7
    <3> QED BY ONLY <2>7, <3>1
  <2>9. p = <<"reset", None, 2>>
    <3>1. Len(b) + 1 = 2
      BY <2>7, <2>8
    <3> QED BY <1>7, <2>5, <3>1
  <2> QED BY <2>4, <2>7, <2>8, <2>9
<1>10. ASSUME NEW n, Behind(d1, d, n), Len(b1) <= n, \A i \in 1 .. Len(b1) : b1[i] = d[n - Len(b1) + i]
       PROVE  Behind(u, t, Len(b) + n - Len(b1))
  BY <1>2, <1>3, <1>10, Fewer
(* A reset leaves nothing of the buffer.                                   *)
<1>11. ASSUME NEW buf \in Seq(Piece), Len(buf) >= 1, t[1] = buf[1], buf[1][3] = 1, buf[1][1] = "reset",
              Restarted, b1 = << >>, NEW n \in 1 .. Len(d), d1 = SubSeq(d, n + 1, Len(d))
       PROVE  \E k \in 0 .. Len(t) :
                /\ Behind(u, t, k)
                /\ k >= 1 /\ t[1][3] = 1 /\ Does(t[1][1], t[1][2])
                /\ \A j \in 1 .. k : ResetAt(t, j) => Restarted
  <2>1. n \in 0 .. Len(d)
    BY <1>4
  <2>2. Behind(d1, d, n)
    <3>1. /\ Len(d1) = Len(d) - n
          /\ \A i \in 1 .. Len(d) - n : d1[i] = d[n + i]
      BY <1>11, <2>1, Suffix
    <3>2. ASSUME NEW i \in 1 .. Len(d1) PROVE d1[i] = d[i + n]
      <4>1. i \in 1 .. Len(d) - n /\ n + i = i + n
        BY <1>4, <2>1, <3>1
      <4> QED BY <3>1, <4>1
    <3> QED BY <2>1, <3>1, <3>2 DEF Behind
  <2>3. Len(b1) = 0
    BY <1>11, EmptySeq
  <2>4. Behind(u, t, Len(b) + n - Len(b1))
    <3>1. Len(b1) <= n /\ \A i \in 1 .. Len(b1) : b1[i] = d[n - Len(b1) + i]
      BY <2>1, <2>3
    <3> QED BY <1>2, <1>3, <2>2, <3>1, Fewer
  <2>5. PICK k : k = Len(b) + n - Len(b1)
    OBVIOUS
  <2>6. k >= 1 /\ k \in 0 .. Len(t)
    BY <1>4, <2>3, <2>4, <2>5 DEF Behind
  <2>7. Does(t[1][1], t[1][2])
    BY <1>11 DEF Does
  <2> QED BY <1>11, <2>4, <2>5, <2>6, <2>7
<1>12. CASE p[1] = "reset" /\ p[3] = 1
  <2>1. Execute(b, <<p>>)
    BY <1>2, <1>5, <1>6, <1>12 DEF cli_read
  <2>2. \/ b1 = <<p>> /\ d1 = Tail(d) /\ DoesNothing
        \/ /\ Len(b) >= 1 /\ b[1][3] = 1 /\ b[1][1] = "reset" /\ Restarted
           /\ b1 = << >> /\ \E n \in 1 .. Len(d) : d1 = SubSeq(d, n + 1, Len(d))
        \/ /\ Len(b) >= 1 /\ b[1][3] = 1 /\ b[1][1] # "reset" /\ Does(b[1][1], b[1][2])
           /\ b1 = <<p>> /\ d1 = Tail(d)
    BY <1>2, <1>3, <2>1, Does1
  <2>3. b1 = << >> \/ b1 = <<p>>
    BY <2>2
  <2>4. \A i \in 1 .. Len(b1) : b1[i][3] = 1 /\ (b1[i][1] = "reset" => i = 1)
    <3>1. CASE b1 = << >>
      BY <3>1
    <3>2. CASE b1 = <<p>>
      BY <1>12, <3>2
    <3> QED BY <2>3, <3>1, <3>2
  <2>5. Len(b) >= 1 => t[1] = b[1]
    <3>1. Len(b) >= 1 => 1 \in 1 .. Len(b)
      BY <1>4
    <3> QED BY <1>4, <3>1
  <2>6. CASE b1 = <<p>> /\ d1 = Tail(d)
    <3>1. Behind(u, t, Len(b) + 1 - Len(b1))
      <4>1. Len(b1) = 1 /\ b1[1] = p
        BY <2>6
      <4>2. ASSUME NEW i \in 1 .. Len(b1) PROVE b1[i] = d[1 - Len(b1) + i]
        <5>1. i = 1 /\ 1 - Len(b1) + i = 1
          BY <4>1
        <5> QED BY <1>6, <4>1, <5>1
      <4>3. Behind(d1, d, 1) /\ Len(b1) <= 1
        BY <1>5, <2>6, <4>1
      <4> QED BY ONLY <1>10, <4>2, <4>3
    <3>2. Len(b) + 1 - Len(b1) = Len(b)
      <4>1. Len(b1) = 1
        BY <2>6
      <4> QED BY <1>4, <4>1
    <3>3. Behind(u, t, Len(b)) /\ Len(b) \in 0 .. Len(t)
      BY <1>4, <3>1, <3>2
    <3>4. ASSUME NEW j \in 1 .. Len(b), ResetAt(t, j) PROVE FALSE
      <4>1. p[3] = 2
        <5>1. j \in 1 .. Len(b) + 1 /\ j # Len(b) + 1
          BY <1>4
        <5>2. p = <<"reset", None, 2>>
          BY <1>9, <3>4, <5>1
        <5> QED BY <5>2
      <4> QED BY <1>12, <4>1
    <3>5. DoesNothing \/ (Len(b) >= 1 /\ t[1][3] = 1 /\ Does(t[1][1], t[1][2]))
      <4>1. DoesNothing \/ (Len(b) >= 1 /\ b[1][3] = 1 /\ Does(b[1][1], b[1][2]))
        BY <2>2 DEF Does
      <4> QED BY <2>5, <4>1
    <3> QED BY <1>2, <1>3, <2>4, <3>3, <3>4, <3>5
  <2>7. CASE /\ Len(b) >= 1 /\ b[1][3] = 1 /\ b[1][1] = "reset" /\ Restarted
             /\ b1 = << >> /\ \E n \in 1 .. Len(d) : d1 = SubSeq(d, n + 1, Len(d))
    <3>1. PICK n \in 1 .. Len(d) : d1 = SubSeq(d, n + 1, Len(d))
      BY <2>7
    <3>2. PICK k \in 0 .. Len(t) : /\ Behind(u, t, k)
                                   /\ k >= 1 /\ t[1][3] = 1 /\ Does(t[1][1], t[1][2])
                                   /\ \A j \in 1 .. k : ResetAt(t, j) => Restarted
      BY <1>11, <2>5, <2>7, <3>1
    <3> QED BY <1>2, <1>3, <2>4, <3>2
  <2> QED BY <2>2, <2>6, <2>7
<1>13. CASE p[3] = 2
  <2> DEFINE a == Append(b, p)
  <2>1. Execute(a, << >>)
    BY <1>2, <1>5, <1>6, <1>13 DEF cli_read
  <2>2. /\ a \in Seq(Piece) /\ Len(a) = Len(b) + 1 /\ a[Len(b) + 1] = p
        /\ \A i \in 1 .. Len(b) : a[i] = b[i]
    BY <1>6, AppendProperties
  <2> HIDE DEF a
  <2>3. \/ /\ b1 = << >> /\ d1 = Tail(d) /\ DoesNothing
           /\ ~(Len(a) = 2 /\ a[1] = <<"reset", None, 1>> /\ a[2] = <<"reset", None, 2>>)
        \/ /\ Len(a) >= 1 /\ a[1][3] = 1 /\ a[1][1] = "reset" /\ Restarted
           /\ b1 = << >> /\ \E n \in 1 .. Len(d) : d1 = SubSeq(d, n + 1, Len(d))
        \/ /\ Len(a) >= 1 /\ a[1][3] = 1 /\ a[1][1] # "reset" /\ Does(a[1][1], a[1][2])
           /\ b1 = << >> /\ d1 = Tail(d)
    BY <1>2, <1>3, <2>1, <2>2, Does1
  <2>4. b1 = << >> /\ \A i \in 1 .. Len(b1) : b1[i][3] = 1 /\ (b1[i][1] = "reset" => i = 1)
    <3>1. b1 = << >>
      BY <2>3
    <3>2. Len(b1) = 0
      BY <3>1, EmptySeq
    <3> QED BY <3>1, <3>2
  <2>5. t[1] = a[1]
    <3>1. CASE Len(b) >= 1
      <4>1. 1 \in 1 .. Len(b)
        BY <1>4, <3>1
      <4> QED BY <1>4, <2>2, <4>1
    <3>2. CASE Len(b) = 0
      BY <1>7, <2>2, <3>2
    <3> QED BY <1>4, <3>1, <3>2
  <2>6. CASE d1 = Tail(d) /\ \/ /\ DoesNothing
                                /\ ~(Len(a) = 2 /\ a[1] = <<"reset", None, 1>> /\ a[2] = <<"reset", None, 2>>)
                             \/ Len(a) >= 1 /\ a[1][3] = 1 /\ a[1][1] # "reset" /\ Does(a[1][1], a[1][2])
    <3>1. Behind(u, t, Len(b) + 1 - Len(b1))
      <4>1. Len(b1) = 0
        BY <2>4, EmptySeq
      <4>2. Behind(d1, d, 1) /\ Len(b1) <= 1 /\ \A i \in 1 .. Len(b1) : b1[i] = d[1 - Len(b1) + i]
        BY <1>5, <2>6, <4>1
      <4> QED BY ONLY <1>10, <4>2
    <3>2. PICK k : k = Len(b) + 1
      OBVIOUS
    <3>3. Behind(u, t, k) /\ k \in 0 .. Len(t) /\ k >= 1
      <4>1. Len(b1) = 0
        BY <2>4, EmptySeq
      <4> QED BY <1>4, <1>5, <3>1, <3>2, <4>1
    <3>4. ASSUME NEW j \in 1 .. k, ResetAt(t, j) PROVE FALSE
      <4>1. Len(b) = 1 /\ b[1] = <<"reset", None, 1>> /\ p = <<"reset", None, 2>>
        BY <1>9, <1>13, <3>2, <3>4
      <4>2. Len(a) = 2 /\ a[1] = <<"reset", None, 1>> /\ a[2] = <<"reset", None, 2>>
        <5>1. 1 \in 1 .. Len(b) /\ Len(b) + 1 = 2
          BY <4>1
        <5> QED BY <2>2, <4>1, <5>1
      <4>3. a[1][1] = "reset"
        BY <4>2
      <4> QED BY <2>6, <4>2, <4>3
    <3>5. DoesNothing \/ (k >= 1 /\ t[1][3] = 1 /\ Does(t[1][1], t[1][2]))
      BY <2>5, <2>6, <3>3
    <3> QED BY <1>2, <1>3, <2>4, <3>3, <3>4, <3>5
  <2>7. CASE /\ Len(a) >= 1 /\ a[1][3] = 1 /\ a[1][1] = "reset" /\ Restarted
             /\ b1 = << >> /\ \E n \in 1 .. Len(d) : d1 = SubSeq(d, n + 1, Len(d))
    <3>1. PICK n \in 1 .. Len(d) : d1 = SubSeq(d, n + 1, Len(d))
      BY <2>7
    <3>2. PICK k \in 0 .. Len(t) : /\ Behind(u, t, k)
                                   /\ k >= 1 /\ t[1][3] = 1 /\ Does(t[1][1], t[1][2])
                                   /\ \A j \in 1 .. k : ResetAt(t, j) => Restarted
      BY <1>11, <2>2, <2>5, <2>7, <3>1
    <3> QED BY <1>2, <1>3, <2>4, <3>2
  <2> QED BY <2>3, <2>6, <2>7
<1>14. CASE p[3] = 1 /\ p[1] # "reset"
  <2>1. b1 = Append(b, p) /\ d1 = Tail(d) /\ DoesNothing
    BY <1>2, <1>3, <1>5, <1>6, <1>14 DEF cli_read, DoesNothing, Silent
  <2>2. /\ Len(b1) = Len(b) + 1 /\ b1[Len(b) + 1] = p
        /\ \A i \in 1 .. Len(b) : b1[i] = b[i]
    BY <1>6, <2>1, AppendProperties
  <2>3. \A i \in 1 .. Len(b1) : b1[i][3] = 1 /\ (b1[i][1] = "reset" => i = 1)
    <3>1. \A i \in 1 .. Len(b1) : i \in 1 .. Len(b) \/ i = Len(b) + 1
      BY <1>4, <2>2
    <3> QED BY <1>8, <1>14, <2>2, <3>1
  <2>4. Behind(u, t, 0)
    <3>1. /\ Len(b1) \in Nat /\ Len(d1) \in Nat
          /\ Len(u) = Len(b1) + Len(d1) + Len(r)
          /\ \A i \in 1 .. Len(b1) : u[i] = b1[i]
          /\ \A i \in 1 .. Len(d1) : u[Len(b1) + i] = d1[i]
          /\ \A i \in 1 .. Len(r) : u[Len(b1) + Len(d1) + i] = r[i]
      BY <1>3, Joined
    <3>2. Len(d1) = Len(d) - 1 /\ \A i \in 1 .. Len(d1) : d1[i] = d[i + 1]
      BY <1>5, <2>1 DEF Behind
    <3>3. Len(u) = Len(t) /\ Len(b1) + Len(d1) = Len(b) + Len(d)
      BY <1>4, <2>2, <3>1, <3>2
    <3>4. ASSUME NEW i \in 1 .. Len(u) PROVE u[i] = t[i]
      <4>1. CASE i \in 1 .. Len(b)
        <5>1. i \in 1 .. Len(b1)
          BY <1>4, <2>2, <4>1
        <5> QED BY <1>4, <2>2, <3>1, <4>1, <5>1
      <4>2. CASE i = Len(b) + 1
        <5>1. i \in 1 .. Len(b1)
          BY <1>4, <2>2, <4>2
        <5> QED BY <1>7, <2>2, <3>1, <4>2, <5>1
      <4>3. CASE i \in Len(b1) + 1 .. Len(b1) + Len(d1)
        <5>1. PICK h \in 1 .. Len(d1) : i = Len(b1) + h
          <6>1. i - Len(b1) \in 1 .. Len(d1) /\ i = Len(b1) + (i - Len(b1))
            BY <3>1, <4>3
          <6> QED BY <6>1
        <5>2. PICK g \in 1 .. Len(d) : g = h + 1
          BY <1>4, <3>2
        <5>3. u[i] = d[g] /\ i = Len(b) + g
          BY <1>4, <2>2, <3>1, <3>2, <5>1, <5>2
        <5> QED BY <1>4, <5>3
      <4>4. CASE i \in Len(b) + Len(d) + 1 .. Len(t)
        <5>1. PICK h \in 1 .. Len(r) : i = Len(b) + Len(d) + h
          <6>1. i - (Len(b) + Len(d)) \in 1 .. Len(r) /\ i = Len(b) + Len(d) + (i - (Len(b) + Len(d)))
            BY <1>4, <4>4
          <6> QED BY <6>1
        <5>2. u[i] = r[h]
          BY <3>1, <3>3, <5>1
        <5> QED BY <1>4, <5>1, <5>2
      <4>5. i \in 1 .. Len(b) \/ i = Len(b) + 1 \/ i \in Len(b1) + 1 .. Len(b1) + Len(d1) \/ i \in Len(b) + Len(d) + 1 .. Len(t)
        BY <1>4, <2>2, <3>1, <3>3
      <4> QED BY <4>1, <4>2, <4>3, <4>4, <4>5
    <3> QED BY <1>4, <3>3, <3>4 DEF Behind
  <2>5. \A j \in 1 .. 0 : ResetAt(Todo, j) => Restarted
    OBVIOUS
  <2>6. 0 \in 0 .. Len(t)
    BY <1>4
  <2> QED BY <1>2, <1>3, <2>1, <2>3, <2>4, <2>5, <2>6
<1> QED BY <1>7, <1>12, <1>13, <1>14

-----------------------------------------------------------------------------
(* What a step makes of all that the device has still to execute.  Most    *)
(* leave it as it is.                                                      *)
LEMMA TodoStays ==
    ASSUME TypeInv, TypeInv', BufferInv,
           \/ TxWorker \/ Receiver \/ cli_read_end \/ Printing \/ txrx_txdone \/ txrx_rxdone
           \/ ttytail_stop \/ Register \/ Timeout \/ LoseLine \/ UNCHANGED vars
    PROVE  /\ Todo' = Todo /\ UNCHANGED clibuf /\ line'.cmd = line.cmd
           /\ wrote' # 0 => Counting'
<1>1. CASE WorkerWrite \/ WorkerCount
  <2>1. wrote # 0 => Counting
    BY DEF BufferInv
  <2> QED BY <1>1, <2>1, WritingKeeps DEF WorkerWrite, WorkerCount, cli
<1>2. CASE ttytail_write_wakeup \/ ttytail_stop
  <2>1. UNCHANGED <<line, clibuf, down>> /\ ~Counting
    BY <1>2 DEF ttytail_write_wakeup, ttytail_stop, Counting, cli
  <2>2. wrote = 0
    BY <2>1 DEF BufferInv
  <2>3. wrote' = 0
    BY <1>2, <2>1, <2>2 DEF ttytail_write_wakeup, Schedule, ttytail_stop
  <2> QED BY <2>1, <2>2, <2>3 DEF Todo, Rest, Pieces
<1>3. CASE \/ Receiver \/ cli_read_end \/ Printing \/ txrx_txdone \/ txrx_rxdone
           \/ Register \/ Timeout \/ LoseLine \/ UNCHANGED vars
  <2>1. UNCHANGED <<line, wrote, work, clibuf, down>>
    BY <1>3 DEF Receiver, RxReady, RxEcho, ttytail_rx_eui64, ttytail_rx_packet, ttytail_rx_timestamp, Received,
                cli_read_end, Printing, tx_poll, PrintPacket, PrintTime, txrx_txdone, txrx_rxdone,
                Register, Timeout, Advance, LoseLine, vars, driver, cli
  <2> QED BY <2>1 DEF Todo, Rest, Pieces, BufferInv, Counting
<1> QED BY <1>1, <1>2, <1>3 DEF TxWorker

(* The first pieces are lost when the device starts again.                 *)
LEMMA TodoRestarted ==
    ASSUME TypeInv, TypeInv', Restart
    PROVE  \E k \in 0 .. Len(Todo) : Behind(Todo', Todo, k)
<1>1. Rest' = Rest /\ clibuf' = << >>
  BY DEF Restart, cli_init, driver, Rest, Pieces
<1>2. PICK b \in Seq(Piece), d \in Seq(Piece), r \in Seq(Piece), t \in Seq(Piece) :
        /\ b = clibuf /\ d = down /\ r = Rest /\ t = Todo /\ t = (b \o d) \o r
  BY TodoShape
<1>3. PICK b1 \in Seq(Piece), d1 \in Seq(Piece), u \in Seq(Piece) :
        /\ b1 = clibuf' /\ d1 = down' /\ u = Todo' /\ u = (b1 \o d1) \o r
  BY <1>1, <1>2, TodoShape
<1>4. Len(b) \in Nat /\ Len(d) \in Nat /\ Len(b1) = 0
  BY <1>1, <1>3, LenProperties, EmptySeq
<1>5. PICK n \in 0 .. Len(d) : d1 = SubSeq(d, n + 1, Len(d))
  BY <1>2, <1>3 DEF Restart
<1>6. Behind(d1, d, n)
  <2>1. /\ Len(d1) = Len(d) - n
        /\ \A i \in 1 .. Len(d) - n : d1[i] = d[n + i]
    BY <1>5, Suffix
  <2>2. ASSUME NEW i \in 1 .. Len(d1) PROVE d1[i] = d[i + n]
    <3>1. i \in 1 .. Len(d) - n /\ n + i = i + n
      BY <1>4, <1>5, <2>1
    <3> QED BY <2>1, <3>1
  <2> QED BY <1>5, <2>1, <2>2 DEF Behind
<1>7. Behind(u, t, Len(b) + n - Len(b1))
  <2>1. Len(b1) <= n /\ \A i \in 1 .. Len(b1) : b1[i] = d[n - Len(b1) + i]
    BY <1>4, <1>5
  <2> QED BY <1>2, <1>3, <1>6, <2>1, Fewer
<1>8. PICK k : k = Len(b) + n - Len(b1)
  OBVIOUS
<1> QED BY <1>2, <1>3, <1>7, <1>8 DEF Behind

(* A piece is lost in between.                                             *)
LEMMA WithinJoined ==
    ASSUME NEW b \in Seq(Piece), NEW d \in Seq(Piece), NEW r \in Seq(Piece),
           NEW d1 \in Seq(Piece), NEW k \in 1 .. Len(d), d1 = RemoveAt(d, k),
           NEW t, t = (b \o d) \o r, NEW u, u = (b \o d1) \o r
    PROVE  Within(u, t)
<1>1. /\ Len(b) \in Nat /\ Len(d) \in Nat /\ Len(r) \in Nat
      /\ Len(t) = Len(b) + Len(d) + Len(r)
      /\ \A i \in 1 .. Len(b) : t[i] = b[i]
      /\ \A i \in 1 .. Len(d) : t[Len(b) + i] = d[i]
      /\ \A i \in 1 .. Len(r) : t[Len(b) + Len(d) + i] = r[i]
  BY Joined
<1>2. /\ Len(d1) \in Nat
      /\ Len(u) = Len(b) + Len(d1) + Len(r)
      /\ \A i \in 1 .. Len(b) : u[i] = b[i]
      /\ \A i \in 1 .. Len(d1) : u[Len(b) + i] = d1[i]
      /\ \A i \in 1 .. Len(r) : u[Len(b) + Len(d1) + i] = r[i]
  BY Joined
<1>3. /\ Len(d1) = Len(d) - 1
      /\ \A j \in 1 .. Len(d) - 1 : d1[j] = d[IF j < k THEN j ELSE j + 1]
  BY Removed
<1>4. PICK h : h = Len(b) + k
  OBVIOUS
<1>5. h \in 1 .. Len(t) /\ Len(u) = Len(t) - 1
  BY <1>1, <1>2, <1>3, <1>4
<1>6. ASSUME NEW i \in 1 .. Len(u) PROVE u[i] = t[IF i < h THEN i ELSE i + 1]
  <2>0. i \in 1 .. Len(u)
    OBVIOUS
  <2>1. CASE i \in 1 .. Len(b)
    <3>1. i < h
      BY <1>1, <1>4, <2>1
    <3> QED BY <1>1, <1>2, <2>1, <3>1
  <2>2. CASE i \in Len(b) + 1 .. Len(b) + Len(d1)
    <3>1. PICK j \in 1 .. Len(d1) : i = Len(b) + j
      <4>1. i - Len(b) \in 1 .. Len(d1) /\ i = Len(b) + (i - Len(b))
        BY <1>1, <1>2, <2>2
      <4> QED BY <4>1
    <3>2. PICK g \in 1 .. Len(d) : g = IF j < k THEN j ELSE j + 1
      BY <1>1, <1>3
    <3>3. u[i] = d[g]
      BY <1>1, <1>2, <1>3, <3>1, <3>2
    <3>4. (IF i < h THEN i ELSE i + 1) = Len(b) + g
      BY <1>1, <1>4, <3>1, <3>2
    <3> QED BY <1>1, <3>3, <3>4
  <2>3. CASE i \in Len(b) + Len(d1) + 1 .. Len(u)
    <3>1. PICK j \in 1 .. Len(r) : i = Len(b) + Len(d1) + j
      <4>1. i - (Len(b) + Len(d1)) \in 1 .. Len(r) /\ i = Len(b) + Len(d1) + (i - (Len(b) + Len(d1)))
        BY <1>1, <1>2, <2>3
      <4> QED BY <4>1
    <3>2. (IF i < h THEN i ELSE i + 1) = Len(b) + Len(d) + j
      BY <1>1, <1>3, <1>4, <3>1
    <3>3. u[i] = r[j] /\ t[Len(b) + Len(d) + j] = r[j]
      BY ONLY <1>1, <1>2, <3>1
    <3> QED BY ONLY <3>2, <3>3
  <2>4. i \in 1 .. Len(b) \/ i \in Len(b) + 1 .. Len(b) + Len(d1) \/ i \in Len(b) + Len(d1) + 1 .. Len(u)
    BY ONLY <1>1, <1>2, <2>0
  <2> QED BY ONLY <2>1, <2>2, <2>3, <2>4
<1> DEFINE g == [i \in 1 .. Len(u) |-> IF i < h THEN i ELSE i + 1]
<1>7. g \in [1 .. Len(u) -> 1 .. Len(t)]
  <2>1. Len(t) \in Nat /\ Len(u) \in Nat
    BY ONLY <1>1, <1>2
  <2> QED BY ONLY <1>5, <2>1
<1>8. \A i \in 1 .. Len(u) : u[i] = t[g[i]] /\ \A j \in 1 .. i - 1 : g[j] < g[i]
  <2>1. Len(t) \in Nat /\ Len(u) \in Nat
    BY ONLY <1>1, <1>2
  <2> QED BY ONLY <1>5, <1>6, <2>1
<1> HIDE DEF g
<1> QED BY <1>7, <1>8 DEF Within

LEMMA TodoLost ==
    ASSUME TypeInv, TypeInv', LoseInput
    PROVE  Within(Todo', Todo)
<1>1. Rest' = Rest /\ clibuf' = clibuf
  BY DEF LoseInput, driver, cli, Rest, Pieces
<1>2. PICK b \in Seq(Piece), d \in Seq(Piece), r \in Seq(Piece), t \in Seq(Piece) :
        /\ b = clibuf /\ d = down /\ r = Rest /\ t = Todo /\ t = (b \o d) \o r
  BY TodoShape
<1>3. PICK d1 \in Seq(Piece), u \in Seq(Piece) :
        d1 = down' /\ u = Todo' /\ u = (b \o d1) \o r
  BY <1>1, <1>2, TodoShape
<1>4. PICK k \in 1 .. Len(d) : d1 = RemoveAt(d, k)
  BY <1>2, <1>3, LenProperties DEF LoseInput
<1> QED BY <1>2, <1>3, <1>4, WithinJoined

(* What begins among the pieces that are left, and where a reset is.       *)
LEMMA BehindCommands ==
    ASSUME NEW u, NEW t, Len(u) \in Nat, Len(t) \in Nat, NEW k, Behind(u, t, k)
    PROVE  /\ Within(u, t)
           /\ \A i \in 1 .. Len(u) : i + k \in 1 .. Len(t) /\ u[i] = t[i + k]
           /\ \A i \in 1 .. Len(u) : Followed(t, i + k) => Followed(u, i) \/ i = Len(u)
           /\ \A j \in k + 1 .. Len(t) : ResetAt(t, j) => ResetAt(u, j - k)
<1>1. /\ k \in 0 .. Len(t) /\ Len(u) = Len(t) - k
      /\ \A i \in 1 .. Len(u) : u[i] = t[i + k]
  BY DEF Behind
<1>2. \A i \in 1 .. Len(u) : i + k \in 1 .. Len(t) /\ u[i] = t[i + k]
  BY <1>1
<1>3. ASSUME NEW i \in 1 .. Len(u), Followed(t, i + k), i # Len(u) PROVE Followed(u, i)
  <2>1. i + 1 \in 1 .. Len(u) /\ i < Len(u) /\ (i + 1) + k = (i + k) + 1
    BY <1>1, <1>3
  <2>2. u[i + 1] = t[(i + k) + 1] /\ u[i] = t[i + k]
    BY <1>1, <2>1
  <2> QED BY <1>3, <2>1, <2>2 DEF Followed
<1>4. ASSUME NEW j \in k + 1 .. Len(t), ResetAt(t, j) PROVE ResetAt(u, j - k)
  <2>1. /\ j \in 1 .. Len(t) - 1
        /\ t[j] = <<"reset", None, 1>> /\ t[j + 1] = <<"reset", None, 2>>
        /\ \A i \in 1 .. Len(t) : /\ Starts(t, i, "tx") => i < j
                                  /\ Starts(t, i, "echo") => j < i
    BY <1>4 DEF ResetAt
  <2>2. PICK h : h = j - k
    OBVIOUS
  <2>3. h \in 1 .. Len(u) - 1 /\ h + 1 \in 1 .. Len(u) /\ h + k = j /\ (h + 1) + k = j + 1
    BY <1>1, <1>4, <2>1, <2>2
  <2>4. u[h] = <<"reset", None, 1>> /\ u[h + 1] = <<"reset", None, 2>>
    <3>1. h \in 1 .. Len(u)
      BY <2>3
    <3>2. u[h] = t[h + k] /\ u[h + 1] = t[(h + 1) + k]
      BY ONLY <1>1, <2>3, <3>1
    <3> QED BY ONLY <2>1, <2>3, <3>2
  <2>5. ASSUME NEW i \in 1 .. Len(u) PROVE (Starts(u, i, "tx") => i < h) /\ (Starts(u, i, "echo") => h < i)
    <3>1. PICK g \in 1 .. Len(t) : g = i + k /\ u[i] = t[g]
      BY <1>2
    <3>2. (Starts(u, i, "tx") => g < j) /\ (Starts(u, i, "echo") => j < g)
      BY <2>1, <3>1 DEF Starts
    <3> QED BY <1>1, <2>3, <3>1, <3>2
  <2> QED BY <2>2, <2>3, <2>4, <2>5 DEF ResetAt
<1> QED BY <1>2, <1>3, <1>4, BehindKeeps

(* Commands stay complete, whatever the device takes,                      *)
LEMMA CutBehind ==
    ASSUME TypeInv, TypeInv', CutInv, NEW k, Behind(Todo', Todo, k), UNCHANGED opener
    PROVE  CutInv'
<1>1. PICK t, u : t = Todo /\ u = Todo'
  OBVIOUS
<1>2. Len(t) \in Nat /\ Len(u) \in Nat /\ Behind(u, t, k)
  BY <1>1, TodoShape
<1>3. \A i \in 1 .. Len(u) : /\ i + k \in 1 .. Len(t) /\ u[i] = t[i + k]
                             /\ Followed(t, i + k) => Followed(u, i) \/ i = Len(u)
  <2>1. /\ \A i \in 1 .. Len(u) : i + k \in 1 .. Len(t) /\ u[i] = t[i + k]
        /\ \A i \in 1 .. Len(u) : Followed(t, i + k) => Followed(u, i) \/ i = Len(u)
    BY ONLY <1>2, BehindCommands
  <2> QED BY ONLY <2>1
<1>4. k \in 0 .. Len(t) /\ Len(u) = Len(t) - k
  BY <1>2 DEF Behind
<1>5. ASSUME NEW i \in 1 .. Len(u), Starts(u, i, "echo") \/ Starts(u, i, "eui")
      PROVE  Followed(u, i) \/ (i = Len(u) /\ opener = "reset")
  <2>1. PICK g \in 1 .. Len(t) : g = i + k /\ u[i] = t[g]
    BY <1>3
  <2>2. Starts(t, g, "echo") \/ Starts(t, g, "eui")
    BY <1>5, <2>1 DEF Starts
  <2>3. Followed(t, g) \/ (g = Len(t) /\ opener = "reset")
    BY <1>1, <2>2 DEF CutInv
  <2>4. CASE g = Len(t) /\ opener = "reset"
    BY <1>2, <1>4, <2>1, <2>4
  <2>5. CASE Followed(t, g)
    <3>1. i < Len(u)
      BY <1>2, <1>4, <2>1, <2>5 DEF Followed
    <3> QED BY <1>3, <2>1, <2>5, <3>1
  <2> QED BY <2>3, <2>4, <2>5
<1> QED BY <1>1, <1>5 DEF CutInv

(* and whatever is added,                                                  *)
LEMMA CutMore ==
    ASSUME TypeInv, TypeInv', CutInv, NEW c, NEW f, Todo' = WithCommand(Todo, c, f),
           <<c, f, 1>> \in Piece, <<c, f, 2>> \in Piece,
           opener = "reset" => c = "reset" /\ f = None
    PROVE  CutInv'
<1>1. PICK t, u : t \in Seq(Piece) /\ t = Todo /\ u = Todo' /\ u = WithCommand(t, c, f)
  BY TodoShape
<1>2. /\ Len(t) \in Nat /\ Len(u) = Len(t) + 2
      /\ \A i \in 1 .. Len(t) : u[i] = t[i]
      /\ u[Len(t) + 1] = <<c, f, 1>> /\ u[Len(t) + 2] = <<c, f, 2>>
      /\ \A w : \A i \in 1 .. Len(u) : Starts(u, i, w) <=>
           (i \in 1 .. Len(t) /\ Starts(t, i, w)) \/ (i = Len(t) + 1 /\ w = c)
  BY <1>1, OneMoreCommand
<1>3. ASSUME NEW i \in 1 .. Len(u), NEW w \in {"echo", "eui"}, Starts(u, i, w)
      PROVE  Followed(u, i)
  <2>1. CASE i = Len(t) + 1
    <3>1. u[i] = <<c, f, 1>> /\ u[i + 1] = <<c, f, 2>> /\ i < Len(u)
      <4>1. i + 1 = Len(t) + 2
        BY <1>2, <2>1
      <4> QED BY <1>2, <2>1, <4>1
    <3> QED BY <3>1 DEF Followed
  <2>2. CASE i \in 1 .. Len(t) /\ Starts(t, i, w)
    <3>1. Followed(t, i) \/ (i = Len(t) /\ opener = "reset")
      BY <1>1, <2>2 DEF CutInv
    <3>2. CASE Followed(t, i)
      <4>1. i + 1 \in 1 .. Len(t)
        BY <1>2, <2>2, <3>2 DEF Followed
      <4>2. u[i + 1] = t[i + 1] /\ u[i] = t[i] /\ i < Len(u)
        BY <1>2, <2>2, <4>1
      <4> QED BY <3>2, <4>2 DEF Followed
    <3>3. CASE i = Len(t) /\ opener = "reset"
      <4>1. u[i + 1] = <<"reset", None, 1>> /\ i < Len(u)
        BY <1>2, <3>3
      <4> QED BY <4>1 DEF Followed
    <3> QED BY <3>1, <3>2, <3>3
  <2> QED BY <1>2, <1>3, <2>1, <2>2
<1>4. \A i \in 1 .. Len(u) : Starts(u, i, "echo") \/ Starts(u, i, "eui") => Followed(u, i)
  BY <1>3
<1> QED BY <1>1, <1>4 DEF CutInv

(* and when the line that is being written is lost with its interface.     *)
LEMMA CutReopened ==
    ASSUME TypeInv, TypeInv', CutInv, Reopen
    PROVE  CutInv'
<1>1. PICK t, u : t = Todo /\ u = Todo'
  OBVIOUS
<1>2. Len(t) \in Nat /\ Len(u) \in Nat /\ Len(u) <= Len(t) /\ \A i \in 1 .. Len(u) : u[i] = t[i]
  BY <1>1, TodoShape, TodoReopened
<1>3. opener # "reset" /\ opener' = "reset"
  BY DEF Reopen
<1>4. ASSUME NEW i \in 1 .. Len(u), Starts(u, i, "echo") \/ Starts(u, i, "eui")
      PROVE  Followed(u, i) \/ i = Len(u)
  <2>1. i \in 1 .. Len(t) /\ (Starts(t, i, "echo") \/ Starts(t, i, "eui"))
    BY <1>2, <1>4 DEF Starts
  <2>2. Followed(t, i)
    BY <1>1, <1>3, <2>1 DEF CutInv
  <2>3. CASE i # Len(u)
    <3>1. i + 1 \in 1 .. Len(u) /\ i < Len(u)
      BY <1>2, <2>3
    <3>2. u[i + 1] = t[i + 1] /\ u[i] = t[i]
      BY <1>2, <3>1
    <3> QED BY <2>2, <3>1, <3>2 DEF Followed
  <2> QED BY <2>3
<1> QED BY <1>1, <1>3, <1>4 DEF CutInv

-----------------------------------------------------------------------------
(* No more echoes and EUIs among the lines, and none in another order.     *)
Plain(u, t) == /\ \A w \in {"echo", "eui"} : Has(u, w) => Has(t, w)
               /\ NoneBehind(t, "eui", "echo") => NoneBehind(u, "eui", "echo")
               /\ Single(t, "echo") => Single(u, "echo")

LEMMA PlainWithin ==
    ASSUME NEW u, NEW t, Len(u) \in Nat, Len(t) \in Nat, Within(u, t)
    PROVE  Plain(u, t)
<1>1. /\ \A w : Has(u, w) => Has(t, w)
      /\ \A v, w : NoneBehind(t, v, w) => NoneBehind(u, v, w)
  BY WithinKeeps
<1>2. \A w : Single(t, w) => Single(u, w)
  BY FewerBegun
<1> QED BY <1>1, <1>2 DEF Plain

LEMMA PlainAppend ==
    ASSUME NEW t \in Seq(Line), NEW l \in Line, NEW u, u = Append(t, l), l[1] \notin {"echo", "eui"}
    PROVE  Plain(u, t)
<1>1. /\ \A w : Has(u, w) <=> Has(t, w) \/ l[1] = w
      /\ \A v, w : NoneBehind(t, v, w) /\ (l[1] = w => ~Has(t, v)) => NoneBehind(u, v, w)
      /\ \A w : Single(t, w) /\ (l[1] = w => ~Has(t, w)) => Single(u, w)
  BY OneMoreLine
<1> QED BY <1>1 DEF Plain

(* Nothing is added to what may be told and answered.                      *)
LEMMA EchoesKept ==
    ASSUME TypeInv, TypeInv', Plain(up', up),
           \A w \in {"echo", "eui"} : Begun(Todo', w) => Begun(Todo, w),
           Once(Todo, "echo") => Once(Todo', "echo"),
           InFront(Todo, "echo", "eui") => InFront(Todo', "echo", "eui")
    PROVE  /\ EchoFree => EchoFree'
           /\ EuiFree => EuiFree'
           /\ OneEcho => OneEcho'
           /\ EuiLast => EuiLast'
<1>1. EchoFree => EchoFree'
  BY DEF EchoFree, Plain
<1>2. EuiFree => EuiFree'
  BY DEF EuiFree, Plain
<1>3. OneEcho => OneEcho'
  BY DEF OneEcho, Plain
<1>4. EuiLast => EuiLast'
  BY DEF EuiLast, Plain
<1> QED BY <1>1, <1>2, <1>3, <1>4

LEMMA EchoSame ==
    ASSUME EchoInv, UNCHANGED <<opener, echo_off, eui64>>,
           EchoFree => EchoFree', EuiFree => EuiFree', OneEcho => OneEcho', EuiLast => EuiLast'
    PROVE  EchoInv'
BY DEF EchoInv

(* With fewer lines and pieces.                                            *)
LEMMA EchoFewer ==
    ASSUME TypeInv, TypeInv', Plain(up', up), Within(Todo', Todo)
    PROVE  /\ EchoFree => EchoFree'
           /\ EuiFree => EuiFree'
           /\ OneEcho => OneEcho'
           /\ EuiLast => EuiLast'
<1>1. PICK t, u : t = Todo /\ u = Todo' /\ Len(t) \in Nat /\ Len(u) \in Nat /\ Within(u, t)
  BY TodoShape
<1>2. /\ \A w : Begun(u, w) => Begun(t, w)
      /\ \A w : Once(t, w) => Once(u, w)
      /\ \A v, w : InFront(t, v, w) => InFront(u, v, w)
  BY ONLY <1>1, FewerBegun
<1> QED BY <1>1, <1>2, EchoesKept

(* With another command that is neither.                                   *)
LEMMA EchoMore ==
    ASSUME TypeInv, TypeInv', UNCHANGED up, NEW c, NEW f, c \notin {"echo", "eui"},
           Todo' = WithCommand(Todo, c, f), <<c, f, 1>> \in Piece, <<c, f, 2>> \in Piece
    PROVE  /\ EchoFree => EchoFree'
           /\ EuiFree => EuiFree'
           /\ OneEcho => OneEcho'
           /\ EuiLast => EuiLast'
<1>1. PICK t, u : t \in Seq(Piece) /\ t = Todo /\ u = Todo' /\ u = WithCommand(t, c, f)
  BY TodoShape
<1>2. /\ \A w : Begun(u, w) <=> Begun(t, w) \/ w = c
      /\ \A w : Once(t, w) /\ (w = c => ~Begun(t, w)) => Once(u, w)
      /\ \A v, w : InFront(t, v, w) /\ (v = c => w # c /\ ~Begun(t, w)) => InFront(u, v, w)
  BY <1>1, OneMoreCommand
<1>3. Plain(up', up)
  BY DEF Plain
<1> QED BY <1>1, <1>2, <1>3, EchoesKept

(* The device reads.                                                       *)
LEMMA EchoReads ==
    ASSUME TypeInv, TypeInv', BufferInv, EchoInv, cli_read
    PROVE  EchoInv'
<1>0. UNCHANGED <<opener, echo_off, eui64>>
  BY DEF cli_read, driver
<1>1. PICK k \in 0 .. Len(Todo) :
        /\ Behind(Todo', Todo, k)
        /\ DoesNothing \/ (k >= 1 /\ Todo[1][3] = 1 /\ Does(Todo[1][1], Todo[1][2]))
  BY Reads
<1>2. PICK t, u : t = Todo /\ u = Todo' /\ Len(t) \in Nat /\ Len(u) \in Nat /\ Behind(u, t, k)
  BY <1>1, TodoShape
<1>3. /\ Within(u, t)
      /\ \A i \in 1 .. Len(u) : i + k \in 1 .. Len(t) /\ u[i] = t[i + k]
  BY <1>2, BehindCommands
<1>4. up \in Seq(Line) /\ <<"ready">> \in Line /\ <<"echo">> \in Line /\ <<"eui">> \in Line
  BY Kinds DEF TypeInv, UpType
<1>5. ASSUME Plain(up', up) PROVE EchoInv'
  <2>1. Within(Todo', Todo)
    BY <1>2, <1>3
  <2>2. /\ EchoFree => EchoFree'
        /\ EuiFree => EuiFree'
        /\ OneEcho => OneEcho'
        /\ EuiLast => EuiLast'
    BY <1>5, <2>1, EchoFewer
  <2> QED BY <1>0, <2>2, EchoSame
<1>6. CASE UNCHANGED up
  BY <1>5, <1>6 DEF Plain
<1>7. CASE up' = Append(up, <<"ready">>)
  <2>1. Plain(up', up)
    <3>1. PICK l \in Line : l = <<"ready">>
      BY <1>4
    <3>2. l[1] \notin {"echo", "eui"}
      BY <3>1
    <3> QED BY <1>4, <1>7, <3>1, <3>2, PlainAppend
  <2> QED BY <1>5, <2>1
<1>8. /\ \A w : Begun(u, w) => Begun(t, w)
      /\ \A w : Once(t, w) => Once(u, w)
      /\ \A v, w : InFront(t, v, w) => InFront(u, v, w)
  BY <1>2, <1>3, FewerBegun
(* What begins first is alone, or in front.                                *)
<1>9. ASSUME k >= 1, NEW w, Starts(t, 1, w)
      PROVE  /\ Begun(t, w)
             /\ Once(t, w) => ~Begun(u, w)
             /\ \A v : InFront(t, v, w) => ~Begun(t, v)
  <2>1. 1 \in 1 .. Len(t)
    BY <1>1, <1>2, <1>9
  <2>2. Begun(t, w)
    BY <1>9, <2>1 DEF Begun
  <2>3. ASSUME Once(t, w), NEW i \in 1 .. Len(u), Starts(u, i, w) PROVE FALSE
    <3>1. i + k \in 1 .. Len(t) /\ Starts(t, i + k, w)
      BY <1>3, <2>3 DEF Starts
    <3>2. i + k = 1
      BY <1>9, <2>1, <2>3, <3>1 DEF Once
    <3> QED BY <1>1, <1>9, <3>2
  <2>4. ASSUME NEW v, InFront(t, v, w), NEW i \in 1 .. Len(t), Starts(t, i, v) PROVE FALSE
    <3>1. i < 1
      BY <1>9, <2>1, <2>4 DEF InFront
    <3> QED BY <3>1
  <2> QED BY <2>2, <2>3, <2>4 DEF Begun
<1>10. CASE k >= 1 /\ Starts(t, 1, "echo") /\ up' = Append(up, <<"echo">>)
  <2>1. /\ Begun(Todo, "echo")
        /\ Once(Todo, "echo") => ~Begun(Todo', "echo")
    BY <1>2, <1>9, <1>10
  <2>2. PICK l \in Line : l = <<"echo">> /\ l[1] = "echo"
    BY <1>4
  <2>3. /\ \A w : Has(up', w) <=> Has(up, w) \/ l[1] = w
        /\ \A v, w : NoneBehind(up, v, w) /\ (l[1] = w => ~Has(up, v)) => NoneBehind(up', v, w)
        /\ \A w : Single(up, w) /\ (l[1] = w => ~Has(up, w)) => Single(up', w)
    <3>1. up \in Seq(Line) /\ l \in Line /\ up' = Append(up, l)
      BY <1>4, <1>10, <2>2
    <3> QED BY ONLY <3>1, OneMoreLine
  <2>4. EchoFree => EchoFree'
    BY <2>1 DEF EchoFree
  <2>5. EuiFree => EuiFree'
    BY <1>2, <1>8, <2>2, <2>3 DEF EuiFree
  <2>6. OneEcho => OneEcho'
    BY <1>2, <1>8, <2>1, <2>2, <2>3 DEF OneEcho
  <2>7. EuiLast => EuiLast'
    BY <1>2, <1>8, <2>1, <2>2, <2>3 DEF EuiLast
  <2> QED BY <1>0, <2>4, <2>5, <2>6, <2>7, EchoSame
<1>11. CASE k >= 1 /\ Starts(t, 1, "eui") /\ up' = Append(up, <<"eui">>)
  <2>1. /\ Begun(Todo, "eui")
        /\ InFront(Todo, "echo", "eui") => ~Begun(Todo, "echo")
    BY <1>2, <1>9, <1>11
  <2>2. PICK l \in Line : l = <<"eui">> /\ l[1] = "eui"
    BY <1>4
  <2>3. /\ \A w : Has(up', w) <=> Has(up, w) \/ l[1] = w
        /\ \A v, w : NoneBehind(up, v, w) /\ (l[1] = w => ~Has(up, v)) => NoneBehind(up', v, w)
        /\ \A w : Single(up, w) /\ (l[1] = w => ~Has(up, w)) => Single(up', w)
    <3>1. up \in Seq(Line) /\ l \in Line /\ up' = Append(up, l)
      BY <1>4, <1>11, <2>2
    <3> QED BY ONLY <3>1, OneMoreLine
  <2>4. EchoFree => EchoFree'
    BY <1>2, <1>8, <2>2, <2>3 DEF EchoFree
  <2>5. EuiFree => EuiFree'
    BY <2>1 DEF EuiFree
  <2>6. OneEcho => OneEcho'
    BY <1>2, <1>8, <2>2, <2>3 DEF OneEcho
  <2>7. EuiLast => EuiLast'
    BY <1>2, <1>8, <2>1, <2>2, <2>3 DEF EuiLast
  <2> QED BY <1>0, <2>4, <2>5, <2>6, <2>7, EchoSame
<1> QED BY <1>1, <1>2, <1>6, <1>7, <1>10, <1>11
        DEF DoesNothing, Does, Restarted, Silent, Listens, Sends, Starts

(* The opening worker has nothing to execute left in front of it: what is  *)
(* in the buffer are first pieces, and the rest is the line it has sent.   *)
LEMMA NothingElse ==
    ASSUME TypeInv, TypeInv', BufferInv, down = << >>
    PROVE  \A i \in 1 .. Len(Todo) :
             \/ Todo[i][3] = 1 /\ (Todo[i][1] = "reset" => i = 1)
             \/ Todo[i][1] = line.cmd
<1>1. /\ Todo = (clibuf \o down) \o Rest
      /\ clibuf \in Seq(Piece) /\ down \in Seq(Piece) /\ Rest \in Seq(Piece)
      /\ \A i \in 1 .. Len(Rest) : Rest[i] = <<line.cmd, line.frame, line.offset + wrote + i>>
  BY TodoShape
<1>2. PICK t, r : t = Todo /\ r = Rest
  OBVIOUS
<1>3. /\ Len(clibuf) \in Nat /\ Len(down) \in Nat /\ Len(r) \in Nat
      /\ Len(t) = Len(clibuf) + Len(down) + Len(r)
      /\ \A i \in 1 .. Len(clibuf) : t[i] = clibuf[i]
      /\ \A i \in 1 .. Len(r) : t[Len(clibuf) + Len(down) + i] = r[i]
  BY <1>1, <1>2, Joined
<1>4. Len(down) = 0
  BY EmptySeq
<1>5. \A i \in 1 .. Len(r) : r[i][1] = line.cmd
  BY <1>1, <1>2
<1>6. ASSUME NEW i \in 1 .. Len(t)
      PROVE  \/ t[i][3] = 1 /\ (t[i][1] = "reset" => i = 1)
             \/ t[i][1] = line.cmd
  <2>1. CASE i \in 1 .. Len(clibuf)
    BY <1>3, <2>1 DEF BufferInv
  <2>2. CASE i \notin 1 .. Len(clibuf)
    <3>1. PICK j \in 1 .. Len(r) : i = Len(clibuf) + Len(down) + j
      <4>1. i - Len(clibuf) \in 1 .. Len(r) /\ i = Len(clibuf) + Len(down) + (i - Len(clibuf))
        BY <1>3, <1>4, <2>2
      <4> QED BY <4>1
    <3>2. t[i] = r[j]
      BY <1>3, <3>1
    <3> QED BY <1>5, <3>2
  <2> QED BY <2>1, <2>2
<1> QED BY <1>2, <1>6

(* So there is no other echo or EUI when it gives up ...                   *)
LEMMA NothingBegun ==
    ASSUME TypeInv, TypeInv', BufferInv, CutInv, down = << >>, opener # "reset",
           line.cmd # "reset", NEW w \in {"echo", "eui"}, line.cmd # w
    PROVE  ~Begun(Todo, w)
<1>1. PICK t : t = Todo /\ Len(t) \in Nat
  BY TodoShape
<1>2. \A i \in 1 .. Len(t) : \/ t[i][3] = 1 /\ (t[i][1] = "reset" => i = 1)
                             \/ t[i][1] = line.cmd
  BY <1>1, NothingElse
<1>3. SUFFICES ASSUME NEW i \in 1 .. Len(t), Starts(t, i, w) PROVE FALSE
  BY <1>1 DEF Begun
<1>4. Followed(t, i)
  BY <1>1, <1>3 DEF CutInv
<1>5. i + 1 \in 1 .. Len(t) /\ i + 1 # 1
  BY <1>1, <1>4 DEF Followed
<1>6. t[i][1] = w /\ (t[i + 1] = <<t[i][1], t[i][2], 2>> \/ t[i + 1] = <<"reset", None, 1>>)
  BY <1>3, <1>4 DEF Followed, Starts
<1>7. PICK x : x = t[i + 1]
  OBVIOUS
<1>8. (x[3] = 1 /\ x[1] # "reset") \/ x[1] = line.cmd
  BY <1>2, <1>5, <1>7
<1>9. (x[1] = w /\ x[3] = 2) \/ x[1] = "reset"
  BY <1>6, <1>7
<1> QED BY <1>8, <1>9

(* ... nor a whole reset.                                                  *)
LEMMA NoReset ==
    ASSUME TypeInv, TypeInv', BufferInv, down = << >>, line.cmd # "reset"
    PROVE  ~Purged
<1>1. PICK t : t = Todo /\ Len(t) \in Nat
  BY TodoShape
<1>2. \A i \in 1 .. Len(t) : \/ t[i][3] = 1 /\ (t[i][1] = "reset" => i = 1)
                             \/ t[i][1] = line.cmd
  BY <1>1, NothingElse
<1>3. SUFFICES ASSUME NEW k \in 1 .. Len(t), ResetAt(t, k) PROVE FALSE
  BY <1>1 DEF Purged
<1>4. k + 1 \in 1 .. Len(t) /\ t[k + 1] = <<"reset", None, 2>>
  BY <1>1, <1>3 DEF ResetAt
<1>5. PICK x : x = t[k + 1]
  OBVIOUS
<1>6. x[1] = "reset" /\ x[3] = 2
  BY <1>4, <1>5
<1> QED BY <1>2, <1>4, <1>5, <1>6

(* The opening worker goes on, or gives up.                                *)
LEMMA EchoOpens ==
    ASSUME TypeInv, TypeInv', BufferInv, CutInv, EchoInv, OpenWorker, ~clobbered'
    PROVE  EchoInv'
<1>0. UNCHANGED <<up, eui64, clibuf, down>>
  BY DEF OpenWorker, ttytail_reset, ConfigEcho, ConfigEui, ConfigRx, Register, Timeout, Advance, cli
<1>1. ASSUME NEW c, NEW f, ttytail_tx_start(c, f)
      PROVE  /\ Todo' = WithCommand(Todo, c, f)
             /\ <<c, f, 1>> \in Piece /\ <<c, f, 2>> \in Piece
  <2>1. wrote # 0 => Counting
    BY DEF BufferInv
  <2> QED BY <1>0, <1>1, <2>1, StartAdds
<1>2. ASSUME NEW c, NEW f, ttytail_tx_start(c, f), c \notin {"echo", "eui"}
      PROVE  /\ EchoFree => EchoFree'
             /\ EuiFree => EuiFree'
  BY <1>0, <1>1, <1>2, EchoMore
<1>3. ASSUME NEW c, NEW f, ttytail_tx_start(c, f)
      PROVE  /\ \A w : Begun(Todo', w) <=> Begun(Todo, w) \/ w = c
             /\ \A w : Once(Todo, w) /\ (w = c => ~Begun(Todo, w)) => Once(Todo', w)
             /\ \A v, w : InFront(Todo, v, w) /\ (v = c => w # c /\ ~Begun(Todo, w)) => InFront(Todo', v, w)
  <2>1. PICK t, u : t \in Seq(Piece) /\ t = Todo /\ u = Todo' /\ u = WithCommand(t, c, f)
    BY <1>1, <1>3, TodoShape
  <2>2. <<c, f, 1>> \in Piece /\ <<c, f, 2>> \in Piece
    BY <1>1, <1>3
  <2>3. /\ \A w : Begun(u, w) <=> Begun(t, w) \/ w = c
        /\ \A w : Once(t, w) /\ (w = c => ~Begun(t, w)) => Once(u, w)
        /\ \A v, w : InFront(t, v, w) /\ (v = c => w # c /\ ~Begun(t, w)) => InFront(u, v, w)
    BY <2>1, <2>2, OneMoreCommand
  <2> QED BY <2>1, <2>3
<1>4. CASE ttytail_reset
  <2>1. opener = "reset" /\ opener' = "ready" /\ ttytail_tx_start("reset", None)
    BY <1>4 DEF ttytail_reset, Advance
  <2>2. (EchoFree => EchoFree') /\ (EuiFree => EuiFree')
    BY <1>2, <2>1
  <2> QED BY <1>0, <2>1, <2>2 DEF EchoInv
<1>5. CASE ConfigEcho
  <2>1. opener = "ready" /\ opener' = "echo" /\ echo_off' = FALSE /\ ttytail_tx_start("echo", None)
    BY <1>5 DEF ConfigEcho, Advance
  <2>2. EuiFree => EuiFree'
    BY <1>0, <1>3, <2>1 DEF EuiFree
  <2>3. EchoFree => OneEcho'
    <3>1. EchoFree => Once(Todo, "echo") /\ Single(up, "echo")
      BY DEF EchoFree, Begun, Once, Has, Single
    <3> QED BY <1>0, <1>3, <2>1, <3>1 DEF EchoFree, OneEcho
  <2> QED BY <1>0, <2>1, <2>2, <2>3 DEF EchoInv
<1>6. CASE ConfigEui
  <2>1. opener = "echo" /\ opener' = "eui" /\ echo_off /\ ttytail_tx_start("eui", None)
    BY <1>6 DEF ConfigEui, Advance
  <2>2. EchoFree => EchoFree' /\ EuiLast'
    <3>1. EchoFree => NoneBehind(up, "eui", "echo") /\ InFront(Todo, "echo", "eui")
      <4>1. EchoFree => \A i \in 1 .. Len(up) : up[i][1] # "echo"
        BY DEF EchoFree, Has
      <4>2. Len(up) \in Nat
        BY LenProperties DEF TypeInv, UpType
      <4>3. \A i \in 1 .. Len(up) : \A j \in i + 1 .. Len(up) : j \in 1 .. Len(up)
        BY <4>2
      <4>4. EchoFree => NoneBehind(up, "eui", "echo")
        BY <4>1, <4>3 DEF NoneBehind
      <4>5. EchoFree => InFront(Todo, "echo", "eui")
        BY DEF EchoFree, Begun, InFront
      <4> QED BY <4>4, <4>5
    <3>2. EchoFree => InFront(Todo', "echo", "eui")
      BY <1>3, <2>1, <3>1
    <3> QED BY <1>0, <1>3, <2>1, <3>1, <3>2 DEF EchoFree, EuiLast
  <2>3. EuiFree => EuiLast'
    <3>1. EuiFree => NoneBehind(up, "eui", "echo") /\ InFront(Todo, "echo", "eui")
      <4>1. EuiFree => \A i \in 1 .. Len(up) : up[i][1] # "eui"
        BY DEF EuiFree, Has
      <4>2. EuiFree => NoneBehind(up, "eui", "echo")
        BY <4>1 DEF NoneBehind
      <4>3. EuiFree => InFront(Todo, "echo", "eui")
        BY DEF EuiFree, Begun, InFront
      <4> QED BY <4>2, <4>3
    <3>2. EuiFree => InFront(Todo', "echo", "eui")
      BY <1>3, <2>1, <3>1
    <3> QED BY <1>0, <3>1, <3>2 DEF EuiFree, EuiLast
  <2> QED BY <1>0, <2>1, <2>2, <2>3 DEF EchoInv
<1>7. CASE ConfigRx
  <2>1. opener = "eui" /\ opener' = "rx" /\ eui64 /\ ttytail_tx_start("rx", None)
    BY <1>7 DEF ConfigRx, Advance
  <2>2. EchoFree => EchoFree'
    BY <1>2, <2>1
  <2> QED BY <2>1, <2>2 DEF EchoInv
<1>8. CASE Register \/ Timeout
  <2>1. Todo' = Todo
    BY <1>8, TodoStays
  <2>2. (EchoFree => EchoFree') /\ (EuiFree => EuiFree')
    BY <1>0, <2>1 DEF EchoFree, EuiFree
  <2>3. CASE Register
    BY <2>2, <2>3 DEF Register, Advance, EchoInv
  <2>4. CASE Timeout
    <3>1. /\ down = << >> /\ up = << >> /\ opener' = "failed"
          /\ opener \in {"ready", "echo", "eui", "rx"}
          /\ opener = "echo" => ~echo_off
          /\ opener = "eui" => ~eui64
      BY <2>4 DEF Timeout, Busy
    <3>2. ~Has(up, "echo") /\ ~Has(up, "eui")
      BY <3>1, EmptySeq DEF Has
    <3>3. opener = "echo" => ~Begun(Todo, "eui")
      <4>1. opener = "echo" => line.cmd = "echo"
        BY DEF BufferInv
      <4> QED BY <3>1, <4>1, NothingBegun
    <3>4. opener = "eui" => ~Begun(Todo, "echo")
      <4>1. opener = "eui" => line.cmd = "eui"
        BY DEF BufferInv
      <4> QED BY <3>1, <4>1, NothingBegun
    <3>5. opener \in {"ready", "rx"} => EchoFree \/ EuiFree
      BY DEF EchoInv
    <3>6. EchoFree \/ EuiFree
      BY <3>1, <3>2, <3>3, <3>4, <3>5 DEF EchoFree, EuiFree
    <3> QED BY <2>2, <3>1, <3>6 DEF EchoInv
  <2> QED BY <1>8, <2>3, <2>4
<1> QED BY <1>4, <1>5, <1>6, <1>7, <1>8 DEF OpenWorker

(* The driver takes a line.                                                *)
LEMMA TailTaken ==
    ASSUME TypeInv, Receiver
    PROVE  /\ up # << >> /\ Len(up) \in Nat /\ Len(up) >= 1 /\ Len(up') = Len(up) - 1 /\ Head(up) = up[1]
           /\ \A i \in 1 .. Len(up) - 1 : up'[i] = up[i + 1]
           /\ Within(up', up)
<1>1. up # << >> /\ up' = Tail(up)
  BY DEF Receiver, RxReady, RxEcho, ttytail_rx_eui64, ttytail_rx_packet, ttytail_rx_timestamp, Received
<1>2. /\ Len(up) \in Nat /\ Len(up) >= 1 /\ Len(up') = Len(up) - 1 /\ Head(up) = up[1]
      /\ \A i \in 1 .. Len(up) - 1 : up'[i] = up[i + 1]
  BY <1>1, TailShape DEF TypeInv
<1>3. Behind(up', up, 1) /\ Len(up') \in Nat
  BY <1>2 DEF Behind
<1>4. Within(up', up)
  BY <1>2, <1>3, BehindKeeps
<1> QED BY <1>1, <1>2, <1>4

LEMMA EchoReceived ==
    ASSUME TypeInv, TypeInv', BufferInv, EchoInv, Receiver
    PROVE  EchoInv'
<1>1. UNCHANGED opener /\ Todo' = Todo
  BY TodoStays DEF Receiver, RxReady, RxEcho, ttytail_rx_eui64, ttytail_rx_packet, ttytail_rx_timestamp, Received
<1>2. /\ Len(up) \in Nat /\ Len(up) >= 1 /\ Len(up') = Len(up) - 1 /\ Head(up) = up[1]
      /\ \A i \in 1 .. Len(up) - 1 : up'[i] = up[i + 1]
      /\ Within(up', up) /\ Len(up') \in Nat
  BY TailTaken
<1>3. Plain(up', up)
  BY <1>2, PlainWithin
<1>4. Within(Todo', Todo)
  BY <1>1, TodoShape, WithinItself
<1>5. /\ EchoFree => EchoFree'
      /\ EuiFree => EuiFree'
      /\ OneEcho => OneEcho'
      /\ EuiLast => EuiLast'
  BY <1>3, <1>4, EchoFewer
<1>6. CASE RxEcho
  <2>1. up[1][1] = "echo" /\ echo_off' = TRUE /\ UNCHANGED eui64
    BY <1>2, <1>6 DEF RxEcho, Received
  <2>2. Has(up, "echo")
    BY <1>2, <2>1 DEF Has
  <2>3. OneEcho => EchoFree'
    <3>1. ASSUME OneEcho, NEW i \in 1 .. Len(up'), up'[i][1] = "echo" PROVE FALSE
      <4>1. i + 1 \in 1 .. Len(up) /\ 1 \in 1 .. Len(up) /\ up[i + 1][1] = "echo" /\ i + 1 # 1
        BY <1>2, <3>1
      <4> QED BY <2>1, <3>1, <4>1 DEF OneEcho, Single
    <3>2. OneEcho => ~Has(up', "echo")
      BY <3>1 DEF Has
    <3> QED BY <1>1, <2>2, <3>2 DEF OneEcho, EchoFree
  <2>4. ~EchoFree
    BY <2>2 DEF EchoFree
  <2> QED BY <1>1, <1>5, <2>1, <2>3, <2>4 DEF EchoInv
<1>7. CASE ttytail_rx_eui64
  <2>1. up[1][1] = "eui" /\ eui64' = TRUE /\ UNCHANGED echo_off
    BY <1>2, <1>7 DEF ttytail_rx_eui64, Received
  <2>2. Has(up, "eui")
    BY <1>2, <2>1 DEF Has
  <2>3. EuiLast => EchoFree'
    <3>1. ASSUME EuiLast, NEW i \in 1 .. Len(up'), up'[i][1] = "echo" PROVE FALSE
      <4>1. i + 1 \in 2 .. Len(up) /\ 1 \in 1 .. Len(up) /\ up[i + 1][1] = "echo" /\ i + 1 \in 1 + 1 .. Len(up)
        BY <1>2, <3>1
      <4> QED BY <2>1, <3>1, <4>1 DEF EuiLast, NoneBehind
    <3>2. EuiLast => ~Has(up', "echo")
      BY <3>1 DEF Has
    <3> QED BY <1>1, <2>2, <3>2 DEF EuiLast, EchoFree
  <2>4. ~EuiFree
    BY <2>2 DEF EuiFree
  <2> QED BY <1>1, <1>5, <2>1, <2>3, <2>4 DEF EchoInv
<1>8. CASE RxReady \/ ttytail_rx_packet \/ ttytail_rx_timestamp
  <2>1. UNCHANGED <<opener, echo_off, eui64>>
    BY <1>1, <1>8 DEF RxReady, ttytail_rx_packet, ttytail_rx_timestamp
  <2> QED BY <1>5, <2>1, EchoSame
<1> QED BY <1>6, <1>7, <1>8 DEF Receiver

(* The line that the device adds.                                          *)
LEMMA LinesAdded ==
    ASSUME TypeInv, Printing \/ Restart
    PROVE  \E l \in Line :
             /\ up' = Append(up, l)
             /\ \/ Restart /\ l[1] = "ready" /\ l = <<"ready">> /\ ~IsAnswer(l)
                \/ tx_poll /\ l = <<"time", <<"tx", txtime>>>> /\ l[1] = "time" /\ IsAnswer(l) /\ l[2][2] = txtime
                \/ PrintPacket /\ l[1] = "packet" /\ ~IsAnswer(l)
                \/ PrintTime /\ l[1] = "time" /\ ~IsAnswer(l)
<1>1. CASE tx_poll
  <2>1. txtime \in 1 .. TxFrames
    BY <1>1, TtyTailAssumption DEF tx_poll, TypeInv, DeviceType, None
  <2>2. PICK l \in Line : l = <<"time", <<"tx", txtime>>>>
    BY <2>1, Kinds DEF Times
  <2> QED BY <1>1, <2>2 DEF tx_poll, IsAnswer
<1>2. CASE PrintPacket \/ PrintTime
  <2>1. rxtime \in 1 .. RxFrames
    BY <1>2, TtyTailAssumption DEF PrintPacket, PrintTime, TypeInv, DeviceType, None
  <2>2. <<"packet", rxtime>> \in Line /\ <<"time", <<"rx", rxtime>>>> \in Line
    BY <2>1, Kinds DEF Times
  <2> QED BY <1>2, <2>2 DEF PrintPacket, PrintTime, IsAnswer
<1>3. CASE Restart
  <2>1. <<"ready">> \in Line /\ up' = Append(up, <<"ready">>) /\ <<"ready">>[1] = "ready" /\ "ready" # "time"
    BY <1>3, Kinds DEF Restart, cli_init
  <2> QED BY <1>3, <2>1 DEF IsAnswer
<1> QED BY <1>1, <1>2, <1>3 DEF Printing

(* No echo is left over when the interface is registered.                  *)
LEMMA EchoKept ==
    ASSUME TypeInv, TypeInv', BufferInv, CutInv, EchoInv, [Next]_vars, ~clobbered'
    PROVE  EchoInv'
<1>1. ASSUME UNCHANGED <<opener, echo_off, eui64>>, Plain(up', up), Within(Todo', Todo)
      PROVE  EchoInv'
  BY <1>1, EchoFewer, EchoSame
<1>2. Todo' = Todo => Within(Todo', Todo)
  BY TodoShape, WithinItself
<1>3. UNCHANGED up => Plain(up', up)
  BY DEF Plain
<1>4. CASE OpenWorker
  BY <1>4, EchoOpens
<1>5. CASE Receiver
  BY <1>5, EchoReceived
<1>6. CASE cli_read
  BY <1>6, EchoReads
<1>7. CASE TxWorker \/ cli_read_end \/ txrx_txdone \/ txrx_rxdone \/ ttytail_stop \/ UNCHANGED vars
  <2>1. UNCHANGED <<opener, echo_off, eui64, up>>
    BY <1>7 DEF TxWorker, WorkerWrite, WorkerCount, ttytail_write_wakeup, cli_read_end, txrx_txdone, txrx_rxdone,
                ttytail_stop, vars, driver
  <2>2. Todo' = Todo
    BY <1>7, TodoStays
  <2> QED BY <1>1, <1>2, <1>3, <2>1, <2>2
<1>8. CASE Printing \/ Restart
  <2>1. UNCHANGED <<opener, echo_off, eui64>>
    BY <1>8 DEF Printing, tx_poll, PrintPacket, PrintTime, Restart, driver
  <2>2. Within(Todo', Todo)
    <3>1. CASE Printing
      BY <1>2, <3>1, TodoStays
    <3>2. CASE Restart
      BY <3>2, TodoRestarted, TodoShape, BehindKeeps
    <3> QED BY <1>8, <3>1, <3>2
  <2>3. PICK l \in Line : up' = Append(up, l) /\ l[1] \in {"ready", "packet", "time"}
    BY <1>8, LinesAdded
  <2>4. Plain(up', up)
    BY <2>3, PlainAppend DEF TypeInv, UpType
  <2> QED BY <1>1, <2>1, <2>2, <2>4
<1>9. CASE LoseLine
  <2>1. UNCHANGED <<opener, echo_off, eui64>> /\ Todo' = Todo
    BY <1>9, TodoStays DEF LoseLine, driver
  <2>2. Plain(up', up)
    <3>1. Within(up', up) /\ Len(up) \in Nat /\ Len(up') \in Nat
      <4>1. Within(up', up) /\ Len(up) \in Nat /\ Len(up') = Len(up) - 1 /\ \E k \in 1 .. Len(up) : TRUE
        BY <1>9, LossWithin
      <4> QED BY <4>1
    <3> QED BY <3>1, PlainWithin
  <2> QED BY <1>1, <1>2, <2>1, <2>2
<1>10. CASE LoseInput
  <2>1. UNCHANGED <<opener, echo_off, eui64, up>>
    BY <1>10 DEF LoseInput, driver
  <2> QED BY <1>1, <1>3, <1>10, <2>1, TodoLost
<1>11. CASE Reopen
  <2>1. opener \in {"registered", "failed"} /\ opener' = "reset" /\ eui64' = FALSE /\ UNCHANGED up
    BY <1>11 DEF Reopen
  <2>2. Within(Todo', Todo)
    <3>1. PICK t, u : t = Todo /\ u = Todo' /\ Len(t) \in Nat /\ Len(u) \in Nat /\ Len(u) <= Len(t)
                      /\ \A i \in 1 .. Len(u) : u[i] = t[i]
      BY <1>11, TodoShape, TodoReopened
    <3>2. Within(u, t)
      BY ONLY <3>1, PrefixKeeps
    <3> QED BY <3>1, <3>2
  <2>3. (EchoFree => EchoFree') /\ (EuiFree => EuiFree')
    BY <1>3, <2>1, <2>2, EchoFewer
  <2> QED BY <2>1, <2>3 DEF EchoInv
<1>12. CASE ttytail_xmit_async
  <2>1. opener = "registered" /\ UNCHANGED <<opener, up, clibuf, down>> /\ ttytail_tx_start("tx", taken + 1)
    BY <1>12 DEF ttytail_xmit_async, cli
  <2>2. /\ Todo' = WithCommand(Todo, "tx", taken + 1)
        /\ <<"tx", taken + 1, 1>> \in Piece /\ <<"tx", taken + 1, 2>> \in Piece
    BY <2>1, StartAdds DEF BufferInv
  <2>3. EchoFree => EchoFree'
    BY <2>1, <2>2, EchoMore
  <2> QED BY <2>1, <2>3 DEF EchoInv
<1> QED BY <1>4, <1>5, <1>6, <1>7, <1>8, <1>9, <1>10, <1>11, <1>12 DEF Next, Reading, PollNothing

-----------------------------------------------------------------------------
(* The buffer holds first pieces, and the opening worker's line is the one *)
(* it has asked for.                                                       *)
LEMMA BufferKept ==
    ASSUME TypeInv, TypeInv', BufferInv, [Next]_vars
    PROVE  BufferInv'
<1>1. ASSUME NEW c, NEW f, ttytail_tx_start(c, f)
      PROVE  line'.cmd = c /\ (wrote' # 0 => Counting')
  BY <1>1 DEF ttytail_tx_start, Schedule, BufferInv, Counting
<1>2. ASSUME UNCHANGED clibuf, wrote' # 0 => Counting',
             opener' = "ready" => line'.cmd = "reset",
             opener' \in {"echo", "eui", "rx"} => line'.cmd = opener'
      PROVE  BufferInv'
  BY <1>2 DEF BufferInv
<1>3. CASE ttytail_reset \/ ConfigEcho \/ ConfigEui \/ ConfigRx
  <2>1. CASE ttytail_reset
    <3>1. opener' = "ready" /\ ttytail_tx_start("reset", None) /\ UNCHANGED clibuf
      BY <2>1 DEF ttytail_reset, Advance, cli
    <3> QED BY <1>1, <1>2, <3>1
  <2>2. CASE ConfigEcho
    <3>1. opener' = "echo" /\ ttytail_tx_start("echo", None) /\ UNCHANGED clibuf
      BY <2>2 DEF ConfigEcho, Advance, cli
    <3> QED BY <1>1, <1>2, <3>1
  <2>3. CASE ConfigEui
    <3>1. opener' = "eui" /\ ttytail_tx_start("eui", None) /\ UNCHANGED clibuf
      BY <2>3 DEF ConfigEui, Advance, cli
    <3> QED BY <1>1, <1>2, <3>1
  <2>4. CASE ConfigRx
    <3>1. opener' = "rx" /\ ttytail_tx_start("rx", None) /\ UNCHANGED clibuf
      BY <2>4 DEF ConfigRx, Advance, cli
    <3> QED BY <1>1, <1>2, <3>1
  <2> QED BY <1>3, <2>1, <2>2, <2>3, <2>4
<1>4. CASE \/ TxWorker \/ Receiver \/ cli_read_end \/ Printing \/ txrx_txdone \/ txrx_rxdone
           \/ ttytail_stop \/ Register \/ Timeout \/ LoseLine \/ UNCHANGED vars
  <2>1. UNCHANGED clibuf /\ line'.cmd = line.cmd /\ (wrote' # 0 => Counting')
    BY <1>4, TodoStays
  <2>2. UNCHANGED opener \/ opener' \in {"registered", "failed"}
    BY <1>4 DEF TxWorker, WorkerWrite, WorkerCount, ttytail_write_wakeup, Receiver, RxReady, RxEcho, ttytail_rx_eui64,
                ttytail_rx_packet, ttytail_rx_timestamp, Received, cli_read_end, Printing, tx_poll, PrintPacket,
                PrintTime, txrx_txdone, txrx_rxdone, ttytail_stop, Register, Timeout, Advance, LoseLine, vars, driver
  <2> QED BY <1>2, <2>1, <2>2 DEF BufferInv
<1>5. CASE cli_read
  <2>1. \A i \in 1 .. Len(clibuf') : clibuf'[i][3] = 1 /\ (clibuf'[i][1] = "reset" => i = 1)
    BY <1>5, Reads
  <2>2. UNCHANGED <<opener, line, wrote, work>>
    BY <1>5 DEF cli_read, driver
  <2> QED BY <2>1, <2>2 DEF BufferInv, Counting
<1>6. CASE LoseInput
  <2>1. UNCHANGED <<opener, line, wrote, work, clibuf>>
    BY <1>6 DEF LoseInput, driver, cli
  <2> QED BY <2>1 DEF BufferInv, Counting
<1>7. CASE Restart
  <2>1. UNCHANGED <<opener, line, wrote, work>> /\ clibuf' = << >>
    BY <1>7 DEF Restart, driver, cli_init
  <2> QED BY <2>1 DEF BufferInv, Counting
<1>8. CASE Reopen
  BY <1>2, <1>8 DEF Reopen, cli
<1>9. CASE ttytail_xmit_async
  <2>1. opener = "registered" /\ UNCHANGED <<opener, clibuf>> /\ ttytail_tx_start("tx", taken + 1)
    BY <1>9 DEF ttytail_xmit_async, cli
  <2> QED BY <1>1, <1>2, <2>1
<1> QED BY <1>3, <1>4, <1>5, <1>6, <1>7, <1>8, <1>9 DEF Next, OpenWorker, Reading, PollNothing

(* An echo or a request for the EUI is cut short by a reset only, unless a *)
(* piece of it is lost.                                                    *)
LEMMA CutKept ==
    ASSUME TypeInv, TypeInv', BufferInv, CutInv, [Next]_vars, ~clobbered',
           LoseInput => ~Begun(Todo, "echo") /\ ~Begun(Todo, "eui")
    PROVE  CutInv'
<1>1. ASSUME NEW c, NEW f, ttytail_tx_start(c, f), UNCHANGED <<clibuf, down>>,
             opener = "reset" => c = "reset" /\ f = None
      PROVE  CutInv'
  <2>1. wrote # 0 => Counting
    BY DEF BufferInv
  <2>2. /\ Todo' = WithCommand(Todo, c, f)
        /\ <<c, f, 1>> \in Piece /\ <<c, f, 2>> \in Piece
    BY <1>1, <2>1, StartAdds
  <2> QED BY <1>1, <2>2, CutMore
<1>2. CASE ttytail_reset \/ ConfigEcho \/ ConfigEui \/ ConfigRx
  <2>1. CASE ttytail_reset
    BY <1>1, <2>1 DEF ttytail_reset, Advance, cli
  <2>2. CASE ConfigEcho
    <3>1. opener = "ready" /\ ttytail_tx_start("echo", None) /\ UNCHANGED <<clibuf, down>>
      BY <2>2 DEF ConfigEcho, Advance, cli
    <3> QED BY <1>1, <3>1
  <2>3. CASE ConfigEui
    <3>1. opener = "echo" /\ ttytail_tx_start("eui", None) /\ UNCHANGED <<clibuf, down>>
      BY <2>3 DEF ConfigEui, Advance, cli
    <3> QED BY <1>1, <3>1
  <2>4. CASE ConfigRx
    <3>1. opener = "eui" /\ ttytail_tx_start("rx", None) /\ UNCHANGED <<clibuf, down>>
      BY <2>4 DEF ConfigRx, Advance, cli
    <3> QED BY <1>1, <3>1
  <2> QED BY <1>2, <2>1, <2>2, <2>3, <2>4
<1>3. CASE \/ TxWorker \/ Receiver \/ cli_read_end \/ Printing \/ txrx_txdone \/ txrx_rxdone
           \/ ttytail_stop \/ Register \/ Timeout \/ LoseLine \/ UNCHANGED vars
  <2>1. Todo' = Todo
    BY <1>3, TodoStays
  <2>2. UNCHANGED opener \/ opener # "reset"
    BY <1>3 DEF TxWorker, WorkerWrite, WorkerCount, ttytail_write_wakeup, Receiver, RxReady, RxEcho, ttytail_rx_eui64,
                ttytail_rx_packet, ttytail_rx_timestamp, Received, cli_read_end, Printing, tx_poll, PrintPacket,
                PrintTime, txrx_txdone, txrx_rxdone, ttytail_stop, Register, Timeout, Advance, LoseLine, vars, driver
  <2> QED BY <2>1, <2>2 DEF CutInv
<1>4. CASE cli_read
  <2>1. \E k \in 0 .. Len(Todo) : Behind(Todo', Todo, k)
    BY <1>4, Reads
  <2>2. UNCHANGED opener
    BY <1>4 DEF cli_read, driver
  <2> QED BY <2>1, <2>2, CutBehind
<1>5. CASE LoseInput
  <2>1. Within(Todo', Todo) /\ Len(Todo) \in Nat /\ Len(Todo') \in Nat
    BY <1>5, TodoLost, TodoShape
  <2>2. ~Begun(Todo', "echo") /\ ~Begun(Todo', "eui")
    <3>1. \A w : Begun(Todo', w) => Begun(Todo, w)
      <4>1. PICK t, u : t = Todo /\ u = Todo' /\ Within(u, t) /\ Len(t) \in Nat /\ Len(u) \in Nat
        BY <2>1
      <4>2. \A w : Begun(u, w) => Begun(t, w)
        BY ONLY <4>1, FewerBegun
      <4> QED BY <4>1, <4>2
    <3> QED BY <1>5, <3>1
  <2> QED BY <2>2 DEF CutInv, Begun
<1>6. CASE Restart
  <2>1. \E k \in 0 .. Len(Todo) : Behind(Todo', Todo, k)
    BY <1>6, TodoRestarted
  <2>2. UNCHANGED opener
    BY <1>6 DEF Restart, driver
  <2> QED BY <2>1, <2>2, CutBehind
<1>7. CASE Reopen
  BY <1>7, CutReopened
<1>8. CASE ttytail_xmit_async
  <2>1. opener = "registered" /\ ttytail_tx_start("tx", taken + 1) /\ UNCHANGED <<clibuf, down>>
    BY <1>8 DEF ttytail_xmit_async, cli
  <2> QED BY <1>1, <2>1
<1> QED BY <1>2, <1>3, <1>4, <1>5, <1>6, <1>7, <1>8 DEF Next, OpenWorker, Reading, PollNothing

-----------------------------------------------------------------------------
(* No more answers to transmissions among the lines, and none behind an    *)
(* echo that were not.                                                     *)
Mild(u, t) == /\ Answering(u) => Answering(t)
              /\ OneAnswer(t) => OneAnswer(u)
              /\ AnswerFirst(t) => AnswerFirst(u)
              /\ \A i \in 1 .. Len(u) : IsAnswer(u[i]) => \E j \in 1 .. Len(t) : u[i] = t[j]

LEMMA MildWithin ==
    ASSUME NEW u, NEW t, Len(u) \in Nat, Len(t) \in Nat, Within(u, t)
    PROVE  Mild(u, t)
<1>1. /\ Answering(u) => Answering(t)
      /\ OneAnswer(t) => OneAnswer(u)
      /\ AnswerFirst(t) => AnswerFirst(u)
      /\ \A i \in 1 .. Len(u) : \E j \in 1 .. Len(t) : u[i] = t[j]
  BY FewerBegun
<1> QED BY <1>1 DEF Mild

LEMMA MildAppend ==
    ASSUME NEW t \in Seq(Line), NEW l \in Line, NEW u, u = Append(t, l), ~IsAnswer(l)
    PROVE  Mild(u, t)
<1>1. /\ Len(t) \in Nat /\ Len(u) = Len(t) + 1 /\ u[Len(t) + 1] = l
      /\ \A i \in 1 .. Len(t) : u[i] = t[i]
  <2>1. Len(t) \in Nat /\ Len(u) = Len(t) + 1 /\ u[Len(t) + 1] = l
    BY OneMoreLine
  <2>2. \A i \in 1 .. Len(t) : u[i] = t[i]
    BY OneMoreLine
  <2> QED BY <2>1, <2>2
<1>2. ASSUME NEW i \in 1 .. Len(u), IsAnswer(u[i]) PROVE \E j \in 1 .. Len(t) : u[i] = t[j]
  <2>1. i # Len(t) + 1
    BY <1>1, <1>2
  <2>2. i \in 1 .. Len(t)
    BY <1>1, <2>1
  <2> QED BY <1>1, <2>2
<1>3. Answering(u) <=> Answering(t) \/ IsAnswer(l)
  BY OneMoreLine
<1>4. OneAnswer(t) /\ (IsAnswer(l) => ~Answering(t)) => OneAnswer(u)
  BY OneMoreLine
<1>5. AnswerFirst(t) /\ (IsAnswer(l) => ~Has(t, "echo")) => AnswerFirst(u)
  BY OneMoreLine
<1> QED BY <1>2, <1>3, <1>4, <1>5 DEF Mild

(* There are frames, and answers have them.                                *)
LEMMA AnswersTyped ==
    ASSUME TypeInv
    PROVE  /\ \A i \in 1 .. Len(up) : IsAnswer(up[i]) => up[i][2][2] \in 1 .. TxFrames
           /\ \A i \in 1 .. Len(Todo) : Todo \in Seq(Piece) /\ Starts(Todo, i, "tx") => Todo[i][2] \in 1 .. TxFrames
<1>1. ASSUME NEW i \in 1 .. Len(up), IsAnswer(up[i]) PROVE up[i][2][2] \in 1 .. TxFrames
  <2>1. up[i] \in Line
    BY ElementOfSeq DEF TypeInv, UpType
  <2>2. up[i][2] \in Times /\ up[i][2][1] = "tx"
    BY <1>1, <2>1, Kinds DEF IsAnswer
  <2> QED BY <2>2 DEF Times
<1>2. ASSUME NEW i \in 1 .. Len(Todo), Todo \in Seq(Piece), Starts(Todo, i, "tx") PROVE Todo[i][2] \in 1 .. TxFrames
  <2>1. PICK t \in Seq(Piece) : t = Todo
    BY <1>2
  <2>2. t[i] \in Piece /\ t[i][1] = "tx"
    BY <1>2, <2>1, ElementOfSeq DEF Starts
  <2> QED BY <2>1, <2>2 DEF Piece, Commands
<1> QED BY <1>1, <1>2

(* Nothing is added to a transmission and its answer.                      *)
LEMMA OneFewer ==
    ASSUME TypeInv, TypeInv', OneInv, UNCHANGED <<opener, tx_skb>>,
           Mild(up', up), Within(Todo', Todo),
           pending' => pending /\ txtime' = txtime
    PROVE  OneInv'
<1>1. PICK t, u : t = Todo /\ u = Todo' /\ Len(t) \in Nat /\ Len(u) \in Nat /\ Within(u, t)
  BY TodoShape
<1>2. /\ Begun(u, "tx") => Begun(t, "tx")
      /\ Once(t, "tx") => Once(u, "tx")
      /\ \A i \in 1 .. Len(u) : \E j \in 1 .. Len(t) : u[i] = t[j]
  BY <1>1, FewerBegun
<1>3. /\ OneAnswer(up') /\ Once(Todo', "tx")
      /\ Answering(up') => ~Outstanding'
      /\ pending' => ~Begun(Todo', "tx")
      /\ opener' # "registered" => tx_skb' = None
  BY <1>1, <1>2 DEF OneInv, Outstanding, Mild
<1>4. ASSUME opener' = "registered"
      PROVE  /\ \A i \in 1 .. Len(up') : IsAnswer(up'[i]) => up'[i][2][2] = tx_skb'
             /\ pending' => txtime' = tx_skb'
             /\ \A i \in 1 .. Len(Todo') : Starts(Todo', i, "tx") => Todo'[i][2] = tx_skb'
  <2>1. opener = "registered"
    BY <1>4
  <2>2. ASSUME NEW i \in 1 .. Len(up'), IsAnswer(up'[i]) PROVE up'[i][2][2] = tx_skb'
    <3>1. PICK j \in 1 .. Len(up) : up'[i] = up[j]
      BY <2>2 DEF Mild
    <3> QED BY <2>1, <2>2, <3>1 DEF OneInv
  <2>3. pending' => txtime' = tx_skb'
    BY <2>1 DEF OneInv
  <2>4. ASSUME NEW i \in 1 .. Len(u), Starts(u, i, "tx") PROVE u[i][2] = tx_skb'
    <3>1. PICK j \in 1 .. Len(t) : u[i] = t[j]
      BY <1>2
    <3>2. Starts(t, j, "tx")
      BY <2>4, <3>1 DEF Starts
    <3>3. t[j][2] = tx_skb
      BY <1>1, <2>1, <3>2 DEF OneInv
    <3> QED BY <3>1, <3>3
  <2> QED BY <1>1, <2>2, <2>3, <2>4
<1> QED BY <1>3, <1>4 DEF OneInv

(* The opening worker goes on; the interface is registered when nothing is *)
(* left of a transmission.                                                 *)
LEMMA OneOpens ==
    ASSUME TypeInv, TypeInv', BufferInv, OneInv, StaleInv, OpenWorker, ~clobbered'
    PROVE  OneInv'
<1>0. UNCHANGED <<up, clibuf, down, pending, txtime, tx_skb>>
  BY DEF OpenWorker, ttytail_reset, ConfigEcho, ConfigEui, ConfigRx, Register, Timeout, Advance, cli
<1>1. ASSUME NEW c, NEW f, ttytail_tx_start(c, f), c # "tx", opener # "registered", opener' # "registered"
      PROVE  OneInv'
  <2>1. wrote # 0 => Counting
    BY DEF BufferInv
  <2>2. /\ Todo' = WithCommand(Todo, c, f)
        /\ <<c, f, 1>> \in Piece /\ <<c, f, 2>> \in Piece
    BY <1>0, <1>1, <2>1, StartAdds
  <2>3. PICK t, u : t \in Seq(Piece) /\ t = Todo /\ u = Todo' /\ u = WithCommand(t, c, f)
    BY <2>2, TodoShape
  <2>4. /\ \A w : Begun(u, w) <=> Begun(t, w) \/ w = c
        /\ \A w : Once(t, w) /\ (w = c => ~Begun(t, w)) => Once(u, w)
    BY <2>2, <2>3, OneMoreCommand
  <2>5. (Begun(Todo', "tx") => Begun(Todo, "tx")) /\ (Once(Todo, "tx") => Once(Todo', "tx"))
    BY <1>1, <2>3, <2>4
  <2> QED BY <1>0, <1>1, <2>5 DEF OneInv, Outstanding
<1>2. CASE ttytail_reset
  BY <1>1, <1>2 DEF ttytail_reset, Advance
<1>3. CASE ConfigEcho
  BY <1>1, <1>3 DEF ConfigEcho, Advance
<1>4. CASE ConfigEui
  BY <1>1, <1>4 DEF ConfigEui, Advance
<1>5. CASE ConfigRx
  BY <1>1, <1>5 DEF ConfigRx, Advance
<1>6. CASE Register
  <2>1. Todo' = Todo /\ opener = "rx"
    BY <1>6, TodoStays DEF Register, Advance
  <2>2. ~Outstanding /\ ~Answering(up)
    BY <2>1 DEF StaleInv
  <2> QED BY <1>0, <2>1, <2>2 DEF OneInv, Outstanding, Answering, Begun
<1>7. CASE Timeout
  <2>1. Todo' = Todo /\ opener # "registered" /\ opener' = "failed"
    BY <1>7, TodoStays DEF Timeout
  <2> QED BY <1>0, <2>1 DEF OneInv, Outstanding
<1> QED BY <1>2, <1>3, <1>4, <1>5, <1>6, <1>7 DEF OpenWorker

(* A transmission is handed over: nothing is left of an earlier one.       *)
LEMMA OneSends ==
    ASSUME TypeInv, TypeInv', BufferInv, OneInv, ttytail_xmit_async, ~clobbered'
    PROVE  OneInv'
<1>1. /\ opener = "registered" /\ tx_skb = None /\ tx_skb' = taken + 1
      /\ UNCHANGED <<opener, up, clibuf, down, pending, txtime>> /\ ttytail_tx_start("tx", taken + 1)
  BY DEF ttytail_xmit_async, cli
<1>2. wrote # 0 => Counting
  BY DEF BufferInv
<1>3. /\ Todo' = WithCommand(Todo, "tx", taken + 1)
      /\ <<"tx", taken + 1, 1>> \in Piece /\ <<"tx", taken + 1, 2>> \in Piece
  BY <1>1, <1>2, StartAdds
<1>4. ~Answering(up) /\ ~pending /\ ~Begun(Todo, "tx")
  <2>1. Todo \in Seq(Piece)
    BY TodoShape
  <2>2. ~pending
    BY <1>1 DEF OneInv, TypeInv, DeviceType
  <2>3. ~Answering(up)
    BY <1>1, AnswersTyped DEF OneInv, Answering, None
  <2>4. ~Begun(Todo, "tx")
    BY <1>1, <2>1, AnswersTyped DEF OneInv, Begun, None
  <2> QED BY <2>2, <2>3, <2>4
<1>5. PICK t, u : t \in Seq(Piece) /\ t = Todo /\ u = Todo' /\ u = WithCommand(t, "tx", taken + 1)
  BY <1>3, TodoShape
<1>6. /\ Len(t) \in Nat
      /\ u[Len(t) + 1] = <<"tx", taken + 1, 1>>
      /\ \A w : \A i \in 1 .. Len(u) : Starts(u, i, w) <=>
           (i \in 1 .. Len(t) /\ Starts(t, i, w)) \/ (i = Len(t) + 1 /\ w = "tx")
      /\ \A w : Once(t, w) /\ (w = "tx" => ~Begun(t, w)) => Once(u, w)
  BY <1>3, <1>5, OneMoreCommand
<1>7. Once(Todo', "tx")
  BY <1>4, <1>5, <1>6 DEF OneInv
<1>8. \A i \in 1 .. Len(u) : Starts(u, i, "tx") => u[i][2] = tx_skb'
  <2>1. ASSUME NEW i \in 1 .. Len(u), Starts(u, i, "tx") PROVE u[i][2] = tx_skb'
    <3>1. i = Len(t) + 1
      BY <1>4, <1>5, <1>6, <2>1 DEF Begun
    <3> QED BY <1>1, <1>6, <3>1
  <2> QED BY <2>1
<1> QED BY <1>1, <1>4, <1>5, <1>7, <1>8 DEF OneInv, Outstanding, Answering, OneAnswer

(* The device reads: it begins a transmission when it executes it.         *)
LEMMA OneReads ==
    ASSUME TypeInv, TypeInv', BufferInv, OneInv, cli_read
    PROVE  OneInv'
<1>0. UNCHANGED <<opener, tx_skb>>
  BY DEF cli_read, driver
<1>1. PICK k \in 0 .. Len(Todo) :
        /\ Behind(Todo', Todo, k)
        /\ DoesNothing \/ (k >= 1 /\ Todo[1][3] = 1 /\ Does(Todo[1][1], Todo[1][2]))
  BY Reads
<1>2. PICK t, u : t = Todo /\ u = Todo' /\ Len(t) \in Nat /\ Len(u) \in Nat /\ Behind(u, t, k)
  BY <1>1, TodoShape
<1>3. /\ Within(u, t)
      /\ \A i \in 1 .. Len(u) : i + k \in 1 .. Len(t) /\ u[i] = t[i + k]
  BY <1>2, BehindCommands
<1>4. up \in Seq(Line) /\ <<"ready">> \in Line /\ <<"echo">> \in Line /\ <<"eui">> \in Line
  BY Kinds DEF TypeInv, UpType
<1>5. /\ UNCHANGED up => Mild(up', up)
      /\ \A l \in {<<"ready">>, <<"echo">>, <<"eui">>} : up' = Append(up, l) => Mild(up', up)
  <2>1. UNCHANGED up => Mild(up', up)
    BY DEF Mild
  <2>2. ASSUME NEW l \in {<<"ready">>, <<"echo">>, <<"eui">>}, up' = Append(up, l) PROVE Mild(up', up)
    <3>1. l \in Line /\ ~IsAnswer(l)
      BY <1>4, <2>2 DEF IsAnswer
    <3> QED BY <1>4, <2>2, <3>1, MildAppend
  <2> QED BY <2>1, <2>2
<1>6. CASE k >= 1 /\ Starts(t, 1, "tx") /\ Sends(t[1][2])
  <2>1. 1 \in 1 .. Len(t) /\ Begun(t, "tx")
    BY <1>1, <1>2, <1>6 DEF Begun
  <2>2. ~Begun(u, "tx")
    <3>1. ASSUME NEW i \in 1 .. Len(u), Starts(u, i, "tx") PROVE FALSE
      <4>1. i + k \in 1 .. Len(t) /\ Starts(t, i + k, "tx")
        BY <1>3, <3>1 DEF Starts
      <4>2. i + k = 1
        BY <1>2, <1>6, <2>1, <4>1 DEF OneInv, Once
      <4> QED BY <1>1, <1>6, <4>2
    <3> QED BY <3>1 DEF Begun
  <2>3. ~Answering(up) /\ UNCHANGED up /\ pending' /\ txtime' = t[1][2]
    BY <1>2, <1>6, <2>1 DEF OneInv, Outstanding, Sends
  <2>4. opener = "registered" => t[1][2] = tx_skb
    BY <1>2, <1>6, <2>1 DEF OneInv
  <2> QED BY <1>0, <1>2, <2>2, <2>3, <2>4 DEF OneInv, Outstanding, Answering, OneAnswer, Begun, Once
<1>7. ASSUME Mild(up', up), pending' => pending /\ txtime' = txtime
      PROVE  OneInv'
  <2>1. Within(Todo', Todo)
    BY <1>2, <1>3
  <2> QED BY <1>0, <1>7, <2>1, OneFewer
<1> QED BY <1>1, <1>2, <1>5, <1>6, <1>7
        DEF DoesNothing, Does, Restarted, Silent, Listens, Starts, Active

(* The transmission is over on the air, and the device answers.            *)
LEMMA OneAnswers ==
    ASSUME TypeInv, TypeInv', BufferInv, OneInv, tx_poll
    PROVE  OneInv'
<1>1. pending /\ ~pending' /\ UNCHANGED <<opener, tx_skb>> /\ Todo' = Todo
  BY TodoStays DEF tx_poll, Printing, driver
<1>2. PICK l \in Line : up' = Append(up, l) /\ IsAnswer(l) /\ l[2][2] = txtime
  <2>1. txtime \in 1 .. TxFrames
    BY <1>1 DEF TypeInv, DeviceType, None
  <2>2. PICK l : l = <<"time", <<"tx", txtime>>>> /\ up' = Append(up, l)
    BY DEF tx_poll
  <2>3. <<"tx", txtime>> \in Times
    BY <2>1 DEF Times
  <2>4. l \in Line /\ IsAnswer(l) /\ l[2][2] = txtime
    BY <2>2, <2>3, Kinds DEF IsAnswer
  <2> QED BY <2>2, <2>4
<1>3. up \in Seq(Line)
  BY DEF TypeInv, UpType
<1>4. PICK u : u = up'
  OBVIOUS
<1>5. Len(up) \in Nat /\ Len(u) = Len(up) + 1 /\ u[Len(up) + 1] = l
  BY <1>2, <1>3, <1>4, OneMoreLine
<1>6. \A i \in 1 .. Len(up) : u[i] = up[i]
  BY <1>2, <1>3, <1>4, OneMoreLine
<1>7. OneAnswer(up) /\ (IsAnswer(l) => ~Answering(up)) => OneAnswer(u)
  BY <1>2, <1>3, <1>4, OneMoreLine
<1>8. ~Answering(up) /\ ~Begun(Todo, "tx") /\ OneAnswer(up)
  BY <1>1 DEF OneInv, Outstanding
<1>9. ASSUME opener = "registered", NEW i \in 1 .. Len(u), IsAnswer(u[i]) PROVE u[i][2][2] = tx_skb
  <2>1. i = Len(up) + 1
    <3>1. i \in 1 .. Len(up) \/ i = Len(up) + 1
      BY <1>5
    <3> QED BY <1>6, <1>8, <1>9, <3>1 DEF Answering
  <2>2. txtime = tx_skb
    BY <1>1, <1>9 DEF OneInv
  <2> QED BY <1>2, <1>5, <2>1, <2>2
<1> QED BY <1>1, <1>4, <1>7, <1>8, <1>9 DEF OneInv, Outstanding, Begun

(* The driver takes a line, maybe the answer.                              *)
LEMMA OneReceived ==
    ASSUME TypeInv, TypeInv', BufferInv, OneInv, Receiver,
           ttytail_rx_timestamp /\ rx_skb = None /\ tx_skb # None => IsAnswer(up[1])
    PROVE  OneInv'
<1>1. /\ up # << >> /\ Len(up) \in Nat /\ Len(up) >= 1 /\ Len(up') = Len(up) - 1 /\ Head(up) = up[1]
      /\ \A i \in 1 .. Len(up) - 1 : up'[i] = up[i + 1]
      /\ Within(up', up)
  BY TailTaken
<1>2. Todo' = Todo
  BY TodoStays
<1>3. UNCHANGED <<opener, pending, txtime>>
  BY DEF Receiver, RxReady, RxEcho, ttytail_rx_eui64, ttytail_rx_packet, ttytail_rx_timestamp, Received, cli
<1>4. CASE UNCHANGED tx_skb
  <2>1. Mild(up', up) /\ Within(Todo', Todo)
    <3>1. Len(up') \in Nat /\ Len(up) \in Nat /\ Within(up', up)
      BY <1>1
    <3>2. Mild(up', up)
      BY <3>1, MildWithin
    <3>3. Len(Todo) \in Nat
      BY TodoShape
    <3>4. Within(Todo', Todo)
      BY <1>2, <3>3, WithinItself
    <3> QED BY <3>2, <3>4
  <2> QED BY <1>3, <1>4, <2>1, OneFewer
<1>5. CASE ttytail_rx_timestamp /\ rx_skb = None /\ tx_skb # None
  <2>1. tx_skb' = None
    BY <1>5 DEF ttytail_rx_timestamp
  <2>2. 1 \in 1 .. Len(up) /\ IsAnswer(up[1])
    BY <1>1, <1>5
  <2>3. Answering(up)
    BY <2>2 DEF Answering
  <2>4. ~Outstanding
    BY <2>3 DEF OneInv
  <2>5. ASSUME NEW i \in 1 .. Len(up'), IsAnswer(up'[i]) PROVE FALSE
    <3>1. i \in 1 .. Len(up) - 1 /\ i + 1 \in 1 .. Len(up) /\ i + 1 # 1
      BY <1>1
    <3>2. IsAnswer(up[i + 1])
      BY <1>1, <2>5, <3>1
    <3>3. \A m, n \in 1 .. Len(up) : IsAnswer(up[m]) /\ IsAnswer(up[n]) => m = n
      BY DEF OneInv, OneAnswer
    <3> QED BY <2>2, <3>1, <3>2, <3>3
  <2> QED BY <1>2, <1>3, <2>1, <2>4, <2>5 DEF OneInv, Outstanding, Answering, OneAnswer, Begun, Once
<1> QED BY <1>4, <1>5
        DEF Receiver, RxReady, RxEcho, ttytail_rx_eui64, ttytail_rx_packet, ttytail_rx_timestamp

(* There is one transmission at most.                                      *)
LEMMA OneKept ==
    ASSUME TypeInv, TypeInv', BufferInv, OneInv, StaleInv, [Next]_vars, ~clobbered',
           ttytail_rx_timestamp /\ rx_skb = None /\ tx_skb # None => IsAnswer(up[1])
    PROVE  OneInv'
<1>1. Todo' = Todo => Within(Todo', Todo)
  BY TodoShape, WithinItself
<1>2. UNCHANGED up => Mild(up', up)
  BY DEF Mild
<1>3. CASE OpenWorker
  BY <1>3, OneOpens
<1>4. CASE Receiver
  BY <1>4, OneReceived
<1>5. CASE cli_read
  BY <1>5, OneReads
<1>6. CASE tx_poll
  BY <1>6, OneAnswers
<1>7. CASE TxWorker \/ cli_read_end \/ txrx_txdone \/ txrx_rxdone \/ ttytail_stop \/ UNCHANGED vars
  <2>1. UNCHANGED <<opener, tx_skb, up, pending, txtime>>
    BY <1>7 DEF TxWorker, WorkerWrite, WorkerCount, ttytail_write_wakeup, cli_read_end, txrx_txdone, txrx_rxdone,
                ttytail_stop, vars, driver, cli
  <2>2. Todo' = Todo
    BY <1>7, TodoStays
  <2> QED BY <1>1, <1>2, <2>1, <2>2, OneFewer
<1>8. CASE PrintPacket \/ PrintTime \/ Restart
  <2>1. UNCHANGED <<opener, tx_skb>> /\ (pending' => pending /\ txtime' = txtime)
    BY <1>8 DEF PrintPacket, PrintTime, Restart, cli_init, driver
  <2>2. Within(Todo', Todo)
    <3>1. CASE PrintPacket \/ PrintTime
      BY <1>1, <3>1, TodoStays DEF Printing
    <3>2. CASE Restart
      BY <3>2, TodoRestarted, TodoShape, BehindKeeps
    <3> QED BY <1>8, <3>1, <3>2
  <2>3. PICK l \in Line : up' = Append(up, l) /\ (tx_poll \/ ~IsAnswer(l))
    BY <1>8, LinesAdded DEF Printing
  <2>4. CASE tx_poll
    BY <2>4, OneAnswers
  <2>5. CASE ~IsAnswer(l)
    <3>1. Mild(up', up)
      BY <2>3, <2>5, MildAppend DEF TypeInv, UpType
    <3> QED BY <2>1, <2>2, <3>1, OneFewer
  <2> QED BY <2>3, <2>4, <2>5
<1>9. CASE LoseLine
  <2>1. UNCHANGED <<opener, tx_skb, pending, txtime>> /\ Todo' = Todo
    BY <1>9, TodoStays DEF LoseLine, driver, cli
  <2>2. Mild(up', up)
    <3>1. Within(up', up) /\ Len(up) \in Nat /\ Len(up') \in Nat
      <4>1. Within(up', up) /\ Len(up) \in Nat /\ Len(up') = Len(up) - 1 /\ \E k \in 1 .. Len(up) : TRUE
        BY <1>9, LossWithin
      <4> QED BY <4>1
    <3> QED BY <3>1, MildWithin
  <2> QED BY <1>1, <2>1, <2>2, OneFewer
<1>10. CASE LoseInput
  <2>1. UNCHANGED <<opener, tx_skb, up, pending, txtime>>
    BY <1>10 DEF LoseInput, driver, cli
  <2> QED BY <1>2, <1>10, <2>1, TodoLost, OneFewer
<1>11. CASE Reopen
  <2>1. opener' = "reset" /\ tx_skb' = None /\ UNCHANGED <<up, pending>>
    BY <1>11 DEF Reopen, cli
  <2>2. PICK t, u : t = Todo /\ u = Todo' /\ Len(t) \in Nat /\ Len(u) \in Nat /\ Len(u) <= Len(t)
                    /\ \A i \in 1 .. Len(u) : u[i] = t[i]
    BY <1>11, TodoShape, TodoReopened
  <2>3. Within(u, t)
    BY ONLY <2>2, PrefixKeeps
  <2>4. /\ Begun(u, "tx") => Begun(t, "tx")
        /\ Once(t, "tx") => Once(u, "tx")
    BY <2>2, <2>3, FewerBegun
  <2> QED BY <2>1, <2>2, <2>4 DEF OneInv, Outstanding
<1>12. CASE ttytail_xmit_async
  BY <1>12, OneSends
<1> QED BY <1>3, <1>4, <1>5, <1>6, <1>7, <1>8, <1>9, <1>10, <1>11, <1>12 DEF Next, Reading, Printing, PollNothing

-----------------------------------------------------------------------------
(* What is left of a transmission, when it does not become more.           *)
LEMMA StaleSame ==
    ASSUME StaleInv, UNCHANGED opener, EchoSeen' => EchoSeen,
           AnswerFirst(up'), Answering(up') => Answering(up),
           Outstanding' =>
             /\ Outstanding
             /\ Has(up', "echo") => Has(up, "echo")
             /\ Begun(Todo', "echo") => Begun(Todo, "echo")
             /\ opener = "echo" /\ Purged => Purged'
             /\ opener = "ready" /\ (Purged \/ (faults = 1 /\ Unread)) => Purged' \/ (faults' = 1 /\ Unread')
    PROVE  StaleInv'
  BY DEF StaleInv

(* A reset on its way is still there, or the transmission has gone before  *)
(* it.                                                                     *)
LEMMA PurgedBehind ==
    ASSUME TypeInv, TypeInv', NEW k, Behind(Todo', Todo, k), Purged
    PROVE  Purged' \/ (~Begun(Todo', "tx") /\ \E j \in 1 .. k : ResetAt(Todo, j))
<1>1. PICK t, u : t = Todo /\ u = Todo' /\ Len(t) \in Nat /\ Len(u) \in Nat /\ Behind(u, t, k)
  BY TodoShape
<1>2. PICK j \in 1 .. Len(t) : ResetAt(t, j)
  BY <1>1 DEF Purged
<1>3. k \in 0 .. Len(t) /\ Len(u) = Len(t) - k
  BY <1>1 DEF Behind
<1>4. CASE j > k
  <2>1. j \in k + 1 .. Len(t)
    BY <1>1, <1>3, <1>4
  <2>2. ResetAt(u, j - k)
    BY <1>1, <1>2, <2>1, BehindCommands
  <2>3. j - k \in 1 .. Len(u)
    BY <1>1, <1>3, <2>1
  <2> QED BY <1>1, <2>2, <2>3 DEF Purged
<1>5. /\ Within(u, t)
      /\ \A i \in 1 .. Len(u) : i + k \in 1 .. Len(t) /\ u[i] = t[i + k]
  BY <1>1, BehindCommands
<1>6. CASE j <= k
  <2>1. ASSUME NEW i \in 1 .. Len(u), Starts(u, i, "tx") PROVE FALSE
    <3>1. i + k \in 1 .. Len(t) /\ u[i] = t[i + k]
      BY <1>5
    <3>2. Starts(t, i + k, "tx")
      BY <2>1, <3>1 DEF Starts
    <3>3. i + k < j
      BY <1>2, <3>1, <3>2 DEF ResetAt
    <3> QED BY <1>1, <1>3, <1>6, <3>3
  <2>2. j \in 1 .. k
    BY <1>1, <1>3, <1>6
  <2> QED BY <1>1, <1>2, <2>1, <2>2 DEF Begun
<1> QED BY <1>1, <1>2, <1>3, <1>4, <1>6

(* The opening worker goes on: an echo is told behind a reset.             *)
LEMMA StaleOpens ==
    ASSUME TypeInv, TypeInv', BufferInv, StaleInv, OpenWorker, ~clobbered'
    PROVE  StaleInv'
<1>0. UNCHANGED <<up, clibuf, down, pending>>
  BY DEF OpenWorker, ttytail_reset, ConfigEcho, ConfigEui, ConfigRx, Register, Timeout, Advance, cli
<1>1. ASSUME NEW c, NEW f, ttytail_tx_start(c, f)
      PROVE  /\ Todo' = WithCommand(Todo, c, f)
             /\ <<c, f, 1>> \in Piece /\ <<c, f, 2>> \in Piece
  <2>1. wrote # 0 => Counting
    BY DEF BufferInv
  <2> QED BY <1>0, <1>1, <2>1, StartAdds
<1>2. ASSUME NEW c, NEW f, ttytail_tx_start(c, f), c # "tx"
      PROVE  /\ Outstanding' <=> Outstanding
             /\ Begun(Todo', "echo") <=> Begun(Todo, "echo") \/ c = "echo"
  <2>1. PICK t, u : t \in Seq(Piece) /\ t = Todo /\ u = Todo' /\ u = WithCommand(t, c, f)
    BY <1>1, <1>2, TodoShape
  <2>2. <<c, f, 1>> \in Piece /\ <<c, f, 2>> \in Piece
    BY <1>1, <1>2
  <2>3. \A w : Begun(u, w) <=> Begun(t, w) \/ w = c
    BY <2>1, <2>2, OneMoreCommand
  <2> QED BY <1>0, <1>2, <2>1, <2>3 DEF Outstanding
<1>3. CASE ttytail_reset
  <2>1. opener = "reset" /\ opener' = "ready" /\ ttytail_tx_start("reset", None)
    BY <1>3 DEF ttytail_reset, Advance
  <2>2. ~Begun(Todo, "echo") => Purged'
    <3>1. PICK t, u : t \in Seq(Piece) /\ t = Todo /\ u = Todo' /\ u = WithCommand(t, "reset", None)
      BY <1>1, <2>1, TodoShape
    <3>2. <<"reset", None, 1>> \in Piece /\ <<"reset", None, 2>> \in Piece
      BY <1>1, <2>1
    <3>3. /\ Len(t) \in Nat /\ Len(u) = Len(t) + 2
          /\ u[Len(t) + 1] = <<"reset", None, 1>> /\ u[Len(t) + 2] = <<"reset", None, 2>>
          /\ \A w : \A i \in 1 .. Len(u) : Starts(u, i, w) <=>
               (i \in 1 .. Len(t) /\ Starts(t, i, w)) \/ (i = Len(t) + 1 /\ w = "reset")
      BY <3>1, <3>2, OneMoreCommand
    <3>4. ASSUME ~Begun(t, "echo") PROVE ResetAt(u, Len(t) + 1)
      <4>1. ASSUME NEW i \in 1 .. Len(u)
            PROVE  /\ Starts(u, i, "tx") => i < Len(t) + 1
                   /\ Starts(u, i, "echo") => Len(t) + 1 < i
        <5>1. Starts(u, i, "tx") => i \in 1 .. Len(t)
          BY <3>3
        <5>2. Starts(u, i, "echo") => FALSE
          BY <3>3, <3>4 DEF Begun
        <5> QED BY <3>3, <5>1, <5>2
      <4>2. Len(t) + 1 \in 1 .. Len(u) - 1 /\ (Len(t) + 1) + 1 = Len(t) + 2
        BY <3>3
      <4> QED BY <3>3, <4>1, <4>2 DEF ResetAt
    <3>5. Len(t) + 1 \in 1 .. Len(u)
      BY <3>3
    <3> QED BY <3>1, <3>4, <3>5 DEF Purged
  <2>3. Outstanding' => ~Has(up', "echo") /\ ~Begun(Todo, "echo") /\ ~Begun(Todo', "echo")
    BY <1>0, <1>2, <2>1 DEF StaleInv
  <2>4. ~EchoSeen' /\ opener' \notin {"echo", "eui", "rx"}
    BY <2>1 DEF EchoSeen
  <2> QED BY <1>0, <2>1, <2>2, <2>3, <2>4 DEF StaleInv
<1>4. CASE ConfigEcho
  <2>1. opener = "ready" /\ ready /\ opener' = "echo" /\ echo_off' = FALSE /\ ttytail_tx_start("echo", None)
    BY <1>4 DEF ConfigEcho, Advance
  <2>2. Purged => Purged'
    <3>1. PICK t, u : t \in Seq(Piece) /\ t = Todo /\ u = Todo' /\ u = WithCommand(t, "echo", None)
      BY <1>1, <2>1, TodoShape
    <3>2. <<"echo", None, 1>> \in Piece /\ <<"echo", None, 2>> \in Piece
      BY <1>1, <2>1
    <3>3. /\ Len(t) \in Nat /\ Len(u) = Len(t) + 2
          /\ \A i \in 1 .. Len(t) : u[i] = t[i]
          /\ \A w : \A i \in 1 .. Len(u) : Starts(u, i, w) <=>
               (i \in 1 .. Len(t) /\ Starts(t, i, w)) \/ (i = Len(t) + 1 /\ w = "echo")
      BY <3>1, <3>2, OneMoreCommand
    <3>4. ASSUME NEW k \in 1 .. Len(t), ResetAt(t, k) PROVE ResetAt(u, k) /\ k \in 1 .. Len(u)
      <4>1. k \in 1 .. Len(t) - 1 /\ k + 1 \in 1 .. Len(t)
        BY <3>3, <3>4 DEF ResetAt
      <4>2. u[k] = <<"reset", None, 1>> /\ u[k + 1] = <<"reset", None, 2>> /\ k \in 1 .. Len(u) - 1
        BY <3>3, <3>4, <4>1 DEF ResetAt
      <4>3. ASSUME NEW i \in 1 .. Len(u)
            PROVE  /\ Starts(u, i, "tx") => i < k
                   /\ Starts(u, i, "echo") => k < i
        <5>1. Starts(u, i, "tx") => i \in 1 .. Len(t) /\ Starts(t, i, "tx")
          BY <3>3
        <5>2. Starts(u, i, "echo") => (i \in 1 .. Len(t) /\ Starts(t, i, "echo")) \/ i = Len(t) + 1
          BY <3>3
        <5> QED BY <3>3, <3>4, <4>1, <5>1, <5>2 DEF ResetAt
      <4> QED BY <3>3, <4>1, <4>2, <4>3 DEF ResetAt
    <3> QED BY <3>1, <3>4 DEF Purged
  <2>3. Outstanding' => ~Has(up', "echo") /\ Purged
    BY <1>0, <1>2, <2>1 DEF StaleInv, Unread
  <2>4. ~EchoSeen'
    BY <2>1 DEF EchoSeen
  <2> QED BY <1>0, <2>1, <2>2, <2>3, <2>4 DEF StaleInv
<1>5. CASE ConfigEui
  <2>1. EchoSeen /\ opener' = "eui" /\ ttytail_tx_start("eui", None)
    BY <1>5 DEF ConfigEui, Advance, EchoSeen
  <2>2. ~Outstanding'
    BY <1>2, <2>1 DEF StaleInv
  <2> QED BY <1>0, <2>1, <2>2 DEF StaleInv
<1>6. CASE ConfigRx
  <2>1. opener = "eui" /\ opener' = "rx" /\ ttytail_tx_start("rx", None)
    BY <1>6 DEF ConfigRx, Advance
  <2>2. ~Outstanding'
    BY <1>2, <2>1 DEF StaleInv
  <2> QED BY <1>0, <2>1, <2>2 DEF StaleInv
<1>7. CASE Register
  <2>1. Todo' = Todo /\ opener = "rx" /\ opener' = "registered"
    BY <1>7, TodoStays DEF Register, Advance
  <2>2. ~Outstanding'
    BY <1>0, <2>1 DEF StaleInv, Outstanding
  <2> QED BY <1>0, <2>1, <2>2 DEF StaleInv, EchoSeen
<1>8. CASE Timeout
  <2>1. Todo' = Todo /\ opener \in {"ready", "echo", "eui", "rx"} /\ opener' = "failed" /\ down = << >>
    BY <1>8, TodoStays DEF Timeout, Busy
  <2>2. opener = "echo" => ~Purged
    <3>1. opener = "echo" => line.cmd # "reset"
      BY DEF BufferInv
    <3> QED BY <2>1, <3>1, NoReset
  <2>3. Outstanding' => ~Has(up', "echo") /\ ~Begun(Todo', "echo")
    BY <1>0, <2>1, <2>2 DEF StaleInv, Outstanding
  <2>4. ~EchoSeen'
    BY <2>1 DEF EchoSeen
  <2> QED BY <1>0, <2>1, <2>3, <2>4 DEF StaleInv
<1> QED BY <1>3, <1>4, <1>5, <1>6, <1>7, <1>8 DEF OpenWorker

(* The device reads: it answers no echo before the transmission.           *)
LEMMA StaleReads ==
    ASSUME TypeInv, TypeInv', BufferInv, StaleInv, cli_read
    PROVE  StaleInv'
<1>0. UNCHANGED <<opener, echo_off, ready, faults>>
  BY DEF cli_read, driver, hist
<1>1. PICK k \in 0 .. Len(Todo) :
        /\ Behind(Todo', Todo, k)
        /\ DoesNothing \/ (k >= 1 /\ Todo[1][3] = 1 /\ Does(Todo[1][1], Todo[1][2]))
        /\ \A j \in 1 .. k : ResetAt(Todo, j) => Restarted
  BY Reads
<1>2. PICK t, u : t = Todo /\ u = Todo' /\ Len(t) \in Nat /\ Len(u) \in Nat /\ Behind(u, t, k)
  BY <1>1, TodoShape
<1>3. /\ Within(u, t)
      /\ \A i \in 1 .. Len(u) : i + k \in 1 .. Len(t) /\ u[i] = t[i + k]
  BY <1>2, BehindCommands
<1>4. /\ \A w : Begun(u, w) => Begun(t, w)
      /\ \A v, w : InFront(t, v, w) => InFront(u, v, w)
  BY <1>2, <1>3, FewerBegun
<1>5. up \in Seq(Line) /\ <<"ready">> \in Line /\ <<"echo">> \in Line /\ <<"eui">> \in Line
  BY Kinds DEF TypeInv, UpType
<1>6. UNCHANGED up => Mild(up', up)
  BY DEF Mild
<1>7. ASSUME NEW l \in {<<"ready">>, <<"echo">>, <<"eui">>}, up' = Append(up, l)
      PROVE  /\ Mild(up', up)
             /\ \A w : Has(up', w) <=> Has(up, w) \/ l[1] = w
  <2>1. PICK v : v = up' /\ v = Append(up, l)
    BY <1>7
  <2>2. l \in Line /\ ~IsAnswer(l)
    BY <1>5, <1>7 DEF IsAnswer
  <2>3. Mild(v, up)
    BY <1>5, <2>1, <2>2, MildAppend
  <2>4. \A w : Has(v, w) <=> Has(up, w) \/ l[1] = w
    BY <1>5, <2>1, <2>2, OneMoreLine
  <2> QED BY <2>1, <2>3, <2>4
<1>8. Restarted => ~pending' /\ up' = Append(up, <<"ready">>)
  BY DEF Restarted, Active
<1>9. Mild(up', up)
  BY <1>1, <1>6, <1>7 DEF DoesNothing, Does, Restarted, Silent, Listens, Sends
<1>10. Begun(Todo', "echo") => Begun(Todo, "echo")
  BY <1>2, <1>4
<1>11. Outstanding' => Outstanding
  <2>1. pending' => pending \/ (k >= 1 /\ Starts(Todo, 1, "tx"))
    BY <1>1, <1>8 DEF DoesNothing, Does, Silent, Listens, Sends, Starts
  <2>2. k >= 1 /\ Starts(t, 1, "tx") => Begun(t, "tx")
    <3>1. k >= 1 => 1 \in 1 .. Len(t)
      BY <1>1, <1>2
    <3> QED BY <3>1 DEF Begun
  <2> QED BY <1>2, <1>4, <2>1, <2>2 DEF Outstanding
<1>12. Outstanding' /\ Purged => Purged'
  BY <1>1, <1>8, PurgedBehind DEF Outstanding
<1>13. Outstanding' /\ Unread => Unread'
  <2>1. SUFFICES ASSUME Outstanding', Unread PROVE Unread'
    OBVIOUS
  <2>2. ~Restarted
    <3>1. SUFFICES ASSUME Restarted PROVE FALSE
      OBVIOUS
    <3>2. Begun(u, "tx")
      BY <1>2, <1>8, <2>1, <3>1 DEF Outstanding
    <3>3. Begun(t, "tx") /\ InFront(t, "tx", "reset")
      BY <1>2, <1>4, <2>1, <3>2 DEF Unread
    <3>4. PICK i \in 1 .. Len(u) : Starts(u, i, "tx")
      BY <3>2 DEF Begun
    <3>5. CASE k >= 1 /\ Starts(t, 1, "reset")
      <4>1. i + k \in 1 .. Len(t) /\ Starts(t, i + k, "tx") /\ 1 \in 1 .. Len(t)
        BY <1>1, <1>2, <1>3, <3>4, <3>5 DEF Starts
      <4>2. i + k < 1
        BY <3>3, <3>5, <4>1 DEF InFront
      <4> QED BY <1>1, <4>2
    <3>6. CASE ~(k >= 1 /\ Starts(t, 1, "reset"))
      <4>1. up' # up
        <5>1. Len(up') = Len(up) + 1 /\ Len(up) \in Nat
          BY <1>5, <1>8, <3>1, AppendProperties, LenProperties
        <5> QED BY <5>1
      <4>2. up' # Append(up, <<"echo">>) /\ up' # Append(up, <<"eui">>)
        <5>1. up' = Append(up, <<"ready">>)
          BY <1>8, <3>1
        <5>2. up'[Len(up) + 1] = <<"ready">>
          BY <1>5, <5>1, AppendProperties
        <5>3. Append(up, <<"echo">>)[Len(up) + 1] = <<"echo">> /\ Append(up, <<"eui">>)[Len(up) + 1] = <<"eui">>
          BY <1>5, AppendProperties
        <5>4. <<"ready">>[1] = "ready" /\ <<"echo">>[1] = "echo" /\ <<"eui">>[1] = "eui"
          OBVIOUS
        <5> QED BY <5>2, <5>3, <5>4
      <4> QED BY <1>1, <1>2, <3>6, <4>1, <4>2 DEF DoesNothing, Does, Listens, Sends, Starts
    <3> QED BY <3>5, <3>6
  <2>3. ~Has(up', "ready")
    <3>1. UNCHANGED up \/ up' = Append(up, <<"echo">>) \/ up' = Append(up, <<"eui">>)
      BY <1>1, <2>2 DEF DoesNothing, Does, Listens, Sends
    <3>2. <<"echo">>[1] # "ready" /\ <<"eui">>[1] # "ready"
      OBVIOUS
    <3> QED BY <1>7, <2>1, <3>1, <3>2 DEF Unread
  <2> QED BY <1>0, <1>2, <1>4, <2>1, <2>3 DEF Unread
<1>14. Outstanding' => (Has(up', "echo") => Has(up, "echo"))
  <2>1. SUFFICES ASSUME Outstanding' PROVE Has(up', "echo") => Has(up, "echo")
    OBVIOUS
  <2>2. CASE k >= 1 /\ Starts(t, 1, "echo")
    <3>1. 1 \in 1 .. Len(t) /\ Begun(t, "echo")
      BY <1>1, <1>2, <2>2 DEF Begun
    <3>2. opener = "echo" /\ Purged
      BY <1>2, <1>11, <2>1, <3>1 DEF StaleInv, TypeInv, DriverType
    <3>3. PICK j \in 1 .. Len(t) : ResetAt(t, j)
      BY <1>2, <3>2 DEF Purged
    <3>4. j < 1
      BY <2>2, <3>1, <3>3 DEF ResetAt
    <3> QED BY <3>4
  <2>3. CASE ~(k >= 1 /\ Starts(t, 1, "echo"))
    <3>1. UNCHANGED up \/ up' = Append(up, <<"ready">>) \/ up' = Append(up, <<"eui">>)
      BY <1>1, <1>2, <2>3 DEF DoesNothing, Does, Restarted, Listens, Sends, Starts
    <3>2. <<"ready">>[1] # "echo" /\ <<"eui">>[1] # "echo"
      OBVIOUS
    <3> QED BY <1>7, <3>1, <3>2
  <2> QED BY <2>2, <2>3
<1>15. AnswerFirst(up') /\ (Answering(up') => Answering(up))
  BY <1>9 DEF Mild, StaleInv
<1>16. EchoSeen' => EchoSeen
  BY <1>0 DEF EchoSeen
<1> QED BY <1>0, <1>10, <1>11, <1>12, <1>13, <1>14, <1>15, <1>16, StaleSame

(* The driver takes a line: an echo when nothing is left of a transmission. *)
LEMMA StaleReceived ==
    ASSUME TypeInv, TypeInv', BufferInv, StaleInv, Receiver
    PROVE  StaleInv'
<1>1. /\ up # << >> /\ Len(up) \in Nat /\ Len(up) >= 1 /\ Len(up') = Len(up) - 1 /\ Head(up) = up[1]
      /\ \A i \in 1 .. Len(up) - 1 : up'[i] = up[i + 1]
      /\ Within(up', up)
  BY TailTaken
<1>2. Todo' = Todo
  BY TodoStays
<1>3. UNCHANGED <<opener, pending, faults>>
  BY DEF Receiver, RxReady, RxEcho, ttytail_rx_eui64, ttytail_rx_packet, ttytail_rx_timestamp, Received, cli, hist
<1>4. Mild(up', up) /\ \A w : Has(up', w) => Has(up, w)
  <2>1. Len(up') \in Nat /\ Len(up) \in Nat /\ Within(up', up)
    BY <1>1
  <2>2. Mild(up', up)
    BY <2>1, MildWithin
  <2>3. /\ \A w : Has(up', w) => Has(up, w)
        /\ \A v, w : NoneBehind(up, v, w) => NoneBehind(up', v, w)
    BY <2>1, WithinKeeps
  <2> QED BY <2>2, <2>3
<1>5. (Outstanding' <=> Outstanding) /\ (Purged' <=> Purged) /\ (Begun(Todo', "echo") <=> Begun(Todo, "echo"))
  BY <1>2, <1>3 DEF Outstanding, Purged
<1>6. AnswerFirst(up') /\ (Answering(up') => Answering(up))
  BY <1>4 DEF Mild, StaleInv
<1>7. CASE RxReady
  <2>1. UNCHANGED echo_off /\ up[1][1] = "ready"
    BY <1>1, <1>7 DEF RxReady, Received
  <2>2. ~Unread
    BY <1>1, <2>1 DEF Unread, Has
  <2> QED BY <1>3, <1>4, <1>5, <1>6, <2>1, <2>2, StaleSame DEF EchoSeen
<1>8. CASE RxEcho
  <2>1. up[1][1] = "echo" /\ 1 \in 1 .. Len(up) /\ UNCHANGED ready
    BY <1>1, <1>8 DEF RxEcho, Received
  <2>2. ~Outstanding
    BY <2>1 DEF StaleInv, Has
  <2>3. ~Answering(up)
    <3>1. ASSUME NEW i \in 1 .. Len(up), IsAnswer(up[i]) PROVE FALSE
      <4>1. i < 1
        BY <2>1, <3>1 DEF StaleInv, AnswerFirst
      <4> QED BY <4>1
    <3> QED BY <3>1 DEF Answering
  <2> QED BY <1>5, <1>6, <2>2, <2>3 DEF StaleInv
<1>9. CASE ttytail_rx_eui64 \/ ttytail_rx_packet \/ ttytail_rx_timestamp
  <2>1. UNCHANGED <<echo_off, ready>>
    BY <1>9 DEF ttytail_rx_eui64, ttytail_rx_packet, ttytail_rx_timestamp
  <2>2. Unread => Unread'
    BY <1>2, <1>4, <2>1 DEF Unread
  <2> QED BY <1>3, <1>4, <1>5, <1>6, <2>1, <2>2, StaleSame DEF EchoSeen
<1> QED BY <1>7, <1>8, <1>9 DEF Receiver

(* The device answers.                                                     *)
LEMMA StaleAnswers ==
    ASSUME TypeInv, TypeInv', BufferInv, OneInv, OneInv', StaleInv, tx_poll
    PROVE  StaleInv'
<1>1. pending /\ ~pending' /\ UNCHANGED <<opener, echo_off>> /\ Todo' = Todo
  BY TodoStays DEF tx_poll, Printing, driver
<1>2. Outstanding
  BY <1>1 DEF Outstanding
<1>3. ~Outstanding'
  BY <1>1 DEF Outstanding, OneInv
<1>4. ~(EchoSeen \/ opener \in {"eui", "rx"})
  BY <1>2 DEF StaleInv
<1>5. AnswerFirst(up')
  <2>1. txtime \in 1 .. TxFrames
    BY <1>1 DEF TypeInv, DeviceType, None
  <2>2. PICK l : l = <<"time", <<"tx", txtime>>>> /\ up' = Append(up, l)
    BY DEF tx_poll
  <2>3. <<"tx", txtime>> \in Times
    BY <2>1 DEF Times
  <2>4. l \in Line
    BY <2>2, <2>3, Kinds
  <2>5. PICK u : u = up' /\ u = Append(up, l)
    BY <2>2
  <2>6. AnswerFirst(up) /\ (IsAnswer(l) => ~Has(up, "echo")) => AnswerFirst(u)
    BY <2>4, <2>5, OneMoreLine DEF TypeInv, UpType
  <2> QED BY <1>2, <2>5, <2>6 DEF StaleInv
<1> QED BY <1>1, <1>3, <1>4, <1>5 DEF StaleInv, EchoSeen

(* Nothing is left of a transmission when an echo is answered, unless the  *)
(* input is lost when there is an echo to be answered.                     *)
LEMMA StaleKept ==
    ASSUME TypeInv, TypeInv', BufferInv, EchoInv, OneInv, OneInv', StaleInv,
           [Next]_vars, ~clobbered', faults' <= 1,
           LoseInput => opener # "echo" /\ (opener = "ready" => Unread)
    PROVE  StaleInv'
<1>1. UNCHANGED up => Mild(up', up)
  BY DEF Mild
<1>2. ASSUME UNCHANGED <<opener, echo_off, ready, faults, pending>>, Todo' = Todo, Mild(up', up),
             \A w \in {"ready", "echo"} : Has(up', w) => Has(up, w)
      PROVE  StaleInv'
  <2>1. AnswerFirst(up') /\ (Answering(up') => Answering(up)) /\ (EchoSeen' => EchoSeen)
    BY <1>2 DEF Mild, StaleInv, EchoSeen
  <2>2. (Outstanding' <=> Outstanding) /\ (Purged' <=> Purged) /\ (Unread => Unread')
    BY <1>2 DEF Outstanding, Purged, Unread
  <2> QED BY <1>2, <2>1, <2>2, StaleSame
<1>3. CASE OpenWorker
  BY <1>3, StaleOpens
<1>4. CASE Receiver
  BY <1>4, StaleReceived
<1>5. CASE cli_read
  BY <1>5, StaleReads
<1>6. CASE tx_poll
  BY <1>6, StaleAnswers
<1>7. CASE TxWorker \/ cli_read_end \/ txrx_txdone \/ txrx_rxdone \/ ttytail_stop \/ UNCHANGED vars
  <2>1. UNCHANGED <<opener, echo_off, ready, faults, pending, up>>
    BY <1>7 DEF TxWorker, WorkerWrite, WorkerCount, ttytail_write_wakeup, cli_read_end, txrx_txdone, txrx_rxdone,
                ttytail_stop, vars, driver, cli, hist
  <2>2. Todo' = Todo
    BY <1>7, TodoStays
  <2> QED BY <1>1, <1>2, <2>1, <2>2
<1>8. CASE PrintPacket \/ PrintTime
  <2>1. UNCHANGED <<opener, echo_off, ready, faults, pending>>
    BY <1>8 DEF PrintPacket, PrintTime, driver, hist
  <2>2. Todo' = Todo
    BY <1>8, TodoStays DEF Printing
  <2>3. PICK l \in Line : up' = Append(up, l) /\ (tx_poll \/ (~IsAnswer(l) /\ l[1] \in {"packet", "time"}))
    <3>1. ~Restart
      <4>1. Restart => faults' = faults + 1 /\ faults \in Nat
        BY DEF Restart, Fault, TypeInv, LogType
      <4> QED BY <2>1, <4>1
    <3> QED BY <1>8, <3>1, LinesAdded DEF Printing
  <2>4. CASE ~IsAnswer(l) /\ l[1] \in {"packet", "time"}
    <3>1. PICK v : v = up' /\ v = Append(up, l)
      BY <2>3
    <3>2. Mild(v, up)
      BY <2>4, <3>1, MildAppend DEF TypeInv, UpType
    <3>3. \A w : Has(v, w) <=> Has(up, w) \/ l[1] = w
      BY <3>1, OneMoreLine DEF TypeInv, UpType
    <3> QED BY <1>2, <2>1, <2>2, <2>4, <3>1, <3>2, <3>3
  <2> QED BY <1>6, <2>3, <2>4
<1>9. CASE LoseLine
  <2>1. UNCHANGED <<opener, echo_off, pending>> /\ Todo' = Todo /\ faults = 0
    BY <1>9, TodoStays DEF LoseLine, Fault, driver, cli, TypeInv, LogType
  <2>2. Within(up', up) /\ Len(up) \in Nat /\ Len(up') \in Nat
    <3>1. Within(up', up) /\ Len(up) \in Nat /\ Len(up') = Len(up) - 1 /\ \E k \in 1 .. Len(up) : TRUE
      BY <1>9, LossWithin
    <3> QED BY <3>1
  <2>3. Mild(up', up)
    BY <2>2, MildWithin
  <2>4. /\ \A w : Has(up', w) => Has(up, w)
        /\ \A v, w : NoneBehind(up, v, w) => NoneBehind(up', v, w)
    BY <2>2, WithinKeeps
  <2>5. AnswerFirst(up') /\ (Answering(up') => Answering(up)) /\ (EchoSeen' => EchoSeen)
    BY <2>1, <2>3 DEF Mild, StaleInv, EchoSeen
  <2>6. (Outstanding' <=> Outstanding) /\ (Purged' <=> Purged) /\ ~(faults = 1)
    BY <2>1 DEF Outstanding, Purged
  <2> QED BY <2>1, <2>4, <2>5, <2>6, StaleSame
<1>10. CASE LoseInput
  <2>1. UNCHANGED <<opener, echo_off, ready, pending, up>> /\ faults' = 1
    BY <1>10 DEF LoseInput, Fault, driver, cli, TypeInv, LogType
  <2>2. PICK t, u : t = Todo /\ u = Todo' /\ Len(t) \in Nat /\ Len(u) \in Nat /\ Within(u, t)
    BY <1>10, TodoShape, TodoLost
  <2>3. /\ \A w : Begun(u, w) => Begun(t, w)
        /\ \A v, w : InFront(t, v, w) => InFront(u, v, w)
    BY <2>2, FewerBegun
  <2>4. (Outstanding' => Outstanding) /\ (Begun(Todo', "echo") => Begun(Todo, "echo")) /\ (Unread => Unread')
    BY <2>1, <2>2, <2>3 DEF Outstanding, Unread
  <2>5. AnswerFirst(up') /\ (Answering(up') => Answering(up)) /\ (EchoSeen' => EchoSeen)
    BY <2>1 DEF StaleInv, EchoSeen
  <2> QED BY <1>10, <2>1, <2>4, <2>5, StaleSame
<1>11. CASE Restart
  <2>1. UNCHANGED <<opener, echo_off>> /\ ~pending' /\ up' = Append(up, <<"ready">>) /\ faults = 0
    BY <1>11 DEF Restart, Fault, driver, cli_init, TypeInv, LogType
  <2>2. PICK k \in 0 .. Len(Todo) : Behind(Todo', Todo, k)
    BY <1>11, TodoRestarted
  <2>3. PICK t, u : t = Todo /\ u = Todo' /\ Len(t) \in Nat /\ Len(u) \in Nat /\ Within(u, t)
    BY <2>2, TodoShape, BehindKeeps
  <2>4. \A w : Begun(u, w) => Begun(t, w)
    BY <2>3, FewerBegun
  <2>5. Outstanding' => Outstanding /\ (Purged => Purged')
    BY <2>1, <2>2, <2>3, <2>4, PurgedBehind DEF Outstanding
  <2>6. PICK l \in Line : l = <<"ready">> /\ up' = Append(up, l)
    BY <2>1, Kinds
  <2>7. l[1] = "ready" /\ ~IsAnswer(l)
    BY <2>6 DEF IsAnswer
  <2>8. PICK v : v = up' /\ v = Append(up, l)
    BY <2>6
  <2>9. Mild(v, up)
    BY <2>7, <2>8, MildAppend DEF TypeInv, UpType
  <2>10. \A w : Has(v, w) <=> Has(up, w) \/ l[1] = w
    BY <2>8, OneMoreLine DEF TypeInv, UpType
  <2>11. AnswerFirst(up') /\ (Answering(up') => Answering(up)) /\ (EchoSeen' => EchoSeen)
    BY <2>1, <2>8, <2>9 DEF Mild, StaleInv, EchoSeen
  <2>12. Has(up', "echo") => Has(up, "echo")
    BY <2>7, <2>8, <2>10
  <2> QED BY <2>1, <2>3, <2>4, <2>5, <2>11, <2>12, StaleSame
<1>12. CASE Reopen
  <2>1. opener \in {"registered", "failed"} /\ opener' = "reset" /\ UNCHANGED <<up, pending>>
    BY <1>12 DEF Reopen, cli
  <2>2. PICK t, u : t = Todo /\ u = Todo' /\ Len(t) \in Nat /\ Len(u) \in Nat /\ Len(u) <= Len(t)
                    /\ \A i \in 1 .. Len(u) : u[i] = t[i]
    BY <1>12, TodoShape, TodoReopened
  <2>3. Within(u, t)
    BY ONLY <2>2, PrefixKeeps
  <2>4. \A w : Begun(u, w) => Begun(t, w)
    BY <2>2, <2>3, FewerBegun
  <2>5. (Outstanding' => Outstanding) /\ (Begun(Todo', "echo") => Begun(Todo, "echo"))
    BY <2>1, <2>2, <2>4 DEF Outstanding
  <2> QED BY <2>1, <2>5 DEF StaleInv, EchoSeen
<1>13. CASE ttytail_xmit_async
  <2>1. opener = "registered" /\ UNCHANGED <<opener, up, clibuf, down>> /\ ttytail_tx_start("tx", taken + 1)
    BY <1>13 DEF ttytail_xmit_async, cli
  <2>2. /\ Todo' = WithCommand(Todo, "tx", taken + 1)
        /\ <<"tx", taken + 1, 1>> \in Piece /\ <<"tx", taken + 1, 2>> \in Piece
    BY <2>1, StartAdds DEF BufferInv
  <2>3. EchoFree'
    BY <2>1, <2>2, EchoMore DEF EchoInv
  <2> QED BY <2>1, <2>3 DEF StaleInv, EchoFree, EchoSeen
<1> QED BY <1>3, <1>4, <1>5, <1>6, <1>7, <1>8, <1>9, <1>10, <1>11, <1>12, <1>13 DEF Next, Reading, Printing, PollNothing

-----------------------------------------------------------------------------
(* While there is no fault: a device that listens or sends is not reset.   *)
LEMMA SteadySame ==
    ASSUME TypeInv, TypeInv', Steady,
           Has(up', "ready") => Has(up, "ready"),
           opener' \in {"reset", "ready"} => ~ready',
           opener' \notin {"echo", "eui"},
           Within(Todo', Todo),
           Active' => Active \/ ~Begun(Todo, "eui")
    PROVE  Steady'
<1>1. PICK t, u : t = Todo /\ u = Todo' /\ Len(t) \in Nat /\ Len(u) \in Nat /\ Within(u, t)
  BY TodoShape
<1>2. /\ \A w : Begun(u, w) => Begun(t, w)
      /\ \A v, w : InFront(t, v, w) => InFront(u, v, w)
  BY <1>1, FewerBegun
<1> QED BY <1>1, <1>2 DEF Steady

LEMMA LiveOpens ==
    ASSUME TypeInv, TypeInv', BufferInv, OpenInv, LiveInv, OpenWorker \/ ttytail_xmit_async,
           faults' = 0, ~clobbered', ~clobbered, Live'
    PROVE  Steady'
<1>0. UNCHANGED <<up, clibuf, down, faults, rxactive, radio, rxcomplete, where, pending>>
  BY DEF OpenWorker, ttytail_reset, ConfigEcho, ConfigEui, ConfigRx, Register, Timeout, Advance, cli, hist, ttytail_xmit_async
<1>1. Active' = Active /\ faults = 0 /\ HandshakeInv
  BY <1>0 DEF Active, OpenInv, Unbroken
<1>2. ASSUME NEW c, NEW f, ttytail_tx_start(c, f)
      PROVE  /\ \A w : Begun(Todo', w) <=> Begun(Todo, w) \/ w = c
             /\ \A v, w : InFront(Todo, v, w) /\ (v = c => w # c /\ ~Begun(Todo, w)) => InFront(Todo', v, w)
  <2>1. wrote # 0 => Counting
    BY DEF BufferInv
  <2>2. /\ Todo' = WithCommand(Todo, c, f)
        /\ <<c, f, 1>> \in Piece /\ <<c, f, 2>> \in Piece
    BY <1>0, <1>2, <2>1, StartAdds
  <2>3. PICK t, u : t \in Seq(Piece) /\ t = Todo /\ u = Todo' /\ u = WithCommand(t, c, f)
    BY <2>2, TodoShape
  <2>4. /\ \A w : Begun(u, w) <=> Begun(t, w) \/ w = c
        /\ \A v, w : InFront(t, v, w) /\ (v = c => w # c /\ ~Begun(t, w)) => InFront(u, v, w)
    BY <2>2, <2>3, OneMoreCommand
  <2> QED BY <2>3, <2>4
<1>3. CASE ttytail_reset
  <2>1. opener = "reset" /\ opener' = "ready" /\ ~ready' /\ ttytail_tx_start("reset", None)
    BY <1>3 DEF ttytail_reset, Advance
  <2>2. Live
    BY <1>1, <1>2, <2>1 DEF Live
  <2>3. Steady
    BY <1>1, <2>2 DEF LiveInv
  <2> QED BY <1>0, <1>1, <1>2, <2>1, <2>3 DEF Steady
<1>4. CASE ConfigEcho
  <2>1. opener = "ready" /\ ready /\ ttytail_tx_start("echo", None)
    BY <1>4 DEF ConfigEcho, Advance
  <2>2. Live
    BY <1>1, <1>2, <2>1 DEF Live
  <2> QED BY <1>1, <2>1, <2>2 DEF LiveInv, Steady
<1>5. CASE ConfigEui
  <2>1. opener = "echo" /\ ttytail_tx_start("eui", None)
    BY <1>5 DEF ConfigEui, Advance
  <2>2. Live
    BY <1>1, <1>2, <2>1 DEF Live
  <2> QED BY <1>1, <2>1, <2>2 DEF LiveInv, Steady
<1>6. ASSUME NEW c \in {"rx", "tx"}, NEW f, ttytail_tx_start(c, f), Clean, opener' \in {"rx", "registered"},
             ~Live \/ opener # "eui"
      PROVE  Steady'
  <2>1. ~Has(up, "ready") /\ ~Begun(Todo, "echo") /\ ~Begun(Todo, "reset")
    BY <1>6 DEF Clean, Begun, Has, Starts
  <2>2. InFront(Todo, "eui", "rx") /\ InFront(Todo, "eui", "tx") /\ (Active => ~Begun(Todo, "eui"))
    <3>1. CASE Live
      BY <1>1, <3>1 DEF LiveInv, Steady
    <3>2. CASE ~Live
      BY <3>2 DEF Live, InFront, Begun
    <3> QED BY <3>1, <3>2
  <2>3. ~Begun(Todo', "echo") /\ ~Begun(Todo', "reset")
    BY <1>2, <1>6, <2>1
  <2>4. InFront(Todo', "eui", "rx") /\ InFront(Todo', "eui", "tx") /\ (Active' => ~Begun(Todo', "eui"))
    BY <1>1, <1>2, <1>6, <2>2
  <2>5. InFront(Todo', "rx", "reset") /\ InFront(Todo', "tx", "reset")
    BY <2>3 DEF InFront, Begun
  <2> QED BY <1>0, <1>6, <2>1, <2>3, <2>4, <2>5 DEF Steady
<1>7. CASE ConfigRx
  <2>1. opener = "eui" /\ opener' = "rx" /\ ttytail_tx_start("rx", None)
    BY <1>7 DEF ConfigRx, Advance
  <2>2. Clean
    BY <1>1, <2>1 DEF HandshakeInv
  <2>3. ~Live
    BY <1>1, <2>1 DEF LiveInv, Steady
  <2> QED BY <1>6, <2>1, <2>2, <2>3
<1>8. CASE ttytail_xmit_async
  <2>1. opener = "registered" /\ opener' = "registered" /\ ttytail_tx_start("tx", taken + 1)
    BY <1>8 DEF ttytail_xmit_async
  <2>2. Clean
    BY <1>1, <2>1 DEF HandshakeInv
  <2> QED BY <1>6, <2>1, <2>2
<1>9. CASE Register \/ Timeout
  <2>1. Todo' = Todo /\ opener' \in {"registered", "failed"}
    BY <1>9, TodoStays DEF Register, Advance, Timeout
  <2>2. Live
    BY <1>1, <2>1 DEF Live
  <2>3. Steady
    BY <1>1, <2>2 DEF LiveInv
  <2> QED BY <1>0, <1>1, <2>1, <2>3 DEF Steady
<1> QED BY <1>3, <1>4, <1>5, <1>7, <1>8, <1>9 DEF OpenWorker

LEMMA LiveReads ==
    ASSUME TypeInv, TypeInv', BufferInv, LiveInv, cli_read,
           faults' = 0, ~clobbered', ~clobbered, Live'
    PROVE  Steady'
<1>0. UNCHANGED <<opener, ready, faults>>
  BY DEF cli_read, driver, hist
<1>1. PICK k \in 0 .. Len(Todo) :
        /\ Behind(Todo', Todo, k)
        /\ DoesNothing \/ (k >= 1 /\ Todo[1][3] = 1 /\ Does(Todo[1][1], Todo[1][2]))
  BY Reads
<1>2. PICK t, u : t = Todo /\ u = Todo' /\ Len(t) \in Nat /\ Len(u) \in Nat /\ Behind(u, t, k)
  BY <1>1, TodoShape
<1>3. /\ Within(u, t)
      /\ \A i \in 1 .. Len(u) : i + k \in 1 .. Len(t) /\ u[i] = t[i + k]
  BY <1>2, BehindCommands
<1>4. \A w : Begun(u, w) => Begun(t, w)
  BY <1>2, <1>3, FewerBegun
<1>5. ASSUME k >= 1, NEW w, Starts(t, 1, w)
      PROVE  /\ Begun(t, w)
             /\ \A v : InFront(t, v, w) => ~Begun(t, v)
  <2>1. 1 \in 1 .. Len(t)
    BY <1>1, <1>2, <1>5
  <2>2. ASSUME NEW v, InFront(t, v, w), NEW i \in 1 .. Len(t), Starts(t, i, v) PROVE FALSE
    <3>1. i < 1
      BY <1>5, <2>1, <2>2 DEF InFront
    <3> QED BY <3>1
  <2> QED BY <1>5, <2>1, <2>2 DEF Begun
<1>6. Live
  <2>1. Active' => Active \/ (k >= 1 /\ (Starts(t, 1, "rx") \/ Starts(t, 1, "tx")))
    BY <1>1, <1>2 DEF DoesNothing, Does, Silent, Restarted, Listens, Sends, Active, Starts
  <2>2. Active' => Active \/ Begun(t, "rx") \/ Begun(t, "tx")
    BY <1>5, <2>1
  <2> QED BY <1>2, <1>4, <2>2 DEF Live
<1>7. Steady
  BY <1>0, <1>6 DEF LiveInv
<1>8. ASSUME NEW l \in {<<"echo">>, <<"eui">>}, up' = Append(up, l)
      PROVE  Has(up', "ready") => Has(up, "ready")
  <2>1. PICK v : v = up' /\ v = Append(up, l)
    BY <1>8
  <2>2. l \in Line /\ l[1] # "ready"
    BY <1>8, Kinds
  <2>3. \A w : Has(v, w) <=> Has(up, w) \/ l[1] = w
    BY <2>1, <2>2, OneMoreLine DEF TypeInv, UpType
  <2> QED BY <2>1, <2>2, <2>3
<1>9. ASSUME Has(up', "ready") => Has(up, "ready"), Active' => Active \/ ~Begun(Todo, "eui")
      PROVE  Steady'
  <2>1. Within(Todo', Todo)
    BY <1>2, <1>3
  <2>2. (opener' \in {"reset", "ready"} => ~ready') /\ opener' \notin {"echo", "eui"}
    BY <1>0, <1>7 DEF Steady
  <2> QED BY <1>7, <1>9, <2>1, <2>2, SteadySame
<1>10. CASE DoesNothing
  <2>1. (Active' => Active) /\ UNCHANGED up
    BY <1>10 DEF DoesNothing, Silent, Active
  <2> QED BY <1>9, <2>1
<1>11. CASE k >= 1 /\ Starts(t, 1, "reset") /\ Restarted
  <2>1. ~Begun(t, "rx") /\ ~Begun(t, "tx")
    BY <1>2, <1>5, <1>7, <1>11 DEF Steady
  <2>2. ~Live'
    BY <1>2, <1>4, <1>11, <2>1 DEF Live, Restarted
  <2> QED BY <2>2
<1>12. CASE Silent /\ (up' = Append(up, <<"echo">>) \/ up' = Append(up, <<"eui">>))
  <2>1. Active' => Active
    BY <1>12 DEF Silent, Active
  <2>2. Has(up', "ready") => Has(up, "ready")
    BY <1>8, <1>12
  <2> QED BY <1>9, <2>1, <2>2
<1>13. CASE k >= 1 /\ (Starts(t, 1, "rx") \/ Starts(t, 1, "tx")) /\ UNCHANGED up
  <2>1. ~Begun(t, "eui")
    BY <1>2, <1>5, <1>7, <1>13 DEF Steady
  <2> QED BY <1>2, <1>9, <1>13, <2>1
<1> QED BY <1>1, <1>2, <1>10, <1>11, <1>12, <1>13 DEF Does, Listens, Sends, Starts

(* Every step leaves it alone.                                             *)
LEMMA LiveKept ==
    ASSUME TypeInv, TypeInv', BufferInv, OpenInv, LiveInv, [Next]_vars
    PROVE  LiveInv'
<1>0. SUFFICES ASSUME faults' = 0, ~clobbered', Live' PROVE Steady'
  BY DEF LiveInv
<1>1. ASSUME UNCHANGED <<opener, ready, faults, clobbered>>, Todo' = Todo, Active' => Active,
             Has(up', "ready") => Has(up, "ready")
      PROVE  Steady'
  <2>1. Live
    BY <1>0, <1>1 DEF Live
  <2>2. Steady
    BY <1>0, <1>1, <2>1 DEF LiveInv
  <2> QED BY <1>1, <2>2 DEF Steady
<1>2. ~Fault
  BY <1>0 DEF Fault, TypeInv, LogType
<1>3. CASE (OpenWorker \/ ttytail_xmit_async) /\ ~clobbered
  BY <1>0, <1>3, LiveOpens
<1>4. CASE Receiver
  <2>0. UNCHANGED <<opener, faults, clobbered, rxactive, radio, rxcomplete, where, pending>>
    BY <1>4 DEF Receiver, RxReady, RxEcho, ttytail_rx_eui64, ttytail_rx_packet, ttytail_rx_timestamp, Received, cli, hist
  <2>1. Todo' = Todo /\ UNCHANGED <<opener, faults, clobbered>> /\ (Active' <=> Active)
    BY <1>4, <2>0, TodoStays DEF Active
  <2>2. /\ up # << >> /\ Len(up) \in Nat /\ Len(up) >= 1 /\ Len(up') = Len(up) - 1 /\ Head(up) = up[1]
        /\ \A i \in 1 .. Len(up) - 1 : up'[i] = up[i + 1]
        /\ Within(up', up)
    BY <1>4, TailTaken
  <2>3. /\ \A w : Has(up', w) => Has(up, w)
        /\ \A v, w : NoneBehind(up, v, w) => NoneBehind(up', v, w)
    <3>1. Len(up') \in Nat /\ Len(up) \in Nat /\ Within(up', up)
      BY <2>2
    <3> QED BY <3>1, WithinKeeps
  <2>4. CASE RxReady
    <3>1. Has(up, "ready")
      BY <2>2, <2>4 DEF RxReady, Received, Has
    <3>2. ~Live
      BY <1>0, <2>1, <3>1 DEF LiveInv, Steady
    <3> QED BY <1>0, <2>1, <3>2 DEF Live
  <2>5. CASE ~RxReady
    <3>1. UNCHANGED ready
      BY <1>4, <2>5 DEF Receiver, RxEcho, ttytail_rx_eui64, ttytail_rx_packet, ttytail_rx_timestamp
    <3> QED BY <1>1, <2>1, <2>3, <3>1
  <2> QED BY <2>4, <2>5
<1>5. CASE cli_read /\ ~clobbered
  BY <1>0, <1>5, LiveReads
<1>6. CASE TxWorker \/ cli_read_end \/ txrx_txdone \/ txrx_rxdone \/ ttytail_stop \/ UNCHANGED vars
  <2>1. UNCHANGED <<opener, ready, faults, clobbered, up>>
    BY <1>6 DEF TxWorker, WorkerWrite, WorkerCount, ttytail_write_wakeup, cli_read_end, txrx_txdone, txrx_rxdone,
                ttytail_stop, vars, driver, hist
  <2>2. Active' => Active
    BY <1>6 DEF TxWorker, WorkerWrite, WorkerCount, ttytail_write_wakeup, cli_read_end, txrx_txdone, txrx_rxdone,
                ttytail_stop, vars, cli, Active
  <2>3. Todo' = Todo
    BY <1>6, TodoStays
  <2> QED BY <1>1, <2>1, <2>2, <2>3
<1>7. CASE Printing
  <2>1. UNCHANGED <<opener, ready, faults, clobbered>> /\ (Active' => Active) /\ Todo' = Todo
    BY <1>7, TodoStays DEF Printing, tx_poll, PrintPacket, PrintTime, driver, hist, Active
  <2>2. PICK l \in Line : up' = Append(up, l) /\ (Restart \/ l[1] \in {"packet", "time"})
    BY <1>7, LinesAdded
  <2>3. PICK v : v = up' /\ v = Append(up, l)
    BY <2>2
  <2>4. \A w : Has(v, w) <=> Has(up, w) \/ l[1] = w
    BY <2>3, OneMoreLine DEF TypeInv, UpType
  <2>5. ~Restart
    BY <1>2 DEF Restart
  <2> QED BY <1>1, <2>1, <2>2, <2>3, <2>4, <2>5
<1>8. CASE Reopen
  <2>1. /\ opener' = "reset" /\ ~ready' /\ UNCHANGED <<up, faults, clobbered>> /\ Active' = Active
    BY <1>8 DEF Reopen, cli, Active
  <2>2. PICK t, u : t = Todo /\ u = Todo' /\ Len(t) \in Nat /\ Len(u) \in Nat /\ Len(u) <= Len(t)
                    /\ \A i \in 1 .. Len(u) : u[i] = t[i]
    BY <1>8, TodoShape, TodoReopened
  <2>3. Within(u, t)
    BY ONLY <2>2, PrefixKeeps
  <2>4. \A w : Begun(u, w) => Begun(t, w)
    BY <2>2, <2>3, FewerBegun
  <2>5. Live
    BY <1>0, <2>1, <2>2, <2>4 DEF Live
  <2>6. Steady
    BY <1>0, <2>1, <2>5 DEF LiveInv
  <2> QED BY <2>1, <2>2, <2>3, <2>6, SteadySame
<1>9. ~LoseLine /\ ~LoseInput /\ ~Restart
  BY <1>2 DEF LoseLine, LoseInput, Restart
<1> QED BY <1>3, <1>4, <1>5, <1>6, <1>7, <1>8, <1>9 DEF Next, Reading, PollNothing

-----------------------------------------------------------------------------
(* A timestamp comes behind its packet.                                    *)
LEMMA StampsSame ==
    ASSUME Stamped, UNCHANGED up, where' = "time" => where = "time", Expected => Expected'
    PROVE  Stamped'
  BY DEF Stamped

(* The driver takes a line: it keeps a packet whose timestamp is next.     *)
LEMMA StampsReceived ==
    ASSUME TypeInv, TypeInv', Stamped, Receiver
    PROVE  Stamped'
<1>1. /\ up # << >> /\ Len(up) \in Nat /\ Len(up) >= 1 /\ Len(up') = Len(up) - 1 /\ Head(up) = up[1]
      /\ \A i \in 1 .. Len(up) - 1 : up'[i] = up[i + 1]
      /\ Within(up', up)
  BY TailTaken
<1>2. UNCHANGED where
  BY DEF Receiver, RxReady, RxEcho, ttytail_rx_eui64, ttytail_rx_packet, ttytail_rx_timestamp, Received, cli
<1>3. up[1][1] = "packet" => Expected'
  <2>1. SUFFICES ASSUME up[1][1] = "packet" PROVE Expected'
    OBVIOUS
  <2>2. rx_skb' = up[1][2]
    BY <1>1, <2>1 DEF Receiver, RxReady, RxEcho, ttytail_rx_eui64, ttytail_rx_packet, ttytail_rx_timestamp, Received
  <2>3. up[1] \in Line
    BY <1>1, ElementOfSeq DEF TypeInv, UpType
  <2>4. up[1][2] \in 1 .. RxFrames
    BY <2>1, <2>3, Kinds
  <2> QED BY <2>2, <2>4 DEF Expected, None
<1>4. ASSUME NEW i \in 1 .. Len(up'), IsStamp(up'[i])
      PROVE  IF i = 1 THEN Expected' ELSE up'[i - 1][1] = "packet"
  <2>1. i + 1 \in 1 .. Len(up) /\ i + 1 # 1 /\ (i + 1) - 1 = i /\ up'[i] = up[i + 1]
    BY <1>1
  <2>2. up[i][1] = "packet"
    BY <1>4, <2>1 DEF Stamped
  <2>3. CASE i = 1
    BY <1>3, <2>2, <2>3
  <2>4. CASE i # 1
    <3>1. i - 1 \in 1 .. Len(up) - 1 /\ (i - 1) + 1 = i
      BY <1>1, <2>4
    <3>2. up'[i - 1] = up[i]
      BY <1>1, <3>1
    <3> QED BY <2>2, <2>4, <3>2
  <2> QED BY <2>3, <2>4
<1>5. ASSUME where' = "time"
      PROVE  IF Len(up') = 0 THEN Expected' ELSE up'[Len(up')][1] = "packet"
  <2>1. up[Len(up)][1] = "packet"
    BY <1>1, <1>2, <1>5 DEF Stamped
  <2>2. CASE Len(up') = 0
    <3>1. Len(up) = 1
      BY <1>1, <2>2
    <3> QED BY <1>3, <2>1, <2>2, <3>1
  <2>3. CASE Len(up') # 0
    <3>1. Len(up') \in 1 .. Len(up) - 1 /\ Len(up') + 1 = Len(up)
      BY <1>1, <2>3
    <3>2. up'[Len(up')] = up[Len(up)]
      BY <1>1, <3>1
    <3> QED BY <2>1, <2>3, <3>2
  <2> QED BY <2>2, <2>3
<1> QED BY <1>4, <1>5 DEF Stamped

(* Another line comes: a timestamp comes when it is its turn.              *)
LEMMA StampsAdded ==
    ASSUME TypeInv, Stamped, NEW l \in Line, up' = Append(up, l),
           IsStamp(l) => where = "time",
           where' = "time" => l[1] = "packet",
           Expected => Expected'
    PROVE  Stamped'
<1>1. Len(up) \in Nat /\ Len(up') = Len(up) + 1 /\ up'[Len(up) + 1] = l
      /\ \A i \in 1 .. Len(up) : up'[i] = up[i]
  <2>1. UpType
    BY DEF TypeInv
  <2> QED BY <2>1, AppendShape
<1>2. ASSUME NEW i \in 1 .. Len(up'), IsStamp(up'[i])
      PROVE  IF i = 1 THEN Expected' ELSE up'[i - 1][1] = "packet"
  <2>1. CASE i = Len(up) + 1
    <3>1. IF Len(up) = 0 THEN Expected ELSE up[Len(up)][1] = "packet"
      BY <1>1, <1>2, <2>1 DEF Stamped
    <3>2. CASE i = 1
      BY <1>1, <2>1, <3>1, <3>2
    <3>3. CASE i # 1
      <4>1. i - 1 = Len(up) /\ Len(up) \in 1 .. Len(up)
        BY <1>1, <2>1, <3>3
      <4> QED BY <1>1, <3>1, <3>3, <4>1
    <3> QED BY <3>2, <3>3
  <2>2. CASE i \in 1 .. Len(up)
    <3>1. IF i = 1 THEN Expected ELSE up[i - 1][1] = "packet"
      BY <1>1, <1>2, <2>2 DEF Stamped
    <3>2. i # 1 => i - 1 \in 1 .. Len(up)
      BY <1>1, <2>2
    <3> QED BY <1>1, <3>1, <3>2
  <2> QED BY <1>1, <2>1, <2>2
<1> QED BY <1>1, <1>2 DEF Stamped

(* A line is lost that is not about a reception.                           *)
LEMMA StampsLost ==
    ASSUME TypeInv, TypeInv', Stamped, LoseLine, ~mixed'
    PROVE  Stamped'
<1>1. UNCHANGED where /\ (Expected <=> Expected')
  BY DEF LoseLine, driver, cli, Expected, Early
<1>2. /\ Within(up', up) /\ Len(up) \in Nat /\ Len(up') = Len(up) - 1
      /\ \E k \in 1 .. Len(up) :
           /\ \A j \in 1 .. Len(up) - 1 : up'[j] = up[IF j < k THEN j ELSE j + 1]
           /\ mixed' = (mixed \/ AboutReception(up[k]))
  BY LossWithin
<1>3. PICK k \in 1 .. Len(up) :
        /\ \A j \in 1 .. Len(up) - 1 : up'[j] = up[IF j < k THEN j ELSE j + 1]
        /\ mixed' = (mixed \/ AboutReception(up[k]))
  BY <1>2
<1>4. up[k][1] # "packet"
  BY <1>3 DEF AboutReception
<1>5. ASSUME NEW i \in 1 .. Len(up'), IsStamp(up'[i])
      PROVE  IF i = 1 THEN Expected' ELSE up'[i - 1][1] = "packet"
  <2>1. CASE i < k
    <3>1. up'[i] = up[i] /\ i \in 1 .. Len(up)
      BY <1>2, <1>3, <2>1
    <3>2. IF i = 1 THEN Expected ELSE up[i - 1][1] = "packet"
      BY <1>5, <3>1 DEF Stamped
    <3>3. i # 1 => up'[i - 1] = up[i - 1]
      BY <1>2, <1>3, <2>1
    <3> QED BY <1>1, <3>2, <3>3
  <2>2. CASE ~(i < k)
    <3>0. i \in 1 .. Len(up) - 1 /\ i + 1 \in 1 .. Len(up) /\ i + 1 # 1 /\ (i + 1) - 1 = i
      BY <1>2
    <3>1. up'[i] = up[i + 1]
      BY <1>3, <2>2, <3>0
    <3>2. up[i][1] = "packet"
      BY <1>5, <3>0, <3>1 DEF Stamped
    <3>3. i # k
      BY <1>4, <3>2
    <3>4. i # 1 /\ i - 1 \in 1 .. Len(up) - 1 /\ ~(i - 1 < k) /\ (i - 1) + 1 = i
      BY <1>2, <2>2, <3>3
    <3>5. up'[i - 1] = up[i]
      BY <1>3, <3>4
    <3> QED BY <3>2, <3>4, <3>5
  <2> QED BY <2>1, <2>2
<1>6. ASSUME where' = "time"
      PROVE  Len(up') # 0 /\ up'[Len(up')][1] = "packet"
  <2>1. up[Len(up)][1] = "packet"
    BY <1>1, <1>2, <1>6 DEF Stamped
  <2>2. Len(up) # k
    BY <1>4, <2>1
  <2>3. Len(up') # 0 /\ Len(up') \in 1 .. Len(up) - 1 /\ ~(Len(up') < k) /\ Len(up') + 1 = Len(up)
    BY <1>2, <2>2
  <2>4. up'[Len(up')] = up[Len(up)]
    BY <1>3, <2>3
  <2> QED BY <2>1, <2>3, <2>4
<1> QED BY <1>5, <1>6 DEF Stamped

(* Every step leaves it so, unless a line about a reception is lost.       *)
LEMMA StampKept ==
    ASSUME TypeInv, TypeInv', StampInv, [Next]_vars
    PROVE  StampInv'
<1>0. SUFFICES ASSUME ~mixed' PROVE Stamped'
  BY DEF StampInv
<1>1. ASSUME UNCHANGED mixed PROVE Stamped
  BY <1>0, <1>1 DEF StampInv
<1>2. UNCHANGED <<rx_skb, opener, ready>> => (Expected => Expected')
  BY DEF Expected, Early
<1>3. CASE ttytail_reset \/ ConfigEcho \/ ConfigEui \/ ConfigRx \/ Register
  <2>1. UNCHANGED <<up, where, rx_skb, mixed>>
    BY <1>3 DEF ttytail_reset, ConfigEcho, ConfigEui, ConfigRx, Register, Advance, cli
  <2>2. Expected => Expected'
    BY <1>3, <2>1 DEF ttytail_reset, ConfigEcho, ConfigEui, ConfigRx, Register, Advance, Expected, Early
  <2> QED BY <1>1, <2>1, <2>2, StampsSame
<1>4. CASE Timeout
  <2>1. up' = << >> /\ where' = "poll"
    BY <1>4 DEF Timeout, Busy, cli
  <2> QED BY <2>1, EmptySeq DEF Stamped
<1>5. CASE Reopen
  <2>1. UNCHANGED <<up, where, mixed>> /\ Expected'
    BY <1>5 DEF Reopen, cli, Expected, Early
  <2> QED BY <1>1, <2>1, StampsSame
<1>6. CASE Receiver
  <2>1. UNCHANGED mixed
    BY <1>6 DEF Receiver, RxReady, RxEcho, ttytail_rx_eui64, ttytail_rx_packet, ttytail_rx_timestamp, Received, hist
  <2> QED BY <1>1, <1>6, <2>1, StampsReceived
<1>7. CASE \/ TxWorker \/ cli_read_end \/ txrx_txdone \/ txrx_rxdone \/ ttytail_stop \/ ttytail_xmit_async
           \/ LoseInput \/ UNCHANGED vars
  <2>1. UNCHANGED <<up, rx_skb, opener, ready, mixed>> /\ (where' = "time" => where = "time")
    BY <1>7 DEF TxWorker, WorkerWrite, WorkerCount, ttytail_write_wakeup, cli_read_end, txrx_txdone, txrx_rxdone,
                ttytail_stop, ttytail_xmit_async, LoseInput, vars, driver, cli, hist
  <2> QED BY <1>1, <1>2, <2>1, StampsSame
<1>8. CASE cli_read
  <2>1. UNCHANGED <<rx_skb, opener, ready, mixed>> /\ where # "time"
    BY <1>8 DEF cli_read, driver, hist
  <2>2. where' # "time" /\ (UNCHANGED up \/ \E l \in {<<"ready">>, <<"echo">>, <<"eui">>} : up' = Append(up, l))
    BY <1>8 DEF cli_read, Execute, fn_reset, cli_init, fn_echo, fn_config_eui, fn_rx, fn_tx
  <2>3. CASE UNCHANGED up
    BY <1>1, <1>2, <2>1, <2>2, <2>3, StampsSame
  <2>4. ASSUME NEW l \in {<<"ready">>, <<"echo">>, <<"eui">>}, up' = Append(up, l)
        PROVE  Stamped'
    <3>1. l \in Line /\ ~IsStamp(l)
      BY <2>4, Kinds DEF IsStamp
    <3> QED BY <1>1, <1>2, <2>1, <2>2, <2>4, <3>1, StampsAdded
  <2> QED BY <2>2, <2>3, <2>4
<1>9. CASE Printing \/ Restart
  <2>1. UNCHANGED <<rx_skb, opener, ready>>
    BY <1>9 DEF Printing, tx_poll, PrintPacket, PrintTime, Restart, driver
  <2>2. ~mixed
    BY <1>0, <1>9 DEF Printing, tx_poll, PrintPacket, PrintTime, Restart, hist, TypeInv, LogType
  <2>3. PICK l \in Line :
          /\ up' = Append(up, l)
          /\ \/ Restart /\ l[1] = "ready" /\ l = <<"ready">> /\ ~IsAnswer(l)
             \/ tx_poll /\ l = <<"time", <<"tx", txtime>>>> /\ l[1] = "time" /\ IsAnswer(l) /\ l[2][2] = txtime
             \/ PrintPacket /\ l[1] = "packet" /\ ~IsAnswer(l)
             \/ PrintTime /\ l[1] = "time" /\ ~IsAnswer(l)
    BY <1>9, LinesAdded
  <2>4. IsStamp(l) => where = "time"
    BY <2>3 DEF IsStamp, IsAnswer, PrintTime
  <2>5. where' = "time" => l[1] = "packet"
    BY <2>3 DEF Restart, cli_init, tx_poll, PrintTime
  <2>6. Stamped
    BY <2>2 DEF StampInv
  <2> QED BY <1>2, <2>1, <2>3, <2>4, <2>5, <2>6, StampsAdded
<1>10. CASE LoseLine
  <2>1. ~mixed
    BY <1>0, <1>10 DEF LoseLine, TypeInv, LogType
  <2> QED BY <1>0, <1>10, <2>1, StampsLost DEF StampInv
<1> QED BY <1>3, <1>4, <1>5, <1>6, <1>7, <1>8, <1>9, <1>10 DEF Next, OpenWorker, Reading, PollNothing

-----------------------------------------------------------------------------
(* What has gone wrong stays so.                                           *)
LEMMA FaultsStay ==
    ASSUME TypeInv, TypeInv', [Next]_vars
    PROVE  /\ faults' \in {faults, faults + 1} /\ faults \in Nat /\ (mixed => mixed') /\ (clobbered => clobbered')
           /\ Trusted' => Trusted /\ ~clobbered'
<1>1. faults' \in {faults, faults + 1} /\ (mixed => mixed') /\ (clobbered => clobbered')
  <2>1. CASE LoseLine \/ LoseInput \/ Restart
    <3>1. faults' = faults + 1 /\ clobbered' = clobbered
      BY <2>1 DEF LoseLine, LoseInput, Restart, Fault
    <3>2. mixed => mixed'
      <4>1. LoseLine => \E b \in BOOLEAN : mixed' = (mixed \/ b)
        BY DEF LoseLine, AboutReception
      <4>2. LoseInput => mixed' = mixed
        BY DEF LoseInput
      <4>3. Restart => mixed' = (mixed \/ where = "time")
        BY DEF Restart
      <4> QED BY <2>1, <4>1, <4>2, <4>3
    <3> QED BY <3>1, <3>2
  <2>2. CASE OpenWorker \/ TxWorker \/ ttytail_xmit_async \/ Reopen \/ ttytail_stop
    <3>1. faults' = faults /\ mixed' = mixed
      BY <2>2 DEF OpenWorker, ttytail_reset, ConfigEcho, ConfigEui, ConfigRx, Register, Timeout, Advance,
                  TxWorker, WorkerWrite, WorkerCount, ttytail_write_wakeup, ttytail_xmit_async, Reopen, ttytail_stop, hist
    <3>2. UNCHANGED clobbered \/ \E c, f : ttytail_tx_start(c, f)
      BY <2>2 DEF OpenWorker, ttytail_reset, ConfigEcho, ConfigEui, ConfigRx, Register, Timeout,
                  TxWorker, WorkerWrite, WorkerCount, ttytail_write_wakeup, ttytail_xmit_async, Reopen, ttytail_stop, hist
    <3>3. ASSUME clobbered PROVE clobbered'
      <4>1. CASE UNCHANGED clobbered
        BY <3>3, <4>1
      <4>2. ASSUME NEW c, NEW f, ttytail_tx_start(c, f) PROVE clobbered'
        <5>1. clobbered' = (clobbered \/ ~ttytail_tx_idle \/ Counting)
          BY <4>2 DEF ttytail_tx_start
        <5> QED BY <3>3, <5>1
      <4> QED BY <3>2, <4>1, <4>2
    <3> QED BY <3>1, <3>3
  <2>3. CASE Receiver \/ Reading \/ Printing \/ txrx_txdone \/ txrx_rxdone \/ UNCHANGED vars
    BY <2>3 DEF Receiver, RxReady, RxEcho, ttytail_rx_eui64, ttytail_rx_packet, ttytail_rx_timestamp, Received,
                Reading, cli_read, cli_read_end, Printing, tx_poll, PrintPacket, PrintTime,
                txrx_txdone, txrx_rxdone, vars, hist
  <2> QED BY <2>1, <2>2, <2>3 DEF Next, PollNothing
<1>2. faults \in Nat
  BY DEF TypeInv, LogType
<1>3. Trusted' => Trusted /\ ~clobbered'
  <2>1. faults' <= 1 => faults <= 1
    BY <1>1, <1>2
  <2> QED BY <1>1, <2>1 DEF Trusted
<1> QED BY <1>1, <1>2, <1>3

(* The timestamp that completes a transmission is an answer.               *)
LEMMA CompletedByAnswer ==
    ASSUME TypeInv, StampInv, OneInv, ~mixed, ttytail_rx_timestamp, rx_skb = None, tx_skb # None
    PROVE  IsAnswer(up[1]) /\ opener = "registered" /\ 1 \in 1 .. Len(up)
<1>1. /\ up # << >> /\ Len(up) \in Nat /\ Len(up) >= 1 /\ Len(up') = Len(up) - 1 /\ Head(up) = up[1]
      /\ \A i \in 1 .. Len(up) - 1 : up'[i] = up[i + 1]
      /\ Within(up', up)
  <2>1. Receiver
    BY DEF Receiver
  <2> QED BY <2>1, TailTaken
<1>2. up[1] \in Line /\ up[1][1] = "time" /\ 1 \in 1 .. Len(up)
  BY <1>1, ElementOfSeq DEF TypeInv, UpType, ttytail_rx_timestamp, Received
<1>3. up[1][2] \in Times
  BY <1>2, Kinds
<1>4. up[1][2][1] \in {"tx", "rx"}
  BY <1>3 DEF Times
<1>5. opener = "registered"
  BY DEF OneInv
<1>6. ~IsStamp(up[1])
  BY <1>2, <1>5 DEF StampInv, Stamped, Expected, Early
<1> QED BY <1>2, <1>4, <1>5, <1>6 DEF IsAnswer, IsStamp

(* The invariants of transmissions, as long as one can trust them.         *)
LEMMA LinkKept ==
    ASSUME TypeInv, TypeInv', BufferInv, LiveInv, StampInv, LinkInv, [Next]_vars
    PROVE  LinkInv'
<1>0. SUFFICES ASSUME Trusted' PROVE CutInv' /\ EchoInv' /\ OneInv' /\ StaleInv'
  BY DEF LinkInv
<1>1. /\ faults' \in {faults, faults + 1} /\ faults \in Nat /\ (mixed => mixed') /\ (clobbered => clobbered')
      /\ Trusted' => Trusted /\ ~clobbered'
  BY FaultsStay
<1>2. CutInv /\ EchoInv /\ OneInv /\ StaleInv
  BY <1>0, <1>1 DEF LinkInv
<1>3. LoseInput => Steady /\ Active
  <2>1. LoseInput => faults = 0 /\ Active
    BY <1>0, <1>1 DEF LoseInput, Fault, Trusted, Active
  <2> QED BY <1>0, <1>1, <2>1 DEF LiveInv, Live, Trusted
<1>4. CutInv'
  BY <1>0, <1>1, <1>2, <1>3, CutKept DEF Steady
<1>5. EchoInv'
  BY <1>0, <1>1, <1>2, EchoKept
<1>6. OneInv'
  <2>1. ttytail_rx_timestamp /\ rx_skb = None /\ tx_skb # None => IsAnswer(up[1])
    BY <1>0, <1>1, <1>2, CompletedByAnswer DEF Trusted
  <2> QED BY <1>0, <1>1, <1>2, <2>1, OneKept
<1>7. StaleInv'
  <2>1. LoseInput => opener # "echo" /\ (opener = "ready" => Unread)
    BY <1>3 DEF Steady, Unread
  <2> QED BY <1>0, <1>1, <1>2, <1>6, <2>1, StaleKept DEF Trusted
<1> QED BY <1>4, <1>5, <1>6, <1>7

-----------------------------------------------------------------------------
(* Transmissions are numbered as they are taken.                           *)
HistInv == /\ completed \in Seq((1 .. TxFrames) \X Times)
           /\ Link!Latest(completed) \in 0 .. taken /\ tx_skb <= taken

(* All there is to know about the anchor.                                  *)
AnchorInv == /\ TypeInv /\ OpenInv /\ RxInv
             /\ BufferInv /\ LiveInv /\ StampInv /\ LinkInv /\ HistInv

LEMMA AnchorInit == Init => AnchorInv
<1> SUFFICES ASSUME Init PROVE AnchorInv
  OBVIOUS
<1>1. TypeInv /\ OpenInv /\ RxInv
  BY TypeInductive, OpenInductive, RxInductive
<1>2. /\ opener = "reset" /\ ready = FALSE /\ eui64 = FALSE /\ clibuf = << >> /\ wrote = 0 /\ where = "poll"
      /\ tx_skb = None /\ pending = FALSE /\ rxactive = FALSE /\ rxcomplete = FALSE /\ radio = "off"
      /\ up = << >> \/ up = <<<<"ready">>>>
      /\ completed = << >> /\ taken = 0
  BY DEF Init
<1>3. Len(Todo) = 0
  BY NothingTold
<1>4. \A w : ~Begun(Todo, w)
  BY <1>3 DEF Begun
<1>5. \A i \in 1 .. Len(up) : i = 1 /\ up[i] = <<"ready">> /\ up[i][1] = "ready"
  <2>1. CASE up = << >>
    BY <2>1
  <2>2. CASE up = <<<<"ready">>>>
    <3>1. Len(up) = 1 /\ up[1] = <<"ready">> /\ <<"ready">>[1] = "ready"
      BY <2>2
    <3> QED BY <3>1
  <2> QED BY <1>2, <2>1, <2>2
<1>6. BufferInv
  BY <1>2, EmptySeq DEF BufferInv
<1>7. LiveInv
  BY <1>2, <1>4 DEF LiveInv, Live, Active
<1>8. StampInv
  BY <1>2, <1>5 DEF StampInv, Stamped, IsStamp
<1>9. LinkInv
  <2>1. CutInv /\ Once(Todo, "tx")
    BY <1>3 DEF CutInv, Once
  <2>2. EchoInv
    BY <1>2, <1>4, <1>5 DEF EchoInv, EchoFree, Has
  <2>3. ~Answering(up) /\ OneAnswer(up) /\ AnswerFirst(up)
    BY <1>5 DEF Answering, OneAnswer, AnswerFirst, IsAnswer
  <2>4. ~Outstanding
    BY <1>2, <1>4 DEF Outstanding
  <2> QED BY <1>2, <2>1, <2>2, <2>3, <2>4 DEF LinkInv, OneInv, StaleInv, EchoSeen
<1>10. HistInv
  BY <1>2 DEF HistInv, Link!Latest, Link!None, None
<1> QED BY <1>1, <1>6, <1>7, <1>8, <1>9, <1>10 DEF AnchorInv

(* A transmission is completed with a timestamp of the cable's.            *)
LEMMA HistKept ==
    ASSUME TypeInv, TypeInv', HistInv, [Next]_vars
    PROVE  HistInv'
<1>1. CASE UNCHANGED <<completed, taken>> /\ tx_skb' \in {tx_skb, None}
  BY <1>1 DEF HistInv, TypeInv, DriverType, None
<1>2. CASE ttytail_xmit_async
  <2>1. completed' = completed /\ taken' = taken + 1 /\ tx_skb' = taken + 1
    BY <1>2 DEF ttytail_xmit_async, logs
  <2> QED BY <2>1 DEF HistInv, TypeInv, DriverType
<1>3. CASE ttytail_rx_timestamp /\ rx_skb = None /\ tx_skb # None
  <2>1. completed' = Append(completed, <<tx_skb, Head(up)[2]>>) /\ tx_skb' = None /\ taken' = taken
    BY <1>3 DEF ttytail_rx_timestamp, Received, hist
  <2>2. Head(up) \in Line /\ Head(up)[1] = "time"
    BY <1>3, HeadTailProperties DEF TypeInv, UpType, ttytail_rx_timestamp, Received
  <2>3. tx_skb \in 1 .. TxFrames /\ Head(up)[2] \in Times
    BY <1>3, <2>2, Kinds, TtyTailAssumption DEF TypeInv, DriverType, None
  <2>4. PICK e \in (1 .. TxFrames) \X Times : e = <<tx_skb, Head(up)[2]>> /\ e[1] = tx_skb
    <3>1. <<tx_skb, Head(up)[2]>> \in (1 .. TxFrames) \X Times /\ <<tx_skb, Head(up)[2]>>[1] = tx_skb
      BY <2>3
    <3> QED BY <3>1
  <2>5. /\ completed' \in Seq((1 .. TxFrames) \X Times)
        /\ Len(completed') = Len(completed) + 1 /\ Len(completed) \in Nat
        /\ completed'[Len(completed) + 1] = e
    BY <2>1, <2>4, AppendProperties, LenProperties DEF HistInv
  <2>6. Link!Latest(completed') = tx_skb
    <3>1. completed' # << >>
      BY <2>5, EmptySeq
    <3> QED BY <2>4, <2>5, <3>1 DEF Link!Latest
  <2>7. tx_skb \in 0 .. taken' /\ tx_skb' = 0
    BY <2>1, <2>3 DEF HistInv, TypeInv, DriverType, None
  <2>8. tx_skb' <= taken'
    BY <2>1, <2>7 DEF TypeInv, DriverType
  <2> QED BY <2>5, <2>6, <2>7, <2>8 DEF HistInv
<1>4. CASE ttytail_rx_timestamp /\ ~(rx_skb = None /\ tx_skb # None)
  BY <1>1, <1>4 DEF ttytail_rx_timestamp, Received, logs, hist
<1>5. CASE OpenWorker \/ TxWorker \/ ttytail_stop \/ Reopen
  BY <1>1, <1>5 DEF OpenWorker, ttytail_reset, ConfigEcho, ConfigEui, ConfigRx, Register, Timeout, Advance,
                    TxWorker, WorkerWrite, WorkerCount, ttytail_write_wakeup, ttytail_stop, Reopen, logs, hist
<1>6. CASE RxReady \/ RxEcho \/ ttytail_rx_eui64 \/ ttytail_rx_packet
  BY <1>1, <1>6 DEF RxReady, RxEcho, ttytail_rx_eui64, ttytail_rx_packet, Received, logs, hist
<1>7. CASE Reading \/ Printing \/ txrx_txdone \/ txrx_rxdone \/ LoseLine \/ LoseInput \/ Restart \/ UNCHANGED vars
  BY <1>1, <1>7 DEF Reading, cli_read, cli_read_end, Printing, tx_poll, PrintPacket, PrintTime, txrx_txdone, txrx_rxdone,
                    LoseLine, LoseInput, Restart, vars, driver, logs, hist
<1> QED BY <1>2, <1>3, <1>4, <1>5, <1>6, <1>7 DEF Next, Receiver, PollNothing

LEMMA AnchorInductive ==
    ASSUME AnchorInv, [Next]_vars
    PROVE  AnchorInv'
<1>1. TypeInv' /\ OpenInv' /\ RxInv'
  BY TypeInductive, OpenInductive, RxInductive DEF AnchorInv
<1>2. BufferInv' /\ LiveInv' /\ StampInv' /\ LinkInv' /\ HistInv'
  BY <1>1, BufferKept, LiveKept, StampKept, LinkKept, HistKept DEF AnchorInv
<1> QED BY <1>1, <1>2 DEF AnchorInv

-----------------------------------------------------------------------------
(* The driver reads a timestamp: it hands a frame up, completes the         *)
(* transmission, or ignores it.                                            *)
LEMMA StampStep ==
    ASSUME AnchorInv, ttytail_rx_timestamp, ~mixed', ~clobbered
    PROVE  [Link!Next]_(Link!linkVars)
<1>0. /\ UNCHANGED <<mixed, faults>> /\ Received("time")
      /\ up # << >> /\ Len(up) \in Nat /\ Len(up) >= 1 /\ Head(up) = up[1]
  <2>1. UNCHANGED <<mixed, faults>> /\ Received("time") /\ up # << >>
    BY DEF ttytail_rx_timestamp, Received, hist
  <2>2. Len(up) \in Nat /\ Len(up) >= 1 /\ Head(up) = up[1]
    BY <2>1, LenProperties, EmptySeq, HeadTailProperties DEF AnchorInv, TypeInv, UpType
  <2> QED BY <2>1, <2>2
<1>1. (faults' > 1) = (faults > 1)
  BY <1>0
<1>2. CASE rx_skb # None
  <2>1. /\ rx_skb' = None /\ delivered' = Append(delivered, <<rx_skb, Head(up)[2]>>)
        /\ UNCHANGED <<tx_skb, completed>>
    BY <1>2 DEF ttytail_rx_timestamp
  <2>2. TypeInv /\ TypeInv' /\ TogetherInv /\ OrderInv
    <3>1. Next
      <4>1. Receiver
        BY DEF Receiver
      <4> QED BY <4>1 DEF Next
    <3>2. TypeInv /\ TogetherInv /\ OrderInv
      BY <1>0 DEF AnchorInv, RxInv
    <3> QED BY <3>1, <3>2, TypeInductive
  <2>3. Head(up)[2] = <<"rx", rx_skb>> /\ Delivered < rx_skb
    BY <1>0, <1>2, <2>1, <2>2, RxInvStamp
  <2>4. rx_skb \in 1 .. (TxFrames + RxFrames)
    BY <1>2, <2>2, TtyTailAssumption DEF TypeInv, DriverType, None
  <2>5. Delivered = Link!Latest(delivered)
    BY DEF Delivered, Reception!Latest, Link!Latest, Reception!None, Link!None
  <2>6. Link!Deliver(rx_skb)
    BY <1>0, <1>1, <2>1, <2>3, <2>5 DEF Link!Deliver
  <2> QED BY <2>4, <2>6 DEF Link!Next
<1>3. CASE rx_skb = None /\ tx_skb # None
  <2>1. /\ completed' = Append(completed, <<tx_skb, Head(up)[2]>>) /\ tx_skb' = None
        /\ UNCHANGED delivered
    BY <1>3 DEF ttytail_rx_timestamp
  <2>2. up[1] \in Line /\ up[1][1] = "time"
    BY <1>0, ElementOfSeq DEF AnchorInv, TypeInv, UpType, Received
  <2>3. up[1][2] \in Times
    BY <2>2, Kinds
  <2>4. PICK s \in {"tx", "rx"}, f \in 1 .. (TxFrames + RxFrames) : up[1][2] = <<s, f>>
    BY <2>3, TtyTailAssumption DEF Times
  <2>5. up[1][2] \in Link!Stamps
    BY <2>4 DEF Link!Stamps
  <2>6. faults > 1 \/ up[1][2] = <<"tx", tx_skb>>
    <3>1. SUFFICES ASSUME ~(faults > 1) PROVE up[1][2] = <<"tx", tx_skb>>
      OBVIOUS
    <3>2. Trusted
      BY <1>0, <3>1 DEF Trusted, AnchorInv, TypeInv, LogType
    <3>3. OneInv
      BY <3>2 DEF AnchorInv, LinkInv
    <3>4. IsAnswer(up[1]) /\ opener = "registered" /\ 1 \in 1 .. Len(up)
      BY <1>3, <3>2, <3>3, CompletedByAnswer DEF Trusted, AnchorInv
    <3>5. up[1][2][1] = "tx" /\ up[1][2][2] = tx_skb
      BY <3>3, <3>4 DEF OneInv, IsAnswer
    <3> QED BY <2>4, <3>5
  <2>7. Link!Complete(up[1][2])
    BY <1>0, <1>1, <1>3, <2>1, <2>6 DEF Link!Complete, None, Link!None
  <2> QED BY <2>5, <2>7 DEF Link!Next
<1>4. CASE rx_skb = None /\ tx_skb = None
  BY <1>0, <1>1, <1>4 DEF ttytail_rx_timestamp, logs, Link!linkVars
<1> QED BY <1>2, <1>3, <1>4

(* Every step of an anchor is one of the link's.                           *)
LEMMA LinkStep ==
    ASSUME AnchorInv, [Next]_vars
    PROVE  [Link!Next]_(Link!linkVars)
<1>0. TypeInv
  BY DEF AnchorInv
<1>1. CASE mixed'
  BY <1>1 DEF Link!Next, Link!Fail
<1>2. ASSUME ~mixed', UNCHANGED <<tx_skb, completed, delivered, mixed, faults>>
      PROVE  UNCHANGED Link!linkVars
  <2>1. (faults' > 1) = (faults > 1)
    BY <1>2
  <2> QED BY <1>2, <2>1 DEF Link!linkVars
<1>3. CASE ~mixed' /\ ttytail_rx_timestamp /\ ~clobbered
  BY <1>3, StampStep
<1>4. CASE ~mixed' /\ ttytail_xmit_async
  <2>1. /\ tx_skb = None /\ taken < TxFrames /\ tx_skb' = taken + 1
        /\ UNCHANGED <<completed, delivered, mixed, faults>>
    BY <1>4 DEF ttytail_xmit_async, logs
  <2>2. taken + 1 \in 1 .. (TxFrames + RxFrames)
    BY <1>0, <2>1, TtyTailAssumption DEF TypeInv, DriverType
  <2>3. taken + 1 > Link!Latest(completed)
    BY <1>0 DEF AnchorInv, HistInv, TypeInv, DriverType
  <2>4. (faults' > 1) = (faults > 1)
    BY <2>1
  <2>5. Link!Xmit(taken + 1)
    BY <2>1, <2>3, <2>4 DEF Link!Xmit, None, Link!None
  <2> QED BY <2>2, <2>5 DEF Link!Next
<1>5. CASE ~mixed' /\ Reopen
  <2>1. tx_skb' = None /\ UNCHANGED <<completed, delivered, mixed, faults>>
    BY <1>5 DEF Reopen, logs
  <2>2. (faults' > 1) = (faults > 1)
    BY <2>1
  <2>3. Link!Abandon
    BY <2>1, <2>2 DEF Link!Abandon, None, Link!None
  <2> QED BY <2>3 DEF Link!Next
<1>6. CASE ~mixed' /\ (LoseLine \/ LoseInput \/ Restart)
  <2>1. UNCHANGED <<tx_skb, completed, delivered>> /\ faults' = faults + 1 /\ faults \in Nat
    BY <1>0, <1>6 DEF LoseLine, LoseInput, Restart, Fault, driver, logs, TypeInv, LogType
  <2>2. ~mixed
    <3>1. mixed => mixed'
      <4>1. TypeInv'
        BY <1>0, TypeInductive
      <4> QED BY <1>0, <4>1, FaultsStay
    <3> QED BY <1>6, <3>1
  <2>3. mixed' = mixed
    <3>1. mixed \in BOOLEAN /\ mixed' \in BOOLEAN
      BY <1>0, TypeInductive DEF TypeInv, LogType
    <3> QED BY <1>6, <2>2, <3>1
  <2>4. CASE faults' > 1
    <3>1. Link!Doubt
      BY <2>1, <2>3, <2>4 DEF Link!Doubt
    <3> QED BY <3>1 DEF Link!Next
  <2>5. CASE ~(faults' > 1)
    <3>1. (faults' > 1) = (faults > 1)
      BY <2>1, <2>5
    <3> QED BY <2>1, <2>3, <3>1 DEF Link!linkVars
  <2> QED BY <2>4, <2>5
<1>7. CASE \/ OpenWorker \/ TxWorker \/ RxReady \/ RxEcho \/ ttytail_rx_eui64 \/ ttytail_rx_packet
           \/ Reading \/ Printing \/ txrx_txdone \/ txrx_rxdone \/ ttytail_stop \/ UNCHANGED vars
  <2>1. UNCHANGED <<tx_skb, completed, delivered, mixed, faults>>
    <3>1. CASE OpenWorker \/ TxWorker \/ ttytail_stop \/ UNCHANGED vars
      BY <3>1 DEF OpenWorker, ttytail_reset, ConfigEcho, ConfigEui, ConfigRx, Register, Timeout, Advance, TxWorker,
                  WorkerWrite, WorkerCount, ttytail_write_wakeup, ttytail_stop, vars, driver, logs, hist
    <3>2. CASE RxReady \/ RxEcho \/ ttytail_rx_eui64 \/ ttytail_rx_packet
      BY <3>2 DEF RxReady, RxEcho, ttytail_rx_eui64, ttytail_rx_packet, Received, logs, hist
    <3>3. CASE Reading \/ Printing \/ txrx_txdone \/ txrx_rxdone
      BY <3>3 DEF Reading, cli_read, cli_read_end, Printing, tx_poll, PrintPacket, PrintTime, txrx_txdone, txrx_rxdone,
                  driver, logs, hist
    <3> QED BY <1>7, <3>1, <3>2, <3>3
  <2> QED BY <1>1, <1>2, <2>1
<1> QED BY <1>1, <1>3, <1>4, <1>5, <1>6, <1>7 DEF Next, Receiver, PollNothing

(* The driver implements the link: besides what Receptions says, as long    *)
(* as no line about a received frame is lost, every transmission that the  *)
(* network stack gets back comes with its own timestamp, though the port   *)
(* is closed and opened again over it and one other thing goes wrong: a    *)
(* line or some input lost, or a restart (ttytail.c:182-195, 456-524       *)
(* against cli.c:536-596).                                                 *)
THEOREM TransmissionsAndReceptions == Spec => LinkSpec
<1>1. Init => AnchorInv
  BY AnchorInit
<1>2. AnchorInv /\ [Next]_vars => AnchorInv'
  BY AnchorInductive
<1>3. Init => Link!Init
  <2>1. Init => /\ tx_skb = None /\ completed = << >> /\ delivered = << >>
                /\ mixed = FALSE /\ faults = 0
    BY DEF Init
  <2>2. faults = 0 => (faults > 1) = FALSE
    OBVIOUS
  <2> QED BY <2>1, <2>2 DEF Link!Init, None, Link!None
<1>4. AnchorInv /\ [Next]_vars => [Link!Next]_(Link!linkVars)
  BY LinkStep
<1> QED BY <1>1, <1>2, <1>3, <1>4, PTL DEF Spec, LinkSpec, Link!Spec
=============================================================================
