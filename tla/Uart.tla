-------------------------------- MODULE Uart --------------------------------
(***************************************************************************)
(* The serial port of the firmware, firmware/src/uart.c: uart_tx and       *)
(* uart_rx run in the main loop, LEUART0_IRQHandler interrupts them between *)
(* any two accesses to what they share.  The two ring buffers are the      *)
(* queues RingBuffer implements: the transmit queue as a sequence, the     *)
(* receive queue, whose bytes do not matter here, as its length.           *)
(*                                                                         *)
(* A byte is the number of the uart_tx call that brought it, so bytes that *)
(* leave in order leave in increasing order.                               *)
(*                                                                         *)
(* The LEUART is external: a one-byte transmit buffer (TXBL says it is     *)
(* empty), a shift register, a one-byte receive buffer.  Its interrupt is  *)
(* level triggered.  How many instructions the main loop still executes    *)
(* once the line has risen depends on the chip's clock domains, so the     *)
(* handler is entered at any time while the line is up.                    *)
(***************************************************************************)
EXTENDS Integers, Sequences

CONSTANTS TXBUFSIZE, RXBUFSIZE,  \* slots of the ring buffers
          Calls                  \* bound: calls of uart_tx in a behaviour

ASSUME UartAssumption == /\ TXBUFSIZE \in Nat \ {0, 1}
                         /\ RXBUFSIZE \in Nat \ {0, 1}
                         /\ Calls \in Nat

VARIABLES main,       \* where the main loop is in uart_tx, or "idle"
          byte,       \* the byte of that call; the last one when idle
          retry,      \* the caller repeats the call until it is accepted
          tx_active,
          ien,        \* the TXBL interrupt is enabled
          txbuf,      \* the transmit queue
          rxbuf,      \* bytes in the receive queue
          isr,        \* where the interrupt handler is, or "off"
          hwbuf,      \* the LEUART's transmit buffer: << >> or one byte
          shift,      \* its shift register: likewise
          rxdatav,    \* it has a received byte
          sent,       \* history: the bytes that have left
          accepted,   \* history: how many bytes uart_tx has taken
          stranded    \* history: a byte was queued after the transmitter
                      \* had gone idle

hw   == <<hwbuf, shift, rxdatav, sent>>
hist == <<accepted, stranded>>
vars == <<main, byte, retry, tx_active, ien, txbuf, rxbuf, isr, hw, hist>>

TXBL    == hwbuf = << >>
Pending == isr = "off" /\ (rxdatav \/ (ien /\ TXBL))

(* The main loop executes an instruction. *)
MainRuns == isr = "off"

Init == /\ main = "idle" /\ byte = 0 /\ retry = FALSE
        /\ tx_active = FALSE /\ ien = FALSE
        /\ txbuf = << >> /\ rxbuf = 0
        /\ isr = "off"
        /\ hwbuf = << >> /\ shift = << >> /\ rxdatav = FALSE /\ sent = << >>
        /\ accepted = 0 /\ stranded = FALSE

-----------------------------------------------------------------------------
(* uart_tx.  write_string and its like retry until the byte is accepted,   *)
(* the echo of the command line does not.                                  *)
Call(again) == /\ main = "idle" /\ MainRuns
               /\ byte < Calls
               /\ byte' = byte + 1
               /\ retry' = again
               /\ main' = "test"
               /\ UNCHANGED <<tx_active, ien, txbuf, rxbuf, isr, hw, hist>>

(* Mutated forms of a definition come just before it. *)
TestTXBL == /\ main = "test" /\ MainRuns
            /\ main' = IF TXBL THEN "direct" ELSE "queue"
            /\ UNCHANGED <<byte, retry, tx_active, ien, txbuf, rxbuf, isr, hw, hist>>

Test == /\ main = "test" /\ MainRuns
        /\ main' = IF tx_active THEN "queue" ELSE "direct"
        /\ UNCHANGED <<byte, retry, tx_active, ien, txbuf, rxbuf, isr, hw, hist>>

(* buf_put: refused when the queue is full. *)
Queue == /\ main = "queue" /\ MainRuns
         /\ \/ /\ Len(txbuf) < TXBUFSIZE - 1
               /\ txbuf' = Append(txbuf, byte)
               /\ accepted' = accepted + 1
               /\ stranded' = (stranded \/ ~tx_active)
               /\ main' = "idle"
            \/ /\ Len(txbuf) = TXBUFSIZE - 1
               /\ main' = IF retry THEN "test" ELSE "idle"
               /\ UNCHANGED <<txbuf, hist>>
         /\ UNCHANGED <<byte, retry, tx_active, ien, rxbuf, isr, hw>>

Direct == /\ main = "direct" /\ MainRuns
          /\ tx_active' = TRUE
          /\ main' = "enable"
          /\ UNCHANGED <<byte, retry, ien, txbuf, rxbuf, isr, hw, hist>>

Enable == /\ main = "enable" /\ MainRuns
          /\ ien' = TRUE
          /\ main' = "wait"
          /\ UNCHANGED <<byte, retry, tx_active, txbuf, rxbuf, isr, hw, hist>>

(* LEUART_Tx: wait for room, then write.  A write to a full transmit       *)
(* buffer loses one of the two bytes.                                      *)
WaitTXBL == /\ main = "wait" /\ MainRuns
            /\ TXBL
            /\ main' = "send"
            /\ UNCHANGED <<byte, retry, tx_active, ien, txbuf, rxbuf, isr, hw, hist>>

Send == /\ main = "send" /\ MainRuns
        /\ hwbuf' \in IF TXBL THEN {<<byte>>} ELSE {hwbuf, <<byte>>}
        /\ main' = "check"
        /\ accepted' = accepted + 1
        /\ UNCHANGED <<byte, retry, tx_active, ien, txbuf, rxbuf, isr, shift, rxdatav, sent, stranded>>

(* There is still room: do not expect an interrupt. *)
Check == /\ main = "check" /\ MainRuns
         /\ main' = IF TXBL THEN "clear" ELSE "idle"
         /\ UNCHANGED <<byte, retry, tx_active, ien, txbuf, rxbuf, isr, hw, hist>>

Clear == /\ main = "clear" /\ MainRuns
         /\ tx_active' = FALSE
         /\ main' = "idle"
         /\ UNCHANGED <<byte, retry, ien, txbuf, rxbuf, isr, hw, hist>>

uart_tx == Test \/ Queue \/ Direct \/ Enable \/ WaitTXBL \/ Send \/ Check \/ Clear

uart_rx == /\ main = "idle" /\ MainRuns
           /\ rxbuf > 0
           /\ rxbuf' = rxbuf - 1
           /\ UNCHANGED <<main, byte, retry, tx_active, ien, txbuf, isr, hw, hist>>

uart_prepare_sleep == ~tx_active

-----------------------------------------------------------------------------
(* LEUART0_IRQHandler.                                                     *)

Interrupt == /\ Pending
             /\ isr' = "rx"
             /\ UNCHANGED <<main, byte, retry, tx_active, ien, txbuf, rxbuf, hw, hist>>

(* Received bytes are queued, or dropped when the queue is full. *)
IsrReceive == /\ isr = "rx"
              /\ \/ /\ rxdatav
                    /\ rxdatav' = FALSE
                    /\ rxbuf' = IF rxbuf < RXBUFSIZE - 1 THEN rxbuf + 1 ELSE rxbuf
                    /\ UNCHANGED isr
                 \/ /\ ~rxdatav
                    /\ isr' = "tx"
                    /\ UNCHANGED <<rxbuf, rxdatav, hist>>
              /\ UNCHANGED <<main, byte, retry, tx_active, ien, txbuf, hwbuf, shift, sent, hist>>

IsrTransmitClears == /\ isr = "tx"
                     /\ TXBL /\ txbuf # << >>
                     /\ hwbuf' = <<Head(txbuf)>>
                     /\ txbuf' = Tail(txbuf)
                     /\ tx_active' = FALSE
                     /\ UNCHANGED <<main, byte, retry, ien, rxbuf, isr, shift, rxdatav, sent, hist>>

(* While there is room in the LEUART: the next byte of the queue. *)
IsrTransmit == /\ isr = "tx"
               /\ TXBL /\ txbuf # << >>
               /\ hwbuf' = <<Head(txbuf)>>
               /\ txbuf' = Tail(txbuf)
               /\ UNCHANGED <<main, byte, retry, tx_active, ien, rxbuf, isr, shift, rxdatav, sent, hist>>

IsrDrainedForgets == /\ isr = "tx"
                     /\ TXBL /\ txbuf = << >>
                     /\ ien' = FALSE
                     /\ isr' = "off"
                     /\ UNCHANGED <<main, byte, retry, tx_active, txbuf, rxbuf, hw, hist>>

(* There is none: the transmitter goes idle. *)
IsrDrained == /\ isr = "tx"
              /\ TXBL /\ txbuf = << >>
              /\ ien' = FALSE
              /\ tx_active' = FALSE
              /\ isr' = "off"
              /\ UNCHANGED <<main, byte, retry, txbuf, rxbuf, hw, hist>>

IsrReturn == /\ isr = "tx"
             /\ ~TXBL
             /\ isr' = "off"
             /\ UNCHANGED <<main, byte, retry, tx_active, ien, txbuf, rxbuf, hw, hist>>

LEUART0_IRQHandler == Interrupt \/ IsrReceive \/ IsrTransmit \/ IsrDrained \/ IsrReturn

-----------------------------------------------------------------------------
(* The LEUART.                                                             *)

HwLoad == /\ shift = << >> /\ hwbuf # << >>
          /\ shift' = hwbuf
          /\ hwbuf' = << >>
          /\ UNCHANGED <<main, byte, retry, tx_active, ien, txbuf, rxbuf, isr, rxdatav, sent, hist>>

HwSent == /\ shift # << >>
          /\ sent' = sent \o shift
          /\ shift' = << >>
          /\ UNCHANGED <<main, byte, retry, tx_active, ien, txbuf, rxbuf, isr, hwbuf, rxdatav, hist>>

HwReceive == /\ ~rxdatav
             /\ rxdatav' = TRUE
             /\ UNCHANGED <<main, byte, retry, tx_active, ien, txbuf, rxbuf, isr, hwbuf, shift, sent, hist>>

-----------------------------------------------------------------------------
Next == \/ \E again \in BOOLEAN : Call(again)
        \/ uart_tx \/ uart_rx
        \/ LEUART0_IRQHandler
        \/ HwLoad \/ HwSent \/ HwReceive

(* The processor executes, and the LEUART shifts out what it is given.     *)
(* Reception does not take all its time (a byte takes far longer to arrive *)
(* than the handler to run), so the main loop executes again and again.    *)
(* Nothing makes callers call or bytes come.                               *)
Fairness == /\ SF_vars(uart_tx)
            /\ WF_vars(LEUART0_IRQHandler)
            /\ WF_vars(HwLoad)
            /\ WF_vars(HwSent)
            /\ []<>MainRuns

Spec == Init /\ [][Next]_vars /\ Fairness
-----------------------------------------------------------------------------
AtMostOne == {<< >>} \cup {<<b>> : b \in 1 .. Calls}

(* The shape of the state. *)
TypeOK == /\ main \in {"idle", "test", "queue", "direct", "enable", "wait",
                       "send", "check", "clear"}
          /\ byte \in 0 .. Calls
          /\ retry \in BOOLEAN /\ tx_active \in BOOLEAN /\ ien \in BOOLEAN
          /\ txbuf \in Seq(1 .. Calls) /\ Len(txbuf) < TXBUFSIZE
          /\ rxbuf \in 0 .. RXBUFSIZE - 1
          /\ isr \in {"off", "rx", "tx"}
          /\ hwbuf \in AtMostOne /\ shift \in AtMostOne
          /\ rxdatav \in BOOLEAN
          /\ sent \in Seq(1 .. Calls)
          /\ accepted \in 0 .. Calls /\ stranded \in BOOLEAN

(* The bytes uart_tx has taken are all there and in order, however the     *)
(* handler interrupts it: the path that writes to the LEUART directly      *)
(* never overtakes the queue and never finds the transmit buffer taken.    *)
(* This is so as long as no byte has been stranded: the handler can go     *)
(* idle between uart_tx's look at tx_active and its buf_put.               *)
Pipeline == sent \o shift \o hwbuf \o txbuf
OrderKept == ~stranded =>
                /\ Len(Pipeline) = accepted
                /\ \A i, j \in 1 .. Len(Pipeline) : i < j => Pipeline[i] < Pipeline[j]

(* A stranded byte waits in the queue with no interrupt to send it; but it *)
(* is never more than that one byte, and so uart_prepare_sleep lets the    *)
(* processor sleep over at most one byte.                                  *)
AtMostOneStranded == uart_prepare_sleep /\ main = "idle" => Len(txbuf) <= 1

(* A caller that repeats uart_tx until it is accepted gets through: the    *)
(* port is never left active with its interrupt off and the queue full.    *)
WriteStringReturns == main # "idle" /\ retry ~> main = "idle"
=============================================================================
