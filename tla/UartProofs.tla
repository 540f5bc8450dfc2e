----------------------------- MODULE UartProofs -----------------------------
(***************************************************************************)
(* Theorems about the serial port: whatever the sizes of the ring buffers, *)
(* bytes leave in order as long as none is stranded, and at most one is.   *)
(***************************************************************************)
EXTENDS Uart, SequenceTheorems, TLAPS

(* uart_tx has the byte in hand: it has not been accepted yet. *)
InHand == main \in {"test", "queue", "direct", "enable", "wait", "send"}

(* uart_tx found the transmitter idle and writes to the LEUART itself. *)
DirectPath == main \in {"direct", "enable", "wait", "send", "check", "clear"}

(* Whenever the transmitter is idle, or uart_tx has found it so, at most   *)
(* one byte is queued.  None is while uart_tx is about to queue a byte     *)
(* behind a handler that has just gone idle: that byte will be alone.      *)
StrandInv == /\ ~tx_active \/ DirectPath => Len(txbuf) <= 1
             /\ ~tx_active /\ main = "queue" => txbuf = << >>

(* Until then the queue is empty when the transmitter is idle or uart_tx   *)
(* has found it so, hence nobody but uart_tx fills the transmit buffer.    *)
PathInv == ~stranded => /\ ~tx_active \/ DirectPath => txbuf = << >>
                        /\ main = "send" => hwbuf = << >>

(* Each call brings at most one byte. *)
CountInv == IF InHand THEN accepted < byte ELSE accepted <= byte

(* The bytes on their way are older than the one in hand. *)
OlderInv == ~stranded => \A i \in 1 .. Len(Pipeline) :
               IF InHand THEN Pipeline[i] < byte ELSE Pipeline[i] <= byte

UartInv == TypeOK /\ StrandInv /\ PathInv /\ CountInv /\ OlderInv /\ OrderKept

-----------------------------------------------------------------------------
(* What is on its way is a sequence of bytes, and so is each part of it.   *)
LEMMA PipelineParts ==
    ASSUME TypeOK
    PROVE  /\ sent \in Seq(1 .. Calls) /\ shift \in Seq(1 .. Calls)
           /\ hwbuf \in Seq(1 .. Calls) /\ txbuf \in Seq(1 .. Calls)
           /\ sent \o shift \in Seq(1 .. Calls)
           /\ sent \o shift \o hwbuf \in Seq(1 .. Calls)
           /\ Pipeline \in Seq(1 .. Calls)
<1>1. \A s \in AtMostOne : s \in Seq(1 .. Calls)
  <2>1. \A b \in 1 .. Calls : <<b>> \in Seq(1 .. Calls)
    OBVIOUS
  <2> QED BY <2>1, EmptySeq DEF AtMostOne
<1>2. sent \in Seq(1 .. Calls) /\ shift \in Seq(1 .. Calls) /\ hwbuf \in Seq(1 .. Calls)
  BY <1>1 DEF TypeOK
<1>3. txbuf \in Seq(1 .. Calls)
  BY DEF TypeOK
<1>4. sent \o shift \in Seq(1 .. Calls)
  BY <1>2, ConcatProperties
<1>5. sent \o shift \o hwbuf \in Seq(1 .. Calls)
  BY <1>2, <1>4, ConcatProperties
<1>6. Pipeline \in Seq(1 .. Calls)
  BY <1>3, <1>5, ConcatProperties DEF Pipeline
<1> QED BY <1>2, <1>3, <1>4, <1>5, <1>6

(* Taking the head of a sequence and putting it after another one moves    *)
(* the boundary between them, no byte.                                     *)
LEMMA HeadMoved ==
    ASSUME NEW S, NEW s \in Seq(S), NEW t \in Seq(S), t # << >>
    PROVE  (s \o <<Head(t)>>) \o Tail(t) = s \o t
<1>1. /\ Head(t) \in S /\ Tail(t) \in Seq(S) /\ <<Head(t)>> \in Seq(S)
      /\ t = <<Head(t)>> \o Tail(t)
  <2>1. Head(t) \in S /\ Tail(t) \in Seq(S)
    BY HeadTailProperties
  <2>2. <<Head(t)>> \in Seq(S) /\ Len(<<Head(t)>>) = 1
    BY <2>1
  <2>3. /\ Len(Tail(t)) = Len(t) - 1 /\ Len(t) \in Nat \ {0}
        /\ \A i \in 1 .. Len(Tail(t)) : Tail(t)[i] = t[i + 1]
    BY HeadTailProperties, EmptySeq
  <2> DEFINE c == <<Head(t)>> \o Tail(t)
  <2>4. /\ c \in Seq(S) /\ Len(c) = Len(t)
        /\ \A i \in 1 .. Len(t) : c[i] = IF i <= 1 THEN <<Head(t)>>[i] ELSE Tail(t)[i - 1]
    BY <2>1, <2>2, <2>3, ConcatProperties
  <2>5. \A i \in 1 .. Len(t) : c[i] = t[i]
    <3> SUFFICES ASSUME NEW i \in 1 .. Len(t)
                 PROVE  c[i] = t[i]
      OBVIOUS
    <3>1. CASE i = 1
      BY <2>4, <3>1
    <3>2. CASE i # 1
      <4>1. i - 1 \in 1 .. Len(Tail(t)) /\ (i - 1) + 1 = i
        BY <2>3, <3>2
      <4>2. c[i] = Tail(t)[i - 1]
        BY <2>3, <2>4, <3>2
      <4> QED BY <2>3, <4>1, <4>2
    <3> QED BY <3>1, <3>2
  <2>6. c = t
    BY <2>4, <2>5, SeqEqual
  <2> QED BY <2>1, <2>2, <2>6
<1> QED BY <1>1, ConcatAssociative

(* A step that leaves the bytes on their way and the byte in hand as they  *)
(* are keeps what is known of them.                                        *)
LEMMA NothingMoves ==
    ASSUME UartInv, Pipeline' = Pipeline, accepted' = accepted, byte' = byte,
           stranded' = stranded, InHand' => InHand
    PROVE  OlderInv' /\ OrderKept' /\ CountInv'
<1>1. Pipeline \in Seq(1 .. Calls) /\ byte \in Nat /\ accepted \in Nat
  BY PipelineParts, UartAssumption DEF UartInv, TypeOK
<1>2. \A i \in 1 .. Len(Pipeline) : Pipeline[i] \in Nat
  BY <1>1, ElementOfSeq, UartAssumption
<1>3. OlderInv'
  BY <1>1, <1>2 DEF UartInv, OlderInv
<1>4. OrderKept'
  BY DEF UartInv, OrderKept
<1>5. CountInv'
  BY <1>1 DEF UartInv, CountInv
<1> QED BY <1>3, <1>4, <1>5

(* The byte in hand put behind all the others keeps them in order.         *)
LEMMA OneMore ==
    ASSUME UartInv, InHand, ~InHand', byte' = byte, accepted' = accepted + 1,
           ~stranded' => ~stranded /\ Pipeline' = Append(Pipeline, byte)
    PROVE  OlderInv' /\ OrderKept' /\ CountInv'
<1>1. Pipeline \in Seq(1 .. Calls) /\ byte \in 1 .. Calls /\ accepted \in Nat /\ Calls \in Nat
  <2>1. byte \in 0 .. Calls /\ accepted \in 0 .. Calls /\ Calls \in Nat /\ accepted < byte
    BY UartAssumption DEF UartInv, TypeOK, CountInv
  <2> QED BY <2>1, PipelineParts DEF UartInv
<1>2. CountInv'
  BY <1>1 DEF UartInv, CountInv
<1>3. ASSUME ~stranded'
      PROVE  OlderInv' /\ OrderKept'
  <2> DEFINE p == Pipeline
             q == Append(p, byte)
  <2>1. /\ p \in Seq(1 .. Calls) /\ Len(p) \in Nat /\ Len(q) = Len(p) + 1
        /\ \A i \in 1 .. Len(p) : q[i] = p[i] /\ p[i] \in Nat
        /\ q[Len(p) + 1] = byte
    BY <1>1, AppendProperties, LenProperties, ElementOfSeq
  <2>2. /\ \A i \in 1 .. Len(p) : p[i] < byte
        /\ Len(p) = accepted
        /\ \A i, j \in 1 .. Len(p) : i < j => p[i] < p[j]
    BY <1>3 DEF UartInv, OlderInv, OrderKept
  <2>3. Pipeline' = q
    BY <1>3
  <2> HIDE DEF p, q
  <2>4. \A i \in 1 .. Len(q) : q[i] <= byte
    BY <1>1, <2>1, <2>2
  <2>5. \A i, j \in 1 .. Len(q) : i < j => q[i] < q[j]
    <3> SUFFICES ASSUME NEW i \in 1 .. Len(q), NEW j \in 1 .. Len(q), i < j
                 PROVE  q[i] < q[j]
      OBVIOUS
    <3>1. i \in 1 .. Len(p)
      BY <2>1
    <3>2. CASE j \in 1 .. Len(p)
      BY <2>1, <2>2, <3>1, <3>2
    <3>3. CASE j = Len(p) + 1
      BY <2>1, <2>2, <3>1, <3>3
    <3> QED BY <2>1, <3>2, <3>3
  <2>6. OlderInv'
    BY <2>3, <2>4 DEF OlderInv
  <2>7. OrderKept'
    BY <2>1, <2>2, <2>3, <2>5 DEF OrderKept
  <2> QED BY <2>6, <2>7
<1>4. CASE stranded'
  BY <1>2, <1>4 DEF OlderInv, OrderKept
<1> QED BY <1>2, <1>3, <1>4

-----------------------------------------------------------------------------
(* uart_tx.                                                                *)
LEMMA CallStep ==
    ASSUME UartInv, NEW again \in BOOLEAN, Call(again)
    PROVE  UartInv'
<1>1. TypeOK'
  BY UartAssumption DEF UartInv, TypeOK, Call, hw, hist, AtMostOne
<1>2. StrandInv' /\ PathInv'
  BY DEF UartInv, StrandInv, PathInv, Call, hw, hist, DirectPath
<1>3. Pipeline' = Pipeline
  BY DEF Call, hw, Pipeline
<1>4. CountInv'
  BY UartAssumption DEF UartInv, TypeOK, CountInv, InHand, Call, hist
<1>5. OrderKept'
  BY <1>3 DEF UartInv, OrderKept, Call, hist
<1>6. OlderInv'
  <2>1. /\ byte' = byte + 1 /\ byte \in Nat /\ ~InHand /\ stranded' = stranded
    BY UartAssumption DEF UartInv, TypeOK, Call, hist, InHand
  <2>2. \A i \in 1 .. Len(Pipeline) : Pipeline[i] \in Nat
    BY PipelineParts, ElementOfSeq, UartAssumption DEF UartInv
  <2> QED BY <1>3, <2>1, <2>2 DEF UartInv, OlderInv
<1> QED BY <1>1, <1>2, <1>4, <1>5, <1>6 DEF UartInv

(* uart_tx looks, announces itself, waits: no byte moves.                  *)
LEMMA LookStep ==
    ASSUME UartInv, Test \/ Direct \/ Enable \/ WaitTXBL \/ Check \/ Clear
    PROVE  UartInv'
<1> USE DEF UartInv, hw, hist
<1>1. TypeOK'
  <2>1. /\ main' \in {"idle", "test", "queue", "direct", "enable", "wait",
                      "send", "check", "clear"}
        /\ tx_active' \in BOOLEAN /\ ien' \in BOOLEAN
    BY DEF TypeOK, Test, Direct, Enable, WaitTXBL, Check, Clear
  <2>2. UNCHANGED <<byte, retry, txbuf, rxbuf, isr, hwbuf, shift, rxdatav, sent,
                    accepted, stranded>>
    BY DEF Test, Direct, Enable, WaitTXBL, Check, Clear
  <2> QED BY ONLY <2>1, <2>2, UartInv DEF UartInv, TypeOK, AtMostOne
<1>2. StrandInv' /\ PathInv'
  BY DEF StrandInv, PathInv, DirectPath, TXBL, Test, Direct, Enable, WaitTXBL, Check, Clear
<1>3. Pipeline' = Pipeline
  BY DEF Pipeline, Test, Direct, Enable, WaitTXBL, Check, Clear
<1>4. /\ accepted' = accepted /\ byte' = byte /\ stranded' = stranded
      /\ InHand' => InHand
  BY DEF InHand, Test, Direct, Enable, WaitTXBL, Check, Clear
<1> QED BY <1>1, <1>2, <1>3, <1>4, NothingMoves

(* buf_put: the byte goes behind the queue, or stays in hand.              *)
LEMMA QueueStep ==
    ASSUME UartInv, Queue
    PROVE  UartInv'
<1>1. /\ byte \in 1 .. Calls /\ accepted < byte /\ accepted \in Nat /\ Calls \in Nat
      /\ Len(txbuf) \in Nat /\ InHand
  BY UartAssumption, LenProperties DEF UartInv, TypeOK, CountInv, InHand, Queue
<1>2. CASE Len(txbuf) = TXBUFSIZE - 1 /\ UNCHANGED <<txbuf, hist>>
  <2>1. TypeOK' /\ Pipeline' = Pipeline
    BY <1>2 DEF UartInv, TypeOK, Queue, hw, hist, AtMostOne, Pipeline
  <2>2. tx_active
    BY <1>2, EmptySeq, UartAssumption DEF UartInv, StrandInv, TypeOK, Queue
  <2>3. StrandInv' /\ PathInv'
    BY <1>2, <2>2 DEF UartInv, StrandInv, PathInv, DirectPath, Queue, hw, hist
  <2> QED BY <1>1, <1>2, <2>1, <2>3, NothingMoves DEF UartInv, Queue, hist
<1>3. CASE /\ Len(txbuf) < TXBUFSIZE - 1 /\ txbuf' = Append(txbuf, byte)
           /\ accepted' = accepted + 1 /\ main' = "idle"
           /\ stranded' = (stranded \/ ~tx_active)
  <2>1. txbuf' \in Seq(1 .. Calls) /\ Len(txbuf') = Len(txbuf) + 1
    BY <1>1, <1>3, AppendProperties DEF UartInv, TypeOK
  <2>2. /\ byte' = byte /\ tx_active' = tx_active /\ retry' = retry /\ ien' = ien
        /\ rxbuf' = rxbuf /\ isr' = isr
        /\ hwbuf' = hwbuf /\ shift' = shift /\ rxdatav' = rxdatav /\ sent' = sent
    BY DEF Queue, hw
  <2>3. stranded' \in BOOLEAN
    BY <1>3 DEF UartInv, TypeOK
  <2>4. TypeOK'
    BY <1>1, <1>3, <2>1, <2>2, <2>3, UartAssumption DEF UartInv, TypeOK, AtMostOne
  <2>5. StrandInv'
    <3>1. tx_active \/ Len(txbuf) = 0
      BY EmptySeq DEF UartInv, StrandInv, Queue
    <3> QED BY <1>1, <1>3, <2>1, <2>2, <3>1 DEF StrandInv, DirectPath
  <2>6. PathInv'
    BY <1>3, <2>2 DEF UartInv, PathInv, DirectPath
  <2>7. Pipeline' = Append(Pipeline, byte)
    <3> DEFINE s == sent \o shift \o hwbuf
    <3>1. /\ s \in Seq(1 .. Calls) /\ txbuf \in Seq(1 .. Calls)
          /\ Pipeline = s \o txbuf /\ Pipeline \in Seq(1 .. Calls)
          /\ Pipeline' = s \o Append(txbuf, byte)
          /\ <<byte>> \in Seq(1 .. Calls)
      BY <1>1, <1>3, <2>2, PipelineParts DEF UartInv, Pipeline
    <3> HIDE DEF s
    <3>2. Append(txbuf, byte) = txbuf \o <<byte>>
      BY <1>1, <3>1, AppendIsConcat
    <3>3. Append(Pipeline, byte) = Pipeline \o <<byte>>
      BY <1>1, <3>1, AppendIsConcat
    <3> QED BY <3>1, <3>2, <3>3, ConcatAssociative
  <2>8. ~InHand' /\ (~stranded' => ~stranded)
    BY <1>3 DEF InHand
  <2>9. OlderInv' /\ OrderKept' /\ CountInv'
    BY <1>1, <1>3, <2>2, <2>7, <2>8, OneMore
  <2> QED BY <2>4, <2>5, <2>6, <2>9 DEF UartInv
<1> QED BY <1>2, <1>3 DEF Queue

(* LEUART_Tx writes into an empty transmit buffer, and the queue is empty. *)
LEMMA SendStep ==
    ASSUME UartInv, Send
    PROVE  UartInv'
<1>1. /\ byte \in 1 .. Calls /\ accepted < byte /\ accepted \in Nat /\ Calls \in Nat
      /\ InHand
  BY UartAssumption DEF UartInv, TypeOK, CountInv, InHand, Send
<1>2. hwbuf' \in AtMostOne
  BY <1>1 DEF UartInv, TypeOK, AtMostOne, Send
<1>3. TypeOK'
  BY <1>1, <1>2 DEF UartInv, TypeOK, Send, AtMostOne
<1>4. StrandInv' /\ PathInv'
  BY DEF UartInv, StrandInv, PathInv, DirectPath, Send
<1>5. ASSUME ~stranded'
      PROVE  ~stranded /\ Pipeline' = Append(Pipeline, byte)
  <2>1. ~stranded /\ hwbuf = << >> /\ txbuf = << >> /\ hwbuf' = <<byte>>
    BY <1>5 DEF UartInv, PathInv, DirectPath, Send, TXBL
  <2> DEFINE s == sent \o shift
  <2>2. s \in Seq(1 .. Calls) /\ <<byte>> \in Seq(1 .. Calls)
    BY <1>1, PipelineParts DEF UartInv
  <2>3. /\ Pipeline = s \o << >> \o << >>
        /\ Pipeline' = s \o <<byte>> \o << >>
    BY <2>1 DEF Pipeline, Send
  <2> HIDE DEF s
  <2>4. Pipeline = s /\ Append(s, byte) = s \o <<byte>>
    BY <1>1, <2>2, <2>3, ConcatEmptySeq, AppendIsConcat
  <2>5. s \o <<byte>> \in Seq(1 .. Calls)
    BY <2>2, ConcatProperties
  <2> QED BY <2>1, <2>3, <2>4, <2>5, ConcatEmptySeq
<1>6. ~InHand' /\ byte' = byte /\ accepted' = accepted + 1
  BY DEF InHand, Send
<1>7. OlderInv' /\ OrderKept' /\ CountInv'
  BY <1>1, <1>5, <1>6, OneMore
<1> QED BY <1>3, <1>4, <1>7 DEF UartInv

-----------------------------------------------------------------------------
(* LEUART0_IRQHandler hands the head of the queue to the LEUART.           *)
LEMMA TransmitStep ==
    ASSUME UartInv, IsrTransmit
    PROVE  UartInv'
<1>1. /\ hwbuf = << >> /\ txbuf # << >> /\ txbuf \in Seq(1 .. Calls)
      /\ hwbuf' = <<Head(txbuf)>> /\ txbuf' = Tail(txbuf)
  BY DEF UartInv, TypeOK, IsrTransmit, TXBL
<1>2. /\ Head(txbuf) \in 1 .. Calls /\ txbuf' \in Seq(1 .. Calls)
      /\ Len(txbuf') = Len(txbuf) - 1 /\ Len(txbuf) \in Nat \ {0}
  BY <1>1, HeadTailProperties, EmptySeq
<1>3. hwbuf' \in AtMostOne
  BY <1>1, <1>2 DEF AtMostOne
<1>4. TypeOK'
  BY <1>2, <1>3, UartAssumption DEF UartInv, TypeOK, IsrTransmit, hist, AtMostOne
<1>5. /\ main' = main /\ tx_active' = tx_active /\ stranded' = stranded
      /\ accepted' = accepted /\ byte' = byte /\ sent' = sent /\ shift' = shift
  BY DEF IsrTransmit, hist
<1>6. StrandInv' /\ PathInv'
  BY <1>1, <1>2, <1>5 DEF UartInv, StrandInv, PathInv, DirectPath
<1>7. Pipeline' = Pipeline
  <2> DEFINE s == sent \o shift
  <2>1. /\ s \in Seq(1 .. Calls)
        /\ Pipeline = (s \o << >>) \o txbuf
        /\ Pipeline' = (s \o <<Head(txbuf)>>) \o Tail(txbuf)
    BY <1>1, <1>5, PipelineParts DEF UartInv, Pipeline
  <2> HIDE DEF s
  <2>2. s \o << >> = s
    BY <2>1, ConcatEmptySeq
  <2>3. (s \o <<Head(txbuf)>>) \o Tail(txbuf) = s \o txbuf
    BY <1>1, <2>1, HeadMoved
  <2> QED BY <2>1, <2>2, <2>3
<1>8. InHand' => InHand
  BY <1>5 DEF InHand
<1> QED BY <1>4, <1>5, <1>6, <1>7, <1>8, NothingMoves DEF UartInv

(* The rest of the handler, and uart_rx, move no byte.                     *)
LEMMA HandlerStep ==
    ASSUME UartInv, Interrupt \/ IsrReceive \/ IsrDrained \/ IsrReturn \/ uart_rx
    PROVE  UartInv'
<1> USE DEF UartInv, hw, hist
<1>1. TypeOK'
  <2>1. rxbuf' \in 0 .. RXBUFSIZE - 1
    BY UartAssumption DEF TypeOK, Interrupt, IsrReceive, IsrDrained, IsrReturn, uart_rx
  <2>2. CASE IsrReceive
    <3>1. rxdatav' \in BOOLEAN /\ isr' \in {"off", "rx", "tx"}
      BY <2>2 DEF TypeOK, IsrReceive
    <3>2. UNCHANGED <<main, byte, retry, tx_active, ien, txbuf, hwbuf, shift, sent, hist>>
      BY <2>2 DEF IsrReceive
    <3> QED BY ONLY <2>1, <3>1, <3>2, UartInv DEF UartInv, hist, TypeOK, AtMostOne
  <2>3. CASE Interrupt \/ IsrDrained \/ IsrReturn \/ uart_rx
    <3>1. /\ ien' \in BOOLEAN /\ tx_active' \in BOOLEAN /\ rxdatav' = rxdatav
          /\ isr' \in {"off", "rx", "tx"}
      BY <2>3 DEF TypeOK, Interrupt, IsrDrained, IsrReturn, uart_rx
    <3>2. UNCHANGED <<main, byte, retry, txbuf, hwbuf, shift, sent, hist>>
      BY <2>3 DEF Interrupt, IsrDrained, IsrReturn, uart_rx
    <3> QED BY ONLY <2>1, <3>1, <3>2, UartInv DEF UartInv, hist, TypeOK, AtMostOne
  <2> QED BY <2>2, <2>3
<1>2. StrandInv' /\ PathInv'
  BY EmptySeq DEF StrandInv, PathInv, DirectPath, TXBL, Interrupt, IsrReceive, IsrDrained,
     IsrReturn, uart_rx
<1>3. Pipeline' = Pipeline
  BY DEF Pipeline, Interrupt, IsrReceive, IsrDrained, IsrReturn, uart_rx
<1>4. /\ accepted' = accepted /\ byte' = byte /\ stranded' = stranded
      /\ InHand' => InHand
  BY DEF InHand, Interrupt, IsrReceive, IsrDrained, IsrReturn, uart_rx
<1> QED BY <1>1, <1>2, <1>3, <1>4, NothingMoves

(* The LEUART passes bytes on.                                             *)
LEMMA LeuartStep ==
    ASSUME UartInv, HwLoad \/ HwSent \/ HwReceive
    PROVE  UartInv'
<1>1. /\ main' = main /\ tx_active' = tx_active /\ stranded' = stranded
      /\ accepted' = accepted /\ byte' = byte /\ txbuf' = txbuf
  BY DEF HwLoad, HwSent, HwReceive, hist
<1>2. hwbuf' = hwbuf \/ hwbuf' = << >>
  BY DEF HwLoad, HwSent, HwReceive
<1>3. StrandInv' /\ PathInv'
  BY <1>1, <1>2 DEF UartInv, StrandInv, PathInv, DirectPath
<1>4. sent' \in Seq(1 .. Calls)
  BY PipelineParts DEF UartInv, HwLoad, HwSent, HwReceive
<1>5. TypeOK'
  <2>1. hwbuf' \in AtMostOne /\ shift' \in AtMostOne /\ rxdatav' \in BOOLEAN
    BY DEF UartInv, TypeOK, HwLoad, HwSent, HwReceive, AtMostOne
  <2>2. UNCHANGED <<main, byte, retry, tx_active, ien, txbuf, rxbuf, isr, hist>>
    BY DEF HwLoad, HwSent, HwReceive
  <2> QED BY ONLY <1>4, <2>1, <2>2, UartInv DEF UartInv, TypeOK, hist, AtMostOne
<1>6. Pipeline' = Pipeline
  <2>1. CASE HwReceive
    BY <2>1 DEF HwReceive, Pipeline
  <2>2. CASE HwLoad
    <3>1. Pipeline = ((sent \o << >>) \o hwbuf) \o txbuf
      BY <2>2 DEF HwLoad, Pipeline
    <3>2. Pipeline' = ((sent \o hwbuf) \o << >>) \o txbuf
      BY <2>2 DEF HwLoad, Pipeline
    <3>3. /\ sent \in Seq(1 .. Calls) /\ sent \o hwbuf \in Seq(1 .. Calls)
      BY PipelineParts, ConcatProperties DEF UartInv
    <3>4. sent \o << >> = sent /\ (sent \o hwbuf) \o << >> = sent \o hwbuf
      BY <3>3, ConcatEmptySeq
    <3> QED BY <3>1, <3>2, <3>4
  <2>3. CASE HwSent
    <3>1. Pipeline' = ((sent \o shift) \o << >>) \o hwbuf \o txbuf
      BY <2>3 DEF HwSent, Pipeline
    <3>2. (sent \o shift) \o << >> = sent \o shift
      BY PipelineParts, ConcatEmptySeq DEF UartInv
    <3> QED BY <3>1, <3>2 DEF Pipeline
  <2> QED BY <2>1, <2>2, <2>3
<1>7. InHand' => InHand
  BY <1>1 DEF InHand
<1> QED BY <1>1, <1>3, <1>5, <1>6, <1>7, NothingMoves DEF UartInv

-----------------------------------------------------------------------------
(* The invariant holds when the firmware starts.                           *)
LEMMA UartInit == Init => UartInv
<1> SUFFICES ASSUME Init
             PROVE  UartInv
  OBVIOUS
<1>1. TypeOK
  <2>1. << >> \in Seq(1 .. Calls) /\ Len(<< >>) = 0
    BY EmptySeq
  <2>2. 0 \in 0 .. Calls /\ 0 \in 0 .. RXBUFSIZE - 1 /\ 0 < TXBUFSIZE
    BY UartAssumption
  <2> QED BY <2>1, <2>2 DEF Init, TypeOK, AtMostOne
<1>2. StrandInv /\ PathInv /\ CountInv
  BY EmptySeq DEF Init, StrandInv, PathInv, CountInv, DirectPath, InHand
<1>3. Pipeline = << >>
  BY EmptySeq, ConcatEmptySeq DEF Init, Pipeline
<1>4. OlderInv /\ OrderKept
  BY <1>3, EmptySeq DEF Init, OlderInv, OrderKept
<1> QED BY <1>1, <1>2, <1>4 DEF UartInv

(* Every step of the main loop, of the handler and of the LEUART keeps it. *)
LEMMA UartStep == UartInv /\ [Next]_vars => UartInv'
<1> SUFFICES ASSUME UartInv, [Next]_vars
             PROVE  UartInv'
  OBVIOUS
<1>1. CASE \E again \in BOOLEAN : Call(again)
  BY <1>1, CallStep
<1>2. CASE uart_tx
  BY <1>2, LookStep, QueueStep, SendStep DEF uart_tx
<1>3. CASE uart_rx \/ LEUART0_IRQHandler
  BY <1>3, TransmitStep, HandlerStep DEF LEUART0_IRQHandler
<1>4. CASE HwLoad \/ HwSent \/ HwReceive
  BY <1>4, LeuartStep
<1>5. CASE UNCHANGED vars
  <2>1. Pipeline' = Pipeline
    BY <1>5 DEF vars, hw, Pipeline
  <2> QED BY <1>5, <2>1 DEF UartInv, vars, hw, hist, TypeOK, AtMostOne, StrandInv, PathInv,
             DirectPath, CountInv, InHand, OlderInv, OrderKept
<1> QED BY <1>1, <1>2, <1>3, <1>4, <1>5 DEF Next

(* The invariant.                                                          *)
THEOREM Correct == Spec => []UartInv
BY UartInit, UartStep, PTL DEF Spec

(* No byte that uart_tx has taken is lost or overtaken, whenever           *)
(* LEUART0_IRQHandler interrupts it, as long as none has been stranded.    *)
THEOREM InOrder == Spec => []OrderKept
<1>1. UartInv => OrderKept
  BY DEF UartInv
<1> QED BY <1>1, Correct, PTL

(* However many bytes the queue holds, the processor sleeps over at most   *)
(* one of them.                                                            *)
THEOREM FewStranded == Spec => []AtMostOneStranded
<1>1. UartInv => AtMostOneStranded
  BY DEF UartInv, StrandInv, AtMostOneStranded, uart_prepare_sleep
<1> QED BY <1>1, Correct, PTL
=============================================================================
