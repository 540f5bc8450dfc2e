------------------------- MODULE HostLibraryProofs -------------------------
(***************************************************************************)
(* Proofs about the remote calls of the host library, for any number of    *)
(* anchors, calls, lost datagrams and dead daemons.                        *)
(*                                                                         *)
(* The argument follows one anchor's stream of requests, from the daemon's *)
(* buffer to what it has not read yet, and the answers on their way back.  *)
(***************************************************************************)
EXTENDS HostLibrary, SequenceTheorems, TLAPS

Funcs   == {"GETEUI", "GETDWATTR", "SETDWATTR", "UDP"}
Data    == Values \cup Anchors \cup {0}
Msgs    == [func : Funcs, anchor : Anchors, seqn : Nat, value : Data]
Entries == [data : Msgs \cup {None}, set : BOOLEAN]

Calling == main \in {"wait", "finish"}
Between == {"idle", "test", "missing", "nap", "use"}
Queue(a) == buff[a] \o toAnchor[a]
Good(m)  == m.func = "SETDWATTR" /\ m.value # Bad

TypeInv ==
  /\ toAnchor \in [Anchors -> Seq(Msgs)] /\ buff \in [Anchors -> Seq(Msgs)]
  /\ toHost \in [Anchors -> Seq(Msgs)]
  /\ attr \in [Anchors -> Data] /\ sent \in [Anchors -> Data]
  /\ seqnum \in Nat \ {0} /\ devices \subseteq Anchors
  /\ Calling \/ main = "bcast" => op \in Msgs
  /\ answer \in Msgs \cup {None}
  /\ calls \in [DOMAIN calls -> Entries]
  /\ rx \in {"data", "set"} => msg \in Msgs

(* While the main thread waits its call is the only one, and the newest.   *)
CallInv ==
  /\ main = "wait"   => DOMAIN calls = {op.seqn} /\ handler = {<<op.func, op.seqn>>}
  /\ main = "finish" => DOMAIN calls = {op.seqn} /\ handler = {}
  /\ main \in Between \cup {"bcast"} => DOMAIN calls = {} /\ handler = {}
  /\ Calling => op.seqn = seqnum - 1 /\ (op.func # "GETEUI" => op.anchor \in devices)

BusyInv == \A a \in busy : buff[a] # << >> /\ a \notin dead

(* The current request is the last of its stream.                          *)
Request(a, i) ==
  LET m == Queue(a)[i]
  IN  /\ m.anchor = a /\ m.seqn < seqnum
      /\ Calling /\ m.seqn = op.seqn
           => i = Len(Queue(a)) /\ m.func = op.func /\ m.anchor = op.anchor
QueueInv == \A a \in Anchors : \A i \in 1 .. Len(Queue(a)) : Request(a, i)

(* The attribute has the last good value sent, or will have it when the    *)
(* stream has been handled.                                                *)
NoGood(a)   == \A i \in 1 .. Len(Queue(a)) : ~Good(Queue(a)[i])
LastGood(a) == \E i \in 1 .. Len(Queue(a)) :
                 /\ Good(Queue(a)[i]) /\ Queue(a)[i].value = sent[a]
                 /\ \A j \in i + 1 .. Len(Queue(a)) : ~Good(Queue(a)[j])
ValueInv == \A a \in Anchors \ dead : (attr[a] = sent[a] /\ NoGood(a)) \/ LastGood(a)

(* An answer to the current call, wherever it is, has left nothing in the  *)
(* stream, so its anchor has nothing to change any more.                   *)
Answers(m) == /\ m.anchor = op.anchor /\ m.func = op.func
              /\ m.func = "GETEUI" \/ m.value = sent[op.anchor]
              /\ attr[op.anchor] = sent[op.anchor]
              /\ Queue(op.anchor) = << >>
Sound(m)   == m.seqn < seqnum /\ (Calling /\ m.seqn = op.seqn => Answers(m))
AnswerInv ==
  /\ \A a \in Anchors : \A i \in 1 .. Len(toHost[a]) :
        toHost[a][i].anchor = a /\ Sound(toHost[a][i])
  /\ rx \in {"data", "set"} => Sound(msg)
  /\ Calling => \A s \in DOMAIN calls :
        calls[s].data # None => calls[s].data.seqn = op.seqn /\ Answers(calls[s].data)
  /\ main = "finish" /\ answer # None => answer.seqn = op.seqn /\ Answers(answer)

StreamInv == TypeInv /\ CallInv /\ BusyInv /\ QueueInv /\ ValueInv /\ AnswerInv

-----------------------------------------------------------------------------
(* Sequences                                                               *)

LEMMA QueueType == ASSUME TypeInv, NEW a \in Anchors
                   PROVE  Queue(a) \in Seq(Msgs) /\ Len(Queue(a)) \in Nat
BY ConcatProperties, LenProperties DEF Queue, TypeInv

(* The head of the buffer is handled.                                      *)
LEMMA Popped ==
    ASSUME NEW b \in Seq(Msgs), NEW t \in Seq(Msgs), b # << >>
    PROVE  /\ Tail(b) \in Seq(Msgs)
           /\ Len(b \o t) \in Nat /\ Len(b \o t) >= 1 /\ (b \o t)[1] = Head(b)
           /\ Len(Tail(b) \o t) = Len(b \o t) - 1
           /\ \A i \in 1 .. Len(Tail(b) \o t) : (Tail(b) \o t)[i] = (b \o t)[i + 1]
<1>1. /\ Tail(b) \in Seq(Msgs) /\ Len(Tail(b)) = Len(b) - 1 /\ Len(b) \in Nat \ {0}
      /\ \A i \in 1 .. Len(Tail(b)) : Tail(b)[i] = b[i + 1]
  BY HeadTailProperties, EmptySeq
<1>2. Len(t) \in Nat /\ Head(b) = b[1]
  BY LenProperties
<1>3. /\ Len(b \o t) = Len(b) + Len(t)
      /\ \A i \in 1 .. Len(b) + Len(t) : (b \o t)[i] = IF i <= Len(b) THEN b[i] ELSE t[i - Len(b)]
  BY ConcatProperties
<1>4. /\ Len(Tail(b) \o t) = Len(Tail(b)) + Len(t)
      /\ \A i \in 1 .. Len(Tail(b)) + Len(t) :
            (Tail(b) \o t)[i] = IF i <= Len(Tail(b)) THEN Tail(b)[i] ELSE t[i - Len(Tail(b))]
  BY <1>1, ConcatProperties
<1>5. ASSUME NEW i \in 1 .. Len(Tail(b) \o t)
      PROVE  (Tail(b) \o t)[i] = (b \o t)[i + 1]
  <2>1. i \in 1 .. Len(Tail(b)) + Len(t) /\ i + 1 \in 1 .. Len(b) + Len(t)
    BY <1>1, <1>2, <1>4
  <2>2. (b \o t)[i + 1] = IF i + 1 <= Len(b) THEN b[i + 1] ELSE t[i + 1 - Len(b)]
    BY <1>3, <2>1
  <2>3. (Tail(b) \o t)[i] = IF i <= Len(b) - 1 THEN Tail(b)[i] ELSE t[i - (Len(b) - 1)]
    BY <1>1, <1>4, <2>1
  <2>4. CASE i <= Len(b) - 1
    BY <1>1, <2>1, <2>2, <2>3, <2>4
  <2>5. CASE ~(i <= Len(b) - 1)
    <3>1. i - (Len(b) - 1) = i + 1 - Len(b)
      BY <1>1, <2>1
    <3> QED BY <1>1, <2>1, <2>2, <2>3, <2>5, <3>1
  <2> QED BY <2>4, <2>5
<1> QED BY <1>1, <1>2, <1>3, <1>4, <1>5

(* A request is sent.                                                      *)
LEMMA Pushed ==
    ASSUME NEW b \in Seq(Msgs), NEW t \in Seq(Msgs), NEW m \in Msgs
    PROVE  /\ Append(t, m) \in Seq(Msgs)
           /\ Len(b \o t) \in Nat /\ Len(b \o Append(t, m)) = Len(b \o t) + 1
           /\ \A i \in 1 .. Len(b \o t) : (b \o Append(t, m))[i] = (b \o t)[i]
           /\ (b \o Append(t, m))[Len(b \o t) + 1] = m
<1>1. b \o Append(t, m) = Append(b \o t, m)
  <2>1. Append(t, m) = t \o <<m>> /\ Append(b \o t, m) = (b \o t) \o <<m>> /\ <<m>> \in Seq(Msgs)
    BY AppendIsConcat, ConcatProperties
  <2> QED BY <2>1, ConcatAssociative
<1>2. b \o t \in Seq(Msgs)
  BY ConcatProperties
<1> QED BY <1>1, <1>2, AppendProperties, LenProperties

-----------------------------------------------------------------------------
(* The steps                                                               *)

streamVars == <<toAnchor, buff, busy, toHost, attr, dead>>
callVars   == <<seqnum, calls, handler, devices, sent, op, answer>>

(* What neither calls nor touches a stream.                                *)
LEMMA QuietStep ==
    ASSUME StreamInv, UNCHANGED <<streamVars, callVars>>,
           main' = main \/ (main \in Between /\ main' \in Between),
           (rx' = rx /\ msg' = msg) \/ rx' \notin {"data", "set"}
    PROVE  StreamInv'
<1> USE DEF streamVars, callVars
<1>1. Calling' <=> Calling
  BY DEF Calling, Between
<1>2. \A a : Queue(a)' = Queue(a)
  BY DEF Queue
<1>3. TypeInv'
  BY <1>1 DEF StreamInv, TypeInv, Calling, Between
<1>4. CallInv'
  BY <1>1 DEF StreamInv, CallInv, Calling, Between
<1>5. BusyInv'
  BY DEF StreamInv, BusyInv
<1>6. QueueInv'
  BY <1>1, <1>2 DEF StreamInv, QueueInv, Request
<1>7. ValueInv'
  BY <1>2 DEF StreamInv, ValueInv, NoGood, LastGood, Good
<1>8. AnswerInv'
  <2>1. \A m : Answers(m)' <=> Answers(m)
    BY <1>2 DEF Answers
  <2>2. \A m : Sound(m)' <=> Sound(m)
    BY <1>1, <2>1 DEF Sound
  <2>3. main' = "finish" => main = "finish"
    BY DEF Between
  <2> QED BY <1>1, <2>1, <2>2, <2>3 DEF StreamInv, AnswerInv
<1> QED BY <1>3, <1>4, <1>5, <1>6, <1>7, <1>8 DEF StreamInv

(* What Sends does to the streams.                                         *)
LEMMA SendStep ==
    ASSUME TypeInv, NEW a \in Anchors, NEW m \in Msgs, Sends(a, m), UNCHANGED buff
    PROVE  /\ toAnchor' \in [Anchors -> Seq(Msgs)]
           /\ \A b \in Anchors :
                \/ Queue(b)' = Queue(b) /\ (b # a \/ a \in dead)
                \/ /\ b = a /\ a \notin dead
                   /\ Len(Queue(b)') = Len(Queue(b)) + 1
                   /\ \A i \in 1 .. Len(Queue(b)) : Queue(b)'[i] = Queue(b)[i]
                   /\ Queue(b)'[Len(Queue(b)) + 1] = m
<1>1. CASE a \in dead
  BY <1>1 DEF Sends, Queue, TypeInv
<1>2. CASE a \notin dead
  <2> DEFINE b == buff[a]
             t == toAnchor[a]
  <2>1. b \in Seq(Msgs) /\ t \in Seq(Msgs)
    BY DEF TypeInv
  <2>2. toAnchor' = [toAnchor EXCEPT ![a] = Append(t, m)]
    BY <1>2 DEF Sends
  <2>3. toAnchor'[a] = Append(t, m) /\ \A c \in Anchors \ {a} : toAnchor'[c] = toAnchor[c]
    BY <2>2 DEF TypeInv
  <2>4. Queue(a) = b \o t /\ Queue(a)' = b \o Append(t, m)
    BY <2>3 DEF Queue
  <2>5. ASSUME NEW c \in Anchors, c # a PROVE Queue(c)' = Queue(c)
    BY <2>3, <2>5 DEF Queue
  <2> HIDE DEF b, t
  <2>6. /\ Append(t, m) \in Seq(Msgs)
        /\ Len(b \o Append(t, m)) = Len(b \o t) + 1
        /\ \A i \in 1 .. Len(b \o t) : (b \o Append(t, m))[i] = (b \o t)[i]
        /\ (b \o Append(t, m))[Len(b \o t) + 1] = m
    BY <2>1, Pushed
  <2>7. toAnchor' \in [Anchors -> Seq(Msgs)]
    BY <2>2, <2>6 DEF TypeInv
  <2> QED BY <1>2, <2>4, <2>5, <2>6, <2>7
<1> QED BY <1>1, <1>2

(* A request that sets the attribute changes what it is to be.             *)
LEMMA ValuePushed ==
    ASSUME TypeInv, ValueInv, NEW a \in Anchors, NEW m \in Msgs, Sends(a, m),
           UNCHANGED <<buff, attr, dead>>,
           sent' = IF Good(m) THEN [sent EXCEPT ![a] = m.value] ELSE sent
    PROVE  ValueInv'
<1> SUFFICES ASSUME NEW b \in Anchors, b \notin dead
             PROVE  (attr[b] = sent'[b] /\ NoGood(b)') \/ LastGood(b)'
  BY DEF ValueInv
<1>1. (attr[b] = sent[b] /\ NoGood(b)) \/ LastGood(b)
  BY DEF ValueInv
<1>2. CASE b # a
  <2>1. Queue(b)' = Queue(b) /\ sent'[b] = sent[b]
    BY <1>2, SendStep DEF TypeInv
  <2> QED BY <1>1, <2>1 DEF NoGood, LastGood, Good
<1>3. CASE b = a
  <2> DEFINE n == Len(Queue(a))
  <2>1. /\ Len(Queue(a)') = n + 1 /\ n \in Nat /\ Queue(a)'[n + 1] = m
        /\ \A i \in 1 .. n : Queue(a)'[i] = Queue(a)[i]
    BY <1>3, SendStep, QueueType
  <2>2. CASE Good(m)
    <3>1. sent'[a] = m.value
      BY <2>2 DEF TypeInv
    <3>2. n + 1 \in 1 .. Len(Queue(a)') /\ (n + 1) + 1 .. Len(Queue(a)') = {}
      BY <2>1
    <3> QED BY <1>3, <2>1, <2>2, <3>1, <3>2 DEF LastGood, Good
  <2>3. CASE ~Good(m)
    <3>1. sent' = sent
      BY <2>3
    <3>2. CASE attr[a] = sent[a] /\ NoGood(a)
      BY <1>3, <2>1, <2>3, <3>1, <3>2 DEF NoGood, Good
    <3>3. CASE LastGood(a)
      <4>1. PICK i \in 1 .. n : /\ Good(Queue(a)[i]) /\ Queue(a)[i].value = sent[a]
                                /\ \A j \in i + 1 .. n : ~Good(Queue(a)[j])
        BY <3>3 DEF LastGood
      <4>2. i \in 1 .. Len(Queue(a)') /\ Queue(a)'[i] = Queue(a)[i]
        BY <2>1
      <4>3. \A j \in i + 1 .. Len(Queue(a)') : ~Good(Queue(a)'[j])
        <5> SUFFICES ASSUME NEW j \in i + 1 .. n + 1 PROVE ~Good(Queue(a)'[j])
          BY <2>1
        <5>1. CASE j = n + 1
          BY <2>1, <2>3, <5>1
        <5>2. CASE j # n + 1
          <6>1. j \in 1 .. n /\ j \in i + 1 .. n
            BY <2>1, <5>2
          <6> QED BY <2>1, <4>1, <6>1
        <5> QED BY <5>1, <5>2
      <4> QED BY <1>3, <3>1, <4>1, <4>2, <4>3 DEF LastGood, Good
    <3> QED BY <1>1, <1>3, <3>2, <3>3
  <2> QED BY <2>2, <2>3
<1> QED BY <1>2, <1>3

(* RPC.call: the newest request goes to the end of its stream, and sets    *)
(* what the anchor is to have.  Everything on its way has an older number. *)
LEMMA CallStep ==
    ASSUME StreamInv, NEW f \in Funcs \ {"UDP"}, NEW a \in Anchors, NEW v \in Data,
           f # "GETEUI" => a \in devices, call(f, a, v)
    PROVE  StreamInv'
<1> DEFINE m == Message(f, a, seqnum, v)
<1>1. /\ main = "idle" /\ seqnum' = seqnum + 1
      /\ calls' = With(calls, seqnum, [data |-> None, set |-> FALSE])
      /\ handler' = handler \cup {<<f, seqnum>>}
      /\ Sends(a, m) /\ MayRaise(a, "wait")
      /\ op' = m /\ answer' = None
      /\ sent' = IF f = "SETDWATTR" /\ v # Bad THEN [sent EXCEPT ![a] = v] ELSE sent
      /\ UNCHANGED <<buff, busy, toHost, attr, dead, devices, rx, msg>>
  BY DEF call, NextSeqnum
<1>2. m \in Msgs /\ m.seqn = seqnum /\ m.anchor = a /\ m.func = f /\ m.value = v
  BY DEF Message, Msgs, Funcs, StreamInv, TypeInv
<1> HIDE DEF m
<1>3. DOMAIN calls = {} /\ handler = {}
  BY <1>1 DEF StreamInv, CallInv, Between
<1>4. main' \in {"wait", "raised"} /\ (a \notin dead => main' = "wait")
  BY <1>1 DEF MayRaise
<1>5. seqnum \in Nat \ {0}
  BY DEF StreamInv, TypeInv
<1>6. TypeInv
  BY DEF StreamInv
<1>7. TypeInv'
  <2>1. toAnchor' \in [Anchors -> Seq(Msgs)]
    BY <1>1, <1>2, <1>6, SendStep
  <2>2. sent' \in [Anchors -> Data]
    BY <1>1, <1>6 DEF TypeInv
  <2>3. calls' \in [DOMAIN calls' -> Entries]
    BY <1>1, <1>3 DEF With, Entries
  <2>4. op' \in Msgs /\ answer' \in Msgs \cup {None} /\ seqnum' \in Nat \ {0}
    BY <1>1, <1>2, <1>5
  <2>5. /\ buff' \in [Anchors -> Seq(Msgs)] /\ toHost' \in [Anchors -> Seq(Msgs)]
        /\ attr' \in [Anchors -> Data] /\ devices' \subseteq Anchors
        /\ rx' \in {"data", "set"} => msg' \in Msgs
    BY <1>1, <1>6 DEF TypeInv
  <2> HIDE DEF Calling
  <2> QED BY <2>1, <2>2, <2>3, <2>4, <2>5 DEF TypeInv
<1>8. CallInv'
  <2>1. DOMAIN calls' = {seqnum} /\ handler' = {<<f, seqnum>>}
    BY <1>1, <1>3 DEF With
  <2> QED BY <1>1, <1>2, <1>4, <1>5, <2>1 DEF CallInv, Calling, Between
<1>9. BusyInv'
  BY <1>1 DEF StreamInv, BusyInv
<1>10. ASSUME NEW b \in Anchors
       PROVE  \/ Queue(b)' = Queue(b) /\ (b # a \/ a \in dead)
              \/ /\ b = a /\ a \notin dead
                 /\ Len(Queue(b)') = Len(Queue(b)) + 1
                 /\ \A i \in 1 .. Len(Queue(b)) : Queue(b)'[i] = Queue(b)[i]
                 /\ Queue(b)'[Len(Queue(b)) + 1] = m
  BY <1>1, <1>2, <1>6, SendStep
<1>11. \A b \in Anchors : Len(Queue(b)) \in Nat
  BY <1>6, QueueType
<1>12. QueueInv'
  <2> SUFFICES ASSUME NEW b \in Anchors, NEW i \in 1 .. Len(Queue(b)')
               PROVE  Request(b, i)'
    BY DEF QueueInv
  <2>1. CASE i \in 1 .. Len(Queue(b)) /\ Queue(b)'[i] = Queue(b)[i]
    <3>1. Queue(b)[i].anchor = b /\ Queue(b)[i].seqn < seqnum
      BY <2>1 DEF StreamInv, QueueInv, Request
    <3>2. Queue(b)[i] \in Msgs
      BY <1>6, <2>1, QueueType, ElementOfSeq
    <3>3. Queue(b)[i].seqn \in Nat
      BY <3>2 DEF Msgs
    <3> QED BY <1>1, <1>2, <1>5, <2>1, <3>1, <3>3 DEF Request
  <2>2. CASE b = a /\ i = Len(Queue(b)) + 1 /\ Queue(b)'[i] = m /\ Len(Queue(b)') = i
    BY <1>1, <1>2, <1>5, <2>2 DEF Request
  <2> QED BY <1>10, <1>11, <2>1, <2>2
<1>13. ValueInv'
  <2>1. sent' = IF Good(m) THEN [sent EXCEPT ![a] = m.value] ELSE sent
    BY <1>1, <1>2 DEF Good
  <2> QED BY <1>1, <1>2, <1>6, <2>1, ValuePushed DEF StreamInv
<1>14. AnswerInv'
  <2>1. \A x \in Msgs : x.seqn < seqnum => Sound(x)'
    BY <1>1, <1>2, <1>5 DEF Sound, Msgs
  <2>2. \A b \in Anchors : \A i \in 1 .. Len(toHost[b]) :
           toHost[b][i].anchor = b /\ toHost[b][i] \in Msgs /\ toHost[b][i].seqn < seqnum
    BY <1>6, ElementOfSeq DEF StreamInv, AnswerInv, Sound, TypeInv
  <2>3. rx \in {"data", "set"} => msg \in Msgs /\ msg.seqn < seqnum
    BY <1>6 DEF StreamInv, AnswerInv, Sound, TypeInv
  <2>4. \A s \in DOMAIN calls' : calls'[s].data = None
    BY <1>1, <1>3 DEF With
  <2> QED BY <1>1, <1>4, <2>1, <2>2, <2>3, <2>4 DEF AnswerInv
<1> QED BY <1>7, <1>8, <1>9, <1>12, <1>13, <1>14 DEF StreamInv

(* With no call in hand there is nothing to say of the answers on the way. *)
LEMMA NotCalling ==
    ASSUME StreamInv, ~Calling', UNCHANGED <<toHost, seqnum, rx, msg>>
    PROVE  AnswerInv'
BY DEF StreamInv, AnswerInv, Sound, Calling

(* wait_call_return takes what the call has by then.                       *)
LEMMA WaitStep ==
    ASSUME StreamInv, wait_call_return
    PROVE  StreamInv'
<1>1. /\ main = "wait" /\ main' = "finish" /\ answer' = calls[op.seqn].data
      /\ handler' = handler \ {<<op.func, op.seqn>>}
      /\ UNCHANGED <<toAnchor, buff, busy, toHost, attr, dead, seqnum, calls, devices,
                     sent, op, rx, msg>>
  BY DEF wait_call_return, MainStep, daemonVars
<1>2. Calling /\ Calling' /\ DOMAIN calls = {op.seqn} /\ handler = {<<op.func, op.seqn>>}
  BY <1>1 DEF Calling, StreamInv, CallInv
<1>3. \A a : Queue(a)' = Queue(a)
  BY <1>1 DEF Queue
<1>4. TypeInv'
  <2>1. answer' \in Msgs \cup {None}
    BY <1>1, <1>2 DEF StreamInv, TypeInv, Entries
  <2> QED BY <1>1, <1>2, <2>1 DEF StreamInv, TypeInv
<1>5. CallInv'
  BY <1>1, <1>2 DEF StreamInv, CallInv, Between, Calling
<1>6. BusyInv'
  BY <1>1 DEF StreamInv, BusyInv
<1>7. QueueInv'
  BY <1>1, <1>2, <1>3 DEF StreamInv, QueueInv, Request
<1>8. ValueInv'
  BY <1>1, <1>3 DEF StreamInv, ValueInv, NoGood, LastGood, Good
<1>9. AnswerInv'
  <2>1. \A m : Answers(m)' <=> Answers(m)
    BY <1>1, <1>3 DEF Answers
  <2>2. \A m : Sound(m)' <=> Sound(m)
    BY <1>1, <1>2, <2>1 DEF Sound
  <2> QED BY <1>1, <1>2, <2>1, <2>2 DEF StreamInv, AnswerInv
<1> QED BY <1>4, <1>5, <1>6, <1>7, <1>8, <1>9 DEF StreamInv

(* finish_call pops the call.                                              *)
LEMMA FinishStep ==
    ASSUME StreamInv, finish_call
    PROVE  StreamInv'
<1>1. /\ main = "finish" /\ main' = (IF op.func = "GETEUI" THEN "bcast" ELSE "idle")
      /\ calls' = Without(calls, op.seqn) /\ devices' = devices \cup {op.anchor}
      /\ op' = (IF op.func = "GETEUI" THEN op ELSE None) /\ answer' = None
      /\ UNCHANGED <<toAnchor, buff, busy, toHost, attr, dead, seqnum, handler, sent, rx, msg>>
  BY DEF finish_call, MainStep, daemonVars
<1>2. DOMAIN calls = {op.seqn} /\ handler = {} /\ op \in Msgs
  BY <1>1 DEF StreamInv, CallInv, TypeInv, Calling
<1>3. calls' = [s \in {} |-> calls[s]] /\ DOMAIN calls' = {}
  BY <1>1, <1>2 DEF Without
<1>4. ~Calling'
  BY <1>1 DEF Calling
<1>5. \A a : Queue(a)' = Queue(a)
  BY <1>1 DEF Queue
<1>6. TypeInv'
  <2>1. op.anchor \in Anchors
    BY <1>2 DEF Msgs
  <2>2. calls' \in [DOMAIN calls' -> Entries]
    BY <1>3
  <2>3. main' = "bcast" => op' \in Msgs
    BY <1>1, <1>2
  <2> QED BY <1>1, <1>4, <2>1, <2>2, <2>3 DEF StreamInv, TypeInv
<1>7. CallInv'
  BY <1>1, <1>2, <1>3, <1>4 DEF CallInv, Calling
<1>8. BusyInv'
  BY <1>1 DEF StreamInv, BusyInv
<1>9. QueueInv'
  BY <1>1, <1>4, <1>5 DEF StreamInv, QueueInv, Request
<1>10. ValueInv'
  BY <1>1, <1>5 DEF StreamInv, ValueInv, NoGood, LastGood, Good
<1>11. AnswerInv'
  BY <1>1, <1>4, NotCalling
<1> QED BY <1>6, <1>7, <1>8, <1>9, <1>10, <1>11 DEF StreamInv

(* register_udp_bcast sends, but no call, and nothing that sets a value.   *)
LEMMA RegisterStep ==
    ASSUME StreamInv, register_udp_bcast
    PROVE  StreamInv'
<1> DEFINE a == op.anchor
           m == Message("UDP", op.anchor, 0, 0)
<1>1. /\ main = "bcast" /\ main' \in {"idle", "raised"} /\ op' = None
      /\ Sends(a, m)
      /\ UNCHANGED <<buff, busy, toHost, attr, dead, seqnum, calls, handler, devices,
                     sent, answer, rx, msg>>
  BY DEF register_udp_bcast, MayRaise, rpcVars
<1>2. TypeInv /\ ValueInv /\ QueueInv /\ seqnum \in Nat \ {0} /\ op \in Msgs
  BY <1>1 DEF StreamInv, TypeInv
<1>3. a \in Anchors /\ m \in Msgs /\ m.seqn = 0 /\ m.anchor = a /\ ~Good(m)
  BY <1>2 DEF Msgs, Message, Funcs, Data, Good
<1> HIDE DEF a, m
<1>4. ~Calling'
  BY <1>1 DEF Calling
<1>5. TypeInv'
  BY <1>1, <1>2, <1>3, <1>4, SendStep DEF TypeInv
<1>6. CallInv'
  BY <1>1, <1>4 DEF StreamInv, CallInv, Between, Calling
<1>7. BusyInv'
  BY <1>1 DEF StreamInv, BusyInv
<1>8. QueueInv'
  <2> SUFFICES ASSUME NEW b \in Anchors, NEW i \in 1 .. Len(Queue(b)')
               PROVE  Queue(b)'[i].anchor = b /\ Queue(b)'[i].seqn < seqnum
    BY <1>1, <1>4 DEF QueueInv, Request
  <2>1. CASE i \in 1 .. Len(Queue(b)) /\ Queue(b)'[i] = Queue(b)[i]
    BY <1>2, <2>1 DEF QueueInv, Request
  <2>2. CASE b = a /\ Queue(b)'[i] = m
    BY <1>2, <1>3, <2>2
  <2>3. Len(Queue(b)) \in Nat
    BY <1>2, QueueType
  <2> QED BY <1>1, <1>2, <1>3, <2>1, <2>2, <2>3, SendStep
<1>9. ValueInv'
  BY <1>1, <1>2, <1>3, ValuePushed
<1>10. AnswerInv'
  BY <1>1, <1>4, NotCalling
<1> QED BY <1>5, <1>6, <1>7, <1>8, <1>9, <1>10 DEF StreamInv

(* An answer on its way to the receiving thread, and a stream as it was.   *)
LEMMA SameAnswers ==
    ASSUME UNCHANGED <<toAnchor, buff, attr, sent, op, seqnum, main>>
    PROVE  /\ Calling' <=> Calling
           /\ \A a : Queue(a)' = Queue(a)
           /\ \A m : (Answers(m)' <=> Answers(m)) /\ (Sound(m)' <=> Sound(m))
BY DEF Calling, Queue, Answers, Sound

(* What leaves the streams and the main thread alone.                      *)
LEMMA ReceiverStep ==
    ASSUME StreamInv,
           UNCHANGED <<toAnchor, buff, busy, attr, dead, seqnum, handler, devices, sent,
                       main, op, answer>>,
           DOMAIN calls' = DOMAIN calls
    PROVE  CallInv' /\ BusyInv' /\ QueueInv' /\ ValueInv'
<1>1. /\ Calling' <=> Calling
      /\ \A a : Queue(a)' = Queue(a)
  BY SameAnswers
<1>2. CallInv'
  BY <1>1 DEF StreamInv, CallInv
<1>3. BusyInv'
  BY DEF StreamInv, BusyInv
<1>4. QueueInv'
  BY <1>1 DEF StreamInv, QueueInv, Request
<1>5. ValueInv'
  BY <1>1 DEF StreamInv, ValueInv, NoGood, LastGood, Good
<1> QED BY <1>2, <1>3, <1>4, <1>5

(* recvmsg takes an answer for its call, or drops it.                      *)
LEMMA RecvStep ==
    ASSUME StreamInv, NEW a \in Anchors, recvmsg(a)
    PROVE  StreamInv'
<1> DEFINE m == Head(toHost[a])
<1>1. /\ rx = "poll" /\ toHost[a] # << >> /\ toHost' = [toHost EXCEPT ![a] = Tail(toHost[a])]
      /\ (rx' = "data" /\ msg' = m) \/ (rx' = rx /\ msg' = msg)
      /\ UNCHANGED <<toAnchor, buff, busy, attr, dead, calls, seqnum, handler, devices,
                     sent, main, op, answer>>
  BY DEF recvmsg, RxStep, mainVars
<1>2. toHost \in [Anchors -> Seq(Msgs)] /\ toHost[a] \in Seq(Msgs)
  BY DEF StreamInv, TypeInv
<1>3. /\ m \in Msgs /\ m = toHost[a][1] /\ Tail(toHost[a]) \in Seq(Msgs)
      /\ Len(toHost[a]) \in Nat \ {0} /\ Len(Tail(toHost[a])) = Len(toHost[a]) - 1
      /\ \A i \in 1 .. Len(Tail(toHost[a])) : Tail(toHost[a])[i] = toHost[a][i + 1]
  BY <1>1, <1>2, HeadTailProperties, EmptySeq
<1> HIDE DEF m
<1>4. /\ Calling' <=> Calling
      /\ \A x : (Answers(x)' <=> Answers(x)) /\ (Sound(x)' <=> Sound(x))
  BY <1>1, SameAnswers
<1>5. \A b \in Anchors : \A i \in 1 .. Len(toHost[b]) : toHost[b][i].anchor = b /\ Sound(toHost[b][i])
  BY DEF StreamInv, AnswerInv
<1>6. TypeInv'
  BY <1>1, <1>2, <1>3, <1>4 DEF StreamInv, TypeInv
<1>7. AnswerInv'
  <2>1. ASSUME NEW b \in Anchors, NEW i \in 1 .. Len(toHost'[b])
        PROVE  toHost'[b][i].anchor = b /\ Sound(toHost'[b][i])
    <3>1. CASE b = a
      <4>1. toHost'[b] = Tail(toHost[a])
        BY <1>1, <1>2, <3>1
      <4>2. i + 1 \in 1 .. Len(toHost[a]) /\ toHost'[b][i] = toHost[a][i + 1]
        BY <1>3, <4>1
      <4> QED BY <1>5, <3>1, <4>2
    <3>2. CASE b # a
      BY <1>1, <1>2, <1>5, <3>2
    <3> QED BY <3>1, <3>2
  <2>2. Sound(m)
    BY <1>3, <1>5
  <2> QED BY <1>1, <1>4, <2>1, <2>2 DEF StreamInv, AnswerInv
<1> QED BY <1>1, <1>6, <1>7, ReceiverStep DEF StreamInv

(* handle_call_return finds the call, and the answer is to this call: it   *)
(* is the only one there is.                                               *)
LEMMA StoreStep ==
    ASSUME StreamInv, StoreData
    PROVE  StreamInv'
<1>1. /\ rx = "data"
      /\ \/ /\ msg.seqn \in DOMAIN calls /\ calls' = [calls EXCEPT ![msg.seqn].data = msg]
            /\ rx' = "set" /\ msg' = msg
         \/ calls' = calls /\ rx' = "poll"
      /\ UNCHANGED <<toAnchor, buff, busy, attr, dead, toHost, seqnum, handler, devices,
                     sent, main, op, answer>>
  BY DEF StoreData, RxStep, RxGoes, AfterError, mainVars, daemonVars
<1>2. msg \in Msgs /\ Sound(msg) /\ calls \in [DOMAIN calls -> Entries]
  BY <1>1 DEF StreamInv, TypeInv, AnswerInv
<1>3. /\ Calling' <=> Calling
      /\ \A x : (Answers(x)' <=> Answers(x)) /\ (Sound(x)' <=> Sound(x))
  BY <1>1, SameAnswers
<1>4. /\ DOMAIN calls' = DOMAIN calls /\ calls' \in [DOMAIN calls' -> Entries]
      /\ \A s \in DOMAIN calls : calls'[s].data = calls[s].data \/ (s = msg.seqn /\ calls'[s].data = msg)
  BY <1>1, <1>2 DEF Entries
<1>5. TypeInv'
  BY <1>1, <1>2, <1>3, <1>4 DEF StreamInv, TypeInv
<1>6. AnswerInv'
  <2>1. Calling => DOMAIN calls = {op.seqn}
    BY DEF StreamInv, CallInv, Calling
  <2>2. ASSUME Calling, NEW s \in DOMAIN calls, calls'[s].data # None
        PROVE  calls'[s].data.seqn = op.seqn /\ Answers(calls'[s].data)
    <3>1. CASE calls'[s].data = calls[s].data
      BY <2>2, <3>1 DEF StreamInv, AnswerInv
    <3>2. CASE s = msg.seqn /\ calls'[s].data = msg
      BY <1>2, <2>1, <2>2, <3>2 DEF Sound
    <3> QED BY <1>4, <3>1, <3>2
  <2> QED BY <1>1, <1>2, <1>3, <1>4, <2>2 DEF StreamInv, AnswerInv
<1> QED BY <1>1, <1>4, <1>5, <1>6, ReceiverStep DEF StreamInv

LEMMA SetStep ==
    ASSUME StreamInv, SetEvent
    PROVE  StreamInv'
<1>1. /\ rx = "set" /\ rx' = "poll"
      /\ \/ msg.seqn \in DOMAIN calls /\ calls' = [calls EXCEPT ![msg.seqn].set = TRUE]
         \/ calls' = calls
      /\ UNCHANGED <<toAnchor, buff, busy, attr, dead, toHost, seqnum, handler, devices,
                     sent, main, op, answer>>
  BY DEF SetEvent, RxStep, RxGoes, AfterError, mainVars, daemonVars
<1>2. calls \in [DOMAIN calls -> Entries]
  BY DEF StreamInv, TypeInv
<1>3. /\ Calling' <=> Calling
      /\ \A x : (Answers(x)' <=> Answers(x)) /\ (Sound(x)' <=> Sound(x))
  BY <1>1, SameAnswers
<1>4. /\ DOMAIN calls' = DOMAIN calls /\ calls' \in [DOMAIN calls' -> Entries]
      /\ \A s \in DOMAIN calls : calls'[s].data = calls[s].data
  <2>1. CASE msg.seqn \in DOMAIN calls /\ calls' = [calls EXCEPT ![msg.seqn].set = TRUE]
    <3> DEFINE k == msg.seqn
               e == [calls[k] EXCEPT !.set = TRUE]
    <3>1. calls[k] \in Entries
      BY <1>2, <2>1
    <3>2. e \in Entries /\ e.data = calls[k].data
      BY ONLY <3>1 DEF Entries
    <3>3. calls' = [calls EXCEPT ![k] = e]
      BY <2>1
    <3> HIDE DEF e, k
    <3> QED BY ONLY <1>2, <3>2, <3>3
  <2>2. CASE calls' = calls
    BY <1>2, <2>2
  <2> QED BY <1>1, <2>1, <2>2
<1>5. TypeInv'
  BY <1>1, <1>3, <1>4 DEF StreamInv, TypeInv
<1>6. AnswerInv'
  BY <1>1, <1>3, <1>4 DEF StreamInv, AnswerInv
<1> QED BY <1>1, <1>4, <1>5, <1>6, ReceiverStep DEF StreamInv

-----------------------------------------------------------------------------
(* The daemons                                                             *)

(* What the main thread and the receiving thread have.                     *)
threadVars == <<seqnum, calls, handler, devices, sent, main, op, answer, rx, msg>>

(* recv_tcp_client moves a stream into the buffer.                         *)
LEMMA ReadStep ==
    ASSUME StreamInv, NEW a \in Anchors, recv_tcp_client(a), UNCHANGED threadVars
    PROVE  StreamInv'
<1> DEFINE b == buff[a]
           t == toAnchor[a]
<1>1. /\ a \notin dead /\ t # << >>
      /\ buff' = [buff EXCEPT ![a] = b \o t] /\ toAnchor' = [toAnchor EXCEPT ![a] = << >>]
      /\ busy' = busy \cup {a}
      /\ UNCHANGED <<toHost, attr, dead, threadVars>>
  BY DEF recv_tcp_client
<1>2. TypeInv /\ b \in Seq(Msgs) /\ t \in Seq(Msgs)
  BY DEF StreamInv, TypeInv
<1>3. Queue(a) = b \o t
  BY DEF Queue
<1>4. buff'[a] = b \o t /\ toAnchor'[a] = << >>
  BY <1>1, <1>2 DEF TypeInv
<1>5. Queue(a)' = (b \o t) \o << >>
  BY <1>4 DEF Queue
<1>6. \A c \in Anchors \ {a} : Queue(c)' = Queue(c) /\ buff'[c] = buff[c]
  BY <1>1, <1>2 DEF Queue, TypeInv
<1> HIDE DEF b, t
<1>7. b \o t \in Seq(Msgs) /\ b \o t # << >>
  BY <1>1, <1>2, ConcatProperties, ConcatEqualIffEmpty
<1>8. \A c \in Anchors : Queue(c)' = Queue(c)
  BY <1>3, <1>5, <1>6, <1>7, ConcatEmptySeq
<1>9. Calling' <=> Calling
  BY <1>1 DEF Calling, threadVars
<1>10. TypeInv'
  <2>1. buff' \in [Anchors -> Seq(Msgs)] /\ toAnchor' \in [Anchors -> Seq(Msgs)]
    BY <1>1, <1>2, <1>7, EmptySeq DEF TypeInv
  <2> QED BY <1>1, <1>2, <1>9, <2>1 DEF TypeInv, threadVars
<1>11. CallInv'
  BY <1>1, <1>9 DEF StreamInv, CallInv, threadVars
<1>12. BusyInv'
  BY <1>1, <1>4, <1>7, <1>2 DEF StreamInv, BusyInv, TypeInv
<1>13. QueueInv'
  BY <1>1, <1>8, <1>9 DEF StreamInv, QueueInv, Request, threadVars
<1>14. ValueInv'
  BY <1>1, <1>8 DEF StreamInv, ValueInv, NoGood, LastGood, Good, threadVars
<1>15. AnswerInv'
  <2>1. ASSUME NEW x, Answers(x), op.anchor \in Anchors PROVE Answers(x)'
    BY <1>1, <1>8, <2>1 DEF Answers, threadVars
  <2>2. Calling => op.anchor \in Anchors
    BY <1>2 DEF TypeInv, Msgs
  <2>3. ASSUME NEW x, Sound(x) PROVE Sound(x)'
    BY <1>1, <1>9, <2>1, <2>2, <2>3 DEF Sound, threadVars
  <2>4. main = "finish" => Calling
    BY DEF Calling
  <2> QED BY <1>1, <1>9, <2>1, <2>2, <2>3, <2>4 DEF StreamInv, AnswerInv, threadVars
<1> QED BY <1>10, <1>11, <1>12, <1>13, <1>14, <1>15 DEF StreamInv

(* recv_client_msg handles the first request of a stream, and answers when *)
(* it is neither refused nor the UDP message.                              *)
LEMMA HandleStep ==
    ASSUME StreamInv, NEW a \in Anchors, recv_client_msg(a), UNCHANGED threadVars
    PROVE  StreamInv'
<1> DEFINE b == buff[a]
           t == toAnchor[a]
           m == Head(b)
           r == [m EXCEPT !.value = Value(m, attr'[a])]
           q == Queue(a)
           p == Queue(a)'
<1>1. /\ a \in busy
      /\ buff' = [buff EXCEPT ![a] = Tail(b)]
      /\ busy' = busy \ {a} \/ (busy' = busy /\ buff'[a] # << >>)
      /\ UNCHANGED <<toAnchor, dead, threadVars>>
  BY DEF recv_client_msg
<1>2. TypeInv /\ b \in Seq(Msgs) /\ t \in Seq(Msgs) /\ b # << >> /\ a \notin dead
  BY <1>1 DEF StreamInv, TypeInv, BusyInv
<1>3. \/ /\ Refused(m) \/ m.func = "UDP"
         /\ UNCHANGED <<toHost, attr>>
      \/ /\ ~Refused(m) /\ m.func # "UDP"
         /\ attr' = [attr EXCEPT ![a] = Stored(m, attr[a])]
         /\ toHost' = [toHost EXCEPT ![a] = Append(toHost[a], r)]
  <2>1. CASE Refused(m) \/ m.func = "UDP"
    BY <2>1 DEF recv_client_msg
  <2>2. CASE ~(Refused(m) \/ m.func = "UDP")
    <3>1. /\ attr' = [attr EXCEPT ![a] = Stored(m, attr[a])]
          /\ toHost' = [toHost EXCEPT ![a] = Append(@, [m EXCEPT !.value = Value(m, Stored(m, attr[a]))])]
      BY <2>2 DEF recv_client_msg
    <3>2. attr'[a] = Stored(m, attr[a])
      BY <1>2, <3>1 DEF TypeInv
    <3> QED BY <2>2, <3>1, <3>2
  <2> QED BY <2>1, <2>2
<1>4. /\ m \in Msgs /\ Tail(b) \in Seq(Msgs) /\ m = q[1]
      /\ Len(q) \in Nat \ {0} /\ Len(p) = Len(q) - 1 /\ p \in Seq(Msgs)
      /\ \A i \in 1 .. Len(p) : p[i] = q[i + 1]
  <2>1. buff'[a] = Tail(b)
    BY <1>1, <1>2 DEF TypeInv
  <2>2. p = Tail(b) \o t /\ q = b \o t
    BY <1>1, <2>1 DEF Queue
  <2>3. m \in Msgs
    BY <1>2, HeadTailProperties
  <2> HIDE DEF b, t, p, q
  <2>4. Tail(b) \o t \in Seq(Msgs)
    BY <1>2, Popped, ConcatProperties
  <2> QED BY <1>2, <2>2, <2>3, <2>4, Popped DEF m
<1>5. \A c \in Anchors \ {a} : /\ Queue(c)' = Queue(c) /\ buff'[c] = buff[c]
                              /\ attr'[c] = attr[c] /\ toHost'[c] = toHost[c]
  BY <1>1, <1>2, <1>3 DEF Queue, TypeInv
<1>6. Calling' <=> Calling
  BY <1>1 DEF Calling, threadVars
<1>7. r \in Msgs /\ attr'[a] \in Data /\ r.func = m.func /\ r.seqn = m.seqn /\ r.anchor = m.anchor
      /\ r.value = Value(m, attr'[a])
  <2>1. m.value \in Data /\ m.anchor \in Data /\ attr[a] \in Data
    BY <1>2, <1>4 DEF TypeInv, Msgs, Data
  <2>2. attr'[a] \in Data
    BY <1>2, <1>3, <2>1 DEF Stored, TypeInv
  <2>3. Value(m, attr'[a]) \in Data
    BY <2>1, <2>2 DEF Value
  <2> HIDE DEF m
  <2> QED BY <1>4, <2>2, <2>3 DEF Msgs
<1>8. attr'[a] = IF m.func = "SETDWATTR" /\ m.value # Bad THEN m.value ELSE attr[a]
  BY <1>2, <1>3 DEF Stored, Refused, TypeInv
<1> HIDE DEF b, t, m, r, q, p
<1>9. TypeInv'
  <2>1. buff' \in [Anchors -> Seq(Msgs)] /\ attr' \in [Anchors -> Data]
    BY <1>1, <1>2, <1>3, <1>4, <1>7 DEF TypeInv
  <2>2. toHost' \in [Anchors -> Seq(Msgs)]
    <3>1. Append(toHost[a], r) \in Seq(Msgs)
      BY <1>2, <1>7, AppendProperties DEF TypeInv
    <3> QED BY <1>2, <1>3, <3>1 DEF TypeInv
  <2> QED BY <1>1, <1>2, <1>6, <2>1, <2>2 DEF TypeInv, threadVars
<1>10. CallInv'
  BY <1>1, <1>6 DEF StreamInv, CallInv, threadVars
<1>11. BusyInv'
  BY <1>1, <1>5, <1>2 DEF StreamInv, BusyInv
<1>12. QueueInv'
  <2> SUFFICES ASSUME NEW c \in Anchors, NEW i \in 1 .. Len(Queue(c)')
               PROVE  Request(c, i)'
    BY DEF QueueInv
  <2>1. CASE c = a
    <3>1. i + 1 \in 1 .. Len(Queue(a)) /\ Queue(a)'[i] = Queue(a)[i + 1] /\ i \in Nat
      BY <1>4, <2>1 DEF p, q
    <3>2. Request(a, i + 1)
      BY <3>1 DEF StreamInv, QueueInv
    <3>3. i + 1 = Len(Queue(a)) => i = Len(Queue(a)')
      BY <1>4, <3>1 DEF p, q
    <3> QED BY <1>1, <1>6, <2>1, <3>1, <3>2, <3>3 DEF Request, threadVars
  <2>2. CASE c # a
    BY <1>1, <1>5, <1>6, <2>2 DEF StreamInv, QueueInv, Request, threadVars
  <2> QED BY <2>1, <2>2
<1>13. ValueInv'
  <2> SUFFICES ASSUME NEW c \in Anchors, c \notin dead
               PROVE  (attr'[c] = sent[c] /\ NoGood(c)') \/ LastGood(c)'
    BY <1>1 DEF ValueInv, threadVars
  <2>1. (attr[c] = sent[c] /\ NoGood(c)) \/ LastGood(c)
    BY DEF StreamInv, ValueInv
  <2>2. CASE c # a
    BY <1>1, <1>5, <2>1, <2>2 DEF NoGood, LastGood, Good, threadVars
  <2>3. CASE c = a /\ attr[c] = sent[c] /\ NoGood(c)
    <3>1. ~Good(m) /\ attr'[a] = attr[a]
      BY <1>4, <1>8, <2>3 DEF NoGood, Good, q
    <3>2. \A i \in 1 .. Len(p) : i + 1 \in 1 .. Len(q) /\ p[i] = q[i + 1]
      BY <1>4
    <3> QED BY <2>3, <3>1, <3>2 DEF NoGood, Good, p, q
  <2>4. CASE c = a /\ LastGood(c)
    <3>1. PICK i \in 1 .. Len(q) : /\ Good(q[i]) /\ q[i].value = sent[a]
                                   /\ \A j \in i + 1 .. Len(q) : ~Good(q[j])
      BY <2>4 DEF LastGood, q
    <3>2. CASE i = 1
      <4>1. attr'[a] = sent[a]
        BY <1>4, <1>8, <3>1, <3>2 DEF Good
      <4>2. \A j \in 1 .. Len(p) : j + 1 \in i + 1 .. Len(q) /\ p[j] = q[j + 1]
        BY <1>4, <3>2
      <4> QED BY <2>4, <3>1, <4>1, <4>2 DEF NoGood, Good, p
    <3>3. CASE i # 1
      <4>1. i - 1 \in 1 .. Len(p) /\ p[i - 1] = q[i]
        <5>1. i - 1 \in 1 .. Len(p) /\ (i - 1) + 1 = i
          BY <1>4, <3>3
        <5>2. p[i - 1] = q[(i - 1) + 1]
          BY <1>4, <5>1
        <5> QED BY <5>1, <5>2
      <4>2. \A j \in (i - 1) + 1 .. Len(p) : ~Good(p[j])
        <5>1. \A j \in (i - 1) + 1 .. Len(p) : j + 1 \in i + 1 .. Len(q) /\ p[j] = q[j + 1]
          BY <1>4, <3>3
        <5> QED BY <3>1, <5>1 DEF Good
      <4>3. sent' = sent
        BY <1>1 DEF threadVars
      <4> QED BY <2>4, <3>1, <4>1, <4>2, <4>3 DEF LastGood, Good, p
    <3> QED BY <3>2, <3>3
  <2> QED BY <2>1, <2>2, <2>3, <2>4
<1>14. AnswerInv'
  <2>1. ASSUME NEW x, Answers(x), op.anchor \in Anchors PROVE Answers(x)'
    <3>1. op.anchor # a
      <4>1. Queue(a) # << >>
        BY <1>4, EmptySeq DEF q
      <4> QED BY <2>1, <4>1 DEF Answers
    <3> QED BY <1>1, <1>5, <2>1, <3>1 DEF Answers, threadVars
  <2>2. Calling => op.anchor \in Anchors
    BY <1>2 DEF TypeInv, Msgs
  <2>3. ASSUME NEW x, Sound(x) PROVE Sound(x)'
    BY <1>1, <1>6, <2>1, <2>2, <2>3 DEF Sound, threadVars
  <2>4. main = "finish" => Calling
    BY DEF Calling
  <2>5. ASSUME NEW x, x = r PROVE x.anchor = a /\ Sound(x)'
    <3>1. Request(a, 1)
      BY <1>4 DEF StreamInv, QueueInv, q
    <3>2. m.anchor = a /\ m.seqn < seqnum
      BY <1>4, <3>1 DEF Request, q
    <3>3. ASSUME Calling, m.seqn = op.seqn PROVE Answers(x)'
      <4>1. Len(q) = 1 /\ m.func = op.func /\ op.anchor = a
        BY <1>4, <3>1, <3>2, <3>3 DEF Request, q
      <4>2. Len(p) = 0
        BY <1>4, <4>1
      <4>3. Queue(a)' = << >>
        BY <1>4, <4>2, EmptySeq DEF p
      <4>4. attr'[a] = sent'[a]
        <5>1. ~LastGood(a)'
          BY <4>2 DEF LastGood, p
        <5> QED BY <1>1, <1>2, <1>13, <5>1 DEF ValueInv
      <4> QED BY <1>1, <1>7, <2>5, <3>2, <4>1, <4>3, <4>4 DEF Answers, Value, threadVars
    <3> QED BY <1>1, <1>6, <1>7, <2>5, <3>2, <3>3 DEF Sound, threadVars
  <2>6. ASSUME NEW c \in Anchors, NEW i \in 1 .. Len(toHost'[c])
        PROVE  toHost'[c][i].anchor = c /\ Sound(toHost[c][i])'
    <3>1. CASE i \in 1 .. Len(toHost[c]) /\ toHost'[c][i] = toHost[c][i]
      <4>1. toHost[c][i].anchor = c /\ Sound(toHost[c][i])
        BY <3>1 DEF StreamInv, AnswerInv
      <4>2. \A x : Sound(x) => Sound(x)'
        BY <2>3
      <4> QED BY <3>1, <4>1, <4>2 DEF Sound, Answers
    <3>2. CASE c = a /\ toHost'[c][i] = r
      BY <2>5, <3>2
    <3>3. toHost[c] \in Seq(Msgs)
      BY <1>2 DEF TypeInv
    <3>4. toHost'[c] = toHost[c] \/ (c = a /\ toHost'[c] = Append(toHost[c], r))
      BY <1>2, <1>3 DEF TypeInv
    <3> QED BY <1>7, <3>1, <3>2, <3>3, <3>4, AppendProperties, LenProperties
  <2>7. \A s \in DOMAIN calls' : calls'[s] = calls[s] /\ s \in DOMAIN calls
    BY <1>1 DEF threadVars
  <2> QED BY <1>1, <1>6, <2>1, <2>2, <2>3, <2>4, <2>6, <2>7 DEF StreamInv, AnswerInv, threadVars
<1> QED BY <1>9, <1>10, <1>11, <1>12, <1>13, <1>14 DEF StreamInv

(* A daemon dies: its streams are empty, and answers are lost.             *)
LEMMA CrashStep ==
    ASSUME StreamInv, NEW a \in Anchors, Crash(a), UNCHANGED threadVars
    PROVE  StreamInv'
<1>1. /\ dead' = dead \cup {a} /\ busy' = busy \ {a}
      /\ toAnchor' = [toAnchor EXCEPT ![a] = << >>] /\ buff' = [buff EXCEPT ![a] = << >>]
      /\ UNCHANGED <<attr, threadVars>>
  BY DEF Crash
<1>2. PICK n \in 0 .. Len(toHost[a]) : toHost' = [toHost EXCEPT ![a] = SubSeq(toHost[a], 1, n)]
  BY DEF Crash, Prefixes
<1>3. TypeInv
  BY DEF StreamInv
<1>4. /\ SubSeq(toHost[a], 1, n) \in Seq(Msgs) /\ Len(SubSeq(toHost[a], 1, n)) = n
      /\ n \in Nat /\ Len(toHost[a]) \in Nat
      /\ \A i \in 1 .. n : SubSeq(toHost[a], 1, n)[i] = toHost[a][i]
  <2>1. toHost[a] \in Seq(Msgs) /\ Len(toHost[a]) \in Nat
    BY <1>3, LenProperties DEF TypeInv
  <2>2. n \in Nat /\ n <= Len(toHost[a])
    BY <2>1
  <2>3. \A i \in 1 .. n : toHost[a][i] \in Msgs
    BY <2>1, <2>2, ElementOfSeq
  <2>4. /\ SubSeq(toHost[a], 1, n) \in Seq(Msgs)
        /\ Len(SubSeq(toHost[a], 1, n)) = IF 1 <= n THEN n - 1 + 1 ELSE 0
        /\ \A i \in 1 .. n - 1 + 1 : SubSeq(toHost[a], 1, n)[i] = toHost[a][1 + i - 1]
    BY <2>2, <2>3, SubSeqProperties
  <2> QED BY <2>1, <2>2, <2>4
<1>5. Queue(a)' = << >> /\ \A b \in Anchors \ {a} : Queue(b)' = Queue(b) /\ buff'[b] = buff[b]
  <2>1. buff'[a] = << >> /\ toAnchor'[a] = << >>
    BY <1>1, <1>3 DEF TypeInv
  <2>2. << >> \o << >> = << >>
    BY EmptySeq, ConcatEmptySeq
  <2>3. Queue(a)' = << >>
    BY <2>1, <2>2 DEF Queue
  <2> QED BY <1>1, <1>3, <2>3 DEF Queue, TypeInv
<1>6. Calling' <=> Calling
  BY <1>1 DEF Calling, threadVars
<1>7. TypeInv'
  <2>1. buff' \in [Anchors -> Seq(Msgs)] /\ toAnchor' \in [Anchors -> Seq(Msgs)]
    BY <1>1, <1>3, EmptySeq DEF TypeInv
  <2>2. toHost' \in [Anchors -> Seq(Msgs)]
    BY <1>2, <1>3, <1>4 DEF TypeInv
  <2> QED BY <1>1, <1>3, <1>6, <2>1, <2>2 DEF TypeInv, threadVars
<1>8. CallInv'
  BY <1>1, <1>6 DEF StreamInv, CallInv, threadVars
<1>9. BusyInv'
  BY <1>1, <1>3 DEF StreamInv, BusyInv, TypeInv
<1>10. QueueInv'
  <2>1. Len(Queue(a)') = 0
    BY <1>5, EmptySeq
  <2> QED BY <1>1, <1>5, <1>6, <2>1 DEF StreamInv, QueueInv, Request, threadVars
<1>11. ValueInv'
  BY <1>1, <1>5 DEF StreamInv, ValueInv, NoGood, LastGood, Good, threadVars
<1>12. AnswerInv'
  <2>1. ASSUME NEW x, Answers(x), op.anchor \in Anchors PROVE Answers(x)'
    BY <1>1, <1>5, <2>1 DEF Answers, threadVars
  <2>2. Calling => op.anchor \in Anchors
    BY <1>3 DEF TypeInv, Msgs
  <2>3. ASSUME NEW x, Sound(x) PROVE Sound(x)'
    BY <1>1, <1>6, <2>1, <2>2, <2>3 DEF Sound, threadVars
  <2>4. main = "finish" => Calling
    BY DEF Calling
  <2>5. ASSUME NEW c \in Anchors, NEW i \in 1 .. Len(toHost'[c])
        PROVE  toHost'[c][i].anchor = c /\ Sound(toHost[c][i])'
    <3>1. i \in 1 .. Len(toHost[c]) /\ toHost'[c][i] = toHost[c][i]
      <4>1. CASE c = a
        <5>1. toHost'[c] = SubSeq(toHost[a], 1, n)
          BY <1>2, <1>3, <4>1 DEF TypeInv
        <5>2. i \in 1 .. n /\ i \in 1 .. Len(toHost[a])
          BY <1>4, <5>1
        <5> QED BY <1>4, <4>1, <5>1, <5>2
      <4>2. CASE c # a
        BY <1>2, <1>3, <4>2 DEF TypeInv
      <4> QED BY <4>1, <4>2
    <3>2. toHost[c][i].anchor = c /\ Sound(toHost[c][i])
      BY <3>1 DEF StreamInv, AnswerInv
    <3>3. \A x : Sound(x) => Sound(x)'
      BY <2>3
    <3> QED BY <3>1, <3>2, <3>3 DEF Sound, Answers
  <2>6. \A s \in DOMAIN calls' : calls'[s] = calls[s] /\ s \in DOMAIN calls
    BY <1>1 DEF threadVars
  <2> QED BY <1>1, <1>6, <2>1, <2>2, <2>3, <2>4, <2>5, <2>6 DEF StreamInv, AnswerInv, threadVars
<1> QED BY <1>7, <1>8, <1>9, <1>10, <1>11, <1>12 DEF StreamInv

-----------------------------------------------------------------------------
(* The invariant                                                           *)

LEMMA StreamInit == Init => StreamInv
<1> SUFFICES ASSUME Init PROVE StreamInv
  OBVIOUS
<1>1. /\ toAnchor = [a \in Anchors |-> << >>] /\ buff = [a \in Anchors |-> << >>]
      /\ toHost = [a \in Anchors |-> << >>] /\ attr = [a \in Anchors |-> 0]
      /\ busy = {} /\ seqnum = 1 /\ calls = << >> /\ handler = {}
      /\ devices \subseteq Anchors /\ sent = [a \in Anchors |-> 0]
      /\ main = "idle" /\ answer = None /\ rx = "poll"
  BY DEF Init, DaemonInit
<1>2. DOMAIN calls = {} /\ ~Calling
  BY <1>1 DEF Calling
<1>3. TypeInv
  <2>1. calls \in [DOMAIN calls -> Entries]
    BY <1>1, <1>2
  <2> QED BY <1>1, <1>2, <2>1, EmptySeq DEF TypeInv, Data
<1>4. \A a \in Anchors : Queue(a) = << >> /\ Len(Queue(a)) = 0
  <2>1. << >> \o << >> = << >> /\ Len(<< >>) = 0
    BY EmptySeq, ConcatEmptySeq
  <2> QED BY <1>1, <2>1 DEF Queue
<1>5. CallInv /\ BusyInv
  BY <1>1, <1>2 DEF CallInv, BusyInv, Calling
<1>6. QueueInv /\ ValueInv
  BY <1>1, <1>4 DEF QueueInv, ValueInv, NoGood
<1>7. AnswerInv
  <2>1. \A a \in Anchors : Len(toHost[a]) = 0
    BY <1>1, EmptySeq
  <2> QED BY <1>1, <1>2, <2>1 DEF AnswerInv
<1> QED BY <1>3, <1>5, <1>6, <1>7 DEF StreamInv

LEMMA StreamNext == StreamInv /\ [Next]_vars => StreamInv'
<1> SUFFICES ASSUME StreamInv, [Next]_vars PROVE StreamInv'
  OBVIOUS
<1> USE DEF streamVars, callVars, daemonVars, stream, rpcVars, mainVars
<1>1. CASE UNCHANGED vars
  BY <1>1, QuietStep DEF vars
<1>2. CASE MainWaits
  <2>1. CASE wait_call_return
    BY <2>1, WaitStep
  <2>2. CASE finish_call
    BY <2>2, FinishStep
  <2>3. CASE register_udp_bcast
    BY <2>3, RegisterStep
  <2>4. CASE blinks_accounted_for
    BY <2>4, QuietStep DEF blinks_accounted_for, Between
  <2>5. CASE Nap
    BY <2>5, QuietStep DEF Nap, MainStep, Between
  <2>6. CASE WakeUp
    BY <2>6, QuietStep DEF WakeUp, AfterNap, Between
  <2>7. CASE purge_blinks
    BY <2>7, QuietStep DEF purge_blinks, MainStep, Between
  <2> QED BY <1>2, <2>1, <2>2, <2>3, <2>4, <2>5, <2>6, <2>7 DEF MainWaits
<1>3. CASE MainChooses
  <2>1. CASE Connect
    <3>1. PICK a \in Anchors : call("GETEUI", a, 0)
      BY <2>1 DEF Connect
    <3>2. "GETEUI" \in Funcs \ {"UDP"} /\ 0 \in Data
      BY DEF Funcs, Data
    <3> QED BY <3>1, <3>2, CallStep
  <2>2. CASE SetAttr
    <3>1. PICK a \in Tuned, v \in Values : call("SETDWATTR", a, v)
      BY <2>2 DEF SetAttr
    <3>2. "SETDWATTR" \in Funcs \ {"UDP"} /\ v \in Data /\ a \in Anchors /\ devices = Anchors
      BY <2>2, HostAssumption DEF SetAttr, Funcs, Data
    <3> QED BY <3>1, <3>2, CallStep
  <2>3. CASE GetAttr
    <3>1. PICK a \in Tuned : call("GETDWATTR", a, 0)
      BY <2>3 DEF GetAttr
    <3>2. "GETDWATTR" \in Funcs \ {"UDP"} /\ 0 \in Data /\ a \in Anchors /\ devices = Anchors
      BY <2>3, HostAssumption DEF GetAttr, Funcs, Data
    <3> QED BY <3>1, <3>2, CallStep
  <2>4. CASE wait_blinks
    BY <2>4, QuietStep DEF wait_blinks, MainStep, Between
  <2>5. ASSUME NEW a \in Anchors, blink(a) PROVE StreamInv'
    BY <2>5, QuietStep DEF blink
  <2> QED BY <1>3, <2>1, <2>2, <2>3, <2>4, <2>5 DEF MainChooses
<1>4. CASE Receiver
  <2>1. CASE StoreData
    BY <2>1, StoreStep
  <2>2. CASE SetEvent
    BY <2>2, SetStep
  <2>3. CASE StoreBlink
    BY <2>3, QuietStep DEF StoreBlink, RxStep, RxGoes, AfterError
  <2>4. ASSUME NEW a \in Anchors, recvmsg(a) PROVE StreamInv'
    BY <2>4, RecvStep
  <2>5. ASSUME NEW r \in reports, handle_blink(r[1], r[2]) PROVE StreamInv'
    BY <2>5, QuietStep DEF handle_blink, RxStep
  <2> QED BY <1>4, <2>1, <2>2, <2>3, <2>4, <2>5 DEF Receiver
<1>5. CASE Daemons
  <2>1. PICK a \in Anchors : Daemon(a)
    BY <1>5 DEF Daemons, Outside
  <2>2. UNCHANGED threadVars
    BY <1>5 DEF Daemons, Outside, threadVars
  <2>3. CASE recv_tcp_client(a)
    BY <2>2, <2>3, ReadStep
  <2>4. CASE recv_client_msg(a)
    BY <2>2, <2>4, HandleStep
  <2>5. CASE \E b \in beacons : recv_udp_client(a, b[2])
    BY <2>2, <2>5, QuietStep DEF recv_udp_client, threadVars
  <2>6. CASE \E p \in pending : send_udp_client(a, p[2])
    BY <2>2, <2>6, QuietStep DEF send_udp_client, threadVars
  <2> QED BY <2>1, <2>3, <2>4, <2>5, <2>6 DEF Daemon
<1>6. CASE Faults
  <2>1. UNCHANGED threadVars
    BY <1>6 DEF Faults, Outside, threadVars
  <2>2. CASE Lose
    BY <2>1, <2>2, QuietStep DEF Lose, threadVars
  <2>3. ASSUME NEW a \in Anchors, Crash(a) PROVE StreamInv'
    BY <2>1, <2>3, CrashStep
  <2> QED BY <1>6, <2>2, <2>3 DEF Faults, Outside
<1> QED BY <1>1, <1>2, <1>3, <1>4, <1>5, <1>6 DEF Next

(* What a call returns is the answer to that call, and says what the       *)
(* anchor has now, however many calls were given up before it, whatever    *)
(* of their requests and answers are still on the way, and whichever       *)
(* daemons have died.                                                      *)
THEOREM HostLibraryAnswerIsCurrent == Spec => []AnswerIsCurrent
<1>1. StreamInv => AnswerIsCurrent
  BY DEF StreamInv, AnswerInv, Answers, AnswerIsCurrent
<1> QED BY <1>1, StreamInit, StreamNext, PTL DEF Spec

(* Between calls neither an entry nor a handler is left, in whatever order *)
(* timeouts and late answers come.                                         *)
THEOREM HostLibraryNothingLeft == Spec => []NothingLeft
<1>1. StreamInv => NothingLeft
  BY DEF StreamInv, CallInv, Between, NothingLeft
<1> QED BY <1>1, StreamInit, StreamNext, PTL DEF Spec

-----------------------------------------------------------------------------
(* The registration by datagram                                            *)

(* An anchor that has not registered the host has the UDP message of a     *)
(* connected host before any other request than GETEUI, and has answered   *)
(* nothing else.                                                           *)
Unregistered == Anchors \ (dead \cup udpPipes)
UdpAt(a, i)  == Queue(a)[i].func = "UDP"
First(a) ==
  /\ \A i \in 1 .. Len(Queue(a)) :
        Queue(a)[i].func \notin {"GETEUI", "UDP"} => \E j \in 1 .. i - 1 : UdpAt(a, j)
  /\ a \in devices /\ ~(main = "bcast" /\ op.anchor = a) => \E j \in 1 .. Len(Queue(a)) : UdpAt(a, j)
Only(a, m) == m # None /\ m.anchor = a => m.func = "GETEUI"
Silent(a) ==
  /\ a \notin synced
  /\ \A i \in 1 .. Len(toHost[a]) : toHost[a][i].func = "GETEUI"
  /\ rx \in {"data", "set"} => Only(a, msg)
  /\ \A s \in DOMAIN calls : Only(a, calls[s].data)
  /\ Only(a, answer)
UdpInv == \A a \in Unregistered : First(a) /\ Silent(a)

LEMMA QuietUdp ==
    ASSUME UdpInv, UNCHANGED <<toAnchor, buff, toHost, dead, udpPipes, callVars, synced>>,
           main' = main \/ (main \in Between /\ main' \in Between),
           (rx' = rx /\ msg' = msg) \/ rx' \notin {"data", "set"}
    PROVE  UdpInv'
<1>1. \A a : Queue(a)' = Queue(a)
  BY DEF Queue
<1>2. ASSUME NEW a \in Unregistered PROVE First(a)'
  BY <1>1 DEF UdpInv, First, UdpAt, callVars, Between
<1>3. ASSUME NEW a \in Unregistered PROVE Silent(a)'
  BY DEF UdpInv, Silent, Only, callVars
<1> QED BY <1>2, <1>3 DEF UdpInv, Unregistered

(* A request goes behind the UDP message, and only it goes before.         *)
LEMMA FirstPushed ==
    ASSUME TypeInv, NEW b \in Anchors, NEW m \in Msgs, Sends(b, m), UNCHANGED buff,
           NEW a \in Anchors \ dead,
           \A i \in 1 .. Len(Queue(a)) :
             Queue(a)[i].func \notin {"GETEUI", "UDP"} => \E j \in 1 .. i - 1 : UdpAt(a, j),
           b = a /\ m.func \notin {"GETEUI", "UDP"} => \E j \in 1 .. Len(Queue(a)) : UdpAt(a, j)
    PROVE  /\ \A i \in 1 .. Len(Queue(a)') :
                Queue(a)'[i].func \notin {"GETEUI", "UDP"} => \E j \in 1 .. i - 1 : UdpAt(a, j)'
           /\ \A j \in 1 .. Len(Queue(a)) : UdpAt(a, j) => j \in 1 .. Len(Queue(a)') /\ UdpAt(a, j)'
           /\ b = a /\ m.func = "UDP" => \E j \in 1 .. Len(Queue(a)') : UdpAt(a, j)'
<1>1. \/ Queue(a)' = Queue(a) /\ b # a
      \/ /\ b = a
         /\ Len(Queue(a)') = Len(Queue(a)) + 1
         /\ \A i \in 1 .. Len(Queue(a)) : Queue(a)'[i] = Queue(a)[i]
         /\ Queue(a)'[Len(Queue(a)) + 1] = m
  BY SendStep
<1>2. Len(Queue(a)) \in Nat
  BY QueueType
<1>3. \A j \in 1 .. Len(Queue(a)) : UdpAt(a, j) => j \in 1 .. Len(Queue(a)') /\ UdpAt(a, j)'
  BY <1>1, <1>2 DEF UdpAt
<1>4. ASSUME NEW i \in 1 .. Len(Queue(a)'), Queue(a)'[i].func \notin {"GETEUI", "UDP"}
      PROVE  \E j \in 1 .. i - 1 : UdpAt(a, j)'
  <2>1. CASE i \in 1 .. Len(Queue(a)) /\ Queue(a)'[i] = Queue(a)[i]
    <3>1. PICK j \in 1 .. i - 1 : UdpAt(a, j)
      BY <1>4, <2>1
    <3>2. j \in 1 .. Len(Queue(a))
      BY <1>2, <2>1
    <3> QED BY <1>3, <3>1, <3>2
  <2>2. CASE b = a /\ i = Len(Queue(a)) + 1 /\ Queue(a)'[i] = m
    <3>1. PICK j \in 1 .. Len(Queue(a)) : UdpAt(a, j)
      BY <1>4, <2>2
    <3> QED BY <1>2, <1>3, <2>2, <3>1
  <2> QED BY <1>1, <1>2, <2>1, <2>2
<1>5. b = a /\ m.func = "UDP" => \E j \in 1 .. Len(Queue(a)') : UdpAt(a, j)'
  <2> SUFFICES ASSUME b = a, m.func = "UDP" PROVE \E j \in 1 .. Len(Queue(a)') : UdpAt(a, j)'
    OBVIOUS
  <2>1. Len(Queue(a)) + 1 \in 1 .. Len(Queue(a)') /\ Queue(a)'[Len(Queue(a)) + 1] = m
    BY <1>1, <1>2
  <2> QED BY <2>1 DEF UdpAt
<1> QED BY <1>3, <1>4, <1>5

LEMMA CallUdp ==
    ASSUME StreamInv, UdpInv, NEW f \in Funcs \ {"UDP"}, NEW b \in Anchors, NEW v \in Data,
           f # "GETEUI" => b \in devices, call(f, b, v)
    PROVE  UdpInv'
<1> DEFINE m == Message(f, b, seqnum, v)
<1>1. /\ main = "idle" /\ main' \in {"wait", "raised"} /\ Sends(b, m) /\ answer' = None
      /\ calls' = With(calls, seqnum, [data |-> None, set |-> FALSE])
      /\ UNCHANGED <<buff, toHost, dead, udpPipes, devices, synced, rx, msg>>
  BY DEF call, MayRaise
<1>2. m \in Msgs /\ m.func = f
  BY DEF Message, Msgs, Funcs, StreamInv, TypeInv
<1> HIDE DEF m
<1>3. TypeInv /\ DOMAIN calls = {}
  BY <1>1 DEF StreamInv, CallInv, Between
<1>4. ASSUME NEW a \in Unregistered PROVE First(a)'
  <2>1. First(a) /\ a \in Anchors \ dead
    BY <1>4 DEF UdpInv, Unregistered
  <2>2. a \in devices => \E j \in 1 .. Len(Queue(a)) : UdpAt(a, j)
    BY <1>1, <2>1 DEF First
  <2>3. /\ \A i \in 1 .. Len(Queue(a)') :
             Queue(a)'[i].func \notin {"GETEUI", "UDP"} => \E j \in 1 .. i - 1 : UdpAt(a, j)'
        /\ \A j \in 1 .. Len(Queue(a)) : UdpAt(a, j) => j \in 1 .. Len(Queue(a)') /\ UdpAt(a, j)'
    BY <1>1, <1>2, <1>3, <2>1, <2>2, FirstPushed DEF First
  <2> QED BY <1>1, <2>2, <2>3 DEF First
<1>5. ASSUME NEW a \in Unregistered PROVE Silent(a)'
  <2>1. \A s \in DOMAIN calls' : calls'[s].data = None
    BY <1>1, <1>3 DEF With
  <2> QED BY <1>1, <2>1 DEF UdpInv, Silent, Only
<1> QED BY <1>1, <1>4, <1>5 DEF UdpInv, Unregistered

LEMMA FinishUdp ==
    ASSUME StreamInv, UdpInv, finish_call
    PROVE  UdpInv'
<1>1. /\ main = "finish" /\ main' = (IF op.func = "GETEUI" THEN "bcast" ELSE "idle")
      /\ calls' = Without(calls, op.seqn) /\ devices' = devices \cup {op.anchor}
      /\ synced' = (IF op.func # "GETEUI" /\ answer # None THEN synced \cup {op.anchor} ELSE synced)
      /\ op' = (IF op.func = "GETEUI" THEN op ELSE None) /\ answer' = None
      /\ UNCHANGED <<toAnchor, buff, toHost, dead, udpPipes, rx, msg>>
  BY DEF finish_call, MainStep, daemonVars
<1>2. \A a : Queue(a)' = Queue(a)
  BY <1>1 DEF Queue
<1>3. op.func # "GETEUI" => op.anchor \in devices
  BY <1>1 DEF StreamInv, CallInv, Calling
<1>4. ASSUME NEW a \in Unregistered PROVE First(a)'
  <2>1. First(a)
    BY DEF UdpInv
  <2>2. a \in devices' /\ ~(main' = "bcast" /\ op'.anchor = a) => a \in devices
    BY <1>1, <1>3
  <2> QED BY <1>1, <1>2, <2>1, <2>2 DEF First, UdpAt
<1>5. ASSUME NEW a \in Unregistered PROVE Silent(a)'
  <2>1. Silent(a)
    BY DEF UdpInv
  <2>2. answer # None => answer.anchor = op.anchor /\ answer.func = op.func
    BY <1>1 DEF StreamInv, AnswerInv, Answers
  <2>3. a \notin synced'
    BY <1>1, <2>1, <2>2 DEF Silent, Only
  <2>4. \A s \in DOMAIN calls' : s \in DOMAIN calls /\ calls'[s] = calls[s]
    BY <1>1 DEF Without
  <2> QED BY <1>1, <2>1, <2>3, <2>4 DEF Silent, Only
<1> QED BY <1>1, <1>4, <1>5 DEF UdpInv, Unregistered

LEMMA RegisterUdp ==
    ASSUME StreamInv, UdpInv, register_udp_bcast
    PROVE  UdpInv'
<1> DEFINE b == op.anchor
           m == Message("UDP", op.anchor, 0, 0)
<1>1. /\ main = "bcast" /\ main' \in {"idle", "raised"} /\ Sends(b, m)
      /\ UNCHANGED <<buff, toHost, dead, udpPipes, calls, devices, answer, synced, rx, msg>>
  BY DEF register_udp_bcast, MayRaise, rpcVars
<1>2. TypeInv /\ op \in Msgs
  BY <1>1 DEF StreamInv, TypeInv
<1>3. b \in Anchors /\ m \in Msgs /\ m.func = "UDP"
  BY <1>2 DEF Msgs, Message, Funcs, Data
<1>4. ASSUME NEW a \in Unregistered PROVE First(a)'
  <2>1. First(a) /\ a \in Anchors \ dead
    BY <1>4 DEF UdpInv, Unregistered
  <2>2. a \in devices /\ b # a => \E j \in 1 .. Len(Queue(a)) : UdpAt(a, j)
    BY <1>1, <2>1 DEF First
  <2> HIDE DEF b, m
  <2>3. /\ \A i \in 1 .. Len(Queue(a)') :
             Queue(a)'[i].func \notin {"GETEUI", "UDP"} => \E j \in 1 .. i - 1 : UdpAt(a, j)'
        /\ \A j \in 1 .. Len(Queue(a)) : UdpAt(a, j) => j \in 1 .. Len(Queue(a)') /\ UdpAt(a, j)'
        /\ b = a => \E j \in 1 .. Len(Queue(a)') : UdpAt(a, j)'
    BY <1>1, <1>2, <1>3, <2>1, FirstPushed DEF First
  <2> QED BY <1>1, <2>2, <2>3 DEF First
<1>5. ASSUME NEW a \in Unregistered PROVE Silent(a)'
  BY <1>1 DEF UdpInv, Silent, Only
<1> QED BY <1>1, <1>4, <1>5 DEF UdpInv, Unregistered

(* The streams of requests stay as they are.                               *)
LEMMA SameFirst ==
    ASSUME UdpInv, UNCHANGED <<toAnchor, buff, dead, udpPipes, devices, main, op>>,
           \A a \in Unregistered : Silent(a)'
    PROVE  UdpInv'
<1>1. \A a : Queue(a)' = Queue(a)
  BY DEF Queue
<1>2. ASSUME NEW a \in Unregistered PROVE First(a)'
  BY <1>1 DEF UdpInv, First, UdpAt
<1> QED BY <1>2 DEF UdpInv, Unregistered

LEMMA WaitUdp ==
    ASSUME StreamInv, UdpInv, wait_call_return
    PROVE  UdpInv'
<1>1. /\ main = "wait" /\ main' = "finish" /\ answer' = calls[op.seqn].data
      /\ UNCHANGED <<toAnchor, buff, toHost, dead, udpPipes, calls, devices, op, synced, rx, msg>>
  BY DEF wait_call_return, MainStep, daemonVars
<1>2. \A a : Queue(a)' = Queue(a)
  BY <1>1 DEF Queue
<1>3. ASSUME NEW a \in Unregistered PROVE First(a)'
  BY <1>1, <1>2 DEF UdpInv, First, UdpAt
<1>4. op.seqn \in DOMAIN calls
  BY <1>1 DEF StreamInv, CallInv
<1>5. ASSUME NEW a \in Unregistered PROVE Silent(a)'
  BY <1>1, <1>4 DEF UdpInv, Silent, Only
<1> QED BY <1>1, <1>3, <1>5 DEF UdpInv, Unregistered

LEMMA RecvUdp ==
    ASSUME StreamInv, UdpInv, NEW b \in Anchors, recvmsg(b)
    PROVE  UdpInv'
<1> DEFINE m == Head(toHost[b])
<1>1. /\ toHost[b] # << >> /\ toHost' = [toHost EXCEPT ![b] = Tail(toHost[b])]
      /\ (rx' = "data" /\ msg' = m) \/ (rx' = rx /\ msg' = msg)
      /\ UNCHANGED <<toAnchor, buff, dead, udpPipes, calls, devices, main, op, answer, synced>>
  BY DEF recvmsg, RxStep, mainVars
<1>2. toHost \in [Anchors -> Seq(Msgs)] /\ toHost[b] \in Seq(Msgs)
  BY DEF StreamInv, TypeInv
<1>3. /\ m = toHost[b][1] /\ Len(toHost[b]) \in Nat \ {0}
      /\ Len(Tail(toHost[b])) = Len(toHost[b]) - 1
      /\ \A i \in 1 .. Len(Tail(toHost[b])) : Tail(toHost[b])[i] = toHost[b][i + 1]
  BY <1>1, <1>2, HeadTailProperties, EmptySeq
<1>4. m.anchor = b
  BY <1>3 DEF StreamInv, AnswerInv
<1> HIDE DEF m
<1>5. ASSUME NEW a \in Unregistered PROVE Silent(a)'
  <2>1. Silent(a) /\ a \in Anchors
    BY <1>5 DEF UdpInv, Unregistered
  <2>2. ASSUME NEW i \in 1 .. Len(toHost'[a]) PROVE toHost'[a][i].func = "GETEUI"
    <3>1. CASE a = b
      <4>1. toHost'[a] = Tail(toHost[b])
        BY <1>1, <1>2, <3>1
      <4>2. i + 1 \in 1 .. Len(toHost[b]) /\ toHost'[a][i] = toHost[b][i + 1]
        BY <1>3, <4>1
      <4> QED BY <2>1, <3>1, <4>2 DEF Silent
    <3>2. CASE a # b
      BY <1>1, <1>2, <2>1, <3>2 DEF Silent
    <3> QED BY <3>1, <3>2
  <2>3. Only(a, m)
    BY <1>3, <1>4, <2>1 DEF Only, Silent
  <2> QED BY <1>1, <2>1, <2>2, <2>3 DEF Silent, Only
<1> QED BY <1>1, <1>5, SameFirst

LEMMA StoreUdp ==
    ASSUME StreamInv, UdpInv, StoreData \/ SetEvent
    PROVE  UdpInv'
<1>1. /\ rx \in {"data", "set"}
      /\ \/ msg.seqn \in DOMAIN calls /\ calls' = [calls EXCEPT ![msg.seqn].data = msg]
         \/ msg.seqn \in DOMAIN calls /\ calls' = [calls EXCEPT ![msg.seqn].set = TRUE]
         \/ calls' = calls
      /\ rx' = "poll" \/ (rx' = "set" /\ msg' = msg)
      /\ UNCHANGED <<toAnchor, buff, dead, udpPipes, toHost, devices, main, op, answer, synced>>
  BY DEF StoreData, SetEvent, RxStep, RxGoes, AfterError, mainVars, daemonVars
<1>2. calls \in [DOMAIN calls -> Entries]
  BY DEF StreamInv, TypeInv
<1>3. \A s \in DOMAIN calls' : s \in DOMAIN calls /\ (calls'[s].data = calls[s].data \/ calls'[s].data = msg)
  BY <1>1, <1>2 DEF Entries
<1>4. ASSUME NEW a \in Unregistered PROVE Silent(a)'
  BY <1>1, <1>3 DEF UdpInv, Silent, Only
<1> QED BY <1>1, <1>4, SameFirst

LEMMA ReadUdp ==
    ASSUME StreamInv, UdpInv, NEW b \in Anchors, recv_tcp_client(b), UNCHANGED <<threadVars, synced>>
    PROVE  UdpInv'
<1>1. /\ buff' = [buff EXCEPT ![b] = buff[b] \o toAnchor[b]] /\ toAnchor' = [toAnchor EXCEPT ![b] = << >>]
      /\ UNCHANGED <<toHost, dead, udpPipes>>
  BY DEF recv_tcp_client
<1>2. TypeInv
  BY DEF StreamInv
<1>3. ASSUME NEW a \in Anchors PROVE Queue(a)' = Queue(a)
  <2>1. CASE a = b
    <3>1. buff'[a] = Queue(a) /\ toAnchor'[a] = << >> /\ Queue(a) \in Seq(Msgs)
      BY <1>1, <1>2, <2>1, QueueType DEF TypeInv, Queue
    <3>2. Queue(a)' = buff'[a] \o toAnchor'[a]
      BY DEF Queue
    <3> QED BY <3>1, <3>2, ConcatEmptySeq
  <2>2. CASE a # b
    BY <1>1, <1>2, <2>2 DEF TypeInv, Queue
  <2> QED BY <2>1, <2>2
<1>4. ASSUME NEW a \in Unregistered PROVE First(a)'
  BY <1>3 DEF UdpInv, First, UdpAt, threadVars, Unregistered
<1>5. ASSUME NEW a \in Unregistered PROVE Silent(a)'
  BY <1>1 DEF UdpInv, Silent, Only, threadVars
<1> QED BY <1>1, <1>4, <1>5 DEF UdpInv, Unregistered

(* The request that an anchor handles before the UDP message is GETEUI.    *)
LEMMA HandleUdp ==
    ASSUME StreamInv, UdpInv, NEW b \in Anchors, recv_client_msg(b), UNCHANGED <<threadVars, synced>>
    PROVE  UdpInv'
<1> DEFINE m == Head(buff[b])
           q == Queue(b)
           p == Queue(b)'
<1>1. /\ b \in busy /\ buff' = [buff EXCEPT ![b] = Tail(buff[b])]
      /\ udpPipes' = IF m.func = "UDP" THEN udpPipes \cup {b} ELSE udpPipes
      /\ UNCHANGED <<toAnchor, dead, threadVars, synced>>
  BY DEF recv_client_msg
<1>2. PICK x : x.func = m.func /\ (toHost' = toHost \/ toHost' = [toHost EXCEPT ![b] = Append(toHost[b], x)])
  <2>1. CASE toHost' = toHost
    BY <2>1
  <2>2. CASE toHost' # toHost
    <3>1. toHost' = [toHost EXCEPT ![b] = Append(@, [m EXCEPT !.value = Value(m, Stored(m, attr[b]))])]
      BY <2>2 DEF recv_client_msg
    <3>2. m \in Msgs
      <4>1. buff[b] \in Seq(Msgs) /\ buff[b] # << >>
        BY <1>1 DEF StreamInv, TypeInv, BusyInv
      <4> QED BY <4>1, HeadTailProperties
    <3>3. [m EXCEPT !.value = Value(m, Stored(m, attr[b]))].func = m.func
      BY <3>2 DEF Msgs
    <3> QED BY <3>1, <3>3
  <2> QED BY <2>1, <2>2
<1>3. TypeInv /\ buff[b] \in Seq(Msgs) /\ toAnchor[b] \in Seq(Msgs) /\ buff[b] # << >>
  BY <1>1 DEF StreamInv, TypeInv, BusyInv
<1>4. /\ m = q[1] /\ Len(q) \in Nat \ {0} /\ Len(p) = Len(q) - 1
      /\ \A i \in 1 .. Len(p) : p[i] = q[i + 1]
  <2> DEFINE c == buff[b]
             t == toAnchor[b]
  <2>1. p = Tail(c) \o t /\ q = c \o t
    BY <1>1, <1>3 DEF TypeInv, Queue
  <2>2. m = Head(c) /\ c \in Seq(Msgs) /\ t \in Seq(Msgs) /\ c # << >>
    BY <1>3
  <2> HIDE DEF c, t, p, q, m
  <2>3. /\ Len(c \o t) \in Nat /\ Len(c \o t) >= 1 /\ (c \o t)[1] = Head(c)
        /\ Len(Tail(c) \o t) = Len(c \o t) - 1
        /\ \A i \in 1 .. Len(Tail(c) \o t) : (Tail(c) \o t)[i] = (c \o t)[i + 1]
    BY ONLY <2>2, Popped
  <2> QED BY ONLY <2>1, <2>2, <2>3
<1>5. \A a \in Anchors \ {b} : Queue(a)' = Queue(a)
  BY <1>1, <1>3 DEF TypeInv, Queue
<1> HIDE DEF m, p, q
<1>6. ASSUME NEW a \in Unregistered, a \notin udpPipes' PROVE First(a)' /\ Silent(a)'
  <2>1. First(a) /\ Silent(a) /\ a \in Anchors
    BY <1>6 DEF UdpInv, Unregistered
  <2>2. CASE a # b
    <3>1. toHost'[a] = toHost[a]
      BY <1>2, <1>3, <2>1, <2>2 DEF TypeInv
    <3>2. First(a)'
      BY <1>1, <1>5, <2>1, <2>2 DEF First, UdpAt, threadVars
    <3> QED BY <1>1, <2>1, <3>1, <3>2 DEF Silent, Only, threadVars
  <2>3. CASE a = b
    <3>1. m.func = "GETEUI"
      <4>1. m.func # "UDP"
        BY <1>1, <1>6, <2>3
      <4>2. m.func \notin {"GETEUI", "UDP"} => \E j \in 1 .. 1 - 1 : UdpAt(a, j)
        BY <1>4, <2>1, <2>3 DEF First, q
      <4> QED BY <4>1, <4>2
    <3>2. \A j \in 1 .. Len(q) : q[j].func = "UDP" => j - 1 \in 1 .. Len(p) /\ p[j - 1].func = "UDP"
      <4> SUFFICES ASSUME NEW j \in 1 .. Len(q), q[j].func = "UDP"
                   PROVE  j - 1 \in 1 .. Len(p) /\ p[j - 1].func = "UDP"
        OBVIOUS
      <4>1. j # 1
        BY <1>4, <3>1
      <4>2. j - 1 \in 1 .. Len(p) /\ (j - 1) + 1 = j
        BY <1>4, <4>1
      <4>3. p[j - 1] = q[(j - 1) + 1]
        BY <1>4, <4>2
      <4> QED BY <4>2, <4>3
    <3>3. ASSUME NEW i \in 1 .. Len(p), p[i].func \notin {"GETEUI", "UDP"}
          PROVE  \E j \in 1 .. i - 1 : p[j].func = "UDP"
      <4>1. i + 1 \in 1 .. Len(q) /\ p[i] = q[i + 1] /\ i \in Nat
        BY <1>4
      <4>2. PICK j \in 1 .. (i + 1) - 1 : q[j].func = "UDP"
        BY <2>1, <2>3, <3>3, <4>1 DEF First, UdpAt, q
      <4>3. j \in 1 .. Len(q)
        BY <1>4, <4>1
      <4>4. j - 1 \in 1 .. Len(p) /\ p[j - 1].func = "UDP"
        BY <3>2, <4>2, <4>3
      <4>5. j - 1 \in 1 .. i - 1
        BY <1>4, <4>1, <4>4
      <4> QED BY <4>4, <4>5
    <3>4. ASSUME a \in devices, ~(main = "bcast" /\ op.anchor = a)
          PROVE  \E j \in 1 .. Len(p) : p[j].func = "UDP"
      <4>1. PICK j \in 1 .. Len(q) : q[j].func = "UDP"
        BY <2>1, <2>3, <3>4 DEF First, UdpAt, q
      <4> QED BY <3>2, <4>1
    <3>5. First(a)'
      BY <1>1, <2>3, <3>3, <3>4 DEF First, UdpAt, p, threadVars
    <3>6. \A i \in 1 .. Len(toHost'[a]) : toHost'[a][i].func = "GETEUI"
      <4> SUFFICES ASSUME NEW i \in 1 .. Len(toHost'[a]) PROVE toHost'[a][i].func = "GETEUI"
        OBVIOUS
      <4>1. toHost[a] \in Seq(Msgs) /\ Len(toHost[a]) \in Nat
        BY <1>3, <2>1, LenProperties DEF TypeInv
      <4>2. CASE toHost' = toHost
        BY <2>1, <4>2 DEF Silent
      <4>3. CASE toHost' = [toHost EXCEPT ![b] = Append(toHost[b], x)]
        <5>1. toHost'[a] = Append(toHost[a], x)
          BY <1>3, <2>1, <2>3, <4>3 DEF TypeInv
        <5>2. \/ i = Len(toHost[a]) + 1 /\ toHost'[a][i] = x
              \/ i \in 1 .. Len(toHost[a]) /\ toHost'[a][i] = toHost[a][i]
          BY <4>1, <5>1
        <5> QED BY <1>2, <2>1, <3>1, <5>2 DEF Silent
      <4> QED BY <1>2, <4>2, <4>3
    <3> QED BY <1>1, <2>1, <3>5, <3>6 DEF Silent, Only, threadVars
  <2> QED BY <2>2, <2>3
<1>7. ASSUME NEW a \in Unregistered' PROVE a \in Unregistered /\ a \notin udpPipes'
  BY <1>1, <1>7 DEF Unregistered
<1> QED BY <1>6, <1>7 DEF UdpInv

LEMMA CrashUdp ==
    ASSUME StreamInv, UdpInv, NEW b \in Anchors, Crash(b), UNCHANGED <<threadVars, synced>>
    PROVE  UdpInv'
<1>1. /\ dead' = dead \cup {b} /\ udpPipes' = udpPipes \ {b}
      /\ toAnchor' = [toAnchor EXCEPT ![b] = << >>] /\ buff' = [buff EXCEPT ![b] = << >>]
      /\ \E kept : toHost' = [toHost EXCEPT ![b] = kept]
  BY DEF Crash
<1>2. TypeInv
  BY DEF StreamInv
<1>3. ASSUME NEW a \in Unregistered'
      PROVE  /\ a \in Unregistered /\ Queue(a)' = Queue(a) /\ toHost'[a] = toHost[a]
  BY <1>1, <1>2, <1>3 DEF Unregistered, Queue, TypeInv
<1>4. ASSUME NEW a \in Unregistered' PROVE First(a)' /\ Silent(a)'
  BY <1>3, <1>4 DEF UdpInv, First, UdpAt, Silent, Only, threadVars
<1> QED BY <1>4 DEF UdpInv

LEMMA UdpInit == Init => UdpInv
<1> SUFFICES ASSUME Init PROVE UdpInv
  OBVIOUS
<1>1. /\ toAnchor = [a \in Anchors |-> << >>] /\ buff = [a \in Anchors |-> << >>]
      /\ toHost = [a \in Anchors |-> << >>] /\ calls = << >> /\ synced = {}
      /\ udpPipes = Anchors \ Tuned /\ devices = Anchors \ Tuned
      /\ answer = None /\ rx = "poll"
  BY DEF Init, DaemonInit
<1>2. ASSUME NEW a \in Anchors PROVE Len(Queue(a)) = 0 /\ Len(toHost[a]) = 0
  <2>1. << >> \o << >> = << >> /\ Len(<< >>) = 0
    BY EmptySeq, ConcatEmptySeq
  <2> QED BY <1>1, <2>1 DEF Queue
<1>3. DOMAIN calls = {}
  BY <1>1
<1> QED BY <1>1, <1>2, <1>3 DEF UdpInv, Unregistered, First, Silent, Only

LEMMA UdpNext == StreamInv /\ UdpInv /\ [Next]_vars => UdpInv'
<1> SUFFICES ASSUME StreamInv, UdpInv, [Next]_vars PROVE UdpInv'
  OBVIOUS
<1> USE DEF callVars, daemonVars, stream, rpcVars, mainVars
<1>1. CASE UNCHANGED vars
  BY <1>1, QuietUdp DEF vars
<1>2. CASE MainWaits
  <2>1. CASE wait_call_return
    BY <2>1, WaitUdp
  <2>2. CASE finish_call
    BY <2>2, FinishUdp
  <2>3. CASE register_udp_bcast
    BY <2>3, RegisterUdp
  <2>4. CASE blinks_accounted_for
    BY <2>4, QuietUdp DEF blinks_accounted_for, Between
  <2>5. CASE Nap
    BY <2>5, QuietUdp DEF Nap, MainStep, Between
  <2>6. CASE WakeUp
    BY <2>6, QuietUdp DEF WakeUp, AfterNap, Between
  <2>7. CASE purge_blinks
    BY <2>7, QuietUdp DEF purge_blinks, MainStep, Between
  <2> QED BY <1>2, <2>1, <2>2, <2>3, <2>4, <2>5, <2>6, <2>7 DEF MainWaits
<1>3. CASE MainChooses
  <2>1. CASE Connect
    <3>1. PICK a \in Anchors : call("GETEUI", a, 0)
      BY <2>1 DEF Connect
    <3>2. "GETEUI" \in Funcs \ {"UDP"} /\ 0 \in Data
      BY DEF Funcs, Data
    <3> QED BY <3>1, <3>2, CallUdp
  <2>2. CASE SetAttr
    <3>1. PICK a \in Tuned, v \in Values : call("SETDWATTR", a, v)
      BY <2>2 DEF SetAttr
    <3>2. "SETDWATTR" \in Funcs \ {"UDP"} /\ v \in Data /\ a \in Anchors /\ devices = Anchors
      BY <2>2, HostAssumption DEF SetAttr, Funcs, Data
    <3> QED BY <3>1, <3>2, CallUdp
  <2>3. CASE GetAttr
    <3>1. PICK a \in Tuned : call("GETDWATTR", a, 0)
      BY <2>3 DEF GetAttr
    <3>2. "GETDWATTR" \in Funcs \ {"UDP"} /\ 0 \in Data /\ a \in Anchors /\ devices = Anchors
      BY <2>3, HostAssumption DEF GetAttr, Funcs, Data
    <3> QED BY <3>1, <3>2, CallUdp
  <2>4. CASE wait_blinks
    BY <2>4, QuietUdp DEF wait_blinks, MainStep, Between
  <2>5. ASSUME NEW a \in Anchors, blink(a) PROVE UdpInv'
    BY <2>5, QuietUdp DEF blink
  <2> QED BY <1>3, <2>1, <2>2, <2>3, <2>4, <2>5 DEF MainChooses
<1>4. CASE Receiver
  <2>1. CASE StoreData \/ SetEvent
    BY <2>1, StoreUdp
  <2>2. CASE StoreBlink
    BY <2>2, QuietUdp DEF StoreBlink, RxStep, RxGoes, AfterError
  <2>3. ASSUME NEW a \in Anchors, recvmsg(a) PROVE UdpInv'
    BY <2>3, RecvUdp
  <2>4. ASSUME NEW r \in reports, handle_blink(r[1], r[2]) PROVE UdpInv'
    BY <2>4, QuietUdp DEF handle_blink, RxStep
  <2> QED BY <1>4, <2>1, <2>2, <2>3, <2>4 DEF Receiver
<1>5. CASE Daemons
  <2>1. PICK a \in Anchors : Daemon(a)
    BY <1>5 DEF Daemons, Outside
  <2>2. UNCHANGED <<threadVars, synced>>
    BY <1>5 DEF Daemons, Outside, threadVars
  <2>3. CASE recv_tcp_client(a)
    BY <2>2, <2>3, ReadUdp
  <2>4. CASE recv_client_msg(a)
    BY <2>2, <2>4, HandleUdp
  <2>5. CASE \E b \in beacons : recv_udp_client(a, b[2])
    BY <2>2, <2>5, QuietUdp DEF recv_udp_client, threadVars
  <2>6. CASE \E p \in pending : send_udp_client(a, p[2])
    BY <2>2, <2>6, QuietUdp DEF send_udp_client, threadVars
  <2> QED BY <2>1, <2>3, <2>4, <2>5, <2>6 DEF Daemon
<1>6. CASE Faults
  <2>1. UNCHANGED <<threadVars, synced>>
    BY <1>6 DEF Faults, Outside, threadVars
  <2>2. CASE Lose
    BY <2>1, <2>2, QuietUdp DEF Lose, threadVars
  <2>3. ASSUME NEW a \in Anchors, Crash(a) PROVE UdpInv'
    BY <2>1, <2>3, CrashUdp
  <2> QED BY <1>6, <2>2, <2>3 DEF Faults, Outside
<1> QED BY <1>1, <1>2, <1>3, <1>4, <1>5, <1>6 DEF Next

(* A beacon datagram may overtake the registration in the stream and is    *)
(* then dropped; once an anchor has answered a call made after connecting, *)
(* it has registered the host for as long as it lives.                     *)
THEOREM HostLibraryBlinksAccepted == Spec => []BlinksAccepted
<1>1. TypeInv /\ UdpInv => \A a \in (synced \cap Anchors) \ dead : a \in udpPipes
  BY DEF UdpInv, Unregistered, Silent
<1>2. Init => synced \subseteq Anchors
  BY DEF Init
<1>3. StreamInv /\ synced \subseteq Anchors /\ [Next]_vars => (synced \subseteq Anchors)'
  <2> SUFFICES ASSUME StreamInv, synced \subseteq Anchors, [Next]_vars
               PROVE  synced' \subseteq Anchors
    OBVIOUS
  <2>1. CASE finish_call
    <3>1. op.anchor \in Anchors
      BY <2>1 DEF finish_call, MainStep, StreamInv, TypeInv, Calling, Msgs
    <3> QED BY <2>1, <3>1 DEF finish_call
  <2>2. CASE ~finish_call
    <3>1. synced' = synced
      BY <2>2 DEF Next, vars, mainVars, MainWaits, MainChooses, Receiver, Daemons, Faults, Outside,
                  wait_call_return, register_udp_bcast, blinks_accounted_for, Nap, WakeUp,
                  purge_blinks, Connect, SetAttr, GetAttr, call, wait_blinks, blink, StoreData,
                  SetEvent, StoreBlink, recvmsg, handle_blink, RxStep
    <3> QED BY <3>1
  <2> QED BY <2>1, <2>2
<1>4. TypeInv /\ UdpInv /\ synced \subseteq Anchors => BlinksAccepted
  BY <1>1 DEF BlinksAccepted
<1>5. StreamInv => TypeInv
  BY DEF StreamInv
<1> QED BY <1>2, <1>3, <1>4, <1>5, StreamInit, StreamNext, UdpInit, UdpNext, PTL DEF Spec

=============================================================================
