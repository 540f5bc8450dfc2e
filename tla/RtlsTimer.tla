----------------------------- MODULE RtlsTimer -----------------------------
(***************************************************************************)
(* Timer and Timeout of demo/rtlsd.py: the timer thread, which runs the    *)
(* callbacks of expired timeouts with the lock held, and the socket thread, *)
(* which arms and unarms timeouts while it handles a datagram.             *)
(*                                                                         *)
(* Time is counted in units of 10 ms, cfg.tag_beacon_timer and its like;   *)
(* "left" is what remains until an entry's expiry.  Timer.list is a        *)
(* dictionary keyed by expiry: here a sequence in order of expiry.  All     *)
(* tags and anchors share it: here are the entries of one of them, and what *)
(* the timeouts of the others do to them.                                  *)
(***************************************************************************)
EXTENDS Integers, Sequences, SequencesExt, FiniteSets, FiniteSetsExt

CONSTANTS Delay,        \* the delay of each timeout, by its name
          MaxLate,      \* how late the timer thread may run an entry
          MaxDelay,     \* how long a datagram may take
          Collisions    \* bound: how often two timeouts expire at one time

ASSUME RtlsTimerAssumption == {MaxLate, MaxDelay, Collisions} \subseteq Nat

Idle == [at |-> "idle"]

VARIABLES armed,      \* timeouts whose flag "armed" is set
          list,       \* entries [who, sharers, left]: sharers have this expiry
          timer,      \* callback step of the timer thread, or "loop"
          sock,       \* step of the socket thread and its datagram
          net,        \* datagrams on their way to the server, with their age
          collisions, \* history: entries of Timer.list that were overwritten
          taken       \* history: timeouts whose entry others overwrote or popped

timerVars == <<armed, list, timer, collisions, taken>>
rtlsVars  == <<timerVars, sock, net>>

LockIsFree == timer = "loop"

-----------------------------------------------------------------------------
(* Timer.arm for an expiry that is "left" away.  The expiry of another     *)
(* entry is one float among very many, but nothing keeps it from being the *)
(* same one: the other entry is lost, its timeout stays armed.             *)
ByExpiry(l) == \A p, q \in DOMAIN l : p < q => l[p].left <= l[q].left

TimerArm(who, left) ==
  /\ \/ /\ \E p \in 1 .. Len(list) + 1 :
             /\ list' = InsertAt(list, p, [who |-> who, sharers |-> {who}, left |-> left])
             /\ ByExpiry(list')
        /\ UNCHANGED collisions
     \/ /\ collisions < Collisions
        /\ \E p \in DOMAIN list :
             /\ list[p].left = left
             /\ list' = [list EXCEPT ![p].who = who, ![p].sharers = @ \cup {who}]
        /\ collisions' = collisions + 1
  /\ UNCHANGED taken

(* An entry whose timeout has been unarmed before it was listed: its       *)
(* expiry is 0, it is due at once.                                         *)
DeadEntry(who) == [who |-> who, sharers |-> {}, left |-> -MaxLate]
TimerArmDead(who) ==
  /\ list' = <<DeadEntry(who)>> \o SelectSeq(list, LAMBDA e : e.sharers # {})
  /\ UNCHANGED <<collisions, taken>>

(* Timeout.arm on the timer thread, which has the lock.                    *)
Arm(who) == IF who \in armed THEN UNCHANGED <<armed, list, collisions, taken>>
                             ELSE armed' = armed \cup {who} /\ TimerArm(who, Delay[who])

(* Timeout.unarm pops whatever is listed at the expiry of its timeout.     *)
Unarm(whos) == /\ list' = SelectSeq(list, LAMBDA e : e.sharers \cap whos \cap armed = {})
               /\ armed' = armed \ whos
               /\ UNCHANGED <<collisions, taken>>

(* The socket thread sets "armed" without the lock ...                     *)
Claim(who, m, next) ==
  IF who \in armed
  THEN sock' = next /\ UNCHANGED armed
  ELSE armed' = armed \cup {who} /\ sock' = [at |-> "post", who |-> who, m |-> m, next |-> next]

(* ... and lists the timeout when it gets the lock.                        *)
Post == /\ sock.at = "post" /\ LockIsFree
        /\ IF sock.who \in armed THEN TimerArm(sock.who, Delay[sock.who])
                                 ELSE TimerArmDead(sock.who)
        /\ sock' = sock.next
        /\ UNCHANGED <<armed, timer, net>>

(* Timer.run takes the first entry, Timeout.expire runs its callback.      *)
Expire == /\ LockIsFree
          /\ list # << >> /\ Head(list).left <= 0
          /\ list' = Tail(list)
          /\ IF Head(list).who \in armed
             THEN armed' = armed \ {Head(list).who} /\ timer' = Head(list).who
             ELSE UNCHANGED <<armed, timer>>
          /\ UNCHANGED <<collisions, taken, sock, net>>

(* The entry that should be due is not there: another tag or anchor has    *)
(* armed a timeout for the same expiry, which is in its place, or has      *)
(* unarmed one that this entry had overwritten, and popped this one.  It   *)
(* makes no difference when that was: until then nothing reads the entry   *)
(* but Timeout.unarm, which pops either.                                   *)
OthersTook == /\ LockIsFree /\ collisions < Collisions
              /\ list # << >> /\ Head(list).left <= 0
              /\ list' = Tail(list)
              /\ taken' = taken \cup (Head(list).sharers \cap armed)
              /\ collisions' = collisions + 1
              /\ UNCHANGED <<armed, timer, sock, net>>

(* Time passes between two handlers; a datagram older than MaxDelay is lost. *)
TimePasses ==
  /\ LockIsFree /\ sock = Idle
  /\ list # << >> => Head(list).left > -MaxLate
  /\ list' = [p \in DOMAIN list |-> [list[p] EXCEPT !.left = @ - 1]]
  /\ net' = {[m EXCEPT !.age = @ + 1] : m \in {n \in net : n.age < MaxDelay}}
  /\ UNCHANGED <<armed, timer, collisions, taken, sock>>

=============================================================================
