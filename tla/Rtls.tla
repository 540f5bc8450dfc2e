-------------------------------- MODULE Rtls --------------------------------
(***************************************************************************)
(* The location server demo/rtlsd.py: its two threads locate a tag, or     *)
(* measure distances between anchors (cfg.anchor_wakeup_timer is set).     *)
(* One tag, or one anchor, is followed at a time.  What it shares with all *)
(* the others are the two threads, whose time they take, and Timer.list,   *)
(* where their timeouts meet its own.                                      *)
(***************************************************************************)
EXTENDS TagRanging, AnchorRanging

VARIABLE mode   \* "tag" or "anchors"

vars == <<rtlsVars, tagVars, anchorVars, mode>>

(* cfg: the four delays of 10 ms are one unit, the timeouts of 50 ms five. *)
RtlsDelay == [who \in {"beacon", "ranging", "timeout", "request", "response", "giveup", "wakeup"} |->
                IF who \in {"timeout", "giveup"} THEN 5 ELSE 1]

Init == /\ mode \in {"tag", "anchors"}
        /\ TagInit /\ AnchorInit
        /\ sock = Idle /\ net = {} /\ timer = "loop" /\ collisions = 0 /\ taken = {}
        /\ IF mode = "tag"
           THEN armed = {} /\ list = << >>
           ELSE /\ armed = {"wakeup"}
                /\ list = <<[who |-> "wakeup", sharers |-> {"wakeup"}, left |-> Min(Wakeups)]>>
                /\ choice = "forced" /\ refs = Anchors /\ beacon = None

InTag     == mode = "tag" /\ UNCHANGED <<anchorVars, mode>>
InAnchors == mode = "anchors" /\ UNCHANGED <<tagVars, mode>>

Next == \/ InTag /\ TagNext
        \/ InAnchors /\ AnchorNext

(* Both threads go on, and time passes.                                    *)
Spec == /\ Init /\ [][Next]_vars
        /\ WF_vars(InTag /\ SocketThread) /\ WF_vars(InTag /\ TimerThread)
        /\ WF_vars(InTag /\ TagTime)

-----------------------------------------------------------------------------
TypeOK == /\ armed \subseteq DOMAIN Delay /\ taken \subseteq DOMAIN Delay /\ collisions \in 0 .. Collisions
          /\ ByExpiry(list)
          /\ TagTypeOK /\ AnchorTypeOK

=============================================================================
