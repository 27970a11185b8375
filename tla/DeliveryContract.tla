-------------------------- MODULE DeliveryContract --------------------------
(***************************************************************************)
(* What the relay promises a panel about one event message, whatever the   *)
(* connections, the queue and the timers do.  A message is settled when    *)
(* the monitoring station has it or a filter rule exempts it; it is        *)
(* journaled only once settled, and acknowledged only once journaled.      *)
(* Nothing is promised about a refused message: the station may get it     *)
(* before or after the refusal.                                            *)
(***************************************************************************)
CONSTANT Jobs

VARIABLES
  delivered,  \* messages the station has accepted
  exempt,     \* who exempted a message: "no", "server" or "relay"
  journal,    \* "none", "relayed" or "blocked"
  answer      \* "none", "ack" or "nack"

vars == <<delivered, exempt, journal, answer>>

Init ==
  /\ delivered = {}
  /\ exempt = [j \in Jobs |-> "no"]
  /\ journal = [j \in Jobs |-> "none"]
  /\ answer = [j \in Jobs |-> "none"]

Settled(j) == j \in delivered \/ exempt[j] # "no"

Deliver(j) ==
  /\ exempt[j] = "no"
  /\ delivered' = delivered \cup {j}
  /\ UNCHANGED <<exempt, journal, answer>>

Exempt(j, by) ==
  /\ ~Settled(j)
  /\ answer[j] # "ack"
  /\ exempt' = [exempt EXCEPT ![j] = by]
  /\ UNCHANGED <<delivered, journal, answer>>

Record(j) ==
  /\ Settled(j)
  /\ journal[j] = "none"
  /\ answer[j] = "none"
  /\ journal' = [journal EXCEPT ![j] =
                   IF exempt[j] = "server" THEN "blocked" ELSE "relayed"]
  /\ UNCHANGED <<delivered, exempt, answer>>

Acknowledge(j) ==
  /\ journal[j] # "none"
  /\ answer[j] = "none"
  /\ answer' = [answer EXCEPT ![j] = "ack"]
  /\ UNCHANGED <<delivered, exempt, journal>>

Refuse(j) ==
  /\ journal[j] = "none"
  /\ answer[j] = "none"
  /\ answer' = [answer EXCEPT ![j] = "nack"]
  /\ UNCHANGED <<delivered, exempt, journal>>

Next ==
  \E j \in Jobs :
    \/ Deliver(j)
    \/ \E by \in {"server", "relay"} : Exempt(j, by)
    \/ Record(j)
    \/ Acknowledge(j)
    \/ Refuse(j)

Spec == Init /\ [][Next]_vars
=============================================================================
