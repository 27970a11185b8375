------------------------------- MODULE Stats -------------------------------
(***************************************************************************)
(* Two numbers on the status line (src/internal/core/metrics.go): frames   *)
(* received in the last minute, kept as a ring of one counter per second,  *)
(* and clients, counted under the lock of the server and published after   *)
(* it (trackConn, untrackConn).  Every start of the runtime makes a new    *)
(* server; the numbers are the runtime's own, and nobody waits for the     *)
(* handlers of the servers before.                                         *)
(***************************************************************************)
EXTENDS Integers, FiniteSets

CONSTANTS
    WindowSize, \* receivedWindowSize: 60 in the program
    Clients,    \* connections
    MaxTime,    \* bound: the clock
    MaxServers  \* bound: starts of the runtime

ASSUME StatsAssumption == {WindowSize, MaxTime, MaxServers} \subseteq Nat \ {0}

VARIABLES
    now,           \* time.Now().Unix()
    receivedSec, receivedTotal, receivedRing,
    arrivals,      \* frames of each second
    setBack,       \* the clock was set back
    server,        \* how many servers there were; the last one runs
    conns,         \* TCPServer.conns of each
    publishing,    \* the number a handler is about to publish, or Silent
    clients,       \* Metrics.clients
    collided       \* the last change of conns met a number not yet published, or was
                   \* none of the server that runs

received == <<receivedSec, receivedTotal, receivedRing>>
statsVars == <<now, received, arrivals, setBack, server, conns, publishing, clients, collided>>

Silent == -1
Slots == 0 .. WindowSize - 1

StatsInit ==
    /\ now = 1
    /\ receivedSec = 0 /\ receivedTotal = 0 /\ receivedRing = [i \in Slots |-> 0]
    /\ arrivals = [t \in 1 .. MaxTime |-> 0] /\ setBack = FALSE
    /\ server = 1 /\ conns = [s \in 1 .. MaxServers |-> {}]
    /\ publishing = [c \in Clients |-> Silent] /\ clients = 0 /\ collided = FALSE

\* Mutant of Advanced: the counter of the present second keeps what it had.
AdvancedShort ==
    LET gap == now - receivedSec
        gone == {(receivedSec + step) % WindowSize : step \in 1 .. gap - 1}
        ring == [i \in Slots |-> IF i \in gone THEN 0 ELSE receivedRing[i]]
        sum[i \in 0 .. WindowSize] == IF i = 0 THEN 0
             ELSE sum[i - 1] + (IF i - 1 \in gone THEN receivedRing[i - 1] ELSE 0)
    IN IF receivedSec = 0 \/ gap <= 0
       THEN [sec |-> IF receivedSec = 0 THEN now ELSE receivedSec, total |-> receivedTotal,
             ring |-> receivedRing]
       ELSE IF gap >= WindowSize THEN [sec |-> now, total |-> 0, ring |-> [i \in Slots |-> 0]]
       ELSE [sec |-> now, total |-> receivedTotal - sum[WindowSize], ring |-> ring]

\* advanceReceivedWindowLocked: the seconds that have gone by lose their counter.
Advanced ==
    LET gap == now - receivedSec
        gone == {(receivedSec + step) % WindowSize : step \in 1 .. gap}
        ring == [i \in Slots |-> IF i \in gone THEN 0 ELSE receivedRing[i]]
        sum[i \in 0 .. WindowSize] == IF i = 0 THEN 0
             ELSE sum[i - 1] + (IF i - 1 \in gone THEN receivedRing[i - 1] ELSE 0)
    IN IF receivedSec = 0 \/ gap <= 0
       THEN [sec |-> IF receivedSec = 0 THEN now ELSE receivedSec, total |-> receivedTotal,
             ring |-> receivedRing]
       ELSE IF gap >= WindowSize THEN [sec |-> now, total |-> 0, ring |-> [i \in Slots |-> 0]]
       ELSE [sec |-> now, total |-> receivedTotal - sum[WindowSize], ring |-> ring]

IncReceived ==
    /\ arrivals[now] = 0
    /\ arrivals' = [arrivals EXCEPT ![now] = 1]
    /\ receivedSec' = Advanced.sec
    /\ receivedRing' = [Advanced.ring EXCEPT ![now % WindowSize] = @ + 1]
    /\ receivedTotal' = Advanced.total + 1
    /\ UNCHANGED <<now, setBack, server, conns, publishing, clients, collided>>

\* receivedRates, which moves the window too.
Snapshot ==
    /\ receivedSec # 0
    /\ receivedSec' = Advanced.sec /\ receivedRing' = Advanced.ring
    /\ receivedTotal' = Advanced.total
    /\ UNCHANGED <<now, arrivals, setBack, server, conns, publishing, clients, collided>>

ClockMoves ==
    /\ \E t \in 1 .. MaxTime \ {now} : now' = t /\ setBack' = (setBack \/ t < now)
    /\ UNCHANGED <<received, arrivals, server, conns, publishing, clients, collided>>

Published == \A c \in Clients : publishing[c] = Silent

Tracked(s, c, new) ==
    /\ publishing[c] = Silent
    /\ conns' = [conns EXCEPT ![s] = new]
    /\ publishing' = [publishing EXCEPT ![c] = Cardinality(new)]
    /\ collided' = (s # server \/ ~ Published)
    /\ UNCHANGED <<now, received, arrivals, setBack, server, clients>>

trackConn(s, c) == (\A t \in 1 .. server : c \notin conns[t]) /\ Tracked(s, c, conns[s] \cup {c})
untrackConn(s, c) == c \in conns[s] /\ Tracked(s, c, conns[s] \ {c})

SetClients(c) ==
    /\ publishing[c] # Silent
    /\ clients' = publishing[c]
    /\ publishing' = [publishing EXCEPT ![c] = Silent]
    /\ UNCHANGED <<now, received, arrivals, setBack, server, conns, collided>>

\* Runtime.Stop and Start: the number stays as it was.
NewTCPServer ==
    /\ server < MaxServers /\ server' = server + 1
    /\ collided' = (clients # 0 \/ ~ Published)
    /\ UNCHANGED <<now, received, arrivals, setBack, conns, publishing, clients>>

StatsNext ==
    \/ IncReceived \/ Snapshot \/ ClockMoves \/ NewTCPServer
    \/ \E c \in Clients : \/ SetClients(c)
                           \/ \E s \in 1 .. server : trackConn(s, c) \/ untrackConn(s, c)

\* The rate a snapshot taken now would show is the number of frames of the last
\* WindowSize seconds, whatever the pauses, as long as the clock is not set back; and
\* once every handler has published, the number of clients is that of the server that
\* runs, unless the last two handlers met between the lock and the publication, the
\* last one was an older server's, or the runtime started again with a number that was
\* not 0 and no connection has come or gone since.
StatsAreCounts ==
    /\ ~ setBack /\ receivedSec # 0 =>
         Advanced.total = Cardinality({t \in 1 .. now : t > now - WindowSize /\ arrivals[t] = 1})
    /\ ~ collided /\ Published => clients = Cardinality(conns[server])
=============================================================================
