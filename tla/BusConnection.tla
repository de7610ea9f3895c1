--------------------------- MODULE BusConnection ---------------------------
(***************************************************************************)
(* The connection of a browser to the message bus, of the Web UI           *)
(* (services/hivemind.ts) or of the embeddable widget                      *)
(* (widget/ConnectionManager.ts).  Both try a list of candidate addresses  *)
(* in turn and reconnect by a timer; they differ in what a handler of an   *)
(* old socket does to the new one.  A handler runs to its end; a socket    *)
(* that cannot be opened reports an error and then its close, in one task. *)
(* Left out: what is sent, the delays, addresses refused before a socket   *)
(* exists, encryption without WebCrypto, the end of the page.              *)
(***************************************************************************)
EXTENDS Integers, FiniteSets, Functions

CONSTANTS
    BusClients,     \* the clients to look at, of "page" and "widget"
    Urls,           \* number of candidate addresses
    MaxAttempts,    \* reconnections in a row before the page gives up
    MaxSockets      \* bound: sockets alive at once, and timers

VARIABLES
    client,         \* the client of this behaviour
    link,           \* the state of the service, its current socket, the sockets alive, its timers
    wanted,         \* connect() was called, and disconnect() not since
    said,           \* the widget's utterance: idle, waiting, sent, failed, lost
    overlapped      \* the page dialled while it was dialling, or a timer was pending

busVars == <<client, link, wanted, said, overlapped>>

Open(c) == c.ws \in DOMAIN c.sock /\ c.sock[c.ws].st = "open"
Forget(c, s) == [c EXCEPT !.sock = Restrict(@, DOMAIN @ \ {s})]

----------------------------------------------------------------------------
(* The functions of the two services; c is the link they work on.          *)

\* The page counts its attempts and gives up; it does not look whether the timer
\* it forgets is pending.  The widget cancels that timer and goes on for ever.
ScheduleReconnect(c) ==
    IF client = "widget" THEN [c EXCEPT !.state = "disconnected", !.armed = IF c.owned THEN @ ELSE @ + 1, !.owned = TRUE]
    ELSE IF c.attempts >= MaxAttempts THEN [c EXCEPT !.state = "error"]
    ELSE [c EXCEPT !.attempts = @ + 1, !.armed = @ + 1, !.owned = TRUE]

CancelReconnect(c) == [c EXCEPT !.armed = IF c.owned THEN @ - 1 ELSE @, !.owned = FALSE]

\* No address is left.  The page waits for the close of the last socket.
Exhausted(c) ==
    IF client = "page" THEN [c EXCEPT !.state = "error"]
    ELSE ScheduleReconnect([c EXCEPT !.ws = 0])

Opened(url) == [st |-> "opening", url |-> url, advanced |-> FALSE, greeted |-> FALSE]

TryConnect(c, url) ==
    LET s == CHOOSE i \in 1..(MaxSockets + 1) : i \notin DOMAIN c.sock
    IN  IF url > Urls THEN Exhausted(c)
        ELSE [c EXCEPT !.ws = s, !.sock = [i \in DOMAIN c.sock \cup {s} |-> IF i = s THEN Opened(url) ELSE c.sock[i]]]

Dial(c) ==
    IF client = "page"
      THEN IF Open(c) THEN c ELSE TryConnect([c EXCEPT !.state = "connecting"], 1)
      ELSE IF c.ws \in DOMAIN c.sock THEN c ELSE TryConnect([CancelReconnect(c) EXCEPT !.state = "connecting"], 1)

\* advanceToNextUrl, for the handlers of socket s.
Advance(c, s) ==
    IF c.sock[s].advanced \/ c.state # "connecting" THEN c
    ELSE TryConnect([c EXCEPT !.sock[s].advanced = TRUE, !.ws = 0], c.sock[s].url + 1)

OnOpen(c, s) ==
    LET opened == [c EXCEPT !.sock[s].st = "open", !.attempts = 0, !.state = "connected"]
    IN  IF Open(opened) THEN [opened EXCEPT !.sock[opened.ws].greeted = TRUE] ELSE opened

\* A mutant of OnClose: what closes while connecting is lost like any other socket.
OnCloseLost(c, s, refused) ==
    IF client = "widget" /\ refused THEN [c EXCEPT !.ws = 0, !.state = "error"]
    ELSE IF client = "widget" THEN ScheduleReconnect([c EXCEPT !.ws = 0])
    ELSE ScheduleReconnect([c EXCEPT !.state = "disconnected"])

\* The widget drops its current socket, whichever it is.
OnClose(c, s, refused) ==
    LET left == IF client = "widget" THEN [c EXCEPT !.ws = 0] ELSE c
    IN  IF c.state = "connecting" THEN Advance(left, s)
        ELSE IF client = "widget" /\ refused THEN [left EXCEPT !.state = "error"]
        ELSE ScheduleReconnect([left EXCEPT !.state = "disconnected"])

----------------------------------------------------------------------------

Init ==
    /\ client \in BusClients
    /\ link = [state |-> "disconnected", ws |-> 0, sock |-> <<>>, armed |-> 0, owned |-> FALSE, attempts |-> 0]
    /\ wanted = FALSE
    /\ said = "idle"
    /\ overlapped = FALSE

Opening(c) == {s \in DOMAIN c.sock : c.sock[s].st = "opening"}
Room(c) == Cardinality(DOMAIN c.sock) < MaxSockets

\* What an utterance that waits for the connection makes of the new link.
Heard(c) ==
    IF said # "waiting" \/ c.state = "connecting" THEN said
    ELSE IF c.state # "connected" THEN "failed"
    ELSE IF Open(c) THEN "sent" ELSE "lost"

Become(c) ==
    /\ link' = c
    /\ said' = Heard(c)
    /\ c.armed <= MaxSockets
    /\ UNCHANGED client

\* The page offers to connect unless it is connected; the widget asks at any time.
Connect ==
    /\ client = "page" => link.state # "connected"
    /\ Room(link)
    /\ Become(Dial(link))
    /\ wanted' = TRUE
    /\ overlapped' = (overlapped \/ (client = "page" /\ ~Open(link) /\ (Opening(link) # {} \/ link.armed > 0)))

\* A reconnection timer, the one the service knows of or a forgotten one.
TimerFires ==
    /\ Room(link)
    /\ \E known \in BOOLEAN :
          /\ IF known THEN link.owned ELSE link.armed > (IF link.owned THEN 1 ELSE 0)
          /\ LET left == [link EXCEPT !.armed = @ - 1, !.owned = @ /\ ~known] IN
             /\ Become(Dial(left))
             /\ overlapped' = (overlapped \/ (client = "page" /\ ~Open(left) /\ (Opening(left) # {} \/ left.armed > 0)))
    /\ UNCHANGED wanted

SocketOpens(s) ==
    /\ s \in Opening(link)
    /\ Become(OnOpen(link, s))
    /\ UNCHANGED <<wanted, overlapped>>

\* onerror advances while the service connects; then onclose.
SocketFails(s) ==
    /\ s \in Opening(link)
    /\ Become(Forget(OnClose(Advance(link, s), s, FALSE), s))
    /\ UNCHANGED <<wanted, overlapped>>

SocketCloses(s, refused) ==
    /\ s \in DOMAIN link.sock /\ link.sock[s].st = "open"
    /\ Become(Forget(OnClose(link, s, refused), s))
    /\ UNCHANGED <<wanted, overlapped>>

\* The handlers of the current socket, open or opening, are taken off before it is
\* closed; only the page calls this while it lives.
Disconnect ==
    /\ client = "page"
    /\ Become([Forget(CancelReconnect(link), link.ws) EXCEPT !.attempts = 0, !.ws = 0, !.state = "disconnected"])
    /\ wanted' = FALSE
    /\ UNCHANGED overlapped

\* The widget's sendUtterance: it connects if it has no open socket, and waits.
SendUtterance ==
    /\ client = "widget" /\ said = "idle" /\ Room(link)
    /\ IF Open(link) THEN link' = link /\ said' = "sent" ELSE link' = Dial(link) /\ said' = "waiting"
    /\ wanted' = TRUE
    /\ UNCHANGED <<client, overlapped>>

\* It is over: it was sent, or it failed, or it has waited for too long.
UtteranceEnds ==
    /\ said # "idle"
    /\ said' = "idle"
    /\ UNCHANGED <<client, link, wanted, overlapped>>

Next ==
    \/ Connect
    \/ TimerFires
    \/ Disconnect
    \/ SendUtterance
    \/ UtteranceEnds
    \/ \E s \in DOMAIN link.sock :
          SocketOpens(s) \/ SocketFails(s) \/ \E refused \in BOOLEAN : SocketCloses(s, refused)

Spec == Init /\ [][Next]_busVars

----------------------------------------------------------------------------

(* The page says connected exactly when its socket is open and greeted, it *)
(* keeps no other socket, it gives up only after the last attempt, and     *)
(* otherwise it comes back by exactly one timer; after a disconnect it     *)
(* keeps nothing.  (Unless it dialled twice at once: hivemind.ts:202.)     *)
PageHolds ==
    client = "page" /\ ~overlapped =>
        /\ link.state = "connected" <=> Open(link)
        /\ Open(link) => link.sock[link.ws].greeted
        /\ DOMAIN link.sock \subseteq {link.ws}
        /\ link.state = "connecting" => DOMAIN link.sock # {}
        /\ link.state = "error" => link.attempts = MaxAttempts
        /\ link.armed = (IF link.state = "disconnected" /\ wanted THEN 1 ELSE 0)

(* A widget that was asked to connect and is not connected has a timer or  *)
(* a socket that will bring it back, unless the server has refused it; it  *)
(* never has two timers.                                                   *)
WidgetComesBack ==
    client = "widget" =>
        /\ wanted /\ link.state = "disconnected" => link.armed = 1
        /\ link.state = "connecting" => Opening(link) # {}
        /\ link.armed <= 1

ConnectionHolds == PageHolds /\ WidgetComesBack

(* What the test of ConnectionManager.sendUtterance says: an utterance     *)
(* that finds the widget connecting waits for the socket and is then sent. *)
WaitingIsSent == said # "lost"
=============================================================================
