--------------------------- MODULE GuardianSocket ---------------------------
(***************************************************************************)
(* useGuardianSocket (frontend/src/api/ws.ts): the effect of the           *)
(* GuardianProvider that keeps one WebSocket to /api/ws, reconnects it     *)
(* with a back-off, and is torn down and set up again by a render that     *)
(* finds another token in localStorage.                                    *)
(*                                                                         *)
(* JavaScript runs one task at a time, so a handler is one action.  The    *)
(* browser dispatches open and close as tasks of their own: a socket that  *)
(* close() was called on lives on until its close event, next to the       *)
(* socket that replaced it.  "mine" says that a socket belongs to the      *)
(* effect that is set up now: its variable "closed" is still false.  A     *)
(* timer of an earlier effect was cleared by the clean-up, so one timer is *)
(* enough, and connect() never finds "closed" set.                         *)
(*                                                                         *)
(* The text of messages and the error event, which only calls close() on   *)
(* a socket whose close event follows, are left out.  So is the catch      *)
(* around new WebSocket: the URL is made of the page's own scheme and      *)
(* host, for which the constructor does not throw, and what the catch does *)
(* (status, one more retry, the timer) is what Closed does to a socket     *)
(* that was never open.                                                    *)
(***************************************************************************)
EXTENDS Integers

CONSTANTS
  Tokens,       \* what localStorage can hold under guardian_token
  NoToken,      \* ... and its absence
  Valid,        \* the tokens the server accepts
  Sockets,      \* the WebSocket objects that are alive at the same time
  StrictMode,   \* a development build runs the first effect twice
  Down          \* no stream, in the abstract specification

ASSUME TokensAssumption == NoToken \in Tokens /\ Valid \subseteq Tokens
ASSUME DownAssumption == Down \notin Tokens
ASSUME StrictModeAssumption == StrictMode \in BOOLEAN

VARIABLES
  stored,     \* the token in localStorage
  dep,        \* the token the last committed render of the provider saw
  sock,       \* the sockets
  retries,    \* of the effect that is set up
  timer,      \* its reconnectTimer is running
  connected,  \* the provider's state, set through onStatus
  net,        \* the server is up and reachable
  late        \* history: a socket of an earlier effect closed since the last open

vars == <<stored, dep, sock, retries, timer, connected, net, late>>

-----------------------------------------------------------------------------
\* The delay min(1000 * 2 ^ retries, 15000) is the same from the fourth try on.
Saturated == 4
Bug_NoCap(n) == n + 1
OneMore(n) == IF n = Saturated THEN n ELSE n + 1

\* free: not created yet, or its close event was dispatched.
States == {"free", "connecting", "open", "closing"}
Free == [st |-> "free", token |-> NoToken, mine |-> FALSE, opened |-> FALSE]

TypeOK ==
  /\ stored \in Tokens
  /\ dep \in Tokens
  /\ sock \in [Sockets ->
       [st : States, token : Tokens, mine : BOOLEAN, opened : BOOLEAN]]
  /\ retries \in 0 .. Saturated
  /\ timer \in BOOLEAN
  /\ connected \in BOOLEAN
  /\ net \in BOOLEAN
  /\ late \in BOOLEAN

\* new WebSocket(url), with the token of this moment.
Connecting == [st |-> "connecting", token |-> stored, mine |-> TRUE, opened |-> FALSE]

\* ... after its effect was cleaned up.
Abandoned == [st |-> "closing", token |-> stored, mine |-> FALSE, opened |-> FALSE]

Connected(ss, k) == [ss EXCEPT ![k] = Connecting]

Bug_KeepsSocket == [k \in Sockets |-> [sock[k] EXCEPT !.mine = FALSE]]
Bug_ForgetsClosed ==
  [k \in Sockets |->
     IF sock[k].mine THEN [sock[k] EXCEPT !.st = "closing"] ELSE sock[k]]

\* The clean-up of the effect: closed = true, and close() on its socket, whose
\* close event is still to come.
CleanedUp ==
  [k \in Sockets |->
     IF sock[k].mine THEN [sock[k] EXCEPT !.st = "closing", !.mine = FALSE]
     ELSE sock[k]]

-----------------------------------------------------------------------------
\* The first commit.  StrictMode sets the effect up, cleans it up and sets it
\* up again, which leaves a socket (j) that closes before it opened, unless it
\* is gone already (j = k).
Init ==
  /\ stored \in Tokens
  /\ dep = stored
  /\ \E k \in Sockets, j \in Sockets :
       sock = [i \in Sockets |->
         IF i = k THEN Connecting
         ELSE IF StrictMode /\ i = j
              THEN Abandoned
              ELSE Free]
  /\ retries = 0
  /\ timer = FALSE
  /\ connected = FALSE
  /\ net \in BOOLEAN
  /\ late = FALSE

\* "Save & reconnect", or "Clear" with NoToken.  The save asks for a refresh
\* after 100 ms, the clear for nothing: see Render.
SetToken(t) ==
  /\ stored' = t
  /\ UNCHANGED <<dep, sock, retries, timer, connected, net, late>>

\* A render of the provider that finds another token than the last one did.
\* Any answer of the API changes state of the provider and renders it.
Render(k) ==
  /\ stored # dep
  /\ sock[k].st = "free"
  /\ dep' = stored
  /\ sock' = Connected(CleanedUp, k)
  /\ retries' = 0
  /\ timer' = FALSE
  /\ UNCHANGED <<stored, connected, net, late>>

\* onopen: the server accepted the connection and its token.
Opened(k) ==
  /\ sock[k].st = "connecting"
  /\ net
  /\ sock[k].token \in Valid
  /\ sock' = [sock EXCEPT ![k].st = "open", ![k].opened = TRUE]
  /\ retries' = 0
  /\ connected' = TRUE
  /\ late' = FALSE
  /\ UNCHANGED <<stored, dep, timer, net>>

\* Whether onclose asks for another connection.
Bug_OnlyAfterOpen(k) == sock[k].mine /\ sock[k].opened
Retries(k) == sock[k].mine

\* onStatus(false), whosever socket it is.
Bug_OwnSocketOnly(k) == connected /\ ~sock[k].mine
StatusAfterClose(k) == FALSE

\* The socket is about to be closed: refused (the server is away, or closed it
\* with 4401), lost, or the closing handshake that close() began has ended.
Ends(k) ==
  \/ sock[k].st = "connecting" /\ (~net \/ sock[k].token \notin Valid)
  \/ sock[k].st = "open" /\ ~net
  \/ sock[k].st = "closing"

\* onclose.
Closed(k) ==
  /\ Ends(k)
  /\ sock' = [sock EXCEPT ![k] = Free]
  /\ connected' = StatusAfterClose(k)
  /\ retries' = IF Retries(k) THEN OneMore(retries) ELSE retries
  /\ timer' = (timer \/ Retries(k))
  /\ late' = (late \/ ~sock[k].mine)
  /\ UNCHANGED <<stored, dep, net>>

\* The timer calls connect(), which reads the token of this moment.
Reconnect(k) ==
  /\ timer
  /\ sock[k].st = "free"
  /\ sock' = Connected(sock, k)
  /\ timer' = FALSE
  /\ UNCHANGED <<stored, dep, retries, connected, net, late>>

\* The server or the network goes away, or comes back.
NetChange ==
  /\ net' = ~net
  /\ UNCHANGED <<stored, dep, sock, retries, timer, connected, late>>

Next ==
  \/ \E t \in Tokens : SetToken(t)
  \/ \E k \in Sockets : Render(k) \/ Opened(k) \/ Closed(k) \/ Reconnect(k)
  \/ NetChange

\* The browser dispatches events and timers.  Renders go on because the health
\* poll sets a new object every ten seconds as long as the server answers.
Fairness ==
  /\ WF_vars(net /\ \E k \in Sockets : Render(k))
  /\ WF_vars(\E k \in Sockets : Reconnect(k))
  /\ \A k \in Sockets : WF_vars(Opened(k)) /\ WF_vars(Closed(k))

Spec == Init /\ [][Next]_vars
FairSpec == Spec /\ Fairness

-----------------------------------------------------------------------------
Streaming(k) == sock[k].st = "open"

\* The page shows the stream as it is.
SettingsStatus == IF connected THEN "connected" ELSE "disconnected (polling)"
HeaderStatus == IF connected THEN "live" ELSE "reconnecting"

\* "Stream connection" on System Health.
StreamRow == IF connected THEN "up" ELSE "down"

(***************************************************************************)
(* ConnectedIsBacked.  The dashboard says "connected", "live" or "up" only *)
(* on the strength of a stream that opened and whose end it was not told   *)
(* of yet: no path through a token change, a refusal or a retry leaves the *)
(* status standing without one.                                            *)
(***************************************************************************)
ConnectedIsBacked ==
  (SettingsStatus = "connected" \/ HeaderStatus = "live" \/ StreamRow = "up") =>
     \E k \in Sockets : sock[k].opened

(***************************************************************************)
(* WrongStatusIsLate.  A stream that delivers frames is shown as           *)
(* "disconnected (polling)" only because the close event of a socket the   *)
(* clean-up had closed came after the open event of its successor:         *)
(* onclose reports every close (ws.ts:55), not only its own effect's.      *)
(***************************************************************************)
WrongStatusIsLate ==
  (SettingsStatus # "connected" /\ \E k \in Sockets : Streaming(k)) => late

(***************************************************************************)
(* OneConnection.  The effect in place holds either one socket that is     *)
(* not being closed, or a running timer, never both and never neither: two *)
(* timers would make two sockets and each report would arrive twice, and   *)
(* none would be the end of the stream.                                    *)
(***************************************************************************)
Held == {k \in Sockets : sock[k].st \in {"connecting", "open"}}
OneConnection ==
  /\ timer => Held = {}
  /\ ~timer => \E k \in Sockets : Held = {k} /\ sock[k].mine

(***************************************************************************)
(* StreamReturns.  If from some moment on the server can be reached and    *)
(* the stored token stays one that it accepts, a stream comes up and stays *)
(* up, whatever tokens were saved, refused or lost connections came        *)
(* before.  It need not carry the stored token: a socket that reconnected  *)
(* with a token saved between two renders is not noticed by a third render *)
(* that finds the first token again.                                       *)
(***************************************************************************)
StreamReturns ==
  \A t \in Valid :
    <>[](net /\ stored = t) => <>[](\E k \in Sockets : Streaming(k))

(***************************************************************************)
(* ImplementsSubscription.  Streams come one at a time and with an         *)
(* accepted token, through every re-subscription and every reconnection.   *)
(***************************************************************************)
Link ==
  IF \E k \in Sockets : Streaming(k)
  THEN sock[CHOOSE k \in Sockets : Streaming(k)].token
  ELSE Down

Abstract == INSTANCE Subscription WITH link <- Link
ImplementsSubscription == Abstract!Spec
=============================================================================
