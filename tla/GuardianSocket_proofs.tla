------------------------ MODULE GuardianSocket_proofs ------------------------
(***************************************************************************)
(* The safety of useGuardianSocket for every set of tokens and sockets: the *)
(* type invariant, one connection at a time, a status that is backed, and   *)
(* the implementation of Subscription.  The inductive invariant adds to     *)
(* the properties what each state of a socket says of its other fields.     *)
(***************************************************************************)
EXTENDS GuardianSocket, TLAPS

Fields ==
  \A k \in Sockets :
    /\ sock[k].st = "free" => sock[k] = Free
    /\ sock[k].st = "connecting" => sock[k].mine /\ ~sock[k].opened
    /\ sock[k].st = "open" =>
         sock[k].mine /\ sock[k].opened /\ sock[k].token \in Valid
    /\ sock[k].st = "closing" => ~sock[k].mine

\* Quantified forms of the properties, without the texts shown.
Backed == connected => \E k \in Sockets : sock[k].opened
StatusKnown == \A k \in Sockets : sock[k].st = "open" => connected \/ late

\* Two connections of the effect at once are one; with a timer there is none.
AtMostOne ==
  /\ \A k \in Sockets, j \in Sockets : k \in Held /\ j \in Held => k = j
  /\ timer => \A k \in Sockets : k \notin Held
  /\ ~timer => \E k \in Sockets : k \in Held

Inv == TypeOK /\ Fields /\ Backed /\ StatusKnown /\ AtMostOne

-----------------------------------------------------------------------------
LEMMA InitInv == Init => Inv
<1> SUFFICES ASSUME Init PROVE Inv
  OBVIOUS
<1>1. PICK k \in Sockets, j \in Sockets :
        sock = [i \in Sockets |->
          IF i = k THEN Connecting
          ELSE IF StrictMode /\ i = j
               THEN Abandoned
               ELSE Free]
  BY DEF Init
<1>3. /\ stored \in Tokens /\ dep = stored /\ retries = 0 /\ timer = FALSE
      /\ connected = FALSE /\ net \in BOOLEAN /\ late = FALSE
  BY DEF Init
<1>4. /\ DOMAIN sock = Sockets
      /\ sock[k] = Connecting
      /\ \A i \in Sockets : i # k => sock[i] = Abandoned \/ sock[i] = Free
  BY <1>1
<1>5. TypeOK
  <2>1. /\ stored \in Tokens /\ NoToken \in Tokens
        /\ {"connecting", "closing", "free"} \subseteq States
    BY <1>3, TokensAssumption DEF States
  <2> DEFINE Shape == [st : States, token : Tokens, mine : BOOLEAN, opened : BOOLEAN]
  <2>3. Connecting \in Shape
    BY <2>1 DEF Connecting
  <2>4. Abandoned \in Shape
    BY <2>1 DEF Abandoned
  <2>5. Free \in Shape
    BY <2>1 DEF Free
  <2>2. sock \in [Sockets ->
          [st : States, token : Tokens, mine : BOOLEAN, opened : BOOLEAN]]
    BY <1>1, <2>3, <2>4, <2>5
  <2> QED
    BY <1>3, <2>2, 0 \in 0 .. 4 DEF TypeOK, Saturated
<1>6. /\ sock[k].st = "connecting" /\ sock[k].mine /\ ~sock[k].opened
      /\ \A i \in Sockets : i # k =>
           \/ sock[i] = Free
           \/ sock[i].st = "closing" /\ ~sock[i].mine /\ ~sock[i].opened
  BY <1>4 DEF Connecting, Abandoned
<1>7. \A i \in Sockets : i # k => sock[i].st \in {"free", "closing"}
  BY <1>6 DEF Free
<1>8. Fields
  <2> SUFFICES ASSUME NEW i \in Sockets
               PROVE  /\ sock[i].st = "free" => sock[i] = Free
                      /\ sock[i].st = "connecting" => sock[i].mine /\ ~sock[i].opened
                      /\ sock[i].st = "open" =>
                           sock[i].mine /\ sock[i].opened /\ sock[i].token \in Valid
                      /\ sock[i].st = "closing" => ~sock[i].mine
    BY DEF Fields
  <2>1. CASE i = k
    BY <1>6, <2>1
  <2>2. CASE i # k
    BY <1>6, <1>7, <2>2, Free.st = "free" DEF Free
  <2> QED
    BY <2>1, <2>2
<1>9. Backed /\ StatusKnown /\ AtMostOne
  BY <1>3, <1>6, <1>7 DEF Backed, StatusKnown, AtMostOne, Held
<1> QED
  BY <1>5, <1>8, <1>9 DEF Inv

LEMMA SetTokenInv ==
  ASSUME Inv, NEW t \in Tokens, SetToken(t)
  PROVE  Inv'
BY DEF Inv, TypeOK, Fields, Backed, StatusKnown, AtMostOne, Held, SetToken

LEMMA NetChangeInv ==
  ASSUME Inv, NetChange
  PROVE  Inv'
BY DEF Inv, TypeOK, Fields, Backed, StatusKnown, AtMostOne, Held, NetChange

\* A new connection is put in a free slot of sockets that hold no other one.
LEMMA ConnectInv ==
  ASSUME Inv, NEW ss, NEW k \in Sockets, ss[k].st = "free",
         ss \in [Sockets -> [st : States, token : Tokens, mine : BOOLEAN, opened : BOOLEAN]],
         \A i \in Sockets : /\ ss[i].st = "free" => ss[i] = Free
                            /\ ss[i].st \in {"free", "closing"}
                            /\ ss[i].st = "closing" => ~ss[i].mine,
         connected' => \E i \in Sockets : ss[i].opened,
         sock' = Connected(ss, k), timer' = FALSE, net' = net, late' = late,
         stored' = stored, dep' \in Tokens, retries' \in 0 .. Saturated,
         connected' = connected
  PROVE  Inv'
<1>1. stored \in Tokens /\ connected \in BOOLEAN /\ net \in BOOLEAN /\ late \in BOOLEAN
  BY DEF Inv, TypeOK
<1>2. /\ sock'[k] = Connecting
      /\ \A i \in Sockets : i # k => sock'[i] = ss[i]
      /\ Connecting.st = "connecting" /\ Connecting.mine /\ ~Connecting.opened
  BY DEF Connected, Connecting
<1>3. Connecting \in [st : States, token : Tokens, mine : BOOLEAN, opened : BOOLEAN]
  BY <1>1, "connecting" \in States DEF Connecting, States
<1>4. TypeOK'
  <2>1. sock' \in [Sockets -> [st : States, token : Tokens, mine : BOOLEAN, opened : BOOLEAN]]
    BY <1>3 DEF Connected
  <2> QED
    BY <1>1, <2>1 DEF TypeOK
<1>5. \A i \in Sockets : i # k => sock'[i].st \in {"free", "closing"}
  BY <1>2
<1>6. Fields'
  <2> SUFFICES ASSUME NEW i \in Sockets
               PROVE  /\ sock'[i].st = "free" => sock'[i] = Free
                      /\ sock'[i].st = "connecting" => sock'[i].mine /\ ~sock'[i].opened
                      /\ sock'[i].st = "open" =>
                           sock'[i].mine /\ sock'[i].opened /\ sock'[i].token \in Valid
                      /\ sock'[i].st = "closing" => ~sock'[i].mine
    BY DEF Fields, Free
  <2>1. CASE i = k
    BY <1>2, <2>1
  <2>2. CASE i # k
    BY <1>2, <1>5, <2>2
  <2> QED
    BY <2>1, <2>2
<1>7. Backed'
  <2>1. ~ss[k].opened
    BY Free.opened = FALSE DEF Free
  <2> QED
    BY <1>2, <2>1 DEF Backed
<1>8. StatusKnown' /\ AtMostOne'
  BY <1>2, <1>5 DEF StatusKnown, AtMostOne, Held
<1> QED
  BY <1>4, <1>6, <1>7, <1>8 DEF Inv

LEMMA RenderInv ==
  ASSUME Inv, NEW k \in Sockets, Render(k)
  PROVE  Inv'
<1>1. /\ sock' = Connected(CleanedUp, k) /\ timer' = FALSE /\ net' = net
      /\ late' = late /\ stored' = stored /\ dep' = stored /\ retries' = 0
      /\ connected' = connected /\ sock[k].st = "free"
  BY DEF Render
<1> DEFINE Shape == [st : States, token : Tokens, mine : BOOLEAN, opened : BOOLEAN]
<1>2. /\ stored \in Tokens /\ sock \in [Sockets -> Shape]
      /\ "closing" \in States
  BY DEF Inv, TypeOK, States
<1>3. ASSUME NEW i \in Sockets
      PROVE  /\ CleanedUp[i] \in Shape
             /\ CleanedUp[i].opened = sock[i].opened
             /\ ~CleanedUp[i].mine
             /\ CleanedUp[i].st = IF sock[i].st \in {"connecting", "open"}
                                  THEN "closing" ELSE sock[i].st
             /\ sock[i].st = "free" => CleanedUp[i] = sock[i]
  <2>1. sock[i] \in Shape
    BY <1>2
  <2>2. CASE sock[i].mine
    <3>1. CleanedUp[i] = [sock[i] EXCEPT !.st = "closing", !.mine = FALSE]
      BY <2>2 DEF CleanedUp
    <3>2. sock[i].st \in {"connecting", "open"}
      BY <2>1, <2>2 DEF Inv, Fields, States, Free
    <3> QED
      BY <1>2, <2>1, <3>1, <3>2
  <2>3. CASE ~sock[i].mine
    <3>1. CleanedUp[i] = sock[i] /\ sock[i].st \notin {"connecting", "open"}
      BY <2>3 DEF CleanedUp, Inv, Fields
    <3> QED
      BY <2>1, <2>3, <3>1
  <2> QED
    BY <2>2, <2>3
<1>4. CleanedUp \in [Sockets -> Shape]
  BY <1>3 DEF CleanedUp
<1>5. \A i \in Sockets : /\ CleanedUp[i].st = "free" => CleanedUp[i] = Free
                         /\ CleanedUp[i].st \in {"free", "closing"}
                         /\ CleanedUp[i].st = "closing" => ~CleanedUp[i].mine
  BY <1>2, <1>3 DEF Inv, Fields, States
<1>6. connected' => \E i \in Sockets : CleanedUp[i].opened
  BY <1>1, <1>3 DEF Inv, Backed
<1>7. CleanedUp[k].st = "free" /\ 0 \in 0 .. Saturated
  BY <1>1, <1>3 DEF Saturated
<1> QED
  BY <1>1, <1>2, <1>4, <1>5, <1>6, <1>7, ConnectInv

LEMMA ReconnectInv ==
  ASSUME Inv, NEW k \in Sockets, Reconnect(k)
  PROVE  Inv'
<1>1. /\ sock' = Connected(sock, k) /\ timer' = FALSE /\ net' = net
      /\ late' = late /\ stored' = stored /\ dep' = dep /\ retries' = retries
      /\ connected' = connected /\ sock[k].st = "free" /\ timer
  BY DEF Reconnect
<1>2. \A i \in Sockets : sock[i].st \in {"free", "closing"}
  BY <1>1 DEF Inv, TypeOK, AtMostOne, Held, States
<1>3. \A i \in Sockets : /\ sock[i].st = "free" => sock[i] = Free
                         /\ sock[i].st = "closing" => ~sock[i].mine
  BY DEF Inv, Fields
<1>4. connected' => \E i \in Sockets : sock[i].opened
  BY <1>1 DEF Inv, Backed
<1>5. /\ sock \in [Sockets -> [st : States, token : Tokens, mine : BOOLEAN, opened : BOOLEAN]]
      /\ dep' \in Tokens /\ retries' \in 0 .. Saturated
  BY <1>1 DEF Inv, TypeOK
<1> QED
  BY <1>1, <1>2, <1>3, <1>4, <1>5, ConnectInv

LEMMA OpenedInv ==
  ASSUME Inv, NEW k \in Sockets, Opened(k)
  PROVE  Inv'
<1> DEFINE Shape == [st : States, token : Tokens, mine : BOOLEAN, opened : BOOLEAN]
<1>1. /\ sock[k].st = "connecting" /\ sock[k].token \in Valid
      /\ sock' = [sock EXCEPT ![k].st = "open", ![k].opened = TRUE]
      /\ retries' = 0 /\ connected' = TRUE /\ late' = FALSE
      /\ stored' = stored /\ dep' = dep /\ timer' = timer /\ net' = net
  BY DEF Opened
<1>2. sock \in [Sockets -> Shape] /\ sock[k] \in Shape
  BY DEF Inv, TypeOK
<1>3. /\ sock'[k] \in Shape /\ sock'[k].st = "open" /\ sock'[k].opened
      /\ sock'[k].mine = sock[k].mine /\ sock'[k].token = sock[k].token
      /\ \A i \in Sockets : i # k => sock'[i] = sock[i]
  BY <1>1, <1>2 DEF States
<1>4. TypeOK'
  <2>1. sock' \in [Sockets -> Shape]
    BY <1>1, <1>2, <1>3
  <2>2. 0 \in 0 .. Saturated
    BY DEF Saturated
  <2> QED
    BY <1>1, <2>1, <2>2 DEF Inv, TypeOK
<1>5. Fields'
  <2>1. sock'[k].mine /\ sock'[k].opened /\ sock'[k].token \in Valid /\ sock'[k].st = "open"
    BY <1>1, <1>3 DEF Inv, Fields
  <2>2. ASSUME NEW i \in Sockets, i # k
        PROVE  /\ sock'[i].st = "free" => sock'[i] = Free
               /\ sock'[i].st = "connecting" => sock'[i].mine /\ ~sock'[i].opened
               /\ sock'[i].st = "open" =>
                    sock'[i].mine /\ sock'[i].opened /\ sock'[i].token \in Valid
               /\ sock'[i].st = "closing" => ~sock'[i].mine
    <3>1. sock'[i] = sock[i]
      BY <1>3, <2>2
    <3> QED BY <3>1 DEF Inv, Fields
  <2> QED BY <2>1, <2>2 DEF Fields, Free
<1>6. Backed' /\ StatusKnown'
  BY <1>1, <1>3 DEF Backed, StatusKnown
<1>7. AtMostOne'
  <2>1. Held' = Held
    BY <1>1, <1>3 DEF Held
  <2> QED
    BY <1>1, <2>1 DEF Inv, AtMostOne
<1> QED
  BY <1>4, <1>5, <1>6, <1>7 DEF Inv

LEMMA ClosedInv ==
  ASSUME Inv, NEW k \in Sockets, Closed(k)
  PROVE  Inv'
<1> DEFINE Shape == [st : States, token : Tokens, mine : BOOLEAN, opened : BOOLEAN]
<1>1. /\ sock[k].st \in {"connecting", "open", "closing"}
      /\ sock' = [sock EXCEPT ![k] = Free]
      /\ ~connected'
      /\ retries' = IF sock[k].mine THEN OneMore(retries) ELSE retries
      /\ timer' = (timer \/ sock[k].mine)
      /\ late' = (late \/ ~sock[k].mine)
      /\ stored' = stored /\ dep' = dep /\ net' = net
  BY DEF Closed, Ends, Retries, StatusAfterClose
<1>2. sock \in [Sockets -> Shape] /\ timer \in BOOLEAN /\ late \in BOOLEAN
  BY DEF Inv, TypeOK
<1>3. /\ sock'[k] = Free
      /\ \A i \in Sockets : i # k => sock'[i] = sock[i]
  BY <1>1, <1>2
<1>4. Free.st = "free" /\ ~Free.mine /\ ~Free.opened
  BY DEF Free
<1>5. TypeOK'
  <2>1. Free \in Shape
    BY TokensAssumption, "free" \in States DEF Free, States
  <2>2. sock' \in [Sockets -> Shape]
    BY <1>1, <1>2, <2>1
  <2>3. retries' \in 0 .. Saturated
    BY <1>1 DEF Inv, TypeOK, OneMore, Saturated
  <2>4. connected' = FALSE
    BY DEF Closed, StatusAfterClose
  <2>5. timer' \in BOOLEAN /\ late' \in BOOLEAN
    BY <1>1, <1>2
  <2>6. stored \in Tokens /\ dep \in Tokens /\ net \in BOOLEAN
    BY DEF Inv, TypeOK
  <2> QED
    BY <1>1, <2>2, <2>3, <2>4, <2>5, <2>6 DEF TypeOK
<1>6. Fields'
  <2> SUFFICES ASSUME NEW i \in Sockets
               PROVE  /\ sock'[i].st = "free" => sock'[i] = Free
                      /\ sock'[i].st = "connecting" => sock'[i].mine /\ ~sock'[i].opened
                      /\ sock'[i].st = "open" =>
                           sock'[i].mine /\ sock'[i].opened /\ sock'[i].token \in Valid
                      /\ sock'[i].st = "closing" => ~sock'[i].mine
    BY DEF Fields, Free
  <2>1. CASE i = k
    BY <1>3, <1>4, <2>1
  <2>2. CASE i # k
    BY <1>3, <2>2 DEF Inv, Fields
  <2> QED
    BY <2>1, <2>2
<1>7. Backed'
  BY <1>1 DEF Backed
<1>8. CASE sock[k].mine
  <2>1. k \in Held /\ timer' /\ late' = late
    BY <1>1, <1>8, <1>2 DEF Inv, Fields, Held
  <2>2. \A i \in Sockets : i # k => i \notin Held
    BY <2>1 DEF Inv, AtMostOne
  <2>3. \A i \in Sockets : sock'[i].st \notin {"connecting", "open"}
    BY <1>3, <1>4, <2>2 DEF Held
  <2>4. StatusKnown' /\ AtMostOne'
    BY <2>1, <2>3 DEF StatusKnown, AtMostOne, Held
  <2> QED
    BY <1>5, <1>6, <1>7, <2>4 DEF Inv
<1>9. CASE ~sock[k].mine
  <2>1. sock[k].st = "closing" /\ late' /\ timer' = timer
    BY <1>1, <1>2, <1>9 DEF Inv, Fields
  <2>2. Held' = Held
    BY <1>3, <1>4, <2>1 DEF Held
  <2>3. StatusKnown' /\ AtMostOne'
    BY <2>1, <2>2 DEF Inv, StatusKnown, AtMostOne
  <2> QED
    BY <1>5, <1>6, <1>7, <2>3 DEF Inv
<1> QED
  BY <1>8, <1>9

LEMMA NextInv == Inv /\ [Next]_vars => Inv'
<1> SUFFICES ASSUME Inv, [Next]_vars PROVE Inv'
  OBVIOUS
<1>1. CASE \E t \in Tokens : SetToken(t)
  BY <1>1, SetTokenInv
<1>2. CASE \E k \in Sockets : Render(k)
  BY <1>2, RenderInv
<1>3. CASE \E k \in Sockets : Opened(k)
  BY <1>3, OpenedInv
<1>4. CASE \E k \in Sockets : Closed(k)
  BY <1>4, ClosedInv
<1>5. CASE \E k \in Sockets : Reconnect(k)
  BY <1>5, ReconnectInv
<1>6. CASE NetChange
  BY <1>6, NetChangeInv
<1>7. CASE UNCHANGED vars
  BY <1>7 DEF vars, Inv, TypeOK, Fields, Backed, StatusKnown, AtMostOne, Held
<1> QED
  BY <1>1, <1>2, <1>3, <1>4, <1>5, <1>6, <1>7 DEF Next

\* The inductive invariant holds in every reachable state.
LEMMA InvHolds == Spec => []Inv
BY InitInv, NextInv, PTL DEF Spec

-----------------------------------------------------------------------------
(***************************************************************************)
(* The types of useGuardianSocket's variables, the saturating back-off of  *)
(* ws.ts:58 included.                                                      *)
(***************************************************************************)
THEOREM SocketTypeOK == Spec => []TypeOK
<1>1. Inv => TypeOK
  BY DEF Inv
<1> QED
  BY <1>1, InvHolds, PTL

(***************************************************************************)
(* One connection at a time: the effect in place has a timer or one socket *)
(* that is its own, for any number of sockets still being closed.          *)
(***************************************************************************)
THEOREM SocketOneConnection == Spec => []OneConnection
<1>1. ASSUME Inv PROVE OneConnection
  <2>1. ASSUME timer PROVE Held = {}
    BY <1>1, <2>1 DEF Inv, AtMostOne, Held
  <2>2. ASSUME ~timer PROVE \E k \in Sockets : Held = {k} /\ sock[k].mine
    <3>1. PICK k \in Sockets : k \in Held
      BY <1>1, <2>2 DEF Inv, AtMostOne
    <3>2. Held = {k}
      BY <1>1, <3>1 DEF Inv, AtMostOne, Held
    <3>3. sock[k].mine
      BY <1>1, <3>1 DEF Inv, Fields, Held
    <3> QED
      BY <3>2, <3>3
  <2> QED
    BY <2>1, <2>2 DEF OneConnection
<1> QED
  BY <1>1, InvHolds, PTL

(***************************************************************************)
(* The dashboard never says "connected" or "live" without a stream that    *)
(* opened and whose end was not reported yet.                              *)
(***************************************************************************)
THEOREM SocketConnectedIsBacked == Spec => []ConnectedIsBacked
<1>1. Inv => ConnectedIsBacked
  BY DEF Inv, Backed, ConnectedIsBacked, SettingsStatus, HeaderStatus, StreamRow
<1> QED
  BY <1>1, InvHolds, PTL

(***************************************************************************)
(* The wrong "disconnected (polling)" has one cause: a close event of an   *)
(* earlier effect's socket after the open event of the stream.             *)
(***************************************************************************)
THEOREM SocketWrongStatusIsLate == Spec => []WrongStatusIsLate
<1>1. Inv => WrongStatusIsLate
  BY DEF Inv, StatusKnown, WrongStatusIsLate, SettingsStatus, Streaming
<1> QED
  BY <1>1, InvHolds, PTL

-----------------------------------------------------------------------------
\* Link as a function of the sockets, for both states of a step.
LinkOf(ss) ==
  IF \E k \in Sockets : ss[k].st = "open"
  THEN ss[CHOOSE k \in Sockets : ss[k].st = "open"].token
  ELSE Down

LEMMA LinkUp ==
  ASSUME NEW ss, NEW k \in Sockets, ss[k].st = "open",
         \A i \in Sockets : ss[i].st = "open" => i = k
  PROVE  LinkOf(ss) = ss[k].token
<1>1. (CHOOSE i \in Sockets : ss[i].st = "open") = k
  OBVIOUS
<1> QED
  BY <1>1 DEF LinkOf

LEMMA LinkDown ==
  ASSUME NEW ss, \A i \in Sockets : ss[i].st # "open"
  PROVE  LinkOf(ss) = Down
BY DEF LinkOf

LEMMA LinkIsLinkOf == Link = LinkOf(sock) /\ Link' = LinkOf(sock')
BY DEF Link, LinkOf, Streaming

\* What the invariant says of the stream.
LEMMA OpenIsAlone ==
  ASSUME Inv, NEW k \in Sockets, sock[k].st = "open"
  PROVE  /\ \A i \in Sockets : sock[i].st = "open" => i = k
         /\ Link = sock[k].token /\ Link \in Valid /\ Link # Down
<1>1. \A i \in Sockets : sock[i].st = "open" => i = k
  BY DEF Inv, AtMostOne, Held
<1>2. Link = sock[k].token
  BY <1>1, LinkUp, LinkIsLinkOf
<1>3. sock[k].token \in Valid
  BY DEF Inv, Fields
<1> QED
  BY <1>1, <1>2, <1>3, TokensAssumption, DownAssumption

\* A step that leaves no stream ends the one there was, or changes nothing.
LEMMA ToDown ==
  ASSUME Inv, \A i \in Sockets : sock'[i].st # "open"
  PROVE  Abstract!End \/ Link' = Link
<1>1. Link' = Down
  BY LinkDown, LinkIsLinkOf
<1>2. CASE \E k \in Sockets : sock[k].st = "open"
  <2>1. Link # Down
    BY <1>2, OpenIsAlone
  <2> QED
    BY <1>1, <2>1 DEF Abstract!End
<1>3. CASE \A k \in Sockets : sock[k].st # "open"
  BY <1>1, <1>3, LinkDown, LinkIsLinkOf
<1> QED
  BY <1>2, <1>3

LEMMA OpenedLinks ==
  ASSUME Inv, NEW k \in Sockets, Opened(k)
  PROVE  Abstract!Begin
<1>1. sock[k].st = "connecting" /\ sock[k].token \in Valid
  BY DEF Opened
<1>2. \A i \in Sockets : sock[i].st \in {"connecting", "open"} => i = k
  BY <1>1 DEF Inv, AtMostOne, Held
<1>3. Link = Down
  BY <1>1, <1>2, LinkDown, LinkIsLinkOf
<1>4. sock \in [Sockets ->
        [st : States, token : Tokens, mine : BOOLEAN, opened : BOOLEAN]]
  BY DEF Inv, TypeOK
<1>5. /\ \A i \in Sockets : i # k => sock'[i] = sock[i]
      /\ sock'[k].st = "open" /\ sock'[k].token = sock[k].token
  BY <1>4 DEF Opened
<1>6. Link' = sock[k].token
  BY <1>2, <1>5, LinkUp, LinkIsLinkOf
<1> QED
  BY <1>1, <1>3, <1>6 DEF Abstract!Begin

LEMMA ClosedLinks ==
  ASSUME Inv, NEW k \in Sockets, Closed(k)
  PROVE  Abstract!End \/ Link' = Link
<1>1. /\ \A i \in Sockets : i # k => sock'[i] = sock[i]
      /\ sock'[k] = Free
  BY DEF Inv, TypeOK, Closed
<1>2. sock'[k].st # "open"
  BY <1>1 DEF Free
<1>3. CASE \E j \in Sockets : j # k /\ sock[j].st = "open"
  <2>1. PICK j \in Sockets : j # k /\ sock[j].st = "open"
    BY <1>3
  <2>2. /\ \A i \in Sockets : sock[i].st = "open" => i = j
        /\ Link = sock[j].token
    BY <2>1, OpenIsAlone
  <2>3. sock'[j] = sock[j]
    BY <1>1, <2>1
  <2>4. \A i \in Sockets : sock'[i].st = "open" => i = j
    BY <1>1, <1>2, <2>2
  <2>5. Link' = sock'[j].token
    BY <2>1, <2>3, <2>4, LinkUp, LinkIsLinkOf
  <2> QED
    BY <2>2, <2>3, <2>5
<1>4. CASE \A j \in Sockets : j # k => sock[j].st # "open"
  <2>1. \A i \in Sockets : sock'[i].st # "open"
    BY <1>1, <1>2, <1>4
  <2> QED
    BY <2>1, ToDown
<1> QED
  BY <1>3, <1>4

\* The clean-up closes every socket that is open, as those are its own.
LEMMA RenderLinks ==
  ASSUME Inv, NEW k \in Sockets, Render(k)
  PROVE  Abstract!End \/ Link' = Link
<1>1. sock' = [CleanedUp EXCEPT ![k] = Connecting]
  BY DEF Render, Connected
<1>2. \A i \in Sockets : sock[i].st = "open" => sock[i].mine
  BY DEF Inv, Fields
<1>3. sock \in [Sockets ->
        [st : States, token : Tokens, mine : BOOLEAN, opened : BOOLEAN]]
  BY DEF Inv, TypeOK
<1>4. \A i \in Sockets : CleanedUp[i].st # "open"
  BY <1>2, <1>3 DEF CleanedUp
<1>5. \A i \in Sockets : sock'[i].st # "open"
  BY <1>1, <1>4 DEF CleanedUp, Connecting
<1> QED
  BY <1>5, ToDown

LEMMA ReconnectLinks ==
  ASSUME Inv, NEW k \in Sockets, Reconnect(k)
  PROVE  Abstract!End \/ Link' = Link
<1>1. \A i \in Sockets : sock[i].st # "open"
  BY DEF Inv, AtMostOne, Held, Reconnect
<1>2. /\ \A i \in Sockets : i # k => sock'[i] = sock[i]
      /\ sock'[k] = Connecting
  BY DEF Inv, TypeOK, Reconnect, Connected
<1>3. \A i \in Sockets : sock'[i].st # "open"
  BY <1>1, <1>2 DEF Connecting
<1> QED
  BY <1>3, ToDown

(***************************************************************************)
(* useGuardianSocket implements Subscription: whatever tokens are saved,   *)
(* refused or replaced, streams come one at a time, each with a token the  *)
(* server accepts, and one ends before the next begins.                    *)
(***************************************************************************)
THEOREM SocketImplementsSubscription == Spec => ImplementsSubscription
<1>1. ASSUME Init PROVE Abstract!Init
  <2>1. PICK k \in Sockets, j \in Sockets :
          sock = [i \in Sockets |->
            IF i = k THEN Connecting
            ELSE IF StrictMode /\ i = j
                 THEN Abandoned
                 ELSE Free]
    BY <1>1 DEF Init
  <2>2. \A i \in Sockets : sock[i] \in {Connecting, Abandoned, Free}
    BY <2>1
  <2>3. \A i \in Sockets : sock[i].st # "open"
    BY <2>2 DEF Connecting, Abandoned, Free
  <2> QED
    BY <2>3, LinkDown, LinkIsLinkOf DEF Abstract!Init
<1>2. ASSUME Inv, [Next]_vars PROVE [Abstract!Next]_Link
  <2>1. ASSUME NEW t \in Tokens, SetToken(t) PROVE Link' = Link
    BY <2>1 DEF SetToken, Link, Streaming
  <2>2. ASSUME NetChange PROVE Link' = Link
    BY <2>2 DEF NetChange, Link, Streaming
  <2>3. ASSUME UNCHANGED vars PROVE Link' = Link
    BY <2>3 DEF vars, Link, Streaming
  <2>4. ASSUME NEW k \in Sockets, Render(k) PROVE Abstract!End \/ Link' = Link
    BY <1>2, <2>4, RenderLinks
  <2>5. ASSUME NEW k \in Sockets, Opened(k) PROVE Abstract!Begin
    BY <1>2, <2>5, OpenedLinks
  <2>6. ASSUME NEW k \in Sockets, Closed(k) PROVE Abstract!End \/ Link' = Link
    BY <1>2, <2>6, ClosedLinks
  <2>7. ASSUME NEW k \in Sockets, Reconnect(k) PROVE Abstract!End \/ Link' = Link
    BY <1>2, <2>7, ReconnectLinks
  <2> QED
    BY <1>2, <2>1, <2>2, <2>3, <2>4, <2>5, <2>6, <2>7 DEF Next, Abstract!Next
<1> QED
  BY <1>1, <1>2, InvHolds, PTL DEF Spec, ImplementsSubscription, Abstract!Spec

=============================================================================
