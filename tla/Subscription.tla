---------------------------- MODULE Subscription ----------------------------
(***************************************************************************)
(* What the dashboard is promised of its subscription to /api/ws: at any   *)
(* time at most one stream of frames reaches onFrame, opened with one      *)
(* token the server accepts, and a stream ends before another one begins.  *)
(* ReportStream relies on this: its frames come from one connection that   *)
(* is up or down.                                                          *)
(***************************************************************************)

CONSTANTS
  Tokens,       \* what localStorage can hold, NoToken included
  Valid,        \* the tokens the server accepts
  Down          \* no stream

VARIABLE link   \* the token of the stream that delivers frames, or Down

Init == link = Down

Begin == link = Down /\ link' \in Valid

End == link # Down /\ link' = Down

Next == Begin \/ End

Spec == Init /\ [][Next]_link
=============================================================================
