-------------------------------- MODULE MCDesk --------------------------------
EXTENDS Desk, TLC

R(ts, pid, severity, actions) ==
  [ts |-> ts, pid |-> pid, severity |-> severity, actions |-> actions]
P == "pending_approval"
A == "approved"

\* Reports of one second, of one process, on minute boundaries, out of order,
\* one that is "info", and reports of one and two actions.
MCInfos ==
  {<<R(60, 12, "high", <<P, A>>), R(120, 12, "low", <<P>>)>>,
   <<R(59, 1, "medium", <<P>>), R(59, 12, "info", <<P, P>>)>>,
   <<R(61, 12, "critical", <<P>>), R(0, 1, "low", <<A>>)>>}
MCEvents ==
  <<[pid |-> 12, kind |-> "exec", ts |-> 100], [pid |-> 1, kind |-> "exec", ts |-> 30],
    [pid |-> 12, kind |-> "signal", ts |-> 20]>>
Symmetry == Permutations(Requests)
===============================================================================
