---------------------------- MODULE MCAgentLoop ----------------------------
(* Two queries: one is searched twice where only the length of the history could
   allow a third time, and, once the history has dropped queries, one is looked
   at again after one look, which leaves its group empty.  A backtrack that is
   refused or fails is followed by a refused call and a write. *)
EXTENDS AgentLoop

CONSTANTS q, r

MCAnswers ==
  {<<Search(r), Search(q), Search(q), Search(q)>>, <<Backtrack, Refused, Write>>}

\* the stay is already chosen; a backtrack leads to the plan of a new session
MCRestored == {Synced([NoPlan EXCEPT !.stay = TRUE])}
=============================================================================
