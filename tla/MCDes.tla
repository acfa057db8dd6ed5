------------------------------- MODULE MCDes -------------------------------
(***************************************************************************)
(* DES with a history variable: whether a step of the episode has chosen a *)
(* buffer cap below the time of one item.                                  *)
(***************************************************************************)
EXTENDS DES

VARIABLE tooTight

MCWorkers == <<2, 1, 1>>

MCInit == EnvInit /\ tooTight = FALSE
MCNext == EnvNext /\ tooTight' = (~Reset /\ (tooTight \/ des'.bufferMaxTime \in 1..Cost - 1))
MCSpec == MCInit /\ [][MCNext]_<<envVars, tooTight>> /\ EnvFairness

\* The constraint is never idle while finished work stands blocked in front
\* of it, as long as every cap of the episode has left room for one item.
\* (Once a cap below one item has blocked every server, raising it moves
\* nothing: neither Step nor an arrival settles the line.)
ConstraintNeverStarved ==
  des.blocked # <<>> /\ ~tooTight => FreeServers(des, constraint) = 0

\* An item released into the line leaves it at its end, although nothing may
\* arrive any more and the caps change with every step, unless the episode
\* is over or a cap was too small for one item.
ReleasedItemsFinish ==
  \A i \in 1..MaxArrivals : InLine(i) ~> ~InLine(i) \/ done \/ tooTight

=============================================================================
