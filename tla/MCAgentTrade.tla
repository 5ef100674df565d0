---------------------------- MODULE MCAgentTrade ----------------------------
(* AgentTrade on a small instance. *)
EXTENDS AgentTrade, TLC

MCSymmetry == Permutations(Trigger) \cup Permutations(Trade)

(* Without the delivery's history, which no step and no property of a trade reads. *)
MCView == <<running, channel, raised, handled, emitting, consumption, worker,
            rescanDue, unrouted, crashes, tradeVars>>
=============================================================================
