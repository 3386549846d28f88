--------------------------- MODULE MCAgentRegistry ---------------------------
(***************************************************************************)
(* AgentRegistry with an agent that registers itself with or without a     *)
(* skill, and a declared agent with that skill.                            *)
(***************************************************************************)
EXTENDS AgentRegistry

CONSTANTS a, d, s, i1, i2, q1, q2

MCAgents == {a, d}
MCDeclared == {d}
MCSkills == {s}
MCOffers == [x \in Agents |-> IF x = d THEN {{s}} ELSE {{}, {s}}]
MCIds == {i1, i2}
MCRequests == {q1, q2}
MCOneRequest == {q1}
=============================================================================
