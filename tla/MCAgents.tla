------------------------------ MODULE MCAgents ------------------------------
(* The two machines agents work with: tool calls, and conversations with their  *)
(* broadcasts.  They share no variable, so nothing is learned from interleaving *)
(* them: a behaviour is one of tool calls or one of conversations, in which the *)
(* other machine never leaves its initial state.                                *)
(*                                                                              *)
(* Three calls for one slot; two sockets of one session and one of another.     *)
EXTENDS ToolCalls, Conversations, TLC

CONSTANTS c1, c2, c3, s1, s2, s3, ka, kb, w1

MCSessionOf == [s \in Sockets |-> IF s = s3 THEN kb ELSE ka]

\* TLC's symmetry is unsound with liveness.  Calls are interchangeable, and so are s1
\* and s2: every behaviour is, up to their names, one in which they begin in this order.
BegunInOrder ==
  /\ at[c2] # "new" => at[c1] # "new"
  /\ at[c3] # "new" => at[c2] # "new"
  /\ stage[s2] # "new" => stage[s1] # "new"

AgentsInit == Init /\ ConversationInit

\* The runner makes no difference to conversations: one is enough.
AgentsNext ==
  \/ ConversationInit /\ Next /\ UNCHANGED conversationVars /\ BegunInOrder'
  \/ Init /\ runner = "direct" /\ ConversationNext /\ UNCHANGED vars /\ BegunInOrder'

AgentsSpec ==
  /\ AgentsInit /\ [][AgentsNext]_<<vars, conversationVars>>
  /\ ToolFairness /\ ConversationFairness
===============================================================================
