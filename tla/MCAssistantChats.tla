--------------------------- MODULE MCAssistantChats ---------------------------
(* AssistantChats on small instances: the limits are so low that they bite. *)
EXTENDS AssistantChats
=============================================================================
