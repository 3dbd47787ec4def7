-------------------------- MODULE MCConversationStore --------------------------
(* Model checking ConversationStore on small instances. *)
EXTENDS ConversationStore

===============================================================================
