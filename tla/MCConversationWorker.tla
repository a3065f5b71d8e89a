------------------------ MODULE MCConversationWorker ------------------------
(***************************************************************************)
(* Values for model-checking ConversationWorker: threads of the API process *)
(* and separate workers of both kinds compete for one task.                 *)
(***************************************************************************)
EXTENDS ConversationWorker
=============================================================================
