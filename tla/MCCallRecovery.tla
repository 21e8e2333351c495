--------------------------- MODULE MCCallRecovery ---------------------------
(* Values for the constants of CallRecovery. *)
EXTENDS CallRecovery

CONSTANTS t1, t2, c1, c2, a1, a2

OneConversation   == [t \in Turns |-> c1]
TwoConversations  == (t1 :> c1) @@ (t2 :> c2)
OneAssistant      == [c \in Conversations |-> a1]
TwoAssistants     == (c1 :> a1) @@ (c2 :> a2)
=============================================================================
