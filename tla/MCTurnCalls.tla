----------------------------- MODULE MCTurnCalls -----------------------------
(* What a turn calls: the LLM, through the tool loop and the circuit breaker, *)
(* and the session log.  The two share nothing: a behaviour is one of the     *)
(* first or one of the second (area).  Ticks are of some ten seconds: the     *)
(* first two backoffs take no tick, the third one.                            *)
EXTENDS LlmCall, SessionLog

CONSTANTS u1, me, s1, s2

Delays == <<0, 0, 1>>

VARIABLE area

allVars == <<area, llmVars, sessionVars>>

TurnCallsInit == area \in {"llm", "session"} /\ LlmInit /\ SessionInit

TurnCallsNext ==
    \/ area = "llm" /\ LlmNext /\ UNCHANGED <<area, sessionVars>>
    \/ area = "session" /\ SessionNext /\ UNCHANGED <<area, llmVars>>

Does(a, A) == area = a /\ A /\ UNCHANGED area

TurnCallsFairness ==
    /\ WF_allVars(Does("llm", Passes) /\ UNCHANGED sessionVars)
    /\ WF_allVars(Does("llm", phase # "idle" /\ Loops) /\ UNCHANGED sessionVars)
    /\ \A c \in Callers :
        /\ WF_allVars(/\ Does("llm", Pass(c) \/ ShortCircuit(c))
                      /\ UNCHANGED <<loopVars, sessionVars>>)
        /\ WF_allVars(Does("llm", Fail(c) \/ Succeed(c)) /\ UNCHANGED <<loopVars, sessionVars>>)
    /\ WF_allVars(Does("session", Drain) /\ UNCHANGED llmVars)

TurnCallsSpec == TurnCallsInit /\ [][TurnCallsNext]_allVars /\ TurnCallsFairness
=============================================================================
