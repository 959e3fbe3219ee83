----------------------------- MODULE SimSwitch -----------------------------
(***************************************************************************)
(* The db_disconnect switch of one process (_sim_state of                  *)
(* server/modules/simulation.py) and the timed outages that set and clear  *)
(* it.  Every request here is one that the session gate and the error      *)
(* injection have let through.                                             *)
(***************************************************************************)
CONSTANT Outages     \* db-disconnect and db-error requests that may sleep at once

VARIABLES
    db_disconnect,   \* _sim_state["db_disconnect"]
    sleeping,        \* outages between their two assignments
    configured       \* the operator has set the switch and nothing cleared it since

simVars == <<db_disconnect, sleeping, configured>>

SimInit == db_disconnect = FALSE /\ sleeping = {} /\ configured = FALSE

\* configure sets the fields that the body names; it runs without an await.
Configure(on) ==
    /\ db_disconnect' = on
    /\ configured' = IF on # db_disconnect THEN on ELSE configured
    /\ UNCHANGED sleeping

ResetSimulation ==
    /\ db_disconnect' = FALSE /\ configured' = FALSE
    /\ UNCHANGED sleeping

\* db-disconnect and db-error set the switch and sleep (10 s, 5 s).
BeginOutage(t) ==
    /\ t \notin sleeping /\ sleeping' = sleeping \cup {t}
    /\ db_disconnect' = TRUE
    /\ UNCHANGED configured

\* Mutant: an outage leaves the switch to the others, and counts itself.
EndKeeps(t) ==
    /\ t \in sleeping /\ sleeping' = sleeping \ {t}
    /\ db_disconnect' = (db_disconnect /\ sleeping # {})
    /\ configured' = FALSE

\* Awake again they clear it, whoever else has set it.
EndOutage(t) ==
    /\ t \in sleeping /\ sleeping' = sleeping \ {t}
    /\ db_disconnect' = FALSE /\ configured' = FALSE

SimRestart == db_disconnect' = FALSE /\ sleeping' = {} /\ configured' = FALSE

SimNext ==
    \/ \E on \in BOOLEAN : Configure(on)
    \/ ResetSimulation
    \/ \E t \in Outages : BeginOutage(t) \/ EndOutage(t)
    \/ SimRestart

\* Every sleep ends.
SimFairness == \A t \in Outages : WF_simVars(EndOutage(t))

SimSpec == SimInit /\ [][SimNext]_simVars /\ SimFairness

-----------------------------------------------------------------------------
\* Every outage that no operator has asked for comes to an end, however timed
\* outages overlap with each other and with the operator's requests: the second
\* assignment of trigger_db_disconnect and trigger_db_error clears the switch.
OutageEnds == db_disconnect ~> (~db_disconnect \/ configured)
=============================================================================
