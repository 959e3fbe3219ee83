---------------------------- MODULE MCServices ----------------------------
(***************************************************************************)
(* The services around the core for TLC: the login limiter, the log queue, *)
(* the simulation switches, chaos scenarios, the start of a replica and    *)
(* the order generators.  They share no state, so each behaviour exercises *)
(* one of them.                                                            *)
(***************************************************************************)
EXTENDS LoginLimiter, LogDispatch, SimSwitch, ChaosState, Bootstrap, Generators

VARIABLE service     \* the one this behaviour exercises

serviceVars == <<limiterVars, logVars, simVars, chaosVars, bootVars, genVars, service>>

\* Replicas that have started long ago.
Started ==
    /\ made = {Schema[i] : i \in DOMAIN Schema} /\ seeds = 1 /\ kills = 0
    /\ owner = [k \in Keys |-> "crm"] /\ held = [r \in Starters |-> {}]
    /\ boot = [r \in Starters |-> [Begin EXCEPT !.at = "ready"]]

ServicesInit ==
    /\ service \in {"limiter", "log", "sim", "chaos", "boot", "gen"}
    /\ LimiterInit /\ LogInit /\ SimInit /\ ChaosInit /\ GenInit
    /\ service # "gen" => catalog = {} /\ people = {}
    /\ IF service = "boot" THEN BootInit ELSE Started

\* Only the service s, whose variables are not in rest, takes a step.
Only(s, next, rest) == service = s /\ next /\ UNCHANGED <<rest, service>>

ServicesNext ==
    \/ Only("limiter", LimiterNext, <<logVars, simVars, chaosVars, bootVars, genVars>>)
    \/ Only("log", LogNext, <<limiterVars, simVars, chaosVars, bootVars, genVars>>)
    \/ Only("sim", SimNext, <<limiterVars, logVars, chaosVars, bootVars, genVars>>)
    \/ Only("chaos", ChaosNext, <<limiterVars, logVars, simVars, bootVars, genVars>>)
    \/ Only("boot", BootNext, <<limiterVars, logVars, simVars, chaosVars, genVars>>)
    \/ Only("gen", GenNext, <<limiterVars, logVars, simVars, chaosVars, bootVars>>)

\* A service that is not exercised is at rest and owes nothing.
ServicesFairness ==
    \/ service = "limiter" /\ LimiterFairness
    \/ service = "log" /\ LogFairness
    \/ service = "sim" /\ SimFairness
    \/ service = "chaos" /\ ChaosFairness
    \/ service = "boot" /\ BootFairness
    \/ service = "gen" /\ GenFairness

ServicesSpec == ServicesInit /\ [][ServicesNext]_serviceVars /\ ServicesFairness
=============================================================================
