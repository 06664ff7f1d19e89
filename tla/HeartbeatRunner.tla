-------------------------- MODULE HeartbeatRunner ---------------------------
(***************************************************************************)
(* The heartbeat runner over the wake layer.  A runner registers itself as *)
(* the wake handler, keeps the time each agent is due, and arms a timer    *)
(* that asks the wake layer for an "interval" wake.  That timer is armed   *)
(* again at the end of a run, so the heartbeat lives on as a chain: timer, *)
(* wake, batch, run, timer.                                                *)
(*                                                                         *)
(* A run is cut at its `await runOnce(...)`, once per agent.  Agents are   *)
(* due or not; the clock makes them due at any time after they advanced.   *)
(* A runner is known by the generation of its registration.                *)
(*                                                                         *)
(* Sources: src/brain/src/infra/heartbeat-runner.ts (startHeartbeatRunner),*)
(* src/brain/src/infra/heartbeat-wake.ts (setHeartbeatsEnabled).           *)
(***************************************************************************)
EXTENDS HeartbeatWake

CONSTANTS
    Agent,
    Untargeted,     \* the key of a wake with neither agent nor session
    AgentOf,        \* agent of a target
    Config,         \* sets of agents that a configuration gives a heartbeat
    MaxInputs       \* bound: requests, switches, reloads and failing closes

ASSUME TargetAssumption ==
    /\ Untargeted \in Target
    /\ AgentOf \in [Target \ {Untargeted} -> Agent]
    /\ Config \subseteq SUBSET Agent
    /\ "interval" \in Reason
    /\ MaxInputs \in Nat

VARIABLES
    heartbeatsEnabled,
    runner,       \* "none", "up" or "stopped"
    agents,       \* state.agents of a runner
    due,          \* agents whose nextDueMs has passed
    runnerTimer,  \* state.timer is armed
    call,         \* the run a batch awaits
    inputs,       \* counts towards MaxInputs
    unarmed       \* history: the last run of the runner found heartbeats
                  \* disabled and left without arming the timer

runnerVars == <<heartbeatsEnabled, runner, agents, due, runnerTimer, call, inputs, unarmed>>
vars == <<wVars, runnerVars>>

Runner == 1..MaxGeneration
NoCall == [target |-> "none"]
Calls == {NoCall} \cup [target : Target, todo : SUBSET Agent, agent : Agent, stale : BOOLEAN]

(* The states of the wake layer and of the runners.                        *)
TypeOK ==
    /\ WakeTypeOK
    /\ heartbeatsEnabled \in BOOLEAN
    /\ runner \in [Runner -> {"none", "up", "stopped"}]
    /\ agents \in [Runner -> SUBSET Agent]
    /\ due \in [Runner -> SUBSET Agent]
    /\ runnerTimer \in [Runner -> BOOLEAN]
    /\ call \in [Batch -> Calls]
    /\ inputs \in 0..MaxInputs
    /\ unarmed \in [Runner -> BOOLEAN]

Init ==
    /\ WakeInit
    /\ heartbeatsEnabled = TRUE
    /\ runner = [g \in Runner |-> "none"]
    /\ agents = [g \in Runner |-> {}]
    /\ due = [g \in Runner |-> {}]
    /\ runnerTimer = [g \in Runner |-> FALSE]
    /\ call = [b \in Batch |-> NoCall]
    /\ inputs = 0
    /\ unarmed = [g \in Runner |-> FALSE]

Input == inputs < MaxInputs /\ inputs' = inputs + 1

-----------------------------------------------------------------------------
(* The schedule of a runner.                                               *)

(* The runner's timer after scheduleNext; a stopped runner arms nothing.   *)
scheduleNext(g) ==
    /\ runnerTimer' = [runnerTimer EXCEPT ![g] = IF runner'[g] = "up" THEN agents'[g] # {} ELSE @]
    /\ unarmed' = [unarmed EXCEPT ![g] = IF runner'[g] = "up" THEN FALSE ELSE @]

(* Every agent's next beat lies ahead after updateConfig; a run that is    *)
(* under way goes on with the agents it started with.                      *)
updateConfig(g, cfg) ==
    /\ agents' = [agents EXCEPT ![g] = cfg]
    /\ due' = [due EXCEPT ![g] = {}]
    /\ call' = [b \in Batch |-> IF call[b] # NoCall /\ batch[b].gen = g
                                THEN [call[b] EXCEPT !.stale = TRUE] ELSE call[b]]
    /\ scheduleNext(g)

(* A server starts after the close of the one before.  That close stops    *)
(* its runner, unless it throws before; then two runners are up, and the   *)
(* later one is the handler (bounded as an input).  Batches and runs of    *)
(* the earlier one may still be under way in either case.                  *)
startHeartbeatRunner(cfg) ==
    /\ IF handler = 0 THEN UNCHANGED inputs ELSE Input
    /\ setHeartbeatWakeHandler
    /\ runner' = [runner EXCEPT ![handlerGeneration'] = "up"]
    /\ updateConfig(handlerGeneration', cfg)
    /\ UNCHANGED heartbeatsEnabled

UpdateConfig(g, cfg) ==
    /\ Input
    /\ runner[g] = "up"
    /\ UNCHANGED runner
    /\ updateConfig(g, cfg)
    /\ UNCHANGED <<wVars, heartbeatsEnabled>>

stop(g) ==
    /\ runner[g] = "up"
    /\ runner' = [runner EXCEPT ![g] = "stopped"]
    /\ disposeWakeHandler(g)
    /\ runnerTimer' = [runnerTimer EXCEPT ![g] = FALSE]
    /\ UNCHANGED <<heartbeatsEnabled, agents, due, call, inputs, unarmed>>

setHeartbeatsEnabled(on) ==
    /\ Input
    /\ heartbeatsEnabled' = on
    /\ UNCHANGED <<wVars, runner, agents, due, runnerTimer, call, unarmed>>

(* An event of the system: a hook, a finished command, a cron job.         *)
RequestWake(t, reason) ==
    /\ reason # "interval"
    /\ Input
    /\ requestHeartbeatNow(t, reason, DefaultCoalesce)
    /\ UNCHANGED <<heartbeatsEnabled, runner, agents, due, runnerTimer, call, unarmed>>

(* The timer was armed for an agent that is due, or that a run under way   *)
(* has advanced in the meantime.                                           *)
RunnerTimerFires(g) ==
    /\ runnerTimer[g]
    /\ due[g] # {} \/ \E b \in Batch : call[b] # NoCall /\ batch[b].gen = g
    /\ runnerTimer' = [runnerTimer EXCEPT ![g] = FALSE]
    /\ requestHeartbeatNow(Untargeted, "interval", 0)
    /\ UNCHANGED <<heartbeatsEnabled, runner, agents, due, call, inputs, unarmed>>

BecomesDue(g, a) ==
    /\ runner[g] = "up" /\ a \in agents[g] \ due[g]
    /\ due' = [due EXCEPT ![g] = @ \cup {a}]
    /\ UNCHANGED <<wVars, heartbeatsEnabled, runner, agents, runnerTimer, call, inputs, unarmed>>

-----------------------------------------------------------------------------
(* A run: the handler called for target t by batch b.                      *)

RunnerOf(b) == batch[b].gen
Awaited(b) == call[b] # NoCall

(* Mutant: the comparison with the due time is turned round.               *)
RunAgents_NotDue(g, t, reason) ==
    IF t # Untargeted THEN {AgentOf[t]} \cap agents[g]
    ELSE IF reason = "interval" THEN agents[g] \ due[g] ELSE agents[g]

(* Agents a run will ask, at its start.                                    *)
RunAgents(g, t, reason) ==
    IF t # Untargeted THEN {AgentOf[t]} \cap agents[g]
    ELSE IF reason = "interval" THEN due[g] ELSE agents[g]

(* Leaves before the try block, and so without scheduleNext.               *)
RunRefused(b, t) ==
    LET g == RunnerOf(b) IN
    /\ InFlight(b) /\ ~Awaited(b) /\ t \in batch[b].rest
    /\ runner[g] = "stopped" \/ ~heartbeatsEnabled \/ agents[g] = {}
    /\ HandlerDone(b, t)
    /\ unarmed' = [unarmed EXCEPT ![g] = @ \/ (runner[g] = "up" /\ ~heartbeatsEnabled)]
    /\ UNCHANGED <<heartbeatsEnabled, runner, agents, due, runnerTimer, call, inputs>>

RunAccepted(b, t) ==
    LET g == RunnerOf(b) IN
    /\ InFlight(b) /\ ~Awaited(b) /\ t \in batch[b].rest
    /\ runner[g] = "up" /\ heartbeatsEnabled /\ agents[g] # {}

(* No agent for this target, or none due: back at once, through finally.   *)
RunFindsNone(b, t) ==
    LET g == RunnerOf(b) IN
    /\ RunAccepted(b, t)
    /\ RunAgents(g, t, batch[b].item[t]) = {}
    /\ HandlerDone(b, t)
    /\ UNCHANGED <<heartbeatsEnabled, runner, agents, due, call, inputs>>
    /\ scheduleNext(g)

RunStarts(b, t, a) ==
    LET asked == RunAgents(RunnerOf(b), t, batch[b].item[t]) IN
    /\ RunAccepted(b, t)
    /\ a \in asked
    /\ call' = [call EXCEPT ![b] = [target |-> t, todo |-> asked \ {a}, agent |-> a, stale |-> FALSE]]
    /\ UNCHANGED <<wVars, heartbeatsEnabled, runner, agents, due, runnerTimer, inputs, unarmed>>

(* advanceAgentSchedule, on the agents the run started with.               *)
advanceAgentSchedule(b) ==
    due' = [due EXCEPT ![RunnerOf(b)] = IF call[b].stale THEN @ ELSE @ \ {call[b].agent}]

(* The loop goes on to another agent; an interval run passes over agents   *)
(* that another run has advanced in the meantime.                          *)
NextAgents(b) ==
    IF batch[b].item[call[b].target] = "interval" /\ ~call[b].stale
    THEN call[b].todo \cap due'[RunnerOf(b)] ELSE call[b].todo

RunContinues(b) ==
    IF NextAgents(b) = {}
    THEN /\ HandlerDone(b, call[b].target)
         /\ call' = [call EXCEPT ![b] = NoCall]
         /\ UNCHANGED <<runner, agents>>
         /\ scheduleNext(RunnerOf(b))
    ELSE /\ \E a \in NextAgents(b) :
               call' = [call EXCEPT ![b].todo = NextAgents(b) \ {a}, ![b].agent = a]
         /\ UNCHANGED <<wVars, runner, agents, runnerTimer, unarmed>>

(* runOnce ran, failed, threw, or was skipped for its own reasons.         *)
RunOnceAnswers(b) ==
    /\ Awaited(b)
    /\ advanceAgentSchedule(b)
    /\ RunContinues(b)
    /\ UNCHANGED <<heartbeatsEnabled, inputs>>

(* runOnce finds heartbeats disabled, or the agent without one.            *)
RunOnceDisabled(b) ==
    /\ Awaited(b)
    /\ ~heartbeatsEnabled \/ call[b].agent \notin agents[RunnerOf(b)]
    /\ UNCHANGED <<due, heartbeatsEnabled, inputs>>
    /\ RunContinues(b)

(* The lane is busy.  An untargeted run leaves the agent due and the timer *)
(* to the wake layer's retry; a targeted one advances the agent and arms   *)
(* the timer.                                                              *)
RunOnceBusy(b) ==
    /\ Awaited(b)
    /\ HandlerBusy(b, call[b].target)
    /\ call' = [call EXCEPT ![b] = NoCall]
    /\ UNCHANGED <<heartbeatsEnabled, runner, agents, inputs>>
    /\ IF call[b].target = Untargeted
       THEN UNCHANGED <<due, runnerTimer, unarmed>>
       ELSE advanceAgentSchedule(b) /\ scheduleNext(RunnerOf(b))

(* runOnce rejects and the catch block throws in turn (logging), so that   *)
(* the run itself rejects; finally arms the timer.                         *)
RunThrows(b) ==
    /\ Awaited(b)
    /\ HandlerThrows(b)
    /\ call' = [call EXCEPT ![b] = NoCall]
    /\ UNCHANGED <<heartbeatsEnabled, runner, agents, due, inputs>>
    /\ scheduleNext(RunnerOf(b))

-----------------------------------------------------------------------------
WakeTimer == TimerFires /\ UNCHANGED runnerVars
WakeTick == Tick /\ UNCHANGED runnerVars

RunStep(b) ==
    \/ \E t \in Target : RunRefused(b, t) \/ RunFindsNone(b, t) \/ \E a \in Agent : RunStarts(b, t, a)
    \/ RunOnceAnswers(b) \/ RunOnceDisabled(b) \/ RunOnceBusy(b) \/ RunThrows(b)

Next ==
    \/ \E cfg \in Config : startHeartbeatRunner(cfg) \/ \E g \in Runner : UpdateConfig(g, cfg)
    \/ \E g \in Runner : stop(g) \/ RunnerTimerFires(g) \/ \E a \in Agent : BecomesDue(g, a)
    \/ \E on \in BOOLEAN : setHeartbeatsEnabled(on)
    \/ \E t \in Target, r \in Reason : RequestWake(t, r)
    \/ \E b \in Batch : RunStep(b)
    \/ WakeTimer \/ WakeTick

(* Time passes and timers fire, whichever comes first, and every batch     *)
(* ends: it calls runOnce a finite number of times, which carries its own  *)
(* timeout.                                                                *)
Clock ==
    \/ WakeTimer \/ WakeTick
    \/ \E g \in Runner : RunnerTimerFires(g) \/ \E a \in Agent : BecomesDue(g, a)

Fairness == WF_vars(Clock) /\ \A b \in Batch : []<>~InFlight(b)

Spec == Init /\ [][Next]_vars
FairSpec == Spec /\ Fairness

-----------------------------------------------------------------------------
(* Correctness of the chain.                                               *)

(* "Always re-arm the timer": while a runner is registered and has agents, *)
(* its timer is armed, or an untargeted wake or a run is on its way that   *)
(* will arm it; the chain is broken only after a run that found heartbeats *)
(* disabled.                                                               *)
IntervalChainAlive ==
    \A g \in Runner :
        handler = g /\ agents[g] # {} =>
            \/ runnerTimer[g]
            \/ pendingWakes[Untargeted] # NoReason
            \/ \E b \in Batch : InFlight(b) /\ RunnerOf(b) = g
                                /\ (Untargeted \in batch[b].rest \/ Awaited(b))
            \/ unarmed[g]

(* The current runner has agents to ask, and a run is asking one.          *)
HasAgents == handler # 0 /\ agents[handler] # {}
Asking == \E b \in Batch : Awaited(b) /\ RunnerOf(b) = handler

(* With heartbeats never disabled, a registered runner with agents keeps   *)
(* asking them, even when no event of the system wakes it.                 *)
HeartbeatsKeepComing == []heartbeatsEnabled => (<>[]HasAgents => []<>Asking)

(* "turn heartbeats back on (use this if they were disabled)"              *)
(* (docs/cli/system.md): once heartbeats stay enabled, a registered runner *)
(* with agents keeps asking them.                                          *)
HeartbeatsComeBack == <>[](heartbeatsEnabled /\ HasAgents) => []<>Asking

=============================================================================
