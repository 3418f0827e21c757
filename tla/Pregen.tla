------------------------------- MODULE Pregen -------------------------------
(***************************************************************************)
(* `tickwarden pregen`: the controller of internal/pregen/pregen.go on its *)
(* RCON session (module Rcon), driving the Chunky task of a Minecraft      *)
(* server while players come and go and the node gets busy and idle.       *)
(*                                                                         *)
(* Every wait of the code is a step of its own: the three reads of         *)
(* desiredRun, the write of the command, the read of its answer, the       *)
(* ticker.  The world changes between any two of them.                     *)
(***************************************************************************)
EXTENDS Rcon

VARIABLES
    \* what the sensors read (environment)
    online,         \* some player is on the server
    healthy,        \* TPS is at or above TPSFloor
    headroom,       \* psiHeadroom.Headroom() would say yes
    reachable,      \* the companion's /tps endpoint answers
    \* the server
    chunky,         \* what the Chunky task really does: "run" or "pause"
    \* the controller
    pc,             \* where Run / Step is: see Places
    desired,        \* the latest desiredRun(): "unknown" before the first
    running,        \* Controller.running, as "run" (true) or "pause" (false)
    started,        \* Controller.started
    cancelled,      \* the context: ctrl-c or SIGTERM came
    outcome,        \* what the latest Step returned: see Outcomes
    \* history
    joined,         \* a player joined since this step read the player count
    doubt           \* a command failed and none succeeded since

\* The controller's two console commands are among the session's.
ASSUME PregenAssumption == {"continue", "pause"} \subseteq Commands

nodeVars == <<online, healthy, headroom, reachable>>
controlVars == <<pc, desired, running, started, cancelled, outcome>>
vars == <<rconVars, nodeVars, chunky, controlVars, joined, doubt>>

Modes == {"run", "pause"}
Places == {"dial", "players", "tps", "load", "decide", "await", "sleep",
           "exit", "exitAwait", "stopped"}
Outcomes == {"none", "hold", "sent", "failed"}

TypeOK ==
    /\ RconTypeOK
    /\ online \in BOOLEAN /\ healthy \in BOOLEAN
    /\ headroom \in BOOLEAN /\ reachable \in BOOLEAN
    /\ chunky \in Modes
    /\ pc \in Places
    /\ desired \in Modes \cup {"unknown"}
    /\ running \in Modes
    /\ started \in BOOLEAN /\ cancelled \in BOOLEAN
    /\ outcome \in Outcomes
    /\ joined \in BOOLEAN /\ doubt \in BOOLEAN

\* A task added by the operator may be running or paused when we come.
Init ==
    /\ RconInit
    /\ online \in BOOLEAN /\ healthy \in BOOLEAN
    /\ headroom \in BOOLEAN /\ reachable \in BOOLEAN
    /\ chunky \in Modes
    /\ pc = "dial"
    /\ desired = "unknown"
    /\ running = "pause"
    /\ started = FALSE
    /\ cancelled = FALSE
    /\ outcome = "none"
    /\ joined = FALSE
    /\ doubt = FALSE

-----------------------------------------------------------------------------
(* The node: nothing of tickwarden decides these *)

PlayersChange ==
    /\ online' = ~online
    /\ joined' = (joined \/ online')
    /\ UNCHANGED <<rconVars, healthy, headroom, reachable, chunky, controlVars, doubt>>

NodeChanges ==
    /\ \/ healthy' = ~healthy /\ UNCHANGED <<headroom, reachable>>
       \/ headroom' = ~headroom /\ UNCHANGED <<healthy, reachable>>
       \/ reachable' = ~reachable /\ UNCHANGED <<healthy, headroom>>
    /\ UNCHANGED <<rconVars, online, chunky, controlVars, joined, doubt>>

\* ctrl-c or SIGTERM, at any time.
Cancel ==
    /\ ~cancelled
    /\ cancelled' = TRUE
    /\ UNCHANGED <<rconVars, nodeVars, chunky, pc, desired, running, started,
                   outcome, joined, doubt>>

\* The node is idle and every sensor can say so.
Idle == ~online /\ healthy /\ headroom /\ reachable

-----------------------------------------------------------------------------
(* The RCON session under the controller *)

Login ==
    /\ Dial \/ DialRefused \/ SkipEmptyAnswer \/ ReadAuthAnswer \/ AuthReadFails
    /\ UNCHANGED <<nodeVars, chunky, controlVars, joined, doubt>>

ServerAnswersLogin ==
    /\ ServeAuth
    /\ UNCHANGED <<nodeVars, chunky, controlVars, joined, doubt>>

CommandFor(mode) == IF mode = "run" THEN "continue" ELSE "pause"

\* Chunky's console commands (external): continue resumes, pause pauses.
Effect(command) == IF command = "continue" THEN "run" ELSE "pause"

ServerExecutes ==
    /\ Serve
    /\ chunky' = Effect(Head(toServer).body)
    /\ UNCHANGED <<nodeVars, controlVars, joined, doubt>>

LinkBreaks ==
    /\ Reset
    /\ UNCHANGED <<nodeVars, chunky, controlVars, joined, doubt>>

-----------------------------------------------------------------------------
(* The controller *)

\* cmdPregen: Run starts with a Step; without a session the program exits.
Start ==
    /\ pc = "dial"
    /\ \/ session = "ready" /\ pc' = "players"
       \/ session = "failed" /\ pc' = "stopped"
    /\ UNCHANGED <<rconVars, nodeVars, chunky, desired, running, started,
                   cancelled, outcome, joined, doubt>>

\* Bug form of ReadPlayers: an unreadable player count reads as an empty server.
ReadPlayersFailOpen ==
    /\ pc = "players"
    /\ IF ~reachable \/ ~online
         THEN pc' = "tps" /\ UNCHANGED desired
         ELSE pc' = "decide" /\ desired' = "pause"
    /\ joined' = FALSE
    /\ UNCHANGED <<rconVars, nodeVars, chunky, running, started, cancelled,
                   outcome, doubt>>

\* desiredRun: the first unsafe or unreadable signal decides for "pause".
ReadPlayers ==
    /\ pc = "players"
    /\ IF reachable /\ ~online
         THEN pc' = "tps" /\ UNCHANGED desired
         ELSE pc' = "decide" /\ desired' = "pause"
    /\ joined' = FALSE
    /\ UNCHANGED <<rconVars, nodeVars, chunky, running, started, cancelled,
                   outcome, doubt>>

ReadTPS ==
    /\ pc = "tps"
    /\ IF reachable /\ healthy
         THEN pc' = "load" /\ UNCHANGED desired
         ELSE pc' = "decide" /\ desired' = "pause"
    /\ UNCHANGED <<rconVars, nodeVars, chunky, running, started, cancelled,
                   outcome, joined, doubt>>

ReadLoad ==
    /\ pc = "load"
    /\ pc' = "decide"
    /\ desired' = IF headroom THEN "run" ELSE "pause"
    /\ UNCHANGED <<rconVars, nodeVars, chunky, running, started, cancelled,
                   outcome, joined, doubt>>

\* Bug form of Settled: Chunky is assumed to be paused at the start.
SettledUnstarted(mode) == mode = running

\* Step: nothing to command, but the first Step always commands.
Settled(mode) == started /\ mode = running

Hold ==
    /\ pc = "decide"
    /\ Settled(desired)
    /\ outcome' = "hold"
    /\ pc' = "sleep"
    /\ UNCHANGED <<rconVars, nodeVars, chunky, desired, running, started,
                   cancelled, joined, doubt>>

SendCommand ==
    /\ pc = "decide"
    /\ ~Settled(desired)
    /\ WriteCommand(CommandFor(desired))
    /\ IF up
         THEN pc' = "await" /\ UNCHANGED <<outcome, doubt>>
         ELSE pc' = "sleep" /\ outcome' = "failed" /\ doubt' = TRUE
    /\ UNCHANGED <<nodeVars, chunky, desired, running, started, cancelled, joined>>

\* Bug form of Believed: the tracked state is flipped instead of set.
BelievedFlipped(mode, res) ==
    IF res = "ok" THEN IF running = "run" THEN "pause" ELSE "run" ELSE running

\* Step: a failed command leaves the tracked state untouched.
Believed(mode, res) == IF res = "ok" THEN mode ELSE running

CommandAnswered ==
    /\ pc = "await"
    /\ CommandReturns
    /\ pc' = "sleep"
    /\ running' = Believed(desired, result')
    /\ started' = (started \/ result' = "ok")
    /\ outcome' = IF result' = "ok" THEN "sent" ELSE "failed"
    /\ doubt' = (result' # "ok")
    /\ UNCHANGED <<nodeVars, chunky, desired, cancelled, joined>>

\* Run: the ticker's case of the select.
Tick ==
    /\ pc = "sleep"
    /\ pc' = "players"
    /\ UNCHANGED <<rconVars, nodeVars, chunky, desired, running, started,
                   cancelled, outcome, joined, doubt>>

\* Run: the ctx.Done() case of the select; pauseOnExit is deferred.
Exit ==
    /\ pc = "sleep"
    /\ cancelled
    /\ pc' = "exit"
    /\ desired' = "pause"
    /\ UNCHANGED <<rconVars, nodeVars, chunky, running, started, cancelled,
                   outcome, joined, doubt>>

\* Bug form of PauseNeeded: pause on exit only what we believe to be running.
PauseNeededIfRunning == running = "run"

\* pauseOnExit: unconditional.
PauseNeeded == TRUE

PauseOnExit ==
    /\ pc = "exit"
    /\ IF PauseNeeded
         THEN /\ WriteCommand("pause")
              /\ pc' = IF up THEN "exitAwait" ELSE "stopped"
         ELSE /\ pc' = "stopped"
              /\ UNCHANGED rconVars
    /\ running' = IF pc' = "stopped" THEN "pause" ELSE running
    /\ started' = IF pc' = "stopped" THEN TRUE ELSE started
    /\ UNCHANGED <<nodeVars, chunky, desired, cancelled, outcome, joined, doubt>>

\* pauseOnExit: whatever the answer, the program ends.
PausedOnExit ==
    /\ pc = "exitAwait"
    /\ CommandReturns
    /\ pc' = "stopped"
    /\ running' = "pause"
    /\ started' = TRUE
    /\ UNCHANGED <<nodeVars, chunky, desired, cancelled, outcome, joined, doubt>>

-----------------------------------------------------------------------------
Step ==
    \/ ReadPlayers \/ ReadTPS \/ ReadLoad
    \/ Hold \/ SendCommand \/ CommandAnswered

Controller == Start \/ Step \/ Tick \/ Exit \/ PauseOnExit \/ PausedOnExit

Server == ServerAnswersLogin \/ ServerExecutes

Next ==
    \/ PlayersChange \/ NodeChanges \/ Cancel
    \/ Login \/ Server \/ LinkBreaks
    \/ Controller

Spec == Init /\ [][Next]_vars

(***************************************************************************)
(* Fairness.  The controller goroutine and the server's console are        *)
(* scheduled, every read has a deadline, and the ticker keeps ticking: WF. *)
(* Exit competes with Tick for the select; Go picks among ready cases at   *)
(* random, so a cancelled context is not passed over for ever: SF.         *)
(* Players, load, faults and the signal owe nothing.                       *)
(***************************************************************************)
Fairness ==
    /\ WF_vars(Login)
    /\ WF_vars(Server)
    /\ WF_vars(Controller)
    /\ SF_vars(Exit)

FairSpec == Spec /\ Fairness

-----------------------------------------------------------------------------
(* Properties *)

\* No command of the session is unanswered or on its way.
Quiet == toServer = <<>> /\ toClient = <<>>

\* Between two steps, and while a step reads its sensors.
Between == pc \in {"players", "tps", "load", "decide", "sleep"}

(* The state the controller believes in is the state Chunky is in: what    *)
(* Step's `desired == c.running` rests on.  Needs a link without faults.   *)
BeliefIsTruth ==
    Between /\ started => chunky = running

(* However the link behaves, a wrong belief is one that an error was       *)
(* reported for: without one since the last confirmed command, and with    *)
(* nothing on its way, the controller and Chunky agree.                    *)
DoubtlessBeliefIsTruth ==
    Between /\ started /\ ~doubt => chunky = running /\ Quiet

(* "It matches the reply by RequestID to avoid acting on a stale packet":  *)
(* a Step that says its command was sent was answered for that very        *)
(* request, executed by the server.                                        *)
SentMeansExecuted ==
    pc = "sleep" /\ outcome = "sent" => served = reqID /\ chunky = desired

(* A Step that found the node not idle, and reports no error, leaves the   *)
(* task paused.                                                            *)
YieldsWhenUnsafe ==
    pc = "sleep" /\ desired = "pause" /\ outcome # "failed" => chunky = "pause"

(* The task resumes only within a step that saw an empty server; a player  *)
(* online at that moment joined after that step read the player count.     *)
ResumesOnFreshReads ==
    [][chunky = "pause" /\ chunky' = "run"
         => pc = "await" /\ desired = "run" /\ (online => joined)]_vars

(* Shutdown: however late the answers come, once the controller has        *)
(* stopped and the server has worked off its socket, Chunky is paused and  *)
(* stays so, unless the connection itself broke.                           *)
StoppedStaysPaused ==
    (pc = "stopped" /\ session # "failed") ~> ([](chunky = "pause") \/ ~up)

(* A logged-in controller yields to players that stay.                     *)
EventuallyYields ==
    (pc \notin {"dial", "stopped"} /\ online) ~> (chunky = "pause" \/ ~online)

(* A node that stays idle gets its generation: the task is run again.      *)
EventuallyResumes ==
    <>[](Idle /\ ~cancelled) => <>[](chunky = "run" \/ session = "failed")

\* The verdict of the abstract specification, read off the controller.
Verdict ==
    IF desired = "unknown" THEN "none"
    ELSE IF pc \in {"exit", "exitAwait", "stopped"} THEN "final"
    ELSE desired

Promise == INSTANCE OpportunisticTask WITH task <- chunky, verdict <- Verdict

(* Without link faults the controller implements the abstract task.        *)
KeepsPromise == Promise!FairSpec
=============================================================================
