------------------------------ MODULE DevServers ------------------------------
(***************************************************************************)
(* The supervisor of the one development server a coding run may have      *)
(* (firik_agent/projects/dev_servers.py), on the host backend that runs    *)
(* the server's command (firik_agent/core/execution.py).                   *)
(*                                                                         *)
(* Tools of the run, its end, and the shutdown of the application call the *)
(* supervisor from tasks of one event loop.  A step goes from one wait to  *)
(* the next; what needs no more than some turns of the loop, such as the   *)
(* end of a cancelled monitor, belongs to the step that asks for it.  A    *)
(* call that fails before it did anything is no step.                      *)
(*                                                                         *)
(* Logs, workspaces (each server has one, which is given up with it),      *)
(* commands and ports, of which the model has one, are left out.           *)
(***************************************************************************)
EXTENDS Naturals

CONSTANTS
  Clients,     \* tasks that call the supervisor
  MaxServers   \* bound on servers that are started

ASSUME ServerConstants == MaxServers \in Nat /\ {"nobody", "monitor"} \cap Clients = {}

VARIABLES
  supervised,  \* _state
  server,      \* _task and _command_id: the last server that was started
  commands,    \* the backend's record of each server's command
  monitor,     \* _watch: "none", "watching" or "stopping"
  calls,       \* where each client is
  startLock,   \* _lock
  stopLock,    \* _backend_stop_lock
  granted,     \* the origin is granted
  runCancelled,\* the event the supervisor is given
  reported     \* the last server a client was told is stopped

serverVars == <<supervised, server, commands, monitor, calls, startLock, stopLock,
                granted, runCancelled, reported>>
environment == <<granted, runCancelled>>
(* What most steps of a call leave alone.                                  *)
others == <<server, commands, stopLock, environment, reported>>

-----------------------------------------------------------------------------
(* A command is created, registered and spawned.  "stuck" ended without    *)
(* the end of its process.                                                 *)
EndedWell == {"exited", "failed", "expired", "cancelled"}
CommandStates == {"none", "created", "starting", "running", "stopping", "stuck"} \cup EndedWell

(* What stop leaves as it is.                                              *)
Kept == {"uncertain", "revoked", "cancelled", "expired", "failed"}
Supervised == {"idle", "starting", "ready", "stopped", "exited"} \cup Kept

(* Calls that wait for, or are inside, _stop_command.                      *)
Stopping == {"stop_start", "stop_reuse", "stop_status", "stop_early", "stop_last"}
Waits == {"idle", "start_lock", "port", "registering", "readiness", "reuse", "probing", "stop_lock"}

ServersTypeOK ==
  /\ supervised \in Supervised
  /\ server \in 0 .. MaxServers
  /\ commands \in [1 .. MaxServers -> CommandStates]
  /\ monitor \in {"none", "watching", "stopping"}
  /\ calls \in [Clients -> Waits \cup Stopping]
  /\ startLock \in Clients \cup {"nobody"}
  /\ stopLock \in Clients \cup {"nobody", "monitor"}
  /\ granted \in BOOLEAN /\ runCancelled \in BOOLEAN
  /\ reported \in 0 .. MaxServers

ServersInit ==
  /\ supervised = "idle"
  /\ server = 0
  /\ commands = [n \in 1 .. MaxServers |-> "none"]
  /\ monitor = "none"
  /\ calls = [c \in Clients |-> "idle"]
  /\ startLock = "nobody" /\ stopLock = "nobody"
  /\ granted = TRUE /\ runCancelled = FALSE
  /\ reported = 0

-----------------------------------------------------------------------------
Authorized == granted /\ ~runCancelled

(* _task is there and done(): a backend that cancels without waiting would *)
(* have DoneOrStopping.                                                    *)
DoneOrStopping == server > 0 /\ commands[server] \in EndedWell \cup {"stuck", "stopping"}
Done == server > 0 /\ commands[server] \in EndedWell \cup {"stuck"}
Running == server > 0 /\ ~Done

(* _process_alive, once the task is done.                                  *)
NeverStuck == FALSE
Stuck == server > 0 /\ commands[server] = "stuck"

(* _settle.                                                                *)
Settled(state) ==
  CASE ~Done -> state
    [] Stuck -> "uncertain"
    [] Done /\ ~Stuck /\ commands[server] = "cancelled" ->
         IF state \in {"stopped", "revoked", "uncertain"} THEN state ELSE "cancelled"
    [] Done /\ ~Stuck /\ commands[server] = "expired" -> "expired"
    [] OTHER -> IF state \in {"stopped", "cancelled", "revoked"} THEN state ELSE commands[server]

Goes(c, place) == calls' = [calls EXCEPT ![c] = place]
Unlock(c) == startLock' = IF startLock = c THEN "nobody" ELSE startLock
Return(c) == Goes(c, "idle") /\ Unlock(c)

-----------------------------------------------------------------------------
(* start: what was authorized waits for the lock, and finds no server, or  *)
(* one to use again, or to refuse.                                         *)
StartServer(c) ==
  /\ calls[c] = "idle" /\ Authorized
  /\ Goes(c, "start_lock")
  /\ UNCHANGED <<others, supervised, monitor, startLock>>

LockStart(c) ==
  /\ calls[c] = "start_lock" /\ startLock = "nobody"
  /\ supervised' = Settled(supervised)
  /\ \/ /\ supervised' = "uncertain" \/ Running
        /\ Goes(c, "idle") /\ UNCHANGED <<startLock, monitor>>
     \/ /\ Running /\ supervised' = "ready"
        /\ Goes(c, "reuse") /\ startLock' = c /\ UNCHANGED monitor
     \/ /\ supervised' # "uncertain" /\ ~Running /\ stopLock = "nobody"
        /\ Goes(c, "port") /\ startLock' = c /\ monitor' = "none"
  /\ UNCHANGED others

(* The port is unused, and the origin still granted; or not.               *)
CreateServer(c) ==
  /\ calls[c] = "port" /\ Authorized
  /\ server < MaxServers
  /\ server' = server + 1
  /\ commands' = [commands EXCEPT ![server + 1] = "created"]
  /\ supervised' = "starting"
  /\ Goes(c, "registering")
  /\ UNCHANGED <<monitor, startLock, stopLock, reported, environment>>

RefusePort(c) ==
  /\ calls[c] = "port"
  /\ Return(c)
  /\ UNCHANGED <<others, supervised, monitor>>

StartMonitor(c) ==
  /\ calls[c] = "registering" /\ commands[server] # "created"
  /\ monitor' = "watching"
  /\ Goes(c, "readiness")
  /\ UNCHANGED <<others, supervised, startLock>>

BecomeReady(c) ==
  /\ calls[c] = "readiness" /\ Running /\ supervised = "starting"
  /\ supervised' = "ready"
  /\ Return(c)
  /\ UNCHANGED <<others, monitor>>

(* The deadline, a denied probe, a server that ended or is being stopped,  *)
(* or the end of the calling task.                                         *)
GiveUpStart(c) ==
  /\ calls[c] \in {"registering", "readiness"}
  /\ supervised' \in {supervised, Settled(supervised)}
  /\ Goes(c, "stop_start")
  /\ UNCHANGED <<others, monitor, startLock>>

-----------------------------------------------------------------------------
(* status, which start asks too, of a server it may use again.             *)
AskStatus(c) ==
  /\ calls[c] = "idle"
  /\ supervised' = Settled(supervised)
  /\ Goes(c, IF Running /\ supervised' = "ready" THEN "probing" ELSE "idle")
  /\ UNCHANGED <<others, monitor, startLock>>

ProbeAnswers(c) ==
  /\ calls[c] \in {"probing", "reuse"}
  /\ supervised' = Settled(supervised)
  /\ Return(c)
  /\ UNCHANGED <<others, monitor>>

ProbeDenied(c) ==
  /\ calls[c] \in {"probing", "reuse"} /\ ~Authorized
  /\ supervised' = "revoked"
  /\ Goes(c, IF calls[c] = "reuse" THEN "stop_reuse" ELSE "stop_status")
  /\ UNCHANGED <<others, monitor, startLock>>

-----------------------------------------------------------------------------
(* stop, before it has the lock and after.                                 *)
Stop(c) ==
  /\ calls[c] = "idle"
  /\ supervised' = IF supervised \in Kept THEN supervised ELSE "stopped"
  /\ Goes(c, IF Running THEN "stop_early" ELSE "stop_lock")
  /\ UNCHANGED <<others, monitor, startLock>>

LockStop(c) ==
  /\ calls[c] = "stop_lock" /\ startLock = "nobody"
  /\ startLock' = c
  /\ Goes(c, "stop_last")
  /\ UNCHANGED <<others, supervised, monitor>>

(* _stop_command: cancel_command, or the end of a task that is not yet     *)
(* registered, and the wait for it.                                        *)
CancelCommand(actor) ==
  /\ stopLock = "nobody" /\ Running
  /\ stopLock' = actor
  /\ commands' =
       [commands EXCEPT ![server] = IF @ = "created" THEN "cancelled" ELSE "stopping"]
CommandOver(actor) ==
  /\ stopLock \in {actor, "nobody"} /\ ~Running
  /\ stopLock' = "nobody"

StopCommand(c) ==
  /\ calls[c] \in Stopping
  /\ CancelCommand(c)
  /\ UNCHANGED <<supervised, server, monitor, calls, startLock, reported, environment>>

(* What follows in each of its callers.                                    *)
Final(state) == IF state \in Kept THEN state ELSE "stopped"
CommandStopped(c) ==
  /\ calls[c] \in Stopping
  /\ CommandOver(c) /\ ~Stuck
  /\ \/ /\ calls[c] = "stop_early"
        /\ \E next \in {"stop_lock", "idle"} : Goes(c, next)
        /\ UNCHANGED <<supervised, monitor, startLock, reported>>
     \/ /\ calls[c] \in {"stop_start", "stop_reuse", "stop_status"}
        /\ supervised' = Settled(supervised) /\ monitor' = "none"
        /\ Return(c) /\ UNCHANGED reported
     \/ /\ calls[c] = "stop_last"
        /\ supervised' = Final(Settled(supervised)) /\ monitor' = "none"
        /\ Return(c)
        /\ reported' = IF supervised' = "uncertain" THEN reported ELSE server
  /\ UNCHANGED <<server, commands, environment>>

StopUnconfirmed(c) ==
  /\ calls[c] \in Stopping
  /\ CommandOver(c) /\ Stuck
  /\ supervised' = "uncertain"
  /\ Return(c)
  /\ UNCHANGED <<server, commands, monitor, reported, environment>>

(* A calling task ends while it waits for a lock or an answer; the cleanup *)
(* of start and the first half of stop are shielded from it.               *)
Abandon(c) ==
  /\ \/ calls[c] \in {"start_lock", "reuse", "probing", "stop_lock"}
     \/ calls[c] \in {"stop_reuse", "stop_status", "stop_last"} /\ stopLock \notin {c, "nobody"}
  /\ Return(c)
  /\ UNCHANGED <<others, supervised, monitor>>

-----------------------------------------------------------------------------
(* _watch.                                                                 *)
Watch ==
  /\ monitor = "watching"
  /\ \/ ~Running /\ supervised' = Settled(supervised) /\ monitor' = "none"
     \/ Running /\ runCancelled /\ supervised' = "cancelled" /\ monitor' = "stopping"
     \/ Running /\ ~Authorized /\ supervised' = "revoked" /\ monitor' = "stopping"
  /\ UNCHANGED <<others, calls, startLock>>

MonitorStops ==
  /\ monitor = "stopping"
  /\ CancelCommand("monitor")
  /\ UNCHANGED <<supervised, server, monitor, calls, startLock, reported, environment>>

MonitorEnds ==
  /\ monitor = "stopping"
  /\ CommandOver("monitor")
  /\ monitor' = "none"
  /\ supervised' = Settled(supervised)
  /\ UNCHANGED <<server, commands, calls, startLock, reported, environment>>

-----------------------------------------------------------------------------
(* execute_command: registration, the process, its end; and what becomes   *)
(* of a process that could not be killed.                                  *)
RunsTo(state) ==
  CASE state = "created" -> {"starting"}
    [] state = "starting" -> {"running", "failed"}
    [] state = "running" -> {"exited", "failed", "expired", "stuck"}
    [] state = "stopping" -> {"cancelled", "exited", "failed", "stuck"}
    [] state = "stuck" -> {"failed"}
    [] OTHER -> {}

ExecuteCommand(n) ==
  /\ \E state \in RunsTo(commands[n]) : commands' = [commands EXCEPT ![n] = state]
  /\ UNCHANGED <<supervised, server, monitor, calls, startLock, stopLock, reported, environment>>

(* The user changes the grant, or the run is cancelled.                    *)
ChangeGrant ==
  /\ granted' = ~granted
  /\ UNCHANGED <<supervised, server, commands, monitor, calls, startLock, stopLock,
                 runCancelled, reported>>
CancelServers ==
  /\ runCancelled' = TRUE
  /\ UNCHANGED <<supervised, server, commands, monitor, calls, startLock, stopLock,
                 granted, reported>>

ServersNext ==
  \/ \E c \in Clients :
       \/ StartServer(c) \/ LockStart(c) \/ CreateServer(c) \/ RefusePort(c)
       \/ StartMonitor(c) \/ BecomeReady(c) \/ GiveUpStart(c)
       \/ AskStatus(c) \/ ProbeAnswers(c) \/ ProbeDenied(c)
       \/ Stop(c) \/ LockStop(c) \/ StopCommand(c) \/ CommandStopped(c)
       \/ StopUnconfirmed(c) \/ Abandon(c)
  \/ Watch \/ MonitorStops \/ MonitorEnds
  \/ \E n \in 1 .. MaxServers : ExecuteCommand(n)
  \/ ChangeGrant \/ CancelServers

ServersSpec == ServersInit /\ [][ServersNext]_serverVars

-----------------------------------------------------------------------------
ProcessRuns(n) == commands[n] \in {"running", "stopping", "stuck"}

(* A process is that of the last server, so that there is one, and         *)
(* somebody attends to it, who will end it when the run is cancelled or    *)
(* the origin revoked; or every call reports that its end is uncertain.    *)
ProcessAttended ==
  \A n \in 1 .. MaxServers : ProcessRuns(n) =>
    /\ n = server
    /\ \/ monitor # "none" \/ stopLock # "nobody" \/ Settled(supervised) = "uncertain"
       \/ \E c \in Clients : calls[c] \in {"registering", "stop_start"}

(* Who was told that the server is stopped (stop's "stopped") can rely on  *)
(* it, whatever was started, watched or asked meanwhile.                   *)
StoppedIsDown == \A n \in 1 .. reported : ~ProcessRuns(n)
=============================================================================
