---------------------------- MODULE McpConnections ----------------------------
(***************************************************************************)
(* The pool of MCP servers (firik_agent/mcp/connection.py), for the one    *)
(* name under which a server is configured, with a server that runs as a   *)
(* process (firik_agent/mcp/client.py).                                    *)
(*                                                                         *)
(* The tasks are the callers of the pool on its event loop: the settings   *)
(* screen, chats and coding runs.  A step goes from one wait to the next.  *)
(* A connection is an object of the pool: updating a server puts another   *)
(* one in its place.  Tools, their schemas, test(), messages and logs are  *)
(* left out, and so are connections without a process.                     *)
(***************************************************************************)
EXTENDS Naturals

CONSTANTS
  Tasks,           \* callers
  Sessions,        \* chats and runs that use the server
  MaxConnections,  \* bound on the connection objects
  MaxProcesses     \* bound on the processes

ASSUME McpConstants ==
  MaxConnections \in Nat \ {0} /\ MaxProcesses \in Nat /\ "nobody" \notin Tasks

VARIABLES
  pool,       \* connections[name]: 0 if it is not there
  links,      \* the connection objects
  processes,  \* the servers, each with the connection that started it
  registry,   \* the connection whose tools are registered, or 0
  callers,    \* what each task is doing
  abandoned   \* processes that a failure left without anybody to end them

mcpVars == <<pool, links, processes, registry, callers, abandoned>>
(* What a call leaves alone while it waits for the lock.                   *)
servers == <<processes, registry, abandoned>>
rest == <<pool, servers>>

-----------------------------------------------------------------------------
Links == 1 .. MaxConnections
Servers == 1 .. MaxProcesses

Absent == [status |-> "absent", client |-> 0, users |-> {}, lock |-> "nobody", autostart |-> FALSE]
Created(auto) == [Absent EXCEPT !.status = "configured", !.autostart = auto]
NoProcess == [state |-> "none", of |-> 0]
NoCall == [op |-> "none", of |-> 0, at |-> "idle", client |-> 0, again |-> FALSE, first |-> FALSE]

Statuses == {"absent", "configured", "starting", "connected", "error", "disconnecting", "disconnected"}
(* A server is "deaf" when its output has ended, "closing" when it was     *)
(* asked to end, "lost" when its client has forgotten the process.         *)
Alive == {"up", "deaf", "closing", "lost"}
(* The first two begin with the wait for the lock of the connection, the   *)
(* others have it.                                                         *)
Locking == {"connect", "disconnect", "handshake", "drop", "stop"}
Ops == {"connect", "acquire", "release", "disconnect", "restart", "remove", "update", "add", "call"}

LinkStates == [status : Statuses, client : 0 .. MaxProcesses, users : SUBSET Sessions,
               lock : Tasks \cup {"nobody"}, autostart : BOOLEAN]
ProcessStates == [state : Alive \cup {"none", "down"}, of : 0 .. MaxConnections]
CallStates == [op : Ops \cup {"none"}, of : 0 .. MaxConnections, at : Locking \cup {"idle", "call"},
               client : 0 .. MaxProcesses, again : BOOLEAN, first : BOOLEAN]

McpTypeOK ==
  /\ pool \in 0 .. MaxConnections
  /\ links \in [Links -> LinkStates]
  /\ processes \in [Servers -> ProcessStates]
  /\ registry \in 0 .. MaxConnections
  /\ callers \in [Tasks -> CallStates]
  /\ abandoned \subseteq Servers

(* load_from_config at the start of the application.                       *)
McpInit ==
  /\ pool = 1
  /\ \E auto \in BOOLEAN :
       links = [c \in Links |-> IF c = 1 THEN Created(auto) ELSE Absent]
  /\ processes = [k \in Servers |-> NoProcess]
  /\ registry = 0
  /\ callers = [t \in Tasks |-> NoCall]
  /\ abandoned = {}

-----------------------------------------------------------------------------
(* The lock of a connection goes from who leaves it to one of those who    *)
(* wait for it.  (asyncio.Lock has them in order.)  Who finds it free goes *)
(* on at once, before any other task.                                      *)
Waiters(c) == {t \in Tasks : callers[t].of = c /\ callers[t].at \in {"connect", "disconnect"}}
Heirs(c, t) == IF Waiters(c) \subseteq {t} THEN {"nobody"} ELSE Waiters(c) \ {t}
Joined(link, t) == [link EXCEPT !.lock = IF @ = "nobody" THEN t ELSE @]
Holds(t, place) == callers[t].at = place /\ links[callers[t].of].lock = t

Waiting(op, c, place) ==
  [NoCall EXCEPT !.op = op, !.of = c, !.at = place, !.first = links[c].lock = "nobody"]
MayMove(t) == \A u \in Tasks : callers[u].first => u = t
Proceeds(t, call) == callers' = [callers EXCEPT ![t] = call]
Changes(c, link) == links' = [links EXCEPT ![c] = link]
Leaves(t, c, link) == \E u \in Heirs(c, t) : Changes(c, [link EXCEPT !.lock = u])

(* MCPClient.is_connected of the client a connection has.                  *)
IsConnected(c) == links[c].client # 0 /\ processes[links[c].client].state = "up"

(* What the disconnection of a client does at once: calls that wait for    *)
(* its answers are cancelled.                                              *)
Closing(k) ==
  processes' = [processes EXCEPT ![k].state = IF @ \in {"up", "deaf"} THEN "closing" ELSE @]
Interrupted(k) ==
  [t \in Tasks |-> IF callers[t].at = "call" /\ callers[t].client = k THEN NoCall ELSE callers[t]]
(* And what it does after the process was waited for, or killed.           *)
Closed(k) ==
  processes' = [processes EXCEPT ![k].state = IF @ = "closing" THEN "down" ELSE @]

-----------------------------------------------------------------------------
(* What tasks ask of the pool.                                             *)
Asks(t, op, place) ==
  /\ callers[t] = NoCall /\ pool # 0
  /\ Proceeds(t, Waiting(op, pool, place))
  /\ Changes(pool, Joined(links[pool], t))

ConnectServer(t) == Asks(t, "connect", "connect") /\ UNCHANGED rest
DisconnectServer(t) ==
  Asks(t, "disconnect", "disconnect") /\ UNCHANGED rest
RestartServer(t) ==
  Asks(t, "restart", "disconnect") /\ UNCHANGED rest
RemoveServer(t) ==
  /\ Asks(t, "remove", "disconnect")
  /\ pool' = 0
  /\ UNCHANGED servers

UpdateServer(t) ==
  /\ callers[t] = NoCall /\ pool # 0
  /\ Proceeds(t, [Waiting("update", pool, "disconnect") EXCEPT !.again = links[pool].status = "connected"])
  /\ Changes(pool, Joined(links[pool], t))
  /\ UNCHANGED rest

(* A connection is created, and takes the name.  It is connected at once   *)
(* if asked.                                                               *)
Spare == {c \in Links : links[c].status = "absent"}
First(c) == \A other \in Spare : c <= other
NewConnection(t, op, now, before) ==
  \E c \in Spare, auto \in BOOLEAN :
    /\ First(c)
    /\ pool' = c
    /\ IF now \/ auto
       THEN /\ Proceeds(t, Waiting(op, c, "connect"))
            /\ links' = [before EXCEPT ![c] = Joined(Created(auto), t)]
       ELSE /\ Proceeds(t, NoCall)
            /\ links' = [before EXCEPT ![c] = Created(auto)]

(* add_server: one of that name is removed before.  update_server without  *)
(* one does the same as its second part.                                   *)
AddServer(t) ==
  \/ /\ Asks(t, "add", "disconnect")
     /\ pool' = 0
     /\ UNCHANGED servers
  \/ /\ callers[t] = NoCall /\ pool = 0
     /\ \E now \in BOOLEAN : NewConnection(t, "add", now, links)
     /\ UNCHANGED servers

AcquireForSession(t, s) ==
  /\ callers[t] = NoCall /\ pool # 0
  /\ LET counted == [links[pool] EXCEPT !.users = @ \cup {s}] IN
     IF counted.status = "connected"
     THEN Changes(pool, counted) /\ UNCHANGED callers
     ELSE /\ Changes(pool, Joined(counted, t))
          /\ Proceeds(t, Waiting("acquire", pool, "connect"))
  /\ UNCHANGED rest

ReleaseForSession(t, s) ==
  /\ callers[t] = NoCall /\ pool # 0
  /\ LET counted == [links[pool] EXCEPT !.users = @ \ {s}] IN
     IF counted.users = {} /\ ~counted.autostart
     THEN /\ Changes(pool, Joined(counted, t))
          /\ Proceeds(t, Waiting("release", pool, "disconnect"))
     ELSE Changes(pool, counted) /\ UNCHANGED callers
  /\ UNCHANGED rest

(* call_tool, of the connection the registered handler belongs to.         *)
CallTool(t) ==
  /\ callers[t] = NoCall /\ registry # 0
  /\ IF IsConnected(registry)
     THEN /\ Proceeds(t, [Waiting("call", registry, "call") EXCEPT !.client = links[registry].client])
          /\ UNCHANGED links
     ELSE /\ Proceeds(t, Waiting("call", registry, "connect"))
          /\ Changes(registry, Joined(links[registry], t))
  /\ UNCHANGED rest

(* The answer, an error, or the end of the time for it.                    *)
CallOver(t) ==
  /\ callers[t].at = "call"
  /\ Proceeds(t, NoCall)
  /\ UNCHANGED <<pool, links, processes, registry, abandoned>>

(* import_mcp_configs replaces the configuration of a connection, or       *)
(* creates one.                                                            *)
ImportConfig ==
  /\ \E auto \in BOOLEAN :
       \/ /\ pool # 0
          /\ Changes(pool, [links[pool] EXCEPT !.autostart = auto]) /\ UNCHANGED pool
       \/ /\ pool = 0
          /\ \E c \in Spare : First(c) /\ Changes(c, Created(auto)) /\ pool' = c
  /\ UNCHANGED <<servers, callers>>

-----------------------------------------------------------------------------
(* connect(), with the lock.                                               *)
Connected(t, client) ==
  IF callers[t].op = "call"
  THEN Proceeds(t, [callers[t] EXCEPT !.at = "call", !.client = client, !.first = FALSE]) /\ UNCHANGED registry
  ELSE Proceeds(t, NoCall) /\ registry' = callers[t].of

NeverReused(c) == FALSE
Reused(c) == links[c].status = "connected" /\ IsConnected(c)
Reuse(t) ==
  LET c == callers[t].of IN
  /\ Holds(t, "connect") /\ Reused(c)
  /\ Leaves(t, c, links[c])
  /\ Connected(t, links[c].client)
  /\ UNCHANGED <<pool, processes, abandoned>>

(* A process is started beside one that the connection takes for ended.    *)
StartProcess(t) ==
  LET c == callers[t].of IN
  /\ Holds(t, "connect") /\ ~Reused(c)
  /\ \E k \in Servers :
       /\ processes[k] = NoProcess /\ \A j \in 1 .. k - 1 : processes[j] # NoProcess
       /\ processes' = [processes EXCEPT ![k] = [state |-> "up", of |-> c]]
       /\ Proceeds(t, [callers[t] EXCEPT !.at = "handshake", !.client = k, !.first = FALSE])
  /\ Changes(c, [links[c] EXCEPT !.status = "starting"])
  /\ abandoned' = abandoned \cup {k \in Servers : k = links[c].client /\ processes[k].state = "deaf"}
  /\ UNCHANGED <<pool, registry>>

Handshake(t) ==
  LET c == callers[t].of  k == callers[t].client IN
  /\ Holds(t, "handshake") /\ processes[k].state = "up"
  /\ Leaves(t, c, [links[c] EXCEPT !.client = k, !.status = "connected"])
  /\ Connected(t, k)
  /\ UNCHANGED <<pool, processes, abandoned>>

(* The process is not started, does not answer, or refuses: its client was *)
(* not stored, and what is disconnected is the client from before.         *)
ConnectFails(t) ==
  LET c == callers[t].of  old == links[c].client IN
  /\ Holds(t, "handshake") \/ (Holds(t, "connect") /\ ~Reused(c))
  /\ abandoned' = abandoned \cup ({callers[t].client} \cap Servers)
  /\ IF old = 0
     THEN /\ Proceeds(t, NoCall) /\ UNCHANGED processes
          /\ Leaves(t, c, [links[c] EXCEPT !.status = "error"])
     ELSE /\ callers' = [Interrupted(old) EXCEPT ![t].at = "drop", ![t].client = old, ![t].first = FALSE]
          /\ Closing(old)
          /\ Changes(c, [links[c] EXCEPT !.status = "error"])
  /\ UNCHANGED <<pool, registry>>

Dropped(t) ==
  LET c == callers[t].of IN
  /\ Holds(t, "drop")
  /\ Closed(links[c].client)
  /\ Leaves(t, c, [links[c] EXCEPT !.client = 0])
  /\ Proceeds(t, NoCall)
  /\ UNCHANGED <<pool, registry, abandoned>>

-----------------------------------------------------------------------------
(* disconnect(), with the lock.                                            *)
InUse(t) ==
  LET link == links[callers[t].of] IN
  callers[t].op = "release" /\ link.users # {} /\ link.autostart

KeepServer(t) ==
  /\ Holds(t, "disconnect") /\ InUse(t)
  /\ Leaves(t, callers[t].of, links[callers[t].of])
  /\ Proceeds(t, NoCall)
  /\ UNCHANGED rest

StopServer(t) ==
  LET c == callers[t].of  k == links[c].client IN
  /\ Holds(t, "disconnect") /\ ~InUse(t) /\ k # 0
  /\ Changes(c, [links[c] EXCEPT !.status = "disconnecting"])
  /\ callers' = [Interrupted(k) EXCEPT ![t].at = "stop", ![t].first = FALSE]
  /\ Closing(k)
  /\ UNCHANGED <<pool, registry, abandoned>>

(* The connection is disconnected, and the caller goes on.                 *)
Disconnected(t) ==
  LET c == callers[t].of
      ended == [links[c] EXCEPT !.client = 0, !.status = "disconnected"]
      op == callers[t].op IN
  /\ registry' = IF op \in {"remove", "update", "add"} THEN 0 ELSE registry
  /\ \E u \in Heirs(c, t) :
       LET left == [links EXCEPT ![c] = [ended EXCEPT !.lock = u]] IN
       \/ /\ op \in {"release", "disconnect", "remove"}
          /\ Proceeds(t, NoCall) /\ links' = left /\ UNCHANGED pool
       \/ /\ op = "restart"
          /\ Proceeds(t, [Waiting("restart", c, "connect") EXCEPT !.first = u = "nobody"])
          /\ links' = [left EXCEPT ![c] = Joined(@, t)] /\ UNCHANGED pool
       \/ /\ op = "update"
          /\ NewConnection(t, "update", callers[t].again, left)
       \/ /\ op = "add"
          /\ \E now \in BOOLEAN : NewConnection(t, "add", now, left)
  /\ UNCHANGED abandoned

NothingToStop(t) ==
  /\ Holds(t, "disconnect") /\ ~InUse(t) /\ links[callers[t].of].client = 0
  /\ Disconnected(t)
  /\ UNCHANGED processes

Stopped(t) ==
  /\ Holds(t, "stop")
  /\ Disconnected(t)
  /\ Closed(links[callers[t].of].client)

-----------------------------------------------------------------------------
(* A run is cancelled while it connects.  The lock is given back, and      *)
(* nothing else: a process it had started, or was ending, stays.           *)
CancelRun(t) ==
  LET c == callers[t].of  k == callers[t].client IN
  /\ callers[t].op \in {"acquire", "call"} /\ callers[t].at \in {"connect", "handshake", "drop"}
  /\ IF links[c].lock = t THEN Leaves(t, c, links[c]) ELSE UNCHANGED links
  /\ Proceeds(t, NoCall)
  /\ abandoned' = abandoned \cup ({k} \cap Servers)
  /\ IF callers[t].at = "drop"
     THEN processes' = [processes EXCEPT ![k].state = IF @ = "closing" THEN "lost" ELSE @]
     ELSE UNCHANGED processes
  /\ UNCHANGED <<pool, registry>>

(* A server ends, or only its output does.                                 *)
ServerEnds(k) ==
  /\ \/ processes[k].state \in Alive /\ processes' = [processes EXCEPT ![k].state = "down"]
     \/ processes[k].state = "up" /\ processes' = [processes EXCEPT ![k].state = "deaf"]
  /\ UNCHANGED <<pool, links, registry, callers, abandoned>>

-----------------------------------------------------------------------------
McpNext ==
  \/ \E t \in Tasks : MayMove(t) /\
       \/ ConnectServer(t) \/ DisconnectServer(t) \/ RestartServer(t) \/ RemoveServer(t)
       \/ UpdateServer(t) \/ AddServer(t) \/ CallTool(t) \/ CallOver(t)
       \/ \E s \in Sessions : AcquireForSession(t, s) \/ ReleaseForSession(t, s)
       \/ Reuse(t) \/ StartProcess(t) \/ Handshake(t) \/ ConnectFails(t) \/ Dropped(t)
       \/ KeepServer(t) \/ StopServer(t) \/ NothingToStop(t) \/ Stopped(t) \/ CancelRun(t)
  \/ ImportConfig
  \/ \E k \in Servers : ServerEnds(k)

McpSpec == McpInit /\ [][McpNext]_mcpVars

-----------------------------------------------------------------------------
(* docs/AGENT.md:254, "tek bir canlı süreç": one live process, which the   *)
(* connection or the task that starts it can end, whatever connects,       *)
(* restarts, calls and stops at the same time - except for what a failed   *)
(* start, a cancellation, or a server without output leaves behind.        *)
OneProcess ==
  LET live == {k \in Servers \ abandoned : processes[k].state \in Alive} IN
  /\ \A j, k \in live : processes[j].of = processes[k].of => j = k
  /\ \A k \in live :
       \/ links[processes[k].of].client = k
       \/ \E t \in Tasks : callers[t].of = processes[k].of /\ callers[t].client = k
                           /\ Holds(t, "handshake")
=============================================================================
