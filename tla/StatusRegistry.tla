--------------------------- MODULE StatusRegistry ---------------------------
(***************************************************************************)
(* Which chat servers the status server believes to be alive: the _servers *)
(* map of StatusServer/StatusServiceImpl, kept up to date by the           *)
(* registration and heartbeat RPCs of each chat server (ChatServer/main,   *)
(* CServer::onTimer, platform/StatusGrpcClient) and by the checker thread. *)
(* Chat servers crash, the status server restarts with an empty map, RPCs  *)
(* are delayed, fail before or after they took effect.                     *)
(*                                                                         *)
(* Time advances in ticks; what is due happens before the next tick.  The  *)
(* handlers of the service hold _servers_mutex, so each is one action.     *)
(***************************************************************************)
EXTENDS Naturals, FiniteSets

CONSTANTS
  Servers,      \* names of the chat servers
  HEARTBEAT,    \* CServer::startTimer, 15 s
  CHECK,        \* the checker's sleep, 10 s
  TIMEOUT,      \* checkHeartbeat, 30 s
  LATENCY,      \* bound: ticks a request or a reply may take
  MaxFailures,  \* bound: RPCs that fail although the status server is up
  MaxCrashes,   \* bound: chat server processes that end
  MaxRestarts   \* bound: restarts of the status server

ASSUME StatusRegistryAssumption ==
  /\ IsFiniteSet(Servers)
  /\ HEARTBEAT \in Nat \ {0} /\ CHECK \in Nat \ {0} /\ TIMEOUT \in Nat
  /\ LATENCY \in Nat
  /\ MaxFailures \in Nat /\ MaxCrashes \in Nat /\ MaxRestarts \in Nat

VARIABLES
  statusUp,   \* the status server is running
  host,       \* _servers: the host registered for a name, "none" if absent
  age,        \* _servers: ticks since last_heartbeat
  checkIn,    \* ticks until the checker thread wakes
  proc,       \* the chat server process
  timer,      \* ticks until onTimer
  rpc,        \* the RPC the process is blocked in
  deadFor,    \* history: ticks since the process ended
  misses,     \* history: heartbeats lost since the last one that counted
  delay,      \* history: ticks spent in calls since then
  failures, crashes, restarts

vars == <<statusUp, host, age, checkIn, proc, timer, rpc, deadFor, misses,
          delay, failures, crashes, restarts>>
bounds == <<failures, crashes, restarts>>

\* Ages beyond this are all the same to the code and to the properties.
Old == TIMEOUT + CHECK + LATENCY + 1
Capped(n) == IF n < Old THEN n + 1 ELSE Old

\* Two misses are as good as many: nothing is promised then.
ManyMisses == 2

NoRpc == [call |-> "none", at |-> "none", wait |-> 0]
Request(c) == [call |-> c, at |-> "request", wait |-> 0]
Reply(c, r) == [call |-> c, at |-> r, wait |-> 0]

Calls == {"register", "heartbeat", "reregister"}
Replies == {"Success", "ServerNotFound", "ServerOffline"}

TypeOK ==
  /\ statusUp \in BOOLEAN
  /\ host \in [Servers -> {"none", "lan", "peer"}]
  /\ age \in [Servers -> 0 .. Old]
  /\ checkIn \in 0 .. CHECK
  /\ proc \in [Servers -> {"down", "starting", "serving"}]
  /\ timer \in [Servers -> 0 .. HEARTBEAT]
  /\ rpc \in [Servers -> [call: Calls \cup {"none"},
                          at: Replies \cup {"none", "request"}, wait: 0 .. LATENCY]]
  /\ deadFor \in [Servers -> 0 .. Old]
  /\ misses \in [Servers -> 0 .. ManyMisses]
  /\ delay \in [Servers -> 0 .. Old]
  /\ failures \in 0 .. MaxFailures
  /\ crashes \in 0 .. MaxCrashes
  /\ restarts \in 0 .. MaxRestarts
  \* main and onTimer run one RPC after the other on one thread
  /\ \A s \in Servers : proc[s] = "starting" => rpc[s].call = "register"
  /\ \A s \in Servers : proc[s] = "serving" /\ rpc[s] # NoRpc => timer[s] = 0

Init ==
  /\ statusUp = TRUE
  /\ host = [s \in Servers |-> "none"]
  /\ age = [s \in Servers |-> Old]
  /\ checkIn = CHECK
  /\ proc = [s \in Servers |-> "down"]
  /\ timer = [s \in Servers |-> 0]
  /\ rpc = [s \in Servers |-> NoRpc]
  /\ deadFor = [s \in Servers |-> Old]
  /\ misses = [s \in Servers |-> ManyMisses]
  /\ delay = [s \in Servers |-> Old]
  /\ failures = 0 /\ crashes = 0 /\ restarts = 0

-----------------------------------------------------------------------------
(***************************************************************************)
(* The chat server process.                                                *)
(***************************************************************************)

\* main: register with the local address before anything else.
StartProcess(s) ==
  /\ proc[s] = "down" /\ rpc[s] = NoRpc
  /\ proc' = [proc EXCEPT ![s] = "starting"]
  /\ rpc' = [rpc EXCEPT ![s] = Request("register")]
  /\ UNCHANGED <<statusUp, host, age, checkIn, timer, deadFor, misses, delay, bounds>>

\* Registration answered: start serving and arm the timer ...
Registered(s) ==
  /\ proc[s] = "starting" /\ rpc[s].at = "Success"
  /\ proc' = [proc EXCEPT ![s] = "serving"]
  /\ rpc' = [rpc EXCEPT ![s] = NoRpc]
  /\ timer' = [timer EXCEPT ![s] = HEARTBEAT]
  /\ UNCHANGED <<statusUp, host, age, checkIn, deadFor, misses, delay, bounds>>

\* ... or exit: registration refused (-3), or the database cannot be
\* initialised after a registration that stays behind (-4).
StartFails(s) ==
  /\ proc[s] = "starting" /\ rpc[s].at \in Replies
  /\ rpc[s].at = "Success" => crashes < MaxCrashes
  /\ crashes' = IF rpc[s].at = "Success" THEN crashes + 1 ELSE crashes
  /\ proc' = [proc EXCEPT ![s] = "down"]
  /\ rpc' = [rpc EXCEPT ![s] = NoRpc]
  /\ deadFor' = [deadFor EXCEPT ![s] = 0]
  /\ UNCHANGED <<statusUp, host, age, checkIn, timer, misses, delay, failures, restarts>>

\* The process ends, by a signal or a crash: nobody deregisters it.  A
\* request already sent may still be served.
EndProcess(s) ==
  /\ proc[s] # "down" /\ crashes < MaxCrashes
  /\ crashes' = crashes + 1
  /\ proc' = [proc EXCEPT ![s] = "down"]
  /\ timer' = [timer EXCEPT ![s] = 0]
  /\ rpc' = [rpc EXCEPT ![s] = IF @.at = "request" THEN @ ELSE NoRpc]
  /\ deadFor' = [deadFor EXCEPT ![s] = 0]
  /\ UNCHANGED <<statusUp, host, age, checkIn, misses, delay, failures, restarts>>

\* A mistake: the timer is armed again before the answer.
OnTimerArmsFirst(s) ==
  /\ proc[s] = "serving" /\ rpc[s] = NoRpc /\ timer[s] = 0
  /\ rpc' = [rpc EXCEPT ![s] = Request("heartbeat")]
  /\ timer' = [timer EXCEPT ![s] = HEARTBEAT]
  /\ UNCHANGED <<statusUp, host, age, checkIn, proc, deadFor, misses, delay, bounds>>

\* onTimer: send a heartbeat; the timer is not armed while it is out.
OnTimer(s) ==
  /\ proc[s] = "serving" /\ rpc[s] = NoRpc /\ timer[s] = 0
  /\ rpc' = [rpc EXCEPT ![s] = Request("heartbeat")]
  /\ UNCHANGED <<statusUp, host, age, checkIn, proc, timer, deadFor, misses, delay, bounds>>

\* A mistake: every failed heartbeat is only logged.
HeartbeatOnlyLogs(s) ==
  /\ proc[s] = "serving" /\ rpc[s].call = "heartbeat" /\ rpc[s].at \in Replies
  /\ rpc' = [rpc EXCEPT ![s] = NoRpc]
  /\ timer' = [timer EXCEPT ![s] = HEARTBEAT]
  /\ UNCHANGED <<statusUp, host, age, checkIn, proc, deadFor, misses, delay, bounds>>

\* ServerNotFound: the registration is gone; register again, with an empty
\* host.  Any other answer, ServerOffline included, is only logged.
HeartbeatAnswered(s) ==
  /\ proc[s] = "serving" /\ rpc[s].call = "heartbeat" /\ rpc[s].at \in Replies
  /\ IF rpc[s].at = "ServerNotFound"
       THEN /\ rpc' = [rpc EXCEPT ![s] = Request("reregister")]
            /\ UNCHANGED timer
       ELSE /\ rpc' = [rpc EXCEPT ![s] = NoRpc]
            /\ timer' = [timer EXCEPT ![s] = HEARTBEAT]
  /\ UNCHANGED <<statusUp, host, age, checkIn, proc, deadFor, misses, delay, bounds>>

\* The answer of the second registration is ignored; the timer is armed.
ReregisterAnswered(s) ==
  /\ proc[s] = "serving" /\ rpc[s].call = "reregister" /\ rpc[s].at \in Replies
  /\ rpc' = [rpc EXCEPT ![s] = NoRpc]
  /\ timer' = [timer EXCEPT ![s] = HEARTBEAT]
  /\ UNCHANGED <<statusUp, host, age, checkIn, proc, deadFor, misses, delay, bounds>>

-----------------------------------------------------------------------------
(***************************************************************************)
(* The status server.                                                      *)
(***************************************************************************)

\* The answer reaches a process that still waits for it.
Answer(s, r) ==
  rpc' = [rpc EXCEPT ![s] = IF proc[s] = "down" THEN NoRpc ELSE Reply(@.call, r)]

\* RegisterChatServer: insert or replace the entry.  An empty host becomes
\* context->peer(), gRPC's "ipv4:address:port" of the caller.
RegisterChatServer(s) ==
  /\ statusUp
  /\ rpc[s].at = "request" /\ rpc[s].call \in {"register", "reregister"}
  /\ host' = [host EXCEPT ![s] = IF rpc[s].call = "register" THEN "lan" ELSE "peer"]
  /\ age' = [age EXCEPT ![s] = 0]
  /\ misses' = [misses EXCEPT ![s] = 0]
  /\ delay' = [delay EXCEPT ![s] = 0]
  /\ Answer(s, "Success")
  /\ UNCHANGED <<statusUp, checkIn, proc, timer, deadFor, bounds>>

\* A mistake: the heartbeat is answered but not recorded.
HeartbeatForgotten(s) ==
  /\ statusUp
  /\ rpc[s].at = "request" /\ rpc[s].call = "heartbeat"
  /\ Answer(s, IF host[s] = "none" THEN "ServerNotFound" ELSE "Success")
  /\ UNCHANGED <<statusUp, host, age, misses, delay, checkIn, proc, timer, deadFor, bounds>>

\* Heartbeat: refresh a registered name, refuse an unknown one.
Heartbeat(s) ==
  /\ statusUp
  /\ rpc[s].at = "request" /\ rpc[s].call = "heartbeat"
  /\ IF host[s] = "none"
       THEN /\ Answer(s, "ServerNotFound")
            /\ UNCHANGED <<age, misses, delay>>
       ELSE /\ Answer(s, "Success")
            /\ age' = [age EXCEPT ![s] = 0]
            /\ misses' = [misses EXCEPT ![s] = 0]
            /\ delay' = [delay EXCEPT ![s] = 0]
  /\ UNCHANGED <<statusUp, host, checkIn, proc, timer, deadFor, bounds>>

\* Mistakes: a longer timeout than agreed, or one that also hits equality.
CheckHeartbeatLate ==
  /\ statusUp /\ checkIn = 0
  /\ host' = [s \in Servers |-> IF age[s] > TIMEOUT + CHECK THEN "none" ELSE host[s]]
  /\ checkIn' = CHECK
  /\ UNCHANGED <<statusUp, age, proc, timer, rpc, deadFor, misses, delay, bounds>>

CheckHeartbeatStrict ==
  /\ statusUp /\ checkIn = 0
  /\ host' = [s \in Servers |-> IF age[s] >= TIMEOUT THEN "none" ELSE host[s]]
  /\ checkIn' = CHECK
  /\ UNCHANGED <<statusUp, age, proc, timer, rpc, deadFor, misses, delay, bounds>>

\* checkHeartbeat: erase every entry older than the timeout.
CheckHeartbeat ==
  /\ statusUp /\ checkIn = 0
  /\ host' = [s \in Servers |-> IF age[s] > TIMEOUT THEN "none" ELSE host[s]]
  /\ checkIn' = CHECK
  /\ UNCHANGED <<statusUp, age, proc, timer, rpc, deadFor, misses, delay, bounds>>

\* The map is in memory only.  Calls under way end with an error.
StatusServerEnds ==
  /\ statusUp /\ restarts < MaxRestarts
  /\ statusUp' = FALSE
  /\ restarts' = restarts + 1
  /\ host' = [s \in Servers |-> "none"]
  /\ misses' = [s \in Servers |-> ManyMisses]
  /\ delay' = [s \in Servers |-> Old]
  /\ rpc' = [s \in Servers |->
        IF rpc[s] = NoRpc \/ proc[s] = "down" THEN NoRpc
        ELSE Reply(rpc[s].call, "ServerOffline")]
  /\ UNCHANGED <<age, checkIn, proc, timer, deadFor, failures, crashes>>

StatusServerStarts ==
  /\ ~statusUp
  /\ statusUp' = TRUE
  /\ checkIn' = CHECK
  /\ UNCHANGED <<host, age, proc, timer, rpc, deadFor, misses, delay, bounds>>

-----------------------------------------------------------------------------
(***************************************************************************)
(* The network and the clock.                                              *)
(***************************************************************************)

\* status.ok() is false: the status server is down ...
CallRefused(s) ==
  /\ ~statusUp /\ rpc[s].at = "request"
  /\ Answer(s, "ServerOffline")
  /\ UNCHANGED <<statusUp, host, age, checkIn, proc, timer, deadFor, misses, delay, bounds>>

\* ... or the request is lost, or the answer to a request that took effect.
RequestLost(s) ==
  /\ rpc[s].at = "request" /\ failures < MaxFailures
  /\ failures' = failures + 1
  /\ misses' = [misses EXCEPT ![s] = IF @ < ManyMisses THEN @ + 1 ELSE @]
  /\ Answer(s, "ServerOffline")
  /\ UNCHANGED <<statusUp, host, age, checkIn, proc, timer, deadFor, delay, crashes, restarts>>

ReplyLost(s) ==
  /\ rpc[s].at \in {"Success", "ServerNotFound"} /\ failures < MaxFailures
  /\ failures' = failures + 1
  /\ misses' = [misses EXCEPT ![s] =
       IF rpc[s].at = "ServerNotFound" /\ @ < ManyMisses THEN @ + 1 ELSE @]
  /\ rpc' = [rpc EXCEPT ![s].at = "ServerOffline"]
  /\ UNCHANGED <<statusUp, host, age, checkIn, proc, timer, deadFor, delay, crashes, restarts>>

Tick ==
  /\ statusUp => checkIn > 0
  /\ \A s \in Servers :
       /\ proc[s] = "serving" /\ rpc[s] = NoRpc => timer[s] > 0
       /\ rpc[s] # NoRpc => rpc[s].wait < LATENCY
  /\ checkIn' = IF statusUp THEN checkIn - 1 ELSE checkIn
  /\ age' = [s \in Servers |-> Capped(age[s])]
  /\ deadFor' = [s \in Servers |-> IF proc[s] = "down" THEN Capped(deadFor[s]) ELSE deadFor[s]]
  /\ timer' = [s \in Servers |-> IF timer[s] > 0 THEN timer[s] - 1 ELSE 0]
  /\ rpc' = [s \in Servers |-> IF rpc[s] = NoRpc THEN NoRpc ELSE [rpc[s] EXCEPT !.wait = @ + 1]]
  /\ delay' = [s \in Servers |-> IF rpc[s] = NoRpc THEN delay[s] ELSE Capped(delay[s])]
  /\ UNCHANGED <<statusUp, host, proc, misses, bounds>>

Environment ==
  \/ \E s \in Servers :
       \/ StartProcess(s) \/ StartFails(s) \/ EndProcess(s)
       \/ RequestLost(s) \/ ReplyLost(s)
  \/ StatusServerEnds
  \/ StatusServerStarts

System ==
  \/ \E s \in Servers :
       \/ Registered(s) \/ OnTimer(s) \/ HeartbeatAnswered(s) \/ ReregisterAnswered(s)
       \/ RegisterChatServer(s) \/ Heartbeat(s) \/ CallRefused(s)
  \/ CheckHeartbeat
  \/ Tick

Next == System \/ Environment

\* Processes that run keep running, calls return, time passes.
Spec == Init /\ [][Next]_vars /\ WF_vars(System) /\ WF_vars(\E s \in Servers : StartFails(s))

-----------------------------------------------------------------------------
\* A chat server that ended is not offered for longer than the timeout plus
\* one period of the checker (and the time a last heartbeat was under way),
\* whatever the phases of the three timers (checkHeartbeat).
BoundedStaleness ==
  \A s \in Servers :
    host[s] # "none" /\ proc[s] = "down" => deadFor[s] <= TIMEOUT + CHECK + LATENCY

\* A serving chat server stays registered as long as the heartbeats lost in
\* a row and the time spent in slow calls leave room within the timeout: one
\* lost heartbeat is survived when calls are fast, but only just, because
\* twice 15 s are compared strictly with 30 s.
LiveStaysRegistered ==
  \A s \in Servers :
    /\ proc[s] = "serving"
    /\ misses[s] < ManyMisses
    /\ (misses[s] + 1) * HEARTBEAT + delay[s] <= TIMEOUT
    => host[s] # "none"

\* "Registration was cut, reconnecting automatically" (CServer.cpp:49): once
\* a chat server and the status server both stay up, the chat server is
\* registered from some time on, after any crash, restart or lost call.
Reconnects ==
  \A s \in Servers :
    <>[](proc[s] = "serving" /\ statusUp) => <>[](host[s] # "none")

\* Clients are given the address under which the chat server registered, as
\* long as no call was lost and the status server was not restarted: the
\* heartbeats of a live server, slow calls and its own restarts never bring
\* about the automatic reconnection, after which it would be gRPC's name of
\* the calling socket instead (CServer.cpp:50).
AddressKept == failures = 0 /\ restarts = 0 => \A s \in Servers : host[s] # "peer"
=============================================================================
