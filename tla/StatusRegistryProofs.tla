------------------------ MODULE StatusRegistryProofs ------------------------
(***************************************************************************)
(* Proofs about the registry of chat servers, for any set of servers, any  *)
(* periods of the three timers and any latency of calls.                   *)
(*                                                                         *)
(* The properties compare ages with the timeout when an entry is used or   *)
(* missing; the invariant accounts for every tick before: how old an entry *)
(* can be at this phase of the checker (CheckOf), how long ago a process   *)
(* can have ended (StaleOf), where the time since the last heartbeat that  *)
(* counted has gone (AgeOf), and that only the checker erases an entry     *)
(* while its server has missed little (ErasedOf).                          *)
(***************************************************************************)
EXTENDS StatusRegistry, TLAPS

Rpc == [call: Calls \cup {"none"}, at: Replies \cup {"none", "request"}, wait: 0 .. LATENCY]

Types ==
  /\ statusUp \in BOOLEAN
  /\ host \in [Servers -> {"none", "lan", "peer"}]
  /\ age \in [Servers -> 0 .. Old]
  /\ checkIn \in 0 .. CHECK
  /\ proc \in [Servers -> {"down", "starting", "serving"}]
  /\ timer \in [Servers -> 0 .. HEARTBEAT]
  /\ rpc \in [Servers -> Rpc]
  /\ deadFor \in [Servers -> 0 .. Old]
  /\ misses \in [Servers -> 0 .. ManyMisses]
  /\ delay \in [Servers -> 0 .. Old]
  /\ failures \in 0 .. MaxFailures
  /\ crashes \in 0 .. MaxCrashes
  /\ restarts \in 0 .. MaxRestarts

\* main and onTimer make one call after the other; a process that ended may
\* have left a request behind.
CallOf(s) ==
  /\ rpc[s].at = "none" \/ rpc[s].call = "none" => rpc[s] = NoRpc
  /\ rpc[s].call \in {"register", "reregister"} => rpc[s].at # "ServerNotFound"
  /\ proc[s] = "starting" => rpc[s].call = "register"
  /\ proc[s] = "serving" => rpc[s] = NoRpc \/ rpc[s].call \in {"heartbeat", "reregister"}
  /\ proc[s] = "serving" /\ rpc[s] # NoRpc => timer[s] = 0
  /\ proc[s] = "down" => rpc[s] = NoRpc \/ rpc[s].at = "request"

\* The map is empty while the status server is down.
DownOf(s) == ~statusUp => host[s] = "none" /\ misses[s] = ManyMisses

\* The checker comes in time: an entry that has outlived the timeout is erased
\* within one period.
CheckOf(s) == host[s] # "none" => age[s] + checkIn <= TIMEOUT + CHECK

\* The last heartbeat of a process that ended counted at most LATENCY later.
StaleOf(s) ==
  proc[s] = "down" =>
    /\ rpc[s] # NoRpc => deadFor[s] <= rpc[s].wait
    /\ host[s] # "none" => deadFor[s] <= age[s] + LATENCY

\* Only the checker erases the entry of a server that has missed little.
ErasedOf(s) == host[s] = "none" /\ misses[s] < ManyMisses => age[s] > TIMEOUT

\* A process that has been registered by its own call.
Counted(s) == proc[s] = "serving" \/ (proc[s] = "starting" /\ rpc[s].at = "Success")

\* The time since the last heartbeat that counted was spent in one period of
\* the timer for each heartbeat missed, in the present one, and in calls.
Missed(s) == IF misses[s] = 0 THEN 0 ELSE HEARTBEAT
Period(s) ==
  IF rpc[s] = NoRpc THEN HEARTBEAT - timer[s]
  ELSE IF rpc[s].at \in {"request", "ServerNotFound"} THEN HEARTBEAT ELSE 0
AgeOf(s) ==
  Counted(s) /\ misses[s] < ManyMisses => age[s] <= Missed(s) + Period(s) + delay[s]

\* A period and the two slowest ways of a call fit into the timeout.
Punctual == HEARTBEAT + 2 * LATENCY <= TIMEOUT

\* Then, while nothing is lost, no heartbeat is refused.
KeptOf(s) ==
  Punctual /\ failures = 0 /\ restarts = 0 =>
    /\ statusUp
    /\ host[s] # "peer" /\ rpc[s].call # "reregister"
    /\ proc[s] = "serving" => rpc[s].at \in {"none", "request", "Success"}
    /\ Counted(s) =>
         /\ misses[s] = 0
         /\ rpc[s] = NoRpc => delay[s] <= LATENCY
         /\ rpc[s].at = "request" => delay[s] <= LATENCY + rpc[s].wait
         /\ rpc[s].at = "Success" => delay[s] <= rpc[s].wait

\* The inductive invariant, server by server.
ServerInv(s) ==
  /\ CallOf(s) /\ DownOf(s) /\ CheckOf(s) /\ StaleOf(s)
  /\ ErasedOf(s) /\ AgeOf(s) /\ KeptOf(s)

RegistryInv == Types /\ \A s \in Servers : ServerInv(s)
-----------------------------------------------------------------------------
(***************************************************************************)
(* Arithmetic of the caps, and the records of calls.                       *)
(***************************************************************************)
LEMMA ConstantFacts ==
  /\ HEARTBEAT \in Nat /\ HEARTBEAT > 0 /\ CHECK \in Nat /\ CHECK > 0
  /\ TIMEOUT \in Nat /\ LATENCY \in Nat
  /\ Old \in Nat /\ Old = TIMEOUT + CHECK + LATENCY + 1
  /\ ManyMisses = 2
BY StatusRegistryAssumption DEF Old, ManyMisses

\* Capped counts up to Old.
LEMMA CappedFacts ==
  ASSUME NEW n \in 0 .. Old
  PROVE  /\ Capped(n) \in 0 .. Old
         /\ Capped(n) >= n /\ Capped(n) <= n + 1
         /\ Capped(n) = n + 1 \/ Capped(n) = Old
BY ConstantFacts DEF Capped

LEMMA RpcFacts ==
  /\ NoRpc \in Rpc /\ NoRpc.at = "none" /\ NoRpc.call = "none" /\ NoRpc.wait = 0
  /\ \A c \in Calls :
       /\ Request(c) \in Rpc /\ Request(c).call = c
       /\ Request(c).at = "request" /\ Request(c).wait = 0
  /\ \A c \in Calls \cup {"none"}, r \in Replies :
       /\ Reply(c, r) \in Rpc /\ Reply(c, r).call = c
       /\ Reply(c, r).at = r /\ Reply(c, r).wait = 0
<1>1. 0 \in 0 .. LATENCY
  BY ConstantFacts
<1>2. NoRpc \in Rpc /\ NoRpc.at = "none" /\ NoRpc.call = "none" /\ NoRpc.wait = 0
  BY <1>1 DEF NoRpc, Rpc
<1>3. ASSUME NEW c \in Calls
      PROVE  /\ Request(c) \in Rpc /\ Request(c).call = c
             /\ Request(c).at = "request" /\ Request(c).wait = 0
  BY <1>1 DEF Request, Rpc
<1>4. ASSUME NEW c \in Calls \cup {"none"}, NEW r \in Replies
      PROVE  /\ Reply(c, r) \in Rpc /\ Reply(c, r).call = c
             /\ Reply(c, r).at = r /\ Reply(c, r).wait = 0
  BY <1>1 DEF Reply, Rpc
<1> QED
  BY <1>2, <1>3, <1>4

LEMMA NamesFacts ==
  /\ Calls = {"register", "heartbeat", "reregister"}
  /\ Replies = {"Success", "ServerNotFound", "ServerOffline"}
BY DEF Calls, Replies

\* The values of one server.
LEMMA ServerTypes ==
  ASSUME Types, NEW s \in Servers
  PROVE  /\ host[s] \in {"none", "lan", "peer"} /\ age[s] \in 0 .. Old
         /\ proc[s] \in {"down", "starting", "serving"} /\ timer[s] \in 0 .. HEARTBEAT
         /\ deadFor[s] \in 0 .. Old /\ misses[s] \in 0 .. ManyMisses /\ delay[s] \in 0 .. Old
         /\ rpc[s] \in Rpc /\ rpc[s].call \in Calls \cup {"none"}
         /\ rpc[s].at \in Replies \cup {"none", "request"} /\ rpc[s].wait \in 0 .. LATENCY
<1>1. rpc[s] \in Rpc
  BY DEF Types
<1>2. /\ rpc[s].call \in Calls \cup {"none"}
      /\ rpc[s].at \in Replies \cup {"none", "request"} /\ rpc[s].wait \in 0 .. LATENCY
  BY <1>1 DEF Rpc
<1> QED
  BY <1>1, <1>2 DEF Types

-----------------------------------------------------------------------------
(***************************************************************************)
(* Steps of one server's process and calls leave the others alone.         *)
(***************************************************************************)
Same(u) ==
  /\ host'[u] = host[u] /\ age'[u] = age[u] /\ proc'[u] = proc[u] /\ timer'[u] = timer[u]
  /\ rpc'[u] = rpc[u] /\ deadFor'[u] = deadFor[u] /\ misses'[u] = misses[u]
  /\ delay'[u] = delay[u]

Only(s) ==
  /\ \A u \in Servers \ {s} : Same(u)
  /\ statusUp' = statusUp /\ checkIn' = checkIn /\ restarts' = restarts
  /\ failures' \in {failures, failures + 1}

LEMMA SameKept ==
  ASSUME RegistryInv, NEW u \in Servers, Same(u),
         statusUp' = statusUp, checkIn' = checkIn, restarts' = restarts,
         failures' \in {failures, failures + 1}
  PROVE  ServerInv(u)'
<1>0. ServerInv(u) /\ failures \in Nat
  BY StatusRegistryAssumption DEF RegistryInv, Types
<1>1. CallOf(u)' /\ DownOf(u)' /\ CheckOf(u)' /\ StaleOf(u)' /\ ErasedOf(u)'
  BY <1>0 DEF Same, ServerInv, CallOf, DownOf, CheckOf, StaleOf, ErasedOf
<1>2. AgeOf(u)'
  BY <1>0 DEF Same, ServerInv, AgeOf, Counted, Missed, Period
<1>3. KeptOf(u)'
  BY <1>0 DEF Same, ServerInv, KeptOf, Counted
<1> QED
  BY <1>1, <1>2, <1>3 DEF ServerInv

LEMMA OnlyKept ==
  ASSUME RegistryInv, NEW s \in Servers, Only(s), Types', ServerInv(s)'
  PROVE  RegistryInv'
<1>1. \A u \in Servers \ {s} : ServerInv(u)'
  BY SameKept DEF Only
<1> QED
  BY <1>1 DEF RegistryInv

-----------------------------------------------------------------------------
(***************************************************************************)
(* The chat server process.                                                *)
(***************************************************************************)
LEMMA StartProcessKeeps ==
  ASSUME RegistryInv, NEW s \in Servers, StartProcess(s)
  PROVE  RegistryInv'
<1>0. Types /\ ServerInv(s)
  BY DEF RegistryInv
<1>1. /\ proc[s] = "down" /\ rpc[s] = NoRpc /\ proc' = [proc EXCEPT ![s] = "starting"]
      /\ rpc' = [rpc EXCEPT ![s] = Request("register")]
      /\ UNCHANGED <<statusUp, host, age, checkIn, timer, deadFor, misses, delay, failures, crashes, restarts>>
  BY DEF StartProcess, bounds
<1>2. /\ Request("register") \in Rpc /\ Request("register").call = "register"
      /\ Request("register").at = "request"
  BY RpcFacts, NamesFacts
<1>3. Types'
  BY <1>0, <1>1, <1>2 DEF Types
<1>4. Only(s)
  BY <1>0, <1>1 DEF Only, Same, Types
<1>5. proc'[s] = "starting" /\ rpc'[s] = Request("register")
  BY <1>0, <1>1 DEF Types
<1>6. CallOf(s)' /\ DownOf(s)' /\ CheckOf(s)' /\ StaleOf(s)' /\ ErasedOf(s)'
  BY <1>0, <1>1, <1>2, <1>5 DEF ServerInv, CallOf, DownOf, CheckOf, StaleOf, ErasedOf
<1>7. AgeOf(s)' /\ KeptOf(s)'
  BY <1>0, <1>1, <1>2, <1>5 DEF ServerInv, AgeOf, KeptOf, Counted
<1> QED
  BY <1>3, <1>4, <1>6, <1>7, OnlyKept DEF ServerInv

LEMMA RegisteredKeeps ==
  ASSUME RegistryInv, NEW s \in Servers, Registered(s)
  PROVE  RegistryInv'
<1>0. Types /\ ServerInv(s)
  BY DEF RegistryInv
<1>1. /\ proc[s] = "starting" /\ rpc[s].at = "Success" /\ proc' = [proc EXCEPT ![s] = "serving"]
      /\ rpc' = [rpc EXCEPT ![s] = NoRpc] /\ timer' = [timer EXCEPT ![s] = HEARTBEAT]
      /\ UNCHANGED <<statusUp, host, age, checkIn, deadFor, misses, delay, failures, crashes, restarts>>
  BY DEF Registered, bounds
<1>2. HEARTBEAT \in 0 .. HEARTBEAT
  BY ConstantFacts
<1>3. Types'
  BY <1>0, <1>1, <1>2, RpcFacts DEF Types
<1>4. Only(s)
  BY <1>0, <1>1 DEF Only, Same, Types
<1>5. proc'[s] = "serving" /\ rpc'[s] = NoRpc /\ timer'[s] = HEARTBEAT
  BY <1>0, <1>1 DEF Types
<1>6. CallOf(s)' /\ DownOf(s)' /\ CheckOf(s)' /\ StaleOf(s)' /\ ErasedOf(s)'
  BY <1>0, <1>1, <1>5, RpcFacts DEF ServerInv, CallOf, DownOf, CheckOf, StaleOf, ErasedOf
<1>7. AgeOf(s)'
  BY <1>0, <1>1, <1>5, RpcFacts, ServerTypes, ConstantFacts
     DEF ServerInv, AgeOf, Counted, Missed, Period
<1>8. KeptOf(s)'
  BY <1>0, <1>1, <1>5, RpcFacts, ServerTypes, ConstantFacts DEF ServerInv, KeptOf, Counted
<1> QED
  BY <1>3, <1>4, <1>6, <1>7, <1>8, OnlyKept DEF ServerInv

LEMMA StartFailsKeeps ==
  ASSUME RegistryInv, NEW s \in Servers, StartFails(s)
  PROVE  RegistryInv'
<1>0. Types /\ ServerInv(s)
  BY DEF RegistryInv
<1>1. /\ proc[s] = "starting" /\ rpc[s].at \in Replies /\ proc' = [proc EXCEPT ![s] = "down"]
      /\ rpc' = [rpc EXCEPT ![s] = NoRpc] /\ deadFor' = [deadFor EXCEPT ![s] = 0]
      /\ UNCHANGED <<statusUp, host, age, checkIn, timer, misses, delay, failures, restarts>>
  BY DEF StartFails
<1>2. crashes' \in 0 .. MaxCrashes
  BY <1>0, StatusRegistryAssumption DEF StartFails, Types
<1>3. Types'
  BY <1>0, <1>1, <1>2, RpcFacts, ConstantFacts DEF Types
<1>4. Only(s)
  BY <1>0, <1>1 DEF Only, Same, Types
<1>5. proc'[s] = "down" /\ rpc'[s] = NoRpc /\ deadFor'[s] = 0
  BY <1>0, <1>1 DEF Types
<1>6. CallOf(s)' /\ DownOf(s)' /\ CheckOf(s)' /\ ErasedOf(s)'
  BY <1>0, <1>1, <1>5, RpcFacts DEF ServerInv, CallOf, DownOf, CheckOf, ErasedOf
<1>7. StaleOf(s)' /\ AgeOf(s)' /\ KeptOf(s)'
  BY <1>0, <1>1, <1>5, RpcFacts, ServerTypes, ConstantFacts
     DEF ServerInv, StaleOf, AgeOf, KeptOf, Counted
<1> QED
  BY <1>3, <1>4, <1>6, <1>7, OnlyKept DEF ServerInv

LEMMA EndProcessKeeps ==
  ASSUME RegistryInv, NEW s \in Servers, EndProcess(s)
  PROVE  RegistryInv'
<1>0. Types /\ ServerInv(s)
  BY DEF RegistryInv
<1>1. /\ proc[s] # "down" /\ proc' = [proc EXCEPT ![s] = "down"]
      /\ timer' = [timer EXCEPT ![s] = 0] /\ deadFor' = [deadFor EXCEPT ![s] = 0]
      /\ rpc' = [rpc EXCEPT ![s] = IF @.at = "request" THEN @ ELSE NoRpc]
      /\ UNCHANGED <<statusUp, host, age, checkIn, misses, delay, failures, restarts>>
  BY DEF EndProcess
<1>2. crashes' \in 0 .. MaxCrashes
  BY <1>0, StatusRegistryAssumption DEF EndProcess, Types
<1>3. /\ proc'[s] = "down" /\ timer'[s] = 0 /\ deadFor'[s] = 0
      /\ rpc'[s] = IF rpc[s].at = "request" THEN rpc[s] ELSE NoRpc
  BY <1>0, <1>1 DEF Types
<1>4. Types'
  <2>1. rpc' \in [Servers -> Rpc]
    BY <1>0, <1>1, RpcFacts DEF Types
  <2>2. /\ 0 \in 0 .. HEARTBEAT /\ 0 \in 0 .. Old
    BY ConstantFacts
  <2> QED
    BY <1>0, <1>1, <1>2, <2>1, <2>2 DEF Types
<1>5. Only(s)
  BY <1>0, <1>1 DEF Only, Same, Types
<1>6. CallOf(s)' /\ DownOf(s)' /\ CheckOf(s)' /\ ErasedOf(s)'
  BY <1>0, <1>1, <1>3, RpcFacts DEF ServerInv, CallOf, DownOf, CheckOf, ErasedOf
<1>7. StaleOf(s)' /\ AgeOf(s)'
  BY <1>0, <1>1, <1>3, RpcFacts, ServerTypes, ConstantFacts
     DEF ServerInv, StaleOf, AgeOf, Counted
<1>8. KeptOf(s)'
  BY <1>0, <1>1, <1>3, RpcFacts DEF ServerInv, KeptOf, Counted
<1> QED
  BY <1>4, <1>5, <1>6, <1>7, <1>8, OnlyKept DEF ServerInv

LEMMA OnTimerKeeps ==
  ASSUME RegistryInv, NEW s \in Servers, OnTimer(s)
  PROVE  RegistryInv'
<1>0. Types /\ ServerInv(s)
  BY DEF RegistryInv
<1>1. /\ proc[s] = "serving" /\ rpc[s] = NoRpc /\ timer[s] = 0
      /\ rpc' = [rpc EXCEPT ![s] = Request("heartbeat")]
      /\ UNCHANGED <<statusUp, host, age, checkIn, proc, timer, deadFor, misses, delay, failures, crashes, restarts>>
  BY DEF OnTimer, bounds
<1>2. /\ Request("heartbeat") \in Rpc /\ Request("heartbeat").call = "heartbeat"
      /\ Request("heartbeat").at = "request" /\ Request("heartbeat").wait = 0
  BY RpcFacts, NamesFacts
<1>3. Types'
  BY <1>0, <1>1, <1>2 DEF Types
<1>4. Only(s)
  BY <1>0, <1>1 DEF Only, Same, Types
<1>5. rpc'[s] = Request("heartbeat") /\ rpc'[s] # NoRpc
  BY <1>0, <1>1, <1>2, RpcFacts DEF Types
<1>6. CallOf(s)' /\ DownOf(s)' /\ CheckOf(s)' /\ StaleOf(s)' /\ ErasedOf(s)'
  BY <1>0, <1>1, <1>2, <1>5 DEF ServerInv, CallOf, DownOf, CheckOf, StaleOf, ErasedOf
<1>7. AgeOf(s)'
  BY <1>0, <1>1, <1>2, <1>5, ServerTypes, ConstantFacts
     DEF ServerInv, AgeOf, Counted, Missed, Period
<1>8. KeptOf(s)'
  BY <1>0, <1>1, <1>2, <1>5, ServerTypes, ConstantFacts DEF ServerInv, KeptOf, Counted
<1> QED
  BY <1>3, <1>4, <1>6, <1>7, <1>8, OnlyKept DEF ServerInv

\* The call ends and the timer is armed: both answers of onTimer do this.
TimerArmed(s) ==
  /\ proc[s] = "serving" /\ rpc[s].at \in {"Success", "ServerOffline"}
  /\ rpc' = [rpc EXCEPT ![s] = NoRpc] /\ timer' = [timer EXCEPT ![s] = HEARTBEAT]
  /\ UNCHANGED <<statusUp, host, age, checkIn, proc, deadFor, misses, delay, failures, crashes, restarts>>

LEMMA TimerArmedKeeps ==
  ASSUME RegistryInv, NEW s \in Servers, TimerArmed(s)
  PROVE  RegistryInv'
<1>0. Types /\ ServerInv(s)
  BY DEF RegistryInv
<1>1. HEARTBEAT \in 0 .. HEARTBEAT
  BY ConstantFacts
<1>2. Types'
  BY <1>0, <1>1, RpcFacts DEF Types, TimerArmed
<1>3. Only(s)
  BY <1>0 DEF Only, Same, Types, TimerArmed
<1>4. rpc'[s] = NoRpc /\ timer'[s] = HEARTBEAT
  BY <1>0 DEF Types, TimerArmed
<1>5. CallOf(s)' /\ DownOf(s)' /\ CheckOf(s)' /\ StaleOf(s)' /\ ErasedOf(s)'
  BY <1>0, <1>4, RpcFacts
     DEF TimerArmed, ServerInv, CallOf, DownOf, CheckOf, StaleOf, ErasedOf
<1>6. AgeOf(s)'
  BY <1>0, <1>4, RpcFacts, ServerTypes, ConstantFacts
     DEF TimerArmed, ServerInv, AgeOf, Counted, Missed, Period
<1>7. KeptOf(s)'
  BY <1>0, <1>4, RpcFacts, ServerTypes, ConstantFacts
     DEF TimerArmed, ServerInv, KeptOf, Counted
<1> QED
  BY <1>2, <1>3, <1>5, <1>6, <1>7, OnlyKept DEF ServerInv

LEMMA HeartbeatAnsweredKeeps ==
  ASSUME RegistryInv, NEW s \in Servers, HeartbeatAnswered(s)
  PROVE  RegistryInv'
<1>0. Types /\ ServerInv(s)
  BY DEF RegistryInv
<1>1. /\ proc[s] = "serving" /\ rpc[s].call = "heartbeat" /\ rpc[s].at \in Replies
      /\ UNCHANGED <<statusUp, host, age, checkIn, proc, deadFor, misses, delay, failures, crashes, restarts>>
  BY DEF HeartbeatAnswered, bounds
<1>2. CASE rpc[s].at # "ServerNotFound"
  BY <1>1, <1>2, NamesFacts, TimerArmedKeeps DEF HeartbeatAnswered, TimerArmed
<1>3. CASE rpc[s].at = "ServerNotFound"
  <2>1. rpc' = [rpc EXCEPT ![s] = Request("reregister")] /\ timer' = timer
    BY <1>3 DEF HeartbeatAnswered
  <2>2. /\ Request("reregister") \in Rpc /\ Request("reregister").call = "reregister"
        /\ Request("reregister").at = "request"
    BY RpcFacts, NamesFacts
  <2>3. Types'
    BY <1>0, <1>1, <2>1, <2>2 DEF Types
  <2>4. Only(s)
    BY <1>0, <1>1, <2>1 DEF Only, Same, Types
  <2>5. rpc'[s] = Request("reregister") /\ rpc'[s] # NoRpc /\ rpc[s] # NoRpc
    BY <1>0, <1>1, <1>3, <2>1, <2>2, RpcFacts DEF Types
  <2>6. CallOf(s)' /\ DownOf(s)' /\ CheckOf(s)' /\ StaleOf(s)' /\ ErasedOf(s)'
    BY <1>0, <1>1, <2>1, <2>2, <2>5
       DEF ServerInv, CallOf, DownOf, CheckOf, StaleOf, ErasedOf
  <2>7. AgeOf(s)'
    BY <1>0, <1>1, <1>3, <2>1, <2>2, <2>5 DEF ServerInv, AgeOf, Counted, Missed, Period
  <2>8. KeptOf(s)'
    BY <1>0, <1>1, <1>3, <2>1 DEF ServerInv, KeptOf
  <2> QED
    BY <2>3, <2>4, <2>6, <2>7, <2>8, OnlyKept DEF ServerInv
<1> QED
  BY <1>2, <1>3

LEMMA ReregisterAnsweredKeeps ==
  ASSUME RegistryInv, NEW s \in Servers, ReregisterAnswered(s)
  PROVE  RegistryInv'
<1>1. CallOf(s)
  BY DEF RegistryInv, ServerInv
<1>2. rpc[s].at \in {"Success", "ServerOffline"}
  BY <1>1, NamesFacts DEF CallOf, ReregisterAnswered
<1> QED
  BY <1>2, TimerArmedKeeps DEF ReregisterAnswered, TimerArmed, bounds
-----------------------------------------------------------------------------
(***************************************************************************)
(* The status server and failing calls.                                    *)
(***************************************************************************)

\* The answer r to the call of s, for a process that still waits for it.
LEMMA AnswerFacts ==
  ASSUME RegistryInv, NEW s \in Servers, NEW r \in Replies, rpc[s].at = "request", Answer(s, r)
  PROVE  /\ rpc' \in [Servers -> Rpc] /\ \A u \in Servers \ {s} : rpc'[u] = rpc[u]
         /\ rpc[s] # NoRpc /\ rpc[s].call \in Calls
         /\ proc[s] = "down" => rpc'[s] = NoRpc
         /\ proc[s] # "down" => /\ rpc'[s] # NoRpc /\ rpc'[s].call = rpc[s].call
                                /\ rpc'[s].at = r /\ rpc'[s].wait = 0
<1>0. Types /\ CallOf(s)
  BY DEF RegistryInv, ServerInv
<1>1. rpc[s] # NoRpc /\ rpc[s].call \in Calls
  BY <1>0, RpcFacts, ServerTypes DEF CallOf
<1>2. rpc' = [rpc EXCEPT ![s] = IF proc[s] = "down" THEN NoRpc ELSE Reply(rpc[s].call, r)]
  BY DEF Answer
<1>3. /\ Reply(rpc[s].call, r) \in Rpc /\ Reply(rpc[s].call, r).call = rpc[s].call
      /\ Reply(rpc[s].call, r).at = r /\ Reply(rpc[s].call, r).wait = 0 /\ r # "none"
  BY <1>1, RpcFacts, NamesFacts
<1>4. rpc' \in [Servers -> Rpc] /\ \A u \in Servers \ {s} : rpc'[u] = rpc[u]
  BY <1>0, <1>2, <1>3, RpcFacts DEF Types
<1>5. rpc'[s] = IF proc[s] = "down" THEN NoRpc ELSE Reply(rpc[s].call, r)
  BY <1>0, <1>2 DEF Types
<1> QED
  BY <1>1, <1>3, <1>4, <1>5, RpcFacts

\* An entry is written: at a registration and at a heartbeat that counts.
Recorded(s) ==
  /\ statusUp /\ rpc[s].at = "request" /\ Answer(s, "Success")
  /\ host' = [host EXCEPT ![s] = host'[s]] /\ host'[s] \in {"lan", "peer"}
  /\ rpc[s].call # "reregister" /\ host[s] # "peer" => host'[s] # "peer"
  /\ age' = [age EXCEPT ![s] = 0]
  /\ misses' = [misses EXCEPT ![s] = 0]
  /\ delay' = [delay EXCEPT ![s] = 0]
  /\ UNCHANGED <<statusUp, checkIn, proc, timer, deadFor, failures, crashes, restarts>>

LEMMA RecordedKeeps ==
  ASSUME RegistryInv, NEW s \in Servers, Recorded(s)
  PROVE  RegistryInv'
<1>0. Types /\ ServerInv(s)
  BY DEF RegistryInv
<1>1. /\ rpc' \in [Servers -> Rpc] /\ \A u \in Servers \ {s} : rpc'[u] = rpc[u]
      /\ rpc[s] # NoRpc /\ rpc[s].call \in Calls
      /\ proc[s] = "down" => rpc'[s] = NoRpc
      /\ proc[s] # "down" => /\ rpc'[s] # NoRpc /\ rpc'[s].call = rpc[s].call
                             /\ rpc'[s].at = "Success" /\ rpc'[s].wait = 0
  BY AnswerFacts, NamesFacts DEF Recorded
<1>2. 0 \in 0 .. Old /\ 0 \in 0 .. ManyMisses
  BY ConstantFacts
<1>3. Types'
  BY <1>0, <1>1, <1>2 DEF Types, Recorded
<1>4. Only(s)
  BY <1>0, <1>1 DEF Only, Same, Types, Recorded
<1>5. age'[s] = 0 /\ misses'[s] = 0 /\ delay'[s] = 0
  BY <1>0 DEF Types, Recorded
<1>6. CallOf(s)' /\ DownOf(s)' /\ ErasedOf(s)'
  BY <1>0, <1>1, RpcFacts, NamesFacts DEF ServerInv, CallOf, DownOf, ErasedOf, Recorded
<1>7. CheckOf(s)' /\ StaleOf(s)'
  <2>1. proc[s] = "down" => deadFor[s] <= LATENCY
    BY <1>0, <1>1, ServerTypes, ConstantFacts DEF ServerInv, StaleOf
  <2> QED
    BY <1>0, <1>1, <1>5, <2>1, ConstantFacts DEF Types, CheckOf, StaleOf, Recorded
<1>8. AgeOf(s)'
  <2>1. Counted(s)' => Period(s)' = 0
    BY <1>0, <1>1, RpcFacts DEF Counted, Period, Recorded
  <2> QED
    BY <1>5, <2>1, ConstantFacts DEF AgeOf, Missed
<1>9. KeptOf(s)'
  BY <1>0, <1>1, <1>5, RpcFacts DEF ServerInv, KeptOf, Counted, Recorded
<1> QED
  BY <1>3, <1>4, <1>6, <1>7, <1>8, <1>9, OnlyKept DEF ServerInv

LEMMA RegisterChatServerKeeps ==
  ASSUME RegistryInv, NEW s \in Servers, RegisterChatServer(s)
  PROVE  RegistryInv'
<1>1. host \in [Servers -> {"none", "lan", "peer"}]
  BY DEF RegistryInv, Types
<1>2. host'[s] = IF rpc[s].call = "register" THEN "lan" ELSE "peer"
  BY <1>1 DEF RegisterChatServer
<1>3. /\ host' = [host EXCEPT ![s] = host'[s]] /\ host'[s] \in {"lan", "peer"}
      /\ rpc[s].call # "reregister" => host'[s] # "peer"
  BY <1>1, <1>2 DEF RegisterChatServer
<1> QED
  BY <1>3, RecordedKeeps DEF RegisterChatServer, Recorded, bounds

LEMMA HeartbeatKeeps ==
  ASSUME RegistryInv, NEW s \in Servers, Heartbeat(s)
  PROVE  RegistryInv'
<1>0. Types /\ ServerInv(s)
  BY DEF RegistryInv
<1>1. /\ statusUp /\ rpc[s].at = "request" /\ rpc[s].call = "heartbeat"
      /\ UNCHANGED <<statusUp, host, checkIn, proc, timer, deadFor, failures, crashes, restarts>>
  BY DEF Heartbeat, bounds
<1>2. CASE host[s] # "none"
  <2>1. /\ host' = [host EXCEPT ![s] = host'[s]] /\ host'[s] \in {"lan", "peer"}
        /\ host'[s] = host[s]
    BY <1>0, <1>1, <1>2 DEF Types
  <2> QED
    BY <1>1, <1>2, <2>1, RecordedKeeps DEF Heartbeat, Recorded
<1>3. CASE host[s] = "none"
  <2>1. Answer(s, "ServerNotFound") /\ UNCHANGED <<age, misses, delay>>
    BY <1>3 DEF Heartbeat
  <2>2. /\ rpc' \in [Servers -> Rpc] /\ \A u \in Servers \ {s} : rpc'[u] = rpc[u]
        /\ rpc[s] # NoRpc /\ rpc[s].call \in Calls
        /\ proc[s] = "down" => rpc'[s] = NoRpc
        /\ proc[s] # "down" => /\ rpc'[s] # NoRpc /\ rpc'[s].call = rpc[s].call
                               /\ rpc'[s].at = "ServerNotFound" /\ rpc'[s].wait = 0
    BY <1>1, <2>1, AnswerFacts, NamesFacts
  <2>3. Types'
    BY <1>0, <1>1, <2>1, <2>2 DEF Types
  <2>4. Only(s)
    BY <1>0, <1>1, <2>1, <2>2 DEF Only, Same, Types
  <2>5. CallOf(s)' /\ DownOf(s)' /\ ErasedOf(s)' /\ CheckOf(s)' /\ StaleOf(s)'
    BY <1>0, <1>1, <1>3, <2>1, <2>2, RpcFacts
       DEF ServerInv, CallOf, DownOf, ErasedOf, CheckOf, StaleOf
  <2>6. AgeOf(s)'
    BY <1>0, <1>1, <2>1, <2>2 DEF ServerInv, AgeOf, CallOf, Counted, Missed, Period
  <2>7. Punctual /\ failures = 0 /\ restarts = 0 => proc[s] # "serving"
    <3> SUFFICES ASSUME Punctual, failures = 0, restarts = 0, proc[s] = "serving" PROVE FALSE
      OBVIOUS
    <3>1. misses[s] = 0 /\ delay[s] <= LATENCY + rpc[s].wait
      BY <1>0, <1>1 DEF ServerInv, KeptOf, Counted
    <3>2. age[s] <= HEARTBEAT + delay[s]
      BY <1>0, <1>1, <2>2, <3>1, ServerTypes, ConstantFacts
         DEF ServerInv, AgeOf, Counted, Missed, Period
    <3>3. age[s] > TIMEOUT
      BY <1>0, <1>3, <3>1, ConstantFacts DEF ServerInv, ErasedOf
    <3> QED
      BY <1>0, <3>1, <3>2, <3>3, ServerTypes, ConstantFacts DEF Punctual
  <2>8. KeptOf(s)'
    BY <1>0, <1>1, <2>1, <2>2, <2>7, RpcFacts DEF ServerInv, KeptOf, Counted
  <2> QED
    BY <2>3, <2>4, <2>5, <2>6, <2>8, OnlyKept DEF ServerInv
<1> QED
  BY <1>2, <1>3

LEMMA CheckHeartbeatKeeps ==
  ASSUME RegistryInv, CheckHeartbeat
  PROVE  RegistryInv'
<1>0. Types
  BY DEF RegistryInv
<1>1. /\ statusUp /\ checkIn = 0 /\ checkIn' = CHECK
      /\ host' = [s \in Servers |-> IF age[s] > TIMEOUT THEN "none" ELSE host[s]]
      /\ UNCHANGED <<statusUp, age, proc, timer, rpc, deadFor, misses, delay, failures, crashes, restarts>>
  BY DEF CheckHeartbeat, bounds
<1>2. Types'
  <2>1. host' \in [Servers -> {"none", "lan", "peer"}] /\ checkIn' \in 0 .. CHECK
    BY <1>0, <1>1, ConstantFacts DEF Types
  <2> QED
    BY <1>0, <1>1, <2>1 DEF Types
<1>3. ASSUME NEW s \in Servers PROVE ServerInv(s)'
  <2>0. ServerInv(s)
    BY DEF RegistryInv
  <2>1. host'[s] = IF age[s] > TIMEOUT THEN "none" ELSE host[s]
    BY <1>1
  <2>2. CallOf(s)' /\ DownOf(s)'
    BY <1>1, <2>0 DEF ServerInv, CallOf, DownOf
  <2>3. CheckOf(s)' /\ ErasedOf(s)' /\ StaleOf(s)'
    BY <1>0, <1>1, <2>0, <2>1, ServerTypes, ConstantFacts
       DEF ServerInv, CheckOf, ErasedOf, StaleOf
  <2>4. AgeOf(s)'
    BY <1>1, <2>0 DEF ServerInv, AgeOf, Counted, Missed, Period
  <2>5. KeptOf(s)'
    BY <1>1, <2>0, <2>1 DEF ServerInv, KeptOf, Counted
  <2> QED
    BY <2>2, <2>3, <2>4, <2>5 DEF ServerInv
<1> QED
  BY <1>2, <1>3 DEF RegistryInv

LEMMA StatusServerEndsKeeps ==
  ASSUME RegistryInv, StatusServerEnds
  PROVE  RegistryInv'
<1>0. Types
  BY DEF RegistryInv
<1>1. /\ statusUp' = FALSE /\ restarts < MaxRestarts /\ restarts' = restarts + 1
      /\ host' = [s \in Servers |-> "none"]
      /\ misses' = [s \in Servers |-> ManyMisses]
      /\ delay' = [s \in Servers |-> Old]
      /\ rpc' = [s \in Servers |->
            IF rpc[s] = NoRpc \/ proc[s] = "down" THEN NoRpc
            ELSE Reply(rpc[s].call, "ServerOffline")]
      /\ UNCHANGED <<age, checkIn, proc, timer, deadFor, failures, crashes>>
  BY DEF StatusServerEnds
<1>2. ASSUME NEW s \in Servers
      PROVE  /\ host'[s] = "none" /\ misses'[s] = ManyMisses /\ rpc'[s] \in Rpc
             /\ rpc[s] = NoRpc \/ proc[s] = "down" => rpc'[s] = NoRpc
             /\ rpc[s] # NoRpc /\ proc[s] # "down" =>
                  /\ rpc'[s].call = rpc[s].call /\ rpc'[s].at = "ServerOffline"
                  /\ rpc[s].call # "none"
  <2>1. CallOf(s) /\ rpc[s].call \in Calls \cup {"none"} /\ "ServerOffline" \in Replies
    BY <1>0, ServerTypes, NamesFacts DEF RegistryInv, ServerInv
  <2>2. rpc'[s] = IF rpc[s] = NoRpc \/ proc[s] = "down" THEN NoRpc
                  ELSE Reply(rpc[s].call, "ServerOffline")
    BY <1>1
  <2> QED
    BY <1>1, <2>1, <2>2, RpcFacts DEF CallOf
<1>3. Types'
  <2>1. rpc' \in [Servers -> Rpc]
    BY <1>1, <1>2
  <2>2. misses' \in [Servers -> 0 .. ManyMisses] /\ delay' \in [Servers -> 0 .. Old]
    BY <1>1, ConstantFacts
  <2>3. restarts' \in 0 .. MaxRestarts
    BY <1>0, <1>1, StatusRegistryAssumption DEF Types
  <2> QED
    BY <1>0, <1>1, <2>1, <2>2, <2>3 DEF Types
<1>4. ASSUME NEW s \in Servers PROVE ServerInv(s)'
  <2>0. CallOf(s)
    BY DEF RegistryInv, ServerInv
  <2>1. CallOf(s)'
    BY <1>1, <1>2, <2>0, RpcFacts DEF CallOf
  <2>2. DownOf(s)' /\ CheckOf(s)' /\ StaleOf(s)' /\ ErasedOf(s)' /\ AgeOf(s)'
    BY <1>1, <1>2, ConstantFacts DEF DownOf, CheckOf, StaleOf, ErasedOf, AgeOf
  <2>3. KeptOf(s)'
    BY <1>0, <1>1, StatusRegistryAssumption DEF KeptOf, Types
  <2> QED
    BY <2>1, <2>2, <2>3 DEF ServerInv
<1> QED
  BY <1>3, <1>4 DEF RegistryInv

LEMMA StatusServerStartsKeeps ==
  ASSUME RegistryInv, StatusServerStarts
  PROVE  RegistryInv'
<1>0. Types
  BY DEF RegistryInv
<1>1. /\ ~statusUp /\ statusUp' = TRUE /\ checkIn' = CHECK
      /\ UNCHANGED <<host, age, proc, timer, rpc, deadFor, misses, delay, failures, crashes, restarts>>
  BY DEF StatusServerStarts, bounds
<1>2. Types'
  BY <1>0, <1>1, ConstantFacts DEF Types
<1>3. ASSUME NEW s \in Servers PROVE ServerInv(s)'
  <2>0. ServerInv(s) /\ host[s] = "none"
    BY <1>1 DEF RegistryInv, ServerInv, DownOf
  <2>1. CallOf(s)' /\ DownOf(s)' /\ CheckOf(s)' /\ StaleOf(s)' /\ ErasedOf(s)'
    BY <1>1, <2>0 DEF ServerInv, CallOf, DownOf, CheckOf, StaleOf, ErasedOf
  <2>2. AgeOf(s)' /\ KeptOf(s)'
    BY <1>1, <2>0 DEF ServerInv, AgeOf, KeptOf, Counted, Missed, Period
  <2> QED
    BY <2>1, <2>2 DEF ServerInv
<1> QED
  BY <1>2, <1>3 DEF RegistryInv

LEMMA CallRefusedKeeps ==
  ASSUME RegistryInv, NEW s \in Servers, CallRefused(s)
  PROVE  RegistryInv'
<1>0. Types /\ ServerInv(s)
  BY DEF RegistryInv
<1>1. /\ ~statusUp /\ rpc[s].at = "request" /\ Answer(s, "ServerOffline")
      /\ UNCHANGED <<statusUp, host, age, checkIn, proc, timer, deadFor, misses, delay, failures, crashes, restarts>>
  BY DEF CallRefused, bounds
<1>2. /\ rpc' \in [Servers -> Rpc] /\ \A u \in Servers \ {s} : rpc'[u] = rpc[u]
      /\ rpc[s] # NoRpc /\ rpc[s].call \in Calls
      /\ proc[s] = "down" => rpc'[s] = NoRpc
      /\ proc[s] # "down" => /\ rpc'[s] # NoRpc /\ rpc'[s].call = rpc[s].call
                             /\ rpc'[s].at = "ServerOffline" /\ rpc'[s].wait = 0
  BY <1>1, AnswerFacts, NamesFacts
<1>3. Types'
  BY <1>0, <1>1, <1>2 DEF Types
<1>4. Only(s)
  BY <1>0, <1>1, <1>2 DEF Only, Same, Types
<1>5. CallOf(s)' /\ DownOf(s)' /\ CheckOf(s)' /\ StaleOf(s)' /\ ErasedOf(s)'
  BY <1>0, <1>1, <1>2, RpcFacts, NamesFacts
     DEF ServerInv, CallOf, DownOf, CheckOf, StaleOf, ErasedOf
<1>6. AgeOf(s)' /\ KeptOf(s)'
  BY <1>0, <1>1, <1>2, ConstantFacts DEF ServerInv, DownOf, AgeOf, KeptOf, Counted
<1> QED
  BY <1>3, <1>4, <1>5, <1>6, OnlyKept DEF ServerInv
LEMMA RequestLostKeeps ==
  ASSUME RegistryInv, NEW s \in Servers, RequestLost(s)
  PROVE  RegistryInv'
<1>0. Types /\ ServerInv(s)
  BY DEF RegistryInv
<1>1. /\ rpc[s].at = "request" /\ Answer(s, "ServerOffline")
      /\ failures < MaxFailures /\ failures' = failures + 1
      /\ misses' = [misses EXCEPT ![s] = IF @ < ManyMisses THEN @ + 1 ELSE @]
      /\ UNCHANGED <<statusUp, host, age, checkIn, proc, timer, deadFor, delay, crashes, restarts>>
  BY DEF RequestLost
<1>2. /\ rpc' \in [Servers -> Rpc] /\ \A u \in Servers \ {s} : rpc'[u] = rpc[u]
      /\ rpc[s] # NoRpc /\ rpc[s].call \in Calls
      /\ proc[s] = "down" => rpc'[s] = NoRpc
      /\ proc[s] # "down" => /\ rpc'[s] # NoRpc /\ rpc'[s].call = rpc[s].call
                             /\ rpc'[s].at = "ServerOffline" /\ rpc'[s].wait = 0
  BY <1>1, AnswerFacts, NamesFacts
<1>3. misses'[s] = IF misses[s] < 2 THEN misses[s] + 1 ELSE misses[s]
  BY <1>0, <1>1, ConstantFacts DEF Types
<1>4. Types'
  <2>1. misses' \in [Servers -> 0 .. ManyMisses]
    BY <1>0, <1>1, ConstantFacts DEF Types
  <2>2. failures' \in 0 .. MaxFailures
    BY <1>0, <1>1, StatusRegistryAssumption DEF Types
  <2> QED
    BY <1>0, <1>1, <1>2, <2>1, <2>2 DEF Types
<1>5. Only(s)
  BY <1>0, <1>1, <1>2 DEF Only, Same, Types
<1>6. CallOf(s)' /\ CheckOf(s)' /\ StaleOf(s)'
  BY <1>0, <1>1, <1>2, RpcFacts, NamesFacts DEF ServerInv, CallOf, CheckOf, StaleOf
<1>7. DownOf(s)' /\ ErasedOf(s)'
  BY <1>0, <1>1, <1>3, ServerTypes, ConstantFacts DEF ServerInv, DownOf, ErasedOf
<1>8. AgeOf(s)'
  <2> SUFFICES ASSUME Counted(s)', misses'[s] < ManyMisses
               PROVE  age'[s] <= Missed(s)' + Period(s)' + delay'[s]
    BY DEF AgeOf
  <2>1. proc[s] = "serving" /\ misses[s] = 0 /\ misses'[s] = 1
    BY <1>0, <1>1, <1>2, <1>3, ServerTypes, ConstantFacts, RpcFacts DEF Counted
  <2>2. age[s] <= HEARTBEAT + delay[s]
    BY <1>0, <1>1, <1>2, <2>1, ServerTypes, ConstantFacts
       DEF ServerInv, AgeOf, Counted, Missed, Period
  <2>3. Missed(s)' = HEARTBEAT /\ Period(s)' = 0
    BY <1>2, <2>1 DEF Missed, Period
  <2> QED
    BY <1>0, <1>1, <2>2, <2>3, ServerTypes, ConstantFacts
<1>9. KeptOf(s)'
  BY <1>0, <1>1, StatusRegistryAssumption DEF KeptOf, Types
<1> QED
  BY <1>4, <1>5, <1>6, <1>7, <1>8, <1>9, OnlyKept DEF ServerInv

LEMMA ReplyLostKeeps ==
  ASSUME RegistryInv, NEW s \in Servers, ReplyLost(s)
  PROVE  RegistryInv'
<1>0. Types /\ ServerInv(s)
  BY DEF RegistryInv
<1>1. /\ rpc[s].at \in {"Success", "ServerNotFound"}
      /\ failures < MaxFailures /\ failures' = failures + 1
      /\ misses' = [misses EXCEPT ![s] =
           IF rpc[s].at = "ServerNotFound" /\ @ < ManyMisses THEN @ + 1 ELSE @]
      /\ rpc' = [rpc EXCEPT ![s].at = "ServerOffline"]
      /\ UNCHANGED <<statusUp, host, age, checkIn, proc, timer, deadFor, delay, crashes, restarts>>
  BY DEF ReplyLost
<1>2. /\ rpc' \in [Servers -> Rpc] /\ \A u \in Servers \ {s} : rpc'[u] = rpc[u]
      /\ rpc[s] # NoRpc /\ rpc'[s] # NoRpc
      /\ rpc'[s].call = rpc[s].call /\ rpc'[s].at = "ServerOffline"
  <2>1. rpc[s] \in Rpc /\ rpc[s] # NoRpc
    BY <1>0, <1>1, ServerTypes, RpcFacts
  <2> DEFINE new == [rpc[s] EXCEPT !.at = "ServerOffline"]
  <2>2. new \in Rpc /\ new.call = rpc[s].call /\ new.at = "ServerOffline"
    BY <2>1, NamesFacts DEF Rpc
  <2> HIDE DEF new
  <2>3. rpc' = [rpc EXCEPT ![s] = new]
    BY <1>1 DEF new
  <2> QED
    BY <1>0, <2>1, <2>2, <2>3, RpcFacts DEF Types
<1>3. misses'[s] = IF rpc[s].at = "ServerNotFound" /\ misses[s] < 2 THEN misses[s] + 1
                   ELSE misses[s]
  BY <1>0, <1>1, ConstantFacts DEF Types
<1>4. Types'
  <2>1. misses' \in [Servers -> 0 .. ManyMisses]
    BY <1>0, <1>1, ConstantFacts DEF Types
  <2>2. failures' \in 0 .. MaxFailures
    BY <1>0, <1>1, StatusRegistryAssumption DEF Types
  <2> QED
    BY <1>0, <1>1, <1>2, <2>1, <2>2 DEF Types
<1>5. Only(s)
  BY <1>0, <1>1, <1>2 DEF Only, Same, Types
<1>6. proc[s] # "down"
  BY <1>0, <1>1, <1>2 DEF ServerInv, CallOf
<1>7. CallOf(s)' /\ CheckOf(s)' /\ StaleOf(s)'
  BY <1>0, <1>1, <1>2, <1>6, RpcFacts DEF ServerInv, CallOf, CheckOf, StaleOf
<1>8. DownOf(s)' /\ ErasedOf(s)'
  BY <1>0, <1>1, <1>3, ServerTypes, ConstantFacts DEF ServerInv, DownOf, ErasedOf
<1>9. AgeOf(s)'
  <2> SUFFICES ASSUME Counted(s)', misses'[s] < ManyMisses
               PROVE  age'[s] <= Missed(s)' + Period(s)' + delay'[s]
    BY DEF AgeOf
  <2>1. proc[s] = "serving" /\ Period(s)' = 0
    BY <1>1, <1>2 DEF Counted, Period
  <2>2. CASE rpc[s].at = "Success"
    <3>1. age[s] <= Missed(s) + delay[s] /\ misses'[s] = misses[s]
      BY <1>0, <1>2, <1>3, <2>1, <2>2, ServerTypes, ConstantFacts
         DEF ServerInv, AgeOf, Counted, Missed, Period
    <3> QED
      BY <1>0, <1>1, <2>1, <3>1, ServerTypes, ConstantFacts DEF Missed
  <2>3. CASE rpc[s].at = "ServerNotFound"
    <3>1. misses[s] = 0 /\ misses'[s] = 1
      BY <1>0, <1>3, <2>3, ServerTypes, ConstantFacts
    <3>2. age[s] <= HEARTBEAT + delay[s]
      BY <1>0, <1>2, <2>1, <2>3, <3>1, ServerTypes, ConstantFacts
         DEF ServerInv, AgeOf, Counted, Missed, Period
    <3>3. Missed(s)' = HEARTBEAT
      BY <3>1 DEF Missed
    <3> QED
      BY <1>0, <1>1, <2>1, <3>2, <3>3, ServerTypes, ConstantFacts
  <2> QED
    BY <1>1, <2>2, <2>3
<1>10. KeptOf(s)'
  BY <1>0, <1>1, StatusRegistryAssumption DEF KeptOf, Types
<1> QED
  BY <1>4, <1>5, <1>7, <1>8, <1>9, <1>10, OnlyKept DEF ServerInv

-----------------------------------------------------------------------------
(***************************************************************************)
(* The clock.                                                              *)
(***************************************************************************)
LEMMA TickKeeps ==
  ASSUME RegistryInv, Tick
  PROVE  RegistryInv'
<1>0. Types
  BY DEF RegistryInv
<1>1. /\ statusUp => checkIn > 0
      /\ checkIn' = IF statusUp THEN checkIn - 1 ELSE checkIn
      /\ UNCHANGED <<statusUp, host, proc, misses, failures, crashes, restarts>>
  BY DEF Tick, bounds
<1>2. ASSUME NEW s \in Servers
      PROVE  /\ proc[s] = "serving" /\ rpc[s] = NoRpc => timer[s] > 0
             /\ age'[s] = Capped(age[s])
             /\ deadFor'[s] = IF proc[s] = "down" THEN Capped(deadFor[s]) ELSE deadFor[s]
             /\ timer'[s] = IF timer[s] > 0 THEN timer[s] - 1 ELSE 0
             /\ delay'[s] = IF rpc[s] = NoRpc THEN delay[s] ELSE Capped(delay[s])
  BY DEF Tick
<1>3. ASSUME NEW s \in Servers
      PROVE  /\ rpc'[s] \in Rpc
             /\ rpc[s] = NoRpc => rpc'[s] = NoRpc
             /\ rpc[s] # NoRpc => /\ rpc'[s] # NoRpc /\ rpc'[s].call = rpc[s].call
                                  /\ rpc'[s].at = rpc[s].at /\ rpc'[s].wait = rpc[s].wait + 1
  <2>1. /\ rpc'[s] = IF rpc[s] = NoRpc THEN NoRpc ELSE [rpc[s] EXCEPT !.wait = rpc[s].wait + 1]
        /\ rpc[s] # NoRpc => rpc[s].wait < LATENCY
    BY DEF Tick
  <2>2. CASE rpc[s] = NoRpc
    BY <2>1, <2>2, RpcFacts
  <2>3. CASE rpc[s] # NoRpc
    <3>1. rpc[s] \in Rpc /\ rpc[s].wait + 1 \in 0 .. LATENCY
      BY <1>0, <2>1, <2>3, ServerTypes, ConstantFacts
    <3>2. rpc[s].at # "none"
      BY <2>3 DEF RegistryInv, ServerInv, CallOf
    <3> DEFINE new == [rpc[s] EXCEPT !.wait = rpc[s].wait + 1]
    <3>3. /\ new \in Rpc /\ new.call = rpc[s].call
          /\ new.at = rpc[s].at /\ new.wait = rpc[s].wait + 1
      BY <3>1 DEF Rpc
    <3> HIDE DEF new
    <3>4. rpc'[s] = new
      BY <2>1, <2>3 DEF new
    <3> QED
      BY <2>3, <3>2, <3>3, <3>4, RpcFacts
  <2> QED
    BY <2>2, <2>3
<1>4. ASSUME NEW s \in Servers
      PROVE  /\ age'[s] \in 0 .. Old /\ age'[s] >= age[s] /\ age'[s] <= age[s] + 1
             /\ age'[s] = age[s] + 1 \/ age'[s] = Old
             /\ deadFor'[s] \in 0 .. Old /\ deadFor'[s] <= deadFor[s] + 1
             /\ timer'[s] \in 0 .. HEARTBEAT
             /\ delay'[s] \in 0 .. Old
             /\ rpc[s] = NoRpc => delay'[s] = delay[s]
             /\ rpc[s] # NoRpc => /\ delay'[s] <= delay[s] + 1
                                  /\ delay'[s] = delay[s] + 1 \/ delay'[s] = Old
  <2>1. /\ Capped(age[s]) \in 0 .. Old /\ Capped(age[s]) >= age[s]
        /\ Capped(age[s]) <= age[s] + 1
        /\ Capped(age[s]) = age[s] + 1 \/ Capped(age[s]) = Old
    BY <1>0, ServerTypes, CappedFacts
  <2>2. Capped(deadFor[s]) \in 0 .. Old /\ Capped(deadFor[s]) <= deadFor[s] + 1
    BY <1>0, ServerTypes, CappedFacts
  <2>3. /\ Capped(delay[s]) \in 0 .. Old /\ Capped(delay[s]) <= delay[s] + 1
        /\ Capped(delay[s]) = delay[s] + 1 \/ Capped(delay[s]) = Old
    BY <1>0, ServerTypes, CappedFacts
  <2>4. timer'[s] \in 0 .. HEARTBEAT
    BY <1>0, <1>2, ServerTypes, ConstantFacts
  <2> QED
    BY <1>0, <1>2, <2>1, <2>2, <2>3, <2>4, ServerTypes, ConstantFacts
<1>5. Types'
  <2>1. checkIn' \in 0 .. CHECK
    BY <1>0, <1>1, ConstantFacts DEF Types
  <2>2. age' \in [Servers -> 0 .. Old] /\ deadFor' \in [Servers -> 0 .. Old]
    BY <1>4 DEF Tick
  <2>3. timer' \in [Servers -> 0 .. HEARTBEAT] /\ delay' \in [Servers -> 0 .. Old]
    BY <1>4 DEF Tick
  <2>4. rpc' \in [Servers -> Rpc]
    BY <1>3 DEF Tick
  <2> QED
    BY <1>0, <1>1, <2>1, <2>2, <2>3, <2>4 DEF Types
<1>6. ASSUME NEW s \in Servers PROVE ServerInv(s)'
  <2>0. /\ ServerInv(s) /\ host'[s] = host[s] /\ proc'[s] = proc[s] /\ misses'[s] = misses[s]
        /\ Counted(s)' => Counted(s)
    BY <1>1, <1>3, RpcFacts DEF RegistryInv, Counted
  <2>1. CallOf(s)'
    BY <1>2, <1>3, <2>0, RpcFacts DEF ServerInv, CallOf
  <2>2. DownOf(s)'
    BY <1>1, <2>0 DEF ServerInv, DownOf
  <2>3. CheckOf(s)'
    BY <1>0, <1>1, <1>4, <2>0, ServerTypes, ConstantFacts DEF Types, ServerInv, CheckOf, DownOf
  <2>4. StaleOf(s)'
    <3> SUFFICES ASSUME proc[s] = "down"
                 PROVE  /\ rpc'[s] # NoRpc => deadFor'[s] <= rpc'[s].wait
                        /\ host[s] # "none" => deadFor'[s] <= age'[s] + LATENCY
      BY <2>0 DEF StaleOf
    <3>1. rpc'[s] # NoRpc => deadFor'[s] <= rpc'[s].wait
      BY <1>0, <1>3, <1>4, <2>0, ServerTypes, ConstantFacts DEF ServerInv, StaleOf
    <3>2. host[s] # "none" => deadFor'[s] <= age'[s] + LATENCY
      BY <1>0, <1>4, <2>0, ServerTypes, ConstantFacts DEF ServerInv, StaleOf
    <3> QED
      BY <3>1, <3>2
  <2>5. ErasedOf(s)'
    BY <1>0, <1>4, <2>0, ServerTypes, ConstantFacts DEF ServerInv, ErasedOf
  <2>6. AgeOf(s)'
    <3> SUFFICES ASSUME Counted(s), misses[s] < ManyMisses
                 PROVE  age'[s] <= Missed(s)' + Period(s)' + delay'[s]
      BY <2>0 DEF AgeOf
    <3>1. age[s] <= Missed(s) + Period(s) + delay[s]
      BY <2>0 DEF ServerInv, AgeOf
    <3>2. Missed(s)' = Missed(s) /\ Missed(s) \in Nat
      BY <2>0, ConstantFacts DEF Missed
    <3>3. CASE rpc[s] = NoRpc
      <4>1. timer[s] > 0
        BY <1>2, <3>3, RpcFacts DEF Counted
      <4>2. Period(s)' = Period(s) + 1 /\ Period(s) \in Nat
        BY <1>0, <1>2, <1>3, <3>3, <4>1, ServerTypes, ConstantFacts DEF Period
      <4> QED
        BY <1>0, <1>4, <3>1, <3>2, <3>3, <4>2, ServerTypes, ConstantFacts
    <3>4. CASE rpc[s] # NoRpc
      <4>1. Period(s)' = Period(s) /\ Period(s) \in Nat
        BY <1>3, <3>4, ConstantFacts DEF Period
      <4> QED
        BY <1>0, <1>4, <3>1, <3>2, <3>4, <4>1, ServerTypes, ConstantFacts
    <3> QED
      BY <3>3, <3>4
  <2>7. KeptOf(s)'
    <3> SUFFICES ASSUME Punctual, failures = 0, restarts = 0
                 PROVE  /\ statusUp' /\ host'[s] # "peer" /\ rpc'[s].call # "reregister"
                        /\ proc'[s] = "serving" => rpc'[s].at \in {"none", "request", "Success"}
                        /\ Counted(s)' =>
                             /\ misses'[s] = 0
                             /\ rpc'[s] = NoRpc => delay'[s] <= LATENCY
                             /\ rpc'[s].at = "request" => delay'[s] <= LATENCY + rpc'[s].wait
                             /\ rpc'[s].at = "Success" => delay'[s] <= rpc'[s].wait
      BY <1>1 DEF KeptOf
    <3>1. /\ statusUp /\ host[s] # "peer" /\ rpc[s].call # "reregister"
          /\ proc[s] = "serving" => rpc[s].at \in {"none", "request", "Success"}
          /\ Counted(s) =>
               /\ misses[s] = 0
               /\ rpc[s] = NoRpc => delay[s] <= LATENCY
               /\ rpc[s].at = "request" => delay[s] <= LATENCY + rpc[s].wait
               /\ rpc[s].at = "Success" => delay[s] <= rpc[s].wait
      BY <2>0 DEF ServerInv, KeptOf
    <3>2. CASE rpc[s] = NoRpc
      BY <1>1, <1>3, <1>4, <2>0, <3>1, <3>2, RpcFacts
    <3>3. CASE rpc[s] # NoRpc
      BY <1>0, <1>1, <1>3, <1>4, <2>0, <3>1, <3>3, ServerTypes, ConstantFacts
    <3> QED
      BY <3>2, <3>3
  <2> QED
    BY <2>1, <2>2, <2>3, <2>4, <2>5, <2>6, <2>7 DEF ServerInv
<1> QED
  BY <1>5, <1>6 DEF RegistryInv

-----------------------------------------------------------------------------
(***************************************************************************)
(* The invariant, and what it says.                                        *)
(***************************************************************************)
LEMMA InitInv == Init => RegistryInv
<1> SUFFICES ASSUME Init PROVE RegistryInv
  OBVIOUS
<1>1. /\ statusUp = TRUE /\ checkIn = CHECK /\ failures = 0 /\ crashes = 0 /\ restarts = 0
      /\ host = [s \in Servers |-> "none"] /\ age = [s \in Servers |-> Old]
      /\ proc = [s \in Servers |-> "down"] /\ timer = [s \in Servers |-> 0]
      /\ rpc = [s \in Servers |-> NoRpc] /\ deadFor = [s \in Servers |-> Old]
      /\ misses = [s \in Servers |-> ManyMisses] /\ delay = [s \in Servers |-> Old]
  BY DEF Init
<1>2. /\ 0 \in 0 .. HEARTBEAT /\ Old \in 0 .. Old /\ ManyMisses \in 0 .. ManyMisses
      /\ CHECK \in 0 .. CHECK /\ 0 \in 0 .. MaxFailures /\ 0 \in 0 .. MaxCrashes
      /\ 0 \in 0 .. MaxRestarts
  BY ConstantFacts, StatusRegistryAssumption
<1>3. Types
  BY <1>1, <1>2, RpcFacts DEF Types
<1>4. ASSUME NEW s \in Servers PROVE ServerInv(s)
  <2>1. /\ host[s] = "none" /\ proc[s] = "down" /\ rpc[s] = NoRpc /\ misses[s] = ManyMisses
    BY <1>1
  <2>2. CallOf(s) /\ DownOf(s) /\ CheckOf(s) /\ StaleOf(s) /\ ErasedOf(s)
    BY <1>1, <2>1, RpcFacts, ConstantFacts DEF CallOf, DownOf, CheckOf, StaleOf, ErasedOf
  <2>3. AgeOf(s) /\ KeptOf(s)
    BY <1>1, <2>1, RpcFacts, ConstantFacts DEF AgeOf, KeptOf, Counted
  <2> QED
    BY <2>2, <2>3 DEF ServerInv
<1> QED
  BY <1>3, <1>4 DEF RegistryInv

LEMMA StepInv == RegistryInv /\ [Next]_vars => RegistryInv'
<1> SUFFICES ASSUME RegistryInv, [Next]_vars PROVE RegistryInv'
  OBVIOUS
<1>1. CASE System
  <2>1. CASE \E s \in Servers : \/ Registered(s) \/ OnTimer(s) \/ HeartbeatAnswered(s)
                                \/ ReregisterAnswered(s) \/ RegisterChatServer(s)
                                \/ Heartbeat(s) \/ CallRefused(s)
    BY <2>1, RegisteredKeeps, OnTimerKeeps, HeartbeatAnsweredKeeps, ReregisterAnsweredKeeps,
       RegisterChatServerKeeps, HeartbeatKeeps, CallRefusedKeeps
  <2> QED
    BY <1>1, <2>1, CheckHeartbeatKeeps, TickKeeps DEF System
<1>2. CASE Environment
  <2>1. CASE \E s \in Servers : \/ StartProcess(s) \/ StartFails(s) \/ EndProcess(s)
                                \/ RequestLost(s) \/ ReplyLost(s)
    BY <2>1, StartProcessKeeps, StartFailsKeeps, EndProcessKeeps, RequestLostKeeps,
       ReplyLostKeeps
  <2> QED
    BY <1>2, <2>1, StatusServerEndsKeeps, StatusServerStartsKeeps DEF Environment
<1>3. CASE UNCHANGED vars
  <2>1. /\ UNCHANGED <<statusUp, host, age, checkIn, proc, timer, rpc, deadFor, misses, delay,
                       failures, crashes, restarts>>
    BY <1>3 DEF vars
  <2>2. Types'
    BY <2>1 DEF RegistryInv, Types
  <2>3. \A s \in Servers : ServerInv(s)'
    BY <2>1, SameKept DEF Same
  <2> QED
    BY <2>2, <2>3 DEF RegistryInv
<1> QED
  BY <1>1, <1>2, <1>3 DEF Next

LEMMA SpecInv == Spec => []RegistryInv
BY InitInv, StepInv, PTL DEF Spec

\* Types; main and onTimer make one call at a time, and the timer does not run
\* while a heartbeat is out.
THEOREM TypeCorrect == Spec => []TypeOK
<1>1. RegistryInv => TypeOK
  BY DEF RegistryInv, ServerInv, Types, Rpc, CallOf, TypeOK
<1> QED
  BY <1>1, SpecInv, PTL

\* checkHeartbeat: a chat server that ended is not offered for longer than the
\* timeout, one period of the checker and the way of a last heartbeat.
THEOREM StaleEntriesGo == Spec => []BoundedStaleness
<1>1. RegistryInv => BoundedStaleness
  <2> SUFFICES ASSUME RegistryInv, NEW s \in Servers, host[s] # "none", proc[s] = "down"
               PROVE  deadFor[s] <= TIMEOUT + CHECK + LATENCY
    BY DEF BoundedStaleness
  <2>1. /\ deadFor[s] <= age[s] + LATENCY /\ age[s] + checkIn <= TIMEOUT + CHECK
        /\ checkIn \in 0 .. CHECK /\ Types
    BY DEF RegistryInv, ServerInv, StaleOf, CheckOf, Types
  <2> QED
    BY <2>1, ServerTypes, ConstantFacts
<1> QED
  BY <1>1, SpecInv, PTL

\* A serving chat server stays registered as long as the heartbeats it missed
\* and the time its calls took leave room within the timeout.
THEOREM LiveEntriesStay == Spec => []LiveStaysRegistered
<1>1. RegistryInv => LiveStaysRegistered
  <2> SUFFICES ASSUME RegistryInv, NEW s \in Servers, proc[s] = "serving",
                      misses[s] < ManyMisses,
                      (misses[s] + 1) * HEARTBEAT + delay[s] <= TIMEOUT
               PROVE  host[s] # "none"
    BY DEF LiveStaysRegistered
  <2>0. Types /\ ServerInv(s)
    BY DEF RegistryInv
  <2>1. misses[s] \in {0, 1}
    BY <2>0, ServerTypes, ConstantFacts
  <2>2. (misses[s] + 1) * HEARTBEAT = Missed(s) + HEARTBEAT
    <3>1. CASE misses[s] = 0
      BY <3>1, ConstantFacts DEF Missed
    <3>2. CASE misses[s] = 1
      BY <3>2, ConstantFacts DEF Missed
    <3> QED
      BY <2>1, <3>1, <3>2
  <2>3. Period(s) \in Nat /\ Period(s) <= HEARTBEAT /\ Missed(s) \in Nat
    BY <2>0, ServerTypes, ConstantFacts DEF Period, Missed
  <2>4. age[s] <= Missed(s) + Period(s) + delay[s]
    BY <2>0 DEF ServerInv, AgeOf, Counted
  <2>5. age[s] <= TIMEOUT
    BY <2>0, <2>2, <2>3, <2>4, ServerTypes, ConstantFacts
  <2> QED
    BY <2>0, <2>5, ServerTypes, ConstantFacts DEF ServerInv, ErasedOf
<1> QED
  BY <1>1, SpecInv, PTL

\* If a period of the timer and the two ways of a call fit into the timeout,
\* the automatic reconnection of onTimer, which would replace the address of a
\* server by gRPC's name of a socket, needs a lost call or a restart.
THEOREM AddressStays ==
  ASSUME Punctual
  PROVE  Spec => []AddressKept
<1>1. RegistryInv => AddressKept
  BY DEF RegistryInv, ServerInv, KeptOf, AddressKept
<1> QED
  BY <1>1, SpecInv, PTL

=============================================================================
