---------------------------- MODULE HttpConnection ----------------------------
(***************************************************************************)
(* The HTTP layer of the gate server: CServer accepts connections on the   *)
(* main thread, AsioIOServicePool gives them to its io_contexts in turn,   *)
(* and HttpConnection reads one request, handles it, which blocks the      *)
(* io_context's thread, and writes the response, under a deadline.         *)
(*                                                                         *)
(* The deadline's 60 seconds begin when the object is made, that is when   *)
(* the server begins to wait for the connection, and somebody waits for    *)
(* them only after the request has been handled.  The object lives as long *)
(* as a handler refers to it; its destructor closes the socket.            *)
(*                                                                         *)
(* Responses are short: the first write hands all of one to the kernel.    *)
(***************************************************************************)
EXTENDS Naturals, FiniteSets

CONSTANTS
  Services,  \* number of io_contexts, with one thread each
  MaxConns   \* bound: connection objects

ASSUME HttpConnectionAssumption ==
  Services \in Nat \ {0} /\ MaxConns \in Nat \ {0}

Conns == 1 .. MaxConns

VARIABLES
  made,      \* number of connection objects so far
  next,      \* AsioIOServicePool::_next_ioService
  service,   \* the io_context of each connection
  at,        \* what each connection does, see Phases
  method,    \* the method of its request, once read
  due,       \* 60 seconds have passed since it was made
  write,     \* async_write: none, running, done
  wait,      \* async_wait on _deadline: none, armed, fired or cancelled, done
  socket,    \* open, shut for sending, closed
  busy,      \* the connection whose request each thread is handling, or 0
  cut        \* history: connections closed by the deadline before any answer

httpVars == <<made, next, service, at, method, due, write, wait, socket, busy, cut>>

Phases == {"none", "accepting", "reading", "read", "handling", "handled", "gone"}
Methods == {"get_or_post", "other"}

\* No handler refers to c any more: it is destroyed.
Gone(c) == at[c] = "gone" \/ (at[c] = "handled" /\ write[c] # "running" /\ wait[c] = "done")

HttpTypeOK ==
  /\ made \in Conns /\ next \in 0 .. Services - 1
  /\ service \in [Conns -> 0 .. Services - 1]
  /\ at \in [Conns -> Phases] /\ method \in [Conns -> Methods \cup {"none"}]
  /\ due \in [Conns -> BOOLEAN]
  /\ write \in [Conns -> {"none", "running", "done"}]
  /\ wait \in [Conns -> {"none", "armed", "fired", "cancelled", "done"}]
  /\ socket \in [Conns -> {"open", "shut", "closed"}]
  /\ busy \in [0 .. Services - 1 -> Conns \cup {0}] /\ cut \subseteq Conns
  \* there is always one connection to be accepted, the last one made
  /\ {c \in Conns : at[c] = "accepting"} = {made}
  \* neighbours do not share a thread, unless there is only one
  /\ \A c \in 1 .. made - 1 : service[c + 1] = (service[c] + 1) % Services

HttpInit ==
  /\ made = 1 /\ next = 1 % Services
  /\ service = [c \in Conns |-> 0]
  /\ at = [c \in Conns |-> IF c = 1 THEN "accepting" ELSE "none"]
  /\ method = [c \in Conns |-> "none"] /\ due = [c \in Conns |-> FALSE]
  /\ write = [c \in Conns |-> "none"] /\ wait = [c \in Conns |-> "none"]
  /\ socket = [c \in Conns |-> "open"]
  /\ busy = [s \in 0 .. Services - 1 |-> 0] /\ cut = {}

-----------------------------------------------------------------------------
(***************************************************************************)
(* CServer, on the main thread.                                            *)
(***************************************************************************)

\* CServer::start with GetIOService, after connection c has become phase.
Start(c, phase) ==
  /\ made < MaxConns
  /\ made' = made + 1
  /\ service' = [service EXCEPT ![made + 1] = next]
  /\ next' = IF next + 1 = Services THEN 0 ELSE next + 1
  /\ at' = [at EXCEPT ![c] = phase, ![made + 1] = "accepting"]

\* A mistake: the deadline is awaited from the beginning.
AcceptUnderDeadline(c) ==
  /\ at[c] = "accepting"
  /\ Start(c, "reading")
  /\ wait' = [wait EXCEPT ![c] = "armed"]
  /\ UNCHANGED <<method, due, write, socket, busy, cut>>

\* async_accept gives a connection: it starts reading, the next is awaited.
Accept(c) ==
  /\ at[c] = "accepting"
  /\ Start(c, "reading")
  /\ UNCHANGED <<method, due, write, wait, socket, busy, cut>>

\* A mistake: after an error nobody accepts any more.
AcceptGivesUp(c) ==
  /\ at[c] = "accepting" /\ made < MaxConns
  /\ at' = [at EXCEPT ![c] = "gone"]
  /\ UNCHANGED <<made, next, service, method, due, write, wait, socket, busy, cut>>

AcceptFails(c) ==
  /\ at[c] = "accepting"
  /\ Start(c, "gone")
  /\ UNCHANGED <<method, due, write, wait, socket, busy, cut>>

-----------------------------------------------------------------------------
(***************************************************************************)
(* HttpConnection, on its io_context's thread.                             *)
(***************************************************************************)
Free(c) == busy[service[c]] = 0

\* async_read has a request, or an error, for instance of a closed socket.
RequestRead(c, m) ==
  /\ at[c] = "reading" /\ socket[c] = "open"
  /\ at' = [at EXCEPT ![c] = "read"] /\ method' = [method EXCEPT ![c] = m]
  /\ UNCHANGED <<made, next, service, due, write, wait, socket, busy, cut>>

ReadFails(c) ==
  /\ at[c] = "reading" /\ Free(c)
  /\ at' = [at EXCEPT ![c] = "gone"]
  /\ UNCHANGED <<made, next, service, method, due, write, wait, socket, busy, cut>>

\* The callback of async_read: hanleReq begins.
HandleReq(c) ==
  /\ at[c] = "read" /\ Free(c)
  /\ at' = [at EXCEPT ![c] = "handling"]
  /\ busy' = [busy EXCEPT ![service[c]] = c]
  /\ UNCHANGED <<made, next, service, method, due, write, wait, socket, cut>>

\* hanleReq ends: GET and POST write a response, whether the url is known or
\* not, other methods nothing; then checkDeadline.
HandleReqEnds(c) ==
  /\ at[c] = "handling"
  /\ at' = [at EXCEPT ![c] = "handled"]
  /\ write' = [write EXCEPT ![c] = IF method[c] = "other" THEN "none" ELSE "running"]
  /\ wait' = [wait EXCEPT ![c] = "armed"]
  /\ busy' = [busy EXCEPT ![service[c]] = 0]
  /\ UNCHANGED <<made, next, service, method, due, socket, cut>>

\* The handler of the url throws: nothing refers to the connection any more.
HandleReqThrows(c) ==
  /\ at[c] = "handling" /\ method[c] # "other"
  /\ at' = [at EXCEPT ![c] = "gone"]
  /\ busy' = [busy EXCEPT ![service[c]] = 0]
  /\ UNCHANGED <<made, next, service, method, due, write, wait, socket, cut>>

\* Mistakes: the deadline is not cancelled; the connection is kept alive.
WrittenNoCancel(c) ==
  /\ write[c] = "running" /\ Free(c)
  /\ write' = [write EXCEPT ![c] = "done"]
  /\ socket' = [socket EXCEPT ![c] = IF @ = "open" THEN "shut" ELSE @]
  /\ UNCHANGED <<made, next, service, at, method, due, wait, busy, cut>>

WrittenKeepsAlive(c) ==
  /\ write[c] = "running" /\ Free(c)
  /\ write' = [write EXCEPT ![c] = "done"]
  /\ wait' = [wait EXCEPT ![c] = IF @ = "armed" THEN "cancelled" ELSE @]
  /\ at' = [at EXCEPT ![c] = "reading"]
  /\ UNCHANGED <<made, next, service, method, due, socket, busy, cut>>

\* The callback of async_write, whatever its result: shutdown, and cancel,
\* which comes too late if the wait has fired.
Written(c) ==
  /\ write[c] = "running" /\ Free(c)
  /\ write' = [write EXCEPT ![c] = "done"]
  /\ socket' = [socket EXCEPT ![c] = IF @ = "open" THEN "shut" ELSE @]
  /\ wait' = [wait EXCEPT ![c] = IF @ = "armed" THEN "cancelled" ELSE @]
  /\ UNCHANGED <<made, next, service, at, method, due, busy, cut>>

\* The timer: 60 seconds are over; whoever waits for it is called.
TimePasses(c) ==
  /\ at[c] # "none" /\ ~due[c]
  /\ due' = [due EXCEPT ![c] = TRUE]
  /\ UNCHANGED <<made, next, service, at, method, write, wait, socket, busy, cut>>

Expires(c) ==
  /\ due[c] /\ wait[c] = "armed"
  /\ wait' = [wait EXCEPT ![c] = "fired"]
  /\ UNCHANGED <<made, next, service, at, method, due, write, socket, busy, cut>>

\* The callback of async_wait closes the socket, unless it was cancelled.
Deadline(c) ==
  /\ wait[c] \in {"fired", "cancelled"} /\ Free(c)
  /\ wait' = [wait EXCEPT ![c] = "done"]
  /\ socket' = [socket EXCEPT ![c] = IF wait[c] = "fired" THEN "closed" ELSE @]
  /\ cut' = IF wait[c] = "fired" /\ write[c] = "none" /\ method[c] # "other" THEN cut \cup {c} ELSE cut
  /\ UNCHANGED <<made, next, service, at, method, due, write, busy>>

\* What the io_context's thread does for c.
Thread(c) == HandleReq(c) \/ HandleReqEnds(c) \/ HandleReqThrows(c) \/ Written(c) \/ Deadline(c)

HttpNext ==
  \E c \in Conns :
    \/ Accept(c) \/ AcceptFails(c)
    \/ ReadFails(c) \/ \E m \in Methods : RequestRead(c, m)
    \/ Thread(c) \/ TimePasses(c) \/ Expires(c)

\* Time passes, and an io_context calls its handlers in turn; the calls that a
\* handler makes to Redis, MySQL and the other servers end.  Nobody is obliged
\* to connect or to send a request.
HttpSpec ==
  /\ HttpInit /\ [][HttpNext]_httpVars
  /\ \A c \in Conns : WF_httpVars(Thread(c)) /\ WF_httpVars(TimePasses(c)) /\ WF_httpVars(Expires(c))

-----------------------------------------------------------------------------
\* The deadline cuts off no request that will be answered: although it may have
\* passed before the connection was even accepted, and although other
\* connections block the thread, its callback comes after the response.
NoEarlyCut == cut = {}

\* A connection that was answered is not held until its deadline: the callback
\* of the write never overtakes checkDeadline, so that cancel finds the wait.
AnsweredNotHeld == \A c \in Conns : write[c] = "done" => wait[c] # "armed" /\ wait[c] # "none"

\* Every connection whose request has been read ends, also one with a method
\* that gets no answer and one whose handler throws.
ConnectionsEnd == \A c \in Conns : at[c] = "read" ~> Gone(c)
=============================================================================
