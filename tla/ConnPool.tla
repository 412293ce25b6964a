------------------------------ MODULE ConnPool ------------------------------
(***************************************************************************)
(* The blocking connection pool every server is built on: a queue of       *)
(* connections, a mutex, a condition variable and a stop flag              *)
(* (platform/MySQLConnectPool, RedisConnectPool, StatusConnectPool;        *)
(* ChatConPool and GPCConnectPool have the same shape), together with the  *)
(* three ways in which its clients use a connection.                       *)
(*                                                                         *)
(* A critical section is one action, with one exception.  wait(lock, pred) *)
(* evaluates the predicate, then goes to sleep; the mutex is held in       *)
(* between, but close() does not take the mutex, so the two are separate   *)
(* steps.                                                                  *)
(***************************************************************************)
EXTENDS Naturals, Sequences, FiniteSets, Functions

CONSTANTS
  Conns,      \* the pooled connections (5 in every server)
  Threads,    \* client threads: the workers of the logic pool
  Kinds,      \* requests the clients make: "plain", "nested", "leaky"
  MaxNested,  \* bound: inner acquisitions of one nested request
  MayClose,   \* close() is called, or it is not
  NoThread    \* the mutex is free

ASSUME ConnPoolAssumption ==
  /\ IsFiniteSet(Conns) /\ Conns # {}
  /\ IsFiniteSet(Threads)
  /\ Kinds \subseteq {"plain", "nested", "leaky"}
  /\ MaxNested \in Nat
  /\ MayClose \in BOOLEAN
  /\ NoThread \notin Threads

VARIABLES
  pool,      \* _pool, _connections: the free connections, a queue
  isStop,    \* _is_stop, _b_stop
  notified,  \* close() has called notify_all
  lock,      \* holder of _mutex between two actions
  pc,        \* where each thread is
  kind,      \* the request it is serving
  held,      \* the connections it took, innermost last
  nested,    \* inner acquisitions it still has to make
  leaked     \* connections whose last user returned without giving them back

vars == <<pool, isStop, notified, lock, pc, kind, held, nested, leaked>>

Waiting == {t \in Threads : pc[t] = "waiting"}
Getting == {t \in Threads : pc[t] = "get"}
HeldBy(t) == Range(held[t])
InPool == Range(pool)

TypeOK ==
  /\ pool \in Seq(Conns)
  /\ isStop \in BOOLEAN
  /\ notified \in BOOLEAN
  /\ lock \in Threads \cup {NoThread}
  /\ pc \in [Threads -> {"idle", "get", "sleepy", "waiting", "use"}]
  /\ kind \in [Threads -> Kinds \cup {"none"}]
  /\ held \in [Threads -> Seq(Conns)]
  /\ nested \in [Threads -> 0 .. MaxNested]
  /\ leaked \subseteq Conns
  \* the mutex is held across a step exactly by the thread about to sleep
  /\ \A t \in Threads : pc[t] = "sleepy" <=> lock = t

\* The constructor fills the queue.
Init ==
  /\ pool \in {s \in [1 .. Cardinality(Conns) -> Conns] : IsInjective(s)}
  /\ isStop = FALSE
  /\ notified = FALSE
  /\ lock = NoThread
  /\ pc = [t \in Threads |-> "idle"]
  /\ kind = [t \in Threads |-> "none"]
  /\ held = [t \in Threads |-> <<>>]
  /\ nested = [t \in Threads |-> 0]
  /\ leaked = {}

-----------------------------------------------------------------------------
(***************************************************************************)
(* The pool.                                                               *)
(***************************************************************************)

\* getConnection: the predicate of wait, evaluated with the mutex held.
\* Stopped: nullptr; the caller gives up what it was about to do.
GetNull(t) ==
  /\ pc[t] = "get" /\ lock = NoThread
  /\ isStop
  /\ pc' = [pc EXCEPT ![t] = IF held[t] = <<>> THEN "idle" ELSE "use"]
  /\ UNCHANGED <<pool, isStop, notified, lock, kind, held, nested, leaked>>

\* A connection is free: take the front.
GetFront(t) ==
  /\ pc[t] = "get" /\ lock = NoThread
  /\ ~isStop /\ pool # <<>>
  /\ held' = [held EXCEPT ![t] = Append(@, Head(pool))]
  /\ pool' = Tail(pool)
  /\ pc' = [pc EXCEPT ![t] = "use"]
  /\ UNCHANGED <<isStop, notified, lock, kind, nested, leaked>>

\* Neither: the predicate is false, the thread will sleep.
GetWillWait(t) ==
  /\ pc[t] = "get" /\ lock = NoThread
  /\ ~isStop /\ pool = <<>>
  /\ pc' = [pc EXCEPT ![t] = "sleepy"]
  /\ lock' = t
  /\ UNCHANGED <<pool, isStop, notified, kind, held, nested, leaked>>

\* The condition variable releases the mutex and puts the thread to sleep.
Sleep(t) ==
  /\ pc[t] = "sleepy"
  /\ pc' = [pc EXCEPT ![t] = "waiting"]
  /\ lock' = NoThread
  /\ UNCHANGED <<pool, isStop, notified, kind, held, nested, leaked>>

\* Condition variables may wake a thread for no reason; wait re-evaluates.
SpuriousWakeup(t) ==
  /\ pc[t] = "waiting"
  /\ pc' = [pc EXCEPT ![t] = "get"]
  /\ UNCHANGED <<pool, isStop, notified, lock, kind, held, nested, leaked>>

\* A thread that gave back its last connection has served its request.
AfterReturn(t) == IF Len(held[t]) = 1 THEN "idle" ELSE "use"
Innermost(t) == held[t][Len(held[t])]
Outer(t) == SubSeq(held[t], 1, Len(held[t]) - 1)

\* returnConnection after close(): the connection is not queued any more.
ReturnStopped(t) ==
  /\ pc[t] = "use" /\ held[t] # <<>> /\ lock = NoThread
  /\ isStop
  /\ held' = [held EXCEPT ![t] = Outer(t)]
  /\ pc' = [pc EXCEPT ![t] = AfterReturn(t)]
  /\ UNCHANGED <<pool, isStop, notified, lock, kind, nested, leaked>>

\* Mistakes: the connection is queued twice (once by hand, once by Defer) ...
ReturnTwice(t) ==
  /\ pc[t] = "use" /\ held[t] # <<>> /\ lock = NoThread
  /\ ~isStop
  /\ pool' = pool \o <<Innermost(t), Innermost(t)>>
  /\ held' = [held EXCEPT ![t] = Outer(t)]
  /\ \/ /\ Waiting = {}
        /\ pc' = [pc EXCEPT ![t] = AfterReturn(t)]
     \/ \E w \in Waiting : pc' = [pc EXCEPT ![t] = AfterReturn(t), ![w] = "get"]
  /\ UNCHANGED <<isStop, notified, lock, kind, nested, leaked>>

\* ... or nobody is woken at all.
ReturnSilent(t) ==
  /\ pc[t] = "use" /\ held[t] # <<>> /\ lock = NoThread
  /\ ~isStop
  /\ pool' = Append(pool, Innermost(t))
  /\ held' = [held EXCEPT ![t] = Outer(t)]
  /\ pc' = [pc EXCEPT ![t] = AfterReturn(t)]
  /\ UNCHANGED <<isStop, notified, lock, kind, nested, leaked>>

\* returnConnection: queue the connection and wake one waiter, if any.
Return(t) ==
  /\ pc[t] = "use" /\ held[t] # <<>> /\ lock = NoThread
  /\ ~isStop
  /\ pool' = Append(pool, Innermost(t))
  /\ held' = [held EXCEPT ![t] = Outer(t)]
  /\ \/ /\ Waiting = {}
        /\ pc' = [pc EXCEPT ![t] = AfterReturn(t)]
     \/ \E w \in Waiting : pc' = [pc EXCEPT ![t] = AfterReturn(t), ![w] = "get"]
  /\ UNCHANGED <<isStop, notified, lock, kind, nested, leaked>>

\* close: the flag is stored, then everyone asleep is woken; no mutex.
CloseStores ==
  /\ MayClose
  /\ ~isStop
  /\ isStop' = TRUE
  /\ UNCHANGED <<pool, notified, lock, pc, kind, held, nested, leaked>>

CloseNotifies ==
  /\ isStop /\ ~notified
  /\ notified' = TRUE
  /\ pc' = [t \in Threads |-> IF pc[t] = "waiting" THEN "get" ELSE pc[t]]
  /\ UNCHANGED <<pool, isStop, lock, kind, held, nested, leaked>>

-----------------------------------------------------------------------------
(***************************************************************************)
(* The clients.  A worker takes a request and needs a connection for it.   *)
(***************************************************************************)

\* A statement or command on one connection: every DAO method but
\* GetFriendList, every RedisManager command.  Defer returns the connection
\* on every path out of it, exceptions included: Return needs no guard.
BeginPlain(t) ==
  /\ pc[t] = "idle"
  /\ kind' = [kind EXCEPT ![t] = "plain"]
  /\ pc' = [pc EXCEPT ![t] = "get"]
  /\ UNCHANGED <<pool, isStop, notified, lock, held, nested, leaked>>

\* GetFriendList: GetUser is called for each of n friends while the
\* connection with the result set is still held.
BeginGetFriendList(t) ==
  /\ pc[t] = "idle"
  /\ \E n \in 0 .. MaxNested : nested' = [nested EXCEPT ![t] = n]
  /\ kind' = [kind EXCEPT ![t] = "nested"]
  /\ pc' = [pc EXCEPT ![t] = "get"]
  /\ UNCHANGED <<pool, isStop, notified, lock, held, leaked>>

\* A mistake: the lookup of a friend looks up friends in its turn.
GetUserDeeper(t) ==
  /\ pc[t] = "use" /\ kind[t] = "nested"
  /\ nested[t] > 0
  /\ pc' = [pc EXCEPT ![t] = "get"]
  /\ UNCHANGED <<pool, isStop, notified, lock, kind, held, nested, leaked>>

GetUser(t) ==
  /\ pc[t] = "use" /\ kind[t] = "nested"
  /\ Len(held[t]) = 1 /\ nested[t] > 0
  /\ nested' = [nested EXCEPT ![t] = @ - 1]
  /\ pc' = [pc EXCEPT ![t] = "get"]
  /\ UNCHANGED <<pool, isStop, notified, lock, kind, held, leaked>>

\* hdel, execute, hkeys and zrevrange return on a NULL reply before they
\* construct the Defer that would give the connection back.
BeginLeaky(t) ==
  /\ pc[t] = "idle"
  /\ kind' = [kind EXCEPT ![t] = "leaky"]
  /\ pc' = [pc EXCEPT ![t] = "get"]
  /\ UNCHANGED <<pool, isStop, notified, lock, held, nested, leaked>>

ReplyIsNull(t) ==
  /\ pc[t] = "use" /\ kind[t] = "leaky" /\ held[t] # <<>>
  /\ leaked' = leaked \cup HeldBy(t)
  /\ held' = [held EXCEPT ![t] = <<>>]
  /\ pc' = [pc EXCEPT ![t] = "idle"]
  /\ UNCHANGED <<pool, isStop, notified, lock, kind, nested>>

Begin(t) ==
  \/ "plain" \in Kinds /\ BeginPlain(t)
  \/ "nested" \in Kinds /\ BeginGetFriendList(t)
  \/ "leaky" \in Kinds /\ BeginLeaky(t)

\* What a thread does by itself once it serves a request.
Step(t) ==
  \/ GetNull(t) \/ GetFront(t) \/ GetWillWait(t) \/ Sleep(t)
  \/ ReturnStopped(t) \/ Return(t)
  \/ GetUser(t) \/ ReplyIsNull(t)

Next ==
  \/ \E t \in Threads : Begin(t) \/ Step(t) \/ SpuriousWakeup(t)
  \/ CloseStores
  \/ CloseNotifies

(***************************************************************************)
(* Every thread that can run does run, commands return, and a thread that  *)
(* wants the mutex gets it in the end although others keep taking it       *)
(* (strong fairness).  Nothing is assumed about whom notify_one wakes or   *)
(* who is first at a free connection, and spurious wakeups may never come. *)
(***************************************************************************)
Spec ==
  /\ Init
  /\ [][Next]_vars
  /\ \A t \in Threads : SF_vars(Step(t))
  /\ WF_vars(CloseNotifies)

-----------------------------------------------------------------------------
\* A connection has one owner: it is queued once, or held by one thread, or
\* lost.  Two threads on one connection would mix their statements.
OneOwner ==
  /\ IsInjective(pool)
  /\ InPool \cap leaked = {}
  /\ \A t \in Threads :
       /\ IsInjective(held[t])
       /\ HeldBy(t) \cap (InPool \cup leaked) = {}
       /\ \A u \in Threads \ {t} : HeldBy(t) \cap HeldBy(u) = {}

\* No wakeup is lost between clients: while threads sleep, there are at
\* least as many threads awake inside getConnection as free connections,
\* although notify_one wakes only one and newcomers may overtake it.
NoLostWakeup == ~isStop /\ Waiting # {} => Len(pool) <= Cardinality(Getting)

\* Each connection is in the hands of another GetFriendList run that needs one
\* more.
Blocked ==
  \A c \in Conns : \E t \in Threads :
    held[t] = <<c>> /\ kind[t] = "nested" /\ pc[t] \in {"get", "sleepy", "waiting"}

\* As long as the pool is whole: not closed, no connection leaked, and the
\* connections not all held by runs that wait for each other.
Whole == ~isStop /\ leaked = {} /\ ~Blocked

\* A free connection does not lie about while threads sleep for one, whomever
\* notify_one picks and whoever overtakes him: it is taken, or nobody sleeps
\* any more.  (That each sleeper is served is not promised: others may be
\* woken, or first, again and again.)
FreeIsTaken ==
  pool # <<>> /\ Waiting # {} ~> pool = <<>> \/ Waiting = {} \/ ~Whole

\* While the pool is whole, again and again some worker of the thread pool is
\* free to take a message: nested calls of GetFriendList on all connections at
\* once (MySQLDao.cpp:374) and leaks are the only ways to block the server.
WorkersBecomeFree == <>~Whole \/ []<>(\E t \in Threads : pc[t] = "idle")
=============================================================================
