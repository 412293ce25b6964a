--------------------------- MODULE ChatCacheManager ---------------------------
(***************************************************************************)
(* The messages of one pair of users in their two stores: the table        *)
(* chat_messages and the cache in Redis (ChatCacheManager), with the       *)
(* handlers that write both: DealChatTextMsgHandler saves and caches a     *)
(* message, MarkMessagesRead marks the conversation as read in both,       *)
(* GetHistoryMessages reads the cache, fills up from the table and caches  *)
(* what it found there.  The handlers run on the logic threads of all chat *)
(* servers; every Redis command and every SQL statement is a step.         *)
(*                                                                         *)
(* The order of a list (by the second in which a message was cached) and   *)
(* of the table (by the sender's clock) is left open: where they are cut   *)
(* to a number, any messages may be the ones kept.                         *)
(***************************************************************************)
EXTENDS Naturals, Sequences, FiniteSets

CONSTANTS
  Msgs,       \* messages from the peer to the user
  Histories,  \* GetHistoryMessages requests of the user
  Marks,      \* MarkMessagesRead requests of the user
  LIMIT,      \* messages in a history reply, 50
  MaxFails,   \* bound: Redis commands and SQL statements that fail
  None

ASSUME ChatCacheManagerAssumption ==
  /\ LIMIT \in Nat /\ MaxFails \in Nat
  /\ IsFiniteSet(Msgs) /\ IsFiniteSet(Histories)
  /\ Msgs \cap Histories = {} /\ Msgs \cap Marks = {} /\ Histories \cap Marks = {}
  /\ None \notin Msgs \cup Histories \cup Marks

Runs == Msgs \cup Histories \cup Marks   \* a message is handled once

VARIABLES
  table,     \* chat_messages: each message absent, unread or read
  details,   \* chat:msg:<id> exists, its status "0"
  listed,    \* chat:user_msgs:<uid> of the receiver
  unread,    \* chat:unread:<to>:<from>
  count,     \* chat:relation:<to>, field <from>; 0 also if there is none
  run,       \* each handler run and, within it, CacheNewMessage
  fails,     \* number of failures so far
  tangled,   \* history: marking came between RPUSH and the counting, or around
  overlapped, \* history: a MarkMessagesRead run overlapped another handler's
  recached   \* history: GetHistoryMessages has cached what it read from the table

redis == <<details, listed, unread, count>>
vars == <<table, redis, run, fails, tangled, overlapped, recached>>

CacheSteps == {"details", "lists", "push", "hget", "hset"}
Idle == [at |-> "idle", msg |-> None, n |-> 0, todo |-> {}, hit |-> {}, rows |-> {},
         start |-> {}, failed |-> FALSE]

Stored == {m \in Msgs : table[m] # "absent"}
MaxPushes == Cardinality(Msgs) * (1 + Cardinality(Histories))

TypeOK ==
  /\ table \in [Msgs -> {"absent", "unread", "read"}]
  /\ details \subseteq Msgs
  /\ listed \subseteq Msgs
  /\ unread \in Seq(Msgs) /\ Len(unread) <= MaxPushes
  /\ count \in 0 .. MaxPushes
  /\ run \in [Runs -> [at: CacheSteps \cup {"idle", "read", "del", "zero", "done"},
                       msg: Msgs \cup {None}, n: 0 .. MaxPushes, todo: SUBSET Msgs,
                       hit: SUBSET Msgs, rows: SUBSET Msgs, start: SUBSET Msgs,
                       failed: BOOLEAN]]
  /\ fails \in 0 .. MaxFails
  /\ {tangled, overlapped, recached} \subseteq BOOLEAN
  \* only stored messages are cached
  /\ details \cup listed \subseteq Stored

Init ==
  /\ table = [m \in Msgs |-> "absent"]
  /\ details = {} /\ listed = {} /\ unread = <<>> /\ count = 0
  /\ run = [r \in Runs |-> Idle]
  /\ fails = 0 /\ tangled = FALSE /\ overlapped = FALSE /\ recached = FALSE

-----------------------------------------------------------------------------
At(r, step) == run[r].at = step
Goes(r, step) == run' = [run EXCEPT ![r].at = step]

Active(r) == run[r].at \notin {"idle", "done"}
ActiveMark == \E k \in Marks : Active(k)
ActiveOther == \E r \in Msgs \cup Histories : Active(r)

\* History: run r begins while a run of the other sort is active.
Overlap(r) ==
  overlapped' = (overlapped \/ IF r \in Marks THEN ActiveOther ELSE ActiveMark)

\* A command or statement either works or fails and changes nothing.
Works == UNCHANGED fails
Fails == fails < MaxFails /\ fails' = fails + 1

-----------------------------------------------------------------------------
(***************************************************************************)
(* CacheNewMessage(run[r].msg), called by run r.                           *)
(***************************************************************************)

\* Record p of a run continues: a history with one of the rows it has still to
\* cache, a message is handled.
NextOf(p) ==
  IF p.todo = {} THEN {[p EXCEPT !.at = "done", !.msg = None, !.n = 0]}
  ELSE {[p EXCEPT !.at = "details", !.msg = m, !.todo = @ \ {m}, !.n = 0] : m \in p.todo}

Continues(r, p) == \E q \in NextOf(p) : run' = [run EXCEPT ![r] = q]

\* HSET of the fields, one of which may fail, and EXPIRE.
CacheDetails(r) ==
  /\ At(r, "details")
  /\ \/ Works /\ details' = details \cup {run[r].msg} /\ Goes(r, "lists")
     \/ Fails /\ UNCHANGED details /\ Continues(r, run[r])
  /\ UNCHANGED <<table, listed, unread, count, tangled, overlapped, recached>>

\* ZADD to the sender's list, which only histories of the sender read, and to
\* the receiver's; nobody looks at the result of these and the next commands.
CacheLists(r) ==
  /\ At(r, "lists")
  /\ \/ Works /\ listed' = listed \cup {run[r].msg}
     \/ Fails /\ UNCHANGED listed
  /\ Goes(r, "push")
  /\ UNCHANGED <<table, details, unread, count, tangled, overlapped, recached>>

CachePush(r) ==
  /\ At(r, "push")
  /\ \/ Works /\ unread' = Append(unread, run[r].msg)
     \/ Fails /\ UNCHANGED unread
  /\ Goes(r, "hget")
  /\ tangled' = (tangled \/ \E k \in Marks : At(k, "zero"))
  /\ UNCHANGED <<table, details, listed, count, overlapped, recached>>

\* HGET: a missing field and a failure count as none.
CacheGetCount(r) ==
  /\ At(r, "hget")
  /\ \/ Works /\ run' = [run EXCEPT ![r].at = "hset", ![r].n = count]
     \/ Fails /\ run' = [run EXCEPT ![r].at = "hset", ![r].n = 0]
  /\ UNCHANGED <<table, redis, tangled, overlapped, recached>>

\* A mistake: two are added.
CacheSetTwice(r) ==
  /\ At(r, "hset") /\ Works
  /\ count' = IF run[r].n + 2 <= MaxPushes THEN run[r].n + 2 ELSE run[r].n
  /\ Continues(r, run[r])
  /\ UNCHANGED <<table, details, listed, unread, tangled, overlapped, recached>>

\* HSET of what was read, plus one.
CacheSetCount(r) ==
  /\ At(r, "hset")
  /\ \/ Works /\ count' = run[r].n + 1
     \/ Fails /\ UNCHANGED count
  /\ Continues(r, run[r])
  /\ UNCHANGED <<table, details, listed, unread, tangled, overlapped, recached>>

-----------------------------------------------------------------------------
(***************************************************************************)
(* The handlers.                                                           *)
(***************************************************************************)

\* A mistake: the message is cached although it could not be saved.
SaveAnyway(m) ==
  /\ At(m, "idle")
  /\ \/ Works /\ table' = [table EXCEPT ![m] = "unread"]
     \/ Fails /\ UNCHANGED table
  /\ run' = [run EXCEPT ![m].at = "details", ![m].msg = m]
  /\ Overlap(m)
  /\ UNCHANGED <<redis, tangled, recached>>

\* DealChatTextMsgHandler: SaveChatMessage, and nothing more if that fails.
SaveChatMessage(m) ==
  /\ At(m, "idle")
  /\ \/ /\ Works
        /\ table' = [table EXCEPT ![m] = "unread"]
        /\ run' = [run EXCEPT ![m].at = "details", ![m].msg = m]
     \/ Fails /\ UNCHANGED table /\ Goes(m, "done")
  /\ Overlap(m)
  /\ UNCHANGED <<redis, tangled, recached>>

Cut(S, n) == {T \in SUBSET S : Cardinality(T) = IF Cardinality(S) <= n THEN Cardinality(S) ELSE n}

\* GetHistoryMessages begins with the cache.  ZREVRANGE gives LIMIT messages;
\* the first one whose details have expired ends the reading, because the
\* empty field is no number.  A failing command gives none.  Any details may
\* have expired since the last request: only here does anybody read them.
GetRecentMessages(h) ==
  /\ At(h, "idle")
  /\ details' \in SUBSET details
  /\ \E S \in SUBSET listed :
       /\ \/ Works /\ listed \subseteq details' /\ S \in Cut(listed, LIMIT)
          \/ Works /\ ~(listed \subseteq details') /\ S \subseteq details'
             /\ Cardinality(S) <= LIMIT
          \/ Fails /\ S = {}
       /\ run' = [run EXCEPT ![h] = [Idle EXCEPT !.at = "read", !.hit = S, !.start = Stored]]
  /\ Overlap(h)
  /\ UNCHANGED <<table, listed, unread, count, tangled, recached>>

\* A mistake: the table is read only if nothing is cached.
FillUpIfEmpty(h) ==
  /\ At(h, "read") /\ Works
  /\ IF run[h].hit # {} THEN Goes(h, "done") /\ UNCHANGED recached
     ELSE \E D \in Cut(Stored, LIMIT) :
            /\ Continues(h, [run[h] EXCEPT !.rows = D, !.todo = D])
            /\ recached' = (recached \/ D # {})
  /\ UNCHANGED <<table, redis, tangled, overlapped>>

\* Too few: as many from the table as are missing, cached or not, and each of
\* them goes into the cache as a new message.
FillUp(h) ==
  /\ At(h, "read")
  /\ IF Cardinality(run[h].hit) >= LIMIT
     THEN Works /\ Goes(h, "done") /\ UNCHANGED recached
     ELSE \/ /\ Works
             /\ \E D \in Cut(Stored, LIMIT - Cardinality(run[h].hit)) :
                  /\ Continues(h, [run[h] EXCEPT !.rows = D, !.todo = D])
                  /\ recached' = (recached \/ D # {})
          \/ /\ Fails
             /\ run' = [run EXCEPT ![h].at = "done", ![h].failed = TRUE]
             /\ UNCHANGED recached
  /\ UNCHANGED <<table, redis, tangled, overlapped>>

\* MarkMessagesRead: UPDATE of the messages that are unread ...
MarkTable(k) ==
  /\ At(k, "idle")
  /\ \/ Works /\ table' = [m \in Msgs |-> IF table[m] = "unread" THEN "read" ELSE table[m]]
     \/ Fails /\ UNCHANGED table
  /\ Goes(k, "del")
  /\ Overlap(k)
  /\ UNCHANGED <<redis, tangled, recached>>

Uncounted == \E r \in Msgs \cup Histories : run[r].at \in {"hget", "hset"}

\* ... DEL of the queue, whatever came of that ...
MarkQueue(k) ==
  /\ At(k, "del")
  /\ \/ Works /\ unread' = <<>>
     \/ Fails /\ UNCHANGED unread
  /\ Goes(k, "zero")
  /\ tangled' = (tangled \/ Uncounted)
  /\ UNCHANGED <<table, details, listed, count, overlapped, recached>>

\* A mistake: the count is left as it is.
MarkCountKept(k) ==
  /\ At(k, "zero") /\ Works
  /\ Goes(k, "done")
  /\ tangled' = (tangled \/ Uncounted)
  /\ UNCHANGED <<table, redis, overlapped, recached>>

\* ... and HSET of the count.  The status of the cached details stays "0".
MarkCount(k) ==
  /\ At(k, "zero")
  /\ \/ Works /\ count' = 0
     \/ Fails /\ UNCHANGED count
  /\ Goes(k, "done")
  /\ tangled' = (tangled \/ Uncounted)
  /\ UNCHANGED <<table, details, listed, unread, overlapped, recached>>

Next ==
  \/ \E m \in Msgs : SaveChatMessage(m)
  \/ \E r \in Msgs \cup Histories :
       \/ CacheDetails(r) \/ CacheLists(r) \/ CachePush(r)
       \/ CacheGetCount(r) \/ CacheSetCount(r)
  \/ \E h \in Histories : GetRecentMessages(h) \/ FillUp(h)
  \/ \E k \in Marks : MarkTable(k) \/ MarkQueue(k) \/ MarkCount(k)

Spec == Init /\ [][Next]_vars

-----------------------------------------------------------------------------
Quiet == fails = 0 /\ \A r \in Runs : ~Active(r)

\* Between requests the count agrees with the queue as far as the user can
\* tell: it is positive exactly if something is queued.  HGET and HSET of
\* concurrent senders interleave and may lose an increment, but never hide the
\* queue and never count more than there is.  Excepted is a marking that came
\* between the queueing and the counting of a message, or the other way round.
QueueCounted ==
  Quiet /\ ~tangled =>
    /\ count > 0 <=> unread # <<>>
    /\ count <= Len(unread)

\* Between requests the cache announces every message that the table holds as
\* unread; and, until a history request has cached old messages as new ones,
\* only then anything.  Excepted are markings that overlapped other requests.
UnreadIsCounted ==
  LET open == {m \in Msgs : table[m] = "unread"} IN
  Quiet /\ ~overlapped =>
    /\ open # {} => count > 0
    /\ \A m \in open : \E i \in 1 .. Len(unread) : unread[i] = m
    /\ count > 0 /\ ~recached => open # {}

\* A history reply has every message that was stored when it was asked for, if
\* cache and table together do not exceed the limit: whatever has
\* failed to be cached or is being cached at the time.
HistoryComplete ==
  \A h \in Histories :
    At(h, "done") /\ ~run[h].failed /\ Cardinality(run[h].hit) + Cardinality(Stored) <= LIMIT =>
      run[h].start \subseteq run[h].hit \cup run[h].rows
=============================================================================
