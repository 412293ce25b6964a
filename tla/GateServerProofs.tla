--------------------------- MODULE GateServerProofs ---------------------------
(***************************************************************************)
(* Proofs about the gate server: its accounts, for any sets of addresses,  *)
(* codes and requests and any finite set of posts, and its HTTP layer, for *)
(* every number of io_contexts and of connections.  The two share no state *)
(* and each has an inductive invariant of its own.                         *)
(*                                                                         *)
(* The uids that registrations get are unique because the row of user_id   *)
(* is ahead of every committed row while its lock is held, and gives back  *)
(* a number only together with its lock; CountInv counts the numbers given *)
(* out.  That the deadline never cuts off an answer rests on checkDeadline *)
(* being called after the response has been handed to async_write, which   *)
(* Handled records.                                                        *)
(***************************************************************************)
EXTENDS Account, HttpConnection, FiniteSetTheorems, TLAPS

-----------------------------------------------------------------------------
(***************************************************************************)
(* Accounts.                                                               *)
(***************************************************************************)
\* The records of TypeOK.
Request ==
  [at: {"idle", "get", "set", "expire", "mail", "done", "failed"},
   email: Emails \cup {None}, code: Codes \cup {None}]
Post ==
  [at: PostStates, kind: {"none", "register", "forget"},
   name: Names \cup {None}, email: Emails \cup {None},
   pwd: Passwords \cup {None}, uid: 0 .. MaxUid]

\* The state of VarifyServer and Redis, and the state of the gate and MySQL.
CodeTypes ==
  /\ code \in [Emails -> Codes \cup {None}] /\ expiring \subseteq Emails
  /\ request \in [Requests -> Request] /\ mailed \in [Emails -> SUBSET Codes]
GateTypes ==
  /\ post \in [Posts -> Post] /\ users \subseteq User
  /\ userId \in 0 .. MaxUid /\ idLock \in Posts \cup {None}

\* A request under way has an address.
RequestInv ==
  \A v \in Requests :
    /\ request[v].at # "idle" => request[v].email \in Emails
    /\ request[v].at \in {"set", "expire", "mail"} => request[v].code \in Codes

\* The code in Redis has been mailed, or the call that stored or found it will
\* do so or has failed.
CodeInv ==
  \A e \in Emails : code[e] # None =>
    \/ code[e] \in mailed[e]
    \/ \E v \in Requests : /\ request[v].email = e /\ request[v].code = code[e]
                           /\ request[v].at \in {"expire", "mail", "failed"}

CodesInv == CodeTypes /\ RequestInv /\ CodeInv

\* What the callbacks know of a post in each state.
PostInv ==
  \A p \in Posts :
    /\ post[p].at # "idle" =>
         post[p].name \in Names /\ post[p].email \in Emails /\ post[p].pwd \in Passwords
    /\ post[p].at \in {"looked", "unseeded", "bumped"} => post[p].kind = "register"
    /\ post[p].at = "matched" => post[p].kind = "forget"

\* The lock of the row of user_id, and the number its holder has taken.
LockInv ==
  \A p \in Posts :
    /\ post[p].at = "bumped" <=> idLock = p
    /\ post[p].at = "bumped" => post[p].uid = userId /\ userId > 0

\* The posts that have been given a number, and not given it back.
Counted ==
  {p \in Posts : post[p].at = "bumped" \/ (post[p].kind = "register" /\ post[p].at = "done")}
CountInv == userId = Cardinality(Counted)

\* The committed rows and the posts that were told so.
Done(p) == post[p].kind = "register" /\ post[p].at = "done"
RowInv ==
  /\ \A u \in users : u.uid <= Committed
  /\ \A p \in Posts : Done(p) =>
       \E u \in users : u.uid = post[p].uid /\ u.email = post[p].email /\ u.name = post[p].name
  /\ \A p, q \in Posts : Done(p) /\ Done(q) /\ p # q => post[p].uid # post[q].uid

UsersInv == GateTypes /\ PostInv /\ LockInv /\ CountInv /\ RowInv

-----------------------------------------------------------------------------
(***************************************************************************)
(* VarifyServer.                                                           *)
(***************************************************************************)
LEMMA InitCodes == Init => CodesInv
<1> SUFFICES ASSUME Init PROVE CodesInv
  OBVIOUS
<1>1. CodeTypes
  BY DEF Init, CodeTypes, Request
<1>2. RequestInv /\ CodeInv
  BY DEF Init, RequestInv, CodeInv
<1> QED
  BY <1>1, <1>2 DEF CodesInv

\* A call moves on and keeps its address and its code.
LEMMA RequestMoved ==
  ASSUME CodesInv, NEW v \in Requests, NEW to \in {"expire", "mail", "done", "failed"},
         RequestMoves(v, to)
  PROVE  /\ request' \in [Requests -> Request]
         /\ request'[v].at = to
         /\ request'[v].email = request[v].email /\ request'[v].code = request[v].code
         /\ \A w \in Requests \ {v} : request'[w] = request[w]
<1> DEFINE r == [request[v] EXCEPT !.at = to]
<1>1. request[v] \in Request /\ request \in [Requests -> Request]
  BY DEF CodesInv, CodeTypes
<1>2. r \in Request /\ r.at = to /\ r.email = request[v].email /\ r.code = request[v].code
  BY <1>1 DEF Request
<1>3. request' = [request EXCEPT ![v] = r]
  BY DEF RequestMoves
<1> HIDE DEF r
<1> QED
  BY <1>1, <1>2, <1>3

LEMMA GetVarifyCodeStep ==
  ASSUME CodesInv, NEW v \in Requests, NEW e \in Emails, GetVarifyCode(v, e)
  PROVE  CodesInv'
<1> DEFINE r == [at |-> "get", email |-> e, code |-> None]
<1>1. r \in Request /\ r.at = "get" /\ r.email = e
  BY DEF Request
<1>2. /\ request[v].at = "idle" /\ request' = [request EXCEPT ![v] = r]
      /\ UNCHANGED <<code, expiring, mailed>>
  BY DEF GetVarifyCode
<1> HIDE DEF r
<1>3. request'[v] = r /\ \A w \in Requests \ {v} : request'[w] = request[w]
  BY <1>2 DEF CodesInv, CodeTypes
<1>4. CodeTypes'
  BY <1>1, <1>2 DEF CodesInv, CodeTypes
<1>5. RequestInv'
  BY <1>1, <1>3 DEF CodesInv, RequestInv
<1>6. CodeInv'
  BY <1>2, <1>3 DEF CodesInv, CodeInv
<1> QED
  BY <1>4, <1>5, <1>6 DEF CodesInv

LEMMA GetRedisStep ==
  ASSUME CodesInv, NEW v \in Requests, GetRedis(v)
  PROVE  CodesInv'
<1> USE AccountAssumption
<1>1. /\ request[v] \in Request /\ request[v].at = "get" /\ request[v].email \in Emails
      /\ UNCHANGED <<code, expiring, mailed>>
  BY DEF GetRedis, CodesInv, CodeTypes, RequestInv
<1>2. PICK r \in Request :
        /\ request' = [request EXCEPT ![v] = r] /\ r.email = request[v].email
        /\ r.at \in {"mail", "set"} /\ r.code \in Codes
  <2>1. CASE /\ code[request[v].email] # None
             /\ request' = [request EXCEPT ![v].at = "mail", ![v].code = code[request[v].email]]
    <3> DEFINE r == [request[v] EXCEPT !.at = "mail", !.code = code[request[v].email]]
    <3>1. code[request[v].email] \in Codes
      BY <1>1, <2>1 DEF CodesInv, CodeTypes
    <3>2. /\ r \in Request /\ r.email = request[v].email /\ r.at = "mail" /\ r.code \in Codes
      BY <1>1, <3>1 DEF Request
    <3> QED
      BY <2>1, <3>2
  <2>2. ASSUME NEW c \in Codes, request' = [request EXCEPT ![v].at = "set", ![v].code = c]
        PROVE  \E r \in Request :
                 /\ request' = [request EXCEPT ![v] = r] /\ r.email = request[v].email
                 /\ r.at \in {"mail", "set"} /\ r.code \in Codes
    <3> DEFINE r == [request[v] EXCEPT !.at = "set", !.code = c]
    <3>1. /\ r \in Request /\ r.email = request[v].email /\ r.at = "set" /\ r.code \in Codes
      BY <1>1 DEF Request
    <3> QED
      BY <2>2, <3>1
  <2> QED
    BY <2>1, <2>2 DEF GetRedis
<1>3. request'[v] = r /\ \A w \in Requests \ {v} : request'[w] = request[w]
  BY <1>2 DEF CodesInv, CodeTypes
<1>4. CodeTypes'
  BY <1>1, <1>2 DEF CodesInv, CodeTypes
<1>5. RequestInv'
  BY <1>1, <1>2, <1>3 DEF CodesInv, RequestInv
<1>6. CodeInv'
  BY <1>1, <1>3 DEF CodesInv, CodeInv
<1> QED
  BY <1>4, <1>5, <1>6 DEF CodesInv

LEMMA SetRedisStep ==
  ASSUME CodesInv, NEW v \in Requests, SetRedis(v)
  PROVE  CodesInv'
<1> DEFINE e == request[v].email
<1>1. /\ request[v].at = "set" /\ e \in Emails /\ request[v].code \in Codes
      /\ code' = [code EXCEPT ![e] = request[v].code] /\ expiring' = expiring \ {e}
      /\ RequestMoves(v, "expire") /\ UNCHANGED mailed
  BY DEF SetRedis, CodesInv, RequestInv
<1>2. /\ request' \in [Requests -> Request] /\ request'[v].at = "expire"
      /\ request'[v].email = e /\ request'[v].code = request[v].code
      /\ \A w \in Requests \ {v} : request'[w] = request[w]
  BY <1>1, RequestMoved
<1>3. /\ code' \in [Emails -> Codes \cup {None}] /\ code'[e] = request[v].code
      /\ \A f \in Emails \ {e} : code'[f] = code[f]
  BY <1>1 DEF CodesInv, CodeTypes
<1> HIDE DEF e
<1>4. CodeTypes'
  BY <1>1, <1>2, <1>3 DEF CodesInv, CodeTypes
<1>5. RequestInv'
  BY <1>1, <1>2 DEF CodesInv, RequestInv
<1>6. CodeInv'
  BY <1>1, <1>2, <1>3 DEF CodesInv, CodeInv, e
<1> QED
  BY <1>4, <1>5, <1>6 DEF CodesInv

\* EXPIRE, the mail, and a failure: the code in Redis stays.
LEMMA OtherRequestStep ==
  ASSUME CodesInv, NEW v \in Requests, ExpireRedis(v) \/ SendMail(v) \/ RequestFails(v)
  PROVE  CodesInv'
<1>1. PICK to \in {"mail", "done", "failed"} :
        /\ RequestMoves(v, to) /\ UNCHANGED code
        /\ request[v].at \in {"set", "expire", "mail"}
        /\ expiring' = expiring \/ expiring' = expiring \cup {request[v].email}
        /\ IF to = "done"
             THEN mailed' = [mailed EXCEPT ![request[v].email] = @ \cup {request[v].code}]
             ELSE UNCHANGED mailed
  BY DEF ExpireRedis, SendMail, RequestFails
<1>2. /\ request' \in [Requests -> Request] /\ request'[v].at = to
      /\ request'[v].email = request[v].email /\ request'[v].code = request[v].code
      /\ \A w \in Requests \ {v} : request'[w] = request[w]
  BY <1>1, RequestMoved
<1>3. request[v].email \in Emails /\ request[v].code \in Codes
  BY <1>1 DEF CodesInv, RequestInv
<1>4. /\ mailed' \in [Emails -> SUBSET Codes]
      /\ \A e \in Emails : mailed[e] \subseteq mailed'[e]
      /\ to = "done" => request[v].code \in mailed'[request[v].email]
  BY <1>1, <1>3 DEF CodesInv, CodeTypes
<1>5. CodeTypes'
  BY <1>1, <1>2, <1>3, <1>4 DEF CodesInv, CodeTypes
<1>6. RequestInv'
  BY <1>1, <1>2, <1>3 DEF CodesInv, RequestInv
<1>7. CodeInv'
  <2> SUFFICES ASSUME NEW e \in Emails, code[e] # None
               PROVE  \/ code[e] \in mailed'[e]
                      \/ \E w \in Requests : /\ request'[w].email = e /\ request'[w].code = code[e]
                                             /\ request'[w].at \in {"expire", "mail", "failed"}
    BY <1>1 DEF CodeInv
  <2>1. CASE code[e] \in mailed[e]
    BY <2>1, <1>4
  <2>2. ASSUME NEW w \in Requests, request[w].email = e, request[w].code = code[e],
               request[w].at \in {"expire", "mail", "failed"}
        PROVE  \/ code[e] \in mailed'[e]
               \/ /\ request'[w].email = e /\ request'[w].code = code[e]
                  /\ request'[w].at \in {"expire", "mail", "failed"}
    BY <2>2, <1>1, <1>2, <1>4
  <2> QED
    BY <2>1, <2>2 DEF CodesInv, CodeInv
<1> QED
  BY <1>5, <1>6, <1>7 DEF CodesInv

LEMMA ExpireStep ==
  ASSUME CodesInv, NEW e \in Emails, Expire(e)
  PROVE  CodesInv'
<1>1. /\ code' \in [Emails -> Codes \cup {None}] /\ code'[e] = None
      /\ mailed' \in [Emails -> SUBSET Codes] /\ expiring' \subseteq Emails
      /\ \A f \in Emails \ {e} : code'[f] = code[f] /\ mailed'[f] = mailed[f]
      /\ UNCHANGED request
  BY DEF Expire, CodesInv, CodeTypes
<1>2. CodeTypes' /\ RequestInv'
  BY <1>1 DEF CodesInv, CodeTypes, RequestInv
<1>3. CodeInv'
  BY <1>1 DEF CodesInv, CodeInv
<1> QED
  BY <1>2, <1>3 DEF CodesInv

-----------------------------------------------------------------------------
(***************************************************************************)
(* The gate.                                                               *)
(***************************************************************************)
LEMMA MaxUidType == MaxUid \in Nat
  BY AccountAssumption, FS_CardinalityType DEF MaxUid

\* The posts with a number are finitely many, at most one for each post.
LEMMA CountedFinite ==
  /\ IsFiniteSet(Counted)
  /\ Cardinality(Counted) \in 0 .. MaxUid
<1>1. Counted \in SUBSET Posts
  BY DEF Counted
<1>2. IsFiniteSet(Counted) /\ Cardinality(Counted) <= Cardinality(Posts)
  BY <1>1, AccountAssumption, FS_Subset
<1>3. Cardinality(Counted) \in Nat
  BY <1>2, FS_CardinalityType
<1> QED
  BY <1>2, <1>3, MaxUidType DEF MaxUid

LEMMA InitUsers == Init => UsersInv
<1> SUFFICES ASSUME Init PROVE UsersInv
  OBVIOUS
<1> USE AccountAssumption
<1>1. GateTypes
  BY MaxUidType DEF Init, GateTypes, Post, PostStates
<1>2. PostInv
  BY DEF Init, PostInv
<1>3. LockInv
  BY DEF Init, LockInv
<1>4. CountInv
  <2>1. Counted = {}
    BY DEF Init, Counted
  <2> QED
    BY <2>1, FS_EmptySet DEF Init, CountInv
<1>5. RowInv
  BY DEF Init, RowInv, Done
<1> QED
  BY <1>1, <1>2, <1>3, <1>4, <1>5 DEF UsersInv

\* A post moves on and keeps what was posted.
LEMMA PostMoved ==
  ASSUME UsersInv, NEW p \in Posts, NEW to \in PostStates, PostMoves(p, to)
  PROVE  /\ post' \in [Posts -> Post]
         /\ post'[p].at = to /\ post'[p].kind = post[p].kind /\ post'[p].uid = post[p].uid
         /\ post'[p].name = post[p].name /\ post'[p].email = post[p].email
         /\ post'[p].pwd = post[p].pwd
         /\ \A q \in Posts \ {p} : post'[q] = post[q]
<1> DEFINE d == [post[p] EXCEPT !.at = to]
<1>1. post[p] \in Post /\ post \in [Posts -> Post]
  BY DEF UsersInv, GateTypes
<1>2. /\ d \in Post /\ d.at = to /\ d.kind = post[p].kind /\ d.uid = post[p].uid
      /\ d.name = post[p].name /\ d.email = post[p].email /\ d.pwd = post[p].pwd
  BY <1>1 DEF Post
<1>3. post' = [post EXCEPT ![p] = d]
  BY DEF PostMoves
<1> HIDE DEF d
<1> QED
  BY <1>1, <1>2, <1>3

\* A step of a post that neither takes nor gives back a number, and leaves the
\* rows their uids, names and addresses.
LEMMA NumbersKept ==
  ASSUME UsersInv, NEW p \in Posts,
         post' \in [Posts -> Post], \A q \in Posts \ {p} : post'[q] = post[q],
         PostInv', UNCHANGED <<userId, idLock>>,
         post[p].at # "bumped", post'[p].at # "bumped", ~Done(p), ~Done(p)',
         users' \subseteq User,
         \A u \in users' : \E w \in users : w.uid = u.uid,
         \A w \in users : \E u \in users' : u.uid = w.uid /\ u.email = w.email /\ u.name = w.name
  PROVE  UsersInv'
<1>1. GateTypes'
  BY DEF UsersInv, GateTypes
<1>2. LockInv'
  BY DEF UsersInv, LockInv
<1>3. CountInv'
  <2>1. Counted' = Counted
    BY DEF Counted, Done
  <2> QED
    BY <2>1 DEF UsersInv, CountInv
<1>4. RowInv'
  <2>1. Committed' = Committed
    BY DEF Committed
  <2>2. \A u \in users' : u.uid <= Committed'
    BY <2>1 DEF UsersInv, RowInv
  <2>3. \A q \in Posts : Done(q)' => q # p /\ Done(q) /\ post'[q] = post[q]
    BY DEF Done
  <2>4. ASSUME NEW q \in Posts, Done(q)'
        PROVE  \E u \in users' : u.uid = post'[q].uid /\ u.email = post'[q].email /\ u.name = post'[q].name
    <3>1. PICK w \in users : w.uid = post[q].uid /\ w.email = post[q].email /\ w.name = post[q].name
      BY <2>3, <2>4 DEF UsersInv, RowInv
    <3> QED
      BY <2>3, <2>4, <3>1
  <2>5. \A q, r \in Posts : Done(q)' /\ Done(r)' /\ q # r => post'[q].uid # post'[r].uid
    BY <2>3 DEF UsersInv, RowInv
  <2> QED
    BY <2>2, <2>4, <2>5 DEF RowInv
<1> QED
  BY <1>1, <1>2, <1>3, <1>4 DEF UsersInv

\* The steps that change only the post itself.
LEMMA QuietStep ==
  ASSUME UsersInv, NEW p \in Posts, NEW to \in {"failed", "looked", "unseeded", "matched"},
         PostMoves(p, to), UNCHANGED <<users, userId, idLock>>,
         post[p].at \in {"coded", "looked", "unseeded", "matched"},
         to \in {"looked", "unseeded"} => post[p].kind = "register",
         to = "matched" => post[p].kind = "forget"
  PROVE  UsersInv'
<1>1. /\ post' \in [Posts -> Post]
      /\ post'[p].at = to /\ post'[p].kind = post[p].kind /\ post'[p].uid = post[p].uid
      /\ post'[p].name = post[p].name /\ post'[p].email = post[p].email
      /\ post'[p].pwd = post[p].pwd
      /\ \A q \in Posts \ {p} : post'[q] = post[q]
  <2>1. to \in PostStates
    BY DEF PostStates
  <2> QED
    BY <2>1, PostMoved
<1>2. PostInv'
  BY <1>1 DEF UsersInv, PostInv
<1>3. ~Done(p) /\ ~Done(p)' /\ post[p].at # "bumped" /\ post'[p].at # "bumped"
  BY <1>1 DEF Done
<1>4. users' \subseteq User
  BY DEF UsersInv, GateTypes
<1> QED
  BY <1>1, <1>2, <1>3, <1>4, NumbersKept

LEMMA CheckCodeStep ==
  ASSUME UsersInv, NEW p \in Posts, NEW k \in {"register", "forget"}, NEW n \in Names,
         NEW e \in Emails, NEW w \in Passwords, NEW c \in Codes, CheckCode(p, k, n, e, w, c)
  PROVE  UsersInv'
<1> DEFINE d == [at |-> IF code[e] = c THEN "coded" ELSE "failed",
                 kind |-> k, name |-> n, email |-> e, pwd |-> w, uid |-> 0]
<1>1. /\ d \in Post /\ d.at \in {"coded", "failed"} /\ d.name \in Names /\ d.email \in Emails
      /\ d.pwd \in Passwords
  BY MaxUidType DEF Post, PostStates
<1>2. /\ post[p].at = "idle" /\ post' = [post EXCEPT ![p] = d]
      /\ UNCHANGED <<users, userId, idLock>>
  BY DEF CheckCode
<1> HIDE DEF d
<1>3. /\ post' \in [Posts -> Post] /\ post'[p] = d
      /\ \A q \in Posts \ {p} : post'[q] = post[q]
  BY <1>1, <1>2 DEF UsersInv, GateTypes
<1>4. PostInv'
  BY <1>1, <1>3 DEF UsersInv, PostInv
<1>5. ~Done(p) /\ ~Done(p)' /\ post[p].at # "bumped" /\ post'[p].at # "bumped"
  BY <1>1, <1>2, <1>3 DEF Done
<1>6. users' \subseteq User
  BY <1>2 DEF UsersInv, GateTypes
<1> QED
  BY <1>2, <1>3, <1>4, <1>5, <1>6, NumbersKept

LEMMA BumpUserIdStep ==
  ASSUME UsersInv, NEW p \in Posts, BumpUserId(p)
  PROVE  UsersInv'
<1>1. CASE post[p].at = "unseeded" /\ userId > 0
  BY <1>1, QuietStep DEF BumpUserId
<1>2. CASE ~(post[p].at = "unseeded" /\ userId > 0)
  <2> USE AccountAssumption, MaxUidType
  <2> DEFINE d == [post[p] EXCEPT !.at = "bumped", !.uid = userId + 1]
  <2>1. /\ post[p].at \in {"looked", "unseeded"} /\ idLock = None /\ idLock' = p
        /\ userId' = userId + 1 /\ post' = [post EXCEPT ![p] = d] /\ UNCHANGED users
        /\ post[p] \in Post /\ post \in [Posts -> Post] /\ userId \in 0 .. MaxUid
    BY <1>2 DEF BumpUserId, UsersInv, GateTypes
  <2>2. Counted' = Counted \cup {p} /\ p \notin Counted
    BY <2>1 DEF Counted
  <2>3. Cardinality(Counted') = userId + 1
    BY <2>2, CountedFinite, FS_AddElement DEF UsersInv, CountInv
  <2>4. userId + 1 \in 1 .. MaxUid
    <3>1. Counted' \in SUBSET Posts
      BY DEF Counted
    <3>2. Cardinality(Counted') <= Cardinality(Posts)
      BY <3>1, FS_Subset
    <3> QED
      BY <2>1, <2>3, <3>2 DEF MaxUid
  <2>5. /\ d \in Post /\ d.at = "bumped" /\ d.uid = userId + 1 /\ d.kind = post[p].kind
        /\ d.name = post[p].name /\ d.email = post[p].email /\ d.pwd = post[p].pwd
    <3>1. ASSUME NEW q \in Post, NEW i \in 0 .. MaxUid
          PROVE  LET r == [q EXCEPT !.at = "bumped", !.uid = i]
                 IN  /\ r \in Post /\ r.at = "bumped" /\ r.uid = i /\ r.kind = q.kind
                     /\ r.name = q.name /\ r.email = q.email /\ r.pwd = q.pwd
      BY DEF Post, PostStates
    <3>2. userId + 1 \in 0 .. MaxUid
      BY <2>4
    <3> QED
      BY <2>1, <3>1, <3>2
  <2> HIDE DEF d
  <2>6. post'[p] = d /\ \A q \in Posts \ {p} : post'[q] = post[q]
    BY <2>1
  <2>7. GateTypes'
    BY <2>1, <2>4, <2>5 DEF UsersInv, GateTypes
  <2>8. PostInv'
    BY <2>1, <2>5, <2>6 DEF UsersInv, PostInv
  <2>9. LockInv'
    BY <2>1, <2>5, <2>6 DEF UsersInv, LockInv
  <2>10. CountInv'
    BY <2>1, <2>3 DEF CountInv
  <2>11. RowInv'
    <3>1. Committed' = Committed
      BY <2>1 DEF Committed
    <3>2. \A q \in Posts : Done(q)' => Done(q) /\ post'[q] = post[q]
      BY <2>5, <2>6 DEF Done
    <3> QED
      BY <3>1, <3>2, <2>1 DEF UsersInv, RowInv
  <2> QED
    BY <2>7, <2>8, <2>9, <2>10, <2>11 DEF UsersInv
<1> QED
  BY <1>1, <1>2

LEMMA InsertUserStep ==
  ASSUME UsersInv, NEW p \in Posts, InsertUser(p)
  PROVE  UsersInv'
<1> USE AccountAssumption, MaxUidType
<1> DEFINE row == [uid |-> post[p].uid, name |-> post[p].name,
                   email |-> post[p].email, pwd |-> post[p].pwd]
<1>1. /\ post[p].at = "bumped" /\ idLock = p /\ idLock' = None /\ post[p].kind = "register"
      /\ post[p].uid = userId /\ userId \in 1 .. MaxUid
      /\ \A q \in Posts \ {p} : post[q].at # "bumped"
  BY DEF InsertUser, UsersInv, LockInv, PostInv, GateTypes
<1>2. /\ row \in User /\ row.uid = post[p].uid /\ row.name = post[p].name /\ row.email = post[p].email
  BY <1>1 DEF UsersInv, PostInv, User
<1>3. Committed = userId - 1
  BY <1>1 DEF Committed
<1>4. CASE users' = users \cup {row} /\ PostMoves(p, "done") /\ UNCHANGED userId
  <2> HIDE DEF row
  <2>1. /\ post' \in [Posts -> Post]
        /\ post'[p].at = "done" /\ post'[p].kind = post[p].kind /\ post'[p].uid = post[p].uid
        /\ post'[p].name = post[p].name /\ post'[p].email = post[p].email
        /\ post'[p].pwd = post[p].pwd
        /\ \A q \in Posts \ {p} : post'[q] = post[q]
    BY <1>4, PostMoved DEF PostStates
  <2>2. Committed' = userId
    BY <1>1, <1>4 DEF Committed
  <2>3. GateTypes'
    BY <1>1, <1>2, <1>4, <2>1 DEF UsersInv, GateTypes
  <2>4. PostInv'
    BY <1>1, <2>1 DEF UsersInv, PostInv
  <2>5. LockInv'
    BY <1>1, <2>1 DEF LockInv
  <2>6. CountInv'
    <3>1. Counted' = Counted
      BY <1>1, <2>1 DEF Counted
    <3> QED
      BY <1>4, <3>1 DEF UsersInv, CountInv
  <2>7. \A u \in users' : u.uid <= Committed'
    <3>1. \A u \in users : u.uid \in 1 .. MaxUid /\ u.uid <= userId - 1
      BY <1>3 DEF UsersInv, RowInv, GateTypes, User
    <3> QED
      BY <1>1, <1>2, <1>4, <2>2, <3>1
  <2>8. \A q \in Posts : Done(q)' <=> q = p \/ Done(q)
    BY <1>1, <2>1 DEF Done
  <2>9. ASSUME NEW q \in Posts, Done(q)'
        PROVE  \E u \in users' : u.uid = post'[q].uid /\ u.email = post'[q].email /\ u.name = post'[q].name
    <3>1. CASE q = p
      BY <3>1, <1>2, <1>4, <2>1
    <3>2. CASE q # p
      BY <3>2, <1>4, <2>1, <2>8, <2>9 DEF UsersInv, RowInv
    <3> QED
      BY <3>1, <3>2
  <2>10. \A q \in Posts \ {p} : Done(q) => post[q].uid # userId
    <3> SUFFICES ASSUME NEW q \in Posts \ {p}, Done(q) PROVE post[q].uid # userId
      OBVIOUS
    <3>1. PICK u \in users : u.uid = post[q].uid
      BY DEF UsersInv, RowInv
    <3>2. u.uid \in 1 .. MaxUid /\ u.uid <= userId - 1
      BY <1>3 DEF UsersInv, RowInv, GateTypes, User
    <3> QED
      BY <1>1, <3>1, <3>2
  <2>11. \A q, r \in Posts : Done(q)' /\ Done(r)' /\ q # r => post'[q].uid # post'[r].uid
    BY <1>1, <2>1, <2>8, <2>10 DEF UsersInv, RowInv
  <2> QED
    BY <2>3, <2>4, <2>5, <2>6, <2>7, <2>9, <2>11 DEF UsersInv, RowInv
<1>5. CASE PostMoves(p, "failed") /\ userId' = userId - 1 /\ UNCHANGED users
  <2> HIDE DEF row
  <2>1. /\ post' \in [Posts -> Post]
        /\ post'[p].at = "failed" /\ post'[p].kind = post[p].kind
        /\ post'[p].name = post[p].name /\ post'[p].email = post[p].email
        /\ post'[p].pwd = post[p].pwd
        /\ \A q \in Posts \ {p} : post'[q] = post[q]
    BY <1>5, PostMoved DEF PostStates
  <2>2. Committed' = Committed
    BY <1>1, <1>3, <1>5 DEF Committed
  <2>3. GateTypes'
    BY <1>1, <1>5, <2>1 DEF UsersInv, GateTypes
  <2>4. PostInv'
    BY <1>1, <2>1 DEF UsersInv, PostInv
  <2>5. LockInv'
    BY <1>1, <2>1 DEF LockInv
  <2>6. CountInv'
    <3>1. Counted' = Counted \ {p} /\ p \in Counted
      BY <1>1, <2>1 DEF Counted
    <3>2. Cardinality(Counted') = userId - 1
      BY <3>1, CountedFinite, FS_RemoveElement DEF UsersInv, CountInv
    <3> QED
      BY <1>5, <3>2 DEF CountInv
  <2>7. \A q \in Posts : Done(q)' => Done(q) /\ post'[q] = post[q]
    BY <2>1 DEF Done
  <2>8. RowInv'
    BY <1>5, <2>2, <2>7 DEF UsersInv, RowInv
  <2> QED
    BY <2>3, <2>4, <2>5, <2>6, <2>8 DEF UsersInv
<1> QED
  BY <1>4, <1>5 DEF InsertUser

LEMMA UpdatePasswordStep ==
  ASSUME UsersInv, NEW p \in Posts, UpdatePassword(p)
  PROVE  UsersInv'
<1> DEFINE set(u) == IF u.name = post[p].name THEN [u EXCEPT !.pwd = post[p].pwd] ELSE u
<1>1. /\ post[p].at = "matched" /\ post[p].kind = "forget" /\ post[p].pwd \in Passwords
      /\ users' = {set(u) : u \in users} /\ UNCHANGED <<userId, idLock>>
  BY DEF UpdatePassword, UsersInv, PostInv
<1>2. /\ post' \in [Posts -> Post]
      /\ post'[p].at = "done" /\ post'[p].kind = post[p].kind
      /\ post'[p].name = post[p].name /\ post'[p].email = post[p].email
      /\ post'[p].pwd = post[p].pwd
      /\ \A q \in Posts \ {p} : post'[q] = post[q]
  BY PostMoved DEF PostStates, UpdatePassword
<1>3. ASSUME NEW u \in users
      PROVE  /\ set(u) \in User /\ set(u).uid = u.uid
             /\ set(u).email = u.email /\ set(u).name = u.name
  <2>1. u \in User
    BY DEF UsersInv, GateTypes
  <2> QED
    BY <1>1, <2>1 DEF User
<1> HIDE DEF set
<1>4. /\ users' \subseteq User
      /\ \A u \in users' : \E w \in users : w.uid = u.uid
      /\ \A w \in users : \E u \in users' : u.uid = w.uid /\ u.email = w.email /\ u.name = w.name
  BY <1>1, <1>3
<1>5. PostInv'
  BY <1>1, <1>2 DEF UsersInv, PostInv
<1>6. ~Done(p) /\ ~Done(p)'
  BY <1>1, <1>2 DEF Done
<1> QED
  BY <1>1, <1>2, <1>4, <1>5, <1>6, NumbersKept

-----------------------------------------------------------------------------
\* Both invariants are inductive; neither server changes the other's state.
LEMMA StepCodes == CodesInv /\ [Next]_vars => CodesInv'
<1> SUFFICES ASSUME CodesInv, [Next]_vars PROVE CodesInv'
  OBVIOUS
<1>1. CASE UNCHANGED codeVars
  BY <1>1 DEF codeVars, CodesInv, CodeTypes, RequestInv, CodeInv
<1>2. ASSUME NEW v \in Requests, NEW e \in Emails, GetVarifyCode(v, e) PROVE CodesInv'
  BY <1>2, GetVarifyCodeStep
<1>3. ASSUME NEW v \in Requests,
             GetRedis(v) \/ SetRedis(v) \/ ExpireRedis(v) \/ SendMail(v) \/ RequestFails(v)
      PROVE  CodesInv'
  BY <1>3, GetRedisStep, SetRedisStep, OtherRequestStep
<1>4. ASSUME NEW e \in Emails, Expire(e) PROVE CodesInv'
  BY <1>4, ExpireStep
<1>5. ASSUME NEW p \in Posts, NEW k \in {"register", "forget"}, NEW n \in Names, NEW e \in Emails,
             NEW w \in Passwords, NEW c \in Codes, CheckCode(p, k, n, e, w, c)
      PROVE  CodesInv'
  BY <1>1, <1>5 DEF CheckCode
<1>6. ASSUME NEW p \in Posts,
             \/ LookForUser(p) \/ BumpUserId(p) \/ InsertUser(p)
             \/ CheckUsernameEmailMatch(p) \/ UpdatePassword(p) \/ PostFails(p)
      PROVE  CodesInv'
  BY <1>1, <1>6 DEF LookForUser, BumpUserId, InsertUser, CheckUsernameEmailMatch, UpdatePassword,
                    PostFails
<1>7. CASE UNCHANGED vars
  BY <1>1, <1>7 DEF vars
<1> QED
  BY <1>2, <1>3, <1>4, <1>5, <1>6, <1>7 DEF Next

LEMMA StepUsers == UsersInv /\ [Next]_vars => UsersInv'
<1> SUFFICES ASSUME UsersInv, [Next]_vars PROVE UsersInv'
  OBVIOUS
<1>1. CASE UNCHANGED gateVars
  BY <1>1 DEF gateVars, UsersInv, GateTypes, PostInv, LockInv, CountInv, Counted, RowInv, Done, Committed
<1>2. ASSUME NEW v \in Requests, NEW e \in Emails, GetVarifyCode(v, e) PROVE UsersInv'
  BY <1>1, <1>2 DEF GetVarifyCode
<1>3. ASSUME NEW v \in Requests,
             GetRedis(v) \/ SetRedis(v) \/ ExpireRedis(v) \/ SendMail(v) \/ RequestFails(v)
      PROVE  UsersInv'
  BY <1>1, <1>3 DEF GetRedis, SetRedis, ExpireRedis, SendMail, RequestFails
<1>4. ASSUME NEW e \in Emails, Expire(e) PROVE UsersInv'
  BY <1>1, <1>4 DEF Expire
<1>5. ASSUME NEW p \in Posts, NEW k \in {"register", "forget"}, NEW n \in Names, NEW e \in Emails,
             NEW w \in Passwords, NEW c \in Codes, CheckCode(p, k, n, e, w, c)
      PROVE  UsersInv'
  BY <1>5, CheckCodeStep
<1>6. ASSUME NEW p \in Posts, LookForUser(p) \/ CheckUsernameEmailMatch(p) \/ PostFails(p)
      PROVE  UsersInv'
  BY <1>6, QuietStep DEF LookForUser, CheckUsernameEmailMatch, PostFails
<1>7. ASSUME NEW p \in Posts, BumpUserId(p) \/ InsertUser(p) \/ UpdatePassword(p) PROVE UsersInv'
  BY <1>7, BumpUserIdStep, InsertUserStep, UpdatePasswordStep
<1>8. CASE UNCHANGED vars
  BY <1>1, <1>8 DEF vars
<1> QED
  BY <1>2, <1>3, <1>4, <1>5, <1>6, <1>7, <1>8 DEF Next

LEMMA SpecInv == Spec => [](CodesInv /\ UsersInv)
  BY InitCodes, InitUsers, StepCodes, StepUsers, PTL DEF Spec

-----------------------------------------------------------------------------
\* Types; reg_user holds the lock of the row of user_id exactly between its
\* UPDATE and its COMMIT, and never counts past the number of registrations.
THEOREM TypeCorrect == Spec => []TypeOK
<1>1. CodesInv /\ UsersInv => TypeOK
  BY DEF CodesInv, CodeTypes, Request, UsersInv, GateTypes, Post, LockInv, TypeOK
<1> QED
  BY <1>1, SpecInv, PTL

\* A registration that reg_user reported as done has a row, and its uid is
\* nobody else's.
THEOREM RegistrationsDistinct == Spec => []RegisteredIsUnique
<1>1. UsersInv => RegisteredIsUnique
  BY DEF UsersInv, RowInv, Done, RegisteredIsUnique
<1> QED
  BY <1>1, SpecInv, PTL

\* When VarifyServer's calls have ended without failure, the code that Redis
\* holds for an address was mailed to it.
THEOREM MailedCodeValid == Spec => []StoredCodeIsMailed
<1>1. CodesInv => StoredCodeIsMailed
  BY DEF CodesInv, CodeInv, StoredCodeIsMailed
<1> QED
  BY <1>1, SpecInv, PTL

-----------------------------------------------------------------------------
(***************************************************************************)
(* The HTTP layer.                                                         *)
(***************************************************************************)
\* GetIOService goes round the io_contexts, from where it gave the last one.
RoundRobin == next = (service[made] + 1) % Services

\* The connections that have not been made yet.
Unmade == \A c \in Conns : c > made => at[c] = "none"

\* Only a handled request writes or waits; a handled one waits, or has waited,
\* for its deadline, and has begun its answer if it gets one.
Handled ==
  \A c \in Conns :
    IF at[c] = "handled"
      THEN wait[c] # "none" /\ (write[c] = "none" => method[c] = "other")
      ELSE wait[c] = "none" /\ write[c] = "none"

\* The inductive invariant of the HTTP layer.
HttpInv ==
  /\ HttpTypeOK
  /\ RoundRobin
  /\ Unmade
  /\ Handled
  /\ NoEarlyCut
  /\ AnsweredNotHeld

-----------------------------------------------------------------------------
\* What GetIOService computes with a comparison is the successor modulo the
\* number of io_contexts.
LEMMA NextIsSuccessor ==
  ASSUME NEW n \in Nat \ {0}, NEW i \in 0 .. n - 1
  PROVE  /\ (IF i + 1 = n THEN 0 ELSE i + 1) = (i + 1) % n
         /\ (i + 1) % n \in 0 .. n - 1
<1>1. CASE i + 1 = n
  <2>1. n % n = 0
    BY SMT
  <2> QED
    BY <1>1, <2>1
<1>2. CASE i + 1 # n
  <2>1. i + 1 \in 0 .. n - 1
    BY <1>2
  <2>2. (i + 1) % n = i + 1
    BY <2>1, SMT
  <2> QED
    BY <1>2, <2>1, <2>2
<1> QED
  BY <1>1, <1>2

\* The server starts in the invariant.
LEMMA HttpInitInv == HttpInit => HttpInv
<1> SUFFICES ASSUME HttpInit PROVE HttpInv
  OBVIOUS
<1> USE HttpConnectionAssumption DEF HttpInit, Conns
<1>0. 0 \in 0 .. Services - 1 /\ 1 \in Conns
  OBVIOUS
<1>1. 1 % Services \in 0 .. Services - 1
  BY <1>0, NextIsSuccessor, 0 + 1 = 1
<1>2. HttpTypeOK
  BY <1>0, <1>1 DEF HttpTypeOK, Phases, Methods
<1>3. RoundRobin /\ Unmade
  BY DEF RoundRobin, Unmade
<1>4. Handled /\ NoEarlyCut /\ AnsweredNotHeld
  BY DEF Handled, NoEarlyCut, AnsweredNotHeld
<1> QED
  BY <1>2, <1>3, <1>4 DEF HttpInv

\* Accepting, or failing to: the next connection object takes its place.
LEMMA HttpStartInv ==
  ASSUME HttpInv, NEW c \in Conns, NEW phase \in {"reading", "gone"},
         at[c] = "accepting", Start(c, phase),
         UNCHANGED <<method, due, write, wait, socket, busy, cut>>
  PROVE  HttpInv'
<1> USE HttpConnectionAssumption DEF Conns
<1>1. c = made /\ made \in Nat /\ made + 1 \in Conns /\ made + 1 # made
  <2>1. {d \in Conns : at[d] = "accepting"} = {made}
    BY DEF HttpInv, HttpTypeOK
  <2>2. c \in {made}
    BY <2>1
  <2>3. made \in Conns /\ made < MaxConns
    BY DEF HttpInv, HttpTypeOK, Start
  <2> QED
    BY <2>2, <2>3
<1>2. /\ service' = [service EXCEPT ![made + 1] = next]
      /\ at' = [at EXCEPT ![c] = phase, ![made + 1] = "accepting"]
      /\ made' = made + 1
  BY DEF Start
<1>3. next' = (next + 1) % Services /\ next' \in 0 .. Services - 1
  <2>1. next \in 0 .. Services - 1 /\ Services \in Nat \ {0}
    BY DEF HttpInv, HttpTypeOK
  <2>2. next' = IF next + 1 = Services THEN 0 ELSE next + 1
    BY DEF Start
  <2> QED
    BY <2>1, <2>2, NextIsSuccessor
<1>4. service'[made'] = next /\ \A d \in Conns : d # made' => service'[d] = service[d]
  BY <1>1, <1>2 DEF HttpInv, HttpTypeOK
<1>5. \A d \in Conns : at'[d] = IF d = made' THEN "accepting" ELSE IF d = made THEN phase ELSE at[d]
  BY <1>1, <1>2 DEF HttpInv, HttpTypeOK
<1>6. HttpTypeOK'
  <2>1. /\ made' \in Conns /\ next' \in 0 .. Services - 1
        /\ service' \in [Conns -> 0 .. Services - 1]
        /\ at' \in [Conns -> Phases]
    BY <1>1, <1>2, <1>3 DEF HttpInv, HttpTypeOK, Phases
  <2>2. {d \in Conns : at'[d] = "accepting"} = {made'}
    BY <1>1, <1>2, <1>5 DEF HttpInv, HttpTypeOK
  <2>3. ASSUME NEW d \in 1 .. made' - 1
        PROVE  service'[d + 1] = (service'[d] + 1) % Services
    <3>1. CASE d = made
      BY <3>1, <1>1, <1>2, <1>4 DEF HttpInv, RoundRobin
    <3>2. CASE d # made
      <4>1. d \in 1 .. made - 1 /\ d \in Conns /\ d + 1 \in Conns /\ d # made' /\ d + 1 # made'
        BY <3>2, <1>1, <1>2
      <4> QED
        BY <4>1, <1>4 DEF HttpInv, HttpTypeOK
    <3> QED
      BY <3>1, <3>2
  <2> QED
    BY <2>1, <2>2, <2>3 DEF HttpInv, HttpTypeOK
<1>7. RoundRobin'
  BY <1>3, <1>4 DEF RoundRobin
<1>8. Unmade'
  <2> SUFFICES ASSUME NEW d \in Conns, d > made' PROVE at'[d] = "none"
    BY DEF Unmade
  <2>1. d \in Nat /\ d > made /\ d # made /\ d # made'
    BY <1>1, <1>2
  <2> QED
    BY <2>1, <1>5 DEF HttpInv, Unmade
<1>9. Handled'
  <2> SUFFICES ASSUME NEW d \in Conns
               PROVE  IF at'[d] = "handled"
                        THEN wait[d] # "none" /\ (write[d] = "none" => method[d] = "other")
                        ELSE wait[d] = "none" /\ write[d] = "none"
    BY DEF Handled
  <2>1. at[made'] = "none"
    BY <1>1, <1>2 DEF HttpInv, Unmade
  <2> QED
    BY <2>1, <1>1, <1>5 DEF HttpInv, Handled
<1>10. NoEarlyCut' /\ AnsweredNotHeld'
  BY DEF HttpInv, NoEarlyCut, AnsweredNotHeld
<1> QED
  BY <1>6, <1>7, <1>8, <1>9, <1>10 DEF HttpInv

\* Every other step of the server: the callbacks of one connection.
LEMMA HttpCallbackInv ==
  ASSUME HttpInv, NEW c \in Conns,
         \/ ReadFails(c) \/ \E m \in Methods : RequestRead(c, m)
         \/ Thread(c) \/ TimePasses(c) \/ Expires(c)
  PROVE  HttpInv'
<1> USE HttpConnectionAssumption
<1>1. UNCHANGED <<made, next, service>>
  BY DEF ReadFails, RequestRead, Thread, HandleReq, HandleReqEnds, HandleReqThrows,
         Written, Deadline, TimePasses, Expires
<1>2. at' = at \/ \E ph \in {"read", "handling", "handled", "gone"} :
         at' = [at EXCEPT ![c] = ph] /\ at[c] \in {"reading", "read", "handling"}
  BY DEF ReadFails, RequestRead, Thread, HandleReq, HandleReqEnds, HandleReqThrows,
         Written, Deadline, TimePasses, Expires
<1>3. /\ at' \in [Conns -> Phases]
      /\ {d \in Conns : at'[d] = "accepting"} = {d \in Conns : at[d] = "accepting"}
  <2>1. at \in [Conns -> Phases]
    BY DEF HttpInv, HttpTypeOK
  <2>2. CASE at' = at
    BY <2>1, <2>2
  <2>3. ASSUME NEW ph \in {"read", "handling", "handled", "gone"},
               at' = [at EXCEPT ![c] = ph], at[c] \in {"reading", "read", "handling"}
        PROVE  /\ at' \in [Conns -> Phases]
               /\ \A d \in Conns : at'[d] = "accepting" <=> at[d] = "accepting"
    BY <2>1, <2>3 DEF Phases
  <2> QED
    BY <1>2, <2>2, <2>3
<1>4. Unmade'
  BY <1>1, <1>2 DEF HttpInv, HttpTypeOK, Unmade
<1>5. RoundRobin'
  BY <1>1 DEF HttpInv, RoundRobin
<1>6. ASSUME ReadFails(c) PROVE HttpInv'
  <2>1. HttpTypeOK'
    BY <1>6, <1>1, <1>3 DEF HttpInv, HttpTypeOK, ReadFails
  <2>2. Handled'
    BY <1>6 DEF HttpInv, HttpTypeOK, Handled, ReadFails
  <2> QED
    BY <1>6, <1>4, <1>5, <2>1, <2>2 DEF HttpInv, NoEarlyCut, AnsweredNotHeld, ReadFails
<1>7. ASSUME NEW m \in Methods, RequestRead(c, m) PROVE HttpInv'
  <2>1. HttpTypeOK'
    BY <1>7, <1>1, <1>3 DEF HttpInv, HttpTypeOK, RequestRead
  <2>2. Handled'
    BY <1>7 DEF HttpInv, HttpTypeOK, Handled, RequestRead
  <2> QED
    BY <1>7, <1>4, <1>5, <2>1, <2>2 DEF HttpInv, NoEarlyCut, AnsweredNotHeld, RequestRead
<1>8. ASSUME HandleReq(c) PROVE HttpInv'
  <2>1. HttpTypeOK'
    BY <1>8, <1>1, <1>3 DEF HttpInv, HttpTypeOK, HandleReq
  <2>2. Handled'
    BY <1>8 DEF HttpInv, HttpTypeOK, Handled, HandleReq
  <2> QED
    BY <1>8, <1>4, <1>5, <2>1, <2>2 DEF HttpInv, NoEarlyCut, AnsweredNotHeld, HandleReq
<1>9. ASSUME HandleReqEnds(c) PROVE HttpInv'
  <2>1. HttpTypeOK'
    BY <1>9, <1>1, <1>3 DEF HttpInv, HttpTypeOK, HandleReqEnds
  <2>2. Handled'
    BY <1>9 DEF HttpInv, HttpTypeOK, Handled, HandleReqEnds
  <2>3. AnsweredNotHeld'
    BY <1>9 DEF HttpInv, HttpTypeOK, AnsweredNotHeld, HandleReqEnds
  <2> QED
    BY <1>9, <1>4, <1>5, <2>1, <2>2, <2>3 DEF HttpInv, NoEarlyCut, HandleReqEnds
<1>10. ASSUME HandleReqThrows(c) PROVE HttpInv'
  <2>1. HttpTypeOK'
    BY <1>10, <1>1, <1>3 DEF HttpInv, HttpTypeOK, HandleReqThrows
  <2>2. Handled'
    BY <1>10 DEF HttpInv, HttpTypeOK, Handled, HandleReqThrows
  <2> QED
    BY <1>10, <1>4, <1>5, <2>1, <2>2 DEF HttpInv, NoEarlyCut, AnsweredNotHeld, HandleReqThrows
<1>11. ASSUME Written(c) PROVE HttpInv'
  <2>1. HttpTypeOK'
    BY <1>11, <1>1, <1>3 DEF HttpInv, HttpTypeOK, Written
  <2>2. Handled'
    BY <1>11 DEF HttpInv, HttpTypeOK, Handled, Written
  <2>3. AnsweredNotHeld'
    BY <1>11 DEF HttpInv, HttpTypeOK, Handled, AnsweredNotHeld, Written
  <2> QED
    BY <1>11, <1>4, <1>5, <2>1, <2>2, <2>3 DEF HttpInv, NoEarlyCut, Written
<1>12. ASSUME Deadline(c) PROVE HttpInv'
  <2>1. cut' = cut
    BY <1>12 DEF HttpInv, Handled, Deadline
  <2>2. HttpTypeOK'
    BY <1>12, <1>1, <1>3, <2>1 DEF HttpInv, HttpTypeOK, Deadline
  <2>3. Handled'
    BY <1>12 DEF HttpInv, HttpTypeOK, Handled, Deadline
  <2>4. AnsweredNotHeld'
    BY <1>12 DEF HttpInv, HttpTypeOK, AnsweredNotHeld, Deadline
  <2> QED
    BY <1>4, <1>5, <2>1, <2>2, <2>3, <2>4 DEF HttpInv, NoEarlyCut
<1>13. ASSUME TimePasses(c) PROVE HttpInv'
  <2>1. HttpTypeOK'
    BY <1>13, <1>1, <1>3 DEF HttpInv, HttpTypeOK, TimePasses
  <2> QED
    BY <1>13, <1>4, <1>5, <2>1 DEF HttpInv, Handled, NoEarlyCut, AnsweredNotHeld, TimePasses
<1>14. ASSUME Expires(c) PROVE HttpInv'
  <2>1. HttpTypeOK'
    BY <1>14, <1>1, <1>3 DEF HttpInv, HttpTypeOK, Expires
  <2>2. Handled'
    BY <1>14 DEF HttpInv, HttpTypeOK, Handled, Expires
  <2>3. AnsweredNotHeld'
    BY <1>14 DEF HttpInv, HttpTypeOK, AnsweredNotHeld, Expires
  <2> QED
    BY <1>14, <1>4, <1>5, <2>1, <2>2, <2>3 DEF HttpInv, NoEarlyCut, Expires
<1> QED
  BY <1>6, <1>7, <1>8, <1>9, <1>10, <1>11, <1>12, <1>13, <1>14 DEF Thread

\* The invariant is inductive.
LEMMA HttpStepInv == HttpInv /\ [HttpNext]_httpVars => HttpInv'
<1> SUFFICES ASSUME HttpInv, [HttpNext]_httpVars PROVE HttpInv'
  OBVIOUS
<1>1. CASE UNCHANGED httpVars
  BY <1>1 DEF httpVars, HttpInv, HttpTypeOK, RoundRobin, Unmade, Handled, NoEarlyCut, AnsweredNotHeld
<1>2. ASSUME NEW c \in Conns, Accept(c) \/ AcceptFails(c) PROVE HttpInv'
  <2>1. \E phase \in {"reading", "gone"} : Start(c, phase)
    BY <1>2 DEF Accept, AcceptFails
  <2> QED
    BY <1>2, <2>1, HttpStartInv DEF Accept, AcceptFails
<1>3. ASSUME NEW c \in Conns,
             \/ ReadFails(c) \/ \E m \in Methods : RequestRead(c, m)
             \/ Thread(c) \/ TimePasses(c) \/ Expires(c)
      PROVE  HttpInv'
  BY <1>3, HttpCallbackInv
<1> QED
  BY <1>1, <1>2, <1>3 DEF HttpNext

LEMMA HttpSpecInv == HttpSpec => []HttpInv
  BY HttpInitInv, HttpStepInv, PTL DEF HttpSpec

-----------------------------------------------------------------------------
\* Types; CServer always waits for exactly one connection, the last one made,
\* and GetIOService puts neighbours on neighbouring io_contexts.
THEOREM HttpTypeCorrect == HttpSpec => []HttpTypeOK
<1>1. HttpInv => HttpTypeOK
  BY DEF HttpInv
<1> QED
  BY <1>1, HttpSpecInv, PTL

\* checkDeadline never closes the socket of a request that will be answered,
\* however long the connection waited and whatever blocks the threads.
THEOREM DeadlineSparesAnswers == HttpSpec => []NoEarlyCut
<1>1. HttpInv => NoEarlyCut
  BY DEF HttpInv
<1> QED
  BY <1>1, HttpSpecInv, PTL

\* The cancel in the callback of async_write always finds the wait begun: an
\* answered connection is not held until its deadline.
THEOREM AnswerReleases == HttpSpec => []AnsweredNotHeld
<1>1. HttpInv => AnsweredNotHeld
  BY DEF HttpInv
<1> QED
  BY <1>1, HttpSpecInv, PTL
=============================================================================
