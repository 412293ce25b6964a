-------------------------- MODULE LoadBalanceProofs --------------------------
(***************************************************************************)
(* Proofs about the choice of a chat server and about the login counts,    *)
(* for any finite sets of servers, calls and logins, with and without      *)
(* failing Redis commands.                                                 *)
(*                                                                         *)
(* Neither property is inductive.  CountNeverAhead says nothing of the     *)
(* value a login has read and not written yet: ReadInv bounds it.          *)
(* ChosenIsLeast speaks of the end of a selection only: SelectInv says     *)
(* what holds after each round of the loop, and that the registry is       *)
(* the one the order was taken from.                                       *)
(***************************************************************************)
EXTENDS LoadBalance, FiniteSetTheorems, TLAPS

LoginStates == [at: {"idle", "read", "done"}, srv: Servers \cup {None},
                seen: 0 .. Cardinality(Logins)]

ChatTypes ==
  /\ proc \in [Servers -> {"down", "registered", "serving", "exiting"}]
  /\ count \in [Servers -> 0 .. INT_MAX]
  /\ login \in [Logins -> LoginStates]
  /\ counted \in [Servers -> 0 .. Cardinality(Logins)]

StatusTypes ==
  /\ servers \subseteq Servers
  /\ mutex \in Calls \cup {None}
  /\ connCount \in [Servers -> 0 .. INT_MAX]
  /\ call \in [Calls -> CallStates]
  /\ token \in [Uids -> Calls \cup {None}]
  /\ answered \in {"none", "Success", "UidInvalid", "TokenInvalid"}
  /\ \A c \in Calls : call[c].at = "select" <=> mutex = c

\* No number exceeds the logins that have ended, whatever process counted them.
Done == {h \in Logins : login[h].at = "done"}

CountInv ==
  /\ \A s \in Servers : /\ counted[s] <= Cardinality(Done)
                        /\ count[s] # INT_MAX => count[s] <= Cardinality(Done)
  /\ \A h \in Logins : login[h].seen <= Cardinality(Done)

\* A login between its read and its write runs in a serving process, and what
\* it read is not ahead of that process.
ReadInv ==
  \A h \in Logins : login[h].at = "read" =>
    /\ login[h].srv \in Servers
    /\ proc[login[h].srv] \in {"serving", "exiting"}
    /\ login[h].seen <= counted[login[h].srv]

\* During a selection: the order covers the registry, and the candidate is the
\* least of those compared so far, or the first one before the first round.
SelectInv ==
  \A c \in Calls : call[c].at = "select" =>
    /\ call[c].order \in Orders(servers) /\ servers # {}
    /\ call[c].next \in 1 .. Cardinality(servers) + 1
    /\ \E j \in 1 .. Cardinality(servers) :
         /\ j < call[c].next \/ j = 1
         /\ call[c].min = call[c].order[j]
    /\ \A i \in 1 .. call[c].next - 1 :
         connCount[call[c].min] <= connCount[call[c].order[i]]

ChatInv == ChatTypes /\ CountInv /\ ReadInv /\ CountNeverAhead
StatusInv == StatusTypes /\ SelectInv
LoadInv == ChatInv /\ StatusInv

-----------------------------------------------------------------------------
(***************************************************************************)
(* The chat servers: logins and counts.                                    *)
(***************************************************************************)
LEMMA Sizes ==
  /\ IsFiniteSet(Logins) /\ Cardinality(Logins) \in Nat
  /\ INT_MAX \in Nat /\ INT_MAX = Cardinality(Logins) + 1
BY LoadBalanceAssumption, FS_CardinalityType DEF INT_MAX

\* The logins that have ended are counted; they only become more.
LEMMA DoneCounts ==
  /\ Cardinality(Done) \in Nat /\ Cardinality(Done) <= Cardinality(Logins)
  /\ Cardinality(Done') \in Nat /\ Cardinality(Done') <= Cardinality(Logins)
  /\ Done \subseteq Done' => Cardinality(Done) <= Cardinality(Done')
  /\ \A h \in Logins : h \notin Done /\ Done' = Done \cup {h} =>
       Cardinality(Done') = Cardinality(Done) + 1
<1>1. IsFiniteSet(Logins)
  BY Sizes
<1>2. Done \subseteq Logins /\ Done' \subseteq Logins
  BY DEF Done
<1>3. IsFiniteSet(Done) /\ IsFiniteSet(Done')
  BY <1>1, <1>2, FS_Subset
<1>4. /\ Cardinality(Done) \in Nat /\ Cardinality(Done) <= Cardinality(Logins)
      /\ Cardinality(Done') \in Nat /\ Cardinality(Done') <= Cardinality(Logins)
  BY <1>1, <1>2, <1>3, FS_Subset, FS_CardinalityType
<1>5. Done \subseteq Done' => Cardinality(Done) <= Cardinality(Done')
  BY <1>3, FS_Subset
<1>6. \A h \in Logins : h \notin Done /\ Done' = Done \cup {h} =>
        Cardinality(Done') = Cardinality(Done) + 1
  BY <1>3, FS_AddElement
<1> QED
  BY <1>4, <1>5, <1>6

LEMMA ChatFrame == ChatInv /\ UNCHANGED chatVars => ChatInv'
<1> SUFFICES ASSUME ChatInv, UNCHANGED chatVars PROVE ChatInv'
  OBVIOUS
<1>1. proc' = proc /\ count' = count /\ login' = login /\ counted' = counted
  BY DEF chatVars
<1>2. Done' = Done
  BY <1>1 DEF Done
<1> QED
  BY <1>1, <1>2 DEF ChatInv, ChatTypes, CountInv, ReadInv, CountNeverAhead

\* A new process has no logins yet: those of the one before ended with it.
LEMMA RegisterChat == \A s \in Servers : ChatInv /\ Register(s) => ChatInv'
<1> SUFFICES ASSUME NEW s \in Servers, ChatInv, Register(s) PROVE ChatInv'
  OBVIOUS
<1>1. /\ proc \in [Servers -> {"down", "registered", "serving", "exiting"}]
      /\ proc[s] = "down" /\ proc' = [proc EXCEPT ![s] = "registered"]
      /\ count' = count /\ login' = login /\ counted' = counted
  BY DEF ChatInv, ChatTypes, Register
<1>2. proc'[s] = "registered" /\ \A r \in Servers \ {s} : proc'[r] = proc[r]
  BY <1>1
<1>3. ChatTypes'
  BY <1>1 DEF ChatInv, ChatTypes
<1>4. CountInv'
  <2>1. Done' = Done
    BY <1>1 DEF Done
  <2> QED
    BY <1>1, <2>1 DEF ChatInv, CountInv
<1>5. ReadInv'
  BY <1>1, <1>2 DEF ChatInv, ReadInv
<1>6. CountNeverAhead'
  BY <1>1, <1>2 DEF ChatInv, CountNeverAhead
<1> QED
  BY <1>3, <1>4, <1>5, <1>6 DEF ChatInv

\* The process begins to serve with the count at zero, or with what is left.
LEMMA ResetCountChat == \A s \in Servers : ChatInv /\ ResetCount(s) => ChatInv'
<1> SUFFICES ASSUME NEW s \in Servers, ChatInv, ResetCount(s) PROVE ChatInv'
  OBVIOUS
<1> DEFINE v == IF count'[s] = INT_MAX THEN 0 ELSE count'[s]
<1>0. /\ proc \in [Servers -> {"down", "registered", "serving", "exiting"}]
      /\ count \in [Servers -> 0 .. INT_MAX] /\ counted \in [Servers -> 0 .. Cardinality(Logins)]
      /\ proc[s] = "registered" /\ login' = login
  BY DEF ChatInv, ChatTypes, ResetCount
<1>1. proc'[s] = "serving" /\ \A r \in Servers \ {s} : proc'[r] = proc[r]
  BY <1>0 DEF ResetCount
<1>2. /\ count' \in [Servers -> 0 .. INT_MAX]
      /\ count'[s] = 0 \/ count'[s] = count[s]
      /\ \A r \in Servers \ {s} : count'[r] = count[r]
  BY <1>0, Sizes DEF ResetCount
<1>3. v \in 0 .. Cardinality(Logins)
  BY <1>2, Sizes
<1>4. /\ counted' \in [Servers -> 0 .. Cardinality(Logins)]
      /\ counted'[s] = v /\ \A r \in Servers \ {s} : counted'[r] = counted[r]
  BY <1>0, <1>3 DEF ResetCount
<1>5. ChatTypes'
  <2>1. proc' \in [Servers -> {"down", "registered", "serving", "exiting"}]
    BY <1>0 DEF ResetCount
  <2> QED
    BY <1>0, <1>2, <1>4, <2>1 DEF ChatInv, ChatTypes
<1>6. CountInv'
  <2>1. Done' = Done /\ Cardinality(Done) \in Nat
    BY <1>0, DoneCounts DEF Done
  <2>2. /\ counted'[s] <= Cardinality(Done)
        /\ count'[s] # INT_MAX => count'[s] <= Cardinality(Done)
    BY <1>2, <1>4, <2>1 DEF ChatInv, CountInv
  <2> QED
    BY <1>0, <1>2, <1>4, <2>1, <2>2 DEF ChatInv, CountInv
<1>7. ReadInv'
  <2>1. \A h \in Logins : login[h].at = "read" => login[h].srv # s
    BY <1>0 DEF ChatInv, ReadInv
  <2> QED
    BY <1>0, <1>1, <1>4, <2>1 DEF ChatInv, ReadInv
<1>8. CountNeverAhead'
  <2>1. count'[s] # INT_MAX => count'[s] <= counted'[s]
    BY <1>2, <1>4, Sizes
  <2> QED
    BY <1>1, <1>2, <1>4, <2>1 DEF ChatInv, CountNeverAhead
<1> QED
  BY <1>5, <1>6, <1>7, <1>8 DEF ChatInv

\* A clean exit while handlers still run: what they read stays bounded.
LEMMA DeleteCountChat == \A s \in Servers : ChatInv /\ DeleteCount(s) => ChatInv'
<1> SUFFICES ASSUME NEW s \in Servers, ChatInv, DeleteCount(s) PROVE ChatInv'
  OBVIOUS
<1>0. /\ proc \in [Servers -> {"down", "registered", "serving", "exiting"}]
      /\ count \in [Servers -> 0 .. INT_MAX]
      /\ proc[s] = "serving" /\ login' = login /\ counted' = counted
  BY DEF ChatInv, ChatTypes, DeleteCount
<1>1. proc'[s] = "exiting" /\ \A r \in Servers \ {s} : proc'[r] = proc[r]
  BY <1>0 DEF DeleteCount
<1>2. /\ count' \in [Servers -> 0 .. INT_MAX]
      /\ \A r \in Servers : count'[r] = INT_MAX \/ count'[r] = count[r]
  BY <1>0, Sizes DEF DeleteCount
<1>3. ChatTypes'
  <2>1. proc' \in [Servers -> {"down", "registered", "serving", "exiting"}]
    BY <1>0 DEF DeleteCount
  <2> QED
    BY <1>0, <1>2, <2>1 DEF ChatInv, ChatTypes
<1>4. CountInv'
  <2>1. Done' = Done
    BY <1>0 DEF Done
  <2> QED
    BY <1>0, <1>2, <2>1 DEF ChatInv, CountInv
<1>5. ReadInv'
  BY <1>0, <1>1 DEF ChatInv, ReadInv
<1>6. CountNeverAhead'
  BY <1>0, <1>1, <1>2 DEF ChatInv, CountNeverAhead
<1> QED
  BY <1>3, <1>4, <1>5, <1>6 DEF ChatInv

\* The end of a process is the end of its logins.
LEMMA EndProcessChat == \A s \in Servers : ChatInv /\ EndProcess(s) => ChatInv'
<1> SUFFICES ASSUME NEW s \in Servers, ChatInv, EndProcess(s) PROVE ChatInv'
  OBVIOUS
<1>0. /\ proc \in [Servers -> {"down", "registered", "serving", "exiting"}]
      /\ count' = count /\ counted' = counted
  BY DEF ChatInv, ChatTypes, EndProcess
<1>1. proc'[s] = "down" /\ \A r \in Servers \ {s} : proc'[r] = proc[r]
  BY <1>0 DEF EndProcess
<1>2. ASSUME NEW h \in Logins
      PROVE  /\ login'[h] \in LoginStates
             /\ login'[h].srv = login[h].srv /\ login'[h].seen = login[h].seen
             /\ login'[h].at # login[h].at => login'[h].at = "done"
             /\ login'[h].at = "read" => login[h].at = "read" /\ login[h].srv # s
  <2>0. login[h] \in LoginStates
    BY DEF ChatInv, ChatTypes
  <2>1. login'[h] = IF login[h].srv = s /\ login[h].at = "read"
                      THEN [login[h] EXCEPT !.at = "done"] ELSE login[h]
    BY DEF EndProcess
  <2> QED
    BY <2>0, <2>1 DEF LoginStates
<1>3. ChatTypes'
  <2>1. login' \in [Logins -> LoginStates]
    BY <1>2 DEF EndProcess
  <2>2. proc' \in [Servers -> {"down", "registered", "serving", "exiting"}]
    BY <1>0 DEF EndProcess
  <2> QED
    BY <1>0, <2>1, <2>2 DEF ChatInv, ChatTypes
<1>4. CountInv'
  <2>1. Done \subseteq Done'
    BY <1>2 DEF Done
  <2>2. /\ Cardinality(Done) <= Cardinality(Done')
        /\ Cardinality(Done) \in Nat /\ Cardinality(Done') \in Nat
    BY <2>1, DoneCounts
  <2>3. ASSUME NEW r \in Servers PROVE counted[r] \in Nat /\ count[r] \in Nat
    BY Sizes DEF ChatInv, ChatTypes
  <2>4. ASSUME NEW h \in Logins PROVE login[h].seen \in Nat
    BY Sizes DEF ChatInv, ChatTypes, LoginStates
  <2>5. ASSUME NEW r \in Servers
        PROVE  /\ counted'[r] <= Cardinality(Done')
               /\ count'[r] # INT_MAX => count'[r] <= Cardinality(Done')
    BY <1>0, <2>2, <2>3 DEF ChatInv, CountInv
  <2>6. ASSUME NEW h \in Logins PROVE login'[h].seen <= Cardinality(Done')
    BY <1>2, <2>2, <2>4 DEF ChatInv, CountInv
  <2> QED
    BY <2>5, <2>6, Sizes DEF CountInv, INT_MAX
<1>5. ReadInv'
  BY <1>0, <1>1, <1>2 DEF ChatInv, ReadInv
<1>6. CountNeverAhead'
  BY <1>0, <1>1 DEF ChatInv, CountNeverAhead
<1> QED
  BY <1>3, <1>4, <1>5, <1>6 DEF ChatInv

\* A login reads 0 or a count that is not ahead.
LEMMA LoginReadsCountChat ==
  \A h \in Logins, s \in Servers : ChatInv /\ LoginReadsCount(h, s) => ChatInv'
<1> SUFFICES ASSUME NEW h \in Logins, NEW s \in Servers, ChatInv, LoginReadsCount(h, s)
             PROVE  ChatInv'
  OBVIOUS
<1>0. /\ proc' = proc /\ count' = count /\ counted' = counted
      /\ proc[s] \in {"serving", "exiting"} /\ login[h].at = "idle"
      /\ count[s] \in 0 .. INT_MAX /\ counted[s] \in 0 .. Cardinality(Logins)
      /\ login \in [Logins -> LoginStates]
      /\ Cardinality(Done) \in Nat /\ Cardinality(Done) <= Cardinality(Logins)
  BY DoneCounts DEF ChatInv, ChatTypes, LoginReadsCount
<1>1. PICK v : /\ v = 0 \/ (count[s] # INT_MAX /\ v = count[s])
               /\ login' = [login EXCEPT ![h] = [at |-> "read", srv |-> s, seen |-> v]]
  <2>1. PICK v \in {IF count[s] = INT_MAX THEN 0 ELSE count[s]}
                   \cup (IF RedisFails THEN {0} ELSE {}) :
          login' = [login EXCEPT ![h] = [at |-> "read", srv |-> s, seen |-> v]]
    BY Zenon DEF LoginReadsCount
  <2>2. v = 0 \/ (count[s] # INT_MAX /\ v = count[s])
    <3>1. CASE count[s] = INT_MAX
      BY <2>1, <3>1
    <3>2. CASE count[s] # INT_MAX
      BY <2>1, <3>2
    <3> QED
      BY <3>1, <3>2
  <2> QED
    BY <2>1, <2>2
<1>2. v \in 0 .. Cardinality(Logins) /\ v <= counted[s] /\ v <= Cardinality(Done)
  BY <1>0, <1>1, Sizes DEF ChatInv, CountInv, CountNeverAhead
<1>3. [at |-> "read", srv |-> s, seen |-> v] \in LoginStates
  BY <1>2 DEF LoginStates
<1>4. /\ login' \in [Logins -> LoginStates]
      /\ login'[h] = [at |-> "read", srv |-> s, seen |-> v]
      /\ \A g \in Logins \ {h} : login'[g] = login[g]
  BY <1>0, <1>1, <1>3
<1>5. ChatTypes'
  BY <1>0, <1>4 DEF ChatInv, ChatTypes
<1>6. CountInv'
  <2>1. Done' = Done
    BY <1>0, <1>4 DEF Done
  <2> QED
    BY <1>0, <1>2, <1>4, <2>1 DEF ChatInv, CountInv
<1>7. ReadInv'
  BY <1>0, <1>2, <1>4 DEF ChatInv, ReadInv
<1>8. CountNeverAhead'
  BY <1>0 DEF ChatInv, CountNeverAhead
<1> QED
  BY <1>5, <1>6, <1>7, <1>8 DEF ChatInv

\* The write: one more login, and a count one above what was read, however old.
LEMMA LoginWritesCountChat ==
  \A h \in Logins : ChatInv /\ LoginWritesCount(h) => ChatInv'
<1> SUFFICES ASSUME NEW h \in Logins, ChatInv, LoginWritesCount(h) PROVE ChatInv'
  OBVIOUS
<1> DEFINE s == login[h].srv
<1>0. /\ login[h].at = "read" /\ s \in Servers /\ proc' = proc
      /\ login[h].seen <= counted[s]
      /\ login \in [Logins -> LoginStates] /\ login[h] \in LoginStates
      /\ login[h].seen \in 0 .. Cardinality(Logins) /\ counted[s] \in 0 .. Cardinality(Logins)
      /\ count \in [Servers -> 0 .. INT_MAX] /\ counted \in [Servers -> 0 .. Cardinality(Logins)]
  BY DEF ChatInv, ChatTypes, ReadInv, LoginStates, LoginWritesCount
<1>1. /\ login' = [login EXCEPT ![h].at = "done"]
      /\ counted' = [counted EXCEPT ![s] = counted[s] + 1]
      /\ count' = [count EXCEPT ![s] = login[h].seen + 1] \/ count' = count
  BY DEF LoginWritesCount
<1>2. /\ login'[h].at = "done" /\ login'[h].seen = login[h].seen
      /\ login'[h] \in LoginStates
      /\ \A g \in Logins \ {h} : login'[g] = login[g]
      /\ login' \in [Logins -> LoginStates]
  <2>1. [login[h] EXCEPT !.at = "done"] \in LoginStates
        /\ [login[h] EXCEPT !.at = "done"].seen = login[h].seen
        /\ [login[h] EXCEPT !.at = "done"].at = "done"
    BY <1>0 DEF LoginStates
  <2> QED
    BY <1>0, <1>1, <2>1
<1> HIDE DEF s
<1>3. /\ Cardinality(Done) \in Nat /\ Cardinality(Done') = Cardinality(Done) + 1
      /\ Cardinality(Done') <= Cardinality(Logins)
  <2>1. h \notin Done /\ Done' = Done \cup {h}
    BY <1>0, <1>2 DEF Done
  <2> QED
    BY <2>1, DoneCounts
<1>4. counted[s] <= Cardinality(Done) /\ login[h].seen <= Cardinality(Done)
  BY <1>0 DEF ChatInv, CountInv
<1>5. counted[s] + 1 \in 0 .. Cardinality(Logins) /\ login[h].seen + 1 \in 0 .. Cardinality(Logins)
  BY <1>0, <1>3, <1>4, Sizes
<1>6. /\ counted' \in [Servers -> 0 .. Cardinality(Logins)]
      /\ counted'[s] = counted[s] + 1 /\ \A r \in Servers \ {s} : counted'[r] = counted[r]
  BY <1>0, <1>1, <1>5
<1>7. /\ count' \in [Servers -> 0 .. INT_MAX]
      /\ count'[s] = login[h].seen + 1 \/ count'[s] = count[s]
      /\ \A r \in Servers \ {s} : count'[r] = count[r]
  BY <1>0, <1>1, <1>5, Sizes
<1>8. ChatTypes'
  BY <1>0, <1>2, <1>6, <1>7 DEF ChatInv, ChatTypes
<1>9. CountInv'
  <2>1. ASSUME NEW r \in Servers
        PROVE  /\ counted'[r] <= Cardinality(Done')
               /\ count'[r] # INT_MAX => count'[r] <= Cardinality(Done')
    <3>1. counted[r] \in Nat /\ count[r] \in Nat /\ counted[r] <= Cardinality(Done)
          /\ (count[r] # INT_MAX => count[r] <= Cardinality(Done))
      BY <1>0, Sizes DEF ChatInv, CountInv
    <3> QED
      BY <1>0, <1>3, <1>4, <1>6, <1>7, <3>1
  <2>2. ASSUME NEW g \in Logins PROVE login'[g].seen <= Cardinality(Done')
    <3>1. login[g].seen \in Nat /\ login[g].seen <= Cardinality(Done)
      BY Sizes DEF ChatInv, ChatTypes, CountInv, LoginStates
    <3>2. login'[g].seen = login[g].seen
      BY <1>2
    <3> QED
      BY <1>3, <3>1, <3>2
  <2> QED
    BY <2>1, <2>2, Sizes DEF CountInv, INT_MAX
<1>10. ReadInv'
  <2> SUFFICES ASSUME NEW g \in Logins, login'[g].at = "read"
               PROVE  /\ login'[g].srv \in Servers
                      /\ proc'[login'[g].srv] \in {"serving", "exiting"}
                      /\ login'[g].seen <= counted'[login'[g].srv]
    BY DEF ReadInv
  <2>1. g # h /\ login'[g] = login[g]
    BY <1>2
  <2>2. /\ login[g].srv \in Servers /\ proc[login[g].srv] \in {"serving", "exiting"}
        /\ login[g].seen <= counted[login[g].srv]
        /\ login[g].seen \in Nat /\ counted[login[g].srv] \in Nat
    BY <2>1, Sizes DEF ChatInv, ChatTypes, ReadInv, LoginStates
  <2>3. counted'[login[g].srv] \in {counted[login[g].srv], counted[login[g].srv] + 1}
    BY <1>6, <2>2
  <2> QED
    BY <1>0, <2>1, <2>2, <2>3
<1>11. CountNeverAhead'
  <2> SUFFICES ASSUME NEW r \in Servers, proc'[r] \in {"serving", "exiting"}, count'[r] # INT_MAX
               PROVE  count'[r] <= counted'[r]
    BY Sizes DEF CountNeverAhead, INT_MAX
  <2>1. CASE r # s
    BY <1>0, <1>6, <1>7, <2>1 DEF ChatInv, CountNeverAhead
  <2>2. CASE r = s
    <3>1. count[s] # INT_MAX => count[s] <= counted[s]
      BY <1>0, <2>2 DEF ChatInv, CountNeverAhead
    <3>2. count[s] \in Nat /\ counted[s] \in Nat
      BY <1>0, Sizes
    <3> QED
      BY <1>0, <1>6, <1>7, <2>2, <3>1, <3>2
  <2> QED
    BY <2>1, <2>2
<1> QED
  BY <1>8, <1>9, <1>10, <1>11 DEF ChatInv

-----------------------------------------------------------------------------
(***************************************************************************)
(* The status server: registry and selection.                              *)
(***************************************************************************)

\* The orders of a registry: as many entries as servers, each server once.
LEMMA OrderCovers ==
  ASSUME NEW S \in SUBSET Servers, NEW p \in Orders(S)
  PROVE  /\ Cardinality(S) \in Nat /\ Cardinality(S) <= Cardinality(Servers)
         /\ Cardinality(Servers) \in Nat
         /\ S # {} => Cardinality(S) > 0
         /\ Len(p) = Cardinality(S) /\ DOMAIN p = 1 .. Cardinality(S)
         /\ \A i \in 1 .. Cardinality(S) : p[i] \in S
         /\ \A i, j \in 1 .. Cardinality(S) : p[i] = p[j] => i = j
         /\ \A x \in S : \E i \in 1 .. Cardinality(S) : p[i] = x
<1> DEFINE n == Cardinality(S)
<1>1. IsFiniteSet(Servers)
  BY LoadBalanceAssumption
<1>2. IsFiniteSet(S) /\ n \in Nat /\ n <= Cardinality(Servers) /\ Cardinality(Servers) \in Nat
  BY <1>1, FS_Subset, FS_CardinalityType
<1>3. S # {} => n > 0
  BY <1>2, FS_EmptySet
<1>4. p \in [1 .. n -> S] /\ IsInjective(p)
  BY DEF Orders
<1> HIDE DEF n
<1>5. p \in Injection(1 .. n, S)
  BY <1>4 DEF Injection
<1>6. Cardinality(1 .. n) = n
  BY <1>2, FS_Interval
<1>7. p \in Surjection(1 .. n, S)
  BY <1>2, <1>5, <1>6, FS_Injection DEF n
<1>8. Len(p) = n /\ DOMAIN p = 1 .. n
  BY <1>2, <1>4
<1> QED
  BY <1>2, <1>3, <1>4, <1>7, <1>8 DEF IsInjective, Surjection, n

LEMMA StatusFrame == StatusInv /\ UNCHANGED statusVars => StatusInv'
<1> SUFFICES ASSUME StatusInv, UNCHANGED statusVars PROVE StatusInv'
  OBVIOUS
<1>1. /\ servers' = servers /\ mutex' = mutex /\ connCount' = connCount /\ call' = call
      /\ token' = token /\ answered' = answered
  BY DEF statusVars
<1>2. StatusTypes'
  BY <1>1 DEF StatusInv, StatusTypes
<1>3. SelectInv'
  BY <1>1 DEF StatusInv, SelectInv
<1> QED
  BY <1>2, <1>3 DEF StatusInv

\* While nobody holds the mutex, nobody selects: the registry may change.
LEMMA RegistryChanges ==
  ASSUME StatusInv, mutex = None, servers' \subseteq Servers,
         connCount' \in [Servers -> 0 .. INT_MAX],
         UNCHANGED <<mutex, call, token, answered>>
  PROVE  StatusInv'
<1>1. \A c \in Calls : call'[c].at # "select"
  BY LoadBalanceAssumption DEF StatusInv, StatusTypes
<1>2. StatusTypes'
  BY DEF StatusInv, StatusTypes
<1>3. SelectInv'
  BY <1>1 DEF SelectInv
<1> QED
  BY <1>2, <1>3 DEF StatusInv

LEMMA RegistryStatus ==
  \A s \in Servers :
    StatusInv /\ (Register(s) \/ EraseEntry(s) \/ Reregister(s)) => StatusInv'
<1> SUFFICES ASSUME NEW s \in Servers, StatusInv,
                    Register(s) \/ EraseEntry(s) \/ Reregister(s)
             PROVE  StatusInv'
  OBVIOUS
<1>1. servers \subseteq Servers /\ connCount \in [Servers -> 0 .. INT_MAX]
  BY DEF StatusInv, StatusTypes
<1>2. /\ mutex = None /\ servers' \subseteq Servers
      /\ UNCHANGED <<mutex, call, token, answered>>
      /\ connCount' = connCount \/ connCount' = [connCount EXCEPT ![s] = 0]
  BY <1>1 DEF Register, EraseEntry, Reregister
<1>3. connCount' \in [Servers -> 0 .. INT_MAX]
  BY <1>1, <1>2, Sizes
<1> QED
  BY <1>2, <1>3, RegistryChanges

\* Calls that do not select do not matter to those that do.
LEMMA CallMoves ==
  ASSUME StatusInv, NEW c \in Calls, NEW r \in CallStates, r.at # "select",
         call' = [call EXCEPT ![c] = r],
         mutex' = mutex \/ (mutex = c /\ mutex' = None),
         call[c].at = "select" => mutex' = None,
         token' \in [Uids -> Calls \cup {None}],
         UNCHANGED <<servers, connCount, answered>>
  PROVE  StatusInv'
<1>0. call \in [Calls -> CallStates] /\ mutex \in Calls \cup {None}
      /\ \A d \in Calls : call[d].at = "select" <=> mutex = d
  BY DEF StatusInv, StatusTypes
<1>1. call'[c] = r /\ (\A d \in Calls \ {c} : call'[d] = call[d]) /\ call' \in [Calls -> CallStates]
  BY <1>0
<1>2. \A d \in Calls : call'[d].at = "select" <=> mutex' = d
  BY <1>0, <1>1, LoadBalanceAssumption
<1>3. StatusTypes'
  BY <1>0, <1>1, <1>2, LoadBalanceAssumption DEF StatusInv, StatusTypes
<1>4. SelectInv'
  <2>1. \A d \in Calls : call'[d].at = "select" => call'[d] = call[d]
    BY <1>1
  <2> QED
    BY <2>1 DEF StatusInv, SelectInv
<1> QED
  BY <1>3, <1>4 DEF StatusInv

\* An empty sequence is the order of the empty registry.
LEMMA EmptyOrder == <<>> \in UNION {Orders(S) : S \in SUBSET Servers}
<1>1. Cardinality({}) = 0
  BY FS_EmptySet
<1>2. <<>> \in Orders({})
  BY <1>1 DEF Orders, IsInjective
<1> QED
  BY <1>2

LEMMA NewCallType == NewCall \in CallStates
<1>1. Cardinality(Servers) \in Nat
  BY LoadBalanceAssumption, FS_CardinalityType
<1>2. 1 \in 1 .. Cardinality(Servers) + 1
  BY <1>1
<1> QED
  BY <1>2, EmptyOrder DEF NewCall, CallStates

LEMMA NoServerStatus ==
  \A c \in Calls, u \in Uids : StatusInv /\ NoServer(c, u) => StatusInv'
<1> SUFFICES ASSUME NEW c \in Calls, NEW u \in Uids, StatusInv, NoServer(c, u) PROVE StatusInv'
  OBVIOUS
<1> DEFINE r == [NewCall EXCEPT !.at = "done", !.uid = u, !.error = "Success"]
<1>1. r \in CallStates /\ r.at = "done"
  BY NewCallType DEF CallStates
<1> HIDE DEF r
<1>2. /\ call' = [call EXCEPT ![c] = r] /\ call[c].at = "idle"
      /\ UNCHANGED <<servers, mutex, connCount, token, answered>>
  BY DEF NoServer, r
<1>3. token \in [Uids -> Calls \cup {None}]
  BY DEF StatusInv, StatusTypes
<1> QED
  <2>1. mutex' = mutex /\ token' \in [Uids -> Calls \cup {None}] /\ r.at # "select"
    BY <1>1, <1>2, <1>3
  <2>2. UNCHANGED <<servers, connCount, answered>> /\ call[c].at # "select"
    BY <1>2
  <2> QED
    BY <1>1, <1>2, <2>1, <2>2, CallMoves

LEMMA SelectBeginStatus ==
  \A c \in Calls, u \in Uids : ChatInv /\ StatusInv /\ SelectBegin(c, u) => StatusInv'
<1> SUFFICES ASSUME NEW c \in Calls, NEW u \in Uids, ChatInv, StatusInv, SelectBegin(c, u)
             PROVE  StatusInv'
  OBVIOUS
<1>0. /\ servers \subseteq Servers /\ servers # {} /\ mutex = None
      /\ connCount \in [Servers -> 0 .. INT_MAX] /\ call \in [Calls -> CallStates]
      /\ \A d \in Calls : call[d].at # "select"
      /\ servers' = servers /\ mutex' = c /\ token' = token /\ answered' = answered
  BY LoadBalanceAssumption DEF StatusInv, StatusTypes, SelectBegin
<1>1. PICK p \in Orders(servers) : \E v \in CountRead(p[1]) :
        /\ call' = [call EXCEPT ![c] = [NewCall EXCEPT
                      !.at = "select", !.uid = u, !.order = p, !.min = p[1]]]
        /\ connCount' = [connCount EXCEPT ![p[1]] = v]
  BY DEF SelectBegin
<1>2. /\ Cardinality(servers) \in Nat /\ Cardinality(servers) > 0
      /\ p[1] \in servers
  BY <1>0, OrderCovers
<1>3. PICK v \in CountRead(p[1]) :
        /\ call' = [call EXCEPT ![c] = [NewCall EXCEPT
                      !.at = "select", !.uid = u, !.order = p, !.min = p[1]]]
        /\ connCount' = [connCount EXCEPT ![p[1]] = v]
  BY <1>1
<1>4. connCount' \in [Servers -> 0 .. INT_MAX]
  <2>1. v \in 0 .. INT_MAX
    BY <1>0, <1>2, Sizes DEF CountRead, ChatInv, ChatTypes
  <2> QED
    BY <1>0, <1>3, <2>1
<1> DEFINE r == [NewCall EXCEPT !.at = "select", !.uid = u, !.order = p, !.min = p[1]]
<1>5. /\ r \in CallStates /\ r.at = "select" /\ r.order = p /\ r.min = p[1] /\ r.next = 1
  <2>1. p \in UNION {Orders(S) : S \in SUBSET Servers}
    BY <1>0
  <2>2. p[1] \in Servers
    BY <1>0, <1>2
  <2>3. NewCall.next = 1
    BY DEF NewCall
  <2> QED
    BY <2>1, <2>2, <2>3, NewCallType DEF CallStates
<1>6. call' = [call EXCEPT ![c] = r]
  BY <1>3
<1> HIDE DEF r
<1>7. call'[c] = r /\ (\A d \in Calls \ {c} : call'[d] = call[d]) /\ call' \in [Calls -> CallStates]
  BY <1>0, <1>5, <1>6
<1>8. StatusTypes'
  <2>1. \A d \in Calls : call'[d].at = "select" <=> mutex' = d
    BY <1>0, <1>5, <1>7
  <2> QED
    BY <1>0, <1>4, <1>7, <2>1 DEF StatusInv, StatusTypes
<1>9. SelectInv'
  <2> SUFFICES ASSUME NEW d \in Calls, call'[d].at = "select"
               PROVE  /\ call'[d].order \in Orders(servers') /\ servers' # {}
                      /\ call'[d].next \in 1 .. Cardinality(servers') + 1
                      /\ \E j \in 1 .. Cardinality(servers') :
                           /\ j < call'[d].next \/ j = 1
                           /\ call'[d].min = call'[d].order[j]
                      /\ \A i \in 1 .. call'[d].next - 1 :
                           connCount'[call'[d].min] <= connCount'[call'[d].order[i]]
    BY DEF SelectInv
  <2>1. d = c
    BY <1>0, <1>7
  <2>2. 1 \in 1 .. Cardinality(servers)
    BY <1>2
  <2> QED
    BY <1>0, <1>2, <1>5, <1>7, <2>1, <2>2
<1> QED
  BY <1>8, <1>9 DEF StatusInv

\* One round: the candidate stays the least of those compared, also when its
\* own entry, read a second time, has changed in between.
LEMMA SelectNextStatus ==
  \A c \in Calls : ChatInv /\ StatusInv /\ SelectNext(c) => StatusInv'
<1> SUFFICES ASSUME NEW c \in Calls, ChatInv, StatusInv, SelectNext(c) PROVE StatusInv'
  OBVIOUS
<1> DEFINE n == Cardinality(servers)
           k == call[c].next
           p == call[c].order
           m == call[c].min
           s == p[k]
<1>0. /\ servers \subseteq Servers /\ mutex = c
      /\ connCount \in [Servers -> 0 .. INT_MAX] /\ call \in [Calls -> CallStates]
      /\ \A d \in Calls : call[d].at = "select" <=> mutex = d
      /\ call[c] \in CallStates /\ call[c].at = "select"
      /\ servers' = servers /\ mutex' = mutex /\ token' = token /\ answered' = answered
  BY DEF StatusInv, StatusTypes, SelectNext
<1>1. /\ p \in Orders(servers) /\ servers # {} /\ k \in 1 .. n + 1
      /\ \E j \in 1 .. n : (j < k \/ j = 1) /\ m = p[j]
      /\ \A i \in 1 .. k - 1 : connCount[m] <= connCount[p[i]]
  BY <1>0 DEF StatusInv, SelectInv
<1>2. /\ n \in Nat /\ n <= Cardinality(Servers) /\ Cardinality(Servers) \in Nat
      /\ Len(p) = n
      /\ \A i \in 1 .. n : p[i] \in servers
      /\ \A i, j \in 1 .. n : p[i] = p[j] => i = j
  BY <1>0, <1>1, OrderCovers
<1>3. k <= Len(p) /\ \E v \in CountRead(s) :
        /\ connCount' = [connCount EXCEPT ![s] = v]
        /\ call' = [call EXCEPT ![c].next = k + 1,
                                ![c].min = IF v < connCount'[m] THEN s ELSE m]
  BY <1>0 DEF SelectNext
<1>4. PICK v \in CountRead(s) :
        /\ connCount' = [connCount EXCEPT ![s] = v]
        /\ call' = [call EXCEPT ![c].next = k + 1,
                                ![c].min = IF v < connCount'[m] THEN s ELSE m]
  BY <1>3
<1>5. k \in 1 .. n /\ s \in servers /\ s \in Servers /\ m \in servers /\ m \in Servers
  BY <1>0, <1>1, <1>2, <1>3
<1>6. v \in 0 .. INT_MAX
  BY <1>5, Sizes DEF CountRead, ChatInv, ChatTypes
<1>7. /\ connCount' \in [Servers -> 0 .. INT_MAX] /\ connCount'[s] = v
      /\ \A x \in Servers \ {s} : connCount'[x] = connCount[x]
  BY <1>0, <1>4, <1>5, <1>6
<1> DEFINE q == IF v < connCount'[m] THEN s ELSE m
           r == [call[c] EXCEPT !.next = k + 1, !.min = q]
<1>8. q \in Servers /\ (v < connCount'[m] => q = s) /\ (~(v < connCount'[m]) => q = m)
  BY <1>5
<1>9. call' = [call EXCEPT ![c] = r]
  BY <1>0, <1>4
<1> HIDE DEF q
<1>10. r \in CallStates /\ r.at = "select" /\ r.order = p /\ r.min = q /\ r.next = k + 1
  <2>1. k + 1 \in 1 .. Cardinality(Servers) + 1
    BY <1>2, <1>5
  <2> QED
    BY <1>0, <1>8, <2>1 DEF CallStates
<1> HIDE DEF r, n, k, p, m, s
<1>11. call'[c] = r /\ (\A d \in Calls \ {c} : call'[d] = call[d]) /\ call' \in [Calls -> CallStates]
  BY <1>0, <1>9, <1>10
<1>12. StatusTypes'
  <2>1. \A d \in Calls : call'[d].at = "select" <=> mutex' = d
    BY <1>0, <1>10, <1>11
  <2> QED
    BY <1>0, <1>7, <1>11, <2>1 DEF StatusInv, StatusTypes
<1>13. \E j \in 1 .. n : (j < k + 1 \/ j = 1) /\ q = p[j]
  <2>1. CASE q = s
    BY <1>2, <1>5, <2>1 DEF s
  <2>2. CASE q = m
    BY <1>1, <1>2, <1>5, <2>2
  <2> QED
    BY <1>8, <2>1, <2>2
<1>14. ASSUME NEW i \in 1 .. k PROVE connCount'[q] <= connCount'[p[i]]
  <2>0. k \in Nat /\ k >= 1 /\ i \in 1 .. n /\ p[i] \in Servers
    BY <1>0, <1>2, <1>5
  <2>1. PICK j \in 1 .. n : (j < k \/ j = 1) /\ m = p[j]
    BY <1>1
  <2>2. /\ connCount'[m] \in Nat /\ connCount'[s] \in Nat /\ connCount'[p[i]] \in Nat
        /\ connCount[m] \in Nat /\ connCount[p[i]] \in Nat /\ v \in Nat
    BY <1>0, <1>5, <1>6, <1>7, <2>0, Sizes
  <2>3. CASE i = k
    <3>1. p[i] = s /\ connCount'[p[i]] = v
      BY <1>7, <2>3 DEF s
    <3>2. CASE v < connCount'[m]
      BY <1>7, <1>8, <2>2, <3>1, <3>2
    <3>3. CASE ~(v < connCount'[m])
      BY <1>8, <2>2, <3>1, <3>3
    <3> QED
      BY <3>2, <3>3
  <2>4. CASE i # k
    <3>1. i \in 1 .. k - 1 /\ k > 1
      BY <2>0, <2>4
    <3>2. p[i] # s /\ m # s
      BY <1>2, <1>5, <2>0, <2>1, <3>1 DEF s
    <3>3. connCount'[p[i]] = connCount[p[i]] /\ connCount'[m] = connCount[m]
      BY <1>5, <1>7, <2>0, <3>2
    <3>4. connCount'[m] <= connCount'[p[i]]
      BY <1>1, <3>1, <3>3
    <3>5. CASE v < connCount'[m]
      BY <1>7, <1>8, <2>2, <3>4, <3>5
    <3>6. CASE ~(v < connCount'[m])
      BY <1>8, <3>4, <3>6
    <3> QED
      BY <3>5, <3>6
  <2> QED
    BY <2>3, <2>4
<1>15. SelectInv'
  <2> SUFFICES ASSUME NEW d \in Calls, call'[d].at = "select"
               PROVE  /\ call'[d].order \in Orders(servers') /\ servers' # {}
                      /\ call'[d].next \in 1 .. Cardinality(servers') + 1
                      /\ \E j \in 1 .. Cardinality(servers') :
                           /\ j < call'[d].next \/ j = 1
                           /\ call'[d].min = call'[d].order[j]
                      /\ \A i \in 1 .. call'[d].next - 1 :
                           connCount'[call'[d].min] <= connCount'[call'[d].order[i]]
    BY DEF SelectInv
  <2>1. d = c
    BY <1>0, <1>11
  <2>2. Cardinality(servers') = n
    BY <1>0 DEF n
  <2>3. k + 1 \in 1 .. n + 1 /\ 1 .. (k + 1) - 1 = 1 .. k
    BY <1>2, <1>5
  <2>4. /\ call'[d].order = p /\ call'[d].next = k + 1 /\ call'[d].min = q
    BY <1>10, <1>11, <2>1
  <2> QED
    BY <1>0, <1>1, <1>13, <1>14, <2>2, <2>3, <2>4
<1> QED
  BY <1>12, <1>15 DEF StatusInv

LEMMA SelectEndStatus == \A c \in Calls : StatusInv /\ SelectEnd(c) => StatusInv'
<1> SUFFICES ASSUME NEW c \in Calls, StatusInv, SelectEnd(c) PROVE StatusInv'
  OBVIOUS
<1>0. /\ call \in [Calls -> CallStates] /\ call[c] \in CallStates
      /\ call[c].at = "select" /\ mutex = c /\ token \in [Uids -> Calls \cup {None}]
  BY DEF StatusInv, StatusTypes, SelectEnd
<1> DEFINE r == [call[c] EXCEPT !.at = "insert", !.error = "Success"]
<1>1. r \in CallStates /\ r.at = "insert"
  BY <1>0 DEF CallStates
<1>2. /\ call' = [call EXCEPT ![c] = r] /\ mutex' = None
      /\ UNCHANGED <<servers, connCount, token, answered>>
  BY <1>0 DEF SelectEnd
<1> HIDE DEF r
<1> QED
  BY <1>0, <1>1, <1>2, CallMoves

LEMMA InsertTokenStatus == \A c \in Calls : StatusInv /\ InsertToken(c) => StatusInv'
<1> SUFFICES ASSUME NEW c \in Calls, StatusInv, InsertToken(c) PROVE StatusInv'
  OBVIOUS
<1>0. /\ call \in [Calls -> CallStates] /\ call[c] \in CallStates
      /\ call[c].at = "insert" /\ token \in [Uids -> Calls \cup {None}]
  BY DEF StatusInv, StatusTypes, InsertToken
<1> DEFINE r == [call[c] EXCEPT !.at = "done"]
<1>1. r \in CallStates /\ r.at = "done"
  BY <1>0 DEF CallStates
<1>2. /\ call' = [call EXCEPT ![c] = r]
      /\ UNCHANGED <<servers, mutex, connCount, answered>>
  BY <1>0 DEF InsertToken
<1> HIDE DEF r
<1>3. token' \in [Uids -> Calls \cup {None}]
  BY <1>0 DEF InsertToken
<1> QED
  <2>1. mutex' = mutex /\ r.at # "select" /\ call[c].at # "select"
    BY <1>0, <1>1, <1>2
  <2>2. UNCHANGED <<servers, connCount, answered>>
    BY <1>2
  <2> QED
    BY <1>1, <1>2, <1>3, <2>1, <2>2, CallMoves

LEMMA LoginStatus ==
  \A u \in Uids, t \in Calls \cup {None} : StatusInv /\ Login(u, t) => StatusInv'
<1> SUFFICES ASSUME NEW u \in Uids, NEW t \in Calls \cup {None}, StatusInv, Login(u, t)
             PROVE  StatusInv'
  OBVIOUS
<1>1. /\ servers' = servers /\ mutex' = mutex /\ connCount' = connCount /\ call' = call
      /\ token' = token
  BY DEF Login
<1>2. answered' \in {"none", "Success", "UidInvalid", "TokenInvalid"}
  BY DEF Login
<1>3. StatusTypes'
  BY <1>1, <1>2 DEF StatusInv, StatusTypes
<1>4. SelectInv'
  BY <1>1 DEF StatusInv, SelectInv
<1> QED
  BY <1>3, <1>4 DEF StatusInv

-----------------------------------------------------------------------------
LEMMA InitInv == Init => LoadInv
<1> SUFFICES ASSUME Init PROVE LoadInv
  OBVIOUS
<1>1. ChatTypes /\ StatusTypes
  <2>1. login \in [Logins -> LoginStates]
    BY Sizes DEF Init, LoginStates
  <2>2. count \in [Servers -> 0 .. INT_MAX] /\ counted \in [Servers -> 0 .. Cardinality(Logins)]
        /\ connCount \in [Servers -> 0 .. INT_MAX]
    BY Sizes DEF Init
  <2>3. call \in [Calls -> CallStates] /\ \A c \in Calls : call[c].at = "idle"
    BY NewCallType DEF Init, NewCall
  <2> QED
    BY <2>1, <2>2, <2>3, LoadBalanceAssumption DEF Init, ChatTypes, StatusTypes
<1>2. CountInv
  BY DoneCounts DEF Init, CountInv
<1>3. ReadInv /\ CountNeverAhead
  BY DEF Init, ReadInv, CountNeverAhead
<1>4. SelectInv
  BY DEF Init, SelectInv, NewCall
<1> QED
  BY <1>1, <1>2, <1>3, <1>4 DEF LoadInv, ChatInv, StatusInv

LEMMA StepInv == LoadInv /\ [Next]_vars => LoadInv'
<1> SUFFICES ASSUME LoadInv, [Next]_vars PROVE LoadInv'
  OBVIOUS
<1>0. ChatInv /\ StatusInv
  BY DEF LoadInv
<1>1. ASSUME NEW s \in Servers, Register(s) \/ EraseEntry(s) \/ Reregister(s) PROVE LoadInv'
  <2>1. StatusInv'
    BY <1>0, <1>1, RegistryStatus
  <2>2. ChatInv'
    BY <1>0, <1>1, RegisterChat, ChatFrame DEF EraseEntry, Reregister
  <2> QED
    BY <2>1, <2>2 DEF LoadInv
<1>2. ASSUME NEW s \in Servers, ResetCount(s) \/ DeleteCount(s) \/ EndProcess(s) PROVE LoadInv'
  <2>1. StatusInv'
    BY <1>0, <1>2, StatusFrame DEF ResetCount, DeleteCount, EndProcess
  <2>2. ChatInv'
    BY <1>0, <1>2, ResetCountChat, DeleteCountChat, EndProcessChat
  <2> QED
    BY <2>1, <2>2 DEF LoadInv
<1>3. ASSUME NEW h \in Logins, (\E s \in Servers : LoginReadsCount(h, s)) \/ LoginWritesCount(h)
      PROVE  LoadInv'
  <2>1. StatusInv'
    BY <1>0, <1>3, StatusFrame DEF LoginReadsCount, LoginWritesCount
  <2>2. ChatInv'
    BY <1>0, <1>3, LoginReadsCountChat, LoginWritesCountChat
  <2> QED
    BY <2>1, <2>2 DEF LoadInv
<1>4. ASSUME NEW c \in Calls, NEW u \in Uids, NoServer(c, u) \/ SelectBegin(c, u) PROVE LoadInv'
  <2>1. StatusInv'
    BY <1>0, <1>4, NoServerStatus, SelectBeginStatus
  <2>2. ChatInv'
    BY <1>0, <1>4, ChatFrame DEF NoServer, SelectBegin
  <2> QED
    BY <2>1, <2>2 DEF LoadInv
<1>5. ASSUME NEW c \in Calls, SelectNext(c) \/ SelectEnd(c) \/ InsertToken(c) PROVE LoadInv'
  <2>1. StatusInv'
    BY <1>0, <1>5, SelectNextStatus, SelectEndStatus, InsertTokenStatus
  <2>2. ChatInv'
    BY <1>0, <1>5, ChatFrame DEF SelectNext, SelectEnd, InsertToken
  <2> QED
    BY <2>1, <2>2 DEF LoadInv
<1>6. ASSUME NEW u \in Uids, NEW t \in Calls \cup {None}, Login(u, t) PROVE LoadInv'
  <2>1. StatusInv'
    BY <1>0, <1>6, LoginStatus
  <2>2. ChatInv'
    BY <1>0, <1>6, ChatFrame DEF Login
  <2> QED
    BY <2>1, <2>2 DEF LoadInv
<1>7. ASSUME UNCHANGED vars PROVE LoadInv'
  BY <1>0, <1>7, ChatFrame, StatusFrame DEF vars, LoadInv
<1> QED
  BY <1>1, <1>2, <1>3, <1>4, <1>5, <1>6, <1>7 DEF Next

LEMMA SpecInv == Spec => []LoadInv
BY InitInv, StepInv, PTL DEF Spec

\* Types: counts stay below INT_MAX, the mutex is held during a selection only.
THEOREM TypeCorrect == Spec => []TypeOK
<1>1. LoadInv => TypeOK
  BY DEF LoadInv, ChatInv, StatusInv, ChatTypes, StatusTypes, LoginStates, TypeOK
<1> QED
  BY <1>1, SpecInv, PTL

\* The count of a running process never exceeds the logins it has seen,
\* whatever comes between a login's hget and its hset (LoginHandler).
THEOREM CountsBounded == Spec => []CountNeverAhead
BY SpecInv, PTL DEF LoadInv, ChatInv

\* getChatServer returns a registered server with the least count it read.
THEOREM LeastChosen == Spec => []ChosenIsLeast
<1>1. LoadInv => ChosenIsLeast
  <2> SUFFICES ASSUME LoadInv, NEW c \in Calls,
                      call[c].at = "select", call[c].next > Len(call[c].order)
               PROVE  /\ call[c].min \in servers
                      /\ \A s \in servers : connCount[call[c].min] <= connCount[s]
    BY DEF ChosenIsLeast
  <2> DEFINE n == Cardinality(servers)
             p == call[c].order
  <2>1. /\ p \in Orders(servers) /\ call[c].next \in 1 .. n + 1
        /\ \E j \in 1 .. n : call[c].min = p[j]
        /\ \A i \in 1 .. call[c].next - 1 : connCount[call[c].min] <= connCount[p[i]]
        /\ servers \subseteq Servers
    BY DEF LoadInv, StatusInv, StatusTypes, SelectInv
  <2>2. /\ n \in Nat /\ Len(p) = n
        /\ \A i \in 1 .. n : p[i] \in servers
        /\ \A x \in servers : \E i \in 1 .. n : p[i] = x
    BY <2>1, OrderCovers
  <2> HIDE DEF n, p
  <2>3. call[c].next = n + 1
    BY <2>1, <2>2 DEF p
  <2>4. \A i \in 1 .. n : connCount[call[c].min] <= connCount[p[i]]
    BY <2>1, <2>2, <2>3
  <2> QED
    BY <2>1, <2>2, <2>4
<1> QED
  BY <1>1, SpecInv, PTL
=============================================================================
