------------------------- MODULE SessionStoreProofs -------------------------
(* Proofs about SessionStore for any number of REST requests, connections,   *)
(* keepalive loops, certlogins and stops.                                    *)
EXTENDS SessionStore, FiniteSetTheorems, TLAPS

-----------------------------------------------------------------------------
(* The lock's queue.                                                         *)

In(q, c) == \E i \in 1..Len(q) : q[i] = c

Distinct(q) == \A i, j \in 1..Len(q) : q[i] = q[j] => i = j

IsHead(q, c) == q # <<>> /\ Head(q) = c

\* Nobody is listed twice, listed are those who want the lock, and only its
\* holder logs in or pings.
QueueGood(q, p) ==
  /\ q \in Seq(Caller) /\ Distinct(q)
  /\ \A c \in Caller : In(q, c) <=> p[c] \in Locking
  /\ \A c \in Caller : p[c] \in {"login", "ping"} => IsHead(q, c)

LEMMA Joined ==
  ASSUME NEW S, NEW f \in Seq(S), NEW t \in Seq(S)
  PROVE  /\ f \o t \in Seq(S) /\ Len(f \o t) = Len(f) + Len(t)
         /\ \A i \in 1..(Len(f) + Len(t)) :
              (f \o t)[i] = IF i <= Len(f) THEN f[i] ELSE t[i - Len(f)]
OBVIOUS

LEMMA RemovedAt ==
  ASSUME NEW S, NEW q \in Seq(S), NEW k \in 1..Len(q)
  PROVE  /\ RemoveAt(q, k) \in Seq(S) /\ Len(RemoveAt(q, k)) = Len(q) - 1
         /\ \A i \in 1..(Len(q) - 1) : RemoveAt(q, k)[i] = IF i < k THEN q[i] ELSE q[i + 1]
<1> DEFINE n == Len(q)
           f == SubSeq(q, 1, k - 1)
           t == SubSeq(q, k + 1, n)
<1>1. n \in Nat /\ k \in 1..n
  OBVIOUS
<1>2. f \in Seq(S) /\ Len(f) = k - 1 /\ \A i \in 1..(k - 1) : f[i] = q[i]
  BY <1>1
<1>3. t \in Seq(S) /\ Len(t) = n - k /\ \A i \in 1..(n - k) : t[i] = q[k + i]
  BY <1>1
<1>4. RemoveAt(q, k) = f \o t
  BY DEF RemoveAt
<1> HIDE DEF f, t
<1>5. /\ f \o t \in Seq(S) /\ Len(f \o t) = n - 1
      /\ \A i \in 1..(n - 1) : (f \o t)[i] = IF i < k THEN f[i] ELSE t[i - (k - 1)]
  <2>1. Len(f) + Len(t) = n - 1 /\ \A i \in 1..(n - 1) : i < k <=> i <= Len(f)
    BY <1>1, <1>2, <1>3
  <2>2. /\ f \o t \in Seq(S) /\ Len(f \o t) = n - 1
        /\ \A i \in 1..(n - 1) : (f \o t)[i] = IF i <= Len(f) THEN f[i] ELSE t[i - Len(f)]
    <3>1. f \in Seq(S) /\ t \in Seq(S)
      BY <1>2, <1>3
    <3>2. /\ f \o t \in Seq(S) /\ Len(f \o t) = Len(f) + Len(t)
          /\ \A i \in 1..(Len(f) + Len(t)) :
               (f \o t)[i] = IF i <= Len(f) THEN f[i] ELSE t[i - Len(f)]
      BY <3>1, Joined
    <3> QED
      BY <2>1, <3>2
  <2> QED
    BY <1>2, <2>1, <2>2
<1>6. ASSUME NEW i \in 1..(n - 1)
      PROVE  (f \o t)[i] = IF i < k THEN q[i] ELSE q[i + 1]
  <2>1. CASE i < k
    BY <1>1, <1>2, <1>5, <2>1
  <2>2. CASE ~(i < k)
    <3>1. i - (k - 1) \in 1..(n - k) /\ k + (i - (k - 1)) = i + 1
      BY <1>1, <2>2
    <3> QED
      BY <1>3, <1>5, <2>2, <3>1
  <2> QED
    BY <2>1, <2>2
<1> QED
  BY <1>4, <1>5, <1>6

LEMMA WithoutIs ==
  ASSUME NEW q \in Seq(Caller), Distinct(q), NEW c \in Caller
  PROVE  /\ Without(q, c) \in Seq(Caller) /\ Distinct(Without(q, c))
         /\ \A d \in Caller : In(Without(q, c), d) <=> d # c /\ In(q, d)
         /\ \A d \in Caller : d # c /\ IsHead(q, d) => IsHead(Without(q, c), d)
<1>1. CASE c \notin ToSet(q)
  BY <1>1 DEF Without, ToSet, In, IsHead
<1>2. CASE c \in ToSet(q)
  <2> DEFINE k == CHOOSE i \in DOMAIN q : q[i] = c
             r == RemoveAt(q, k)
  <2>1. k \in 1..Len(q) /\ q[k] = c
    BY <1>2 DEF ToSet
  <2>2. Without(q, c) = r
    BY <1>2 DEF Without
  <2>3. /\ r \in Seq(Caller) /\ Len(r) = Len(q) - 1
        /\ \A i \in 1..(Len(q) - 1) : r[i] = IF i < k THEN q[i] ELSE q[i + 1]
    BY <2>1, RemovedAt
  <2> HIDE DEF k, r
  <2>4. Distinct(r)
    BY <2>1, <2>3 DEF Distinct
  <2>5. ASSUME NEW d \in Caller
        PROVE  In(r, d) <=> d # c /\ In(q, d)
    <3>1. ASSUME In(r, d)
          PROVE  d # c /\ In(q, d)
      BY <2>1, <2>3, <3>1 DEF In, Distinct
    <3>2. ASSUME d # c, In(q, d)
          PROVE  In(r, d)
      <4>1. PICK i \in 1..Len(q) : q[i] = d
        BY <3>2 DEF In
      <4>2. CASE i < k
        BY <2>1, <2>3, <4>1, <4>2 DEF In
      <4>3. CASE i > k
        <5>1. i - 1 \in 1..(Len(q) - 1) /\ ~(i - 1 < k) /\ (i - 1) + 1 = i
          BY <2>1, <4>3
        <5> QED
          BY <2>3, <4>1, <5>1 DEF In
      <4> QED
        BY <2>1, <3>2, <4>1, <4>2, <4>3
    <3> QED
      BY <3>1, <3>2
  <2>6. ASSUME NEW d \in Caller, d # c, IsHead(q, d)
        PROVE  IsHead(r, d)
    <3>1. q # <<>> /\ q[1] = d /\ k # 1
      BY <2>1, <2>6 DEF IsHead
    <3>2. r # <<>> /\ r[1] = d
      BY <2>1, <2>3, <3>1
    <3> QED
      BY <2>3, <3>2 DEF IsHead
  <2> QED
    BY <2>2, <2>3, <2>4, <2>5, <2>6
<1> QED
  BY <1>1, <1>2

LEMMA AppendIs ==
  ASSUME NEW q \in Seq(Caller), Distinct(q), NEW c \in Caller, ~In(q, c)
  PROVE  /\ Append(q, c) \in Seq(Caller) /\ Distinct(Append(q, c))
         /\ \A d \in Caller : In(Append(q, c), d) <=> d = c \/ In(q, d)
         /\ \A d \in Caller : IsHead(q, d) => IsHead(Append(q, c), d)
<1> DEFINE r == Append(q, c)
<1>1. /\ r \in Seq(Caller) /\ Len(r) = Len(q) + 1 /\ r[Len(q) + 1] = c
      /\ \A i \in 1..Len(q) : r[i] = q[i]
  OBVIOUS
<1>2. q # <<>> => r # <<>> /\ Head(r) = Head(q)
  OBVIOUS
<1> HIDE DEF r
<1>3. Distinct(r)
  BY <1>1 DEF Distinct, In
<1>4. \A d \in Caller : In(r, d) <=> d = c \/ In(q, d)
  <2>1. \A i \in 1..Len(r) : i \in 1..Len(q) \/ i = Len(q) + 1
    BY <1>1
  <2>2. Len(q) + 1 \in 1..Len(r) /\ \A i \in 1..Len(q) : i \in 1..Len(r)
    BY <1>1
  <2> QED
    BY <1>1, <2>1, <2>2 DEF In
<1> QED
  BY <1>1, <1>2, <1>3, <1>4 DEF r, IsHead

\* The four things a step does to the queue: someone leaves it, enters it,
\* leaves and enters it again, or goes on as its holder.
LEMMA Leaves ==
  ASSUME NEW q, NEW p \in [Caller -> Pc], QueueGood(q, p),
         NEW c \in Caller, NEW s \in Pc \ Locking
  PROVE  QueueGood(Without(q, c), [p EXCEPT ![c] = s])
BY WithoutIs DEF QueueGood, Locking, Pc

LEMMA Enters ==
  ASSUME NEW q, NEW p \in [Caller -> Pc], QueueGood(q, p),
         NEW c \in Caller, p[c] \notin Locking, NEW s \in {"get", "drop", "keepalive"}
  PROVE  QueueGood(Append(q, c), [p EXCEPT ![c] = s])
BY AppendIs DEF QueueGood, Locking, Pc

LEMMA EntersAgain ==
  ASSUME NEW q, NEW p \in [Caller -> Pc], QueueGood(q, p),
         NEW c \in Caller, NEW s \in {"get", "drop", "keepalive"}
  PROVE  QueueGood(Append(Without(q, c), c), [p EXCEPT ![c] = s])
<1>1. QueueGood(Without(q, c), [p EXCEPT ![c] = "idle"])
  BY Leaves DEF Pc, Locking
<1>2. /\ [p EXCEPT ![c] = "idle"] \in [Caller -> Pc]
      /\ [p EXCEPT ![c] = "idle"][c] \notin Locking
      /\ [[p EXCEPT ![c] = "idle"] EXCEPT ![c] = s] = [p EXCEPT ![c] = s]
  BY DEF Pc, Locking
<1> QED
  BY <1>1, <1>2, Enters

LEMMA GoesOn ==
  ASSUME NEW q, NEW p \in [Caller -> Pc], QueueGood(q, p),
         NEW c \in Caller, IsHead(q, c), p[c] \in Locking, NEW s \in {"login", "ping"}
  PROVE  QueueGood(q, [p EXCEPT ![c] = s])
BY DEF QueueGood, Locking, Pc

LEMMA OneHolder ==
  ASSUME NEW q, NEW p \in [Caller -> Pc], QueueGood(q, p), NEW c \in Caller, NEW d \in Caller,
         IsHead(q, c) \/ p[c] \in {"login", "ping"}, p[d] \in {"login", "ping"}
  PROVE  c = d
BY DEF QueueGood, IsHead

-----------------------------------------------------------------------------
(* The invariant.                                                            *)

LockInv == pc \in [Caller -> Pc] /\ QueueGood(queue, pc)

Types ==
  /\ live \in BOOLEAN /\ acquired_at \in {"none", "fresh", "stale"}
  /\ forced \in [Caller -> BOOLEAN] /\ got \in [Caller -> 0..MaxLogins]
  /\ state \in State
  /\ running \in BOOLEAN /\ stops \in 0..MaxStops /\ overtaken \in BOOLEAN
  /\ issued \in 0..MaxLogins /\ threads \subseteq 1..issued
  /\ began \in [Caller -> 0..issued] /\ confirmed \in 0..issued
  /\ token \in 0..MaxLogins /\ refused \in BOOLEAN

\* A keepalive loop neither logs in nor uses a token, and a connection does
\* neither without its session, unless a stop has been overtaken.
Roles ==
  /\ \A c \in Keeper : pc[c] \in {"idle", "keepalive", "ping"}
  /\ \A c \in Stream : pc[c] # "idle" => overtaken \/ running

\* The token is the one confirmed last; a login under way is the latest one and
\* a ping is about the token confirmed.
TokenInv ==
  /\ token \in {0, confirmed}
  /\ \A c \in Caller : pc[c] = "login" =>
                         got[c] \in threads /\ got[c] = issued /\ confirmed < got[c]
  /\ \A c \in Caller : pc[c] = "ping" => got[c] = confirmed

\* What a refresh that has dropped the token may still find is newer than it.
FreshInv ==
  /\ \A c \in Caller : forced[c] /\ pc[c] = "get" =>
       /\ token = 0 \/ began[c] < token
       /\ \A d \in Caller : pc[d] = "login" => began[c] < got[d]
  /\ \A c \in Caller : forced[c] /\ pc[c] \in {"login", "using"} => began[c] < got[c]

StoreInv == LockInv /\ Types /\ Roles /\ TokenInv /\ FreshInv

LEMMA StoreInit == Init => StoreInv
<1> SUFFICES ASSUME Init
             PROVE  StoreInv
  OBVIOUS
<1>1. /\ queue = <<>> /\ token = 0 /\ confirmed = 0 /\ issued = 0
      /\ \A c \in Caller : pc[c] = "idle" /\ ~forced[c]
  BY DEF Init
<1>2. pc \in [Caller -> Pc]
  BY DEF Init, Pc
<1>3. QueueGood(queue, pc)
  BY <1>1 DEF QueueGood, Distinct, In, Locking
<1>4. Types
  <2>1. 0 \in 0..MaxLogins /\ 0 \in 0..MaxStops /\ 0 \in 0..0
    BY BoundAssumption
  <2>2. /\ forced \in [Caller -> BOOLEAN] /\ got \in [Caller -> 0..MaxLogins]
        /\ began \in [Caller -> 0..issued]
    BY <2>1 DEF Init
  <2> QED
    BY <2>1, <2>2 DEF Init, Types, State
<1>5. Roles /\ TokenInv /\ FreshInv
  BY <1>1 DEF Roles, TokenInv, FreshInv, Caller, Worker
<1> QED
  BY <1>2, <1>3, <1>4, <1>5 DEF StoreInv, LockInv

\* What a step writes of one caller.
Sets(c, s, f, g, b) ==
  /\ pc' = [pc EXCEPT ![c] = s] /\ forced' = [forced EXCEPT ![c] = f]
  /\ got' = [got EXCEPT ![c] = g] /\ began' = [began EXCEPT ![c] = b]

LEMMA OverIs ==
  ASSUME LockInv, Types, NEW c \in Caller, Over({c})
  PROVE  Sets(c, "idle", FALSE, 0, 0)
BY DEF LockInv, Types, Over, Sets

\* A step that moves one caller to where it neither logs in nor pings.
LEMMA LocalStep ==
  ASSUME Types, TokenInv, FreshInv, pc \in [Caller -> Pc],
         NEW c \in Caller, NEW s \in Pc \ {"login", "ping"},
         NEW f \in BOOLEAN, NEW g \in 0..MaxLogins, NEW b \in 0..issued,
         Sets(c, s, f, g, b), UNCHANGED <<confirmed, issued>>, token' \in {0, token},
         threads' \subseteq threads,
         \A d \in Caller \ {c} : pc[d] = "login" => got[d] \in threads',
         f /\ s = "get" => /\ token' = 0 \/ b < token'
                          /\ \A d \in Caller \ {c} : pc[d] = "login" => b < got[d],
         f /\ s = "using" => b < g
  PROVE  TokenInv' /\ FreshInv'
<1>1. /\ pc'[c] = s /\ forced'[c] = f /\ got'[c] = g /\ began'[c] = b
      /\ \A d \in Caller \ {c} : /\ pc'[d] = pc[d] /\ forced'[d] = forced[d]
                                 /\ got'[d] = got[d] /\ began'[d] = began[d]
  BY DEF Types, Sets
<1>2. TokenInv'
  BY <1>1 DEF TokenInv
<1>3. ASSUME NEW d \in Caller, forced'[d], pc'[d] = "get"
      PROVE  /\ token' = 0 \/ began'[d] < token'
             /\ \A e \in Caller : pc'[e] = "login" => began'[d] < got'[e]
  BY <1>1, <1>3 DEF FreshInv
<1>4. ASSUME NEW d \in Caller, forced'[d], pc'[d] \in {"login", "using"}
      PROVE  began'[d] < got'[d]
  BY <1>1, <1>4 DEF FreshInv
<1> QED
  BY <1>2, <1>3, <1>4 DEF FreshInv

\* A call ends, or begins again with refresh_session().
LEMMA RaisesStep ==
  ASSUME LockInv, Types, Roles, TokenInv, FreshInv, NEW c \in Caller, c \notin Keeper, Raises(c),
         UNCHANGED <<running, overtaken, confirmed, issued, token>>, threads' \subseteq threads,
         \A d \in Caller \ {c} : pc[d] = "login" => got[d] \in threads',
         c \in Stream => overtaken \/ running
  PROVE  LockInv' /\ Roles' /\ TokenInv' /\ FreshInv'
         /\ forced' \in [Caller -> BOOLEAN] /\ got' \in [Caller -> 0..MaxLogins]
         /\ began' \in [Caller -> 0..issued']
<1>1. CASE forced[c] /\ Ends(c)
  <2>1. Sets(c, "idle", FALSE, 0, 0) /\ queue' = Without(queue, c)
    BY <1>1, OverIs DEF Ends
  <2>2. LockInv'
    BY <2>1, Leaves DEF LockInv, Sets, Pc, Locking
  <2>3. TokenInv' /\ FreshInv'
    <3>1. "idle" \in Pc \ {"login", "ping"} /\ 0 \in 0..MaxLogins /\ 0 \in 0..issued
      BY BoundAssumption DEF Pc, Types
    <3> QED
      BY <2>1, <3>1, LocalStep DEF LockInv
  <2>4. Roles'
    BY <2>1 DEF Sets, Roles, LockInv
  <2>5. /\ forced' \in [Caller -> BOOLEAN] /\ got' \in [Caller -> 0..MaxLogins]
        /\ began' \in [Caller -> 0..issued]
    BY <2>1, BoundAssumption DEF Sets, Types
  <2> QED
    BY <2>2, <2>3, <2>4, <2>5
<1>2. CASE ~forced[c] /\ pc' = [pc EXCEPT ![c] = "drop"]
  <2>1. Sets(c, "drop", TRUE, 0, issued) /\ queue' = Append(Without(queue, c), c)
    BY <1>2 DEF Raises, Ends, Sets, Types
  <2>2. LockInv'
    BY <2>1, EntersAgain DEF LockInv, Sets, Pc, Locking
  <2>3. TokenInv' /\ FreshInv'
    <3>1. "drop" \in Pc \ {"login", "ping"} /\ 0 \in 0..MaxLogins /\ issued \in 0..issued
      BY BoundAssumption DEF Pc, Types
    <3> QED
      BY <2>1, <3>1, LocalStep DEF LockInv
  <2>4. Roles'
    BY <2>1 DEF Sets, Roles, LockInv
  <2>5. /\ forced' \in [Caller -> BOOLEAN] /\ got' \in [Caller -> 0..MaxLogins]
        /\ began' \in [Caller -> 0..issued]
    BY <2>1, BoundAssumption DEF Sets, Types
  <2> QED
    BY <2>2, <2>3, <2>4, <2>5
<1> QED
  BY <1>1, <1>2 DEF Raises

\* A step that moves one caller out of the lock's queue, into it, or in it, and
\* leaves logins alone.
LEMMA CallerStep ==
  ASSUME StoreInv, NEW c \in Caller, NEW s \in Pc \ {"login", "ping"},
         NEW f \in BOOLEAN, NEW g \in 0..MaxLogins, NEW b \in 0..issued,
         Sets(c, s, f, g, b), UNCHANGED <<live, running, stops, overtaken, issued, confirmed, threads>>,
         \/ s \notin Locking /\ queue' = Without(queue, c)
         \/ s \in Locking /\ queue' = Append(Without(queue, c), c)
         \/ s \in Locking /\ pc[c] \notin Locking /\ queue' = Append(queue, c)
         \/ s \notin Locking /\ pc[c] \notin Locking /\ UNCHANGED queue,
         token' \in {0, token}, acquired_at' \in {"none", "fresh", "stale"},
         UNCHANGED state, refused' \in BOOLEAN,
         c \in Keeper => s \in {"idle", "keepalive"},
         c \in Stream /\ s # "idle" => overtaken \/ running,
         f /\ s = "get" => /\ token' = 0 \/ b < token'
                          /\ \A d \in Caller \ {c} : pc[d] = "login" => b < got[d],
         f /\ s = "using" => b < g
  PROVE  StoreInv'
<1>1. LockInv'
  <2>1. pc \in [Caller -> Pc] /\ QueueGood(queue, pc) /\ pc' = [pc EXCEPT ![c] = s]
    BY DEF StoreInv, LockInv, Sets
  <2>2. pc' \in [Caller -> Pc]
    BY <2>1
  <2>3. CASE s \notin Locking /\ queue' = Without(queue, c)
    BY <2>1, <2>2, <2>3, Leaves DEF LockInv
  <2>4. CASE s \in Locking /\ queue' = Append(Without(queue, c), c)
    <3>1. s \in {"get", "drop", "keepalive"}
      BY <2>4 DEF Locking
    <3> QED
      BY <2>1, <2>2, <2>4, <3>1, EntersAgain DEF LockInv
  <2>5. CASE s \in Locking /\ pc[c] \notin Locking /\ queue' = Append(queue, c)
    <3>1. s \in {"get", "drop", "keepalive"}
      BY <2>5 DEF Locking
    <3> QED
      BY <2>1, <2>2, <2>5, <3>1, Enters DEF LockInv
  <2>6. CASE s \notin Locking /\ pc[c] \notin Locking /\ UNCHANGED queue
    <3>1. QueueGood(queue, [pc EXCEPT ![c] = s])
      BY <2>1, <2>6 DEF QueueGood, Locking
    <3> QED
      BY <2>1, <2>2, <2>6, <3>1 DEF LockInv
  <2> QED
    BY <2>3, <2>4, <2>5, <2>6
<1>2. TokenInv' /\ FreshInv'
  <2>1. \A d \in Caller \ {c} : pc[d] = "login" => got[d] \in threads'
    BY DEF StoreInv, TokenInv
  <2> QED
    BY <2>1, LocalStep DEF StoreInv, LockInv
<1>3. Roles'
  BY DEF StoreInv, Roles, Sets, LockInv
<1>4. Types'
  <2>1. /\ forced' \in [Caller -> BOOLEAN] /\ got' \in [Caller -> 0..MaxLogins]
        /\ began' \in [Caller -> 0..issued]
    BY DEF StoreInv, Types, Sets
  <2>2. token' \in 0..MaxLogins
    BY BoundAssumption DEF StoreInv, Types
  <2> QED
    BY <2>1, <2>2 DEF StoreInv, Types
<1> QED
  BY <1>1, <1>2, <1>3, <1>4 DEF StoreInv

\* Cancelling workers takes them out of the queue and out of their calls.
LEMMA CancelledIs ==
  ASSUME StoreInv, NEW c \in Stream, NEW d \in Stream, NEW k \in Keeper,
         NEW cut \in SUBSET {c, d, k}, Cancelled(cut, c, d, k),
         UNCHANGED <<live, token, acquired_at, state, overtaken, issued, threads, confirmed, refused>>,
         running' \in BOOLEAN, stops' \in 0..MaxStops,
         overtaken \/ \A w \in Worker \ cut : pc[w] = "idle"
  PROVE  StoreInv'
<1> DEFINE left(q, w) == IF w \in cut THEN Without(q, w) ELSE q
           idle(p, w) == IF w \in cut THEN [p EXCEPT ![w] = "idle"] ELSE p
<1>1. /\ pc \in [Caller -> Pc] /\ QueueGood(queue, pc)
      /\ c \in Caller /\ d \in Caller /\ k \in Caller
  BY DEF StoreInv, LockInv, Caller, Worker
<1>2. ASSUME NEW q, NEW p \in [Caller -> Pc], QueueGood(q, p), NEW w \in Caller
      PROVE  idle(p, w) \in [Caller -> Pc] /\ QueueGood(left(q, w), idle(p, w))
  <2>1. "idle" \in Pc \ Locking
    BY DEF Pc, Locking
  <2>2. CASE w \in cut
    <3>1. QueueGood(Without(q, w), [p EXCEPT ![w] = "idle"])
      BY <1>2, <2>1, Leaves
    <3> QED
      BY <1>2, <2>1, <2>2, <3>1
  <2>3. CASE w \notin cut
    BY <1>2, <2>3
  <2> QED
    BY <2>2, <2>3
<1>3. queue' = left(left(left(queue, c), d), k)
  BY DEF Cancelled
<1>4. pc' = idle(idle(idle(pc, c), d), k)
  <2>1. pc' = [e \in Caller |-> IF e \in cut THEN "idle" ELSE pc[e]]
    BY DEF Cancelled, Over
  <2>2. ASSUME NEW p \in [Caller -> Pc], NEW w \in Caller
        PROVE  idle(p, w) = [e \in Caller |-> IF e \in cut /\ e = w THEN "idle" ELSE p[e]]
    <3>1. CASE w \in cut
      BY <2>2, <3>1
    <3>2. CASE w \notin cut
      BY <2>2, <3>2
    <3> QED
      BY <3>1, <3>2
  <2> DEFINE p1 == idle(pc, c)
             p2 == idle(p1, d)
             p3 == idle(p2, k)
  <2>3. p1 \in [Caller -> Pc] /\ p2 \in [Caller -> Pc] /\ p3 \in [Caller -> Pc]
    <3>1. p1 \in [Caller -> Pc]
      BY <1>1, <2>2 DEF Pc
    <3>2. p2 \in [Caller -> Pc]
      BY <1>1, <3>1 DEF Pc
    <3> QED
      BY <1>1, <3>1, <3>2 DEF Pc
  <2>4. /\ p1 = [e \in Caller |-> IF e \in cut /\ e = c THEN "idle" ELSE pc[e]]
        /\ p2 = [e \in Caller |-> IF e \in cut /\ e = d THEN "idle" ELSE p1[e]]
        /\ p3 = [e \in Caller |-> IF e \in cut /\ e = k THEN "idle" ELSE p2[e]]
    <3> HIDE DEF idle
    <3> QED
      BY <1>1, <2>2, <2>3
  <2> HIDE DEF p1, p2, p3
  <2>5. p3 = [e \in Caller |-> IF e \in cut THEN "idle" ELSE pc[e]]
    BY <2>4
  <2> QED
    BY <2>1, <2>5 DEF p1, p2, p3
<1> HIDE DEF left, idle
<1>5. QueueGood(queue', pc') /\ pc' \in [Caller -> Pc]
  <2>1. idle(pc, c) \in [Caller -> Pc] /\ QueueGood(left(queue, c), idle(pc, c))
    BY <1>1, <1>2
  <2>2. /\ idle(idle(pc, c), d) \in [Caller -> Pc]
        /\ QueueGood(left(left(queue, c), d), idle(idle(pc, c), d))
    BY <1>1, <1>2, <2>1
  <2> QED
    BY <1>1, <1>2, <1>3, <1>4, <2>2
<1>6. /\ \A e \in cut : pc'[e] = "idle" /\ ~forced'[e]
      /\ \A e \in Caller \ cut : /\ pc'[e] = pc[e] /\ forced'[e] = forced[e]
                                 /\ got'[e] = got[e] /\ began'[e] = began[e]
  BY <1>1 DEF Cancelled, Over
<1>7. TokenInv'
  BY <1>6 DEF StoreInv, TokenInv
<1>8. FreshInv'
  <2>1. ASSUME NEW e \in Caller, forced'[e], pc'[e] = "get"
        PROVE  /\ token' = 0 \/ began'[e] < token'
               /\ \A h \in Caller : pc'[h] = "login" => began'[e] < got'[h]
    BY <1>6, <2>1 DEF StoreInv, FreshInv
  <2>2. ASSUME NEW e \in Caller, forced'[e], pc'[e] \in {"login", "using"}
        PROVE  began'[e] < got'[e]
    BY <1>6, <2>2 DEF StoreInv, FreshInv
  <2> QED
    BY <2>1, <2>2 DEF FreshInv
<1>9. Roles'
  <2>1. \A e \in Worker : pc'[e] = "idle" \/ (pc'[e] = pc[e] /\ e \notin cut)
    BY <1>6 DEF Caller
  <2>2. \A e \in Stream : pc'[e] # "idle" => overtaken
    BY <2>1 DEF Worker
  <2>3. \A e \in Keeper : pc'[e] \in {"idle", "keepalive", "ping"}
    BY <2>1 DEF Worker, StoreInv, Roles
  <2> QED
    BY <2>2, <2>3 DEF Roles
<1>10. Types'
  <2>1. /\ forced' \in [Caller -> BOOLEAN] /\ got' \in [Caller -> 0..MaxLogins]
        /\ began' \in [Caller -> 0..issued]
    <3>1. /\ forced \in [Caller -> BOOLEAN] /\ got \in [Caller -> 0..MaxLogins]
          /\ began \in [Caller -> 0..issued] /\ 0 \in 0..MaxLogins /\ 0 \in 0..issued
      BY BoundAssumption DEF StoreInv, Types
    <3> QED
      BY <3>1 DEF Cancelled, Over
  <2> QED
    BY <2>1 DEF StoreInv, Types
<1> QED
  BY <1>5, <1>7, <1>8, <1>9, <1>10 DEF StoreInv, LockInv

LEMMA StoreStep ==
  ASSUME StoreInv, [Next]_vars
  PROVE  StoreInv'
<1>0. /\ Stream \subseteq Caller /\ Keeper \subseteq Caller /\ Rest \subseteq Caller
      /\ \A c \in Stream : c \notin Keeper /\ c \notin Rest
      /\ \A c \in Keeper : c \notin Rest
  BY CallerAssumption DEF Caller, Worker
<1>1. /\ pc \in [Caller -> Pc] /\ QueueGood(queue, pc) /\ LockInv /\ Types /\ Roles
      /\ TokenInv /\ FreshInv
  BY DEF StoreInv, LockInv
<1>2. /\ 0 \in 0..MaxLogins /\ 0 \in 0..issued /\ issued \in 0..issued /\ token \in 0..MaxLogins
      /\ issued \in Nat /\ confirmed \in 0..issued
      /\ \A c \in Caller : got[c] \in 0..MaxLogins /\ began[c] \in 0..issued /\ forced[c] \in BOOLEAN
  BY <1>1, BoundAssumption DEF Types
<1>3. /\ {"idle", "connecting", "get", "drop", "keepalive", "using", "streaming"} \subseteq Pc \ {"login", "ping"}
      /\ {"idle", "connecting", "using", "streaming"} \cap Locking = {}
      /\ {"get", "drop", "keepalive"} \subseteq Locking
  BY DEF Pc, Locking
<1>4. ASSUME NEW c \in Caller, NEW op \in {"get", "drop", "keepalive"}, Calls(c, op), UNCHANGED live,
             pc[c] \in {"idle", "connecting"},
             c \in Keeper => op = "keepalive", c \in Stream => overtaken \/ running
      PROVE  StoreInv'
  <2> DEFINE f == op = "drop"
             b == IF op = "drop" THEN issued ELSE 0
  <2>1. /\ Sets(c, op, f, got[c], b)
        /\ queue' = Append(queue, c)
        /\ UNCHANGED <<storeVars, state, running, stops, overtaken, issued, threads, confirmed, refused>>
    BY <1>1, <1>4 DEF Calls, Sets, Types, sessionVars
  <2>2. b \in 0..issued /\ f \in BOOLEAN /\ ~(f /\ op = "get") /\ ~(f /\ op = "using")
    BY <1>2
  <2> HIDE DEF f, b
  <2>3. /\ op \in Pc \ {"login", "ping"} /\ op \in Locking /\ pc[c] \notin Locking
        /\ token' \in {0, token} /\ acquired_at' \in {"none", "fresh", "stale"}
        /\ refused' \in BOOLEAN
    BY <1>1, <1>3, <1>4, <2>1 DEF storeVars, Types
  <2> QED
    BY <1>2, <1>4, <2>1, <2>2, <2>3, CallerStep
<1>5. ASSUME NEW c \in Caller, Ends(c), UNCHANGED <<live, state, running, stops, overtaken, issued, threads, confirmed>>,
             token' \in {0, token}, acquired_at' \in {"none", "fresh", "stale"},
             refused' \in BOOLEAN
      PROVE  StoreInv'
  <2>1. Sets(c, "idle", FALSE, 0, 0) /\ queue' = Without(queue, c)
    BY <1>1, <1>5, OverIs DEF Ends
  <2>2. "idle" \in Pc \ {"login", "ping"} /\ "idle" \notin Locking
    BY <1>3
  <2> QED
    BY <1>2, <1>5, <2>1, <2>2, CallerStep
<1>6. ASSUME NEW c \in Caller, HasLock(c), NEW d \in Caller, pc[d] \in {"login", "ping"}
      PROVE  c = d
  BY <1>1, <1>6, OneHolder DEF HasLock, IsHead
<1>7. ASSUME NEW c \in Caller, pc[c] \in {"login", "ping"}, NEW d \in Caller, pc[d] \in {"login", "ping"}
      PROVE  c = d
  BY <1>1, <1>7, OneHolder
<1>8. ASSUME NEW c \in Caller, GetSessionToken(c), UNCHANGED live
      PROVE  StoreInv'
  <2>1. pc[c] \in {"idle", "connecting"} /\ c \notin Keeper /\ Calls(c, "get")
    BY <1>0, <1>8 DEF GetSessionToken
  <2>2. c \in Stream => overtaken \/ running
    BY <1>0, <1>1, <1>8 DEF GetSessionToken, Roles
  <2> QED
    BY <1>4, <1>8, <2>1, <2>2
<1>9. ASSUME NEW c \in Caller, ReloginRest(c), UNCHANGED live
      PROVE  StoreInv'
  BY <1>0, <1>4, <1>9 DEF ReloginRest
<1>10. ASSUME NEW c \in Caller, Keepalive(c), UNCHANGED live
       PROVE  StoreInv'
  BY <1>0, <1>4, <1>10 DEF Keepalive
<1>11. ASSUME NEW c \in Caller, ReturnsCached(c), UNCHANGED live
       PROVE  StoreInv'
  <2>1. /\ pc[c] = "get" /\ token # 0 /\ Sets(c, "using", forced[c], token, began[c])
        /\ queue' = Without(queue, c)
        /\ UNCHANGED <<token, acquired_at, state, running, stops, overtaken, issued, threads, confirmed, refused>>
    BY <1>1, <1>11 DEF ReturnsCached, Cached, Returns, storeVars, sessionVars, Sets, Types
  <2>2. c \notin Keeper /\ (c \in Stream => overtaken \/ running)
    BY <1>1, <2>1 DEF Roles
  <2>3. forced[c] => began[c] < token
    BY <1>1, <2>1 DEF FreshInv
  <2>4. /\ "using" \in Pc \ {"login", "ping"} /\ "using" \notin Locking
        /\ acquired_at' \in {"none", "fresh", "stale"} /\ refused' \in BOOLEAN
    BY <1>1, <1>3, <2>1 DEF Types
  <2> QED
    BY <1>2, <1>11, <2>1, <2>2, <2>3, <2>4, CallerStep
<1>12. ASSUME NEW c \in Caller, RefreshDrops(c), UNCHANGED live
       PROVE  StoreInv'
  <2>1. /\ HasLock(c) /\ pc[c] = "drop" /\ token' = 0 /\ acquired_at' = "none"
        /\ Sets(c, "get", forced[c], got[c], began[c])
        /\ queue' = Append(Without(queue, c), c)
        /\ UNCHANGED <<state, running, stops, overtaken, issued, threads, confirmed, refused>>
    BY <1>1, <1>12 DEF RefreshDrops, Dropped, Sets, sessionVars, Types
  <2>2. \A d \in Caller \ {c} : pc[d] # "login"
    BY <1>6, <2>1
  <2>3. c \notin Keeper /\ (c \in Stream => overtaken \/ running)
    BY <1>1, <2>1 DEF Roles
  <2>4. "get" \in Pc \ {"login", "ping"} /\ "get" \in Locking /\ refused' \in BOOLEAN
    BY <1>1, <1>3, <2>1 DEF Types
  <2> QED
    BY <1>2, <1>12, <2>1, <2>2, <2>3, <2>4, CallerStep
<1>13. ASSUME NEW c \in Caller, RestDone(c), UNCHANGED live
       PROVE  StoreInv'
  <2>1. refused' \in BOOLEAN /\ acquired_at' \in {"none", "fresh", "stale"} /\ token' = token
    BY <1>1, <1>13 DEF RestDone, storeVars, Types
  <2> QED
    BY <1>5, <1>13, <2>1 DEF RestDone, sessionVars
<1>14. ASSUME NEW c \in Caller, NEW s \in State, Raises(c), c \notin Keeper,
              UNCHANGED <<live, running, stops, overtaken, confirmed, issued, token, acquired_at, refused>>,
              state' = s, threads' \subseteq threads,
              \A d \in Caller \ {c} : pc[d] = "login" => got[d] \in threads',
              c \in Stream => overtaken \/ running
       PROVE  StoreInv'
  <2>1. /\ LockInv' /\ Roles' /\ TokenInv' /\ FreshInv'
        /\ forced' \in [Caller -> BOOLEAN] /\ got' \in [Caller -> 0..MaxLogins]
        /\ began' \in [Caller -> 0..issued']
    BY <1>1, <1>14, RaisesStep
  <2>2. Types'
    BY <1>1, <1>14, <2>1 DEF Types
  <2> QED
    BY <2>1, <2>2 DEF StoreInv
<1>15. ASSUME NEW c \in Caller, BeginLogin(c), UNCHANGED live
       PROVE  StoreInv'
  <2>1. /\ HasLock(c) /\ pc[c] = "get" /\ state' = "logging_in"
        /\ UNCHANGED <<token, acquired_at, running, stops, overtaken, confirmed, refused>>
    BY <1>15 DEF BeginLogin, storeVars, sessionVars
  <2>2. c \notin Keeper /\ (c \in Stream => overtaken \/ running)
    BY <1>1, <2>1 DEF Roles
  <2>3. \A d \in Caller : pc[d] \notin {"login", "ping"}
    BY <1>6, <2>1
  <2>4. CASE Raises(c) /\ UNCHANGED <<issued, threads>>
    BY <1>14, <1>15, <2>1, <2>2, <2>3, <2>4 DEF State
  <2>5. CASE /\ issued < MaxLogins
             /\ issued' = issued + 1
             /\ threads' = threads \cup {issued + 1}
             /\ got' = [got EXCEPT ![c] = issued + 1]
             /\ pc' = [pc EXCEPT ![c] = "login"]
             /\ UNCHANGED <<queue, forced, began>>
    <3>1. LockInv'
      <4>1. QueueGood(queue, [pc EXCEPT ![c] = "login"])
        BY <1>1, <2>1, GoesOn DEF HasLock, IsHead, Locking
      <4>2. pc' \in [Caller -> Pc]
        BY <1>1, <2>5 DEF Pc
      <4> QED
        BY <2>5, <4>1, <4>2 DEF LockInv
    <3>2. /\ pc'[c] = "login" /\ got'[c] = issued + 1
          /\ \A d \in Caller \ {c} : pc'[d] = pc[d] /\ got'[d] = got[d]
      BY <1>1, <2>5 DEF Types
    <3>3. TokenInv'
      BY <1>1, <1>2, <2>1, <2>3, <2>5, <3>2 DEF TokenInv
    <3>4. FreshInv'
      <4>1. ASSUME NEW d \in Caller, forced'[d], pc'[d] = "get"
            PROVE  /\ token' = 0 \/ began'[d] < token'
                   /\ \A e \in Caller : pc'[e] = "login" => began'[d] < got'[e]
        BY <1>1, <1>2, <2>1, <2>3, <2>5, <3>2, <4>1 DEF FreshInv
      <4>2. ASSUME NEW d \in Caller, forced'[d], pc'[d] \in {"login", "using"}
            PROVE  began'[d] < got'[d]
        BY <1>1, <1>2, <2>1, <2>3, <2>5, <3>2, <4>2 DEF FreshInv
      <4> QED
        BY <4>1, <4>2 DEF FreshInv
    <3>5. Types'
      <4>1. issued' \in 0..MaxLogins /\ threads' \subseteq 1..issued' /\ confirmed' \in 0..issued'
        BY <1>1, <1>2, <2>1, <2>5, BoundAssumption DEF Types
      <4>2. got' \in [Caller -> 0..MaxLogins] /\ began' \in [Caller -> 0..issued']
        BY <1>1, <1>2, <2>5, <4>1, BoundAssumption DEF Types
      <4> QED
        BY <1>1, <1>15, <2>1, <2>5, <4>1, <4>2 DEF Types, State
    <3>6. Roles'
      BY <1>1, <2>1, <2>2, <2>5, <3>2 DEF Roles, LockInv
    <3> QED
      BY <3>1, <3>3, <3>4, <3>5, <3>6 DEF StoreInv
  <2> QED
    BY <1>15, <2>4, <2>5 DEF BeginLogin
<1>16. ASSUME NEW c \in Caller, LoginReturns(c), UNCHANGED live
       PROVE  StoreInv'
  <2> DEFINE n == got[c]
  <2>1. /\ pc[c] = "login" /\ threads' = threads \ {n}
        /\ token' = n /\ acquired_at' = "fresh" /\ confirmed' = n /\ state' = "active"
        /\ Sets(c, "using", forced[c], n, began[c])
        /\ queue' = Without(queue, c) /\ UNCHANGED <<forced, got, began>>
        /\ UNCHANGED <<running, stops, overtaken, issued>> /\ refused' = FALSE
    BY <1>1, <1>16 DEF LoginReturns, Returns, Sets, Types, sessionVars
  <2>2. n = issued /\ n \in 0..MaxLogins /\ confirmed < n
    BY <1>1, <1>2, <2>1 DEF TokenInv
  <2>3. c \notin Keeper /\ (c \in Stream => overtaken \/ running)
    BY <1>1, <2>1 DEF Roles
  <2>4. \A d \in Caller \ {c} : pc[d] \notin {"login", "ping"}
    BY <1>7, <2>1
  <2> HIDE DEF n
  <2>5. pc'[c] = "using" /\ got'[c] = n /\ \A d \in Caller \ {c} : pc'[d] = pc[d]
    BY <1>1, <2>1 DEF Sets, Types
  <2>6. LockInv'
    BY <1>1, <1>3, <2>1, Leaves DEF LockInv, Sets
  <2>7. TokenInv'
    BY <2>1, <2>4, <2>5 DEF TokenInv
  <2>8. FreshInv'
    <3>1. ASSUME NEW d \in Caller, forced'[d], pc'[d] = "get"
          PROVE  /\ token' = 0 \/ began'[d] < token'
                 /\ \A e \in Caller : pc'[e] = "login" => began'[d] < got'[e]
      <4>1. began[d] < got[c] /\ got[c] = n
        BY <1>1, <2>1, <2>5, <3>1 DEF FreshInv, Sets, Types
      <4> QED
        BY <2>1, <2>4, <2>5, <4>1
    <3>2. ASSUME NEW d \in Caller, forced'[d], pc'[d] \in {"login", "using"}
          PROVE  began'[d] < got'[d]
      BY <1>1, <2>1, <2>5, <3>2 DEF FreshInv
    <3> QED
      BY <3>1, <3>2 DEF FreshInv
  <2>9. Types'
    BY <1>1, <1>2, <1>16, <2>1, <2>2 DEF Types, State
  <2>10. Roles'
    BY <1>0, <1>1, <2>1, <2>3, <2>5 DEF Roles
  <2> QED
    BY <2>6, <2>7, <2>8, <2>9, <2>10 DEF StoreInv
<1>17. ASSUME NEW c \in Caller, LoginFails(c), UNCHANGED live
       PROVE  StoreInv'
  <2>1. /\ pc[c] = "login" /\ threads' = threads \ {got[c]} /\ state' = "failed" /\ Raises(c)
        /\ UNCHANGED <<token, acquired_at, running, stops, overtaken, issued, confirmed, refused>>
    BY <1>17 DEF LoginFails, storeVars, sessionVars
  <2>2. c \notin Keeper /\ (c \in Stream => overtaken \/ running)
    BY <1>1, <2>1 DEF Roles
  <2>3. \A d \in Caller \ {c} : pc[d] # "login"
    BY <1>7, <2>1
  <2> QED
    BY <1>14, <1>17, <2>1, <2>2, <2>3 DEF State
<1>18. ASSUME NEW c \in Caller, BeginKeepalive(c), UNCHANGED live
       PROVE  StoreInv'
  <2>1. /\ HasLock(c) /\ pc[c] = "keepalive"
        /\ UNCHANGED <<token, acquired_at, state, running, stops, overtaken, issued, threads, confirmed, refused>>
    BY <1>18 DEF BeginKeepalive, storeVars, sessionVars
  <2>2. CASE Ends(c)
    <3>1. refused' \in BOOLEAN /\ acquired_at' \in {"none", "fresh", "stale"}
      BY <1>1, <2>1 DEF Types
    <3> QED
      BY <1>0, <1>5, <1>18, <2>1, <2>2, <3>1
  <2>3. CASE /\ token # 0
             /\ got' = [got EXCEPT ![c] = token]
             /\ pc' = [pc EXCEPT ![c] = "ping"]
             /\ UNCHANGED <<queue, forced, began>>
    <3>1. /\ pc'[c] = "ping" /\ got'[c] = token
          /\ \A d \in Caller \ {c} : pc'[d] = pc[d] /\ got'[d] = got[d]
      BY <1>0, <1>1, <2>3 DEF Types
    <3>2. LockInv'
      <4>1. QueueGood(queue, [pc EXCEPT ![c] = "ping"])
        BY <1>0, <1>1, <2>1, GoesOn DEF HasLock, IsHead, Locking
      <4>2. pc' \in [Caller -> Pc]
        BY <1>1, <2>3 DEF Pc
      <4> QED
        BY <2>3, <4>1, <4>2 DEF LockInv
    <3>3. TokenInv'
      BY <1>0, <1>1, <2>1, <2>3, <3>1 DEF TokenInv
    <3>4. FreshInv'
      <4>1. ASSUME NEW d \in Caller, forced'[d], pc'[d] = "get"
            PROVE  /\ token' = 0 \/ began'[d] < token'
                   /\ \A e \in Caller : pc'[e] = "login" => began'[d] < got'[e]
        BY <1>0, <1>1, <2>1, <2>3, <3>1, <4>1 DEF FreshInv
      <4>2. ASSUME NEW d \in Caller, forced'[d], pc'[d] \in {"login", "using"}
            PROVE  began'[d] < got'[d]
        BY <1>0, <1>1, <2>1, <2>3, <3>1, <4>2 DEF FreshInv
      <4> QED
        BY <4>1, <4>2 DEF FreshInv
    <3>5. Types'
      BY <1>1, <1>2, <1>18, <2>1, <2>3 DEF Types
    <3>6. Roles'
      BY <1>0, <1>1, <2>1, <3>1 DEF Roles
    <3> QED
      BY <3>2, <3>3, <3>4, <3>5, <3>6 DEF StoreInv
  <2> QED
    BY <1>18, <2>2, <2>3 DEF BeginKeepalive
<1>19. ASSUME NEW c \in Caller, KeepaliveReturns(c), UNCHANGED live
       PROVE  StoreInv'
  <2>1. pc[c] = "ping" /\ got[c] = confirmed
    BY <1>0, <1>1, <1>19 DEF KeepaliveReturns, TokenInv
  <2>2. /\ Ends(c) /\ UNCHANGED <<state, running, stops, overtaken, issued, threads, confirmed, refused>>
        /\ token' \in {0, token} /\ acquired_at' \in {"none", "fresh", "stale"}
        /\ refused' \in BOOLEAN
    BY <1>1, <1>19, <2>1 DEF KeepaliveReturns, sessionVars, Types
  <2> QED
    BY <1>0, <1>5, <1>19, <2>2
<1>20. ASSUME NEW c \in Caller, StreamAuthenticates(c), UNCHANGED live
       PROVE  StoreInv'
  <2>1. /\ c \in Stream /\ pc[c] = "using" /\ c \notin Keeper
        /\ UNCHANGED <<token, acquired_at, state, running, stops, overtaken, issued, threads, confirmed>>
    BY <1>0, <1>20 DEF StreamAuthenticates, storeVars, sessionVars
  <2>2. acquired_at' \in {"none", "fresh", "stale"}
    BY <1>1, <2>1 DEF Types
  <2>3. CASE Ends(c) /\ Refuses(got[c])
    <3>1. refused' \in BOOLEAN
      BY <1>1, <2>3 DEF Refuses, Types
    <3> QED
      BY <1>5, <1>20, <2>1, <2>2, <2>3, <3>1
  <2>4. CASE /\ pc' = [pc EXCEPT ![c] = "streaming"]
             /\ UNCHANGED <<queue, forced, got, began, refused>>
    <3>1. Sets(c, "streaming", forced[c], got[c], began[c])
      BY <1>1, <2>4 DEF Sets, Types
    <3>2. /\ "streaming" \in Pc \ {"login", "ping"} /\ "streaming" \notin Locking
          /\ pc[c] \notin Locking /\ (overtaken \/ running) /\ refused' \in BOOLEAN
      BY <1>1, <1>3, <2>1, <2>4 DEF Roles, Types
    <3> QED
      BY <1>2, <1>20, <2>1, <2>2, <2>4, <3>1, <3>2, CallerStep
  <2> QED
    BY <1>20, <2>3, <2>4 DEF StreamAuthenticates
<1>21. ASSUME NEW c \in Caller, StreamEnds(c) \/ StreamCancelled(c), UNCHANGED live
       PROVE  StoreInv'
  <2>1. /\ Ends(c) /\ UNCHANGED <<state, running, stops, overtaken, issued, threads, confirmed>>
        /\ token' \in {0, token} /\ acquired_at' \in {"none", "fresh", "stale"}
        /\ refused' \in BOOLEAN
    BY <1>1, <1>21 DEF StreamEnds, StreamCancelled, Dropped, Refuses, storeVars, sessionVars, Types
  <2> QED
    BY <1>5, <1>21, <2>1
<1>22. ASSUME NEW c \in Caller, Connect(c), UNCHANGED live
       PROVE  StoreInv'
  <2>1. /\ c \in Stream /\ c \notin Keeper /\ pc[c] = "idle" /\ running
        /\ pc' = [pc EXCEPT ![c] = "connecting"]
        /\ UNCHANGED <<queue, forced, got, began, token, acquired_at, state, running, stops,
                       overtaken, issued, threads, confirmed, refused>>
    BY <1>0, <1>22 DEF Connect, storeVars, sessionVars
  <2>2. Sets(c, "connecting", forced[c], got[c], began[c])
    BY <1>1, <2>1 DEF Sets, Types
  <2>3. /\ "connecting" \in Pc \ {"login", "ping"} /\ "connecting" \notin Locking
        /\ pc[c] \notin Locking /\ refused' \in BOOLEAN
        /\ acquired_at' \in {"none", "fresh", "stale"}
    BY <1>1, <1>3, <2>1 DEF Types
  <2> QED
    BY <1>2, <1>22, <2>1, <2>2, <2>3, CallerStep
<1>23. CASE SessionStop /\ UNCHANGED live
  <2>1. /\ StopCancels /\ running' = FALSE /\ stops' = stops + 1 /\ stops < MaxStops
        /\ UNCHANGED <<token, acquired_at, state, overtaken, issued, threads, confirmed, refused>>
    BY <1>23 DEF SessionStop, storeVars
  <2>2. PICK c \in Stream, d \in Stream, k \in Keeper :
          \E cut \in SUBSET {c, d, k} :
            /\ overtaken \/ \A w \in Worker \ cut : pc[w] = "idle"
            /\ Cancelled(cut, c, d, k)
    BY <2>1 DEF StopCancels
  <2>4. PICK cut \in SUBSET {c, d, k} :
          /\ overtaken \/ \A w \in Worker \ cut : pc[w] = "idle"
          /\ Cancelled(cut, c, d, k)
    BY <2>2
  <2>3. running' \in BOOLEAN /\ stops' \in 0..MaxStops
    <3>1. stops \in Nat /\ MaxStops \in Nat
      BY <1>1, BoundAssumption DEF Types
    <3>2. stops + 1 \in 0..MaxStops
      BY <2>1, <3>1
    <3>3. stops' = stops + 1 /\ running' = FALSE
      BY <2>1
    <3> QED
      BY <3>2, <3>3
  <2> QED
    BY <1>23, <2>1, <2>3, <2>4, CancelledIs
<1>24. ASSUME UNCHANGED <<live, token, queue, pc, forced, got, began, issued, confirmed, refused>>,
              state' \in State, running' \in BOOLEAN, stops' \in 0..MaxStops,
              overtaken' \in BOOLEAN, overtaken => overtaken',
              acquired_at' \in {"none", "fresh", "stale"}, threads' \subseteq threads,
              \A c \in Caller : pc[c] = "login" => got[c] \in threads',
              running => running'
       PROVE  StoreInv'
  <2>1. LockInv' /\ Types'
    BY <1>1, <1>24 DEF LockInv, QueueGood, Distinct, In, IsHead, Types
  <2>2. Roles' /\ TokenInv' /\ FreshInv'
    BY <1>1, <1>24 DEF Roles, TokenInv, FreshInv
  <2> QED
    BY <2>1, <2>2 DEF StoreInv
<1>25. ASSUME NEW n \in threads, OrphanEnds(n), UNCHANGED live
       PROVE  StoreInv'
  <2>1. \A c \in Caller : pc[c] = "login" => got[c] \in threads'
    BY <1>1, <1>25 DEF OrphanEnds, Orphan, TokenInv
  <2> QED
    BY <1>1, <1>24, <1>25, <2>1 DEF OrphanEnds, storeVars, callVars, sessionVars, Types
<1>26. CASE (SessionStart \/ SessionStopped \/ TokenAges) /\ UNCHANGED live
  <2>1. \A c \in Caller : pc[c] = "login" => got[c] \in threads
    BY <1>1 DEF TokenInv
  <2>2. stops' \in 0..MaxStops
    BY <1>1, <1>26, BoundAssumption DEF SessionStart, SessionStopped, TokenAges, sessionVars, Types
  <2> QED
    BY <1>1, <1>24, <1>26, <2>1, <2>2
       DEF SessionStart, SessionStopped, TokenAges, storeVars, callVars, sessionVars, Types, State
<1>27. CASE UNCHANGED vars
  <2>1. \A c \in Caller : pc[c] = "login" => got[c] \in threads
    BY <1>1 DEF TokenInv
  <2> QED
    BY <1>1, <1>24, <1>27, <2>1 DEF vars, storeVars, callVars, sessionVars, Types
<1> QED
  BY <1>8, <1>9, <1>10, <1>11, <1>12, <1>13, <1>15, <1>16, <1>17, <1>18, <1>19, <1>20, <1>21,
     <1>22, <1>23, <1>25, <1>26, <1>27 DEF Next, CallSteps

THEOREM StoreInvariant == Spec => []StoreInv
<1>1. Init => StoreInv
  BY StoreInit
<1>2. StoreInv /\ [Next]_vars => StoreInv'
  BY StoreStep
<1> QED
  BY <1>1, <1>2, PTL DEF Spec

-----------------------------------------------------------------------------
(* The theorems.                                                             *)

\* The store keeps its types, and the queue of its lock lists exactly the calls
\* that want it, whoever is cancelled and wherever.
THEOREM TypeCorrect == Spec => []TypeOK
<1>1. StoreInv => TypeOK
  <2> SUFFICES ASSUME StoreInv
               PROVE  TypeOK
    OBVIOUS
  <2>1. pc \in [Caller -> Pc] /\ QueueGood(queue, pc) /\ Types
    BY DEF StoreInv, LockInv
  <2>2. ToSet(queue) = {c \in Caller : pc[c] \in Locking}
    <3>1. queue \in Seq(Caller) /\ \A c \in Caller : In(queue, c) <=> pc[c] \in Locking
      BY <2>1 DEF QueueGood
    <3>2. \A c \in ToSet(queue) : c \in Caller /\ In(queue, c)
      BY <3>1 DEF ToSet, In
    <3>3. \A c \in Caller : In(queue, c) => c \in ToSet(queue)
      BY <3>1 DEF ToSet, In
    <3> QED
      BY <3>1, <3>2, <3>3
  <2>3. began \in [Caller -> 0..MaxLogins] /\ confirmed \in 0..MaxLogins
    BY <2>1, BoundAssumption DEF Types
  <2> QED
    BY <2>1, <2>2, <2>3 DEF QueueGood, Types, TypeOK
<1> QED
  BY <1>1, StoreInvariant, PTL

\* refresh_session() gives the lock up between dropping the token and logging
\* in; the token it returns is one obtained after it was called all the same.
THEOREM RefreshIsFreshHolds == Spec => []RefreshIsFresh
<1>1. StoreInv => RefreshIsFresh
  BY DEF StoreInv, FreshInv, RefreshIsFresh, Types
<1> QED
  BY <1>1, StoreInvariant, PTL

\* acquired_at never makes another token than the one it is about look young,
\* although status messages drop the token without the lock.
THEOREM AgeIsTheTokensHolds == Spec => []AgeIsTheTokens
<1>1. StoreInv => AgeIsTheTokens
  BY DEF StoreInv, TokenInv, AgeIsTheTokens, Cached
<1> QED
  BY <1>1, StoreInvariant, PTL

\* The certlogins somebody waits for are one at a time, for the store's lock is
\* held over them.
THEOREM OneLoginHolds == Spec => []OneLogin
<1>1. StoreInv => OneLogin
  <2> SUFFICES ASSUME StoreInv
               PROVE  OneLogin
    OBVIOUS
  <2> DEFINE awaited == {n \in threads : ~Orphan(n)}
  <2>1. \A n \in awaited : n = issued
    BY DEF StoreInv, TokenInv, Orphan
  <2>2. awaited = {} \/ awaited = {issued}
    BY <2>1
  <2>3. Cardinality({}) = 0 /\ Cardinality({issued}) = 1
    BY FS_EmptySet, FS_Singleton
  <2>4. Cardinality(awaited) <= 1
    BY <2>2, <2>3
  <2> QED
    BY <2>4 DEF OneLogin
<1> QED
  BY <1>1, StoreInvariant, PTL

\* No login or keepalive puts an older token in the place of a newer one,
\* certlogins that outlived their task included.
THEOREM TokensGoForwardHolds == Spec => TokensGoForward
<1>1. StoreInv /\ StoreInv' /\ [Next]_vars => [token' # 0 => token' >= confirmed]_vars
  <2> SUFFICES ASSUME StoreInv, StoreInv', Next, token' # 0
               PROVE  token' >= confirmed
    BY DEF vars
  <2>1. confirmed \in Nat /\ (token \in {0, confirmed})
    BY BoundAssumption DEF StoreInv, Types, TokenInv
  <2>2. CASE token' = token
    BY <2>1, <2>2
  <2>3. ASSUME NEW c \in Caller, LoginReturns(c)
        PROVE  token' >= confirmed
    <3>1. token' = got[c] /\ confirmed < got[c] /\ got[c] \in Nat
      BY <2>3, BoundAssumption DEF StoreInv, Types, TokenInv, LoginReturns
    <3> QED
      BY <2>1, <3>1
  <2> QED
    BY <2>2, <2>3
       DEF Next, CallSteps, Connect, GetSessionToken, ReloginRest, Calls, ReturnsCached,
           BeginLogin, LoginFails, RefreshDrops, Dropped, RestDone, Keepalive, BeginKeepalive,
           KeepaliveReturns, StreamAuthenticates, StreamEnds, StreamCancelled, OrphanEnds,
           SessionStart, SessionStop, SessionStopped, TokenAges, storeVars
<1> QED
  BY <1>1, StoreInvariant, PTL DEF Spec, TokensGoForward

\* However starts and stops overlap, after a stop ("report the session as
\* stopped, not 'active'") only a login with the LIVE key changes what state
\* says: an order write's, or, once a start() has overtaken a stop, one of a
\* connection that a stop missed.
THEOREM StaysStoppedHolds == Spec => StaysStopped
<1> DEFINE Revived ==
      running \/ \E c \in Caller : LogsIn(c) /\ (c \in Rest \/ (c \in Stream /\ overtaken))
<1>1. StoreInv /\ [Next]_vars => [state = "stopped" /\ state' # "stopped" => Revived]_vars
  <2> SUFFICES ASSUME StoreInv, Next, state = "stopped", state' # "stopped"
               PROVE  Revived
    BY DEF vars
  <2>1. PICK c \in Caller : BeginLogin(c) \/ LoginReturns(c) \/ LoginFails(c)
    BY DEF Next, CallSteps, Connect, GetSessionToken, ReloginRest, Calls, ReturnsCached,
           RefreshDrops, RestDone, Keepalive, BeginKeepalive,
           KeepaliveReturns, StreamAuthenticates, StreamEnds, StreamCancelled, OrphanEnds,
           SessionStart, SessionStop, SessionStopped, TokenAges
  <2>2. pc[c] \in {"get", "login"}
    BY <2>1 DEF BeginLogin, LoginReturns, LoginFails
  <2>3. c \in Rest \/ (c \in Stream /\ (overtaken \/ running))
    BY <2>2 DEF StoreInv, Roles, Caller, Worker
  <2>4. pc'[c] # pc[c]
    <3>1. pc \in [Caller -> Pc]
      BY DEF StoreInv, LockInv
    <3>2. ASSUME Raises(c)
          PROVE  pc'[c] \in {"idle", "drop"}
      BY <3>1, <3>2 DEF Raises, Ends, Over
    <3>3. CASE BeginLogin(c)
      BY <3>1, <3>2, <3>3 DEF BeginLogin
    <3>4. CASE LoginReturns(c)
      BY <3>1, <3>4 DEF LoginReturns, Returns
    <3>5. CASE LoginFails(c)
      BY <3>1, <3>2, <3>5 DEF LoginFails
    <3> QED
      BY <2>1, <3>3, <3>4, <3>5
  <2> QED
    BY <2>2, <2>3, <2>4 DEF LogsIn
<1> QED
  BY <1>1, StoreInvariant, PTL DEF Spec, StaysStopped

-----------------------------------------------------------------------------
(* One line of logins.                                                       *)

LoggingIn == \E c \in Caller : pc[c] = "login"

\* Whoever logs in awaits the latest certlogin.
LEMMA AwaitedIs ==
  ASSUME StoreInv
  PROVE  issued \in Nat /\ Awaited = (IF LoggingIn THEN issued ELSE 0) /\ (LoggingIn => issued # 0)
<1>1. issued \in Nat /\ confirmed \in Nat
  BY BoundAssumption DEF StoreInv, Types
<1>2. \A c \in Caller : pc[c] = "login" => got[c] = issued /\ issued # 0
  BY <1>1 DEF StoreInv, TokenInv
<1>3. CASE LoggingIn
  <2> DEFINE c == CHOOSE d \in Caller : pc[d] = "login"
  <2>1. c \in Caller /\ pc[c] = "login"
    BY <1>3 DEF LoggingIn
  <2>2. Awaited = got[c]
    BY <1>3 DEF LoggingIn, Awaited
  <2> HIDE DEF c
  <2> QED
    BY <1>1, <1>2, <1>3, <2>1, <2>2
<1>4. CASE ~LoggingIn
  BY <1>1, <1>4 DEF LoggingIn, Awaited
<1> QED
  BY <1>3, <1>4

LEMMA AwaitedNext ==
  ASSUME StoreInv'
  PROVE  Awaited' = IF LoggingIn' THEN issued' ELSE 0
<1>1. \A c \in Caller : pc'[c] = "login" => got'[c] = issued'
  BY DEF StoreInv, TokenInv
<1>2. CASE \E c \in Caller : pc'[c] = "login"
  <2> DEFINE c == CHOOSE d \in Caller : pc'[d] = "login"
  <2>1. c \in Caller /\ pc'[c] = "login"
    BY <1>2
  <2>2. Awaited' = got'[c]
    BY <1>2 DEF Awaited
  <2> HIDE DEF c
  <2> QED
    BY <1>1, <1>2, <2>1, <2>2 DEF LoggingIn
<1>3. CASE ~\E c \in Caller : pc'[c] = "login"
  BY <1>3 DEF Awaited, LoggingIn
<1> QED
  BY <1>2, <1>3

\* A step that asks for no certlogin and stores no token: some call may go on
\* logging in, give up, or the token may be dropped, not both.
LEMMA LineKeeps ==
  ASSUME StoreInv, StoreInv', UNCHANGED issued,
         \A c \in Caller : pc'[c] = "login" => pc[c] = "login",
         \/ UNCHANGED token
         \/ token' = 0 /\ \A c \in Caller : pc[c] = "login" => pc'[c] = "login"
  PROVE  [Line!Next]_<<token, issued, Awaited>>
<1>1. /\ Awaited = (IF LoggingIn THEN issued ELSE 0) /\ (LoggingIn => issued # 0)
  BY AwaitedIs
<1>2. Awaited' = IF LoggingIn' THEN issued' ELSE 0
  BY AwaitedNext
<1>3. LoggingIn' => LoggingIn
  BY DEF LoggingIn
<1>4. CASE UNCHANGED token
  BY <1>1, <1>2, <1>3, <1>4 DEF Line!Next, Line!GiveUp
<1>5. CASE token' = 0 /\ \A c \in Caller : pc[c] = "login" => pc'[c] = "login"
  <2>1. LoggingIn => LoggingIn'
    BY <1>5 DEF LoggingIn
  <2>2. Awaited' = Awaited
    BY <1>1, <1>2, <1>3, <2>1
  <2> QED
    BY <1>5, <2>2 DEF Line!Next, Line!Lose
<1> QED
  BY <1>4, <1>5

LEMMA LineStep ==
  ASSUME StoreInv, StoreInv', [Next]_vars
  PROVE  [Line!Next]_<<token, issued, Awaited>>
<1>1. /\ pc \in [Caller -> Pc] /\ QueueGood(queue, pc)
      /\ got \in [Caller -> 0..MaxLogins] /\ issued \in Nat
  BY BoundAssumption DEF StoreInv, LockInv, Types, Caller
<1>2. /\ Awaited = (IF LoggingIn THEN issued ELSE 0) /\ (LoggingIn => issued # 0)
      /\ Awaited' = IF LoggingIn' THEN issued' ELSE 0
  BY AwaitedIs, AwaitedNext
<1>3. ASSUME NEW c \in Caller, pc' = [pc EXCEPT ![c] = "idle"] \/ pc' = [pc EXCEPT ![c] = "using"]
                               \/ pc' = [pc EXCEPT ![c] = "drop"],
             UNCHANGED <<issued, token>>
      PROVE  [Line!Next]_<<token, issued, Awaited>>
  <2>1. \A d \in Caller : pc'[d] = "login" => pc[d] = "login"
    BY <1>1, <1>3
  <2> QED
    BY <1>3, <2>1, LineKeeps
<1>4. ASSUME NEW c \in Caller, pc[c] # "login",
             NEW s \in Pc \ {"login"}, pc' = [pc EXCEPT ![c] = s],
             UNCHANGED issued, token' = token \/ token' = 0
      PROVE  [Line!Next]_<<token, issued, Awaited>>
  <2>1. \A d \in Caller : pc'[d] = "login" <=> pc[d] = "login"
    BY <1>1, <1>4
  <2> QED
    BY <1>4, <2>1, LineKeeps
<1>5. ASSUME NEW c \in Caller, Over({c})
      PROVE  pc' = [pc EXCEPT ![c] = "idle"]
  BY <1>1, <1>5 DEF Over
<1>6. {"idle", "connecting", "get", "drop", "keepalive", "ping", "using", "streaming"}
        \subseteq Pc \ {"login"}
  BY DEF Pc
<1>7. ASSUME NEW c \in Caller, Raises(c), UNCHANGED <<issued, token>>
      PROVE  [Line!Next]_<<token, issued, Awaited>>
  BY <1>3, <1>5, <1>7 DEF Raises, Ends
<1>8. CASE UNCHANGED <<token, issued, pc>>
  BY <1>8, LineKeeps
<1>9. ASSUME NEW c \in Caller, Connect(c) \/ GetSessionToken(c) \/ ReloginRest(c)
                               \/ ReturnsCached(c) \/ RefreshDrops(c) \/ RestDone(c)
      PROVE  [Line!Next]_<<token, issued, Awaited>>
  <2>1. pc[c] # "login" /\ UNCHANGED issued /\ (token' = token \/ token' = 0)
    BY <1>9 DEF Connect, GetSessionToken, ReloginRest, Calls, ReturnsCached, RefreshDrops, Dropped,
                RestDone, storeVars
  <2>2. \E s \in {"idle", "connecting", "get", "drop", "using"} : pc' = [pc EXCEPT ![c] = s]
    BY <1>5, <1>9 DEF Connect, GetSessionToken, ReloginRest, Calls, ReturnsCached, Returns, RefreshDrops,
                      RestDone, Ends
  <2> QED
    BY <1>4, <1>6, <2>1, <2>2
<1>10. ASSUME NEW c \in Caller, BeginLogin(c)
       PROVE  [Line!Next]_<<token, issued, Awaited>>
  <2>1. HasLock(c) /\ pc[c] = "get" /\ UNCHANGED token
    BY <1>10 DEF BeginLogin, storeVars
  <2>2. CASE Raises(c) /\ UNCHANGED <<issued, threads>>
    BY <1>7, <2>1, <2>2
  <2>3. CASE issued' = issued + 1 /\ pc' = [pc EXCEPT ![c] = "login"]
    <3>1. ~LoggingIn
      <4>1. \A d \in Caller : pc[d] = "login" => c = d
        BY <1>1, <2>1, OneHolder DEF HasLock, IsHead
      <4> QED
        BY <2>1, <4>1 DEF LoggingIn
    <3>2. LoggingIn'
      BY <1>1, <2>3 DEF LoggingIn
    <3> QED
      BY <1>2, <2>1, <2>3, <3>1, <3>2 DEF Line!Next, Line!Ask
  <2> QED
    BY <1>10, <2>2, <2>3 DEF BeginLogin
<1>11. ASSUME NEW c \in Caller, LoginReturns(c)
       PROVE  [Line!Next]_<<token, issued, Awaited>>
  <2>1. /\ pc[c] = "login" /\ token' = got[c] /\ UNCHANGED issued
        /\ pc' = [pc EXCEPT ![c] = "using"]
    BY <1>11 DEF LoginReturns, Returns
  <2>2. \A d \in Caller : pc[d] = "login" => c = d
    BY <1>1, <2>1, OneHolder
  <2>3. LoggingIn /\ ~LoggingIn' /\ got[c] = issued
    BY <1>1, <2>1, <2>2 DEF LoggingIn, StoreInv, TokenInv
  <2> QED
    BY <1>2, <2>1, <2>3 DEF Line!Next, Line!Obtain
<1>12. ASSUME NEW c \in Caller, LoginFails(c)
       PROVE  [Line!Next]_<<token, issued, Awaited>>
  BY <1>7, <1>12 DEF LoginFails, storeVars
<1>13. ASSUME NEW c \in Caller, Keepalive(c) \/ BeginKeepalive(c) \/ KeepaliveReturns(c)
       PROVE  [Line!Next]_<<token, issued, Awaited>>
  <2>1. pc[c] # "login" /\ UNCHANGED issued /\ (token' = token \/ token' = 0)
    BY <1>13 DEF Keepalive, Calls, BeginKeepalive, KeepaliveReturns, storeVars
  <2>2. \E s \in {"idle", "keepalive", "ping"} : pc' = [pc EXCEPT ![c] = s]
    BY <1>1, <1>5, <1>13 DEF Keepalive, Calls, BeginKeepalive, KeepaliveReturns, Ends
  <2> QED
    BY <1>1, <1>4, <1>6, <2>1, <2>2
<1>14. ASSUME NEW c \in Caller, StreamAuthenticates(c) \/ StreamEnds(c)
       PROVE  [Line!Next]_<<token, issued, Awaited>>
  <2>1. pc[c] # "login" /\ UNCHANGED issued /\ (token' = token \/ token' = 0)
    BY <1>14 DEF StreamAuthenticates, StreamEnds, Dropped, storeVars
  <2>2. \E s \in {"idle", "streaming"} : pc' = [pc EXCEPT ![c] = s]
    BY <1>1, <1>5, <1>14 DEF StreamAuthenticates, StreamEnds, Ends
  <2> QED
    BY <1>1, <1>4, <1>6, <2>1, <2>2
<1>15. ASSUME SessionStop \/ \E c \in Caller : StreamCancelled(c)
       PROVE  [Line!Next]_<<token, issued, Awaited>>
  <2>1. UNCHANGED <<token, issued>> /\ \E cut : Over(cut)
    BY <1>15 DEF StreamCancelled, Ends, SessionStop, StopCancels, Cancelled, storeVars
  <2>2. \A e \in Caller : pc'[e] = "login" => pc[e] = "login"
    BY <2>1 DEF Over
  <2> QED
    BY <2>1, <2>2, LineKeeps
<1> QED
  BY <1>8, <1>9, <1>10, <1>11, <1>12, <1>13, <1>14, <1>15
     DEF Next, CallSteps, OrphanEnds, SessionStart, SessionStopped, TokenAges, vars, storeVars,
         callVars

\* However calls overlap, fail or are cancelled, the store implements
\* TokenLine: a cancelled certlogin's token is never stored, and a token that
\* was dropped - by refresh_session(), a refused keepalive, or a status message
\* that does not wait for the lock - never comes back.
THEOREM TokensOfOneLineHolds == Spec => TokensOfOneLine
<1>1. Init => Line!Init
  <2> SUFFICES ASSUME Init
               PROVE  Line!Init
    OBVIOUS
  <2>1. ~LoggingIn /\ token = 0 /\ issued = 0
    BY DEF Init, LoggingIn
  <2>2. Awaited = 0
    BY <2>1, StoreInit, AwaitedIs
  <2> QED
    BY <2>1, <2>2 DEF Line!Init
<1>2. StoreInv /\ StoreInv' /\ [Next]_vars => [Line!Next]_<<token, issued, Awaited>>
  BY LineStep
<1> QED
  BY <1>1, <1>2, StoreInvariant, PTL DEF Spec, TokensOfOneLine, Line!Spec
=============================================================================
