----------------------- MODULE BruteForceGuardProofs -----------------------
(* Proofs about the brute-force guard, for every number of addresses,      *)
(* accounts and requests and every setting of its options.                 *)
EXTENDS Guards, FiniteSetTheorems, TLAPS

-----------------------------------------------------------------------------
(* Maps and evictions.                                                     *)

\* An eviction only removes keys, and leaves the other entries as they were.
LEMMA AfterLimitShrinks ==
  ASSUME NEW table, NEW limit, NEW after \in AfterLimit(table, limit)
  PROVE  /\ DOMAIN after \subseteq DOMAIN table
         /\ \A k \in DOMAIN after : after[k] = table[k]
<1>1. CASE Cardinality(DOMAIN table) >= limit
  <2>1. PICK k \in Oldest(table) : after = Drop(table, {k})
    BY <1>1 DEF AfterLimit
  <2> QED BY <2>1 DEF Drop
<1>2. CASE ~(Cardinality(DOMAIN table) >= limit)
  BY <1>2 DEF AfterLimit
<1> QED BY <1>1, <1>2

\* After the eviction there is room for one more key.
LEMMA AfterLimitLeavesRoom ==
  ASSUME NEW table, NEW limit \in Nat \ {0}, IsFiniteSet(DOMAIN table),
         Cardinality(DOMAIN table) <= limit,
         NEW after \in AfterLimit(table, limit)
  PROVE  IsFiniteSet(DOMAIN after) /\ Cardinality(DOMAIN after) < limit
<1> DEFINE D == DOMAIN table
<1>0. Cardinality(D) \in Nat
  BY FS_CardinalityType
<1>1. CASE Cardinality(D) >= limit
  <2>1. PICK k \in Oldest(table) : after = Drop(table, {k})
    BY <1>1 DEF AfterLimit
  <2>2. k \in D /\ DOMAIN after = D \ {k}
    BY <2>1 DEF Drop, Oldest
  <2>3. IsFiniteSet(D \ {k}) /\ Cardinality(D \ {k}) = Cardinality(D) - 1
    BY <2>2, FS_RemoveElement
  <2> QED BY <2>2, <2>3, <1>0
<1>2. CASE ~(Cardinality(D) >= limit)
  BY <1>2, <1>0 DEF AfterLimit
<1> QED BY <1>1, <1>2

\* A key put where there is room keeps the table within its limit.
LEMMA PutFits ==
  ASSUME NEW table, NEW limit \in Nat, NEW k, NEW v,
         IsFiniteSet(DOMAIN table), Cardinality(DOMAIN table) < limit
  PROVE  /\ IsFiniteSet(DOMAIN Put(table, k, v))
         /\ Cardinality(DOMAIN Put(table, k, v)) <= limit
<1>1. DOMAIN Put(table, k, v) = DOMAIN table \cup {k}
  BY DEF Put
<1> DEFINE D == DOMAIN table
<1>a. Cardinality(D) \in Nat
  BY FS_CardinalityType
<1>2. /\ IsFiniteSet(D \cup {k})
      /\ Cardinality(D \cup {k}) <= Cardinality(D) + 1
  BY <1>a, FS_AddElement
<1>3. Cardinality(DOMAIN table \cup {k}) \in Nat
  BY <1>2, FS_CardinalityType
<1> QED BY <1>1, <1>2, <1>3, <1>a

-----------------------------------------------------------------------------
(* Type correctness.                                                       *)

LEMMA BlockLengthType ==
  ASSUME NEW count \in Nat
  PROVE  BlockLength(count) \in Int /\ BlockLength(count) <= maxBlockDurationMs
<1>1. 2 ^ (count - 1) \in Int
  OBVIOUS
<1> QED BY <1>1, GuardAssumption DEF BlockLength

LEMMA EntryAfterFailureType ==
  ASSUME NEW entry \in Entry, NEW r \in Requests, now \in Nat
  PROVE  EntryAfterFailure(entry, r) \in Entry
<1>1. Recent(entry.attempts) \cup {[req |-> r, at |-> now]} \in SUBSET Attempt
  BY DEF Recent, Entry, Attempt
<1>2. entry.blockCount + 1 \in Nat
  BY DEF Entry
<1>3. now + BlockLength(entry.blockCount + 1) \in Int
  BY <1>2, BlockLengthType
<1> QED BY <1>1, <1>2, <1>3 DEF EntryAfterFailure, Entry
\* One lemma per handler, then the theorem.
LEMMA ArriveType ==
  ASSUME Types, NEW r \in Requests, NEW ip \in IPs,
         NEW acct \in Accounts \cup {NoAccount}, NEW s \in BOOLEAN,
         Arrive(r, ip, acct, s)
  PROVE  Types'
<1> USE DEF Types, Arrive
<1>1. /\ DOMAIN state' \subseteq IPs
      /\ \A i \in DOMAIN state' : state'[i] \in Entry
  BY DEF CheckIP, BlockExpired, Put, Entry
<1>2. /\ DOMAIN accountState' \subseteq Accounts
      /\ \A a \in DOMAIN accountState' : accountState'[a] \in AccountEntry
  BY DEF CheckAccount, Put, AccountEntry, Recent
<1>3. /\ DOMAIN request' \subseteq Requests
      /\ \A q \in DOMAIN request' : request'[q] \in Request
  BY DEF Put, Request
<1> QED BY <1>1, <1>2, <1>3

LEMMA FinishType ==
  ASSUME Types, NEW r \in Requests, NEW s, NEW end \in Request,
         Finish(r, s, end)
  PROVE  /\ DOMAIN request' \subseteq Requests
         /\ \A q \in DOMAIN request' : request'[q] \in Request
BY DEF Types, Finish, Put

LEMMA RespondNotFailedType ==
  ASSUME Types, NEW r \in Requests, RespondNotFailed(r)
  PROVE  Types'
<1>1. PICK end \in {"closed", "error"} : Finish(r, TRUE, [phase |-> end])
  BY DEF RespondNotFailed
<1>2. [phase |-> end] \in Request
  BY DEF Request
<1>3. PICK table \in AfterLimit(state, maxStateSize) :
        state' = Drop(table, {request[r].ip})
  BY DEF RespondNotFailed
<1>4. /\ DOMAIN state' \subseteq IPs
      /\ \A i \in DOMAIN state' : state'[i] \in Entry
  BY <1>3, AfterLimitShrinks DEF Drop, Types
<1> QED BY <1>1, <1>2, <1>4, FinishType DEF RespondNotFailed, Finish, Types

LEMMA RespondFailedType ==
  ASSUME Types, NEW r \in Requests, RespondFailed(r)
  PROVE  Types'
<1> DEFINE end == [request[r] EXCEPT !.phase = "failed", !.at = now]
           ip == request[r].ip
           acct == request[r].acct
<1>1. /\ request[r] \in Request /\ request[r].phase = "inflight"
      /\ Finish(r, TRUE, end) /\ r \in DOMAIN request
  BY DEF RespondFailed, Finish, InFlight, Types
<1>2. end \in Request /\ ip \in IPs /\ acct \in Accounts \cup {NoAccount}
  BY <1>1 DEF Request, Types
<1>3. /\ DOMAIN state' \subseteq IPs
      /\ \A i \in DOMAIN state' : state'[i] \in Entry
  <2>1. PICK table \in AfterLimit(state, maxStateSize) :
          state' = Put(table, ip, EntryAfterFailure(
            IF ip \in DOMAIN table THEN table[ip]
            ELSE [attempts |-> {}, blockUntil |-> NoBlock,
                  blockCount |-> 0, born |-> failures], r))
    BY DEF RespondFailed, RecordForIP
  <2>2. /\ DOMAIN table \subseteq IPs
        /\ \A i \in DOMAIN table : table[i] \in Entry
    BY AfterLimitShrinks DEF Types
  <2>3. [attempts |-> {}, blockUntil |-> NoBlock,
         blockCount |-> 0, born |-> failures] \in Entry
    BY DEF Types, Entry
  <2>4. now \in Nat
    BY DEF Types
  <2> QED BY <2>1, <2>2, <2>3, <2>4, <1>2, EntryAfterFailureType DEF Put
<1>4. /\ DOMAIN accountState' \subseteq Accounts
      /\ \A a \in DOMAIN accountState' : accountState'[a] \in AccountEntry
  <2>1. CASE acct = NoAccount
    BY <2>1 DEF RespondFailed, RecordForAccount, Types
  <2>2. CASE acct # NoAccount
    <3>1. PICK table \in AfterLimit(accountState, maxAccountStateSize) :
            accountState' = Put(table, acct,
              [(IF acct \in DOMAIN table THEN table[acct]
                ELSE [attempts |-> {}, born |-> failures])
               EXCEPT !.attempts = @ \cup {[req |-> r, at |-> now]}])
      BY <2>2 DEF RespondFailed, RecordForAccount
    <3>2. /\ DOMAIN table \subseteq Accounts
          /\ \A a \in DOMAIN table : table[a] \in AccountEntry
      BY AfterLimitShrinks DEF Types
    <3>3. (IF acct \in DOMAIN table THEN table[acct]
           ELSE [attempts |-> {}, born |-> failures]) \in AccountEntry
      BY <3>2 DEF Types, AccountEntry
    <3>4. [req |-> r, at |-> now] \in Attempt
      BY DEF Types, Attempt
    <3> QED BY <3>1, <3>2, <3>3, <3>4, <2>2, <1>2 DEF Put, AccountEntry
  <2> QED BY <2>1, <2>2
<1> QED BY <1>1, <1>2, <1>3, <1>4, FinishType DEF RespondFailed, Finish, Types

LEMMA GcType == ASSUME Types, Gc PROVE Types'
BY DEF Types, Gc, Entry, AccountEntry, Recent

\* Whatever the traffic, the guard's tables hold entries of its addresses and
\* accounts only, and every request record is one of the states of its life.
LEMMA TypesCorrect == Spec => []Types
<1>1. Init => Types
  BY DEF Init, Types, Empty
<1>2. ASSUME Types, [Next]_vars PROVE Types'
  <2>1. ASSUME NEW r \in Requests, NEW ip \in IPs,
               NEW acct \in Accounts \cup {NoAccount}, NEW s \in BOOLEAN,
               Arrive(r, ip, acct, s)
        PROVE  Types'
    BY <1>2, <2>1, ArriveType
  <2>2. ASSUME NEW r \in Requests, RespondElsewhere(r) PROVE Types'
    <3>1. [phase |-> "closed"] \in Request
      BY DEF Request
    <3> QED BY <1>2, <2>2, <3>1, FinishType DEF RespondElsewhere, Finish, Types
  <2>3. ASSUME NEW r \in Requests, RespondNotFailed(r) PROVE Types'
    BY <1>2, <2>3, RespondNotFailedType
  <2>4. ASSUME NEW r \in Requests, RespondFailed(r) PROVE Types'
    BY <1>2, <2>4, RespondFailedType
  <2>5. ASSUME NEW ip \in IPs, Reset(ip) PROVE Types'
    BY <1>2, <2>5 DEF Reset, Drop, Types
  <2>6. CASE Gc
    BY <1>2, <2>6, GcType
  <2>7. CASE Destroy
    BY <1>2, <2>7 DEF Destroy, Empty, Types
  <2>8. CASE Tick
    BY <1>2, <2>8 DEF Tick, Types
  <2>9. CASE UNCHANGED vars
    BY <1>2, <2>9 DEF vars, Types
  <2> QED BY <1>2, <2>1, <2>2, <2>3, <2>4, <2>5, <2>6, <2>7, <2>8, <2>9 DEF Next
<1> QED BY <1>1, <1>2, PTL DEF Spec

-----------------------------------------------------------------------------
(* The limits on the two tables.                                           *)

TablesInv ==
  /\ IsFiniteSet(DOMAIN state) /\ IsFiniteSet(DOMAIN accountState)
  /\ TablesBounded

LEMMA RespondFailedTables ==
  ASSUME TablesInv, NEW r \in Requests, RespondFailed(r)
  PROVE  TablesInv'
<1>1. IsFiniteSet(DOMAIN state') /\ Cardinality(DOMAIN state') <= maxStateSize
  <2>1. PICK table, v :
          /\ table \in AfterLimit(state, maxStateSize)
          /\ state' = Put(table, request[r].ip, v)
    BY DEF RespondFailed, RecordForIP
  <2>2. IsFiniteSet(DOMAIN table) /\ Cardinality(DOMAIN table) < maxStateSize
    BY <2>1, AfterLimitLeavesRoom, GuardAssumption DEF TablesInv, TablesBounded
  <2>3. /\ IsFiniteSet(DOMAIN Put(table, request[r].ip, v))
        /\ Cardinality(DOMAIN Put(table, request[r].ip, v)) <= maxStateSize
    BY <2>2, PutFits, GuardAssumption
  <2> QED BY <2>1, <2>3
<1>2. /\ IsFiniteSet(DOMAIN accountState')
      /\ Cardinality(DOMAIN accountState') <= maxAccountStateSize
  <2>1. CASE request[r].acct = NoAccount
    BY <2>1 DEF RespondFailed, RecordForAccount, TablesInv, TablesBounded
  <2>2. CASE request[r].acct # NoAccount
    <3>1. PICK table, v :
            /\ table \in AfterLimit(accountState, maxAccountStateSize)
            /\ accountState' = Put(table, request[r].acct, v)
      BY <2>2 DEF RespondFailed, RecordForAccount
    <3>2. /\ IsFiniteSet(DOMAIN table)
          /\ Cardinality(DOMAIN table) < maxAccountStateSize
      BY <3>1, AfterLimitLeavesRoom, GuardAssumption DEF TablesInv, TablesBounded
    <3>3. /\ IsFiniteSet(DOMAIN Put(table, request[r].acct, v))
          /\ Cardinality(DOMAIN Put(table, request[r].acct, v)) <= maxAccountStateSize
      BY <3>2, PutFits, GuardAssumption
    <3> QED BY <3>1, <3>3
  <2> QED BY <2>1, <2>2
<1> QED BY <1>1, <1>2 DEF TablesInv, TablesBounded

\* Every other step only removes keys, or puts back a key that is there.
LEMMA TablesShrink ==
  ASSUME TablesInv, DOMAIN state' \subseteq DOMAIN state,
         DOMAIN accountState' \subseteq DOMAIN accountState
  PROVE  TablesInv'
<1>1. /\ IsFiniteSet(DOMAIN state')
      /\ Cardinality(DOMAIN state') <= Cardinality(DOMAIN state)
  BY FS_Subset DEF TablesInv
<1>2. /\ IsFiniteSet(DOMAIN accountState')
      /\ Cardinality(DOMAIN accountState') <= Cardinality(DOMAIN accountState)
  BY FS_Subset DEF TablesInv
<1>3. {Cardinality(DOMAIN state), Cardinality(DOMAIN state'),
       Cardinality(DOMAIN accountState), Cardinality(DOMAIN accountState')}
        \subseteq Nat
  BY <1>1, <1>2, FS_CardinalityType DEF TablesInv
<1> QED BY <1>1, <1>2, <1>3, GuardAssumption DEF TablesInv, TablesBounded

\* Every step keeps both tables finite and within their limits.
LEMMA TablesInvariant == Spec => []TablesInv
<1>1. Init => TablesInv
  BY FS_EmptySet, GuardAssumption DEF Init, Empty, TablesInv, TablesBounded
<1>2. ASSUME TablesInv, [Next]_vars PROVE TablesInv'
  <2>1. ASSUME NEW r \in Requests, NEW ip \in IPs,
               NEW acct \in Accounts \cup {NoAccount}, NEW s \in BOOLEAN,
               Arrive(r, ip, acct, s)
        PROVE  TablesInv'
    BY <1>2, <2>1, TablesShrink
       DEF Arrive, CheckIP, CheckAccount, BlockExpired, Put
  <2>2. ASSUME NEW r \in Requests, RespondElsewhere(r) PROVE TablesInv'
    BY <1>2, <2>2, TablesShrink DEF RespondElsewhere
  <2>3. ASSUME NEW r \in Requests, RespondNotFailed(r) PROVE TablesInv'
    <3>1. PICK table \in AfterLimit(state, maxStateSize) :
            state' = Drop(table, {request[r].ip})
      BY <2>3 DEF RespondNotFailed
    <3> QED BY <1>2, <2>3, <3>1, AfterLimitShrinks, TablesShrink
            DEF RespondNotFailed, Drop
  <2>4. ASSUME NEW r \in Requests, RespondFailed(r) PROVE TablesInv'
    BY <1>2, <2>4, RespondFailedTables
  <2>5. ASSUME NEW ip \in IPs, Reset(ip) PROVE TablesInv'
    BY <1>2, <2>5, TablesShrink DEF Reset, Drop
  <2>6. CASE Gc
    BY <1>2, <2>6, TablesShrink DEF Gc
  <2>7. CASE Destroy
    BY <1>2, <2>7, TablesShrink DEF Destroy, Empty
  <2>8. CASE Tick
    BY <1>2, <2>8, TablesShrink DEF Tick
  <2>9. CASE UNCHANGED vars
    BY <1>2, <2>9, TablesShrink DEF vars
  <2> QED BY <1>2, <2>1, <2>2, <2>3, <2>4, <2>5, <2>6, <2>7, <2>8, <2>9 DEF Next
<1> QED BY <1>1, <1>2, PTL DEF Spec

\* Every variable keeps its type, and neither table ever outgrows its limit.
THEOREM TypeCorrect == Spec => []TypeOK
<1>1. TablesInv /\ Types => TypeOK
  BY DEF TablesInv, TypeOK
<1> QED BY <1>1, TablesInvariant, TypesCorrect, PTL

-----------------------------------------------------------------------------
(* The account lock counts exactly the failed logins in the window.        *)

\* No request is dated later than now.
NotFuture ==
  \A r \in DOMAIN request :
    request[r].phase \in {"inflight", "failed"} => request[r].at <= now

\* Every recorded attempt is the failed login of its account that caused it.
Labelled ==
  /\ \A a \in DOMAIN accountState : \A x \in accountState[a].attempts :
       FailedLogin(x.req) /\ request[x.req].acct = a /\ request[x.req].at = x.at
  /\ NotFuture

Roomy == IsFiniteSet(Accounts) /\ Cardinality(Accounts) < maxAccountStateSize

\* Below capacity, every failed login inside the window is on record.
Kept ==
  Roomy =>
    \A r \in DOMAIN request :
      /\ request[r].phase = "failed" /\ request[r].acct # NoAccount
      /\ now - request[r].at < windowMs
      => /\ request[r].acct \in DOMAIN accountState
         /\ [req |-> r, at |-> request[r].at]
              \in accountState[request[r].acct].attempts

MemoryInv == Types /\ Labelled /\ Kept

LEMMA MemoryInvSuffices == MemoryInv => AccountMemory
<1> SUFFICES ASSUME MemoryInv, NEW a \in Accounts
             PROVE  /\ AccountAttempts(a) \subseteq AccountFailures(a)
                    /\ Roomy => AccountFailures(a) \subseteq AccountAttempts(a)
  BY DEF AccountMemory, Roomy
<1>1. ASSUME NEW r \in AccountAttempts(a) PROVE r \in AccountFailures(a)
  <2>1. a \in DOMAIN accountState
    BY <1>1 DEF AccountAttempts
  <2>2. PICK x \in Recent(accountState[a].attempts) : r = x.req
    BY <1>1, <2>1 DEF AccountAttempts
  <2>3. x \in accountState[a].attempts /\ now - x.at < windowMs /\ x \in Attempt
    BY <2>1, <2>2 DEF Recent, MemoryInv, Types, AccountEntry
  <2>4. FailedLogin(r) /\ request[r].acct = a /\ request[r].at = x.at
    BY <2>1, <2>2, <2>3 DEF MemoryInv, Labelled
  <2> QED BY <2>2, <2>3, <2>4 DEF AccountFailures, Attempt
<1>2. ASSUME Roomy, NEW r \in AccountFailures(a) PROVE r \in AccountAttempts(a)
  <2>1. /\ r \in DOMAIN request /\ request[r].phase = "failed"
        /\ request[r].acct = a /\ now - request[r].at < windowMs
    BY <1>2 DEF AccountFailures, FailedLogin
  <2>2. a # NoAccount
    BY GuardAssumption
  <2>3. /\ a \in DOMAIN accountState
        /\ [req |-> r, at |-> request[r].at] \in accountState[a].attempts
    BY <1>2, <2>1, <2>2 DEF MemoryInv, Kept
  <2>4. [req |-> r, at |-> request[r].at] \in Recent(accountState[a].attempts)
    BY <2>1, <2>3 DEF Recent
  <2> QED BY <2>3, <2>4 DEF AccountAttempts
<1> QED BY <1>1, <1>2

LEMMA ArriveMemory ==
  ASSUME Types, Labelled, Kept, NEW r \in Requests, NEW ip \in IPs,
         NEW acct \in Accounts \cup {NoAccount}, NEW s \in BOOLEAN,
         Arrive(r, ip, acct, s)
  PROVE  Labelled' /\ Kept'
<1>1. /\ r \notin DOMAIN request /\ now' = now
      /\ DOMAIN request' = DOMAIN request \cup {r}
      /\ \A q \in DOMAIN request : request'[q] = request[q]
      /\ request'[r].phase \in {"inflight", "closed"}
      /\ request'[r].phase = "inflight" => request'[r].at = now
  BY DEF Arrive, Put
<1>2. /\ DOMAIN accountState' = DOMAIN accountState
      /\ \A a \in DOMAIN accountState :
           /\ accountState'[a].attempts \subseteq accountState[a].attempts
           /\ Recent(accountState[a].attempts) \subseteq accountState'[a].attempts
  BY DEF Arrive, CheckAccount, Put, Recent, Types, AccountEntry
<1>3. Labelled'
  BY <1>1, <1>2 DEF Labelled, NotFuture, FailedLogin, Types
<1>4. Kept'
  BY <1>1, <1>2 DEF Kept, Roomy, Recent
<1> QED BY <1>3, <1>4

LEMMA CloseMemory ==
  ASSUME Types, Labelled, Kept, NEW r \in Requests, NEW s,
         NEW end \in [phase : {"closed", "error"}],
         Finish(r, s, end), UNCHANGED accountState
  PROVE  Labelled' /\ Kept'
<1>1. /\ r \in DOMAIN request /\ request[r].phase = "inflight" /\ now' = now
      /\ DOMAIN request' = DOMAIN request
      /\ \A q \in DOMAIN request \ {r} : request'[q] = request[q]
      /\ request'[r].phase \in {"closed", "error"}
  BY DEF Finish, InFlight, Put
<1>2. Labelled'
  BY <1>1 DEF Labelled, NotFuture, FailedLogin
<1>3. Kept'
  BY <1>1 DEF Kept, Roomy
<1> QED BY <1>2, <1>3

LEMMA RespondFailedMemory ==
  ASSUME Types, Labelled, Kept, NEW r \in Requests, RespondFailed(r)
  PROVE  Labelled' /\ Kept'
<1> DEFINE acct == request[r].acct
           new == [req |-> r, at |-> now]
<1>1. /\ r \in DOMAIN request /\ request[r].phase = "inflight" /\ now' = now
      /\ DOMAIN request' = DOMAIN request
      /\ \A q \in DOMAIN request \ {r} : request'[q] = request[q]
      /\ request'[r] = [request[r] EXCEPT !.phase = "failed", !.at = now]
  BY DEF RespondFailed, Finish, InFlight, Put
<1>2. /\ request'[r].phase = "failed" /\ request'[r].at = now
      /\ request'[r].acct = acct /\ acct \in Accounts \cup {NoAccount}
  BY <1>1 DEF Types, Request
<1>d. ASSUME NEW q \in DOMAIN request',
             request'[q].phase \in {"inflight", "failed"}
      PROVE  request'[q].at <= now'
  <2>1. CASE q = r
    BY <2>1, <1>1, <1>2 DEF Types
  <2>2. CASE q # r
    BY <2>2, <1>d, <1>1 DEF Labelled, NotFuture
  <2> QED BY <2>1, <2>2
<1>3. CASE acct = NoAccount
  <2>1. accountState' = accountState
    BY <1>3 DEF RespondFailed, RecordForAccount
  <2>a. \A a \in DOMAIN accountState : \A x \in accountState[a].attempts :
          /\ FailedLogin(x.req)' /\ request'[x.req].acct = a
          /\ request'[x.req].at = x.at
    BY <1>1 DEF Labelled, NotFuture, FailedLogin
  <2>2. Labelled'
    BY <1>d, <2>1, <2>a DEF Labelled, NotFuture
  <2>3. Kept'
    BY <1>1, <1>2, <1>3, <2>1 DEF Kept, Roomy
  <2> QED BY <2>2, <2>3
<1>4. CASE acct # NoAccount
  <2>1. PICK table \in AfterLimit(accountState, maxAccountStateSize) :
          accountState' = Put(table, acct,
            [(IF acct \in DOMAIN table THEN table[acct]
              ELSE [attempts |-> {}, born |-> failures])
             EXCEPT !.attempts = @ \cup {new}])
    BY <1>4 DEF RespondFailed, RecordForAccount
  <2>2. /\ DOMAIN table \subseteq DOMAIN accountState
        /\ \A a \in DOMAIN table : table[a] = accountState[a]
    BY AfterLimitShrinks
  <2>3. /\ DOMAIN accountState' = DOMAIN table \cup {acct}
        /\ \A a \in DOMAIN table \ {acct} : accountState'[a] = accountState[a]
        /\ accountState'[acct].attempts =
             (IF acct \in DOMAIN table THEN accountState[acct].attempts ELSE {})
               \cup {new}
    BY <2>1, <2>2 DEF Put, Types, AccountEntry
  <2>4. Labelled'
    <3>1. ASSUME NEW a \in DOMAIN accountState', NEW x \in accountState'[a].attempts
          PROVE  /\ FailedLogin(x.req)' /\ request'[x.req].acct = a
                 /\ request'[x.req].at = x.at
      <4>1. CASE x = new /\ a = acct
        BY <4>1, <1>1, <1>2 DEF FailedLogin
      <4>2. CASE ~(x = new /\ a = acct)
        <5>1. a \in DOMAIN accountState /\ x \in accountState[a].attempts
          BY <4>2, <3>1, <2>2, <2>3
        <5>2. /\ FailedLogin(x.req) /\ request[x.req].acct = a
              /\ request[x.req].at = x.at
          BY <5>1 DEF Labelled, NotFuture
        <5> QED BY <5>2, <1>1 DEF FailedLogin
      <4> QED BY <4>1, <4>2
    <3> QED BY <3>1, <1>d DEF Labelled, NotFuture
  <2>5. Kept'
    <3> SUFFICES ASSUME Roomy, NEW q \in DOMAIN request',
                        request'[q].phase = "failed", request'[q].acct # NoAccount,
                        now - request'[q].at < windowMs
                 PROVE  /\ request'[q].acct \in DOMAIN accountState'
                        /\ [req |-> q, at |-> request'[q].at]
                             \in accountState'[request'[q].acct].attempts
      BY <1>1 DEF Kept, Roomy
    <3>1. table = accountState
      <4>1. /\ IsFiniteSet(DOMAIN accountState)
            /\ Cardinality(DOMAIN accountState) <= Cardinality(Accounts)
        BY FS_Subset DEF Roomy, Types
      <4>2. Cardinality(DOMAIN accountState) \in Nat /\ Cardinality(Accounts) \in Nat
        BY <4>1, FS_CardinalityType DEF Roomy
      <4>3. ~(Cardinality(DOMAIN accountState) >= maxAccountStateSize)
        BY <4>1, <4>2, GuardAssumption DEF Roomy
      <4> QED BY <4>3 DEF AfterLimit
    <3>2. CASE q = r
      BY <3>2, <1>2, <2>3
    <3>3. CASE q # r
      <4>1. /\ request[q].acct \in DOMAIN accountState
            /\ [req |-> q, at |-> request[q].at]
                 \in accountState[request[q].acct].attempts
        BY <3>3, <1>1 DEF Kept
      <4> QED BY <3>1, <3>3, <4>1, <1>1, <2>3
    <3> QED BY <3>2, <3>3
  <2> QED BY <2>4, <2>5
<1> QED BY <1>3, <1>4

LEMMA GcMemory ==
  ASSUME Types, Labelled, Kept, Gc PROVE Labelled' /\ Kept'
<1>1. /\ now' = now /\ request' = request
      /\ DOMAIN accountState' =
           {a \in DOMAIN accountState : Recent(accountState[a].attempts) # {}}
      /\ \A a \in DOMAIN accountState' :
           accountState'[a].attempts = Recent(accountState[a].attempts)
  BY DEF Gc, Types, AccountEntry
<1>2. Labelled'
  BY <1>1 DEF Labelled, NotFuture, FailedLogin, Recent
<1>3. Kept'
  <2> SUFFICES ASSUME Roomy, NEW q \in DOMAIN request,
                      request[q].phase = "failed", request[q].acct # NoAccount,
                      now - request[q].at < windowMs
               PROVE  /\ request[q].acct \in DOMAIN accountState'
                      /\ [req |-> q, at |-> request[q].at]
                           \in accountState'[request[q].acct].attempts
    BY <1>1 DEF Kept, Roomy
  <2>1. [req |-> q, at |-> request[q].at]
          \in Recent(accountState[request[q].acct].attempts)
    BY DEF Kept, Recent
  <2>2. request[q].acct \in DOMAIN accountState
    BY DEF Kept
  <2> QED BY <2>1, <2>2, <1>1
<1> QED BY <1>2, <1>3

LEMMA TickMemory ==
  ASSUME Types, Labelled, Kept, Tick PROVE Labelled' /\ Kept'
<1>1. Labelled'
  BY DEF Tick, Labelled, NotFuture, FailedLogin, Types, Request
<1>2. Kept'
  <2> SUFFICES ASSUME Roomy, NEW q \in DOMAIN request,
                      request[q].phase = "failed", request[q].acct # NoAccount,
                      (now + 1) - request[q].at < windowMs
               PROVE  /\ request[q].acct \in DOMAIN accountState
                      /\ [req |-> q, at |-> request[q].at]
                           \in accountState[request[q].acct].attempts
    BY DEF Kept, Roomy, Tick
  <2>1. request[q].at \in Nat /\ now \in Nat /\ windowMs \in Nat
    BY GuardAssumption DEF Types, Request
  <2>2. now - request[q].at < windowMs
    BY <2>1
  <2> QED BY <2>2 DEF Kept
<1> QED BY <1>1, <1>2

LEMMA MemoryInvariant == Spec => [](Labelled /\ Kept)
<1>1. Init => Labelled /\ Kept
  BY DEF Init, Empty, Labelled, NotFuture, Kept
<1>2. ASSUME Types, Labelled, Kept, [Next]_vars PROVE Labelled' /\ Kept'
  <2>1. ASSUME NEW r \in Requests, NEW ip \in IPs,
               NEW acct \in Accounts \cup {NoAccount}, NEW s \in BOOLEAN,
               Arrive(r, ip, acct, s)
        PROVE  Labelled' /\ Kept'
    BY <1>2, <2>1, ArriveMemory
  <2>2. ASSUME NEW r \in Requests, RespondElsewhere(r) PROVE Labelled' /\ Kept'
    BY <1>2, <2>2, CloseMemory DEF RespondElsewhere
  <2>3. ASSUME NEW r \in Requests, RespondNotFailed(r) PROVE Labelled' /\ Kept'
    <3>1. PICK end \in {"closed", "error"} : Finish(r, TRUE, [phase |-> end])
      BY <2>3 DEF RespondNotFailed
    <3> QED BY <1>2, <2>3, <3>1, CloseMemory DEF RespondNotFailed
  <2>4. ASSUME NEW r \in Requests, RespondFailed(r) PROVE Labelled' /\ Kept'
    BY <1>2, <2>4, RespondFailedMemory
  <2>5. ASSUME NEW ip \in IPs, Reset(ip) PROVE Labelled' /\ Kept'
    BY <1>2, <2>5 DEF Reset, Labelled, NotFuture, FailedLogin, Kept, Roomy
  <2>6. CASE Gc
    BY <1>2, <2>6, GcMemory
  <2>7. CASE Destroy
    BY <1>2, <2>7 DEF Destroy, Labelled, NotFuture, FailedLogin, Kept, Roomy
  <2>8. CASE Tick
    BY <1>2, <2>8, TickMemory
  <2>9. CASE UNCHANGED vars
    BY <1>2, <2>9 DEF vars, Labelled, NotFuture, FailedLogin, Kept, Roomy
  <2> QED BY <1>2, <2>1, <2>2, <2>3, <2>4, <2>5, <2>6, <2>7, <2>8, <2>9 DEF Next
<1> QED BY <1>1, <1>2, TypesCorrect, PTL DEF Spec

\* The account lock counts the failed logins of the account inside the window,
\* from every address, exactly; at capacity it invents none.
THEOREM AccountMemoryHolds == Spec => []AccountMemory
<1>1. Types /\ Labelled /\ Kept => AccountMemory
  BY MemoryInvSuffices DEF MemoryInv
<1> QED BY <1>1, MemoryInvariant, TypesCorrect, PTL

-----------------------------------------------------------------------------
(* Blocks are imposed, counted and bounded.                                *)

Sound(e, t) ==
  /\ IsFiniteSet(e.attempts)
  /\ Cardinality(e.attempts) >= maxAttempts => e.blockUntil # NoBlock
  /\ e.blockUntil # NoBlock => /\ e.blockCount >= 1
                               /\ e.blockUntil <= t + maxBlockDurationMs

SoundInv == Types /\ \A ip \in DOMAIN state : Sound(state[ip], now)

\* Trimming the attempts of an entry keeps it sound.
LEMMA RecentSound ==
  ASSUME NEW e \in Entry, NEW t \in Nat, Sound(e, t)
  PROVE  Sound([e EXCEPT !.attempts = Recent(@)], t)
<1> DEFINE S == e.attempts
           T == Recent(e.attempts)
<1>1. T \subseteq S
  BY DEF Recent
<1>2. IsFiniteSet(T) /\ Cardinality(T) <= Cardinality(S)
  BY <1>1, FS_Subset DEF Sound
<1>3. Cardinality(T) \in Nat /\ Cardinality(S) \in Nat /\ maxAttempts \in Nat
  BY <1>2, FS_CardinalityType, GuardAssumption DEF Sound
<1> QED BY <1>2, <1>3 DEF Sound, Entry

LEMMA FailureSound ==
  ASSUME NEW e \in Entry, NEW r \in Requests, now \in Nat, IsFiniteSet(e.attempts),
         e.blockUntil # NoBlock => /\ e.blockCount >= 1
                                   /\ e.blockUntil <= now + maxBlockDurationMs
  PROVE  Sound(EntryAfterFailure(e, r), now)
<1> DEFINE T == Recent(e.attempts) \cup {[req |-> r, at |-> now]}
<1>1. Recent(e.attempts) \subseteq e.attempts
  BY DEF Recent
<1>2. IsFiniteSet(Recent(e.attempts))
  BY <1>1, FS_Subset
<1>3. IsFiniteSet(T)
  BY <1>2, FS_AddElement
<1>4. Cardinality(T) \in Nat /\ maxAttempts \in Nat /\ maxBlockDurationMs \in Nat
  BY <1>3, FS_CardinalityType, GuardAssumption
<1>5. /\ BlockLength(e.blockCount + 1) \in Int
      /\ BlockLength(e.blockCount + 1) <= maxBlockDurationMs
      /\ e.blockCount + 1 >= 1
  BY BlockLengthType DEF Entry
<1>6. now + BlockLength(e.blockCount + 1) # NoBlock
  BY <1>5, GuardAssumption
<1>7. CASE Cardinality(T) >= maxAttempts
  BY <1>3, <1>4, <1>5, <1>6, <1>7 DEF EntryAfterFailure, Sound, Entry
<1>8. CASE ~(Cardinality(T) >= maxAttempts)
  BY <1>3, <1>4, <1>8 DEF EntryAfterFailure, Sound, Entry
<1> QED BY <1>7, <1>8

LEMMA CheckSound ==
  ASSUME SoundInv, NEW ip \in IPs, NEW s, CheckIP(ip, s)
  PROVE  \A i \in DOMAIN state' : Sound(state'[i], now)
<1> DEFINE e == [state[ip] EXCEPT !.blockUntil = NoBlock, !.attempts = {}]
<1>1. CASE s /\ BlockExpired(ip)
  <2>1. Sound(e, now)
    <3>1. e.attempts = {} /\ e.blockUntil = NoBlock
      BY <1>1 DEF SoundInv, Types, Entry, BlockExpired
    <3>2. IsFiniteSet({}) /\ Cardinality({}) = 0
      BY FS_EmptySet
    <3> HIDE DEF e
    <3> QED BY <3>1, <3>2, GuardAssumption DEF Sound
  <2> QED BY <1>1, <2>1 DEF CheckIP, Put, SoundInv
<1>2. CASE ~(s /\ BlockExpired(ip))
  BY <1>2 DEF CheckIP, SoundInv
<1> QED BY <1>1, <1>2

LEMMA RespondFailedSound ==
  ASSUME SoundInv, NEW r \in Requests, RespondFailed(r)
  PROVE  \A i \in DOMAIN state' : Sound(state'[i], now)
<1> DEFINE ip == request[r].ip
           fresh == [attempts |-> {}, blockUntil |-> NoBlock,
                     blockCount |-> 0, born |-> failures]
<1>1. PICK table \in AfterLimit(state, maxStateSize) :
        state' = Put(table, ip, EntryAfterFailure(
          IF ip \in DOMAIN table THEN table[ip] ELSE fresh, r))
  BY DEF RespondFailed, RecordForIP
<1>2. /\ DOMAIN table \subseteq DOMAIN state
      /\ \A i \in DOMAIN table : table[i] = state[i]
  BY AfterLimitShrinks
<1>3. fresh \in Entry /\ fresh.attempts = {} /\ fresh.blockUntil = NoBlock
  BY DEF SoundInv, Types, Entry
<1>4. IsFiniteSet({}) /\ now \in Nat
  BY FS_EmptySet DEF SoundInv, Types
<1>5. Sound(EntryAfterFailure(IF ip \in DOMAIN table THEN table[ip] ELSE fresh, r), now)
  <2>1. CASE ip \in DOMAIN table
    <3>1. table[ip] \in Entry /\ Sound(table[ip], now)
      BY <2>1, <1>2 DEF SoundInv, Types
    <3> QED BY <2>1, <3>1, <1>4, FailureSound DEF Sound
  <2>2. CASE ip \notin DOMAIN table
    <3> HIDE DEF fresh
    <3> QED BY <2>2, <1>3, <1>4, FailureSound
  <2> QED BY <2>1, <2>2
<1>6. \A i \in DOMAIN table : Sound(table[i], now)
  BY <1>2 DEF SoundInv
<1> HIDE DEF fresh
<1> QED BY <1>1, <1>5, <1>6 DEF Put

\* An address that used up its attempts has a block on record, each block is
\* counted, and none reaches further than maxBlockDurationMs.
THEOREM BlockSoundHolds == Spec => []BlockSound
<1>1. Init => \A ip \in DOMAIN state : Sound(state[ip], now)
  BY DEF Init, Empty
<1>2. ASSUME SoundInv, Types', [Next]_vars PROVE SoundInv'
  <2> SUFFICES ASSUME NEW i \in DOMAIN state' PROVE Sound(state'[i], now')
    BY <1>2 DEF SoundInv, Sound
  <2>1. ASSUME NEW r \in Requests, NEW ip \in IPs,
               NEW acct \in Accounts \cup {NoAccount}, NEW s \in BOOLEAN,
               Arrive(r, ip, acct, s)
        PROVE  Sound(state'[i], now')
    BY <1>2, <2>1, CheckSound DEF Arrive
  <2>2. ASSUME NEW r \in Requests, RespondElsewhere(r)
        PROVE  Sound(state'[i], now')
    BY <1>2, <2>2 DEF RespondElsewhere, Finish, SoundInv
  <2>3. ASSUME NEW r \in Requests, RespondNotFailed(r)
        PROVE  Sound(state'[i], now')
    <3>1. PICK table \in AfterLimit(state, maxStateSize) :
            state' = Drop(table, {request[r].ip})
      BY <2>3 DEF RespondNotFailed
    <3>2. now' = now
      BY <2>3 DEF RespondNotFailed, Finish
    <3> QED BY <1>2, <3>1, <3>2, AfterLimitShrinks DEF Drop, SoundInv
  <2>4. ASSUME NEW r \in Requests, RespondFailed(r) PROVE Sound(state'[i], now')
    BY <1>2, <2>4, RespondFailedSound DEF RespondFailed, Finish
  <2>5. ASSUME NEW ip \in IPs, Reset(ip) PROVE Sound(state'[i], now')
    BY <1>2, <2>5 DEF Reset, Drop, SoundInv
  <2>6. CASE Gc
    <3>1. /\ i \in DOMAIN state /\ now' = now
          /\ state'[i] = [state[i] EXCEPT !.attempts = Recent(@)]
      BY <2>6 DEF Gc
    <3>2. state[i] \in Entry /\ Sound(state[i], now) /\ now \in Nat
      BY <1>2, <3>1 DEF SoundInv, Types
    <3> QED BY <3>1, <3>2, RecentSound
  <2>7. CASE Destroy
    BY <2>7 DEF Destroy, Empty
  <2>8. CASE Tick
    <3>1. /\ state[i] \in Entry /\ Sound(state[i], now) /\ now \in Nat
          /\ state'[i] = state[i] /\ now' = now + 1
      BY <1>2, <2>8 DEF Tick, SoundInv, Types
    <3> QED BY <3>1, GuardAssumption DEF Sound, Entry
  <2>9. CASE UNCHANGED vars
    BY <1>2, <2>9 DEF vars, SoundInv
  <2> QED BY <1>2, <2>1, <2>2, <2>3, <2>4, <2>5, <2>6, <2>7, <2>8, <2>9 DEF Next
<1>3. SoundInv => BlockSound
  BY DEF SoundInv, Sound, BlockSound
<1>4. Init => SoundInv \/ ~Types
  BY <1>1 DEF SoundInv
<1> QED BY <1>2, <1>3, <1>4, TypesCorrect, PTL DEF Spec

-----------------------------------------------------------------------------
(* Nothing is let through while a block is in force.                       *)

\* q imposed the block of ip and every login of ip in flight is no younger.
Imposed(q, ip) ==
  /\ FailedLogin(q) /\ request[q].ip = ip
  /\ state[ip].blockUntil = request[q].at + BlockLength(state[ip].blockCount)
  /\ \A r \in Requests :
       InFlight(r) /\ request[r].sensitive /\ request[r].ip = ip
         => request[r].at <= request[q].at

\* A step that leaves the block of ip as it was, admits no login of ip and
\* forgets no failed login keeps what imposed the block.
LEMMA ImposedKept ==
  ASSUME InFlightPredatesBlock, NEW ip \in IPs, Blocked(ip),
         state'[ip].blockUntil = state[ip].blockUntil,
         state'[ip].blockCount = state[ip].blockCount,
         \A q \in Requests : FailedLogin(q) => FailedLogin(q)' /\ request'[q] = request[q],
         \A r \in Requests :
           InFlight(r)' /\ request'[r].sensitive /\ request'[r].ip = ip
             => InFlight(r) /\ request'[r] = request[r]
  PROVE  \E q \in Requests : Imposed(q, ip)'
<1>1. PICK q \in Requests : Imposed(q, ip)
  BY DEF InFlightPredatesBlock, Imposed
<1>2. Imposed(q, ip)'
  BY <1>1 DEF Imposed, BlockLength
<1> QED BY <1>2

LEMMA ArriveImposed ==
  ASSUME Types, InFlightPredatesBlock, NEW r \in Requests, NEW ip0 \in IPs,
         NEW acct \in Accounts \cup {NoAccount}, NEW s \in BOOLEAN,
         Arrive(r, ip0, acct, s), NEW ip \in IPs, Blocked(ip)'
  PROVE  \E q \in Requests : Imposed(q, ip)'
<1>1. /\ now' = now /\ ip \in DOMAIN state
      /\ state'[ip].blockUntil # NoBlock /\ now < state'[ip].blockUntil
  BY DEF Arrive, CheckIP, BlockExpired, Blocked, Put
<1>2. state'[ip] = state[ip]
  <2>1. CASE ip = ip0 /\ s /\ BlockExpired(ip0)
    <3>1. state'[ip].blockUntil = NoBlock
      BY <2>1, <1>1 DEF Arrive, CheckIP, Put, Types, Entry
    <3> QED BY <3>1, <1>1
  <2>2. CASE ~(ip = ip0 /\ s /\ BlockExpired(ip0))
    BY <2>2, <1>1 DEF Arrive, CheckIP, Put
  <2> QED BY <2>1, <2>2
<1>3. Blocked(ip)
  BY <1>1, <1>2 DEF Blocked
<1>4. /\ r \notin DOMAIN request /\ DOMAIN request' = DOMAIN request \cup {r}
      /\ \A q \in DOMAIN request : request'[q] = request[q]
      /\ request'[r] = IF Refused(ip0, acct, s) THEN [phase |-> "closed"]
                       ELSE [phase |-> "inflight", ip |-> ip0, acct |-> acct,
                             sensitive |-> s, at |-> now]
  BY DEF Arrive, Put
<1>5. ~(InFlight(r)' /\ request'[r].sensitive /\ request'[r].ip = ip)
  <2>1. CASE Refused(ip0, acct, s)
    BY <2>1, <1>4 DEF InFlight
  <2>2. CASE ~Refused(ip0, acct, s)
    BY <2>2, <1>3, <1>4 DEF Refused
  <2> QED BY <2>1, <2>2
<1>6. \A q \in Requests : FailedLogin(q) => FailedLogin(q)' /\ request'[q] = request[q]
  BY <1>4 DEF FailedLogin
<1>7. \A q \in Requests :
        InFlight(q)' /\ request'[q].sensitive /\ request'[q].ip = ip
          => InFlight(q) /\ request'[q] = request[q]
  BY <1>4, <1>5 DEF InFlight
<1> QED BY <1>2, <1>3, <1>6, <1>7, ImposedKept

LEMMA CloseImposed ==
  ASSUME Types, InFlightPredatesBlock, NEW r \in Requests, NEW s,
         NEW end \in [phase : {"closed", "error"}], Finish(r, s, end),
         \A i \in DOMAIN state' : i \in DOMAIN state /\ state'[i] = state[i],
         NEW ip \in IPs, Blocked(ip)'
  PROVE  \E q \in Requests : Imposed(q, ip)'
<1>1. /\ request[r].phase = "inflight" /\ now' = now
      /\ DOMAIN request' = DOMAIN request /\ r \in DOMAIN request
      /\ \A q \in DOMAIN request \ {r} : request'[q] = request[q]
      /\ request'[r].phase \in {"closed", "error"}
  BY DEF Finish, InFlight, Put
<1>2. state'[ip] = state[ip] /\ Blocked(ip)
  BY <1>1 DEF Blocked
<1>3. \A q \in Requests : FailedLogin(q) => FailedLogin(q)' /\ request'[q] = request[q]
  BY <1>1 DEF FailedLogin
<1>4. \A q \in Requests : InFlight(q)' => InFlight(q) /\ request'[q] = request[q]
  BY <1>1 DEF InFlight
<1> QED BY <1>2, <1>3, <1>4, ImposedKept

LEMMA RespondFailedImposed ==
  ASSUME Types, NotFuture, InFlightPredatesBlock,
         NEW r \in Requests, RespondFailed(r), NEW ip \in IPs, Blocked(ip)'
  PROVE  \E q \in Requests : Imposed(q, ip)'
<1> DEFINE ip0 == request[r].ip
           fresh == [attempts |-> {}, blockUntil |-> NoBlock,
                     blockCount |-> 0, born |-> failures]
<1>1. /\ r \in DOMAIN request /\ request[r].phase = "inflight" /\ now' = now
      /\ DOMAIN request' = DOMAIN request
      /\ \A q \in DOMAIN request \ {r} : request'[q] = request[q]
      /\ request'[r] = [request[r] EXCEPT !.phase = "failed", !.at = now]
  BY DEF RespondFailed, Finish, InFlight, Put
<1>2. /\ request'[r].phase = "failed" /\ request'[r].at = now
      /\ request'[r].ip = ip0
  BY <1>1 DEF Types, Request
<1>3. \A q \in Requests : FailedLogin(q) => FailedLogin(q)' /\ request'[q] = request[q]
  BY <1>1 DEF FailedLogin
<1>4. \A q \in Requests : InFlight(q)' => InFlight(q) /\ request'[q] = request[q]
  BY <1>1, <1>2 DEF InFlight
<1>5. PICK table \in AfterLimit(state, maxStateSize) :
        state' = Put(table, ip0, EntryAfterFailure(
          IF ip0 \in DOMAIN table THEN table[ip0] ELSE fresh, r))
  BY DEF RespondFailed, RecordForIP
<1>6. /\ DOMAIN table \subseteq DOMAIN state
      /\ \A i \in DOMAIN table : table[i] = state[i]
  BY AfterLimitShrinks
<1>7. CASE ip # ip0
  <2>1. ip \in DOMAIN state /\ state'[ip] = state[ip]
    BY <1>5, <1>6, <1>7 DEF Put, Blocked
  <2> QED BY <2>1, <1>1, <1>3, <1>4, ImposedKept DEF Blocked
<1>8. CASE ip = ip0
  <2> DEFINE e == IF ip \in DOMAIN table THEN table[ip] ELSE fresh
             attempts == Recent(e.attempts) \cup {[req |-> r, at |-> now]}
  <2>1. state'[ip] = EntryAfterFailure(e, r)
    BY <1>5, <1>8 DEF Put
  <2>2. e \in Entry
    BY <1>6 DEF Types, Entry
  <2>3. CASE Cardinality(attempts) >= maxAttempts
    <3>1. state'[ip] = [e EXCEPT !.attempts = attempts,
                          !.blockCount = e.blockCount + 1,
                          !.blockUntil = now + BlockLength(e.blockCount + 1)]
      BY <2>1, <2>3 DEF EntryAfterFailure
    <3>2. /\ state'[ip].blockCount = e.blockCount + 1
          /\ state'[ip].blockUntil = now + BlockLength(e.blockCount + 1)
      BY <3>1, <2>2 DEF Entry
    <3>3. FailedLogin(r)' /\ request'[r].ip = ip
      BY <1>1, <1>2, <1>8 DEF FailedLogin
    <3>4. \A q \in Requests : InFlight(q)' => request'[q].at <= request'[r].at
      BY <1>2, <1>4 DEF InFlight, NotFuture
    <3>5. Imposed(r, ip)'
      BY <3>2, <3>3, <3>4, <1>2 DEF Imposed, BlockLength
    <3> QED BY <3>5
  <2>4. CASE ~(Cardinality(attempts) >= maxAttempts)
    <3>1. state'[ip] = [e EXCEPT !.attempts = attempts]
      BY <2>1, <2>4 DEF EntryAfterFailure
    <3>2. /\ state'[ip].blockCount = e.blockCount
          /\ state'[ip].blockUntil = e.blockUntil
      BY <3>1, <2>2 DEF Entry
    <3>3. ip \in DOMAIN table
      BY <3>2 DEF Blocked
    <3> QED BY <3>2, <3>3, <1>1, <1>3, <1>4, <1>6, ImposedKept DEF Blocked
  <2> QED BY <2>3, <2>4
<1> QED BY <1>7, <1>8

\* While an address is blocked, no login of it was let through after the failed
\* answer that imposed the block: check cannot be slipped past.
THEOREM NothingSlipsPast == Spec => []InFlightPredatesBlock
<1>1. Init => InFlightPredatesBlock
  BY DEF Init, Empty, InFlightPredatesBlock, Blocked
<1>2. ASSUME Types, NotFuture, InFlightPredatesBlock, [Next]_vars
      PROVE  InFlightPredatesBlock'
  <2> SUFFICES ASSUME NEW ip \in IPs, Blocked(ip)'
               PROVE  \E q \in Requests : Imposed(q, ip)'
    BY DEF InFlightPredatesBlock, Imposed
  <2>1. ASSUME NEW r \in Requests, NEW ip0 \in IPs,
               NEW acct \in Accounts \cup {NoAccount}, NEW s \in BOOLEAN,
               Arrive(r, ip0, acct, s)
        PROVE  \E q \in Requests : Imposed(q, ip)'
    BY <1>2, <2>1, ArriveImposed
  <2>2. ASSUME NEW r \in Requests, RespondElsewhere(r)
        PROVE  \E q \in Requests : Imposed(q, ip)'
    BY <1>2, <2>2, CloseImposed DEF RespondElsewhere
  <2>3. ASSUME NEW r \in Requests, RespondNotFailed(r)
        PROVE  \E q \in Requests : Imposed(q, ip)'
    <3>1. PICK end \in {"closed", "error"} : Finish(r, TRUE, [phase |-> end])
      BY <2>3 DEF RespondNotFailed
    <3>2. \A i \in DOMAIN state' : i \in DOMAIN state /\ state'[i] = state[i]
      BY <2>3, AfterLimitShrinks DEF RespondNotFailed, Drop
    <3> QED BY <1>2, <3>1, <3>2, CloseImposed
  <2>4. ASSUME NEW r \in Requests, RespondFailed(r)
        PROVE  \E q \in Requests : Imposed(q, ip)'
    BY <1>2, <2>4, RespondFailedImposed
  <2>5. ASSUME NEW i \in IPs, Reset(i)
        PROVE  \E q \in Requests : Imposed(q, ip)'
    BY <1>2, <2>5, ImposedKept DEF Reset, Drop, Blocked, FailedLogin, InFlight
  <2>6. CASE Gc
    <3>1. /\ ip \in DOMAIN state /\ now' = now /\ request' = request
          /\ state'[ip] = [state[ip] EXCEPT !.attempts = Recent(@)]
      BY <2>6 DEF Gc, Blocked
    <3>2. /\ state'[ip].blockUntil = state[ip].blockUntil
          /\ state'[ip].blockCount = state[ip].blockCount
      BY <1>2, <3>1 DEF Types, Entry
    <3> QED BY <1>2, <3>1, <3>2, ImposedKept DEF Blocked, FailedLogin, InFlight
  <2>7. CASE Destroy
    BY <2>7 DEF Destroy, Empty, Blocked
  <2>8. CASE Tick
    <3>1. /\ ip \in DOMAIN state /\ state' = state /\ request' = request
          /\ now' = now + 1 /\ now' < state[ip].blockUntil /\ now \in Nat
          /\ state[ip].blockUntil # NoBlock /\ state[ip].blockUntil \in Int
      BY <1>2, <2>8 DEF Tick, Blocked, Types, Entry
    <3>2. Blocked(ip)
      BY <3>1 DEF Blocked
    <3> QED BY <1>2, <3>1, <3>2, ImposedKept DEF FailedLogin, InFlight
  <2>9. CASE UNCHANGED vars
    BY <1>2, <2>9, ImposedKept DEF vars, Blocked, FailedLogin, InFlight
  <2> QED BY <1>2, <2>1, <2>2, <2>3, <2>4, <2>5, <2>6, <2>7, <2>8, <2>9 DEF Next
<1>3. Labelled => NotFuture
  BY DEF Labelled
<1> QED BY <1>1, <1>2, <1>3, MemoryInvariant, TypesCorrect, PTL DEF Spec

-----------------------------------------------------------------------------
(* A block in force stands.  A step sees state[ip] as another value only   *)
(* through the handlers below; what a failed login puts there reaches at   *)
(* least as far, because a longer history never shortens a block.          *)

\* The library counts the subsets of a set, which says what the powers of two
\* of the backoff are: positive, and no smaller for a larger exponent.
LEMMA PowersGrow ==
  ASSUME NEW m \in Nat, NEW n \in Nat, m <= n
  PROVE  2 ^ m \in Nat \ {0} /\ 2 ^ n \in Nat /\ 2 ^ m <= 2 ^ n
<1>1. /\ IsFiniteSet(1..m) /\ Cardinality(1..m) = m
      /\ IsFiniteSet(1..n) /\ Cardinality(1..n) = n
  BY FS_Interval
<1>2. /\ IsFiniteSet(SUBSET (1..m)) /\ Cardinality(SUBSET (1..m)) = 2 ^ m
      /\ IsFiniteSet(SUBSET (1..n)) /\ Cardinality(SUBSET (1..n)) = 2 ^ n
  BY <1>1, FS_SUBSET
<1>3. 2 ^ m \in Nat /\ 2 ^ n \in Nat
  BY <1>2, FS_CardinalityType
<1>4. SUBSET (1..m) \subseteq SUBSET (1..n)
  OBVIOUS
<1>5. 2 ^ m <= 2 ^ n
  BY <1>2, <1>4, FS_Subset
<1>6. {} \in SUBSET (1..m)
  OBVIOUS
<1>7. 2 ^ m # 0
  BY <1>2, <1>6, FS_EmptySet
<1> QED BY <1>3, <1>5, <1>7

\* A block lasts, and the next one lasts at least as long.
LEMMA BlocksGrow ==
  ASSUME NEW m \in Nat \ {0}, NEW n \in Nat, m <= n
  PROVE  /\ BlockLength(m) \in Nat \ {0} /\ BlockLength(n) \in Nat
         /\ BlockLength(m) <= BlockLength(n)
<1>1. PICK p, q : p = 2 ^ (m - 1) /\ q = 2 ^ (n - 1)
  OBVIOUS
<1>2. p \in Nat \ {0} /\ q \in Nat /\ p <= q
  BY <1>1, PowersGrow
<1>3. PICK d : d = blockDurationMs
  OBVIOUS
<1>4. d \in Nat \ {0} /\ maxBlockDurationMs \in Nat \ {0}
  BY <1>3, GuardAssumption
<1>5. /\ d * p \in Nat \ {0} /\ d * q \in Nat /\ d * p <= d * q
  BY <1>2, <1>4
<1>6. /\ BlockLength(m) = IF progressiveBackoff
                          THEN IF d * p <= maxBlockDurationMs THEN d * p ELSE maxBlockDurationMs
                          ELSE IF d * 1 <= maxBlockDurationMs THEN d * 1 ELSE maxBlockDurationMs
      /\ BlockLength(n) = IF progressiveBackoff
                          THEN IF d * q <= maxBlockDurationMs THEN d * q ELSE maxBlockDurationMs
                          ELSE IF d * 1 <= maxBlockDurationMs THEN d * 1 ELSE maxBlockDurationMs
  BY <1>1, <1>3 DEF BlockLength
<1>7. d * 1 = d
  BY <1>4
<1> HIDE DEF BlockLength
<1> QED BY <1>4, <1>5, <1>6, <1>7

\* The invariants proved above, as far as blocks go.
Standing ==
  /\ Types /\ NotFuture /\ InFlightPredatesBlock /\ BlockSound

\* The block in force reaches no further than one of its count imposed now.
LEMMA BlockReach ==
  ASSUME Standing, NEW ip \in IPs, Blocked(ip)
  PROVE  /\ state[ip] \in Entry /\ state[ip].blockCount >= 1
         /\ state[ip].blockUntil \in Int /\ now \in Nat
         /\ state[ip].blockUntil <= now + BlockLength(state[ip].blockCount)
<1>1. /\ state[ip] \in Entry /\ state[ip].blockUntil \in Int /\ now \in Nat
      /\ state[ip].blockCount \in Nat
  BY DEF Standing, Types, Blocked, Entry
<1>2. state[ip].blockCount >= 1
  BY DEF Standing, BlockSound, Blocked
<1>3. PICK q \in Requests : Imposed(q, ip)
  BY DEF Standing, InFlightPredatesBlock, Imposed
<1>4. request[q].at \in Nat /\ request[q].at <= now
  BY <1>3 DEF Imposed, FailedLogin, Standing, NotFuture, Types, Request
<1>5. BlockLength(state[ip].blockCount) \in Int
  BY <1>1, BlockLengthType
<1> QED BY <1>1, <1>2, <1>3, <1>4, <1>5 DEF Imposed

\* What a failed answer leaves of the block of ip, unless it makes room by
\* evicting it.
LEMMA FailurePreservesBlock ==
  ASSUME Standing, NEW r \in Requests, RespondFailed(r),
         NEW ip \in IPs, Blocked(ip),
         Cardinality(DOMAIN state) >= maxStateSize => ip \notin Oldest(state)
  PROVE  /\ ip \in DOMAIN state' /\ state'[ip].blockUntil \in Int
         /\ now < state'[ip].blockUntil
         /\ state'[ip].blockUntil >= state[ip].blockUntil
<1> DEFINE fresh == [attempts |-> {}, blockUntil |-> NoBlock,
                     blockCount |-> 0, born |-> failures]
           ip0 == request[r].ip
<1>1. PICK table \in AfterLimit(state, maxStateSize) :
        state' = Put(table, ip0, EntryAfterFailure(
          IF ip0 \in DOMAIN table THEN table[ip0] ELSE fresh, r))
  BY DEF RespondFailed, RecordForIP
<1>2. ip \in DOMAIN table /\ table[ip] = state[ip]
  BY DEF AfterLimit, Drop, Blocked
<1>3. PICK e : e = state[ip]
  OBVIOUS
<1>4. /\ e \in Entry /\ e.blockCount >= 1 /\ e.blockUntil \in Int /\ now \in Nat
      /\ e.blockUntil <= now + BlockLength(e.blockCount) /\ now < e.blockUntil
  BY <1>3, BlockReach DEF Blocked
<1>5. CASE ip # ip0
  <2>1. ip \in DOMAIN state' /\ state'[ip] = e
    BY <1>1, <1>2, <1>3, <1>5 DEF Put
  <2> QED BY <2>1, <1>3, <1>4
<1>6. CASE ip = ip0
  <2> DEFINE attempts == Recent(e.attempts) \cup {[req |-> r, at |-> now]}
  <2>1. ip \in DOMAIN state' /\ state'[ip] = EntryAfterFailure(e, r)
    BY <1>1, <1>2, <1>3, <1>6 DEF Put
  <2>2. CASE Cardinality(attempts) >= maxAttempts
    <3>1. state'[ip].blockUntil = now + BlockLength(e.blockCount + 1)
      BY <2>1, <2>2, <1>4 DEF EntryAfterFailure, Entry
    <3>2. e.blockCount \in Nat \ {0} /\ e.blockCount + 1 \in Nat \ {0}
      BY <1>4 DEF Entry
    <3>3. /\ BlockLength(e.blockCount) \in Nat \ {0}
          /\ BlockLength(e.blockCount + 1) \in Nat
          /\ BlockLength(e.blockCount) <= BlockLength(e.blockCount + 1)
      BY <3>2, BlocksGrow
    <3> QED BY <2>1, <3>1, <3>3, <1>3, <1>4
  <2>3. CASE ~(Cardinality(attempts) >= maxAttempts)
    <3>1. state'[ip].blockUntil = e.blockUntil
      BY <2>1, <2>3, <1>4 DEF EntryAfterFailure, Entry
    <3> QED BY <2>1, <3>1, <1>3, <1>4
  <2> QED BY <2>2, <2>3
<1> QED BY <1>5, <1>6

\* The steps that touch no block in force: it is as long after them as before.
Untouched(ip) ==
  /\ ip \in DOMAIN state' /\ state'[ip].blockUntil = state[ip].blockUntil

\* What a step may do to the block of ip.
BlockFate(ip) ==
  \/ Untouched(ip)
  \/ \E r \in Requests : /\ RespondNotFailed(r)
                         /\ \/ request[r].ip = ip
                            \/ ip \in Oldest(state)
                               /\ Cardinality(DOMAIN state) >= maxStateSize
  \/ \E r \in Requests : RespondFailed(r)
  \/ Reset(ip) /\ ip \notin DOMAIN state'
  \/ Destroy /\ ip \notin DOMAIN state'

LEMMA Fates ==
  ASSUME Standing, [Next]_vars, NEW ip \in IPs, Blocked(ip)
  PROVE  BlockFate(ip)
<1>0. ip \in DOMAIN state /\ state[ip] \in Entry /\ now \in Nat
      /\ state[ip].blockUntil # NoBlock /\ now < state[ip].blockUntil
      /\ state[ip].blockUntil \in Int
  BY DEF Blocked, Standing, Types, Entry
<1>1. ASSUME NEW r \in Requests, NEW ip0 \in IPs,
             NEW acct \in Accounts \cup {NoAccount}, NEW s \in BOOLEAN,
             Arrive(r, ip0, acct, s)
      PROVE  Untouched(ip)
  <2>1. ~BlockExpired(ip)
    BY <1>0 DEF BlockExpired
  <2> QED BY <1>0, <1>1, <2>1 DEF Arrive, CheckIP, Put, Untouched
<1>2. ASSUME NEW r \in Requests, RespondElsewhere(r) PROVE Untouched(ip)
  BY <1>0, <1>2 DEF RespondElsewhere, Untouched
<1>3. ASSUME NEW r \in Requests, RespondNotFailed(r) PROVE BlockFate(ip)
  <2>1. PICK table \in AfterLimit(state, maxStateSize) :
          state' = Drop(table, {request[r].ip})
    BY <1>3 DEF RespondNotFailed
  <2>2. CASE ip \in DOMAIN table /\ request[r].ip # ip
    <3>1. table[ip] = state[ip]
      BY <2>1, <2>2, AfterLimitShrinks
    <3> QED BY <2>1, <2>2, <3>1 DEF Drop, BlockFate, Untouched
  <2>3. CASE request[r].ip = ip
    BY <1>3, <2>3 DEF BlockFate
  <2>4. CASE ip \notin DOMAIN table
    <3>1. Cardinality(DOMAIN state) >= maxStateSize /\ ip \in Oldest(state)
      BY <1>0, <2>4 DEF AfterLimit, Drop
    <3> QED BY <1>3, <3>1 DEF BlockFate
  <2> QED BY <2>2, <2>3, <2>4
<1>4. ASSUME NEW r \in Requests, RespondFailed(r) PROVE BlockFate(ip)
  BY <1>4 DEF BlockFate
<1>5. ASSUME NEW i \in IPs, Reset(i) PROVE BlockFate(ip)
  BY <1>0, <1>5 DEF Reset, Drop, BlockFate, Untouched
<1>6. CASE Gc
  BY <1>0, <1>6 DEF Gc, Blocked, Untouched, BlockFate, Entry
<1>7. CASE Destroy
  BY <1>7 DEF Destroy, Empty, BlockFate
<1>8. CASE Tick
  BY <1>0, <1>8 DEF Tick, BlockFate, Untouched
<1>9. CASE UNCHANGED vars
  BY <1>0, <1>9 DEF vars, BlockFate, Untouched
<1> QED BY <1>1, <1>2, <1>3, <1>4, <1>5, <1>6, <1>7, <1>8, <1>9 DEF Next, BlockFate

\* A block in force is lifted, before its time, only by an answer outside
\* failedCodes to a request let through earlier, by reset or destroy, or by the
\* eviction at capacity, and a failed login that is answered late never shortens
\* it.
THEOREM BlockStandsHolds == Spec => BlockStands
<1>1. ASSUME Standing, NEW r \in Requests, RespondFailed(r) \/ RespondNotFailed(r)
      PROVE  InFlight(r) /\ request'[r].phase # "inflight"
  <2>1. CASE RespondNotFailed(r)
    BY <2>1 DEF RespondNotFailed, Finish, Put
  <2>2. CASE RespondFailed(r)
    <3>1. /\ r \in DOMAIN request /\ request[r] \in Request
          /\ request[r].phase = "inflight"
          /\ request'[r] = [request[r] EXCEPT !.phase = "failed", !.at = now]
      BY <1>1, <2>2 DEF RespondFailed, Finish, InFlight, Put, Standing, Types
    <3>2. request'[r].phase = "failed"
      BY <3>1 DEF Request
    <3> QED BY <3>1, <3>2 DEF InFlight
  <2> QED BY <1>1, <2>1, <2>2
<1>2. ASSUME Standing, [Next]_vars, NEW ip \in IPs,
             Blocked(ip), now' = now, ~Blocked(ip)'
      PROVE  \/ \E r \in Requests : RespondNotFailed(r) /\ request[r].ip = ip
             \/ Reset(ip)
             \/ Destroy
             \/ /\ Cardinality(DOMAIN state) >= maxStateSize /\ ip \in Oldest(state)
                /\ \E r \in Requests : InFlight(r) /\ request'[r].phase # "inflight"
  <2>1. ASSUME Untouched(ip) PROVE FALSE
    BY <1>2, <2>1 DEF Untouched, Blocked
  <2>2. ASSUME NEW r \in Requests, RespondFailed(r)
        PROVE  Cardinality(DOMAIN state) >= maxStateSize /\ ip \in Oldest(state)
    <3> SUFFICES ASSUME Cardinality(DOMAIN state) >= maxStateSize
                          => ip \notin Oldest(state)
                 PROVE  FALSE
      OBVIOUS
    <3>1. /\ ip \in DOMAIN state' /\ state'[ip].blockUntil \in Int
          /\ now < state'[ip].blockUntil
      BY <1>2, <2>2, FailurePreservesBlock
    <3> QED BY <1>2, <3>1, GuardAssumption DEF Blocked
  <2> QED BY <1>1, <1>2, <2>1, <2>2, Fates DEF BlockFate
<1>3. ASSUME Standing, TablesInv, [Next]_vars, NEW ip \in IPs, Blocked(ip),
             Cardinality(DOMAIN state) < maxStateSize,
             ip \in DOMAIN state', state'[ip].blockUntil # NoBlock
      PROVE  state'[ip].blockUntil >= state[ip].blockUntil
  <2>1. ~(Cardinality(DOMAIN state) >= maxStateSize)
    BY <1>3, FS_CardinalityType, GuardAssumption DEF TablesInv
  <2>2. state[ip].blockUntil \in Int
    BY <1>3, BlockReach
  <2>3. ASSUME Untouched(ip) PROVE state'[ip].blockUntil >= state[ip].blockUntil
    BY <2>2, <2>3 DEF Untouched
  <2>4. ASSUME NEW r \in Requests, RespondNotFailed(r) PROVE request[r].ip # ip
    BY <1>3, <2>4 DEF RespondNotFailed, Drop
  <2>5. ASSUME NEW r \in Requests, RespondFailed(r)
        PROVE  state'[ip].blockUntil >= state[ip].blockUntil
    BY <1>3, <2>1, <2>5, FailurePreservesBlock
  <2> QED BY <1>3, <2>1, <2>3, <2>4, <2>5, Fates DEF BlockFate
<1>4. Labelled => NotFuture
  BY DEF Labelled
<1>5. Types /\ Labelled /\ InFlightPredatesBlock /\ BlockSound => Standing
  BY <1>4 DEF Standing
<1>6. Standing /\ [Next]_vars =>
     [\A ip \in IPs : Blocked(ip) /\ now' = now /\ ~Blocked(ip)' =>
       \/ \E r \in Requests : RespondNotFailed(r) /\ request[r].ip = ip
       \/ Reset(ip)
       \/ Destroy
       \/ /\ Cardinality(DOMAIN state) >= maxStateSize /\ ip \in Oldest(state)
          /\ \E r \in Requests : InFlight(r) /\ request'[r].phase # "inflight"]_vars
  BY <1>2
<1>7. Standing /\ TablesInv /\ [Next]_vars =>
     [\A ip \in IPs :
       /\ Blocked(ip) /\ Cardinality(DOMAIN state) < maxStateSize
       /\ ip \in DOMAIN state' /\ state'[ip].blockUntil # NoBlock
       => state'[ip].blockUntil >= state[ip].blockUntil]_vars
  BY <1>3
<1>8. Spec => BlockLiftedOnlyBy
  BY <1>5, <1>6, TypesCorrect, MemoryInvariant, NothingSlipsPast, BlockSoundHolds, PTL
     DEF Spec, BlockLiftedOnlyBy
<1>9. Spec => BlockNeverShortened
  BY <1>5, <1>7, TypesCorrect, MemoryInvariant, NothingSlipsPast, BlockSoundHolds,
     TablesInvariant, PTL
     DEF Spec, BlockNeverShortened
<1> QED BY <1>8, <1>9 DEF BlockStands
-----------------------------------------------------------------------------
(* The native guard, beside this one.                                      *)

Native == INSTANCE ThreadedBruteForceGuardProofs WITH
  Accounts <- Logins,
  maxAttempts <- threadedMaxAttempts, windowMs <- threadedWindowMs,
  blockDurationMs <- threadedBlockMs, maxBlockDurationMs <- threadedMaxBlockMs,
  accountMaxAttempts <- threadedAccountMax,
  maxStateSize <- threadedStateSize, maxAccountSize <- threadedAccountSize,
  MaxTime <- ThreadedMaxTime, now <- tnow, call <- thread

LEMMA NativeLimits == Native!GuardAssumption
BY NativeAssumption DEF Threaded!GuardAssumption, Native!GuardAssumption

LEMMA NativeInit == Threaded!Init => Native!Init
BY DEF Threaded!Init, Native!Init, Threaded!Empty, Native!Empty

LEMMA NativeChecks ==
  ASSUME NEW c \in Calls
  PROVE  /\ \A ip \in IPs, acct \in Logins \cup {NoAccount} :
              Threaded!Check(c, ip, acct) <=> Native!Check(c, ip, acct)
         /\ Threaded!CheckAccount(c) <=> Native!CheckAccount(c)
         /\ \A pc \in {"failed", "passed"} : Threaded!Respond(c, pc) <=> Native!Respond(c, pc)
BY DEF Threaded!Check, Native!Check, Threaded!CheckAccount, Native!CheckAccount,
   Threaded!Respond, Native!Respond, Threaded!Blocked, Native!Blocked, Threaded!At, Native!At,
   Threaded!Recent, Native!Recent, Threaded!Put, Native!Put,
   Threaded!Cardinality, Native!Cardinality

LEMMA NativeRecords ==
  ASSUME NEW c \in Calls
  PROVE  /\ Threaded!RecordForAccount(c) <=> Native!RecordForAccount(c)
         /\ Threaded!RecordForIP(c) <=> Native!RecordForIP(c)
         /\ Threaded!RecordSuccess(c) <=> Native!RecordSuccess(c)
BY DEF Threaded!RecordForAccount, Native!RecordForAccount, Threaded!RecordForIP,
   Native!RecordForIP, Threaded!RecordSuccess, Native!RecordSuccess, Threaded!At, Native!At,
   Threaded!AfterLimit, Native!AfterLimit, Threaded!Put, Native!Put, Threaded!Drop, Native!Drop,
   Threaded!Wiped, Native!Wiped, Threaded!Lost, Native!Lost,
   Threaded!EntriesAfterFailure, Native!EntriesAfterFailure, Threaded!Recent, Native!Recent,
   Threaded!BlockLengths, Native!BlockLengths, Threaded!Backoff, Native!Backoff,
   Threaded!Cardinality, Native!Cardinality

LEMMA NativeResets ==
  ASSUME NEW ip \in IPs
  PROVE  Threaded!Reset(ip) <=> Native!Reset(ip)
BY DEF Threaded!Reset, Native!Reset, Threaded!Drop, Native!Drop, Threaded!Wiped, Native!Wiped

\* A behaviour of the two guards is one of the native guard.
LEMMA NativeOfBoth == BothSpec => Native!Spec
<1>1. BothInit => Native!Init
  BY NativeInit DEF BothInit
<1>2. ThreadedNext => Native!Next
  BY NativeChecks, NativeRecords, NativeResets
     DEF ThreadedNext, InThreaded, Native!Next, Threaded!Tick, Native!Tick
<1>3. GuardNext => UNCHANGED OfThreaded
  BY DEF GuardNext, InGuard
<1>4. UNCHANGED OfThreaded \/ UNCHANGED bothVars => UNCHANGED Native!vars
  BY DEF OfThreaded, bothVars, Native!vars
<1>5. [GuardNext \/ ThreadedNext]_bothVars => [Native!Next]_(Native!vars)
  BY <1>2, <1>3, <1>4
<1> QED BY <1>1, <1>5, PTL DEF BothSpec, Native!Spec

\* The native guard's tables and threads keep their types, and the tables their limits,
\* beside the other guard too.
THEOREM NativeTypes == BothSpec => []TableTypes
<1>1. Native!Spec => []Native!TableTypes
  BY Native!TypeCorrect, NativeLimits
<1>2. Native!TableTypes => TableTypes
  BY DEF TableTypes, Threaded!TableTypes, Native!TableTypes, Threaded!TypeOK, Native!TypeOK,
     Threaded!TablesBounded, Native!TablesBounded, Threaded!IpEntry, Native!IpEntry,
     Threaded!Attempt, Native!Attempt, Threaded!Thread, Native!Thread,
     Threaded!Cardinality, Native!Cardinality
<1> QED BY <1>1, <1>2, NativeOfBoth, PTL

\* An account and an address of the native guard hold exactly the failed logins of the
\* window that no success, reset or eviction took, whatever clocks its threads bring.
THEOREM NativeRemembers == BothSpec => []LoginsRemembered
<1>1. Native!Spec => []Native!LoginsRemembered
  BY Native!Remembers, NativeLimits
<1>2. Native!LoginsRemembered => LoginsRemembered
  BY DEF LoginsRemembered, Threaded!LoginsRemembered, Native!LoginsRemembered,
     Threaded!AccountMemory, Native!AccountMemory, Threaded!IpMemory, Native!IpMemory,
     Threaded!Recent, Native!Recent, Threaded!At, Native!At
<1> QED BY <1>1, <1>2, NativeOfBoth, PTL

\* A native block in force is cut only by a success, a reset, an eviction, a thread with
\* an older clock, or a backoff beyond int64_t.
THEOREM NativeBlocksStand == BothSpec => BlocksStand
<1>1. Native!Spec => Native!BlocksStand
  BY Native!BlocksStandHolds, NativeLimits
<1>2. [\A ip \in IPs : Native!BlockKept(ip)]_(Native!vars)
        => [\A ip \in IPs : Threaded!BlockKept(ip)]_(Threaded!vars)
  BY NativeRecords, NativeResets
     DEF Native!BlockKept, Threaded!BlockKept, Native!vars, Threaded!vars, Native!Blocked,
         Threaded!Blocked, Native!Backoff, Threaded!Backoff, Threaded!Cardinality, Native!Cardinality
<1>3. Native!BlocksStand => Threaded!BlocksStand
  BY <1>2, PTL DEF Native!BlocksStand, Threaded!BlocksStand
<1> QED BY <1>1, <1>3, NativeOfBoth, PTL DEF BlocksStand
=============================================================================
