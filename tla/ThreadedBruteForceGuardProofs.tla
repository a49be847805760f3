------------------- MODULE ThreadedBruteForceGuardProofs -------------------
(***************************************************************************)
(* What the C++ brute-force guard remembers, whichever threads share it.   *)
(*                                                                         *)
(* The two tables obey different rules, so the invariant has two halves.   *)
(* An account's stamps are never trimmed: they are exactly those of its    *)
(* failed logins, apart from the ones an eviction took (AccountKept).  An  *)
(* address's stamps are trimmed by whichever thread fails next, with the   *)
(* clock that thread has read: what must survive is every stamp inside the *)
(* window of the clock of NOW (AddressKept), and it does because no thread *)
(* has read a clock ahead of it (Clocks).                                  *)
(*                                                                         *)
(* How long blocks last is a second invariant on top of the first, at the  *)
(* end: the lengths are powers of two, which the library knows as the      *)
(* number of subsets of a set, capped, and cast to an int64_t.             *)
(***************************************************************************)
EXTENDS ThreadedBruteForceGuard, FiniteSetTheorems, TLAPS

-----------------------------------------------------------------------------
(* The inductive invariant.                                                *)

\* What the proofs need of the types.
Typed ==
  /\ now \in Nat
  /\ DOMAIN ipState \subseteq IPs /\ IsFiniteSet(DOMAIN ipState)
  /\ \A ip \in DOMAIN ipState : /\ "attempts" \in DOMAIN ipState[ip]
                                /\ ipState[ip].attempts \subseteq Attempt
  /\ DOMAIN accState \subseteq Accounts /\ IsFiniteSet(DOMAIN accState)
  /\ \A a \in DOMAIN accState : accState[a] \subseteq Attempt
  /\ DOMAIN call \subseteq Calls
  /\ \A c \in DOMAIN call : call[c] \in Thread

\* A thread's clock is one it has read.
Clocks == \A c \in DOMAIN call : call[c].at <= now

\* A thread whose stamp is not there yet has none to lose.
LossesLater ==
  \A c \in DOMAIN call :
    /\ call[c].lost => call[c].pc \in {"recorded", "failure"}
    /\ call[c].void => call[c].pc = "failure"

\* The stamp that thread c leaves.
Stamp(c) == [call |-> c, at |-> call[c].at]

InAccount(c) == /\ call[c].pc \in {"recorded", "failure"} /\ ~call[c].lost
                /\ call[c].acct \in Accounts

InAddress(c) == call[c].pc = "failure" /\ ~call[c].void

\* The stamps of an account are those its threads left there.
AccountHonest ==
  \A a \in DOMAIN accState : \A x \in accState[a] :
    /\ x.call \in DOMAIN call /\ x.at = call[x.call].at
    /\ call[x.call].acct = a /\ InAccount(x.call)

AccountKept ==
  \A c \in DOMAIN call : InAccount(c) =>
    /\ call[c].acct \in DOMAIN accState
    /\ Stamp(c) \in accState[call[c].acct]

\* The same of an address, the window apart.
AddressHonest ==
  \A ip \in DOMAIN ipState : \A x \in ipState[ip].attempts :
    /\ x.call \in DOMAIN call /\ x.at = call[x.call].at
    /\ call[x.call].ip = ip /\ InAddress(x.call)

AddressKept ==
  \A c \in DOMAIN call : InAddress(c) /\ now - call[c].at < windowMs =>
    /\ call[c].ip \in DOMAIN ipState
    /\ Stamp(c) \in ipState[call[c].ip].attempts

Memory == AccountHonest /\ AccountKept /\ AddressHonest /\ AddressKept

IInv == Typed /\ Clocks /\ LossesLater /\ Memory /\ TablesBounded

-----------------------------------------------------------------------------
(* What the operators return.                                              *)

\* Making room leaves a part of the table, with room for one entry more.
LEMMA RoomMade ==
  ASSUME NEW f, IsFiniteSet(DOMAIN f),
         NEW limit \in Nat \ {0}, Cardinality(DOMAIN f) <= limit,
         NEW table \in AfterLimit(f, limit)
  PROVE  /\ DOMAIN table \subseteq DOMAIN f /\ IsFiniteSet(DOMAIN table)
         /\ \A k \in DOMAIN table : table[k] = f[k]
         /\ Cardinality(DOMAIN table) <= limit - 1
<1>0. Cardinality(DOMAIN f) \in Nat
  BY FS_CardinalityType
<1>1. CASE Cardinality(DOMAIN f) >= limit
  <2>1. PICK k \in DOMAIN f : table = Drop(f, {k})
    BY <1>1 DEF AfterLimit
  <2>2. /\ DOMAIN table = DOMAIN f \ {k}
        /\ \A j \in DOMAIN table : table[j] = f[j]
    BY <2>1 DEF Drop
  <2>3. /\ IsFiniteSet(DOMAIN f \ {k})
        /\ Cardinality(DOMAIN f \ {k}) = Cardinality(DOMAIN f) - 1
    BY FS_RemoveElement
  <2>. QED
    BY <1>0, <2>2, <2>3
<1>2. CASE ~(Cardinality(DOMAIN f) >= limit)
  BY <1>0, <1>2 DEF AfterLimit
<1>. QED
  BY <1>1, <1>2

\* Putting an entry into a table with room stays within the limit.
LEMMA EntryPut ==
  ASSUME NEW f, NEW k, NEW v
  PROVE  /\ DOMAIN Put(f, k, v) = DOMAIN f \cup {k} /\ Put(f, k, v)[k] = v
         /\ \A j \in DOMAIN f : j # k => Put(f, k, v)[j] = f[j]
BY DEF Put

LEMMA RoomUsed ==
  ASSUME NEW f, IsFiniteSet(DOMAIN f), NEW limit \in Nat,
         Cardinality(DOMAIN f) <= limit - 1, NEW k, NEW v
  PROVE  /\ IsFiniteSet(DOMAIN Put(f, k, v))
         /\ Cardinality(DOMAIN Put(f, k, v)) <= limit
<1>1. DOMAIN Put(f, k, v) = DOMAIN f \cup {k} /\ Cardinality(DOMAIN f) \in Nat
  BY EntryPut, FS_CardinalityType
<1>2. /\ IsFiniteSet(DOMAIN f \cup {k})
      /\ \/ Cardinality(DOMAIN f \cup {k}) = Cardinality(DOMAIN f)
         \/ Cardinality(DOMAIN f \cup {k}) = Cardinality(DOMAIN f) + 1
  BY FS_AddElement
<1>. QED
  BY <1>1, <1>2

\* Of a thread, a wiped address takes the stamp and nothing else.
LEMMA WipedThread ==
  ASSUME NEW f, NEW S, NEW c \in DOMAIN f, f[c] \in Thread
  PROVE  LET w == Wiped(f, S)[c]
         IN  /\ w \in Thread
             /\ w.pc = f[c].pc /\ w.ip = f[c].ip /\ w.acct = f[c].acct
             /\ w.at = f[c].at /\ w.lost = f[c].lost
             /\ w.void <=> f[c].void \/ (f[c].ip \in S /\ f[c].pc = "failure")
<1> DEFINE w == Wiped(f, S)[c]
<1>1. w = [f[c] EXCEPT !.void = f[c].void \/ (f[c].ip \in S /\ f[c].pc = "failure")]
  BY DEF Wiped
<1>. QED
  BY <1>1 DEF Thread

\* An evicted account, likewise.
LEMMA LostThread ==
  ASSUME NEW f, NEW S, NEW c \in DOMAIN f, f[c] \in Thread
  PROVE  LET w == Lost(f, S)[c]
         IN  /\ w \in Thread
             /\ w.pc = f[c].pc /\ w.ip = f[c].ip /\ w.acct = f[c].acct
             /\ w.at = f[c].at /\ w.void = f[c].void
             /\ w.lost <=> f[c].lost \/ (f[c].acct \in S /\ f[c].pc \in {"recorded", "failure"})
<1> DEFINE w == Lost(f, S)[c]
<1>1. w = [f[c] EXCEPT !.lost = f[c].lost \/ (/\ f[c].acct \in S
                                               /\ f[c].pc \in {"recorded", "failure"})]
  BY DEF Lost
<1>. QED
  BY <1>1 DEF Thread

LEMMA SameThreads ==
  ASSUME NEW f, NEW S
  PROVE  DOMAIN Wiped(f, S) = DOMAIN f /\ DOMAIN Lost(f, S) = DOMAIN f
BY DEF Wiped, Lost

\* Moving a thread's program counter changes nothing else of it.
LEMMA Moved ==
  ASSUME NEW f, NEW c \in DOMAIN f, f[c] \in Thread,
         NEW pc \in {"checked", "serving", "failed", "passed", "recorded",
                     "failure", "success", "refused"},
         NEW g, g = [f EXCEPT ![c].pc = pc]
  PROVE  /\ DOMAIN g = DOMAIN f
         /\ \A d \in DOMAIN f : d # c => g[d] = f[d]
         /\ g[c] \in Thread /\ g[c].pc = pc
         /\ g[c].ip = f[c].ip /\ g[c].acct = f[c].acct /\ g[c].at = f[c].at
         /\ g[c].void = f[c].void /\ g[c].lost = f[c].lost
<1> DEFINE q == [f[c] EXCEPT !.pc = pc]
<1>1. /\ DOMAIN g = DOMAIN f
      /\ \A d \in DOMAIN f : d # c => g[d] = f[d]
      /\ g[c] = q
  OBVIOUS
<1>2. /\ q \in Thread /\ q.pc = pc /\ q.ip = f[c].ip /\ q.acct = f[c].acct /\ q.at = f[c].at
      /\ q.void = f[c].void /\ q.lost = f[c].lost
  BY DEF Thread
<1>. HIDE DEF q
<1>. QED
  BY <1>1, <1>2

-----------------------------------------------------------------------------
(* Every step keeps the invariant.                                         *)

\* Of the constants, what the proofs use.
LEMMA Limits ==
  ASSUME GuardAssumption
  PROVE  /\ maxStateSize \in Nat \ {0} /\ maxAccountSize \in Nat \ {0}
         /\ windowMs \in Nat \ {0} /\ NoAccount \notin Accounts
BY DEF GuardAssumption

LEMMA ThreadFields ==
  ASSUME NEW t \in Thread
  PROVE  /\ t.pc \in {"checked", "serving", "failed", "passed", "recorded",
                      "failure", "success", "refused"}
         /\ t.ip \in IPs /\ t.acct \in Accounts \cup {NoAccount} /\ t.at \in Nat
         /\ t.void \in BOOLEAN /\ t.lost \in BOOLEAN
BY DEF Thread

LEMMA InvInit ==
  ASSUME GuardAssumption, Init
  PROVE  IInv
<1>1. DOMAIN Empty = {}
  BY DEF Empty
<1>2. IsFiniteSet({}) /\ Cardinality({}) = 0
  BY FS_EmptySet
<1>. QED
  BY <1>1, <1>2, Limits
  DEF Init, IInv, Typed, Clocks, LossesLater, Memory, AccountHonest, AccountKept,
      AddressHonest, AddressKept, TablesBounded

\* Steps that change no table and of one thread only what no stamp depends on.
LEMMA ThreadSteps ==
  ASSUME IInv, NEW c \in Calls, UNCHANGED <<now, ipState, accState>>,
         DOMAIN call' = DOMAIN call \cup {c},
         \A d \in DOMAIN call : d # c => call'[d] = call[d],
         call'[c] \in Thread, call'[c].at <= now,
         call'[c].pc \notin {"recorded", "failure"},
         ~call'[c].lost, ~call'[c].void,
         c \in DOMAIN call => call[c].pc \notin {"recorded", "failure"}
  PROVE  IInv'
<1>1. Typed'
  BY DEF IInv, Typed
<1>2. Clocks' /\ LossesLater' /\ TablesBounded'
  BY DEF IInv, Clocks, LossesLater, TablesBounded
<1>3. AccountHonest'
  BY DEF IInv, Memory, AccountHonest, InAccount
<1>4. AddressHonest'
  BY DEF IInv, Memory, AddressHonest, InAddress
<1>5. AccountKept'
  <2> SUFFICES ASSUME NEW d \in DOMAIN call', InAccount(d)'
               PROVE  (call[d].acct \in DOMAIN accState /\ Stamp(d) \in accState[call[d].acct])'
    BY DEF AccountKept
  <2>1. d # c /\ d \in DOMAIN call /\ call'[d] = call[d]
    BY DEF InAccount
  <2>. QED
    BY <2>1 DEF IInv, Memory, AccountKept, InAccount, Stamp
<1>6. AddressKept'
  <2> SUFFICES ASSUME NEW d \in DOMAIN call', InAddress(d)', (now - call[d].at < windowMs)'
               PROVE  (/\ call[d].ip \in DOMAIN ipState
                       /\ Stamp(d) \in ipState[call[d].ip].attempts)'
    BY DEF AddressKept
  <2>1. d # c /\ d \in DOMAIN call /\ call'[d] = call[d]
    BY DEF InAddress
  <2>. QED
    BY <2>1 DEF IInv, Memory, AddressKept, InAddress, Stamp
<1>. QED
  BY <1>1, <1>2, <1>3, <1>4, <1>5, <1>6 DEF IInv, Memory

LEMMA CheckKeeps ==
  ASSUME IInv, NEW c \in Calls, NEW ip \in IPs, NEW acct \in Accounts \cup {NoAccount},
         Check(c, ip, acct)
  PROVE  IInv'
<1> DEFINE t == [pc |-> IF Blocked(ip) THEN "refused" ELSE "checked",
                 ip |-> ip, acct |-> acct, at |-> now, void |-> FALSE, lost |-> FALSE]
<1>1. c \notin DOMAIN call /\ call' = Put(call, c, t) /\ UNCHANGED <<now, ipState, accState>>
  BY DEF Check
<1>2. now \in Nat
  BY DEF IInv, Typed
<1>3. /\ t \in Thread /\ t.at <= now /\ t.pc \notin {"recorded", "failure"}
      /\ ~t.lost /\ ~t.void
  BY <1>2 DEF Thread
<1>. HIDE DEF t
<1>4. /\ DOMAIN call' = DOMAIN call \cup {c} /\ call'[c] = t
      /\ \A d \in DOMAIN call : d # c => call'[d] = call[d]
  BY <1>1 DEF Put
<1>. QED
  BY <1>1, <1>3, <1>4, ThreadSteps

LEMMA CheckAccountKeeps ==
  ASSUME IInv, NEW c \in Calls, CheckAccount(c)
  PROVE  IInv'
<1>1. PICK pc \in {"refused", "serving"} :
        c \in DOMAIN call /\ call[c].pc = "checked" /\ call' = [call EXCEPT ![c].pc = pc]
  BY DEF CheckAccount, At
<1>2. /\ call[c] \in Thread /\ call[c].at <= now /\ ~call[c].lost /\ ~call[c].void
  BY <1>1 DEF IInv, Typed, Clocks, LossesLater
<1>3. /\ DOMAIN call' = DOMAIN call
      /\ \A d \in DOMAIN call : d # c => call'[d] = call[d]
      /\ call'[c] \in Thread /\ call'[c].pc = pc /\ call'[c].at = call[c].at
      /\ call'[c].void = call[c].void /\ call'[c].lost = call[c].lost
  BY <1>1, <1>2, Moved
<1>4. UNCHANGED <<now, ipState, accState>>
  BY DEF CheckAccount
<1>. QED
  BY <1>1, <1>2, <1>3, <1>4, ThreadSteps

LEMMA RespondKeeps ==
  ASSUME IInv, NEW c \in Calls, NEW pc \in {"failed", "passed"}, Respond(c, pc)
  PROVE  IInv'
<1>1. /\ c \in DOMAIN call /\ call[c].pc = "serving"
      /\ call' = [call EXCEPT ![c].pc = pc, ![c].at = now]
      /\ UNCHANGED <<now, ipState, accState>>
  BY DEF Respond, At
<1>2. call[c] \in Thread /\ ~call[c].lost /\ ~call[c].void /\ now \in Nat
  BY <1>1 DEF IInv, Typed, LossesLater
<1> DEFINE q == [[call[c] EXCEPT !.pc = pc] EXCEPT !.at = now]
<1>3. q \in Thread /\ q.pc = pc /\ q.at = now /\ ~q.lost /\ ~q.void
  BY <1>2 DEF Thread
<1>4. /\ DOMAIN call' = DOMAIN call /\ call'[c] = q
      /\ \A d \in DOMAIN call : d # c => call'[d] = call[d]
  BY <1>1
<1>. HIDE DEF q
<1>. QED
  BY <1>1, <1>2, <1>3, <1>4, ThreadSteps

LEMMA TickKeeps ==
  ASSUME GuardAssumption, IInv, Tick
  PROVE  IInv'
<1>1. now' = now + 1 /\ UNCHANGED <<ipState, accState, call>> /\ now \in Nat
  BY DEF IInv, Typed, Tick
<1>2. Typed' /\ LossesLater' /\ TablesBounded' /\ AccountHonest' /\ AccountKept' /\ AddressHonest'
  BY <1>1 DEF IInv, Typed, LossesLater, TablesBounded, Memory, AccountHonest, AccountKept,
             AddressHonest, InAccount, InAddress, Stamp
<1>3. \A c \in DOMAIN call : call[c].at \in Nat
  BY ThreadFields DEF IInv, Typed
<1>4. Clocks'
  BY <1>1, <1>3 DEF IInv, Clocks
<1>5. AddressKept'
  <2> SUFFICES ASSUME NEW d \in DOMAIN call', InAddress(d)', (now - call[d].at < windowMs)'
               PROVE  (/\ call[d].ip \in DOMAIN ipState
                       /\ Stamp(d) \in ipState[call[d].ip].attempts)'
    BY DEF AddressKept
  <2>1. d \in DOMAIN call /\ InAddress(d) /\ call' = call
    BY <1>1 DEF InAddress
  <2>2. now - call[d].at < windowMs
    BY <1>1, <1>3, <2>1, Limits
  <2>. QED
    BY <1>1, <2>1, <2>2 DEF IInv, Memory, AddressKept, Stamp
<1>. QED
  BY <1>2, <1>4, <1>5 DEF IInv, Memory

\* The account side is untouched by a step under the addresses' mutex.
LEMMA AccountsStay ==
  ASSUME IInv, accState' = accState, DOMAIN call' = DOMAIN call,
         \A d \in DOMAIN call :
           /\ call'[d].acct = call[d].acct /\ call'[d].at = call[d].at
           /\ call'[d].lost = call[d].lost
           /\ call'[d].pc \in {"recorded", "failure"} <=> call[d].pc \in {"recorded", "failure"}
  PROVE  AccountHonest' /\ AccountKept'
<1>1. \A d \in DOMAIN call : InAccount(d)' <=> InAccount(d)
  BY DEF InAccount
<1>2. \A d \in DOMAIN call : Stamp(d)' = Stamp(d)
  BY DEF Stamp
<1>3. AccountHonest'
  <2> SUFFICES ASSUME NEW a \in DOMAIN accState, NEW x \in accState[a]
               PROVE  /\ x.call \in DOMAIN call' /\ x.at = call'[x.call].at
                      /\ call'[x.call].acct = a /\ InAccount(x.call)'
    BY DEF AccountHonest
  <2>1. /\ x.call \in DOMAIN call /\ x.at = call[x.call].at
        /\ call[x.call].acct = a /\ InAccount(x.call)
    BY DEF IInv, Memory, AccountHonest
  <2>. QED
    BY <1>1, <2>1
<1>4. AccountKept'
  <2> SUFFICES ASSUME NEW d \in DOMAIN call, InAccount(d)'
               PROVE  call'[d].acct \in DOMAIN accState /\ Stamp(d)' \in accState[call'[d].acct]
    BY DEF AccountKept
  <2>1. InAccount(d) /\ call'[d].acct = call[d].acct /\ Stamp(d)' = Stamp(d)
    BY <1>1, <1>2
  <2>. QED
    BY <2>1 DEF IInv, Memory, AccountKept
<1>. QED
  BY <1>3, <1>4

\* The addresses' side, likewise.
LEMMA AddressesStay ==
  ASSUME IInv, ipState' = ipState, now' = now, DOMAIN call' = DOMAIN call,
         \A d \in DOMAIN call :
           /\ call'[d].ip = call[d].ip /\ call'[d].at = call[d].at
           /\ call'[d].void = call[d].void
           /\ call'[d].pc = "failure" <=> call[d].pc = "failure"
  PROVE  AddressHonest' /\ AddressKept'
<1>1. \A d \in DOMAIN call : InAddress(d)' <=> InAddress(d)
  BY DEF InAddress
<1>2. \A d \in DOMAIN call : Stamp(d)' = Stamp(d)
  BY DEF Stamp
<1>3. AddressHonest'
  <2> SUFFICES ASSUME NEW ip \in DOMAIN ipState, NEW x \in ipState[ip].attempts
               PROVE  /\ x.call \in DOMAIN call' /\ x.at = call'[x.call].at
                      /\ call'[x.call].ip = ip /\ InAddress(x.call)'
    BY DEF AddressHonest
  <2>1. /\ x.call \in DOMAIN call /\ x.at = call[x.call].at
        /\ call[x.call].ip = ip /\ InAddress(x.call)
    BY DEF IInv, Memory, AddressHonest
  <2>. QED
    BY <1>1, <2>1
<1>4. AddressKept'
  <2> SUFFICES ASSUME NEW d \in DOMAIN call, InAddress(d)', now - call'[d].at < windowMs
               PROVE  /\ call'[d].ip \in DOMAIN ipState
                      /\ Stamp(d)' \in ipState[call'[d].ip].attempts
    BY DEF AddressKept
  <2>1. /\ InAddress(d) /\ call'[d].ip = call[d].ip /\ Stamp(d)' = Stamp(d)
        /\ call'[d].at = call[d].at
    BY <1>1, <1>2
  <2>. QED
    BY <2>1 DEF IInv, Memory, AddressKept
<1>. QED
  BY <1>3, <1>4

\* Steps that wipe an address: RecordSuccess and Reset.
LEMMA WipeKeeps ==
  ASSUME GuardAssumption, IInv, NEW ip \in IPs,
         ipState' = Drop(ipState, {ip}), UNCHANGED <<now, accState>>,
         DOMAIN call' = DOMAIN call,
         \A d \in DOMAIN call :
           /\ call'[d] \in Thread
           /\ call'[d].ip = call[d].ip /\ call'[d].acct = call[d].acct
           /\ call'[d].at = call[d].at /\ call'[d].lost = call[d].lost
           /\ call'[d].void <=> call[d].void \/ (call[d].ip = ip /\ call[d].pc = "failure")
           /\ \/ call'[d].pc = call[d].pc
              \/ call[d].pc = "passed" /\ call'[d].pc = "success"
  PROVE  IInv'
<1>1. IsFiniteSet(DOMAIN ipState) /\ Cardinality(DOMAIN ipState) \in Nat
  BY FS_CardinalityType DEF IInv, Typed
<1>2. /\ DOMAIN ipState' = DOMAIN ipState \ {ip}
      /\ \A k \in DOMAIN ipState \ {ip} : ipState'[k] = ipState[k]
      /\ IsFiniteSet(DOMAIN ipState')
      /\ Cardinality(DOMAIN ipState') <= Cardinality(DOMAIN ipState)
  <2>1. /\ DOMAIN ipState' = DOMAIN ipState \ {ip}
        /\ \A k \in DOMAIN ipState \ {ip} : ipState'[k] = ipState[k]
    BY DEF Drop
  <2>2. DOMAIN ipState \ {ip} \subseteq DOMAIN ipState
    OBVIOUS
  <2>3. /\ IsFiniteSet(DOMAIN ipState \ {ip})
        /\ Cardinality(DOMAIN ipState \ {ip}) <= Cardinality(DOMAIN ipState)
    BY <1>1, <2>2, FS_Subset
  <2>. QED
    BY <2>1, <2>3
<1>3. Typed'
  BY <1>2 DEF IInv, Typed
<1>4. Clocks'
  BY DEF IInv, Clocks
<1>5. LossesLater'
  BY DEF IInv, LossesLater
<1>6. Cardinality(DOMAIN ipState') \in Nat
  BY <1>2, FS_CardinalityType
<1>7. TablesBounded'
  BY <1>1, <1>2, <1>6, Limits DEF IInv, TablesBounded
<1>8. AccountHonest' /\ AccountKept'
  BY AccountsStay
<1>9. AddressHonest'
  <2> SUFFICES ASSUME NEW i \in DOMAIN ipState', NEW x \in ipState'[i].attempts
               PROVE  /\ x.call \in DOMAIN call' /\ x.at = call'[x.call].at
                      /\ call'[x.call].ip = i /\ InAddress(x.call)'
    BY DEF AddressHonest
  <2>1. i \in DOMAIN ipState /\ i # ip /\ x \in ipState[i].attempts
    BY <1>2
  <2>2. /\ x.call \in DOMAIN call /\ x.at = call[x.call].at
        /\ call[x.call].ip = i /\ call[x.call].pc = "failure" /\ ~call[x.call].void
    BY <2>1 DEF IInv, Memory, AddressHonest, InAddress
  <2>. QED
    BY <2>1, <2>2 DEF InAddress
<1>10. AddressKept'
  <2> SUFFICES ASSUME NEW d \in DOMAIN call, InAddress(d)', now - call'[d].at < windowMs
               PROVE  /\ call'[d].ip \in DOMAIN ipState'
                      /\ Stamp(d)' \in ipState'[call'[d].ip].attempts
    BY DEF AddressKept
  <2>1. /\ InAddress(d) /\ call'[d].ip = call[d].ip /\ call'[d].at = call[d].at
        /\ call[d].ip # ip
    BY DEF InAddress
  <2>2. Stamp(d)' = Stamp(d)
    BY <2>1 DEF Stamp
  <2>3. call[d].ip \in DOMAIN ipState /\ Stamp(d) \in ipState[call[d].ip].attempts
    BY <2>1 DEF IInv, Memory, AddressKept
  <2>4. PICK i : i = call[d].ip
    OBVIOUS
  <2>5. ipState'[i] = ipState[i] /\ i \in DOMAIN ipState'
    BY <1>2, <2>1, <2>3, <2>4
  <2>. QED
    BY <2>1, <2>2, <2>3, <2>4, <2>5
<1>. QED
  BY <1>3, <1>4, <1>5, <1>7, <1>8, <1>9, <1>10 DEF IInv, Memory

LEMMA ResetKeeps ==
  ASSUME GuardAssumption, IInv, NEW ip \in IPs, Reset(ip)
  PROVE  IInv'
<1>1. /\ ipState' = Drop(ipState, {ip}) /\ UNCHANGED <<now, accState>>
      /\ call' = Wiped(call, {ip})
  BY DEF Reset
<1>2. \A d \in DOMAIN call : call[d] \in Thread
  BY DEF IInv, Typed
<1>3. DOMAIN call' = DOMAIN call
  BY <1>1, SameThreads
<1>4. \A d \in DOMAIN call :
        /\ call'[d] \in Thread
        /\ call'[d].ip = call[d].ip /\ call'[d].acct = call[d].acct
        /\ call'[d].at = call[d].at /\ call'[d].lost = call[d].lost
        /\ call'[d].void <=> call[d].void \/ (call[d].ip = ip /\ call[d].pc = "failure")
        /\ call'[d].pc = call[d].pc
  BY <1>1, <1>2, WipedThread
<1>. QED
  BY <1>1, <1>3, <1>4, WipeKeeps

LEMMA RecordSuccessKeeps ==
  ASSUME GuardAssumption, IInv, NEW c \in Calls, RecordSuccess(c)
  PROVE  IInv'
<1>1. PICK ip : ip = call[c].ip
  OBVIOUS
<1> DEFINE w == Wiped(call, {ip})
<1>2. /\ c \in DOMAIN call /\ call[c].pc = "passed"
      /\ ipState' = Drop(ipState, {ip}) /\ UNCHANGED <<now, accState>>
      /\ call' = [w EXCEPT ![c].pc = "success"]
  BY <1>1 DEF RecordSuccess, At
<1>3. \A d \in DOMAIN call : call[d] \in Thread
  BY DEF IInv, Typed
<1>4. /\ DOMAIN w = DOMAIN call
      /\ \A d \in DOMAIN call :
           /\ w[d] \in Thread
           /\ w[d].ip = call[d].ip /\ w[d].acct = call[d].acct
           /\ w[d].at = call[d].at /\ w[d].lost = call[d].lost
           /\ w[d].void <=> call[d].void \/ (call[d].ip = ip /\ call[d].pc = "failure")
           /\ w[d].pc = call[d].pc
  BY <1>3, WipedThread, SameThreads
<1>. HIDE DEF w
<1>5. /\ DOMAIN call' = DOMAIN w
      /\ \A d \in DOMAIN w : d # c => call'[d] = w[d]
      /\ call'[c] \in Thread /\ call'[c].pc = "success"
      /\ call'[c].ip = w[c].ip /\ call'[c].acct = w[c].acct /\ call'[c].at = w[c].at
      /\ call'[c].void = w[c].void /\ call'[c].lost = w[c].lost
  <2>1. /\ c \in DOMAIN w /\ w[c] \in Thread
        /\ "success" \in {"checked", "serving", "failed", "passed", "recorded",
                          "failure", "success", "refused"}
        /\ call' = [w EXCEPT ![c].pc = "success"]
    BY <1>2, <1>4
  <2>. QED
    BY <2>1, Moved
<1>6. ip \in IPs
  BY <1>1, <1>2, <1>3, ThreadFields
<1>7. \A d \in DOMAIN call :
        /\ call'[d] \in Thread
        /\ call'[d].ip = call[d].ip /\ call'[d].acct = call[d].acct
        /\ call'[d].at = call[d].at /\ call'[d].lost = call[d].lost
        /\ call'[d].void <=> call[d].void \/ (call[d].ip = ip /\ call[d].pc = "failure")
        /\ \/ call'[d].pc = call[d].pc
           \/ call[d].pc = "passed" /\ call'[d].pc = "success"
  BY <1>2, <1>4, <1>5
<1>. QED
  BY <1>2, <1>4, <1>5, <1>6, <1>7, WipeKeeps

\* What recordResponse does to the threads under the accounts' mutex.
LEMMA RecordedThreads ==
  ASSUME IInv, NEW c \in DOMAIN call, call[c].pc = "failed", NEW S,
         NEW w, w = Lost(call, S), call' = [w EXCEPT ![c].pc = "recorded"]
  PROVE  /\ DOMAIN call' = DOMAIN call
         /\ \A d \in DOMAIN call :
              /\ call'[d] \in Thread
              /\ call'[d].ip = call[d].ip /\ call'[d].acct = call[d].acct
              /\ call'[d].at = call[d].at /\ call'[d].void = call[d].void
         /\ \A d \in DOMAIN call : d # c =>
              /\ call'[d].pc = call[d].pc
              /\ call'[d].lost <=> call[d].lost \/ (/\ call[d].acct \in S
                                                    /\ call[d].pc \in {"recorded", "failure"})
         /\ call'[c].pc = "recorded" /\ ~call'[c].lost
<1>1. \A d \in DOMAIN call : call[d] \in Thread
  BY DEF IInv, Typed
<1>2. /\ DOMAIN w = DOMAIN call
      /\ \A d \in DOMAIN call :
           /\ w[d] \in Thread
           /\ w[d].pc = call[d].pc /\ w[d].ip = call[d].ip /\ w[d].acct = call[d].acct
           /\ w[d].at = call[d].at /\ w[d].void = call[d].void
           /\ w[d].lost <=> call[d].lost \/ (/\ call[d].acct \in S
                                             /\ call[d].pc \in {"recorded", "failure"})
  BY <1>1, LostThread, SameThreads
<1>4. /\ c \in DOMAIN w /\ w[c] \in Thread
      /\ "recorded" \in {"checked", "serving", "failed", "passed", "recorded",
                         "failure", "success", "refused"}
  BY <1>2
<1>5. /\ DOMAIN call' = DOMAIN w
      /\ \A d \in DOMAIN w : d # c => call'[d] = w[d]
      /\ call'[c] \in Thread /\ call'[c].pc = "recorded"
      /\ call'[c].ip = w[c].ip /\ call'[c].acct = w[c].acct /\ call'[c].at = w[c].at
      /\ call'[c].void = w[c].void /\ call'[c].lost = w[c].lost
  BY <1>4, Moved
<1>6. ~w[c].lost
  <2>1. ~call[c].lost /\ call[c].pc \notin {"recorded", "failure"}
    BY DEF IInv, LossesLater
  <2>. QED
    BY <1>2, <2>1
<1>. QED
  BY <1>2, <1>5, <1>6

\* The same under the addresses' mutex.
LEMMA FailedThreads ==
  ASSUME IInv, NEW c \in DOMAIN call, call[c].pc = "recorded", NEW S,
         NEW w, w = Wiped(call, S), call' = [w EXCEPT ![c].pc = "failure"]
  PROVE  /\ DOMAIN call' = DOMAIN call
         /\ \A d \in DOMAIN call :
              /\ call'[d] \in Thread
              /\ call'[d].ip = call[d].ip /\ call'[d].acct = call[d].acct
              /\ call'[d].at = call[d].at /\ call'[d].lost = call[d].lost
         /\ \A d \in DOMAIN call : d # c =>
              /\ call'[d].pc = call[d].pc
              /\ call'[d].void <=> call[d].void \/ (call[d].ip \in S /\ call[d].pc = "failure")
         /\ call'[c].pc = "failure" /\ ~call'[c].void
<1>1. \A d \in DOMAIN call : call[d] \in Thread
  BY DEF IInv, Typed
<1>2. /\ DOMAIN w = DOMAIN call
      /\ \A d \in DOMAIN call :
           /\ w[d] \in Thread
           /\ w[d].pc = call[d].pc /\ w[d].ip = call[d].ip /\ w[d].acct = call[d].acct
           /\ w[d].at = call[d].at /\ w[d].lost = call[d].lost
           /\ w[d].void <=> call[d].void \/ (call[d].ip \in S /\ call[d].pc = "failure")
  BY <1>1, WipedThread, SameThreads
<1>4. /\ c \in DOMAIN w /\ w[c] \in Thread
      /\ "failure" \in {"checked", "serving", "failed", "passed", "recorded",
                        "failure", "success", "refused"}
  BY <1>2
<1>5. /\ DOMAIN call' = DOMAIN w
      /\ \A d \in DOMAIN w : d # c => call'[d] = w[d]
      /\ call'[c] \in Thread /\ call'[c].pc = "failure"
      /\ call'[c].ip = w[c].ip /\ call'[c].acct = w[c].acct /\ call'[c].at = w[c].at
      /\ call'[c].void = w[c].void /\ call'[c].lost = w[c].lost
  BY <1>4, Moved
<1>6. ~w[c].void
  <2>1. ~call[c].void /\ call[c].pc # "failure"
    BY DEF IInv, LossesLater
  <2>. QED
    BY <1>2, <2>1
<1>. QED
  BY <1>2, <1>5, <1>6

\* The table of accounts after a failure, with what it lost.
LEMMA AccountPushed ==
  ASSUME GuardAssumption, IInv, NEW c \in DOMAIN call, call[c].pc = "failed",
         NEW a \in Accounts, a = call[c].acct, UNCHANGED <<now, ipState>>,
         NEW table \in AfterLimit(accState, maxAccountSize),
         accState' = Put(table, a, (IF a \in DOMAIN table THEN table[a] ELSE {}) \cup {Stamp(c)}),
         NEW S, S = DOMAIN accState \ DOMAIN table,
         DOMAIN call' = DOMAIN call,
         \A d \in DOMAIN call :
           /\ call'[d] \in Thread
           /\ call'[d].ip = call[d].ip /\ call'[d].acct = call[d].acct
           /\ call'[d].at = call[d].at /\ call'[d].void = call[d].void,
         \A d \in DOMAIN call : d # c =>
           /\ call'[d].pc = call[d].pc
           /\ call'[d].lost <=> call[d].lost \/ (/\ call[d].acct \in S
                                                 /\ call[d].pc \in {"recorded", "failure"}),
         call'[c].pc = "recorded", ~call'[c].lost
  PROVE  IInv'
<1> DEFINE old == IF a \in DOMAIN table THEN table[a] ELSE {}
<1>1. /\ IsFiniteSet(DOMAIN accState) /\ Cardinality(DOMAIN accState) <= maxAccountSize
      /\ maxAccountSize \in Nat \ {0}
  BY Limits DEF IInv, Typed, TablesBounded
<1>2. /\ DOMAIN table \subseteq DOMAIN accState /\ IsFiniteSet(DOMAIN table)
      /\ \A k \in DOMAIN table : table[k] = accState[k]
      /\ Cardinality(DOMAIN table) <= maxAccountSize - 1
  BY <1>1, RoomMade
<1>3. /\ DOMAIN accState' = DOMAIN table \cup {a}
      /\ accState'[a] = old \cup {Stamp(c)}
      /\ \A k \in DOMAIN table : k # a => accState'[k] = accState[k]
  BY <1>2 DEF Put
<1>4. IsFiniteSet(DOMAIN accState') /\ Cardinality(DOMAIN accState') <= maxAccountSize
  BY <1>1, <1>2, RoomUsed
<1>5. /\ a \in DOMAIN table => old = accState[a]
      /\ a \notin DOMAIN table => old = {}
  BY <1>2
<1>7. \A k : k \in S <=> k \in DOMAIN accState /\ k \notin DOMAIN table
  OBVIOUS
<1>. HIDE DEF old
<1>9. Stamp(c) \in Attempt /\ Stamp(c).call = c /\ Stamp(c).at = call[c].at
  BY ThreadFields DEF IInv, Typed, Stamp, Attempt
<1>10. Typed'
  <2>1. /\ DOMAIN accState \subseteq Accounts
        /\ \A k \in DOMAIN accState : accState[k] \subseteq Attempt
    BY DEF IInv, Typed
  <2>2. \A k \in DOMAIN accState' : accState'[k] \subseteq Attempt
    <3> SUFFICES ASSUME NEW k \in DOMAIN accState'
                 PROVE  accState'[k] \subseteq Attempt
      OBVIOUS
    <3>1. CASE k = a
      BY <1>2, <1>3, <1>5, <1>9, <2>1, <3>1
    <3>2. CASE k # a
      BY <1>2, <1>3, <2>1, <3>2
    <3>. QED
      BY <3>1, <3>2
  <2>3. DOMAIN accState' \subseteq Accounts
    BY <1>2, <1>3, <2>1
  <2>. QED
    BY <1>4, <2>2, <2>3 DEF IInv, Typed
<1>11. Clocks' /\ TablesBounded'
  BY <1>4 DEF IInv, Clocks, TablesBounded
<1>12. LossesLater'
  BY DEF IInv, LossesLater
<1>13. AddressHonest' /\ AddressKept'
  <2>1. \A d \in DOMAIN call : call'[d].pc = "failure" <=> call[d].pc = "failure"
    OBVIOUS
  <2>. QED
    BY <2>1, AddressesStay
<1>14. AccountHonest'
  <2> SUFFICES ASSUME NEW k \in DOMAIN accState', NEW x \in accState'[k]
               PROVE  /\ x.call \in DOMAIN call' /\ x.at = call'[x.call].at
                      /\ call'[x.call].acct = k /\ InAccount(x.call)'
    BY DEF AccountHonest
  <2>1. CASE k = a /\ x = Stamp(c)
    BY <1>9, <2>1 DEF InAccount
  <2>2. CASE ~(k = a /\ x = Stamp(c))
    <3>1. k \in DOMAIN table /\ k \notin S /\ x \in accState[k]
      BY <1>3, <1>5, <1>7, <2>2
    <3>2. /\ x.call \in DOMAIN call /\ x.at = call[x.call].at
          /\ call[x.call].acct = k /\ InAccount(x.call)
      BY <1>2, <3>1 DEF IInv, Memory, AccountHonest
    <3>3. x.call # c
      BY <3>2 DEF InAccount
    <3>. QED
      BY <3>1, <3>2, <3>3 DEF InAccount
  <2>. QED
    BY <2>1, <2>2
<1>15. AccountKept'
  <2> SUFFICES ASSUME NEW d \in DOMAIN call, InAccount(d)'
               PROVE  call'[d].acct \in DOMAIN accState' /\ Stamp(d)' \in accState'[call'[d].acct]
    BY DEF AccountKept
  <2>1. Stamp(d)' = Stamp(d) /\ call'[d].acct = call[d].acct
    BY DEF Stamp
  <2>2. PICK k : k = call[d].acct
    OBVIOUS
  <2>3. CASE d = c
    BY <1>3, <2>1, <2>3
  <2>4. CASE d # c
    <3>1. InAccount(d) /\ k \notin S
      BY <2>2, <2>4 DEF InAccount
    <3>2. k \in DOMAIN accState /\ Stamp(d) \in accState[k]
      BY <2>2, <3>1 DEF IInv, Memory, AccountKept
    <3>3. k \in DOMAIN table
      BY <1>7, <3>1, <3>2
    <3>4. k \in DOMAIN accState' /\ Stamp(d) \in accState'[k]
      BY <1>3, <1>5, <3>2, <3>3
    <3>. QED
      BY <2>1, <2>2, <3>4
  <2>. QED
    BY <2>3, <2>4
<1>. QED
  BY <1>10, <1>11, <1>12, <1>13, <1>14, <1>15 DEF IInv, Memory

LEMMA RecordForAccountKeeps ==
  ASSUME GuardAssumption, IInv, NEW c \in Calls, RecordForAccount(c)
  PROVE  IInv'
<1>1. c \in DOMAIN call /\ call[c].pc = "failed" /\ UNCHANGED <<now, ipState>>
  BY DEF RecordForAccount, At
<1>2. PICK a : a = call[c].acct
  OBVIOUS
<1>3. a \in Accounts \cup {NoAccount}
  BY <1>1, <1>2, ThreadFields DEF IInv, Typed
<1>4. CASE a = NoAccount
  <2>1. accState' = accState /\ call' = [Lost(call, DOMAIN accState \ DOMAIN accState)
                                           EXCEPT ![c].pc = "recorded"]
    BY <1>2, <1>4 DEF RecordForAccount
  <2>2. PICK S : S = DOMAIN accState \ DOMAIN accState
    OBVIOUS
  <2>11. PICK w : w = Lost(call, S)
    OBVIOUS
  <2>3. call' = [w EXCEPT ![c].pc = "recorded"] /\ S = {}
    BY <2>1, <2>2, <2>11
  <2>4. /\ DOMAIN call' = DOMAIN call
        /\ \A d \in DOMAIN call :
             /\ call'[d] \in Thread
             /\ call'[d].ip = call[d].ip /\ call'[d].acct = call[d].acct
             /\ call'[d].at = call[d].at /\ call'[d].void = call[d].void
        /\ \A d \in DOMAIN call : d # c =>
             call'[d].pc = call[d].pc /\ (call'[d].lost <=> call[d].lost)
        /\ call'[c].pc = "recorded" /\ ~call'[c].lost
    BY <1>1, <2>3, <2>11, RecordedThreads
  <2>5. Typed' /\ Clocks' /\ TablesBounded'
    BY <1>1, <2>1, <2>4 DEF IInv, Typed, Clocks, TablesBounded
  <2>6. LossesLater'
    BY <1>1, <2>4 DEF IInv, LossesLater
  <2>7. AddressHonest' /\ AddressKept'
    <3>1. \A d \in DOMAIN call : call'[d].pc = "failure" <=> call[d].pc = "failure"
      BY <1>1, <2>4
    <3>. QED
      BY <1>1, <2>4, <3>1, AddressesStay
  <2>8. \A d \in DOMAIN call : InAccount(d)' <=> InAccount(d)
    <3> SUFFICES ASSUME NEW d \in DOMAIN call PROVE InAccount(d)' <=> InAccount(d)
      OBVIOUS
    <3>1. CASE d = c
      <4>1. call[d].acct \notin Accounts /\ call'[d].acct \notin Accounts
        BY <1>2, <1>4, <2>4, <3>1, Limits
      <4>. QED
        BY <4>1 DEF InAccount
    <3>2. CASE d # c
      <4>1. /\ call'[d].pc = call[d].pc /\ (call'[d].lost <=> call[d].lost)
            /\ call'[d].acct = call[d].acct
        BY <2>4, <3>2
      <4>. QED
        BY <4>1 DEF InAccount
    <3>. QED
      BY <3>1, <3>2
  <2>9. AccountHonest'
    <3> SUFFICES ASSUME NEW k \in DOMAIN accState, NEW x \in accState[k]
                 PROVE  /\ x.call \in DOMAIN call' /\ x.at = call'[x.call].at
                        /\ call'[x.call].acct = k /\ InAccount(x.call)'
      BY <2>1 DEF AccountHonest
    <3>1. /\ x.call \in DOMAIN call /\ x.at = call[x.call].at
          /\ call[x.call].acct = k /\ InAccount(x.call)
      BY DEF IInv, Memory, AccountHonest
    <3>. QED
      BY <2>4, <2>8, <3>1
  <2>10. AccountKept'
    BY <2>1, <2>4, <2>8 DEF IInv, Memory, AccountKept, Stamp
  <2>. QED
    BY <2>5, <2>6, <2>7, <2>9, <2>10 DEF IInv, Memory
<1>5. CASE a # NoAccount
  <2>1. PICK table \in AfterLimit(accState, maxAccountSize) :
          /\ accState' = Put(table, a, (IF a \in DOMAIN table THEN table[a] ELSE {})
                                         \cup {Stamp(c)})
          /\ call' = [Lost(call, DOMAIN accState \ DOMAIN table) EXCEPT ![c].pc = "recorded"]
    BY <1>2, <1>5 DEF RecordForAccount, Stamp
  <2>2. PICK S : S = DOMAIN accState \ DOMAIN table
    OBVIOUS
  <2>3. PICK w : w = Lost(call, S)
    OBVIOUS
  <2>4. call' = [w EXCEPT ![c].pc = "recorded"]
    BY <2>1, <2>2, <2>3
  <2>5. a \in Accounts
    BY <1>3, <1>5
  <2>6. /\ DOMAIN call' = DOMAIN call
        /\ \A d \in DOMAIN call :
             /\ call'[d] \in Thread
             /\ call'[d].ip = call[d].ip /\ call'[d].acct = call[d].acct
             /\ call'[d].at = call[d].at /\ call'[d].void = call[d].void
        /\ \A d \in DOMAIN call : d # c =>
             /\ call'[d].pc = call[d].pc
             /\ call'[d].lost <=> call[d].lost \/ (/\ call[d].acct \in S
                                                   /\ call[d].pc \in {"recorded", "failure"})
        /\ call'[c].pc = "recorded" /\ ~call'[c].lost
    BY <1>1, <2>3, <2>4, RecordedThreads
  <2>7. accState' = Put(table, a, (IF a \in DOMAIN table THEN table[a] ELSE {}) \cup {Stamp(c)})
    BY <2>1
  <2>. QED
    BY <1>1, <1>2, <2>2, <2>5, <2>6, <2>7, AccountPushed
<1>. QED
  BY <1>4, <1>5

\* Any entry that a failure leaves holds the stamps of the window of the thread's
\* own clock, and its own.
LEMMA EntryHolds ==
  ASSUME NEW e, "attempts" \in DOMAIN e, NEW c, NEW entry \in EntriesAfterFailure(e, c)
  PROVE  /\ "attempts" \in DOMAIN entry
         /\ entry.attempts = Recent(e.attempts, call[c].at) \cup {Stamp(c)}
<1> DEFINE attempts == Recent(e.attempts, call[c].at) \cup {Stamp(c)}
           count    == e.blockCount + 1
<1>1. CASE Cardinality(attempts) >= maxAttempts
  <2>1. PICK d : entry = [attempts |-> attempts, blockCount |-> count,
                          blockUntil |-> call[c].at + d]
    BY <1>1 DEF EntriesAfterFailure, Stamp
  <2>. QED
    BY <2>1
<1>2. CASE ~(Cardinality(attempts) >= maxAttempts)
  <2>1. entry = [e EXCEPT !.attempts = attempts]
    BY <1>2 DEF EntriesAfterFailure, Stamp
  <2>. QED
    BY <2>1
<1>. QED
  BY <1>1, <1>2

\* The table of addresses after a failure, with what it lost.
LEMMA AddressPushed ==
  ASSUME GuardAssumption, IInv, NEW c \in DOMAIN call, call[c].pc = "recorded",
         NEW ip \in IPs, ip = call[c].ip, UNCHANGED <<now, accState>>,
         NEW table \in AfterLimit(ipState, maxStateSize),
         NEW entry, "attempts" \in DOMAIN entry, NEW old,
         ip \in DOMAIN table => old = table[ip].attempts,
         ip \notin DOMAIN table => old = {},
         entry.attempts = Recent(old, call[c].at) \cup {Stamp(c)},
         ipState' = Put(table, ip, entry),
         NEW S, S = DOMAIN ipState \ DOMAIN table,
         DOMAIN call' = DOMAIN call,
         \A d \in DOMAIN call :
           /\ call'[d] \in Thread
           /\ call'[d].ip = call[d].ip /\ call'[d].acct = call[d].acct
           /\ call'[d].at = call[d].at /\ call'[d].lost = call[d].lost,
         \A d \in DOMAIN call : d # c =>
           /\ call'[d].pc = call[d].pc
           /\ call'[d].void <=> call[d].void \/ (call[d].ip \in S /\ call[d].pc = "failure"),
         call'[c].pc = "failure", ~call'[c].void
  PROVE  IInv'
<1>1. /\ IsFiniteSet(DOMAIN ipState) /\ Cardinality(DOMAIN ipState) <= maxStateSize
      /\ maxStateSize \in Nat \ {0}
  BY Limits DEF IInv, Typed, TablesBounded
<1>2. /\ DOMAIN table \subseteq DOMAIN ipState /\ IsFiniteSet(DOMAIN table)
      /\ \A k \in DOMAIN table : table[k] = ipState[k]
      /\ Cardinality(DOMAIN table) <= maxStateSize - 1
  BY <1>1, RoomMade
<1>3. /\ DOMAIN ipState' = DOMAIN table \cup {ip}
      /\ ipState'[ip] = entry
      /\ \A k \in DOMAIN table : k # ip => ipState'[k] = ipState[k]
  BY <1>2 DEF Put
<1>4. IsFiniteSet(DOMAIN ipState') /\ Cardinality(DOMAIN ipState') <= maxStateSize
  BY <1>1, <1>2, RoomUsed
<1>5. /\ ip \in DOMAIN table => old = ipState[ip].attempts
      /\ ip \notin DOMAIN table => old = {}
  BY <1>2
<1>6. /\ entry.attempts \subseteq old \cup {Stamp(c)}
      /\ \A x \in old : call[c].at - x.at < windowMs => x \in entry.attempts
      /\ Stamp(c) \in entry.attempts
  BY DEF Recent
<1>7. \A k : k \in S <=> k \in DOMAIN ipState /\ k \notin DOMAIN table
  OBVIOUS
<1>9. Stamp(c) \in Attempt /\ Stamp(c).call = c /\ Stamp(c).at = call[c].at
  BY ThreadFields DEF IInv, Typed, Stamp, Attempt
<1>10. Typed'
  <2>1. /\ DOMAIN ipState \subseteq IPs
        /\ \A k \in DOMAIN ipState : /\ "attempts" \in DOMAIN ipState[k]
                                     /\ ipState[k].attempts \subseteq Attempt
    BY DEF IInv, Typed
  <2>2. entry.attempts \subseteq Attempt
    BY <1>2, <1>5, <1>6, <1>9, <2>1
  <2>3. DOMAIN ipState' \subseteq IPs
    BY <1>2, <1>3, <2>1
  <2>4. \A k \in DOMAIN ipState' : /\ "attempts" \in DOMAIN ipState'[k]
                                   /\ ipState'[k].attempts \subseteq Attempt
    <3> SUFFICES ASSUME NEW k \in DOMAIN ipState'
                 PROVE  "attempts" \in DOMAIN ipState'[k] /\ ipState'[k].attempts \subseteq Attempt
      OBVIOUS
    <3>1. CASE k = ip
      BY <1>3, <2>2, <3>1
    <3>2. CASE k # ip
      BY <1>2, <1>3, <2>1, <3>2
    <3>. QED
      BY <3>1, <3>2
  <2>. QED
    BY <1>4, <2>3, <2>4 DEF IInv, Typed
<1>11. Clocks' /\ TablesBounded'
  BY <1>4 DEF IInv, Clocks, TablesBounded
<1>12. LossesLater'
  BY DEF IInv, LossesLater
<1>13. AccountHonest' /\ AccountKept'
  <2>1. \A d \in DOMAIN call : call'[d].pc \in {"recorded", "failure"}
                                 <=> call[d].pc \in {"recorded", "failure"}
    OBVIOUS
  <2>. QED
    BY <2>1, AccountsStay
<1>14. AddressHonest'
  <2> SUFFICES ASSUME NEW k \in DOMAIN ipState', NEW x \in ipState'[k].attempts
               PROVE  /\ x.call \in DOMAIN call' /\ x.at = call'[x.call].at
                      /\ call'[x.call].ip = k /\ InAddress(x.call)'
    BY DEF AddressHonest
  <2>1. CASE k = ip /\ x = Stamp(c)
    BY <1>9, <2>1 DEF InAddress
  <2>2. CASE ~(k = ip /\ x = Stamp(c))
    <3>1. k \in DOMAIN table /\ k \notin S /\ x \in ipState[k].attempts
      <4>1. CASE k = ip
        <5>1. x \in old
          BY <1>3, <1>6, <2>2, <4>1
        <5>. QED
          BY <1>5, <1>7, <4>1, <5>1
      <4>2. CASE k # ip
        BY <1>3, <1>7, <4>2
      <4>. QED
        BY <4>1, <4>2
    <3>2. /\ x.call \in DOMAIN call /\ x.at = call[x.call].at
          /\ call[x.call].ip = k /\ InAddress(x.call)
      BY <1>2, <3>1 DEF IInv, Memory, AddressHonest
    <3>3. x.call # c
      BY <3>2 DEF InAddress
    <3>. QED
      BY <3>1, <3>2, <3>3 DEF InAddress
  <2>. QED
    BY <2>1, <2>2
<1>15. AddressKept'
  <2> SUFFICES ASSUME NEW d \in DOMAIN call, InAddress(d)', now - call'[d].at < windowMs
               PROVE  /\ call'[d].ip \in DOMAIN ipState'
                      /\ Stamp(d)' \in ipState'[call'[d].ip].attempts
    BY DEF AddressKept
  <2>1. Stamp(d)' = Stamp(d) /\ call'[d].ip = call[d].ip /\ now - call[d].at < windowMs
    BY DEF Stamp
  <2>2. PICK k : k = call[d].ip
    OBVIOUS
  <2>3. CASE d = c
    BY <1>3, <1>6, <2>1, <2>3
  <2>4. CASE d # c
    <3>1. InAddress(d) /\ k \notin S
      BY <2>2, <2>4 DEF InAddress
    <3>2. k \in DOMAIN ipState /\ Stamp(d) \in ipState[k].attempts
      BY <2>1, <2>2, <3>1 DEF IInv, Memory, AddressKept
    <3>3. k \in DOMAIN table
      BY <1>7, <3>1, <3>2
    <3>4. k \in DOMAIN ipState' /\ Stamp(d) \in ipState'[k].attempts
      <4>1. CASE k # ip
        BY <1>3, <3>2, <3>3, <4>1
      <4>2. CASE k = ip
        <5>1. Stamp(d) \in old
          BY <1>5, <3>2, <3>3, <4>2
        <5>2. /\ call[c].at \in Nat /\ call[d].at \in Nat /\ now \in Nat
              /\ call[c].at <= now /\ windowMs \in Nat /\ Stamp(d).at = call[d].at
          BY ThreadFields, Limits DEF IInv, Typed, Clocks, Stamp
        <5>3. call[c].at - Stamp(d).at < windowMs
          BY <2>1, <5>2
        <5>. QED
          BY <1>3, <1>6, <4>2, <5>1, <5>3
      <4>. QED
        BY <4>1, <4>2
    <3>. QED
      BY <2>1, <2>2, <3>4
  <2>. QED
    BY <2>3, <2>4
<1>. QED
  BY <1>10, <1>11, <1>12, <1>13, <1>14, <1>15 DEF IInv, Memory

LEMMA RecordForIPKeeps ==
  ASSUME GuardAssumption, IInv, NEW c \in Calls, RecordForIP(c)
  PROVE  IInv'
<1>1. c \in DOMAIN call /\ call[c].pc = "recorded" /\ UNCHANGED <<now, accState>>
  BY DEF RecordForIP, At
<1>2. PICK ip : ip = call[c].ip
  OBVIOUS
<1>3. ip \in IPs
  BY <1>1, <1>2, ThreadFields DEF IInv, Typed
<1>4. PICK table \in AfterLimit(ipState, maxStateSize) :
        LET e == IF ip \in DOMAIN table THEN table[ip]
                 ELSE [attempts |-> {}, blockUntil |-> 0, blockCount |-> 0]
        IN  /\ \E entry \in EntriesAfterFailure(e, c) : ipState' = Put(table, ip, entry)
            /\ call' = [Wiped(call, DOMAIN ipState \ DOMAIN table) EXCEPT ![c].pc = "failure"]
  BY <1>2 DEF RecordForIP
<1>5. PICK e : /\ ip \in DOMAIN table => e = table[ip]
               /\ ip \notin DOMAIN table
                    => e = [attempts |-> {}, blockUntil |-> 0, blockCount |-> 0]
               /\ \E entry \in EntriesAfterFailure(e, c) : ipState' = Put(table, ip, entry)
  BY <1>4
<1>6. PICK entry \in EntriesAfterFailure(e, c) : ipState' = Put(table, ip, entry)
  BY <1>5
<1>7. "attempts" \in DOMAIN e
  <2>1. /\ IsFiniteSet(DOMAIN ipState) /\ Cardinality(DOMAIN ipState) <= maxStateSize
        /\ maxStateSize \in Nat \ {0}
    BY Limits DEF IInv, Typed, TablesBounded
  <2>2. CASE ip \in DOMAIN table
    <3>1. ip \in DOMAIN ipState /\ table[ip] = ipState[ip]
      BY <2>1, <2>2, RoomMade
    <3>. QED
      BY <1>5, <2>2, <3>1 DEF IInv, Typed
  <2>3. CASE ip \notin DOMAIN table
    BY <1>5, <2>3
  <2>. QED
    BY <2>2, <2>3
<1>8. /\ "attempts" \in DOMAIN entry
      /\ entry.attempts = Recent(e.attempts, call[c].at) \cup {Stamp(c)}
  BY <1>6, <1>7, EntryHolds
<1>9. PICK old : old = e.attempts
  OBVIOUS
<1>10. /\ ip \in DOMAIN table => old = table[ip].attempts
       /\ ip \notin DOMAIN table => old = {}
  BY <1>5, <1>9
<1>11. PICK S : S = DOMAIN ipState \ DOMAIN table
  OBVIOUS
<1>12. PICK w : w = Wiped(call, S)
  OBVIOUS
<1>13. call' = [w EXCEPT ![c].pc = "failure"]
  BY <1>4, <1>11, <1>12
<1>14. /\ DOMAIN call' = DOMAIN call
       /\ \A d \in DOMAIN call :
            /\ call'[d] \in Thread
            /\ call'[d].ip = call[d].ip /\ call'[d].acct = call[d].acct
            /\ call'[d].at = call[d].at /\ call'[d].lost = call[d].lost
       /\ \A d \in DOMAIN call : d # c =>
            /\ call'[d].pc = call[d].pc
            /\ call'[d].void <=> call[d].void \/ (call[d].ip \in S /\ call[d].pc = "failure")
       /\ call'[c].pc = "failure" /\ ~call'[c].void
  BY <1>1, <1>12, <1>13, FailedThreads
<1>. QED
  BY <1>1, <1>2, <1>3, <1>6, <1>8, <1>9, <1>10, <1>11, <1>14, AddressPushed

-----------------------------------------------------------------------------
LEMMA InvNext ==
  ASSUME GuardAssumption, IInv, [Next]_vars
  PROVE  IInv'
<1>1. ASSUME NEW c \in Calls, NEW ip \in IPs, NEW acct \in Accounts \cup {NoAccount},
             Check(c, ip, acct)
      PROVE  IInv'
  BY <1>1, CheckKeeps
<1>2. ASSUME NEW c \in Calls, CheckAccount(c)
      PROVE  IInv'
  BY <1>2, CheckAccountKeeps
<1>3. ASSUME NEW c \in Calls, Respond(c, "failed") \/ Respond(c, "passed")
      PROVE  IInv'
  BY <1>3, RespondKeeps
<1>4. ASSUME NEW c \in Calls, RecordForAccount(c)
      PROVE  IInv'
  BY <1>4, RecordForAccountKeeps
<1>5. ASSUME NEW c \in Calls, RecordForIP(c)
      PROVE  IInv'
  BY <1>5, RecordForIPKeeps
<1>6. ASSUME NEW c \in Calls, RecordSuccess(c)
      PROVE  IInv'
  BY <1>6, RecordSuccessKeeps
<1>7. ASSUME NEW ip \in IPs, Reset(ip)
      PROVE  IInv'
  BY <1>7, ResetKeeps
<1>8. CASE Tick
  BY <1>8, TickKeeps
<1>9. CASE UNCHANGED vars
  BY <1>9 DEF vars, IInv, Typed, Clocks, LossesLater, Memory, AccountHonest, AccountKept,
              AddressHonest, AddressKept, InAccount, InAddress, Stamp, TablesBounded
<1>. QED
  BY <1>1, <1>2, <1>3, <1>4, <1>5, <1>6, <1>7, <1>8, <1>9 DEF Next

LEMMA InvMemory ==
  ASSUME IInv
  PROVE  LoginsRemembered
<1>1. /\ DOMAIN call \subseteq Calls /\ DOMAIN accState \subseteq Accounts
      /\ DOMAIN ipState \subseteq IPs
  BY DEF IInv, Typed
<1>2. AccountMemory
  <2> SUFFICES ASSUME NEW a \in Accounts
               PROVE  (IF a \in DOMAIN accState THEN {x.call : x \in Recent(accState[a], now)}
                       ELSE {})
                        = {c \in Calls : /\ At(c, "recorded") \/ At(c, "failure")
                                         /\ call[c].acct = a /\ ~call[c].lost
                                         /\ now - call[c].at < windowMs}
    BY DEF AccountMemory
  <2>1. ASSUME NEW c \in Calls, At(c, "recorded") \/ At(c, "failure"),
               call[c].acct = a, ~call[c].lost, now - call[c].at < windowMs
        PROVE  a \in DOMAIN accState /\ c \in {x.call : x \in Recent(accState[a], now)}
    <3>1. c \in DOMAIN call /\ InAccount(c)
      BY <2>1 DEF At, InAccount
    <3>2. a \in DOMAIN accState /\ Stamp(c) \in accState[a]
      BY <2>1, <3>1 DEF IInv, Memory, AccountKept
    <3>3. Stamp(c).call = c /\ Stamp(c).at = call[c].at
      BY DEF Stamp
    <3>. QED
      BY <2>1, <3>2, <3>3 DEF Recent
  <2>2. ASSUME a \in DOMAIN accState, NEW x \in Recent(accState[a], now)
        PROVE  /\ x.call \in Calls
               /\ At(x.call, "recorded") \/ At(x.call, "failure")
               /\ call[x.call].acct = a /\ ~call[x.call].lost
               /\ now - call[x.call].at < windowMs
    <3>1. x \in accState[a] /\ now - x.at < windowMs
      BY DEF Recent
    <3>2. /\ x.call \in DOMAIN call /\ x.at = call[x.call].at
          /\ call[x.call].acct = a /\ InAccount(x.call)
      BY <2>2, <3>1 DEF IInv, Memory, AccountHonest
    <3>. QED
      BY <1>1, <3>1, <3>2 DEF At, InAccount
  <2> DEFINE R == {c \in Calls : /\ At(c, "recorded") \/ At(c, "failure")
                                 /\ call[c].acct = a /\ ~call[c].lost
                                 /\ now - call[c].at < windowMs}
  <2>3. \A c \in R : a \in DOMAIN accState /\ c \in {x.call : x \in Recent(accState[a], now)}
    BY <2>1
  <2>4. ASSUME a \in DOMAIN accState
        PROVE  \A x \in Recent(accState[a], now) : x.call \in R
    <3> SUFFICES ASSUME NEW x \in Recent(accState[a], now)
                 PROVE  x.call \in R
      OBVIOUS
    <3>1. /\ x.call \in Calls
          /\ At(x.call, "recorded") \/ At(x.call, "failure")
          /\ call[x.call].acct = a /\ ~call[x.call].lost
          /\ now - call[x.call].at < windowMs
      BY <2>2, <2>4
    <3>. QED
      BY <3>1
  <2>. HIDE DEF R
  <2>5. (IF a \in DOMAIN accState THEN {x.call : x \in Recent(accState[a], now)} ELSE {}) = R
    BY <2>3, <2>4
  <2>. QED
    BY <2>5 DEF R
<1>3. IpMemory
  <2> SUFFICES ASSUME NEW ip \in IPs
               PROVE  (IF ip \in DOMAIN ipState
                       THEN {x.call : x \in Recent(ipState[ip].attempts, now)} ELSE {})
                        = {c \in Calls : /\ At(c, "failure") /\ ~call[c].void
                                         /\ call[c].ip = ip /\ now - call[c].at < windowMs}
    BY DEF IpMemory
  <2>1. ASSUME NEW c \in Calls, At(c, "failure"), ~call[c].void,
               call[c].ip = ip, now - call[c].at < windowMs
        PROVE  ip \in DOMAIN ipState /\ c \in {x.call : x \in Recent(ipState[ip].attempts, now)}
    <3>1. c \in DOMAIN call /\ InAddress(c)
      BY <2>1 DEF At, InAddress
    <3>2. ip \in DOMAIN ipState /\ Stamp(c) \in ipState[ip].attempts
      BY <2>1, <3>1 DEF IInv, Memory, AddressKept
    <3>3. Stamp(c).call = c /\ Stamp(c).at = call[c].at
      BY DEF Stamp
    <3>. QED
      BY <2>1, <3>2, <3>3 DEF Recent
  <2>2. ASSUME ip \in DOMAIN ipState, NEW x \in Recent(ipState[ip].attempts, now)
        PROVE  /\ x.call \in Calls /\ At(x.call, "failure") /\ ~call[x.call].void
               /\ call[x.call].ip = ip /\ now - call[x.call].at < windowMs
    <3>1. x \in ipState[ip].attempts /\ now - x.at < windowMs
      BY DEF Recent
    <3>2. /\ x.call \in DOMAIN call /\ x.at = call[x.call].at
          /\ call[x.call].ip = ip /\ InAddress(x.call)
      BY <2>2, <3>1 DEF IInv, Memory, AddressHonest
    <3>. QED
      BY <1>1, <3>1, <3>2 DEF At, InAddress
  <2>. QED
    BY <2>1, <2>2
<1>. QED
  BY <1>2, <1>3 DEF LoginsRemembered

-----------------------------------------------------------------------------
\* Whatever threads share the guard, and whichever clocks they have read, an account
\* and an address hold exactly the failed logins of the window that no success, reset
\* or eviction has taken (recordResponse).
THEOREM Remembers ==
  ASSUME GuardAssumption
  PROVE  Spec => []LoginsRemembered
<1>1. Init => IInv
  BY InvInit
<1>2. IInv /\ [Next]_vars => IInv'
  BY InvNext
<1>3. IInv => LoginsRemembered
  BY InvMemory
<1>. QED
  BY <1>1, <1>2, <1>3, PTL DEF Spec

-----------------------------------------------------------------------------
(* The lengths of blocks.                                                  *)

\* The block that a count earns, where no cast spoils it.
Capped(count) ==
  IF Backoff(count) <= maxBlockDurationMs THEN Backoff(count) ELSE maxBlockDurationMs

\* What the library says of the powers of two: positive, and no smaller for a
\* larger exponent.
LEMMA PowersGrow ==
  ASSUME NEW m \in Nat, NEW n \in Nat, m <= n
  PROVE  2 ^ m \in Nat \ {0} /\ 2 ^ n \in Nat \ {0} /\ 2 ^ m <= 2 ^ n
<1>1. /\ IsFiniteSet(1..m) /\ Cardinality(1..m) = m
      /\ IsFiniteSet(1..n) /\ Cardinality(1..n) = n
  BY FS_Interval
<1>2. /\ IsFiniteSet(SUBSET (1..m)) /\ Cardinality(SUBSET (1..m)) = 2 ^ m
      /\ IsFiniteSet(SUBSET (1..n)) /\ Cardinality(SUBSET (1..n)) = 2 ^ n
  BY <1>1, FS_SUBSET
<1>3. 2 ^ m \in Nat /\ 2 ^ n \in Nat
  BY <1>2, FS_CardinalityType
<1>4. SUBSET (1..m) \subseteq SUBSET (1..n) /\ {} \in SUBSET (1..m)
  OBVIOUS
<1>5. 2 ^ m <= 2 ^ n
  BY <1>2, <1>4, FS_Subset
<1>6. 2 ^ m # 0
  BY <1>2, <1>4, FS_EmptySet
<1>. QED
  BY <1>3, <1>5, <1>6

\* The backoff of a count is positive, and grows with the count.
LEMMA BackoffGrows ==
  ASSUME GuardAssumption, NEW m \in Nat \ {0}, NEW n \in Nat \ {0}, m <= n
  PROVE  /\ Backoff(m) \in Nat \ {0} /\ Backoff(n) \in Nat \ {0}
         /\ Backoff(m) <= Backoff(n)
<1>1. PICK p, q : p = 2 ^ (m - 1) /\ q = 2 ^ (n - 1)
  OBVIOUS
<1>2. p \in Nat \ {0} /\ q \in Nat \ {0} /\ p <= q
  BY <1>1, PowersGrow
<1>3. PICK d : d = blockDurationMs
  OBVIOUS
<1>4. d \in Nat \ {0}
  BY <1>3 DEF GuardAssumption
<1>5. /\ d * p \in Nat \ {0} /\ d * q \in Nat \ {0} /\ d * p <= d * q /\ d * 1 = d
  BY <1>2, <1>4
<1>6. /\ Backoff(m) = IF progressiveBackoff THEN d * p ELSE d * 1
      /\ Backoff(n) = IF progressiveBackoff THEN d * q ELSE d * 1
  BY <1>1, <1>3 DEF Backoff
<1>. QED
  BY <1>4, <1>5, <1>6

\* A block lasts no longer than its cap, and exactly that long unless the cast of
\* a double that does not fit yields the least integer; a further one no less.
LEMMA Lengths ==
  ASSUME GuardAssumption, NEW m \in Nat \ {0}, NEW n \in Nat \ {0}, m <= n
  PROVE  /\ Capped(m) \in Nat \ {0} /\ Capped(n) \in Nat \ {0}
         /\ Capped(m) <= Capped(n) /\ Capped(n) <= maxBlockDurationMs
         /\ \A d \in BlockLengths(n) :
              /\ d = Capped(n) \/ d = -(MaxInt + 1)
              /\ Backoff(n) <= MaxInt => d = Capped(n)
<1>1. /\ Backoff(m) \in Nat \ {0} /\ Backoff(n) \in Nat \ {0}
      /\ Backoff(m) <= Backoff(n)
  BY BackoffGrows
<1>2. /\ maxBlockDurationMs \in Nat \ {0} /\ MaxInt \in Nat /\ MaxTime \in Nat
      /\ maxBlockDurationMs <= MaxInt
  BY DEF GuardAssumption
<1>3. /\ Capped(m) \in Nat \ {0} /\ Capped(n) \in Nat \ {0}
      /\ Capped(m) <= Capped(n) /\ Capped(n) <= maxBlockDurationMs
  BY <1>1, <1>2 DEF Capped
<1>4. ASSUME NEW d \in BlockLengths(n)
      PROVE  /\ d = Capped(n) \/ d = -(MaxInt + 1)
             /\ Backoff(n) <= MaxInt => d = Capped(n)
  <2>1. PICK k : /\ \/ Backoff(n) <= MaxInt /\ k = Backoff(n)
                    \/ ~(Backoff(n) <= MaxInt) /\ k \in {-(MaxInt + 1), MaxInt}
                 /\ d = IF k <= maxBlockDurationMs THEN k ELSE maxBlockDurationMs
    BY <1>4 DEF BlockLengths
  <2>. QED
    BY <1>1, <1>2, <2>1 DEF Capped
<1>. QED
  BY <1>3, <1>4

-----------------------------------------------------------------------------
(* The blocks on record.                                                   *)

\* A block on record, if it is one, was counted and ends no later than one of its
\* count imposed at time t would.
Reaches(e, t) ==
  e.blockUntil > 0 => e.blockCount >= 1 /\ e.blockUntil <= t + Capped(e.blockCount)

BlocksInv ==
  /\ now <= MaxTime
  /\ \A ip \in DOMAIN ipState : ipState[ip] \in IpEntry /\ Reaches(ipState[ip], now)

\* The entry that a failure leaves: its block is imposed, or stays as it was.
LEMMA FailureEntry ==
  ASSUME GuardAssumption, IInv, now <= MaxTime, NEW c \in DOMAIN call,
         NEW e \in IpEntry, Reaches(e, now), NEW entry \in EntriesAfterFailure(e, c)
  PROVE  /\ entry \in IpEntry /\ Reaches(entry, now)
         /\ \/ entry.blockUntil = e.blockUntil
            \/ entry.blockUntil = call[c].at + Capped(e.blockCount + 1)
            \/ Backoff(e.blockCount + 1) > MaxInt
<1> DEFINE attempts == Recent(e.attempts, call[c].at) \cup {[call |-> c, at |-> call[c].at]}
<1>1. /\ e.blockCount \in Nat /\ e.attempts \subseteq Attempt
      /\ e.blockUntil \in -(MaxInt + 1)..MaxInt
  BY DEF IpEntry
<1>2. PICK t, n : t = call[c].at /\ n = e.blockCount + 1
  OBVIOUS
<1>3. c \in Calls /\ t \in Nat /\ t <= now /\ now \in Nat /\ n \in Nat \ {0}
  BY <1>1, <1>2, ThreadFields DEF IInv, Typed, Clocks
<1>4. attempts \in SUBSET Attempt
  BY <1>1, <1>2, <1>3 DEF Attempt, Recent
<1>5. CASE Cardinality(attempts) >= maxAttempts
  <2>1. PICK d \in BlockLengths(n) :
          entry = [attempts |-> attempts, blockCount |-> n, blockUntil |-> t + d]
    BY <1>2, <1>5 DEF EntriesAfterFailure
  <2>2. /\ Capped(n) \in Nat \ {0} /\ Capped(n) <= maxBlockDurationMs
        /\ d = Capped(n) \/ d = -(MaxInt + 1)
        /\ Backoff(n) <= MaxInt => d = Capped(n)
    BY <1>3, Lengths
  <2>3. /\ maxBlockDurationMs \in Nat \ {0} /\ MaxInt \in Nat /\ MaxTime \in Nat
        /\ maxBlockDurationMs + MaxTime <= MaxInt
    BY DEF GuardAssumption
  <2>4. t + d \in -(MaxInt + 1)..MaxInt /\ (t + d > 0 => t + d <= now + Capped(n))
    BY <1>3, <2>2, <2>3
  <2>5. Backoff(n) \in Nat
    BY <1>3, BackoffGrows
  <2>6. /\ entry.attempts = attempts /\ entry.blockCount = n /\ entry.blockUntil = t + d
        /\ entry \in IpEntry
    BY <1>3, <1>4, <2>1, <2>4 DEF IpEntry
  <2>. HIDE DEF attempts
  <2>. QED
    BY <1>2, <1>3, <2>2, <2>3, <2>4, <2>5, <2>6 DEF Reaches
<1>6. CASE ~(Cardinality(attempts) >= maxAttempts)
  <2>1. entry = [e EXCEPT !.attempts = attempts]
    BY <1>6 DEF EntriesAfterFailure
  <2>2. /\ entry \in IpEntry
        /\ entry.blockUntil = e.blockUntil /\ entry.blockCount = e.blockCount
    BY <1>4, <2>1 DEF IpEntry
  <2>. QED
    BY <2>2 DEF Reaches
<1>. QED
  BY <1>5, <1>6

\* What a step does to the entry of an address.
EntryFate(ip) ==
  \/ ip \in DOMAIN ipState /\ ipState'[ip] = ipState[ip]
  \/ \E c \in Calls, e \in IpEntry :
       /\ RecordForIP(c) /\ c \in DOMAIN call /\ call[c].ip = ip /\ now' = now
       /\ Reaches(e, now) /\ ipState'[ip] \in EntriesAfterFailure(e, c)
       /\ \/ ip \in DOMAIN ipState /\ e = ipState[ip]
          \/ ip \notin DOMAIN ipState
          \/ Cardinality(DOMAIN ipState) >= maxStateSize

LEMMA RecordFate ==
  ASSUME GuardAssumption, IInv, BlocksInv, NEW c \in Calls, RecordForIP(c),
         NEW ip \in DOMAIN ipState'
  PROVE  EntryFate(ip)
<1>1. c \in DOMAIN call /\ now' = now
  BY DEF RecordForIP, At
<1>2. PICK a : a = call[c].ip
  OBVIOUS
<1>3. PICK table \in AfterLimit(ipState, maxStateSize) :
        \E entry \in EntriesAfterFailure(
              IF a \in DOMAIN table THEN table[a]
              ELSE [attempts |-> {}, blockUntil |-> 0, blockCount |-> 0], c) :
          ipState' = Put(table, a, entry)
  BY <1>2 DEF RecordForIP
<1>4. PICK e : /\ a \in DOMAIN table => e = table[a]
               /\ a \notin DOMAIN table
                    => e = [attempts |-> {}, blockUntil |-> 0, blockCount |-> 0]
               /\ \E entry \in EntriesAfterFailure(e, c) : ipState' = Put(table, a, entry)
  BY <1>3
<1>5. PICK entry \in EntriesAfterFailure(e, c) : ipState' = Put(table, a, entry)
  BY <1>4
<1>6. /\ DOMAIN table \subseteq DOMAIN ipState
      /\ \A k \in DOMAIN table : table[k] = ipState[k]
      /\ \A k \in DOMAIN ipState :
           k \in DOMAIN table \/ Cardinality(DOMAIN ipState) >= maxStateSize
  BY DEF AfterLimit, Drop
<1>7. /\ DOMAIN ipState' = DOMAIN table \cup {a} /\ ipState'[a] = entry
      /\ \A k \in DOMAIN table : k # a => ipState'[k] = table[k]
  BY <1>5 DEF Put
<1>8. CASE ip # a
  BY <1>6, <1>8, <1>7 DEF EntryFate
<1>9. CASE ip = a
  <2>1. ipState'[ip] = entry
    BY <1>9, <1>7
  <2>2. e \in IpEntry /\ Reaches(e, now)
    <3>1. CASE a \in DOMAIN table
      BY <1>4, <1>6, <3>1 DEF BlocksInv
    <3>2. CASE a \notin DOMAIN table
      <4>1. e = [attempts |-> {}, blockUntil |-> 0, blockCount |-> 0]
        BY <1>4, <3>2
      <4>2. 0 \in -(MaxInt + 1)..MaxInt
        BY DEF GuardAssumption
      <4>. QED
        BY <4>1, <4>2 DEF IpEntry, Reaches
    <3>. QED
      BY <3>1, <3>2
  <2>3. \/ ip \in DOMAIN ipState /\ e = ipState[ip]
        \/ ip \notin DOMAIN ipState
        \/ Cardinality(DOMAIN ipState) >= maxStateSize
    BY <1>4, <1>6, <1>9
  <2>. QED
    BY <1>1, <1>2, <1>5, <1>9, <2>1, <2>2, <2>3 DEF EntryFate
<1>. QED
  BY <1>8, <1>9

LEMMA Fates ==
  ASSUME GuardAssumption, IInv, BlocksInv, [Next]_vars, NEW ip \in DOMAIN ipState'
  PROVE  EntryFate(ip)
<1>1. ASSUME NEW c \in Calls, RecordForIP(c)
      PROVE  EntryFate(ip)
  BY <1>1, RecordFate
<1>2. ASSUME UNCHANGED ipState
      PROVE  EntryFate(ip)
  BY <1>2 DEF EntryFate
<1>3. ASSUME NEW a, ipState' = Drop(ipState, {a})
      PROVE  EntryFate(ip)
  BY <1>3 DEF EntryFate, Drop
<1>. QED
  BY <1>1, <1>2, <1>3
     DEF Next, vars, Check, CheckAccount, Respond, RecordForAccount, RecordSuccess, Reset, Tick

LEMMA BlocksKeep ==
  ASSUME GuardAssumption, IInv, BlocksInv, [Next]_vars
  PROVE  BlocksInv'
<1>1. now' \in {now, now + 1} /\ now' <= MaxTime
  <2>1. now' = now \/ Tick
    BY DEF Next, vars, Check, CheckAccount, Respond, RecordForAccount, RecordForIP,
           RecordSuccess, Reset
  <2>. QED
    BY <2>1 DEF Tick, BlocksInv, IInv, Typed, GuardAssumption
<1>2. ASSUME NEW ip \in DOMAIN ipState'
      PROVE  ipState'[ip] \in IpEntry /\ Reaches(ipState'[ip], now')
  <2>1. CASE ip \in DOMAIN ipState /\ ipState'[ip] = ipState[ip]
    <3>1. PICK e : e = ipState[ip] /\ e \in IpEntry /\ Reaches(e, now)
      BY <2>1 DEF BlocksInv
    <3>2. e.blockUntil \in Int /\ e.blockCount \in Nat /\ now \in Nat
      BY <3>1 DEF IpEntry, IInv, Typed, GuardAssumption
    <3>3. e.blockCount >= 1 => Capped(e.blockCount) \in Nat
      BY <3>2, Lengths
    <3>. QED
      BY <1>1, <2>1, <3>1, <3>2, <3>3 DEF Reaches
  <2>2. CASE \E c \in Calls, e \in IpEntry :
               /\ RecordForIP(c) /\ c \in DOMAIN call /\ call[c].ip = ip /\ now' = now
               /\ Reaches(e, now) /\ ipState'[ip] \in EntriesAfterFailure(e, c)
    BY <2>2, FailureEntry DEF BlocksInv
  <2>. QED
    BY <1>2, <2>1, <2>2, Fates DEF EntryFate
<1>. QED
  BY <1>1, <1>2 DEF BlocksInv, Reaches, Capped, Backoff

\* Both invariants, together.
LEMMA Invariants ==
  ASSUME GuardAssumption
  PROVE  Spec => [](IInv /\ BlocksInv)
<1>1. Init => IInv /\ BlocksInv
  BY InvInit DEF Init, Empty, BlocksInv, GuardAssumption
<1>2. IInv /\ BlocksInv /\ [Next]_vars => (IInv /\ BlocksInv)'
  BY InvNext, BlocksKeep
<1>. QED
  BY <1>1, <1>2, PTL DEF Spec

-----------------------------------------------------------------------------
\* The tables and the threads keep their types, the tables their limits; in particular every block ends at a
\* representable time, although the cast of its length may have overflowed.
THEOREM TypeCorrect ==
  ASSUME GuardAssumption
  PROVE  Spec => []TableTypes
<1>1. IInv /\ BlocksInv => TableTypes
  BY DEF IInv, BlocksInv, Typed, TypeOK, TableTypes
<1>. QED
  BY <1>1, Invariants, PTL

\* A block in force is lifted or shortened only by a success of its address, by reset,
\* by an eviction at capacity, by a failed login whose thread read the clock earlier
\* than the block was imposed, or because the backoff has outgrown int64_t.
THEOREM BlocksStandHolds ==
  ASSUME GuardAssumption
  PROVE  Spec => BlocksStand
<1>1. ASSUME IInv, BlocksInv, [Next]_vars, NEW ip \in IPs, Blocked(ip), now' = now,
             ip \notin DOMAIN ipState' \/ ipState'[ip].blockUntil < ipState[ip].blockUntil
      PROVE  \/ Reset(ip)
             \/ Cardinality(DOMAIN ipState) >= maxStateSize /\ \E c \in Calls : RecordForIP(c)
             \/ \E c \in Calls :
                  /\ call[c].ip = ip
                  /\ \/ RecordSuccess(c)
                     \/ RecordForIP(c) /\ \/ call[c].at < now
                                          \/ Backoff(ipState[ip].blockCount + 1) > MaxInt
  <2>1. /\ ip \in DOMAIN ipState /\ ipState[ip] \in IpEntry /\ Reaches(ipState[ip], now)
        /\ ipState[ip].blockUntil > 0
    BY <1>1 DEF Blocked, BlocksInv
  <2>2. PICK e : e = ipState[ip]
    OBVIOUS
  <2>3. e \in IpEntry /\ e.blockCount \in Nat /\ e.blockUntil \in Int /\ now \in Nat
    BY <1>1, <2>1, <2>2 DEF IpEntry, IInv, Typed, GuardAssumption
  <2>4. CASE ip \notin DOMAIN ipState'
    <3>1. ASSUME NEW c \in Calls, RecordForIP(c)
          PROVE  Cardinality(DOMAIN ipState) >= maxStateSize
      <4>1. PICK table, a, entry : /\ table \in AfterLimit(ipState, maxStateSize)
                                   /\ ipState' = Put(table, a, entry)
        BY <3>1 DEF RecordForIP
      <4>2. ip \notin DOMAIN table
        BY <2>4, <4>1 DEF Put
      <4>. QED
        BY <2>1, <4>1, <4>2 DEF AfterLimit
    <3>2. ASSUME NEW c \in Calls, RecordSuccess(c)
          PROVE  call[c].ip = ip
      BY <2>1, <2>4, <3>2 DEF RecordSuccess, Drop
    <3>3. ASSUME NEW a \in IPs, Reset(a)
          PROVE  a = ip
      BY <2>1, <2>4, <3>3 DEF Reset, Drop
    <3>. QED
      BY <1>1, <2>1, <2>4, <3>1, <3>2, <3>3
         DEF Next, vars, Check, CheckAccount, Respond, RecordForAccount, Tick
  <2>5. CASE ip \in DOMAIN ipState'
    <3>1. ipState'[ip].blockUntil < e.blockUntil
      BY <1>1, <2>2, <2>5
    <3>2. ~(ipState'[ip] = ipState[ip])
      BY <2>2, <2>3, <3>1
    <3>3. PICK c \in Calls, f \in IpEntry :
            /\ RecordForIP(c) /\ c \in DOMAIN call /\ call[c].ip = ip
            /\ Reaches(f, now) /\ ipState'[ip] \in EntriesAfterFailure(f, c)
            /\ f = e \/ Cardinality(DOMAIN ipState) >= maxStateSize
      BY <1>1, <2>1, <2>2, <2>5, <3>2, Fates DEF EntryFate
    <3>4. CASE f = e /\ ~(call[c].at < now)
      <4>1. \/ ipState'[ip].blockUntil = e.blockUntil
            \/ ipState'[ip].blockUntil = call[c].at + Capped(e.blockCount + 1)
            \/ Backoff(e.blockCount + 1) > MaxInt
        BY <1>1, <3>3, <3>4, FailureEntry DEF BlocksInv
      <4>2. call[c].at = now
        BY <1>1, <2>3, <3>3, <3>4, ThreadFields DEF IInv, Typed, Clocks
      <4>3. e.blockCount >= 1 /\ e.blockUntil <= now + Capped(e.blockCount)
        BY <2>1, <2>2 DEF Reaches
      <4>4. /\ Capped(e.blockCount) \in Nat /\ Capped(e.blockCount + 1) \in Nat
            /\ Capped(e.blockCount) <= Capped(e.blockCount + 1)
        BY <2>3, <4>3, Lengths
      <4>5. Backoff(e.blockCount + 1) > MaxInt
        BY <2>3, <3>1, <4>1, <4>2, <4>3, <4>4
      <4>. QED
        BY <2>2, <3>3, <4>5
    <3>. QED
      BY <3>3, <3>4
  <2>. QED
    BY <2>4, <2>5
<1>2. IInv /\ BlocksInv /\ [Next]_vars => [\A ip \in IPs : BlockKept(ip)]_vars
  BY <1>1 DEF BlockKept
<1>. QED
  BY <1>2, Invariants, PTL DEF Spec, BlocksStand
=============================================================================
