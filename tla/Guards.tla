------------------------------- MODULE Guards -------------------------------
(* The brute-force guard and its native counterpart, side by side.  They     *)
(* share nothing but the addresses they are asked about: `guard` names the   *)
(* one that a behaviour is about, and the other stays as it starts.          *)
EXTENDS BruteForceGuard

CONSTANTS                                  \* of the native guard
  Logins, Calls,
  threadedMaxAttempts, threadedWindowMs, threadedBlockMs, threadedMaxBlockMs,
  threadedAccountMax, threadedStateSize, threadedAccountSize,
  MaxInt, ThreadedMaxTime

VARIABLES
  guard,
  tnow, ipState, accState, thread          \* of the native guard

Threaded == INSTANCE ThreadedBruteForceGuard WITH
  Accounts <- Logins,
  maxAttempts <- threadedMaxAttempts, windowMs <- threadedWindowMs,
  blockDurationMs <- threadedBlockMs, maxBlockDurationMs <- threadedMaxBlockMs,
  accountMaxAttempts <- threadedAccountMax,
  maxStateSize <- threadedStateSize, maxAccountSize <- threadedAccountSize,
  MaxTime <- ThreadedMaxTime, now <- tnow, call <- thread

ASSUME NativeAssumption == Threaded!GuardAssumption

OfThreaded == <<tnow, ipState, accState, thread>>

bothVars == <<guard, vars, OfThreaded>>

InGuard(A)    == guard = "single" /\ A /\ UNCHANGED <<guard, OfThreaded>>
InThreaded(A) == guard = "threaded" /\ A /\ UNCHANGED <<guard, vars>>

BothInit == guard \in {"single", "threaded"} /\ Init /\ Threaded!Init

GuardNext ==
  \/ \E r \in Requests :
       \/ \E ip \in IPs, acct \in Accounts \cup {NoAccount}, s \in BOOLEAN :
            InGuard(Arrive(r, ip, acct, s))
       \/ InGuard(RespondElsewhere(r)) \/ InGuard(RespondNotFailed(r))
       \/ InGuard(RespondFailed(r))
  \/ \E ip \in IPs : InGuard(Reset(ip))
  \/ InGuard(Gc) \/ InGuard(Destroy) \/ InGuard(Tick)

ThreadedNext ==
  \/ \E c \in Calls :
       \/ \E ip \in IPs, acct \in Logins \cup {NoAccount} :
            InThreaded(Threaded!Check(c, ip, acct))
       \/ InThreaded(Threaded!CheckAccount(c))
       \/ InThreaded(Threaded!Respond(c, "failed")) \/ InThreaded(Threaded!Respond(c, "passed"))
       \/ InThreaded(Threaded!RecordForAccount(c)) \/ InThreaded(Threaded!RecordForIP(c))
       \/ InThreaded(Threaded!RecordSuccess(c))
  \/ \E ip \in IPs : InThreaded(Threaded!Reset(ip))
  \/ InThreaded(Threaded!Tick)

BothSpec == BothInit /\ [][GuardNext \/ ThreadedNext]_bothVars

-----------------------------------------------------------------------------
\* The types and limits of the native guard's tables and threads: room is made and
\* used under one lock.
TableTypes == Threaded!TableTypes

\* What the native guard remembers of an account and of an address are the failed
\* logins of the window, though the two are recorded under two locks and threads
\* slide windows with older clocks: only an eviction, a success or reset loses any.
LoginsRemembered == Threaded!LoginsRemembered

\* A native block in force ends early only by a success of its address, by reset or
\* by eviction, and a failed answer shortens one only if it read the clock earlier or
\* if the backoff has outgrown int64_t.
BlocksStand == Threaded!BlocksStand
=============================================================================
