------------------------------ MODULE Limiters ------------------------------
(* The rate limiter and its native counterpart, side by side, both against   *)
(* the sliding window they implement.  They share nothing: `limiter` names   *)
(* the one that a behaviour is about, and the other stays as it starts.      *)
EXTENDS RateLimiter

CONSTANTS                                  \* of the native limiter
  Calls,
  threadedWindowMs, threadedMax, threadedBlockDuration, threadedMaxKeys,
  ThreadedOperatorMs, NoTime, ThreadedMaxTime

VARIABLES
  limiter,
  tnow, deques, tblocked, thread, sweep      \* of the native limiter

Threaded == INSTANCE ThreadedRateLimiter WITH
  windowMs <- threadedWindowMs, max <- threadedMax, blockDuration <- threadedBlockDuration,
  maxKeys <- threadedMaxKeys, OperatorMs <- ThreadedOperatorMs, MaxTime <- ThreadedMaxTime,
  now <- tnow, requests <- deques, blocked <- tblocked, call <- thread

ASSUME NativeAssumption == Threaded!ThreadedAssumption

OfThreaded == <<tnow, deques, tblocked, thread, sweep>>

bothVars == <<limiter, vars, OfThreaded>>

InLimiter(A)  == limiter = "single" /\ A /\ UNCHANGED <<limiter, OfThreaded>>
InThreaded(A) == limiter = "threaded" /\ A /\ UNCHANGED <<limiter, vars>>

BothInit == limiter \in {"single", "threaded"} /\ Init /\ Threaded!Init

LimiterNext ==
  \/ \E r \in Requests : \/ \E k \in Keys : InLimiter(Start(r, k))
                        \/ InLimiter(Microtask(r))
  \/ \E k \in Keys : \/ InLimiter(UnblockIP(k))
                    \/ \E ms \in OperatorMs : InLimiter(BlockIP(k, ms))
  \/ InLimiter(Cleanup) \/ InLimiter(Destroy) \/ InLimiter(Tick)

ThreadedNext ==
  \/ \E c \in Calls :
       \/ \E k \in Keys : InThreaded(Threaded!Begin(c, k))
       \/ InThreaded(Threaded!Look(c)) \/ InThreaded(Threaded!EraseExpired(c))
       \/ InThreaded(Threaded!ReadClock(c)) \/ InThreaded(Threaded!Count(c))
       \/ InThreaded(Threaded!Pass(c)) \/ InThreaded(Threaded!Limit(c))
  \/ \E k \in Keys : \/ InThreaded(Threaded!UnblockIP(k))
                    \/ \E ms \in ThreadedOperatorMs : InThreaded(Threaded!BlockIP(k, ms))
  \/ InThreaded(Threaded!CleanupRead) \/ InThreaded(Threaded!Cleanup)
  \/ InThreaded(Threaded!Tick)

BothSpec == BothInit /\ [][LimiterNext \/ ThreadedNext]_bothVars

-----------------------------------------------------------------------------
\* The stamp of a call the native limiter counted stays for a whole window, although
\* threads push stamps out of order and slide with clocks read before the lock.
StampsKept == Threaded!StampsKept

\* Neither limiter lifts or shortens a block in force but for one of the reasons it has,
\* whichever calls, threads and collections run meanwhile.
BlocksStand == BlockStands /\ Threaded!BlockLiftedOnlyBy

\* The native limiter implements the sliding window, too.
ThreadedImplements == Threaded!ThreadedImplements
=============================================================================
