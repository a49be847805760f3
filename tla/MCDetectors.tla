----------------------------- MODULE MCDetectors -----------------------------
(* Session and sequence anomaly, side by side, with small instances of     *)
(* each, and with them the services of MCServices.  They share no state,   *)
(* and none reads what another keeps, so a behaviour here is one of a      *)
(* single part, which `detector` or `service` names; what belongs to the   *)
(* others stays None.                                                      *)
EXTENDS MCServices

VARIABLES
  detector,
  features, sensitivePaths, regexps, graphs, ipMap, sessions,   \* session anomaly
  signature, resources,                                  \* and sequence anomaly
  paramClasses, historyMaxLen, matchers, rings           \* sequence anomaly

-----------------------------------------------------------------------------
(* Session anomaly: two sessions and one with an id drawn at random.       *)

Plain == [id |-> "s", ip |-> "i", clientError |-> FALSE, path |-> "page", referer |-> None,
          params |-> Empty, geo |-> None, vpn |-> FALSE, mobile |-> FALSE,
          fingerprint |-> None]
Screened(ua, canvas, screen) == [userAgent |-> ua, canvas |-> canvas, screen |-> screen]
Place(country, city)      == [country |-> country, city |-> city]

\* Each of the switches alone, with the requests that reach its detector.
Switches == {"credentialStuffing", "errorSpike", "sensitiveReferer", "requestLineage",
             "lateralMovement", "geoVelocity", "fingerprintChange", "sessionIpFlood"}
Sent(switch) ==
  CASE switch = "credentialStuffing" ->
         {[Plain EXCEPT !.id = s, !.ip = i] : s \in {"s", "none"}, i \in {"i", "j"}}
    [] switch = "errorSpike" -> {[Plain EXCEPT !.clientError = b] : b \in BOOLEAN}
    [] switch = "sensitiveReferer" ->
         {[Plain EXCEPT !.path = "login", !.referer = r] : r \in {None, "other"}}
    [] switch = "requestLineage" ->
         {[Plain EXCEPT !.path = p] : p \in {"page", "api", "public"}}
    [] switch = "lateralMovement" ->
         {[Plain EXCEPT !.params = p] : p \in {Empty, [id |-> 1, uid |-> 1]} \cup
            {[id |-> v] : v \in 1 .. 3}}
    [] switch = "geoVelocity" ->
         {[Plain EXCEPT !.geo = g] : g \in {None, Place("A", "x"), Place("B", "y"),
                                           Place("B", None), Place(None, "x")}}
         \cup {[Plain EXCEPT !.geo = Place("B", "y"), !.vpn = TRUE],
               [Plain EXCEPT !.geo = Place("A", "x"), !.mobile = TRUE]}
    [] switch = "fingerprintChange" ->
         {[Plain EXCEPT !.fingerprint = f] :
            f \in {None, Screened(1, 1, 1), Screened(2, 2, 1), Screened(2, 1, 2), Screened(1, None, 1),
                   Screened(2, 2, 2)}}
    [] switch = "sessionIpFlood" -> {[Plain EXCEPT !.ip = i] : i \in {"i", "j", "k"}}
SwitchSets == {{s} : s \in Switches}
SessionInputs == [on \in SwitchSets |-> UNION {Sent(s) : s \in on}]
Kilometres == [c \in {"x", "y"} \X {"x", "y"} |-> IF c[1] = c[2] THEN 0 ELSE 3]

Session == INSTANCE SessionAnomaly WITH
  Ids <- {"s", "drawn"}, NoId <- "none", Inputs <- SessionInputs,
  SensitiveChoices <- {{"login"}, {}}, ApiPaths <- {"api", "public"},
  PublicPaths <- {"public"}, Distance <- Kilometres, ScreenShift <- {<<1, 2>>, <<2, 1>>},
  maxSessionAgeMs <- 1, ipSessionTtlMs <- 1, maxIpSessions <- 1, ipSessionWindowMs <- 1,
  farmPerIp <- 1, errorSpikeCount <- 1, bucketMs <- 1, errorBucketCount <- 2,
  sessionIpFlood <- 1, sessionIpFloodCap <- 3, lateralMovementIds <- 1,
  lateralMovementCap <- 2, distinctPaths <- 2, rateWindowMs <- 1, orphanApiWindow <- 1,
  historySize <- 2, shortWindowMs <- 2, longWindowMs <- 2, shortKmh <- 2, midKmh <- 1,
  longKmh <- 1, rapidMobileMs <- 2, rapidDesktopMs <- 3, noCityMs <- 2,
  LastActivity <- 2, MaxCalls <- 3, MaxTime <- 4

-----------------------------------------------------------------------------
(* Sequence anomaly: more rings and resources than may be kept.            *)

ClassesOf == [k \in {"id", "page", "ids"} |-> IF k = "ids" THEN "batch" ELSE k]
Asked ==
  {[ip |-> i, ids |-> << <<"id", v>> >>] : i \in {"x", "y"}, v \in {1, 2}}
  \cup {[ip |-> "x", ids |-> ids] :
          ids \in {<< <<"page", 1>>, <<"page", 2>> >>, << <<"ids", 1>> >>,
                   << <<"oid", 7>>, <<"id", 1>> >>}}

Sequence == INSTANCE SequenceAnomaly WITH
  IPs <- {"x", "y"}, Values <- {1, 2, 7}, Uuids <- {7}, Requests <- Asked,
  Classes <- {ClassesOf}, Lengths <- {2}, maxParamKeys <- 1, paramHistoryTtlMs <- 1,
  maxResources <- 2, resourceTtlMs <- 1, timeWindowMs <- 1, minDistinctIps <- 2,
  minHitsForFanout <- 3, minSequenceLength <- 2, minSequenceRate <- 1, minRequests <- 2,
  minRate <- 1, maxRate <- 2, LastActivity <- 2, MaxCalls <- 3, MaxTime <- 4

-----------------------------------------------------------------------------
OfSession  == <<features, sensitivePaths, regexps, graphs, ipMap, sessions>>
OfSequence == <<paramClasses, historyMaxLen, matchers, rings>>
OfBoth     == <<signature, resources>>

OfDetectors == <<detector, OfSession, OfBoth, OfSequence>>
OfServices  == <<service, OfReports, files, OfAutomaton, text, OfLanguage, OfDecoding>>

vars == <<Clock, OfDetectors, OfServices>>

InSession(A)  == detector = "session" /\ A /\ UNCHANGED <<detector, OfSequence, OfServices>>
InSequence(A) == detector = "sequence" /\ A /\ UNCHANGED <<detector, OfSession, OfServices>>

NoSession   == features = None /\ sensitivePaths = None /\ regexps = None /\ graphs = None
               /\ ipMap = None /\ sessions = None
NoSequence  == paramClasses = None /\ historyMaxLen = None /\ matchers = None /\ rings = None
NoDetectors == detector = None /\ NoSession /\ NoSequence /\ signature = None /\ resources = None
NoServices  == /\ service = None /\ NoReports /\ files = None /\ NoAutomaton /\ text = None
               /\ NoLanguage /\ NoDecoding

Init ==
  \/ detector = "session" /\ Session!Init /\ NoSequence /\ NoServices
  \/ detector = "sequence" /\ Sequence!Init /\ NoSession /\ NoServices
  \/ ServicesInit /\ NoDetectors

SessionCheck     == InSession(\E q \in SessionInputs[features] : Session!Check(q))
SessionConfigure == InSession(\E paths \in {{"login"}, {}} : Session!Configure(paths))
SessionCleanup   == InSession(Session!Cleanup)
SessionTick      == InSession(Session!Tick)
SequenceCheck    == InSequence(\E q \in Asked : Sequence!Check(q))
SequenceConfigure == InSequence(Sequence!Configure(ClassesOf, 2))
SequenceCleanup  == InSequence(Sequence!Cleanup)
SequenceTick     == InSequence(Sequence!Tick)

Tick    == SessionTick \/ SequenceTick
Collect == SessionCleanup \/ SequenceCleanup

Next ==
  \/ SessionCheck \/ SessionConfigure \/ SequenceCheck \/ SequenceConfigure
  \/ Collect \/ Tick
  \/ ServicesNext /\ UNCHANGED OfDetectors

\* Time passes and the collectors' intervals fire; to services nothing is promised.
FairSpec == Init /\ [][Next]_vars /\ WF_vars(Tick) /\ WF_vars(Collect)

ASSUME Session!SessionAssumption /\ Sequence!SequenceAssumption

-----------------------------------------------------------------------------
\* Type correctness of each detector, with the limits its tables keep to.
DetectorTypes ==
  /\ detector = "session"  => Session!TypeOK
  /\ detector = "sequence" => Sequence!TypeOK

\* What session anomaly keeps of a session is what the session did, of its errors those of
\* the current bucket alone; its tables agree on which sessions there are, and no indicator
\* is returned without its cause, whatever checks, cleanups and settings came between.
SessionsExact == detector = "session" => Session!SessionMemory /\ Session!FlagsEarned

\* Sequence anomaly remembers exactly the values it should, the last of each address
\* and parameter in order though the rings come round; and of the calls that do not end
\* in a TypeError none lets a distributed scraping go unnoticed.
CallsExact == detector = "sequence" => Sequence!RingExact /\ Sequence!FanoutNoticed

\* A call of sequence anomaly is checked after a change of its settings, too.
ReloadHarmless == detector = "sequence" => Sequence!ReloadHarmless

\* Every detector forgets every client in the end, in all its tables, once clients are
\* silent.
DetectorsForget ==
  <>[](/\ detector = "session"  => Session!NothingKept
       /\ detector = "sequence" => Sequence!NothingKept)
=============================================================================
