----------------------------- MODULE MCMemories -----------------------------
(* The values that Memories is checked with, and what is due in time.        *)
EXTENDS Memories

-----------------------------------------------------------------------------
(* Adaptive baselines: three paths for a table of two.                     *)

Value(t, l) == [type |-> t, len |-> l]
MCPaths == {"a", "b", "c"}
MCAsked ==
  {[path |-> p, method |-> "GET", params |-> [n \in {"id"} |-> Value("int", 0)]] : p \in MCPaths}
  \cup {[path |-> "a", method |-> "POST",
         params |-> [n \in {"a", "b", "c", "d", "e", "id"} |-> Value("string", 30)]]}

-----------------------------------------------------------------------------
(* Fingerprints: two of them, from one address and from none.              *)

MCIPs  == {"x"}
MCJa3s == {"j1", "j2"}
MCJa4l == [j \in MCJa3s |-> IF j = "j1" THEN "f1" ELSE "f2"]
Plain == [ip |-> "x", ja3 |-> None, gatewayJa3 |-> None, trusted |-> TRUE, headersValid |-> TRUE,
          entropy |-> "none", structure |-> 0, consistency |-> 0, greaseGap |-> FALSE,
          hosting |-> FALSE]
MCHellos ==
  {[Plain EXCEPT !.ip = i, !.ja3 = j] : i \in {"x", "unknown"}, j \in MCJa3s}
  \cup {[Plain EXCEPT !.gatewayJa3 = "j1", !.trusted = t, !.entropy = "low", !.hosting = TRUE,
                      !.structure = 70, !.greaseGap = TRUE] : t \in BOOLEAN}
Level(n, d, s) == [num |-> n, den |-> d, score |-> s]
MCRarity == <<Level(1, 4, 25), Level(1, 3, 15), Level(1, 2, 5)>>
MCCaps   == [structure |-> 60, consistency |-> 50, behavioral |-> 50, context |-> 30]

-----------------------------------------------------------------------------
(* Traps: two clients, one of them a search engine at times.               *)

Caught(c, bot, kind, decoy) == [client |-> c, bot |-> bot, kind |-> kind, decoy |-> decoy]
MCClients == {"x", "y"}
MCVisits == {Caught("x", FALSE, "trapPath", TRUE), Caught("y", FALSE, "trapPath", TRUE),
             Caught("x", TRUE, "trapPath", FALSE), Caught("x", TRUE, "attack", FALSE),
             Caught("x", FALSE, "robots", FALSE)}

-----------------------------------------------------------------------------
(* API abuse: three clients for a table of two.                            *)

NoQuery == [depth |-> 0, fields |-> 0, aliases |-> 0, queries |-> 0, introspection |-> FALSE]
Access(c, p) ==
  [client |-> c, path |-> p, graphql |-> p = "graphql", keys |-> 0, adminField |-> FALSE,
   override |-> FALSE, callback |-> FALSE,
   query |-> IF p = "graphql" THEN [NoQuery EXCEPT !.depth = 30, !.aliases = 30] ELSE NoQuery]
MCCallers   == {"x", "y", "z"}
MCEndpoints == {"a", "b", "graphql"}
MCIdPaths   == {"a", "b"}
MCBase      == [p \in MCEndpoints |-> "/"]
MCAccesses  == {Access(c, p) : c \in {"x", "y"}, p \in MCIdPaths}
               \cup {Access("z", "a"), Access("x", "graphql")}

-----------------------------------------------------------------------------
(* Bot detection: two clients for one session.                             *)

MCIds    == {"x", "y"}
MCAssets == {"js"}
MCPages ==
  {[id |-> i, path |-> p, trap |-> FALSE, api |-> FALSE, found |-> {}] :
     i \in MCIds, p \in {"a", "b"}}
  \cup {[id |-> i, path |-> "js", trap |-> TRUE, api |-> TRUE, found |-> {"automation_ua"}] :
     i \in MCIds}

-----------------------------------------------------------------------------
(* Generated rules: a body of each kind, and limits of two rules and starts.*)

MCSenders == {"x", "y"}
MCBodies  == {"a", "b", "slash", "blank", "short"}
MCKind    == [b \in MCBodies |-> IF b \in {"a", "b"} THEN "text" ELSE b]
MCHash    == [b \in MCBodies |-> b]

-----------------------------------------------------------------------------
(* Smart anomaly: two categories, or none once the rules are gone.         *)

MCWeights == [high_entropy |-> 3, fragmented_attack |-> 5, encoded_attack |-> 8,
            multi_vector_fuzzy |-> 6, unknown_binary_payload |-> 7, behavioral_shift |-> 5]
Quiet == [ip |-> "x", signals |-> {}, direct |-> {}, likeness |-> Empty, layers |-> 0,
          binary |-> FALSE]
MCSuspects == {[Quiet EXCEPT !.signals = s] : s \in {{}, {"high_entropy"}}}
              \cup {[Quiet EXCEPT !.direct = {<<"p1", "url">>, <<"p1", "query">>}, !.layers = 2],
                    [Quiet EXCEPT !.likeness = [t \in {"p1", "p2"} \X {"body"} |-> 80],
                                  !.binary = TRUE]}
MCRuleSets == {<<[category |-> "sqli", patterns |-> <<"p1">>, severity |-> "critical"],
                 [category |-> "xss", patterns |-> <<"p2">>, severity |-> "low"]>>, <<>>}
MCSignals  == DOMAIN MCWeights
MCVerdicts == {{"behavioral_shift", "high_entropy"}}
MCKnown    == {"xss"}
MCVectorOf == [s \in {"high_entropy"} |-> "evasion"]

-----------------------------------------------------------------------------
\* Time passes, microtasks run, the collectors' intervals and the tarpit's timers fire;
\* to generated rules nothing is promised.
FairSpec ==
  MemoriesSpec /\ WF_memoryVars(MemoriesTick) /\ WF_memoryVars(MemoriesDue)
               /\ WF_memoryVars(BotsAnalyze)

-----------------------------------------------------------------------------
\* Every signal that smart anomaly reports adds to the score, whatever feedback came before,
\* and a shift adds to what the request scores alone.
NeverMuted == memory = "smart" => Smart!NeverMuted

\* Once clients are silent their baselines, drift histories, trackers, sessions and
\* histories of scores are all forgotten, and whoever is caught in the tarpit gets an
\* answer.  Never forgotten, and not spoken of here: how often a fingerprint was seen and
\* how many there were, which only decay ("evicts stale data", reputation.js:18, says
\* more than is done), the hits on traps, the feedback and the profiles of smart anomaly,
\* and the generated rules.
MemoriesForget ==
  <>[](/\ memory = "baselines"    => Baselines!NothingKept
       /\ memory = "fingerprints" => Prints!NothingKept
       /\ memory = "traps"        => Traps!NothingKept
       /\ memory = "api"          => Api!NothingKept
       /\ memory = "bots"         => Bots!NothingKept
       /\ memory = "smart"        => Smart!NothingKept)
=============================================================================
