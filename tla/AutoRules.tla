------------------------------ MODULE AutoRules ------------------------------
(***************************************************************************)
(* src/core/engine.js: the rules the engine writes by itself, from the     *)
(* blocked request that gives rise to one to the file that outlives the    *)
(* process.  Generating and loading are synchronous: each is one step.     *)
(*                                                                         *)
(* A rule is its hash.  Only the file of generated rules is modelled, all  *)
(* other rules stay what they are.                                         *)
(***************************************************************************)
EXTENDS Integers, Sequences, Maps

CONSTANTS
  IPs,
  Bodies,           \* raw bodies
  Kind,             \* body -> "short", "blank", "slash" or "text"
  Hash,             \* body -> hash of its first 32 characters
  MAX_AUTO_RULES,
  intervalMs,       \* 60000: one rule per interval and address
  MaxStarts, MaxCalls, MaxTime   \* bounds of the restarts, the log and the clock

\* Of the constants.
AutoAssumption ==
  {MAX_AUTO_RULES, intervalMs, MaxTime} \subseteq Nat /\ MaxStarts \in Nat \ {0}

VARIABLES
  now,
  starts,      \* how often the process was started
  file,        \* autogenerated.shield: hashes, each well formed or not
  rules,       \* of these, engine.rules
  compiled,    \* of these, what compiledRuleContext holds: what requests are matched with
  hashes,      \* _autoGeneratedHashes
  lastGen,     \* _autoRuleRateLimit
  log,         \* the calls, with what became of them
  read         \* how much of the file there was at the last load (for the properties)

vars == <<now, starts, file, rules, compiled, hashes, lastGen, log, read>>

\* loadRulesFromDir, of the first n rules of the file: one that does not parse and the
\* whole file is left out.
LoadedUpTo(n) ==
  IF \E i \in 1 .. n : ~file[i].parses THEN <<>> ELSE [i \in 1 .. n |-> file[i].hash]

Loaded == LoadedUpTo(Len(file))

Init ==
  /\ now = 0 /\ starts = 1
  /\ file = <<>> /\ rules = <<>> /\ compiled = <<>>
  /\ hashes = {} /\ lastGen = Empty /\ log = <<>> /\ read = 0

Ended(ip, body, outcome) ==
  log' = Append(log, [ip |-> ip, body |-> body, at |-> now, start |-> starts, outcome |-> outcome])

\* Mutant: an address that has just had a rule generated may have the next.
RecentNever(ip) == FALSE

\* Mutant: one rule more than the limit.
FullLate == Cardinality(hashes) > MAX_AUTO_RULES

Full == Cardinality(hashes) >= MAX_AUTO_RULES

Recent(ip) == ip \in DOMAIN lastGen /\ now - lastGen[ip] < intervalMs

\* No rule, and the address is not charged for it.
Decline(ip, body) ==
  /\ Kind[body] = "short" \/ Full \/ Recent(ip)
  /\ Ended(ip, body, "none")
  /\ UNCHANGED <<file, rules, hashes, lastGen>>

Charge(ip) == lastGen' = Put(lastGen, ip, now)

\* Too little is left once blanks are contracted, or the rule is there already.
Repeat(ip, body) ==
  /\ Kind[body] = "blank" \/ Hash[body] \in hashes
  /\ Charge(ip) /\ Ended(ip, body, "none")
  /\ UNCHANGED <<file, rules, hashes>>

\* The hash is recorded first.  Appending may fail; a slash ends the regular
\* expression early, so that the rule appended does not parse.
Generate(ip, body) ==
  /\ Kind[body] \in {"slash", "text"} /\ Hash[body] \notin hashes
  /\ Charge(ip)
  /\ hashes' = hashes \cup {Hash[body]}
  /\ \E written \in BOOLEAN :
       LET parses == Kind[body] = "text"
       IN  /\ file' = IF written THEN Append(file, [hash |-> Hash[body], parses |-> parses,
                                                    start |-> starts, ip |-> ip, at |-> now])
                      ELSE file
           /\ rules' = IF written /\ parses THEN Append(rules, Hash[body]) ELSE rules
           /\ Ended(ip, body, IF written /\ parses THEN "rule"
                              ELSE IF written THEN "unparsed" ELSE "unwritten")

\* _generateAutoRule, for a blocked request with a critical smart anomaly that has
\* three novel indicators or more.
GenerateAutoRule(ip, body) ==
  /\ Len(log) < MaxCalls
  /\ \/ Decline(ip, body)
     \/ /\ Kind[body] # "short" /\ ~Full /\ ~Recent(ip)
        /\ Repeat(ip, body) \/ Generate(ip, body)
  /\ UNCHANGED <<now, starts, compiled, read>>

\* reloadRules.  The modules it would notify have no function reload.
ReloadRules ==
  /\ rules' = Loaded /\ compiled' = Loaded /\ read' = Len(file)
  /\ UNCHANGED <<now, starts, file, hashes, lastGen, log>>

\* The process ends and another starts; the file stays.
Restart ==
  /\ starts < MaxStarts
  /\ starts' = starts + 1
  /\ rules' = Loaded /\ compiled' = Loaded /\ read' = Len(file)
  /\ hashes' = {} /\ lastGen' = Empty
  /\ UNCHANGED <<now, file, log>>

Tick ==
  /\ now < MaxTime /\ now' = now + 1
  /\ UNCHANGED <<starts, file, rules, compiled, hashes, lastGen, log, read>>

Next ==
  \/ \E ip \in IPs, body \in Bodies : GenerateAutoRule(ip, body)
  \/ ReloadRules
  \/ Restart
  \/ Tick

Spec == Init /\ [][Next]_vars

-----------------------------------------------------------------------------
HashesOf(list) == {list[i].hash : i \in DOMAIN list}
Members(list)  == {list[i] : i \in DOMAIN list}

\* Type correctness and the limit of one process.
TypeOK ==
  /\ now \in 0 .. MaxTime /\ starts \in 1 .. MaxStarts
  /\ Cardinality(hashes) <= MAX_AUTO_RULES
  /\ DOMAIN lastGen \subseteq IPs
  /\ Members(rules) \cup Members(compiled) \subseteq HashesOf(file)
  /\ \A n \in DOMAIN log : log[n].outcome \in {"none", "rule", "unparsed", "unwritten"}
  /\ read \in 0 .. Len(file)

\* Of what the engine lists, what it generated since the last load.
Pushed == Len(compiled) + 1 .. Len(rules)

\* Requests are matched with the file as the last load found it, or with nothing of it
\* where a rule did not parse.  The engine lists those and behind them, once each, the
\* rules appended since that parse: a rule is listed at once, and matched after the
\* next load only.
ListsAgree ==
  /\ compiled = LoadedUpTo(read)
  /\ Len(compiled) <= Len(rules) /\ \A i \in DOMAIN compiled : rules[i] = compiled[i]
  /\ {rules[i] : i \in Pushed}
       = {file[i].hash : i \in {i \in read + 1 .. Len(file) : file[i].parses}}
  /\ \A i, j \in Pushed : rules[i] = rules[j] => i = j

\* The file, the hashes, the rules listed and the rules matched with are accounted for,
\* whatever failed, was reloaded or restarted.  Of one start of the process: it appends a
\* rule once, no two for one address closer than the interval, and never again a rule
\* it failed to write.  The next start knows neither hashes nor addresses: it may append
\* the same rules again, and counts to its limit anew.  The file never shrinks: no rule
\* expires here, as README.md says they do after 7 days.
RulesAccounted ==
  /\ \A i, j \in DOMAIN file : i < j /\ file[i].start = file[j].start =>
       /\ file[i].hash # file[j].hash
       /\ file[i].ip = file[j].ip => file[j].at - file[i].at >= intervalMs
  /\ \A n \in DOMAIN log : log[n].outcome = "unwritten" =>
       \A i \in DOMAIN file : file[i].start = log[n].start => file[i].hash # Hash[log[n].body]
  /\ hashes = {Hash[log[n].body] : n \in {n \in DOMAIN log :
                 log[n].start = starts /\ log[n].outcome \in {"rule", "unparsed", "unwritten"}}}
  /\ ListsAgree
=============================================================================
