----------------------------- MODULE MCServices -----------------------------
(* What the engine stands on, in src/core/: the reports of what it logs, the *)
(* automaton, the rule language and the decoder, side by side.  Each is run  *)
(* by itself: `service` names the one a behaviour is of; what belongs to the *)
(* others stays None.  MCDetectors runs them.                                *)
EXTENDS Integers, Sequences, Maps

CONSTANT None

VARIABLES
  service, now, log,
  history, timers, epoch, starts, entries,             \* reporting
  files,                                               \* and the rule language
  toAdd, keywords, phase, nodes, outputs, fail, queue, pos, node, results, scanned,
                                                       \* the automaton
  text,                                                \* and the decoder
  rules, lastIndex, request, reported, matched, directory,    \* the rule language
  context, depth, outcome, given, from                 \* the decoder

UpTo(S, n)  == UNION {[1 .. k -> S] : k \in 0 .. n}
OneTo(S, n) == UpTo(S, n) \ {<<>>}

-----------------------------------------------------------------------------
(* Reports: days of two units, periods of one and two days.                *)

Event == [rule |-> "brute_force", ip |-> "x", url |-> "/login", severity |-> "high",
          category |-> "brute-force", blocked |-> TRUE]

Reports == INSTANCE Reporting WITH
  Events <- {Event}, DAY <- 2,
  Days <- [k \in {"14d", "monthly"} |-> IF k = "14d" THEN 1 ELSE 2],
  Interval <- [k \in {"14d", "monthly"} |-> IF k = "14d" THEN 2 ELSE 3],
  quiet <- FALSE, maxHistory <- 2, maxStoredReports <- 2,
  many <- [volume |-> 1, attacks |-> 1, repeats |-> 1, traversals |-> 1, shift |-> 1],
  Starts <- {0, 1}, MaxEpochs <- 2, MaxEntries <- 3, MaxTime <- 5

-----------------------------------------------------------------------------
(* The automaton: two keywords of up to three units and one of two.        *)

Word(w, o)   == [word |-> w, output |-> o]
Dictionaries == {<<Word(v, 1), Word(w, 2), Word(<<"a", "b">>, 3)>> :
                   v \in UpTo({"a", "b"}, 3), w \in UpTo({"a", "b"}, 3)}

Automaton == INSTANCE AhoCorasick WITH
  Dictionaries <- Dictionaries, Texts <- [1 .. 4 -> {"a", "b"}] \cup {<<>>}, MaxTexts <- 1

-----------------------------------------------------------------------------
(* The rule language: every condition of up to three tokens, and of up to  *)
(* five of the operators.                                                  *)

Conditions ==
  OneTo({"a", "t", "in", "any of", "all of", "them", "true", "and", "or", "not", "(", ")"}, 3)
  \cup OneTo({"a", "b", "or", "and", "not"}, 5) \cup OneTo({"a", "(", ")", "or", "and"}, 5)
  \cup {<<"any of", "(", "a", "b", ")">>, <<"all of", "(", "a", "b", ")">>,
        <<"not", "(", "a", "or", "b", ")">>}
String(name, global, unsafe) == [name |-> name, global |-> global, unsafe |-> unsafe]
Rule(targets, strings, condition) ==
  [targets |-> targets, strings |-> strings, condition |-> condition]
Two       == <<String("a", FALSE, FALSE), String("b", FALSE, FALSE)>>
OfBody    == [t |-> "request.body"]
OfUrl     == Rule([t |-> "request.url"], Two, <<"a", "in", "t">>)
Keeping   == Rule([t |-> "request.headers", u |-> "request.body"],
                  <<String("a", TRUE, FALSE), String("b", FALSE, FALSE)>>, <<"a", "and", "b">>)
Shields ==
  {<< <<Rule(OfBody, Two, c), Rule(Empty, Two, <<"not", "a">>)>>, <<OfUrl>> >> : c \in Conditions}
  \cup {<< <<OfUrl>>, <<Rule(targets, strings, c)>> >> :
          targets \in {Empty, OfBody, [t |-> "request.path"], [t |-> "request.headers"],
                       [t |-> "request.path", u |-> "body"]},
          strings \in {<<>>, Two, <<String("a", FALSE, TRUE)>>},
          c \in {<<>>, <<"a", "in", "t">>, <<"not", "a", "in", "t">>, <<"any of", "them">>,
                 <<"all of", "them">>, <<"a", "in", "t", "and", "not", "b", "in", "u">>}}
  \cup {<< <<Keeping, OfUrl>> >>}
Parts(path, query, headers, body) ==
  [path |-> path, query |-> query, headers |-> headers, body |-> body]
Requested == {Parts(<<"a">>, <<>>, <<"-">>, <<>>), Parts(<<"-">>, <<"a">>, <<"-">>, <<"b">>),
              Parts(<<"-">>, <<"-">>, <<"b">>, <<"a", "-">>), Parts(<<"-">>, <<>>, <<>>, <<"b", "a">>)}

Language == INSTANCE RuleEngine WITH
  Directories <- Shields, Requests <- Requested, MaxRequests <- 2

-----------------------------------------------------------------------------
(* The decoder: up to four layers on one item, and paths.                  *)

Item(layers, is) == [layers |-> layers, is |-> is]
Pieces == {Item(<<>>, is) : is \in {"/", "..", "x"}}
More   == Pieces \cup {Item(<<>>, is) : is \in {"y", ".", "backslash"}}
          \cup {Item(<<"url">>, ".."), Item(<<"decimal">>, "/"), Item(<<"unicode", "url">>, ".."),
                Item(<<"brace">>, "beyond")}
\* A name stands for a character alone, &amp; for the one every entity begins with, and
\* only \u{} can name a code point there is none of.
Encodes(layers) ==
  \A i \in 1 .. Len(layers) - 1 :
    /\ layers[i] # "named"
    /\ layers[i] = "amp" => layers[i + 1] \in {"named", "amp", "hex", "decimal"}
AllKinds == {"url", "named", "amp", "hex", "decimal", "%u", "brace", "unicode", "byte", "octal",
             "base64"}
Wrapped ==
  {Item(layers, "x") : layers \in {l \in UpTo(AllKinds, 3) : Encodes(l)} \cup
     {l \in UpTo({"url", "amp", "hex", "decimal", "brace", "base64"}, 4) : Encodes(l)}}
  \cup {Item(Append(layers, "brace"), "beyond") :
           layers \in {l \in UpTo(AllKinds \ {"named", "amp"}, 2) : Encodes(l)}}
Encoded ==
  {[context |-> c, depth |-> d, text |-> <<item>>] :
     c \in {"body", "queryKey"}, d \in {0, 2}, item \in Wrapped}
  \cup {[context |-> "path", depth |-> 0, text |-> t] : t \in UpTo(Pieces, 7) \cup UpTo(More, 4)}

Decoding == INSTANCE Decoder WITH Inputs <- Encoded, MAX_DECODE_DEPTH <- 3

-----------------------------------------------------------------------------
Clock       == <<now, log>>
OfReports   == <<history, timers, epoch, starts, entries>>
OfAutomaton == <<toAdd, keywords, phase, nodes, outputs, fail, queue, pos, node, results, scanned>>
OfLanguage  == <<rules, lastIndex, request, reported, matched, directory>>
OfDecoding  == <<context, depth, outcome, given, from>>

InReports(A)   == service = "reports" /\ A
  /\ UNCHANGED <<service, OfAutomaton, text, OfLanguage, OfDecoding>>
InAutomaton(A) == service = "automaton" /\ A
  /\ UNCHANGED <<service, Clock, OfReports, files, OfLanguage, OfDecoding>>
InLanguage(A)  == service = "language" /\ A
  /\ UNCHANGED <<service, Clock, OfReports, OfAutomaton, text, OfDecoding>>
InDecoding(A)  == service = "decoder" /\ A
  /\ UNCHANGED <<service, Clock, OfReports, files, OfAutomaton, OfLanguage>>

NoClock     == now = None /\ log = None
NoReports   == /\ history = None /\ timers = None /\ epoch = None /\ starts = None
               /\ entries = None
NoAutomaton == /\ toAdd = None /\ keywords = None /\ phase = None /\ nodes = None
               /\ outputs = None /\ fail = None /\ queue = None /\ pos = None
               /\ node = None /\ results = None /\ scanned = None
NoLanguage  == /\ rules = None /\ lastIndex = None /\ request = None /\ reported = None /\ matched = None
               /\ directory = None
NoDecoding  == /\ context = None /\ depth = None /\ outcome = None /\ given = None
               /\ from = None

ServicesInit ==
  \/ /\ service = "reports" /\ Reports!Init
     /\ NoAutomaton /\ text = None /\ NoLanguage /\ NoDecoding
  \/ /\ service = "automaton" /\ Automaton!Init
     /\ NoClock /\ NoReports /\ files = None /\ NoLanguage /\ NoDecoding
  \/ /\ service = "language" /\ Language!Init
     /\ NoClock /\ NoReports /\ NoAutomaton /\ text = None /\ NoDecoding
  \/ /\ service = "decoder" /\ Decoding!Init
     /\ NoClock /\ NoReports /\ files = None /\ NoAutomaton /\ NoLanguage

ReportsAttack == InReports(Reports!Attack(Event))
ReportsEngine == InReports(\E blocked \in BOOLEAN : Reports!Attack(Reports!EngineEvent(blocked)))
ReportsTimer  == InReports(\E t \in timers : Reports!Generate(t))
ReportsClear  == InReports(Reports!ClearHistory)
ReportsRestart == InReports(Reports!Restart)
ReportsTick   == InReports(Reports!Tick)
AutomatonAdd    == InAutomaton(Automaton!Add)
AutomatonBuild  == InAutomaton(Automaton!StartBuild)
AutomatonLink   == InAutomaton(\E n \in nodes : Automaton!Link(n))
AutomatonSearch == InAutomaton(Automaton!StartSearch)
AutomatonScan   == InAutomaton(Automaton!Scan)
LanguageLoad  == InLanguage(Language!LoadFile)
LanguageMatch == InLanguage(\E q \in Requested : Language!Match(q))
DecodingGiveUp == InDecoding(Decoding!GiveUp)
DecodingDecode == InDecoding(Decoding!FullDecode)

ServicesNext ==
  \/ ReportsAttack \/ ReportsEngine \/ ReportsTimer \/ ReportsClear \/ ReportsRestart
  \/ ReportsTick
  \/ AutomatonAdd \/ AutomatonBuild \/ AutomatonLink \/ AutomatonSearch \/ AutomatonScan
  \/ LanguageLoad \/ LanguageMatch
  \/ DecodingGiveUp \/ DecodingDecode

-----------------------------------------------------------------------------
\* A report counts what the logger still knows of its period, is made when it is due,
\* and is kept, however events, timers and restarts fall together.
ReportsTrue == service = "reports" => Reports!TypeOK /\ Reports!ReportsTrue


\* A rule finds in the url of a request what is there.
UrlMatched == service = "language" => Language!UrlMatched
=============================================================================
