------------------------------ MODULE RuleEngine ------------------------------
(***************************************************************************)
(* src/core/rule-parser.js and src/core/rule-matcher.js: a directory of    *)
(* .shield files is parsed, file by file, and the rules that came through  *)
(* are evaluated on each request.                                          *)
(*                                                                         *)
(* A text is the sequence of the patterns that occur in it, "-" for        *)
(* anything else, and a position in it stands for RegExp.lastIndex, which  *)
(* a pattern with the flag g or y keeps from one test to the next.  A      *)
(* condition is a sequence of tokens.  What no rule of a run looks at      *)
(* (address, method, time and so on) is left out of the match data.        *)
(* compileRules gives the automaton the strings of type "string"; the      *)
(* parser makes "literal" and "regex" only, so it excludes nothing.        *)
(***************************************************************************)
EXTENDS Integers, SequencesExt, Maps

CONSTANTS
  Directories,   \* sequences of files, which are sequences of rules
  Requests,      \* what may be matched: path, query, headers and body, each a text
  MaxRequests    \* bound

VARIABLES
  files,         \* files not read yet
  rules,         \* rules loaded, in order, with their parsed conditions
  lastIndex,     \* of the patterns that keep one, by rule and name
  request,       \* the last request matched
  reported,      \* the rules it matched, with the patterns found
  matched,       \* requests matched
  directory      \* history: all the files

vars == <<files, rules, lastIndex, request, reported, matched, directory>>

Keywords == {"and", "or", "not", "in", "(", ")", "any of", "all of", "them",
             "true", "false", "}"}

-----------------------------------------------------------------------------
(* The parser, by recursive descent from a position of the tokens t.       *)

Token(t, p)        == IF p <= Len(t) THEN t[p] ELSE "}"
Parsed(node, next) == [node |-> node, next |-> next]
Failed             == [node |-> [type |-> "error"], next |-> 0]

RECURSIVE ParseOr(_, _)

\* any of, all of: the rules' own patterns, or a list.
ParseQuantified(t, p) ==
  LET ids  == {q \in p + 2 .. Len(t) : \A i \in p + 2 .. q : t[i] \notin Keywords}
      next == p + 2 + Cardinality(ids)
  IN  IF Token(t, p + 1) = "them"
      THEN Parsed([type |-> t[p], them |-> TRUE, names |-> <<>>], p + 2)
      ELSE IF Token(t, p + 1) = "(" /\ Token(t, next) = ")"
      THEN Parsed([type |-> t[p], them |-> FALSE, names |-> SubSeq(t, p + 2, next - 1)],
                  next + 1)
      ELSE Failed

ParsePrimary(t, p) ==
  LET first == Token(t, p)
      inner == ParseOr(t, p + 1)
  IN  CASE first = "(" ->
             IF inner.next # 0 /\ Token(t, inner.next) = ")"
             THEN Parsed(inner.node, inner.next + 1) ELSE Failed
        [] first \in {"any of", "all of"} -> ParseQuantified(t, p)
        [] first \in {"true", "false"} ->
             Parsed([type |-> "boolean", value |-> first = "true"], p + 1)
        [] first \notin Keywords ->
             IF Token(t, p + 1) # "in" THEN Parsed([type |-> "match", name |-> first], p + 1)
             ELSE IF Token(t, p + 2) \in Keywords THEN Failed
             ELSE Parsed([type |-> "match_in", name |-> first, target |-> t[p + 2]], p + 3)
        [] OTHER -> Failed

Negated(result) ==
  IF result.next = 0 THEN Failed
  ELSE Parsed([type |-> "not", expr |-> result.node], result.next)


ParseNot(t, p) ==
  IF Token(t, p) = "not" THEN Negated(ParsePrimary(t, p + 1)) ELSE ParsePrimary(t, p)

\* The loops of _parseAnd and _parseOr.
Joined(op, left, right) ==
  IF right.next = 0 THEN Failed
  ELSE Parsed([type |-> op, left |-> left.node, right |-> right.node], right.next)

RECURSIVE AndLoop(_, _), OrLoop(_, _)
AndLoop(t, left) ==
  IF left.next # 0 /\ Token(t, left.next) = "and"
  THEN AndLoop(t, Joined("and", left, ParseNot(t, left.next + 1))) ELSE left

ParseAnd(t, p) == AndLoop(t, ParseNot(t, p))

OrLoop(t, left) ==
  IF left.next # 0 /\ Token(t, left.next) = "or"
  THEN OrLoop(t, Joined("or", left, ParseAnd(t, left.next + 1))) ELSE left

ParseOr(t, p) == OrLoop(t, ParseAnd(t, p))

\* parseRule: the section ends where the rule does, and every string must be a safe RegExp.
Parses(rule) ==
  /\ rule.condition # <<>> => ParseOr(rule.condition, 1).next = Len(rule.condition) + 1
  /\ \A i \in DOMAIN rule.strings : ~rule.strings[i].unsafe

ParseRule(rule) ==
  [rule EXCEPT !.condition =
     IF @ = <<>> THEN [type |-> "none"] ELSE ParseOr(@, 1).node]

-----------------------------------------------------------------------------
(* The matcher.                                                            *)

BodyNames   == {"request.body", "request.raw_body"}
UrlNames    == {"request.url", "request.raw_url", "request.path", "request.query"}
HeaderNames == {"request.headers", "request.cookies", "request.useragent"}

TARGET_MAP ==
  [n \in BodyNames \cup UrlNames \cup HeaderNames |->
     CASE n = "request.body"    -> "body"         [] n = "request.raw_body"  -> "rawBody"
       [] n = "request.url"     -> "url"          [] n = "request.raw_url"   -> "rawUrl"
       [] n = "request.path"    -> "path"         [] n = "request.query"     -> "queryString"
       [] n = "request.headers" -> "headerString" [] n = "request.cookies"   -> "cookieString"
       [] OTHER -> "userAgent"]

\* prepareMatchData of what decodeRequest returns, which has no url, no user agent and
\* an empty list of cookies.
PrepareMatchData(d) ==
  [url |-> <<>>, path |-> d.path, body |-> d.body, rawBody |-> d.body,
   rawUrl |-> d.path \o d.query, queryString |-> d.query, headerString |-> d.headers,
   cookieString |-> <<>>, userAgent |-> <<>>,
   full |-> d.query \o d.body \o d.headers]

Targets(rule) == {rule.targets[v] : v \in DOMAIN rule.targets}

\* compileRules: which part of a request has to be there for the rule to be tried.
TargetCategory(rule) ==
  CASE Targets(rule) \subseteq BodyNames   -> "body"
    [] Targets(rule) \subseteq UrlNames    -> "url"
    [] Targets(rule) \subseteq HeaderNames -> "headers"
    [] OTHER -> "any"

Active(rule, md) ==
  CASE TargetCategory(rule) = "body"    -> md.body # <<>>
    [] TargetCategory(rule) = "headers" -> md.headerString # <<>>
    [] OTHER -> TRUE

ResolveTarget(rule, v, md) ==
  IF v \notin DOMAIN rule.targets THEN md.full
  ELSE LET n == rule.targets[v]
           mapped == IF n \in DOMAIN TARGET_MAP THEN TARGET_MAP[n] ELSE n
       IN  IF mapped \in DOMAIN md THEN md[mapped] ELSE <<>>

Declared(rule, name) == \E i \in DOMAIN rule.strings : rule.strings[i].name = name
Keeps(rule, name) ==
  \E i \in DOMAIN rule.strings : rule.strings[i].name = name /\ rule.strings[i].global

\* testPattern, with what becomes of the rule's lastIndex (a map from names).
TestPattern(rule, name, text, last) ==
  LET from  == IF Keeps(rule, name) THEN last[name] ELSE 0
      found == {i \in from + 1 .. Len(text) : text[i] = name}
      first == CHOOSE i \in found : \A j \in found : i <= j
  IN  IF ~Declared(rule, name) \/ text = <<>> THEN [value |-> FALSE, last |-> last]
      ELSE [value |-> found # {},
            last  |-> IF ~Keeps(rule, name) THEN last
                      ELSE [last EXCEPT ![name] = IF found = {} THEN 0 ELSE first]]

\* some and every: tests until one has the value that decides.
RECURSIVE TestUntil(_, _, _, _, _)
TestUntil(decides, rule, names, text, last) ==
  IF names = <<>> THEN [value |-> ~decides, last |-> last]
  ELSE LET t == TestPattern(rule, Head(names), text, last)
       IN  IF t.value = decides THEN t
           ELSE TestUntil(decides, rule, Tail(names), text, t.last)

Names(rule) == [i \in DOMAIN rule.strings |-> rule.strings[i].name]

RECURSIVE Evaluate(_, _, _, _)
Evaluate(node, rule, md, last) ==
  CASE node.type = "none"     -> [value |-> TRUE, last |-> last]
    [] node.type = "boolean"  -> [value |-> node.value, last |-> last]
    [] node.type = "match"    -> TestPattern(rule, node.name, md.full, last)
    [] node.type = "match_in" ->
         TestPattern(rule, node.name, ResolveTarget(rule, node.target, md), last)
    [] node.type \in {"any of", "all of"} ->
         TestUntil(node.type = "any of", rule,
                   IF node.them THEN Names(rule) ELSE node.names, md.full, last)
    [] node.type = "not" ->
         LET e == Evaluate(node.expr, rule, md, last)
         IN  [value |-> ~e.value, last |-> e.last]
    [] OTHER ->
         LET l == Evaluate(node.left, rule, md, last)
         IN  IF l.value = (node.type = "or") THEN l
             ELSE Evaluate(node.right, rule, md, l.last)

\* One rule of matchCompiledRules.  Once it matches, the search for what its patterns
\* found leaves every lastIndex at zero.
MatchRule(rule, md, last) ==
  LET e == Evaluate(rule.condition, rule, md, last)
  IN  IF ~Active(rule, md) THEN [hit |-> FALSE, patterns |-> {}, last |-> last]
      ELSE IF ~e.value THEN [hit |-> FALSE, patterns |-> {}, last |-> e.last]
      ELSE [hit |-> TRUE,
            patterns |-> {n \in Range(Names(rule)) : TestPattern(rule, n, md.full, e.last).value},
            last |-> [n \in DOMAIN last |-> 0]]

-----------------------------------------------------------------------------
Init ==
  /\ directory \in Directories /\ files = directory
  /\ rules = <<>> /\ lastIndex = <<>>
  /\ request = [path |-> <<>>, query |-> <<>>, headers |-> <<>>, body |-> <<>>]
  /\ reported = {} /\ matched = 0

\* loadRulesFromDir: a file is taken whole or not at all.
LoadFile ==
  /\ files # <<>>
  /\ files' = Tail(files)
  /\ LET file == Head(files)
         loaded == IF \A i \in DOMAIN file : Parses(file[i])
                   THEN [i \in DOMAIN file |-> ParseRule(file[i])] ELSE <<>>
     IN  /\ rules' = rules \o loaded
         /\ lastIndex' = lastIndex \o
              [i \in DOMAIN loaded |-> [n \in Range(Names(loaded[i])) |-> 0]]
  /\ UNCHANGED <<request, reported, matched, directory>>

\* matchCompiledRules.
Match(q) ==
  LET md == PrepareMatchData(q)
      of == [i \in DOMAIN rules |-> MatchRule(rules[i], md, lastIndex[i])]
  IN  /\ files = <<>> /\ matched < MaxRequests
      /\ request' = q /\ matched' = matched + 1
      /\ reported' = {[rule |-> i, patterns |-> of[i].patterns] :
                        i \in {i \in DOMAIN rules : of[i].hit}}
      /\ lastIndex' = [i \in DOMAIN rules |-> of[i].last]
      /\ UNCHANGED <<files, rules, directory>>

Next ==
  \/ LoadFile
  \/ \E q \in Requests : Match(q)

Spec == Init /\ [][Next]_vars

-----------------------------------------------------------------------------
\* Type correctness.
TypeOK ==
  /\ Len(lastIndex) = Len(rules)
  /\ \A i \in DOMAIN rules :
       /\ DOMAIN lastIndex[i] = Range(Names(rules[i]))
       /\ \A n \in DOMAIN lastIndex[i] : lastIndex[i][n] \in Nat
  /\ \A m \in reported : m.rule \in DOMAIN rules /\ m.patterns \subseteq Range(Names(rules[m.rule]))
  /\ matched \in 0 .. MaxRequests

(* What a condition means, by splitting it and not by descent.             *)

Level(s, i) ==
  Cardinality({j \in 1 .. i - 1 : s[j] = "("}) - Cardinality({j \in 1 .. i - 1 : s[j] = ")"})
Cuts(s, op) == {i \in DOMAIN s : s[i] = op /\ Level(s, i) = 0}
Before(s, i) == SubSeq(s, 1, i - 1)
After(s, i)  == SubSeq(s, i + 1, Len(s))
Inside(s)    == SubSeq(s, 2, Len(s) - 1)
Operator(s)  == IF Cuts(s, "or") # {} THEN "or" ELSE "and"

IsAtom(s) ==
  \/ Len(s) = 1 /\ (s[1] \notin Keywords \/ s[1] \in {"true", "false"})
  \/ Len(s) = 2 /\ s[1] \in {"any of", "all of"} /\ s[2] = "them"
  \/ Len(s) = 3 /\ s[1] \notin Keywords /\ s[2] = "in" /\ s[3] \notin Keywords
  \/ /\ Len(s) >= 3 /\ s[1] \in {"any of", "all of"} /\ s[2] = "(" /\ Last(s) = ")"
     /\ \A i \in 3 .. Len(s) - 1 : s[i] \notin Keywords

RECURSIVE IsSentence(_)
IsSentence(s) ==
  IF Cuts(s, "or") \cup Cuts(s, "and") # {}
  THEN \A i \in Cuts(s, Operator(s)) : IsSentence(Before(s, i)) /\ IsSentence(After(s, i))
  ELSE IF s # <<>> /\ Head(s) = "not"
  THEN Len(s) > 1 /\ s[2] # "not" /\ IsSentence(Tail(s))
  ELSE IsAtom(s) \/ (Len(s) > 2 /\ Head(s) = "(" /\ Last(s) = ")" /\ IsSentence(Inside(s)))

Occurs(rule, name, text) == Declared(rule, name) /\ \E i \in DOMAIN text : text[i] = name

Among(s, rule) == IF s[2] = "them" THEN Range(Names(rule)) ELSE Range(SubSeq(s, 3, Len(s) - 1))

AtomHolds(s, rule, md) ==
  CASE s[1] = "true"   -> TRUE
    [] s[1] = "false"  -> FALSE
    [] s[1] = "any of" -> \E n \in Among(s, rule) : Occurs(rule, n, md.full)
    [] s[1] = "all of" -> \A n \in Among(s, rule) : Occurs(rule, n, md.full)
    [] OTHER -> Occurs(rule, s[1], IF Len(s) = 1 THEN md.full ELSE ResolveTarget(rule, s[3], md))

RECURSIVE Holds(_, _, _)
Holds(s, rule, md) ==
  LET op == Operator(s)
      i  == CHOOSE i \in Cuts(s, op) : TRUE
  IN  IF Cuts(s, op) # {}
      THEN IF op = "or" THEN Holds(Before(s, i), rule, md) \/ Holds(After(s, i), rule, md)
           ELSE Holds(Before(s, i), rule, md) /\ Holds(After(s, i), rule, md)
      ELSE IF Head(s) = "not" THEN ~Holds(Tail(s), rule, md)
      ELSE IF IsAtom(s) THEN AtomHolds(s, rule, md)
      ELSE Holds(Inside(s), rule, md)

WellFormed(rule) ==
  /\ rule.condition = <<>> \/ IsSentence(rule.condition)
  /\ \A i \in DOMAIN rule.strings : ~rule.strings[i].unsafe

\* The rules of the files read, but for files in which one is malformed.
Expected ==
  FlattenSeq([f \in 1 .. Len(directory) - Len(files) |->
     IF \A i \in DOMAIN directory[f] : WellFormed(directory[f][i]) THEN directory[f] ELSE <<>>])

\* A malformed rule takes its file with it and no other file; and of the rules loaded
\* exactly those are reported whose condition, read as logic with and before or, holds
\* of the request, with the patterns that occur in it, whatever was matched before.
\* What a target names is what prepareMatchData makes of it: request.url, request.useragent
\* and request.cookies are always empty, whatever README.md:146, 150 and 151 say (see
\* UrlMatched).  Rules with a pattern that keeps its lastIndex are left out: see the README.
MatchedExact ==
  /\ Len(rules) = Len(Expected)
  /\ \A i \in DOMAIN rules :
       LET rule == Expected[i]
           md   == PrepareMatchData(request)
           hits == {m \in reported : m.rule = i}
       IN  (matched > 0 /\ \A n \in Range(Names(rule)) : ~Keeps(rule, n)) =>
             IF Active(rule, md) /\ (rule.condition = <<>> \/ Holds(rule.condition, rule, md))
             THEN hits = {[rule |-> i, patterns |->
                             {n \in Range(Names(rule)) : Occurs(rule, n, md.full)}]}
             ELSE hits = {}

\* README.md:146 has request.url for the "Full decoded URL": a rule that looks for a pattern
\* there, and for nothing else, matches a request whose decoded path or query it
\* occurs in.  The code violates it: decodeRequest returns no url.
UrlMatched ==
  matched > 0 => \A i \in DOMAIN rules :
    LET node == rules[i].condition IN
    /\ node.type = "match_in" /\ node.target \in DOMAIN rules[i].targets
    /\ rules[i].targets[node.target] = "request.url"
    /\ Occurs(rules[i], node.name, request.path \o request.query)
    => \E m \in reported : m.rule = i
=============================================================================
