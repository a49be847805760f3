----------------------------- MODULE AhoCorasick -----------------------------
(***************************************************************************)
(* src/core/aho-corasick.js: a trie of keywords with failure links, which  *)
(* finds all of them in one pass over a text.                              *)
(*                                                                         *)
(* A node is the word that leads to it.  Words and texts are sequences of  *)
(* UTF-16 units; a keyword with a character of two, which add takes for    *)
(* one and search does not, is left out.                                   *)
(***************************************************************************)
EXTENDS Integers, SequencesExt, Maps

CONSTANTS
  Dictionaries,   \* what may be added: lists of keywords with their output
  Texts,          \* what may be scanned
  MaxTexts        \* bound: texts scanned by one automaton

VARIABLES
  toAdd,          \* calls of add still to come
  keywords,       \* history: those made
  phase,          \* "add", "build" or "search"
  nodes, outputs, \* the trie, and the outputs of each node
  fail,           \* failure links, of the nodes that have one
  queue,          \* nodes whose children have no link yet
  text, pos,      \* the text and how much of it was scanned
  node, results,  \* where the scan is, and what it found
  scanned         \* texts scanned before

vars == <<toAdd, keywords, phase, nodes, outputs, fail, queue, text, pos, node, results, scanned>>

Root == <<>>

Children(n) == {m \in nodes : Len(m) = Len(n) + 1 /\ IsPrefix(n, m)}

\* The nearest of n, its failure link, the link of that and so on that has a child c;
\* "none" if not even the root has.
Nearest(n, c) ==
  LET from[m \in nodes] ==
        IF Append(m, c) \in nodes THEN m
        ELSE IF m = Root THEN "none" ELSE from[fail[m]]
  IN  from[n]

\* Where c leads from n, by failure links if it must.
Step(n, c) ==
  LET m == Nearest(n, c) IN IF m = "none" THEN Root ELSE Append(m, c)

-----------------------------------------------------------------------------
Init ==
  /\ toAdd \in Dictionaries /\ keywords = {}
  /\ phase = "add"
  /\ nodes = {Root} /\ outputs = Put(Empty, Root, {})
  /\ fail = Empty /\ queue = {}
  /\ text = <<>> /\ pos = 0 /\ node = Root /\ results = {}
  /\ scanned = 0

\* add: an empty keyword is ignored.
Add ==
  /\ phase = "add" /\ toAdd # <<>>
  /\ LET word == Head(toAdd).word
         made == {SubSeq(word, 1, i) : i \in 1 .. Len(word)}
     IN  /\ nodes' = nodes \cup made
         /\ outputs' = [n \in nodes \cup made |->
              (IF n \in nodes THEN outputs[n] ELSE {})
                \cup (IF n = word /\ word # <<>> THEN {Head(toAdd).output} ELSE {})]
  /\ toAdd' = Tail(toAdd) /\ keywords' = keywords \cup {Head(toAdd)}
  /\ UNCHANGED <<phase, fail, queue, text, pos, node, results, scanned>>

\* build, up to its loop.
StartBuild ==
  /\ phase = "add" /\ toAdd = <<>>
  /\ phase' = "build"
  /\ queue' = Children(Root)
  /\ fail' = [n \in Children(Root) |-> Root]
  /\ UNCHANGED <<toAdd, keywords, nodes, outputs, text, pos, node, results, scanned>>

LinkOf(current, child) == Step(fail[current], Last(child))

\* One round of the loop; nodes leave the queue level by level.
Link(current) ==
  LET links == [m \in Children(current) |-> LinkOf(current, m)]
  IN  /\ phase = "build" /\ current \in queue
      /\ \A n \in queue : Len(current) <= Len(n)
      /\ queue' = (queue \ {current}) \cup Children(current)
      /\ fail' = [n \in DOMAIN fail \cup DOMAIN links |->
                    IF n \in DOMAIN links THEN links[n] ELSE fail[n]]
      /\ outputs' = [n \in nodes |->
                       IF n \in DOMAIN links THEN outputs[n] \cup outputs[links[n]]
                       ELSE outputs[n]]
      /\ UNCHANGED <<toAdd, keywords, phase, nodes, text, pos, node, results, scanned>>

\* search, up to its loop.
StartSearch ==
  /\ (phase = "build" /\ queue = {}) \/ (phase = "search" /\ pos = Len(text))
  /\ scanned < MaxTexts
  /\ phase' = "search" /\ scanned' = scanned + 1
  /\ text' \in Texts
  /\ pos' = 0 /\ node' = Root /\ results' = {}
  /\ UNCHANGED <<toAdd, keywords, nodes, outputs, fail, queue>>

\* One unit of the text.
Scan ==
  /\ phase = "search" /\ pos < Len(text)
  /\ pos' = pos + 1
  /\ node' = Step(node, text[pos + 1])
  /\ results' = results \cup outputs[node']
  /\ UNCHANGED <<toAdd, keywords, phase, nodes, outputs, fail, queue, text, scanned>>

Next ==
  \/ Add
  \/ StartBuild
  \/ \E n \in nodes : Link(n)
  \/ StartSearch
  \/ Scan

Spec == Init /\ [][Next]_vars

-----------------------------------------------------------------------------
\* Type correctness.
TypeOK ==
  /\ phase \in {"add", "build", "search"}
  /\ Root \in nodes /\ DOMAIN outputs = nodes
  /\ DOMAIN fail \subseteq nodes \ {Root}
  /\ queue \subseteq DOMAIN fail
  /\ pos \in 0 .. Len(text) /\ node \in nodes

SuffixesOf(w) == {SubSeq(w, i, Len(w)) : i \in 1 .. Len(w) + 1}

\* The longest of a set of suffixes of one word.
Longest(words) == CHOOSE w \in words : \A v \in words : Len(v) <= Len(w)

\* In whatever order the nodes of a level are linked, a failure link leads to the
\* longest proper suffix that is a node, and the scan is at the longest suffix of what
\* it has read: the outputs found are those of the keywords that occur in it,
\* each of them, overlapping and nested ones included.
OccurrencesExact ==
  /\ \A n \in DOMAIN fail : fail[n] = Longest((SuffixesOf(n) \ {n}) \cap nodes)
  /\ phase = "search" =>
       LET read == SubSeq(text, 1, pos)
       IN  /\ node = Longest(SuffixesOf(read) \cap nodes)
           /\ results = {k.output : k \in {k \in keywords :
                /\ k.word # <<>>
                /\ \E i \in 1 .. pos : IsPrefix(k.word, SubSeq(read, i, pos))}}
=============================================================================
