------------------------------- MODULE Decoder -------------------------------
(***************************************************************************)
(* src/core/decoder.js: a part of a request is decoded, pass by pass, until *)
(* a pass changes nothing or the depth is used up.                         *)
(*                                                                         *)
(* A text is a sequence of items under layers of encoding, the outermost   *)
(* first; a layer is named for the replacement that takes it off.  An item *)
(* without layers is in clear; one that is "beyond" names a code point     *)
(* there is none of.  Truncation at MAX_OUTPUT_LENGTH and what NFKC        *)
(* changes are left out.                                                   *)
(***************************************************************************)
EXTENDS Integers, FiniteSets, SequencesExt

CONSTANTS
  Inputs,             \* texts with the context they come from
  MAX_DECODE_DEPTH

VARIABLES
  context,            \* "path", "queryValue", "queryKey", "header", "body", "bodyKey"
  depth, text,        \* arguments of the call of fullDecode that runs
  outcome,            \* "running", "returned" or "RangeError"
  given, from         \* history: the text and the depth of the first call

vars == <<context, depth, text, outcome, given, from>>

Slash       == [layers |-> <<>>, is |-> "/"]
Clear(item) == item.layers = <<>>

-----------------------------------------------------------------------------
Strip(kind, item) ==
  IF ~Clear(item) /\ Head(item.layers) = kind
  THEN [item EXCEPT !.layers = Tail(@)] ELSE item

\* urlDecode; htmlEntityDecode: the characters with names, &amp;, numbers in hexadecimal and
\* in decimal; unicodeDecode: %u, \u{}, \u, \x, \0.
Replacements ==
  <<"url", "named", "amp", "hex", "decimal", "%u", "brace", "unicode", "byte", "octal">>

StripAll(kinds, item) ==
  IF Clear(item) THEN item ELSE FoldLeft(LAMBDA i, kind : Strip(kind, i), item, kinds)

\* One replacement after the other, each on all of what the one before has left: what it
\* uncovers of its own kind, or of one before it, stays for the next pass.
Unwrapped(t) == [i \in DOMAIN t |-> StripAll(Replacements, t[i])]

\* String.fromCodePoint throws: the replacements before \u{} leave one that is none.
BeforeBraces == SubSeq(Replacements, 1, 6)

Throws(t) ==
  \E i \in DOMAIN t :
    t[i].is = "beyond" /\ StripAll(BeforeBraces, t[i]).layers = <<"brace">>

\* tryDecodeBase64: the whole text or nothing.
IsBase64(t) == Len(t) = 1 /\ ~Clear(t[1]) /\ Head(t[1].layers) = "base64"

TriesBase64(c) == c \in {"queryValue", "body", "cookie", "header"}

\* path.split('/'): the stretches between the slashes in clear.
Split(t) ==
  FoldLeft(LAMBDA parts, item :
             IF item = Slash THEN Append(parts, <<>>)
             ELSE [parts EXCEPT ![Len(parts)] = Append(@, item)],
           <<<<>>>>, t)

Up == <<[layers |-> <<>>, is |-> ".."]>>
Here == <<[layers |-> <<>>, is |-> "."]>>

\* The loop of normalizePath.
Resolved(parts) ==
  FoldLeft(LAMBDA stack, part :
             IF part = Up THEN (IF stack = <<>> THEN stack ELSE Front(stack))
             ELSE IF part \in {Here, <<>>} THEN stack ELSE Append(stack, part),
           <<>>, parts)

\* normalizePath: a backslash in clear is a slash.
NormalizePath(t) ==
  LET slashed == [i \in DOMAIN t |->
                    IF Clear(t[i]) /\ t[i].is = "backslash" THEN Slash ELSE t[i]]
      stack   == Resolved(Split(slashed))
      joined  == FlattenSeq([i \in DOMAIN stack |-> <<Slash>> \o stack[i]])
  IN  IF stack = <<>> THEN <<Slash>>
      ELSE IF slashed # <<>> /\ Last(slashed) = Slash THEN Append(joined, Slash) ELSE joined

-----------------------------------------------------------------------------
Init ==
  /\ \E i \in Inputs : /\ context = i.context /\ text = i.text
                       /\ depth = i.depth    /\ from = i.depth
  /\ given = text
  /\ outcome = "running"

\* A call of fullDecode that finds the depth used up, or nothing to decode.
GiveUp ==
  /\ outcome = "running" /\ (depth >= MAX_DECODE_DEPTH \/ text = <<>>)
  /\ outcome' = "returned"
  /\ UNCHANGED <<context, depth, text, given, from>>

\* A call that decodes, and calls itself if that changed anything; nothing on the way out
\* catches what it throws.
FullDecode ==
  LET unwrapped == Unwrapped(text)
      base64    == TriesBase64(context) /\ IsBase64(unwrapped)
      current   == IF base64 THEN <<Strip("base64", unwrapped[1])>>
                   ELSE IF context = "path" THEN NormalizePath(unwrapped) ELSE unwrapped
  IN  /\ outcome = "running" /\ depth < MAX_DECODE_DEPTH /\ text # <<>>
      /\ IF Throws(text)
         THEN outcome' = "RangeError" /\ UNCHANGED <<depth, text>>
         ELSE /\ text' = current
              /\ IF current # text
                 THEN depth' = depth + 1 /\ UNCHANGED outcome
                 ELSE outcome' = "returned" /\ UNCHANGED depth
      /\ UNCHANGED <<context, given, from>>

Next == GiveUp \/ FullDecode

Spec == Init /\ [][Next]_vars

-----------------------------------------------------------------------------
\* Type correctness.
TypeOK ==
  /\ depth \in 0 .. MAX_DECODE_DEPTH /\ from \in 0 .. depth
  /\ outcome \in {"running", "returned", "RangeError"}
  /\ \A i \in DOMAIN text : text[i].is \in {g.is : g \in Range(given)} \cup {"/"}

\* The place of a kind of layer in a pass; base64 comes last.
Rank(kind) ==
  IF kind = "base64" THEN 11 ELSE CHOOSE n \in 1 .. 10 : Replacements[n] = kind

\* In how many passes layers come off: a layer needs a pass of its own unless its kind
\* comes later in a pass than that of the layer around it.
PassesFor(layers) ==
  IF layers = <<>> THEN 0
  ELSE 1 + Cardinality({i \in 1 .. Len(layers) - 1 : Rank(layers[i]) >= Rank(layers[i + 1])})

\* What is left of layers: as few as the passes left allow, and no base64 taken off
\* where none is tried.
Left(layers, passes, base64) ==
  LET cuts == {n \in 0 .. Len(layers) :
                 /\ PassesFor(SubSeq(layers, 1, n)) <= passes
                 /\ base64 \/ \A i \in 1 .. n : layers[i] # "base64"}
      most == CHOOSE n \in cuts : \A m \in cuts : m <= n
  IN  SubSeq(layers, most + 1, Len(layers))

\* The part of a path before ".." and without it: what is left where a name and the
\* ".." that goes up from it cancel out, like brackets.
Stays(parts, i) ==
  LET names(j) == Cardinality({k \in i + 1 .. j : parts[k] \notin {Up, Here, <<>>}})
      ups(j)   == Cardinality({k \in i + 1 .. j : parts[k] = Up})
  IN  /\ parts[i] \notin {Up, Here, <<>>}
      /\ \A j \in i .. Len(parts) : ups(j) <= names(j)

\* Decoding stops within its depth and takes off exactly the layers the depth allows; it
\* throws if and only if these are all the layers around a code point there is none
\* of (decoder.js:229), and nothing catches it.  It leaves a path with neither a "." nor a
\* ".." in clear, however they were hidden, and with the names that no ".." goes up from.
DecodedAsDeep ==
  LET returned == outcome = "returned"
      whole    == Len(given) = 1 /\ context # "path"
      left     == Left(given[1].layers, MAX_DECODE_DEPTH - from, TriesBase64(context))
  IN
  /\ (returned /\ whole) => text[1].layers = left
  /\ (outcome # "running" /\ whole) =>
       (outcome = "RangeError" <=> left = <<>> /\ given[1].is = "beyond")
  /\ (returned /\ context = "path" /\ from < MAX_DECODE_DEPTH /\ given # <<>>) =>
       \A i \in DOMAIN Split(text) : Split(text)[i] \notin {Up, Here}
  /\ (returned /\ context = "path" /\ from < MAX_DECODE_DEPTH /\ \A i \in DOMAIN given : Clear(given[i])) =>
       LET parts == Split([i \in DOMAIN given |->
                             IF given[i].is = "backslash" THEN Slash ELSE given[i]])
           names == SelectSeq(Split(text), LAMBDA part : part # <<>>)
       IN  names = [n \in 1 .. Cardinality({i \in DOMAIN parts : Stays(parts, i)}) |->
                      parts[CHOOSE i \in DOMAIN parts :
                        /\ Stays(parts, i)
                        /\ Cardinality({j \in 1 .. i : Stays(parts, j)}) = n]]
=============================================================================
