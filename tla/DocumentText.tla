----------------------------- MODULE DocumentText -----------------------------
(***************************************************************************)
(* The strict JSON parser of a scenario document (class Parser of          *)
(* packages/scenario/src/document.ts): one loop over an explicit stack, so *)
(* that a deep text cannot exhaust the call stack.                         *)
(*                                                                         *)
(* A text is a sequence of tokens: punctuation, strings (which may be      *)
(* keys) and other scalars.  Characters, escapes and number syntax are     *)
(* left out; a diagnostic is a path of tokens and a code.  A value is a    *)
(* record of a kind, its keys and its items.                               *)
(***************************************************************************)
EXTENDS Naturals, Sequences, FiniteSets, SequencesExt

CONSTANTS
    Strings,       \* tokens that may be keys, Reserved among them
    Reserved,      \* __proto__
    Scalars,       \* other scalars
    NestingDepth,
    MaxTokens

VARIABLES
    text,          \* tokens read
    parser

vars == <<text, parser>>
Tokens == Strings \cup Scalars \cup {"{", "}", "[", "]", ":", ","}

Scalar(token) == [kind |-> "scalar", keys |-> <<token>>, items |-> <<>>]

-----------------------------------------------------------------------------
(* The parser.  await is what the code reads next: a value, the first key   *)
(* of an object or its end, a key, a colon, or what follows a value.        *)
(* Frames are open containers, outermost first; a path has an element for   *)
(* each, the index (from 1) or the key of the value being read.             *)

Start == [await |-> "value", frames |-> <<>>, path |-> <<>>, value |-> Scalar(""), found |-> {}]
Fail(p) == [p EXCEPT !.await = "error"]

Report(p, code) == [p EXCEPT !.found = @ \cup {<<p.path, code>>}]
Top(p) == Last(p.frames)

\* A value was read: the loop in parse gives it to its container.
Complete(p, value) ==
    IF p.frames = <<>> THEN [p EXCEPT !.await = "end", !.value = value]
    ELSE LET f == Top(p)
             filled == IF f.kind = "array" THEN [f EXCEPT !.items = Append(@, value)]
                       ELSE IF f.key = <<>> THEN f
                       ELSE [f EXCEPT !.items = Append(@, value), !.keys = Append(@, f.key[1])]
         IN [p EXCEPT !.await = "next", !.frames = Append(Front(@), filled)]
Close(p) == LET f == Top(p)
            IN Complete([p EXCEPT !.frames = Front(@), !.path = Front(@)], [kind |-> f.kind, keys |-> f.keys, items |-> f.items])

\* Faulty variant: every container past the limit is reported, not the outermost.
TooDeepInside(p) == Len(p.frames) >= NestingDepth
TooDeep(p) == Len(p.frames) = NestingDepth
Open(p, kind) ==
    LET q == IF TooDeep(p) THEN Report(p, "DOCUMENT_DEPTH") ELSE p
    IN [q EXCEPT !.frames = Append(@, [kind |-> kind, keys |-> <<>>, items |-> <<>>, seen |-> {}, key |-> <<>>]),
                 !.path = Append(@, IF kind = "array" THEN "0" ELSE ""),
                 !.await = IF kind = "array" THEN "value or end" ELSE "key or end"]

\* A key that is reserved or was seen reads a value that is dropped.
Key(p, key) ==
    LET at == [p EXCEPT !.path = Append(Front(@), key), !.await = "colon"]
        named(q, seen, k) == [q EXCEPT !.frames = Append(Front(@), [Top(p) EXCEPT !.seen = seen, !.key = k])]
    IN IF key = Reserved THEN named(Report(at, "RESERVED_KEY"), Top(p).seen, <<>>)
       ELSE IF key \in Top(p).seen THEN named(Report(at, "DUPLICATE_KEY"), Top(p).seen, <<>>)
       ELSE named(at, Top(p).seen \cup {key}, <<key>>)

ReadValue(p, token) ==
    CASE token = "{" -> Open(p, "object")
      [] token = "[" -> Open(p, "array")
      [] token \in Strings \cup Scalars -> Complete(p, Scalar(token))
      [] OTHER -> Fail(p)

ReadNext(p, token) ==
    LET f == Top(p) IN
    CASE token = "," /\ f.kind = "array" -> [p EXCEPT !.path = Append(Front(@), ToString(Len(f.items))), !.await = "value"]
      [] token = "," /\ f.kind = "object" -> [p EXCEPT !.await = "key"]
      [] token = "]" /\ f.kind = "array" -> Close(p)
      [] token = "}" /\ f.kind = "object" -> Close(p)
      [] OTHER -> Fail(p)

Read(p, token) ==
    CASE p.await = "value or end" /\ token = "]" -> Close(p)
      [] p.await = "key or end" /\ token = "}" -> Close(p)
      [] p.await \in {"value", "value or end"} /\ token # "]" -> ReadValue(p, token)
      [] p.await \in {"key", "key or end"} /\ token \in Strings -> Key(p, token)
      [] p.await = "colon" /\ token = ":" -> [p EXCEPT !.await = "value"]
      [] p.await = "next" -> ReadNext(p, token)
      [] OTHER -> Fail(p)

Init == text = <<>> /\ parser = Start
Next == /\ Len(text) < MaxTokens /\ parser.await # "error"
        /\ \E token \in Tokens : text' = Append(text, token) /\ parser' = Read(parser, token)
Spec == Init /\ [][Next]_vars

-----------------------------------------------------------------------------
(* JSON, by its grammar.                                                    *)

Inner(t) == SubSeq(t, 2, Len(t) - 1)
Before(t, i) == SubSeq(t, 1, i - 1)
After(t, i) == SubSeq(t, i + 1, Len(t))
RECURSIVE IsValue(_), IsItems(_), IsMembers(_)
IsValue(t) == \/ Len(t) = 1 /\ t[1] \in Strings \cup Scalars
              \/ Len(t) >= 2 /\ t[1] = "[" /\ Last(t) = "]" /\ (Len(t) = 2 \/ IsItems(Inner(t)))
              \/ Len(t) >= 2 /\ t[1] = "{" /\ Last(t) = "}" /\ (Len(t) = 2 \/ IsMembers(Inner(t)))
IsItems(t) == IsValue(t) \/ \E i \in DOMAIN t : t[i] = "," /\ IsValue(Before(t, i)) /\ IsItems(After(t, i))
IsMember(t) == Len(t) >= 3 /\ t[1] \in Strings /\ t[2] = ":" /\ IsValue(After(t, 2))
IsMembers(t) == IsMember(t) \/ \E i \in DOMAIN t : t[i] = "," /\ IsMember(Before(t, i)) /\ IsMembers(After(t, i))

\* The parts of a list: the items of an array, the members of an object.
IsPart(t, kind) == IF kind = "array" THEN IsValue(t) ELSE IsMember(t)
RECURSIVE Parts(_, _)
Parts(t, kind) == IF IsPart(t, kind) THEN <<t>>
                  ELSE LET i == CHOOSE k \in DOMAIN t : t[k] = "," /\ IsPart(Before(t, k), kind)
                       IN <<Before(t, i)>> \o Parts(After(t, i), kind)

\* What is wrong with a value at a path, inside depth containers.
RECURSIVE Wrong(_, _, _)
Wrong(t, path, depth) ==
    IF Len(t) = 1 THEN {}
    ELSE (IF depth = NestingDepth THEN {<<path, "DOCUMENT_DEPTH">>} ELSE {})
         \cup (IF Len(t) = 2 THEN {}
               ELSE IF t[1] = "["
               THEN LET items == Parts(Inner(t), "array")
                    IN UNION {Wrong(items[i], Append(path, ToString(i - 1)), depth + 1) : i \in DOMAIN items}
               ELSE LET members == Parts(Inner(t), "object")
                        at(i) == Append(path, members[i][1])
                    IN UNION {Wrong(After(members[i], 2), at(i), depth + 1) : i \in DOMAIN members}
                       \cup {<<at(i), "RESERVED_KEY">> : i \in {j \in DOMAIN members : members[j][1] = Reserved}}
                       \cup {<<at(i), "DUPLICATE_KEY">> : i \in {j \in DOMAIN members : members[j][1] # Reserved /\ \E k \in 1 .. j - 1 : members[k][1] = members[j][1]}})

RECURSIVE Meaning(_)
Meaning(t) ==
    IF Len(t) = 1 THEN Scalar(t[1])
    ELSE LET kind == IF t[1] = "[" THEN "array" ELSE "object"
             parts == IF Len(t) = 2 THEN <<>> ELSE Parts(Inner(t), kind)
         IN IF kind = "array" THEN [kind |-> kind, keys |-> <<>>, items |-> [i \in DOMAIN parts |-> Meaning(parts[i])]]
            ELSE [kind |-> kind, keys |-> [i \in DOMAIN parts |-> parts[i][1]], items |-> [i \in DOMAIN parts |-> Meaning(After(parts[i], 2))]]

Continuations == {<<>>} \cup {<<t>> : t \in Tokens} \cup {<<t, u>> : t, u \in Tokens}

\* The parser accepts the texts of the grammar and no other, and fails no text
\* that could still become one; the value it builds is the text's, and it
\* reports every duplicate and reserved key and the outermost containers past
\* the limit, each at its pointer, and nothing else (document.ts:127-133, 163-308).
ParsesJson ==
    /\ parser.await = "end" <=> IsValue(text)
    /\ parser.await = "error" => \A c \in Continuations : ~IsValue(text \o c)
    /\ parser.await = "end" => parser.found = Wrong(text, <<>>, 0)
    /\ parser.await = "end" /\ parser.found = {} => parser.value = Meaning(text)
===============================================================================
