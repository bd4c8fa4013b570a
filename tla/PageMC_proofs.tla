----------------------------- MODULE PageMC_proofs -----------------------------
(***************************************************************************)
(* What the page keeps, for any catalog, documents, runs, drafts and       *)
(* records.  A scenario document without diagnostics composes: what is     *)
(* edited remains a document of the language, and the rest is one          *)
(* implication from the silence of each reader of validate.ts and          *)
(* composition.ts to the conditions of the constructor that trusts it.     *)
(* The reader of a review keeps faith, and the graph that is played back   *)
(* paints the record: both read sequences at some of their places, whose   *)
(* order the first section states once.  An accepted overlay is the design *)
(* that was asked for and its normal form is normal: a list in normal form *)
(* has the entries of the submitted one that are not without effect.  A    *)
(* draft describes what will run: its entries were built for targets that  *)
(* the form finds again.                                                   *)
(***************************************************************************)
EXTENDS PageMC, FiniteSetTheorems, SequenceTheorems, WellFoundedInduction, TLAPS

-----------------------------------------------------------------------------
(* Places: the first and the last of a set, and a sequence at some places.  *)

LEMMA Least ==
    ASSUME NEW T \in SUBSET Nat, T # {}
    PROVE  \E x \in T : \A y \in T : x <= y
  <1> DEFINE R == OpToRel(<, Nat)
  <1>1. IsWellFoundedOn(R, Nat)
    BY NatLessThanWellFounded
  <1>2. \A x, y \in Nat : y < x => <<y, x>> \in R
    BY DEF OpToRel
  <1>3. T \subseteq Nat
    OBVIOUS
  <1> HIDE DEF R
  <1>4. PICK x \in T : \A y \in T : ~(<<y, x>> \in R)
    BY <1>1, <1>3, WFMin
  <1>5. \A y \in T : y \in Nat /\ x \in Nat /\ ~(y < x)
    BY <1>2, <1>4
  <1> QED
    BY <1>5

LEMMA Inductive ==
    ASSUME NEW T, 0 \in T, \A n \in Nat : n \in T => n + 1 \in T
    PROVE  Nat \subseteq T
  <1> SUFFICES ASSUME Nat \ T # {} PROVE FALSE
    OBVIOUS
  <1> DEFINE U == Nat \ T
  <1>1. U \in SUBSET Nat /\ U # {}
    OBVIOUS
  <1> HIDE DEF U
  <1>2. PICK x \in U : \A y \in U : x <= y
    BY <1>1, Least
  <1>3. x \in Nat /\ x \notin T
    BY DEF U
  <1>4. x # 0 /\ x - 1 \in Nat /\ (x - 1) + 1 = x /\ ~(x <= x - 1)
    BY <1>3
  <1>5. x - 1 \notin U
    BY <1>2, <1>4
  <1>6. x - 1 \in T
    BY <1>4, <1>5 DEF U
  <1> QED
    BY <1>3, <1>4, <1>6

LEMMA Latest ==
  ASSUME NEW S, S # {}, NEW n \in Nat, S \subseteq 1..n
  PROVE \E x \in S : \A y \in S : y <= x
  <1> DEFINE T == {n - x : x \in S}
  <1>0. \A x \in S : x \in 1..n /\ n - x \in Nat
    OBVIOUS
  <1>1. T \in SUBSET Nat /\ T # {}
    BY <1>0
  <1> HIDE DEF T
  <1>2. PICK t \in T : \A u \in T : t <= u
    BY <1>1, Least
  <1>3. PICK x \in S : t = n - x
    BY DEF T
  <1>4. \A y \in S : n - y \in T
    BY DEF T
  <1>5. \A y \in S : n - x <= n - y
    BY <1>2, <1>3, <1>4
  <1> QED BY <1>0, <1>5

\* The elements of s at the places up to n that are in places: q, where e says
\* the place of each.
Chain(e, q, s, places, n) ==
    /\ q \in Seq({s[i] : i \in 1..n})
    /\ e \in [1..Len(q) -> 1..n]
    /\ \A k \in 1..Len(q) : e[k] \in places /\ q[k] = s[e[k]]
    /\ \A k, l \in 1..Len(q) : k < l => e[k] < e[l]
    /\ \A i \in 1..n : i \in places => \E k \in 1..Len(q) : e[k] = i
Chained(q, s, places, n) == \E e : Chain(e, q, s, places, n)

LEMMA ChainedNone == ASSUME NEW s, NEW places PROVE Chained(<<>>, s, places, 0)
  <1>1. Len(<<>>) = 0 /\ 1..0 = {} /\ <<>> \in Seq({s[i] : i \in 1..0})
    OBVIOUS
  <1> DEFINE e == [k \in 1..0 |-> k]
  <1>2. e \in [1..Len(<<>>) -> 1..0]
    BY <1>1
  <1> HIDE DEF e
  <1>3. Chain(e, <<>>, s, places, 0)
    BY <1>1, <1>2 DEF Chain
  <1> QED BY <1>3 DEF Chained

LEMMA ChainedSkips ==
  ASSUME NEW s, NEW places, NEW n \in Nat, n + 1 \notin places, NEW q, Chained(q, s, places, n)
  PROVE Chained(q, s, places, n + 1)
  <1>1. PICK e : Chain(e, q, s, places, n)
    BY DEF Chained
  <1>2. 1..n \subseteq 1..(n + 1) /\ \A i \in 1..(n + 1) : i \in 1..n \/ i = n + 1
    OBVIOUS
  <1>3. q \in Seq({s[i] : i \in 1..(n + 1)})
    <2>1. {s[i] : i \in 1..n} \subseteq {s[i] : i \in 1..(n + 1)}
      BY <1>2
    <2>2. q \in Seq({s[i] : i \in 1..n})
      BY <1>1 DEF Chain
    <2> QED BY <2>1, <2>2, SeqMonotonic
  <1>4. e \in [1..Len(q) -> 1..(n + 1)]
    <2>1. e \in [1..Len(q) -> 1..n]
      BY <1>1 DEF Chain
    <2> QED BY <1>2, <2>1
  <1>5. \A i \in 1..(n + 1) : i \in places => \E k \in 1..Len(q) : e[k] = i
    BY <1>1, <1>2 DEF Chain
  <1>6. Chain(e, q, s, places, n + 1)
    BY <1>1, <1>3, <1>4, <1>5 DEF Chain
  <1> QED BY <1>6 DEF Chained

LEMMA ChainedTakes ==
  ASSUME NEW s, NEW places, NEW n \in Nat, n + 1 \in places, NEW q, Chained(q, s, places, n)
  PROVE Chained(q \o <<s[n + 1]>>, s, places, n + 1)
  <1>1. PICK e : Chain(e, q, s, places, n)
    BY DEF Chained
  <1> DEFINE S == {s[i] : i \in 1..(n + 1)}
             x == s[n + 1]
             p == q \o <<x>>
             m == Len(q)
             d == [k \in 1..(m + 1) |-> IF k = m + 1 THEN n + 1 ELSE e[k]]
  <1>2. 1..n \subseteq 1..(n + 1) /\ n + 1 \in 1..(n + 1) /\ \A i \in 1..(n + 1) : i \in 1..n \/ i = n + 1
    OBVIOUS
  <1>3. q \in Seq(S) /\ x \in S
    <2>1. {s[i] : i \in 1..n} \subseteq {s[i] : i \in 1..(n + 1)}
      BY <1>2
    <2>2. q \in Seq({s[i] : i \in 1..n})
      BY <1>1 DEF Chain
    <2> QED BY <1>2, <2>1, <2>2, SeqMonotonic
  <1> HIDE DEF x, S
  <1>4. m \in Nat
    BY <1>3, LenProperties
  <1>5. p \in Seq(S) /\ Len(p) = m + 1 /\ (\A k \in 1..m : p[k] = q[k]) /\ p[m + 1] = x
    <2>1. p = Append(q, x)
      BY <1>3, AppendIsConcat
    <2> QED BY <1>3, <2>1, AppendProperties
  <1> HIDE DEF p
  <1>6. \A k \in 1..m : k \in 1..(m + 1) /\ k # m + 1
    BY <1>4
  <1>7. \A k \in 1..(m + 1) : k \in 1..m \/ k = m + 1
    BY <1>4
  <1>8. m + 1 \in 1..(m + 1)
    BY <1>4
  <1>9. (\A k \in 1..m : d[k] = e[k]) /\ d[m + 1] = n + 1
    BY <1>6, <1>8
  <1>10. \A k \in 1..m : e[k] \in 1..n /\ e[k] \in places /\ q[k] = s[e[k]]
    BY <1>1 DEF Chain
  <1>11. d \in [1..Len(p) -> 1..(n + 1)]
    BY <1>2, <1>5, <1>7, <1>10
  <1> HIDE DEF d
  <1>12. \A k \in 1..Len(p) : d[k] \in places /\ p[k] = s[d[k]]
    BY <1>5, <1>7, <1>9, <1>10 DEF x
  <1>13. \A k, l \in 1..Len(p) : k < l => d[k] < d[l]
    <2> SUFFICES ASSUME NEW k \in 1..Len(p), NEW l \in 1..Len(p), k < l PROVE d[k] < d[l]
      OBVIOUS
    <2>1. k \in 1..m
      BY <1>4, <1>5
    <2>2. CASE l \in 1..m
      BY <1>1, <1>9, <2>1, <2>2 DEF Chain
    <2>3. CASE l = m + 1
      BY <1>9, <1>10, <2>1, <2>3
    <2> QED BY <1>5, <1>7, <2>2, <2>3
  <1>14. \A i \in 1..(n + 1) : i \in places => \E k \in 1..Len(p) : d[k] = i
    <2> SUFFICES ASSUME NEW i \in 1..(n + 1), i \in places PROVE \E k \in 1..Len(p) : d[k] = i
      OBVIOUS
    <2>1. CASE i \in 1..n
      <3>1. PICK k \in 1..m : e[k] = i
        BY <1>1, <2>1 DEF Chain
      <3> QED BY <1>5, <1>6, <1>9, <3>1
    <2>2. CASE i = n + 1
      BY <1>5, <1>8, <1>9, <2>2
    <2> QED BY <1>2, <2>1, <2>2
  <1>15. Chain(d, p, s, places, n + 1)
    BY <1>5, <1>11, <1>12, <1>13, <1>14 DEF Chain, S
  <1> QED BY <1>15 DEF Chained, p, x

\* The function of AtPlaces is there, and has what was taken.
Takes(g, s, places, n) == g = [k \in 0..n |-> IF k = 0 THEN <<>> ELSE g[k - 1] \o IF k \in places THEN <<s[k]>> ELSE <<>>]

LEMMA TakingStep ==
  ASSUME NEW s, NEW places, NEW n \in Nat, NEW g, Takes(g, s, places, n)
  PROVE \E h : Takes(h, s, places, n + 1)
  <1> DEFINE add(k) == IF k \in places THEN <<s[k]>> ELSE <<>>
             x == g[n] \o add(n + 1)
             h == [m \in 0..(n + 1) |-> IF m = n + 1 THEN x ELSE g[m]]
  <1>1. \A m \in 0..n : g[m] = IF m = 0 THEN <<>> ELSE g[m - 1] \o add(m)
    BY DEF Takes
  <1> HIDE DEF add
  <1>2. \A m \in 0..n : h[m] = g[m]
    OBVIOUS
  <1>3. h[n + 1] = x
    OBVIOUS
  <1>4. h[n + 1] = h[n] \o add(n + 1)
    BY <1>2, <1>3
  <1>5. \A m \in 0..n : m # 0 => m - 1 \in 0..n
    OBVIOUS
  <1>6. \A m \in 0..(n + 1) : h[m] = IF m = 0 THEN <<>> ELSE h[m - 1] \o add(m)
    <2> SUFFICES ASSUME NEW m \in 0..(n + 1) PROVE h[m] = IF m = 0 THEN <<>> ELSE h[m - 1] \o add(m)
      OBVIOUS
    <2> HIDE DEF h
    <2>1. CASE m \in 0..n
      BY <1>1, <1>2, <1>5, <2>1
    <2>2. CASE m = n + 1
      <3>1. m - 1 = n /\ m # 0
        BY <2>2
      <3> QED BY <1>4, <2>2, <3>1
    <2> QED BY <2>1, <2>2
  <1>7. h = [m \in 0..(n + 1) |-> h[m]]
    OBVIOUS
  <1> HIDE DEF h
  <1>8. Takes(h, s, places, n + 1)
    BY <1>6, <1>7 DEF Takes, add
  <1> QED BY <1>8

LEMMA TakingThere == ASSUME NEW s, NEW places, NEW n \in Nat PROVE \E g : Takes(g, s, places, n)
  <1> DEFINE T == {k \in Nat : \E g : Takes(g, s, places, k)}
  <1>1. 0 \in T
    <2> DEFINE g == [m \in 0..0 |-> <<>>]
    <2>1. g = [m \in 0..0 |-> IF m = 0 THEN <<>> ELSE g[m - 1] \o IF m \in places THEN <<s[m]>> ELSE <<>>]
      OBVIOUS
    <2> HIDE DEF g
    <2> QED BY <2>1 DEF Takes
  <1>2. \A k \in Nat : k \in T => k + 1 \in T
    BY TakingStep
  <1> HIDE DEF T
  <1>3. Nat \subseteq T
    BY <1>1, <1>2, Inductive
  <1> QED BY <1>3 DEF T

LEMMA AtPlacesChained == ASSUME NEW s, NEW places, Len(s) \in Nat PROVE Chained(AtPlaces(s, places), s, places, Len(s))
  <1> DEFINE f == CHOOSE g : Takes(g, s, places, Len(s))
             T == {n \in Nat : n <= Len(s) => Chained(f[n], s, places, n)}
  <1>2. f = [n \in 0..Len(s) |-> IF n = 0 THEN <<>> ELSE f[n - 1] \o IF n \in places THEN <<s[n]>> ELSE <<>>]
    <2>1. Takes(f, s, places, Len(s))
      BY TakingThere
    <2> HIDE DEF f
    <2> QED BY <2>1 DEF Takes
  <1>3. AtPlaces(s, places) = f[Len(s)]
    BY DEF AtPlaces, Takes
  <1> HIDE DEF f
  <1>4. 0 \in T
    <2>1. f[0] = <<>>
      BY <1>2
    <2> QED BY <2>1, ChainedNone
  <1>5. \A n \in Nat : n \in T => n + 1 \in T
    <2> SUFFICES ASSUME NEW n \in Nat, n \in T, n + 1 <= Len(s) PROVE Chained(f[n + 1], s, places, n + 1)
      OBVIOUS
    <2>1. Chained(f[n], s, places, n)
      OBVIOUS
    <2>2. f[n + 1] = f[n] \o IF n + 1 \in places THEN <<s[n + 1]>> ELSE <<>>
      <3>1. n + 1 \in 0..Len(s) /\ n + 1 # 0 /\ (n + 1) - 1 = n
        OBVIOUS
      <3> QED BY <1>2, <3>1
    <2>3. CASE n + 1 \in places
      BY <2>1, <2>2, <2>3, ChainedTakes
    <2>4. CASE n + 1 \notin places
      <3>1. f[n] \in Seq({s[i] : i \in 1..n})
        BY <2>1 DEF Chained, Chain
      <3>2. f[n + 1] = f[n]
        BY <2>2, <2>4, <3>1, ConcatEmptySeq
      <3> QED BY <2>1, <2>4, <3>2, ChainedSkips
    <2> QED BY <2>3, <2>4
  <1> HIDE DEF T
  <1>6. Len(s) \in T
    BY <1>4, <1>5, Inductive
  <1> QED BY <1>3, <1>6 DEF T

-----------------------------------------------------------------------------
(* What is edited remains a document.                                       *)

\* A sequence over a set of entries that are right is a section that is right.
LEMMA SectionOf ==
  ASSUME NEW section, NEW S, NEW s \in Seq(S), \A e \in S : Composer!Timed(section, e)
  PROVE s \in Seq({e \in Composer!Values(s) : Composer!Timed(section, e)})
  <1> DEFINE R == {e \in Composer!Values(s) : Composer!Timed(section, e)}
  <1>1. Len(s) \in Nat /\ DOMAIN s = 1..Len(s) /\ s = [i \in 1..Len(s) |-> s[i]]
    BY LenProperties
  <1>2. \A i \in 1..Len(s) : s[i] \in R
    BY <1>1, ElementOfSeq DEF Composer!Values
  <1>3. s \in [1..Len(s) -> R]
    BY <1>1, <1>2, Zenon
  <1> QED BY <1>1, <1>3, SeqDef

LEMMA EditKeepsDocument ==
  ASSUME DocumentsAssumption, Composer!IsDocument(doc), Composer!Edit
  PROVE Composer!IsDocument(doc')
  <1>1. PICK section \in DOMAIN Insertions :
            \/ \E entry \in Insertions[section] : Composer!Insert(section, entry)
            \/ \E i \in DOMAIN doc[section] : Composer!Delete(section, i)
            \/ \E i \in DOMAIN doc[section], entry \in Insertions[section] : Composer!Replace(section, i, entry)
    BY DEF Composer!Edit
  <1> DEFINE S == {e \in Composer!Values(doc[section]) : Composer!Timed(section, e)} \cup Insertions[section]
  <1>2. section \in Composer!Sections /\ \A e \in S : Composer!Timed(section, e)
    BY DEF DocumentsAssumption
  <1>3. doc[section] \in Seq(S)
    <2>1. doc[section] \in Seq({e \in Composer!Values(doc[section]) : Composer!Timed(section, e)})
      BY <1>2 DEF Composer!IsDocument
    <2> QED BY <2>1, SeqMonotonic
  <1>4. \E s \in Seq(S) : doc' = [doc EXCEPT ![section] = s]
    <2> HIDE DEF S
    <2>1. ASSUME NEW entry \in Insertions[section], Composer!Insert(section, entry)
          PROVE Append(doc[section], entry) \in Seq(S) /\ doc' = [doc EXCEPT ![section] = Append(doc[section], entry)]
      BY <1>3, <2>1, AppendProperties DEF S, Composer!Insert
    <2>2. ASSUME NEW i \in DOMAIN doc[section], Composer!Delete(section, i)
          PROVE Composer!RemoveAt(doc[section], i) \in Seq(S) /\ doc' = [doc EXCEPT ![section] = Composer!RemoveAt(doc[section], i)]
      <3>1. i \in 1..Len(doc[section]) /\ Len(doc[section]) \in Nat
        BY <1>3, <2>2, LenProperties
      <3>2. SubSeq(doc[section], 1, i-1) \in Seq(S) /\ SubSeq(doc[section], i+1, Len(doc[section])) \in Seq(S)
        BY <1>3, <3>1, SubSeqProperties
      <3> QED BY <2>2, <3>2, ConcatProperties DEF Composer!Delete, Composer!RemoveAt
    <2>3. ASSUME NEW i \in DOMAIN doc[section], NEW entry \in Insertions[section], Composer!Replace(section, i, entry)
          PROVE Composer!ReplaceAt(doc[section], i, entry) \in Seq(S) /\ doc' = [doc EXCEPT ![section] = Composer!ReplaceAt(doc[section], i, entry)]
      <3>1. i \in 1..Len(doc[section]) /\ entry \in S
        BY <1>3, <2>3, LenProperties DEF S
      <3>2. [doc[section] EXCEPT ![i] = entry] \in Seq(S)
        BY <1>3, <3>1, ExceptSeq
      <3> QED BY <2>3, <3>2 DEF Composer!Replace, Composer!ReplaceAt
    <2> QED BY <1>1, <2>1, <2>2, <2>3
  <1>5. PICK s \in Seq(S) : doc' = [doc EXCEPT ![section] = s]
    BY <1>4
  <1>6. s \in Seq({e \in Composer!Values(s) : Composer!Timed(section, e)})
    BY <1>2, SectionOf
  <1>7. doc = [x \in Composer!Sections |-> doc[x]]
        /\ \A x \in Composer!Sections : doc[x] \in Seq({e \in Composer!Values(doc[x]) : Composer!Timed(x, e)})
    BY DEF Composer!IsDocument
  <1>8. doc' = [x \in Composer!Sections |-> doc'[x]] /\ \A x \in Composer!Sections : doc'[x] = IF x = section THEN s ELSE doc[x]
    <2> HIDE DEF S
    <2> QED BY <1>2, <1>5, <1>7
  <1> QED BY <1>2, <1>6, <1>7, <1>8 DEF Composer!IsDocument

LEMMA DocumentInit == ASSUME DocumentsAssumption, PageInit PROVE Composer!IsDocument(doc)
  BY DEF PageInit, Composer!Init, DocumentsAssumption

LEMMA DocumentNext ==
  ASSUME DocumentsAssumption, Composer!IsDocument(doc), [PageNext]_<<part, scenarioVars, submitted, draftVars, vars, playbackVars>>
  PROVE Composer!IsDocument(doc')
  <1>1. CASE Composer!Edit
    BY <1>1, EditKeepsDocument
  <1>2. CASE doc' = doc
    BY <1>2
  <1> QED BY <1>1, <1>2 DEF PageNext, Others, Still, scenarioVars

-----------------------------------------------------------------------------
(* What a document without diagnostics has.                                 *)

\* Every reader, and the composition rules, found nothing.
Silent(d) ==
    /\ Composer!ComponentDiagnostics(d) = {} /\ Composer!LinkDiagnostics(d) = {} /\ Composer!DatabaseDiagnostics(d) = {}
    /\ Composer!StoreDiagnostics(d) = {} /\ Composer!DestinationDiagnostics(d) = {} /\ Composer!SubscriptionDiagnostics(d) = {}
    /\ Composer!ExternalDiagnostics(d) = {} /\ Composer!FaultDiagnostics(d) = {}
    /\ Composer!ActionDiagnostics(d) = {} /\ Composer!AssertionDiagnostics(d) = {}
    /\ Composer!CheckComposition(d) = {}

LEMMA AcceptedIsSilent == ASSUME NEW d, Composer!Accepted(d) PROVE Silent(d)
  BY DEF Composer!Accepted, Composer!Diagnostics, Composer!ReadArchitecture, Composer!ReadDiagnostics, Silent

\* Components have a model of their kind, and an identity of their own.
Identified(d) ==
    /\ \A c \in Composer!Values(d.components) : c.model \in DOMAIN Descriptors /\ Descriptors[c.model].kind = c.kind
    /\ ~Composer!Repeats(d.components, LAMBDA c : c.id)
    /\ \A c \in Composer!Values(d.components) : Composer!Known(d, c.id) /\ Composer!Found(d, c.id) = c

LEMMA SilentIdentifies == ASSUME NEW d, Composer!IsDocument(d), Silent(d) PROVE Identified(d)
  <1>1. /\ ~Composer!Repeats(d.components, LAMBDA c : c.id)
        /\ \A c \in Composer!Values(d.components) : c.model \in DOMAIN Descriptors /\ Descriptors[c.model].kind = c.kind
    BY DEF Silent, Composer!ComponentDiagnostics, Composer!Say
  <1>2. Composer!ReadComponents(d) = Composer!Values(d.components)
    BY <1>1 DEF Composer!ReadComponents
  <1>3. DOMAIN d.components = 1..Len(d.components) /\ Len(d.components) \in Nat
    BY LenProperties DEF Composer!IsDocument, Composer!Sections
  <1>4. \A c, e \in Composer!Values(d.components) : c.id = e.id => c = e
    BY <1>1, <1>3 DEF Composer!Values, Composer!Repeats
  <1> QED BY <1>1, <1>2, <1>4 DEF Identified, Composer!Known, Composer!Found

\* What is known is a component.
LEMMA KnownIsFound ==
  ASSUME NEW d, NEW id, Composer!Known(d, id)
  PROVE Composer!Found(d, id) \in Composer!Values(d.components) /\ Composer!Found(d, id).id = id
  BY DEF Composer!Known, Composer!Found, Composer!ReadComponents

LEMMA NetworkIsBuilt == ASSUME NEW d, Composer!IsDocument(d), Silent(d) PROVE Composer!NetworkBuilt(d)
  <1>1. Identified(d)
    BY SilentIdentifies
  <1>2. \A i \in DOMAIN d.links : d.links[i].timeout \in Nat /\ d.links[i].failureRate \in Nat
    <2>1. d.links \in Seq({e \in Composer!Values(d.links) : Composer!Timed("links", e)})
      BY DEF Composer!IsDocument, Composer!Sections
    <2> QED BY <2>1, LenProperties, ElementOfSeq DEF Composer!Timed
  <1>3. \A i \in DOMAIN d.links : d.links[i].timeout > 0 /\ d.links[i].failureRate <= 100
    <2>1. \A l \in Composer!Values(d.links) : ~(l.timeout = 0 \/ l.failureRate > 100)
      BY DEF Silent, Composer!LinkDiagnostics, Composer!Say
    <2>2. \A i \in DOMAIN d.links : ~(d.links[i].timeout = 0 \/ d.links[i].failureRate > 100)
      BY <2>1 DEF Composer!Values
    <2> QED BY <1>2, <2>2
  <1>4. /\ \A i \in DOMAIN d.links : Composer!Known(d, d.links[i].source) /\ Composer!Known(d, d.links[i].target)
        /\ \A i, j \in DOMAIN d.links :
              i < j => <<d.links[i].source, d.links[i].target>> # <<d.links[j].source, d.links[j].target>>
    BY <1>3 DEF Silent, Composer!LinkDiagnostics, Composer!Say
  <1> QED BY <1>1, <1>3, <1>4 DEF Identified, Composer!NetworkBuilt, Composer!Known, Composer!ReadComponents, Composer!Values, Composer!Repeats

LEMMA BusIsBuilt == ASSUME NEW d, Silent(d) PROVE Composer!BusBuilt(d)
  BY DEF Silent, Composer!DestinationDiagnostics, Composer!Say, Composer!BusBuilt

LEMMA StoresAreBuilt == ASSUME NEW d, Silent(d) PROVE Composer!StoresBuilt(d)
  BY DEF Silent, Composer!StoreDiagnostics, Composer!OwnerDiagnostics, Composer!Say, Composer!StoresBuilt

\* What the validator leaves to be right of one database, which has been
\* visited.
DatabaseRight(d, b) ==
    /\ ~Composer!Repeats(b.tables, LAMBDA t : t.name)
    /\ \A r \in b.rows : \E t \in Composer!Values(b.tables) : t.name = r.table
    /\ \A t \in Composer!Values(b.tables) :
          /\ Composer!RowsOf(b, t) # {} => t.checks \subseteq Composer!Checks(d, b.owner)
          /\ ~Composer!Clashes(Composer!RowsOf(b, t), t)
          /\ \A r \in Composer!RowsOf(b, t) : Composer!Passes(r, t.checks \cap Composer!Checks(d, b.owner))

LEMMA SilentDatabase == ASSUME NEW d, Silent(d), NEW i \in DOMAIN d.databases PROVE DatabaseRight(d, d.databases[i])
  <1> DEFINE Twice(e) == Composer!Repeats(e.tables, LAMBDA t : t.name)
             Strange(e) == \/ \E r \in e.rows : \A t \in Composer!Values(e.tables) : t.name # r.table
                           \/ \E t \in Composer!Values(e.tables) : Composer!RowsOf(e, t) # {} /\ ~(t.checks \subseteq Composer!Checks(d, e.owner))
             Wrong(e) == \E t \in Composer!Values(e.tables) :
                           \/ Composer!Clashes(Composer!RowsOf(e, t), t)
                           \/ \E r \in Composer!RowsOf(e, t) : ~Composer!Passes(r, t.checks \cap Composer!Checks(d, e.owner))
             Of(e) == Composer!Say("databases", "DUPLICATE", Twice(e)) \cup Composer!Say("databases", "REFERENCE", Strange(e))
                      \cup Composer!Say("databases", "CONSTRAINT", Wrong(e))
             b == d.databases[i]
  <1>1. Composer!DatabaseDiagnostics(d) = Composer!OwnerDiagnostics(d, "databases") \cup UNION {Of(d.databases[k]) : k \in DOMAIN d.databases}
    BY DEF Composer!DatabaseDiagnostics
  <1>2. Of(b) = {}
    <2> HIDE DEF Of
    <2> QED BY <1>1 DEF Silent
  <1>3. ~Twice(b) /\ ~Strange(b) /\ ~Wrong(b)
    <2> HIDE DEF Twice, Strange, Wrong
    <2> QED BY <1>2 DEF Composer!Say
  <1> QED BY <1>3 DEF DatabaseRight

\* What the constructor of a database asks of b.
DatabaseBuilt(d, b) ==
    /\ ~Composer!Repeats(b.tables, LAMBDA t : t.name)
    /\ \A t \in Composer!Values(b.tables) : t.checks \subseteq Composer!Checks(d, b.owner)
    /\ \A r \in b.rows : \E t \in Composer!Values(b.tables) : t.name = r.table /\ Composer!Passes(r, t.checks)
    /\ \A t \in Composer!Values(b.tables) : ~Composer!Clashes(Composer!RowsOf(b, t), t)

LEMMA DatabasesAreBuilt == ASSUME NEW d, Silent(d) PROVE Composer!DatabasesBuilt(d, Composer!Visited(d.databases))
  <1>1. ASSUME NEW i \in DOMAIN d.databases
        PROVE DatabaseBuilt(d, Composer!Visited(d.databases)[i])
    <2> DEFINE b == d.databases[i]
               v == Composer!Visited(d.databases)[i]
    <2>1. DatabaseRight(d, b)
      BY <1>1, SilentDatabase
    <2>2. /\ v.owner = b.owner /\ v.rows = b.rows /\ DOMAIN v.tables = DOMAIN b.tables
          /\ \A j \in DOMAIN b.tables : v.tables[j] = Composer!VisitedTable(b, b.tables[j])
      BY <1>1 DEF Composer!Visited
    <2> HIDE DEF v, b
    <2>3. ASSUME NEW j \in DOMAIN b.tables
          PROVE  /\ v.tables[j].name = b.tables[j].name /\ v.tables[j].unique = b.tables[j].unique
                 /\ v.tables[j].checks = IF Composer!RowsOf(b, b.tables[j]) = {} THEN {} ELSE b.tables[j].checks
                 /\ Composer!RowsOf(v, v.tables[j]) = Composer!RowsOf(b, b.tables[j])
      <3>1. v.tables[j] = Composer!VisitedTable(b, b.tables[j])
        BY <2>2, <2>3
      <3>2. v.tables[j].name = b.tables[j].name
        BY <3>1 DEF Composer!VisitedTable
      <3> QED BY <2>2, <3>1, <3>2 DEF Composer!VisitedTable, Composer!RowsOf
    <2>4. ~Composer!Repeats(v.tables, LAMBDA t : t.name)
      BY <2>1, <2>2, <2>3 DEF DatabaseRight, Composer!Repeats
    <2>5. ASSUME NEW j \in DOMAIN b.tables
          PROVE  /\ v.tables[j].checks \subseteq Composer!Checks(d, v.owner)
                 /\ ~Composer!Clashes(Composer!RowsOf(v, v.tables[j]), v.tables[j])
                 /\ \A r \in Composer!RowsOf(v, v.tables[j]) : Composer!Passes(r, v.tables[j].checks)
      <3> DEFINE t == b.tables[j]
      <3>1. /\ Composer!RowsOf(b, t) # {} => t.checks \subseteq Composer!Checks(d, b.owner)
            /\ ~Composer!Clashes(Composer!RowsOf(b, t), t)
            /\ \A r \in Composer!RowsOf(b, t) : Composer!Passes(r, t.checks \cap Composer!Checks(d, b.owner))
        BY <2>1, <2>5 DEF DatabaseRight, Composer!Values
      <3>2. Composer!RowsOf(b, t) # {} => t.checks \cap Composer!Checks(d, b.owner) = t.checks
        BY <3>1
      <3>3. v.tables[j].checks \subseteq Composer!Checks(d, v.owner)
        BY <2>2, <2>3, <2>5, <3>1
      <3>4. ~Composer!Clashes(Composer!RowsOf(v, v.tables[j]), v.tables[j])
        BY <2>3, <2>5, <3>1 DEF Composer!Clashes
      <3>5. \A r \in Composer!RowsOf(v, v.tables[j]) : Composer!Passes(r, v.tables[j].checks)
        BY <2>3, <2>5, <3>1, <3>2
      <3> QED BY <3>3, <3>4, <3>5
    <2>6. ASSUME NEW r \in v.rows
          PROVE \E t \in Composer!Values(v.tables) : t.name = r.table /\ Composer!Passes(r, t.checks)
      <3>1. PICK j \in DOMAIN b.tables : b.tables[j].name = r.table
        BY <2>1, <2>2, <2>6 DEF DatabaseRight, Composer!Values
      <3>2. v.tables[j].name = r.table /\ r \in Composer!RowsOf(v, v.tables[j]) /\ j \in DOMAIN v.tables
        BY <2>2, <2>3, <2>6, <3>1 DEF Composer!RowsOf
      <3> QED BY <2>5, <3>2 DEF Composer!Values
    <2>7. DatabaseBuilt(d, v)
      BY <2>2, <2>4, <2>5, <2>6 DEF DatabaseBuilt, Composer!Values
    <2> QED BY <2>7 DEF v
  <1> DEFINE visited == Composer!Visited(d.databases)
  <1>2. DOMAIN visited = DOMAIN d.databases
    BY DEF Composer!Visited
  <1> HIDE DEF visited
  <1>3. \A i \in DOMAIN visited : DatabaseBuilt(d, visited[i])
    BY <1>1, <1>2 DEF visited
  <1>4. \A b \in Composer!Values(visited) : DatabaseBuilt(d, b)
    BY <1>3 DEF Composer!Values
  <1>5. Composer!DatabasesBuilt(d, visited)
    BY <1>4 DEF Composer!DatabasesBuilt, DatabaseBuilt
  <1> QED BY <1>5 DEF visited

LEMMA FaultsAreBuilt == ASSUME NEW d, Silent(d) PROVE Composer!FaultsBuilt(d)
  BY DEF Silent, Composer!FaultDiagnostics, Composer!Say, Composer!FaultsBuilt

LEMMA ExternalsAreConfigured == ASSUME NEW d, Silent(d) PROVE Composer!ConfiguredExternals(d)
  BY DEF Silent, Composer!ExternalDiagnostics, Composer!Say, Composer!ConfiguredExternals

\* What the composition rules leave to be right of one component.
ComponentRight(d, c) ==
    LET m == Descriptors[c.model] IN
    /\ \A peer \in m.peers : Composer!PeerDiagnostics(d, c, peer) = {}
    /\ \A n \in m.publishes : \E e \in Composer!Values(d.destinations) : e.id = n
    /\ Composer!StorageDiagnostics(d, c) = {}

LEMMA SilentIsRight ==
  ASSUME NEW d, Silent(d), NEW c \in Composer!Values(d.components)
  PROVE ComponentRight(d, c)
  <1>1. Composer!RuleDiagnostics(d, c) = {}
    BY DEF Silent, Composer!CheckComposition
  <1>2. /\ \A peer \in Descriptors[c.model].peers : Composer!PeerDiagnostics(d, c, peer) = {}
        /\ Composer!PublishDiagnostics(d, c) = {} /\ Composer!StorageDiagnostics(d, c) = {}
    <2>1. Composer!BindingDiagnostics(d, c) = {} /\ Composer!PublishDiagnostics(d, c) = {} /\ Composer!StorageDiagnostics(d, c) = {}
      BY <1>1 DEF Composer!RuleDiagnostics
    <2>2. \A peer \in Descriptors[c.model].peers : Composer!PeerDiagnostics(d, c, peer) = {}
      BY <2>1 DEF Composer!BindingDiagnostics
    <2> QED BY <2>1, <2>2
  <1>3. \A n \in Descriptors[c.model].publishes : \E e \in Composer!Values(d.destinations) : e.id = n
    BY <1>2 DEF Composer!PublishDiagnostics, Composer!Say
  <1> QED BY <1>2, <1>3 DEF ComponentRight

\* A peer that is bound is a component that answers to what it is called for,
\* over a link.
LEMMA PeerIsRight ==
  ASSUME NEW d, NEW c, NEW peer, Composer!PeerDiagnostics(d, c, peer) = {}
  PROVE LET t == Composer!Bound(c, peer) IN
        /\ c.peer # "blank" /\ Composer!Known(d, t) /\ Composer!Linked(d, c.id, t)
        /\ peer.calls \subseteq Composer!Exposed(d, t)
  BY DEF Composer!PeerDiagnostics, Composer!Say

LEMMA RuntimesAreBuilt == ASSUME NEW d, Composer!IsDocument(d), Silent(d) PROVE Composer!RuntimesBuilt(d)
  <1> SUFFICES ASSUME NEW c \in Composer!Values(d.components)
               PROVE /\ c.model \in DOMAIN Descriptors
                     /\ c.kind = "service" => \A n \in Descriptors[c.model].consumers : \E e \in Composer!Values(d.destinations) : e.id = n
                     /\ Descriptors[c.model].peers # {} => c.peer # "blank"
    BY DEF Composer!RuntimesBuilt
  <1>1. c.model \in DOMAIN Descriptors /\ c \in Composer!ReadComponents(d)
    BY SilentIdentifies DEF Identified, Composer!ReadComponents
  <1>2. ASSUME c.kind = "service", NEW n \in Descriptors[c.model].consumers
        PROVE \E e \in Composer!Values(d.destinations) : e.id = n
    <2>1. Composer!Subscribed(d, c.id, n)
      BY <1>1, <1>2 DEF Silent, Composer!SubscriptionDiagnostics, Composer!Say
    <2>2. \A s \in Composer!Values(d.subscriptions) : \E e \in Composer!Values(d.destinations) : e.id = s.destination
      BY DEF Silent, Composer!SubscriptionDiagnostics, Composer!Say
    <2> QED BY <2>1, <2>2 DEF Composer!Subscribed
  <1>3. Descriptors[c.model].peers # {} => c.peer # "blank"
    BY SilentIsRight, PeerIsRight DEF ComponentRight
  <1> QED BY <1>1, <1>2, <1>3

LEMMA ComponentsAreWired == ASSUME NEW d, Composer!IsDocument(d), Silent(d) PROVE Composer!Wired(d)
  <1> SUFFICES ASSUME NEW c \in Composer!Values(d.components)
               PROVE LET m == Descriptors[c.model] IN
                     /\ \A peer \in m.peers : LET t == Composer!Bound(c, peer) IN
                           /\ Composer!Linked(d, c.id, t)
                           /\ \E o \in Composer!Values(d.components) :
                                 /\ o.id = t
                                 /\ peer.calls \subseteq IF Descriptors[o.model].placeholder THEN o.interface ELSE Descriptors[o.model].endpoints
                     /\ \A n \in m.publishes : \E e \in Composer!Values(d.destinations) : e.id = n
                     /\ \A n \in m.tables : \E b \in Composer!Values(d.databases) : b.owner = c.id /\ \E t \in Composer!Values(b.tables) : t.name = n
                     /\ m.store => \E s \in Composer!Values(d.stores) : s.owner = c.id
    BY DEF Composer!Wired
  <1>1. ComponentRight(d, c)
    BY SilentIsRight
  <1>2. ASSUME NEW peer \in Descriptors[c.model].peers
        PROVE LET t == Composer!Bound(c, peer) IN
              /\ Composer!Linked(d, c.id, t)
              /\ \E o \in Composer!Values(d.components) :
                    /\ o.id = t
                    /\ peer.calls \subseteq IF Descriptors[o.model].placeholder THEN o.interface ELSE Descriptors[o.model].endpoints
    <2> DEFINE t == Composer!Bound(c, peer)
    <2>1. Composer!Known(d, t) /\ Composer!Linked(d, c.id, t) /\ peer.calls \subseteq Composer!Exposed(d, t)
      BY <1>1, PeerIsRight DEF ComponentRight
    <2>2. Composer!Found(d, t) \in Composer!Values(d.components) /\ Composer!Found(d, t).id = t
      BY <2>1, KnownIsFound
    <2> QED BY <2>1, <2>2 DEF Composer!Exposed, Composer!Model
  <1>3. /\ \A n \in Descriptors[c.model].tables : \E b \in Composer!Values(d.databases) : b.owner = c.id /\ \E t \in Composer!Values(b.tables) : t.name = n
        /\ Descriptors[c.model].store => \E s \in Composer!Values(d.stores) : s.owner = c.id
    <2> DEFINE owned == UNION {{t.name : t \in Composer!Values(b.tables)} : b \in {e \in Composer!Values(d.databases) : e.owner = c.id}}
    <2>1. ~(~(Descriptors[c.model].tables \subseteq owned) \/ (Descriptors[c.model].store /\ \A s \in Composer!Values(d.stores) : s.owner # c.id))
      BY <1>1 DEF ComponentRight, Composer!StorageDiagnostics, Composer!Say
    <2>2. \A n \in owned : \E b \in Composer!Values(d.databases) : b.owner = c.id /\ \E t \in Composer!Values(b.tables) : t.name = n
      OBVIOUS
    <2> HIDE DEF owned
    <2> QED BY <2>1, <2>2, Zenon
  <1> QED BY <1>1, <1>2, <1>3 DEF ComponentRight

\* The start of a document is a time.
LEMMA StartIsTime == ASSUME NEW d, Composer!IsDocument(d) PROVE Composer!Start(d) \in Nat
  <1>1. /\ d.startTime \in Seq({e \in Composer!Values(d.startTime) : Composer!Timed("startTime", e)})
        /\ d.configStart \in Seq({e \in Composer!Values(d.configStart) : Composer!Timed("configStart", e)})
    BY DEF Composer!IsDocument, Composer!Sections, Composer!Single
  <1>2. d.startTime \in Seq(Nat) /\ d.configStart \in Seq(Nat)
    BY <1>1, SeqMonotonic DEF Composer!Timed, Composer!Single
  <1>3. <<0>> \in Seq(Nat) /\ Len(<<0>>) = 1
    OBVIOUS
  <1>4. d.startTime \o d.configStart \in Seq(Nat) /\ Len(d.startTime \o d.configStart) \in Nat
    BY <1>2, ConcatProperties, LenProperties
  <1>5. d.startTime \o d.configStart \o <<0>> \in Seq(Nat) /\ Len(d.startTime \o d.configStart \o <<0>>) = Len(d.startTime \o d.configStart) + 1
    BY <1>3, <1>4, ConcatProperties
  <1>6. d.startTime \o d.configStart \o <<0>> # <<>>
    BY <1>4, <1>5, EmptySeq
  <1> QED BY <1>5, <1>6, HeadTailProperties DEF Composer!Start

LEMMA ActionsAreDispatched == ASSUME NEW d, Composer!IsDocument(d), Silent(d) PROVE Composer!ActionsDispatched(d)
  <1> SUFFICES ASSUME NEW a \in Composer!Values(d.actions)
               PROVE /\ a.at >= Composer!Start(d)
                     /\ Composer!Known(d, a.target) /\ Composer!Kind(d, a.target) = Composer!Aimed[a.kind]
                     /\ a.kind = "client" => a.name \in Composer!Model(d, a.target).actions
                     /\ a.kind = "behavior" => a.name \in Composer!Operations(d, a.target)
    BY DEF Composer!ActionsDispatched
  <1>1. a.at \in Nat
    <2>1. d.actions \in Seq({e \in Composer!Values(d.actions) : Composer!Timed("actions", e)})
      BY DEF Composer!IsDocument, Composer!Sections
    <2> QED BY <2>1, LenProperties, ElementOfSeq DEF Composer!Timed, Composer!Values
  <1>2. ~(a.at < Composer!Start(d)) /\ Composer!Known(d, a.target)
    BY DEF Silent, Composer!ActionDiagnostics, Composer!Say
  <1>3. UNION {Composer!AimDiagnostics(d, e) : e \in Composer!Values(d.actions)} = {}
    BY DEF Silent, Composer!ActionDiagnostics
  <1>4. Composer!AimDiagnostics(d, a) = {}
    BY <1>3
  <1>5. /\ a.kind = "client" => a.name \in Composer!Model(d, a.target).actions
        /\ a.kind = "behavior" => a.name \in Composer!Operations(d, a.target)
    BY <1>2, <1>4 DEF Composer!AimDiagnostics, Composer!Say
  <1>6. Composer!Kind(d, a.target) = Composer!Aimed[a.kind]
    <2> DEFINE code == IF Composer!ScheduledFault(a) THEN "FAULT" ELSE "REFERENCE"
    <2>1. Composer!Say("actions", code, Composer!Known(d, a.target) /\ Composer!Kind(d, a.target) # Composer!Aimed[a.kind]) = {}
      BY <1>4 DEF Composer!AimDiagnostics
    <2> HIDE DEF code
    <2> QED BY <1>2, <2>1 DEF Composer!Say
  <1> QED BY <1>1, <1>2, <1>5, <1>6, StartIsTime

LEMMA MarkersAreScheduled == ASSUME NEW d, Composer!IsDocument(d), Silent(d) PROVE Composer!MarkersScheduled(d)
  <1> SUFFICES ASSUME NEW a \in Composer!Values(d.assertions)
               PROVE a.predicate \in Judged /\ \A t \in Composer!Values(a.at \o a.deadline) : t >= Composer!Start(d)
    BY DEF Composer!MarkersScheduled
  <1>1. a.at \o a.deadline \in Seq(Nat)
    <2>1. d.assertions \in Seq({e \in Composer!Values(d.assertions) : Composer!Timed("assertions", e)})
      BY DEF Composer!IsDocument, Composer!Sections
    <2>2. a.at \in Seq(Nat) /\ a.deadline \in Seq(Nat)
      BY <2>1, LenProperties, ElementOfSeq DEF Composer!Timed, Composer!Values
    <2> QED BY <2>2, ConcatProperties
  <1>2. \A t \in Composer!Values(a.at \o a.deadline) : t \in Nat
    <2> DEFINE s == a.at \o a.deadline
    <2>1. DOMAIN s = 1..Len(s) /\ \A i \in 1..Len(s) : s[i] \in Nat
      BY <1>1, LenProperties, ElementOfSeq
    <2> QED BY <2>1 DEF Composer!Values
  <1>3. a.predicate \in Judged /\ \A t \in Composer!Values(a.at \o a.deadline) : ~(t < Composer!Start(d))
    BY DEF Silent, Composer!AssertionDiagnostics, Composer!Say
  <1> QED BY <1>2, <1>3, StartIsTime

-----------------------------------------------------------------------------

\* Whatever an author does to the documents it begins with, a scenario
\* document the validator accepts composes: no constructor of the kernel
\* refuses a part of it, but for an unknown check of a table without rows; every
\* action has a component that can take it, and no component lacks a link,
\* endpoint, destination or storage its model uses.
THEOREM AcceptedDocumentsCompose == PageSpec => []AcceptedComposes
  <1>1. ASSUME Composer!IsDocument(doc) PROVE AcceptedComposes
    <2> SUFFICES ASSUME Composer!Accepted(doc)
                 PROVE /\ Composer!NetworkBuilt(doc) /\ Composer!BusBuilt(doc) /\ Composer!StoresBuilt(doc) /\ Composer!DatabasesBuilt(doc, Composer!Visited(doc.databases))
                       /\ Composer!FaultsBuilt(doc) /\ Composer!RuntimesBuilt(doc) /\ Composer!ConfiguredExternals(doc)
                       /\ Composer!ActionsDispatched(doc) /\ Composer!MarkersScheduled(doc) /\ Composer!Wired(doc)
      BY DEF AcceptedComposes, Composer!AcceptedComposes
    <2>1. Silent(doc)
      BY AcceptedIsSilent
    <2> QED BY <1>1, <2>1, NetworkIsBuilt, BusIsBuilt, StoresAreBuilt, DatabasesAreBuilt, FaultsAreBuilt, RuntimesAreBuilt,
               ExternalsAreConfigured, ActionsAreDispatched, MarkersAreScheduled, ComponentsAreWired
  <1>2. PageInit => Composer!IsDocument(doc)
    BY DocumentInit, DocumentsAssumption
  <1>3. Composer!IsDocument(doc) /\ [PageNext]_<<part, scenarioVars, submitted, draftVars, vars, playbackVars>> => Composer!IsDocument(doc)'
    BY DocumentNext, DocumentsAssumption
  <1> QED BY <1>1, <1>2, <1>3, PTL DEF PageSpec

-----------------------------------------------------------------------------
(* Drafts: revealing a record clears what hides it                          *)

\* What is left of a draft when it may not hide o.
Revealed(r, d, o) ==
    /\ IsDraft(r)
    /\ r.from = (IF Valid(d.from) /\ Below(d.from, o.time) THEN d.from ELSE <<>>)
    /\ r.to = (IF Valid(d.to) /\ Above(d.to, o.time) THEN d.to ELSE <<>>)
    /\ r.trace = (IF MatchesAny(o.trace, d.trace) THEN d.trace ELSE Blank)
    /\ r.text = [f \in Fields |-> IF MatchesAny(o.text[f], d.text[f]) THEN d.text[f] ELSE Blank]
    /\ MatchesEntity(o, d.entityKind, d.entityId) => r.entityKind = d.entityKind /\ r.entityId = d.entityId
    /\ ~MatchesEntity(o, d.entityKind, d.entityId) => ~Asked(r.entityKind) /\ ~Asked(r.entityId)

LEMMA BlankUnasked == ~Asked(Blank)
  BY DEF Asked, Blank

LEMMA BoundsMeet ==
  ASSUME NEW a, NEW b, IsBound(a), IsBound(b), NEW t \in Int, Below(a, t), Above(b, t), a # <<>>, b # <<>>
  PROVE a[1] <= b[1]
  BY DEF IsBound, Below, Above

LEMMA ClearedBounds ==
  ASSUME NEW d, IsDraft(d), NEW o, o.time \in Int, NEW b, b = ClearBounds(d, o)
  PROVE /\ Parses(b)
        /\ b.from = (IF Valid(d.from) /\ Below(d.from, o.time) THEN d.from ELSE <<>>)
        /\ b.to = (IF Valid(d.to) /\ Above(d.to, o.time) THEN d.to ELSE <<>>)
        /\ b = [from |-> b.from, to |-> b.to, trace |-> d.trace, text |-> d.text, entityKind |-> d.entityKind, entityId |-> d.entityId]
  <1> DEFINE from == IF Valid(d.from) /\ Below(d.from, o.time) THEN d.from ELSE <<>>
             to == IF Valid(d.to) /\ Above(d.to, o.time) THEN d.to ELSE <<>>
             c == [d EXCEPT !.from = IF Valid(@) /\ Below(@, o.time) THEN @ ELSE <<>>,
                            !.to = IF Valid(@) /\ Above(@, o.time) THEN @ ELSE <<>>]
  <1>1. d = [from |-> d.from, to |-> d.to, trace |-> d.trace, text |-> d.text, entityKind |-> d.entityKind, entityId |-> d.entityId]
    BY DEF IsDraft
  <1>2. c = [from |-> from, to |-> to, trace |-> d.trace, text |-> d.text, entityKind |-> d.entityKind, entityId |-> d.entityId]
    <2>1. c = [d EXCEPT !.from = from, !.to = to]
      OBVIOUS
    <2> HIDE DEF c, from, to
    <2> QED BY <1>1, <2>1
  <1>3. c.from = from /\ c.to = to
    BY <1>2
  <1> HIDE DEF c
  <1>4. Valid(<<>>) /\ Below(<<>>, o.time) /\ Above(<<>>, o.time)
    BY DEF Valid, Below, Above
  <1>5. Valid(from) /\ Below(from, o.time) /\ Valid(to) /\ Above(to, o.time)
    BY <1>4
  <1>6. IsBound(from) /\ IsBound(to)
    BY DEF IsDraft, IsBound
  <1> HIDE DEF from, to
  <1>7. Parses(c)
    BY <1>3, <1>5, <1>6, BoundsMeet DEF Parses
  <1>8. ClearBounds(d, o) = c
    BY <1>7 DEF ClearBounds, c
  <1> QED BY <1>2, <1>3, <1>7, <1>8 DEF from, to

LEMMA RevealIs ==
  ASSUME NEW d, IsDraft(d), NEW o, o.time \in Int, NEW r, r = Reveal(d, o)
  PROVE Revealed(r, d, o) /\ Parses(r)
  <1> DEFINE b == ClearBounds(d, o)
             entity == MatchesEntity(o, b.entityKind, b.entityId)
             clear(c) == IF Asked(c) THEN Blank ELSE c
             text == [f \in Fields |-> IF MatchesAny(o.text[f], b.text[f]) THEN b.text[f] ELSE Blank]
  <1>1. /\ Parses(b)
        /\ b.from = (IF Valid(d.from) /\ Below(d.from, o.time) THEN d.from ELSE <<>>)
        /\ b.to = (IF Valid(d.to) /\ Above(d.to, o.time) THEN d.to ELSE <<>>)
        /\ b = [from |-> b.from, to |-> b.to, trace |-> d.trace, text |-> d.text, entityKind |-> d.entityKind, entityId |-> d.entityId]
    BY ClearedBounds
  <1>2. Reveal(d, o) = [b EXCEPT !.trace = IF MatchesAny(o.trace, @) THEN @ ELSE Blank,
                                 !.text = [f \in Fields |-> IF MatchesAny(o.text[f], @[f]) THEN @[f] ELSE Blank],
                                 !.entityKind = IF entity THEN @ ELSE clear(@),
                                 !.entityId = IF entity THEN @ ELSE clear(@)]
    BY DEF Reveal
  <1> HIDE DEF b
  <1>3. b.trace = d.trace /\ b.text = d.text /\ b.entityKind = d.entityKind /\ b.entityId = d.entityId
    BY <1>1
  <1> DEFINE trace == IF MatchesAny(o.trace, d.trace) THEN d.trace ELSE Blank
             kind == IF entity THEN d.entityKind ELSE clear(d.entityKind)
             id == IF entity THEN d.entityId ELSE clear(d.entityId)
  <1>4. r = [from |-> b.from, to |-> b.to, trace |-> trace, text |-> text, entityKind |-> kind, entityId |-> id]
    BY <1>1, <1>2, <1>3
  <1>5. /\ r.from = b.from /\ r.to = b.to /\ r.trace = trace /\ r.text = text /\ r.entityKind = kind /\ r.entityId = id
    BY <1>4
  <1>6. Parses(r)
    BY <1>1, <1>5 DEF Parses
  <1>7. IsBound(b.from) /\ IsBound(b.to)
    BY <1>1 DEF IsDraft, IsBound
  <1>8. text = [f \in Fields |-> text[f]]
    OBVIOUS
  <1>9. IsDraft(r)
    <2> HIDE DEF trace, kind, id, text
    <2> QED BY <1>4, <1>5, <1>7, <1>8 DEF IsDraft
  <1>10. ~entity => ~Asked(kind) /\ ~Asked(id)
    BY BlankUnasked
  <1>11. text = [f \in Fields |-> IF MatchesAny(o.text[f], d.text[f]) THEN d.text[f] ELSE Blank]
    BY <1>3
  <1> HIDE DEF text
  <1> QED BY <1>1, <1>3, <1>5, <1>6, <1>9, <1>10, <1>11 DEF Revealed

\* A query matches what the draft it is read from matches.
Matching(o, d) ==
    /\ Below(d.from, o.time) /\ Above(d.to, o.time)
    /\ MatchesAny(o.trace, d.trace) /\ MatchesEntity(o, d.entityKind, d.entityId)
    /\ \A f \in Fields : MatchesAny(o.text[f], d.text[f])

LEMMA ParsedMatches == ASSUME NEW d, IsDraft(d), NEW o PROVE MatchesQuery(o, Parse(d)) <=> Matching(o, d)
  <1> DEFINE read(c) == IF Asked(c) THEN c ELSE Blank
             p == Parse(d)
  <1>1. p = [d EXCEPT !.trace = read(@), !.text = [f \in Fields |-> read(@[f])], !.entityKind = read(@), !.entityId = read(@)]
    BY DEF Parse
  <1>2. d = [from |-> d.from, to |-> d.to, trace |-> d.trace, text |-> d.text, entityKind |-> d.entityKind, entityId |-> d.entityId]
    BY DEF IsDraft
  <1>3. /\ p.from = d.from /\ p.to = d.to /\ p.trace = read(d.trace) /\ p.entityKind = read(d.entityKind) /\ p.entityId = read(d.entityId)
        /\ p.text = [f \in Fields |-> read(d.text[f])]
    BY <1>1, <1>2
  <1> HIDE DEF p
  <1>4. \A c : (Asked(read(c)) <=> Asked(c)) /\ (Asked(c) => read(c) = c)
    BY BlankUnasked
  <1>5. \A f \in Fields : p.text[f] = read(d.text[f])
    BY <1>3
  <1> HIDE DEF read
  <1>6. \A stored, c : MatchesAny(stored, read(c)) <=> MatchesAny(stored, c)
    BY <1>4 DEF MatchesAny
  <1>7. MatchesEntity(o, p.entityKind, p.entityId) <=> MatchesEntity(o, d.entityKind, d.entityId)
    BY <1>3, <1>4 DEF MatchesEntity
  <1> QED BY <1>3, <1>5, <1>6, <1>7 DEF MatchesQuery, Matching, p

LEMMA RevealMatches ==
  ASSUME NEW d, IsDraft(d), NEW o, o.time \in Int, NEW r, Revealed(r, d, o)
  PROVE MatchesQuery(o, Parse(r))
  <1>1. \A stored : MatchesAny(stored, Blank)
    BY BlankUnasked DEF MatchesAny
  <1>2. Below(r.from, o.time) /\ Above(r.to, o.time)
    BY DEF Revealed, Below, Above
  <1>3. MatchesAny(o.trace, r.trace)
    BY <1>1 DEF Revealed
  <1>4. \A f \in Fields : MatchesAny(o.text[f], r.text[f])
    <2> SUFFICES ASSUME NEW f \in Fields PROVE MatchesAny(o.text[f], r.text[f])
      OBVIOUS
    <2>1. r.text[f] = IF MatchesAny(o.text[f], d.text[f]) THEN d.text[f] ELSE Blank
      BY DEF Revealed
    <2> QED BY <1>1, <2>1
  <1>5. MatchesEntity(o, r.entityKind, r.entityId)
    <2>1. ASSUME ~Asked(r.entityKind), ~Asked(r.entityId) PROVE MatchesEntity(o, r.entityKind, r.entityId)
      BY <2>1 DEF MatchesEntity
    <2> QED BY <2>1 DEF Revealed
  <1>6. Matching(o, r)
    BY <1>2, <1>3, <1>4, <1>5 DEF Matching
  <1> QED BY <1>6, ParsedMatches DEF Revealed

\* A constraint the revealing cleared hides the record when it is put back.
LEMMA PutBackIs ==
  ASSUME NEW r, IsDraft(r), NEW d, IsDraft(d), NEW field \in {"from", "to", "trace"}, NEW p, p = PutBack(r, d, field)
  PROVE /\ IsDraft(p)
        /\ p.from = (IF field = "from" THEN d.from ELSE r.from)
        /\ p.to = (IF field = "to" THEN d.to ELSE r.to)
        /\ p.trace = (IF field = "trace" THEN d.trace ELSE r.trace)
        /\ p.text = r.text /\ p.entityKind = r.entityKind /\ p.entityId = r.entityId
  <1>1. r = [from |-> r.from, to |-> r.to, trace |-> r.trace, text |-> r.text, entityKind |-> r.entityKind, entityId |-> r.entityId]
        /\ r.text = [f \in Fields |-> r.text[f]]
    BY DEF IsDraft
  <1>2. p = [r EXCEPT ![field] = d[field]]
    BY DEF PutBack
  <1>3. CASE field = "from"
    <2>1. p = [from |-> d.from, to |-> r.to, trace |-> r.trace, text |-> r.text, entityKind |-> r.entityKind, entityId |-> r.entityId]
      BY <1>1, <1>2, <1>3
    <2>2. p.from = d.from /\ p.to = r.to /\ p.trace = r.trace /\ p.text = r.text /\ p.entityKind = r.entityKind /\ p.entityId = r.entityId
      BY <2>1
    <2> QED BY <1>1, <1>3, <2>1, <2>2 DEF IsDraft
  <1>4. CASE field = "to"
    <2>1. p = [from |-> r.from, to |-> d.to, trace |-> r.trace, text |-> r.text, entityKind |-> r.entityKind, entityId |-> r.entityId]
      BY <1>1, <1>2, <1>4
    <2>2. p.from = r.from /\ p.to = d.to /\ p.trace = r.trace /\ p.text = r.text /\ p.entityKind = r.entityKind /\ p.entityId = r.entityId
      BY <2>1
    <2> QED BY <1>1, <1>4, <2>1, <2>2 DEF IsDraft
  <1>5. CASE field = "trace"
    <2>1. p = [from |-> r.from, to |-> r.to, trace |-> d.trace, text |-> r.text, entityKind |-> r.entityKind, entityId |-> r.entityId]
      BY <1>1, <1>2, <1>5
    <2>2. p.from = r.from /\ p.to = r.to /\ p.trace = d.trace /\ p.text = r.text /\ p.entityKind = r.entityKind /\ p.entityId = r.entityId
      BY <2>1
    <2> QED BY <1>1, <1>5, <2>1, <2>2 DEF IsDraft
  <1> QED BY <1>3, <1>4, <1>5

LEMMA PutBackEntity ==
  ASSUME NEW r, IsDraft(r), NEW d, NEW p, p = PutBack(r, d, "entity")
  PROVE IsDraft(p) /\ p.entityKind = d.entityKind /\ p.entityId = d.entityId
        /\ (r.entityKind = d.entityKind /\ r.entityId = d.entityId => p = r)
  <1>1. r = [from |-> r.from, to |-> r.to, trace |-> r.trace, text |-> r.text, entityKind |-> r.entityKind, entityId |-> r.entityId]
        /\ r.text = [f \in Fields |-> r.text[f]]
    BY DEF IsDraft
  <1>2. p = [r EXCEPT !.entityKind = d.entityKind, !.entityId = d.entityId]
    BY DEF PutBack
  <1>3. p = [from |-> r.from, to |-> r.to, trace |-> r.trace, text |-> r.text, entityKind |-> d.entityKind, entityId |-> d.entityId]
    BY <1>1, <1>2
  <1>4. p.from = r.from /\ p.to = r.to /\ p.trace = r.trace /\ p.text = r.text /\ p.entityKind = d.entityKind /\ p.entityId = d.entityId
    BY <1>3
  <1> QED BY <1>1, <1>3, <1>4 DEF IsDraft

LEMMA UnmatchedHides == ASSUME NEW o, NEW p, IsDraft(p), ~Matching(o, p) PROVE Hides(o, p)
  BY ParsedMatches DEF Hides

LEMMA OnlyHidingIsCleared ==
  ASSUME NEW d, IsDraft(d), NEW o, NEW r, Revealed(r, d, o), NEW field \in {"from", "to", "trace", "entity"}, PutBack(r, d, field) # r
  PROVE Hides(o, PutBack(r, d, field))
  <1> DEFINE p == PutBack(r, d, field)
  <1>1. IsDraft(r)
    BY DEF Revealed
  <1>2. r = [from |-> r.from, to |-> r.to, trace |-> r.trace, text |-> r.text, entityKind |-> r.entityKind, entityId |-> r.entityId]
    BY <1>1 DEF IsDraft
  <1>3. CASE field = "from"
    <2>1. IsDraft(p) /\ p.from = d.from
      BY <1>1, <1>3, PutBackIs
    <2>2. r.from # d.from
      <3>1. ASSUME r.from = d.from PROVE p = r
        <4>1. p = [r EXCEPT !.from = r.from]
          BY <1>3, <3>1 DEF PutBack
        <4> HIDE DEF p
        <4> QED BY <1>2, <4>1
      <3> QED BY <3>1
    <2>3. ~Valid(d.from) \/ ~Below(d.from, o.time)
      BY <2>2 DEF Revealed
    <2> HIDE DEF p
    <2>4. ~Valid(p.from) => Hides(o, p)
      BY DEF Hides, Parses
    <2>5. ~Below(p.from, o.time) => Hides(o, p)
      BY <2>1, UnmatchedHides DEF Matching
    <2>6. Hides(o, p)
      BY <2>1, <2>3, <2>4, <2>5
    <2> QED BY <2>6 DEF p
  <1>4. CASE field = "to"
    <2>1. IsDraft(p) /\ p.to = d.to
      BY <1>1, <1>4, PutBackIs
    <2>2. r.to # d.to
      <3>1. ASSUME r.to = d.to PROVE p = r
        <4>1. p = [r EXCEPT !.to = r.to]
          BY <1>4, <3>1 DEF PutBack
        <4> HIDE DEF p
        <4> QED BY <1>2, <4>1
      <3> QED BY <3>1
    <2>3. ~Valid(d.to) \/ ~Above(d.to, o.time)
      BY <2>2 DEF Revealed
    <2> HIDE DEF p
    <2>4. ~Valid(p.to) => Hides(o, p)
      BY DEF Hides, Parses
    <2>5. ~Above(p.to, o.time) => Hides(o, p)
      BY <2>1, UnmatchedHides DEF Matching
    <2>6. Hides(o, p)
      BY <2>1, <2>3, <2>4, <2>5
    <2> QED BY <2>6 DEF p
  <1>5. CASE field = "trace"
    <2>1. IsDraft(p) /\ p.trace = d.trace
      BY <1>1, <1>5, PutBackIs
    <2>2. r.trace # d.trace
      <3>1. ASSUME r.trace = d.trace PROVE p = r
        <4>1. p = [r EXCEPT !.trace = r.trace]
          BY <1>5, <3>1 DEF PutBack
        <4> HIDE DEF p
        <4> QED BY <1>2, <4>1
      <3> QED BY <3>1
    <2>3. ~MatchesAny(o.trace, d.trace)
      BY <2>2 DEF Revealed
    <2> HIDE DEF p
    <2>4. Hides(o, p)
      BY <2>1, <2>3, UnmatchedHides DEF Matching
    <2> QED BY <2>4 DEF p
  <1>6. CASE field = "entity"
    <2>1. /\ IsDraft(p) /\ p.entityKind = d.entityKind /\ p.entityId = d.entityId
          /\ (r.entityKind = d.entityKind /\ r.entityId = d.entityId => p = r)
      BY <1>1, <1>6, PutBackEntity
    <2>2. ~MatchesEntity(o, d.entityKind, d.entityId)
      BY <2>1 DEF Revealed
    <2> HIDE DEF p
    <2>3. Hides(o, p)
      BY <2>1, <2>2, UnmatchedHides DEF Matching
    <2> QED BY <2>3 DEF p
  <1> QED BY <1>3, <1>4, <1>5, <1>6

-----------------------------------------------------------------------------
(* What navigation holds on to                                              *)

\* A history as the worker publishes it.
WellNumbered(h) ==
    /\ h \in Seq(AllRecords)
    /\ \A i, j \in 1..Len(h) : h[i].id = h[j].id => i = j

LEMMA PrefixWell == ASSUME NEW run \in Runs, NEW n \in 0..Len(run) PROVE WellNumbered(SubSeq(run, 1, n))
  <1>1. run \in Seq(AllRecords) /\ (\A i, j \in DOMAIN run : run[i].id = run[j].id => i = j)
    BY ReviewAssumption
  <1>2. DOMAIN run = 1..Len(run) /\ Len(run) \in Nat
    BY <1>1, LenProperties
  <1> DEFINE h == SubSeq(run, 1, n)
  <1>3. n \in Int /\ \A i \in 1..n : run[i] \in AllRecords
    BY <1>1, <1>2, ElementOfSeq
  <1>4. h \in Seq(AllRecords) /\ Len(h) = n /\ \A i \in 1..n : h[i] = run[i]
    <2>1. h \in Seq(AllRecords) /\ Len(h) = (IF 1 <= n THEN n - 1 + 1 ELSE 0) /\ \A i \in 1..(n - 1 + 1) : h[i] = run[1 + i - 1]
      BY <1>1, <1>2, <1>3, SubSeqProperties
    <2> HIDE DEF h
    <2>2. n - 1 + 1 = n /\ \A i \in 1..n : 1 + i - 1 = i
      BY <1>2
    <2> QED BY <1>2, <2>1, <2>2
  <1> HIDE DEF h
  <1>5. WellNumbered(h)
    BY <1>1, <1>2, <1>4 DEF WellNumbered
  <1> QED BY <1>5 DEF h

LEMMA HistoryPlaces ==
  ASSUME WellNumbered(history)
  PROVE /\ DOMAIN history = 1..Len(history) /\ Len(history) \in Nat /\ Values(history) \subseteq AllRecords
        /\ \A o : o \in Values(history) <=> \E i \in 1..Len(history) : history[i] = o
        /\ \A o, p \in Values(history) : o.id = p.id => o = p
  <1>1. DOMAIN history = 1..Len(history) /\ Len(history) \in Nat
    BY LenProperties DEF WellNumbered
  <1>2. \A i \in 1..Len(history) : history[i] \in AllRecords
    BY ElementOfSeq DEF WellNumbered
  <1> QED BY <1>1, <1>2 DEF WellNumbered, Values

LEMMA RecordIs ==
  ASSUME WellNumbered(history), NEW o \in Values(history)
  PROVE Record(o.id) = o /\ Recorded(o.id) /\ o.id # 0 /\ o.time \in Int /\ o \in AllRecords
  <1>1. Values(history) \subseteq AllRecords /\ (\A x, p \in Values(history) : x.id = p.id => x = p)
    BY HistoryPlaces
  <1> QED BY <1>1, ReviewAssumption DEF Record, Recorded

\* The rows are the records shown.
LEMMA FilteredRows ==
  ASSUME WellNumbered(history), NEW id, NEW q, NEW rows, rows = Filtered(history, id, q)
  PROVE /\ DOMAIN rows = 1..Len(rows) /\ Len(rows) \in Nat
        /\ \A k \in 1..Len(rows) : rows[k] \in Values(history)
        /\ \A o \in Values(history) : Shows(o, id, q) => \E k \in 1..Len(rows) : rows[k] = o
  <1> DEFINE places == {i \in DOMAIN history : Shows(history[i], id, q)}
  <1>1. DOMAIN history = 1..Len(history) /\ Len(history) \in Nat /\ \A o : o \in Values(history) <=> \E i \in 1..Len(history) : history[i] = o
    BY HistoryPlaces
  <1>2. rows = AtPlaces(history, places)
    BY DEF Filtered
  <1>3. \A i \in 1..Len(history) : i \in places <=> Shows(history[i], id, q)
    BY <1>1
  <1> HIDE DEF places
  <1>4. Chained(rows, history, places, Len(history))
    BY <1>1, <1>2, AtPlacesChained
  <1>5. PICK e : Chain(e, rows, history, places, Len(history))
    BY <1>4 DEF Chained
  <1>6. DOMAIN rows = 1..Len(rows) /\ Len(rows) \in Nat
    BY <1>5, LenProperties DEF Chain
  <1>7. \A k \in 1..Len(rows) : e[k] \in 1..Len(history) /\ rows[k] = history[e[k]]
    BY <1>5 DEF Chain
  <1>8. ASSUME NEW o \in Values(history), Shows(o, id, q) PROVE \E k \in 1..Len(rows) : rows[k] = o
    <2>1. PICK i \in 1..Len(history) : history[i] = o
      BY <1>1
    <2>2. i \in places
      BY <1>3, <1>8, <2>1
    <2>3. PICK k \in 1..Len(rows) : e[k] = i
      BY <1>5, <2>2 DEF Chain
    <2> QED BY <1>7, <2>1, <2>3
  <1> QED BY <1>1, <1>6, <1>7, <1>8

ReviewInv ==
    /\ WellNumbered(history)
    /\ draft \in DOMAIN Drafts /\ filterError = ~Parses(draft)
    /\ PositionIsRecorded

\* The reader is led to the record revealed.
LEMMA IndexFound ==
  ASSUME NEW s, DOMAIN s = 1..Len(s), Len(s) \in Nat, NEW id, \E k \in 1..Len(s) : s[k].id = id
  PROVE IndexIn(s, id) # 0
  <1>1. IndexIn(s, id) \in 1..Len(s)
    BY DEF IndexIn
  <1> QED BY <1>1

LEMMA IndexRange == ASSUME NEW s, DOMAIN s = 1..Len(s), Len(s) \in Nat, NEW id PROVE IndexIn(s, id) \in 0..Len(s)
  BY DEF IndexIn

LEMMA RevealingShows == ASSUME ReviewInv PROVE RevealShows
  <1> SUFFICES ASSUME NEW o \in Values(history), RevealRecord(o.id)
               PROVE /\ view' = "raw" /\ selectedId' = o.id /\ focus'.id = o.id
                     /\ InDom(o)
                     /\ query' = Parse(draft') /\ ~filterError'
                     /\ OnlyHidingCleared(o)
    BY DEF RevealShows
  <1> DEFINE r == Reveal(draft, o)
  <1>1. Record(o.id) = o /\ o.time \in Int /\ o \in AllRecords
    BY RecordIs DEF ReviewInv
  <1>2. IsDraft(draft)
    BY ReviewAssumption DEF ReviewInv
  <1>3. Revealed(r, draft, o) /\ Parses(r)
    BY <1>1, <1>2, RevealIs
  <1>4. /\ draft' = r /\ query' = (IF r = draft THEN query ELSE Parse(r)) /\ filterError' = (r = draft /\ filterError)
        /\ quickView' = (IF Quick(quickView, o) THEN quickView ELSE "none")
        /\ view' = "raw" /\ selectedId' = o.id /\ focus' = [id |-> o.id, token |-> focus.token + 1]
    BY <1>1 DEF RevealRecord, RevealConstraints, Request
  <1> HIDE DEF r
  <1>5. query' = Parse(r) /\ ~filterError'
    BY <1>3, <1>4 DEF ReviewInv, PositionIsRecorded
  <1>6. focus'.id = o.id
    BY <1>4
  <1>7. InDom(o)
    <2> DEFINE rows == Filtered(history, quickView', query')
    <2>1. Shows(o, quickView', query')
      <3>1. MatchesQuery(o, query')
        BY <1>1, <1>2, <1>3, <1>5, RevealMatches
      <3>2. Quick(quickView', o)
        BY <1>4 DEF Quick
      <3> QED BY <3>1, <3>2 DEF Shows
    <2>2. /\ DOMAIN rows = 1..Len(rows) /\ Len(rows) \in Nat
          /\ \A x \in Values(history) : Shows(x, quickView', query') => \E k \in 1..Len(rows) : rows[k] = x
      BY FilteredRows DEF ReviewInv
    <2> HIDE DEF rows
    <2>3. PICK k \in 1..Len(rows) : rows[k] = o
      BY <2>1, <2>2
    <2>4. IndexIn(rows, o.id) # 0
      BY <2>2, <2>3, IndexFound
    <2>5. \A top \in 0..Len(rows) : IndexIn(rows, o.id) \in RawRows(rows, top, selectedId')
      BY <1>4, <2>4 DEF RawRows
    <2> QED BY <2>4, <2>5 DEF InDom, rows
  <1>8. OnlyHidingCleared(o)
    BY <1>2, <1>3, <1>4, OnlyHidingIsCleared DEF OnlyHidingCleared
  <1> QED BY <1>4, <1>5, <1>6, <1>7, <1>8

-----------------------------------------------------------------------------
(* The steps of the reader                                                  *)

LEMMA ParsedEmpty == Parse(EmptyDraft) = EmptyDraft /\ Parses(EmptyDraft)
  <1> DEFINE read(c) == IF Asked(c) THEN c ELSE Blank
             texts == [f \in Fields |-> Blank]
  <1>1. read(Blank) = Blank /\ [f \in Fields |-> read(texts[f])] = texts
    OBVIOUS
  <1>2. EmptyDraft = [from |-> <<>>, to |-> <<>>, trace |-> Blank, text |-> texts, entityKind |-> Blank, entityId |-> Blank]
    BY DEF EmptyDraft
  <1>3. Parse(EmptyDraft) = [EmptyDraft EXCEPT !.trace = read(@), !.text = [f \in Fields |-> read(@[f])], !.entityKind = read(@), !.entityId = read(@)]
    BY DEF Parse
  <1> HIDE DEF read, texts
  <1>4. Parse(EmptyDraft) = EmptyDraft
    <2>1. EmptyDraft.trace = Blank /\ EmptyDraft.text = texts /\ EmptyDraft.entityKind = Blank /\ EmptyDraft.entityId = Blank
      BY <1>2
    <2>2. Parse(EmptyDraft) = [EmptyDraft EXCEPT !.trace = Blank, !.text = texts, !.entityKind = Blank, !.entityId = Blank]
      BY <1>1, <1>3, <2>1
    <2> QED BY <1>2, <2>2
  <1>5. Parses(EmptyDraft)
    BY <1>2 DEF Parses, Valid
  <1> QED BY <1>4, <1>5

\* A step that keeps the history and the draft with its query keeps the
\* invariant if it selects a record of the history.
LEMMA PositionKept ==
  ASSUME ReviewInv, UNCHANGED <<history, liveCueId>>, selectedId' = selectedId \/ \E o \in Values(history) : selectedId' = o.id,
         draft' \in DOMAIN Drafts, filterError' = ~Parses(draft'), ~filterError' => query' = Parse(draft')
  PROVE ReviewInv'
  <1>1. WellNumbered(history)'
    BY DEF ReviewInv, WellNumbered
  <1>2. selectedId' # 0 => Recorded(selectedId)'
    BY DEF ReviewInv, PositionIsRecorded, Recorded, Values
  <1>3. liveCueId' # 0 => Recorded(liveCueId)' /\ Record(liveCueId)'.movement
    BY DEF ReviewInv, PositionIsRecorded, Recorded, Record, Values
  <1>4. PositionIsRecorded'
    BY <1>2, <1>3 DEF PositionIsRecorded
  <1> QED BY <1>1, <1>4 DEF ReviewInv

\* One that leaves the constraints alone.
LEMMA ConstraintsKept ==
  ASSUME ReviewInv, UNCHANGED <<draft, filterError, query>>
  PROVE draft' \in DOMAIN Drafts /\ filterError' = ~Parses(draft') /\ (~filterError' => query' = Parse(draft'))
  BY DEF ReviewInv, PositionIsRecorded

LEMMA ApplyKeeps ==
  ASSUME NEW d \in DOMAIN Drafts, ApplyDraft(d)
  PROVE draft' \in DOMAIN Drafts /\ filterError' = ~Parses(draft') /\ (~filterError' => query' = Parse(draft'))
  BY DEF ApplyDraft

LEMMA SetDraftStep == ASSUME ReviewInv, SetDraft PROVE ReviewInv'
  <1>1. PICK d \in Drafts[draft] : ApplyDraft(d)
    BY DEF SetDraft
  <1>2. d \in DOMAIN Drafts
    BY ReviewAssumption DEF ReviewInv
  <1>3. draft' \in DOMAIN Drafts /\ filterError' = ~Parses(draft') /\ (~filterError' => query' = Parse(draft'))
    BY <1>1, <1>2, ApplyKeeps
  <1> QED BY <1>3, PositionKept DEF SetDraft, Counted

LEMMA ClearAllStep == ASSUME ReviewInv, ClearAll PROVE ReviewInv'
  <1>1. EmptyDraft \in DOMAIN Drafts /\ ApplyDraft(EmptyDraft)
    BY ReviewAssumption DEF ClearAll
  <1>2. draft' \in DOMAIN Drafts /\ filterError' = ~Parses(draft') /\ (~filterError' => query' = Parse(draft'))
    BY <1>1, ApplyKeeps
  <1> QED BY <1>2, PositionKept DEF ClearAll, Counted

LEMMA ViewStep == ASSUME ReviewInv, ChooseQuickView \/ SwitchView PROVE ReviewInv'
  BY ConstraintsKept, PositionKept DEF ChooseQuickView, SwitchView, Counted

LEMMA SelectStep == ASSUME ReviewInv, SelectRow PROVE ReviewInv'
  <1> DEFINE rows == Filtered(history, quickView, query)
  <1>1. DOMAIN rows = 1..Len(rows) /\ \A k \in 1..Len(rows) : rows[k] \in Values(history)
    BY FilteredRows DEF ReviewInv
  <1>2. PICK o \in Values(rows) : Select(o.id)
    BY DEF SelectRow
  <1> HIDE DEF rows
  <1>3. o \in Values(history)
    BY <1>1 DEF Values
  <1>4. selectedId' = o.id /\ UNCHANGED <<history, liveCueId, draft, filterError, query>>
    BY <1>2 DEF Select, Counted
  <1> QED BY <1>3, <1>4, ConstraintsKept, PositionKept

LEMMA MoveStep == ASSUME ReviewInv, MoveSelection PROVE ReviewInv'
  <1> DEFINE rows == Filtered(history, quickView, query)
             at(delta) == Step(IndexIn(rows, selectedId), Len(rows), delta)
  <1>1. DOMAIN rows = 1..Len(rows) /\ Len(rows) \in Nat /\ \A k \in 1..Len(rows) : rows[k] \in Values(history)
    BY FilteredRows DEF ReviewInv
  <1>2. PICK delta \in {-1, 1} : at(delta) # 0 /\ SelectIndex(at(delta))
    BY DEF MoveSelection, Move
  <1>3. /\ selectedId' = rows[at(delta)].id
        /\ UNCHANGED <<history, liveCueId, draft, filterError, query>>
    BY <1>2 DEF SelectIndex, Counted
  <1> HIDE DEF rows
  <1>4. IndexIn(rows, selectedId) \in 0..Len(rows)
    BY <1>1, IndexRange
  <1>5. at(delta) \in 1..Len(rows)
    BY <1>1, <1>2, <1>4 DEF Step
  <1> HIDE DEF at
  <1>6. rows[at(delta)] \in Values(history)
    BY <1>1, <1>5
  <1> QED BY <1>3, <1>6, ConstraintsKept, PositionKept

LEMMA RevealStep == ASSUME ReviewInv, RevealAny PROVE ReviewInv'
  <1>1. PICK o \in Values(history) : RevealRecord(o.id)
    BY DEF RevealAny
  <1>2. selectedId' = o.id /\ query' = Parse(draft') /\ ~filterError'
    BY <1>1, RevealingShows DEF RevealShows
  <1>3. Record(o.id) = o /\ o.time \in Int /\ o \in AllRecords
    BY RecordIs DEF ReviewInv
  <1>4. draft' = Reveal(draft, o) /\ filterError' \in BOOLEAN /\ UNCHANGED <<history, liveCueId>>
    BY <1>1, <1>3 DEF RevealRecord, RevealConstraints, Counted
  <1>5. IsDraft(draft) /\ draft' \in DOMAIN Drafts
    BY <1>3, <1>4, ReviewAssumption DEF ReviewInv
  <1>6. Parses(draft')
    BY <1>3, <1>4, <1>5, RevealIs
  <1>7. filterError' = ~Parses(draft')
    BY <1>2, <1>4, <1>6
  <1> QED BY <1>1, <1>2, <1>4, <1>5, <1>7, PositionKept

LEMMA TraceStep == ASSUME ReviewInv, NarrowToTrace PROVE ReviewInv'
  <1>1. PICK trace \in Record(selectedId).trace : draft' = TraceOnly(trace) /\ query' = Parse(TraceOnly(trace))
    BY DEF NarrowToTrace
  <1>2. PICK o \in Values(history) : o.id = selectedId
    BY DEF NarrowToTrace, Recorded
  <1>3. Record(selectedId) = o /\ o \in AllRecords
    BY <1>2, RecordIs DEF ReviewInv
  <1>4. draft' \in DOMAIN Drafts
    BY <1>1, <1>3, ReviewAssumption
  <1>5. Parses(draft')
    <2>1. TraceOnly(trace).from = <<>> /\ TraceOnly(trace).to = <<>>
      BY DEF TraceOnly, EmptyDraft
    <2> QED BY <1>1, <2>1 DEF Parses, Valid
  <1>6. ~filterError' /\ filterError' \in BOOLEAN /\ UNCHANGED <<history, liveCueId, selectedId>>
    BY DEF NarrowToTrace, Counted
  <1> QED BY <1>1, <1>4, <1>5, <1>6, PositionKept

-----------------------------------------------------------------------------
(* The worker publishes                                                     *)

LEMMA PublishStep == ASSUME ReviewInv, Publish PROVE ReviewInv'
  <1>0. PICK run \in Runs : \E n \in 0..Len(run) : history' = SubSeq(run, 1, n) /\ Published(SubSeq(run, 1, n))
    BY DEF Publish
  <1>1. PICK n \in 0..Len(run) : history' = SubSeq(run, 1, n) /\ Published(SubSeq(run, 1, n))
    BY <1>0
  <1> DEFINE h == SubSeq(run, 1, n)
  <1>2. WellNumbered(h)
    BY PrefixWell
  <1>3. history' = h /\ Published(h)
    BY <1>1
  <1> HIDE DEF h
  <1>4. WellNumbered(history)'
    BY <1>2, <1>3 DEF WellNumbered
  <1>5. CASE ~ContinuesHistory(history, h)
    <2>1. selectedId' = 0 /\ liveCueId' = 0 /\ draft' = EmptyDraft /\ query' = EmptyDraft /\ filterError' = FALSE
      BY <1>3, <1>5 DEF Published, Replace
    <2> QED BY <1>4, <2>1, ParsedEmpty, ReviewAssumption DEF ReviewInv, PositionIsRecorded
  <1>6. CASE ContinuesHistory(history, h)
    <2> DEFINE moved == {i \in Len(history) + 1 .. Len(h) : h[i].movement}
               cue == IF moved = {} THEN liveCueId ELSE h[CHOOSE i \in moved : \A j \in moved : j <= i].id
    <2>1. UNCHANGED <<query, draft, filterError, selectedId>> /\ liveCueId' = cue
      BY <1>3, <1>6 DEF Published, Grow
    <2>2. /\ DOMAIN history = 1..Len(history) /\ Len(history) \in Nat
          /\ \A o : o \in Values(history) <=> \E i \in 1..Len(history) : history[i] = o
          /\ Values(history) \subseteq AllRecords
      BY HistoryPlaces DEF ReviewInv
    <2>3. DOMAIN h = 1..Len(h) /\ Len(h) \in Nat /\ \A i \in 1..Len(h) : h[i] \in AllRecords
      BY <1>2, LenProperties, ElementOfSeq DEF WellNumbered
    <2>4. Len(history) <= Len(h) /\ \A i \in 1..Len(history) : history[i].id = h[i].id
      BY <1>6, <2>2 DEF ContinuesHistory
    <2>5. \A o \in Values(history) : \E i \in 1..Len(h) : h[i] = o
      <3> SUFFICES ASSUME NEW o \in Values(history) PROVE \E i \in 1..Len(h) : h[i] = o
        OBVIOUS
      <3>1. PICK i \in 1..Len(history) : history[i] = o
        BY <2>2
      <3>2. i \in 1..Len(h) /\ h[i].id = o.id
        BY <2>2, <2>3, <2>4, <3>1
      <3>3. h[i] = o
        BY <2>2, <2>3, <3>2, ReviewAssumption
      <3> QED BY <3>2, <3>3
    <2>6. \A o \in Values(history) : o \in Values(h)
      BY <2>3, <2>5 DEF Values
    <2>7. selectedId' # 0 => Recorded(selectedId)'
      BY <1>3, <2>1, <2>6 DEF ReviewInv, PositionIsRecorded, Recorded
    <2>8. \A o \in Values(h) : Recorded(o.id)' /\ Record(o.id)' = o
      <3>1. \A o \in Values(h) : \E i \in 1..Len(h) : h[i] = o
        BY <2>3 DEF Values
      <3>2. \A o, p \in Values(h) : o.id = p.id => o = p
        BY <1>2, <3>1 DEF WellNumbered
      <3> QED BY <1>3, <3>2 DEF Recorded, Record
    <2>9. liveCueId' # 0 => \E o \in Values(h) : o.id = liveCueId' /\ o.movement
      <3>1. CASE moved = {}
        <4> SUFFICES ASSUME liveCueId # 0 PROVE \E o \in Values(h) : o.id = liveCueId /\ o.movement
          BY <2>1, <3>1
        <4>1. PICK o \in Values(history) : o.id = liveCueId
          BY DEF ReviewInv, PositionIsRecorded, Recorded
        <4>2. Record(liveCueId) = o
          BY <4>1, RecordIs DEF ReviewInv
        <4> QED BY <2>6, <4>1, <4>2 DEF ReviewInv, PositionIsRecorded
      <3>2. CASE moved # {}
        <4>1. moved \subseteq 1..Len(h)
          BY <2>2, <2>3
        <4> DEFINE k == CHOOSE i \in moved : \A j \in moved : j <= i
        <4> HIDE DEF moved
        <4>2. k \in moved
          BY <2>3, <3>2, <4>1, Latest
        <4>3. liveCueId' = h[k].id
          BY <2>1, <3>2
        <4> HIDE DEF k
        <4>4. h[k].movement /\ h[k] \in Values(h)
          BY <2>3, <4>1, <4>2 DEF moved, Values
        <4> QED BY <4>3, <4>4
      <3> QED BY <3>1, <3>2
    <2>10. liveCueId' # 0 => Recorded(liveCueId)' /\ Record(liveCueId)'.movement
      <3> SUFFICES ASSUME liveCueId' # 0 PROVE Recorded(liveCueId)' /\ Record(liveCueId)'.movement
        OBVIOUS
      <3>1. PICK o \in Values(h) : o.id = liveCueId' /\ o.movement
        BY <2>9
      <3>2. Recorded(o.id)' /\ Record(o.id)' = o
        BY <2>8
      <3>3. Recorded(liveCueId)' /\ Record(liveCueId)' = o
        BY <3>1, <3>2 DEF Recorded, Record
      <3> QED BY <3>1, <3>3
    <2>11. PositionIsRecorded'
      BY <2>1, <2>7, <2>10 DEF ReviewInv, PositionIsRecorded
    <2> QED BY <1>4, <2>1, <2>11 DEF ReviewInv
  <1> QED BY <1>5, <1>6

LEMMA ReviewStep == ASSUME ReviewInv, Next PROVE ReviewInv'
  BY SetDraftStep, ClearAllStep, ViewStep, SelectStep, MoveStep, RevealStep, TraceStep, PublishStep DEF Next

LEMMA ReviewSame == ASSUME ReviewInv, UNCHANGED vars PROVE ReviewInv'
  <1>1. UNCHANGED <<history, liveCueId, selectedId, draft, filterError, query>>
    BY DEF vars, nav
  <1> QED BY <1>1, ConstraintsKept, PositionKept

LEMMA ReviewPage == ASSUME ReviewInv, [PageNext]_<<part, scenarioVars, submitted, draftVars, vars, playbackVars>> PROVE ReviewInv'
  <1>1. CASE part = "review" /\ Next /\ Others
    BY <1>1, ReviewStep
  <1>2. CASE part # "review" /\ Others
    BY <1>2, ReviewSame DEF Others, Still
  <1>3. CASE UNCHANGED vars
    BY <1>3, ReviewSame
  <1> QED BY <1>1, <1>2, <1>3 DEF PageNext

LEMMA ReviewInit == ASSUME PageInit PROVE ReviewInv
  <1>1. history \in Runs /\ query = EmptyDraft /\ draft = EmptyDraft /\ filterError = FALSE /\ selectedId = 0 /\ liveCueId = 0
    BY DEF PageInit, Init
  <1>2. WellNumbered(history)
    <2>1. history \in Seq(AllRecords) /\ \A i, j \in DOMAIN history : history[i].id = history[j].id => i = j
      BY <1>1, ReviewAssumption
    <2> QED BY <2>1, LenProperties DEF WellNumbered
  <1> QED BY <1>1, <1>2, ParsedEmpty, ReviewAssumption DEF ReviewInv, PositionIsRecorded

\* Whatever the reader does and the worker publishes, what navigation holds on
\* to is of the history shown and its constraints are those entered; a record
\* that is revealed arrives selected, among the rows and focused, and only the
\* constraints that hide it are given up.
THEOREM ReaderKeepsFaith == PageSpec => NavigationKeepsFaith
  <1>1. ReviewInv /\ [PageNext]_<<part, scenarioVars, submitted, draftVars, vars, playbackVars>> => ReviewInv'
    BY ReviewPage
  <1>2. ReviewInv /\ ReviewInv' => [PositionIsRecorded' /\ RevealShows]_vars
    BY RevealingShows DEF ReviewInv
  <1>3. PageInit => ReviewInv
    BY ReviewInit
  <1> QED BY <1>1, <1>2, <1>3, PTL DEF PageSpec, NavigationKeepsFaith

-----------------------------------------------------------------------------
(* What is open at a record is what was opened and has not ended            *)

\* The places up to i of a record that opens and that none since ends.
OpenPlaces(h, i, opening, ending) ==
    {j \in 1..i : /\ ~h[j].redacted /\ h[j].type = opening
                  /\ \A k \in (j + 1)..i : ~h[k].redacted /\ h[k].ref = h[j].ref => h[k].type \notin ending}
Left(h, i, opening, ending, item) == {item[j] : j \in OpenPlaces(h, i, opening, ending)}

\* One item for all the records that open it.
Keyed(h, opening, item) ==
    /\ \A j \in 1..Len(h) : ~h[j].redacted /\ h[j].type = opening => item[j].key = h[j].ref
    /\ \A j, k \in 1..Len(h) : ~h[j].redacted /\ ~h[k].redacted /\ h[j].type = opening /\ h[k].type = opening /\ h[j].ref = h[k].ref
                                  => item[j] = item[k]

LEMMA OneMore ==
  ASSUME NEW i \in Nat, NEW h, NEW opening, NEW ending, opening \notin ending
  PROVE  OpenPlaces(h, i + 1, opening, ending)
            = {j \in OpenPlaces(h, i, opening, ending) :
                  ~h[i + 1].redacted /\ h[i + 1].type \in ending => h[i + 1].ref # h[j].ref}
              \cup {j \in {i + 1} : ~h[i + 1].redacted /\ h[i + 1].type = opening}
  <1> DEFINE ends(j, k) == ~h[k].redacted /\ h[k].ref = h[j].ref => h[k].type \notin ending
             opens(j) == ~h[j].redacted /\ h[j].type = opening
             L == OpenPlaces(h, i + 1, opening, ending)
             A == OpenPlaces(h, i, opening, ending)
  <1>1. \A j : j \in 1..(i + 1) <=> j \in 1..i \/ j = i + 1
    OBVIOUS
  <1>2. \A j \in 1..i : \A k : k \in (j + 1)..(i + 1) <=> k \in (j + 1)..i \/ k = i + 1
    OBVIOUS
  <1>3. ((i + 1) + 1)..(i + 1) = {} /\ i + 1 \notin 1..i
    OBVIOUS
  <1>4. \A j : j \in L <=> j \in 1..(i + 1) /\ opens(j) /\ \A k \in (j + 1)..(i + 1) : ends(j, k)
    BY DEF OpenPlaces
  <1>5. \A j : j \in A <=> j \in 1..i /\ opens(j) /\ \A k \in (j + 1)..i : ends(j, k)
    BY DEF OpenPlaces
  <1>6. i + 1 \in L <=> opens(i + 1)
    BY <1>1, <1>3, <1>4
  <1>7. \A j \in 1..i : j \in L <=> j \in A /\ ends(j, i + 1)
    BY <1>1, <1>2, <1>4, <1>5
  <1>8. \A j \in L : j \in 1..i \/ j = i + 1
    BY <1>1, <1>4
  <1>9. \A j \in A : j \in 1..i
    BY <1>5
  <1>10. \A j : ends(j, i + 1) <=> (~h[i + 1].redacted /\ h[i + 1].type \in ending => h[i + 1].ref # h[j].ref)
    OBVIOUS
  <1> HIDE DEF L, A, ends, opens
  <1>11. \A j : j \in L <=> (j \in A /\ ends(j, i + 1)) \/ (j = i + 1 /\ opens(i + 1))
    BY <1>6, <1>7, <1>8, <1>9
  <1> DEFINE R == {j \in A : ends(j, i + 1)} \cup {j \in {i + 1} : opens(i + 1)}
  <1>12. \A j : j \in R <=> (j \in A /\ ends(j, i + 1)) \/ (j = i + 1 /\ opens(i + 1))
    OBVIOUS
  <1> HIDE DEF R
  <1>13. L = R
    BY <1>11, <1>12
  <1>14. R = {j \in A : ~h[i + 1].redacted /\ h[i + 1].type \in ending => h[i + 1].ref # h[j].ref} \cup {j \in {i + 1} : opens(i + 1)}
    BY <1>10 DEF R
  <1> QED BY <1>13, <1>14 DEF L, A, opens

LEMMA PlaceOpens ==
  ASSUME NEW h, NEW i \in Nat, i + 1 <= Len(h), Len(h) \in Nat, NEW opening, NEW ending, opening \notin ending,
         NEW item, Keyed(h, opening, item), ~h[i + 1].redacted, h[i + 1].type = opening
  PROVE  Left(h, i + 1, opening, ending, item)
            = {x \in Left(h, i, opening, ending, item) : x.key # h[i + 1].ref} \cup {item[i + 1]}
  <1> DEFINE A == OpenPlaces(h, i, opening, ending)
  <1>1. OpenPlaces(h, i + 1, opening, ending) = A \cup {i + 1}
    BY OneMore
  <1>2. \A j \in A : j \in 1..Len(h) /\ ~h[j].redacted /\ h[j].type = opening
    BY DEF OpenPlaces
  <1>3. i + 1 \in 1..Len(h)
    OBVIOUS
  <1>4. \A j \in A : item[j].key = h[j].ref
    BY <1>2 DEF Keyed
  <1>5. \A j \in A : h[j].ref = h[i + 1].ref => item[j] = item[i + 1]
    BY <1>2, <1>3 DEF Keyed
  <1>6. \A j \in A : item[j].key = h[i + 1].ref => item[j] = item[i + 1]
    BY <1>4, <1>5
  <1> HIDE DEF A
  <1>7. Left(h, i + 1, opening, ending, item) = {item[j] : j \in A} \cup {item[i + 1]}
    BY <1>1 DEF Left
  <1>8. Left(h, i, opening, ending, item) = {item[j] : j \in A}
    BY DEF Left, A
  <1> QED BY <1>6, <1>7, <1>8

LEMMA PlaceCloses ==
  ASSUME NEW h, NEW i \in Nat, i + 1 <= Len(h), Len(h) \in Nat, NEW opening, NEW ending, opening \notin ending,
         NEW item, Keyed(h, opening, item), ~h[i + 1].redacted, h[i + 1].type \in ending
  PROVE  Left(h, i + 1, opening, ending, item) = {x \in Left(h, i, opening, ending, item) : x.key # h[i + 1].ref}
  <1> DEFINE A == OpenPlaces(h, i, opening, ending)
             B == {j \in A : h[i + 1].ref # h[j].ref}
  <1>1. OpenPlaces(h, i + 1, opening, ending) = B
    <2>1. {j \in {i + 1} : ~h[i + 1].redacted /\ h[i + 1].type = opening} = {}
      OBVIOUS
    <2> QED BY <2>1, OneMore
  <1>2. \A j \in A : j \in 1..Len(h) /\ ~h[j].redacted /\ h[j].type = opening
    BY DEF OpenPlaces
  <1>3. \A j \in A : item[j].key = h[j].ref
    BY <1>2 DEF Keyed
  <1>4. Left(h, i + 1, opening, ending, item) = {item[j] : j \in B}
    BY <1>1 DEF Left
  <1>5. Left(h, i, opening, ending, item) = {item[j] : j \in A}
    BY DEF Left
  <1> HIDE DEF A
  <1> QED BY <1>3, <1>4, <1>5

LEMMA PlacePasses ==
  ASSUME NEW h, NEW i \in Nat, NEW opening, NEW ending, opening \notin ending, NEW item,
         h[i + 1].redacted \/ (h[i + 1].type \notin ending /\ h[i + 1].type # opening)
  PROVE  Left(h, i + 1, opening, ending, item) = Left(h, i, opening, ending, item)
  <1> DEFINE A == OpenPlaces(h, i, opening, ending)
             kept == {j \in A : ~h[i + 1].redacted /\ h[i + 1].type \in ending => h[i + 1].ref # h[j].ref}
             new == {j \in {i + 1} : ~h[i + 1].redacted /\ h[i + 1].type = opening}
  <1>0. kept = A /\ new = {}
    OBVIOUS
  <1>1. OpenPlaces(h, i + 1, opening, ending) = A
    <2>1. OpenPlaces(h, i + 1, opening, ending) = kept \cup new
      BY OneMore
    <2> HIDE DEF kept, new
    <2> QED BY <1>0, <2>1
  <1> QED BY <1>1 DEF Left

-----------------------------------------------------------------------------
(* The reading of a history                                                 *)

Waits == {"response.received", "request.timedout"}
Handled == {"response.sent"}
Settled == {"message.acknowledged", "message.ack.stale", "message.nacked"}
Ended == {"transaction.committed", "transaction.rolledback"}

WaitItem(h) == [j \in 1..Len(h) |-> [key |-> h[j].ref, owner |-> h[j].source, target |-> h[j].target]]
RequestItem(h) == [j \in 1..Len(h) |-> [key |-> h[j].ref, owner |-> h[j].target, target |-> Nobody]]
WorkItem(h) == [j \in 1..Len(h) |-> [key |-> h[j].ref, owner |-> h[j].source, target |-> Nobody]]
DeliveryItem(h) == [j \in 1..Len(h) |-> [key |-> h[j].ref, owner |-> h[j].consumer, target |-> Nobody]]

IsOpen(open, h, i) ==
    open = [waits |-> Left(h, i, "request.sent", Waits, WaitItem(h)),
            requests |-> Left(h, i, "request.delivered", Handled, RequestItem(h)),
            transactions |-> Left(h, i, "transaction.begun", Ended, WorkItem(h)),
            deliveries |-> Left(h, i, "message.delivered", Settled, DeliveryItem(h))]

LEMMA ItemsKeyed ==
  ASSUME RecordsAssumption, NEW h \in Seq(Recordable)
  PROVE  /\ Keyed(h, "request.sent", WaitItem(h)) /\ Keyed(h, "request.delivered", RequestItem(h))
         /\ Keyed(h, "transaction.begun", WorkItem(h)) /\ Keyed(h, "message.delivered", DeliveryItem(h))
  <1>1. \A j \in 1..Len(h) : h[j] \in Recordable
    BY ElementOfSeq
  <1>2. \A r, s \in Recordable : ~r.redacted /\ ~s.redacted /\ r.ref = s.ref /\ r.type = s.type
            => r.source = s.source /\ r.target = s.target /\ r.consumer = s.consumer
    BY DEF RecordsAssumption, Graph!WellRecorded
  <1>3. \A j, k \in 1..Len(h) : ~h[j].redacted /\ ~h[k].redacted /\ h[j].ref = h[k].ref /\ h[j].type = h[k].type
            => h[j].source = h[k].source /\ h[j].target = h[k].target /\ h[j].consumer = h[k].consumer
    BY <1>1, <1>2
  <1>4. Keyed(h, "request.sent", WaitItem(h))
    <2> DEFINE item == WaitItem(h)
    <2>1. \A j \in 1..Len(h) : item[j] = [key |-> h[j].ref, owner |-> h[j].source, target |-> h[j].target]
      BY DEF WaitItem
    <2> HIDE DEF item
    <2>2. ASSUME NEW j \in 1..Len(h) PROVE item[j].key = h[j].ref
      <3> DEFINE x == item[j]
      <3>1. x = [key |-> h[j].ref, owner |-> h[j].source, target |-> h[j].target]
        BY <2>1
      <3> HIDE DEF x
      <3>2. x.key = h[j].ref
        BY <3>1
      <3> QED BY <3>2 DEF x
    <2>3. ASSUME NEW j \in 1..Len(h), NEW k \in 1..Len(h), /\ ~h[j].redacted /\ h[j].type = "request.sent" /\ ~h[k].redacted /\ h[k].type = "request.sent" /\ h[j].ref = h[k].ref
          PROVE item[j] = item[k]
      <3>1. h[j].source = h[k].source /\ h[j].target = h[k].target
        BY <1>3, <2>3
      <3> QED BY <2>1, <2>3, <3>1
    <2>4. Keyed(h, "request.sent", item)
      BY <2>2, <2>3 DEF Keyed
    <2> QED BY <2>4 DEF item
  <1>5. Keyed(h, "request.delivered", RequestItem(h))
    <2> DEFINE item == RequestItem(h)
    <2>1. \A j \in 1..Len(h) : item[j] = [key |-> h[j].ref, owner |-> h[j].target, target |-> Nobody]
      BY DEF RequestItem
    <2> HIDE DEF item
    <2>2. ASSUME NEW j \in 1..Len(h) PROVE item[j].key = h[j].ref
      <3> DEFINE x == item[j]
      <3>1. x = [key |-> h[j].ref, owner |-> h[j].target, target |-> Nobody]
        BY <2>1
      <3> HIDE DEF x
      <3>2. x.key = h[j].ref
        BY <3>1
      <3> QED BY <3>2 DEF x
    <2>3. ASSUME NEW j \in 1..Len(h), NEW k \in 1..Len(h), /\ ~h[j].redacted /\ h[j].type = "request.delivered" /\ ~h[k].redacted /\ h[k].type = "request.delivered" /\ h[j].ref = h[k].ref
          PROVE item[j] = item[k]
      <3>1. h[j].target = h[k].target /\ h[j].target = h[k].target
        BY <1>3, <2>3
      <3> QED BY <2>1, <2>3, <3>1
    <2>4. Keyed(h, "request.delivered", item)
      BY <2>2, <2>3 DEF Keyed
    <2> QED BY <2>4 DEF item
  <1>6. Keyed(h, "transaction.begun", WorkItem(h))
    <2> DEFINE item == WorkItem(h)
    <2>1. \A j \in 1..Len(h) : item[j] = [key |-> h[j].ref, owner |-> h[j].source, target |-> Nobody]
      BY DEF WorkItem
    <2> HIDE DEF item
    <2>2. ASSUME NEW j \in 1..Len(h) PROVE item[j].key = h[j].ref
      <3> DEFINE x == item[j]
      <3>1. x = [key |-> h[j].ref, owner |-> h[j].source, target |-> Nobody]
        BY <2>1
      <3> HIDE DEF x
      <3>2. x.key = h[j].ref
        BY <3>1
      <3> QED BY <3>2 DEF x
    <2>3. ASSUME NEW j \in 1..Len(h), NEW k \in 1..Len(h), /\ ~h[j].redacted /\ h[j].type = "transaction.begun" /\ ~h[k].redacted /\ h[k].type = "transaction.begun" /\ h[j].ref = h[k].ref
          PROVE item[j] = item[k]
      <3>1. h[j].source = h[k].source /\ h[j].target = h[k].target
        BY <1>3, <2>3
      <3> QED BY <2>1, <2>3, <3>1
    <2>4. Keyed(h, "transaction.begun", item)
      BY <2>2, <2>3 DEF Keyed
    <2> QED BY <2>4 DEF item
  <1>7. Keyed(h, "message.delivered", DeliveryItem(h))
    <2> DEFINE item == DeliveryItem(h)
    <2>1. \A j \in 1..Len(h) : item[j] = [key |-> h[j].ref, owner |-> h[j].consumer, target |-> Nobody]
      BY DEF DeliveryItem
    <2> HIDE DEF item
    <2>2. ASSUME NEW j \in 1..Len(h) PROVE item[j].key = h[j].ref
      <3> DEFINE x == item[j]
      <3>1. x = [key |-> h[j].ref, owner |-> h[j].consumer, target |-> Nobody]
        BY <2>1
      <3> HIDE DEF x
      <3>2. x.key = h[j].ref
        BY <3>1
      <3> QED BY <3>2 DEF x
    <2>3. ASSUME NEW j \in 1..Len(h), NEW k \in 1..Len(h), /\ ~h[j].redacted /\ h[j].type = "message.delivered" /\ ~h[k].redacted /\ h[k].type = "message.delivered" /\ h[j].ref = h[k].ref
          PROVE item[j] = item[k]
      <3>1. h[j].consumer = h[k].consumer /\ h[j].target = h[k].target
        BY <1>3, <2>3
      <3> QED BY <2>1, <2>3, <3>1
    <2>4. Keyed(h, "message.delivered", item)
      BY <2>2, <2>3 DEF Keyed
    <2> QED BY <2>4 DEF item
  <1> QED BY <1>4, <1>5, <1>6, <1>7

LEMMA NothingIsOpen == ASSUME NEW h PROVE IsOpen(Graph!NothingOpen, h, 0)
  <1>1. \A opening, ending, item : Left(h, 0, opening, ending, item) = {}
    BY DEF Left, OpenPlaces
  <1> QED BY <1>1 DEF IsOpen, Graph!NothingOpen

\* What a record that opens or ends an item does.
LEMMA OpenedIs ==
  ASSUME NEW items, NEW h, NEW j, NEW owner, NEW target, NEW x, x = [key |-> h[j].ref, owner |-> owner, target |-> target]
  PROVE  Graph!Opened(items, h[j].ref, owner, target) = {y \in items : y.key # h[j].ref} \cup {x}
  BY DEF Graph!Opened

LEMMA ReadIsOpen ==
  ASSUME RecordsAssumption, NEW h \in Seq(Recordable), NEW i \in Nat, i + 1 <= Len(h), NEW open, IsOpen(open, h, i)
  PROVE  IsOpen(Graph!Read(open, h[i + 1]), h, i + 1)
  <1> DEFINE o == h[i + 1]
             waits(n) == Left(h, n, "request.sent", Waits, WaitItem(h))
             requests(n) == Left(h, n, "request.delivered", Handled, RequestItem(h))
             works(n) == Left(h, n, "transaction.begun", Ended, WorkItem(h))
             deliveries(n) == Left(h, n, "message.delivered", Settled, DeliveryItem(h))
  <1>1. Len(h) \in Nat /\ i + 1 \in 1..Len(h)
    BY LenProperties
  <1>2. o \in Recordable
    BY <1>1, ElementOfSeq
  <1>3. /\ Keyed(h, "request.sent", WaitItem(h)) /\ Keyed(h, "request.delivered", RequestItem(h))
        /\ Keyed(h, "transaction.begun", WorkItem(h)) /\ Keyed(h, "message.delivered", DeliveryItem(h))
    BY ItemsKeyed
  <1>4. /\ "request.sent" \notin Waits /\ "request.delivered" \notin Handled
        /\ "transaction.begun" \notin Ended /\ "message.delivered" \notin Settled
    BY DEF Waits, Handled, Ended, Settled
  <1>5. /\ o.redacted \/ (o.type \notin Waits /\ o.type # "request.sent") => waits(i + 1) = waits(i)
        /\ o.redacted \/ (o.type \notin Handled /\ o.type # "request.delivered") => requests(i + 1) = requests(i)
        /\ o.redacted \/ (o.type \notin Ended /\ o.type # "transaction.begun") => works(i + 1) = works(i)
        /\ o.redacted \/ (o.type \notin Settled /\ o.type # "message.delivered") => deliveries(i + 1) = deliveries(i)
    BY <1>4, PlacePasses
  <1>6. /\ ~o.redacted /\ o.type \in Waits => waits(i + 1) = Graph!Closed(waits(i), o.ref)
        /\ ~o.redacted /\ o.type \in Handled => requests(i + 1) = Graph!Closed(requests(i), o.ref)
        /\ ~o.redacted /\ o.type \in Ended => works(i + 1) = Graph!Closed(works(i), o.ref)
        /\ ~o.redacted /\ o.type \in Settled => deliveries(i + 1) = Graph!Closed(deliveries(i), o.ref)
    BY <1>1, <1>3, <1>4, PlaceCloses DEF Graph!Closed
  <1>7. ~o.redacted /\ o.type = "request.sent" => waits(i + 1) = Graph!Opened(waits(i), o.ref, o.source, o.target)
    <2>1. WaitItem(h)[i + 1] = [key |-> o.ref, owner |-> o.source, target |-> o.target]
      BY <1>1 DEF WaitItem
    <2> QED BY <1>1, <1>3, <1>4, <2>1, PlaceOpens DEF Graph!Opened
  <1>8. ~o.redacted /\ o.type = "request.delivered" => requests(i + 1) = Graph!Opened(requests(i), o.ref, o.target, Nobody)
    <2>1. RequestItem(h)[i + 1] = [key |-> o.ref, owner |-> o.target, target |-> Nobody]
      BY <1>1 DEF RequestItem
    <2> QED BY <1>1, <1>3, <1>4, <2>1, PlaceOpens DEF Graph!Opened
  <1>9. ~o.redacted /\ o.type = "transaction.begun" => works(i + 1) = Graph!Opened(works(i), o.ref, o.source, Nobody)
    <2>1. WorkItem(h)[i + 1] = [key |-> o.ref, owner |-> o.source, target |-> Nobody]
      BY <1>1 DEF WorkItem
    <2> QED BY <1>1, <1>3, <1>4, <2>1, PlaceOpens DEF Graph!Opened
  <1>10. ~o.redacted /\ o.type = "message.delivered" => deliveries(i + 1) = Graph!Opened(deliveries(i), o.ref, o.consumer, Nobody)
    <2>1. DeliveryItem(h)[i + 1] = [key |-> o.ref, owner |-> o.consumer, target |-> Nobody]
      BY <1>1 DEF DeliveryItem
    <2> QED BY <1>1, <1>3, <1>4, <2>1, PlaceOpens DEF Graph!Opened
  <1>11. Graph!Stored(o, "ref") = IF o.redacted THEN Nobody ELSE o.ref
    BY DEF Graph!Stored
  <1>12. ~o.redacted => o.ref # Nobody /\ (o.type = "message.delivered" => Graph!First(Graph!Stored(o, "consumer"), o.source) = o.consumer)
    BY <1>2 DEF RecordsAssumption, Graph!WellRecorded, Graph!First, Graph!Stored
  <1>13. open = [waits |-> waits(i), requests |-> requests(i), transactions |-> works(i), deliveries |-> deliveries(i)]
    BY DEF IsOpen
  <1> DEFINE next == Graph!Read(open, o)
  <1>14. next = [waits |-> waits(i + 1), requests |-> requests(i + 1), transactions |-> works(i + 1), deliveries |-> deliveries(i + 1)]
    <2> DEFINE w == waits(i) r == requests(i) t == works(i) d == deliveries(i)
               w1 == waits(i + 1) r1 == requests(i + 1) t1 == works(i + 1) d1 == deliveries(i + 1)
    <2> HIDE DEF o, waits, requests, works, deliveries
    <2>0. open = [waits |-> w, requests |-> r, transactions |-> t, deliveries |-> d]
      BY <1>13
    <2>1. CASE o.redacted
      BY <1>5, <1>11, <2>0, <2>1 DEF Graph!Read
    <2> DEFINE visible == ~o.redacted /\ Graph!Stored(o, "ref") = o.ref /\ o.ref # Nobody
    <2>2. CASE visible /\ o.type = "request.sent"
      <3>1. next = [open EXCEPT !.waits = Graph!Opened(@, o.ref, o.source, o.target)]
        BY <2>2 DEF Graph!Read, Graph!EndsWait
      <3>2. w1 = Graph!Opened(w, o.ref, o.source, o.target) /\ r1 = r /\ t1 = t /\ d1 = d
        BY <1>5, <1>7, <2>2 DEF Handled, Ended, Settled
      <3> QED BY <2>0, <3>1, <3>2
    <2>3. CASE visible /\ Graph!EndsWait(o.type)
      <3>0. o.type \in Waits
        BY <2>3 DEF Waits, Graph!EndsWait
      <3>1. next = [open EXCEPT !.waits = Graph!Closed(@, o.ref)]
        BY <2>3, <3>0 DEF Graph!Read, Waits
      <3>2. w1 = Graph!Closed(w, o.ref) /\ r1 = r /\ t1 = t /\ d1 = d
        BY <1>5, <1>6, <2>3, <3>0 DEF Handled, Ended, Settled, Waits
      <3> QED BY <2>0, <3>1, <3>2
    <2>4. CASE visible /\ o.type = "request.delivered"
      <3>1. next = [open EXCEPT !.requests = Graph!Opened(@, o.ref, o.target, Nobody)]
        BY <2>4 DEF Graph!Read, Graph!EndsWait
      <3>2. w1 = w /\ r1 = Graph!Opened(r, o.ref, o.target, Nobody) /\ t1 = t /\ d1 = d
        BY <1>5, <1>8, <2>4 DEF Waits, Ended, Settled
      <3> QED BY <2>0, <3>1, <3>2
    <2>5. CASE visible /\ o.type = "response.sent"
      <3>1. next = [open EXCEPT !.requests = Graph!Closed(@, o.ref)]
        BY <2>5 DEF Graph!Read, Graph!EndsWait
      <3>2. w1 = w /\ r1 = Graph!Closed(r, o.ref) /\ t1 = t /\ d1 = d
        BY <1>5, <1>6, <2>5 DEF Waits, Ended, Settled, Handled
      <3> QED BY <2>0, <3>1, <3>2
    <2>6. CASE visible /\ o.type = "transaction.begun"
      <3>1. next = [open EXCEPT !.transactions = Graph!Opened(@, o.ref, o.source, Nobody)]
        BY <2>6 DEF Graph!Read, Graph!EndsWait
      <3>2. w1 = w /\ r1 = r /\ t1 = Graph!Opened(t, o.ref, o.source, Nobody) /\ d1 = d
        BY <1>5, <1>9, <2>6 DEF Waits, Handled, Settled
      <3> QED BY <2>0, <3>1, <3>2
    <2>7. CASE visible /\ o.type \in Ended
      <3>1. next = [open EXCEPT !.transactions = Graph!Closed(@, o.ref)]
        BY <2>7 DEF Graph!Read, Graph!EndsWait, Ended
      <3>2. w1 = w /\ r1 = r /\ t1 = Graph!Closed(t, o.ref) /\ d1 = d
        BY <1>5, <1>6, <2>7 DEF Waits, Ended, Settled, Handled
      <3> QED BY <2>0, <3>1, <3>2
    <2>8. CASE visible /\ o.type = "message.delivered"
      <3>1. next = [open EXCEPT !.deliveries = Graph!Opened(@, o.ref, o.consumer, Nobody)]
        BY <1>12, <2>8 DEF Graph!Read, Graph!EndsWait
      <3>2. w1 = w /\ r1 = r /\ t1 = t /\ d1 = Graph!Opened(d, o.ref, o.consumer, Nobody)
        BY <1>5, <1>10, <2>8 DEF Waits, Handled, Ended
      <3> QED BY <2>0, <3>1, <3>2
    <2>9. CASE visible /\ o.type \in Settled
      <3>1. next = [open EXCEPT !.deliveries = Graph!Closed(@, o.ref)]
        BY <2>9 DEF Graph!Read, Graph!EndsWait, Settled
      <3>2. w1 = w /\ r1 = r /\ t1 = t /\ d1 = Graph!Closed(d, o.ref)
        BY <1>5, <1>6, <2>9 DEF Waits, Ended, Settled, Handled
      <3> QED BY <2>0, <3>1, <3>2
    <2>10. CASE /\ visible /\ o.type \notin {"request.sent", "request.delivered", "response.sent", "transaction.begun", "message.delivered"}
                /\ o.type \notin Waits \cup Ended \cup Settled
      <3>1. next = open
        BY <2>10 DEF Graph!Read, Graph!EndsWait, Waits, Ended, Settled
      <3>2. w1 = w /\ r1 = r /\ t1 = t /\ d1 = d
        BY <1>5, <2>10 DEF Handled
      <3> QED BY <2>0, <3>1, <3>2
    <2>11. visible \/ o.redacted
      BY <1>11, <1>12
    <2>12. Graph!EndsWait(o.type) <=> o.type \in Waits
      BY DEF Graph!EndsWait, Waits
    <2> HIDE DEF visible, w, r, t, d, w1, r1, t1, d1, next
    <2> QED BY <2>1, <2>2, <2>3, <2>4, <2>5, <2>6, <2>7, <2>8, <2>9, <2>10, <2>11, <2>12
  <1> QED BY <1>14 DEF IsOpen

\* The function of ActivityAt is there.
Reads(g, h, n) == g = [i \in 0..n |-> IF i = 0 THEN Graph!NothingOpen ELSE Graph!Read(g[i - 1], h[i])]

LEMMA ReadingStep ==
  ASSUME NEW h, NEW n \in Nat, NEW g, Reads(g, h, n)
  PROVE  \E f : Reads(f, h, n + 1)
  <1> DEFINE none == Graph!NothingOpen
             read(x, m) == Graph!Read(x, h[m])
             y == read(g[n], n + 1)
             f == [m \in 0..(n + 1) |-> IF m = n + 1 THEN y ELSE g[m]]
  <1>1. \A m \in 0..n : g[m] = IF m = 0 THEN none ELSE read(g[m - 1], m)
    BY DEF Reads
  <1> HIDE DEF none, read
  <1>2. \A m \in 0..n : f[m] = g[m]
    OBVIOUS
  <1>3. f[n + 1] = y
    OBVIOUS
  <1>4. f[n + 1] = read(f[n], n + 1)
    BY <1>2, <1>3
  <1>5. \A m \in 0..n : m # 0 => m - 1 \in 0..n
    OBVIOUS
  <1>6. \A m \in 0..(n + 1) : f[m] = IF m = 0 THEN none ELSE read(f[m - 1], m)
    <2> SUFFICES ASSUME NEW m \in 0..(n + 1) PROVE f[m] = IF m = 0 THEN none ELSE read(f[m - 1], m)
      OBVIOUS
    <2> HIDE DEF f
    <2>1. CASE m \in 0..n
      BY <1>1, <1>2, <1>5, <2>1
    <2>2. CASE m = n + 1
      <3>1. m - 1 = n /\ m # 0
        BY <2>2
      <3> QED BY <1>4, <2>2, <3>1
    <2> QED BY <2>1, <2>2
  <1>7. f = [m \in 0..(n + 1) |-> f[m]]
    OBVIOUS
  <1> HIDE DEF f
  <1>8. Reads(f, h, n + 1)
    BY <1>6, <1>7 DEF Reads, none, read
  <1> QED BY <1>8

LEMMA ReadingThere == ASSUME NEW h, NEW n \in Nat PROVE \E g : Reads(g, h, n)
  <1> DEFINE T == {k \in Nat : \E g : Reads(g, h, k)}
  <1>1. 0 \in T
    <2> DEFINE g == [m \in 0..0 |-> Graph!NothingOpen]
    <2>1. g = [m \in 0..0 |-> IF m = 0 THEN Graph!NothingOpen ELSE Graph!Read(g[m - 1], h[m])]
      OBVIOUS
    <2> HIDE DEF g
    <2> QED BY <2>1 DEF Reads
  <1>2. \A k \in Nat : k \in T => k + 1 \in T
    BY ReadingStep
  <1> HIDE DEF T
  <1>3. Nat \subseteq T
    BY <1>1, <1>2, Inductive
  <1> QED BY <1>3 DEF T

LEMMA ActivityIsOpen ==
  ASSUME RecordsAssumption, NEW h \in Seq(Recordable), NEW n \in 0..Len(h)
  PROVE  IsOpen(Graph!ActivityAt(h, n), h, n)
  <1> DEFINE f == CHOOSE g : Reads(g, h, n)
             T == {i \in Nat : i <= n => IsOpen(f[i], h, i)}
  <1>1. Len(h) \in Nat /\ n \in Nat /\ n <= Len(h)
    BY LenProperties
  <1>2. f = [i \in 0..n |-> IF i = 0 THEN Graph!NothingOpen ELSE Graph!Read(f[i - 1], h[i])]
    <2>1. Reads(f, h, n)
      BY <1>1, ReadingThere
    <2> HIDE DEF f
    <2> QED BY <2>1 DEF Reads
  <1>3. Graph!ActivityAt(h, n) = f[n]
    BY DEF Graph!ActivityAt, Reads
  <1> HIDE DEF f
  <1>4. 0 \in T
    <2>1. f[0] = Graph!NothingOpen
      BY <1>1, <1>2
    <2> QED BY <2>1, NothingIsOpen
  <1>5. \A i \in Nat : i \in T => i + 1 \in T
    <2> SUFFICES ASSUME NEW i \in Nat, i \in T, i + 1 <= n PROVE IsOpen(f[i + 1], h, i + 1)
      OBVIOUS
    <2>1. IsOpen(f[i], h, i) /\ i + 1 <= Len(h)
      BY <1>1
    <2>2. f[i + 1] = Graph!Read(f[i], h[i + 1])
      <3>1. i + 1 \in 0..n /\ i + 1 # 0 /\ (i + 1) - 1 = i
        BY <1>1
      <3> QED BY <1>2, <3>1
    <2> QED BY <2>1, <2>2, ReadIsOpen
  <1> HIDE DEF T
  <1>6. n \in T
    BY <1>1, <1>4, <1>5, Inductive
  <1> QED BY <1>1, <1>3, <1>6 DEF T

\* What a component has of what is left is what a reader finds not ended.
LEMMA OwnedIs ==
  ASSUME NEW h, NEW n \in Nat, NEW opening, NEW ending, NEW item, NEW c, NEW own,
         \A j \in OpenPlaces(h, n, opening, ending) : item[j].key = h[j].ref /\ item[j].owner = own[j]
  PROVE  Graph!Owned(Left(h, n, opening, ending, item), c) = {h[j].ref : j \in {i \in OpenPlaces(h, n, opening, ending) : own[i] = c}}
  <1> DEFINE A == OpenPlaces(h, n, opening, ending)
             X == {item[j] : j \in A}
  <1>1. Left(h, n, opening, ending, item) = X
    BY DEF Left
  <1>2. Graph!Owned(X, c) = {x.key : x \in {y \in X : y.owner = c}}
    BY DEF Graph!Owned
  <1>4. \A j \in A : item[j].key = h[j].ref /\ item[j].owner = own[j]
    OBVIOUS
  <1> HIDE DEF A
  <1>3. {x.key : x \in {y \in X : y.owner = c}} = {h[j].ref : j \in {i \in A : own[i] = c}}
    BY <1>4
  <1> QED BY <1>1, <1>2, <1>3 DEF A

-----------------------------------------------------------------------------
(* What holds of the history and the cursor                                 *)

\* What a record comes after is before it.
Followed(h) == \A i \in 1..Len(h) : \A a \in h[i].after : \E j \in 1..(i - 1) : h[j].id = a

PlayInv ==
    /\ played \in Seq(Recordable) /\ Followed(played)
    /\ cursor \in 0..Graph!Count /\ (phase = "playing" => cursor > 0)

\* The movements of a history and their places in it.
Moving(h) == {i \in 1..Len(h) : Graph!IsMovement(h[i])}

LEMMA SamePlaces == ASSUME NEW s, NEW places PROVE Graph!AtPlaces(s, places) = AtPlaces(s, places)
  BY DEF Graph!AtPlaces, AtPlaces

LEMMA MovementsChained ==
  ASSUME NEW h \in Seq(Recordable)
  PROVE /\ Chained(Graph!Movements(h), h, Moving(h), Len(h))
        /\ Graph!Movements(h) \in Seq(Recordable)
  <1>1. Len(h) \in Nat /\ DOMAIN h = 1..Len(h)
    BY LenProperties
  <1>2. Graph!Movements(h) = AtPlaces(h, Moving(h))
    BY <1>1, SamePlaces DEF Graph!Movements, Moving
  <1>3. Chained(Graph!Movements(h), h, Moving(h), Len(h))
    BY <1>1, <1>2, AtPlacesChained
  <1>4. Graph!Movements(h) \in Seq({h[i] : i \in 1..Len(h)})
    BY <1>3 DEF Chained, Chain
  <1>5. {h[i] : i \in 1..Len(h)} \subseteq Recordable
    BY ElementOfSeq
  <1>6. Graph!Movements(h) \in Seq(Recordable)
    BY <1>4, <1>5, SeqMonotonic
  <1> QED BY <1>3, <1>6

LEMMA CountIs == ASSUME played \in Seq(Recordable) PROVE Graph!Count \in Nat
  BY MovementsChained, LenProperties DEF Graph!Count

LEMMA AtIs == ASSUME played \in Seq(Recordable) PROVE Graph!At \in 0..Len(played)
  <1> DEFINE ms == Graph!Movements(played)
             T == {n \in DOMAIN played : played[n].id = ms[cursor].id}
  <1>1. Len(played) \in Nat /\ DOMAIN played = 1..Len(played)
    BY LenProperties
  <1>2. PICK e : Chain(e, ms, played, Moving(played), Len(played))
    BY MovementsChained DEF Chained
  <1>3. DOMAIN ms = 1..Len(ms)
    BY MovementsChained, LenProperties
  <1>4. Graph!At = IF cursor \in DOMAIN ms THEN CHOOSE n \in DOMAIN played : played[n].id = ms[cursor].id ELSE 0
    BY DEF Graph!At
  <1> HIDE DEF ms
  <1>5. CASE cursor \in DOMAIN ms
    <2>1. e[cursor] \in 1..Len(played) /\ ms[cursor] = played[e[cursor]]
      BY <1>2, <1>3, <1>5 DEF Chain
    <2>2. \E n \in DOMAIN played : played[n].id = ms[cursor].id
      BY <1>1, <2>1
    <2> QED BY <1>1, <1>4, <1>5, <2>2
  <1>6. CASE cursor \notin DOMAIN ms
    BY <1>1, <1>4, <1>6
  <1> QED BY <1>5, <1>6

-----------------------------------------------------------------------------
(* The activity at the cursor                                               *)

\* What a reader finds open and not ended.
Found(h, n, opening, ending, c, own) == {h[j].ref : j \in {i \in OpenPlaces(h, n, opening, ending) : own[i] = c}}

LEMMA StillOpenIs ==
  ASSUME NEW n \in Nat, NEW opening, NEW ending, NEW c
  PROVE /\ Graph!StillOpen(n, opening, ending, c, Graph!Sender) = Found(played, n, opening, ending, c, [j \in 1..n |-> played[j].source])
        /\ Graph!StillOpen(n, opening, ending, c, Graph!Receiver) = Found(played, n, opening, ending, c, [j \in 1..n |-> played[j].target])
        /\ Graph!StillOpen(n, opening, ending, c, Graph!Consumer) = Found(played, n, opening, ending, c, [j \in 1..n |-> played[j].consumer])
  <1>1. \A j \in 1..n : Graph!Earlier(n, j) <=> ~played[j].redacted
    BY DEF Graph!Earlier
  <1>2. \A j \in 1..n : \A k \in (j + 1)..n : k \in 1..n
    OBVIOUS
  <1> DEFINE A == OpenPlaces(played, n, opening, ending)
  <1>3. \A j : j \in A <=> /\ j \in 1..n /\ Graph!Earlier(n, j) /\ played[j].type = opening
                           /\ \A k \in (j + 1)..n : Graph!Earlier(n, k) /\ played[k].ref = played[j].ref => played[k].type \notin ending
    BY <1>1, <1>2 DEF OpenPlaces
  <1> HIDE DEF A
  <1>4. \A j \in A : j \in 1..n
    BY <1>3
  <1>5. Graph!StillOpen(n, opening, ending, c, Graph!Sender) = {played[j].ref : j \in {i \in A : played[i].source = c}}
    BY <1>3 DEF Graph!StillOpen, Graph!Sender
  <1>6. Graph!StillOpen(n, opening, ending, c, Graph!Receiver) = {played[j].ref : j \in {i \in A : played[i].target = c}}
    BY <1>3 DEF Graph!StillOpen, Graph!Receiver
  <1>7. Graph!StillOpen(n, opening, ending, c, Graph!Consumer) = {played[j].ref : j \in {i \in A : played[i].consumer = c}}
    BY <1>3 DEF Graph!StillOpen, Graph!Consumer
  <1> QED BY <1>4, <1>5, <1>6, <1>7 DEF Found, A

LEMMA ActivityIsRecorded == ASSUME RecordsAssumption, PlayInv PROVE Graph!ActivityRecorded
  <1> DEFINE n == Graph!At
             h == played
             open == Graph!Activity
  <1>1. h \in Seq(Recordable) /\ n \in 0..Len(h) /\ Len(h) \in Nat
    BY AtIs, LenProperties DEF PlayInv
  <1>2. IsOpen(open, h, n)
    BY <1>1, ActivityIsOpen DEF Graph!Activity
  <1> HIDE DEF n, open
  <1>3. n \in Nat /\ \A j \in 1..n : j \in 1..Len(h)
    BY <1>1
  <1>4. \A opening, ending : \A j \in OpenPlaces(h, n, opening, ending) : j \in 1..n
    BY DEF OpenPlaces
  <1> SUFFICES ASSUME NEW c
               PROVE /\ Graph!Owned(open.waits, c) = Graph!StillOpen(n, "request.sent", {"response.received", "request.timedout"}, c, Graph!Sender)
                     /\ Graph!Owned(open.requests, c) = Graph!StillOpen(n, "request.delivered", {"response.sent"}, c, Graph!Receiver)
                     /\ Graph!Owned(open.deliveries, c) = Graph!StillOpen(n, "message.delivered", {"message.acknowledged", "message.ack.stale", "message.nacked"}, c, Graph!Consumer)
                     /\ Graph!StillOpen(n, "transaction.begun", {"transaction.committed", "transaction.rolledback", "transaction.rejected"}, c, Graph!Sender)
                           \subseteq Graph!Owned(open.transactions, c)
                     /\ Graph!StateOf(open, c) = "idle" => Graph!Owned(open.waits, c) = {} /\ Graph!Owned(open.transactions, c) = {}
    BY DEF Graph!ActivityRecorded, n, open
  <1> DEFINE source == [j \in 1..n |-> h[j].source]
             target == [j \in 1..n |-> h[j].target]
             consumer == [j \in 1..n |-> h[j].consumer]
  <1>5. /\ open.waits = Left(h, n, "request.sent", Waits, WaitItem(h))
        /\ open.requests = Left(h, n, "request.delivered", Handled, RequestItem(h))
        /\ open.transactions = Left(h, n, "transaction.begun", Ended, WorkItem(h))
        /\ open.deliveries = Left(h, n, "message.delivered", Settled, DeliveryItem(h))
    BY <1>2 DEF IsOpen
  <1>6. \A j \in 1..n : /\ WaitItem(h)[j].key = h[j].ref /\ WaitItem(h)[j].owner = source[j]
                        /\ RequestItem(h)[j].key = h[j].ref /\ RequestItem(h)[j].owner = target[j]
                        /\ WorkItem(h)[j].key = h[j].ref /\ WorkItem(h)[j].owner = source[j]
                        /\ DeliveryItem(h)[j].key = h[j].ref /\ DeliveryItem(h)[j].owner = consumer[j]
    BY <1>3 DEF WaitItem, RequestItem, WorkItem, DeliveryItem
  <1> HIDE DEF source, target, consumer
  <1>7. Graph!Owned(open.waits, c) = Found(h, n, "request.sent", Waits, c, source)
    <2>1. \A j \in OpenPlaces(h, n, "request.sent", Waits) : WaitItem(h)[j].key = h[j].ref /\ WaitItem(h)[j].owner = source[j]
      BY <1>4, <1>6
    <2> QED BY <1>3, <1>5, <2>1, OwnedIs DEF Found
  <1>8. Graph!Owned(open.requests, c) = Found(h, n, "request.delivered", Handled, c, target)
    <2>1. \A j \in OpenPlaces(h, n, "request.delivered", Handled) : RequestItem(h)[j].key = h[j].ref /\ RequestItem(h)[j].owner = target[j]
      BY <1>4, <1>6
    <2> QED BY <1>3, <1>5, <2>1, OwnedIs DEF Found
  <1>9. Graph!Owned(open.transactions, c) = Found(h, n, "transaction.begun", Ended, c, source)
    <2>1. \A j \in OpenPlaces(h, n, "transaction.begun", Ended) : WorkItem(h)[j].key = h[j].ref /\ WorkItem(h)[j].owner = source[j]
      BY <1>4, <1>6
    <2> QED BY <1>3, <1>5, <2>1, OwnedIs DEF Found
  <1>10. Graph!Owned(open.deliveries, c) = Found(h, n, "message.delivered", Settled, c, consumer)
    <2>1. \A j \in OpenPlaces(h, n, "message.delivered", Settled) : DeliveryItem(h)[j].key = h[j].ref /\ DeliveryItem(h)[j].owner = consumer[j]
      BY <1>4, <1>6
    <2> QED BY <1>3, <1>5, <2>1, OwnedIs DEF Found
  <1> DEFINE More == {"transaction.committed", "transaction.rolledback", "transaction.rejected"}
  <1>11. /\ Graph!StillOpen(n, "request.sent", Waits, c, Graph!Sender) = Found(h, n, "request.sent", Waits, c, source)
         /\ Graph!StillOpen(n, "request.delivered", Handled, c, Graph!Receiver) = Found(h, n, "request.delivered", Handled, c, target)
         /\ Graph!StillOpen(n, "message.delivered", Settled, c, Graph!Consumer) = Found(h, n, "message.delivered", Settled, c, consumer)
         /\ Graph!StillOpen(n, "transaction.begun", More, c, Graph!Sender) = Found(h, n, "transaction.begun", More, c, source)
    BY <1>3, StillOpenIs DEF source, target, consumer
  <1>12. Found(h, n, "transaction.begun", More, c, source) \subseteq Found(h, n, "transaction.begun", Ended, c, source)
    <2>1. Ended \subseteq More
      BY DEF Ended
    <2> HIDE DEF More
    <2>2. OpenPlaces(h, n, "transaction.begun", More) \subseteq OpenPlaces(h, n, "transaction.begun", Ended)
      BY <2>1 DEF OpenPlaces
    <2> QED BY <2>2 DEF Found
  <1>13. Graph!StateOf(open, c) = "idle" => Graph!Owned(open.waits, c) = {} /\ Graph!Owned(open.transactions, c) = {}
    BY DEF Graph!StateOf, Graph!Waiting, Graph!Processing
  <1> QED BY <1>7, <1>8, <1>9, <1>10, <1>11, <1>12, <1>13 DEF Waits, Handled, Settled

-----------------------------------------------------------------------------
(* The steps of a replay                                                    *)

\* What a step that ends a hop is of, and what departed.
Ends(o) == Graph!LegOf(o) \in {"arrival", "interrupted", "timeout"}
SameLeg(r, s) == {r.type, s.type} \subseteq Graph!RequestTypes \/ {r.type, s.type} \subseteq Graph!ResponseTypes

LEMMA EndsIs ==
  ASSUME NEW o
  PROVE /\ Ends(o) => o.type \in Graph!RequestTypes \cup Graph!ResponseTypes /\ Graph!LegOf(o) # "departure" /\ Graph!LegOf(o) # "trip"
        /\ Graph!LegOf(o) = "departure" <=> o.type \in {"request.sent", "response.sent"}
  BY DEF Ends, Graph!LegOf, Graph!RequestTypes, Graph!ResponseTypes

LEMMA KindIs ==
  ASSUME NEW o
  PROVE /\ o.type \in Graph!RequestTypes => Graph!MovementOf(o) = Graph!Leg(o, "request", o.source, o.target, "request")
        /\ o.type \in Graph!ResponseTypes => Graph!MovementOf(o) = Graph!Leg(o, "response", o.source, o.target, "request")
  BY DEF Graph!MovementOf, Graph!RequestTypes, Graph!ResponseTypes, Graph!MessageTypes

LEMMA LegIs ==
  ASSUME NEW o, NEW kind, NEW from, NEW to, NEW relationship, NEW m, m = Graph!Leg(o, kind, from, to, relationship)
  PROVE /\ m.kind = kind /\ m.observation = o /\ m.from = from /\ m.to = (IF to = from THEN Nobody ELSE to)
  BY DEF Graph!Leg

\* A visible step of a request or a response has the key of its hop.
Hop(o) == IF o.type \in Graph!RequestTypes THEN <<"request", o.ref>> ELSE <<"response", o.ref>>

LEMMA HopIs ==
  ASSUME RecordsAssumption, NEW o \in Recordable, ~o.redacted, o.type \in Graph!RequestTypes \cup Graph!ResponseTypes
  PROVE Graph!HopKey(Graph!MovementOf(o)) = Hop(o)
  <1> DEFINE m == Graph!MovementOf(o)
  <1>1. o.ref # Nobody
    BY DEF RecordsAssumption, Graph!WellRecorded
  <1>2. m.observation = o /\ m.kind = IF o.type \in Graph!RequestTypes THEN "request" ELSE "response"
    BY KindIs, LegIs DEF Graph!RequestTypes, Graph!ResponseTypes
  <1> HIDE DEF m
  <1>3. Graph!Stored(m.observation, "ref") = o.ref
    BY <1>2 DEF Graph!Stored
  <1>4. Graph!HopKey(m) = <<m.kind, m.observation.ref>>
    BY <1>1, <1>2, <1>3 DEF Graph!HopKey
  <1> QED BY <1>2, <1>4 DEF Hop, m

LEMMA SameHop ==
  ASSUME NEW r, NEW s, r.type \in Graph!RequestTypes \cup Graph!ResponseTypes, s.type \in Graph!RequestTypes \cup Graph!ResponseTypes
  PROVE Hop(r) = Hop(s) <=> SameLeg(r, s) /\ r.ref = s.ref
  BY DEF Hop, SameLeg, Graph!RequestTypes, Graph!ResponseTypes

LEMMA OneLeg ==
  ASSUME RecordsAssumption, NEW r \in Recordable, NEW s \in Recordable, ~r.redacted, ~s.redacted, r.ref = s.ref, SameLeg(r, s)
  PROVE Graph!MovementOf(r).from = Graph!MovementOf(s).from /\ Graph!MovementOf(r).to = Graph!MovementOf(s).to
  <1>1. r.source = s.source /\ r.target = s.target
    BY DEF RecordsAssumption, Graph!WellRecorded, SameLeg
  <1>2. \A o : o.type \in Graph!RequestTypes \cup Graph!ResponseTypes
            => /\ Graph!MovementOf(o).from = o.source
               /\ Graph!MovementOf(o).to = (IF o.target = o.source THEN Nobody ELSE o.target)
    BY KindIs, LegIs
  <1> QED BY <1>1, <1>2 DEF SameLeg

LEMMA DepartedIs ==
  ASSUME RecordsAssumption, PlayInv, NEW ms, ms = Graph!Movements(played), NEW i \in 1..Len(ms),
         Ends(ms[i]), \A j \in 1..Len(ms) : ~ms[j].redacted
  PROVE \E j \in 1..(i - 1) : /\ Graph!DepartureOf(ms, i) = ms[j].id /\ Graph!LegOf(ms[j]) = "departure" /\ ms[j].ref = ms[i].ref
                              /\ Graph!MovementOf(ms[j]).from = Graph!MovementOf(ms[i]).from
                              /\ Graph!MovementOf(ms[j]).to = Graph!MovementOf(ms[i]).to
  <1> DEFINE o == ms[i]
             hop == Graph!HopKey(Graph!MovementOf(o))
             departed == {j \in 1..(i - 1) : Graph!LegOf(ms[j]) = "departure" /\ Graph!HopKey(Graph!MovementOf(ms[j])) = hop}
  <1>1. ms \in Seq(Recordable) /\ Len(ms) \in Nat /\ \A j \in 1..Len(ms) : ms[j] \in Recordable
    BY MovementsChained, LenProperties, ElementOfSeq DEF PlayInv
  <1>2. PICK e : Chain(e, ms, played, Moving(played), Len(played))
    BY MovementsChained DEF PlayInv, Chained
  <1>3. o \in Recordable /\ ~o.redacted /\ o.type \in Graph!RequestTypes \cup Graph!ResponseTypes
        /\ Graph!LegOf(o) # "departure" /\ Graph!LegOf(o) # "trip"
    BY <1>1, EndsIs
  <1>4. PICK s \in Recordable : s.id \in o.after /\ s.ref = o.ref /\ Graph!LegOf(s) = "departure" /\ SameLeg(o, s)
    BY <1>3 DEF RecordsAssumption, Graph!WellRecorded, SameLeg
  <1>5. Len(played) \in Nat /\ \A j \in 1..Len(played) : played[j] \in Recordable
    BY LenProperties, ElementOfSeq DEF PlayInv
  <1>6. e[i] \in 1..Len(played) /\ played[e[i]] = o
    BY <1>2 DEF Chain
  <1>7. PICK p \in 1..(e[i] - 1) : played[p].id = s.id
    BY <1>4, <1>6 DEF PlayInv, Followed
  <1>8. p \in 1..Len(played) /\ p < e[i]
    BY <1>5, <1>6, <1>7
  <1>9. played[p] = s
    BY <1>4, <1>5, <1>7, <1>8 DEF RecordsAssumption, Graph!WellRecorded
  <1>10. p \in Moving(played)
    BY <1>4, <1>8, <1>9, EndsIs DEF Moving, Graph!IsMovement, Graph!RequestTypes, Graph!ResponseTypes
  <1>11. PICK k \in 1..Len(ms) : e[k] = p
    BY <1>2, <1>8, <1>10 DEF Chain
  <1>12. ms[k] = s
    BY <1>2, <1>9, <1>11 DEF Chain
  <1>13. k \in 1..(i - 1)
    <2>1. ~(i < k) /\ i # k
      BY <1>2, <1>6, <1>8, <1>11 DEF Chain
    <2> QED BY <1>1, <2>1
  <1>14. \A j \in 1..(i - 1) : j \in 1..Len(ms)
    BY <1>1
  <1>15. hop = Hop(o)
    BY <1>3, HopIs
  <1>16. \A j \in 1..(i - 1) : Graph!LegOf(ms[j]) = "departure" =>
            /\ ms[j].type \in Graph!RequestTypes \cup Graph!ResponseTypes
            /\ Graph!HopKey(Graph!MovementOf(ms[j])) = Hop(ms[j])
    <2> SUFFICES ASSUME NEW j \in 1..(i - 1), Graph!LegOf(ms[j]) = "departure"
                 PROVE /\ ms[j].type \in Graph!RequestTypes \cup Graph!ResponseTypes
                       /\ Graph!HopKey(Graph!MovementOf(ms[j])) = Hop(ms[j])
      OBVIOUS
    <2>1. ms[j] \in Recordable /\ ~ms[j].redacted
      BY <1>1, <1>14
    <2>2. ms[j].type \in Graph!RequestTypes \cup Graph!ResponseTypes
      BY EndsIs DEF Graph!RequestTypes, Graph!ResponseTypes
    <2> QED BY <2>1, <2>2, HopIs
  <1>17. k \in departed
    <2>1. Hop(s) = Hop(o)
      BY <1>3, <1>4, <1>12, <1>13, <1>16, SameHop DEF SameLeg
    <2> QED BY <1>4, <1>12, <1>13, <1>15, <1>16, <2>1
  <1> DEFINE last == CHOOSE j \in departed : \A l \in departed : l <= j
  <1>18. last \in departed
    <2>1. departed \subseteq 1..Len(ms)
      BY <1>14
    <2> HIDE DEF departed
    <2> QED BY <1>1, <1>17, <2>1, Latest
  <1>19. Graph!DepartureOf(ms, i) = ms[last].id
    <2>1. hop # Nobody
      BY <1>3, <1>15 DEF Hop, RecordsAssumption, Graph!WellRecorded
    <2> QED BY <1>3, <1>17, <2>1 DEF Graph!DepartureOf
  <1>20. last \in 1..(i - 1) /\ Graph!LegOf(ms[last]) = "departure" /\ Graph!HopKey(Graph!MovementOf(ms[last])) = hop
    BY <1>18
  <1> HIDE DEF last
  <1>21. SameLeg(ms[last], o) /\ ms[last].ref = o.ref
    BY <1>3, <1>15, <1>16, <1>20, SameHop
  <1>22. ms[last] \in Recordable /\ ~ms[last].redacted
    BY <1>1, <1>14, <1>20
  <1>23. /\ Graph!MovementOf(ms[last]).from = Graph!MovementOf(o).from
         /\ Graph!MovementOf(ms[last]).to = Graph!MovementOf(o).to
    BY <1>3, <1>21, <1>22, OneLeg
  <1> QED BY <1>19, <1>20, <1>21, <1>23

LEMMA EdgesAreTravelled ==
  ASSUME NEW m, NEW e \in Graph!EdgeFor(m)
  PROVE IF Graph!Reversed(m) THEN m.from = e.target /\ m.to = e.source ELSE m.from = e.source /\ m.to = e.target
  BY DEF Graph!EdgeFor, Graph!Reversed

LEMMA StepsArePaired == ASSUME RecordsAssumption, PlayInv PROVE Graph!StepsPaired
  <1> DEFINE ms == Graph!Movements(played)
  <1>1. DOMAIN ms = 1..Len(ms)
    BY MovementsChained, LenProperties DEF PlayInv
  <1> SUFFICES ASSUME NEW i \in DOMAIN ms
               PROVE /\ Ends(ms[i]) /\ ~ms[i].redacted /\ (\A j \in DOMAIN ms : ~ms[j].redacted) =>
                           \E j \in 1 .. i - 1 : /\ Graph!DepartureOf(ms, i) = ms[j].id /\ Graph!LegOf(ms[j]) = "departure" /\ ms[j].ref = ms[i].ref
                                                 /\ Graph!MovementOf(ms[j]).from = Graph!MovementOf(ms[i]).from
                                                 /\ Graph!MovementOf(ms[j]).to = Graph!MovementOf(ms[i]).to
                     /\ \A e \in Graph!EdgeFor(Graph!MovementOf(ms[i])) :
                           LET m == Graph!MovementOf(ms[i]) IN
                           IF Graph!Reversed(m) THEN m.from = e.target /\ m.to = e.source ELSE m.from = e.source /\ m.to = e.target
    BY DEF Graph!StepsPaired, Ends
  <1> QED BY <1>1, DepartedIs, EdgesAreTravelled

-----------------------------------------------------------------------------
(* Playing, recording and resetting                                         *)

\* A history that is as it was, or empty, or one record longer.
LEMMA SameHistory ==
  ASSUME PlayInv, UNCHANGED played, cursor' \in 0..Graph!Count, phase' = "playing" => cursor' > 0
  PROVE PlayInv'
  <1>1. Graph!Count' = Graph!Count
    BY DEF Graph!Count, Graph!Movements
  <1>2. played' \in Seq(Recordable) /\ Followed(played)'
    BY DEF PlayInv, Followed
  <1> QED BY <1>1, <1>2 DEF PlayInv

LEMMA PlayStep == ASSUME PlayInv, Graph!Play PROVE PlayInv'
  <1>1. Graph!Count \in Nat /\ cursor \in 0..Graph!Count
    BY CountIs DEF PlayInv
  <1>2. Graph!Count > 1
    BY <1>1 DEF Graph!Play, Graph!Control
  <1>3. cursor' = (IF cursor > 0 THEN cursor ELSE 1) /\ UNCHANGED played
    BY DEF Graph!Play, Graph!Counted
  <1> QED BY <1>1, <1>2, <1>3, SameHistory

LEMMA RestartStep == ASSUME PlayInv, Graph!Restart PROVE PlayInv'
  <1>1. Graph!Count \in Nat
    BY CountIs DEF PlayInv
  <1>2. Graph!Count > 1
    BY <1>1 DEF Graph!Restart, Graph!Control
  <1>3. cursor' = 1 /\ UNCHANGED played
    BY DEF Graph!Restart, Graph!Counted
  <1> QED BY <1>1, <1>2, <1>3, SameHistory

LEMMA StopStep == ASSUME PlayInv, Graph!Pause \/ Graph!Release \/ Graph!Recording PROVE PlayInv'
  <1>1. Graph!Count \in Nat /\ cursor \in 0..Graph!Count /\ (phase = "playing" => cursor > 0)
    BY CountIs DEF PlayInv
  <1>2. UNCHANGED played /\ (cursor' = cursor \/ cursor' = 0) /\ (phase' = "playing" => phase = "playing" /\ cursor' = cursor)
    BY DEF Graph!Pause, Graph!Release, Graph!Recording, Graph!Counted
  <1> QED BY <1>1, <1>2, SameHistory

LEMMA CursorStep == ASSUME PlayInv, Graph!MoveTo PROVE PlayInv'
  <1>1. Graph!Count \in Nat /\ cursor \in 0..Graph!Count
    BY CountIs DEF PlayInv
  <1>2. PICK delta \in {-1, 1} : /\ Graph!Target(cursor, Graph!Count, delta) # Nobody
                                 /\ cursor' = Graph!Target(cursor, Graph!Count, delta)
    BY DEF Graph!MoveTo
  <1>3. cursor' \in 1..Graph!Count
    BY <1>1, <1>2 DEF Graph!Target
  <1>4. UNCHANGED played
    BY DEF Graph!MoveTo, Graph!Counted
  <1> QED BY <1>1, <1>3, <1>4, SameHistory

LEMMA TickStep == ASSUME PlayInv, Graph!Tick PROVE PlayInv'
  <1>1. Graph!Count \in Nat /\ cursor \in 0..Graph!Count /\ cursor > 0
    BY CountIs DEF PlayInv, Graph!Tick
  <1>2. cursor' = (IF cursor >= Graph!Count THEN Graph!Count ELSE cursor + 1) /\ UNCHANGED played
    BY DEF Graph!Tick
  <1> QED BY <1>1, <1>2, SameHistory

\* A cursor fits the movements of another history.
LEMMA FittedCursor ==
  ASSUME PlayInv, NEW count \in Nat, Graph!Fit(count)
  PROVE cursor' \in 0..count /\ (phase' = "playing" => cursor' > 0)
  <1>1. Graph!Count \in Nat /\ cursor \in 0..Graph!Count /\ (phase = "playing" => cursor > 0)
    BY CountIs DEF PlayInv
  <1> QED BY <1>1 DEF Graph!Fit

LEMMA RecordStep == ASSUME PlayInv, Graph!Publish PROVE PlayInv'
  <1>1. PICK o \in Recordable : o.after \subseteq Graph!Recorded /\ played' = Append(played, o)
    BY DEF Graph!Publish
  <1> DEFINE h == Append(played, o)
             n == Len(played)
  <1>2. n \in Nat /\ DOMAIN played = 1..n
    BY LenProperties DEF PlayInv
  <1>3. /\ h \in Seq(Recordable) /\ Len(h) = n + 1 /\ (\A i \in 1..n : h[i] = played[i]) /\ h[n + 1] = o
    BY AppendProperties DEF PlayInv
  <1>4. played' = h
    BY <1>1
  <1> HIDE DEF h
  <1>5. Followed(h)
    <2> SUFFICES ASSUME NEW i \in 1..Len(h), NEW a \in h[i].after PROVE \E j \in 1..(i - 1) : h[j].id = a
      BY DEF Followed
    <2>1. CASE i \in 1..n
      <3>1. PICK j \in 1..(i - 1) : played[j].id = a
        BY <1>3, <2>1 DEF PlayInv, Followed
      <3>2. j \in 1..n
        BY <1>2, <2>1
      <3> QED BY <1>3, <3>1, <3>2
    <2>2. CASE i = n + 1
      <3>1. a \in Graph!Recorded
        BY <1>1, <1>3, <2>2
      <3>2. PICK j \in 1..n : played[j].id = a
        BY <1>2, <3>1 DEF Graph!Recorded
      <3>3. j \in 1..(i - 1)
        BY <1>2, <2>2
      <3> QED BY <1>3, <3>2, <3>3
    <2> QED BY <1>2, <1>3, <2>1, <2>2
  <1> DEFINE count == Len(Graph!Movements(h))
  <1>6. count \in Nat
    BY <1>3, MovementsChained, LenProperties
  <1>7. Graph!Count' = count
    BY <1>4 DEF Graph!Count, Graph!Movements
  <1>8. Graph!Fit(count)
    BY <1>4 DEF Graph!Publish, Graph!Movements
  <1> HIDE DEF count
  <1>9. cursor' \in 0..count /\ (phase' = "playing" => cursor' > 0)
    BY <1>6, <1>8, FittedCursor
  <1>10. Followed(played)'
    BY <1>4, <1>5 DEF Followed
  <1> QED BY <1>3, <1>4, <1>7, <1>9, <1>10 DEF PlayInv

LEMMA NoMovement == Graph!Movements(<<>>) \in Seq({}) /\ Len(Graph!Movements(<<>>)) = 0 /\ Followed(<<>>)
  <1>1. Len(<<>>) = 0 /\ DOMAIN <<>> = {} /\ <<>> \in Seq(Recordable)
    OBVIOUS
  <1>2. Chained(Graph!Movements(<<>>), <<>>, Moving(<<>>), Len(<<>>))
    BY <1>1, MovementsChained
  <1>3. Graph!Movements(<<>>) \in Seq({<<>>[i] : i \in 1..0})
    BY <1>1, <1>2 DEF Chained, Chain
  <1>4. {<<>>[i] : i \in 1..0} = {}
    OBVIOUS
  <1>5. Graph!Movements(<<>>) \in Seq({})
    BY <1>3, <1>4
  <1>6. Len(Graph!Movements(<<>>)) = 0
    BY <1>5, LenProperties, ElementOfSeq
  <1> QED BY <1>1, <1>5, <1>6 DEF Followed

LEMMA ResetStep == ASSUME PlayInv, Graph!Reset PROVE PlayInv'
  <1>1. played' = <<>> /\ Graph!Fit(0)
    BY DEF Graph!Reset
  <1>2. cursor' \in 0..0 /\ (phase' = "playing" => cursor' > 0)
    BY <1>1, FittedCursor
  <1>3. Graph!Count' = 0
    BY <1>1, NoMovement DEF Graph!Count, Graph!Movements
  <1>4. Followed(played)'
    BY <1>1, NoMovement DEF Followed
  <1>5. played' \in Seq(Recordable)
    BY <1>1
  <1> QED BY <1>2, <1>3, <1>4, <1>5 DEF PlayInv

LEMMA GraphStep == ASSUME PlayInv, Graph!Next PROVE PlayInv'
  BY PlayStep, RestartStep, StopStep, CursorStep, TickStep, RecordStep, ResetStep DEF Graph!Next

LEMMA GraphSame == ASSUME PlayInv, UNCHANGED playbackVars PROVE PlayInv'
  <1>1. UNCHANGED <<played, cursor, phase>>
    BY DEF playbackVars
  <1> QED BY <1>1, SameHistory DEF PlayInv

LEMMA GraphPage == ASSUME PlayInv, [PageNext]_<<part, scenarioVars, submitted, draftVars, vars, playbackVars>> PROVE PlayInv'
  <1>1. CASE part = "playback" /\ Graph!Next /\ Others
    BY <1>1, GraphStep
  <1>2. CASE part # "playback" /\ Others
    BY <1>2, GraphSame DEF Others, Still
  <1>3. CASE UNCHANGED playbackVars
    BY <1>3, GraphSame
  <1> QED BY <1>1, <1>2, <1>3 DEF PageNext

LEMMA GraphInit == ASSUME PageInit PROVE PlayInv
  <1>1. played = <<>> /\ cursor = 0 /\ phase = "idle"
    BY DEF PageInit, Graph!Init
  <1>2. Graph!Count = 0
    BY <1>1, NoMovement DEF Graph!Count
  <1> QED BY <1>1, <1>2, NoMovement DEF PlayInv

LEMMA CursorIsPlaced == ASSUME PlayInv PROVE Graph!CursorPlaced
  <1>1. Graph!Count \in Nat
    BY CountIs DEF PlayInv
  <1> QED BY <1>1 DEF PlayInv, Graph!CursorPlaced

\* Whatever a run records, and however it is replayed while it grows or after
\* it is replaced, the graph shows at the cursor what the records before it
\* have opened and not ended, pairs a step that ends a hop with the departure
\* of the same leg, draws a movement the way its link goes, and has its cursor
\* on a movement.
THEOREM GraphPaintsTheRecord == PageSpec => []PaintsTheRecord
  <1>1. PageInit => PlayInv
    BY GraphInit
  <1>2. PlayInv /\ [PageNext]_<<part, scenarioVars, submitted, draftVars, vars, playbackVars>> => PlayInv'
    BY GraphPage
  <1>3. PlayInv => PaintsTheRecord
    BY RecordsAssumption, ActivityIsRecorded, StepsArePaired, CursorIsPlaced DEF PaintsTheRecord, Graph!PaintsTheRecord
  <1> QED BY <1>1, <1>2, <1>3, PTL DEF PageSpec

-----------------------------------------------------------------------------
(* A set as a list                                                          *)

ListOf(s, S) == s \in Seq(S) /\ Student!Values(s) = S /\ \A i, j \in DOMAIN s : s[i] = s[j] => i = j

LEMMA SameCardinality == ASSUME NEW S PROVE Student!Cardinality(S) = Cardinality(S)
  BY DEF Student!Cardinality, Cardinality

LEMMA ListIs == ASSUME NEW S, IsFiniteSet(S) PROVE ListOf(Student!SetToSeq(S), S)
  <1> DEFINE n == Cardinality(S)
             s == Student!SetToSeq(S)
  <1>1. n \in Nat /\ ExistsBijection(1..n, S)
    BY FS_CardinalityType
  <1>2. PICK f \in [1..n -> S] : (\A x \in S : \E i \in 1..n : f[i] = x) /\ Student!IsInjective(f)
    BY <1>1 DEF ExistsBijection, Bijection, Injection, Surjection, IsInjective, Student!IsInjective
  <1>3. s \in [1..n -> S] /\ Student!IsInjective(s)
    BY <1>2, SameCardinality DEF Student!SetToSeq
  <1> HIDE DEF s
  <1>4. \A x \in S : \E i \in 1..n : s[i] = x
    <2> DEFINE R == {s[i] : i \in 1..n}
    <2>1. s \in Bijection(1..n, R)
      BY <1>3 DEF Bijection, Injection, Surjection, IsInjective, Student!IsInjective
    <2>2. IsFiniteSet(1..n) /\ Cardinality(1..n) = n
      BY <1>1, FS_Interval
    <2>3. Cardinality(R) = n
      BY <2>1, <2>2, FS_Bijection DEF ExistsBijection
    <2>4. R \in SUBSET S
      BY <1>3
    <2> HIDE DEF R, n
    <2>5. R = S
      BY <2>3, <2>4, FS_Subset DEF n
    <2> QED BY <2>5 DEF R
  <1>5. DOMAIN s = 1..n /\ Len(s) = n /\ s \in Seq(S)
    BY <1>1, <1>3
  <1>6. Student!Values(s) = S
    BY <1>3, <1>4, <1>5 DEF Student!Values
  <1>7. \A i, j \in DOMAIN s : s[i] = s[j] => i = j
    BY <1>3 DEF Student!IsInjective
  <1> QED BY <1>5, <1>6, <1>7 DEF ListOf, s

\* The image of a finite set is finite.
LEMMA ImageIs == ASSUME NEW S, IsFiniteSet(S), NEW f, DOMAIN f = S PROVE IsFiniteSet({f[x] : x \in S})
  <1> DEFINE T == {f[x] : x \in S}
             g == [x \in S |-> f[x]]
  <1>1. g \in Surjection(S, T)
    BY DEF Surjection
  <1> HIDE DEF T, g
  <1>2. IsFiniteSet(T)
    BY <1>1, FS_Surjection
  <1> QED BY <1>2 DEF T

LEMMA ValuesIs == ASSUME NEW s, NEW n \in Nat, DOMAIN s = 1..n PROVE IsFiniteSet(Student!Values(s))
  <1>1. IsFiniteSet(1..n)
    BY FS_Interval
  <1>2. Student!Values(s) = {s[i] : i \in 1..n}
    BY DEF Student!Values
  <1> QED BY <1>1, <1>2, ImageIs

\* Sequences as they are used here: of whatever they have.
IsList(s) == s \in Seq(Student!Values(s))

LEMMA ListsAre ==
  ASSUME NEW s, IsList(s)
  PROVE /\ Len(s) \in Nat /\ DOMAIN s = 1..Len(s) /\ IsFiniteSet(Student!Values(s))
        /\ \A x : x \in Student!Values(s) <=> \E i \in DOMAIN s : s[i] = x
  <1>1. Len(s) \in Nat /\ DOMAIN s = 1..Len(s)
    BY LenProperties DEF IsList
  <1> QED BY <1>1, ValuesIs DEF Student!Values

\* A kept list.
LEMMA KeptIs ==
  ASSUME NEW S, NEW T, IsFiniteSet(T), S \subseteq T, NEW s, s = Student!SetToSeq(S)
  PROVE ListOf(s, S) /\ IsList(s) /\ IsFiniteSet(S)
  <1>1. IsFiniteSet(S)
    BY FS_Subset
  <1>2. ListOf(s, S)
    BY <1>1, ListIs
  <1> QED BY <1>1, <1>2 DEF ListOf, IsList

\* What has one entry of each key, and a list of what has.
LEMMA OnceIs ==
  ASSUME NEW s
  PROVE /\ ~Student!Repeats(s, LAMBDA o : o.key) => \A x, y \in Student!Values(s) : x.key = y.key => x = y
        /\ ~Student!Repeats(s, LAMBDA o : o.component) => \A x, y \in Student!Values(s) : x.component = y.component => x = y
        /\ ~Student!Repeats(s, LAMBDA b : <<b.component, b.peer>>)
              => \A x, y \in Student!Values(s) : <<x.component, x.peer>> = <<y.component, y.peer>> => x = y
        /\ ~Student!Repeats(s, LAMBDA r : <<r.owner, r.resource>>)
              => \A x, y \in Student!Values(s) : <<x.owner, x.resource>> = <<y.owner, y.resource>> => x = y
        /\ ~Student!Repeats(s, LAMBDA e : <<e.consumer, e.destination>>)
              => \A x, y \in Student!Values(s) : <<x.consumer, x.destination>> = <<y.consumer, y.destination>> => x = y
  BY DEF Student!Repeats, Student!Values

LEMMA ListOnce ==
  ASSUME NEW S, NEW s, ListOf(s, S)
  PROVE /\ (\A x, y \in S : x.key = y.key => x = y) => ~Student!Repeats(s, LAMBDA o : o.key)
        /\ (\A x, y \in S : x.component = y.component => x = y) => ~Student!Repeats(s, LAMBDA o : o.component)
        /\ (\A x, y \in S : <<x.component, x.peer>> = <<y.component, y.peer>> => x = y)
              => ~Student!Repeats(s, LAMBDA b : <<b.component, b.peer>>)
        /\ (\A x, y \in S : <<x.owner, x.resource>> = <<y.owner, y.resource>> => x = y)
              => ~Student!Repeats(s, LAMBDA r : <<r.owner, r.resource>>)
        /\ (\A x, y \in S : <<x.consumer, x.destination>> = <<y.consumer, y.destination>> => x = y)
              => ~Student!Repeats(s, LAMBDA e : <<e.consumer, e.destination>>)
  <1>1. \A i \in DOMAIN s : s[i] \in S
    BY DEF ListOf, Student!Values
  <1>2. \A i, j \in DOMAIN s : s[i] = s[j] => i = j
    BY DEF ListOf
  <1> QED BY <1>1, <1>2 DEF Student!Repeats

-----------------------------------------------------------------------------
(* The normal form of an overlay is normal                                  *)

IsOverlay(sub) ==
    /\ \A list \in Student!Lists : IsList(sub[list])
    /\ \A s \in Student!Values(sub.slots) : Student!IsSlot(s)
    /\ \A r \in Student!Values(sub.faults) : Student!IsRule(r)

LEMMA NonDefaultStable ==
  ASSUME NEW list, IsList(list), NEW declared, NEW t, t = Student!NonDefault(list, declared)
  PROVE /\ IsList(t) /\ Student!NonDefault(t, declared) = t
        /\ ~Student!OverridesRefused(list, declared) => ~Student!OverridesRefused(t, declared)
  <1> DEFINE S == {o \in Student!Values(list) : o.value # declared[o.key].default}
  <1>1. t = Student!SetToSeq(S)
    BY DEF Student!NonDefault, Student!Keep
  <1>2. IsFiniteSet(Student!Values(list)) /\ S \subseteq Student!Values(list)
    BY ListsAre
  <1> HIDE DEF S
  <1>3. ListOf(t, S) /\ IsList(t)
    BY <1>1, <1>2, KeptIs
  <1>4. Student!Values(t) = S
    BY <1>3 DEF ListOf
  <1>5. Student!NonDefault(t, declared) = t
    <2>1. {o \in S : o.value # declared[o.key].default} = S
      BY DEF S
    <2> QED BY <1>1, <1>4, <2>1 DEF Student!NonDefault, Student!Keep
  <1>6. ASSUME ~Student!OverridesRefused(list, declared) PROVE ~Student!OverridesRefused(t, declared)
    <2>1. \A x, y \in S : x.key = y.key => x = y
      BY <1>2, <1>6, OnceIs DEF Student!OverridesRefused
    <2>2. ~Student!Repeats(t, LAMBDA o : o.key)
      BY <1>3, <2>1, ListOnce
    <2> QED BY <1>2, <1>4, <1>6, <2>2 DEF Student!OverridesRefused
  <1> QED BY <1>3, <1>5, <1>6 DEF S

LEMMA NonDefaultIs ==
  ASSUME NEW list, IsList(list), NEW declared, NEW t, t = Student!NonDefault(list, declared)
  PROVE ListOf(t, {o \in Student!Values(list) : o.value # declared[o.key].default})
  <1> DEFINE S == {o \in Student!Values(list) : o.value # declared[o.key].default}
  <1>1. t = Student!SetToSeq(S)
    BY DEF Student!NonDefault, Student!Keep
  <1>2. IsFiniteSet(Student!Values(list)) /\ S \subseteq Student!Values(list)
    BY ListsAre
  <1> HIDE DEF S
  <1>3. ListOf(t, S)
    BY <1>1, <1>2, KeptIs
  <1> QED BY <1>3 DEF S
LEMMA ReadSlotIs ==
  ASSUME NEW s, Student!IsSlot(s), NEW r, r = Student!ReadSlot(s)
  PROVE /\ r = [component |-> s.component, model |-> s.model, options |-> Student!NonDefault(s.options, Designs[s.model].options)]
        /\ r.component = s.component /\ r.model = s.model /\ r.options = Student!NonDefault(s.options, Designs[s.model].options)
        /\ Student!IsSlot(r) /\ Student!ReadSlot(r) = r
        /\ Student!SlotNoop(r) <=> Student!SlotNoop(s)
        /\ ~Student!SlotRefused(s) => ~Student!SlotRefused(r)
  <1> DEFINE options == Student!NonDefault(s.options, Designs[s.model].options)
  <1>1. s = [component |-> s.component, model |-> s.model, options |-> s.options] /\ IsList(s.options)
    BY DEF Student!IsSlot, IsList
  <1>2. r = [s EXCEPT !.options = options]
    BY DEF Student!ReadSlot
  <1>3. /\ IsList(options) /\ Student!NonDefault(options, Designs[s.model].options) = options
        /\ ~Student!OverridesRefused(s.options, Designs[s.model].options) => ~Student!OverridesRefused(options, Designs[s.model].options)
    <2> DEFINE list == s.options
               declared == Designs[s.model].options
    <2>1. IsList(list) /\ options = Student!NonDefault(list, declared)
      BY <1>1
    <2> HIDE DEF list, declared, options
    <2>2. /\ IsList(options) /\ Student!NonDefault(options, declared) = options
          /\ ~Student!OverridesRefused(list, declared) => ~Student!OverridesRefused(options, declared)
      <3> DEFINE t == Student!NonDefault(list, declared)
      <3>1. t = Student!NonDefault(list, declared)
        OBVIOUS
      <3> HIDE DEF t
      <3>2. /\ IsList(t) /\ Student!NonDefault(t, declared) = t
            /\ ~Student!OverridesRefused(list, declared) => ~Student!OverridesRefused(t, declared)
        BY <2>1, <3>1, NonDefaultStable
      <3> QED BY <2>1, <3>1, <3>2
    <2> QED BY <2>2 DEF list, declared
  <1> HIDE DEF options
  <1>4. r = [component |-> s.component, model |-> s.model, options |-> options]
    BY <1>1, <1>2
  <1>5. r.component = s.component /\ r.model = s.model /\ r.options = options
    BY <1>4
  <1>6. Student!IsSlot(r)
    BY <1>3, <1>4, <1>5 DEF Student!IsSlot, IsList
  <1>7. Student!ReadSlot(r) = r
    <2>1. Student!ReadSlot(r) = [r EXCEPT !.options = Student!NonDefault(r.options, Designs[r.model].options)]
      BY DEF Student!ReadSlot
    <2>2. Student!NonDefault(r.options, Designs[r.model].options) = r.options
      BY <1>3, <1>5
    <2> QED BY <1>4, <1>5, <2>1, <2>2
  <1>8. Student!SlotNoop(r) <=> Student!SlotNoop(s)
    <2>1. Student!ReadSlot(s).options = r.options /\ Student!ReadSlot(r).options = r.options
      BY <1>7
    <2> QED BY <1>5, <2>1 DEF Student!SlotNoop
  <1>9. ~Student!SlotRefused(s) => ~Student!SlotRefused(r)
    BY <1>3, <1>5 DEF Student!SlotRefused
  <1> QED BY <1>4, <1>5, <1>6, <1>7, <1>8, <1>9 DEF options

\* What the slot edits keep: they are read, and those without effect dropped.
KeptSlots(sub) == {Student!ReadSlot(s) : s \in {x \in Student!Values(sub.slots) : ~Student!SlotNoop(x)}}

LEMMA SlotsAre ==
  ASSUME NEW sub, IsOverlay(sub), NEW t, t = Student!Slots(sub)
  PROVE /\ ListOf(t, KeptSlots(sub)) /\ IsList(t) /\ t = Student!SetToSeq(KeptSlots(sub))
        /\ \A s \in KeptSlots(sub) : Student!IsSlot(s) /\ ~Student!SlotNoop(s) /\ Student!ReadSlot(s) = s
  <1> DEFINE S == {x \in Student!Values(sub.slots) : ~Student!SlotNoop(x)}
             kept == Student!SetToSeq(S)
  <1>1. IsList(sub.slots) /\ \A s \in Student!Values(sub.slots) : Student!IsSlot(s)
    <2>1. "slots" \in Student!Lists
      BY DEF Student!Lists
    <2> QED BY <2>1 DEF IsOverlay
  <1>2. S \subseteq Student!Values(sub.slots) /\ IsFiniteSet(Student!Values(sub.slots))
    BY <1>1, ListsAre
  <1>3. t = Student!SetToSeq({Student!ReadSlot(s) : s \in Student!Values(kept)})
    BY DEF Student!Slots, Student!Keep
  <1>4. \A s \in S : Student!IsSlot(s) /\ ~Student!SlotNoop(s)
    BY <1>1
  <1> HIDE DEF S
  <1>5. Student!Values(kept) = S /\ IsFiniteSet(S)
    BY <1>2, KeptIs DEF ListOf
  <1> HIDE DEF kept
  <1>6. KeptSlots(sub) = {Student!ReadSlot(s) : s \in S}
    BY DEF KeptSlots, S
  <1>7. t = Student!SetToSeq(KeptSlots(sub))
    BY <1>3, <1>5, <1>6
  <1>8. IsFiniteSet(KeptSlots(sub))
    <2> DEFINE f == [s \in S |-> Student!ReadSlot(s)]
    <2>1. {f[s] : s \in S} = {Student!ReadSlot(s) : s \in S} /\ DOMAIN f = S
      OBVIOUS
    <2> HIDE DEF f
    <2> QED BY <1>5, <1>6, <2>1, ImageIs
  <1>9. ListOf(t, KeptSlots(sub)) /\ IsList(t)
    BY <1>7, <1>8, KeptIs
  <1>10. \A s \in S : /\ Student!IsSlot(Student!ReadSlot(s)) /\ ~Student!SlotNoop(Student!ReadSlot(s))
                      /\ Student!ReadSlot(Student!ReadSlot(s)) = Student!ReadSlot(s)
    BY <1>4, ReadSlotIs
  <1> QED BY <1>6, <1>7, <1>9, <1>10

LEMMA SlotsStable ==
  ASSUME NEW sub, IsOverlay(sub), NEW n, n.slots = Student!Slots(sub)
  PROVE Student!Slots(n) = Student!Slots(sub)
  <1> DEFINE R == KeptSlots(sub)
  <1>1. /\ Student!Values(n.slots) = R /\ Student!Slots(sub) = Student!SetToSeq(R)
        /\ \A s \in R : ~Student!SlotNoop(s) /\ Student!ReadSlot(s) = s
    BY SlotsAre DEF ListOf
  <1>2. IsFiniteSet(R)
    BY SlotsAre, ListsAre, <1>1
  <1> HIDE DEF R
  <1>3. {x \in Student!Values(n.slots) : ~Student!SlotNoop(x)} = R
    BY <1>1
  <1>4. Student!Values(Student!SetToSeq(R)) = R
    BY <1>2, ListIs DEF ListOf
  <1>5. {Student!ReadSlot(s) : s \in R} = R
    BY <1>1
  <1>6. Student!Slots(n) = Student!SetToSeq({Student!ReadSlot(s) : s \in Student!Values(Student!SetToSeq({x \in Student!Values(n.slots) : ~Student!SlotNoop(x)}))})
    BY DEF Student!Slots, Student!Keep
  <1> QED BY <1>1, <1>3, <1>4, <1>5, <1>6

\* The other parts of the normal form.
LEMMA NormalIs ==
  ASSUME NEW sub, IsOverlay(sub), NEW n, n = Student!Normal(sub)
  PROVE /\ n.slots = Student!Slots(sub)
        /\ n.bindings = Student!SetToSeq({b \in Student!Values(sub.bindings) : ~Student!BindingNoop(b, Student!Slots(sub))})
        /\ n.resources = Student!SetToSeq({r \in Student!Values(sub.resources) : ~Student!ResourceNoop(r)})
        /\ n.subscriptions = Student!SetToSeq({s \in Student!Values(sub.subscriptions) : ~Student!SubscriptionNoop(s)})
        /\ n.parameters = Student!NonDefault(sub.parameters, Allowance.parameters)
        /\ n.scheduledFaults = sub.scheduledFaults
        /\ n.faults = [i \in DOMAIN sub.faults |-> Student!WithDefaults(sub.faults[i])]
        /\ n = [faults |-> n.faults, scheduledFaults |-> n.scheduledFaults, parameters |-> n.parameters,
                slots |-> n.slots, bindings |-> n.bindings, resources |-> n.resources, subscriptions |-> n.subscriptions]
  <1> DEFINE edits == Student!NormalEdits(sub)
             faults == [i \in DOMAIN sub.faults |-> Student!WithDefaults(sub.faults[i])]
             parameters == Student!NonDefault(sub.parameters, Allowance.parameters)
  <1>1. /\ edits.slots = Student!Slots(sub)
        /\ edits.bindings = Student!SetToSeq({b \in Student!Values(sub.bindings) : ~Student!BindingNoop(b, Student!Slots(sub))})
        /\ edits.resources = Student!SetToSeq({r \in Student!Values(sub.resources) : ~Student!ResourceNoop(r)})
        /\ edits.subscriptions = Student!SetToSeq({s \in Student!Values(sub.subscriptions) : ~Student!SubscriptionNoop(s)})
    BY DEF Student!NormalEdits, Student!Keep
  <1>2. n = [faults |-> faults, scheduledFaults |-> sub.scheduledFaults, parameters |-> parameters,
             slots |-> edits.slots, bindings |-> edits.bindings, resources |-> edits.resources, subscriptions |-> edits.subscriptions]
    BY DEF Student!Normal
  <1> HIDE DEF edits, faults, parameters
  <1>3. /\ n.faults = faults /\ n.scheduledFaults = sub.scheduledFaults /\ n.parameters = parameters
        /\ n.slots = edits.slots /\ n.bindings = edits.bindings /\ n.resources = edits.resources /\ n.subscriptions = edits.subscriptions
    BY <1>2
  <1> QED BY <1>1, <1>2, <1>3 DEF faults, parameters

\* A filtered set of a list, and filtered again.
LEMMA KeptAgain ==
  ASSUME NEW s, IsList(s), NEW S, S \subseteq Student!Values(s), NEW t, t = Student!SetToSeq(S)
  PROVE ListOf(t, S) /\ IsList(t) /\ Student!Values(t) = S
  <1>1. IsFiniteSet(Student!Values(s))
    BY ListsAre
  <1>2. ListOf(t, S) /\ IsList(t)
    BY <1>1, KeptIs
  <1> QED BY <1>2 DEF ListOf

LEMMA OverlayLists ==
  ASSUME NEW sub, IsOverlay(sub)
  PROVE /\ IsList(sub.slots) /\ IsList(sub.bindings) /\ IsList(sub.resources) /\ IsList(sub.subscriptions)
        /\ IsList(sub.parameters) /\ IsList(sub.faults) /\ IsList(sub.scheduledFaults)
  BY DEF IsOverlay, Student!Lists

LEMMA RulesStable ==
  ASSUME NEW sub, IsOverlay(sub), NEW n, n = Student!Normal(sub)
  PROVE /\ IsList(n.faults) /\ Len(n.faults) = Len(sub.faults) /\ DOMAIN n.faults = DOMAIN sub.faults
        /\ \A i \in DOMAIN n.faults : /\ n.faults[i] = Student!WithDefaults(sub.faults[i])
                                      /\ Student!IsRule(n.faults[i]) /\ Student!WithDefaults(n.faults[i]) = n.faults[i]
                                      /\ n.faults[i].student = sub.faults[i].student /\ n.faults[i].point = sub.faults[i].point
                                      /\ n.faults[i].effect = sub.faults[i].effect
  <1> DEFINE m == Len(sub.faults)
             f == n.faults
  <1>1. m \in Nat /\ DOMAIN sub.faults = 1..m
    BY OverlayLists, ListsAre
  <1>2. f = [i \in 1..m |-> Student!WithDefaults(sub.faults[i])]
    <2>1. n.faults = [i \in DOMAIN sub.faults |-> Student!WithDefaults(sub.faults[i])]
      BY NormalIs
    <2> QED BY <1>1, <2>1
  <1> HIDE DEF f
  <1>3. DOMAIN f = 1..m /\ Len(f) = m /\ f \in Seq({f[i] : i \in 1..m})
    BY <1>1, <1>2
  <1>4. IsList(f)
    BY <1>3 DEF IsList, Student!Values
  <1>5. ASSUME NEW r, Student!IsRule(r), NEW w, w = Student!WithDefaults(r)
        PROVE Student!IsRule(w) /\ Student!WithDefaults(w) = w /\ w.student = r.student /\ w.point = r.point /\ w.effect = r.effect
    <2>1. r = [id |-> r.id, student |-> r.student, point |-> r.point, effect |-> r.effect, maxApplications |-> r.maxApplications]
      BY <1>5 DEF Student!IsRule
    <2>2. CASE r.maxApplications = <<>>
      <3>1. w = [r EXCEPT !.maxApplications = <<1>>]
        BY <1>5, <2>2 DEF Student!WithDefaults
      <3>2. w = [id |-> r.id, student |-> r.student, point |-> r.point, effect |-> r.effect, maxApplications |-> <<1>>]
        BY <2>1, <3>1
      <3>3. w.maxApplications # <<>> /\ w.student = r.student /\ w.point = r.point /\ w.effect = r.effect /\ w.id = r.id
        BY <3>2
      <3>4. Student!IsRule(w)
        BY <3>2 DEF Student!IsRule
      <3> QED BY <3>3, <3>4 DEF Student!WithDefaults
    <2>3. CASE r.maxApplications # <<>>
      BY <1>5, <2>3 DEF Student!WithDefaults
    <2> QED BY <2>2, <2>3
  <1>6. \A i \in 1..m : Student!IsRule(sub.faults[i])
    BY <1>1 DEF IsOverlay, Student!Values
  <1>7. \A i \in 1..m : f[i] = Student!WithDefaults(sub.faults[i])
    BY <1>2
  <1>8. \A i \in 1..m : /\ Student!IsRule(f[i]) /\ Student!WithDefaults(f[i]) = f[i] /\ f[i].student = sub.faults[i].student
                        /\ f[i].point = sub.faults[i].point /\ f[i].effect = sub.faults[i].effect
    BY <1>5, <1>6, <1>7
  <1> QED BY <1>1, <1>3, <1>4, <1>7, <1>8 DEF f

LEMMA NormalIsOverlay == ASSUME NEW sub, IsOverlay(sub), NEW n, n = Student!Normal(sub) PROVE IsOverlay(n)
  <1>1. IsList(n.slots) /\ \A s \in Student!Values(n.slots) : Student!IsSlot(s)
    <2>1. Student!Values(n.slots) = KeptSlots(sub) /\ IsList(n.slots)
      BY NormalIs, SlotsAre DEF ListOf
    <2> QED BY <2>1, SlotsAre
  <1>2. IsList(n.bindings) /\ IsList(n.resources) /\ IsList(n.subscriptions)
    <2> DEFINE B == {b \in Student!Values(sub.bindings) : ~Student!BindingNoop(b, Student!Slots(sub))}
               R == {r \in Student!Values(sub.resources) : ~Student!ResourceNoop(r)}
               S == {s \in Student!Values(sub.subscriptions) : ~Student!SubscriptionNoop(s)}
    <2>1. n.bindings = Student!SetToSeq(B) /\ n.resources = Student!SetToSeq(R) /\ n.subscriptions = Student!SetToSeq(S)
      BY NormalIs
    <2>2. B \subseteq Student!Values(sub.bindings) /\ R \subseteq Student!Values(sub.resources) /\ S \subseteq Student!Values(sub.subscriptions)
      OBVIOUS
    <2> HIDE DEF B, R, S
    <2> QED BY <2>1, <2>2, OverlayLists, KeptAgain
  <1>3. IsList(n.parameters)
    <2>1. n.parameters = Student!NonDefault(sub.parameters, Allowance.parameters)
      BY NormalIs
    <2> QED BY <2>1, OverlayLists, NonDefaultStable
  <1>4. IsList(n.scheduledFaults)
    BY NormalIs, OverlayLists
  <1>5. IsList(n.faults) /\ \A r \in Student!Values(n.faults) : Student!IsRule(r)
    BY RulesStable DEF Student!Values
  <1> QED BY <1>1, <1>2, <1>3, <1>4, <1>5 DEF IsOverlay, Student!Lists

LEMMA NormalStable ==
  ASSUME NEW sub, IsOverlay(sub), NEW n, n = Student!Normal(sub)
  PROVE Student!Normal(n) = n /\ Student!NormalEdits(n) = Student!NormalEdits(sub)
  <1> DEFINE m == Student!Normal(n)
             B == {b \in Student!Values(sub.bindings) : ~Student!BindingNoop(b, Student!Slots(sub))}
             R == {r \in Student!Values(sub.resources) : ~Student!ResourceNoop(r)}
             S == {s \in Student!Values(sub.subscriptions) : ~Student!SubscriptionNoop(s)}
  <1>1. IsOverlay(n)
    BY NormalIsOverlay
  <1>2. n.slots = Student!Slots(sub) /\ Student!Slots(n) = n.slots
    <2>1. n.slots = Student!Slots(sub)
      BY NormalIs
    <2> QED BY <2>1, SlotsStable
  <1>3. n.bindings = Student!SetToSeq(B) /\ n.resources = Student!SetToSeq(R) /\ n.subscriptions = Student!SetToSeq(S)
    BY NormalIs
  <1>4. B \subseteq Student!Values(sub.bindings) /\ R \subseteq Student!Values(sub.resources) /\ S \subseteq Student!Values(sub.subscriptions)
    OBVIOUS
  <1>5. /\ \A b \in B : ~Student!BindingNoop(b, Student!Slots(n))
        /\ \A r \in R : ~Student!ResourceNoop(r)
        /\ \A s \in S : ~Student!SubscriptionNoop(s)
    BY <1>2
  <1> HIDE DEF B, R, S
  <1>6. Student!Values(n.bindings) = B /\ Student!Values(n.resources) = R /\ Student!Values(n.subscriptions) = S
    BY <1>3, <1>4, OverlayLists, KeptAgain
  <1>7. /\ {b \in Student!Values(n.bindings) : ~Student!BindingNoop(b, Student!Slots(n))} = B
        /\ {r \in Student!Values(n.resources) : ~Student!ResourceNoop(r)} = R
        /\ {s \in Student!Values(n.subscriptions) : ~Student!SubscriptionNoop(s)} = S
    BY <1>5, <1>6
  <1> DEFINE BB == {b \in Student!Values(n.bindings) : ~Student!BindingNoop(b, Student!Slots(n))}
             RR == {r \in Student!Values(n.resources) : ~Student!ResourceNoop(r)}
             SS == {s \in Student!Values(n.subscriptions) : ~Student!SubscriptionNoop(s)}
             FF == [i \in DOMAIN n.faults |-> Student!WithDefaults(n.faults[i])]
  <1>m. m = Student!Normal(n)
    OBVIOUS
  <1> HIDE DEF m
  <1>p. /\ m.slots = Student!Slots(n) /\ m.bindings = Student!SetToSeq(BB) /\ m.resources = Student!SetToSeq(RR)
        /\ m.subscriptions = Student!SetToSeq(SS) /\ m.parameters = Student!NonDefault(n.parameters, Allowance.parameters)
        /\ m.scheduledFaults = n.scheduledFaults /\ m.faults = FF
    BY <1>1, <1>m, NormalIs
  <1>q. BB = B /\ RR = R /\ SS = S
    BY <1>7
  <1> HIDE DEF BB, RR, SS, FF
  <1>8. m.slots = n.slots /\ m.bindings = n.bindings /\ m.resources = n.resources /\ m.subscriptions = n.subscriptions
    BY <1>2, <1>3, <1>p, <1>q
  <1>9. m.parameters = n.parameters
    <2>1. n.parameters = Student!NonDefault(sub.parameters, Allowance.parameters) /\ IsList(sub.parameters)
      BY NormalIs, OverlayLists
    <2>2. Student!NonDefault(n.parameters, Allowance.parameters) = n.parameters
      BY <2>1, NonDefaultStable
    <2> QED BY <1>p, <2>2
  <1>10. m.scheduledFaults = n.scheduledFaults
    BY <1>p
  <1>11. m.faults = n.faults
    <2> DEFINE f == n.faults
    <2>1. \A i \in DOMAIN f : Student!WithDefaults(f[i]) = f[i]
      BY RulesStable
    <2>2. f = [i \in DOMAIN f |-> f[i]]
      BY RulesStable DEF IsList
    <2>3. m.faults = [i \in DOMAIN f |-> Student!WithDefaults(f[i])]
      BY <1>p DEF FF
    <2> HIDE DEF f
    <2>4. [i \in DOMAIN f |-> Student!WithDefaults(f[i])] = [i \in DOMAIN f |-> f[i]]
      BY <2>1
    <2>5. m.faults = f
      BY <2>2, <2>3, <2>4
    <2> QED BY <2>5 DEF f
  <1>12. m = n
    <2> DEFINE with(x) == [faults |-> x.faults, scheduledFaults |-> x.scheduledFaults, parameters |-> x.parameters,
                           slots |-> x.slots, bindings |-> x.bindings, resources |-> x.resources, subscriptions |-> x.subscriptions]
    <2>1. m = with(m) /\ n = with(n)
      BY <1>1, <1>m, NormalIs
    <2>2. with(m) = with(n)
      BY <1>8, <1>9, <1>10, <1>11
    <2> HIDE DEF with
    <2> QED BY <2>1, <2>2
  <1>13. Student!NormalEdits(n) = Student!NormalEdits(sub)
    BY <1>2, <1>7 DEF Student!NormalEdits, Student!Keep, B, R, S
  <1> QED BY <1>m, <1>12, <1>13

-----------------------------------------------------------------------------
(* The normal form is accepted                                              *)

\* What an accepted overlay has.
LEMMA AcceptedHas ==
  ASSUME NEW sub, Student!Accepted(sub)
  PROVE /\ ~Student!FaultsRefused(sub) /\ ~Student!OverridesRefused(sub.parameters, Allowance.parameters) /\ ~Student!EditsRefused(sub)
        /\ Student!Validates(Student!ApplyOverlay(Student!Normal(sub)))
  BY DEF Student!Accepted, Student!Refused

Once(sub) ==
    /\ \A x, y \in Student!Values(sub.slots) : x.component = y.component => x = y
    /\ \A x, y \in Student!Values(sub.bindings) : <<x.component, x.peer>> = <<y.component, y.peer>> => x = y
    /\ \A x, y \in Student!Values(sub.resources) : <<x.owner, x.resource>> = <<y.owner, y.resource>> => x = y
    /\ \A x, y \in Student!Values(sub.subscriptions) : <<x.consumer, x.destination>> = <<y.consumer, y.destination>> => x = y

LEMMA AcceptedOnce == ASSUME NEW sub, ~Student!EditsRefused(sub) PROVE Once(sub)
  BY OnceIs DEF Student!EditsRefused, Once

LEMMA NormalFaults ==
  ASSUME NEW sub, IsOverlay(sub), NEW n, n = Student!Normal(sub), ~Student!FaultsRefused(sub)
  PROVE ~Student!FaultsRefused(n)
  <1>1. n.scheduledFaults = sub.scheduledFaults
    BY NormalIs
  <1>2. \A r \in Student!Values(n.faults) : r.student /\ <<r.point, r.effect>> \in Allowance.rules
    <2> SUFFICES ASSUME NEW i \in DOMAIN n.faults PROVE n.faults[i].student /\ <<n.faults[i].point, n.faults[i].effect>> \in Allowance.rules
      BY DEF Student!Values
    <2>1. i \in DOMAIN sub.faults /\ n.faults[i].student = sub.faults[i].student /\ n.faults[i].point = sub.faults[i].point
          /\ n.faults[i].effect = sub.faults[i].effect
      BY RulesStable
    <2>2. sub.faults[i] \in Student!Values(sub.faults)
      BY <2>1 DEF Student!Values
    <2>3. sub.faults[i].student /\ <<sub.faults[i].point, sub.faults[i].effect>> \in Allowance.rules
      BY <2>2 DEF Student!FaultsRefused
    <2> QED BY <2>1, <2>3
  <1>3. Len(n.faults) = Len(sub.faults)
    BY RulesStable
  <1> QED BY <1>1, <1>2, <1>3 DEF Student!FaultsRefused

LEMMA NormalEditsAccepted ==
  ASSUME NEW sub, IsOverlay(sub), NEW n, n = Student!Normal(sub), ~Student!EditsRefused(sub)
  PROVE ~Student!EditsRefused(n)
  <1> DEFINE B == {b \in Student!Values(sub.bindings) : ~Student!BindingNoop(b, Student!Slots(sub))}
             R == {r \in Student!Values(sub.resources) : ~Student!ResourceNoop(r)}
             S == {s \in Student!Values(sub.subscriptions) : ~Student!SubscriptionNoop(s)}
  <1>1. Once(sub)
    BY AcceptedOnce
  <1>2. n.bindings = Student!SetToSeq(B) /\ n.resources = Student!SetToSeq(R) /\ n.subscriptions = Student!SetToSeq(S)
    BY NormalIs
  <1>3. B \subseteq Student!Values(sub.bindings) /\ R \subseteq Student!Values(sub.resources) /\ S \subseteq Student!Values(sub.subscriptions)
    OBVIOUS
  <1>4. n.slots = Student!Slots(sub)
    BY NormalIs
  <1> HIDE DEF B, R, S
  <1>5. ListOf(n.bindings, B) /\ ListOf(n.resources, R) /\ ListOf(n.subscriptions, S)
    BY <1>2, <1>3, OverlayLists, KeptAgain
  <1>6. ListOf(n.slots, KeptSlots(sub))
    BY <1>4, SlotsAre
  <1>7. Student!Values(n.bindings) = B /\ Student!Values(n.resources) = R /\ Student!Values(n.subscriptions) = S
        /\ Student!Values(n.slots) = KeptSlots(sub)
    BY <1>5, <1>6 DEF ListOf
  <1>8. \A s \in KeptSlots(sub) : \E x \in Student!Values(sub.slots) :
           s = Student!ReadSlot(x) /\ s.component = x.component /\ Student!IsSlot(x)
    <2>1. \A x \in Student!Values(sub.slots) : Student!IsSlot(x)
      BY DEF IsOverlay
    <2> QED BY <2>1, ReadSlotIs DEF KeptSlots
  <1>9. \A s \in Student!Values(n.slots) : ~Student!SlotRefused(s)
    <2> SUFFICES ASSUME NEW s \in KeptSlots(sub) PROVE ~Student!SlotRefused(s)
      BY <1>7
    <2>1. PICK x \in Student!Values(sub.slots) : s = Student!ReadSlot(x) /\ Student!IsSlot(x)
      BY <1>8
    <2>2. ~Student!SlotRefused(x)
      BY DEF Student!EditsRefused
    <2> QED BY <2>1, <2>2, ReadSlotIs
  <1>10. \A r \in Student!Values(n.resources) : ~Student!ResourceRefused(r)
    BY <1>3, <1>7 DEF Student!EditsRefused
  <1>11. \A s \in Student!Values(n.subscriptions) : ~Student!SubscriptionRefused(s)
    BY <1>3, <1>7 DEF Student!EditsRefused
  <1>12. \A x, y \in KeptSlots(sub) : x.component = y.component => x = y
    BY <1>1, <1>8 DEF Once
  <1>13. ~Student!Repeats(n.slots, LAMBDA s : s.component)
    BY <1>6, <1>12, ListOnce
  <1>14. ~Student!Repeats(n.bindings, LAMBDA b : <<b.component, b.peer>>)
    <2>1. \A x, y \in B : <<x.component, x.peer>> = <<y.component, y.peer>> => x = y
      BY <1>1, <1>3 DEF Once
    <2> QED BY <1>5, <2>1, ListOnce
  <1>15. ~Student!Repeats(n.resources, LAMBDA r : <<r.owner, r.resource>>)
    <2>1. \A x, y \in R : <<x.owner, x.resource>> = <<y.owner, y.resource>> => x = y
      BY <1>1, <1>3 DEF Once
    <2> QED BY <1>5, <2>1, ListOnce
  <1>16. ~Student!Repeats(n.subscriptions, LAMBDA s : <<s.consumer, s.destination>>)
    <2>1. \A x, y \in S : <<x.consumer, x.destination>> = <<y.consumer, y.destination>> => x = y
      BY <1>1, <1>3 DEF Once
    <2> QED BY <1>5, <2>1, ListOnce
  <1>17. Student!Slots(n) = Student!Slots(sub)
    BY <1>4, SlotsStable
  <1>18. \A b \in Student!Values(n.bindings) : ~Student!BindingRefused(b, Student!Slots(n))
    <2>1. \A b \in Student!Values(sub.bindings) : ~Student!BindingRefused(b, Student!Slots(sub))
      BY DEF Student!EditsRefused
    <2> QED BY <1>3, <1>7, <1>17, <2>1
  <1>19. ~(Student!Count(Student!NormalEdits(n)) > Allowance.maxEdits)
    <2>1. Student!NormalEdits(n) = Student!NormalEdits(sub)
      BY NormalStable
    <2>2. ~(Student!Count(Student!NormalEdits(sub)) > Allowance.maxEdits)
      BY DEF Student!EditsRefused
    <2> QED BY <2>1, <2>2
  <1> QED BY <1>9, <1>10, <1>11, <1>13, <1>14, <1>15, <1>16, <1>18, <1>19 DEF Student!EditsRefused

LEMMA NormalAccepted ==
  ASSUME NEW sub, IsOverlay(sub), NEW n, n = Student!Normal(sub), Student!Accepted(sub)
  PROVE Student!Accepted(n) /\ Student!Normal(n) = n
  <1>1. Student!Normal(n) = n
    BY NormalStable
  <1>2. ~Student!FaultsRefused(n)
    BY AcceptedHas, NormalFaults
  <1>3. ~Student!EditsRefused(n)
    BY AcceptedHas, NormalEditsAccepted
  <1>4. ~Student!OverridesRefused(n.parameters, Allowance.parameters)
    <2>1. n.parameters = Student!NonDefault(sub.parameters, Allowance.parameters) /\ IsList(sub.parameters)
      BY NormalIs, OverlayLists
    <2>2. ~Student!OverridesRefused(sub.parameters, Allowance.parameters)
      BY AcceptedHas
    <2> QED BY <2>1, <2>2, NonDefaultStable
  <1>5. Student!Validates(Student!ApplyOverlay(Student!Normal(n)))
    <2>1. Student!Validates(Student!ApplyOverlay(n))
      BY AcceptedHas
    <2> QED BY <1>1, <2>1
  <1> QED BY <1>1, <1>2, <1>3, <1>4, <1>5 DEF Student!Accepted, Student!Refused

-----------------------------------------------------------------------------
(* The applied document is the design that was asked for                    *)

LEMMA SlottedKept ==
  ASSUME NEW slots, NEW c, NEW e, \A x : x \in Student!Values(slots) /\ x.component = c <=> x = e
  PROVE Student!Slotted(slots, c).model = e.model /\ Student!Slotted(slots, c).configuration = Student!OptionConfiguration(e.options)
  <1> DEFINE S == {x \in Student!Values(slots) : x.component = c}
  <1>1. S = {e} /\ (CHOOSE x \in S : TRUE) = e
    OBVIOUS
  <1>2. Student!Slotted(slots, c) = [model |-> (CHOOSE x \in S : TRUE).model, configuration |-> Student!OptionConfiguration((CHOOSE x \in S : TRUE).options)]
    BY <1>1 DEF Student!Slotted
  <1> HIDE DEF S
  <1> QED BY <1>1, <1>2

LEMMA SlottedNone ==
  ASSUME NEW slots, NEW c, \A x \in Student!Values(slots) : x.component # c
  PROVE Student!Slotted(slots, c).model = Packed.model[c] /\ Student!Slotted(slots, c).configuration = Packed.configuration[c]
  <1>1. {x \in Student!Values(slots) : x.component = c} = {}
    OBVIOUS
  <1> QED BY <1>1 DEF Student!Slotted

LEMMA AsksOne ==
  ASSUME NEW sub, Once(sub), NEW s \in Student!Values(sub.slots)
  PROVE Student!Asks(sub, s.component) = {s} /\ Student!AskedModel(sub, s.component) = s.model
  <1>1. Student!Asks(sub, s.component) = {s}
    BY DEF Once, Student!Asks
  <1>2. (CHOOSE x \in {s} : TRUE) = s
    OBVIOUS
  <1> QED BY <1>1, <1>2 DEF Student!AskedModel

LEMMA SlottedIs ==
  ASSUME NEW sub, IsOverlay(sub), Once(sub), NEW c, NEW t, t = Student!Slotted(Student!Slots(sub), c)
  PROVE /\ t.model = Student!AskedModel(sub, c)
        /\ Student!Asks(sub, c) = {} => t.configuration = Packed.configuration[c]
        /\ \A s \in Student!Asks(sub, c) : t.configuration = Student!OptionConfiguration(Student!ReadSlot(s).options)
  <1>1. Student!Values(Student!Slots(sub)) = KeptSlots(sub)
    BY SlotsAre DEF ListOf
  <1>2. \A x \in Student!Values(sub.slots) : Student!IsSlot(x)
    BY DEF IsOverlay
  <1>3. \A e \in KeptSlots(sub) : \E x \in Student!Values(sub.slots) :
           e = Student!ReadSlot(x) /\ e.component = x.component /\ e.model = x.model /\ ~Student!SlotNoop(x)
    BY <1>2, ReadSlotIs DEF KeptSlots
  <1>4. CASE Student!Asks(sub, c) = {}
    <2>1. \A e \in KeptSlots(sub) : e.component # c
      BY <1>3, <1>4 DEF Student!Asks
    <2>2. t.model = Packed.model[c] /\ t.configuration = Packed.configuration[c]
      BY <1>1, <2>1, SlottedNone
    <2> QED BY <1>4, <2>2 DEF Student!AskedModel
  <1>5. ASSUME NEW s \in Student!Asks(sub, c)
        PROVE t.model = Student!AskedModel(sub, c) /\ t.configuration = Student!OptionConfiguration(Student!ReadSlot(s).options)
    <2>1. s \in Student!Values(sub.slots) /\ s.component = c
      BY DEF Student!Asks
    <2>2. Student!AskedModel(sub, c) = s.model
      BY <2>1, AsksOne
    <2>3. \A e \in KeptSlots(sub) : e.component = c => e = Student!ReadSlot(s) /\ ~Student!SlotNoop(s)
      BY <1>3, <2>1 DEF Once
    <2>4. CASE Student!SlotNoop(s)
      <3>1. \A e \in KeptSlots(sub) : e.component # c
        BY <2>3, <2>4
      <3>2. t.model = Packed.model[c] /\ t.configuration = Packed.configuration[c]
        BY <1>1, <3>1, SlottedNone
      <3> QED BY <2>1, <2>2, <2>4, <3>2 DEF Student!SlotNoop
    <2>5. CASE ~Student!SlotNoop(s)
      <3> DEFINE e == Student!ReadSlot(s)
      <3>1. e \in KeptSlots(sub)
        BY <2>1, <2>5 DEF KeptSlots
      <3>2. e.component = c /\ e.model = s.model
        BY <1>2, <2>1, ReadSlotIs
      <3> HIDE DEF e
      <3>3. \A x : x \in Student!Values(Student!Slots(sub)) /\ x.component = c <=> x = e
        BY <1>1, <2>3, <3>1, <3>2 DEF e
      <3>4. t.model = e.model /\ t.configuration = Student!OptionConfiguration(e.options)
        BY <3>3, SlottedKept
      <3> QED BY <2>2, <3>2, <3>4 DEF e
    <2> QED BY <2>4, <2>5
  <1> QED BY <1>4, <1>5

\* The options of a slot, read: those without effect are gone.
LEMMA OptionsRead ==
  ASSUME NEW s, Student!IsSlot(s), ~Student!SlotRefused(s), NEW f, f = Student!OptionConfiguration(Student!ReadSlot(s).options)
  PROVE /\ \A k : k \in DOMAIN f <=> \E o \in Student!Values(s.options) : o.key = k /\ o.value # Designs[s.model].options[k].default
        /\ \A o \in Student!Values(s.options) : o.value # Designs[s.model].options[o.key].default => f[o.key] = o.value
        /\ DOMAIN f \subseteq DOMAIN Designs[s.model].options
        /\ \A x, y \in Student!Values(s.options) : x.key = y.key => x = y
  <1> DEFINE declared == Designs[s.model].options
             list == s.options
             options == Student!NonDefault(list, declared)
             S == {o \in Student!Values(list) : o.value # declared[o.key].default}
  <1>1. Student!ReadSlot(s).options = options
    BY ReadSlotIs
  <1>2. IsList(list)
    BY DEF Student!IsSlot, IsList
  <1>3. ~Student!OverridesRefused(list, declared)
    BY DEF Student!SlotRefused
  <1>4. \A x, y \in Student!Values(list) : x.key = y.key => x = y
    BY <1>3, OnceIs DEF Student!OverridesRefused
  <1>5. \A o \in Student!Values(list) : o.key \in DOMAIN declared
    BY <1>3 DEF Student!OverridesRefused
  <1>6. Student!Values(options) = S
    <2>0. list = list /\ declared = declared /\ options = Student!NonDefault(list, declared)
      OBVIOUS
    <2> HIDE DEF list, declared, options, S
    <2>1. ListOf(options, {o \in Student!Values(list) : o.value # declared[o.key].default})
      BY <1>2, <2>0, NonDefaultIs
    <2> QED BY <2>1 DEF ListOf, S
  <1>7. f = [k \in {o.key : o \in S} |-> (CHOOSE o \in S : o.key = k).value]
    BY <1>1, <1>6 DEF Student!OptionConfiguration
  <1>8. \A o \in S : (CHOOSE x \in S : x.key = o.key) = o
    BY <1>4
  <1>9. S \subseteq Student!Values(list) /\ \A o \in Student!Values(list) : o \in S <=> o.value # declared[o.key].default
    OBVIOUS
  <1> HIDE DEF S, declared, list
  <1>10. \A k : k \in DOMAIN f <=> \E o \in S : o.key = k
    BY <1>7
  <1>11. \A o \in S : f[o.key] = o.value
    BY <1>7, <1>8
  <1>12. DOMAIN f \subseteq DOMAIN declared
    BY <1>5, <1>9, <1>10
  <1>13. \A k : k \in DOMAIN f <=> \E o \in Student!Values(list) : o.key = k /\ o.value # declared[k].default
    BY <1>9, <1>10
  <1>14. \A o \in Student!Values(list) : o.value # declared[o.key].default => f[o.key] = o.value
    BY <1>9, <1>11
  <1> QED BY <1>4, <1>12, <1>13, <1>14 DEF declared, list

LEMMA BindingsWritten ==
  ASSUME NEW configuration, NEW bindings, NEW c, NEW f, f = Student!ApplyBindings(configuration, bindings, c),
         \A x, y \in Student!Values(bindings) : <<x.component, x.peer>> = <<y.component, y.peer>> => x = y
  PROVE /\ \A b \in Student!Values(bindings) : b.component = c => b.peer \in DOMAIN f /\ f[b.peer] = b.target
        /\ \A p, default : (\A b \in Student!Values(bindings) : b.component = c => b.peer # p)
                              => Student!Get(f, p, default) = Student!Get(configuration, p, default)
  <1> DEFINE bound == {b \in Student!Values(bindings) : b.component = c}
             peers == {b.peer : b \in bound}
  <1>1. f = [p \in peers \cup DOMAIN configuration |-> IF p \in peers THEN (CHOOSE b \in bound : b.peer = p).target ELSE configuration[p]]
    BY DEF Student!ApplyBindings
  <1>2. \A b \in bound : (CHOOSE x \in bound : x.peer = b.peer) = b
    OBVIOUS
  <1>3. \A b \in bound : b.peer \in peers
    OBVIOUS
  <1>4. \A p : p \in peers => \E b \in bound : b.peer = p
    OBVIOUS
  <1>5. \A b : b \in bound <=> b \in Student!Values(bindings) /\ b.component = c
    OBVIOUS
  <1> HIDE DEF bound, peers
  <1>6. \A b \in bound : b.peer \in DOMAIN f /\ f[b.peer] = b.target
    BY <1>1, <1>2, <1>3
  <1>7. \A p : p \notin peers => (p \in DOMAIN f <=> p \in DOMAIN configuration) /\ (p \in DOMAIN f => f[p] = configuration[p])
    BY <1>1
  <1>8. ASSUME NEW p, NEW default, \A b \in Student!Values(bindings) : b.component = c => b.peer # p
        PROVE Student!Get(f, p, default) = Student!Get(configuration, p, default)
    <2>1. p \notin peers
      BY <1>4, <1>5, <1>8
    <2> QED BY <1>7, <2>1 DEF Student!Get
  <1> QED BY <1>5, <1>6, <1>8

LEMMA AskedIsKnown ==
  ASSUME LessonAssumption, NEW sub, ~Student!EditsRefused(sub), NEW c \in DOMAIN Packed.model
  PROVE Student!AskedModel(sub, c) \in DOMAIN Designs
  <1>1. CASE Student!Asks(sub, c) = {}
    BY <1>1 DEF LessonAssumption, Student!LessonChecked, Student!AskedModel
  <1>2. ASSUME NEW s \in Student!Asks(sub, c) PROVE Student!AskedModel(sub, c) \in DOMAIN Designs
    <2>1. s \in Student!Values(sub.slots) /\ s.component = c
      BY DEF Student!Asks
    <2>2. ~Student!SlotRefused(s)
      BY <2>1 DEF Student!EditsRefused
    <2>3. s.model \in DOMAIN Designs
      BY <2>2 DEF Student!SlotRefused, LessonAssumption, Student!LessonChecked
    <2>4. Once(sub)
      BY AcceptedOnce
    <2> QED BY <2>1, <2>3, <2>4, AsksOne
  <1> QED BY <1>1, <1>2

\* The bindings that are left, and those that had no effect.
LEMMA BindingsLeft ==
  ASSUME NEW sub, IsOverlay(sub), NEW n, n = Student!Normal(sub)
  PROVE \A b : b \in Student!Values(n.bindings) <=> b \in Student!Values(sub.bindings) /\ ~Student!BindingNoop(b, Student!Slots(sub))
  <1> DEFINE B == {b \in Student!Values(sub.bindings) : ~Student!BindingNoop(b, Student!Slots(sub))}
  <1>1. n.bindings = Student!SetToSeq(B)
    BY NormalIs
  <1>2. B \subseteq Student!Values(sub.bindings)
    OBVIOUS
  <1>3. \A b : b \in B <=> b \in Student!Values(sub.bindings) /\ ~Student!BindingNoop(b, Student!Slots(sub))
    OBVIOUS
  <1> HIDE DEF B
  <1>4. Student!Values(n.bindings) = B
    BY <1>1, <1>2, OverlayLists, KeptAgain
  <1> QED BY <1>3, <1>4

LEMMA AppliedComponent ==
  ASSUME NEW sub, IsOverlay(sub), Once(sub), NEW n, n = Student!Normal(sub), NEW d, d = Student!ApplyOverlay(n), NEW c \in DOMAIN Packed.model
  PROVE /\ DOMAIN d.model = DOMAIN Packed.model /\ d.model[c] = Student!AskedModel(sub, c)
        /\ d.configuration[c] = Student!ApplyBindings(Student!Slotted(Student!Slots(sub), c).configuration, n.bindings, c)
  <1>1. n.slots = Student!Slots(sub)
    BY NormalIs
  <1>2. Student!Slotted(n.slots, c).model = Student!AskedModel(sub, c)
    BY <1>1, SlottedIs
  <1>3. /\ d.model = [x \in DOMAIN Packed.model |-> Student!Slotted(n.slots, x).model]
        /\ d.configuration = [x \in DOMAIN Packed.model |-> Student!ApplyBindings(Student!Slotted(n.slots, x).configuration, n.bindings, x)]
    BY DEF Student!ApplyOverlay
  <1> QED BY <1>1, <1>2, <1>3

LEMMA SubmittedOnce ==
  ASSUME NEW sub, IsOverlay(sub), Once(sub), NEW n, n = Student!Normal(sub)
  PROVE \A x, y \in Student!Values(n.bindings) : <<x.component, x.peer>> = <<y.component, y.peer>> => x = y
  BY BindingsLeft DEF Once

\* What a component is configured with before its peers are bound.
LEMMA SlottedPeer ==
  ASSUME LessonAssumption, NEW sub, IsOverlay(sub), ~Student!EditsRefused(sub), NEW c \in DOMAIN Packed.model,
         NEW f, f = Student!Slotted(Student!Slots(sub), c).configuration,
         NEW p \in DOMAIN Designs[Student!AskedModel(sub, c)].peers, NEW default
  PROVE Student!Get(f, p, default) = IF Student!Asks(sub, c) # {} THEN default ELSE Student!Get(Packed.configuration[c], p, default)
  <1>1. Once(sub)
    BY AcceptedOnce
  <1>2. CASE Student!Asks(sub, c) = {}
    BY <1>1, <1>2, SlottedIs
  <1>3. ASSUME NEW s \in Student!Asks(sub, c) PROVE Student!Get(f, p, default) = default
    <2>1. s \in Student!Values(sub.slots) /\ s.component = c
      BY DEF Student!Asks
    <2>2. ~Student!SlotRefused(s) /\ Student!IsSlot(s)
      BY <2>1 DEF Student!EditsRefused, IsOverlay
    <2>3. Student!AskedModel(sub, c) = s.model
      BY <1>1, <2>1, AsksOne
    <2>4. f = Student!OptionConfiguration(Student!ReadSlot(s).options)
      BY <1>1, SlottedIs
    <2>5. DOMAIN f \subseteq DOMAIN Designs[s.model].options
      BY <2>2, <2>4, OptionsRead
    <2>6. DOMAIN Designs[s.model].peers \cap DOMAIN Designs[s.model].options = {}
      BY <2>3, AskedIsKnown DEF LessonAssumption, Student!LessonChecked
    <2> QED BY <2>3, <2>5, <2>6 DEF Student!Get
  <1> QED BY <1>2, <1>3

LEMMA PeerIsAsked ==
  ASSUME LessonAssumption, NEW sub, IsOverlay(sub), ~Student!EditsRefused(sub), NEW n, n = Student!Normal(sub),
         NEW c \in DOMAIN Packed.model, NEW f, f = Student!ApplyBindings(Student!Slotted(Student!Slots(sub), c).configuration, n.bindings, c),
         NEW p \in DOMAIN Designs[Student!AskedModel(sub, c)].peers
  PROVE Student!Get(f, p, Designs[Student!AskedModel(sub, c)].peers[p]) = Student!AskedPeer(sub, c, p)
  <1> DEFINE bound == {b \in Student!Values(sub.bindings) : b.component = c /\ b.peer = p}
             default == Designs[Student!AskedModel(sub, c)].peers[p]
             t == Student!Slotted(Student!Slots(sub), c)
  <1>1. Once(sub)
    BY AcceptedOnce
  <1>2. t.model = Student!AskedModel(sub, c)
    BY <1>1, SlottedIs
  <1>3. \A x, y \in Student!Values(n.bindings) : <<x.component, x.peer>> = <<y.component, y.peer>> => x = y
    BY <1>1, SubmittedOnce
  <1>4. /\ \A b \in Student!Values(n.bindings) : b.component = c => b.peer \in DOMAIN f /\ f[b.peer] = b.target
        /\ (\A b \in Student!Values(n.bindings) : b.component = c => b.peer # p)
                 => Student!Get(f, p, default) = Student!Get(t.configuration, p, default)
    BY <1>3, BindingsWritten
  <1>5. Student!AskedPeer(sub, c, p) = IF bound # {} THEN (CHOOSE b \in bound : TRUE).target
                                       ELSE IF Student!Asks(sub, c) # {} THEN default
                                       ELSE Student!Get(Packed.configuration[c], p, default)
    BY DEF Student!AskedPeer
  <1>6. CASE bound = {}
    <2>1. \A b \in Student!Values(n.bindings) : b.component = c => b.peer # p
      BY <1>6, BindingsLeft
    <2>2. Student!Get(t.configuration, p, default) = IF Student!Asks(sub, c) # {} THEN default ELSE Student!Get(Packed.configuration[c], p, default)
      BY SlottedPeer
    <2> QED BY <1>4, <1>5, <1>6, <2>1, <2>2
  <1>7. ASSUME NEW b \in bound PROVE Student!Get(f, p, default) = Student!AskedPeer(sub, c, p)
    <2>1. b \in Student!Values(sub.bindings) /\ b.component = c /\ b.peer = p
      OBVIOUS
    <2>2. \A x \in bound : x = b
      BY <1>1 DEF Once
    <2>3. (CHOOSE x \in bound : TRUE) = b
      BY <2>2
    <2>4. Student!AskedPeer(sub, c, p) = b.target
      BY <1>5, <2>3
    <2> HIDE DEF bound
    <2>5. CASE ~Student!BindingNoop(b, Student!Slots(sub))
      <3>1. b \in Student!Values(n.bindings)
        BY <2>1, <2>5, BindingsLeft
      <3> QED BY <1>4, <2>1, <2>4, <3>1 DEF Student!Get
    <2>6. CASE Student!BindingNoop(b, Student!Slots(sub))
      <3>1. \A x \in Student!Values(n.bindings) : x.component = c => x.peer # p
        BY <1>1, <2>1, <2>6, BindingsLeft DEF Once
      <3>2. Student!Get(t.configuration, p, Designs[t.model].peers[p]) = b.target
        BY <2>1, <2>6 DEF Student!BindingNoop, Student!Resolved
      <3> QED BY <1>2, <1>4, <2>4, <3>1, <3>2
    <2> QED BY <2>5, <2>6
  <1> QED BY <1>6, <1>7

LEMMA OptionIsAsked ==
  ASSUME LessonAssumption, NEW sub, IsOverlay(sub), ~Student!EditsRefused(sub), NEW n, n = Student!Normal(sub),
         NEW c \in DOMAIN Packed.model, NEW f, f = Student!ApplyBindings(Student!Slotted(Student!Slots(sub), c).configuration, n.bindings, c),
         NEW k \in DOMAIN Designs[Student!AskedModel(sub, c)].options
  PROVE Student!Get(f, k, Designs[Student!AskedModel(sub, c)].options[k].default) = Student!AskedOption(sub, c, k)
  <1> DEFINE default == Designs[Student!AskedModel(sub, c)].options[k].default
             t == Student!Slotted(Student!Slots(sub), c)
             chosen == UNION {{o \in Student!Values(s.options) : o.key = k} : s \in Student!Asks(sub, c)}
  <1>1. Once(sub)
    BY AcceptedOnce
  <1>2. t.model = Student!AskedModel(sub, c)
    BY <1>1, SlottedIs
  <1>3. DOMAIN Designs[t.model].peers \cap DOMAIN Designs[t.model].options = {}
    BY <1>2, AskedIsKnown DEF LessonAssumption, Student!LessonChecked
  <1>4. \A b \in Student!Values(n.bindings) : b.component = c => b.peer # k
    <2>1. \A b \in Student!Values(n.bindings) : ~Student!BindingRefused(b, Student!Slots(sub))
      BY BindingsLeft DEF Student!EditsRefused
    <2>2. \A b \in Student!Values(n.bindings) : b.component = c => b.peer \in DOMAIN Designs[t.model].peers
      BY <2>1 DEF Student!BindingRefused
    <2> QED BY <1>2, <1>3, <2>2
  <1>5. Student!Get(f, k, default) = Student!Get(t.configuration, k, default)
    <2>1. \A x, y \in Student!Values(n.bindings) : <<x.component, x.peer>> = <<y.component, y.peer>> => x = y
      BY <1>1, SubmittedOnce
    <2> QED BY <1>4, <2>1, BindingsWritten
  <1>6. Student!AskedOption(sub, c, k) = IF chosen # {} THEN (CHOOSE o \in chosen : TRUE).value
                                         ELSE IF Student!Asks(sub, c) # {} THEN default
                                         ELSE Student!Get(Packed.configuration[c], k, default)
    BY DEF Student!AskedOption
  <1>7. CASE Student!Asks(sub, c) = {}
    <2>1. chosen = {}
      BY <1>7
    <2>2. t.configuration = Packed.configuration[c]
      BY <1>1, <1>7, SlottedIs
    <2> QED BY <1>5, <1>6, <1>7, <2>1, <2>2
  <1>8. ASSUME NEW s \in Student!Asks(sub, c) PROVE Student!Get(f, k, default) = Student!AskedOption(sub, c, k)
    <2> DEFINE g == t.configuration
    <2>1. s \in Student!Values(sub.slots) /\ s.component = c
      BY DEF Student!Asks
    <2>2. ~Student!SlotRefused(s) /\ Student!IsSlot(s)
      BY <2>1 DEF Student!EditsRefused, IsOverlay
    <2>3. Student!AskedModel(sub, c) = s.model /\ Student!Asks(sub, c) = {s}
      BY <1>1, <2>1, AsksOne
    <2>4. g = Student!OptionConfiguration(Student!ReadSlot(s).options)
      BY <1>1, SlottedIs
    <2>5. chosen = {o \in Student!Values(s.options) : o.key = k}
      BY <2>3
    <2>6. default = Designs[s.model].options[k].default
      BY <2>3
    <2> HIDE DEF g, chosen, default
    <2>7. /\ k \in DOMAIN g <=> \E o \in Student!Values(s.options) : o.key = k /\ o.value # default
          /\ \A o \in Student!Values(s.options) : o.key = k /\ o.value # default => g[k] = o.value
          /\ \A x, y \in Student!Values(s.options) : x.key = y.key => x = y
      BY <2>2, <2>4, <2>6, OptionsRead
    <2>8. Student!Get(g, k, default) = Student!AskedOption(sub, c, k)
      <3>1. CASE chosen = {}
        <4>1. k \notin DOMAIN g
          BY <2>5, <2>7, <3>1
        <4> QED BY <1>6, <2>3, <3>1, <4>1 DEF Student!Get
      <3>2. ASSUME NEW o \in chosen PROVE Student!Get(g, k, default) = Student!AskedOption(sub, c, k)
        <4>1. o \in Student!Values(s.options) /\ o.key = k /\ chosen = {o}
          BY <2>5, <2>7
        <4>2. (CHOOSE x \in {o} : TRUE) = o
          OBVIOUS
        <4>3. Student!AskedOption(sub, c, k) = o.value
          BY <1>6, <4>1, <4>2
        <4>4. CASE o.value = default
          <5>1. k \notin DOMAIN g
            BY <2>7, <4>1, <4>4
          <5> QED BY <4>3, <4>4, <5>1 DEF Student!Get
        <4>5. CASE o.value # default
          BY <2>7, <4>1, <4>3, <4>5 DEF Student!Get
        <4> QED BY <4>4, <4>5
      <3> QED BY <3>1, <3>2
    <2> QED BY <1>5, <2>8 DEF g
  <1> QED BY <1>7, <1>8

LEMMA WiringIsAsked ==
  ASSUME LessonAssumption, NEW sub, IsOverlay(sub), ~Student!EditsRefused(sub), NEW n, n = Student!Normal(sub),
         NEW d, d = Student!ApplyOverlay(n), NEW c \in DOMAIN d.model
  PROVE Student!Wiring(d, c) = Student!AskedWiring(sub, c)
  <1> DEFINE m == Designs[Student!AskedModel(sub, c)]
             f == d.configuration[c]
             peers == [p \in DOMAIN m.peers |-> Student!Get(f, p, m.peers[p])]
             options == [k \in DOMAIN m.options |-> Student!Get(f, k, m.options[k].default)]
             askedPeers == [p \in DOMAIN m.peers |-> Student!AskedPeer(sub, c, p)]
             askedOptions == [k \in DOMAIN m.options |-> Student!AskedOption(sub, c, k)]
  <1>1. c \in DOMAIN Packed.model
    BY DEF Student!ApplyOverlay
  <1>2. d.model[c] = Student!AskedModel(sub, c) /\ f = Student!ApplyBindings(Student!Slotted(Student!Slots(sub), c).configuration, n.bindings, c)
    BY <1>1, AcceptedOnce, AppliedComponent
  <1>3. Student!Wiring(d, c) = [model |-> d.model[c], peers |-> peers, options |-> options]
    BY <1>2 DEF Student!Wiring
  <1>4. Student!AskedWiring(sub, c) = [model |-> Student!AskedModel(sub, c), peers |-> askedPeers, options |-> askedOptions]
    BY DEF Student!AskedWiring
  <1> HIDE DEF f
  <1>5. \A p \in DOMAIN m.peers : Student!Get(f, p, m.peers[p]) = Student!AskedPeer(sub, c, p)
    BY <1>1, <1>2, PeerIsAsked
  <1>6. \A k \in DOMAIN m.options : Student!Get(f, k, m.options[k].default) = Student!AskedOption(sub, c, k)
    BY <1>1, <1>2, OptionIsAsked
  <1>7. peers = askedPeers
    BY <1>5
  <1>8. options = askedOptions
    BY <1>6
  <1> HIDE DEF peers, options, askedPeers, askedOptions
  <1> QED BY <1>2, <1>3, <1>4, <1>7, <1>8

-----------------------------------------------------------------------------
(* What is owned, its values, and what is added                             *)

LEMMA ConcatValues ==
  ASSUME NEW S, NEW s \in Seq(S), NEW t \in Seq(S)
  PROVE Student!Values(s \o t) = Student!Values(s) \cup Student!Values(t)
  <1> DEFINE q == s \o t
             l == Len(s)
             m == Len(t)
  <1>1. l \in Nat /\ m \in Nat /\ DOMAIN s = 1..l /\ DOMAIN t = 1..m
    BY LenProperties
  <1>2. DOMAIN q = 1..(l + m) /\ (\A i \in 1..(l + m) : q[i] = IF i <= l THEN s[i] ELSE t[i - l])
    BY <1>1
  <1> HIDE DEF q, l, m
  <1>3. \A i \in 1..l : i \in 1..(l + m) /\ q[i] = s[i]
    BY <1>1, <1>2
  <1>4. \A i \in 1..m : i + l \in 1..(l + m) /\ q[i + l] = t[i]
    BY <1>1, <1>2
  <1>5. \A i \in 1..(l + m) : i \in 1..l \/ i - l \in 1..m
    BY <1>1
  <1>6. \A i \in 1..(l + m) : (i \in 1..l /\ q[i] = s[i]) \/ (i - l \in 1..m /\ q[i] = t[i - l])
    BY <1>1, <1>2, <1>5
  <1>7. Student!Values(q) \subseteq Student!Values(s) \cup Student!Values(t)
    BY <1>1, <1>2, <1>6 DEF Student!Values
  <1>8. Student!Values(s) \subseteq Student!Values(q)
    BY <1>1, <1>2, <1>3 DEF Student!Values
  <1>9. Student!Values(t) \subseteq Student!Values(q)
    BY <1>1, <1>2, <1>4 DEF Student!Values
  <1> QED BY <1>7, <1>8, <1>9 DEF q

LEMMA PlacedValues ==
  ASSUME NEW s, IsList(s), NEW places, places \subseteq DOMAIN s, NEW q, q = Student!AtPlaces(s, places)
  PROVE q \in Seq(Student!Values(s)) /\ \A x : x \in Student!Values(q) <=> \E i \in places : x = s[i]
  <1>1. Len(s) \in Nat /\ DOMAIN s = 1..Len(s)
    BY ListsAre
  <1>2. Student!AtPlaces(s, places) = AtPlaces(s, places)
    BY DEF Student!AtPlaces, AtPlaces
  <1>3. Chained(q, s, places, Len(s))
    BY <1>1, <1>2, AtPlacesChained
  <1>4. PICK e : Chain(e, q, s, places, Len(s))
    BY <1>3 DEF Chained
  <1>5. q \in Seq(Student!Values(s))
    BY <1>1, <1>4 DEF Chain, Student!Values
  <1>6. DOMAIN q = 1..Len(q)
    BY <1>5, LenProperties
  <1>7. \A k \in 1..Len(q) : e[k] \in places /\ q[k] = s[e[k]]
    BY <1>4 DEF Chain
  <1>8. \A i \in places : \E k \in 1..Len(q) : e[k] = i
    BY <1>1, <1>4 DEF Chain
  <1>9. \A x : x \in Student!Values(q) <=> \E k \in 1..Len(q) : x = q[k]
    BY <1>6 DEF Student!Values
  <1> QED BY <1>5, <1>7, <1>8, <1>9

\* The rest of the applied document.
LEMMA AppliedRest ==
  ASSUME NEW n, NEW d, d = Student!ApplyOverlay(n)
  PROVE /\ Packed.links \subseteq d.links
        /\ d.owned = Student!ApplyResources(n.resources, n.slots)
        /\ d.subscriptions = Student!ApplySubscriptions(n.subscriptions)
        /\ d.faults = Packed.faults \o n.faults /\ d.actions = Packed.actions \o n.scheduledFaults
  <1> DEFINE L == {<<b.component, b.target>> : b \in Student!Values(n.bindings)}
  <1>1. /\ d.links = Packed.links \cup L
        /\ d.owned = Student!ApplyResources(n.resources, n.slots)
        /\ d.subscriptions = Student!ApplySubscriptions(n.subscriptions)
        /\ d.faults = Packed.faults \o n.faults /\ d.actions = Packed.actions \o n.scheduledFaults
    BY DEF Student!ApplyOverlay
  <1> HIDE DEF L
  <1> QED BY <1>1

LEMMA ResourcesLeft ==
  ASSUME NEW sub, IsOverlay(sub), NEW n, n = Student!Normal(sub)
  PROVE /\ \A r : r \in Student!Values(n.resources) <=> r \in Student!Values(sub.resources) /\ ~Student!ResourceNoop(r)
        /\ IsFiniteSet(Student!Values(n.resources))
  <1> DEFINE R == {r \in Student!Values(sub.resources) : ~Student!ResourceNoop(r)}
  <1>1. n.resources = Student!SetToSeq(R)
    BY NormalIs
  <1>2. R \subseteq Student!Values(sub.resources)
    OBVIOUS
  <1>3. \A r : r \in R <=> r \in Student!Values(sub.resources) /\ ~Student!ResourceNoop(r)
    OBVIOUS
  <1> HIDE DEF R
  <1>4. Student!Values(n.resources) = R /\ IsList(n.resources)
    BY <1>1, <1>2, OverlayLists, KeptAgain
  <1> QED BY <1>3, <1>4, ListsAre

LEMMA OwnedIsAsked ==
  ASSUME LessonAssumption, NEW sub, IsOverlay(sub), Once(sub), NEW n, n = Student!Normal(sub), NEW d, d = Student!ApplyOverlay(n)
  PROVE Student!Values(d.owned) = Student!AskedResources(sub)
  <1> DEFINE owned == Packed.owned
             left == Student!Values(n.resources)
             asked == Student!Values(sub.resources)
             detached(e) == \E r \in left : r.change = "detach" /\ r.owner = e.owner /\ r.resource = e.resource
             places == {i \in DOMAIN owned : ~detached(owned[i])}
             X == {x \in left : x.change = "attach"}
             Y == {x \in asked : x.change = "attach"}
             f == [r \in X |-> Student!Attached(r.owner, r.resource, Student!Slotted(n.slots, r.owner).model)]
             attached == {Student!Attached(r.owner, r.resource, Student!Slotted(n.slots, r.owner).model) : r \in X}
             wanted == {Student!Attached(r.owner, r.resource, Student!AskedModel(sub, r.owner)) : r \in Y}
             kept == {e \in Student!Values(owned) : \A r \in asked : r.owner = e.owner /\ r.resource = e.resource => r.change # "detach"}
             p == Student!AtPlaces(owned, places)
             q == Student!SetToSeq(attached)
  <1>1. IsList(owned)
    BY DEF LessonAssumption, Student!LessonChecked, IsList
  <1>2. d.owned = p \o q
    <2>1. d.owned = Student!ApplyResources(n.resources, n.slots)
      BY AppliedRest
    <2>2. Student!ApplyResources(n.resources, n.slots) = p \o q
      BY DEF Student!ApplyResources
    <2> QED BY <2>1, <2>2
  <1>3. \A r : r \in left <=> r \in asked /\ ~Student!ResourceNoop(r)
    BY ResourcesLeft
  <1>4. n.slots = Student!Slots(sub)
    BY NormalIs
  <1>5. \A c : Student!Slotted(n.slots, c).model = Student!AskedModel(sub, c)
    BY <1>4, SlottedIs
  <1>6. X = Y
    BY <1>3 DEF Student!ResourceNoop
  <1>7. attached = wanted
    BY <1>5, <1>6
  <1>8. IsFiniteSet(attached)
    <2>1. IsFiniteSet(left)
      BY ResourcesLeft
    <2>2. IsFiniteSet(X)
      <3>1. X \in SUBSET left
        OBVIOUS
      <3> HIDE DEF X
      <3> QED BY <2>1, <3>1, FS_Subset
    <2>3. DOMAIN f = X /\ {f[r] : r \in X} = attached
      OBVIOUS
    <2> HIDE DEF f, X, attached
    <2> QED BY <2>2, <2>3, ImageIs
  <1>9. \A i \in DOMAIN owned : ~detached(owned[i]) <=> \A r \in asked : r.owner = owned[i].owner /\ r.resource = owned[i].resource => r.change # "detach"
    <2> SUFFICES ASSUME NEW i \in DOMAIN owned, NEW r \in asked, r.owner = owned[i].owner, r.resource = owned[i].resource, r.change = "detach"
                 PROVE detached(owned[i])
      BY <1>3
    <2>1. owned[i] \in Student!Values(Packed.owned)
      BY DEF Student!Values
    <2>2. Student!Owns(r.owner, r.resource)
      BY <2>1 DEF Student!Owns
    <2>3. r \in left
      BY <1>3, <2>2 DEF Student!ResourceNoop
    <2> QED BY <2>3
  <1>10. places \subseteq DOMAIN owned
    OBVIOUS
  <1>11. {owned[i] : i \in places} = kept
    BY <1>9 DEF Student!Values
  <1> HIDE DEF places, attached, wanted, kept, owned, p, q
  <1>12. p \in Seq(Student!Values(owned)) /\ \A x : x \in Student!Values(p) <=> \E i \in places : x = owned[i]
    BY <1>1, <1>10, PlacedValues DEF p
  <1>13. Student!Values(p) = kept
    BY <1>11, <1>12
  <1>14. ListOf(q, attached)
    BY <1>8, ListIs DEF q
  <1>15. q \in Seq(attached) /\ Student!Values(q) = attached
    BY <1>14 DEF ListOf
  <1>16. Student!Values(p \o q) = Student!Values(p) \cup Student!Values(q)
    <2> DEFINE S == Student!Values(owned) \cup attached
    <2>1. Student!Values(owned) \subseteq S /\ attached \subseteq S
      OBVIOUS
    <2> HIDE DEF S
    <2>2. p \in Seq(S) /\ q \in Seq(S)
      BY <1>12, <1>15, <2>1, SeqMonotonic
    <2> QED BY <2>2, ConcatValues
  <1>17. Student!AskedResources(sub) = kept \cup wanted
    BY DEF Student!AskedResources, kept, wanted, owned
  <1> QED BY <1>2, <1>7, <1>13, <1>15, <1>16, <1>17

LEMMA SubscriptionsLeft ==
  ASSUME NEW sub, IsOverlay(sub), NEW n, n = Student!Normal(sub)
  PROVE /\ \A s : s \in Student!Values(n.subscriptions) <=> s \in Student!Values(sub.subscriptions) /\ ~Student!SubscriptionNoop(s)
        /\ IsFiniteSet(Student!Values(n.subscriptions))
  <1> DEFINE R == {s \in Student!Values(sub.subscriptions) : ~Student!SubscriptionNoop(s)}
  <1>1. n.subscriptions = Student!SetToSeq(R)
    BY NormalIs
  <1>2. R \subseteq Student!Values(sub.subscriptions)
    OBVIOUS
  <1>3. \A s : s \in R <=> s \in Student!Values(sub.subscriptions) /\ ~Student!SubscriptionNoop(s)
    OBVIOUS
  <1> HIDE DEF R
  <1>4. Student!Values(n.subscriptions) = R /\ IsList(n.subscriptions)
    BY <1>1, <1>2, OverlayLists, KeptAgain
  <1> QED BY <1>3, <1>4, ListsAre

LEMMA SubscribedIsAsked ==
  ASSUME LessonAssumption, NEW sub, IsOverlay(sub), NEW n, n = Student!Normal(sub), NEW d, d = Student!ApplyOverlay(n)
  PROVE Student!Values(d.subscriptions) = Student!AskedSubscriptions(sub)
  <1> DEFINE packaged == Packed.subscriptions
             left == Student!Values(n.subscriptions)
             asked == Student!Values(sub.subscriptions)
             X == {x \in left : x.change = "subscribe"}
             Y == {x \in asked : x.change = "subscribe"}
             gone == {<<s.consumer, s.destination>> : s \in {x \in left : x.change = "unsubscribe"}}
             places == {i \in DOMAIN packaged : packaged[i] \notin gone}
             f == [s \in X |-> <<s.consumer, s.destination>>]
             made == {<<s.consumer, s.destination>> : s \in X}
             wanted == {<<s.consumer, s.destination>> : s \in Y}
             kept == {e \in Student!Values(packaged) : \A s \in asked : <<s.consumer, s.destination>> = e => s.change # "unsubscribe"}
             p == Student!AtPlaces(packaged, places)
             q == Student!SetToSeq(made)
  <1>1. IsList(packaged)
    BY DEF LessonAssumption, Student!LessonChecked, IsList
  <1>2. d.subscriptions = p \o q
    <2>1. d.subscriptions = Student!ApplySubscriptions(n.subscriptions)
      BY AppliedRest
    <2>2. Student!ApplySubscriptions(n.subscriptions) = p \o q
      BY DEF Student!ApplySubscriptions
    <2> QED BY <2>1, <2>2
  <1>3. \A s : s \in left <=> s \in asked /\ ~Student!SubscriptionNoop(s)
    BY SubscriptionsLeft
  <1>4. X = Y
    BY <1>3 DEF Student!SubscriptionNoop
  <1>5. made = wanted
    BY <1>4
  <1>6. IsFiniteSet(made)
    <2>1. IsFiniteSet(left)
      BY SubscriptionsLeft
    <2>2. IsFiniteSet(X)
      <3>1. X \in SUBSET left
        OBVIOUS
      <3> HIDE DEF X
      <3> QED BY <2>1, <3>1, FS_Subset
    <2>3. DOMAIN f = X /\ {f[s] : s \in X} = made
      OBVIOUS
    <2> HIDE DEF f, X, made
    <2> QED BY <2>2, <2>3, ImageIs
  <1>7. \A i \in DOMAIN packaged :
           packaged[i] \notin gone <=> \A s \in asked : <<s.consumer, s.destination>> = packaged[i] => s.change # "unsubscribe"
    <2> SUFFICES ASSUME NEW i \in DOMAIN packaged, NEW s \in asked, <<s.consumer, s.destination>> = packaged[i], s.change = "unsubscribe"
                 PROVE packaged[i] \in gone
      BY <1>3
    <2>1. packaged[i] \in Student!Values(Packed.subscriptions)
      BY DEF Student!Values
    <2>2. s \in left
      BY <1>3, <2>1 DEF Student!SubscriptionNoop
    <2> QED BY <2>2
  <1>8. places \subseteq DOMAIN packaged
    OBVIOUS
  <1>9. {packaged[i] : i \in places} = kept
    BY <1>7 DEF Student!Values
  <1> HIDE DEF places, made, wanted, kept, packaged, gone, p, q
  <1>10. p \in Seq(Student!Values(packaged)) /\ \A x : x \in Student!Values(p) <=> \E i \in places : x = packaged[i]
    BY <1>1, <1>8, PlacedValues DEF p
  <1>11. Student!Values(p) = kept
    BY <1>9, <1>10
  <1>12. ListOf(q, made)
    BY <1>6, ListIs DEF q
  <1>13. q \in Seq(made) /\ Student!Values(q) = made
    BY <1>12 DEF ListOf
  <1>14. Student!Values(p \o q) = Student!Values(p) \cup Student!Values(q)
    <2> DEFINE S == Student!Values(packaged) \cup made
    <2>1. Student!Values(packaged) \subseteq S /\ made \subseteq S
      OBVIOUS
    <2> HIDE DEF S
    <2>2. p \in Seq(S) /\ q \in Seq(S)
      BY <1>10, <1>13, <2>1, SeqMonotonic
    <2> QED BY <2>2, ConcatValues
  <1>15. Student!AskedSubscriptions(sub) = kept \cup wanted
    BY DEF Student!AskedSubscriptions, kept, wanted, packaged
  <1> QED BY <1>2, <1>5, <1>11, <1>13, <1>14, <1>15

LEMMA ValueIsAsked ==
  ASSUME LessonAssumption, NEW sub, IsOverlay(sub), ~Student!OverridesRefused(sub.parameters, Allowance.parameters),
         NEW n, n = Student!Normal(sub), NEW d, d = Student!ApplyOverlay(n),
         NEW o \in Student!Values(sub.parameters), NEW t \in Allowance.parameters[o.key].targets
  PROVE d.values[t] = o.value
  <1> DEFINE V == Student!Values(sub.parameters)
             P == Allowance.parameters
             S == {x \in V : x.value # P[x.key].default}
             O == {x \in S : t \in P[x.key].targets}
  <1>1. n.parameters = Student!NonDefault(sub.parameters, P) /\ IsList(sub.parameters)
    BY NormalIs, OverlayLists
  <1>2. Student!Values(n.parameters) = S
    <2>1. ListOf(n.parameters, S)
      BY <1>1, NonDefaultIs
    <2> QED BY <2>1 DEF ListOf
  <1>3. /\ \A x \in V : x.key \in DOMAIN P
        /\ \A x, y \in V : x.key = y.key => x = y
    BY OnceIs DEF Student!OverridesRefused
  <1>4. /\ \A key \in DOMAIN P : \A u \in P[key].targets : u \in DOMAIN Packed.values /\ Packed.values[u] = P[key].default
        /\ \A key \in DOMAIN P : \A u \in P[key].targets : \A other \in DOMAIN P \ {key} : u \notin P[other].targets
    BY DEF LessonAssumption, Student!LessonChecked
  <1>5. t \in DOMAIN Packed.values /\ Packed.values[t] = P[o.key].default
    BY <1>3, <1>4
  <1>6. d.values = [u \in DOMAIN Packed.values |->
                      LET z == {x \in Student!Values(n.parameters) : u \in P[x.key].targets}
                      IN IF z = {} THEN Packed.values[u] ELSE (CHOOSE x \in z : TRUE).value]
    BY DEF Student!ApplyOverlay
  <1>7. d.values[t] = IF O = {} THEN Packed.values[t] ELSE (CHOOSE x \in O : TRUE).value
    BY <1>2, <1>5, <1>6
  <1>8. \A x \in O : x = o
    <2> SUFFICES ASSUME NEW x \in O PROVE x.key = o.key
      BY <1>3
    <2> QED BY <1>3, <1>4
  <1>9. o \in O <=> o.value # P[o.key].default
    OBVIOUS
  <1> HIDE DEF O, S, V, P
  <1>10. CASE o.value = P[o.key].default
    <2>1. O = {}
      BY <1>8, <1>9, <1>10
    <2> QED BY <1>5, <1>7, <1>10, <2>1
  <1>11. CASE o.value # P[o.key].default
    <2>1. O = {o}
      BY <1>8, <1>9, <1>11
    <2>2. (CHOOSE x \in {o} : TRUE) = o
      OBVIOUS
    <2> QED BY <1>7, <2>1, <2>2
  <1> QED BY <1>10, <1>11

LEMMA PrefixIs == ASSUME NEW s, IsList(s), NEW t, IsList(t) PROVE Student!IsPrefix(s, s \o t)
  <1> DEFINE S == Student!Values(s) \cup Student!Values(t)
             q == s \o t
  <1>1. s \in Seq(S) /\ t \in Seq(S)
    <2>1. Student!Values(s) \subseteq S /\ Student!Values(t) \subseteq S
      OBVIOUS
    <2> HIDE DEF S
    <2> QED BY <2>1, SeqMonotonic DEF IsList
  <1> HIDE DEF S
  <1>2. Len(s) \in Nat /\ Len(t) \in Nat
    BY <1>1, LenProperties
  <1>3. q \in Seq(S) /\ Len(q) = Len(s) + Len(t) /\ \A i \in 1..Len(s) : q[i] = s[i]
    BY <1>1, <1>2, ConcatProperties
  <1> HIDE DEF q
  <1>4. Len(s) <= Len(q)
    BY <1>2, <1>3
  <1>5. SubSeq(s, 1, Len(s)) = SubSeq(q, 1, Len(s))
    <2>1. SubSeq(s, 1, Len(s)) = [i \in 1..Len(s) |-> s[i]]
      BY <1>1, <1>2
    <2>2. SubSeq(q, 1, Len(s)) = [i \in 1..Len(s) |-> q[i]]
      BY <1>2, <1>3
    <2>3. [i \in 1..Len(s) |-> s[i]] = [i \in 1..Len(s) |-> q[i]]
      BY <1>3
    <2> QED BY <2>1, <2>2, <2>3
  <1> QED BY <1>4, <1>5 DEF q, Student!IsPrefix

LEMMA DesignIsAsked ==
  ASSUME LessonAssumption, IsOverlay(submitted), Student!Accepted(submitted)
  PROVE Student!SameDesign
  <1> DEFINE n == Student!Normal(submitted)
             d == Student!ApplyOverlay(n)
  <1>1. ~Student!EditsRefused(submitted) /\ ~Student!OverridesRefused(submitted.parameters, Allowance.parameters)
    BY AcceptedHas
  <1>2. n = Student!Normal(submitted) /\ d = Student!ApplyOverlay(n)
    OBVIOUS
  <1> HIDE DEF n, d
  <1>3. \A c \in DOMAIN d.model : Student!Wiring(d, c) = Student!AskedWiring(submitted, c)
    BY <1>1, <1>2, WiringIsAsked
  <1>4. Student!Values(d.owned) = Student!AskedResources(submitted)
    BY <1>1, <1>2, AcceptedOnce, OwnedIsAsked
  <1>5. \A o \in Student!Values(submitted.parameters) : \A t \in Allowance.parameters[o.key].targets : d.values[t] = o.value
    BY <1>1, <1>2, ValueIsAsked
  <1>6. Packed.links \subseteq d.links /\ d.faults = Packed.faults \o n.faults /\ d.actions = Packed.actions \o n.scheduledFaults
    BY <1>2, AppliedRest
  <1>7. IsList(n.faults) /\ IsList(n.scheduledFaults)
    <2>1. n.scheduledFaults = submitted.scheduledFaults /\ IsList(submitted.scheduledFaults)
      BY <1>2, NormalIs, OverlayLists
    <2> QED BY <1>2, <2>1, RulesStable
  <1>8. IsList(Packed.faults) /\ IsList(Packed.actions)
    BY DEF LessonAssumption, Student!LessonChecked, IsList
  <1>9. Student!IsPrefix(Packed.faults, d.faults) /\ Student!IsPrefix(Packed.actions, d.actions)
    BY <1>6, <1>7, <1>8, PrefixIs
  <1>10. Student!Values(d.subscriptions) = Student!AskedSubscriptions(submitted)
    BY <1>2, SubscribedIsAsked
  <1> QED BY <1>3, <1>4, <1>5, <1>6, <1>9, <1>10 DEF n, d, Student!SameDesign

-----------------------------------------------------------------------------
(* What a student submits                                                   *)

SubmittedInv ==
    /\ DOMAIN submitted = Student!Lists
    /\ \A list \in Student!Lists : submitted[list] \in Seq(Offers[list])

LEMMA SubmittedIsOverlay == ASSUME LessonAssumption, SubmittedInv PROVE IsOverlay(submitted)
  <1>1. ASSUME NEW S, NEW s \in Seq(S) PROVE IsList(s) /\ Student!Values(s) \subseteq S
    <2>1. DOMAIN s = 1..Len(s) /\ \A i \in 1..Len(s) : s[i] \in S
      BY LenProperties, ElementOfSeq
    <2>2. Len(s) \in Nat /\ s = [i \in 1..Len(s) |-> s[i]] /\ \A i \in 1..Len(s) : s[i] \in Student!Values(s)
      BY <2>1, LenProperties DEF Student!Values
    <2>3. s \in Seq(Student!Values(s))
      BY <2>2
    <2> QED BY <2>1, <2>3 DEF IsList, Student!Values
  <1>2. \A list \in Student!Lists : IsList(submitted[list]) /\ Student!Values(submitted[list]) \subseteq Offers[list]
    BY <1>1 DEF SubmittedInv
  <1>3. "slots" \in Student!Lists /\ "faults" \in Student!Lists
    BY DEF Student!Lists
  <1>4. Student!Values(submitted.slots) \subseteq Offers.slots /\ Student!Values(submitted.faults) \subseteq Offers.faults
    BY <1>2, <1>3
  <1> QED BY <1>2, <1>4 DEF IsOverlay, LessonAssumption, Student!EntriesOffered

LEMMA SubmittedStep == ASSUME LessonAssumption, SubmittedInv, Student!Next PROVE SubmittedInv'
  <1>1. DOMAIN Offers = Student!Lists
    BY DEF LessonAssumption, Student!EntriesOffered
  <1>2. PICK list \in Student!Lists : \E entry \in Offers[list] : submitted' = [submitted EXCEPT ![list] = Append(submitted[list], entry)]
    BY <1>1 DEF Student!Next, Student!Submit
  <1>3. PICK entry \in Offers[list] : submitted' = [submitted EXCEPT ![list] = Append(submitted[list], entry)]
    BY <1>2
  <1>4. Append(submitted[list], entry) \in Seq(Offers[list])
    BY AppendProperties DEF SubmittedInv
  <1> QED BY <1>3, <1>4 DEF SubmittedInv

LEMMA SubmittedPage ==
  ASSUME LessonAssumption, SubmittedInv, [PageNext]_<<part, scenarioVars, submitted, draftVars, vars, playbackVars>>
  PROVE SubmittedInv'
  <1>1. CASE part = "overlay" /\ Student!Next /\ Others
    BY <1>1, SubmittedStep
  <1>2. CASE part # "overlay" /\ Others
    BY <1>2 DEF Others, Still, SubmittedInv
  <1>3. CASE UNCHANGED submitted
    BY <1>3 DEF SubmittedInv
  <1> QED BY <1>1, <1>2, <1>3 DEF PageNext

LEMMA SubmittedInit == ASSUME LessonAssumption, PageInit PROVE SubmittedInv
  <1>1. submitted = [list \in Student!Lists |-> <<>>]
    BY DEF PageInit, Student!Init, Student!Empty, LessonAssumption, Student!EntriesOffered
  <1> QED BY <1>1 DEF SubmittedInv

\* Whatever lesson its checks pass, and whatever a student submits to it, the
\* document of an accepted overlay has the wiring, the resources and the values
\* that were asked for and keeps the packaged faults and actions first, though
\* entries without effect are dropped before slots, resources, subscriptions
\* and bindings are applied in that order; and the normal form is accepted and
\* its own normal form, so that what is shown and reloaded is what was applied.
THEOREM OverlaysMeanWhatTheySay == PageSpec => []OverlayMeansWhatItSays
  <1>1. PageInit => SubmittedInv
    BY LessonAssumption, SubmittedInit
  <1>2. SubmittedInv /\ [PageNext]_<<part, scenarioVars, submitted, draftVars, vars, playbackVars>> => SubmittedInv'
    BY LessonAssumption, SubmittedPage
  <1>3. SubmittedInv => OverlayMeansWhatItSays
    <2> SUFFICES ASSUME SubmittedInv, Student!Accepted(submitted) PROVE Student!SameDesign /\ Student!NormalFormIsStable
      BY DEF OverlayMeansWhatItSays, Student!OverlayMeansWhatItSays
    <2>1. IsOverlay(submitted)
      BY LessonAssumption, SubmittedIsOverlay
    <2> QED BY <2>1, LessonAssumption, DesignIsAsked, NormalAccepted DEF Student!NormalFormIsStable
  <1> QED BY <1>1, <1>2, <1>3, PTL DEF PageSpec

-----------------------------------------------------------------------------
(* The targets of an entry                                                  *)

\* A target as the graph element that it stands for determines it.
TargetAt(l, kind, t) ==
    \/ /\ kind[1] = "network.request"
       /\ \E k \in Paired[l].links : t = [source |-> k[1], target |-> k[2], name |-> BlankText, graph |-> k]
    \/ /\ kind[1] = "network.response"
       /\ \E k \in Paired[l].links : t = [source |-> k[2], target |-> k[1], name |-> BlankText, graph |-> k]
    \/ /\ kind[1] = "message.delivery"
       /\ \E s \in Paired[l].subscriptions : t = [source |-> BlankText, target |-> s[2], name |-> s[1], graph |-> s]
    \/ /\ kind[1] = "database.commit"
       /\ \E d \in Paired[l].databases :
             t = [source |-> BlankText, target |-> BlankText, name |-> d, graph |-> <<"resource", "db", d>>]
    \/ /\ kind[1] = "scheduled" /\ kind = <<"scheduled", "crash">>
       /\ \E c \in Paired[l].services : t = [source |-> BlankText, target |-> c, name |-> BlankText, graph |-> <<c>>]
    \/ /\ kind[1] = "scheduled" /\ kind # <<"scheduled", "crash">>
       /\ \E c \in Paired[l].externals : t = [source |-> BlankText, target |-> c, name |-> BlankText, graph |-> <<c>>]

LEMMA CrashIsScheduled == ASSUME NEW kind, kind = <<"scheduled", "crash">> PROVE kind[1] = "scheduled"
  OBVIOUS

LEMMA TargetsAre ==
  ASSUME TextAssumption, NEW l \in DOMAIN Paired, NEW kind, NEW t
  PROVE t \in Panels!TargetOptions(l, kind) <=> kind \in Paired[l].kinds /\ TargetAt(l, kind, t)
  <1> DEFINE p == kind[1]
  <1>1. CASE kind \notin Paired[l].kinds
    BY <1>1 DEF Panels!TargetOptions
  <1>2. CASE kind \in Paired[l].kinds
    <2>1. p \in {"network.request", "network.response", "message.delivery", "database.commit", "scheduled"}
      BY <1>2 DEF TextAssumption, Panels!LessonsNamed
    <2>2. kind = <<"scheduled", "crash">> => p = "scheduled"
      BY CrashIsScheduled
    <2>3. CASE p = "network.request"
      <3>1. Panels!TargetOptions(l, kind) = {Panels!Target(k[1], k[2], BlankText, k) : k \in Paired[l].links}
        BY <1>2, <2>3 DEF Panels!TargetOptions
      <3> QED BY <1>2, <2>3, <3>1 DEF TargetAt, Panels!Target
    <2>4. CASE p = "network.response"
      <3>1. Panels!TargetOptions(l, kind) = {Panels!Target(k[2], k[1], BlankText, k) : k \in Paired[l].links}
        BY <1>2, <2>4 DEF Panels!TargetOptions
      <3> QED BY <1>2, <2>4, <3>1 DEF TargetAt, Panels!Target
    <2>5. CASE p = "message.delivery"
      <3>1. Panels!TargetOptions(l, kind) = {Panels!Target(BlankText, s[2], s[1], s) : s \in Paired[l].subscriptions}
        BY <1>2, <2>5 DEF Panels!TargetOptions
      <3> QED BY <1>2, <2>5, <3>1 DEF TargetAt, Panels!Target
    <2>6. CASE p = "database.commit"
      <3>1. Panels!TargetOptions(l, kind) = {Panels!Target(BlankText, BlankText, d, Panels!DatabaseNode(d)) : d \in Paired[l].databases}
        BY <1>2, <2>6 DEF Panels!TargetOptions
      <3> QED BY <1>2, <2>6, <3>1 DEF TargetAt, Panels!Target, Panels!DatabaseNode
    <2>7. CASE p = "scheduled" /\ kind = <<"scheduled", "crash">>
      <3>1. Panels!TargetOptions(l, kind) = {Panels!Target(BlankText, c, BlankText, <<c>>) : c \in Paired[l].services}
        BY <1>2, <2>7 DEF Panels!TargetOptions
      <3> QED BY <1>2, <2>7, <3>1 DEF TargetAt, Panels!Target
    <2>8. CASE p = "scheduled" /\ kind # <<"scheduled", "crash">>
      <3>1. Panels!TargetOptions(l, kind) = {Panels!Target(BlankText, c, BlankText, <<c>>) : c \in Paired[l].externals}
        BY <1>2, <2>8 DEF Panels!TargetOptions
      <3> QED BY <1>2, <2>8, <3>1 DEF TargetAt, Panels!Target
    <2> QED BY <2>1, <2>3, <2>4, <2>5, <2>6, <2>7, <2>8
  <1> QED BY <1>1, <1>2

\* What names a target: nothing of a link or component is empty.
LEMMA NamesAre ==
  ASSUME TextAssumption, NEW l \in DOMAIN Paired
  PROVE /\ \A k \in Paired[l].links : k = <<k[1], k[2]>> /\ k[1] # BlankText /\ k[2] # BlankText
        /\ \A k \in Paired[l].subscriptions : k = <<k[1], k[2]>> /\ k[1] # BlankText /\ k[2] # BlankText
        /\ BlankText \notin Paired[l].databases /\ BlankText \notin Paired[l].services /\ BlankText \notin Paired[l].externals
  BY DEF TextAssumption, Panels!LessonsNamed

\* The graph element determines the target, and so do its three fields.
LEMMA OneTarget ==
  ASSUME TextAssumption, NEW l \in DOMAIN Paired, NEW kind,
         NEW t \in Panels!TargetOptions(l, kind), NEW u \in Panels!TargetOptions(l, kind), t.graph = u.graph
  PROVE t = u
  <1>1. TargetAt(l, kind, t) /\ TargetAt(l, kind, u)
    BY TargetsAre
  <1>2. \A c, d : <<c>> = <<d>> => c = d
    OBVIOUS
  <1>3. \A c, d : <<"resource", "db", c>> = <<"resource", "db", d>> => c = d
    OBVIOUS
  <1> QED BY <1>1, <1>2, <1>3 DEF TargetAt

LEMMA SameTarget ==
  ASSUME TextAssumption, NEW l \in DOMAIN Paired, NEW m \in DOMAIN Paired, NEW kind,
         NEW t \in Panels!TargetOptions(l, kind), NEW u \in Panels!TargetOptions(m, kind),
         t.source = u.source, t.target = u.target, t.name = u.name
  PROVE t = u
  <1>1. TargetAt(l, kind, t) /\ TargetAt(m, kind, u)
    BY TargetsAre
  <1>2. CASE kind[1] \in {"network.request", "network.response"}
    <2>1. PICK k \in Paired[l].links : t.graph = k /\ t = [source |-> t.source, target |-> t.target, name |-> BlankText, graph |-> k]
               /\ IF kind[1] = "network.request" THEN t.source = k[1] /\ t.target = k[2] ELSE t.source = k[2] /\ t.target = k[1]
      BY <1>1, <1>2 DEF TargetAt
    <2>2. PICK j \in Paired[m].links : u.graph = j /\ u = [source |-> u.source, target |-> u.target, name |-> BlankText, graph |-> j]
               /\ IF kind[1] = "network.request" THEN u.source = j[1] /\ u.target = j[2] ELSE u.source = j[2] /\ u.target = j[1]
      BY <1>1, <1>2 DEF TargetAt
    <2>3. k[1] = j[1] /\ k[2] = j[2]
      BY <2>1, <2>2
    <2>4. k = j
      BY <2>3, NamesAre
    <2> QED BY <2>1, <2>2, <2>4
  <1>3. CASE kind[1] = "message.delivery"
    <2>1. PICK k \in Paired[l].subscriptions : t = [source |-> BlankText, target |-> k[2], name |-> k[1], graph |-> k]
      BY <1>1, <1>3 DEF TargetAt
    <2>2. PICK j \in Paired[m].subscriptions : u = [source |-> BlankText, target |-> j[2], name |-> j[1], graph |-> j]
      BY <1>1, <1>3 DEF TargetAt
    <2>3. k[1] = j[1] /\ k[2] = j[2]
      BY <2>1, <2>2
    <2>4. k = j
      BY <2>3, NamesAre
    <2> QED BY <2>1, <2>2, <2>4
  <1>4. CASE kind[1] \notin {"network.request", "network.response", "message.delivery"}
    BY <1>1, <1>4 DEF TargetAt
  <1> QED BY <1>2, <1>3, <1>4

\* A kind whose targets have names is one in every lesson.
OwnName(kind) == \A l \in DOMAIN Paired : \A t \in Panels!TargetOptions(l, kind) : t.name # BlankText

LEMMA NamedKind ==
  ASSUME TextAssumption, NEW l \in DOMAIN Paired, NEW kind, NEW t \in Panels!TargetOptions(l, kind), t.name # BlankText
  PROVE OwnName(kind) /\ ~Panels!Scheduled(kind) /\ kind[1] \in {"message.delivery", "database.commit"}
  <1>1. kind[1] \in {"message.delivery", "database.commit"}
    BY TargetsAre DEF TargetAt
  <1>2. OwnName(kind)
    <2> SUFFICES ASSUME NEW m \in DOMAIN Paired, NEW u \in Panels!TargetOptions(m, kind) PROVE u.name # BlankText
      BY DEF OwnName
    <2>1. TargetAt(m, kind, u)
      BY TargetsAre
    <2>2. CASE kind[1] = "message.delivery"
      <3>1. PICK k \in Paired[m].subscriptions : u.name = k[1]
        BY <2>1, <2>2 DEF TargetAt
      <3> QED BY <3>1, NamesAre
    <2>3. CASE kind[1] = "database.commit"
      <3>1. PICK d \in Paired[m].databases : u.name = d
        BY <2>1, <2>3 DEF TargetAt
      <3> QED BY <3>1, NamesAre
    <2> QED BY <1>1, <2>2, <2>3
  <1> QED BY <1>1, <1>2 DEF Panels!Scheduled

-----------------------------------------------------------------------------
(* What the form builds, and the form of what it built                      *)

Endpoint(name) == name = BlankText \/ name \in Typable.endpoint

\* An entry of a kind and a target.
BuiltFor(e, t) ==
    /\ e = [id |-> e.id, kind |-> e.kind, source |-> t.source, target |-> t.target, number |-> e.number,
            name |-> e.name, until |-> e.until, probability |-> e.probability, state |-> e.state]
    /\ e.number \notin {BlankText, JunkText}
    /\ Panels!Scheduled(e.kind) =>
          /\ e.name = t.name /\ e.until = BlankText /\ e.probability = BlankText
          /\ e.state = BlankText <=> e.kind[2] # "external-availability"
    /\ ~Panels!Scheduled(e.kind) =>
          /\ IF t.name = BlankText THEN Endpoint(e.name) ELSE e.name = t.name
          /\ e.until # JunkText /\ e.state = BlankText
          /\ \E p \in Written : e.probability = Denoted[p]
Built(e) == \E l \in DOMAIN Paired : \E t \in Panels!TargetOptions(l, e.kind) : BuiltFor(e, t)

\* A form, in which an endpoint is one that may be typed or is not asked for.
KeptForm(f) ==
    /\ f = [kind |-> f.kind, target |-> f.target, endpoint |-> f.endpoint, number |-> f.number, until |-> f.until,
            probability |-> f.probability, state |-> f.state]
    /\ f.state # BlankText
    /\ Endpoint(f.endpoint) \/ OwnName(f.kind)

\* Records with some fields replaced.
LEMMA EntryWithState ==
  ASSUME NEW id, NEW kind, NEW source, NEW target, NEW number, NEW name, NEW until, NEW probability, NEW state, NEW s,
         NEW e, e = [id |-> id, kind |-> kind, source |-> source, target |-> target, number |-> number,
                     name |-> name, until |-> until, probability |-> probability, state |-> state],
         NEW r, r = [e EXCEPT !.state = s]
  PROVE r = [id |-> id, kind |-> kind, source |-> source, target |-> target, number |-> number,
                 name |-> name, until |-> until, probability |-> probability, state |-> s]
  OBVIOUS

LEMMA EntryWithMatcher ==
  ASSUME NEW id, NEW kind, NEW source, NEW target, NEW number, NEW name, NEW until, NEW probability, NEW state,
         NEW n, NEW u, NEW p,
         NEW e, e = [id |-> id, kind |-> kind, source |-> source, target |-> target, number |-> number,
                     name |-> name, until |-> until, probability |-> probability, state |-> state],
         NEW r, r = [e EXCEPT !.name = n, !.until = u, !.probability = p]
  PROVE r = [id |-> id, kind |-> kind, source |-> source, target |-> target, number |-> number,
                 name |-> n, until |-> u, probability |-> p, state |-> state]
  OBVIOUS

LEMMA FormWithState ==
  ASSUME NEW kind, NEW target, NEW endpoint, NEW number, NEW until, NEW probability, NEW state, NEW s,
         NEW f, f = [kind |-> kind, target |-> target, endpoint |-> endpoint, number |-> number, until |-> until,
                     probability |-> probability, state |-> state],
         NEW r, r = [f EXCEPT !.state = s]
  PROVE r = [kind |-> kind, target |-> target, endpoint |-> endpoint, number |-> number, until |-> until,
                 probability |-> probability, state |-> s]
  OBVIOUS

LEMMA FormWithKind ==
  ASSUME NEW kind, NEW target, NEW endpoint, NEW number, NEW until, NEW probability, NEW state, NEW k, NEW g, NEW m,
         NEW f, f = [kind |-> kind, target |-> target, endpoint |-> endpoint, number |-> number, until |-> until,
                     probability |-> probability, state |-> state],
         NEW r, r = [f EXCEPT !.kind = k, !.number = m, !.target = g]
  PROVE r = [kind |-> k, target |-> g, endpoint |-> endpoint, number |-> m, until |-> until,
                 probability |-> probability, state |-> state]
  OBVIOUS

LEMMA FormWithMatcher ==
  ASSUME NEW kind, NEW target, NEW endpoint, NEW number, NEW until, NEW probability, NEW state, NEW n, NEW u, NEW p,
         NEW f, f = [kind |-> kind, target |-> target, endpoint |-> endpoint, number |-> number, until |-> until,
                     probability |-> probability, state |-> state],
         NEW r, r = [f EXCEPT !.endpoint = n, !.until = u, !.probability = p]
  PROVE r = [kind |-> kind, target |-> target, endpoint |-> n, number |-> number, until |-> u,
                 probability |-> p, state |-> state]
  OBVIOUS

LEMMA FormKeeps ==
  ASSUME NEW kind, NEW target, NEW endpoint, NEW number, NEW until, NEW probability, NEW state,
         NEW f, f = [kind |-> kind, target |-> target, endpoint |-> endpoint, number |-> number, until |-> until,
                     probability |-> probability, state |-> state],
         state # BlankText, Endpoint(endpoint) \/ OwnName(kind)
  PROVE KeptForm(f)
  BY DEF KeptForm

LEMMA BuildIs ==
  ASSUME NEW l, NEW f, NEW id, NEW t, t = (CHOOSE x \in Panels!TargetOptions(l, f.kind) : x.graph = f.target),
         NEW e, e = Panels!BuildEntry(l, f, id)
  PROVE /\ Panels!Scheduled(f.kind) =>
             e = [id |-> id, kind |-> f.kind, source |-> t.source, target |-> t.target, number |-> f.number,
                  name |-> t.name, until |-> BlankText, probability |-> BlankText,
                  state |-> IF f.kind[2] = "external-availability" THEN f.state ELSE BlankText]
        /\ ~Panels!Scheduled(f.kind) =>
             e = [id |-> id, kind |-> f.kind, source |-> t.source, target |-> t.target, number |-> f.number,
                  name |-> IF t.name = BlankText THEN f.endpoint ELSE t.name, until |-> f.until,
                  probability |-> Denoted[f.probability], state |-> BlankText]
  <1> DEFINE entry == [id |-> id, kind |-> f.kind, source |-> t.source, target |-> t.target, number |-> f.number,
                       name |-> t.name, until |-> BlankText, probability |-> BlankText, state |-> BlankText]
             s == IF f.kind[2] = "external-availability" THEN f.state ELSE BlankText
             n == IF t.name = BlankText THEN f.endpoint ELSE t.name
             p == Denoted[f.probability]
             u == f.until
             timed == [entry EXCEPT !.state = s]
             probed == [entry EXCEPT !.name = n, !.until = u, !.probability = p]
  <1>1. e = IF Panels!Scheduled(f.kind) THEN timed ELSE probed
    BY DEF Panels!BuildEntry
  <1>2. timed = [entry EXCEPT !.state = s] /\ probed = [entry EXCEPT !.name = n, !.until = u, !.probability = p]
    OBVIOUS
  <1>3. entry = [id |-> id, kind |-> f.kind, source |-> t.source, target |-> t.target, number |-> f.number,
                 name |-> t.name, until |-> BlankText, probability |-> BlankText, state |-> BlankText]
    OBVIOUS
  <1> HIDE DEF timed, probed, entry, s, n, p, u
  <1>4. timed = [id |-> id, kind |-> f.kind, source |-> t.source, target |-> t.target, number |-> f.number,
                 name |-> t.name, until |-> BlankText, probability |-> BlankText, state |-> s]
    BY <1>2, <1>3, EntryWithState
  <1>5. probed = [id |-> id, kind |-> f.kind, source |-> t.source, target |-> t.target, number |-> f.number,
                  name |-> n, until |-> u, probability |-> p, state |-> BlankText]
    BY <1>2, <1>3, EntryWithMatcher
  <1> QED BY <1>1, <1>4, <1>5 DEF s, n, p, u

\* What is built of a form without errors.
LEMMA BuildIsBuilt ==
  ASSUME TextAssumption, NEW l \in DOMAIN Paired, NEW f, KeptForm(f), ~Panels!FormErrors(l, f),
         NEW id, NEW e, e = Panels!BuildEntry(l, f, id)
  PROVE e.id = id /\ Built(e)
  <1> DEFINE t == CHOOSE x \in Panels!TargetOptions(l, f.kind) : x.graph = f.target
  <1>1. t \in Panels!TargetOptions(l, f.kind) /\ t.graph = f.target
    BY DEF Panels!FormErrors
  <1>2. f.number \notin {BlankText, JunkText}
    BY DEF Panels!FormErrors
  <1>3. ~Panels!Scheduled(f.kind) => f.until # JunkText /\ f.probability \in Written
    BY DEF Panels!FormErrors
  <1>4. /\ Panels!Scheduled(f.kind) =>
             e = [id |-> id, kind |-> f.kind, source |-> t.source, target |-> t.target, number |-> f.number,
                  name |-> t.name, until |-> BlankText, probability |-> BlankText,
                  state |-> IF f.kind[2] = "external-availability" THEN f.state ELSE BlankText]
        /\ ~Panels!Scheduled(f.kind) =>
             e = [id |-> id, kind |-> f.kind, source |-> t.source, target |-> t.target, number |-> f.number,
                  name |-> IF t.name = BlankText THEN f.endpoint ELSE t.name, until |-> f.until,
                  probability |-> Denoted[f.probability], state |-> BlankText]
    BY BuildIs
  <1>5. f.state # BlankText /\ (Endpoint(f.endpoint) \/ OwnName(f.kind))
    BY DEF KeptForm
  <1> HIDE DEF t
  <1>6. e.id = id /\ e.kind = f.kind
    BY <1>4
  <1>7. CASE Panels!Scheduled(f.kind)
    <2>1. e = [id |-> id, kind |-> f.kind, source |-> t.source, target |-> t.target, number |-> f.number,
                  name |-> t.name, until |-> BlankText, probability |-> BlankText,
                  state |-> IF f.kind[2] = "external-availability" THEN f.state ELSE BlankText]
      BY <1>4, <1>7
    <2>2. BuiltFor(e, t)
      BY <1>2, <1>5, <1>7, <2>1 DEF BuiltFor
    <2> QED BY <1>1, <1>6, <2>2 DEF Built
  <1>8. CASE ~Panels!Scheduled(f.kind)
    <2>1. e = [id |-> id, kind |-> f.kind, source |-> t.source, target |-> t.target, number |-> f.number,
                  name |-> IF t.name = BlankText THEN f.endpoint ELSE t.name, until |-> f.until,
                  probability |-> Denoted[f.probability], state |-> BlankText]
      BY <1>4, <1>8
    <2>2. t.name = BlankText => Endpoint(f.endpoint)
      BY <1>1, <1>5 DEF OwnName
    <2>3. BuiltFor(e, t)
      BY <1>2, <1>3, <1>8, <2>1, <2>2 DEF BuiltFor
    <2> QED BY <1>1, <1>6, <2>3 DEF Built
  <1> QED BY <1>6, <1>7, <1>8

\* The target the form shows for an entry.
Fits(l, e) == {t \in Panels!TargetOptions(l, e.kind) :
                 /\ t.target = e.target
                 /\ Panels!Scheduled(e.kind) \/ (t.source = e.source /\ t.name \in {BlankText, e.name})}
Fit(l, e) == CHOOSE x \in Fits(l, e) : TRUE
FormGraph(l, e) == IF Fits(l, e) = {} THEN BlankText ELSE Fit(l, e).graph
FormEndpoint(l, e) == IF Fits(l, e) # {} /\ Fit(l, e).name # BlankText THEN BlankText ELSE e.name
FormState(e) == IF e.state = BlankText THEN "UNAVAILABLE" ELSE e.state

LEMMA FormIs ==
  ASSUME NEW l, NEW e, NEW f, f = Panels!FormFromEntry(l, e)
  PROVE /\ Panels!Scheduled(e.kind) =>
             f = [kind |-> e.kind, target |-> FormGraph(l, e), endpoint |-> BlankText,
                  number |-> e.number, until |-> BlankText, probability |-> "1", state |-> FormState(e)]
        /\ ~Panels!Scheduled(e.kind) =>
             f = [kind |-> e.kind, target |-> FormGraph(l, e), endpoint |-> FormEndpoint(l, e),
                  number |-> e.number, until |-> e.until, probability |-> Printed[e.probability], state |-> "UNAVAILABLE"]
  <1> DEFINE f0 == Panels!EmptyForm
             g == FormGraph(l, e)
             n == FormEndpoint(l, e)
             p == Printed[e.probability]
             s == FormState(e)
             k == e.kind
             m == e.number
             u == e.until
             kept == [f0 EXCEPT !.kind = k, !.number = m, !.target = g]
             timed == [kept EXCEPT !.state = s]
             probed == [kept EXCEPT !.endpoint = n, !.until = u, !.probability = p]
  <1>1. f = IF Panels!Scheduled(e.kind) THEN [kept EXCEPT !.state = IF e.state = BlankText THEN @ ELSE e.state] ELSE probed
    BY DEF Panels!FormFromEntry, FormGraph, FormEndpoint, Fit, Fits
  <1>2. /\ kept = [f0 EXCEPT !.kind = k, !.number = m, !.target = g] /\ timed = [kept EXCEPT !.state = s]
        /\ probed = [kept EXCEPT !.endpoint = n, !.until = u, !.probability = p]
    OBVIOUS
  <1>3. f0 = [kind |-> BlankText, target |-> BlankText, endpoint |-> BlankText, number |-> 1, until |-> BlankText,
              probability |-> "1", state |-> "UNAVAILABLE"]
    BY DEF Panels!EmptyForm
  <1> HIDE DEF f0, kept, timed, probed, g, n, p, s, k, m, u
  <1>4. kept = [kind |-> k, target |-> g, endpoint |-> BlankText, number |-> m, until |-> BlankText,
                probability |-> "1", state |-> "UNAVAILABLE"]
    BY <1>2, <1>3, FormWithKind
  <1>5. (IF e.state = BlankText THEN kept.state ELSE e.state) = s
    BY <1>4 DEF s, FormState
  <1>6. [kept EXCEPT !.state = IF e.state = BlankText THEN @ ELSE e.state] = timed
    BY <1>2, <1>5
  <1> DEFINE one == "1"
             down == "UNAVAILABLE"
  <1>7. kept = [kind |-> k, target |-> g, endpoint |-> BlankText, number |-> m, until |-> BlankText,
                probability |-> one, state |-> down]
    BY <1>4
  <1>8. timed = [kept EXCEPT !.state = s]
    BY <1>2
  <1>9. probed = [kept EXCEPT !.endpoint = n, !.until = u, !.probability = p]
    BY <1>2
  <1> HIDE DEF one, down
  <1>10. timed = [kind |-> k, target |-> g, endpoint |-> BlankText, number |-> m, until |-> BlankText,
                  probability |-> one, state |-> s]
    BY <1>7, <1>8, FormWithState
  <1>11. probed = [kind |-> k, target |-> g, endpoint |-> n, number |-> m, until |-> u, probability |-> p, state |-> down]
    BY <1>7, <1>9, FormWithMatcher
  <1> QED BY <1>1, <1>6, <1>10, <1>11 DEF g, n, p, s, k, m, u, one, down

LEMMA FormIsKept ==
  ASSUME TextAssumption, NEW l, NEW e, Built(e), NEW f, f = Panels!FormFromEntry(l, e)
  PROVE KeptForm(f)
  <1>1. /\ Panels!Scheduled(e.kind) =>
             f = [kind |-> e.kind, target |-> FormGraph(l, e), endpoint |-> BlankText,
                  number |-> e.number, until |-> BlankText, probability |-> "1", state |-> FormState(e)]
        /\ ~Panels!Scheduled(e.kind) =>
             f = [kind |-> e.kind, target |-> FormGraph(l, e), endpoint |-> FormEndpoint(l, e),
                  number |-> e.number, until |-> e.until, probability |-> Printed[e.probability], state |-> "UNAVAILABLE"]
    BY FormIs
  <1>2. "UNAVAILABLE" # BlankText /\ FormState(e) # BlankText
    BY DEF TextAssumption, Panels!TextsRead, Panels!EmptyForm, FormState
  <1>3. PICK m \in DOMAIN Paired : \E u \in Panels!TargetOptions(m, e.kind) : BuiltFor(e, u)
    BY DEF Built
  <1>4. PICK u \in Panels!TargetOptions(m, e.kind) : BuiltFor(e, u)
    BY <1>3
  <1>5. ~Panels!Scheduled(e.kind) => Endpoint(e.name) \/ OwnName(e.kind)
    BY <1>4, NamedKind DEF BuiltFor
  <1>6. Endpoint(BlankText)
    BY DEF Endpoint
  <1>7. ~Panels!Scheduled(e.kind) => Endpoint(FormEndpoint(l, e)) \/ OwnName(e.kind)
    BY <1>5, <1>6 DEF FormEndpoint
  <1>8. CASE Panels!Scheduled(e.kind)
    BY <1>1, <1>2, <1>6, <1>8, FormKeeps
  <1>9. CASE ~Panels!Scheduled(e.kind)
    BY <1>1, <1>2, <1>7, <1>9, FormKeeps
  <1> QED BY <1>8, <1>9

-----------------------------------------------------------------------------
(* An entry of the lesson: through the form and back, and where it hits     *)

LEMMA MarksAre ==
  ASSUME NEW l, NEW e, NEW x, x \in Panels!FaultMarks(l, e)
  PROVE /\ e.kind[1] = "scheduled" => x = <<e.target>>
        /\ e.kind[1] = "database.commit" =>
             \E d \in Paired[l].databases : x = <<"resource", "db", d>> /\ e.name \in {BlankText, d}
        /\ e.kind[1] = "message.delivery" =>
             x \in Paired[l].subscriptions /\ e.name \in {BlankText, x[1]} /\ e.target \in {BlankText, x[2]}
        /\ e.kind[1] = "network.response" =>
             x \in Paired[l].links /\ e.source \in {BlankText, x[2]} /\ e.target \in {BlankText, x[1]}
        /\ e.kind[1] = "network.request" =>
             x \in Paired[l].links /\ e.source \in {BlankText, x[1]} /\ e.target \in {BlankText, x[2]}
  BY DEF Panels!FaultMarks, Panels!Scheduled, Panels!DatabaseNode

\* What an entry tells of its target.
LEMMA BuiltNames ==
  ASSUME TextAssumption, NEW m \in DOMAIN Paired, NEW e, NEW u \in Panels!TargetOptions(m, e.kind), BuiltFor(e, u)
  PROVE /\ e.source = u.source /\ e.target = u.target
        /\ u.name # BlankText => e.name = u.name
        /\ e.kind[1] \in {"network.request", "network.response"} =>
             u.source # BlankText /\ u.target # BlankText /\ u.name = BlankText
        /\ e.kind[1] = "message.delivery" => u.source = BlankText /\ u.target # BlankText /\ u.name # BlankText
        /\ e.kind[1] = "database.commit" => u.source = BlankText /\ u.target = BlankText /\ u.name # BlankText
        /\ e.kind[1] = "scheduled" => u.source = BlankText /\ u.name = BlankText
        /\ e.kind[1] \in {"network.request", "network.response", "message.delivery", "database.commit", "scheduled"}
        /\ Panels!Scheduled(e.kind) <=> e.kind[1] = "scheduled"
  <1>1. TargetAt(m, e.kind, u)
    BY TargetsAre
  <1>2. e.source = u.source /\ e.target = u.target
    BY DEF BuiltFor
  <1>3. u.name # BlankText => e.name = u.name
    BY DEF BuiltFor
  <1>4. Panels!Scheduled(e.kind) <=> e.kind[1] = "scheduled"
    BY DEF Panels!Scheduled
  <1>5. e.kind[1] \in {"network.request", "network.response", "message.delivery", "database.commit", "scheduled"}
    BY <1>1 DEF TargetAt
  <1>6. CASE e.kind[1] \in {"network.request", "network.response"}
    <2>1. PICK k \in Paired[m].links : u.name = BlankText /\ {u.source, u.target} = {k[1], k[2]}
      BY <1>1, <1>6 DEF TargetAt
    <2>2. k[1] # BlankText /\ k[2] # BlankText
      BY NamesAre
    <2> QED BY <1>2, <1>3, <1>4, <1>5, <1>6, <2>1, <2>2
  <1>7. CASE e.kind[1] = "message.delivery"
    <2>1. PICK k \in Paired[m].subscriptions : u.source = BlankText /\ u.target = k[2] /\ u.name = k[1]
      BY <1>1, <1>7 DEF TargetAt
    <2>2. k[1] # BlankText /\ k[2] # BlankText
      BY NamesAre
    <2> QED BY <1>2, <1>3, <1>4, <1>5, <1>7, <2>1, <2>2
  <1>8. CASE e.kind[1] = "database.commit"
    <2>1. PICK d \in Paired[m].databases : u.source = BlankText /\ u.target = BlankText /\ u.name = d
      BY <1>1, <1>8 DEF TargetAt
    <2>2. d # BlankText
      BY NamesAre
    <2> QED BY <1>2, <1>3, <1>4, <1>5, <1>8, <2>1, <2>2
  <1>9. CASE e.kind[1] = "scheduled"
    <2>1. u.source = BlankText /\ u.name = BlankText
      BY <1>1, <1>9 DEF TargetAt
    <2> QED BY <1>2, <1>3, <1>4, <1>5, <1>9, <2>1
  <1> QED BY <1>5, <1>6, <1>7, <1>8, <1>9

LEMMA MarkedTarget ==
  ASSUME TextAssumption, NEW l \in DOMAIN Paired, NEW m \in DOMAIN Paired, NEW e,
         NEW u \in Panels!TargetOptions(m, e.kind), BuiltFor(e, u),
         NEW t \in Panels!TargetOptions(l, e.kind), t.graph \in Panels!FaultMarks(l, e)
  PROVE t = u
  <1> DEFINE x == t.graph
  <1>1. TargetAt(l, e.kind, t)
    BY TargetsAre
  <1>2. /\ e.source = u.source /\ e.target = u.target
        /\ u.name # BlankText => e.name = u.name
        /\ e.kind[1] \in {"network.request", "network.response"} =>
             u.source # BlankText /\ u.target # BlankText /\ u.name = BlankText
        /\ e.kind[1] = "message.delivery" => u.source = BlankText /\ u.target # BlankText /\ u.name # BlankText
        /\ e.kind[1] = "database.commit" => u.source = BlankText /\ u.target = BlankText /\ u.name # BlankText
        /\ e.kind[1] = "scheduled" => u.source = BlankText /\ u.name = BlankText
        /\ e.kind[1] \in {"network.request", "network.response", "message.delivery", "database.commit", "scheduled"}
    BY BuiltNames
  <1>3. /\ e.kind[1] = "scheduled" => x = <<e.target>>
        /\ e.kind[1] = "database.commit" =>
             \E d \in Paired[l].databases : x = <<"resource", "db", d>> /\ e.name \in {BlankText, d}
        /\ e.kind[1] = "message.delivery" => e.name \in {BlankText, x[1]} /\ e.target \in {BlankText, x[2]}
        /\ e.kind[1] = "network.response" => e.source \in {BlankText, x[2]} /\ e.target \in {BlankText, x[1]}
        /\ e.kind[1] = "network.request" => e.source \in {BlankText, x[1]} /\ e.target \in {BlankText, x[2]}
    BY MarksAre
  <1>4. t.source = u.source /\ t.target = u.target /\ t.name = u.name
    <2>1. CASE e.kind[1] = "network.request"
      <3>1. t.source = x[1] /\ t.target = x[2] /\ t.name = BlankText
        BY <1>1, <2>1 DEF TargetAt
      <3> QED BY <1>2, <1>3, <2>1, <3>1
    <2>2. CASE e.kind[1] = "network.response"
      <3>1. t.source = x[2] /\ t.target = x[1] /\ t.name = BlankText
        BY <1>1, <2>2 DEF TargetAt
      <3> QED BY <1>2, <1>3, <2>2, <3>1
    <2>3. CASE e.kind[1] = "message.delivery"
      <3>1. t.source = BlankText /\ t.target = x[2] /\ t.name = x[1]
        BY <1>1, <2>3 DEF TargetAt
      <3> QED BY <1>2, <1>3, <2>3, <3>1
    <2>4. CASE e.kind[1] = "database.commit"
      <3>1. t.source = BlankText /\ t.target = BlankText /\ x = <<"resource", "db", t.name>>
        BY <1>1, <2>4 DEF TargetAt
      <3>2. PICK d \in Paired[l].databases : x = <<"resource", "db", d>> /\ e.name \in {BlankText, d}
        BY <1>3, <2>4
      <3>3. \A c, b : <<"resource", "db", c>> = <<"resource", "db", b>> => c = b
        OBVIOUS
      <3>4. t.name = d
        BY <3>1, <3>2, <3>3
      <3> QED BY <1>2, <2>4, <3>1, <3>2, <3>4
    <2>5. CASE e.kind[1] = "scheduled"
      <3>1. t.source = BlankText /\ t.name = BlankText /\ x = <<t.target>>
        BY <1>1, <2>5 DEF TargetAt
      <3>2. \A c, b : <<c>> = <<b>> => c = b
        OBVIOUS
      <3>3. t.target = e.target
        BY <1>3, <2>5, <3>1, <3>2
      <3> QED BY <1>2, <2>5, <3>1, <3>3
    <2> QED BY <1>2, <2>1, <2>2, <2>3, <2>4, <2>5
  <1> QED BY <1>4, SameTarget

\* The one target the form finds.
LEMMA FitsOne ==
  ASSUME TextAssumption, NEW l \in DOMAIN Paired, NEW e, NEW u \in Panels!TargetOptions(l, e.kind), BuiltFor(e, u)
  PROVE Fits(l, e) # {} /\ Fit(l, e) = u
  <1>1. /\ e.source = u.source /\ e.target = u.target
        /\ u.name # BlankText => e.name = u.name
        /\ e.kind[1] \in {"network.request", "network.response"} => u.name = BlankText
        /\ e.kind[1] = "message.delivery" => u.name # BlankText
        /\ e.kind[1] = "database.commit" => u.name # BlankText
        /\ e.kind[1] = "scheduled" => u.source = BlankText /\ u.name = BlankText
        /\ e.kind[1] \in {"network.request", "network.response", "message.delivery", "database.commit", "scheduled"}
        /\ Panels!Scheduled(e.kind) <=> e.kind[1] = "scheduled"
    BY BuiltNames
  <1>2. u \in Fits(l, e)
    BY <1>1 DEF Fits
  <1>3. ASSUME NEW t \in Fits(l, e) PROVE t = u
    <2>1. t \in Panels!TargetOptions(l, e.kind)
      BY DEF Fits
    <2>2. t.target = e.target /\ (e.kind[1] = "scheduled" \/ (t.source = e.source /\ t.name \in {BlankText, e.name}))
      BY <1>1 DEF Fits
    <2>3. TargetAt(l, e.kind, t)
      BY <2>1, TargetsAre
    <2>4. CASE e.kind[1] \in {"network.request", "network.response"}
      <3>1. t.name = BlankText
        BY <2>3, <2>4 DEF TargetAt
      <3> QED BY <1>1, <2>1, <2>2, <2>4, <3>1, SameTarget
    <2>5. CASE e.kind[1] = "message.delivery"
      <3>1. t.name # BlankText
        <4>1. PICK k \in Paired[l].subscriptions : t.name = k[1]
          BY <2>3, <2>5 DEF TargetAt
        <4> QED BY <4>1, NamesAre
      <3>2. t.name = u.name
        BY <1>1, <2>2, <2>5, <3>1
      <3> QED BY <1>1, <2>1, <2>2, <2>5, <3>2, SameTarget
    <2>6. CASE e.kind[1] = "database.commit"
      <3>1. t.name # BlankText
        <4>1. PICK d \in Paired[l].databases : t.name = d
          BY <2>3, <2>6 DEF TargetAt
        <4> QED BY <4>1, NamesAre
      <3>2. t.name = u.name
        BY <1>1, <2>2, <2>6, <3>1
      <3> QED BY <1>1, <2>1, <2>2, <2>6, <3>2, SameTarget
    <2>7. CASE e.kind[1] = "scheduled"
      <3>1. t.name = BlankText /\ t.source = BlankText
        BY <2>3, <2>7 DEF TargetAt
      <3> QED BY <1>1, <2>1, <2>2, <2>7, <3>1, SameTarget
    <2> QED BY <1>1, <2>4, <2>5, <2>6, <2>7
  <1>4. Fit(l, e) \in Fits(l, e)
    BY <1>2 DEF Fit
  <1> QED BY <1>2, <1>3, <1>4

LEMMA RoundTrip ==
  ASSUME TextAssumption, NEW l \in DOMAIN Paired, NEW e, NEW u \in Panels!TargetOptions(l, e.kind), BuiltFor(e, u),
         Panels!Scheduled(e.kind) \/ Printed[e.probability] \in Written,
         NEW f, f = Panels!FormFromEntry(l, e)
  PROVE ~Panels!FormErrors(l, f) /\ Panels!BuildEntry(l, f, e.id) = e
  <1>1. Fits(l, e) # {} /\ Fit(l, e) = u
    BY FitsOne
  <1>2. FormGraph(l, e) = u.graph /\ FormEndpoint(l, e) = IF u.name # BlankText THEN BlankText ELSE e.name
    BY <1>1 DEF FormGraph, FormEndpoint
  <1>3. /\ Panels!Scheduled(e.kind) =>
             f = [kind |-> e.kind, target |-> FormGraph(l, e), endpoint |-> BlankText,
                  number |-> e.number, until |-> BlankText, probability |-> "1", state |-> FormState(e)]
        /\ ~Panels!Scheduled(e.kind) =>
             f = [kind |-> e.kind, target |-> FormGraph(l, e), endpoint |-> FormEndpoint(l, e),
                  number |-> e.number, until |-> e.until, probability |-> Printed[e.probability], state |-> "UNAVAILABLE"]
    BY FormIs
  <1>4. f.kind = e.kind /\ f.target = u.graph /\ f.number = e.number
    BY <1>2, <1>3
  <1>5. e.kind \in Paired[l].kinds
    BY TargetsAre
  <1>6. e.number \notin {BlankText, JunkText}
    BY DEF BuiltFor
  <1>7. ~Panels!Scheduled(e.kind) => f.until # JunkText /\ f.probability \in Written
    BY <1>3 DEF BuiltFor
  <1>8. ~Panels!FormErrors(l, f)
    BY <1>4, <1>5, <1>6, <1>7 DEF Panels!FormErrors
  <1> DEFINE t == CHOOSE x \in Panels!TargetOptions(l, f.kind) : x.graph = f.target
             b == Panels!BuildEntry(l, f, e.id)
  <1>9. t = u
    <2>1. t \in Panels!TargetOptions(l, e.kind) /\ t.graph = u.graph
      BY <1>4
    <2> HIDE DEF t
    <2> QED BY <2>1, OneTarget
  <1>10. /\ Panels!Scheduled(f.kind) =>
             b = [id |-> e.id, kind |-> f.kind, source |-> t.source, target |-> t.target, number |-> f.number,
                  name |-> t.name, until |-> BlankText, probability |-> BlankText,
                  state |-> IF f.kind[2] = "external-availability" THEN f.state ELSE BlankText]
         /\ ~Panels!Scheduled(f.kind) =>
             b = [id |-> e.id, kind |-> f.kind, source |-> t.source, target |-> t.target, number |-> f.number,
                  name |-> IF t.name = BlankText THEN f.endpoint ELSE t.name, until |-> f.until,
                  probability |-> Denoted[f.probability], state |-> BlankText]
    BY BuildIs
  <1> HIDE DEF t, b
  <1>11. e = [id |-> e.id, kind |-> e.kind, source |-> u.source, target |-> u.target, number |-> e.number,
              name |-> e.name, until |-> e.until, probability |-> e.probability, state |-> e.state]
    BY DEF BuiltFor
  <1>12. CASE Panels!Scheduled(e.kind)
    <2>1. e.name = u.name /\ e.until = BlankText /\ e.probability = BlankText
      BY <1>12 DEF BuiltFor
    <2>2. e.state = BlankText <=> e.kind[2] # "external-availability"
      BY <1>12 DEF BuiltFor
    <2>3. f.state = FormState(e)
      BY <1>3, <1>12
    <2>4. (IF e.kind[2] = "external-availability" THEN f.state ELSE BlankText) = e.state
      BY <2>2, <2>3 DEF FormState
    <2>5. b = [id |-> e.id, kind |-> e.kind, source |-> u.source, target |-> u.target, number |-> e.number,
               name |-> u.name, until |-> BlankText, probability |-> BlankText,
               state |-> IF e.kind[2] = "external-availability" THEN f.state ELSE BlankText]
      BY <1>4, <1>9, <1>10, <1>12
    <2>6. b = e
      BY <1>11, <2>1, <2>4, <2>5
    <2> QED BY <1>8, <2>6 DEF b
  <1>13. CASE ~Panels!Scheduled(e.kind)
    <2>1. /\ IF u.name = BlankText THEN Endpoint(e.name) ELSE e.name = u.name
          /\ e.state = BlankText
      BY <1>13 DEF BuiltFor
    <2>2. f.endpoint = (IF u.name # BlankText THEN BlankText ELSE e.name) /\ f.until = e.until /\ f.probability = Printed[e.probability]
      BY <1>2, <1>3, <1>13
    <2>3. (IF u.name = BlankText THEN f.endpoint ELSE u.name) = e.name
      BY <2>1, <2>2
    <2>4. PICK p \in Written : e.probability = Denoted[p]
      BY <1>13 DEF BuiltFor
    <2>5. Printed[e.probability] \in Written
      BY <1>13
    <2>6. Denoted[Printed[Denoted[p]]] = Denoted[p]
      BY <2>4, <2>5 DEF TextAssumption, Panels!TextsRead
    <2>7. Denoted[f.probability] = e.probability
      BY <2>2, <2>4, <2>6
    <2>8. b = [id |-> e.id, kind |-> e.kind, source |-> u.source, target |-> u.target, number |-> e.number,
               name |-> IF u.name = BlankText THEN f.endpoint ELSE u.name, until |-> f.until,
               probability |-> Denoted[f.probability], state |-> BlankText]
      BY <1>4, <1>9, <1>10, <1>13
    <2>9. b = e
      BY <1>11, <2>1, <2>2, <2>3, <2>7, <2>8
    <2> QED BY <1>8, <2>9 DEF b
  <1> QED BY <1>12, <1>13

\* Where the marks are is where the traffic of the lesson is hit.
Asking == (Typable.endpoint \ {BlankText}) \union {"other"}

LEMMA MarksAreHits ==
  ASSUME TextAssumption, NEW l \in DOMAIN Paired, NEW e, NEW u \in Panels!TargetOptions(l, e.kind), BuiltFor(e, u),
         ~Panels!Scheduled(e.kind)
  PROVE Panels!FaultMarks(l, e) = {p.on : p \in {q \in Panels!Traffic(l, Asking) : Panels!Hits(e, q)}}
  <1> DEFINE T == Panels!Traffic(l, Asking)
             H == {p.on : p \in {q \in T : Panels!Hits(e, q)}}
             M == Panels!FaultMarks(l, e)
             requests == {[point |-> "network.request", source |-> k[1], target |-> k[2], name |-> n, on |-> k] : k \in Paired[l].links, n \in Asking}
             responses == {[point |-> "network.response", source |-> k[2], target |-> k[1], name |-> n, on |-> k] : k \in Paired[l].links, n \in Asking}
             deliveries == {[point |-> "message.delivery", source |-> "publisher", target |-> s[2], name |-> s[1], on |-> s] : s \in Paired[l].subscriptions}
             commits == {[point |-> "database.commit", source |-> d, target |-> d, name |-> d, on |-> Panels!DatabaseNode(d)] : d \in Paired[l].databases}
  <1>1. T = requests \union responses \union deliveries \union commits
    BY DEF Panels!Traffic
  <1>2. \A x : x \in H <=> \E p \in T : Panels!Hits(e, p) /\ x = p.on
    OBVIOUS
  <1>3. \A p \in requests : p.point = "network.request" /\ p.on \in Paired[l].links /\ p.source = p.on[1] /\ p.target = p.on[2]
    OBVIOUS
  <1>4. \A p \in responses : p.point = "network.response" /\ p.on \in Paired[l].links /\ p.source = p.on[2] /\ p.target = p.on[1]
    OBVIOUS
  <1>5. \A p \in deliveries : p.point = "message.delivery" /\ p.on \in Paired[l].subscriptions /\ p.target = p.on[2] /\ p.name = p.on[1]
    OBVIOUS
  <1>6. \A p \in commits : p.point = "database.commit" /\ p.name \in Paired[l].databases /\ p.on = Panels!DatabaseNode(p.name)
    OBVIOUS
  <1>7. \A k \in Paired[l].links : \A n \in Asking : \E p \in requests : p.point = "network.request" /\ p.source = k[1] /\ p.target = k[2] /\ p.name = n /\ p.on = k
    <2> SUFFICES ASSUME NEW k \in Paired[l].links, NEW n \in Asking
                 PROVE \E p \in requests : p.point = "network.request" /\ p.source = k[1] /\ p.target = k[2] /\ p.name = n /\ p.on = k
      OBVIOUS
    <2> DEFINE p == [point |-> "network.request", source |-> k[1], target |-> k[2], name |-> n, on |-> k]
    <2>1. p \in requests
      OBVIOUS
    <2> QED BY <2>1
  <1>8. \A k \in Paired[l].links : \A n \in Asking : \E p \in responses : p.point = "network.response" /\ p.source = k[2] /\ p.target = k[1] /\ p.name = n /\ p.on = k
    <2> SUFFICES ASSUME NEW k \in Paired[l].links, NEW n \in Asking
                 PROVE \E p \in responses : p.point = "network.response" /\ p.source = k[2] /\ p.target = k[1] /\ p.name = n /\ p.on = k
      OBVIOUS
    <2> DEFINE p == [point |-> "network.response", source |-> k[2], target |-> k[1], name |-> n, on |-> k]
    <2>1. p \in responses
      OBVIOUS
    <2> QED BY <2>1
  <1>9. \A s \in Paired[l].subscriptions : \E p \in deliveries : p.point = "message.delivery" /\ p.target = s[2] /\ p.name = s[1] /\ p.on = s
    <2> SUFFICES ASSUME NEW s \in Paired[l].subscriptions
                 PROVE \E p \in deliveries : p.point = "message.delivery" /\ p.target = s[2] /\ p.name = s[1] /\ p.on = s
      OBVIOUS
    <2> DEFINE p == [point |-> "message.delivery", source |-> "publisher", target |-> s[2], name |-> s[1], on |-> s]
    <2>1. p \in deliveries
      OBVIOUS
    <2> QED BY <2>1
  <1>10. \A d \in Paired[l].databases : \E p \in commits : p.point = "database.commit" /\ p.name = d /\ p.on = Panels!DatabaseNode(d)
    <2> SUFFICES ASSUME NEW d \in Paired[l].databases
                 PROVE \E p \in commits : p.point = "database.commit" /\ p.name = d /\ p.on = Panels!DatabaseNode(d)
      OBVIOUS
    <2> DEFINE p == [point |-> "database.commit", source |-> d, target |-> d, name |-> d, on |-> Panels!DatabaseNode(d)]
    <2>1. p \in commits
      OBVIOUS
    <2> QED BY <2>1
  <1> HIDE DEF T, H, M, requests, responses, deliveries, commits
  <1>11. /\ e.source = u.source /\ e.target = u.target
         /\ u.name # BlankText => e.name = u.name
         /\ e.kind[1] \in {"network.request", "network.response"} => u.name = BlankText
         /\ e.kind[1] = "message.delivery" => u.source = BlankText
         /\ e.kind[1] = "database.commit" => u.source = BlankText /\ u.target = BlankText
         /\ e.kind[1] \in {"network.request", "network.response", "message.delivery", "database.commit", "scheduled"}
         /\ Panels!Scheduled(e.kind) <=> e.kind[1] = "scheduled"
    BY BuiltNames
  <1>12. u.name = BlankText => Endpoint(e.name)
    BY DEF BuiltFor
  <1>13. \A p : Panels!Hits(e, p) <=> /\ p.point = e.kind[1] /\ e.source \in {BlankText, p.source}
                                      /\ e.target \in {BlankText, p.target} /\ e.name \in {BlankText, p.name}
    BY DEF Panels!Hits
  <1>14. u.name = BlankText => \E n \in Asking : e.name \in {BlankText, n}
    BY <1>12 DEF Endpoint, Asking
  <1>15. CASE e.kind[1] = "network.request"
    <2>1. M = {k \in Paired[l].links : e.source \in {BlankText, k[1]} /\ e.target \in {BlankText, k[2]}}
      BY <1>15 DEF M, Panels!FaultMarks, Panels!Scheduled
    <2>2. PICK n \in Asking : e.name \in {BlankText, n}
      BY <1>11, <1>14, <1>15
    <2>3. \A x \in M : x \in H
      <3> SUFFICES ASSUME NEW x \in M PROVE x \in H
        OBVIOUS
      <3>1. x \in Paired[l].links /\ e.source \in {BlankText, x[1]} /\ e.target \in {BlankText, x[2]}
        BY <2>1
      <3>2. PICK p \in requests : p.point = "network.request" /\ p.source = x[1] /\ p.target = x[2] /\ p.name = n /\ p.on = x
        BY <1>7, <3>1
      <3>3. p \in T /\ Panels!Hits(e, p)
        BY <1>1, <1>13, <1>15, <2>2, <3>1, <3>2
      <3> QED BY <1>2, <3>2, <3>3
    <2>4. \A x \in H : x \in M
      <3> SUFFICES ASSUME NEW x \in H PROVE x \in M
        OBVIOUS
      <3>1. PICK p \in T : Panels!Hits(e, p) /\ x = p.on
        BY <1>2
      <3>2. p.point = "network.request" /\ e.source \in {BlankText, p.source} /\ e.target \in {BlankText, p.target}
        BY <1>13, <1>15, <3>1
      <3>3. p \in requests
        BY <1>1, <1>4, <1>5, <1>6, <3>2
      <3> QED BY <1>3, <2>1, <3>1, <3>2, <3>3
    <2> QED BY <2>3, <2>4 DEF M, H, T
  <1>16. CASE e.kind[1] = "network.response"
    <2>1. M = {k \in Paired[l].links : e.source \in {BlankText, k[2]} /\ e.target \in {BlankText, k[1]}}
      BY <1>16 DEF M, Panels!FaultMarks, Panels!Scheduled
    <2>2. PICK n \in Asking : e.name \in {BlankText, n}
      BY <1>11, <1>14, <1>16
    <2>3. \A x \in M : x \in H
      <3> SUFFICES ASSUME NEW x \in M PROVE x \in H
        OBVIOUS
      <3>1. x \in Paired[l].links /\ e.source \in {BlankText, x[2]} /\ e.target \in {BlankText, x[1]}
        BY <2>1
      <3>2. PICK p \in responses : p.point = "network.response" /\ p.source = x[2] /\ p.target = x[1] /\ p.name = n /\ p.on = x
        BY <1>8, <3>1
      <3>3. p \in T /\ Panels!Hits(e, p)
        BY <1>1, <1>13, <1>16, <2>2, <3>1, <3>2
      <3> QED BY <1>2, <3>2, <3>3
    <2>4. \A x \in H : x \in M
      <3> SUFFICES ASSUME NEW x \in H PROVE x \in M
        OBVIOUS
      <3>1. PICK p \in T : Panels!Hits(e, p) /\ x = p.on
        BY <1>2
      <3>2. p.point = "network.response" /\ e.source \in {BlankText, p.source} /\ e.target \in {BlankText, p.target}
        BY <1>13, <1>16, <3>1
      <3>3. p \in responses
        BY <1>1, <1>3, <1>5, <1>6, <3>2
      <3> QED BY <1>4, <2>1, <3>1, <3>2, <3>3
    <2> QED BY <2>3, <2>4 DEF M, H, T
  <1>17. CASE e.kind[1] = "message.delivery"
    <2>1. M = {s \in Paired[l].subscriptions : e.name \in {BlankText, s[1]} /\ e.target \in {BlankText, s[2]}}
      BY <1>17 DEF M, Panels!FaultMarks, Panels!Scheduled
    <2>2. e.source = BlankText
      BY <1>11, <1>17
    <2>3. \A x \in M : x \in H
      <3> SUFFICES ASSUME NEW x \in M PROVE x \in H
        OBVIOUS
      <3>1. x \in Paired[l].subscriptions /\ e.name \in {BlankText, x[1]} /\ e.target \in {BlankText, x[2]}
        BY <2>1
      <3>2. PICK p \in deliveries : p.point = "message.delivery" /\ p.target = x[2] /\ p.name = x[1] /\ p.on = x
        BY <1>9, <3>1
      <3>3. p \in T /\ Panels!Hits(e, p)
        BY <1>1, <1>13, <1>17, <2>2, <3>1, <3>2
      <3> QED BY <1>2, <3>2, <3>3
    <2>4. \A x \in H : x \in M
      <3> SUFFICES ASSUME NEW x \in H PROVE x \in M
        OBVIOUS
      <3>1. PICK p \in T : Panels!Hits(e, p) /\ x = p.on
        BY <1>2
      <3>2. p.point = "message.delivery" /\ e.target \in {BlankText, p.target} /\ e.name \in {BlankText, p.name}
        BY <1>13, <1>17, <3>1
      <3>3. p \in deliveries
        BY <1>1, <1>3, <1>4, <1>6, <3>2
      <3> QED BY <1>5, <2>1, <3>1, <3>2, <3>3
    <2> QED BY <2>3, <2>4 DEF M, H, T
  <1>18. CASE e.kind[1] = "database.commit"
    <2>1. \A x : x \in M <=> \E d \in Paired[l].databases : x = Panels!DatabaseNode(d) /\ e.name \in {BlankText, d}
      BY <1>18 DEF M, Panels!FaultMarks, Panels!Scheduled
    <2>2. e.source = BlankText /\ e.target = BlankText
      BY <1>11, <1>18
    <2>3. \A x \in M : x \in H
      <3> SUFFICES ASSUME NEW x \in M PROVE x \in H
        OBVIOUS
      <3>1. PICK d \in Paired[l].databases : x = Panels!DatabaseNode(d) /\ e.name \in {BlankText, d}
        BY <2>1
      <3>2. PICK p \in commits : p.point = "database.commit" /\ p.name = d /\ p.on = Panels!DatabaseNode(d)
        BY <1>10, <3>1
      <3>3. p \in T /\ Panels!Hits(e, p)
        BY <1>1, <1>13, <1>18, <2>2, <3>1, <3>2
      <3> QED BY <1>2, <3>1, <3>2, <3>3
    <2>4. \A x \in H : x \in M
      <3> SUFFICES ASSUME NEW x \in H PROVE x \in M
        OBVIOUS
      <3>1. PICK p \in T : Panels!Hits(e, p) /\ x = p.on
        BY <1>2
      <3>2. p.point = "database.commit" /\ e.name \in {BlankText, p.name}
        BY <1>13, <1>18, <3>1
      <3>3. p \in commits
        BY <1>1, <1>3, <1>4, <1>5, <3>2
      <3> QED BY <1>6, <2>1, <3>1, <3>2, <3>3
    <2> QED BY <2>3, <2>4 DEF M, H, T
  <1> QED BY <1>11, <1>15, <1>16, <1>17, <1>18 DEF M, H, T

-----------------------------------------------------------------------------
(* A draft: entries that were built, each with an identifier of its own     *)

Composed(d) ==
    /\ IsList(d)
    /\ \A i \in DOMAIN d : Built(d[i]) /\ d[i].id \in Nat
    /\ \A i, j \in DOMAIN d : d[i].id = d[j].id => i = j

LEMMA SequenceIsList == ASSUME NEW S, NEW q \in Seq(S) PROVE IsList(q)
  <1>1. Len(q) \in Nat /\ DOMAIN q = 1..Len(q)
    BY LenProperties
  <1>2. \A i \in 1..Len(q) : q[i] \in Student!Values(q)
    BY <1>1 DEF Student!Values
  <1>3. q = [i \in 1..Len(q) |-> q[i]]
    BY <1>1, LenProperties, SeqDef
  <1>4. q \in [1..Len(q) -> Student!Values(q)]
    BY <1>2, <1>3
  <1> QED BY <1>1, <1>4, SeqDef DEF IsList

LEMMA SameEntries == ASSUME NEW d PROVE Panels!Entries(d) = Student!Values(d)
  BY DEF Panels!Entries, Student!Values

Identifiers(d) == {e.id : e \in Panels!Entries(d)}

LEMMA IdentifiersAre ==
  ASSUME NEW d, Composed(d)
  PROVE /\ IsFiniteSet(Identifiers(d)) /\ Cardinality(Identifiers(d)) = Len(d)
        /\ Panels!Cardinality(Identifiers(d)) = Len(d)
  <1> DEFINE n == Len(d)
             I == Identifiers(d)
             f == [i \in 1..n |-> d[i].id]
  <1>1. n \in Nat /\ DOMAIN d = 1..n
    BY ListsAre DEF Composed
  <1>2. \A x : x \in I <=> \E i \in 1..n : x = d[i].id
    BY <1>1 DEF Identifiers, Panels!Entries
  <1>3. \A i, j \in 1..n : d[i].id = d[j].id => i = j
    BY <1>1 DEF Composed
  <1> HIDE DEF I, n
  <1>4. f \in [1..n -> I] /\ (\A i, j \in 1..n : f[i] = f[j] => i = j) /\ (\A x \in I : \E i \in 1..n : f[i] = x)
    BY <1>2, <1>3
  <1> HIDE DEF f
  <1>5. f \in Bijection(1..n, I)
    BY <1>4 DEF Bijection, Injection, Surjection, IsInjective
  <1>6. IsFiniteSet(1..n) /\ Cardinality(1..n) = n
    BY <1>1, FS_Interval
  <1>7. IsFiniteSet(I) /\ Cardinality(I) = n
    BY <1>5, <1>6, FS_Bijection DEF ExistsBijection
  <1>8. Panels!Cardinality(I) = Cardinality(I)
    BY DEF Panels!Cardinality, Cardinality
  <1> QED BY <1>7, <1>8 DEF n, I

\* There is an identifier left to the next entry.
LEMMA IdentifierIsFree ==
  ASSUME NEW d, Composed(d), NEW k, k = Panels!NextStudentId(d)
  PROVE k \in Nat /\ \A i \in DOMAIN d : d[i].id # k
  <1> DEFINE n == Len(d)
             I == Identifiers(d)
             J == (n + 1)..(2 * n + 1)
             free == J \ I
  <1>1. n \in Nat /\ DOMAIN d = 1..n
    BY ListsAre DEF Composed
  <1>2. IsFiniteSet(I) /\ Cardinality(I) = n
    BY IdentifiersAre
  <1>3. \A i \in DOMAIN d : d[i].id \in I
    BY DEF Identifiers, Panels!Entries
  <1>4. k = CHOOSE x \in free : \A j \in free : x <= j
    BY DEF Panels!NextStudentId, Identifiers
  <1> HIDE DEF I, n
  <1>5. J \subseteq Nat
    BY <1>1
  <1>6. IsFiniteSet(J) /\ Cardinality(J) = n + 1
    <2>1. n + 1 \in Int /\ 2 * n + 1 \in Int /\ ~(n + 1 > 2 * n + 1) /\ (2 * n + 1) - (n + 1) + 1 = n + 1
      BY <1>1
    <2> QED BY <2>1, FS_Interval
  <1> HIDE DEF J
  <1>7. free # {}
    <2> SUFFICES ASSUME J \in SUBSET I PROVE FALSE
      OBVIOUS
    <2>1. Cardinality(J) <= Cardinality(I)
      BY <1>2, FS_Subset
    <2> QED BY <1>1, <1>2, <1>6, <2>1
  <1>8. free \in SUBSET Nat
    BY <1>5
  <1>9. free \cap I = {}
    OBVIOUS
  <1> HIDE DEF free
  <1>10. \E x \in free : \A j \in free : x <= j
    BY <1>7, <1>8, Least
  <1>11. k \in free
    BY <1>4, <1>10
  <1> QED BY <1>3, <1>8, <1>9, <1>11

LEMMA AddedIsComposed ==
  ASSUME NEW d, Composed(d), NEW e, Built(e), e.id = Panels!NextStudentId(d), NEW q, q = Append(d, e)
  PROVE Composed(q)
  <1> DEFINE S == Student!Values(d) \cup {e}
             n == Len(d)
  <1>1. n \in Nat /\ DOMAIN d = 1..n
    BY ListsAre DEF Composed
  <1>2. d \in Seq(S)
    <2>1. d \in Seq(Student!Values(d)) /\ Student!Values(d) \subseteq S
      BY DEF Composed, IsList
    <2> QED BY <2>1, SeqMonotonic
  <1>3. e \in S
    OBVIOUS
  <1> HIDE DEF S
  <1>4. q \in Seq(S) /\ Len(q) = n + 1 /\ (\A i \in 1..n : q[i] = d[i]) /\ q[n + 1] = e
    BY <1>2, <1>3, AppendProperties
  <1>5. DOMAIN q = 1..(n + 1)
    BY <1>4, LenProperties
  <1>6. IsList(q)
    BY <1>4, SequenceIsList
  <1> HIDE DEF n
  <1>7. \A i \in 1..(n + 1) : i \in 1..n \/ i = n + 1
    BY <1>1
  <1>8. e.id \in Nat /\ \A i \in DOMAIN d : d[i].id # e.id
    BY IdentifierIsFree
  <1>9. \A i \in 1..n : Built(d[i]) /\ d[i].id \in Nat
    BY <1>1 DEF Composed
  <1>10. \A i, j \in 1..n : d[i].id = d[j].id => i = j
    BY <1>1 DEF Composed
  <1>11. \A i \in DOMAIN q : Built(q[i]) /\ q[i].id \in Nat
    BY <1>4, <1>5, <1>7, <1>8, <1>9
  <1>12. \A i, j \in DOMAIN q : q[i].id = q[j].id => i = j
    BY <1>1, <1>4, <1>5, <1>7, <1>8, <1>10
  <1> QED BY <1>6, <1>11, <1>12 DEF Composed

LEMMA UpdatedIsComposed ==
  ASSUME NEW d, Composed(d), NEW e, Built(e), NEW q, q = [i \in DOMAIN d |-> IF d[i].id = e.id THEN e ELSE d[i]]
  PROVE Composed(q)
  <1> DEFINE n == Len(d)
  <1>1. n \in Nat /\ DOMAIN d = 1..n /\ DOMAIN q = 1..n
    BY ListsAre DEF Composed
  <1>2. \A i \in DOMAIN d : q[i] = IF d[i].id = e.id THEN e ELSE d[i]
    OBVIOUS
  <1>3. \A i \in DOMAIN d : q[i].id = d[i].id
    BY <1>2
  <1>4. IsList(q)
    <2>1. \A i \in 1..n : q[i] \in Student!Values(q)
      BY <1>1 DEF Student!Values
    <2>2. q = [i \in 1..n |-> q[i]]
      BY <1>1
    <2>3. q \in [1..n -> Student!Values(q)]
      BY <2>1, <2>2
    <2> QED BY <1>1, <2>3, SeqDef DEF IsList
  <1>5. \A i \in DOMAIN q : Built(q[i]) /\ q[i].id \in Nat
    BY <1>1, <1>2, <1>3 DEF Composed
  <1>6. \A i, j \in DOMAIN q : q[i].id = q[j].id => i = j
    BY <1>1, <1>3 DEF Composed
  <1> QED BY <1>4, <1>5, <1>6 DEF Composed

\* Some of the entries, and all of them in two parts.
LEMMA PlacedIsComposed ==
  ASSUME NEW d, Composed(d), NEW places, places \subseteq DOMAIN d, NEW q, q = Panels!AtPlaces(d, places)
  PROVE /\ Composed(q)
        /\ \A x : x \in Student!Values(q) <=> \E i \in places : x = d[i]
  <1>1. Len(d) \in Nat /\ DOMAIN d = 1..Len(d) /\ IsList(d)
    BY ListsAre DEF Composed
  <1>2. Panels!AtPlaces(d, places) = AtPlaces(d, places) /\ Panels!AtPlaces(d, places) = Student!AtPlaces(d, places)
    BY DEF Panels!AtPlaces, AtPlaces, Student!AtPlaces
  <1>3. PICK e : Chain(e, q, d, places, Len(d))
    BY <1>1, <1>2, AtPlacesChained DEF Chained
  <1>4. q \in Seq(Student!Values(d)) /\ \A x : x \in Student!Values(q) <=> \E i \in places : x = d[i]
    BY <1>1, <1>2, PlacedValues
  <1>5. Len(q) \in Nat /\ DOMAIN q = 1..Len(q)
    BY <1>4, LenProperties
  <1>6. IsList(q)
    BY <1>4, SequenceIsList
  <1>7. \A k \in 1..Len(q) : e[k] \in places /\ e[k] \in Nat /\ q[k] = d[e[k]]
    BY <1>1, <1>3 DEF Chain
  <1>8. \A k, l \in 1..Len(q) : k < l => e[k] < e[l]
    BY <1>3 DEF Chain
  <1>9. \A i \in DOMAIN q : Built(q[i]) /\ q[i].id \in Nat
    BY <1>5, <1>7 DEF Composed
  <1>10. \A k, l \in DOMAIN q : q[k].id = q[l].id => k = l
    <2> SUFFICES ASSUME NEW k \in 1..Len(q), NEW l \in 1..Len(q), q[k].id = q[l].id PROVE k = l
      BY <1>5
    <2>1. e[k] = e[l]
      BY <1>7 DEF Composed
    <2>2. e[k] \in Nat /\ k \in Int /\ l \in Int
      BY <1>5, <1>7
    <2>3. ~(e[k] < e[l]) /\ ~(e[l] < e[k])
      BY <2>1, <2>2
    <2>4. ~(k < l) /\ ~(l < k)
      BY <1>8, <2>3
    <2> QED BY <2>2, <2>4
  <1> QED BY <1>4, <1>6, <1>9, <1>10 DEF Composed

LEMMA JoinedIsComposed ==
  ASSUME NEW s, Composed(s), NEW t, Composed(t), \A x \in Student!Values(s) : \A y \in Student!Values(t) : x.id # y.id,
         NEW q, q = s \o t
  PROVE Composed(q) /\ Student!Values(q) = Student!Values(s) \cup Student!Values(t)
  <1> DEFINE S == Student!Values(s) \cup Student!Values(t)
             l == Len(s)
             m == Len(t)
  <1>1. l \in Nat /\ m \in Nat /\ DOMAIN s = 1..l /\ DOMAIN t = 1..m
    BY ListsAre DEF Composed
  <1>2. s \in Seq(S) /\ t \in Seq(S)
    <2>1. s \in Seq(Student!Values(s)) /\ t \in Seq(Student!Values(t)) /\ Student!Values(s) \subseteq S /\ Student!Values(t) \subseteq S
      BY DEF Composed, IsList
    <2> QED BY <2>1, SeqMonotonic
  <1> HIDE DEF S
  <1>3. Student!Values(q) = Student!Values(s) \cup Student!Values(t)
    BY <1>2, ConcatValues
  <1>4. q \in Seq(S) /\ Len(q) = l + m /\ DOMAIN q = 1..(l + m)
    BY <1>1, <1>2, ConcatProperties, LenProperties
  <1>5. \A i \in 1..(l + m) : q[i] = IF i <= l THEN s[i] ELSE t[i - l]
    BY <1>2, ConcatProperties
  <1>6. IsList(q)
    BY <1>4, SequenceIsList
  <1> HIDE DEF l, m
  <1>7. \A i \in 1..(l + m) : (i \in 1..l /\ q[i] = s[i]) \/ (i - l \in 1..m /\ q[i] = t[i - l])
    <2> SUFFICES ASSUME NEW i \in 1..(l + m) PROVE (i \in 1..l /\ q[i] = s[i]) \/ (i - l \in 1..m /\ q[i] = t[i - l])
      OBVIOUS
    <2>1. (i <= l => i \in 1..l) /\ (~(i <= l) => i - l \in 1..m)
      BY <1>1
    <2> QED BY <1>5, <2>1
  <1>8. \A i \in DOMAIN q : Built(q[i]) /\ q[i].id \in Nat
    BY <1>1, <1>4, <1>7 DEF Composed
  <1>9. \A i \in 1..l : \A j \in 1..m : s[i].id # t[j].id
    BY <1>1 DEF Student!Values
  <1>10. \A i, j \in DOMAIN q : q[i].id = q[j].id => i = j
    <2> SUFFICES ASSUME NEW i \in 1..(l + m), NEW j \in 1..(l + m), q[i].id = q[j].id PROVE i = j
      BY <1>4
    <2>1. CASE i \in 1..l /\ q[i] = s[i] /\ j \in 1..l /\ q[j] = s[j]
      BY <1>1, <2>1 DEF Composed
    <2>2. CASE i \in 1..l /\ q[i] = s[i] /\ j - l \in 1..m /\ q[j] = t[j - l]
      BY <1>9, <2>2
    <2>3. CASE i - l \in 1..m /\ q[i] = t[i - l] /\ j \in 1..l /\ q[j] = s[j]
      BY <1>9, <2>3
    <2>4. CASE i - l \in 1..m /\ q[i] = t[i - l] /\ j - l \in 1..m /\ q[j] = t[j - l]
      <3>1. i - l = j - l
        BY <1>1, <2>4 DEF Composed
      <3> QED BY <1>1, <3>1
    <2> QED BY <1>7, <2>1, <2>2, <2>3, <2>4
  <1> QED BY <1>3, <1>6, <1>8, <1>10 DEF Composed

LEMMA EmptyIsComposed == Composed(<<>>) /\ Student!Values(<<>>) = {} /\ <<>> \o <<>> = <<>>
  <1>1. <<>> \in Seq(Student!Values(<<>>)) /\ Len(<<>>) = 0 /\ DOMAIN <<>> = {}
    OBVIOUS
  <1>2. Student!Values(<<>>) = {}
    BY <1>1 DEF Student!Values
  <1> QED BY <1>1, <1>2 DEF Composed, IsList

\* What is loaded of a draft is the draft.
LEMMA LoadedIsComposed ==
  ASSUME NEW d, Composed(d), NEW c, NEW o, o = Panels!Overlay(d, c)
  PROVE /\ Composed(Panels!DraftFromOverlay(o))
        /\ Panels!Entries(Panels!DraftFromOverlay(o)) = Panels!Entries(d)
        /\ o.parameters = c
        /\ o = [faults |-> o.faults, scheduled |-> o.scheduled, parameters |-> c]
  <1> DEFINE T == {i \in DOMAIN d : Panels!Scheduled(d[i].kind)}
             R == DOMAIN d \ T
             s == Panels!AtPlaces(d, R)
             t == Panels!AtPlaces(d, T)
             q == s \o t
  <1>1. o = [faults |-> s, scheduled |-> t, parameters |-> c]
    BY DEF Panels!Overlay
  <1>2. T \subseteq DOMAIN d /\ R \subseteq DOMAIN d /\ T \cap R = {} /\ T \cup R = DOMAIN d
    OBVIOUS
  <1> HIDE DEF T, R
  <1>3. Composed(s) /\ \A x : x \in Student!Values(s) <=> \E i \in R : x = d[i]
    BY <1>2, PlacedIsComposed
  <1>4. Composed(t) /\ \A x : x \in Student!Values(t) <=> \E i \in T : x = d[i]
    BY <1>2, PlacedIsComposed
  <1> HIDE DEF s, t
  <1>5. \A x \in Student!Values(s) : \A y \in Student!Values(t) : x.id # y.id
    <2> SUFFICES ASSUME NEW x \in Student!Values(s), NEW y \in Student!Values(t), x.id = y.id PROVE FALSE
      OBVIOUS
    <2>1. PICK i \in R : x = d[i]
      BY <1>3
    <2>2. PICK j \in T : y = d[j]
      BY <1>4
    <2>3. i = j
      BY <1>2, <2>1, <2>2 DEF Composed
    <2> QED BY <1>2, <2>3
  <1>6. Composed(q) /\ Student!Values(q) = Student!Values(s) \cup Student!Values(t)
    BY <1>3, <1>4, <1>5, JoinedIsComposed
  <1>7. Panels!DraftFromOverlay(o) = q
    BY <1>1 DEF Panels!DraftFromOverlay
  <1>8. \A x : x \in Student!Values(d) <=> \E i \in DOMAIN d : x = d[i]
    BY DEF Student!Values
  <1>9. Student!Values(q) = Student!Values(d)
    BY <1>2, <1>3, <1>4, <1>6, <1>8
  <1>10. o.faults = s /\ o.scheduled = t /\ o.parameters = c
    BY <1>1
  <1>11. o = [faults |-> o.faults, scheduled |-> o.scheduled, parameters |-> c]
    BY <1>1, <1>10
  <1>12. Panels!Entries(q) = Panels!Entries(d)
    BY <1>9, SameEntries
  <1> QED BY <1>6, <1>7, <1>10, <1>11, <1>12

-----------------------------------------------------------------------------
(* The choices, and what is sent                                            *)

\* Overrides that a lesson allows, none of them a default.
Legal(l, c) == \A k \in DOMAIN c : /\ k \in DOMAIN Paired[l].parameters
                                   /\ c[k] \in Paired[l].parameters[k].values \ {Paired[l].parameters[k].default}

\* An overlay that may be the session's.
Sent(l, o) == /\ Composed(Panels!DraftFromOverlay(o))
              /\ Legal(l, o.parameters)
              /\ o = [faults |-> o.faults, scheduled |-> o.scheduled, parameters |-> o.parameters]

LEMMA NoChoicesLegal == ASSUME NEW l PROVE Legal(l, Panels!NoChoices)
  BY DEF Legal, Panels!NoChoices

LEMMA ChosenIsLegal ==
  ASSUME NEW l, NEW c, Legal(l, c), NEW key \in DOMAIN Paired[l].parameters,
         NEW value \in Paired[l].parameters[key].values, NEW r, r = Panels!SetChoice(l, c, key, value)
  PROVE Legal(l, r)
  <1> DEFINE declared == Paired[l].parameters
             values == [k \in DOMAIN declared |-> IF k = key THEN value
                                                  ELSE IF k \in DOMAIN c THEN c[k] ELSE declared[k].default]
             D == {j \in DOMAIN declared : values[j] # declared[j].default}
  <1>1. r = [k \in D |-> values[k]]
    BY DEF Panels!SetChoice
  <1>2. \A k \in DOMAIN declared : values[k] = IF k = key THEN value ELSE IF k \in DOMAIN c THEN c[k] ELSE declared[k].default
    OBVIOUS
  <1>3. \A k \in D : k \in DOMAIN declared /\ values[k] # declared[k].default
    OBVIOUS
  <1> HIDE DEF values, D
  <1>4. DOMAIN r = D /\ \A k \in D : r[k] = values[k]
    BY <1>1
  <1>5. \A k \in D : values[k] \in declared[k].values
    <2> SUFFICES ASSUME NEW k \in D PROVE values[k] \in declared[k].values
      OBVIOUS
    <2>1. CASE k = key
      BY <1>2, <1>3, <2>1
    <2>2. CASE k # key /\ k \in DOMAIN c
      BY <1>2, <1>3, <2>2 DEF Legal
    <2>3. CASE k # key /\ k \notin DOMAIN c
      BY <1>2, <1>3, <2>3
    <2> QED BY <2>1, <2>2, <2>3
  <1> QED BY <1>3, <1>4, <1>5 DEF Legal

LEMMA OverlayIsSent ==
  ASSUME NEW l, NEW d, Composed(d), NEW c, Legal(l, c), NEW o, o = Panels!Overlay(d, c)
  PROVE Sent(l, o)
  BY LoadedIsComposed DEF Sent

LEMMA EmptyIsSent == ASSUME NEW l, NEW o, o = Panels!EmptyOverlay PROVE Sent(l, o)
  BY EmptyIsComposed, NoChoicesLegal, OverlayIsSent DEF Panels!EmptyOverlay

\* What Compare carries of it is allowed in the other lesson.
LEMMA CarriedIsSent ==
  ASSUME NEW from, NEW to, NEW o, Sent(from, o), NEW q, q = Panels!CarryOverlay(o, from, to)
  PROVE Sent(to, q)
  <1> DEFINE alike(k) == /\ k \in DOMAIN Paired[from].parameters /\ k \in DOMAIN Paired[to].parameters
                         /\ Paired[from].parameters[k] = Paired[to].parameters[k]
             c == o.parameters
             K == {j \in DOMAIN c : alike(j)}
             r == [k \in K |-> c[k]]
  <1>1. q = [o EXCEPT !.parameters = r]
    BY DEF Panels!CarryOverlay
  <1>2. \A k \in K : k \in DOMAIN c /\ alike(k)
    OBVIOUS
  <1>3. DOMAIN r = K /\ \A k \in K : r[k] = c[k]
    OBVIOUS
  <1> HIDE DEF r, K
  <1>4. Legal(from, c)
    BY DEF Sent
  <1>5. Legal(to, r)
    BY <1>2, <1>3, <1>4 DEF Legal
  <1>6. o = [faults |-> o.faults, scheduled |-> o.scheduled, parameters |-> o.parameters]
    BY DEF Sent
  <1>7. q = [faults |-> o.faults, scheduled |-> o.scheduled, parameters |-> r]
    BY <1>1, <1>6
  <1>8. q.faults = o.faults /\ q.scheduled = o.scheduled /\ q.parameters = r
    BY <1>7
  <1>9. Panels!DraftFromOverlay(q) = Panels!DraftFromOverlay(o)
    BY <1>8 DEF Panels!DraftFromOverlay
  <1> QED BY <1>5, <1>7, <1>8, <1>9 DEF Sent

-----------------------------------------------------------------------------
(* The forms of the panels                                                  *)

LEMMA EmptyIsKept == ASSUME TextAssumption PROVE KeptForm(Panels!EmptyForm)
  <1> DEFINE f == Panels!EmptyForm
  <1>1. f = [kind |-> BlankText, target |-> BlankText, endpoint |-> BlankText, number |-> 1, until |-> BlankText,
             probability |-> "1", state |-> "UNAVAILABLE"]
    BY DEF Panels!EmptyForm
  <1>2. "UNAVAILABLE" # BlankText
    BY DEF TextAssumption, Panels!TextsRead, Panels!EmptyForm
  <1>3. Endpoint(BlankText)
    BY DEF Endpoint
  <1> HIDE DEF f
  <1>4. KeptForm(f)
    BY <1>1, <1>2, <1>3, FormKeeps
  <1> QED BY <1>4 DEF f

LEMMA FilledIsKept ==
  ASSUME TextAssumption, NEW k, NEW g, NEW n \in Typable.endpoint, NEW p, NEW s \in Typable.state, NEW u,
         NEW f, f = [Panels!EmptyForm EXCEPT !.kind = k, !.target = g, !.endpoint = n, !.probability = p, !.state = s, !.until = u]
  PROVE KeptForm(f)
  <1> DEFINE f0 == Panels!EmptyForm
             one == 1
  <1>3. f0 = [kind |-> BlankText, target |-> BlankText, endpoint |-> BlankText, number |-> one, until |-> BlankText,
              probability |-> "1", state |-> "UNAVAILABLE"]
    BY DEF Panels!EmptyForm
  <1>4. f = [f0 EXCEPT !.kind = k, !.target = g, !.endpoint = n, !.probability = p, !.state = s, !.until = u]
    OBVIOUS
  <1> HIDE DEF f0, one
  <1>5. f = [kind |-> k, target |-> g, endpoint |-> n, number |-> one, until |-> u, probability |-> p, state |-> s]
    BY <1>3, <1>4
  <1>6. s # BlankText
    BY DEF TextAssumption, Panels!TextsRead
  <1>7. Endpoint(n)
    BY DEF Endpoint
  <1> QED BY <1>5, <1>6, <1>7, FormKeeps

\* A field typed: another kind has no target yet.
LEMMA TypedIsKept ==
  ASSUME TextAssumption, NEW f, KeptForm(f), NEW l \in DOMAIN Paired, NEW field \in DOMAIN Typable, NEW text \in Typable[field],
         NEW g, g = Panels!Typed(f, field, text), ~Panels!FormErrors(l, g)
  PROVE KeptForm(g)
  <1>1. f = [kind |-> f.kind, target |-> f.target, endpoint |-> f.endpoint, number |-> f.number, until |-> f.until,
             probability |-> f.probability, state |-> f.state]
        /\ f.state # BlankText /\ (Endpoint(f.endpoint) \/ OwnName(f.kind))
    BY DEF KeptForm
  <1>2. field \in {"kind", "target", "endpoint", "number", "until", "probability", "state"}
    BY DEF TextAssumption, Panels!TextsRead, Panels!EmptyForm
  <1>3. field # "kind"
    <2> SUFFICES ASSUME field = "kind" PROVE FALSE
      OBVIOUS
    <2>1. g = [f EXCEPT !.kind = text, !.target = BlankText]
      BY DEF Panels!Typed
    <2>2. g.target = BlankText /\ g.kind = text
      BY <1>1, <2>1
    <2>3. g.kind \in Paired[l].kinds /\ \E t \in Panels!TargetOptions(l, g.kind) : t.graph = g.target
      BY DEF Panels!FormErrors
    <2>4. \A t \in Panels!TargetOptions(l, g.kind) : t.graph # BlankText
      BY <2>3 DEF TextAssumption, Panels!LessonsNamed
    <2> QED BY <2>2, <2>3, <2>4
  <1>4. g = [f EXCEPT ![field] = text]
    BY <1>3 DEF Panels!Typed
  <1>5. CASE field = "target"
    <2>1. g = [kind |-> f.kind, target |-> text, endpoint |-> f.endpoint, number |-> f.number, until |-> f.until,
               probability |-> f.probability, state |-> f.state]
      BY <1>1, <1>4, <1>5
    <2> QED BY <1>1, <2>1, FormKeeps
  <1>6. CASE field = "endpoint"
    <2>1. g = [kind |-> f.kind, target |-> f.target, endpoint |-> text, number |-> f.number, until |-> f.until,
               probability |-> f.probability, state |-> f.state]
      BY <1>1, <1>4, <1>6
    <2>2. Endpoint(text)
      BY <1>6 DEF Endpoint
    <2> QED BY <1>1, <2>1, <2>2, FormKeeps
  <1>7. CASE field = "number"
    <2>1. g = [kind |-> f.kind, target |-> f.target, endpoint |-> f.endpoint, number |-> text, until |-> f.until,
               probability |-> f.probability, state |-> f.state]
      BY <1>1, <1>4, <1>7
    <2> QED BY <1>1, <2>1, FormKeeps
  <1>8. CASE field = "until"
    <2>1. g = [kind |-> f.kind, target |-> f.target, endpoint |-> f.endpoint, number |-> f.number, until |-> text,
               probability |-> f.probability, state |-> f.state]
      BY <1>1, <1>4, <1>8
    <2> QED BY <1>1, <2>1, FormKeeps
  <1>9. CASE field = "probability"
    <2>1. g = [kind |-> f.kind, target |-> f.target, endpoint |-> f.endpoint, number |-> f.number, until |-> f.until,
               probability |-> text, state |-> f.state]
      BY <1>1, <1>4, <1>9
    <2> QED BY <1>1, <2>1, FormKeeps
  <1>10. CASE field = "state"
    <2>1. g = [kind |-> f.kind, target |-> f.target, endpoint |-> f.endpoint, number |-> f.number, until |-> f.until,
               probability |-> f.probability, state |-> text]
      BY <1>1, <1>4, <1>10
    <2>2. text # BlankText
      BY <1>10 DEF TextAssumption, Panels!TextsRead
    <2> QED BY <1>1, <2>1, <2>2, FormKeeps
  <1> QED BY <1>2, <1>3, <1>5, <1>6, <1>7, <1>8, <1>9, <1>10

-----------------------------------------------------------------------------
(* What a student composes                                                  *)

DraftInv == /\ lesson \in DOMAIN Paired
            /\ Composed(composed)
            /\ Legal(lesson, choices)
            /\ applied # NoSession => Sent(lesson, applied)
            /\ KeptForm(form)

LEMMA AddStep == ASSUME TextAssumption, DraftInv, Panels!Fill PROVE DraftInv'
  <1>1. PICK k, g, n, p, s, u :
           /\ n \in Typable.endpoint /\ s \in Typable.state
           /\ Panels!Add([Panels!EmptyForm EXCEPT !.kind = k, !.target = g, !.endpoint = n, !.probability = p, !.state = s, !.until = u])
    BY DEF Panels!Fill
  <1> DEFINE f == [Panels!EmptyForm EXCEPT !.kind = k, !.target = g, !.endpoint = n, !.probability = p, !.state = s, !.until = u]
             id == Panels!NextStudentId(composed)
             e == Panels!BuildEntry(lesson, f, id)
  <1>2. KeptForm(f)
    BY <1>1, FilledIsKept
  <1>3. Panels!Add(f)
    BY <1>1
  <1> HIDE DEF f
  <1>4. ~Panels!FormErrors(lesson, f) /\ composed' = Append(composed, e) /\ UNCHANGED <<lesson, choices, applied, form>>
    BY <1>3 DEF Panels!Add
  <1>5. e.id = id /\ Built(e)
    BY <1>2, <1>4, BuildIsBuilt DEF DraftInv
  <1> HIDE DEF e, id
  <1>6. Composed(composed')
    BY <1>4, <1>5, AddedIsComposed DEF DraftInv, id
  <1> QED BY <1>4, <1>6 DEF DraftInv

LEMMA FormChanges ==
  ASSUME DraftInv, UNCHANGED <<lesson, composed, choices, applied>>, KeptForm(form')
  PROVE DraftInv'
  BY DEF DraftInv

LEMMA EditStep == ASSUME TextAssumption, DraftInv, NEW e \in Panels!Entries(composed), Panels!Edit(e) PROVE DraftInv'
  <1>1. Built(e)
    BY DEF DraftInv, Composed, Panels!Entries
  <1>2. KeptForm(form')
    BY <1>1, FormIsKept DEF Panels!Edit
  <1> QED BY <1>2, FormChanges DEF Panels!Edit

LEMMA UpdateStep ==
  ASSUME TextAssumption, DraftInv, NEW f, Panels!Update(f), ~Panels!FormErrors(lesson, f) => KeptForm(f)
  PROVE DraftInv'
  <1> DEFINE e == Panels!BuildEntry(lesson, f, editing)
  <1>1. /\ ~Panels!FormErrors(lesson, f)
        /\ composed' = [i \in DOMAIN composed |-> IF composed[i].id = editing THEN e ELSE composed[i]]
        /\ form' = Panels!EmptyForm /\ UNCHANGED <<lesson, choices, applied>>
    BY DEF Panels!Update, Panels!CloseForm
  <1>2. e.id = editing /\ Built(e)
    BY <1>1, BuildIsBuilt DEF DraftInv
  <1> HIDE DEF e
  <1>3. composed' = [i \in DOMAIN composed |-> IF composed[i].id = e.id THEN e ELSE composed[i]]
    BY <1>1, <1>2
  <1>4. Composed(composed')
    BY <1>2, <1>3, UpdatedIsComposed DEF DraftInv
  <1>5. KeptForm(form')
    BY <1>1, EmptyIsKept
  <1> QED BY <1>1, <1>4, <1>5 DEF DraftInv

LEMMA CancelStep == ASSUME TextAssumption, DraftInv, Panels!CancelEdit PROVE DraftInv'
  BY EmptyIsKept, FormChanges DEF Panels!CancelEdit, Panels!CloseForm

LEMMA RemoveStep == ASSUME TextAssumption, DraftInv, NEW e, Panels!Remove(e) PROVE DraftInv'
  <1> DEFINE places == {i \in DOMAIN composed : composed[i].id # e.id}
  <1>1. composed' = Panels!AtPlaces(composed, places) /\ UNCHANGED <<lesson, choices, applied>>
    BY DEF Panels!Remove
  <1>2. places \subseteq DOMAIN composed
    OBVIOUS
  <1> HIDE DEF places
  <1>3. Composed(composed')
    BY <1>1, <1>2, PlacedIsComposed DEF DraftInv
  <1>4. KeptForm(form')
    BY EmptyIsKept DEF DraftInv, Panels!Remove, Panels!CloseForm
  <1> QED BY <1>1, <1>3, <1>4 DEF DraftInv

LEMMA DiscardStep == ASSUME DraftInv, Panels!Discard PROVE DraftInv'
  <1>1. applied # NoSession /\ composed' = Panels!DraftFromOverlay(applied) /\ UNCHANGED <<lesson, choices, applied, form>>
    BY DEF Panels!Discard
  <1>2. Composed(composed')
    BY <1>1 DEF DraftInv, Sent
  <1> QED BY <1>1, <1>2 DEF DraftInv

LEMMA ChoiceStep ==
  ASSUME DraftInv, NEW key \in DOMAIN Paired[lesson].parameters, NEW value \in Paired[lesson].parameters[key].values,
         Panels!Choose(key, value)
  PROVE DraftInv'
  <1>1. choices' = Panels!SetChoice(lesson, choices, key, value) /\ UNCHANGED <<lesson, composed, applied, form>>
    BY DEF Panels!Choose
  <1>2. Legal(lesson, choices')
    BY <1>1, ChosenIsLegal DEF DraftInv
  <1> QED BY <1>1, <1>2 DEF DraftInv

LEMMA DiscardChoicesStep == ASSUME DraftInv, Panels!DiscardChoices PROVE DraftInv'
  <1>1. choices' = (IF applied = NoSession THEN Panels!NoChoices ELSE applied.parameters) /\ UNCHANGED <<lesson, composed, applied, form>>
    BY DEF Panels!DiscardChoices
  <1>2. Legal(lesson, choices')
    BY <1>1, NoChoicesLegal DEF DraftInv, Sent
  <1> QED BY <1>1, <1>2 DEF DraftInv

LEMMA ReplaceStep ==
  ASSUME TextAssumption, DraftInv, NEW l \in DOMAIN Paired, NEW o, Sent(l, o), Panels!Replace(l, o)
  PROVE DraftInv'
  <1>1. /\ lesson' = l /\ composed' = Panels!DraftFromOverlay(o) /\ choices' = o.parameters
        /\ applied' = NoSession \/ applied' = o
    BY DEF Panels!Replace
  <1>2. KeptForm(form')
    BY EmptyIsKept DEF DraftInv, Panels!Replace, Panels!CloseForm
  <1> QED BY <1>1, <1>2 DEF DraftInv, Sent

LEMMA LoadStep ==
  ASSUME TextAssumption, DraftInv, Panels!Apply \/ \E l \in DOMAIN Paired : Panels!Load(l) \/ Panels!Compare(l)
  PROVE DraftInv'
  <1>1. CASE Panels!Apply
    <2> DEFINE o == Panels!Overlay(composed, choices)
    <2>1. Sent(lesson, o)
      BY OverlayIsSent DEF DraftInv
    <2>2. Panels!Replace(lesson, o)
      BY <1>1 DEF Panels!Apply
    <2> HIDE DEF o
    <2> QED BY <2>1, <2>2, ReplaceStep DEF DraftInv
  <1>2. ASSUME NEW l \in DOMAIN Paired, Panels!Load(l) PROVE DraftInv'
    BY <1>2, EmptyIsSent, ReplaceStep DEF Panels!Load
  <1>3. ASSUME NEW l \in DOMAIN Paired, Panels!Compare(l) PROVE DraftInv'
    <2> DEFINE s == IF applied = NoSession THEN Panels!EmptyOverlay ELSE applied
               o == Panels!CarryOverlay(s, lesson, l)
    <2>1. Panels!Replace(l, o)
      BY <1>3 DEF Panels!Compare
    <2>2. Sent(lesson, s)
      BY EmptyIsSent DEF DraftInv
    <2> HIDE DEF s
    <2>3. Sent(l, o)
      BY <2>2, CarriedIsSent
    <2> HIDE DEF o
    <2> QED BY <2>1, <2>3, ReplaceStep
  <1> QED BY <1>1, <1>2, <1>3

LEMMA DraftStep == ASSUME TextAssumption, DraftInv, Panels!Next PROVE DraftInv'
  <1>1. CASE Panels!Fill
    BY <1>1, AddStep
  <1>2. ASSUME NEW e \in Panels!Entries(composed), Panels!Edit(e) \/ Panels!Remove(e) PROVE DraftInv'
    BY <1>2, EditStep, RemoveStep
  <1>3. CASE Panels!Update(form)
    BY <1>3, UpdateStep DEF DraftInv
  <1>4. ASSUME NEW field \in DOMAIN Typable, NEW text \in Typable[field], Panels!Update(Panels!Typed(form, field, text)) PROVE DraftInv'
    <2> DEFINE g == Panels!Typed(form, field, text)
    <2>1. ~Panels!FormErrors(lesson, g) => KeptForm(g)
      BY TypedIsKept DEF DraftInv
    <2>2. Panels!Update(g)
      BY <1>4
    <2> HIDE DEF g
    <2> QED BY <2>1, <2>2, UpdateStep
  <1>5. CASE Panels!CancelEdit
    BY <1>5, CancelStep
  <1>6. CASE Panels!Discard
    BY <1>6, DiscardStep
  <1>7. CASE Panels!DiscardChoices
    BY <1>7, DiscardChoicesStep
  <1>8. ASSUME NEW key \in DOMAIN Paired[lesson].parameters, NEW value \in Paired[lesson].parameters[key].values,
               Panels!Choose(key, value)
        PROVE DraftInv'
    BY <1>8, ChoiceStep
  <1>9. CASE Panels!Apply \/ \E l \in DOMAIN Paired : Panels!Load(l) \/ Panels!Compare(l)
    BY <1>9, LoadStep
  <1> QED BY <1>1, <1>2, <1>3, <1>4, <1>5, <1>6, <1>7, <1>8, <1>9 DEF Panels!Next

LEMMA DraftPage ==
  ASSUME TextAssumption, DraftInv, [PageNext]_<<part, scenarioVars, submitted, draftVars, vars, playbackVars>>
  PROVE DraftInv'
  <1>1. CASE UNCHANGED draftVars
    BY <1>1 DEF draftVars, DraftInv
  <1>2. CASE Panels!Next
    BY <1>2, DraftStep
  <1>3. Panels!Next \/ UNCHANGED draftVars
    BY DEF PageNext, Others, Still
  <1> QED BY <1>1, <1>2, <1>3

LEMMA DraftInit == ASSUME TextAssumption, PageInit PROVE DraftInv
  <1>1. /\ lesson \in DOMAIN Paired /\ applied = Panels!EmptyOverlay /\ composed = <<>> /\ choices = Panels!NoChoices
        /\ form = Panels!EmptyForm
    BY DEF PageInit, Panels!Init
  <1> QED BY <1>1, EmptyIsComposed, EmptyIsSent, NoChoicesLegal, EmptyIsKept DEF DraftInv

LEMMA DraftDescribes == ASSUME TextAssumption, DraftInv PROVE Panels!DraftDescribesTheRun
  <1>1. Panels!Cardinality({e.id : e \in Panels!Entries(composed)}) = Len(composed)
    BY IdentifiersAre DEF DraftInv, Identifiers
  <1>2. ASSUME NEW e \in Panels!Entries(composed), Panels!OfLesson(e)
        PROVE /\ \/ ~Panels!Scheduled(e.kind) /\ Printed[e.probability] \notin Written
                 \/ /\ ~Panels!FormErrors(lesson, Panels!FormFromEntry(lesson, e))
                    /\ Panels!BuildEntry(lesson, Panels!FormFromEntry(lesson, e), e.id) = e
              /\ ~Panels!Scheduled(e.kind) => Panels!FaultMarks(lesson, e)
                    = {p.on : p \in {q \in Panels!Traffic(lesson, (Typable.endpoint \ {BlankText}) \union {"other"}) : Panels!Hits(e, q)}}
    <2>1. lesson \in DOMAIN Paired /\ Built(e)
      BY DEF DraftInv, Composed, Panels!Entries
    <2>2. PICK m \in DOMAIN Paired : \E u \in Panels!TargetOptions(m, e.kind) : BuiltFor(e, u)
      BY <2>1 DEF Built
    <2>3. PICK u \in Panels!TargetOptions(m, e.kind) : BuiltFor(e, u)
      BY <2>2
    <2>4. PICK t \in Panels!TargetOptions(lesson, e.kind) : t.graph \in Panels!FaultMarks(lesson, e)
      BY <1>2 DEF Panels!OfLesson
    <2>5. t = u
      BY <2>1, <2>3, <2>4, MarkedTarget
    <2>6. u \in Panels!TargetOptions(lesson, e.kind)
      BY <2>5
    <2>7. \/ ~Panels!Scheduled(e.kind) /\ Printed[e.probability] \notin Written
          \/ /\ ~Panels!FormErrors(lesson, Panels!FormFromEntry(lesson, e))
             /\ Panels!BuildEntry(lesson, Panels!FormFromEntry(lesson, e), e.id) = e
      BY <2>1, <2>3, <2>6, RoundTrip
    <2>8. ~Panels!Scheduled(e.kind) => Panels!FaultMarks(lesson, e)
             = {p.on : p \in {q \in Panels!Traffic(lesson, (Typable.endpoint \ {BlankText}) \union {"other"}) : Panels!Hits(e, q)}}
      BY <2>1, <2>3, <2>6, MarksAreHits DEF Asking
    <2> QED BY <2>7, <2>8
  <1>3. ASSUME applied # NoSession
        PROVE /\ ~Panels!Pending => Panels!Entries(composed) = Panels!Entries(Panels!DraftFromOverlay(applied))
              /\ \A k \in DOMAIN applied.parameters :
                    /\ k \in DOMAIN Paired[lesson].parameters
                    /\ applied.parameters[k] \in Paired[lesson].parameters[k].values \ {Paired[lesson].parameters[k].default}
    <2>1. Legal(lesson, applied.parameters)
      BY <1>3 DEF DraftInv, Sent
    <2>2. ASSUME ~Panels!Pending PROVE Panels!Entries(composed) = Panels!Entries(Panels!DraftFromOverlay(applied))
      <3>1. applied = Panels!Overlay(composed, applied.parameters)
        BY <1>3, <2>2 DEF Panels!Pending
      <3> QED BY <3>1, LoadedIsComposed DEF DraftInv
    <2> QED BY <2>1, <2>2 DEF Legal
  <1> QED BY <1>1, <1>2, <1>3 DEF Panels!DraftDescribesTheRun

\* The draft of the Break panel can be trusted: its entries have identifiers
\* of their own, one of the lesson goes through the form and back unchanged
\* and is marked where its traffic is hit, with nothing pending the chips are
\* the applied faults, and what is applied is legal in the lesson
\* (break-faults.ts:163-244, 352-361, 389-413; design-choices.ts:44-51).
THEOREM DraftsDescribeTheRun == PageSpec => []DraftDescribesTheRun
  <1>1. PageInit => DraftInv
    BY DraftInit, TextAssumption
  <1>2. DraftInv /\ [PageNext]_<<part, scenarioVars, submitted, draftVars, vars, playbackVars>> => DraftInv'
    BY DraftPage, TextAssumption
  <1>3. DraftInv => DraftDescribesTheRun
    BY DraftDescribes, TextAssumption DEF DraftDescribesTheRun
  <1> QED BY <1>1, <1>2, <1>3, PTL DEF PageSpec
=============================================================================
