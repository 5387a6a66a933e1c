--------------------------- MODULE CatalogCheckProofs --------------------------
(***************************************************************************)
(* The theorems of CatalogCheck, for any queries that are built and mean as *)
(* CatalogNotation says, any series and any parameters.                     *)
(***************************************************************************)
EXTENDS CatalogNotation, FiniteSetTheorems, TLAPS

-----------------------------------------------------------------------------
(* The inductive invariant                                                   *)

\* The selectors found before the n-th token are those of the query, the last one still
\* being filled if its brace, at o, is not closed.
Filling(ts, n, sel, whole, o) ==
    /\ o \in 1 .. (n - 1) /\ ts[o] = LeftBrace
    /\ \A k \in (o + 1) .. (n - 1) : ts[k] # RightBrace
    /\ Len(sel.matchers) = Cardinality(Asked(ts, o, n))
    /\ \A j \in DOMAIN sel.matchers : sel.matchers[j] = whole.matchers[j]

Filled(ts, n, sels, written) ==
    /\ sels \in Seq(Selector)
    /\ Len(sels) = Cardinality(Opens(ts, n))
    /\ \A k \in DOMAIN sels : sels[k].metric = written[k].metric
    /\ \A k \in DOMAIN sels : k < Len(sels) \/ ~InBraces(ts, n) => sels[k] = written[k]
    /\ InBraces(ts, n) => \E o \in Opens(ts, n) :
        /\ Len(sels) = Cardinality(Opens(ts, o + 1))
        /\ Filling(ts, n, sels[Len(sels)], written[Len(sels)], o)

\* While it is read, what is remembered is what stands around the next token and what
\* the tokens before it denote.
Extracting ==
    phase = "extract" =>
        /\ at \in 1 .. (Len(toks) + 1)
        /\ bracket = IF InBrackets(toks, at) THEN 1 ELSE 0
        /\ depth = IF InBraces(toks, at) THEN 1 ELSE 0
        /\ consumed = Listed(toks, at)
        /\ metrics = MetricsBefore(toks, at)
        /\ labels = LabelsBefore(toks, at)
        /\ Filled(toks, at, selectors, Prefixed(query))

Extracted ==
    phase # "extract" =>
        metrics = query.metrics /\ labels = query.labels /\ selectors = Prefixed(query)

\* While the selectors are probed, those before the next have series of the target.
Probing ==
    phase = "series" =>
        /\ verdict = "ok" /\ ~absence
        /\ unanswered \/ \A i \in Named : i < at => ~Unserved(i)

Inv == TypeOK /\ Extracting /\ Extracted /\ Probing /\ VerdictIsRight

-----------------------------------------------------------------------------
(* What stands around a token, and how it changes from one token to the next *)

\* The marks are different, and none of them is a word.
LEMMA MarksDiffer ==
    /\ LeftBrace \notin {RightBrace, LeftBracket, RightBracket, LeftParen, RightParen, Comma}
    /\ RightBrace \notin {LeftBracket, RightBracket, LeftParen, RightParen, Comma}
    /\ LeftBracket \notin {RightBracket, LeftParen, RightParen, Comma}
    /\ RightBracket \notin {LeftParen, RightParen, Comma}
    /\ LeftParen \notin {RightParen, Comma, NoToken}
<1>1. ASSUME NEW x, NEW y, x # y
      PROVE  Punct(x) # Punct(y)
  BY <1>1 DEF Punct
<1>2. /\ "{" \notin {"}", "[", "]", "(", ")", ","} /\ "}" \notin {"[", "]", "(", ")", ","}
      /\ "[" \notin {"]", "(", ")", ","} /\ "]" \notin {"(", ")", ","} /\ "(" \notin {")", ","}
  BY Zenon
<1>3. Punct("(") # NoToken
  BY Zenon DEF Punct, NoToken
<1>. QED
  BY <1>1, <1>2, <1>3, Zenon
  DEF LeftBrace, RightBrace, LeftBracket, RightBracket, LeftParen, RightParen, Comma

Marks == {LeftBrace, RightBrace, LeftBracket, RightBracket, LeftParen, RightParen, Comma}

LEMMA WordsAreNoMarks ==
    ASSUME NEW t, t.kind = "ident"
    PROVE  t \notin Marks
<1>1. ASSUME NEW x
      PROVE  t # Punct(x)
  BY DEF Punct
<1>. QED
  BY <1>1, Zenon
  DEF Marks, LeftBrace, RightBrace, LeftBracket, RightBracket, LeftParen, RightParen, Comma

LEMMA NothingIsWritten == NoToken.kind = "none"
BY Zenon DEF NoToken

\* The tokens of a query: places 1 to Len(ts), each with a text.
Text(ts) ==
    /\ Len(ts) \in Nat /\ DOMAIN ts = 1 .. Len(ts)
    /\ \A i \in 1 .. Len(ts) : ts[i].text \in STRING

LEMMA TextOfTokens ==
    ASSUME NEW ts \in Seq(Token)
    PROVE  Text(ts)
<1>1. \A t \in Token : t.text \in STRING
  BY DEF Token
<1>2. Len(ts) \in Nat /\ DOMAIN ts = 1 .. Len(ts) /\ \A i \in 1 .. Len(ts) : ts[i] \in Token
  OBVIOUS
<1>. QED BY <1>1, <1>2 DEF Text

\* Past the ends of a query there is no token.
LEMMA Peeked ==
    ASSUME NEW ts, Text(ts), NEW i \in Int
    PROVE  /\ i \in 1 .. Len(ts) => TokenAt(ts, i) = ts[i] /\ ts[i].text \in STRING
           /\ i \notin 1 .. Len(ts) => TokenAt(ts, i).kind = "none"
BY NothingIsWritten DEF TokenAt, Text

\* To open a bracket or a brace is to be in it, to close it to be out.
LEMMA WithinNext ==
    ASSUME NEW ts, NEW open, NEW close, NEW i \in Nat \ {0}
    PROVE  Within(ts, open, close, i + 1) <=>
               \/ ts[i] = open
               \/ Within(ts, open, close, i) /\ ts[i] # close
<1>1. ASSUME Within(ts, open, close, i + 1), ts[i] # open
      PROVE  Within(ts, open, close, i) /\ ts[i] # close
  <2>1. PICK j \in 1 .. i : /\ ts[j] = open
                            /\ \A k \in (j + 1) .. i : ts[k] # close
    BY <1>1 DEF Within
  <2>2. j \in 1 .. (i - 1)
    BY <1>1, <2>1
  <2>. QED BY <2>1, <2>2 DEF Within
<1>2. ASSUME ts[i] = open
      PROVE  Within(ts, open, close, i + 1)
  <2>1. i \in 1 .. ((i + 1) - 1) /\ \A k \in (i + 1) .. ((i + 1) - 1) : ts[k] # close
    OBVIOUS
  <2>. QED BY <1>2, <2>1 DEF Within
<1>3. ASSUME Within(ts, open, close, i), ts[i] # close
      PROVE  Within(ts, open, close, i + 1)
  <2>1. PICK j \in 1 .. (i - 1) : /\ ts[j] = open
                                  /\ \A k \in (j + 1) .. (i - 1) : ts[k] # close
    BY <1>3 DEF Within
  <2>2. j \in 1 .. ((i + 1) - 1) /\ \A k \in (j + 1) .. ((i + 1) - 1) : ts[k] # close
    BY <1>3, <2>1
  <2>. QED BY <2>1, <2>2 DEF Within
<1>. QED BY <1>1, <1>2, <1>3

\* Where nothing was opened since, nothing is open that was not.
LEMMA WithinBack ==
    ASSUME NEW ts, NEW open, NEW close, NEW i \in Nat \ {0}, NEW p \in 1 .. i,
           Within(ts, open, close, i),
           \A k \in p .. (i - 1) : ts[k] # open
    PROVE  Within(ts, open, close, p)
<1>1. PICK j \in 1 .. (i - 1) : /\ ts[j] = open
                                /\ \A k \in (j + 1) .. (i - 1) : ts[k] # close
  BY DEF Within
<1>2. j \in 1 .. (p - 1)
  BY <1>1
<1>3. \A k \in (j + 1) .. (p - 1) : ts[k] # close
  BY <1>1
<1>. QED BY <1>1, <1>2, <1>3 DEF Within

\* At its first token nothing is open.
LEMMA WithinFirst ==
    ASSUME NEW ts, NEW open, NEW close
    PROVE  ~Within(ts, open, close, 1)
BY DEF Within

\* The tokens of a list are its parentheses, names and commas.
LEMMA GroupingTokens ==
    ASSUME NEW ts, Text(ts), NEW p \in Nat, NEW i \in Grouping(ts, p)
    PROVE  /\ TokenAt(ts, p) = LeftParen /\ ts[p] = LeftParen
           /\ i \in p .. Len(ts)
           /\ \A k \in (p + 1) .. i : ts[k].kind = "ident" \/ ts[k] \in {Comma, RightParen}
<1>1. /\ TokenAt(ts, p) = LeftParen /\ i \in p .. Len(ts)
      /\ \A k \in (p + 1) .. i : ts[k].kind = "ident" \/ ts[k] \in {Comma, RightParen}
  BY DEF Grouping
<1>2. ts[p] = LeftParen
  BY <1>1, MarksDiffer DEF TokenAt
<1>. QED BY <1>1, <1>2

\* A token of a list stands outside brackets and braces, and opens and closes none.
LEMMA ListedOutside ==
    ASSUME NEW ts, Text(ts), NEW n \in Nat, NEW i \in Listed(ts, n)
    PROVE  /\ i \in 2 .. Len(ts) /\ Outside(ts, i)
           /\ ts[i] \notin {LeftBracket, RightBracket, LeftBrace, RightBrace}
<1>. Len(ts) \in Nat
  BY DEF Text
<1>1. PICK j \in Clauses(ts, n) : i \in Grouping(ts, j + 1)
  BY DEF Listed
<1>2. j \in Nat \ {0} /\ Outside(ts, j) /\ ts[j].kind = "ident"
  BY DEF Clauses, ClauseAt
<1>3. /\ ts[j + 1] = LeftParen /\ i \in (j + 1) .. Len(ts)
      /\ \A k \in (j + 2) .. i : ts[k].kind = "ident" \/ ts[k] \in {Comma, RightParen}
  <2>1. j + 1 \in Nat
    BY <1>2
  <2>. QED BY <1>1, <2>1, GroupingTokens, <1>2
<1>4. \A k \in j .. i : ts[k] \notin {LeftBracket, RightBracket, LeftBrace, RightBrace}
  <2>. SUFFICES ASSUME NEW k \in j .. i
                PROVE  ts[k] \notin {LeftBracket, RightBracket, LeftBrace, RightBrace}
    OBVIOUS
  <2>1. CASE k = j
    BY <2>1, <1>2, WordsAreNoMarks DEF Marks
  <2>2. CASE k = j + 1
    BY <2>2, <1>3, MarksDiffer
  <2>3. CASE k \in (j + 2) .. i
    BY <2>3, <1>3, MarksDiffer, WordsAreNoMarks DEF Marks
  <2>. QED BY <1>2, <1>3, <2>1, <2>2, <2>3
<1>5. Outside(ts, i)
  <2>1. i \in Nat \ {0} /\ j \in 1 .. i
    BY <1>2, <1>3
  <2>2. /\ \A k \in j .. (i - 1) : ts[k] # LeftBracket
        /\ \A k \in j .. (i - 1) : ts[k] # LeftBrace
    BY <1>4, <2>1
  <2>3. ~InBrackets(ts, i)
    BY <1>2, <2>1, <2>2, WithinBack DEF InBrackets, Outside
  <2>4. ~InBraces(ts, i)
    BY <1>2, <2>1, <2>2, WithinBack DEF InBraces, Outside
  <2>. QED BY <2>3, <2>4 DEF Outside
<1>6. i \in 2 .. Len(ts) /\ i \in j .. i
  BY <1>2, <1>3
<1>. QED BY <1>4, <1>5, <1>6

-----------------------------------------------------------------------------
(* What the tokens denote, and how it grows from one token to the next       *)

\* A member of a list that has the name of a clause's keyword starts no list.
LEMMA ListedStartsNone ==
    ASSUME NEW ts, Text(ts), WellFormed(ts), NEW i \in 1 .. Len(ts), i \in Listed(ts, i),
           ClauseAt(ts, i)
    PROVE  Grouping(ts, i + 1) = {} /\ Names(ts, i + 1) = {}
<1>. Len(ts) \in Nat /\ i \in Nat
  BY DEF Text
<1>1. i \in Listed(ts, Len(ts) + 1)
  <2>1. Clauses(ts, i) \subseteq Clauses(ts, Len(ts) + 1)
    BY DEF Clauses
  <2>. QED BY <2>1 DEF Listed
<1>2. TokenAt(ts, i + 1) \in {Comma, RightParen}
  BY <1>1 DEF WellFormed, ClauseAt
<1>3. TokenAt(ts, i + 1) # LeftParen
  BY <1>2, MarksDiffer
<1>4. Grouping(ts, i + 1) = {}
  BY <1>3 DEF Grouping
<1>. QED BY <1>4 DEF Names

LEMMA ClausesNext ==
    ASSUME NEW ts, NEW i \in Nat \ {0}
    PROVE  Clauses(ts, i + 1) = Clauses(ts, i) \cup IF ClauseAt(ts, i) THEN {i} ELSE {}
BY DEF Clauses

\* A clause adds the tokens of its list, and their names.
LEMMA ListedNext ==
    ASSUME NEW ts, NEW i \in Nat \ {0}
    PROVE  Listed(ts, i + 1) =
               Listed(ts, i) \cup IF ClauseAt(ts, i) THEN Grouping(ts, i + 1) ELSE {}
<1>1. Clauses(ts, i + 1) = Clauses(ts, i) \cup IF ClauseAt(ts, i) THEN {i} ELSE {}
  BY ClausesNext
<1>. QED BY <1>1 DEF Listed

LEMMA LabelsNext ==
    ASSUME NEW ts, NEW i \in Nat \ {0}
    PROVE  LabelsBefore(ts, i + 1) =
               LabelsBefore(ts, i)
               \cup (IF LabelAt(ts, i) THEN {ts[i].text} ELSE {})
               \cup (IF ClauseAt(ts, i) THEN Names(ts, i + 1) ELSE {})
<1>1. Clauses(ts, i + 1) = Clauses(ts, i) \cup IF ClauseAt(ts, i) THEN {i} ELSE {}
  BY ClausesNext
<1>3. {k \in 1 .. ((i + 1) - 1) : LabelAt(ts, k)}
      = {k \in 1 .. (i - 1) : LabelAt(ts, k)} \cup IF LabelAt(ts, i) THEN {i} ELSE {}
  OBVIOUS
<1>. DEFINE read(n) == {ts[k].text : k \in {k \in 1 .. (n - 1) : LabelAt(ts, k)}}
            listed(n) == UNION {Names(ts, j + 1) : j \in Clauses(ts, n)}
<1>4. read(i + 1) = read(i) \cup IF LabelAt(ts, i) THEN {ts[i].text} ELSE {}
  BY <1>3
<1>5. listed(i + 1) = listed(i) \cup IF ClauseAt(ts, i) THEN Names(ts, i + 1) ELSE {}
  <2>1. ASSUME NEW n, NEW x
        PROVE  x \in listed(n) <=> \E j \in Clauses(ts, n) : x \in Names(ts, j + 1)
    OBVIOUS
  <2>. HIDE DEF listed
  <2>2. CASE ClauseAt(ts, i)
    <3>1. Clauses(ts, i + 1) = Clauses(ts, i) \cup {i}
      BY <1>1, <2>2
    <3>2. ASSUME NEW x
          PROVE  x \in listed(i + 1) <=> x \in listed(i) \/ x \in Names(ts, i + 1)
      BY <2>1, <3>1, Zenon
    <3>3. listed(i + 1) = listed(i) \cup Names(ts, i + 1)
      BY <3>2, Zenon
    <3>. QED BY <2>2, <3>3
  <2>3. CASE ~ClauseAt(ts, i)
    <3>1. Clauses(ts, i + 1) = Clauses(ts, i)
      BY <1>1, <2>3
    <3>2. listed(i + 1) = listed(i)
      BY <2>1, <3>1, Zenon
    <3>. QED BY <2>3, <3>2
  <2>. QED BY <2>2, <2>3
<1>6. LabelsBefore(ts, i + 1) = read(i + 1) \cup listed(i + 1)
      /\ LabelsBefore(ts, i) = read(i) \cup listed(i)
  BY DEF LabelsBefore
<1>. HIDE DEF read, listed
<1>. QED BY <1>4, <1>5, <1>6

LEMMA MetricsNext ==
    ASSUME NEW ts, NEW i \in Nat \ {0}
    PROVE  MetricsBefore(ts, i + 1) =
               MetricsBefore(ts, i)
               \cup (IF MetricAt(ts, i) THEN {ts[i].text} ELSE {})
               \cup (IF NameAt(ts, i) /\ Valued(ts, i) THEN {TokenAt(ts, i + 2).text} ELSE {})
<1>1. {k \in 1 .. ((i + 1) - 1) : MetricAt(ts, k)}
      = {k \in 1 .. (i - 1) : MetricAt(ts, k)} \cup IF MetricAt(ts, i) THEN {i} ELSE {}
  OBVIOUS
<1>2. {ts[k].text : k \in {k \in 1 .. ((i + 1) - 1) : MetricAt(ts, k)}}
      = {ts[k].text : k \in {k \in 1 .. (i - 1) : MetricAt(ts, k)}}
        \cup IF MetricAt(ts, i) THEN {ts[i].text} ELSE {}
  BY <1>1
<1>3. {k \in 1 .. ((i + 1) - 1) : NameAt(ts, k) /\ Valued(ts, k)}
      = {k \in 1 .. (i - 1) : NameAt(ts, k) /\ Valued(ts, k)}
        \cup IF NameAt(ts, i) /\ Valued(ts, i) THEN {i} ELSE {}
  OBVIOUS
<1>4. {TokenAt(ts, k + 2).text : k \in {k \in 1 .. ((i + 1) - 1) : NameAt(ts, k) /\ Valued(ts, k)}}
      = {TokenAt(ts, k + 2).text : k \in {k \in 1 .. (i - 1) : NameAt(ts, k) /\ Valued(ts, k)}}
        \cup IF NameAt(ts, i) /\ Valued(ts, i) THEN {TokenAt(ts, i + 2).text} ELSE {}
  BY <1>3
<1>. QED BY <1>2, <1>4, Zenon DEF MetricsBefore

LEMMA MetricsGrow ==
    ASSUME NEW ts, NEW i \in Nat, NEW n \in Nat, i \leq n
    PROVE  MetricsBefore(ts, i) \subseteq MetricsBefore(ts, n)
<1>1. 1 .. (i - 1) \subseteq 1 .. (n - 1)
  OBVIOUS
<1>. QED BY <1>1, Zenon DEF MetricsBefore

\* The braces before a token are finitely many, and each brace is one more.
LEMMA OpensFinite ==
    ASSUME NEW ts, NEW n \in Nat
    PROVE  IsFiniteSet(Opens(ts, n)) /\ Cardinality(Opens(ts, n)) \in Nat
<1>1. IsFiniteSet(1 .. (n - 1))
  BY FS_Interval
<1>2. Opens(ts, n) \subseteq 1 .. (n - 1)
  BY DEF Opens
<1>. QED BY <1>1, <1>2, FS_Subset, FS_CardinalityType

LEMMA OpensNext ==
    ASSUME NEW ts, NEW i \in Nat \ {0}
    PROVE  Cardinality(Opens(ts, i + 1)) =
               Cardinality(Opens(ts, i)) + IF ts[i] = LeftBrace THEN 1 ELSE 0
<1>1. Opens(ts, i + 1) = Opens(ts, i) \cup IF ts[i] = LeftBrace THEN {i} ELSE {}
  BY DEF Opens
<1>2. IsFiniteSet(Opens(ts, i)) /\ Cardinality(Opens(ts, i)) \in Nat
  BY OpensFinite
<1>3. i \notin Opens(ts, i)
  BY DEF Opens
<1>4. CASE ts[i] = LeftBrace
  <2>1. Opens(ts, i + 1) = Opens(ts, i) \cup {i}
    BY <1>1, <1>4
  <2>2. Cardinality(Opens(ts, i) \cup {i}) = Cardinality(Opens(ts, i)) + 1
    BY <1>2, <1>3, FS_AddElement
  <2>. QED BY <1>4, <2>1, <2>2
<1>5. CASE ts[i] # LeftBrace
  <2>1. Opens(ts, i + 1) = Opens(ts, i)
    BY <1>1, <1>5
  <2>. QED BY <1>2, <1>5, <2>1
<1>. QED BY <1>4, <1>5

LEMMA OpensGrow ==
    ASSUME NEW ts, NEW i \in Nat, NEW n \in Nat, i \leq n
    PROVE  /\ Opens(ts, i) \subseteq Opens(ts, n)
           /\ Cardinality(Opens(ts, i)) \leq Cardinality(Opens(ts, n))
<1>1. Opens(ts, i) \subseteq Opens(ts, n)
  BY DEF Opens
<1>2. IsFiniteSet(Opens(ts, n))
  BY OpensFinite
<1>. QED BY <1>1, <1>2, FS_Subset

\* So are the matchers of a brace.
LEMMA AskedFinite ==
    ASSUME NEW ts, NEW o \in Nat, NEW n \in Nat
    PROVE  IsFiniteSet(Asked(ts, o, n)) /\ Cardinality(Asked(ts, o, n)) \in Nat
<1>1. IsFiniteSet((o + 1) .. (n - 1))
  BY FS_Interval
<1>2. Asked(ts, o, n) \subseteq (o + 1) .. (n - 1)
  BY DEF Asked
<1>. QED BY <1>1, <1>2, FS_Subset, FS_CardinalityType

LEMMA AskedNone ==
    ASSUME NEW ts, NEW o \in Nat
    PROVE  Cardinality(Asked(ts, o, o + 1)) = 0
<1>1. Asked(ts, o, o + 1) = {}
  BY DEF Asked
<1>. QED BY <1>1, FS_EmptySet

LEMMA AskedNext ==
    ASSUME NEW ts, NEW o \in Nat, NEW i \in Nat, o < i,
           \A k \in (o + 1) .. (i - 1) : ts[k] # RightBrace, ts[i] # RightBrace
    PROVE  /\ LabelAt(ts, i) /\ Valued(ts, i) =>
                  /\ i \in Asked(ts, o, i + 1)
                  /\ Cardinality(Asked(ts, o, i + 1)) = Cardinality(Asked(ts, o, i)) + 1
           /\ ~(LabelAt(ts, i) /\ Valued(ts, i)) => Asked(ts, o, i + 1) = Asked(ts, o, i)
<1>1. Asked(ts, o, i + 1) =
          Asked(ts, o, i) \cup IF LabelAt(ts, i) /\ Valued(ts, i) THEN {i} ELSE {}
  BY DEF Asked
<1>2. IsFiniteSet(Asked(ts, o, i)) /\ i \notin Asked(ts, o, i)
  BY AskedFinite DEF Asked
<1>3. Cardinality(Asked(ts, o, i) \cup {i}) = Cardinality(Asked(ts, o, i)) + 1
  BY <1>2, FS_AddElement
<1>. QED BY <1>1, <1>3

\* After its brace is closed, or at the end, a selector has all its matchers.
LEMMA AskedAll ==
    ASSUME NEW ts, NEW o \in Nat, NEW i \in Nat, NEW n \in Nat, i \leq n,
           i = n \/ (o < i /\ ts[i] = RightBrace)
    PROVE  Asked(ts, o, n) = Asked(ts, o, i)
BY DEF Asked

LEMMA AskedGrow ==
    ASSUME NEW ts, NEW o \in Nat, NEW i \in Nat, NEW n \in Nat, i \leq n
    PROVE  /\ Asked(ts, o, i) \subseteq Asked(ts, o, n)
           /\ Cardinality(Asked(ts, o, i)) \leq Cardinality(Asked(ts, o, n))
<1>1. Asked(ts, o, i) \subseteq Asked(ts, o, n)
  BY DEF Asked
<1>2. IsFiniteSet(Asked(ts, o, n))
  BY AskedFinite
<1>. QED BY <1>1, <1>2, FS_Subset

-----------------------------------------------------------------------------
(* The selectors, filled from one token to the next                          *)

\* The selector of a brace of the query.
LEMMA WrittenAt ==
    ASSUME NEW ts, Text(ts), NEW written, Written(ts, written),
           NEW o \in Opens(ts, Len(ts) + 1)
    PROVE  LET rank == Cardinality(Opens(ts, o + 1))
               end == Len(ts) + 1
           IN  /\ o \in 1 .. Len(ts) /\ ts[o] = LeftBrace
               /\ rank \in 1 .. Len(written)
               /\ written[rank].metric = MetricOf(ts, o)
               /\ Len(written[rank].matchers) = Cardinality(Asked(ts, o, end))
               /\ \A i \in Asked(ts, o, end) :
                    written[rank].matchers[Cardinality(Asked(ts, o, i + 1))] = MatcherOf(ts, i)
<1>1. o \in 1 .. Len(ts) /\ ts[o] = LeftBrace /\ Len(ts) \in Nat
  BY DEF Opens, Text
<1>2. Len(written) = Cardinality(Opens(ts, Len(ts) + 1))
  BY DEF Written
<1>3. Cardinality(Opens(ts, o + 1)) = Cardinality(Opens(ts, o)) + 1
  <2>1. o \in Nat \ {0} /\ ts[o] = LeftBrace
    BY <1>1
  <2>. QED BY <2>1, OpensNext
<1>4. Cardinality(Opens(ts, o)) \in Nat
  BY <1>1, OpensFinite
<1>5. Cardinality(Opens(ts, o + 1)) \leq Cardinality(Opens(ts, Len(ts) + 1))
  BY <1>1, OpensGrow, o + 1 \in Nat, Len(ts) + 1 \in Nat, o + 1 \leq Len(ts) + 1
<1>6. Cardinality(Opens(ts, Len(ts) + 1)) \in Nat
  BY <1>1, OpensFinite, Len(ts) + 1 \in Nat
<1>7. Cardinality(Opens(ts, o + 1)) \in 1 .. Len(written)
  BY <1>2, <1>3, <1>4, <1>5, <1>6
<1>. QED BY <1>1, <1>7 DEF Written

LEMMA SelectorsEqual ==
    ASSUME NEW a \in Selector, NEW b \in Selector, a.metric = b.metric,
           Len(a.matchers) = Len(b.matchers),
           \A j \in DOMAIN a.matchers : a.matchers[j] = b.matchers[j]
    PROVE  a = b
<1>1. a.matchers \in Seq(Matcher) /\ b.matchers \in Seq(Matcher)
  BY DEF Selector
<1>2. a.matchers = b.matchers
  BY <1>1
<1>. QED BY <1>2 DEF Selector

\* A selector whose brace is closed, or whose query is read, is complete.
LEMMA FullAtClose ==
    ASSUME NEW ts, Text(ts), NEW written \in Seq(Selector), Written(ts, written),
           NEW n \in 1 .. (Len(ts) + 1), n = Len(ts) + 1 \/ ts[n] = RightBrace,
           NEW o \in Opens(ts, n), NEW k, k = Cardinality(Opens(ts, o + 1)),
           NEW sel \in Selector, sel.metric = written[k].metric,
           Filling(ts, n, sel, written[k], o)
    PROVE  sel = written[k]
<1>1. Len(ts) \in Nat
  BY DEF Text
<1>2. o \in Opens(ts, Len(ts) + 1) /\ o \in Nat /\ o < n
  BY <1>1 DEF Opens
<1>3. /\ k \in 1 .. Len(written)
      /\ Len(written[k].matchers) = Cardinality(Asked(ts, o, Len(ts) + 1))
  BY <1>2, WrittenAt
<1>4. Asked(ts, o, Len(ts) + 1) = Asked(ts, o, n)
  BY <1>1, <1>2, AskedAll, n \in Nat, Len(ts) + 1 \in Nat, n \leq Len(ts) + 1
<1>5. /\ Len(sel.matchers) = Cardinality(Asked(ts, o, n))
      /\ \A j \in DOMAIN sel.matchers : sel.matchers[j] = written[k].matchers[j]
  BY DEF Filling
<1>6. written[k] \in Selector
  BY <1>3
<1>. QED BY <1>3, <1>4, <1>5, <1>6, SelectorsEqual

LEMMA FilledFirst ==
    ASSUME NEW ts, NEW written
    PROVE  Filled(ts, 1, << >>, written)
<1>1. Opens(ts, 1) = {}
  BY DEF Opens
<1>2. Cardinality(Opens(ts, 1)) = 0
  BY <1>1, FS_EmptySet
<1>3. ~InBraces(ts, 1)
  BY WithinFirst DEF InBraces
<1>. QED BY <1>2, <1>3 DEF Filled

\* Read to the end, the selectors are the query's.
LEMMA FilledLast ==
    ASSUME NEW ts, Text(ts), NEW written \in Seq(Selector), Written(ts, written),
           NEW n \in 1 .. (Len(ts) + 1), n = Len(ts) + 1 \/ ts[n] = RightBrace,
           NEW sels, Filled(ts, n, sels, written)
    PROVE  /\ Len(sels) \leq Len(written)
           /\ \A k \in DOMAIN sels : sels[k] = written[k]
           /\ n = Len(ts) + 1 => sels = written
<1>1. sels \in Seq(Selector) /\ Len(sels) = Cardinality(Opens(ts, n))
  BY DEF Filled
<1>2. Len(ts) \in Nat /\ n \in Nat
  BY DEF Text
<1>3. Len(sels) \leq Len(written)
  BY <1>1, <1>2, OpensGrow, Len(ts) + 1 \in Nat, n \leq Len(ts) + 1 DEF Written
<1>4. ASSUME NEW k \in DOMAIN sels
      PROVE  sels[k] = written[k]
  <2>1. CASE k < Len(sels) \/ ~InBraces(ts, n)
    BY <2>1 DEF Filled
  <2>2. CASE k = Len(sels) /\ InBraces(ts, n)
    <3>1. PICK o \in Opens(ts, n) :
            /\ k = Cardinality(Opens(ts, o + 1))
            /\ Filling(ts, n, sels[k], written[k], o)
      BY <2>2 DEF Filled
    <3>2. sels[k].metric = written[k].metric
      BY DEF Filled
    <3>3. sels[k] \in Selector
      BY <1>1
    <3>. QED BY <3>1, <3>2, <3>3, FullAtClose
  <2>. QED BY <1>1, <2>1, <2>2
<1>5. ASSUME n = Len(ts) + 1
      PROVE  sels = written
  <2>1. Len(sels) = Len(written)
    BY <1>1, <1>5 DEF Written
  <2>. QED BY <1>1, <1>4, <2>1
<1>. QED BY <1>3, <1>4, <1>5

\* A token that is no brace and no matcher with a value changes no selector.
LEMMA FilledPass ==
    ASSUME NEW ts, Text(ts), NEW written,
           NEW i \in 1 .. Len(ts), ts[i] \notin {LeftBrace, RightBrace},
           ~(LabelAt(ts, i) /\ Valued(ts, i)),
           NEW sels, Filled(ts, i, sels, written)
    PROVE  Filled(ts, i + 1, sels, written)
<1>1. Len(ts) \in Nat /\ i \in Nat \ {0}
  BY DEF Text
<1>2. Cardinality(Opens(ts, i + 1)) = Cardinality(Opens(ts, i))
  <2>1. Cardinality(Opens(ts, i)) \in Nat
    BY <1>1, OpensFinite
  <2>2. Cardinality(Opens(ts, i + 1)) = Cardinality(Opens(ts, i)) + 0
    BY <1>1, OpensNext
  <2>. QED BY <2>1, <2>2
<1>3. InBraces(ts, i + 1) <=> InBraces(ts, i)
  BY <1>1, WithinNext DEF InBraces
<1>4. ASSUME NEW o \in Opens(ts, i), NEW sel, NEW whole, Filling(ts, i, sel, whole, o)
      PROVE  o \in Opens(ts, i + 1) /\ Filling(ts, i + 1, sel, whole, o)
  <2>1. o \in Nat /\ o < i /\ o \in Opens(ts, i + 1)
    BY <1>1 DEF Opens
  <2>2. \A k \in (o + 1) .. (i - 1) : ts[k] # RightBrace
    BY <1>4 DEF Filling
  <2>3. Asked(ts, o, i + 1) = Asked(ts, o, i)
    BY <1>1, <2>1, <2>2, AskedNext
  <2>4. o \in 1 .. ((i + 1) - 1) /\ \A k \in (o + 1) .. ((i + 1) - 1) : ts[k] # RightBrace
    BY <1>1, <2>1, <2>2, <1>4 DEF Filling
  <2>. QED BY <1>4, <2>1, <2>3, <2>4 DEF Filling
<1>5. ASSUME InBraces(ts, i + 1)
      PROVE  \E o \in Opens(ts, i + 1) :
                /\ Len(sels) = Cardinality(Opens(ts, o + 1))
                /\ Filling(ts, i + 1, sels[Len(sels)], written[Len(sels)], o)
  <2>1. PICK o \in Opens(ts, i) :
            /\ Len(sels) = Cardinality(Opens(ts, o + 1))
            /\ Filling(ts, i, sels[Len(sels)], written[Len(sels)], o)
    BY <1>3, <1>5 DEF Filled
  <2>. QED BY <2>1, <1>4
<1>. QED BY <1>2, <1>3, <1>5 DEF Filled

\* A closing brace completes the selector that was being filled.
LEMMA FilledClose ==
    ASSUME NEW ts, Text(ts), NEW written \in Seq(Selector), Written(ts, written),
           NEW i \in 1 .. Len(ts), ts[i] = RightBrace,
           NEW sels, Filled(ts, i, sels, written)
    PROVE  Filled(ts, i + 1, sels, written)
<1>1. Len(ts) \in Nat /\ i \in Nat \ {0} /\ i \in 1 .. (Len(ts) + 1)
  BY DEF Text
<1>2. ts[i] # LeftBrace
  BY MarksDiffer
<1>3. Cardinality(Opens(ts, i + 1)) = Cardinality(Opens(ts, i))
  <2>1. Cardinality(Opens(ts, i)) \in Nat
    BY <1>1, OpensFinite
  <2>2. Cardinality(Opens(ts, i + 1)) = Cardinality(Opens(ts, i)) + 0
    BY <1>1, <1>2, OpensNext
  <2>. QED BY <2>1, <2>2
<1>4. ~InBraces(ts, i + 1)
  BY <1>1, <1>2, WithinNext DEF InBraces
<1>5. \A k \in DOMAIN sels : sels[k] = written[k]
  BY <1>1, FilledLast
<1>. QED BY <1>3, <1>4, <1>5 DEF Filled

\* An opening brace starts a selector, with the metric just before it.
LEMMA FilledOpen ==
    ASSUME NEW ts, Text(ts), NEW written \in Seq(Selector), Written(ts, written),
           NEW i \in 1 .. Len(ts), ts[i] = LeftBrace, ~InBraces(ts, i),
           NEW sels, Filled(ts, i, sels, written)
    PROVE  Filled(ts, i + 1,
                  Append(sels, [metric |-> MetricOf(ts, i), matchers |-> << >>]), written)
<1>. DEFINE new == [metric |-> MetricOf(ts, i), matchers |-> << >>]
            more == Append(sels, new)
            n == Len(sels) + 1
<1>1. Len(ts) \in Nat /\ i \in Nat \ {0} /\ i + 1 \in Nat
  BY DEF Text
<1>2. sels \in Seq(Selector) /\ Len(sels) = Cardinality(Opens(ts, i)) /\ Len(sels) \in Nat
  BY DEF Filled
<1>3. n = Cardinality(Opens(ts, i + 1))
  BY <1>1, <1>2, OpensNext
<1>4. i \in Opens(ts, Len(ts) + 1) /\ i \in Opens(ts, i + 1)
  BY <1>1 DEF Opens
<1>5. n \in 1 .. Len(written) /\ written[n].metric = MetricOf(ts, i)
  BY <1>3, <1>4, WrittenAt
<1>6. new \in Selector
  <2>1. written[n] \in Selector
    BY <1>5
  <2>2. written[n].metric \in STRING
    BY <2>1 DEF Selector
  <2>3. << >> \in Seq(Matcher)
    OBVIOUS
  <2>. QED BY <1>5, <2>2, <2>3 DEF Selector
<1>7. new.metric = MetricOf(ts, i) /\ new.matchers = << >>
  OBVIOUS
<1>. HIDE DEF new
<1>8. /\ more \in Seq(Selector) /\ Len(more) = n /\ more[n] = new
      /\ DOMAIN more = 1 .. n
      /\ \A k \in 1 .. Len(sels) : more[k] = sels[k]
  BY <1>2, <1>6
<1>. HIDE DEF more
<1>9. ASSUME NEW k \in DOMAIN more
      PROVE  more[k].metric = written[k].metric /\ (k < n => more[k] = written[k])
  <2>1. CASE k = n
    BY <2>1, <1>2, <1>5, <1>7, <1>8
  <2>2. CASE k \in 1 .. Len(sels)
    BY <2>2, <1>2, <1>8 DEF Filled
  <2>. QED BY <1>2, <1>8, <2>1, <2>2
<1>10. InBraces(ts, i + 1)
  BY <1>1, WithinNext DEF InBraces
<1>11. Filling(ts, i + 1, new, written[n], i)
  <2>1. Len(new.matchers) = Cardinality(Asked(ts, i, i + 1))
    BY <1>1, <1>7, AskedNone
  <2>2. DOMAIN new.matchers = {}
    BY <1>7
  <2>3. i \in 1 .. ((i + 1) - 1) /\ \A k \in (i + 1) .. ((i + 1) - 1) : ts[k] # RightBrace
    BY <1>1
  <2>. QED BY <2>1, <2>2, <2>3 DEF Filling
<1>12. Filled(ts, i + 1, more, written)
  BY <1>3, <1>4, <1>8, <1>9, <1>10, <1>11 DEF Filled
<1>. QED BY <1>12 DEF more, new

\* A matcher goes to the selector that is being filled, after those before it.
LEMMA FilledMatch ==
    ASSUME NEW ts, Text(ts), NEW written \in Seq(Selector), Written(ts, written),
           NEW i \in 1 .. Len(ts), LabelAt(ts, i), Valued(ts, i),
           ts[i] \notin {LeftBrace, RightBrace},
           NEW sels, Filled(ts, i, sels, written)
    PROVE  Filled(ts, i + 1,
                  [sels EXCEPT ![Len(sels)].matchers = Append(@, MatcherOf(ts, i))], written)
<1>. DEFINE n == Len(sels)
            last == sels[n]
            new == [last EXCEPT !.matchers = Append(@, MatcherOf(ts, i))]
            more == [sels EXCEPT ![n] = new]
<1>1. Len(ts) \in Nat /\ i \in Nat \ {0} /\ i + 1 \in Nat
  BY DEF Text
<1>2. sels \in Seq(Selector) /\ n = Cardinality(Opens(ts, i)) /\ n \in Nat
  BY DEF Filled
<1>3. Cardinality(Opens(ts, i + 1)) = n
  BY <1>1, <1>2, OpensNext
<1>4. InBraces(ts, i) /\ InBraces(ts, i + 1)
  BY <1>1, WithinNext DEF LabelAt, MatcherAt, InBraces
<1>5. PICK o \in Opens(ts, i) : /\ n = Cardinality(Opens(ts, o + 1))
                               /\ Filling(ts, i, last, written[n], o)
  BY <1>4 DEF Filled
<1>6. o \in Nat /\ o < i /\ o \in Opens(ts, Len(ts) + 1) /\ o \in Opens(ts, i + 1)
  BY <1>1 DEF Opens
<1>7. /\ n \in 1 .. Len(written)
      /\ Len(written[n].matchers) = Cardinality(Asked(ts, o, Len(ts) + 1))
      /\ \A k \in Asked(ts, o, Len(ts) + 1) :
            written[n].matchers[Cardinality(Asked(ts, o, k + 1))] = MatcherOf(ts, k)
  BY <1>5, <1>6, WrittenAt
<1>. DEFINE m == Cardinality(Asked(ts, o, i)) + 1
<1>8. /\ \A k \in (o + 1) .. (i - 1) : ts[k] # RightBrace
      /\ Len(last.matchers) = Cardinality(Asked(ts, o, i))
      /\ \A j \in DOMAIN last.matchers : last.matchers[j] = written[n].matchers[j]
  BY <1>5 DEF Filling
<1>9. i \in Asked(ts, o, i + 1) /\ Cardinality(Asked(ts, o, i + 1)) = m
  BY <1>1, <1>6, <1>8, AskedNext
<1>10. /\ i \in Asked(ts, o, Len(ts) + 1)
       /\ m \leq Cardinality(Asked(ts, o, Len(ts) + 1))
  BY <1>1, <1>6, <1>9, AskedGrow, Len(ts) + 1 \in Nat, i + 1 \leq Len(ts) + 1
<1>11. Cardinality(Asked(ts, o, i)) \in Nat /\ Cardinality(Asked(ts, o, Len(ts) + 1)) \in Nat
  BY <1>1, <1>6, AskedFinite, Len(ts) + 1 \in Nat
<1>12. written[n].matchers[m] = MatcherOf(ts, i)
  BY <1>7, <1>9, <1>10
<1>13. /\ n \in DOMAIN sels /\ last \in Selector /\ last.metric = written[n].metric
       /\ last.matchers \in Seq(Matcher)
  <2>1. n \in 1 .. Len(sels)
    BY <1>2, <1>7
  <2>2. n \in DOMAIN sels /\ last \in Selector
    BY <1>2, <2>1
  <2>. QED BY <2>2 DEF Filled, Selector
<1>14. MatcherOf(ts, i) \in Matcher
  <2>1. written[n].matchers \in Seq(Matcher)
    <3>1. written[n] \in Selector
      BY <1>7
    <3>. QED BY <3>1 DEF Selector
  <2>2. m \in 1 .. Len(written[n].matchers)
    BY <1>7, <1>10, <1>11
  <2>3. written[n].matchers[m] \in Matcher
    BY <2>1, <2>2
  <2>. QED BY <1>12, <2>3
<1>. DEFINE asked == Append(last.matchers, MatcherOf(ts, i))
<1>15. /\ asked \in Seq(Matcher) /\ Len(asked) = m /\ DOMAIN asked = 1 .. m
       /\ asked[m] = MatcherOf(ts, i)
       /\ \A j \in 1 .. (m - 1) : asked[j] = last.matchers[j]
  BY <1>8, <1>11, <1>13, <1>14
<1>16. \A j \in DOMAIN asked : asked[j] = written[n].matchers[j]
  <2>. HIDE DEF asked
  <2>1. DOMAIN last.matchers = 1 .. (m - 1)
    BY <1>8, <1>11, <1>13
  <2>2. m \in Nat
    BY <1>11
  <2>. HIDE DEF m
  <2>3. ASSUME NEW j \in 1 .. (m - 1)
        PROVE  asked[j] = written[n].matchers[j]
    BY <1>8, <1>15, <2>1
  <2>. QED BY <1>12, <1>15, <2>2, <2>3
<1>17. new \in Selector /\ new.metric = written[n].metric /\ new.matchers = asked
  <2>. HIDE DEF asked
  <2>1. new = [last EXCEPT !.matchers = asked]
    BY DEF asked
  <2>. QED BY <1>13, <1>15, <2>1 DEF Selector
<1>. HIDE DEF asked, new
<1>18. /\ more \in Seq(Selector) /\ Len(more) = n /\ more[n] = new
       /\ DOMAIN more = DOMAIN sels
       /\ \A k \in DOMAIN sels : k # n => more[k] = sels[k]
  BY <1>2, <1>13, <1>17
<1>. HIDE DEF more
<1>19. ASSUME NEW k \in DOMAIN more
       PROVE  more[k].metric = written[k].metric /\ (k < n => more[k] = written[k])
  <2>1. CASE k = n
    BY <1>2, <2>1, <1>17, <1>18
  <2>2. CASE k # n
    BY <2>2, <1>2, <1>18 DEF Filled
  <2>. QED BY <2>1, <2>2
<1>20. Filling(ts, i + 1, new, written[n], o)
  <2>1. o \in 1 .. ((i + 1) - 1) /\ ts[o] = LeftBrace
    BY <1>1, <1>6 DEF Opens
  <2>2. \A k \in (o + 1) .. ((i + 1) - 1) : ts[k] # RightBrace
    BY <1>1, <1>6, <1>8
  <2>. QED BY <1>9, <1>15, <1>16, <1>17, <2>1, <2>2 DEF Filling
<1>21. Filled(ts, i + 1, more, written)
  BY <1>3, <1>4, <1>5, <1>6, <1>18, <1>19, <1>20 DEF Filled
<1>22. more = [sels EXCEPT ![Len(sels)].matchers = Append(@, MatcherOf(ts, i))]
  BY DEF more, new
<1>. QED BY <1>21, <1>22

-----------------------------------------------------------------------------
(* Reading a token                                                           *)

\* The selectors told by what stands before their braces are the query's but for the
\* metric of those that name it inside.
LEMMA PrefixedIs ==
    ASSUME name \in DOMAIN Query
    PROVE  /\ query.selectors \in Seq(Selector) /\ Prefixed(query) \in Seq(Selector)
           /\ Len(Prefixed(query)) = Len(query.selectors)
           /\ \A i \in DOMAIN query.selectors :
                /\ Prefixed(query)[i].matchers = query.selectors[i].matchers
                /\ i \in query.inside => Prefixed(query)[i].metric = None
                /\ i \notin query.inside => Prefixed(query)[i] = query.selectors[i]
<1>. DEFINE whole == query.selectors
            sel(i) == [whole[i] EXCEPT !.metric = IF i \in query.inside THEN None ELSE @]
<1>1. whole \in Seq(Selector)
  BY QueryAssumption DEF query
<1>2. Prefixed(query) = [i \in DOMAIN whole |-> sel(i)]
  BY DEF Prefixed
<1>3. ASSUME NEW i \in DOMAIN whole
      PROVE  /\ sel(i) \in Selector /\ sel(i).matchers = whole[i].matchers
             /\ i \in query.inside => sel(i).metric = None
             /\ i \notin query.inside => sel(i) = whole[i]
  <2>1. whole[i] \in Selector
    BY <1>1
  <2>2. None \in STRING
    BY ParamAssumption
  <2>. HIDE DEF whole
  <2>. QED BY <2>1, <2>2 DEF Selector
<1>. HIDE DEF sel, whole
<1>4. DOMAIN whole = 1 .. Len(whole) /\ Len(whole) \in Nat
  BY <1>1
<1>5. Prefixed(query) \in Seq(Selector) /\ Len(Prefixed(query)) = Len(whole)
  BY <1>2, <1>3, <1>4
<1>. QED BY <1>1, <1>2, <1>3, <1>5 DEF whole

LEMMA QueryKnown ==
    ASSUME name \in DOMAIN Query
    PROVE  /\ Text(toks) /\ WellFormed(toks)
           /\ query.metrics = MetricsBefore(toks, Len(toks) + 1)
           /\ query.labels = LabelsBefore(toks, Len(toks) + 1)
           /\ Written(toks, Prefixed(query))
           /\ Prefixed(query) \in Seq(Selector)
           /\ query.metrics \subseteq STRING /\ query.labels \subseteq STRING
<1>1. query \in [tokens : Seq(Token), metrics : SUBSET STRING, labels : SUBSET STRING,
                 selectors : Seq(Selector), inside : SUBSET Nat,
                 uses : SUBSET [metric : STRING, matchers : SUBSET Matcher],
                 alternatives : SUBSET SUBSET [metric : STRING, matchers : SUBSET Matcher]]
  BY QueryAssumption DEF query
<1>2. /\ toks \in Seq(Token) /\ Prefixed(query) \in Seq(Selector)
      /\ query.metrics \subseteq STRING /\ query.labels \subseteq STRING
  BY <1>1, PrefixedIs DEF toks
<1>3. /\ WellFormed(toks)
      /\ query.metrics = MetricsBefore(toks, Len(toks) + 1)
      /\ query.labels = LabelsBefore(toks, Len(toks) + 1)
      /\ Written(toks, Prefixed(query))
  BY NotationAssumption DEF query, toks
<1>. QED BY <1>2, <1>3, TextOfTokens

\* The next token of a query that is being read.
AtToken == TypeOK /\ Extracting /\ phase = "extract" /\ at \in 1 .. Len(toks)

\* What the code's nesting and its next tokens say is where the token stands and what it is.
LEMMA HereIs ==
    ASSUME AtToken
    PROVE  /\ Text(toks) /\ Tok = toks[at] /\ Len(toks) \in Nat /\ at \in Nat \ {0}
           /\ bracket \in {0, 1} /\ (bracket = 1 <=> InBrackets(toks, at))
           /\ depth \in {0, 1} /\ (depth = 1 <=> InBraces(toks, at))
           /\ at \in consumed <=> at \in Listed(toks, at)
<1>1. Text(toks) /\ at \in 1 .. Len(toks)
  BY QueryKnown DEF AtToken, TypeOK
<1>2. Tok = toks[at]
  BY <1>1, Peeked DEF Tok, Peek
<1>3. Len(toks) \in Nat /\ at \in Nat \ {0}
  BY <1>1 DEF Text
<1>. QED BY <1>1, <1>2, <1>3 DEF AtToken, Extracting

LEMMA HereDenotes ==
    ASSUME AtToken
    PROVE  /\ MatcherAt(toks, at) <=> bracket = 0 /\ IsMatcher
           /\ ClauseAt(toks, at) <=>
                  bracket = 0 /\ depth = 0 /\ Tok.kind = "ident" /\ Tok.text \in groupingKeywords
           /\ MetricAt(toks, at) <=> bracket = 0 /\ NamesMetric /\ at \notin consumed
<1>1. /\ Tok = toks[at]
      /\ bracket \in {0, 1} /\ (bracket = 1 <=> InBrackets(toks, at))
      /\ depth \in {0, 1} /\ (depth = 1 <=> InBraces(toks, at))
      /\ at \in consumed <=> at \in Listed(toks, at)
  BY HereIs
<1>2. Outside(toks, at) <=> bracket = 0 /\ depth = 0
  BY <1>1 DEF Outside
<1>3. MatcherAt(toks, at) <=> bracket = 0 /\ IsMatcher
  BY <1>1 DEF MatcherAt, IsMatcher, Peek
<1>4. ClauseAt(toks, at) <=>
          bracket = 0 /\ depth = 0 /\ Tok.kind = "ident" /\ Tok.text \in groupingKeywords
  BY <1>1, <1>2 DEF ClauseAt
<1>5. MetricAt(toks, at) <=> bracket = 0 /\ NamesMetric /\ at \notin consumed
  BY <1>1, <1>2 DEF MetricAt, NamesMetric, Peek
<1>. QED BY <1>3, <1>4, <1>5

\* A token is one thing at most, and a mark is none.
LEMMA OneThing ==
    ASSUME AtToken
    PROVE  /\ Tok \in Marks => /\ ~MatcherAt(toks, at) /\ ~ClauseAt(toks, at)
                               /\ ~MetricAt(toks, at)
           /\ ~(MatcherAt(toks, at) /\ ClauseAt(toks, at))
           /\ ~(MatcherAt(toks, at) /\ MetricAt(toks, at))
           /\ ~(ClauseAt(toks, at) /\ MetricAt(toks, at))
<1>1. Tok = toks[at]
  BY HereIs
<1>2. Tok \in Marks => Tok.kind # "ident"
  BY WordsAreNoMarks
<1>3. groupingKeywords \subseteq keywords \cup aggregators
  BY DEF groupingKeywords, keywords
<1>4. MatcherAt(toks, at) => toks[at].kind = "ident" /\ InBraces(toks, at)
  BY DEF MatcherAt
<1>5. ClauseAt(toks, at) =>
          toks[at].kind = "ident" /\ ~InBraces(toks, at) /\ toks[at].text \in groupingKeywords
  BY DEF ClauseAt, Outside
<1>6. MetricAt(toks, at) =>
          /\ toks[at].kind = "ident" /\ ~InBraces(toks, at)
          /\ toks[at].text \notin keywords \cup aggregators
  BY DEF MetricAt, Outside
<1>. HIDE DEF groupingKeywords, keywords, aggregators
<1>. QED BY <1>1, <1>2, <1>3, <1>4, <1>5, <1>6

\* To read a token is to go on to the next with what the token denotes.
LEMMA Read ==
    ASSUME AtToken, Consume,
           bracket' = IF Tok = LeftBracket THEN 1 ELSE IF Tok = RightBracket THEN 0 ELSE bracket,
           depth' = IF Tok = LeftBrace THEN 1 ELSE IF Tok = RightBrace THEN 0 ELSE depth,
           consumed' = consumed \cup IF ClauseAt(toks, at) THEN Grouping(toks, at + 1) ELSE {},
           metrics' = metrics
               \cup (IF MetricAt(toks, at) THEN {Tok.text} ELSE {})
               \cup (IF NameAt(toks, at) /\ Valued(toks, at)
                     THEN {TokenAt(toks, at + 2).text} ELSE {}),
           labels' = labels
               \cup (IF LabelAt(toks, at) THEN {Tok.text} ELSE {})
               \cup (IF ClauseAt(toks, at) THEN Names(toks, at + 1) ELSE {}),
           Filled(toks, at + 1, selectors', Prefixed(query))
    PROVE  Extracting'
<1>1. /\ at' = at + 1 /\ toks' = toks /\ query' = query /\ phase' = phase
  BY DEF Consume, toks, query
<1>2. /\ Tok = toks[at] /\ Len(toks) \in Nat /\ at \in Nat \ {0}
      /\ bracket \in {0, 1} /\ (bracket = 1 <=> InBrackets(toks, at))
      /\ depth \in {0, 1} /\ (depth = 1 <=> InBraces(toks, at))
  BY HereIs
<1>3. /\ consumed = Listed(toks, at) /\ metrics = MetricsBefore(toks, at)
      /\ labels = LabelsBefore(toks, at) /\ at \in 1 .. Len(toks)
  BY DEF AtToken, Extracting
<1>4. bracket' = IF InBrackets(toks, at + 1) THEN 1 ELSE 0
  BY <1>2, WithinNext DEF InBrackets
<1>5. depth' = IF InBraces(toks, at + 1) THEN 1 ELSE 0
  BY <1>2, WithinNext DEF InBraces
<1>6. consumed' = Listed(toks, at + 1)
  BY <1>2, <1>3, ListedNext
<1>7. metrics' = MetricsBefore(toks, at + 1)
  BY <1>2, <1>3, MetricsNext
<1>8. labels' = LabelsBefore(toks, at + 1)
  BY <1>2, <1>3, LabelsNext
<1>9. at' \in 1 .. (Len(toks) + 1)
  BY <1>1, <1>2, <1>3
<1>. QED BY <1>1, <1>4, <1>5, <1>6, <1>7, <1>8, <1>9 DEF Extracting

-----------------------------------------------------------------------------
(* The actions of Extract                                                    *)

\* A token that denotes nothing is passed over.
LEMMA ReadNothing ==
    ASSUME AtToken, Consume, UNCHANGED extraction,
           Tok \notin {LeftBracket, RightBracket, LeftBrace, RightBrace},
           ~MetricAt(toks, at), ~MatcherAt(toks, at),
           ClauseAt(toks, at) =>
               Grouping(toks, at + 1) = {} /\ Names(toks, at + 1) = {}
    PROVE  Extracting'
<1>1. /\ bracket' = bracket /\ depth' = depth /\ consumed' = consumed
      /\ metrics' = metrics /\ labels' = labels /\ selectors' = selectors
  BY DEF extraction
<1>2. ~NameAt(toks, at) /\ ~LabelAt(toks, at)
  BY DEF NameAt, LabelAt
<1>3. Filled(toks, at + 1, selectors', Prefixed(query))
  <2>1. Text(toks) /\ Tok = toks[at] /\ at \in 1 .. Len(toks)
    BY HereIs DEF AtToken
  <2>2. Filled(toks, at, selectors, Prefixed(query))
    BY DEF AtToken, Extracting
  <2>. QED BY <1>1, <1>2, <2>1, <2>2, FilledPass
<1>4. /\ bracket' = IF Tok = LeftBracket THEN 1 ELSE IF Tok = RightBracket THEN 0 ELSE bracket
      /\ depth' = IF Tok = LeftBrace THEN 1 ELSE IF Tok = RightBrace THEN 0 ELSE depth
  BY <1>1
<1>5. /\ consumed' = consumed \cup IF ClauseAt(toks, at) THEN Grouping(toks, at + 1) ELSE {}
      /\ metrics' = metrics
            \cup (IF MetricAt(toks, at) THEN {Tok.text} ELSE {})
            \cup (IF NameAt(toks, at) /\ Valued(toks, at)
                  THEN {TokenAt(toks, at + 2).text} ELSE {})
      /\ labels' = labels
            \cup (IF LabelAt(toks, at) THEN {Tok.text} ELSE {})
            \cup (IF ClauseAt(toks, at) THEN Names(toks, at + 1) ELSE {})
  BY <1>1, <1>2
<1>. QED BY <1>3, <1>4, <1>5, Read

LEMMA SkipReads ==
    ASSUME TypeOK, Extracting, Skip
    PROVE  Extracting'
<1>1. AtToken /\ at \in consumed /\ Consume /\ UNCHANGED extraction
  <2>1. at \in 1 .. (Len(toks) + 1) /\ Len(toks) \in Nat
    BY QueryKnown DEF Skip, Extracting, TypeOK, Text
  <2>. QED BY <2>1 DEF AtToken, Skip
<1>2. /\ Text(toks) /\ WellFormed(toks) /\ Tok = toks[at] /\ at \in Nat /\ at \in 1 .. Len(toks)
      /\ at \in Listed(toks, at)
  BY <1>1, HereIs, QueryKnown DEF AtToken, TypeOK
<1>3. /\ Outside(toks, at)
      /\ toks[at] \notin {LeftBracket, RightBracket, LeftBrace, RightBrace}
  BY <1>2, ListedOutside
<1>4. ~MetricAt(toks, at) /\ ~MatcherAt(toks, at)
  BY <1>2, <1>3 DEF MetricAt, MatcherAt, Outside
<1>5. ClauseAt(toks, at) => Grouping(toks, at + 1) = {} /\ Names(toks, at + 1) = {}
  BY <1>2, ListedStartsNone
<1>. QED BY <1>1, <1>2, <1>3, <1>4, <1>5, ReadNothing

LEMMA ReadingReads ==
    ASSUME TypeOK, Extracting, Reading
    PROVE  AtToken /\ at \notin consumed
<1>1. at \in 1 .. (Len(toks) + 1) /\ Len(toks) \in Nat
  BY QueryKnown DEF Reading, Extracting, TypeOK, Text
<1>. QED BY <1>1 DEF AtToken, Reading

LEMMA PassOverReads ==
    ASSUME TypeOK, Extracting, PassOver
    PROVE  Extracting'
<1>1. AtToken /\ at \notin consumed /\ Consume /\ UNCHANGED extraction
  BY ReadingReads DEF PassOver
<1>2. /\ WellFormed(toks) /\ Tok = toks[at] /\ at \in DOMAIN toks
      /\ bracket \in {0, 1} /\ (bracket = 1 <=> InBrackets(toks, at))
  <2>1. at \in 1 .. Len(toks) /\ Text(toks)
    BY <1>1, HereIs DEF AtToken
  <2>. QED BY <1>1, <2>1, HereIs, QueryKnown DEF AtToken, TypeOK, Text
<1>3. Tok \notin {LeftBracket, RightBracket}
  BY DEF PassOver
<1>4. CASE bracket > 0
  <2>1. InBrackets(toks, at) /\ bracket # 0
    BY <1>2, <1>4
  <2>2. Tok \notin {LeftBrace, RightBrace}
    BY <1>2, <2>1 DEF WellFormed
  <2>3. ~MetricAt(toks, at) /\ ~MatcherAt(toks, at) /\ ~ClauseAt(toks, at)
    BY <2>1 DEF MetricAt, MatcherAt, ClauseAt, Outside
  <2>. QED BY <1>1, <1>3, <2>2, <2>3, ReadNothing
<1>5. CASE ~(bracket > 0)
  <2>1. /\ Tok \notin {LeftBrace, RightBrace} /\ ~IsMatcher /\ ~NamesMetric
        /\ ~(depth = 0 /\ Tok.kind = "ident" /\ Tok.text \in groupingKeywords)
    BY <1>5 DEF PassOver
  <2>2. ~MetricAt(toks, at) /\ ~MatcherAt(toks, at) /\ ~ClauseAt(toks, at)
    BY <1>1, <2>1, HereDenotes
  <2>. QED BY <1>1, <1>3, <2>1, <2>2, ReadNothing
<1>. QED BY <1>4, <1>5

\* Brackets and braces denote nothing themselves.
LEMMA MarkReads ==
    ASSUME AtToken, Consume, Tok \in Marks,
           consumed' = consumed, metrics' = metrics, labels' = labels,
           bracket' = IF Tok = LeftBracket THEN 1 ELSE IF Tok = RightBracket THEN 0 ELSE bracket,
           depth' = IF Tok = LeftBrace THEN 1 ELSE IF Tok = RightBrace THEN 0 ELSE depth,
           Filled(toks, at + 1, selectors', Prefixed(query))
    PROVE  Extracting'
<1>1. ~MatcherAt(toks, at) /\ ~ClauseAt(toks, at) /\ ~MetricAt(toks, at)
  BY OneThing
<1>2. ~NameAt(toks, at) /\ ~LabelAt(toks, at)
  BY <1>1 DEF NameAt, LabelAt
<1>3. /\ consumed' = consumed \cup IF ClauseAt(toks, at) THEN Grouping(toks, at + 1) ELSE {}
      /\ metrics' = metrics
            \cup (IF MetricAt(toks, at) THEN {Tok.text} ELSE {})
            \cup (IF NameAt(toks, at) /\ Valued(toks, at)
                  THEN {TokenAt(toks, at + 2).text} ELSE {})
      /\ labels' = labels
            \cup (IF LabelAt(toks, at) THEN {Tok.text} ELSE {})
            \cup (IF ClauseAt(toks, at) THEN Names(toks, at + 1) ELSE {})
  BY <1>1, <1>2
<1>. QED BY <1>3, Read

\* A bracket changes no selector.
LEMMA BracketFills ==
    ASSUME AtToken, Tok \in {LeftBracket, RightBracket}
    PROVE  Filled(toks, at + 1, selectors, Prefixed(query))
<1>1. Text(toks) /\ Tok = toks[at] /\ at \in 1 .. Len(toks)
  BY HereIs DEF AtToken
<1>2. Filled(toks, at, selectors, Prefixed(query))
  BY DEF AtToken, Extracting
<1>3. ~LabelAt(toks, at)
  BY OneThing DEF LabelAt, Marks
<1>4. Tok \notin {LeftBrace, RightBrace}
  BY MarksDiffer
<1>. QED BY <1>1, <1>2, <1>3, <1>4, FilledPass

LEMMA OpenBracketReads ==
    ASSUME TypeOK, Extracting, OpenBracket
    PROVE  Extracting'
<1>1. AtToken /\ Consume /\ Tok = LeftBracket
  BY ReadingReads DEF OpenBracket
<1>2. /\ bracket' = bracket + 1 /\ depth' = depth /\ consumed' = consumed
      /\ metrics' = metrics /\ labels' = labels /\ selectors' = selectors
  BY DEF OpenBracket
<1>3. bracket = 0
  <2>1. at \in 1 .. Len(toks) /\ Text(toks) /\ Tok = toks[at]
    BY <1>1, HereIs DEF AtToken
  <2>2. WellFormed(toks) /\ at \in DOMAIN toks
    BY <1>1, <2>1, QueryKnown DEF AtToken, TypeOK, Text
  <2>3. ~InBrackets(toks, at)
    BY <1>1, <2>1, <2>2 DEF WellFormed
  <2>. QED BY <1>1, <2>3, HereIs
<1>4. Filled(toks, at + 1, selectors', Prefixed(query))
  BY <1>1, <1>2, BracketFills
<1>5. /\ bracket' = IF Tok = LeftBracket THEN 1 ELSE IF Tok = RightBracket THEN 0 ELSE bracket
      /\ depth' = IF Tok = LeftBrace THEN 1 ELSE IF Tok = RightBrace THEN 0 ELSE depth
  BY <1>1, <1>2, <1>3, MarksDiffer
<1>6. Tok \in Marks
  BY <1>1 DEF Marks
<1>. QED BY <1>1, <1>2, <1>4, <1>5, <1>6, MarkReads

LEMMA CloseBracketReads ==
    ASSUME TypeOK, Extracting, CloseBracket
    PROVE  Extracting'
<1>1. AtToken /\ Consume /\ Tok = RightBracket
  BY ReadingReads DEF CloseBracket
<1>2. /\ bracket' = IF bracket > 0 THEN bracket - 1 ELSE 0
      /\ depth' = depth /\ consumed' = consumed
      /\ metrics' = metrics /\ labels' = labels /\ selectors' = selectors
  BY DEF CloseBracket
<1>3. bracket' = 0
  BY <1>1, <1>2, HereIs
<1>4. Filled(toks, at + 1, selectors', Prefixed(query))
  BY <1>1, <1>2, BracketFills
<1>5. /\ bracket' = IF Tok = LeftBracket THEN 1 ELSE IF Tok = RightBracket THEN 0 ELSE bracket
      /\ depth' = IF Tok = LeftBrace THEN 1 ELSE IF Tok = RightBrace THEN 0 ELSE depth
  BY <1>1, <1>2, <1>3, MarksDiffer
<1>6. Tok \in Marks
  BY <1>1 DEF Marks
<1>. QED BY <1>1, <1>2, <1>4, <1>5, <1>6, MarkReads

LEMMA CloseBraceReads ==
    ASSUME TypeOK, Extracting, CloseBrace
    PROVE  Extracting'
<1>1. AtToken /\ Consume /\ Tok = RightBrace
  BY ReadingReads DEF CloseBrace
<1>2. /\ depth' = IF depth > 0 THEN depth - 1 ELSE 0
      /\ bracket' = bracket /\ consumed' = consumed
      /\ metrics' = metrics /\ labels' = labels /\ selectors' = selectors
  BY DEF CloseBrace
<1>3. depth' = 0
  BY <1>1, <1>2, HereIs
<1>4. Filled(toks, at + 1, selectors', Prefixed(query))
  <2>1. Text(toks) /\ toks[at] = RightBrace /\ at \in 1 .. Len(toks)
    BY <1>1, HereIs DEF AtToken
  <2>2. Filled(toks, at, selectors, Prefixed(query))
    BY <1>1 DEF AtToken, Extracting
  <2>3. Written(toks, Prefixed(query)) /\ Prefixed(query) \in Seq(Selector)
    BY QueryKnown DEF TypeOK
  <2>. QED BY <1>2, <2>1, <2>2, <2>3, FilledClose
<1>5. /\ bracket' = IF Tok = LeftBracket THEN 1 ELSE IF Tok = RightBracket THEN 0 ELSE bracket
      /\ depth' = IF Tok = LeftBrace THEN 1 ELSE IF Tok = RightBrace THEN 0 ELSE depth
  BY <1>1, <1>2, <1>3, MarksDiffer
<1>6. Tok \in Marks
  BY <1>1 DEF Marks
<1>. QED BY <1>1, <1>2, <1>4, <1>5, <1>6, MarkReads

\* The word before a brace is a metric of the query exactly if it was found to be one.
LEMMA MetricBeforeBrace ==
    ASSUME NEW ts, Text(ts), WellFormed(ts), NEW p \in Nat \ {0}, p + 1 \in 1 .. Len(ts),
           ts[p + 1] = LeftBrace, Outside(ts, p + 1)
    PROVE  MetricAt(ts, p) <=> ts[p].kind = "ident" /\ ts[p].text \in MetricsBefore(ts, p + 1)
<1>1. Len(ts) \in Nat /\ p + 1 \in Nat
  BY DEF Text
<1>2. ASSUME MetricAt(ts, p)
      PROVE  ts[p].kind = "ident" /\ ts[p].text \in MetricsBefore(ts, p + 1)
  BY <1>2, MetricsNext DEF MetricAt
<1>3. ASSUME ts[p].kind = "ident", ts[p].text \in MetricsBefore(ts, p + 1)
      PROVE  MetricAt(ts, p)
  <2>1. ts[p].text \in MetricsBefore(ts, Len(ts) + 1)
    BY <1>1, <1>3, MetricsGrow, Len(ts) + 1 \in Nat, p + 1 \leq Len(ts) + 1
  <2>2. ts[p].text \notin keywords \cup aggregators
    BY <2>1, Zenon DEF WellFormed
  <2>3. ts[p] \notin Marks
    BY <1>3, WordsAreNoMarks
  <2>4. ~InBrackets(ts, p)
    BY <2>3, WithinNext DEF InBrackets, Outside, Marks
  <2>5. ~InBraces(ts, p)
    BY <2>3, WithinNext DEF InBraces, Outside, Marks
  <2>6. TokenAt(ts, p + 1) = LeftBrace
    BY <1>1, Peeked
  <2>7. TokenAt(ts, p + 1) # LeftParen
    BY <2>6, MarksDiffer
  <2>8. p \notin Listed(ts, p)
    <3>1. Clauses(ts, p) \subseteq Clauses(ts, Len(ts) + 1)
      BY <1>1 DEF Clauses
    <3>2. p \in Listed(ts, p) => p \in Listed(ts, Len(ts) + 1)
      BY <3>1 DEF Listed
    <3>3. TokenAt(ts, p + 1) \notin {Comma, RightParen}
      BY <2>6, MarksDiffer
    <3>. QED BY <1>3, <3>2, <3>3 DEF WellFormed
  <2>. QED BY <1>3, <2>2, <2>4, <2>5, <2>7, <2>8 DEF MetricAt, Outside
<1>. QED BY <1>2, <1>3

LEMMA OpenBraceReads ==
    ASSUME TypeOK, Extracting, OpenBrace
    PROVE  Extracting'
<1>1. AtToken /\ Consume /\ Tok = LeftBrace /\ bracket = 0
  BY ReadingReads DEF OpenBrace
<1>2. /\ depth' = depth + 1 /\ bracket' = bracket /\ consumed' = consumed
      /\ metrics' = metrics /\ labels' = labels
  BY DEF OpenBrace
<1>3. /\ Text(toks) /\ WellFormed(toks) /\ toks[at] = LeftBrace /\ at \in 1 .. Len(toks)
      /\ at \in DOMAIN toks /\ at \in Nat \ {0}
      /\ Written(toks, Prefixed(query)) /\ Prefixed(query) \in Seq(Selector)
  <2>1. Text(toks) /\ toks[at] = LeftBrace /\ at \in 1 .. Len(toks) /\ at \in Nat \ {0}
    BY <1>1, HereIs DEF AtToken
  <2>. QED BY <2>1, QueryKnown DEF TypeOK, Text
<1>4. ~InBraces(toks, at) /\ ~InBrackets(toks, at)
  <2>1. ~InBraces(toks, at)
    BY <1>3 DEF WellFormed
  <2>. QED BY <1>1, <2>1, HereIs
<1>5. depth = 0
  BY <1>1, <1>4, HereIs
<1>. DEFINE before == Peek(at - 1)
            found == IF before.kind = "ident" /\ before.text \in metrics THEN before.text ELSE None
<1>6. selectors' = Append(selectors, [metric |-> found, matchers |-> << >>])
  BY <1>5 DEF OpenBrace
<1>7. found = MetricOf(toks, at)
  <2>1. metrics = MetricsBefore(toks, at)
    BY <1>1 DEF AtToken, Extracting
  <2>2. CASE at = 1
    <3>1. before.kind = "none"
      BY <1>3, <2>2, Peeked, 1 - 1 \notin 1 .. Len(toks) DEF Peek
    <3>2. found = None
      BY <3>1
    <3>. QED BY <2>2, <3>2 DEF MetricOf
  <2>3. CASE at # 1
    <3>. DEFINE p == at - 1
    <3>1. p \in Nat \ {0} /\ p + 1 = at /\ p \in 1 .. Len(toks) /\ at > 1 /\ p = at - 1
      BY <1>3, <2>3 DEF Text
    <3>. HIDE DEF p
    <3>2. before = toks[p]
      BY <1>3, <3>1, Peeked DEF Peek
    <3>3. MetricAt(toks, p) <=> toks[p].kind = "ident" /\ toks[p].text \in MetricsBefore(toks, at)
      <4>1. Outside(toks, at)
        BY <1>4 DEF Outside
      <4>. QED BY <1>3, <3>1, <4>1, MetricBeforeBrace
    <3>. HIDE DEF before
    <3>. QED BY <2>1, <3>1, <3>2, <3>3 DEF MetricOf
  <2>. QED BY <2>2, <2>3
<1>8. Filled(toks, at + 1, selectors', Prefixed(query))
  <2>1. Filled(toks, at, selectors, Prefixed(query))
    BY <1>1 DEF AtToken, Extracting
  <2>. HIDE DEF found
  <2>. QED BY <1>3, <1>4, <1>6, <1>7, <2>1, FilledOpen
<1>9. /\ bracket' = IF Tok = LeftBracket THEN 1 ELSE IF Tok = RightBracket THEN 0 ELSE bracket
      /\ depth' = IF Tok = LeftBrace THEN 1 ELSE IF Tok = RightBrace THEN 0 ELSE depth
  BY <1>1, <1>2, <1>5, MarksDiffer
<1>10. Tok \in Marks
  BY <1>1 DEF Marks
<1>. QED BY <1>1, <1>2, <1>8, <1>9, <1>10, MarkReads

\* A word is none of the marks, and fills a selector only as the label of a matcher.
LEMMA WordReads ==
    ASSUME AtToken, Consume, Tok.kind = "ident", bracket' = bracket, depth' = depth,
           consumed' = consumed \cup IF ClauseAt(toks, at) THEN Grouping(toks, at + 1) ELSE {},
           metrics' = metrics
               \cup (IF MetricAt(toks, at) THEN {Tok.text} ELSE {})
               \cup (IF NameAt(toks, at) /\ Valued(toks, at)
                     THEN {TokenAt(toks, at + 2).text} ELSE {}),
           labels' = labels
               \cup (IF LabelAt(toks, at) THEN {Tok.text} ELSE {})
               \cup (IF ClauseAt(toks, at) THEN Names(toks, at + 1) ELSE {}),
           IF LabelAt(toks, at) /\ Valued(toks, at)
           THEN AddMatcher(MatcherOf(toks, at)) ELSE selectors' = selectors
    PROVE  Extracting'
<1>1. Tok \notin {LeftBracket, RightBracket, LeftBrace, RightBrace}
  BY WordsAreNoMarks DEF Marks
<1>2. /\ Text(toks) /\ Tok = toks[at] /\ at \in 1 .. Len(toks)
      /\ Written(toks, Prefixed(query)) /\ Prefixed(query) \in Seq(Selector)
  BY HereIs, QueryKnown DEF AtToken, TypeOK
<1>3. Filled(toks, at, selectors, Prefixed(query))
  BY DEF AtToken, Extracting
<1>4. Filled(toks, at + 1, selectors', Prefixed(query))
  <2>1. CASE LabelAt(toks, at) /\ Valued(toks, at)
    <3>. DEFINE more == [selectors EXCEPT ![Len(selectors)].matchers =
                            Append(@, MatcherOf(toks, at))]
    <3>1. Filled(toks, at + 1, more, Prefixed(query))
      BY <1>1, <1>2, <1>3, <2>1, FilledMatch
    <3>2. selectors' = more
      BY <2>1 DEF AddMatcher
    <3>. HIDE DEF more
    <3>. QED BY <3>1, <3>2
  <2>2. CASE ~(LabelAt(toks, at) /\ Valued(toks, at))
    BY <1>1, <1>2, <1>3, <2>2, FilledPass
  <2>. QED BY <2>1, <2>2
<1>5. /\ bracket' = IF Tok = LeftBracket THEN 1 ELSE IF Tok = RightBracket THEN 0 ELSE bracket
      /\ depth' = IF Tok = LeftBrace THEN 1 ELSE IF Tok = RightBrace THEN 0 ELSE depth
  BY <1>1
<1>. QED BY <1>4, <1>5, Read

LEMMA NameMatcherReads ==
    ASSUME TypeOK, Extracting, NameMatcher
    PROVE  Extracting'
<1>1. AtToken /\ Consume /\ bracket = 0 /\ IsMatcher /\ Tok.text = "__name__"
  BY ReadingReads DEF NameMatcher
<1>2. /\ depth' = depth /\ bracket' = bracket /\ consumed' = consumed
      /\ labels' = labels /\ selectors' = selectors
      /\ metrics' = metrics \cup IF Valued(toks, at) THEN {TokenAt(toks, at + 2).text} ELSE {}
  BY DEF NameMatcher, Valued, Peek
<1>3. MatcherAt(toks, at) /\ Tok = toks[at] /\ Tok.kind = "ident"
  BY <1>1, HereIs, HereDenotes DEF IsMatcher
<1>4. ~ClauseAt(toks, at) /\ ~MetricAt(toks, at)
  BY <1>1, <1>3, OneThing
<1>5. NameAt(toks, at) /\ ~LabelAt(toks, at)
  BY <1>1, <1>3 DEF NameAt, LabelAt
<1>. QED BY <1>1, <1>2, <1>3, <1>4, <1>5, WordReads

LEMMA LabelMatcherReads ==
    ASSUME TypeOK, Extracting, LabelMatcher
    PROVE  Extracting'
<1>1. AtToken /\ Consume /\ bracket = 0 /\ IsMatcher /\ Tok.text # "__name__"
  BY ReadingReads DEF LabelMatcher
<1>2. /\ depth' = depth /\ bracket' = bracket /\ consumed' = consumed
      /\ metrics' = metrics /\ labels' = labels \cup {Tok.text}
  BY DEF LabelMatcher
<1>3. MatcherAt(toks, at) /\ Tok = toks[at] /\ Tok.kind = "ident"
  BY <1>1, HereIs, HereDenotes DEF IsMatcher
<1>4. ~ClauseAt(toks, at) /\ ~MetricAt(toks, at)
  BY <1>1, <1>3, OneThing
<1>5. ~NameAt(toks, at) /\ LabelAt(toks, at)
  BY <1>1, <1>3 DEF NameAt, LabelAt
<1>6. IF LabelAt(toks, at) /\ Valued(toks, at)
      THEN AddMatcher(MatcherOf(toks, at)) ELSE selectors' = selectors
  <2>1. MatcherOf(toks, at) =
            [label |-> Tok.text, op |-> Peek(at + 1).text, value |-> Peek(at + 2).text]
    BY <1>3 DEF MatcherOf, Peek
  <2>2. Valued(toks, at) <=> Peek(at + 2).kind = "str"
    BY DEF Valued, Peek
  <2>3. IF Peek(at + 2).kind = "str"
        THEN AddMatcher([label |-> Tok.text, op |-> Peek(at + 1).text,
                         value |-> Peek(at + 2).text])
        ELSE UNCHANGED selectors
    BY DEF LabelMatcher
  <2>. QED BY <1>5, <2>1, <2>2, <2>3
<1>. QED BY <1>1, <1>2, <1>3, <1>4, <1>5, <1>6, WordReads

LEMMA GroupingClauseReads ==
    ASSUME TypeOK, Extracting, GroupingClause
    PROVE  Extracting'
<1>1. AtToken /\ Consume /\ Tok.kind = "ident"
  BY ReadingReads DEF GroupingClause
<1>2. /\ depth' = depth /\ bracket' = bracket /\ metrics' = metrics /\ selectors' = selectors
      /\ consumed' = consumed \cup Grouping(toks, at + 1)
      /\ labels' = labels \cup Names(toks, at + 1)
  BY DEF GroupingClause
<1>3. ClauseAt(toks, at)
  BY <1>1, HereDenotes DEF GroupingClause
<1>4. ~MatcherAt(toks, at) /\ ~MetricAt(toks, at)
  BY <1>1, <1>3, OneThing
<1>5. ~NameAt(toks, at) /\ ~LabelAt(toks, at)
  BY <1>4 DEF NameAt, LabelAt
<1>. QED BY <1>1, <1>2, <1>3, <1>4, <1>5, WordReads

LEMMA MetricNameReads ==
    ASSUME TypeOK, Extracting, MetricName
    PROVE  Extracting'
<1>1. AtToken /\ Consume /\ at \notin consumed /\ Tok.kind = "ident"
  BY ReadingReads DEF MetricName, NamesMetric
<1>2. /\ depth' = depth /\ bracket' = bracket /\ consumed' = consumed
      /\ labels' = labels /\ selectors' = selectors /\ metrics' = metrics \cup {Tok.text}
  BY DEF MetricName
<1>3. MetricAt(toks, at)
  BY <1>1, HereDenotes DEF MetricName
<1>4. ~MatcherAt(toks, at) /\ ~ClauseAt(toks, at)
  BY <1>1, <1>3, OneThing
<1>5. ~NameAt(toks, at) /\ ~LabelAt(toks, at)
  BY <1>4 DEF NameAt, LabelAt
<1>. QED BY <1>1, <1>2, <1>3, <1>4, <1>5, WordReads

-----------------------------------------------------------------------------
(* The extraction as a whole                                                 *)

LEMMA ReadAction ==
    ASSUME TypeOK, Extracting,
           \/ Skip \/ OpenBracket \/ CloseBracket \/ OpenBrace \/ CloseBrace
           \/ NameMatcher \/ LabelMatcher \/ GroupingClause \/ MetricName \/ PassOver
    PROVE  /\ Extracting' /\ phase' = "extract"
           /\ UNCHANGED <<name, absence, server, unanswered, verdict>>
<1>1. Extracting'
  BY SkipReads, OpenBracketReads, CloseBracketReads, OpenBraceReads, CloseBraceReads,
     NameMatcherReads, LabelMatcherReads, GroupingClauseReads, MetricNameReads, PassOverReads
<1>2. Consume /\ phase = "extract"
  BY DEF Skip, OpenBracket, CloseBracket, OpenBrace, CloseBrace, NameMatcher, LabelMatcher,
         GroupingClause, MetricName, PassOver, Reading
<1>. QED BY <1>1, <1>2 DEF Consume

LEMMA LabelsGrow ==
    ASSUME NEW ts, NEW i \in Nat, NEW n \in Nat, i \leq n
    PROVE  LabelsBefore(ts, i) \subseteq LabelsBefore(ts, n)
<1>1. 1 .. (i - 1) \subseteq 1 .. (n - 1)
  OBVIOUS
<1>2. Clauses(ts, i) \subseteq Clauses(ts, n)
  BY <1>1 DEF Clauses
<1>. QED BY <1>1, <1>2, Zenon DEF LabelsBefore

\* What is remembered while reading has its type.
LEMMA ExtractingTypes ==
    ASSUME name \in DOMAIN Query, Extracting, phase = "extract"
    PROVE  /\ at \in Nat \ {0} /\ depth \in 0 .. 1 /\ bracket \in 0 .. 1
           /\ consumed \subseteq Nat
           /\ metrics \subseteq STRING /\ labels \subseteq STRING
           /\ selectors \in Seq(Selector)
<1>1. /\ Text(toks) /\ Len(toks) \in Nat
      /\ MetricsBefore(toks, Len(toks) + 1) \subseteq STRING
      /\ LabelsBefore(toks, Len(toks) + 1) \subseteq STRING
  BY QueryKnown DEF Text
<1>2. /\ at \in 1 .. (Len(toks) + 1)
      /\ bracket = IF InBrackets(toks, at) THEN 1 ELSE 0
      /\ depth = IF InBraces(toks, at) THEN 1 ELSE 0
      /\ consumed = Listed(toks, at)
      /\ metrics = MetricsBefore(toks, at)
      /\ labels = LabelsBefore(toks, at)
      /\ Filled(toks, at, selectors, Prefixed(query))
  BY DEF Extracting
<1>3. at \in Nat \ {0} /\ Len(toks) + 1 \in Nat /\ at \leq Len(toks) + 1
  BY <1>1, <1>2
<1>4. consumed \subseteq Nat
  <2>1. ASSUME NEW i \in Listed(toks, at)
        PROVE  i \in Nat
    <3>1. i \in 2 .. Len(toks)
      BY <1>1, <1>3, ListedOutside
    <3>. QED BY <1>1, <3>1
  <2>. QED BY <1>2, <2>1
<1>5. metrics \subseteq STRING /\ labels \subseteq STRING
  BY <1>1, <1>2, <1>3, MetricsGrow, LabelsGrow
<1>6. selectors \in Seq(Selector)
  BY <1>2 DEF Filled
<1>7. depth \in 0 .. 1 /\ bracket \in 0 .. 1
  BY <1>2
<1>. QED BY <1>3, <1>4, <1>5, <1>6, <1>7

\* At the end the query is known.
LEMMA EndExtractKnows ==
    ASSUME TypeOK, Extracting, EndExtract
    PROVE  metrics = query.metrics /\ labels = query.labels /\ selectors = Prefixed(query)
<1>1. at = Len(toks) + 1 /\ Len(toks) \in Nat
  <2>1. Len(toks) \in Nat
    BY QueryKnown DEF TypeOK, Text
  <2>2. at \in 1 .. (Len(toks) + 1) /\ at > Len(toks)
    BY DEF EndExtract, Extracting
  <2>. QED BY <2>1, <2>2
<1>2. /\ metrics = MetricsBefore(toks, Len(toks) + 1)
      /\ labels = LabelsBefore(toks, Len(toks) + 1)
      /\ Filled(toks, at, selectors, Prefixed(query))
  BY <1>1 DEF EndExtract, Extracting
<1>3. /\ Text(toks) /\ Written(toks, Prefixed(query)) /\ Prefixed(query) \in Seq(Selector)
      /\ query.metrics = MetricsBefore(toks, Len(toks) + 1)
      /\ query.labels = LabelsBefore(toks, Len(toks) + 1)
  BY QueryKnown DEF TypeOK
<1>4. selectors = Prefixed(query)
  BY <1>1, <1>2, <1>3, FilledLast, at \in 1 .. (Len(toks) + 1)
<1>. QED BY <1>2, <1>3, <1>4

-----------------------------------------------------------------------------
(* The verdict                                                               *)

\* A query asks a server that has the series in have in vain.
InVain(have) ==
    \A needed \in query.alternatives : \E sel \in needed :
        Selected(have, sel.metric, sel.matchers) = {}

\* One use that selects nothing is enough where all are needed.
LEMMA UseInVain ==
    ASSUME NeedsAll, NEW have, NEW sel \in query.uses,
           Selected(have, sel.metric, sel.matchers) = {}
    PROVE  InVain(have)
BY DEF NeedsAll, InVain

\* A metric the server does not have selects nothing.
LEMMA MetricGone ==
    ASSUME name \in DOMAIN Query, NeedsAll, NEW have,
           query.metrics \ {s.name : s \in have} # {}
    PROVE  InVain(have)
<1>1. query.metrics = {sel.metric : sel \in query.uses}
  BY UsesAssumption DEF query
<1>2. PICK sel \in query.uses : sel.metric \notin {s.name : s \in have}
  BY <1>1
<1>3. Selected(have, sel.metric, sel.matchers) = {}
  BY <1>2 DEF Selected
<1>. QED BY <1>3, UseInVain

\* A label no series has is empty for each, and a matcher that asks a value of it fails.
LEMMA LabelGone ==
    ASSUME NeedsAll, NEW have, NEW sel \in query.uses, NEW m \in sel.matchers,
           m.op \in {"=", "=~"}, m.value # None,
           m.label \notin UNION {DOMAIN s.labels : s \in have}
    PROVE  InVain(have)
<1>1. ASSUME NEW s \in have
      PROVE  ~Satisfies(s, m)
  <2>1. m.label \notin DOMAIN s.labels
    OBVIOUS
  <2>. QED BY <2>1, ParamAssumption DEF Satisfies
<1>2. Selected(have, sel.metric, sel.matchers) = {}
  BY <1>1 DEF Selected
<1>. QED BY <1>2, UseInVain

\* Only matchers that name the target are probed, and they are all of those.
LEMMA ProbeIsTarget ==
    ASSUME name \in DOMAIN Query, NEW i \in DOMAIN query.selectors
    PROVE  LET sel == query.selectors[i]
           IN  Probe(sel) = {sel.matchers[j] : j \in {j \in DOMAIN sel.matchers :
                                                        IdentifiesTarget(sel.matchers[j])}}
<1>. DEFINE sel == query.selectors[i]
            target == {j \in DOMAIN sel.matchers : IdentifiesTarget(sel.matchers[j])}
            first == {k \in target : \A j \in target :
                        sel.matchers[j].label = sel.matchers[k].label => k <= j}
<1>1. \A j, k \in target : sel.matchers[j].label = sel.matchers[k].label => j = k
  BY UsesAssumption DEF query
<1>2. DOMAIN sel.matchers \subseteq Nat
  <2>1. sel \in Selector
    BY PrefixedIs
  <2>2. sel.matchers \in Seq(Matcher)
    BY <2>1 DEF Selector
  <2>. QED BY <2>2
<1>3. first = target
  <2>. HIDE DEF sel
  <2>1. target \subseteq Nat
    BY <1>2
  <2>. HIDE DEF target
  <2>2. ASSUME NEW k \in target, NEW j \in target,
               sel.matchers[j].label = sel.matchers[k].label
        PROVE  k <= j
    <3>1. j = k
      BY <1>1, <2>2, Zenon
    <3>. QED BY <2>1, <3>1
  <2>. QED BY <2>2, Zenon
<1>4. Probe(sel) = {sel.matchers[j] : j \in first}
  BY DEF Probe
<1>. QED BY <1>3, <1>4

\* A probe that finds nothing shows the query asks in vain.
LEMMA SelectorGone ==
    ASSUME name \in DOMAIN Query, NeedsAll, NEW have, NEW i \in Named,
           Selected(have, query.selectors[i].metric, Probe(query.selectors[i])) = {}
    PROVE  InVain(have)
<1>. DEFINE sel == query.selectors[i]
            all == {sel.matchers[j] : j \in DOMAIN sel.matchers}
            use == [metric |-> sel.metric, matchers |-> all]
<1>1. use \in query.uses
  BY UsesAssumption DEF query, Named
<1>2. Probe(sel) \subseteq all
  BY DEF Probe
<1>3. Selected(have, sel.metric, all) = {}
  <2>. HIDE DEF sel, all
  <2>1. Selected(have, sel.metric, all) \subseteq Selected(have, sel.metric, Probe(sel))
    BY <1>2 DEF Selected
  <2>2. Selected(have, sel.metric, Probe(sel)) = {}
    BY DEF sel
  <2>. QED BY <2>1, <2>2
<1>4. use.metric = sel.metric /\ use.matchers = all
  OBVIOUS
<1>. HIDE DEF use, all, sel
<1>. QED BY <1>1, <1>3, <1>4, UseInVain

LEMMA NamedHasMetric ==
    ASSUME name \in DOMAIN Query, Named # {}
    PROVE  query.metrics # {}
<1>1. PICK i \in DOMAIN query.selectors : query.selectors[i].metric # None
  BY DEF Named
<1>2. [metric |-> query.selectors[i].metric,
       matchers |-> {query.selectors[i].matchers[j] : j \in DOMAIN query.selectors[i].matchers}]
          \in query.uses
  BY <1>1, UsesAssumption DEF query
<1>3. query.metrics = {sel.metric : sel \in query.uses}
  BY UsesAssumption DEF query
<1>. QED BY <1>2, <1>3

\* A probe of a selector finds nothing exactly if its metric has no series of the target.
LEMMA ProbeTellsUnserved ==
    ASSUME name \in DOMAIN Query, NEW i \in DOMAIN query.selectors
    PROVE  Unserved(i) <=>
               Selected(server, query.selectors[i].metric, Probe(query.selectors[i])) = {}
BY ProbeIsTarget DEF Unserved

\* What is said of the query and of its series does not change while they do not.
LEMMA SameQuery ==
    ASSUME name' = name
    PROVE  /\ query' = query /\ Named' = Named /\ (NeedsAll' <=> NeedsAll)
           /\ (Dead' <=> InVain(server'))
           /\ server' = server => \A i : Unserved(i)' <=> Unserved(i)
<1>1. query' = query
  BY DEF query
<1>2. Named' = Named /\ (NeedsAll' <=> NeedsAll)
  BY <1>1 DEF Named, NeedsAll
<1>3. Dead' <=> InVain(server')
  BY <1>1 DEF Dead, InVain
<1>4. server' = server => \A i : Unserved(i)' <=> Unserved(i)
  BY <1>1 DEF Unserved
<1>. QED BY <1>1, <1>2, <1>3, <1>4

\* The names: an entry with a missing metric, or a missing label it asks a value of, asks in
\* vain; one without metrics has nothing to probe.
LEMMA CheckNamesRight ==
    ASSUME Inv, CheckNames
    PROVE  Probing' /\ VerdictIsRight'
<1>1. /\ name \in DOMAIN Query /\ name' = name /\ absence' = absence
      /\ metrics = query.metrics /\ labels = query.labels
      /\ metrics' = metrics /\ labels' = labels /\ at' = 1
  BY DEF Inv, TypeOK, Extracted, CheckNames, extraction
<1>0. PICK ended : LET listed == server' \cup ended
                       missing == metrics \ {s.name : s \in listed}
                       gone == labels \ UNION {DOMAIN s.labels : s \in listed}
                       said == IF missing # {} THEN "metric missing"
                               ELSE IF gone # {} THEN "label missing" ELSE "ok"
                   IN  /\ verdict' = said
                       /\ phase' = IF said = "ok" /\ ~absence /\ metrics # {}
                                   THEN "series" ELSE "done"
  BY DEF CheckNames
<1>. DEFINE listed == server' \cup ended
            missingMetrics == metrics \ {s.name : s \in listed}
            missingLabels == labels \ UNION {DOMAIN s.labels : s \in listed}
            status == IF missingMetrics # {} THEN "metric missing"
                      ELSE IF missingLabels # {} THEN "label missing" ELSE "ok"
<1>2. /\ verdict' = status
      /\ phase' = IF status = "ok" /\ ~absence /\ metrics # {} THEN "series" ELSE "done"
  BY <1>0
<1>3. query' = query /\ Named' = Named /\ (NeedsAll' <=> NeedsAll) /\ (Dead' <=> InVain(server'))
  BY <1>1, SameQuery
<1>4. Probing'
  <2>1. ASSUME phase' = "series"
        PROVE  /\ verdict' = "ok" /\ ~absence'
               /\ \A i \in Named' : i < at' => ~Unserved(i)'
    <3>1. verdict' = "ok" /\ ~absence'
      BY <1>1, <1>2, <2>1
    <3>2. Named \subseteq Nat \ {0}
      <4>1. query.selectors \in Seq(Selector)
        BY <1>1, PrefixedIs
      <4>. QED BY <4>1 DEF Named
    <3>3. \A i \in Nat \ {0} : ~(i < 1)
      OBVIOUS
    <3>. QED BY <1>1, <1>3, <3>1, <3>2, <3>3, Zenon
  <2>. QED BY <2>1 DEF Probing
<1>5. AboutTheTarget'
  <2>1. verdict' # "selector matches nothing"
    BY <1>2
  <2>2. ASSUME phase' = "done", verdict' = "ok", ~absence'
        PROVE  Named' = {}
    <3>1. metrics = {}
      BY <1>1, <1>2, <2>2
    <3>. QED BY <1>1, <1>3, <3>1, NamedHasMetric
  <2>. QED BY <2>1, <2>2 DEF AboutTheTarget
<1>6. DeadIsDead'
  <2>. DEFINE asked == {m.label : m \in {m \in UNION {sel.matchers : sel \in query.uses} :
                                            m.op \in {"=", "=~"} /\ m.value # None}}
              gone == labels \ UNION {DOMAIN s.labels : s \in server'}
  <2>1. ASSUME NeedsAll, verdict' \in {"metric missing", "selector matches nothing"}
        PROVE  InVain(server')
    <3>1. missingMetrics # {}
      BY <1>2, <2>1
    <3>2. metrics \ {s.name : s \in server'} # {}
      BY <3>1
    <3>. QED BY <1>1, <2>1, <3>2, MetricGone
  <2>2. ASSUME NeedsAll, asked \cap gone # {}
        PROVE  InVain(server')
    <3>1. PICK m \in UNION {sel.matchers : sel \in query.uses} :
            m.op \in {"=", "=~"} /\ m.value # None /\ m.label \in gone
      BY <2>2
    <3>2. PICK sel \in query.uses : m \in sel.matchers
      BY <3>1
    <3>3. m.label \notin UNION {DOMAIN s.labels : s \in server'}
      BY <3>1
    <3>. QED BY <2>2, <3>1, <3>2, <3>3, LabelGone
  <2>. QED BY <1>1, <1>3, <2>1, <2>2 DEF DeadIsDead, ReportedBroken, CannotFire, FiresOnNothing
<1>. QED BY <1>4, <1>5, <1>6 DEF VerdictIsRight

LEMMA ProbeAnsweredRight ==
    ASSUME Inv, ProbeAnswered
    PROVE  Probing' /\ VerdictIsRight'
<1>1. /\ name \in DOMAIN Query /\ name' = name /\ absence' = absence /\ server' = server
      /\ unanswered' = unanswered /\ selectors = Prefixed(query) /\ phase = "series"
      /\ at' = at + 1 /\ at \in Nat \ {0}
      /\ at <= Len(selectors) /\ selectors[at].metric # None
  BY DEF Inv, TypeOK, Extracted, ProbeAnswered
<1>. DEFINE found == Selected(server, selectors[at].metric, Probe(selectors[at]))
<1>2. /\ verdict' = IF found = {} THEN "selector matches nothing" ELSE verdict
      /\ phase' = IF found = {} THEN "done" ELSE phase
  BY DEF ProbeAnswered
<1>3. at \in Named /\ selectors[at] = query.selectors[at]
  <2>1. /\ query.selectors \in Seq(Selector) /\ Len(selectors) = Len(query.selectors)
        /\ \A i \in DOMAIN query.selectors :
            /\ i \in query.inside => selectors[i].metric = None
            /\ i \notin query.inside => selectors[i] = query.selectors[i]
    BY <1>1, PrefixedIs
  <2>2. at \in DOMAIN query.selectors
    BY <1>1, <2>1
  <2>. QED BY <1>1, <2>1, <2>2 DEF Named
<1>4. Unserved(at) <=> found = {}
  BY <1>1, <1>3, ProbeTellsUnserved DEF Named
<1>5. /\ Named' = Named /\ (NeedsAll' <=> NeedsAll) /\ (Dead' <=> InVain(server'))
      /\ \A i : Unserved(i)' <=> Unserved(i)
  BY <1>1, SameQuery
<1>6. verdict = "ok" /\ ~absence /\ (unanswered \/ \A i \in Named : i < at => ~Unserved(i))
  BY <1>1 DEF Inv, Probing
<1>7. Probing'
  <2>1. ASSUME phase' = "series"
        PROVE  verdict' = "ok" /\ ~Unserved(at)
    BY <1>2, <1>4, <1>6, <2>1
  <2>2. Named \subseteq Nat
    <3>1. query.selectors \in Seq(Selector)
      BY <1>1, PrefixedIs
    <3>. QED BY <3>1 DEF Named
  <2>3. \A i \in Nat : i < at + 1 => i < at \/ i = at
    BY <1>1
  <2>4. ASSUME phase' = "series", ~unanswered', NEW i \in Named', i < at'
        PROVE  ~Unserved(i)'
    <3>1. i < at \/ i = at
      BY <1>1, <1>5, <2>2, <2>3, <2>4
    <3>. QED BY <1>1, <1>5, <1>6, <2>1, <2>4, <3>1
  <2>. QED BY <1>1, <1>6, <2>1, <2>4 DEF Probing
<1>8. VerdictIsRight'
  <2>. SUFFICES ASSUME phase' = "done"
                PROVE  AboutTheTarget' /\ DeadIsDead'
    BY DEF VerdictIsRight, AboutTheTarget, DeadIsDead, ReportedBroken
  <2>1. found = {} /\ verdict' = "selector matches nothing"
    BY <1>1, <1>2
  <2>2. AboutTheTarget'
    BY <1>3, <1>4, <1>5, <2>1 DEF AboutTheTarget
  <2>3. NeedsAll => InVain(server')
    BY <1>1, <1>3, <2>1, SelectorGone
  <2>4. DeadIsDead'
    BY <1>1, <1>5, <2>3 DEF DeadIsDead, ReportedBroken, CannotFire, FiresOnNothing
  <2>. QED BY <2>2, <2>4
<1>. QED BY <1>7, <1>8

\* A probe that fails says nothing, and neither does a selector that is not probed.
LEMMA UnprobedRight ==
    ASSUME Inv, ProbeFails \/ PassNameless
    PROVE  Probing' /\ VerdictIsRight'
<1>1. /\ name \in DOMAIN Query /\ name' = name /\ absence' = absence /\ server' = server
      /\ verdict' = verdict /\ selectors = Prefixed(query)
      /\ phase = "series" /\ phase' = "series"
      /\ at' = at + 1 /\ at \in Nat \ {0}
      /\ unanswered' = TRUE \/ (unanswered' = unanswered /\ selectors[at].metric = None)
  BY DEF Inv, TypeOK, Extracted, ProbeFails, PassNameless
<1>2. /\ Named' = Named /\ \A i : Unserved(i)' <=> Unserved(i)
  BY <1>1, SameQuery
<1>3. verdict = "ok" /\ ~absence /\ (unanswered \/ \A i \in Named : i < at => ~Unserved(i))
  BY <1>1 DEF Inv, Probing
<1>4. Named \subseteq Nat
  <2>1. query.selectors \in Seq(Selector)
    BY <1>1, PrefixedIs
  <2>. QED BY <2>1 DEF Named
<1>5. ASSUME ~unanswered', NEW i \in Named', i < at'
      PROVE  ~Unserved(i)'
  <2>1. at \notin Named
    <3>1. selectors[at].metric = None
      BY <1>1, <1>5
    <3>. QED BY <1>1, <3>1, PrefixedIs DEF Named
  <2>2. i < at
    BY <1>1, <1>2, <1>4, <1>5, <2>1
  <2>. QED BY <1>1, <1>2, <1>3, <1>5, <2>2
<1>6. Probing'
  BY <1>1, <1>3, <1>5 DEF Probing
<1>. QED BY <1>1, <1>6 DEF VerdictIsRight, AboutTheTarget, DeadIsDead, ReportedBroken

\* Every selector was probed, passed over or not answered for.
LEMMA EndSeriesRight ==
    ASSUME Inv, EndSeries
    PROVE  Probing' /\ VerdictIsRight'
<1>1. /\ name \in DOMAIN Query /\ name' = name /\ absence' = absence /\ server' = server
      /\ unanswered' = unanswered /\ verdict' = verdict /\ selectors = Prefixed(query)
      /\ phase = "series" /\ phase' = "done" /\ at > Len(selectors) /\ at \in Nat \ {0}
  BY DEF Inv, TypeOK, Extracted, EndSeries
<1>2. /\ Named' = Named /\ \A i : Unserved(i)' <=> Unserved(i)
  BY <1>1, SameQuery
<1>3. verdict = "ok" /\ (unanswered \/ \A i \in Named : i < at => ~Unserved(i))
  BY <1>1 DEF Inv, Probing
<1>4. \A i \in Named : i < at
  <2>1. query.selectors \in Seq(Selector) /\ Len(selectors) = Len(query.selectors)
    BY <1>1, PrefixedIs
  <2>. QED BY <1>1, <2>1 DEF Named
<1>5. AboutTheTarget'
  BY <1>1, <1>2, <1>3, <1>4 DEF AboutTheTarget
<1>6. DeadIsDead'
  BY <1>1, <1>3 DEF DeadIsDead, ReportedBroken
<1>. QED BY <1>1, <1>5, <1>6 DEF Probing, VerdictIsRight

-----------------------------------------------------------------------------
(* The theorems                                                              *)

LEMMA InitInv == Init => Inv
<1>. SUFFICES ASSUME Init
              PROVE  Inv
  OBVIOUS
<1>1. name \in DOMAIN Query /\ phase = "extract" /\ at = 1
  BY DEF Init
<1>2. Text(toks) /\ Len(toks) \in Nat
  BY <1>1, QueryKnown DEF Text
<1>3. ~InBrackets(toks, 1) /\ ~InBraces(toks, 1)
  BY WithinFirst DEF InBrackets, InBraces
<1>4. Clauses(toks, 1) = {}
  BY DEF Clauses
<1>5. Listed(toks, 1) = {}
  BY <1>4, Zenon DEF Listed
<1>6. MetricsBefore(toks, 1) = {}
  BY DEF MetricsBefore
<1>7. LabelsBefore(toks, 1) = {}
  <2>1. {i \in 1 .. (1 - 1) : LabelAt(toks, i)} = {}
    OBVIOUS
  <2>. QED BY <1>4, <2>1, Zenon DEF LabelsBefore
<1>8. Filled(toks, 1, selectors, Prefixed(query))
  BY FilledFirst DEF Init
<1>9. Extracting
  <2>1. /\ depth = 0 /\ bracket = 0 /\ consumed = {} /\ metrics = {} /\ labels = {}
    BY DEF Init
  <2>2. at \in 1 .. (Len(toks) + 1)
    BY <1>1, <1>2
  <2>. QED BY <1>1, <1>3, <1>5, <1>6, <1>7, <1>8, <2>1, <2>2 DEF Extracting
<1>10. TypeOK
  <2>1. /\ absence \in BOOLEAN /\ unanswered = FALSE /\ server = {} /\ verdict = "ok"
    BY DEF Init
  <2>2. /\ at \in Nat \ {0} /\ depth \in 0 .. 1 /\ bracket \in 0 .. 1 /\ consumed \subseteq Nat
        /\ metrics \subseteq STRING /\ labels \subseteq STRING /\ selectors \in Seq(Selector)
    BY <1>1, <1>9, ExtractingTypes
  <2>. QED BY <1>1, <2>1, <2>2 DEF TypeOK
<1>. QED
  BY <1>1, <1>9, <1>10
  DEF Inv, Extracted, Probing, VerdictIsRight, AboutTheTarget, DeadIsDead, ReportedBroken

LEMMA NextInv == Inv /\ [Next]_vars => Inv'
<1>. SUFFICES ASSUME Inv, [Next]_vars
              PROVE  Inv'
  OBVIOUS
<1>1. TypeOK /\ Extracting /\ Extracted /\ Probing /\ VerdictIsRight
  BY DEF Inv
<1>2. CASE \/ Skip \/ OpenBracket \/ CloseBracket \/ OpenBrace \/ CloseBrace
           \/ NameMatcher \/ LabelMatcher \/ GroupingClause \/ MetricName \/ PassOver
  <2>1. /\ Extracting' /\ phase' = "extract"
        /\ UNCHANGED <<name, absence, server, unanswered, verdict>>
    BY <1>1, <1>2, ReadAction
  <2>2. name' \in DOMAIN Query
    BY <1>1, <2>1 DEF TypeOK
  <2>3. /\ at' \in Nat \ {0} /\ depth' \in 0 .. 1 /\ bracket' \in 0 .. 1
        /\ consumed' \subseteq Nat /\ metrics' \subseteq STRING /\ labels' \subseteq STRING
        /\ selectors' \in Seq(Selector)
    <3>1. (name \in DOMAIN Query /\ Extracting /\ phase = "extract" =>
              /\ at \in Nat \ {0} /\ depth \in 0 .. 1 /\ bracket \in 0 .. 1
              /\ consumed \subseteq Nat /\ metrics \subseteq STRING /\ labels \subseteq STRING
              /\ selectors \in Seq(Selector))'
      BY ExtractingTypes, PTL
    <3>. QED BY <2>1, <2>2, <3>1
  <2>4. TypeOK'
    BY <1>1, <2>1, <2>3 DEF TypeOK
  <2>. QED
    BY <2>1, <2>4 DEF Inv, Extracted, Probing, VerdictIsRight, AboutTheTarget, DeadIsDead, ReportedBroken
<1>3. CASE EndExtract
  <2>1. metrics = query.metrics /\ labels = query.labels /\ selectors = Prefixed(query)
    BY <1>1, <1>3, EndExtractKnows
  <2>2. /\ query' = query /\ phase' = "names"
        /\ UNCHANGED <<name, absence, at, depth, bracket, consumed, metrics, labels, selectors,
                       server, unanswered, verdict>>
    BY <1>3 DEF EndExtract, extraction, query
  <2>3. TypeOK'
    BY <1>1, <2>2 DEF TypeOK
  <2>. QED
    BY <2>1, <2>2, <2>3
    DEF Inv, Extracting, Extracted, Probing, VerdictIsRight, AboutTheTarget, DeadIsDead, ReportedBroken
<1>4. ASSUME \/ CheckNames \/ ProbeFails \/ ProbeAnswered \/ PassNameless \/ EndSeries
      PROVE  TypeOK' /\ Extracting' /\ Extracted'
  <2>1. /\ UNCHANGED <<name, absence, depth, bracket, consumed, metrics, labels, selectors>>
        /\ phase \in {"names", "series"}
    BY <1>4 DEF CheckNames, ProbeFails, ProbeAnswered, PassNameless, EndSeries, extraction
  <2>2. phase' \in {"series", "done"}
    BY <1>4 DEF CheckNames, ProbeFails, ProbeAnswered, PassNameless, EndSeries
  <2>3. at' \in Nat \ {0}
    <3>1. at' \in {1, at, at + 1}
      BY <1>4 DEF CheckNames, ProbeFails, ProbeAnswered, PassNameless, EndSeries
    <3>2. at \in Nat \ {0}
      BY <1>1 DEF TypeOK
    <3>. QED BY <3>1, <3>2
  <2>4. server' \subseteq Series /\ unanswered' \in BOOLEAN
    BY <1>1, <1>4 DEF TypeOK, CheckNames, ProbeFails, ProbeAnswered, PassNameless, EndSeries
  <2>5. verdict' \in {"ok", "metric missing", "label missing", "selector matches nothing"}
    BY <1>1, <1>4 DEF TypeOK, CheckNames, ProbeFails, ProbeAnswered, PassNameless, EndSeries
  <2>6. TypeOK'
    BY <1>1, <2>1, <2>2, <2>3, <2>4, <2>5 DEF TypeOK
  <2>7. query' = query
    BY <2>1 DEF query
  <2>. QED BY <1>1, <2>1, <2>2, <2>6, <2>7 DEF Extracting, Extracted
<1>5. CASE CheckNames
  BY <1>4, <1>5, CheckNamesRight DEF Inv
<1>6. CASE ProbeFails \/ PassNameless
  BY <1>4, <1>6, UnprobedRight DEF Inv
<1>7. CASE ProbeAnswered
  BY <1>4, <1>7, ProbeAnsweredRight DEF Inv
<1>8. CASE EndSeries
  BY <1>4, <1>8, EndSeriesRight DEF Inv
<1>9. CASE UNCHANGED vars
  <2>1. UNCHANGED <<name, absence, phase, at, depth, bracket, consumed, metrics, labels, selectors,
                    server, unanswered, verdict>>
    BY <1>9 DEF vars, extraction
  <2>2. /\ query' = query /\ toks' = toks /\ Named' = Named /\ (NeedsAll' <=> NeedsAll)
        /\ (Dead' <=> Dead) /\ \A i : Unserved(i)' <=> Unserved(i)
    BY <2>1 DEF query, toks, Named, NeedsAll, Dead, Unserved
  <2>3. TypeOK' /\ Extracting' /\ Extracted' /\ Probing'
    BY <1>1, <2>1, <2>2 DEF TypeOK, Extracting, Extracted, Probing
  <2>4. AboutTheTarget' /\ DeadIsDead'
    BY <1>1, <2>1, <2>2
       DEF VerdictIsRight, AboutTheTarget, DeadIsDead, ReportedBroken, CannotFire, FiresOnNothing
  <2>. QED BY <2>3, <2>4 DEF Inv, VerdictIsRight
<1>. QED BY <1>2, <1>3, <1>5, <1>6, <1>7, <1>8, <1>9 DEF Next, Extract

THEOREM Invariance == Spec => []Inv
BY InitInv, NextInv, PTL DEF Spec

\* The nesting that is counted never goes beyond one level, nor below none, and what is
\* extracted of any query has its type.
THEOREM TypeCorrect == Spec => []TypeOK
<1>1. Inv => TypeOK
  BY DEF Inv
<1>. QED BY <1>1, Invariance, PTL

\* What Extract finds in one pass (extract.go:84) is what the query depends on: its
\* metrics, its labels and its selectors, each with its own matchers, and with its metric
\* if that stands before the brace.
THEOREM RefsAreRead == Spec => []RefsAreExact
<1>1. Inv => RefsAreExact
  <2>. SUFFICES ASSUME Inv, phase \in {"names", "series"}
                PROVE  /\ metrics = query.metrics /\ labels = query.labels
                       /\ Len(selectors) = Len(query.selectors)
                       /\ \A i \in DOMAIN selectors :
                            /\ selectors[i].matchers = query.selectors[i].matchers
                            /\ i \notin query.inside =>
                                 selectors[i].metric = query.selectors[i].metric
    BY DEF RefsAreExact
  <2>1. /\ name \in DOMAIN Query /\ metrics = query.metrics /\ labels = query.labels
        /\ selectors = Prefixed(query)
    BY DEF Inv, TypeOK, Extracted
  <2>2. DOMAIN selectors = DOMAIN query.selectors
    BY <2>1, PrefixedIs
  <2>. QED BY <2>1, <2>2, PrefixedIs
<1>. QED BY <1>1, Invariance, PTL

\* The verdict of checkScenario and checkSeries (against.go:126-230) is about the target,
\* and, of the entries that do not fire on no series, it calls dead only what cannot fire
\* on the server it was asked about.
THEOREM VerdictFollows == Spec => []VerdictIsRight
<1>1. Inv => VerdictIsRight
  BY DEF Inv
<1>. QED BY <1>1, Invariance, PTL

=============================================================================
