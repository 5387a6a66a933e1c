---------------------------- MODULE CatalogNotation ----------------------------
(***************************************************************************)
(* What the tokens of a query denote, told of each place by what stands     *)
(* around it: no pass over the query, no nesting counted, nothing consumed. *)
(* The catalog's queries are assumed to be built and to mean as told here,  *)
(* which TLC evaluates for every query of MCCatalogCheck, and under that    *)
(* assumption CatalogCheckProofs proves the extraction right for any set of *)
(* queries.                                                                 *)
(***************************************************************************)
EXTENDS CatalogCheck, FiniteSets

-----------------------------------------------------------------------------
(* Where a token stands                                                      *)

\* The i-th token of ts comes after an opening token that is not closed before it.
Within(ts, open, close, i) ==
    \E j \in 1 .. (i - 1) :
        /\ ts[j] = open
        /\ \A k \in (j + 1) .. (i - 1) : ts[k] # close

InBrackets(ts, i) == Within(ts, LeftBracket, RightBracket, i)
InBraces(ts, i) == Within(ts, LeftBrace, RightBrace, i)
Outside(ts, i) == ~InBrackets(ts, i) /\ ~InBraces(ts, i)

-----------------------------------------------------------------------------
(* What a token is                                                           *)

ClauseAt(ts, i) ==
    Outside(ts, i) /\ ts[i].kind = "ident" /\ ts[i].text \in groupingKeywords

MatcherAt(ts, i) ==
    /\ InBraces(ts, i) /\ ~InBrackets(ts, i)
    /\ ts[i].kind = "ident"
    /\ TokenAt(ts, i + 1).kind = "punct" /\ TokenAt(ts, i + 1).text \in matcherOps

\* Before the n-th token: the clauses, and what their lists take up.
Clauses(ts, n) == {j \in 1 .. (n - 1) : ClauseAt(ts, j)}
Listed(ts, n) == UNION {Grouping(ts, j + 1) : j \in Clauses(ts, n)}

MetricAt(ts, i) ==
    /\ Outside(ts, i) /\ ts[i].kind = "ident"
    /\ ts[i].text \notin keywords \cup aggregators
    /\ TokenAt(ts, i + 1) # LeftParen
    /\ i \notin Listed(ts, i)

\* A matcher of __name__, and the others.
NameAt(ts, i) == MatcherAt(ts, i) /\ ts[i].text = "__name__"
LabelAt(ts, i) == MatcherAt(ts, i) /\ ts[i].text # "__name__"

\* A matcher's value, when it is written as a string.
Valued(ts, i) == TokenAt(ts, i + 2).kind = "str"
MatcherOf(ts, i) ==
    [label |-> ts[i].text, op |-> TokenAt(ts, i + 1).text, value |-> TokenAt(ts, i + 2).text]

-----------------------------------------------------------------------------
(* What the first tokens denote, those before the n-th                       *)

MetricsBefore(ts, n) ==
    {ts[i].text : i \in {i \in 1 .. (n - 1) : MetricAt(ts, i)}}
    \cup {TokenAt(ts, i + 2).text : i \in {i \in 1 .. (n - 1) : NameAt(ts, i) /\ Valued(ts, i)}}

LabelsBefore(ts, n) ==
    {ts[i].text : i \in {i \in 1 .. (n - 1) : LabelAt(ts, i)}}
    \cup UNION {Names(ts, j + 1) : j \in Clauses(ts, n)}

\* The braces, and of the brace at o the matchers.
Opens(ts, n) == {i \in 1 .. (n - 1) : ts[i] = LeftBrace}
Asked(ts, o, n) ==
    {i \in (o + 1) .. (n - 1) :
        /\ LabelAt(ts, i) /\ Valued(ts, i)
        /\ \A k \in (o + 1) .. i : ts[k] # RightBrace}

MetricOf(ts, o) == IF o > 1 /\ MetricAt(ts, o - 1) THEN ts[o - 1].text ELSE None

\* The names that the braces opened at o give inside.
NamedInside(ts, o) ==
    {TokenAt(ts, i + 2).text : i \in {i \in (o + 1) .. Len(ts) :
        NameAt(ts, i) /\ Valued(ts, i) /\ \A k \in (o + 1) .. i : ts[k] # RightBrace}}

\* The selectors are the braces of ts in their order: each has the metric just before
\* it and its matchers in theirs.
Written(ts, sels) ==
    LET end == Len(ts) + 1
    IN  /\ Len(sels) = Cardinality(Opens(ts, end))
        /\ \A o \in Opens(ts, end) :
            LET sel == sels[Cardinality(Opens(ts, o + 1))]
            IN  /\ sel.metric = MetricOf(ts, o)
                /\ Len(sel.matchers) = Cardinality(Asked(ts, o, end))
                /\ \A i \in Asked(ts, o, end) :
                    sel.matchers[Cardinality(Asked(ts, o, i + 1))] = MatcherOf(ts, i)

\* The selectors of q, told by what stands before their braces only.
Prefixed(q) ==
    [i \in DOMAIN q.selectors |->
        [q.selectors[i] EXCEPT !.metric = IF i \in q.inside THEN None ELSE @]]

\* The selectors of q without a metric before the brace have the one named inside it.
NamedWithin(ts, q) ==
    \A o \in Opens(ts, Len(ts) + 1) :
        LET i == Cardinality(Opens(ts, o + 1))
        IN  /\ i \in q.inside <=> MetricOf(ts, o) = None /\ NamedInside(ts, o) # {}
            /\ i \in q.inside => NamedInside(ts, o) = {q.selectors[i].metric}

-----------------------------------------------------------------------------
(* The queries                                                               *)

\* Brackets hold no bracket and no brace, braces no brace; a label in a list is followed
\* by a comma or the end of the list; and no metric has the name of a keyword or of an
\* aggregator.
WellFormed(ts) ==
    /\ \A i \in DOMAIN ts :
        /\ InBrackets(ts, i) => ts[i] \notin {LeftBracket, LeftBrace, RightBrace}
        /\ InBraces(ts, i) => ts[i] # LeftBrace
    /\ \A i \in Listed(ts, Len(ts) + 1) :
        ts[i].kind = "ident" => TokenAt(ts, i + 1) \in {Comma, RightParen}
    /\ MetricsBefore(ts, Len(ts) + 1) \cap (keywords \cup aggregators) = {}

\* A query means what its tokens denote.
ASSUME NotationAssumption ==
    \A n \in DOMAIN Query :
        LET ts == Query[n].tokens
        IN  /\ WellFormed(ts)
            /\ Query[n].metrics = MetricsBefore(ts, Len(ts) + 1)
            /\ Query[n].labels = LabelsBefore(ts, Len(ts) + 1)
            /\ Written(ts, Prefixed(Query[n]))
            /\ NamedWithin(ts, Query[n])

\* A query uses its metrics; a selector of a metric is one of its uses, and
\* names the target by at most one matcher of each label.
ASSUME UsesAssumption ==
    \A n \in DOMAIN Query :
        /\ Query[n].metrics = {sel.metric : sel \in Query[n].uses}
        /\ \A i \in DOMAIN Query[n].selectors :
            LET sel == Query[n].selectors[i]
                target == {j \in DOMAIN sel.matchers : IdentifiesTarget(sel.matchers[j])}
            IN  /\ sel.metric # None =>
                     [metric |-> sel.metric,
                      matchers |-> {sel.matchers[j] : j \in DOMAIN sel.matchers}]
                         \in Query[n].uses
                /\ \A j, k \in target : sel.matchers[j].label = sel.matchers[k].label => j = k
=============================================================================
