------------------------------ MODULE CatalogCheck -----------------------------
(***************************************************************************)
(* validate --against-prometheus for one catalog entry: the names its query *)
(* depends on are extracted token by token (pkg/promql), looked up in what  *)
(* the server knows, and each selector is then probed for series of the     *)
(* target (cmd/meshmedic/against.go).                                       *)
(*                                                                         *)
(* A query is a record: its tokens, and what it means, which the code never *)
(* sees and the properties compare its answers with.                        *)
(***************************************************************************)
EXTENDS Integers, Sequences

CONSTANTS
    Query,       \* the queries by name: tokens, metrics, labels, selectors, the indexes of
                 \* the selectors whose metric is written inside their braces, uses,
                 \* alternatives
    ZeroBreaches, \* the queries whose entry has a threshold that 0 breaches
    Series,      \* the series a server may have: a name, and a value for each label
    Stale,       \* those that have ended: the server still lists their names
    ParamValue,  \* the values of the target's parameters
    BuiltFrom    \* for each parameter's value, the patterns that contain it

Token == [kind : {"ident", "str", "num", "punct"}, text : STRING]
Matcher == [label : STRING, op : {"=", "!=", "=~", "!~"}, value : STRING]
Selector == [metric : STRING, matchers : Seq(Matcher)]

ASSUME QueryAssumption ==
    /\ Query \in [DOMAIN Query ->
            [tokens : Seq(Token), metrics : SUBSET STRING, labels : SUBSET STRING,
             selectors : Seq(Selector), inside : SUBSET Nat,
             uses : SUBSET [metric : STRING, matchers : SUBSET Matcher],
             alternatives : SUBSET SUBSET [metric : STRING, matchers : SUBSET Matcher]]]
    /\ \A n \in DOMAIN Query : Query[n].alternatives \subseteq SUBSET Query[n].uses
    /\ ZeroBreaches \subseteq DOMAIN Query

Punct(text) == [kind |-> "punct", text |-> text]
LeftParen == Punct("(")
RightParen == Punct(")")
LeftBracket == Punct("[")
RightBracket == Punct("]")
LeftBrace == Punct("{")
RightBrace == Punct("}")
Comma == Punct(",")
NoToken == [kind |-> "none", text |-> ""]

\* The empty string: no metric before a brace, no value of a label or of a parameter.
None == ""

\* An empty parameter names no target (against.go:207).
ASSUME ParamAssumption == None \in STRING \ ParamValue

keywords ==
    {"by", "without", "on", "ignoring", "group_left", "group_right", "offset", "bool",
     "and", "or", "unless", "start", "end", "atan2", "inf", "nan"}
groupingKeywords == {"by", "without", "on", "ignoring", "group_left", "group_right"}
aggregators ==
    {"sum", "min", "max", "avg", "group", "stddev", "stdvar", "count", "count_values",
     "bottomk", "topk", "quantile", "limitk", "limit_ratio"}
matcherOps == {"=", "!=", "=~", "!~"}

VARIABLES
    name,        \* which query the entry has, rendered for the target
    absence,     \* the entry's absenceIsSignal
    phase,       \* "extract", "names", "series" or "done"
    at,          \* the token to read, then the selector to probe
    depth,       \* brace nesting
    bracket,     \* bracket nesting
    consumed,    \* the tokens a grouping clause has taken
    metrics,     \* the metric names found
    labels,      \* the label keys found
    selectors,   \* the selectors found, each with its own matchers
    server,      \* the series an instant query returns
    unanswered,  \* history: some probe failed
    verdict      \* the entry's checkStatus

extraction == <<depth, bracket, consumed, metrics, labels, selectors>>
vars == <<name, absence, phase, at, extraction, server, unanswered, verdict>>

-----------------------------------------------------------------------------
(* Extract                                                                   *)

query == Query[name]
toks == query.tokens
TokenAt(ts, i) == IF i \in DOMAIN ts THEN ts[i] ELSE NoToken
Peek(i) == TokenAt(toks, i)
Tok == Peek(at)

Reading == phase = "extract" /\ at <= Len(toks) /\ at \notin consumed

\* The token is read, and nothing but what the action names changes.
Consume == at' = at + 1 /\ UNCHANGED <<name, absence, phase, server, unanswered, verdict>>

\* A matcher belongs to the selector being filled, the last one that was opened.
AddMatcher(m) ==
    selectors' = [selectors EXCEPT ![Len(selectors)].matchers = Append(@, m)]

\* collectGrouping: the tokens of the parenthesised label list that starts at i, up to
\* the first that is no name or comma.
Grouping(ts, i) ==
    IF TokenAt(ts, i) # LeftParen THEN {}
    ELSE {j \in i .. Len(ts) : \A k \in (i + 1) .. j :
            /\ ts[k].kind = "ident" \/ ts[k] \in {Comma, RightParen}
            /\ k < j => ts[k] # RightParen}

\* The label names of such a list.
Names(ts, i) == {ts[j].text : j \in {j \in Grouping(ts, i) : ts[j].kind = "ident"}}

\* A token that an earlier grouping clause has accounted for.
Skip ==
    /\ phase = "extract" /\ at <= Len(toks) /\ at \in consumed
    /\ Consume
    /\ UNCHANGED extraction

OpenBracket ==
    /\ Reading /\ Tok = LeftBracket
    /\ bracket' = bracket + 1
    /\ Consume
    /\ UNCHANGED <<depth, consumed, metrics, labels, selectors>>

\* Fault: what is in brackets never ends.
CloseBracketNever ==
    /\ Reading /\ Tok = RightBracket
    /\ UNCHANGED bracket
    /\ Consume
    /\ UNCHANGED <<depth, consumed, metrics, labels, selectors>>

CloseBracket ==
    /\ Reading /\ Tok = RightBracket
    /\ bracket' = IF bracket > 0 THEN bracket - 1 ELSE 0
    /\ Consume
    /\ UNCHANGED <<depth, consumed, metrics, labels, selectors>>

\* A selector belongs to the metric just before its brace, if there is one.
OpenBrace ==
    /\ Reading /\ bracket = 0 /\ Tok = LeftBrace
    /\ depth' = depth + 1
    /\ LET before == Peek(at - 1)
           named == before.kind = "ident" /\ before.text \in metrics
       IN  selectors' = IF depth > 0 THEN selectors
                        ELSE Append(selectors, [metric |-> IF named THEN before.text ELSE None,
                                                matchers |-> << >>])
    /\ Consume
    /\ UNCHANGED <<bracket, consumed, metrics, labels>>

CloseBrace ==
    /\ Reading /\ bracket = 0 /\ Tok = RightBrace
    /\ depth' = IF depth > 0 THEN depth - 1 ELSE 0
    /\ Consume
    /\ UNCHANGED <<bracket, consumed, metrics, labels, selectors>>

IsMatcher == depth > 0 /\ Tok.kind = "ident"
             /\ Peek(at + 1).kind = "punct" /\ Peek(at + 1).text \in matcherOps

\* The value of __name__ is a metric.
NameMatcher ==
    /\ Reading /\ bracket = 0 /\ IsMatcher /\ Tok.text = "__name__"
    /\ metrics' = metrics \cup IF Peek(at + 2).kind = "str" THEN {Peek(at + 2).text} ELSE {}
    /\ Consume
    /\ UNCHANGED <<depth, bracket, consumed, labels, selectors>>

LabelMatcher ==
    /\ Reading /\ bracket = 0 /\ IsMatcher /\ Tok.text # "__name__"
    /\ labels' = labels \cup {Tok.text}
    /\ IF Peek(at + 2).kind = "str"
       THEN AddMatcher([label |-> Tok.text, op |-> Peek(at + 1).text, value |-> Peek(at + 2).text])
       ELSE UNCHANGED selectors
    /\ Consume
    /\ UNCHANGED <<depth, bracket, consumed, metrics>>

GroupingClause ==
    /\ Reading /\ bracket = 0 /\ depth = 0
    /\ Tok.kind = "ident" /\ Tok.text \in groupingKeywords
    /\ consumed' = consumed \cup Grouping(toks, at + 1)
    /\ labels' = labels \cup Names(toks, at + 1)
    /\ Consume
    /\ UNCHANGED <<depth, bracket, metrics, selectors>>

\* Fault: a word before a parenthesis is a metric too.
NamesAnyMetric ==
    /\ depth = 0 /\ Tok.kind = "ident"
    /\ Tok.text \notin keywords \cup aggregators

\* A word outside braces is a metric unless it is a keyword, an aggregator or, before a
\* parenthesis, a function.
NamesMetric ==
    /\ depth = 0 /\ Tok.kind = "ident"
    /\ Tok.text \notin keywords \cup aggregators
    /\ Peek(at + 1) # LeftParen

MetricName ==
    /\ Reading /\ bracket = 0 /\ NamesMetric
    /\ metrics' = metrics \cup {Tok.text}
    /\ Consume
    /\ UNCHANGED <<depth, bracket, consumed, labels, selectors>>

\* Everything inside brackets, and every token that names nothing.
PassOver ==
    /\ Reading /\ Tok \notin {LeftBracket, RightBracket}
    /\ \/ bracket > 0
       \/ /\ Tok \notin {LeftBrace, RightBrace}
          /\ ~IsMatcher /\ ~NamesMetric
          /\ ~(depth = 0 /\ Tok.kind = "ident" /\ Tok.text \in groupingKeywords)
    /\ Consume
    /\ UNCHANGED extraction

EndExtract ==
    /\ phase = "extract" /\ at > Len(toks)
    /\ phase' = "names"
    /\ UNCHANGED <<name, absence, at, extraction, server, unanswered, verdict>>

-----------------------------------------------------------------------------
(* checkScenario and checkSeries                                             *)

\* Prometheus: what a matcher asks of a series.  A pattern matches the values it was
\* built from; a label that is not there is the empty value.
Satisfies(series, m) ==
    LET value == IF m.label \in DOMAIN series.labels THEN series.labels[m.label] ELSE None
        same == value = m.value \/ (m.op \in {"=~", "!~"} /\ value \in ParamValue
                                    /\ m.value \in BuiltFrom[value])
    IN  IF m.op \in {"=", "=~"} THEN same ELSE ~same

Selected(have, metric, matchers) ==
    {s \in have : s.name = metric /\ \A m \in matchers : Satisfies(s, m)}

\* A matcher names the target if its value is a parameter's or a pattern built from one.
IdentifiesTarget(m) ==
    \/ m.op = "=" /\ m.value \in ParamValue
    \/ m.op = "=~" /\ (m.value \in ParamValue \/ \E v \in ParamValue : m.value \in BuiltFrom[v])

\* Fault: the matchers that describe the failure are kept.
ProbeAll(sel) == {sel.matchers[i] : i \in DOMAIN sel.matchers}

\* targetProbe: the matchers that name the target, the first of each label.
Probe(sel) ==
    LET target == {i \in DOMAIN sel.matchers : IdentifiesTarget(sel.matchers[i])}
    IN  {sel.matchers[i] : i \in {i \in target :
            \A j \in target : sel.matchers[j].label = sel.matchers[i].label => i <= j}}

\* checkScenario: the names the query depends on, and those the server lists.
CheckNames ==
    /\ phase = "names"
    /\ \E have \in SUBSET Series, ended \in SUBSET Stale :
        LET listed == have \cup ended
            missingMetrics == metrics \ {s.name : s \in listed}
            missingLabels == labels \ UNION {DOMAIN s.labels : s \in listed}
            status == IF missingMetrics # {} THEN "metric missing"
                      ELSE IF missingLabels # {} THEN "label missing" ELSE "ok"
        IN  /\ listed # {}
            /\ server' = have
            /\ verdict' = status
            /\ phase' = IF status = "ok" /\ ~absence /\ metrics # {} THEN "series" ELSE "done"
    /\ at' = 1
    /\ UNCHANGED <<name, absence, extraction, unanswered>>

\* The server does not answer: the selector is passed over.
ProbeFails ==
    /\ phase = "series" /\ at <= Len(selectors) /\ selectors[at].metric # None
    /\ unanswered' = TRUE
    /\ at' = at + 1
    /\ UNCHANGED <<name, absence, phase, extraction, server, verdict>>

ProbeAnswered ==
    /\ phase = "series" /\ at <= Len(selectors) /\ selectors[at].metric # None
    /\ LET found == Selected(server, selectors[at].metric, Probe(selectors[at]))
       IN  /\ verdict' = IF found = {} THEN "selector matches nothing" ELSE verdict
           /\ phase' = IF found = {} THEN "done" ELSE phase
    /\ at' = at + 1
    /\ UNCHANGED <<name, absence, extraction, server, unanswered>>

\* A selector without a metric before its brace is not probed.
PassNameless ==
    /\ phase = "series" /\ at <= Len(selectors) /\ selectors[at].metric = None
    /\ at' = at + 1
    /\ UNCHANGED <<name, absence, phase, extraction, server, unanswered, verdict>>

EndSeries ==
    /\ phase = "series" /\ at > Len(selectors)
    /\ phase' = "done"
    /\ UNCHANGED <<name, absence, at, extraction, server, unanswered, verdict>>

-----------------------------------------------------------------------------
Init ==
    /\ name \in DOMAIN Query
    /\ absence \in BOOLEAN
    /\ phase = "extract" /\ at = 1
    /\ depth = 0 /\ bracket = 0 /\ consumed = {}
    /\ metrics = {} /\ labels = {} /\ selectors = << >>
    /\ server = {} /\ unanswered = FALSE /\ verdict = "ok"

Extract ==
    \/ Skip \/ OpenBracket \/ CloseBracket \/ OpenBrace \/ CloseBrace
    \/ NameMatcher \/ LabelMatcher \/ GroupingClause \/ MetricName \/ PassOver
    \/ EndExtract

Next == Extract \/ CheckNames \/ ProbeFails \/ ProbeAnswered \/ PassNameless \/ EndSeries

Spec == Init /\ [][Next]_vars

-----------------------------------------------------------------------------
(* Properties                                                                *)

TypeOK ==
    /\ name \in DOMAIN Query /\ absence \in BOOLEAN /\ unanswered \in BOOLEAN
    /\ phase \in {"extract", "names", "series", "done"}
    /\ at \in Nat \ {0}
    /\ depth \in 0 .. 1 /\ bracket \in 0 .. 1
    /\ consumed \subseteq Nat
    /\ metrics \subseteq STRING /\ labels \subseteq STRING
    /\ selectors \in Seq(Selector)
    /\ server \subseteq Series
    /\ verdict \in {"ok", "metric missing", "label missing", "selector matches nothing"}

\* What is extracted is what the query depends on, whatever its functions, groupings,
\* ranges, offsets and joins: its metrics, its label keys, and each selector with its own
\* matchers ("Flattening loses this, and losing it is a real bug", extract.go:68).  Of the
\* selectors, those with a metric before the brace have that metric.
RefsAreExact ==
    phase \in {"names", "series"} =>
        /\ metrics = query.metrics
        /\ labels = query.labels
        /\ Len(selectors) = Len(query.selectors)
        /\ \A i \in DOMAIN selectors :
            /\ selectors[i].matchers = query.selectors[i].matchers
            /\ i \notin query.inside => selectors[i].metric = query.selectors[i].metric

\* The selectors that the check can probe: with their metric before the brace.
Named == {i \in DOMAIN query.selectors \ query.inside : query.selectors[i].metric # None}

\* No series of the i-th selector's metric is about the target.
Unserved(i) ==
    LET matchers == query.selectors[i].matchers
    IN  Selected(server, query.selectors[i].metric,
                 {matchers[j] : j \in {j \in DOMAIN matchers : IdentifiesTarget(matchers[j])}}) = {}

\* The verdict on series is about the target and never about the failure, "that is the
\* cluster being well, not the entry being broken" (against.go:182), nor about another
\* selector's labels: some named selector has no series for the target if the entry is
\* said to match nothing, and none lacks them if every probe was answered and it is not.
AboutTheTarget ==
    phase = "done" =>
        /\ verdict = "selector matches nothing" => \E i \in Named : Unserved(i)
        /\ verdict = "ok" /\ ~absence /\ ~unanswered => \A i \in Named : ~Unserved(i)

\* The query cannot return anything: each way it could needs a selector that selects
\* nothing on this server.
Dead ==
    \A needed \in query.alternatives : \E sel \in needed :
        Selected(server, sel.metric, sel.matchers) = {}

\* There is no way round a selector: no "or", "unless" or constant in the query.
NeedsAll == query.alternatives = {query.uses}

\* The detector reads no series as 0 if the entry says absence is its signal, and 0 may
\* breach (detector.go:527-547).
FiresOnNothing == absence /\ name \in ZeroBreaches

CannotFire == Dead /\ ~FiresOnNothing

\* The entry is reported for a missing metric, for a label it asks a value of, or for a
\* selector without series, and its query needs all it names.
ReportedBroken ==
    LET asked == {m.label : m \in {m \in UNION {sel.matchers : sel \in query.uses} :
                                        m.op \in {"=", "=~"} /\ m.value # None}}
        gone == labels \ UNION {DOMAIN s.labels : s \in server}
    IN  /\ phase = "done" /\ NeedsAll
        /\ \/ verdict \in {"metric missing", "selector matches nothing"}
           \/ verdict = "label missing" /\ asked \cap gone # {}

\* An entry reported broken cannot fire (against.go:119), unless it fires on no series.
DeadIsDead == ReportedBroken /\ ~FiresOnNothing => CannotFire

\* The verdict of an entry is right both ways: it is about the target, and, entries that
\* fire on no series apart, it calls dead only what cannot fire (against.go:119, 175-191).
VerdictIsRight == AboutTheTarget /\ DeadIsDead
=============================================================================
