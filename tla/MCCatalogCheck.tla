---------------------------- MODULE MCCatalogCheck -----------------------------
(* Queries built the way PromQL is, each with its tokens and its meaning.      *)
EXTENDS CatalogNotation, SequencesExt

I(text) == <<[kind |-> "ident", text |-> text]>>
P(text) == <<Punct(text)>>
S(text) == <<[kind |-> "str", text |-> text]>>
N(text) == <<[kind |-> "num", text |-> text]>>

Ask(label, op, value) == [label |-> label, op |-> op, value |-> value]
MatcherTokens(m) == I(m.label) \o P(m.op) \o S(m.value)
Separated(lists) ==
    FlattenSeq([i \in DOMAIN lists |-> IF i = 1 THEN lists[i] ELSE P(",") \o lists[i]])
Braced(lists) == P("{") \o Separated(lists) \o P("}")

Selecting(tokens, metric, braces, inside, matchers) ==
    LET sel == [metric |-> metric, matchers |-> ToSet(matchers)]
    IN  [tokens |-> tokens, metrics |-> {metric}, labels |-> {m.label : m \in ToSet(matchers)},
         selectors |-> braces, inside |-> inside, uses |-> {sel}, alternatives |-> {{sel}}]

\* metric{matchers}
With(metric, matchers) ==
    Selecting(I(metric) \o Braced([i \in DOMAIN matchers |-> MatcherTokens(matchers[i])]),
              metric, <<[metric |-> metric, matchers |-> matchers]>>, {}, matchers)

\* metric
Bare(metric) == Selecting(I(metric), metric, << >>, {}, << >>)

\* {__name__="metric", matchers}: written without a metric before the brace.
Nameless(metric, matchers) ==
    Selecting(Braced(<<MatcherTokens(Ask("__name__", "=", metric))>>
                     \o [i \in DOMAIN matchers |-> MatcherTokens(matchers[i])]),
              metric, <<[metric |-> metric, matchers |-> matchers]>>, {1}, matchers)

Around(q, before, after) == [q EXCEPT !.tokens = before \o @ \o after]
Labels(names) == P("(") \o Separated([i \in DOMAIN names |-> I(names[i])]) \o P(")")

Rate(q) == Around(q, I("rate") \o P("("), P("[") \o N("5m") \o P("]") \o P(")"))
Peak(q) == Around(q, I("max_over_time") \o P("("),
                  P("[") \o N("30m") \o I(":1m") \o P("]") \o P(")"))
Earlier(q) == Around(q, << >>, I("offset") \o N("5m"))
SumBy(q) == [Around(q, I("sum") \o I("by") \o Labels(<<"le", "workload">>) \o P("("), P(")"))
                EXCEPT !.labels = @ \cup {"le", "workload"}]
SumWithout(q) == [Around(q, I("sum") \o P("("), P(")") \o I("without") \o Labels(<<"pod">>))
                EXCEPT !.labels = @ \cup {"pod"}]
Above(q) == Around(q, << >>, P(">") \o I("bool") \o N("0"))

Binary(x, op, y, more, alternatives) ==
    [tokens |-> x.tokens \o op \o y.tokens, metrics |-> x.metrics \cup y.metrics,
     labels |-> x.labels \cup y.labels \cup more, selectors |-> x.selectors \o y.selectors,
     inside |-> x.inside \cup {i + Len(x.selectors) : i \in y.inside},
     uses |-> x.uses \cup y.uses, alternatives |-> alternatives]

Both(x, y) == {a \cup b : a \in x.alternatives, b \in y.alternatives}
Ratio(x, y) == Binary(x, P("/") \o I("on") \o Labels(<<"workload">>) \o I("group_left")
                         \o Labels(<<"pod">>), y, {"workload", "pod"}, Both(x, y))
And(x, y) == Binary(x, I("and"), y, {}, Both(x, y))
Or(x, y) == Binary(x, I("or"), y, {}, x.alternatives \cup y.alternatives)
Unless(x, y) == Binary(x, I("unless"), y, {}, x.alternatives)
OrZero(x) == [Around(x, << >>, I("or") \o I("vector") \o P("(") \o N("0") \o P(")"))
                EXCEPT !.alternatives = @ \cup {{}}]

Mine == Ask("workload", "=", "mine")
Atoms ==
    << With("requests", <<Mine, Ask("code", "=", "failure")>>),
       With("requests", <<Ask("code", "!=", "failure"), Mine>>),
       With("ready", <<Ask("pod", "=~", "mine-.*")>>),
       Nameless("ready", <<Ask("pod", "=~", "mine-.*")>>),
       Bare("ready") >>

Unary(form, q) ==
    CASE form = "plain" -> q
      [] form = "rate" -> Rate(q)
      [] form = "peak" -> Peak(q)
      [] form = "earlier" -> Earlier(q)
      [] form = "sum by" -> SumBy(Rate(q))
      [] form = "sum without" -> SumWithout(q)
      [] form = "above" -> Above(SumBy(q))
      [] form = "or zero" -> OrZero(SumWithout(Rate(q)))
Joined(form, x, y) ==
    CASE form = "ratio" -> Ratio(x, y)
      [] form = "and" -> And(x, y)
      [] form = "or" -> Or(x, y)
      [] form = "unless" -> Unless(x, y)

\* A query is named by how it is built.
UnaryForms == {"plain", "rate", "peak", "earlier", "sum by", "sum without", "above", "or zero"}
Side == (1 .. 5) \X {"plain", "sum by", "sum without"}
Joins == {"ratio", "and", "or", "unless"}
Queries ==
    [n \in (UnaryForms \X (1 .. 5)) \cup (Joins \X Side \X Side) |->
        IF n[1] \in UnaryForms THEN Unary(n[1], Atoms[n[2]])
        ELSE Joined(n[1], Unary(n[2][2], Atoms[n[2][1]]), Unary(n[3][2], Atoms[n[3][1]]))]

Requests(workload, code) ==
    [name |-> "requests",
     labels |-> [l \in {"workload", "code", "le"} |->
                    CASE l = "workload" -> workload [] l = "code" -> code [] OTHER -> "1"]]
Ready(pod) == [name |-> "ready", labels |-> [l \in {"pod"} |-> pod]]
AllSeries ==
    { Requests("mine", "success"), Requests("mine", "failure"), Requests("other", "failure"),
      Ready("mine"), Ready("other"),
      [name |-> "ready", labels |-> [l \in {"instance"} |-> "mine"]] }

\* Names linger of one series of each metric.
Ended == {Requests("other", "failure"), Ready("other")}

\* Entries that alert on too little: half of the forms.
Falling == {n \in DOMAIN Queries : n[1] \in {"plain", "sum by", "peak", "ratio", "or"}}
Built == [v \in {"mine"} |-> {"mine-.*"}]
=============================================================================
