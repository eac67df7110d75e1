------------------------------- MODULE MCServices -------------------------------
(* Instances of Services for TLC. *)
EXTENDS Services, MCOnboarding

CONSTANTS
  q1, q2,  \* the requests under way at a time
  pa, pb   \* the projects of the organisation

Pair == {q1, q2}
TwoProjects == {pa, pb}
ServicesSymmetry == Permutations(Pair)

ThreeExperiments == {"x1", "x2", "x3"}
ThreeEvaluations == {"v1", "v2", "v3"}
Belongs == [x1 |-> 1, x2 |-> 2, x3 |-> 1, v1 |-> 1, v2 |-> 2, v3 |-> 1]
Ages    == [x1 |-> 3, x2 |-> 2, x3 |-> 1, v1 |-> 1, v2 |-> 3, v3 |-> 1]
Refers  == [v1 |-> {"x1"}, v2 |-> {}, v3 |-> {"x3"}]

Option(label, value) == [label |-> label, value |-> value]
FourScales ==
  {<<Option("bad", 0), Option("good", 2)>>,
   <<Option("good", 2), Option("bad", 0), Option("1", 1)>>,
   <<Option("bad", 1), Option("bad", 0)>>,
   <<Option("1", 0), Option("2", 1), Option("3", 2)>>}
Digits == [v \in 0 .. 2 |-> <<"0", "1", "2">>[v + 1]]

ThreeHeaders == {<<"a">>, <<"a", "a">>, <<"a", "">>}

SourceOf(kind, byAttributes, byExistence) ==
  [kind |-> kind, byQuery |-> byAttributes, byAttributes |-> byAttributes, byExistence |-> byExistence]
SevenSources ==
  {SourceOf(k, FALSE, FALSE) : k \in {"tempo", "clickhouse", "jaeger", "custom"}}
  \union {SourceOf("custom", TRUE, FALSE), SourceOf("custom", FALSE, TRUE), SourceOf("custom", TRUE, TRUE)}

SpanOf(resource, span, own) == [resource |-> resource, span |-> span, own |-> own]
FourSpans ==
  {SpanOf({}, {"chat"}, FALSE), SpanOf({"project"}, {"chat"}, FALSE),
   SpanOf({"chat"}, {"project"}, FALSE), SpanOf({"project"}, {"user"}, TRUE)}
=============================================================================
