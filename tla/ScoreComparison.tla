---------------------------- MODULE ScoreComparison ----------------------------
(***************************************************************************)
(* The comparison of two experiments by a nominal or an ordinal score: the *)
(* change table of the pairs, Bowker's test, the interval of a difference  *)
(* of proportions, the distribution over the scale, and the paired         *)
(* differences of ranks.  Values are numbers that are compared as their    *)
(* texts, and an option of the scale is recognised by its label or by the  *)
(* text of its value.  Quotients are kept as numerators; the square roots  *)
(* and distribution functions of the statistics library are left out.      *)
(***************************************************************************)
EXTENDS Integers, FiniteSets, Sequences

CONSTANTS
  TextOf,      \* the text of every number: a function
  Codes,       \* the texts of the values that occur
  Scales,      \* the scales a score may have: sequences of options, as entered
  Denominator, \* a common multiple of the numbers of pairs, for quotients
  MaxPairs     \* bound: pairs of results

VARIABLES
  scale,  \* the scale of the score, <<>> before it is created
  pairs   \* the pairs of values, in the order of their dataset rows

comparisonVars == <<scale, pairs>>

Init == scale = <<>> /\ pairs = <<>>

CreateScore(s) == scale = <<>> /\ scale' = s /\ UNCHANGED pairs

\* Both results of a row are DONE and have a value.
Score(a, b) ==
  /\ scale # <<>>
  /\ Len(pairs) < MaxPairs
  /\ pairs' = Append(pairs, <<a, b>>)
  /\ UNCHANGED scale

Next ==
  \/ \E s \in Scales : CreateScore(s)
  \/ \E a, b \in Codes : Score(a, b)

Spec == Init /\ [][Next]_comparisonVars

Side(ps, k) == [i \in DOMAIN ps |-> ps[i][k]]
Swap(ps)    == [i \in DOMAIN ps |-> <<ps[i][2], ps[i][1]>>]
Occurring(s) == {s[i] : i \in DOMAIN s}
Occurrences(s, code) == Cardinality({i \in DOMAIN s : s[i] = code})

\* The number whose text a code is.
ValueOf(code) == CHOOSE v \in DOMAIN TextOf : TextOf[v] = code

-----------------------------------------------------------------------------
(***************************************************************************)
(* The nominal comparison.                                                 *)
(***************************************************************************)
\* One row for every pair of values that occurs: how often it does.
ChangeTable(ps) == [row \in Occurring(ps) |-> Occurrences(ps, row)]

\* The sum of f over S, as the number of units it counts.
SumOver(f, S) == Cardinality(UNION {{c} \X (1 .. f[c]) : c \in S})

Count(ps, k, cat) == SumOver(ChangeTable(ps), {row \in Occurring(ps) : row[k] = cat})

\* Mutant: the cells of those who left and of those who came are swapped.
ContingencyCellsSwapped(ps, cat) ==
  LET cell(inA, inB) == SumOver(ChangeTable(ps),
        {row \in Occurring(ps) : (row[1] = cat) = inA /\ (row[2] = cat) = inB})
  IN [a |-> cell(TRUE, TRUE), b |-> cell(FALSE, TRUE), c |-> cell(TRUE, FALSE), d |-> cell(FALSE, FALSE)]

\* Pairs in the category on both sides, in A, in B, on neither.
ContingencyCells(ps, cat) ==
  LET cell(inA, inB) == SumOver(ChangeTable(ps),
        {row \in Occurring(ps) : (row[1] = cat) = inA /\ (row[2] = cat) = inB})
  IN [a |-> cell(TRUE, TRUE), b |-> cell(TRUE, FALSE), c |-> cell(FALSE, TRUE), d |-> cell(FALSE, FALSE)]

\* newcombePairedCI: the centre of the interval, and n times the square under its root.
IntervalCentre(x)   == (x.a + x.c) - (x.a + x.b)
IntervalRadicand(x) == (x.a + x.b + x.c + x.d) * (x.b + x.c) - (x.c - x.b) * (x.c - x.b)

Categories(ps) == Occurring(Side(ps, 1)) \union Occurring(Side(ps, 2))
DegreesOfFreedom(ps) == (Cardinality(Categories(ps)) * (Cardinality(Categories(ps)) - 1)) \div 2

\* How many pairs went from i to j: nobody, if the table has no such row.
Changed(ps, i, j) == IF <<i, j>> \in DOMAIN ChangeTable(ps) THEN ChangeTable(ps)[<<i, j>>] ELSE 0

\* Mutant: the denominator is one of the two counts.
BowkerTermOneSided(ps, i, j) ==
  LET x == Changed(ps, i, j)
      y == Changed(ps, j, i) IN
  IF x = 0 THEN 0 ELSE (Denominator * ((x - y) * (x - y))) \div x

\* A term of chi squared, over the common denominator.
BowkerTerm(ps, i, j) ==
  LET x == Changed(ps, i, j)
      y == Changed(ps, j, i) IN
  IF x + y = 0 THEN 0 ELSE (Denominator * ((x - y) * (x - y))) \div (x + y)

\* Over the categories in their order, each with those after it.
Bowker(ps) ==
  SumOver([p \in Categories(ps) \X Categories(ps) |-> BowkerTerm(ps, p[1], p[2])],
          {p \in Categories(ps) \X Categories(ps) : ValueOf(p[1]) < ValueOf(p[2])})

-----------------------------------------------------------------------------
(***************************************************************************)
(* The ordinal comparison.                                                 *)
(***************************************************************************)
\* buildCdfs: the count of an option is that of its label, or else of its value.
OptionCount(s, option) ==
  IF option.label \in Occurring(s) THEN Occurrences(s, option.label)
  ELSE Occurrences(s, TextOf[option.value])

\* Mutant: the scale is walked through as entered.
UpToAsEntered(k) == {j \in DOMAIN scale : j <= k}

\* The options up to the k-th when they are sorted by value, which keeps equal ones in order.
UpTo(k) ==
  {j \in DOMAIN scale :
     scale[j].value < scale[k].value \/ (scale[j].value = scale[k].value /\ j <= k)}

FirstOf(K) == CHOOSE k \in K : \A j \in K : k \in UpTo(j)
LastOf(K)  == CHOOSE k \in K : \A j \in K : j \in UpTo(k)

Cumulative(s, k) == SumOver([j \in DOMAIN scale |-> OptionCount(s, scale[j])], UpTo(k))

\* The distribution is kept by label: of several options with one label, the last counts.
Cdf(s, label) == Cumulative(s, LastOf({k \in DOMAIN scale : scale[k].label = label}))

\* findPercentileCategory: the first option that reaches it, or else the last.
PercentileOption(s, p) ==
  LET reach == {k \in DOMAIN scale : 100 * Cdf(s, scale[k].label) >= p * Len(s)}
  IN IF reach = {} THEN LastOf(DOMAIN scale) ELSE FirstOf(reach)

IsOption(code, option) == option.label = code \/ TextOf[option.value] = code
OnScale(code) == \E k \in DOMAIN scale : IsOption(code, scale[k])

\* The first option, as entered, that the code stands for.
FirstOption(code) ==
  CHOOSE k \in DOMAIN scale :
    IsOption(code, scale[k]) /\ \A j \in DOMAIN scale : IsOption(code, scale[j]) => k <= j

\* Mutant: a rank is the place of the option in the scale as entered.
RankAsEntered(code) == FirstOption(code)

RankOf(code) == scale[FirstOption(code)].value

\* The places whose values are on the scale, up to i.
KeptUpTo(s, i) == {j \in DOMAIN s : j <= i /\ OnScale(s[j])}

\* mapToRanks drops what is not on the scale, each side for itself.
Ranks(s) ==
  [n \in 1 .. Cardinality(KeptUpTo(s, Len(s))) |->
     RankOf(s[CHOOSE i \in KeptUpTo(s, Len(s)) : Cardinality(KeptUpTo(s, i)) = n])]

\* calculateCliffsDeltaPaired: a rank without a partner is neither more nor less.
Dominance(ps) ==
  LET a == Ranks(Side(ps, 1))
      b == Ranks(Side(ps, 2))
      both == DOMAIN a \intersect DOMAIN b
  IN Cardinality({i \in both : b[i] > a[i]}) - Cardinality({i \in both : b[i] < a[i]})

-----------------------------------------------------------------------------
(***************************************************************************)
(* Properties.                                                             *)
(***************************************************************************)
\* Labels and values tell the options apart, and no label is the text of a
\* number other than its option's value: then a code has one option, and an
\* option one code.
Unambiguous ==
  \A j, k \in DOMAIN scale :
    /\ scale[j].label = scale[k].label \/ scale[j].value = scale[k].value => j = k
    /\ scale[j].label \in Codes => scale[j].label = TextOf[scale[j].value]

AllOnScale == \A c \in Categories(pairs) : OnScale(c)

\* Every difference of proportions lies in the middle of its interval, the
\* root exists, and Cramer's V is at most one.
MeasuresAreDefined ==
  /\ \A cat \in Codes :
       LET x == ContingencyCells(pairs, cat) IN
       /\ IntervalCentre(x) = Count(pairs, 2, cat) - Count(pairs, 1, cat)
       /\ IntervalRadicand(x) >= 0
  /\ Bowker(pairs) <= Denominator * Len(pairs)
  /\ Bowker(pairs) > 0 => DegreesOfFreedom(pairs) > 0

\* To compare B with A is to compare A with B the other way round.  (Of the
\* ranks this is the numerator: its denominator is the number of ranks of A.)
SwapTurnsItAround ==
  /\ Bowker(Swap(pairs)) = Bowker(pairs)
  /\ \A cat \in Codes : IntervalCentre(ContingencyCells(Swap(pairs), cat))
                          = - IntervalCentre(ContingencyCells(pairs, cat))
  /\ Dominance(Swap(pairs)) = - Dominance(pairs)

\* If every value is on an unambiguous scale, the differences are those of the
\* pairs, and a median has half of the values on each side of it.
RanksFollowThePairs ==
  scale # <<>> /\ Unambiguous /\ AllOnScale =>
    /\ Dominance(pairs) =
         Cardinality({i \in DOMAIN pairs : ValueOf(pairs[i][2]) > ValueOf(pairs[i][1])})
           - Cardinality({i \in DOMAIN pairs : ValueOf(pairs[i][2]) < ValueOf(pairs[i][1])})
    /\ \A k \in {1, 2} :
         LET s == Side(pairs, k)
             median == scale[PercentileOption(s, 50)].value
         IN /\ 2 * Cardinality({i \in DOMAIN s : ValueOf(s[i]) <= median}) >= Len(s)
            /\ 2 * Cardinality({i \in DOMAIN s : ValueOf(s[i]) >= median}) >= Len(s)

\* The measures of a comparison are defined, symmetric and about the pairs.
ComparisonSafety == MeasuresAreDefined /\ SwapTurnsItAround /\ RanksFollowThePairs
=============================================================================
