------------------------------- MODULE Slices -------------------------------
(***************************************************************************)
(* The ledgers of the retrieval benchmark as pure operators                *)
(* (src/evaluations/src/slice/): which questions of a dataset a slice      *)
(* evaluates and which paragraphs it puts around them.                     *)
(*                                                                         *)
(* A dataset in memory is [id, paragraphs, listed]: its name, the set of   *)
(* its paragraphs and the questions listed with them.  A ledger is         *)
(* [dataset, llm, verified, mult, cases, entries]: cases is a sequence of  *)
(* questions, entries one of [id, asks], asks being the questions of a     *)
(* positive paragraph and empty in a negative one.  The code shuffles with *)
(* fixed seeds; here two fixed orders stand for the shuffles.  Multipliers *)
(* are counted in halves.                                                  *)
(***************************************************************************)
EXTENDS Integers, Sequences, FiniteSets, SequencesExt, FiniteSetsExt

CONSTANTS
  ParagraphOf,     \* question -> the paragraph that answers it
  Unanswerable,    \* the questions without an answer
  CaseOrder,       \* the questions as shuffled
  ParagraphOrder,  \* the paragraphs as shuffled
  MixSubsets,      \* the datasets of the "beir" mix, in the code's order
  SubsetOf         \* paragraph -> the dataset its id is prefixed with

FirstOf(s, n) == SubSeq(s, 1, Min({n, Len(s)}))
HalvesOf(n, mult) == (n * mult + 1) \div 2

(* Unanswerable questions are offered with --llm-mode only *)
Eligible(ds, llm) == {q \in ds.listed : llm \/ q \notin Unanswerable}

-----------------------------------------------------------------------------
(* The mix takes the same number from every subset, the first ones one more, *)
(* and what a subset lacks is granted to the others in turns                 *)
MixGroup(ds, llm, i) ==
  SelectSeq(CaseOrder, LAMBDA q : q \in Eligible(ds, llm) /\ SubsetOf[ParagraphOf[q]] = MixSubsets[i])

MixQuota(i, target, subsets) ==
  target \div subsets + IF i <= target % subsets THEN 1 ELSE 0

FirstTakes(size, target) ==
  [i \in DOMAIN size |-> Min({MixQuota(i, target, Len(size)), size[i]})]

Shortfall(size, target) ==
  LET missing[i \in 0 .. Len(size)] ==
        IF i = 0 THEN 0
        ELSE missing[i - 1] + (MixQuota(i, target, Len(size)) - FirstTakes(size, target)[i])
  IN  missing[Len(size)]

Granted(g, take, size) ==
  LET spare == {i \in DOMAIN g : size[i] > g[i]}
      next == {i \in spare : \A j \in spare : g[i] - take[i] <= g[j] - take[j]}
  IN  IF next = {} THEN g ELSE [g EXCEPT ![Min(next)] = @ + 1]

Topped(take, size, turns) ==
  LET g[turn \in 0 .. turns] == IF turn = 0 THEN take ELSE Granted(g[turn - 1], take, size)
  IN  g[turns]

MixTakes(size, target) == Topped(FirstTakes(size, target), size, Shortfall(size, target))

(* They are asked in rounds, one of every subset that has one left *)
Rounds(queues, takes, target) ==
  FlattenSeq([r \in 1 .. target |->
                FlattenSeq([i \in DOMAIN queues |->
                              IF r <= takes[i] THEN <<queues[i][r]>> ELSE <<>>])])

Interleaved(queues, target) ==
  Rounds(queues, MixTakes([i \in DOMAIN queues |-> Len(queues[i])], target), target)

MixOrder(ds, llm, target) ==
  Interleaved([i \in DOMAIN MixSubsets |-> MixGroup(ds, llm, i)], target)

OrderedQuestions(ds, llm, target) ==
  IF ds.id = "beir" THEN MixOrder(ds, llm, target)
  ELSE SelectSeq(CaseOrder, LAMBDA q : q \in Eligible(ds, llm))

-----------------------------------------------------------------------------
PositiveEntries(ledger) == SelectSeq(ledger.entries, LAMBDA e : e.asks # {})
NegativeEntries(ledger) == SelectSeq(ledger.entries, LAMBDA e : e.asks = {})
LedgerParagraphs(ledger) == {e.id : e \in ToSet(ledger.entries)}

EmptyLedger(ds, llm, verified, mult) ==
  [dataset |-> ds.id, llm |-> llm, verified |-> verified, mult |-> mult,
   cases |-> <<>>, entries |-> <<>>]

(* Questions the ledger has not yet are appended until it has `target`, and  *)
(* with the first question of a paragraph the paragraph, as a positive one   *)
Added(ds, ledger, target) ==
  LET known == ToSet(ledger.cases)
  IN  FirstOf(SelectSeq(OrderedQuestions(ds, ledger.llm, target), LAMBDA q : q \notin known),
              target - Len(ledger.cases))

AskedOf(ids, q) == IF ParagraphOf[q] \in ToSet(ids) THEN ids ELSE Append(ids, ParagraphOf[q])

Asking(ledger, cases) ==
  LET ids == FoldLeft(AskedOf, [i \in DOMAIN ledger.entries |-> ledger.entries[i].id], cases)
  IN  [ledger EXCEPT !.cases = cases,
                     !.entries = [i \in DOMAIN ids |->
                                    [id |-> ids[i],
                                     asks |-> {q \in ToSet(cases) : ParagraphOf[q] = ids[i]}]]]

WithCases(ds, ledger, target) == Asking(ledger, ledger.cases \o Added(ds, ledger, target))

DesiredNegatives(positives, corpus, paragraphs, mult) ==
  IF positives = 0 THEN 0
  ELSE Min({HalvesOf(positives, mult), Max({Min({corpus, paragraphs}), positives}) - positives})

WithNegatives(ds, ledger, target) ==
  LET others == SelectSeq(ParagraphOrder, LAMBDA p : p \in ds.paragraphs
                                                   /\ p \notin LedgerParagraphs(ledger))
      missing == Max({target - Len(NegativeEntries(ledger)), 0})
      added == FirstOf(others, missing)
  IN  [ledger EXCEPT !.entries = @ \o [i \in DOMAIN added |-> [id |-> added[i], asks |-> {}]]]

(* What is asked of a slice: limit and corpus are 0 when not given *)
LimitOf(ds, ask) == IF ask.limit = 0 THEN Max({Cardinality(ds.listed), 1})
                    ELSE Max({Min({ask.limit, Cardinality(ds.listed)}), 1})
CorpusOf(ds, ask) == IF ask.corpus = 0 THEN Max({Cardinality(ds.paragraphs), 1})
                     ELSE Max({Min({ask.corpus, Cardinality(ds.paragraphs)}), 1})

(* A ledger as it is built where the slice has no file *)
Filled(ds, ask, ledger) ==
  WithNegatives(ds, ledger, DesiredNegatives(Len(PositiveEntries(ledger)), CorpusOf(ds, ask),
                                             Cardinality(ds.paragraphs), ask.mult))

Materialized(ds, ask) ==
  Filled(ds, ask,
         WithCases(ds, EmptyLedger(ds, ask.llm, ask.verified, ask.mult), LimitOf(ds, ask)))

Materializes(ds, ask) ==
  Len(OrderedQuestions(ds, ask.llm, LimitOf(ds, ask))) >= LimitOf(ds, ask)

(* A ledger that was read names only what the dataset has *)
Resolves(ds, ledger) ==
  /\ LedgerParagraphs(ledger) \subseteq ds.paragraphs
  /\ \A e \in ToSet(ledger.entries) : e.asks \subseteq ds.listed
  /\ ToSet(ledger.cases) \subseteq ds.listed
  /\ ledger.cases # <<>>

(* Whether a run may load just the ledger's paragraphs *)
IsComplete(ledger, ask) ==
  LET positives == Len(PositiveEntries(ledger))
      total == Len(ledger.entries)
      corpus == IF ask.corpus = 0 THEN Max({total, 1}) ELSE ask.corpus
  IN  /\ Len(ledger.cases) >= IF ask.limit = 0 THEN Max({Len(ledger.cases), 1}) ELSE ask.limit
      /\ Len(NegativeEntries(ledger))
           >= DesiredNegatives(positives, corpus, Max({total, positives, 1}), ask.mult)

-----------------------------------------------------------------------------
(* The cases a run evaluates: `limit` of them from `offset` on *)
WindowExists(ledger, offset) == offset < Len(ledger.cases)

WindowOf(ledger, offset, limit) ==
  LET available == Len(ledger.cases) - offset
      length == IF limit = 0 THEN available ELSE Min({limit, available})
  IN  SubSeq(ledger.cases, offset + 1, offset + length)

(* The paragraphs a window needs: those of its cases and as many negative    *)
(* ones as the multiplier asks for, in the ledger's order                    *)
PlanOf(ledger, window) ==
  LET own == {ParagraphOf[q] : q \in ToSet(window)}
      negatives == FirstOf(NegativeEntries(ledger), HalvesOf(Cardinality(own), ledger.mult))
  IN  SelectSeq(ledger.entries, LAMBDA e : e.id \in own \/ e \in ToSet(negatives))

-----------------------------------------------------------------------------
(* A ledger is what its slice is meant to be: no question and no paragraph   *)
(* twice, the positive paragraphs those of its cases.  In the mix a subset   *)
(* is ahead of one that has more to give by what the quotas differ by, one   *)
(* case, and, if a third subset leaves them a shortfall, by one more.        *)
WellFormed(ledger) ==
  /\ IsInjective(ledger.cases)
  /\ \A i, j \in DOMAIN ledger.entries : ledger.entries[i].id = ledger.entries[j].id => i = j
  /\ \A e \in ToSet(ledger.entries) :
       e.asks = {q \in ToSet(ledger.cases) : ParagraphOf[q] = e.id}
  /\ {ParagraphOf[q] : q \in ToSet(ledger.cases)} \subseteq LedgerParagraphs(ledger)

Balanced(ds, ledger) ==
  ds.id = "beir" =>
    LET of == [i \in DOMAIN MixSubsets |->
                 {q \in ToSet(ledger.cases) : SubsetOf[ParagraphOf[q]] = MixSubsets[i]}]
    IN  \A i, j \in DOMAIN MixSubsets :
          Cardinality(of[i]) > Cardinality(of[j]) + Min({2, Len(MixSubsets) - 1})
            => Cardinality(of[j]) = Len(MixGroup(ds, ledger.llm, j))
=============================================================================
