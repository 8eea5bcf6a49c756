------------------------------ MODULE Datasets ------------------------------
(***************************************************************************)
(* The converted stores of the retrieval benchmark as pure operators       *)
(* (src/evaluations/src/datasets/).  A store is a directory with the ids   *)
(* of its paragraphs, a catalog of their questions, one file per paragraph *)
(* and a marker with its checksum.  It is there as soon as its first file, *)
(* the metadata, is: what a conversion that dies leaves behind is taken    *)
(* for a converted dataset.                                                *)
(*                                                                         *)
(* The raw data do not change.  A checksum is what it is computed of.      *)
(***************************************************************************)
EXTENDS Slices

CONSTANTS
  RawParagraphs,  \* dataset -> its paragraphs, in the order of the raw data
  Restamped,      \* the datasets whose metadata carry the time of conversion
  NoStore,        \* there is no metadata file
  NoSum           \* the marker is missing or older than the metadata

QuestionsOf(p) == {q \in DOMAIN ParagraphOf : ParagraphOf[q] = p}
QuestionsIn(ps) == {q \in DOMAIN ParagraphOf : ParagraphOf[q] \in ps}

RawDataset(d) ==
  LET ps == ToSet(RawParagraphs[d]) IN [id |-> d, paragraphs |-> ps, listed |-> QuestionsIn(ps)]

(* The mix has no raw data of its own but the subsets' *)
MixDataset ==
  LET ps == UNION {ToSet(RawParagraphs[d]) : d \in ToSet(MixSubsets)}
  IN  [id |-> "beir", paragraphs |-> ps, listed |-> QuestionsIn(ps)]

-----------------------------------------------------------------------------
(* Files are written one after another, a step being <<file, paragraph>>;    *)
(* a new paragraph's id comes before its questions and its file in a new     *)
(* store, after its file in one that grows                                   *)
WriteSteps(ps) ==
  FlattenSeq([i \in DOMAIN ps |-> <<<<"id", ps[i]>>, <<"questions", ps[i]>>, <<"file", ps[i]>>>>])

UpsertSteps(store, ps) ==
  FlattenSeq([i \in DOMAIN ps |->
                IF ps[i] \in ToSet(store.ids) THEN <<<<"file", ps[i]>>>>
                ELSE <<<<"file", ps[i]>>, <<"id", ps[i]>>, <<"questions", ps[i]>>>>])

Written(store, step) ==
  LET p == step[2] IN
  CASE step[1] = "id" -> [store EXCEPT !.ids = Append(@, p)]
    [] step[1] = "questions" -> [store EXCEPT !.listed = @ \cup QuestionsOf(p)]
    [] step[1] = "file" -> [store EXCEPT !.files = @ \cup {p}]

AfterSteps(store, steps) == FoldLeft(Written, store, steps)

EmptyStore(llm, stamp) ==
  [ids |-> <<>>, listed |-> {}, files |-> {}, llm |-> llm, stamp |-> stamp, sum |-> NoSum]

(* The checksum of a store is computed once and read from the marker until   *)
(* the metadata are written again                                            *)
Digest(store) == <<ToSet(store.ids), store.listed, store.files, store.stamp>>
Checksum(store) == IF store.sum = NoSum THEN Digest(store) ELSE store.sum
Marked(store) == [store EXCEPT !.sum = Checksum(store)]

(* A new store replaces what the directory held *)
Converted(ps, llm, stamp) == Marked(AfterSteps(EmptyStore(llm, stamp), WriteSteps(ps)))

(* The metadata, and with them the checksum, follow when a paragraph is new *)
Upserted(store, ps) ==
  LET after == AfterSteps(store, UpsertSteps(store, ps))
  IN  IF ToSet(ps) \subseteq ToSet(store.ids) THEN after
      ELSE Marked([after EXCEPT !.sum = NoSum])

-----------------------------------------------------------------------------
(* A store is loaded whole, with the questions in the paragraphs' files, or  *)
(* the paragraphs of a ledger with those in the catalog                      *)
LoadsWhole(store) == ToSet(store.ids) \subseteq store.files
WholeOf(d, store) ==
  [id |-> d, paragraphs |-> ToSet(store.ids), listed |-> QuestionsIn(ToSet(store.ids))]

LoadsPart(store, ps) == ps \subseteq store.files
PartOf(d, store, ps) ==
  [id |-> d, paragraphs |-> ps, listed |-> QuestionsIn(ps) \cap store.listed]

-----------------------------------------------------------------------------
(* The paragraphs of the mix's ledger are kept in the stores of the subsets: *)
(* those a store misses, or all of them when forced, are converted           *)
InSubset(ps, d) == {p \in ps : SubsetOf[p] = d}

ToConvert(store, ps, d, force) ==
  LET own == InSubset(ps, d)
      there == IF store = NoStore THEN {} ELSE ToSet(store.ids)
      missing == IF force THEN own ELSE own \ there
  IN  SelectSeq(RawParagraphs[d], LAMBDA p : p \in missing)

SubsetStore(store, ps, d, force) ==
  LET missing == ToConvert(store, ps, d, force) IN
  IF missing = <<>> THEN store
  ELSE IF store = NoStore THEN Converted(missing, FALSE, 0)
  ELSE Upserted(store, missing)

LoadsMix(stores, ps) == \A p \in ps : stores[SubsetOf[p]] # NoStore /\ p \in stores[SubsetOf[p]].files

MixOf(stores, ps) ==
  [id |-> "beir", paragraphs |-> ps,
   listed |-> {q \in QuestionsIn(ps) : q \in stores[SubsetOf[ParagraphOf[q]]].listed}]
=============================================================================
