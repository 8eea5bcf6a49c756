------------------------------ MODULE AnswerStream ------------------------------
(* An answer on its way from the language model to the page (the crate       *)
(* json-stream-parser and html-router routes/chat/message_response_stream.rs).*)
(*                                                                         *)
(* The model writes one JSON document, the text of the answer first and the *)
(* references after it, and it comes in chunks cut anywhere.  Every chunk   *)
(* goes to the storage task, which decodes the whole document with serde at *)
(* the end, and through a parser of the house that is fed one character at  *)
(* a time and keeps what the field "answer" holds so far; what is new of it *)
(* is sent to the page, which appends it to what it shows.                  *)
(*                                                                         *)
(* A text is a sequence of tokens: JSON's own characters, and words, each a *)
(* run of other characters.  The errors of the parser are ignored by its    *)
(* caller, so an operator that meets an unexpected token leaves the parser  *)
(* as it is.                                                               *)
EXTENDS Naturals, Sequences, SequencesExt

CONSTANTS
  Pieces,      \* what an answer is written of: members of AllPieces
  MaxPieces,   \* a bound: pieces in an answer
  MaxChunk     \* a bound: tokens in a chunk

Quote == "\""
Backslash == "\\"
Blank1 == " "
Newline == "newline"   \* the character itself, only in what serde decodes or a page renders

VARIABLES
  document,    \* the tokens the model writes
  answer,      \* the pieces of the answer in it, and whether the layout is the schema's
  received,    \* tokens received so far
  parser,      \* StreamParserState::parser
  lastAnswer,  \* StreamParserState::last_answer_content
  buffer,      \* the page's markdownBuffer
  stored       \* the message of the storage task: "none", "answer" or "raw"

streamVars == <<document, answer, received, parser, lastAnswer, buffer, stored>>

-----------------------------------------------------------------------------
(* A piece of an answer as JSON writes it, as the parser keeps it, and as   *)
(* serde decodes it.                                                       *)
AllPieces == {"word", "n", "comma", "brace", "quote", "newline", "backslash"}

ASSUME AnswersAssumption == Pieces \subseteq AllPieces /\ MaxPieces \in Nat /\ MaxChunk \in Nat

Written(piece) ==
  CASE piece = "comma"     -> <<",">>
    [] piece = "brace"     -> <<"}">>
    [] piece = "quote"     -> <<Backslash, Quote>>
    [] piece = "newline"   -> <<Backslash, "n">>
    [] piece = "backslash" -> <<Backslash, Backslash>>
    [] OTHER               -> <<piece>>

Decoded(piece) ==
  CASE piece = "comma"     -> ","
    [] piece = "brace"     -> "}"
    [] piece = "quote"     -> Quote
    [] piece = "newline"   -> Newline
    [] piece = "backslash" -> Backslash
    [] OTHER               -> piece

(* Only \" is decoded while the answer streams; every other escape is kept  *)
(* as it is written.                                                       *)
AsStreamed(piece) == IF piece = "quote" THEN <<Quote>> ELSE Written(piece)

Spell(pieces, Of(_)) == FlattenSeq([i \in 1..Len(pieces) |-> Of(pieces[i])])

-----------------------------------------------------------------------------
(* The document.  The schema asks for the answer and then the references;   *)
(* a model that does not keep to it may put the references first, or write  *)
(* words around the document.                                              *)
Named(name) == <<Quote, name, Quote>>
Reference(id) == <<"{">> \o Named("reference") \o <<":", Quote>> \o id \o <<Quote, "}">>

ReferenceLists ==
  { <<"[", "]">>,
    <<"[">> \o Reference(<<"word">>) \o <<"]">>,
    <<"[">> \o Reference(<<"word">>) \o <<",">> \o Reference(<<"answer">>) \o <<"]">>,
    <<"[">> \o Reference(<<"word", ",", "5", ",">>) \o <<",">> \o Reference(<<"answer">>) \o <<"]">> }

Layouts == {"schema", "spaced", "referencesFirst", "introduced", "fenced"}

Documents(pieces, refs, layout) ==
  LET gap == IF layout = "spaced" THEN <<Blank1>> ELSE <<>>
      text == Named("answer") \o gap \o <<":">> \o gap \o <<Quote>> \o Spell(pieces, Written) \o <<Quote>>
      list == Named("references") \o gap \o <<":">> \o gap \o refs
      members == IF layout = "referencesFirst" THEN list \o <<",">> \o text
                 ELSE text \o gap \o <<",">> \o gap \o list
      object == <<"{">> \o gap \o members \o gap \o <<"}">>
  IN CASE layout = "introduced" -> <<"word">> \o object
       [] layout = "fenced"     -> <<"json">> \o object
       [] OTHER                 -> object

-----------------------------------------------------------------------------
(* The parser: what it waits for, the key it is at, what it has read of a   *)
(* key or of a value that is no string, whether the last character was a    *)
(* backslash, and the fields of the object so far.                         *)
Field(string, text) == [string |-> string, text |-> text]
NullField == Field(FALSE, <<>>)
NoFields == [key \in {} |-> NullField]

NewParser ==
  [status |-> "Ready", key |-> <<>>, text |-> <<>>, escaped |-> FALSE, fields |-> NoFields]

Insert(fields, key, field) ==
  [k \in DOMAIN fields \cup {key} |-> IF k = key THEN field ELSE fields[k]]

(* A quote, a digit, a minus and the letters t, f and n open a value that   *)
(* is no object, and what is no object never becomes one.  Of the words     *)
(* that come first here only "json" has such a letter.                      *)
AddToReady(p, c) ==
  CASE c = "{"                -> [p EXCEPT !.status = "StartProperty"]
    [] c \in {Quote, "json"} -> [p EXCEPT !.status = "TopLevel"]
    [] OTHER                  -> p

AddToKey(p, c) ==
  CASE p.escaped /\ c = Quote -> [p EXCEPT !.text = Append(@, Quote), !.escaped = FALSE]
    [] p.escaped /\ c # Quote -> [p EXCEPT !.text = @ \o <<Backslash, c>>, !.escaped = FALSE]
    [] ~p.escaped /\ c = Quote ->
         [p EXCEPT !.status = "KeyQuoteClose", !.key = p.text, !.text = <<>>,
                   !.fields = Insert(@, p.text, NullField)]
    [] ~p.escaped /\ c = Backslash -> [p EXCEPT !.escaped = TRUE]
    [] OTHER -> [p EXCEPT !.text = Append(@, c)]

(* A slip: the library this crate is based on took every quote for the end. *)
StopAtAnyQuote(p, c) ==
  CASE c = Quote -> [p EXCEPT !.status = "ValueQuoteClose"]
    [] OTHER     -> [p EXCEPT !.fields[p.key].text = Append(@, c)]

AddToString(p, c) ==
  CASE p.escaped /\ c = Quote ->
         [p EXCEPT !.fields[p.key].text = Append(@, Quote), !.escaped = FALSE]
    [] p.escaped /\ c # Quote ->
         [p EXCEPT !.fields[p.key].text = @ \o <<Backslash, c>>, !.escaped = FALSE]
    [] ~p.escaped /\ c = Quote -> [p EXCEPT !.status = "ValueQuoteClose"]
    [] ~p.escaped /\ c = Backslash -> [p EXCEPT !.escaped = TRUE]
    [] OTHER -> [p EXCEPT !.fields[p.key].text = Append(@, c)]

AddAfterColon(p, c) ==
  CASE c = Blank1 -> p
    [] c = Quote  -> [p EXCEPT !.status = "ValueQuoteOpen", !.escaped = FALSE,
                               !.fields = Insert(@, p.key, Field(TRUE, <<>>))]
    [] OTHER      -> [p EXCEPT !.status = "ValueScalar", !.text = <<c>>]

(* What serde accepts among the pieces that stand between commas and braces *)
IsJson(text) ==
  LET solid == {i \in 1..Len(text) : text[i] # Blank1}
      bare == IF solid = {} THEN <<>> ELSE SubSeq(text, Min(solid), Max(solid))
  IN \/ bare \in {<<"5">>, <<"[", "]">>}
     \/ /\ Len(bare) >= 2 /\ Head(bare) = Quote /\ Last(bare) = Quote
        /\ \A i \in 2..Len(bare) - 1 : bare[i] \notin {Quote, Backslash}

(* A value that is no string goes on to the next comma or closing brace,    *)
(* wherever that is.  When what was read is no JSON the key and the text    *)
(* are gone, taken for the error, and the parser waits for the next one.    *)
AddToScalar(p, c) ==
  CASE c \notin {",", "}"} -> [p EXCEPT !.text = Append(@, c)]
    [] c \in {",", "}"} /\ IsJson(p.text) ->
         [p EXCEPT !.status = IF c = "," THEN "StartProperty" ELSE "Closed",
                   !.key = <<>>, !.text = <<>>,
                   !.fields = Insert(@, p.key, Field(Head(p.text) = Quote, p.text))]
    [] OTHER -> [p EXCEPT !.key = <<>>, !.text = <<>>]

AddAfterString(p, c) ==
  CASE c = "," -> [p EXCEPT !.status = "StartProperty"]
    [] c = "}" -> [p EXCEPT !.status = "Closed"]
    [] OTHER   -> p

(* add_char_into_object *)
AddChar(p, c) ==
  CASE p.status = "Ready"           -> AddToReady(p, c)
    [] p.status = "KeyQuoteOpen"    -> AddToKey(p, c)
    [] p.status = "Colon"           -> AddAfterColon(p, c)
    [] p.status = "ValueQuoteOpen"  -> AddToString(p, c)
    [] p.status = "ValueQuoteClose" -> AddAfterString(p, c)
    [] p.status = "ValueScalar"     -> AddToScalar(p, c)
    [] p.status = "StartProperty" /\ c = Quote ->
         [p EXCEPT !.status = "KeyQuoteOpen", !.text = <<>>, !.escaped = FALSE]
    [] p.status = "KeyQuoteClose" /\ c = ":" -> [p EXCEPT !.status = "Colon"]
    [] OTHER -> p

-----------------------------------------------------------------------------
(* obj.get("answer") as a string *)
AnswerSoFar(p) == IF <<"answer">> \in DOMAIN p.fields /\ p.fields[<<"answer">>].string
                  THEN p.fields[<<"answer">>].text ELSE <<>>

AnswersInit ==
  /\ \E pieces \in SeqOf(Pieces, MaxPieces), refs \in ReferenceLists, layout \in Layouts :
       /\ document = Documents(pieces, refs, layout)
       /\ answer = [pieces |-> pieces, inOrder |-> layout \in {"schema", "spaced", "introduced"}]
  /\ received = 0
  /\ parser = NewParser
  /\ lastAnswer = <<>>
  /\ buffer = <<>>
  /\ stored = "none"

(* process_chunk, and the page's htmx:sseBeforeMessage: what the answer has *)
(* beyond what was sent is sent.  The parser has its state between chunks.  *)
ReceiveChunk ==
  /\ stored = "none"
  /\ \E n \in 1..MaxChunk :
       /\ received + n <= Len(document)
       /\ LET chunk == SubSeq(document, received + 1, received + n)
              fed == FoldLeft(AddChar, parser, chunk)
              current == AnswerSoFar(fed)
          IN /\ parser' = fed
             /\ IF Len(current) > Len(lastAnswer)
                THEN /\ lastAnswer' = current
                     /\ buffer' = buffer \o SubSeq(current, Len(lastAnswer) + 1, Len(current))
                ELSE UNCHANGED <<lastAnswer, buffer>>
       /\ received' = received + n
  /\ UNCHANGED <<document, answer, stored>>

(* The stream ends, with the document or before it: the storage task stores *)
(* the decoded answer, or the text it has when that is not the document.    *)
EndStream ==
  /\ stored = "none"
  /\ stored' = IF received = Len(document) /\ Head(document) = "{" THEN "answer" ELSE "raw"
  /\ UNCHANGED <<document, answer, received, parser, lastAnswer, buffer>>

AnswersNext == ReceiveChunk \/ EndStream

-----------------------------------------------------------------------------
(* What the page makes of its buffer: \n becomes a line break.              *)
Rendered(text) ==
  LET breaks == {i \in 1..Len(text) - 1 : text[i] = Backslash /\ text[i + 1] = "n"}
      Shown(i) == IF i \in breaks THEN <<Newline>> ELSE IF i - 1 \in breaks THEN <<>> ELSE <<text[i]>>
  IN FlattenSeq([i \in 1..Len(text) |-> Shown(i)])

AnswersTypeOK ==
  /\ received \in 0..Len(document)
  /\ parser.status \in {"Ready", "TopLevel", "StartProperty", "KeyQuoteOpen", "KeyQuoteClose",
                        "Colon", "ValueQuoteOpen", "ValueQuoteClose", "ValueScalar", "Closed"}
  /\ parser.escaped \in BOOLEAN
  /\ parser.status = "ValueQuoteOpen" => parser.key \in DOMAIN parser.fields
  /\ \A key \in DOMAIN parser.fields : parser.fields[key].string \in BOOLEAN
  /\ stored \in {"none", "answer", "raw"}

(* The page shows the answer and nothing else, whatever the cuts between    *)
(* the chunks and whatever comes before and after the answer: at any time a *)
(* beginning of it, and all of it once a document with the answer first has *)
(* come.  What is shown then is what is stored and shown from then on,      *)
(* unless the answer has an escape that the page does not undo (here the    *)
(* backslash).  process_chunk, message_response_stream.rs:499.              *)
AnswersAreShown ==
  LET whole == Spell(answer.pieces, AsStreamed)
  IN /\ IsPrefix(buffer, whole)
     /\ received = Len(document) /\ answer.inOrder => buffer = whole
     /\ stored = "answer" /\ answer.inOrder /\ "backslash" \notin Range(answer.pieces)
          => Rendered(buffer) = [i \in 1..Len(answer.pieces) |-> Decoded(answer.pieces[i])]
=============================================================================
