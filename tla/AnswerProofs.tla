----------------------------- MODULE AnswerProofs -----------------------------
(***************************************************************************)
(* Proofs about AnswerStream, for answers of any length, any chunks and any *)
(* cuts between them.  The parser is a fold over tokens: first, that feeding *)
(* two lists one after the other is feeding them joined (ReadOn); then what  *)
(* each token does in each state of the parser; then what the parts of a     *)
(* document do: a piece of the answer, a key, a list of references; and so   *)
(* that whatever of a document has been read, the answer so far is a         *)
(* beginning of the answer (DocumentReads).  AnswersInv rests on that.       *)
(***************************************************************************)
EXTENDS AnswerStream, ListProofs

-----------------------------------------------------------------------------
(* FoldLeft of the parser over tokens *)

Folds(g, p, s, n) ==
  g = [t \in SUBSET (1..n) |-> IF t = {} THEN p ELSE AddChar(g[t \ {Max(t)}], s[Max(t)])]

LEMMA MaxOfPrefix == ASSUME NEW n \in Nat, NEW t \in SUBSET (1..n), n \in t PROVE Max(t) = n
<1>1. \A y \in t : n >= y
  OBVIOUS
<1>2. \A x \in t : (\A y \in t : x >= y) => x = n
  OBVIOUS
<1> QED BY <1>1, <1>2 DEF Max

LEMMA FoldsExist ==
  ASSUME NEW p, NEW s, NEW n \in Nat
  PROVE  \E g : Folds(g, p, s, n)
<1> DEFINE Folded == {k \in 0..n : \E g : Folds(g, p, s, k)}
<1>1. 0 \in Folded
  <2>1. PICK g : g = [t \in SUBSET (1..0) |-> p]
    OBVIOUS
  <2>2. \A t \in SUBSET (1..0) : t = {}
    OBVIOUS
  <2>3. g = [t \in SUBSET (1..0) |-> IF t = {} THEN p ELSE AddChar(g[t \ {Max(t)}], s[Max(t)])]
    BY <2>1, <2>2
  <2> QED BY <2>3 DEF Folds
<1>2. ASSUME NEW k \in 0..n, k \in Folded, k < n PROVE k + 1 \in Folded
  <2>1. PICK g : Folds(g, p, s, k)
    BY <1>2
  <2> HIDE DEF Folded
  <2>2. PICK m : m = k + 1
    OBVIOUS
  <2>3. m \in Nat /\ m \in 0..n /\ m - 1 = k
    BY <1>2, <2>2
  <2>4. PICK h : h = [t \in SUBSET (1..m) |-> IF m \in t THEN AddChar(g[t \ {m}], s[m]) ELSE g[t]]
    OBVIOUS
  <2>5. \A t \in SUBSET (1..k) : h[t] = g[t]
    BY <2>2, <2>4
  <2>6. ASSUME NEW t \in SUBSET (1..m)
        PROVE  h[t] = IF t = {} THEN p ELSE AddChar(h[t \ {Max(t)}], s[Max(t)])
    <3>1. CASE m \in t
      <4>1. Max(t) = m
        BY <3>1, <2>3, MaxOfPrefix
      <4>2. t \ {m} \in SUBSET (1..k)
        BY <2>3
      <4>3. h[t \ {m}] = g[t \ {m}]
        BY <4>2, <2>5
      <4>4. h[t] = AddChar(g[t \ {m}], s[m])
        BY <2>4, <3>1
      <4> QED BY <3>1, <4>1, <4>3, <4>4
    <3>2. CASE m \notin t
      <4>1. t \in SUBSET (1..k)
        BY <2>3, <3>2
      <4>2. PICK u : u = t \ {Max(t)}
        OBVIOUS
      <4>3. u \in SUBSET (1..k)
        BY <4>1, <4>2
      <4>4. g[t] = IF t = {} THEN p ELSE AddChar(g[u], s[Max(t)])
        BY <2>1, <4>1, <4>2 DEF Folds
      <4> QED BY <4>1, <4>2, <4>3, <4>4, <2>5
    <3> QED BY <3>1, <3>2
  <2>7. h = [t \in SUBSET (1..m) |-> h[t]]
    BY <2>4
  <2>8. Folds(h, p, s, m)
    BY <2>6, <2>7 DEF Folds
  <2> QED BY <2>2, <2>3, <2>8 DEF Folded
<1>3. n \in Folded
  <2> HIDE DEF Folded
  <2>1. n \in 0..n
    OBVIOUS
  <2> QED BY <2>1, <1>1, <1>2, UpTo
<1> QED BY <1>3

(* What a parser is once it has read some tokens *)
Read(p, s) == FoldLeft(AddChar, p, s)

(* What it is after each of n tokens *)
Fed(r, p, s, n) == r[0] = p /\ \A i \in 1..n : r[i] = AddChar(r[i - 1], s[i])

LEMMA ReadIsFed ==
  ASSUME NEW p, NEW n \in Nat, NEW s, DOMAIN s = 1..n
  PROVE  \E r : Fed(r, p, s, n) /\ Read(p, s) = r[n]
<1> DEFINE g == CHOOSE f : Folds(f, p, s, n)
<1>1. Folds(g, p, s, n)
  BY FoldsExist
<1>2. Read(p, s) = g[1..n]
  BY DEF Read, FoldLeft, MapThenFoldSet, Folds
<1>3. \A t \in SUBSET (1..n) : g[t] = IF t = {} THEN p ELSE AddChar(g[t \ {Max(t)}], s[Max(t)])
  BY <1>1 DEF Folds
<1> HIDE DEF g
<1>4. PICK r : r = [i \in 0..n |-> g[1..i]]
  OBVIOUS
<1>5. r[0] = p /\ r[n] = g[1..n]
  <2>1. 1..0 = {} /\ 1..0 \in SUBSET (1..n) /\ 0 \in 0..n /\ n \in 0..n
    OBVIOUS
  <2> QED BY <2>1, <1>3, <1>4
<1>6. ASSUME NEW i \in 1..n PROVE r[i] = AddChar(r[i - 1], s[i])
  <2>1. i \in Nat /\ i \in 0..n /\ i - 1 \in 0..n
    OBVIOUS
  <2>2. 1..i \in SUBSET (1..i) /\ i \in 1..i /\ 1..i \in SUBSET (1..n) /\ 1..i # {}
    BY <2>1
  <2>3. Max(1..i) = i
    BY ONLY <2>1, <2>2, MaxOfPrefix
  <2>4. (1..i) \ {i} = 1..i - 1
    BY <2>1
  <2>5. g[1..i] = AddChar(g[1..i - 1], s[i])
    BY <1>3, <2>2, <2>3, <2>4
  <2> QED BY <1>4, <2>1, <2>5
<1> QED BY <1>2, <1>5, <1>6 DEF Fed

(* There is one way to feed a parser *)
LEMMA FedIsRead ==
  ASSUME NEW p, NEW n \in Nat, NEW s, DOMAIN s = 1..n, NEW r, Fed(r, p, s, n)
  PROVE  Read(p, s) = r[n]
<1>1. PICK q : Fed(q, p, s, n) /\ Read(p, s) = q[n]
  BY ReadIsFed
<1> DEFINE Same == {i \in 0..n : q[i] = r[i]}
<1>2. 0 \in Same
  BY <1>1 DEF Fed
<1>3. ASSUME NEW i \in 0..n, i \in Same, i < n PROVE i + 1 \in Same
  <2>1. i + 1 \in 1..n /\ (i + 1) - 1 = i /\ i + 1 \in 0..n
    BY <1>3
  <2>2. q[i + 1] = AddChar(q[i], s[i + 1]) /\ r[i + 1] = AddChar(r[i], s[i + 1])
    BY <2>1, <1>1 DEF Fed
  <2> QED BY <2>1, <2>2, <1>3
<1>4. n \in Same
  <2> HIDE DEF Same
  <2>1. n \in 0..n
    OBVIOUS
  <2> QED BY <2>1, <1>2, <1>3, UpTo
<1> QED BY <1>1, <1>4

LEMMA ReadNone == ASSUME NEW p PROVE Read(p, <<>>) = p
<1>1. DOMAIN <<>> = 1..0 /\ 0 \in Nat
  OBVIOUS
<1>2. PICK r : Fed(r, p, <<>>, 0) /\ Read(p, <<>>) = r[0]
  BY <1>1, ReadIsFed
<1> QED BY <1>2 DEF Fed

LEMMA ReadOne == ASSUME NEW p, NEW c PROVE Read(p, <<c>>) = AddChar(p, c)
<1>1. DOMAIN <<c>> = 1..1 /\ 1 \in Nat /\ <<c>>[1] = c
  OBVIOUS
<1>2. PICK r : Fed(r, p, <<c>>, 1) /\ Read(p, <<c>>) = r[1]
  BY <1>1, ReadIsFed
<1>3. 1 \in 1..1 /\ 1 - 1 = 0
  OBVIOUS
<1> QED BY <1>1, <1>2, <1>3 DEF Fed

LEMMA ReadOn ==
  ASSUME NEW p, NEW S, NEW s \in Seq(S), NEW t \in Seq(S)
  PROVE  Read(p, s \o t) = Read(Read(p, s), t)
<1>1. PICK n, k : n = Len(s) /\ k = Len(t)
  OBVIOUS
<1>2. n \in Nat /\ DOMAIN s = 1..n /\ k \in Nat /\ DOMAIN t = 1..k
  BY <1>1, LenProperties
<1>3. PICK r : Fed(r, p, s, n) /\ Read(p, s) = r[n]
  BY <1>2, ReadIsFed
<1>4. PICK q : Fed(q, r[n], t, k) /\ Read(r[n], t) = q[k]
  BY <1>2, ReadIsFed
<1>5. PICK u : u = s \o t
  OBVIOUS
<1>6. /\ DOMAIN u = 1..n + k /\ n + k \in Nat
      /\ \A i \in 1..n : u[i] = s[i]
      /\ \A i \in 1..k : u[n + i] = t[i]
  <2>1. /\ u \in Seq(S) /\ Len(u) = n + k
        /\ \A i \in 1..n + k : u[i] = IF i <= n THEN s[i] ELSE t[i - n]
    BY <1>1, <1>5, ConcatProperties
  <2>2. DOMAIN u = 1..n + k
    BY <2>1, LenProperties
  <2>3. ASSUME NEW i \in 1..k PROVE u[n + i] = t[i]
    <3>1. n + i \in 1..n + k /\ ~(n + i <= n) /\ (n + i) - n = i
      BY <1>2
    <3> QED BY <3>1, <2>1
  <2>4. \A i \in 1..n : u[i] = s[i]
    BY <2>1, <1>2
  <2> QED BY <2>2, <2>3, <2>4, <1>2
<1>7. PICK w : w = [i \in 0..n + k |-> IF i <= n THEN r[i] ELSE q[i - n]]
  OBVIOUS
<1>8. w[0] = p
  BY <1>2, <1>3, <1>7 DEF Fed
<1>9. ASSUME NEW i \in 1..n + k PROVE w[i] = AddChar(w[i - 1], u[i])
  <2>1. CASE i <= n
    <3>1. i \in 1..n /\ w[i] = r[i] /\ w[i - 1] = r[i - 1]
      BY <1>2, <1>7, <2>1
    <3> QED BY <3>1, <1>3, <1>6 DEF Fed
  <2>2. CASE ~(i <= n)
    <3>1. PICK j : j = i - n
      OBVIOUS
    <3>2. j \in 1..k /\ n + j = i /\ w[i] = q[j]
      BY <1>2, <1>7, <2>2, <3>1
    <3>3. w[i - 1] = q[j - 1]
      <4>1. CASE j = 1
        <5>1. w[i - 1] = r[n]
          BY <1>2, <1>7, <3>2, <4>1
        <5> QED BY <5>1, <4>1, <1>4 DEF Fed
      <4>2. CASE j # 1
        BY <1>2, <1>7, <3>1, <3>2, <4>2
      <4> QED BY <4>1, <4>2
    <3>4. q[j] = AddChar(q[j - 1], t[j])
      BY <3>2, <1>4 DEF Fed
    <3> QED BY <3>2, <3>3, <3>4, <1>6
  <2> QED BY <2>1, <2>2
<1>10. Fed(w, p, u, n + k)
  BY <1>8, <1>9 DEF Fed
<1>11. Read(p, u) = w[n + k]
  BY <1>6, <1>10, FedIsRead
<1>12. w[n + k] = q[k]
  <2>1. CASE k = 0
    <3>1. w[n + k] = r[n]
      BY <1>2, <1>7, <2>1
    <3> QED BY <3>1, <2>1, <1>4 DEF Fed
  <2>2. CASE k # 0
    BY <1>2, <1>7, <2>2
  <2> QED BY <2>1, <2>2
<1> QED BY <1>3, <1>4, <1>5, <1>11, <1>12

-----------------------------------------------------------------------------
(* The parser *)

Words == {"n", ",", "}", "{", ":", "[", "]", "5", "word", "answer", "json", "reference", "references"}
Token == {Quote, Backslash, Blank1} \cup Words

LEMMA Tokens ==
  /\ Quote # Backslash /\ Quote # Blank1 /\ Backslash # Blank1
  /\ Quote \in Token /\ Backslash \in Token /\ Blank1 \in Token
  /\ \A c \in Words : c \in Token /\ c # Quote /\ c # Backslash /\ c # Blank1
<1>1. \A c \in Words : c # Quote /\ c # Backslash /\ c # Blank1
  BY DEF Words, Quote, Backslash, Blank1
<1>2. Quote # Backslash /\ Quote # Blank1 /\ Backslash # Blank1
  BY DEF Quote, Backslash, Blank1
<1> QED BY <1>1, <1>2 DEF Token

LEMMA WordTokens ==
  "n" \in Words /\ "," \in Words /\ "}" \in Words /\ "{" \in Words /\ ":" \in Words /\ "[" \in Words
    /\ "]" \in Words /\ "5" \in Words /\ "word" \in Words /\ "answer" \in Words /\ "json" \in Words
    /\ "reference" \in Words /\ "references" \in Words
BY DEF Words

Statuses == {"Ready", "TopLevel", "StartProperty", "KeyQuoteOpen", "KeyQuoteClose",
             "Colon", "ValueQuoteOpen", "ValueQuoteClose", "ValueScalar", "Closed"}

FieldsOK(f) == \A k \in DOMAIN f : f[k] \in [string : BOOLEAN, text : Seq(Token)]

ParserOK(p) ==
  /\ DOMAIN p = {"status", "key", "text", "escaped", "fields"}
  /\ p.status \in Statuses /\ p.key \in Seq(Token) /\ p.text \in Seq(Token)
  /\ p.escaped \in BOOLEAN /\ FieldsOK(p.fields)
  /\ p.status = "ValueQuoteOpen" => p.key \in DOMAIN p.fields

LEMMA InsertKeeps ==
  ASSUME NEW f, FieldsOK(f), NEW key, NEW b \in BOOLEAN, NEW text \in Seq(Token)
  PROVE  FieldsOK(Insert(f, key, Field(b, text))) /\ key \in DOMAIN Insert(f, key, Field(b, text))
BY DEF FieldsOK, Insert, Field

LEMMA NewParserOK == ParserOK(NewParser)
<1>1. <<>> \in Seq(Token)
  OBVIOUS
<1> QED BY <1>1 DEF ParserOK, NewParser, Statuses, FieldsOK, NoFields

(* What a character does to a string *)
Extended(p, text) == [p EXCEPT !.fields[p.key].text = text]
Unescaped(p) == [p EXCEPT !.escaped = FALSE]
Escaping(p) == [p EXCEPT !.escaped = TRUE]
Closing(p) == [p EXCEPT !.status = "ValueQuoteClose"]

LEMMA AddToStringCases ==
  ASSUME NEW p, NEW c
  PROVE  /\ p.escaped = TRUE /\ c = Quote =>
              AddToString(p, c) = Unescaped(Extended(p, Append(p.fields[p.key].text, Quote)))
         /\ p.escaped = TRUE /\ c # Quote =>
              AddToString(p, c) = Unescaped(Extended(p, p.fields[p.key].text \o <<Backslash, c>>))
         /\ p.escaped = FALSE /\ c = Quote => AddToString(p, c) = Closing(p)
         /\ p.escaped = FALSE /\ c = Backslash => AddToString(p, c) = Escaping(p)
         /\ p.escaped = FALSE /\ c \notin {Quote, Backslash} =>
              AddToString(p, c) = Extended(p, Append(p.fields[p.key].text, c))
<1> USE DEF Extended, Unescaped, Escaping, Closing
<1>1. CASE p.escaped = TRUE /\ c = Quote
  BY <1>1 DEF AddToString
<1>2. CASE p.escaped = TRUE /\ c # Quote
  BY <1>2 DEF AddToString
<1>3. CASE p.escaped = FALSE /\ c = Quote
  BY <1>3, Tokens DEF AddToString
<1>4. CASE p.escaped = FALSE /\ c = Backslash
  BY <1>4, Tokens DEF AddToString
<1>5. CASE p.escaped = FALSE /\ c \notin {Quote, Backslash}
  BY <1>5 DEF AddToString
<1> QED BY <1>1, <1>2, <1>3, <1>4, <1>5

LEMMA StringsGrow ==
  ASSUME NEW text \in Seq(Token), NEW c \in Token
  PROVE  /\ Append(text, c) \in Seq(Token) /\ <<c>> \in Seq(Token) /\ Append(text, c) # <<>>
         /\ Append(text, Quote) \in Seq(Token) /\ text \o <<Backslash, c>> \in Seq(Token)
<1>1. Backslash \in Token /\ Quote \in Token
  BY Tokens
<1>2. <<Backslash, c>> \in Seq(Token)
  BY <1>1
<1> QED BY <1>1, <1>2, ConcatProperties, AppendProperties

LEMMA AddCharKeeps ==
  ASSUME NEW p, ParserOK(p), NEW c \in Token
  PROVE  ParserOK(AddChar(p, c))
<1> <<>> \in Seq(Token)
  OBVIOUS
<1>1. ParserOK(AddToReady(p, c))
  BY DEF AddToReady, ParserOK, Statuses
<1>2. ParserOK(AddToKey(p, c)) \/ p.status # "KeyQuoteOpen"
  <2>1. FieldsOK(Insert(p.fields, p.text, NullField))
    BY InsertKeeps DEF ParserOK, NullField
  <2>2. Append(p.text, c) \in Seq(Token) /\ Append(p.text, Quote) \in Seq(Token) /\ p.text \o <<Backslash, c>> \in Seq(Token)
    BY StringsGrow DEF ParserOK
  <2> QED BY <2>1, <2>2 DEF AddToKey, ParserOK, Statuses
<1>3. ParserOK(AddAfterColon(p, c))
  <2>1. /\ FieldsOK(Insert(p.fields, p.key, Field(TRUE, <<>>)))
        /\ p.key \in DOMAIN Insert(p.fields, p.key, Field(TRUE, <<>>))
    BY InsertKeeps DEF ParserOK
  <2>2. CASE c = Blank1
    <3>1. AddAfterColon(p, c) = p
      BY <2>2, Tokens DEF AddAfterColon
    <3> QED BY <3>1
  <2>3. CASE c = Quote
    <3>1. AddAfterColon(p, c) = [p EXCEPT !.status = "ValueQuoteOpen", !.escaped = FALSE,
                                          !.fields = Insert(@, p.key, Field(TRUE, <<>>))]
      BY <2>3, Tokens DEF AddAfterColon
    <3> QED BY <2>1, <3>1 DEF ParserOK, Statuses
  <2>4. CASE c \notin {Blank1, Quote}
    <3>1. AddAfterColon(p, c) = [p EXCEPT !.status = "ValueScalar", !.text = <<c>>]
      BY <2>4 DEF AddAfterColon
    <3>2. <<c>> \in Seq(Token)
      OBVIOUS
    <3> QED BY <3>1, <3>2 DEF ParserOK, Statuses
  <2> QED BY <2>2, <2>3, <2>4
<1>4. ParserOK(AddToString(p, c)) \/ p.status # "ValueQuoteOpen"
  <2>1. CASE p.status = "ValueQuoteOpen"
    <3>0. FieldsOK(p.fields) /\ p.key \in DOMAIN p.fields
      BY <2>1 DEF ParserOK
    <3>1. \A text \in Seq(Token) : ParserOK(Extended(p, text)) /\ ParserOK(Unescaped(Extended(p, text)))
      <4>1. ASSUME NEW text \in Seq(Token) PROVE FieldsOK([p.fields EXCEPT ![p.key].text = text])
        BY <3>0 DEF FieldsOK
      <4> QED BY <3>0, <4>1 DEF ParserOK, Extended, Unescaped
    <3>2. /\ ParserOK(Closing(p)) /\ ParserOK(Escaping(p))
      BY <2>1 DEF ParserOK, Statuses, Closing, Escaping
    <3>3. p.escaped = TRUE \/ p.escaped = FALSE
      BY DEF ParserOK
    <3>4. p.fields[p.key].text \in Seq(Token)
      BY <3>0 DEF FieldsOK
    <3>5. PICK text : text = p.fields[p.key].text
      OBVIOUS
    <3>6. Append(text, c) \in Seq(Token) /\ Append(text, Quote) \in Seq(Token) /\ text \o <<Backslash, c>> \in Seq(Token)
      BY <3>4, <3>5, StringsGrow
    <3>7. CASE p.escaped = TRUE
      <4>1. PICK t \in Seq(Token) : AddToString(p, c) = Unescaped(Extended(p, t))
        BY <3>5, <3>6, <3>7, AddToStringCases
      <4> QED BY <3>1, <4>1
    <3>8. CASE p.escaped = FALSE /\ c \in {Quote, Backslash}
      <4>1. AddToString(p, c) \in {Closing(p), Escaping(p)}
        BY <3>8, AddToStringCases
      <4> QED BY <3>2, <4>1
    <3>9. CASE p.escaped = FALSE /\ c \notin {Quote, Backslash}
      <4>1. PICK t \in Seq(Token) : AddToString(p, c) = Extended(p, t)
        BY <3>5, <3>6, <3>9, AddToStringCases
      <4> QED BY <3>1, <4>1
    <3> QED BY <3>3, <3>7, <3>8, <3>9
  <2> QED BY <2>1
<1>5. ParserOK(AddAfterString(p, c))
  BY DEF AddAfterString, ParserOK, Statuses
<1>6. ParserOK(AddToScalar(p, c)) \/ p.status # "ValueScalar"
  <2>1. FieldsOK(Insert(p.fields, p.key, Field(Head(p.text) = Quote, p.text)))
    BY InsertKeeps DEF ParserOK
  <2>2. Append(p.text, c) \in Seq(Token)
    BY StringsGrow DEF ParserOK
  <2> QED BY <2>1, <2>2 DEF AddToScalar, ParserOK, Statuses
<1>7. /\ ParserOK([p EXCEPT !.status = "KeyQuoteOpen", !.text = <<>>, !.escaped = FALSE])
      /\ ParserOK([p EXCEPT !.status = "Colon"])
  BY DEF ParserOK, Statuses
<1> QED BY <1>1, <1>2, <1>3, <1>4, <1>5, <1>6, <1>7 DEF AddChar

LEMMA ReadKeeps ==
  ASSUME NEW p, ParserOK(p), NEW s \in Seq(Token)
  PROVE  ParserOK(Read(p, s))
<1>1. PICK n : n = Len(s)
  OBVIOUS
<1>2. n \in Nat /\ DOMAIN s = 1..n /\ \A i \in 1..n : s[i] \in Token
  BY <1>1, LenProperties, ElementOfSeq
<1>3. PICK r : Fed(r, p, s, n) /\ Read(p, s) = r[n]
  BY <1>2, ReadIsFed
<1> DEFINE Good == {i \in 0..n : ParserOK(r[i])}
<1>4. 0 \in Good
  BY <1>2, <1>3 DEF Fed
<1>5. ASSUME NEW i \in 0..n, i \in Good, i < n PROVE i + 1 \in Good
  <2>1. i + 1 \in 1..n /\ (i + 1) - 1 = i /\ i + 1 \in 0..n
    BY <1>2, <1>5
  <2>2. r[i + 1] = AddChar(r[i], s[i + 1])
    BY <2>1, <1>3 DEF Fed
  <2> QED BY <2>1, <2>2, <1>2, <1>5, AddCharKeeps
<1>6. n \in Good
  <2> HIDE DEF Good
  <2>1. n \in 0..n
    BY <1>2
  <2> QED BY <2>1, <1>2, <1>4, <1>5, UpTo
<1> QED BY <1>3, <1>6

-----------------------------------------------------------------------------
(* What a token does, status by status *)

Amended(f, key, t) == [f EXCEPT ![key].text = t]

LEMMA ReadyStep ==
  ASSUME NEW p, ParserOK(p), p.status = "Ready", NEW c \in Token
  PROVE  LET q == AddChar(p, c) IN
            /\ q.fields = p.fields /\ q.status \in {"Ready", "StartProperty", "TopLevel"}
            /\ c = "{" => q.status = "StartProperty"
            /\ c = "word" => q = p
            /\ c = "json" => q.status = "TopLevel"
<1> DEFINE q == AddChar(p, c)
<1>1. q = AddToReady(p, c)
  BY DEF AddChar
<1>2. "{" # Quote /\ "word" # Quote
  BY Tokens, WordTokens
<1> QED BY <1>1, <1>2 DEF AddToReady, ParserOK

LEMMA PropertyStep ==
  ASSUME NEW p, ParserOK(p), p.status = "StartProperty", NEW c \in Token
  PROVE  LET q == AddChar(p, c) IN
            /\ c = Quote => q.status = "KeyQuoteOpen" /\ q.text = <<>> /\ q.escaped = FALSE /\ q.fields = p.fields
            /\ c # Quote => q = p
<1> DEFINE q == AddChar(p, c)
<1> QED BY DEF AddChar, ParserOK

LEMMA KeyStep ==
  ASSUME NEW p, ParserOK(p), p.status = "KeyQuoteOpen", p.escaped = FALSE,
         NEW c \in Token, c # Backslash
  PROVE  LET q == AddChar(p, c) IN
            /\ c = Quote => q.status = "KeyQuoteClose" /\ q.key = p.text
                             /\ q.fields = Insert(p.fields, p.text, NullField)
            /\ c # Quote => q.status = "KeyQuoteOpen" /\ q.text = Append(p.text, c)
                             /\ q.escaped = FALSE /\ q.fields = p.fields
<1> DEFINE q == AddChar(p, c)
<1>1. q = AddToKey(p, c)
  BY DEF AddChar
<1> QED BY <1>1 DEF AddToKey, ParserOK

LEMMA KeyEndStep ==
  ASSUME NEW p, ParserOK(p), p.status = "KeyQuoteClose", NEW c \in Token
  PROVE  LET q == AddChar(p, c) IN
            /\ c = ":" => q.status = "Colon" /\ q.key = p.key /\ q.fields = p.fields
            /\ c # ":" => q = p
<1> DEFINE q == AddChar(p, c)
<1> QED BY DEF AddChar, ParserOK

LEMMA ColonStep ==
  ASSUME NEW p, ParserOK(p), p.status = "Colon", NEW c \in Token
  PROVE  LET q == AddChar(p, c) IN
            /\ c = Blank1 => q = p
            /\ c = Quote => q.status = "ValueQuoteOpen" /\ q.escaped = FALSE /\ q.key = p.key
                             /\ q.fields = Insert(p.fields, p.key, Field(TRUE, <<>>))
            /\ c \notin {Blank1, Quote} =>
                 q.status = "ValueScalar" /\ q.text = <<c>> /\ q.key = p.key /\ q.fields = p.fields
<1> DEFINE q == AddChar(p, c)
<1>1. q = AddAfterColon(p, c)
  BY DEF AddChar
<1> QED BY <1>1, Tokens DEF AddAfterColon, ParserOK

LEMMA StringStep ==
  ASSUME NEW p, ParserOK(p), p.status = "ValueQuoteOpen", NEW c \in Token
  PROVE  LET q == AddChar(p, c) IN
            /\ q.key = p.key /\ q.status \in {"ValueQuoteOpen", "ValueQuoteClose"}
            /\ p.escaped = FALSE /\ c = Quote => q.status = "ValueQuoteClose" /\ q.fields = p.fields
            /\ p.escaped = FALSE /\ c \notin {Quote, Backslash} =>
                 q.status = "ValueQuoteOpen" /\ q.escaped = FALSE
            /\ q.fields = p.fields \/ \E t : q.fields = Amended(p.fields, p.key, t)
<1> DEFINE q == AddChar(p, c)
<1>1. q = AddToString(p, c)
  BY DEF AddChar
<1>2. p.escaped = TRUE \/ p.escaped = FALSE
  BY DEF ParserOK
<1>3. CASE p.escaped = TRUE
  <2>1. PICK t : q = Unescaped(Extended(p, t))
    BY <1>1, <1>3, AddToStringCases
  <2> QED BY <2>1, <1>3 DEF Unescaped, Extended, Amended, ParserOK
<1>4. CASE p.escaped = FALSE /\ c = Quote
  <2>1. q = Closing(p)
    BY <1>1, <1>4, AddToStringCases
  <2> QED BY <2>1, <1>4, Tokens DEF Closing, ParserOK
<1>5. CASE p.escaped = FALSE /\ c = Backslash
  <2>1. q = Escaping(p)
    BY <1>1, <1>5, AddToStringCases
  <2> QED BY <2>1, <1>5, Tokens DEF Escaping, ParserOK
<1>6. CASE p.escaped = FALSE /\ c \notin {Quote, Backslash}
  <2>1. PICK t : q = Extended(p, t)
    BY <1>1, <1>6, AddToStringCases
  <2> QED BY <2>1, <1>6 DEF Extended, Amended, ParserOK
<1> QED BY <1>2, <1>3, <1>4, <1>5, <1>6

LEMMA StringEndStep ==
  ASSUME NEW p, ParserOK(p), p.status = "ValueQuoteClose", NEW c \in Token
  PROVE  LET q == AddChar(p, c) IN
            /\ q.fields = p.fields
            /\ c = "," => q.status = "StartProperty"
            /\ c = "}" => q.status = "Closed"
            /\ c \notin {",", "}"} => q = p
<1> DEFINE q == AddChar(p, c)
<1>1. q = AddAfterString(p, c)
  BY DEF AddChar
<1> QED BY <1>1 DEF AddAfterString, ParserOK

LEMMA ScalarStep ==
  ASSUME NEW p, ParserOK(p), p.status = "ValueScalar", NEW c \in Token
  PROVE  LET q == AddChar(p, c) IN
            /\ c \notin {",", "}"} =>
                 q.status = "ValueScalar" /\ q.text = Append(p.text, c) /\ q.key = p.key /\ q.fields = p.fields
            /\ c \in {",", "}"} /\ IsJson(p.text) =>
                 /\ q.status = IF c = "," THEN "StartProperty" ELSE "Closed"
                 /\ q.fields = Insert(p.fields, p.key, Field(Head(p.text) = Quote, p.text))
            /\ c \in {",", "}"} /\ ~IsJson(p.text) =>
                 q.status = "ValueScalar" /\ q.text = <<>> /\ q.key = <<>> /\ q.fields = p.fields
<1> DEFINE q == AddChar(p, c)
<1>1. q = AddToScalar(p, c)
  BY DEF AddChar
<1>2. CASE c \notin {",", "}"}
  <2>1. q = [p EXCEPT !.text = Append(@, c)]
    BY <1>1, <1>2 DEF AddToScalar
  <2> QED BY <2>1, <1>2 DEF ParserOK
<1>3. CASE c \in {",", "}"} /\ IsJson(p.text)
  <2>1. q = [p EXCEPT !.status = IF c = "," THEN "StartProperty" ELSE "Closed",
                   !.key = <<>>, !.text = <<>>,
                   !.fields = Insert(@, p.key, Field(Head(p.text) = Quote, p.text))]
    BY <1>1, <1>3 DEF AddToScalar
  <2> QED BY <2>1, <1>3 DEF ParserOK
<1>4. CASE c \in {",", "}"} /\ ~IsJson(p.text)
  <2>1. q = [p EXCEPT !.key = <<>>, !.text = <<>>]
    BY <1>1, <1>4 DEF AddToScalar
  <2> QED BY <2>1, <1>4 DEF ParserOK
<1> QED BY <1>2, <1>3, <1>4

LEMMA StillStep ==
  ASSUME NEW p, p.status \in {"TopLevel", "Closed"}, NEW c
  PROVE  AddChar(p, c) = p
BY DEF AddChar

-----------------------------------------------------------------------------
(* Away from the answer *)

(* The parser is at no key that is, or may still become, "answer" *)
Elsewhere(p) ==
  /\ p.status \in {"KeyQuoteClose", "Colon", "ValueQuoteOpen", "ValueScalar"} => p.key # <<"answer">>
  /\ p.status = "KeyQuoteOpen" => p.text # <<"answer">> /\ p.escaped = FALSE

Beyond(p, v) == ParserOK(p) /\ Elsewhere(p) /\ AnswerSoFar(p) = v

LEMMA AnswerStays ==
  ASSUME NEW p, NEW q, q.fields = p.fields
  PROVE  AnswerSoFar(q) = AnswerSoFar(p)
BY DEF AnswerSoFar

LEMMA OthersAreInserted ==
  ASSUME NEW p, NEW q, NEW k, NEW f, k # <<"answer">>, q.fields = Insert(p.fields, k, f)
  PROVE  AnswerSoFar(q) = AnswerSoFar(p)
BY DEF AnswerSoFar, Insert

LEMMA OthersAreAmended ==
  ASSUME NEW p, NEW q, NEW t, p.key # <<"answer">>, p.key \in DOMAIN p.fields,
         q.fields = Amended(p.fields, p.key, t)
  PROVE  AnswerSoFar(q) = AnswerSoFar(p)
BY DEF AnswerSoFar, Amended

LEMMA NotTheAnswer ==
  ASSUME NEW text \in Seq(Token), NEW c \in Token, c # "answer"
  PROVE  Append(text, c) # <<"answer">>
<1>1. Len(Append(text, c)) = Len(text) + 1 /\ Append(text, c)[Len(text) + 1] = c /\ Len(text) \in Nat
  BY AppendProperties, LenProperties
<1>2. Len(<<"answer">>) = 1 /\ <<"answer">>[1] = "answer"
  OBVIOUS
<1> QED BY <1>1, <1>2

(* Whatever comes while no key is read leaves the answer alone *)
LEMMA BeyondStep ==
  ASSUME NEW p, NEW v, Beyond(p, v), NEW c \in Token,
         p.status = "KeyQuoteOpen" => c \notin {"answer", Backslash}
  PROVE  Beyond(AddChar(p, c), v)
<1>1. PICK q : q = AddChar(p, c)
  OBVIOUS
<1>2. ParserOK(p) /\ Elsewhere(p) /\ AnswerSoFar(p) = v /\ ParserOK(q)
  BY <1>1, AddCharKeeps DEF Beyond
<1>3. q = AddChar(p, c) /\ ParserOK(p) /\ c \in Token
  BY <1>1, <1>2
<1> SUFFICES Elsewhere(q) /\ AnswerSoFar(q) = v
  BY <1>1, <1>2 DEF Beyond
<1>4. CASE p.status = "Ready"
  <2>1. q.fields = p.fields /\ q.status \in {"Ready", "StartProperty", "TopLevel"}
    BY ONLY <1>3, <1>4, ReadyStep
  <2> QED BY <2>1, <1>2, AnswerStays DEF Elsewhere
<1>5. CASE p.status = "StartProperty"
  <2>1. CASE c = Quote
    <3>1. q.status = "KeyQuoteOpen" /\ q.text = <<>> /\ q.escaped = FALSE /\ q.fields = p.fields
      BY ONLY <1>3, <1>5, <2>1, PropertyStep
    <3> QED BY <3>1, <1>2, AnswerStays DEF Elsewhere
  <2>2. CASE c # Quote
    <3>1. q = p
      BY ONLY <1>3, <1>5, <2>2, PropertyStep
    <3> QED BY <3>1, <1>2
  <2> QED BY <2>1, <2>2
<1>6. CASE p.status = "KeyQuoteOpen"
  <2>1. p.escaped = FALSE /\ p.text # <<"answer">> /\ c # Backslash /\ c # "answer"
    BY <1>2, <1>6 DEF Elsewhere
  <2>2. CASE c = Quote
    <3>1. q.status = "KeyQuoteClose" /\ q.key = p.text /\ q.fields = Insert(p.fields, p.text, NullField)
      BY ONLY <1>3, <1>6, <2>1, <2>2, KeyStep
    <3> QED BY <3>1, <2>1, <1>2, OthersAreInserted DEF Elsewhere
  <2>3. CASE c # Quote
    <3>1. /\ q.status = "KeyQuoteOpen" /\ q.text = Append(p.text, c)
          /\ q.escaped = FALSE /\ q.fields = p.fields
      BY ONLY <1>3, <1>6, <2>1, <2>3, KeyStep
    <3>2. Append(p.text, c) # <<"answer">>
      BY <1>2, <2>1, NotTheAnswer DEF ParserOK
    <3> QED BY <3>1, <3>2, <1>2, AnswerStays DEF Elsewhere
  <2> QED BY <2>2, <2>3
<1>7. CASE p.status = "KeyQuoteClose"
  <2>1. c = ":" => q.status = "Colon" /\ q.key = p.key /\ q.fields = p.fields
    BY ONLY <1>3, <1>7, KeyEndStep
  <2>2. c # ":" => q = p
    BY ONLY <1>3, <1>7, KeyEndStep
  <2> QED BY <2>1, <2>2, <1>2, <1>7, AnswerStays DEF Elsewhere
<1>8. CASE p.status = "Colon"
  <2>1. p.key # <<"answer">>
    BY <1>2, <1>8 DEF Elsewhere
  <2>2. CASE c = Blank1
    <3>1. q = p
      BY ONLY <1>3, <1>8, <2>2, ColonStep
    <3> QED BY <3>1, <1>2
  <2>3. CASE c = Quote
    <3>1. /\ q.status = "ValueQuoteOpen" /\ q.key = p.key
          /\ q.fields = Insert(p.fields, p.key, Field(TRUE, <<>>))
      BY ONLY <1>3, <1>8, <2>3, ColonStep
    <3> QED BY <3>1, <2>1, <1>2, OthersAreInserted DEF Elsewhere
  <2>4. CASE c \notin {Blank1, Quote}
    <3>1. q.status = "ValueScalar" /\ q.key = p.key /\ q.fields = p.fields
      BY ONLY <1>3, <1>8, <2>4, ColonStep
    <3> QED BY <3>1, <2>1, <1>2, AnswerStays DEF Elsewhere
  <2> QED BY <2>2, <2>3, <2>4
<1>9. CASE p.status = "ValueQuoteOpen"
  <2>1. p.key # <<"answer">> /\ p.key \in DOMAIN p.fields
    BY <1>2, <1>9 DEF Elsewhere, ParserOK
  <2>2. /\ q.key = p.key /\ q.status \in {"ValueQuoteOpen", "ValueQuoteClose"}
        /\ q.fields = p.fields \/ \E t : q.fields = Amended(p.fields, p.key, t)
    BY ONLY <1>3, <1>9, StringStep
  <2>3. AnswerSoFar(q) = v
    BY <2>1, <2>2, <1>2, AnswerStays, OthersAreAmended
  <2> QED BY <2>1, <2>2, <2>3 DEF Elsewhere
<1>10. CASE p.status = "ValueQuoteClose"
  <2>1. q.fields = p.fields /\ (q = p \/ q.status \in {"StartProperty", "Closed"})
    BY ONLY <1>3, <1>10, StringEndStep
  <2> QED BY <2>1, <1>2, <1>10, AnswerStays DEF Elsewhere
<1>11. CASE p.status = "ValueScalar"
  <2>1. p.key # <<"answer">>
    BY <1>2, <1>11 DEF Elsewhere
  <2>2. CASE c \notin {",", "}"}
    <3>1. q.status = "ValueScalar" /\ q.key = p.key /\ q.fields = p.fields
      BY ONLY <1>3, <1>11, <2>2, ScalarStep
    <3> QED BY <3>1, <2>1, <1>2, AnswerStays DEF Elsewhere
  <2>3. CASE c \in {",", "}"} /\ IsJson(p.text)
    <3>1. /\ q.status \in {"StartProperty", "Closed"}
          /\ q.fields = Insert(p.fields, p.key, Field(Head(p.text) = Quote, p.text))
      BY ONLY <1>3, <1>11, <2>3, ScalarStep
    <3> QED BY <3>1, <2>1, <1>2, OthersAreInserted DEF Elsewhere
  <2>4. CASE c \in {",", "}"} /\ ~IsJson(p.text)
    <3>1. q.status = "ValueScalar" /\ q.key = <<>> /\ q.fields = p.fields
      BY ONLY <1>3, <1>11, <2>4, ScalarStep
    <3> QED BY <3>1, <1>2, AnswerStays DEF Elsewhere
  <2> QED BY <2>2, <2>3, <2>4
<1>12. CASE p.status \in {"TopLevel", "Closed"}
  <2>1. q = p
    BY ONLY <1>3, <1>12, StillStep
  <2> QED BY <2>1, <1>2
<1> QED BY <1>2, <1>4, <1>5, <1>6, <1>7, <1>8, <1>9, <1>10, <1>11, <1>12 DEF ParserOK, Statuses

-----------------------------------------------------------------------------
(* What is read on the way *)

(* The list a is a beginning of the list w *)
Begins(a, w) == a \in Seq(Token) /\ Len(a) <= Len(w) /\ \A i \in 1..Len(a) : a[i] = w[i]

(* The tokens s lead from p to q, and all the while the answer so far is a  *)
(* beginning of w                                                          *)
Leads(p, s, q, w) ==
  /\ s \in Seq(Token) /\ Read(p, s) = q
  /\ \A i \in 0..Len(s) : Begins(AnswerSoFar(Read(p, SubSeq(s, 1, i))), w)

LEMMA LeadsNowhere ==
  ASSUME NEW p, NEW w, Begins(AnswerSoFar(p), w)
  PROVE  Leads(p, <<>>, p, w)
<1>1. <<>> \in Seq(Token) /\ Len(<<>>) = 0 /\ SubSeq(<<>>, 1, 0) = <<>>
  OBVIOUS
<1>2. Read(p, <<>>) = p
  BY ReadNone
<1>3. ASSUME NEW i \in 0..Len(<<>>) PROVE Begins(AnswerSoFar(Read(p, SubSeq(<<>>, 1, i))), w)
  <2>1. i = 0
    BY <1>1
  <2> QED BY <2>1, <1>1, <1>2
<1> QED BY <1>1, <1>2, <1>3 DEF Leads

LEMMA LeadsStep ==
  ASSUME NEW p, NEW c \in Token, NEW w, Begins(AnswerSoFar(p), w), Begins(AnswerSoFar(AddChar(p, c)), w)
  PROVE  Leads(p, <<c>>, AddChar(p, c), w)
<1>1. PICK s : s = <<c>>
  OBVIOUS
<1>2. s \in Seq(Token) /\ Len(s) = 1 /\ SubSeq(s, 1, 0) = <<>> /\ SubSeq(s, 1, 1) = s
  <2>1. s \in Seq(Token) /\ Len(s) = 1
    BY <1>1
  <2>2. SubSeq(s, 1, 0) = <<>>
    BY SubSeqEmpty
  <2>3. SubSeq(s, 1, Len(s)) = s
    BY ONLY <2>1, SubSeqFull
  <2> QED BY <2>1, <2>2, <2>3
<1>3. Read(p, <<>>) = p /\ Read(p, s) = AddChar(p, c)
  BY <1>1, ReadNone, ReadOne
<1>4. ASSUME NEW i \in 0..Len(s) PROVE Begins(AnswerSoFar(Read(p, SubSeq(s, 1, i))), w)
  <2>1. i = 0 \/ i = 1
    BY <1>2
  <2> QED BY <2>1, <1>2, <1>3
<1> QED BY <1>1, <1>2, <1>3, <1>4 DEF Leads

LEMMA LeadsOn ==
  ASSUME NEW p, NEW s, NEW q, NEW t, NEW r, NEW w, Leads(p, s, q, w), Leads(q, t, r, w)
  PROVE  Leads(p, s \o t, r, w)
<1>1. s \in Seq(Token) /\ t \in Seq(Token) /\ Read(p, s) = q /\ Read(q, t) = r
  BY DEF Leads
<1>2. PICK u : u = s \o t
  OBVIOUS
<1>3. u \in Seq(Token) /\ Len(u) = Len(s) + Len(t) /\ Len(s) \in Nat /\ Len(t) \in Nat
  BY <1>1, <1>2, ConcatProperties, LenProperties
<1>4. Read(p, u) = r
  BY <1>1, <1>2, ReadOn
<1>5. ASSUME NEW i \in 0..Len(u) PROVE Begins(AnswerSoFar(Read(p, SubSeq(u, 1, i))), w)
  <2>1. CASE i <= Len(s)
    <3>1. i \in 0..Len(s)
      BY <1>3, <2>1
    <3>2. SubSeq(u, 1, i) = SubSeq(s, 1, i)
      <4>1. CASE i = 0
        <5>1. SubSeq(u, 1, 0) = <<>> /\ SubSeq(s, 1, 0) = <<>>
          BY SubSeqEmpty
        <5> QED BY <4>1, <5>1
      <4>2. CASE i # 0
        <5>1. i \in 1..Len(s) /\ 1 \in 1..Len(s)
          BY <3>1, <4>2, <1>3
        <5>2. SubSeq(s \o t, 1, i) = SubSeq(s, 1, i)
          BY ONLY <5>1, <1>1, SubSeqOfConcat1
        <5> QED BY <5>2, <1>2
      <4> QED BY <4>1, <4>2
    <3> QED BY <3>1, <3>2 DEF Leads
  <2>2. CASE ~(i <= Len(s))
    <3>1. PICK j : j = i - Len(s)
      OBVIOUS
    <3>2. j \in 1..Len(t) /\ j \in 0..Len(t) /\ i = Len(s) + j
      BY <1>3, <2>2, <3>1
    <3>3. PICK b : b = SubSeq(t, 1, j)
      OBVIOUS
    <3>4. SubSeq(u, 1, i) = s \o b /\ b \in Seq(Token)
      <4>1. b \in Seq(Token) /\ Len(b) = j /\ \A k \in 1..j : b[k] = t[k]
        <5>1. 1 \in Int /\ j \in Int /\ 1 <= j
          BY <3>2
        <5>2. \A k \in 1..j : t[k] \in Token
          BY <1>1, <3>2, <1>3, ElementOfSeq
        <5>3. /\ b \in Seq(Token) /\ Len(b) = IF 1 <= j THEN j - 1 + 1 ELSE 0
              /\ \A k \in 1..j - 1 + 1 : b[k] = t[1 + k - 1]
          BY <3>3, <5>1, <5>2, SubSeqProperties
        <5> QED BY <5>1, <5>3
      <4>2. /\ s \o b \in Seq(Token) /\ Len(s \o b) = i
            /\ \A k \in 1..i : (s \o b)[k] = IF k <= Len(s) THEN s[k] ELSE b[k - Len(s)]
        <5>1. s \in Seq(Token) /\ b \in Seq(Token)
          BY <1>1, <4>1
        <5>2. /\ s \o b \in Seq(Token) /\ Len(s \o b) = Len(s) + Len(b)
              /\ \A k \in 1..Len(s) + Len(b) : (s \o b)[k] = IF k <= Len(s) THEN s[k] ELSE b[k - Len(s)]
          BY ONLY <5>1, ConcatProperties
        <5>3. Len(s) + Len(b) = i
          BY <4>1, <3>2
        <5> QED BY ONLY <5>2, <5>3
      <4>3. \A k \in 1..Len(u) : u[k] = IF k <= Len(s) THEN s[k] ELSE t[k - Len(s)]
        BY <1>1, <1>2, <1>3, ConcatProperties
      <4>4. PICK a : a = SubSeq(u, 1, i)
        OBVIOUS
      <4>5. a \in Seq(Token) /\ Len(a) = i /\ \A k \in 1..i : a[k] = u[k]
        <5>1. 1 \in Int /\ i \in Int /\ 1 <= i
          BY <3>2, <1>3
        <5>2. \A k \in 1..i : u[k] \in Token
          BY <1>3, ElementOfSeq
        <5>3. /\ a \in Seq(Token) /\ Len(a) = IF 1 <= i THEN i - 1 + 1 ELSE 0
              /\ \A k \in 1..i - 1 + 1 : a[k] = u[1 + k - 1]
          BY <4>4, <5>1, <5>2, SubSeqProperties
        <5> QED BY <5>1, <5>3
      <4>6. ASSUME NEW k \in 1..i PROVE a[k] = (s \o b)[k]
        <5>1. CASE k <= Len(s)
          <6>1. k \in 1..Len(u)
            BY <1>3
          <6> QED BY <5>1, <6>1, <4>2, <4>3, <4>5
        <5>2. CASE ~(k <= Len(s))
          <6>1. k \in 1..Len(u) /\ k - Len(s) \in 1..j
            BY <1>3, <5>2, <3>2
          <6> QED BY <5>2, <6>1, <4>1, <4>2, <4>3, <4>5
        <5> QED BY <5>1, <5>2
      <4>7. a = s \o b
        BY <4>2, <4>5, <4>6, SeqEqual
      <4> QED BY <4>1, <4>4, <4>7
    <3>5. Read(p, s \o b) = Read(q, b)
      BY <1>1, <3>4, ReadOn
    <3>6. Begins(AnswerSoFar(Read(q, b)), w)
      BY <3>2, <3>3 DEF Leads
    <3> QED BY <3>4, <3>5, <3>6
  <2> QED BY <2>1, <2>2
<1> QED BY <1>2, <1>3, <1>4, <1>5 DEF Leads

LEMMA LeadsToOK ==
  ASSUME NEW p, NEW s, NEW q, NEW w, Leads(p, s, q, w), ParserOK(p)
  PROVE  ParserOK(q)
BY ReadKeeps DEF Leads

(* A parser that stands still reads anything *)
LEMMA LeadsStill ==
  ASSUME NEW p, p.status \in {"TopLevel", "Closed"}, NEW s \in Seq(Token), NEW w, Begins(AnswerSoFar(p), w)
  PROVE  Leads(p, s, p, w)
<1>1. \A t \in Seq(Token) : Read(p, t) = p
  <2>1. ASSUME NEW t \in Seq(Token) PROVE Read(p, t) = p
    <3>1. PICK n : n = Len(t)
      OBVIOUS
    <3>2. n \in Nat /\ DOMAIN t = 1..n
      BY <3>1, LenProperties
    <3>3. PICK r : r = [i \in 0..n |-> p]
      OBVIOUS
    <3>4. Fed(r, p, t, n) /\ r[n] = p
      BY <3>2, <3>3, StillStep DEF Fed
    <3> QED BY <3>2, <3>4, FedIsRead
  <2> QED BY <2>1
<1>2. ASSUME NEW i \in 0..Len(s) PROVE SubSeq(s, 1, i) \in Seq(Token)
  <2>1. i \in Int /\ 1 \in Int /\ Len(s) \in Nat
    BY LenProperties
  <2>2. \A k \in 1..i : s[k] \in Token
    BY <2>1, ElementOfSeq
  <2> QED BY <2>1, <2>2, SubSeqProperties
<1> QED BY <1>1, <1>2 DEF Leads

-----------------------------------------------------------------------------
(* Values that are no strings *)

Solid(text) == {i \in 1..Len(text) : text[i] # Blank1}
Bare(text) == IF Solid(text) = {} THEN <<>> ELSE SubSeq(text, Min(Solid(text)), Max(Solid(text)))

LEMMA JsonIsBare ==
  ASSUME NEW text
  PROVE  IsJson(text) = ( \/ Bare(text) \in {<<"5">>, <<"[", "]">>}
                          \/ /\ Len(Bare(text)) >= 2 /\ Head(Bare(text)) = Quote /\ Last(Bare(text)) = Quote
                             /\ \A i \in 2..Len(Bare(text)) - 1 : Bare(text)[i] \notin {Quote, Backslash} )
BY DEF IsJson, Bare, Solid

LEMMA LastOf ==
  ASSUME NEW n \in Nat, NEW T \in SUBSET (1..n), T # {}
  PROVE  Max(T) \in T /\ \A i \in T : i <= Max(T)
<1> DEFINE S == {j \in 0..n : \A i \in T : i <= j}
<1>1. n \in S /\ S \subseteq Nat /\ S # {}
  OBVIOUS
<1>2. PICK m \in S : \A k \in S : m <= k
  <2> HIDE DEF S
  <2> QED BY <1>1, LeastNatural
<1>3. m \in T
  <2>1. m \in 0..n /\ m # 0
    <3>1. PICK i : i \in T
      OBVIOUS
    <3>2. i <= m /\ i >= 1 /\ m \in 0..n
      BY <3>1
    <3> QED BY <3>1, <3>2
  <2>2. CASE m \notin T
    <3>1. m - 1 \in S
      BY <2>1, <2>2
    <3>2. m <= m - 1
      BY <3>1, <1>2
    <3> QED BY <2>1, <3>2
  <2> QED BY <2>2
<1>4. m \in T /\ \A i \in T : m >= i
  BY <1>3
<1>5. Max(T) \in T /\ \A i \in T : Max(T) >= i
  BY <1>4 DEF Max
<1> QED BY <1>5

LEMMA BareFromTheFirst ==
  ASSUME NEW text \in Seq(Token), text # <<>>, text[1] # Blank1
  PROVE  \E m \in 1..Len(text) :
            /\ \A i \in 1..Len(text) : text[i] # Blank1 => i <= m
            /\ Len(Bare(text)) = m /\ Bare(text) \in Seq(Token) /\ \A i \in 1..m : Bare(text)[i] = text[i]
<1>1. PICK n : n = Len(text)
  OBVIOUS
<1>2. n \in Nat /\ n >= 1 /\ \A i \in 1..n : text[i] \in Token
  BY <1>1, LenProperties, EmptySeq, ElementOfSeq
<1>3. PICK T : T = Solid(text)
  OBVIOUS
<1>4. T \in SUBSET (1..n) /\ 1 \in T /\ T # {} /\ \A i \in 1..n : text[i] # Blank1 => i \in T
  BY <1>1, <1>2, <1>3 DEF Solid
<1>5. Min(T) = 1
  <2>1. \A i \in T : 1 <= i
    BY <1>4
  <2>2. \A x \in T : (\A y \in T : x <= y) => x = 1
    BY <1>4
  <2> QED BY <1>4, <2>1, <2>2 DEF Min
<1>6. PICK m : m = Max(T)
  OBVIOUS
<1>7. m \in T /\ m \in 1..n /\ \A i \in T : i <= m
  BY <1>2, <1>4, <1>6, LastOf
<1>8. Bare(text) = SubSeq(text, 1, m)
  BY <1>3, <1>4, <1>5, <1>6 DEF Bare
<1>9. /\ Bare(text) \in Seq(Token) /\ Len(Bare(text)) = m
      /\ \A i \in 1..m : Bare(text)[i] = text[i]
  <2>1. PICK b : b = SubSeq(text, 1, m)
    OBVIOUS
  <2>2. 1 \in Int /\ m \in Int /\ 1 <= m /\ \A k \in 1..m : text[k] \in Token
    BY <1>2, <1>7
  <2>3. /\ b \in Seq(Token) /\ Len(b) = IF 1 <= m THEN m - 1 + 1 ELSE 0
        /\ \A k \in 1..m - 1 + 1 : b[k] = text[1 + k - 1]
    BY <2>1, <2>2, SubSeqProperties
  <2> QED BY <1>8, <2>1, <2>2, <2>3
<1> QED BY <1>1, <1>4, <1>7, <1>9

(* A value that is never JSON, whatever comes after *)
Hopeless(text) ==
  /\ text # <<>>
  /\ \/ text[1] \notin {Blank1, Quote, "5", "["}
     \/ text[1] = "[" /\ Len(text) >= 2 /\ text[2] = "{"
     \/ text[1] = Quote /\ Len(text) >= 4 /\ text[3] = Quote /\ text[4] = ":"

LEMMA HopelessIsNoJson ==
  ASSUME NEW text \in Seq(Token), Hopeless(text)
  PROVE  ~IsJson(text)
<1>0. Quote # Blank1 /\ "[" # Blank1 /\ "{" # Blank1 /\ ":" # Blank1 /\ "[" # Quote /\ "5" # Quote
  BY Tokens, WordTokens
<1>1. text # <<>> /\ text[1] # Blank1
  BY <1>0 DEF Hopeless
<1>2. PICK m \in 1..Len(text) :
            /\ \A i \in 1..Len(text) : text[i] # Blank1 => i <= m
            /\ Len(Bare(text)) = m /\ Bare(text) \in Seq(Token) /\ \A i \in 1..m : Bare(text)[i] = text[i]
  BY <1>1, BareFromTheFirst
<1>3. PICK b : b = Bare(text)
  OBVIOUS
<1>4. Len(text) \in Nat /\ m \in Nat /\ m >= 1 /\ m <= Len(text)
  BY LenProperties
<1>5. Head(b) = text[1] /\ b[1] = text[1]
  <2>1. b # <<>>
    BY <1>2, <1>3, <1>4, EmptySeq
  <2>2. Head(b) = b[1]
    BY <2>1, <1>2, <1>3, HeadTailProperties
  <2> QED BY <1>2, <1>3, <1>4, <2>2
<1>6. /\ Len(<<"5">>) = 1 /\ <<"5">>[1] = "5"
      /\ Len(<<"[", "]">>) = 2 /\ <<"[", "]">>[1] = "[" /\ <<"[", "]">>[2] = "]"
  OBVIOUS
<1>7. CASE text[1] \notin {Blank1, Quote, "5", "["}
  BY <1>3, <1>5, <1>6, <1>7, JsonIsBare
<1>8. CASE text[1] = "[" /\ Len(text) >= 2 /\ text[2] = "{"
  <2>1. 2 <= m
    <3>1. 2 \in 1..Len(text)
      <4>1. Len(text) >= 2
        BY ONLY <1>8
      <4> QED BY ONLY <1>4, <4>1
    <3> QED BY <3>1, <1>2, <1>8, <1>0
  <2>2. b[2] = "{"
    <3>1. 2 \in 1..m
      BY <2>1, <1>4
    <3> QED BY <3>1, <1>2, <1>3, <1>8
  <2> QED BY <1>0, <1>3, <1>5, <1>6, <1>8, <2>2, JsonIsBare
<1>9. CASE text[1] = Quote /\ Len(text) >= 4 /\ text[3] = Quote /\ text[4] = ":"
  <2>1. 4 <= m
    <3>1. 4 \in 1..Len(text)
      BY <1>4, <1>9
    <3> QED BY <3>1, <1>2, <1>9, <1>0
  <2>2. b[3] = Quote /\ Len(b) = m
    BY <2>1, <1>2, <1>3, <1>4, <1>9
  <2>3. 3 \in 2..Len(b) - 1
    BY <2>1, <2>2, <1>4
  <2> QED BY <1>0, <1>3, <1>5, <1>6, <1>9, <2>2, <2>3, JsonIsBare
<1> QED BY <1>7, <1>8, <1>9 DEF Hopeless

LEMMA HopelessStays ==
  ASSUME NEW text \in Seq(Token), Hopeless(text), NEW c \in Token
  PROVE  Hopeless(Append(text, c))
<1>1. PICK n : n = Len(text)
  OBVIOUS
<1>2. n \in Nat /\ n >= 1
  <2>1. text # <<>> /\ text \in Seq(Token)
    BY DEF Hopeless
  <2>2. Len(text) \in Nat \ {0}
    BY ONLY <2>1, EmptySeq
  <2> QED BY <2>2, <1>1
<1>3. PICK t : t = Append(text, c)
  OBVIOUS
<1>4. Len(t) = n + 1 /\ t # <<>> /\ \A i \in 1..n : t[i] = text[i]
  <2>1. t \in Seq(Token) /\ Len(t) = n + 1 /\ \A i \in 1..n : t[i] = text[i]
    BY <1>1, <1>3, AppendProperties
  <2> QED BY <2>1, <1>2, <1>3, EmptySeq
<1>5. t[1] = text[1]
  BY <1>2, <1>4
<1>6. CASE text[1] \notin {Blank1, Quote, "5", "["}
  BY <1>3, <1>4, <1>5, <1>6 DEF Hopeless
<1>7. CASE text[1] = "[" /\ Len(text) >= 2 /\ text[2] = "{"
  <2>1. 2 \in 1..n
    <3>1. Len(text) >= 2
      BY ONLY <1>7
    <3> QED BY ONLY <1>1, <1>2, <3>1
  <2>2. t[2] = "{" /\ Len(t) >= 2
    <3>1. t[2] = text[2]
      BY <2>1, <1>4
    <3>2. text[2] = "{"
      BY ONLY <1>7
    <3>3. Len(t) >= 2
      BY <2>1, <1>2, <1>4
    <3> QED BY ONLY <3>1, <3>2, <3>3
  <2> QED BY <2>2, <1>3, <1>4, <1>5, <1>7 DEF Hopeless
<1>8. CASE text[1] = Quote /\ Len(text) >= 4 /\ text[3] = Quote /\ text[4] = ":"
  <2>1. t[3] = Quote /\ t[4] = ":" /\ Len(t) >= 4
    BY <1>1, <1>2, <1>4, <1>8
  <2> QED BY <2>1, <1>3, <1>4, <1>5, <1>8 DEF Hopeless
<1> QED BY <1>6, <1>7, <1>8 DEF Hopeless

LEMMA HopelessStarts ==
  /\ \A c \in Token : c \notin {Blank1, Quote, "5", "["} => Hopeless(<<c>>)
  /\ Hopeless(<<"[", "{">>)
  /\ Hopeless(<<Quote, "answer", Quote, ":">>)
<1>1. ASSUME NEW c \in Token, c \notin {Blank1, Quote, "5", "["} PROVE Hopeless(<<c>>)
  BY <1>1 DEF Hopeless
<1>2. Hopeless(<<"[", "{">>)
  BY DEF Hopeless
<1>3. Hopeless(<<Quote, "answer", Quote, ":">>)
  BY DEF Hopeless
<1> QED BY <1>1, <1>2, <1>3

LEMMA EmptyIsNoJson == ~IsJson(<<>>)
<1>1. Solid(<<>>) = {}
  BY DEF Solid
<1>2. Bare(<<>>) = <<>>
  BY <1>1 DEF Bare
<1>3. Len(<<>>) = 0 /\ <<>> # <<"5">> /\ <<>> # <<"[", "]">>
  OBVIOUS
<1>4. ~(Len(<<>>) >= 2)
  BY <1>3
<1> QED BY ONLY <1>2, <1>3, <1>4, JsonIsBare

LEMMA FiveIsJson == IsJson(<<"5">>)
<1>0. "5" # Blank1
  BY Tokens, WordTokens
<1>1. PICK t : t = <<"5">>
  OBVIOUS
<1>2. t \in Seq(Token) /\ t # <<>> /\ t[1] = "5" /\ Len(t) = 1
  <2>1. "5" \in Token
    BY WordTokens, Tokens
  <2> QED BY ONLY <1>1, <2>1
<1>3. PICK m \in 1..1 : Len(Bare(t)) = m /\ Bare(t) \in Seq(Token) /\ \A i \in 1..m : Bare(t)[i] = t[i]
  BY <1>0, <1>2, BareFromTheFirst
<1>4. m = 1
  OBVIOUS
<1>5. Bare(t) = t
  BY <1>2, <1>3, <1>4, SeqEqual
<1> QED BY <1>1, <1>5, JsonIsBare

LEMMA NoReferencesIsJson == IsJson(<<"[", "]">>)
<1>0. "[" # Blank1 /\ "]" # Blank1
  BY Tokens, WordTokens
<1>1. PICK t : t = <<"[", "]">>
  OBVIOUS
<1>2. t \in Seq(Token) /\ t # <<>> /\ t[1] = "[" /\ t[2] = "]" /\ Len(t) = 2
  <2>1. "[" \in Token /\ "]" \in Token
    BY WordTokens, Tokens
  <2> QED BY ONLY <1>1, <2>1
<1>3. PICK m \in 1..2 : /\ \A i \in 1..2 : t[i] # Blank1 => i <= m
                        /\ Len(Bare(t)) = m /\ Bare(t) \in Seq(Token) /\ \A i \in 1..m : Bare(t)[i] = t[i]
  BY <1>0, <1>2, BareFromTheFirst
<1>4. m = 2
  BY <1>0, <1>2, <1>3
<1>5. Bare(t) = t
  BY <1>2, <1>3, <1>4, SeqEqual
<1> QED BY <1>1, <1>5, JsonIsBare

-----------------------------------------------------------------------------
(* Walks: what a few tokens do one after the other, away from the answer *)

LEMMA ShortLists ==
  ASSUME NEW S, NEW a \in S, NEW b \in S, NEW c \in S, NEW d \in S
  PROVE  /\ <<a>> \o <<b>> = <<a, b>> /\ <<a, b>> \o <<c>> = <<a, b, c>>
         /\ <<a, b, c>> \o <<d>> = <<a, b, c, d>>
         /\ Append(<<a>>, b) = <<a, b>> /\ Append(<<a, b>>, c) = <<a, b, c>>
         /\ Append(<<a, b, c>>, d) = <<a, b, c, d>>
<1>1. /\ <<a>> \in Seq(S) /\ <<a, b>> \in Seq(S) /\ <<a, b, c>> \in Seq(S)
      /\ <<b>> \in Seq(S) /\ <<c>> \in Seq(S) /\ <<d>> \in Seq(S)
  OBVIOUS
<1>2. \A s \in Seq(S), e \in S : s \o <<e>> = Append(s, e)
  <2>1. ASSUME NEW s \in Seq(S), NEW e \in S PROVE s \o <<e>> = Append(s, e)
    BY AppendIsConcat
  <2> QED BY <2>1
<1>3. Append(<<a>>, b) = <<a, b>>
  <2>1. PICK s, t, u : s = <<a>> /\ t = <<a, b>> /\ u = Append(s, b)
    OBVIOUS
  <2>2. s \in Seq(S) /\ Len(s) = 1 /\ s[1] = a
    BY <2>1
  <2>3. t \in Seq(S) /\ Len(t) = 2 /\ t[1] = a /\ t[2] = b
    BY <2>1
  <2>4. u \in Seq(S) /\ Len(u) = Len(s) + 1 /\ u[Len(s) + 1] = b /\ \A i \in 1..Len(s) : u[i] = s[i]
    BY <2>1, <2>2, AppendProperties
  <2>5. \A i \in 1..2 : u[i] = t[i]
    BY <2>2, <2>3, <2>4
  <2>6. Len(u) = Len(t) /\ \A i \in 1..Len(t) : u[i] = t[i]
    BY <2>2, <2>3, <2>4, <2>5
  <2>7. u = t
    BY ONLY <2>3, <2>4, <2>6, SeqEqual
  <2> QED BY <2>1, <2>7
<1>4. Append(<<a, b>>, c) = <<a, b, c>>
  <2>1. PICK s, t, u : s = <<a, b>> /\ t = <<a, b, c>> /\ u = Append(s, c)
    OBVIOUS
  <2>2. s \in Seq(S) /\ Len(s) = 2 /\ s[1] = a /\ s[2] = b
    BY <2>1
  <2>3. t \in Seq(S) /\ Len(t) = 3 /\ t[1] = a /\ t[2] = b /\ t[3] = c
    BY <2>1
  <2>4. u \in Seq(S) /\ Len(u) = Len(s) + 1 /\ u[Len(s) + 1] = c /\ \A i \in 1..Len(s) : u[i] = s[i]
    BY <2>1, <2>2, AppendProperties
  <2>5. \A i \in 1..3 : u[i] = t[i]
    BY <2>2, <2>3, <2>4
  <2>6. Len(u) = Len(t) /\ \A i \in 1..Len(t) : u[i] = t[i]
    BY <2>2, <2>3, <2>4, <2>5
  <2>7. u = t
    BY ONLY <2>3, <2>4, <2>6, SeqEqual
  <2> QED BY <2>1, <2>7
<1>5. Append(<<a, b, c>>, d) = <<a, b, c, d>>
  <2>1. PICK s, t, u : s = <<a, b, c>> /\ t = <<a, b, c, d>> /\ u = Append(s, d)
    OBVIOUS
  <2>2. s \in Seq(S) /\ Len(s) = 3 /\ s[1] = a /\ s[2] = b /\ s[3] = c
    BY <2>1
  <2>3. t \in Seq(S) /\ Len(t) = 4 /\ t[1] = a /\ t[2] = b /\ t[3] = c /\ t[4] = d
    BY <2>1
  <2>4. u \in Seq(S) /\ Len(u) = Len(s) + 1 /\ u[Len(s) + 1] = d /\ \A i \in 1..Len(s) : u[i] = s[i]
    BY <2>1, <2>2, AppendProperties
  <2>5. \A i \in 1..4 : u[i] = t[i]
    BY <2>2, <2>3, <2>4
  <2>6. Len(u) = Len(t) /\ \A i \in 1..Len(t) : u[i] = t[i]
    BY <2>2, <2>3, <2>4, <2>5
  <2>7. u = t
    BY ONLY <2>3, <2>4, <2>6, SeqEqual
  <2> QED BY <2>1, <2>7
<1> QED BY <1>1, <1>2, <1>3, <1>4, <1>5

(* A token that leaves the answer alone *)
Free(p, c) == p.status = "KeyQuoteOpen" => c \notin {"answer", Backslash}

(* The tokens s lead from p to q without adding to the answer *)
Passes(p, s, q, v, w) == Leads(p, s, q, w) /\ Beyond(q, v)

LEMMA PassOn ==
  ASSUME NEW p, NEW s, NEW q, NEW t, NEW r, NEW v, NEW w, Passes(p, s, q, v, w), Passes(q, t, r, v, w)
  PROVE  Passes(p, s \o t, r, v, w)
BY LeadsOn DEF Passes

LEMMA PassNone ==
  ASSUME NEW p, NEW v, NEW w, Beyond(p, v), Begins(v, w)
  PROVE  Passes(p, <<>>, p, v, w)
BY LeadsNowhere DEF Passes, Beyond

LEMMA PassOne ==
  ASSUME NEW p, NEW v, NEW w, Beyond(p, v), Begins(v, w), NEW c \in Token, Free(p, c)
  PROVE  Passes(p, <<c>>, AddChar(p, c), v, w)
<1>1. PICK q : q = AddChar(p, c)
  OBVIOUS
<1>2. Beyond(q, v)
  BY <1>1, BeyondStep DEF Free
<1>3. Begins(AnswerSoFar(p), w) /\ Begins(AnswerSoFar(AddChar(p, c)), w)
  BY <1>1, <1>2 DEF Beyond
<1> QED BY <1>1, <1>2, <1>3, LeadsStep DEF Passes

LEMMA PassTwo ==
  ASSUME NEW p, NEW v, NEW w, Beyond(p, v), Begins(v, w), NEW a \in Token, NEW b \in Token,
         Free(p, a), NEW q, q = AddChar(p, a), Free(q, b)
  PROVE  Passes(p, <<a, b>>, AddChar(q, b), v, w)
<1>1. Passes(p, <<a>>, q, v, w)
  BY PassOne
<1>2. Passes(q, <<b>>, AddChar(q, b), v, w)
  BY <1>1, PassOne DEF Passes
<1>3. <<a>> \o <<b>> = <<a, b>>
  BY ShortLists
<1> QED BY <1>1, <1>2, <1>3, PassOn

LEMMA PassThree ==
  ASSUME NEW p, NEW v, NEW w, Beyond(p, v), Begins(v, w),
         NEW a \in Token, NEW b \in Token, NEW c \in Token,
         Free(p, a), NEW q, q = AddChar(p, a), Free(q, b), NEW r, r = AddChar(q, b), Free(r, c)
  PROVE  Passes(p, <<a, b, c>>, AddChar(r, c), v, w)
<1>1. Passes(p, <<a, b>>, r, v, w)
  BY PassTwo
<1>2. Passes(r, <<c>>, AddChar(r, c), v, w)
  BY <1>1, PassOne DEF Passes
<1>3. <<a, b>> \o <<c>> = <<a, b, c>>
  BY ShortLists
<1> QED BY <1>1, <1>2, <1>3, PassOn

LEMMA PassFour ==
  ASSUME NEW p, NEW v, NEW w, Beyond(p, v), Begins(v, w),
         NEW a \in Token, NEW b \in Token, NEW c \in Token, NEW d \in Token,
         Free(p, a), NEW q, q = AddChar(p, a), Free(q, b), NEW r, r = AddChar(q, b), Free(r, c),
         NEW u, u = AddChar(r, c), Free(u, d)
  PROVE  Passes(p, <<a, b, c, d>>, AddChar(u, d), v, w)
<1>1. Passes(p, <<a, b, c>>, u, v, w)
  BY PassThree
<1>2. Passes(u, <<d>>, AddChar(u, d), v, w)
  BY <1>1, PassOne DEF Passes
<1>3. <<a, b, c>> \o <<d>> = <<a, b, c, d>>
  <2>1. /\ <<a>> \o <<b>> = <<a, b>> /\ <<a, b>> \o <<c>> = <<a, b, c>>
        /\ <<a, b, c>> \o <<d>> = <<a, b, c, d>>
    BY ShortLists
  <2> QED BY ONLY <2>1
<1> QED BY <1>1, <1>2, <1>3, PassOn

-----------------------------------------------------------------------------
(* A value that is never JSON *)

Separators == {",", "}"}
Openers == {Blank1, Quote, "5", "["}

Drift(p, v) == Beyond(p, v) /\ p.status = "ValueScalar" /\ (p.text = <<>> \/ Hopeless(p.text))
Lost(p, v) == Drift(p, v) /\ p.text # <<>>

LEMMA DriftStep ==
  ASSUME NEW p, NEW v, Drift(p, v), NEW c \in Token, p.text = <<>> => c \notin Openers
  PROVE  LET q == AddChar(p, c) IN
            /\ Free(p, c) /\ Drift(q, v)
            /\ c \in Separators => q.text = <<>>
            /\ c \notin Separators => q.text # <<>>
<1>1. PICK q : q = AddChar(p, c)
  OBVIOUS
<1>2. ParserOK(p) /\ p.status = "ValueScalar" /\ (p.text = <<>> \/ Hopeless(p.text)) /\ Beyond(p, v)
  BY DEF Drift, Beyond
<1>3. Free(p, c)
  BY <1>2 DEF Free
<1>4. Beyond(q, v)
  BY <1>1, <1>2, <1>3, BeyondStep DEF Free
<1>5. q = AddChar(p, c) /\ ParserOK(p) /\ c \in Token
  BY <1>1, <1>2
<1>6. p.text \in Seq(Token)
  BY <1>2 DEF ParserOK
<1>7. ~IsJson(p.text)
  BY <1>2, <1>6, HopelessIsNoJson, EmptyIsNoJson
<1>8. CASE c \in Separators
  <2>1. c \in {",", "}"} /\ ~IsJson(p.text)
    BY <1>7, <1>8 DEF Separators
  <2>2. q.status = "ValueScalar" /\ q.text = <<>>
    BY ONLY <1>2, <1>5, <2>1, ScalarStep
  <2> QED BY <1>1, <1>3, <1>4, <1>8, <2>2 DEF Drift
<1>9. CASE c \notin Separators
  <2>1. c \notin {",", "}"}
    BY <1>9 DEF Separators
  <2>2. q.status = "ValueScalar" /\ q.text = Append(p.text, c)
    BY ONLY <1>2, <1>5, <2>1, ScalarStep
  <2>3. Hopeless(q.text)
    <3>1. CASE p.text = <<>>
      <4>1. Append(<<>>, c) = <<c>>
        OBVIOUS
      <4>2. c \notin {Blank1, Quote, "5", "["}
        BY <3>1 DEF Openers
      <4> QED BY <2>2, <3>1, <4>1, <4>2, HopelessStarts
    <3>2. CASE Hopeless(p.text)
      BY <1>6, <2>2, <3>2, HopelessStays
    <3> QED BY <1>2, <3>1, <3>2
  <2>4. q.text # <<>>
    BY <2>3 DEF Hopeless
  <2> QED BY <1>1, <1>3, <1>4, <1>9, <2>2, <2>3, <2>4 DEF Drift
<1> QED BY <1>8, <1>9

(* Tokens among which is no separator *)
Plain(s) == s \in Seq(Token) /\ \A i \in 1..Len(s) : s[i] \notin Separators

LEMMA LostRun ==
  ASSUME NEW p, NEW v, NEW w, Lost(p, v), Begins(v, w), NEW s, Plain(s)
  PROVE  \E q : Passes(p, s, q, v, w) /\ Lost(q, v)
<1>1. PICK n : n = Len(s)
  OBVIOUS
<1>2. n \in Nat /\ DOMAIN s = 1..n /\ s \in Seq(Token) /\ \A i \in 1..n : s[i] \in Token /\ s[i] \notin Separators
  BY <1>1, LenProperties, ElementOfSeq DEF Plain
<1>3. PICK b : b = [i \in 0..n |-> SubSeq(s, 1, i)]
  OBVIOUS
<1>4. /\ b[0] = <<>> /\ b[n] = s
      /\ \A i \in 0..n : i < n => b[i + 1] = b[i] \o <<s[i + 1]>>
  <2>1. b[0] = <<>>
    BY <1>2, <1>3, SubSeqEmpty
  <2>2. b[n] = s
    BY <1>1, <1>2, <1>3, SubSeqFull
  <2>3. ASSUME NEW i \in 0..n, i < n PROVE b[i + 1] = b[i] \o <<s[i + 1]>>
    <3>1. i \in 1..n - 1 \/ i = 0
      BY <1>2, <2>3
    <3>2. PICK a, c, e : a = SubSeq(s, 1, i) /\ c = SubSeq(s, 1, i + 1) /\ e = s[i + 1]
      OBVIOUS
    <3>3. e \in Token /\ i \in Int /\ i + 1 \in Int /\ 1 \in Int /\ \A k \in 1..i + 1 : s[k] \in Token
      BY <1>2, <2>3, <3>2
    <3>4. a \in Seq(Token) /\ Len(a) = i /\ \A k \in 1..i : a[k] = s[k]
      <4>1. /\ a \in Seq(Token) /\ Len(a) = IF 1 <= i THEN i - 1 + 1 ELSE 0
            /\ \A k \in 1..i - 1 + 1 : a[k] = s[1 + k - 1]
        <5>1. \A k \in 1..i : s[k] \in Token
          BY <3>3
        <5> QED BY <3>2, <3>3, <5>1, SubSeqProperties
      <4> QED BY <3>1, <4>1, <1>2
    <3>5. c \in Seq(Token) /\ Len(c) = i + 1 /\ \A k \in 1..i + 1 : c[k] = s[k]
      <4>1. /\ c \in Seq(Token) /\ Len(c) = IF 1 <= i + 1 THEN (i + 1) - 1 + 1 ELSE 0
            /\ \A k \in 1..(i + 1) - 1 + 1 : c[k] = s[1 + k - 1]
        BY <3>2, <3>3, SubSeqProperties
      <4> QED BY <3>1, <4>1, <1>2
    <3>6. Append(a, e) = a \o <<e>>
      BY <3>3, <3>4, AppendIsConcat
    <3>7. /\ Append(a, e) \in Seq(Token) /\ Len(Append(a, e)) = i + 1
          /\ \A k \in 1..i : Append(a, e)[k] = a[k]
          /\ Append(a, e)[i + 1] = e
      BY <3>3, <3>4, AppendProperties
    <3>8. \A k \in 1..i + 1 : c[k] = Append(a, e)[k]
      <4>1. ASSUME NEW k \in 1..i + 1 PROVE c[k] = Append(a, e)[k]
        <5>1. k \in 1..i \/ k = i + 1
          BY <3>1, <1>2
        <5> QED BY <5>1, <3>2, <3>4, <3>5, <3>7
      <4> QED BY <4>1
    <3>9. c = Append(a, e)
      BY <3>5, <3>7, <3>8, SeqEqual
    <3>10. i + 1 \in 0..n /\ i \in 0..n
      BY <1>2, <2>3
    <3> QED BY <1>3, <3>2, <3>6, <3>9, <3>10
  <2> QED BY <2>1, <2>2, <2>3
<1> DEFINE Run == {i \in 0..n : \E q : Passes(p, b[i], q, v, w) /\ Lost(q, v)}
<1>5. 0 \in Run
  <2>1. Passes(p, <<>>, p, v, w)
    BY PassNone DEF Lost, Drift
  <2>2. 0 \in 0..n
    BY <1>2
  <2> QED BY <1>4, <2>1, <2>2
<1>6. ASSUME NEW i \in 0..n, i \in Run, i < n PROVE i + 1 \in Run
  <2>1. PICK q : Passes(p, b[i], q, v, w) /\ Lost(q, v)
    BY <1>6
  <2>2. PICK c : c = s[i + 1]
    OBVIOUS
  <2>3. c \in Token /\ c \notin Separators /\ i + 1 \in 0..n
    BY <1>2, <1>6, <2>2
  <2>4. PICK r : r = AddChar(q, c)
    OBVIOUS
  <2>5. Free(q, c) /\ Drift(r, v) /\ r.text # <<>>
    BY <2>1, <2>3, <2>4, DriftStep DEF Lost
  <2>6. Passes(q, <<c>>, r, v, w)
    BY <2>1, <2>3, <2>4, <2>5, PassOne DEF Lost, Drift
  <2>7. b[i + 1] = b[i] \o <<c>>
    BY <1>4, <1>6, <2>2
  <2>8. Passes(p, b[i + 1], r, v, w)
    BY <2>1, <2>6, <2>7, PassOn
  <2> QED BY <2>3, <2>5, <2>8 DEF Lost
<1>7. n \in Run
  <2> HIDE DEF Run
  <2>1. n \in 0..n
    BY <1>2
  <2> QED BY <2>1, <1>2, <1>5, <1>6, UpTo
<1> QED BY <1>4, <1>7

-----------------------------------------------------------------------------
(* The references *)

Gaps == {<<>>, <<Blank1>>}

LEMMA BlanksAreSkipped ==
  ASSUME NEW p, ParserOK(p),
         p.status \in {"StartProperty", "KeyQuoteClose", "Colon", "ValueQuoteClose", "TopLevel", "Closed"}
  PROVE  AddChar(p, Blank1) = p
<1>1. Blank1 \in Token /\ Blank1 # Quote /\ Blank1 # ":" /\ Blank1 \notin {",", "}"}
  BY Tokens, WordTokens
<1>2. CASE p.status = "StartProperty"
  BY ONLY <1>1, <1>2, ParserOK(p), PropertyStep
<1>3. CASE p.status = "KeyQuoteClose"
  BY ONLY <1>1, <1>3, ParserOK(p), KeyEndStep
<1>4. CASE p.status = "Colon"
  BY ONLY <1>1, <1>4, ParserOK(p), ColonStep
<1>5. CASE p.status = "ValueQuoteClose"
  BY ONLY <1>1, <1>5, ParserOK(p), StringEndStep
<1>6. CASE p.status \in {"TopLevel", "Closed"}
  BY <1>6, StillStep
<1> QED BY <1>2, <1>3, <1>4, <1>5, <1>6

LEMMA GapLeads ==
  ASSUME NEW p, AddChar(p, Blank1) = p, NEW w, Begins(AnswerSoFar(p), w), NEW gap \in Gaps
  PROVE  Leads(p, gap, p, w)
<1>1. CASE gap = <<>>
  BY <1>1, LeadsNowhere
<1>2. CASE gap = <<Blank1>>
  <2>1. Blank1 \in Token
    BY Tokens
  <2>2. Leads(p, <<Blank1>>, AddChar(p, Blank1), w)
    BY <2>1, LeadsStep
  <2> QED BY <1>2, <2>2
<1> QED BY <1>1, <1>2 DEF Gaps

LEMMA GapPasses ==
  ASSUME NEW p, NEW v, NEW w, Beyond(p, v), Begins(v, w), NEW gap \in Gaps,
         p.status \in {"StartProperty", "KeyQuoteClose", "Colon", "ValueQuoteClose", "TopLevel", "Closed"}
  PROVE  Passes(p, gap, p, v, w)
<1>1. ParserOK(p) /\ Begins(AnswerSoFar(p), w)
  BY DEF Beyond
<1>2. AddChar(p, Blank1) = p
  BY <1>1, BlanksAreSkipped
<1> QED BY <1>1, <1>2, GapLeads DEF Passes

(* A key that is not the answer's *)
LEMMA KeyPasses ==
  ASSUME NEW p, NEW v, NEW w, Beyond(p, v), Begins(v, w), p.status = "StartProperty",
         NEW name \in {"reference", "references"}
  PROVE  \E q : Passes(p, Named(name), q, v, w) /\ q.status = "KeyQuoteClose"
<1>1. PICK q : q = AddChar(p, Quote)
  OBVIOUS
<1>2. PICK r : r = AddChar(q, name)
  OBVIOUS
<1>3. PICK u : u = AddChar(r, Quote)
  OBVIOUS
<1>4. Quote \in Token /\ name \in Token /\ Quote # Backslash /\ name # Backslash /\ name # Quote
        /\ Quote # "answer" /\ name # "answer"
  BY Tokens, WordTokens
<1>5. ParserOK(p) /\ ParserOK(q) /\ ParserOK(r)
  BY <1>1, <1>2, <1>4, AddCharKeeps DEF Beyond
<1>6. q.status = "KeyQuoteOpen" /\ q.text = <<>> /\ q.escaped = FALSE
  BY ONLY <1>1, <1>4, <1>5, p.status = "StartProperty", PropertyStep
<1>7. r.status = "KeyQuoteOpen" /\ r.escaped = FALSE
  BY ONLY <1>2, <1>4, <1>5, <1>6, KeyStep
<1>8. u.status = "KeyQuoteClose"
  BY ONLY <1>3, <1>4, <1>5, <1>7, KeyStep
<1>9. Free(p, Quote) /\ Free(q, name) /\ Free(r, Quote)
  BY <1>4 DEF Free
<1>10. Passes(p, <<Quote, name, Quote>>, u, v, w)
  BY <1>1, <1>2, <1>3, <1>4, <1>9, PassThree
<1> QED BY <1>8, <1>10 DEF Named

LEMMA ReferencesKeyPasses ==
  ASSUME NEW p, NEW v, NEW w, Beyond(p, v), Begins(v, w), p.status = "StartProperty", NEW gap \in Gaps
  PROVE  \E q : Passes(p, Named("references") \o gap \o <<":">> \o gap, q, v, w) /\ q.status = "Colon"
<1>1. PICK q : Passes(p, Named("references"), q, v, w) /\ q.status = "KeyQuoteClose"
  BY KeyPasses
<1>2. Beyond(q, v)
  BY <1>1 DEF Passes
<1>3. Passes(p, Named("references") \o gap, q, v, w)
  BY <1>1, <1>2, GapPasses, PassOn
<1>4. PICK r : r = AddChar(q, ":")
  OBVIOUS
<1>5. ":" \in Token
  BY Tokens, WordTokens
<1>6. ParserOK(q)
  BY <1>2 DEF Beyond
<1>7. r.status = "Colon"
  BY ONLY <1>1, <1>4, <1>5, <1>6, KeyEndStep
<1>8. Free(q, ":")
  BY <1>1 DEF Free
<1>9. Passes(q, <<":">>, r, v, w)
  BY <1>2, <1>4, <1>5, <1>8, PassOne
<1>10. Passes(p, Named("references") \o gap \o <<":">>, r, v, w)
  BY <1>3, <1>9, PassOn
<1>11. Passes(r, gap, r, v, w)
  BY <1>7, <1>9, GapPasses DEF Passes
<1> QED BY <1>7, <1>10, <1>11, PassOn

(* The value of a key that is not the answer's, from its bracket on *)
LEMMA BracketPasses ==
  ASSUME NEW p, NEW v, NEW w, Beyond(p, v), Begins(v, w), p.status = "Colon"
  PROVE  \E q : Passes(p, <<"[">>, q, v, w) /\ q.status = "ValueScalar" /\ q.text = <<"[">>
<1>1. PICK q : q = AddChar(p, "[")
  OBVIOUS
<1>2. "[" \in Token /\ "[" \notin {Blank1, Quote} /\ ParserOK(p)
  BY Tokens, WordTokens DEF Beyond
<1>3. q.status = "ValueScalar" /\ q.text = <<"[">>
  BY ONLY <1>1, <1>2, p.status = "Colon", ColonStep
<1>4. Free(p, "[")
  BY DEF Free
<1> QED BY <1>1, <1>2, <1>3, <1>4, PassOne

(* A token of a value that is no string *)
LEMMA ScalarPasses ==
  ASSUME NEW p, NEW v, NEW w, Beyond(p, v), Begins(v, w), p.status = "ValueScalar",
         NEW c \in Token, c \notin Separators
  PROVE  \E q : Passes(p, <<c>>, q, v, w) /\ q.status = "ValueScalar" /\ q.text = Append(p.text, c)
<1>1. PICK q : q = AddChar(p, c)
  OBVIOUS
<1>2. c \in Token /\ c \notin {",", "}"} /\ ParserOK(p)
  BY DEF Beyond, Separators
<1>3. q.status = "ValueScalar" /\ q.text = Append(p.text, c)
  BY ONLY <1>1, <1>2, p.status = "ValueScalar", ScalarStep
<1>4. Free(p, c)
  BY DEF Free
<1> QED BY <1>1, <1>2, <1>3, <1>4, PassOne

(* What the parser is at after the references: the empty list is a value,   *)
(* a list with references never is, and a separator in a name can end it all *)
ListRead(p, v) ==
  /\ Beyond(p, v)
  /\ \/ p.status = "Closed"
     \/ Drift(p, v)
     \/ p.status = "ValueScalar" /\ p.text = <<"[", "]">>

LEMMA NoReferencesPass ==
  ASSUME NEW p, NEW v, NEW w, Beyond(p, v), Begins(v, w), p.status = "Colon"
  PROVE  \E q : Passes(p, <<"[", "]">>, q, v, w) /\ ListRead(q, v)
<1>1. PICK q : Passes(p, <<"[">>, q, v, w) /\ q.status = "ValueScalar" /\ q.text = <<"[">>
  BY BracketPasses
<1>2. "[" \in Token /\ "]" \in Token /\ "]" \notin Separators
  BY Tokens, WordTokens DEF Separators
<1>3. PICK r : Passes(q, <<"]">>, r, v, w) /\ r.status = "ValueScalar" /\ r.text = Append(q.text, "]")
  BY <1>1, <1>2, ScalarPasses DEF Passes
<1>4. <<"[">> \o <<"]">> = <<"[", "]">> /\ Append(<<"[">>, "]") = <<"[", "]">>
  BY <1>2, ShortLists
<1>5. Passes(p, <<"[", "]">>, r, v, w) /\ r.text = <<"[", "]">>
  <2>1. Passes(p, <<"[">> \o <<"]">>, r, v, w)
    BY <1>1, <1>3, PassOn
  <2>2. r.text = <<"[", "]">>
    BY ONLY <1>1, <1>3, <1>4
  <2> QED BY <1>4, <2>1, <2>2
<1> QED BY <1>3, <1>5 DEF ListRead, Passes

(* The reference in a value that is never JSON, up to what it holds *)
LEMMA ReferencePasses ==
  ASSUME NEW p, NEW v, NEW w, Beyond(p, v), Begins(v, w),
         p.status = "ValueScalar", p.text = <<"[">> \/ p.text = <<>>
  PROVE  \E r : Passes(p, <<"{">> \o Named("reference") \o <<":", Quote>>, r, v, w) /\ Lost(r, v)
<1>1. "[" \in Token /\ "{" \in Token /\ "{" \notin Separators
  BY Tokens, WordTokens DEF Separators
<1>2. PICK a : Passes(p, <<"{">>, a, v, w) /\ a.status = "ValueScalar" /\ a.text = Append(p.text, "{")
  BY <1>1, ScalarPasses
<1>3. Hopeless(a.text)
  <2>1. CASE p.text = <<"[">>
    <3>1. a.text = <<"[", "{">>
      <4>1. Append(<<"[">>, "{") = <<"[", "{">>
        BY <1>1, ShortLists
      <4>2. Append(p.text, "{") = Append(<<"[">>, "{")
        BY <2>1
      <4> QED BY ONLY <1>2, <4>1, <4>2
    <3> QED BY <3>1, HopelessStarts
  <2>2. CASE p.text = <<>>
    <3>1. Append(<<>>, "{") = <<"{">>
      OBVIOUS
    <3>2. a.text = <<"{">>
      BY <1>2, <2>2, <3>1
    <3>3. "{" \notin {Blank1, Quote, "5", "["}
      BY Tokens, WordTokens
    <3> QED BY <1>1, <3>2, <3>3, HopelessStarts
  <2> QED BY <2>1, <2>2
<1>4. Lost(a, v)
  BY <1>2, <1>3 DEF Lost, Drift, Passes, Hopeless
<1>5. Plain(Named("reference")) /\ Plain(<<":", Quote>>)
  <2>1. Quote \in Token /\ Quote \notin Separators /\ ":" \in Token /\ ":" \notin Separators
          /\ "reference" \in Token /\ "reference" \notin Separators
    BY Tokens, WordTokens DEF Separators
  <2>2. Plain(<<":", Quote>>)
    BY <2>1 DEF Plain
  <2>3. Plain(<<Quote, "reference", Quote>>)
    BY <2>1 DEF Plain
  <2> QED BY <2>2, <2>3 DEF Named
<1>6. PICK b : Passes(a, Named("reference"), b, v, w) /\ Lost(b, v)
  BY <1>4, <1>5, LostRun
<1>7. PICK c : Passes(b, <<":", Quote>>, c, v, w) /\ Lost(c, v)
  BY <1>5, <1>6, LostRun
<1> QED BY <1>2, <1>6, <1>7, PassOn

-----------------------------------------------------------------------------
(* The lists of references *)

LEMMA DriftPasses ==
  ASSUME NEW p, NEW v, NEW w, Drift(p, v), Begins(v, w), NEW c \in Token, p.text = <<>> => c \notin Openers
  PROVE  \E q : /\ Passes(p, <<c>>, q, v, w) /\ Drift(q, v)
                /\ c \in Separators => q.text = <<>>
                /\ c \notin Separators => Lost(q, v)
<1>1. PICK q : q = AddChar(p, c)
  OBVIOUS
<1>2. /\ Free(p, c) /\ Drift(q, v)
      /\ c \in Separators => q.text = <<>>
      /\ c \notin Separators => q.text # <<>>
  BY <1>1, DriftStep
<1>3. Passes(p, <<c>>, q, v, w)
  BY <1>1, <1>2, PassOne DEF Drift
<1> QED BY <1>2, <1>3 DEF Lost

LEMMA SeparatorTokens ==
  /\ Separators \subseteq Token /\ "," \in Separators /\ "}" \in Separators
  /\ \A c \in {"word", "answer", "5", "{", ":", "[", "]", Quote, Backslash, "n", "reference"} :
        c \in Token /\ c \notin Separators
  /\ \A c \in {"word", "answer", "{", ":", "]", Backslash, "n", ",", "}"} : c \notin Openers
BY Tokens, WordTokens DEF Separators, Openers

LEMMA WordReferencePasses ==
  ASSUME NEW p, NEW v, NEW w, Beyond(p, v), Begins(v, w),
         p.status = "ValueScalar", p.text = <<"[">> \/ p.text = <<>>, NEW id \in {"word", "answer"}
  PROVE  \E r : Passes(p, Reference(<<id>>), r, v, w) /\ Drift(r, v) /\ r.text = <<>>
<1>1. PICK a : Passes(p, <<"{">> \o Named("reference") \o <<":", Quote>>, a, v, w) /\ Lost(a, v)
  BY ReferencePasses
<1>2. /\ id \in Token /\ id \notin Separators /\ Quote \in Token /\ Quote \notin Separators
      /\ "}" \in Token /\ "}" \in Separators
  BY SeparatorTokens
<1>3. PICK b : Passes(a, <<id>>, b, v, w) /\ Lost(b, v)
  <2>1. Plain(<<id>>)
    <3>0. id \in Token
      BY <1>2
    <3>1. <<id>> \in Seq(Token) /\ Len(<<id>>) = 1 /\ <<id>>[1] = id
      BY ONLY <3>0
    <3>2. \A i \in 1..Len(<<id>>) : <<id>>[i] = id
      BY ONLY <3>1
    <3> QED BY <1>2, <3>1, <3>2 DEF Plain
  <2> QED BY <1>1, <2>1, LostRun
<1>4. PICK c : Passes(b, <<Quote>>, c, v, w) /\ Lost(c, v)
  BY <1>2, <1>3, DriftPasses DEF Lost
<1>5. PICK r : Passes(c, <<"}">>, r, v, w) /\ Drift(r, v) /\ r.text = <<>>
  BY <1>2, <1>4, DriftPasses DEF Lost
<1>6. Passes(b, <<Quote, "}">>, r, v, w)
  <2>1. <<Quote>> \o <<"}">> = <<Quote, "}">>
    BY <1>2, ShortLists
  <2>2. Passes(b, <<Quote>> \o <<"}">>, r, v, w)
    BY <1>4, <1>5, PassOn
  <2> QED BY <2>1, <2>2
<1>7. Passes(p, Reference(<<id>>), r, v, w)
  <2>1. Passes(p, <<"{">> \o Named("reference") \o <<":", Quote>> \o <<id>>, b, v, w)
    BY <1>1, <1>3, PassOn
  <2>2. Passes(p, <<"{">> \o Named("reference") \o <<":", Quote>> \o <<id>> \o <<Quote, "}">>, r, v, w)
    BY <2>1, <1>6, PassOn
  <2> QED BY <2>2 DEF Reference
<1> QED BY <1>5, <1>7

LEMMA OneReferencePasses ==
  ASSUME NEW p, NEW v, NEW w, Beyond(p, v), Begins(v, w), p.status = "Colon"
  PROVE  \E q : Passes(p, <<"[">> \o Reference(<<"word">>) \o <<"]">>, q, v, w) /\ ListRead(q, v)
<1>1. PICK a : Passes(p, <<"[">>, a, v, w) /\ a.status = "ValueScalar" /\ a.text = <<"[">>
  BY BracketPasses
<1>2. PICK b : Passes(a, Reference(<<"word">>), b, v, w) /\ Drift(b, v) /\ b.text = <<>>
  BY <1>1, WordReferencePasses DEF Passes
<1>3. PICK q : Passes(b, <<"]">>, q, v, w) /\ Drift(q, v)
  BY <1>2, SeparatorTokens, DriftPasses
<1>4. Passes(p, <<"[">> \o Reference(<<"word">>) \o <<"]">>, q, v, w)
  BY <1>1, <1>2, <1>3, PassOn
<1> QED BY <1>3, <1>4 DEF ListRead, Drift

LEMMA TwoReferencesPass ==
  ASSUME NEW p, NEW v, NEW w, Beyond(p, v), Begins(v, w), p.status = "Colon"
  PROVE  \E q : /\ Passes(p, <<"[">> \o Reference(<<"word">>) \o <<",">> \o Reference(<<"answer">>) \o <<"]">>, q, v, w)
                /\ ListRead(q, v)
<1>1. PICK a : Passes(p, <<"[">>, a, v, w) /\ a.status = "ValueScalar" /\ a.text = <<"[">>
  BY BracketPasses
<1>2. PICK b : Passes(a, Reference(<<"word">>), b, v, w) /\ Drift(b, v) /\ b.text = <<>>
  BY <1>1, WordReferencePasses DEF Passes
<1>3. PICK c : Passes(b, <<",">>, c, v, w) /\ Drift(c, v) /\ c.text = <<>>
  BY <1>2, SeparatorTokens, DriftPasses
<1>4. PICK d : Passes(c, Reference(<<"answer">>), d, v, w) /\ Drift(d, v) /\ d.text = <<>>
  BY <1>3, WordReferencePasses DEF Drift
<1>5. PICK q : Passes(d, <<"]">>, q, v, w) /\ Drift(q, v)
  BY <1>4, SeparatorTokens, DriftPasses
<1>6. Passes(p, <<"[">> \o Reference(<<"word">>), b, v, w)
  BY <1>1, <1>2, PassOn
<1>7. Passes(p, <<"[">> \o Reference(<<"word">>) \o <<",">>, c, v, w)
  BY <1>3, <1>6, PassOn
<1>8. Passes(p, <<"[">> \o Reference(<<"word">>) \o <<",">> \o Reference(<<"answer">>), d, v, w)
  BY <1>4, <1>7, PassOn
<1>9. Passes(p, <<"[">> \o Reference(<<"word">>) \o <<",">> \o Reference(<<"answer">>) \o <<"]">>, q, v, w)
  BY <1>5, <1>8, PassOn
<1> QED BY <1>5, <1>9 DEF ListRead, Drift

(* A name with separators and a number between them: the number is taken    *)
(* for the value, and the next string for a key                             *)
LEMMA OddNamePasses ==
  ASSUME NEW p, NEW v, NEW w, Lost(p, v), Begins(v, w)
  PROVE  \E q : Passes(p, <<"word", ",", "5", ",">>, q, v, w) /\ q.status = "StartProperty"
<1>1. /\ "word" \in Token /\ "," \in Token /\ "5" \in Token /\ "," \in Separators
      /\ "word" \notin Separators /\ "5" \notin Separators
  BY SeparatorTokens
<1>2. PICK a : a = AddChar(p, "word")
  OBVIOUS
<1>3. Lost(a, v) /\ Free(p, "word")
  BY <1>1, <1>2, DriftStep DEF Lost
<1>4. PICK b : b = AddChar(a, ",")
  OBVIOUS
<1>5. Drift(b, v) /\ b.text = <<>> /\ Free(a, ",")
  BY <1>1, <1>3, <1>4, DriftStep DEF Lost
<1>6. PICK c : c = AddChar(b, "5")
  OBVIOUS
<1>7. ParserOK(b) /\ b.status = "ValueScalar" /\ Beyond(b, v) /\ "5" \notin {",", "}"}
  BY <1>1, <1>5 DEF Drift, Beyond, Separators
<1>8. c.status = "ValueScalar" /\ c.text = Append(b.text, "5")
  BY ONLY <1>1, <1>6, <1>7, ScalarStep
<1>9. Free(b, "5") /\ Free(c, ",")
  BY <1>7, <1>8 DEF Free
<1>10. ParserOK(c)
  BY <1>1, <1>6, <1>7, AddCharKeeps
<1>11. PICK q : q = AddChar(c, ",")
  OBVIOUS
<1>12. c.text = <<"5">>
  <2>1. Append(<<>>, "5") = <<"5">>
    OBVIOUS
  <2> QED BY <1>5, <1>8, <2>1
<1>13. IsJson(c.text) /\ "," \in {",", "}"}
  BY <1>12, FiveIsJson
<1>14. q.status = "StartProperty"
  BY ONLY <1>1, <1>8, <1>10, <1>11, <1>13, ScalarStep
<1>15. Beyond(p, v)
  BY DEF Lost, Drift
<1>16. Passes(p, <<"word", ",", "5", ",">>, q, v, w)
  BY <1>1, <1>2, <1>3, <1>4, <1>5, <1>6, <1>9, <1>11, <1>15, PassFour
<1> QED BY <1>14, <1>16

(* A token in a key that is not the answer's *)
LEMMA InKeyPasses ==
  ASSUME NEW p, NEW v, NEW w, Beyond(p, v), Begins(v, w), p.status = "KeyQuoteOpen",
         NEW c \in Token, c \notin {Quote, Backslash, "answer"}
  PROVE  \E q : Passes(p, <<c>>, q, v, w) /\ q.status = "KeyQuoteOpen"
<1>1. PICK q : q = AddChar(p, c)
  OBVIOUS
<1>2. ParserOK(p) /\ p.escaped = FALSE /\ c \in Token /\ c # Backslash /\ c # Quote
  BY DEF Beyond, Elsewhere
<1>3. q.status = "KeyQuoteOpen"
  BY ONLY <1>1, <1>2, p.status = "KeyQuoteOpen", KeyStep
<1>4. Free(p, c)
  BY DEF Free
<1> QED BY <1>1, <1>3, <1>4, PassOne

LEMMA KeyEndPasses ==
  ASSUME NEW p, NEW v, NEW w, Beyond(p, v), Begins(v, w), p.status = "KeyQuoteOpen"
  PROVE  \E q : Passes(p, <<Quote>>, q, v, w) /\ q.status = "KeyQuoteClose"
<1>1. PICK q : q = AddChar(p, Quote)
  OBVIOUS
<1>2. ParserOK(p) /\ p.escaped = FALSE /\ Quote \in Token /\ Quote # Backslash
  BY Tokens DEF Beyond, Elsewhere
<1>3. q.status = "KeyQuoteClose"
  BY ONLY <1>1, <1>2, p.status = "KeyQuoteOpen", KeyStep
<1>4. Quote \notin {"answer", Backslash}
  BY Tokens, WordTokens
<1>5. Free(p, Quote)
  BY <1>4 DEF Free
<1> QED BY <1>1, <1>2, <1>3, <1>5, PassOne

LEMMA KeyStartPasses ==
  ASSUME NEW p, NEW v, NEW w, Beyond(p, v), Begins(v, w), p.status = "StartProperty"
  PROVE  \E q : Passes(p, <<Quote>>, q, v, w) /\ q.status = "KeyQuoteOpen"
<1>1. PICK q : q = AddChar(p, Quote)
  OBVIOUS
<1>2. ParserOK(p) /\ Quote \in Token
  BY Tokens DEF Beyond
<1>3. q.status = "KeyQuoteOpen"
  BY ONLY <1>1, <1>2, p.status = "StartProperty", PropertyStep
<1>4. Free(p, Quote)
  BY DEF Free
<1> QED BY <1>1, <1>2, <1>3, <1>4, PassOne

(* A token that is skipped between a key and its colon *)
LEMMA AfterKeyPasses ==
  ASSUME NEW p, NEW v, NEW w, Beyond(p, v), Begins(v, w), p.status = "KeyQuoteClose"
  PROVE  /\ \A c \in Token : c # ":" => Passes(p, <<c>>, p, v, w)
         /\ \E q : Passes(p, <<":">>, q, v, w) /\ q.status = "Colon"
<1>1. ParserOK(p) /\ \A c \in Token : Free(p, c)
  BY DEF Free, Beyond
<1>2. ASSUME NEW c \in Token, c # ":" PROVE Passes(p, <<c>>, p, v, w)
  <2>1. AddChar(p, c) = p
    BY ONLY <1>1, <1>2, p.status = "KeyQuoteClose", KeyEndStep
  <2>2. Passes(p, <<c>>, AddChar(p, c), v, w)
    BY <1>1, PassOne
  <2> QED BY <2>1, <2>2
<1>3. PICK q : q = AddChar(p, ":")
  OBVIOUS
<1>4. ":" \in Token
  BY Tokens, WordTokens
<1>5. q.status = "Colon"
  BY ONLY <1>1, <1>3, <1>4, p.status = "KeyQuoteClose", KeyEndStep
<1>6. Passes(p, <<":">>, q, v, w)
  BY <1>1, <1>3, <1>4, PassOne
<1> QED BY <1>2, <1>5, <1>6

LEMMA ReferenceInKeyPasses ==
  ASSUME NEW p, NEW v, NEW w, Beyond(p, v), Begins(v, w), p.status = "KeyQuoteOpen"
  PROVE  \E q : Passes(p, Reference(<<"answer">>), q, v, w) /\ q.status = "Closed"
<1>0. /\ Quote \in Token /\ "reference" \in Token /\ "{" \in Token /\ ":" \in Token
      /\ Quote # ":" /\ "{" \notin {Quote, Backslash, "answer"} /\ "answer" \in Token /\ "}" \in Token
  BY Tokens, WordTokens
<1>1. PICK a : Passes(p, <<"{">>, a, v, w) /\ a.status = "KeyQuoteOpen"
  BY <1>0, InKeyPasses
<1>2. PICK b : Passes(a, <<Quote>>, b, v, w) /\ b.status = "KeyQuoteClose"
  BY <1>1, KeyEndPasses DEF Passes
<1>3. /\ Passes(b, <<"reference">>, b, v, w) /\ Passes(b, <<Quote>>, b, v, w)
      /\ \E c : Passes(b, <<":">>, c, v, w) /\ c.status = "Colon"
  <2>1. Beyond(b, v) /\ "reference" # ":"
    BY <1>2 DEF Passes
  <2> QED BY <1>0, <1>2, <2>1, AfterKeyPasses
<1>4. PICK c : Passes(b, <<":">>, c, v, w) /\ c.status = "Colon"
  BY <1>3
<1>5. Passes(a, Named("reference"), b, v, w)
  <2>0. Quote \in Token /\ "reference" \in Token
    BY <1>0
  <2>1. /\ <<Quote>> \o <<"reference">> = <<Quote, "reference">>
        /\ <<Quote, "reference">> \o <<Quote>> = <<Quote, "reference", Quote>>
    BY ONLY <2>0, ShortLists
  <2>2. Passes(a, <<Quote>> \o <<"reference">>, b, v, w)
    BY <1>2, <1>3, PassOn
  <2>3. Passes(a, <<Quote>> \o <<"reference">> \o <<Quote>>, b, v, w)
    BY <1>3, <2>2, PassOn
  <2> QED BY <2>1, <2>3 DEF Named
<1>6. PICK d : d = AddChar(c, Quote)
  OBVIOUS
<1>7. PICK e : e = AddChar(d, "answer")
  OBVIOUS
<1>8. PICK f : f = AddChar(e, Quote)
  OBVIOUS
<1>9. PICK q : q = AddChar(f, "}")
  OBVIOUS
<1>10. Beyond(c, v) /\ ParserOK(c)
  BY <1>4 DEF Passes, Beyond
<1>11. ParserOK(d) /\ ParserOK(e) /\ ParserOK(f)
  BY <1>0, <1>6, <1>7, <1>8, <1>10, AddCharKeeps
<1>12. Quote # Blank1 /\ "answer" \notin {Quote, Backslash}
  BY Tokens, WordTokens
<1>13. d.status = "ValueQuoteOpen" /\ d.escaped = FALSE
  BY ONLY <1>0, <1>4, <1>6, <1>10, <1>12, ColonStep
<1>14. e.status = "ValueQuoteOpen" /\ e.escaped = FALSE
  BY ONLY <1>0, <1>7, <1>11, <1>12, <1>13, StringStep
<1>15. f.status = "ValueQuoteClose"
  BY ONLY <1>0, <1>8, <1>11, <1>14, StringStep
<1>16. q.status = "Closed"
  BY ONLY <1>0, <1>9, <1>11, <1>15, StringEndStep
<1>17. Free(b, ":") /\ Free(c, Quote) /\ Free(d, "answer") /\ Free(e, Quote) /\ Free(f, "}")
  BY <1>2, <1>4, <1>13, <1>14, <1>15 DEF Free
<1>18. Passes(c, <<Quote>>, d, v, w)
  BY <1>0, <1>6, <1>10, <1>17, PassOne
<1>19. Passes(b, <<":", Quote>>, d, v, w)
  <2>1. <<":">> \o <<Quote>> = <<":", Quote>>
    BY <1>0, ShortLists
  <2>2. Passes(b, <<":">> \o <<Quote>>, d, v, w)
    BY <1>4, <1>18, PassOn
  <2> QED BY <2>1, <2>2
<1>20. Passes(d, <<"answer">>, e, v, w)
  <2>1. Beyond(d, v)
    BY <1>18 DEF Passes
  <2> QED BY <2>1, <1>0, <1>7, <1>17, PassOne
<1>21. Passes(e, <<Quote, "}">>, q, v, w)
  <2>1. Beyond(e, v)
    BY <1>20 DEF Passes
  <2> QED BY <2>1, <1>0, <1>8, <1>9, <1>17, PassTwo
<1>22. Passes(p, Reference(<<"answer">>), q, v, w)
  <2>1. Passes(p, <<"{">> \o Named("reference"), b, v, w)
    BY <1>1, <1>5, PassOn
  <2>2. Passes(p, <<"{">> \o Named("reference") \o <<":", Quote>>, d, v, w)
    BY <2>1, <1>19, PassOn
  <2>3. Passes(p, <<"{">> \o Named("reference") \o <<":", Quote>> \o <<"answer">>, e, v, w)
    BY <2>2, <1>20, PassOn
  <2>4. Passes(p, <<"{">> \o Named("reference") \o <<":", Quote>> \o <<"answer">> \o <<Quote, "}">>, q, v, w)
    BY <2>3, <1>21, PassOn
  <2> QED BY <2>4 DEF Reference
<1> QED BY <1>16, <1>22

LEMMA OddReferencesPass ==
  ASSUME NEW p, NEW v, NEW w, Beyond(p, v), Begins(v, w), p.status = "Colon"
  PROVE  \E q : /\ Passes(p, <<"[">> \o Reference(<<"word", ",", "5", ",">>) \o <<",">> \o Reference(<<"answer">>) \o <<"]">>, q, v, w)
                /\ ListRead(q, v)
<1>0. /\ Quote \in Token /\ "," \in Token /\ "}" \in Token /\ "]" \in Token
      /\ "}" \notin {Quote, Backslash, "answer"} /\ "," \notin {Quote, Backslash, "answer"}
  BY Tokens, WordTokens
<1>1. PICK a : Passes(p, <<"[">>, a, v, w) /\ a.status = "ValueScalar" /\ a.text = <<"[">>
  BY BracketPasses
<1>2. PICK b : Passes(a, <<"{">> \o Named("reference") \o <<":", Quote>>, b, v, w) /\ Lost(b, v)
  BY <1>1, ReferencePasses DEF Passes
<1>3. PICK c : Passes(b, <<"word", ",", "5", ",">>, c, v, w) /\ c.status = "StartProperty"
  BY <1>2, OddNamePasses
<1>4. PICK d : Passes(c, <<Quote>>, d, v, w) /\ d.status = "KeyQuoteOpen"
  BY <1>3, KeyStartPasses DEF Passes
<1>5. PICK e : Passes(d, <<"}">>, e, v, w) /\ e.status = "KeyQuoteOpen"
  BY <1>0, <1>4, InKeyPasses DEF Passes
<1>6. Passes(c, <<Quote, "}">>, e, v, w)
  <2>1. <<Quote>> \o <<"}">> = <<Quote, "}">>
    BY <1>0, ShortLists
  <2>2. Passes(c, <<Quote>> \o <<"}">>, e, v, w)
    BY <1>4, <1>5, PassOn
  <2> QED BY <2>1, <2>2
<1>7. Passes(a, Reference(<<"word", ",", "5", ",">>), e, v, w)
  <2>1. Passes(a, <<"{">> \o Named("reference") \o <<":", Quote>> \o <<"word", ",", "5", ",">>, c, v, w)
    BY <1>2, <1>3, PassOn
  <2>2. Passes(a, <<"{">> \o Named("reference") \o <<":", Quote>> \o <<"word", ",", "5", ",">> \o <<Quote, "}">>, e, v, w)
    BY <2>1, <1>6, PassOn
  <2> QED BY <2>2 DEF Reference
<1>8. PICK f : Passes(e, <<",">>, f, v, w) /\ f.status = "KeyQuoteOpen"
  BY <1>0, <1>5, InKeyPasses DEF Passes
<1>9. PICK q : Passes(f, Reference(<<"answer">>), q, v, w) /\ q.status = "Closed"
  BY <1>8, ReferenceInKeyPasses DEF Passes
<1>10. Beyond(q, v) /\ AddChar(q, "]") = q /\ Free(q, "]")
  BY <1>9, StillStep DEF Passes, Free
<1>11. Passes(q, <<"]">>, q, v, w)
  BY <1>0, <1>10, PassOne
<1>12. Passes(p, <<"[">> \o Reference(<<"word", ",", "5", ",">>), e, v, w)
  BY <1>1, <1>7, PassOn
<1>13. Passes(p, <<"[">> \o Reference(<<"word", ",", "5", ",">>) \o <<",">>, f, v, w)
  BY <1>8, <1>12, PassOn
<1>14. Passes(p, <<"[">> \o Reference(<<"word", ",", "5", ",">>) \o <<",">> \o Reference(<<"answer">>), q, v, w)
  BY <1>9, <1>13, PassOn
<1>15. Passes(p, <<"[">> \o Reference(<<"word", ",", "5", ",">>) \o <<",">> \o Reference(<<"answer">>) \o <<"]">>, q, v, w)
  BY <1>11, <1>14, PassOn
<1> QED BY <1>9, <1>10, <1>15 DEF ListRead

(* Whatever references a document has, reading them leaves the answer alone *)
LEMMA ReferencesPass ==
  ASSUME NEW p, NEW v, NEW w, Beyond(p, v), Begins(v, w), p.status = "StartProperty",
         NEW gap \in Gaps, NEW refs \in ReferenceLists
  PROVE  \E q : /\ Passes(p, Named("references") \o gap \o <<":">> \o gap \o refs, q, v, w)
                /\ ListRead(q, v)
<1>1. PICK a : Passes(p, Named("references") \o gap \o <<":">> \o gap, a, v, w) /\ a.status = "Colon"
  BY ReferencesKeyPasses
<1>2. Beyond(a, v)
  BY <1>1 DEF Passes
<1>3. PICK q : Passes(a, refs, q, v, w) /\ ListRead(q, v)
  BY <1>1, <1>2, NoReferencesPass, OneReferencePasses, TwoReferencesPass, OddReferencesPass DEF ReferenceLists
<1> QED BY <1>1, <1>3, PassOn

-----------------------------------------------------------------------------
(* The answer *)

(* The parser is in the answer, and has read text of it *)
In(p, text) ==
  /\ ParserOK(p) /\ p.status = "ValueQuoteOpen" /\ p.key = <<"answer">> /\ p.escaped = FALSE
  /\ p.fields[<<"answer">>].string = TRUE /\ AnswerSoFar(p) = text

LEMMA AnswerField ==
  ASSUME NEW p, NEW text, In(p, text)
  PROVE  <<"answer">> \in DOMAIN p.fields /\ p.fields[p.key].text = text /\ text \in Seq(Token)
<1>1. <<"answer">> \in DOMAIN p.fields
  BY DEF In, ParserOK
<1>2. p.fields[<<"answer">>].text = text
  BY <1>1 DEF In, AnswerSoFar
<1> QED BY <1>1, <1>2 DEF In, ParserOK, FieldsOK

LEMMA AnswerExtended ==
  ASSUME NEW p, NEW text, In(p, text), NEW t \in Seq(Token)
  PROVE  /\ In(Extended(p, t), t)
         /\ \A q : q = Unescaped(Extended(Escaping(p), t)) => In(q, t)
<1>1. <<"answer">> \in DOMAIN p.fields /\ p.key = <<"answer">> /\ FieldsOK(p.fields)
  BY AnswerField DEF In, ParserOK
<1>2. PICK f : f = [p.fields EXCEPT ![p.key].text = t]
  OBVIOUS
<1>3. /\ FieldsOK(f) /\ <<"answer">> \in DOMAIN f /\ f[<<"answer">>].text = t
      /\ f[<<"answer">>].string = p.fields[<<"answer">>].string
  BY <1>1, <1>2 DEF FieldsOK
<1>4. ASSUME NEW q, DOMAIN q = DOMAIN p, q.fields = f, q.status = p.status, q.key = p.key,
             q.text = p.text, q.escaped = FALSE
      PROVE  In(q, t)
  <2>1. ParserOK(q)
    BY <1>1, <1>3, <1>4 DEF In, ParserOK
  <2>2. AnswerSoFar(q) = t
    BY <1>3, <1>4 DEF In, AnswerSoFar
  <2> QED BY <1>3, <1>4, <2>1, <2>2 DEF In
<1>5. DOMAIN p = {"status", "key", "text", "escaped", "fields"} /\ p.escaped = FALSE
  BY DEF In, ParserOK
<1>6. PICK q : q = Extended(p, t)
  OBVIOUS
<1>7. /\ DOMAIN q = DOMAIN p /\ q.fields = f /\ q.status = p.status /\ q.key = p.key
      /\ q.text = p.text /\ q.escaped = FALSE
  BY <1>2, <1>5, <1>6 DEF Extended
<1>8. PICK r : r = Unescaped(Extended(Escaping(p), t))
  OBVIOUS
<1>9. /\ DOMAIN r = DOMAIN p /\ r.fields = f /\ r.status = p.status /\ r.key = p.key
      /\ r.text = p.text /\ r.escaped = FALSE
  BY <1>2, <1>5, <1>8 DEF Extended, Escaping, Unescaped
<1>10. In(q, t) /\ In(r, t)
  BY <1>4, <1>7, <1>9
<1> QED BY <1>6, <1>8, <1>10

(* A piece is one plain character, or a backslash and another character *)
LEMMA WrittenCases ==
  ASSUME NEW piece \in AllPieces
  PROVE  \/ \E c \in Token \ (Openers \cup {Backslash}) : Written(piece) = <<c>> /\ AsStreamed(piece) = <<c>>
         \/ \E d \in Token \ Separators : /\ Written(piece) = <<Backslash, d>>
                           /\ AsStreamed(piece) = IF d = Quote THEN <<Quote>> ELSE <<Backslash, d>>
<1>0. /\ Quote \in Token \ Separators /\ Backslash \in Token \ Separators /\ "n" \in Token \ Separators
      /\ Quote # Backslash /\ "n" # Quote
  BY SeparatorTokens, Tokens, WordTokens
<1>1. /\ "word" \in Token \ (Openers \cup {Backslash}) /\ "n" \in Token \ (Openers \cup {Backslash})
      /\ "," \in Token \ (Openers \cup {Backslash}) /\ "}" \in Token \ (Openers \cup {Backslash})
  BY SeparatorTokens, Tokens, WordTokens
<1>2. CASE piece = "word"
  <2>1. Written(piece) = <<"word">> /\ AsStreamed(piece) = <<"word">>
    BY <1>2 DEF Written, AsStreamed
  <2> QED BY <1>1, <2>1
<1>3. CASE piece = "n"
  <2>1. Written(piece) = <<"n">> /\ AsStreamed(piece) = <<"n">>
    BY <1>3 DEF Written, AsStreamed
  <2> QED BY <1>1, <2>1
<1>4. CASE piece = "comma"
  <2>1. Written(piece) = <<",">> /\ AsStreamed(piece) = <<",">>
    BY <1>4 DEF Written, AsStreamed
  <2> QED BY <1>1, <2>1
<1>5. CASE piece = "brace"
  <2>1. Written(piece) = <<"}">> /\ AsStreamed(piece) = <<"}">>
    BY <1>5 DEF Written, AsStreamed
  <2> QED BY <1>1, <2>1
<1>6. CASE piece = "quote"
  <2>1. Written(piece) = <<Backslash, Quote>> /\ AsStreamed(piece) = <<Quote>>
    BY <1>6 DEF Written, AsStreamed
  <2> QED BY <1>0, <2>1
<1>7. CASE piece = "newline"
  <2>1. Written(piece) = <<Backslash, "n">> /\ AsStreamed(piece) = <<Backslash, "n">>
    BY <1>7 DEF Written, AsStreamed
  <2> QED BY <1>0, <2>1
<1>8. CASE piece = "backslash"
  <2>1. Written(piece) = <<Backslash, Backslash>> /\ AsStreamed(piece) = <<Backslash, Backslash>>
    BY <1>8 DEF Written, AsStreamed
  <2> QED BY <1>0, <2>1
<1> QED BY <1>2, <1>3, <1>4, <1>5, <1>6, <1>7, <1>8 DEF AllPieces

LEMMA WrittenLists ==
  ASSUME NEW piece \in AllPieces
  PROVE  Written(piece) \in Seq(Token) /\ AsStreamed(piece) \in Seq(Token)
<1>0. Backslash \in Token /\ Quote \in Token
  BY Tokens
<1>1. \A c \in Token : <<c>> \in Seq(Token) /\ <<Backslash, c>> \in Seq(Token)
  BY <1>0
<1> QED BY <1>0, <1>1, WrittenCases

(* What comes first in a list that begins w begins w *)
LEMMA BeginsWith ==
  ASSUME NEW a \in Seq(Token), NEW b \in Seq(Token), NEW w, Begins(a \o b, w), Len(w) \in Nat
  PROVE  Begins(a, w)
<1>1. PICK u : u = a \o b
  OBVIOUS
<1>2. PICK n, k : n = Len(a) /\ k = Len(b)
  OBVIOUS
<1>3. n \in Nat /\ k \in Nat
  BY <1>2, LenProperties
<1>4. Len(u) = n + k /\ \A i \in 1..n + k : u[i] = IF i <= n THEN a[i] ELSE b[i - n]
  BY <1>1, <1>2, ConcatProperties
<1>5. Len(u) <= Len(w) /\ \A i \in 1..Len(u) : u[i] = w[i]
  BY <1>1 DEF Begins
<1>6. n <= Len(w)
  BY <1>3, <1>4, <1>5
<1>7. ASSUME NEW i \in 1..n PROVE a[i] = w[i]
  <2>1. i \in 1..n + k /\ i <= n
    BY <1>3
  <2> QED BY <2>1, <1>4, <1>5
<1> QED BY <1>2, <1>6, <1>7 DEF Begins

LEMMA PieceReads ==
  ASSUME NEW p, NEW text, In(p, text), NEW piece \in AllPieces, NEW w, Len(w) \in Nat,
         Begins(text \o AsStreamed(piece), w)
  PROVE  \E q : Leads(p, Written(piece), q, w) /\ In(q, text \o AsStreamed(piece))
<1>0. /\ text \in Seq(Token) /\ AsStreamed(piece) \in Seq(Token) /\ Backslash \in Token /\ Quote \in Token
      /\ p.fields[p.key].text = text
  BY AnswerField, WrittenLists, Tokens
<1>1. Begins(text, w) /\ AnswerSoFar(p) = text
  BY <1>0, BeginsWith DEF In
<1>2. ParserOK(p) /\ p.status = "ValueQuoteOpen" /\ p.escaped = FALSE
  BY DEF In
<1>3. ASSUME NEW c \in Token, c \notin Openers, c # Backslash, Written(piece) = <<c>>, AsStreamed(piece) = <<c>>
      PROVE  \E q : Leads(p, Written(piece), q, w) /\ In(q, text \o AsStreamed(piece))
  <2>1. PICK q : q = AddChar(p, c)
    OBVIOUS
  <2>2. c \notin {Quote, Backslash}
    BY <1>3 DEF Openers
  <2>3. q = AddToString(p, c)
    BY <1>2, <2>1 DEF AddChar
  <2>4. q = Extended(p, Append(text, c))
    BY <1>0, <1>2, <2>2, <2>3, AddToStringCases
  <2>5. Append(text, c) = text \o <<c>> /\ Append(text, c) \in Seq(Token)
    BY <1>0, AppendIsConcat, AppendProperties
  <2>6. In(q, text \o <<c>>)
    BY <2>4, <2>5, AnswerExtended
  <2>7. Begins(AnswerSoFar(q), w)
    BY <1>3, <2>6 DEF In
  <2>8. Leads(p, <<c>>, q, w)
    BY <1>1, <2>1, <2>7, LeadsStep
  <2> QED BY <1>3, <2>6, <2>8
<1>4. ASSUME NEW d \in Token, Written(piece) = <<Backslash, d>>,
             AsStreamed(piece) = IF d = Quote THEN <<Quote>> ELSE <<Backslash, d>>
      PROVE  \E q : Leads(p, Written(piece), q, w) /\ In(q, text \o AsStreamed(piece))
  <2>1. PICK e : e = AddChar(p, Backslash)
    OBVIOUS
  <2>2. e = Escaping(p)
    <3>1. e = AddToString(p, Backslash)
      BY <1>2, <2>1 DEF AddChar
    <3> QED BY <3>1, <1>2, AddToStringCases
  <2>3. /\ ParserOK(e) /\ e.status = "ValueQuoteOpen" /\ e.escaped = TRUE /\ e.fields = p.fields
        /\ e.key = p.key
    <3>1. ParserOK(e)
      BY <1>0, <1>2, <2>1, AddCharKeeps
    <3> QED BY <3>1, <2>2, <1>2 DEF Escaping, ParserOK
  <2>4. AnswerSoFar(e) = text
    BY <1>1, <2>3, AnswerStays
  <2>5. PICK q : q = AddChar(e, d)
    OBVIOUS
  <2>6. q = AddToString(e, d)
    BY <2>3, <2>5 DEF AddChar
  <2>7. e.fields[e.key].text = text
    BY <2>3, <1>0
  <2>8. PICK t : t = text \o AsStreamed(piece)
    OBVIOUS
  <2>9. q = Unescaped(Extended(e, t)) /\ t \in Seq(Token)
    <3>1. CASE d = Quote
      <4>1. q = Unescaped(Extended(e, Append(text, Quote)))
        BY <2>3, <2>6, <2>7, <3>1, AddToStringCases
      <4>2. Append(text, Quote) = text \o <<Quote>> /\ Append(text, Quote) \in Seq(Token)
        BY <1>0, AppendIsConcat, AppendProperties
      <4>3. t = Append(text, Quote)
        BY <1>4, <2>8, <3>1, <4>2
      <4> QED BY <4>1, <4>2, <4>3
    <3>2. CASE d # Quote
      <4>1. q = Unescaped(Extended(e, text \o <<Backslash, d>>))
        BY <2>3, <2>6, <2>7, <3>2, AddToStringCases
      <4>2. t = text \o <<Backslash, d>>
        BY <1>4, <2>8, <3>2
      <4> QED BY <4>1, <4>2, <1>0, StringsGrow
    <3> QED BY <3>1, <3>2
  <2>10. In(q, t)
    BY <2>2, <2>9, AnswerExtended
  <2>11. Begins(AnswerSoFar(q), w)
    BY <2>8, <2>10 DEF In
  <2>12. Leads(p, <<Backslash>>, e, w)
    BY <1>0, <1>1, <2>1, <2>4, LeadsStep
  <2>13. Leads(e, <<d>>, q, w)
    BY <1>1, <2>4, <2>5, <2>11, LeadsStep
  <2>14. <<Backslash>> \o <<d>> = <<Backslash, d>>
    BY <1>0, ShortLists
  <2>15. Leads(p, <<Backslash, d>>, q, w)
    BY <2>12, <2>13, <2>14, LeadsOn
  <2> QED BY <1>4, <2>8, <2>10, <2>15
<1> QED BY <1>3, <1>4, WrittenCases

-----------------------------------------------------------------------------
(* The pieces of the answer, one after the other *)

LEMMA NothingBegins == ASSUME NEW w, Len(w) \in Nat PROVE Begins(<<>>, w)
<1>1. <<>> \in Seq(Token) /\ Len(<<>>) = 0
  OBVIOUS
<1>2. \A i \in 1..Len(<<>>) : <<>>[i] = w[i]
  BY <1>1
<1> QED BY <1>1, <1>2 DEF Begins

LEMMA WholeBegins == ASSUME NEW w \in Seq(Token) PROVE Begins(w, w)
BY LenProperties DEF Begins

LEMMA BeginsOn ==
  ASSUME NEW b \in Seq(Token), NEW a, Begins(a, b), NEW x \in Seq(Token)
  PROVE  Begins(a, b \o x)
<1>1. PICK u : u = b \o x
  OBVIOUS
<1>2. PICK l, n, k : l = Len(a) /\ n = Len(b) /\ k = Len(x)
  OBVIOUS
<1>3. l \in Nat /\ n \in Nat /\ k \in Nat /\ l <= n /\ \A i \in 1..l : a[i] = b[i]
  BY <1>2, LenProperties DEF Begins
<1>4. Len(u) = n + k /\ \A i \in 1..n + k : u[i] = IF i <= n THEN b[i] ELSE x[i - n]
  BY <1>1, <1>2, ConcatProperties
<1>5. ASSUME NEW i \in 1..l PROVE a[i] = u[i]
  <2>1. i \in 1..n + k /\ i <= n
    BY <1>3
  <2> QED BY <2>1, <1>3, <1>4
<1>6. l <= n + k
  BY <1>3
<1> QED BY <1>1, <1>2, <1>4, <1>5, <1>6 DEF Begins

LEMMA SpellJoined ==
  ASSUME NEW pieces \in Seq(AllPieces), NEW n, n = Len(pieces)
  PROVE  /\ \E f \in [0..n -> Seq(Token)] :
               /\ f[0] = <<>> /\ \A i \in 1..n : f[i] = f[i - 1] \o Written(pieces[i])
               /\ Spell(pieces, Written) = f[n]
         /\ \E g \in [0..n -> Seq(Token)] :
               /\ g[0] = <<>> /\ \A i \in 1..n : g[i] = g[i - 1] \o AsStreamed(pieces[i])
               /\ Spell(pieces, AsStreamed) = g[n]
<1>1. n \in Nat /\ \A i \in 1..n : pieces[i] \in AllPieces
  BY LenProperties, ElementOfSeq
<1>2. PICK ws : ws = [i \in 1..n |-> Written(pieces[i])]
  OBVIOUS
<1>3. ws \in [1..n -> Seq(Token)]
  BY <1>1, <1>2, WrittenLists
<1>4. PICK f \in [0..n -> Seq(Token)] : Joined(f, ws, n) /\ FlattenSeq(ws) = f[n]
  BY <1>1, <1>3, FlattenJoined
<1>5. PICK ss : ss = [i \in 1..n |-> AsStreamed(pieces[i])]
  OBVIOUS
<1>6. ss \in [1..n -> Seq(Token)]
  BY <1>1, <1>5, WrittenLists
<1>7. PICK g \in [0..n -> Seq(Token)] : Joined(g, ss, n) /\ FlattenSeq(ss) = g[n]
  BY <1>1, <1>6, FlattenJoined
<1>8. Spell(pieces, Written) = f[n]
  BY <1>2, <1>4 DEF Spell
<1>9. Spell(pieces, AsStreamed) = g[n]
  BY <1>5, <1>7 DEF Spell
<1>10. f[0] = <<>> /\ \A i \in 1..n : f[i] = f[i - 1] \o Written(pieces[i])
  BY <1>2, <1>4 DEF Joined
<1>11. g[0] = <<>> /\ \A i \in 1..n : g[i] = g[i - 1] \o AsStreamed(pieces[i])
  BY <1>5, <1>7 DEF Joined
<1> QED BY <1>8, <1>9, <1>10, <1>11

LEMMA JoinedBegins ==
  ASSUME NEW n \in Nat, NEW g \in [0..n -> Seq(Token)], NEW ss, \A i \in 1..n : ss[i] \in Seq(Token),
         \A i \in 1..n : g[i] = g[i - 1] \o ss[i]
  PROVE  \A k \in 0..n : Begins(g[k], g[n])
<1> DEFINE K == {k \in 0..n : \A i \in 0..k : Begins(g[i], g[k])}
<1>1. 0 \in K
  <2>1. Begins(g[0], g[0])
    BY WholeBegins
  <2>2. \A i \in 0..0 : i = 0
    OBVIOUS
  <2> QED BY <2>1, <2>2
<1>2. ASSUME NEW k \in 0..n, k \in K, k < n PROVE k + 1 \in K
  <2>1. k + 1 \in 1..n /\ k + 1 \in 0..n /\ (k + 1) - 1 = k
    BY <1>2
  <2>2. g[k + 1] = g[k] \o ss[k + 1] /\ g[k] \in Seq(Token) /\ ss[k + 1] \in Seq(Token) /\ g[k + 1] \in Seq(Token)
    BY <2>1
  <2>3. ASSUME NEW i \in 0..k + 1 PROVE Begins(g[i], g[k + 1])
    <3>1. CASE i \in 0..k
      <4>1. Begins(g[i], g[k])
        BY <1>2, <3>1
      <4>2. Begins(g[i], g[k] \o ss[k + 1])
        BY <2>2, <4>1, BeginsOn
      <4> QED BY <2>2, <4>2
    <3>2. CASE i = k + 1
      BY <2>2, <3>2, WholeBegins
    <3> QED BY <3>1, <3>2
  <2> QED BY <2>1, <2>3
<1>3. n \in K
  <2> HIDE DEF K
  <2>1. n \in 0..n
    OBVIOUS
  <2> QED BY <2>1, <1>1, <1>2, UpTo
<1> QED BY <1>3

LEMMA PiecesRead ==
  ASSUME NEW pieces \in Seq(AllPieces), NEW p, In(p, <<>>)
  PROVE  \E q : /\ Leads(p, Spell(pieces, Written), q, Spell(pieces, AsStreamed))
                /\ In(q, Spell(pieces, AsStreamed))
<1>1. PICK n : n = Len(pieces)
  OBVIOUS
<1>2. n \in Nat /\ \A i \in 1..n : pieces[i] \in AllPieces
  BY <1>1, LenProperties, ElementOfSeq
<1>3. PICK f \in [0..n -> Seq(Token)] :
        /\ f[0] = <<>> /\ \A i \in 1..n : f[i] = f[i - 1] \o Written(pieces[i])
        /\ Spell(pieces, Written) = f[n]
  BY <1>1, SpellJoined
<1>4. PICK g \in [0..n -> Seq(Token)] :
        /\ g[0] = <<>> /\ \A i \in 1..n : g[i] = g[i - 1] \o AsStreamed(pieces[i])
        /\ Spell(pieces, AsStreamed) = g[n]
  BY <1>1, SpellJoined
<1>5. PICK w : w = g[n]
  OBVIOUS
<1>6. \A k \in 0..n : Begins(g[k], w)
  <2>1. PICK ss : ss = [i \in 1..n |-> AsStreamed(pieces[i])]
    OBVIOUS
  <2>2. \A i \in 1..n : ss[i] \in Seq(Token)
    BY <1>2, <2>1, WrittenLists
  <2>3. \A i \in 1..n : g[i] = g[i - 1] \o ss[i]
    BY <1>4, <2>1
  <2> QED BY <1>2, <1>5, <2>2, <2>3, JoinedBegins
<1>7. Len(w) \in Nat
  BY <1>2, <1>5, LenProperties
<1> DEFINE K == {k \in 0..n : \E q : Leads(p, f[k], q, w) /\ In(q, g[k])}
<1>8. 0 \in K
  <2>1. Leads(p, <<>>, p, w)
    <3>1. AnswerSoFar(p) = <<>>
      BY DEF In
    <3> QED BY <3>1, <1>7, NothingBegins, LeadsNowhere
  <2>2. 0 \in 0..n
    BY <1>2
  <2> QED BY <1>3, <1>4, <2>1, <2>2
<1>9. ASSUME NEW k \in 0..n, k \in K, k < n PROVE k + 1 \in K
  <2>1. PICK q : Leads(p, f[k], q, w) /\ In(q, g[k])
    BY <1>9
  <2>2. k + 1 \in 1..n /\ k + 1 \in 0..n /\ (k + 1) - 1 = k
    BY <1>2, <1>9
  <2>3. PICK piece : piece = pieces[k + 1]
    OBVIOUS
  <2>4. /\ piece \in AllPieces /\ f[k + 1] = f[k] \o Written(piece)
        /\ g[k + 1] = g[k] \o AsStreamed(piece)
    BY <1>2, <1>3, <1>4, <2>2, <2>3
  <2>5. Begins(g[k] \o AsStreamed(piece), w)
    BY <1>6, <2>2, <2>4
  <2>6. PICK r : Leads(q, Written(piece), r, w) /\ In(r, g[k] \o AsStreamed(piece))
    BY <1>7, <2>1, <2>4, <2>5, PieceReads
  <2>7. Leads(p, f[k + 1], r, w)
    BY <2>1, <2>4, <2>6, LeadsOn
  <2> QED BY <2>2, <2>4, <2>6, <2>7
<1>10. n \in K
  <2> HIDE DEF K
  <2>1. n \in 0..n
    BY <1>2
  <2> QED BY <2>1, <1>2, <1>8, <1>9, UpTo
<1> QED BY <1>3, <1>4, <1>5, <1>10

(* The key of the answer, and the quote its text starts with *)
LEMMA AnswerOpens ==
  ASSUME NEW p, Beyond(p, <<>>), p.status = "StartProperty", NEW w, Len(w) \in Nat, NEW gap \in Gaps
  PROVE  \E q : Leads(p, Named("answer") \o gap \o <<":">> \o gap \o <<Quote>>, q, w) /\ In(q, <<>>)
<1>0. /\ Quote \in Token /\ "answer" \in Token /\ ":" \in Token /\ Quote # Backslash /\ Quote # Blank1
      /\ "answer" # Quote /\ "answer" # Backslash
  BY Tokens, WordTokens
<1>1. Begins(<<>>, w)
  BY NothingBegins
<1>2. PICK a : a = AddChar(p, Quote)
  OBVIOUS
<1>3. PICK b : b = AddChar(a, "answer")
  OBVIOUS
<1>4. PICK c : c = AddChar(b, Quote)
  OBVIOUS
<1>5. PICK d : d = AddChar(c, ":")
  OBVIOUS
<1>6. PICK q : q = AddChar(d, Quote)
  OBVIOUS
<1>7. /\ ParserOK(p) /\ ParserOK(a) /\ ParserOK(b) /\ ParserOK(c) /\ ParserOK(d) /\ ParserOK(q)
      /\ p.status = "StartProperty"
  BY <1>0, <1>2, <1>3, <1>4, <1>5, <1>6, AddCharKeeps DEF Beyond
<1>8. a.status = "KeyQuoteOpen" /\ a.text = <<>> /\ a.escaped = FALSE /\ a.fields = p.fields
  BY ONLY <1>0, <1>2, <1>7, PropertyStep
<1>9. b.status = "KeyQuoteOpen" /\ b.text = <<"answer">> /\ b.escaped = FALSE /\ b.fields = p.fields
  <2>1. /\ b.status = "KeyQuoteOpen" /\ b.text = Append(a.text, "answer")
        /\ b.escaped = FALSE /\ b.fields = a.fields
    BY ONLY <1>0, <1>3, <1>7, <1>8, KeyStep
  <2>2. Append(<<>>, "answer") = <<"answer">>
    OBVIOUS
  <2> QED BY <1>8, <2>1, <2>2
<1>10. /\ c.status = "KeyQuoteClose" /\ c.key = <<"answer">>
       /\ c.fields = Insert(p.fields, <<"answer">>, NullField)
  <2>1. c.status = "KeyQuoteClose" /\ c.key = b.text /\ c.fields = Insert(b.fields, b.text, NullField)
    BY ONLY <1>0, <1>4, <1>7, <1>9, KeyStep
  <2> QED BY <1>9, <2>1
<1>11. d.status = "Colon" /\ d.key = <<"answer">> /\ d.fields = c.fields
  <2>1. d.status = "Colon" /\ d.key = c.key /\ d.fields = c.fields
    BY ONLY <1>0, <1>5, <1>7, <1>10, KeyEndStep
  <2> QED BY <1>10, <2>1
<1>12. /\ q.status = "ValueQuoteOpen" /\ q.escaped = FALSE /\ q.key = <<"answer">>
       /\ q.fields = Insert(d.fields, <<"answer">>, Field(TRUE, <<>>))
  <2>1. /\ q.status = "ValueQuoteOpen" /\ q.escaped = FALSE /\ q.key = d.key
        /\ q.fields = Insert(d.fields, d.key, Field(TRUE, <<>>))
    BY ONLY <1>0, <1>6, <1>7, <1>11, ColonStep
  <2> QED BY <1>11, <2>1
<1>13. AnswerSoFar(p) = <<>> /\ AnswerSoFar(a) = <<>> /\ AnswerSoFar(b) = <<>>
  BY <1>8, <1>9, AnswerStays DEF Beyond
<1>14. AnswerSoFar(c) = <<>> /\ AnswerSoFar(d) = <<>>
  <2>1. c.fields[<<"answer">>].string = FALSE
    BY <1>10 DEF Insert, NullField, Field
  <2> QED BY <2>1, <1>11 DEF AnswerSoFar
<1>15. In(q, <<>>)
  <2>1. /\ <<"answer">> \in DOMAIN q.fields /\ q.fields[<<"answer">>].string = TRUE
        /\ q.fields[<<"answer">>].text = <<>>
    BY <1>12 DEF Insert, Field
  <2> QED BY <2>1, <1>7, <1>12 DEF In, AnswerSoFar
<1>16. Leads(p, <<Quote>>, a, w) /\ Leads(a, <<"answer">>, b, w) /\ Leads(b, <<Quote>>, c, w)
  BY <1>0, <1>1, <1>2, <1>3, <1>4, <1>13, <1>14, LeadsStep
<1>17. Leads(p, Named("answer"), c, w)
  <2>1. Leads(p, <<Quote>> \o <<"answer">>, b, w)
    BY <1>16, LeadsOn
  <2>2. Leads(p, <<Quote>> \o <<"answer">> \o <<Quote>>, c, w)
    BY <2>1, <1>16, LeadsOn
  <2>3. Quote \in Token /\ "answer" \in Token
    BY <1>0
  <2>4. <<Quote>> \o <<"answer">> = <<Quote, "answer">> /\ <<Quote, "answer">> \o <<Quote>> = <<Quote, "answer", Quote>>
    BY ONLY <2>3, ShortLists
  <2> QED BY <2>2, <2>4 DEF Named
<1>18. Leads(c, gap, c, w) /\ Leads(d, gap, d, w)
  <2>1. AddChar(c, Blank1) = c /\ AddChar(d, Blank1) = d
    BY <1>7, <1>10, <1>11, BlanksAreSkipped
  <2> QED BY <2>1, <1>1, <1>14, GapLeads
<1>19. Leads(c, <<":">>, d, w)
  BY <1>0, <1>1, <1>5, <1>14, LeadsStep
<1>20. Leads(d, <<Quote>>, q, w)
  <2>1. AnswerSoFar(q) = <<>>
    BY <1>15 DEF In
  <2> QED BY <2>1, <1>0, <1>1, <1>6, <1>14, LeadsStep
<1>21. Leads(p, Named("answer") \o gap, c, w)
  BY <1>17, <1>18, LeadsOn
<1>22. Leads(p, Named("answer") \o gap \o <<":">>, d, w)
  BY <1>19, <1>21, LeadsOn
<1>23. Leads(p, Named("answer") \o gap \o <<":">> \o gap, d, w)
  BY <1>18, <1>22, LeadsOn
<1>24. Leads(p, Named("answer") \o gap \o <<":">> \o gap \o <<Quote>>, q, w)
  BY <1>20, <1>23, LeadsOn
<1> QED BY <1>15, <1>24

(* The member of the document that holds the answer *)
TextMember(pieces, gap) ==
  Named("answer") \o gap \o <<":">> \o gap \o <<Quote>> \o Spell(pieces, Written) \o <<Quote>>

LEMMA WholeIsList ==
  ASSUME NEW pieces \in Seq(AllPieces)
  PROVE  Spell(pieces, AsStreamed) \in Seq(Token) /\ Len(Spell(pieces, AsStreamed)) \in Nat
<1>1. PICK n : n = Len(pieces)
  OBVIOUS
<1>2. PICK g \in [0..n -> Seq(Token)] :
        /\ g[0] = <<>> /\ \A i \in 1..n : g[i] = g[i - 1] \o AsStreamed(pieces[i])
        /\ Spell(pieces, AsStreamed) = g[n]
  BY <1>1, SpellJoined
<1>3. n \in Nat
  BY <1>1, LenProperties
<1> QED BY <1>2, <1>3, LenProperties

LEMMA TextReads ==
  ASSUME NEW pieces \in Seq(AllPieces), NEW p, Beyond(p, <<>>), p.status = "StartProperty", NEW gap \in Gaps
  PROVE  \E q : /\ Leads(p, TextMember(pieces, gap), q, Spell(pieces, AsStreamed))
                /\ Beyond(q, Spell(pieces, AsStreamed)) /\ q.status = "ValueQuoteClose"
<1>1. PICK w : w = Spell(pieces, AsStreamed)
  OBVIOUS
<1>2. w \in Seq(Token) /\ Len(w) \in Nat /\ Begins(w, w)
  BY <1>1, WholeIsList, WholeBegins
<1>3. PICK a : Leads(p, Named("answer") \o gap \o <<":">> \o gap \o <<Quote>>, a, w) /\ In(a, <<>>)
  BY <1>2, AnswerOpens
<1>4. PICK b : Leads(a, Spell(pieces, Written), b, w) /\ In(b, w)
  BY <1>1, <1>3, PiecesRead
<1>5. PICK q : q = AddChar(b, Quote)
  OBVIOUS
<1>6. Quote \in Token /\ ParserOK(b) /\ b.status = "ValueQuoteOpen" /\ b.escaped = FALSE /\ AnswerSoFar(b) = w
  BY <1>4, Tokens DEF In
<1>7. q.status = "ValueQuoteClose" /\ q.fields = b.fields
  BY ONLY <1>5, <1>6, StringStep
<1>8. AnswerSoFar(q) = w /\ ParserOK(q)
  BY <1>5, <1>6, <1>7, AnswerStays, AddCharKeeps
<1>9. Beyond(q, w)
  BY <1>7, <1>8 DEF Beyond, Elsewhere
<1>10. Leads(b, <<Quote>>, q, w)
  BY <1>2, <1>5, <1>6, <1>8, LeadsStep
<1>11. Leads(p, Named("answer") \o gap \o <<":">> \o gap \o <<Quote>> \o Spell(pieces, Written), b, w)
  BY <1>3, <1>4, LeadsOn
<1>12. Leads(p, TextMember(pieces, gap), q, w)
  BY <1>10, <1>11, LeadsOn DEF TextMember
<1> QED BY <1>1, <1>7, <1>9, <1>12

-----------------------------------------------------------------------------
(* The answer after references that are never a value *)

LEMMA PieceDrifts ==
  ASSUME NEW p, NEW v, NEW w, Drift(p, v), Begins(v, w), NEW piece \in AllPieces
  PROVE  \E q : Passes(p, Written(piece), q, v, w) /\ Drift(q, v)
<1>1. ASSUME NEW c \in Token, c \notin Openers, Written(piece) = <<c>>
      PROVE  \E q : Passes(p, Written(piece), q, v, w) /\ Drift(q, v)
  BY <1>1, DriftPasses
<1>2. ASSUME NEW d \in Token, Written(piece) = <<Backslash, d>>
      PROVE  \E q : Passes(p, Written(piece), q, v, w) /\ Drift(q, v)
  <2>1. Backslash \in Token /\ Backslash \notin Separators /\ Backslash \notin Openers
    BY SeparatorTokens
  <2>2. PICK a : Passes(p, <<Backslash>>, a, v, w) /\ Lost(a, v)
    BY <2>1, DriftPasses
  <2>3. PICK q : Passes(a, <<d>>, q, v, w) /\ Drift(q, v)
    BY <2>2, DriftPasses DEF Lost
  <2>4. <<Backslash>> \o <<d>> = <<Backslash, d>>
    BY <2>1, ShortLists
  <2>5. Passes(p, <<Backslash, d>>, q, v, w)
    BY <2>2, <2>3, <2>4, PassOn
  <2> QED BY <1>2, <2>3, <2>5
<1> QED BY <1>1, <1>2, WrittenCases

LEMMA PiecesDrift ==
  ASSUME NEW pieces \in Seq(AllPieces), NEW p, NEW v, NEW w, Drift(p, v), Begins(v, w)
  PROVE  \E q : Passes(p, Spell(pieces, Written), q, v, w) /\ Drift(q, v)
<1>1. PICK n : n = Len(pieces)
  OBVIOUS
<1>2. n \in Nat /\ \A i \in 1..n : pieces[i] \in AllPieces
  BY <1>1, LenProperties, ElementOfSeq
<1>3. PICK f \in [0..n -> Seq(Token)] :
        /\ f[0] = <<>> /\ \A i \in 1..n : f[i] = f[i - 1] \o Written(pieces[i])
        /\ Spell(pieces, Written) = f[n]
  BY <1>1, SpellJoined
<1> DEFINE K == {k \in 0..n : \E q : Passes(p, f[k], q, v, w) /\ Drift(q, v)}
<1>4. 0 \in K
  <2>1. Passes(p, <<>>, p, v, w)
    BY PassNone DEF Drift
  <2>2. 0 \in 0..n
    BY <1>2
  <2> QED BY <1>3, <2>1, <2>2
<1>5. ASSUME NEW k \in 0..n, k \in K, k < n PROVE k + 1 \in K
  <2>1. PICK q : Passes(p, f[k], q, v, w) /\ Drift(q, v)
    BY <1>5
  <2>2. k + 1 \in 1..n /\ k + 1 \in 0..n /\ (k + 1) - 1 = k
    BY <1>2, <1>5
  <2>3. PICK piece : piece = pieces[k + 1]
    OBVIOUS
  <2>4. piece \in AllPieces /\ f[k + 1] = f[k] \o Written(piece)
    BY <1>2, <1>3, <2>2, <2>3
  <2>5. PICK r : Passes(q, Written(piece), r, v, w) /\ Drift(r, v)
    BY <2>1, <2>4, PieceDrifts
  <2>6. Passes(p, f[k + 1], r, v, w)
    BY <2>1, <2>4, <2>5, PassOn
  <2> QED BY <2>2, <2>5, <2>6
<1>6. n \in K
  <2> HIDE DEF K
  <2>1. n \in 0..n
    BY <1>2
  <2> QED BY <2>1, <1>2, <1>4, <1>5, UpTo
<1> QED BY <1>3, <1>6

LEMMA AnswerKeyDrifts ==
  ASSUME NEW p, NEW v, NEW w, Drift(p, v), p.text = <<>>, Begins(v, w)
  PROVE  \E q : Passes(p, Named("answer") \o <<>> \o <<":">>, q, v, w) /\ Lost(q, v)
<1>0. /\ Quote \in Token /\ "answer" \in Token /\ ":" \in Token
      /\ Quote \notin Separators /\ "answer" \notin Separators /\ ":" \notin Separators
  BY SeparatorTokens
<1>1. PICK a : Passes(p, <<Quote>>, a, v, w) /\ a.status = "ValueScalar" /\ a.text = Append(p.text, Quote)
  BY <1>0, ScalarPasses DEF Drift
<1>2. PICK b : Passes(a, <<"answer">>, b, v, w) /\ b.status = "ValueScalar" /\ b.text = Append(a.text, "answer")
  <2>1. Beyond(a, v)
    BY <1>1 DEF Passes
  <2> QED BY <2>1, <1>0, <1>1, ScalarPasses
<1>3. PICK c : Passes(b, <<Quote>>, c, v, w) /\ c.status = "ValueScalar" /\ c.text = Append(b.text, Quote)
  <2>1. Beyond(b, v)
    BY <1>2 DEF Passes
  <2> QED BY <2>1, <1>0, <1>2, ScalarPasses
<1>4. PICK q : Passes(c, <<":">>, q, v, w) /\ q.status = "ValueScalar" /\ q.text = Append(c.text, ":")
  <2>1. Beyond(c, v)
    BY <1>3 DEF Passes
  <2> QED BY <2>1, <1>0, <1>3, ScalarPasses
<1>5. Quote \in Token /\ "answer" \in Token /\ ":" \in Token
  BY <1>0
<1>6. /\ <<Quote>> \o <<"answer">> = <<Quote, "answer">>
      /\ <<Quote, "answer">> \o <<Quote>> = <<Quote, "answer", Quote>>
      /\ <<Quote, "answer", Quote>> \o <<":">> = <<Quote, "answer", Quote, ":">>
      /\ Append(<<Quote>>, "answer") = <<Quote, "answer">>
      /\ Append(<<Quote, "answer">>, Quote) = <<Quote, "answer", Quote>>
      /\ Append(<<Quote, "answer", Quote>>, ":") = <<Quote, "answer", Quote, ":">>
  BY ONLY <1>5, ShortLists
<1>7. Append(<<>>, Quote) = <<Quote>>
  OBVIOUS
<1>8. a.text = <<Quote>>
  BY <1>1, <1>7
<1>9. b.text = <<Quote, "answer">>
  BY ONLY <1>2, <1>6, <1>8
<1>10. c.text = <<Quote, "answer", Quote>>
  BY ONLY <1>3, <1>6, <1>9
<1>11. q.text = <<Quote, "answer", Quote, ":">>
  BY ONLY <1>4, <1>6, <1>10
<1>12. Hopeless(q.text)
  BY <1>11, HopelessStarts
<1>13. Lost(q, v)
  BY <1>4, <1>12 DEF Lost, Drift, Passes, Hopeless
<1>14. Passes(p, Named("answer"), c, v, w)
  <2>1. Passes(p, <<Quote>> \o <<"answer">>, b, v, w)
    BY <1>1, <1>2, PassOn
  <2>2. Passes(p, <<Quote>> \o <<"answer">> \o <<Quote>>, c, v, w)
    BY <2>1, <1>3, PassOn
  <2> QED BY <1>6, <2>2 DEF Named
<1>15. Passes(c, <<>>, c, v, w)
  BY <1>3, PassNone DEF Passes
<1>16. Passes(p, Named("answer") \o <<>>, c, v, w)
  BY <1>14, <1>15, PassOn
<1>17. Passes(p, Named("answer") \o <<>> \o <<":">>, q, v, w)
  BY <1>4, <1>16, PassOn
<1> QED BY <1>13, <1>17

LEMMA TextDrifts ==
  ASSUME NEW pieces \in Seq(AllPieces), NEW p, NEW v, NEW w, Drift(p, v), p.text = <<>>, Begins(v, w)
  PROVE  \E q : Passes(p, TextMember(pieces, <<>>), q, v, w) /\ q.status = "ValueScalar"
<1>0. Quote \in Token /\ Quote \notin Separators
  BY SeparatorTokens
<1>1. PICK a : Passes(p, Named("answer") \o <<>> \o <<":">>, a, v, w) /\ Lost(a, v)
  BY AnswerKeyDrifts
<1>2. Passes(a, <<>>, a, v, w)
  BY <1>1, PassNone DEF Passes
<1>3. PICK b : Passes(a, <<Quote>>, b, v, w) /\ Drift(b, v)
  BY <1>0, <1>1, DriftPasses DEF Lost
<1>4. PICK c : Passes(b, Spell(pieces, Written), c, v, w) /\ Drift(c, v)
  BY <1>3, PiecesDrift
<1>5. PICK q : Passes(c, <<Quote>>, q, v, w) /\ q.status = "ValueScalar"
  BY <1>0, <1>4, ScalarPasses DEF Drift
<1>6. Passes(p, Named("answer") \o <<>> \o <<":">> \o <<>>, a, v, w)
  BY <1>1, <1>2, PassOn
<1>7. Passes(p, Named("answer") \o <<>> \o <<":">> \o <<>> \o <<Quote>>, b, v, w)
  BY <1>3, <1>6, PassOn
<1>8. Passes(p, Named("answer") \o <<>> \o <<":">> \o <<>> \o <<Quote>> \o Spell(pieces, Written), c, v, w)
  BY <1>4, <1>7, PassOn
<1>9. Passes(p, TextMember(pieces, <<>>), q, v, w)
  BY <1>5, <1>8, PassOn DEF TextMember
<1> QED BY <1>5, <1>9

-----------------------------------------------------------------------------
(* The document *)

ListMember(refs, gap) == Named("references") \o gap \o <<":">> \o gap \o refs

LEMMA TextMemberIsList ==
  ASSUME NEW pieces \in Seq(AllPieces), NEW gap \in Gaps
  PROVE  TextMember(pieces, gap) \in Seq(Token)
<1>1. PICK p : p = [NewParser EXCEPT !.status = "StartProperty"]
  OBVIOUS
<1>2. Beyond(p, <<>>) /\ p.status = "StartProperty"
  <2>1. ParserOK(p)
    BY <1>1, NewParserOK DEF ParserOK, NewParser, Statuses
  <2>2. AnswerSoFar(p) = <<>>
    BY <1>1 DEF AnswerSoFar, NewParser, NoFields
  <2> QED BY <1>1, <2>1, <2>2 DEF Beyond, Elsewhere, NewParser
<1>3. PICK q : Leads(p, TextMember(pieces, gap), q, Spell(pieces, AsStreamed))
  BY <1>2, TextReads
<1> QED BY <1>3 DEF Leads

(* The answer and then the references: all of the answer comes through *)
LEMMA AnswerFirst ==
  ASSUME NEW pieces \in Seq(AllPieces), NEW p, Beyond(p, <<>>), p.status = "StartProperty",
         NEW gap \in Gaps, NEW refs \in ReferenceLists, NEW w, w = Spell(pieces, AsStreamed)
  PROVE  \E q : /\ Leads(p, TextMember(pieces, gap) \o gap \o <<",">> \o gap \o ListMember(refs, gap), q, w)
                /\ ListRead(q, w)
<1>0. /\ "," \in Token /\ w \in Seq(Token) /\ Begins(w, w)
  BY Tokens, WordTokens, WholeIsList, WholeBegins
<1>1. PICK a : Leads(p, TextMember(pieces, gap), a, w) /\ Beyond(a, w) /\ a.status = "ValueQuoteClose"
  BY TextReads
<1>2. Passes(a, gap, a, w, w)
  BY <1>0, <1>1, GapPasses
<1>3. PICK b : b = AddChar(a, ",")
  OBVIOUS
<1>4. ParserOK(a) /\ Free(a, ",")
  BY <1>1 DEF Beyond, Free
<1>5. b.status = "StartProperty"
  BY ONLY <1>0, <1>1, <1>3, <1>4, StringEndStep
<1>6. Passes(a, <<",">>, b, w, w)
  BY <1>0, <1>1, <1>3, <1>4, PassOne
<1>7. Passes(b, gap, b, w, w)
  BY <1>0, <1>5, <1>6, GapPasses DEF Passes
<1>8. PICK q : Passes(b, ListMember(refs, gap), q, w, w) /\ ListRead(q, w)
  BY <1>0, <1>5, <1>6, ReferencesPass DEF ListMember, Passes
<1>9. Leads(p, TextMember(pieces, gap) \o gap, a, w)
  BY <1>1, <1>2, LeadsOn DEF Passes
<1>10. Leads(p, TextMember(pieces, gap) \o gap \o <<",">>, b, w)
  BY <1>6, <1>9, LeadsOn DEF Passes
<1>11. Leads(p, TextMember(pieces, gap) \o gap \o <<",">> \o gap, b, w)
  BY <1>7, <1>10, LeadsOn DEF Passes
<1>12. Leads(p, TextMember(pieces, gap) \o gap \o <<",">> \o gap \o ListMember(refs, gap), q, w)
  BY <1>8, <1>11, LeadsOn DEF Passes
<1> QED BY <1>8, <1>12

(* The references and then the answer: it may be lost, never garbled *)
LEMMA ReferencesFirst ==
  ASSUME NEW pieces \in Seq(AllPieces), NEW p, Beyond(p, <<>>), p.status = "StartProperty",
         NEW refs \in ReferenceLists, NEW w, w = Spell(pieces, AsStreamed)
  PROVE  \E q, v : /\ Leads(p, ListMember(refs, <<>>) \o <<",">> \o TextMember(pieces, <<>>), q, w)
                   /\ Beyond(q, v) /\ Begins(v, w)
                   /\ q.status \in {"ValueScalar", "ValueQuoteClose", "Closed"}
<1>0. /\ "," \in Token /\ "," \in Separators /\ w \in Seq(Token) /\ Begins(<<>>, w) /\ Begins(w, w)
      /\ <<>> \in Gaps
  BY SeparatorTokens, WholeIsList, NothingBegins, WholeBegins DEF Gaps
<1>1. PICK a : Passes(p, ListMember(refs, <<>>), a, <<>>, w) /\ ListRead(a, <<>>)
  BY <1>0, ReferencesPass DEF ListMember
<1>2. Leads(p, ListMember(refs, <<>>), a, w) /\ Beyond(a, <<>>) /\ ParserOK(a)
  BY <1>1 DEF Passes, Beyond
<1>3. CASE a.status = "Closed"
  <2>1. TextMember(pieces, <<>>) \in Seq(Token)
    BY <1>0, TextMemberIsList
  <2>2. Begins(AnswerSoFar(a), w)
    BY <1>0, <1>2 DEF Beyond
  <2>3. <<",">> \in Seq(Token)
    <3>1. \A c \in Token : <<c>> \in Seq(Token)
      OBVIOUS
    <3> QED BY <1>0, <3>1
  <2>4. Leads(a, <<",">>, a, w) /\ Leads(a, TextMember(pieces, <<>>), a, w)
    <3>1. a.status \in {"TopLevel", "Closed"}
      BY <1>3
    <3>2. \A s \in Seq(Token) : Leads(a, s, a, w)
      <4>1. ASSUME NEW s \in Seq(Token) PROVE Leads(a, s, a, w)
        BY ONLY <3>1, <2>2, LeadsStill
      <4> QED BY <4>1
    <3> QED BY <3>2, <2>1, <2>3
  <2>5. Leads(p, ListMember(refs, <<>>) \o <<",">>, a, w)
    BY <1>2, <2>4, LeadsOn
  <2>6. Leads(p, ListMember(refs, <<>>) \o <<",">> \o TextMember(pieces, <<>>), a, w)
    BY <2>4, <2>5, LeadsOn
  <2> QED BY <1>0, <1>2, <1>3, <2>6
<1>4. CASE Drift(a, <<>>)
  <2>1. PICK b : Passes(a, <<",">>, b, <<>>, w) /\ Drift(b, <<>>) /\ b.text = <<>>
    <3>1. "," \notin Openers
      BY SeparatorTokens
    <3> QED BY <1>0, <1>4, <3>1, DriftPasses
  <2>2. PICK q : Passes(b, TextMember(pieces, <<>>), q, <<>>, w) /\ q.status = "ValueScalar"
    BY <1>0, <2>1, TextDrifts
  <2>3. Leads(p, ListMember(refs, <<>>) \o <<",">>, b, w)
    BY <1>2, <2>1, LeadsOn DEF Passes
  <2>4. Leads(p, ListMember(refs, <<>>) \o <<",">> \o TextMember(pieces, <<>>), q, w)
    BY <2>2, <2>3, LeadsOn DEF Passes
  <2> QED BY <1>0, <2>2, <2>4 DEF Passes
<1>5. CASE a.status = "ValueScalar" /\ a.text = <<"[", "]">>
  <2>1. PICK b : b = AddChar(a, ",")
    OBVIOUS
  <2>2. IsJson(a.text) /\ "," \in {",", "}"} /\ Free(a, ",")
    BY <1>5, NoReferencesIsJson DEF Free
  <2>3. b.status = "StartProperty"
    BY ONLY <1>0, <1>2, <1>5, <2>1, <2>2, ScalarStep
  <2>4. Passes(a, <<",">>, b, <<>>, w)
    BY <1>0, <1>2, <2>1, <2>2, PassOne
  <2>5. PICK q : Leads(b, TextMember(pieces, <<>>), q, w) /\ Beyond(q, w) /\ q.status = "ValueQuoteClose"
    BY <1>0, <2>3, <2>4, TextReads DEF Passes
  <2>6. Leads(p, ListMember(refs, <<>>) \o <<",">>, b, w)
    BY <1>2, <2>4, LeadsOn DEF Passes
  <2>7. Leads(p, ListMember(refs, <<>>) \o <<",">> \o TextMember(pieces, <<>>), q, w)
    BY <2>5, <2>6, LeadsOn
  <2> QED BY <1>0, <2>5, <2>7
<1> QED BY <1>1, <1>3, <1>4, <1>5 DEF ListRead

-----------------------------------------------------------------------------
(* All of the document *)

Object(members, gap) == <<"{">> \o gap \o members \o gap \o <<"}">>
InOrder(pieces, refs, gap) == TextMember(pieces, gap) \o gap \o <<",">> \o gap \o ListMember(refs, gap)
Reversed(pieces, refs) == ListMember(refs, <<>>) \o <<",">> \o TextMember(pieces, <<>>)

LEMMA DocumentCases ==
  ASSUME NEW pieces, NEW refs, NEW layout \in Layouts
  PROVE  /\ layout = "schema" => Documents(pieces, refs, layout) = Object(InOrder(pieces, refs, <<>>), <<>>)
         /\ layout = "spaced" =>
              Documents(pieces, refs, layout) = Object(InOrder(pieces, refs, <<Blank1>>), <<Blank1>>)
         /\ layout = "referencesFirst" => Documents(pieces, refs, layout) = Object(Reversed(pieces, refs), <<>>)
         /\ layout = "introduced" =>
              Documents(pieces, refs, layout) = <<"word">> \o Object(InOrder(pieces, refs, <<>>), <<>>)
         /\ layout = "fenced" =>
              Documents(pieces, refs, layout) = <<"json">> \o Object(InOrder(pieces, refs, <<>>), <<>>)
<1> USE DEF Object, InOrder, Reversed, TextMember, ListMember
<1>1. CASE layout = "schema"
  BY <1>1, Zenon DEF Documents
<1>2. CASE layout = "spaced"
  BY <1>2, Zenon DEF Documents
<1>3. CASE layout = "referencesFirst"
  BY <1>3, Zenon DEF Documents
<1>4. CASE layout = "introduced"
  BY <1>4, Zenon DEF Documents
<1>5. CASE layout = "fenced"
  BY <1>5, Zenon DEF Documents
<1> QED BY <1>1, <1>2, <1>3, <1>4, <1>5 DEF Layouts

(* The members may be read to their end, and the answer is whole if it has to be *)
MembersRead(members, w, first) ==
  \A a : Beyond(a, <<>>) /\ a.status = "StartProperty" =>
    \E q, v : /\ Leads(a, members, q, w) /\ Beyond(q, v) /\ Begins(v, w)
              /\ q.status \in {"ValueScalar", "ValueQuoteClose", "Closed"}
              /\ first = "answer" => v = w

LEMMA InOrderRead ==
  ASSUME NEW pieces \in Seq(AllPieces), NEW refs \in ReferenceLists, NEW gap \in Gaps
  PROVE  MembersRead(InOrder(pieces, refs, gap), Spell(pieces, AsStreamed), "answer")
<1>1. PICK w : w = Spell(pieces, AsStreamed)
  OBVIOUS
<1>2. Begins(w, w)
  BY <1>1, WholeIsList, WholeBegins
<1>3. ASSUME NEW a, Beyond(a, <<>>), a.status = "StartProperty"
      PROVE  \E q, v : /\ Leads(a, InOrder(pieces, refs, gap), q, w) /\ Beyond(q, v) /\ Begins(v, w)
                       /\ q.status \in {"ValueScalar", "ValueQuoteClose", "Closed"}
                       /\ v = w
  <2>1. PICK q : Leads(a, InOrder(pieces, refs, gap), q, w) /\ ListRead(q, w)
    BY <1>1, <1>3, AnswerFirst DEF InOrder
  <2> QED BY <2>1, <1>2 DEF ListRead, Drift
<1> QED BY <1>1, <1>3 DEF MembersRead

LEMMA ReversedRead ==
  ASSUME NEW pieces \in Seq(AllPieces), NEW refs \in ReferenceLists
  PROVE  MembersRead(Reversed(pieces, refs), Spell(pieces, AsStreamed), "references")
<1>1. PICK w : w = Spell(pieces, AsStreamed)
  OBVIOUS
<1>2. ASSUME NEW a, Beyond(a, <<>>), a.status = "StartProperty"
      PROVE  \E q, v : /\ Leads(a, Reversed(pieces, refs), q, w) /\ Beyond(q, v) /\ Begins(v, w)
                       /\ q.status \in {"ValueScalar", "ValueQuoteClose", "Closed"}
  BY <1>1, <1>2, ReferencesFirst DEF Reversed
<1> QED BY <1>1, <1>2 DEF MembersRead

LEMMA ObjectReads ==
  ASSUME NEW p, Beyond(p, <<>>), p.status = "Ready", NEW w, Len(w) \in Nat, NEW gap \in Gaps,
         NEW members, NEW first, MembersRead(members, w, first)
  PROVE  \E q : /\ Leads(p, Object(members, gap), q, w)
                /\ first = "answer" => AnswerSoFar(q) = w
<1>0. "{" \in Token /\ "}" \in Token /\ Blank1 \in Token /\ Blank1 \notin Separators /\ Begins(<<>>, w)
        /\ "}" \in Separators
  BY Tokens, WordTokens, NothingBegins DEF Separators
<1>1. PICK a : a = AddChar(p, "{")
  OBVIOUS
<1>2. ParserOK(p) /\ Free(p, "{") /\ p.status = "Ready"
  BY DEF Beyond, Free
<1>3. a.status = "StartProperty"
  BY ONLY <1>0, <1>1, <1>2, ReadyStep
<1>4. Passes(p, <<"{">>, a, <<>>, w)
  BY <1>0, <1>1, <1>2, PassOne
<1>5. Beyond(a, <<>>)
  BY <1>4 DEF Passes
<1>6. Passes(a, gap, a, <<>>, w)
  BY <1>0, <1>3, <1>5, GapPasses
<1>7. PICK b, v : /\ Leads(a, members, b, w) /\ Beyond(b, v) /\ Begins(v, w)
                  /\ b.status \in {"ValueScalar", "ValueQuoteClose", "Closed"}
                  /\ first = "answer" => v = w
  BY <1>3, <1>5 DEF MembersRead
<1>8. PICK c : Passes(b, gap, c, v, w) /\ c.status \in {"ValueScalar", "ValueQuoteClose", "Closed"}
  <2>1. CASE b.status \in {"ValueQuoteClose", "Closed"}
    BY <1>7, <2>1, GapPasses
  <2>2. CASE b.status = "ValueScalar" /\ gap = <<>>
    BY <1>7, <2>2, PassNone
  <2>3. CASE b.status = "ValueScalar" /\ gap = <<Blank1>>
    <3>1. \E c : Passes(b, <<Blank1>>, c, v, w) /\ c.status = "ValueScalar"
      <4>1. Beyond(b, v) /\ Begins(v, w) /\ b.status = "ValueScalar" /\ Blank1 \in Token /\ Blank1 \notin Separators
        BY <1>0, <1>7, <2>3
      <4> QED BY ONLY <4>1, ScalarPasses
    <3> QED BY <3>1, <2>3
  <2> QED BY <1>7, <2>1, <2>2, <2>3 DEF Gaps
<1>9. PICK q : q = AddChar(c, "}")
  OBVIOUS
<1>10. Free(c, "}") /\ Beyond(c, v)
  BY <1>8 DEF Free, Passes
<1>11. Passes(c, <<"}">>, q, v, w)
  BY <1>0, <1>7, <1>9, <1>10, PassOne
<1>12. Leads(p, <<"{">> \o gap, a, w)
  BY <1>4, <1>6, LeadsOn DEF Passes
<1>13. Leads(p, <<"{">> \o gap \o members, b, w)
  BY <1>7, <1>12, LeadsOn
<1>14. Leads(p, <<"{">> \o gap \o members \o gap, c, w)
  BY <1>8, <1>13, LeadsOn DEF Passes
<1>15. Leads(p, Object(members, gap), q, w)
  BY <1>11, <1>14, LeadsOn DEF Passes, Object
<1>16. AnswerSoFar(q) = v
  BY <1>11 DEF Passes, Beyond
<1> QED BY <1>7, <1>15, <1>16

LEMMA NewParserIsBeyond == Beyond(NewParser, <<>>) /\ NewParser.status = "Ready"
<1>1. AnswerSoFar(NewParser) = <<>>
  BY DEF AnswerSoFar, NewParser, NoFields
<1>2. NewParser.status = "Ready"
  BY DEF NewParser
<1> QED BY <1>1, <1>2, NewParserOK DEF Beyond, Elsewhere

(* What is read of the answer is a beginning of it, and in the end all of  *)
(* it, when the document is in the schema's order                          *)
LEMMA DocumentReads ==
  ASSUME NEW pieces \in Seq(AllPieces), NEW refs \in ReferenceLists, NEW layout \in Layouts,
         NEW w, w = Spell(pieces, AsStreamed)
  PROVE  \E q : /\ Leads(NewParser, Documents(pieces, refs, layout), q, w)
                /\ layout \in {"schema", "spaced", "introduced"} => AnswerSoFar(q) = w
<1>0. /\ <<>> \in Gaps /\ <<Blank1>> \in Gaps /\ Len(w) \in Nat /\ Begins(<<>>, w)
      /\ Beyond(NewParser, <<>>) /\ NewParser.status = "Ready" /\ ParserOK(NewParser)
      /\ AnswerSoFar(NewParser) = <<>>
  BY WholeIsList, NothingBegins, NewParserIsBeyond DEF Gaps, Beyond
<1>1. ASSUME NEW gap \in Gaps
      PROVE  \E q : Leads(NewParser, Object(InOrder(pieces, refs, gap), gap), q, w) /\ AnswerSoFar(q) = w
  <2>1. PICK members : members = InOrder(pieces, refs, gap)
    OBVIOUS
  <2>2. PICK first : first = "answer"
    OBVIOUS
  <2>3. MembersRead(members, w, first)
    BY <2>1, <2>2, InOrderRead
  <2>4. \E q : Leads(NewParser, Object(members, gap), q, w) /\ (first = "answer" => AnswerSoFar(q) = w)
    BY <1>0, <2>3, ObjectReads
  <2> QED BY <2>1, <2>2, <2>4
<1>2. \E q : Leads(NewParser, Object(Reversed(pieces, refs), <<>>), q, w)
  <2>1. MembersRead(Reversed(pieces, refs), w, "references")
    BY ReversedRead
  <2> QED BY <1>0, <2>1, ObjectReads
<1>3. CASE layout = "schema"
  BY <1>0, <1>1, <1>3, DocumentCases
<1>4. CASE layout = "spaced"
  BY <1>0, <1>1, <1>4, DocumentCases
<1>5. CASE layout = "referencesFirst"
  BY <1>2, <1>5, DocumentCases
<1>6. CASE layout = "introduced"
  <2>0. "word" \in Token
    BY Tokens, WordTokens
  <2>1. AddChar(NewParser, "word") = NewParser
    BY ONLY <1>0, <2>0, ReadyStep
  <2>2. Leads(NewParser, <<"word">>, NewParser, w)
    BY <1>0, <2>0, <2>1, LeadsStep
  <2>3. PICK q : Leads(NewParser, Object(InOrder(pieces, refs, <<>>), <<>>), q, w) /\ AnswerSoFar(q) = w
    BY <1>0, <1>1
  <2>4. Leads(NewParser, <<"word">> \o Object(InOrder(pieces, refs, <<>>), <<>>), q, w)
    BY <2>2, <2>3, LeadsOn
  <2> QED BY <1>6, <2>3, <2>4, DocumentCases
<1>7. CASE layout = "fenced"
  <2>0. "json" \in Token
    BY Tokens, WordTokens
  <2>1. PICK a : a = AddChar(NewParser, "json")
    OBVIOUS
  <2>2. a.status = "TopLevel" /\ a.fields = NewParser.fields
    BY ONLY <1>0, <2>0, <2>1, ReadyStep
  <2>3. AnswerSoFar(a) = <<>>
    BY <1>0, <2>2, AnswerStays
  <2>4. Leads(NewParser, <<"json">>, a, w)
    BY <1>0, <2>0, <2>1, <2>3, LeadsStep
  <2>5. PICK object : object = Object(InOrder(pieces, refs, <<>>), <<>>)
    OBVIOUS
  <2>6. object \in Seq(Token)
    <3>1. PICK q : Leads(NewParser, object, q, w)
      BY <1>0, <1>1, <2>5
    <3> QED BY <3>1 DEF Leads
  <2>7. Leads(a, object, a, w)
    BY <1>0, <2>2, <2>3, <2>6, LeadsStill
  <2>8. Leads(NewParser, <<"json">> \o object, a, w)
    BY <2>4, <2>7, LeadsOn
  <2> QED BY <1>7, <2>5, <2>8, DocumentCases
<1> QED BY <1>3, <1>4, <1>5, <1>6, <1>7 DEF Layouts

-----------------------------------------------------------------------------
(* What the page makes of the answer *)

Shown == Token \cup {Newline}

LEMMA StreamedCases ==
  ASSUME NEW piece \in AllPieces, piece # "backslash"
  PROVE  \/ \E c \in Token : c # Backslash /\ AsStreamed(piece) = <<c>> /\ Decoded(piece) = c
         \/ AsStreamed(piece) = <<Backslash, "n">> /\ Decoded(piece) = Newline
<1>0. /\ Quote \in Token /\ "word" \in Token /\ "n" \in Token /\ "," \in Token /\ "}" \in Token
      /\ Quote # Backslash /\ "word" # Backslash /\ "n" # Backslash /\ "," # Backslash /\ "}" # Backslash
  BY Tokens, WordTokens
<1>1. CASE piece = "word"
  <2>1. AsStreamed(piece) = <<"word">> /\ Decoded(piece) = "word"
    BY <1>1 DEF Written, AsStreamed, Decoded
  <2> QED BY <1>0, <2>1
<1>2. CASE piece = "n"
  <2>1. AsStreamed(piece) = <<"n">> /\ Decoded(piece) = "n"
    BY <1>2 DEF Written, AsStreamed, Decoded
  <2> QED BY <1>0, <2>1
<1>3. CASE piece = "comma"
  <2>1. AsStreamed(piece) = <<",">> /\ Decoded(piece) = ","
    BY <1>3 DEF Written, AsStreamed, Decoded
  <2> QED BY <1>0, <2>1
<1>4. CASE piece = "brace"
  <2>1. AsStreamed(piece) = <<"}">> /\ Decoded(piece) = "}"
    BY <1>4 DEF Written, AsStreamed, Decoded
  <2> QED BY <1>0, <2>1
<1>5. CASE piece = "quote"
  <2>1. AsStreamed(piece) = <<Quote>> /\ Decoded(piece) = Quote
    BY <1>5 DEF Written, AsStreamed, Decoded
  <2> QED BY <1>0, <2>1
<1>6. CASE piece = "newline"
  <2>1. AsStreamed(piece) = <<Backslash, "n">> /\ Decoded(piece) = Newline
    BY <1>6 DEF Written, AsStreamed, Decoded
  <2> QED BY <2>1
<1> QED BY <1>1, <1>2, <1>3, <1>4, <1>5, <1>6 DEF AllPieces

Breaks(text) == {i \in 1..Len(text) - 1 : text[i] = Backslash /\ text[i + 1] = "n"}
ShownAt(text, i) ==
  IF i \in Breaks(text) THEN <<Newline>> ELSE IF i - 1 \in Breaks(text) THEN <<>> ELSE <<text[i]>>

LEMMA RenderedIsJoined ==
  ASSUME NEW text \in Seq(Token), NEW m, m = Len(text)
  PROVE  \E h \in [0..m -> Seq(Shown)] :
            /\ h[0] = <<>> /\ \A i \in 1..m : h[i] = h[i - 1] \o ShownAt(text, i)
            /\ Rendered(text) = h[m]
<1>1. m \in Nat /\ \A i \in 1..m : text[i] \in Token
  BY LenProperties, ElementOfSeq
<1>2. PICK ss : ss = [i \in 1..m |-> ShownAt(text, i)]
  OBVIOUS
<1>3. ss \in [1..m -> Seq(Shown)]
  <2>1. ASSUME NEW i \in 1..m PROVE ShownAt(text, i) \in Seq(Shown)
    <3>1. text[i] \in Shown /\ Newline \in Shown
      BY <1>1 DEF Shown
    <3>2. \A c \in Shown : <<c>> \in Seq(Shown)
      OBVIOUS
    <3>3. <<>> \in Seq(Shown)
      OBVIOUS
    <3> QED BY <3>1, <3>2, <3>3 DEF ShownAt
  <2> QED BY <1>2, <2>1
<1>4. PICK h \in [0..m -> Seq(Shown)] : Joined(h, ss, m) /\ FlattenSeq(ss) = h[m]
  BY <1>1, <1>3, FlattenJoined
<1>5. Rendered(text) = FlattenSeq(ss)
  BY <1>2 DEF Rendered, ShownAt, Breaks
<1>6. h[0] = <<>> /\ \A i \in 1..m : h[i] = h[i - 1] \o ShownAt(text, i)
  BY <1>2, <1>4 DEF Joined
<1> QED BY <1>4, <1>5, <1>6

(* The next piece of the text, and what is shown of it *)
LEMMA PieceShown ==
  ASSUME NEW text \in Seq(Token), NEW m, m = Len(text), NEW h \in [0..m -> Seq(Shown)],
         \A i \in 1..m : h[i] = h[i - 1] \o ShownAt(text, i),
         NEW piece \in AllPieces, piece # "backslash", NEW l \in Nat, l > 0 => text[l] # Backslash,
         l + Len(AsStreamed(piece)) <= m,
         \A i \in 1..Len(AsStreamed(piece)) : text[l + i] = AsStreamed(piece)[i]
  PROVE  LET k == l + Len(AsStreamed(piece)) IN
            h[k] = Append(h[l], Decoded(piece)) /\ k > 0 /\ text[k] # Backslash
<1>0. m \in Nat /\ "n" # Backslash /\ Decoded(piece) \in Shown
  <2>1. Newline \in Shown /\ Token \subseteq Shown
    BY DEF Shown
  <2>2. Decoded(piece) \in Shown
    BY <2>1, StreamedCases
  <2> QED BY <2>2, LenProperties, Tokens, WordTokens
<1>1. ASSUME NEW c \in Token, c # Backslash, AsStreamed(piece) = <<c>>, Decoded(piece) = c
      PROVE  LET k == l + Len(AsStreamed(piece)) IN
                h[k] = Append(h[l], Decoded(piece)) /\ k > 0 /\ text[k] # Backslash
  <2>1. Len(<<c>>) = 1 /\ <<c>>[1] = c
    OBVIOUS
  <2>2. l + 1 <= m /\ text[l + 1] = c
    BY <1>1, <2>1
  <2>3. l + 1 \in 1..m /\ (l + 1) - 1 = l /\ l \in 0..m
    BY <1>0, <2>2
  <2>4. l + 1 \notin Breaks(text)
    BY <1>1, <2>2 DEF Breaks
  <2>5. l \notin Breaks(text)
    BY DEF Breaks
  <2>6. ShownAt(text, l + 1) = <<c>>
    BY <2>2, <2>3, <2>4, <2>5 DEF ShownAt
  <2>7. h[l + 1] = h[l] \o <<c>> /\ h[l] \in Seq(Shown)
    BY <2>3, <2>6
  <2>8. h[l] \o <<c>> = Append(h[l], c)
    BY <1>0, <1>1, <2>7, AppendIsConcat
  <2> QED BY <1>1, <2>1, <2>2, <2>7, <2>8
<1>2. ASSUME AsStreamed(piece) = <<Backslash, "n">>, Decoded(piece) = Newline
      PROVE  LET k == l + Len(AsStreamed(piece)) IN
                h[k] = Append(h[l], Decoded(piece)) /\ k > 0 /\ text[k] # Backslash
  <2>1. Len(<<Backslash, "n">>) = 2 /\ <<Backslash, "n">>[1] = Backslash /\ <<Backslash, "n">>[2] = "n"
    OBVIOUS
  <2>2. l + 2 <= m /\ text[l + 1] = Backslash /\ text[l + 2] = "n"
    BY <1>2, <2>1
  <2>3. /\ l + 1 \in 1..m /\ (l + 1) - 1 = l /\ l \in 0..m
        /\ l + 2 \in 1..m /\ (l + 2) - 1 = l + 1 /\ (l + 1) + 1 = l + 2 /\ l + 1 \in 1..m - 1
    BY <1>0, <2>2
  <2>4. l + 1 \in Breaks(text)
    BY <2>2, <2>3 DEF Breaks
  <2>5. l + 2 \notin Breaks(text)
    BY <1>0, <2>2 DEF Breaks
  <2>6. ShownAt(text, l + 1) = <<Newline>> /\ ShownAt(text, l + 2) = <<>>
    BY <2>3, <2>4, <2>5 DEF ShownAt
  <2>7. h[l + 1] = h[l] \o <<Newline>> /\ h[l + 2] = h[l + 1] \o <<>> /\ h[l] \in Seq(Shown) /\ h[l + 1] \in Seq(Shown)
    <3>1. h[l + 1] \in Seq(Shown) /\ h[l] \in Seq(Shown)
      <4>1. l + 1 \in 0..m /\ l \in 0..m
        BY <2>3, <1>0
      <4> QED BY <4>1
    <3> QED BY <2>3, <2>6, <3>1
  <2>8. h[l] \o <<Newline>> = Append(h[l], Newline)
    BY <1>0, <1>2, <2>7, AppendIsConcat
  <2>9. h[l + 1] \o <<>> = h[l + 1]
    BY <2>7, ConcatEmptySeq
  <2> QED BY <1>0, <1>2, <2>1, <2>2, <2>7, <2>8, <2>9
<1> QED BY <1>1, <1>2, StreamedCases

LEMMA AllIsShown ==
  ASSUME NEW pieces \in Seq(AllPieces), "backslash" \notin Range(pieces)
  PROVE  Rendered(Spell(pieces, AsStreamed)) = [i \in 1..Len(pieces) |-> Decoded(pieces[i])]
<1>1. PICK n : n = Len(pieces)
  OBVIOUS
<1>2. n \in Nat /\ \A i \in 1..n : pieces[i] \in AllPieces /\ pieces[i] # "backslash"
  <2>1. n \in Nat /\ DOMAIN pieces = 1..n /\ \A i \in 1..n : pieces[i] \in AllPieces
    BY <1>1, LenProperties, ElementOfSeq
  <2> QED BY <2>1 DEF Range
<1>3. PICK g \in [0..n -> Seq(Token)] :
        /\ g[0] = <<>> /\ \A i \in 1..n : g[i] = g[i - 1] \o AsStreamed(pieces[i])
        /\ Spell(pieces, AsStreamed) = g[n]
  BY <1>1, SpellJoined
<1>4. PICK text, m : text = g[n] /\ m = Len(text)
  OBVIOUS
<1>5. text \in Seq(Token) /\ m \in Nat
  BY <1>2, <1>4, LenProperties
<1>6. \A k \in 0..n : Begins(g[k], text)
  <2>1. PICK ss : ss = [i \in 1..n |-> AsStreamed(pieces[i])]
    OBVIOUS
  <2>2. \A i \in 1..n : ss[i] \in Seq(Token)
    BY <1>2, <2>1, WrittenLists
  <2>3. \A i \in 1..n : g[i] = g[i - 1] \o ss[i]
    BY <1>3, <2>1
  <2> QED BY <1>2, <1>4, <2>2, <2>3, JoinedBegins
<1>7. PICK h \in [0..m -> Seq(Shown)] :
        /\ h[0] = <<>> /\ \A i \in 1..m : h[i] = h[i - 1] \o ShownAt(text, i)
        /\ Rendered(text) = h[m]
  BY <1>4, <1>5, RenderedIsJoined
<1> DEFINE d(k) == [i \in 1..k |-> Decoded(pieces[i])]
           K == {k \in 0..n : h[Len(g[k])] = d(k) /\ (Len(g[k]) > 0 => text[Len(g[k])] # Backslash)}
<1>8. 0 \in K
  <2>1. d(0) = <<>> /\ Len(<<>>) = 0 /\ 0 \in 0..n
    BY <1>2
  <2> QED BY <2>1, <1>3, <1>7
<1>9. ASSUME NEW k \in 0..n, k \in K, k < n PROVE k + 1 \in K
  <2>1. k + 1 \in 1..n /\ k + 1 \in 0..n /\ (k + 1) - 1 = k
    BY <1>2, <1>9
  <2>2. PICK piece : piece = pieces[k + 1]
    OBVIOUS
  <2>3. piece \in AllPieces /\ piece # "backslash" /\ g[k + 1] = g[k] \o AsStreamed(piece)
    BY <1>2, <1>3, <2>1, <2>2
  <2>4. PICK l, e : l = Len(g[k]) /\ e = Len(AsStreamed(piece))
    OBVIOUS
  <2>5. g[k] \in Seq(Token) /\ AsStreamed(piece) \in Seq(Token)
    BY <2>3, WrittenLists
  <2>6. l \in Nat /\ e \in Nat
    BY <2>4, <2>5, LenProperties
  <2>7. /\ Len(g[k + 1]) = l + e
        /\ \A i \in 1..l + e : g[k + 1][i] = IF i <= l THEN g[k][i] ELSE AsStreamed(piece)[i - l]
    BY ONLY <2>3, <2>4, <2>5, ConcatProperties
  <2>8. l + e <= m /\ \A i \in 1..l + e : text[i] = g[k + 1][i]
    <3>1. Begins(g[k + 1], text)
      BY <1>6, <2>1
    <3> QED BY <3>1, <1>4, <2>7 DEF Begins
  <2>9. ASSUME NEW i \in 1..e PROVE text[l + i] = AsStreamed(piece)[i]
    <3>1. l + i \in 1..l + e /\ ~(l + i <= l) /\ (l + i) - l = i
      BY <2>6
    <3> QED BY <3>1, <2>7, <2>8
  <2>10. h[l] = d(k) /\ (l > 0 => text[l] # Backslash)
    BY <1>9, <2>4
  <2> HIDE DEF d
  <2>11. h[l + e] = Append(h[l], Decoded(piece)) /\ l + e > 0 /\ text[l + e] # Backslash
    <3>1. /\ l + Len(AsStreamed(piece)) <= m /\ (l > 0 => text[l] # Backslash)
          /\ \A i \in 1..Len(AsStreamed(piece)) : text[l + i] = AsStreamed(piece)[i]
      BY <2>4, <2>8, <2>9, <2>10
    <3>2. text \in Seq(Token) /\ m = Len(text) /\ h \in [0..m -> Seq(Shown)]
            /\ \A i \in 1..m : h[i] = h[i - 1] \o ShownAt(text, i)
      BY <1>4, <1>5, <1>7
    <3>3. piece \in AllPieces /\ piece # "backslash" /\ l \in Nat
      BY <2>3, <2>6
    <3>4. LET end == l + Len(AsStreamed(piece)) IN
            h[end] = Append(h[l], Decoded(piece)) /\ end > 0 /\ text[end] # Backslash
      BY ONLY <3>1, <3>2, <3>3, PieceShown
    <3> QED BY <2>4, <3>4
  <2>12. Append(d(k), Decoded(piece)) = d(k + 1)
    <3>1. k \in Nat
      BY <1>2
    <3>2. d(k) = [i \in 1..k |-> Decoded(pieces[i])] /\ d(k + 1) = [i \in 1..k + 1 |-> Decoded(pieces[i])]
      BY DEF d
    <3>3. Len(d(k)) = k /\ Append(d(k), Decoded(piece)) = [i \in 1..k + 1 |-> IF i = k + 1 THEN Decoded(piece) ELSE d(k)[i]]
      BY <3>1, <3>2
    <3>4. \A i \in 1..k + 1 : (IF i = k + 1 THEN Decoded(piece) ELSE d(k)[i]) = Decoded(pieces[i])
      BY <3>1, <3>2, <2>2
    <3> QED BY <3>2, <3>3, <3>4
  <2>13. h[Len(g[k + 1])] = d(k + 1)
    BY <2>7, <2>10, <2>11, <2>12
  <2> QED BY <2>1, <2>7, <2>11, <2>13
<1>10. n \in K
  <2> HIDE DEF K
  <2>1. n \in 0..n
    BY <1>2
  <2> QED BY <2>1, <1>2, <1>8, <1>9, UpTo
<1> QED BY <1>1, <1>3, <1>4, <1>7, <1>10

-----------------------------------------------------------------------------
(* The answer as it comes: what the model writes, the empty answer of a     *)
(* behaviour without a stream included                                     *)

Streamed(d, a) ==
  \/ \E pieces \in Seq(AllPieces), refs \in ReferenceLists, layout \in Layouts :
       /\ d = Documents(pieces, refs, layout)
       /\ a = [pieces |-> pieces, inOrder |-> layout \in {"schema", "spaced", "introduced"}]
  \/ d = <<>> /\ a = [pieces |-> <<>>, inOrder |-> FALSE]

Whole(a) == Spell(a.pieces, AsStreamed)
ReadOf(d, n) == Read(NewParser, SubSeq(d, 1, n))

(* What holds of every document and answer *)
StreamFacts(d, a) ==
  /\ d \in Seq(Token) /\ Whole(a) \in Seq(Token)
  /\ \A i \in 0..Len(d) : Begins(AnswerSoFar(ReadOf(d, i)), Whole(a))
  /\ a.inOrder => AnswerSoFar(ReadOf(d, Len(d))) = Whole(a)
  /\ "backslash" \notin Range(a.pieces) =>
       Rendered(Whole(a)) = [i \in 1..Len(a.pieces) |-> Decoded(a.pieces[i])]

LEMMA StreamedIsRead == ASSUME NEW d, NEW a, Streamed(d, a) PROVE StreamFacts(d, a)
<1>1. ASSUME NEW pieces \in Seq(AllPieces), NEW refs \in ReferenceLists, NEW layout \in Layouts,
             d = Documents(pieces, refs, layout),
             a = [pieces |-> pieces, inOrder |-> layout \in {"schema", "spaced", "introduced"}]
      PROVE  StreamFacts(d, a)
  <2>1. PICK w : w = Spell(pieces, AsStreamed)
    OBVIOUS
  <2>2. Whole(a) = w /\ a.pieces = pieces
    BY <1>1, <2>1 DEF Whole
  <2>3. PICK q : Leads(NewParser, d, q, w) /\ (layout \in {"schema", "spaced", "introduced"} => AnswerSoFar(q) = w)
    BY <1>1, <2>1, DocumentReads
  <2>4. d \in Seq(Token) /\ Read(NewParser, d) = q
    BY <2>3 DEF Leads
  <2>5. SubSeq(d, 1, Len(d)) = d
    BY <2>4, SubSeqFull
  <2>6. a.inOrder => AnswerSoFar(ReadOf(d, Len(d))) = w
    BY <1>1, <2>3, <2>4, <2>5 DEF ReadOf
  <2>7. \A i \in 0..Len(d) : Begins(AnswerSoFar(ReadOf(d, i)), w)
    BY <2>3 DEF Leads, ReadOf
  <2>8. w \in Seq(Token)
    BY <2>1, WholeIsList
  <2>9. "backslash" \notin Range(pieces) => Rendered(w) = [i \in 1..Len(pieces) |-> Decoded(pieces[i])]
    BY <2>1, AllIsShown
  <2> QED BY <2>2, <2>4, <2>6, <2>7, <2>8, <2>9 DEF StreamFacts
<1>2. CASE d = <<>> /\ a = [pieces |-> <<>>, inOrder |-> FALSE]
  <2>1. PICK w : w = Spell(<<>>, AsStreamed)
    OBVIOUS
  <2>2. <<>> \in Seq(AllPieces) /\ d \in Seq(Token) /\ Len(d) = 0
    BY <1>2
  <2>3. a.pieces = <<>> /\ ~a.inOrder /\ Whole(a) = w
    BY <1>2, <2>1 DEF Whole
  <2>4. w \in Seq(Token) /\ Len(w) \in Nat
    BY <2>1, <2>2, WholeIsList
  <2>5. "backslash" \notin Range(<<>>) => Rendered(w) = [i \in 1..Len(<<>>) |-> Decoded(<<>>[i])]
    BY <2>1, <2>2, AllIsShown
  <2>6. SubSeq(d, 1, 0) = <<>>
    BY SubSeqEmpty
  <2>7. AnswerSoFar(ReadOf(d, 0)) = <<>>
    <3>1. ReadOf(d, 0) = NewParser
      BY <2>6, ReadNone DEF ReadOf
    <3> QED BY <3>1, NewParserIsBeyond DEF Beyond
  <2>8. ASSUME NEW i \in 0..Len(d) PROVE Begins(AnswerSoFar(ReadOf(d, i)), w)
    <3>1. i = 0
      BY <2>2
    <3>2. Begins(<<>>, w)
      BY <2>4, NothingBegins
    <3> QED BY <3>1, <3>2, <2>7
  <2> QED BY <2>2, <2>3, <2>4, <2>5, <2>8 DEF StreamFacts
<1> QED BY <1>1, <1>2 DEF Streamed

(* Two beginnings of one list, one after the other: what the longer one has *)
(* beyond the other is all it takes                                        *)
LEMMA BeginningGrows ==
  ASSUME NEW w, NEW a, NEW b, Begins(a, w), Begins(b, w), Len(b) > Len(a)
  PROVE  a \o SubSeq(b, Len(a) + 1, Len(b)) = b
<1>1. PICK n, k, t : n = Len(a) /\ k = Len(b) /\ t = SubSeq(b, n + 1, k)
  OBVIOUS
<1>2. /\ n \in Nat /\ k \in Nat /\ k > n /\ a \in Seq(Token) /\ b \in Seq(Token)
      /\ \A i \in 1..n : a[i] = w[i]
      /\ \A i \in 1..k : b[i] = w[i] /\ b[i] \in Token
  <2>1. a \in Seq(Token) /\ b \in Seq(Token) /\ \A i \in 1..n : a[i] = w[i]
    BY <1>1 DEF Begins
  <2>2. \A i \in 1..k : b[i] = w[i]
    BY <1>1 DEF Begins
  <2>3. \A i \in 1..k : b[i] \in Token
    BY <1>1, <2>1, ElementOfSeq
  <2> QED BY <1>1, <2>1, <2>2, <2>3, LenProperties
<1>3. t \in Seq(Token) /\ Len(t) = k - n /\ \A i \in 1..k - n : t[i] = b[n + i]
  <2>1. n + 1 \in Int /\ k \in Int /\ \A i \in n + 1..k : b[i] \in Token
    BY <1>2
  <2>2. /\ SubSeq(b, n + 1, k) \in Seq(Token)
        /\ Len(SubSeq(b, n + 1, k)) = IF n + 1 <= k THEN k - (n + 1) + 1 ELSE 0
        /\ \A i \in 1..k - (n + 1) + 1 : SubSeq(b, n + 1, k)[i] = b[n + 1 + i - 1]
    BY ONLY <2>1, SubSeqProperties
  <2>3. n + 1 <= k /\ k - (n + 1) + 1 = k - n /\ \A i \in 1..k - n : n + 1 + i - 1 = n + i
    BY <1>2
  <2>4. \A i \in 1..k - n : SubSeq(b, n + 1, k)[i] = b[n + i]
    BY <2>2, <2>3
  <2> QED BY <1>1, <2>2, <2>3, <2>4
<1>4. PICK u : u = a \o t
  OBVIOUS
<1>5. u \in Seq(Token) /\ Len(u) = k /\ \A i \in 1..k : u[i] = IF i <= n THEN a[i] ELSE t[i - n]
  <2>1. /\ u \in Seq(Token) /\ Len(u) = Len(a) + Len(t)
        /\ \A i \in 1..Len(a) + Len(t) : u[i] = IF i <= Len(a) THEN a[i] ELSE t[i - Len(a)]
    BY ONLY <1>2, <1>3, <1>4, ConcatProperties
  <2>2. Len(a) + Len(t) = k
    BY <1>1, <1>2, <1>3
  <2> QED BY <1>1, <2>1, <2>2
<1>6. ASSUME NEW i \in 1..k PROVE u[i] = b[i]
  <2>1. CASE i <= n
    <3>1. i \in 1..n
      BY <1>2, <2>1
    <3> QED BY <3>1, <2>1, <1>2, <1>5
  <2>2. CASE ~(i <= n)
    <3>1. i - n \in 1..k - n /\ n + (i - n) = i
      BY <1>2, <2>2
    <3> QED BY <3>1, <2>2, <1>3, <1>5
  <2> QED BY <2>1, <2>2
<1>7. u = b
  BY <1>1, <1>2, <1>5, <1>6, SeqEqual
<1> QED BY <1>1, <1>4, <1>7

LEMMA LongestBeginning ==
  ASSUME NEW w \in Seq(Token), NEW a, Begins(a, w), Len(w) <= Len(a)
  PROVE  a = w
<1>1. a \in Seq(Token) /\ Len(a) = Len(w) /\ \A i \in 1..Len(a) : a[i] = w[i]
  BY LenProperties DEF Begins
<1> QED BY <1>1, SeqEqual

LEMMA BeginningIsPrefix ==
  ASSUME NEW w \in Seq(Token), NEW a, Begins(a, w)
  PROVE  IsPrefix(a, w)
<1>1. PICK n, k : n = Len(a) /\ k = Len(w)
  OBVIOUS
<1>2. a \in Seq(Token) /\ n \in Nat /\ k \in Nat /\ n <= k /\ \A i \in 1..n : a[i] = w[i]
  BY <1>1, LenProperties DEF Begins
<1>3. PICK t : t = SubSeq(w, 1, n)
  OBVIOUS
<1>4. t \in Seq(Token) /\ Len(t) = n /\ \A i \in 1..n : t[i] = w[i]
  <2>1. 1 \in Int /\ n \in Int /\ \A i \in 1..n : w[i] \in Token
    BY <1>1, <1>2, ElementOfSeq
  <2>2. /\ SubSeq(w, 1, n) \in Seq(Token)
        /\ Len(SubSeq(w, 1, n)) = IF 1 <= n THEN n - 1 + 1 ELSE 0
        /\ \A i \in 1..n - 1 + 1 : SubSeq(w, 1, n)[i] = w[1 + i - 1]
    BY ONLY <2>1, SubSeqProperties
  <2>3. n - 1 + 1 = n /\ (~(1 <= n) => n = 0) /\ \A i \in 1..n : 1 + i - 1 = i
    BY <1>2
  <2>4. \A i \in 1..n : SubSeq(w, 1, n)[i] = w[i]
    BY <2>2, <2>3
  <2> QED BY <1>3, <2>2, <2>3, <2>4
<1>5. t = a
  BY <1>1, <1>2, <1>4, SeqEqual
<1>6. SubSeq(a, 1, Len(a)) = a
  BY ONLY <1>2, SubSeqFull
<1> QED BY <1>1, <1>2, <1>3, <1>5, <1>6 DEF IsPrefix

(* The parser that gets a chunk more *)
LEMMA ChunkReads ==
  ASSUME NEW d \in Seq(Token), NEW i \in 0..Len(d), NEW n \in Nat, i + n <= Len(d)
  PROVE  FoldLeft(AddChar, ReadOf(d, i), SubSeq(d, i + 1, i + n)) = ReadOf(d, i + n)
<1>1. PICK x, y, z, l : x = SubSeq(d, 1, i) /\ y = SubSeq(d, i + 1, i + n) /\ z = SubSeq(d, 1, i + n) /\ l = Len(d)
  OBVIOUS
<1>2. i \in Nat /\ l \in Nat /\ i + n \in Nat /\ i + n <= l /\ \A j \in 1..l : d[j] \in Token
  BY <1>1, LenProperties, ElementOfSeq
<1>3. x \in Seq(Token) /\ Len(x) = i /\ \A j \in 1..i : x[j] = d[j]
  <2>1. 1 \in Int /\ i \in Int /\ \A j \in 1..i : d[j] \in Token
    BY <1>2
  <2>2. /\ SubSeq(d, 1, i) \in Seq(Token)
        /\ Len(SubSeq(d, 1, i)) = IF 1 <= i THEN i - 1 + 1 ELSE 0
        /\ \A j \in 1..i - 1 + 1 : SubSeq(d, 1, i)[j] = d[1 + j - 1]
    BY ONLY <2>1, SubSeqProperties
  <2>3. i - 1 + 1 = i /\ (~(1 <= i) => i = 0) /\ \A j \in 1..i : 1 + j - 1 = j
    BY <1>2
  <2>4. \A j \in 1..i : SubSeq(d, 1, i)[j] = d[j]
    BY <2>2, <2>3
  <2> QED BY <1>1, <2>2, <2>3, <2>4
<1>4. y \in Seq(Token) /\ Len(y) = n /\ \A j \in 1..n : y[j] = d[i + j]
  <2>1. i + 1 \in Int /\ i + n \in Int /\ \A j \in i + 1..i + n : d[j] \in Token
    BY <1>2
  <2>2. /\ SubSeq(d, i + 1, i + n) \in Seq(Token)
        /\ Len(SubSeq(d, i + 1, i + n)) = IF i + 1 <= i + n THEN (i + n) - (i + 1) + 1 ELSE 0
        /\ \A j \in 1..(i + n) - (i + 1) + 1 : SubSeq(d, i + 1, i + n)[j] = d[i + 1 + j - 1]
    BY ONLY <2>1, SubSeqProperties
  <2>3. /\ (i + n) - (i + 1) + 1 = n /\ (~(i + 1 <= i + n) => n = 0)
        /\ \A j \in 1..n : i + 1 + j - 1 = i + j
    BY <1>2
  <2>4. \A j \in 1..n : SubSeq(d, i + 1, i + n)[j] = d[i + j]
    BY <2>2, <2>3
  <2> QED BY <1>1, <2>2, <2>3, <2>4
<1>5. z \in Seq(Token) /\ Len(z) = i + n /\ \A j \in 1..i + n : z[j] = d[j]
  <2>0. PICK m : m = i + n
    OBVIOUS
  <2>1. 1 \in Int /\ m \in Int /\ \A j \in 1..m : d[j] \in Token
    BY <1>2, <2>0
  <2>2. /\ SubSeq(d, 1, m) \in Seq(Token)
        /\ Len(SubSeq(d, 1, m)) = IF 1 <= m THEN m - 1 + 1 ELSE 0
        /\ \A j \in 1..m - 1 + 1 : SubSeq(d, 1, m)[j] = d[1 + j - 1]
    BY ONLY <2>1, SubSeqProperties
  <2>3. m \in Nat /\ m - 1 + 1 = m /\ (~(1 <= m) => m = 0) /\ \A j \in 1..m : 1 + j - 1 = j
    BY <1>2, <2>0
  <2>4. \A j \in 1..m : SubSeq(d, 1, m)[j] = d[j]
    BY <2>2, <2>3
  <2> QED BY <1>1, <2>0, <2>2, <2>3, <2>4
<1>6. PICK u : u = x \o y
  OBVIOUS
<1>7. u \in Seq(Token) /\ Len(u) = i + n /\ \A j \in 1..i + n : u[j] = IF j <= i THEN x[j] ELSE y[j - i]
  <2>1. /\ u \in Seq(Token) /\ Len(u) = Len(x) + Len(y)
        /\ \A j \in 1..Len(x) + Len(y) : u[j] = IF j <= Len(x) THEN x[j] ELSE y[j - Len(x)]
    BY ONLY <1>3, <1>4, <1>6, ConcatProperties
  <2> QED BY <2>1, <1>3, <1>4
<1>8. ASSUME NEW j \in 1..i + n PROVE u[j] = z[j]
  <2>1. CASE j <= i
    <3>1. j \in 1..i
      BY <1>2, <2>1
    <3> QED BY <3>1, <2>1, <1>3, <1>5, <1>7
  <2>2. CASE ~(j <= i)
    <3>1. j - i \in 1..n /\ i + (j - i) = j
      BY <1>2, <2>2
    <3> QED BY <3>1, <2>2, <1>4, <1>5, <1>7
  <2> QED BY <2>1, <2>2
<1>9. u = z
  BY <1>5, <1>7, <1>8, SeqEqual
<1>10. Read(NewParser, x \o y) = Read(Read(NewParser, x), y)
  BY ONLY <1>3, <1>4, ReadOn
<1>11. FoldLeft(AddChar, ReadOf(d, i), SubSeq(d, i + 1, i + n)) = Read(Read(NewParser, x), y)
  BY <1>1 DEF ReadOf, Read
<1>12. ReadOf(d, i + n) = Read(NewParser, z)
  BY <1>1 DEF ReadOf
<1> QED BY <1>6, <1>9, <1>10, <1>11, <1>12

-----------------------------------------------------------------------------
(* The invariant of the stream: what the page has is a beginning of the     *)
(* answer, as long as what the parser has now and perhaps longer            *)
AnswersInv ==
  /\ Streamed(document, answer)
  /\ received \in 0..Len(document)
  /\ parser = ReadOf(document, received)
  /\ lastAnswer = buffer
  /\ Begins(buffer, Whole(answer))
  /\ Len(AnswerSoFar(parser)) <= Len(buffer)
  /\ stored \in {"none", "answer", "raw"}
  /\ stored = "answer" => received = Len(document)

LEMMA AnswersStart ==
  ASSUME received = 0, parser = NewParser, lastAnswer = <<>>, buffer = <<>>, stored = "none",
         Streamed(document, answer)
  PROVE  AnswersInv
<1>1. document \in Seq(Token) /\ Whole(answer) \in Seq(Token)
  BY StreamedIsRead DEF StreamFacts
<1>2. Len(document) \in Nat /\ Len(Whole(answer)) \in Nat
  BY <1>1, LenProperties
<1>3. Begins(<<>>, Whole(answer))
  BY <1>2, NothingBegins
<1>4. ReadOf(document, 0) = NewParser
  <2>1. SubSeq(document, 1, 0) = <<>>
    BY SubSeqEmpty
  <2> QED BY <2>1, ReadNone DEF ReadOf
<1>5. AnswerSoFar(NewParser) = <<>> /\ Len(<<>>) = 0
  BY NewParserIsBeyond DEF Beyond
<1> QED BY <1>2, <1>3, <1>4, <1>5 DEF AnswersInv

LEMMA AnswersBegin == AnswersInit => AnswersInv
<1> SUFFICES ASSUME AnswersInit PROVE AnswersInv
  OBVIOUS
<1>1. PICK pieces \in SeqOf(Pieces, MaxPieces), refs \in ReferenceLists, layout \in Layouts :
        /\ document = Documents(pieces, refs, layout)
        /\ answer = [pieces |-> pieces, inOrder |-> layout \in {"schema", "spaced", "introduced"}]
  BY DEF AnswersInit
<1>2. pieces \in Seq(AllPieces)
  <2>1. PICK m \in 0..MaxPieces : pieces \in [1..m -> Pieces]
    BY AnswersAssumption DEF SeqOf
  <2>2. m \in Nat /\ pieces \in [1..m -> AllPieces]
    BY <2>1, AnswersAssumption
  <2> QED BY <2>2, FunctionIsSeq
<1>3. Streamed(document, answer)
  BY <1>1, <1>2 DEF Streamed
<1> QED BY <1>3, AnswersStart DEF AnswersInit

LEMMA ChunkKeepsAnswers == ASSUME AnswersInv, ReceiveChunk PROVE AnswersInv'
<1>1. /\ document' = document /\ answer' = answer /\ stored' = stored /\ stored = "none"
  BY DEF ReceiveChunk
<1>2. PICK n \in 1..MaxChunk :
        /\ received + n <= Len(document) /\ received' = received + n
        /\ LET fed == FoldLeft(AddChar, parser, SubSeq(document, received + 1, received + n))
           IN /\ parser' = fed
              /\ IF Len(AnswerSoFar(fed)) > Len(lastAnswer)
                 THEN /\ lastAnswer' = AnswerSoFar(fed)
                      /\ buffer' = buffer \o SubSeq(AnswerSoFar(fed), Len(lastAnswer) + 1, Len(AnswerSoFar(fed)))
                 ELSE UNCHANGED <<lastAnswer, buffer>>
  BY DEF ReceiveChunk
<1>3. PICK current, w : current = AnswerSoFar(parser') /\ w = Whole(answer)
  OBVIOUS
<1>4. /\ IF Len(current) > Len(lastAnswer)
         THEN lastAnswer' = current /\ buffer' = buffer \o SubSeq(current, Len(lastAnswer) + 1, Len(current))
         ELSE lastAnswer' = lastAnswer /\ buffer' = buffer
  BY <1>2, <1>3
<1>5. StreamFacts(document, answer)
  BY StreamedIsRead DEF AnswersInv
<1>6. document \in Seq(Token) /\ Len(document) \in Nat /\ w \in Seq(Token)
  BY <1>3, <1>5, LenProperties DEF StreamFacts
<1>7. received' \in 0..Len(document) /\ n \in Nat /\ received \in 0..Len(document)
  BY <1>2, <1>6, AnswersAssumption DEF AnswersInv
<1>8. parser' = ReadOf(document, received')
  <2>1. parser = ReadOf(document, received)
    BY DEF AnswersInv
  <2>2. received' = received + n /\ received + n <= Len(document)
    BY <1>2
  <2>3. FoldLeft(AddChar, ReadOf(document, received), SubSeq(document, received + 1, received + n))
          = ReadOf(document, received + n)
    BY ONLY <1>6, <1>7, <2>2, ChunkReads
  <2>4. parser' = FoldLeft(AddChar, parser, SubSeq(document, received + 1, received + n))
    BY <1>2
  <2> QED BY <2>1, <2>2, <2>3, <2>4
<1>9. Begins(current, w) /\ Begins(buffer, w) /\ lastAnswer = buffer
  BY <1>3, <1>5, <1>7, <1>8 DEF StreamFacts, AnswersInv
<1>10. lastAnswer' = buffer' /\ Begins(buffer', w) /\ Len(current) <= Len(buffer')
  <2>0. Len(current) \in Nat /\ Len(buffer) \in Nat
    BY <1>9, LenProperties DEF Begins
  <2>1. CASE Len(current) > Len(lastAnswer)
    <3>1. buffer \o SubSeq(current, Len(buffer) + 1, Len(current)) = current
      BY <1>9, <2>1, BeginningGrows
    <3>2. buffer' = current /\ lastAnswer' = current
      BY <3>1, <1>4, <1>9, <2>1
    <3> QED BY <3>2, <1>9, <2>0
  <2>2. CASE ~(Len(current) > Len(lastAnswer))
    BY <1>4, <1>9, <2>0, <2>2
  <2> QED BY <2>1, <2>2
<1>11. Streamed(document', answer') /\ Whole(answer') = w
  BY <1>1, <1>3 DEF AnswersInv
<1>12. Len(AnswerSoFar(parser')) <= Len(buffer')
  BY <1>3, <1>10
<1>13. stored' = "none"
  BY <1>1
<1>14. received' \in 0..Len(document') /\ parser' = ReadOf(document', received')
  BY <1>1, <1>7, <1>8
<1> QED BY <1>10, <1>11, <1>12, <1>13, <1>14 DEF AnswersInv

LEMMA AnswersStep == AnswersInv /\ [AnswersNext]_streamVars => AnswersInv'
<1> SUFFICES ASSUME AnswersInv, [AnswersNext]_streamVars PROVE AnswersInv'
  OBVIOUS
<1>1. CASE ReceiveChunk
  BY <1>1, ChunkKeepsAnswers
<1>2. CASE EndStream
  <2>1. UNCHANGED <<document, answer, received, parser, lastAnswer, buffer>>
    BY <1>2 DEF EndStream
  <2>2. stored' \in {"answer", "raw"} /\ (stored' = "answer" => received = Len(document))
    BY <1>2 DEF EndStream
  <2> QED BY <2>1, <2>2 DEF AnswersInv
<1>3. CASE UNCHANGED streamVars
  BY <1>3 DEF AnswersInv, streamVars
<1> QED BY <1>1, <1>2, <1>3 DEF AnswersNext

LEMMA AnswersInvShows == AnswersInv => AnswersAreShown
<1> SUFFICES ASSUME AnswersInv PROVE AnswersAreShown
  OBVIOUS
<1>1. PICK w : w = Whole(answer)
  OBVIOUS
<1>2. StreamFacts(document, answer)
  BY StreamedIsRead DEF AnswersInv
<1>3. w \in Seq(Token) /\ Begins(buffer, w) /\ Len(AnswerSoFar(parser)) <= Len(buffer)
  BY <1>1, <1>2 DEF StreamFacts, AnswersInv
<1>4. IsPrefix(buffer, w)
  BY <1>3, BeginningIsPrefix
<1>5. received = Len(document) /\ answer.inOrder => buffer = w
  <2>1. SUFFICES ASSUME received = Len(document), answer.inOrder PROVE buffer = w
    OBVIOUS
  <2>2. AnswerSoFar(parser) = w
    BY <1>1, <1>2, <2>1 DEF StreamFacts, AnswersInv
  <2>3. Len(w) <= Len(buffer)
    BY <1>3, <2>2
  <2> QED BY <1>3, <2>3, LongestBeginning
<1>6. stored = "answer" => received = Len(document)
  BY DEF AnswersInv
<1>7. "backslash" \notin Range(answer.pieces) =>
        Rendered(w) = [i \in 1..Len(answer.pieces) |-> Decoded(answer.pieces[i])]
  BY <1>1, <1>2 DEF StreamFacts
<1>8. Spell(answer.pieces, AsStreamed) = w
  BY <1>1 DEF Whole
<1> QED BY <1>4, <1>5, <1>6, <1>7, <1>8 DEF AnswersAreShown

LEMMA AnswersInvTypes == AnswersInv => AnswersTypeOK
<1> SUFFICES ASSUME AnswersInv PROVE AnswersTypeOK
  OBVIOUS
<1>1. StreamFacts(document, answer)
  BY StreamedIsRead DEF AnswersInv
<1>2. document \in Seq(Token) /\ received \in 0..Len(document)
  BY <1>1 DEF StreamFacts, AnswersInv
<1>3. PICK s : s = SubSeq(document, 1, received)
  OBVIOUS
<1>4. s \in Seq(Token)
  <2>1. \A i \in 1..Len(document) : document[i] \in Token
    BY <1>2, ElementOfSeq
  <2>2. 1 \in Int /\ received \in Int /\ \A i \in 1..received : document[i] \in Token
    BY <1>2, <2>1, LenProperties
  <2> QED BY <1>3, <2>2, SubSeqProperties
<1>5. ParserOK(parser)
  BY <1>3, <1>4, NewParserOK, ReadKeeps DEF AnswersInv, ReadOf
<1>6. \A key \in DOMAIN parser.fields : parser.fields[key].string \in BOOLEAN
  BY <1>5 DEF ParserOK, FieldsOK
<1>7. stored \in {"none", "answer", "raw"}
  BY DEF AnswersInv
<1> QED BY <1>2, <1>5, <1>6, <1>7 DEF AnswersTypeOK, ParserOK, Statuses

=============================================================================
