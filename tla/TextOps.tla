------------------------------- MODULE TextOps -------------------------------
(***************************************************************************)
(* The operators of omle.text (src/operator_registry.cpp, 3231-3701).      *)
(*                                                                         *)
(* A text is the sequence of its letters, << >> the empty string.  A       *)
(* regular expression is a run of letters of a class, as \s+ is: pattern   *)
(* names the class.  The hash of a word is given.                          *)
(***************************************************************************)
EXTENDS Tensors

CONSTANTS
  Lower,    \* what std::tolower makes of the capital letters
  Spaces,   \* the letters std::isspace accepts
  Hash      \* the signed 32-bit murmur3 of a word: a sequence of <<word, hash>>

\* murmur3_x86_32, of which only the sign and the remainder matter.
Murmur(word) ==
  LET known == {i \in DOMAIN Hash : Hash[i][1] = word}
  IN  IF known = {} THEN 0 ELSE Hash[CHOOSE i \in known : TRUE][2]

\* Mutant of HashBucket: the remainder keeps its sign.
HashBucketSigned(word, n) == LET h == Murmur(word) IN IF h < 0 THEN -((-h) % n) ELSE h % n

\* A remainder has the sign of the hash, and is moved up when that is negative.
HashBucket(word, n) ==
  LET h   == Murmur(word)
      raw == IF h < 0 THEN -((-h) % n) ELSE h % n
  IN  IF raw < 0 THEN raw + n ELSE raw

\* row_tokens: the cells of a row that are not empty.
RowTokens(t, r) == SelectSeq(t.cells[r], LAMBDA s : s # << >>)

\* tokens_to_tensor: as wide as the longest row of these, the rest empty.
TokensToTensor(rows) ==
  LET w == Max({Len(rows[r]) : r \in DOMAIN rows} \cup {0})
  IN  [type  |-> "str",
       cells |-> [r \in DOMAIN rows |-> [c \in 1 .. w |->
                    IF c <= Len(rows[r]) THEN rows[r][c] ELSE << >>]]]

\* string_map.
StringMap(x, f(_)) ==
  IF x.in = << >> \/ x.outs = 0 THEN Nothing
  ELSE IF x.in[1].type # "str" THEN Refuses
  ELSE Gives(<<[x.in[1] EXCEPT !.cells =
                  [r \in DOMAIN @ |-> [c \in DOMAIN @[r] |-> f(@[r][c])]]]>>)

StrLowercase(s) == [i \in DOMAIN s |-> IF s[i] \in DOMAIN Lower THEN Lower[s[i]] ELSE s[i]]

StrTrim(s) ==
  LET solid == {i \in DOMAIN s : s[i] \notin Spaces}
  IN  IF solid = {} THEN << >> ELSE SubSeq(s, Min(solid), Max(solid))

\* Mutant of StrNormalizeWs: a run of whitespace is dropped.
StrDropWs(s) == SelectSeq(s, LAMBDA l : l \notin Spaces)

\* A run of whitespace, at the ends too, becomes one space.
StrNormalizeWs(s) ==
  FlattenSeq([i \in DOMAIN s |->
     IF s[i] \notin Spaces THEN <<s[i]>>
     ELSE IF i > 1 /\ s[i - 1] \in Spaces THEN << >> ELSE <<" ">>])

\* Where old stands in s, from the left and without overlap; one place at most
\* unless all are asked for.
Hits(s, old, all) ==
  LET scan(a, i) ==
        IF i >= a.free /\ SubSeq(s, i, i + Len(old) - 1) = old /\ (all \/ a.at = {})
        THEN [free |-> i + Len(old), at |-> a.at \cup {i}] ELSE a
  IN  FoldLeft(scan, [free |-> 1, at |-> {}], [i \in 1 .. Len(s) - Len(old) + 1 |-> i]).at

\* Nothing stands nowhere: an empty old changes nothing.
StrReplaceLiteral(s, old, new, all) ==
  LET at == Hits(s, old, all) IN
  IF old = << >> THEN s
  ELSE FlattenSeq([i \in DOMAIN s |->
         IF i \in at THEN new
         ELSE IF \E h \in at : h < i /\ i < h + Len(old) THEN << >> ELSE <<s[i]>>])

\* The longest runs of letters of a class in s, in order.
Runs(s, class) ==
  LET close(a) == IF a.open = << >> THEN a
                  ELSE [open |-> << >>, runs |-> Append(a.runs, a.open)]
      scan(a, l) == IF l \in class THEN [a EXCEPT !.open = Append(@, l)] ELSE close(a)
  IN  close(FoldLeft(scan, [open |-> << >>, runs |-> << >>], s)).runs

\* std::regex_replace.
RegexReplaced(s, class, rep) ==
  FlattenSeq([i \in DOMAIN s |->
     IF s[i] \notin class THEN <<s[i]>>
     ELSE IF i > 1 /\ s[i - 1] \in class THEN << >> ELSE rep])

Lowercase(x)           == StringMap(x, StrLowercase)
Trim(x)                == StringMap(x, StrTrim)
NormalizeWhitespace(x) == StringMap(x, StrNormalizeWs)
StringReplace(x) ==
  StringMap(x, LAMBDA s : StrReplaceLiteral(s, Attr(x, "old", << >>), Attr(x, "new", << >>),
                                            Attr(x, "replace_all", TRUE)))
RegexReplace(x) ==
  IF "pattern" \notin DOMAIN x.attrs THEN Refuses
  ELSE StringMap(x, LAMBDA s : RegexReplaced(s, x.attrs["pattern"], Attr(x, "replacement", << >>)))

-----------------------------------------------------------------------------

\* Both tokenizers fold case first and take numbers for empty texts.
RowText(x, r) == IF x.in[1].type = "str" THEN StrLowercase(x.in[1].cells[r][1]) ELSE << >>

Words(s) == Runs(s, Range(s) \ Spaces)
Tokenizer(x) == Gives(<<TokensToTensor([r \in Rows(x) |-> Words(RowText(x, r))])>>)

\* The pattern is what separates the words, or what they are.  An empty piece,
\* before a separator at the start, is too short.
RegexTokenizer(x) ==
  LET class    == Attr(x, "pattern", Spaces)
      of(s)    == Runs(s, IF Attr(x, "gaps", TRUE) THEN Range(s) \ class ELSE class)
      shortest == Attr(x, "min_token_length", 1)
  IN  Gives(<<TokensToTensor([r \in Rows(x) |->
                SelectSeq(of(RowText(x, r)), LAMBDA w : Len(w) >= shortest)])>>)

\* Words a to b with a space between them.
Joined(words, a, b) ==
  words[a] \o FlattenSeq([j \in 1 .. b - a |-> <<" ">> \o words[a + j]])

\* Mutant of GramsOf: the last gram of each length is lost.
GramsButLast(words, n) ==
  [i \in 1 .. (IF n < Len(words) THEN Len(words) - n ELSE 0) |-> Joined(words, i, i + n - 1)]

GramsOf(words, n) ==
  [i \in 1 .. (IF n <= Len(words) THEN Len(words) - n + 1 ELSE 0) |-> Joined(words, i, i + n - 1)]

NGram(x) ==
  LET low   == Attr(x, "n_min", 2)
      high  == Attr(x, "n_max", 2)
      of(r) == FlattenSeq([k \in 1 .. high - low + 1 |-> GramsOf(RowTokens(x.in[1], r), low + k - 1)])
  IN  Gives(<<TokensToTensor([r \in Rows(x) |-> of(r)])>>)

StopWordsRemover(x) ==
  LET stops  == Resolve(x, Len(x.in) + 1, "stop_words")
      key(w) == IF Attr(x, "case_sensitive", FALSE) THEN w ELSE StrLowercase(w)
      stop   == {key(w) : w \in Range(FlatOr(stops, 0, 0))} \ {<< >>}
  IN  Gives(<<TokensToTensor([r \in Rows(x) |->
                SelectSeq(RowTokens(x.in[1], r), LAMBDA w : key(w) \notin stop)])>>)

-----------------------------------------------------------------------------

\* Where a word stands in a vocabulary: vocab_index keeps the last place.
Places(vocab, w) == {k \in DOMAIN vocab : vocab[k] = w}
PlaceOf(vocab, w) == Max(Places(vocab, w))

CountVectorizer(x) ==
  LET vocab == FlatOr(Resolve(x, Len(x.in) + 1, "vocabulary"), 0, 0)
      count(r, k) == Len(SelectSeq(RowTokens(x.in[1], r),
                           LAMBDA w : Places(vocab, w) # {} /\ PlaceOf(vocab, w) = k))
  IN  IF vocab = << >> THEN Refuses
      ELSE Gives(<<Stored("f32", [r \in Rows(x) |-> [k \in DOMAIN vocab |->
                     IF Attr(x, "binary", FALSE) THEN IF count(r, k) > 0 THEN 1 ELSE 0
                     ELSE count(r, k)]])>>)

HashingVectorizer(x) ==
  LET n     == x.attrs["num_features"]
      in(r, b) == SelectSeq(RowTokens(x.in[1], r), LAMBDA w : HashBucket(w, n) = b)
      signs(ws) == Sum([i \in DOMAIN ws |-> IF Murmur(ws[i]) >= 0 THEN 1 ELSE -1])
      cell(ws) == IF Attr(x, "binary", FALSE) THEN IF ws # << >> THEN 1 ELSE 0
                  ELSE IF Attr(x, "alternate_sign", FALSE) THEN signs(ws) ELSE Len(ws)
  IN  Gives(<<Stored("f32", [r \in Rows(x) |-> [b \in 1 .. n |-> cell(in(r, b - 1))]])>>)

TfIdfTransformer(x) ==
  LET idf == Resolve64(x, Len(x.in) + 1, "idf")
      t   == x.in[1]
  IN  IF idf = NoTensor THEN Refuses
      ELSE Gives(<<Stored(Width(t), [r \in Rows(x) |-> [c \in Cols(t) |->
                            Times(Get(t, r, c), Get(idf, 1, c))]])>>)

\* The mean of the words that have an embedding, in double, rounded once.
Word2Vec(x) ==
  LET vocab == FlatOr(Resolve(x, Len(x.in) + 1, "vocabulary"), 0, 0)
      emb   == Resolve64(x, Len(x.in) + 1, "embeddings")
      known(r) == SelectSeq(RowTokens(x.in[1], r), LAMBDA w : Places(vocab, w) # {})
      sum(ws, d) == Sum([i \in DOMAIN ws |-> Get(emb, PlaceOf(vocab, ws[i]), d)])
  IN  IF vocab = << >> \/ emb = NoTensor THEN Refuses
      ELSE Gives(<<Stored("f32", [r \in Rows(x) |-> [d \in Cols(emb) |->
                     LET ws == known(r)
                     IN  Over(sum(ws, d), IF Len(ws) > 1 THEN Len(ws) ELSE 1)]])>>)

=============================================================================
