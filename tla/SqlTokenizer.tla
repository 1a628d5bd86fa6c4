---------------------------- MODULE SqlTokenizer ----------------------------
(***************************************************************************)
(* local_parser/tokenizer.rs on a sequence of characters.  A word is kept  *)
(* as the characters it has: whether it is a keyword is a table lookup.    *)
(*                                                                         *)
(* next_token gives a token or an error; the parser takes every error for  *)
(* Eof (unwrap_or in Parser::new and advance), so an error is an "Eof"     *)
(* token here.  After a bad character the tokenizer stays where it is.     *)
(***************************************************************************)
LOCAL INSTANCE Naturals
LOCAL INSTANCE Sequences

CONSTANTS Letters, Digits  \* characters; `_` counts as a letter

Space == " "
Quote == "'"
DoubleQuote == "\""
Punctuation == {"(", ")", ",", ";", ".", "*", "=", "?"}

Token(k, s) == [k |-> k, s |-> s]
Eof == Token("Eof", <<>>)

\* The length of the longest prefix of cs over the set S.
RECURSIVE PrefixLength(_, _)
PrefixLength(cs, S) ==
  IF cs = <<>> \/ Head(cs) \notin S THEN 0 ELSE 1 + PrefixLength(Tail(cs), S)

From(cs, i) == SubSeq(cs, i, Len(cs))

SkipSpace(cs) == From(cs, PrefixLength(cs, {Space}) + 1)

\* A token and the characters after it.
Scanned(token, rest) == [token |-> token, rest |-> rest]

ScanWord(cs) ==
  LET n == PrefixLength(cs, Letters \cup Digits)
  IN  Scanned(Token("Word", SubSeq(cs, 1, n)), From(cs, n + 1))

ScanNumber(cs) ==
  LET n == PrefixLength(cs, Digits \cup {"."})
  IN  Scanned(Token("Number", SubSeq(cs, 1, n)), From(cs, n + 1))

\* Mutant: a doubled quote ends the string.
RECURSIVE QuotedNoEscape(_, _)
QuotedNoEscape(cs, content) ==
  CASE cs = <<>>        -> Scanned(Eof, <<>>)
    [] Head(cs) = Quote -> Scanned(Token("String", content), Tail(cs))
    [] OTHER            -> QuotedNoEscape(Tail(cs), Append(content, Head(cs)))

\* The rest of a single-quoted string whose content so far is known: a doubled
\* quote stands for one, and without an end it is an error at the end.
RECURSIVE ScanQuoted(_, _)
ScanQuoted(cs, content) ==
  CASE cs = <<>>              -> Scanned(Eof, <<>>)
    [] Head(cs) # Quote       -> ScanQuoted(Tail(cs), Append(content, Head(cs)))
    [] From(cs, 2) # <<>> /\ cs[2] = Quote -> ScanQuoted(From(cs, 3), Append(content, Quote))
    [] OTHER                  -> Scanned(Token("String", content), Tail(cs))

\* A double-quoted string ends at the next double quote, doubled or not.
RECURSIVE ScanDoubleQuoted(_, _)
ScanDoubleQuoted(cs, content) ==
  CASE cs = <<>>              -> Scanned(Eof, <<>>)
    [] Head(cs) = DoubleQuote -> Scanned(Token("String", content), Tail(cs))
    [] OTHER                  -> ScanDoubleQuoted(Tail(cs), Append(content, Head(cs)))

\* `!`, `<` and `>` look at the next character.
ScanOperator(cs) ==
  LET next == IF Len(cs) > 1 THEN cs[2] ELSE Space
      Two(op) == Scanned(Token(op, <<>>), From(cs, 3))
      One(op) == Scanned(Token(op, <<>>), Tail(cs))
  IN  CASE next = "=" -> Two(IF Head(cs) = "!" THEN "!=" ELSE IF Head(cs) = "<" THEN "<=" ELSE ">=")
        [] Head(cs) = "<" /\ next = ">" -> Two("!=")
        [] Head(cs) = "!" -> Scanned(Eof, Tail(cs))
        [] OTHER -> One(Head(cs))

\* next_token
NextToken(cs) ==
  LET c == Head(cs)
  IN  CASE cs = <<>>                -> Scanned(Eof, <<>>)
        [] c \in Punctuation        -> Scanned(Token(c, <<>>), Tail(cs))
        [] c \in {"!", "<", ">"}    -> ScanOperator(cs)
        [] c = Quote                -> ScanQuoted(Tail(cs), <<>>)
        [] c = DoubleQuote          -> ScanDoubleQuoted(Tail(cs), <<>>)
        [] c \in Letters            -> ScanWord(cs)
        [] c \in Digits             -> ScanNumber(cs)
        [] OTHER                    -> Scanned(Eof, cs)

\* The tokens the parser is given until the text is read or the tokenizer is
\* stuck at a bad character.
RECURSIVE Tokens(_)
Tokens(cs) ==
  LET text == SkipSpace(cs)
      next == NextToken(text)
  IN  IF text = <<>> THEN <<>>
      ELSE IF next.rest = text THEN <<Eof>>
      ELSE <<next.token>> \o Tokens(next.rest)
=============================================================================
