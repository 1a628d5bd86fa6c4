------------------------------ MODULE SqlText ------------------------------
(***************************************************************************)
(* SQL texts as clients write them, put together step by step: characters  *)
(* for the tokenizer, and for the parser and the binding of parameters     *)
(* statements that grow, are decorated with optional words, and then get   *)
(* one token wrong.  stmts is what the client means by text.               *)
(***************************************************************************)
EXTENDS SqlParameters, SqlTokenizer

CONSTANTS
  Bases,       \* the statements a client starts from
  Conditions,  \* the comparisons put into their WHERE
  EditTokens,  \* the tokens put in by mistake
  Chars,       \* the characters typed
  MaxChars,    \* bound: characters typed
  MaxTokens,   \* bound: tokens of a statement that still grows
  MaxStatements \* bound: statements of a text

VARIABLES
  chars,   \* a text for the tokenizer, as characters
  stmts,
  text,    \* a text for the parser, as tokens
  edited   \* "no", "decorated" or "wrong"

vars == <<chars, stmts, text, edited>>

-----------------------------------------------------------------------------
(* How statements are written: the grammar the parser is held to. *)

Symbols(ks) == [i \in DOMAIN ks |-> Symbol(ks[i])]

\* The items of xs with commas between them.
Commas(xs) ==
  FoldLeft(LAMBDA acc, x : IF acc = <<>> THEN x ELSE Append(acc, Symbol(",")) \o x, <<>>, xs)

Parens(ts) == <<Symbol("(")>> \o ts \o <<Symbol(")")>>

WriteLiteral(x) ==
  CASE x.type \in {"Integer", "Float"} -> Number(x.s)
    [] x.type = "String"               -> Quoted(x.s)
    [] OTHER                           -> Symbol(x.type)

RECURSIVE WriteExpr(_)
WriteExpr(x) ==
  CASE x.e = "Literal"     -> <<WriteLiteral(x)>>
    [] x.e = "Column"      -> <<Ident(x.c)>>
    [] x.e = "Compound"    -> <<Ident(x.t), Symbol("."), Ident(x.c)>>
    [] x.e = "Placeholder" -> <<Symbol("?")>>
    [] x.e = "Binary"      -> WriteExpr(x.l) \o <<Symbol(x.op)>> \o WriteExpr(x.r)
    [] x.e = "Nested"      -> Parens(WriteExpr(x.x))
    [] x.e = "Agg"         -> <<Symbol(x.f)>> \o Parens(
                                IF x.f = "COUNT" /\ x.x = Literal("Integer", "1")
                                THEN <<Symbol("*")>> ELSE WriteExpr(x.x))

TypeWord(type) ==
  CASE type = "Integer" -> "INTEGER" [] type = "Float" -> "REAL" [] type = "String" -> "TEXT"
    [] type = "Boolean" -> "BOOLEAN" [] type = "Blob" -> "BLOB"

WriteColumnDef(d) ==
  <<Ident(d.name), Symbol(TypeWord(d.type))>>
    \o (IF d.nullable = <<>> THEN <<>> ELSE Symbols(<<"NOT", "NULL">>))
    \o (IF d.default = <<>> THEN <<>> ELSE <<Symbol("DEFAULT")>> \o WriteExpr(d.default[1]))

WriteSelected(c) ==
  WriteExpr(c.expr) \o (IF c.alias = <<>> THEN <<>> ELSE <<Symbol("AS"), Ident(c.alias[1])>>)

\* A condition of a join may name either side first.
WriteJoin(j, flip) ==
  LET Side(s) == <<Ident(s[1]), Symbol("."), Ident(s[2])>>
  IN  <<Symbol("JOIN"), Ident(j.table), Symbol("ON")>>
        \o Side(IF flip THEN j.right ELSE j.left) \o <<Symbol("=")>>
        \o Side(IF flip THEN j.left ELSE j.right)

WriteWhere(sel) == IF sel = <<>> THEN <<>> ELSE <<Symbol("WHERE")>> \o WriteExpr(sel[1])
WriteU64(k, n) == IF n = <<>> THEN <<>> ELSE <<Symbol(k), Number(n[1])>>

Each(xs, Write(_)) == Commas([i \in DOMAIN xs |-> Write(xs[i])])

Write(st, flip) ==
  CASE st.st = "Create" ->
         Symbols(<<"CREATE", "TABLE">>) \o <<Ident(st.name)>> \o Parens(Each(st.columns, WriteColumnDef))
    [] st.st = "Drop"   -> Symbols(<<"DROP", "TABLE">>) \o <<Ident(st.name)>>
    [] st.st = "Alter"  -> Symbols(<<"ALTER", "TABLE">>) \o <<Ident(st.name), Symbol("ADD")>>
                             \o WriteColumnDef(st.add)
    [] st.st = "Insert" ->
         Symbols(<<"INSERT", "INTO">>) \o <<Ident(st.table)>>
           \o (IF st.columns = <<>> THEN <<>> ELSE Parens(Each(st.columns, LAMBDA c : <<Ident(c)>>)))
           \o <<Symbol("VALUES")>> \o Each(st.values, LAMBDA row : Parens(Each(row, WriteExpr)))
    [] st.st = "Update" ->
         <<Symbol("UPDATE"), Ident(st.table), Symbol("SET")>>
           \o Each(st.assignments, LAMBDA a : <<Ident(a.column), Symbol("=")>> \o WriteExpr(a.value))
           \o WriteWhere(st.selection)
    [] st.st = "Delete" ->
         Symbols(<<"DELETE", "FROM">>) \o <<Ident(st.table)>> \o WriteWhere(st.selection)
    [] st.st = "Select" ->
         <<Symbol("SELECT")>>
           \o (IF st.columns = <<>> THEN <<Symbol("*")>> ELSE Each(st.columns, WriteSelected))
           \o <<Symbol("FROM"), Ident(st.table)>>
           \o (IF st.join = <<>> THEN <<>> ELSE WriteJoin(st.join[1], flip))
           \o WriteWhere(st.selection)
           \o (IF st.orderBy = <<>> THEN <<>>
               ELSE Symbols(<<"ORDER", "BY">>) \o <<Ident(st.orderBy[1].column)>>
                      \o (IF st.orderBy[1].descending THEN <<Symbol("DESC")>> ELSE <<>>))
           \o WriteU64("LIMIT", st.limit) \o WriteU64("OFFSET", st.offset)

\* Statements are written with a semicolon after each.
WriteAll(sts, flip) == FlattenSeq([i \in DOMAIN sts |-> Append(Write(sts[i], flip), Symbol(";"))])

\* One more condition at the end of a WHERE: AND binds tighter than OR.
AndAlso(x, c) ==
  IF x.e = "Binary" /\ x.op = "OR" THEN Binary(x.l, "OR", Binary(x.r, "AND", c))
  ELSE Binary(x, "AND", c)
OrElse(x, c) == Binary(x, "OR", c)

-----------------------------------------------------------------------------
(* Actions *)

Init == chars = <<>> /\ stmts = <<>> /\ text = <<>> /\ edited = "no"

Type(c) ==
  /\ stmts = <<>> /\ Len(chars) < MaxChars
  /\ chars' = Append(chars, c)
  /\ UNCHANGED <<stmts, text, edited>>

Mean(sts) ==
  /\ edited = "no" /\ chars = <<>>
  /\ stmts' = sts
  /\ \E flip \in BOOLEAN : text' = WriteAll(sts, flip)
  /\ UNCHANGED <<chars, edited>>

NewStatement(st) ==
  /\ Len(stmts) < MaxStatements
  /\ Mean(Append(stmts, st))

AddCondition(c) ==
  /\ stmts # <<>> /\ Last(stmts).st \in {"Select", "Update", "Delete"}
  /\ Len(text) <= MaxTokens
  /\ LET sel == Last(stmts).selection
     IN  \E new \in IF sel = <<>> THEN {c, Nested(c)}
                    ELSE {AndAlso(sel[1], c), OrElse(sel[1], c), Binary(Nested(sel[1]), "AND", c)} :
           Mean(Append(Front(stmts), [Last(stmts) EXCEPT !.selection = <<new>>]))

Types == {"INTEGER", "INT", "BIGINT", "FLOAT", "DOUBLE", "REAL", "STRING", "TEXT", "VARCHAR",
          "CHAR", "BOOLEAN", "BLOB", "BYTEA", "VARBINARY", "BINARY"}

\* The words a text may have or not have, at the places where it may.
Optional(ts, i) ==
  LET next == Current(SubSeq(ts, i + 1, Len(ts)))
  IN  (IF ts[i].k \in Types /\ next # "(" THEN {Parens(<<Number("2")>>)} ELSE {})
        \cup (IF ts[i].k = "ADD" /\ next # "COLUMN" THEN {<<Symbol("COLUMN")>>} ELSE {})
        \cup (IF ts[i].k # "INNER" /\ next = "JOIN" THEN {<<Symbol("INNER")>>} ELSE {})
        \cup (IF i > 2 /\ ts[i - 1].k = "BY" /\ next \notin {"ASC", "DESC"}
              THEN {<<Symbol("ASC")>>} ELSE {})

InsertedAt(ts, i, new) == SubSeq(ts, 1, i) \o new \o SubSeq(ts, i + 1, Len(ts))

Decorate(i) ==
  /\ edited # "wrong"
  /\ \E new \in Optional(text, i) : text' = InsertedAt(text, i, new)
  /\ edited' = "decorated"
  /\ UNCHANGED <<chars, stmts>>

\* The semicolon between two statements or at the end is left out.
LeaveOutSemicolon(i) ==
  /\ edited # "wrong" /\ text[i].k = ";"
  /\ text' = RemoveAt(text, i)
  /\ edited' = "decorated"
  /\ UNCHANGED <<chars, stmts>>

\* One token too few, too many or wrong.
Mistake(ts) ==
  /\ edited = "no" /\ Len(stmts) = 1
  /\ text' = ts /\ edited' = "wrong"
  /\ UNCHANGED <<chars, stmts>>

Next ==
  \/ \E c \in Chars : Type(c)
  \/ \E st \in Bases : NewStatement(st)
  \/ \E c \in Conditions : AddCondition(c)
  \/ \E i \in DOMAIN text : Decorate(i) \/ LeaveOutSemicolon(i)
  \/ \E i \in DOMAIN text :
       \/ Mistake(RemoveAt(text, i))
       \/ \E t \in EditTokens : Mistake(InsertedAt(text, i, <<t>>)) \/ Mistake([text EXCEPT ![i] = t])

Spec == Init /\ [][Next]_vars

-----------------------------------------------------------------------------
(* Properties *)

\* The parser finds in a text what its writer meant, with or without the
\* optional words, whichever side of a join is named first.
RoundTrip == edited # "wrong" => ParseStatements(text) = Ok(stmts, <<>>)

\* A text without its optional words, with one word for each type.
RECURSIVE Plain(_)
Plain(ts) ==
  CASE ts = <<>> -> <<>>
    [] Head(ts).k \in {";", "COLUMN", "INNER", "ASC"} -> Plain(Tail(ts))
    [] Head(ts).k \in Types ->
         <<Symbol(DataType(Head(ts).k))>>
           \o Plain(IF Current(Tail(ts)) = "(" THEN SubSeq(ts, 5, Len(ts)) ELSE Tail(ts))
    [] OTHER -> <<Head(ts)>> \o Plain(Tail(ts))

NoTokenizerError == \A i \in DOMAIN text : text[i].k # "Eof"

\* The parser accepts no text of which it leaves something out, but for the
\* optional words: what it returns is written like the text it was given.  The
\* end of the text must be its end: a tokenizer error also ends it.
AcceptedIsComplete ==
  LET r == ParseStatements(text)
  IN  r.ok /\ NoTokenizerError =>
        Plain(text) \in {Plain(WriteAll(r.v, flip)) : flip \in BOOLEAN}

Marks == SelectSeq([i \in DOMAIN text |-> i], LAMBDA i : text[i].k = "?")

\* Placeholders where binding looks: not among the selected columns, not in a
\* column's default, not in an aggregate.
InScope ==
  /\ \A i \in DOMAIN text : text[i].k \notin AggFuncs \cup {"CREATE"}
  /\ \A i \in DOMAIN text : text[i].k = "SELECT" =>
       \A j \in i .. Len(text) : text[j].k = "?" => \E f \in i .. j : text[f].k = "FROM"

Parameters == [i \in DOMAIN Marks |-> Literal("String", i)]

\* The text with the parameters written where the placeholders are.
WrittenOut ==
  [i \in DOMAIN text |->
     IF text[i].k = "?" THEN WriteLiteral(Parameters[CHOOSE n \in DOMAIN Marks : Marks[n] = i])
     ELSE text[i]]

\* Binding is writing: the k-th parameter goes where the k-th `?` of the text
\* is, as if the text had had the literal there, and as many are asked for.
BindIsWriting ==
  LET r == ParseStatements(text)
  IN  r.ok /\ NoTokenizerError /\ InScope =>
        /\ CountParams(r.v) = Len(Marks)
        /\ Bind(r.v, Parameters) = ParseStatements(WrittenOut).v

Doubled(cs) == FlattenSeq([i \in DOMAIN cs |-> IF cs[i] = Quote THEN <<Quote, Quote>> ELSE <<cs[i]>>])

\* Any text between single quotes, with its own quotes doubled, is one string
\* and comes back as it was.
QuotedVerbatim ==
  Tokens(<<Quote>> \o Doubled(chars) \o <<Quote>>) = <<Token("String", chars)>>

\* A blank outside of strings separates tokens and does nothing else: no token
\* reaches over it, and without an error before it the rest is read as if it
\* stood alone.
SpaceSeparates ==
  \A i \in DOMAIN chars :
    LET before == Tokens(SubSeq(chars, 1, i - 1))
    IN  chars[i] = Space /\ (\A j \in DOMAIN before : before[j] # Eof) =>
          Tokens(chars) = before \o Tokens(SubSeq(chars, i + 1, Len(chars)))

\* Both of every text: what the tokenizer takes apart is what was put together.
TokensExact == QuotedVerbatim /\ SpaceSeparates
=============================================================================
