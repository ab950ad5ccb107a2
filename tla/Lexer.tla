------------------------------- MODULE Lexer --------------------------------
(***************************************************************************)
(* The lexer (src/lexer.rs).  A source is a sequence of characters, names  *)
(* and texts are sequences of them too; a keyword is spelled by a short    *)
(* stand-in.  A token is a pair: <<"key", k>> for a keyword or punctuation *)
(* mark, <<"name", n>>, <<"literal", v>>, or <<"eof", "">>.                *)
(***************************************************************************)
EXTENDS Values, SequencesExt

CONSTANTS
    Keywords,   \* the token of each reserved word, by its spelling
    Letters     \* letters and the underscore

VARIABLES
    source,
    position,   \* offset, line and col of the lexer
    read,       \* the tokens read so far, each with the position it starts at
    lexing      \* "on", "done" or "failed"

lvars == <<source, position, read, lexing>>

Newline == "newline"
Tab == "tab"
Quote == "quote"
Escape == "backslash"
Return == "carriage return"
Space == {" ", Tab, Return, Newline}
Digits == {Numerals[n] : n \in DOMAIN Numerals}
Marks == {"(", ")", "{", "}", ",", ":", ".", ";", "[", "]", "+", "-", "*", "/", "%"}
Doubled ==
    [c \in {"!", "=", "<", ">"} |->
        CASE c = "!" -> "!=" [] c = "=" -> "==" [] c = "<" -> "<=" [] c = ">" -> ">="]
NoChar == "no character"

\* It stands for the end of a text alone.
ASSUME CharactersAssumption == NoChar \notin Letters \cup Digits

Sym(k) == <<"key", k>>
NameToken(n) == <<"name", n>>
Literal(v) == <<"literal", v>>
Eof == <<"eof", "">>
-----------------------------------------------------------------------------
Peek(text, at) ==
    IF at.offset < Len(text) THEN text[at.offset + 1] ELSE NoChar

\* Nothing at the end of the text.
Advance(text, at) ==
    CASE Peek(text, at) = NoChar -> at
      [] Peek(text, at) = Newline ->
           [offset |-> at.offset + 1, line |-> at.line + 1, col |-> 1]
      [] OTHER -> [offset |-> at.offset + 1, line |-> at.line, col |-> at.col + 1]

Places(text) == [offset : 0..Len(text), line : Nat, col : Nat]

\* A loop: one step after the other, up to where a step changes nothing.
Walk(step, from) ==
    LET walk[p \in DOMAIN step] == IF step[p] = p THEN p ELSE walk[step[p]]
    IN  walk[from]

\* Past all characters of these.
Past(text, at, chars) ==
    Walk([p \in Places(text) |->
             IF Peek(text, p) \in chars THEN Advance(text, p) ELSE p], at)

\* skip_whitespace_and_comments
Skip(text, at) ==
    Walk([p \in Places(text) |->
             CASE Peek(text, p) \in Space -> Advance(text, p)
               [] Peek(text, p) = "#" -> Past(text, p, ToSet(text) \ {Newline})
               [] OTHER -> p], at)

Lexed(token, at) == [ok |-> TRUE, token |-> token, after |-> at]
Unlexed(at) == [ok |-> FALSE, token |-> Eof, after |-> at]

Spelling(text, from, to) == SubSeq(text, from.offset + 1, to.offset)

Decimal(digits) ==
    FoldLeft(LAMBDA n, d : 10 * n + (CHOOSE k \in DOMAIN Numerals : Numerals[k] = d),
             0, digits)

\* Mutation of LexNumber: a point after the digits always belongs to the number.
LexNumberGreedy(text, at) ==
    LET whole == Past(text, at, Digits)
        end == Past(text, Advance(text, whole), Digits)
        n == Decimal(Spelling(text, at, whole))
    IN  IF Peek(text, whole) = "."
        THEN Lexed(Literal(<<"float", Spelling(text, at, end)>>), end)
        ELSE IF n > MaxInt THEN Unlexed(whole) ELSE Lexed(Literal(Int64(n)), whole)

\* A point belongs to the number when a digit follows it.  A float stays as it
\* is spelled.
LexNumber(text, at) ==
    LET whole == Past(text, at, Digits)
        point == Advance(text, whole)
        end == Past(text, point, Digits)
        n == Decimal(Spelling(text, at, whole))
    IN  IF Peek(text, whole) = "." /\ Peek(text, point) \in Digits
        THEN Lexed(Literal(<<"float", Spelling(text, at, end)>>), end)
        ELSE IF n > MaxInt THEN Unlexed(whole) ELSE Lexed(Literal(Int64(n)), whole)

LexIdentifier(text, at) ==
    LET end == Past(text, at, Letters \cup Digits)
        word == Spelling(text, at, end)
    IN  Lexed(IF word \in DOMAIN Keywords THEN Keywords[word] ELSE NameToken(word), end)

Escapes ==
    [c \in {"n", "t", "r", Escape, Quote} |->
        CASE c = "n" -> Newline [] c = "t" -> Tab [] c = "r" -> Return [] OTHER -> c]

\* One character of a text between quotes, or one escape; none at the closing
\* quote, an escape there is not, and the end.
TextStep(text, s) ==
    LET c == Peek(text, s.at)
        next == Advance(text, s.at)
        escaped == Peek(text, next)
    IN  CASE c = Escape /\ escaped \in DOMAIN Escapes ->
               [at |-> Advance(text, next), chars |-> Append(s.chars, Escapes[escaped])]
          [] c \notin {Escape, Quote, NoChar} ->
               [at |-> next, chars |-> Append(s.chars, c)]
          [] OTHER -> s

\* What may have been read of it.
TextsRead(text) ==
    [at    : Places(text),
     chars : Seq(ToSet(text) \cup {Escapes[c] : c \in DOMAIN Escapes})]

\* After the opening quote.
LexText(text, at) ==
    LET end == Walk([s \in TextsRead(text) |-> TextStep(text, s)],
                    [at |-> at, chars |-> <<>>])
        next == Advance(text, end.at)
    IN  IF Peek(text, end.at) = Quote THEN Lexed(Literal(Str(end.chars)), next)
        ELSE Unlexed(Advance(text, next))

\* The token at a position that is at no space and no comment.
LexAt(text, at) ==
    LET c == Peek(text, at)
        next == Advance(text, at)
    IN  CASE c = NoChar -> Lexed(Eof, at)
          [] c \in Marks -> Lexed(Sym(c), next)
          [] c \in DOMAIN Doubled /\ Peek(text, next) = "=" ->
               Lexed(Sym(Doubled[c]), Advance(text, next))
          [] c \in DOMAIN Doubled /\ Peek(text, next) # "=" -> Lexed(Sym(c), next)
          [] c = Quote -> LexText(text, next)
          [] c \in Digits -> LexNumber(text, at)
          [] c \in Letters -> LexIdentifier(text, at)
          [] OTHER -> Unlexed(at)
-----------------------------------------------------------------------------
Start == [offset |-> 0, line |-> 1, col |-> 1]

LexerInit ==
    /\ position = Start
    /\ read = <<>>
    /\ lexing = "on"

\* Mutation of NextToken: a token starts where the one before it ended.
NextTokenEarly ==
    LET t == LexAt(source, Skip(source, position))
    IN  /\ lexing = "on"
        /\ position' = t.after
        /\ read' = IF t.ok THEN Append(read, [token |-> t.token, start |-> position])
                   ELSE read
        /\ lexing' = IF ~t.ok THEN "failed" ELSE IF t.token = Eof THEN "done" ELSE "on"
        /\ UNCHANGED source

\* tokenize asks for tokens up to the end or the first error.
NextToken ==
    LET at == Skip(source, position)
        t == LexAt(source, at)
    IN  /\ lexing = "on"
        /\ position' = t.after
        /\ read' = IF t.ok THEN Append(read, [token |-> t.token, start |-> at]) ELSE read
        /\ lexing' = IF ~t.ok THEN "failed" ELSE IF t.token = Eof THEN "done" ELSE "on"
        /\ UNCHANGED source

\* Any sequence of characters, from its start.
IsText(text) == text \in Seq(ToSet(text))
LexerSpec == IsText(source) /\ LexerInit /\ [][NextToken]_lvars
-----------------------------------------------------------------------------
(* Properties.                                                             *)

\* What a place says of the text before it.
TruePlace(text, at) ==
    LET breaks == {j \in 1..at.offset : text[j] = Newline}
    IN  /\ at.line = 1 + Cardinality(breaks)
        /\ at.col = at.offset + 1 - (IF breaks = {} THEN 0 ELSE Max(breaks))

\* Every token, and so every message about it, is placed at its line and column
\* in the file, whatever lies before it: comments, texts over several lines,
\* escapes (lexer.rs:137).
PositionsAreTrue ==
    \A i \in DOMAIN read :
       LET at == read[i].start
       IN  /\ TruePlace(source, at)
           /\ read[i].token # Eof => source[at.offset + 1] \notin Space \cup {"#"}
=============================================================================
