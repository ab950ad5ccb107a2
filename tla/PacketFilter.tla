---------------------------- MODULE PacketFilter ----------------------------
(***************************************************************************)
(* The packet filter (src/filter.rs): its recursive-descent parser over    *)
(* the tokens of an expression, and how an expression is written.          *)
(*                                                                         *)
(* A token is a word, "(" or ")", an operator, or a number: the parts      *)
(* between the dots of its text, so <<80>> for 80 and <<10, 0, 0, 1>> for  *)
(* an address.  A parse ends in a tree and what is left of the tokens, or  *)
(* in Malformed.                                                           *)
(***************************************************************************)
EXTENDS Descent, FilterTree

CONSTANTS MaxPort, MaxLength   \* u16::MAX and u32::MAX, scaled down

Word(text) == [kind |-> "word", text |-> text]
Number(parts) == [kind |-> "number", text |-> parts]
Bracket(text) == [kind |-> "bracket", text |-> text]
Operator(text) == [kind |-> "op", text |-> text]
-----------------------------------------------------------------------------
Keyword(tokens, text) == Starts(tokens, Word(text))

\* parse_u16 and parse_u32
ParseNumber(tokens, limit) ==
    IF /\ tokens # <<>> /\ Head(tokens).kind = "number"
       /\ Len(Head(tokens).text) = 1 /\ Head(tokens).text[1] \in 0..limit
    THEN Parsed(Head(tokens).text[1], Tail(tokens)) ELSE Malformed

ParseIp(tokens) ==
    IF /\ tokens # <<>> /\ Head(tokens).kind = "number"
       /\ Len(Head(tokens).text) = 4
       /\ \A i \in 1..4 : Head(tokens).text[i] \in 0..255
    THEN Parsed(Head(tokens).text, Tail(tokens)) ELSE Malformed

\* "tcp" and "udp", by themselves or with a port.
ParseProto(name, tokens) ==
    IF Keyword(tokens, "port")
    THEN Tree(ParseNumber(Tail(tokens), MaxPort),
              LAMBDA n : And(Proto(name), Port(n)))
    ELSE Parsed(Proto(name), tokens)

Comparators == {"==", "!=", "<", ">", "<=", ">="}

ParseLength(tokens) ==
    IF \E op \in Comparators : Starts(tokens, Operator(op))
    THEN Tree(ParseNumber(Tail(tokens), MaxLength),
              LAMBDA n : Length(Head(tokens).text, n))
    ELSE Malformed

ParsePredicate(tokens) ==
    LET word == Head(tokens).text
        rest == Tail(tokens)
    IN  CASE word \in {"tcp", "udp"} -> ParseProto(word, rest)
          [] word = "icmp" -> Parsed(Proto("icmp"), rest)
          [] word = "port" -> Tree(ParseNumber(rest, MaxPort), Port)
          [] word \in {"src", "dst", "host", "ip"} ->
               Tree(ParseIp(rest), LAMBDA ip : Address(word, ip))
          [] word = "len" -> ParseLength(rest)
          [] OTHER -> Malformed

RECURSIVE ParseOr(_), ParseAnd(_), ParseNot(_), MoreOr(_), MoreAnd(_)

ParseAtom(tokens) ==
    IF tokens = <<>> THEN Malformed
    ELSE CASE Head(tokens) = Bracket("(") ->
                After(ParseOr(Tail(tokens)), LAMBDA e, rest :
                   IF Starts(rest, Bracket(")")) THEN Parsed(e, Tail(rest))
                   ELSE Malformed)
           [] Head(tokens).kind = "word" -> ParsePredicate(tokens)
           [] OTHER -> Malformed

ParseNot(tokens) ==
    IF Keyword(tokens, "not") THEN Tree(ParseNot(Tail(tokens)), Not)
    ELSE ParseAtom(tokens)

\* Mutation of MoreAnd: what follows an "and" is all its right side.
GroupsRight(left) ==
    After(left, LAMBDA l, rest :
       IF Keyword(rest, "and")
       THEN Tree(ParseOr(Tail(rest)), LAMBDA r : And(l, r)) ELSE left)

MoreAnd(left) ==
    After(left, LAMBDA l, rest :
       IF Keyword(rest, "and")
       THEN MoreAnd(Tree(ParseNot(Tail(rest)), LAMBDA r : And(l, r)))
       ELSE left)

ParseAnd(tokens) == MoreAnd(ParseNot(tokens))

MoreOr(left) ==
    After(left, LAMBDA l, rest :
       IF Keyword(rest, "or")
       THEN MoreOr(Tree(ParseAnd(Tail(rest)), LAMBDA r : Or(l, r)))
       ELSE left)

ParseOr(tokens) == MoreOr(ParseAnd(tokens))

\* Filter::parse: nothing may be left over.
ParseFilter(tokens) ==
    IF Complete(ParseOr(tokens)) THEN ParseOr(tokens) ELSE Malformed
-----------------------------------------------------------------------------
(* The grammar in the head of src/filter.rs, read the other way: how an    *)
(* expression is written with no more brackets than it needs.              *)

\* "tcp port 80"
Short(e) == e.kind = "and" /\ e.left.kind \in {"tcp", "udp"} /\ e.right.kind = "port"

Binds(e) ==
    CASE e.kind = "or" -> 1 [] e.kind = "and" /\ ~Short(e) -> 2 [] OTHER -> 3

RECURSIVE Written(_)
Written(e) ==
    LET in(x, least) == IF Binds(x) >= least THEN Written(x)
                        ELSE <<Bracket("(")>> \o Written(x) \o <<Bracket(")")>>
    IN  CASE e.kind = "not" -> <<Word("not")>> \o in(e.arg, 3)
          [] Short(e) -> Written(e.left) \o Written(e.right)
          [] e.kind \in {"and", "or"} /\ ~Short(e) ->
               in(e.left, Binds(e)) \o <<Word(e.kind)>> \o in(e.right, Binds(e) + 1)
          [] e.kind = "port" -> <<Word("port"), Number(<<e.port>>)>>
          [] e.kind = "len" -> <<Word("len"), Operator(e.op), Number(<<e.n>>)>>
          [] e.kind \in {"src", "dst", "host", "ip"} -> <<Word(e.kind), Number(e.ip)>>
          [] OTHER -> <<Word(e.kind)>>

\* An expression means the tree it was written from: "not" binds closest, then
\* "and", then "or", and both group to the left.  With anything after it it is
\* refused; cut short anywhere it is refused too, unless what is left is a whole
\* expression of the same words: none is passed over (filter.rs:104).
ReadsBack(e) ==
    LET text == Written(e)
        words(s) == SelectSeq(s, LAMBDA t : t.kind # "bracket")
    IN  /\ ParseFilter(text) = Parsed(e, <<>>)
        /\ ~ParseFilter(text \o <<Word("tcp")>>).ok
        /\ \A n \in 0..(Len(text) - 1) :
              LET cut == ParseFilter(SubSeq(text, 1, n))
              IN  cut.ok => words(Written(cut.tree)) = words(SubSeq(text, 1, n))
=============================================================================
