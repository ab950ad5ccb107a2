------------------------------- MODULE Descent ------------------------------
(***************************************************************************)
(* What the two recursive-descent parsers (src/parser.rs, src/filter.rs)   *)
(* have in common.  A parse of some tokens ends in a tree and the tokens   *)
(* left over, or in Malformed: the first error is the last thing either    *)
(* parser does, and its wording is left out.                               *)
(***************************************************************************)
EXTENDS Integers, Sequences

Malformed == [ok |-> FALSE, tree |-> <<>>, rest |-> <<>>]
Parsed(tree, rest) == [ok |-> TRUE, tree |-> tree, rest |-> rest]

Starts(tokens, t) == tokens # <<>> /\ Head(tokens) = t

\* The parse p with another tree made of its own.
Tree(p, Make(_)) == IF p.ok THEN Parsed(Make(p.tree), p.rest) ELSE Malformed

\* What continues after p.
After(p, Continue(_, _)) == IF p.ok THEN Continue(p.tree, p.rest) ELSE Malformed

\* All tokens have been read.
Complete(p) == p.ok /\ p.rest = <<>>
=============================================================================
