--------------------------------- MODULE Lexer ---------------------------------
(***************************************************************************)
(* axelcc's lexer (axelcc/src/lexer.c).  A source text is a sequence of    *)
(* pieces: a punctuation character, a digit, a blank, a line end, or a run *)
(* of letters.                                                             *)
(***************************************************************************)
EXTENDS Ast, FiniteSetsExt

CONSTANT Foreign    \* characters no token starts with

Blank == {" ", "\n"}
DigitSeq == <<"0", "1", "2", "3", "4", "5", "6", "7", "8", "9">>
Digit == ToSet(DigitSeq)
IsWordPiece(c) == c \notin Blank \cup Digit \cup Single \cup Foreign

(* The piece at i; the terminating NUL is not a piece. *)
At(s, i) == IF i \in DOMAIN s THEN s[i] ELSE "EOF"

(* The first place from i on whose piece fails (or passes) a test. *)
Upto(s, i, Stop(_)) ==
    Min({k \in i .. Len(s) : Stop(s[k])} \cup {Len(s) + 1})

(* A comment runs to the end of its line, or of the text. *)
RECURSIVE skip_whitespace_and_comments(_, _)
skip_whitespace_and_comments(s, i) ==
    LET j == Upto(s, i, LAMBDA c : c \notin Blank)
    IN  IF At(s, j) = "/" /\ At(s, j + 1) = "/"
        THEN skip_whitespace_and_comments(s, Upto(s, j, LAMBDA c : c = "\n"))
        ELSE j

(* The piece at i, the start of a word, a number or an operator, with the  *)
(* place after it.                                                         *)
lex_ident_or_keyword(s, i) ==
    LET j == Upto(s, i, LAMBDA c : ~IsWordPiece(c) /\ c \notin Digit)
        word == SubSeq(s, i, j - 1)
    IN  [i |-> j,
         tok |-> IF Len(word) = 1 /\ word[1] \in Keywords THEN Token(word[1], <<>>, 0)
                 ELSE Token("IDENT", word, 0)]

lex_int_lit(s, i) ==
    LET j == Upto(s, i, LAMBDA c : c \notin Digit)
        value == FoldLeft(LAMBDA v, d : 10 * v + (CHOOSE k \in 1 .. 10 : DigitSeq[k] = d) - 1,
                          0, SubSeq(s, i, j - 1))
    IN  [i |-> j, tok |-> Token("INT_LIT", <<>>, value)]

(* Fault: a second character is never looked at. *)
LexOperatorShort(s, i) ==
    [i |-> i + 1, tok |-> Token(IF s[i] \in Single THEN s[i] ELSE "ERROR", <<>>, 0)]

LexOperator(s, i) ==
    LET pair == <<s[i], At(s, i + 1)>>
    IN  IF pair \in DOMAIN Double
        THEN [i |-> i + 2, tok |-> Token(Double[pair], <<>>, 0)]
        ELSE [i |-> i + 1, tok |-> Token(IF s[i] \in Single THEN s[i] ELSE "ERROR", <<>>, 0)]

lexer_next(s, i) ==
    LET j == skip_whitespace_and_comments(s, i)
        c == At(s, j)
    IN  IF c = "EOF" THEN [i |-> j, tok |-> Token("EOF", <<>>, 0)]
        ELSE IF IsWordPiece(c) THEN lex_ident_or_keyword(s, j)
        ELSE IF c \in Digit THEN lex_int_lit(s, j)
        ELSE LexOperator(s, j)

(* The next n tokens, none after EOF; in halves, for TLC's stack. *)
RECURSIVE Lexed(_, _, _)
Lexed(s, i, n) ==
    LET next == lexer_next(s, i)
        a == Lexed(s, i, n \div 2)
        b == Lexed(s, a.i, n - n \div 2)
    IN  IF n = 1 THEN [i |-> next.i, toks |-> <<next.tok>>]
        ELSE IF Last(a.toks).type = "EOF" THEN a
        ELSE [i |-> b.i, toks |-> a.toks \o b.toks]

(* All the tokens the parser will ask for, the last one EOF. *)
Lex(s) == Lexed(s, 1, Len(s) + 1).toks

================================================================================
