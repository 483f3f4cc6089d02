------------------------------- MODULE Lexer -------------------------------
(***************************************************************************)
(* From text to tokens (src/src/lexer.c).  A text is a sequence of         *)
(* lexemes: words, symbols, numbers, string literals, newlines, comments.  *)
(* What the lexer decides about them is which words are keywords, which    *)
(* "myon.<member>" are one token, and which newlines separate statements.  *)
(* How a single lexeme is spelt is left out, and with it the errors of     *)
(* spelling.                                                               *)
(*                                                                         *)
(* A token has a kind k - for a keyword or a symbol that is its text - and *)
(* a name x, a number n or the parts of a literal.                         *)
(***************************************************************************)
EXTENDS Integers, SequencesExt

LexWord(x)    == [k |-> "word", x |-> x]
LexSymbol(x)  == [k |-> "symbol", x |-> x]
LexInt(n)     == [k |-> "number", n |-> n]
LexString(parts) == [k |-> "string", parts |-> parts]
LexNewline    == [k |-> "newline"]
LexComment    == [k |-> "comment"]

(* PLAIN_KW and MYON_KW.                                                   *)
PlainKeywords ==
  {"system", "module", "ret", "str", "char", "int", "float", "bool", "void", "error",
   "then", "range", "self", "as", "true", "false"}
MyonKeywords ==
  {"if", "elif", "else", "while", "for", "in", "break", "continue", "func", "struct",
   "array", "map", "print", "input", "and", "or", "not", "nil", "expose", "lambda",
   "extends", "async", "await"}

Tok(k)        == [k |-> k]
IdentTok(x)   == [k |-> "ident", x |-> x]
EndOfFile     == Tok("eof")

(* scan_ident folds "myon", ".", member into one token if the member is a  *)
(* keyword; otherwise the three stay apart.                                *)
IsFolded(src, i) ==
  /\ i + 2 <= Len(src)
  /\ src[i] = LexWord("myon")
  /\ src[i + 1] = LexSymbol(".")
  /\ src[i + 2].k = "word"
  /\ src[i + 2].x \in MyonKeywords

WordToken(x) == IF x \in PlainKeywords \cup {"myon"} THEN Tok(x) ELSE IdentTok(x)

(* A newline counts outside of parentheses and brackets, and once.         *)
CountsNewline(toks, depth) ==
  /\ depth = 0
  /\ toks # <<>>
  /\ Last(toks).k # "newline"

Depth(x, depth) ==
  CASE x \in {"(", "["} -> depth + 1
    [] x \in {")", "]"} -> IF depth > 0 THEN depth - 1 ELSE 0
    [] OTHER -> depth

(* The next lexeme: t has the tokens so far, the depth of parentheses, and *)
(* the place of that lexeme.                                               *)
ScanLexeme(src, t) ==
  LET l == src[t.next]
      past(n) == [t EXCEPT !.next = @ + n]
      on(tok, n) == [past(n) EXCEPT !.toks = Append(@, tok)]
  IN CASE l.k = "comment" -> past(1)
       [] l.k = "newline" -> IF CountsNewline(t.toks, t.depth) THEN on(l, 1) ELSE past(1)
       [] l.k = "word"    -> IF IsFolded(src, t.next) THEN on(Tok("myon." \o src[t.next + 2].x), 3)
                                                      ELSE on(WordToken(l.x), 1)
       [] l.k = "symbol"  -> [on(Tok(l.x), 1) EXCEPT !.depth = Depth(l.x, t.depth)]
       [] OTHER           -> on(l, 1)

(* All lexemes up to j; by halves, to keep the recursion shallow.          *)
RECURSIVE Scan(_, _, _)
Scan(src, j, t) ==
  CASE t.next > j -> t
    [] t.next = j -> ScanLexeme(src, t)
    [] t.next < j -> Scan(src, j, Scan(src, (t.next + j) \div 2, t))

(* A newline at the end is taken off.                                      *)
LexerTokenize(src) ==
  LET toks == Scan(src, Len(src), [toks |-> <<>>, depth |-> 0, next |-> 1]).toks
      kept == IF toks # <<>> /\ Last(toks).k = "newline" THEN Front(toks) ELSE toks
  IN Append(kept, EndOfFile)
=============================================================================
