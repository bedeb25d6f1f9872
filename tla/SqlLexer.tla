------------------------------ MODULE SqlLexer ------------------------------
(***************************************************************************)
(* The SQL lexer: internal/parser/sql/lexer.go, one action per iteration   *)
(* of its loops.                                                           *)
(*                                                                         *)
(* A source text is a sequence of atoms: a character that decides          *)
(* something is one, and so is a whole word, or a run of digits, because   *)
(* nothing tells the characters inside it apart.  Keywords are compared    *)
(* without regard to case by the code; here they have one spelling.        *)
(*                                                                         *)
(* A token is its kind and the span of the text it was read from.          *)
(***************************************************************************)
EXTENDS Integers, Sequences

\* The atoms that begin with a letter or underscore, and the runs of digits.
CONSTANTS Words, Digits

VARIABLES
    text,     \* the source
    pos,      \* of the next atom
    lexing,   \* what is being read at pos
    start,    \* where the token being read began
    toks      \* the tokens read so far

lexVars == <<text, pos, lexing, start, toks>>

Newline == "\n"
Nul == "NUL"    \* the byte 0, which a line comment is not read beyond
Blanks == {" ", "\t", "\r", Newline}
LineEnds == {Newline, Nul}
Punctuation == {"(", ")", ",", ";", "."}

\* Mutant: a semicolon taken for an operator.
OpSymbolsAndSemicolon ==
    {":", "=", "<", ">", "!", "~", "+", "-", "*", "/", "%", "^", "&", "|", "@", "[", "]", ";"}

OpSymbols == {":", "=", "<", ">", "!", "~", "+", "-", "*", "/", "%", "^", "&", "|", "@", "[", "]"}
IdentCont == Words \cup Digits \cup {"$"}

ASSUME AtomsAssumption ==
    /\ \A a \in Words \cup Digits :
          a \notin Blanks \cup Punctuation \cup OpSymbols \cup {"", "$", "'", "\"", Nul}
    /\ Words \cap Digits = {}

\* Strings and quoted identifiers, and what delimits each.
Quotation == {"string", "quoted"}
Delimiter == [string |-> "'", quoted |-> "\""]

Scanning == {"between", "line", "block", "done", "failed"}
TokenKinds == {"ident", "number", "op", "punct"} \cup Quotation
Reading == {"ident", "number", "fraction", "op"} \cup Quotation
Token(kind, first, last) == [kind |-> kind, first |-> first, last |-> last]

AtEnd == pos > Len(text)
\* The atom off places from here; past the end there is none.
PeekAt(off) == IF pos + off <= Len(text) THEN text[pos + off] ELSE ""
Peek == PeekAt(0)

\* The lexer of a text about to begin.
Lexing(src) == /\ text = src
               /\ pos = 1 /\ start = 1
               /\ lexing = "between"
               /\ toks = <<>>
\* The step that begins one.
LexFrom(src) == /\ text' = src
                /\ pos' = 1 /\ start' = 1
                /\ lexing' = "between"
                /\ toks' = <<>>

\* Read n more atoms, and go on with what follows.
Advance(n, next) == /\ pos' = pos + n
                    /\ lexing' = next
                    /\ UNCHANGED <<text, start, toks>>
\* Mutant: what ends a token is not consumed with it.
EmitUnread(kind, n) == /\ lexing' = "between"
                       /\ toks' = Append(toks, Token(kind, start, pos + n - 1))
                       /\ UNCHANGED <<text, pos, start>>

\* The token that began at start ends n atoms from here.
Emit(kind, n) == /\ pos' = pos + n
                 /\ lexing' = "between"
                 /\ toks' = Append(toks, Token(kind, start, pos + n - 1))
                 /\ UNCHANGED <<text, start>>
Begin(kind) == /\ start' = pos
               /\ pos' = pos + 1
               /\ lexing' = kind
               /\ UNCHANGED <<text, toks>>

-----------------------------------------------------------------------------
(* Between tokens.                                                         *)

AtLineComment == Peek = "-" /\ PeekAt(1) = "-"
AtBlockComment == Peek = "/" /\ PeekAt(1) = "*"
AtBlockEnd == Peek = "*" /\ PeekAt(1) = "/"

SkipBlank == lexing = "between" /\ Peek \in Blanks /\ Advance(1, "between")

OpenLineComment == lexing = "between" /\ AtLineComment /\ Advance(0, "line")
SkipLineComment == lexing = "line" /\ ~AtEnd /\ Peek \notin LineEnds /\ Advance(1, "line")

\* Mutant: a line comment is over at once, before its first atom.
CloseLineCommentAtOnce == lexing = "line" /\ Advance(0, "between")

CloseLineComment == lexing = "line" /\ (AtEnd \/ Peek \in LineEnds) /\ Advance(0, "between")

\* Mutant: the star that opens a comment may close it.
OpenBlockCommentShort == lexing = "between" /\ AtBlockComment /\ Advance(1, "block")

OpenBlockComment == lexing = "between" /\ AtBlockComment /\ Advance(2, "block")
SkipBlockComment == lexing = "block" /\ ~AtEnd /\ ~AtBlockEnd /\ Advance(1, "block")
CloseBlockComment == lexing = "block" /\ AtBlockEnd /\ Advance(2, "between")

\* The token that begins here, by its first atom.
BeginWord == lexing = "between" /\ Peek \in Words /\ Begin("ident")
BeginNumber == lexing = "between" /\ Peek \in Digits /\ Begin("number")
BeginQuotation ==
    /\ lexing = "between"
    /\ \E kind \in Quotation : Peek = Delimiter[kind] /\ Begin(kind)
BeginOp ==
    /\ lexing = "between" /\ ~AtLineComment /\ ~AtBlockComment
    /\ Peek \in OpSymbols
    /\ Begin("op")
ReadPunctuation ==
    /\ lexing = "between" /\ Peek \in Punctuation
    /\ start' = pos
    /\ pos' = pos + 1
    /\ toks' = Append(toks, Token("punct", pos, pos))
    /\ UNCHANGED <<text, lexing>>
UnexpectedCharacter ==
    /\ lexing = "between" /\ ~AtEnd
    /\ Peek \notin Blanks \cup Words \cup Digits \cup Punctuation \cup OpSymbols
    /\ \A kind \in Quotation : Peek # Delimiter[kind]
    /\ Advance(1, "failed")
EndOfText == lexing = "between" /\ AtEnd /\ Advance(0, "done")

-----------------------------------------------------------------------------
(* Inside a token.                                                         *)

ContinueWord == lexing = "ident" /\ Peek \in IdentCont /\ Advance(1, "ident")
EndWord == lexing = "ident" /\ Peek \notin IdentCont /\ Emit("ident", 0)

\* A number has one fraction at most, and only if digits follow the point.
ContinueNumber == lexing \in {"number", "fraction"} /\ Peek \in Digits /\ Advance(1, lexing)
BeginFraction ==
    lexing = "number" /\ Peek = "." /\ PeekAt(1) \in Digits /\ Advance(1, "fraction")
EndNumber ==
    /\ lexing \in {"number", "fraction"} /\ Peek \notin Digits
    /\ lexing = "number" => ~(Peek = "." /\ PeekAt(1) \in Digits)
    /\ Emit("number", 0)

ContinueOp == lexing = "op" /\ Peek \in OpSymbols /\ Advance(1, "op")
EndOp == lexing = "op" /\ Peek \notin OpSymbols /\ Emit("op", 0)

\* A doubled delimiter stands for one and does not close the quotation.
AtDelimiter == lexing \in Quotation /\ Peek = Delimiter[lexing]
SkipDoubled == AtDelimiter /\ PeekAt(1) = Delimiter[lexing] /\ Advance(2, lexing)
CloseQuotation == AtDelimiter /\ PeekAt(1) # Delimiter[lexing] /\ Emit(lexing, 1)
ContinueQuotation == lexing \in Quotation /\ ~AtEnd /\ ~AtDelimiter /\ Advance(1, lexing)

Unterminated == lexing \in Quotation \cup {"block"} /\ AtEnd /\ Advance(0, "failed")

LexBetween ==
    \/ SkipBlank \/ OpenLineComment \/ SkipLineComment \/ CloseLineComment
    \/ OpenBlockComment \/ SkipBlockComment \/ CloseBlockComment
    \/ BeginWord \/ BeginNumber \/ BeginQuotation \/ BeginOp \/ ReadPunctuation
    \/ UnexpectedCharacter \/ EndOfText
LexInside ==
    \/ ContinueWord \/ EndWord \/ ContinueNumber \/ BeginFraction \/ EndNumber
    \/ ContinueOp \/ EndOp \/ SkipDoubled \/ CloseQuotation \/ ContinueQuotation
    \/ Unterminated

LexNext == LexBetween \/ LexInside

-----------------------------------------------------------------------------

\* The lexer's state is well formed: what is read lies in the text.
LexTypeOK ==
    /\ pos \in 1 .. Len(text) + 1
    /\ start \in 1 .. pos
    /\ lexing \in Scanning \cup Reading
    /\ \A i \in DOMAIN toks : /\ toks[i].kind \in TokenKinds
                              /\ toks[i].first \in 1 .. toks[i].last
                              /\ toks[i].last < pos

\* splitStatements cuts at the tokens that are a semicolon: a semicolon is
\* never part of another token, unless it is quoted.
BoundarySafe ==
    \A i \in DOMAIN toks : \A at \in toks[i].first .. toks[i].last :
        text[at] = ";" => toks[i].kind \in Quotation \cup {"punct"}

\* Tokens follow each other in the text, and no atom is in two.
TokensInOrder ==
    \A i, j \in DOMAIN toks : i < j => toks[i].last < toks[j].first
=============================================================================
