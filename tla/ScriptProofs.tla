----------------------------- MODULE ScriptProofs -----------------------------
(***************************************************************************)
(* Proofs about the migration files, for every script.                     *)
(*                                                                         *)
(* First that the tokens read follow each other, and no semicolon that is  *)
(* not quoted is inside one.  Inv adds to these what is known of the token *)
(* being read: it has begun, after every token read before it (Begun), and *)
(* unless it is quoted it has no semicolon so far (Unbroken).              *)
(*                                                                         *)
(* Then, for every script that is well written, that its tokens are read   *)
(* back from the file it is written to.  The text of a script is laid out  *)
(* (Laid): each token has its place in it, and behind each are places at   *)
(* which a blank, a comment or the next token begins.  The lexer is at one *)
(* of them, or inside a comment, or inside the token that comes next       *)
(* (OnTrack); when the text is cut short it may leave this track, but only *)
(* at its end (Astray).  No step of it does anything else (TrackKept), and *)
(* a script is laid out by what it is written with (LayoutExists).         *)
(*                                                                         *)
(* Last what the parser makes of the tokens, when the script is ordinary.  *)
(* It finds every part of a statement where the part was written, one form *)
(* of an action after the other (StatementRead); the statements of a file  *)
(* are those between its semicolons (FileRead); and an operation does to a *)
(* schema what executing the statement does, unless the parser says that   *)
(* it does not know the outcome (FileAgrees).                              *)
(***************************************************************************)
EXTENDS SqlScripts, SequenceTheorems, TLAPS

Count == INSTANCE FoldFacts WITH Op <- LAMBDA c, d, n, t : n + Len(Spelled(t))

-----------------------------------------------------------------------------
(* Lists.                                                                  *)

\* What appending does to a list.
LEMMA TextFacts ==
    ASSUME NEW s, IsList(s)
    PROVE  /\ Len(s) \in Nat
           /\ DOMAIN s = 1 .. Len(s)
           /\ \A x : /\ IsList(Append(s, x))
                     /\ ToSet(Append(s, x)) = ToSet(s) \cup {x}
                     /\ Len(Append(s, x)) = Len(s) + 1
<1>1. s \in Seq(ToSet(s))
    BY DEF IsList
<1>2. Len(s) \in Nat /\ DOMAIN s = 1 .. Len(s)
    BY <1>1
<1>3. ASSUME NEW x
      PROVE  /\ IsList(Append(s, x))
             /\ ToSet(Append(s, x)) = ToSet(s) \cup {x}
             /\ Len(Append(s, x)) = Len(s) + 1
    <2> DEFINE S == ToSet(s) \cup {x}
               t == Append(s, x)
    <2>1. s \in Seq(S)
        BY <1>1
    <2>2. /\ t \in Seq(S) /\ Len(t) = Len(s) + 1
          /\ DOMAIN t = 1 .. Len(s) + 1 /\ t[Len(s) + 1] = x
          /\ \A j \in 1 .. Len(s) : t[j] = s[j]
        <3> HIDE DEF S
        <3>1. x \in S BY DEF S
        <3>. QED BY <2>1, <3>1
    <2>3. ToSet(t) \subseteq S
        BY <1>2, <2>2 DEF ToSet
    <2>4. S \subseteq ToSet(t)
        <3>1. Len(s) + 1 \in DOMAIN t BY <1>2, <2>2
        <3>2. \A j \in DOMAIN s : j \in DOMAIN t /\ t[j] = s[j] BY <1>2, <2>2
        <3>. QED BY <3>1, <3>2, <2>2 DEF ToSet
    <2>5. ToSet(t) = S
        BY <2>3, <2>4
    <2>. QED BY <2>2, <2>5 DEF IsList
<1>. QED BY <1>2, <1>3

\* The lexer of one text.
LexSpec(src) == Lexing(src) /\ [][LexNext]_lexVars

Tokens == [kind : TokenKinds, first : Int, last : Int]
NoSemicolon(first, last) == \A at \in first .. last : text[at] # ";"

Sequences == Len(text) \in Nat /\ toks \in Seq(Tokens)
Begun == lexing \in Reading =>
    /\ start < pos
    /\ \A i \in DOMAIN toks : toks[i].last < start
Unbroken == lexing \in Reading \ Quotation => NoSemicolon(start, pos - 1)

Inv == Sequences /\ LexTypeOK /\ BoundarySafe /\ TokensInOrder /\ Begun /\ Unbroken

-----------------------------------------------------------------------------
(* What the state and the atom at hand say.                                *)

\* The types of the state's parts.
LEMMA StateFacts ==
    ASSUME Inv
    PROVE  /\ Len(text) \in Nat /\ toks \in Seq(Tokens)
           /\ pos \in 1 .. Len(text) + 1 /\ start \in 1 .. pos
           /\ lexing \in Scanning \cup Reading
           /\ \A i \in DOMAIN toks : /\ toks[i].first \in Int /\ toks[i].last \in Int
                                     /\ toks[i].last < pos
<1>1. \A i \in DOMAIN toks : toks[i] \in Tokens
    BY DEF Inv, Sequences
<1>2. \A t \in Tokens : t.first \in Int /\ t.last \in Int
    BY DEF Tokens
<1>. QED BY <1>1, <1>2 DEF Inv, Sequences, LexTypeOK

\* What delimits is an atom.
LEMMA Delimiters == \A kind \in Quotation : Delimiter[kind] # ""
<1>1. Delimiter["string"] # "" /\ Delimiter["quoted"] # ""
    BY DEF Delimiter
<1>. QED BY <1>1 DEF Quotation

\* An atom that is there is in the text; one of these classes is there, and is
\* no semicolon.
LEMMA PeekFacts ==
    ASSUME Len(text) \in Nat, pos \in 1 .. Len(text) + 1, NEW off \in {0, 1}
    PROVE  /\ PeekAt(off) # "" => pos + off <= Len(text)
           /\ PeekAt(off) \in IdentCont \cup OpSymbols \cup {"."} =>
                 pos + off <= Len(text) /\ NoSemicolon(pos + off, pos + off)
<1>1. /\ "" \notin IdentCont \cup OpSymbols \cup {"."}
      /\ ";" \notin IdentCont \cup OpSymbols \cup {"."}
    BY AtomsAssumption DEF IdentCont, OpSymbols, Punctuation
<1>2. PeekAt(off) # "" => pos + off <= Len(text) /\ PeekAt(off) = text[pos + off]
    BY DEF PeekAt
<1>3. \A at \in pos + off .. pos + off : at = pos + off
    OBVIOUS
<1>. QED BY <1>1, <1>2, <1>3 DEF NoSemicolon

\* The same of the next atom.
LEMMA NextFacts ==
    ASSUME Inv
    PROVE  /\ Peek # "" => pos <= Len(text)
           /\ Peek \in IdentCont \cup OpSymbols \cup {"."} =>
                 pos <= Len(text) /\ NoSemicolon(pos, pos)
           /\ PeekAt(1) # "" => pos + 1 <= Len(text)
<1>1. Len(text) \in Nat /\ pos \in 1 .. Len(text) + 1 /\ pos + 0 = pos
    BY StateFacts
<1>. QED BY <1>1, PeekFacts DEF Peek

\* A token without a semicolon grows by an atom that is none.
LEMMA Grows ==
    ASSUME Inv, lexing \in Reading \ Quotation, Peek \in IdentCont \cup OpSymbols \cup {"."}
    PROVE  pos <= Len(text) /\ NoSemicolon(start, pos)
<1>1. pos <= Len(text) /\ NoSemicolon(pos, pos)
    BY NextFacts
<1>2. NoSemicolon(start, pos - 1)
    BY DEF Inv, Unbroken
<1>3. \A at \in start .. pos : at \in start .. pos - 1 \/ at \in pos .. pos
    BY StateFacts
<1>. QED BY <1>1, <1>2, <1>3 DEF NoSemicolon

-----------------------------------------------------------------------------
(* What each kind of step keeps.                                           *)

\* Reading on, inside a token or between two.
LEMMA AdvanceKeeps ==
    ASSUME Inv, NEW n \in 0 .. 2, NEW to \in Scanning \cup Reading, Advance(n, to),
           pos + n <= Len(text) + 1,
           to \in Reading => lexing \in Reading,
           to \in Reading \ Quotation => NoSemicolon(start, pos + n - 1)
    PROVE  Inv'
<1>1. /\ pos' = pos + n /\ lexing' = to
      /\ text' = text /\ start' = start /\ toks' = toks
    BY DEF Advance
<1>2. /\ Len(text) \in Nat /\ toks \in Seq(Tokens)
      /\ pos \in 1 .. Len(text) + 1 /\ start \in 1 .. pos
      /\ \A i \in DOMAIN toks : toks[i].last \in Int /\ toks[i].last < pos
    BY StateFacts
<1>3. Sequences' BY <1>1, <1>2 DEF Sequences
<1>4. LexTypeOK'
    <2>1. \A i \in DOMAIN toks : toks[i].kind \in TokenKinds /\ toks[i].first \in 1 .. toks[i].last
        BY DEF Inv, LexTypeOK
    <2>2. \A i \in DOMAIN toks : toks[i].last < pos + n
        BY <1>2
    <2>3. pos + n \in 1 .. Len(text) + 1 /\ start \in 1 .. pos + n
        BY <1>2
    <2>. QED BY <1>1, <2>1, <2>2, <2>3 DEF LexTypeOK
<1>5. BoundarySafe' /\ TokensInOrder'
    BY <1>1 DEF Inv, BoundarySafe, TokensInOrder
<1>6. Begun'
    BY <1>1, <1>2 DEF Inv, Begun
<1>7. Unbroken'
    <2> SUFFICES ASSUME to \in Reading \ Quotation, NEW at \in start' .. pos' - 1
                 PROVE  text'[at] # ";"
        BY <1>1 DEF Unbroken, NoSemicolon
    <2>1. at \in start .. pos + n - 1 BY <1>1, <1>2
    <2>2. text[at] # ";" BY <2>1 DEF NoSemicolon
    <2>. QED BY <1>1, <2>2
<1>. QED BY <1>3, <1>4, <1>5, <1>6, <1>7 DEF Inv

\* A token begins after the ones read, with an atom that is no semicolon or a
\* delimiter.
LEMMA BeginKeeps ==
    ASSUME Inv, NEW kind \in Reading, Begin(kind), pos <= Len(text),
           kind \notin Quotation => NoSemicolon(pos, pos)
    PROVE  Inv'
<1>1. /\ start' = pos /\ pos' = pos + 1 /\ lexing' = kind
      /\ text' = text /\ toks' = toks
    BY DEF Begin
<1>2. /\ Len(text) \in Nat /\ toks \in Seq(Tokens) /\ pos \in 1 .. Len(text) + 1
      /\ \A i \in DOMAIN toks : toks[i].last \in Int /\ toks[i].last < pos
    BY StateFacts
<1>3. \A i \in DOMAIN toks : toks[i].last < pos + 1
    BY <1>2
<1>4. Sequences' BY <1>1, <1>2 DEF Sequences
<1>5. LexTypeOK'
    <2>1. \A i \in DOMAIN toks : toks[i].kind \in TokenKinds /\ toks[i].first \in 1 .. toks[i].last
        BY DEF Inv, LexTypeOK
    <2>2. pos + 1 \in 1 .. Len(text) + 1 /\ pos \in 1 .. pos + 1
        BY <1>2
    <2>. QED BY <1>1, <1>3, <2>1, <2>2 DEF LexTypeOK
<1>6. BoundarySafe' /\ TokensInOrder'
    BY <1>1 DEF Inv, BoundarySafe, TokensInOrder
<1>7. Begun'
    BY <1>1, <1>2, <1>3 DEF Begun
<1>8. Unbroken'
    <2> SUFFICES ASSUME kind \notin Quotation, NEW at \in start' .. pos' - 1
                 PROVE  text'[at] # ";"
        BY <1>1 DEF Unbroken, NoSemicolon
    <2>1. at \in pos .. pos BY <1>1, <1>2
    <2>2. text[at] # ";" BY <2>1 DEF NoSemicolon
    <2>. QED BY <1>1, <2>2
<1>. QED BY <1>4, <1>5, <1>6, <1>7, <1>8 DEF Inv

\* A token is added after the others, and has a semicolon only if it is quoted
\* or the semicolon itself.
LEMMA TokenKeeps ==
    ASSUME Inv, NEW kind \in TokenKinds, NEW first \in Int, NEW last \in Int,
           first \in 1 .. last, last <= Len(text), pos <= last + 1,
           \A i \in DOMAIN toks : toks[i].last < first,
           kind \notin Quotation \cup {"punct"} => NoSemicolon(first, last),
           toks' = Append(toks, Token(kind, first, last)),
           text' = text, pos' = last + 1, lexing' = "between", start' \in 1 .. pos'
    PROVE  Inv'
<1> DEFINE new == Token(kind, first, last)
<1>1. /\ Len(text) \in Nat /\ toks \in Seq(Tokens) /\ pos \in 1 .. Len(text) + 1
    BY StateFacts
<1>2. new \in Tokens BY DEF Tokens, Token
<1>3. new.kind = kind /\ new.first = first /\ new.last = last
    BY DEF Token
<1>. HIDE DEF new
<1>4. /\ toks' \in Seq(Tokens) /\ DOMAIN toks' = 1 .. Len(toks) + 1 /\ Len(toks) \in Nat
      /\ DOMAIN toks = 1 .. Len(toks)
      /\ toks'[Len(toks) + 1] = new
      /\ \A i \in DOMAIN toks : toks'[i] = toks[i]
    <2>1. toks' = Append(toks, new) BY DEF new
    <2>. QED BY <1>1, <1>2, <2>1
<1>5. \A i \in DOMAIN toks' : i \in DOMAIN toks \/ i = Len(toks) + 1
    BY <1>4
<1>6. \A i \in DOMAIN toks : toks[i].last \in Int /\ toks[i].first \in Int
    BY StateFacts
<1>7. Sequences' BY <1>1, <1>4 DEF Sequences
<1>8. LexTypeOK'
    <2>1. pos' \in 1 .. Len(text') + 1 /\ lexing' \in Scanning \cup Reading
        BY <1>1 DEF Scanning
    <2>2. ASSUME NEW i \in DOMAIN toks'
          PROVE  /\ toks'[i].kind \in TokenKinds
                 /\ toks'[i].first \in 1 .. toks'[i].last
                 /\ toks'[i].last < pos'
        <3>1. CASE i \in DOMAIN toks
            BY <3>1, <1>1, <1>4, <1>6 DEF Inv, LexTypeOK
        <3>2. CASE i = Len(toks) + 1
            BY <3>2, <1>3, <1>4
        <3>. QED BY <1>5, <3>1, <3>2
    <2>. QED BY <2>1, <2>2 DEF LexTypeOK
<1>9. BoundarySafe'
    <2> SUFFICES ASSUME NEW i \in DOMAIN toks', NEW at \in toks'[i].first .. toks'[i].last,
                        text[at] = ";"
                 PROVE  toks'[i].kind \in Quotation \cup {"punct"}
        BY DEF BoundarySafe
    <2>1. CASE i \in DOMAIN toks
        BY <2>1, <1>4 DEF Inv, BoundarySafe
    <2>2. CASE i = Len(toks) + 1
        BY <2>2, <1>3, <1>4 DEF NoSemicolon
    <2>. QED BY <1>5, <2>1, <2>2
<1>10. TokensInOrder'
    <2> SUFFICES ASSUME NEW i \in DOMAIN toks', NEW j \in DOMAIN toks', i < j
                 PROVE  toks'[i].last < toks'[j].first
        BY DEF TokensInOrder
    <2>1. i \in DOMAIN toks BY <1>4
    <2>2. CASE j \in DOMAIN toks
        BY <2>1, <2>2, <1>4 DEF Inv, TokensInOrder
    <2>3. CASE j = Len(toks) + 1
        BY <2>1, <2>3, <1>3, <1>4
    <2>. QED BY <1>5, <2>2, <2>3
<1>11. Begun' /\ Unbroken'
    BY DEF Begun, Unbroken, Reading, Quotation
<1>. QED BY <1>7, <1>8, <1>9, <1>10, <1>11 DEF Inv

\* The token being read is added.
LEMMA EmitKeeps ==
    ASSUME Inv, NEW kind \in TokenKinds, NEW n \in {0, 1}, Emit(kind, n),
           lexing \in Reading, pos + n <= Len(text) + 1,
           kind \notin Quotation => n = 0 /\ lexing \notin Quotation
    PROVE  Inv'
<1>1. /\ Len(text) \in Nat /\ pos \in 1 .. Len(text) + 1 /\ start \in 1 .. pos
    BY StateFacts
<1>2. start < pos /\ \A i \in DOMAIN toks : toks[i].last < start
    BY DEF Inv, Begun
<1>3. kind \notin Quotation => NoSemicolon(start, pos + n - 1)
    BY <1>1 DEF Inv, Unbroken
<1>4. /\ toks' = Append(toks, Token(kind, start, pos + n - 1))
      /\ text' = text /\ pos' = (pos + n - 1) + 1 /\ lexing' = "between" /\ start' = start
    BY <1>1 DEF Emit
<1> DEFINE last == pos + n - 1
<1>5. /\ start \in Int /\ last \in Int /\ start \in 1 .. last /\ last <= Len(text)
      /\ pos <= last + 1 /\ start \in 1 .. last + 1
    BY <1>1, <1>2
<1>. HIDE DEF last
<1>6. /\ toks' = Append(toks, Token(kind, start, last))
      /\ pos' = last + 1 /\ start' \in 1 .. pos'
    BY <1>4, <1>5 DEF last
<1>7. kind \notin Quotation \cup {"punct"} => NoSemicolon(start, last)
    BY <1>3 DEF last
<1>. QED BY <1>2, <1>4, <1>5, <1>6, <1>7, TokenKeeps

-----------------------------------------------------------------------------
(* The steps.                                                              *)

\* What kind of thing is being read.
LEMMA Kinds ==
    /\ Reading \cap Scanning = {}
    /\ {"ident", "number", "fraction", "op"} = Reading \ Quotation
    /\ Quotation \subseteq Reading /\ Quotation \subseteq TokenKinds
    /\ {"ident", "number", "op", "punct"} = TokenKinds \ Quotation
    /\ {"between", "line", "block", "done", "failed"} = Scanning
BY DEF Reading, Scanning, Quotation, TokenKinds

\* A step between two tokens keeps Inv.
LEMMA BetweenKeeps == ASSUME Inv, LexBetween PROVE Inv'
<1>1. Len(text) \in Nat /\ pos \in 1 .. Len(text) + 1
    BY StateFacts
<1>2. /\ Peek # "" => pos <= Len(text)
      /\ PeekAt(1) # "" => pos + 1 <= Len(text)
      /\ Peek \in IdentCont \cup OpSymbols => pos <= Len(text) /\ NoSemicolon(pos, pos)
    BY NextFacts
<1>3. ASSUME NEW n \in 0 .. 2, NEW to \in Scanning, Advance(n, to), pos + n <= Len(text) + 1
      PROVE  Inv'
    BY <1>3, AdvanceKeeps, Kinds
<1>4. CASE SkipBlank
    <2>1. Peek # "" BY <1>4 DEF SkipBlank, Blanks, Newline
    <2>2. pos <= Len(text) BY <1>2, <2>1
    <2>3. pos + 1 <= Len(text) + 1 BY <1>1, <2>2
    <2>. QED BY <1>3, <1>4, <2>3, Kinds DEF SkipBlank
<1>5. CASE OpenLineComment BY <1>1, <1>3, <1>5, Kinds DEF OpenLineComment
<1>6. CASE SkipLineComment BY <1>1, <1>3, <1>6, Kinds DEF SkipLineComment, AtEnd
<1>7. CASE CloseLineComment BY <1>1, <1>3, <1>7, Kinds DEF CloseLineComment
<1>8. CASE OpenBlockComment
    <2>1. PeekAt(1) # "" BY <1>8 DEF OpenBlockComment, AtBlockComment
    <2>2. pos + 1 <= Len(text) BY <1>2, <2>1
    <2>3. pos + 2 <= Len(text) + 1 BY <1>1, <2>2
    <2>. QED BY <1>3, <1>8, <2>3, Kinds DEF OpenBlockComment
<1>9. CASE SkipBlockComment BY <1>1, <1>3, <1>9, Kinds DEF SkipBlockComment, AtEnd
<1>10. CASE CloseBlockComment
    <2>1. PeekAt(1) # "" BY <1>10 DEF CloseBlockComment, AtBlockEnd
    <2>2. pos + 1 <= Len(text) BY <1>2, <2>1
    <2>3. pos + 2 <= Len(text) + 1 BY <1>1, <2>2
    <2>. QED BY <1>3, <1>10, <2>3, Kinds DEF CloseBlockComment
<1>11. CASE BeginWord
    <2>1. Peek \in IdentCont BY <1>11 DEF BeginWord, IdentCont
    <2>. QED BY <1>2, <1>11, <2>1, BeginKeeps, Kinds DEF BeginWord
<1>12. CASE BeginNumber
    <2>1. Peek \in IdentCont BY <1>12 DEF BeginNumber, IdentCont
    <2>. QED BY <1>2, <1>12, <2>1, BeginKeeps, Kinds DEF BeginNumber
<1>13. CASE BeginQuotation
    <2>1. PICK kind \in Quotation : Peek = Delimiter[kind] /\ Begin(kind)
        BY <1>13 DEF BeginQuotation
    <2>2. Peek # "" BY <2>1, Delimiters
    <2>. QED BY <1>2, <2>1, <2>2, BeginKeeps, Kinds
<1>14. CASE BeginOp
    BY <1>2, <1>14, BeginKeeps, Kinds DEF BeginOp
<1>15. CASE ReadPunctuation
    <2>1. Peek # "" BY <1>15 DEF ReadPunctuation, Punctuation
    <2>2. /\ toks' = Append(toks, Token("punct", pos, pos))
          /\ text' = text /\ pos' = pos + 1 /\ lexing' = "between" /\ start' = pos
        BY <1>15 DEF ReadPunctuation
    <2>3. \A i \in DOMAIN toks : toks[i].last < pos
        BY DEF Inv, LexTypeOK
    <2>4. pos \in Int /\ pos \in 1 .. pos /\ pos <= pos + 1 /\ pos \in 1 .. pos + 1
        BY <1>1
    <2>5. pos <= Len(text) BY <1>2, <2>1
    <2>. QED BY <2>2, <2>3, <2>4, <2>5, TokenKeeps, Kinds
<1>16. CASE UnexpectedCharacter
    BY <1>1, <1>3, <1>16, Kinds DEF UnexpectedCharacter, AtEnd
<1>17. CASE EndOfText BY <1>1, <1>3, <1>17, Kinds DEF EndOfText
<1>. QED BY <1>4, <1>5, <1>6, <1>7, <1>8, <1>9, <1>10, <1>11, <1>12, <1>13, <1>14, <1>15,
            <1>16, <1>17 DEF LexBetween

\* A step inside a token keeps Inv.
LEMMA InsideKeeps == ASSUME Inv, LexInside PROVE Inv'
<1>1. Len(text) \in Nat /\ pos \in 1 .. Len(text) + 1 /\ lexing \in Scanning \cup Reading
    BY StateFacts
<1>2. /\ Peek # "" => pos <= Len(text)
      /\ PeekAt(1) # "" => pos + 1 <= Len(text)
    BY NextFacts
<1>3. ASSUME lexing \in Reading \ Quotation, Peek \in IdentCont \cup OpSymbols \cup {"."},
             NEW to \in Reading \ Quotation, Advance(1, to)
      PROVE  Inv'
    <2>1. pos <= Len(text) /\ NoSemicolon(start, pos) BY <1>3, Grows
    <2>2. pos + 1 <= Len(text) + 1 /\ pos + 1 - 1 = pos BY <1>1, <2>1
    <2>. QED BY <1>3, <2>1, <2>2, AdvanceKeeps
<1>4. CASE ContinueWord
    BY <1>3, <1>4, Kinds DEF ContinueWord
<1>5. CASE EndWord
    BY <1>1, <1>5, EmitKeeps, Kinds DEF EndWord
<1>6. CASE ContinueNumber
    BY <1>3, <1>6, Kinds DEF ContinueNumber, IdentCont
<1>7. CASE BeginFraction
    BY <1>3, <1>7, Kinds DEF BeginFraction
<1>8. CASE EndNumber
    BY <1>1, <1>8, EmitKeeps, Kinds DEF EndNumber
<1>9. CASE ContinueOp
    BY <1>3, <1>9, Kinds DEF ContinueOp
<1>10. CASE EndOp
    BY <1>1, <1>10, EmitKeeps, Kinds DEF EndOp
<1>11. AtDelimiter => lexing \in Quotation /\ Peek # ""
    BY Delimiters DEF AtDelimiter
<1>12. CASE SkipDoubled
    <2>1. lexing \in Quotation /\ PeekAt(1) # ""
        BY <1>12, Delimiters DEF SkipDoubled, AtDelimiter
    <2>2. pos + 1 <= Len(text) BY <1>2, <2>1
    <2>3. pos + 2 <= Len(text) + 1 BY <1>1, <2>2
    <2>4. Advance(2, lexing) /\ 2 \in 0 .. 2 BY <1>12 DEF SkipDoubled
    <2>. QED BY <2>1, <2>3, <2>4, AdvanceKeeps, Kinds
<1>13. CASE CloseQuotation
    <2>1. lexing \in Quotation /\ pos <= Len(text)
        BY <1>2, <1>11, <1>13 DEF CloseQuotation
    <2>. QED BY <1>1, <1>13, <2>1, EmitKeeps, Kinds DEF CloseQuotation
<1>14. CASE ContinueQuotation
    <2>1. lexing \in Quotation /\ pos <= Len(text) /\ Advance(1, lexing)
        BY <1>1, <1>14 DEF ContinueQuotation, AtEnd
    <2>2. pos + 1 <= Len(text) + 1 BY <1>1, <2>1
    <2>. QED BY <2>1, <2>2, AdvanceKeeps, Kinds
<1>15. CASE Unterminated
    BY <1>1, <1>15, AdvanceKeeps, Kinds DEF Unterminated
<1>. QED BY <1>4, <1>5, <1>6, <1>7, <1>8, <1>9, <1>10, <1>12, <1>13, <1>14, <1>15 DEF LexInside

\* So does every step of the lexer.
LEMMA StepKeeps == ASSUME Inv, [LexNext]_lexVars PROVE Inv'
<1>1. CASE LexNext
    BY <1>1, BetweenKeeps, InsideKeeps DEF LexNext
<1>2. CASE UNCHANGED lexVars
    BY <1>2 DEF lexVars, Inv, Sequences, LexTypeOK, BoundarySafe, TokensInOrder, Begun, Unbroken,
                NoSemicolon
<1>. QED BY <1>1, <1>2

\* A lexer started on a text keeps Inv.
LEMMA InvHolds ==
    ASSUME NEW Atom, NEW src \in Seq(Atom)
    PROVE  LexSpec(src) => []Inv
<1>1. Lexing(src) => Inv
    BY DEF Lexing, Inv, Sequences, LexTypeOK, BoundarySafe, TokensInOrder, Begun, Unbroken,
           Scanning, Reading, Quotation
<1>. QED BY <1>1, StepKeeps, PTL DEF LexSpec

-----------------------------------------------------------------------------

\* Of every text, the lexer never reads past the end, and what it takes for a
\* token lies in what has been read.
THEOREM TypeCorrect ==
    ASSUME NEW Atom, NEW src \in Seq(Atom)
    PROVE  LexSpec(src) => []LexTypeOK
BY InvHolds, PTL DEF Inv

\* Of every text, no semicolon ends up inside a token that is not quoted: the
\* boundaries between statements are where splitStatements looks for them.
THEOREM BoundariesFound ==
    ASSUME NEW Atom, NEW src \in Seq(Atom)
    PROVE  LexSpec(src) => []BoundarySafe
BY InvHolds, PTL DEF Inv

\* Of every text, the tokens are read in the order in which they are written,
\* and no atom is in two of them.
THEOREM OrderKept ==
    ASSUME NEW Atom, NEW src \in Seq(Atom)
    PROVE  LexSpec(src) => []TokensInOrder
BY InvHolds, PTL DEF Inv

-----------------------------------------------------------------------------
(* What the lexer does next is decided by what it reads and the next atoms.*)

\* Past the end there is no atom, and no class has none.
LEMMA NoAtom ==
    /\ Inv /\ AtEnd => Peek = "" /\ PeekAt(1) = ""
    /\ "" \notin Blanks \cup IdentCont \cup Punctuation \cup OpSymbols
<1>1. ASSUME Inv, AtEnd PROVE Peek = "" /\ PeekAt(1) = ""
    <2>1. Len(text) \in Nat /\ pos \in 1 .. Len(text) + 1
        BY <1>1, StateFacts
    <2>2. ~(pos <= Len(text)) /\ ~(pos + 1 <= Len(text))
        BY <1>1, <2>1 DEF AtEnd
    <2>. QED BY <1>1, <2>2, NextFacts
<1>2. "" \notin Blanks \cup IdentCont \cup Punctuation \cup OpSymbols
    BY AtomsAssumption DEF Blanks, Punctuation, OpSymbols, Newline, IdentCont
<1>. QED BY <1>1, <1>2

\* Between two tokens, by the atom at hand: the classes of atoms are disjoint.
LEMMA BetweenByAtom ==
    ASSUME Inv, LexNext, lexing = "between"
    PROVE  /\ Peek \in Blanks => Advance(1, "between")
           /\ AtLineComment => Advance(0, "line")
           /\ AtBlockComment => Advance(2, "block")
           /\ Peek \in Words => Begin("ident")
           /\ Peek \in Digits => Begin("number")
           /\ \A kind \in Quotation : Peek = Delimiter[kind] => Begin(kind)
           /\ Peek \in OpSymbols /\ ~AtLineComment /\ ~AtBlockComment => Begin("op")
           /\ Peek \in Punctuation => ReadPunctuation
           /\ /\ Peek \notin Blanks \cup Words \cup Digits \cup Punctuation \cup OpSymbols
              /\ \A kind \in Quotation : Peek # Delimiter[kind]
              => IF AtEnd THEN Advance(0, "done") ELSE Advance(1, "failed")
<1>1. \/ SkipBlank \/ OpenLineComment \/ OpenBlockComment
      \/ BeginWord \/ BeginNumber \/ BeginQuotation \/ BeginOp \/ ReadPunctuation
      \/ UnexpectedCharacter \/ EndOfText
    BY DEF LexNext, LexBetween, LexInside, SkipLineComment, CloseLineComment, SkipBlockComment,
        CloseBlockComment, ContinueWord, EndWord, ContinueNumber, BeginFraction, EndNumber,
        ContinueOp, EndOp, SkipDoubled, CloseQuotation, ContinueQuotation, AtDelimiter,
        Unterminated, Quotation
<1>2. /\ AtLineComment => Peek \in OpSymbols
      /\ AtBlockComment => Peek \in OpSymbols /\ ~AtLineComment
    BY DEF AtLineComment, AtBlockComment, OpSymbols
<1>3. /\ Delimiter["string"] = "'" /\ Delimiter["quoted"] = "\""
      /\ \A kind \in Quotation : kind = "string" \/ kind = "quoted"
    BY DEF Delimiter, Quotation
<1>4. /\ Blanks \cap Punctuation = {} /\ Blanks \cap OpSymbols = {}
      /\ Punctuation \cap OpSymbols = {}
      /\ \A d \in {"'", "\""} : d \notin Blanks \cup Punctuation \cup OpSymbols
    BY DEF Blanks, Punctuation, OpSymbols, Newline
<1>5. /\ \A a \in Words \cup Digits : a \notin Blanks \cup Punctuation \cup OpSymbols \cup {"'", "\""}
      /\ Words \cap Digits = {}
    BY AtomsAssumption
<1>6. AtEnd => Peek = ""
    BY NoAtom
<1>7. "" \notin Blanks \cup Words \cup Digits \cup Punctuation \cup OpSymbols \cup {"'", "\""}
    BY AtomsAssumption DEF Blanks, Punctuation, OpSymbols, Newline
<1>8. CASE SkipBlank
    BY <1>2, <1>3, <1>4, <1>5, <1>8 DEF SkipBlank
<1>9. CASE OpenLineComment
    BY <1>2, <1>3, <1>4, <1>5, <1>9 DEF OpenLineComment
<1>10. CASE OpenBlockComment
    BY <1>2, <1>3, <1>4, <1>5, <1>10 DEF OpenBlockComment
<1>11. CASE BeginWord
    BY <1>2, <1>3, <1>4, <1>5, <1>11 DEF BeginWord
<1>12. CASE BeginNumber
    BY <1>2, <1>3, <1>4, <1>5, <1>12 DEF BeginNumber
<1>13. CASE BeginQuotation
    <2>1. PICK kind \in Quotation : Peek = Delimiter[kind] /\ Begin(kind)
        BY <1>13 DEF BeginQuotation
    <2>2. Peek \in {"'", "\""}
        BY <1>3, <2>1
    <2>3. \A other \in Quotation : Peek = Delimiter[other] => Begin(other)
        BY <1>3, <2>1
    <2>4. Peek \notin Blanks \cup Words \cup Digits \cup Punctuation \cup OpSymbols
        BY <1>4, <1>5, <2>2
    <2>. QED BY <1>2, <2>1, <2>3, <2>4
<1>14. CASE BeginOp
    BY <1>2, <1>3, <1>4, <1>5, <1>14 DEF BeginOp
<1>15. CASE ReadPunctuation
    <2>1. Peek \in Punctuation
        BY <1>15 DEF ReadPunctuation
    <2>. QED BY <1>2, <1>3, <1>4, <1>5, <1>15, <2>1
<1>16. CASE UnexpectedCharacter
    BY <1>2, <1>16 DEF UnexpectedCharacter
<1>17. CASE EndOfText
    <2>1. Peek = "" /\ AtEnd /\ Advance(0, "done")
        BY <1>6, <1>17 DEF EndOfText
    <2>. QED BY <1>2, <1>3, <1>7, <2>1
<1>. QED BY <1>1, <1>8, <1>9, <1>10, <1>11, <1>12, <1>13, <1>14, <1>15, <1>16, <1>17

\* Inside a comment.
LEMMA CommentByAtom ==
    ASSUME Inv, LexNext
    PROVE  /\ lexing = "line" => IF AtEnd \/ Peek \in LineEnds THEN Advance(0, "between")
                                                            ELSE Advance(1, "line")
           /\ lexing = "block" => \/ AtEnd /\ Advance(0, "failed")
                                  \/ ~AtEnd /\ AtBlockEnd /\ Advance(2, "between")
                                  \/ ~AtEnd /\ ~AtBlockEnd /\ Advance(1, "block")
           /\ lexing \notin {"done", "failed"}
<1>0. AtEnd => ~AtBlockEnd
    BY NoAtom DEF AtBlockEnd
<1>1. lexing = "line" => SkipLineComment \/ CloseLineComment
    BY DEF LexNext, LexBetween, LexInside, SkipBlank, OpenLineComment, OpenBlockComment, BeginWord,
        BeginNumber, BeginQuotation, BeginOp, ReadPunctuation, UnexpectedCharacter, EndOfText,
        SkipBlockComment,
        CloseBlockComment, ContinueWord, EndWord, ContinueNumber, BeginFraction, EndNumber,
        ContinueOp, EndOp, SkipDoubled, CloseQuotation, ContinueQuotation, AtDelimiter,
        Unterminated, Quotation
<1>2. lexing = "block" => SkipBlockComment \/ CloseBlockComment \/ Unterminated
    BY DEF LexNext, LexBetween, LexInside, SkipBlank, OpenLineComment, OpenBlockComment, BeginWord,
        BeginNumber, BeginQuotation, BeginOp, ReadPunctuation, UnexpectedCharacter, EndOfText,
        SkipLineComment, CloseLineComment,
        ContinueWord, EndWord, ContinueNumber, BeginFraction, EndNumber,
        ContinueOp, EndOp, SkipDoubled, CloseQuotation, ContinueQuotation, AtDelimiter,
        Unterminated, Quotation
<1>3. lexing \notin {"done", "failed"}
    BY DEF LexNext, LexBetween, LexInside, SkipBlank, OpenLineComment, OpenBlockComment, BeginWord,
        BeginNumber, BeginQuotation, BeginOp, ReadPunctuation, UnexpectedCharacter, EndOfText,
        SkipLineComment, CloseLineComment, SkipBlockComment, CloseBlockComment,
        ContinueWord, EndWord, ContinueNumber, BeginFraction, EndNumber,
        ContinueOp, EndOp, SkipDoubled, CloseQuotation, ContinueQuotation, AtDelimiter,
        Unterminated, Quotation
<1>4. lexing = "line" => IF AtEnd \/ Peek \in LineEnds THEN Advance(0, "between")
                                                   ELSE Advance(1, "line")
    BY <1>1 DEF SkipLineComment, CloseLineComment
<1>5. lexing = "block" => \/ AtEnd /\ Advance(0, "failed")
                          \/ ~AtEnd /\ AtBlockEnd /\ Advance(2, "between")
                          \/ ~AtEnd /\ ~AtBlockEnd /\ Advance(1, "block")
    BY <1>0, <1>2 DEF SkipBlockComment, CloseBlockComment, Unterminated
<1>. QED BY <1>3, <1>4, <1>5

\* Inside a token.
LEMMA InsideByAtom ==
    ASSUME LexNext
    PROVE  /\ lexing = "ident" => IF Peek \in IdentCont THEN Advance(1, "ident") ELSE Emit("ident", 0)
           /\ lexing = "op" => IF Peek \in OpSymbols THEN Advance(1, "op") ELSE Emit("op", 0)
           /\ lexing = "number" =>
                 \/ Peek \in Digits /\ Advance(1, "number")
                 \/ Peek = "." /\ PeekAt(1) \in Digits /\ Advance(1, "fraction")
                 \/ Peek \notin Digits /\ ~(Peek = "." /\ PeekAt(1) \in Digits) /\ Emit("number", 0)
           /\ lexing = "fraction" =>
                 IF Peek \in Digits THEN Advance(1, "fraction") ELSE Emit("number", 0)
           /\ lexing \in Quotation =>
                 \/ Peek = Delimiter[lexing] /\ PeekAt(1) = Delimiter[lexing] /\ Advance(2, lexing)
                 \/ Peek = Delimiter[lexing] /\ PeekAt(1) # Delimiter[lexing] /\ Emit(lexing, 1)
                 \/ Peek # Delimiter[lexing] /\ ~AtEnd /\ Advance(1, lexing)
                 \/ AtEnd /\ Advance(0, "failed")
<1>1. lexing \in Reading => LexInside
    BY DEF LexNext, LexBetween, SkipBlank, OpenLineComment, OpenBlockComment, BeginWord,
        BeginNumber, BeginQuotation, BeginOp, ReadPunctuation, UnexpectedCharacter, EndOfText,
        SkipLineComment, CloseLineComment, SkipBlockComment, CloseBlockComment, Reading, Quotation
<1>2. lexing = "ident" => ContinueWord \/ EndWord
    BY <1>1 DEF Reading, LexInside, ContinueNumber, BeginFraction, EndNumber,
        ContinueOp, EndOp, SkipDoubled, CloseQuotation, ContinueQuotation, AtDelimiter,
        Unterminated, Quotation
<1>3. lexing = "op" => ContinueOp \/ EndOp
    BY <1>1 DEF Reading, LexInside, ContinueNumber, BeginFraction, EndNumber,
        ContinueWord, EndWord, SkipDoubled, CloseQuotation, ContinueQuotation, AtDelimiter,
        Unterminated, Quotation
<1>4. lexing \in {"number", "fraction"} => ContinueNumber \/ BeginFraction \/ EndNumber
    BY <1>1 DEF Reading, LexInside, ContinueOp, EndOp,
        ContinueWord, EndWord, SkipDoubled, CloseQuotation, ContinueQuotation, AtDelimiter,
        Unterminated, Quotation
<1>5. lexing \in Quotation => SkipDoubled \/ CloseQuotation \/ ContinueQuotation \/ Unterminated
    BY <1>1 DEF Reading, LexInside, ContinueOp, EndOp,
        ContinueWord, EndWord, ContinueNumber, BeginFraction, EndNumber, Quotation
<1>6. lexing = "ident" => IF Peek \in IdentCont THEN Advance(1, "ident") ELSE Emit("ident", 0)
    BY <1>2 DEF ContinueWord, EndWord
<1>7. lexing = "op" => IF Peek \in OpSymbols THEN Advance(1, "op") ELSE Emit("op", 0)
    BY <1>3 DEF ContinueOp, EndOp
<1>8. lexing = "number" =>
                 \/ Peek \in Digits /\ Advance(1, "number")
                 \/ Peek = "." /\ PeekAt(1) \in Digits /\ Advance(1, "fraction")
                 \/ Peek \notin Digits /\ ~(Peek = "." /\ PeekAt(1) \in Digits) /\ Emit("number", 0)
    BY <1>4 DEF ContinueNumber, BeginFraction, EndNumber
<1>9. lexing = "fraction" => IF Peek \in Digits THEN Advance(1, "fraction") ELSE Emit("number", 0)
    BY <1>4 DEF ContinueNumber, BeginFraction, EndNumber
<1>10. lexing \in Quotation =>
                 \/ Peek = Delimiter[lexing] /\ PeekAt(1) = Delimiter[lexing] /\ Advance(2, lexing)
                 \/ Peek = Delimiter[lexing] /\ PeekAt(1) # Delimiter[lexing] /\ Emit(lexing, 1)
                 \/ Peek # Delimiter[lexing] /\ ~AtEnd /\ Advance(1, lexing)
                 \/ AtEnd /\ Advance(0, "failed")
    BY <1>5 DEF SkipDoubled, CloseQuotation, ContinueQuotation, AtDelimiter, Unterminated
<1>. QED BY <1>6, <1>7, <1>8, <1>9, <1>10

-----------------------------------------------------------------------------
(* A text, laid out.  A layout w has the text w.src, the tokens w.ts it is *)
(* written with, the first and the last position of each, and for each number*)
(* k of tokens the positions w.at[k] behind them at which a blank, a comment*)
(* or the next token begins.                                               *)

Stands(w, k, q) ==
    \/ k < Len(w.ts) /\ q = w.first[k + 1]
    \/ k = Len(w.ts) /\ q = Len(w.src) + 1
    \/ q <= Len(w.src) /\ w.src[q] \in Blanks /\ q + 1 \in w.at[k]
    \/ \E end \in w.at[k] : LineComment(w.src, q, end) \/ BlockComment(w.src, q, end)
\* What follows a token is no part of it.
Followed(w, i) ==
    w.ts[i].kind # "punct" =>
        /\ w.last[i] < Len(w.src)
        /\ w.src[w.last[i] + 1] \in Blanks \cup {"-", "/"} \cup Punctuation
        /\ w.ts[i].kind = "op" => w.src[w.last[i] + 1] \in Blanks
        /\ w.ts[i].kind = "number" => w.src[w.last[i] + 1] # "."
Placed(w, i) ==
    /\ Spellable(w.ts[i])
    /\ w.first[i] \in Nat /\ w.first[i] > 0
    /\ w.last[i] = w.first[i] + Len(Spelled(w.ts[i])) - 1 /\ w.last[i] <= Len(w.src)
    /\ \A j \in 1 .. Len(Spelled(w.ts[i])) : w.src[w.first[i] + j - 1] = Spelled(w.ts[i])[j]
    /\ w.last[i] + 1 \in w.at[i]
    /\ Followed(w, i)
Laid(w) ==
    /\ Len(w.src) \in Nat /\ Len(w.ts) \in Nat
    /\ 1 \in w.at[0]
    /\ \A k \in 0 .. Len(w.ts) : \A q \in w.at[k] : Stands(w, k, q)
    /\ \A i \in 1 .. Len(w.ts) : Placed(w, i)

\* The text being read is the first part of it, and the first n tokens read are
\* the first n of it.
Prefix(w) == Len(text) <= Len(w.src) /\ \A i \in 1 .. Len(text) : text[i] = w.src[i]
ReadTo(n, w) ==
    /\ n \in 0 .. Len(w.ts) /\ n <= Len(toks)
    /\ \A i \in 1 .. n : toks[i] = Token(w.ts[i].kind, w.first[i], w.last[i])

\* Where the lexer can be, when all it has read are the first tokens of w.
Between(w) == lexing = "between" /\ pos \in w.at[Len(toks)]
InLine(w) ==
    /\ lexing = "line"
    /\ \E end \in w.at[Len(toks)] :
          /\ end \in pos .. Len(w.src) /\ w.src[end] = Newline
          /\ \A j \in pos .. end - 1 : w.src[j] \notin LineEnds
InBlock(w) ==
    /\ lexing = "block"
    /\ \E end \in w.at[Len(toks)] :
          /\ end \in pos + 2 .. Len(w.src) + 1 /\ BlockEnd(w.src, end - 2)
          /\ \A j \in pos .. end - 3 : ~BlockEnd(w.src, j)
\* The pairs of delimiters in a quotation.
PairsIn(t, pairs) ==
    /\ \A i \in pairs : i \in 1 .. Len(t.atoms) - 1 /\ i + 1 \notin pairs
    /\ \A i \in 1 .. Len(t.atoms) :
          t.atoms[i] = Delimiter[t.kind] <=> i \in pairs \/ i - 1 \in pairs
PairsOf(t) == CHOOSE pairs : PairsIn(t, pairs)
Within(t, last) ==
    /\ pos \in start + 1 .. last + 1
    /\ lexing \in {"ident", "op"} => t.kind = lexing
    /\ lexing = "number" => t.kind = "number" /\ pos = start + 1
    /\ lexing = "fraction" => t.kind = "number" /\ pos > start + 1
    /\ lexing \in Quotation => t.kind = lexing /\ pos <= last /\ pos - start - 1 \notin PairsOf(t)
InToken(w) ==
    /\ lexing \in Reading /\ Len(toks) < Len(w.ts)
    /\ start = w.first[Len(toks) + 1]
    /\ Within(w.ts[Len(toks) + 1], w.last[Len(toks) + 1])
Refused(w) == lexing = "failed" /\ Len(toks) < Len(w.ts) /\ w.ts[Len(toks) + 1].kind = "other"
Through(w) == lexing = "done" /\ Len(toks) = Len(w.ts)

OnTrack(w) ==
    /\ ReadTo(Len(toks), w)
    /\ Between(w) \/ InLine(w) \/ InBlock(w) \/ InToken(w) \/ Refused(w) \/ Through(w)

\* Where it can be when the text is cut short and its end has been met: the last
\* token is cut, or a number and a point are left of a fraction.
AtCut(w) ==
    /\ pos = Len(text) + 1
    /\ lexing \in Reading => ReadTo(Len(toks), w)
    /\ lexing \in Scanning => \/ ReadTo(Len(toks), w) \/ ReadTo(Len(toks) - 1, w)
                              \/ BrokenFraction /\ ReadTo(Len(toks) - 2, w)
AtPoint(w) ==
    /\ pos = Len(text) /\ text[pos] = "." /\ lexing = "between"
    /\ Len(toks) > 0 /\ toks[Len(toks)].kind = "number" /\ ReadTo(Len(toks) - 1, w)
Astray(w) == Len(text) < Len(w.src) /\ (AtCut(w) \/ AtPoint(w))

Tracked(w) == Prefix(w) /\ (OnTrack(w) \/ Astray(w))

-----------------------------------------------------------------------------
(* Tokens read.                                                            *)

\* What is appended comes last.
LEMMA AppendFacts ==
    ASSUME NEW S, NEW s \in Seq(S), NEW x
    PROVE  /\ Len(s) \in Nat /\ Len(Append(s, x)) = Len(s) + 1
           /\ Append(s, x)[Len(s) + 1] = x
           /\ \A i \in 1 .. Len(s) : Append(s, x)[i] = s[i]
<1> DEFINE T == S \cup {x}
<1>1. s \in Seq(T) /\ x \in T
    OBVIOUS
<1> HIDE DEF T
<1>. QED BY <1>1, AppendProperties, LenProperties

\* The tokens read stay read.
LEMMA MoreRead ==
    ASSUME Inv, NEW w, NEW x, toks' = Append(toks, x)
    PROVE  /\ Len(toks) \in Nat /\ Len(toks') = Len(toks) + 1 /\ toks'[Len(toks')] = x
           /\ \A n : ReadTo(n, w) => ReadTo(n, w)'
           /\ \A n : ReadTo(n, w) => toks'[n] = toks[n] \/ n = 0
           /\ /\ ReadTo(Len(toks), w) /\ Len(toks) < Len(w.ts) /\ Len(w.ts) \in Nat
              /\ x = Token(w.ts[Len(toks) + 1].kind, w.first[Len(toks) + 1], w.last[Len(toks) + 1])
              => ReadTo(Len(toks), w)'
<1>1. toks \in Seq(Tokens)
    BY StateFacts
<1>2. /\ Len(toks) \in Nat /\ Len(toks') = Len(toks) + 1 /\ toks'[Len(toks) + 1] = x
      /\ \A i \in 1 .. Len(toks) : toks'[i] = toks[i]
    BY <1>1, AppendFacts
<1>3. ASSUME NEW n, ReadTo(n, w) PROVE ReadTo(n, w)' /\ (toks'[n] = toks[n] \/ n = 0)
    <2>1. n \in 0 .. Len(w.ts) /\ n <= Len(toks)
        BY <1>3 DEF ReadTo
    <2>2. \A i \in 1 .. n : toks'[i] = Token(w.ts[i].kind, w.first[i], w.last[i])
        BY <1>2, <1>3, <2>1 DEF ReadTo
    <2>3. n <= Len(toks')
        BY <1>2, <2>1
    <2>4. n # 0 => n \in 1 .. Len(toks)
        BY <1>2, <2>1
    <2>. QED BY <1>2, <2>1, <2>2, <2>3, <2>4 DEF ReadTo
<1>4. ASSUME ReadTo(Len(toks), w), Len(toks) < Len(w.ts), Len(w.ts) \in Nat,
             x = Token(w.ts[Len(toks) + 1].kind, w.first[Len(toks) + 1], w.last[Len(toks) + 1])
      PROVE  ReadTo(Len(toks), w)'
    <2>1. \A i \in 1 .. Len(toks) + 1 : i \in 1 .. Len(toks) \/ i = Len(toks) + 1
        BY <1>2
    <2>2. \A i \in 1 .. Len(toks) + 1 : toks'[i] = Token(w.ts[i].kind, w.first[i], w.last[i])
        BY <1>2, <1>4, <2>1 DEF ReadTo
    <2>3. Len(toks) + 1 \in 0 .. Len(w.ts) /\ Len(toks) + 1 <= Len(toks')
        BY <1>2, <1>4
    <2>. QED BY <1>2, <2>2, <2>3 DEF ReadTo
<1>. QED BY <1>2, <1>3, <1>4

\* What is read is read in part.
LEMMA LessRead ==
    ASSUME NEW w, NEW n \in Nat, n # 0, Len(w.ts) \in Nat, Len(toks) \in Nat, ReadTo(n, w)
    PROVE  ReadTo(n - 1, w)
BY DEF ReadTo

\* What the lexer sees of the text.
LEMMA Seen ==
    ASSUME Inv, NEW w, Prefix(w), Len(w.src) \in Nat
    PROVE  /\ Len(text) \in Nat /\ pos \in Nat /\ pos > 0 /\ pos <= Len(text) + 1
           /\ pos <= Len(text) => ~AtEnd /\ Peek = w.src[pos]
           /\ pos < Len(text) => PeekAt(1) = w.src[pos + 1]
           /\ pos >= Len(text) => PeekAt(1) = ""
           /\ pos = Len(text) + 1 => AtEnd /\ Peek = "" /\ PeekAt(1) = ""
<1>1. Len(text) \in Nat /\ pos \in 1 .. Len(text) + 1
    BY StateFacts
<1>2. pos <= Len(text) => ~AtEnd /\ Peek = w.src[pos]
    <2> SUFFICES ASSUME pos <= Len(text) PROVE ~AtEnd /\ Peek = w.src[pos]
        OBVIOUS
    <2>1. pos + 0 = pos /\ pos \in 1 .. Len(text) /\ ~(pos > Len(text))
        BY <1>1
    <2>2. Peek = text[pos]
        BY <2>1 DEF Peek, PeekAt
    <2>. QED BY <2>1, <2>2 DEF Prefix, AtEnd
<1>3. pos < Len(text) => PeekAt(1) = w.src[pos + 1]
    <2> SUFFICES ASSUME pos < Len(text) PROVE PeekAt(1) = w.src[pos + 1]
        OBVIOUS
    <2>1. pos + 1 \in 1 .. Len(text) /\ pos + 1 <= Len(text)
        BY <1>1
    <2>2. PeekAt(1) = text[pos + 1]
        BY <2>1 DEF PeekAt
    <2>. QED BY <2>1, <2>2 DEF Prefix
<1>4. pos >= Len(text) => PeekAt(1) = ""
    <2> SUFFICES ASSUME pos >= Len(text) PROVE PeekAt(1) = ""
        OBVIOUS
    <2>1. ~(pos + 1 <= Len(text))
        BY <1>1
    <2>. QED BY <2>1 DEF PeekAt
<1>5. pos = Len(text) + 1 => AtEnd
    BY <1>1 DEF AtEnd
<1>6. pos \in Nat /\ pos > 0 /\ pos <= Len(text) + 1
    BY <1>1
<1>7. pos = Len(text) + 1 => Peek = "" /\ PeekAt(1) = ""
    BY <1>5, NoAtom
<1>. QED BY <1>1, <1>2, <1>3, <1>4, <1>5, <1>6, <1>7

\* A quotation in pairs has its pairs.
LEMMA HasPairs ==
    ASSUME NEW t, Spellable(t), t.kind \in Quotation
    PROVE  PairsIn(t, PairsOf(t))
<1>1. Doubled(t.atoms, Delimiter[t.kind]) /\ IsList(t.atoms)
    BY DEF Spellable
<1>2. DOMAIN t.atoms = 1 .. Len(t.atoms)
    BY <1>1, TextFacts
<1>3. \E pairs : PairsIn(t, pairs)
    BY <1>1, <1>2 DEF Doubled, PairsIn
<1>. QED BY <1>3 DEF PairsOf

\* Only opening a file changes the text.
LEMMA TextKept ==
    ASSUME LexNext, NEW w, Prefix(w)
    PROVE  text' = text /\ Prefix(w)'
<1>1. text' = text
    BY DEF LexNext, LexBetween, LexInside, SkipBlank, OpenLineComment, OpenBlockComment, BeginWord,
        BeginNumber, BeginQuotation, BeginOp, ReadPunctuation, UnexpectedCharacter, EndOfText,
        SkipLineComment, CloseLineComment, SkipBlockComment, CloseBlockComment,
        ContinueWord, EndWord, ContinueNumber, BeginFraction, EndNumber,
        ContinueOp, EndOp, SkipDoubled, CloseQuotation, ContinueQuotation, AtDelimiter,
        Unterminated, Advance, Begin, Emit
<1>. QED BY <1>1 DEF Prefix

\* A token t of the text, from first to last.
TokenIn(src, t, first, last) ==
    /\ Len(t.atoms) \in Nat
    /\ first \in Nat /\ first > 0 /\ last \in Nat
    /\ first <= last /\ last <= Len(src) /\ Len(src) \in Nat
    /\ t.kind \notin Quotation =>
          /\ Len(t.atoms) > 0 /\ last = first + Len(t.atoms) - 1
          /\ \A j \in 1 .. Len(t.atoms) : src[first + j - 1] = t.atoms[j]
    /\ t.kind \in Quotation =>
          /\ last = first + Len(t.atoms) + 1
          /\ src[first] = Delimiter[t.kind] /\ src[last] = Delimiter[t.kind]
          /\ \A j \in 1 .. Len(t.atoms) : src[first + j] = t.atoms[j]

\* Every token is there.
LEMMA TokenFacts ==
    ASSUME NEW w, Laid(w), NEW i \in 1 .. Len(w.ts)
    PROVE  TokenIn(w.src, w.ts[i], w.first[i], w.last[i])
<1> DEFINE t == w.ts[i]
           n == Len(t.atoms)
           f == w.first[i]
           l == w.last[i]
           d == Delimiter[t.kind]
<1>1. Placed(w, i) /\ Len(w.src) \in Nat
    BY DEF Laid
<1>2. IsList(t.atoms) /\ (t.kind \notin Quotation => t.atoms # <<>>)
    BY <1>1 DEF Placed, Spellable
<1>3. n \in Nat /\ (t.kind \notin Quotation => n > 0) /\ t.atoms \in Seq(ToSet(t.atoms))
    BY <1>2, TextFacts DEF IsList
<1>4. /\ f \in Nat /\ f > 0 /\ l = f + Len(Spelled(t)) - 1 /\ l <= Len(w.src)
      /\ \A j \in 1 .. Len(Spelled(t)) : w.src[f + j - 1] = Spelled(t)[j]
    BY <1>1 DEF Placed
<1> HIDE DEF f, l, n
<1>5. CASE t.kind \notin Quotation
    <2>1. Spelled(t) = t.atoms
        BY <1>5 DEF Spelled
    <2>2. Len(Spelled(t)) = n
        BY <2>1 DEF n
    <2>3. l = f + n - 1
        BY <1>4, <2>2
    <2>4. l \in Nat /\ f <= l
        BY <1>3, <1>4, <1>5, <2>3
    <2>5. \A j \in 1 .. n : w.src[f + j - 1] = t.atoms[j]
        BY <1>4, <2>1, <2>2
    <2>. QED BY <1>1, <1>3, <1>4, <1>5, <2>3, <2>4, <2>5 DEF f, l, n, TokenIn
<1>6. CASE t.kind \in Quotation
    <2> DEFINE S == ToSet(t.atoms) \cup {d}
               left == <<d>> \o t.atoms
    <2>1. t.atoms \in Seq(S) /\ <<d>> \in Seq(S) /\ Len(<<d>>) = 1 /\ <<d>>[1] = d
        BY <1>3
    <2>2. Spelled(t) = left \o <<d>>
        BY <1>6 DEF Spelled
    <2> HIDE DEF S, d
    <2>3. /\ left \in Seq(S) /\ Len(left) = n + 1
          /\ \A j \in 1 .. n + 1 : left[j] = IF j <= 1 THEN <<d>>[j] ELSE t.atoms[j - 1]
        <3>1. Len(left) = 1 + n
            BY <2>1, ConcatProperties DEF n
        <3>2. left \in Seq(S) /\ \A j \in 1 .. 1 + n : left[j] = IF j <= 1 THEN <<d>>[j] ELSE t.atoms[j - 1]
            BY <2>1, ConcatProperties DEF n
        <3>. QED BY <1>3, <3>1, <3>2
    <2> HIDE DEF left
    <2>4. /\ Len(Spelled(t)) = (n + 1) + 1
          /\ \A j \in 1 .. (n + 1) + 1 :
                Spelled(t)[j] = IF j <= n + 1 THEN left[j] ELSE <<d>>[j - (n + 1)]
        BY <2>1, <2>2, <2>3, ConcatProperties
    <2>5. Len(Spelled(t)) = n + 2 /\ l = f + n + 1
        BY <1>3, <1>4, <2>4
    <2>6. Spelled(t)[1] = d
        <3>1. 1 \in 1 .. (n + 1) + 1 /\ 1 <= n + 1 /\ 1 \in 1 .. n + 1
            BY <1>3
        <3>. QED BY <2>1, <2>3, <2>4, <3>1
    <2>7. Spelled(t)[n + 2] = d
        <3> DEFINE e == n + 2
        <3>1. e \in 1 .. (n + 1) + 1 /\ ~(e <= n + 1) /\ e - (n + 1) = 1
            BY <1>3
        <3> HIDE DEF e
        <3>2. Spelled(t)[e] = <<d>>[1]
            BY <2>4, <3>1
        <3>. QED BY <2>1, <3>2 DEF e
    <2>8. ASSUME NEW j \in 1 .. n PROVE Spelled(t)[j + 1] = t.atoms[j]
        <3>1. /\ j + 1 \in 1 .. (n + 1) + 1 /\ j + 1 <= n + 1 /\ j + 1 \in 1 .. n + 1
              /\ ~(j + 1 <= 1) /\ (j + 1) - 1 = j
            BY <1>3
        <3>. QED BY <2>3, <2>4, <3>1
    <2>9. \A j \in 1 .. n + 2 : w.src[f + j - 1] = Spelled(t)[j]
        BY <1>4, <2>5
    <2>10. w.src[f] = d
        <3>1. 1 \in 1 .. n + 2 /\ f + 1 - 1 = f
            BY <1>3, <1>4
        <3>. QED BY <2>6, <2>9, <3>1
    <2>11. w.src[l] = d
        <3>1. n + 2 \in 1 .. n + 2 /\ f + (n + 2) - 1 = l
            BY <1>3, <1>4, <2>5
        <3>2. w.src[f + (n + 2) - 1] = Spelled(t)[n + 2]
            BY <2>9, <3>1
        <3>. QED BY <2>7, <3>1, <3>2
    <2>12. ASSUME NEW j \in 1 .. n PROVE w.src[f + j] = t.atoms[j]
        <3>1. j + 1 \in 1 .. n + 2 /\ f + (j + 1) - 1 = f + j
            BY <1>3, <1>4
        <3>. QED BY <2>8, <2>9, <3>1
    <2>13. l \in Nat /\ f <= l
        BY <1>3, <1>4, <2>5
    <2>. QED BY <1>1, <1>3, <1>4, <1>6, <2>5, <2>10, <2>11, <2>12, <2>13 DEF f, l, n, d, TokenIn
<1>. QED BY <1>5, <1>6

\* What token an atom begins.
Begins(t, a) ==
    /\ t.kind \in TokenKinds \cup {"other"}
    /\ t.kind = "ident" => a \in Words
    /\ t.kind = "number" => a \in Digits
    /\ t.kind \in Quotation => a = Delimiter[t.kind]
    /\ t.kind = "op" => a \in OpSymbols
    /\ t.kind = "punct" => a \in Punctuation /\ Len(t.atoms) = 1
    /\ t.kind = "other" =>
          /\ a \notin Blanks \cup Words \cup Digits \cup Punctuation \cup OpSymbols
          /\ \A kind \in Quotation : a # Delimiter[kind]

\* A first atom says what the token is.
LEMMA FirstAtom ==
    ASSUME NEW w, Laid(w), NEW i \in 1 .. Len(w.ts)
    PROVE  Begins(w.ts[i], w.src[w.first[i]])
<1>. PICK t : t = w.ts[i]
    OBVIOUS
<1>. PICK f : f = w.first[i]
    OBVIOUS
<1>. PICK a : a = w.src[f]
    OBVIOUS
<1>1. Spellable(t)
    BY DEF Laid, Placed
<1>2. IsList(t.atoms) /\ Len(t.atoms) \in Nat /\ DOMAIN t.atoms = 1 .. Len(t.atoms)
    BY <1>1, TextFacts DEF Spellable
<1>3. TokenIn(w.src, t, f, w.last[i])
    BY TokenFacts
<1>4. t.kind \notin Quotation => a = t.atoms[1] /\ a \in ToSet(t.atoms)
    <2> SUFFICES ASSUME t.kind \notin Quotation PROVE a = t.atoms[1] /\ a \in ToSet(t.atoms)
        OBVIOUS
    <2>1. 1 \in 1 .. Len(t.atoms) /\ f + 1 - 1 = f
        BY <1>3 DEF TokenIn
    <2>2. w.src[f + 1 - 1] = t.atoms[1]
        BY <1>3, <2>1 DEF TokenIn
    <2>. QED BY <1>2, <2>1, <2>2 DEF ToSet
<1>5. {"ident", "number", "op", "punct", "other"} \cap Quotation = {}
    BY DEF Quotation
<1>6. t.kind = "ident" => a \in Words
    BY <1>1, <1>4, <1>5 DEF Spellable
<1>7. t.kind = "op" => a \in OpSymbols
    BY <1>1, <1>4, <1>5 DEF Spellable
<1>8. t.kind = "number" => a \in Digits
    <2> SUFFICES ASSUME t.kind = "number" PROVE a \in Digits
        OBVIOUS
    <2>1. PICK n \in Digits, part \in Digits : t.atoms \in {<<n>>, <<n, ".", part>>}
        BY <1>1 DEF Spellable
    <2>2. t.atoms[1] = n
        <3>1. <<n>>[1] = n /\ <<n, ".", part>>[1] = n
            OBVIOUS
        <3>. QED BY <2>1, <3>1
    <2>. QED BY <1>4, <1>5, <2>1, <2>2
<1>9. t.kind = "punct" => a \in Punctuation /\ Len(t.atoms) = 1
    <2> SUFFICES ASSUME t.kind = "punct" PROVE a \in Punctuation /\ Len(t.atoms) = 1
        OBVIOUS
    <2>1. PICK p \in Punctuation : t.atoms = <<p>>
        BY <1>1 DEF Spellable
    <2>2. t.atoms[1] = p /\ Len(t.atoms) = 1
        BY <2>1
    <2>. QED BY <1>4, <1>5, <2>1, <2>2
<1>10. t.kind = "other" =>
          /\ a \notin Blanks \cup Words \cup Digits \cup Punctuation \cup OpSymbols
          /\ \A kind \in Quotation : a # Delimiter[kind]
    BY <1>1, <1>4, <1>5 DEF Spellable
<1>11. t.kind \in Quotation => a = Delimiter[t.kind]
    BY <1>3 DEF TokenIn
<1>12. t.kind \in TokenKinds \cup {"other"}
    BY <1>1 DEF Spellable
<1>. QED BY <1>6, <1>7, <1>8, <1>9, <1>10, <1>11, <1>12 DEF Begins

\* A token begins.
LEMMA TokenBegins ==
    ASSUME NEW w, NEW kind \in Reading \ {"fraction"}, Begin(kind), Laid(w),
           NEW k \in Nat, k = Len(toks), k < Len(w.ts), ReadTo(k, w), NEW t, t = w.ts[k + 1],
           NEW l, l = w.last[k + 1], pos = w.first[k + 1], kind = t.kind
    PROVE  OnTrack(w)'
<1>1. start' = pos /\ pos' = pos + 1 /\ lexing' = kind /\ toks' = toks
    BY DEF Begin
<1>2. Len(toks') = k /\ ReadTo(Len(toks), w)'
    BY <1>1 DEF ReadTo
<1>3. k + 1 \in 1 .. Len(w.ts)
    BY DEF Laid
<1>4. TokenIn(w.src, t, pos, l) /\ Spellable(t)
    BY <1>3, TokenFacts DEF Laid, Placed
<1>5. pos' \in start' + 1 .. l + 1 /\ (t.kind \in Quotation => pos' <= l) /\ pos' = start' + 1
    <2>1. /\ pos \in Nat /\ l \in Nat /\ pos <= l /\ Len(t.atoms) \in Nat
          /\ t.kind \in Quotation => l = pos + Len(t.atoms) + 1
        BY <1>4 DEF TokenIn
    <2>. PICK c : c = Len(t.atoms)
        OBVIOUS
    <2>2. pos + 1 \in pos + 1 .. l + 1 /\ (t.kind \in Quotation => pos + 1 <= l)
        <3>1. /\ pos \in Nat /\ l \in Nat /\ pos <= l /\ c \in Nat
              /\ t.kind \in Quotation => l = pos + c + 1
            BY <2>1
        <3>. QED BY ONLY <3>1
    <2>. QED BY <1>1, <2>2
<1>6. t.kind \in Quotation => pos' - start' - 1 \notin PairsOf(t)
    <2>1. pos' - start' - 1 = 0
        BY <1>1, <1>4 DEF TokenIn
    <2>2. t.kind \in Quotation => \A i \in PairsOf(t) : i \in 1 .. Len(t.atoms) - 1
        BY <1>4, HasPairs DEF PairsIn
    <2>. QED BY <2>1, <2>2
<1>7. Within(t, l)'
    BY <1>1, <1>5, <1>6 DEF Within
<1>8. InToken(w)'
    BY <1>1, <1>2, <1>7 DEF InToken
<1>. QED BY <1>2, <1>8 DEF OnTrack

\* No operator begins a comment.
LEMMA NoOpener ==
    ASSUME Inv, NEW w, Laid(w), Prefix(w), pos <= Len(text),
           NEW i \in 1 .. Len(w.ts), w.ts[i].kind = "op", pos = w.first[i]
    PROVE  ~AtLineComment /\ ~AtBlockComment
<1>. PICK t : t = w.ts[i]
    OBVIOUS
<1>. PICK l : l = w.last[i]
    OBVIOUS
<1>. PICK n : n = Len(t.atoms)
    OBVIOUS
<1>1. /\ IsList(t.atoms) /\ Followed(w, i)
      /\ n > 1 => <<t.atoms[1], t.atoms[2]>> \notin {<<"-", "-">>, <<"/", "*">>}
    BY DEF Laid, Placed, Spellable
<1>3. TokenIn(w.src, t, pos, l)
    BY TokenFacts
<1>4. /\ n \in Nat /\ n > 0 /\ pos \in Nat /\ l = pos + n - 1
      /\ \A j \in 1 .. n : w.src[pos + j - 1] = t.atoms[j]
    BY <1>3 DEF TokenIn, Quotation
<1>5. /\ Peek = w.src[pos]
      /\ pos < Len(text) => PeekAt(1) = w.src[pos + 1]
      /\ pos >= Len(text) => PeekAt(1) = ""
      /\ Len(text) \in Nat
    BY Seen DEF Laid
<1>6. CASE pos >= Len(text)
    BY <1>5, <1>6 DEF AtLineComment, AtBlockComment
<1>7. CASE pos < Len(text) /\ n = 1
    <2>1. l = pos
        BY <1>4, <1>7
    <2>2. w.src[l + 1] \in Blanks
        BY <1>1 DEF Followed
    <2>3. PeekAt(1) \in Blanks
        BY <1>5, <1>7, <2>1, <2>2
    <2>. QED BY <2>3 DEF AtLineComment, AtBlockComment, Blanks, Newline
<1>8. CASE pos < Len(text) /\ n > 1
    <2>1. 1 \in 1 .. n /\ 2 \in 1 .. n /\ pos + 1 - 1 = pos /\ pos + 2 - 1 = pos + 1
        BY <1>4, <1>8
    <2>2. w.src[pos + 1 - 1] = t.atoms[1] /\ w.src[pos + 2 - 1] = t.atoms[2]
        BY <1>4, <2>1
    <2>3. Peek = t.atoms[1] /\ PeekAt(1) = t.atoms[2]
        BY <1>5, <1>8, <2>1, <2>2
    <2>6. ~(t.atoms[1] = "-" /\ t.atoms[2] = "-") /\ ~(t.atoms[1] = "/" /\ t.atoms[2] = "*")
        BY <1>1, <1>8
    <2>. QED BY <2>3, <2>6 DEF AtLineComment, AtBlockComment
<1>9. n = 1 \/ n > 1
    <2>1. n \in Nat /\ n > 0
        BY <1>4
    <2>2. \A m \in Nat : m > 0 => m = 1 \/ m > 1
        OBVIOUS
    <2>. QED BY ONLY <2>1, <2>2
<1>10. pos >= Len(text) \/ pos < Len(text)
    <2>1. pos \in Nat /\ Len(text) \in Nat
        BY <1>4, <1>5
    <2>. QED BY <2>1
<1>. QED BY <1>6, <1>7, <1>8, <1>9, <1>10

\* Where a token begins, the lexer begins it.
LEMMA NextToken ==
    ASSUME Inv, NEW w, Laid(w), Prefix(w), LexNext, Between(w), pos <= Len(text),
           NEW k \in Nat, k = Len(toks), k < Len(w.ts), ReadTo(k, w), pos = w.first[k + 1]
    PROVE  OnTrack(w)'
<1>. PICK t : t = w.ts[k + 1]
    OBVIOUS
<1>. PICK l : l = w.last[k + 1]
    OBVIOUS
<1>1. Len(w.src) \in Nat /\ Len(w.ts) \in Nat /\ k + 1 \in 1 .. Len(w.ts) /\ lexing = "between"
    BY DEF Laid, Between
<1>2. Peek = w.src[pos] /\ ~AtEnd
    BY <1>1, Seen
<1>3. Begins(t, Peek)
    BY <1>1, <1>2, FirstAtom
<1>4. ASSUME NEW kind \in Reading \ {"fraction"}, Begin(kind), kind = t.kind
      PROVE  OnTrack(w)'
    BY <1>4, TokenBegins
<1>5. "ident" \in Reading \ {"fraction"} /\ "number" \in Reading \ {"fraction"}
      /\ "op" \in Reading \ {"fraction"} /\ Quotation \subseteq Reading \ {"fraction"}
    BY DEF Reading, Quotation
<1>6. CASE t.kind = "ident"
    <2>1. Begin("ident")
        BY <1>1, <1>3, <1>6, BetweenByAtom DEF Begins
    <2>. QED BY <1>4, <1>5, <1>6, <2>1
<1>7. CASE t.kind = "number"
    <2>1. Begin("number")
        BY <1>1, <1>3, <1>7, BetweenByAtom DEF Begins
    <2>. QED BY <1>4, <1>5, <1>7, <2>1
<1>8. CASE t.kind \in Quotation
    <2>1. Begin(t.kind)
        BY <1>1, <1>3, <1>8, BetweenByAtom DEF Begins
    <2>. QED BY <1>4, <1>5, <1>8, <2>1
<1>9. CASE t.kind = "op"
    <2>1. ~AtLineComment /\ ~AtBlockComment
        BY <1>1, <1>9, NoOpener
    <2>2. Begin("op")
        BY <1>1, <1>3, <1>9, <2>1, BetweenByAtom DEF Begins
    <2>. QED BY <1>4, <1>5, <1>9, <2>2
<1>10. CASE t.kind = "punct"
    <2>1. ReadPunctuation
        BY <1>1, <1>3, <1>10, BetweenByAtom DEF Begins
    <2>2. l = pos
        <3>1. TokenIn(w.src, t, pos, l)
            BY <1>1, TokenFacts
        <3>2. Len(t.atoms) = 1 /\ t.kind \notin Quotation
            BY <1>3, <1>10 DEF Begins, Quotation
        <3>3. l = pos + 1 - 1 /\ pos \in Nat
            BY <3>1, <3>2 DEF TokenIn
        <3>. QED BY <3>3
    <2>3. /\ toks' = Append(toks, Token("punct", pos, pos)) /\ pos' = pos + 1 /\ lexing' = "between"
        BY <1>1, <2>1 DEF ReadPunctuation
    <2>4. Len(toks') = k + 1 /\ ReadTo(Len(toks), w)'
        BY <1>1, <1>10, <2>2, <2>3, MoreRead
    <2>5. l + 1 \in w.at[k + 1]
        BY <1>1 DEF Laid, Placed
    <2>6. Between(w)'
        BY <2>2, <2>3, <2>4, <2>5 DEF Between
    <2>. QED BY <2>4, <2>6 DEF OnTrack
<1>11. CASE t.kind = "other"
    <2>1. Advance(1, "failed")
        BY <1>1, <1>2, <1>3, <1>11, BetweenByAtom DEF Begins
    <2>2. lexing' = "failed" /\ toks' = toks
        BY <2>1 DEF Advance
    <2>3. ReadTo(Len(toks), w)' /\ Refused(w)'
        BY <1>1, <1>11, <2>2 DEF ReadTo, Refused
    <2>. QED BY <2>3 DEF OnTrack
<1>12. t.kind \in TokenKinds \cup {"other"}
    BY <1>3 DEF Begins
<1>. QED BY <1>6, <1>7, <1>8, <1>9, <1>10, <1>11, <1>12 DEF TokenKinds

\* An atom at which the text is cut begins an operator.
LEMMA CutOpener ==
    ASSUME Inv, NEW w, Laid(w), Prefix(w), LexNext, lexing = "between", ReadTo(Len(toks), w),
           pos = Len(text), Peek \in {"-", "/"}
    PROVE  AtCut(w)'
<1>1. Len(w.src) \in Nat
    BY DEF Laid
<1>2. PeekAt(1) = ""
    <2>1. Len(text) \in Nat /\ (pos >= Len(text) => PeekAt(1) = "")
        BY <1>1, Seen
    <2>2. \A m \in Nat : m >= m
        OBVIOUS
    <2>. QED BY <2>1, <2>2
<1>3. ~AtLineComment /\ ~AtBlockComment
    BY <1>2 DEF AtLineComment, AtBlockComment
<1>4. Begin("op")
    BY <1>3, BetweenByAtom DEF OpSymbols
<1>5. /\ pos' = pos + 1 /\ lexing' = "op" /\ toks' = toks /\ text' = text
    BY <1>4 DEF Begin
<1>6. ReadTo(Len(toks), w)'
    BY <1>5 DEF ReadTo
<1>7. "op" \notin Scanning
    BY DEF Scanning
<1>. QED BY <1>5, <1>6, <1>7 DEF AtCut

\* Where a comment begins, the lexer begins it, unless the text is cut there.
LEMMA CommentBegins ==
    ASSUME Inv, NEW w, Laid(w), Prefix(w), LexNext, lexing = "between", ReadTo(Len(toks), w),
           pos <= Len(text), NEW end \in w.at[Len(toks)],
           LineComment(w.src, pos, end) \/ BlockComment(w.src, pos, end)
    PROVE  OnTrack(w)' \/ Astray(w)'
<1>1. /\ Len(text) \in Nat /\ Len(w.src) \in Nat /\ pos \in Nat /\ pos > 0
      /\ Peek = w.src[pos] /\ (pos < Len(text) => PeekAt(1) = w.src[pos + 1])
      /\ Len(text) <= Len(w.src)
    BY Seen DEF Laid, Prefix
<1>2. pos = Len(text) \/ pos < Len(text)
    BY <1>1
<1>3. pos + 1 <= Len(w.src) /\ Peek \in {"-", "/"}
    <2>1. CASE LineComment(w.src, pos, end)
        <3>1. end \in pos + 2 .. Len(w.src) /\ w.src[pos] = "-"
            BY <2>1 DEF LineComment
        <3>2. pos + 1 <= Len(w.src)
            BY <1>1, <3>1
        <3>. QED BY <1>1, <3>1, <3>2
    <2>2. CASE BlockComment(w.src, pos, end)
        <3>1. end \in pos + 4 .. Len(w.src) + 1 /\ w.src[pos] = "/"
            BY <2>2 DEF BlockComment
        <3>2. pos + 1 <= Len(w.src)
            BY <1>1, <3>1
        <3>. QED BY <1>1, <3>1, <3>2
    <2>. QED BY <2>1, <2>2
<1>4. CASE pos = Len(text)
    <2>1. AtCut(w)'
        BY <1>3, <1>4, CutOpener
    <2>2. Len(text) < Len(w.src)
        BY <1>1, <1>3, <1>4
    <2>3. (Len(text) < Len(w.src))'
        BY <2>2, TextKept
    <2>. QED BY <2>1, <2>3 DEF Astray
<1>5. CASE pos < Len(text)
    <2>1. CASE LineComment(w.src, pos, end)
        <3>1. /\ end \in pos + 2 .. Len(w.src) /\ w.src[pos] = "-" /\ w.src[pos + 1] = "-"
              /\ w.src[end] = Newline /\ \A j \in pos .. end - 1 : w.src[j] \notin LineEnds
            BY <2>1 DEF LineComment
        <3>2. Advance(0, "line")
            BY <1>1, <1>5, <3>1, BetweenByAtom DEF AtLineComment
        <3>3. pos' = pos /\ lexing' = "line" /\ toks' = toks
            BY <1>1, <3>2 DEF Advance
        <3>4. end \in pos .. Len(w.src)
            BY <1>1, <3>1
        <3>5. InLine(w)'
            BY <3>1, <3>3, <3>4 DEF InLine
        <3>6. ReadTo(Len(toks), w)'
            BY <3>3 DEF ReadTo
        <3>. QED BY <3>5, <3>6 DEF OnTrack
    <2>2. CASE BlockComment(w.src, pos, end)
        <3>1. /\ end \in pos + 4 .. Len(w.src) + 1 /\ w.src[pos] = "/" /\ w.src[pos + 1] = "*"
              /\ BlockEnd(w.src, end - 2) /\ \A j \in pos + 2 .. end - 3 : ~BlockEnd(w.src, j)
            BY <2>2 DEF BlockComment
        <3>2. Advance(2, "block")
            BY <1>1, <1>5, <3>1, BetweenByAtom DEF AtBlockComment
        <3>3. pos' = pos + 2 /\ lexing' = "block" /\ toks' = toks
            BY <1>1, <3>2 DEF Advance
        <3>4. end \in (pos + 2) + 2 .. Len(w.src) + 1
            BY <1>1, <3>1
        <3>5. InBlock(w)'
            BY <3>1, <3>3, <3>4 DEF InBlock
        <3>6. ReadTo(Len(toks), w)'
            BY <3>3 DEF ReadTo
        <3>. QED BY <3>5, <3>6 DEF OnTrack
    <2>. QED BY <2>1, <2>2
<1>. QED BY <1>2, <1>4, <1>5

\* Between two tokens.
LEMMA BetweenKept ==
    ASSUME Inv, NEW w, Laid(w), Prefix(w), LexNext, Between(w), ReadTo(Len(toks), w),
           pos <= Len(text)
    PROVE  OnTrack(w)' \/ Astray(w)'
<1>. PICK k : k = Len(toks)
    OBVIOUS
<1>1. /\ Len(text) \in Nat /\ Len(w.src) \in Nat /\ pos \in Nat /\ Len(text) <= Len(w.src)
      /\ Peek = w.src[pos] /\ Len(w.ts) \in Nat
    BY Seen DEF Laid, Prefix
<1>2. k \in 0 .. Len(w.ts) /\ k \in Nat
    BY <1>1 DEF ReadTo
<1>3. Stands(w, k, pos)
    BY <1>2 DEF Laid, Between
<1>4. CASE k < Len(w.ts) /\ pos = w.first[k + 1]
    BY <1>2, <1>4, NextToken
<1>5. CASE pos = Len(w.src) + 1
    BY <1>1, <1>5
<1>6. CASE w.src[pos] \in Blanks /\ pos + 1 \in w.at[k]
    <2>1. Advance(1, "between")
        BY <1>1, <1>6, BetweenByAtom DEF Between
    <2>2. pos' = pos + 1 /\ lexing' = "between" /\ toks' = toks
        BY <2>1 DEF Advance
    <2>3. Between(w)' /\ ReadTo(Len(toks), w)'
        BY <1>6, <2>2 DEF Between, ReadTo
    <2>. QED BY <2>3 DEF OnTrack
<1>7. CASE \E end \in w.at[k] : LineComment(w.src, pos, end) \/ BlockComment(w.src, pos, end)
    BY <1>7, CommentBegins DEF Between
<1>. QED BY <1>3, <1>4, <1>5, <1>6, <1>7 DEF Stands

\* Inside a comment.
LEMMA CommentKept ==
    ASSUME Inv, NEW w, Laid(w), Prefix(w), LexNext, InLine(w) \/ InBlock(w),
           ReadTo(Len(toks), w), pos <= Len(text)
    PROVE  OnTrack(w)' \/ Astray(w)'
<1>1. /\ Len(text) \in Nat /\ Len(w.src) \in Nat /\ pos \in Nat /\ Len(text) <= Len(w.src)
      /\ Peek = w.src[pos] /\ ~AtEnd
      /\ (pos < Len(text) => PeekAt(1) = w.src[pos + 1])
      /\ (pos >= Len(text) => PeekAt(1) = "")
    BY Seen DEF Laid, Prefix
<1>1a. Len(text) \in Nat /\ Len(w.src) \in Nat /\ pos \in Nat /\ pos <= Len(text)
      /\ Len(text) <= Len(w.src)
    BY <1>1
<1>2. CASE InLine(w)
    <2>1. PICK end \in w.at[Len(toks)] :
              /\ end \in pos .. Len(w.src) /\ w.src[end] = Newline
              /\ \A j \in pos .. end - 1 : w.src[j] \notin LineEnds
        BY <1>2 DEF InLine
    <2>1a. end \in pos .. Len(w.src) /\ pos \in Nat /\ Len(w.src) \in Nat
        BY <1>1, <2>1
    <2>2. lexing = "line"
        BY <1>2 DEF InLine
    <2>3. CASE Peek \in LineEnds
        <3>1. Advance(0, "between")
            BY <2>2, <2>3, CommentByAtom
        <3>2. pos' = pos /\ lexing' = "between" /\ toks' = toks
            <4>1. pos + 0 = pos
                BY ONLY <1>1a
            <4>. QED BY <3>1, <4>1 DEF Advance
        <3>3. pos = end
            <4>1. \A p, N \in Nat : \A e \in p .. N : p \in p .. e - 1 \/ p = e
                OBVIOUS
            <4>2. pos \in pos .. end - 1 \/ pos = end
                BY ONLY <2>1a, <4>1
            <4>3. w.src[pos] \in LineEnds
                BY <1>1, <2>3
            <4>4. \A j \in pos .. end - 1 : w.src[j] \notin LineEnds
                BY <2>1
            <4>. QED BY <4>2, <4>3, <4>4, Zenon
        <3>4. Between(w)' /\ ReadTo(Len(toks), w)'
            BY <3>2, <3>3 DEF Between, ReadTo
        <3>. QED BY <3>4 DEF OnTrack
    <2>4. CASE Peek \notin LineEnds
        <3>1. Advance(1, "line")
            BY <1>1, <2>2, <2>4, CommentByAtom
        <3>2. pos' = pos + 1 /\ lexing' = "line" /\ toks' = toks
            BY <3>1 DEF Advance
        <3>3. end # pos
            BY <1>1, <2>1, <2>4 DEF LineEnds
        <3>4. end \in pos + 1 .. Len(w.src) /\ \A j \in pos + 1 .. end - 1 : j \in pos .. end - 1
            <4>1. \A p, N \in Nat : \A e \in p .. N : e # p =>
                      e \in p + 1 .. N /\ \A j \in p + 1 .. e - 1 : j \in p .. e - 1
                OBVIOUS
            <4>. QED BY ONLY <2>1a, <3>3, <4>1
        <3>5. InLine(w)' /\ ReadTo(Len(toks), w)'
            BY <2>1, <3>2, <3>4 DEF InLine, ReadTo
        <3>. QED BY <3>5 DEF OnTrack
    <2>. QED BY <2>3, <2>4
<1>3. CASE InBlock(w)
    <2>1. PICK end \in w.at[Len(toks)] :
              /\ end \in pos + 2 .. Len(w.src) + 1 /\ BlockEnd(w.src, end - 2)
              /\ \A j \in pos .. end - 3 : ~BlockEnd(w.src, j)
        BY <1>3 DEF InBlock
    <2>1a. end \in pos + 2 .. Len(w.src) + 1 /\ pos \in Nat /\ Len(w.src) \in Nat
        BY <1>1, <2>1
    <2>2. lexing = "block"
        BY <1>3 DEF InBlock
    <2>3. (pos = end - 2 /\ pos + 2 = end) \/ pos \in pos .. end - 3
        <3>1. \A p, N \in Nat : \A e \in p + 2 .. N + 1 :
                  (p = e - 2 /\ p + 2 = e) \/ p \in p .. e - 3
            OBVIOUS
        <3>. QED BY ONLY <2>1a, <3>1
    <2>4. BlockEnd(w.src, pos) => pos + 2 = end
        BY <2>1, <2>3
    <2>5. CASE AtBlockEnd
        <3>0. ~(pos >= Len(text))
            BY <1>1, <2>5 DEF AtBlockEnd
        <3>1. Advance(2, "between") /\ pos < Len(text)
            <4>1. Advance(2, "between")
                BY <1>1, <2>2, <2>5, CommentByAtom
            <4>. QED BY ONLY <1>1a, <3>0, <4>1
        <3>2. pos' = pos + 2 /\ lexing' = "between" /\ toks' = toks
            BY <3>1 DEF Advance
        <3>3. BlockEnd(w.src, pos)
            BY <1>1, <2>5, <3>1 DEF AtBlockEnd, BlockEnd
        <3>4. Between(w)' /\ ReadTo(Len(toks), w)'
            BY <2>4, <3>2, <3>3 DEF Between, ReadTo
        <3>. QED BY <3>4 DEF OnTrack
    <2>6. CASE ~AtBlockEnd
        <3>1. Advance(1, "block")
            BY <1>1, <2>2, <2>6, CommentByAtom
        <3>2. pos' = pos + 1 /\ lexing' = "block" /\ toks' = toks
            BY <3>1 DEF Advance
        <3>3. ReadTo(Len(toks), w)'
            BY <3>2 DEF ReadTo
        <3>4. CASE pos = end - 2
            <4>1. BlockEnd(w.src, pos)
                BY <2>1, <3>4
            <4>2. ~(pos < Len(text))
                BY <1>1, <2>6, <4>1 DEF AtBlockEnd, BlockEnd
            <4>3. pos = Len(text) /\ Len(text) < Len(w.src)
                <5>1. \A p, N, M \in Nat :
                          /\ p <= M /\ M <= N /\ ~(p < M) /\ p + 2 \in p + 2 .. N + 1
                          => p = M /\ M < N
                    OBVIOUS
                <5>2. pos + 2 = end
                    BY ONLY <2>1a, <3>4
                <5>. QED BY ONLY <1>1a, <2>1a, <4>2, <5>1, <5>2
            <4>4. "block" \notin Reading
                BY DEF Reading, Quotation
            <4>5. AtCut(w)' /\ (Len(text) < Len(w.src))'
                BY <3>2, <3>3, <4>3, <4>4, TextKept DEF AtCut
            <4>. QED BY <4>5 DEF Astray
        <3>5. CASE pos # end - 2
            <4>1. end \in (pos + 1) + 2 .. Len(w.src) + 1
                <5>1. \A p, N \in Nat : \A e \in p + 2 .. N + 1 :
                          p # e - 2 => e \in (p + 1) + 2 .. N + 1
                    OBVIOUS
                <5>. QED BY ONLY <2>1a, <3>5, <5>1
            <4>2. \A j \in pos + 1 .. end - 3 : j \in pos .. end - 3
                <5>1. \A p, N \in Nat : \A e \in p + 2 .. N + 1 :
                          \A j \in p + 1 .. e - 3 : j \in p .. e - 3
                    OBVIOUS
                <5>. QED BY ONLY <2>1a, <5>1
            <4>3. InBlock(w)'
                BY <2>1, <3>2, <4>1, <4>2 DEF InBlock
            <4>. QED BY <3>3, <4>3 DEF OnTrack
        <3>. QED BY <3>4, <3>5
    <2>. QED BY <2>5, <2>6
<1>. QED BY <1>2, <1>3

\* The token being read is the next one, t, whose last atom is at l.
Inside(w, k, t, l) ==
    /\ k \in Nat /\ k = Len(toks) /\ k < Len(w.ts) /\ ReadTo(k, w)
    /\ t = w.ts[k + 1] /\ l = w.last[k + 1] /\ start = w.first[k + 1]
\* What follows t in src.
Ends(src, t, l) ==
    t.kind # "punct" =>
        /\ l < Len(src) /\ src[l + 1] \notin IdentCont \cup Digits \cup {"'", "\""}
        /\ t.kind = "op" => src[l + 1] \notin OpSymbols
        /\ t.kind = "number" => src[l + 1] # "."

\* What is known of it.
LEMMA InsideFacts ==
    ASSUME NEW w, Laid(w), NEW k, NEW t, NEW l, Inside(w, k, t, l)
    PROVE  /\ TokenIn(w.src, t, start, l) /\ Spellable(t) /\ Ends(w.src, t, l)
           /\ l + 1 \in w.at[k + 1] /\ k + 1 \in 1 .. Len(w.ts)
<1>1. k + 1 \in 1 .. Len(w.ts)
    BY DEF Inside, Laid
<1>2. TokenIn(w.src, t, start, l)
    BY <1>1, TokenFacts DEF Inside
<1>3. Placed(w, k + 1)
    BY <1>1 DEF Laid
<1>4. Spellable(t) /\ Followed(w, k + 1) /\ l + 1 \in w.at[k + 1]
    BY <1>3 DEF Placed, Inside
<1>5. \A a \in Blanks \cup {"-", "/"} \cup Punctuation :
          a \notin IdentCont \cup Digits \cup {"'", "\""}
    <2>1. {"-", "/"} \subseteq OpSymbols
        BY DEF OpSymbols
    <2>2. \A a \in Blanks \cup {"-", "/"} \cup Punctuation : a \notin Words \cup Digits
        BY <2>1, AtomsAssumption
    <2>3. \A a \in Blanks \cup {"-", "/"} \cup Punctuation : a \notin {"$", "'", "\""}
        BY DEF Blanks, Newline, Punctuation
    <2>. QED BY <2>2, <2>3 DEF IdentCont
<1>6. Blanks \cap OpSymbols = {}
    BY DEF Blanks, Newline, OpSymbols
<1>. PICK a : a = w.src[l + 1]
    OBVIOUS
<1>7. ASSUME t.kind # "punct"
      PROVE  /\ l < Len(w.src) /\ a \in Blanks \cup {"-", "/"} \cup Punctuation
             /\ t.kind = "op" => a \in Blanks
             /\ t.kind = "number" => a # "."
    BY <1>4, <1>7 DEF Followed, Inside
<1>8. Ends(w.src, t, l)
    BY <1>5, <1>6, <1>7 DEF Ends
<1>. QED BY <1>1, <1>2, <1>4, <1>8

\* It is read to its end.
LEMMA TokenEnds ==
    ASSUME Inv, NEW w, Laid(w), NEW k, NEW t, NEW l, Inside(w, k, t, l),
           NEW n \in {0, 1}, Emit(t.kind, n), pos + n - 1 = l, pos + n = l + 1
    PROVE  OnTrack(w)'
<1>1. /\ toks' = Append(toks, Token(t.kind, start, l)) /\ pos' = l + 1 /\ lexing' = "between"
    BY DEF Emit
<1>2. Len(toks') = k + 1 /\ ReadTo(Len(toks), w)'
    BY <1>1, MoreRead DEF Inside, Laid
<1>3. l + 1 \in w.at[k + 1]
    BY InsideFacts
<1>4. Between(w)'
    BY <1>1, <1>2, <1>3 DEF Between
<1>. QED BY <1>2, <1>4 DEF OnTrack

\* It is read on.
LEMMA TokenGoesOn ==
    ASSUME NEW w, NEW k, NEW t, NEW l, Inside(w, k, t, l),
           NEW n, NEW to \in Reading, Advance(n, to), Within(t, l)'
    PROVE  OnTrack(w)'
<1>1. toks' = toks /\ start' = start /\ lexing' = to
    BY DEF Advance
<1>2. Len(toks') = k /\ ReadTo(Len(toks), w)'
    BY <1>1 DEF ReadTo, Inside
<1>3. InToken(w)'
    BY <1>1, <1>2 DEF InToken, Inside
<1>. QED BY <1>2, <1>3 DEF OnTrack

\* Words and operators are read up to what is no part of them.
LEMMA RunKept ==
    ASSUME Inv, NEW w, Laid(w), Prefix(w), LexNext, NEW k, NEW t, NEW l, Inside(w, k, t, l),
           Within(t, l), pos <= Len(text), lexing \in {"ident", "op"}
    PROVE  OnTrack(w)'
<1>1. t.kind = lexing /\ t.kind \notin Quotation /\ t.kind # "punct"
    BY DEF Within, Quotation
<1>2. TokenIn(w.src, t, start, l) /\ Spellable(t) /\ Ends(w.src, t, l)
    BY InsideFacts
<1>. PICK n : n = Len(t.atoms)
    OBVIOUS
<1>3. /\ start \in Nat /\ start > 0 /\ l \in Nat /\ n \in Nat /\ l = start + n - 1
    BY <1>1, <1>2 DEF TokenIn
<1>4. \A j \in 1 .. n : w.src[start + j - 1] = t.atoms[j]
    BY <1>1, <1>2 DEF TokenIn
<1>5. pos \in start + 1 .. l + 1
    BY DEF Within
<1>6. Peek = w.src[pos]
    BY Seen DEF Laid
<1>7. CASE pos = l + 1
    <2>1. pos + 0 - 1 = l /\ pos + 0 = l + 1
        BY ONLY <1>3, <1>7
    <2>2. Peek \notin IdentCont /\ (t.kind = "op" => Peek \notin OpSymbols)
        BY <1>1, <1>2, <1>6, <1>7 DEF Ends
    <2>3. Emit(t.kind, 0)
        BY <1>1, <2>2, InsideByAtom
    <2>. QED BY <2>1, <2>3, TokenEnds
<1>8. CASE pos # l + 1
    <2>. PICK j : j = pos - start + 1
        OBVIOUS
    <2>1. j \in 1 .. n /\ start + j - 1 = pos
        BY ONLY <1>3, <1>5, <1>8, j = pos - start + 1
    <2>2. Peek = t.atoms[j]
        BY <1>4, <1>6, <2>1
    <2>3. IsList(t.atoms)
        BY <1>2 DEF Spellable
    <2>4. DOMAIN t.atoms = 1 .. n
        BY <2>3, TextFacts
    <2>5. Peek \in ToSet(t.atoms)
        BY <2>1, <2>2, <2>4 DEF ToSet
    <2>6. (t.kind = "ident" => Peek \in IdentCont) /\ (t.kind = "op" => Peek \in OpSymbols)
        BY <1>2, <2>5 DEF Spellable
    <2>7. Advance(1, lexing)
        BY <1>1, <2>6, InsideByAtom
    <2>8. pos' = pos + 1 /\ lexing' = lexing /\ start' = start
        BY <2>7 DEF Advance
    <2>9. pos + 1 \in start + 1 .. l + 1
        BY ONLY <1>3, <1>5, <1>8
    <2>10. lexing \in Reading /\ lexing \notin {"number", "fraction"} \cup Quotation
        BY DEF Reading, Quotation
    <2>11. Within(t, l)'
        BY <1>1, <2>8, <2>9, <2>10 DEF Within
    <2>. QED BY <2>7, <2>10, <2>11, TokenGoesOn
<1>. QED BY <1>7, <1>8

\* A number is read with its fraction, unless the text is cut after the point.
LEMMA NumberKept ==
    ASSUME Inv, NEW w, Laid(w), Prefix(w), LexNext, NEW k, NEW t, NEW l, Inside(w, k, t, l),
           Within(t, l), pos <= Len(text), lexing \in {"number", "fraction"}
    PROVE  OnTrack(w)' \/ Astray(w)'
<1>1. t.kind = "number" /\ t.kind \notin Quotation
    BY DEF Within, Quotation
<1>2. TokenIn(w.src, t, start, l) /\ Spellable(t) /\ Ends(w.src, t, l)
    BY InsideFacts
<1>3. PICK m \in Digits, part \in Digits : t.atoms = <<m>> \/ t.atoms = <<m, ".", part>>
    BY <1>1, <1>2 DEF Spellable
<1>4. /\ start \in Nat /\ start > 0 /\ l \in Nat /\ l = start + Len(t.atoms) - 1
      /\ \A j \in 1 .. Len(t.atoms) : w.src[start + j - 1] = t.atoms[j]
    BY <1>1, <1>2 DEF TokenIn
<1>5. /\ pos \in start + 1 .. l + 1
      /\ lexing = "number" => pos = start + 1
      /\ lexing = "fraction" => pos > start + 1
    BY DEF Within
<1>6. /\ Peek = w.src[pos] /\ Len(text) \in Nat /\ Len(w.src) \in Nat
      /\ pos < Len(text) => PeekAt(1) = w.src[pos + 1]
      /\ pos >= Len(text) => PeekAt(1) = ""
    BY Seen DEF Laid
<1>7. "." \notin Digits /\ "" \notin Digits
    BY AtomsAssumption DEF Punctuation
<1>8. pos \in Nat
    BY ONLY <1>4, <1>5
<1>9. CASE pos = l + 1
    <2>1. pos + 0 - 1 = l /\ pos + 0 = l + 1
        BY ONLY <1>4, <1>9
    <2>2. Peek \notin Digits /\ Peek # "."
        BY <1>1, <1>2, <1>6, <1>9 DEF Ends
    <2>3. Emit(t.kind, 0)
        BY <1>1, <2>2, InsideByAtom
    <2>. QED BY <2>1, <2>3, TokenEnds
<1>10. CASE pos # l + 1
    <2>1. t.atoms = <<m, ".", part>>
        <3>1. t.atoms = <<m>> => Len(t.atoms) = 1
            OBVIOUS
        <3>2. Len(t.atoms) = 1 => l = start
            BY ONLY <1>4
        <3>3. l = start => pos = l + 1
            BY ONLY <1>4, <1>5
        <3>. QED BY <1>3, <1>10, <3>1, <3>2, <3>3
    <2>2. Len(t.atoms) = 3 /\ t.atoms[2] = "." /\ t.atoms[3] = part
        BY <2>1
    <2>3. l = start + 2
        BY ONLY <1>4, <2>2
    <2>4. w.src[start + 1] = "." /\ w.src[start + 2] \in Digits
        <3>1. 2 \in 1 .. 3 /\ 3 \in 1 .. 3 /\ start + 2 - 1 = start + 1 /\ start + 3 - 1 = start + 2
            BY ONLY <1>4
        <3>2. w.src[start + 2 - 1] = t.atoms[2] /\ w.src[start + 3 - 1] = t.atoms[3]
            BY <1>4, <2>2, <3>1
        <3>. QED BY <1>3, <2>2, <3>1, <3>2
    <2>5. CASE lexing = "fraction"
        <3>1. pos = start + 2
            BY ONLY <1>4, <1>5, <1>10, <2>3, <2>5
        <3>2. Peek \in Digits
            BY <1>6, <2>4, <3>1
        <3>3. Advance(1, "fraction")
            BY <2>5, <3>2, InsideByAtom
        <3>4. pos' = pos + 1 /\ lexing' = "fraction" /\ start' = start
            BY <3>3 DEF Advance
        <3>5. pos + 1 \in start + 1 .. l + 1 /\ pos + 1 > start + 1
            BY ONLY <1>4, <2>3, <3>1
        <3>6. Within(t, l)' /\ "fraction" \in Reading
            BY <1>1, <3>4, <3>5 DEF Within, Quotation, Reading
        <3>. QED BY <3>3, <3>6, TokenGoesOn
    <2>6. CASE lexing = "number"
        <3>1. pos = start + 1 /\ pos + 1 = start + 2
            BY ONLY <1>4, <1>5, <2>6
        <3>2. Peek = "."
            BY <1>6, <2>4, <3>1
        <3>3. CASE pos < Len(text)
            <4>1. PeekAt(1) \in Digits
                BY <1>6, <2>4, <3>1, <3>3
            <4>2. Advance(1, "fraction")
                BY <1>7, <2>6, <3>2, <4>1, InsideByAtom
            <4>3. pos' = pos + 1 /\ lexing' = "fraction" /\ start' = start
                BY <4>2 DEF Advance
            <4>4. pos + 1 \in start + 1 .. l + 1 /\ pos + 1 > start + 1
                BY ONLY <1>4, <2>3, <3>1
            <4>5. Within(t, l)' /\ "fraction" \in Reading
                BY <1>1, <4>3, <4>4 DEF Within, Quotation, Reading
            <4>. QED BY <4>2, <4>5, TokenGoesOn
        <3>4. CASE ~(pos < Len(text))
            <4>1. pos = Len(text) /\ pos >= Len(text)
                <5>1. \A p, M \in Nat : p <= M /\ ~(p < M) => p = M /\ p >= M
                    OBVIOUS
                <5>. QED BY ONLY <1>6, <1>8, <3>4, <5>1, pos <= Len(text)
            <4>2. PeekAt(1) \notin Digits
                BY <1>6, <1>7, <4>1
            <4>3. Emit("number", 0)
                BY <1>7, <2>6, <3>2, <4>2, InsideByAtom
            <4>4. /\ toks' = Append(toks, Token("number", start, pos + 0 - 1)) /\ pos' = pos + 0
                  /\ lexing' = "between" /\ text' = text
                BY <4>3 DEF Emit
            <4>5. pos + 0 = pos
                BY ONLY <1>8
            <4>6. /\ Len(toks') = k + 1 /\ toks'[Len(toks')] = Token("number", start, pos + 0 - 1)
                  /\ ReadTo(k, w)'
                BY <4>4, MoreRead DEF Inside
            <4>7. Len(toks') > 0 /\ Len(toks') - 1 = k
                BY <4>6 DEF Inside
            <4>8. toks'[Len(toks')].kind = "number"
                BY <4>6 DEF Token
            <4>9. text'[pos'] = "."
                BY <1>6, <3>2, <4>1, <4>4, <4>5, <1>8 DEF Peek, PeekAt
            <4>10. pos' = Len(text')
                BY <4>1, <4>4, <4>5
            <4>11. (ReadTo(Len(toks) - 1, w))'
                BY <4>6, <4>7
            <4>12. AtPoint(w)'
                BY <4>4, <4>7, <4>8, <4>9, <4>10, <4>11 DEF AtPoint
            <4>13. Len(text) < Len(w.src)
                <5>1. l <= Len(w.src)
                    BY <1>2 DEF TokenIn
                <5>2. \A p, f, N \in Nat : p = f + 1 /\ f + 2 <= N => p < N
                    OBVIOUS
                <5>3. pos < Len(w.src)
                    BY ONLY <1>4, <1>6, <1>8, <2>3, <3>1, <5>1, <5>2
                <5>. QED BY ONLY <4>1, <5>3
            <4>14. (Len(text) < Len(w.src))'
                BY <4>4, <4>13
            <4>. QED BY <4>12, <4>14 DEF Astray
        <3>. QED BY <3>3, <3>4
    <2>. QED BY <2>5, <2>6
<1>. QED BY <1>9, <1>10

\* A quotation is read with the delimiters in it, unless the text is cut between
\* two of them.
LEMMA QuotationKept ==
    ASSUME Inv, NEW w, Laid(w), Prefix(w), LexNext, NEW k, NEW t, NEW l, Inside(w, k, t, l),
           Within(t, l), pos <= Len(text), lexing \in Quotation
    PROVE  OnTrack(w)' \/ Astray(w)'
<1>. PICK d : d = Delimiter[t.kind]
    OBVIOUS
<1>. PICK n : n = Len(t.atoms)
    OBVIOUS
<1>1. /\ t.kind = lexing /\ lexing \notin {"ident", "op", "number", "fraction", "punct"}
      /\ lexing \in Reading
    BY DEF Within, Quotation, Reading
<1>2. TokenIn(w.src, t, start, l) /\ Spellable(t) /\ Ends(w.src, t, l)
    BY InsideFacts
<1>3. /\ start \in Nat /\ start > 0 /\ l \in Nat /\ n \in Nat /\ l = start + n + 1
    BY <1>1, <1>2 DEF TokenIn
<1>4. /\ w.src[l] = d /\ \A j \in 1 .. n : w.src[start + j] = t.atoms[j]
    BY <1>1, <1>2 DEF TokenIn
<1>5. pos \in start + 1 .. l + 1 /\ pos <= l /\ pos - start - 1 \notin PairsOf(t)
    BY <1>1 DEF Within
<1>6. PairsIn(t, PairsOf(t))
    BY <1>1, <1>2, HasPairs
<1>. PICK pairs : pairs = PairsOf(t)
    OBVIOUS
<1>7. /\ \A i \in pairs : i \in 1 .. n - 1 /\ i + 1 \notin pairs
      /\ \A i \in 1 .. n : t.atoms[i] = d <=> i \in pairs \/ i - 1 \in pairs
    BY <1>6 DEF PairsIn
<1>8. /\ Peek = w.src[pos] /\ Len(text) \in Nat /\ Len(w.src) \in Nat /\ ~AtEnd
      /\ pos < Len(text) => PeekAt(1) = w.src[pos + 1]
      /\ pos >= Len(text) => PeekAt(1) = ""
    BY Seen DEF Laid
<1>9. d \in {"'", "\""} /\ d # ""
    <2>1. Delimiter["string"] = "'" /\ Delimiter["quoted"] = "\""
        BY DEF Delimiter
    <2>2. t.kind = "string" \/ t.kind = "quoted"
        BY <1>1 DEF Quotation
    <2>. QED BY <2>1, <2>2
<1>10. pos \in Nat /\ (pos < Len(text) \/ (pos >= Len(text) /\ pos = Len(text)))
    <2>1. pos \in Nat
        BY ONLY <1>3, <1>5
    <2>2. \A p, M \in Nat : p <= M => p < M \/ (p >= M /\ p = M)
        OBVIOUS
    <2>. QED BY ONLY <1>8, <2>1, <2>2, pos <= Len(text)
<1>11. CASE pos = l
    <2>1. pos + 1 - 1 = l /\ pos + 1 = l + 1
        BY ONLY <1>3, <1>11
    <2>2. w.src[l + 1] \notin {"'", "\""}
        BY <1>1, <1>2 DEF Ends
    <2>3. Peek = d
        BY <1>4, <1>8, <1>11
    <2>4. PeekAt(1) # d
        BY <1>8, <1>9, <1>10, <2>1, <2>2
    <2>5. Emit(t.kind, 1)
        BY <1>1, <1>8, <2>3, <2>4, InsideByAtom
    <2>. QED BY <2>1, <2>5, TokenEnds
<1>12. CASE pos # l
    <2>. PICK i : i = pos - start
        OBVIOUS
    <2>1. i \in 1 .. n /\ start + i = pos /\ i - 1 = pos - start - 1
        BY ONLY <1>3, <1>5, <1>12, i = pos - start
    <2>2. Peek = t.atoms[i] /\ i - 1 \notin pairs
        BY <1>4, <1>5, <1>8, <2>1
    <2>3. Peek = d <=> i \in pairs
        BY <1>7, <2>1, <2>2
    <2>4. ASSUME NEW m \in {1, 2}, Advance(m, lexing), i + m - 1 \notin pairs, pos + m <= l
          PROVE  OnTrack(w)'
        <3>1. pos' = pos + m /\ lexing' = lexing /\ start' = start
            BY <2>4 DEF Advance
        <3>2. pos + m \in start + 1 .. l + 1 /\ (pos + m) - start - 1 = i + m - 1
            BY ONLY <1>3, <1>5, <2>4, i = pos - start
        <3>3. Within(t, l)'
            BY <1>1, <2>4, <3>1, <3>2 DEF Within
        <3>. QED BY <1>1, <2>4, <3>3, TokenGoesOn
    <2>5. CASE i \notin pairs
        <3>1. Advance(1, lexing)
            BY <1>1, <1>8, <2>3, <2>5, InsideByAtom
        <3>2. pos + 1 <= l /\ i + 1 - 1 = i
            BY ONLY <1>3, <1>5, <1>12, <2>1
        <3>. QED BY <2>4, <2>5, <3>1, <3>2
    <2>6. CASE i \in pairs
        <3>1. i \in 1 .. n - 1 /\ i + 1 \notin pairs
            BY <1>7, <2>6
        <3>2. i + 1 \in 1 .. n /\ (i + 1) - 1 = i /\ start + (i + 1) = pos + 1 /\ pos + 2 <= l
            BY ONLY <1>3, <2>1, <3>1
        <3>3. w.src[pos + 1] = d
            <4>1. w.src[start + (i + 1)] = t.atoms[i + 1]
                BY <1>4, <3>2
            <4>2. t.atoms[i + 1] = d
                BY <1>7, <2>6, <3>2
            <4>. QED BY <3>2, <4>1, <4>2
        <3>4. CASE pos < Len(text)
            <4>1. PeekAt(1) = d
                BY <1>8, <3>3, <3>4
            <4>2. Advance(2, lexing)
                BY <1>1, <1>8, <2>3, <2>6, <4>1, InsideByAtom
            <4>3. i + 2 - 1 = i + 1
                BY ONLY <3>1
            <4>. QED BY <2>4, <3>1, <3>2, <4>2, <4>3
        <3>5. CASE pos >= Len(text) /\ pos = Len(text)
            <4>1. PeekAt(1) # d
                BY <1>8, <1>9, <3>5
            <4>2. Emit(lexing, 1)
                BY <1>1, <1>8, <2>3, <2>6, <4>1, InsideByAtom
            <4>3. /\ toks' = Append(toks, Token(lexing, start, pos + 1 - 1)) /\ pos' = pos + 1
                  /\ lexing' = "between" /\ text' = text
                BY <4>2 DEF Emit
            <4>4. Len(toks') = k + 1 /\ ReadTo(k, w)'
                BY <4>3, MoreRead DEF Inside
            <4>5. Len(toks') - 1 = k
                BY <4>4 DEF Inside
            <4>6. (ReadTo(Len(toks) - 1, w))'
                BY <4>4, <4>5
            <4>7. "between" \notin Reading
                BY DEF Reading, Quotation
            <4>8. AtCut(w)'
                BY <3>5, <4>3, <4>6, <4>7 DEF AtCut
            <4>9. Len(text) < Len(w.src)
                <5>1. l <= Len(w.src)
                    BY <1>2 DEF TokenIn
                <5>2. \A p, e, N \in Nat : p + 2 <= e /\ e <= N => p < N
                    OBVIOUS
                <5>3. pos < Len(w.src)
                    BY ONLY <1>3, <1>8, <1>10, <3>2, <5>1, <5>2
                <5>. QED BY ONLY <3>5, <5>3
            <4>10. (Len(text) < Len(w.src))'
                BY <4>3, <4>9
            <4>. QED BY <4>8, <4>10 DEF Astray
        <3>. QED BY <1>10, <3>4, <3>5
    <2>. QED BY <2>5, <2>6
<1>. QED BY <1>11, <1>12

\* A part of a text that is, atom by atom, a list, is that list.
LEMMA SubSeqIs ==
    ASSUME NEW s, NEW a, IsList(a), NEW m \in Nat, NEW n \in Int, n = m + Len(a) - 1,
           \A j \in 1 .. Len(a) : s[m + j - 1] = a[j]
    PROVE  SubSeq(s, m, n) = a
<1>. PICK S : S = ToSet(a)
    OBVIOUS
<1>. PICK c : c = Len(a)
    OBVIOUS
<1>1. a \in Seq(S) /\ c \in Nat /\ DOMAIN a = 1 .. c
    BY TextFacts DEF IsList
<1>2. \A j \in 1 .. c : a[j] \in S
    BY <1>1
<1>3. ASSUME NEW i \in m .. n PROVE s[i] \in S
    <2>1. i - m + 1 \in 1 .. c /\ m + (i - m + 1) - 1 = i
        BY ONLY <1>1, <1>3, m \in Nat, n \in Int, n = m + Len(a) - 1, c = Len(a)
    <2>2. s[m + (i - m + 1) - 1] = a[i - m + 1]
        BY <2>1
    <2>. QED BY <1>2, <2>1, <2>2
<1>4. /\ SubSeq(s, m, n) \in Seq(S) /\ Len(SubSeq(s, m, n)) = IF m <= n THEN n - m + 1 ELSE 0
      /\ \A i \in 1 .. n - m + 1 : SubSeq(s, m, n)[i] = s[m + i - 1]
    BY <1>3, SubSeqProperties
<1>5. (IF m <= n THEN n - m + 1 ELSE 0) = c /\ n - m + 1 = c
    BY ONLY <1>1, m \in Nat, n \in Int, n = m + Len(a) - 1, c = Len(a)
<1>6. Len(SubSeq(s, m, n)) = c /\ \A i \in 1 .. c : SubSeq(s, m, n)[i] = a[i]
    BY <1>4, <1>5
<1>. QED BY <1>1, <1>4, <1>6, SeqEqual

\* At the end of the text what is being read ends.
LEMMA EndSteps ==
    ASSUME Inv, LexNext, AtEnd
    PROVE  /\ lexing = "between" => Advance(0, "done")
           /\ \/ lexing \in Scanning \ {"done", "failed"}
                 /\ \E to \in Scanning : Advance(0, to)
              \/ lexing \in Reading
                 /\ (Advance(0, "failed") \/ \E kind \in TokenKinds : Emit(kind, 0))
<1>1. Peek = ""
    BY NoAtom
<1>2. "" \notin Blanks \cup Words \cup Digits \cup Punctuation \cup OpSymbols \cup IdentCont \cup {"."}
    <2>1. "" \notin Words \cup Digits
        BY AtomsAssumption
    <2>2. "" \notin Blanks \cup Punctuation \cup OpSymbols \cup {"$", "."}
        BY DEF Blanks, Newline, Punctuation, OpSymbols
    <2>. QED BY <2>1, <2>2 DEF IdentCont
<1>3. \A kind \in Quotation : "" # Delimiter[kind]
    BY Delimiters
<1>4. lexing = "between" => Advance(0, "done")
    BY <1>1, <1>2, <1>3, BetweenByAtom
<1>5. lexing = "line" => Advance(0, "between")
    BY CommentByAtom
<1>6. lexing = "block" => Advance(0, "failed")
    BY CommentByAtom
<1>7. lexing = "ident" => Emit("ident", 0)
    BY <1>1, <1>2, InsideByAtom
<1>8. lexing = "op" => Emit("op", 0)
    BY <1>1, <1>2, InsideByAtom
<1>9. lexing = "number" => Emit("number", 0)
    BY <1>1, <1>2, InsideByAtom
<1>10. lexing = "fraction" => Emit("number", 0)
    BY <1>1, <1>2, InsideByAtom
<1>11. lexing \in Quotation => Advance(0, "failed")
    BY <1>1, <1>3, InsideByAtom
<1>12. lexing \in Scanning \cup Reading /\ lexing \notin {"done", "failed"}
    BY StateFacts, CommentByAtom
<1>13. {"done", "failed", "between"} \subseteq Scanning /\ {"ident", "op", "number"} \subseteq TokenKinds
    BY DEF Scanning, TokenKinds
<1>14. lexing \in Reading =>
          lexing \in {"ident", "op", "number", "fraction"} \/ lexing \in Quotation
    BY DEF Reading
<1>15. lexing \in Scanning /\ lexing \notin {"done", "failed"} =>
          lexing \in {"between", "line", "block"}
    BY DEF Scanning
<1>16. lexing \in Reading =>
          Advance(0, "failed") \/ \E kind \in TokenKinds : Emit(kind, 0)
    BY <1>7, <1>8, <1>9, <1>10, <1>11, <1>13, <1>14
<1>17. lexing \in Scanning => \E to \in Scanning : Advance(0, to)
    BY <1>4, <1>5, <1>6, <1>12, <1>13, <1>15
<1>. QED BY <1>4, <1>12, <1>16, <1>17

\* Where the text is cut, nothing more is read than the token that is cut.
LEMMA CutKept ==
    ASSUME Inv, NEW w, Laid(w), Prefix(w), LexNext, AtCut(w)
    PROVE  AtCut(w)'
<1>1. /\ Len(text) \in Nat /\ pos = Len(text) + 1 /\ AtEnd
    BY Seen DEF Laid, AtCut
<1>2. text' = text
    BY TextKept
<1>3. pos + 0 = pos
    BY ONLY <1>1
<1>4. Reading \cap Scanning = {}
    BY Kinds
<1>5. CASE \E to \in Scanning : Advance(0, to)
    <2>1. PICK to \in Scanning : Advance(0, to)
        BY <1>5
    <2>2. pos' = pos /\ lexing' = to /\ toks' = toks
        BY <1>3, <2>1 DEF Advance
    <2>3. \A n : ReadTo(n, w) => ReadTo(n, w)'
        BY <2>2 DEF ReadTo
    <2>4. BrokenFraction => BrokenFraction'
        BY <1>2, <2>2 DEF BrokenFraction, IsPunct, Content
    <2>5. lexing \in Scanning \cup Reading
        BY StateFacts
    <2>6. \/ ReadTo(Len(toks), w)' \/ (ReadTo(Len(toks) - 1, w))'
          \/ (BrokenFraction /\ ReadTo(Len(toks) - 2, w))'
        BY <2>2, <2>3, <2>4, <2>5 DEF AtCut
    <2>7. pos' = Len(text') + 1 /\ lexing' \notin Reading
        BY <1>1, <1>2, <1>4, <2>1, <2>2
    <2>. QED BY <2>6, <2>7 DEF AtCut
<1>6. CASE lexing \in Reading /\ \E kind \in TokenKinds : Emit(kind, 0)
    <2>1. PICK kind \in TokenKinds : Emit(kind, 0)
        BY <1>6
    <2>2. /\ toks' = Append(toks, Token(kind, start, pos + 0 - 1)) /\ pos' = pos
          /\ lexing' = "between"
        BY <1>3, <2>1 DEF Emit
    <2>3. ReadTo(Len(toks), w)
        BY <1>6 DEF AtCut
    <2>. PICK k : k = Len(toks)
        OBVIOUS
    <2>4. k \in Nat /\ Len(toks') = k + 1 /\ ReadTo(k, w)'
        BY <2>2, <2>3, MoreRead
    <2>5. Len(toks') - 1 = k
        BY <2>4
    <2>6. (ReadTo(Len(toks) - 1, w))'
        BY <2>4, <2>5
    <2>7. pos' = Len(text') + 1 /\ lexing' \notin Reading
        BY <1>1, <1>2, <2>2 DEF Reading, Quotation
    <2>. QED BY <2>6, <2>7 DEF AtCut
<1>7. CASE Advance(0, "failed")
    <2>1. "failed" \in Scanning
        BY DEF Scanning
    <2>. QED BY <1>5, <1>7, <2>1
<1>. QED BY <1>1, <1>5, <1>6, <1>7, EndSteps

\* A point that is left of a fraction is read.
LEMMA PointKept ==
    ASSUME Inv, NEW w, Laid(w), Prefix(w), LexNext, AtPoint(w)
    PROVE  AtCut(w)'
<1>1. /\ pos \in Nat /\ pos > 0 /\ pos = Len(text) /\ text[pos] = "." /\ lexing = "between"
      /\ Len(toks) > 0 /\ toks[Len(toks)].kind = "number" /\ ReadTo(Len(toks) - 1, w)
      /\ Peek = w.src[pos] /\ w.src[pos] = text[pos]
    <2>1. /\ pos = Len(text) /\ text[pos] = "." /\ lexing = "between"
          /\ Len(toks) > 0 /\ toks[Len(toks)].kind = "number" /\ ReadTo(Len(toks) - 1, w)
        BY DEF AtPoint
    <2>2. pos \in Nat /\ pos > 0 /\ Len(text) \in Nat /\ (pos <= Len(text) => Peek = w.src[pos])
        BY Seen DEF Laid
    <2>3. pos \in 1 .. Len(text)
        BY ONLY <2>1, <2>2
    <2>4. w.src[pos] = text[pos]
        BY <2>3 DEF Prefix
    <2>5. pos <= Len(text)
        BY ONLY <2>3
    <2>. QED BY <2>1, <2>2, <2>4, <2>5
<1>2. ReadPunctuation
    BY <1>1, BetweenByAtom DEF Punctuation
<1>3. /\ toks' = Append(toks, Token("punct", pos, pos)) /\ pos' = pos + 1 /\ text' = text
      /\ lexing' = "between"
    BY <1>1, <1>2 DEF ReadPunctuation
<1>. PICK k : k = Len(toks)
    OBVIOUS
<1>4. /\ k \in Nat /\ k > 0 /\ Len(toks') = k + 1 /\ toks'[k + 1] = Token("punct", pos, pos)
      /\ toks'[k] = toks[k] /\ ReadTo(k - 1, w)'
    <2>1. toks \in Seq(Tokens)
        BY StateFacts
    <2>2. k \in Nat /\ Len(toks') = k + 1 /\ toks'[k + 1] = Token("punct", pos, pos)
          /\ \A i \in 1 .. k : toks'[i] = toks[i]
        BY <1>3, <2>1, AppendFacts
    <2>3. ReadTo(k - 1, w)'
        BY <1>1, <1>3, MoreRead
    <2>4. k \in 1 .. k
        BY <1>1, <2>2
    <2>. QED BY <1>1, <2>2, <2>3, <2>4
<1>5. Len(toks') > 1 /\ Len(toks') - 1 = k /\ Len(toks') - 2 = k - 1
    BY ONLY <1>4
<1>6. toks'[Len(toks') - 1].kind = "number"
    BY <1>1, <1>4, <1>5
<1>7. /\ toks'[Len(toks')].kind = "punct" /\ toks'[Len(toks')].first = pos
      /\ toks'[Len(toks')].last = pos
    BY <1>4 DEF Token
<1>8. SubSeq(text, pos, pos) = <<".">>
    <2>1. Len(<<".">>) = 1 /\ <<".">>[1] = "." /\ IsList(<<".">>)
        BY DEF IsList, ToSet
    <2>2. pos = pos + 1 - 1 /\ pos \in Int
        BY ONLY <1>1
    <2>3. \A j \in 1 .. 1 : j = 1
        OBVIOUS
    <2>4. \A j \in 1 .. Len(<<".">>) : text[pos + j - 1] = <<".">>[j]
        BY <1>1, <2>1, <2>2, <2>3
    <2>. PICK a : a = <<".">>
        OBVIOUS
    <2>5. IsList(a) /\ pos = pos + Len(a) - 1 /\ \A j \in 1 .. Len(a) : text[pos + j - 1] = a[j]
        BY <2>1, <2>2, <2>4
    <2>6. SubSeq(text, pos, pos) = a
        <3>1. IsList(a) /\ pos \in Nat /\ pos \in Int
            BY <1>1, <2>2, <2>5
        <3>2. pos = pos + Len(a) - 1
            BY <2>5
        <3>3. \A j \in 1 .. Len(a) : text[pos + j - 1] = a[j]
            BY <2>5
        <3>. QED BY ONLY <3>1, <3>2, <3>3, SubSeqIs
    <2>. QED BY <2>6
<1>9. (Content(toks[Len(toks)]))' = <<".">>
    <2>1. "punct" \notin Quotation
        BY DEF Quotation
    <2>. QED BY <1>3, <1>7, <1>8, <2>1 DEF Content
<1>10. BrokenFraction'
    BY <1>5, <1>6, <1>7, <1>9 DEF BrokenFraction, IsPunct
<1>11. (ReadTo(Len(toks) - 2, w))'
    BY <1>4, <1>5
<1>12. pos' = Len(text') + 1 /\ lexing' \notin Reading
    BY <1>1, <1>3 DEF Reading, Quotation
<1>. QED BY <1>10, <1>11, <1>12 DEF AtCut

\* At the end of the whole text, all is read.
LEMMA AllRead ==
    ASSUME Inv, NEW w, Laid(w), Prefix(w), LexNext, OnTrack(w),
           pos = Len(text) + 1, Len(text) = Len(w.src)
    PROVE  OnTrack(w)'
<1>. PICK N : N = Len(w.src)
    OBVIOUS
<1>. PICK k : k = Len(toks)
    OBVIOUS
<1>1. /\ N \in Nat /\ pos = N + 1 /\ AtEnd /\ Len(w.ts) \in Nat
    BY Seen DEF Laid
<1>2. ReadTo(k, w) /\ k \in 0 .. Len(w.ts) /\ k \in Nat
    BY <1>1 DEF OnTrack, ReadTo
<1>3. Between(w)
    <2>1. ~InLine(w)
        <3> SUFFICES ASSUME NEW end \in pos .. N PROVE FALSE
            BY DEF InLine
        <3>. QED BY ONLY <1>1
    <2>2. ~InBlock(w)
        <3> SUFFICES ASSUME NEW end \in pos + 2 .. N + 1 PROVE FALSE
            BY DEF InBlock
        <3>. QED BY ONLY <1>1
    <2>3. ~InToken(w)
        <3> SUFFICES ASSUME InToken(w) PROVE FALSE
            OBVIOUS
        <3>. PICK t : t = w.ts[k + 1]
            OBVIOUS
        <3>. PICK l : l = w.last[k + 1]
            OBVIOUS
        <3>1. Inside(w, k, t, l) /\ Within(t, l) /\ lexing \in Reading
            BY <1>2 DEF InToken, Inside
        <3>2. TokenIn(w.src, t, start, l) /\ Ends(w.src, t, l)
            BY <3>1, InsideFacts
        <3>3. t.kind # "punct"
            BY <3>1 DEF Within, Reading, Quotation
        <3>4. l < N /\ pos \in start + 1 .. l + 1
            BY <3>1, <3>2, <3>3 DEF Ends, Within
        <3>5. l \in Nat /\ start \in Nat
            BY <3>2 DEF TokenIn
        <3>. QED BY ONLY <1>1, <3>4, <3>5
    <2>4. lexing \notin {"done", "failed"}
        BY CommentByAtom
    <2>. QED BY <2>1, <2>2, <2>3, <2>4 DEF OnTrack, Refused, Through
<1>4. Stands(w, k, N + 1)
    BY <1>1, <1>2, <1>3 DEF Laid, Between
<1>5. k = Len(w.ts)
    <2>1. ~(k < Len(w.ts) /\ N + 1 = w.first[k + 1])
        <3> SUFFICES ASSUME k < Len(w.ts), N + 1 = w.first[k + 1] PROVE FALSE
            OBVIOUS
        <3>1. k + 1 \in 1 .. Len(w.ts)
            BY <1>1, <1>2
        <3>. PICK f : f = w.first[k + 1]
            OBVIOUS
        <3>. PICK l : l = w.last[k + 1]
            OBVIOUS
        <3>2. TokenIn(w.src, w.ts[k + 1], f, l)
            BY <3>1, TokenFacts
        <3>3. f \in Nat /\ l \in Nat /\ f <= l /\ l <= N /\ f = N + 1
            BY <3>2 DEF TokenIn
        <3>. QED BY ONLY <1>1, <3>3
    <2>2. ~(N + 1 <= N)
        BY ONLY <1>1
    <2>3. ASSUME NEW end PROVE ~LineComment(w.src, N + 1, end)
        <3> SUFFICES ASSUME end \in (N + 1) + 2 .. N PROVE FALSE
            BY DEF LineComment
        <3>. QED BY ONLY <1>1, end \in (N + 1) + 2 .. N
    <2>4. ASSUME NEW end PROVE ~BlockComment(w.src, N + 1, end)
        <3> SUFFICES ASSUME end \in (N + 1) + 4 .. N + 1 PROVE FALSE
            BY DEF BlockComment
        <3>. QED BY ONLY <1>1, end \in (N + 1) + 4 .. N + 1
    <2>. QED BY <1>4, <2>1, <2>2, <2>3, <2>4 DEF Stands
<1>6. lexing' = "done" /\ toks' = toks
    BY <1>1, <1>3, EndSteps DEF Between, Advance
<1>7. ReadTo(Len(toks), w)' /\ Through(w)'
    BY <1>2, <1>5, <1>6 DEF ReadTo, Through
<1>. QED BY <1>7 DEF OnTrack

\* What has been read stays what is written, and where the lexer is in it.
LEMMA TrackKept ==
    ASSUME Inv, NEW w, Laid(w), LexNext, Tracked(w)
    PROVE  Tracked(w)'
<1>1. Prefix(w) /\ (OnTrack(w) \/ Astray(w)) /\ Prefix(w)' /\ text' = text
    BY TextKept DEF Tracked
<1>2. /\ Len(text) \in Nat /\ Len(w.src) \in Nat /\ pos \in Nat /\ pos <= Len(text) + 1
      /\ Len(text) <= Len(w.src)
    BY <1>1, Seen DEF Laid, Prefix
<1>3. pos <= Len(text) \/ (pos = Len(text) + 1 /\ ~(pos <= Len(text)))
    <2>1. \A p, M \in Nat : p <= M + 1 => p <= M \/ (p = M + 1 /\ ~(p <= M))
        OBVIOUS
    <2>. QED BY ONLY <1>2, <2>1
<1>4. Len(text) < Len(w.src) \/ Len(text) = Len(w.src)
    <2>1. \A p, M \in Nat : p <= M => p < M \/ p = M
        OBVIOUS
    <2>. QED BY ONLY <1>2, <2>1
<1>5. OnTrack(w)' \/ Astray(w)'
    <2>1. CASE OnTrack(w) /\ pos <= Len(text)
        <3>1. ReadTo(Len(toks), w)
            BY <2>1 DEF OnTrack
        <3>2. CASE Between(w)
            BY <1>1, <2>1, <3>1, <3>2, BetweenKept
        <3>3. CASE InLine(w) \/ InBlock(w)
            BY <1>1, <2>1, <3>1, <3>3, CommentKept
        <3>4. CASE InToken(w)
            <4>. PICK k : k = Len(toks)
                OBVIOUS
            <4>. PICK t : t = w.ts[k + 1]
                OBVIOUS
            <4>. PICK l : l = w.last[k + 1]
                OBVIOUS
            <4>1. k \in Nat
                BY <3>1 DEF ReadTo, Laid
            <4>2. Inside(w, k, t, l) /\ Within(t, l) /\ lexing \in Reading
                BY <3>1, <3>4, <4>1 DEF InToken, Inside
            <4>3. \/ lexing \in {"ident", "op"} \/ lexing \in {"number", "fraction"}
                  \/ lexing \in Quotation
                BY <4>2 DEF Reading
            <4>. QED BY <1>1, <2>1, <4>2, <4>3, RunKept, NumberKept, QuotationKept
        <3>5. CASE Refused(w) \/ Through(w)
            BY <3>5, CommentByAtom DEF Refused, Through
        <3>. QED BY <2>1, <3>2, <3>3, <3>4, <3>5 DEF OnTrack
    <2>2. CASE OnTrack(w) /\ pos = Len(text) + 1
        <3>1. CASE Len(text) < Len(w.src)
            <4>1. AtCut(w)
                BY <2>2 DEF OnTrack, AtCut
            <4>2. AtCut(w)'
                BY <1>1, <4>1, CutKept
            <4>3. (Len(text) < Len(w.src))'
                BY <1>1, <3>1
            <4>. QED BY <4>2, <4>3 DEF Astray
        <3>2. CASE Len(text) = Len(w.src)
            BY <1>1, <2>2, <3>2, AllRead
        <3>. QED BY <1>4, <3>1, <3>2
    <2>3. CASE Astray(w)
        <3>1. (Len(text) < Len(w.src))'
            BY <1>1, <2>3 DEF Astray
        <3>2. AtCut(w)'
            BY <1>1, <2>3, CutKept, PointKept DEF Astray
        <3>. QED BY <3>1, <3>2 DEF Astray
    <2>. QED BY <1>1, <1>3, <2>1, <2>2, <2>3
<1>. QED BY <1>1, <1>5 DEF Tracked

\* A text is laid out: the lexer that begins it is between two tokens.
LEMMA TrackBegins ==
    ASSUME NEW w, Laid(w), NEW src, LexFrom(src), Len(src) <= Len(w.src),
           \A i \in 1 .. Len(src) : src[i] = w.src[i]
    PROVE  Tracked(w)'
<1>1. text' = src /\ pos' = 1 /\ lexing' = "between" /\ toks' = <<>>
    BY DEF LexFrom
<1>2. Prefix(w)'
    BY <1>1 DEF Prefix
<1>3. Len(toks') = 0
    BY <1>1
<1>4. ReadTo(Len(toks), w)' /\ Between(w)'
    BY <1>1, <1>3 DEF ReadTo, Between, Laid
<1>. QED BY <1>2, <1>4 DEF Tracked, OnTrack

\* What is read of the text says what is written.
LEMMA ReadIsWritten ==
    ASSUME Inv, NEW w, Laid(w), Prefix(w), NEW n, ReadTo(n, w)
    PROVE  AsWritten(n, w.ts)
<1>1. n \in 0 .. Len(w.ts) /\ n <= Len(toks) /\ Len(w.ts) \in Nat /\ n \in Nat /\ Len(toks) \in Nat
    BY StateFacts DEF ReadTo, Laid
<1>2. ASSUME NEW i \in 1 .. n
      PROVE  toks[i].kind = w.ts[i].kind /\ Content(toks[i]) = w.ts[i].atoms
    <2>. PICK t : t = w.ts[i]
        OBVIOUS
    <2>. PICK f : f = w.first[i]
        OBVIOUS
    <2>. PICK l : l = w.last[i]
        OBVIOUS
    <2>. PICK a : a = t.atoms
        OBVIOUS
    <2>. PICK M : M = Len(text)
        OBVIOUS
    <2>1. i \in 1 .. Len(w.ts) /\ i \in 1 .. Len(toks)
        BY ONLY <1>1, <1>2
    <2>2. toks[i] = Token(t.kind, f, l)
        BY <1>2 DEF ReadTo
    <2>3. toks[i].kind = t.kind /\ toks[i].first = f /\ toks[i].last = l
        BY <2>2 DEF Token
    <2>4. Spellable(t)
        BY <2>1 DEF Laid, Placed
    <2>5. IsList(a) /\ Len(a) \in Nat
        BY <2>4, TextFacts DEF Spellable
    <2>6. TokenIn(w.src, t, f, l)
        BY <2>1, TokenFacts
    <2>7. f \in Nat /\ f > 0 /\ l \in Nat /\ l <= M /\ M \in Nat
        <3>1. f \in Nat /\ f > 0 /\ l \in Nat
            BY <2>6 DEF TokenIn
        <3>2. M \in Nat /\ pos \in 1 .. M + 1
            BY StateFacts
        <3>3. toks \in Seq(Tokens)
            BY StateFacts
        <3>4. i \in DOMAIN toks
            BY <2>1, <3>3
        <3>5. toks[i].last < pos
            BY <3>4, StateFacts
        <3>6. l < pos
            BY <2>3, <3>5
        <3>. QED BY ONLY <3>1, <3>2, <3>6
    <2>8. \A q \in 1 .. M : text[q] = w.src[q]
        BY DEF Prefix
    <2>9. CASE t.kind \in Quotation
        <3>1. l = f + Len(a) + 1 /\ \A j \in 1 .. Len(a) : w.src[f + j] = a[j]
            BY <2>6, <2>9 DEF TokenIn
        <3>2. ASSUME NEW j \in 1 .. Len(a) PROVE text[(f + 1) + j - 1] = a[j]
            <4>1. f + j \in 1 .. M /\ (f + 1) + j - 1 = f + j
                BY ONLY <2>5, <2>7, <3>1, j \in 1 .. Len(a)
            <4>. QED BY <2>8, <3>1, <4>1
        <3>3. f + 1 \in Nat /\ l - 1 \in Int /\ l - 1 = (f + 1) + Len(a) - 1
            BY ONLY <2>5, <2>7, <3>1
        <3>4. IsList(a) /\ \A j \in 1 .. Len(a) : text[(f + 1) + j - 1] = a[j]
            BY <2>5, <3>2
        <3>. PICK m : m = f + 1
            OBVIOUS
        <3>. PICK e : e = l - 1
            OBVIOUS
        <3>5. SubSeq(text, m, e) = a
            <4>. PICK s : s = text
                OBVIOUS
            <4>1. m \in Nat
                BY <3>3
            <4>2. e \in Int
                BY <3>3
            <4>3. e = m + Len(a) - 1
                BY <3>3
            <4>4. \A j \in 1 .. Len(a) : s[m + j - 1] = a[j]
                BY <3>4
            <4>5. IsList(a)
                BY <3>4
            <4>6. SubSeq(s, m, e) = a
                BY ONLY <4>1, <4>2, <4>3, <4>4, <4>5, SubSeqIs
            <4>. QED BY <4>6
        <3>. QED BY <2>3, <2>9, <3>5 DEF Content
    <2>10. CASE t.kind \notin Quotation
        <3>1. l = f + Len(a) - 1 /\ \A j \in 1 .. Len(a) : w.src[f + j - 1] = a[j]
            BY <2>6, <2>10 DEF TokenIn
        <3>2. ASSUME NEW j \in 1 .. Len(a) PROVE text[f + j - 1] = a[j]
            <4>1. f + j - 1 \in 1 .. M
                BY ONLY <2>5, <2>7, <3>1, j \in 1 .. Len(a)
            <4>. QED BY <2>8, <3>1, <4>1
        <3>3. l \in Int
            BY ONLY <2>7
        <3>4. SubSeq(text, f, l) = a
            <4>. PICK s : s = text
                OBVIOUS
            <4>1. IsList(a)
                BY <2>5
            <4>2. f \in Nat
                BY <2>5, <2>7
            <4>3. l \in Int
                BY <3>3
            <4>4. l = f + Len(a) - 1
                BY <3>1
            <4>5. \A j \in 1 .. Len(a) : s[f + j - 1] = a[j]
                BY <3>2
            <4>6. SubSeq(s, f, l) = a
                BY ONLY <4>1, <4>2, <4>3, <4>4, <4>5, SubSeqIs
            <4>. QED BY <4>6
        <3>. QED BY <2>3, <2>10, <3>4 DEF Content
    <2>. QED BY <2>9, <2>10
<1>3. n <= Len(w.ts)
    BY ONLY <1>1
<1>. QED BY <1>2, <1>3 DEF AsWritten

\* What is tracked is read as it is written.
LEMMA TrackedIsWritten ==
    ASSUME Inv, NEW w, Laid(w), Tracked(w), NEW sc, sc.cut = 0 => Len(text) = Len(w.src)
    PROVE  LexesAsWritten(sc, w.ts)
<1>1. /\ Prefix(w) /\ (OnTrack(w) \/ Astray(w)) /\ Len(w.ts) \in Nat /\ Len(w.src) \in Nat
      /\ Len(toks) \in Nat /\ Len(text) \in Nat
    BY StateFacts DEF Tracked, Laid
<1>2. \A n : ReadTo(n, w) => AsWritten(n, w.ts)
    BY <1>1, ReadIsWritten
<1>3. CASE sc.cut = 0
    <2>1. ~(Len(text) < Len(w.src))
        BY <1>1, <1>3
    <2>2. OnTrack(w)
        BY <1>1, <2>1 DEF Astray
    <2>3. AsWritten(Len(toks), w.ts)
        BY <1>2, <2>2 DEF OnTrack
    <2>4. lexing \in {"done", "failed"} => Refused(w) \/ Through(w)
        BY <2>2 DEF OnTrack, Between, InLine, InBlock, InToken, Reading, Quotation
    <2>5. lexing = "failed" => Len(toks) < Len(w.ts) /\ w.ts[Len(toks) + 1].kind = "other"
        BY <2>4 DEF Refused, Through
    <2>6. lexing = "done" => Len(toks) = Len(w.ts)
        BY <2>4 DEF Refused, Through
    <2>. QED BY <1>3, <2>3, <2>5, <2>6 DEF LexesAsWritten
<1>4. CASE sc.cut # 0
    <2>1. ReadTo(Len(toks), w) => toks = <<>> \/ AsWritten(Len(toks) - 1, w.ts)
        <3>1. CASE Len(toks) = 0
            <4>1. toks \in Seq(Tokens)
                BY StateFacts
            <4>2. toks = <<>>
                BY <3>1, <4>1
            <4>. QED BY <4>2
        <3>2. CASE Len(toks) # 0
            BY <1>1, <1>2, <3>2, LessRead
        <3>. QED BY <3>1, <3>2
    <2>2. ReadTo(Len(toks) - 1, w) => AsWritten(Len(toks) - 1, w.ts)
        BY <1>2
    <2>3. ReadTo(Len(toks) - 2, w) => AsWritten(Len(toks) - 2, w.ts)
        BY <1>2
    <2>4. \/ ReadTo(Len(toks), w) \/ ReadTo(Len(toks) - 1, w)
          \/ BrokenFraction /\ ReadTo(Len(toks) - 2, w)
        <3>1. lexing \in Scanning \cup Reading
            BY StateFacts
        <3>. QED BY <1>1, <3>1 DEF OnTrack, Astray, AtCut, AtPoint
    <2>. QED BY <1>4, <2>1, <2>2, <2>3, <2>4 DEF LexesAsWritten
<1>. QED BY <1>3, <1>4

-----------------------------------------------------------------------------
(* Sequences one after the other.                                          *)

\* flat holds the sequences one after the other, the k-th from off[k - 1] on.
Offsets(off, seqs, n, flat) ==
    /\ off[0] = 0 /\ Len(flat) = off[n]
    /\ \A k \in 0 .. n : off[k] \in Nat /\ off[k] <= off[n]
    /\ \A k \in 1 .. n : /\ off[k] = off[k - 1] + Len(seqs[k])
                         /\ \A j \in 1 .. Len(seqs[k]) : flat[off[k - 1] + j] = seqs[k][j]

\* The function FlattenSeq is defined by.
Flattens(f, seqs, n) == f = [i \in 1 .. n |-> IF i = 1 THEN seqs[i] ELSE f[i - 1] \o seqs[i]]

\* It exists for every length.
LEMMA FlattensExists ==
    ASSUME NEW seqs
    PROVE  \A n \in Nat : \E f : Flattens(f, seqs, n)
<1> DEFINE S == {n \in Nat : \E f : Flattens(f, seqs, n)}
<1>1. 0 \in S
    <2>1. Flattens(<<>>, seqs, 0)
        BY DEF Flattens
    <2>. QED BY <2>1
<1>2. ASSUME NEW n \in Nat, n \in S PROVE n + 1 \in S
    <2>1. PICK f : Flattens(f, seqs, n)
        BY <1>2
    <2> DEFINE g == [i \in 1 .. n + 1 |->
                       IF i = n + 1 THEN (IF i = 1 THEN seqs[i] ELSE f[n] \o seqs[i]) ELSE f[i]]
    <2>2. ASSUME NEW i \in 1 .. n + 1
          PROVE  g[i] = IF i = 1 THEN seqs[i] ELSE g[i - 1] \o seqs[i]
        <3>1. CASE i = n + 1
            <4>1. i # 1 => i - 1 = n /\ i - 1 \in 1 .. n + 1 /\ i - 1 # n + 1
                BY <3>1
            <4>. QED BY <3>1, <4>1
        <3>2. CASE i # n + 1
            <4>1. i \in 1 .. n /\ g[i] = f[i]
                BY <3>2
            <4>2. i # 1 => i - 1 \in 1 .. n /\ i - 1 \in 1 .. n + 1 /\ i - 1 # n + 1
                BY <3>2
            <4>3. i # 1 => g[i - 1] = f[i - 1]
                BY <4>2
            <4>4. f[i] = IF i = 1 THEN seqs[i] ELSE f[i - 1] \o seqs[i]
                BY <2>1, <4>1 DEF Flattens
            <4>. QED BY <4>1, <4>3, <4>4
        <3>. QED BY <3>1, <3>2
    <2>3. Flattens(g, seqs, n + 1)
        <3>1. g = [i \in 1 .. n + 1 |-> g[i]]
            OBVIOUS
        <3> HIDE DEF g
        <3>. QED BY <2>2, <3>1 DEF Flattens
    <2>. QED BY <2>3
<1>. QED BY <1>1, <1>2, Count!Induction

\* One sequence more is one offset more.
LEMMA OneMore ==
    ASSUME NEW S, NEW seqs, NEW k \in Nat, NEW off, NEW flat \in Seq(S), Offsets(off, seqs, k, flat),
           seqs[k + 1] \in Seq(S)
    PROVE  /\ flat \o seqs[k + 1] \in Seq(S)
           /\ \E new : Offsets(new, seqs, k + 1, flat \o seqs[k + 1])
<1>. PICK s : s = seqs[k + 1]
    OBVIOUS
<1>. PICK m : m = Len(s)
    OBVIOUS
<1>. PICK e : e = off[k]
    OBVIOUS
<1> DEFINE more == flat \o s
           new == [i \in 0 .. k + 1 |-> IF i = k + 1 THEN e + m ELSE off[i]]
<1>1. /\ off[0] = 0 /\ Len(flat) = e /\ e \in Nat
      /\ \A i \in 0 .. k : off[i] \in Nat /\ off[i] <= e
      /\ \A i \in 1 .. k : /\ off[i] = off[i - 1] + Len(seqs[i])
                           /\ \A j \in 1 .. Len(seqs[i]) : flat[off[i - 1] + j] = seqs[i][j]
    BY DEF Offsets
<1>2. m \in Nat /\ s \in Seq(S)
    OBVIOUS
<1>3. /\ more \in Seq(S) /\ Len(more) = e + m
      /\ \A i \in 1 .. e + m : more[i] = IF i <= e THEN flat[i] ELSE s[i - e]
    <2>1. /\ flat \o s \in Seq(S) /\ Len(flat \o s) = Len(flat) + Len(s)
          /\ \A i \in 1 .. Len(flat) + Len(s) :
                (flat \o s)[i] = IF i <= Len(flat) THEN flat[i] ELSE s[i - Len(flat)]
        BY <1>2, ConcatProperties
    <2>2. Len(flat) = e /\ Len(s) = m
        BY <1>1
    <2>. QED BY ONLY <2>1, <2>2
<1> HIDE DEF more
<1>4. /\ new[0] = 0 /\ new[k + 1] = e + m /\ new[k] = e
      /\ \A i \in 0 .. k : new[i] = off[i]
    BY <1>1
<1> HIDE DEF new
<1>5. ASSUME NEW i \in 0 .. k + 1 PROVE new[i] \in Nat /\ new[i] <= e + m
    <2>1. CASE i = k + 1
        BY <1>1, <1>2, <1>4, <2>1
    <2>2. CASE i # k + 1
        <3>1. i \in 0 .. k
            BY <2>2
        <3>2. off[i] \in Nat /\ off[i] <= e
            BY <1>1, <3>1
        <3>3. off[i] <= e + m
            BY ONLY <1>1, <1>2, <3>2
        <3>. QED BY <1>4, <3>1, <3>2, <3>3
    <2>. QED BY <2>1, <2>2
<1>6. ASSUME NEW i \in 1 .. k + 1
      PROVE  /\ new[i] = new[i - 1] + Len(seqs[i])
             /\ \A j \in 1 .. Len(seqs[i]) : more[new[i - 1] + j] = seqs[i][j]
    <2>1. CASE i = k + 1
        <3>1. i - 1 = k
            BY <2>1
        <3>2. new[i] = new[i - 1] + Len(seqs[i])
            BY <1>4, <2>1, <3>1
        <3>3. ASSUME NEW j \in 1 .. m PROVE more[e + j] = s[j]
            <4>1. e + j \in 1 .. e + m /\ ~(e + j <= e) /\ (e + j) - e = j
                BY ONLY <1>1, <1>2, j \in 1 .. m
            <4>. QED BY <1>3, <4>1
        <3>. QED BY <1>4, <2>1, <3>1, <3>2, <3>3
    <2>2. CASE i # k + 1
        <3>1. i \in 1 .. k /\ i - 1 \in 0 .. k /\ i \in 0 .. k
            BY <2>2
        <3>. PICK b : b = off[i - 1]
            OBVIOUS
        <3>. PICK c : c = Len(seqs[i])
            OBVIOUS
        <3>2. new[i] = off[i] /\ new[i - 1] = b /\ off[i] = b + c
            BY <1>1, <1>4, <3>1
        <3>3. b \in Nat /\ b + c \in Nat /\ b + c <= e
            BY <1>1, <3>1, <3>2
        <3>4. ASSUME NEW j \in 1 .. c PROVE more[b + j] = seqs[i][j]
            <4>0. c \in Int
                BY <3>4
            <4>1. b + j \in 1 .. e + m /\ b + j <= e
                BY ONLY <1>1, <1>2, <3>3, <4>0, j \in 1 .. c
            <4>2. flat[b + j] = seqs[i][j]
                BY <1>1, <3>1
            <4>. QED BY <1>3, <4>1, <4>2
        <3>. QED BY <3>2, <3>4
    <2>. QED BY <2>1, <2>2
<1>7. Offsets(new, seqs, k + 1, more)
    BY <1>3, <1>4, <1>5, <1>6 DEF Offsets
<1>8. more \in Seq(S) /\ Offsets(new, seqs, k + 1, flat \o seqs[k + 1])
    BY <1>3, <1>7 DEF more
<1>. QED BY <1>8 DEF more

\* What FlattenSeq makes of a list of sequences.
LEMMA FlattenFacts ==
    ASSUME NEW S, NEW n \in Nat, NEW seqs, Len(seqs) = n, \A i \in 1 .. n : seqs[i] \in Seq(S)
    PROVE  \E off : Offsets(off, seqs, n, FlattenSeq(seqs))
<1>1. CASE n = 0
    <2>1. FlattenSeq(seqs) = seqs
        BY <1>1 DEF FlattenSeq
    <2>2. Offsets([i \in 0 .. 0 |-> 0], seqs, 0, seqs)
        BY <1>1 DEF Offsets
    <2>. QED BY <1>1, <2>1, <2>2
<1>2. CASE n # 0
    <2> DEFINE f == CHOOSE f : f = [i \in 1 .. Len(seqs) |->
                                      IF i = 1 THEN seqs[i] ELSE f[i - 1] \o seqs[i]]
    <2>1. FlattenSeq(seqs) = f[n]
        BY <1>2 DEF FlattenSeq
    <2>2. Flattens(f, seqs, n)
        <3>1. \E g : Flattens(g, seqs, n)
            BY FlattensExists
        <3>. QED BY <3>1 DEF Flattens
    <2> HIDE DEF f
    <2>3. /\ f[1] = seqs[1]
          /\ \A k \in 1 .. n - 1 : f[k + 1] = f[k] \o seqs[k + 1]
        <3>1. 1 \in 1 .. n
            BY <1>2
        <3>2. f[1] = seqs[1]
            BY <2>2, <3>1 DEF Flattens
        <3>3. ASSUME NEW k \in 1 .. n - 1 PROVE f[k + 1] = f[k] \o seqs[k + 1]
            <4>1. k + 1 \in 1 .. n /\ k + 1 # 1 /\ (k + 1) - 1 = k
                OBVIOUS
            <4>. QED BY <2>2, <4>1 DEF Flattens
        <3>. QED BY <3>2, <3>3
    <2> DEFINE T == {k \in Nat : k + 1 <= n => /\ f[k + 1] \in Seq(S)
                                               /\ \E off : Offsets(off, seqs, k + 1, f[k + 1])}
    <2>4. 0 \in T
        <3>1. 1 \in 1 .. n /\ 0 + 1 = 1
            BY <1>2
        <3>2. seqs[1] \in Seq(S)
            BY <3>1
        <3>3. <<>> \in Seq(S) /\ Len(<<>>) = 0
            OBVIOUS
        <3>4. Offsets([i \in 0 .. 0 |-> 0], seqs, 0, <<>>)
            BY <3>3 DEF Offsets
        <3>. PICK flat : flat = <<>>
            OBVIOUS
        <3>5. \E new : Offsets(new, seqs, 0 + 1, flat \o seqs[0 + 1])
            BY <3>1, <3>2, <3>3, <3>4, OneMore
        <3>6. flat \o seqs[1] = seqs[1]
            BY <3>2, ConcatEmptySeq
        <3>. QED BY <2>3, <3>1, <3>2, <3>5, <3>6
    <2>5. ASSUME NEW k \in Nat, k \in T PROVE k + 1 \in T
        <3> SUFFICES ASSUME (k + 1) + 1 <= n
                     PROVE  /\ f[(k + 1) + 1] \in Seq(S)
                            /\ \E off : Offsets(off, seqs, (k + 1) + 1, f[(k + 1) + 1])
            OBVIOUS
        <3>1. k + 1 <= n /\ k + 1 \in 1 .. n - 1 /\ (k + 1) + 1 \in 1 .. n /\ k + 1 \in Nat
            OBVIOUS
        <3>2. PICK off : f[k + 1] \in Seq(S) /\ Offsets(off, seqs, k + 1, f[k + 1])
            BY <2>5, <3>1
        <3>. PICK flat : flat = f[k + 1]
            OBVIOUS
        <3>3. f[(k + 1) + 1] = flat \o seqs[(k + 1) + 1] /\ seqs[(k + 1) + 1] \in Seq(S)
            BY <2>3, <3>1
        <3>. QED BY <3>1, <3>2, <3>3, OneMore
    <2> HIDE DEF T
    <2>6. n - 1 \in T
        <3>1. Nat \subseteq T
            BY <2>4, <2>5, Count!Induction
        <3>2. n - 1 \in Nat
            BY <1>2
        <3>. QED BY <3>1, <3>2
    <2>7. (n - 1) + 1 = n
        OBVIOUS
    <2>. QED BY <2>1, <2>6, <2>7 DEF T
<1>. QED BY <1>1, <1>2

-----------------------------------------------------------------------------
(* What is between two tokens.                                             *)

\* A comment of a gap is a comment where the gap is written.
LEMMA CommentMoves ==
    ASSUME NEW gap, NEW src, NEW m \in Nat, NEW N \in Nat, NEW d \in Nat, m = Len(gap), N = Len(src),
           d + m <= N, \A j \in 1 .. m : src[d + j] = gap[j],
           NEW b \in Nat, b > 0, NEW e
    PROVE  /\ LineComment(gap, b, e) => LineComment(src, d + b, d + e)
           /\ BlockComment(gap, b, e) => BlockComment(src, d + b, d + e)
<1>1. CASE LineComment(gap, b, e)
    <2>1. /\ e \in b + 2 .. m /\ gap[b] = "-" /\ gap[b + 1] = "-" /\ gap[e] = Newline
          /\ \A j \in b .. e - 1 : gap[j] \notin LineEnds
          /\ \A j \in b .. e - 2 : gap[j] # "\r"
        BY <1>1 DEF LineComment
    <2>2. /\ b \in 1 .. m /\ b + 1 \in 1 .. m /\ e \in 1 .. m /\ (d + b) + 1 = d + (b + 1)
          /\ d + e \in (d + b) + 2 .. N /\ e \in Nat
        BY <2>1
    <2>3. src[d + b] = "-" /\ src[(d + b) + 1] = "-" /\ src[d + e] = Newline
        <3>1. src[d + b] = gap[b] /\ src[d + (b + 1)] = gap[b + 1] /\ src[d + e] = gap[e]
            BY ONLY <2>2, \A j \in 1 .. m : src[d + j] = gap[j]
        <3>. QED BY <2>1, <2>2, <3>1
    <2>4. ASSUME NEW j \in d + b .. d + e - 1 PROVE src[j] \notin LineEnds
        <3>1. j - d \in 1 .. m /\ d + (j - d) = j /\ j - d \in b .. e - 1
            BY <2>2
        <3>2. src[d + (j - d)] = gap[j - d]
            BY ONLY <3>1, \A i \in 1 .. m : src[d + i] = gap[i]
        <3>. QED BY <2>1, <3>1, <3>2
    <2>5. ASSUME NEW j \in d + b .. d + e - 2 PROVE src[j] # "\r"
        <3>1. j - d \in 1 .. m /\ d + (j - d) = j /\ j - d \in b .. e - 2
            BY <2>2
        <3>2. src[d + (j - d)] = gap[j - d]
            BY ONLY <3>1, \A i \in 1 .. m : src[d + i] = gap[i]
        <3>. QED BY <2>1, <3>1, <3>2
    <2>. QED BY <1>1, <2>2, <2>3, <2>4, <2>5 DEF LineComment, BlockComment
<1>2. CASE BlockComment(gap, b, e)
    <2>1. /\ e \in b + 4 .. m + 1 /\ gap[b] = "/" /\ gap[b + 1] = "*" /\ BlockEnd(gap, e - 2)
          /\ \A j \in b + 2 .. e - 3 : ~BlockEnd(gap, j)
        BY <1>2 DEF BlockComment
    <2>2. /\ b \in 1 .. m /\ b + 1 \in 1 .. m /\ (d + b) + 1 = d + (b + 1)
          /\ d + e \in (d + b) + 4 .. N + 1 /\ e \in Nat
          /\ e - 2 \in 1 .. m - 1 /\ (d + e) - 2 = d + (e - 2)
        BY <2>1
    <2>3. src[d + b] = "/" /\ src[(d + b) + 1] = "*"
        <3>1. src[d + b] = gap[b] /\ src[d + (b + 1)] = gap[b + 1]
            BY ONLY <2>2, \A j \in 1 .. m : src[d + j] = gap[j]
        <3>. QED BY <2>1, <2>2, <3>1
    <2>4. ASSUME NEW i \in 1 .. m - 1 PROVE BlockEnd(src, d + i) <=> BlockEnd(gap, i)
        <3>1. i \in 1 .. m /\ i + 1 \in 1 .. m /\ (d + i) + 1 = d + (i + 1)
            OBVIOUS
        <3>2. src[d + i] = gap[i] /\ src[d + (i + 1)] = gap[i + 1]
            BY ONLY <3>1, \A j \in 1 .. m : src[d + j] = gap[j]
        <3>. QED BY <3>1, <3>2 DEF BlockEnd
    <2>5. BlockEnd(src, (d + e) - 2)
        BY <2>1, <2>2, <2>4
    <2>6. ASSUME NEW j \in (d + b) + 2 .. (d + e) - 3 PROVE ~BlockEnd(src, j)
        <3>1. j - d \in 1 .. m - 1 /\ d + (j - d) = j /\ j - d \in b + 2 .. e - 3
            BY <2>1, <2>2
        <3>2. BlockEnd(src, d + (j - d)) <=> BlockEnd(gap, j - d)
            BY <2>4, <3>1
        <3>3. ~BlockEnd(gap, j - d)
            BY <2>1, <3>1
        <3>. QED BY <3>1, <3>2, <3>3
    <2>. QED BY <1>2, <2>2, <2>3, <2>5, <2>6 DEF LineComment, BlockComment
<1>. QED BY <1>1, <1>2

\* What a gap begins with.
LEMMA GapBegins ==
    ASSUME NEW gap, NEW at, Separates(gap, at), Len(gap) \in Nat, Len(gap) # 0
    PROVE  gap[1] \in Blanks \cup {"-", "/"}
<1>1. \/ 1 = Len(gap) + 1 \/ gap[1] \in Blanks
      \/ \E end \in at : LineComment(gap, 1, end) \/ BlockComment(gap, 1, end)
    BY DEF Separates
<1>2. 1 # Len(gap) + 1
    OBVIOUS
<1>3. ASSUME NEW end, LineComment(gap, 1, end) \/ BlockComment(gap, 1, end)
      PROVE  gap[1] \in {"-", "/"}
    BY <1>3 DEF LineComment, BlockComment
<1>. QED BY <1>1, <1>2, <1>3

\* What a blank in front of a gap makes is a gap.
LEMMA BlankMoves ==
    ASSUME NEW gap, NEW m \in Nat, m = Len(gap), NEW at \in SUBSET (1 .. m + 1), Separates(gap, at),
           NEW src, NEW N \in Nat, N = Len(src), N = 1 + m, src[1] \in Blanks,
           \A j \in 1 .. m : src[1 + j] = gap[j]
    PROVE  \E more \in SUBSET (1 .. N + 1) : Separates(src, more)
<1>. PICK more : more = {1} \cup {1 + b : b \in at}
    OBVIOUS
<1>0. /\ 1 \in at /\ 1 \in more /\ \A b \in at : 1 + b \in more
      /\ \A b \in at : \/ b = m + 1
                       \/ gap[b] \in Blanks /\ b + 1 \in at
                       \/ \E end \in at : LineComment(gap, b, end) \/ BlockComment(gap, b, end)
    BY DEF Separates
<1>1. ASSUME NEW q \in more
      PROVE  \/ q = N + 1
             \/ src[q] \in Blanks /\ q + 1 \in more
             \/ \E end \in more : LineComment(src, q, end) \/ BlockComment(src, q, end)
    <2>1. CASE q = 1
        <3>1. 1 + 1 \in more
            BY <1>0
        <3>. QED BY <2>1, <3>1
    <2>2. CASE q # 1
        <3>1. PICK b \in at : q = 1 + b
            BY <1>1, <2>2
        <3>2. b \in Nat /\ b > 0 /\ b <= m + 1
            <4>1. b \in 1 .. m + 1
                OBVIOUS
            <4>. QED BY ONLY <4>1, m \in Nat
        <3>3. CASE b = m + 1
            BY ONLY <3>1, <3>2, <3>3, m \in Nat, N = 1 + m
        <3>4. CASE b # m + 1 /\ gap[b] \in Blanks /\ b + 1 \in at
            <4>1. b \in 1 .. m /\ q + 1 = 1 + (b + 1)
                BY ONLY <3>1, <3>2, <3>4, m \in Nat
            <4>2. q + 1 \in more
                BY <1>0, <3>4, <4>1
            <4>3. src[1 + b] = gap[b]
                BY <4>1
            <4>4. src[q] = gap[b]
                BY <3>1, <4>3
            <4>. QED BY <3>4, <4>2, <4>4
        <3>5. ASSUME NEW end \in at, LineComment(gap, b, end) \/ BlockComment(gap, b, end)
              PROVE  \E e \in more : LineComment(src, q, e) \/ BlockComment(src, q, e)
            <4>1. 1 + end \in more
                BY <1>0
            <4>2. 1 \in Nat /\ 1 + m <= N
                BY ONLY N \in Nat, N = 1 + m
            <4>3. LineComment(src, 1 + b, 1 + end) \/ BlockComment(src, 1 + b, 1 + end)
                BY <3>2, <3>5, <4>2, CommentMoves
            <4>. QED BY <3>1, <4>1, <4>3
        <3>6. \/ b = m + 1 \/ (gap[b] \in Blanks /\ b + 1 \in at)
              \/ \E end \in at : LineComment(gap, b, end) \/ BlockComment(gap, b, end)
            BY <1>0
        <3>. QED BY <3>3, <3>4, <3>5, <3>6
    <2>. QED BY <2>1, <2>2
<1>2. more \in SUBSET (1 .. N + 1)
    <2>1. ASSUME NEW q \in more PROVE q \in 1 .. N + 1
        <3>1. q = 1 \/ \E b \in at : q = 1 + b
            BY <2>1
        <3>2. \A b \in 1 .. m + 1 : 1 + b \in 1 .. N + 1
            BY ONLY m \in Nat, N = 1 + m
        <3>3. 1 \in 1 .. N + 1
            BY ONLY N \in Nat
        <3>. QED BY <3>1, <3>2, <3>3
    <2>. QED BY <2>1
<1>3. Separates(src, more)
    BY <1>0, <1>1 DEF Separates
<1>. QED BY <1>2, <1>3

\* An element in front of a list.
LEMMA FrontFacts ==
    ASSUME NEW S, NEW gap \in Seq(S), NEW x \in S, NEW m, m = Len(gap), NEW src, src = <<x>> \o gap
    PROVE  /\ m \in Nat /\ src \in Seq(S) /\ Len(src) = 1 + m /\ src[1] = x
           /\ \A j \in 1 .. m : src[1 + j] = gap[j]
<1>. PICK one : one = <<x>>
    OBVIOUS
<1>1. one \in Seq(S) /\ Len(one) = 1 /\ one[1] = x /\ m \in Nat
    OBVIOUS
<1>2. /\ src \in Seq(S) /\ Len(src) = 1 + m
      /\ \A j \in 1 .. 1 + m : src[j] = IF j <= 1 THEN one[j] ELSE gap[j - 1]
    <2>1. /\ one \o gap \in Seq(S) /\ Len(one \o gap) = Len(one) + Len(gap)
          /\ \A j \in 1 .. Len(one) + Len(gap) :
                (one \o gap)[j] = IF j <= Len(one) THEN one[j] ELSE gap[j - Len(one)]
        BY <1>1, ConcatProperties
    <2>2. src = one \o gap /\ Len(one) = 1 /\ Len(gap) = m
        BY <1>1
    <2>. QED BY ONLY <2>1, <2>2
<1>3. src[1] = x
    <2>1. 1 \in 1 .. 1 + m /\ 1 <= 1
        BY ONLY <1>1
    <2>. QED BY <1>1, <1>2, <2>1
<1>4. ASSUME NEW j \in 1 .. m PROVE src[1 + j] = gap[j]
    <2>1. 1 + j \in 1 .. 1 + m /\ ~(1 + j <= 1) /\ (1 + j) - 1 = j
        BY ONLY <1>1, j \in 1 .. m
    <2>. QED BY <1>2, <2>1
<1>. QED BY <1>1, <1>2, <1>3, <1>4

\* A list in a set.
LEMMA SeqIsList ==
    ASSUME NEW S, NEW s \in Seq(S)
    PROVE  IsList(s)
<1>1. DOMAIN s = 1 .. Len(s) /\ Len(s) \in Nat
    BY LenProperties
<1>2. \A j \in 1 .. Len(s) : s[j] \in ToSet(s)
    BY <1>1 DEF ToSet
<1>. QED BY <1>1, <1>2 DEF IsList

\* A blank in front of a gap makes a gap.
LEMMA BlankInFront ==
    ASSUME NEW gap, IsList(gap), NEW at \in SUBSET (1 .. Len(gap) + 1), Separates(gap, at),
           NEW x \in Blanks, NEW src, src = <<x>> \o gap
    PROVE  /\ IsList(src) /\ src[1] = x /\ src # <<>>
           /\ \E more \in SUBSET (1 .. Len(src) + 1) : Separates(src, more)
<1>. PICK m : m = Len(gap)
    OBVIOUS
<1>. PICK S : S = ToSet(gap) \cup {x}
    OBVIOUS
<1>1. gap \in Seq(S) /\ x \in S
    <2>1. gap \in Seq(ToSet(gap)) /\ ToSet(gap) \subseteq S
        BY DEF IsList
    <2>. QED BY <2>1, SeqMonotonic
<1>2. /\ m \in Nat /\ src \in Seq(S) /\ Len(src) = 1 + m /\ src[1] = x
      /\ \A j \in 1 .. m : src[1 + j] = gap[j]
    BY <1>1, FrontFacts
<1>. PICK N : N = Len(src)
    OBVIOUS
<1>3. N \in Nat /\ N = 1 + m
    <2>1. m \in Nat /\ Len(src) = 1 + m
        BY <1>2
    <2>2. \A c \in Nat : 1 + c \in Nat
        OBVIOUS
    <2>. QED BY <2>1, <2>2
<1>4. src[1] \in Blanks
    BY <1>2
<1>5. \E more \in SUBSET (1 .. N + 1) : Separates(src, more)
    BY <1>2, <1>3, <1>4, BlankMoves
<1>6. IsList(src)
    BY <1>2, SeqIsList
<1>7. src # <<>>
    <2>1. m \in Nat
        BY <1>2
    <2>2. N # 0
        BY ONLY <1>3, <2>1
    <2>. QED BY <2>2
<1>. QED BY <1>2, <1>5, <1>6, <1>7

\* Every gap is one.
LEMMA GapFacts ==
    ASSUME NEW sc, WellWritten(sc), NEW ts, ts = ScriptTokens(sc), NEW i \in 1 .. Len(ts)
    PROVE  /\ IsList(Gap(sc, ts, i))
           /\ \E at \in SUBSET (1 .. Len(Gap(sc, ts, i)) + 1) : Separates(Gap(sc, ts, i), at)
           /\ ts[i].kind = "op" => Gap(sc, ts, i) # <<>> /\ Gap(sc, ts, i)[1] = " "
           /\ Gap(sc, ts, i) = <<>> =>
                 i < Len(ts) /\ (ts[i].kind = "punct" \/ ts[i + 1].kind = "punct")
<1>1. IsList(sc.gap) /\ sc.gap # <<>>
    BY DEF WellWritten
<1>2. PICK at \in SUBSET (1 .. Len(sc.gap) + 1) : Separates(sc.gap, at)
    BY DEF WellWritten
<1>3. CASE ts[i].kind = "op"
    <2>1. Gap(sc, ts, i) = <<" ">> \o sc.gap
        BY <1>3 DEF Gap
    <2>. PICK x : x = " "
        OBVIOUS
    <2>. PICK g : g = sc.gap
        OBVIOUS
    <2>. PICK src : src = <<x>> \o g
        OBVIOUS
    <2>2. x \in Blanks
        BY DEF Blanks
    <2>3. /\ IsList(src) /\ src[1] = x /\ src # <<>>
          /\ \E more \in SUBSET (1 .. Len(src) + 1) : Separates(src, more)
        <3>1. IsList(g) /\ at \in SUBSET (1 .. Len(g) + 1) /\ Separates(g, at) /\ src = <<x>> \o g
            BY <1>1, <1>2
        <3>. QED BY ONLY <2>2, <3>1, BlankInFront
    <2>. QED BY <2>1, <2>3
<1>4. CASE ts[i].kind # "op" /\ i < Len(ts) /\ sc.tight /\ "punct" \in {ts[i].kind, ts[i + 1].kind}
    <2>1. Gap(sc, ts, i) = <<>>
        BY <1>4 DEF Gap
    <2>2. IsList(<<>>) /\ Len(<<>>) = 0
        BY DEF IsList
    <2>3. Separates(<<>>, {1}) /\ {1} \in SUBSET (1 .. Len(<<>>) + 1)
        BY <2>2 DEF Separates
    <2>. QED BY <1>4, <2>1, <2>2, <2>3
<1>5. CASE ts[i].kind # "op"
           /\ ~(i < Len(ts) /\ sc.tight /\ "punct" \in {ts[i].kind, ts[i + 1].kind})
    <2>1. Gap(sc, ts, i) = sc.gap
        BY <1>5 DEF Gap
    <2>. QED BY <1>1, <1>2, <1>5, <2>1
<1>. QED BY <1>3, <1>4, <1>5

-----------------------------------------------------------------------------
(* A source is laid out.                                                   *)

\* From o on, src has a token's atoms sp and the gap g, and ends at e or later.
InPlace(src, o, sp, g, e) ==
    /\ o \in Nat /\ Len(sp) \in Nat /\ Len(sp) > 0 /\ Len(g) \in Nat
    /\ e = o + Len(sp) + Len(g) /\ e <= Len(src)
    /\ \A j \in 1 .. Len(sp) : src[o + j] = sp[j]
    /\ \A j \in 1 .. Len(g) : src[o + Len(sp) + j] = g[j]

\* A token is spelled with some atoms.
LEMMA SpelledFacts ==
    ASSUME NEW t, Spellable(t)
    PROVE  IsList(Spelled(t)) /\ Len(Spelled(t)) \in Nat /\ Len(Spelled(t)) > 0
<1>1. IsList(t.atoms) /\ (t.kind \notin Quotation => t.atoms # <<>>)
    BY DEF Spellable
<1>2. CASE t.kind \notin Quotation
    <2>1. Spelled(t) = t.atoms
        BY <1>2 DEF Spelled
    <2>. PICK a : a = t.atoms
        OBVIOUS
    <2>2. IsList(a) /\ a # <<>>
        BY <1>1, <1>2
    <2>3. a \in Seq(ToSet(a)) /\ Len(a) \in Nat
        BY <2>2, TextFacts DEF IsList
    <2>4. Len(a) # 0
        BY <2>2, <2>3
    <2>5. Len(a) > 0
        BY ONLY <2>3, <2>4
    <2>. QED BY <2>1, <2>2, <2>3, <2>5
<1>3. CASE t.kind \in Quotation
    <2>. PICK a : a = t.atoms
        OBVIOUS
    <2>. PICK d : d = Delimiter[t.kind]
        OBVIOUS
    <2>. PICK left : left = <<d>> \o a
        OBVIOUS
    <2>. PICK S : S = ToSet(a) \cup {d}
        OBVIOUS
    <2>. PICK one : one = <<d>>
        OBVIOUS
    <2>1. Spelled(t) = left \o one
        BY <1>3 DEF Spelled
    <2>2. a \in Seq(S) /\ d \in S /\ one \in Seq(S) /\ Len(one) = 1
        <3>1. a \in Seq(ToSet(a)) /\ ToSet(a) \subseteq S
            BY <1>1 DEF IsList
        <3>2. a \in Seq(S)
            BY <3>1, SeqMonotonic
        <3>. QED BY <3>2
    <2>3. left \in Seq(S)
        BY <2>2, FrontFacts
    <2>4. Spelled(t) \in Seq(S) /\ Len(Spelled(t)) = Len(left) + 1 /\ Len(left) \in Nat
        BY <2>1, <2>2, <2>3, ConcatProperties
    <2>5. Len(Spelled(t)) \in Nat /\ Len(Spelled(t)) > 0
        <3>1. \A m \in Nat : m + 1 \in Nat /\ m + 1 > 0
            OBVIOUS
        <3>. QED BY <2>4, <3>1
    <2>. QED BY <2>4, <2>5, SeqIsList
<1>. QED BY <1>2, <1>3

\* Two lists one after the other, in a text.
LEMMA PieceInPlace ==
    ASSUME NEW S, NEW sp \in Seq(S), NEW g \in Seq(S), Len(sp) > 0,
           NEW o \in Nat, NEW e, NEW src, NEW piece, piece = sp \o g,
           e = o + Len(piece), e <= Len(src), \A j \in 1 .. Len(piece) : src[o + j] = piece[j]
    PROVE  InPlace(src, o, sp, g, e)
<1>. PICK a : a = Len(sp)
    OBVIOUS
<1>. PICK b : b = Len(g)
    OBVIOUS
<1>1. a \in Nat /\ b \in Nat
    OBVIOUS
<1>2. /\ Len(piece) = a + b
      /\ \A j \in 1 .. a + b : piece[j] = IF j <= a THEN sp[j] ELSE g[j - a]
    <2>1. /\ Len(sp \o g) = Len(sp) + Len(g)
          /\ \A j \in 1 .. Len(sp) + Len(g) :
                (sp \o g)[j] = IF j <= Len(sp) THEN sp[j] ELSE g[j - Len(sp)]
        BY ConcatProperties
    <2>. QED BY ONLY <2>1, piece = sp \o g, a = Len(sp), b = Len(g)
<1>3. \A j \in 1 .. a + b : src[o + j] = piece[j]
    BY <1>2
<1>4. ASSUME NEW j \in 1 .. a PROVE src[o + j] = sp[j]
    <2>1. j \in 1 .. a + b /\ j <= a
        BY ONLY <1>1, j \in 1 .. a
    <2>. QED BY <1>2, <1>3, <2>1
<1>5. ASSUME NEW j \in 1 .. b PROVE src[o + a + j] = g[j]
    <2>1. a + j \in 1 .. a + b /\ ~(a + j <= a) /\ (a + j) - a = j /\ o + (a + j) = o + a + j
        BY ONLY <1>1, j \in 1 .. b, o \in Nat
    <2>2. src[o + (a + j)] = piece[a + j]
        BY <1>3, <2>1
    <2>3. piece[a + j] = g[j]
        BY <1>2, <2>1
    <2>. QED BY <2>1, <2>2, <2>3
<1>6. e = o + a + b
    <2>1. e = o + (a + b)
        BY <1>2
    <2>. QED BY ONLY <1>1, <2>1, o \in Nat
<1>. QED BY <1>1, <1>4, <1>5, <1>6 DEF InPlace

\* The tokens and the gaps are one after the other in the source.
LEMMA PiecesInPlace ==
    ASSUME NEW sc, WellWritten(sc), NEW ts, ts = ScriptTokens(sc),
           NEW src, src = SourceOf(sc, ts)
    PROVE  /\ IsList(ts) /\ Len(ts) \in Nat
           /\ \E off : /\ off[0] = 0 /\ Len(src) = off[Len(ts)] /\ off[Len(ts)] \in Nat
                       /\ \A i \in 1 .. Len(ts) :
                             InPlace(src, off[i - 1], Spelled(ts[i]), Gap(sc, ts, i), off[i])
<1>. PICK n : n = Len(ts)
    OBVIOUS
<1>1. IsList(ts) /\ n \in Nat /\ DOMAIN ts = 1 .. n
    BY TextFacts DEF WellWritten
<1>. PICK sp : sp = [i \in 1 .. n |-> Spelled(ts[i])]
    OBVIOUS
<1>. PICK g : g = [i \in 1 .. n |-> Gap(sc, ts, i)]
    OBVIOUS
<1>. PICK pieces : pieces = [i \in 1 .. n |-> Spelled(ts[i]) \o Gap(sc, ts, i)]
    OBVIOUS
<1>2. src = FlattenSeq(pieces)
    BY <1>1 DEF SourceOf
<1>3. \A i \in 1 .. n : sp[i] = Spelled(ts[i]) /\ g[i] = Gap(sc, ts, i) /\ pieces[i] = sp[i] \o g[i]
    OBVIOUS
<1>4. \A i \in 1 .. n : IsList(sp[i]) /\ Len(sp[i]) > 0 /\ IsList(g[i])
    <2>1. \A i \in 1 .. n : Spellable(ts[i])
        BY <1>1 DEF WellWritten
    <2>2. ASSUME NEW i \in 1 .. n PROVE IsList(sp[i]) /\ Len(sp[i]) > 0
        BY <1>3, <2>1, SpelledFacts
    <2>3. ASSUME NEW i \in 1 .. n PROVE IsList(g[i])
        BY <1>3, GapFacts
    <2>. QED BY <2>2, <2>3
<1>. PICK h : h = [i \in 1 .. n |-> ToSet(sp[i]) \cup ToSet(g[i])]
    OBVIOUS
<1>. PICK S : S = UNION {h[i] : i \in 1 .. n}
    OBVIOUS
<1>5. ASSUME NEW i \in 1 .. n PROVE sp[i] \in Seq(S) /\ g[i] \in Seq(S) /\ pieces[i] \in Seq(S)
    <2>1. sp[i] \in Seq(ToSet(sp[i])) /\ g[i] \in Seq(ToSet(g[i]))
        BY <1>4 DEF IsList
    <2>. PICK T : T = ToSet(sp[i])
        OBVIOUS
    <2>. PICK R : R = ToSet(g[i])
        OBVIOUS
    <2>2. T \subseteq S /\ R \subseteq S
        <3>1. h[i] = T \cup R
            OBVIOUS
        <3>2. h[i] \subseteq S
            OBVIOUS
        <3>. QED BY ONLY <3>1, <3>2
    <2>3. sp[i] \in Seq(S)
        BY ONLY <2>1, <2>2, T = ToSet(sp[i]), SeqMonotonic
    <2>4. g[i] \in Seq(S)
        BY ONLY <2>1, <2>2, R = ToSet(g[i]), SeqMonotonic
    <2>5. sp[i] \o g[i] \in Seq(S)
        BY ONLY <2>3, <2>4, ConcatProperties
    <2>. QED BY <1>3, <2>3, <2>4, <2>5
<1>6. Len(pieces) = n
    <2>. PICK R : R = Seq(S)
        OBVIOUS
    <2>1. pieces \in [1 .. n -> R]
        BY <1>5
    <2>2. \A m \in Nat : \A s \in [1 .. m -> R] : s \in Seq(R) /\ Len(s) = m
        OBVIOUS
    <2>. QED BY ONLY <1>1, <2>1, <2>2
<1>7. PICK off : Offsets(off, pieces, n, src)
    <2>1. \A i \in 1 .. n : pieces[i] \in Seq(S)
        BY ONLY <1>5
    <2>2. n \in Nat
        BY <1>1
    <2>3. \E off : Offsets(off, pieces, n, FlattenSeq(pieces))
        BY ONLY <1>6, <2>1, <2>2, FlattenFacts
    <2>. PICK flat : flat = FlattenSeq(pieces)
        OBVIOUS
    <2>4. src = flat /\ \E off : Offsets(off, pieces, n, flat)
        BY <1>2, <2>3
    <2>. QED BY ONLY <2>4
<1>8. /\ off[0] = 0 /\ Len(src) = off[n] /\ \A k \in 0 .. n : off[k] \in Nat /\ off[k] <= off[n]
      /\ \A k \in 1 .. n : /\ off[k] = off[k - 1] + Len(pieces[k])
                           /\ \A j \in 1 .. Len(pieces[k]) : src[off[k - 1] + j] = pieces[k][j]
    BY <1>7 DEF Offsets
<1>9. ASSUME NEW i \in 1 .. n PROVE InPlace(src, off[i - 1], sp[i], g[i], off[i])
    <2>1. i - 1 \in 0 .. n /\ i \in 0 .. n
        BY <1>1
    <2>2. off[i - 1] \in Nat /\ off[i] <= Len(src)
        BY <1>8, <2>1
    <2>. PICK o : o = off[i - 1]
        OBVIOUS
    <2>. PICK e : e = off[i]
        OBVIOUS
    <2>. PICK a : a = sp[i]
        OBVIOUS
    <2>. PICK b : b = g[i]
        OBVIOUS
    <2>. PICK piece : piece = pieces[i]
        OBVIOUS
    <2>3. a \in Seq(S) /\ b \in Seq(S) /\ Len(a) > 0 /\ piece = a \o b
        BY <1>3, <1>4, <1>5
    <2>4. /\ o \in Nat /\ e = o + Len(piece) /\ e <= Len(src)
          /\ \A j \in 1 .. Len(piece) : src[o + j] = piece[j]
        BY <1>8, <2>2
    <2>5. InPlace(src, o, a, b, e)
        BY ONLY <2>3, <2>4, PieceInPlace
    <2>. QED BY <2>5
<1>10. off[n] \in Nat
    <2>1. n \in 0 .. n
        BY ONLY <1>1
    <2>. QED BY <1>8, <2>1
<1>11. \A i \in 1 .. n : InPlace(src, off[i - 1], Spelled(ts[i]), Gap(sc, ts, i), off[i])
    BY <1>3, <1>9
<1>. QED BY <1>1, <1>8, <1>10, <1>11

\* Positions, d further on.
Moved(at, d) == {d + b : b \in at}

\* What a gap begins at, in a text.
LEMMA GapPlaced ==
    ASSUME NEW src, NEW o, NEW sp, NEW g, NEW e, InPlace(src, o, sp, g, e), Len(src) \in Nat,
           NEW at \in SUBSET (1 .. Len(g) + 1), Separates(g, at),
           NEW d, d = o + Len(sp), NEW places, places = Moved(at, d)
    PROVE  /\ d + 1 \in places
           /\ \A q \in places :
                 \/ q = e + 1
                 \/ q <= Len(src) /\ src[q] \in Blanks /\ q + 1 \in places
                 \/ \E end \in places : LineComment(src, q, end) \/ BlockComment(src, q, end)
<1>. PICK m : m = Len(g)
    OBVIOUS
<1>. PICK N : N = Len(src)
    OBVIOUS
<1>1. /\ o \in Nat /\ d \in Nat /\ m \in Nat /\ N \in Nat /\ e = d + m /\ e <= N
      /\ \A j \in 1 .. m : src[d + j] = g[j]
    <2>1. o \in Nat /\ Len(sp) \in Nat /\ m \in Nat /\ e = o + Len(sp) + m /\ e <= N
          /\ \A j \in 1 .. m : src[o + Len(sp) + j] = g[j]
        BY DEF InPlace
    <2>. QED BY <2>1
<1>0. /\ 1 \in at /\ \A b \in at : d + b \in places
      /\ \A b \in at : \/ b = m + 1
                       \/ g[b] \in Blanks /\ b + 1 \in at
                       \/ \E end \in at : LineComment(g, b, end) \/ BlockComment(g, b, end)
    BY DEF Separates, Moved
<1>2. ASSUME NEW q \in places
      PROVE  \/ q = e + 1
             \/ q <= N /\ src[q] \in Blanks /\ q + 1 \in places
             \/ \E end \in places : LineComment(src, q, end) \/ BlockComment(src, q, end)
    <2>1. PICK b \in at : q = d + b
        BY <1>2 DEF Moved
    <2>2. b \in Nat /\ b > 0 /\ b <= m + 1
        <3>1. b \in 1 .. m + 1
            OBVIOUS
        <3>. QED BY ONLY <3>1, <1>1
    <2>3. CASE b = m + 1
        BY ONLY <1>1, <2>1, <2>2, <2>3
    <2>4. CASE b # m + 1 /\ g[b] \in Blanks /\ b + 1 \in at
        <3>1. b \in 1 .. m /\ q + 1 = d + (b + 1) /\ q <= N
            BY ONLY <1>1, <2>1, <2>2, <2>4
        <3>2. q + 1 \in places
            BY <1>0, <2>4, <3>1
        <3>3. src[q] = g[b]
            BY <1>1, <2>1, <3>1
        <3>. QED BY <2>4, <3>1, <3>2, <3>3
    <2>5. ASSUME NEW end \in at, LineComment(g, b, end) \/ BlockComment(g, b, end)
          PROVE  \E c \in places : LineComment(src, q, c) \/ BlockComment(src, q, c)
        <3>1. d + end \in places
            BY <1>0
        <3>2. d + m <= N
            BY <1>1
        <3>3. LineComment(src, d + b, d + end) \/ BlockComment(src, d + b, d + end)
            BY <1>1, <2>2, <2>5, <3>2, CommentMoves
        <3>. QED BY <2>1, <3>1, <3>3
    <2>6. \/ b = m + 1 \/ (g[b] \in Blanks /\ b + 1 \in at)
          \/ \E end \in at : LineComment(g, b, end) \/ BlockComment(g, b, end)
        BY <1>0
    <2>. QED BY <2>3, <2>4, <2>5, <2>6
<1>. QED BY <1>0, <1>2

\* What comes after a token, in a text.
LEMMA AfterToken ==
    ASSUME NEW sc, WellWritten(sc), NEW ts, ts = ScriptTokens(sc), Len(ts) \in Nat,
           NEW src, Len(src) \in Nat, NEW off,
           \A i \in 1 .. Len(ts) : InPlace(src, off[i - 1], Spelled(ts[i]), Gap(sc, ts, i), off[i]),
           NEW i \in 1 .. Len(ts), NEW d, d = off[i - 1] + Len(Spelled(ts[i])), ts[i].kind # "punct"
    PROVE  /\ d < Len(src)
           /\ src[d + 1] \in Blanks \cup {"-", "/"} \cup Punctuation
           /\ ts[i].kind = "op" => src[d + 1] \in Blanks
           /\ ts[i].kind = "number" => src[d + 1] # "."
<1>. PICK g : g = Gap(sc, ts, i)
    OBVIOUS
<1>. PICK m : m = Len(g)
    OBVIOUS
<1>. PICK N : N = Len(src)
    OBVIOUS
<1>1. /\ d \in Nat /\ m \in Nat /\ N \in Nat /\ off[i] = d + m /\ off[i] <= N
      /\ \A j \in 1 .. m : src[d + j] = g[j]
    <2>1. InPlace(src, off[i - 1], Spelled(ts[i]), g, off[i])
        OBVIOUS
    <2>. PICK o : o = off[i - 1]
        OBVIOUS
    <2>. PICK a : a = Len(Spelled(ts[i]))
        OBVIOUS
    <2>2. /\ o \in Nat /\ a \in Nat /\ m \in Nat /\ off[i] = o + a + m /\ off[i] <= N
          /\ \A j \in 1 .. m : src[o + a + j] = g[j]
        BY <2>1 DEF InPlace
    <2>3. d = o + a
        OBVIOUS
    <2>. QED BY <2>2, <2>3
<1>2. /\ \E at : Separates(g, at)
      /\ ts[i].kind = "op" => g # <<>> /\ g[1] = " "
      /\ g = <<>> => i < Len(ts) /\ (ts[i].kind = "punct" \/ ts[i + 1].kind = "punct")
      /\ IsList(g)
    BY GapFacts
<1>3. "." \notin Blanks \cup {"-", "/"} /\ " " \in Blanks
    BY DEF Blanks, Newline
<1>4. CASE m # 0
    <2>1. g[1] \in Blanks \cup {"-", "/"}
        BY <1>1, <1>2, <1>4, GapBegins
    <2>2. 1 \in 1 .. m /\ d < N
        BY <1>1, <1>4
    <2>3. src[d + 1] = g[1]
        BY <1>1, <2>2
    <2>. QED BY <1>2, <1>3, <2>1, <2>2, <2>3
<1>5. CASE m = 0
    <2>1. g = <<>>
        <3>1. g \in Seq(ToSet(g))
            BY <1>2 DEF IsList
        <3>. QED BY <1>5, <3>1, EmptySeq
    <2>2. i < Len(ts) /\ ts[i + 1].kind = "punct" /\ ts[i].kind # "op"
        BY <1>2, <2>1
    <2>3. i + 1 \in 1 .. Len(ts) /\ (i + 1) - 1 = i /\ i \in 1 .. Len(ts) - 1 /\ off[i] = d
        BY <1>1, <1>5, <2>2
    <2>4. Spellable(ts[i + 1])
        <3>1. DOMAIN ts = 1 .. Len(ts)
            BY TextFacts DEF WellWritten
        <3>. QED BY <2>3, <3>1 DEF WellWritten
    <2>5. PICK p \in Punctuation : ts[i + 1].atoms = <<p>>
        BY <2>2, <2>4 DEF Spellable
    <2>6. ts[i].kind = "number" => p # "."
        BY <2>2, <2>3, <2>5 DEF WellWritten
    <2>7. Spelled(ts[i + 1]) = <<p>>
        BY <2>2, <2>5 DEF Spelled, Quotation
    <2>8. InPlace(src, d, <<p>>, Gap(sc, ts, i + 1), off[i + 1])
        BY <2>3, <2>7
    <2>9. d < N /\ src[d + 1] = p
        <3>. PICK one : one = <<p>>
            OBVIOUS
        <3>1. Len(one) = 1 /\ one[1] = p
            OBVIOUS
        <3>. PICK rest : rest = Gap(sc, ts, i + 1)
            OBVIOUS
        <3>. PICK e : e = off[i + 1]
            OBVIOUS
        <3>2. InPlace(src, d, one, rest, e)
            BY <2>8
        <3>3. Len(rest) \in Nat /\ e = d + 1 + Len(rest) /\ e <= N /\ src[d + 1] = one[1]
            BY <3>1, <3>2 DEF InPlace
        <3>. QED BY <1>1, <3>1, <3>3
    <2>. QED BY <2>2, <2>6, <2>9
<1>. QED BY <1>4, <1>5

\* What an author writes is laid out.
LEMMA LayoutExists ==
    ASSUME NEW sc, WellWritten(sc), NEW ts, ts = ScriptTokens(sc),
           NEW src, src = SourceOf(sc, ts)
    PROVE  \E w : w.src = src /\ w.ts = ts /\ Laid(w)
<1>. PICK n : n = Len(ts)
    OBVIOUS
<1>. PICK N : N = Len(src)
    OBVIOUS
<1>1. PICK off : /\ off[0] = 0 /\ N = off[n] /\ off[n] \in Nat
                 /\ \A i \in 1 .. n :
                       InPlace(src, off[i - 1], Spelled(ts[i]), Gap(sc, ts, i), off[i])
    BY PiecesInPlace
<1>2. n \in Nat /\ N \in Nat /\ DOMAIN ts = 1 .. n
    BY <1>1, PiecesInPlace, TextFacts
<1>. PICK g : g = [i \in 1 .. n |-> Gap(sc, ts, i)]
    OBVIOUS
<1>. PICK a : a = [i \in 1 .. n |-> Len(Spelled(ts[i]))]
    OBVIOUS
<1>3. \A i \in 1 .. n : g[i] = Gap(sc, ts, i) /\ a[i] = Len(Spelled(ts[i]))
    OBVIOUS
<1>. PICK sep : sep = [i \in 1 .. n |->
                          CHOOSE at \in SUBSET (1 .. Len(g[i]) + 1) : Separates(g[i], at)]
    OBVIOUS
<1>4. ASSUME NEW i \in 1 .. n
      PROVE  sep[i] \in SUBSET (1 .. Len(g[i]) + 1) /\ Separates(g[i], sep[i])
    <2>1. \E at \in SUBSET (1 .. Len(g[i]) + 1) : Separates(g[i], at)
        BY <1>3, GapFacts
    <2>. QED BY <2>1
<1>. PICK d : d = [i \in 1 .. n |-> off[i - 1] + a[i]]
    OBVIOUS
<1>5. ASSUME NEW i \in 1 .. n
      PROVE  /\ InPlace(src, off[i - 1], Spelled(ts[i]), g[i], off[i])
             /\ off[i - 1] \in Nat /\ a[i] \in Nat /\ a[i] > 0 /\ d[i] = off[i - 1] + a[i]
             /\ d[i] <= off[i] /\ off[i] <= N /\ off[i] \in Nat
             /\ \A j \in 1 .. a[i] : src[off[i - 1] + j] = Spelled(ts[i])[j]
    <2>1. InPlace(src, off[i - 1], Spelled(ts[i]), g[i], off[i])
        BY <1>1, <1>3
    <2>. PICK o : o = off[i - 1]
        OBVIOUS
    <2>. PICK e : e = off[i]
        OBVIOUS
    <2>. PICK sp : sp = Spelled(ts[i])
        OBVIOUS
    <2>. PICK c : c = a[i]
        OBVIOUS
    <2>. PICK h : h = g[i]
        OBVIOUS
    <2>2. c = Len(sp)
        BY <1>3
    <2>3. InPlace(src, o, sp, h, e)
        BY <2>1
    <2>4. /\ o \in Nat /\ c \in Nat /\ c > 0 /\ Len(h) \in Nat /\ e = o + c + Len(h) /\ e <= N
          /\ \A j \in 1 .. c : src[o + j] = sp[j]
        BY <2>2, <2>3 DEF InPlace
    <2>5. o + c <= e /\ e \in Nat
        BY ONLY <2>4
    <2>6. d[i] = o + c
        OBVIOUS
    <2>. QED BY <2>1, <2>4, <2>5, <2>6
<1>. PICK w : w = [src |-> src, ts |-> ts,
                   first |-> [i \in 1 .. n |-> off[i - 1] + 1], last |-> d,
                   at |-> [k \in 0 .. n |-> IF k = 0 THEN {1} ELSE Moved(sep[k], d[k])]]
    OBVIOUS
<1>6. /\ w.src = src /\ w.ts = ts
      /\ \A i \in 1 .. n : w.first[i] = off[i - 1] + 1 /\ w.last[i] = d[i]
      /\ w.at[0] = {1}
      /\ \A i \in 1 .. n : w.at[i] = Moved(sep[i], d[i])
    <2>1. w.at = [k \in 0 .. n |-> IF k = 0 THEN {1} ELSE Moved(sep[k], d[k])]
        OBVIOUS
    <2>2. 0 \in 0 .. n /\ \A i \in 1 .. n : i \in 0 .. n /\ i # 0
        BY ONLY <1>2
    <2>3. w.at[0] = {1}
        BY <2>1, <2>2
    <2>4. \A i \in 1 .. n : w.at[i] = Moved(sep[i], d[i])
        BY <2>1, <2>2
    <2>. QED BY <2>3, <2>4
\* Where the next token begins, if there is one.
<1>7. ASSUME NEW k \in 0 .. n, NEW q, q = off[k] + 1 PROVE Stands(w, k, q)
    <2>1. CASE k = n
        BY <1>1, <1>6, <1>7, <2>1 DEF Stands
    <2>2. CASE k # n
        <3>1. k < n /\ k + 1 \in 1 .. n /\ (k + 1) - 1 = k
            BY <1>2, <2>2
        <3>2. w.first[k + 1] = off[k] + 1
            BY <1>6, <3>1
        <3>. QED BY <1>6, <1>7, <3>1, <3>2 DEF Stands
    <2>. QED BY <2>1, <2>2
<1>8. ASSUME NEW k \in 1 .. n PROVE d[k] + 1 \in w.at[k] /\ \A q \in w.at[k] : Stands(w, k, q)
    <2>. PICK places : places = w.at[k]
        OBVIOUS
    <2>. PICK o : o = off[k - 1]
        OBVIOUS
    <2>. PICK e : e = off[k]
        OBVIOUS
    <2>. PICK sp : sp = Spelled(ts[k])
        OBVIOUS
    <2>. PICK h : h = g[k]
        OBVIOUS
    <2>. PICK at : at = sep[k]
        OBVIOUS
    <2>. PICK c : c = d[k]
        OBVIOUS
    <2>1. InPlace(src, o, sp, h, e) /\ Len(src) \in Nat
        BY <1>2, <1>5
    <2>2. at \in SUBSET (1 .. Len(h) + 1) /\ Separates(h, at)
        BY <1>4
    <2>3. c = o + Len(sp) /\ places = Moved(at, c)
        BY <1>3, <1>5, <1>6
    <2>4. /\ c + 1 \in places
          /\ \A q \in places :
                \/ q = e + 1
                \/ q <= Len(src) /\ src[q] \in Blanks /\ q + 1 \in places
                \/ \E end \in places : LineComment(src, q, end) \/ BlockComment(src, q, end)
        BY ONLY <2>1, <2>2, <2>3, GapPlaced
    <2>5. ASSUME NEW q \in places PROVE Stands(w, k, q)
        <3>1. CASE q = e + 1
            <4>1. k \in 0 .. n
                BY <1>2
            <4>. QED BY <1>7, <3>1, <4>1
        <3>2. CASE ~(q = e + 1)
            BY <1>6, <2>4, <3>2 DEF Stands
        <3>. QED BY <3>1, <3>2
    <2>. QED BY <2>4, <2>5
<1>9. ASSUME NEW i \in 1 .. n PROVE Placed(w, i)
    <2>1. Spellable(w.ts[i])
        BY <1>2, <1>6 DEF WellWritten
    <2>2. /\ w.first[i] \in Nat /\ w.first[i] > 0 /\ w.last[i] = w.first[i] + a[i] - 1
          /\ w.last[i] <= Len(w.src)
        <3>1. /\ off[i - 1] \in Nat /\ a[i] \in Nat /\ d[i] = off[i - 1] + a[i]
              /\ d[i] <= off[i] /\ off[i] <= N /\ off[i] \in Nat
              /\ w.first[i] = off[i - 1] + 1 /\ w.last[i] = d[i] /\ w.src = src
            BY <1>5, <1>6
        <3>. PICK o : o = off[i - 1]
            OBVIOUS
        <3>. PICK c : c = a[i]
            OBVIOUS
        <3>. PICK e : e = off[i]
            OBVIOUS
        <3>2. o \in Nat /\ c \in Nat /\ e \in Nat /\ o + c <= e /\ e <= N
            BY <3>1
        <3>3. o + 1 \in Nat /\ o + 1 > 0 /\ o + c = (o + 1) + c - 1 /\ o + c <= N
            BY ONLY <1>2, <3>2
        <3>4. w.first[i] = o + 1 /\ w.last[i] = o + c /\ Len(w.src) = N
            BY <3>1
        <3>. QED BY <3>3, <3>4
    <2>3. ASSUME NEW j \in 1 .. a[i] PROVE w.src[w.first[i] + j - 1] = Spelled(w.ts[i])[j]
        <3>1. src[off[i - 1] + j] = Spelled(ts[i])[j] /\ off[i - 1] \in Nat /\ a[i] \in Nat
            BY <1>5
        <3>2. \A o, c \in Nat : \A b \in 1 .. c : (o + 1) + b - 1 = o + b
            OBVIOUS
        <3>3. (off[i - 1] + 1) + j - 1 = off[i - 1] + j
            BY ONLY <3>1, <3>2, j \in 1 .. a[i]
        <3>. QED BY <1>6, <3>1, <3>3
    <2>4. w.last[i] + 1 \in w.at[i]
        BY <1>6, <1>8
    <2>5. Followed(w, i)
        <3>1. ASSUME ts[i].kind # "punct"
              PROVE  /\ d[i] < N
                     /\ src[d[i] + 1] \in Blanks \cup {"-", "/"} \cup Punctuation
                     /\ ts[i].kind = "op" => src[d[i] + 1] \in Blanks
                     /\ ts[i].kind = "number" => src[d[i] + 1] # "."
            <4>1. d[i] = off[i - 1] + Len(Spelled(ts[i]))
                BY <1>3, <1>5
            <4>2. \A j \in 1 .. Len(ts) :
                    InPlace(src, off[j - 1], Spelled(ts[j]), Gap(sc, ts, j), off[j])
                BY <1>1
            <4>3. /\ WellWritten(sc) /\ ts = ScriptTokens(sc) /\ Len(ts) \in Nat
                  /\ Len(src) \in Nat /\ i \in 1 .. Len(ts) /\ N = Len(src)
                BY <1>2
            <4>. PICK c : c = d[i]
                OBVIOUS
            <4>4. c = off[i - 1] + Len(Spelled(ts[i])) /\ ts[i].kind # "punct"
                BY <3>1, <4>1
            <4>5. /\ c < Len(src)
                  /\ src[c + 1] \in Blanks \cup {"-", "/"} \cup Punctuation
                  /\ ts[i].kind = "op" => src[c + 1] \in Blanks
                  /\ ts[i].kind = "number" => src[c + 1] # "."
                BY ONLY <4>2, <4>3, <4>4, AfterToken
            <4>. QED BY <4>3, <4>5
        <3>. QED BY <1>6, <3>1 DEF Followed
    <2>6. Len(Spelled(w.ts[i])) = a[i]
        BY <1>3, <1>6
    <2>. QED BY <2>1, <2>2, <2>3, <2>4, <2>5, <2>6 DEF Placed
<1>10. \A k \in 0 .. n : \A q \in w.at[k] : Stands(w, k, q)
    <2>1. ASSUME NEW q \in w.at[0] PROVE Stands(w, 0, q)
        <3>1. q = off[0] + 1 /\ 0 \in 0 .. n
            BY <1>1, <1>2, <1>6
        <3>. QED BY <1>7, <3>1
    <2>2. \A k \in 0 .. n : k = 0 \/ k \in 1 .. n
        BY <1>2
    <2>. QED BY <1>8, <2>1, <2>2
<1>11. Laid(w)
    BY <1>2, <1>6, <1>9, <1>10 DEF Laid
<1>. QED BY <1>6, <1>11

-----------------------------------------------------------------------------
(* The lexer of a file is on the track of the script it holds.             *)

\* The lexer is on the track of the script whose file is being read.
Follows(sc) ==
    \E w : /\ w.src = SourceOf(sc, ScriptTokens(sc)) /\ w.ts = ScriptTokens(sc)
           /\ Laid(w) /\ Tracked(w)
           /\ sc.cut = 0 => Len(text) = Len(w.src)

\* What is left of a file is the first part of it.
LEMMA SourceFacts ==
    ASSUME NEW sc, WellWritten(sc), NEW src, src = Source(sc),
           NEW whole, whole = SourceOf(sc, ScriptTokens(sc)), Len(whole) \in Nat
    PROVE  /\ Len(src) <= Len(whole) /\ \A i \in 1 .. Len(src) : src[i] = whole[i]
           /\ sc.cut = 0 => Len(src) = Len(whole)
<1>1. CASE sc.cut = 0
    <2>1. src = whole
        BY <1>1 DEF Source
    <2>. QED BY <2>1
<1>2. CASE sc.cut # 0
    <2>. PICK n : n = sc.cut
        OBVIOUS
    <2>. PICK N : N = Len(whole)
        OBVIOUS
    <2>1. src = SubSeq(whole, 1, n)
        BY <1>2 DEF Source
    <2>2. n \in 0 .. N /\ N \in Nat
        BY DEF WellWritten
    <2>3. Len(src) = n /\ \A i \in 1 .. n : src[i] = whole[i]
        BY ONLY <2>1, <2>2, SubSeqProperties
    <2>. QED BY <1>2, <2>2, <2>3
<1>. QED BY <1>1, <1>2

\* A file that is opened is on its track.
LEMMA FollowsBegins ==
    ASSUME NEW sc, WellWritten(sc), NEW src, src = Source(sc), LexFrom(src)
    PROVE  Follows(sc)'
<1>. PICK ts : ts = ScriptTokens(sc)
    OBVIOUS
<1>. PICK whole : whole = SourceOf(sc, ts)
    OBVIOUS
<1>1. PICK w : w.src = whole /\ w.ts = ts /\ Laid(w)
    BY LayoutExists
<1>2. Len(whole) \in Nat
    BY <1>1 DEF Laid
<1>3. /\ Len(src) <= Len(w.src) /\ \A i \in 1 .. Len(src) : src[i] = w.src[i]
      /\ sc.cut = 0 => Len(src) = Len(w.src)
    BY <1>1, <1>2, SourceFacts
<1>4. Tracked(w)'
    BY <1>1, <1>3, TrackBegins
<1>5. text' = src
    BY DEF LexFrom
<1>. QED BY <1>1, <1>3, <1>4, <1>5 DEF Follows

\* And it stays there.
LEMMA FollowsKept ==
    ASSUME Inv, NEW sc, Follows(sc), [LexNext]_lexVars
    PROVE  Follows(sc)'
<1>1. PICK w : /\ w.src = SourceOf(sc, ScriptTokens(sc)) /\ w.ts = ScriptTokens(sc)
               /\ Laid(w) /\ Tracked(w)
               /\ sc.cut = 0 => Len(text) = Len(w.src)
    BY DEF Follows
<1>2. CASE LexNext
    <2>1. Tracked(w)'
        BY <1>1, <1>2, TrackKept
    <2>2. text' = text
        BY <1>2
        DEF LexNext, LexBetween, LexInside, SkipBlank, OpenLineComment, SkipLineComment,
            CloseLineComment, OpenBlockComment, SkipBlockComment, CloseBlockComment, BeginWord,
            BeginNumber, BeginQuotation, BeginOp, ReadPunctuation, UnexpectedCharacter, EndOfText,
            ContinueWord, EndWord, ContinueNumber, BeginFraction, EndNumber, ContinueOp, EndOp,
            SkipDoubled, CloseQuotation, ContinueQuotation, Unterminated, Advance, Begin, Emit
    <2>. QED BY <1>1, <2>1, <2>2 DEF Follows
<1>3. CASE UNCHANGED lexVars
    <2>1. Tracked(w)'
        BY <1>1, <1>3
        DEF lexVars, Tracked, Prefix, OnTrack, Astray, ReadTo, Between, InLine, InBlock, InToken,
            Within, Refused, Through, AtCut, AtPoint, BrokenFraction, IsPunct, Content
    <2>. QED BY <1>1, <1>3, <2>1 DEF Follows, lexVars
<1>. QED BY <1>2, <1>3

-----------------------------------------------------------------------------
(* Statements, part by part.                                                 *)

\* A token that was read is one that was written.
Says(t, u) == t.kind = u.kind /\ Content(t) = u.atoms
\* From i on, up to after, the tokens of s say the part.
Read(s, i, part, after) ==
    /\ Len(s) \in Nat /\ i \in Nat /\ i > 0 /\ after \in Nat /\ after <= Len(s) + 1
    /\ IsList(part) /\ Len(part) \in Nat /\ after = i + Len(part)
    /\ \A j \in 1 .. Len(part) : Says(s[i + j - 1], part[j])

\* Two lists are one.
LEMMA CatFacts ==
    ASSUME NEW a, NEW b, IsList(a), IsList(b)
    PROVE  /\ IsList(a \o b) /\ Len(a) \in Nat /\ Len(b) \in Nat /\ Len(a \o b) = Len(a) + Len(b)
           /\ \A j \in 1 .. Len(a) : (a \o b)[j] = a[j]
           /\ \A j \in 1 .. Len(b) : (a \o b)[Len(a) + j] = b[j]
<1>. PICK S : S = ToSet(a) \cup ToSet(b)
    OBVIOUS
<1>. PICK m : m = Len(a)
    OBVIOUS
<1>. PICK n : n = Len(b)
    OBVIOUS
<1>. PICK c : c = a \o b
    OBVIOUS
<1>1. a \in Seq(S) /\ b \in Seq(S)
    <2>1. a \in Seq(ToSet(a)) /\ b \in Seq(ToSet(b))
        BY DEF IsList
    <2>2. ToSet(a) \subseteq S /\ ToSet(b) \subseteq S
        OBVIOUS
    <2>. QED BY <2>1, <2>2, SeqMonotonic
<1>2. /\ c \in Seq(S) /\ Len(c) = m + n /\ m \in Nat /\ n \in Nat
      /\ \A i \in 1 .. m + n : c[i] = IF i <= m THEN a[i] ELSE b[i - m]
    <2>1. m \in Nat /\ n \in Nat
        BY ONLY <1>1, m = Len(a), n = Len(b), LenProperties
    <2>2. /\ c \in Seq(S) /\ Len(c) = Len(a) + Len(b)
          /\ \A i \in 1 .. Len(a) + Len(b) : c[i] = IF i <= Len(a) THEN a[i] ELSE b[i - Len(a)]
        BY ONLY <1>1, c = a \o b, ConcatProperties
    <2>. QED BY ONLY <2>1, <2>2, m = Len(a), n = Len(b)
<1>3. IsList(c)
    BY <1>2, SeqIsList
<1>4. ASSUME NEW j \in 1 .. m PROVE c[j] = a[j]
    <2>1. j \in 1 .. m + n /\ j <= m
        BY ONLY <1>2, j \in 1 .. m
    <2>. QED BY <1>2, <2>1
<1>5. ASSUME NEW j \in 1 .. n PROVE c[m + j] = b[j]
    <2>1. m + j \in 1 .. m + n /\ ~(m + j <= m) /\ (m + j) - m = j
        BY ONLY <1>2, j \in 1 .. n
    <2>. QED BY <1>2, <2>1
<1>. QED BY <1>2, <1>3, <1>4, <1>5

\* What says two parts says one and then the other.
LEMMA ReadCat ==
    ASSUME NEW s, NEW i, NEW a, NEW b, NEW after, IsList(a), IsList(b), Read(s, i, a \o b, after)
    PROVE  \E mid : Read(s, i, a, mid) /\ Read(s, mid, b, after)
<1>. PICK c : c = a \o b
    OBVIOUS
<1>. PICK m : m = Len(a)
    OBVIOUS
<1>. PICK n : n = Len(b)
    OBVIOUS
<1>. PICK N : N = Len(s)
    OBVIOUS
<1>. PICK mid : mid = i + m
    OBVIOUS
<1>1. /\ m \in Nat /\ n \in Nat /\ Len(c) = m + n
      /\ \A j \in 1 .. m : c[j] = a[j]
      /\ \A j \in 1 .. n : c[m + j] = b[j]
    BY CatFacts
<1>2. /\ N \in Nat /\ i \in Nat /\ i > 0 /\ after \in Nat /\ after <= N + 1 /\ after = i + (m + n)
      /\ \A j \in 1 .. m + n : Says(s[i + j - 1], c[j])
    <2>1. Read(s, i, c, after)
        OBVIOUS
    <2>. QED BY <1>1, <2>1 DEF Read
<1>3. mid \in Nat /\ mid > 0 /\ mid <= N + 1 /\ after = mid + n
    BY ONLY <1>1, <1>2, mid = i + m
<1>4. ASSUME NEW j \in 1 .. m PROVE Says(s[i + j - 1], a[j])
    <2>1. j \in 1 .. m + n
        BY ONLY <1>1, j \in 1 .. m
    <2>. QED BY <1>1, <1>2, <2>1
<1>5. ASSUME NEW j \in 1 .. n PROVE Says(s[mid + j - 1], b[j])
    <2>1. m + j \in 1 .. m + n /\ i + (m + j) - 1 = mid + j - 1
        BY ONLY <1>1, <1>2, j \in 1 .. n, mid = i + m
    <2>2. Says(s[i + (m + j) - 1], c[m + j]) /\ c[m + j] = b[j]
        BY ONLY <1>1, <1>2, <2>1, j \in 1 .. n
    <2>. QED BY <2>1, <2>2
<1>6. Read(s, i, a, mid)
    BY <1>1, <1>2, <1>3, <1>4 DEF Read
<1>7. Read(s, mid, b, after)
    BY <1>1, <1>2, <1>3, <1>5 DEF Read
<1>. QED BY <1>6, <1>7

\* A token.
LEMMA ReadOne ==
    ASSUME NEW s, NEW i, NEW u, NEW after, Read(s, i, <<u>>, after)
    PROVE  /\ after = i + 1 /\ i \in Nat /\ i > 0 /\ i <= Len(s) /\ Len(s) \in Nat
           /\ At(s, i) = s[i] /\ Says(s[i], u)
<1>. PICK one : one = <<u>>
    OBVIOUS
<1>1. Len(one) = 1 /\ one[1] = u
    OBVIOUS
<1>2. Read(s, i, one, after)
    OBVIOUS
<1>. PICK N : N = Len(s)
    OBVIOUS
<1>3. /\ N \in Nat /\ i \in Nat /\ i > 0 /\ after \in Nat /\ after <= N + 1 /\ after = i + 1
      /\ \A j \in 1 .. 1 : Says(s[i + j - 1], one[j])
    BY <1>1, <1>2 DEF Read
<1>4. i <= N /\ i + 1 - 1 = i /\ 1 \in 1 .. 1
    BY ONLY <1>3
<1>5. Says(s[i + 1 - 1], one[1])
    BY ONLY <1>3, <1>4
<1>. QED BY <1>1, <1>3, <1>4, <1>5 DEF At

\* Words.
LEMMA ReadWords ==
    ASSUME NEW s, NEW i, NEW ws, IsList(ws), NEW after, Read(s, i, Phrase(ws), after)
    PROVE  Keywords(s, i, ws) /\ after = i + Len(ws) /\ Len(ws) \in Nat
<1>. PICK n : n = Len(ws)
    OBVIOUS
<1>1. n \in Nat /\ DOMAIN ws = 1 .. n
    BY TextFacts
<1>. PICK p : p = [k \in 1 .. n |-> Word(ws[k])]
    OBVIOUS
<1>2. Phrase(ws) = p
    BY <1>1 DEF Phrase
<1>3. Read(s, i, p, after)
    BY <1>2
<1>4. Len(p) = n
    <2>1. p \in [1 .. n -> {p[k] : k \in 1 .. n}]
        OBVIOUS
    <2>2. \A R : \A m \in Nat : \A f \in [1 .. m -> R] : Len(f) = m
        OBVIOUS
    <2>. QED BY ONLY <1>1, <2>1, <2>2
<1>. PICK N : N = Len(s)
    OBVIOUS
<1>5. /\ N \in Nat /\ i \in Nat /\ i > 0 /\ after \in Nat /\ after <= N + 1 /\ after = i + n
      /\ \A k \in 1 .. n : Says(s[i + k - 1], p[k])
    BY <1>3, <1>4 DEF Read
<1>6. ASSUME NEW k \in 1 .. n PROVE IsKeyword(At(s, i + k - 1), ws[k])
    <2>1. i + k - 1 <= N
        BY ONLY <1>1, <1>5, k \in 1 .. n
    <2>2. At(s, i + k - 1) = s[i + k - 1]
        BY <2>1 DEF At
    <2>3. Says(s[i + k - 1], Word(ws[k]))
        BY <1>5
    <2>. QED BY <2>2, <2>3 DEF Says, Word, Written, IsKeyword
<1>. QED BY <1>1, <1>5, <1>6 DEF Keywords

\* Words are lists.
LEMMA Lists ==
    /\ IsList(<<>>)
    /\ \A x : IsList(<<x>>) /\ Len(<<x>>) = 1 /\ <<x>>[1] = x /\ DOMAIN <<x>> = 1 .. 1
    /\ \A x, y : /\ IsList(<<x, y>>) /\ Len(<<x, y>>) = 2 /\ DOMAIN <<x, y>> = 1 .. 2
                 /\ <<x, y>>[1] = x /\ <<x, y>>[2] = y
    /\ \A x, y, z : /\ IsList(<<x, y, z>>) /\ Len(<<x, y, z>>) = 3 /\ DOMAIN <<x, y, z>> = 1 .. 3
                    /\ <<x, y, z>>[1] = x /\ <<x, y, z>>[2] = y /\ <<x, y, z>>[3] = z
<1>1. IsList(<<>>)
    BY DEF IsList
<1>2. ASSUME NEW x PROVE IsList(<<x>>)
    <2>1. <<x>> \in Seq({x})
        OBVIOUS
    <2>. QED BY <2>1, SeqIsList
<1>3. ASSUME NEW x, NEW y PROVE IsList(<<x, y>>)
    <2>1. <<x, y>> \in Seq({x, y})
        OBVIOUS
    <2>. QED BY <2>1, SeqIsList
<1>4. ASSUME NEW x, NEW y, NEW z PROVE IsList(<<x, y, z>>)
    <2>1. <<x, y, z>> \in Seq({x, y, z})
        OBVIOUS
    <2>. QED BY <2>1, SeqIsList
<1>5. \A x, y, z : /\ Len(<<x>>) = 1 /\ Len(<<x, y>>) = 2 /\ Len(<<x, y, z>>) = 3
                   /\ DOMAIN <<x>> = 1 .. 1 /\ DOMAIN <<x, y>> = 1 .. 2 /\ DOMAIN <<x, y, z>> = 1 .. 3
    OBVIOUS
<1>. QED BY <1>1, <1>2, <1>3, <1>4, <1>5

\* A sentence of words is a list, and so is what is there or not.
LEMMA PhraseList ==
    ASSUME NEW ws, IsList(ws)
    PROVE  IsList(Phrase(ws)) /\ Len(Phrase(ws)) = Len(ws)
<1>. PICK n : n = Len(ws)
    OBVIOUS
<1>1. n \in Nat /\ DOMAIN ws = 1 .. n
    BY TextFacts
<1>. PICK p : p = [k \in 1 .. n |-> Word(ws[k])]
    OBVIOUS
<1>. PICK R : R = {p[k] : k \in 1 .. n}
    OBVIOUS
<1>2. Phrase(ws) = p
    BY <1>1 DEF Phrase
<1>3. p \in Seq(R) /\ Len(p) = n
    <2>1. p \in [1 .. n -> R]
        OBVIOUS
    <2>2. \A m \in Nat : \A f \in [1 .. m -> R] : f \in Seq(R) /\ Len(f) = m
        OBVIOUS
    <2>. QED BY ONLY <1>1, <2>1, <2>2
<1>. QED BY <1>2, <1>3, SeqIsList

\* A part that is there or not is a list.
LEMMA WhenList ==
    ASSUME NEW c \in BOOLEAN, NEW part, IsList(part)
    PROVE  IsList(When(c, part))
BY Lists DEF When

\* A set of naturals has a least.
LEMMA FirstOfSome ==
    ASSUME NEW S, S \subseteq Nat, S # {}
    PROVE  Min(S) \in S /\ \A y \in S : Min(S) <= y
<1> DEFINE T == {n \in Nat : \A y \in S : n <= y}
<1>1. CASE \E x \in S : \A y \in S : x <= y
    BY <1>1 DEF Min
<1>2. CASE \A x \in S : \E y \in S : ~(x <= y)
    <2>1. 0 \in T
        OBVIOUS
    <2>2. ASSUME NEW n \in Nat, n \in T PROVE n + 1 \in T
        <3>1. n \notin S
            BY <1>2, <2>2
        <3>2. ASSUME NEW y \in S PROVE n + 1 <= y
            <4>1. n <= y /\ n # y /\ y \in Nat
                BY <2>2, <3>1
            <4>. QED BY <4>1
        <3>. QED BY <3>2
    <2> HIDE DEF T
    <2>3. Nat \subseteq T
        BY <2>1, <2>2, Count!Induction
    <2>4. PICK y \in S : TRUE
        OBVIOUS
    <2>5. y + 1 \in Nat /\ y + 1 <= y
        BY <2>3 DEF T
    <2>. QED BY <2>4, <2>5
<1>. QED BY <1>1, <1>2

\* The tokens of s from i to its end say the part.
Rest(s, i, part) == Read(s, i, part, Len(s) + 1)

\* A token is one word.
LEMMA OneWord ==
    ASSUME NEW t, NEW a, NEW b, IsKeyword(t, a), IsKeyword(t, b)
    PROVE  a = b
<1>1. <<a>> = <<b>>
    BY DEF IsKeyword
<1>2. <<a>>[1] = a /\ <<b>>[1] = b
    OBVIOUS
<1>. QED BY <1>1, <1>2

\* A word is no punctuation.
LEMMA NoPunct ==
    ASSUME NEW t, NEW p, IsPunct(t, p)
    PROVE  ~IsNamePart(t) /\ \A w : ~IsKeyword(t, w)
BY DEF IsPunct, IsNamePart, IsKeyword

\* What is at a position of the rest of a statement.
LEMMA RestAt ==
    ASSUME NEW s, NEW i, NEW part, Rest(s, i, part), NEW k \in Nat, k > 0
    PROVE  /\ Len(part) \in Nat /\ Len(s) \in Nat /\ i \in Nat /\ i > 0 /\ i + Len(part) = Len(s) + 1
           /\ k <= Len(part) <=> i + k - 1 <= Len(s)
           /\ k <= Len(part) => At(s, i + k - 1) = s[i + k - 1] /\ Says(At(s, i + k - 1), part[k])
           /\ ~(k <= Len(part)) => At(s, i + k - 1).kind = "end"
<1>. PICK m : m = Len(part)
    OBVIOUS
<1>. PICK N : N = Len(s)
    OBVIOUS
<1>1. /\ m \in Nat /\ N \in Nat /\ i \in Nat /\ i > 0 /\ N + 1 = i + m
      /\ \A j \in 1 .. m : Says(s[i + j - 1], part[j])
    BY DEF Rest, Read
<1>2. k <= m <=> i + k - 1 <= N
    BY ONLY <1>1, k \in Nat
<1>3. ASSUME k <= m PROVE At(s, i + k - 1) = s[i + k - 1] /\ Says(At(s, i + k - 1), part[k])
    <2>1. k \in 1 .. m /\ i + k - 1 <= N
        BY ONLY <1>1, <1>3, k \in Nat, k > 0
    <2>2. Says(s[i + k - 1], part[k])
        BY <1>1, <2>1
    <2>3. At(s, i + k - 1) = s[i + k - 1]
        BY <2>1 DEF At
    <2>. QED BY <2>2, <2>3
<1>4. ASSUME ~(k <= m) PROVE At(s, i + k - 1).kind = "end"
    <2>1. ~(i + k - 1 <= N)
        BY <1>2, <1>4
    <2>. QED BY <2>1 DEF At
<1>. QED BY <1>1, <1>2, <1>3, <1>4

\* What it is.
LEMMA RestSays ==
    ASSUME NEW s, NEW i, NEW part, Rest(s, i, part), NEW k \in Nat, k > 0
    PROVE  /\ \A w : IsKeyword(At(s, i + k - 1), w) <=> k <= Len(part) /\ TheWord(part[k], w)
           /\ \A p : IsPunct(At(s, i + k - 1), p) <=> k <= Len(part) /\ ThePunct(part[k], p)
           /\ IsNamePart(At(s, i + k - 1)) <=> k <= Len(part) /\ IsNamePart(part[k])
<1>. PICK t : t = At(s, i + k - 1)
    OBVIOUS
<1>. PICK u : u = part[k]
    OBVIOUS
<1>. PICK there \in BOOLEAN : there <=> k <= Len(part)
    OBVIOUS
<1>1. (there => Says(t, u)) /\ (~there => t.kind = "end")
    BY RestAt
<1>2. \A w : IsKeyword(t, w) <=> there /\ TheWord(u, w)
    BY <1>1 DEF Says, IsKeyword, TheWord
<1>3. \A p : IsPunct(t, p) <=> there /\ ThePunct(u, p)
    BY <1>1 DEF Says, IsPunct, ThePunct
<1>4. IsNamePart(t) <=> there /\ IsNamePart(u)
    BY <1>1 DEF Says, IsNamePart
<1>. QED BY <1>2, <1>3, <1>4

\* The words at a position.
LEMMA RestGoesOn ==
    ASSUME NEW s, NEW i, NEW part, Rest(s, i, part), NEW k \in Nat, k > 0,
           NEW ws, IsList(ws)
    PROVE  Keywords(s, i + k - 1, ws) <=> GoesOn(part, k, ws)
<1>. PICK n : n = Len(ws)
    OBVIOUS
<1>1. n \in Nat /\ DOMAIN ws = 1 .. n
    BY TextFacts
<1>2. i \in Nat
    BY RestAt
<1>3. ASSUME NEW j \in 1 .. n
      PROVE  IsKeyword(At(s, i + k - 1 + j - 1), ws[j])
                <=> k + j - 1 <= Len(part) /\ TheWord(part[k + j - 1], ws[j])
    <2>. PICK l : l = k + j - 1
        OBVIOUS
    <2>1. l \in Nat /\ l > 0 /\ i + k - 1 + j - 1 = i + l - 1
        BY ONLY <1>1, <1>2, l = k + j - 1, k \in Nat, k > 0, j \in 1 .. n
    <2>2. \A w : IsKeyword(At(s, i + l - 1), w) <=> l <= Len(part) /\ TheWord(part[l], w)
        BY <2>1, RestSays
    <2>. QED BY <2>1, <2>2
<1>. QED BY <1>1, <1>3 DEF Keywords, GoesOn

\* The name whose last part is at a position.
NameTo(s, i, last) ==
    LET parts == [n \in 1 .. (last - i) \div 2 + 1 |-> At(s, i + 2 * (n - 1))]
    IN  IF \A n \in DOMAIN parts : IsNamePart(parts[n])
        THEN [ok |-> TRUE, name |-> LastQualifiedPart(parts), next |-> last + 1]
        ELSE [ok |-> FALSE, name |-> "", next |-> i]

\* From i on there are d + 1 identifiers joined by points, the last of them a.
Joined(s, i, d, a) ==
    /\ Len(s) \in Nat /\ i \in Nat /\ i > 0 /\ d \in Nat /\ d <= Len(s) /\ a # "."
    /\ \A n \in 0 .. d : IsNamePart(At(s, i + 2 * n))
    /\ \A n \in Nat : n < d => IsPunct(At(s, i + 2 * n + 1), ".")
    /\ ~IsPunct(At(s, i + 2 * d + 1), ".")
    /\ Content(At(s, i + 2 * d)) = <<a>>

\* A name ends where no point follows it, and the last of its parts is what it is
\* known by.
LEMMA NameIs ==
    ASSUME NEW s, NEW i, NEW d, NEW a, Joined(s, i, d, a)
    PROVE  /\ Name(s, i).ok /\ Name(s, i).name = a /\ Name(s, i).next = i + 2 * d + 1
<1>0. /\ Len(s) \in Nat /\ i \in Nat /\ i > 0 /\ d \in Nat /\ d <= Len(s) /\ a # "."
      /\ \A n \in 0 .. d : IsNamePart(At(s, i + 2 * n))
      /\ \A n \in Nat : n < d => IsPunct(At(s, i + 2 * n + 1), ".")
      /\ ~IsPunct(At(s, i + 2 * d + 1), ".")
      /\ Content(At(s, i + 2 * d)) = <<a>>
    BY DEF Joined
<1>. USE <1>0
<1>. PICK S : S = {n \in 0 .. Len(s) : ~IsPunct(At(s, i + 2 * n + 1), ".")}
    OBVIOUS
<1>1. Min(S) = d
    <2>1. d \in S /\ S \subseteq Nat
        OBVIOUS
    <2>2. Min(S) \in S /\ Min(S) <= d
        BY <2>1, FirstOfSome
    <2>3. ~(Min(S) < d)
        <3>1. Min(S) \in Nat /\ ~IsPunct(At(s, i + 2 * Min(S) + 1), ".")
            BY <2>2
        <3>. QED BY <3>1
    <2>. QED BY <2>1, <2>2, <2>3
<1>. PICK last : last = i + 2 * d
    OBVIOUS
<1>2. (last - i) \div 2 + 1 = d + 1 /\ last = i + 2 * Min(S)
    <2>1. last - i = 2 * d
        BY ONLY last = i + 2 * d, <1>0
    <2>2. (2 * d) \div 2 = d
        BY ONLY <1>0
    <2>. QED BY <1>1, <2>1, <2>2
<1>. PICK parts : parts = [n \in 1 .. d + 1 |-> At(s, i + 2 * (n - 1))]
    OBVIOUS
<1>3. /\ Len(parts) = d + 1 /\ DOMAIN parts = 1 .. d + 1
      /\ \A n \in 1 .. d + 1 : IsNamePart(parts[n])
      /\ parts[d + 1] = At(s, i + 2 * d)
    <2>1. Len(parts) = d + 1
        <3>1. parts \in [1 .. d + 1 -> {parts[n] : n \in 1 .. d + 1}]
            OBVIOUS
        <3>2. \A R : \A m \in Nat : \A f \in [1 .. m -> R] : Len(f) = m
            OBVIOUS
        <3>. QED BY ONLY <3>1, <3>2, <1>0
    <2>2. ASSUME NEW n \in 1 .. d + 1 PROVE IsNamePart(parts[n])
        <3>1. n - 1 \in 0 .. d
            OBVIOUS
        <3>. QED BY <3>1
    <2>3. d + 1 \in 1 .. d + 1 /\ d + 1 - 1 = d
        OBVIOUS
    <2>4. parts[d + 1] = At(s, i + 2 * d)
        BY <2>3
    <2>. QED BY <2>1, <2>2, <2>4
<1>4. LastQualifiedPart(parts) = a
    <2>. PICK atoms : atoms = <<a>>
        OBVIOUS
    <2>1. Content(parts[Len(parts)]) = atoms
        BY <1>3
    <2>2. Len(atoms) = 1 /\ atoms[1] = a
        OBVIOUS
    <2>3. SelectLastInSeq(atoms, LAMBDA x : x = ".") = 0
        <3>1. {k \in 1 .. Len(atoms) : atoms[k] = "."} = {}
            BY <2>2
        <3>. QED BY <3>1 DEF SelectLastInSeq
    <2>4. PICK one : one = SubSeq(atoms, 0 + 1, Len(atoms))
        OBVIOUS
    <2>5. Len(one) = 1 /\ one[1] = a
        <3>1. atoms \in Seq({a}) /\ 1 \in 1 .. 2 /\ 1 <= Len(atoms) + 1 /\ 0 + 1 = 1
            BY <2>2
        <3>2. one = SubSeq(atoms, 1, 1)
            BY ONLY <2>2, <2>4, <3>1
        <3>3. \A x : Len(SubSeq(<<x>>, 1, 1)) = 1 /\ SubSeq(<<x>>, 1, 1)[1] = x
            OBVIOUS
        <3>. QED BY ONLY <3>2, <3>3, atoms = <<a>>
    <2>6. Spell(one) = a
        BY <2>5 DEF Spell
    <2>. QED BY <2>1, <2>3, <2>4, <2>6 DEF LastQualifiedPart
<1>5. Name(s, i) = [ok |-> TRUE, name |-> LastQualifiedPart(parts), next |-> last + 1]
    <2>1. \A n \in DOMAIN parts : IsNamePart(parts[n])
        BY <1>3
    <2>2. parts = [n \in 1 .. (last - i) \div 2 + 1 |-> At(s, i + 2 * (n - 1))]
        BY <1>2
    <2>3. NameTo(s, i, last) = [ok |-> TRUE, name |-> LastQualifiedPart(parts), next |-> last + 1]
        BY ONLY <2>1, <2>2 DEF NameTo
    <2>4. Name(s, i)
            = NameTo(s, i, i + 2 * Min({n \in 0 .. Len(s) : ~IsPunct(At(s, i + 2 * n + 1), ".")}))
        BY ONLY TRUE DEF Name, NameTo
    <2>5. Name(s, i) = NameTo(s, i, last)
        BY <1>2, <2>4
    <2>. QED BY <2>3, <2>5
<1>. QED BY <1>4, <1>5

\* What is no identifier is no name.
LEMMA NameNone ==
    ASSUME NEW s, Len(s) \in Nat, NEW i \in Nat, i > 0, ~IsNamePart(At(s, i))
    PROVE  ~Name(s, i).ok
<1>. PICK S : S = {n \in 0 .. Len(s) : ~IsPunct(At(s, i + 2 * n + 1), ".")}
    OBVIOUS
<1>1. Min(S) \in Nat
    <2>1. Len(s) \in S
        <3>1. ~(i + 2 * Len(s) + 1 <= Len(s))
            OBVIOUS
        <3>2. At(s, i + 2 * Len(s) + 1).kind = "end"
            BY <3>1 DEF At
        <3>. QED BY <3>2 DEF IsPunct
    <2>. QED BY <2>1, FirstOfSome
<1>. PICK m \in Nat : m = Min(S)
    BY <1>1
<1>. PICK last : last = i + 2 * m
    OBVIOUS
<1>2. (last - i) \div 2 + 1 = m + 1
    <2>1. last - i = 2 * m
        BY ONLY last = i + 2 * m, i \in Nat, m \in Nat
    <2>2. (2 * m) \div 2 = m
        BY ONLY m \in Nat
    <2>. QED BY <2>1, <2>2
<1>. PICK parts : parts = [n \in 1 .. m + 1 |-> At(s, i + 2 * (n - 1))]
    OBVIOUS
<1>3. 1 \in DOMAIN parts /\ ~IsNamePart(parts[1])
    <2>1. i + 2 * (1 - 1) = i
        OBVIOUS
    <2>. QED BY <2>1
<1>4. Name(s, i) = [ok |-> FALSE, name |-> "", next |-> i]
    <2>1. ~\A n \in DOMAIN parts : IsNamePart(parts[n])
        BY <1>3
    <2>2. /\ parts = [n \in 1 .. (last - i) \div 2 + 1 |-> At(s, i + 2 * (n - 1))]
          /\ last = i + 2 * Min(S)
        BY <1>2
    <2>. QED BY <2>1, <2>2 DEF Name
<1>. PICK e : e = ""
    OBVIOUS
<1>5. Name(s, i) = [ok |-> FALSE, name |-> e, next |-> i]
    BY <1>4
<1>6. \A x, n : [ok |-> FALSE, name |-> x, next |-> n].ok = FALSE
    OBVIOUS
<1>7. Name(s, i).ok = FALSE
    BY ONLY <1>5, <1>6
<1>. QED BY ONLY <1>7

\* An ordinary name, and the same qualified.
LEMMA NameHere ==
    ASSUME NEW s, Len(s) \in Nat, NEW i \in Nat, i > 0, NEW t, OrdinaryName(t), Says(At(s, i), t),
           ~IsPunct(At(s, i + 1), ".")
    PROVE  Name(s, i).ok /\ Name(s, i).name = NameOf(t) /\ Name(s, i).next = i + 1
<1>. PICK a : a = NameOf(t)
    OBVIOUS
<1>1. i + 2 * 0 = i /\ i + 2 * 0 + 1 = i + 1
    OBVIOUS
<1>2. IsNamePart(At(s, i)) /\ Content(At(s, i)) = <<a>> /\ a # "."
    BY DEF Says, OrdinaryName, IsNamePart, NameOf
<1>3. Joined(s, i, 0, a)
    BY <1>1, <1>2 DEF Joined
<1>4. Name(s, i).ok /\ Name(s, i).name = a /\ Name(s, i).next = i + 2 * 0 + 1
    BY <1>3, NameIs
<1>. QED BY <1>1, <1>4

\* A name with the name of its schema before it.
LEMMA QualifiedNameHere ==
    ASSUME NEW s, NEW i \in Nat, i > 0, IsNamePart(At(s, i)), IsPunct(At(s, i + 1), "."),
           Len(s) \in Nat, Len(s) > 0,
           NEW t, OrdinaryName(t), Says(At(s, i + 2), t), ~IsPunct(At(s, i + 3), ".")
    PROVE  Name(s, i).ok /\ Name(s, i).name = NameOf(t) /\ Name(s, i).next = i + 3
<1>. PICK a : a = NameOf(t)
    OBVIOUS
<1>. PICK d \in Nat : d = 1
    OBVIOUS
<1>1. /\ i + 2 * 0 = i /\ i + 2 * 0 + 1 = i + 1 /\ i + 2 * d = i + 2 /\ i + 2 * d + 1 = i + 3
      /\ d <= Len(s)
    OBVIOUS
<1>2. IsNamePart(At(s, i + 2)) /\ Content(At(s, i + 2)) = <<a>> /\ a # "."
    BY DEF Says, OrdinaryName, IsNamePart, NameOf
<1>3. (\A n \in 0 .. d : n = 0 \/ n = d) /\ (\A n \in Nat : n < d => n = 0)
    OBVIOUS
<1>4. ASSUME NEW n \in 0 .. d PROVE IsNamePart(At(s, i + 2 * n))
    BY <1>1, <1>2, <1>3
<1>5. ASSUME NEW n \in Nat, n < d PROVE IsPunct(At(s, i + 2 * n + 1), ".")
    BY <1>1, <1>3, <1>5
<1>6. Joined(s, i, d, a)
    BY <1>1, <1>2, <1>4, <1>5 DEF Joined
<1>7. Name(s, i).ok /\ Name(s, i).name = a /\ Name(s, i).next = i + 2 * d + 1
    BY <1>6, NameIs
<1>. QED BY <1>1, <1>7

\* An ordinary name in the rest of a statement.
LEMMA NameInRest ==
    ASSUME NEW s, NEW i, NEW part, Rest(s, i, part), NEW k \in Nat, k > 0, NameAt(part, k)
    PROVE  /\ Name(s, i + k - 1).ok /\ Name(s, i + k - 1).name = NameOf(part[k])
           /\ Name(s, i + k - 1).next = i + k
<1>. PICK j : j = i + k - 1
    OBVIOUS
<1>1. Len(s) \in Nat /\ i \in Nat /\ i > 0 /\ Len(part) \in Nat
    BY RestAt
<1>2. j \in Nat /\ j > 0 /\ j + 1 = i + k /\ i + (k + 1) - 1 = j + 1 /\ k + 1 \in Nat /\ k + 1 > 0
    BY ONLY <1>1, j = i + k - 1, k \in Nat, k > 0
<1>3. k <= Len(part) /\ OrdinaryName(part[k]) /\ ~PointAt(part, k + 1)
    BY DEF NameAt
<1>4. Says(At(s, j), part[k])
    BY <1>3, RestAt
<1>5. ~IsPunct(At(s, j + 1), ".")
    <2>1. IsPunct(At(s, i + (k + 1) - 1), ".") <=> k + 1 <= Len(part) /\ ThePunct(part[k + 1], ".")
        BY <1>2, RestSays
    <2>. QED BY <1>2, <1>3, <2>1 DEF PointAt
<1>6. Name(s, j).ok /\ Name(s, j).name = NameOf(part[k]) /\ Name(s, j).next = j + 1
    <2>1. Len(s) \in Nat /\ j \in Nat /\ j > 0 /\ OrdinaryName(part[k])
        BY <1>1, <1>2, <1>3
    <2>. QED BY ONLY <2>1, <1>4, <1>5, NameHere
<1>. QED BY <1>2, <1>6

\* From j on there is a type of m tokens, and then its end.
TypeUpTo(s, j, m) ==
    /\ Len(s) \in Nat /\ j \in Nat /\ j > 0 /\ m \in Nat /\ j + m - 1 <= Len(s)
    /\ \A l \in 1 .. m : ~EndsType(At(s, j + l - 1))
    /\ j + m <= Len(s) => EndsType(At(s, j + m))

\* The parser finds its end.
LEMMA TypeEndIs ==
    ASSUME NEW s, NEW j, NEW m, TypeUpTo(s, j, m)
    PROVE  TypeEnd(s, j) = j + m
<1>. PICK N : N = Len(s)
    OBVIOUS
<1>1. /\ N \in Nat /\ j \in Nat /\ j > 0 /\ m \in Nat /\ j + m - 1 <= N
      /\ \A l \in 1 .. m : ~EndsType(At(s, j + l - 1))
      /\ j + m <= N => EndsType(At(s, j + m))
    BY DEF TypeUpTo
<1>2. ASSUME NEW l \in Nat, l <= N PROVE At(s, l) = s[l]
    BY <1>2 DEF At
<1>. PICK S : S = {l \in j .. N : EndsType(s[l])}
    OBVIOUS
<1>3. S \subseteq Nat
    BY <1>1
<1>4. ASSUME NEW x \in S PROVE x >= j + m
    <2>1. x \in j .. N /\ EndsType(s[x])
        OBVIOUS
    <2>2. ASSUME x < j + m PROVE FALSE
        <3>. PICK l : l = x - j + 1
            OBVIOUS
        <3>1. l \in 1 .. m /\ j + l - 1 = x /\ x \in Nat /\ x <= N
            BY ONLY <1>1, <2>1, <2>2, l = x - j + 1
        <3>. QED BY <1>1, <1>2, <2>1, <3>1
    <2>. QED BY <1>1, <2>1, <2>2
<1>5. CASE j + m <= N
    <2>1. j + m \in j .. N /\ j + m \in Nat
        BY ONLY <1>1, <1>5
    <2>2. EndsType(s[j + m])
        BY <1>1, <1>2, <1>5, <2>1
    <2>3. j + m \in S
        BY <2>1, <2>2
    <2>4. Min(S) \in S /\ Min(S) <= j + m
        BY <1>3, <2>3, FirstOfSome
    <2>5. Min(S) \in Nat /\ Min(S) >= j + m
        BY <1>3, <1>4, <2>4
    <2>6. Min(S) = j + m /\ S # {} /\ j + m # 0
        BY <1>1, <2>3, <2>4, <2>5
    <2>7. SelectInSubSeq(s, j, N, EndsType) = Min(S)
        BY <2>6 DEF SelectInSubSeq
    <2>. QED BY <2>6, <2>7 DEF TypeEnd
<1>6. CASE ~(j + m <= N)
    <2>1. j + m = N + 1
        BY ONLY <1>1, <1>6
    <2>2. S = {}
        <3>1. \A x \in S : x <= N /\ x >= N + 1 /\ x \in Nat
            BY <1>3, <1>4, <2>1
        <3>. QED BY <1>1, <3>1
    <2>3. SelectInSubSeq(s, j, N, EndsType) = 0
        BY <2>2 DEF SelectInSubSeq
    <2>. QED BY <2>1, <2>3 DEF TypeEnd
<1>. QED BY <1>5, <1>6

-----------------------------------------------------------------------------
(* The text of a type.                                                       *)

\* The tokens of a statement follow each other in the text.
InText(s) ==
    /\ Len(s) \in Nat
    /\ \A j \in 1 .. Len(s) : /\ s[j].first \in Int /\ s[j].last \in Int
                              /\ 1 <= s[j].first /\ s[j].first <= s[j].last
    /\ \A j, l \in 1 .. Len(s) : j < l => s[j].last < s[l].first

\* A token that says one atom, and is not quoted, is that atom.
LEMMA OneAtom ==
    ASSUME NEW t, t.first \in Int, t.last \in Int, t.first <= t.last, t.kind \notin Quotation, NEW a,
           Content(t) = <<a>>
    PROVE  t.first = t.last /\ text[t.first] = a
<1>. PICK f : f = t.first
    OBVIOUS
<1>. PICK l : l = t.last
    OBVIOUS
<1>0. f \in Int /\ l \in Int /\ f <= l
    OBVIOUS
<1>1. SubSeq(text, f, l) = <<a>>
    BY DEF Content
<1>. PICK S : S = {text[q] : q \in f .. l}
    OBVIOUS
<1>2. \A q \in f .. l : text[q] \in S
    OBVIOUS
<1>3. /\ Len(SubSeq(text, f, l)) = IF f <= l THEN l - f + 1 ELSE 0
      /\ \A q \in 1 .. l - f + 1 : SubSeq(text, f, l)[q] = text[f + q - 1]
    BY <1>0, <1>2, SubSeqProperties
<1>4. \A x : Len(<<x>>) = 1 /\ <<x>>[1] = x
    OBVIOUS
<1>5. l - f + 1 = 1 /\ 1 \in 1 .. l - f + 1 /\ f + 1 - 1 = f
    <2>1. Len(SubSeq(text, f, l)) = 1
        BY <1>1, <1>4
    <2>. QED BY ONLY <1>0, <1>3, <2>1
<1>6. SubSeq(text, f, l)[1] = text[f]
    BY <1>3, <1>5
<1>7. text[f] = a /\ f = l
    BY ONLY <1>0, <1>1, <1>4, <1>5, <1>6
<1>. QED BY <1>7

\* What is between the first and the last token of a type is spelled with the
\* type, and something in between.
LEMMA TypeOfIs ==
    ASSUME NEW s, InText(s), NEW j \in Nat, j > 0, NEW type, OrdinaryType(type),
           NEW end, end = j + Len(type), end <= Len(s) + 1,
           \A k \in 1 .. Len(type) : /\ s[j + k - 1].kind \notin Quotation
                                     /\ Content(s[j + k - 1]) = <<type[k]>>
    PROVE  TypeOf(s, j, end) \in {TypeNamed[type], UnknownType}
<1>. PICK n : n = Len(type)
    OBVIOUS
<1>. PICK N : N = Len(s)
    OBVIOUS
<1>1. n \in Nat /\ n # 0 /\ DOMAIN type = 1 .. n
    <2>1. IsList(type) /\ type # <<>>
        BY DEF OrdinaryType
    <2>2. n \in Nat /\ DOMAIN type = 1 .. n /\ type \in Seq(ToSet(type))
        BY <2>1, TextFacts DEF IsList
    <2>3. n # 0
        BY <2>1, <2>2
    <2>. QED BY <2>2, <2>3
<1>2. N \in Nat /\ j + n <= N + 1
    BY DEF InText
<1>. PICK at : at = [k \in 1 .. n |-> s[j + k - 1].first]
    OBVIOUS
<1>3. ASSUME NEW k \in 1 .. n
      PROVE  /\ at[k] \in Int /\ 1 <= at[k] /\ text[at[k]] = type[k] /\ s[j + k - 1].last = at[k]
             /\ s[j + k - 1].first = at[k] /\ j + k - 1 \in 1 .. N
    <2>. PICK t : t = s[j + k - 1]
        OBVIOUS
    <2>1. j + k - 1 \in 1 .. N
        BY ONLY <1>1, <1>2, k \in 1 .. n, j \in Nat, j > 0
    <2>2. t.first \in Int /\ t.last \in Int /\ 1 <= t.first /\ t.first <= t.last
        BY <2>1 DEF InText
    <2>3. t.kind \notin Quotation /\ Content(t) = <<type[k]>>
        OBVIOUS
    <2>4. t.first = t.last /\ text[t.first] = type[k]
        BY <2>2, <2>3, OneAtom
    <2>. QED BY <2>1, <2>2, <2>4
<1>4. ASSUME NEW k \in 1 .. n, NEW l \in 1 .. n, k < l PROVE at[k] < at[l]
    <2>1. /\ j + k - 1 \in 1 .. N /\ j + l - 1 \in 1 .. N
          /\ s[j + k - 1].last = at[k] /\ s[j + l - 1].first = at[l]
        BY <1>3
    <2>2. j + k - 1 < j + l - 1
        BY ONLY <1>4, <1>1, j \in Nat
    <2>3. s[j + k - 1].last < s[j + l - 1].first
        BY <2>1, <2>2 DEF InText
    <2>. QED BY <2>1, <2>3
<1>. PICK f : f = at[1]
    OBVIOUS
<1>. PICK l : l = at[n]
    OBVIOUS
<1>5. /\ 1 \in 1 .. n /\ n \in 1 .. n /\ j + 1 - 1 = j /\ end - 1 = j + n - 1
      /\ f \in Int /\ l \in Int /\ f <= l /\ s[j].first = f /\ s[end - 1].last = l
    <2>1. 1 \in 1 .. n /\ n \in 1 .. n /\ j + 1 - 1 = j /\ end - 1 = j + n - 1
        BY <1>1
    <2>2. s[j + 1 - 1].first = f /\ s[j + n - 1].last = l /\ f \in Int /\ l \in Int
        BY <1>3, <2>1
    <2>3. f <= l
        <3>1. CASE n = 1
            BY <2>2, <3>1
        <3>2. CASE n # 1
            <4>1. 1 < n
                BY ONLY <1>1, <3>2
            <4>2. f < l
                BY <1>4, <2>1, <4>1
            <4>. QED BY ONLY <2>2, <4>2
        <3>. QED BY <3>1, <3>2
    <2>. QED BY <2>1, <2>2, <2>3
<1>6. ASSUME NEW k \in 1 .. n PROVE f <= at[k] /\ at[k] <= l
    <2>1. k = 1 \/ 1 < k
        BY <1>1
    <2>2. k = n \/ k < n
        BY <1>1
    <2>3. at[k] \in Int
        BY <1>3
    <2>4. k = 1 => f <= at[k]
        BY <2>3
    <2>5. 1 < k => f < at[k]
        BY <1>4, <1>5
    <2>6. k = n => at[k] <= l
        BY <2>3
    <2>7. k < n => at[k] < l
        BY <1>4, <1>5
    <2>. QED BY ONLY <1>5, <2>1, <2>2, <2>3, <2>4, <2>5, <2>6, <2>7
<1>. PICK spelling : spelling = SubSeq(text, f, l)
    OBVIOUS
<1>7. /\ DOMAIN spelling = 1 .. l - f + 1 /\ Len(spelling) = l - f + 1
      /\ \A q \in 1 .. l - f + 1 : spelling[q] = text[f + q - 1]
    <2>. PICK S : S = {text[q] : q \in f .. l}
        OBVIOUS
    <2>1. \A q \in f .. l : text[q] \in S
        OBVIOUS
    <2>0. f \in Int /\ l \in Int
        BY <1>5
    <2>2. /\ SubSeq(text, f, l) \in Seq(S) /\ Len(SubSeq(text, f, l)) = IF f <= l THEN l - f + 1 ELSE 0
          /\ \A q \in 1 .. l - f + 1 : SubSeq(text, f, l)[q] = text[f + q - 1]
        BY ONLY <2>0, <2>1, SubSeqProperties
    <2>3. spelling \in Seq(S) /\ Len(spelling) = l - f + 1
        BY <1>5, <2>2
    <2>4. DOMAIN spelling = 1 .. Len(spelling)
        BY <2>3, LenProperties
    <2>. QED BY <2>2, <2>3, <2>4
<1>. PICK g : g = [k \in 1 .. n |-> at[k] - f + 1]
    OBVIOUS
<1>8. ASSUME NEW k \in 1 .. n
      PROVE  g[k] \in 1 .. l - f + 1 /\ f + g[k] - 1 = at[k] /\ g[k] = at[k] - f + 1
    <2>1. at[k] \in Int /\ f <= at[k] /\ at[k] <= l /\ g[k] = at[k] - f + 1
        BY <1>3, <1>6
    <2>. QED BY ONLY <1>5, <2>1
<1>9. SpelledWithin(type, spelling)
    <2>1. g \in [DOMAIN type -> DOMAIN spelling]
        <3>1. \A k \in 1 .. n : g[k] \in 1 .. l - f + 1
            BY <1>8
        <3>. QED BY <1>1, <1>7, <3>1
    <2>2. g[1] = 1 /\ g[Len(type)] = Len(spelling)
        BY <1>5, <1>7, <1>8
    <2>3. ASSUME NEW k \in 1 .. n PROVE spelling[g[k]] = type[k]
        <3>1. spelling[g[k]] = text[f + g[k] - 1]
            BY <1>7, <1>8
        <3>2. f + g[k] - 1 = at[k]
            BY <1>8
        <3>3. text[at[k]] = type[k]
            BY <1>3
        <3>. QED BY ONLY <3>1, <3>2, <3>3
    <2>4. ASSUME NEW k \in 1 .. n, NEW q \in 1 .. n, k < q PROVE g[k] < g[q]
        <3>1. at[k] < at[q] /\ at[k] \in Int /\ at[q] \in Int
            BY <1>3, <1>4, <2>4
        <3>2. g[k] = at[k] - f + 1 /\ g[q] = at[q] - f + 1
            BY <1>8
        <3>. QED BY ONLY <1>5, <3>1, <3>2
    <2>5. \A k, q \in DOMAIN type : k < q => g[k] < g[q]
        BY <1>1, <2>4
    <2>6. \A k \in DOMAIN type : spelling[g[k]] = type[k]
        BY <1>1, <2>3
    <2>7. /\ g[1] = 1 /\ g[Len(type)] = Len(spelling)
          /\ \A k \in DOMAIN type : spelling[g[k]] = type[k]
          /\ \A k, q \in DOMAIN type : k < q => g[k] < g[q]
        BY ONLY <2>2, <2>5, <2>6
    <2>. QED BY ONLY <2>1, <2>7 DEF SpelledWithin
<1>10. spelling \in DOMAIN TypeNamed => TypeNamed[spelling] = TypeNamed[type]
    BY <1>9 DEF OrdinaryType
<1>11. TypeOf(s, j, end) = IF spelling \in DOMAIN TypeNamed THEN TypeNamed[spelling] ELSE UnknownType
    <2>1. SubSeq(text, s[j].first, s[end - 1].last) = spelling
        BY <1>5
    <2>. QED BY <2>1 DEF TypeOf
<1>. QED BY <1>10, <1>11

-----------------------------------------------------------------------------
(* The forms of a statement.                                                 *)

\* What is refused, or known not to be understood.
Vague(op) == op = Unclassified \/ op = Malformed \/ ~ValidOp(op)
\* The operation an action is.
Translates(op, table, a) ==
    LET is(kind) == [kind |-> kind, table |-> table, column |-> NameOf(a.column)]
        types == {TypeNamed[a.type], UnknownType}
    IN  CASE a.do = "add" ->
                \E type \in types :
                    op = [kind |-> "AddColumn", table |-> table, column |-> NameOf(a.column),
                          newType |-> type, nullable |-> ~a.notNull, default |-> a.default # <<>>]
          [] a.do = "drop" -> op = is("DropColumn")
          [] a.do = "rename" ->
                op = [kind |-> "RenameColumn", table |-> table, column |-> NameOf(a.column),
                      newColumn |-> NameOf(a.newColumn)]
          [] a.do = "type" ->
                \E type \in types :
                    op = [kind |-> "AlterColumnType", table |-> table, column |-> NameOf(a.column),
                          newType |-> type]
          [] a.do = "setNotNull" -> op = is("SetNotNull")
          [] a.do = "dropNotNull" -> op = is("DropNotNull")
          [] a.do = "other" -> Vague(op)

\* Some words in a row.
LEMMA KeywordsAre ==
    ASSUME NEW s, NEW i \in Nat
    PROVE  /\ \A x : Keywords(s, i, <<x>>) <=> IsKeyword(At(s, i), x)
           /\ \A x, y : Keywords(s, i, <<x, y>>)
                            <=> IsKeyword(At(s, i), x) /\ IsKeyword(At(s, i + 1), y)
           /\ \A x, y, z : Keywords(s, i, <<x, y, z>>)
                              <=> /\ IsKeyword(At(s, i), x) /\ IsKeyword(At(s, i + 1), y)
                                  /\ IsKeyword(At(s, i + 2), z)
<1>0. i + 1 - 1 = i /\ i + 2 - 1 = i + 1 /\ i + 3 - 1 = i + 2
    OBVIOUS
<1>1. ASSUME NEW x PROVE Keywords(s, i, <<x>>) <=> IsKeyword(At(s, i), x)
    <2>. PICK ws : ws = <<x>>
        OBVIOUS
    <2>1. DOMAIN ws = 1 .. 1 /\ ws[1] = x
        BY Lists
    <2>2. DOMAIN ws = {1}
        BY <2>1
    <2>. QED BY <1>0, <2>1, <2>2 DEF Keywords
<1>2. ASSUME NEW x, NEW y
      PROVE  Keywords(s, i, <<x, y>>) <=> IsKeyword(At(s, i), x) /\ IsKeyword(At(s, i + 1), y)
    <2>. PICK ws : ws = <<x, y>>
        OBVIOUS
    <2>1. DOMAIN ws = 1 .. 2 /\ ws[1] = x /\ ws[2] = y
        BY Lists
    <2>2. DOMAIN ws = {1, 2}
        BY <2>1
    <2>. QED BY <1>0, <2>1, <2>2 DEF Keywords
<1>3. ASSUME NEW x, NEW y, NEW z
      PROVE  Keywords(s, i, <<x, y, z>>)
                <=> /\ IsKeyword(At(s, i), x) /\ IsKeyword(At(s, i + 1), y)
                    /\ IsKeyword(At(s, i + 2), z)
    <2>. PICK ws : ws = <<x, y, z>>
        OBVIOUS
    <2>1. DOMAIN ws = 1 .. 3 /\ ws[1] = x /\ ws[2] = y /\ ws[3] = z
        BY Lists
    <2>2. DOMAIN ws = {1, 2, 3}
        BY <2>1
    <2>. QED BY <1>0, <2>1, <2>2 DEF Keywords
<1>. QED BY <1>1, <1>2, <1>3

\* The optional clauses.
LEMMA ClausesAre ==
    ASSUME NEW s, NEW i \in Nat
    PROVE  /\ Optional(s, i, <<"COLUMN">>) = IF IsKeyword(At(s, i), "COLUMN") THEN i + 1 ELSE i
           /\ Optional(s, i, IfExists) =
                IF IsKeyword(At(s, i), "IF") /\ IsKeyword(At(s, i + 1), "EXISTS") THEN i + 2 ELSE i
           /\ HalfClause(s, i, IfExists)
                <=> IsKeyword(At(s, i), "IF") /\ ~IsKeyword(At(s, i + 1), "EXISTS")
           /\ Optional(s, i, IfNotExists) =
                IF /\ IsKeyword(At(s, i), "IF") /\ IsKeyword(At(s, i + 1), "NOT")
                   /\ IsKeyword(At(s, i + 2), "EXISTS")
                THEN i + 3 ELSE i
           /\ HalfClause(s, i, IfNotExists)
                <=> /\ IsKeyword(At(s, i), "IF")
                    /\ ~(IsKeyword(At(s, i + 1), "NOT") /\ IsKeyword(At(s, i + 2), "EXISTS"))
           /\ Optional(s, i, NotNull) =
                IF IsKeyword(At(s, i), "NOT") /\ IsKeyword(At(s, i + 1), "NULL") THEN i + 2 ELSE i
           /\ HalfClause(s, i, NotNull)
                <=> IsKeyword(At(s, i), "NOT") /\ ~IsKeyword(At(s, i + 1), "NULL")
<1>1. ASSUME NEW x
      PROVE  Optional(s, i, <<x>>) = IF IsKeyword(At(s, i), x) THEN i + 1 ELSE i
    <2>1. Keywords(s, i, <<x>>) <=> IsKeyword(At(s, i), x)
        BY KeywordsAre
    <2>2. Len(<<x>>) = 1
        BY Lists
    <2>. QED BY <2>1, <2>2 DEF Optional
<1>2. ASSUME NEW x, NEW y
      PROVE  /\ Optional(s, i, <<x, y>>)
                    = IF IsKeyword(At(s, i), x) /\ IsKeyword(At(s, i + 1), y) THEN i + 2 ELSE i
             /\ HalfClause(s, i, <<x, y>>) <=> IsKeyword(At(s, i), x) /\ ~IsKeyword(At(s, i + 1), y)
    <2>1. Keywords(s, i, <<x, y>>) <=> IsKeyword(At(s, i), x) /\ IsKeyword(At(s, i + 1), y)
        BY KeywordsAre
    <2>2. Len(<<x, y>>) = 2 /\ <<x, y>>[1] = x
        BY Lists
    <2>. QED BY <2>1, <2>2 DEF Optional, HalfClause
<1>3. ASSUME NEW x, NEW y, NEW z
      PROVE  /\ Optional(s, i, <<x, y, z>>)
                    = IF /\ IsKeyword(At(s, i), x) /\ IsKeyword(At(s, i + 1), y)
                         /\ IsKeyword(At(s, i + 2), z)
                      THEN i + 3 ELSE i
             /\ HalfClause(s, i, <<x, y, z>>)
                    <=> /\ IsKeyword(At(s, i), x)
                        /\ ~(IsKeyword(At(s, i + 1), y) /\ IsKeyword(At(s, i + 2), z))
    <2>1. Keywords(s, i, <<x, y, z>>)
            <=> /\ IsKeyword(At(s, i), x) /\ IsKeyword(At(s, i + 1), y)
                /\ IsKeyword(At(s, i + 2), z)
        BY KeywordsAre
    <2>2. Len(<<x, y, z>>) = 3 /\ <<x, y, z>>[1] = x
        BY Lists
    <2>. QED BY <2>1, <2>2 DEF Optional, HalfClause
<1>. QED BY <1>1, <1>2, <1>3 DEF IfExists, IfNotExists, NotNull

\* What a token that is written says: a word, and an ordinary name.
LEMMA WordSays ==
    ASSUME NEW t, NEW w, Says(t, Word(w))
    PROVE  (\A v : IsKeyword(t, v) <=> v = w) /\ (\A p : ~IsPunct(t, p))
<1>1. t.kind = "ident" /\ Content(t) = <<w>>
    BY DEF Says, Word, Written
<1>2. ASSUME NEW v PROVE IsKeyword(t, v) <=> v = w
    <2>1. <<v>> = <<w>> <=> v = w
        OBVIOUS
    <2>. QED BY <1>1, <2>1 DEF IsKeyword
<1>. QED BY <1>1, <1>2 DEF IsPunct

\* No word that is reserved is read for an ordinary name.
LEMMA NameSays ==
    ASSUME NEW t, NEW u, OrdinaryName(u), Says(t, u)
    PROVE  (\A w \in Reserved : ~IsKeyword(t, w)) /\ (\A p : ~IsPunct(t, p))
<1>1. t.kind = u.kind /\ Content(t) = u.atoms /\ u.atoms = <<u.atoms[1]>> /\ IsNamePart(u)
      /\ (u.kind = "ident" => u.atoms[1] \notin Reserved)
    BY DEF Says, OrdinaryName
<1>2. ASSUME NEW w \in Reserved, IsKeyword(t, w) PROVE FALSE
    <2>1. <<w>> = <<u.atoms[1]>> /\ u.kind = "ident"
        BY <1>1, <1>2 DEF IsKeyword
    <2>2. w = u.atoms[1]
        BY ONLY <2>1
    <2>. QED BY <1>1, <2>1, <2>2
<1>3. \A p : ~IsPunct(t, p)
    BY <1>1 DEF IsPunct, IsNamePart
<1>. QED BY <1>2, <1>3
\* There is nothing after the end.
LEMMA EndSays ==
    ASSUME NEW s, NEW i \in Nat, Len(s) \in Nat, i > Len(s)
    PROVE  /\ \A w : ~IsKeyword(At(s, i), w)
           /\ \A p : ~IsPunct(At(s, i), p)
           /\ ~IsNamePart(At(s, i))
<1>1. At(s, i).kind = "end"
    BY DEF At
<1>. QED BY <1>1 DEF IsKeyword, IsPunct, IsNamePart

\* Nothing.
LEMMA ReadNone ==
    ASSUME NEW s, NEW i, NEW after, Read(s, i, <<>>, after)
    PROVE  after = i
<1>. PICK e : e = <<>>
    OBVIOUS
<1>1. Len(e) = 0 /\ Read(s, i, e, after)
    OBVIOUS
<1>2. after = i + 0 /\ i \in Nat
    BY <1>1 DEF Read
<1>. QED BY <1>2

\* A function on the first naturals is a sequence.
LEMMA FunctionsAreSeqs ==
    \A R : \A m \in Nat : \A f \in [1 .. m -> R] : f \in Seq(R) /\ Len(f) = m
OBVIOUS

\* The tokens of a type.
LEMMA TypeTokensAre ==
    ASSUME NEW type, OrdinaryType(type)
    PROVE  /\ IsList(TypeTokens(type)) /\ Len(TypeTokens(type)) = Len(type) /\ Len(type) \in Nat
           /\ Len(type) > 0
           /\ TypeTokens(type)[1].kind = "ident"
           /\ \A k \in 1 .. Len(type) : /\ TypeTokens(type)[k].kind \notin Quotation
                                        /\ TypeTokens(type)[k].atoms = <<type[k]>>
           /\ \A k \in 1 .. Len(type) : \A t : Says(t, TypeTokens(type)[k]) => ~EndsType(t)
<1>. PICK n : n = Len(type)
    OBVIOUS
<1>1. n \in Nat /\ n > 0 /\ DOMAIN type = 1 .. n
    <2>1. IsList(type) /\ type # <<>>
        BY DEF OrdinaryType
    <2>2. n \in Nat /\ DOMAIN type = 1 .. n /\ type \in Seq(ToSet(type))
        BY <2>1, TextFacts DEF IsList
    <2>3. n # 0
        BY <2>1, <2>2
    <2>. QED BY <2>2, <2>3
<1> DEFINE kind(x) == CASE x \in Words -> "ident" [] x \in Digits -> "number" [] OTHER -> "punct"
<1>. PICK p : p = [k \in 1 .. n |-> Written(kind(type[k]), <<type[k]>>)]
    OBVIOUS
<1>2. TypeTokens(type) = p
    BY <1>1 DEF TypeTokens
<1>3. IsList(p) /\ Len(p) = n
    <2>. PICK R : R = {p[k] : k \in 1 .. n}
        OBVIOUS
    <2>1. p \in [1 .. n -> R]
        OBVIOUS
    <2>2. p \in Seq(R) /\ Len(p) = n
        BY ONLY <1>1, <2>1, FunctionsAreSeqs
    <2>. QED BY <2>2, SeqIsList
<1>4. ASSUME NEW x PROVE kind(x) \notin Quotation /\ (x \in Words => kind(x) = "ident")
    <2>1. kind(x) \in {"ident", "number", "punct"}
        OBVIOUS
    <2>2. x \in Words => kind(x) = "ident"
        BY AtomsAssumption
    <2>. QED BY <2>1, <2>2 DEF Quotation
<1>5. ASSUME NEW k \in 1 .. n PROVE p[k].kind = kind(type[k]) /\ p[k].atoms = <<type[k]>>
    BY DEF Written
<1> HIDE DEF kind
<1>6. 1 \in 1 .. n /\ p[1].kind = "ident"
    <2>1. type[1] \in Words
        BY DEF OrdinaryType
    <2>. QED BY <1>1, <1>4, <1>5, <2>1
<1>7. ASSUME NEW k \in 1 .. n, NEW t, Says(t, p[k]) PROVE ~EndsType(t)
    <2>1. Content(t) = <<type[k]>>
        BY <1>5, <1>7 DEF Says
    <2>2. type[k] \notin {"NOT", "DEFAULT", "USING"}
        <3>1. type[k] \in ToSet(type)
            BY <1>1 DEF ToSet
        <3>. QED BY <3>1 DEF OrdinaryType
    <2>3. ASSUME NEW w, IsKeyword(t, w) PROVE w = type[k]
        <3>1. <<w>> = <<type[k]>>
            BY <2>1, <2>3 DEF IsKeyword
        <3>. QED BY ONLY <3>1
    <2>. QED BY <2>2, <2>3 DEF EndsType
<1>8. \A k \in 1 .. n : p[k].kind \notin Quotation /\ p[k].atoms = <<type[k]>>
    BY <1>4, <1>5
<1>. QED BY <1>1, <1>2, <1>3, <1>6, <1>7, <1>8

\* A type that is written is read up to its end, and known for what it is or not
\* known.
LEMMA TypeRead ==
    ASSUME NEW s, InText(s), NEW i, NEW type, OrdinaryType(type), NEW end,
           Read(s, i, TypeTokens(type), end), end <= Len(s) => EndsType(At(s, end))
    PROVE  /\ TypeEnd(s, i) = end /\ i \in Nat /\ i > 0 /\ end \in Nat /\ end > i
           /\ ~IsPunct(At(s, i), ".")
           /\ TypeOf(s, i, end) \in {TypeNamed[type], UnknownType}
<1>. PICK p : p = TypeTokens(type)
    OBVIOUS
<1>. PICK n : n = Len(type)
    OBVIOUS
<1>. PICK N : N = Len(s)
    OBVIOUS
<1>1. /\ n \in Nat /\ n > 0 /\ Len(p) = n /\ p[1].kind = "ident"
      /\ \A k \in 1 .. n : p[k].kind \notin Quotation /\ p[k].atoms = <<type[k]>>
      /\ \A k \in 1 .. n : \A t : Says(t, p[k]) => ~EndsType(t)
    BY TypeTokensAre
<1>2. /\ N \in Nat /\ i \in Nat /\ i > 0 /\ end \in Nat /\ end <= N + 1 /\ end = i + n
      /\ \A j \in 1 .. n : Says(s[i + j - 1], p[j])
    BY <1>1 DEF Read
<1>3. ASSUME NEW j \in 1 .. n PROVE At(s, i + j - 1) = s[i + j - 1] /\ Says(At(s, i + j - 1), p[j])
    <2>1. i + j - 1 <= N
        BY ONLY <1>1, <1>2, j \in 1 .. n
    <2>2. At(s, i + j - 1) = s[i + j - 1]
        BY <2>1 DEF At
    <2>. QED BY <1>2, <2>2
<1>4. TypeUpTo(s, i, n)
    <2>1. i + n - 1 <= N
        BY ONLY <1>1, <1>2
    <2>2. \A j \in 1 .. n : ~EndsType(At(s, i + j - 1))
        BY <1>1, <1>3
    <2>. QED BY <1>1, <1>2, <2>1, <2>2 DEF TypeUpTo
<1>5. TypeEnd(s, i) = end
    BY <1>2, <1>4, TypeEndIs
<1>6. ~IsPunct(At(s, i), ".")
    <2>1. 1 \in 1 .. n /\ i + 1 - 1 = i
        BY <1>1, <1>2
    <2>2. Says(At(s, i), p[1])
        BY <1>3, <2>1
    <2>. QED BY <1>1, <2>2 DEF Says, IsPunct
<1>7. \A k \in 1 .. n : s[i + k - 1].kind \notin Quotation /\ Content(s[i + k - 1]) = <<type[k]>>
    BY <1>1, <1>2 DEF Says
<1>8. TypeOf(s, i, end) \in {TypeNamed[type], UnknownType}
    <2>1. i \in Nat /\ i > 0 /\ end = i + Len(type) /\ end <= Len(s) + 1
        BY <1>2
    <2>2. \A k \in 1 .. Len(type) : /\ s[i + k - 1].kind \notin Quotation
                                    /\ Content(s[i + k - 1]) = <<type[k]>>
        BY <1>7
    <2>. QED BY <2>1, <2>2, TypeOfIs
<1>. QED BY <1>1, <1>2, <1>5, <1>6, <1>8

\* DROP COLUMN.
LEMMA DropRead ==
    ASSUME NEW s, NEW i, NEW table, NEW a, a.do = "drop", a.ifClause \in BOOLEAN, OrdinaryAction(a),
           Rest(s, i, ActionTokens(a))
    PROVE  Translates(AlterTable(s, table, i), table, a)
<1>. PICK N : N = Len(s)
    OBVIOUS
<1>. PICK col : col = a.column
    OBVIOUS
<1> DEFINE head == Phrase(<<"DROP", "COLUMN">>)
           clause == When(a.ifClause, Phrase(IfExists))
<1>1. OrdinaryName(col)
    BY DEF OrdinaryAction
<1>2. IsList(head) /\ IsList(clause) /\ IsList(<<col>>) /\ IsList(head \o clause)
    <2>1. IsList(<<"DROP", "COLUMN">>) /\ IsList(<<"IF", "EXISTS">>) /\ IsList(<<col>>)
        BY Lists
    <2>2. IsList(head) /\ IsList(Phrase(IfExists))
        BY <2>1, PhraseList DEF IfExists
    <2>3. IsList(clause)
        BY <2>2, WhenList
    <2> HIDE DEF head, clause
    <2>. QED BY <2>1, <2>2, <2>3, CatFacts
<1>3. Read(s, i, (head \o clause) \o <<col>>, N + 1)
    BY DEF Rest, ActionTokens
<1> HIDE DEF head, clause
<1>4. PICK m : Read(s, i, head \o clause, m) /\ Read(s, m, <<col>>, N + 1)
    BY <1>2, <1>3, ReadCat
<1>5. PICK l : Read(s, i, head, l) /\ Read(s, l, clause, m)
    BY <1>2, <1>4, ReadCat
<1>6. Keywords(s, i, <<"DROP", "COLUMN">>) /\ l = i + 2
    <2>1. IsList(<<"DROP", "COLUMN">>) /\ Len(<<"DROP", "COLUMN">>) = 2
        BY Lists
    <2>. QED BY <1>5, <2>1, ReadWords DEF head
<1>7. /\ N + 1 = m + 1 /\ m \in Nat /\ m > 0 /\ m <= N /\ N \in Nat /\ Says(At(s, m), col)
    BY <1>4, ReadOne
<1>8. ~IsPunct(At(s, m + 1), ".") /\ m = N
    <2>1. m + 1 \in Nat /\ m + 1 > N /\ m = N
        BY <1>7
    <2>. QED BY <1>7, <2>1, EndSays
<1>9. Name(s, m).ok /\ Name(s, m).name = NameOf(col)
    BY <1>1, <1>7, <1>8, NameHere
<1>10. i \in Nat /\ i + 1 \in Nat /\ i + 1 + 1 = l /\ l \in Nat
    <2>1. i \in Nat
        BY <1>5 DEF Read
    <2>. QED BY <1>6, <2>1
<1>11. IsKeyword(At(s, i), "DROP") /\ IsKeyword(At(s, i + 1), "COLUMN")
    BY <1>6, <1>10, KeywordsAre
<1>12. Optional(s, l, IfExists) = m /\ ~HalfClause(s, l, IfExists)
    <2>1. CASE a.ifClause
        <3>1. clause = Phrase(<<"IF", "EXISTS">>)
            BY <2>1 DEF clause, When, IfExists
        <3>2. IsList(<<"IF", "EXISTS">>) /\ Len(<<"IF", "EXISTS">>) = 2
            BY Lists
        <3>3. Keywords(s, l, <<"IF", "EXISTS">>) /\ m = l + 2
            BY <1>5, <3>1, <3>2, ReadWords
        <3>4. IsKeyword(At(s, l), "IF") /\ IsKeyword(At(s, l + 1), "EXISTS")
            BY <1>10, <3>3, KeywordsAre
        <3>. QED BY <1>10, <3>3, <3>4, ClausesAre
    <2>2. CASE ~a.ifClause
        <3>0. clause = <<>>
            BY <2>2 DEF clause, When
        <3>1. m = l
            BY <1>5, <3>0, ReadNone
        <3>2. ~IsKeyword(At(s, l), "IF")
            BY <1>1, <1>7, <3>1, NameSays DEF Reserved
        <3>. QED BY <1>10, <3>1, <3>2, ClausesAre
    <2>. QED BY <2>1, <2>2
<1>13. ParseDropColumn(s, table, i + 1)
            = [kind |-> "DropColumn", table |-> table, column |-> NameOf(col)]
    <2>1. Keywords(s, i + 1, <<"COLUMN">>)
        BY <1>10, <1>11, KeywordsAre
    <2>. QED BY <1>9, <1>10, <1>12, <2>1 DEF ParseDropColumn
<1>14. AlterTable(s, table, i) = ParseDropColumn(s, table, i + 1)
    <2>1. Keywords(s, i, <<"DROP">>) /\ ~Keywords(s, i, <<"ADD">>) /\ ~Keywords(s, i, <<"RENAME">>)
          /\ ~Keywords(s, i, <<"ALTER">>)
        BY <1>10, <1>11, KeywordsAre, OneWord
    <2>. QED BY <2>1 DEF AlterTable
<1>. QED BY <1>13, <1>14 DEF Translates

\* RENAME COLUMN.
LEMMA RenameRead ==
    ASSUME NEW s, NEW i, NEW table, NEW a, a.do = "rename", OrdinaryAction(a),
           Rest(s, i, ActionTokens(a))
    PROVE  Translates(AlterTable(s, table, i), table, a)
<1>. PICK N : N = Len(s)
    OBVIOUS
<1>. PICK col : col = a.column
    OBVIOUS
<1>. PICK new : new = a.newColumn
    OBVIOUS
<1>. PICK to : to = Word("TO")
    OBVIOUS
<1>. PICK head : head = Phrase(<<"RENAME", "COLUMN">>)
    OBVIOUS
<1>. PICK tail : tail = <<col, to, new>>
    OBVIOUS
<1>1. OrdinaryName(col) /\ OrdinaryName(new)
    BY DEF OrdinaryAction
<1>2. IsList(head) /\ IsList(tail) /\ Len(tail) = 3 /\ tail[1] = col /\ tail[2] = to /\ tail[3] = new
    <2>1. IsList(<<"RENAME", "COLUMN">>)
        BY Lists
    <2>. QED BY <2>1, Lists, PhraseList
<1>3. Read(s, i, head \o tail, N + 1)
    BY DEF Rest, ActionTokens
<1>4. PICK m : Read(s, i, head, m) /\ Read(s, m, tail, N + 1)
    BY <1>2, <1>3, ReadCat
<1>5. Keywords(s, i, <<"RENAME", "COLUMN">>) /\ m = i + 2
    <2>1. IsList(<<"RENAME", "COLUMN">>) /\ Len(<<"RENAME", "COLUMN">>) = 2
        BY Lists
    <2>. QED BY <1>4, <2>1, ReadWords
<1>6. /\ N \in Nat /\ m \in Nat /\ m > 0 /\ m + 2 = N /\ i \in Nat /\ i + 1 \in Nat /\ i + 1 + 1 = m
      /\ \A k \in 1 .. 3 : Says(s[m + k - 1], tail[k])
    <2>1. /\ N \in Nat /\ m \in Nat /\ m > 0 /\ N + 1 = m + 3
          /\ \A k \in 1 .. 3 : Says(s[m + k - 1], tail[k])
        BY <1>2, <1>4 DEF Read
    <2>2. i \in Nat
        BY <1>4 DEF Read
    <2>. QED BY <1>5, <2>1, <2>2
<1>7. Says(At(s, m), col) /\ Says(At(s, m + 1), to) /\ Says(At(s, m + 2), new)
    <2>1. 1 \in 1 .. 3 /\ 2 \in 1 .. 3 /\ 3 \in 1 .. 3
        OBVIOUS
    <2>2. m + 1 - 1 = m /\ m + 2 - 1 = m + 1 /\ m + 3 - 1 = m + 2
        BY <1>6
    <2>3. Says(s[m], col) /\ Says(s[m + 1], to) /\ Says(s[m + 2], new)
        BY <1>2, <1>6, <2>1, <2>2
    <2>4. m <= N /\ m + 1 <= N /\ m + 2 <= N
        BY <1>6
    <2>. QED BY <2>3, <2>4 DEF At
<1>8. (\A v : IsKeyword(At(s, m + 1), v) <=> v = "TO") /\ (\A p : ~IsPunct(At(s, m + 1), p))
    BY <1>7, WordSays
<1>9. \A p : ~IsPunct(At(s, m + 3), p)
    <2>1. m + 3 \in Nat /\ m + 3 > N
        BY <1>6
    <2>. QED BY <1>6, <2>1, EndSays
<1>10. Name(s, m).ok /\ Name(s, m).name = NameOf(col) /\ Name(s, m).next = m + 1
    BY <1>1, <1>6, <1>7, <1>8, NameHere
<1>11. Name(s, m + 2).ok /\ Name(s, m + 2).name = NameOf(new)
    <2>1. m + 2 \in Nat /\ m + 2 > 0 /\ m + 2 + 1 = m + 3
        BY <1>6
    <2>. QED BY <1>1, <1>6, <1>7, <1>9, <2>1, NameHere
<1>12. IsKeyword(At(s, i), "RENAME") /\ IsKeyword(At(s, i + 1), "COLUMN")
    BY <1>5, <1>6, KeywordsAre
<1>13. ParseRenameColumn(s, table, i + 1)
            = [kind |-> "RenameColumn", table |-> table, column |-> NameOf(col),
               newColumn |-> NameOf(new)]
    <2>1. Keywords(s, i + 1, <<"COLUMN">>)
        BY <1>6, <1>12, KeywordsAre
    <2>2. Keywords(s, m + 1, <<"TO">>)
        <3>1. m + 1 \in Nat
            BY <1>6
        <3>. QED BY <1>8, <3>1, KeywordsAre
    <2>3. m + 1 + 1 = m + 2
        BY <1>6
    <2>. QED BY <1>6, <1>10, <1>11, <2>1, <2>2, <2>3 DEF ParseRenameColumn
<1>14. AlterTable(s, table, i) = ParseRenameColumn(s, table, i + 1)
    <2>1. Keywords(s, i, <<"RENAME">>) /\ ~Keywords(s, i, <<"ADD">>) /\ ~Keywords(s, i, <<"DROP">>)
          /\ ~Keywords(s, i, <<"ALTER">>)
        BY <1>6, <1>12, KeywordsAre, OneWord
    <2>. QED BY <2>1 DEF AlterTable
<1>. QED BY <1>13, <1>14 DEF Translates

-----------------------------------------------------------------------------
(* ALTER [COLUMN] and ADD [COLUMN].                                          *)

\* COLUMN may be left out where no such word follows.
LEMMA ColumnClause ==
    ASSUME NEW s, NEW i, NEW part, NEW m, Read(s, i, part, m),
           part = Phrase(<<"COLUMN">>) \/ part = <<>>, ~IsKeyword(At(s, m), "COLUMN")
    PROVE  /\ i \in Nat /\ m \in Nat /\ Optional(s, i, <<"COLUMN">>) = m
           /\ IsKeyword(At(s, i), "COLUMN") <=> part # <<>>
           /\ part # <<>> => m = i + 1
           /\ part = <<>> => m = i
<1>1. i \in Nat /\ m \in Nat
    BY DEF Read
<1>2. CASE part = Phrase(<<"COLUMN">>)
    <2>1. IsList(<<"COLUMN">>) /\ Len(<<"COLUMN">>) = 1
        BY Lists
    <2>2. Keywords(s, i, <<"COLUMN">>) /\ m = i + 1
        BY <1>2, <2>1, ReadWords
    <2>3. part # <<>>
        <3>1. Len(part) = 1
            BY <1>2, <2>1, PhraseList
        <3>. QED BY <3>1
    <2>4. IsKeyword(At(s, i), "COLUMN")
        BY <1>1, <2>2, KeywordsAre
    <2>. QED BY <1>1, <2>2, <2>3, <2>4, ClausesAre
<1>3. CASE part = <<>>
    <2>1. m = i
        BY <1>3, ReadNone
    <2>. QED BY <1>1, <1>3, <2>1, ClausesAre
<1>. QED BY <1>2, <1>3

\* What an altered column's name is followed by.
LEMMA AlterRead ==
    ASSUME NEW s, NEW i, NEW table, Keywords(s, i, <<"ALTER">>), i \in Nat,
           NEW part, part = Phrase(<<"COLUMN">>) \/ part = <<>>,
           NEW m, Read(s, i + 1, part, m), NEW col, OrdinaryName(col), NEW l, Read(s, m, <<col>>, l),
           ~IsPunct(At(s, l), ".")
    PROVE  AlterTable(s, table, i) = AlterNamed(s, table, NameOf(col), l) /\ l \in Nat /\ l > 0
<1>1. /\ l = m + 1 /\ m \in Nat /\ m > 0 /\ Len(s) \in Nat /\ Says(At(s, m), col)
    BY ReadOne
<1>2. Name(s, m).ok /\ Name(s, m).name = NameOf(col) /\ Name(s, m).next = l
    BY <1>1, NameHere
<1>3. ~IsKeyword(At(s, m), "COLUMN")
    BY <1>1, NameSays DEF Reserved
<1>4. Optional(s, i + 1, <<"COLUMN">>) = m
    BY <1>3, ColumnClause
<1>5. AlterTable(s, table, i) = ParseAlterColumn(s, table, i + 1)
    <2>1. /\ ~Keywords(s, i, <<"ADD">>) /\ ~Keywords(s, i, <<"DROP">>)
          /\ ~Keywords(s, i, <<"RENAME">>)
        <3>1. IsKeyword(At(s, i), "ALTER")
            BY KeywordsAre
        <3>2. /\ ~IsKeyword(At(s, i), "ADD") /\ ~IsKeyword(At(s, i), "DROP")
              /\ ~IsKeyword(At(s, i), "RENAME")
            BY <3>1, OneWord
        <3>. QED BY <3>2, KeywordsAre
    <2>. QED BY <2>1 DEF AlterTable
<1>6. ParseAlterColumn(s, table, i + 1) = AlterNamed(s, table, NameOf(col), l)
    BY <1>2, <1>4 DEF ParseAlterColumn
<1>. QED BY <1>1, <1>5, <1>6

\* A word and two more are three.
LEMMA ThreeWords == \A x, y, z : <<x>> \o <<y, z>> = <<x, y, z>>
<1>1. ASSUME NEW x, NEW y, NEW z PROVE <<x>> \o <<y, z>> = <<x, y, z>>
    <2>. PICK a : a = <<x>>
        OBVIOUS
    <2>. PICK b : b = <<y, z>>
        OBVIOUS
    <2>. PICK c : c = a \o b
        OBVIOUS
    <2>. PICK d : d = <<x, y, z>>
        OBVIOUS
    <2>. PICK S : S = {x, y, z}
        OBVIOUS
    <2>1. /\ a \in Seq(S) /\ b \in Seq(S) /\ d \in Seq(S) /\ Len(a) = 1 /\ Len(b) = 2 /\ Len(d) = 3
          /\ a[1] = x /\ b[1] = y /\ b[2] = z /\ d[1] = x /\ d[2] = y /\ d[3] = z
        OBVIOUS
    <2>2. /\ c \in Seq(S) /\ Len(c) = 1 + 2
          /\ \A k \in 1 .. 1 + 2 : c[k] = IF k <= 1 THEN a[k] ELSE b[k - 1]
        <3>1. /\ c \in Seq(S) /\ Len(c) = Len(a) + Len(b)
              /\ \A k \in 1 .. Len(a) + Len(b) : c[k] = IF k <= Len(a) THEN a[k] ELSE b[k - Len(a)]
            BY ONLY <2>1, c = a \o b, ConcatProperties
        <3>. QED BY ONLY <2>1, <3>1
    <2>3. 1 \in 1 .. 3 /\ 2 \in 1 .. 3 /\ 3 \in 1 .. 3 /\ (\A k \in 1 .. 3 : k = 1 \/ k = 2 \/ k = 3)
        OBVIOUS
    <2>4. 2 - 1 = 1 /\ 3 - 1 = 2 /\ 1 + 2 = 3 /\ 1 <= 1 /\ ~(2 <= 1) /\ ~(3 <= 1)
        OBVIOUS
    <2>5. c[1] = d[1] /\ c[2] = d[2] /\ c[3] = d[3]
        BY ONLY <2>1, <2>2, <2>3, <2>4
    <2>6. \A k \in 1 .. 3 : c[k] = d[k]
        BY ONLY <2>3, <2>5
    <2>7. c \in Seq(S) /\ d \in Seq(S) /\ Len(c) = Len(d) /\ \A k \in 1 .. Len(c) : c[k] = d[k]
        BY ONLY <2>1, <2>2, <2>4, <2>6
    <2>8. c = d
        BY ONLY <2>7, SeqEqual
    <2>. QED BY ONLY <2>8, a = <<x>>, b = <<y, z>>, c = a \o b, d = <<x, y, z>>
<1>. QED BY <1>1

\* ALTER COLUMN ... SET or DROP NOT NULL.
LEMMA NullabilityRead ==
    ASSUME NEW s, NEW i, NEW table, NEW a, a.do \in {"setNotNull", "dropNotNull"}, OrdinaryAction(a),
           Rest(s, i, ActionTokens(a))
    PROVE  Translates(AlterTable(s, table, i), table, a)
<1>. PICK N : N = Len(s)
    OBVIOUS
<1>. PICK col : col = a.column
    OBVIOUS
<1>. PICK verb : verb = IF a.do = "setNotNull" THEN "SET" ELSE "DROP"
    OBVIOUS
<1>. PICK v : v = <<Word("ALTER")>>
    OBVIOUS
<1>. PICK part : part = When(a.explicit, Phrase(<<"COLUMN">>))
    OBVIOUS
<1>. PICK w : w = <<Word(verb)>>
    OBVIOUS
<1>. PICK nn : nn = Phrase(<<"NOT", "NULL">>)
    OBVIOUS
<1>1. OrdinaryName(col)
    BY DEF OrdinaryAction
<1>2. part = Phrase(<<"COLUMN">>) \/ part = <<>>
    BY DEF When
<1>3. /\ IsList(v) /\ IsList(part) /\ IsList(<<col>>) /\ IsList(w) /\ IsList(nn)
      /\ IsList(v \o part) /\ IsList((v \o part) \o <<col>>)
      /\ IsList(((v \o part) \o <<col>>) \o w)
    <2>1. IsList(<<"COLUMN">>) /\ IsList(<<"NOT", "NULL">>)
        BY Lists
    <2>2. IsList(v) /\ IsList(<<col>>) /\ IsList(w) /\ IsList(<<>>)
        BY Lists
    <2>3. IsList(part) /\ IsList(nn)
        BY <1>2, <2>1, <2>2, PhraseList
    <2>. QED BY <2>2, <2>3, CatFacts
<1>4. Read(s, i, (((v \o part) \o <<col>>) \o w) \o nn, N + 1)
    BY DEF Rest, ActionTokens, NotNull
<1>5. PICK k : Read(s, i, ((v \o part) \o <<col>>) \o w, k) /\ Read(s, k, nn, N + 1)
    BY <1>3, <1>4, ReadCat
<1>6. PICK l : Read(s, i, (v \o part) \o <<col>>, l) /\ Read(s, l, w, k)
    BY <1>3, <1>5, ReadCat
<1>7. PICK m : Read(s, i, v \o part, m) /\ Read(s, m, <<col>>, l)
    BY <1>3, <1>6, ReadCat
<1>8. PICK j : Read(s, i, v, j) /\ Read(s, j, part, m)
    BY <1>3, <1>7, ReadCat
<1>9. Keywords(s, i, <<"ALTER">>) /\ j = i + 1 /\ i \in Nat
    <2>1. j = i + 1 /\ i \in Nat /\ Says(At(s, i), Word("ALTER"))
        BY <1>8, ReadOne
    <2>2. IsKeyword(At(s, i), "ALTER")
        BY <2>1, WordSays
    <2>. QED BY <2>1, <2>2, KeywordsAre
<1>10. /\ k = l + 1 /\ l \in Nat /\ (\A x : IsKeyword(At(s, l), x) <=> x = verb)
       /\ \A p : ~IsPunct(At(s, l), p)
    <2>1. k = l + 1 /\ l \in Nat /\ Says(At(s, l), Word(verb))
        BY <1>6, ReadOne
    <2>. QED BY <2>1, WordSays
<1>11. AlterTable(s, table, i) = AlterNamed(s, table, NameOf(col), l)
    <2>1. Read(s, i + 1, part, m) /\ Read(s, m, <<col>>, l) /\ ~IsPunct(At(s, l), ".")
        BY <1>7, <1>8, <1>9, <1>10
    <2>2. Keywords(s, i, <<"ALTER">>) /\ i \in Nat
        BY <1>9
    <2>. QED BY ONLY <1>1, <1>2, <2>1, <2>2, AlterRead
<1>12. IsKeyword(At(s, l + 1), "NOT") /\ IsKeyword(At(s, l + 2), "NULL") /\ l + 1 \in Nat
    <2>1. IsList(<<"NOT", "NULL">>)
        BY Lists
    <2>2. Keywords(s, k, <<"NOT", "NULL">>)
        BY <1>5, <2>1, ReadWords
    <2>3. k \in Nat /\ k + 1 = l + 2
        BY <1>10
    <2>. QED BY <1>10, <2>2, <2>3, KeywordsAre
<1>13. /\ verb \in {"SET", "DROP"}
       /\ verb = "SET" <=> a.do = "setNotNull"
    OBVIOUS
<1>14. /\ ~Keywords(s, l, <<"TYPE">>) /\ ~Keywords(s, l, <<"SET", "DATA", "TYPE">>)
       /\ ~Keywords(s, l, <<"SET", "DATA">>)
       /\ Keywords(s, l, <<"SET", "NOT", "NULL">>) <=> a.do = "setNotNull"
       /\ Keywords(s, l, <<"DROP", "NOT", "NULL">>) <=> a.do # "setNotNull"
       /\ ~HalfClause(s, l + 1, NotNull)
    <2>1. ~IsKeyword(At(s, l), "TYPE") /\ ~IsKeyword(At(s, l + 1), "DATA")
        BY <1>10, <1>12, <1>13, OneWord
    <2>2. IsKeyword(At(s, l), "SET") <=> a.do = "setNotNull"
        BY <1>10, <1>13
    <2>3. IsKeyword(At(s, l), "DROP") <=> a.do # "setNotNull"
        BY <1>10, <1>13
    <2>4. ~HalfClause(s, l + 1, NotNull)
        <3>1. l + 1 + 1 = l + 2
            BY <1>10
        <3>. QED BY <1>12, <3>1, ClausesAre
    <2>. QED BY <1>10, <1>12, <2>1, <2>2, <2>3, <2>4, KeywordsAre
<1>15. <<"SET">> \o NotNull = <<"SET", "NOT", "NULL">> /\ <<"DROP">> \o NotNull = <<"DROP", "NOT", "NULL">>
    BY ThreeWords DEF NotNull
<1>16. CASE a.do = "setNotNull"
    <2>1. AlterNamed(s, table, NameOf(col), l)
            = [kind |-> "SetNotNull", table |-> table, column |-> NameOf(col)]
        BY <1>14, <1>15, <1>16 DEF AlterNamed
    <2>. QED BY <1>11, <1>16, <2>1 DEF Translates
<1>17. CASE a.do = "dropNotNull"
    <2>1. AlterNamed(s, table, NameOf(col), l)
            = [kind |-> "DropNotNull", table |-> table, column |-> NameOf(col)]
        BY <1>14, <1>15, <1>17 DEF AlterNamed
    <2>. QED BY <1>11, <1>17, <2>1 DEF Translates
<1>. QED BY <1>16, <1>17

\* An expression with the word that announces it.
Announced(kw, e) == IF e # <<>> THEN <<Word(kw)>> \o e ELSE <<>>

\* An expression, after the word that announces it, to the end of the statement.
LEMMA ExpressionRead ==
    ASSUME NEW s, NEW i, NEW kw, NEW e, IsList(e), Rest(s, i, Announced(kw, e))
    PROVE  /\ i \in Nat /\ i > 0 /\ Len(s) \in Nat /\ i <= Len(s) + 1
           /\ e # <<>> => i <= Len(s) /\ (\A v : IsKeyword(At(s, i), v) <=> v = kw)
           /\ e = <<>> => i > Len(s) /\ \A v : ~IsKeyword(At(s, i), v)
           /\ ~NothingAfter(s, i, kw)
<1>. PICK N : N = Len(s)
    OBVIOUS
<1>. PICK part : part = Announced(kw, e)
    OBVIOUS
<1>1. Read(s, i, part, N + 1)
    BY DEF Rest
<1>2. i \in Nat /\ i > 0 /\ N \in Nat
    BY <1>1 DEF Read
<1>3. CASE e = <<>>
    <2>0. part = <<>>
        BY <1>3 DEF Announced
    <2>1. N + 1 = i
        BY <1>1, <2>0, ReadNone
    <2>2. i > N
        BY <1>2, <2>1
    <2>3. \A v : ~IsKeyword(At(s, i), v)
        BY <1>2, <2>2, EndSays
    <2>. QED BY <1>2, <1>3, <2>1, <2>2, <2>3 DEF NothingAfter
<1>4. CASE e # <<>>
    <2>. PICK w : w = <<Word(kw)>>
        OBVIOUS
    <2>1. IsList(w) /\ part = w \o e
        BY <1>4, Lists DEF Announced
    <2>2. PICK m : Read(s, i, w, m) /\ Read(s, m, e, N + 1)
        BY <1>1, <2>1, ReadCat
    <2>3. m = i + 1 /\ i <= N /\ Says(At(s, i), Word(kw))
        BY <2>2, ReadOne
    <2>4. \A v : IsKeyword(At(s, i), v) <=> v = kw
        BY <2>3, WordSays
    <2>5. Len(e) # 0 /\ Len(e) \in Nat
        <3>1. e \in Seq(ToSet(e))
            BY DEF IsList
        <3>. QED BY <1>4, <3>1
    <2>6. N + 1 = m + Len(e)
        BY <2>2 DEF Read
    <2>7. i # N
        BY ONLY <1>2, <2>3, <2>5, <2>6
    <2>. QED BY <1>2, <1>4, <2>3, <2>4, <2>7 DEF NothingAfter
<1>. QED BY <1>3, <1>4

\* ALTER COLUMN ... TYPE.
LEMMA TypeFormRead ==
    ASSUME NEW s, InText(s), NEW i, NEW table, NEW a, a.do = "type", OrdinaryAction(a),
           Rest(s, i, ActionTokens(a))
    PROVE  Translates(AlterTable(s, table, i), table, a)
<1>. PICK N : N = Len(s)
    OBVIOUS
<1>. PICK col : col = a.column
    OBVIOUS
<1>. PICK type : type = a.type
    OBVIOUS
<1>. PICK e : e = a.default
    OBVIOUS
<1>. PICK v : v = <<Word("ALTER")>>
    OBVIOUS
<1>. PICK part : part = When(a.explicit, Phrase(<<"COLUMN">>))
    OBVIOUS
<1>. PICK set : set = When(a.explicit, Phrase(<<"SET", "DATA">>))
    OBVIOUS
<1>. PICK w : w = <<Word("TYPE")>>
    OBVIOUS
<1>. PICK tt : tt = TypeTokens(type)
    OBVIOUS
<1>. PICK us : us = Announced("USING", e)
    OBVIOUS
<1>1. OrdinaryName(col) /\ OrdinaryType(type) /\ IsList(e)
    BY DEF OrdinaryAction
<1>2. part = Phrase(<<"COLUMN">>) \/ part = <<>>
    BY DEF When
<1>3. set = Phrase(<<"SET", "DATA">>) \/ set = <<>>
    BY DEF When
<1>4. us = When(a.default # <<>>, <<Word("USING")>> \o a.default)
    BY DEF When, Announced
<1> DEFINE p1 == v \o part
           p2 == p1 \o <<col>>
           p3 == p2 \o set
           p4 == p3 \o w
           p5 == p4 \o tt
<1>5. /\ IsList(v) /\ IsList(part) /\ IsList(<<col>>) /\ IsList(set) /\ IsList(w) /\ IsList(tt)
      /\ IsList(us)
    <2>1. IsList(<<"COLUMN">>) /\ IsList(<<"SET", "DATA">>) /\ IsList(<<Word("USING")>>)
        BY Lists
    <2>2. IsList(v) /\ IsList(<<col>>) /\ IsList(w) /\ IsList(<<>>)
        BY Lists
    <2>3. IsList(part) /\ IsList(set)
        BY <1>2, <1>3, <2>1, <2>2, PhraseList
    <2>4. IsList(<<Word("USING")>> \o e)
        BY <1>1, <2>1, CatFacts
    <2>5. IsList(us)
        BY <2>2, <2>4 DEF Announced
    <2>6. IsList(tt)
        BY <1>1, TypeTokensAre
    <2>. QED BY <2>2, <2>3, <2>5, <2>6
<1>6. Read(s, i, p5 \o us, N + 1)
    BY <1>4 DEF Rest, ActionTokens
<1>7. IsList(p1) /\ IsList(p2) /\ IsList(p3) /\ IsList(p4) /\ IsList(p5)
    <2>1. IsList(p1)
        BY <1>5, CatFacts
    <2>2. IsList(p2)
        BY <1>5, <2>1, CatFacts
    <2>3. IsList(p3)
        BY <1>5, <2>2, CatFacts
    <2>4. IsList(p4)
        BY <1>5, <2>3, CatFacts
    <2>5. IsList(p5)
        BY <1>5, <2>4, CatFacts
    <2>. QED BY <2>1, <2>2, <2>3, <2>4, <2>5
<1> HIDE DEF p1, p2, p3, p4, p5
<1>8. PICK end : Read(s, i, p5, end) /\ Read(s, end, us, N + 1)
    BY <1>5, <1>6, <1>7, ReadCat
<1>9. PICK t : Read(s, i, p4, t) /\ Read(s, t, tt, end)
    BY <1>5, <1>7, <1>8, ReadCat DEF p5
<1>10. PICK k : Read(s, i, p3, k) /\ Read(s, k, w, t)
    BY <1>5, <1>7, <1>9, ReadCat DEF p4
<1>11. PICK l : Read(s, i, p2, l) /\ Read(s, l, set, k)
    BY <1>5, <1>7, <1>10, ReadCat DEF p3
<1>12. PICK m : Read(s, i, p1, m) /\ Read(s, m, <<col>>, l)
    BY <1>5, <1>7, <1>11, ReadCat DEF p2
<1>13. PICK j : Read(s, i, v, j) /\ Read(s, j, part, m)
    BY <1>5, <1>7, <1>12, ReadCat DEF p1
<1>14. Keywords(s, i, <<"ALTER">>) /\ j = i + 1 /\ i \in Nat
    <2>1. j = i + 1 /\ i \in Nat /\ Says(At(s, i), Word("ALTER"))
        BY <1>13, ReadOne
    <2>2. IsKeyword(At(s, i), "ALTER")
        BY <2>1, WordSays
    <2>. QED BY <2>1, <2>2, KeywordsAre
<1>15. /\ t = k + 1 /\ k \in Nat /\ IsKeyword(At(s, k), "TYPE") /\ \A p : ~IsPunct(At(s, k), p)
    <2>1. t = k + 1 /\ k \in Nat /\ Says(At(s, k), Word("TYPE"))
        BY <1>10, ReadOne
    <2>. QED BY <2>1, WordSays
<1>16. Rest(s, end, us)
    BY <1>8 DEF Rest
<1>17. /\ end <= N => EndsType(At(s, end))
       /\ ~NothingAfter(s, end, "USING")
    <2>1. /\ e # <<>> => \A x : IsKeyword(At(s, end), x) <=> x = "USING"
          /\ e = <<>> => end > N
          /\ ~NothingAfter(s, end, "USING") /\ end \in Nat /\ N \in Nat
        <3>1. Rest(s, end, Announced("USING", e)) /\ IsList(e)
            BY <1>1, <1>16
        <3>. QED BY ONLY <3>1, N = Len(s), ExpressionRead
    <2>2. CASE e # <<>>
        BY <2>1, <2>2 DEF EndsType
    <2>3. CASE e = <<>>
        <3>1. ~(end <= N)
            BY <2>1, <2>3
        <3>. QED BY <2>1, <3>1
    <2>. QED BY <2>2, <2>3
<1>18. /\ TypeEnd(s, t) = end /\ end # t
       /\ TypeOf(s, t, end) \in {TypeNamed[type], UnknownType}
    <2>1. /\ TypeEnd(s, t) = end /\ t \in Nat /\ end > t
          /\ TypeOf(s, t, end) \in {TypeNamed[type], UnknownType}
        <3>1. /\ InText(s) /\ OrdinaryType(type) /\ Read(s, t, TypeTokens(type), end)
              /\ end <= Len(s) => EndsType(At(s, end))
            BY <1>1, <1>9, <1>17
        <3>. QED BY ONLY <3>1, TypeRead
    <2>. QED BY <2>1
<1>19. l \in Nat
    BY <1>11 DEF Read
<1>20. FinishAlterColumnType(s, table, NameOf(col), t)
          = [kind |-> "AlterColumnType", table |-> table, column |-> NameOf(col),
             newType |-> TypeOf(s, t, end)]
    BY <1>17, <1>18 DEF FinishAlterColumnType
<1>21. /\ AlterNamed(s, table, NameOf(col), l) = FinishAlterColumnType(s, table, NameOf(col), t)
       /\ ~IsPunct(At(s, l), ".")
    <2>1. CASE set = <<>>
        <3>1. k = l
            BY <1>11, <2>1, ReadNone
        <3>2. t = l + 1 /\ IsKeyword(At(s, l), "TYPE") /\ ~IsPunct(At(s, l), ".")
            BY <1>15, <3>1
        <3>3. ~IsKeyword(At(s, l), "SET") /\ ~IsKeyword(At(s, l), "DROP")
            BY <3>2, OneWord
        <3>4. /\ Keywords(s, l, <<"TYPE">>)
              /\ ~Keywords(s, l, <<"SET", "DATA", "TYPE">>) /\ ~Keywords(s, l, <<"SET", "DATA">>)
              /\ ~Keywords(s, l, <<"SET", "NOT", "NULL">>)
              /\ ~Keywords(s, l, <<"DROP", "NOT", "NULL">>)
              /\ ~Keywords(s, l, <<"SET">>) /\ ~Keywords(s, l, <<"DROP">>)
            BY <1>19, <3>2, <3>3, KeywordsAre
        <3>5. /\ <<"SET">> \o NotNull = <<"SET", "NOT", "NULL">>
              /\ <<"DROP">> \o NotNull = <<"DROP", "NOT", "NULL">>
            BY ThreeWords DEF NotNull
        <3>6. AlterNamed(s, table, NameOf(col), l)
                = FinishAlterColumnType(s, table, NameOf(col), l + 1)
            BY <3>4, <3>5 DEF AlterNamed
        <3>. QED BY <3>2, <3>6
    <2>2. CASE set = Phrase(<<"SET", "DATA">>)
        <3>1. Keywords(s, l, <<"SET", "DATA">>) /\ k = l + 2
            <4>1. IsList(<<"SET", "DATA">>) /\ Len(<<"SET", "DATA">>) = 2
                BY Lists
            <4>. QED BY <1>11, <2>2, <4>1, ReadWords
        <3>2. /\ t = l + 3 /\ IsKeyword(At(s, l), "SET") /\ IsKeyword(At(s, l + 1), "DATA")
              /\ IsKeyword(At(s, l + 2), "TYPE") /\ l + 1 \in Nat /\ l + 2 \in Nat
            BY <1>15, <1>19, <3>1, KeywordsAre
        <3>3. ~IsKeyword(At(s, l), "TYPE") /\ ~IsKeyword(At(s, l), "DROP")
              /\ ~IsKeyword(At(s, l + 1), "NOT")
            BY <3>2, OneWord
        <3>4. /\ ~Keywords(s, l, <<"TYPE">>)
              /\ Keywords(s, l, <<"SET", "DATA", "TYPE">>) /\ Keywords(s, l + 2, <<"TYPE">>)
              /\ ~Keywords(s, l, <<"SET", "NOT", "NULL">>)
              /\ ~Keywords(s, l, <<"DROP", "NOT", "NULL">>)
              /\ ~HalfClause(s, l + 1, NotNull)
            BY <1>19, <3>2, <3>3, KeywordsAre, ClausesAre
        <3>5. /\ <<"SET">> \o NotNull = <<"SET", "NOT", "NULL">>
              /\ <<"DROP">> \o NotNull = <<"DROP", "NOT", "NULL">>
            BY ThreeWords DEF NotNull
        <3>6. AlterNamed(s, table, NameOf(col), l)
                = FinishAlterColumnType(s, table, NameOf(col), l + 3)
            BY <3>4, <3>5 DEF AlterNamed
        <3>7. ~IsPunct(At(s, l), ".")
            BY <3>2, NoPunct
        <3>. QED BY <3>2, <3>6, <3>7
    <2>. QED BY <1>3, <2>1, <2>2
<1>22. AlterTable(s, table, i) = AlterNamed(s, table, NameOf(col), l)
    <2>1. Read(s, i + 1, part, m) /\ Read(s, m, <<col>>, l) /\ ~IsPunct(At(s, l), ".")
        BY <1>12, <1>13, <1>14, <1>21
    <2>2. Keywords(s, i, <<"ALTER">>) /\ i \in Nat
        BY <1>14
    <2>. QED BY ONLY <1>1, <1>2, <2>1, <2>2, AlterRead
<1>. PICK ty : ty = TypeOf(s, t, end)
    OBVIOUS
<1>23. /\ AlterTable(s, table, i)
              = [kind |-> "AlterColumnType", table |-> table, column |-> NameOf(col), newType |-> ty]
       /\ ty \in {TypeNamed[type], UnknownType}
    BY <1>18, <1>20, <1>21, <1>22
<1>. QED BY <1>23 DEF Translates

\* ADD COLUMN.
LEMMA AddRead ==
    ASSUME NEW s, InText(s), NEW i, NEW table, NEW a, a.do = "add", OrdinaryAction(a),
           a.notNull \in BOOLEAN, Rest(s, i, ActionTokens(a))
    PROVE  Translates(AlterTable(s, table, i), table, a)
<1>. PICK N : N = Len(s)
    OBVIOUS
<1>. PICK col : col = a.column
    OBVIOUS
<1>. PICK type : type = a.type
    OBVIOUS
<1>. PICK e : e = a.default
    OBVIOUS
<1>. PICK v : v = <<Word("ADD")>>
    OBVIOUS
<1>. PICK part : part = When(a.explicit, Phrase(<<"COLUMN">>))
    OBVIOUS
<1>. PICK clause : clause = When(a.ifClause, Phrase(<<"IF", "NOT", "EXISTS">>))
    OBVIOUS
<1>. PICK tt : tt = TypeTokens(type)
    OBVIOUS
<1>. PICK nn : nn = When(a.notNull, Phrase(<<"NOT", "NULL">>))
    OBVIOUS
<1>. PICK de : de = Announced("DEFAULT", e)
    OBVIOUS
<1>1. OrdinaryName(col) /\ OrdinaryType(type) /\ IsList(e)
    BY DEF OrdinaryAction
<1>2. part = Phrase(<<"COLUMN">>) \/ part = <<>>
    BY DEF When
<1>3. clause = Phrase(<<"IF", "NOT", "EXISTS">>) \/ clause = <<>>
    BY DEF When
<1>4. nn = NullTokens(a) /\ de = DefaultTokens(a)
    BY DEF When, Announced, NullTokens, DefaultTokens, NotNull
<1> DEFINE p1 == v \o part
           p2 == p1 \o clause
           p3 == p2 \o <<col>>
           p4 == p3 \o tt
<1>5. /\ IsList(v) /\ IsList(part) /\ IsList(<<col>>) /\ IsList(clause) /\ IsList(tt)
      /\ IsList(nn) /\ IsList(de) /\ IsList(<<>>)
    <2>1. /\ IsList(<<"COLUMN">>) /\ IsList(<<"IF", "NOT", "EXISTS">>) /\ IsList(<<"NOT", "NULL">>)
          /\ IsList(<<Word("DEFAULT")>>)
        BY Lists
    <2>2. IsList(v) /\ IsList(<<col>>) /\ IsList(<<>>)
        BY Lists
    <2>3. nn = Phrase(<<"NOT", "NULL">>) \/ nn = <<>>
        BY DEF When
    <2>4. IsList(part) /\ IsList(clause) /\ IsList(nn)
        BY <1>2, <1>3, <2>1, <2>2, <2>3, PhraseList
    <2>5. IsList(<<Word("DEFAULT")>> \o e)
        BY <1>1, <2>1, CatFacts
    <2>6. IsList(de)
        BY <2>2, <2>5 DEF Announced
    <2>7. IsList(tt)
        BY <1>1, TypeTokensAre
    <2>. QED BY <2>2, <2>4, <2>6, <2>7
<1>6. (IF a.defaultFirst THEN de \o nn ELSE nn \o de) = nn \o de
    <2>1. CASE a.defaultFirst
        <3>1. nn = <<>> \/ de = <<>>
            <4>1. ~a.notNull \/ e = <<>>
                BY <2>1 DEF OrdinaryAction
            <4>. QED BY <4>1 DEF When, Announced
        <3>2. nn \o <<>> = nn /\ <<>> \o nn = nn /\ de \o <<>> = de /\ <<>> \o de = de
            BY <1>5, ConcatEmptySeq DEF IsList
        <3>. QED BY <2>1, <3>1, <3>2
    <2>2. CASE ~a.defaultFirst
        BY <2>2
    <2>. QED BY <2>1, <2>2
<1>7. Read(s, i, p4 \o (nn \o de), N + 1)
    BY <1>4, <1>6 DEF Rest, ActionTokens, IfNotExists
<1>8. IsList(p1) /\ IsList(p2) /\ IsList(p3) /\ IsList(p4) /\ IsList(nn \o de)
    <2>1. IsList(p1)
        BY <1>5, CatFacts
    <2>2. IsList(p2)
        BY <1>5, <2>1, CatFacts
    <2>3. IsList(p3)
        BY <1>5, <2>2, CatFacts
    <2>4. IsList(p4)
        BY <1>5, <2>3, CatFacts
    <2>5. IsList(nn \o de)
        BY <1>5, CatFacts
    <2>. QED BY <2>1, <2>2, <2>3, <2>4, <2>5
<1> HIDE DEF p1, p2, p3, p4
<1>9. PICK end : Read(s, i, p4, end) /\ Read(s, end, nn \o de, N + 1)
    BY <1>7, <1>8, ReadCat
<1>10. PICK d : Read(s, end, nn, d) /\ Read(s, d, de, N + 1)
    BY <1>5, <1>9, ReadCat
<1>11. PICK t : Read(s, i, p3, t) /\ Read(s, t, tt, end)
    BY <1>5, <1>8, <1>9, ReadCat DEF p4
<1>12. PICK l : Read(s, i, p2, l) /\ Read(s, l, <<col>>, t)
    BY <1>5, <1>8, <1>11, ReadCat DEF p3
<1>13. PICK m : Read(s, i, p1, m) /\ Read(s, m, clause, l)
    BY <1>5, <1>8, <1>12, ReadCat DEF p2
<1>14. PICK j : Read(s, i, v, j) /\ Read(s, j, part, m)
    BY <1>5, <1>8, <1>13, ReadCat DEF p1
<1>15. j = i + 1 /\ i \in Nat /\ j \in Nat /\ IsKeyword(At(s, i), "ADD")
    <2>1. j = i + 1 /\ i \in Nat /\ Says(At(s, i), Word("ADD"))
        BY <1>14, ReadOne
    <2>. QED BY <2>1, WordSays
<1>16. t = l + 1 /\ l \in Nat /\ l > 0 /\ N \in Nat /\ Says(At(s, l), col)
    BY <1>12, ReadOne
<1>17. /\ ~IsKeyword(At(s, l), "COLUMN") /\ ~IsKeyword(At(s, l), "IF")
       /\ \A kw \in TableConstraintKeywords : ~IsKeyword(At(s, l), kw)
    BY <1>1, <1>16, NameSays DEF Reserved
\* The optional clause, and what is not yet in it.
<1>18. /\ m \in Nat /\ Optional(s, m, IfNotExists) = l /\ ~HalfClause(s, m, IfNotExists)
       /\ ~IsKeyword(At(s, m), "COLUMN")
       /\ \A kw \in TableConstraintKeywords : ~IsKeyword(At(s, m), kw)
    <2>0. m \in Nat
        BY <1>13 DEF Read
    <2>1. CASE clause = <<>>
        <3>1. l = m
            BY <1>13, <2>1, ReadNone
        <3>. QED BY <1>17, <2>0, <3>1, ClausesAre
    <2>2. CASE clause = Phrase(<<"IF", "NOT", "EXISTS">>)
        <3>1. IsList(<<"IF", "NOT", "EXISTS">>) /\ Len(<<"IF", "NOT", "EXISTS">>) = 3
            BY Lists
        <3>2. Keywords(s, m, <<"IF", "NOT", "EXISTS">>) /\ l = m + 3
            BY <1>13, <2>2, <3>1, ReadWords
        <3>3. /\ IsKeyword(At(s, m), "IF") /\ IsKeyword(At(s, m + 1), "NOT")
              /\ IsKeyword(At(s, m + 2), "EXISTS")
            BY <2>0, <3>2, KeywordsAre
        <3>4. ~IsKeyword(At(s, m), "COLUMN")
            BY <3>3, OneWord
        <3>5. "IF" \notin TableConstraintKeywords
            BY DEF TableConstraintKeywords
        <3>6. \A kw \in TableConstraintKeywords : ~IsKeyword(At(s, m), kw)
            BY <3>3, <3>5, OneWord
        <3>. QED BY <2>0, <3>2, <3>3, <3>4, <3>6, ClausesAre
    <2>. QED BY <1>3, <2>1, <2>2
<1>19. Optional(s, i + 1, <<"COLUMN">>) = m
    BY <1>2, <1>14, <1>15, <1>18, ColumnClause
\* What comes after the type.
<1>20. Rest(s, d, de)
    BY <1>10 DEF Rest
<1>21. /\ d \in Nat /\ d <= N + 1 /\ ~NothingAfter(s, d, "DEFAULT")
       /\ Keywords(s, d, <<"DEFAULT">>) <=> e # <<>>
       /\ ~IsKeyword(At(s, d), "NOT")
       /\ d <= N => EndsType(At(s, d))
    <2>1. /\ d \in Nat /\ N \in Nat /\ d <= N + 1 /\ ~NothingAfter(s, d, "DEFAULT")
          /\ e # <<>> => d <= N /\ \A x : IsKeyword(At(s, d), x) <=> x = "DEFAULT"
          /\ e = <<>> => d > N /\ \A x : ~IsKeyword(At(s, d), x)
        <3>1. Rest(s, d, Announced("DEFAULT", e)) /\ IsList(e)
            BY <1>1, <1>20
        <3>. QED BY ONLY <3>1, N = Len(s), ExpressionRead
    <2>2. Keywords(s, d, <<"DEFAULT">>) <=> e # <<>>
        BY <2>1, KeywordsAre
    <2>3. ~IsKeyword(At(s, d), "NOT")
        BY <2>1
    <2>4. CASE e # <<>>
        BY <2>1, <2>2, <2>3, <2>4 DEF EndsType
    <2>5. CASE e = <<>>
        <3>1. ~(d <= N)
            BY <2>1, <2>5
        <3>. QED BY <2>1, <2>2, <2>3, <3>1
    <2>. QED BY <2>4, <2>5
<1>22. /\ end \in Nat /\ Optional(s, end, NotNull) = d /\ ~HalfClause(s, end, NotNull)
       /\ end <= N => EndsType(At(s, end))
       /\ d = end <=> ~a.notNull
    <2>0. end \in Nat
        BY <1>10 DEF Read
    <2>1. CASE ~a.notNull
        <3>1. nn = <<>>
            BY <2>1 DEF When
        <3>2. d = end
            BY <1>10, <3>1, ReadNone
        <3>. QED BY <1>21, <2>0, <2>1, <3>2, ClausesAre
    <2>2. CASE a.notNull
        <3>0. nn = Phrase(<<"NOT", "NULL">>)
            BY <2>2 DEF When
        <3>1. IsList(<<"NOT", "NULL">>) /\ Len(<<"NOT", "NULL">>) = 2
            BY Lists
        <3>2. Keywords(s, end, <<"NOT", "NULL">>) /\ d = end + 2
            BY <1>10, <3>0, <3>1, ReadWords
        <3>3. IsKeyword(At(s, end), "NOT") /\ IsKeyword(At(s, end + 1), "NULL")
            BY <2>0, <3>2, KeywordsAre
        <3>4. d # end
            BY <2>0, <3>2
        <3>5. EndsType(At(s, end))
            BY <3>3 DEF EndsType
        <3>. QED BY <2>0, <2>2, <3>2, <3>3, <3>4, <3>5, ClausesAre
    <2>. QED BY <2>1, <2>2
<1>23. /\ TypeEnd(s, t) = end /\ end # t /\ ~IsPunct(At(s, t), ".")
       /\ TypeOf(s, t, end) \in {TypeNamed[type], UnknownType}
    <2>1. /\ TypeEnd(s, t) = end /\ t \in Nat /\ end > t /\ ~IsPunct(At(s, t), ".")
          /\ TypeOf(s, t, end) \in {TypeNamed[type], UnknownType}
        BY <1>1, <1>11, <1>22, TypeRead
    <2>. QED BY <2>1
<1>24. Name(s, l).ok /\ Name(s, l).name = NameOf(col) /\ Name(s, l).next = t
    BY <1>1, <1>16, <1>23, NameHere
<1>. PICK ty : ty = TypeOf(s, t, end)
    OBVIOUS
<1>. PICK name : name = Name(s, l)
    OBVIOUS
<1>25. AddTyped(s, table, name, end)
          = [kind |-> "AddColumn", table |-> table, column |-> NameOf(col), newType |-> ty,
             nullable |-> d = end, default |-> Keywords(s, d, <<"DEFAULT">>)]
    BY <1>21, <1>22, <1>23, <1>24 DEF AddTyped
<1>26. ParseAddColumn(s, table, i + 1) = AddTyped(s, table, name, end)
    <2>1. ~(\E kw \in TableConstraintKeywords : IsKeyword(At(s, m), kw))
        BY <1>18
    <2>2. name.ok /\ name.next = t
        BY <1>24
    <2>. QED BY <1>18, <1>19, <1>23, <2>1, <2>2 DEF ParseAddColumn
<1>27. AlterTable(s, table, i) = ParseAddColumn(s, table, i + 1)
    <2>1. /\ Keywords(s, i, <<"ADD">>) /\ ~Keywords(s, i, <<"DROP">>)
          /\ ~Keywords(s, i, <<"RENAME">>) /\ ~Keywords(s, i, <<"ALTER">>)
        <3>1. ~IsKeyword(At(s, i), "DROP") /\ ~IsKeyword(At(s, i), "RENAME")
              /\ ~IsKeyword(At(s, i), "ALTER")
            BY <1>15, OneWord
        <3>. QED BY <1>15, <3>1, KeywordsAre
    <2>. QED BY <2>1 DEF AlterTable
<1>28. (d = end) = ~a.notNull /\ Keywords(s, d, <<"DEFAULT">>) = (e # <<>>)
    <2>1. Keywords(s, d, <<"DEFAULT">>) \in BOOLEAN
        BY DEF Keywords
    <2>. QED BY <1>21, <1>22, <2>1
<1>29. /\ AlterTable(s, table, i)
              = [kind |-> "AddColumn", table |-> table, column |-> NameOf(col), newType |-> ty,
                 nullable |-> ~a.notNull, default |-> e # <<>>]
       /\ ty \in {TypeNamed[type], UnknownType}
    BY <1>23, <1>25, <1>26, <1>27, <1>28
<1>. QED BY <1>29 DEF Translates

\* The words of what a statement goes on with.
LEMMA GoesOnAre ==
    ASSUME NEW s, NEW i, NEW part, Rest(s, i, part), NEW k \in Nat, k > 0
    PROVE  /\ \A x : GoesOn(part, k, <<x>>) <=> IsKeyword(At(s, i + k - 1), x)
           /\ \A x, y : GoesOn(part, k, <<x, y>>)
                            <=> IsKeyword(At(s, i + k - 1), x) /\ IsKeyword(At(s, i + k), y)
           /\ \A x, y, z : GoesOn(part, k, <<x, y, z>>)
                              <=> /\ IsKeyword(At(s, i + k - 1), x) /\ IsKeyword(At(s, i + k), y)
                                  /\ IsKeyword(At(s, i + k + 1), z)
<1>. PICK j : j = i + k - 1
    OBVIOUS
<1>1. i \in Nat
    BY RestAt
<1>2. j \in Nat /\ j + 1 = i + k /\ j + 2 = i + k + 1
    BY ONLY <1>1, j = i + k - 1, k \in Nat, k > 0
<1>3. ASSUME NEW ws, IsList(ws) PROVE Keywords(s, j, ws) <=> GoesOn(part, k, ws)
    BY <1>3, RestGoesOn
<1>4. \A x : Keywords(s, j, <<x>>) <=> GoesOn(part, k, <<x>>)
    BY <1>3, Lists
<1>5. \A x, y : Keywords(s, j, <<x, y>>) <=> GoesOn(part, k, <<x, y>>)
    BY <1>3, Lists
<1>6. \A x, y, z : Keywords(s, j, <<x, y, z>>) <=> GoesOn(part, k, <<x, y, z>>)
    BY <1>3, Lists
<1>. QED BY <1>2, <1>4, <1>5, <1>6, KeywordsAre

\* Which of the statements it is.
LEMMA VerbIs ==
    ASSUME NEW s, NEW table, NEW i \in Nat
    PROVE  /\ IsKeyword(At(s, i), "ADD") => AlterTable(s, table, i) = ParseAddColumn(s, table, i + 1)
           /\ IsKeyword(At(s, i), "DROP") => AlterTable(s, table, i) = ParseDropColumn(s, table, i + 1)
           /\ IsKeyword(At(s, i), "RENAME")
                => AlterTable(s, table, i) = ParseRenameColumn(s, table, i + 1)
           /\ IsKeyword(At(s, i), "ALTER")
                => AlterTable(s, table, i) = ParseAlterColumn(s, table, i + 1)
           /\ (\A verb \in {"ADD", "DROP", "RENAME", "ALTER"} : ~IsKeyword(At(s, i), verb))
                => AlterTable(s, table, i) = Unclassified
<1>1. \A x : Keywords(s, i, <<x>>) <=> IsKeyword(At(s, i), x)
    BY KeywordsAre
<1>2. \A x, y : IsKeyword(At(s, i), x) /\ IsKeyword(At(s, i), y) => x = y
    BY OneWord
<1>3. CASE IsKeyword(At(s, i), "ADD")
    <2>1. ~IsKeyword(At(s, i), "DROP") /\ ~IsKeyword(At(s, i), "RENAME") /\ ~IsKeyword(At(s, i), "ALTER")
        BY <1>2, <1>3
    <2>. QED BY <1>1, <1>3, <2>1 DEF AlterTable
<1>4. CASE IsKeyword(At(s, i), "DROP")
    <2>1. ~IsKeyword(At(s, i), "ADD") /\ ~IsKeyword(At(s, i), "RENAME") /\ ~IsKeyword(At(s, i), "ALTER")
        BY <1>2, <1>4
    <2>. QED BY <1>1, <1>4, <2>1 DEF AlterTable
<1>5. CASE IsKeyword(At(s, i), "RENAME")
    <2>1. ~IsKeyword(At(s, i), "ADD") /\ ~IsKeyword(At(s, i), "DROP") /\ ~IsKeyword(At(s, i), "ALTER")
        BY <1>2, <1>5
    <2>. QED BY <1>1, <1>5, <2>1 DEF AlterTable
<1>6. CASE IsKeyword(At(s, i), "ALTER")
    <2>1. ~IsKeyword(At(s, i), "ADD") /\ ~IsKeyword(At(s, i), "DROP") /\ ~IsKeyword(At(s, i), "RENAME")
        BY <1>2, <1>6
    <2>. QED BY <1>1, <1>6, <2>1 DEF AlterTable
<1>7. CASE \A verb \in {"ADD", "DROP", "RENAME", "ALTER"} : ~IsKeyword(At(s, i), verb)
    BY <1>1, <1>7 DEF AlterTable
<1>. QED BY <1>3, <1>4, <1>5, <1>6, <1>7

\* A column that is dropped or renamed, and is not one.
LEMMA NoColumnDropped ==
    ASSUME NEW s, NEW table, NEW i \in Nat,
           IsKeyword(At(s, i), "COLUMN") => HalfClause(s, i + 1, IfExists)
    PROVE  ParseDropColumn(s, table, i) \in {Unclassified, Malformed}
<1>1. Keywords(s, i, <<"COLUMN">>) <=> IsKeyword(At(s, i), "COLUMN")
    BY KeywordsAre
<1>. QED BY <1>1 DEF ParseDropColumn

\* A table constraint.
LEMMA ConstraintAdded ==
    ASSUME NEW s, NEW table, NEW i \in Nat, NEW kw \in TableConstraintKeywords,
           IsKeyword(At(s, i), kw)
    PROVE  ParseAddColumn(s, table, i) = Unclassified
<1>1. kw # "COLUMN" /\ kw # "IF"
    BY DEF TableConstraintKeywords
<1>2. ~IsKeyword(At(s, i), "COLUMN") /\ ~IsKeyword(At(s, i), "IF")
    BY <1>1, OneWord
<1>3. ~Keywords(s, i, <<"COLUMN">>) /\ Optional(s, i, <<"COLUMN">>) = i
    BY <1>2, KeywordsAre, ClausesAre
<1>4. ~HalfClause(s, i, IfNotExists)
    BY <1>2, ClausesAre
<1>5. \E w \in TableConstraintKeywords : IsKeyword(At(s, i), w)
    OBVIOUS
<1>. QED BY <1>3, <1>4, <1>5 DEF ParseAddColumn

\* A column added without a type.
LEMMA NoTypeAdded ==
    ASSUME NEW s, NEW table, NEW i \in Nat, i > 0, Len(s) \in Nat, i + 1 = Len(s),
           IsKeyword(At(s, i), "COLUMN"), ~IsKeyword(At(s, i + 1), "IF"),
           Name(s, i + 1).ok, Name(s, i + 1).next = i + 2
    PROVE  ParseAddColumn(s, table, i) = Malformed
<1>1. Keywords(s, i, <<"COLUMN">>) /\ Optional(s, i, <<"COLUMN">>) = i + 1
    BY KeywordsAre, ClausesAre
<1>2. ~HalfClause(s, i + 1, IfNotExists) /\ Optional(s, i + 1, IfNotExists) = i + 1
    BY ClausesAre
<1>3. TypeEnd(s, i + 2) = i + 2
    <2>. PICK j : j = i + 2
        OBVIOUS
    <2>1. /\ j \in Nat /\ j > 0 /\ 0 \in Nat /\ j + 0 - 1 <= Len(s) /\ j + 0 = j
          /\ ~(j + 0 <= Len(s)) /\ 1 .. 0 = {}
        BY j = i + 2
    <2>2. TypeUpTo(s, j, 0)
        BY <2>1 DEF TypeUpTo
    <2>3. TypeEnd(s, j) = j + 0
        BY <2>2, TypeEndIs
    <2>. QED BY <2>1, <2>3
<1>. PICK column : column = Name(s, i + 1)
    OBVIOUS
<1>4. AddTyped(s, table, column, i + 2) = Malformed
    BY DEF AddTyped
<1>. QED BY <1>1, <1>2, <1>3, <1>4 DEF ParseAddColumn

\* A column renamed to nothing, or to itself.
LEMMA NothingRenamed ==
    ASSUME NEW s, NEW table, NEW i \in Nat,
           \/ ~IsKeyword(At(s, i), "COLUMN")
           \/ /\ Name(s, i + 1).ok /\ Name(s, i + 1).next = i + 2
              /\ \/ ~IsKeyword(At(s, i + 2), "TO")
                 \/ ~Name(s, i + 3).ok
                 \/ Name(s, i + 3).name = Name(s, i + 1).name
    PROVE  Vague(ParseRenameColumn(s, table, i))
<1>. PICK old : old = Name(s, i + 1)
    OBVIOUS
<1>. PICK new : new = Name(s, i + 3)
    OBVIOUS
<1>1. i + 2 \in Nat /\ i + 2 + 1 = i + 3
    OBVIOUS
<1>2. /\ Keywords(s, i, <<"COLUMN">>) <=> IsKeyword(At(s, i), "COLUMN")
      /\ Keywords(s, i + 2, <<"TO">>) <=> IsKeyword(At(s, i + 2), "TO")
    BY <1>1, KeywordsAre
<1>. PICK op : op = ParseRenameColumn(s, table, i)
    OBVIOUS
<1>3. CASE ~IsKeyword(At(s, i), "COLUMN")
    <2>1. op = Unclassified
        BY <1>2, <1>3 DEF ParseRenameColumn
    <2>. QED BY <2>1 DEF Vague
<1>4. CASE /\ IsKeyword(At(s, i), "COLUMN") /\ old.ok /\ old.next = i + 2
           /\ ~IsKeyword(At(s, i + 2), "TO") \/ ~new.ok
    <2>1. op = Malformed
        BY <1>1, <1>2, <1>4 DEF ParseRenameColumn
    <2>. QED BY <2>1 DEF Vague
<1>5. CASE /\ IsKeyword(At(s, i), "COLUMN") /\ old.ok /\ old.next = i + 2
           /\ IsKeyword(At(s, i + 2), "TO") /\ new.ok /\ new.name = old.name
    <2>1. op = [kind |-> "RenameColumn", table |-> table, column |-> old.name,
                newColumn |-> old.name]
        BY <1>1, <1>2, <1>5 DEF ParseRenameColumn
    <2>2. ~ValidOp(op)
        BY <2>1 DEF ValidOp
    <2>. QED BY <2>2 DEF Vague
<1>. QED BY <1>3, <1>4, <1>5

\* A column altered in another way.
LEMMA OtherwiseAltered ==
    ASSUME NEW s, NEW table, NEW column, NEW l \in Nat,
           \A ws \in {<<"TYPE">>, <<"SET", "DATA", "TYPE">>, <<"SET", "NOT", "NULL">>,
                      <<"DROP", "NOT", "NULL">>} : ~Keywords(s, l, ws)
    PROVE  AlterNamed(s, table, column, l) \in {Unclassified, Malformed}
<1>1. <<"SET">> \o NotNull = <<"SET", "NOT", "NULL">> /\ <<"DROP">> \o NotNull = <<"DROP", "NOT", "NULL">>
    BY ThreeWords DEF NotNull
<1>2. /\ ~Keywords(s, l, <<"TYPE">>) /\ ~Keywords(s, l, <<"SET", "DATA", "TYPE">>)
      /\ ~Keywords(s, l, <<"SET">> \o NotNull) /\ ~Keywords(s, l, <<"DROP">> \o NotNull)
    BY <1>1
<1> DEFINE broken == Keywords(s, l, <<"SET", "DATA">>) /\ ~Keywords(s, l + 2, <<"TYPE">>)
           half == /\ Keywords(s, l, <<"SET">>) \/ Keywords(s, l, <<"DROP">>)
                   /\ HalfClause(s, l + 1, NotNull)
<1>3. CASE broken
    <2>1. IsKeyword(At(s, l + 1), "DATA")
        BY <1>3, KeywordsAre
    <2>2. ~half
        <3>1. ~IsKeyword(At(s, l + 1), "NOT")
            BY <2>1, OneWord
        <3>2. l + 1 \in Nat
            OBVIOUS
        <3>. QED BY <3>1, <3>2, ClausesAre
    <2>. QED BY <1>2, <1>3, <2>2 DEF AlterNamed
<1>4. CASE ~broken /\ half
    BY <1>2, <1>4 DEF AlterNamed
<1>5. CASE ~broken /\ ~half
    BY <1>2, <1>5 DEF AlterNamed
<1>. QED BY <1>3, <1>4, <1>5

\* Another action, or one that is broken off or changes nothing, is refused, or
\* known not to be understood.
LEMMA OtherRead ==
    ASSUME NEW s, NEW i, NEW table, NEW ts, Rest(s, i, ts), OtherAction(ts)
    PROVE  Vague(AlterTable(s, table, i))
<1>. PICK op : op = AlterTable(s, table, i)
    OBVIOUS
<1>. PICK m : m = Len(ts)
    OBVIOUS
<1>0. i \in Nat /\ i > 0 /\ m \in Nat /\ Len(s) \in Nat /\ i + m = Len(s) + 1
    BY RestAt
<1>1. /\ i + 1 - 1 = i /\ i + 1 \in Nat /\ i + 2 \in Nat /\ i + 3 \in Nat /\ i + 1 + 1 = i + 2
      /\ i + 2 - 1 = i + 1 /\ i + 3 - 1 = i + 2 /\ i + 4 - 1 = i + 3 /\ i + 5 - 1 = i + 4
      /\ i + 1 + 2 = i + 3 /\ i + 1 + 3 = i + 4 /\ i + 2 + 1 = i + 3
    BY <1>0
<1>2. /\ \A x : GoesOn(ts, 1, <<x>>) <=> IsKeyword(At(s, i), x)
      /\ \A x, y : GoesOn(ts, 1, <<x, y>>)
                        <=> IsKeyword(At(s, i), x) /\ IsKeyword(At(s, i + 1), y)
      /\ \A x, y, z : GoesOn(ts, 1, <<x, y, z>>)
                        <=> /\ IsKeyword(At(s, i), x) /\ IsKeyword(At(s, i + 1), y)
                            /\ IsKeyword(At(s, i + 2), z)
    <2>1. 1 \in Nat /\ 1 > 0 /\ i + 1 + 1 = i + 2
        BY <1>1
    <2>. QED BY <1>1, <2>1, GoesOnAre
<1>3. \A x : GoesOn(ts, 2, <<x>>) <=> IsKeyword(At(s, i + 1), x)
    <2>1. 2 \in Nat /\ 2 > 0
        OBVIOUS
    <2>. QED BY <1>1, <2>1, GoesOnAre
<1>4. \A x : GoesOn(ts, 4, <<x>>) <=> IsKeyword(At(s, i + 3), x)
    <2>1. 4 \in Nat /\ 4 > 0
        OBVIOUS
    <2>2. \A x : GoesOn(ts, 4, <<x>>) <=> IsKeyword(At(s, i + 4 - 1), x)
        BY <2>1, GoesOnAre
    <2>. QED BY <1>1, <2>2
<1>5. CASE \A verb \in {"ADD", "DROP", "RENAME", "ALTER"} : ~GoesOn(ts, 1, <<verb>>)
    <2>1. \A verb \in {"ADD", "DROP", "RENAME", "ALTER"} : ~IsKeyword(At(s, i), verb)
        BY <1>2, <1>5
    <2>2. AlterTable(s, table, i) = Unclassified
        BY ONLY <1>0, <2>1, VerbIs
    <2>. QED BY <2>2 DEF Vague
<1>6. CASE \E kw \in TableConstraintKeywords : GoesOn(ts, 1, <<"ADD", kw>>)
    <2>1. PICK kw \in TableConstraintKeywords : GoesOn(ts, 1, <<"ADD", kw>>)
        BY <1>6
    <2>2. IsKeyword(At(s, i), "ADD") /\ IsKeyword(At(s, i + 1), kw)
        BY <1>2, <2>1
    <2>3. op = Unclassified
        BY <1>0, <1>1, <2>2, VerbIs, ConstraintAdded
    <2>. QED BY <2>3 DEF Vague
<1>7. CASE GoesOn(ts, 1, <<"ADD", "COLUMN">>) /\ Len(ts) = 3 /\ NameAt(ts, 3)
    <2>1. IsKeyword(At(s, i), "ADD") /\ IsKeyword(At(s, i + 1), "COLUMN")
        BY <1>2, <1>7
    <2>2. Name(s, i + 2).ok /\ Name(s, i + 2).next = i + 3
        <3>1. 3 \in Nat /\ 3 > 0
            OBVIOUS
        <3>. QED BY <1>1, <1>7, <3>1, NameInRest
    <2>3. ~IsKeyword(At(s, i + 2), "IF")
        <3>1. Says(At(s, i + 2), ts[3]) /\ OrdinaryName(ts[3])
            <4>1. 3 \in Nat /\ 3 > 0 /\ 3 <= Len(ts)
                BY <1>7
            <4>2. Says(At(s, i + 3 - 1), ts[3])
                BY <4>1, RestAt
            <4>. QED BY <1>1, <1>7, <4>2 DEF NameAt
        <3>. QED BY <3>1, NameSays DEF Reserved
    <2>4. ParseAddColumn(s, table, i + 1) = Malformed
        <3>1. /\ i + 1 \in Nat /\ i + 1 > 0 /\ i + 1 + 1 = Len(s) /\ i + 1 + 1 = i + 2
              /\ i + 1 + 2 = i + 3
            BY <1>0, <1>7
        <3>. QED BY <1>0, <2>1, <2>2, <2>3, <3>1, NoTypeAdded
    <2>5. op = Malformed
        BY <1>0, <2>1, <2>4, VerbIs
    <2>. QED BY <2>5 DEF Vague
<1>8. CASE \E verb \in {"DROP", "RENAME"} : GoesOn(ts, 1, <<verb>>) /\ ~GoesOn(ts, 2, <<"COLUMN">>)
    <2>1. ~IsKeyword(At(s, i + 1), "COLUMN")
        BY <1>3, <1>8
    <2>2. CASE IsKeyword(At(s, i), "DROP")
        <3>1. op \in {Unclassified, Malformed}
            BY <1>0, <1>1, <2>1, <2>2, VerbIs, NoColumnDropped
        <3>. QED BY <3>1 DEF Vague
    <2>3. CASE IsKeyword(At(s, i), "RENAME")
        <3>1. op = ParseRenameColumn(s, table, i + 1)
            BY <1>0, <2>3, VerbIs
        <3>2. Vague(ParseRenameColumn(s, table, i + 1))
            BY <1>1, <2>1, NothingRenamed
        <3>. QED BY <3>1, <3>2
    <2>. QED BY <1>2, <1>8, <2>2, <2>3
<1>9. CASE GoesOn(ts, 1, <<"DROP", "COLUMN", "IF">>) /\ ~GoesOn(ts, 4, <<"EXISTS">>)
    <2>1. /\ IsKeyword(At(s, i), "DROP") /\ IsKeyword(At(s, i + 1), "COLUMN")
          /\ IsKeyword(At(s, i + 2), "IF") /\ ~IsKeyword(At(s, i + 3), "EXISTS")
        BY <1>2, <1>4, <1>9
    <2>2. HalfClause(s, i + 2, IfExists)
        BY <1>1, <2>1, ClausesAre
    <2>3. op \in {Unclassified, Malformed}
        BY <1>0, <1>1, <2>1, <2>2, VerbIs, NoColumnDropped
    <2>. QED BY <2>3 DEF Vague
<1>10. CASE /\ GoesOn(ts, 1, <<"RENAME", "COLUMN">>) /\ NameAt(ts, 3)
            /\ GoesOn(ts, 4, <<"TO">>) =>
                 \/ 5 <= Len(ts) => ~IsNamePart(ts[5])
                 \/ NameAt(ts, 5) /\ ts[5].atoms = ts[3].atoms
    <2>1. IsKeyword(At(s, i), "RENAME") /\ IsKeyword(At(s, i + 1), "COLUMN")
        BY <1>2, <1>10
    <2>2. Name(s, i + 2).ok /\ Name(s, i + 2).next = i + 3 /\ Name(s, i + 2).name = NameOf(ts[3])
        <3>1. 3 \in Nat /\ 3 > 0
            OBVIOUS
        <3>. QED BY <1>1, <1>10, <3>1, NameInRest
    <2>3. \/ ~IsKeyword(At(s, i + 3), "TO") \/ ~Name(s, i + 4).ok
          \/ Name(s, i + 4).name = Name(s, i + 2).name
        <3>0. 5 \in Nat /\ 5 > 0 /\ i + 4 \in Nat /\ i + 4 > 0
            BY <1>0
        <3>1. CASE ~GoesOn(ts, 4, <<"TO">>)
            BY <1>4, <3>1
        <3>2. CASE 5 <= Len(ts) => ~IsNamePart(ts[5])
            <4>1. ~IsNamePart(At(s, i + 4))
                BY <1>1, <3>0, <3>2, RestSays
            <4>. QED BY <1>0, <3>0, <4>1, NameNone
        <3>3. CASE NameAt(ts, 5) /\ ts[5].atoms = ts[3].atoms
            <4>1. Name(s, i + 4).name = NameOf(ts[5])
                BY <1>1, <3>0, <3>3, NameInRest
            <4>. QED BY <2>2, <3>3, <4>1 DEF NameOf
        <3>. QED BY <1>10, <3>1, <3>2, <3>3
    <2>4. op = ParseRenameColumn(s, table, i + 1)
        BY <1>0, <2>1, VerbIs
    <2>5. Vague(ParseRenameColumn(s, table, i + 1))
        <3>. PICK j : j = i + 1
            OBVIOUS
        <3>1. j \in Nat /\ j + 1 = i + 2 /\ j + 2 = i + 3 /\ j + 3 = i + 4
            BY <1>0, j = i + 1
        <3>2. Vague(ParseRenameColumn(s, table, j))
            BY <2>1, <2>2, <2>3, <3>1, NothingRenamed
        <3>. QED BY <3>2
    <2>. QED BY <2>4, <2>5
<1>11. CASE \E l \in {2, 3} :
              /\ GoesOn(ts, 1, <<"ALTER">>) /\ (l = 3 => GoesOn(ts, 2, <<"COLUMN">>)) /\ NameAt(ts, l)
              /\ \A ws \in {<<"TYPE">>, <<"SET", "DATA", "TYPE">>, <<"SET", "NOT", "NULL">>,
                            <<"DROP", "NOT", "NULL">>} : ~GoesOn(ts, l + 1, ws)
    <2>1. PICK l \in {2, 3} :
              /\ GoesOn(ts, 1, <<"ALTER">>) /\ (l = 3 => GoesOn(ts, 2, <<"COLUMN">>)) /\ NameAt(ts, l)
              /\ \A ws \in {<<"TYPE">>, <<"SET", "DATA", "TYPE">>, <<"SET", "NOT", "NULL">>,
                            <<"DROP", "NOT", "NULL">>} : ~GoesOn(ts, l + 1, ws)
        BY <1>11
    <2>2. l \in Nat /\ l > 0 /\ l + 1 \in Nat /\ l + 1 > 0 /\ i + l \in Nat /\ i + (l + 1) - 1 = i + l
        BY <1>0
    <2>3. IsKeyword(At(s, i), "ALTER")
        BY <1>2, <2>1
    <2>4. Name(s, i + l - 1).ok /\ Name(s, i + l - 1).next = i + l
        BY <2>1, <2>2, NameInRest
    <2>5. Optional(s, i + 1, <<"COLUMN">>) = i + l - 1
        <3>1. CASE l = 3
            <4>1. IsKeyword(At(s, i + 1), "COLUMN")
                BY <1>3, <2>1, <3>1
            <4>. QED BY <1>1, <3>1, <4>1, ClausesAre
        <3>2. CASE l = 2
            <4>1. Says(At(s, i + 1), ts[2]) /\ OrdinaryName(ts[2])
                <5>1. 2 \in Nat /\ 2 > 0 /\ 2 <= Len(ts) /\ OrdinaryName(ts[2])
                    BY <2>1, <3>2 DEF NameAt
                <5>2. Says(At(s, i + 2 - 1), ts[2])
                    BY <5>1, RestAt
                <5>. QED BY <1>1, <5>1, <5>2
            <4>2. ~IsKeyword(At(s, i + 1), "COLUMN")
                BY <4>1, NameSays DEF Reserved
            <4>. QED BY <1>1, <3>2, <4>2, ClausesAre
        <3>. QED BY <3>1, <3>2
    <2>6. \A ws \in {<<"TYPE">>, <<"SET", "DATA", "TYPE">>, <<"SET", "NOT", "NULL">>,
                     <<"DROP", "NOT", "NULL">>} : ~Keywords(s, i + l, ws)
        <3>1. ASSUME NEW ws, IsList(ws), ~GoesOn(ts, l + 1, ws) PROVE ~Keywords(s, i + l, ws)
            BY <2>2, <3>1, RestGoesOn
        <3>2. /\ IsList(<<"TYPE">>) /\ IsList(<<"SET", "DATA", "TYPE">>)
              /\ IsList(<<"SET", "NOT", "NULL">>) /\ IsList(<<"DROP", "NOT", "NULL">>)
            BY Lists
        <3>. QED BY <2>1, <3>1, <3>2
    <2>. PICK column : column = Name(s, i + l - 1).name
        OBVIOUS
    <2>7. AlterNamed(s, table, column, i + l) \in {Unclassified, Malformed}
        BY <2>2, <2>6, OtherwiseAltered
    <2>8. ParseAlterColumn(s, table, i + 1) = AlterNamed(s, table, column, i + l)
        BY <2>4, <2>5 DEF ParseAlterColumn
    <2>9. op \in {Unclassified, Malformed}
        BY <1>0, <2>3, <2>7, <2>8, VerbIs
    <2>. QED BY <2>9 DEF Vague
<1>. QED BY <1>5, <1>6, <1>7, <1>8, <1>9, <1>10, <1>11 DEF OtherAction

-----------------------------------------------------------------------------
(* Statements.                                                               *)

\* Tokens of which the first is a word.
Leads(ts) == IsList(ts) /\ Len(ts) > 0 /\ ts[1].kind = "ident"
\* A word does, a phrase, and what goes on after it.
LEMMA LeadsOn ==
    /\ \A w : Leads(<<Word(w)>>)
    /\ \A v, w : Leads(Phrase(<<v, w>>))
    /\ \A ts, more : Leads(ts) /\ IsList(more) => Leads(ts \o more)
<1>1. ASSUME NEW w PROVE Leads(<<Word(w)>>)
    <2>1. Word(w).kind = "ident"
        BY DEF Word, Written
    <2>. QED BY <2>1, Lists DEF Leads
<1>2. ASSUME NEW v, NEW w PROVE Leads(Phrase(<<v, w>>))
    <2>. PICK ws : ws = <<v, w>>
        OBVIOUS
    <2>1. IsList(ws) /\ Len(ws) = 2 /\ DOMAIN ws = 1 .. 2
        BY Lists
    <2>2. IsList(Phrase(ws)) /\ Len(Phrase(ws)) = 2
        BY <2>1, PhraseList
    <2>3. Phrase(ws)[1].kind = "ident"
        BY <2>1 DEF Phrase, Word, Written
    <2>. QED BY <2>2, <2>3 DEF Leads
<1>3. ASSUME NEW ts, NEW more, Leads(ts), IsList(more) PROVE Leads(ts \o more)
    <2>. PICK both : both = ts \o more
        OBVIOUS
    <2>. PICK m : m = Len(ts)
        OBVIOUS
    <2>. PICK n : n = Len(more)
        OBVIOUS
    <2>1. IsList(ts) /\ m > 0 /\ ts[1].kind = "ident"
        BY <1>3 DEF Leads
    <2>2. /\ IsList(both) /\ m \in Nat /\ n \in Nat /\ Len(both) = m + n
          /\ \A j \in 1 .. m : both[j] = ts[j]
        BY <1>3, <2>1, CatFacts
    <2>3. 1 \in 1 .. m /\ m + n > 0
        BY ONLY <2>1, <2>2
    <2>. QED BY <2>1, <2>2, <2>3 DEF Leads
<1>. QED BY <1>1, <1>2, <1>3

\* The tokens of an action are a list, and do not begin with a point.
LEMMA ActionTokensAre ==
    ASSUME NEW a, OrdinaryAction(a)
    PROVE  IsList(ActionTokens(a)) /\ ~PointAt(ActionTokens(a), 1)
<1>. PICK ts : ts = ActionTokens(a)
    OBVIOUS
<1>0. ASSUME Leads(ts) PROVE IsList(ts) /\ ~PointAt(ts, 1)
    BY <1>0 DEF Leads, PointAt, ThePunct
<1>1. \A c, ws : IsList(ws) => IsList(When(c, Phrase(ws)))
    BY PhraseList, Lists DEF When
<1>2. \A c, p : IsList(p) => IsList(When(c, p))
    BY Lists DEF When
<1>3. \A x, p : IsList(p) => IsList(<<x>> \o p)
    BY Lists, CatFacts
<1>4. \A x : IsList(<<x>>)
    BY Lists
<1>5. IsList(<<"COLUMN">>) /\ IsList(IfExists) /\ IsList(IfNotExists) /\ IsList(NotNull)
      /\ IsList(<<"SET", "DATA">>)
    BY Lists DEF IfExists, IfNotExists, NotNull
<1>6. CASE a.do = "add"
    <2>1. IsList(a.default) /\ OrdinaryType(a.type)
        BY <1>6 DEF OrdinaryAction
    <2>2. IsList(TypeTokens(a.type))
        BY <2>1, TypeTokensAre
    <2>3. IsList(NullTokens(a))
        BY <1>1, <1>5 DEF NullTokens
    <2>4. IsList(DefaultTokens(a))
        <3>1. IsList(<<Word("DEFAULT")>> \o a.default)
            BY <1>3, <2>1
        <3>. QED BY <1>2, <3>1 DEF DefaultTokens
    <2>. PICK rest : rest = IF a.defaultFirst THEN DefaultTokens(a) \o NullTokens(a)
                                              ELSE NullTokens(a) \o DefaultTokens(a)
        OBVIOUS
    <2>5. IsList(rest)
        BY <2>3, <2>4, CatFacts
    <2>. PICK part : part = When(a.explicit, Phrase(<<"COLUMN">>))
        OBVIOUS
    <2>. PICK clause : clause = When(a.ifClause, Phrase(IfNotExists))
        OBVIOUS
    <2>6. IsList(part) /\ IsList(clause)
        BY <1>1, <1>5
    <2>7. Leads(<<Word("ADD")>> \o part \o clause \o <<a.column>> \o TypeTokens(a.type) \o rest)
        BY <1>4, <2>2, <2>5, <2>6, LeadsOn
    <2>8. Leads(ts)
        BY <1>6, <2>7 DEF ActionTokens
    <2>. QED BY <1>0, <2>8
<1>7. CASE a.do = "drop"
    <2>. PICK clause : clause = When(a.ifClause, Phrase(IfExists))
        OBVIOUS
    <2>1. IsList(clause)
        BY <1>1, <1>5
    <2>2. Leads(Phrase(<<"DROP", "COLUMN">>) \o clause \o <<a.column>>)
        BY <1>4, <2>1, LeadsOn
    <2>3. Leads(ts)
        BY <1>7, <2>2 DEF ActionTokens
    <2>. QED BY <1>0, <2>3
<1>8. CASE a.do = "rename"
    <2>1. IsList(<<a.column, Word("TO"), a.newColumn>>)
        BY Lists
    <2>2. Leads(Phrase(<<"RENAME", "COLUMN">>) \o <<a.column, Word("TO"), a.newColumn>>)
        BY <2>1, LeadsOn
    <2>3. Leads(ts)
        BY <1>8, <2>2 DEF ActionTokens
    <2>. QED BY <1>0, <2>3
<1>9. CASE a.do = "type"
    <2>1. IsList(a.default) /\ OrdinaryType(a.type)
        BY <1>9 DEF OrdinaryAction
    <2>2. IsList(TypeTokens(a.type))
        BY <2>1, TypeTokensAre
    <2>. PICK part : part = When(a.explicit, Phrase(<<"COLUMN">>))
        OBVIOUS
    <2>. PICK data : data = When(a.explicit, Phrase(<<"SET", "DATA">>))
        OBVIOUS
    <2>. PICK rest : rest = When(a.default # <<>>, <<Word("USING")>> \o a.default)
        OBVIOUS
    <2>3. IsList(part) /\ IsList(data)
        BY <1>1, <1>5
    <2>4. IsList(rest)
        <3>1. IsList(<<Word("USING")>> \o a.default)
            BY <1>3, <2>1
        <3>. QED BY <1>2, <3>1
    <2>5. Leads(<<Word("ALTER")>> \o part \o <<a.column>> \o data \o <<Word("TYPE")>>
                    \o TypeTokens(a.type) \o rest)
        BY <1>4, <2>2, <2>3, <2>4, LeadsOn
    <2>6. Leads(ts)
        BY <1>9, <2>5 DEF ActionTokens
    <2>. QED BY <1>0, <2>6
<1>10. CASE a.do \in {"setNotNull", "dropNotNull"}
    <2>. PICK part : part = When(a.explicit, Phrase(<<"COLUMN">>))
        OBVIOUS
    <2>. PICK verb : verb = Word(IF a.do = "setNotNull" THEN "SET" ELSE "DROP")
        OBVIOUS
    <2>1. IsList(part) /\ IsList(Phrase(NotNull))
        BY <1>1, <1>5, PhraseList
    <2>2. Leads(<<Word("ALTER")>> \o part \o <<a.column>> \o <<verb>> \o Phrase(NotNull))
        BY <1>4, <2>1, LeadsOn
    <2>3. Leads(ts)
        BY <1>10, <2>2 DEF ActionTokens
    <2>. QED BY <1>0, <2>3
<1>11. CASE a.do = "other"
    <2>1. ts = a.tokens
        BY <1>11 DEF ActionTokens
    <2>2. IsList(ts) /\ OtherAction(ts)
        BY <1>11, <2>1 DEF OrdinaryAction
    <2>3. ASSUME NEW ws, IsList(ws), Len(ws) > 0, GoesOn(ts, 1, ws) PROVE ts[1].kind = "ident"
        <3>1. 1 \in DOMAIN ws
            BY <2>3, TextFacts
        <3>2. TheWord(ts[1 + 1 - 1], ws[1])
            BY <2>3, <3>1 DEF GoesOn
        <3>. QED BY <3>2 DEF TheWord
    <2>4. /\ \A x : GoesOn(ts, 1, <<x>>) => ts[1].kind = "ident"
          /\ \A x, y : GoesOn(ts, 1, <<x, y>>) => ts[1].kind = "ident"
          /\ \A x, y, z : GoesOn(ts, 1, <<x, y, z>>) => ts[1].kind = "ident"
        <3>1. /\ \A x : IsList(<<x>>) /\ Len(<<x>>) > 0
              /\ \A x, y : IsList(<<x, y>>) /\ Len(<<x, y>>) > 0
              /\ \A x, y, z : IsList(<<x, y, z>>) /\ Len(<<x, y, z>>) > 0
            BY Lists
        <3>. QED BY <2>3, <3>1
    <2>5. ~PointAt(ts, 1) \/ ts[1].kind = "ident"
        BY <2>2, <2>4 DEF OtherAction
    <2>. QED BY <2>2, <2>5 DEF PointAt, ThePunct
<1>. QED BY <1>6, <1>7, <1>8, <1>9, <1>10, <1>11 DEF OrdinaryAction

\* An action that is written is read for what it is.
LEMMA ActionRead ==
    ASSUME NEW s, InText(s), NEW i, NEW table, NEW a, OrdinaryAction(a),
           Rest(s, i, ActionTokens(a))
    PROVE  Translates(AlterTable(s, table, i), table, a)
<1>1. CASE a.do = "add"
    BY <1>1, AddRead DEF OrdinaryAction
<1>2. CASE a.do = "drop"
    BY <1>2, DropRead DEF OrdinaryAction
<1>3. CASE a.do = "rename"
    BY <1>3, RenameRead
<1>4. CASE a.do = "type"
    BY <1>4, TypeFormRead
<1>5. CASE a.do \in {"setNotNull", "dropNotNull"}
    BY <1>5, NullabilityRead
<1>6. CASE a.do = "other"
    <2>1. Rest(s, i, a.tokens) /\ OtherAction(a.tokens)
        BY <1>6 DEF ActionTokens, OrdinaryAction
    <2>2. Vague(AlterTable(s, table, i))
        BY <2>1, OtherRead
    <2>. QED BY <1>6, <2>2 DEF Translates
<1>. QED BY <1>1, <1>2, <1>3, <1>4, <1>5, <1>6 DEF OrdinaryAction

\* What the actions of a statement, none or one, are written with.
LEMMA NoActionTokens ==
    ASSUME NEW st, st.actions = <<>>, NEW first
    PROVE  FlattenSeq([i \in DOMAIN st.actions |-> When(i > 1, first) \o ActionTokens(st.actions[i])])
              = <<>>
<1>. PICK seqs : seqs = [i \in DOMAIN st.actions |->
                            When(i > 1, first) \o ActionTokens(st.actions[i])]
    OBVIOUS
<1>1. seqs = <<>>
    OBVIOUS
<1>2. Len(seqs) = 0
    BY <1>1
<1>. QED BY <1>1, <1>2 DEF FlattenSeq

\* A list of one list, flattened.
LEMMA FlattenOne ==
    ASSUME NEW seqs, Len(seqs) = 1
    PROVE  FlattenSeq(seqs) = seqs[1]
<1>. PICK n : n = Len(seqs)
    OBVIOUS
<1> DEFINE f == CHOOSE f : f = [i \in 1 .. Len(seqs) |->
                                  IF i = 1 THEN seqs[i] ELSE f[i - 1] \o seqs[i]]
<1>0. n = 1 /\ n \in Nat /\ 1 \in 1 .. n
    OBVIOUS
<1>1. FlattenSeq(seqs) = f[n]
    BY <1>0 DEF FlattenSeq
<1>2. Flattens(f, seqs, n)
    <2>1. \E g : Flattens(g, seqs, n)
        BY <1>0, FlattensExists
    <2>. QED BY <2>1 DEF Flattens
<1> HIDE DEF f
<1>3. f[1] = seqs[1]
    BY <1>0, <1>2 DEF Flattens
<1>. QED BY <1>0, <1>1, <1>3

\* What a statement of one action is written with.
LEMMA OneActionTokens ==
    ASSUME NEW st, IsList(st.actions), Len(st.actions) = 1, IsList(ActionTokens(st.actions[1])), NEW first
    PROVE  FlattenSeq([i \in DOMAIN st.actions |-> When(i > 1, first) \o ActionTokens(st.actions[i])])
              = ActionTokens(st.actions[1])
<1>. PICK ts : ts = ActionTokens(st.actions[1])
    OBVIOUS
<1>. PICK seqs : seqs = [i \in DOMAIN st.actions |->
                            When(i > 1, first) \o ActionTokens(st.actions[i])]
    OBVIOUS
<1>1. DOMAIN st.actions = 1 .. 1
    BY TextFacts
<1>2. seqs[1] = ts
    <2>1. seqs[1] = When(1 > 1, first) \o ts
        BY <1>1
    <2>2. When(1 > 1, first) = <<>>
        BY DEF When
    <2>3. <<>> \o ts = ts
        BY ConcatEmptySeq DEF IsList
    <2>. QED BY <2>1, <2>2, <2>3
<1>3. Len(seqs) = 1
    <2>1. seqs \in [1 .. 1 -> {seqs[k] : k \in 1 .. 1}]
        BY <1>1
    <2>. QED BY <2>1, FunctionsAreSeqs
<1>4. FlattenSeq(seqs) = ts
    BY ONLY <1>2, <1>3, FlattenOne
<1>. QED BY ONLY <1>4, seqs = [i \in DOMAIN st.actions |->
                            When(i > 1, first) \o ActionTokens(st.actions[i])],
                ts = ActionTokens(st.actions[1])

\* What a statement means.
StatementMeant(op, st) ==
    IF st.actions = <<>> THEN Vague(op) ELSE Translates(op, NameOf(st.table), st.actions[1])

\* A statement begins with the table's name.
LEMMA TableRead ==
    ASSUME NEW s, NEW b, NEW c, NEW d, NEW more,
           b = Phrase(IfExists) \/ b = <<>>,
           c = <<Word("public"), Punct(".")>> \/ c = <<>>,
           OrdinaryName(d), IsList(more), ~PointAt(more, 1),
           Rest(s, 1, Phrase(<<"ALTER", "TABLE">>) \o b \o c \o <<d>> \o more)
    PROVE  \E i : ParseStatement(s) = AlterTable(s, NameOf(d), i) /\ Rest(s, i, more)
<1>. PICK N : N = Len(s)
    OBVIOUS
<1>. PICK a : a = Phrase(<<"ALTER", "TABLE">>)
    OBVIOUS
<1>. PICK u : u = Word("public")
    OBVIOUS
<1>. PICK p : p = Punct(".")
    OBVIOUS
<1>1. /\ IsList(a) /\ IsList(b) /\ IsList(c) /\ IsList(<<d>>)
      /\ IsList(a \o b) /\ IsList(a \o b \o c) /\ IsList(a \o b \o c \o <<d>>)
    <2>1. IsList(a) /\ IsList(b) /\ IsList(c) /\ IsList(<<d>>)
        <3>1. IsList(<<"ALTER", "TABLE">>) /\ IsList(<<"IF", "EXISTS">>)
            BY Lists
        <3>2. IsList(a)
            BY <3>1, PhraseList
        <3>3. IsList(b)
            BY <3>1, PhraseList, Lists DEF IfExists
        <3>. QED BY <3>2, <3>3, Lists
    <2>2. IsList(a \o b)
        BY <2>1, CatFacts
    <2>3. IsList(a \o b \o c)
        BY <2>1, <2>2, CatFacts
    <2>4. IsList(a \o b \o c \o <<d>>)
        BY <2>1, <2>3, CatFacts
    <2>. QED BY <2>1, <2>2, <2>3, <2>4
<1>2. Read(s, 1, a \o b \o c \o <<d>> \o more, N + 1)
    BY DEF Rest
<1>3. PICK e : Read(s, 1, a \o b \o c \o <<d>>, e) /\ Read(s, e, more, N + 1)
    BY <1>1, <1>2, ReadCat
<1>4. PICK t : Read(s, 1, a \o b \o c, t) /\ Read(s, t, <<d>>, e)
    BY <1>1, <1>3, ReadCat
<1>5. PICK l : Read(s, 1, a \o b, l) /\ Read(s, l, c, t)
    BY <1>1, <1>4, ReadCat
<1>6. PICK k : Read(s, 1, a, k) /\ Read(s, k, b, l)
    BY <1>1, <1>5, ReadCat
<1>7. Keywords(s, 1, <<"ALTER", "TABLE">>) /\ k = 3
    <2>1. IsList(<<"ALTER", "TABLE">>) /\ Len(<<"ALTER", "TABLE">>) = 2
        BY Lists
    <2>2. Keywords(s, 1, <<"ALTER", "TABLE">>) /\ k = 1 + 2
        BY <1>6, <2>1, ReadWords
    <2>. QED BY <2>2
<1>8. e = t + 1 /\ t \in Nat /\ t > 0 /\ t <= N /\ N \in Nat /\ Says(At(s, t), d)
    BY <1>4, ReadOne
<1>9. Rest(s, e, more)
    BY <1>3 DEF Rest
<1>10. ~IsPunct(At(s, e), ".")
    <2>1. IsPunct(At(s, e + 1 - 1), ".") <=> 1 <= Len(more) /\ ThePunct(more[1], ".")
        BY <1>9, RestSays
    <2>2. e + 1 - 1 = e
        BY <1>8
    <2>. QED BY <2>1, <2>2 DEF PointAt
\* The schema, if there is one, and the clause before it.
<1>11. /\ ~IsKeyword(At(s, l), "IF") /\ l \in Nat
       /\ Name(s, l).ok /\ Name(s, l).name = NameOf(d) /\ Name(s, l).next = e
    <2>1. CASE c = <<>>
        <3>1. t = l
            BY <1>5, <2>1, ReadNone
        <3>2. Name(s, l).ok /\ Name(s, l).name = NameOf(d) /\ Name(s, l).next = e
            BY <1>8, <1>10, <3>1, NameHere
        <3>3. l \in Nat /\ ~IsKeyword(At(s, l), "IF")
            BY <1>8, <3>1, NameSays DEF Reserved
        <3>. QED BY <3>2, <3>3
    <2>2. CASE c = <<u, p>>
        <3>. PICK two : two = <<u, p>>
            OBVIOUS
        <3>1. Len(two) = 2 /\ two[1] = u /\ two[2] = p /\ Read(s, l, two, t)
            BY <1>5, <2>2
        <3>2. /\ l \in Nat /\ l > 0 /\ t = l + 2
              /\ \A j \in 1 .. 2 : Says(s[l + j - 1], two[j])
            BY <3>1 DEF Read
        <3>3. Says(At(s, l), u) /\ Says(At(s, l + 1), p)
            <4>1. l + 1 - 1 = l /\ l + 2 - 1 = l + 1 /\ l <= N /\ l + 1 <= N
                BY <1>8, <3>2
            <4>2. Says(s[l + 1 - 1], two[1]) /\ Says(s[l + 2 - 1], two[2])
                BY <3>2
            <4>. QED BY <3>1, <4>1, <4>2 DEF At
        <3>4. ~IsKeyword(At(s, l), "IF")
            BY <3>3, WordSays
        <3>5. IsNamePart(At(s, l)) /\ IsPunct(At(s, l + 1), ".")
            BY <3>3 DEF Says, Word, Punct, Written, IsNamePart, IsPunct
        <3>6. l + 2 = t /\ l + 3 = e /\ N > 0
            BY <1>8, <3>2
        <3>7. Name(s, l).ok /\ Name(s, l).name = NameOf(d) /\ Name(s, l).next = l + 3
            BY <1>8, <1>10, <3>2, <3>5, <3>6, QualifiedNameHere
        <3>. QED BY <3>2, <3>4, <3>6, <3>7
    <2>. QED BY <2>1, <2>2
<1>12. Optional(s, 3, IfExists) = l /\ ~HalfClause(s, 3, IfExists)
    <2>. PICK j : j = 3
        OBVIOUS
    <2>0. j \in Nat /\ Read(s, j, b, l)
        BY <1>6, <1>7
    <2>1. CASE b = <<>>
        <3>1. l = j
            BY <2>0, <2>1, ReadNone
        <3>2. Optional(s, j, IfExists) = l /\ ~HalfClause(s, j, IfExists)
            BY <1>11, <2>0, <3>1, ClausesAre
        <3>. QED BY <3>2
    <2>2. CASE b = Phrase(IfExists)
        <3>1. IsList(<<"IF", "EXISTS">>) /\ Len(<<"IF", "EXISTS">>) = 2
            BY Lists
        <3>2. Keywords(s, j, <<"IF", "EXISTS">>) /\ l = j + 2
            BY <2>0, <2>2, <3>1, ReadWords DEF IfExists
        <3>3. IsKeyword(At(s, j), "IF") /\ IsKeyword(At(s, j + 1), "EXISTS")
            BY <2>0, <3>2, KeywordsAre
        <3>4. Optional(s, j, IfExists) = l /\ ~HalfClause(s, j, IfExists)
            BY <2>0, <3>2, <3>3, ClausesAre
        <3>. QED BY <3>4
    <2>. QED BY <2>1, <2>2
<1>13. ParseStatement(s) = AlterTable(s, NameOf(d), e)
    BY <1>7, <1>11, <1>12 DEF ParseStatement
<1>. QED BY <1>9, <1>13

\* A statement that is written is read for what it means.
LEMMA StatementRead ==
    ASSUME NEW s, InText(s), NEW st, OrdinaryStatement(st), Rest(s, 1, StatementTokens(st))
    PROVE  StatementMeant(ParseStatement(s), st)
<1>b. PICK b : b = When(st.ifExists, Phrase(IfExists))
    OBVIOUS
<1>c. PICK c : c = When(st.qualified, <<Word("public"), Punct(".")>>)
    OBVIOUS
<1>m. PICK more : more = FlattenSeq([i \in DOMAIN st.actions |->
                        When(i > 1, <<Punct(",")>>) \o ActionTokens(st.actions[i])])
    OBVIOUS
<1>1. /\ b = Phrase(IfExists) \/ b = <<>>
      /\ c = <<Word("public"), Punct(".")>> \/ c = <<>>
    BY <1>b, <1>c DEF When
<1>2. /\ OrdinaryName(st.table) /\ IsList(st.actions) /\ Len(st.actions) < 2
      /\ \A a \in ToSet(st.actions) : OrdinaryAction(a)
    BY DEF OrdinaryStatement
<1>3. Rest(s, 1, Phrase(<<"ALTER", "TABLE">>) \o b \o c \o <<st.table>> \o more)
    BY <1>b, <1>c, <1>m DEF StatementTokens
<1>4. CASE st.actions = <<>>
    <2>1. more = <<>>
        BY <1>4, <1>m, NoActionTokens
    <2>2. IsList(more) /\ Len(more) = 0 /\ ~PointAt(more, 1)
        BY <2>1, Lists DEF PointAt
    <2>3. PICK i : ParseStatement(s) = AlterTable(s, NameOf(st.table), i) /\ Rest(s, i, more)
        BY <1>1, <1>2, <1>3, <2>2, TableRead
    <2>4. i \in Nat /\ Len(s) \in Nat /\ i > Len(s)
        <3>1. i \in Nat /\ Len(s) \in Nat /\ i + Len(more) = Len(s) + 1
            BY <2>3, RestAt
        <3>. QED BY <2>2, <3>1
    <2>5. AlterTable(s, NameOf(st.table), i) = Unclassified
        <3>1. \A w : ~IsKeyword(At(s, i), w)
            BY <2>4, EndSays
        <3>. QED BY <2>4, <3>1, VerbIs
    <2>. QED BY <1>4, <2>3, <2>5 DEF StatementMeant, Vague
<1>5. CASE st.actions # <<>>
    <2>. PICK a : a = st.actions[1]
        OBVIOUS
    <2>1. Len(st.actions) = 1 /\ a \in ToSet(st.actions)
        <3>1. Len(st.actions) \in Nat /\ DOMAIN st.actions = 1 .. Len(st.actions)
              /\ st.actions \in Seq(ToSet(st.actions))
            BY <1>2, TextFacts DEF IsList
        <3>2. Len(st.actions) # 0
            BY <1>5, <3>1
        <3>. PICK n : n = Len(st.actions)
            OBVIOUS
        <3>3. Len(st.actions) = 1
            <4>1. Len(st.actions) < 2
                BY DEF OrdinaryStatement
            <4>2. n \in Nat /\ n < 2 /\ n # 0
                BY ONLY <4>1, <3>1, <3>2, n = Len(st.actions)
            <4>3. n = 1
                BY ONLY <4>2
            <4>. QED BY <4>3
        <3>4. 1 \in DOMAIN st.actions
            BY <3>1, <3>3
        <3>. QED BY <3>3, <3>4 DEF ToSet
    <2>2. OrdinaryAction(a)
        BY <1>2, <2>1
    <2>3. IsList(ActionTokens(a)) /\ ~PointAt(ActionTokens(a), 1)
        BY <2>2, ActionTokensAre
    <2>4. more = ActionTokens(a)
        BY <1>2, <1>m, <2>1, <2>3, OneActionTokens
    <2>5. PICK i : ParseStatement(s) = AlterTable(s, NameOf(st.table), i) /\ Rest(s, i, more)
        BY <1>1, <1>2, <1>3, <2>3, <2>4, TableRead
    <2>6. Translates(AlterTable(s, NameOf(st.table), i), NameOf(st.table), a)
        BY <2>2, <2>4, <2>5, ActionRead
    <2>. QED BY <1>5, <2>5, <2>6 DEF StatementMeant
<1>. QED BY <1>4, <1>5

-----------------------------------------------------------------------------
(* A file cut into its statements.                                           *)

EndsStatement(t) == IsPunct(t, ";")
Split1(c, d, acc, t) == IF EndsStatement(t) THEN EndStatement(acc)
                                            ELSE [acc EXCEPT !.cur = Append(@, t)]
Splitting == INSTANCE FoldFacts WITH Op <- Split1

\* s is the m tokens of read after the first o.
Part(s, read, o, m) == /\ IsList(s) /\ Len(s) = m /\ m \in Nat
                       /\ \A j \in 1 .. m : s[j] = read[o + j]
\* Where the statements of lengths len[1] .. len[n] are in read: the kth begins
\* after off[k - 1] tokens and has a semicolon after it, but for the last one.
Divided(read, len, off, n) ==
    /\ n \in Nat /\ IsList(read) /\ Len(read) \in Nat /\ off[0] = 0 /\ off[n] = Len(read)
    /\ \A k \in 0 .. n : off[k] \in Nat /\ off[k] <= off[n]
    /\ \A k \in 1 .. n :
          /\ len[k] \in Nat /\ len[k] > 0
          /\ \A j \in 1 .. len[k] : ~EndsStatement(read[off[k - 1] + j])
          /\ \/ off[k] = off[k - 1] + len[k] /\ k = n
             \/ off[k] = off[k - 1] + len[k] + 1 /\ EndsStatement(read[off[k]])

\* What has been cut of the first i tokens: q statements, and the beginning of
\* the next one.
CutInto(acc, i, q, read, len, off, n) ==
    /\ q \in 0 .. n /\ acc = [stmts |-> acc.stmts, cur |-> acc.cur]
    /\ IsList(acc.stmts) /\ Len(acc.stmts) = q
    /\ \A k \in 1 .. q : Part(acc.stmts[k], read, off[k - 1], len[k])
    /\ Part(acc.cur, read, off[q], i - off[q])
    /\ q = n => acc.cur = <<>>
    /\ q < n => i - off[q] <= len[q + 1]

\* A token more.
LEMMA CutFurther ==
    ASSUME NEW read, NEW len, NEW off, NEW n, Divided(read, len, off, n),
           NEW acc, NEW i \in Nat, i < Len(read), NEW q, CutInto(acc, i, q, read, len, off, n),
           NEW next0, NEW t, t = read[i + 1], next0 = Split1(0, 0, acc, t)
    PROVE  \E p : CutInto(next0, i + 1, p, read, len, off, n)
<1>. PICK L : L = i - off[q]
    OBVIOUS
<1>. PICK cur : cur = acc.cur
    OBVIOUS
<1>. PICK done : done = acc.stmts
    OBVIOUS
<1>1. /\ n \in Nat /\ Len(read) \in Nat /\ off[n] = Len(read)
      /\ \A k \in 0 .. n : off[k] \in Nat /\ off[k] <= off[n]
      /\ \A k \in 1 .. n :
            /\ len[k] \in Nat /\ len[k] > 0
            /\ \A j \in 1 .. len[k] : ~EndsStatement(read[off[k - 1] + j])
            /\ \/ off[k] = off[k - 1] + len[k] /\ k = n
               \/ off[k] = off[k - 1] + len[k] + 1 /\ EndsStatement(read[off[k]])
    BY DEF Divided
<1>2. /\ q \in 0 .. n /\ acc = [stmts |-> done, cur |-> cur]
      /\ IsList(done) /\ Len(done) = q
      /\ \A k \in 1 .. q : Part(done[k], read, off[k - 1], len[k])
      /\ Part(cur, read, off[q], L)
      /\ q = n => cur = <<>>
      /\ q < n => L <= len[q + 1]
    BY DEF CutInto
<1>3. /\ IsList(cur) /\ Len(cur) = L /\ L \in Nat
      /\ \A j \in 1 .. L : cur[j] = read[off[q] + j]
    BY <1>2 DEF Part
<1>4. q < n /\ i = off[q] + L /\ q + 1 \in 1 .. n /\ q \in Nat /\ off[q] \in Nat /\ q + 1 - 1 = q
    <2>1. q \in Nat /\ q <= n /\ off[q] \in Nat
        BY <1>1, <1>2
    <2>2. i = off[q] + L
        BY <2>1
    <2>3. q # n
        <3>1. ASSUME q = n PROVE FALSE
            <4>1. L = 0
                BY <1>2, <1>3, <3>1
            <4>. QED BY <1>1, <2>1, <2>2, <3>1, <4>1
        <3>. QED BY <3>1
    <2>. QED BY <1>1, <2>1, <2>2, <2>3
<1>. PICK m : m = len[q + 1]
    OBVIOUS
<1>5. /\ m \in Nat /\ m > 0 /\ L <= m
      /\ \A j \in 1 .. m : ~EndsStatement(read[off[q] + j])
      /\ \/ off[q + 1] = off[q] + m /\ q + 1 = n
         \/ off[q + 1] = off[q] + m + 1 /\ EndsStatement(read[off[q + 1]])
    BY <1>1, <1>2, <1>4
\* It belongs to the statement.
<1>6. CASE L < m
    <2>1. off[q] + (L + 1) = i + 1 /\ L + 1 \in 1 .. m /\ L + 1 \in Nat /\ L + 1 <= m
          /\ (i + 1) - off[q] = L + 1
        <3>. PICK o : o = off[q]
            OBVIOUS
        <3>1. i = o + L /\ o \in Nat /\ L \in Nat /\ m \in Nat
            BY <1>3, <1>4, <1>5
        <3>2. /\ o + (L + 1) = i + 1 /\ L + 1 \in 1 .. m /\ L + 1 \in Nat /\ L + 1 <= m
              /\ (i + 1) - o = L + 1
            BY ONLY <1>6, <3>1
        <3>. QED BY <3>2
    <2>2. ~EndsStatement(t)
        BY <1>5, <2>1
    <2>. PICK more : more = Append(cur, t)
        OBVIOUS
    <2>3. next0 = [stmts |-> done, cur |-> more]
        BY <1>2, <2>2 DEF Split1
    <2>4. Part(more, read, off[q], L + 1)
        <3>1. IsList(more) /\ Len(more) = L + 1
            BY <1>3, TextFacts
        <3>2. ASSUME NEW j \in 1 .. L + 1 PROVE more[j] = read[off[q] + j]
            <4>0. cur \in Seq(ToSet(cur)) /\ L = Len(cur)
                BY <1>3 DEF IsList
            <4>1. CASE j \in 1 .. L
                <5>1. more[j] = cur[j]
                    BY <4>0, <4>1
                <5>. QED BY <1>3, <4>1, <5>1
            <4>2. CASE j = L + 1
                <5>1. more[j] = t
                    BY <4>0, <4>2
                <5>. QED BY <2>1, <4>2, <5>1
            <4>. QED BY <1>3, <4>1, <4>2
        <3>. QED BY <2>1, <3>1, <3>2 DEF Part
    <2>5. CutInto(next0, i + 1, q, read, len, off, n)
        <3>1. next0.stmts = done /\ next0.cur = more
            BY <2>3
        <3>2. q # n
            BY <1>4
        <3>. QED BY <1>2, <2>1, <2>3, <2>4, <3>1, <3>2 DEF CutInto
    <2>. QED BY <2>5
\* It ends the statement.
<1>7. CASE L = m
    <2>1. off[q + 1] = i + 1 /\ EndsStatement(t)
        <3>1. off[q + 1] # off[q] + m \/ q + 1 # n
            BY <1>1, <1>4, <1>7
        <3>. QED BY <1>4, <1>5, <1>7, <3>1
    <2>2. cur # <<>>
        BY <1>3, <1>5, <1>7
    <2>. PICK more : more = Append(done, cur)
        OBVIOUS
    <2>3. next0 = [stmts |-> more, cur |-> <<>>]
        BY <1>2, <2>1, <2>2 DEF Split1, EndStatement
    <2>4. IsList(more) /\ Len(more) = q + 1
        BY <1>2, TextFacts
    <2>5. ASSUME NEW k \in 1 .. q + 1 PROVE Part(more[k], read, off[k - 1], len[k])
        <3>0. done \in Seq(ToSet(done)) /\ q = Len(done)
            BY <1>2 DEF IsList
        <3>1. CASE k \in 1 .. q
            <4>1. more[k] = done[k]
                BY <3>0, <3>1
            <4>. QED BY <1>2, <3>1, <4>1
        <3>2. CASE k = q + 1
            <4>1. more[k] = cur
                BY <3>0, <3>2
            <4>. QED BY <1>2, <1>4, <1>7, <3>2, <4>1
        <3>3. k \in 1 .. q \/ k = q + 1
            BY ONLY <1>4, k \in 1 .. q + 1
        <3>. QED BY <3>1, <3>2, <3>3
    <2>6. Part(<<>>, read, off[q + 1], (i + 1) - off[q + 1])
        <3>1. (i + 1) - off[q + 1] = 0
            BY <2>1
        <3>2. IsList(<<>>) /\ Len(<<>>) = 0 /\ 1 .. 0 = {}
            BY Lists
        <3>. QED BY <3>1, <3>2 DEF Part
    <2>7. q + 1 < n => (i + 1) - off[q + 1] <= len[q + 1 + 1]
        <3>1. ASSUME q + 1 < n PROVE len[q + 1 + 1] \in Nat
            <4>1. q + 1 + 1 \in 1 .. n
                BY <1>1, <1>4, <3>1
            <4>. QED BY <1>1, <4>1
        <3>2. (i + 1) - off[q + 1] = 0
            BY <2>1
        <3>. QED BY <3>1, <3>2
    <2>8. CutInto(next0, i + 1, q + 1, read, len, off, n)
        <3>1. next0.stmts = more /\ next0.cur = <<>>
            BY <2>3
        <3>2. q + 1 \in 0 .. n
            BY <1>1, <1>4
        <3>. QED BY <2>3, <2>4, <2>5, <2>6, <2>7, <3>1, <3>2 DEF CutInto
    <2>. QED BY <2>8
<1>. QED BY <1>3, <1>5, <1>6, <1>7

\* A file is cut into its statements.
LEMMA SplitIs ==
    ASSUME NEW read, NEW len, NEW off, NEW n, Divided(read, len, off, n)
    PROVE  /\ IsList(SplitStatements(read)) /\ Len(SplitStatements(read)) = n
           /\ \A k \in 1 .. n : Part(SplitStatements(read)[k], read, off[k - 1], len[k])
<1>. PICK N : N = Len(read)
    OBVIOUS
<1>. PICK e : e = <<>>
    OBVIOUS
<1>. PICK base : base = [stmts |-> e, cur |-> e]
    OBVIOUS
<1> DEFINE f == Splitting!Stages(0, 0, base, read, N)
<1> HIDE DEF f
<1>1. /\ n \in Nat /\ IsList(read) /\ N \in Nat /\ off[0] = 0 /\ off[n] = N
      /\ \A k \in 0 .. n : off[k] \in Nat /\ off[k] <= off[n]
      /\ \A k \in 1 .. n :
            /\ len[k] \in Nat /\ len[k] > 0
            /\ \/ off[k] = off[k - 1] + len[k] /\ k = n
               \/ off[k] = off[k - 1] + len[k] + 1 /\ EndsStatement(read[off[k]])
    BY DEF Divided
<1>2. /\ f[0] = base /\ f[N] = Splitting!Fold(0, 0, base, read)
      /\ \A k \in 1 .. N : f[k] = Split1(0, 0, f[k - 1], read[k])
    <2>1. DOMAIN read = 1 .. N
        BY <1>1, TextFacts
    <2>2. Splitting!Passes(f, 0, 0, base, read, N)
        BY <1>1, <2>1, Splitting!FoldSteps DEF f
    <2>. QED BY <2>2 DEF Splitting!Passes
<1> DEFINE T == {i \in Nat : i <= N => \E q : CutInto(f[i], i, q, read, len, off, n)}
<1>3. 0 \in T
    <2>1. f[0].stmts = e /\ f[0].cur = e /\ f[0] = [stmts |-> e, cur |-> e]
        BY <1>2
    <2>2. IsList(e) /\ Len(e) = 0
        BY Lists
    <2>3. 0 - off[0] = 0 /\ 0 \in 0 .. n
        BY <1>1
    <2>4. Part(e, read, off[0], 0 - off[0])
        <3>1. 1 .. 0 = {} /\ 0 \in Nat
            OBVIOUS
        <3>. QED BY <2>2, <2>3, <3>1 DEF Part
    <2>5. 0 < n => 0 - off[0] <= len[0 + 1]
        <3>1. ASSUME 0 < n PROVE len[0 + 1] \in Nat
            <4>1. 0 + 1 \in 1 .. n
                BY <1>1, <3>1
            <4>. QED BY <1>1, <4>1
        <3>. QED BY <2>3, <3>1
    <2>6. 1 .. 0 = {}
        OBVIOUS
    <2>7. CutInto(f[0], 0, 0, read, len, off, n)
        BY <2>1, <2>2, <2>3, <2>4, <2>5, <2>6 DEF CutInto
    <2>. QED BY <2>7
<1>4. ASSUME NEW i \in Nat, i \in T PROVE i + 1 \in T
    <2> SUFFICES ASSUME i + 1 <= N PROVE \E q : CutInto(f[i + 1], i + 1, q, read, len, off, n)
        OBVIOUS
    <2>1. i <= N /\ i < N /\ i + 1 \in 1 .. N /\ i + 1 - 1 = i
        BY <1>1
    <2>. PICK acc : acc = f[i]
        OBVIOUS
    <2>2. PICK q : CutInto(acc, i, q, read, len, off, n)
        BY <1>4, <2>1
    <2>3. f[i + 1] = Split1(0, 0, acc, read[i + 1])
        BY <1>2, <2>1
    <2>4. i < Len(read)
        BY <2>1
    <2>. QED BY <2>2, <2>3, <2>4, CutFurther
<1> HIDE DEF T
<1>5. PICK q : CutInto(f[N], N, q, read, len, off, n)
    <2>1. Nat \subseteq T
        BY <1>3, <1>4, Count!Induction
    <2>2. N \in T
        BY <1>1, <2>1
    <2>. QED BY <1>1, <2>2 DEF T
<1>. PICK acc : acc = f[N]
    OBVIOUS
<1>. PICK cur : cur = acc.cur
    OBVIOUS
<1>. PICK done : done = acc.stmts
    OBVIOUS
<1>6. SplitStatements(read) = LastStatement(acc)
    <2>1. SplitStatements(read) = LastStatement(Splitting!Fold(0, 0, [stmts |-> <<>>, cur |-> <<>>], read))
        BY ONLY TRUE DEF SplitStatements, Splitting!Fold, Split1, EndsStatement,
               FoldLeft, Splitting!FoldLeft, MapThenFoldSet, Splitting!MapThenFoldSet, Max, Splitting!Max
    <2>. QED BY <1>2, <2>1
<1>7. LastStatement(acc) = IF cur = <<>> THEN done ELSE Append(done, cur)
    BY DEF LastStatement, EndStatement
<1>8. /\ q \in 0 .. n /\ IsList(done) /\ Len(done) = q
      /\ \A k \in 1 .. q : Part(done[k], read, off[k - 1], len[k])
      /\ Part(cur, read, off[q], N - off[q])
      /\ q = n => cur = <<>>
      /\ q < n => N - off[q] <= len[q + 1]
    BY <1>5 DEF CutInto
<1>9. CASE q = n
    BY <1>6, <1>7, <1>8, <1>9
<1>10. CASE q # n
    <2>. PICK m : m = len[q + 1]
        OBVIOUS
    <2>. PICK L : L = N - off[q]
        OBVIOUS
    <2>. PICK o : o = off[q]
        OBVIOUS
    <2>. PICK o1 : o1 = off[q + 1]
        OBVIOUS
    <2>1. q \in Nat /\ q < n /\ q + 1 \in 1 .. n /\ q + 1 \in 0 .. n /\ q + 1 - 1 = q
        BY <1>1, <1>8, <1>10
    <2>2. /\ o \in Nat /\ o1 \in Nat /\ o1 <= N /\ m \in Nat /\ m > 0 /\ L <= m
          /\ \/ o1 = o + m /\ q + 1 = n
             \/ o1 = o + m + 1
        BY <1>1, <1>8, <2>1
    <2>3. q + 1 = n /\ L = m /\ L > 0
        BY ONLY <1>1, <2>1, <2>2, L = N - off[q], o = off[q]
    <2>4. Part(cur, read, o, m)
        BY <1>8, <2>3
    <2>5. cur # <<>>
        <3>1. Len(cur) > 0
            BY <2>2, <2>4 DEF Part
        <3>. QED BY <3>1
    <2>. PICK more : more = Append(done, cur)
        OBVIOUS
    <2>6. IsList(more) /\ Len(more) = n
        BY <1>8, <2>3, TextFacts
    <2>7. ASSUME NEW k \in 1 .. n PROVE Part(more[k], read, off[k - 1], len[k])
        <3>0. done \in Seq(ToSet(done)) /\ q = Len(done)
            BY <1>8 DEF IsList
        <3>1. CASE k \in 1 .. q
            <4>1. more[k] = done[k]
                BY <3>0, <3>1
            <4>. QED BY <1>8, <3>1, <4>1
        <3>2. CASE k = q + 1
            <4>1. more[k] = cur
                BY <3>0, <3>2
            <4>. QED BY <2>1, <2>4, <3>2, <4>1
        <3>3. k \in 1 .. q \/ k = q + 1
            BY ONLY <2>1, <2>3, k \in 1 .. n
        <3>. QED BY <3>1, <3>2, <3>3
    <2>8. SplitStatements(read) = more
        BY <1>6, <1>7, <2>5
    <2>. QED BY <2>6, <2>7, <2>8
<1>. QED BY <1>9, <1>10

\* A statement begins with a word, and no semicolon is in it.
Semicolon(t) == ThePunct(t, ";")
\* So it is with what a statement is written with.
LEMMA StatementTokensAre ==
    ASSUME NEW st, OrdinaryStatement(st)
    PROVE  /\ Leads(StatementTokens(st))
           /\ \A j \in 1 .. Len(StatementTokens(st)) : ~Semicolon(StatementTokens(st)[j])
<1>b. PICK b : b = When(st.ifExists, Phrase(IfExists))
    OBVIOUS
<1>c. PICK c : c = When(st.qualified, <<Word("public"), Punct(".")>>)
    OBVIOUS
<1>m. PICK more : more = FlattenSeq([i \in DOMAIN st.actions |->
                        When(i > 1, <<Punct(",")>>) \o ActionTokens(st.actions[i])])
    OBVIOUS
<1>1. StatementTokens(st) = Phrase(<<"ALTER", "TABLE">>) \o b \o c \o <<st.table>> \o more
    BY <1>b, <1>c, <1>m DEF StatementTokens
<1>2. IsList(b)
    <2>1. b = Phrase(IfExists) \/ b = <<>>
        BY <1>b DEF When
    <2>2. IsList(<<"IF", "EXISTS">>)
        BY Lists
    <2>. QED BY <2>1, <2>2, PhraseList, Lists DEF IfExists
<1>3. IsList(c)
    <2>1. c = <<Word("public"), Punct(".")>> \/ c = <<>>
        BY <1>c DEF When
    <2>. QED BY <2>1, Lists
<1>4. IsList(more)
    <2>1. IsList(st.actions) /\ Len(st.actions) < 2
        BY DEF OrdinaryStatement
    <2>2. \A a \in ToSet(st.actions) : OrdinaryAction(a)
        BY DEF OrdinaryStatement
    <2>3. CASE st.actions = <<>>
        <3>1. more = <<>>
            BY <1>m, <2>3, NoActionTokens
        <3>. QED BY <3>1, Lists
    <2>4. CASE st.actions # <<>>
        <3>. PICK n : n = Len(st.actions)
            OBVIOUS
        <3>1. n \in Nat /\ DOMAIN st.actions = 1 .. n /\ st.actions \in Seq(ToSet(st.actions))
            BY <2>1, TextFacts DEF IsList
        <3>2. n # 0
            BY <2>4, <3>1
        <3>3. n = 1
            <4>1. n \in Nat /\ n < 2
                BY <2>1, <3>1
            <4>. QED BY ONLY <3>2, <4>1
        <3>4. st.actions[1] \in ToSet(st.actions)
            <4>1. 1 \in DOMAIN st.actions
                BY <3>1, <3>3
            <4>. QED BY <4>1 DEF ToSet
        <3>5. IsList(ActionTokens(st.actions[1]))
            BY <2>2, <3>4, ActionTokensAre
        <3>6. more = ActionTokens(st.actions[1])
            BY <1>m, <2>1, <3>3, <3>5, OneActionTokens
        <3>. QED BY <3>5, <3>6
    <2>. QED BY <2>3, <2>4
<1>5. Leads(StatementTokens(st))
    <2>1. IsList(<<st.table>>)
        BY Lists
    <2>. QED BY <1>1, <1>2, <1>3, <1>4, <2>1, LeadsOn
<1>6. ASSUME NEW j \in 1 .. Len(StatementTokens(st)) PROVE ~Semicolon(StatementTokens(st)[j])
    <2>. PICK u : u = StatementTokens(st)
        OBVIOUS
    <2>1. DOMAIN u = 1 .. Len(u)
        BY <1>5, TextFacts DEF Leads
    <2>2. u[j] \in ToSet(u)
        BY <2>1 DEF ToSet
    <2>3. \A t \in ToSet(u) : ~Semicolon(t)
        BY DEF OrdinaryStatement, Semicolon
    <2>. QED BY <2>2, <2>3
<1>. QED BY <1>5, <1>6

\* The tokens of a script are those of its statements, one after the other.
InPieces(sc, n) ==
    \E off, pieces, x :
       /\ Semicolon(x) /\ Offsets(off, pieces, n, ScriptTokens(sc))
       /\ \A k \in 1 .. n :
             pieces[k] = StatementTokens(sc.statements[k]) \o When(sc.ended \/ k < n, <<x>>)
\* So it is when every statement is ordinary.
LEMMA ScriptTokensAre ==
    ASSUME NEW sc, IsList(sc.statements),
           \A st \in ToSet(sc.statements) : OrdinaryStatement(st),
           NEW n, n = Len(sc.statements)
    PROVE  /\ n \in Nat
           /\ \A k \in 1 .. n : OrdinaryStatement(sc.statements[k])
           /\ InPieces(sc, n)
<1>. PICK stm : stm = sc.statements
    OBVIOUS
<1>1. n \in Nat /\ DOMAIN stm = 1 .. n
    BY TextFacts
<1>2. \A k \in 1 .. n : OrdinaryStatement(stm[k])
    BY <1>1 DEF ToSet
<1>s. PICK x : x = Punct(";")
    OBVIOUS
<1>x. Semicolon(x)
    BY <1>s DEF Semicolon, ThePunct, Punct, Written
<1>. PICK last : last = <<x>>
    OBVIOUS
<1>p. PICK pieces : pieces = [k \in 1 .. n |-> StatementTokens(stm[k]) \o When(sc.ended \/ k < n, last)]
    OBVIOUS
<1>3. IsList(last)
    BY Lists
<1>4. \A k \in 1 .. n : IsList(pieces[k])
    <2>1. ASSUME NEW k \in 1 .. n PROVE IsList(pieces[k])
        <3>. PICK tail : tail = When(sc.ended \/ k < n, last)
            OBVIOUS
        <3>1. IsList(tail)
            BY <1>3, Lists DEF When
        <3>2. IsList(StatementTokens(stm[k]))
            BY <1>2, StatementTokensAre DEF Leads
        <3>3. pieces[k] = StatementTokens(stm[k]) \o tail
            BY <1>p
        <3>. QED BY <3>1, <3>2, <3>3, CatFacts
    <2>. QED BY <2>1
<1>. PICK S : S = UNION {ToSet(pieces[k]) : k \in 1 .. n}
    OBVIOUS
<1>5. \A k \in 1 .. n : pieces[k] \in Seq(S)
    <2>1. ASSUME NEW k \in 1 .. n PROVE pieces[k] \in Seq(S)
        <3>1. pieces[k] \in Seq(ToSet(pieces[k]))
            BY <1>4 DEF IsList
        <3>2. ToSet(pieces[k]) \subseteq S
            OBVIOUS
        <3>. QED BY <3>1, <3>2, SeqMonotonic
    <2>. QED BY <2>1
<1>6. Len(pieces) = n
    <2>1. pieces \in [1 .. n -> {pieces[k] : k \in 1 .. n}]
        BY <1>p
    <2>. QED BY ONLY <1>1, <2>1, FunctionsAreSeqs
<1>7. \E off : Offsets(off, pieces, n, FlattenSeq(pieces))
    BY <1>1, <1>5, <1>6, FlattenFacts
<1>8. ScriptTokens(sc) = FlattenSeq(pieces)
    BY <1>1, <1>p, <1>s DEF ScriptTokens
<1>9. \A k \in 1 .. n : pieces[k] = StatementTokens(stm[k]) \o When(sc.ended \/ k < n, <<x>>)
    BY <1>p
<1>. QED BY <1>1, <1>2, <1>7, <1>8, <1>9, <1>x DEF InPieces

\* The tokens read are those of the script.
SaysAll(read, ts) ==
    /\ IsList(read) /\ Len(read) \in Nat /\ Len(read) = Len(ts)
    /\ \A i \in 1 .. Len(read) : Says(read[i], ts[i])

\* A piece of a script: a statement, and its semicolon.
Ending(tail, x) == Semicolon(x) /\ (tail = <<>> \/ tail = <<x>>)
OnePiece(piece, u, m, tail) ==
    /\ m \in Nat /\ m > 0 /\ IsList(u)
    /\ \A j \in 1 .. m : piece[j] = u[j] /\ ~Semicolon(u[j])
    /\ tail = <<>> => Len(piece) = m
    /\ tail # <<>> => Len(piece) = m + 1 /\ Semicolon(piece[m + 1])
\* What an ordinary statement is written with is one.
LEMMA PieceIs ==
    ASSUME NEW st, OrdinaryStatement(st), NEW u, u = StatementTokens(st), NEW m, m = Len(u),
           NEW x, NEW tail, Ending(tail, x), NEW piece, piece = u \o tail
    PROVE  OnePiece(piece, u, m, tail)
<1>0. Semicolon(x) /\ (tail = <<>> \/ tail = <<x>>)
    BY DEF Ending
<1>1. IsList(u) /\ m > 0 /\ \A j \in 1 .. m : ~Semicolon(u[j])
    BY StatementTokensAre DEF Leads
<1>2. IsList(tail)
    BY <1>0, Lists
<1>3. /\ m \in Nat /\ Len(piece) = m + Len(tail)
      /\ \A j \in 1 .. m : piece[j] = u[j]
      /\ \A j \in 1 .. Len(tail) : piece[m + j] = tail[j]
    BY <1>1, <1>2, CatFacts
<1>4. CASE tail = <<>>
    <2>1. Len(tail) = 0
        BY <1>4
    <2>. QED BY <1>1, <1>3, <1>4, <2>1 DEF OnePiece
<1>5. CASE tail = <<x>>
    <2>1. Len(tail) = 1 /\ tail[1] = x /\ 1 \in 1 .. 1 /\ tail # <<>>
        BY <1>5
    <2>2. piece[m + 1] = x /\ Len(piece) = m + 1
        BY <1>3, <2>1
    <2>. QED BY <1>0, <1>1, <1>3, <2>1, <2>2 DEF OnePiece
<1>. QED BY <1>0, <1>4, <1>5

\* A semicolon is read as one.
LEMMA SemicolonSays ==
    ASSUME NEW t, NEW u, Says(t, u)
    PROVE  EndsStatement(t) <=> Semicolon(u)
<1>1. \A p : IsPunct(t, p) <=> ThePunct(u, p)
    BY DEF Says, IsPunct, ThePunct
<1>. QED BY <1>1 DEF EndsStatement, Semicolon

\* What was read of a script is divided as it was written.
SplitInto(read, sc, n) ==
    \E len, off :
       /\ Divided(read, len, off, n)
       /\ \A k \in 1 .. n :
             /\ OrdinaryStatement(sc.statements[k])
             /\ len[k] = Len(StatementTokens(sc.statements[k]))
             /\ IsList(StatementTokens(sc.statements[k]))
             /\ \A j \in 1 .. len[k] :
                   /\ off[k - 1] + j \in 1 .. Len(read)
                   /\ Says(read[off[k - 1] + j], StatementTokens(sc.statements[k])[j])
\* So is every script of ordinary statements.
LEMMA FileDivided ==
    ASSUME NEW sc, IsList(sc.statements),
           \A st \in ToSet(sc.statements) : OrdinaryStatement(st),
           NEW n, n = Len(sc.statements), NEW read, SaysAll(read, ScriptTokens(sc))
    PROVE  SplitInto(read, sc, n)
<1>. PICK N : N = Len(read)
    OBVIOUS
<1>. PICK u : u = [k \in 1 .. n |-> StatementTokens(sc.statements[k])]
    OBVIOUS
<1>. PICK len : len = [k \in 1 .. n |-> Len(u[k])]
    OBVIOUS
<1>1. n \in Nat /\ (\A k \in 1 .. n : OrdinaryStatement(sc.statements[k])) /\ InPieces(sc, n)
    BY ScriptTokensAre
<1>3. PICK off, pieces, x :
         /\ Semicolon(x) /\ Offsets(off, pieces, n, ScriptTokens(sc))
         /\ \A k \in 1 .. n :
               pieces[k] = StatementTokens(sc.statements[k]) \o When(sc.ended \/ k < n, <<x>>)
    BY ONLY <1>1 DEF InPieces
<1>4. /\ off[0] = 0 /\ off[n] = N /\ N \in Nat /\ IsList(read)
      /\ \A i \in 1 .. N : Says(read[i], ScriptTokens(sc)[i])
      /\ \A k \in 0 .. n : off[k] \in Nat /\ off[k] <= off[n]
      /\ \A k \in 1 .. n : /\ off[k] = off[k - 1] + Len(pieces[k])
                           /\ \A j \in 1 .. Len(pieces[k]) : ScriptTokens(sc)[off[k - 1] + j] = pieces[k][j]
    BY <1>3 DEF Offsets, SaysAll
<1>5. ASSUME NEW i \in 1 .. N PROVE EndsStatement(read[i]) <=> Semicolon(ScriptTokens(sc)[i])
    BY <1>4, SemicolonSays
<1>6. ASSUME NEW k \in 1 .. n
      PROVE  /\ len[k] \in Nat /\ len[k] > 0 /\ IsList(u[k])
             /\ \A j \in 1 .. len[k] : /\ ~EndsStatement(read[off[k - 1] + j])
                                       /\ off[k - 1] + j \in 1 .. N
                                       /\ Says(read[off[k - 1] + j], u[k][j])
             /\ \/ off[k] = off[k - 1] + len[k] /\ k = n
                \/ off[k] = off[k - 1] + len[k] + 1 /\ EndsStatement(read[off[k]])
    <2>t. PICK tail : tail = When(sc.ended \/ k < n, <<x>>)
        OBVIOUS
    <2>. PICK piece : piece = pieces[k]
        OBVIOUS
    <2>. PICK m : m = len[k]
        OBVIOUS
    <2>. PICK o : o = off[k - 1]
        OBVIOUS
    <2>1. /\ m \in Nat /\ m > 0 /\ IsList(u[k])
          /\ \A j \in 1 .. m : piece[j] = u[k][j] /\ ~Semicolon(u[k][j])
          /\ tail = <<>> => Len(piece) = m
          /\ tail # <<>> => Len(piece) = m + 1 /\ Semicolon(piece[m + 1])
        <3>0. Semicolon(x)
            BY <1>3
        <3>1. OrdinaryStatement(sc.statements[k]) /\ u[k] = StatementTokens(sc.statements[k]) /\ m = Len(u[k])
            BY <1>1
        <3>2. tail = <<>> \/ tail = <<x>>
            BY <2>t DEF When
        <3>3. piece = u[k] \o tail
            BY <1>3, <2>t, <3>1
        <3>4. PICK uk : uk = u[k]
            OBVIOUS
        <3>5. PICK st0 : st0 = sc.statements[k]
            OBVIOUS
        <3>6. OrdinaryStatement(st0) /\ uk = StatementTokens(st0) /\ m = Len(uk) /\ piece = uk \o tail
            BY <3>1, <3>3, <3>4, <3>5
        <3>7. Ending(tail, x)
            BY ONLY <3>0, <3>2 DEF Ending
        <3>8. OnePiece(piece, uk, m, tail)
            BY ONLY <3>6, <3>7, PieceIs
        <3>. QED BY ONLY <3>4, <3>8 DEF OnePiece
    <2>2. /\ o \in Nat /\ off[k] \in Nat /\ off[k] <= N /\ off[k] = o + Len(piece)
          /\ \A j \in 1 .. Len(piece) : ScriptTokens(sc)[o + j] = piece[j]
        <3>1. k \in 0 .. n /\ k - 1 \in 0 .. n
            BY <1>1
        <3>. QED BY <1>4, <3>1
    <2>3. Len(piece) \in {m, m + 1}
        BY <2>1
    <2>4. ASSUME NEW j \in 1 .. m
          PROVE  /\ ~EndsStatement(read[o + j]) /\ o + j \in 1 .. N /\ Says(read[o + j], u[k][j])
        <3>. PICK l : l = o + j
            OBVIOUS
        <3>0. PICK lp \in Nat : lp = Len(piece) /\ m <= lp /\ o + lp <= N
            <4>1. PICK lp \in Nat : lp = Len(piece) /\ m <= lp
                BY <2>1, <2>3
            <4>2. PICK ok : ok = off[k]
                OBVIOUS
            <4>3. ok <= N /\ ok = o + lp
                BY <2>2, <4>1, <4>2
            <4>4. o + lp <= N
                BY ONLY <4>3
            <4>. QED BY <4>1, <4>4
        <3>1. l \in 1 .. N /\ j \in 1 .. lp
            BY ONLY <1>4, <2>1, <2>2, <3>0, l = o + j, j \in 1 .. m
        <3>2. ScriptTokens(sc)[l] = u[k][j] /\ ~Semicolon(u[k][j])
            BY <2>1, <2>2, <3>0, <3>1
        <3>. QED BY <1>4, <1>5, <3>1, <3>2
    <2>5. \/ off[k] = o + m /\ k = n
          \/ off[k] = o + m + 1 /\ EndsStatement(read[off[k]])
        <3>1. CASE tail = <<>>
            <4>1. ~(k < n)
                <5>1. ASSUME k < n PROVE FALSE
                    <6>1. <<x>> # <<>>
                        OBVIOUS
                    <6>. QED BY <2>t, <3>1, <5>1, <6>1 DEF When
                <5>. QED BY <5>1
            <4>. QED BY <1>1, <2>1, <2>2, <3>1, <4>1
        <3>2. CASE tail # <<>>
            <4>1. Len(piece) = m + 1 /\ Semicolon(piece[m + 1])
                BY <2>1, <3>2
            <4>2. off[k] = o + (m + 1) /\ off[k] \in 1 .. N /\ m + 1 \in 1 .. m + 1
                BY <1>4, <2>1, <2>2, <4>1
            <4>3. Semicolon(ScriptTokens(sc)[off[k]])
                BY <2>2, <4>1, <4>2
            <4>4. EndsStatement(read[off[k]])
                BY <1>5, <4>2, <4>3
            <4>5. o + (m + 1) = o + m + 1
                BY ONLY <2>1, <2>2
            <4>. QED BY <4>2, <4>4, <4>5
        <3>. QED BY <3>1, <3>2
    <2>. QED BY <2>1, <2>4, <2>5
<1>7. Divided(read, len, off, n)
    BY <1>1, <1>4, <1>6 DEF Divided
<1>8. \A k \in 1 .. n : u[k] = StatementTokens(sc.statements[k]) /\ len[k] = Len(u[k])
    OBVIOUS
<1>9. ASSUME NEW k \in 1 .. n
      PROVE  /\ OrdinaryStatement(sc.statements[k])
             /\ len[k] = Len(StatementTokens(sc.statements[k]))
             /\ IsList(StatementTokens(sc.statements[k]))
             /\ \A j \in 1 .. len[k] :
                   /\ off[k - 1] + j \in 1 .. Len(read)
                   /\ Says(read[off[k - 1] + j], StatementTokens(sc.statements[k])[j])
    BY <1>1, <1>6, <1>8
<1>. QED BY ONLY <1>7, <1>9 DEF SplitInto

\* The tokens of a statement are those it was written with.
IsWritten(s, st) == OrdinaryStatement(st) /\ Rest(s, 1, StatementTokens(st)) /\ InText(s)
\* So it is with every statement of a file.
AllWritten(split, sc) ==
    /\ IsList(split) /\ IsList(sc.statements) /\ Len(split) = Len(sc.statements)
    /\ \A k \in 1 .. Len(split) : IsWritten(split[k], sc.statements[k])
\* It is, when what was read is what the script says.
LEMMA FileRead ==
    ASSUME NEW sc, IsList(sc.statements),
           \A st \in ToSet(sc.statements) : OrdinaryStatement(st),
           NEW read, SaysAll(read, ScriptTokens(sc)), InText(read)
    PROVE  AllWritten(SplitStatements(read), sc)
<1>. PICK n : n = Len(sc.statements)
    OBVIOUS
<1>. PICK split : split = SplitStatements(read)
    OBVIOUS
<1>1. PICK len, off :
              /\ Divided(read, len, off, n)
              /\ \A k \in 1 .. n :
                    /\ OrdinaryStatement(sc.statements[k])
                    /\ len[k] = Len(StatementTokens(sc.statements[k]))
                    /\ IsList(StatementTokens(sc.statements[k]))
                    /\ \A j \in 1 .. len[k] :
                          /\ off[k - 1] + j \in 1 .. Len(read)
                          /\ Says(read[off[k - 1] + j], StatementTokens(sc.statements[k])[j])
    <2>1. SplitInto(read, sc, n)
        BY FileDivided
    <2>. QED BY ONLY <2>1 DEF SplitInto
<1>2. /\ IsList(split) /\ Len(split) = n
      /\ \A k \in 1 .. n : Part(split[k], read, off[k - 1], len[k])
    BY <1>1, SplitIs
<1>3. /\ n \in Nat
      /\ \A k \in 0 .. n : off[k] \in Nat
    BY <1>1 DEF Divided
<1>4. ASSUME NEW k \in 1 .. n PROVE IsWritten(split[k], sc.statements[k])
    <2>. PICK s : s = split[k]
        OBVIOUS
    <2>. PICK m : m = len[k]
        OBVIOUS
    <2>. PICK o : o = off[k - 1]
        OBVIOUS
    <2>. PICK u : u = StatementTokens(sc.statements[k])
        OBVIOUS
    <2>1. /\ OrdinaryStatement(sc.statements[k]) /\ m = Len(u) /\ IsList(u)
          /\ \A j \in 1 .. m : o + j \in 1 .. Len(read) /\ Says(read[o + j], u[j])
        BY <1>1
    <2>2. Len(s) = m /\ m \in Nat /\ \A j \in 1 .. m : s[j] = read[o + j]
        BY <1>2 DEF Part
    <2>3. o \in Nat
        <3>1. k - 1 \in 0 .. n
            BY <1>3
        <3>. QED BY <1>3, <3>1
    <2>4. Rest(s, 1, u)
        <3>1. \A j \in 1 .. m : 1 + j - 1 = j
            BY <2>2
        <3>2. \A j \in 1 .. m : Says(s[1 + j - 1], u[j])
            BY <2>1, <2>2, <3>1
        <3>3. m + 1 \in Nat /\ m + 1 <= m + 1 /\ m + 1 = 1 + m
            BY <2>2
        <3>. QED BY <2>1, <2>2, <3>2, <3>3 DEF Rest, Read
    <2>5. InText(s)
        <3>1. ASSUME NEW j \in 1 .. m
              PROVE  /\ s[j].first \in Int /\ s[j].last \in Int
                     /\ 1 <= s[j].first /\ s[j].first <= s[j].last
            <4>1. o + j \in 1 .. Len(read) /\ s[j] = read[o + j]
                BY <2>1, <2>2
            <4>. QED BY <4>1 DEF InText
        <3>2. ASSUME NEW j \in 1 .. m, NEW l \in 1 .. m, j < l PROVE s[j].last < s[l].first
            <4>1. /\ o + j \in 1 .. Len(read) /\ s[j] = read[o + j]
                  /\ o + l \in 1 .. Len(read) /\ s[l] = read[o + l]
                BY <2>1, <2>2
            <4>2. o + j < o + l
                BY ONLY <2>2, <2>3, <3>2
            <4>. QED BY <4>1, <4>2 DEF InText
        <3>. QED BY <2>2, <3>1, <3>2 DEF InText
    <2>6. IsWritten(s, sc.statements[k])
        BY <2>1, <2>4, <2>5 DEF IsWritten
    <2>. QED BY <2>6
<1>. QED BY <1>2, <1>4 DEF AllWritten

-----------------------------------------------------------------------------
(* The schema seen and the schema there is.                                  *)

\* Every column has its three facts and no other.
AreColumns(schema) ==
    \A ref \in DOMAIN schema :
        schema[ref] = Column(schema[ref].type, schema[ref].nullable, schema[ref].default)
Same(seen, real) == Agree(seen, real) /\ AreColumns(seen) /\ AreColumns(real)

\* A change of one column on both sides.
LEMMA WithKeeps ==
    ASSUME NEW seen, NEW real, Same(seen, real), NEW ref, NEW type, NEW known,
           NEW nullable, NEW default, type \in {known, UnknownType},
           NEW col, col = Column(type, nullable, default),
           NEW fact, fact = Column(known, nullable, default)
    PROVE  Same(With(seen, ref, col), With(real, ref, fact))
<1>1. /\ DOMAIN seen = DOMAIN real
      /\ DOMAIN With(seen, ref, col) = DOMAIN seen \cup {ref}
      /\ DOMAIN With(real, ref, fact) = DOMAIN real \cup {ref}
    BY DEF Same, Agree, With
<1>2. /\ col.type = type /\ col.nullable = nullable /\ col.default = default
      /\ fact.type = known /\ fact.nullable = nullable /\ fact.default = default
    BY DEF Column
<1>3. ASSUME NEW r \in DOMAIN real \cup {ref}
      PROVE  /\ With(seen, ref, col)[r] = IF r = ref THEN col ELSE seen[r]
             /\ With(real, ref, fact)[r] = IF r = ref THEN fact ELSE real[r]
    BY <1>1 DEF With
<1>4. ASSUME NEW r \in DOMAIN real
      PROVE  /\ seen[r].type \in {real[r].type, UnknownType}
             /\ seen[r].nullable = real[r].nullable /\ seen[r].default = real[r].default
             /\ seen[r] = Column(seen[r].type, seen[r].nullable, seen[r].default)
             /\ real[r] = Column(real[r].type, real[r].nullable, real[r].default)
    BY <1>1 DEF Same, Agree, AreColumns
<1>. PICK s2 : s2 = With(seen, ref, col)
    OBVIOUS
<1>. PICK r2 : r2 = With(real, ref, fact)
    OBVIOUS
<1>5. ASSUME NEW r \in DOMAIN r2
      PROVE  /\ s2[r].type \in {r2[r].type, UnknownType}
             /\ s2[r].nullable = r2[r].nullable /\ s2[r].default = r2[r].default
             /\ s2[r] = Column(s2[r].type, s2[r].nullable, s2[r].default)
             /\ r2[r] = Column(r2[r].type, r2[r].nullable, r2[r].default)
    <2>1. CASE r = ref
        <3>1. s2[r] = col /\ r2[r] = fact
            BY <1>1, <1>3, <2>1
        <3>. QED BY <1>2, <3>1
    <2>2. CASE r # ref
        <3>1. r \in DOMAIN real /\ s2[r] = seen[r] /\ r2[r] = real[r]
            BY <1>1, <1>3, <2>2
        <3>. QED BY <1>4, <3>1
    <2>. QED BY <2>1, <2>2
<1>6. DOMAIN s2 = DOMAIN r2
    BY <1>1
<1>7. Agree(s2, r2)
    BY <1>5, <1>6 DEF Agree
<1>8. AreColumns(s2) /\ AreColumns(r2)
    BY <1>5, <1>6 DEF AreColumns
<1>. QED BY <1>7, <1>8 DEF Same

\* A column less on both sides.
LEMMA WithoutKeeps ==
    ASSUME NEW seen, NEW real, Same(seen, real), NEW ref
    PROVE  Same(Without(seen, ref), Without(real, ref))
<1>. PICK s2 : s2 = Without(seen, ref)
    OBVIOUS
<1>. PICK r2 : r2 = Without(real, ref)
    OBVIOUS
<1>1. /\ DOMAIN seen = DOMAIN real /\ DOMAIN s2 = DOMAIN seen \ {ref} /\ DOMAIN r2 = DOMAIN s2
      /\ \A r \in DOMAIN s2 : s2[r] = seen[r] /\ r2[r] = real[r]
    BY DEF Same, Agree, Without
<1>2. ASSUME NEW r \in DOMAIN s2
      PROVE  /\ s2[r].type \in {r2[r].type, UnknownType}
             /\ s2[r].nullable = r2[r].nullable /\ s2[r].default = r2[r].default
             /\ s2[r] = Column(s2[r].type, s2[r].nullable, s2[r].default)
             /\ r2[r] = Column(r2[r].type, r2[r].nullable, r2[r].default)
    <2>1. r \in DOMAIN seen /\ r \in DOMAIN real
        BY <1>1
    <2>2. /\ seen[r].type \in {real[r].type, UnknownType}
          /\ seen[r].nullable = real[r].nullable /\ seen[r].default = real[r].default
          /\ seen[r] = Column(seen[r].type, seen[r].nullable, seen[r].default)
          /\ real[r] = Column(real[r].type, real[r].nullable, real[r].default)
        BY <2>1 DEF Same, Agree, AreColumns
    <2>. QED BY <1>1, <2>2
<1>3. Agree(s2, r2)
    BY <1>1, <1>2 DEF Agree
<1>4. AreColumns(s2) /\ AreColumns(r2)
    BY <1>1, <1>2 DEF AreColumns
<1>. QED BY <1>3, <1>4 DEF Same

\* What the tool makes of a column, and what the database has of it.
LEMMA ColumnSame ==
    ASSUME NEW seen, NEW real, Same(seen, real), NEW ref \in DOMAIN real
    PROVE  \E type, nullable, default :
               /\ type \in {real[ref].type, UnknownType}
               /\ seen[ref] = Column(type, nullable, default)
               /\ real[ref] = Column(real[ref].type, nullable, default)
<1>1. ref \in DOMAIN seen
    BY DEF Same, Agree
<1>2. /\ seen[ref].type \in {real[ref].type, UnknownType}
      /\ seen[ref].nullable = real[ref].nullable /\ seen[ref].default = real[ref].default
      /\ seen[ref] = Column(seen[ref].type, seen[ref].nullable, seen[ref].default)
      /\ real[ref] = Column(real[ref].type, real[ref].nullable, real[ref].default)
    BY <1>1 DEF Same, Agree, AreColumns
<1>. QED BY <1>2

\* What is known after an operation, if anything: a schema the action leaves.
Told(st, reals) == st.indeterminate \/ \E real : reals = {real} /\ Same(st.schema, real)
\* So it is when the operation is the one the action is.
LEMMA OpAgrees ==
    ASSUME NEW st, NEW real, ~st.indeterminate, Same(st.schema, real), NEW mig, NEW op,
           NEW table, NEW a, OrdinaryAction(a), op # Malformed, ValidOp(op),
           Translates(op, NameOf(table), a)
    PROVE  Told(CommitOp(st, mig, op), Perform(real, table, a))
<1>. PICK seen : seen = st.schema
    OBVIOUS
<1>. PICK t : t = CommitOp(st, mig, op)
    OBVIOUS
<1>1. Same(seen, real) /\ DOMAIN seen = DOMAIN real
    BY DEF Same, Agree
<1>2. /\ t.indeterminate = ~Applicable(seen, op)
      /\ Applicable(seen, op) => t.schema = Apply(seen, op)
    BY DEF CommitOp, SchemaState
<1>3. ASSUME Applicable(seen, op) PROVE \E r : Perform(real, table, a) = {r} /\ Same(Apply(seen, op), r)
    <2>. PICK ref : ref = ColumnRef(NameOf(table), NameOf(a.column))
        OBVIOUS
    <2>1. CASE a.do = "add"
        <3>1. PICK type \in {TypeNamed[a.type], UnknownType} :
                 op = [kind |-> "AddColumn", table |-> NameOf(table), column |-> NameOf(a.column),
                       newType |-> type, nullable |-> ~a.notNull, default |-> a.default # <<>>]
            BY <2>1 DEF Translates
        <3>2. TargetColumn(op) = ref /\ op.kind = "AddColumn"
            BY <3>1 DEF TargetColumn
        <3>3. ref \notin DOMAIN real
            BY <1>1, <1>3, <3>2 DEF Applicable, HasColumn, ColumnOpKinds
        <3>4. Apply(seen, op) = With(seen, ref, Column(type, ~a.notNull, a.default # <<>>))
            BY <3>1, <3>2 DEF Apply
        <3>5. Perform(real, table, a)
                = {With(real, ref, Column(TypeNamed[a.type], ~a.notNull, a.default # <<>>))}
            BY <2>1, <3>3 DEF Perform
        <3>. QED BY <1>1, <3>4, <3>5, WithKeeps
    <2>2. CASE a.do = "drop"
        <3>1. op = [kind |-> "DropColumn", table |-> NameOf(table), column |-> NameOf(a.column)]
            BY <2>2 DEF Translates
        <3>2. TargetColumn(op) = ref /\ op.kind = "DropColumn"
            BY <3>1 DEF TargetColumn
        <3>3. ref \in DOMAIN real
            BY <1>1, <1>3, <3>2 DEF Applicable, HasColumn, ColumnOpKinds
        <3>4. Apply(seen, op) = Without(seen, ref)
            BY <3>2 DEF Apply
        <3>5. Perform(real, table, a) = {Without(real, ref)}
            BY <2>2, <3>3 DEF Perform
        <3>. QED BY <1>1, <3>4, <3>5, WithoutKeeps
    <2>3. CASE a.do = "rename"
        <3>. PICK new : new = ColumnRef(NameOf(table), NameOf(a.newColumn))
            OBVIOUS
        <3>1. op = [kind |-> "RenameColumn", table |-> NameOf(table), column |-> NameOf(a.column),
                    newColumn |-> NameOf(a.newColumn)]
            BY <2>3 DEF Translates
        <3>2. TargetColumn(op) = ref /\ RenamedColumn(op) = new /\ op.kind = "RenameColumn"
            BY <3>1 DEF TargetColumn, RenamedColumn
        <3>3. ref \in DOMAIN real /\ new \notin DOMAIN real
            BY <1>1, <1>3, <3>2 DEF Applicable, HasColumn, ColumnOpKinds
        <3>4. Apply(seen, op) = With(Without(seen, ref), new, seen[ref])
            BY <3>2 DEF Apply
        <3>5. Perform(real, table, a) = {With(Without(real, ref), new, real[ref])}
            <4>1. ref.table = NameOf(table)
                BY DEF ColumnRef
            <4>. QED BY <2>3, <3>3, <4>1 DEF Perform
        <3>6. PICK type, nullable, default :
                 /\ type \in {real[ref].type, UnknownType}
                 /\ seen[ref] = Column(type, nullable, default)
                 /\ real[ref] = Column(real[ref].type, nullable, default)
            BY <1>1, <3>3, ColumnSame
        <3>7. Same(Without(seen, ref), Without(real, ref))
            BY <1>1, WithoutKeeps
        <3>8. Same(With(Without(seen, ref), new, seen[ref]), With(Without(real, ref), new, real[ref]))
            BY <3>6, <3>7, WithKeeps
        <3>. QED BY <3>4, <3>5, <3>8
    <2>4. CASE a.do = "type"
        <3>1. PICK type \in {TypeNamed[a.type], UnknownType} :
                 op = [kind |-> "AlterColumnType", table |-> NameOf(table),
                       column |-> NameOf(a.column), newType |-> type]
            BY <2>4 DEF Translates
        <3>2. TargetColumn(op) = ref /\ op.kind = "AlterColumnType" /\ op.newType = type
            BY <3>1 DEF TargetColumn
        <3>3. ref \in DOMAIN real
            BY <1>1, <1>3, <3>2 DEF Applicable, HasColumn, ColumnOpKinds
        <3>4. Apply(seen, op) = With(seen, ref, [seen[ref] EXCEPT !.type = type])
            BY <3>2 DEF Apply
        <3>5. Perform(real, table, a)
                = {With(real, ref, [real[ref] EXCEPT !.type = TypeNamed[a.type]])}
            BY <2>4, <3>3 DEF Perform
        <3>6. PICK was, nullable, default :
                 /\ seen[ref] = Column(was, nullable, default)
                 /\ real[ref] = Column(real[ref].type, nullable, default)
            BY <1>1, <3>3, ColumnSame
        <3>7. /\ [seen[ref] EXCEPT !.type = type] = Column(type, nullable, default)
              /\ [real[ref] EXCEPT !.type = TypeNamed[a.type]]
                    = Column(TypeNamed[a.type], nullable, default)
            BY <3>6 DEF Column
        <3>. QED BY <1>1, <3>4, <3>5, <3>7, WithKeeps
    <2>5. CASE a.do \in {"setNotNull", "dropNotNull"}
        <3>0. PICK to : to = (a.do = "dropNotNull")
            OBVIOUS
        <3>1. PICK kind \in {"SetNotNull", "DropNotNull"} :
                 /\ op = [kind |-> kind, table |-> NameOf(table), column |-> NameOf(a.column)]
                 /\ kind = "SetNotNull" <=> a.do = "setNotNull"
            BY <2>5 DEF Translates
        <3>2. TargetColumn(op) = ref /\ op.kind = kind
            BY <3>1 DEF TargetColumn
        <3>3. ref \in DOMAIN real
            BY <1>1, <1>3, <3>1, <3>2 DEF Applicable, HasColumn, ColumnOpKinds
        <3>6. PICK type, nullable, default :
                 /\ type \in {real[ref].type, UnknownType}
                 /\ seen[ref] = Column(type, nullable, default)
                 /\ real[ref] = Column(real[ref].type, nullable, default)
            BY <1>1, <3>3, ColumnSame
        <3>7. ASSUME NEW n
              PROVE  /\ [seen[ref] EXCEPT !.nullable = n] = Column(type, n, default)
                     /\ [real[ref] EXCEPT !.nullable = n] = Column(real[ref].type, n, default)
            BY <3>6 DEF Column
        <3>8. ASSUME NEW n
              PROVE  Same(With(seen, ref, [seen[ref] EXCEPT !.nullable = n]),
                          With(real, ref, [real[ref] EXCEPT !.nullable = n]))
            <4>. PICK s1 : s1 = [seen[ref] EXCEPT !.nullable = n]
                OBVIOUS
            <4>. PICK r1 : r1 = [real[ref] EXCEPT !.nullable = n]
                OBVIOUS
            <4>. PICK known : known = real[ref].type
                OBVIOUS
            <4>1. type \in {known, UnknownType}
                BY <3>6
            <4>2. s1 = Column(type, n, default) /\ r1 = Column(known, n, default)
                BY <3>7
            <4>3. Same(seen, real)
                BY <1>1
            <4>4. Same(With(seen, ref, s1), With(real, ref, r1))
                BY ONLY <4>1, <4>2, <4>3, WithKeeps
            <4>. QED BY <4>4
        <3>9. CASE a.do = "setNotNull"
            <4>1. Apply(seen, op) = With(seen, ref, [seen[ref] EXCEPT !.nullable = FALSE])
                BY <3>1, <3>2, <3>9 DEF Apply
            <4>2. Perform(real, table, a) = {With(real, ref, [real[ref] EXCEPT !.nullable = FALSE])}
                BY <3>3, <3>9 DEF Perform
            <4>. QED BY <3>8, <4>1, <4>2
        <3>10. CASE a.do = "dropNotNull"
            <4>1. Apply(seen, op) = With(seen, ref, [seen[ref] EXCEPT !.nullable = TRUE])
                BY <3>1, <3>2, <3>10 DEF Apply
            <4>2. Perform(real, table, a) = {With(real, ref, [real[ref] EXCEPT !.nullable = TRUE])}
                BY <3>3, <3>10 DEF Perform
            <4>. QED BY <3>8, <4>1, <4>2
        <3>. QED BY <2>5, <3>9, <3>10
    <2>6. CASE a.do = "other"
        <3>1. op = Unclassified
            BY <2>6 DEF Translates, Vague
        <3>2. op.kind = "Unclassified"
            BY <3>1 DEF Unclassified
        <3>. QED BY <1>3, <3>2 DEF Applicable, ColumnOpKinds
    <2>. QED BY <2>1, <2>2, <2>3, <2>4, <2>5, <2>6 DEF OrdinaryAction
<1>. QED BY <1>2, <1>3 DEF Told

-----------------------------------------------------------------------------
(* Whole files.                                                              *)

Performing == INSTANCE FoldFacts WITH
                 Op <- LAMBDA table, d, reached, a : UNION {Perform(s, table, a) : s \in reached}
Running == INSTANCE FoldFacts WITH Op <- LAMBDA c, d, reached, st : Perform1(reached, st)
Committing == INSTANCE FoldFacts WITH Op <- LAMBDA id, d, st, op : CommitOp(st, id, op)

\* An operation is what is meant by a statement.
Means(op, st) ==
    OrdinaryStatement(st) /\ StatementMeant(op, st) /\ op # Malformed /\ ValidOp(op)

\* The action of a statement, or none.
LEMMA Performed ==
    ASSUME NEW reals, NEW st, IsList(st.actions), Len(st.actions) < 2
    PROVE  /\ st.actions = <<>> => Perform1(reals, st) = reals
           /\ st.actions # <<>> =>
                 /\ Perform1(reals, st) = UNION {Perform(s, st.table, st.actions[1]) : s \in reals}
                 /\ st.actions[1] \in ToSet(st.actions)
<1>. PICK as : as = st.actions
    OBVIOUS
<1>. PICK table : table = st.table
    OBVIOUS
<1>. PICK n : n = Len(as)
    OBVIOUS
<1>1. n \in Nat /\ n < 2 /\ DOMAIN as = 1 .. n
    BY TextFacts
<1> DEFINE f == Performing!Stages(table, 0, reals, as, n)
<1> HIDE DEF f
<1>2. /\ f[0] = reals /\ f[n] = Performing!Fold(table, 0, reals, as)
      /\ \A k \in 1 .. n : f[k] = UNION {Perform(s, table, as[k]) : s \in f[k - 1]}
    <2>1. Performing!Passes(f, table, 0, reals, as, n)
        BY <1>1, Performing!FoldSteps DEF f
    <2>. QED BY <2>1 DEF Performing!Passes
<1>3. Perform1(reals, st) = f[n]
    <2>1. Perform1(reals, st) = Performing!Fold(st.table, 0, reals, st.actions)
        BY ONLY TRUE DEF Perform1, Performing!Fold, FoldLeft, Performing!FoldLeft,
               MapThenFoldSet, Performing!MapThenFoldSet, Max, Performing!Max
    <2>. QED BY <1>2, <2>1
<1>4. CASE n = 0
    <2>1. as = <<>>
        <3>1. as \in Seq(ToSet(as))
            BY DEF IsList
        <3>. QED BY <1>4, <3>1, EmptySeq
    <2>. QED BY <1>2, <1>3, <1>4, <2>1
<1>5. CASE n = 1
    <2>1. as # <<>>
        <3>1. as = <<>> => Len(as) = 0
            OBVIOUS
        <3>. QED BY <1>5, <3>1
    <2>2. 1 \in 1 .. n /\ 1 - 1 = 0
        BY <1>5
    <2>3. f[1] = UNION {Perform(s, table, as[1]) : s \in reals}
        BY <1>2, <2>2
    <2>4. as[1] \in ToSet(as)
        BY <1>1, <2>2 DEF ToSet
    <2>. QED BY <1>3, <1>5, <2>1, <2>3, <2>4
<1>6. n = 0 \/ n = 1
    <2>1. n \in Nat /\ n < 2
        BY <1>1
    <2>. QED BY ONLY <2>1
<1>. QED BY <1>4, <1>5, <1>6

\* What a statement does is told by its operation.
LEMMA StatementAgrees ==
    ASSUME NEW st, NEW reals, Told(st, reals), NEW mig, NEW op, NEW x, Means(op, x)
    PROVE  Told(CommitOp(st, mig, op), Perform1(reals, x))
<1>1. /\ OrdinaryStatement(x) /\ StatementMeant(op, x) /\ op # Malformed /\ ValidOp(op)
      /\ IsList(x.actions) /\ Len(x.actions) < 2
      /\ \A a \in ToSet(x.actions) : OrdinaryAction(a)
    BY DEF Means, OrdinaryStatement
<1>2. CommitOp(st, mig, op).indeterminate = ~(~st.indeterminate /\ Applicable(st.schema, op))
    BY DEF CommitOp, SchemaState
<1>3. CASE st.indeterminate
    BY <1>2, <1>3 DEF Told
<1>4. CASE ~st.indeterminate
    <2>1. PICK real : reals = {real} /\ Same(st.schema, real)
        BY <1>4 DEF Told
    <2>2. CASE x.actions = <<>>
        <3>1. Vague(op)
            BY <1>1, <2>2 DEF StatementMeant
        <3>2. op = Unclassified
            BY <1>1, <3>1 DEF Vague
        <3>3. op.kind = "Unclassified"
            BY <3>2 DEF Unclassified
        <3>4. ~Applicable(st.schema, op)
            BY <3>3 DEF Applicable, ColumnOpKinds
        <3>. QED BY <1>2, <3>4 DEF Told
    <2>3. CASE x.actions # <<>>
        <3>. PICK a : a = x.actions[1]
            OBVIOUS
        <3>1. /\ Perform1(reals, x) = UNION {Perform(s, x.table, a) : s \in reals}
              /\ OrdinaryAction(a)
            BY <1>1, <2>3, Performed
        <3>2. Perform1(reals, x) = Perform(real, x.table, a)
            <4>. PICK p : p = [s \in {real} |-> Perform(s, x.table, a)]
                OBVIOUS
            <4>1. Perform1(reals, x) = UNION {p[s] : s \in {real}} /\ p[real] = Perform(real, x.table, a)
                BY <2>1, <3>1
            <4>2. {p[s] : s \in {real}} = {p[real]}
                OBVIOUS
            <4>3. UNION {p[real]} = p[real]
                OBVIOUS
            <4>. QED BY <4>1, <4>2, <4>3
        <3>3. Translates(op, NameOf(x.table), a)
            BY <1>1, <2>3 DEF StatementMeant
        <3>4. Told(CommitOp(st, mig, op), Perform(real, x.table, a))
            BY <1>1, <1>4, <2>1, <3>1, <3>3, OpAgrees
        <3>. QED BY <3>2, <3>4
    <2>. QED BY <2>2, <2>3
<1>. QED BY <1>3, <1>4

\* The operations of a file are what is meant by its statements.
IsMeant(list, sc) ==
    /\ IsList(list) /\ IsList(sc.statements) /\ Len(list) = Len(sc.statements)
    /\ \A k \in 1 .. Len(list) : Means(list[k], sc.statements[k])

\* What a file does is told by them.
LEMMA FileAgrees ==
    ASSUME NEW st, NEW reals, Told(st, reals), NEW mig, NEW sc, IsMeant(mig.operations, sc)
    PROVE  Told(ApplyOne(st, mig), Execute(reals, sc))
<1>. PICK list : list = mig.operations
    OBVIOUS
<1>. PICK xs : xs = sc.statements
    OBVIOUS
<1>. PICK id : id = mig.id
    OBVIOUS
<1>. PICK n : n = Len(list)
    OBVIOUS
<1>1. /\ n \in Nat /\ DOMAIN list = 1 .. n /\ DOMAIN xs = 1 .. n
      /\ \A k \in 1 .. n : Means(list[k], xs[k])
    BY TextFacts DEF IsMeant
<1> DEFINE f == Committing!Stages(id, 0, st, list, n)
           g == Running!Stages(0, 0, reals, xs, n)
<1> HIDE DEF f, g
<1>2. /\ f[0] = st /\ f[n] = Committing!Fold(id, 0, st, list)
      /\ \A k \in 1 .. n : f[k] = CommitOp(f[k - 1], id, list[k])
    <2>1. Committing!Passes(f, id, 0, st, list, n)
        BY <1>1, Committing!FoldSteps DEF f
    <2>. QED BY <2>1 DEF Committing!Passes
<1>3. /\ g[0] = reals /\ g[n] = Running!Fold(0, 0, reals, xs)
      /\ \A k \in 1 .. n : g[k] = Perform1(g[k - 1], xs[k])
    <2>1. Running!Passes(g, 0, 0, reals, xs, n)
        BY <1>1, Running!FoldSteps DEF g
    <2>. QED BY <2>1 DEF Running!Passes
<1>4. ApplyOne(st, mig) = f[n]
    <2>1. ApplyOne(st, mig) = Committing!Fold(mig.id, 0, st, mig.operations)
        BY ONLY TRUE DEF ApplyOne, Committing!Fold, FoldLeft, Committing!FoldLeft,
               MapThenFoldSet, Committing!MapThenFoldSet, Max, Committing!Max
    <2>. QED BY <1>2, <2>1
<1>5. Execute(reals, sc) = g[n]
    <2>1. Execute(reals, sc) = Running!Fold(0, 0, reals, sc.statements)
        BY ONLY TRUE DEF Execute, Running!Fold, FoldLeft, Running!FoldLeft,
               MapThenFoldSet, Running!MapThenFoldSet, Max, Running!Max
    <2>. QED BY <1>3, <2>1
<1> DEFINE S == {k \in Nat : k <= n => Told(f[k], g[k])}
<1>6. 0 \in S
    BY <1>2, <1>3
<1>7. ASSUME NEW k \in Nat, k \in S PROVE k + 1 \in S
    <2> SUFFICES ASSUME k + 1 <= n PROVE Told(f[k + 1], g[k + 1])
        OBVIOUS
    <2>1. k + 1 \in 1 .. n /\ (k + 1) - 1 = k /\ k <= n
        BY <1>1
    <2>2. f[k + 1] = CommitOp(f[k], id, list[k + 1]) /\ g[k + 1] = Perform1(g[k], xs[k + 1])
        BY <1>2, <1>3, <2>1
    <2>3. Told(f[k], g[k]) /\ Means(list[k + 1], xs[k + 1])
        BY <1>1, <1>7, <2>1
    <2>4. Told(CommitOp(f[k], id, list[k + 1]), Perform1(g[k], xs[k + 1]))
        BY <2>3, StatementAgrees
    <2>. QED BY <2>2, <2>4
<1> HIDE DEF S
<1>8. n \in S
    BY <1>1, <1>6, <1>7, Count!Induction
<1>. QED BY <1>1, <1>4, <1>5, <1>8 DEF S

-----------------------------------------------------------------------------
(* The parser on its way through a file.                                     *)

\* A statement stays as it was written, and its operation is what is meant.
LEMMA StaysWritten ==
    ASSUME text' = text, NEW s, NEW st, IsWritten(s, st)
    PROVE  IsWritten(s, st)'
<1>1. ASSUME NEW t, NEW u PROVE Says(t, u)' <=> Says(t, u)
    BY DEF Says, Content
<1>2. Rest(s, 1, StatementTokens(st)) => Rest(s, 1, StatementTokens(st))'
    BY <1>1 DEF Rest, Read
<1>3. OrdinaryStatement(st) /\ Rest(s, 1, StatementTokens(st)) /\ InText(s)
    BY DEF IsWritten
<1>. QED BY <1>2, <1>3 DEF IsWritten

\* The operations read so far are what is meant by the first statements; the
\* statements still to be parsed are the others, as they were written.
Halfway(ss, list, sc) ==
    /\ IsList(ss) /\ IsList(list) /\ IsList(sc.statements)
    /\ Len(list) + Len(ss) = Len(sc.statements)
    /\ \A k \in 1 .. Len(list) : /\ OrdinaryStatement(sc.statements[k])
                                 /\ StatementMeant(list[k], sc.statements[k])
                                 /\ list[k] # Malformed
    /\ \A j \in 1 .. Len(ss) : IsWritten(ss[j], sc.statements[Len(list) + j])

\* At the first statement.
LEMMA SplitHalfway ==
    ASSUME NEW ss, NEW list, list = <<>>, NEW sc, AllWritten(ss, sc)
    PROVE  Halfway(ss, list, sc)
<1>1. IsList(list) /\ Len(list) = 0
    BY Lists
<1>2. /\ IsList(ss) /\ IsList(sc.statements) /\ Len(ss) = Len(sc.statements)
      /\ \A k \in 1 .. Len(ss) : IsWritten(ss[k], sc.statements[k])
    BY DEF AllWritten
<1>3. Len(ss) \in Nat
    BY <1>2, TextFacts
<1>4. \A k \in 1 .. Len(ss) : 0 + k = k
    BY <1>3
<1>5. 1 .. 0 = {}
    OBVIOUS
<1>. QED BY <1>1, <1>2, <1>3, <1>4, <1>5 DEF Halfway

\* One statement further.
LEMMA TakeHalfway ==
    ASSUME NEW ss, NEW list, NEW sc, Halfway(ss, list, sc), ss # <<>>,
           NEW op, op = ParseStatement(Head(ss)), op # Malformed,
           NEW rest, rest = Tail(ss), NEW more, more = Append(list, op)
    PROVE  Halfway(rest, more, sc)
<1>. PICK stm : stm = sc.statements
    OBVIOUS
<1>. PICK m : m = Len(ss)
    OBVIOUS
<1>. PICK n : n = Len(list)
    OBVIOUS
<1>1. /\ IsList(ss) /\ IsList(list) /\ IsList(stm) /\ n + m = Len(stm)
      /\ \A k \in 1 .. n : /\ OrdinaryStatement(stm[k]) /\ StatementMeant(list[k], stm[k])
                           /\ list[k] # Malformed
      /\ \A j \in 1 .. m : IsWritten(ss[j], stm[n + j])
    BY DEF Halfway
<1>2. n \in Nat /\ m \in Nat
    BY <1>1, TextFacts
<1>3. /\ m > 0 /\ Head(ss) = ss[1] /\ IsList(rest) /\ Len(rest) = m - 1
      /\ \A j \in 1 .. m - 1 : rest[j] = ss[j + 1]
    <2>. PICK S : S = ToSet(ss)
        OBVIOUS
    <2>1. ss \in Seq(S)
        BY <1>1 DEF IsList
    <2>2. m > 0
        BY <1>2, <2>1, EmptySeq
    <2>3. rest \in Seq(S) /\ Len(rest) = m - 1 /\ \A j \in 1 .. m - 1 : rest[j] = ss[j + 1]
        BY <2>1, HeadTailProperties
    <2>4. IsList(rest)
        BY <2>3, SeqIsList
    <2>. QED BY <2>1, <2>2, <2>3, <2>4
<1>4. /\ IsList(more) /\ Len(more) = n + 1 /\ more[n + 1] = op
      /\ \A k \in 1 .. n : more[k] = list[k]
    <2>. PICK S : S = ToSet(list)
        OBVIOUS
    <2>1. list \in Seq(S)
        BY <1>1 DEF IsList
    <2>2. more \in Seq(S \cup {op})
        BY <2>1
    <2>3. IsList(more)
        BY <2>2, SeqIsList
    <2>. QED BY <2>1, <2>3, AppendFacts
<1>5. IsWritten(ss[1], stm[n + 1])
    <2>1. 1 \in 1 .. m
        BY <1>2, <1>3
    <2>. QED BY <1>1, <2>1
<1>6. OrdinaryStatement(stm[n + 1]) /\ StatementMeant(op, stm[n + 1])
    <2>. PICK s : s = ss[1]
        OBVIOUS
    <2>. PICK st : st = stm[n + 1]
        OBVIOUS
    <2>1. OrdinaryStatement(st) /\ Rest(s, 1, StatementTokens(st)) /\ InText(s)
        BY <1>5 DEF IsWritten
    <2>2. StatementMeant(ParseStatement(s), st)
        BY <2>1, StatementRead
    <2>. QED BY <1>3, <2>1, <2>2
<1>7. ASSUME NEW k \in 1 .. n + 1
      PROVE  /\ OrdinaryStatement(stm[k]) /\ StatementMeant(more[k], stm[k]) /\ more[k] # Malformed
    <2>1. CASE k = n + 1
        BY <1>4, <1>6, <2>1
    <2>2. CASE k \in 1 .. n
        BY <1>1, <1>4, <2>2
    <2>. QED BY <1>2, <2>1, <2>2
<1>8. ASSUME NEW j \in 1 .. m - 1 PROVE IsWritten(rest[j], stm[(n + 1) + j])
    <2>1. j + 1 \in 1 .. m /\ n + (j + 1) = (n + 1) + j
        BY <1>2
    <2>. QED BY <1>1, <1>3, <2>1
<1>9. (n + 1) + (m - 1) = Len(stm)
    <2>1. (n + 1) + (m - 1) = n + m
        BY ONLY <1>2
    <2>. QED BY <1>1, <2>1
<1>. QED BY <1>1, <1>3, <1>4, <1>7, <1>8, <1>9 DEF Halfway

\* And no further.
LEMMA StaysHalfway ==
    ASSUME text' = text, NEW ss, NEW list, NEW sc, Halfway(ss, list, sc)
    PROVE  Halfway(ss, list, sc)'
<1>1. \A j \in 1 .. Len(ss) : IsWritten(ss[j], sc.statements[Len(list) + j])'
    BY StaysWritten DEF Halfway
<1>. QED BY <1>1 DEF Halfway

\* The parser of a file that was written as sc says.
ParsesAsMeant(sc) ==
    /\ parsing = "lexing" => ops = <<>>
    /\ parsing \in {"parsing", "parsed"} => Halfway(stmts, ops, sc)
    /\ parsing = "parsed" => stmts = <<>> /\ \A op \in ToSet(ops) : ValidOp(op)
\* It begins as it should.
LEMMA MeantBegins == ASSUME NEW sc, NEW src, ParseFrom(src) PROVE ParsesAsMeant(sc)'
BY DEF ParseFrom, ParsesAsMeant

\* What the lexer is done with is what was written, in the order of the text.
LEMMA AllSaid ==
    ASSUME NEW sc, sc.cut = 0, WellWritten(sc), Inv, lexing = "done", LexesAsWritten(sc, ScriptTokens(sc))
    PROVE  /\ SaysAll(toks, ScriptTokens(sc)) /\ InText(toks)
           /\ \A t \in ToSet(ScriptTokens(sc)) : t.kind # "other"
<1>. PICK ts : ts = ScriptTokens(sc)
    OBVIOUS
<1>1. IsList(ts) /\ Len(toks) = Len(ts) /\ AsWritten(Len(toks), ts)
    BY DEF WellWritten, LexesAsWritten
<1>2. /\ toks \in Seq(Tokens) /\ Len(toks) \in Nat /\ DOMAIN toks = 1 .. Len(toks)
      /\ \A i \in 1 .. Len(toks) : toks[i] \in Tokens
    BY DEF Inv, Sequences
<1>3. \A i \in 1 .. Len(toks) : Says(toks[i], ts[i])
    BY <1>1 DEF AsWritten, Says
<1>4. SaysAll(toks, ts)
    <2>1. IsList(toks)
        BY <1>2, SeqIsList
    <2>. QED BY <1>1, <1>2, <1>3, <2>1 DEF SaysAll
<1>5. InText(toks)
    <2>1. \A i \in 1 .. Len(toks) : /\ toks[i].first \in Int /\ toks[i].last \in Int
                                    /\ 1 <= toks[i].first /\ toks[i].first <= toks[i].last
        <3>1. ASSUME NEW i \in 1 .. Len(toks)
              PROVE  /\ toks[i].first \in Int /\ toks[i].last \in Int
                     /\ 1 <= toks[i].first /\ toks[i].first <= toks[i].last
            <4>1. /\ toks[i].first \in Int /\ toks[i].last \in Int
                BY <1>2 DEF Tokens
            <4>2. toks[i].first \in 1 .. toks[i].last
                BY <1>2 DEF Inv, LexTypeOK
            <4>. QED BY <4>1, <4>2
        <3>. QED BY <3>1
    <2>2. \A i, j \in 1 .. Len(toks) : i < j => toks[i].last < toks[j].first
        BY <1>2 DEF Inv, TokensInOrder
    <2>. QED BY <1>2, <2>1, <2>2 DEF InText
<1>6. ASSUME NEW t \in ToSet(ts) PROVE t.kind # "other"
    <2>1. PICK i \in 1 .. Len(ts) : t = ts[i]
        BY <1>1, TextFacts DEF ToSet
    <2>2. t.kind = toks[i].kind /\ i \in 1 .. Len(toks)
        BY <1>1, <1>3, <2>1 DEF Says
    <2>3. toks[i].kind \in TokenKinds
        BY <1>2, <2>2 DEF Inv, LexTypeOK
    <2>. QED BY <2>2, <2>3 DEF TokenKinds, Quotation
<1>. QED BY <1>4, <1>5, <1>6

\* Every step of the parser.
LEMMA MeantKept ==
    ASSUME NEW sc, sc.cut = 0, WellWritten(sc), Ordinary(sc), Inv,
           LexesAsWritten(sc, ScriptTokens(sc)), ParsesAsMeant(sc), ParseNext
    PROVE  ParsesAsMeant(sc)'
<1>1. CASE Lex
    BY <1>1 DEF Lex, parseVars, ParsesAsMeant
<1>2. CASE Split
    <2>1. /\ lexing = "done" /\ ops' = ops /\ ops = <<>> /\ text' = text
          /\ stmts' = SplitStatements(toks) /\ parsing' = "parsing"
        BY <1>2 DEF Split, lexVars, ParsesAsMeant
    <2>2. /\ SaysAll(toks, ScriptTokens(sc)) /\ InText(toks)
          /\ \A t \in ToSet(ScriptTokens(sc)) : t.kind # "other"
        BY <2>1, AllSaid
    <2>3. IsList(sc.statements) /\ \A st \in ToSet(sc.statements) : OrdinaryStatement(st)
        BY <2>2 DEF Ordinary
    <2>. PICK ss : ss = SplitStatements(toks)
        OBVIOUS
    <2>. PICK list : list = ops
        OBVIOUS
    <2>4. AllWritten(ss, sc)
        BY <2>2, <2>3, FileRead
    <2>5. Halfway(ss, list, sc)
        BY <2>1, <2>4, SplitHalfway
    <2>6. Halfway(ss, list, sc)'
        BY <2>1, <2>5, StaysHalfway
    <2>7. stmts' = ss /\ ops' = list
        BY <2>1
    <2>8. Halfway(stmts, ops, sc)'
        BY <2>6, <2>7
    <2>. QED BY <2>1, <2>8 DEF ParsesAsMeant
<1>3. CASE RejectText \/ RejectOps
    BY <1>3 DEF RejectText, RejectOps, Reject, ParsesAsMeant
<1>4. CASE ParseHead
    <2>1. /\ parsing = "parsing" /\ stmts # <<>>
          /\ \/ /\ ParseStatement(Head(stmts)) # Malformed
                /\ TakeStatement(ParseStatement(Head(stmts)))
             \/ Reject
        BY <1>4 DEF ParseHead
    <2>2. CASE Reject
        BY <2>2 DEF Reject, ParsesAsMeant
    <2>3. CASE TakeStatement(ParseStatement(Head(stmts))) /\ ParseStatement(Head(stmts)) # Malformed
        <3>. PICK ss : ss = stmts
            OBVIOUS
        <3>. PICK list : list = ops
            OBVIOUS
        <3>. PICK op : op = ParseStatement(Head(ss))
            OBVIOUS
        <3>. PICK rest : rest = Tail(ss)
            OBVIOUS
        <3>. PICK more : more = Append(list, op)
            OBVIOUS
        <3>1. /\ text' = text /\ parsing' = "parsing" /\ stmts' = rest /\ ops' = more
            BY <2>1, <2>3 DEF TakeStatement, lexVars
        <3>2. Halfway(ss, list, sc) /\ ss # <<>> /\ op # Malformed
            BY <2>1, <2>3 DEF ParsesAsMeant
        <3>3. Halfway(rest, more, sc)
            BY <3>2, TakeHalfway
        <3>4. Halfway(rest, more, sc)'
            BY <3>1, <3>3, StaysHalfway
        <3>5. Halfway(stmts, ops, sc)'
            BY <3>1, <3>4
        <3>. QED BY <3>1, <3>5 DEF ParsesAsMeant
    <2>. QED BY <2>1, <2>2, <2>3
<1>5. CASE Accept
    <2>. PICK ss : ss = stmts
        OBVIOUS
    <2>. PICK list : list = ops
        OBVIOUS
    <2>1. /\ text' = text /\ stmts' = ss /\ ops' = list /\ parsing = "parsing" /\ parsing' = "parsed"
          /\ stmts = <<>> /\ \A op \in ToSet(ops) : ValidOp(op)
        BY <1>5 DEF Accept, lexVars
    <2>2. Halfway(ss, list, sc)
        BY <2>1 DEF ParsesAsMeant
    <2>3. Halfway(ss, list, sc)'
        BY <2>1, <2>2, StaysHalfway
    <2>4. Halfway(stmts, ops, sc)'
        BY <2>1, <2>3
    <2>5. (\A op \in ToSet(ops) : ValidOp(op))'
        BY <2>1
    <2>. QED BY <2>1, <2>4, <2>5 DEF ParsesAsMeant
<1>. QED BY <1>1, <1>2, <1>3, <1>4, <1>5 DEF ParseNext

\* What is accepted is what is meant.
LEMMA AcceptedIsMeant ==
    ASSUME NEW sc, ParsesAsMeant(sc), parsing = "parsed"
    PROVE  IsMeant(ops, sc)
<1>. PICK list : list = ops
    OBVIOUS
<1>. PICK none : none = <<>>
    OBVIOUS
<1>1. Halfway(none, list, sc) /\ \A op \in ToSet(list) : ValidOp(op)
    BY DEF ParsesAsMeant
<1>2. Len(none) = 0
    OBVIOUS
<1>3. /\ IsList(list) /\ IsList(sc.statements) /\ Len(list) + 0 = Len(sc.statements)
      /\ \A k \in 1 .. Len(list) : /\ OrdinaryStatement(sc.statements[k])
                                   /\ StatementMeant(list[k], sc.statements[k])
                                   /\ list[k] # Malformed
    BY <1>1, <1>2 DEF Halfway
<1>4. Len(list) \in Nat /\ DOMAIN list = 1 .. Len(list)
    BY <1>3, TextFacts
<1>5. \A k \in 1 .. Len(list) : ValidOp(list[k])
    BY <1>1, <1>4 DEF ToSet
<1>6. Len(list) = Len(sc.statements)
    BY <1>3, <1>4
<1>. QED BY <1>3, <1>5, <1>6 DEF IsMeant, Means

=============================================================================
