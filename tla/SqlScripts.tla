----------------------------- MODULE SqlScripts -----------------------------
(***************************************************************************)
(* Migration files from outside: what an author means by one, how it is    *)
(* written down, and what the database does with it.  The parser is judged *)
(* against this; nothing here is its code.                                 *)
(*                                                                         *)
(* A script is a record                                                    *)
(*   statements  of the form [table, qualified, ifExists, actions], the    *)
(*               actions each a record with field "do"                     *)
(*   gap         the blanks or comment written between two tokens          *)
(*   tight       whether it is left out around punctuation                 *)
(*   ended       whether the last statement has its semicolon              *)
(*   cut         0, or the number of atoms left of a file cut short        *)
(***************************************************************************)
EXTENDS SqlParser

-----------------------------------------------------------------------------
(* How it is written.                                                      *)

Written(kind, atoms) == [kind |-> kind, atoms |-> atoms]
Word(w) == Written("ident", <<w>>)
Quoted(w) == Written("quoted", <<w>>)
Punct(p) == Written("punct", <<p>>)
Phrase(ws) == [i \in DOMAIN ws |-> Word(ws[i])]
When(condition, tokens) == IF condition THEN tokens ELSE <<>>

\* A type is known by its atoms.
TypeTokens(spelling) ==
    [i \in DOMAIN spelling |->
        Written(CASE spelling[i] \in Words -> "ident" [] spelling[i] \in Digits -> "number"
                  [] OTHER -> "punct", <<spelling[i]>>)]
NullTokens(a) == When(a.notNull, Phrase(NotNull))
DefaultTokens(a) == When(a.default # <<>>, <<Word("DEFAULT")>> \o a.default)

ActionTokens(a) ==
    CASE a.do = "add" ->
            <<Word("ADD")>> \o When(a.explicit, Phrase(<<"COLUMN">>))
                \o When(a.ifClause, Phrase(IfNotExists))
                \o <<a.column>> \o TypeTokens(a.type)
                \o (IF a.defaultFirst THEN DefaultTokens(a) \o NullTokens(a)
                                      ELSE NullTokens(a) \o DefaultTokens(a))
      [] a.do = "drop" ->
            Phrase(<<"DROP", "COLUMN">>) \o When(a.ifClause, Phrase(IfExists)) \o <<a.column>>
      [] a.do = "rename" ->
            Phrase(<<"RENAME", "COLUMN">>) \o <<a.column, Word("TO"), a.newColumn>>
      [] a.do = "type" ->
            <<Word("ALTER")>> \o When(a.explicit, Phrase(<<"COLUMN">>)) \o <<a.column>>
                \o When(a.explicit, Phrase(<<"SET", "DATA">>)) \o <<Word("TYPE")>>
                \o TypeTokens(a.type) \o When(a.default # <<>>, <<Word("USING")>> \o a.default)
      [] a.do \in {"setNotNull", "dropNotNull"} ->
            <<Word("ALTER")>> \o When(a.explicit, Phrase(<<"COLUMN">>)) \o <<a.column>>
                \o <<Word(IF a.do = "setNotNull" THEN "SET" ELSE "DROP")>> \o Phrase(NotNull)
      [] a.do = "other" -> a.tokens

StatementTokens(st) ==
    Phrase(<<"ALTER", "TABLE">>) \o When(st.ifExists, Phrase(IfExists))
        \o When(st.qualified, <<Word("public"), Punct(".")>>) \o <<st.table>>
        \o FlattenSeq([i \in DOMAIN st.actions |->
                        When(i > 1, <<Punct(",")>>) \o ActionTokens(st.actions[i])])

ScriptTokens(sc) ==
    FlattenSeq([i \in DOMAIN sc.statements |->
                    StatementTokens(sc.statements[i])
                        \o When(sc.ended \/ i < Len(sc.statements), <<Punct(";")>>)])

Spelled(t) == IF t.kind \in Quotation
              THEN <<Delimiter[t.kind]>> \o t.atoms \o <<Delimiter[t.kind]>>
              ELSE t.atoms
\* An operator has a blank after it: the lexer takes a comment that follows it
\* immediately for more of the operator.
Gap(sc, ts, i) ==
    IF ts[i].kind = "op" THEN <<" ">> \o sc.gap
    ELSE IF i < Len(ts) /\ sc.tight /\ "punct" \in {ts[i].kind, ts[i + 1].kind} THEN <<>>
    ELSE sc.gap
SourceOf(sc, ts) == FlattenSeq([i \in DOMAIN ts |-> Spelled(ts[i]) \o Gap(sc, ts, i)])
\* The file: all of it, or what is left.
Source(sc) ==
    LET whole == SourceOf(sc, ScriptTokens(sc))
    IN  IF sc.cut = 0 THEN whole ELSE SubSeq(whole, 1, sc.cut)

\* The forms of the tokens.  In a quotation the delimiters come in pairs: the
\* atoms of the pairs that begin at the positions in pairs, and no others.
Doubled(atoms, d) ==
    \E pairs \in SUBSET (1 .. Len(atoms) - 1) :
        /\ \A i \in pairs : i + 1 \notin pairs
        /\ \A i \in DOMAIN atoms : atoms[i] = d <=> i \in pairs \/ i - 1 \in pairs
Spellable(t) ==
    /\ t.kind \in TokenKinds \cup {"other"} /\ IsList(t.atoms)
    /\ t.kind \notin Quotation => t.atoms # <<>>
    /\ t.kind = "ident" => t.atoms[1] \in Words /\ ToSet(t.atoms) \subseteq IdentCont
    /\ t.kind = "number" => \E n, part \in Digits : t.atoms \in {<<n>>, <<n, ".", part>>}
    /\ t.kind = "op" => /\ ToSet(t.atoms) \subseteq OpSymbols
                        /\ Len(t.atoms) > 1 =>
                              <<t.atoms[1], t.atoms[2]>> \notin {<<"-", "-">>, <<"/", "*">>}
    /\ t.kind = "punct" => \E p \in Punctuation : t.atoms = <<p>>
    /\ t.kind \in Quotation => Doubled(t.atoms, Delimiter[t.kind])
    /\ t.kind = "other" => t.atoms[1] \notin Blanks \cup Words \cup Digits \cup Punctuation
                              \cup OpSymbols \cup {Delimiter[kind] : kind \in Quotation}

\* A comment that begins at i: up to the end of its line, which is a newline
\* with or without a carriage return, or up to the first place that ends it.
LineComment(gap, i, end) ==
    /\ end \in i + 2 .. Len(gap) /\ gap[i] = "-" /\ gap[i + 1] = "-"
    /\ gap[end] = Newline /\ \A j \in i .. end - 1 : gap[j] \notin LineEnds
    /\ \A j \in i .. end - 2 : gap[j] # "\r"
BlockEnd(gap, i) == gap[i] = "*" /\ gap[i + 1] = "/"
BlockComment(gap, i, end) ==
    /\ end \in i + 4 .. Len(gap) + 1 /\ gap[i] = "/" /\ gap[i + 1] = "*"
    /\ BlockEnd(gap, end - 2) /\ \A j \in i + 2 .. end - 3 : ~BlockEnd(gap, j)
\* Blanks and comments one after the other, which begin at the positions in at.
Separates(gap, at) ==
    /\ 1 \in at
    /\ \A i \in at : \/ i = Len(gap) + 1
                     \/ gap[i] \in Blanks /\ i + 1 \in at
                     \/ \E end \in at : LineComment(gap, i, end) \/ BlockComment(gap, i, end)

\* What is written can be read: the tokens have their forms, what is between
\* them is blanks and comments, and no point follows a number but that of its
\* fraction.
WellWritten(sc) ==
    LET ts == ScriptTokens(sc)
    IN  /\ IsList(ts) /\ \A i \in DOMAIN ts : Spellable(ts[i])
        /\ \A i \in 1 .. Len(ts) - 1 :
              ts[i].kind = "number" /\ ts[i + 1].kind = "punct" => ts[i + 1].atoms # <<".">>
        /\ IsList(sc.gap) /\ sc.gap # <<>>
        /\ \E at \in SUBSET (1 .. Len(sc.gap) + 1) : Separates(sc.gap, at)
        /\ sc.cut \in 0 .. Len(SourceOf(sc, ts))

\* The scripts the parser is made for: a statement has one action at most, which
\* is one of the forms above or clearly none of them.  A name is quoted, or it is
\* none of the words that may stand before it.
TheWord(t, w) == t.kind = "ident" /\ t.atoms = <<w>>
ThePunct(t, p) == t.kind = "punct" /\ t.atoms = <<p>>
Reserved == {"COLUMN", "IF"} \cup TableConstraintKeywords
OrdinaryName(t) ==
    /\ IsNamePart(t) /\ t.atoms = <<t.atoms[1]>> /\ t.atoms[1] # "."
    /\ t.kind = "ident" => t.atoms[1] \notin Reserved

\* A type is one the table knows; what it knows that begins and ends as this
\* type does, with the rest of it in between, is the same.
SpelledWithin(type, spelling) ==
    \E at \in [DOMAIN type -> DOMAIN spelling] :
        /\ at[1] = 1 /\ at[Len(type)] = Len(spelling)
        /\ \A j \in DOMAIN type : spelling[at[j]] = type[j]
        /\ \A j, k \in DOMAIN type : j < k => at[j] < at[k]
OrdinaryType(type) ==
    /\ IsList(type) /\ type # <<>> /\ type[1] \in Words /\ type \in DOMAIN TypeNamed
    /\ ToSet(type) \cap {"NOT", "DEFAULT", "USING"} = {}
    /\ \A spelling \in DOMAIN TypeNamed :
          SpelledWithin(type, spelling) => TypeNamed[spelling] = TypeNamed[type]

\* From position i on, there are these words; or a name, and no point after it.
GoesOn(ts, i, ws) == \A k \in DOMAIN ws : i + k - 1 <= Len(ts) /\ TheWord(ts[i + k - 1], ws[k])
PointAt(ts, i) == i <= Len(ts) /\ ThePunct(ts[i], ".")
NameAt(ts, i) == i <= Len(ts) /\ OrdinaryName(ts[i]) /\ ~PointAt(ts, i + 1)
\* No form: another action, or a form that is broken off or changes nothing.
OtherAction(ts) ==
    \/ ~PointAt(ts, 1) /\ \A verb \in {"ADD", "DROP", "RENAME", "ALTER"} : ~GoesOn(ts, 1, <<verb>>)
    \/ \E kw \in TableConstraintKeywords : GoesOn(ts, 1, <<"ADD", kw>>)
    \/ GoesOn(ts, 1, <<"ADD", "COLUMN">>) /\ Len(ts) = 3 /\ NameAt(ts, 3)
    \/ \E verb \in {"DROP", "RENAME"} :
          GoesOn(ts, 1, <<verb>>) /\ ~GoesOn(ts, 2, <<"COLUMN">>)
    \/ GoesOn(ts, 1, <<"DROP", "COLUMN", "IF">>) /\ ~GoesOn(ts, 4, <<"EXISTS">>)
    \/ /\ GoesOn(ts, 1, <<"RENAME", "COLUMN">>) /\ NameAt(ts, 3)
       /\ GoesOn(ts, 4, <<"TO">>) =>
            \/ 5 <= Len(ts) => ~IsNamePart(ts[5])
            \/ NameAt(ts, 5) /\ ts[5].atoms = ts[3].atoms
    \/ \E i \in {2, 3} :
          /\ GoesOn(ts, 1, <<"ALTER">>) /\ (i = 3 => GoesOn(ts, 2, <<"COLUMN">>)) /\ NameAt(ts, i)
          /\ \A ws \in {<<"TYPE">>, <<"SET", "DATA", "TYPE">>, <<"SET", "NOT", "NULL">>,
                        <<"DROP", "NOT", "NULL">>} : ~GoesOn(ts, i + 1, ws)
OrdinaryAction(a) ==
    /\ a.do \in {"add", "drop", "rename", "type", "setNotNull", "dropNotNull", "other"}
    /\ a.do # "other" => OrdinaryName(a.column)
    /\ a.do = "rename" => OrdinaryName(a.newColumn)
    /\ a.do \in {"add", "type"} => OrdinaryType(a.type) /\ IsList(a.default)
    /\ a.do \in {"add", "drop"} => a.ifClause \in BOOLEAN
    /\ a.do = "add" => a.notNull \in BOOLEAN /\ ~(a.defaultFirst /\ a.notNull /\ a.default # <<>>)
    /\ a.do = "other" => IsList(a.tokens) /\ OtherAction(a.tokens)
OrdinaryStatement(st) ==
    /\ OrdinaryName(st.table) /\ IsList(st.actions) /\ Len(st.actions) < 2
    /\ \A a \in ToSet(st.actions) : OrdinaryAction(a)
    /\ \A t \in ToSet(StatementTokens(st)) : ~ThePunct(t, ";")
\* A script with a token of no kind is refused as a whole.
Ordinary(sc) ==
    \/ \E t \in ToSet(ScriptTokens(sc)) : t.kind = "other"
    \/ IsList(sc.statements) /\ \A st \in ToSet(sc.statements) : OrdinaryStatement(st)

-----------------------------------------------------------------------------
(* What the database does.                                                 *)

\* An action on a schema: the set holding the schema it leaves, empty when it
\* fails or when nothing is known of what it does.
NameOf(t) == t.atoms[1]
Perform(schema, table, a) ==
    LET ref == ColumnRef(NameOf(table), IF a.do = "other" THEN "" ELSE NameOf(a.column))
        there == ref \in DOMAIN schema
        changed(col) == IF there THEN {With(schema, ref, col)} ELSE {}
    IN  CASE a.do = "add" ->
                IF there THEN (IF a.ifClause THEN {schema} ELSE {})
                ELSE {With(schema, ref, Column(TypeNamed[a.type], ~a.notNull, a.default # <<>>))}
          [] a.do = "drop" ->
                IF there THEN {Without(schema, ref)} ELSE IF a.ifClause THEN {schema} ELSE {}
          [] a.do = "rename" ->
                LET new == ColumnRef(ref.table, NameOf(a.newColumn))
                IN  IF there /\ new \notin DOMAIN schema
                    THEN {With(Without(schema, ref), new, schema[ref])} ELSE {}
          [] a.do = "type" -> changed([schema[ref] EXCEPT !.type = TypeNamed[a.type]])
          [] a.do = "setNotNull" -> changed([schema[ref] EXCEPT !.nullable = FALSE])
          [] a.do = "dropNotNull" -> changed([schema[ref] EXCEPT !.nullable = TRUE])
          [] a.do = "other" -> {}

\* A script's actions one after the other, statement by statement.
Perform1(schemas, st) ==
    FoldLeft(LAMBDA reached, a : UNION {Perform(s, st.table, a) : s \in reached},
             schemas, st.actions)
Execute(schemas, sc) == FoldLeft(Perform1, schemas, sc.statements)

\* A schema as the tool sees it and as it is: the same columns, with types it
\* knows or knows that it does not.
Agree(seen, real) ==
    /\ DOMAIN seen = DOMAIN real
    /\ \A ref \in DOMAIN real :
          /\ seen[ref].type \in {real[ref].type, UnknownType}
          /\ seen[ref].nullable = real[ref].nullable
          /\ seen[ref].default = real[ref].default

-----------------------------------------------------------------------------

\* The first n tokens read are those written.
AsWritten(n, ts) ==
    /\ n <= Len(ts)
    /\ \A i \in 1 .. n : toks[i].kind = ts[i].kind /\ Content(toks[i]) = ts[i].atoms

\* The tokens of a file are those it was written with, whatever is written
\* between them and whatever is quoted, and it is refused at the first that is
\* of no kind the lexer knows; a file cut short gives the first of them, but for
\* the last one, which may be cut itself: a number cut after its point is a
\* number and a point.
BrokenFraction == /\ Len(toks) > 1
                  /\ toks[Len(toks) - 1].kind = "number" /\ IsPunct(toks[Len(toks)], ".")
LexesAsWritten(sc, ts) ==
    IF sc.cut = 0
    THEN /\ AsWritten(Len(toks), ts)
         /\ lexing = "failed" => Len(toks) < Len(ts) /\ ts[Len(toks) + 1].kind = "other"
         /\ lexing = "done" => Len(toks) = Len(ts)
    ELSE \/ toks = <<>>
         \/ AsWritten(Len(toks) - 1, ts)
         \/ BrokenFraction /\ AsWritten(Len(toks) - 2, ts)
=============================================================================
