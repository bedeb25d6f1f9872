------------------------------ MODULE SqlParser ------------------------------
(***************************************************************************)
(* From a migration file to its operations: internal/parser/sql/parser.go. *)
(* The lexer runs to its end, the tokens are cut into statements, and each *)
(* statement becomes one operation, or none and the whole file is refused. *)
(*                                                                         *)
(* A statement is a sequence of tokens; the operators that read one take   *)
(* it and a position in it, and say where they stopped.                    *)
(***************************************************************************)
EXTENDS SqlLexer, Schema

\* What the compatibility table makes of a type's spelling; of the spellings
\* outside its domain it makes nothing.
CONSTANT TypeNamed

VARIABLES
    parsing,   \* "lexing", "parsing", "parsed" or "rejected"
    stmts,     \* the statements still to be parsed
    ops        \* the operations of those that have been

parseVars == <<parsing, stmts, ops>>
sqlVars == <<lexVars, parseVars>>

ASSUME TypesAssumption ==
    \A spelling \in DOMAIN TypeNamed : TypeNamed[spelling].family # "other"

\* An operation the parser cannot name, and what stands for an error.
Unclassified == [kind |-> "Unclassified", table |-> "", column |-> ""]
Malformed == [kind |-> "Malformed"]

\* A migration file about to be parsed.
ParsingBegins(src) == /\ Lexing(src)
                      /\ parsing = "lexing"
                      /\ stmts = <<>> /\ ops = <<>>
ParseFrom(src) == /\ LexFrom(src)
                  /\ parsing' = "lexing"
                  /\ stmts' = <<>> /\ ops' = <<>>

-----------------------------------------------------------------------------
(* Tokens and what they say.                                               *)

\* The atoms of a token; of a quotation, those between the delimiters.
Content(t) == IF t.kind \in Quotation THEN SubSeq(text, t.first + 1, t.last - 1)
                                      ELSE SubSeq(text, t.first, t.last)
IsKeyword(t, kw) == t.kind = "ident" /\ Content(t) = <<kw>>
IsPunct(t, p) == t.kind = "punct" /\ Content(t) = <<p>>

\* The token at a position; past the end there is one of no kind.
At(s, i) == IF i <= Len(s) THEN s[i] ELSE [kind |-> "end", first |-> 0, last |-> 0]

\* A name is known by the one atom it is written with; those written with
\* several are not told apart.
OtherName == "<other name>"
Spell(atoms) == CASE Len(atoms) = 0 -> ""
                  [] Len(atoms) = 1 -> atoms[1]
                  [] OTHER -> OtherName

\* lastQualifiedPart: what follows the last point, even one inside quotes.
LastQualifiedPart(parts) ==
    LET atoms == Content(parts[Len(parts)])
    IN  Spell(SubSeq(atoms, SelectLastInSeq(atoms, LAMBDA a : a = ".") + 1, Len(atoms)))

\* name: identifiers joined by points, and where what follows begins.
IsNamePart(t) == t.kind \in {"ident", "quoted"}
Name(s, i) ==
    LET last == i + 2 * Min({n \in 0 .. Len(s) : ~IsPunct(At(s, i + 2 * n + 1), ".")})
        parts == [n \in 1 .. (last - i) \div 2 + 1 |-> At(s, i + 2 * (n - 1))]
    IN  IF \A n \in DOMAIN parts : IsNamePart(parts[n])
        THEN [ok |-> TRUE, name |-> LastQualifiedPart(parts), next |-> last + 1]
        ELSE [ok |-> FALSE, name |-> "", next |-> i]

\* acceptKeyword, several in a row; an optional clause; and one that begins as
\* it should and then does not go on.
Keywords(s, i, kws) == \A k \in DOMAIN kws : IsKeyword(At(s, i + k - 1), kws[k])
Optional(s, i, kws) == IF Keywords(s, i, kws) THEN i + Len(kws) ELSE i
HalfClause(s, i, kws) == IsKeyword(At(s, i), kws[1]) /\ ~Keywords(s, i, kws)
\* An expression is required after the keyword: restAsText.
NothingAfter(s, i, kw) == IsKeyword(At(s, i), kw) /\ i = Len(s)

IfExists == <<"IF", "EXISTS">>
IfNotExists == <<"IF", "NOT", "EXISTS">>
NotNull == <<"NOT", "NULL">>

\* typeName: a type goes on to a keyword that ends it, or to the end of the
\* statement; it is spelled with everything between its first and last token.
EndsType(t) == \E kw \in {"NOT", "DEFAULT", "USING"} : IsKeyword(t, kw)
TypeEnd(s, i) ==
    LET found == SelectInSubSeq(s, i, Len(s), EndsType)
    IN  IF found = 0 THEN Len(s) + 1 ELSE found
UnknownType == [family |-> "other", size |-> 0]
TypeOf(s, i, end) ==
    LET spelling == SubSeq(text, s[i].first, s[end - 1].last)
    IN  IF spelling \in DOMAIN TypeNamed THEN TypeNamed[spelling] ELSE UnknownType

-----------------------------------------------------------------------------
(* The statements: ALTER TABLE ...                                         *)

\* ... TYPE type [USING expression].
FinishAlterColumnType(s, table, column, i) ==
    LET end == TypeEnd(s, i)
    IN  IF end = i \/ NothingAfter(s, end, "USING")
        THEN Malformed
        ELSE [kind |-> "AlterColumnType", table |-> table, column |-> column,
              newType |-> TypeOf(s, i, end)]

AlterNamed(s, table, column, i) ==
    LET nullability(kind) == [kind |-> kind, table |-> table, column |-> column]
    IN  CASE Keywords(s, i, <<"TYPE">>) ->
                FinishAlterColumnType(s, table, column, i + 1)
          [] Keywords(s, i, <<"SET", "DATA", "TYPE">>) ->
                FinishAlterColumnType(s, table, column, i + 3)
          [] Keywords(s, i, <<"SET", "DATA">>) /\ ~Keywords(s, i + 2, <<"TYPE">>) -> Malformed
          [] Keywords(s, i, <<"SET">> \o NotNull) -> nullability("SetNotNull")
          [] Keywords(s, i, <<"DROP">> \o NotNull) -> nullability("DropNotNull")
          [] /\ Keywords(s, i, <<"SET">>) \/ Keywords(s, i, <<"DROP">>)
             /\ HalfClause(s, i + 1, NotNull) -> Malformed
          [] OTHER -> Unclassified

\* ... ALTER [COLUMN] column ...
ParseAlterColumn(s, table, i) ==
    LET column == Name(s, Optional(s, i, <<"COLUMN">>))
    IN  IF column.ok THEN AlterNamed(s, table, column.name, column.next) ELSE Unclassified

\* ... RENAME COLUMN column TO column.
ParseRenameColumn(s, table, i) ==
    LET old == Name(s, i + 1)
        new == Name(s, old.next + 1)
    IN  CASE ~Keywords(s, i, <<"COLUMN">>) -> Unclassified
          [] Keywords(s, i, <<"COLUMN">>) /\ old.ok /\ Keywords(s, old.next, <<"TO">>) /\ new.ok ->
                [kind |-> "RenameColumn", table |-> table, column |-> old.name,
                 newColumn |-> new.name]
          [] OTHER -> Malformed

\* ... DROP COLUMN [IF EXISTS] column.
ParseDropColumn(s, table, i) ==
    LET column == Name(s, Optional(s, i + 1, IfExists))
    IN  CASE ~Keywords(s, i, <<"COLUMN">>) -> Unclassified
          [] Keywords(s, i, <<"COLUMN">>) /\ ~HalfClause(s, i + 1, IfExists) /\ column.ok ->
                [kind |-> "DropColumn", table |-> table, column |-> column.name]
          [] OTHER -> Malformed

\* ... column type [NOT NULL] [DEFAULT expression].
AddTyped(s, table, column, end) ==
    LET next == Optional(s, end, NotNull)
    IN  IF \/ end = column.next
           \/ HalfClause(s, end, NotNull)
           \/ NothingAfter(s, next, "DEFAULT")
        THEN Malformed
        ELSE [kind |-> "AddColumn", table |-> table, column |-> column.name,
              newType |-> TypeOf(s, column.next, end),
              nullable |-> next = end, default |-> Keywords(s, next, <<"DEFAULT">>)]

\* ... ADD [COLUMN] [IF NOT EXISTS] ..., where a word that begins a constraint
\* is no column's name, and only COLUMN commits to one.
TableConstraintKeywords ==
    {"CONSTRAINT", "PRIMARY", "UNIQUE", "CHECK", "FOREIGN", "EXCLUDE", "LIKE"}
ParseAddColumn(s, table, i) ==
    LET explicit == Keywords(s, i, <<"COLUMN">>)
        named == Optional(s, i, <<"COLUMN">>)
        column == Name(s, Optional(s, named, IfNotExists))
        constraint == \E kw \in TableConstraintKeywords : IsKeyword(At(s, named), kw)
    IN  CASE HalfClause(s, named, IfNotExists) -> Malformed
          [] ~HalfClause(s, named, IfNotExists) /\ ~column.ok ->
                IF explicit THEN Malformed ELSE Unclassified
          [] ~HalfClause(s, named, IfNotExists) /\ column.ok ->
                IF ~explicit /\ constraint
                THEN Unclassified
                ELSE AddTyped(s, table, column, TypeEnd(s, column.next))

AlterTable(s, table, i) ==
    CASE Keywords(s, i, <<"ADD">>) -> ParseAddColumn(s, table, i + 1)
      [] Keywords(s, i, <<"DROP">>) -> ParseDropColumn(s, table, i + 1)
      [] Keywords(s, i, <<"RENAME">>) -> ParseRenameColumn(s, table, i + 1)
      [] Keywords(s, i, <<"ALTER">>) -> ParseAlterColumn(s, table, i + 1)
      [] OTHER -> Unclassified

\* One statement; what is left of it after the form it has is not looked at.
ParseStatement(s) ==
    LET table == Name(s, Optional(s, 3, IfExists))
    IN  IF ~Keywords(s, 1, <<"ALTER", "TABLE">>)
        THEN Unclassified
        ELSE IF HalfClause(s, 3, IfExists) \/ ~table.ok
             THEN Malformed
             ELSE AlterTable(s, table.name, table.next)

-----------------------------------------------------------------------------
(* A migration file.                                                       *)

\* splitStatements: an empty statement is dropped.
EndStatement(acc) ==
    [stmts |-> IF acc.cur = <<>> THEN acc.stmts ELSE Append(acc.stmts, acc.cur),
     cur |-> <<>>]

\* Mutant: the last statement is lost without its semicolon.
LastStatementIfEnded(acc) == acc.stmts

\* The last statement needs no semicolon.
LastStatement(acc) == EndStatement(acc).stmts
SplitStatements(ts) ==
    LastStatement(
        FoldLeft(LAMBDA acc, t : IF IsPunct(t, ";")
                                 THEN EndStatement(acc)
                                 ELSE [acc EXCEPT !.cur = Append(@, t)],
                 [stmts |-> <<>>, cur |-> <<>>], ts))

\* MigrationOp.validate.
ValidOp(op) ==
    \/ op.kind = "Unclassified"
    \/ /\ op.table # "" /\ op.column # ""
       /\ op.kind = "RenameColumn" => op.newColumn \notin {"", op.column}

Lex == /\ parsing = "lexing"
       /\ LexNext
       /\ UNCHANGED parseVars

Split == /\ parsing = "lexing" /\ lexing = "done"
         /\ stmts' = SplitStatements(toks)
         /\ parsing' = "parsing"
         /\ UNCHANGED <<lexVars, ops>>

\* The first error ends it, and nothing of the file is kept.
Reject == /\ parsing' = "rejected"
          /\ UNCHANGED <<lexVars, stmts, ops>>
RejectText == parsing = "lexing" /\ lexing = "failed" /\ Reject
RejectOps == /\ parsing = "parsing" /\ stmts = <<>> /\ \E op \in ToSet(ops) : ~ValidOp(op)
             /\ Reject

\* The next statement has become op.
TakeStatement(op) == /\ ops' = Append(ops, op)
                     /\ stmts' = Tail(stmts)
                     /\ UNCHANGED <<lexVars, parsing>>
ParseHead == /\ parsing = "parsing" /\ stmts # <<>>
             /\ \E op \in {ParseStatement(Head(stmts))} :
                   \/ op # Malformed /\ TakeStatement(op)
                   \/ op = Malformed /\ Reject

Accept == /\ parsing = "parsing" /\ stmts = <<>>
          /\ \A op \in ToSet(ops) : ValidOp(op)
          /\ parsing' = "parsed"
          /\ UNCHANGED <<lexVars, stmts, ops>>

ParseNext == Lex \/ Split \/ ParseHead \/ RejectText \/ RejectOps \/ Accept

ParseTypeOK ==
    /\ parsing \in {"lexing", "parsing", "parsed", "rejected"}
    /\ parsing # "lexing" => lexing = "done" \/ parsing = "rejected"
    /\ \A op \in ToSet(ops) : op.kind \in OpKinds
=============================================================================
