---------------------------- MODULE QueryBuilder -----------------------------
(***************************************************************************)
(* The query builder of core/db.go, and the typed queries and repositories *)
(* of core/model.go that pass their calls on to it: the statements a chain *)
(* of calls builds, the arguments that go with them, and Paginate, which   *)
(* sends two of them.                                                      *)
(*                                                                         *)
(* A statement is the record of its parts, in place of its text; a row is  *)
(* its id, which is its only column.  Joins and raw conditions, which pass *)
(* through unchanged, are left out.  What a database does with a statement *)
(* is external.                                                            *)
(***************************************************************************)
EXTENDS Integers, Sequences, SequencesExt

Dialects == {"mysql", "postgres", "sqlite"}

\* The calls of a chain.
Links == [call : {"Where", "OrWhere"}, op : {"=", ">="}, n : Int]
         \cup [call : {"WhereIn"}, values : Seq(Int)]
         \cup [call : {"OrderBy"}]
         \cup [call : {"Limit", "Offset"}, n : Int]

\* A chain, the call that ends it, and the rows its statements meet: the second one of
\* Paginate those after what other clients did since the first.  Numbers are those that
\* the code's integers hold, and the float it divides a total by.
Uses == [chain : Seq(Links), dialect : Dialects, before : Seq(Int),
         end : {"Get", "First", "Count", "Update", "Delete"}]
        \cup
        [chain : Seq(Links), dialect : Dialects, before : Seq(Int), end : {"Paginate"},
         page : Int, per : Int, after : Seq(Int)]

\* The elements of a sequence that are in S, in their order.
Among(seq, S) ==
    LET upto[i \in 0..Len(seq)] ==
            IF i = 0 THEN <<>>
            ELSE IF seq[i] \in S THEN Append(upto[i - 1], seq[i]) ELSE upto[i - 1]
    IN  upto[Len(seq)]

------------------------------------------------------------------------------
(* The chain *)

NewQuery == [wheres |-> <<>>, count |-> FALSE, orderBy |-> FALSE, limitN |-> 0, offsetN |-> 0]

\* One call of the chain; WhereIn sets neither a value nor an op, which is then "none".
Call(q, c) ==
    CASE c.call = "Where"   -> [q EXCEPT !.wheres = Append(@,
                    [boolean |-> "AND", op |-> c.op, value |-> c.n, inValues |-> <<>>])]
      [] c.call = "OrWhere" -> [q EXCEPT !.wheres = Append(@,
                    [boolean |-> "OR", op |-> c.op, value |-> c.n, inValues |-> <<>>])]
      [] c.call = "WhereIn" -> [q EXCEPT !.wheres = Append(@,
                    [boolean |-> "AND", op |-> "none", value |-> 0, inValues |-> c.values])]
      [] c.call = "OrderBy" -> [q EXCEPT !.orderBy = TRUE]
      [] c.call = "Limit"   -> [q EXCEPT !.limitN = c.n]
      [] c.call = "Offset"  -> [q EXCEPT !.offsetN = c.n]

Chain(calls) ==
    LET after[i \in 0..Len(calls)] ==
            IF i = 0 THEN NewQuery ELSE Call(after[i - 1], calls[i])
    IN  after[Len(calls)]

------------------------------------------------------------------------------
(* Statements *)

\* $1, $2, ... for PostgreSQL; the others write a question mark, here 0.
Placeholder(dialect, index) == IF dialect = "postgres" THEN index ELSE 0

\* The number of placeholders of a condition.
Holes(w) == IF w.inValues = <<>> THEN 1 ELSE Len(w.inValues)

\* The arguments of a condition.
Arguments(w) == IF w.inValues = <<>> THEN <<w.value>> ELSE w.inValues

\* A condition with its placeholders, numbered from index on.
Condition(w, dialect, index) ==
    [boolean |-> w.boolean, op |-> IF w.inValues = <<>> THEN w.op ELSE "IN",
     holes |-> [j \in 1..Holes(w) |-> Placeholder(dialect, index + j - 1)]]

\* The conditions, their placeholders numbered from start on, and their arguments.
buildWhere(q, dialect, start) ==
    LET to[i \in 0..Len(q.wheres)] ==
            IF i = 0 THEN [text |-> <<>>, args |-> <<>>, paramIdx |-> start]
            ELSE LET w == q.wheres[i]
                     b == to[i - 1]
                 IN  [text |-> Append(b.text, Condition(w, dialect, b.paramIdx)),
                      args |-> b.args \o Arguments(w),
                      paramIdx |-> b.paramIdx + Holes(w)]
    IN  to[Len(q.wheres)]

\* Only a positive limit or offset is written.
Positive(n) == IF n > 0 THEN n ELSE 0

buildSelect(q, dialect) ==
    LET where == buildWhere(q, dialect, 1)
    IN  [kind |-> "SELECT", sets |-> <<>>, where |-> where.text, args |-> where.args,
         count |-> q.count, orderBy |-> q.orderBy,
         limitN |-> Positive(q.limitN), offsetN |-> Positive(q.offsetN)]

\* Faulty variant, which nothing uses: the placeholders of the WHERE are numbered from
\* 1 again.
buildUpdateRestarted(q, dialect, data) ==
    LET where == buildWhere(q, dialect, 1)
    IN  [kind |-> "UPDATE", sets |-> [i \in DOMAIN data |-> Placeholder(dialect, i)],
         where |-> where.text, args |-> data \o where.args,
         count |-> FALSE, orderBy |-> FALSE, limitN |-> 0, offsetN |-> 0]

\* The values of the new columns, in the order the map is walked in, come first.
buildUpdate(q, dialect, data) ==
    LET where == buildWhere(q, dialect, Len(data) + 1)
    IN  [kind |-> "UPDATE", sets |-> [i \in DOMAIN data |-> Placeholder(dialect, i)],
         where |-> where.text, args |-> data \o where.args,
         count |-> FALSE, orderBy |-> FALSE, limitN |-> 0, offsetN |-> 0]

\* Neither this nor an update looks at the limit and the offset.
buildDelete(q, dialect) ==
    [buildUpdate([q EXCEPT !.orderBy = FALSE], dialect, <<>>) EXCEPT !.kind = "DELETE"]

------------------------------------------------------------------------------
(* The database *)

\* The argument of the n-th placeholder of a statement.
Bound(s, hole, n) == s.args[IF hole = 0 THEN n ELSE hole]

\* The values a condition is tested with: its placeholders follow those before it.
Values(s, i) ==
    LET seen[k \in 0..Len(s.where)] ==
            IF k = 0 THEN Len(s.sets) ELSE seen[k - 1] + Len(s.where[k].holes)
    IN  {Bound(s, s.where[i].holes[j], seen[i - 1] + j) : j \in DOMAIN s.where[i].holes}

Compare(op, row, values) ==
    CASE op = "="  -> row \in values
      [] op = "IN" -> row \in values
      [] op = ">=" -> \A v \in values : row >= v

\* Whether conditions of which those in holds hold are true as a whole: AND binds
\* more tightly than OR.
Join(where, holds) ==
    LET to[i \in 0..Len(where)] ==
            IF i = 0 THEN [some |-> FALSE, all |-> TRUE]
            ELSE LET b == to[i - 1]
                 IN  IF i > 1 /\ where[i].boolean = "OR"
                     THEN [some |-> b.some \/ b.all, all |-> i \in holds]
                     ELSE [b EXCEPT !.all = @ /\ i \in holds]
    IN  to[Len(where)].some \/ to[Len(where)].all

Matches(s, row) ==
    Join(s.where, {i \in DOMAIN s.where : Compare(s.where[i].op, row, Values(s, i))})

\* The rows that match.
Found(s, rows) == Among(rows, {row \in ToSet(rows) : Matches(s, row)})

\* A condition without an operator is a syntax error, and so is OFFSET without
\* LIMIT but for PostgreSQL, which does not sort a count by a column of its rows.
Refuses(dialect, s) ==
    \/ \E i \in DOMAIN s.where : s.where[i].op = "none"
    \/ dialect # "postgres" /\ s.offsetN > 0 /\ s.limitN = 0
    \/ dialect = "postgres" /\ s.count /\ s.orderBy

\* n of the rows from an offset on, all of them when n is 0.
Slice(rows, offset, n) ==
    SubSeq(rows, offset + 1, IF n > 0 THEN Min({Len(rows), offset + n}) ELSE Len(rows))

\* The rows of a SELECT; the one row of a count is the number.  rows is in the
\* order the database reads it in, which is that of the ids when it sorts.
Answer(s, rows) ==
    Slice(IF s.count THEN <<Len(Found(s, rows))>> ELSE Found(s, rows), s.offsetN, s.limitN)

------------------------------------------------------------------------------
(* The calls that end a chain *)

Error == [ok |-> FALSE]

queryRows(s, dialect, rows) ==
    IF Refuses(dialect, s) THEN Error ELSE [ok |-> TRUE, rows |-> Answer(s, rows)]

Get(q, dialect, rows) == queryRows(buildSelect(q, dialect), dialect, rows)

First(q, dialect, rows) == Get([q EXCEPT !.limitN = 1], dialect, rows)

\* No row counts as none.
CountOf(got) ==
    IF ~got.ok THEN Error
    ELSE [ok |-> TRUE, count |-> IF got.rows = <<>> THEN 0 ELSE got.rows[1]]

Count(q, dialect, rows) == CountOf(First([q EXCEPT !.count = TRUE], dialect, rows))

\* The numbers of a page, from what the two statements gave.
PaginationResult(total, got, current, per) ==
    LET offset == (current - 1) * per
        some   == total.count > 0 /\ got.rows # <<>>
    IN  IF ~total.ok \/ ~got.ok THEN Error
        ELSE [ok |-> TRUE, rows |-> got.rows, count |-> total.count, current |-> current,
              per |-> per,
              last |-> IF total.count = 0 THEN 1 ELSE (total.count + per - 1) \div per,
              from |-> IF some THEN offset + 1 ELSE 0,
              to |-> IF some THEN offset + Len(got.rows) ELSE 0]

\* The count sees the rows before, the page those after what other clients do
\* in between.
Paginate(q, dialect, page, perPage, before, after) ==
    LET current == IF page <= 0 THEN 1 ELSE page
        per     == IF perPage <= 0 THEN 15 ELSE perPage
    IN  PaginationResult(
            Count(q, dialect, before),
            Get([q EXCEPT !.limitN = per, !.offsetN = (current - 1) * per], dialect, after),
            current, per)

\* The rows a statement changes, and the values it gives their columns.
exec(s, dialect, rows) ==
    IF Refuses(dialect, s) THEN Error
    ELSE [ok |-> TRUE, rows |-> Found(s, rows),
          data |-> [i \in DOMAIN s.sets |-> Bound(s, s.sets[i], i)]]

Update(q, dialect, data, rows) == exec(buildUpdate(q, dialect, data), dialect, rows)

Delete(q, dialect, rows) == exec(buildDelete(q, dialect), dialect, rows)

\* A chain and the call that ends it.
Run(c) ==
    LET q == Chain(c.chain)
    IN  CASE c.end = "Get"      -> Get(q, c.dialect, c.before)
          [] c.end = "First"    -> First(q, c.dialect, c.before)
          [] c.end = "Count"    -> Count(q, c.dialect, c.before)
          [] c.end = "Update"   -> Update(q, c.dialect, <<7, 8>>, c.before)
          [] c.end = "Delete"   -> Delete(q, c.dialect, c.before)
          [] c.end = "Paginate" -> Paginate(q, c.dialect, c.page, c.per, c.before, c.after)

------------------------------------------------------------------------------
(* What is promised *)

\* The last number a chain sets with a call, 0 when it does not.
Given(chain, call) ==
    LET at == {i \in DOMAIN chain : chain[i].call = call}
    IN  IF at = {} THEN 0 ELSE chain[Max(at)].n

\* The rows a chain asks for: those that satisfy all conditions from the start,
\* or from an OrWhere, up to the next OrWhere.
Wanted(chain, row) ==
    LET conditions == Among(chain, {c \in Links : c.call \in {"Where", "OrWhere", "WhereIn"}})
        holds(c) == IF c.call = "WhereIn" THEN row \in ToSet(c.values)
                    ELSE IF c.op = "=" THEN row = c.n ELSE row >= c.n
        starts == {1} \cup {i \in DOMAIN conditions : conditions[i].call = "OrWhere"}
    IN  \E s \in starts : \A i \in DOMAIN conditions :
            i >= s /\ (\A t \in starts : t > s => i < t) => holds(conditions[i])

\* Whatever the dialect and the order of the calls, every condition is tested with
\* its own values and every column set to its own, so an update and a delete
\* affect the rows the chain asks for (all of them, the limit does not count), and
\* a page is a slice of these rows with numbers that fit it and the total.  The
\* exceptions: an empty WhereIn is an error of every call, never all rows or
\* none; an offset alone is one for MySQL and SQLite, and paginating what is
\* sorted for PostgreSQL; an offset of the chain makes the total 0; and rows that
\* come or go between the two statements of Paginate show in one of them only.
QueriesExplained(c, r) ==
    LET wanted(rows) == Among(rows, {row \in ToSet(rows) : Wanted(c.chain, row)})
        part(rows, from, n) == SubSeq(rows, from + 1, Min({Len(rows), from + n}))
        offset == Positive(Given(c.chain, "Offset"))
        limit  == Positive(Given(c.chain, "Limit"))
        sorted == \E i \in DOMAIN c.chain : c.chain[i].call = "OrderBy"
        all    == wanted(c.before)
    IN  /\ r.ok <=>
              /\ ~\E i \in DOMAIN c.chain : c.chain[i].call = "WhereIn" /\ c.chain[i].values = <<>>
              /\ ~(c.end = "Get" /\ offset > 0 /\ limit = 0 /\ c.dialect # "postgres")
              /\ ~(c.end \in {"Count", "Paginate"} /\ sorted /\ c.dialect = "postgres")
        /\ r.ok /\ c.end \in {"Update", "Delete"} => r.rows = all
        /\ r.ok /\ c.end = "Update" => r.data = <<7, 8>>
        /\ r.ok /\ c.end = "Get" =>
              r.rows = part(all, offset, IF limit = 0 THEN Len(all) ELSE limit)
        /\ r.ok /\ c.end = "First" => r.rows = part(all, offset, 1)
        /\ r.ok /\ c.end \in {"Count", "Paginate"} =>
              r.count = IF offset > 0 THEN 0 ELSE Len(all)
        /\ r.ok /\ c.end = "Paginate" =>
              /\ r.rows = part(wanted(c.after), (r.current - 1) * r.per, r.per)
              /\ r.last >= 1 /\ r.count <= r.last * r.per
              /\ r.last > 1 => r.count > (r.last - 1) * r.per
              /\ offset = 0 /\ c.before = c.after =>
                    /\ r.rows # <<>> <=> r.current <= r.last /\ r.count > 0
                    /\ r.to <= r.count
                    /\ r.rows = IF r.from = 0 THEN <<>> ELSE SubSeq(all, r.from, r.to)
==============================================================================
