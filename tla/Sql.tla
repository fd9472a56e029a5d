-------------------------------- MODULE Sql --------------------------------
(***************************************************************************)
(* The helpers of neon-sql on one table with a unique column: pgsql.rs,    *)
(* and what mysql.rs and sqlite.rs do otherwise.  Each helper runs one     *)
(* statement, paginate runs two, and turns its result into an answer.      *)
(*                                                                         *)
(* The database is external: it executes a statement as a whole.  The      *)
(* connection may fail before or after that.                               *)
(***************************************************************************)
EXTENDS Integers, FiniteSets, SequencesExt

CONSTANTS Client, Name,
          Select,       \* the statements of the reads: [names, limit, offset]
          Pages, Sizes, \* the arguments of paginate
          DefaultSize,  \* what a size of 0 stands for, 20
          MaxUint,      \* u64::MAX
          MaxCalls      \* bound: calls in all

Unset == -1             \* a SELECT without LIMIT, or without OFFSET

MaxInt == MaxUint \div 2   \* i64::MAX

ASSUME SqlAssumption ==
  /\ MaxUint \in Nat \ {0} /\ DefaultSize \in 1..MaxUint
  /\ Pages \subseteq 0..MaxUint /\ Sizes \subseteq 0..MaxUint
  /\ Select \subseteq [names : SUBSET Name, limit : Nat \cup {Unset}, offset : Nat \cup {Unset}]
  /\ MaxCalls \in Nat /\ 2 * MaxCalls <= MaxUint   \* no table has more than u64::MAX rows

VARIABLES backend,   \* the feature of the build
          rows,      \* the table, in the order of its ids
          made,      \* history: the call that made each id
          begun,     \* calls begun
          query      \* the last call of each client, and its answer

sqlVars == <<backend, rows, made, begun, query>>

NoStmt == [names |-> {}, limit |-> Unset, offset |-> Unset]

(* "page" is paginate between its statements; "lost" is an answer of the   *)
(* database that did not arrive, as the connection failed or a row did not *)
(* decode, and "quiet" that nothing was written since the call began.      *)
Idle == [op |-> "none", no |-> 0, stmt |-> NoStmt, page |-> 0, size |-> 0, total |-> 0,
         lost |-> FALSE, quiet |-> TRUE, ans |-> "none", got |-> <<>>]

SqlInit ==
  /\ backend \in {"pgsql", "mysql", "sqlite"}
  /\ rows = <<>>
  /\ made = <<>>
  /\ begun = 0
  /\ query = [c \in Client |-> Idle]

-----------------------------------------------------------------------------
(* The database                                                            *)

Used(name) == \E i \in DOMAIN rows : rows[i].name = name

Limited(q, s) ==
  LET from == IF s.offset = Unset THEN 0 ELSE s.offset
      to   == IF s.limit = Unset THEN Len(q) ELSE Min({Len(q), from + s.limit})
  IN  SubSeq(q, from + 1, to)

(* The rows of a table that have one of these names.                       *)
Kept(table, names) ==
  LET f[n \in 0..Len(table)] ==
        IF n = 0 THEN <<>>
        ELSE IF table[n].name \in names THEN Append(f[n - 1], table[n])
        ELSE f[n - 1]
  IN  f[Len(table)]

Matching(s) == Kept(rows, s.names)

(* SELECT, and SELECT COUNT( * ), whose one row LIMIT and OFFSET may cut.  *)
Found(s) == Limited(Matching(s), s)

Counted(s) == Limited(<<Len(Matching(s))>>, s)

(* LIMIT and OFFSET are u64 and bound as signed 64-bit values, but for     *)
(* MySQL: what is greater is not sent, and the call fails or panics.       *)
Binds(s) == backend = "mysql" \/ (s.limit <= MaxInt /\ s.offset <= MaxInt)

-----------------------------------------------------------------------------
(* A call of a helper, and its answer                                      *)

Answer(op, s, lost, ans, got) ==
  [op |-> op, no |-> begun + 1, stmt |-> s, page |-> 0, size |-> 0, total |-> 0,
   lost |-> lost, quiet |-> TRUE, ans |-> ans, got |-> got]

Call(c, q) ==
  /\ begun < MaxCalls /\ query[c].op # "page"
  /\ begun' = begun + 1
  /\ query' = [query EXCEPT ![c] = q]

(* The rows change under the calls of the others.                          *)
Write(c, q, table, more) ==
  /\ begun < MaxCalls /\ query[c].op # "page"
  /\ begun' = begun + 1
  /\ rows' = table
  /\ made' = made \o more
  /\ query' = [d \in Client |-> IF d = c THEN q ELSE [query[d] EXCEPT !.quiet = FALSE]]
  /\ UNCHANGED backend

Lost(op) == Answer(op, NoStmt, TRUE, "err", <<>>)

(* Mutant of TraceInsertResult: every error is taken for a conflict.       *)
TraceInsertResultAny(raw) == IF raw = "ok" THEN "inserted" ELSE "duplicate"

(* trace_insert_result: is_unique_violation tells a conflict from the rest. *)
TraceInsertResult(raw) ==
  CASE raw = "ok" -> "inserted"
    [] raw = "unique" -> "duplicate"
    [] OTHER -> "err"

InsertAnswer(op, raw, got) ==
  Answer(op, NoStmt, raw = "io", TraceInsertResult(raw), got)

NewRow(name) == [id |-> Len(made) + 1, name |-> name]

(* A conflict that the statement tolerates: RETURNING is empty, and the id *)
(* of mysql and sqlite is that of an earlier row, or 0.                    *)
Tolerated(c) ==
  \/ backend = "pgsql" /\ Call(c, InsertAnswer("ignore", "norow", <<>>))
  \/ /\ backend # "pgsql"
     /\ \E id \in 0..Len(made) : Call(c, InsertAnswer("ignore", "ok", <<id>>))

(* insert: the answer names the row, by RETURNING or by its id; "io" is an *)
(* answer that is lost when the row is there.                              *)
Insert(c, op, name) ==
  \/ /\ ~Used(name)
     /\ \E raw \in {"ok", "io"} :
          Write(c, InsertAnswer(op, raw, IF raw = "ok" THEN <<Len(made) + 1>> ELSE <<>>),
                Append(rows, NewRow(name)), <<begun + 1>>)
  \/ /\ Used(name)
     /\ \/ op = "insert" /\ Call(c, InsertAnswer(op, "unique", <<>>))
        \/ op = "ignore" /\ Tolerated(c)
     /\ UNCHANGED <<backend, rows, made>>

(* batch_insert, of two rows: all of them or none; a conflict is an error. *)
BatchInsert(c, a, b) ==
  /\ backend = "pgsql"
  /\ \/ /\ a = b \/ Used(a) \/ Used(b)
        /\ Call(c, Answer("batch", NoStmt, FALSE, "err", <<>>))
        /\ UNCHANGED <<backend, rows, made>>
     \/ /\ a # b /\ ~Used(a) /\ ~Used(b)
        /\ \E q \in {Lost("batch"),
                    Answer("batch", NoStmt, FALSE, "ok", <<Len(made) + 1, Len(made) + 2>>)} :
             Write(c, q, rows \o <<NewRow(a), [NewRow(b) EXCEPT !.id = @ + 1]>>,
                   <<begun + 1, begun + 1>>)

(* update of the unique column, and delete, with rows_affected.            *)
Affected(n) == {Lost("write"), Answer("write", NoStmt, FALSE, "ok", <<n>>)}

Update(c, from, to) ==
  LET hit == {i \in DOMAIN rows : rows[i].name = from}
  IN  \/ /\ from # to /\ hit # {} /\ Used(to)
         /\ Call(c, Answer("write", NoStmt, FALSE, "err", <<>>))
         /\ UNCHANGED <<backend, rows, made>>
      \/ /\ from = to \/ hit = {} \/ ~Used(to)
         /\ \E q \in Affected(Cardinality(hit)) :
              Write(c, q, [i \in DOMAIN rows |->
                             IF i \in hit THEN [rows[i] EXCEPT !.name = to] ELSE rows[i]], <<>>)

Delete(c, name) ==
  \E q \in Affected(IF Used(name) THEN 1 ELSE 0) : Write(c, q, Kept(rows, Name \ {name}), <<>>)

(* The connection fails before a write is executed, or the answer of a     *)
(* read is lost.                                                           *)
Disconnect(c) ==
  \/ /\ \E op \in {"insert", "write", "count", "one", "all", "paged"} : Call(c, Lost(op))
     /\ UNCHANGED <<backend, rows, made>>
  \/ /\ query[c].op = "page"
     /\ query' = [query EXCEPT ![c].op = "paged", ![c].lost = TRUE, ![c].ans = "err"]
     /\ UNCHANGED <<backend, rows, made, begun>>

-----------------------------------------------------------------------------
(* The reads                                                               *)

(* Mutant of CountStmt: LIMIT and OFFSET of the caller stay.               *)
CountStmtAsGiven(s) == s

(* The COUNT of a statement has no LIMIT and no OFFSET.                    *)
CountStmt(s) == [s EXCEPT !.limit = Unset, !.offset = Unset]

(* count, by fetch_one: no row is an error.                                *)
Count(c, s) ==
  LET n == Counted(CountStmt(s))
  IN  /\ Call(c, Answer("count", s, FALSE, IF n = <<>> THEN "err" ELSE "ok", n))
      /\ UNCHANGED <<backend, rows, made>>

(* The answer to a call with statement s that sends another.               *)
ReadAnswer(op, s, sent) ==
  IF Binds(sent) THEN Answer(op, s, FALSE, "ok", Found(sent)) ELSE Answer(op, s, FALSE, "err", <<>>)

(* find_one keeps the OFFSET.                                              *)
FindOne(c, s) ==
  /\ Call(c, ReadAnswer("one", s, [s EXCEPT !.limit = 1]))
  /\ UNCHANGED <<backend, rows, made>>

FindAll(c, s) ==
  /\ Call(c, ReadAnswer("all", s, s))
  /\ UNCHANGED <<backend, rows, made>>

(* The first statement of paginate: without rows there is no second one.   *)
Paginate(c, s, page, size) ==
  LET n == Counted(CountStmt(s))
      q == [Answer("paged", s, FALSE, "ok", <<>>) EXCEPT !.page = page, !.size = size]
  IN  /\ Call(c, CASE n = <<>> -> [q EXCEPT !.ans = "err"]
                   [] n = <<0>> -> q
                   [] OTHER -> [q EXCEPT !.op = "page", !.ans = "none", !.total = n[1]])
      /\ UNCHANGED <<backend, rows, made>>

PageSize(size) == IF size = 0 THEN DefaultSize ELSE size

(* Mutant of PageStart: the product wraps.                                 *)
PageStartWraps(page, size) ==
  ((IF page = 0 THEN 0 ELSE page - 1) * PageSize(size)) % (MaxUint + 1)

(* Pages count from 1, and page 0 is page 1; the product saturates.        *)
PageStart(page, size) ==
  LET at == (IF page = 0 THEN 0 ELSE page - 1) * PageSize(size)
  IN  IF at > MaxUint THEN MaxUint ELSE at

FetchPage(c) ==
  LET q    == query[c]
      sent == [q.stmt EXCEPT !.limit = PageSize(q.size), !.offset = PageStart(q.page, q.size)]
  IN  /\ q.op = "page"
      /\ query' = [query EXCEPT ![c] =
           IF Binds(sent) THEN [q EXCEPT !.op = "paged", !.ans = "ok", !.got = Found(sent)]
                          ELSE [q EXCEPT !.op = "paged", !.ans = "err"]]
      /\ UNCHANGED <<backend, rows, made, begun>>

(* The writes that every backend has, and the reads, which are the same in *)
(* all of them.                                                            *)
WriteStep(c) ==
  \/ \E name \in Name, op \in {"insert", "ignore"} : Insert(c, op, name)
  \/ \E a, b \in Name : Update(c, a, b)
  \/ \E name \in Name : Delete(c, name)

ReadStep(c) ==
  \/ \E s \in Select :
       \/ Count(c, s) \/ FindOne(c, s) \/ FindAll(c, s)
       \/ \E page \in Pages, size \in Sizes : Paginate(c, s, page, size)
  \/ FetchPage(c)

SqlNext ==
  \E c \in Client :
    \/ WriteStep(c) \/ ReadStep(c) \/ Disconnect(c)
    \/ \E a, b \in Name : BatchInsert(c, a, b)

SqlSpec == SqlInit /\ [][SqlNext]_sqlVars

-----------------------------------------------------------------------------
MadeBy(no) == {id \in DOMAIN made : made[id] = no}

(* An insert is told what became of it: Inserted names the row this call   *)
(* made, Duplicate and any error but a lost answer mean that it made none, *)
(* and batch_insert lists all of its rows; whatever the other calls insert *)
(* meanwhile.  Statements that tolerate conflicts are excepted.            *)
InsertIsTold ==
  \A c \in Client :
    LET q == query[c]
    IN  q.op \in {"insert", "batch"} =>
          /\ q.ans \in {"inserted", "ok"} => MadeBy(q.no) = ToSet(q.got) /\ q.got # <<>>
          /\ q.ans = "duplicate" \/ (q.ans = "err" /\ ~q.lost) => MadeBy(q.no) = {}

(* If nothing is written meanwhile, count and the total of paginate are    *)
(* the number of rows that match, whatever LIMIT and OFFSET the statement  *)
(* came with, and a page holds the rows of its place: pages do not overlap *)
(* or leave a row out, and one past the end is empty.  A page of rows that *)
(* are there is refused only where its place or its size is more than      *)
(* PostgreSQL and SQLite take, MaxInt: it is then an error, not a wrong or *)
(* empty page.                                                             *)
ReadsAreExact ==
  \A c \in Client :
    LET q     == query[c]
        all   == Matching(q.stmt)
        first == (IF q.page = 0 THEN 0 ELSE q.page - 1) * PageSize(q.size)
    IN  /\ q.op = "count" /\ ~q.lost /\ q.quiet => q.got = <<Len(all)>>
        /\ q.op = "paged" /\ ~q.lost /\ q.quiet =>
             /\ q.total = Len(all)
             /\ q.ans = "ok" =>
                  q.got = SubSeq(all, first + 1, Min({Len(all), first + PageSize(q.size)}))
             /\ q.ans # "ok" =>
                  all # <<>> /\ backend # "mysql" /\ (first > MaxInt \/ PageSize(q.size) > MaxInt)
=============================================================================
