------------------------------ MODULE Products -------------------------------
(***************************************************************************)
(* The way of a value from a form to the database and back: the rules of   *)
(* core/validator.go, Store and Update of the product controller, and the  *)
(* mapping of rows to structs of core/model.go.                            *)
(*                                                                         *)
(* A text is a record of what the rules look at.  A price is its number of *)
(* thousandths.  The conversions of a database are external.               *)
(***************************************************************************)
EXTENDS Integers, Sequences

------------------------------------------------------------------------------
(* Rules *)

Text(len, blank, number) == [len |-> len, blank |-> blank, number |-> number]

\* What a client sends, and what a trade is tried on: a price is missing, no number,
\* or any number.
Forms ==
    LET name == [len : Nat, blank : BOOLEAN, number : BOOLEAN]
    IN  [name : name, json : BOOLEAN, price : {"missing", "garbage"}]
        \cup [name : name, json : BOOLEAN, price : {"number"}, number : Int]

Exchanges == [column : {"decimal", "numeric", "real"}, store : Forms, update : Forms]

Required(t) == ~(t.len = 0 \/ t.blank)
Numeric(t)  == t.len > 0 => t.number

------------------------------------------------------------------------------
(* Rows *)

\* Faulty variant, which nothing uses: a float field that takes no strings.
setFieldFloatOnly(raw) == IF raw.type = "float64" THEN raw.n ELSE 0

\* setField of a float field: integers have no case.
setField(raw) == IF raw.type \in {"float64", "string"} THEN raw.n ELSE 0

\* How the value of a price comes back: DECIMAL(10,2) of MySQL and PostgreSQL rounds
\* and comes as a string, SQLite keeps a whole number in a NUMERIC column as an
\* integer, and a REAL one as it is.
Column(column, price) ==
    CASE column = "decimal" ->
             [type |-> "string", n |-> IF price < 0 THEN -10 * ((5 - price) \div 10)
                                       ELSE 10 * ((price + 5) \div 10)]
      [] column = "numeric" -> [type |-> IF price % 1000 = 0 THEN "int64" ELSE "float64", n |-> price]
      [] column = "real"    -> [type |-> "float64", n |-> price]

\* mapToStruct on a row of products: what Find returns.
Find(column, row) == [row EXCEPT !.price = setField(Column(column, @))]

------------------------------------------------------------------------------
(* The controller *)

\* A form whose price is missing or no number gives 0, a JSON body without one too;
\* one with a string for it is refused.
Price(rq) == IF rq.price = "number" THEN rq.number ELSE 0

Malformed(rq) == rq.json /\ rq.price = "garbage"

\* Store: the text of the price, which is never empty, satisfies its rules always.
Store(rq) ==
    LET price == Text(1, FALSE, TRUE)
    IN  IF Malformed(rq) THEN [status |-> 400]
        ELSE IF ~(Required(rq.name) /\ Required(price) /\ Numeric(price)) THEN [status |-> 422]
        ELSE [status |-> 201, row |-> [name |-> rq.name, price |-> Price(rq)]]

\* Update writes back all that it has read, changed where the request says so.
Update(column, row, rq) ==
    LET read == Find(column, row)
    IN  IF Malformed(rq) THEN [status |-> 400, row |-> row]
        ELSE [status |-> 200,
              row |-> [name |-> IF rq.name.len > 0 THEN rq.name ELSE read.name,
                       price |-> IF Price(rq) > 0 THEN Price(rq) ELSE read.price]]

\* A product that is stored, changed, and read.
Trade(t) ==
    LET stored == Store(t.store)
    IN  IF stored.status # 201 THEN stored
        ELSE LET updated == Update(t.column, stored.row, t.update)
             IN  [status |-> 201, again |-> updated.status,
                  found |-> Find(t.column, updated.row)]

------------------------------------------------------------------------------
(* What is promised *)

\* What a product shows after it was stored and changed is what was sent last, with
\* the price rounded to the hundredth by the database.  The exceptions: a price of
\* zero or less, or none, is stored like any other, and by Update ignored; and a
\* float field reads the integer that SQLite makes of a whole price as 0, which the
\* next Update that does not set the price stores.
KeepsWhatWasSent(t, r) ==
    LET lost(price) == t.column = "numeric" /\ price % 1000 = 0
        sent == IF ~Malformed(t.update) /\ Price(t.update) > 0 THEN Price(t.update)
                ELSE Price(t.store)
        near(a, b) == a - b \in -5..5 /\ (t.column # "decimal" => a = b)
    IN  /\ r.status = 201 <=> ~Malformed(t.store) /\ Required(t.store.name)
        /\ r.status = 201 =>
              /\ r.found.name = IF ~Malformed(t.update) /\ t.update.name.len > 0
                                THEN t.update.name ELSE t.store.name
              /\ IF lost(sent) THEN r.found.price = 0 ELSE near(r.found.price, sent)
==============================================================================
