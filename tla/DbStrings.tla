----------------------------- MODULE DbStrings -----------------------------
(***************************************************************************)
(* How a title gets into a statement and out of it again: the program       *)
(* doubles the quotes of a string and puts it between quotes                *)
(* (db_object::prepare_string_for_db), SQLite reads the literal.            *)
(*                                                                         *)
(* A string is a sequence of characters, of which only the quote matters.   *)
(***************************************************************************)
EXTENDS Integers, Sequences

Quote == "'"
Chars == {Quote, "x"}
Malformed == <<"malformed">>     \* not a sequence of Chars: a literal that is none

\* std::string::find(Quote, i); 0 stands for npos.
FindQuote(str, i) ==
  LET found == {n \in i .. Len(str) : str[n] = Quote}
  IN IF found = {} THEN 0 ELSE CHOOSE n \in found : \A k \in found : n <= k

\* std::string::replace(i, 1, "''")
DoubleAt(str, i) ==
  SubSeq(str, 1, i) \o <<Quote>> \o SubSeq(str, i + 1, Len(str))

\* (mutation) The loop would go on three characters later.
PrepareThreeLater(str) ==
  LET loop[state \in Seq(Chars) \X Nat] ==
        LET ret == state[1]  i == FindQuote(ret, state[2])
        IN IF i = 0 THEN ret ELSE loop[<<DoubleAt(ret, i), i + 3>>]
  IN loop[<<str, 1>>]

\* db_object::prepare_string_for_db: the loop goes on behind the two quotes.
PrepareStringForDb(str) ==
  LET loop[state \in Seq(Chars) \X Nat] ==
        LET ret == state[1]  i == FindQuote(ret, state[2])
        IN IF i = 0 THEN ret ELSE loop[<<DoubleAt(ret, i), i + 2>>]
  IN loop[<<str, 1>>]

Literal(str) == <<Quote>> \o PrepareStringForDb(str) \o <<Quote>>

\* SQLite: a literal ends at the first quote that is not doubled, and its value
\* has one quote for two.  What follows the end is no SQL.
ReadLiteral(text) ==
  LET read[state \in (1 .. Len(text) + 1) \X Seq(Chars)] ==
        LET i == state[1]  value == state[2]
        IN IF i > Len(text) THEN Malformed
           ELSE IF text[i] # Quote THEN read[<<i + 1, Append(value, text[i])>>]
           ELSE IF i < Len(text) /\ text[i + 1] = Quote THEN read[<<i + 2, Append(value, Quote)>>]
           ELSE IF i = Len(text) THEN value ELSE Malformed
  IN IF text = <<>> \/ text[1] # Quote THEN Malformed ELSE read[<<2, <<>>>>]

\* What SQLite is given for a string.
Sql(str) == ReadLiteral(Literal(str))
=============================================================================
