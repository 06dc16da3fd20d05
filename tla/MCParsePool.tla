---------------------------- MODULE MCParsePool ----------------------------
(* Instance of ParsePool: a text that passes, one that exceeds its grants, *)
(* and one that only the rules of PostgreSQL come to parse.                *)
EXTENDS ParsePool

stmt(op, does) == [op |-> op, command |-> FALSE, calls |-> "harmless",
                   intoFile |-> FALSE, does |-> does]
text(cost, statements) == [tooLong |-> FALSE, clause |-> FALSE, safeSet |-> FALSE,
                           cost |-> cost, parses |-> TRUE, statements |-> statements]
On(op, tables) == {op} \X tables

read   == stmt("SELECT", On("SELECT", {"orders"}))
insert == stmt("INSERT", On("INSERT", {"orders"}))
(* An insertion of what a query finds: the query is nested in it.          *)
copy   == stmt("INSERT", On("INSERT", {"audit"}) \cup On("SELECT", {"audit"}))
batch  == <<stmt("COMMIT", {}), stmt("UNION", On("SELECT", {"orders", "audit"})), insert>>
(* MySQL's clause is a word found anywhere, in a column's name for one.    *)
handler == [text("endless", <<read>>) EXCEPT !.clause = TRUE]

(* One text of each cost.                                                  *)
SomeTexts == {text("quick", <<read, copy>>), text("slow", batch), handler}

OnePolicy == {[granted |-> [orders |-> {"SELECT"}, audit |-> {"SELECT", "INSERT"}],
               blocked |-> {}]}
=============================================================================
