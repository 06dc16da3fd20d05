---------------------------- MODULE SqlFirewall ----------------------------
(***************************************************************************)
(* validate_mysql_sql and validate_sql as operators. A text is what the    *)
(* rules look at: its length, what two regular expressions find in it, and *)
(* what sqlglot makes of it, a sequence of statements. An empty statement  *)
(* ("None" in the code) is not among them: both loops skip it.             *)
(***************************************************************************)
EXTENDS Naturals, Sequences

CONSTANTS Tables, Ops

Drivers == {"mysql", "postgres"}

SetOps  == {"UNION", "INTERSECT", "EXCEPT"}
Control == {"BEGIN", "COMMIT", "ROLLBACK", "SAVEPOINT", "RELEASE", "TRANSACTION"}

(* Statement: the key of its root, the blocked family of functions it      *)
(* calls, whether it writes INTO OUTFILE, and what executing it does: each *)
(* operation, its own or one nested in it, with the table it is done on.   *)
Statement == [op : Ops, command : BOOLEAN, calls : Drivers \cup {"harmless"},
              intoFile : BOOLEAN, does : SUBSET (Ops \X Tables)]

Named(s) == {d[2] : d \in s.does}

(* Text: cost is how long sqlglot takes, see ParsePool.                    *)
Text == [tooLong : BOOLEAN, clause : BOOLEAN, safeSet : BOOLEAN,
         cost : {"quick", "slow", "endless"}, parses : BOOLEAN,
         statements : Seq(Statement)]

(* Policy: granted maps the listed tables to operations. blocked is empty  *)
(* in every policy run_proxy loads: the schema has no key for it.          *)
Granted(policy) == UNION {policy.granted[t] : t \in DOMAIN policy.granted}

Operation(s) ==
  CASE s.op \in SetOps          -> "SELECT"
    [] s.op = "TRUNCATETABLE"   -> "TRUNCATE"
    [] OTHER                    -> s.op

(* What both drivers ask of a statement that is not about transactions:    *)
(* the tables are those of the whole tree, the operation is the root's.    *)
WithinGrants(s, policy) ==
  /\ Operation(s) \in Granted(policy)
  /\ \A t \in Named(s) :
       t \in DOMAIN policy.granted /\ Operation(s) \in policy.granted[t]

MysqlAllows(s, policy) ==
  /\ ~s.command /\ s.calls # "mysql" /\ ~s.intoFile
  /\ Operation(s) \notin policy.blocked
  /\ Operation(s) \in Control \cup {"USE"} \/ WithinGrants(s, policy)

(* The blocked statements are passed to validate_sql, which ignores them.  *)
PgAllows(s, policy) ==
  /\ ~s.command /\ s.calls # "postgres"
  /\ Operation(s) \in Control \/ WithinGrants(s, policy)

(* What is decided before, and without, a parse.                           *)
DeniedUnparsed(driver, text) ==
  text.tooLong \/ (driver = "mysql" /\ text.clause)

AllowedUnparsed(driver, text) ==
  driver = "mysql" /\ text.safeSet /\ ~DeniedUnparsed(driver, text)

(* What is decided on the parse tree: every statement must pass.           *)
AllowedParsed(driver, text, policy) ==
  /\ text.parses
  /\ \A k \in 1 .. Len(text.statements) :
       IF driver = "mysql" THEN MysqlAllows(text.statements[k], policy)
                           ELSE PgAllows(text.statements[k], policy)

Permitted(driver, text, policy) ==
  /\ ~DeniedUnparsed(driver, text)
  /\ AllowedUnparsed(driver, text) \/ AllowedParsed(driver, text, policy)
=============================================================================
