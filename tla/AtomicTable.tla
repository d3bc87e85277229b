------------------------------ MODULE AtomicTable ------------------------------
(***************************************************************************)
(* What a table of NexDB promises its clients: a statement takes effect    *)
(* entirely or not at all, whatever happens to the process meanwhile; one  *)
(* that was answered "ok" did take effect, and nothing but a statement     *)
(* ever changes the rows.  (README.md: "DELETE and UPDATE operations are   *)
(* now fully atomic", "restore the correct final state without data loss   *)
(* or partial writes".)                                                    *)
(*                                                                         *)
(* The content is a bag: SELECT promises no order (CLIENT_PROTOCOL.md 7.7) *)
(* and no column is unique (7.3).                                          *)
(***************************************************************************)
EXTENDS Integers, FiniteSets

CONSTANTS Statements, NoStatement

VARIABLES
    content,  \* the rows of the table
    stmt,     \* the statement in flight
    applied   \* has it taken effect?

vars == <<content, stmt, applied>>

\* A bag takes each of its rows to how often it is there.
EmptyBag == [r \in {} |-> 0]

Add(B, r, n) ==
    [x \in DOMAIN B \cup {r} |->
        (IF x \in DOMAIN B THEN B[x] ELSE 0) + (IF x = r THEN n ELSE 0)]

Without(B, cond) == [r \in DOMAIN B \ cond |-> B[r]]

\* Its rows, one by one.
Copies(B) == UNION {{r} \X (1 .. B[r]) : r \in DOMAIN B}

\* What each kind of statement makes of a bag of rows.
MoveAll(B, cond, to) ==
    LET moved == Cardinality({c \in Copies(B) : c[1] \in cond})
    IN  IF moved = 0 THEN B ELSE Add(Without(B, cond), to, moved)

Effect(s, B) ==
    CASE s.kind = "insert" -> Add(B, s.row, 1)
      [] s.kind = "delete" -> Without(B, s.cond)
      [] s.kind = "update" -> MoveAll(B, s.cond, s.to)

Init ==
    /\ content = EmptyBag
    /\ stmt = NoStatement
    /\ applied = FALSE

Submit(s) ==
    /\ stmt = NoStatement
    /\ stmt' = s
    /\ UNCHANGED <<content, applied>>

Apply ==
    /\ stmt # NoStatement
    /\ ~ applied
    /\ content' = Effect(stmt, content)
    /\ applied' = TRUE
    /\ UNCHANGED stmt

\* An ok answer: the statement has taken effect.
Succeed ==
    /\ applied
    /\ stmt' = NoStatement
    /\ applied' = FALSE
    /\ UNCHANGED content

\* An error answer: it has not.
Fail ==
    /\ stmt # NoStatement
    /\ ~ applied
    /\ stmt' = NoStatement
    /\ UNCHANGED <<content, applied>>

\* A crash takes the statement away, with or without its effect, but leaves
\* the content alone.
Crash ==
    /\ stmt' = NoStatement
    /\ applied' = FALSE
    /\ UNCHANGED content

Next ==
    \/ \E s \in Statements : Submit(s)
    \/ Apply \/ Succeed \/ Fail \/ Crash

Spec == Init /\ [][Next]_vars

================================================================================
