----------------------------- MODULE WalRefinement -----------------------------
(***************************************************************************)
(* WalEngine implements AtomicTable, as long as crashes stay out of the    *)
(* windows that Unsafe names.                                              *)
(*                                                                         *)
(* The content of the abstract table is what the rows will be once the     *)
(* statement in progress, or the recovery of what the log has of it, is    *)
(* through.  An INSERT takes effect when its line is logged, or, when the  *)
(* stream swallows the line, when its row is written; a DELETE or UPDATE   *)
(* when the last of its rows is logged.                                    *)
(***************************************************************************)
EXTENDS WalEngine

\* An INSERT whose row recovery would put back.
InsertLogged ==
    /\ stmt = NoStatement \/ (walGood /\ ~ inRecovery)
    /\ done < Len(image)
    /\ Stored(image[1])

\* The rows after the job in progress.
JobRows ==
    IF pc = "clear" THEN image
    ELSE IF pc = "store" /\ (job = "replace" \/ InsertLogged)
    THEN rows \o SubSeq(image, done + 1, Len(image))
    ELSE rows

Content ==
    ToBag(Redone(JobRows, IF pc \in {"down", "failed"} THEN UncommittedLines ELSE replay))

Applied ==
    /\ stmt # NoStatement
    /\ \/ pc \in {"clear", "commit"}
       \/ pc = "store" /\ (job = "replace" \/ InsertLogged \/ done = Len(image))

Abstract == INSTANCE AtomicTable
                WITH content <- Content, stmt <- stmt, applied <- Applied

\* Every statement is all or nothing, an answer means it is done, and nothing
\* is lost or comes back: not in the process, not through crashes, recovery
\* and the crashes of recovery (Engine.cpp, Table.cpp and WALManager.cpp
\* together; WALManager::recover alone decides what survives).
Atomic == Abstract!Spec

================================================================================
