------------------------------- MODULE MCWalBoth -------------------------------
(* WalEngine in one of two surroundings, chosen at the start.  In the calm one *)
(* crashes keep out of the unsafe windows, the machine does not fail, and      *)
(* clients submit rows that fit, are valid and read back as they were: the     *)
(* hypotheses of AtomicRefinement.  In the other nothing is spared.            *)
EXTENDS MCWal

CONSTANT MaxHostile     \* bound: statements submitted in the hostile surroundings

VARIABLE calm

InitBoth == Init /\ calm \in BOOLEAN

SubmitBoth ==
    /\ calm \/ submitted < MaxHostile
    /\ \E s \in IF calm THEN PlainStatements ELSE HostileStatements : Submit(s)

CrashBoth == Crash /\ (calm => \A w \in Windows : ~ Unsafe(w))

Same == UNCHANGED calm

\* Running and Next of WalEngine, action by action.
RunningBoth ==
    \/ (InsertBegin /\ Same) \/ (DeleteBegin /\ Same) \/ (UpdateBegin /\ Same)
    \/ (UpdateNothing /\ Same) \/ (LogRow /\ Same) \/ (Clear /\ Same) \/ (Cleared /\ Same)
    \/ (StoreRow /\ Same) \/ (SkipRow /\ Same) \/ (AllStored /\ Same)
    \/ (CommitStatement /\ Same) \/ (InsertFails /\ Same) \/ (Start /\ Same)
    \/ (RedoInsert /\ Same) \/ (RedoReplace /\ Same) \/ (Recommit /\ Same) \/ (Recovered /\ Same)

NextBoth ==
    \/ RunningBoth
    \/ (SubmitBoth /\ Same) \/ (Use /\ Same) \/ (CrashBoth /\ Same)
    \/ (PowerFailure /\ ~ calm /\ Same) \/ (WriteBack /\ ~ calm /\ Same)

\* The process keeps running once it is started, and it is started again.
SpecBoth ==
    /\ InitBoth
    /\ [][NextBoth]_<<vars, calm>>
    /\ WF_<<vars, calm>>(RunningBoth)

MCStatements == PlainStatements \cup HostileStatements

\* In the calm surroundings the engine, its log and its recovery implement the
\* atomic table: every statement is all or nothing, an answer means it is done, and
\* no crash, recovery or crash of a recovery changes the rows.  It is Atomic of
\* WalRefinement, for the behaviours that are calm.
AtomicWhenCalm ==
    /\ calm => Abstract!Init
    /\ [][calm => [Abstract!Next]_(Abstract!vars)]_<<vars, calm>>

\* A process that is started there ends up serving clients (WALManager::recover
\* ends, however often it is interrupted).
UpWhenCalm == calm => EventuallyUp

================================================================================
