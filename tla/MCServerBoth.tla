----------------------------- MODULE MCServerBoth -----------------------------
(* NetworkServer in one of two surroundings, chosen at the start: either the   *)
(* GUI executes statements and clients stay, or clients leave and the GUI      *)
(* executes nothing.  Both at once only multiply the states.                   *)
EXTENDS MCServer

VARIABLE busy     \* the GUI executes statements

InitBoth == Init /\ busy \in BOOLEAN

Same == UNCHANGED busy

\* Next of NetworkServer, action by action.
NextBoth ==
    \/ (Start /\ Same) \/ (Stop /\ Same) \/ (Stopped /\ Same) \/ (StartAgain /\ Same)
    \/ (Complete /\ Same)
    \/ \E t \in Thread :
        \/ (Accept(t) /\ Same) \/ (StaleAccept(t) /\ Same)
        \/ (Greet(t) /\ Same) \/ (Check(t) /\ Same) \/ (AwaitReply(t) /\ Same)
        \/ (AwaitFails(t) /\ Same) \/ (Tell(t) /\ Same) \/ (Rearm(t) /\ Same)
        \/ (Throw(t) /\ Same) \/ (Query(t) /\ Same) \/ (Answer(t) /\ Same)
    \/ \E t \in Thread, c \in Client :
        (Read(t, c) /\ Same) \/ (ReadFails(t, c) /\ Same) \/ (Written(t, c) /\ Same)
    \/ (GuiQuery /\ busy /\ Same)
    \/ \E c \in Client :
        (Connect(c) /\ Same) \/ (Send(c) /\ Same) \/ (Leave(c) /\ ~ busy /\ Same)
    \/ \E c \in Client, r \in {"right", "wrong"} : Reply(c, r) /\ Same
    \/ \E ip \in Ip : BanEnds(ip) /\ Same

SpecBoth == InitBoth /\ [][NextBoth]_<<vars, busy>>

================================================================================
