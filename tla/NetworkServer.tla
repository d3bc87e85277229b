----------------------------- MODULE NetworkServer -----------------------------
(***************************************************************************)
(* Networking/NetworkServer and the part of GUI that starts it, stops it   *)
(* and shares its engine: the chain of asynchronous accepts, the           *)
(* handshake, which blocks the thread it runs on, the rate limiter, the    *)
(* read and write handlers of each connection, and executeQuery.           *)
(*                                                                         *)
(* Asio is external.  A thread of the pool takes one ready handler at a    *)
(* time; stop() lets the handlers that run finish and keeps those that are *)
(* queued, and a later run() finds them.  An accept that is started on a   *)
(* closed acceptor completes with bad_descriptor; one that is outstanding  *)
(* when the acceptor is closed completes with operation_aborted, whose     *)
(* handler does nothing, and is dropped here at once.                      *)
(***************************************************************************)
EXTENDS Naturals, SequencesExt

CONSTANTS
    Client,       \* connections that may be made, again and again
    Ip,           \* addresses
    IpOf,         \* the address of each client
    Local,        \* addresses let in without a handshake
    Thread,       \* threads there may be
    Main,         \* the one that calls NetworkServer::run
    MaxFailures,  \* NetworkServer::maxFailures
    AutoPort,     \* configPort is 0: the server looks for a free port
    Pipelining,   \* clients send before they have been answered
    Leaving,      \* clients disappear
    GuiQueries,   \* the GUI executes statements
    MaxRequests,  \* bound: requests of one connection
    MaxStops,     \* bound: times the server is stopped
    Nobody,
    Gui

ASSUME NetworkServerAssumption ==
    /\ IpOf \in [Client -> Ip]
    /\ Local \subseteq Ip
    /\ Main \in Thread
    /\ MaxFailures \in Nat \ {0}
    /\ MaxRequests \in Nat
    /\ MaxStops \in Nat
    /\ Nobody \notin Client \cup {Gui}
    /\ Gui \notin Client

VARIABLES
    pool,       \* the threads there are: thread_count of config.json
    server,     \* the GUI's view, and how it ended
    stops,      \* times stopped
    armed,      \* accepts outstanding on the open acceptor
    queue,      \* accept handlers ready to run: a connection, or Nobody for bad_descriptor
    at,         \* where each thread is
    serves,     \* the connection its handler is for
    asks,       \* the request it executes
    backlog,    \* connections the acceptor has not accepted
    link,       \* where each connection is
    gone,       \* its client has disappeared
    reply,      \* the client's answer to the challenge
    failCount,  \* RateLimitEntry::failCount
    banned,     \* now < bannedUntil
    inbox,      \* lines that arrived and were not read
    sent,       \* lines sent
    answers,    \* answers, with the request and whose columns or database they show
    columns,    \* whose statement set Engine::lastColumns
    pending     \* whose USE set Engine::pendingSwitch

serverVars == <<pool, server, stops>>
acceptVars == <<armed, queue, backlog>>
threadVars == <<at, serves, asks>>
rateVars == <<failCount, banned>>
lineVars == <<inbox, sent, answers>>
engineVars == <<columns, pending>>
vars == <<serverVars, acceptVars, threadVars, link, gone, reply, rateVars, lineVars, engineVars>>

TypeOK ==
    /\ pool \subseteq Thread /\ Main \in pool
    /\ server \in {"off", "on", "stopping", "caught", "closed", "terminated"}
    /\ stops \in 0 .. MaxStops
    /\ armed \in Nat
    /\ queue \in Seq(Client \cup {Nobody})
    /\ at \in [Thread -> {"idle", "greet", "check", "await", "tell", "rearm", "query", "answer", "threw"}]
    /\ serves \in [Thread -> Client \cup {Nobody}]
    /\ asks \in [Thread -> 0 .. MaxRequests]
    /\ backlog \in Seq(Client)
    /\ \A i, j \in 1 .. Len(backlog) : backlog[i] = backlog[j] => i = j
    /\ link \in [Client -> {"out", "backlog", "handshake", "authed", "refused",
                             "reading", "working", "writing"}]
    /\ \A c \in Client : link[c] = "working" <=> \E t \in Thread : at[t] \in {"query", "answer"} /\ serves[t] = c
    /\ gone \in [Client -> BOOLEAN]
    /\ reply \in [Client -> {"none", "right", "wrong"}]
    /\ failCount \in [Ip -> Nat]
    /\ banned \in [Ip -> BOOLEAN]
    /\ inbox \in [Client -> Seq(1 .. MaxRequests)]
    /\ sent \in [Client -> 0 .. MaxRequests]
    /\ \A c \in Client : answers[c] \in Seq([req : 1 .. MaxRequests, from : Client \cup {Gui}])
    /\ columns \in Client \cup {Gui, Nobody}
    /\ pending \in Client \cup {Gui, Nobody}

Init ==
    /\ pool \in {P \in SUBSET Thread : Main \in P}
    /\ server = "off"
    /\ stops = 0
    /\ armed = 0
    /\ queue = <<>>
    /\ at = [t \in Thread |-> "idle"]
    /\ serves = [t \in Thread |-> Nobody]
    /\ asks = [t \in Thread |-> 0]
    /\ backlog = <<>>
    /\ link = [c \in Client |-> "out"]
    /\ gone = [c \in Client |-> FALSE]
    /\ reply = [c \in Client |-> "none"]
    /\ failCount = [ip \in Ip |-> 0]
    /\ banned = [ip \in Ip |-> FALSE]
    /\ inbox = [c \in Client |-> <<>>]
    /\ sent = [c \in Client |-> 0]
    /\ answers = [c \in Client |-> <<>>]
    /\ columns = Nobody
    /\ pending = Nobody

--------------------------------------------------------------------------------
(* Starting and stopping: GUI::toggleServer *)

Start ==
    /\ server = "off"
    /\ server' = "on"
    /\ armed' = armed + 1
    /\ UNCHANGED <<pool, stops, queue, backlog, threadVars, link, gone, reply, rateVars, lineVars, engineVars>>

\* The GUI thread then waits for run() to return.
Stop ==
    /\ server = "on"
    /\ stops < MaxStops
    /\ stops' = stops + 1
    /\ server' = "stopping"
    /\ armed' = 0
    /\ backlog' = <<>>
    /\ link' = [c \in Client |-> IF c \in ToSet(backlog) THEN "out" ELSE link[c]]
    /\ UNCHANGED <<pool, queue, threadVars, gone, reply, rateVars, lineVars, engineVars>>

Stopped ==
    /\ server = "stopping"
    /\ \A t \in Thread : at[t] = "idle"
    /\ server' = "off"
    /\ UNCHANGED <<pool, stops, acceptVars, threadVars, link, gone, reply, rateVars, lineVars, engineVars>>

\* After an exception left run() on a thread that is still joinable: opening the
\* acceptor fails because it is open and closes it, and the next std::thread
\* assigned to serverThread ends the process.  A server that looks for a port
\* gets to the assignment at once.
StartAgain ==
    /\ server \in {"caught", "closed"}
    /\ server' = IF server = "caught" /\ ~ AutoPort THEN "closed" ELSE "terminated"
    /\ armed' = 0
    /\ backlog' = <<>>
    /\ link' = [c \in Client |-> IF c \in ToSet(backlog) THEN "out" ELSE link[c]]
    /\ UNCHANGED <<pool, stops, queue, threadVars, gone, reply, rateVars, lineVars, engineVars>>

--------------------------------------------------------------------------------
(* Threads *)

\* A thread with nothing to do, in io_context::run.
Free(t) == server = "on" /\ t \in pool /\ at[t] = "idle"

\* A handler that runs goes on after stop().
At(t, label) == server \in {"on", "stopping"} /\ at[t] = label

Goto(t, label) == at' = [at EXCEPT ![t] = label]
Put(c, place) == link' = [link EXCEPT ![c] = place]

--------------------------------------------------------------------------------
(* acceptConnections *)

Complete ==
    /\ \E t \in Thread : Free(t)
    /\ armed > 0
    /\ backlog # <<>>
    /\ armed' = armed - 1
    /\ backlog' = Tail(backlog)
    /\ queue' = Append(queue, Head(backlog))
    /\ Put(Head(backlog), "handshake")
    /\ UNCHANGED <<serverVars, threadVars, gone, reply, rateVars, lineVars, engineVars>>

Accept(t) ==
    /\ Free(t)
    /\ queue # <<>>
    /\ Head(queue) # Nobody
    /\ queue' = Tail(queue)
    /\ Goto(t, "greet")
    /\ serves' = [serves EXCEPT ![t] = Head(queue)]
    /\ UNCHANGED <<serverVars, armed, backlog, asks, link, gone, reply, rateVars, lineVars, engineVars>>

\* bad_descriptor is logged, and the accept started again.
StaleAccept(t) ==
    /\ Free(t)
    /\ queue # <<>>
    /\ Head(queue) = Nobody
    /\ queue' = Tail(queue)
    /\ Goto(t, "rearm")
    /\ UNCHANGED <<serverVars, armed, backlog, serves, asks, link, gone, reply, rateVars, lineVars, engineVars>>

\* The banner; AUTH OK at once for a local client.
Greet(t) ==
    /\ At(t, "greet")
    /\ IF IpOf[serves[t]] \in Local
       THEN Goto(t, "tell") /\ Put(serves[t], "authed")
       ELSE Goto(t, "check") /\ UNCHANGED link
    /\ UNCHANGED <<serverVars, acceptVars, serves, asks, gone, reply, rateVars, lineVars, engineVars>>

--------------------------------------------------------------------------------
(* handleHandshake *)

\* Mutant: a client that is banned is challenged all the same.
Check_NotBanned(t) ==
    LET ip == IpOf[serves[t]] IN
    /\ At(t, "check")
    /\ Goto(t, "await")
    /\ failCount' = [failCount EXCEPT ![ip] = IF @ >= MaxFailures /\ ~ banned[ip] THEN 0 ELSE @]
    /\ UNCHANGED <<serverVars, acceptVars, serves, asks, link, gone, reply, banned, lineVars, engineVars>>

Check(t) ==
    LET ip == IpOf[serves[t]] IN
    /\ At(t, "check")
    /\ \/ /\ failCount[ip] >= MaxFailures /\ banned[ip]
          /\ Goto(t, "tell")
          /\ Put(serves[t], "refused")
          /\ UNCHANGED failCount
       \/ /\ ~ (failCount[ip] >= MaxFailures /\ banned[ip])
          /\ Goto(t, "await")
          /\ failCount' = [failCount EXCEPT ![ip] = IF @ >= MaxFailures THEN 0 ELSE @]
          /\ UNCHANGED link
    /\ UNCHANGED <<serverVars, acceptVars, serves, asks, gone, reply, banned, lineVars, engineVars>>

\* Lines that arrived with the reply are dropped with its buffer.
AwaitReply(t) ==
    LET c == serves[t]  ip == IpOf[serves[t]] IN
    /\ At(t, "await")
    /\ reply[c] # "none"
    /\ Goto(t, "tell")
    /\ \E k \in 0 .. Len(inbox[c]) : inbox' = [inbox EXCEPT ![c] = SubSeq(@, k + 1, Len(@))]
    /\ IF reply[c] = "right"
       THEN /\ Put(c, "authed")
            /\ failCount' = [failCount EXCEPT ![ip] = 0]
            /\ UNCHANGED banned
       ELSE /\ Put(c, "refused")
            /\ failCount' = [failCount EXCEPT ![ip] = @ + 1]
            /\ banned' = [banned EXCEPT ![ip] = @ \/ failCount[ip] + 1 >= MaxFailures]
    /\ UNCHANGED <<serverVars, acceptVars, serves, asks, gone, reply, sent, answers, engineVars>>

\* read_until fails: the client has gone.
AwaitFails(t) ==
    /\ At(t, "await")
    /\ reply[serves[t]] = "none"
    /\ gone[serves[t]]
    /\ Goto(t, "rearm")
    /\ Put(serves[t], "out")
    /\ UNCHANGED <<serverVars, acceptVars, serves, asks, gone, reply, rateVars, lineVars, engineVars>>

\* AUTH OK, AUTH FAIL or AUTH BANNED; handleClient for the first.
Tell(t) ==
    /\ At(t, "tell")
    /\ Goto(t, "rearm")
    /\ Put(serves[t], IF link[serves[t]] = "authed" THEN "reading" ELSE "out")
    /\ UNCHANGED <<serverVars, acceptVars, serves, asks, gone, reply, rateVars, lineVars, engineVars>>

\* acceptConnections again, on an acceptor that stop() may have closed.
Rearm(t) ==
    /\ At(t, "rearm")
    /\ Goto(t, "idle")
    /\ serves' = [serves EXCEPT ![t] = Nobody]
    /\ IF server = "on"
       THEN armed' = armed + 1 /\ UNCHANGED queue
       ELSE queue' = Append(queue, Nobody) /\ UNCHANGED armed
    /\ UNCHANGED <<serverVars, backlog, asks, link, gone, reply, rateVars, lineVars, engineVars>>

\* Where an exception that leaves a handler ends.  On a thread of run()'s own
\* vector nothing catches it; on Main it destroys the vector, whose threads are
\* joinable; with no such thread the GUI catches it.
Uncaught ==
    IF pool # {Main} THEN "terminated"
    ELSE IF server = "stopping" THEN "off" ELSE "caught"

\* remote_endpoint, or a synchronous write, throws: the client has gone.
Throw(t) ==
    /\ \/ At(t, "greet") \/ At(t, "check") \/ At(t, "tell")
    /\ gone[serves[t]]
    /\ server' = Uncaught
    /\ Goto(t, IF server = "stopping" /\ pool = {Main} THEN "idle" ELSE "threw")
    /\ serves' = [serves EXCEPT ![t] = Nobody]
    /\ Put(serves[t], "out")
    /\ UNCHANGED <<pool, stops, acceptVars, asks, gone, reply, rateVars, lineVars, engineVars>>

--------------------------------------------------------------------------------
(* handleClient and executeQuery *)

\* Mutant: the next read is started before the request is executed.
Read_Rearmed(t, c) ==
    /\ Free(t)
    /\ link[c] \in {"reading", "working", "writing"}
    /\ inbox[c] # <<>>
    /\ inbox' = [inbox EXCEPT ![c] = Tail(@)]
    /\ asks' = [asks EXCEPT ![t] = Head(inbox[c])]
    /\ serves' = [serves EXCEPT ![t] = c]
    /\ Goto(t, "query")
    /\ Put(c, "working")
    /\ UNCHANGED <<serverVars, acceptVars, gone, reply, rateVars, sent, answers, engineVars>>

\* The buffer may get several lines.  It is dropped after the first.
Read(t, c) ==
    /\ Free(t)
    /\ link[c] = "reading"
    /\ inbox[c] # <<>>
    /\ \E k \in 1 .. Len(inbox[c]) : inbox' = [inbox EXCEPT ![c] = SubSeq(@, k + 1, Len(@))]
    /\ asks' = [asks EXCEPT ![t] = Head(inbox[c])]
    /\ serves' = [serves EXCEPT ![t] = c]
    /\ Goto(t, "query")
    /\ Put(c, "working")
    /\ UNCHANGED <<serverVars, acceptVars, gone, reply, rateVars, sent, answers, engineVars>>

ReadFails(t, c) ==
    /\ Free(t)
    /\ link[c] = "reading"
    /\ inbox[c] = <<>>
    /\ gone[c]
    /\ Put(c, "out")
    /\ UNCHANGED <<serverVars, acceptVars, threadVars, gone, reply, rateVars, lineVars, engineVars>>

\* Mutant: executeQuery takes no mutex.
EngineFree_NoLock == TRUE

\* engineMutex
EngineFree == \A t \in Thread : at[t] # "answer"

\* The answer is handed to async_write.
Respond(t, from) ==
    /\ answers' = [answers EXCEPT ![serves[t]] = Append(@, [req |-> asks[t], from |-> from])]
    /\ Put(serves[t], "writing")
    /\ Goto(t, "idle")
    /\ serves' = [serves EXCEPT ![t] = Nobody]
    /\ asks' = [asks EXCEPT ![t] = 0]

\* Engine::query: a USE, another statement, or one that fails.
Query(t) ==
    /\ At(t, "query")
    /\ EngineFree
    /\ \/ /\ columns' = serves[t]
          /\ pending' \in {serves[t], pending}
          /\ Goto(t, "answer")
          /\ UNCHANGED <<link, serves, asks, answers>>
       \/ Respond(t, serves[t]) /\ UNCHANGED engineVars
    /\ UNCHANGED <<serverVars, acceptVars, gone, reply, rateVars, inbox, sent>>

\* The database of a pending switch, or else the columns.
Answer(t) ==
    /\ At(t, "answer")
    /\ Respond(t, IF pending # Nobody THEN pending ELSE columns)
    /\ pending' = Nobody
    /\ UNCHANGED <<serverVars, acceptVars, gone, reply, rateVars, inbox, sent, columns>>

\* The write has ended, and the next read starts unless it failed.
Written(t, c) ==
    /\ Free(t)
    /\ link[c] = "writing"
    /\ \/ Put(c, "reading")
       \/ gone[c] /\ Put(c, "out")
    /\ UNCHANGED <<serverVars, acceptVars, threadVars, gone, reply, rateVars, lineVars, engineVars>>

\* GUI::executeQuery, which takes no mutex and never asks for the pending switch.
GuiQuery ==
    /\ GuiQueries
    /\ server \notin {"stopping", "terminated"}
    /\ columns' = Gui
    /\ pending' \in {Gui, pending}
    /\ UNCHANGED <<serverVars, acceptVars, threadVars, link, gone, reply, rateVars, lineVars>>

--------------------------------------------------------------------------------
(* Clients, the network and the clock *)

Connect(c) ==
    /\ server \in {"on", "caught"}
    /\ link[c] = "out"
    /\ Put(c, "backlog")
    /\ backlog' = Append(backlog, c)
    /\ gone' = [gone EXCEPT ![c] = FALSE]
    /\ reply' = [reply EXCEPT ![c] = "none"]
    /\ inbox' = [inbox EXCEPT ![c] = <<>>]
    /\ sent' = [sent EXCEPT ![c] = 0]
    /\ answers' = [answers EXCEPT ![c] = <<>>]
    /\ UNCHANGED <<serverVars, armed, queue, threadVars, rateVars, engineVars>>

Reply(c, r) ==
    /\ \E t \in Thread : at[t] = "await" /\ serves[t] = c
    /\ reply[c] = "none"
    /\ ~ gone[c]
    /\ reply' = [reply EXCEPT ![c] = r]
    /\ UNCHANGED <<serverVars, acceptVars, threadVars, link, gone, rateVars, lineVars, engineVars>>

Send(c) ==
    /\ link[c] # "out"
    /\ ~ gone[c]
    /\ sent[c] < MaxRequests
    /\ Pipelining \/ (link[c] \in {"reading", "writing"} /\ sent[c] = Len(answers[c]))
    /\ sent' = [sent EXCEPT ![c] = @ + 1]
    /\ inbox' = [inbox EXCEPT ![c] = Append(@, sent[c] + 1)]
    /\ UNCHANGED <<serverVars, acceptVars, threadVars, link, gone, reply, rateVars, answers, engineVars>>

Leave(c) ==
    /\ Leaving
    /\ link[c] # "out"
    /\ ~ gone[c]
    /\ gone' = [gone EXCEPT ![c] = TRUE]
    /\ UNCHANGED <<serverVars, acceptVars, threadVars, link, reply, rateVars, lineVars, engineVars>>

BanEnds(ip) ==
    /\ banned[ip]
    /\ banned' = [banned EXCEPT ![ip] = FALSE]
    /\ UNCHANGED <<serverVars, acceptVars, threadVars, link, gone, reply, failCount, lineVars, engineVars>>

--------------------------------------------------------------------------------

Handshake(t) == Greet(t) \/ Check(t) \/ AwaitReply(t) \/ AwaitFails(t) \/ Tell(t) \/ Rearm(t) \/ Throw(t)

Execute(t) == Query(t) \/ Answer(t)

Serve(t, c) == Read(t, c) \/ ReadFails(t, c) \/ Written(t, c)

World ==
    \/ \E c \in Client : Connect(c) \/ Send(c) \/ Leave(c)
    \/ \E c \in Client, r \in {"right", "wrong"} : Reply(c, r)
    \/ \E ip \in Ip : BanEnds(ip)

Next ==
    \/ Start \/ Stop \/ Stopped \/ StartAgain
    \/ Complete
    \/ \E t \in Thread : Accept(t) \/ StaleAccept(t) \/ Handshake(t) \/ Execute(t)
    \/ \E t \in Thread, c \in Client : Serve(t, c)
    \/ GuiQuery
    \/ World

Spec == Init /\ [][Next]_vars

\* The operator starts the server, also after a stop, in which the GUI waits for
\* run() to return; the threads run what is ready.
ServerFair ==
    /\ WF_vars(Start)
    /\ WF_vars(Stopped)
    /\ WF_vars(Complete)
    /\ WF_vars(\E t \in Thread : Accept(t) \/ StaleAccept(t))
    /\ \A t \in Thread : WF_vars(Handshake(t)) /\ WF_vars(Execute(t))
    /\ \A c \in Client : WF_vars(\E t \in Thread : Serve(t, c))

FairSpec == Spec /\ ServerFair

\* Clients answer the challenge.
ResponsiveSpec ==
    FairSpec /\ \A c \in Client : WF_vars(\E r \in {"right", "wrong"} : Reply(c, r))

--------------------------------------------------------------------------------
(* Properties *)

\* The answers on a connection come in the order of its requests: reads of one
\* connection never overlap, although any thread may run them (handleClient is
\* called again only after the write).
AnswersInOrder ==
    \A c \in Client : \A i, j \in 1 .. Len(answers[c]) : i < j => answers[c][i].req < answers[c][j].req

\* Whose columns or database an answer to c may show.
Shown(c) == {c} \cup (IF GuiQueries THEN {Gui} ELSE {})

\* An answer shows the columns, or the database, of the statement it answers:
\* no other client comes between query(), consumePendingSwitch() and
\* getLastColumns(), which engineMutex covers in executeQuery.  Only a statement of
\* the GUI, which does not take engineMutex, can.
OwnAnswer == \A c \in Client : \A i \in 1 .. Len(answers[c]) : answers[c][i].from \in Shown(c)

\* An address fails at most MaxFailures times before it is banned, and once more
\* for each time the server was stopped: the check and the count are under separate
\* locks, and it takes as many handshakes at a time as there are chains of accepts
\* to get between them.  A stop can leave one chain more (StaleAccept).
AtMostMaxFailures == \A ip \in Ip : failCount[ip] <= MaxFailures + stops

\* A client that connects is let in or refused, whatever it and the others do,
\* unless the server is stopped before its turn comes.  It is what the comment at
\* NetworkServer.cpp:134 says of a client that does not answer the challenge:
\* "synchronous, with 5s timeout via deadline".  The read has no deadline: the
\* property holds under ResponsiveSpec and not under FairSpec.
Attended == \A c \in Client : link[c] = "backlog" ~> link[c] \in {"reading", "out"}

================================================================================
