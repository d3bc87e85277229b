-------------------------- MODULE NetworkServer_proofs --------------------------
(***************************************************************************)
(* The server under any number of threads, clients, stops and requests.    *)
(*                                                                         *)
(* Places says where a connection is: with one handler, in the queue of    *)
(* ready handlers or in the backlog, and twice in none of them.  Four      *)
(* properties rest on it, each with an invariant of its own:               *)
(*                                                                         *)
(*   TypeOK              Types and Places                                  *)
(*   AnswersInOrder      OrderInv: the answers of a connection, the        *)
(*                       request it has in hand and the lines that wait    *)
(*                       are in the order in which they were sent          *)
(*   OwnAnswer           OwnInv: one thread at most is between its         *)
(*                       statement and its answer                          *)
(*   AtMostMaxFailures   ChainsInv: a start makes one accept, a handler    *)
(*                       at most one more, and a stop leaves one behind;   *)
(*                       LimitInv: failures counted and challenges open    *)
(*                       are together within the limit                     *)
(***************************************************************************)
EXTENDS NetworkServer, FiniteSetTheorems, SequenceTheorems, TLAPS

Labels == {"idle", "greet", "check", "await", "tell", "rearm", "query", "answer", "threw"}

Links == {"out", "backlog", "handshake", "authed", "refused", "reading", "working", "writing"}

AnswerType == [req : 1 .. MaxRequests, from : Client \cup {Gui}]

\* TypeOK, but for what it says of link and backlog, which Places says.
Types ==
    /\ pool \subseteq Thread /\ Main \in pool
    /\ server \in {"off", "on", "stopping", "caught", "closed", "terminated"}
    /\ stops \in 0 .. MaxStops
    /\ armed \in Nat
    /\ queue \in Seq(Client \cup {Nobody})
    /\ at \in [Thread -> Labels]
    /\ serves \in [Thread -> Client \cup {Nobody}]
    /\ asks \in [Thread -> 0 .. MaxRequests]
    /\ backlog \in Seq(Client)
    /\ link \in [Client -> Links]
    /\ gone \in [Client -> BOOLEAN]
    /\ reply \in [Client -> {"none", "right", "wrong"}]
    /\ failCount \in [Ip -> Nat]
    /\ banned \in [Ip -> BOOLEAN]
    /\ inbox \in [Client -> Seq(1 .. MaxRequests)]
    /\ sent \in [Client -> 0 .. MaxRequests]
    /\ answers \in [Client -> Seq(AnswerType)]
    /\ columns \in Client \cup {Gui, Nobody}
    /\ pending \in Client \cup {Gui, Nobody}

\* Where a handler has a connection, and where it executes a request of one.
Busy == {"greet", "check", "await", "tell", "query", "answer"}
Executing == {"query", "answer"}

\* Where a connection is while a handler has it.
LinkOf(label) ==
    IF label \in Executing THEN {"working"}
    ELSE IF label = "tell" THEN {"authed", "refused"} ELSE {"handshake"}

Serving(t, c) == at[t] \in Busy /\ serves[t] = c

\* A connection is at one place: with one handler, in the queue or in the backlog.
ServedOnce ==
    /\ \A t \in Thread : at[t] \in Busy => serves[t] \in Client /\ link[serves[t]] \in LinkOf(at[t])
    /\ \A t, u \in Thread : at[t] \in Busy /\ at[u] \in Busy /\ serves[t] = serves[u] => t = u
    /\ \A c \in Client : link[c] = "working" =>
           \E t \in Thread : at[t] \in Executing /\ serves[t] = c

QueuedOnce ==
    /\ \A i \in 1 .. Len(queue) : queue[i] # Nobody =>
            link[queue[i]] = "handshake" /\ \A t \in Thread : ~ Serving(t, queue[i])
    /\ \A i, j \in 1 .. Len(queue) : queue[i] # Nobody /\ queue[i] = queue[j] => i = j

WaitsOnce ==
    /\ \A i \in 1 .. Len(backlog) : link[backlog[i]] = "backlog"
    /\ \A i, j \in 1 .. Len(backlog) : backlog[i] = backlog[j] => i = j

\* Between the statement and its answer, somebody's columns are known.
Asked ==
    \A t \in Thread : /\ at[t] \in Executing => asks[t] # 0
                      /\ at[t] = "answer" => columns # Nobody

Places == ServedOnce /\ QueuedOnce /\ WaitsOnce /\ Asked

\* What Places adds to Types is what TypeOK says of links and of the backlog.
LEMMA PlacesTypeOK == Types /\ Places => TypeOK
BY DEF Types, Places, ServedOnce, WaitsOnce, TypeOK, Labels, Links, LinkOf, Busy, Executing,
   AnswerType

--------------------------------------------------------------------------------
(* Sequences *)

LEMMA Successor == \A n \in Nat : n + 1 \in Nat
OBVIOUS

\* A queue whose head is taken.
LEMMA TailEffect ==
    ASSUME NEW S, NEW s \in Seq(S), s # <<>>
    PROVE  /\ Head(s) \in S /\ Head(s) = s[1] /\ Len(s) \in Nat \ {0}
           /\ Tail(s) \in Seq(S) /\ Len(Tail(s)) = Len(s) - 1
           /\ \A i \in 1 .. Len(Tail(s)) : i + 1 \in 2 .. Len(s) /\ Tail(s)[i] = s[i + 1]
OBVIOUS

\* A queue with one more at its end.
LEMMA AppendEffect ==
    ASSUME NEW S, NEW s \in Seq(S), NEW e \in S
    PROVE  /\ Append(s, e) \in Seq(S) /\ Len(Append(s, e)) = Len(s) + 1 /\ Len(s) \in Nat
           /\ \A i \in 1 .. Len(Append(s, e)) :
                \/ i \in 1 .. Len(s) /\ Append(s, e)[i] = s[i]
                \/ i = Len(s) + 1 /\ Append(s, e)[i] = e
           /\ \A i \in 1 .. Len(s) : i \in 1 .. Len(Append(s, e)) /\ Append(s, e)[i] = s[i]
OBVIOUS

\* The lines that are left when the first k are taken.
LEMMA DropEffect ==
    ASSUME NEW S, NEW s \in Seq(S), NEW k \in 0 .. Len(s)
    PROVE  /\ SubSeq(s, k + 1, Len(s)) \in Seq(S)
           /\ Len(SubSeq(s, k + 1, Len(s))) = Len(s) - k
           /\ \A i \in 1 .. Len(s) - k :
                  i + k \in 1 .. Len(s) /\ SubSeq(s, k + 1, Len(s))[i] = s[i + k]
OBVIOUS

--------------------------------------------------------------------------------
(* Types *)

\* Initially nobody is connected.
LEMMA InitTypes == Init => Types /\ Places
<1> SUFFICES ASSUME Init
             PROVE  Types /\ Places
    OBVIOUS
<1>1. 0 \in 0 .. MaxRequests /\ 0 \in 0 .. MaxStops
    BY NetworkServerAssumption DEF NetworkServerAssumption
<1>2. Types
    BY <1>1 DEF Init, Types, Labels, Links
<1>3. Places
    BY DEF Init, Places, ServedOnce, QueuedOnce, WaitsOnce, Asked, Busy, Executing
<1> QED
    BY <1>2, <1>3

LEMMA ControlTypes ==
    ASSUME Types, Start \/ Stop \/ Stopped \/ StartAgain \/ Complete \/ GuiQuery
    PROVE  Types'
<1> USE DEF Types, Links
<1>1. CASE Start
    <2>1. armed' \in Nat /\ server' \in {"off", "on", "stopping", "caught", "closed", "terminated"}
        BY <1>1, Successor DEF Start
    <2>2. UNCHANGED <<pool, stops, queue, backlog, at, serves, asks, link, gone, reply>>
          /\ UNCHANGED <<rateVars, lineVars, engineVars>>
        BY <1>1 DEF Start, threadVars
    <2> QED
        BY <2>1, <2>2 DEF rateVars, lineVars, engineVars
<1>2. CASE Stop
    BY <1>2, NetworkServerAssumption
       DEF Stop, threadVars, rateVars, lineVars, engineVars, NetworkServerAssumption
<1>3. CASE Stopped
    BY <1>3 DEF Stopped, acceptVars, threadVars, rateVars, lineVars, engineVars
<1>4. CASE StartAgain
    BY <1>4 DEF StartAgain, threadVars, rateVars, lineVars, engineVars
<1>5. CASE Complete
    <2>1. /\ Head(backlog) \in Client /\ Tail(backlog) \in Seq(Client)
          /\ Append(queue, Head(backlog)) \in Seq(Client \cup {Nobody})
        BY <1>5, TailEffect DEF Complete
    <2>2. armed' \in Nat /\ link' \in [Client -> Links]
        BY <1>5, <2>1 DEF Complete, Put
    <2> QED
        BY <1>5, <2>1, <2>2 DEF Complete, serverVars, threadVars, rateVars, lineVars, engineVars
<1>6. CASE GuiQuery
    BY <1>6 DEF GuiQuery, serverVars, acceptVars, threadVars, rateVars, lineVars
<1> QED
    BY <1>1, <1>2, <1>3, <1>4, <1>5, <1>6

LEMMA HandshakeTypes ==
    ASSUME Types, Places, NEW t \in Thread, Accept(t) \/ StaleAccept(t) \/ Handshake(t)
    PROVE  Types'
<1> USE DEF Types, Links, Labels, Goto, Put
<1> DEFINE c == serves[t]
<1>1. at[t] \in {"greet", "check", "await", "tell"} => c \in Client /\ IpOf[c] \in Ip
    BY NetworkServerAssumption DEF NetworkServerAssumption, Places, ServedOnce, Busy
<1>2. CASE Accept(t)
    BY <1>2, TailEffect DEF Accept, serverVars, rateVars, lineVars, engineVars
<1>3. CASE StaleAccept(t)
    BY <1>3, TailEffect DEF StaleAccept, serverVars, rateVars, lineVars, engineVars
<1>4. CASE Greet(t)
    BY <1>1, <1>4 DEF Greet, At, serverVars, acceptVars, rateVars, lineVars, engineVars
<1>5. CASE Check(t)
    <2>1. failCount' \in [Ip -> Nat]
        <3>1. failCount[IpOf[c]] \in Nat
            BY <1>1, <1>5 DEF Check, At
        <3>2. CASE failCount' = failCount
            BY <3>2
        <3>3. CASE failCount' = [failCount EXCEPT ![IpOf[c]] =
                                    IF @ >= MaxFailures THEN 0 ELSE @]
            <4> DEFINE n == IF failCount[IpOf[c]] >= MaxFailures THEN 0 ELSE failCount[IpOf[c]]
            <4>1. n \in Nat /\ failCount' = [failCount EXCEPT ![IpOf[c]] = n]
                BY <3>1, <3>3
            <4> HIDE DEF n
            <4> QED
                BY <4>1
        <3> QED
            BY <1>5, <3>2, <3>3 DEF Check
    <2>2. at' \in [Thread -> Labels] /\ link' \in [Client -> Links]
        BY <1>5 DEF Check
    <2> QED
        BY <1>5, <2>1, <2>2 DEF Check, serverVars, acceptVars, lineVars, engineVars
<1>6. CASE AwaitReply(t)
    <2>1. PICK k \in 0 .. Len(inbox[c]) : inbox' = [inbox EXCEPT ![c] = SubSeq(@, k + 1, Len(@))]
        BY <1>6 DEF AwaitReply
    <2>2. c \in Client /\ inbox[c] \in Seq(1 .. MaxRequests)
        BY <1>1, <1>6 DEF AwaitReply, At
    <2>3. inbox' \in [Client -> Seq(1 .. MaxRequests)]
        BY <2>1, <2>2, DropEffect
    <2>4. failCount' \in [Ip -> Nat]
        <3> DEFINE one == failCount[IpOf[c]] + 1
        <3>1. \E n \in {0, one} : failCount' = [failCount EXCEPT ![IpOf[c]] = n]
            BY <1>6 DEF AwaitReply
        <3>2. IpOf[c] \in Ip /\ failCount \in [Ip -> Nat]
            BY <1>1, <1>6 DEF AwaitReply, At
        <3>3. failCount[IpOf[c]] \in Nat
            BY <3>2
        <3>4. one \in Nat
            BY <3>3, Successor, Zenon
        <3> HIDE DEF one
        <3> QED
            BY <3>1, <3>2, <3>4
    <2>5. banned' \in [Ip -> BOOLEAN]
        <3>1. CASE banned' = banned
            BY <3>1
        <3>2. CASE banned' = [banned EXCEPT ![IpOf[c]] =
                                @ \/ failCount[IpOf[c]] + 1 >= MaxFailures]
            <4> DEFINE over == failCount[IpOf[c]] + 1 >= MaxFailures
            <4>1. banned' = [banned EXCEPT ![IpOf[c]] = @ \/ over] /\ over \in BOOLEAN
                BY <3>2
            <4> HIDE DEF over
            <4>2. (banned[IpOf[c]] \/ over) \in BOOLEAN
                OBVIOUS
            <4> QED
                BY <4>1, <4>2
        <3> QED
            BY <1>6, <3>1, <3>2 DEF AwaitReply
    <2>6. link' \in [Client -> Links] /\ at' \in [Thread -> Labels]
        BY <1>6 DEF AwaitReply
    <2> QED
        BY <1>6, <2>3, <2>4, <2>6, <2>5 DEF AwaitReply, serverVars, acceptVars, engineVars
<1>7. CASE AwaitFails(t)
    BY <1>7 DEF AwaitFails, serverVars, acceptVars, rateVars, lineVars, engineVars
<1>8. CASE Tell(t)
    BY <1>8 DEF Tell, serverVars, acceptVars, rateVars, lineVars, engineVars
<1>9. CASE Rearm(t)
    <2>1. Append(queue, Nobody) \in Seq(Client \cup {Nobody})
        OBVIOUS
    <2>2. CASE server = "on"
        BY <1>9, <2>2 DEF Rearm, serverVars, rateVars, lineVars, engineVars
    <2>3. CASE server # "on"
        BY <1>9, <2>1, <2>3 DEF Rearm, serverVars, rateVars, lineVars, engineVars
    <2> QED
        BY <2>2, <2>3
<1>10. CASE Throw(t)
    BY <1>10 DEF Throw, Uncaught, acceptVars, rateVars, lineVars, engineVars
<1> QED
    BY <1>2, <1>3, <1>4, <1>5, <1>6, <1>7, <1>8, <1>9, <1>10 DEF Handshake

LEMMA ExecuteTypes ==
    ASSUME Types, Places, NEW t \in Thread, Execute(t)
    PROVE  Types'
<1> USE DEF Types, Links, Labels, Goto, Put
<1> DEFINE c == serves[t]
<1>1. c \in Client /\ asks[t] \in 1 .. MaxRequests
    <2>1. at[t] \in Executing
        BY DEF Execute, Query, Answer, At, Executing
    <2>2. asks[t] # 0 /\ asks[t] \in 0 .. MaxRequests /\ MaxRequests \in Nat
        BY <2>1, NetworkServerAssumption DEF Places, Asked, NetworkServerAssumption
    <2> QED
        BY <2>1, <2>2 DEF Places, ServedOnce, Busy, Executing
<1>2. ASSUME NEW f \in Client \cup {Gui}, Respond(t, f)
      PROVE  /\ answers' \in [Client -> Seq(AnswerType)]
             /\ link' \in [Client -> Links] /\ at' \in [Thread -> Labels]
             /\ serves' \in [Thread -> Client \cup {Nobody}]
             /\ asks' \in [Thread -> 0 .. MaxRequests]
    <2>1. [req |-> asks[t], from |-> f] \in AnswerType /\ 0 \in 0 .. MaxRequests
        BY <1>1, NetworkServerAssumption DEF AnswerType, NetworkServerAssumption
    <2>2. Append(answers[c], [req |-> asks[t], from |-> f]) \in Seq(AnswerType)
        BY <1>1, <2>1
    <2> QED
        BY <1>1, <1>2, <2>1, <2>2 DEF Respond
<1>3. CASE Query(t)
    BY <1>1, <1>2, <1>3 DEF Query, serverVars, acceptVars, rateVars, engineVars
<1>4. CASE Answer(t)
    <2>1. (IF pending # Nobody THEN pending ELSE columns) \in Client \cup {Gui}
        BY <1>4 DEF Answer, At, Places, Asked
    <2> QED
        BY <1>1, <1>2, <1>4, <2>1 DEF Answer, serverVars, acceptVars, rateVars
<1> QED
    BY <1>3, <1>4 DEF Execute

LEMMA ServeTypes ==
    ASSUME Types, NEW t \in Thread, NEW c \in Client, Serve(t, c)
    PROVE  Types'
<1> USE DEF Types, Links, Labels, Goto, Put
<1>1. CASE Read(t, c)
    <2>1. PICK k \in 1 .. Len(inbox[c]) : inbox' = [inbox EXCEPT ![c] = SubSeq(@, k + 1, Len(@))]
        BY <1>1 DEF Read
    <2>2. inbox[c] \in Seq(1 .. MaxRequests) /\ inbox[c] # <<>>
        BY <1>1 DEF Read
    <2>3. k \in 0 .. Len(inbox[c])
        BY <2>2
    <2>4. inbox' \in [Client -> Seq(1 .. MaxRequests)]
        BY <2>1, <2>2, <2>3, DropEffect
    <2>5. Head(inbox[c]) \in 0 .. MaxRequests
        <3>1. Head(inbox[c]) \in 1 .. MaxRequests
            BY <2>2, TailEffect
        <3> QED
            BY <3>1
    <2> QED
        BY <1>1, <2>4, <2>5 DEF Read, serverVars, acceptVars, rateVars, engineVars
<1>2. CASE ReadFails(t, c)
    BY <1>2 DEF ReadFails, serverVars, acceptVars, threadVars, rateVars, lineVars, engineVars
<1>3. CASE Written(t, c)
    BY <1>3 DEF Written, serverVars, acceptVars, threadVars, rateVars, lineVars, engineVars
<1> QED
    BY <1>1, <1>2, <1>3 DEF Serve

LEMMA WorldTypes ==
    ASSUME Types, World
    PROVE  Types'
<1> USE DEF Types, Links, Put
<1>1. MaxRequests \in Nat /\ 0 \in 0 .. MaxRequests
    BY NetworkServerAssumption DEF NetworkServerAssumption
<1>2. ASSUME NEW c \in Client, Connect(c)
      PROVE  Types'
    <2>1. Append(backlog, c) \in Seq(Client) /\ <<>> \in Seq(1 .. MaxRequests)
              /\ <<>> \in Seq(AnswerType)
        OBVIOUS
    <2> QED
        BY <1>1, <1>2, <2>1 DEF Connect, serverVars, threadVars, rateVars, engineVars
<1>3. ASSUME NEW c \in Client, Send(c)
      PROVE  Types'
    <2>1. sent[c] + 1 \in 1 .. MaxRequests /\ sent[c] + 1 \in 0 .. MaxRequests
        BY <1>1, <1>3 DEF Send
    <2>2. Append(inbox[c], sent[c] + 1) \in Seq(1 .. MaxRequests)
        BY <2>1
    <2>3. inbox' \in [Client -> Seq(1 .. MaxRequests)] /\ sent' \in [Client -> 0 .. MaxRequests]
        BY <1>3, <2>1, <2>2 DEF Send
    <2> QED
        BY <1>3, <2>3 DEF Send, serverVars, acceptVars, threadVars, rateVars, engineVars
<1>4. ASSUME NEW c \in Client, Leave(c)
      PROVE  Types'
    BY <1>4 DEF Leave, serverVars, acceptVars, threadVars, rateVars, lineVars, engineVars
<1>5. ASSUME NEW c \in Client, NEW r \in {"right", "wrong"}, Reply(c, r)
      PROVE  Types'
    BY <1>5 DEF Reply, serverVars, acceptVars, threadVars, rateVars, lineVars, engineVars
<1>6. ASSUME NEW ip \in Ip, BanEnds(ip)
      PROVE  Types'
    BY <1>6 DEF BanEnds, serverVars, acceptVars, threadVars, lineVars, engineVars
<1> QED
    BY <1>2, <1>3, <1>4, <1>5, <1>6 DEF World

LEMMA StepTypes ==
    ASSUME Types, Places, [Next]_vars
    PROVE  Types'
<1>1. CASE UNCHANGED vars
    BY <1>1 DEF vars, serverVars, acceptVars, threadVars, rateVars, lineVars, engineVars, Types
<1> QED
    BY <1>1, ControlTypes, HandshakeTypes, ExecuteTypes, ServeTypes, WorldTypes DEF Next

--------------------------------------------------------------------------------
(* Places *)

\* Whom the acceptor's lists hold.
LEMMA Listed ==
    ASSUME Types
    PROVE  /\ \A i \in 1 .. Len(queue) : queue[i] \in Client \cup {Nobody}
           /\ \A i \in 1 .. Len(backlog) : backlog[i] \in Client
           /\ Nobody \notin Client
<1>1. queue \in Seq(Client \cup {Nobody}) /\ backlog \in Seq(Client)
    BY DEF Types
<1> QED
    BY <1>1, NetworkServerAssumption DEF NetworkServerAssumption

\* A handler at its next step, with its connection or done with it.
LEMMA HandlerMoves ==
    ASSUME Types, Types', Places, NEW t \in Thread, at[t] \in Busy, NEW label \in Labels,
           NEW place \in Links, NEW client \in Client \cup {Nobody},
           Goto(t, label), Put(serves[t], place),
           serves' = [serves EXCEPT ![t] = client],
           \/ label \notin Busy
           \/ label \in Busy /\ client = serves[t] /\ place \in LinkOf(label),
           place \in {"working", "backlog"} => label \in Executing
    PROVE  /\ ServedOnce'
           /\ queue' = queue => QueuedOnce'
           /\ backlog' = backlog => WaitsOnce'
<1> DEFINE c == serves[t]
<1>1. /\ c \in Client /\ link[c] \in LinkOf(at[t])
      /\ Executing \subseteq Busy
      /\ \A u \in Thread : u # t /\ at[u] \in Busy => serves[u] \in Client /\ serves[u] # c
    BY DEF Places, ServedOnce, Busy, Executing
<1>2. /\ at'[t] = label /\ serves'[t] = client /\ link'[c] = place
      /\ \A u \in Thread : u # t => at'[u] = at[u] /\ serves'[u] = serves[u]
      /\ \A d \in Client : d # c => link'[d] = link[d]
    BY <1>1 DEF Types, Goto, Put
<1> HIDE DEF c
<1>3. ServedOnce'
    <2>1. \A u \in Thread : at'[u] \in Busy =>
              serves'[u] \in Client /\ link'[serves'[u]] \in LinkOf(at'[u])
        BY <1>1, <1>2 DEF Places, ServedOnce, c
    <2>2. \A u, v \in Thread : at'[u] \in Busy /\ at'[v] \in Busy /\ serves'[u] = serves'[v] =>
              u = v
        BY <1>1, <1>2 DEF Places, ServedOnce, c
    <2>3. \A d \in Client : link'[d] = "working" =>
              \E u \in Thread : at'[u] \in Executing /\ serves'[u] = d
        BY <1>1, <1>2 DEF Places, ServedOnce, c, Busy, Executing
    <2> QED
        BY <2>1, <2>2, <2>3 DEF ServedOnce
<1>4. ASSUME queue' = queue
      PROVE  QueuedOnce'
    <2>1. \A i \in 1 .. Len(queue) : queue[i] # Nobody => queue[i] \in Client /\ queue[i] # c
        BY <1>1, Listed DEF Places, QueuedOnce, Serving, c
    <2>2. \A u \in Thread, d \in Client : d # c /\ ~ Serving(u, d) => ~ Serving(u, d)'
        BY <1>1, <1>2 DEF Serving, c
    <2> QED
        BY <1>2, <1>4, <2>1, <2>2 DEF Places, QueuedOnce
<1>5. ASSUME backlog' = backlog
      PROVE  WaitsOnce'
    <2>1. \A i \in 1 .. Len(backlog) : backlog[i] \in Client /\ backlog[i] # c
        BY <1>1, Listed DEF Places, WaitsOnce, LinkOf
    <2> QED
        BY <1>2, <1>5, <2>1 DEF Places, WaitsOnce
<1> QED
    BY <1>3, <1>4, <1>5

LEMMA HandshakePlaces ==
    ASSUME Types, Types', Places, NEW t \in Thread, Handshake(t)
    PROVE  Places'
<1> USE DEF At, Busy, Executing
<1>1. Nobody \in Client \cup {Nobody} /\ serves[t] \in Client \cup {Nobody}
    BY DEF Types
<1>2. at[t] \in {"greet", "check", "await", "tell"} => link[serves[t]] \in Links
    BY DEF Places, ServedOnce, LinkOf, Links
<1>3. Asked'
    <2>1. UNCHANGED <<asks, columns>>
        BY DEF Handshake, Greet, Check, AwaitReply, AwaitFails, Tell, Rearm, Throw, engineVars
    <2>2. at'[t] \notin Executing /\ \A u \in Thread : u # t => at'[u] = at[u]
        BY DEF Handshake, Greet, Check, AwaitReply, AwaitFails, Tell, Rearm, Throw, Goto, Types
    <2> QED
        BY <2>1, <2>2 DEF Places, Asked
<1>4. CASE Greet(t)
    <2>1. serves' = [serves EXCEPT ![t] = serves[t]]
        BY <1>4 DEF Greet, Types
    <2>2. /\ queue' = queue /\ backlog' = backlog /\ at[t] = "greet"
          /\ \/ Goto(t, "tell") /\ Put(serves[t], "authed")
             \/ Goto(t, "check") /\ link' = link
        BY <1>4 DEF Greet, acceptVars
    <2>3. link[serves[t]] = "handshake"
        BY <2>2 DEF Places, ServedOnce, LinkOf
    <2>4. link = [link EXCEPT ![serves[t]] = link[serves[t]]]
        BY DEF Types
    <2>5. /\ {"tell", "check"} \subseteq Labels /\ {"authed", "handshake"} \subseteq Links
          /\ "authed" \in LinkOf("tell") /\ "handshake" \in LinkOf("check")
        BY DEF Labels, Links, LinkOf
    <2>6. CASE Goto(t, "tell") /\ Put(serves[t], "authed")
        BY <1>1, <1>3, <2>1, <2>2, <2>5, <2>6, HandlerMoves DEF Places
    <2>7. CASE Goto(t, "check") /\ link' = link
        <3>1. Put(serves[t], "handshake")
            BY <2>3, <2>4, <2>7 DEF Put
        <3> QED
            BY <1>1, <1>3, <2>1, <2>2, <2>5, <2>7, <3>1, HandlerMoves DEF Places
    <2> QED
        BY <2>2, <2>6, <2>7
<1>5. CASE Check(t)
    <2>1. serves' = [serves EXCEPT ![t] = serves[t]]
        BY <1>5 DEF Check, Types
    <2>2. /\ queue' = queue /\ backlog' = backlog /\ at[t] = "check"
          /\ \/ Goto(t, "tell") /\ Put(serves[t], "refused")
             \/ Goto(t, "await") /\ link' = link
        BY <1>5 DEF Check, acceptVars
    <2>3. link[serves[t]] = "handshake"
        BY <2>2 DEF Places, ServedOnce, LinkOf
    <2>4. link = [link EXCEPT ![serves[t]] = link[serves[t]]]
        BY DEF Types
    <2>5. /\ {"tell", "await"} \subseteq Labels /\ {"refused", "handshake"} \subseteq Links
          /\ "refused" \in LinkOf("tell") /\ "handshake" \in LinkOf("await")
        BY DEF Labels, Links, LinkOf
    <2>6. CASE Goto(t, "tell") /\ Put(serves[t], "refused")
        BY <1>1, <1>3, <2>1, <2>2, <2>5, <2>6, HandlerMoves DEF Places
    <2>7. CASE Goto(t, "await") /\ link' = link
        <3>1. Put(serves[t], "handshake")
            BY <2>3, <2>4, <2>7 DEF Put
        <3> QED
            BY <1>1, <1>3, <2>1, <2>2, <2>5, <2>7, <3>1, HandlerMoves DEF Places
    <2> QED
        BY <2>2, <2>6, <2>7
<1>6. CASE AwaitReply(t)
    <2>1. serves' = [serves EXCEPT ![t] = serves[t]]
        BY <1>6 DEF AwaitReply, Types
    <2>2. /\ queue' = queue /\ backlog' = backlog /\ at[t] = "await" /\ Goto(t, "tell")
          /\ \E place \in {"authed", "refused"} : Put(serves[t], place)
        BY <1>6 DEF AwaitReply, acceptVars
    <2> QED
        BY <1>1, <1>3, <2>1, <2>2, HandlerMoves DEF Places, Labels, Links, LinkOf
<1>7. CASE AwaitFails(t)
    <2>1. serves' = [serves EXCEPT ![t] = serves[t]]
        BY <1>7 DEF AwaitFails, Types
    <2>2. /\ queue' = queue /\ backlog' = backlog /\ at[t] = "await" /\ Goto(t, "rearm")
          /\ Put(serves[t], "out")
        BY <1>7 DEF AwaitFails, acceptVars
    <2>3. "rearm" \in Labels /\ "out" \in Links
        BY DEF Labels, Links
    <2> QED
        BY <1>1, <1>3, <2>1, <2>2, <2>3, HandlerMoves DEF Places
<1>8. CASE Tell(t)
    <2>1. serves' = [serves EXCEPT ![t] = serves[t]]
        BY <1>8 DEF Tell, Types
    <2>2. /\ queue' = queue /\ backlog' = backlog /\ at[t] = "tell" /\ Goto(t, "rearm")
          /\ \E place \in {"reading", "out"} : Put(serves[t], place)
        BY <1>8 DEF Tell, acceptVars
    <2>3. "rearm" \in Labels /\ {"reading", "out"} \subseteq Links
        BY DEF Labels, Links
    <2> QED
        BY <1>1, <1>3, <2>1, <2>2, <2>3, HandlerMoves DEF Places
<1>9. CASE Rearm(t)
    <2>1. /\ link' = link /\ backlog' = backlog /\ at[t] = "rearm" /\ at'[t] = "idle"
          /\ \A u \in Thread : u # t => at'[u] = at[u] /\ serves'[u] = serves[u]
          /\ queue' = queue \/ queue' = Append(queue, Nobody)
        BY <1>9 DEF Rearm, Goto, Types
    <2>2. ServedOnce' /\ WaitsOnce'
        BY <2>1 DEF Places, ServedOnce, WaitsOnce
    <2>3. /\ \A i \in 1 .. Len(queue') : queue'[i] # Nobody =>
                 i \in 1 .. Len(queue) /\ queue'[i] = queue[i]
        <3>1. queue \in Seq(Client \cup {Nobody})
            BY DEF Types
        <3>2. CASE queue' = queue
            BY <3>2
        <3>3. CASE queue' = Append(queue, Nobody)
            BY <1>1, <3>1, <3>3, AppendEffect
        <3> QED
            BY <2>1, <3>2, <3>3
    <2>4. \A u \in Thread, c \in Client : Serving(u, c)' => Serving(u, c)
        BY <2>1 DEF Serving
    <2>5. QueuedOnce'
        BY <2>1, <2>3, <2>4, Listed DEF Places, QueuedOnce
    <2> QED
        BY <1>3, <2>2, <2>5 DEF Places
<1>10. CASE Throw(t)
    <2>1. serves' = [serves EXCEPT ![t] = Nobody]
        BY <1>10 DEF Throw
    <2>2. /\ queue' = queue /\ backlog' = backlog /\ at[t] \in {"greet", "check", "tell"}
          /\ \E label \in {"idle", "threw"} : Goto(t, label)
          /\ Put(serves[t], "out")
        BY <1>10 DEF Throw, acceptVars
    <2>3. {"idle", "threw"} \subseteq Labels /\ {"idle", "threw"} \cap Busy = {} /\ "out" \in Links
        BY DEF Labels, Links
    <2>4. PICK label \in {"idle", "threw"} : Goto(t, label)
        BY <2>2
    <2>5. label \in Labels /\ label \notin Busy /\ at[t] \in Busy
        BY <2>2, <2>3
    <2> QED
        BY <1>1, <1>3, <2>1, <2>2, <2>3, <2>4, <2>5, HandlerMoves DEF Places
<1> QED
    BY <1>4, <1>5, <1>6, <1>7, <1>8, <1>9, <1>10 DEF Handshake

LEMMA ExecutePlaces ==
    ASSUME Types, Types', Places, NEW t \in Thread, Execute(t)
    PROVE  Places'
<1> USE DEF At, Busy, Executing
<1>1. at[t] \in Executing /\ serves[t] \in Client /\ link[serves[t]] = "working"
    BY DEF Execute, Query, Answer, Places, ServedOnce, LinkOf
<1>2. queue' = queue /\ backlog' = backlog
    BY DEF Execute, Query, Answer, acceptVars
<1>3. ASSUME NEW f, Respond(t, f), columns' = columns
      PROVE  Places'
    <2>1. Asked'
        BY <1>3 DEF Respond, Goto, Places, Asked, Types, Labels
    <2> QED
        BY <1>1, <1>2, <1>3, <2>1, HandlerMoves DEF Respond, Places, Labels, Links
<1>4. CASE at[t] = "query" /\ Goto(t, "answer") /\ UNCHANGED <<link, serves, asks>>
                /\ columns' = serves[t]
    <2>1. serves' = [serves EXCEPT ![t] = serves[t]] /\ Put(serves[t], "working")
        BY <1>1, <1>4 DEF Types, Put
    <2>2. serves[t] # Nobody
        BY <1>1, Listed
    <2>3. Asked'
        BY <1>4, <2>2 DEF Goto, Places, Asked, Types, Labels
    <2> QED
        BY <1>1, <1>2, <1>4, <2>1, <2>3, HandlerMoves DEF Places, Labels, Links, LinkOf
<1> QED
    BY <1>3, <1>4 DEF Execute, Query, Answer, engineVars

\* A connection that no handler has and that is not in the queue, moved.
LEMMA LinkMoves ==
    ASSUME Types, Types', Places, NEW c \in Client, NEW place \in Links \ {"working"},
           Put(c, place), UNCHANGED <<at, serves, queue, asks>>,
           columns' = columns, link[c] \in {"out", "reading", "writing"}
    PROVE  /\ ServedOnce' /\ QueuedOnce' /\ Asked'
           /\ backlog' = backlog => WaitsOnce'
           /\ \A i \in 1 .. Len(backlog) : backlog[i] # c /\ link'[backlog[i]] = "backlog"
<1>1. link'[c] = place /\ \A d \in Client : d # c => link'[d] = link[d]
    BY DEF Put, Types
<1>2. \A t \in Thread : at[t] \in Busy => serves[t] \in Client /\ serves[t] # c
    BY DEF Places, ServedOnce, LinkOf
<1>3. ServedOnce' /\ Asked'
    BY <1>1, <1>2 DEF Places, ServedOnce, Asked
<1>4. QueuedOnce'
    <2>1. \A i \in 1 .. Len(queue) : queue[i] # Nobody => queue[i] \in Client /\ queue[i] # c
        BY Listed DEF Places, QueuedOnce
    <2> QED
        BY <1>1, <2>1 DEF Places, QueuedOnce, Serving
<1>5. \A i \in 1 .. Len(backlog) : backlog[i] # c /\ link'[backlog[i]] = "backlog"
    BY <1>1, Listed DEF Places, WaitsOnce
<1>6. backlog' = backlog => WaitsOnce'
    BY <1>5 DEF Places, WaitsOnce
<1> QED
    BY <1>3, <1>4, <1>5, <1>6

\* The backlog of a closed acceptor.
LEMMA BacklogDropped ==
    ASSUME Types, Places, backlog' = <<>>, UNCHANGED <<at, serves, queue, asks, columns>>,
           link' = [c \in Client |-> IF c \in ToSet(backlog) THEN "out" ELSE link[c]]
    PROVE  Places'
<1>1. \A c \in Client : link'[c] = link[c] \/ (link[c] = "backlog" /\ link'[c] = "out")
    BY DEF ToSet, Places, WaitsOnce
<1>2. \A c \in Client : link[c] # "backlog" => link'[c] = link[c]
    BY <1>1
<1>3. ServedOnce' /\ Asked'
    <2>1. \A t \in Thread : at[t] \in Busy => link[serves[t]] # "backlog"
        BY DEF Places, ServedOnce, LinkOf
    <2> QED
        BY <1>1, <1>2, <2>1 DEF Places, ServedOnce, Asked
<1>4. QueuedOnce'
    BY <1>2, Listed DEF Places, QueuedOnce, Serving
<1>5. WaitsOnce'
    BY DEF WaitsOnce
<1> QED
    BY <1>3, <1>4, <1>5 DEF Places

LEMMA PlacesKept ==
    ASSUME Places, UNCHANGED <<at, serves, asks, link, queue, backlog>>,
           columns' = columns \/ columns' = Gui
    PROVE  Places'
<1>1. Gui # Nobody
    BY NetworkServerAssumption DEF NetworkServerAssumption
<1> QED
    BY <1>1 DEF Places, ServedOnce, QueuedOnce, WaitsOnce, Asked, Serving

LEMMA ControlPlaces ==
    ASSUME Types, Types', Places, Start \/ Stop \/ Stopped \/ StartAgain \/ GuiQuery
    PROVE  Places'
<1>1. CASE Start \/ Stopped \/ GuiQuery
    BY <1>1, PlacesKept DEF Start, Stopped, GuiQuery, acceptVars, threadVars, engineVars
<1>2. CASE Stop \/ StartAgain
    BY <1>2, BacklogDropped DEF Stop, StartAgain, threadVars, engineVars
<1> QED
    BY <1>1, <1>2

LEMMA CompletePlaces ==
    ASSUME Types, Types', Places, Complete
    PROVE  Places'
<1> DEFINE c == Head(backlog)
<1>1. /\ c \in Client /\ link[c] = "backlog" /\ Nobody \notin Client
      /\ \A i \in 1 .. Len(backlog') : i + 1 \in 2 .. Len(backlog) /\ backlog'[i] = backlog[i + 1]
      /\ 1 \in 1 .. Len(backlog) /\ c = backlog[1]
      /\ Len(backlog) \in Nat
    <2>1. backlog \in Seq(Client) /\ backlog # <<>> /\ backlog' = Tail(backlog)
        BY DEF Complete, Types
    <2>2. /\ c \in Client /\ c = backlog[1] /\ Len(backlog) \in Nat \ {0}
          /\ \A i \in 1 .. Len(backlog') :
                 i + 1 \in 2 .. Len(backlog) /\ backlog'[i] = backlog[i + 1]
        BY <2>1, TailEffect
    <2>3. 1 \in 1 .. Len(backlog)
        BY <2>2
    <2> QED
        BY <2>2, <2>3, Listed DEF Places, WaitsOnce
<1>2. /\ queue' = Append(queue, c) /\ UNCHANGED <<at, serves, asks, columns>>
      /\ link'[c] = "handshake" /\ \A d \in Client : d # c => link'[d] = link[d]
    BY <1>1 DEF Complete, Put, Types, threadVars, engineVars
<1> HIDE DEF c
<1>3. \A t \in Thread : at[t] \in Busy => serves[t] \in Client /\ serves[t] # c
    BY <1>1 DEF Places, ServedOnce, LinkOf
<1>4. ServedOnce' /\ Asked'
    BY <1>1, <1>2, <1>3 DEF Places, ServedOnce, Asked
<1>5. WaitsOnce'
    <2>1. \A i \in 1 .. Len(backlog') : backlog'[i] # c
        <3> TAKE i \in 1 .. Len(backlog')
        <3>1. i + 1 # 1 /\ i + 1 \in 1 .. Len(backlog)
            BY <1>1
        <3> QED
            BY <1>1, <3>1 DEF Places, WaitsOnce
    <2>2. \A i \in 1 .. Len(backlog') : backlog'[i] \in Client /\ link[backlog'[i]] = "backlog"
        <3> TAKE i \in 1 .. Len(backlog')
        <3>1. i + 1 \in 1 .. Len(backlog) /\ backlog'[i] = backlog[i + 1]
            BY <1>1
        <3> QED
            BY <3>1, Listed DEF Places, WaitsOnce
    <2>3. \A i, j \in 1 .. Len(backlog') : backlog'[i] = backlog'[j] => i = j
        <3> TAKE i, j \in 1 .. Len(backlog')
        <3> HAVE backlog'[i] = backlog'[j]
        <3>1. i + 1 \in 1 .. Len(backlog) /\ j + 1 \in 1 .. Len(backlog)
                  /\ backlog[i + 1] = backlog[j + 1]
            BY <1>1
        <3>2. i + 1 = j + 1
            BY <3>1 DEF Places, WaitsOnce
        <3> QED
            BY <3>2
    <2> QED
        BY <1>2, <2>1, <2>2, <2>3 DEF WaitsOnce
<1>6. QueuedOnce'
    <2>1. /\ Len(queue') = Len(queue) + 1 /\ Len(queue) \in Nat
          /\ \A i \in 1 .. Len(queue') : \/ i \in 1 .. Len(queue) /\ queue'[i] = queue[i]
                                         \/ i = Len(queue) + 1 /\ queue'[i] = c
        <3>1. queue \in Seq(Client \cup {Nobody}) /\ c \in Client \cup {Nobody}
            BY <1>1 DEF Types
        <3> QED
            BY <1>2, <3>1, AppendEffect
    <2>2. \A i \in 1 .. Len(queue) : queue[i] # Nobody => queue[i] \in Client /\ queue[i] # c
        BY <1>1, Listed DEF Places, QueuedOnce
    <2>3. \A i \in 1 .. Len(queue') : queue'[i] # Nobody =>
            link'[queue'[i]] = "handshake" /\ \A t \in Thread : ~ Serving(t, queue[i])'
        BY <1>2, <1>3, <2>1, <2>2 DEF Places, QueuedOnce, Serving
    <2>4. \A i, j \in 1 .. Len(queue') : queue'[i] # Nobody /\ queue'[i] = queue'[j] => i = j
        BY <1>1, <2>1, <2>2 DEF Places, QueuedOnce
    <2> QED
        BY <2>3, <2>4 DEF QueuedOnce, Serving
<1> QED
    BY <1>4, <1>5, <1>6 DEF Places

LEMMA AcceptPlaces ==
    ASSUME Types, Types', Places, NEW t \in Thread, Accept(t) \/ StaleAccept(t)
    PROVE  Places'
<1> DEFINE c == Head(queue)
<1>1. /\ UNCHANGED <<asks, link, backlog, columns>>
      /\ at[t] = "idle" /\ queue # <<>> /\ queue' = Tail(queue)
      /\ \A u \in Thread : u # t => at'[u] = at[u] /\ serves'[u] = serves[u]
      /\ \/ at'[t] = "greet" /\ serves'[t] = c /\ c # Nobody
         \/ at'[t] = "rearm"
    BY DEF Accept, StaleAccept, Free, Goto, Types, engineVars
<1>2. /\ 1 \in 1 .. Len(queue) /\ c = queue[1] /\ Len(queue) \in Nat
      /\ \A i \in 1 .. Len(queue') : i + 1 \in 2 .. Len(queue) /\ queue'[i] = queue[i + 1]
    BY <1>1, TailEffect DEF Types
<1>3. /\ c # Nobody => c \in Client /\ link[c] = "handshake"
      /\ c # Nobody => \A u \in Thread : ~ Serving(u, c)
    BY <1>2, Listed DEF Places, QueuedOnce
<1> HIDE DEF c
<1>4. ServedOnce'
    <2>1. \A u \in Thread : at'[u] \in Busy =>
              serves'[u] \in Client /\ link'[serves'[u]] \in LinkOf(at'[u])
        BY <1>1, <1>3 DEF Places, ServedOnce, Busy, LinkOf, Executing
    <2>2. \A u, v \in Thread : at'[u] \in Busy /\ at'[v] \in Busy /\ serves'[u] = serves'[v] =>
              u = v
        BY <1>1, <1>3 DEF Places, ServedOnce, Busy, Serving
    <2>3. \A d \in Client : link'[d] = "working" =>
              \E u \in Thread : at'[u] \in Executing /\ serves'[u] = d
        BY <1>1 DEF Places, ServedOnce, Executing
    <2> QED
        BY <2>1, <2>2, <2>3 DEF ServedOnce
<1>5. WaitsOnce' /\ Asked'
    BY <1>1 DEF Places, WaitsOnce, Asked, Executing
<1>6. QueuedOnce'
    <2>1. \A i \in 1 .. Len(queue') : queue'[i] # Nobody =>
            link'[queue'[i]] = "handshake" /\ \A u \in Thread : ~ Serving(u, queue[i])'
        <3> SUFFICES ASSUME NEW i \in 1 .. Len(queue'), queue'[i] # Nobody
                     PROVE  link'[queue'[i]] = "handshake" /\ \A u \in Thread :
                                ~ Serving(u, queue[i])'
            OBVIOUS
        <3>1. i + 1 \in 1 .. Len(queue) /\ i + 1 # 1 /\ queue'[i] = queue[i + 1]
            BY <1>2
        <3>2. queue[i + 1] # c
            BY <1>2, <3>1 DEF Places, QueuedOnce
        <3>3. link[queue[i + 1]] = "handshake" /\ \A u \in Thread : ~ Serving(u, queue[i + 1])
            BY <3>1 DEF Places, QueuedOnce
        <3> QED
            BY <1>1, <3>1, <3>2, <3>3 DEF Serving, Busy
    <2>2. \A i, j \in 1 .. Len(queue') : queue'[i] # Nobody /\ queue'[i] = queue'[j] => i = j
        <3> SUFFICES ASSUME NEW i \in 1 .. Len(queue'), NEW j \in 1 .. Len(queue'),
                            queue'[i] # Nobody, queue'[i] = queue'[j]
                     PROVE  i = j
            OBVIOUS
        <3>1. i + 1 \in 1 .. Len(queue) /\ j + 1 \in 1 .. Len(queue) /\ queue[i + 1] = queue[j + 1]
              /\ queue[i + 1] # Nobody
            BY <1>2
        <3>2. i + 1 = j + 1
            BY <3>1 DEF Places, QueuedOnce
        <3> QED
            BY <3>2
    <2> QED
        BY <2>1, <2>2 DEF QueuedOnce, Serving
<1> QED
    BY <1>4, <1>5, <1>6 DEF Places

LEMMA ServePlaces ==
    ASSUME Types, Types', Places, NEW t \in Thread, NEW c \in Client, Serve(t, c)
    PROVE  Places'
<1>1. CASE Read(t, c)
    <2>1. /\ UNCHANGED <<queue, backlog, columns>>
          /\ at[t] = "idle" /\ link[c] = "reading" /\ inbox[c] # <<>>
          /\ at'[t] = "query" /\ serves'[t] = c /\ asks'[t] = Head(inbox[c]) /\ link'[c] = "working"
          /\ \A u \in Thread : u # t => /\ at'[u] = at[u] /\ serves'[u] = serves[u]
                                        /\ asks'[u] = asks[u]
          /\ \A d \in Client : d # c => link'[d] = link[d]
        BY <1>1 DEF Read, Free, Goto, Put, Types, acceptVars, engineVars
    <2>2. Head(inbox[c]) # 0
        <3>1. inbox[c] \in Seq(1 .. MaxRequests)
            BY DEF Types
        <3>2. Head(inbox[c]) \in 1 .. MaxRequests
            BY <2>1, <3>1, TailEffect
        <3> QED
            BY <3>2
    <2>3. \A u \in Thread : at[u] \in Busy => serves[u] \in Client /\ serves[u] # c
        BY <2>1 DEF Places, ServedOnce, LinkOf
    <2>4. ServedOnce'
        <3>1. \A u \in Thread : at'[u] \in Busy =>
                  serves'[u] \in Client /\ link'[serves'[u]] \in LinkOf(at'[u])
            BY <2>1, <2>3 DEF Places, ServedOnce, Busy, LinkOf, Executing
        <3>2. \A u, v \in Thread : at'[u] \in Busy /\ at'[v] \in Busy /\ serves'[u] = serves'[v] =>
                  u = v
            BY <2>1, <2>3 DEF Places, ServedOnce
        <3>3. \A d \in Client : link'[d] = "working" =>
                  \E u \in Thread : at'[u] \in Executing /\ serves'[u] = d
            BY <2>1 DEF Places, ServedOnce, Executing
        <3> QED
            BY <3>1, <3>2, <3>3 DEF ServedOnce
    <2>5. Asked'
        BY <2>1, <2>2 DEF Places, Asked
    <2>6. QueuedOnce'
        <3>1. \A i \in 1 .. Len(queue) : queue[i] # Nobody => queue[i] \in Client /\ queue[i] # c
            BY <2>1, Listed DEF Places, QueuedOnce
        <3> QED
            BY <2>1, <3>1 DEF Places, QueuedOnce, Serving
    <2>7. WaitsOnce'
        BY <2>1, Listed DEF Places, WaitsOnce
    <2> QED
        BY <2>4, <2>5, <2>6, <2>7 DEF Places
<1>2. CASE ReadFails(t, c) \/ Written(t, c)
    <2>1. /\ UNCHANGED <<at, serves, queue, asks, backlog, columns>>
          /\ link[c] \in {"reading", "writing"}
          /\ Put(c, "out") \/ Put(c, "reading")
        BY <1>2 DEF ReadFails, Written, acceptVars, threadVars, engineVars
    <2> QED
        BY <2>1, LinkMoves DEF Places, Links
<1> QED
    BY <1>1, <1>2 DEF Serve

LEMMA WorldPlaces ==
    ASSUME Types, Types', Places, World
    PROVE  Places'
<1>1. ASSUME NEW c \in Client, Connect(c)
      PROVE  Places'
    <2>1. /\ UNCHANGED <<at, serves, queue, asks, columns>>
          /\ link[c] = "out" /\ Put(c, "backlog") /\ backlog' = Append(backlog, c)
          /\ link'[c] = "backlog"
        BY <1>1 DEF Connect, threadVars, engineVars, Put, Types
    <2>2. /\ ServedOnce' /\ QueuedOnce' /\ Asked'
          /\ \A i \in 1 .. Len(backlog) : backlog[i] # c /\ link'[backlog[i]] = "backlog"
        BY <2>1, LinkMoves DEF Links
    <2>3. /\ Len(backlog') = Len(backlog) + 1 /\ Len(backlog) \in Nat
          /\ \A i \in 1 .. Len(backlog') : \/ i \in 1 .. Len(backlog) /\ backlog'[i] = backlog[i]
                                           \/ i = Len(backlog) + 1 /\ backlog'[i] = c
        <3>1. backlog \in Seq(Client)
            BY DEF Types
        <3> QED
            BY <2>1, <3>1, AppendEffect
    <2>4. WaitsOnce'
        BY <2>1, <2>2, <2>3 DEF Places, WaitsOnce
    <2> QED
        BY <2>2, <2>4 DEF Places
<1>2. ASSUME NEW c \in Client, Send(c) \/ Leave(c)
      PROVE  Places'
    BY <1>2, PlacesKept DEF Send, Leave, acceptVars, threadVars, engineVars
<1>3. ASSUME NEW c \in Client, NEW r, Reply(c, r)
      PROVE  Places'
    BY <1>3, PlacesKept DEF Reply, acceptVars, threadVars, engineVars
<1>4. ASSUME NEW ip, BanEnds(ip)
      PROVE  Places'
    BY <1>4, PlacesKept DEF BanEnds, acceptVars, threadVars, engineVars
<1> QED
    BY <1>1, <1>2, <1>3, <1>4 DEF World

LEMMA StepPlaces == Types /\ Places /\ [Next]_vars => Types' /\ Places'
<1> SUFFICES ASSUME Types, Places, [Next]_vars
             PROVE  Types' /\ Places'
    OBVIOUS
<1>1. Types'
    BY StepTypes
<1>2. CASE UNCHANGED vars
    BY <1>1, <1>2, PlacesKept DEF vars, acceptVars, threadVars, engineVars
<1>3. CASE Next
    BY <1>1, <1>3, ControlPlaces, CompletePlaces, AcceptPlaces, HandshakePlaces, ExecutePlaces,
       ServePlaces, WorldPlaces DEF Next
<1> QED
    BY <1>1, <1>2, <1>3

\* However many threads, clients and stops there are: types are kept, a request
\* is executed for each connection that waits for an answer and for no other,
\* and no connection is twice in the backlog.
THEOREM TypesKept == Spec => []TypeOK
BY InitTypes, StepPlaces, PlacesTypeOK, PTL DEF Spec

--------------------------------------------------------------------------------
(* The order of the answers *)

\* The requests answered, and those that wait, in the order they were sent in.
Ordered(in, n, ans) ==
    /\ \A i, j \in 1 .. Len(in) : i < j => in[i] < in[j]
    /\ \A i \in 1 .. Len(in) : in[i] <= n
    /\ \A i, j \in 1 .. Len(ans) : i < j => ans[i].req < ans[j].req
    /\ \A i \in 1 .. Len(ans) : ans[i].req <= n
    /\ \A i \in 1 .. Len(ans), j \in 1 .. Len(in) : ans[i].req < in[j]

\* The request that is executed is after the former and before the latter.
Between(req, in, n, ans) ==
    /\ req <= n
    /\ \A i \in 1 .. Len(ans) : ans[i].req < req
    /\ \A i \in 1 .. Len(in) : req < in[i]

Lines == Seq(1 .. MaxRequests)

LEMMA RequestType ==
    /\ MaxRequests \in Nat
    /\ \A r \in 1 .. MaxRequests : r \in Int
    /\ \A in \in Lines :
           Len(in) \in Nat /\ \A i \in 1 .. Len(in) : in[i] \in 1 .. MaxRequests /\ in[i] \in Int
    /\ \A ans \in Seq(AnswerType) :
            Len(ans) \in Nat /\ \A i \in 1 .. Len(ans) : ans[i] \in AnswerType /\ ans[i].req \in Int
<1>1. MaxRequests \in Nat
    BY NetworkServerAssumption DEF NetworkServerAssumption
<1>2. \A r \in 1 .. MaxRequests : r \in Int
    BY <1>1
<1>3. \A in \in Lines : Len(in) \in Nat /\ \A i \in 1 .. Len(in) : in[i] \in 1 .. MaxRequests
    <2> DEFINE S == 1 .. MaxRequests
    <2>1. Lines = Seq(S)
        BY DEF Lines
    <2> HIDE DEF S
    <2>2. \A in \in Seq(S) : Len(in) \in Nat /\ \A i \in 1 .. Len(in) : in[i] \in S
        OBVIOUS
    <2> QED
        BY <2>1, <2>2 DEF S
<1>4. \A ans \in Seq(AnswerType) :
          Len(ans) \in Nat /\ \A i \in 1 .. Len(ans) : ans[i] \in AnswerType
    OBVIOUS
<1>5. \A a \in AnswerType : a.req \in 1 .. MaxRequests
    BY DEF AnswerType
<1> QED
    BY <1>1, <1>2, <1>3, <1>4, <1>5

\* Lines that are dropped leave the others in order.
LEMMA DropOrdered ==
    ASSUME NEW in \in Lines, NEW n \in Int, NEW ans \in Seq(AnswerType), NEW k \in 0 .. Len(in),
           Ordered(in, n, ans)
    PROVE  /\ Ordered(SubSeq(in, k + 1, Len(in)), n, ans)
           /\ \A req \in Int : Between(req, in, n, ans) =>
                  Between(req, SubSeq(in, k + 1, Len(in)), n, ans)
<1> DEFINE rest == SubSeq(in, k + 1, Len(in))
<1>1. /\ Len(rest) = Len(in) - k /\ Len(in) \in Nat /\ k \in Nat
      /\ \A i \in 1 .. Len(rest) : i + k \in 1 .. Len(in) /\ rest[i] = in[i + k]
    BY DropEffect, RequestType DEF Lines
<1> HIDE DEF rest
<1>2. \A i, j \in 1 .. Len(rest) : i < j => rest[i] < rest[j]
    <2> TAKE i, j \in 1 .. Len(rest)
    <2> HAVE i < j
    <2>1. i + k < j + k
        BY <1>1
    <2> QED
        BY <1>1, <2>1 DEF Ordered
<1> QED
    BY <1>1, <1>2 DEF Ordered, Between, rest

\* The first line, when the lines after it are what is left.
LEMMA ReadOrdered ==
    ASSUME NEW in \in Lines, NEW n \in Int, NEW ans \in Seq(AnswerType), NEW k \in 1 .. Len(in),
           Ordered(in, n, ans)
    PROVE  Between(Head(in), SubSeq(in, k + 1, Len(in)), n, ans)
<1> DEFINE rest == SubSeq(in, k + 1, Len(in))
<1>1. /\ Len(in) \in Nat /\ in \in Seq(1 .. MaxRequests)
    BY RequestType DEF Lines
<1>2. k \in 0 .. Len(in) /\ 1 \in 1 .. Len(in) /\ in # <<>>
    BY <1>1
<1>3. /\ Len(rest) = Len(in) - k
      /\ \A i \in 1 .. Len(rest) : i + k \in 1 .. Len(in) /\ rest[i] = in[i + k]
    BY <1>1, <1>2, DropEffect
<1>4. Head(in) = in[1]
    BY <1>1, <1>2, TailEffect
<1> HIDE DEF rest
<1>5. \A i \in 1 .. Len(rest) : 1 < i + k
    BY <1>1, <1>3
<1> QED
    BY <1>1, <1>2, <1>3, <1>4, <1>5 DEF Ordered, Between, rest

\* The answer to the request that is executed.
LEMMA RespondOrdered ==
    ASSUME NEW in \in Lines, NEW n \in Int, NEW ans \in Seq(AnswerType), NEW a \in AnswerType,
           Ordered(in, n, ans), Between(a.req, in, n, ans)
    PROVE  Ordered(in, n, Append(ans, a))
<1> DEFINE all == Append(ans, a)
<1>1. /\ Len(all) = Len(ans) + 1 /\ Len(ans) \in Nat
      /\ \A i \in 1 .. Len(all) : \/ i \in 1 .. Len(ans) /\ all[i] = ans[i]
                                  \/ i = Len(ans) + 1 /\ all[i] = a
    BY AppendEffect
<1> HIDE DEF all
<1>2. \A i, j \in 1 .. Len(all) : i < j => all[i].req < all[j].req
    <2> SUFFICES ASSUME NEW i \in 1 .. Len(all), NEW j \in 1 .. Len(all), i < j
                 PROVE  all[i].req < all[j].req
        OBVIOUS
    <2>1. i \in 1 .. Len(ans) /\ all[i] = ans[i]
        BY <1>1
    <2> QED
        BY <1>1, <2>1 DEF Ordered, Between
<1> QED
    BY <1>1, <1>2 DEF Ordered, Between, all

\* A line that is sent.
LEMMA SendOrdered ==
    ASSUME NEW in \in Lines, NEW n \in Int, NEW ans \in Seq(AnswerType), n + 1 \in 1 .. MaxRequests,
           Ordered(in, n, ans)
    PROVE  /\ Ordered(Append(in, n + 1), n + 1, ans)
           /\ \A req \in Int : Between(req, in, n, ans) =>
                  Between(req, Append(in, n + 1), n + 1, ans)
<1> DEFINE all == Append(in, n + 1)
<1>1. /\ Len(all) = Len(in) + 1 /\ Len(in) \in Nat
      /\ \A i \in 1 .. Len(all) : \/ i \in 1 .. Len(in) /\ all[i] = in[i]
                                  \/ i = Len(in) + 1 /\ all[i] = n + 1
    BY AppendEffect DEF Lines
<1> HIDE DEF all
<1>2. /\ \A i \in 1 .. Len(in) : in[i] \in Int
      /\ \A i \in 1 .. Len(ans) : ans[i].req \in Int
    BY RequestType
<1>3. \A i \in 1 .. Len(all) : all[i] <= n + 1
    BY <1>1, <1>2 DEF Ordered
<1>4. \A i, j \in 1 .. Len(all) : i < j => all[i] < all[j]
    <2> SUFFICES ASSUME NEW i \in 1 .. Len(all), NEW j \in 1 .. Len(all), i < j
                 PROVE  all[i] < all[j]
        OBVIOUS
    <2>1. i \in 1 .. Len(in) /\ all[i] = in[i] /\ in[i] \in Int /\ in[i] <= n
        BY <1>1, <1>2 DEF Ordered
    <2> QED
        BY <1>1, <2>1 DEF Ordered
<1>5. \A i \in 1 .. Len(ans) : ans[i].req <= n /\ ans[i].req <= n + 1 /\ ans[i].req < n + 1
    BY <1>2 DEF Ordered
<1>6. \A i \in 1 .. Len(ans), j \in 1 .. Len(all) : ans[i].req < all[j]
    <2> TAKE i \in 1 .. Len(ans), j \in 1 .. Len(all)
    <2>1. CASE j \in 1 .. Len(in) /\ all[j] = in[j]
        BY <2>1 DEF Ordered
    <2>2. CASE all[j] = n + 1
        BY <1>5, <2>2
    <2> QED
        BY <1>1, <2>1, <2>2
<1>7. Ordered(all, n + 1, ans)
    BY <1>3, <1>4, <1>5, <1>6 DEF Ordered
<1>8. \A req \in Int : Between(req, in, n, ans) => Between(req, all, n + 1, ans)
    BY <1>1, <1>2 DEF Between
<1> QED
    BY <1>7, <1>8 DEF all

OrderInv ==
    \A c \in Client :
        /\ Ordered(inbox[c], sent[c], answers[c])
        /\ \A t \in Thread :
            at[t] \in Executing /\ serves[t] = c => Between(asks[t], inbox[c], sent[c], answers[c])

IInv == Types /\ Places /\ OrderInv

LEMMA LinesType ==
    ASSUME Types
    PROVE  /\ \A c \in Client :
                  inbox[c] \in Lines /\ sent[c] \in Int /\ answers[c] \in Seq(AnswerType)
           /\ \A t \in Thread : asks[t] \in Int
<1>1. /\ \A c \in Client :
             inbox[c] \in Lines /\ sent[c] \in 0 .. MaxRequests /\ answers[c] \in Seq(AnswerType)
      /\ \A t \in Thread : asks[t] \in 0 .. MaxRequests
    BY DEF Types, Lines
<1> QED
    BY <1>1, RequestType

\* A step that executes nothing new and touches no lines.
LEMMA OrderKept ==
    ASSUME OrderInv, UNCHANGED <<inbox, sent, answers>>,
           \A t \in Thread : at'[t] \in Executing =>
                at[t] \in Executing /\ serves'[t] = serves[t] /\ asks'[t] = asks[t]
    PROVE  OrderInv'
BY DEF OrderInv

LEMMA HandshakeOrder ==
    ASSUME IInv, NEW t \in Thread, Accept(t) \/ StaleAccept(t) \/ Handshake(t)
    PROVE  OrderInv'
<1> USE DEF At, Goto, Executing
<1>1. \A u \in Thread : at'[u] \in Executing =>
            at[u] \in Executing /\ serves'[u] = serves[u] /\ asks'[u] = asks[u]
    BY DEF Accept, StaleAccept, Handshake, Greet, Check, AwaitReply, AwaitFails, Tell, Rearm, Throw,
       Free, IInv, Types, Labels
<1>2. CASE ~ AwaitReply(t)
    BY <1>1, <1>2, OrderKept
       DEF Accept, StaleAccept, Handshake, Greet, Check, AwaitFails, Tell, Rearm, Throw, IInv,
          lineVars
<1>3. CASE AwaitReply(t)
    <2> DEFINE c == serves[t]
    <2>1. PICK k \in 0 .. Len(inbox[c]) : inbox' = [inbox EXCEPT ![c] = SubSeq(@, k + 1, Len(@))]
        BY <1>3 DEF AwaitReply
    <2>2. /\ c \in Client /\ UNCHANGED <<sent, answers>>
          /\ inbox'[c] = SubSeq(inbox[c], k + 1, Len(inbox[c]))
          /\ \A d \in Client : d # c => inbox'[d] = inbox[d]
        BY <1>3, <2>1 DEF AwaitReply, IInv, Types, Places, ServedOnce, Busy
    <2> HIDE DEF c
    <2>3. /\ Ordered(inbox'[c], sent[c], answers[c])
          /\ \A req \in Int : Between(req, inbox[c], sent[c], answers[c]) =>
                                Between(req, inbox'[c], sent[c], answers[c])
        BY <2>2, LinesType, DropOrdered DEF IInv, OrderInv
    <2> QED
        BY <1>1, <2>2, <2>3, LinesType DEF IInv, OrderInv
<1> QED
    BY <1>2, <1>3

LEMMA ExecuteOrder ==
    ASSUME IInv, NEW t \in Thread, Execute(t)
    PROVE  OrderInv'
<1> USE DEF At, Goto, Executing
<1> DEFINE c == serves[t]
<1>1. c \in Client /\ asks[t] \in 1 .. MaxRequests /\ at[t] \in Executing
      /\ UNCHANGED <<inbox, sent>>
    <2>1. at[t] \in Executing /\ UNCHANGED <<inbox, sent>>
        BY DEF Execute, Query, Answer
    <2>2. asks[t] # 0 /\ asks[t] \in 0 .. MaxRequests /\ MaxRequests \in Nat
        BY <2>1, RequestType DEF IInv, Types, Places, Asked
    <2> QED
        BY <2>1, <2>2 DEF IInv, Places, ServedOnce, Busy
<1>2. CASE Goto(t, "answer") /\ UNCHANGED <<serves, asks, answers>>
    <2>1. \A u \in Thread : at'[u] \in Executing => at[u] \in Executing
        BY <1>1, <1>2 DEF IInv, Types
    <2> QED
        BY <1>1, <1>2, <2>1, OrderKept DEF IInv
<1>3. ASSUME NEW f \in Client \cup {Gui}, Respond(t, f)
      PROVE  OrderInv'
    <2> DEFINE a == [req |-> asks[t], from |-> f]
    <2>1. a \in AnswerType /\ a.req = asks[t]
        BY <1>1 DEF AnswerType
    <2>2. /\ answers'[c] = Append(answers[c], a)
          /\ \A d \in Client : d # c => answers'[d] = answers[d]
          /\ at'[t] = "idle"
          /\ \A u \in Thread : u # t =>
                 at'[u] = at[u] /\ serves'[u] = serves[u] /\ asks'[u] = asks[u]
        BY <1>1, <1>3 DEF Respond, IInv, Types
    <2>3. \A u \in Thread : u # t /\ at[u] \in Executing => serves[u] # c
        BY <1>1 DEF IInv, Places, ServedOnce, Busy
    <2> HIDE DEF a
    <2>4. Between(asks[t], inbox[c], sent[c], answers[c]) /\ Ordered(inbox[c], sent[c], answers[c])
        BY <1>1 DEF IInv, OrderInv
    <2> HIDE DEF c
    <2>5. Ordered(inbox[c], sent[c], answers'[c])
        BY <1>1, <2>1, <2>2, <2>4, LinesType, RespondOrdered DEF IInv
    <2> QED
        BY <1>1, <2>2, <2>3, <2>5 DEF IInv, OrderInv
<1>4. (IF pending # Nobody THEN pending ELSE columns) \in Client \cup {Gui} \/ Query(t)
    BY DEF Execute, Answer, IInv, Types, Places, Asked
<1> QED
    BY <1>1, <1>2, <1>3, <1>4 DEF Execute, Query, Answer

LEMMA ServeOrder ==
    ASSUME IInv, NEW t \in Thread, NEW c \in Client, Serve(t, c)
    PROVE  OrderInv'
<1>1. CASE Read(t, c)
    <2>1. PICK k \in 1 .. Len(inbox[c]) : inbox' = [inbox EXCEPT ![c] = SubSeq(@, k + 1, Len(@))]
        BY <1>1 DEF Read
    <2>2. /\ UNCHANGED <<sent, answers>> /\ link[c] = "reading"
          /\ inbox'[c] = SubSeq(inbox[c], k + 1, Len(inbox[c]))
          /\ \A d \in Client : d # c => inbox'[d] = inbox[d]
          /\ at'[t] = "query" /\ serves'[t] = c /\ asks'[t] = Head(inbox[c])
          /\ \A u \in Thread : u # t =>
                 at'[u] = at[u] /\ serves'[u] = serves[u] /\ asks'[u] = asks[u]
        BY <1>1, <2>1 DEF Read, Goto, IInv, Types
    <2>3. \A u \in Thread : at[u] \in Executing => serves[u] # c
        BY <2>2 DEF IInv, Places, ServedOnce, LinkOf, Busy, Executing
    <2>4. k \in 0 .. Len(inbox[c])
        BY RequestType, LinesType DEF IInv
    <2>5. Ordered(inbox[c], sent[c], answers[c])
        BY DEF IInv, OrderInv
    <2>6. /\ Ordered(inbox'[c], sent[c], answers[c])
          /\ Between(asks'[t], inbox'[c], sent[c], answers[c])
        BY <2>2, <2>4, <2>5, LinesType, DropOrdered, ReadOrdered DEF IInv
    <2> QED
        BY <2>2, <2>3, <2>6 DEF IInv, OrderInv
<1>2. CASE ReadFails(t, c) \/ Written(t, c)
    BY <1>2, OrderKept DEF ReadFails, Written, IInv, threadVars, lineVars
<1> QED
    BY <1>1, <1>2 DEF Serve

LEMMA WorldOrder ==
    ASSUME IInv, World
    PROVE  OrderInv'
<1>1. ASSUME NEW c \in Client, Connect(c)
      PROVE  OrderInv'
    <2>1. /\ UNCHANGED <<at, serves, asks>> /\ link[c] = "out"
          /\ inbox'[c] = <<>> /\ sent'[c] = 0 /\ answers'[c] = <<>>
          /\ \A d \in Client : d # c =>
                 inbox'[d] = inbox[d] /\ sent'[d] = sent[d] /\ answers'[d] = answers[d]
        BY <1>1 DEF Connect, threadVars, IInv, Types
    <2>2. \A u \in Thread : at[u] \in Executing => serves[u] # c
        BY <2>1 DEF IInv, Places, ServedOnce, LinkOf, Busy, Executing
    <2>3. Ordered(inbox'[c], sent'[c], answers'[c])
        BY <2>1 DEF Ordered
    <2> QED
        BY <2>1, <2>2, <2>3 DEF IInv, OrderInv
<1>2. ASSUME NEW c \in Client, Send(c)
      PROVE  OrderInv'
    <2>1. /\ UNCHANGED <<at, serves, asks, answers>>
          /\ sent'[c] = sent[c] + 1 /\ inbox'[c] = Append(inbox[c], sent[c] + 1)
          /\ \A d \in Client : d # c => inbox'[d] = inbox[d] /\ sent'[d] = sent[d]
        BY <1>2 DEF Send, threadVars, IInv, Types
    <2>2. sent[c] + 1 \in 1 .. MaxRequests
        <3>1. sent[c] \in 0 .. MaxRequests /\ sent[c] < MaxRequests
            BY <1>2 DEF Send, IInv, Types
        <3> QED
            BY <3>1, RequestType
    <2>3. /\ Ordered(inbox'[c], sent'[c], answers[c])
          /\ \A req \in Int : Between(req, inbox[c], sent[c], answers[c]) =>
                                Between(req, inbox'[c], sent'[c], answers[c])
        BY <2>1, <2>2, LinesType, SendOrdered DEF IInv, OrderInv
    <2> QED
        BY <2>1, <2>3, LinesType DEF IInv, OrderInv
<1>3. ASSUME NEW c \in Client, NEW r, Leave(c) \/ Reply(c, r)
      PROVE  OrderInv'
    BY <1>3, OrderKept DEF Leave, Reply, IInv, threadVars, lineVars
<1>4. ASSUME NEW ip, BanEnds(ip)
      PROVE  OrderInv'
    BY <1>4, OrderKept DEF BanEnds, IInv, threadVars, lineVars
<1> QED
    BY <1>1, <1>2, <1>3, <1>4 DEF World

LEMMA StepOrder == IInv /\ [Next]_vars => IInv'
<1> SUFFICES ASSUME IInv, [Next]_vars
             PROVE  OrderInv'
    BY StepPlaces DEF IInv
<1>1. CASE UNCHANGED vars
    BY <1>1, OrderKept DEF vars, threadVars, lineVars, IInv
<1>2. CASE Start \/ Stop \/ Stopped \/ StartAgain \/ Complete \/ GuiQuery
    BY <1>2, OrderKept
       DEF Start, Stop, Stopped, StartAgain, Complete, GuiQuery, threadVars, lineVars, IInv
<1> QED
    BY <1>1, <1>2, HandshakeOrder, ExecuteOrder, ServeOrder, WorldOrder DEF Next

LEMMA InitOrder == Init => IInv
<1> SUFFICES ASSUME Init
             PROVE  OrderInv
    BY InitTypes DEF IInv
<1> QED
    BY DEF Init, OrderInv, Ordered, Executing

\* Whatever the client pipelines and whichever threads run its handlers, its
\* answers come in the order of its requests.
THEOREM AnswersKeepOrder == Spec => []AnswersInOrder
<1>1. IInv => AnswersInOrder
    BY DEF IInv, OrderInv, Ordered, AnswersInOrder
<1> QED
    BY <1>1, InitOrder, StepOrder, PTL DEF Spec

--------------------------------------------------------------------------------
(* Whose columns an answer shows *)

\* engineMutex: one thread between the statement and its answer, and what the
\* engine then knows of the last statement is of its connection, or of the GUI.
OwnInv ==
    /\ OwnAnswer
    /\ \A t, u \in Thread : at[t] = "answer" /\ at[u] = "answer" => t = u
    /\ \A t \in Thread : at[t] = "answer" =>
        columns \in Shown(serves[t]) /\ pending \in Shown(serves[t]) \cup {Nobody}
    /\ (\A t \in Thread : at[t] # "answer") => pending = Nobody \/ (GuiQueries /\ pending = Gui)

LEMMA OwnKept ==
    ASSUME OwnInv, UNCHANGED <<answers, columns, pending>>,
           \A t \in Thread : at[t] = "answer" <=> at'[t] = "answer",
           \A t \in Thread : at[t] = "answer" => serves'[t] = serves[t]
    PROVE  OwnInv'
BY DEF OwnInv, OwnAnswer

LEMMA ExecuteOwn ==
    ASSUME Types, Places, OwnInv, NEW t \in Thread, Execute(t)
    PROVE  OwnInv'
<1> USE DEF At, Goto
<1> DEFINE c == serves[t]
<1>1. c \in Client /\ c # Nobody
    BY Listed DEF Execute, Query, Answer, Places, ServedOnce, Busy
<1>2. ASSUME NEW from \in Shown(c), Respond(t, from)
      PROVE  /\ OwnAnswer'
             /\ at'[t] = "idle" /\ \A u \in Thread : u # t =>
                    at'[u] = at[u] /\ serves'[u] = serves[u]
    <2> DEFINE a == [req |-> asks[t], from |-> from]
               s == answers[c]
    <2>1. /\ answers'[c] = Append(s, a) /\ \A d \in Client : d # c => answers'[d] = answers[d]
          /\ at'[t] = "idle" /\ \A u \in Thread : u # t => at'[u] = at[u] /\ serves'[u] = serves[u]
        BY <1>1, <1>2 DEF Respond, Types
    <2>2. s \in Seq(AnswerType) /\ a.from \in Shown(c)
        BY <1>1 DEF Types
    <2> HIDE DEF a, s
    <2>3. \A i \in 1 .. Len(Append(s, a)) : \/ i \in 1 .. Len(s) /\ Append(s, a)[i] = s[i]
                                            \/ Append(s, a)[i] = a
        BY <2>2
    <2>4. \A i \in 1 .. Len(s) : s[i].from \in Shown(c)
        BY <1>1 DEF OwnInv, OwnAnswer, s
    <2>5. \A i \in 1 .. Len(answers'[c]) : answers'[c][i].from \in Shown(c)
        BY <2>1, <2>2, <2>3, <2>4
    <2> HIDE DEF c
    <2> QED
        BY <2>1, <2>5 DEF OwnInv, OwnAnswer
<1>3. CASE Query(t)
    <2>1. \A u \in Thread : at[u] # "answer"
        BY <1>3 DEF Query, EngineFree
    <2>2. CASE Respond(t, c) /\ UNCHANGED engineVars
        BY <1>2, <2>1, <2>2 DEF OwnInv, engineVars, Shown
    <2>3. CASE /\ columns' = c /\ pending' \in {c, pending} /\ Goto(t, "answer")
               /\ UNCHANGED <<link, serves, asks, answers>>
        <3>1. at'[t] = "answer" /\ \A u \in Thread : u # t => at'[u] # "answer"
            BY <2>1, <2>3 DEF Types
        <3> QED
            BY <2>1, <2>3, <3>1 DEF OwnInv, OwnAnswer, Shown
    <2> QED
        BY <1>3, <2>2, <2>3 DEF Query
<1>4. CASE Answer(t)
    <2>1. at[t] = "answer" /\ pending' = Nobody
        BY <1>4 DEF Answer
    <2> DEFINE from == IF pending # Nobody THEN pending ELSE columns
    <2>2. from \in Shown(c)
        BY <2>1 DEF OwnInv
    <2>3. Respond(t, from)
        BY <1>4 DEF Answer
    <2>4. \A u \in Thread : at'[u] # "answer"
        BY <1>2, <2>1, <2>2, <2>3 DEF OwnInv
    <2> QED
        BY <1>2, <2>1, <2>2, <2>3, <2>4 DEF OwnInv
<1> QED
    BY <1>3, <1>4 DEF Execute

LEMMA StepOwn ==
    ASSUME Types, Places, OwnInv, [Next]_vars
    PROVE  OwnInv'
<1>1. CASE UNCHANGED vars
    BY <1>1, OwnKept DEF vars, threadVars, lineVars, engineVars
<1>2. CASE Start \/ Stop \/ Stopped \/ StartAgain \/ Complete
    BY <1>2, OwnKept
       DEF Start, Stop, Stopped, StartAgain, Complete, threadVars, lineVars, engineVars
<1>3. ASSUME NEW t \in Thread, Accept(t) \/ StaleAccept(t) \/ Handshake(t)
      PROVE  OwnInv'
    <2>1. UNCHANGED <<answers, columns, pending>>
        BY <1>3
           DEF Accept, StaleAccept, Handshake, Greet, Check, AwaitReply, AwaitFails, Tell, Rearm,
           Throw, lineVars, engineVars
    <2>2. /\ at[t] # "answer" /\ at'[t] # "answer"
          /\ \A u \in Thread : u # t => at'[u] = at[u] /\ serves'[u] = serves[u]
        BY <1>3
           DEF Accept, StaleAccept, Handshake, Greet, Check, AwaitReply, AwaitFails, Tell, Rearm,
           Throw, At, Free, Goto, Types, Labels
    <2> QED
        BY <2>1, <2>2, OwnKept
<1>4. ASSUME NEW t \in Thread, NEW c \in Client, Serve(t, c)
      PROVE  OwnInv'
    <2>1. UNCHANGED <<answers, columns, pending>>
        BY <1>4 DEF Serve, Read, ReadFails, Written, lineVars, engineVars
    <2>2. /\ at[t] # "answer" /\ at'[t] # "answer"
          /\ \A u \in Thread : u # t => at'[u] = at[u] /\ serves'[u] = serves[u]
        BY <1>4 DEF Serve, Read, ReadFails, Written, threadVars, Free, Goto, Types
    <2> QED
        BY <2>1, <2>2, OwnKept
<1>5. ASSUME NEW c \in Client, Connect(c)
      PROVE  OwnInv'
    <2>1. /\ UNCHANGED <<at, serves, columns, pending>> /\ answers'[c] = <<>>
          /\ \A d \in Client : d # c => answers'[d] = answers[d]
        BY <1>5 DEF Connect, threadVars, engineVars, Types
    <2>2. OwnAnswer'
        BY <2>1 DEF OwnInv, OwnAnswer
    <2> QED
        BY <2>1, <2>2 DEF OwnInv
<1>6. ASSUME NEW c, NEW r, NEW ip, Send(c) \/ Leave(c) \/ Reply(c, r) \/ BanEnds(ip)
      PROVE  OwnInv'
    BY <1>6, OwnKept DEF Send, Leave, Reply, BanEnds, threadVars, lineVars, engineVars
<1>7. CASE GuiQuery
    BY <1>7 DEF GuiQuery, OwnInv, OwnAnswer, Shown, threadVars, lineVars
<1> QED
    BY <1>1, <1>2, <1>3, <1>4, <1>5, <1>6, <1>7, ExecuteOwn DEF Next, World

\* An answer shows the columns, or the database, of the statement it answers, or,
\* if the GUI uses the engine too, of a statement of the GUI, and never of another
\* client: engineMutex is held from query() to getLastColumns().
THEOREM AnswersOwn == Spec => []OwnAnswer
<1>1. Init => Types /\ Places /\ OwnInv
    BY InitTypes DEF Init, OwnInv, OwnAnswer
<1>2. Types /\ Places /\ OwnInv /\ [Next]_vars => (Types /\ Places /\ OwnInv)'
    BY StepPlaces, StepOwn
<1>3. OwnInv => OwnAnswer
    BY DEF OwnInv
<1> QED
    BY <1>1, <1>2, <1>3, PTL DEF Spec

--------------------------------------------------------------------------------
(* How many handshakes there are at a time *)

Accepting == {"greet", "check", "await", "tell", "rearm"}

\* The threads in a handler of the chain of accepts.
Handlers == {t \in Thread : at[t] \in Accepting}

\* Those that wait for the reply of a client of the address.
Challenged(ip) == {t \in Thread : at[t] = "await" /\ IpOf[serves[t]] = ip}

\* The accept that the next start will make.
ToStart == IF server \in {"off", "stopping"} THEN 1 ELSE 0

\* Every accept, outstanding, ready or handled, was made by a start, and a stop
\* leaves at most one of them for the next start to add to.
ChainsInv ==
    /\ IsFiniteSet(Handlers)
    /\ armed + Len(queue) + Cardinality(Handlers) + ToStart <= 1 + stops

\* The failures counted, and those that may come from the challenges that are open.
LimitInv ==
    \A ip \in Ip : failCount[ip] + Cardinality(Challenged(ip)) <= MaxFailures + stops

LEMMA CountTypes ==
    ASSUME Types, IsFiniteSet(Handlers)
    PROVE  /\ armed \in Nat /\ Len(queue) \in Nat /\ stops \in Nat /\ MaxFailures \in Nat \ {0}
           /\ Cardinality(Handlers) \in Nat
           /\ \A ip \in Ip : /\ failCount[ip] \in Nat
                             /\ IsFiniteSet(Challenged(ip))
                             /\ Cardinality(Challenged(ip)) \in Nat
                             /\ Cardinality(Challenged(ip)) <= Cardinality(Handlers)
<1>1. queue \in Seq(Client \cup {Nobody}) /\ armed \in Nat /\ stops \in 0 .. MaxStops
      /\ failCount \in [Ip -> Nat]
    BY DEF Types
<1>2. MaxStops \in Nat /\ MaxFailures \in Nat \ {0}
    BY NetworkServerAssumption DEF NetworkServerAssumption
<1>3. \A ip \in Ip : Challenged(ip) \subseteq Handlers
    BY DEF Challenged, Handlers, Accepting
<1> QED
    BY <1>1, <1>2, <1>3, FS_Subset, FS_CardinalityType

LEMMA CountTypesNext ==
    ASSUME Types'
    PROVE  /\ armed' \in Nat /\ Len(queue') \in Nat /\ stops' \in Nat
           /\ IsFiniteSet(Handlers') =>
                /\ Cardinality(Handlers') \in Nat
                /\ \A ip \in Ip : /\ Cardinality(Challenged(ip)') \in Nat
                                  /\ Cardinality(Challenged(ip)') <= Cardinality(Handlers')
<1>1. queue' \in Seq(Client \cup {Nobody}) /\ armed' \in Nat /\ stops' \in 0 .. MaxStops
    BY DEF Types
<1>2. MaxStops \in Nat
    BY NetworkServerAssumption DEF NetworkServerAssumption
<1>3. \A ip \in Ip : Challenged(ip)' \subseteq Handlers'
    BY DEF Challenged, Handlers, Accepting
<1> QED
    BY <1>1, <1>2, <1>3, FS_Subset, FS_CardinalityType

\* The sum is no more than it was, but for the stops.
LEMMA SumKept ==
    ASSUME NEW a \in Int, NEW b \in Int, NEW q \in Int, NEW r \in Int, NEW h \in Int, NEW m \in Int,
           NEW n \in Int, NEW s \in Int, NEW z \in Int,
           r + b + n <= q + a + m + (z - s), a + q + h + m <= 1 + s
    PROVE  b + r + h + n <= 1 + z
OBVIOUS

LEMMA ControlChains ==
    ASSUME Types, Types', ChainsInv,
           Start \/ Stop \/ Stopped \/ StartAgain \/ Complete \/ GuiQuery \/ World
    PROVE  ChainsInv'
<1>1. Handlers' = Handlers
    BY DEF Start, Stop, Stopped, StartAgain, Complete, GuiQuery, World, Connect, Send, Leave, Reply,
       BanEnds, threadVars, Handlers
<1>2. Len(queue') + armed' + ToStart' <= Len(queue) + armed + ToStart + (stops' - stops)
    <2>1. armed \in Nat /\ Len(queue) \in Nat /\ stops \in Nat
        BY CountTypes DEF ChainsInv
    <2>2. CASE Complete
        <3>1. Len(queue') = Len(queue) + 1
            BY <2>2, TailEffect, AppendEffect DEF Complete, Types
        <3> QED
            BY <2>1, <2>2, <3>1 DEF Complete, serverVars, ToStart
    <2>3. CASE Start \/ Stop \/ Stopped \/ StartAgain
        BY <2>1, <2>3 DEF Start, Stop, Stopped, StartAgain, ToStart, acceptVars
    <2>4. CASE GuiQuery \/ World
        <3>1. UNCHANGED <<armed, queue, server, stops>>
            BY <2>4
               DEF GuiQuery, World, Connect, Send, Leave, Reply, BanEnds, serverVars, acceptVars
        <3> QED
            BY <2>1, <3>1 DEF ToStart
    <2> QED
        BY <2>2, <2>3, <2>4
<1>3. /\ stops' \in Nat /\ armed' \in Nat /\ Len(queue') \in Nat
      /\ ToStart \in Nat /\ ToStart' \in Nat
    BY CountTypesNext DEF ToStart
<1>4. /\ stops \in Nat /\ armed \in Nat /\ Len(queue) \in Nat /\ Cardinality(Handlers) \in Nat
      /\ armed + Len(queue) + Cardinality(Handlers) + ToStart <= 1 + stops
    BY CountTypes DEF ChainsInv
<1>5. armed' + Len(queue') + Cardinality(Handlers) + ToStart' <= 1 + stops'
    <2> DEFINE a == armed
               b == armed'
               q == Len(queue)
               r == Len(queue')
               h == Cardinality(Handlers)
               m == ToStart
               n == ToStart'
               s == stops
               z == stops'
    <2>1. /\ r + b + n <= q + a + m + (z - s)
          /\ a + q + h + m <= 1 + s
        BY <1>2, <1>4
    <2>2. /\ a \in Int /\ b \in Int /\ q \in Int /\ r \in Int /\ h \in Int /\ m \in Int
          /\ n \in Int /\ s \in Int /\ z \in Int
        BY <1>3, <1>4
    <2> HIDE DEF a, b, q, r, h, m, n, s, z
    <2>3. b + r + h + n <= 1 + z
        BY <2>1, <2>2, SumKept
    <2> QED
        BY <2>3 DEF b, r, h, n, z
<1> QED
    BY <1>1, <1>5 DEF ChainsInv

LEMMA ThreadChains ==
    ASSUME Types, Types', ChainsInv, NEW t \in Thread,
           Accept(t) \/ StaleAccept(t) \/ Handshake(t) \/ Execute(t)
           \/ \E c \in Client : Serve(t, c)
    PROVE  ChainsInv'
<1> USE DEF Goto, At, Free
<1>1. \A u \in Thread : u # t => at'[u] = at[u]
    BY DEF Accept, StaleAccept, Handshake, Greet, Check, AwaitReply, AwaitFails, Tell, Rearm, Throw,
       Execute, Query, Answer, Respond, Serve, Read, ReadFails, Written, threadVars, Types
<1>2. /\ armed \in Nat /\ Len(queue) \in Nat /\ stops \in Nat /\ Cardinality(Handlers) \in Nat
      /\ armed' \in Nat /\ Len(queue') \in Nat /\ stops' \in Nat
      /\ ToStart \in {0, 1} /\ ToStart' \in {0, 1} /\ IsFiniteSet(Handlers)
      /\ armed + Len(queue) + Cardinality(Handlers) + ToStart <= 1 + stops
    BY CountTypes, CountTypesNext DEF ChainsInv, ToStart
<1>3. CASE Accept(t) \/ StaleAccept(t)
    <2>1. at[t] = "idle" /\ at'[t] \in {"greet", "rearm"} /\ Len(queue') = Len(queue) - 1
          /\ UNCHANGED <<armed, server, stops>>
        BY <1>3, TailEffect DEF Accept, StaleAccept, Types, serverVars
    <2>2. t \notin Handlers /\ Handlers' = Handlers \cup {t}
        BY <1>1, <2>1 DEF Handlers, Accepting
    <2>3. IsFiniteSet(Handlers') /\ Cardinality(Handlers') = Cardinality(Handlers) + 1
        BY <1>2, <2>2, FS_AddElement
    <2> QED
        BY <1>2, <2>1, <2>3 DEF ChainsInv, ToStart
<1>4. CASE Rearm(t) \/ Throw(t)
    <2>1. t \in Handlers /\ Handlers' = Handlers \ {t}
        <3>1. at[t] \in Accepting /\ at'[t] \in {"idle", "threw"}
            BY <1>4 DEF Rearm, Throw, Accepting, Types
        <3> QED
            BY <1>1, <3>1 DEF Handlers, Accepting
    <2>2. IsFiniteSet(Handlers') /\ Cardinality(Handlers') = Cardinality(Handlers) - 1
        BY <1>2, <2>1, FS_RemoveElement
    <2>3. stops' = stops /\ armed' + Len(queue') + ToStart' <= armed + Len(queue) + ToStart + 1
        <3>1. CASE Rearm(t)
            <4>1. Len(Append(queue, Nobody)) = Len(queue) + 1
                BY DEF Types
            <4> QED
                BY <1>2, <3>1, <4>1 DEF Rearm, serverVars, ToStart
        <3>2. CASE Throw(t)
            BY <1>2, <3>2 DEF Throw, acceptVars
        <3> QED
            BY <1>4, <3>1, <3>2
    <2>4. armed' + Len(queue') + Cardinality(Handlers') + ToStart' <= 1 + stops'
        <3> DEFINE a == armed'
                   q == Len(queue')
                   h == Cardinality(Handlers)
                   k == Cardinality(Handlers')
                   m == ToStart'
                   rest == armed + Len(queue) + ToStart
        <3>1. /\ a \in Int /\ q \in Int /\ h \in Int /\ k \in Int /\ m \in Int /\ rest \in Int
              /\ stops \in Int
            BY <1>2, <2>2
        <3>2. rest + h <= 1 + stops /\ a + q + m <= rest + 1 /\ k = h - 1
            BY <1>2, <2>2, <2>3
        <3> HIDE DEF a, q, h, k, m, rest
        <3>3. a + q + k + m <= 1 + stops
            BY <3>1, <3>2
        <3> QED
            BY <2>3, <3>3 DEF a, q, k, m
    <2> QED
        BY <2>2, <2>4 DEF ChainsInv
<1>5. CASE ~ (Accept(t) \/ StaleAccept(t) \/ Rearm(t) \/ Throw(t))
    <2>1. UNCHANGED <<armed, queue, server, stops>>
        BY <1>5 DEF Handshake, Greet, Check, AwaitReply, AwaitFails, Tell, Execute, Query, Answer,
           Serve, Read, ReadFails, Written, serverVars, acceptVars
    <2>2. at'[t] \in Accepting <=> at[t] \in Accepting
        BY <1>5 DEF Handshake, Greet, Check, AwaitReply, AwaitFails, Tell, Execute, Query, Answer,
           Respond, Serve, Read, ReadFails, Written, Accepting, threadVars, Types
    <2>3. Handlers' = Handlers
        BY <1>1, <2>2 DEF Handlers
    <2> QED
        BY <2>1, <2>3 DEF ChainsInv, ToStart
<1> QED
    BY <1>3, <1>4, <1>5

LEMMA StepChains ==
    ASSUME Types, Types', ChainsInv, [Next]_vars
    PROVE  ChainsInv'
<1>1. CASE UNCHANGED vars
    BY <1>1 DEF vars, serverVars, acceptVars, threadVars, ChainsInv, Handlers, ToStart
<1> QED
    BY <1>1, ControlChains, ThreadChains DEF Next

--------------------------------------------------------------------------------
(* How often an address fails *)

\* A step that opens no challenge, and counts no failure.
LEMMA LimitKept ==
    ASSUME Types, Types', ChainsInv, LimitInv, failCount' = failCount,
           stops' = stops \/ stops' = stops + 1,
           \A t \in Thread : at'[t] = "await" => at[t] = "await" /\ serves'[t] = serves[t]
    PROVE  LimitInv'
<1> SUFFICES ASSUME NEW ip \in Ip
             PROVE  failCount[ip] + Cardinality(Challenged(ip)') <= MaxFailures + stops'
    BY DEF LimitInv
<1>1. Challenged(ip)' \subseteq Challenged(ip)
    BY DEF Challenged
<1>2. /\ stops \in Nat /\ MaxFailures \in Nat /\ failCount[ip] \in Nat
      /\ IsFiniteSet(Challenged(ip)) /\ Cardinality(Challenged(ip)) \in Nat
    BY CountTypes DEF ChainsInv
<1>3. /\ Cardinality(Challenged(ip)') \in Nat
      /\ Cardinality(Challenged(ip)') <= Cardinality(Challenged(ip))
    BY <1>1, <1>2, FS_Subset, FS_CardinalityType
<1> QED
    BY <1>2, <1>3 DEF LimitInv

\* A challenge is sent only below the limit, and of the others that are open
\* there are no more than chains.
LEMMA CheckLimit ==
    ASSUME Types, Types', Places, ChainsInv, ChainsInv', LimitInv, NEW t \in Thread, Check(t),
           at'[t] = "await"
    PROVE  LimitInv'
<1> SUFFICES ASSUME NEW here, here = IpOf[serves[t]]
             PROVE  LimitInv'
    OBVIOUS
<1>1. /\ at[t] = "check" /\ serves' = serves /\ stops' = stops
      /\ here \in Ip
      /\ ~ (failCount[here] >= MaxFailures /\ banned[here])
      /\ failCount' = [failCount EXCEPT ![here] = IF @ >= MaxFailures THEN 0 ELSE @]
      /\ \A u \in Thread : u # t => at'[u] = at[u]
    <2>1. at[t] = "check" /\ serves[t] \in Client
        BY DEF Check, At, Places, ServedOnce, Busy
    <2>2. here \in Ip
        BY <2>1, NetworkServerAssumption DEF NetworkServerAssumption
    <2>3. /\ serves' = serves /\ stops' = stops
          /\ \A u \in Thread : u # t => at'[u] = at[u]
        BY DEF Check, Goto, Types, serverVars
    <2>4. /\ ~ (failCount[here] >= MaxFailures /\ banned[here])
          /\ failCount' = [failCount EXCEPT ![here] = IF @ >= MaxFailures THEN 0 ELSE @]
        BY <2>1 DEF Check, Goto, Types
    <2> QED
        BY <2>1, <2>2, <2>3, <2>4
<1>2. /\ stops \in Nat /\ MaxFailures \in Nat \ {0}
      /\ \A ip \in Ip : failCount[ip] \in Nat
    BY CountTypes DEF ChainsInv
<1>3. failCount'[here] \in Nat /\ failCount'[here] <= MaxFailures - 1
      /\ \A ip \in Ip : ip # here => failCount'[ip] = failCount[ip]
    <2>1. failCount \in [Ip -> Nat]
        BY DEF Types
    <2>2. /\ failCount'[here] = IF failCount[here] >= MaxFailures THEN 0 ELSE failCount[here]
          /\ \A ip \in Ip : ip # here => failCount'[ip] = failCount[ip]
        BY <1>1, <2>1
    <2>3. failCount[here] \in Nat
        BY <1>1, <1>2
    <2> QED
        BY <1>2, <2>2, <2>3
<1>4. \A ip \in Ip : ip # here => Challenged(ip)' = Challenged(ip)
    BY <1>1 DEF Challenged
<1>5. /\ Cardinality(Challenged(here)') \in Nat
      /\ Cardinality(Challenged(here)') <= 1 + stops
    <2>1. IsFiniteSet(Handlers') /\ ToStart' \in Nat
        BY DEF ChainsInv, ToStart
    <2>2. /\ armed' \in Nat /\ Len(queue') \in Nat
          /\ Cardinality(Handlers') \in Nat
          /\ Cardinality(Challenged(here)') \in Nat
          /\ Cardinality(Challenged(here)') <= Cardinality(Handlers')
        BY <1>1, <2>1, CountTypesNext
    <2>3. armed' + Len(queue') + Cardinality(Handlers') + ToStart' <= 1 + stops
        BY <1>1 DEF ChainsInv
    <2> QED
        BY <1>2, <2>2, <2>3, <2>1
<1>6. failCount'[here] + Cardinality(Challenged(here)') <= MaxFailures + stops
    BY <1>2, <1>3, <1>5
<1>7. \A ip \in Ip : failCount'[ip] + Cardinality(Challenged(ip)') <= MaxFailures + stops'
    <2> TAKE ip \in Ip
    <2>1. CASE ip = here
        BY <1>1, <1>6, <2>1
    <2>2. CASE ip # here
        BY <1>1, <1>3, <1>4, <2>2 DEF LimitInv
    <2> QED
        BY <2>1, <2>2
<1> QED
    BY <1>7 DEF LimitInv

\* A reply closes one, and counts at most one failure.
LEMMA ReplyLimit ==
    ASSUME Types, Types', Places, ChainsInv, LimitInv, NEW t \in Thread, AwaitReply(t)
    PROVE  LimitInv'
<1> SUFFICES ASSUME NEW here, here = IpOf[serves[t]]
             PROVE  LimitInv'
    OBVIOUS
<1>1. /\ at[t] = "await" /\ at'[t] = "tell" /\ serves' = serves /\ stops' = stops
      /\ here \in Ip
      /\ \A u \in Thread : u # t => at'[u] = at[u]
    <2>1. at[t] = "await" /\ serves[t] \in Client
        BY DEF AwaitReply, At, Places, ServedOnce, Busy
    <2>2. here \in Ip
        BY <2>1, NetworkServerAssumption DEF NetworkServerAssumption
    <2>3. /\ at'[t] = "tell" /\ serves' = serves /\ stops' = stops
          /\ \A u \in Thread : u # t => at'[u] = at[u]
        BY DEF AwaitReply, Goto, Types, serverVars
    <2> QED
        BY <2>1, <2>2, <2>3
<1>2. \/ failCount' = [failCount EXCEPT ![here] = 0]
      \/ failCount' = [failCount EXCEPT ![here] = failCount[here] + 1]
    BY DEF AwaitReply
<1>3. /\ stops \in Nat /\ MaxFailures \in Nat
      /\ \A ip \in Ip : /\ failCount[ip] \in Nat /\ IsFiniteSet(Challenged(ip))
                        /\ Cardinality(Challenged(ip)) \in Nat
    BY CountTypes DEF ChainsInv
<1>4. /\ \/ failCount'[here] = 0
         \/ failCount'[here] = failCount[here] + 1
      /\ \A ip \in Ip : ip # here => failCount'[ip] = failCount[ip]
    BY <1>1, <1>2 DEF Types
<1>5. /\ \A ip \in Ip : ip # here => Challenged(ip)' = Challenged(ip)
      /\ t \in Challenged(here) /\ Challenged(here)' = Challenged(here) \ {t}
    BY <1>1 DEF Challenged
<1>6. Cardinality(Challenged(here)') = Cardinality(Challenged(here)) - 1
    <2>1. IsFiniteSet(Challenged(here)) /\ t \in Challenged(here)
        BY <1>1, <1>3, <1>5
    <2> QED
        BY <1>5, <2>1, FS_RemoveElement
<1>7. failCount[here] + Cardinality(Challenged(here)) <= MaxFailures + stops
    BY <1>1 DEF LimitInv
<1>8. failCount'[here] + Cardinality(Challenged(here)') <= MaxFailures + stops
    BY <1>1, <1>3, <1>4, <1>6, <1>7
<1>9. \A ip \in Ip : failCount'[ip] + Cardinality(Challenged(ip)') <= MaxFailures + stops'
    <2> TAKE ip \in Ip
    <2>1. CASE ip = here
        BY <1>1, <1>8, <2>1
    <2>2. CASE ip # here
        BY <1>1, <1>4, <1>5, <2>2 DEF LimitInv
    <2> QED
        BY <2>1, <2>2
<1> QED
    BY <1>9 DEF LimitInv

LEMMA StepLimit ==
    ASSUME Types, Types', Places, ChainsInv, ChainsInv', LimitInv, [Next]_vars
    PROVE  LimitInv'
<1> USE DEF Goto, At, Free
<1>1. CASE UNCHANGED vars
    BY <1>1, LimitKept DEF vars, serverVars, threadVars, rateVars
<1>2. CASE Start \/ Stop \/ Stopped \/ StartAgain \/ Complete \/ GuiQuery \/ World
    <2>1. UNCHANGED <<at, serves, failCount>>
        BY <1>2
           DEF Start, Stop, Stopped, StartAgain, Complete, GuiQuery, World, Connect, Send, Leave,
           Reply, BanEnds, threadVars, rateVars
    <2>2. stops' = stops \/ stops' = stops + 1
        BY <1>2
           DEF Start, Stop, Stopped, StartAgain, Complete, GuiQuery, World, Connect, Send, Leave,
           Reply, BanEnds, serverVars
    <2> QED
        BY <2>1, <2>2, LimitKept
<1>3. ASSUME NEW t \in Thread,
             Accept(t) \/ StaleAccept(t) \/ Greet(t) \/ AwaitFails(t) \/ Tell(t)
             \/ Rearm(t) \/ Throw(t) \/ Execute(t) \/ \E c \in Client : Serve(t, c)
      PROVE  LimitInv'
    <2>1. failCount' = failCount /\ stops' = stops
        BY <1>3
           DEF Accept, StaleAccept, Greet, AwaitFails, Tell, Rearm, Throw, Execute, Query, Answer,
           Serve, Read, ReadFails, Written, serverVars, rateVars
    <2>2. \/ at' = at /\ serves' = serves
          \/ /\ at'[t] # "await"
             /\ \A u \in Thread : u # t => at'[u] = at[u] /\ serves'[u] = serves[u]
        <3>1. CASE Accept(t) \/ StaleAccept(t) \/ Greet(t) \/ AwaitFails(t) \/ Tell(t)
                   \/ Rearm(t) \/ Throw(t)
            BY <3>1 DEF Accept, StaleAccept, Greet, AwaitFails, Tell, Rearm, Throw, Types
        <3>2. CASE Execute(t)
            BY <3>2 DEF Execute, Query, Answer, Respond, Types
        <3>3. CASE \E c \in Client : Serve(t, c)
            BY <3>3 DEF Serve, Read, ReadFails, Written, threadVars, Types
        <3> QED
            BY <1>3, <3>1, <3>2, <3>3
    <2> QED
        BY <2>1, <2>2, LimitKept
<1>4. ASSUME NEW t \in Thread, Check(t)
      PROVE  LimitInv'
    <2>1. CASE at'[t] = "await"
        BY <1>4, <2>1, CheckLimit
    <2>2. CASE at'[t] # "await"
        <3>1. /\ failCount' = failCount /\ stops' = stops /\ serves' = serves
              /\ \A u \in Thread : u # t => at'[u] = at[u]
            BY <1>4, <2>2 DEF Check, serverVars, Types
        <3> QED
            BY <2>2, <3>1, LimitKept
    <2> QED
        BY <2>1, <2>2
<1>5. ASSUME NEW t \in Thread, AwaitReply(t)
      PROVE  LimitInv'
    BY <1>5, ReplyLimit
<1> QED
    BY <1>1, <1>2, <1>3, <1>4, <1>5 DEF Next, Handshake

\* The check and the count of a failure are under separate locks, so the limit
\* may be passed, but only by as many failures as the server was stopped: each
\* stop leaves at most one more handshake to run at a time.
THEOREM FailuresBounded == Spec => []AtMostMaxFailures
<1> DEFINE Inv == Types /\ Places /\ ChainsInv /\ LimitInv
<1>1. Init => Inv
    <2> SUFFICES ASSUME Init
                 PROVE  ChainsInv /\ LimitInv
        BY InitTypes
    <2>1. Handlers = {} /\ \A ip \in Ip : Challenged(ip) = {}
        BY DEF Init, Handlers, Accepting, Challenged
    <2>2. MaxFailures \in Nat
        BY NetworkServerAssumption DEF NetworkServerAssumption
    <2>3. /\ armed = 0 /\ Len(queue) = 0 /\ stops = 0 /\ server = "off"
          /\ \A ip \in Ip : failCount[ip] = 0
        BY DEF Init
    <2> QED
        BY <2>1, <2>2, <2>3, FS_EmptySet DEF ChainsInv, LimitInv, ToStart
<1>2. Inv /\ [Next]_vars => Inv'
    BY StepPlaces, StepChains, StepLimit
<1>3. Inv => AtMostMaxFailures
    <2> SUFFICES ASSUME Inv, NEW ip \in Ip
                 PROVE  failCount[ip] <= MaxFailures + stops
        BY DEF AtMostMaxFailures
    <2>1. /\ failCount[ip] \in Nat /\ Cardinality(Challenged(ip)) \in Nat
          /\ stops \in Nat /\ MaxFailures \in Nat
          /\ failCount[ip] + Cardinality(Challenged(ip)) <= MaxFailures + stops
        BY CountTypes DEF ChainsInv, LimitInv
    <2> QED
        BY <2>1
<1> QED
    BY <1>1, <1>2, <1>3, PTL DEF Spec

================================================================================
