------------------------------ MODULE RpsProofs ------------------------------
(***************************************************************************)
(* For any number of players: the server of usr/rps.c knows at any time    *)
(* who plays whom and who waits for what, and both players of a game are   *)
(* told, for each round, the result of their two throws of that round.     *)
(***************************************************************************)
EXTENDS Rps, IpcProofs

Requests ==
  [type : {"RPS_REQ_SIGNUP"}] \cup [type : {"RPS_REQ_PLAY"}, choice : Throws]
    \cup [type : {"RPS_REQ_QUIT"}]
Asks(p, type) == sent[p].type = type

\* The server is at the request of p, or has not come to it yet.
Handling(p) == server = "handle" /\ Runs(Server) /\ sender[Server] = p
Pending(p) == phase[p] = "sending" \/ Handling(p)

\* A reply to p has been decided and not been sent.
Answered(p) == \E i \in DOMAIN outbox : outbox[i].to = p

\* A request is handled while its sender waits for the reply.
ServerInv ==
  /\ phase[Server] \in {"running", "receiving"}
  /\ server # "handle" => Runs(Server)
  /\ server = "handle" /\ Runs(Server) =>
       sender[Server] \in Players /\ phase[sender[Server]] = "awaiting reply"
  /\ server # "reply" => outbox = <<>>

\* Replies go to tasks that wait for them, one to each; only a player that
\* has quit may get two, of which the second is refused.
OutboxInv ==
  /\ \A i \in DOMAIN outbox :
       LET p == outbox[i].to
       IN  /\ phase[p] = "awaiting reply" \/ games[p].state = "QUIT"
           /\ Asks(p, "RPS_REQ_PLAY") => outbox[i].result \in Results
  /\ \A i, j \in DOMAIN outbox :
       outbox[i].to = outbox[j].to => i = j \/ games[outbox[i].to].state = "QUIT"

\* What a player has sent fits what it has done so far.
RequestInv(p) ==
  /\ phase[p] \in {"running", "sending", "awaiting reply"}
  /\ sent[p] \in Requests \cup {NoMessage}
  /\ sent[p] = NoMessage <=> phase[p] = "running"
  /\ player[p] = "new" => sent[p] = NoMessage
  /\ Asks(p, "RPS_REQ_SIGNUP") \/ Asks(p, "RPS_REQ_PLAY") => player[p] = "signed up"
  /\ Asks(p, "RPS_REQ_QUIT") => player[p] = "quit"

\* The entry of a player says how far the player is.
EntryInv(p) ==
  /\ games[p].opponent = Nobody <=>
       player[p] = "new" \/ (Asks(p, "RPS_REQ_SIGNUP") /\ ~ Answered(p))
  /\ games[p].state = "garbage" <=>
       player[p] = "new" \/ (Asks(p, "RPS_REQ_SIGNUP") /\ Pending(p))
  /\ games[p].state = "QUIT" <=> player[p] = "quit" /\ ~ Pending(p)
  /\ games[p].state = "WAITING" <=> LeftWaiting(p) /\ Asks(p, "RPS_REQ_PLAY")
  /\ unmatched = p <=> LeftWaiting(p) /\ Asks(p, "RPS_REQ_SIGNUP")
  /\ games[p].state = "WAITING" => games[p].choice = sent[p].choice

\* A player is one throw ahead of its results exactly while it is in RpsPlay,
\* and never plays on after the news that its opponent has quit.
CountInv(p) ==
  /\ player[p] = "new" \/ Asks(p, "RPS_REQ_SIGNUP") => told[p] = <<>>
  /\ Len(thrown[p]) = Len(told[p]) + (IF Asks(p, "RPS_REQ_PLAY") THEN 1 ELSE 0)
  /\ Asks(p, "RPS_REQ_PLAY") => sent[p].choice = thrown[p][Len(thrown[p])]
  /\ \A k \in 1 .. Len(told[p]) :
       told[p][k] = RPS_QUIT => k = Len(told[p]) /\ ~ Asks(p, "RPS_REQ_PLAY")

OpponentsInv ==
  \A p, q \in Players : games[p].opponent = q =>
    /\ games[q].opponent = p /\ q # p
    /\ games[p].state = "WAITING" => games[q].state # "WAITING"

\* r is what p should be told k-th,
Right(p, k, r) ==
  LET q == games[p].opponent
  IN  IF r = RPS_QUIT THEN games[q].state = "QUIT" /\ k > Len(told[q])
      ELSE k <= Len(thrown[q]) /\ r = RpsGetResult(thrown[p][k], thrown[q][k])

\* and all that it has been told, or will be told by the replies left, is right.
ResultsInv(p) ==
  /\ \A k \in 1 .. Len(told[p]) : Right(p, k, told[p][k])
  /\ \A i \in DOMAIN outbox :
       outbox[i].to = p /\ Asks(p, "RPS_REQ_PLAY") =>
         Right(p, Len(told[p]) + 1, outbox[i].result)

\* The results decided for p, those in the outbox included, are as many as for
\* its opponent until one of the two learns that the other has quit.
Due(p) == Asks(p, "RPS_REQ_PLAY") /\ Answered(p)
Got(p) == Len(told[p]) + (IF Due(p) THEN 1 ELSE 0)
Over(p) ==
  \/ \E k \in 1 .. Len(told[p]) : told[p][k] = RPS_QUIT
  \/ Asks(p, "RPS_REQ_PLAY") /\ \E i \in DOMAIN outbox : outbox[i] = Tell(p, RPS_QUIT)
RoundsInv ==
  \A p, q \in Players :
    games[p].opponent = q /\ ~ Over(p) /\ ~ Over(q) => Got(p) = Got(q)

PlayerInv(p) == RequestInv(p) /\ EntryInv(p) /\ CountInv(p)

RpsInv ==
  /\ IpcInv /\ TypeOK /\ ServerInv /\ OutboxInv
  /\ \A p \in Players : PlayerInv(p)
  /\ OpponentsInv
  /\ (\A p \in Players : ResultsInv(p)) /\ RoundsInv

-----------------------------------------------------------------------------
(* What the invariant says of one player and of the replies that are left. *)

LEMMA ServerIs == Server \in Tasks /\ Server \notin Players /\ Players \subseteq Tasks
                  /\ Tasks = Players \cup {Server} /\ Nobody \notin Players
BY RpsAssumption

\* What TypeOK says of one player.
LEMMA TypesOf ==
  ASSUME TypeOK, NEW p \in Players
  PROVE  /\ games[p].opponent \in Players \cup {Nobody} /\ games[p].choice \in Throws
         /\ games[p].state \in {"garbage", "ACTIVE", "WAITING", "QUIT"}
         /\ player[p] \in {"new", "signed up", "quit"}
         /\ thrown[p] \in Seq(Throws) /\ Len(thrown[p]) \in Nat
         /\ told[p] \in Seq(Results) /\ Len(told[p]) \in Nat
         /\ \A k \in 1 .. Len(thrown[p]) : thrown[p][k] \in Throws
         /\ \A k \in 1 .. Len(told[p]) : told[p][k] \in Results
<1>1. thrown[p] \in Seq(Throws) /\ told[p] \in Seq(Results)
  BY DEF TypeOK
<1>2. /\ Len(thrown[p]) \in Nat /\ Len(told[p]) \in Nat
      /\ \A k \in 1 .. Len(thrown[p]) : thrown[p][k] \in Throws
      /\ \A k \in 1 .. Len(told[p]) : told[p][k] \in Results
  BY <1>1, LenProperties, ElementOfSeq
<1> QED BY <1>1, <1>2 DEF TypeOK

\* Every reply left is one of Tell, to a player.
LEMMA OutboxTyped ==
  ASSUME TypeOK
  PROVE  /\ outbox \in Seq([to : Players, result : Results \cup {NoResult}])
         /\ Len(outbox) \in Nat /\ DOMAIN outbox = 1 .. Len(outbox)
         /\ \A i \in DOMAIN outbox : /\ outbox[i].to \in Players
                                     /\ outbox[i].result \in Results \cup {NoResult}
                                     /\ outbox[i] = Tell(outbox[i].to, outbox[i].result)
<1> DEFINE T == [to : Players, result : Results \cup {NoResult}]
<1>1. outbox \in Seq(T)
  BY DEF TypeOK
<1> HIDE DEF T
<1>2. /\ Len(outbox) \in Nat /\ DOMAIN outbox = 1 .. Len(outbox)
      /\ \A i \in 1 .. Len(outbox) : outbox[i] \in T
  BY <1>1, LenProperties, ElementOfSeq
<1> QED BY <1>1, <1>2 DEF T, Tell

\* A request is what it says it is.
LEMMA RequestIs ==
  ASSUME NEW m \in Requests \cup {NoMessage}
  PROVE  /\ m.type = "RPS_REQ_PLAY" => m.choice \in Throws
         /\ m = NoMessage <=> m.type \notin {"RPS_REQ_SIGNUP", "RPS_REQ_PLAY", "RPS_REQ_QUIT"}
BY DEF Requests, NoMessage

\* Who runs has no request, no reply due unless it has quit, and is not waiting.
LEMMA RunsFree ==
  ASSUME RpsInv, NEW p \in Players, phase[p] = "running"
  PROVE  /\ sent[p] = NoMessage /\ ~ Asks(p, "RPS_REQ_SIGNUP")
         /\ ~ Asks(p, "RPS_REQ_PLAY") /\ ~ Asks(p, "RPS_REQ_QUIT")
         /\ ~ Pending(p) /\ ~ LeftWaiting(p)
         /\ unmatched # p /\ games[p].state # "WAITING"
         /\ player[p] # "quit" => ~ Answered(p)
<1>1. sent[p] = NoMessage /\ EntryInv(p) /\ ServerInv /\ OutboxInv
  BY DEF RpsInv, PlayerInv, RequestInv
<1>2. ~ Asks(p, "RPS_REQ_SIGNUP") /\ ~ Asks(p, "RPS_REQ_PLAY") /\ ~ Asks(p, "RPS_REQ_QUIT")
  BY <1>1 DEF Asks, NoMessage
<1>3. ~ Pending(p) /\ ~ LeftWaiting(p)
  BY <1>1 DEF Pending, Handling, ServerInv, LeftWaiting
<1>4. unmatched # p /\ games[p].state # "WAITING"
  BY <1>1, <1>3 DEF EntryInv
<1>5. player[p] # "quit" => ~ Answered(p)
  BY <1>1 DEF OutboxInv, Answered, EntryInv
<1> QED BY <1>1, <1>2, <1>3, <1>4, <1>5

Entries == [opponent : Players \cup {Nobody}, choice : Throws,
            state : {"garbage", "ACTIVE", "WAITING", "QUIT"}]

LEMMA NoReplies == ASSUME outbox = <<>> PROVE DOMAIN outbox = {}
OBVIOUS

-----------------------------------------------------------------------------
(* A step that does not concern a player keeps what holds of it.           *)

LEMMA PlayerKept ==
  ASSUME NEW p \in Players, PlayerInv(p),
         phase'[p] \in {"running", "sending", "awaiting reply"},
         phase'[p] = "running" <=> phase[p] = "running",
         sent'[p] = sent[p], player'[p] = player[p], games'[p] = games[p],
         told'[p] = told[p], thrown'[p] = thrown[p],
         Pending(p)' <=> Pending(p), Answered(p)' <=> Answered(p),
         LeftWaiting(p)' <=> LeftWaiting(p), unmatched' = p <=> unmatched = p
  PROVE  PlayerInv(p)'
<1>1. RequestInv(p)'
  BY DEF PlayerInv, RequestInv, Asks
<1>2. EntryInv(p)'
  BY DEF PlayerInv, EntryInv, Asks
<1>3. CountInv(p)'
  BY DEF PlayerInv, CountInv, Asks
<1> QED BY <1>1, <1>2, <1>3 DEF PlayerInv

\* What was right stays right: throws and the news of a quit are for ever.
LEMMA RightKept ==
  ASSUME NEW p \in Players, NEW q \in Players, games[p].opponent = q,
         games'[p].opponent = q,
         games[q].state = "QUIT" => games'[q].state = "QUIT" /\ told'[q] = told[q],
         Len(thrown[q]) \in Nat, Len(thrown'[q]) \in Nat, Len(thrown'[q]) >= Len(thrown[q]),
         \A j \in 1 .. Len(thrown[q]) : thrown'[q][j] = thrown[q][j],
         NEW k \in Nat \ {0}, thrown'[p][k] = thrown[p][k], NEW r, Right(p, k, r)
  PROVE  Right(p, k, r)'
<1>1. CASE r = RPS_QUIT
  BY <1>1 DEF Right
<1>2. CASE r # RPS_QUIT
  <2>1. k <= Len(thrown[q]) /\ r = RpsGetResult(thrown[p][k], thrown[q][k])
    BY <1>2 DEF Right
  <2>2. k <= Len(thrown'[q]) /\ thrown'[q][k] = thrown[q][k]
    BY <2>1
  <2> QED BY <1>2, <2>1, <2>2 DEF Right
<1> QED BY <1>1, <1>2

\* In no step is a throw taken back, or a player told anything after it quit.
Forward ==
  \A q \in Players :
    /\ games[q].state = "QUIT" => games'[q].state = "QUIT" /\ told'[q] = told[q]
    /\ Len(thrown'[q]) \in Nat /\ Len(thrown'[q]) >= Len(thrown[q])
    /\ \A j \in 1 .. Len(thrown[q]) : thrown'[q][j] = thrown[q][j]

\* If nothing new is decided for a player its results stay right.
LEMMA ResultsKept ==
  ASSUME RpsInv, NEW p \in Players, Forward, told'[p] = told[p],
         games[p].opponent \in Players => games'[p].opponent = games[p].opponent,
         \A i \in DOMAIN outbox' :
           outbox'[i].to = p /\ Asks(p, "RPS_REQ_PLAY")' =>
             Asks(p, "RPS_REQ_PLAY") /\ \E j \in DOMAIN outbox : outbox[j] = outbox'[i]
  PROVE  ResultsInv(p)'
<1>1. TypeOK /\ EntryInv(p) /\ CountInv(p) /\ ResultsInv(p)
  BY DEF RpsInv, PlayerInv
<1>2. CASE games[p].opponent \notin Players
  <2>1. player[p] = "new" \/ Asks(p, "RPS_REQ_SIGNUP")
    BY <1>1, <1>2, TypesOf DEF EntryInv
  <2>2. told[p] = <<>> /\ ~ Asks(p, "RPS_REQ_PLAY")
    <3>1. Asks(p, "RPS_REQ_PLAY") => player[p] = "signed up"
      BY DEF RpsInv, PlayerInv, RequestInv
    <3> QED BY <2>1, <3>1, <1>1 DEF CountInv, Asks
  <2>3. Len(told'[p]) = 0
    BY <2>2
  <2> QED BY <2>2, <2>3 DEF ResultsInv
<1>3. CASE games[p].opponent \in Players
  <2>1. PICK q : q \in Players /\ games[p].opponent = q /\ games'[p].opponent = q
    BY <1>3
  <2>2. /\ Len(told[p]) \in Nat /\ Len(thrown[p]) \in Nat /\ Len(thrown[q]) \in Nat
        /\ Len(told[p]) <= Len(thrown[p])
        /\ Asks(p, "RPS_REQ_PLAY") => Len(thrown[p]) = Len(told[p]) + 1
    <3>1. /\ Len(told[p]) \in Nat /\ Len(thrown[p]) \in Nat /\ Len(thrown[q]) \in Nat
          /\ Len(thrown[p]) = Len(told[p]) + (IF Asks(p, "RPS_REQ_PLAY") THEN 1 ELSE 0)
      BY <2>1, <1>1, TypesOf DEF CountInv
    <3>2. CASE Asks(p, "RPS_REQ_PLAY")
      BY <3>1, <3>2
    <3>3. CASE ~ Asks(p, "RPS_REQ_PLAY")
      BY <3>1, <3>3
    <3> QED BY <3>2, <3>3
  <2>3. ASSUME NEW k \in 1 .. Len(thrown[p]), NEW r, Right(p, k, r) PROVE Right(p, k, r)'
    <3>1. /\ games[q].state = "QUIT" => games'[q].state = "QUIT" /\ told'[q] = told[q]
          /\ Len(thrown'[q]) \in Nat /\ Len(thrown'[q]) >= Len(thrown[q])
          /\ \A j \in 1 .. Len(thrown[q]) : thrown'[q][j] = thrown[q][j]
          /\ thrown'[p][k] = thrown[p][k]
      BY <2>1 DEF Forward
    <3>2. k \in Nat \ {0}
      OBVIOUS
    <3> QED BY <2>1, <2>2, <2>3, <3>1, <3>2, RightKept, Zenon
  <2>4. ASSUME NEW k \in 1 .. Len(told'[p]) PROVE Right(p, k, told[p][k])'
    <3>1. k \in 1 .. Len(told[p])
      OBVIOUS
    <3>2. k \in 1 .. Len(thrown[p])
      BY <3>1, <2>2
    <3>3. PICK r : r = told[p][k]
      OBVIOUS
    <3>4. Right(p, k, r)
      BY <3>1, <3>3, <1>1 DEF ResultsInv
    <3>5. Right(p, k, r)'
      BY <3>2, <3>4, <2>3
    <3>6. r = told'[p][k]
      BY <3>3
    <3> QED BY <3>5, <3>6 DEF Right
  <2>5. ASSUME NEW i \in DOMAIN outbox', outbox'[i].to = p, Asks(p, "RPS_REQ_PLAY")'
        PROVE  Right(p, Len(told[p]) + 1, outbox[i].result)'
    <3>1. PICK j \in DOMAIN outbox : outbox[j] = outbox'[i]
      BY <2>5
    <3>2. Right(p, Len(told[p]) + 1, outbox[j].result) /\ Asks(p, "RPS_REQ_PLAY")
      BY <2>5, <3>1, <1>1 DEF ResultsInv
    <3>3. Len(told[p]) + 1 \in 1 .. Len(thrown[p])
      BY <2>2, <3>2
    <3>4. PICK n, r : n = Len(told[p]) + 1 /\ r = outbox[j].result
      OBVIOUS
    <3>5. Right(p, n, r)'
      BY <3>2, <3>3, <3>4, <2>3
    <3>6. n = Len(told'[p]) + 1 /\ r = outbox'[i].result
      BY <3>1, <3>4
    <3> QED BY <3>5, <3>6 DEF Right
  <2> QED BY <2>4, <2>5 DEF ResultsInv
<1> QED BY <1>2, <1>3

\* When no replies are decided, all counts depend on told and sent only.
LEMMA RoundsKept ==
  ASSUME RpsInv,
         \A p \in Players : /\ games'[p].opponent = games[p].opponent
                            /\ told'[p] = told[p]
                            /\ Due(p)' <=> Due(p)
                            /\ Over(p)' <=> Over(p)
  PROVE  RoundsInv'
<1>1. \A p \in Players : Got(p)' = Got(p)
  BY DEF Got
<1> QED BY <1>1 DEF RpsInv, RoundsInv

\* As long as games[] is not written.
LEMMA Opponents ==
  ASSUME RpsInv, games' = games
  PROVE  OpponentsInv'
BY DEF RpsInv, OpponentsInv

-----------------------------------------------------------------------------
(* The players.                                                            *)

\* A request is sent: what the server knows is as before.
LEMMA RequestSent ==
  ASSUME RpsInv, NEW p \in Players, NEW m \in Requests, Send(p, Server, m),
         player[p] # "quit", UNCHANGED <<games, unmatched, server, outbox, told>>
  PROVE  /\ IpcInv' /\ ServerInv'
         /\ phase[p] = "running" /\ phase'[p] \in {"sending", "awaiting reply"}
         /\ sent'[p] = m /\ ~ Answered(p) /\ ~ Answered(p)'
         /\ Pending(p)' /\ ~ LeftWaiting(p)'
         /\ \A q \in Players \ {p} :
              /\ sent'[q] = sent[q] /\ phase'[q] = phase[q]
              /\ Answered(q)' <=> Answered(q)
              /\ Pending(q)' <=> Pending(q)
              /\ LeftWaiting(q)' <=> LeftWaiting(q)
<1>1. IpcInv /\ ServerInv
  BY DEF RpsInv
<1>2. p \in Tasks /\ Server \in Tasks /\ p # Server
  BY ServerIs
<1>3. /\ IpcInv' /\ phase[p] = "running"
      /\ sent'[p] = m /\ \A t \in Tasks \ {p} : sent'[t] = sent[t]
      /\ \/ /\ phase[Server] = "receiving" /\ p # Server
            /\ phase'[p] = "awaiting reply" /\ phase'[Server] = "running"
            /\ \A t \in Tasks \ {Server, p} : phase'[t] = phase[t]
            /\ sender'[Server] = p /\ \A t \in Tasks \ {Server} : sender'[t] = sender[t]
            /\ inbox' = inbox
         \/ /\ phase[Server] \notin {"receiving", "none"} /\ phase'[p] = "sending"
            /\ \A t \in Tasks \ {p} : phase'[t] = phase[t]
            /\ sender' = sender
            /\ inbox' = [inbox EXCEPT ![Server] = Append(inbox[Server], p)]
  <2> DEFINE r == Server
  <2>0. r \in Tasks
    BY <1>2
  <2> HIDE DEF r
  <2>1. Send(p, r, m)
    BY DEF r
  <2>2.  /\ IpcInv'
         /\ phase[p] = "running"
         /\ sent'[p] = m /\ \A t \in Tasks \ {p} : sent'[t] = sent[t]
         /\ \/ /\ phase[r] = "receiving" /\ p # r
               /\ phase'[p] = "awaiting reply" /\ phase'[r] = "running"
               /\ \A t \in Tasks \ {r, p} : phase'[t] = phase[t]
               /\ sender'[r] = p /\ \A t \in Tasks \ {r} : sender'[t] = sender[t]
               /\ inbox' = inbox
            \/ /\ phase[r] \notin {"receiving", "none"} /\ phase'[p] = "sending"
               /\ \A t \in Tasks \ {p} : phase'[t] = phase[t]
               /\ sender' = sender
               /\ inbox' = [inbox EXCEPT ![r] = Append(inbox[r], p)]
    BY <1>1, <1>2, <2>0, <2>1, SendDoes
  <2> QED BY <2>2, Zenon DEF r
<1>4. ~ Answered(p)
  BY <1>3, RunsFree
<1>5. \A q \in Players : Answered(q)' <=> Answered(q)
  BY DEF Answered
<1>6. \A q \in Players \ {p} : sent'[q] = sent[q] /\ phase'[q] = phase[q]
  BY <1>3, ServerIs
<1>7. CASE phase[Server] = "receiving"
  <2>1. /\ phase'[p] = "awaiting reply" /\ phase'[Server] = "running" /\ sender'[Server] = p
        /\ server = "handle"
    BY <1>1, <1>3, <1>7 DEF ServerInv, Runs
  <2>2. ServerInv'
    BY <1>1, <2>1, <1>7 DEF ServerInv, Runs
  <2>3. Handling(p)' /\ \A q \in Players \ {p} : ~ Handling(q) /\ ~ Handling(q)'
    BY <1>7, <2>1 DEF Handling, Runs
  <2>4. Pending(p)' /\ ~ LeftWaiting(p)'
    BY <2>3 DEF Pending, LeftWaiting, Handling
  <2>5. \A q \in Players \ {p} : Pending(q)' <=> Pending(q)
    BY <2>3, <1>6 DEF Pending
  <2>6. \A q \in Players \ {p} : LeftWaiting(q)' <=> LeftWaiting(q)
    BY <2>3, <1>6 DEF LeftWaiting, Handling
  <2> QED BY <1>3, <1>4, <1>5, <1>6, <2>1, <2>2, <2>4, <2>5, <2>6
<1>8. CASE phase[Server] # "receiving"
  <2>1. /\ phase'[p] = "sending" /\ sender' = sender /\ phase'[Server] = phase[Server]
    BY <1>2, <1>3, <1>8
  <2>2. ServerInv'
    <3>1. server = "handle" /\ Runs(Server) => sender[Server] # p
      BY <1>1, <1>3 DEF ServerInv
    <3>2. sender[Server] \in Players \ {p} => phase'[sender[Server]] = phase[sender[Server]]
      BY <1>6
    <3> QED BY <1>1, <2>1, <3>1, <3>2 DEF ServerInv, Runs
  <2>3. \A q \in Players : Handling(q)' <=> Handling(q)
    BY <2>1 DEF Handling, Runs
  <2>4. Pending(p)' /\ ~ LeftWaiting(p)'
    BY <2>1 DEF Pending, LeftWaiting
  <2>5. \A q \in Players \ {p} : Pending(q)' <=> Pending(q)
    BY <2>3, <1>6 DEF Pending
  <2>6. \A q \in Players \ {p} : LeftWaiting(q)' <=> LeftWaiting(q)
    BY <2>3, <1>6 DEF LeftWaiting, Handling
  <2> QED BY <1>3, <1>4, <1>5, <1>6, <2>1, <2>2, <2>4, <2>5, <2>6
<1> QED BY <1>7, <1>8


\* What is left to show of a request is that its player's own state fits it.
LEMMA RequestKeeps ==
  ASSUME RpsInv, NEW p \in Players, NEW m \in Requests, Send(p, Server, m),
         player[p] # "quit", UNCHANGED <<games, unmatched, server, outbox, told>>,
         \A q \in Players \ {p} : player'[q] = player[q] /\ thrown'[q] = thrown[q],
         Len(thrown'[p]) >= Len(thrown[p]),
         \A j \in 1 .. Len(thrown[p]) : thrown'[p][j] = thrown[p][j],
         TypeOK', PlayerInv(p)'
  PROVE  RpsInv'
<1>1. /\ IpcInv' /\ ServerInv'
      /\ phase[p] = "running" /\ phase'[p] \in {"sending", "awaiting reply"}
      /\ sent'[p] = m /\ ~ Answered(p) /\ ~ Answered(p)'
      /\ \A q \in Players \ {p} :
           /\ sent'[q] = sent[q] /\ phase'[q] = phase[q]
           /\ Answered(q)' <=> Answered(q)
           /\ Pending(q)' <=> Pending(q)
           /\ LeftWaiting(q)' <=> LeftWaiting(q)
  BY RequestSent
<1>2. TypeOK /\ OutboxInv
  BY DEF RpsInv
<1>3. ASSUME NEW q \in Players PROVE PlayerInv(q)'
  <2>1. CASE q = p
    BY <2>1
  <2>2. CASE q # p
    <3>1. PlayerInv(q) /\ phase[q] \in {"running", "sending", "awaiting reply"}
      BY DEF RpsInv, PlayerInv, RequestInv
    <3> QED BY <2>2, <3>1, <1>1, PlayerKept
  <2> QED BY <2>1, <2>2
<1>4. OutboxInv'
  <2>1. \A i \in DOMAIN outbox : outbox[i].to \in Players \ {p}
    BY <1>1, <1>2, OutboxTyped DEF Answered
  <2>2. \A q \in Players \ {p} :
          phase'[q] = phase[q] /\ (Asks(q, "RPS_REQ_PLAY")' <=> Asks(q, "RPS_REQ_PLAY"))
    BY <1>1 DEF Asks
  <2> QED BY <1>2, <2>1, <2>2 DEF OutboxInv
<1>5. Forward
  <2>1. ASSUME NEW q \in Players PROVE Len(thrown[q]) \in Nat /\ Len(thrown'[q]) \in Nat
    <3>1. thrown[q] \in Seq(Throws) /\ thrown'[q] \in Seq(Throws)
      BY <1>2 DEF TypeOK
    <3> QED BY <3>1, LenProperties
  <2>2. \A q \in Players \ {p} : thrown'[q] = thrown[q]
    OBVIOUS
  <2> QED BY <2>1, <2>2 DEF Forward
<1>6. ASSUME NEW q \in Players PROVE ResultsInv(q)'
  <2>1. ASSUME NEW i \in DOMAIN outbox', outbox'[i].to = q, Asks(q, "RPS_REQ_PLAY")'
        PROVE  Asks(q, "RPS_REQ_PLAY") /\ \E j \in DOMAIN outbox : outbox[j] = outbox'[i]
    <3>1. i \in DOMAIN outbox /\ outbox[i] = outbox'[i]
      OBVIOUS
    <3>2. q # p
      BY <2>1, <3>1, <1>1 DEF Answered
    <3>3. Asks(q, "RPS_REQ_PLAY")
      BY <2>1, <3>2, <1>1 DEF Asks
    <3> QED BY <3>1, <3>3
  <2> QED BY <2>1, <1>5, ResultsKept
<1>7. \A q \in Players : (Due(q)' <=> Due(q)) /\ (Over(q)' <=> Over(q))
  <2>1. ASSUME NEW q \in Players PROVE (Due(q)' <=> Due(q)) /\ (Over(q)' <=> Over(q))
    <3>1. CASE q = p
      <4>1. \A i \in DOMAIN outbox : outbox[i] # Tell(p, RPS_QUIT)
        <5>1. Tell(p, RPS_QUIT).to = p
          BY DEF Tell
        <5> QED BY <5>1, <1>1 DEF Answered
      <4> QED BY <4>1, <3>1, <1>1 DEF Due, Over
    <3>2. CASE q # p
      BY <3>2, <1>1 DEF Due, Over, Asks
    <3> QED BY <3>1, <3>2
  <2> QED BY <2>1
<1>8. RoundsInv'
  BY <1>7, RoundsKept
<1>9. OpponentsInv'
  BY Opponents
<1> QED BY <1>1, <1>3, <1>4, <1>6, <1>8, <1>9 DEF RpsInv

\* RpsSignup: nothing is known of the player yet, and it is left waiting.
LEMMA SignupKeeps ==
  ASSUME RpsInv, NEW p \in Players, RpsSignup(p)
  PROVE  RpsInv'
<1> DEFINE m == [type |-> "RPS_REQ_SIGNUP"]
<1>1. /\ player[p] = "new" /\ Send(p, Server, m) /\ player' = [player EXCEPT ![p] = "signed up"]
      /\ UNCHANGED <<games, unmatched, server, outbox, thrown, told>>
  BY DEF RpsSignup, serverVars
<1>2. m \in Requests /\ m.type = "RPS_REQ_SIGNUP"
  BY DEF Requests
<1> HIDE DEF m
<1>3. TypeOK /\ PlayerInv(p)
  BY DEF RpsInv
<1>4. /\ phase[p] = "running" /\ phase'[p] \in {"sending", "awaiting reply"}
      /\ sent'[p] = m /\ ~ Answered(p)' /\ Pending(p)' /\ ~ LeftWaiting(p)'
  BY <1>1, <1>2, RequestSent
<1>5. /\ player'[p] = "signed up" /\ \A q \in Players \ {p} : player'[q] = player[q]
      /\ TypeOK'
  BY <1>1, <1>3 DEF TypeOK
<1>6. /\ Asks(p, "RPS_REQ_SIGNUP")' /\ ~ Asks(p, "RPS_REQ_PLAY")' /\ ~ Asks(p, "RPS_REQ_QUIT")'
      /\ sent'[p] # NoMessage
  BY <1>2, <1>4, RequestIs DEF Asks
<1>7. /\ ~ Asks(p, "RPS_REQ_PLAY") /\ unmatched # p /\ games[p].state # "WAITING"
  BY <1>4, RunsFree
<1>8. RequestInv(p)'
  BY <1>2, <1>4, <1>5, <1>6 DEF RequestInv
<1>9. EntryInv(p)'
  BY <1>1, <1>3, <1>4, <1>5, <1>6, <1>7 DEF PlayerInv, EntryInv
<1>10. CountInv(p)'
  <2>1. told[p] = <<>> /\ Len(thrown[p]) = Len(told[p]) + 0
    BY <1>1, <1>3, <1>7 DEF PlayerInv, CountInv
  <2>2. Len(told[p]) = 0
    BY <2>1
  <2>3. told'[p] = <<>> /\ Len(thrown'[p]) = Len(told'[p]) + 0
    BY <2>1, <1>1
  <2> QED BY <2>2, <2>3, <1>6 DEF CountInv
<1>11. Len(thrown'[p]) >= Len(thrown[p])
  <2>1. Len(thrown[p]) \in Nat
    BY <1>3, TypesOf
  <2>2. PICK n : n = Len(thrown[p])
    OBVIOUS
  <2>3. n \in Nat /\ n = Len(thrown'[p])
    BY <2>1, <2>2, <1>1
  <2> QED BY <2>2, <2>3
<1> QED BY <1>1, <1>2, <1>5, <1>8, <1>9, <1>10, <1>11, RequestKeeps DEF PlayerInv

\* RpsPlay: the player is one throw ahead until the reply.
LEMMA PlayKeeps ==
  ASSUME RpsInv, NEW p \in Players, RpsPlay(p)
  PROVE  RpsInv'
<1>1. PICK choice : /\ choice \in Throws
                    /\ Send(p, Server, [type |-> "RPS_REQ_PLAY", choice |-> choice])
                    /\ thrown' = [thrown EXCEPT ![p] = Append(@, choice)]
  BY DEF RpsPlay
<1>2. /\ player[p] = "signed up" /\ GoesOn(p)
      /\ UNCHANGED <<games, unmatched, server, outbox, player, told>>
  BY DEF RpsPlay, serverVars
<1> DEFINE m == [type |-> "RPS_REQ_PLAY", choice |-> choice]
<1>3. m \in Requests /\ m.type = "RPS_REQ_PLAY" /\ m.choice = choice /\ Send(p, Server, m)
  BY <1>1 DEF Requests
<1> HIDE DEF m
<1>4. TypeOK /\ PlayerInv(p)
  BY DEF RpsInv
<1>5. /\ phase[p] = "running" /\ phase'[p] \in {"sending", "awaiting reply"}
      /\ sent'[p] = m /\ ~ Answered(p) /\ ~ Answered(p)' /\ Pending(p)' /\ ~ LeftWaiting(p)'
  BY <1>2, <1>3, RequestSent
<1>6. PICK w, n : /\ w = thrown[p] /\ n = Len(w) /\ w \in Seq(Throws) /\ n \in Nat
  BY <1>4, TypesOf
<1>7. PICK x : x = Append(w, choice)
  OBVIOUS
<1>8. /\ x \in Seq(Throws) /\ Len(x) = n + 1 /\ x[n + 1] = choice
      /\ \A j \in 1 .. n : x[j] = w[j]
  BY <1>1, <1>6, <1>7, AppendProperties
<1>9. /\ thrown'[p] = x /\ \A q \in Players \ {p} : thrown'[q] = thrown[q]
      /\ thrown' \in [Players -> Seq(Throws)]
  BY <1>1, <1>4, <1>6, <1>7, <1>8 DEF TypeOK
<1>10. TypeOK'
  BY <1>2, <1>4, <1>9 DEF TypeOK
<1>11. /\ Asks(p, "RPS_REQ_PLAY")' /\ ~ Asks(p, "RPS_REQ_SIGNUP")' /\ ~ Asks(p, "RPS_REQ_QUIT")'
       /\ sent'[p] # NoMessage /\ sent'[p].choice = choice
  BY <1>3, <1>5, RequestIs DEF Asks
<1>12. /\ ~ Asks(p, "RPS_REQ_PLAY") /\ ~ Asks(p, "RPS_REQ_SIGNUP")
       /\ unmatched # p /\ games[p].state # "WAITING" /\ ~ Pending(p)
  BY <1>5, RunsFree
<1>13. RequestInv(p)'
  BY <1>2, <1>3, <1>5, <1>11 DEF RequestInv
<1>14. EntryInv(p)'
  BY <1>2, <1>4, <1>5, <1>11, <1>12 DEF PlayerInv, EntryInv
<1>15. CountInv(p)'
  <2>1. PICK t, l : t = told[p] /\ l = Len(t)
    OBVIOUS
  <2>0. l \in Nat
    BY <2>1, <1>4, TypesOf
  <2>a. Len(w) = Len(t) + 0 /\ \A k \in 1 .. l : t[k] = RPS_QUIT => k = l
    BY <2>1, <1>4, <1>6, <1>12 DEF PlayerInv, CountInv
  <2>b. n = l
    BY <2>0, <2>1, <2>a, <1>6
  <2>2. ASSUME NEW k \in 1 .. l, t[k] = RPS_QUIT PROVE FALSE
    <3>1. k = l /\ l # 0
      BY <2>0, <2>a, <2>2
    <3>2. t # <<>>
      BY <3>1, <2>1
    <3>3. t[l] >= 0
      BY <3>2, <2>1, <1>2 DEF GoesOn, Last
    <3> QED BY <3>1, <3>3, <2>2 DEF RPS_QUIT
  <2>3. told'[p] = t /\ Len(thrown'[p]) = l + 1 /\ thrown'[p][l + 1] = choice
    BY <2>1, <2>b, <1>2, <1>8, <1>9
  <2>4. (player[p] = "new" \/ Asks(p, "RPS_REQ_SIGNUP"))' => told'[p] = <<>>
    BY <1>2, <1>11
  <2>5. sent'[p].choice = thrown'[p][Len(thrown'[p])]
    BY <2>3, <1>11
  <2> QED BY <2>0, <2>1, <2>2, <2>3, <2>4, <2>5, <1>11 DEF CountInv
<1>16. /\ Len(thrown'[p]) >= Len(thrown[p])
       /\ \A j \in 1 .. Len(thrown[p]) : thrown'[p][j] = thrown[p][j]
  BY <1>6, <1>8, <1>9
<1> QED BY <1>2, <1>3, <1>9, <1>10, <1>13, <1>14, <1>15, <1>16, RequestKeeps DEF PlayerInv

\* RpsQuit: the entry says QUIT only once the server has handled it.
LEMMA QuitKeeps ==
  ASSUME RpsInv, NEW p \in Players, RpsQuit(p)
  PROVE  RpsInv'
<1> DEFINE m == [type |-> "RPS_REQ_QUIT"]
<1>1. /\ player[p] = "signed up" /\ Send(p, Server, m) /\ player' = [player EXCEPT ![p] = "quit"]
      /\ UNCHANGED <<games, unmatched, server, outbox, thrown, told>>
  BY DEF RpsQuit, serverVars
<1>2. m \in Requests /\ m.type = "RPS_REQ_QUIT"
  BY DEF Requests
<1> HIDE DEF m
<1>3. TypeOK /\ PlayerInv(p)
  BY DEF RpsInv
<1>4. /\ phase[p] = "running" /\ phase'[p] \in {"sending", "awaiting reply"}
      /\ sent'[p] = m /\ ~ Answered(p)' /\ Pending(p)' /\ ~ LeftWaiting(p)'
  BY <1>1, <1>2, RequestSent
<1>5. /\ player'[p] = "quit" /\ \A q \in Players \ {p} : player'[q] = player[q]
      /\ TypeOK'
  BY <1>1, <1>3 DEF TypeOK
<1>6. /\ Asks(p, "RPS_REQ_QUIT")' /\ ~ Asks(p, "RPS_REQ_PLAY")' /\ ~ Asks(p, "RPS_REQ_SIGNUP")'
      /\ sent'[p] # NoMessage
  BY <1>2, <1>4, RequestIs DEF Asks
<1>7. /\ ~ Asks(p, "RPS_REQ_PLAY") /\ ~ Asks(p, "RPS_REQ_SIGNUP")
      /\ unmatched # p /\ games[p].state # "WAITING"
  BY <1>4, RunsFree
<1>8. RequestInv(p)'
  BY <1>2, <1>4, <1>5, <1>6 DEF RequestInv
<1>9. EntryInv(p)'
  BY <1>1, <1>3, <1>4, <1>5, <1>6, <1>7 DEF PlayerInv, EntryInv
<1>10. CountInv(p)'
  BY <1>1, <1>3, <1>5, <1>6, <1>7 DEF PlayerInv, CountInv
<1>11. Len(thrown'[p]) >= Len(thrown[p])
  <2>1. Len(thrown[p]) \in Nat
    BY <1>3, TypesOf
  <2>2. PICK n : n = Len(thrown[p])
    OBVIOUS
  <2>3. n \in Nat /\ n = Len(thrown'[p])
    BY <2>1, <2>2, <1>1
  <2> QED BY <2>2, <2>3
<1> QED BY <1>1, <1>2, <1>5, <1>8, <1>9, <1>10, <1>11, RequestKeeps DEF PlayerInv


-----------------------------------------------------------------------------
(* The server, where it decides nothing.                                   *)

LEMMA NotLess == \A n \in Nat : n >= n
OBVIOUS

\* A step that writes no entry and no reply, and returns to nobody.
LEMMA NothingDecided ==
  ASSUME RpsInv, UNCHANGED <<games, unmatched, outbox, player, thrown, told, sent>>,
         IpcInv', TypeOK', ServerInv',
         \A q \in Players :
           /\ phase'[q] \in {"running", "sending", "awaiting reply"}
           /\ phase'[q] = "running" <=> phase[q] = "running"
           /\ phase[q] = "awaiting reply" => phase'[q] = "awaiting reply"
           /\ Pending(q)' <=> Pending(q)
           /\ LeftWaiting(q)' <=> LeftWaiting(q)
  PROVE  RpsInv'
<1>1. \A q \in Players : Answered(q)' <=> Answered(q)
  BY DEF Answered
<1>2. ASSUME NEW q \in Players PROVE PlayerInv(q)'
  <2>1. PlayerInv(q)
    BY DEF RpsInv
  <2> QED BY <2>1, <1>1, PlayerKept
<1>3. OutboxInv'
  <2>1. TypeOK /\ OutboxInv
    BY DEF RpsInv
  <2>2. \A i \in DOMAIN outbox : outbox[i].to \in Players
    BY <2>1, OutboxTyped
  <2> QED BY <2>1, <2>2 DEF OutboxInv, Asks
<1>4. Forward
  <2>1. ASSUME NEW q \in Players PROVE Len(thrown[q]) \in Nat
    BY TypesOf DEF RpsInv
  <2>2. thrown' = thrown /\ told' = told /\ games' = games
    OBVIOUS
  <2>3. ASSUME NEW q \in Players PROVE Len(thrown'[q]) \in Nat /\ Len(thrown'[q]) >= Len(thrown[q])
    BY <2>1, <2>2, NotLess, Zenon
  <2> QED BY <2>2, <2>3 DEF Forward
<1>5. ASSUME NEW q \in Players PROVE ResultsInv(q)'
  <2>1. \A i \in DOMAIN outbox' : outbox'[i].to = q /\ Asks(q, "RPS_REQ_PLAY")' =>
          Asks(q, "RPS_REQ_PLAY") /\ \E j \in DOMAIN outbox : outbox[j] = outbox'[i]
    BY DEF Asks
  <2> QED BY <2>1, <1>4, ResultsKept
<1>6. RoundsInv'
  <2>1. \A q \in Players : (Due(q)' <=> Due(q)) /\ (Over(q)' <=> Over(q))
    BY DEF Due, Over, Asks, Answered
  <2> QED BY <2>1, RoundsKept
<1> QED BY <1>2, <1>3, <1>5, <1>6, Opponents DEF RpsInv

\* Receive: a request that was queued is now being handled, or the server waits.
LEMMA ReceiveKeeps ==
  ASSUME RpsInv, ReceiveRequest
  PROVE  RpsInv'
<1> DEFINE r == Server
<1>1. /\ IpcInv /\ r \in Tasks /\ Receive(r) /\ TypeOK /\ ServerInv
      /\ server = "receive" /\ server' = "handle"
      /\ UNCHANGED <<games, unmatched, outbox, player, thrown, told>>
  BY ServerIs DEF RpsInv, ReceiveRequest, serverVars
<1> HIDE DEF r
<1>2.  /\ IpcInv'
         /\ phase[r] = "running" /\ sent' = sent
         /\ \/ /\ phase'[r] = "receiving" /\ \A t \in Tasks \ {r} : phase'[t] = phase[t]
               /\ sender' = sender /\ inbox' = inbox /\ inbox[r] = <<>>
            \/ \E s \in Tasks :
                 /\ phase[s] = "sending" /\ s # r /\ inbox[r] # <<>> /\ s = Head(inbox[r])
                 /\ phase'[s] = "awaiting reply"
                 /\ \A t \in Tasks \ {s} : phase'[t] = phase[t]
                 /\ sender'[r] = s /\ \A t \in Tasks \ {r} : sender'[t] = sender[t]
                 /\ inbox' = [inbox EXCEPT ![r] = Tail(inbox[r])]
  BY <1>1, ReceiveDoes, Zenon
<1>3. TypeOK'
  BY <1>1 DEF TypeOK
<1>4. \A q \in Players : q \in Tasks /\ q # r /\ Handling(q) = FALSE
  BY <1>1, ServerIs DEF Handling, r
<1>5. \A q \in Players : phase[q] \in {"running", "sending", "awaiting reply"}
  BY DEF RpsInv, PlayerInv, RequestInv
<1>6. CASE phase'[r] = "receiving" /\ \A t \in Tasks \ {r} : phase'[t] = phase[t]
  <2>1. \A q \in Players : phase'[q] = phase[q]
    BY <1>4, <1>6
  <2>2. \A q \in Players : ~ Handling(q)'
    BY <1>6 DEF Handling, Runs, r
  <2>3. ServerInv'
    BY <1>1, <1>6 DEF ServerInv, Runs, r
  <2>4. \A q \in Players : (Pending(q)' <=> Pending(q)) /\ (LeftWaiting(q)' <=> LeftWaiting(q))
    <3>1. \A q \in Players : Pending(q)' <=> Pending(q)
      BY <2>1, <2>2, <1>4 DEF Pending
    <3>2. \A q \in Players : LeftWaiting(q)' <=> LeftWaiting(q)
      BY <2>1, <2>2, <1>1, <1>4 DEF LeftWaiting, Handling
    <3> QED BY <3>1, <3>2
  <2> QED BY <2>1, <2>3, <2>4, <1>1, <1>2, <1>3, <1>5, NothingDecided
<1>7. ASSUME NEW s \in Tasks, phase[s] = "sending", s # r, phase'[s] = "awaiting reply",
             \A t \in Tasks \ {s} : phase'[t] = phase[t], sender'[r] = s
      PROVE  RpsInv'
  <2>1. s \in Players
    BY <1>7, ServerIs DEF r
  <2>2. phase'[r] = "running"
    BY <1>1, <1>2, <1>7
  <2>3. \A q \in Players \ {s} : phase'[q] = phase[q]
    BY <1>4, <1>7
  <2>4. Handling(s)' /\ \A q \in Players \ {s} : ~ Handling(q)'
    BY <1>1, <1>7, <2>2 DEF Handling, Runs, r
  <2>5. ServerInv'
    BY <1>1, <1>7, <2>1, <2>2 DEF ServerInv, Runs, r
  <2>6. \A q \in Players : (Pending(q)' <=> Pending(q)) /\ (LeftWaiting(q)' <=> LeftWaiting(q))
    <3>1. Pending(s) /\ Pending(s)' /\ ~ LeftWaiting(s) /\ ~ LeftWaiting(s)'
      BY <1>7, <2>4 DEF Pending, LeftWaiting, Handling
    <3>2. \A q \in Players \ {s} : Pending(q)' <=> Pending(q)
      BY <2>3, <2>4, <1>4 DEF Pending
    <3>3. \A q \in Players \ {s} : LeftWaiting(q)' <=> LeftWaiting(q)
      BY <2>3, <2>4, <1>1, <1>4 DEF LeftWaiting, Handling
    <3> QED BY <3>1, <3>2, <3>3
  <2>7. \A q \in Players :
           /\ phase'[q] \in {"running", "sending", "awaiting reply"}
           /\ phase'[q] = "running" <=> phase[q] = "running"
           /\ phase[q] = "awaiting reply" => phase'[q] = "awaiting reply"
    BY <2>3, <1>5, <1>7
  <2> QED BY <2>5, <2>6, <2>7, <1>1, <1>2, <1>3, NothingDecided
<1> QED BY <1>2, <1>6, <1>7

LEMMA AllRepliedKeeps ==
  ASSUME RpsInv, AllReplied
  PROVE  RpsInv'
<1>1. /\ server = "reply" /\ outbox = <<>> /\ server' = "receive" /\ UNCHANGED ipcVars
      /\ UNCHANGED <<games, unmatched, outbox, player, thrown, told>>
  BY DEF AllReplied, serverVars
<1>2. phase' = phase /\ sender' = sender /\ sent' = sent /\ IpcInv'
  BY <1>1, IpcUnchanged DEF RpsInv, ipcVars
<1>3. TypeOK' /\ ServerInv'
  BY <1>1, <1>2 DEF RpsInv, TypeOK, ServerInv, Runs
<1>4. \A q \in Players : phase[q] \in {"running", "sending", "awaiting reply"}
  BY DEF RpsInv, PlayerInv, RequestInv
<1>5. \A q \in Players : (Pending(q)' <=> Pending(q)) /\ (LeftWaiting(q)' <=> LeftWaiting(q))
  BY <1>1, <1>2 DEF Pending, Handling, LeftWaiting
<1> QED BY <1>1, <1>2, <1>3, <1>4, <1>5, NothingDecided

LEMMA StutterKeeps ==
  ASSUME RpsInv, UNCHANGED vars
  PROVE  RpsInv'
<1>1. /\ UNCHANGED ipcVars /\ server' = server
      /\ UNCHANGED <<games, unmatched, outbox, player, thrown, told>>
  BY DEF vars, serverVars
<1>2. phase' = phase /\ sender' = sender /\ sent' = sent /\ IpcInv'
  BY <1>1, IpcUnchanged DEF RpsInv, ipcVars
<1>3. TypeOK' /\ ServerInv'
  BY <1>1, <1>2 DEF RpsInv, TypeOK, ServerInv, Runs
<1>4. \A q \in Players : phase[q] \in {"running", "sending", "awaiting reply"}
  BY DEF RpsInv, PlayerInv, RequestInv
<1>5. \A q \in Players : (Pending(q)' <=> Pending(q)) /\ (LeftWaiting(q)' <=> LeftWaiting(q))
  BY <1>1, <1>2 DEF Pending, Handling, LeftWaiting, Runs
<1> QED BY <1>1, <1>2, <1>3, <1>4, <1>5, NothingDecided

LEMMA InitHolds == Init => RpsInv
<1> SUFFICES ASSUME Init PROVE RpsInv
  OBVIOUS
<1>1. /\ IpcInit(Tasks)
      /\ games = [p \in Players |-> [opponent |-> Nobody, state |-> "garbage", choice |-> RPS_ROCK]]
      /\ unmatched = Nobody /\ server = "receive" /\ outbox = <<>>
      /\ player = [p \in Players |-> "new"]
      /\ thrown = [p \in Players |-> <<>>] /\ told = [p \in Players |-> <<>>]
  BY DEF Init
<1>2. IpcInv
  BY <1>1, IpcInitially
<1>3. \A t \in Tasks : phase[t] = "running" /\ sent[t] = NoMessage
  BY <1>1 DEF IpcInit
<1>4. DOMAIN outbox = {}
  BY <1>1
<1>5. TypeOK
  <2>1. <<>> \in Seq(Throws) /\ <<>> \in Seq(Results)
        /\ <<>> \in Seq([to : Players, result : Results \cup {NoResult}])
    OBVIOUS
  <2>2. RPS_ROCK \in Throws
    BY DEF Throws
  <2>3. games \in [Players -> [opponent : Players \cup {Nobody}, choice : Throws,
                               state : {"garbage", "ACTIVE", "WAITING", "QUIT"}]]
    BY <1>1, <2>2
  <2> QED BY <1>1, <2>1, <2>3 DEF TypeOK
<1>6. ServerInv /\ OutboxInv
  BY <1>1, <1>3, <1>4, ServerIs DEF ServerInv, OutboxInv, Runs
<1>7. ASSUME NEW p \in Players PROVE PlayerInv(p)
  <2>1. /\ phase[p] = "running" /\ sent[p] = NoMessage /\ NoMessage.type = "none"
        /\ games[p].opponent = Nobody /\ games[p].state = "garbage"
        /\ player[p] = "new" /\ thrown[p] = <<>> /\ told[p] = <<>> /\ p # Nobody
    BY <1>1, <1>3, ServerIs DEF NoMessage
  <2>2. /\ ~ Asks(p, "RPS_REQ_SIGNUP") /\ ~ Asks(p, "RPS_REQ_PLAY")
        /\ ~ Asks(p, "RPS_REQ_QUIT") /\ ~ LeftWaiting(p)
    BY <2>1 DEF Asks, LeftWaiting
  <2>3. RequestInv(p)
    BY <2>1, <2>2 DEF RequestInv
  <2>4. EntryInv(p)
    BY <2>1, <2>2, <1>1 DEF EntryInv
  <2>5. Len(told[p]) = 0 /\ Len(thrown[p]) = 0
    BY <2>1
  <2>6. CountInv(p)
    BY <2>1, <2>2, <2>5 DEF CountInv
  <2> QED BY <2>3, <2>4, <2>6 DEF PlayerInv
<1>8. \A p \in Players : games[p].opponent \notin Players
  BY <1>1, ServerIs
<1>9. OpponentsInv /\ RoundsInv
  BY <1>8 DEF OpponentsInv, RoundsInv
<1>10. ASSUME NEW p \in Players PROVE ResultsInv(p)
  <2>1. Len(told[p]) = 0
    BY <1>1
  <2> QED BY <2>1, <1>4 DEF ResultsInv
<1> QED BY <1>2, <1>5, <1>6, <1>7, <1>9, <1>10 DEF RpsInv


-----------------------------------------------------------------------------
(* The server, where it handles a request.                                 *)

\* What the three handlers have in common: the sender waits, and nothing was due.
LEMMA HandlerDoes ==
  ASSUME RpsInv, NEW type, Handles(type), NEW p, p = sender[Server]
  PROVE  /\ p \in Players /\ phase[p] = "awaiting reply" /\ Asks(p, type)
         /\ Received(Server) = sent[p]
         /\ outbox = <<>> /\ IpcInv' /\ ServerInv' /\ server' = "reply"
         /\ UNCHANGED <<phase, sent, sender, player, thrown, told>>
         /\ Pending(p) /\ ~ Pending(p)' /\ ~ LeftWaiting(p)
         /\ LeftWaiting(p)' <=> ~ Answered(p)'
         /\ \A q \in Players \ {p} :
              /\ Pending(q)' <=> Pending(q)
              /\ LeftWaiting(q)' <=> LeftWaiting(q) /\ ~ Answered(q)'
         /\ \A q \in Players : ~ Answered(q) /\ (LeftWaiting(q) => ~ Pending(q))
<1>1. /\ server = "handle" /\ Runs(Server) /\ server' = "reply"
      /\ Received(Server).type = type /\ UNCHANGED ipcVars
      /\ UNCHANGED <<player, thrown, told>>
  BY DEF Handles
<1>2. phase' = phase /\ sent' = sent /\ sender' = sender /\ IpcInv'
  BY <1>1, IpcUnchanged DEF RpsInv, ipcVars
<1>3. /\ p \in Players /\ phase[p] = "awaiting reply" /\ Asks(p, type) /\ outbox = <<>>
      /\ Received(Server) = sent[p]
  BY <1>1 DEF RpsInv, ServerInv, Received, Asks
<1>4. ServerInv'
  BY <1>1, <1>2 DEF RpsInv, ServerInv, Runs
<1>5. /\ Handling(p) /\ \A q \in Players \ {p} : ~ Handling(q)
      /\ \A q \in Players : ~ Handling(q)'
  BY <1>1 DEF Handling
<1>6. \A q \in Players : ~ Answered(q)
  <2>1. DOMAIN outbox = {}
    BY <1>3, NoReplies
  <2> QED BY <2>1 DEF Answered
<1>7. \A q \in Players :
        /\ Pending(q) <=> phase[q] = "sending" \/ Handling(q)
        /\ Pending(q)' <=> phase[q] = "sending"
        /\ LeftWaiting(q) <=> phase[q] = "awaiting reply" /\ ~ Handling(q)
        /\ LeftWaiting(q)' <=> phase[q] = "awaiting reply" /\ ~ Answered(q)'
  <2>1. \A q \in Players : /\ Pending(q) <=> phase[q] = "sending" \/ Handling(q)
                           /\ Pending(q)' <=> phase[q] = "sending"
    BY <1>2, <1>5 DEF Pending
  <2>2. \A q \in Players : LeftWaiting(q) <=> phase[q] = "awaiting reply" /\ ~ Handling(q)
    BY <1>6 DEF LeftWaiting, Handling, Answered
  <2>3. \A q \in Players : LeftWaiting(q)' <=> phase[q] = "awaiting reply" /\ ~ Answered(q)'
    BY <1>2, <1>5 DEF LeftWaiting, Handling, Answered
  <2> QED BY <2>1, <2>2, <2>3
<1> QED BY <1>1, <1>2, <1>3, <1>4, <1>5, <1>6, <1>7

\* Of a player whose entry is not written nothing changes.
LEMMA HandlerKeeps ==
  ASSUME RpsInv, NEW type, Handles(type), NEW p, p = sender[Server]
  PROVE  /\ \A q \in Players \ {p} :
              /\ games'[q] = games[q] /\ ~ Answered(q)'
              /\ unmatched' = q <=> unmatched = q
              => PlayerInv(q)'
         /\ RequestInv(p)' /\ CountInv(p)'
         /\ \A q \in Players : RequestInv(q)' /\ CountInv(q)'
         /\ (\A q \in Players : games[q].state = "QUIT" => games'[q].state = "QUIT") => Forward
         /\ \A q \in Players : /\ Asks(q, "RPS_REQ_PLAY")' <=> Asks(q, "RPS_REQ_PLAY")
                               /\ Asks(q, "RPS_REQ_SIGNUP")' <=> Asks(q, "RPS_REQ_SIGNUP")
                               /\ ~ Due(q)
                               /\ Over(q) <=> \E k \in 1 .. Len(told[q]) : told[q][k] = RPS_QUIT
<1>1. /\ p \in Players /\ outbox = <<>>
      /\ UNCHANGED <<phase, sent, sender, player, thrown, told>>
      /\ \A q \in Players \ {p} :
              /\ Pending(q)' <=> Pending(q)
              /\ LeftWaiting(q)' <=> LeftWaiting(q) /\ ~ Answered(q)'
      /\ \A q \in Players : ~ Answered(q)
  BY HandlerDoes
<1>2. \A q \in Players : PlayerInv(q)
  BY DEF RpsInv
<1>3. ASSUME NEW q \in Players \ {p}, games'[q] = games[q], ~ Answered(q)',
             unmatched' = q <=> unmatched = q
      PROVE  PlayerInv(q)'
  <2>1. phase'[q] \in {"running", "sending", "awaiting reply"}
    BY <1>1, <1>2 DEF PlayerInv, RequestInv
  <2>2. LeftWaiting(q)' <=> LeftWaiting(q)
    BY <1>1, <1>3
  <2>3. Pending(q)' <=> Pending(q)
    BY <1>1
  <2>4. /\ phase'[q] = phase[q] /\ sent'[q] = sent[q] /\ player'[q] = player[q]
        /\ told'[q] = told[q] /\ thrown'[q] = thrown[q]
    BY <1>1
  <2> QED BY <2>1, <2>2, <2>3, <2>4, <1>1, <1>2, <1>3, PlayerKept
<1>4. ASSUME NEW q \in Players PROVE RequestInv(q)' /\ CountInv(q)'
  BY <1>1, <1>2 DEF PlayerInv, RequestInv, CountInv, Asks
<1>5. ASSUME \A q \in Players : games[q].state = "QUIT" => games'[q].state = "QUIT" PROVE Forward
  <2>1. thrown' = thrown /\ told' = told
    BY <1>1
  <2>2. ASSUME NEW q \in Players PROVE Len(thrown[q]) \in Nat
    BY TypesOf DEF RpsInv
  <2>3. ASSUME NEW q \in Players PROVE Len(thrown'[q]) \in Nat /\ Len(thrown'[q]) >= Len(thrown[q])
    BY <2>1, <2>2, NotLess, Zenon
  <2> QED BY <1>5, <2>1, <2>3 DEF Forward
<1>6. \A q \in Players : /\ Asks(q, "RPS_REQ_PLAY")' <=> Asks(q, "RPS_REQ_PLAY")
                         /\ Asks(q, "RPS_REQ_SIGNUP")' <=> Asks(q, "RPS_REQ_SIGNUP")
  BY <1>1 DEF Asks
<1>7. \A q \in Players : /\ ~ Due(q)
                         /\ Over(q) <=> \E k \in 1 .. Len(told[q]) : told[q][k] = RPS_QUIT
  <2>1. DOMAIN outbox = {}
    BY <1>1
  <2> QED BY <2>1, <1>1 DEF Due, Over
<1>8. RequestInv(p)' /\ CountInv(p)'
  BY <1>1, <1>4
<1> QED BY <1>3, <1>4, <1>5, <1>6, <1>7, <1>8

\* Without an opponent to be had the player is left waiting, unmatched.
LEMMA FirstSignupKeeps ==
  ASSUME RpsInv, HandleSignup, unmatched = Nobody
  PROVE  RpsInv'
<1>1. PICK p : p = sender[Server]
  OBVIOUS
<1>2. /\ Handles("RPS_REQ_SIGNUP") /\ unmatched' = p /\ outbox' = <<>>
      /\ games' = [games EXCEPT ![p].state = "ACTIVE"]
  BY <1>1 DEF HandleSignup
<1>3. /\ p \in Players /\ phase[p] = "awaiting reply" /\ Asks(p, "RPS_REQ_SIGNUP")
      /\ outbox = <<>> /\ IpcInv' /\ ServerInv' /\ server' = "reply"
      /\ UNCHANGED <<player, thrown, told>>
      /\ Pending(p) /\ ~ Pending(p)' /\ ~ LeftWaiting(p)
      /\ LeftWaiting(p)' <=> ~ Answered(p)'
      /\ \A q \in Players : ~ Answered(q)
  BY <1>1, <1>2, HandlerDoes
<1>4. TypeOK /\ EntryInv(p) /\ p # Nobody /\ Nobody \notin Players
  BY <1>3, ServerIs DEF RpsInv, PlayerInv
<1>5. /\ player[p] = "signed up" /\ ~ Asks(p, "RPS_REQ_PLAY")
  BY <1>3 DEF RpsInv, PlayerInv, RequestInv, Asks
<1>6. DOMAIN outbox' = {} /\ \A q \in Players : ~ Answered(q)'
  BY <1>2 DEF Answered
<1>7. /\ games' \in [Players -> [opponent : Players \cup {Nobody}, choice : Throws,
                                 state : {"garbage", "ACTIVE", "WAITING", "QUIT"}]]
      /\ games'[p].state = "ACTIVE" /\ games'[p].opponent = games[p].opponent
      /\ \A q \in Players \ {p} : games'[q] = games[q]
  <2>1. games \in [Players -> Entries]
    BY <1>4 DEF TypeOK, Entries
  <2>2. /\ games' \in [Players -> Entries]
        /\ games'[p].state = "ACTIVE" /\ games'[p].opponent = games[p].opponent
        /\ \A q \in Players \ {p} : games'[q] = games[q]
    <3>1. p \in Players /\ games' = [games EXCEPT ![p].state = "ACTIVE"]
      BY <1>2, <1>3
    <3>2. games' \in [Players -> Entries] /\ games'[p].state = "ACTIVE"
      BY <2>1, <3>1 DEF Entries
    <3>3. games'[p].opponent = games[p].opponent
      BY <2>1, <3>1 DEF Entries
    <3>4. \A q \in Players \ {p} : games'[q] = games[q]
      BY <2>1, <3>1 DEF Entries
    <3> QED BY <3>2, <3>3, <3>4
  <2> QED BY <2>2 DEF Entries
<1>8. TypeOK'
  <2>1. <<>> \in Seq([to : Players, result : Results \cup {NoResult}])
    OBVIOUS
  <2> QED BY <2>1, <1>2, <1>3, <1>4, <1>7 DEF TypeOK
<1>9. games[p].state = "garbage" /\ games[p].opponent = Nobody
  BY <1>3, <1>4 DEF EntryInv
<1>10. ASSUME NEW q \in Players PROVE PlayerInv(q)'
  <2>1. CASE q = p
    <3>1. EntryInv(p)'
      BY <1>2, <1>3, <1>4, <1>5, <1>6, <1>7, <1>9, HandlerKeeps, <1>1 DEF EntryInv
    <3> QED BY <2>1, <3>1, <1>1, <1>2, HandlerKeeps DEF PlayerInv
  <2>2. CASE q # p
    <3>1. unmatched' = q <=> unmatched = q
      BY <2>2, <1>2, <1>4
    <3> QED BY <2>2, <3>1, <1>1, <1>2, <1>6, <1>7, HandlerKeeps
  <2> QED BY <2>1, <2>2
<1>11. OutboxInv'
  BY <1>6 DEF OutboxInv
<1>12. OpponentsInv'
  <2>1. \A q \in Players : /\ games'[q].opponent = games[q].opponent
                           /\ games'[q].state = "WAITING" <=> games[q].state = "WAITING"
    BY <1>7, <1>9
  <2> QED BY <2>1 DEF RpsInv, OpponentsInv
<1>13. Forward
  BY <1>1, <1>2, <1>7, <1>9, HandlerKeeps
<1>14. ASSUME NEW q \in Players PROVE ResultsInv(q)'
  <2>1. told'[q] = told[q] /\ games'[q].opponent = games[q].opponent
    BY <1>3, <1>7
  <2> QED BY <2>1, <1>6, <1>13, ResultsKept
<1>15. RoundsInv'
  <2>1. \A q \in Players :
          ~ Due(q)' /\ (Over(q)' <=> \E k \in 1 .. Len(told[q]) : told[q][k] = RPS_QUIT)
    BY <1>3, <1>6 DEF Due, Over
  <2>2. \A q \in Players : games'[q].opponent = games[q].opponent /\ told'[q] = told[q]
    BY <1>3, <1>7
  <2> QED BY <2>1, <2>2, <1>1, <1>2, HandlerKeeps, RoundsKept
<1> QED BY <1>3, <1>8, <1>10, <1>11, <1>12, <1>14, <1>15 DEF RpsInv


\* The two entries after MatchUp.
LEMMA MatchWritten ==
  ASSUME games \in [Players -> Entries], NEW p \in Players, NEW u \in Players, u # p,
         games' = [games EXCEPT ![p].state = "ACTIVE", ![p].opponent = u, ![u].opponent = p]
  PROVE  /\ games' \in [Players -> Entries]
         /\ games'[p].state = "ACTIVE" /\ games'[p].opponent = u
         /\ games'[u].state = games[u].state /\ games'[u].opponent = p
         /\ \A q \in Players \ {p, u} : games'[q] = games[q]
<1>1. games' \in [Players -> Entries]
  BY DEF Entries
<1>2. /\ games'[p].state = "ACTIVE" /\ games'[p].opponent = u
      /\ games'[u].state = games[u].state /\ games'[u].opponent = p
  BY DEF Entries
<1>3. \A q \in Players \ {p, u} : games'[q] = games[q]
  BY DEF Entries
<1> QED BY <1>1, <1>2, <1>3

\* The second of two is matched with the first; both are told, and start even.
LEMMA SecondSignupKeeps ==
  ASSUME RpsInv, HandleSignup, unmatched # Nobody
  PROVE  RpsInv'
<1>1. PICK p, u : p = sender[Server] /\ u = unmatched
  OBVIOUS
<1>2. /\ Handles("RPS_REQ_SIGNUP") /\ unmatched' = Nobody
      /\ outbox' = <<Tell(u, NoResult), Tell(p, NoResult)>>
      /\ games' = [games EXCEPT ![p].state = "ACTIVE", ![p].opponent = u, ![u].opponent = p]
  BY <1>1 DEF HandleSignup, MatchUp
<1>3. /\ p \in Players /\ phase[p] = "awaiting reply" /\ Asks(p, "RPS_REQ_SIGNUP")
      /\ IpcInv' /\ ServerInv' /\ server' = "reply" /\ phase' = phase
      /\ UNCHANGED <<player, thrown, told>>
      /\ Pending(p) /\ ~ Pending(p)' /\ ~ LeftWaiting(p)
      /\ LeftWaiting(p)' <=> ~ Answered(p)'
      /\ \A q \in Players : ~ Answered(q) /\ (LeftWaiting(q) => ~ Pending(q))
      /\ \A q \in Players \ {p} :
              /\ Pending(q)' <=> Pending(q)
              /\ LeftWaiting(q)' <=> LeftWaiting(q) /\ ~ Answered(q)'
  BY <1>1, <1>2, HandlerDoes
<1>4. /\ TypeOK /\ EntryInv(p) /\ Nobody \notin Players /\ u \in Players
      /\ \A q \in Players : RequestInv(q) /\ EntryInv(q) /\ CountInv(q)
  BY <1>1, <1>3, ServerIs DEF RpsInv, PlayerInv, TypeOK
<1>5. /\ LeftWaiting(u) /\ Asks(u, "RPS_REQ_SIGNUP") /\ u # p
      /\ ~ Pending(u) /\ phase[u] = "awaiting reply"
  BY <1>1, <1>3, <1>4 DEF EntryInv, LeftWaiting
<1>6. /\ player[p] = "signed up" /\ ~ Asks(p, "RPS_REQ_PLAY")
      /\ player[u] = "signed up" /\ ~ Asks(u, "RPS_REQ_PLAY")
      /\ told[p] = <<>> /\ told[u] = <<>>
  BY <1>3, <1>4, <1>5 DEF RequestInv, CountInv, Asks
<1>7. /\ games[p].opponent = Nobody /\ games[p].state = "garbage"
      /\ games[u].opponent = Nobody /\ games[u].state = "ACTIVE"
  BY <1>3, <1>4, <1>5, <1>6, TypesOf DEF EntryInv
<1>8. /\ games' \in [Players -> Entries]
      /\ games'[p].state = "ACTIVE" /\ games'[p].opponent = u
      /\ games'[u].state = "ACTIVE" /\ games'[u].opponent = p
      /\ \A q \in Players \ {p, u} : games'[q] = games[q]
  <2>1. games \in [Players -> Entries]
    BY <1>4 DEF TypeOK, Entries
  <2>2. /\ p \in Players /\ u \in Players /\ u # p /\ games[u].state = "ACTIVE"
        /\ games' = [games EXCEPT ![p].state = "ACTIVE", ![p].opponent = u, ![u].opponent = p]
    BY <1>2, <1>3, <1>4, <1>5, <1>7
  <2>3. /\ games' \in [Players -> Entries]
        /\ games'[p].state = "ACTIVE" /\ games'[p].opponent = u
        /\ games'[u].state = games[u].state /\ games'[u].opponent = p
        /\ \A q \in Players \ {p, u} : games'[q] = games[q]
    BY <2>1, <2>2, MatchWritten
  <2> QED BY <2>2, <2>3
<1>9. PICK x, y : x = Tell(u, NoResult) /\ y = Tell(p, NoResult)
  OBVIOUS
<1>10. /\ x.to = u /\ y.to = p /\ x.result = NoResult /\ y.result = NoResult
       /\ x \in [to : Players, result : Results \cup {NoResult}]
       /\ y \in [to : Players, result : Results \cup {NoResult}]
  BY <1>3, <1>4, <1>9 DEF Tell
<1>11. /\ DOMAIN outbox' = {1, 2} /\ outbox'[1] = x /\ outbox'[2] = y
       /\ outbox' \in Seq([to : Players, result : Results \cup {NoResult}])
  <2>1. outbox' = <<x, y>>
    BY <1>2, <1>9
  <2> QED BY <2>1, <1>10
<1>12. \A q \in Players : Answered(q)' <=> q \in {u, p}
  BY <1>10, <1>11 DEF Answered
<1>13. TypeOK'
  BY <1>2, <1>3, <1>4, <1>8, <1>11 DEF TypeOK, Entries
<1>14. ASSUME NEW q \in Players PROVE PlayerInv(q)'
  <2>1. CASE q = p
    <3>1. EntryInv(p)'
      BY <1>1, <1>2, <1>3, <1>4, <1>6, <1>8, <1>12, HandlerKeeps DEF EntryInv
    <3> QED BY <2>1, <3>1, <1>1, <1>2, HandlerKeeps DEF PlayerInv
  <2>2. CASE q = u
    <3>1. EntryInv(u)'
      <4>1. /\ player'[u] = "signed up" /\ ~ Pending(u)' /\ ~ LeftWaiting(u)' /\ Answered(u)'
            /\ games'[u].opponent = p /\ p # Nobody /\ games'[u].state = "ACTIVE"
            /\ unmatched' # u
        BY <1>2, <1>3, <1>4, <1>5, <1>6, <1>8, <1>12
      <4> QED BY <4>1 DEF EntryInv
    <3> QED BY <2>2, <3>1, <1>1, <1>2, HandlerKeeps DEF PlayerInv
  <2>3. CASE q \notin {p, u}
    <3>1. unmatched' = q <=> unmatched = q
      BY <2>3, <1>1, <1>2, <1>4
    <3> QED BY <2>3, <3>1, <1>1, <1>2, <1>8, <1>12, HandlerKeeps
  <2> QED BY <2>1, <2>2, <2>3
<1>15. OutboxInv'
  <2>1. ~ Asks(p, "RPS_REQ_PLAY")' /\ ~ Asks(u, "RPS_REQ_PLAY")'
    BY <1>1, <1>2, <1>3, <1>4, <1>6, HandlerKeeps
  <2> QED BY <2>1, <1>3, <1>5, <1>10, <1>11 DEF OutboxInv
<1>16. OpponentsInv'
  <2>1. \A q \in Players : games[q].opponent \notin {p, u}
    <3>1. ASSUME NEW q \in Players, NEW r \in Players, games[q].opponent = r
          PROVE  games[r].opponent = q
      BY <3>1 DEF RpsInv, OpponentsInv
    <3>2. games[p].opponent = Nobody /\ games[u].opponent = Nobody
      BY <1>7
    <3>3. ASSUME NEW q \in Players, games[q].opponent \in {p, u} PROVE FALSE
      <4>1. games[games[q].opponent].opponent = q
        BY <3>1, <3>3, <1>3, <1>4
      <4> QED BY <4>1, <3>2, <3>3, <1>4
    <3> QED BY <3>3
  <2>2. ASSUME NEW q \in Players, NEW r \in Players, games'[q].opponent = r
        PROVE  /\ games'[r].opponent = q /\ r # q
               /\ games'[q].state = "WAITING" => games'[r].state # "WAITING"
    <3>1. CASE q \in {p, u}
      BY <3>1, <2>2, <1>5, <1>8
    <3>2. CASE q \notin {p, u}
      <4>1. games[q].opponent = r /\ r \notin {p, u} /\ games'[q] = games[q] /\ games'[r] = games[r]
        BY <3>2, <2>1, <2>2, <1>8
      <4> QED BY <4>1 DEF RpsInv, OpponentsInv
    <3> QED BY <3>1, <3>2
  <2> QED BY <2>2 DEF OpponentsInv
<1>17. Forward
  <2>1. \A q \in Players : games[q].state = "QUIT" => games'[q].state = "QUIT"
    BY <1>7, <1>8
  <2> QED BY <2>1, <1>1, <1>2, HandlerKeeps
<1>18. ASSUME NEW q \in Players PROVE ResultsInv(q)'
  <2>1. /\ told'[q] = told[q]
        /\ games[q].opponent \in Players => games'[q].opponent = games[q].opponent
    BY <1>3, <1>4, <1>7, <1>8
  <2>2. \A i \in DOMAIN outbox' : outbox'[i].to = q => ~ Asks(q, "RPS_REQ_PLAY")'
    <3>1. ~ Asks(p, "RPS_REQ_PLAY")' /\ ~ Asks(u, "RPS_REQ_PLAY")'
      BY <1>1, <1>2, <1>3, <1>4, <1>6, HandlerKeeps
    <3>2. \A i \in DOMAIN outbox' : outbox'[i].to \in {p, u}
      BY <1>10, <1>11
    <3> QED BY <3>1, <3>2
  <2> QED BY <2>1, <2>2, <1>17, ResultsKept
<1>19. RoundsInv'
  <2>1. \A q \in Players : ~ Due(q)' /\ ~ Due(q)
    BY <1>1, <1>2, <1>6, <1>12, HandlerKeeps DEF Due
  <2>2. ASSUME NEW q \in Players PROVE Over(q)' <=> Over(q)
    <3>1. ~ (Asks(q, "RPS_REQ_PLAY")' /\ Answered(q)')
      BY <2>1 DEF Due
    <3>2. \A i \in DOMAIN outbox' : outbox'[i] = Tell(q, RPS_QUIT) => outbox'[i].to = q
      BY DEF Tell
    <3> QED BY <3>1, <3>2, <1>1, <1>2, <1>3, HandlerKeeps DEF Over, Answered
  <2>3. \A q \in Players : Got(q) = Len(told[q]) + 0 /\ Got(q)' = Len(told[q]) + 0
    BY <2>1, <1>3 DEF Got
  <2>4. ASSUME NEW q \in Players, NEW r \in Players, games'[q].opponent = r, ~ Over(q)', ~ Over(r)'
        PROVE  Got(q)' = Got(r)'
    <3>1. CASE q \in {p, u}
      <4>1. r \in {p, u} /\ told[q] = told[r]
        BY <3>1, <2>4, <1>6, <1>8
      <4> QED BY <4>1, <2>3
    <3>2. CASE q \notin {p, u}
      <4>1. games[q].opponent = r
        BY <3>2, <2>4, <1>8
      <4>2. Got(q) = Got(r)
        BY <4>1, <2>2, <2>4 DEF RpsInv, RoundsInv
      <4> QED BY <4>2, <2>3
    <3> QED BY <3>1, <3>2
  <2> QED BY <2>4 DEF RoundsInv
<1> QED BY <1>3, <1>13, <1>14, <1>15, <1>16, <1>18, <1>19 DEF RpsInv


\* Who plays has an opponent, and has not been told that this one has quit.
LEMMA PlayFacts ==
  ASSUME RpsInv, HandlePlay, NEW p, p = sender[Server], NEW o, o = games[p].opponent
  PROVE  /\ Handles("RPS_REQ_PLAY") /\ p \in Players /\ Asks(p, "RPS_REQ_PLAY")
         /\ games[p].state = "ACTIVE" /\ player[p] = "signed up"
         /\ o \in Players /\ o # p /\ games[o].opponent = p
         /\ sent[p].choice \in Throws /\ ~ Over(p)
<1>1. Handles("RPS_REQ_PLAY")
  BY DEF HandlePlay
<1>2. /\ p \in Players /\ Asks(p, "RPS_REQ_PLAY") /\ Pending(p) /\ ~ LeftWaiting(p)
  BY <1>1, HandlerDoes
<1>3. TypeOK /\ RequestInv(p) /\ EntryInv(p) /\ CountInv(p) /\ OpponentsInv
  BY <1>2 DEF RpsInv, PlayerInv
<1>4. player[p] = "signed up" /\ ~ Asks(p, "RPS_REQ_SIGNUP")
  BY <1>2, <1>3 DEF RequestInv, Asks
<1>5. games[p].state = "ACTIVE" /\ o \in Players
  BY <1>2, <1>3, <1>4, TypesOf DEF EntryInv
<1>6. games[o].opponent = p /\ o # p
  BY <1>2, <1>3, <1>5 DEF OpponentsInv
<1>7. sent[p].choice \in Throws
  BY <1>2, <1>3, RequestIs DEF RequestInv, Asks
<1>8. ~ Over(p)
  BY <1>1, <1>2, <1>3, HandlerKeeps DEF CountInv
<1> QED BY <1>1, <1>2, <1>4, <1>5, <1>6, <1>7, <1>8

\* The first throw of a round leaves its player waiting for the other one.
LEMMA FirstThrowKeeps ==
  ASSUME RpsInv, HandlePlay, NEW p, p = sender[Server],
         games[games[p].opponent].state = "ACTIVE"
  PROVE  RpsInv'
<1>1. PICK o : o = games[p].opponent
  OBVIOUS
<1>2. /\ Handles("RPS_REQ_PLAY") /\ p \in Players /\ Asks(p, "RPS_REQ_PLAY")
      /\ games[p].state = "ACTIVE" /\ player[p] = "signed up"
      /\ o \in Players /\ o # p /\ games[o].opponent = p /\ sent[p].choice \in Throws
  BY <1>1, PlayFacts
<1>3. /\ outbox = <<>> /\ IpcInv' /\ ServerInv' /\ server' = "reply"
      /\ UNCHANGED <<player, thrown, told, sent>>
      /\ ~ Pending(p)' /\ Received(Server) = sent[p]
      /\ LeftWaiting(p)' <=> ~ Answered(p)'
      /\ \A q \in Players : ~ Answered(q)
  BY <1>2, HandlerDoes
<1>4. PICK c : c = sent[p].choice
  OBVIOUS
<1>5. /\ UNCHANGED unmatched /\ outbox' = <<>>
      /\ games' = [games EXCEPT ![p].choice = c, ![p].state = "WAITING"]
  BY <1>1, <1>2, <1>3, <1>4 DEF HandlePlay
<1>6. TypeOK /\ EntryInv(p) /\ Nobody \notin Players /\ OpponentsInv
  BY <1>2, ServerIs DEF RpsInv, PlayerInv
<1>7. games \in [Players -> Entries] /\ c \in Throws
  BY <1>2, <1>4, <1>6 DEF TypeOK, Entries
<1>8. /\ games' \in [Players -> Entries]
      /\ games'[p].state = "WAITING" /\ games'[p].choice = c
      /\ games'[p].opponent = games[p].opponent
      /\ \A q \in Players \ {p} : games'[q] = games[q]
  <2>a. /\ games \in [Players -> Entries] /\ c \in Throws
        /\ games' = [games EXCEPT ![p].choice = c, ![p].state = "WAITING"]
    BY <1>5, <1>7
  <2> DEFINE g == [games EXCEPT ![p].choice = c]
  <2>b. g \in [Players -> Entries] /\ games' = [g EXCEPT ![p].state = "WAITING"]
    BY <2>a DEF Entries
  <2> HIDE DEF g
  <2>1. games' \in [Players -> Entries]
    <3>1. [g[p] EXCEPT !.state = "WAITING"] \in Entries
      BY <1>2, <2>b DEF Entries
    <3> QED BY <2>b, <3>1
  <2>2. /\ games'[p].state = "WAITING" /\ games'[p].choice = c
        /\ games'[p].opponent = games[p].opponent
    BY <1>2, <1>5, <1>7 DEF Entries
  <2>3. \A q \in Players \ {p} : games'[q] = games[q]
    BY <1>2, <1>5, <1>7 DEF Entries
  <2> QED BY <2>1, <2>2, <2>3
<1>9. DOMAIN outbox' = {} /\ \A q \in Players : ~ Answered(q)'
  BY <1>5 DEF Answered
<1>10. TypeOK'
  <2>1. <<>> \in Seq([to : Players, result : Results \cup {NoResult}])
    OBVIOUS
  <2> QED BY <2>1, <1>3, <1>5, <1>6, <1>8 DEF TypeOK, Entries
<1>11. ASSUME NEW q \in Players PROVE PlayerInv(q)'
  <2>1. CASE q = p
    <3>1. /\ Asks(p, "RPS_REQ_PLAY")' /\ ~ Asks(p, "RPS_REQ_SIGNUP")'
          /\ LeftWaiting(p)' /\ player'[p] = "signed up" /\ unmatched' # p
          /\ games'[p].opponent # Nobody /\ sent'[p].choice = c
      <4>1. Asks(p, "RPS_REQ_PLAY")' /\ ~ Asks(p, "RPS_REQ_SIGNUP") /\ ~ Asks(p, "RPS_REQ_SIGNUP")'
        BY <1>2, <1>3 DEF Asks
      <4>2. unmatched # p /\ games[p].opponent # Nobody
        BY <4>1, <1>2, <1>6 DEF EntryInv
      <4> QED BY <4>1, <4>2, <1>2, <1>3, <1>4, <1>5, <1>8, <1>9
    <3>2. EntryInv(p)'
      BY <3>1, <1>3, <1>8 DEF EntryInv
    <3> QED BY <2>1, <3>2, <1>2, HandlerKeeps DEF PlayerInv
  <2>2. CASE q # p
    BY <2>2, <1>2, <1>5, <1>8, <1>9, HandlerKeeps
  <2> QED BY <2>1, <2>2
<1>12. OutboxInv'
  BY <1>9 DEF OutboxInv
<1>13. OpponentsInv'
  <2>1. ASSUME NEW q \in Players, NEW r \in Players, games'[q].opponent = r
        PROVE  /\ games'[r].opponent = q /\ r # q
               /\ games'[q].state = "WAITING" => games'[r].state # "WAITING"
    <3>1. games[q].opponent = r /\ games'[r].opponent = games[r].opponent
      BY <2>1, <1>8
    <3>2. /\ games[r].opponent = q /\ r # q
          /\ games[q].state = "WAITING" => games[r].state # "WAITING"
      BY <3>1, <1>6 DEF OpponentsInv
    <3>3. CASE q = p
      BY <3>1, <3>2, <3>3, <1>1, <1>8
    <3>4. CASE r = p
      BY <3>1, <3>2, <3>4, <1>1, <1>8
    <3>5. CASE q # p /\ r # p
      BY <3>1, <3>2, <3>5, <1>8
    <3> QED BY <3>3, <3>4, <3>5
  <2> QED BY <2>1 DEF OpponentsInv
<1>14. Forward
  <2>1. \A q \in Players : games[q].state = "QUIT" => games'[q].state = "QUIT"
    BY <1>2, <1>8
  <2> QED BY <2>1, <1>2, HandlerKeeps
<1>15. ASSUME NEW q \in Players PROVE ResultsInv(q)'
  <2>1. told'[q] = told[q] /\ games'[q].opponent = games[q].opponent
    BY <1>3, <1>8
  <2> QED BY <2>1, <1>9, <1>14, ResultsKept
<1>16. RoundsInv'
  <2>1. \A q \in Players :
          ~ Due(q)' /\ (Over(q)' <=> \E k \in 1 .. Len(told[q]) : told[q][k] = RPS_QUIT)
    BY <1>3, <1>9 DEF Due, Over
  <2>2. \A q \in Players : games'[q].opponent = games[q].opponent /\ told'[q] = told[q]
    BY <1>3, <1>8
  <2> QED BY <2>1, <2>2, <1>2, HandlerKeeps, RoundsKept
<1> QED BY <1>3, <1>10, <1>11, <1>12, <1>13, <1>15, <1>16 DEF RpsInv

\* In a round that both play the two are at the same throw.
LEMMA SameRound ==
  ASSUME RpsInv, HandlePlay, NEW p, p = sender[Server], NEW o, o = games[p].opponent
  PROVE  Len(told[p]) = Len(told[o]) /\ ~ Over(o)
<1>1. /\ Handles("RPS_REQ_PLAY") /\ p \in Players /\ games[p].state = "ACTIVE"
      /\ o \in Players /\ games[o].opponent = p /\ ~ Over(p)
  BY PlayFacts
<1>2. ~ Over(o)
  <2>1. ASSUME NEW k \in 1 .. Len(told[o]), told[o][k] = RPS_QUIT PROVE FALSE
    <3>1. Right(o, k, told[o][k])
      BY <1>1 DEF RpsInv, ResultsInv
    <3>2. games[p].state = "QUIT"
      BY <2>1, <3>1, <1>1 DEF Right
    <3> QED BY <3>2, <1>1
  <2> QED BY <2>1, <1>1, HandlerKeeps
<1>3. Got(p) = Got(o)
  BY <1>1, <1>2 DEF RpsInv, RoundsInv
<1>4. ~ Due(p) /\ ~ Due(o)
  BY <1>1, HandlerKeeps
<1>5. Len(told[p]) \in Nat /\ Len(told[o]) \in Nat
  BY <1>1, TypesOf DEF RpsInv
<1>6. Len(told[p]) + 0 = Len(told[o]) + 0
  BY <1>3, <1>4 DEF Got
<1> QED BY <1>2, <1>5, <1>6

\* The throw of a player whose opponent has quit is answered with that news.
LEMMA LateThrowKeeps ==
  ASSUME RpsInv, HandlePlay, NEW p, p = sender[Server],
         games[games[p].opponent].state = "QUIT"
  PROVE  RpsInv'
<1>1. PICK o : o = games[p].opponent
  OBVIOUS
<1>2. /\ Handles("RPS_REQ_PLAY") /\ p \in Players /\ Asks(p, "RPS_REQ_PLAY")
      /\ games[p].state = "ACTIVE" /\ player[p] = "signed up"
      /\ o \in Players /\ o # p /\ games[o].opponent = p /\ sent[p].choice \in Throws
  BY <1>1, PlayFacts
<1>3. /\ outbox = <<>> /\ IpcInv' /\ ServerInv' /\ server' = "reply" /\ phase' = phase
      /\ UNCHANGED <<player, thrown, told, sent>> /\ phase[p] = "awaiting reply"
      /\ ~ Pending(p)' /\ Received(Server) = sent[p]
      /\ LeftWaiting(p)' <=> ~ Answered(p)'
      /\ \A q \in Players : ~ Answered(q)
  BY <1>2, HandlerDoes
<1>4. PICK c, x : c = sent[p].choice /\ x = Tell(p, RPS_QUIT)
  OBVIOUS
<1>5. /\ UNCHANGED unmatched /\ outbox' = <<x>>
      /\ games' = [games EXCEPT ![p].choice = c]
  BY <1>1, <1>2, <1>3, <1>4 DEF HandlePlay
<1>6. TypeOK /\ EntryInv(p) /\ Nobody \notin Players /\ OpponentsInv
  BY <1>2, ServerIs DEF RpsInv, PlayerInv
<1>7. games \in [Players -> Entries] /\ c \in Throws
  BY <1>2, <1>4, <1>6 DEF TypeOK, Entries
<1>8. /\ games' \in [Players -> Entries]
      /\ games'[p].state = games[p].state /\ games'[p].opponent = games[p].opponent
      /\ \A q \in Players \ {p} : games'[q] = games[q]
  <2>a. /\ games \in [Players -> Entries] /\ c \in Throws
        /\ games' = [games EXCEPT ![p].choice = c]
    BY <1>5, <1>7
  <2>1. games' \in [Players -> Entries]
    BY <2>a DEF Entries
  <2>2. games'[p].state = games[p].state /\ games'[p].opponent = games[p].opponent
    BY <1>2, <1>5, <1>7 DEF Entries
  <2>3. \A q \in Players \ {p} : games'[q] = games[q]
    BY <1>2, <1>5, <1>7 DEF Entries
  <2> QED BY <2>1, <2>2, <2>3
<1>9. \A q \in Players : /\ games'[q].state = games[q].state
                         /\ games'[q].opponent = games[q].opponent
  BY <1>8
<1>10. /\ x.to = p /\ x.result = RPS_QUIT /\ RPS_QUIT \in Results
       /\ x \in [to : Players, result : Results \cup {NoResult}]
  BY <1>2, <1>4 DEF Tell, Results
<1>11. /\ DOMAIN outbox' = {1} /\ outbox'[1] = x
       /\ outbox' \in Seq([to : Players, result : Results \cup {NoResult}])
  BY <1>5, <1>10
<1>12. \A q \in Players : Answered(q)' <=> q = p
  BY <1>10, <1>11 DEF Answered
<1>13. TypeOK'
  BY <1>3, <1>5, <1>6, <1>8, <1>11 DEF TypeOK, Entries
<1>14. ASSUME NEW q \in Players PROVE PlayerInv(q)'
  <2>1. CASE q = p
    <3>1. /\ Asks(p, "RPS_REQ_PLAY")' /\ ~ Asks(p, "RPS_REQ_SIGNUP")'
          /\ ~ LeftWaiting(p)' /\ player'[p] = "signed up" /\ unmatched' # p
          /\ games'[p].opponent # Nobody /\ games'[p].state = "ACTIVE"
      <4>1. Asks(p, "RPS_REQ_PLAY")' /\ ~ Asks(p, "RPS_REQ_SIGNUP") /\ ~ Asks(p, "RPS_REQ_SIGNUP")'
        BY <1>2, <1>3 DEF Asks
      <4>2. unmatched # p /\ games[p].opponent # Nobody
        BY <4>1, <1>2, <1>6 DEF EntryInv
      <4> QED BY <4>1, <4>2, <1>2, <1>3, <1>5, <1>8, <1>12
    <3>2. EntryInv(p)'
      BY <3>1, <1>3 DEF EntryInv
    <3> QED BY <2>1, <3>2, <1>2, HandlerKeeps DEF PlayerInv
  <2>2. CASE q # p
    BY <2>2, <1>2, <1>5, <1>8, <1>12, HandlerKeeps
  <2> QED BY <2>1, <2>2
<1>15. OutboxInv'
  BY <1>3, <1>10, <1>11 DEF OutboxInv
<1>16. OpponentsInv'
  BY <1>6, <1>9 DEF OpponentsInv
<1>17. Forward
  BY <1>2, <1>9, HandlerKeeps
<1>18. ASSUME NEW q \in Players PROVE ResultsInv(q)'
  <2>0. told'[q] = told[q] /\ games'[q].opponent = games[q].opponent
    BY <1>3, <1>9
  <2>1. CASE q # p
    <3>1. \A i \in DOMAIN outbox' : outbox'[i].to # q
      BY <2>1, <1>10, <1>11
    <3> QED BY <2>0, <3>1, <1>17, ResultsKept
  <2>2. CASE q = p
    <3>1. ASSUME NEW k \in 1 .. Len(told'[p]) PROVE Right(p, k, told[p][k])'
      <4>1. k \in 1 .. Len(told[p])
        BY <1>3
      <4>2. told[p][k] # RPS_QUIT /\ Right(p, k, told[p][k])
        BY <4>1, <1>1, <1>2, PlayFacts DEF RpsInv, ResultsInv, Over
      <4>3. k <= Len(thrown[o]) /\ told[p][k] = RpsGetResult(thrown[p][k], thrown[o][k])
        BY <4>2, <1>1 DEF Right
      <4>4. /\ thrown' = thrown /\ told' = told /\ games'[p].opponent = o
        BY <1>1, <1>2, <1>3, <1>9
      <4> QED BY <4>2, <4>3, <4>4 DEF Right
    <3>2. Right(p, Len(told[p]) + 1, RPS_QUIT)'
      <4>1. Len(told[p]) = Len(told[o]) /\ Len(told[p]) \in Nat
        BY <1>1, <1>2, <1>6, SameRound, TypesOf
      <4>2. Len(told[p]) + 1 > Len(told[o])
        BY <4>1
      <4>3. told' = told /\ games'[p].opponent = o /\ games'[o].state = "QUIT"
        BY <1>1, <1>2, <1>3, <1>9
      <4> QED BY <4>2, <4>3 DEF Right
    <3>3. \A i \in DOMAIN outbox' : outbox'[i].result = RPS_QUIT
      BY <1>10, <1>11
    <3> QED BY <2>2, <3>1, <3>2, <3>3 DEF ResultsInv
  <2> QED BY <2>1, <2>2
<1>19. RoundsInv'
  <2>1. Over(p)'
    <3>1. Asks(p, "RPS_REQ_PLAY")'
      BY <1>2, <1>3 DEF Asks
    <3> QED BY <3>1, <1>4, <1>11 DEF Over
  <2>2. \A q \in Players \ {p} : ~ Due(q)' /\ ~ Due(q)
    BY <1>2, <1>12, HandlerKeeps DEF Due
  <2>3. \A q \in Players \ {p} : Got(q)' = Got(q)
    BY <2>2, <1>3 DEF Got
  <2>4. ASSUME NEW q \in Players \ {p}, ~ Over(q)' PROVE ~ Over(q)
    BY <2>4, <1>2, <1>3, HandlerKeeps DEF Over
  <2>5. ASSUME NEW q \in Players, NEW r \in Players, games'[q].opponent = r, ~ Over(q)', ~ Over(r)'
        PROVE  Got(q)' = Got(r)'
    <3>1. q # p /\ r # p /\ games[q].opponent = r
      BY <2>1, <2>5, <1>9
    <3>2. Got(q) = Got(r)
      BY <3>1, <2>4, <2>5 DEF RpsInv, RoundsInv
    <3> QED BY <3>1, <3>2, <2>3
  <2> QED BY <2>5 DEF RoundsInv
<1> QED BY <1>3, <1>13, <1>14, <1>15, <1>16, <1>18, <1>19 DEF RpsInv


\* The second throw of a round ends it, with the right results for both.
LEMMA SecondThrowKeeps ==
  ASSUME RpsInv, HandlePlay, NEW p, p = sender[Server],
         games[games[p].opponent].state = "WAITING"
  PROVE  RpsInv'
<1>1. PICK o : o = games[p].opponent
  OBVIOUS
<1>2. /\ Handles("RPS_REQ_PLAY") /\ p \in Players /\ Asks(p, "RPS_REQ_PLAY")
      /\ games[p].state = "ACTIVE" /\ player[p] = "signed up"
      /\ o \in Players /\ o # p /\ games[o].opponent = p /\ sent[p].choice \in Throws
  BY <1>1, PlayFacts
<1>3. /\ outbox = <<>> /\ IpcInv' /\ ServerInv' /\ server' = "reply" /\ phase' = phase
      /\ UNCHANGED <<player, thrown, told, sent>> /\ phase[p] = "awaiting reply"
      /\ ~ Pending(p)' /\ Received(Server) = sent[p]
      /\ LeftWaiting(p)' <=> ~ Answered(p)'
      /\ \A q \in Players : ~ Answered(q) /\ (LeftWaiting(q) => ~ Pending(q))
      /\ \A q \in Players \ {p} :
              /\ Pending(q)' <=> Pending(q)
              /\ LeftWaiting(q)' <=> LeftWaiting(q) /\ ~ Answered(q)'
  BY <1>2, HandlerDoes
<1>4. PICK c, d, x, y : /\ c = sent[p].choice /\ d = games[o].choice
                        /\ x = Tell(p, RpsGetResult(c, d)) /\ y = Tell(o, RpsGetResult(d, c))
  OBVIOUS
<1>5. /\ UNCHANGED unmatched /\ outbox' = <<x, y>>
      /\ games' = [games EXCEPT ![p].choice = c, ![o].state = "ACTIVE"]
  BY <1>1, <1>2, <1>3, <1>4 DEF HandlePlay, Round
<1>6. /\ TypeOK /\ RequestInv(o) /\ CountInv(o) /\ CountInv(p) /\ EntryInv(p) /\ EntryInv(o)
      /\ Nobody \notin Players /\ OpponentsInv
  BY <1>2, ServerIs DEF RpsInv, PlayerInv
<1>7. games \in [Players -> Entries] /\ c \in Throws
  BY <1>2, <1>4, <1>6 DEF TypeOK, Entries
<1>8. /\ games' \in [Players -> Entries]
      /\ games'[p].state = games[p].state /\ games'[p].opponent = games[p].opponent
      /\ games'[o].state = "ACTIVE" /\ games'[o].opponent = games[o].opponent
      /\ \A q \in Players \ {p, o} : games'[q] = games[q]
  <2>a. /\ games \in [Players -> Entries] /\ c \in Throws
        /\ games' = [games EXCEPT ![p].choice = c, ![o].state = "ACTIVE"]
    BY <1>5, <1>7
  <2> DEFINE g == [games EXCEPT ![p].choice = c]
  <2>b. g \in [Players -> Entries] /\ games' = [g EXCEPT ![o].state = "ACTIVE"]
    BY <2>a DEF Entries
  <2> HIDE DEF g
  <2>1. games' \in [Players -> Entries]
    <3>1. [g[o] EXCEPT !.state = "ACTIVE"] \in Entries
      BY <1>2, <2>b DEF Entries
    <3> QED BY <2>b, <3>1
  <2>2. games'[p].state = games[p].state /\ games'[p].opponent = games[p].opponent
    BY <1>2, <1>5, <1>7 DEF Entries
  <2>3. games'[o].state = "ACTIVE" /\ games'[o].opponent = games[o].opponent
    BY <1>2, <1>5, <1>7 DEF Entries
  <2>4. \A q \in Players \ {p, o} : games'[q] = games[q]
    BY <1>2, <1>5, <1>7 DEF Entries
  <2> QED BY <2>1, <2>2, <2>3, <2>4
<1>9. /\ \A q \in Players : games'[q].opponent = games[q].opponent
      /\ \A q \in Players \ {o} : games'[q].state = games[q].state
  BY <1>2, <1>8
\* The one who waits has thrown what its entry says.
<1>10. /\ LeftWaiting(o) /\ Asks(o, "RPS_REQ_PLAY") /\ d = sent[o].choice
       /\ ~ Pending(o) /\ phase[o] = "awaiting reply"
  <2>1. games[o].state = "WAITING"
    BY <1>1
  <2>2. LeftWaiting(o) /\ Asks(o, "RPS_REQ_PLAY") /\ d = sent[o].choice
    BY <2>1, <1>4, <1>6 DEF EntryInv
  <2> QED BY <2>2, <1>2, <1>3 DEF LeftWaiting
<1>11. PICK n : n = Len(told[p])
  OBVIOUS
<1>12. /\ n \in Nat /\ n = Len(told[o]) /\ Len(thrown[p]) = n + 1 /\ Len(thrown[o]) = n + 1
       /\ c = thrown[p][n + 1] /\ d = thrown[o][n + 1] /\ d \in Throws
  <2>1. n \in Nat /\ n = Len(told[o])
    BY <1>1, <1>2, <1>6, <1>11, SameRound, TypesOf
  <2>2. Len(thrown[p]) = n + 1 /\ Len(thrown[o]) = n + 1
    BY <2>1, <1>2, <1>6, <1>10, <1>11 DEF CountInv
  <2>3. c = thrown[p][n + 1] /\ d = thrown[o][n + 1]
    BY <2>2, <1>2, <1>4, <1>6, <1>10 DEF CountInv
  <2>4. d \in Throws
    BY <1>2, <1>4, <1>6, TypesOf
  <2> QED BY <2>1, <2>2, <2>3, <2>4
<1>13. \A a, b : RpsGetResult(a, b) \in Results \ {RPS_QUIT}
  BY DEF RpsGetResult, Results, RPS_QUIT, RPS_LOSS, RPS_TIE, RPS_WIN
<1>14. /\ x.to = p /\ y.to = o
       /\ x.result = RpsGetResult(c, d) /\ y.result = RpsGetResult(d, c)
       /\ x \in [to : Players, result : Results \cup {NoResult}]
       /\ y \in [to : Players, result : Results \cup {NoResult}]
  BY <1>2, <1>4, <1>13 DEF Tell
<1>15. /\ DOMAIN outbox' = {1, 2} /\ outbox'[1] = x /\ outbox'[2] = y
       /\ outbox' \in Seq([to : Players, result : Results \cup {NoResult}])
  BY <1>5, <1>14
<1>16. \A q \in Players : Answered(q)' <=> q \in {p, o}
  BY <1>14, <1>15 DEF Answered
<1>17. TypeOK'
  BY <1>3, <1>5, <1>6, <1>8, <1>15 DEF TypeOK, Entries
<1>18. /\ Asks(p, "RPS_REQ_PLAY")' /\ ~ Asks(p, "RPS_REQ_SIGNUP") /\ ~ Asks(p, "RPS_REQ_SIGNUP")'
       /\ Asks(o, "RPS_REQ_PLAY")' /\ ~ Asks(o, "RPS_REQ_SIGNUP") /\ ~ Asks(o, "RPS_REQ_SIGNUP")'
  BY <1>2, <1>3, <1>10 DEF Asks
<1>19. ASSUME NEW q \in Players PROVE PlayerInv(q)'
  <2>1. CASE q = p
    <3>1. /\ ~ LeftWaiting(p)' /\ player'[p] = "signed up" /\ unmatched' # p
          /\ games'[p].opponent # Nobody /\ games'[p].state = "ACTIVE"
      <4>1. unmatched # p /\ games[p].opponent # Nobody
        BY <1>18, <1>2, <1>6 DEF EntryInv
      <4> QED BY <4>1, <1>2, <1>3, <1>5, <1>8, <1>16
    <3>2. EntryInv(p)'
      BY <3>1, <1>3, <1>18 DEF EntryInv
    <3> QED BY <2>1, <3>2, <1>2, HandlerKeeps DEF PlayerInv
  <2>2. CASE q = o
    <3>1. /\ ~ LeftWaiting(o)' /\ player'[o] = "signed up" /\ unmatched' # o
          /\ games'[o].opponent # Nobody /\ games'[o].state = "ACTIVE" /\ ~ Pending(o)'
      <4>1. unmatched # o /\ games[o].opponent # Nobody
        BY <1>18, <1>2, <1>6 DEF EntryInv
      <4>2. player[o] = "signed up"
        BY <1>6, <1>10 DEF RequestInv
      <4> QED BY <4>1, <4>2, <1>2, <1>3, <1>5, <1>8, <1>10, <1>16
    <3>2. EntryInv(o)'
      BY <3>1, <1>18 DEF EntryInv
    <3> QED BY <2>2, <3>2, <1>2, HandlerKeeps DEF PlayerInv
  <2>3. CASE q \notin {p, o}
    BY <2>3, <1>2, <1>5, <1>8, <1>16, HandlerKeeps
  <2> QED BY <2>1, <2>2, <2>3
<1>20. OutboxInv'
  <2>1. phase'[p] = "awaiting reply" /\ phase'[o] = "awaiting reply"
    BY <1>3, <1>10
  <2>2. x.result \in Results /\ y.result \in Results
    BY <1>13, <1>14
  <2> QED BY <2>1, <2>2, <1>2, <1>14, <1>15 DEF OutboxInv
<1>21. OpponentsInv'
  <2>1. games'[o].state # "WAITING"
    BY <1>8
  <2> QED BY <2>1, <1>6, <1>9 DEF OpponentsInv
<1>22. Forward
  <2>1. \A q \in Players : games[q].state = "QUIT" => games'[q].state = "QUIT"
    BY <1>1, <1>9
  <2> QED BY <2>1, <1>2, HandlerKeeps
<1>23. games[p].opponent = o /\ games[o].opponent = p
  BY <1>1, <1>2
<1>24. ASSUME NEW a \in {p, o}, NEW b \in {p, o}, games[a].opponent = b,
              NEW k \in 1 .. Len(told'[a])
       PROVE  Right(a, k, told[a][k])'
  <2>1. k \in 1 .. Len(told[a])
    BY <1>3
  <2>2. told[a][k] # RPS_QUIT /\ Right(a, k, told[a][k])
    <3>1. ~ Over(a) /\ a \in Players
      BY <1>1, <1>2, PlayFacts, SameRound
    <3> QED BY <2>1, <3>1 DEF RpsInv, ResultsInv, Over
  <2>3. k <= Len(thrown[b]) /\ told[a][k] = RpsGetResult(thrown[a][k], thrown[b][k])
    BY <2>2, <1>24 DEF Right
  <2>4. thrown' = thrown /\ told' = told /\ games'[a].opponent = b
    BY <1>2, <1>3, <1>9, <1>24
  <2> QED BY <2>2, <2>3, <2>4 DEF Right
<1>25. Right(p, n + 1, RpsGetResult(c, d))' /\ Right(o, n + 1, RpsGetResult(d, c))'
  <2>1. thrown' = thrown /\ games'[p].opponent = o /\ games'[o].opponent = p
    BY <1>2, <1>3, <1>9, <1>23
  <2>2. n + 1 <= Len(thrown[p]) /\ n + 1 <= Len(thrown[o])
    BY <1>12
  <2>3. RpsGetResult(c, d) # RPS_QUIT /\ RpsGetResult(d, c) # RPS_QUIT
    BY <1>13
  <2> QED BY <2>1, <2>2, <2>3, <1>12 DEF Right
<1>26. ASSUME NEW q \in Players PROVE ResultsInv(q)'
  <2>1. CASE q \notin {p, o}
    <3>1. \A i \in DOMAIN outbox' : outbox'[i].to # q
      BY <2>1, <1>14, <1>15
    <3>2. told'[q] = told[q] /\ games'[q].opponent = games[q].opponent
      BY <1>3, <1>9
    <3> QED BY <3>1, <3>2, <1>22, ResultsKept
  <2>2. CASE q = p
    <3>1. \A k \in 1 .. Len(told'[p]) : Right(p, k, told[p][k])'
      BY <1>23, <1>24
    <3>2. ASSUME NEW i \in DOMAIN outbox', outbox'[i].to = p
          PROVE  Right(p, Len(told[p]) + 1, outbox[i].result)'
      <4>1. outbox'[i].result = RpsGetResult(c, d)
        BY <3>2, <1>2, <1>14, <1>15
      <4>2. n = Len(told'[p])
        BY <1>3, <1>11
      <4> QED BY <4>1, <4>2, <1>25 DEF Right
    <3> QED BY <2>2, <3>1, <3>2 DEF ResultsInv
  <2>3. CASE q = o
    <3>1. \A k \in 1 .. Len(told'[o]) : Right(o, k, told[o][k])'
      BY <1>23, <1>24
    <3>2. ASSUME NEW i \in DOMAIN outbox', outbox'[i].to = o
          PROVE  Right(o, Len(told[o]) + 1, outbox[i].result)'
      <4>1. outbox'[i].result = RpsGetResult(d, c)
        BY <3>2, <1>2, <1>14, <1>15
      <4>2. n = Len(told'[o])
        BY <1>3, <1>12
      <4> QED BY <4>1, <4>2, <1>25 DEF Right
    <3> QED BY <2>3, <3>1, <3>2 DEF ResultsInv
  <2> QED BY <2>1, <2>2, <2>3
<1>27. RoundsInv'
  <2>1. Due(p)' /\ Due(o)' /\ \A q \in Players \ {p, o} : ~ Due(q)' /\ ~ Due(q)
    BY <1>2, <1>16, <1>18, HandlerKeeps DEF Due
  <2>2. Got(p)' = Got(o)'
    <3>1. Len(told'[p]) = Len(told'[o])
      BY <1>3, <1>11, <1>12
    <3> QED BY <2>1, <3>1 DEF Got
  <2>3. \A q \in Players \ {p, o} : Got(q)' = Got(q)
    BY <2>1, <1>3 DEF Got
  <2>4. ASSUME NEW q \in Players, ~ Over(q)' PROVE ~ Over(q)
    BY <2>4, <1>2, <1>3, HandlerKeeps DEF Over
  <2>5. ASSUME NEW q \in Players, NEW r \in Players, games'[q].opponent = r, ~ Over(q)', ~ Over(r)'
        PROVE  Got(q)' = Got(r)'
    <3>1. games[q].opponent = r
      BY <2>5, <1>9
    <3>2. CASE q \in {p, o}
      BY <3>1, <3>2, <2>2, <1>23
    <3>3. CASE q \notin {p, o}
      <4>1. games[r].opponent = q
        BY <3>1, <1>6 DEF OpponentsInv
      <4>2. r \notin {p, o}
        BY <4>1, <3>3, <1>23
      <4>3. Got(q) = Got(r)
        BY <3>1, <2>4, <2>5 DEF RpsInv, RoundsInv
      <4> QED BY <4>2, <4>3, <3>3, <2>3
    <3> QED BY <3>2, <3>3
  <2> QED BY <2>5 DEF RoundsInv
<1> QED BY <1>3, <1>17, <1>19, <1>20, <1>21, <1>26, <1>27 DEF RpsInv


\* Replies to one player, and one more.
LEMMA OneMore ==
  ASSUME NEW T, NEW y \in T, NEW s \in Seq(T), NEW p, y.to = p,
         \A i \in 1 .. Len(s) : s[i].to = p
  PROVE  /\ s \o <<y>> \in Seq(T) /\ DOMAIN (s \o <<y>>) # {}
         /\ \A i \in DOMAIN (s \o <<y>>) : (s \o <<y>>)[i].to = p
<1>1. PICK n, z, all : n = Len(s) /\ z = <<y>> /\ all = s \o z
  OBVIOUS
<1>2. n \in Nat /\ z \in Seq(T) /\ Len(z) = 1 /\ z[1] = y
  BY <1>1
<1>3. all \in Seq(T) /\ Len(all) = n + 1
  BY <1>1, <1>2, ConcatProperties
<1>4. \A i \in 1 .. n + 1 : all[i] = IF i <= n THEN s[i] ELSE z[i - n]
  BY <1>1, <1>2, <1>3, ConcatProperties
<1>5. DOMAIN all = 1 .. n + 1
  BY <1>3, LenProperties
<1>6. ASSUME NEW i \in 1 .. n + 1 PROVE all[i].to = p
  <2>1. CASE i <= n
    BY <2>1, <1>1, <1>2, <1>4
  <2>2. CASE ~ i <= n
    <3>1. i - n = 1
      BY <2>2, <1>2
    <3> QED BY <3>1, <2>2, <1>2, <1>4
  <2> QED BY <2>1, <2>2
<1> QED BY <1>1, <1>2, <1>3, <1>5, <1>6

\* Who quits has quit for the server, whatever it is told.
LEMMA HandleQuitKeeps ==
  ASSUME RpsInv, HandleQuit
  PROVE  RpsInv'
<1>1. PICK p : p = sender[Server]
  OBVIOUS
<1>2. /\ Handles("RPS_REQ_QUIT") /\ unmatched' = unmatched
      /\ games' = [games EXCEPT ![p].state = "QUIT"]
  BY <1>1 DEF HandleQuit
<1>3. /\ p \in Players /\ Asks(p, "RPS_REQ_QUIT")
      /\ IpcInv' /\ ServerInv' /\ server' = "reply"
      /\ UNCHANGED <<player, thrown, told>>
      /\ Pending(p) /\ ~ Pending(p)' /\ ~ LeftWaiting(p)
      /\ LeftWaiting(p)' <=> ~ Answered(p)'
  BY <1>1, <1>2, HandlerDoes
<1>4. TypeOK /\ EntryInv(p) /\ Nobody \notin Players /\ OpponentsInv
  BY <1>3, ServerIs DEF RpsInv, PlayerInv
<1>5. /\ player[p] = "quit" /\ ~ Asks(p, "RPS_REQ_PLAY") /\ ~ Asks(p, "RPS_REQ_SIGNUP")
      /\ ~ Asks(p, "RPS_REQ_PLAY")' /\ ~ Asks(p, "RPS_REQ_SIGNUP")'
  <2>1. player[p] = "quit" /\ ~ Asks(p, "RPS_REQ_PLAY") /\ ~ Asks(p, "RPS_REQ_SIGNUP")
    BY <1>3 DEF RpsInv, PlayerInv, RequestInv, Asks
  <2> QED BY <2>1, <1>1, <1>2, <1>3, HandlerKeeps
<1>6. games[p].opponent # Nobody /\ games[p].state # "WAITING" /\ unmatched # p
  BY <1>3, <1>4, <1>5 DEF EntryInv
<1>7. /\ games' \in [Players -> Entries]
      /\ games'[p].state = "QUIT" /\ games'[p].opponent = games[p].opponent
      /\ \A q \in Players \ {p} : games'[q] = games[q]
  <2>1. games \in [Players -> Entries]
    BY <1>4 DEF TypeOK, Entries
  <2>2. games' \in [Players -> Entries]
    BY <2>1, <1>2, <1>3 DEF Entries
  <2>3. games'[p].state = "QUIT" /\ games'[p].opponent = games[p].opponent
    BY <2>1, <1>2, <1>3 DEF Entries
  <2>4. \A q \in Players \ {p} : games'[q] = games[q]
    BY <2>1, <1>2, <1>3 DEF Entries
  <2> QED BY <2>2, <2>3, <2>4
<1> DEFINE T == [to : Players, result : Results \cup {NoResult}]
<1>8. PICK first, y : /\ y = Tell(p, NoResult) /\ outbox' = first \o <<y>>
                      /\ first = <<Tell(p, RPS_QUIT)>> \/ first = <<>>
  BY <1>1 DEF HandleQuit
<1>9. y \in T /\ y.to = p /\ Tell(p, RPS_QUIT) \in T /\ Tell(p, RPS_QUIT).to = p
  BY <1>3, <1>8 DEF Tell, Results
<1>10. first \in Seq(T) /\ \A i \in 1 .. Len(first) : first[i].to = p
  <2> HIDE DEF T
  <2>1. CASE first = <<Tell(p, RPS_QUIT)>>
    BY <2>1, <1>9
  <2>2. CASE first = <<>>
    BY <2>2
  <2> QED BY <2>1, <2>2, <1>8
<1>11. /\ outbox' \in Seq(T)
       /\ DOMAIN outbox' # {} /\ \A i \in DOMAIN outbox' : outbox'[i].to = p
  <2> HIDE DEF T
  <2> QED BY <1>8, <1>9, <1>10, OneMore
<1>12. \A q \in Players : Answered(q)' <=> q = p
  BY <1>11 DEF Answered
<1>13. TypeOK'
  BY <1>2, <1>3, <1>4, <1>7, <1>11 DEF TypeOK, Entries
<1>14. ASSUME NEW q \in Players PROVE PlayerInv(q)'
  <2>1. CASE q = p
    <3>1. player'[p] = "quit" /\ ~ LeftWaiting(p)' /\ unmatched' # p /\ games'[p].opponent # Nobody
      BY <1>2, <1>3, <1>5, <1>6, <1>7, <1>12
    <3>2. EntryInv(p)'
      BY <3>1, <1>3, <1>5, <1>7 DEF EntryInv
    <3> QED BY <2>1, <3>2, <1>1, <1>2, HandlerKeeps DEF PlayerInv
  <2>2. CASE q # p
    BY <2>2, <1>1, <1>2, <1>7, <1>12, HandlerKeeps
  <2> QED BY <2>1, <2>2
<1>15. OutboxInv'
  BY <1>5, <1>7, <1>11 DEF OutboxInv
<1>16. OpponentsInv'
  <2>1. \A q \in Players : /\ games'[q].opponent = games[q].opponent
                           /\ games'[q].state = "WAITING" <=> games[q].state = "WAITING"
    BY <1>6, <1>7
  <2> QED BY <2>1, <1>4 DEF OpponentsInv
<1>17. Forward
  <2>1. \A q \in Players : games[q].state = "QUIT" => games'[q].state = "QUIT"
    BY <1>7
  <2> QED BY <2>1, <1>1, <1>2, HandlerKeeps
<1>18. ASSUME NEW q \in Players PROVE ResultsInv(q)'
  <2>1. told'[q] = told[q] /\ games'[q].opponent = games[q].opponent
    BY <1>3, <1>7
  <2>2. \A i \in DOMAIN outbox' : outbox'[i].to = q => ~ Asks(q, "RPS_REQ_PLAY")'
    BY <1>5, <1>11
  <2> QED BY <2>1, <2>2, <1>17, ResultsKept
<1>19. RoundsInv'
  <2>1. \A q \in Players : ~ Due(q)'
    BY <1>5, <1>12 DEF Due
  <2>2. ASSUME NEW q \in Players PROVE Over(q)' <=> \E k \in 1 .. Len(told[q]) : told[q][k] = RPS_QUIT
    <3>1. ~ (Asks(q, "RPS_REQ_PLAY")' /\ Answered(q)')
      BY <1>5, <1>12
    <3>2. \A i \in DOMAIN outbox' : outbox'[i] = Tell(q, RPS_QUIT) => outbox'[i].to = q
      BY DEF Tell
    <3> QED BY <3>1, <3>2, <1>3 DEF Over, Answered
  <2>3. \A q \in Players : games'[q].opponent = games[q].opponent /\ told'[q] = told[q]
    BY <1>3, <1>7
  <2> QED BY <2>1, <2>2, <2>3, <1>1, <1>2, HandlerKeeps, RoundsKept
<1> QED BY <1>3, <1>13, <1>14, <1>15, <1>16, <1>18, <1>19 DEF RpsInv

-----------------------------------------------------------------------------
(* The server, where it replies.                                           *)

IsNext(h, p) == h = Head(outbox) /\ p = h.to

\* The first reply is sent: those left are the others.
LEMMA ReplyFacts ==
  ASSUME RpsInv, ReplyNext, NEW h, NEW p, IsNext(h, p)
  PROVE  /\ server = "reply" /\ Reply(p) /\ outbox' = Tail(outbox)
         /\ told' = IF phase[p] = "awaiting reply" /\ sent[p].type = "RPS_REQ_PLAY"
                    THEN [told EXCEPT ![p] = Append(told[p], h.result)] ELSE told
         /\ UNCHANGED <<games, unmatched, server, player, thrown>>
         /\ p \in Players /\ 1 \in DOMAIN outbox /\ outbox[1] = h
         /\ outbox' \in Seq([to : Players, result : Results \cup {NoResult}])
         /\ \A i \in DOMAIN outbox' : i + 1 \in DOMAIN outbox /\ outbox'[i] = outbox[i + 1] /\ i + 1 # 1
         /\ \A i \in DOMAIN outbox : i = 1 \/ \E j \in DOMAIN outbox' : i = j + 1
<1>0. h = Head(outbox) /\ p = h.to
  BY DEF IsNext
<1> DEFINE T == [to : Players, result : Results \cup {NoResult}]
<1>1. /\ server = "reply" /\ outbox # <<>> /\ Reply(p) /\ outbox' = Tail(outbox)
      /\ told' = IF phase[p] = "awaiting reply" /\ sent[p].type = "RPS_REQ_PLAY"
                    THEN [told EXCEPT ![p] = Append(told[p], h.result)] ELSE told
      /\ UNCHANGED <<games, unmatched, server, player, thrown>>
  BY <1>0 DEF ReplyNext, serverVars
<1>2. outbox \in Seq(T)
  BY OutboxTyped DEF RpsInv
<1> HIDE DEF T
<1>3. PICK n : n = Len(outbox)
  OBVIOUS
<1>4. /\ n \in Nat /\ n >= 1 /\ DOMAIN outbox = 1 .. n /\ outbox[1] = h /\ h \in T
      /\ outbox' \in Seq(T) /\ Len(outbox') = n - 1 /\ DOMAIN outbox' = 1 .. n - 1
      /\ \A i \in 1 .. n - 1 : outbox'[i] = outbox[i + 1]
  <2>1. n \in Nat /\ n # 0 /\ DOMAIN outbox = 1 .. n
    BY <1>1, <1>2, <1>3, LenProperties, EmptySeq
  <2>2. /\ outbox' \in Seq(T) /\ Len(outbox') = n - 1 /\ Head(outbox) \in T
        /\ \A i \in 1 .. n - 1 : outbox'[i] = outbox[i + 1]
    <3>1. PICK w : w = outbox
      OBVIOUS
    <3>2. w \in Seq(T) /\ w # <<>> /\ outbox' = Tail(w) /\ n = Len(w)
      BY <3>1, <1>1, <1>2, <1>3
    <3>3. Tail(w) \in Seq(T) /\ Len(Tail(w)) = Len(w) - 1 /\ Head(w) \in T
      BY <3>2, HeadTailProperties
    <3>4. \A i \in 1 .. Len(Tail(w)) : Tail(w)[i] = w[i + 1]
      BY <3>2, HeadTailProperties
    <3> QED BY <3>1, <3>2, <3>3, <3>4
  <2>4. outbox[1] = h /\ h \in T
    <3>1. PICK w : w = outbox
      OBVIOUS
    <3>2. w \in Seq(T) /\ w # <<>>
      BY <3>1, <1>1, <1>2
    <3>3. Head(w) = w[1]
      BY <3>2, LenProperties
    <3> QED BY <1>0, <2>2, <3>1, <3>3
  <2>3. DOMAIN outbox' = 1 .. n - 1
    BY <2>2, LenProperties
  <2> QED BY <2>1, <2>2, <2>3, <2>4
<1>5. \A i \in DOMAIN outbox' : i + 1 \in DOMAIN outbox /\ outbox'[i] = outbox[i + 1] /\ i + 1 # 1
  BY <1>4
<1>6. ASSUME NEW i \in DOMAIN outbox, i # 1 PROVE \E j \in DOMAIN outbox' : i = j + 1
  <2>1. i - 1 \in 1 .. n - 1 /\ i = (i - 1) + 1
    BY <1>4, <1>6
  <2> QED BY <2>1, <1>4
<1>7. p \in Players /\ 1 \in DOMAIN outbox
  BY <1>0, <1>4 DEF T
<1> QED BY <1>1, <1>4, <1>5, <1>6, <1>7 DEF T


\* The player told a result, if it has waited for one, is the only one that
\* anything changes for.
LEMMA ReplyFor ==
  ASSUME RpsInv, ReplyNext, NEW h, NEW p, IsNext(h, p)
  PROVE  /\ IpcInv' /\ ServerInv' /\ TypeOK'
         /\ \A q \in Players \ {p} :
              /\ phase'[q] = phase[q] /\ sent'[q] = sent[q] /\ told'[q] = told[q]
              /\ Answered(q)' <=> Answered(q)
              /\ Pending(q)' <=> Pending(q)
              /\ LeftWaiting(q)' <=> LeftWaiting(q)
         /\ p \in Players /\ ~ Pending(p) /\ ~ Pending(p)'
         /\ Answered(p) /\ ~ LeftWaiting(p)
         /\ phase[p] # "awaiting reply" =>
              phase' = phase /\ sent' = sent /\ told' = told /\ games[p].state = "QUIT"
         /\ phase[p] = "awaiting reply" => phase'[p] = "running" /\ sent'[p] = NoMessage
         /\ phase[p] = "awaiting reply" /\ Asks(p, "RPS_REQ_PLAY") =>
              /\ h.result \in Results /\ told'[p] = Append(told[p], h.result)
         /\ ~ (phase[p] = "awaiting reply" /\ Asks(p, "RPS_REQ_PLAY")) => told' = told
         /\ Answered(p)' => games[p].state = "QUIT"
<1>0. p = h.to
  BY DEF IsNext
<1>1. /\ server = "reply" /\ server' = "reply" /\ Reply(p)
      /\ UNCHANGED <<games, unmatched, player, thrown>>
      /\ p \in Players /\ 1 \in DOMAIN outbox /\ outbox[1] = h
      /\ outbox' \in Seq([to : Players, result : Results \cup {NoResult}])
  <2>1. /\ server = "reply" /\ Reply(p)
        /\ UNCHANGED <<games, unmatched, server, player, thrown>>
        /\ p \in Players /\ 1 \in DOMAIN outbox /\ outbox[1] = h
        /\ outbox' \in Seq([to : Players, result : Results \cup {NoResult}])
    BY ReplyFacts, Zenon
  <2> QED BY <2>1
<1>2. told' = IF phase[p] = "awaiting reply" /\ sent[p].type = "RPS_REQ_PLAY"
              THEN [told EXCEPT ![p] = Append(told[p], h.result)] ELSE told
  BY DEF ReplyNext, IsNext
<1>3. /\ \A i \in DOMAIN outbox' : i + 1 \in DOMAIN outbox /\ outbox'[i] = outbox[i + 1] /\ i + 1 # 1
      /\ \A i \in DOMAIN outbox : i = 1 \/ \E j \in DOMAIN outbox' : i = j + 1
  BY ReplyFacts
<1>4. IpcInv /\ TypeOK /\ ServerInv /\ OutboxInv /\ p \in Tasks /\ Server \in Tasks /\ Server # p
  BY <1>1, ServerIs DEF RpsInv
<1>5. /\ IpcInv' /\ UNCHANGED <<inbox, sender>>
      /\ \A t \in Tasks \ {p} : phase'[t] = phase[t] /\ sent'[t] = sent[t]
      /\ phase[p] = "awaiting reply" => phase'[p] = "running" /\ sent'[p] = NoMessage
      /\ phase[p] # "awaiting reply" => phase' = phase /\ sent' = sent
  BY <1>1, <1>4, ReplyDoes
<1>6. phase'[Server] = phase[Server]
  BY <1>4, <1>5
<1>7. ServerInv'
  BY <1>1, <1>4, <1>6 DEF ServerInv, Runs
<1>8. h.result \in Results \/ ~ Asks(p, "RPS_REQ_PLAY")
  BY <1>0, <1>1, <1>4 DEF OutboxInv
<1>9. phase[p] = "awaiting reply" /\ Asks(p, "RPS_REQ_PLAY") =>
        told'[p] = Append(told[p], h.result) /\ h.result \in Results
  BY <1>1, <1>2, <1>4, <1>8 DEF TypeOK, Asks
<1>10. ~ (phase[p] = "awaiting reply" /\ Asks(p, "RPS_REQ_PLAY")) => told' = told
  BY <1>2 DEF Asks
<1>11. told' \in [Players -> Seq(Results)] /\ \A q \in Players \ {p} : told'[q] = told[q]
  <2>1. CASE phase[p] = "awaiting reply" /\ Asks(p, "RPS_REQ_PLAY")
    <3>1. told[p] \in Seq(Results) /\ h.result \in Results
      BY <2>1, <1>1, <1>4, <1>8 DEF TypeOK
    <3>2. Append(told[p], h.result) \in Seq(Results)
      BY <3>1, AppendProperties
    <3>3. told' = [told EXCEPT ![p] = Append(told[p], h.result)]
      BY <2>1, <1>2 DEF Asks
    <3> HIDE DEF Results
    <3> QED BY <3>2, <3>3, <1>4 DEF TypeOK
  <2>2. CASE ~ (phase[p] = "awaiting reply" /\ Asks(p, "RPS_REQ_PLAY"))
    BY <2>2, <1>4, <1>10 DEF TypeOK
  <2> QED BY <2>1, <2>2
<1>12. TypeOK'
  BY <1>1, <1>4, <1>11 DEF TypeOK
<1>13. \A q \in Players \ {p} : Answered(q)' <=> Answered(q)
  <2> SUFFICES ASSUME NEW q \in Players \ {p} PROVE Answered(q)' <=> Answered(q)
    OBVIOUS
  <2>1. Answered(q)' => Answered(q)
    BY <1>3 DEF Answered
  <2>2. Answered(q) => Answered(q)'
    <3>1. SUFFICES ASSUME NEW i \in DOMAIN outbox, outbox[i].to = q PROVE Answered(q)'
      BY DEF Answered
    <3>2. i # 1
      BY <3>1, <1>0, <1>1
    <3>3. PICK j \in DOMAIN outbox' : i = j + 1
      BY <3>2, <1>3
    <3>4. outbox'[j].to = q
      BY <3>1, <3>3, <1>3
    <3> QED BY <3>4 DEF Answered
  <2> QED BY <2>1, <2>2
<1>14. /\ \A q \in Players \ {p} : phase'[q] = phase[q] /\ sent'[q] = sent[q]
       /\ \A q \in Players : ~ Handling(q) /\ ~ Handling(q)'
  BY <1>1, <1>4, <1>5, ServerIs DEF Handling
<1>15. \A q \in Players \ {p} : /\ Pending(q)' <=> Pending(q)
                                /\ LeftWaiting(q)' <=> LeftWaiting(q)
  <2> SUFFICES ASSUME NEW q \in Players \ {p}
               PROVE  (Pending(q)' <=> Pending(q)) /\ (LeftWaiting(q)' <=> LeftWaiting(q))
    OBVIOUS
  <2>1. Pending(q)' <=> Pending(q)
    BY <1>14 DEF Pending
  <2>2. LeftWaiting(q) <=> phase[q] = "awaiting reply" /\ ~ Answered(q)
    BY <1>14 DEF LeftWaiting, Handling, Answered
  <2>3. LeftWaiting(q)' <=> phase'[q] = "awaiting reply" /\ ~ Answered(q)'
    BY <1>14 DEF LeftWaiting, Handling, Answered
  <2> QED BY <2>1, <2>2, <2>3, <1>13, <1>14
<1>16. Answered(p) /\ ~ LeftWaiting(p)
  BY <1>0, <1>1 DEF Answered, LeftWaiting
<1>17. phase[p] # "awaiting reply" => games[p].state = "QUIT"
  BY <1>0, <1>1, <1>4 DEF OutboxInv
<1>18. ~ Pending(p) /\ ~ Pending(p)'
  <2>1. phase[p] = "awaiting reply" => ~ Pending(p) /\ ~ Pending(p)'
    BY <1>1, <1>5, <1>14 DEF Pending
  <2>2. EntryInv(p)
    BY <1>1 DEF RpsInv, PlayerInv
  <2>3. phase[p] # "awaiting reply" => ~ Pending(p)
    BY <2>2, <1>17 DEF EntryInv
  <2>4. phase[p] # "awaiting reply" => ~ Pending(p)'
    BY <2>3, <1>1, <1>5, <1>14 DEF Pending
  <2> QED BY <2>1, <2>3, <2>4
<1>19. Answered(p)' => games[p].state = "QUIT"
  <2>1. SUFFICES ASSUME NEW i \in DOMAIN outbox', outbox'[i].to = p PROVE games[p].state = "QUIT"
    BY DEF Answered
  <2>2. PICK k : k = i + 1
    OBVIOUS
  <2>3. k \in DOMAIN outbox /\ outbox[k].to = p /\ k # 1
    BY <2>1, <2>2, <1>3
  <2> QED BY <2>3, <1>0, <1>1, <1>4 DEF OutboxInv
<1> QED BY <1>1, <1>5, <1>7, <1>9, <1>10, <1>11, <1>12, <1>13, <1>14, <1>15, <1>16, <1>17, <1>18, <1>19


Waits(p) == phase[p] = "awaiting reply"

\* Of a player that asks no more nothing is due.
LEMMA ReplyCounts ==
  ASSUME RpsInv, ReplyNext, NEW h, NEW p \in Players, IsNext(h, p),
         Waits(p)
  PROVE  /\ Got(p)' = Got(p) /\ Len(told[p]) \in Nat
         /\ ~ Asks(p, "RPS_REQ_PLAY")' /\ ~ Due(p)'
         /\ Over(p) <=> Over(p)'
         /\ Asks(p, "RPS_REQ_PLAY") =>
              /\ told'[p] \in Seq(Results) /\ Len(told'[p]) = Len(told[p]) + 1
              /\ told'[p][Len(told[p]) + 1] = h.result
              /\ \A k \in 1 .. Len(told[p]) : told'[p][k] = told[p][k] /\ told[p][k] # RPS_QUIT
         /\ ~ Asks(p, "RPS_REQ_PLAY") => told'[p] = told[p]
<1>1. /\ p \in Players /\ Answered(p) /\ sent'[p] = NoMessage
      /\ Asks(p, "RPS_REQ_PLAY") =>
              h.result \in Results /\ told'[p] = Append(told[p], h.result)
      /\ ~ Asks(p, "RPS_REQ_PLAY") => told' = told
      /\ Answered(p)' => games[p].state = "QUIT"
  BY ReplyFor DEF Waits
<1>2. ~ Asks(p, "RPS_REQ_PLAY")' /\ ~ Due(p)'
  <2>1. sent'[p].type = "none"
    BY <1>1 DEF NoMessage
  <2>2. ~ Asks(p, "RPS_REQ_PLAY")'
    BY <2>1 DEF Asks
  <2> QED BY <2>2 DEF Due
<1>3. TypeOK /\ CountInv(p) /\ OutboxInv /\ RequestInv(p) /\ EntryInv(p)
  BY <1>1 DEF RpsInv, PlayerInv
<1>4. told[p] \in Seq(Results) /\ Len(told[p]) \in Nat
  BY <1>1, <1>3, TypesOf
<1>5. CASE Asks(p, "RPS_REQ_PLAY")
  <2>1. PICK n, w, r : n = Len(told[p]) /\ w = told[p] /\ r = h.result
    OBVIOUS
  <2>2. /\ told'[p] = Append(w, r) /\ r \in Results /\ w \in Seq(Results) /\ n = Len(w)
        /\ n \in Nat
    BY <1>1, <1>4, <1>5, <2>1
  <2>8. n \in Nat
    BY <2>2
  <2>3. /\ told'[p] \in Seq(Results) /\ Len(told'[p]) = n + 1 /\ told'[p][n + 1] = r
        /\ \A k \in 1 .. n : told'[p][k] = w[k]
    <3> DEFINE S == Results
    <3>1. r \in S /\ w \in Seq(S)
      BY <2>2
    <3> HIDE DEF S
    <3>2. /\ Append(w, r) \in Seq(S) /\ Len(Append(w, r)) = Len(w) + 1
          /\ Append(w, r)[Len(w) + 1] = r
          /\ \A k \in 1 .. Len(w) : Append(w, r)[k] = w[k]
      BY <3>1, AppendProperties
    <3>3. told'[p] = Append(w, r) /\ n = Len(w)
      BY <2>2
    <3> QED BY <3>2, <3>3 DEF S
  <2>4. \A k \in 1 .. n : w[k] # RPS_QUIT
    BY <1>3, <1>5, <2>1 DEF CountInv
  <2>5. Got(p) = n + 1 /\ Got(p)' = n + 1
    <3>1. Due(p)
      BY <1>1, <1>5 DEF Due
    <3>2. Got(p) = n + 1
      BY <3>1, <2>1 DEF Got
    <3>3. Got(p)' = n + 1 + 0
      BY <1>2, <2>3 DEF Got
    <3> QED BY <3>2, <3>3, <2>8
  <2>6. Over(p) <=> r = RPS_QUIT
    <3>1. /\ 1 \in DOMAIN outbox /\ outbox[1] = h
          /\ \A i \in DOMAIN outbox : outbox[i].to = p => outbox[i] = h
      <4>1. 1 \in DOMAIN outbox /\ outbox[1] = h
        BY ReplyFacts
      <4>2. player[p] = "signed up" /\ games[p].state # "QUIT"
        BY <1>3, <1>5 DEF RequestInv, EntryInv
      <4>3. h.to = p
        BY DEF IsNext
      <4> QED BY <4>1, <4>2, <4>3, <1>3 DEF OutboxInv
    <3>2. Over(p) <=> \E i \in DOMAIN outbox : outbox[i] = Tell(p, RPS_QUIT)
      BY <1>5, <2>1, <2>4 DEF Over
    <3>3. outbox[1] = Tell(outbox[1].to, outbox[1].result)
      BY <1>3, <3>1, OutboxTyped
    <3>4. h = Tell(p, r)
      <4>1. h = Tell(h.to, h.result)
        BY <3>1, <3>3
      <4> QED BY <4>1, <2>1 DEF IsNext
    <3>5. Tell(p, RPS_QUIT).to = p /\ Tell(p, RPS_QUIT).result = RPS_QUIT /\ Tell(p, r).result = r
      BY DEF Tell
    <3> QED BY <3>1, <3>2, <3>4, <3>5
  <2>7. Over(p)' <=> r = RPS_QUIT
    <3>1. Over(p)' <=> \E k \in 1 .. Len(told'[p]) : told'[p][k] = RPS_QUIT
      BY <1>2 DEF Over
    <3>2. \A k \in 1 .. n + 1 : k \in 1 .. n \/ k = n + 1
      BY <2>8
    <3>3. n + 1 \in 1 .. n + 1
      BY <2>8
    <3> QED BY <3>1, <3>2, <3>3, <2>3, <2>4
  <2> QED BY <1>2, <1>4, <1>5, <2>1, <2>3, <2>4, <2>5, <2>6, <2>7
<1>6. CASE ~ Asks(p, "RPS_REQ_PLAY")
  <2>1. told'[p] = told[p]
    BY <1>1, <1>6
  <2>2. Got(p)' = Got(p) /\ (Over(p) <=> Over(p)')
    BY <2>1, <1>2, <1>6 DEF Got, Due, Over
  <2> QED BY <1>2, <1>4, <1>6, <2>1, <2>2
<1> QED BY <1>5, <1>6

\* Nobody gives up a place, or is told more after quitting, by a reply.
LEMMA ReplyForward ==
  ASSUME RpsInv, ReplyNext, NEW h, NEW p \in Players, IsNext(h, p)
  PROVE  Forward
<1>1. /\ p \in Players /\ UNCHANGED <<games, thrown>>
      /\ \A q \in Players \ {p} : told'[q] = told[q]
      /\ ~ (phase[p] = "awaiting reply" /\ Asks(p, "RPS_REQ_PLAY")) => told' = told
  <2>1. UNCHANGED <<games, unmatched, server, player, thrown>>
    BY ReplyFacts, Zenon
  <2> QED BY <2>1, ReplyFor
<1>2. TypeOK
  BY DEF RpsInv
<1>3. ASSUME NEW q \in Players, games[q].state = "QUIT" PROVE told'[q] = told[q]
  <2>1. EntryInv(q) /\ RequestInv(q)
    BY DEF RpsInv, PlayerInv
  <2>2. ~ Asks(q, "RPS_REQ_PLAY")
    BY <2>1, <1>3 DEF EntryInv, RequestInv
  <2> QED BY <2>2, <1>1
<1>4. ASSUME NEW q \in Players
      PROVE  /\ Len(thrown'[q]) \in Nat /\ Len(thrown'[q]) >= Len(thrown[q])
             /\ \A j \in 1 .. Len(thrown[q]) : thrown'[q][j] = thrown[q][j]
  <2>1. PICK n : n = Len(thrown[q]) /\ n = Len(thrown'[q])
    BY <1>1
  <2>2. n \in Nat
    BY <2>1, <1>2, TypesOf
  <2>3. n >= n
    BY <2>2, NotLess
  <2> QED BY <2>1, <2>2, <2>3, <1>1
<1>5. \A q \in Players : games[q].state = "QUIT" => games'[q].state = "QUIT" /\ told'[q] = told[q]
  BY <1>1, <1>3
<1> QED BY <1>4, <1>5 DEF Forward


\* To whom the reply does not go, it does nothing.
LEMMA ReplyOther ==
  ASSUME RpsInv, ReplyNext, NEW h, NEW p \in Players, IsNext(h, p),
         NEW q \in Players, q # p
  PROVE  /\ phase'[q] = phase[q] /\ sent'[q] = sent[q] /\ told'[q] = told[q]
         /\ Answered(q)' <=> Answered(q)
         /\ Pending(q)' <=> Pending(q)
         /\ LeftWaiting(q)' <=> LeftWaiting(q)
<1>1. q \in Players \ {p}
  OBVIOUS
<1>2. \A o \in Players \ {p} :
              /\ phase'[o] = phase[o] /\ sent'[o] = sent[o] /\ told'[o] = told[o]
              /\ Answered(o)' <=> Answered(o)
              /\ Pending(o)' <=> Pending(o)
              /\ LeftWaiting(o)' <=> LeftWaiting(o)
  BY ReplyFor
<1> QED BY <1>1, <1>2

\* To a player that does not wait the reply is refused: it has quit.
LEMMA ReplyRefused ==
  ASSUME RpsInv, ReplyNext, NEW h, NEW p \in Players, IsNext(h, p), ~ Waits(p)
  PROVE  /\ player[p] = "quit" /\ ~ Asks(p, "RPS_REQ_PLAY") /\ ~ Asks(p, "RPS_REQ_PLAY")'
         /\ ~ Asks(p, "RPS_REQ_SIGNUP") /\ ~ Asks(p, "RPS_REQ_SIGNUP")'
         /\ phase' = phase /\ sent' = sent /\ told' = told /\ games[p].state = "QUIT"
<1>1. phase' = phase /\ sent' = sent /\ told' = told /\ games[p].state = "QUIT"
  BY ReplyFor DEF Waits
<1>2. EntryInv(p) /\ RequestInv(p)
  BY DEF RpsInv, PlayerInv
<1>3. player[p] = "quit" /\ ~ Asks(p, "RPS_REQ_PLAY") /\ ~ Asks(p, "RPS_REQ_SIGNUP")
  BY <1>1, <1>2 DEF EntryInv, RequestInv
<1>4. ~ Asks(p, "RPS_REQ_PLAY")' /\ ~ Asks(p, "RPS_REQ_SIGNUP")'
  BY <1>1, <1>3 DEF Asks
<1> QED BY <1>1, <1>3, <1>4

\* What was decided for anyone, and whether its game is over, is as before.
LEMMA ReplyRounds ==
  ASSUME RpsInv, ReplyNext, NEW h, NEW p \in Players, IsNext(h, p)
  PROVE  RoundsInv'
<1>1. ASSUME NEW q \in Players PROVE Got(q)' = Got(q) /\ (Over(q)' <=> Over(q))
  <2>1. CASE q = p /\ Waits(p)
    BY <2>1, ReplyCounts
  <2>2. CASE q = p /\ ~ Waits(p)
    <3>1. ~ Asks(p, "RPS_REQ_PLAY") /\ ~ Asks(p, "RPS_REQ_PLAY")' /\ told' = told
      BY <2>2, ReplyRefused
    <3>2. ~ Due(p) /\ ~ Due(p)'
      BY <3>1 DEF Due
    <3>3. Got(p)' = Got(p)
      BY <3>1, <3>2 DEF Got
    <3>4. Over(p)' <=> Over(p)
      BY <3>1 DEF Over
    <3> QED BY <2>2, <3>3, <3>4
  <2>3. CASE q # p
    <3>1. told'[q] = told[q] /\ sent'[q] = sent[q] /\ (Answered(q)' <=> Answered(q))
      BY <2>3, ReplyOther
    <3>2. Asks(q, "RPS_REQ_PLAY")' <=> Asks(q, "RPS_REQ_PLAY")
      BY <3>1 DEF Asks
    <3>3. Due(q)' <=> Due(q)
      BY <3>1, <3>2 DEF Due
    <3>4. Got(q)' = Got(q)
      BY <3>1, <3>3 DEF Got
    <3>5. (\E i \in DOMAIN outbox' : outbox'[i] = Tell(q, RPS_QUIT))
            <=> (\E i \in DOMAIN outbox : outbox[i] = Tell(q, RPS_QUIT))
      <4>1. /\ \A i \in DOMAIN outbox' : i + 1 \in DOMAIN outbox /\ outbox'[i] = outbox[i + 1] /\ i + 1 # 1
            /\ \A i \in DOMAIN outbox : i = 1 \/ \E j \in DOMAIN outbox' : i = j + 1
            /\ outbox[1] = h
        BY ReplyFacts
      <4>2. outbox[1] # Tell(q, RPS_QUIT)
        BY <2>3, <4>1 DEF Tell, IsNext
      <4> HIDE DEF RPS_QUIT
      <4>3. ASSUME NEW i \in DOMAIN outbox', outbox'[i] = Tell(q, RPS_QUIT)
            PROVE  \E k \in DOMAIN outbox : outbox[k] = Tell(q, RPS_QUIT)
        BY <4>1, <4>3
      <4>4. ASSUME NEW i \in DOMAIN outbox, outbox[i] = Tell(q, RPS_QUIT)
            PROVE  \E j \in DOMAIN outbox' : outbox'[j] = Tell(q, RPS_QUIT)
        <5>1. PICK j \in DOMAIN outbox' : i = j + 1
          BY <4>1, <4>2, <4>4
        <5>2. outbox'[j] = outbox[i]
          BY <4>1, <5>1
        <5> QED BY <4>4, <5>2
      <4> QED BY <4>3, <4>4
    <3>6. Over(q)' <=> Over(q)
      BY <3>1, <3>2, <3>5 DEF Over
    <3> QED BY <3>4, <3>6
  <2> QED BY <2>1, <2>2, <2>3
<1>2. games' = games
  <2>1. UNCHANGED <<games, unmatched, server, player, thrown>>
    BY ReplyFacts, Zenon
  <2> QED BY <2>1
<1> QED BY <1>1, <1>2 DEF RpsInv, RoundsInv

\* What the reply adds to told was right when it was decided, and still is.
LEMMA ReplyResults ==
  ASSUME RpsInv, ReplyNext, NEW h, NEW p \in Players, IsNext(h, p), NEW q \in Players
  PROVE  ResultsInv(q)'
<1>1. Forward
  BY ReplyForward
<1>2. games' = games /\ thrown' = thrown
  <2>1. UNCHANGED <<games, unmatched, server, player, thrown>>
    BY ReplyFacts, Zenon
  <2> QED BY <2>1
<1>3. \A i \in DOMAIN outbox' : \E j \in DOMAIN outbox : outbox[j] = outbox'[i]
  BY ReplyFacts
<1>4. CASE q # p
  <2>1. told'[q] = told[q] /\ sent'[q] = sent[q]
    BY <1>4, ReplyOther
  <2>2. Asks(q, "RPS_REQ_PLAY")' => Asks(q, "RPS_REQ_PLAY")
    BY <2>1 DEF Asks
  <2> QED BY <1>1, <1>2, <1>3, <2>1, <2>2, ResultsKept
<1>5. CASE q = p /\ ~ (Waits(p) /\ Asks(p, "RPS_REQ_PLAY"))
  <2>1. told'[p] = told[p] /\ ~ Asks(p, "RPS_REQ_PLAY")'
    BY <1>5, ReplyCounts, ReplyRefused
  <2> QED BY <1>1, <1>2, <1>5, <2>1, ResultsKept
<1>6. CASE q = p /\ Waits(p) /\ Asks(p, "RPS_REQ_PLAY")
  <2>1. PICK n : n = Len(told[p])
    OBVIOUS
  <2>2. /\ ~ Asks(p, "RPS_REQ_PLAY")' /\ n \in Nat
        /\ Len(told'[p]) = n + 1 /\ told'[p][n + 1] = h.result
        /\ \A k \in 1 .. n : told'[p][k] = told[p][k]
    BY <1>6, <2>1, ReplyCounts
  <2>3. TypeOK /\ EntryInv(p) /\ RequestInv(p) /\ ResultsInv(p)
    BY DEF RpsInv, PlayerInv
  <2>4. PICK o : o = games[p].opponent /\ o = games'[p].opponent /\ o \in Players
    <3>1. games[p].opponent # Nobody
      BY <1>6, <2>3 DEF EntryInv, RequestInv, Asks
    <3> QED BY <3>1, <2>3, <1>2, TypesOf
  <2>5. ASSUME NEW k \in 1 .. n + 1 PROVE Right(p, k, told'[p][k])
    <3>1. CASE k \in 1 .. n
      BY <3>1, <2>1, <2>2, <2>3 DEF ResultsInv
    <3>2. CASE k = n + 1
      <4>1. 1 \in DOMAIN outbox /\ outbox[1] = h
        BY ReplyFacts
      <4>2. outbox[1].to = p
        BY <4>1 DEF IsNext
      <4>3. Right(p, n + 1, h.result)
        BY <4>1, <4>2, <1>6, <2>1, <2>3 DEF ResultsInv
      <4> QED BY <3>2, <4>3, <2>2
    <3> QED BY <3>1, <3>2, <2>2
  <2>6. ASSUME NEW k \in 1 .. n + 1, NEW r, r = told'[p][k] PROVE Right(p, k, r)'
    <3>2. Right(p, k, r)
      BY <2>5, <2>6
    <3>3. k \in Nat \ {0} /\ thrown'[p][k] = thrown[p][k]
      BY <2>2, <1>2
    <3>4. /\ games[o].state = "QUIT" => games'[o].state = "QUIT" /\ told'[o] = told[o]
          /\ Len(thrown'[o]) \in Nat /\ Len(thrown'[o]) >= Len(thrown[o])
          /\ \A j \in 1 .. Len(thrown[o]) : thrown'[o][j] = thrown[o][j]
      BY <2>4, <1>1 DEF Forward
    <3>5. Len(thrown[o]) \in Nat
      BY <2>3, <2>4, TypesOf
    <3> QED BY <2>4, <3>2, <3>3, <3>4, <3>5, RightKept, Zenon
  <2>7. ASSUME NEW k \in 1 .. Len(told'[p]) PROVE Right(p, k, told[p][k])'
    <3>1. PICK r : r = told'[p][k]
      OBVIOUS
    <3>2. Right(p, k, r)'
      BY <2>2, <2>6, <3>1
    <3> QED BY <3>1, <3>2 DEF Right
  <2> QED BY <2>2, <2>7, <1>6 DEF ResultsInv
<1> QED BY <1>4, <1>5, <1>6


\* The player goes on, or has quit; all others are as before.
LEMMA ReplyPlayers ==
  ASSUME RpsInv, ReplyNext, NEW h, NEW p \in Players, IsNext(h, p), NEW q \in Players
  PROVE  PlayerInv(q)'
<1>1. games' = games /\ unmatched' = unmatched /\ player' = player /\ thrown' = thrown
  <2>1. UNCHANGED <<games, unmatched, server, player, thrown>>
    BY ReplyFacts, Zenon
  <2> QED BY <2>1
<1>2. PlayerInv(q) /\ PlayerInv(p) /\ TypeOK
  BY DEF RpsInv
<1>3. CASE q # p
  <2>1. phase'[q] = phase[q] /\ sent'[q] = sent[q] /\ told'[q] = told[q]
    BY <1>3, ReplyOther
  <2>2. /\ Answered(q)' <=> Answered(q)
        /\ Pending(q)' <=> Pending(q)
        /\ LeftWaiting(q)' <=> LeftWaiting(q)
    BY <1>3, ReplyOther
  <2>3. phase[q] \in {"running", "sending", "awaiting reply"}
    BY <1>2 DEF PlayerInv, RequestInv
  <2> QED BY <1>1, <1>2, <2>1, <2>2, <2>3, PlayerKept
<1>4. ~ Pending(p) /\ ~ Pending(p)' /\ Answered(p) /\ ~ LeftWaiting(p)
  BY ReplyFor
<1>5. CASE q = p /\ Waits(p)
  <2>1. phase[p] = "awaiting reply" /\ phase'[p] = "running" /\ sent'[p] = NoMessage
    BY <1>5, ReplyFor DEF Waits
  <2>2. /\ ~ Asks(p, "RPS_REQ_PLAY")' /\ ~ Asks(p, "RPS_REQ_SIGNUP")' /\ ~ Asks(p, "RPS_REQ_QUIT")'
        /\ ~ LeftWaiting(p)'
    <3>1. sent'[p].type = "none"
      <4>1. sent'[p] = NoMessage
        BY <2>1
      <4> QED BY <4>1 DEF NoMessage
    <3>2. ~ LeftWaiting(p)'
      BY <2>1 DEF LeftWaiting
    <3> QED BY <3>1, <3>2 DEF Asks
  <2>3. player[p] # "new"
    BY <1>2, <2>1 DEF PlayerInv, RequestInv
  <2>4. RequestInv(p)'
    BY <1>2, <2>1, <2>2, <2>3 DEF RequestInv
  <2>5. EntryInv(p)'
    BY <1>1, <1>2, <1>4, <2>2 DEF PlayerInv, EntryInv
  <2>6. CountInv(p)'
    <3>1. CountInv(p) /\ player'[p] # "new"
      BY <1>1, <1>2, <2>3 DEF PlayerInv
    <3>2. CASE Asks(p, "RPS_REQ_PLAY")
      <4>1. PICK n : n = Len(told[p])
        OBVIOUS
      <4>2. /\ n \in Nat /\ Len(told'[p]) = n + 1
            /\ \A k \in 1 .. n : told'[p][k] = told[p][k] /\ told[p][k] # RPS_QUIT
        BY <1>5, <3>2, <4>1, ReplyCounts
      <4>3. Len(thrown'[p]) = n + 1
        BY <1>1, <3>1, <3>2, <4>1 DEF CountInv
      <4>4. \A k \in 1 .. n + 1 : told'[p][k] = RPS_QUIT => k = n + 1
        BY <4>2
      <4>5. n + 1 + 0 = n + 1
        BY <4>2
      <4> QED BY <2>2, <3>1, <4>2, <4>3, <4>4, <4>5 DEF CountInv
    <3>3. CASE ~ Asks(p, "RPS_REQ_PLAY")
      <4>1. told'[p] = told[p]
        BY <1>5, <3>3, ReplyCounts
      <4> QED BY <1>1, <2>2, <3>1, <3>3, <4>1 DEF CountInv
    <3> QED BY <3>2, <3>3
  <2> QED BY <1>5, <2>4, <2>5, <2>6 DEF PlayerInv
<1>6. CASE q = p /\ ~ Waits(p)
  <2>1. /\ phase' = phase /\ sent' = sent /\ told' = told
        /\ player[p] = "quit" /\ ~ Asks(p, "RPS_REQ_PLAY") /\ ~ Asks(p, "RPS_REQ_PLAY")'
        /\ ~ Asks(p, "RPS_REQ_SIGNUP") /\ ~ Asks(p, "RPS_REQ_SIGNUP")'
    BY <1>6, ReplyRefused
  <2>2. RequestInv(p)'
    BY <1>1, <1>2, <2>1 DEF PlayerInv, RequestInv, Asks
  <2>3. EntryInv(p)'
    BY <1>1, <1>2, <1>4, <2>1 DEF PlayerInv, EntryInv
  <2>4. CountInv(p)'
    BY <1>1, <1>2, <2>1 DEF PlayerInv, CountInv
  <2> QED BY <1>6, <2>2, <2>3, <2>4 DEF PlayerInv
<1> QED BY <1>3, <1>5, <1>6

\* The replies that are left are still to tasks that wait, one to each.
LEMMA ReplyOutbox ==
  ASSUME RpsInv, ReplyNext, NEW h, NEW p \in Players, IsNext(h, p)
  PROVE  OutboxInv'
<1>1. games' = games
  <2>1. UNCHANGED <<games, unmatched, server, player, thrown>>
    BY ReplyFacts, Zenon
  <2> QED BY <2>1
<1>2. OutboxInv /\ TypeOK
  BY DEF RpsInv
<1>3. \A i \in DOMAIN outbox' : i + 1 \in DOMAIN outbox /\ outbox'[i] = outbox[i + 1]
  BY ReplyFacts
<1>4. Answered(p)' => games[p].state = "QUIT"
  BY ReplyFor
<1>5. ASSUME NEW i \in DOMAIN outbox', NEW q, q = outbox'[i].to
      PROVE  /\ phase'[q] = "awaiting reply" \/ games'[q].state = "QUIT"
             /\ sent'[q].type = "RPS_REQ_PLAY" => outbox'[i].result \in Results
  <2>1. PICK k \in DOMAIN outbox : outbox[k] = outbox'[i]
    BY <1>3
  <2>2. q \in Players
    BY <2>1, <1>2, <1>5, OutboxTyped
  <2>3. /\ phase[q] = "awaiting reply" \/ games[q].state = "QUIT"
        /\ Asks(q, "RPS_REQ_PLAY") => outbox'[i].result \in Results
    BY <2>1, <1>2, <1>5 DEF OutboxInv
  <2>4. CASE q # p
    <3>1. phase'[q] = phase[q] /\ sent'[q] = sent[q]
      BY <2>2, <2>4, ReplyOther
    <3>2. Asks(q, "RPS_REQ_PLAY")' <=> Asks(q, "RPS_REQ_PLAY")
      BY <3>1 DEF Asks
    <3> QED BY <2>3, <3>1, <3>2, <1>1 DEF Asks
  <2>5. CASE q = p
    <3>1. games'[q].state = "QUIT"
      BY <2>5, <1>1, <1>4, <1>5 DEF Answered
    <3>2. ~ Asks(q, "RPS_REQ_PLAY")'
      BY <2>5, ReplyCounts, ReplyRefused
    <3> QED BY <3>1, <3>2 DEF Asks
  <2> QED BY <2>4, <2>5
<1>6. ASSUME NEW i \in DOMAIN outbox', NEW j \in DOMAIN outbox', outbox'[i].to = outbox'[j].to
      PROVE  i = j \/ games'[outbox'[i].to].state = "QUIT"
  <2>1. PICK a, b : a = i + 1 /\ b = j + 1
    OBVIOUS
  <2>2. a \in DOMAIN outbox /\ b \in DOMAIN outbox /\ outbox[a] = outbox'[i] /\ outbox[b] = outbox'[j]
    BY <1>3, <2>1
  <2>3. a = b \/ games[outbox[a].to].state = "QUIT"
    BY <2>2, <1>2, <1>6 DEF OutboxInv
  <2>4. i \in Int /\ j \in Int
    <3> DEFINE T == [to : Players, result : Results \cup {NoResult}]
    <3>1. outbox' \in Seq(T)
      BY ReplyFacts
    <3> HIDE DEF T
    <3>2. Len(outbox') \in Nat /\ DOMAIN outbox' = 1 .. Len(outbox')
      BY <3>1, LenProperties
    <3> QED BY <3>2
  <2>5. a = b => i = j
    BY <2>1, <2>4
  <2> QED BY <2>2, <2>3, <2>5, <1>1
<1>7. \A i \in DOMAIN outbox' :
        LET q == outbox'[i].to
        IN  /\ phase'[q] = "awaiting reply" \/ games'[q].state = "QUIT"
            /\ sent'[q].type = "RPS_REQ_PLAY" => outbox'[i].result \in Results
  BY <1>5
<1> QED BY <1>6, <1>7 DEF OutboxInv, Asks

LEMMA ReplyKeeps ==
  ASSUME RpsInv, ReplyNext
  PROVE  RpsInv'
<1>1. PICK h, p : IsNext(h, p)
  BY DEF IsNext
<1>2. p \in Players /\ IpcInv' /\ ServerInv' /\ TypeOK'
  BY <1>1, ReplyFor
<1>3. games' = games
  <2>1. UNCHANGED <<games, unmatched, server, player, thrown>>
    BY <1>1, ReplyFacts, Zenon
  <2> QED BY <2>1
<1>4. OutboxInv /\ TypeOK /\ OutboxInv'
  BY <1>1, <1>2, ReplyOutbox DEF RpsInv
<1>7. \A q \in Players : PlayerInv(q)'
  BY <1>1, <1>2, ReplyPlayers
<1>8. \A q \in Players : ResultsInv(q)'
  BY <1>1, <1>2, ReplyResults
<1>9. RoundsInv'
  BY <1>1, <1>2, ReplyRounds
<1>10. OpponentsInv'
  BY <1>3, Opponents
<1> QED BY <1>2, <1>7, <1>8, <1>9, <1>10, <1>4 DEF RpsInv


-----------------------------------------------------------------------------
(* Every step keeps the invariant, and the properties follow from it.      *)

LEMMA HandleSignupKeeps == ASSUME RpsInv, HandleSignup PROVE RpsInv'
BY FirstSignupKeeps, SecondSignupKeeps

\* A player that is not ACTIVE does not play: there is nothing to ignore.
LEMMA HandlePlayKeeps == ASSUME RpsInv, HandlePlay PROVE RpsInv'
<1>1. PICK p, o : p = sender[Server] /\ o = games[p].opponent
  OBVIOUS
<1>2. games[p].state = "ACTIVE" /\ o \in Players
  BY <1>1, PlayFacts
<1>3. games[o].state \in {"ACTIVE", "WAITING", "QUIT"}
  BY <1>1, <1>2 DEF HandlePlay
<1> QED BY <1>1, <1>3, FirstThrowKeeps, SecondThrowKeeps, LateThrowKeeps

LEMMA StepKeeps == RpsInv /\ [Next]_vars => RpsInv'
<1> SUFFICES ASSUME RpsInv, [Next]_vars PROVE RpsInv'
  OBVIOUS
<1>1. ASSUME NEW p \in Players, PlayerStep(p) PROVE RpsInv'
  BY <1>1, SignupKeeps, PlayKeeps, QuitKeeps DEF PlayerStep
<1>2. CASE ServerStep
  BY <1>2, ReceiveKeeps, HandleSignupKeeps, HandlePlayKeeps, HandleQuitKeeps, ReplyKeeps,
     AllRepliedKeeps DEF ServerStep
<1>3. CASE UNCHANGED vars
  BY <1>3, StutterKeeps
<1> QED BY <1>1, <1>2, <1>3 DEF Next

\* At any time the requests, the replies, the entries of games[] and what the
\* players have thrown and been told fit together.
THEOREM RpsInvariant == Spec => []RpsInv
BY InitHolds, StepKeeps, PTL DEF Spec

\* Who has an opponent has another player, and not one that waits as well.
LEMMA InvConsistent == RpsInv => GamesConsistent
<1> SUFFICES ASSUME RpsInv PROVE GamesConsistent
  OBVIOUS
<1>1. TypeOK /\ OpponentsInv /\ Nobody \notin Players
  BY ServerIs DEF RpsInv
<1>2. \A p, q \in Players : games[p].opponent = q => games[q].opponent = p /\ q # p
  BY <1>1 DEF OpponentsInv
<1>3. ASSUME NEW p \in Players
      PROVE  /\ unmatched = p <=> LeftWaiting(p) /\ sent[p].type = "RPS_REQ_SIGNUP"
             /\ games[p].state = "WAITING" <=> LeftWaiting(p) /\ sent[p].type = "RPS_REQ_PLAY"
             /\ unmatched = p => games[p].opponent = Nobody
             /\ games[p].state = "WAITING" =>
                  /\ games[games[p].opponent].state # "WAITING"
                  /\ games[p].choice = sent[p].choice
  <2>1. EntryInv(p) /\ RequestInv(p)
    BY DEF RpsInv, PlayerInv
  <2>2. /\ unmatched = p <=> LeftWaiting(p) /\ sent[p].type = "RPS_REQ_SIGNUP"
        /\ games[p].state = "WAITING" <=> LeftWaiting(p) /\ sent[p].type = "RPS_REQ_PLAY"
        /\ games[p].state = "WAITING" => games[p].choice = sent[p].choice
    BY <2>1 DEF EntryInv, Asks
  <2>3. unmatched = p => games[p].opponent = Nobody
    <3>1. LeftWaiting(p) => ~ Answered(p)
      BY DEF LeftWaiting, Answered
    <3> QED BY <2>1, <3>1 DEF EntryInv
  <2>4. games[p].state = "WAITING" => games[games[p].opponent].state # "WAITING"
    <3>1. SUFFICES ASSUME games[p].state = "WAITING"
                   PROVE  games[games[p].opponent].state # "WAITING"
      OBVIOUS
    <3>2. player[p] = "signed up" /\ ~ Asks(p, "RPS_REQ_SIGNUP")
      BY <2>1, <3>1 DEF EntryInv, RequestInv, Asks
    <3>3. games[p].opponent # Nobody
      BY <2>1, <3>2 DEF EntryInv
    <3>4. games[p].opponent \in Players
      BY <3>3, <1>1, TypesOf
    <3> QED BY <3>1, <3>4, <1>1 DEF OpponentsInv
  <2> QED BY <2>2, <2>3, <2>4
<1> QED BY <1>1, <1>2, <1>3 DEF GamesConsistent

\* Opponents are each other's, and the server knows who waits for whom: for
\* any number of players, by unmatched and by the state WAITING in games[].
THEOREM GamesAreConsistent == Spec => []GamesConsistent
BY RpsInvariant, InvConsistent, PTL

\* Told anything a player has an opponent, and a QUIT entry is of one that quit.
LEMMA InvResults == RpsInv => ResultsMatchThrows
<1> SUFFICES ASSUME RpsInv, NEW p \in Players, NEW k \in DOMAIN told[p], NEW o,
                    o = games[p].opponent
             PROVE  IF told[p][k] = RPS_QUIT THEN player[o] = "quit" /\ k > Len(told[o])
                    ELSE /\ k <= Len(thrown[o])
                         /\ told[p][k] = RpsGetResult(thrown[p][k], thrown[o][k])
  BY DEF ResultsMatchThrows
<1>1. TypeOK /\ EntryInv(p) /\ CountInv(p) /\ ResultsInv(p) /\ Nobody \notin Players
  BY ServerIs DEF RpsInv, PlayerInv
<1>2. k \in 1 .. Len(told[p]) /\ told[p] # <<>>
  <2>1. told[p] \in Seq(Results)
    BY <1>1, TypesOf
  <2> HIDE DEF Results
  <2>2. DOMAIN told[p] = 1 .. Len(told[p])
    BY <2>1, LenProperties
  <2>3. told[p] = <<>> => DOMAIN told[p] = {}
    OBVIOUS
  <2> QED BY <2>2, <2>3
<1>3. player[p] # "new" /\ ~ Asks(p, "RPS_REQ_SIGNUP")
  BY <1>1, <1>2 DEF CountInv
<1>4. o \in Players
  BY <1>1, <1>3, TypesOf DEF EntryInv
<1>5. Right(p, k, told[p][k])
  BY <1>1, <1>2 DEF ResultsInv
<1>6. games[o].state = "QUIT" => player[o] = "quit"
  BY <1>4 DEF RpsInv, PlayerInv, EntryInv
<1> QED BY <1>5, <1>6 DEF Right

\* For any number of players and any goal: the k-th result that RpsPlay returns
\* is that of the two k-th throws, and RPS_QUIT comes only after the opponent
\* has quit, in the place of a result that this one has not been given either.
THEOREM ResultsAreRight == Spec => []ResultsMatchThrows
BY RpsInvariant, InvResults, PTL
=============================================================================
