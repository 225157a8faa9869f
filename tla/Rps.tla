--------------------------------- MODULE Rps ---------------------------------
(***************************************************************************)
(* Rock, paper, scissors: RpsServer and the RpsClients of usr/rps.c.  Each *)
(* system call is a step of its own; a client throws what it likes until   *)
(* its score is high enough or it is told that its opponent has quit, and  *)
(* then quits.  The clients look the server up once it has registered.     *)
(***************************************************************************)
EXTENDS SequencesExt, Ipc

CONSTANTS
  Players,
  Goal      \* the score at which a client stops, 20 in the code

Server == "rps-server"

ASSUME RpsAssumption ==
  /\ Tasks = Players \cup {Server} /\ {Server, Nobody} \cap Players = {}
  /\ Goal \in Nat

VARIABLES
  games,      \* games[tid]: opponent, state and choice of the player
  unmatched,  \* the player who waits for an opponent
  server,     \* where RpsServer is: "receive", "handle", "reply"
  outbox,     \* the replies that are left of the request being handled
  player,     \* where each RpsClient is: "new", "signed up", "quit"
  thrown,     \* the throws of each player, and
  told        \* the results that its calls of RpsPlay have returned

serverVars == <<games, unmatched>>
vars == <<ipcVars, serverVars, server, outbox, player, thrown, told>>

RPS_ROCK == 0
RPS_PAPER == 1
RPS_SCISSORS == 2
Throws == {RPS_ROCK, RPS_PAPER, RPS_SCISSORS}

RPS_QUIT == -1
RPS_LOSS == 0
RPS_TIE == 1
RPS_WIN == 2
Results == {RPS_QUIT, RPS_LOSS, RPS_TIE, RPS_WIN}
NoResult == -2  \* of a reply without a message

\* Rock wins against scissors, and scissors against rock.
RpsGetResult(mine, theirs) ==
  IF mine = theirs THEN RPS_TIE
  ELSE IF (mine = RPS_ROCK /\ theirs = RPS_SCISSORS) \/ mine > theirs THEN RPS_WIN
  ELSE RPS_LOSS

-----------------------------------------------------------------------------
(* RpsClient.                                                              *)

cumulative_score(p) == FoldLeft(LAMBDA a, b : a + b, 0, told[p])
GoesOn(p) ==
  /\ cumulative_score(p) < Goal
  /\ told[p] # <<>> => Last(told[p]) >= 0

RpsSignup(p) ==
  /\ player[p] = "new"
  /\ Send(p, Server, [type |-> "RPS_REQ_SIGNUP"])
  /\ player' = [player EXCEPT ![p] = "signed up"]
  /\ UNCHANGED <<serverVars, server, outbox, thrown, told>>

RpsPlay(p) ==
  /\ player[p] = "signed up" /\ GoesOn(p)
  /\ \E choice \in Throws :
       /\ Send(p, Server, [type |-> "RPS_REQ_PLAY", choice |-> choice])
       /\ thrown' = [thrown EXCEPT ![p] = Append(@, choice)]
  /\ UNCHANGED <<serverVars, server, outbox, player, told>>

RpsQuit(p) ==
  /\ player[p] = "signed up" /\ ~ GoesOn(p)
  /\ Send(p, Server, [type |-> "RPS_REQ_QUIT"])
  /\ player' = [player EXCEPT ![p] = "quit"]
  /\ UNCHANGED <<serverVars, server, outbox, thrown, told>>

-----------------------------------------------------------------------------
(* RpsServer.                                                              *)

ReceiveRequest ==
  /\ server = "receive" /\ Receive(Server) /\ server' = "handle"
  /\ UNCHANGED <<serverVars, outbox, player, thrown, told>>

Handles(type) ==
  /\ server = "handle" /\ Runs(Server) /\ server' = "reply"
  /\ Received(Server).type = type
  /\ UNCHANGED <<ipcVars, player, thrown, told>>

Tell(p, result) == [to |-> p, result |-> result]

Mut_StillUnmatched(p) ==
  /\ games' = [games EXCEPT ![p].state = "ACTIVE",
                            ![p].opponent = unmatched, ![unmatched].opponent = p]
  /\ outbox' = <<Tell(unmatched, NoResult), Tell(p, NoResult)>>
  /\ UNCHANGED unmatched
MatchUp(p) ==
  /\ games' = [games EXCEPT ![p].state = "ACTIVE",
                            ![p].opponent = unmatched, ![unmatched].opponent = p]
  /\ outbox' = <<Tell(unmatched, NoResult), Tell(p, NoResult)>>
  /\ unmatched' = Nobody

HandleSignup ==
  LET p == sender[Server]
  IN  /\ Handles("RPS_REQ_SIGNUP")
      /\ IF unmatched = Nobody
         THEN /\ unmatched' = p
              /\ games' = [games EXCEPT ![p].state = "ACTIVE"]
              /\ outbox' = <<>>
         ELSE MatchUp(p)

\* The later of two throws ends the round, for both.
Mut_ResultsSwapped(p, mine, opp, theirs) ==
  <<Tell(p, RpsGetResult(theirs, mine)), Tell(opp, RpsGetResult(mine, theirs))>>
Mut_OpponentNotTold(p, mine, opp, theirs) == <<Tell(p, RpsGetResult(mine, theirs))>>
Round(p, mine, opp, theirs) ==
  <<Tell(p, RpsGetResult(mine, theirs)), Tell(opp, RpsGetResult(theirs, mine))>>

\* A player that is not ACTIVE is ignored: nothing of this is done.
HandlePlay ==
  LET p == sender[Server]
      opp == games[p].opponent
      choice == Received(Server).choice
      chosen == [games EXCEPT ![p].choice = choice]
  IN  /\ Handles("RPS_REQ_PLAY")
      /\ UNCHANGED unmatched
      /\ \/ /\ games[p].state # "ACTIVE"
            /\ games' = games /\ outbox' = <<>>
         \/ /\ games[p].state = "ACTIVE" /\ games[opp].state = "ACTIVE"
            /\ games' = [chosen EXCEPT ![p].state = "WAITING"]
            /\ outbox' = <<>>
         \/ /\ games[p].state = "ACTIVE" /\ games[opp].state = "WAITING"
            /\ games' = [chosen EXCEPT ![opp].state = "ACTIVE"]
            /\ outbox' = Round(p, choice, opp, games[opp].choice)
         \/ /\ games[p].state = "ACTIVE" /\ games[opp].state = "QUIT"
            /\ games' = chosen
            /\ outbox' = <<Tell(p, RPS_QUIT)>>

\* The news for a waiting opponent goes to the one who quits.
HandleQuit ==
  LET p == sender[Server]
      toOpponent == IF games[games[p].opponent].state = "WAITING"
                    THEN <<Tell(p, RPS_QUIT)>> ELSE <<>>
  IN  /\ Handles("RPS_REQ_QUIT")
      /\ games' = [games EXCEPT ![p].state = "QUIT"]
      /\ outbox' = toOpponent \o <<Tell(p, NoResult)>>
      /\ UNCHANGED unmatched

\* Only a caller of RpsPlay has a place for the result.
ReplyNext ==
  LET p == Head(outbox).to
  IN  /\ server = "reply" /\ outbox # <<>>
      /\ Reply(p)
      /\ told' = IF phase[p] = "awaiting reply" /\ sent[p].type = "RPS_REQ_PLAY"
                 THEN [told EXCEPT ![p] = Append(@, Head(outbox).result)] ELSE told
      /\ outbox' = Tail(outbox)
      /\ UNCHANGED <<serverVars, server, player, thrown>>

AllReplied ==
  /\ server = "reply" /\ outbox = <<>> /\ server' = "receive"
  /\ UNCHANGED <<ipcVars, serverVars, outbox, player, thrown, told>>

-----------------------------------------------------------------------------
\* games[] is not initialised; a player is told of its opponent after both
\* entries have been written.
Init ==
  /\ IpcInit(Tasks)
  /\ games = [p \in Players |-> [opponent |-> Nobody, state |-> "garbage", choice |-> RPS_ROCK]]
  /\ unmatched = Nobody
  /\ server = "receive"
  /\ outbox = <<>>
  /\ player = [p \in Players |-> "new"]
  /\ thrown = [p \in Players |-> <<>>] /\ told = [p \in Players |-> <<>>]

PlayerStep(p) == RpsSignup(p) \/ RpsPlay(p) \/ RpsQuit(p)
ServerStep ==
  ReceiveRequest \/ HandleSignup \/ HandlePlay \/ HandleQuit \/ ReplyNext \/ AllReplied

Next == ServerStep \/ \E p \in Players : PlayerStep(p)

Spec == Init /\ [][Next]_vars

\* Tasks of one priority run in turn, and none of these computes for ever.
FairSpec == Spec /\ WF_vars(ServerStep) /\ \A p \in Players : WF_vars(PlayerStep(p))
-----------------------------------------------------------------------------
TypeOK ==
  /\ games \in [Players -> [opponent : Players \cup {Nobody}, choice : Throws,
                            state : {"garbage", "ACTIVE", "WAITING", "QUIT"}]]
  /\ unmatched \in Players \cup {Nobody}
  /\ server \in {"receive", "handle", "reply"}
  /\ outbox \in Seq([to : Players, result : Results \cup {NoResult}])
  /\ player \in [Players -> {"new", "signed up", "quit"}]
  /\ thrown \in [Players -> Seq(Throws)]
  /\ told \in [Players -> Seq(Results)]

\* The request of p has been received and no reply to it is under way.
LeftWaiting(p) ==
  /\ phase[p] = "awaiting reply"
  /\ ~ (server = "handle" /\ Runs(Server) /\ sender[Server] = p)
  /\ \A i \in DOMAIN outbox : outbox[i].to # p

\* Opponents are each other's, and no third player has one of them.  Who is
\* left waiting is the unmatched player, or has thrown while its opponent has
\* not; the server knows, by unmatched and by the state WAITING, who that is.
GamesConsistent ==
  /\ TypeOK
  /\ \A p, q \in Players : games[p].opponent = q => games[q].opponent = p /\ q # p
  /\ \A p \in Players :
       /\ unmatched = p <=> LeftWaiting(p) /\ sent[p].type = "RPS_REQ_SIGNUP"
       /\ games[p].state = "WAITING" <=> LeftWaiting(p) /\ sent[p].type = "RPS_REQ_PLAY"
       /\ unmatched = p => games[p].opponent = Nobody
       /\ games[p].state = "WAITING" =>
            /\ games[games[p].opponent].state # "WAITING"
            /\ games[p].choice = sent[p].choice

\* The k-th result that a player is told is the one of its k-th throw and of
\* its opponent's k-th, however far one of them is ahead; and a player is told
\* that the game is over only after its opponent has quit.
ResultsMatchThrows ==
  \A p \in Players : \A k \in DOMAIN told[p] :
    LET opp == games[p].opponent
    IN  IF told[p][k] = RPS_QUIT THEN player[opp] = "quit" /\ k > Len(told[opp])
        ELSE /\ k <= Len(thrown[opp])
             /\ told[p][k] = RpsGetResult(thrown[p][k], thrown[opp][k])

\* RpsPlay returns, unless the opponent quits when the player has thrown
\* already; RpsQuit returns, and so does RpsSignup if there is an opponent.
CallsReturn ==
  \A p \in Players :
    Blocked(p) ~> \/ Runs(p) \/ unmatched = p
                  \/ /\ games[p].state = "WAITING"
                     /\ games[games[p].opponent].state = "QUIT"
=============================================================================
