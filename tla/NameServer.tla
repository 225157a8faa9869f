------------------------------ MODULE NameServer ------------------------------
(***************************************************************************)
(* The name server of usr/nameserver.c, over the table of HashTable, and   *)
(* the tasks that call RegisterAs and WhoIs.                               *)
(***************************************************************************)
EXTENDS HashTable, Ipc

CONSTANTS
  Clients,  \* the tasks that call the server
  Names     \* the names they use, by their hashes

Server == "name-server"

ASSUME NameServerAssumption ==
  /\ Tasks = Clients \cup {Server} /\ {Server, Nobody} \cap Clients = {}
  /\ Names \subseteq Nat \ {HT_SENTINEL}

VARIABLES
  ht,              \* the table
  nameserver_tid,  \* the global that RegisterAs and WhoIs send to
  server,          \* where NameServer is: "initialize", "receive", "handle"
  answer           \* what each client's latest call returned

vars == <<ipcVars, ht, nameserver_tid, server, answer>>

\* RETURN_STATUS_OK of RegisterAs, the tid that WhoIs returns, and the errors.
NoAnswer == [status |-> "none", tid |-> Nobody]
OK(t) == [status |-> "OK", tid |-> t]
ERR_INVALID_NAMESERVER_TID == [status |-> "invalid name server", tid |-> Nobody]
ERR_LOOKUP_FAILED == [status |-> "lookup failed", tid |-> Nobody]

-----------------------------------------------------------------------------
(* RegisterAs and WhoIs.                                                   *)

Request(c, type, n) ==
  /\ Runs(c)
  /\ IF nameserver_tid = Nobody
     THEN /\ answer' = [answer EXCEPT ![c] = ERR_INVALID_NAMESERVER_TID]
          /\ UNCHANGED ipcVars
     ELSE /\ answer' = [answer EXCEPT ![c] = NoAnswer]
          /\ Send(c, nameserver_tid, [type |-> type, name |-> n])
  /\ UNCHANGED <<ht, nameserver_tid, server>>

RegisterAs(c) == \E n \in Names : Request(c, "NS_REGISTER_AS", n)
WhoIs(c) == \E n \in Names : Request(c, "NS_WHO_IS", n)

-----------------------------------------------------------------------------
(* NameServer.                                                             *)

Initialize ==
  /\ server = "initialize"
  /\ ht' = HashTableInitialize
  /\ nameserver_tid' = Server
  /\ server' = "receive"
  /\ UNCHANGED <<ipcVars, answer>>

ReceiveRequest ==
  /\ server = "receive"
  /\ Receive(Server)
  /\ server' = "handle"
  /\ UNCHANGED <<ht, nameserver_tid, answer>>

HandleWhoIs(c, n) ==
  /\ \E found \in HashTableGet(ht, n) :
       answer' = [answer EXCEPT ![c] = IF found.ok THEN OK(found.data)
                                       ELSE ERR_LOOKUP_FAILED]
  /\ UNCHANGED ht

HandleRegisterAs(c, n) ==
  \E beyond \in [Beyond -> Buckets] :
    LET inserted == HashTableInsert(ht, beyond, n, c)
    IN  /\ ht' = inserted.table
        /\ answer' = [answer EXCEPT ![c] = IF inserted.ok THEN OK(c)
                                           ELSE ERR_LOOKUP_FAILED]

\* Whatever the outcome, after the handler has determined it.
Mut_SilentOnFailure(c) ==
  IF answer'[c].status = "OK" THEN Reply(c) ELSE UNCHANGED ipcVars
Responds(c) == Reply(c)

Handle ==
  LET c == sender[Server]
      req == Received(Server)
  IN  /\ server = "handle" /\ Runs(Server)
      /\ IF req.type = "NS_WHO_IS" THEN HandleWhoIs(c, req.name)
         ELSE HandleRegisterAs(c, req.name)
      /\ Responds(c)
      /\ server' = "receive"
      /\ UNCHANGED nameserver_tid

-----------------------------------------------------------------------------
Init ==
  /\ IpcInit(Clients \cup {Server})
  /\ ht = HashTableInitialize
  /\ nameserver_tid = Nobody
  /\ server = "initialize"
  /\ answer = [c \in Clients |-> NoAnswer]

ServerStep == Initialize \/ ReceiveRequest \/ Handle
Next == ServerStep \/ \E c \in Clients : RegisterAs(c) \/ WhoIs(c)

Spec == Init /\ [][Next]_vars

\* The server is of a better priority than those it serves.
FairSpec == Spec /\ WF_vars(ServerStep)
-----------------------------------------------------------------------------
\* The types; and no key sits in another bucket than its own, where the
\* lookup of a name would find it too late and an insertion not at all.
TypeOK ==
  /\ \A i \in Buckets : ht[i].key \in {HT_SENTINEL} \cup {n \in Names : H(n) = i}
  /\ ht \in [Buckets -> [key : Names \cup {HT_SENTINEL}, data : Clients \cup {NoData}]]
  /\ nameserver_tid \in {Nobody, Server}
  /\ server \in {"initialize", "receive", "handle"}
  /\ answer \in [Clients -> [status : {"none", "OK", "invalid name server", "lookup failed"},
                             tid : Clients \cup {Nobody, ArbitraryData}]]

\* The task that a table has for a name, wherever it keeps it.
RegisteredIn(table, n) ==
  LET nodes == {i \in Buckets : table[i].key = n}
  IN  IF nodes = {} THEN Nobody ELSE table[CHOOSE i \in nodes : TRUE].data
Registrant(n) == RegisteredIn(ht, n)

SameBucket(m, n) == H(m) = H(n)

Registry == INSTANCE NameRegistry WITH
  Registrants <- Clients,
  Collides <- SameBucket,
  Unregistered <- Nobody,
  registry <- [n \in Names |-> Registrant(n)]

\* include/nameserver.h on RegisterAs: WhoIs "will return the task id of the
\* caller until the registration is overwritten", by another task under "the
\* given name".  The table keeps less: HashTableInsert writes the node of the
\* bucket though it looked for a free one, and the name that was there is lost.
\* What is checked is that nothing else is: no step changes the registration of
\* a name but one that registers it or registers a name of the same bucket.
\* The loss is permitted, not required: a table that used the node it found
\* for the new name would be a registry as well.
ImplementsRegistry == Registry!Spec

Returns(c, type) == sent[c].type = type /\ Blocked(c) /\ phase'[c] = "running"

\* WhoIs tells its caller, and nobody else, who has registered under the name
\* it asked for, and a name not registered is not found; a lookup that runs
\* past the end of the table may answer anything.
WhoIsAnswers ==
  [][\A c \in Clients :
       /\ Returns(c, "NS_WHO_IS") =>
            LET n == sent[c].name
            IN  \/ answer'[c] = IF Registrant(n) = Nobody THEN ERR_LOOKUP_FAILED
                                ELSE OK(Registrant(n))
                \/ /\ answer'[c].tid = ArbitraryData
                   /\ Registrant(n) = Nobody
                   /\ H(n) + HT_NEIGHBOURHOOD_SIZE > HT_SIZE
       /\ answer'[c] # answer[c] => Runs(c) \/ phase'[c] = "running"]_vars

\* RegisterAs that returns without error has registered its caller, and one
\* that fails has changed nothing.
RegisterAsAnswers ==
  [][\A c \in Clients : Returns(c, "NS_REGISTER_AS") =>
       LET n == sent[c].name
       IN  \/ answer'[c] = OK(c) /\ RegisteredIn(ht', n) = c
           \/ answer'[c] = ERR_LOOKUP_FAILED /\ ht' = ht]_vars

\* Every call returns.
CallsReturn == \A c \in Clients : Blocked(c) ~> Runs(c)
=============================================================================
