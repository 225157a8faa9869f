--------------------------- MODULE NameServerProofs ---------------------------
(***************************************************************************)
(* For any clients, names and size of the table: the name server is the    *)
(* registry of NameRegistry, and its answers are those of the registry.    *)
(***************************************************************************)
EXTENDS NameServer, IpcProofs

Requests == [type : {"NS_REGISTER_AS", "NS_WHO_IS"}, name : Names]

\* A name is in the node of its own bucket or nowhere, with a task's tid.
TableInv ==
  /\ ht \in [Buckets -> [key : Names \cup {HT_SENTINEL}, data : Clients \cup {NoData}]]
  /\ \A i \in Buckets : ht[i].key # HT_SENTINEL => H(ht[i].key) = i /\ ht[i].data \in Clients

\* While the server handles a request its client waits for the reply, and
\* every other client that is blocked has sent a request.
ServerInv ==
  /\ server \in {"initialize", "receive", "handle"}
  /\ nameserver_tid = IF server = "initialize" THEN Nobody ELSE Server
  /\ server = "initialize" => ht = HashTableInitialize
  /\ phase[Server] \in {"running", "receiving"}
  /\ server # "handle" => Runs(Server)
  /\ server = "handle" /\ Runs(Server) =>
       sender[Server] \in Clients /\ phase[sender[Server]] = "awaiting reply"

ClientInv ==
  \A c \in Clients : phase[c] \in {"running", "sending", "awaiting reply"}
                     /\ (Blocked(c) => sent[c] \in Requests)

Answers ==
  answer \in [Clients -> [status : {"none", "OK", "invalid name server", "lookup failed"},
                          tid : Clients \cup {Nobody, ArbitraryData}]]

NameInv == IpcInv /\ TableInv /\ ServerInv /\ ClientInv /\ Answers

-----------------------------------------------------------------------------
(* The table.                                                              *)

LEMMA BucketOf == \A n \in Nat : H(n) \in Buckets
BY HashTableAssumption DEF H, Buckets

\* A key that can only be in its bucket is registered there or nowhere.
LEMMA RegisteredIs ==
  ASSUME NEW table, NEW n \in Names, H(n) \in Buckets,
         \A i \in Buckets : table[i].key = n => i = H(n)
  PROVE  RegisteredIn(table, n) = IF table[H(n)].key = n THEN table[H(n)].data ELSE Nobody
<1> DEFINE nodes == {i \in Buckets : table[i].key = n}
<1>1. CASE table[H(n)].key = n
  <2>1. nodes = {H(n)}
    BY <1>1
  <2>2. (CHOOSE i \in nodes : TRUE) = H(n)
    BY <2>1
  <2> QED BY <1>1, <2>1, <2>2 DEF RegisteredIn
<1>2. CASE table[H(n)].key # n
  <2>1. nodes = {}
    BY <1>2
  <2> QED BY <1>2, <2>1 DEF RegisteredIn
<1> QED BY <1>1, <1>2

\* What a name's registrant is.
LEMMA RegistrantIs ==
  ASSUME TableInv, NEW n \in Names
  PROVE  /\ H(n) \in Buckets /\ n # HT_SENTINEL
         /\ ht[H(n)].key = n => Registrant(n) = ht[H(n)].data /\ Registrant(n) \in Clients
         /\ ht[H(n)].key # n => Registrant(n) = Nobody
<1>1. n \in Nat /\ n # HT_SENTINEL /\ H(n) \in Buckets
  BY NameServerAssumption, BucketOf
<1>2. \A i \in Buckets : ht[i].key = n => i = H(n) /\ ht[i].data \in Clients
  BY <1>1 DEF TableInv
<1>3. RegisteredIn(ht, n) = IF ht[H(n)].key = n THEN ht[H(n)].data ELSE Nobody
  BY <1>1, <1>2, RegisteredIs
<1> QED BY <1>1, <1>2, <1>3 DEF Registrant

\* HashTableGet finds a name that is registered, and no other.
LEMMA GetIs ==
  ASSUME TableInv, NEW n \in Names, NEW found \in HashTableGet(ht, n)
  PROVE  /\ Registrant(n) # Nobody => found = Found(Registrant(n))
         /\ Registrant(n) = Nobody =>
              \/ found = NotFound
              \/ found = Found(ArbitraryData) /\ H(n) + HT_NEIGHBOURHOOD_SIZE > HT_SIZE
<1> DEFINE M == Matches(ht, n)
<1>1. \A i \in M : i \in Buckets /\ ht[i].key = n
  BY DEF Matches
<1>2. M \subseteq {H(n)}
  BY <1>1, RegistrantIs DEF TableInv
<1>3. H(n) \in Buckets /\ (ht[H(n)].key = n => H(n) \in M)
  <2>1. H(n) - H(n) \in Neighbourhood
    BY RegistrantIs, HashTableAssumption DEF Buckets, Neighbourhood
  <2> QED BY <2>1, RegistrantIs DEF Matches
<1>4. CASE ht[H(n)].key = n
  <2> DEFINE first == CHOOSE i \in M : \A j \in M : i <= j
  <2>1. M = {H(n)} /\ H(n) <= H(n)
    BY <1>2, <1>3, <1>4 DEF Buckets
  <2>2. \E i \in M : \A j \in M : i <= j
    BY <2>1
  <2>3. first \in M
    BY <2>2
  <2>4. first = H(n) /\ M # {}
    BY <2>1, <2>3
  <2>5. HashTableGet(ht, n) = {Found(ht[first].data)}
    BY <2>4 DEF HashTableGet
  <2>6. found = Found(ht[H(n)].data)
    BY <2>4, <2>5
  <2>7. Registrant(n) = ht[H(n)].data /\ Registrant(n) # Nobody
    BY <1>4, RegistrantIs, NameServerAssumption
  <2> QED BY <2>6, <2>7
<1>5. CASE ht[H(n)].key # n
  <2>1. M = {} /\ Registrant(n) = Nobody
    BY <1>1, <1>2, <1>5, RegistrantIs
  <2> QED BY <2>1 DEF HashTableGet
<1> QED BY <1>4, <1>5

\* An insertion writes the node of the bucket, or nothing.
LEMMA InsertIs ==
  ASSUME TableInv, NEW n \in Names, NEW c \in Clients, NEW beyond, TRUE
  PROVE  LET inserted == HashTableInsert(ht, beyond, n, c)
             node == [key |-> n, data |-> c]
         IN  \/ inserted = [ok |-> TRUE, table |-> [ht EXCEPT ![H(n)] = node]]
             \/ inserted = [ok |-> FALSE, table |-> ht]
BY DEF HashTableInsert, Written

LEMMA TableWritten ==
  ASSUME TableInv, NEW n \in Names, NEW c \in Clients,
         ht' = [ht EXCEPT ![H(n)] = [key |-> n, data |-> c]]
  PROVE  /\ TableInv'
         /\ \A m \in Names : RegisteredIn(ht', m) = IF m = n THEN c
                                                   ELSE IF SameBucket(m, n) THEN Nobody
                                                   ELSE Registrant(m)
<1> DEFINE node == [key |-> n, data |-> c]
<1>1. /\ H(n) \in Buckets /\ node.key = n /\ node.data = c
      /\ node \in [key : Names \cup {HT_SENTINEL}, data : Clients \cup {NoData}]
  BY RegistrantIs
<1> HIDE DEF node
<1>2. /\ ht' \in [Buckets -> [key : Names \cup {HT_SENTINEL}, data : Clients \cup {NoData}]]
      /\ ht'[H(n)] = node /\ \A i \in Buckets : i # H(n) => ht'[i] = ht[i]
  BY <1>1 DEF TableInv, node
<1>3. TableInv'
  BY <1>1, <1>2 DEF TableInv
<1>4. \A m \in Names : H(m) \in Buckets
  BY RegistrantIs
<1>5. ASSUME NEW m \in Names
      PROVE  RegisteredIn(ht', m) = IF m = n THEN c
                                    ELSE IF SameBucket(m, n) THEN Nobody ELSE Registrant(m)
  <2>1. m \in Nat /\ m # HT_SENTINEL /\ H(m) \in Buckets
    BY <1>4, NameServerAssumption
  <2>2. \A i \in Buckets : ht[i].key = m => i = H(m)
    BY <2>1 DEF TableInv
  <2>3. \A i \in Buckets : ht'[i].key = m => i = H(m)
    BY <1>1, <1>2, <2>2
  <2>4. RegisteredIn(ht, m) = IF ht[H(m)].key = m THEN ht[H(m)].data ELSE Nobody
    BY <2>1, <2>2, RegisteredIs
  <2>5. RegisteredIn(ht', m) = IF ht'[H(m)].key = m THEN ht'[H(m)].data ELSE Nobody
    BY <2>1, <2>3, RegisteredIs
  <2> QED BY <1>1, <1>2, <2>1, <2>4, <2>5 DEF SameBucket, Registrant
<1> QED BY <1>3, <1>5

-----------------------------------------------------------------------------
(* The invariant.                                                          *)

LEMMA ServerIs == Server \in Tasks /\ Server \notin Clients /\ Clients \subseteq Tasks
                  /\ Tasks = Clients \cup {Server} /\ Server # Nobody
BY NameServerAssumption DEF Server, Nobody

LEMMA NameInit == Init => NameInv
<1> SUFFICES ASSUME Init PROVE NameInv
  OBVIOUS
<1>1. IpcInv
  BY IpcInitially DEF Init
<1>2. \A t \in Tasks : phase[t] = "running"
  BY ServerIs DEF Init, IpcInit
<1>3. TableInv
  BY DEF Init, TableInv, HashTableInitialize
<1>4. ServerInv /\ ClientInv
  BY <1>2, ServerIs DEF Init, ServerInv, ClientInv, Runs, Blocked
<1>5. Answers
  BY DEF Init, Answers, NoAnswer
<1> QED BY <1>1, <1>3, <1>4, <1>5 DEF NameInv

\* RegisterAs or WhoIs of any client.
LEMMA RequestKept ==
  ASSUME NameInv, NEW c \in Clients, NEW type \in {"NS_REGISTER_AS", "NS_WHO_IS"},
         NEW n \in Names, Request(c, type, n)
  PROVE  /\ NameInv' /\ ht' = ht /\ phase[c] = "running"
         /\ \A d \in Clients \ {c} : phase'[d] = phase[d] /\ answer'[d] = answer[d]
<1>1. /\ phase[c] = "running" /\ UNCHANGED <<ht, nameserver_tid, server>>
      /\ TableInv' /\ (server = "initialize" => ht' = HashTableInitialize)
  BY DEF Request, Runs, NameInv, TableInv, ServerInv
<1>2. CASE nameserver_tid = Nobody
  <2>1. /\ answer' = [answer EXCEPT ![c] = ERR_INVALID_NAMESERVER_TID]
        /\ UNCHANGED ipcVars
    BY <1>2 DEF Request
  <2>2. Answers' /\ \A d \in Clients \ {c} : answer'[d] = answer[d]
    BY <2>1 DEF NameInv, Answers, ERR_INVALID_NAMESERVER_TID
  <2>3. IpcInv' /\ ServerInv' /\ ClientInv'
    BY <1>1, <2>1, IpcUnchanged DEF NameInv, ServerInv, ClientInv, ipcVars, Runs, Blocked
  <2> QED BY <1>1, <2>1, <2>2, <2>3 DEF NameInv, ipcVars
<1>3. CASE nameserver_tid # Nobody
  <2> DEFINE m == [type |-> type, name |-> n]
  <2>1. nameserver_tid = Server
    BY <1>3 DEF NameInv, ServerInv
  <2>2. answer' = [answer EXCEPT ![c] = NoAnswer] /\ Send(c, Server, m) /\ m \in Requests
    BY <1>3, <2>1 DEF Request, Requests
  <2> HIDE DEF m
  <2>3. Answers' /\ \A d \in Clients \ {c} : answer'[d] = answer[d]
    BY <2>2 DEF NameInv, Answers, NoAnswer
  <2>4. c \in Tasks /\ Server \in Tasks /\ c # Server
    BY ServerIs
  <2>5. /\ IpcInv'
        /\ sent'[c] = m /\ \A t \in Tasks \ {c} : sent'[t] = sent[t]
        /\ \/ /\ phase[Server] = "receiving" /\ c # Server
              /\ phase'[c] = "awaiting reply" /\ phase'[Server] = "running"
              /\ \A t \in Tasks \ {Server, c} : phase'[t] = phase[t]
              /\ sender'[Server] = c
           \/ /\ phase[Server] \notin {"receiving", "none"} /\ phase'[c] = "sending"
              /\ \A t \in Tasks \ {c} : phase'[t] = phase[t]
              /\ sender' = sender
    <3>1. IpcInv
      BY DEF NameInv
    <3> DEFINE r == Server
    <3>2. r \in Tasks /\ Send(c, r, m)
      BY <2>2, <2>4
    <3> HIDE DEF r
    <3>3. /\ IpcInv'
          /\ sent'[c] = m /\ \A t \in Tasks \ {c} : sent'[t] = sent[t]
          /\ \/ /\ phase[r] = "receiving" /\ c # r
                /\ phase'[c] = "awaiting reply" /\ phase'[r] = "running"
                /\ \A t \in Tasks \ {r, c} : phase'[t] = phase[t]
                /\ sender'[r] = c /\ \A t \in Tasks \ {r} : sender'[t] = sender[t]
                /\ inbox' = inbox
             \/ /\ phase[r] \notin {"receiving", "none"} /\ phase'[c] = "sending"
                /\ \A t \in Tasks \ {c} : phase'[t] = phase[t]
                /\ sender' = sender
                /\ inbox' = [inbox EXCEPT ![r] = Append(inbox[r], c)]
      BY <2>4, <3>1, <3>2, SendDoes, Zenon
    <3> QED BY <3>3 DEF r
  <2>6. /\ \A d \in Clients \ {c} : phase'[d] = phase[d] /\ sent'[d] = sent[d]
        /\ phase'[c] \in {"sending", "awaiting reply"}
    BY <2>5, ServerIs
  <2>7. ClientInv'
    BY <2>2, <2>5, <2>6 DEF NameInv, ClientInv, Blocked
  <2>8. ServerInv'
    BY <1>1, <2>4, <2>5, <2>6 DEF NameInv, ServerInv, Runs
  <2> QED BY <1>1, <2>3, <2>5, <2>6, <2>7, <2>8 DEF NameInv
<1> QED BY <1>2, <1>3

LEMMA InitializeKept == ASSUME NameInv, Initialize PROVE NameInv'
<1>1. /\ server = "initialize" /\ server' = "receive" /\ nameserver_tid' = Server
      /\ ht' = ht /\ UNCHANGED <<ipcVars, answer>>
  BY DEF Initialize, NameInv, ServerInv
<1>2. IpcInv'
  BY <1>1, IpcUnchanged DEF NameInv
<1> QED BY <1>1, <1>2 DEF NameInv, TableInv, ServerInv, ClientInv, Answers, ipcVars, Runs, Blocked

LEMMA ReceiveKept ==
  ASSUME NameInv, ReceiveRequest
  PROVE  /\ NameInv' /\ UNCHANGED <<ht, answer>>
         /\ \A c \in Clients : Blocked(c) => phase'[c] # "running"
<1>1. /\ server = "receive" /\ Receive(Server) /\ server' = "handle"
      /\ UNCHANGED <<ht, nameserver_tid, answer>>
  BY DEF ReceiveRequest
<1>2. /\ IpcInv' /\ phase[Server] = "running" /\ sent' = sent
      /\ \/ /\ phase'[Server] = "receiving" /\ \A t \in Tasks \ {Server} : phase'[t] = phase[t]
            /\ sender' = sender
         \/ \E s \in Tasks :
              /\ phase[s] = "sending" /\ s # Server /\ phase'[s] = "awaiting reply"
              /\ \A t \in Tasks \ {s} : phase'[t] = phase[t]
              /\ sender'[Server] = s
  <2>1. IpcInv
    BY DEF NameInv
  <2> DEFINE r == Server
  <2>2. r \in Tasks /\ Receive(r)
    BY <1>1, ServerIs
  <2> HIDE DEF r
  <2>3. /\ IpcInv' /\ phase[r] = "running" /\ sent' = sent
        /\ \/ /\ phase'[r] = "receiving" /\ \A t \in Tasks \ {r} : phase'[t] = phase[t]
              /\ sender' = sender
           \/ \E s \in Tasks :
                /\ phase[s] = "sending" /\ s # r /\ phase'[s] = "awaiting reply"
                /\ \A t \in Tasks \ {s} : phase'[t] = phase[t]
                /\ sender'[r] = s
    BY <2>1, <2>2, ReceiveDoes
  <2> QED BY <2>3 DEF r
<1>3. TableInv' /\ Answers'
  BY <1>1 DEF NameInv, TableInv, Answers
<1>4. ClientInv' /\ ServerInv' /\ \A c \in Clients : Blocked(c) => phase'[c] # "running"
  BY <1>1, <1>2, ServerIs DEF NameInv, ClientInv, ServerInv, Runs, Blocked
<1> QED BY <1>1, <1>2, <1>3, <1>4 DEF NameInv

\* What the server does with a request before and while it replies.
LEMMA HandleDoes ==
  ASSUME NameInv, Handle
  PROVE  \E c \in Clients, n \in Names :
           /\ phase[c] = "awaiting reply" /\ phase'[c] = "running"
           /\ sent[c].name = n /\ sent[c].type \in {"NS_REGISTER_AS", "NS_WHO_IS"}
           /\ \A d \in Clients \ {c} : phase'[d] = phase[d] /\ answer'[d] = answer[d]
           /\ IF sent[c].type = "NS_WHO_IS" THEN HandleWhoIs(c, n) ELSE HandleRegisterAs(c, n)
           /\ IpcInv' /\ ClientInv'
           /\ server' = "receive" /\ phase'[Server] = "running"
           /\ nameserver_tid' = nameserver_tid /\ server = "handle"
<1> DEFINE c == sender[Server]
           n == sent[c].name
<1>1. /\ server = "handle" /\ Runs(Server) /\ server' = "receive"
      /\ IF sent[c].type = "NS_WHO_IS" THEN HandleWhoIs(c, n) ELSE HandleRegisterAs(c, n)
      /\ Reply(c) /\ nameserver_tid' = nameserver_tid
  BY DEF Handle, Received, Responds
<1>2. c \in Clients /\ phase[c] = "awaiting reply" /\ c \in Tasks /\ c # Server
  BY <1>1, ServerIs DEF NameInv, ServerInv
<1>3. sent[c] \in Requests
  BY <1>2 DEF NameInv, ClientInv, Blocked
<1>4. n \in Names /\ sent[c].type \in {"NS_REGISTER_AS", "NS_WHO_IS"}
  BY <1>3 DEF Requests
<1> HIDE DEF c, n
<1>5. /\ IpcInv' /\ phase'[c] = "running"
      /\ \A t \in Tasks \ {c} : phase'[t] = phase[t] /\ sent'[t] = sent[t]
  BY <1>1, <1>2, ReplyDoes DEF NameInv
<1>6. phase'[Server] = "running" /\ \A d \in Clients \ {c} : phase'[d] = phase[d] /\ sent'[d] = sent[d]
  BY <1>1, <1>2, <1>5, ServerIs DEF Runs
<1>7. ClientInv'
  BY <1>5, <1>6 DEF NameInv, ClientInv, Blocked
<1>8. \A d \in Clients \ {c} : answer'[d] = answer[d]
  BY <1>1, <1>2 DEF HandleWhoIs, HandleRegisterAs, NameInv, Answers
<1>9. sent[c].name = n
  BY DEF n
<1> QED BY <1>1, <1>2, <1>4, <1>5, <1>6, <1>7, <1>8, <1>9

\* The table and the answer after a request.
LEMMA WhoIsDoes ==
  ASSUME NameInv, NEW c \in Clients, NEW n \in Names, HandleWhoIs(c, n)
  PROVE  /\ ht' = ht /\ Answers'
         /\ \/ answer'[c] = IF Registrant(n) = Nobody THEN ERR_LOOKUP_FAILED
                            ELSE OK(Registrant(n))
            \/ /\ answer'[c].tid = ArbitraryData /\ Registrant(n) = Nobody
               /\ H(n) + HT_NEIGHBOURHOOD_SIZE > HT_SIZE
<1>1. PICK found \in HashTableGet(ht, n) :
        answer' = [answer EXCEPT ![c] = IF found.ok THEN OK(found.data) ELSE ERR_LOOKUP_FAILED]
  BY DEF HandleWhoIs
<1>2. TableInv /\ ht' = ht
  BY DEF NameInv, HandleWhoIs
<1>3. /\ Registrant(n) # Nobody => found = Found(Registrant(n)) /\ Registrant(n) \in Clients
      /\ Registrant(n) = Nobody =>
           \/ found = NotFound
           \/ found = Found(ArbitraryData) /\ H(n) + HT_NEIGHBOURHOOD_SIZE > HT_SIZE
  BY <1>2, GetIs, RegistrantIs
<1>4. /\ answer \in [Clients -> [status : {"none", "OK", "invalid name server", "lookup failed"},
                                 tid : Clients \cup {Nobody, ArbitraryData}]]
  BY DEF NameInv, Answers
<1>5. CASE Registrant(n) # Nobody
  <2>1. found.ok = TRUE /\ found.data = Registrant(n) /\ Registrant(n) \in Clients
    BY <1>3, <1>5 DEF Found
  <2>2. answer' = [answer EXCEPT ![c] = OK(Registrant(n))]
    BY <1>1, <2>1
  <2>3. answer'[c] = OK(Registrant(n)) /\ Answers'
    BY <1>4, <2>1, <2>2 DEF OK, Answers
  <2> QED BY <1>2, <1>5, <2>3
<1>6. CASE Registrant(n) = Nobody /\ found = NotFound
  BY <1>1, <1>2, <1>4, <1>6 DEF NotFound, ERR_LOOKUP_FAILED, Answers
<1>7. CASE /\ Registrant(n) = Nobody /\ found = Found(ArbitraryData)
           /\ H(n) + HT_NEIGHBOURHOOD_SIZE > HT_SIZE
  BY <1>1, <1>2, <1>4, <1>7 DEF Found, OK, Answers
<1> QED BY <1>3, <1>5, <1>6, <1>7

LEMMA RegisterAsDoes ==
  ASSUME NameInv, NEW c \in Clients, NEW n \in Names, HandleRegisterAs(c, n)
  PROVE  /\ TableInv' /\ Answers'
         /\ \/ /\ answer'[c] = OK(c)
               /\ \A m \in Names : RegisteredIn(ht', m) = IF m = n THEN c
                                                         ELSE IF SameBucket(m, n) THEN Nobody
                                                         ELSE Registrant(m)
            \/ answer'[c] = ERR_LOOKUP_FAILED /\ ht' = ht
<1>1. PICK beyond \in [Beyond -> Buckets] :
        /\ ht' = HashTableInsert(ht, beyond, n, c).table
        /\ answer' = [answer EXCEPT ![c] = IF HashTableInsert(ht, beyond, n, c).ok THEN OK(c)
                                           ELSE ERR_LOOKUP_FAILED]
  BY DEF HandleRegisterAs
<1>2. TableInv
  BY DEF NameInv
<1> DEFINE inserted == HashTableInsert(ht, beyond, n, c)
<1>3. \/ inserted = [ok |-> TRUE, table |-> [ht EXCEPT ![H(n)] = [key |-> n, data |-> c]]]
      \/ inserted = [ok |-> FALSE, table |-> ht]
  BY <1>2, InsertIs
<1>4. /\ ht' = inserted.table
      /\ answer' = [answer EXCEPT ![c] = IF inserted.ok THEN OK(c) ELSE ERR_LOOKUP_FAILED]
  BY <1>1
<1> HIDE DEF inserted
<1>5. /\ answer \in [Clients -> [status : {"none", "OK", "invalid name server", "lookup failed"},
                                 tid : Clients \cup {Nobody, ArbitraryData}]]
  BY DEF NameInv, Answers
<1>6. CASE inserted = [ok |-> TRUE, table |-> [ht EXCEPT ![H(n)] = [key |-> n, data |-> c]]]
  <2>1. ht' = [ht EXCEPT ![H(n)] = [key |-> n, data |-> c]] /\ inserted.ok = TRUE
    BY <1>4, <1>6
  <2>2. answer'[c] = OK(c) /\ Answers'
    BY <1>4, <1>5, <2>1 DEF OK, Answers
  <2> QED BY <1>2, <2>1, <2>2, TableWritten
<1>7. CASE inserted = [ok |-> FALSE, table |-> ht]
  <2>1. ht' = ht /\ inserted.ok = FALSE
    BY <1>4, <1>7
  <2>2. answer'[c] = ERR_LOOKUP_FAILED /\ Answers'
    BY <1>4, <1>5, <2>1 DEF ERR_LOOKUP_FAILED, Answers
  <2>3. TableInv'
    BY <1>2, <2>1 DEF TableInv
  <2> QED BY <2>1, <2>2, <2>3
<1> QED BY <1>3, <1>6, <1>7

LEMMA HandleKept == ASSUME NameInv, Handle PROVE NameInv'
<1>1. PICK c \in Clients, n \in Names :
        /\ IF sent[c].type = "NS_WHO_IS" THEN HandleWhoIs(c, n) ELSE HandleRegisterAs(c, n)
        /\ IpcInv' /\ ClientInv' /\ server' = "receive" /\ phase'[Server] = "running"
        /\ nameserver_tid' = nameserver_tid /\ server = "handle"
  BY HandleDoes
<1>2. TableInv' /\ Answers'
  BY <1>1, WhoIsDoes, RegisterAsDoes DEF NameInv, TableInv
<1>3. ServerInv'
  BY <1>1 DEF NameInv, ServerInv, Runs
<1> QED BY <1>1, <1>2, <1>3 DEF NameInv

LEMMA NameNext == NameInv /\ [Next]_vars => NameInv'
<1> SUFFICES ASSUME NameInv, [Next]_vars PROVE NameInv'
  OBVIOUS
<1>1. CASE UNCHANGED vars
  <2>1. IpcInv'
    BY <1>1, IpcUnchanged DEF NameInv, vars
  <2> QED BY <1>1, <2>1 DEF vars, ipcVars, NameInv, TableInv, ServerInv, ClientInv, Answers,
                             Runs, Blocked
<1>2. ASSUME NEW c \in Clients, RegisterAs(c) \/ WhoIs(c) PROVE NameInv'
  BY <1>2, RequestKept DEF RegisterAs, WhoIs
<1> QED BY <1>1, <1>2, InitializeKept, ReceiveKept, HandleKept DEF Next, ServerStep

-----------------------------------------------------------------------------
\* hashtable.c and nameserver.c: the types, and no key in another bucket than
\* its own, in every reachable state.
THEOREM NamesTyped == Spec => []TypeOK
<1>1. NameInv => TypeOK
  <2> SUFFICES ASSUME NameInv PROVE TypeOK
    OBVIOUS
  <2>1. ASSUME NEW i \in Buckets
        PROVE  ht[i].key \in {HT_SENTINEL} \cup {n \in Names : H(n) = i}
    BY DEF NameInv, TableInv
  <2> QED BY <2>1 DEF NameInv, TableInv, ServerInv, Answers, TypeOK
<1> QED BY <1>1, NameInit, NameNext, PTL DEF Spec

\* NameServer on NS_WHO_IS: the caller, and nobody else, is told who has
\* registered under the name last; the exception is what lies beyond the table.
THEOREM WhoIsCorrect == Spec => WhoIsAnswers
<1> DEFINE A ==
      \A c \in Clients :
        /\ Returns(c, "NS_WHO_IS") =>
             LET n == sent[c].name
             IN  \/ answer'[c] = IF Registrant(n) = Nobody THEN ERR_LOOKUP_FAILED
                                 ELSE OK(Registrant(n))
                 \/ /\ answer'[c].tid = ArbitraryData
                    /\ Registrant(n) = Nobody
                    /\ H(n) + HT_NEIGHBOURHOOD_SIZE > HT_SIZE
        /\ answer'[c] # answer[c] => Runs(c) \/ phase'[c] = "running"
<1>1. NameInv /\ [Next]_vars => [A]_vars
  <2> SUFFICES ASSUME NameInv, Next PROVE A
    OBVIOUS
  <2>1. ASSUME NEW d \in Clients, RegisterAs(d) \/ WhoIs(d) PROVE A
    <3>1. /\ phase[d] = "running"
          /\ \A c \in Clients \ {d} : phase'[c] = phase[c] /\ answer'[c] = answer[c]
      BY <2>1, RequestKept DEF RegisterAs, WhoIs
    <3> QED BY <3>1 DEF Returns, Blocked, Runs
  <2>2. CASE Initialize
    BY <2>2 DEF Initialize, ipcVars, Returns, Blocked
  <2>3. CASE ReceiveRequest
    BY <2>3, ReceiveKept DEF Returns
  <2>4. CASE Handle
    <3>1. PICK d \in Clients, n \in Names :
            /\ phase[d] = "awaiting reply" /\ phase'[d] = "running" /\ sent[d].name = n
            /\ \A c \in Clients \ {d} : phase'[c] = phase[c] /\ answer'[c] = answer[c]
            /\ sent[d].type = "NS_WHO_IS" => HandleWhoIs(d, n)
      BY <2>4, HandleDoes
    <3>2. sent[d].type = "NS_WHO_IS" =>
            \/ answer'[d] = IF Registrant(n) = Nobody THEN ERR_LOOKUP_FAILED
                            ELSE OK(Registrant(n))
            \/ /\ answer'[d].tid = ArbitraryData /\ Registrant(n) = Nobody
               /\ H(n) + HT_NEIGHBOURHOOD_SIZE > HT_SIZE
      BY <3>1, WhoIsDoes
    <3> QED BY <3>1, <3>2 DEF Returns, Blocked
  <2> QED BY <2>1, <2>2, <2>3, <2>4 DEF Next, ServerStep
<1> QED BY <1>1, NameInit, NameNext, PTL DEF Spec, WhoIsAnswers

\* NameServer on NS_REGISTER_AS: without an error the caller is registered,
\* and an insertion that fails leaves the table as it was.
THEOREM RegisterAsCorrect == Spec => RegisterAsAnswers
<1> DEFINE A ==
      \A c \in Clients : Returns(c, "NS_REGISTER_AS") =>
        LET n == sent[c].name
        IN  \/ answer'[c] = OK(c) /\ RegisteredIn(ht', n) = c
            \/ answer'[c] = ERR_LOOKUP_FAILED /\ ht' = ht
<1>1. NameInv /\ [Next]_vars => [A]_vars
  <2> SUFFICES ASSUME NameInv, Next PROVE A
    OBVIOUS
  <2>1. ASSUME NEW d \in Clients, RegisterAs(d) \/ WhoIs(d) PROVE A
    <3>1. /\ phase[d] = "running" /\ \A c \in Clients \ {d} : phase'[c] = phase[c]
      BY <2>1, RequestKept DEF RegisterAs, WhoIs
    <3> QED BY <3>1 DEF Returns, Blocked
  <2>2. CASE Initialize
    BY <2>2 DEF Initialize, ipcVars, Returns, Blocked
  <2>3. CASE ReceiveRequest
    BY <2>3, ReceiveKept DEF Returns
  <2>4. CASE Handle
    <3>1. PICK d \in Clients, n \in Names :
            /\ phase[d] = "awaiting reply" /\ phase'[d] = "running" /\ sent[d].name = n
            /\ \A c \in Clients \ {d} : phase'[c] = phase[c]
            /\ sent[d].type # "NS_WHO_IS" => HandleRegisterAs(d, n)
      BY <2>4, HandleDoes
    <3>2. sent[d].type = "NS_REGISTER_AS" =>
            \/ answer'[d] = OK(d) /\ RegisteredIn(ht', n) = d
            \/ answer'[d] = ERR_LOOKUP_FAILED /\ ht' = ht
      BY <3>1, RegisterAsDoes
    <3> QED BY <3>1, <3>2 DEF Returns, Blocked
  <2> QED BY <2>1, <2>2, <2>3, <2>4 DEF Next, ServerStep
<1> QED BY <1>1, NameInit, NameNext, PTL DEF Spec, RegisterAsAnswers

\* Together: the name server is a map in which a registration is overwritten or
\* is lost to one of the same bucket, and stands otherwise.
THEOREM NameServerImplementsRegistry == Spec => ImplementsRegistry
<1>1. Init => Registry!Init
  <2> SUFFICES ASSUME Init PROVE Registry!Init
    OBVIOUS
  <2>1. TableInv /\ \A i \in Buckets : ht[i].key = HT_SENTINEL
    BY NameInit DEF NameInv, Init, HashTableInitialize
  <2>2. \A n \in Names : Registrant(n) = Nobody
    BY <2>1, RegistrantIs
  <2> QED BY <2>2 DEF Registry!Init
<1>2. NameInv /\ [Next]_vars => [Registry!Next]_([n \in Names |-> Registrant(n)])
  <2> SUFFICES ASSUME NameInv, [Next]_vars
               PROVE  Registry!Next \/ UNCHANGED [n \in Names |-> Registrant(n)]
    OBVIOUS
  <2>1. ht' = ht => UNCHANGED [n \in Names |-> Registrant(n)]
    BY DEF Registrant
  <2>2. ASSUME NEW d \in Clients, RegisterAs(d) \/ WhoIs(d) PROVE ht' = ht
    BY <2>2, RequestKept DEF RegisterAs, WhoIs
  <2>3. CASE Initialize
    BY <2>1, <2>3 DEF Initialize, NameInv, ServerInv
  <2>4. CASE ReceiveRequest
    BY <2>1, <2>4, ReceiveKept
  <2>5. CASE Handle
    <3>1. PICK c \in Clients, n \in Names :
            IF sent[c].type = "NS_WHO_IS" THEN HandleWhoIs(c, n) ELSE HandleRegisterAs(c, n)
      BY <2>5, HandleDoes
    <3>2. CASE ht' = ht
      BY <2>1, <3>2
    <3>3. CASE ht' # ht
      <4>1. HandleRegisterAs(c, n)
        BY <3>1, <3>3, WhoIsDoes
      <4>2. \A m \in Names : RegisteredIn(ht', m) = IF m = n THEN c
                                                   ELSE IF SameBucket(m, n) THEN Nobody
                                                   ELSE Registrant(m)
        BY <3>3, <4>1, RegisterAsDoes
      <4>3. Registry!Register(n, c)
        <5>1. \A m \in Names : Registrant(m) \in Clients \cup {Nobody}
          BY RegistrantIs DEF NameInv
        <5>2. \A m \in Names : Registrant(m)' = RegisteredIn(ht', m)
          BY DEF Registrant
        <5>3. \A m \in Names : Registrant(m)' \in Clients \cup {Nobody}
          BY <4>2, <5>1, <5>2
        <5> QED BY <4>2, <5>2, <5>3 DEF Registry!Register
      <4> QED BY <4>3 DEF Registry!Next
    <3> QED BY <3>2, <3>3
  <2>6. CASE UNCHANGED vars
    BY <2>1, <2>6 DEF vars
  <2> QED BY <2>1, <2>2, <2>3, <2>4, <2>5, <2>6 DEF Next, ServerStep
<1> QED BY <1>1, <1>2, NameInit, NameNext, PTL DEF Spec, ImplementsRegistry, Registry!Spec
=============================================================================
