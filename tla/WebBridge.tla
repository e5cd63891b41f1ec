------------------------------- MODULE WebBridge -------------------------------
(***************************************************************************)
(* The web client: pages in browsers (src/frontend/public/index.html), the *)
(* Node service between them and the database (src/frontend/server.js) and *)
(* the database's side of each TCP connection (src/src/session.cc).        *)
(*                                                                         *)
(* A page posts CONNECT, DISCONNECT and queries as HTTP requests.  The     *)
(* service keeps one socket to the database for each CONNECT in `clients`, *)
(* under an id that the HTTP session remembers.  A query is written to the *)
(* session's socket, and the next data event of that socket is its answer. *)
(* A session, a connection and its id all carry the number of the request  *)
(* that created them.                                                      *)
(***************************************************************************)
EXTENDS Naturals, Sequences, FiniteSets

CONSTANTS
  Pages,        \* pages, each in a browser (a cookie jar) of its own
  Patient,      \* the pages whose user waits for each answer
  MaxAhead,     \* bound: requests that an impatient page has in flight
  MaxRequests,  \* bound: HTTP requests of a behaviour
  MaxPieces,    \* bound: chunks of one answer of the database
  MaxFaults,    \* bound: cookies that expire and stops of the database
  None

Requests == 1..MaxRequests
Kinds == {"connect", "disconnect", "query"}

ASSUME WebAssumption ==
  /\ Patient \subseteq Pages
  /\ MaxRequests \in Nat
  /\ MaxPieces \in Nat \ {0}
  /\ MaxFaults \in Nat
  /\ MaxAhead \in Nat
  /\ None \notin Nat \cup Pages
  /\ None \notin [page : Pages, kind : Kinds, cookie : Requests \cup {None}, heard : BOOLEAN]

\* A chunk of an answer: the queries the answer is for (several when one read
\* of the database took them together) and whether chunks of it follow.
Piece == [for : SUBSET Requests, more : BOOLEAN]

VARIABLES
  connected,  \* page -> the flag `connected` of index.html
  cookie,     \* page -> the session its browser sends along
  lapsed,     \* history: patient pages that lost cookie or session since CONNECT
  left,       \* history: patient pages loaded again
  post,       \* request -> what the page sent, and whether it still listens
  phase,      \* request -> how far it got
  sid,        \* request -> req.session
  conn,       \* request -> req.session.conn as loaded
  body,       \* request -> the chunks its response is made of
  sessions,   \* session -> its conn, None when there is no such session
  clients,    \* the keys of `clients` that hold a socket
  listeners,  \* connection -> requests whose `once` waits for data
  link,       \* connection -> state of its socket
  toDb,       \* connection -> queries written and not read
  fromDb,     \* connection -> chunks sent and not received
  torn,       \* history: patient pages' connections that have cut an answer
  faults      \* cookies expired and databases stopped so far

page == <<connected, cookie, lapsed, left>>
http == <<post, sid, conn>>
node == <<sessions, clients>>
database == <<link, toDb, fromDb>>
vars == <<page, http, phase, body, node, listeners, database, torn, faults>>

Init ==
  /\ connected = [p \in Pages |-> FALSE]
  /\ cookie = [p \in Pages |-> None]
  /\ lapsed = {}
  /\ left = {}
  /\ post = [r \in Requests |-> None]
  /\ phase = [r \in Requests |-> "free"]
  /\ sid = [r \in Requests |-> None]
  /\ conn = [r \in Requests |-> None]
  /\ body = [r \in Requests |-> <<>>]
  /\ sessions = [r \in Requests |-> None]
  /\ clients = {}
  /\ listeners = [r \in Requests |-> {}]
  /\ link = [r \in Requests |-> "none"]
  /\ toDb = [r \in Requests |-> <<>>]
  /\ fromDb = [r \in Requests |-> <<>>]
  /\ torn = {}
  /\ faults = 0

-----------------------------------------------------------------------------
(* The page.                                                               *)

InFlight(r) == phase[r] \in {"sent", "loaded", "waiting", "replied", "failed"}
Pending(p) == {r \in Requests : InFlight(r) /\ post[r].page = p}
Waits(p) == Pending(p) # {}

\* A command typed in the terminal: CONNECT only while not connected,
\* everything else only while connected.  Nothing keeps the user from typing
\* on before the answer is there.
Post(p, k) ==
  /\ connected[p] <=> k # "connect"
  /\ p \in Patient => ~Waits(p)
  /\ Cardinality(Pending(p)) < MaxAhead
  /\ \E r \in Requests :
       /\ \A q \in Requests : phase[q] = "free" <=> q >= r
       /\ post' = [post EXCEPT ![r] =
            [page |-> p, kind |-> k, cookie |-> cookie[p], heard |-> TRUE]]
       /\ phase' = [phase EXCEPT ![r] = "sent"]
  /\ UNCHANGED <<page, sid, conn, body, node, listeners, database, torn, faults>>

\* The response reaches the browser, which keeps its cookie; the success
\* callback sets the flag, unless the page has been loaded again.  There is
\* no error callback.  Both sides then forget the request.
Deliver(r) ==
  /\ phase[r] \in {"replied", "failed"}
  /\ phase' = [phase EXCEPT ![r] = "done"]
  /\ LET p == post[r].page
         opens == phase[r] = "replied" /\ post[r].kind = "connect"
         closes == phase[r] = "replied" /\ post[r].kind = "disconnect"
     IN /\ connected' = IF post[r].heard /\ (opens \/ closes)
                        THEN [connected EXCEPT ![p] = opens] ELSE connected
        /\ cookie' = IF opens THEN [cookie EXCEPT ![p] = sid[r]] ELSE cookie
  /\ post' = [post EXCEPT ![r].cookie = None, ![r].heard = FALSE]
  /\ sid' = [sid EXCEPT ![r] = None]
  /\ conn' = [conn EXCEPT ![r] = None]
  /\ body' = [body EXCEPT ![r] = <<>>]
  /\ UNCHANGED <<lapsed, left, node, listeners, database, torn, faults>>

\* The page is loaded again and forgets that it was connected; its requests
\* go on without it.
Reload(p) ==
  /\ connected[p] \/ Waits(p)
  /\ p \in Patient => ~Waits(p)
  /\ connected' = [connected EXCEPT ![p] = FALSE]
  /\ left' = left \cup ({p} \cap Patient)
  /\ post' = [r \in Requests |->
       IF InFlight(r) /\ post[r].page = p THEN [post[r] EXCEPT !.heard = FALSE]
                                          ELSE post[r]]
  /\ UNCHANGED <<cookie, lapsed, sid, conn, phase, body, node, listeners, database, torn, faults>>

\* cookie: { maxAge: 60000 }, set again only when a CONNECT changes the session.
CookieExpires(p) ==
  /\ faults < MaxFaults
  /\ faults' = faults + 1
  /\ cookie[p] # None
  /\ cookie' = [cookie EXCEPT ![p] = None]
  /\ lapsed' = lapsed \cup ({p} \cap Patient)
  /\ UNCHANGED <<connected, left, http, phase, body, node, listeners, database, torn>>

-----------------------------------------------------------------------------
(* The Node service.                                                       *)

\* An 'error' event without a listener ends the process: the sockets close and
\* everything in memory, the sessions included, is gone.  It is started again;
\* requests that arrive before that are refused.
NodeDies ==
  /\ clients' = {}
  /\ sessions' = [s \in Requests |-> None]
  /\ listeners' = [c \in Requests |-> {}]
  /\ link' = [c \in Requests |-> IF link[c] = "none" THEN "none" ELSE "closed"]
  /\ toDb' = [c \in Requests |-> <<>>]
  /\ fromDb' = [c \in Requests |-> <<>>]
  /\ \E early \in SUBSET {r \in Requests : phase[r] = "sent"} :
       phase' = [r \in Requests |->
         IF phase[r] \in {"loaded", "waiting"} \/ r \in early THEN "failed" ELSE phase[r]]
  /\ lapsed' = Patient
  /\ UNCHANGED <<connected, cookie, left, http, body, torn>>

(* Mutant of LoadSession: a page without a session gets none. *)
LoadSessionOfCookie(r) ==
  /\ phase[r] = "sent"
  /\ sid' = [sid EXCEPT ![r] = post[r].cookie]
  /\ conn' = [conn EXCEPT ![r] =
       IF post[r].cookie = None THEN None ELSE sessions[post[r].cookie]]
  /\ phase' = [phase EXCEPT ![r] = "loaded"]
  /\ UNCHANGED <<page, post, body, node, listeners, database, torn, faults>>

(* Mutant of LoadSession: pages without a session share one. *)
LoadSessionShared(r) ==
  /\ phase[r] = "sent"
  /\ LET s == IF post[r].cookie # None THEN post[r].cookie ELSE 1
     IN /\ sid' = [sid EXCEPT ![r] = s]
        /\ conn' = [conn EXCEPT ![r] = sessions[s]]
  /\ phase' = [phase EXCEPT ![r] = "loaded"]
  /\ UNCHANGED <<page, post, body, node, listeners, database, torn, faults>>

\* The session of the request's cookie, or a new one; it is read before the
\* body of the request and the handler works on this copy.
LoadSession(r) ==
  /\ phase[r] = "sent"
  /\ LET known == post[r].cookie # None /\ sessions[post[r].cookie] # None
         s == IF known THEN post[r].cookie ELSE r
     IN /\ sid' = [sid EXCEPT ![r] = s]
        /\ conn' = [conn EXCEPT ![r] = sessions[s]]
  /\ phase' = [phase EXCEPT ![r] = "loaded"]
  /\ UNCHANGED <<page, post, body, node, listeners, database, torn, faults>>

Handles(r, k) == phase[r] = "loaded" /\ post[r].kind = k
HasClient(r) == conn[r] \in clients

\* POST /: write the query and take the next data event as its answer.
SendQuery(r) ==
  /\ Handles(r, "query")
  /\ HasClient(r)
  /\ toDb' = IF link[conn[r]] = "open"
             THEN [toDb EXCEPT ![conn[r]] = Append(@, r)] ELSE toDb
  /\ listeners' = [listeners EXCEPT ![conn[r]] = @ \cup {r}]
  /\ phase' = [phase EXCEPT ![r] = "waiting"]
  /\ UNCHANGED <<page, http, body, node, link, fromDb, torn, faults>>

\* The write may instead fail, when the database has closed the socket.
WriteFails(r) ==
  /\ Handles(r, "query")
  /\ HasClient(r)
  /\ link[conn[r]] = "ended"
  /\ NodeDies
  /\ UNCHANGED faults

\* There is no socket: client.write and client.destroy throw, Express answers 500.
NoClient(r) ==
  /\ Handles(r, "query") \/ Handles(r, "disconnect")
  /\ ~HasClient(r)
  /\ phase' = [phase EXCEPT ![r] = "failed"]
  /\ UNCHANGED <<page, http, body, node, listeners, database, torn, faults>>

\* POST /connect, and the callback of client.connect: the session's earlier
\* connection, if it had one, is forgotten but not closed.
Connect(r) ==
  /\ Handles(r, "connect")
  /\ link' = [link EXCEPT ![r] = "connecting"]
  /\ phase' = [phase EXCEPT ![r] = "waiting"]
  /\ UNCHANGED <<page, http, body, node, listeners, toDb, fromDb, torn, faults>>

(* Mutant of Connected: the answer is sent, the session is not saved. *)
ConnectedUnsaved(r) ==
  /\ link[r] = "connecting"
  /\ link' = [link EXCEPT ![r] = "open"]
  /\ clients' = clients \cup {r}
  /\ phase' = [phase EXCEPT ![r] = "replied"]
  /\ lapsed' = lapsed \ {post[r].page}
  /\ UNCHANGED <<connected, cookie, left, http, body, sessions, listeners, toDb, fromDb, torn, faults>>

Connected(r) ==
  /\ link[r] = "connecting"
  /\ link' = [link EXCEPT ![r] = "open"]
  /\ clients' = clients \cup {r}
  /\ sessions' = [sessions EXCEPT ![sid[r]] = r]
  /\ phase' = [phase EXCEPT ![r] = "replied"]
  /\ lapsed' = lapsed \ {post[r].page}
  /\ UNCHANGED <<connected, cookie, left, http, body, listeners, toDb, fromDb, torn, faults>>

(* Mutant of Disconnect: the session goes, its socket stays. *)
DisconnectSession(r) ==
  /\ Handles(r, "disconnect")
  /\ HasClient(r)
  /\ sessions' = [sessions EXCEPT ![sid[r]] = None]
  /\ phase' = [phase EXCEPT ![r] = "replied"]
  /\ UNCHANGED <<page, http, body, clients, listeners, database, torn, faults>>

\* POST /disconnect: the socket and the session go; queries that still wait on
\* the socket are not answered.
Disconnect(r) ==
  /\ Handles(r, "disconnect")
  /\ HasClient(r)
  /\ link' = [link EXCEPT ![conn[r]] = "closed"]
  /\ toDb' = [toDb EXCEPT ![conn[r]] = <<>>]
  /\ fromDb' = [fromDb EXCEPT ![conn[r]] = <<>>]
  /\ clients' = clients \ {conn[r]}
  /\ sessions' = [sessions EXCEPT ![sid[r]] = None]
  /\ phase' = [phase EXCEPT ![r] = "replied"]
  /\ UNCHANGED <<page, http, body, listeners, torn, faults>>

(* Mutants of Heard: the oldest listener only; the listeners of all sockets. *)
HeardByFirst(c) == {r \in listeners[c] : \A q \in listeners[c] : r <= q}
HeardByAll(c) == UNION {listeners[d] : d \in Requests}

\* A data event on socket c: every `once` listener there is gets it.
Heard(c) == listeners[c]

Data(c) ==
  /\ \E n \in 1..Len(fromDb[c]) :
       /\ body' = [r \in Requests |->
            IF r \in Heard(c) THEN SubSeq(fromDb[c], 1, n) ELSE body[r]]
       /\ phase' = [r \in Requests |-> IF r \in Heard(c) THEN "replied" ELSE phase[r]]
       /\ fromDb' = [fromDb EXCEPT ![c] = SubSeq(@, n + 1, Len(@))]
       /\ torn' = IF fromDb[c][n].more /\ post[c].page \in Patient
                  THEN torn \cup {c} ELSE torn
  /\ listeners' = [listeners EXCEPT ![c] = @ \ Heard(c)]
  /\ UNCHANGED <<page, http, node, link, toDb, faults>>

\* Node gives up a response that nothing can end any more (two minutes); a
\* database that takes longer over an answer is left out.
TimesOut(r) ==
  /\ phase[r] = "waiting"
  /\ post[r].kind = "query"
  /\ link[conn[r]] # "open"
  /\ fromDb[conn[r]] = <<>>
  /\ phase' = [phase EXCEPT ![r] = "failed"]
  /\ listeners' = [listeners EXCEPT ![conn[r]] = @ \ {r}]
  /\ UNCHANGED <<page, http, body, node, database, torn, faults>>

-----------------------------------------------------------------------------
(* The database: it reads what has been written, in one command or several, *)
(* and answers each command in one or more chunks.                         *)

Answer(readQueries, k) ==
  [i \in 1..k |-> [for |-> readQueries, more |-> i < k]]

DatabaseAnswers(c) ==
  /\ link[c] = "open"
  /\ \E n \in 1..Len(toDb[c]), k \in 1..MaxPieces :
       /\ fromDb' = [fromDb EXCEPT ![c] =
            @ \o Answer({toDb[c][i] : i \in 1..n}, k)]
       /\ toDb' = [toDb EXCEPT ![c] = SubSeq(@, n + 1, Len(@))]
  /\ UNCHANGED <<page, http, phase, body, node, listeners, link, torn, faults>>

\* The database ends and is started again.  The service does not notice that
\* its sockets were ended, or one of them is reset or refused, which is an error.
DatabaseStops ==
  /\ faults < MaxFaults
  /\ faults' = faults + 1
  /\ \/ /\ link' = [c \in Requests |-> IF link[c] = "open" THEN "ended" ELSE link[c]]
        /\ toDb' = [c \in Requests |-> <<>>]
        /\ UNCHANGED <<page, http, phase, body, node, listeners, fromDb, torn>>
     \/ /\ \E c \in Requests : link[c] \in {"connecting", "open"}
        /\ NodeDies

-----------------------------------------------------------------------------
Next ==
  \/ \E p \in Pages, k \in Kinds : Post(p, k)
  \/ \E p \in Pages : Reload(p) \/ CookieExpires(p)
  \/ \E r \in Requests :
       \/ LoadSession(r) \/ SendQuery(r) \/ WriteFails(r) \/ NoClient(r)
       \/ Connect(r) \/ Connected(r) \/ Disconnect(r)
       \/ TimesOut(r) \/ Deliver(r)
  \/ \E c \in Requests : Data(c) \/ DatabaseAnswers(c)
  \/ DatabaseStops

\* The event loop runs every handler and callback it has; the network and the
\* database deliver what they hold.  Users, failures and restarts owe nothing.
Fairness ==
  \A r \in Requests :
    /\ WF_vars(LoadSession(r))
    /\ WF_vars(SendQuery(r) \/ WriteFails(r) \/ NoClient(r) \/ Connect(r) \/ Disconnect(r))
    /\ WF_vars(Connected(r))
    /\ WF_vars(Data(r))
    /\ WF_vars(DatabaseAnswers(r))
    /\ WF_vars(TimesOut(r))
    /\ WF_vars(Deliver(r))

Safety == Init /\ [][Next]_vars
Spec == Safety /\ Fairness

-----------------------------------------------------------------------------
(* Correctness.                                                            *)

Links == {"none", "connecting", "open", "ended", "closed"}
Phases == {"free", "sent", "loaded", "waiting", "replied", "failed", "done"}

\* Every variable keeps its type; a loaded request has a session, and only a
\* socket that was open has data on it.
TypeOK ==
  /\ connected \in [Pages -> BOOLEAN]
  /\ cookie \in [Pages -> Requests \cup {None}]
  /\ lapsed \subseteq Patient /\ left \subseteq Patient
  /\ post \in [Requests -> [page : Pages, kind : Kinds,
                           cookie : Requests \cup {None}, heard : BOOLEAN] \cup {None}]
  /\ phase \in [Requests -> Phases]
  /\ sid \in [Requests -> Requests \cup {None}]
  /\ conn \in [Requests -> Requests \cup {None}]
  /\ body \in [Requests -> Seq(Piece)]
  /\ sessions \in [Requests -> Requests \cup {None}]
  /\ clients \subseteq Requests
  /\ listeners \in [Requests -> SUBSET Requests]
  /\ link \in [Requests -> Links]
  /\ toDb \in [Requests -> Seq(Requests)]
  /\ fromDb \in [Requests -> Seq(Piece)]
  /\ torn \subseteq Requests
  /\ faults \in 0..MaxFaults
  /\ \A r \in Requests :
       /\ phase[r] # "free" => post[r] # None
       /\ phase[r] \in {"loaded", "waiting", "replied"} => sid[r] # None
       /\ toDb[r] # <<>> => link[r] = "open"
       /\ fromDb[r] # <<>> => link[r] \in {"open", "ended"}

\* No page is shown what the database answered to another page: sessions,
\* connection ids and listeners keep the pages apart, whatever is reordered,
\* lost, closed or started again (server.js:19-30, 32-42).
OwnAnswers ==
  \A r \in Requests : \A i \in DOMAIN body[r] : \A q \in body[r][i].for :
    post[q].page = post[r].page

\* A user who waits for each answer gets the whole answer of the query it
\* asked, and nothing else, as long as no data event of the connection has cut
\* an answer in two; what other sessions do, impatient ones included, does not
\* matter.  The service itself matches answers to queries in no way.
PatientGetsAnswer ==
  \A r \in Requests :
    /\ body[r] # <<>>
    /\ post[r].page \in Patient
    /\ conn[r] \notin torn
    => /\ \A i \in DOMAIN body[r] : body[r][i].for = {r} /\ body[r][i].more = (i < Len(body[r]))

\* A patient page that shows itself connected has a session that leads to a
\* socket, unless its cookie expired or the service was started again.
StaysConnected ==
  \A p \in Patient :
    connected[p] /\ ~Waits(p) /\ p \notin lapsed =>
      /\ cookie[p] # None
      /\ sessions[cookie[p]] \in clients

\* A patient page holds at most one connection to the database, unless it was
\* loaded again while it had one: that one is never closed.
OneConnection ==
  \A p \in Patient \ left : \A c, d \in clients :
    post[c].page = p /\ post[d].page = p => c = d

\* Every request ends, so that again and again none is in flight.  Queries that
\* share a data event, or whose answers come in one command's answer, are
\* answered all the same; only a socket that is closed leaves its queries to
\* the timeout (server.js:19-30).
EveryRequestEnds == []<>(\A r \in Requests : ~InFlight(r))

================================================================================
