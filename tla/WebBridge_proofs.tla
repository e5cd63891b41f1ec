---------------------------- MODULE WebBridge_proofs ----------------------------
(***************************************************************************)
(* Proofs about WebBridge, for any pages, requests, pieces of answers and  *)
(* failures: the type invariant, and that no page is shown the answer to   *)
(* another page's query.  The argument: a request, a session and a         *)
(* connection are each named after the request that made them, so each     *)
(* belongs to a page; whatever refers to one belongs to the same page.     *)
(***************************************************************************)
EXTENDS WebBridge, SequenceTheorems, TLAPS

-----------------------------------------------------------------------------
(* TypeOK in parts, one for each group of variables that actions change    *)
(* together, so that a step's proof names the parts it disturbs.           *)
Messages == [page : Pages, kind : Kinds, cookie : Requests \cup {None}, heard : BOOLEAN]

PageTypes ==
  /\ connected \in [Pages -> BOOLEAN]
  /\ cookie \in [Pages -> Requests \cup {None}]
  /\ lapsed \subseteq Patient /\ left \subseteq Patient
PostTypes == post \in [Requests -> Messages \cup {None}]
RequestTypes ==
  /\ phase \in [Requests -> Phases]
  /\ sid \in [Requests -> Requests \cup {None}]
  /\ conn \in [Requests -> Requests \cup {None}]
BodyTypes == body \in [Requests -> Seq(Piece)]
ServiceTypes ==
  /\ sessions \in [Requests -> Requests \cup {None}]
  /\ clients \subseteq Requests
  /\ listeners \in [Requests -> SUBSET Requests]
  /\ torn \subseteq Requests
  /\ faults \in 0..MaxFaults
SocketTypes ==
  /\ link \in [Requests -> Links]
  /\ toDb \in [Requests -> Seq(Requests)]
  /\ fromDb \in [Requests -> Seq(Piece)]
Posted == \A r \in Requests : phase[r] # "free" => post[r] # None
Loaded == \A r \in Requests : phase[r] \in {"loaded", "waiting", "replied"} => sid[r] # None
Open ==
  \A r \in Requests :
    /\ toDb[r] # <<>> => link[r] = "open"
    /\ fromDb[r] # <<>> => link[r] \in {"open", "ended"}

Parts ==
  /\ PageTypes /\ PostTypes /\ RequestTypes /\ BodyTypes /\ ServiceTypes /\ SocketTypes
  /\ Posted /\ Loaded /\ Open

(* TypeOK is the conjunction of its parts. *)
LEMMA TypeParts == TypeOK <=> Parts
BY DEF TypeOK, Parts, Messages, PageTypes, PostTypes, RequestTypes, BodyTypes,
       ServiceTypes,
       SocketTypes, Posted, Loaded, Open

(* The inductive invariant.  Whatever names a request, session or          *)
(* connection names one of the same page; a request that listens to a      *)
(* connection is a query that waits for its answer on it; a connection     *)
(* being set up is that of a CONNECT that waits for it, and a request that *)
(* is not handled yet has none.                                            *)
Sent(r) == phase[r] # "free"
Same(q, r) == q \in Requests /\ Sent(q) /\ Sent(r) /\ post[q].page = post[r].page

CookiesApart ==
  /\ \A p \in Pages : cookie[p] # None => Sent(cookie[p]) /\ post[cookie[p]].page = p
  /\ \A r \in Requests : Sent(r) /\ post[r].cookie # None => Same(post[r].cookie, r)
SessionsApart ==
  /\ \A r \in Requests : sid[r] # None => Same(sid[r], r)
  /\ \A r \in Requests : conn[r] # None => Same(conn[r], r)
  /\ \A s \in Requests : sessions[s] # None => Same(sessions[s], s)
SocketsApart ==
  /\ \A c \in Requests : \A r \in listeners[c] : Same(r, c)
  /\ \A c \in Requests : \A i \in DOMAIN toDb[c] : Same(toDb[c][i], c)
  /\ \A c \in Requests : \A i \in DOMAIN fromDb[c] : \A q \in fromDb[c][i].for : Same(q, c)
AnswersApart ==
  \A r \in Requests : \A i \in DOMAIN body[r] : \A q \in body[r][i].for : Same(q, r)
Apart == CookiesApart /\ SessionsApart /\ SocketsApart /\ AnswersApart

Listening ==
  \A c \in Requests : \A r \in listeners[c] :
    phase[r] = "waiting" /\ post[r].kind = "query" /\ conn[r] = c
Dialling ==
  \A c \in Requests : link[c] = "connecting" =>
    phase[c] = "waiting" /\ post[c].kind = "connect"
Undialled ==
  \A c \in Requests :
    phase[c] \in {"free", "sent", "loaded"} => link[c] = "none" /\ c \notin clients

Orderly == Apart /\ Listening /\ Dialling /\ Undialled

IInv == TypeOK /\ Orderly

-----------------------------------------------------------------------------
(* TypeOK.                                                                 *)

(* Before the first request there is nothing that could be mixed up. *)
LEMMA InitInvariant == Init => IInv
<1> SUFFICES ASSUME Init PROVE IInv
  OBVIOUS
<1> USE WebAssumption DEF Init, Requests
<1>1. TypeOK
  BY DEF TypeOK, Phases, Links, Piece, Kinds
<1>2. Apart
  BY DEF Apart, CookiesApart, SessionsApart, SocketsApart, AnswersApart, Same, Sent
<1>3. Listening /\ Dialling /\ Undialled
  BY DEF Listening, Dialling, Undialled
<1> QED BY <1>1, <1>2, <1>3 DEF IInv, Orderly

(* Every step keeps the types; `Dialling` and `Undialled` say in what phase *)
(* a request is when its connection is set up, `Listening` when it is       *)
(* answered.                                                               *)
LEMMA TypeStep == IInv /\ [Next]_vars => TypeOK'
<1> SUFFICES ASSUME IInv, [Next]_vars PROVE Parts'
  BY DEF TypeOK, Parts, Messages, PageTypes, PostTypes, RequestTypes, BodyTypes,
         ServiceTypes,
         SocketTypes, Posted, Loaded, Open
<1>a. Parts /\ Listening /\ Dialling /\ Undialled
  BY TypeParts DEF IInv, Orderly
<1>n. None \notin Requests /\ None \notin Messages /\ Requests \subseteq Nat
  BY WebAssumption DEF Requests, Messages
<1> USE <1>a, <1>n, WebAssumption DEF Parts, page, http, node, database
<1>1. ASSUME NEW p \in Pages, NEW k \in Kinds, Post(p, k) PROVE Parts'
  <2>1. PICK r \in Requests :
         /\ \A q \in Requests : phase[q] = "free" <=> q >= r
         /\ post' = [post EXCEPT ![r] =
              [page |-> p, kind |-> k, cookie |-> cookie[p], heard |-> TRUE]]
         /\ phase' = [phase EXCEPT ![r] = "sent"]
    BY <1>1 DEF Post
  <2>2. [page |-> p, kind |-> k, cookie |-> cookie[p], heard |-> TRUE] \in Messages
    BY DEF Messages, PageTypes
  <2>3. PostTypes' /\ Posted'
    BY <2>1, <2>2 DEF PostTypes, RequestTypes, Posted
  <2>4. RequestTypes'
    BY <2>1, <1>1 DEF Post, RequestTypes, Phases
  <2>5. Loaded'
    BY <2>1, <1>1 DEF Post, RequestTypes, Loaded
  <2>6. PageTypes' /\ BodyTypes' /\ ServiceTypes' /\ SocketTypes' /\ Open'
    BY <1>1 DEF Post, PageTypes, BodyTypes, ServiceTypes, SocketTypes, Open
  <2> QED BY <2>3, <2>4, <2>5, <2>6
<1>2. ASSUME NEW p \in Pages, Reload(p) PROVE Parts'
  <2>1. \A r \in Requests : post[r] \in Messages => [post[r] EXCEPT !.heard = FALSE] \in Messages
    BY DEF Messages
  <2>2. \A r \in Requests : InFlight(r) => post[r] \in Messages
    BY DEF InFlight, Posted, PostTypes
  <2>3. PostTypes' /\ Posted'
    BY <1>2, <2>1, <2>2 DEF Reload, PostTypes, Posted
  <2>4. PageTypes'
    BY <1>2 DEF Reload, PageTypes
  <2>5. RequestTypes' /\ BodyTypes' /\ ServiceTypes' /\ SocketTypes' /\ Loaded' /\ Open'
    BY <1>2 DEF Reload, RequestTypes, BodyTypes, ServiceTypes, SocketTypes, Loaded, Open
  <2> QED BY <2>3, <2>4, <2>5
<1>3. ASSUME NEW p \in Pages, CookieExpires(p) PROVE Parts'
  <2>0. PostTypes' /\ RequestTypes' /\ BodyTypes' /\ SocketTypes' /\ Posted' /\ Loaded' /\ Open'
    BY <1>3 DEF CookieExpires, PostTypes, RequestTypes, BodyTypes, SocketTypes,
                Posted, Loaded, Open
  <2>1. PageTypes'
    BY <1>3 DEF CookieExpires, PageTypes
  <2>2. ServiceTypes'
    BY <1>3 DEF CookieExpires, ServiceTypes
  <2> QED BY <2>0, <2>1, <2>2
<1>4. ASSUME NEW r \in Requests, LoadSession(r) PROVE Parts'
  <2>0. PageTypes' /\ PostTypes' /\ BodyTypes' /\ ServiceTypes' /\ SocketTypes' /\ Open'
    BY <1>4 DEF LoadSession, PageTypes, PostTypes, BodyTypes, ServiceTypes,
                SocketTypes, Open
  <2>1. RequestTypes'
    <3>1. post[r].cookie \in Requests \cup {None}
      BY <1>4 DEF LoadSession, Posted, PostTypes, Messages
    <3>2. sid' \in [Requests -> Requests \cup {None}]
      BY <1>4, <3>1 DEF LoadSession, RequestTypes
    <3>3. conn' \in [Requests -> Requests \cup {None}]
      BY <1>4, <3>1 DEF LoadSession, RequestTypes, ServiceTypes
    <3> QED BY <1>4, <3>2, <3>3 DEF LoadSession, RequestTypes, Phases
  <2>2. Posted'
    BY <1>4 DEF LoadSession, Posted, RequestTypes
  <2>3. Loaded'
    <3>1. sid'[r] # None
      BY <1>4 DEF LoadSession, RequestTypes
    <3> QED BY <1>4, <3>1 DEF LoadSession, RequestTypes, Loaded
  <2> QED BY <2>0, <2>1, <2>2, <2>3
<1>5. ASSUME NEW r \in Requests, SendQuery(r) PROVE Parts'
  <2>0. PageTypes' /\ PostTypes' /\ BodyTypes'
    BY <1>5 DEF SendQuery, PageTypes, PostTypes, BodyTypes
  <2>1. RequestTypes'
    BY <1>5 DEF SendQuery, RequestTypes, Phases
  <2>2. ServiceTypes'
    BY <1>5 DEF SendQuery, ServiceTypes, HasClient
  <2>3. SocketTypes'
    <3>1. conn[r] \in Requests
      BY <1>5 DEF SendQuery, HasClient, ServiceTypes
    <3>2. toDb[conn[r]] \in Seq(Requests)
      BY <3>1 DEF SocketTypes
    <3>3. Append(toDb[conn[r]], r) \in Seq(Requests)
      BY <3>2, AppendProperties
    <3>4. toDb' \in [Requests -> Seq(Requests)]
      BY <1>5, <3>1, <3>3 DEF SendQuery, SocketTypes
    <3> QED BY <1>5, <3>4 DEF SendQuery, SocketTypes
  <2>4. Posted'
    BY <1>5 DEF SendQuery, Posted, Handles
  <2>5. Loaded'
    BY <1>5 DEF SendQuery, Loaded, Handles
  <2>6. Open'
    BY <1>5 DEF SendQuery, Open, SocketTypes
  <2> QED BY <2>0, <2>1, <2>2, <2>3, <2>4, <2>5, <2>6
<1>6. ASSUME NEW r \in Requests, NoClient(r) PROVE Parts'
  <2>0. PageTypes' /\ PostTypes' /\ BodyTypes' /\ ServiceTypes' /\ SocketTypes' /\ Open'
    BY <1>6 DEF NoClient, PageTypes, PostTypes, BodyTypes, ServiceTypes,
                SocketTypes, Open
  <2>1. RequestTypes'
    BY <1>6 DEF NoClient, RequestTypes, Phases
  <2>2. Posted'
    BY <1>6 DEF NoClient, Posted, Handles, RequestTypes
  <2>3. Loaded'
    BY <1>6 DEF NoClient, Loaded, RequestTypes
  <2> QED BY <2>0, <2>1, <2>2, <2>3
<1>7. ASSUME NEW r \in Requests, Connect(r) PROVE Parts'
  <2>0. PageTypes' /\ PostTypes' /\ BodyTypes' /\ ServiceTypes'
    BY <1>7 DEF Connect, PageTypes, PostTypes, BodyTypes, ServiceTypes
  <2>1. RequestTypes'
    BY <1>7 DEF Connect, RequestTypes, Phases
  <2>2. SocketTypes'
    BY <1>7 DEF Connect, SocketTypes, Links
  <2>3. Posted'
    BY <1>7 DEF Connect, Posted, Handles, RequestTypes
  <2>4. Loaded'
    BY <1>7 DEF Connect, Loaded, Handles, RequestTypes
  <2>5. Open'
    <3>1. toDb[r] = <<>> /\ fromDb[r] = <<>>
      BY <1>7 DEF Connect, Handles, Undialled, Open
    <3> QED BY <1>7, <3>1 DEF Connect, SocketTypes, Open
  <2> QED BY <2>0, <2>1, <2>2, <2>3, <2>4, <2>5
<1>8. ASSUME NEW r \in Requests, Connected(r) PROVE Parts'
  <2>0. PostTypes' /\ BodyTypes'
    BY <1>8 DEF Connected, PostTypes, BodyTypes
  <2>1. PageTypes'
    BY <1>8 DEF Connected, PageTypes
  <2>2. RequestTypes'
    BY <1>8 DEF Connected, RequestTypes, Phases
  <2>3. ServiceTypes'
    BY <1>8 DEF Connected, ServiceTypes, RequestTypes, Dialling, Loaded
  <2>4. SocketTypes'
    BY <1>8 DEF Connected, SocketTypes, Links
  <2>5. Posted'
    BY <1>8 DEF Connected, Posted, Dialling
  <2>6. Loaded'
    BY <1>8 DEF Connected, Loaded, Dialling
  <2>7. Open'
    BY <1>8 DEF Connected, Open, SocketTypes
  <2> QED BY <2>0, <2>1, <2>2, <2>3, <2>4, <2>5, <2>6, <2>7
<1>9. ASSUME NEW r \in Requests, Disconnect(r) PROVE Parts'
  <2>0. PageTypes' /\ PostTypes' /\ BodyTypes'
    BY <1>9 DEF Disconnect, PageTypes, PostTypes, BodyTypes
  <2>1. RequestTypes'
    BY <1>9 DEF Disconnect, RequestTypes, Phases
  <2>2. ServiceTypes'
    BY <1>9 DEF Disconnect, ServiceTypes
  <2>3. SocketTypes'
    <3>1. toDb' \in [Requests -> Seq(Requests)] /\ fromDb' \in [Requests -> Seq(Piece)]
      <4>1. <<>> \in Seq(Requests) /\ <<>> \in Seq(Piece)
        OBVIOUS
      <4> QED BY <1>9, <4>1 DEF Disconnect, SocketTypes
    <3>2. link' \in [Requests -> Links]
      BY <1>9 DEF Disconnect, SocketTypes, Links
    <3> QED BY <3>1, <3>2 DEF SocketTypes
  <2>4. Posted'
    BY <1>9 DEF Disconnect, Posted, Handles
  <2>5. Loaded'
    BY <1>9 DEF Disconnect, Loaded, Handles
  <2>6. Open'
    BY <1>9 DEF Disconnect, Open, SocketTypes
  <2> QED BY <2>0, <2>1, <2>2, <2>3, <2>4, <2>5, <2>6
<1>10. ASSUME NEW r \in Requests, TimesOut(r) PROVE Parts'
  <2>0. PageTypes' /\ PostTypes' /\ BodyTypes' /\ SocketTypes' /\ Open'
    BY <1>10 DEF TimesOut, PageTypes, PostTypes, BodyTypes, SocketTypes, Open
  <2>1. RequestTypes'
    BY <1>10 DEF TimesOut, RequestTypes, Phases
  <2>2. ServiceTypes'
    BY <1>10 DEF TimesOut, ServiceTypes
  <2>3. Posted'
    BY <1>10 DEF TimesOut, Posted
  <2>4. Loaded'
    BY <1>10 DEF TimesOut, Loaded
  <2> QED BY <2>0, <2>1, <2>2, <2>3, <2>4
<1>11. ASSUME NEW r \in Requests, Deliver(r) PROVE Parts'
  <2>0. ServiceTypes' /\ SocketTypes' /\ Open'
    BY <1>11 DEF Deliver, ServiceTypes, SocketTypes, Open
  <2>1. PageTypes'
    BY <1>11 DEF Deliver, PageTypes, RequestTypes, PostTypes, Posted
  <2>2. RequestTypes'
    BY <1>11 DEF Deliver, RequestTypes, Phases
  <2>3. PostTypes'
    <3>1. post[r] \in Messages
      BY <1>11 DEF Deliver, Posted, PostTypes
    <3>2. [[post[r] EXCEPT !.cookie = None] EXCEPT !.heard = FALSE] \in Messages
      BY <3>1 DEF Messages
    <3> QED BY <1>11, <3>2 DEF Deliver, PostTypes
  <2>4. BodyTypes'
    BY <1>11 DEF Deliver, BodyTypes
  <2>5. Posted'
    <3>1. post[r] \in Messages
      BY <1>11 DEF Deliver, Posted, PostTypes
    <3>2. [[post[r] EXCEPT !.cookie = None] EXCEPT !.heard = FALSE] \in Messages
      BY <3>1 DEF Messages
    <3> QED BY <1>11, <3>2 DEF Deliver, RequestTypes, PostTypes, Posted
  <2>6. Loaded'
    BY <1>11 DEF Deliver, Loaded, RequestTypes
  <2> QED BY <2>0, <2>1, <2>2, <2>3, <2>4, <2>5, <2>6
<1>12. ASSUME NEW c \in Requests, Data(c) PROVE Parts'
  <2>1. PICK n \in 1..Len(fromDb[c]) :
         /\ body' = [r \in Requests |->
              IF r \in Heard(c) THEN SubSeq(fromDb[c], 1, n) ELSE body[r]]
         /\ phase' = [r \in Requests |-> IF r \in Heard(c) THEN "replied" ELSE phase[r]]
         /\ fromDb' = [fromDb EXCEPT ![c] = SubSeq(@, n + 1, Len(@))]
         /\ torn' = IF fromDb[c][n].more /\ post[c].page \in Patient
                    THEN torn \cup {c} ELSE torn
    BY <1>12 DEF Data
  <2>2. /\ SubSeq(fromDb[c], 1, n) \in Seq(Piece)
        /\ SubSeq(fromDb[c], n + 1, Len(fromDb[c])) \in Seq(Piece)
    BY <2>1 DEF SocketTypes
  <2>3. BodyTypes'
    BY <2>1, <2>2 DEF BodyTypes
  <2>4. SocketTypes'
    BY <2>1, <2>2, <1>12 DEF Data, SocketTypes
  <2>5. Open'
    BY <2>1, <2>4, <1>12 DEF Data, SocketTypes, Open
  <2>6. ServiceTypes'
    BY <2>1, <1>12 DEF Data, ServiceTypes
  <2>7. RequestTypes'
    BY <2>1, <1>12 DEF Data, RequestTypes, Phases
  <2>8. Posted' /\ Loaded'
    BY <2>1, <1>12 DEF Data, Heard, Posted, Loaded, Listening
  <2>9. PageTypes' /\ PostTypes'
    BY <1>12 DEF Data, PageTypes, PostTypes
  <2> QED BY <2>3, <2>4, <2>5, <2>6, <2>7, <2>8, <2>9
<1>13. ASSUME NEW c \in Requests, DatabaseAnswers(c) PROVE Parts'
  <2>1. PICK n \in 1..Len(toDb[c]), k \in 1..MaxPieces :
         /\ fromDb' = [fromDb EXCEPT ![c] = @ \o Answer({toDb[c][i] : i \in 1..n}, k)]
         /\ toDb' = [toDb EXCEPT ![c] = SubSeq(@, n + 1, Len(@))]
    BY <1>13 DEF DatabaseAnswers
  <2>0. toDb[c] \in Seq(Requests)
    BY DEF SocketTypes
  <2>2. {toDb[c][i] : i \in 1..n} \in SUBSET Requests
    BY <2>0, <2>1, ElementOfSeq, LenProperties
  <2>3. Answer({toDb[c][i] : i \in 1..n}, k) \in Seq(Piece)
    BY <2>2 DEF Answer, Piece
  <2>4. SubSeq(toDb[c], n + 1, Len(toDb[c])) \in Seq(Requests)
    BY <2>0, <2>1, SubSeqProperties, LenProperties
  <2>5. SocketTypes'
    <3>1. link' \in [Requests -> Links]
      BY <1>13 DEF DatabaseAnswers, SocketTypes
    <3>2. toDb' \in [Requests -> Seq(Requests)]
      BY <2>1, <2>4 DEF SocketTypes
    <3>3. fromDb[c] \o Answer({toDb[c][i] : i \in 1..n}, k) \in Seq(Piece)
      BY <2>3, ConcatProperties DEF SocketTypes
    <3>4. fromDb' \in [Requests -> Seq(Piece)]
      BY <2>1, <3>3 DEF SocketTypes
    <3> QED BY <3>1, <3>2, <3>4 DEF SocketTypes
  <2>6. Open'
    BY <2>1, <2>5, <1>13 DEF DatabaseAnswers, SocketTypes, Open
  <2>7. /\ PageTypes' /\ PostTypes' /\ RequestTypes' /\ BodyTypes' /\ ServiceTypes'
        /\ Posted' /\ Loaded'
    BY <1>13 DEF DatabaseAnswers, PageTypes, PostTypes, RequestTypes, BodyTypes,
                 ServiceTypes,
                 Posted, Loaded
  <2> QED BY <2>5, <2>6, <2>7
<1>d. ASSUME NodeDies, faults' \in 0..MaxFaults PROVE Parts'
  BY <1>d DEF NodeDies, Phases, Links, PageTypes, PostTypes, RequestTypes,
              BodyTypes, ServiceTypes, SocketTypes, Posted, Loaded, Open
<1>14. ASSUME NEW r \in Requests, WriteFails(r) PROVE Parts'
  BY <1>14, <1>d DEF WriteFails, ServiceTypes
<1>15. ASSUME DatabaseStops PROVE Parts'
  <2>0. faults' \in 0..MaxFaults
    BY <1>15 DEF DatabaseStops, ServiceTypes
  <2>1. CASE NodeDies
    BY <2>0, <2>1, <1>d
  <2>2. CASE ~NodeDies
    <3>0. <<>> \in Seq(Requests)
      OBVIOUS
    <3>1. SocketTypes'
      <4>1. /\ link' = [d \in Requests |-> IF link[d] = "open" THEN "ended" ELSE link[d]]
            /\ toDb' = [d \in Requests |-> <<>>]
            /\ fromDb' = fromDb
        BY <2>2, <1>15 DEF DatabaseStops
      <4>2. link' \in [Requests -> Links]
        BY <4>1 DEF SocketTypes, Links
      <4> QED BY <3>0, <4>1, <4>2 DEF SocketTypes
    <3>2. Open'
      BY <2>2, <1>15 DEF DatabaseStops, SocketTypes, Open
    <3> QED BY <2>0, <2>2, <3>1, <3>2, <1>15 DEF DatabaseStops, PageTypes,
        PostTypes, RequestTypes, BodyTypes, ServiceTypes, Posted, Loaded
  <2> QED BY <2>1, <2>2
<1>16. CASE UNCHANGED vars
  BY <1>16 DEF vars, PageTypes, PostTypes, RequestTypes, BodyTypes, ServiceTypes,
               SocketTypes, Posted, Loaded, Open
<1> QED BY <1>1, <1>2, <1>3, <1>4, <1>5, <1>6, <1>7, <1>8, <1>9, <1>10, <1>11,
           <1>12, <1>13, <1>14, <1>15, <1>16 DEF Next

-----------------------------------------------------------------------------
(* Requests keep their pages.                                              *)

(* Every step keeps what belongs to a page with that page.  <1>s: a request *)
(* that keeps its page keeps all facts `Same` about it, so each action has  *)
(* to answer only for the references it changes.                           *)
LEMMA ApartStep == IInv /\ [Next]_vars => Orderly'
<1> SUFFICES ASSUME IInv, [Next]_vars PROVE Orderly'
  OBVIOUS
<1>a. /\ Parts /\ Listening /\ Dialling /\ Undialled
      /\ CookiesApart /\ SessionsApart /\ SocketsApart /\ AnswersApart
  BY TypeParts DEF IInv, Orderly, Apart
<1>n. None \notin Requests /\ Requests \subseteq Nat
  BY WebAssumption DEF Requests
<1>s. ASSUME \A q \in Requests : Sent(q) => Sent(q)' /\ post'[q].page = post[q].page
      PROVE  \A q : \A r \in Requests : Same(q, r) => Same(q, r)'
  BY <1>s DEF Same
<1> DEFINE Kept == \A q : \A r \in Requests : Same(q, r) => Same(q, r)'
<1> USE <1>a, <1>n DEF Parts, page, http, node, database, Orderly, Apart
<1>1. ASSUME NEW p \in Pages, NEW k \in Kinds, Post(p, k) PROVE Orderly'
  <2>1. PICK r \in Requests :
         /\ \A q \in Requests : phase[q] = "free" <=> q >= r
         /\ post' = [post EXCEPT ![r] =
              [page |-> p, kind |-> k, cookie |-> cookie[p], heard |-> TRUE]]
         /\ phase' = [phase EXCEPT ![r] = "sent"]
    BY <1>1 DEF Post
  <2>2. /\ phase[r] = "free"
        /\ \A q \in Requests : Sent(q)' <=> Sent(q) \/ q = r
        /\ \A q \in Requests \ {r} : post'[q] = post[q] /\ phase'[q] = phase[q]
        /\ post'[r].page = p /\ post'[r].cookie = cookie[p]
    <3>1. phase[r] = "free"
      BY <2>1
    <3>2. phase'[r] = "sent" /\ \A q \in Requests \ {r} : phase'[q] = phase[q]
      BY <2>1 DEF RequestTypes
    <3>3. /\ post'[r] = [page |-> p, kind |-> k, cookie |-> cookie[p], heard |-> TRUE]
          /\ \A q \in Requests \ {r} : post'[q] = post[q]
      BY <2>1 DEF PostTypes
    <3> QED BY <3>1, <3>2, <3>3 DEF Sent
  <2>0. Kept
    BY <1>s, <2>2 DEF Sent
  <2>3. CookiesApart'
    <3>1. \A q \in Pages : cookie[q] # None => cookie[q] \in Requests \ {r}
      BY <2>2 DEF PageTypes, CookiesApart, Sent
    <3>2. cookie' = cookie
      BY <1>1 DEF Post
    <3>3. ASSUME NEW q \in Pages, cookie[q] # None
          PROVE  Sent(cookie[q])' /\ post'[cookie[q]].page = q
      <4>1. Sent(cookie[q]) /\ post[cookie[q]].page = q
        BY <3>3 DEF CookiesApart
      <4>2. phase'[cookie[q]] = phase[cookie[q]] /\ post'[cookie[q]] = post[cookie[q]]
        BY <2>2, <3>1, <3>3
      <4> QED BY <3>2, <4>1, <4>2 DEF Sent
    <3>4. cookie[p] # None => Same(cookie[p], r)'
      BY <2>2, <3>1, <3>2, <3>3 DEF Same
    <3>5. ASSUME NEW q \in Requests, Sent(q)', post'[q].cookie # None
          PROVE  Same(post[q].cookie, q)'
      <4>1. CASE q = r
        BY <2>2, <3>2, <3>4, <3>5, <4>1
      <4>2. CASE q # r
        BY <2>0, <2>2, <3>5, <4>2 DEF CookiesApart
      <4> QED BY <4>1, <4>2
    <3> QED BY <3>2, <3>3, <3>5 DEF CookiesApart
  <2>4. SessionsApart' /\ SocketsApart' /\ AnswersApart'
    BY <2>0, <1>1 DEF Post, SessionsApart, SocketsApart, AnswersApart
  <2>5. Listening'
    <3>1. listeners' = listeners /\ conn' = conn
      BY <1>1 DEF Post
    <3>2. ASSUME NEW c \in Requests, NEW s \in listeners[c]
          PROVE  phase'[s] = "waiting" /\ post'[s].kind = "query" /\ conn'[s] = c
      <4>1. s \in Requests /\ phase[s] = "waiting" /\ post[s].kind = "query" /\ conn[s] = c
        BY DEF Listening, ServiceTypes
      <4>2. s # r
        BY <2>2, <4>1
      <4> QED BY <2>2, <3>1, <4>1, <4>2
    <3> QED BY <3>1, <3>2 DEF Listening
  <2>6. Dialling' /\ Undialled'
    BY <2>2, <1>1 DEF Post, Dialling, Undialled
  <2> QED BY <2>3, <2>4, <2>5, <2>6
<1>2. ASSUME NEW p \in Pages, Reload(p) PROVE Orderly'
  <2>1. \A r \in Requests : Sent(r) =>
         /\ post'[r].page = post[r].page /\ post'[r].kind = post[r].kind
         /\ post'[r].cookie = post[r].cookie
    <3> SUFFICES ASSUME NEW r \in Requests, Sent(r)
                 PROVE  /\ post'[r].page = post[r].page /\ post'[r].kind = post[r].kind
                        /\ post'[r].cookie = post[r].cookie
      OBVIOUS
    <3>1. post[r] \in Messages
      BY DEF Sent, Posted, PostTypes
    <3>2. post'[r] = post[r] \/ post'[r] = [post[r] EXCEPT !.heard = FALSE]
      BY <1>2 DEF Reload
    <3> QED BY <3>1, <3>2 DEF Messages
  <2>2. \A r \in Requests : Sent(r)' <=> Sent(r)
    BY <1>2 DEF Reload, Sent
  <2>0. Kept
    BY <1>s, <2>1, <2>2
  <2>3. CookiesApart'
    BY <2>0, <2>1, <2>2, <1>2 DEF Reload, CookiesApart, PageTypes
  <2>4. SessionsApart' /\ SocketsApart' /\ AnswersApart'
    BY <2>0, <1>2 DEF Reload, SessionsApart, SocketsApart, AnswersApart
  <2>5. Listening' /\ Dialling' /\ Undialled'
    BY <2>1, <1>2 DEF Reload, Listening, Dialling, Undialled, ServiceTypes, Sent
  <2> QED BY <2>3, <2>4, <2>5
<1>3. ASSUME NEW p \in Pages, CookieExpires(p) PROVE Orderly'
  <2>0. Kept
    BY <1>s, <1>3 DEF CookieExpires, RequestTypes, PostTypes, Posted, Sent
  <2>1. SessionsApart' /\ SocketsApart' /\ AnswersApart' /\ Listening' /\ Dialling' /\ Undialled'
    BY <2>0, <1>3 DEF CookieExpires, SessionsApart, SocketsApart, AnswersApart,
                      Listening, Dialling, Undialled
  <2>2. CookiesApart'
    BY <2>0, <1>3 DEF CookieExpires, CookiesApart, PageTypes, PostTypes, Posted,
                      Messages, RequestTypes, Sent
  <2> QED BY <2>1, <2>2
<1>4. ASSUME NEW r \in Requests, LoadSession(r) PROVE Orderly'
  <2>0. Kept
    BY <1>s, <1>4 DEF LoadSession, RequestTypes, PostTypes, Posted, Sent
  <2>1. SocketsApart' /\ AnswersApart'
    BY <2>0, <1>4 DEF LoadSession, SocketsApart, AnswersApart
  <2>2. CookiesApart'
    BY <2>0, <1>4 DEF LoadSession, CookiesApart, PageTypes, PostTypes, Posted,
                      Messages, RequestTypes, Sent
  <2>3. SessionsApart'
    <3>1. sessions[r] # None => Same(sessions[r], r)
      BY DEF SessionsApart
    <3>2. post[r].cookie # None => Same(post[r].cookie, r)
      BY <1>4 DEF LoadSession, CookiesApart, Sent
    <3>3. Same(r, r)
      BY <1>4 DEF LoadSession, Same, Sent
    <3>4. sid'[r] # None => Same(sid'[r], r)
      BY <1>4, <3>2, <3>3 DEF LoadSession, RequestTypes
    <3>5. sid'[r] \in Requests /\ conn'[r] = sessions[sid'[r]]
      BY <1>4, <3>2 DEF LoadSession, RequestTypes, Same
    <3>6. conn'[r] # None => Same(conn'[r], r)
      BY <3>4, <3>5 DEF SessionsApart, Same
    <3> QED BY <2>0, <1>4, <3>4, <3>6 DEF LoadSession, SessionsApart, RequestTypes
  <2>4. Listening'
    BY <2>0, <1>4 DEF LoadSession, Listening, ServiceTypes, RequestTypes, Sent
  <2>5. Dialling'
    BY <2>0, <1>4 DEF LoadSession, Dialling, RequestTypes, Sent
  <2>6. Undialled'
    BY <2>0, <1>4 DEF LoadSession, Undialled, RequestTypes, Sent
  <2> QED BY <2>1, <2>2, <2>3, <2>4, <2>5, <2>6
<1>5. ASSUME NEW r \in Requests, SendQuery(r) PROVE Orderly'
  <2>0. Kept
    BY <1>s, <1>5 DEF SendQuery, RequestTypes, PostTypes, Posted, Sent
  <2>1. SessionsApart' /\ AnswersApart'
    BY <2>0, <1>5 DEF SendQuery, SessionsApart, AnswersApart
  <2>2. CookiesApart'
    BY <2>0, <1>5 DEF SendQuery, CookiesApart, PageTypes, PostTypes, Posted,
                      Messages, Handles, RequestTypes, Sent
  <2>3. SocketsApart'
    <3>1. conn[r] \in Requests /\ Same(conn[r], r) /\ Same(r, conn[r])
      BY <1>5 DEF SendQuery, HasClient, ServiceTypes, SessionsApart, Same
    <3>2. \A c \in Requests : \A q \in listeners'[c] : Same(q, c)
      BY <1>5, <3>1 DEF SendQuery, ServiceTypes, SocketsApart
    <3>3. ASSUME NEW c \in Requests, NEW i \in DOMAIN toDb'[c] PROVE Same(toDb'[c][i], c)
      <4>1. toDb[c] \in Seq(Requests) /\ r \in Requests
        BY DEF SocketTypes
      <4>2. toDb'[c] = toDb[c] \/ (c = conn[r] /\ toDb'[c] = Append(toDb[c], r))
        BY <1>5 DEF SendQuery, SocketTypes
      <4>3. (i \in DOMAIN toDb[c] /\ toDb'[c][i] = toDb[c][i]) \/ (c = conn[r] /\ toDb'[c][i] = r)
        BY <3>3, <4>1, <4>2
      <4> QED BY <3>1, <4>3 DEF SocketsApart
    <3> QED BY <2>0, <1>5, <3>2, <3>3 DEF SendQuery, SocketsApart
  <2>4. Listening'
    BY <2>0, <1>5 DEF SendQuery, Listening, Handles, HasClient, ServiceTypes,
                      RequestTypes, Sent
  <2>5. Dialling'
    BY <2>0, <1>5 DEF SendQuery, Dialling, Handles, RequestTypes, Sent
  <2>6. Undialled'
    BY <2>0, <1>5 DEF SendQuery, Undialled, Handles, RequestTypes, Sent
  <2> QED BY <2>1, <2>2, <2>3, <2>4, <2>5, <2>6
<1>6. ASSUME NEW r \in Requests, NoClient(r) PROVE Orderly'
  <2>0. Kept
    BY <1>s, <1>6 DEF NoClient, RequestTypes, PostTypes, Posted, Sent
  <2>1. SessionsApart' /\ SocketsApart' /\ AnswersApart'
    BY <2>0, <1>6 DEF NoClient, SessionsApart, SocketsApart, AnswersApart
  <2>2. CookiesApart'
    BY <2>0, <1>6 DEF NoClient, CookiesApart, PageTypes, PostTypes, Posted,
                      Messages, Handles, RequestTypes, Sent
  <2>3. Listening'
    BY <2>0, <1>6 DEF NoClient, Listening, ServiceTypes, Handles, RequestTypes, Sent
  <2>4. Dialling'
    BY <2>0, <1>6 DEF NoClient, Dialling, Handles, RequestTypes, Sent
  <2>5. Undialled'
    BY <2>0, <1>6 DEF NoClient, Undialled, Handles, RequestTypes, Sent
  <2> QED BY <2>1, <2>2, <2>3, <2>4, <2>5
<1>7. ASSUME NEW r \in Requests, Connect(r) PROVE Orderly'
  <2>0. Kept
    BY <1>s, <1>7 DEF Connect, RequestTypes, PostTypes, Posted, Sent
  <2>1. SessionsApart' /\ SocketsApart' /\ AnswersApart'
    BY <2>0, <1>7 DEF Connect, SessionsApart, SocketsApart, AnswersApart
  <2>2. CookiesApart'
    BY <2>0, <1>7 DEF Connect, CookiesApart, PageTypes, PostTypes, Posted, Messages,
                      Handles, RequestTypes, Sent
  <2>3. Listening'
    BY <2>0, <1>7 DEF Connect, Listening, ServiceTypes, Handles, RequestTypes, Sent
  <2>4. Dialling'
    BY <2>0, <1>7 DEF Connect, Dialling, Handles, SocketTypes, RequestTypes, Sent
  <2>5. Undialled'
    BY <2>0, <1>7 DEF Connect, Undialled, Handles, SocketTypes, RequestTypes, Sent
  <2> QED BY <2>1, <2>2, <2>3, <2>4, <2>5
<1>8. ASSUME NEW r \in Requests, Connected(r) PROVE Orderly'
  <2>0. Kept
    BY <1>s, <1>8 DEF Connected, RequestTypes, PostTypes, Posted, Sent
  <2>1. SocketsApart' /\ AnswersApart'
    BY <2>0, <1>8 DEF Connected, SocketsApart, AnswersApart
  <2>2. CookiesApart'
    BY <2>0, <1>8 DEF Connected, CookiesApart, PageTypes, PostTypes, Posted,
                      Messages, Dialling, RequestTypes, Sent
  <2>3. SessionsApart'
    BY <2>0, <1>8 DEF Connected, SessionsApart, Dialling, Loaded, ServiceTypes,
                      Same, RequestTypes, Sent
  <2>4. Listening'
    BY <2>0, <1>8 DEF Connected, Listening, Dialling, ServiceTypes, RequestTypes, Sent
  <2>5. Dialling'
    BY <2>0, <1>8 DEF Connected, Dialling, SocketTypes, RequestTypes, Sent
  <2>6. Undialled'
    BY <2>0, <1>8 DEF Connected, Undialled, Dialling, SocketTypes, RequestTypes, Sent
  <2> QED BY <2>1, <2>2, <2>3, <2>4, <2>5, <2>6
<1>9. ASSUME NEW r \in Requests, Disconnect(r) PROVE Orderly'
  <2>0. Kept
    BY <1>s, <1>9 DEF Disconnect, RequestTypes, PostTypes, Posted, Sent
  <2>1. AnswersApart'
    BY <2>0, <1>9 DEF Disconnect, AnswersApart
  <2>2. CookiesApart'
    BY <2>0, <1>9 DEF Disconnect, CookiesApart, PageTypes, PostTypes, Posted,
                      Messages, Handles, RequestTypes, Sent
  <2>3. SessionsApart'
    BY <2>0, <1>9 DEF Disconnect, SessionsApart, ServiceTypes, RequestTypes, Sent
  <2>4. SocketsApart'
    BY <2>0, <1>9 DEF Disconnect, SocketsApart, SocketTypes, RequestTypes, Sent
  <2>5. Listening'
    BY <2>0, <1>9 DEF Disconnect, Listening, ServiceTypes, Handles, RequestTypes, Sent
  <2>6. Dialling'
    BY <2>0, <1>9 DEF Disconnect, Dialling, Handles, SocketTypes, RequestTypes, Sent
  <2>7. Undialled'
    BY <2>0, <1>9 DEF Disconnect, Undialled, Handles, HasClient, SocketTypes,
                      ServiceTypes, RequestTypes, Sent
  <2> QED BY <2>1, <2>2, <2>3, <2>4, <2>5, <2>6, <2>7
<1>10. ASSUME NEW r \in Requests, TimesOut(r) PROVE Orderly'
  <2>0. Kept
    BY <1>s, <1>10 DEF TimesOut, RequestTypes, PostTypes, Posted, Sent
  <2>1. SessionsApart' /\ AnswersApart'
    BY <2>0, <1>10 DEF TimesOut, SessionsApart, AnswersApart
  <2>2. CookiesApart'
    BY <2>0, <1>10 DEF TimesOut, CookiesApart, PageTypes, PostTypes, Posted,
                       Messages, RequestTypes, Sent
  <2>3. SocketsApart'
    BY <2>0, <1>10 DEF TimesOut, SocketsApart, ServiceTypes, RequestTypes, Sent
  <2>4. Listening'
    BY <2>0, <1>10 DEF TimesOut, Listening, ServiceTypes, RequestTypes, Sent
  <2>5. Dialling'
    BY <2>0, <1>10 DEF TimesOut, Dialling, RequestTypes, Sent
  <2>6. Undialled'
    BY <2>0, <1>10 DEF TimesOut, Undialled, RequestTypes, Sent
  <2> QED BY <2>1, <2>2, <2>3, <2>4, <2>5, <2>6
<1>11. ASSUME NEW r \in Requests, Deliver(r) PROVE Orderly'
  <2>0. Kept
    BY <1>s, <1>11 DEF Deliver, RequestTypes, PostTypes, Posted, Sent
  <2>1. SocketsApart'
    BY <2>0, <1>11 DEF Deliver, SocketsApart
  <2>2. CookiesApart'
    <3>1. \A q \in Requests : Sent(q)' <=> Sent(q)
      BY <1>11 DEF Deliver, RequestTypes, Sent
    <3>2. \A q \in Requests \ {r} : post'[q] = post[q]
      BY <1>11 DEF Deliver, PostTypes
    <3>3. /\ post'[r].page = post[r].page
          /\ post'[r].cookie = None
      <4>1. post[r] \in Messages
        BY <1>11 DEF Deliver, Posted, PostTypes
      <4>2. post'[r] = [[post[r] EXCEPT !.cookie = None] EXCEPT !.heard = FALSE]
        BY <1>11 DEF Deliver, PostTypes
      <4> QED BY <4>1, <4>2 DEF Messages
    <3>4. \A p \in Pages : \/ cookie'[p] = cookie[p]
                           \/ cookie'[p] = sid[r] /\ p = post[r].page
      <4>1. \/ cookie' = cookie
            \/ cookie' = [cookie EXCEPT ![post[r].page] = sid[r]]
        BY <1>11 DEF Deliver
      <4>2. CASE cookie' = cookie
        BY <4>2
      <4>3. CASE cookie' = [cookie EXCEPT ![post[r].page] = sid[r]]
        <5>1. cookie \in [Pages -> Requests \cup {None}]
          BY DEF PageTypes
        <5> QED BY <4>3, <5>1
      <4> QED BY <4>1, <4>2, <4>3
    <3>5. sid[r] # None => Same(sid[r], r)
      BY DEF SessionsApart
    <3>6. \A p \in Pages : cookie'[p] # None =>
            cookie'[p] \in Requests /\ Sent(cookie'[p]) /\ post[cookie'[p]].page = p
      BY <3>4, <3>5 DEF CookiesApart, PageTypes, Same
    <3>7. \A q \in Requests : post'[q].page = post[q].page
      BY <3>2, <3>3
    <3>8. \A p \in Pages : cookie'[p] # None => (Sent(cookie[p]) /\ post[cookie[p]].page = p)'
      <4> SUFFICES ASSUME NEW p \in Pages, cookie'[p] # None
                   PROVE  (Sent(cookie[p]) /\ post[cookie[p]].page = p)'
        OBVIOUS
      <4>1. PICK s \in Requests : s = cookie'[p]
        BY <3>6
      <4>2. phase'[s] # "free" /\ post'[s].page = p
        BY <3>1, <3>6, <3>7, <4>1 DEF Sent
      <4> QED BY <4>1, <4>2 DEF Sent
    <3>9. \A q \in Requests : Sent(q)' /\ post'[q].cookie # None => Same(post[q].cookie, q)'
      BY <2>0, <3>1, <3>2, <3>3 DEF CookiesApart
    <3> QED BY <3>8, <3>9 DEF CookiesApart
  <2>3. SessionsApart'
    BY <2>0, <1>11 DEF Deliver, SessionsApart, RequestTypes, Sent
  <2>4. AnswersApart'
    BY <2>0, <1>11 DEF Deliver, AnswersApart, BodyTypes, RequestTypes, Sent
  <2>5. Listening'
    BY <2>0, <1>11 DEF Deliver, Listening, ServiceTypes, PostTypes, RequestTypes, Sent
  <2>6. Dialling'
    BY <2>0, <1>11 DEF Deliver, Dialling, PostTypes, RequestTypes, Sent
  <2>7. Undialled'
    BY <2>0, <1>11 DEF Deliver, Undialled, RequestTypes, Sent
  <2> QED BY <2>1, <2>2, <2>3, <2>4, <2>5, <2>6, <2>7
<1>12. ASSUME NEW c \in Requests, Data(c) PROVE Orderly'
  <2>1. PICK n \in 1..Len(fromDb[c]) :
         /\ body' = [r \in Requests |->
              IF r \in Heard(c) THEN SubSeq(fromDb[c], 1, n) ELSE body[r]]
         /\ phase' = [r \in Requests |-> IF r \in Heard(c) THEN "replied" ELSE phase[r]]
         /\ fromDb' = [fromDb EXCEPT ![c] = SubSeq(@, n + 1, Len(@))]
    BY <1>12 DEF Data
  <2>2. fromDb[c] \in Seq(Piece)
    BY DEF SocketTypes
  <2>3. /\ \A i \in DOMAIN SubSeq(fromDb[c], 1, n) :
             \E j \in DOMAIN fromDb[c] : SubSeq(fromDb[c], 1, n)[i] = fromDb[c][j]
        /\ \A i \in DOMAIN SubSeq(fromDb[c], n + 1, Len(fromDb[c])) :
             \E j \in DOMAIN fromDb[c] :
               SubSeq(fromDb[c], n + 1, Len(fromDb[c]))[i] = fromDb[c][j]
    BY <2>1, <2>2
  <2>4. \A q \in Requests : Sent(q)' <=> Sent(q)
    BY <2>1 DEF Heard, Listening, Sent
  <2>0. Kept
    BY <1>s, <2>4, <1>12 DEF Data
  <2>5. CookiesApart'
    BY <2>0, <2>4, <1>12 DEF Data, CookiesApart, PageTypes
  <2>6. SocketsApart'
    <3>1. \A d \in Requests : \A r \in listeners'[d] : Same(r, d)
      BY <1>12 DEF Data, ServiceTypes, SocketsApart
    <3>2. ASSUME NEW d \in Requests, NEW i \in DOMAIN fromDb'[d]
          PROVE  \A q \in fromDb'[d][i].for : Same(q, d)
      <4>1. \E j \in DOMAIN fromDb[d] : fromDb'[d][i] = fromDb[d][j]
        BY <2>1, <2>3, <3>2 DEF SocketTypes
      <4> QED BY <4>1 DEF SocketsApart
    <3> QED BY <2>0, <3>1, <3>2, <1>12 DEF Data, SocketsApart
  <2>7. AnswersApart'
    <3>1. ASSUME NEW r \in Requests, r \in listeners[c], NEW i \in DOMAIN body'[r],
                 NEW q \in body'[r][i].for
          PROVE  Same(q, r)
      <4>1. PICK j \in DOMAIN fromDb[c] : body'[r][i] = fromDb[c][j]
        BY <2>1, <2>3, <3>1 DEF Heard
      <4>2. Same(q, c) /\ Same(r, c)
        BY <3>1, <4>1 DEF SocketsApart
      <4> QED BY <4>2 DEF Same
    <3>2. ASSUME NEW r \in Requests, r \notin listeners[c], NEW i \in DOMAIN body'[r],
                 NEW q \in body'[r][i].for
          PROVE  Same(q, r)
      BY <2>1, <3>2 DEF Heard, AnswersApart
    <3> QED BY <2>0, <3>1, <3>2 DEF AnswersApart
  <2>8. SessionsApart'
    BY <2>0, <1>12 DEF Data, SessionsApart
  <2>9. Listening'
    BY <2>1, <1>12 DEF Data, Heard, Listening, ServiceTypes
  <2>10. Dialling' /\ Undialled'
    BY <2>1, <1>12 DEF Data, Heard, Listening, Dialling, Undialled
  <2> QED BY <2>5, <2>6, <2>7, <2>8, <2>9, <2>10
<1>13. ASSUME NEW c \in Requests, DatabaseAnswers(c) PROVE Orderly'
  <2>1. PICK n \in 1..Len(toDb[c]), k \in 1..MaxPieces :
         /\ fromDb' = [fromDb EXCEPT ![c] = @ \o Answer({toDb[c][i] : i \in 1..n}, k)]
         /\ toDb' = [toDb EXCEPT ![c] = SubSeq(@, n + 1, Len(@))]
    BY <1>13 DEF DatabaseAnswers
  <2>0. Kept
    BY <1>s, <1>13 DEF DatabaseAnswers, Sent
  <2>2. toDb[c] \in Seq(Requests) /\ fromDb[c] \in Seq(Piece)
    BY DEF SocketTypes
  <2>3. \A i \in DOMAIN toDb'[c] : \E j \in DOMAIN toDb[c] : toDb'[c][i] = toDb[c][j]
    BY <2>1, <2>2 DEF SocketTypes
  <2>4. \A q \in {toDb[c][i] : i \in 1..n} : Same(q, c)
    BY <2>1, <2>2 DEF SocketsApart
  <2>5. ASSUME NEW i \in DOMAIN fromDb'[c], NEW q \in fromDb'[c][i].for PROVE Same(q, c)
    <3> DEFINE A == Answer({toDb[c][j] : j \in 1..n}, k)
    <3>1. A \in Seq([for : SUBSET {toDb[c][j] : j \in 1..n}, more : BOOLEAN])
      BY DEF Answer
    <3>2. fromDb'[c] = fromDb[c] \o A
      BY <2>1 DEF SocketTypes
    <3> HIDE DEF A
    <3>3. \/ i \in DOMAIN fromDb[c] /\ fromDb'[c][i] = fromDb[c][i]
          \/ \E j \in DOMAIN A : fromDb'[c][i] = A[j]
      BY <2>2, <2>5, <3>1, <3>2
    <3>4. \A j \in DOMAIN A : A[j].for \subseteq {toDb[c][l] : l \in 1..n}
      BY DEF A, Answer
    <3> QED BY <2>4, <2>5, <3>3, <3>4 DEF SocketsApart
  <2>6. SocketsApart'
    <3>1. \A d \in Requests \ {c} : toDb'[d] = toDb[d] /\ fromDb'[d] = fromDb[d]
      BY <2>1 DEF SocketTypes
    <3>2. ASSUME NEW d \in Requests, NEW i \in DOMAIN toDb'[d] PROVE Same(toDb'[d][i], d)
      <4>1. \E j \in DOMAIN toDb[d] : toDb'[d][i] = toDb[d][j]
        BY <2>3, <3>1, <3>2
      <4> QED BY <4>1 DEF SocketsApart
    <3>3. \A d \in Requests : \A i \in DOMAIN fromDb'[d] : \A q \in fromDb'[d][i].for : Same(q, d)
      BY <2>5, <3>1 DEF SocketsApart
    <3> QED BY <2>0, <3>2, <3>3, <1>13 DEF DatabaseAnswers, SocketsApart
  <2>7. CookiesApart' /\ SessionsApart' /\ AnswersApart' /\ Listening' /\ Dialling' /\ Undialled'
    BY <2>0, <1>13 DEF DatabaseAnswers, CookiesApart, SessionsApart, AnswersApart,
                       Listening,
                       Dialling, Undialled, Sent
  <2> QED BY <2>6, <2>7
<1>d. ASSUME NodeDies PROVE Orderly'
  <2>0. Kept
    BY <1>s, <1>d DEF NodeDies, RequestTypes, Sent
  <2>1. AnswersApart'
    BY <2>0, <1>d DEF NodeDies, AnswersApart
  <2>2. CookiesApart'
    BY <2>0, <1>d DEF NodeDies, CookiesApart, PageTypes, PostTypes, Posted,
                      Messages, RequestTypes, Sent
  <2>3. SessionsApart'
    BY <2>0, <1>d DEF NodeDies, SessionsApart, RequestTypes, Sent
  <2>4. SocketsApart'
    BY <2>0, <1>d DEF NodeDies, SocketsApart, RequestTypes, Sent
  <2>5. Listening'
    BY <2>0, <1>d DEF NodeDies, Listening, RequestTypes, Sent
  <2>6. Dialling'
    BY <2>0, <1>d DEF NodeDies, Dialling, RequestTypes, Sent
  <2>7. Undialled'
    BY <2>0, <1>d DEF NodeDies, Undialled, RequestTypes, Sent
  <2> QED BY <2>1, <2>2, <2>3, <2>4, <2>5, <2>6, <2>7
<1>14. ASSUME NEW r \in Requests, WriteFails(r) PROVE Orderly'
  BY <1>14, <1>d DEF WriteFails
<1>15. ASSUME DatabaseStops PROVE Orderly'
  <2>a. CASE NodeDies
    BY <2>a, <1>d
  <2>b. CASE ~NodeDies
    <3>0. Kept
      BY <2>b, <1>s, <1>15 DEF DatabaseStops, Sent
    <3>1. CookiesApart' /\ SessionsApart' /\ AnswersApart' /\ Listening'
      BY <3>0, <2>b, <1>15 DEF DatabaseStops, CookiesApart, SessionsApart,
                               AnswersApart, Listening, Sent
    <3>2. SocketsApart'
      BY <3>0, <2>b, <1>15 DEF DatabaseStops, SocketsApart, RequestTypes, Sent
    <3>3. Dialling'
      BY <3>0, <2>b, <1>15 DEF DatabaseStops, Dialling, SocketTypes, RequestTypes, Sent
    <3>4. Undialled'
      BY <3>0, <2>b, <1>15 DEF DatabaseStops, Undialled, SocketTypes, RequestTypes, Sent
    <3> QED BY <3>1, <3>2, <3>3, <3>4
  <2> QED BY <2>a, <2>b
<1>16. CASE UNCHANGED vars
  <2>1. Apart'
    BY <1>16 DEF vars, page, http, node, database, CookiesApart, SessionsApart,
                 SocketsApart, AnswersApart, Apart, Same, Sent
  <2>2. Listening' /\ Dialling' /\ Undialled'
    BY <1>16 DEF vars, page, http, node, database, Listening, Dialling, Undialled
  <2> QED BY <2>1, <2>2 DEF Orderly
<1> QED BY <1>1, <1>2, <1>3, <1>4, <1>5, <1>6, <1>7, <1>8, <1>9, <1>10, <1>11,
           <1>12, <1>13, <1>14, <1>15, <1>16 DEF Next

-----------------------------------------------------------------------------
(* The invariant holds in every reachable state. *)
LEMMA Inductive == Safety => []IInv
<1>1. IInv /\ [Next]_vars => IInv'
  BY TypeStep, ApartStep DEF IInv
<1> QED BY InitInvariant, <1>1, PTL DEF Safety

(* Every variable keeps its type: a request that is handled has a session, *)
(* and only a socket that was open has queries and answers on it           *)
(* (server.js:19-54).                                                      *)
THEOREM TypeCorrect == Safety => []TypeOK
<1>1. IInv => TypeOK
  BY DEF IInv
<1> QED BY Inductive, <1>1, PTL

(* No page is shown an answer that is for another page, for any number of  *)
(* pages, requests, pieces and failures (server.js:19-42).                 *)
THEOREM PagesGetOwnAnswers == Safety => []OwnAnswers
<1>1. IInv => OwnAnswers
  BY DEF IInv, Orderly, Apart, AnswersApart, Same, OwnAnswers
<1> QED BY Inductive, <1>1, PTL

-----------------------------------------------------------------------------
(***************************************************************************)
(* Proofs about the pages of WebBridge whose users wait for each answer:   *)
(* they get whole answers to their own queries, stay connected and hold    *)
(* one connection, whatever the other pages do.  A patient page has at     *)
(* most one request in flight (Lone); the other parts of the invariant say *)
(* what that request may find.                                             *)
(***************************************************************************)
(* The inductive invariant, beside IInv.                                   *)

(* A patient page has one request at a time. *)
Lone == \A p \in Patient : \A q, r \in Pending(p) : q = r

(* Its success callback will be called, and it is a CONNECT exactly while  *)
(* the page is not connected.                                              *)
Attended ==
  \A p \in Patient : \A r \in Pending(p) :
    /\ post[r].heard
    /\ post[r].kind = "connect" <=> ~connected[p]

(* A connection of a page that was not loaded again is its only one; the   *)
(* page knows of it, or is about to.                                       *)
HeldBy(p) ==
  \A c \in clients : post[c].page = p =>
    /\ \A d \in clients : post[d].page = p => d = c
    /\ Pending(p) = {} => connected[p]
    /\ \A r \in Pending(p) :
         /\ post[r].kind = "connect" => phase[r] = "replied"
         /\ post[r].kind = "disconnect" => phase[r] # "replied"
Held == \A p \in Patient \ left : HeldBy(p)

(* The session of a connected page leads to a connection until it is       *)
(* disconnected, and the page's request finds it; a CONNECT that is        *)
(* answered has left the session so.                                       *)
SteadyFor(p) ==
  /\ connected[p] =>
       /\ cookie[p] # None
       /\ \/ sessions[cookie[p]] \in clients
          \/ \E r \in Pending(p) : post[r].kind = "disconnect" /\ phase[r] = "replied"
       /\ \A r \in Pending(p) :
            /\ phase[r] = "failed" => post[r].kind = "query"
            /\ post[r].cookie = cookie[p]
            /\ phase[r] = "loaded" =>
                 sid[r] = cookie[p] /\ conn[r] = sessions[cookie[p]]
  /\ \A r \in Pending(p) : post[r].kind = "connect" /\ phase[r] = "replied" =>
       sid[r] # None /\ sessions[sid[r]] = r /\ r \in clients
Steady == \A p \in Patient \ lapsed : SteadyFor(p)

(* A connection whose answers were not cut holds nothing, or the one query *)
(* that waits, or the whole answer to it.                                  *)
Whole(r, pieces) == \E k \in 1..MaxPieces : pieces = Answer({r}, k)
Piped ==
  \A c \in Requests : Sent(c) /\ post[c].page \in Patient /\ c \notin torn =>
    \/ toDb[c] = <<>> /\ fromDb[c] = <<>>
    \/ \E r \in listeners[c] : \/ toDb[c] = <<r>> /\ fromDb[c] = <<>>
                               \/ toDb[c] = <<>> /\ Whole(r, fromDb[c])

(* What the page is shown is then the whole answer. *)
Shown ==
  \A r \in Requests : body[r] # <<>> =>
    /\ phase[r] = "replied"
    /\ post[r].page \in Patient /\ conn[r] \notin torn => Whole(r, body[r])

PInv == Lone /\ Attended /\ Held /\ Steady /\ Piped /\ Shown

(* An answer of which the last piece was taken was taken whole. *)
LEMMA LastPiece ==
  ASSUME NEW S, NEW k \in Nat, NEW n \in 1..Len(Answer(S, k)), ~Answer(S, k)[n].more
  PROVE  /\ SubSeq(Answer(S, k), 1, n) = Answer(S, k)
         /\ SubSeq(Answer(S, k), n + 1, Len(Answer(S, k))) = <<>>
<1> DEFINE A == Answer(S, k)
<1>1. /\ A \in Seq([for : {S}, more : BOOLEAN]) /\ Len(A) = k
      /\ \A i \in 1..k : A[i].more = (i < k)
  BY DEF Answer
<1>2. n = k
  <2>1. n \in 1..k /\ A[n].more = (n < k) /\ ~A[n].more
    BY <1>1
  <2>2. ~(n < k)
    <3> HIDE DEF A
    <3> QED BY <2>1, Zenon
  <2> QED BY <2>1, <2>2
<1> HIDE DEF A
<1>3. SubSeq(A, 1, k) = A /\ SubSeq(A, k + 1, k) = <<>>
  BY <1>1
<1> QED BY <1>1, <1>2, <1>3 DEF A

(* Nothing is in flight before the first request. *)
LEMMA InitPatient == Init => PInv
<1> SUFFICES ASSUME Init PROVE PInv
  OBVIOUS
<1>1. \A p \in Pages : Pending(p) = {}
  BY DEF Init, Pending, InFlight
<1>2. Patient \subseteq Pages
  BY WebAssumption
<1> QED BY <1>1, <1>2 DEF Init, PInv, Lone, Attended, Held, HeldBy, Steady, SteadyFor, Piped, Shown, Sent

(* Every step keeps the invariant.  <2>0 says what an action does to the    *)
(* requests in flight; <2>10 to <2>15 are the parts of PInv.               *)
LEMMA PatientStep == IInv /\ PInv /\ [Next]_vars => PInv'
<1> SUFFICES ASSUME IInv, PInv, [Next]_vars PROVE PInv'
  OBVIOUS
<1>a. /\ Parts /\ Listening /\ Dialling /\ Undialled
      /\ CookiesApart /\ SessionsApart /\ SocketsApart /\ AnswersApart
      /\ Lone /\ Attended /\ Held /\ Steady /\ Piped /\ Shown
  BY TypeParts DEF IInv, Orderly, Apart, PInv
<1>n. None \notin Requests /\ Requests \subseteq Nat /\ Patient \subseteq Pages
  BY WebAssumption DEF Requests
<1> USE <1>a, <1>n DEF Parts, page, http, node, database
<1>1. ASSUME NEW p \in Pages, NEW k \in Kinds, Post(p, k) PROVE PInv'
  <2>1. PICK r \in Requests :
         /\ \A q \in Requests : phase[q] = "free" <=> q >= r
         /\ post' = [post EXCEPT ![r] =
              [page |-> p, kind |-> k, cookie |-> cookie[p], heard |-> TRUE]]
         /\ phase' = [phase EXCEPT ![r] = "sent"]
    BY <1>1 DEF Post
  <2>2. /\ phase[r] = "free" /\ phase'[r] = "sent"
        /\ post'[r] = [page |-> p, kind |-> k, cookie |-> cookie[p], heard |-> TRUE]
        /\ \A q \in Requests \ {r} : post'[q] = post[q] /\ phase'[q] = phase[q]
    <3>1. phase[r] = "free"
      BY <2>1
    <3>2. phase'[r] = "sent" /\ \A q \in Requests \ {r} : phase'[q] = phase[q]
      BY <2>1 DEF RequestTypes
    <3>3. /\ post'[r] = [page |-> p, kind |-> k, cookie |-> cookie[p], heard |-> TRUE]
          /\ \A q \in Requests \ {r} : post'[q] = post[q]
      BY <2>1 DEF PostTypes
    <3> QED BY <3>1, <3>2, <3>3
  <2>0. \A q \in Pages : Pending(q)' = IF q = p THEN Pending(q) \cup {r} ELSE Pending(q)
    <3>1. \A q \in Requests : (InFlight(q))' <=> InFlight(q) \/ q = r
      BY <2>2 DEF InFlight
    <3>2. post'[r].page = p /\ ~InFlight(r)
      BY <2>2 DEF InFlight
    <3> QED BY <2>2, <3>1, <3>2 DEF Pending
  <2>3. /\ p \in Patient => Pending(p) = {}
        /\ connected[p] <=> k # "connect"
    BY <1>1 DEF Post, Waits
  <2>4. \A q \in Patient : r \notin Pending(q) /\ Pending(q) \subseteq Requests
    BY <2>2 DEF Pending, InFlight
  <2>10. Lone'
    BY <2>0, <2>3 DEF Lone
  <2>11. Attended'
    BY <1>1, <2>0, <2>2, <2>3, <2>4 DEF Post, Attended
  <2>12. Held'
    BY <1>1, <2>0, <2>2, <2>3, <2>4 DEF Post, ServiceTypes, Undialled, Held, HeldBy
  <2>13. Steady'
    BY <1>1, <2>0, <2>2, <2>3, <2>4 DEF Post, Steady, SteadyFor
  <2>14. Piped'
    <3>1. toDb[r] = <<>> /\ fromDb[r] = <<>>
      BY <2>2 DEF Undialled, Open
    <3> QED BY <1>1, <2>2, <3>1 DEF Post, Piped, Sent
  <2>15. Shown'
    BY <1>1, <2>2 DEF Post, Shown
  <2> QED BY <2>10, <2>11, <2>12, <2>13, <2>14, <2>15 DEF PInv
<1>2. ASSUME NEW p \in Pages, Reload(p) PROVE PInv'
  <2>1. \A q \in Requests : Sent(q) =>
         /\ post'[q].page = post[q].page /\ post'[q].kind = post[q].kind
         /\ post'[q].cookie = post[q].cookie
         /\ post[q].page # p => post'[q].heard = post[q].heard
    <3> SUFFICES ASSUME NEW q \in Requests, Sent(q)
                 PROVE  /\ post'[q].page = post[q].page /\ post'[q].kind = post[q].kind
                        /\ post'[q].cookie = post[q].cookie
                        /\ post[q].page # p => post'[q].heard = post[q].heard
      OBVIOUS
    <3>1. post[q] \in Messages
      BY DEF Sent, Posted, PostTypes
    <3>2. \/ post'[q] = post[q]
          \/ post[q].page = p /\ post'[q] = [post[q] EXCEPT !.heard = FALSE]
      BY <1>2 DEF Reload
    <3> QED BY <3>1, <3>2 DEF Messages
  <2>0. \A q \in Pages : Pending(q)' = Pending(q)
    BY <1>2, <2>1 DEF Reload, Pending, InFlight, Sent
  <2>2. p \in Patient => Pending(p) = {}
    BY <1>2 DEF Reload, Waits
  <2>4. \A q \in Pages : \A r \in Pending(q) : r \in Requests /\ Sent(r) /\ post[r].page = q
    BY DEF Pending, InFlight, Sent
  <2>10. Lone'
    BY <2>0 DEF Lone
  <2>11. Attended'
    BY <1>2, <2>0, <2>1, <2>2, <2>4 DEF Reload, PageTypes, Attended
  <2>12. Held'
    BY <1>2, <2>0, <2>1, <2>2, <2>4 DEF Reload, PageTypes, ServiceTypes, Undialled,
                                        Sent, Held, HeldBy
  <2>13. Steady'
    BY <1>2, <2>0, <2>1, <2>2, <2>4 DEF Reload, PageTypes, Steady, SteadyFor
  <2>14. Piped'
    BY <1>2, <2>1 DEF Reload, Sent, Piped
  <2>15. Shown'
    BY <1>2, <2>1 DEF Reload, Sent, Shown
  <2> QED BY <2>10, <2>11, <2>12, <2>13, <2>14, <2>15 DEF PInv
<1>3. ASSUME NEW p \in Pages, CookieExpires(p) PROVE PInv'
  <2>0. \A q \in Pages : Pending(q)' = Pending(q)
    BY <1>3 DEF CookieExpires, Pending, InFlight, RequestTypes
  <2>10. Lone'
    BY <2>0 DEF Lone
  <2>11. Attended'
    BY <1>3, <2>0 DEF CookieExpires, Attended
  <2>12. Held'
    BY <1>3, <2>0 DEF CookieExpires, Held, HeldBy
  <2>13. Steady'
    BY <1>3, <2>0 DEF CookieExpires, PageTypes, Steady, SteadyFor
  <2>14. Piped'
    BY <1>3 DEF CookieExpires, Sent, RequestTypes, Piped
  <2>15. Shown'
    BY <1>3 DEF CookieExpires, RequestTypes, Shown
  <2> QED BY <2>10, <2>11, <2>12, <2>13, <2>14, <2>15 DEF PInv
<1>4. ASSUME NEW r \in Requests, LoadSession(r) PROVE PInv'
  <2>0. \A q \in Pages : Pending(q)' = Pending(q)
    BY <1>4 DEF LoadSession, Pending, InFlight, RequestTypes
  <2>2. \A q \in Pages : \A s \in Pending(q) : s \in Requests /\ post[s].page = q
    BY DEF Pending
  <2>10. Lone'
    BY <2>0 DEF Lone
  <2>11. Attended'
    BY <1>4, <2>0 DEF LoadSession, Attended
  <2>12. Held'
    BY <1>4, <2>0 DEF LoadSession, Held, HeldBy
  <2>13. Steady'
    <3>1. ASSUME NEW p \in Patient \ lapsed, connected[p], r \in Pending(p)
          PROVE  sid'[r] = cookie[p] /\ conn'[r] = sessions[cookie[p]]
      <4>1. post[r].cookie = cookie[p] /\ cookie[p] # None /\ cookie[p] \in Requests
        BY <3>1 DEF Steady, SteadyFor, PageTypes
      <4>2. sessions[cookie[p]] \in clients
        <5>1. \A s \in Pending(p) : phase[s] # "replied"
          BY <1>4, <3>1 DEF LoadSession, Lone
        <5> QED BY <3>1, <5>1 DEF Steady, SteadyFor
      <4>3. sessions[cookie[p]] # None
        BY <4>2 DEF ServiceTypes
      <4> QED BY <1>4, <4>1, <4>3 DEF LoadSession, RequestTypes
    <3>2. \A s \in Requests \ {r} : /\ phase'[s] = phase[s]
                                   /\ sid'[s] = sid[s] /\ conn'[s] = conn[s]
      BY <1>4 DEF LoadSession, RequestTypes
    <3>3. phase[r] = "sent" /\ phase'[r] = "loaded"
      BY <1>4 DEF LoadSession, RequestTypes
    <3> QED BY <1>4, <2>0, <2>2, <3>1, <3>2, <3>3 DEF LoadSession, Steady, SteadyFor
  <2>14. Piped'
    BY <1>4 DEF LoadSession, Sent, RequestTypes, Piped
  <2>15. Shown'
    BY <1>4 DEF LoadSession, RequestTypes, Shown
  <2> QED BY <2>10, <2>11, <2>12, <2>13, <2>14, <2>15 DEF PInv
<1>5. ASSUME NEW r \in Requests, SendQuery(r) PROVE PInv'
  <2>0. \A q \in Pages : Pending(q)' = Pending(q)
    BY <1>5 DEF SendQuery, Handles, Pending, InFlight, RequestTypes
  <2>10. Lone'
    BY <2>0 DEF Lone
  <2>11. Attended'
    BY <1>5, <2>0 DEF SendQuery, Handles, Attended
  <2>12. Held'
    BY <1>5, <2>0 DEF SendQuery, Handles, Held, HeldBy
  <2>13. Steady'
    BY <1>5, <2>0 DEF SendQuery, Handles, Steady, SteadyFor
  <2>14. Piped'
    <3> DEFINE c == conn[r]
    <3>1. c \in Requests /\ Same(c, r)
      BY <1>5 DEF SendQuery, HasClient, ServiceTypes, SessionsApart
    <3>2. ASSUME post[c].page \in Patient, c \notin torn
          PROVE  toDb[c] = <<>> /\ fromDb[c] = <<>>
      <4>1. r \in Pending(post[c].page) /\ phase[r] = "loaded"
        BY <1>5, <3>1 DEF SendQuery, Handles, Pending, InFlight, Same
      <4>2. ASSUME NEW s \in listeners[c] PROVE FALSE
        <5>0. Same(s, c)
          BY <3>1, <4>2 DEF SocketsApart
        <5>1. s \in Requests /\ phase[s] = "waiting" /\ post[s].page = post[c].page
          BY <3>1, <4>2, <5>0 DEF Listening, Same
        <5>2. s \in Pending(post[c].page)
          BY <5>1 DEF Pending, InFlight
        <5> QED BY <3>2, <4>1, <5>1, <5>2 DEF Lone
      <4> QED BY <3>1, <3>2, <4>2 DEF Piped, Same
    <3>3. /\ \A d \in Requests : fromDb'[d] = fromDb[d] /\ listeners[d] \subseteq listeners'[d]
          /\ r \in listeners'[c]
          /\ \A d \in Requests \ {c} : toDb'[d] = toDb[d]
          /\ toDb'[c] = toDb[c] \/ toDb'[c] = Append(toDb[c], r)
      BY <1>5, <3>1 DEF SendQuery, ServiceTypes, SocketTypes
    <3>4. toDb[c] = <<>> => toDb'[c] = <<>> \/ toDb'[c] = <<r>>
      BY <3>3
    <3>5. \A d \in Requests : /\ Sent(d)' => Sent(d)
                            /\ post'[d] = post[d]
      BY <1>5 DEF SendQuery, Handles, Sent, RequestTypes
    <3>6. torn' = torn
      BY <1>5 DEF SendQuery
    <3> HIDE DEF c
    <3> QED BY <3>1, <3>2, <3>3, <3>4, <3>5, <3>6 DEF Piped
  <2>15. Shown'
    BY <1>5 DEF SendQuery, Handles, RequestTypes, Shown
  <2> QED BY <2>10, <2>11, <2>12, <2>13, <2>14, <2>15 DEF PInv
<1>6. ASSUME NEW r \in Requests, NoClient(r) PROVE PInv'
  <2>0. \A q \in Pages : Pending(q)' = Pending(q)
    BY <1>6 DEF NoClient, Handles, Pending, InFlight, RequestTypes
  <2>10. Lone'
    BY <2>0 DEF Lone
  <2>11. Attended'
    BY <1>6, <2>0 DEF NoClient, Handles, Attended
  <2>12. Held'
    BY <1>6, <2>0 DEF NoClient, Handles, Held, HeldBy
  <2>13. Steady'
    <3>1. ASSUME NEW p \in Patient \ lapsed, connected[p], r \in Pending(p)
          PROVE  post[r].kind = "query"
      <4>1. sessions[cookie[p]] \in clients /\ conn[r] = sessions[cookie[p]]
        BY <1>6, <3>1 DEF NoClient, Handles, Steady, SteadyFor, Lone
      <4> QED BY <1>6, <4>1 DEF NoClient, Handles, HasClient
    <3>2. /\ phase[r] = "loaded" /\ phase'[r] = "failed"
          /\ \A s \in Requests \ {r} : phase'[s] = phase[s]
      BY <1>6 DEF NoClient, Handles, RequestTypes
    <3>3. \A p \in Patient : Pending(p) \subseteq Requests
      BY DEF Pending
    <3> QED BY <1>6, <2>0, <3>1, <3>2, <3>3 DEF NoClient, Steady, SteadyFor
  <2>14. Piped'
    BY <1>6 DEF NoClient, Handles, Sent, RequestTypes, Piped
  <2>15. Shown'
    BY <1>6 DEF NoClient, Handles, RequestTypes, Shown
  <2> QED BY <2>10, <2>11, <2>12, <2>13, <2>14, <2>15 DEF PInv
<1>7. ASSUME NEW r \in Requests, Connect(r) PROVE PInv'
  <2>0. \A q \in Pages : Pending(q)' = Pending(q)
    BY <1>7 DEF Connect, Handles, Pending, InFlight, RequestTypes
  <2>10. Lone'
    BY <2>0 DEF Lone
  <2>11. Attended'
    BY <1>7, <2>0 DEF Connect, Handles, Attended
  <2>12. Held'
    BY <1>7, <2>0 DEF Connect, Handles, Held, HeldBy
  <2>13. Steady'
    BY <1>7, <2>0 DEF Connect, Handles, Steady, SteadyFor
  <2>14. Piped'
    BY <1>7 DEF Connect, Handles, Sent, RequestTypes, Piped
  <2>15. Shown'
    BY <1>7 DEF Connect, Handles, RequestTypes, Shown
  <2> QED BY <2>10, <2>11, <2>12, <2>13, <2>14, <2>15 DEF PInv
<1>8. ASSUME NEW r \in Requests, Connected(r) PROVE PInv'
  <2>1. phase[r] = "waiting" /\ post[r].kind = "connect" /\ sid[r] \in Requests
    BY <1>8 DEF Connected, Dialling, Loaded, RequestTypes
  <2>2. phase'[r] = "replied" /\ \A s \in Requests \ {r} : phase'[s] = phase[s]
    BY <1>8 DEF Connected, RequestTypes
  <2>0. \A q \in Pages : Pending(q)' = Pending(q)
    BY <1>8, <2>1, <2>2 DEF Connected, Pending, InFlight
  <2>3. r \in Pending(post[r].page)
    BY <2>1 DEF Pending, InFlight
  <2>4. \A q \in Patient : Pending(q) \subseteq Requests
    BY DEF Pending
  <2>5. \A q \in Patient \ left : q = post[r].page => \A c \in clients : post[c].page # q
    BY <2>1, <2>3 DEF Held, HeldBy
  <2>6. post' = post /\ connected' = connected /\ left' = left /\ clients' = clients \cup {r}
    BY <1>8 DEF Connected
  <2>10. Lone'
    BY <2>0 DEF Lone
  <2>11. Attended'
    BY <1>8, <2>0 DEF Connected, Attended
  <2>12. Held'
    <3>1. ASSUME NEW q \in Patient \ left, q = post[r].page
          PROVE  HeldBy(q)'
      <4>1. Pending(q) = {r} /\ \A c \in clients : post[c].page # q
        BY <2>3, <2>5, <3>1 DEF Lone
      <4> QED BY <2>0, <2>1, <2>2, <2>6, <3>1, <4>1 DEF HeldBy
    <3>2. ASSUME NEW q \in Patient, q # post[r].page, HeldBy(q)
          PROVE  HeldBy(q)'
      <4>1. r \notin Pending(q)
        BY <3>2 DEF Pending
      <4> QED BY <2>0, <2>2, <2>4, <2>6, <3>2, <4>1 DEF HeldBy
    <3> QED BY <2>6, <3>1, <3>2 DEF Held
  <2>13. Steady'
    <3>1. ASSUME NEW q \in Patient, q = post[r].page
          PROVE  SteadyFor(q)'
      <4>1. ~connected[q] /\ Pending(q) = {r}
        BY <2>1, <2>3, <3>1 DEF Attended, Lone
      <4>2. sessions'[sid[r]] = r
        BY <1>8, <2>1 DEF Connected, ServiceTypes
      <4> QED BY <1>8, <1>n, <2>0, <2>1, <2>6, <3>1, <4>1, <4>2 DEF Connected, SteadyFor
    <3>2. ASSUME NEW q \in Patient, q # post[r].page, SteadyFor(q)
          PROVE  SteadyFor(q)'
      <4>1. r \notin Pending(q)
        BY <3>2 DEF Pending
      <4>2. /\ cookie[q] # None => cookie[q] # sid[r]
            /\ \A s \in Pending(q) : sid[s] # None => sid[s] # sid[r]
        BY <2>1, <3>2 DEF Pending, CookiesApart, SessionsApart, Same
      <4>3. \A s \in Requests \ {sid[r]} : sessions'[s] = sessions[s]
        BY <1>8, <2>1 DEF Connected, ServiceTypes
      <4> QED BY <1>8, <2>0, <2>2, <2>4, <2>6, <3>2, <4>1, <4>2, <4>3
              DEF Connected, SteadyFor, PageTypes, RequestTypes
    <3>3. lapsed' = lapsed \ {post[r].page}
      BY <1>8 DEF Connected
    <3> QED BY <3>1, <3>2, <3>3 DEF Steady
  <2>14. Piped'
    BY <1>8, <2>1, <2>2 DEF Connected, Sent, Piped
  <2>15. Shown'
    BY <1>8 DEF Connected, RequestTypes, Shown
  <2> QED BY <2>10, <2>11, <2>12, <2>13, <2>14, <2>15 DEF PInv
<1>9. ASSUME NEW r \in Requests, Disconnect(r) PROVE PInv'
  <2>1. /\ phase[r] = "loaded" /\ post[r].kind = "disconnect"
        /\ sid[r] \in Requests /\ Same(sid[r], r)
        /\ conn[r] \in clients /\ conn[r] \in Requests /\ Same(conn[r], r)
    BY <1>9 DEF Disconnect, Handles, HasClient, Loaded, RequestTypes, ServiceTypes,
                SessionsApart
  <2>2. phase'[r] = "replied" /\ \A s \in Requests \ {r} : phase'[s] = phase[s]
    BY <1>9 DEF Disconnect, RequestTypes
  <2>3. r \in Pending(post[r].page) /\ \A q \in Patient : Pending(q) \subseteq Requests
    BY <2>1 DEF Pending, InFlight
  <2>4. /\ post' = post /\ connected' = connected /\ left' = left /\ lapsed' = lapsed
        /\ cookie' = cookie /\ sid' = sid /\ conn' = conn /\ clients' = clients \ {conn[r]}
    BY <1>9 DEF Disconnect
  <2>0. \A q \in Pages : Pending(q)' = Pending(q)
    BY <2>1, <2>2, <2>4 DEF Pending, InFlight
  <2>10. Lone'
    BY <2>0 DEF Lone
  <2>11. Attended'
    BY <1>9, <2>0 DEF Disconnect, Handles, HasClient, Attended
  <2>12. Held'
    <3>1. ASSUME NEW q \in Patient, HeldBy(q)
          PROVE  HeldBy(q)'
      <4>1. CASE q = post[r].page
        BY <2>1, <2>4, <3>1, <4>1 DEF HeldBy, Same
      <4>2. CASE q # post[r].page
        <5>1. r \notin Pending(q)
          BY <4>2 DEF Pending
        <5> QED BY <2>0, <2>2, <2>3, <2>4, <3>1, <5>1 DEF HeldBy
      <4> QED BY <4>1, <4>2
    <3> QED BY <2>4, <3>1 DEF Held
  <2>13. Steady'
    <3>1. ASSUME NEW q \in Patient, SteadyFor(q)
          PROVE  SteadyFor(q)'
      <4>1. CASE q = post[r].page
        <5>1. Pending(q) = {r}
          BY <2>3, <4>1 DEF Lone
        <5> QED BY <2>0, <2>1, <2>2, <2>4, <3>1, <5>1 DEF SteadyFor
      <4>2. CASE q # post[r].page
        <5>1. r \notin Pending(q)
          BY <4>2 DEF Pending
        <5>2. /\ cookie[q] # None => cookie[q] \in Requests /\ cookie[q] # sid[r]
              /\ \A s \in Pending(q) : s # conn[r] /\ (sid[s] # None => sid[s] \in Requests \ {sid[r]})
          BY <2>1, <4>2 DEF Pending, CookiesApart, SessionsApart, PageTypes,
                            RequestTypes, Same
        <5>3. \A s \in Requests \ {sid[r]} : sessions'[s] = sessions[s]
          BY <1>9 DEF Disconnect, ServiceTypes
        <5>4. cookie[q] # None => sessions[cookie[q]] # conn[r]
          <6> SUFFICES ASSUME cookie[q] # None, sessions[cookie[q]] = conn[r] PROVE FALSE
            OBVIOUS
          <6>1. cookie[q] \in Requests /\ conn[r] # None /\ post[cookie[q]].page = q
            BY <2>1, <5>2 DEF CookiesApart
          <6>2. post[conn[r]].page = post[cookie[q]].page
            BY <6>1 DEF SessionsApart, Same
          <6> QED BY <2>1, <4>2, <6>1, <6>2 DEF Same
        <5>5. \A s \in Pending(q) :
                /\ phase'[s] = phase[s]
                /\ sid[s] # None => sessions'[sid[s]] = sessions[sid[s]]
          BY <2>2, <2>3, <5>1, <5>2, <5>3
        <5>6. cookie[q] # None =>
                /\ sessions'[cookie[q]] = sessions[cookie[q]]
                /\ sessions[cookie[q]] \in clients => sessions[cookie[q]] \in clients'
          BY <2>4, <5>2, <5>3, <5>4
        <5> QED BY <2>0, <2>4, <3>1, <5>2, <5>5, <5>6 DEF SteadyFor
      <4> QED BY <4>1, <4>2
    <3> QED BY <2>4, <3>1 DEF Steady
  <2>14. Piped'
    BY <1>9 DEF Disconnect, Handles, HasClient, Sent, RequestTypes, Piped
  <2>15. Shown'
    BY <1>9 DEF Disconnect, Handles, HasClient, RequestTypes, Shown
  <2> QED BY <2>10, <2>11, <2>12, <2>13, <2>14, <2>15 DEF PInv
<1>10. ASSUME NEW r \in Requests, TimesOut(r) PROVE PInv'
  <2>0. \A q \in Pages : Pending(q)' = Pending(q)
    BY <1>10 DEF TimesOut, Pending, InFlight, RequestTypes
  <2>10. Lone'
    BY <2>0 DEF Lone
  <2>11. Attended'
    BY <1>10, <2>0 DEF TimesOut, Attended
  <2>12. Held'
    BY <1>10, <2>0 DEF TimesOut, Held, HeldBy
  <2>13. Steady'
    BY <1>10, <2>0 DEF TimesOut, Steady, SteadyFor
  <2>14. Piped'
    <3>1. \A d \in Requests : listeners'[d] = IF d = conn[r] THEN listeners[d] \ {r} ELSE listeners[d]
      BY <1>10 DEF TimesOut, ServiceTypes
    <3>2. conn[r] \in Requests => toDb[conn[r]] = <<>> /\ fromDb[conn[r]] = <<>>
      BY <1>10 DEF TimesOut, Open
    <3>3. \A d \in Requests : Sent(d)' => Sent(d)
      BY <1>10 DEF TimesOut, Sent, RequestTypes
    <3> QED BY <1>10, <3>1, <3>2, <3>3 DEF TimesOut, Piped
  <2>15. Shown'
    BY <1>10 DEF TimesOut, RequestTypes, Shown
  <2> QED BY <2>10, <2>11, <2>12, <2>13, <2>14, <2>15 DEF PInv
<1>11. ASSUME NEW r \in Requests, Deliver(r) PROVE PInv'
  <2>1. /\ phase[r] \in {"replied", "failed"} /\ phase'[r] = "done"
        /\ \A q \in Requests \ {r} :
             /\ post'[q] = post[q] /\ phase'[q] = phase[q] /\ body'[q] = body[q]
             /\ sid'[q] = sid[q] /\ conn'[q] = conn[q]
        /\ body'[r] = <<>>
    BY <1>11 DEF Deliver, RequestTypes, PostTypes, BodyTypes
  <2>2. post'[r].page = post[r].page /\ post[r].page \in Pages
    <3>1. post[r] \in Messages
      BY <2>1 DEF Posted, PostTypes
    <3>2. post'[r] = [[post[r] EXCEPT !.cookie = None] EXCEPT !.heard = FALSE]
      BY <1>11 DEF Deliver, PostTypes
    <3> QED BY <3>1, <3>2 DEF Messages
  <2>0. \A q \in Pages : Pending(q)' = Pending(q) \ {r}
    BY <2>1 DEF Pending, InFlight
  <2>3. \A q \in Pages \ {post[r].page} :
          connected'[q] = connected[q] /\ cookie'[q] = cookie[q] /\ r \notin Pending(q)
    BY <1>11 DEF Deliver, PageTypes, Pending
  <2>4. /\ post[r].heard /\ phase[r] = "replied" /\ post[r].kind = "connect" =>
             connected'[post[r].page] /\ cookie'[post[r].page] = sid[r]
        /\ post[r].heard /\ phase[r] = "replied" /\ post[r].kind = "disconnect" =>
             ~connected'[post[r].page]
        /\ phase[r] = "failed" \/ post[r].kind = "query" =>
             connected' = connected /\ cookie' = cookie
    BY <1>11, <2>2 DEF Deliver, PageTypes
  <2>5. /\ left' = left /\ lapsed' = lapsed /\ clients' = clients /\ sessions' = sessions
        /\ listeners' = listeners /\ toDb' = toDb /\ fromDb' = fromDb /\ torn' = torn
    BY <1>11 DEF Deliver
  <2>6. /\ r \in Pending(post[r].page)
        /\ \A q \in Pages : Pending(q) \subseteq Requests
        /\ post[r].kind \in Kinds
    <3>1. post[r] \in Messages
      BY <2>1 DEF Posted, PostTypes
    <3> QED BY <2>1, <3>1 DEF Pending, InFlight, Messages
  <2>7. \A q \in Patient : q = post[r].page => Pending(q) = {r} /\ Pending(q)' = {}
    BY <2>0, <2>6 DEF Lone
  <2>10. Lone'
    BY <2>0 DEF Lone
  <2>11. Attended'
    <3> SUFFICES ASSUME NEW q \in Patient, NEW s \in Pending(q)'
                 PROVE  post'[s].heard /\ (post'[s].kind = "connect" <=> ~connected'[q])
      BY DEF Attended
    <3>1. q # post[r].page /\ s # r /\ s \in Pending(q) /\ s \in Requests
      BY <2>0, <2>6, <2>7
    <3>2. post'[s] = post[s] /\ connected'[q] = connected[q]
      BY <2>1, <2>3, <3>1
    <3> QED BY <3>1, <3>2 DEF Attended
  <2>12. Held'
    <3>1. \A c \in clients : c \in Requests /\ post'[c].page = post[c].page
      BY <2>1, <2>2 DEF ServiceTypes
    <3>2. ASSUME NEW q \in Patient, q = post[r].page, HeldBy(q)
          PROVE  HeldBy(q)'
      <4>1. post[r].heard /\ (post[r].kind = "connect" <=> ~connected[q])
        BY <2>7, <3>2 DEF Attended
      <4> QED BY <2>1, <2>4, <2>5, <2>6, <2>7, <3>1, <3>2, <4>1 DEF HeldBy, Kinds
    <3>3. ASSUME NEW q \in Patient, q # post[r].page, HeldBy(q)
          PROVE  HeldBy(q)'
      BY <2>0, <2>1, <2>3, <2>5, <2>6, <3>1, <3>3 DEF HeldBy
    <3> QED BY <2>5, <3>2, <3>3 DEF Held
  <2>13. Steady'
    <3>1. ASSUME NEW q \in Patient, q = post[r].page, SteadyFor(q)
          PROVE  SteadyFor(q)'
      <4>1. post[r].heard /\ (post[r].kind = "connect" <=> ~connected[q])
        BY <2>7, <3>1 DEF Attended
      <4> QED BY <2>1, <2>4, <2>5, <2>6, <2>7, <3>1, <4>1 DEF SteadyFor, Kinds
    <3>2. ASSUME NEW q \in Patient, q # post[r].page, SteadyFor(q)
          PROVE  SteadyFor(q)'
      BY <2>0, <2>1, <2>3, <2>5, <2>6, <3>2 DEF SteadyFor
    <3> QED BY <2>5, <3>1, <3>2 DEF Steady
  <2>14. Piped'
    <3>1. \A c \in Requests : post'[c].page = post[c].page /\ (Sent(c)' => Sent(c))
      BY <2>1, <2>2 DEF Sent
    <3> QED BY <2>5, <3>1 DEF Piped
  <2>15. Shown'
    BY <2>1, <2>5 DEF Shown
  <2> QED BY <2>10, <2>11, <2>12, <2>13, <2>14, <2>15 DEF PInv
<1>12. ASSUME NEW c \in Requests, Data(c) PROVE PInv'
  <2>1. PICK n \in 1..Len(fromDb[c]) :
         /\ body' = [r \in Requests |->
              IF r \in Heard(c) THEN SubSeq(fromDb[c], 1, n) ELSE body[r]]
         /\ phase' = [r \in Requests |-> IF r \in Heard(c) THEN "replied" ELSE phase[r]]
         /\ fromDb' = [fromDb EXCEPT ![c] = SubSeq(@, n + 1, Len(@))]
         /\ torn' = IF fromDb[c][n].more /\ post[c].page \in Patient
                    THEN torn \cup {c} ELSE torn
    BY <1>12 DEF Data
  <2>2. \A r \in Requests :
          IF r \in listeners[c]
          THEN phase[r] = "waiting" /\ phase'[r] = "replied" /\ post[r].kind = "query"
          ELSE phase'[r] = phase[r]
    BY <2>1 DEF Heard, Listening
  <2>3. /\ connected' = connected /\ cookie' = cookie /\ lapsed' = lapsed /\ left' = left
        /\ post' = post /\ sid' = sid /\ conn' = conn
        /\ sessions' = sessions /\ clients' = clients /\ toDb' = toDb
    BY <1>12 DEF Data
  <2>0. \A q \in Pages : Pending(q)' = Pending(q)
    BY <2>2, <2>3 DEF Pending, InFlight
  <2>4. \A q \in Pages : Pending(q) \subseteq Requests
    BY DEF Pending
  <2>5. ASSUME Sent(c), post[c].page \in Patient, c \notin torn'
        PROVE  /\ toDb[c] = <<>> /\ fromDb'[c] = <<>>
               /\ \E r \in listeners[c] : Whole(r, SubSeq(fromDb[c], 1, n))
    <3>1. c \notin torn /\ ~fromDb[c][n].more
      <4>1. fromDb[c][n].more \in BOOLEAN
        <5>1. fromDb[c] \in Seq(Piece)
          BY DEF SocketTypes
        <5>2. fromDb[c][n] \in Piece
          BY <2>1, <5>1, ElementOfSeq
        <5> QED BY <5>2 DEF Piece
      <4> QED BY <2>1, <2>5, <4>1
    <3>2. fromDb[c] # <<>> /\ fromDb[c] \in Seq(Piece)
      BY <2>1 DEF SocketTypes
    <3>3. PICK r \in listeners[c], k \in 1..MaxPieces : toDb[c] = <<>> /\ fromDb[c] = Answer({r}, k)
      BY <2>5, <3>1, <3>2 DEF Piped, Whole
    <3>4. /\ SubSeq(fromDb[c], 1, n) = Answer({r}, k)
          /\ SubSeq(fromDb[c], n + 1, Len(fromDb[c])) = <<>>
      <4>1. k \in Nat /\ n \in 1..Len(Answer({r}, k)) /\ ~Answer({r}, k)[n].more
        BY <2>1, <3>1, <3>3, WebAssumption
      <4> QED BY <3>3, <4>1, LastPiece
    <3> QED BY <2>1, <3>3, <3>4 DEF Whole, SocketTypes
  <2>10. Lone'
    BY <2>0 DEF Lone
  <2>11. Attended'
    BY <1>12, <2>0 DEF Data, Heard, Attended
  <2>12. Held'
    <3>1. ASSUME NEW q \in Patient, HeldBy(q)
          PROVE  HeldBy(q)'
      <4>1. \A s \in Pending(q) : phase'[s] = phase[s] \/ post[s].kind = "query"
        BY <2>2, <2>4
      <4> QED BY <2>0, <2>3, <3>1, <4>1 DEF HeldBy
    <3> QED BY <2>3, <3>1 DEF Held
  <2>13. Steady'
    <3>1. ASSUME NEW q \in Patient, SteadyFor(q)
          PROVE  SteadyFor(q)'
      <4>1. \A s \in Pending(q) :
              \/ phase'[s] = phase[s]
              \/ post[s].kind = "query" /\ phase'[s] = "replied"
        BY <2>2, <2>4
      <4> QED BY <2>0, <2>3, <3>1, <4>1 DEF SteadyFor
    <3> QED BY <2>3, <3>1 DEF Steady
  <2>14. Piped'
    <3>1. \A d \in Requests \ {c} : fromDb'[d] = fromDb[d] /\ listeners'[d] = listeners[d]
      BY <1>12, <2>1 DEF Data, SocketTypes, ServiceTypes
    <3>2. torn \subseteq torn' /\ \A d \in Requests : Sent(d)' => Sent(d)
      BY <2>1, <2>2 DEF Sent
    <3> QED BY <2>3, <2>5, <3>1, <3>2 DEF Piped
  <2>15. Shown'
    <3>1. \A r \in Requests : body'[r] = IF r \in listeners[c]
                                      THEN SubSeq(fromDb[c], 1, n) ELSE body[r]
      BY <2>1 DEF Heard
    <3>2. torn \subseteq torn'
      BY <2>1
    <3>3. ASSUME NEW r \in listeners[c], post[r].page \in Patient, c \notin torn'
          PROVE  Whole(r, SubSeq(fromDb[c], 1, n))
      <4>0. \A s \in listeners[c] : Same(s, c) /\ phase[s] = "waiting"
        BY DEF Listening, SocketsApart
      <4>1. \A s \in listeners[c] : s \in Pending(post[c].page)
        BY <4>0 DEF Same, Pending, InFlight
      <4>2. Sent(c) /\ post[c].page = post[r].page
        BY <3>3 DEF SocketsApart, Same
      <4>3. \A s \in listeners[c] : s = r
        BY <3>3, <4>1, <4>2 DEF Lone
      <4> QED BY <2>5, <3>3, <4>2, <4>3
    <3>4. \A r \in listeners[c] : conn[r] = c
      BY DEF Listening
    <3> QED BY <2>2, <2>3, <3>1, <3>2, <3>3, <3>4 DEF Shown
  <2> QED BY <2>10, <2>11, <2>12, <2>13, <2>14, <2>15 DEF PInv
<1>13. ASSUME NEW c \in Requests, DatabaseAnswers(c) PROVE PInv'
  <2>0. \A q \in Pages : Pending(q)' = Pending(q)
    BY <1>13 DEF DatabaseAnswers, Pending, InFlight, RequestTypes
  <2>10. Lone'
    BY <2>0 DEF Lone
  <2>11. Attended'
    BY <1>13, <2>0 DEF DatabaseAnswers, Attended
  <2>12. Held'
    BY <1>13, <2>0 DEF DatabaseAnswers, Held, HeldBy
  <2>13. Steady'
    BY <1>13, <2>0 DEF DatabaseAnswers, Steady, SteadyFor
  <2>14. Piped'
    <3>1. PICK n \in 1..Len(toDb[c]), k \in 1..MaxPieces :
           /\ fromDb' = [fromDb EXCEPT ![c] = @ \o Answer({toDb[c][i] : i \in 1..n}, k)]
           /\ toDb' = [toDb EXCEPT ![c] = SubSeq(@, n + 1, Len(@))]
      BY <1>13 DEF DatabaseAnswers
    <3>2. ASSUME Sent(c), post[c].page \in Patient, c \notin torn
          PROVE  \E r \in listeners[c] : toDb'[c] = <<>> /\ Whole(r, fromDb'[c])
      <4>1. PICK r \in listeners[c] : toDb[c] = <<r>> /\ fromDb[c] = <<>>
        BY <3>1, <3>2 DEF Piped
      <4>2. n = 1 /\ {toDb[c][i] : i \in 1..n} = {r}
        BY <3>1, <4>1
      <4>3. Answer({r}, k) \in Seq([for : {{r}}, more : BOOLEAN])
        BY DEF Answer
      <4>4. <<>> \o Answer({r}, k) = Answer({r}, k)
        BY <4>3
      <4>5. fromDb'[c] = Answer({r}, k) /\ toDb'[c] = <<>>
        <5>1. /\ fromDb'[c] = fromDb[c] \o Answer({toDb[c][i] : i \in 1..n}, k)
              /\ toDb'[c] = SubSeq(toDb[c], n + 1, Len(toDb[c]))
          BY <3>1 DEF SocketTypes
        <5>2. SubSeq(<<r>>, 2, Len(<<r>>)) = <<>>
          OBVIOUS
        <5>3. toDb'[c] = <<>>
          <6>1. toDb'[c] = SubSeq(<<r>>, 2, Len(<<r>>))
            BY <4>1, <4>2, <5>1
          <6> QED BY <5>2, <6>1
        <5>4. fromDb'[c] = <<>> \o Answer({r}, k)
          BY <4>1, <4>2, <5>1
        <5> QED BY <4>4, <5>3, <5>4
      <4> QED BY <4>5 DEF Whole
    <3>3. \A d \in Requests \ {c} : fromDb'[d] = fromDb[d] /\ toDb'[d] = toDb[d]
      BY <3>1 DEF SocketTypes
    <3> QED BY <1>13, <3>2, <3>3 DEF DatabaseAnswers, Piped, Sent
  <2>15. Shown'
    BY <1>13 DEF DatabaseAnswers, RequestTypes, Shown
  <2> QED BY <2>10, <2>11, <2>12, <2>13, <2>14, <2>15 DEF PInv
<1>d. ASSUME NodeDies PROVE PInv'
  <2>0. \A q \in Pages : Pending(q)' = Pending(q)
    BY <1>d DEF NodeDies, Pending, InFlight, RequestTypes
  <2>10. Lone'
    BY <2>0 DEF Lone
  <2>11. Attended'
    BY <1>d, <2>0 DEF NodeDies, Attended
  <2>12. Held'
    BY <1>d, <2>0 DEF NodeDies, Held, HeldBy
  <2>13. Steady'
    BY <1>d, <2>0 DEF NodeDies, Steady, SteadyFor
  <2>14. Piped'
    BY <1>d DEF NodeDies, Sent, RequestTypes, Piped
  <2>15. Shown'
    BY <1>d DEF NodeDies, RequestTypes, Shown
  <2> QED BY <2>10, <2>11, <2>12, <2>13, <2>14, <2>15 DEF PInv
<1>14. ASSUME NEW r \in Requests, WriteFails(r) PROVE PInv'
  BY <1>14, <1>d DEF WriteFails
<1>15. ASSUME DatabaseStops, ~NodeDies PROVE PInv'
  <2>0. \A q \in Pages : Pending(q)' = Pending(q)
    BY <1>15 DEF DatabaseStops, Pending, InFlight, RequestTypes
  <2>10. Lone'
    BY <2>0 DEF Lone
  <2>11. Attended'
    BY <1>15, <2>0 DEF DatabaseStops, Attended
  <2>12. Held'
    BY <1>15, <2>0 DEF DatabaseStops, Held, HeldBy
  <2>13. Steady'
    BY <1>15, <2>0 DEF DatabaseStops, Steady, SteadyFor
  <2>14. Piped'
    BY <1>15 DEF DatabaseStops, Sent, RequestTypes, Piped
  <2>15. Shown'
    BY <1>15 DEF DatabaseStops, RequestTypes, Shown
  <2> QED BY <2>10, <2>11, <2>12, <2>13, <2>14, <2>15 DEF PInv
<1>16. CASE UNCHANGED vars
  <2>0. \A q \in Pages : Pending(q)' = Pending(q)
    BY <1>16 DEF vars, Pending, InFlight, RequestTypes
  <2>10. Lone'
    BY <2>0 DEF Lone
  <2>11. Attended'
    BY <1>16, <2>0 DEF vars, Attended
  <2>12. Held'
    BY <1>16, <2>0 DEF vars, Held, HeldBy
  <2>13. Steady'
    BY <1>16, <2>0 DEF vars, Steady, SteadyFor
  <2>14. Piped'
    BY <1>16 DEF vars, Sent, RequestTypes, Piped
  <2>15. Shown'
    BY <1>16 DEF vars, RequestTypes, Shown
  <2> QED BY <2>10, <2>11, <2>12, <2>13, <2>14, <2>15 DEF PInv
<1> QED BY <1>1, <1>2, <1>3, <1>4, <1>5, <1>6, <1>7, <1>8, <1>9, <1>10, <1>11,
           <1>12, <1>13, <1>d, <1>14, <1>15, <1>16 DEF Next

-----------------------------------------------------------------------------
(* The invariant holds in every reachable state. *)
LEMMA PatientInductive == Safety => [](IInv /\ PInv)
<1>1. IInv /\ PInv /\ [Next]_vars => PInv'
  BY PatientStep
<1> QED BY InitPatient, Inductive, <1>1, PTL DEF Safety

(* A user who waits gets the whole answer of its own query, as long as no  *)
(* data event of the connection has cut an answer (server.js:32-42).       *)
THEOREM PatientIsAnswered == Safety => []PatientGetsAnswer
<1>1. PInv => PatientGetsAnswer
  <2> SUFFICES ASSUME PInv, NEW r \in Requests, body[r] # <<>>,
                      post[r].page \in Patient, conn[r] \notin torn
               PROVE  \A i \in DOMAIN body[r] :
                        body[r][i].for = {r} /\ body[r][i].more = (i < Len(body[r]))
    BY DEF PatientGetsAnswer
  <2>1. PICK k \in 1..MaxPieces : body[r] = Answer({r}, k)
    BY DEF PInv, Shown, Whole
  <2>2. DOMAIN body[r] = 1..k /\ Len(body[r]) = k
    BY <2>1 DEF Answer
  <2> QED BY <2>1, <2>2 DEF Answer
<1> QED BY <1>1, PatientInductive, PTL

(* A patient page that shows itself connected has a session that leads to  *)
(* a socket, unless its cookie expired or the service was started again.   *)
THEOREM ConnectedHaveSockets == Safety => []StaysConnected
<1>1. PInv => StaysConnected
  BY DEF PInv, Steady, SteadyFor, StaysConnected, Waits
<1> QED BY <1>1, PatientInductive, PTL

(* A patient page that was not loaded again while connected holds at most  *)
(* one connection to the database.                                         *)
THEOREM PagesHoldOneConnection == Safety => []OneConnection
<1>1. PInv => OneConnection
  BY DEF PInv, Held, HeldBy, OneConnection
<1> QED BY <1>1, PatientInductive, PTL
=============================================================================
