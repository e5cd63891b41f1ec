-------------------------- MODULE EntityLinks_proofs --------------------------
(***************************************************************************)
(* Proofs about EntityLinks, for every number of handles and every set of  *)
(* types: the type invariant, the symmetry of _links, the agreement of the *)
(* process with its data file, the freshness of handles and the meaning of *)
(* the link status; and, without LINK FINAL, that each graph has one       *)
(* Master and each value one answer.                                       *)
(***************************************************************************)
EXTENDS EntityLinks, FiniteSetTheorems, TLAPS

-----------------------------------------------------------------------------
(* Lowest, MaxLive and FirstStop choose a least number that exists. *)

(* A nonempty set of natural numbers has a least member. *)
LEMMA LeastNatural ==
  ASSUME NEW S \in SUBSET Nat, S # {}
  PROVE  \E m \in S : \A n \in S : m <= n
<1> DEFINE R == {p \in Nat \X Nat : p[1] < p[2]}
<1>1. IsWellFoundedOn(R, Nat)
  BY NatLessThanWellFounded DEF OpToRel
<1>2. \E m \in S : \A n \in S : <<n, m>> \notin R
  <2> HIDE DEF R
  <2> QED BY <1>1, WFMin
<1>3. \A m, n \in S : <<n, m>> \notin R => m <= n
  OBVIOUS
<1> QED BY <1>2, <1>3

(* Lowest(S) is the lowest member of S. *)
LEMMA LowestIsLowest ==
  ASSUME NEW S \in SUBSET Handles, S # {}
  PROVE  Lowest(S) \in S /\ \A h \in S : Lowest(S) <= h
<1>1. S \in SUBSET Nat
  BY LinksAssumption DEF Handles
<1> QED BY <1>1, LeastNatural DEF Lowest

(* MaxLive(s), the _lastHandle a load leaves, bounds the live handles. *)
LEMMA MaxLiveBounds ==
  ASSUME NEW s
  PROVE  MaxLive(s) \in 0..MaxHandle /\ \A h \in Live(s) : h <= MaxLive(s)
<1> DEFINE U == {n \in Nat : \A h \in Live(s) : h <= n}
<1>1. \A h \in Live(s) : h \in Nat /\ 1 <= h /\ h <= MaxHandle
  BY LinksAssumption DEF Live, Handles
<1>2. MaxHandle \in U
  BY <1>1, LinksAssumption
<1>3. PICK m \in U : \A n \in U : m <= n
  <2> HIDE DEF U
  <2>1. U \in SUBSET Nat
    BY DEF U
  <2> QED BY <1>2, <2>1, LeastNatural
<1>4. m \in 0..MaxHandle /\ \A h \in Live(s) : h <= m
  BY <1>2, <1>3, LinksAssumption
<1>5. m = 0 \/ m \in Live(s)
  <2> SUFFICES ASSUME m # 0 PROVE m \in Live(s)
    OBVIOUS
  <2>1. m - 1 \notin U /\ m - 1 \in Nat
    BY <1>3
  <2>2. PICK h \in Live(s) : ~(h <= m - 1)
    BY <2>1
  <2> QED BY <1>1, <1>4, <2>2
<1> QED BY <1>4, <1>5 DEF MaxLive

(* FirstStop(rows) is the first row DELETE stops at, if there is one. *)
LEMMA FirstStopIsFirst ==
  ASSUME NEW n \in Nat, NEW rows \in [1..n -> Handles],
         ~\A i \in DOMAIN rows : ~Stops(rows, i)
  PROVE  /\ FirstStop(rows) \in 1..n
         /\ Before(rows, FirstStop(rows)) \in SUBSET Handles
         /\ Before(rows, FirstStop(rows)) \cap store.keys = {}
<1> DEFINE S == {i \in 1..n : Stops(rows, i)}
<1>1. S \in SUBSET Nat /\ S # {}
  OBVIOUS
<1>2. PICK m \in S : \A i \in S : m <= i
  <2> HIDE DEF S
  <2> QED BY <1>1, LeastNatural
<1>3. Stops(rows, m) /\ \A j \in 1..(m - 1) : ~Stops(rows, j)
  BY <1>2
<1>4. /\ FirstStop(rows) \in 1..n
      /\ \A j \in 1..(FirstStop(rows) - 1) : ~Stops(rows, j)
  BY <1>2, <1>3 DEF FirstStop
<1>5. \A j \in 1..(FirstStop(rows) - 1) :
        j \in 1..n /\ rows[j] \in Handles /\ rows[j] \notin store.keys
  BY <1>4 DEF Stops
<1> QED BY <1>4, <1>5 DEF Before

-----------------------------------------------------------------------------
(* LinkGraph is the smallest set that is closed under the links. *)

Symmetric(links) == \A p \in links : <<p[2], p[1]>> \in links

(* getLinkGraph returns handles, the start among them. *)
LEMMA GraphHasStart ==
  ASSUME NEW links, NEW x \in Handles
  PROVE  x \in LinkGraph(links, x) /\ LinkGraph(links, x) \in SUBSET Handles
BY DEF LinkGraph

(* The graph holds what a link leads to from one of its members. *)
LEMMA GraphIsClosed ==
  ASSUME NEW links \in SUBSET (Handles \X Handles), NEW x \in Handles,
         NEW p \in links, p[1] \in LinkGraph(links, x)
  PROVE  p[2] \in LinkGraph(links, x)
BY DEF LinkGraph

(* The graph is within every closed set that holds the start. *)
LEMMA GraphIsLeast ==
  ASSUME NEW links, NEW x \in Handles, NEW S \in SUBSET Handles, x \in S,
         \A p \in links : p[1] \in S => p[2] \in S
  PROVE  LinkGraph(links, x) \subseteq S
BY DEF LinkGraph

(* The graph of a member of a graph is within it. *)
LEMMA GraphOfMember ==
  ASSUME NEW links \in SUBSET (Handles \X Handles), NEW x \in Handles,
         NEW y \in LinkGraph(links, x)
  PROVE  LinkGraph(links, y) \subseteq LinkGraph(links, x)
<1>1. LinkGraph(links, x) \in SUBSET Handles /\ y \in Handles
  BY GraphHasStart
<1>2. \A p \in links :
        p[1] \in LinkGraph(links, x) => p[2] \in LinkGraph(links, x)
  BY GraphIsClosed
<1> QED BY <1>1, <1>2, GraphIsLeast

(* More links reach more. *)
LEMMA GraphIsMonotonic ==
  ASSUME NEW links \in SUBSET (Handles \X Handles),
         NEW more \in SUBSET (Handles \X Handles), links \subseteq more,
         NEW x \in Handles
  PROVE  LinkGraph(links, x) \subseteq LinkGraph(more, x)
<1>1. \A p \in links :
        p[1] \in LinkGraph(more, x) => p[2] \in LinkGraph(more, x)
  BY GraphIsClosed
<1> QED BY <1>1, GraphHasStart, GraphIsLeast

(* With links in both directions, the members of a graph have that graph. *)
LEMMA GraphIsSymmetric ==
  ASSUME NEW links \in SUBSET (Handles \X Handles), Symmetric(links),
         NEW x \in Handles, NEW y \in LinkGraph(links, x)
  PROVE  /\ x \in LinkGraph(links, y)
         /\ LinkGraph(links, y) = LinkGraph(links, x)
<1> DEFINE S == {z \in Handles : x \in LinkGraph(links, z)}
<1>1. x \in S
  BY GraphHasStart
<1>2. ASSUME NEW p \in links, p[1] \in S
      PROVE  p[2] \in S
  <2>1. p[1] \in Handles /\ p[2] \in Handles /\ <<p[2], p[1]>> \in links
    BY DEF Symmetric
  <2>2. p[1] \in LinkGraph(links, p[2])
    BY <2>1, GraphHasStart, GraphIsClosed
  <2>3. LinkGraph(links, p[1]) \subseteq LinkGraph(links, p[2])
    BY <2>1, <2>2, GraphOfMember
  <2> QED BY <1>2, <2>1, <2>3
<1>3. LinkGraph(links, x) \subseteq S
  BY <1>1, <1>2, GraphIsLeast
<1>4. x \in LinkGraph(links, y)
  BY <1>3
<1>5. y \in Handles
  BY GraphHasStart
<1> QED BY <1>4, <1>5, GraphOfMember

(* A graph of more than its start leaves the start by a link. *)
LEMMA GraphLeavesStart ==
  ASSUME NEW links, NEW x \in Handles,
         \A p \in links : p[1] # x
  PROVE  LinkGraph(links, x) = {x}
<1> DEFINE S == {x}
<1>1. S \in SUBSET Handles /\ x \in S /\ \A p \in links : p[1] \in S => p[2] \in S
  OBVIOUS
<1>2. LinkGraph(links, x) \subseteq S
  <2> HIDE DEF S
  <2> QED BY <1>1, GraphIsLeast
<1> QED BY <1>2, GraphHasStart

(* A graph that none of the links in more starts from is unchanged by them. *)
LEMMA GraphUnchanged ==
  ASSUME NEW links \in SUBSET (Handles \X Handles),
         NEW more \in SUBSET (Handles \X Handles), links \subseteq more,
         NEW x \in Handles,
         \A p \in more \ links : p[1] \notin LinkGraph(links, x)
  PROVE  LinkGraph(more, x) = LinkGraph(links, x)
<1>1. \A p \in more :
        p[1] \in LinkGraph(links, x) => p[2] \in LinkGraph(links, x)
  BY GraphIsClosed
<1>2. LinkGraph(more, x) \subseteq LinkGraph(links, x)
  BY <1>1, GraphHasStart, GraphIsLeast
<1> QED BY <1>2, GraphIsMonotonic

-----------------------------------------------------------------------------
(* What holds of the store of the process and of the data file.             *)

KeysOfLinks(s) == s.keys = {p[1] : p \in s.links}

GoneHaveNoStatus(s) == \A h \in Handles : h \notin Live(s) => s.status[h] = "None"

StatusOK(s) ==
  \A h \in Live(s) :
    /\ s.status[h] = "Master"
         => h \in s.keys /\ h = Lowest(LinkGraph(s.links, h))
    /\ s.status[h] = "Slave"
         => h \in s.keys /\ h # Lowest(LinkGraph(s.links, h))

GoodStore(s) == /\ s \in Store
                /\ Symmetric(s.links)
                /\ KeysOfLinks(s)
                /\ GoneHaveNoStatus(s)
                /\ StatusOK(s)

(* clearAll leaves a good store. *)
LEMMA ClearedIsGood == GoodStore(Cleared)
<1>1. Cleared \in Store
  BY LinksAssumption DEF Cleared, Store, Handles, Statuses
<1>2. Symmetric(Cleared.links) /\ KeysOfLinks(Cleared)
  BY DEF Cleared, Symmetric, KeysOfLinks
<1>3. \A h \in Handles : Cleared.status[h] = "None"
  BY DEF Cleared
<1>4. GoneHaveNoStatus(Cleared) /\ StatusOK(Cleared)
  BY <1>3 DEF GoneHaveNoStatus, StatusOK, Live
<1> QED BY <1>1, <1>2, <1>4 DEF GoodStore

(* Erasing entities that leave their links behind keeps a store good. *)
LEMMA ErasedIsGood ==
  ASSUME NEW s, GoodStore(s), NEW S \in SUBSET Handles
  PROVE  /\ GoodStore(Erased(s, S))
         /\ Live(Erased(s, S)) = Live(s) \ S
<1> DEFINE t == Erased(s, S)
<1>1. /\ t \in Store
      /\ t.links = s.links
      /\ t.keys = s.keys
      /\ \A h \in Handles : t.type[h] = IF h \in S THEN NoType ELSE s.type[h]
      /\ \A h \in Handles : t.status[h] = IF h \in S THEN "None" ELSE s.status[h]
  BY DEF GoodStore, Erased, Store, Statuses
<1> HIDE DEF t
<1>2. Live(t) = Live(s) \ S
  BY <1>1 DEF Live
<1>3. GoneHaveNoStatus(t)
  BY <1>1, <1>2 DEF GoodStore, GoneHaveNoStatus
<1>4. StatusOK(t)
  BY <1>1, <1>2 DEF GoodStore, StatusOK, Live
<1>5. GoodStore(t)
  BY <1>1, <1>3, <1>4 DEF GoodStore, KeysOfLinks
<1> QED BY <1>2, <1>5 DEF t

(* A new entity keeps a store good. *)
LEMMA InsertedIsGood ==
  ASSUME NEW s, GoodStore(s), NEW h \in Handles, NEW t \in Types
  PROVE  GoodStore([s EXCEPT !.type[h] = IF @ = NoType THEN t ELSE @])
<1> DEFINE n == [s EXCEPT !.type[h] = IF @ = NoType THEN t ELSE @]
<1>1. /\ n \in Store
      /\ n.links = s.links
      /\ n.keys = s.keys
      /\ n.status = s.status
      /\ \A x \in Handles : x # h => n.type[x] = s.type[x]
      /\ n.type[h] = IF s.type[h] = NoType THEN t ELSE s.type[h]
  BY DEF GoodStore, Store
<1> HIDE DEF n
<1>2. Live(s) \subseteq Live(n)
  BY <1>1, LinksAssumption DEF Live
<1>3. GoneHaveNoStatus(n)
  BY <1>1, <1>2 DEF GoodStore, GoneHaveNoStatus
<1>4. StatusOK(n)
  <2>1. \A x \in Live(n) : x \notin Live(s) => n.status[x] = "None"
    BY <1>1 DEF GoodStore, GoneHaveNoStatus, Live
  <2> QED BY <1>1, <2>1 DEF GoodStore, StatusOK
<1>5. GoodStore(n)
  BY <1>1, <1>3, <1>4 DEF GoodStore, KeysOfLinks
<1> QED BY <1>5 DEF n

-----------------------------------------------------------------------------
(* LINK and UNLINK keep a store good. *)

(* A member of a graph other than its start is the source of a link. *)
LEMMA MemberHasLink ==
  ASSUME NEW links \in SUBSET (Handles \X Handles), Symmetric(links),
         NEW x \in Handles, NEW y \in LinkGraph(links, x), y # x
  PROVE  \E p \in links : p[1] = y
<1>1. y \in Handles /\ x \in LinkGraph(links, y)
  BY GraphHasStart, GraphIsSymmetric
<1> QED BY <1>1, GraphLeavesStart

(* Assigned makes the lowest member of the graph Master and the rest Slave. *)
LEMMA AssignedStatus ==
  ASSUME NEW status, NEW graph, NEW h \in Handles
  PROVE  Assigned(status, graph)[h] =
           IF h \notin graph THEN status[h]
           ELSE IF h = Lowest(graph) THEN "Master" ELSE "Slave"
BY DEF Assigned

(* Assigned gives every handle a status. *)
LEMMA AssignedType ==
  ASSUME NEW status \in [Handles -> Statuses], NEW graph
  PROVE  Assigned(status, graph) \in [Handles -> Statuses]
<1>1. \A h \in Handles : Assigned(status, graph)[h] \in Statuses
  BY AssignedStatus DEF Statuses
<1> QED BY <1>1 DEF Assigned

(* LINK leaves a good store. *)
LEMMA LinkedIsGood ==
  ASSUME NEW a \in Handles, NEW b \in Handles, GoodStore(store),
         LinkReaches(a, b) \subseteq Live(store)
  PROVE  GoodStore(Linked(a, b)) /\ Live(Linked(a, b)) = Live(store)
<1> DEFINE t == Linked(a, b)
           L == store.links
           M == L \cup {<<a, b>>, <<b, a>>}
           G == LinkGraph(M, a)
<1>1. /\ L \in SUBSET (Handles \X Handles)
      /\ M \in SUBSET (Handles \X Handles)
      /\ Symmetric(L)
      /\ Symmetric(M)
  BY DEF GoodStore, Store, Symmetric
<1>2. /\ t.links = M
      /\ t.keys = store.keys \cup {a, b}
      /\ t.type = store.type
      /\ t.status = Assigned(store.status, G)
  BY DEF Linked, GoodStore, Store
<1>3. t \in Store
  BY <1>1, AssignedType DEF Linked, GoodStore, Store
<1>4. G \subseteq Live(store)
  BY <1>2 DEF LinkReaches
<1> HIDE DEF t
<1>5. \A h \in Handles :
        t.status[h] = IF h \notin G THEN store.status[h]
                      ELSE IF h = Lowest(G) THEN "Master" ELSE "Slave"
  BY <1>2, AssignedStatus
<1>6. Live(t) = Live(store)
  BY <1>2 DEF Live
<1>7. KeysOfLinks(t)
  <2>1. \A h : h \in {p[1] : p \in M} <=> h \in {p[1] : p \in L} \/ h \in {a, b}
    <3>1. <<a, b>>[1] = a /\ <<b, a>>[1] = b
      OBVIOUS
    <3> QED BY <3>1
  <2>2. store.keys = {p[1] : p \in L}
    BY DEF GoodStore, KeysOfLinks
  <2> QED BY <1>2, <2>1, <2>2 DEF KeysOfLinks
<1>8. GoneHaveNoStatus(t)
  BY <1>4, <1>5, <1>6 DEF GoodStore, GoneHaveNoStatus
<1>9. a \in G /\ b \in G
  <2>1. a \in G
    BY GraphHasStart
  <2>2. \A p \in M : p[1] \in G => p[2] \in G
    BY <1>1, GraphIsClosed
  <2>3. <<a, b>> \in M /\ <<a, b>>[1] = a /\ <<a, b>>[2] = b
    OBVIOUS
  <2> QED BY <2>1, <2>2, <2>3
<1>10. StatusOK(t)
  <2> SUFFICES ASSUME NEW h \in Live(t)
               PROVE  /\ t.status[h] = "Master"
                           => h \in t.keys /\ h = Lowest(LinkGraph(t.links, h))
                      /\ t.status[h] = "Slave"
                           => h \in t.keys /\ h # Lowest(LinkGraph(t.links, h))
    BY DEF StatusOK
  <2>1. h \in Handles
    BY DEF Live
  <2>2. CASE h \in G
    <3>1. LinkGraph(M, h) = G
      BY <1>1, <2>2, GraphIsSymmetric
    <3>2. h \in t.keys
      BY <1>1, <1>2, <1>7, <2>2, MemberHasLink DEF KeysOfLinks
    <3> QED BY <1>2, <1>5, <2>1, <2>2, <3>1, <3>2
  <2>3. CASE h \notin G
    <3>1. a \notin LinkGraph(L, h) /\ b \notin LinkGraph(L, h)
      <4>1. LinkGraph(L, h) \subseteq LinkGraph(M, h)
        BY <1>1, <2>1, GraphIsMonotonic
      <4>2. \A c \in LinkGraph(M, h) : LinkGraph(M, c) = LinkGraph(M, h)
        BY <1>1, <2>1, GraphIsSymmetric
      <4>3. LinkGraph(M, b) = G
        BY <1>1, <1>9, GraphIsSymmetric
      <4>4. h \in LinkGraph(M, h)
        BY <2>1, GraphHasStart
      <4> QED BY <2>3, <4>1, <4>2, <4>3, <4>4
    <3>2. LinkGraph(M, h) = LinkGraph(L, h)
      BY <1>1, <2>1, <3>1, GraphUnchanged
    <3> QED BY <1>2, <1>5, <1>6, <2>1, <2>3, <3>2 DEF GoodStore, StatusOK
  <2> QED BY <2>2, <2>3
<1>11. GoodStore(t)
  BY <1>1, <1>2, <1>3, <1>7, <1>8, <1>10 DEF GoodStore
<1> QED BY <1>6, <1>11 DEF t

(* UNLINK: the entities left alone are those whose graph is a singleton.    *)
LEMMA AloneAreSingletons ==
  ASSUME NEW a \in Handles, NEW b \in Handles
  PROVE  \A h : h \in Alone(a, b) <=>
                  \/ h = a /\ LinkGraph(Unlink(a, b), a) = {a}
                  \/ h = b /\ LinkGraph(Unlink(a, b), b) = {b}
<1> DEFINE A == LinkGraph(Unlink(a, b), a)
           B == LinkGraph(Unlink(a, b), b)
<1>1. A \in SUBSET Handles /\ a \in A /\ B \in SUBSET Handles /\ b \in B
  BY GraphHasStart
<1>2. IsFiniteSet(A) /\ IsFiniteSet(B)
  <2>1. IsFiniteSet(Handles)
    BY LinksAssumption, FS_Interval DEF Handles
  <2> HIDE DEF A, B
  <2> QED BY <1>1, <2>1, FS_Subset
<1> HIDE DEF A, B
<1>3. (Cardinality(A) = 1 <=> A = {a}) /\ (Cardinality(B) = 1 <=> B = {b})
  <2>1. Cardinality(A) = 1 <=> \E g : A = {g}
    BY <1>2, FS_Singleton
  <2>2. Cardinality(B) = 1 <=> \E g : B = {g}
    BY <1>2, FS_Singleton
  <2> QED BY <1>1, <2>1, <2>2
<1>4. \A h : h \in Alone(a, b) <=> \E g \in {A, B} : Cardinality(g) = 1 /\ h \in g
  BY DEF Alone, GraphsLeft, A, B
<1>5. \A h : h \in Alone(a, b) <=> (h = a /\ A = {a}) \/ (h = b /\ B = {b})
  BY <1>3, <1>4
<1> QED BY <1>5 DEF A, B

(* UNLINK leaves a good store. *)
LEMMA UnlinkedIsGood ==
  ASSUME NEW a \in Handles, NEW b \in Handles, GoodStore(store),
         AreLinked(a, b), UNION GraphsLeft(a, b) \subseteq Live(store)
  PROVE  GoodStore(Unlinked(a, b)) /\ Live(Unlinked(a, b)) = Live(store)
<1> DEFINE t == Unlinked(a, b)
           L == store.links
           U == Unlink(a, b)
           A == LinkGraph(U, a)
           B == LinkGraph(U, b)
           N == Alone(a, b)
<1>1. /\ L \in SUBSET (Handles \X Handles)
      /\ U = L \ {<<a, b>>, <<b, a>>}
      /\ U \in SUBSET (Handles \X Handles)
      /\ Symmetric(L)
      /\ Symmetric(U)
      /\ store.keys = {p[1] : p \in L}
  BY DEF GoodStore, Store, Symmetric, Unlink, KeysOfLinks
<1>2. /\ t.links = {p \in U : p[1] \notin N}
      /\ t.keys = store.keys \ N
      /\ t.type = store.type
      /\ t.status = [h \in Handles |->
                       IF h \in N THEN "None"
                       ELSE Assigned(Assigned(store.status, A), B)[h]]
  BY DEF Unlinked, GoodStore, Store
<1>3. \A h \in Handles :
        t.status[h] = IF h \in N THEN "None"
                      ELSE IF h \in B
                           THEN IF h = Lowest(B) THEN "Master" ELSE "Slave"
                      ELSE IF h \in A
                           THEN IF h = Lowest(A) THEN "Master" ELSE "Slave"
                      ELSE store.status[h]
  BY <1>2, AssignedStatus
<1>4. t \in Store
  <2>1. store.status \in [Handles -> Statuses]
    BY DEF GoodStore, Store
  <2>2. t.status \in [Handles -> Statuses]
    BY <1>2, <1>3, <2>1 DEF Statuses
  <2> HIDE DEF N
  <2> QED BY <1>1, <1>2, <2>2 DEF Unlinked, GoodStore, Store
<1>5. \A h : h \in N <=> (h = a /\ A = {a}) \/ (h = b /\ B = {b})
  BY AloneAreSingletons
<1>6. A \subseteq Live(store) /\ B \subseteq Live(store)
  BY DEF GraphsLeft
<1>7. /\ A \in SUBSET Handles /\ B \in SUBSET Handles
      /\ a \in A /\ b \in B
  BY GraphHasStart
<1> HIDE DEF t, U, N
<1>8. Live(t) = Live(store)
  BY <1>2 DEF Live
<1>9. /\ t.links \in SUBSET (Handles \X Handles)
      /\ t.links \subseteq U
      /\ Symmetric(t.links)
  <2>1. ASSUME NEW p \in U, p[1] \notin N, p[2] \in N
        PROVE  FALSE
    <3>1. PICK c \in {a, b} : p[2] = c /\ LinkGraph(U, c) = {c}
      BY <1>5, <2>1
    <3>2. <<p[2], p[1]>> \in U
      BY <1>1 DEF Symmetric
    <3>3. p[1] \in LinkGraph(U, c)
      <4>1. <<c, p[1]>> \in U /\ <<c, p[1]>>[1] = c /\ <<c, p[1]>>[2] = p[1]
        BY <3>1, <3>2
      <4> QED BY <1>1, <3>1, <4>1, GraphIsClosed, GraphHasStart
    <3> QED BY <2>1, <3>1, <3>3
  <2>2. \A p \in U : <<p[2], p[1]>> \in U
    BY <1>1 DEF Symmetric
  <2> QED BY <1>1, <1>2, <2>1, <2>2 DEF Symmetric
<1>10. KeysOfLinks(t)
  <2>1. ASSUME NEW h \in store.keys, h \notin N
        PROVE  \E p \in U : p[1] = h
    <3>1. PICK p \in L : p[1] = h
      BY <1>1
    <3>2. CASE p \in U
      BY <3>1, <3>2
    <3>3. CASE p \notin U
      <4>1. h \in {a, b}
        BY <1>1, <3>1, <3>3
      <4>2. LinkGraph(U, h) # {h}
        BY <1>5, <2>1, <4>1
      <4> QED BY <4>1, <4>2, GraphLeavesStart
    <3> QED BY <3>2, <3>3
  <2> QED BY <1>1, <1>2, <2>1 DEF KeysOfLinks
<1>11. GoneHaveNoStatus(t)
  BY <1>3, <1>6, <1>8 DEF GoodStore, GoneHaveNoStatus
<1>12. ASSUME NEW h \in Handles, h \notin N
       PROVE  LinkGraph(t.links, h) = LinkGraph(U, h)
  <2>1. ASSUME NEW p \in U \ t.links
        PROVE  p[1] \notin LinkGraph(t.links, h)
    <3>1. PICK c \in {a, b} : p[1] = c /\ LinkGraph(U, c) = {c}
      BY <1>2, <1>5, <2>1
    <3>2. SUFFICES ASSUME c \in LinkGraph(t.links, h) PROVE FALSE
      BY <3>1
    <3>3. c \in LinkGraph(U, h)
      BY <1>1, <1>9, <3>2, GraphIsMonotonic
    <3>4. h \in LinkGraph(U, c)
      BY <1>1, <3>3, GraphIsSymmetric
    <3>5. h = c
      BY <3>1, <3>4
    <3> QED BY <1>5, <1>12, <3>1, <3>5
  <2> QED BY <1>1, <1>9, <2>1, GraphUnchanged
<1>13. StatusOK(t)
  <2> SUFFICES ASSUME NEW h \in Live(t)
               PROVE  /\ t.status[h] = "Master"
                           => h \in t.keys /\ h = Lowest(LinkGraph(t.links, h))
                      /\ t.status[h] = "Slave"
                           => h \in t.keys /\ h # Lowest(LinkGraph(t.links, h))
    BY DEF StatusOK
  <2>1. h \in Handles
    BY DEF Live
  <2>2. CASE h \in N
    BY <1>3, <2>1, <2>2
  <2>3. CASE h \notin N /\ h \in A \cup B
    <3>1. PICK c \in {a, b} : h \in LinkGraph(U, c)
      BY <2>3
    <3>2. LinkGraph(t.links, h) = LinkGraph(U, h)
      BY <1>12, <2>1, <2>3
    <3>3. h \in B => LinkGraph(t.links, h) = B
      BY <1>1, <3>2, GraphIsSymmetric
    <3>4. h \in A => LinkGraph(t.links, h) = A
      BY <1>1, <3>2, GraphIsSymmetric
    <3>5. a \in store.keys /\ b \in store.keys
      <4>1. <<a, b>> \in L /\ <<b, a>> \in L
        BY DEF AreLinked
      <4>2. <<a, b>>[1] = a /\ <<b, a>>[1] = b
        OBVIOUS
      <4> QED BY <1>1, <4>1, <4>2
    <3>6. h \in store.keys
      <4>1. CASE h = c
        BY <3>5, <4>1
      <4>2. CASE h # c
        BY <1>1, <3>1, <4>2, MemberHasLink
      <4> QED BY <4>1, <4>2
    <3>7. h \in t.keys
      BY <1>2, <2>3, <3>6
    <3> QED BY <1>3, <2>1, <2>3, <3>3, <3>4, <3>7
  <2>4. CASE h \notin N /\ h \notin A \cup B
    <3>1. ASSUME NEW p \in L \ U
          PROVE  p[1] \notin LinkGraph(U, h)
      <4>1. p[1] \in {a, b}
        BY <1>1, <3>1
      <4>2. SUFFICES ASSUME p[1] \in LinkGraph(U, h) PROVE FALSE
        OBVIOUS
      <4>3. h \in LinkGraph(U, p[1])
        BY <1>1, <2>1, <4>2, GraphIsSymmetric
      <4> QED BY <2>4, <4>1, <4>3
    <3>2. LinkGraph(L, h) = LinkGraph(U, h)
      BY <1>1, <2>1, <3>1, GraphUnchanged
    <3>3. LinkGraph(t.links, h) = LinkGraph(L, h)
      BY <1>12, <2>1, <2>4, <3>2
    <3>4. t.status[h] = store.status[h]
      BY <1>3, <2>1, <2>4
    <3>5. h \in store.keys => h \in t.keys
      BY <1>2, <2>4
    <3>6. h \in Live(store)
      BY <1>8
    <3> QED BY <3>3, <3>4, <3>5, <3>6 DEF GoodStore, StatusOK
  <2> QED BY <2>2, <2>3, <2>4
<1>14. GoodStore(t)
  BY <1>4, <1>9, <1>10, <1>11, <1>13 DEF GoodStore
<1> QED BY <1>8, <1>14 DEF t

-----------------------------------------------------------------------------
(* The inductive invariant: both stores are good, the file is what the      *)
(* process holds, and _lastHandle bounds the handles of the process.  A     *)
(* rollback and a restart need the half about the file; after the process   *)
(* has died, the file still has its linked entities.                        *)
LinkedOnDisk(s) == \A h \in store.keys : h \in Live(store) => h \in Live(s)

IInv == /\ TypeOK
        /\ GoodStore(store)
        /\ GoodStore(disk)
        /\ MemoryMatchesDisk
        /\ NewHandleIsUnused
        /\ LinkedOnDisk(disk)

(* The store of an empty database is good. *)
LEMMA InitIInv == Init => IInv
<1> SUFFICES ASSUME Init PROVE IInv
  OBVIOUS
<1> USE DEF Init
<1>1. GoodStore(store) /\ GoodStore(disk)
  BY ClearedIsGood
<1>2. TypeOK
  BY <1>1, LinksAssumption DEF TypeOK, GoodStore, Outcomes
<1>3. Live(Cleared) = {1}
  BY LinksAssumption DEF Live, Cleared, Handles
<1>4. MemoryMatchesDisk /\ NewHandleIsUnused /\ LinkedOnDisk(disk)
  BY <1>3 DEF MemoryMatchesDisk, NewHandleIsUnused, LinkedOnDisk
<1> QED BY <1>1, <1>2, <1>4 DEF IInv

(* A step that ends by Commit keeps the invariant if it commits a good      *)
(* store whose handles _lastHandle bounds.                                  *)
LEMMA CommitKeepsIInv ==
  ASSUME IInv, running, NEW s, GoodStore(s), Commit(s),
         lastHandle' \in 0..MaxHandle, \A h \in Live(s) : h <= lastHandle',
         reply' \in Outcomes \X (0..MaxHandle) \X (0..MaxHandle)
  PROVE  IInv'
<1>1. store' = s /\ disk' = s /\ running' = running
  BY DEF Commit
<1>2. GoodStore(store)' /\ GoodStore(disk)'
  BY <1>1
<1>3. TypeOK'
  BY <1>1 DEF GoodStore, IInv, TypeOK
<1>4. MemoryMatchesDisk' /\ NewHandleIsUnused' /\ LinkedOnDisk(disk)'
  BY <1>1 DEF MemoryMatchesDisk, NewHandleIsUnused, LinkedOnDisk, Live
<1> QED BY <1>2, <1>3, <1>4 DEF IInv

(* Reading the data file back keeps the invariant, _lastHandle included. *)
LEMMA RollbackKeepsIInv ==
  ASSUME IInv, Rollback,
         reply' \in Outcomes \X (0..MaxHandle) \X (0..MaxHandle)
  PROVE  IInv'
<1>1. store' = disk /\ disk' = disk /\ running' = running
      /\ lastHandle' = MaxLive(disk)
  BY DEF Rollback
<1>2. GoodStore(store)' /\ GoodStore(disk)'
  BY <1>1 DEF IInv
<1>3. TypeOK'
  BY <1>1, MaxLiveBounds DEF GoodStore, IInv, TypeOK
<1>4. MemoryMatchesDisk' /\ NewHandleIsUnused' /\ LinkedOnDisk(disk)'
  BY <1>1, MaxLiveBounds
  DEF MemoryMatchesDisk, NewHandleIsUnused, LinkedOnDisk, Live
<1> QED BY <1>2, <1>3, <1>4 DEF IInv

(* A process that dies leaves a good file. *)
LEMMA AbortKeepsIInv ==
  ASSUME IInv, Abort, NEW s, GoodStore(s), LinkedOnDisk(s), disk' = s
  PROVE  IInv'
<1>1. store' = store /\ disk' = s /\ running' = FALSE
      /\ lastHandle' = lastHandle /\ reply' = <<"aborted", 0, 0>>
  BY DEF Abort
<1>2. GoodStore(store)' /\ GoodStore(disk)'
  BY <1>1 DEF IInv
<1>3. TypeOK'
  <2>1. reply' \in Outcomes \X (0..MaxHandle) \X (0..MaxHandle)
    BY <1>1, LinksAssumption DEF Outcomes
  <2>2. store' \in Store /\ disk' \in Store
    BY <1>1 DEF IInv, GoodStore
  <2> QED BY <1>1, <2>1, <2>2 DEF IInv, TypeOK
<1>4. MemoryMatchesDisk' /\ NewHandleIsUnused' /\ LinkedOnDisk(disk)'
  BY <1>1 DEF MemoryMatchesDisk, NewHandleIsUnused, LinkedOnDisk, Live
<1> QED BY <1>2, <1>3, <1>4 DEF IInv

(* Every step keeps the invariant. *)
LEMMA NextIInv == IInv /\ [Next]_vars => IInv'
<1> SUFFICES ASSUME IInv, [Next]_vars PROVE IInv'
  OBVIOUS
<1>1. GoodStore(store) /\ GoodStore(disk) /\ TypeOK
  BY DEF IInv
<1>2. \A o \in Outcomes, x, y \in 0..MaxHandle :
        <<o, x, y>> \in Outcomes \X (0..MaxHandle) \X (0..MaxHandle)
  OBVIOUS
<1>3. Handles \subseteq 0..MaxHandle /\ 0 \in 0..MaxHandle
  BY LinksAssumption DEF Handles
<1>4. running => \A h \in Live(store) : h <= lastHandle
  BY DEF IInv, NewHandleIsUnused
<1>0. LinkedOnDisk(disk)
  BY DEF IInv
<1>5. ASSUME NEW t \in Types, InsertEntity(t)
      PROVE  IInv'
  <2> DEFINE h == lastHandle + 1
             s == [store EXCEPT !.type[h] = IF @ = NoType THEN t ELSE @]
  <2>1. h \in Handles /\ lastHandle' = h /\ lastHandle \in Nat
    BY <1>1, <1>5, LinksAssumption DEF InsertEntity, Handles, TypeOK
  <2>2. GoodStore(s)
    BY <1>1, <2>1, InsertedIsGood
  <2>3. \A x \in Live(s) : x \in Handles /\ (x \in Live(store) \/ x = h)
    BY <1>1, <2>1 DEF Live, GoodStore, Store
  <2>4. \A x \in Live(s) : x <= lastHandle'
    <3> HIDE DEF s
    <3>1. \A x \in Live(s) : x \in Nat
      BY <2>3, LinksAssumption DEF Handles
    <3> QED BY <1>4, <1>5, <2>1, <2>3, <3>1 DEF InsertEntity
  <2>5. reply' \in Outcomes \X (0..MaxHandle) \X (0..MaxHandle)
    BY <1>2, <1>3, <1>5, <2>1 DEF InsertEntity, Outcomes
  <2>6. running /\ Commit(s) /\ lastHandle' \in 0..MaxHandle
    BY <1>3, <1>5, <2>1 DEF InsertEntity
  <2> HIDE DEF s
  <2> QED BY <2>2, <2>4, <2>5, <2>6, CommitKeepsIInv
<1>6. ASSUME InsertFails PROVE IInv'
  BY <1>2, <1>3, <1>6, RollbackKeepsIInv DEF InsertFails, Outcomes
<1>7. ASSUME NEW a \in Handles, NEW b \in Handles, LinkEntities(a, b)
      PROVE  IInv'
  <2>1. /\ running
        /\ <<"linked", a, b>> \in Outcomes \X (0..MaxHandle) \X (0..MaxHandle)
    BY <1>3, <1>7 DEF LinkEntities, Outcomes
  <2>2. CASE /\ LinkReaches(a, b) \subseteq Live(store)
             /\ Commit(Linked(a, b))
             /\ reply' = <<"linked", a, b>>
             /\ UNCHANGED lastHandle
    <3>1. GoodStore(Linked(a, b)) /\ Live(Linked(a, b)) = Live(store)
      BY <1>1, <2>2, LinkedIsGood
    <3>2. lastHandle' \in 0..MaxHandle
      BY <1>1, <2>2 DEF TypeOK
    <3> QED BY <1>4, <2>1, <2>2, <3>1, <3>2, CommitKeepsIInv
  <2>3. CASE Rollback /\ reply' = <<"linked", a, b>>
    BY <2>1, <2>3, RollbackKeepsIInv
  <2>4. CASE Abort /\ UNCHANGED disk
    BY <1>0, <1>1, <2>4, AbortKeepsIInv
  <2> QED BY <1>7, <2>2, <2>3, <2>4 DEF LinkEntities
<1>8. ASSUME NEW a \in Handles, NEW b \in Handles, UnlinkEntities(a, b)
      PROVE  IInv'
  <2>1. /\ running
        /\ <<"unlinked", 0, 0>> \in Outcomes \X (0..MaxHandle) \X (0..MaxHandle)
    BY <1>3, <1>8 DEF UnlinkEntities, Outcomes
  <2>2. CASE /\ AreLinked(a, b)
             /\ UNION GraphsLeft(a, b) \subseteq Live(store)
             /\ Commit(Unlinked(a, b))
             /\ reply' = <<"unlinked", 0, 0>>
             /\ UNCHANGED lastHandle
    <3>1. GoodStore(Unlinked(a, b)) /\ Live(Unlinked(a, b)) = Live(store)
      BY <1>1, <2>2, UnlinkedIsGood
    <3>2. lastHandle' \in 0..MaxHandle
      BY <1>1, <2>2 DEF TypeOK
    <3> QED BY <1>4, <2>1, <2>2, <3>1, <3>2, CommitKeepsIInv
  <2>3. CASE /\ reply' = <<"unlinked", 0, 0>>
             /\ UNCHANGED <<store, disk, lastHandle, running>>
    <3>1. Commit(store)
      BY <2>1, <2>3 DEF Commit, IInv, MemoryMatchesDisk
    <3>2. lastHandle' \in 0..MaxHandle
      BY <1>1, <2>3 DEF TypeOK
    <3> QED BY <1>1, <1>4, <2>1, <2>3, <3>1, <3>2, CommitKeepsIInv
  <2>4. CASE Rollback /\ reply' = <<"unlinked", 0, 0>>
    BY <2>1, <2>4, RollbackKeepsIInv
  <2>5. CASE Abort /\ UNCHANGED disk
    BY <1>0, <1>1, <2>5, AbortKeepsIInv
  <2> QED BY <1>8, <2>2, <2>3, <2>4, <2>5 DEF UnlinkEntities
<1>9. ASSUME NEW a \in Handles, NEW b \in Handles, MergeEntities(a, b)
      PROVE  IInv'
  <2>1. /\ running
        /\ reply' = <<"merged", a, b>>
        /\ <<"merged", a, b>> \in Outcomes \X (0..MaxHandle) \X (0..MaxHandle)
    BY <1>3, <1>9 DEF MergeEntities, Outcomes
  <2>2. CASE Commit(Erased(store, {HigherOf(a, b)})) /\ UNCHANGED lastHandle
    <3>1. {HigherOf(a, b)} \in SUBSET Handles
      BY DEF HigherOf
    <3>2. /\ GoodStore(Erased(store, {HigherOf(a, b)}))
          /\ Live(Erased(store, {HigherOf(a, b)})) \subseteq Live(store)
      BY <1>1, <3>1, ErasedIsGood
    <3>3. lastHandle' \in 0..MaxHandle
      BY <1>1, <2>2 DEF TypeOK
    <3> QED BY <1>4, <2>1, <2>2, <3>2, <3>3, CommitKeepsIInv
  <2>3. CASE Rollback
    BY <2>1, <2>3, RollbackKeepsIInv
  <2> QED BY <1>9, <2>2, <2>3 DEF MergeEntities
<1>10. ASSUME NEW rows \in Batches, DeleteEntities(rows)
       PROVE  IInv'
  <2> DEFINE all == Before(rows, Len(rows) + 1)
             some == Before(rows, FirstStop(rows))
  <2>1. PICK n \in 1..MaxBatch : rows \in [1..n -> Handles]
    BY DEF Batches
  <2>2. n \in Nat /\ DOMAIN rows = 1..n
    BY <2>1, LinksAssumption
  <2>3. running /\ all \in SUBSET Handles
    BY <1>10 DEF DeleteEntities, Live
  <2>4. CASE /\ Commit(Erased(store, all))
             /\ reply' = <<"deleted", 0, 0>>
             /\ UNCHANGED lastHandle
    <3> HIDE DEF all
    <3>1. /\ GoodStore(Erased(store, all))
          /\ Live(Erased(store, all)) \subseteq Live(store)
      BY <1>1, <2>3, ErasedIsGood
    <3>2. lastHandle' \in 0..MaxHandle
      BY <1>1, <2>4 DEF TypeOK
    <3>3. reply' \in Outcomes \X (0..MaxHandle) \X (0..MaxHandle)
      BY <1>2, <1>3, <2>4 DEF Outcomes
    <3> QED BY <1>4, <2>3, <2>4, <3>1, <3>2, <3>3, CommitKeepsIInv
  <2>5. ASSUME ~\A i \in DOMAIN rows : ~Stops(rows, i)
        PROVE  /\ rows[FirstStop(rows)] \in Handles
               /\ some \in SUBSET Handles
               /\ GoodStore(Erased(store, some))
               /\ LinkedOnDisk(Erased(store, some))
    <3>1. FirstStop(rows) \in 1..n
      BY <2>1, <2>2, <2>5, FirstStopIsFirst
    <3>2. some \in SUBSET Handles /\ some \cap store.keys = {}
      BY <2>1, <2>2, <2>5, FirstStopIsFirst
    <3>3. GoodStore(Erased(store, some)) /\ LinkedOnDisk(Erased(store, some))
      <4> HIDE DEF some
      <4> QED BY <1>1, <3>2, ErasedIsGood DEF LinkedOnDisk
    <3> QED BY <2>1, <3>1, <3>2, <3>3
  <2>6. CASE /\ ~\A i \in DOMAIN rows : ~Stops(rows, i)
             /\ Commit(Erased(store, some))
             /\ lastHandle' = MaxLive(Erased(store, some))
             /\ reply' = <<"refused", rows[FirstStop(rows)], 0>>
    <3>1. reply' \in Outcomes \X (0..MaxHandle) \X (0..MaxHandle)
      BY <1>2, <1>3, <2>5, <2>6 DEF Outcomes
    <3>2. /\ lastHandle' \in 0..MaxHandle
          /\ \A h \in Live(Erased(store, some)) : h <= lastHandle'
      BY <2>6, MaxLiveBounds
    <3> HIDE DEF some
    <3> QED BY <2>3, <2>5, <2>6, <3>1, <3>2, CommitKeepsIInv
  <2>7. CASE /\ ~\A i \in DOMAIN rows : ~Stops(rows, i)
             /\ disk' = Erased(store, some)
             /\ Abort
    BY <2>5, <2>7, AbortKeepsIInv
  <2> QED BY <1>10, <2>4, <2>6, <2>7 DEF DeleteEntities
<1>11. ASSUME Flush PROVE IInv'
  <2>1. Live(Cleared) = {1}
    BY LinksAssumption DEF Live, Cleared, Handles
  <2>2. lastHandle' \in 0..MaxHandle /\ \A h \in Live(Cleared) : h <= lastHandle'
    BY <1>11, <2>1, LinksAssumption DEF Flush
  <2>3. reply' \in Outcomes \X (0..MaxHandle) \X (0..MaxHandle)
    BY <1>2, <1>3, <1>11 DEF Flush, Outcomes
  <2> QED BY <1>11, <2>2, <2>3, ClearedIsGood, CommitKeepsIInv DEF Flush
<1>12. ASSUME Restart PROVE IInv'
  <2>1. GoodStore(store)' /\ GoodStore(disk)'
    BY <1>1, <1>12 DEF Restart
  <2>2. reply' \in Outcomes \X (0..MaxHandle) \X (0..MaxHandle)
    BY <1>2, <1>3, <1>12 DEF Restart, Outcomes
  <2>3. TypeOK'
    BY <1>1, <1>12, <2>2, MaxLiveBounds DEF Restart, TypeOK
  <2>4. MemoryMatchesDisk' /\ NewHandleIsUnused' /\ LinkedOnDisk(disk)'
    BY <1>12, MaxLiveBounds
    DEF Restart, MemoryMatchesDisk, NewHandleIsUnused, LinkedOnDisk, Live
  <2> QED BY <2>1, <2>3, <2>4 DEF IInv
<1>13. CASE UNCHANGED vars
  BY <1>13 DEF vars, IInv, TypeOK, MemoryMatchesDisk, NewHandleIsUnused,
               LinkedOnDisk, Live
<1> QED BY <1>5, <1>6, <1>7, <1>8, <1>9, <1>10, <1>11, <1>12, <1>13 DEF Next

-----------------------------------------------------------------------------
(* Theorems. *)

(* The invariant holds in every reachable state. *)
LEMMA SpecIInv == Spec => []IInv
BY InitIInv, NextIInv, PTL DEF Spec

(* Every reachable state of the tables is well typed. *)
THEOREM TypeCorrect == Spec => []TypeOK
<1>1. IInv => TypeOK
  BY DEF IInv
<1> QED BY <1>1, SpecIInv, PTL

(* _links is kept in both directions and without empty entries. *)
THEOREM LinksAreSymmetric == Spec => []LinksSymmetric
<1>1. IInv => LinksSymmetric
  BY DEF IInv, GoodStore, Symmetric, KeysOfLinks, LinksSymmetric
<1> QED BY <1>1, SpecIInv, PTL

(* Between commands the data file holds what the process holds. *)
THEOREM FileIsUpToDate == Spec => []MemoryMatchesDisk
<1>1. IInv => MemoryMatchesDisk
  BY DEF IInv
<1> QED BY <1>1, SpecIInv, PTL

(* createEntity never reuses the handle of an existing entity. *)
THEOREM HandlesAreFresh == Spec => []NewHandleIsUnused
<1>1. IInv => NewHandleIsUnused
  BY DEF IInv
<1> QED BY <1>1, SpecIInv, PTL

(* A Master is the lowest of its graph, a Slave is not. *)
THEOREM StatusIsRight == Spec => []StatusFollowsGraph
<1>1. IInv => StatusFollowsGraph
  BY DEF IInv, GoodStore, StatusOK, StatusFollowsGraph
<1> QED BY <1>1, SpecIInv, PTL

(* No step but LINK FINAL and FLUSH erases an entity that has links; from   *)
(* the invariant, a rollback and a restart included.                        *)
LinkedSurvive ==
  \A h \in store.keys :
    (h \in Live(store) /\ h \notin Live(store'))
      => reply'[1] \in {"merged", "flushed"}

(* No step but LINK FINAL and FLUSH takes an entity out of a graph. *)
LEMMA StepKeepsLinked == IInv /\ [Next]_vars => LinkedSurvive
<1> SUFFICES ASSUME IInv, [Next]_vars,
                    NEW h \in store.keys, h \in Live(store)
             PROVE  \/ h \in Live(store')
                    \/ reply'[1] \in {"merged", "flushed"}
  BY DEF LinkedSurvive
<1>1. GoodStore(store) /\ GoodStore(disk)
  BY DEF IInv
<1>2. h \in Live(disk)
  BY DEF IInv, LinkedOnDisk
<1>3. Rollback => h \in Live(store')
  BY <1>2 DEF Rollback
<1>4. Abort => h \in Live(store')
  BY DEF Abort
<1>5. ASSUME NEW t \in Types, InsertEntity(t)
      PROVE  h \in Live(store')
  <2> DEFINE s == [store EXCEPT !.type[lastHandle + 1] = IF @ = NoType THEN t ELSE @]
  <2>1. store' = s
    BY <1>5 DEF InsertEntity, Commit
  <2>2. h \in Handles /\ store.type[h] # NoType
    BY DEF Live
  <2>3. s.type[h] # NoType
    BY <1>1, <2>2, LinksAssumption DEF GoodStore, Store
  <2> QED BY <2>1, <2>2, <2>3 DEF Live
<1>6. ASSUME NEW a \in Handles, NEW b \in Handles, LinkEntities(a, b)
      PROVE  h \in Live(store')
  <2>1. CASE LinkReaches(a, b) \subseteq Live(store) /\ Commit(Linked(a, b))
    BY <1>1, <2>1, LinkedIsGood DEF Commit
  <2> QED BY <1>3, <1>4, <1>6, <2>1 DEF LinkEntities
<1>7. ASSUME NEW a \in Handles, NEW b \in Handles, UnlinkEntities(a, b)
      PROVE  h \in Live(store')
  <2>1. CASE /\ AreLinked(a, b)
             /\ UNION GraphsLeft(a, b) \subseteq Live(store)
             /\ Commit(Unlinked(a, b))
    BY <1>1, <2>1, UnlinkedIsGood DEF Commit
  <2> QED BY <1>3, <1>4, <1>7, <2>1 DEF UnlinkEntities
<1>8. ASSUME NEW rows \in Batches, DeleteEntities(rows)
      PROVE  h \in Live(store')
  <2> DEFINE all == Before(rows, Len(rows) + 1)
             some == Before(rows, FirstStop(rows))
  <2>1. PICK n \in Nat : rows \in [1..n -> Handles]
    BY LinksAssumption DEF Batches
  <2>2. CASE /\ \A i \in DOMAIN rows : ~Stops(rows, i)
             /\ Commit(Erased(store, all))
    <3>1. all \in SUBSET Handles /\ h \notin all
      BY <2>1, <2>2 DEF Before, Stops
    <3> HIDE DEF all
    <3> QED BY <1>1, <2>2, <3>1, ErasedIsGood DEF Commit
  <2>3. CASE /\ ~\A i \in DOMAIN rows : ~Stops(rows, i)
             /\ Commit(Erased(store, some))
    <3>1. some \in SUBSET Handles /\ h \notin some
      BY <2>1, <2>3, FirstStopIsFirst
    <3> HIDE DEF some
    <3> QED BY <1>1, <2>3, <3>1, ErasedIsGood DEF Commit
  <2> QED BY <1>4, <1>8, <2>2, <2>3 DEF DeleteEntities
<1>9. InsertFails \/ Restart => h \in Live(store')
  BY <1>2, <1>3 DEF InsertFails, Restart
<1>10. ASSUME NEW a \in Handles, NEW b \in Handles, MergeEntities(a, b)
       PROVE  reply'[1] \in {"merged", "flushed"}
  BY <1>10 DEF MergeEntities
<1>11. CASE UNCHANGED vars
  BY <1>11 DEF vars, Live
<1>12. ASSUME Flush PROVE reply'[1] \in {"merged", "flushed"}
  BY <1>12 DEF Flush
<1> QED BY <1>5, <1>6, <1>7, <1>8, <1>9, <1>10, <1>11, <1>12 DEF Next

(* DELETE takes no entity out of a link graph. *)
THEOREM DeleteSparesLinked == Spec => LinkedIsNotDeleted
<1>1. IInv /\ [Next]_vars => [LinkedSurvive]_vars
  BY StepKeepsLinked
<1>2. Spec => [][LinkedSurvive]_vars
  BY <1>1, SpecIInv, PTL DEF Spec
<1> QED BY <1>2 DEF LinkedIsNotDeleted, LinkedSurvive

-----------------------------------------------------------------------------
(* Histories without LINK FINAL: every entity with links exists and has a   *)
(* status.  StatusOK then says which one.  The file must be so too, for     *)
(* rollbacks and restarts.                                                  *)
KeysHaveStatus(s) == \A h \in s.keys : h \in Live(s) /\ s.status[h] # "None"

Unmerged == KeysHaveStatus(store) /\ KeysHaveStatus(disk)

(* Erasing entities without links spares those that have some. *)
LEMMA ErasedSparesKeys ==
  ASSUME NEW s, GoodStore(s), KeysHaveStatus(s),
         NEW S \in SUBSET Handles, S \cap s.keys = {}
  PROVE  KeysHaveStatus(Erased(s, S))
<1> DEFINE t == Erased(s, S)
<1>1. /\ t.keys = s.keys
      /\ \A h \in Handles : t.status[h] = IF h \in S THEN "None" ELSE s.status[h]
  BY DEF GoodStore, Erased, Store
<1>2. Live(t) = Live(s) \ S
  BY ErasedIsGood
<1>3. s.keys \subseteq Handles
  BY DEF GoodStore, Store
<1> HIDE DEF t
<1>4. KeysHaveStatus(t)
  BY <1>1, <1>2, <1>3 DEF KeysHaveStatus
<1> QED BY <1>4 DEF t

(* LINK gives a status to all it reaches. *)
LEMMA LinkedKeysHaveStatus ==
  ASSUME NEW a \in Handles, NEW b \in Handles, GoodStore(store),
         KeysHaveStatus(store), ~LinkThrows(a, b),
         LinkReaches(a, b) \subseteq Live(store)
  PROVE  KeysHaveStatus(Linked(a, b))
<1> DEFINE t == Linked(a, b)
           M == store.links \cup {<<a, b>>, <<b, a>>}
           G == LinkGraph(M, a)
<1>1. /\ t.keys = store.keys \cup {a, b}
      /\ t.status = Assigned(store.status, G)
      /\ t.links = M
  BY DEF Linked, GoodStore, Store
<1>2. a \in Handles /\ b \in Handles /\ store.keys \subseteq Handles
  BY DEF GoodStore, Store
<1>3. M \in SUBSET (Handles \X Handles)
  BY DEF GoodStore, Store
<1>4. a \in G /\ b \in G
  <2>1. <<a, b>> \in M /\ <<a, b>>[1] = a /\ <<a, b>>[2] = b
    OBVIOUS
  <2> QED BY <1>3, <2>1, GraphHasStart, GraphIsClosed
<1>5. Live(t) = Live(store)
  BY LinkedIsGood
<1>6. {a, b} \subseteq Live(store)
  BY DEF LinkThrows
<1>7. \A h \in Handles : t.status[h] = IF h \notin G THEN store.status[h]
                                   ELSE IF h = Lowest(G) THEN "Master" ELSE "Slave"
  BY <1>1, AssignedStatus
<1> HIDE DEF t, G
<1>8. KeysHaveStatus(t)
  BY <1>1, <1>2, <1>4, <1>5, <1>6, <1>7 DEF KeysHaveStatus
<1> QED BY <1>8 DEF t

(* UNLINK takes the status only of entities that lose their last link. *)
LEMMA UnlinkedKeysHaveStatus ==
  ASSUME NEW a \in Handles, NEW b \in Handles, GoodStore(store),
         KeysHaveStatus(store), AreLinked(a, b),
         UNION GraphsLeft(a, b) \subseteq Live(store)
  PROVE  KeysHaveStatus(Unlinked(a, b))
<1> DEFINE t == Unlinked(a, b)
           A == LinkGraph(Unlink(a, b), a)
           B == LinkGraph(Unlink(a, b), b)
           N == Alone(a, b)
<1>1. /\ t.keys = store.keys \ N
      /\ t.status = [h \in Handles |->
                       IF h \in N THEN "None"
                       ELSE Assigned(Assigned(store.status, A), B)[h]]
  BY DEF Unlinked, GoodStore, Store
<1>2. \A h \in Handles \ N :
        \/ t.status[h] = store.status[h]
        \/ t.status[h] \in {"Master", "Slave"}
  BY <1>1, AssignedStatus
<1>3. Live(t) = Live(store) /\ store.keys \subseteq Handles
  BY UnlinkedIsGood DEF GoodStore, Store
<1> HIDE DEF t, N
<1>4. KeysHaveStatus(t)
  BY <1>1, <1>2, <1>3 DEF KeysHaveStatus
<1> QED BY <1>4 DEF t

(* No command but LINK FINAL leaves a linked entity without status. *)
LEMMA StepKeepsUnmerged ==
  ASSUME Merges = {}
  PROVE  IInv /\ Unmerged /\ [Next]_vars => Unmerged'
<1> SUFFICES ASSUME IInv, Unmerged, [Next]_vars PROVE Unmerged'
  OBVIOUS
<1>1. GoodStore(store) /\ GoodStore(disk)
  BY DEF IInv
<1>2. KeysHaveStatus(store) /\ KeysHaveStatus(disk)
  BY DEF Unmerged
<1>3. ASSUME NEW s, KeysHaveStatus(s), Commit(s) PROVE Unmerged'
  BY <1>3 DEF Commit, Unmerged, KeysHaveStatus, Live
<1>4. Rollback \/ Restart => Unmerged'
  BY <1>2 DEF Rollback, Restart, Unmerged, KeysHaveStatus, Live
<1>5. ASSUME NEW s, KeysHaveStatus(s), disk' = s, Abort PROVE Unmerged'
  BY <1>2, <1>5 DEF Abort, Unmerged, KeysHaveStatus, Live
<1>6. ASSUME NEW t \in Types, InsertEntity(t)
      PROVE  Unmerged'
  <2> DEFINE h == lastHandle + 1
             s == [store EXCEPT !.type[h] = IF @ = NoType THEN t ELSE @]
  <2>1. /\ s.keys = store.keys /\ s.status = store.status
        /\ \A x \in Handles : s.type[x] \in {store.type[x], t}
    BY <1>1 DEF GoodStore, Store
  <2>2. Commit(s)
    BY <1>6 DEF InsertEntity
  <2> HIDE DEF s
  <2>3. KeysHaveStatus(s)
    BY <1>2, <2>1, LinksAssumption DEF KeysHaveStatus, Live
  <2> QED BY <1>3, <2>2, <2>3
<1>7. ASSUME NEW a \in Handles, NEW b \in Handles, LinkEntities(a, b)
      PROVE  Unmerged'
  <2>1. CASE /\ ~LinkThrows(a, b)
             /\ LinkReaches(a, b) \subseteq Live(store)
             /\ Commit(Linked(a, b))
    BY <1>1, <1>2, <1>3, <2>1, LinkedKeysHaveStatus
  <2>2. CASE Abort /\ UNCHANGED disk
    BY <1>2, <1>5, <2>2
  <2> QED BY <1>4, <1>7, <2>1, <2>2 DEF LinkEntities
<1>8. ASSUME NEW a \in Handles, NEW b \in Handles, UnlinkEntities(a, b)
      PROVE  Unmerged'
  <2>1. CASE /\ AreLinked(a, b)
             /\ UNION GraphsLeft(a, b) \subseteq Live(store)
             /\ Commit(Unlinked(a, b))
    BY <1>1, <1>2, <1>3, <2>1, UnlinkedKeysHaveStatus
  <2>2. CASE UNCHANGED <<store, disk, lastHandle, running>>
    BY <1>2, <2>2 DEF Unmerged, KeysHaveStatus, Live
  <2>3. CASE Abort /\ UNCHANGED disk
    BY <1>2, <1>5, <2>3
  <2> QED BY <1>4, <1>8, <2>1, <2>2, <2>3 DEF UnlinkEntities
<1>9. ASSUME NEW rows \in Batches, DeleteEntities(rows)
      PROVE  Unmerged'
  <2> DEFINE all == Before(rows, Len(rows) + 1)
             some == Before(rows, FirstStop(rows))
  <2>1. PICK n \in Nat : rows \in [1..n -> Handles]
    BY LinksAssumption DEF Batches
  <2>2. CASE /\ \A i \in DOMAIN rows : ~Stops(rows, i)
             /\ Commit(Erased(store, all))
    <3>1. all \in SUBSET Handles /\ all \cap store.keys = {}
      BY <2>1, <2>2 DEF Before, Stops
    <3> HIDE DEF all
    <3> QED BY <1>1, <1>2, <1>3, <2>2, <3>1, ErasedSparesKeys
  <2>3. CASE /\ ~\A i \in DOMAIN rows : ~Stops(rows, i)
             /\ \/ Commit(Erased(store, some))
                \/ disk' = Erased(store, some) /\ Abort
    <3>1. some \in SUBSET Handles /\ some \cap store.keys = {}
      BY <2>1, <2>3, FirstStopIsFirst
    <3> HIDE DEF some
    <3>2. KeysHaveStatus(Erased(store, some))
      BY <1>1, <1>2, <3>1, ErasedSparesKeys
    <3> QED BY <1>3, <1>5, <2>3, <3>2
  <2> QED BY <1>9, <2>2, <2>3 DEF DeleteEntities
<1>10. KeysHaveStatus(Cleared)
  BY DEF Cleared, KeysHaveStatus
<1>11. Flush => Unmerged'
  BY <1>3, <1>10 DEF Flush
<1>12. CASE UNCHANGED vars
  BY <1>2, <1>12 DEF vars, Unmerged, KeysHaveStatus, Live
<1> QED BY <1>4, <1>6, <1>7, <1>8, <1>9, <1>11, <1>12
        DEF Next, InsertFails, MergeEntities

(* In such a store a graph with links is all alive and its lowest handle    *)
(* alone is Master.                                                         *)
LEMMA GraphHasItsMaster ==
  ASSUME NEW s, GoodStore(s), KeysHaveStatus(s), NEW h \in s.keys
  PROVE  /\ h \in Handles
         /\ LinkGraph(s.links, h) \subseteq s.keys
         /\ LinkGraph(s.links, h) \subseteq Live(s)
         /\ s.status[h] = IF h = Lowest(LinkGraph(s.links, h))
                          THEN "Master" ELSE "Slave"
<1>1. h \in Handles /\ s.links \in SUBSET (Handles \X Handles) /\ Symmetric(s.links)
      /\ s.keys = {p[1] : p \in s.links}
  BY DEF GoodStore, Store, KeysOfLinks
<1>2. \A x \in LinkGraph(s.links, h) : x # h => \E p \in s.links : p[1] = x
  BY <1>1, MemberHasLink
<1>3. LinkGraph(s.links, h) \subseteq s.keys
  BY <1>1, <1>2
<1>4. s.status[h] \in Statuses /\ s.status[h] # "None" /\ h \in Live(s)
  BY <1>1 DEF GoodStore, Store, KeysHaveStatus
<1>5. s.status[h] = IF h = Lowest(LinkGraph(s.links, h)) THEN "Master" ELSE "Slave"
  BY <1>4 DEF GoodStore, StatusOK, Statuses
<1> QED BY <1>1, <1>3, <1>5 DEF KeysHaveStatus

(* Without LINK FINAL no reachable store has a linked entity without status. *)
LEMMA SpecUnmerged ==
  ASSUME Merges = {}
  PROVE  Spec => [](IInv /\ Unmerged)
<1>1. Init => Unmerged
  BY DEF Init, Cleared, Unmerged, KeysHaveStatus
<1>2. IInv /\ Unmerged /\ [Next]_vars => Unmerged'
  BY StepKeepsUnmerged
<1> QED BY <1>1, <1>2, SpecIInv, PTL DEF Spec

(* Without LINK FINAL the lowest handle of each graph is its Master and all *)
(* the others are its Slaves.                                               *)
THEOREM MasterIsLowest ==
  ASSUME Merges = {}
  PROVE  Spec => []LowestIsMaster
<1>1. IInv /\ Unmerged => LowestIsMaster
  <2> SUFFICES ASSUME IInv, Unmerged, NEW h \in Live(store) \cap store.keys
               PROVE  LET graph == LinkGraph(store.links, h) \cap Live(store)
                      IN  store.status[h] = IF h = Lowest(graph)
                                            THEN "Master" ELSE "Slave"
    BY DEF LowestIsMaster
  <2>1. /\ LinkGraph(store.links, h) \subseteq Live(store)
        /\ store.status[h] = IF h = Lowest(LinkGraph(store.links, h))
                             THEN "Master" ELSE "Slave"
    BY GraphHasItsMaster DEF IInv, Unmerged
  <2>2. LinkGraph(store.links, h) \cap Live(store) = LinkGraph(store.links, h)
    BY <2>1
  <2> QED BY <2>1, <2>2
<1> QED BY <1>1, SpecUnmerged, PTL

(* In such a store a condition on the value of an entity has one answer:    *)
(* the entity itself if it is in no graph, else the Master of its graph.    *)
LEMMA OneAnswer ==
  ASSUME NEW s, GoodStore(s), KeysHaveStatus(s), NEW e \in Live(s)
  PROVE  \E m : meetsCondition(s, e) = {m}
<1>1. /\ e \in Handles /\ s.links \in SUBSET (Handles \X Handles)
      /\ Symmetric(s.links) /\ s.keys = {p[1] : p \in s.links}
  BY DEF Live, GoodStore, Store, KeysOfLinks
<1>2. \A x \in Live(s) : s.status[x] = "Master"
                         => x \in s.keys /\ x = Lowest(LinkGraph(s.links, x))
  BY DEF GoodStore, StatusOK
<1>3. CASE e \notin s.keys
  <2>1. s.status[e] = "None"
    BY <1>1, <1>3 DEF GoodStore, Store, Statuses, StatusOK
  <2>2. ASSUME NEW x \in Live(s), s.status[x] = "Master", e \in LinkGraph(s.links, x)
        PROVE  FALSE
    BY <1>1, <1>2, <1>3, <2>2, GraphHasItsMaster
  <2>3. meetsCondition(s, e) = {e}
    BY <2>1, <2>2 DEF meetsCondition
  <2> QED BY <2>3
<1>4. CASE e \in s.keys
  <2> DEFINE G == LinkGraph(s.links, e)
             m == Lowest(G)
  <2>1. G \in SUBSET Handles /\ e \in G
    BY <1>1, GraphHasStart
  <2>2. m \in G
    <3> HIDE DEF G
    <3> QED BY <2>1, LowestIsLowest
  <2>3. LinkGraph(s.links, m) = G /\ m \in s.keys /\ m \in Live(s)
    BY <1>1, <1>4, <2>2, GraphIsSymmetric, GraphHasItsMaster
  <2>4. s.status[m] = "Master"
    BY <2>3, GraphHasItsMaster
  <2>5. s.status[e] # "None"
    BY <1>4 DEF KeysHaveStatus
  <2>6. ASSUME NEW x \in Live(s), s.status[x] = "Master", e \in LinkGraph(s.links, x)
        PROVE  x = m
    <3>1. x \in Handles
      BY DEF Live
    <3>2. LinkGraph(s.links, x) = G
      BY <1>1, <2>6, <3>1, GraphIsSymmetric
    <3> QED BY <1>2, <2>6, <3>2
  <2> HIDE DEF G, m
  <2>7. e \in LinkGraph(s.links, m)
    BY <2>1, <2>3
  <2>8. \A x : x \in meetsCondition(s, e) <=> x = m
    BY <2>3, <2>4, <2>5, <2>6, <2>7 DEF meetsCondition
  <2> QED BY <2>8
<1> QED BY <1>3, <1>4

(* Without LINK FINAL each value is found under exactly one entity, and no  *)
(* query stops at a handle that is gone.                                    *)
THEOREM OneEntityAnswers ==
  ASSUME Merges = {}
  PROVE  Spec => []SelectsAnswer
<1>1. IInv /\ Unmerged => SelectsAnswer
  <2> SUFFICES ASSUME IInv, Unmerged PROVE SelectsAnswer
    OBVIOUS
  <2>1. GoodStore(store) /\ KeysHaveStatus(store)
    BY DEF IInv, Unmerged
  <2>2. \A h \in Live(store) : store.status[h] = "Master" => h \in store.keys
    BY <2>1 DEF GoodStore, StatusOK
  <2>3. ~QueryThrows(store)
    BY <2>1, <2>2, GraphHasItsMaster DEF QueryThrows
  <2>4. ASSUME NEW e \in Live(store)
        PROVE  Cardinality(meetsCondition(store, e)) = 1
    <3>1. PICK m : meetsCondition(store, e) = {m}
      BY <2>1, OneAnswer
    <3>2. Cardinality({m}) = 1
      BY FS_Singleton
    <3> QED BY <3>1, <3>2
  <2> QED BY <2>3, <2>4 DEF SelectsAnswer
<1> QED BY <1>1, SpecUnmerged, PTL
================================================================================
