------------------------------ MODULE EntityLinks ------------------------------
(***************************************************************************)
(* The entity table and the link table of EntityManager                    *)
(* (src/model/entity_manager.cc), with the copy of both that every command *)
(* leaves in the data file.  LINK joins two entities: the lowest handle of *)
(* the resulting graph becomes its Master and answers queries for the      *)
(* whole graph, the others become Slaves and answer none.  UNLINK undoes   *)
(* it; LINK FINAL merges two entities and erases the higher handle; DELETE *)
(* refuses an entity that has links.  A command that throws is undone by   *)
(* reading the data file back.                                             *)
(*                                                                         *)
(* Commands run one at a time here: each holds the writer lock of job.cc   *)
(* from start to end.  Entities' properties are abstracted away, and       *)
(* saveToFile is one step (a torn write is not modelled in this module).   *)
(***************************************************************************)
EXTENDS Naturals, FiniteSets, Sequences

CONSTANTS
  MaxHandle,   \* bound on the handles createEntity gives out
  Types,       \* names of entity types
  SourceType,  \* the type "source" of the entity clearAll creates
  NoType,      \* the type of a handle that is not in _entities
  Merges,      \* the pairs of handles that clients name in LINK FINAL
  MaxBatch     \* bound on the rows one DELETE matches

ASSUME LinksAssumption ==
  /\ MaxHandle \in Nat \ {0}
  /\ SourceType \in Types
  /\ NoType \notin Types
  /\ Merges \subseteq (1..MaxHandle) \X (1..MaxHandle)
  /\ MaxBatch \in Nat

VARIABLES
  store,       \* what the process holds: types, locks, status, links, keys
  disk,        \* the last store written to the data file
  lastHandle,  \* _lastHandle
  running,     \* FALSE once the process has died, until it is started again
  reply        \* <<outcome, handle, handle>> of the last command

vars == <<store, disk, lastHandle, running, reply>>

Handles == 1..MaxHandle
Statuses == {"None", "Master", "Slave"}
Outcomes == {"none", "inserted", "linked", "unlinked", "merged", "deleted",
             "refused", "aborted", "flushed", "failed"}

(* _entities (type and status by handle, and the handles of the entities    *)
(* that are _locked) and _links, as its set of pairs and the set of its     *)
(* keys.                                                                    *)
Store == [type   : [Handles -> Types \cup {NoType}],
          locked : SUBSET Handles,
          status : [Handles -> Statuses],
          links  : SUBSET (Handles \X Handles),
          keys   : SUBSET Handles]

Live(s) == {h \in Handles : s.type[h] # NoType}
(* Mutants of MaxLive: insertEntity keeps one too many, or counts entities. *)
MaxLivePlusOne(s) == Cardinality(Live(s)) + 1
MaxLiveByCount(s) == Cardinality(Live(s))

MaxLive(s) == CHOOSE n \in 0..MaxHandle :
                /\ \A h \in Live(s) : h <= n
                /\ n = 0 \/ n \in Live(s)

Lowest(S) == CHOOSE m \in S : \A h \in S : m <= h
HigherOf(a, b) == IF a <= b THEN b ELSE a

(* The depth-first walk over _links: the smallest set that holds start and  *)
(* every handle a link leads to from it.                                    *)
LinkGraph(links, start) ==
  {h \in Handles :
     \A S \in SUBSET Handles :
       (start \in S /\ \A p \in links : p[1] \in S => p[2] \in S) => h \in S}

(* Mutant of Assigned: members that were Master before stay Master. *)
AssignedKeepingMasters(status, graph) ==
  [h \in Handles |-> IF h \notin graph \/ status[h] = "Master" THEN status[h]
                     ELSE IF h = Lowest(graph) THEN "Master" ELSE "Slave"]

(* Every member of a graph becomes Slave and the lowest one Master. *)
Assigned(status, graph) ==
  [h \in Handles |-> IF h \notin graph THEN status[h]
                     ELSE IF h = Lowest(graph) THEN "Master" ELSE "Slave"]

Erased(s, S) ==
  [s EXCEPT !.type   = [h \in Handles |-> IF h \in S THEN NoType ELSE @[h]],
            !.status = [h \in Handles |-> IF h \in S THEN "None" ELSE @[h]],
            !.locked = @ \ S]

(* The entity of clearAll, the unknown source, is locked.                   *)
Cleared ==
  [type   |-> [h \in Handles |-> IF h = 1 THEN SourceType ELSE NoType],
   locked |-> {1},
   status |-> [h \in Handles |-> "None"],
   links |-> {}, keys |-> {}]

Init ==
  /\ store = Cleared
  /\ disk = Cleared
  /\ lastHandle = 1
  /\ running = TRUE
  /\ reply = <<"none", 0, 0>>

-----------------------------------------------------------------------------
(* How a command ends. *)

(* Mutant of Commit: the file is written before the change is made. *)
CommitSavedFirst(s) == /\ store' = s
                       /\ disk' = store
                       /\ UNCHANGED running

Commit(s) == /\ store' = s
             /\ disk' = s
             /\ UNCHANGED running

Rollback == /\ store' = disk
            /\ lastHandle' = MaxLive(disk)
            /\ UNCHANGED <<disk, running>>

(* A null Entity pointer is dereferenced, or an assertion fails. *)
Abort == /\ running' = FALSE
         /\ reply' = <<"aborted", 0, 0>>
         /\ UNCHANGED <<store, lastHandle>>

-----------------------------------------------------------------------------
(* Commands. *)

(* INSERT ... WHERE { NEW($a, t) }: createEntity; the map insertion does    *)
(* nothing when the handle is taken.                                        *)
InsertEntity(t) ==
  /\ running
  /\ lastHandle < MaxHandle
  /\ lastHandle' = lastHandle + 1
  /\ Commit([store EXCEPT !.type[lastHandle + 1] = IF @ = NoType THEN t ELSE @])
  /\ reply' = <<"inserted", lastHandle + 1, 0>>

(* A triple of the INSERT throws after its entities were created. *)
InsertFails ==
  /\ running
  /\ Rollback
  /\ reply' = <<"failed", 0, 0>>

LinkThrows(a, b) == ~({a, b} \subseteq Live(store))

(* Mutant of Linked: one direction only. *)
LinkedOneWay(a, b) ==
  LET links == store.links \cup {<<a, b>>}
  IN  [store EXCEPT !.links  = links,
                    !.keys   = @ \cup {a, b},
                    !.status = Assigned(@, LinkGraph(links, a))]

Linked(a, b) ==
  LET links == store.links \cup {<<a, b>>, <<b, a>>}
  IN  [store EXCEPT !.links  = links,
                    !.keys   = @ \cup {a, b},
                    !.status = Assigned(@, LinkGraph(links, a))]

LinkReaches(a, b) == LinkGraph(Linked(a, b).links, a)

(* The reply is "linked successfully" whether or not linkEntities threw. *)
LinkEntities(a, b) ==
  /\ running
  /\ \/ /\ ~LinkThrows(a, b)
        /\ LinkReaches(a, b) \subseteq Live(store)
        /\ Commit(Linked(a, b))
        /\ reply' = <<"linked", a, b>>
        /\ UNCHANGED lastHandle
     \/ /\ LinkThrows(a, b)
        /\ Rollback
        /\ reply' = <<"linked", a, b>>
     \/ /\ ~LinkThrows(a, b)
        /\ ~(LinkReaches(a, b) \subseteq Live(store))
        /\ Abort
        /\ UNCHANGED disk

Unlink(a, b) == store.links \ {<<a, b>>, <<b, a>>}

(* The two graphs the removed link leaves; the one of a single entity loses *)
(* its key and its status.                                                  *)
GraphsLeft(a, b) == {LinkGraph(Unlink(a, b), a), LinkGraph(Unlink(a, b), b)}
Alone(a, b) == UNION {g \in GraphsLeft(a, b) : Cardinality(g) = 1}

(* Mutants of Unlinked: the second graph is not assigned again, or an       *)
(* entity left alone keeps its status.                                      *)
UnlinkedFirstOnly(a, b) ==
  [store EXCEPT
     !.links  = {p \in Unlink(a, b) : p[1] \notin Alone(a, b)},
     !.keys   = @ \ Alone(a, b),
     !.status = [h \in Handles |->
                   IF h \in Alone(a, b) THEN "None"
                   ELSE Assigned(store.status, LinkGraph(Unlink(a, b), a))[h]]]
UnlinkedKeepingStatus(a, b) ==
  [store EXCEPT
     !.links  = {p \in Unlink(a, b) : p[1] \notin Alone(a, b)},
     !.keys   = @ \ Alone(a, b)]

Unlinked(a, b) ==
  [store EXCEPT
     !.links  = {p \in Unlink(a, b) : p[1] \notin Alone(a, b)},
     !.keys   = @ \ Alone(a, b),
     !.status = [h \in Handles |->
                   IF h \in Alone(a, b) THEN "None"
                   ELSE Assigned(Assigned(store.status,
                                          LinkGraph(Unlink(a, b), a)),
                                 LinkGraph(Unlink(a, b), b))[h]]]

AreLinked(a, b) == {<<a, b>>, <<b, a>>} \subseteq store.links

UnlinkEntities(a, b) ==
  /\ running
  /\ \/ /\ {a, b} \subseteq Live(store)
        /\ AreLinked(a, b)
        /\ UNION GraphsLeft(a, b) \subseteq Live(store)
        /\ Commit(Unlinked(a, b))
        /\ reply' = <<"unlinked", 0, 0>>
        /\ UNCHANGED lastHandle
     \/ /\ {a, b} \subseteq Live(store)
        /\ ~AreLinked(a, b)
        /\ reply' = <<"unlinked", 0, 0>>
        /\ UNCHANGED <<store, disk, lastHandle, running>>
     \/ /\ ~({a, b} \subseteq Live(store))
        /\ Rollback
        /\ reply' = <<"unlinked", 0, 0>>
     \/ /\ {a, b} \subseteq Live(store)
        /\ AreLinked(a, b)
        /\ ~(UNION GraphsLeft(a, b) \subseteq Live(store))
        /\ Abort
        /\ UNCHANGED disk

MergeThrows(a, b) ==
  \/ ~({a, b} \subseteq Live(store))
  \/ store.type[a] # store.type[b]
  \/ Lowest({a, b}) \in store.locked

(* LINK FINAL.  The lower handle takes over the properties (every entity    *)
(* has one, its type, so a locked one always refuses), _links is left as it *)
(* is.  Copying a property throws too when its value is not certain or of   *)
(* another type: properties are not modelled, so it may always throw.       *)
MergeEntities(a, b) ==
  /\ running
  /\ <<a, b>> \in Merges
  /\ reply' = <<"merged", a, b>>
  /\ \/ /\ ~MergeThrows(a, b)
        /\ Commit(Erased(store, {HigherOf(a, b)}))
        /\ UNCHANGED lastHandle
     \/ Rollback

(* The first row DELETE stops at: an entity an earlier row has erased fails *)
(* an assertion, one with links throws.                                     *)
Before(rows, i) == {rows[j] : j \in 1..(i - 1)}
(* Mutant of Stops: the links of an entity are not looked up. *)
StopsIgnoringLinks(rows, i) == rows[i] \in Before(rows, i)

Stops(rows, i) == rows[i] \in Before(rows, i) \cup store.keys
FirstStop(rows) == CHOOSE i \in DOMAIN rows :
                     /\ Stops(rows, i)
                     /\ \A j \in 1..(i - 1) : ~Stops(rows, j)

(* DELETE $a WHERE ..., with the entities bound to $a in the order of the   *)
(* rows.  The nested Delete of each row (it matches nothing, "entity:7" is  *)
(* no number) saves what earlier rows erased, so the file a refusal reads   *)
(* back is already missing those.                                           *)
DeleteEntities(rows) ==
  LET ok == \A i \in DOMAIN rows : ~Stops(rows, i)
      gone == IF ok THEN Before(rows, Len(rows) + 1)
              ELSE Before(rows, FirstStop(rows))
  IN  /\ running
      /\ Before(rows, Len(rows) + 1) \subseteq Live(store)
      /\ \/ /\ ok
            /\ Commit(Erased(store, gone))
            /\ reply' = <<"deleted", 0, 0>>
            /\ UNCHANGED lastHandle
         \/ /\ ~ok
            /\ rows[FirstStop(rows)] \notin gone
            /\ Commit(Erased(store, gone))
            /\ lastHandle' = MaxLive(Erased(store, gone))
            /\ reply' = <<"refused", rows[FirstStop(rows)], 0>>
         \/ /\ ~ok
            /\ rows[FirstStop(rows)] \in gone
            /\ disk' = Erased(store, gone)
            /\ Abort

Flush ==
  /\ running
  /\ Commit(Cleared)
  /\ lastHandle' = 1
  /\ reply' = <<"flushed", 0, 0>>

(* The server is stopped, or was dead, and is started on its data file. *)
Restart ==
  /\ store' = disk
  /\ lastHandle' = MaxLive(disk)
  /\ running' = TRUE
  /\ reply' = <<"none", 0, 0>>
  /\ UNCHANGED disk

(* Queries return rows in handle order. *)
Batches ==
  {rows \in UNION {[1..n -> Handles] : n \in 1..MaxBatch} :
     \A i, j \in DOMAIN rows : i < j => rows[i] <= rows[j]}

Next ==
  \/ \E t \in Types : InsertEntity(t)
  \/ InsertFails
  \/ \E a, b \in Handles :
       LinkEntities(a, b) \/ UnlinkEntities(a, b) \/ MergeEntities(a, b)
  \/ \E rows \in Batches : DeleteEntities(rows)
  \/ Flush
  \/ Restart

Spec == Init /\ [][Next]_vars

-----------------------------------------------------------------------------
(* Which entities a condition on a value held by e returns: e itself while  *)
(* it is in no graph, else the Masters whose graph holds e.                 *)
meetsCondition(s, e) ==
  {x \in Live(s) : \/ s.status[x] = "None" /\ x = e
                   \/ s.status[x] = "Master" /\ e \in LinkGraph(s.links, x)}

(* Evaluating a condition asks every Master's whole graph, by handle. *)
QueryThrows(s) ==
  \E m \in Live(s) : /\ s.status[m] = "Master"
                     /\ ~(LinkGraph(s.links, m) \subseteq Live(s))

TypeOK ==
  /\ store \in Store
  /\ disk \in Store
  /\ lastHandle \in 0..MaxHandle
  /\ running \in BOOLEAN
  /\ reply \in Outcomes \X (0..MaxHandle) \X (0..MaxHandle)

(* _links is kept in both directions and holds no empty set, so the walk of *)
(* getLinkGraph finds an entry for every handle it reaches and an UNLINK    *)
(* may name its two entities in either order.                               *)
LinksSymmetric ==
  /\ \A p \in store.links : <<p[2], p[1]>> \in store.links
  /\ store.keys = {p[1] : p \in store.links}

(* Between two commands the data file holds what the process holds, so a    *)
(* restart loses nothing that was answered: no handler returns between a    *)
(* change and its save.                                                     *)
MemoryMatchesDisk == running => store = disk

(* createEntity never gives out the handle of an existing entity, whatever  *)
(* rollbacks, merges and restarts have done to _lastHandle.                 *)
NewHandleIsUnused == running => \A h \in Live(store) : h <= lastHandle

(* Each member of a link graph is Slave unless it is the lowest handle of   *)
(* the whole graph, whatever links and unlinks built the graph; an entity   *)
(* of another status has no say in it.                                      *)
StatusFollowsGraph ==
  \A h \in Live(store) :
    LET graph == LinkGraph(store.links, h)
    IN  /\ store.status[h] = "Master" => h \in store.keys /\ h = Lowest(graph)
        /\ store.status[h] = "Slave" => h \in store.keys /\ h # Lowest(graph)

(* DELETE never takes an entity out of a link graph, be it in a batch or in *)
(* the first part of a batch that is then refused: only LINK FINAL and      *)
(* FLUSH do.                                                                *)
LinkedIsNotDeleted ==
  [][\A h \in store.keys :
       (h \in Live(store) /\ h \notin Live(store'))
         => reply'[1] \in {"merged", "flushed"}]_vars

(* Histories without LINK FINAL keep the documented meaning of a graph: the *)
(* lowest handle is its Master, all others its Slaves, all of them exist.   *)
LowestIsMaster ==
  \A h \in Live(store) \cap store.keys :
    LET graph == LinkGraph(store.links, h) \cap Live(store)
    IN  store.status[h] = IF h = Lowest(graph) THEN "Master" ELSE "Slave"

(* A SELECT on the value of any entity returns exactly one entity and does  *)
(* not fail on a handle that is gone.                                       *)
SelectsAnswer ==
  /\ ~QueryThrows(store)
  /\ \A e \in Live(store) : Cardinality(meetsCondition(store, e)) = 1
================================================================================
