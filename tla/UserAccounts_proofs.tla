-------------------------- MODULE UserAccounts_proofs --------------------------
(***************************************************************************)
(* Proofs about UserAccounts: types, the uniqueness of user ids, whole     *)
(* sessions, who may change an account, and, for clients that wait for     *)
(* their replies, that a job runs with the permission it was checked for.  *)
(***************************************************************************)
EXTENDS UserAccounts, SequenceTheorems, TLAPS

(* Every job was permitted to the group its session held when it was        *)
(* checked.                                                                 *)
JobsWereChecked ==
  \A w \in Workers :
    jobs[w] # NoJob => jobs[w].command \in Permitted(jobs[w].group)

IInv == TypeOK /\ IdsAreUnique /\ SessionIsWhole /\ JobsWereChecked

-----------------------------------------------------------------------------
(* The id generator. *)

Generator == [count : 2..(MaxId + 1), pool : Seq(1..MaxId)]

(* No id of the pool is still to be given out, and none is there twice. *)
PoolIsSound(gen) ==
  \A i \in DOMAIN gen.pool :
    /\ gen.pool[i] < gen.count
    /\ \A j \in DOMAIN gen.pool : gen.pool[i] = gen.pool[j] => i = j

(* getId returns an id below the next count that leaves the pool. *)
LEMMA TakenIsSound ==
  ASSUME NEW gen \in Generator, PoolIsSound(gen), getId(gen) <= MaxId
  PROVE  /\ Taken(gen) \in Generator
         /\ getId(gen) \in 1..MaxId
         /\ getId(gen) < Taken(gen).count
         /\ gen.count <= Taken(gen).count
         /\ PoolIsSound(Taken(gen))
         /\ \A i \in DOMAIN Taken(gen).pool :
              /\ Taken(gen).pool[i] # getId(gen)
              /\ \E j \in DOMAIN gen.pool : Taken(gen).pool[i] = gen.pool[j]
         /\ \/ \E j \in DOMAIN gen.pool : getId(gen) = gen.pool[j]
            \/ getId(gen) = gen.count
<1>1. CASE gen.pool = <<>>
  <2>1. Taken(gen) = [gen EXCEPT !.count = @ + 1] /\ getId(gen) = gen.count
    BY <1>1 DEF Taken, getId
  <2> QED BY <1>1, <2>1, AccountsAssumption DEF Generator, PoolIsSound
<1>2. CASE gen.pool # <<>>
  <2> DEFINE p == gen.pool
  <2>1. Taken(gen) = [gen EXCEPT !.pool = Tail(p)] /\ getId(gen) = Head(p)
    BY <1>2 DEF Taken, getId
  <2>2. p \in Seq(1..MaxId) /\ Len(p) \in Nat \ {0} /\ DOMAIN p = 1..Len(p)
    BY <1>2 DEF Generator
  <2>3. /\ Head(p) = p[1]
        /\ Tail(p) \in Seq(1..MaxId)
        /\ DOMAIN Tail(p) = 1..(Len(p) - 1)
        /\ \A i \in 1..(Len(p) - 1) : Tail(p)[i] = p[i + 1]
    <3> HIDE DEF p
    <3>1. p # <<>>
      BY <1>2 DEF p
    <3>2. /\ Tail(p) \in Seq(1..MaxId)
          /\ Len(Tail(p)) = Len(p) - 1
          /\ \A i \in 1..Len(Tail(p)) : Tail(p)[i] = p[i + 1]
      BY <2>2, <3>1, HeadTailProperties DEF p
    <3>3. DOMAIN Tail(p) = 1..Len(Tail(p))
      BY <3>2, LenProperties
    <3>4. Head(p) = p[1]
      BY <2>2
    <3> QED BY <3>2, <3>3, <3>4
  <2>4. p[1] \in 1..MaxId /\ p[1] < gen.count /\ 1 \in DOMAIN p
    <3>1. 1 \in 1..Len(p)
      BY <2>2
    <3>2. p[1] \in 1..MaxId
      BY <2>2, <3>1, ElementOfSeq
    <3> QED BY <2>2, <3>1, <3>2 DEF PoolIsSound
  <2>5. \A i \in 1..(Len(p) - 1) : i + 1 \in DOMAIN p /\ p[i + 1] # p[1]
    BY <2>2, <2>4 DEF PoolIsSound
  <2>6. PoolIsSound(Taken(gen))
    <3>1. Taken(gen).pool = Tail(p) /\ Taken(gen).count = gen.count
      BY <2>1 DEF Generator
    <3> SUFFICES ASSUME NEW i \in 1..(Len(p) - 1), NEW j \in 1..(Len(p) - 1)
                 PROVE  /\ Tail(p)[i] < gen.count
                        /\ Tail(p)[i] = Tail(p)[j] => i = j
      BY <2>3, <3>1 DEF PoolIsSound
    <3>2. Tail(p)[i] = p[i + 1] /\ Tail(p)[j] = p[j + 1]
      BY <2>3
    <3> QED BY <2>2, <2>5, <3>2 DEF PoolIsSound
  <2>7. Taken(gen) \in Generator /\ Taken(gen).count = gen.count
    BY <2>1, <2>3 DEF Generator
  <2>8. \A i \in 1..(Len(p) - 1) :
           Tail(p)[i] # p[1] /\ \E j \in DOMAIN p : Tail(p)[i] = p[j]
    BY <2>3, <2>5
  <2>9. Taken(gen).pool = Tail(p) /\ gen.count \in Nat
    BY <2>1 DEF Generator
  <2> HIDE DEF p
  <2>10. p = gen.pool
    BY DEF p
  <2> QED BY <2>1, <2>3, <2>4, <2>6, <2>7, <2>8, <2>9, <2>10
<1> QED BY <1>1, <1>2

(* addDeleted keeps the pool sound if the id is not in it. *)
LEMMA ReleasedIsSound ==
  ASSUME NEW gen \in Generator, PoolIsSound(gen), NEW id \in 1..MaxId,
         id < gen.count, \A i \in DOMAIN gen.pool : gen.pool[i] # id
  PROVE  LET new == [gen EXCEPT !.pool = <<id>> \o @]
         IN  /\ new \in Generator
             /\ PoolIsSound(new)
             /\ new.count = gen.count
             /\ \A i \in DOMAIN new.pool :
                  \/ new.pool[i] = id
                  \/ \E j \in DOMAIN gen.pool : new.pool[i] = gen.pool[j]
<1> DEFINE p == gen.pool
           q == <<id>> \o p
           new == [gen EXCEPT !.pool = q]
<1>1. p \in Seq(1..MaxId) /\ Len(p) \in Nat /\ DOMAIN p = 1..Len(p)
  BY DEF Generator
<1>2. /\ q \in Seq(1..MaxId)
      /\ DOMAIN q = 1..(Len(p) + 1)
      /\ q[1] = id
      /\ \A i \in 2..(Len(p) + 1) : q[i] = p[i - 1]
  BY <1>1
<1>3. new.pool = q /\ new.count = gen.count /\ new \in Generator
  BY <1>2 DEF Generator
<1>4. \A i \in 2..(Len(p) + 1) : i - 1 \in DOMAIN p
  BY <1>1
<1>5. PoolIsSound(new)
  <2> SUFFICES ASSUME NEW i \in 1..(Len(p) + 1), NEW j \in 1..(Len(p) + 1)
               PROVE  /\ q[i] < gen.count
                      /\ q[i] = q[j] => i = j
    BY <1>2, <1>3 DEF PoolIsSound
  <2>1. CASE i = 1 /\ j = 1
    BY <2>1, <1>2
  <2>2. CASE i = 1 /\ j # 1
    <3>1. j \in 2..(Len(p) + 1)
      BY <2>2, <1>1
    <3> QED BY <2>2, <3>1, <1>2, <1>4
  <2>3. CASE i # 1 /\ j = 1
    <3>1. i \in 2..(Len(p) + 1)
      BY <2>3, <1>1
    <3> QED BY <2>3, <3>1, <1>2, <1>4 DEF PoolIsSound
  <2>4. CASE i # 1 /\ j # 1
    <3>1. i \in 2..(Len(p) + 1) /\ j \in 2..(Len(p) + 1)
      BY <2>4, <1>1
    <3>2. q[i] = p[i - 1] /\ q[j] = p[j - 1]
      BY <3>1, <1>2
    <3>3. i - 1 \in DOMAIN p /\ j - 1 \in DOMAIN p
      BY <3>1, <1>4
    <3>4. /\ p[i - 1] < gen.count
          /\ p[i - 1] = p[j - 1] => i - 1 = j - 1
      BY <3>3 DEF PoolIsSound
    <3> HIDE DEF q, p
    <3> QED BY <3>1, <3>2, <3>4
  <2> QED BY <2>1, <2>2, <2>3, <2>4
<1>6. \A i \in 1..(Len(p) + 1) :
        q[i] = id \/ \E j \in DOMAIN p : q[i] = p[j]
  <2> SUFFICES ASSUME NEW i \in 1..(Len(p) + 1), i # 1
               PROVE  \E j \in DOMAIN p : q[i] = p[j]
    BY <1>2
  <2>1. i \in 2..(Len(p) + 1)
    BY <1>1
  <2> QED BY <2>1, <1>2, <1>4
<1> QED BY <1>2, <1>3, <1>5, <1>6

-----------------------------------------------------------------------------
(* The invariant. *)

(* IdsAreUnique for given accounts and a given generator. *)
Unique(u, gen) ==
  LET known == {n \in Names : u[n] # NoAccount}
  IN  /\ PoolIsSound(gen)
      /\ \A m, n \in known : u[m].id = u[n].id => m = n
      /\ \A n \in known :
           /\ u[n].id < gen.count
           /\ \A i \in DOMAIN gen.pool : u[n].id # gen.pool[i]

(* IdsAreUnique is Unique of the state. *)
LEMMA IdsAreUniqueEquals == IdsAreUnique <=> Unique(users, idGen)
BY DEF IdsAreUnique, Unique, PoolIsSound, Known

(* Unique depends on the ids of the accounts alone. *)
LEMMA SameIdsStayUnique ==
  ASSUME NEW u, NEW v, NEW gen, Unique(u, gen),
         \A n \in Names : v[n] # NoAccount => u[n] # NoAccount /\ v[n].id = u[n].id
  PROVE  Unique(v, gen)
BY DEF Unique

(* The initial states satisfy the invariant. *)
LEMMA InitIInv == Init => IInv
<1> SUFFICES ASSUME Init PROVE IInv
  OBVIOUS
<1> USE AccountsAssumption
<1>1. AdminOnly \in [Names -> Account \cup {NoAccount}]
  BY DEF AdminOnly, Account
<1>2. FirstId \in Generator /\ FirstId.pool = <<>>
  BY DEF FirstId, Generator
<1>3. TypeOK
  BY <1>1, <1>2 DEF Init, TypeOK, Generator, AllGuests, AllIdle, Guest, Groups
<1>4. Unique(AdminOnly, FirstId)
  BY DEF Unique, AdminOnly, FirstId, PoolIsSound, Account
<1>5. SessionIsWhole /\ JobsWereChecked
  BY DEF Init, SessionIsWhole, JobsWereChecked, AllGuests, AllIdle
<1> QED BY <1>3, <1>4, <1>5, IdsAreUniqueEquals DEF IInv, Init

(* A worker that runs its job keeps the type of jobs and what was checked. *)
LEMMA RunsKeepsJobs ==
  ASSUME IInv, NEW w \in Workers, NEW command, Runs(w, command)
  PROVE  /\ jobs' \in [Workers -> Job \cup {NoJob}]
         /\ JobsWereChecked'
         /\ jobs[w] \in Job
         /\ jobs[w].session \in Sessions
         /\ command \in Commands
BY DEF IInv, TypeOK, Runs, JobsWereChecked, Job

(* A job that changes no account and no id keeps the invariant if the       *)
(* sessions and the record are well typed and the sessions whole.           *)
LEMMA AccountsUnchanged ==
  ASSUME IInv, UNCHANGED <<users, idGen>>
  PROVE  /\ users' \in [Names -> Account \cup {NoAccount}]
         /\ idGen' \in Generator
         /\ IdsAreUnique'
BY DEF IInv, TypeOK, Generator, IdsAreUnique, Known

(* A job that writes no session keeps them whole. *)
LEMMA SessionsUnchanged == ASSUME IInv, UNCHANGED sessions PROVE SessionIsWhole'
BY DEF IInv, SessionIsWhole

(* CheckPermission keeps the invariant. *)
LEMMA CheckKeepsIInv ==
  ASSUME IInv, NEW w \in Workers, NEW s \in Sessions, NEW command \in Commands,
         CheckPermission(w, s, command)
  PROVE  IInv'
<1>1. UNCHANGED <<users, idGen, sessions, record>>
  BY DEF CheckPermission
<1>2. [session |-> s, command |-> command, group |-> sessions[s].group] \in Job
  BY DEF IInv, TypeOK, Job
<1>3. jobs' \in [Workers -> Job \cup {NoJob}]
  BY <1>2 DEF CheckPermission, IInv, TypeOK
<1>4. JobsWereChecked'
  <2> SUFFICES ASSUME NEW v \in Workers, jobs'[v] # NoJob
               PROVE  jobs'[v].command \in Permitted(jobs'[v].group)
    BY DEF JobsWereChecked, Permitted
  <2>1. CASE v = w
    BY <2>1 DEF CheckPermission, IInv, TypeOK
  <2>2. CASE v # w
    BY <2>2 DEF CheckPermission, IInv, TypeOK, JobsWereChecked
  <2> QED BY <2>1, <2>2
<1>5. TypeOK'
  BY <1>1, <1>3 DEF IInv, TypeOK
<1> QED BY <1>1, <1>4, <1>5, AccountsUnchanged, SessionsUnchanged DEF IInv

(* LOGIN keeps the invariant. *)
LEMMA LoginKeepsIInv ==
  ASSUME IInv, NEW w \in Workers, NEW n \in Names, NEW p \in Passwords,
         login(w, n, p)
  PROVE  IInv'
<1> DEFINE s == jobs[w].session
<1>1. Runs(w, <<"login", n, p>>) /\ UNCHANGED <<users, idGen, record>>
  BY DEF login
<1>2. s \in Sessions /\ JobsWereChecked' /\ jobs' \in [Workers -> Job \cup {NoJob}]
  BY <1>1, RunsKeepsJobs
<1>3. CASE n \in Known /\ users[n].password = p
  <2> DEFINE user == [name |-> n, id |-> users[n].id, group |-> users[n].group]
  <2>1. sessions' = [sessions EXCEPT ![s] = user]
    BY <1>3 DEF login
  <2>2. users[n] \in Account
    BY <1>3 DEF IInv, TypeOK, Known
  <2>3. /\ user \in [name : Names \cup {NoName}, id : 0..MaxId, group : Groups]
        /\ user.id # 0 /\ user.group # "GUEST" /\ user.name \in Names
    BY <2>2, AccountsAssumption DEF Account, Groups
  <2>4. SessionIsWhole'
    BY <2>1, <2>3, <1>2 DEF SessionIsWhole, IInv, TypeOK
  <2>5. TypeOK'
    BY <2>1, <2>3, <1>1, <1>2 DEF IInv, TypeOK
  <2> QED BY <2>4, <2>5, <1>1, <1>2, AccountsUnchanged DEF IInv
<1>4. CASE ~(n \in Known /\ users[n].password = p)
  <2>1. UNCHANGED sessions
    BY <1>4 DEF login
  <2>2. TypeOK'
    BY <2>1, <1>1, <1>2 DEF IInv, TypeOK
  <2> QED BY <2>1, <2>2, <1>1, <1>2, AccountsUnchanged, SessionsUnchanged DEF IInv
<1> QED BY <1>3, <1>4

(* LOGOUT keeps the invariant. *)
LEMMA LogoutKeepsIInv ==
  ASSUME IInv, NEW w \in Workers, logout(w)
  PROVE  IInv'
<1> DEFINE s == jobs[w].session
<1>1. /\ Runs(w, <<"logout">>) /\ UNCHANGED <<users, idGen, record>>
      /\ sessions' = [sessions EXCEPT ![s] = Guest]
  BY DEF logout
<1>2. s \in Sessions /\ JobsWereChecked' /\ jobs' \in [Workers -> Job \cup {NoJob}]
  BY <1>1, RunsKeepsJobs
<1>3. Guest \in [name : Names \cup {NoName}, id : 0..MaxId, group : Groups]
  BY AccountsAssumption DEF Guest, Groups
<1>4. TypeOK'
  BY <1>1, <1>2, <1>3 DEF IInv, TypeOK
<1>5. SessionIsWhole'
  BY <1>1, <1>2 DEF SessionIsWhole, IInv, TypeOK, Guest
<1> QED BY <1>1, <1>2, <1>4, <1>5, AccountsUnchanged DEF IInv

(* USER ADD keeps the invariant: the new id is the id of no account and no  *)
(* longer in the pool.                                                      *)
LEMMA AddKeepsIInv ==
  ASSUME IInv, NEW w \in Workers, NEW n \in Names, NEW p \in Passwords,
         addUser(w, n, p)
  PROVE  IInv'
<1> DEFINE account == [id |-> getId(idGen), group |-> "EDITOR", password |-> p]
<1>1. /\ Runs(w, <<"add", n, p>>) /\ UNCHANGED <<sessions, record>>
      /\ getId(idGen) <= MaxId
      /\ idGen' = Taken(idGen)
      /\ users' = IF n \in Known THEN users ELSE [users EXCEPT ![n] = account]
  BY DEF addUser
<1>2. JobsWereChecked' /\ jobs' \in [Workers -> Job \cup {NoJob}]
  BY <1>1, RunsKeepsJobs
<1>3. Unique(users, idGen) /\ PoolIsSound(idGen) /\ idGen \in Generator
  BY IdsAreUniqueEquals DEF IInv, Unique, TypeOK, Generator
<1>4. /\ Taken(idGen) \in Generator
      /\ getId(idGen) \in 1..MaxId
      /\ getId(idGen) < Taken(idGen).count
      /\ idGen.count <= Taken(idGen).count
      /\ PoolIsSound(Taken(idGen))
      /\ \A i \in DOMAIN Taken(idGen).pool :
           /\ Taken(idGen).pool[i] # getId(idGen)
           /\ \E j \in DOMAIN idGen.pool : Taken(idGen).pool[i] = idGen.pool[j]
      /\ \/ \E j \in DOMAIN idGen.pool : getId(idGen) = idGen.pool[j]
         \/ getId(idGen) = idGen.count
  BY <1>1, <1>3, TakenIsSound
<1>5. account \in Account
  BY <1>4 DEF Account
<1>6. users' \in [Names -> Account \cup {NoAccount}]
  BY <1>1, <1>5 DEF IInv, TypeOK
<1>7. TypeOK'
  BY <1>1, <1>2, <1>4, <1>6 DEF IInv, TypeOK, Generator
<1>8. \A m \in Known : users[m].id \in Nat /\ users[m].id # getId(idGen)
  <2> SUFFICES ASSUME NEW m \in Known
               PROVE  users[m].id \in Nat /\ users[m].id # getId(idGen)
    OBVIOUS
  <2>1. users[m] \in Account
    BY DEF IInv, TypeOK, Known
  <2>2. users[m].id \in Nat
    BY <2>1, AccountsAssumption DEF Account
  <2>3. /\ users[m].id < idGen.count
        /\ \A j \in DOMAIN idGen.pool : users[m].id # idGen.pool[j]
    BY <1>3 DEF Unique, Known
  <2> QED BY <2>2, <2>3, <1>3, <1>4 DEF Generator
<1>9. \A m \in Known : /\ users[m].id < Taken(idGen).count
                       /\ \A i \in DOMAIN Taken(idGen).pool :
                            users[m].id # Taken(idGen).pool[i]
  <2> SUFFICES ASSUME NEW m \in Known
               PROVE  /\ users[m].id < Taken(idGen).count
                      /\ \A i \in DOMAIN Taken(idGen).pool :
                           users[m].id # Taken(idGen).pool[i]
    OBVIOUS
  <2>1. /\ users[m].id < idGen.count
        /\ \A j \in DOMAIN idGen.pool : users[m].id # idGen.pool[j]
    BY <1>3 DEF Unique, Known
  <2>2. idGen.count \in Nat /\ Taken(idGen).count \in Nat
    BY <1>3, <1>4 DEF Generator
  <2> QED BY <2>1, <2>2, <1>4, <1>8
<1>10. Unique(users', Taken(idGen))
  <2>1. CASE n \in Known
    BY <2>1, <1>1, <1>3, <1>4, <1>9 DEF Unique, Known
  <2>2. CASE n \notin Known
    <3>1. /\ users'[n] = account /\ account.id = getId(idGen)
          /\ \A m \in Names \ {n} : users'[m] = users[m]
      BY <2>2, <1>1 DEF IInv, TypeOK
    <3> HIDE DEF account
    <3> DEFINE known == {m \in Names : users'[m] # NoAccount}
    <3>2. \A m \in known : m = n \/ (m \in Known /\ users'[m] = users[m])
      BY <3>1 DEF Known
    <3>3. \A m \in known : /\ users'[m].id < Taken(idGen).count
                           /\ \A i \in DOMAIN Taken(idGen).pool :
                                users'[m].id # Taken(idGen).pool[i]
      BY <3>1, <3>2, <1>4, <1>9
    <3>4. \A l, m \in known : users'[l].id = users'[m].id => l = m
      BY <3>1, <3>2, <1>3, <1>8 DEF Unique, Known
    <3> QED BY <3>3, <3>4, <1>4 DEF Unique
  <2> QED BY <2>1, <2>2
<1>11. IdsAreUnique'
  BY <1>1, <1>10 DEF IdsAreUnique, Unique, PoolIsSound, Known
<1> QED BY <1>1, <1>2, <1>7, <1>11, SessionsUnchanged DEF IInv

(* USER DELETE keeps the invariant: the id goes to the pool as its account  *)
(* goes.                                                                    *)
LEMMA RemoveKeepsIInv ==
  ASSUME IInv, NEW w \in Workers, NEW n \in Names, removeUser(w, n)
  PROVE  IInv'
<1>1. Runs(w, <<"delete", n>>) /\ UNCHANGED <<sessions, record>>
  BY DEF removeUser
<1>2. JobsWereChecked' /\ jobs' \in [Workers -> Job \cup {NoJob}]
  BY <1>1, RunsKeepsJobs
<1>3. CASE n \notin Known
  <2>1. UNCHANGED <<users, idGen>>
    BY <1>3 DEF removeUser
  <2>2. TypeOK'
    BY <2>1, <1>1, <1>2 DEF IInv, TypeOK
  <2> QED BY <2>1, <2>2, <1>1, <1>2, AccountsUnchanged, SessionsUnchanged DEF IInv
<1>4. CASE n \in Known
  <2> DEFINE id == users[n].id
             new == [idGen EXCEPT !.pool = <<id>> \o @]
  <2>1. idGen' = new /\ users' = [users EXCEPT ![n] = NoAccount]
    BY <1>4 DEF removeUser
  <2>2. Unique(users, idGen) /\ PoolIsSound(idGen) /\ idGen \in Generator
    BY IdsAreUniqueEquals DEF IInv, Unique, TypeOK, Generator
  <2>3. id \in 1..MaxId
    BY <1>4 DEF IInv, TypeOK, Known, Account
  <2>4. id < idGen.count /\ \A i \in DOMAIN idGen.pool : idGen.pool[i] # id
    BY <1>4, <2>2 DEF Unique, Known
  <2>5. /\ new \in Generator
        /\ PoolIsSound(new)
        /\ new.count = idGen.count
        /\ \A i \in DOMAIN new.pool :
             \/ new.pool[i] = id
             \/ \E j \in DOMAIN idGen.pool : new.pool[i] = idGen.pool[j]
    <3> HIDE DEF id
    <3> QED BY <2>2, <2>3, <2>4, ReleasedIsSound
  <2>6. TypeOK'
    BY <2>1, <2>5, <1>1, <1>2 DEF IInv, TypeOK, Generator
  <2>7. \A m \in Names : users'[m] # NoAccount =>
           m \in Known /\ users'[m] = users[m] /\ m # n
    BY <2>1 DEF IInv, TypeOK, Known
  <2>8. \A m \in Names : users'[m] # NoAccount => users[m].id # id
    BY <2>7, <1>4, <2>2 DEF Unique, Known
  <2>9. Unique(users', new)
    <3> HIDE DEF new, id
    <3> QED BY <2>2, <2>5, <2>7, <2>8 DEF Unique, Known
  <2>10. IdsAreUnique'
    <3> HIDE DEF new
    <3> QED BY <2>1, <2>9 DEF IdsAreUnique, Unique, PoolIsSound, Known
  <2> QED BY <1>1, <1>2, <2>6, <2>10, SessionsUnchanged DEF IInv
<1> QED BY <1>3, <1>4

(* A job that changes the group or the password of one account keeps the    *)
(* invariant.                                                               *)
LEMMA UpdateKeepsIInv ==
  ASSUME IInv, NEW w \in Workers, NEW command, Runs(w, command),
         UNCHANGED <<idGen, sessions, record>>, NEW n \in Names,
         \/ users' = users
         \/ /\ n \in Known
            /\ \E a \in Account : a.id = users[n].id
                                  /\ users' = [users EXCEPT ![n] = a]
  PROVE  IInv'
<1>1. JobsWereChecked' /\ jobs' \in [Workers -> Job \cup {NoJob}]
  BY RunsKeepsJobs
<1>2. users' \in [Names -> Account \cup {NoAccount}]
  BY DEF IInv, TypeOK
<1>3. \A m \in Names : users'[m] # NoAccount =>
        users[m] # NoAccount /\ users'[m].id = users[m].id
  BY DEF IInv, TypeOK, Known
<1>4. Unique(users, idGen)
  BY IdsAreUniqueEquals DEF IInv
<1>5. Unique(users', idGen)
  BY <1>3, <1>4, SameIdsStayUnique
<1>6. IdsAreUnique'
  BY <1>5 DEF IdsAreUnique, Unique, PoolIsSound, Known
<1>7. TypeOK'
  BY <1>1, <1>2 DEF IInv, TypeOK
<1> QED BY <1>1, <1>6, <1>7, SessionsUnchanged DEF IInv

(* INSERT keeps the invariant. *)
LEMMA InsertKeepsIInv ==
  ASSUME IInv, NEW w \in Workers, insertRecord(w)
  PROVE  IInv'
<1>1. Runs(w, <<"insert">>) /\ UNCHANGED <<users, idGen, sessions>>
  BY DEF insertRecord
<1>2. /\ jobs[w].session \in Sessions
      /\ JobsWereChecked' /\ jobs' \in [Workers -> Job \cup {NoJob}]
  BY <1>1, RunsKeepsJobs
<1>3. record' \in [author : 0..MaxId, by : Names \cup {NoName}] \cup {NoRecord}
  BY <1>2 DEF insertRecord, IInv, TypeOK
<1>4. TypeOK'
  BY <1>1, <1>2, <1>3 DEF IInv, TypeOK
<1> QED BY <1>1, <1>2, <1>4, AccountsUnchanged, SessionsUnchanged DEF IInv

(* A restart keeps the invariant. *)
LEMMA RestartKeepsIInv == ASSUME IInv, Restart PROVE IInv'
<1> USE AccountsAssumption
<1>1. AdminOnly \in [Names -> Account \cup {NoAccount}]
  BY DEF AdminOnly, Account
<1>2. FirstId \in Generator
  BY DEF FirstId, Generator
<1>3. TypeOK'
  BY <1>1, <1>2 DEF Restart, IInv, TypeOK, Generator, AllGuests, AllIdle, Guest,
                    Groups
<1>4. Unique(AdminOnly, FirstId)
  BY DEF Unique, AdminOnly, FirstId, PoolIsSound, Account
<1>5. IdsAreUnique'
  BY <1>4 DEF Restart, IdsAreUnique, Unique, PoolIsSound, Known
<1>6. SessionIsWhole' /\ JobsWereChecked'
  BY DEF Restart, SessionIsWhole, JobsWereChecked, AllGuests, AllIdle
<1> QED BY <1>3, <1>5, <1>6 DEF IInv

(* Every step keeps the invariant. *)
LEMMA NextIInv == IInv /\ [Next]_vars => IInv'
<1> SUFFICES ASSUME IInv, [Next]_vars PROVE IInv'
  OBVIOUS
<1>1. ASSUME NEW w \in Workers, NEW s \in Sessions, NEW command \in Commands,
             CheckPermission(w, s, command)
      PROVE  IInv'
  BY <1>1, CheckKeepsIInv
<1>2. ASSUME NEW w \in Workers, RunJob(w)
      PROVE  IInv'
  <2>1. ASSUME NEW n \in Names, NEW p \in Passwords, login(w, n, p)
        PROVE  IInv'
    BY <2>1, LoginKeepsIInv
  <2>2. ASSUME NEW n \in Names, NEW p \in Passwords, addUser(w, n, p)
        PROVE  IInv'
    BY <2>2, AddKeepsIInv
  <2>3. ASSUME NEW n \in Names, NEW p \in Passwords, resetPassword(w, n, p)
        PROVE  IInv'
    <3>1. n \in Known => [users[n] EXCEPT !.password = p] \in Account
      BY DEF IInv, TypeOK, Known, Account
    <3>2. n \in Known => [users[n] EXCEPT !.password = p].id = users[n].id
      BY DEF IInv, TypeOK, Known, Account
    <3>3. \/ users' = users
          \/ n \in Known
             /\ users' = [users EXCEPT ![n] = [users[n] EXCEPT !.password = p]]
      BY <2>3 DEF resetPassword
    <3>4. Runs(w, <<"reset", n, p>>) /\ UNCHANGED <<idGen, sessions, record>>
      BY <2>3 DEF resetPassword
    <3> QED BY <3>1, <3>2, <3>3, <3>4, UpdateKeepsIInv
  <2>4. ASSUME NEW n \in Names, removeUser(w, n)
        PROVE  IInv'
    BY <2>4, RemoveKeepsIInv
  <2>5. ASSUME NEW n \in Names, NEW command, NEW from,
               NEW to \in {"EDITOR", "ADMIN"},
               changeUserGroup(w, n, command, from, to)
        PROVE  IInv'
    <3>1. n \in Known => [users[n] EXCEPT !.group = to] \in Account
      BY DEF IInv, TypeOK, Known, Account
    <3>2. n \in Known => [users[n] EXCEPT !.group = to].id = users[n].id
      BY DEF IInv, TypeOK, Known, Account
    <3>3. \/ users' = users
          \/ n \in Known
             /\ users' = [users EXCEPT ![n] = [users[n] EXCEPT !.group = to]]
      BY <2>5 DEF changeUserGroup
    <3>4. Runs(w, <<command, n>>) /\ UNCHANGED <<idGen, sessions, record>>
      BY <2>5 DEF changeUserGroup
    <3> QED BY <3>1, <3>2, <3>3, <3>4, UpdateKeepsIInv
  <2>6. ASSUME NEW old \in Passwords, NEW new \in Passwords,
               changeUserPassword(w, old, new)
        PROVE  IInv'
    <3> DEFINE n == sessions[jobs[w].session].name
    <3>1. /\ Runs(w, <<"password", old, new>>)
          /\ UNCHANGED <<idGen, sessions, record>>
      BY <2>6 DEF changeUserPassword
    <3>2. \/ users' = users
          \/ n \in Known
             /\ users' = [users EXCEPT ![n] = [users[n] EXCEPT !.password = new]]
      BY <2>6 DEF changeUserPassword
    <3>3. CASE users' = users
      BY <3>1, <3>3, AccountsAssumption, UpdateKeepsIInv
    <3>4. CASE users' # users
      <4>1. n \in Known /\ n \in Names
        BY <3>2, <3>4 DEF Known
      <4>2. /\ [users[n] EXCEPT !.password = new] \in Account
            /\ [users[n] EXCEPT !.password = new].id = users[n].id
        BY <4>1 DEF IInv, TypeOK, Known, Account
      <4> HIDE DEF n
      <4> QED BY <3>1, <3>2, <4>1, <4>2, UpdateKeepsIInv
    <3> QED BY <3>3, <3>4
  <2>7. ASSUME logout(w) PROVE IInv'
    BY <2>7, LogoutKeepsIInv
  <2>8. ASSUME insertRecord(w) PROVE IInv'
    BY <2>8, InsertKeepsIInv
  <2> QED BY <1>2, <2>1, <2>2, <2>3, <2>4, <2>5, <2>6, <2>7, <2>8 DEF RunJob
<1>3. ASSUME Restart PROVE IInv'
  BY <1>3, RestartKeepsIInv
<1>4. CASE UNCHANGED vars
  <2>1. TypeOK' /\ SessionIsWhole' /\ JobsWereChecked'
    BY <1>4 DEF vars, IInv, TypeOK, SessionIsWhole, JobsWereChecked
  <2> QED BY <1>4, <2>1, AccountsUnchanged DEF vars, IInv
<1> QED BY <1>1, <1>2, <1>3, <1>4 DEF Next

(* The invariant holds in every reachable state. *)
LEMMA SpecIInv == Spec => []IInv
BY InitIInv, NextIInv, PTL DEF Spec

-----------------------------------------------------------------------------
(* Theorems. *)

(* Every reachable state of accounts, sessions and jobs is well typed. *)
THEOREM TypeCorrect == Spec => []TypeOK
<1>1. IInv => TypeOK
  BY DEF IInv
<1> QED BY <1>1, SpecIInv, PTL

(* No two accounts have one id, and no released id is in use. *)
THEOREM UserIdsAreUnique == Spec => []IdsAreUnique
<1>1. IInv => IdsAreUnique
  BY DEF IInv
<1> QED BY <1>1, SpecIInv, PTL

(* A session is wholly a guest's or wholly a user's. *)
THEOREM SessionsAreWhole == Spec => []SessionIsWhole
<1>1. IInv => SessionIsWhole
  BY DEF IInv
<1> QED BY <1>1, SpecIInv, PTL

-----------------------------------------------------------------------------
(* Who changes an account. *)

(* The step formula of OnlyAdminsChangeAccounts. *)
ChangeIsAllowed ==
  \A n \in Names : users'[n] # users[n] =>
    \/ users' = AdminOnly /\ jobs' = AllIdle
    \/ \E w \in Workers :
         /\ jobs[w] # NoJob
         /\ jobs'[w] = NoJob
         /\ \/ jobs[w].group = "ADMIN"
            \/ /\ jobs[w].command[1] = "password"
               /\ sessions[jobs[w].session].name = n

(* Only administrators are permitted a command of UserOp. *)
LEMMA UserOpNeedsAdmin ==
  ASSUME IInv, NEW w \in Workers, NEW command, Runs(w, command),
         command \in UserOp
  PROVE  jobs[w].group = "ADMIN"
<1>1. /\ jobs[w] # NoJob /\ jobs[w].command = command
      /\ command \in Permitted(jobs[w].group) /\ jobs[w].group \in Groups
  BY DEF IInv, TypeOK, JobsWereChecked, Runs, Job
<1>2. command \notin ViewDB /\ command \notin ModifyDB /\ command \notin LoggedInUser
  BY DEF UserOp, ViewDB, ModifyDB, LoggedInUser
<1> QED BY <1>1, <1>2 DEF Permitted, Groups

(* Every step changes accounts only as allowed. *)
LEMMA StepIsAllowed == IInv /\ [Next]_vars => ChangeIsAllowed
<1> SUFFICES ASSUME IInv, [Next]_vars PROVE ChangeIsAllowed
  OBVIOUS
<1>1. ASSUME users' = users PROVE ChangeIsAllowed
  BY <1>1 DEF ChangeIsAllowed
<1>2. ASSUME NEW w \in Workers, NEW command \in UserOp, Runs(w, command)
      PROVE  ChangeIsAllowed
  <2>1. jobs[w] # NoJob /\ jobs'[w] = NoJob /\ jobs[w].group = "ADMIN"
    BY <1>2, UserOpNeedsAdmin DEF Runs, IInv, TypeOK
  <2> QED BY <2>1 DEF ChangeIsAllowed
<1>3. ASSUME NEW w \in Workers, RunJob(w) PROVE ChangeIsAllowed
  <2>1. ASSUME NEW n \in Names, NEW p \in Passwords,
               addUser(w, n, p) \/ resetPassword(w, n, p)
        PROVE  ChangeIsAllowed
    <3>1. <<"add", n, p>> \in UserOp /\ <<"reset", n, p>> \in UserOp
      BY DEF UserOp
    <3> QED BY <2>1, <3>1, <1>2 DEF addUser, resetPassword
  <2>2. ASSUME NEW n \in Names,
               \/ changeUserGroup(w, n, "promote", "EDITOR", "ADMIN")
               \/ changeUserGroup(w, n, "demote", "ADMIN", "EDITOR")
        PROVE  ChangeIsAllowed
    <3>1. <<"promote", n>> \in UserOp /\ <<"demote", n>> \in UserOp
      BY DEF UserOp
    <3> QED BY <2>2, <3>1, <1>2 DEF changeUserGroup
  <2>3. ASSUME NEW n \in Names, removeUser(w, n) PROVE ChangeIsAllowed
    <3>1. /\ jobs[w] # NoJob /\ jobs[w].command = <<"delete", n>>
          /\ jobs[w].command \in Commands
      BY <2>3 DEF removeUser, Runs, IInv, TypeOK, Job
    <3>2. <<"delete", n>> \in UserOp
      BY <3>1 DEF Commands, ViewDB, ModifyDB, LoggedInUser
    <3> QED BY <2>3, <3>2, <1>2 DEF removeUser
  <2>4. ASSUME NEW old \in Passwords, NEW new \in Passwords,
               changeUserPassword(w, old, new)
        PROVE  ChangeIsAllowed
    <3> DEFINE s == sessions[jobs[w].session]
    <3>1. \A n \in Names : users'[n] # users[n] => s.name = n
      BY <2>4 DEF changeUserPassword, IInv, TypeOK
    <3>2. /\ jobs[w] # NoJob /\ jobs'[w] = NoJob
          /\ jobs[w].command = <<"password", old, new>>
      BY <2>4 DEF changeUserPassword, Runs, IInv, TypeOK
    <3>3. jobs[w].command[1] = "password"
      BY <3>2
    <3> QED BY <3>1, <3>2, <3>3 DEF ChangeIsAllowed
  <2>5. ASSUME \/ \E n \in Names, p \in Passwords : login(w, n, p)
               \/ logout(w) \/ insertRecord(w)
        PROVE  ChangeIsAllowed
    BY <2>5, <1>1 DEF login, logout, insertRecord
  <2> QED BY <1>3, <2>1, <2>2, <2>3, <2>4, <2>5 DEF RunJob
<1>4. ASSUME Restart PROVE ChangeIsAllowed
  BY <1>4 DEF Restart, ChangeIsAllowed
<1>5. ASSUME NEW w \in Workers, NEW s \in Sessions, NEW command \in Commands,
             CheckPermission(w, s, command)
      PROVE  ChangeIsAllowed
  BY <1>5, <1>1 DEF CheckPermission
<1> QED BY <1>1, <1>3, <1>4, <1>5 DEF Next, vars

(* Only a job checked for an administrator, or the user's own USER          *)
(* PASSWORD, changes an account.                                            *)
THEOREM AccountsAreProtected == Spec => OnlyAdminsChangeAccounts
<1>1. IInv /\ [Next]_vars =>
        [\A n \in Names : users'[n] # users[n] =>
           \/ users' = AdminOnly /\ jobs' = AllIdle
           \/ \E w \in Workers :
                /\ jobs[w] # NoJob
                /\ jobs'[w] = NoJob
                /\ \/ jobs[w].group = "ADMIN"
                   \/ /\ jobs[w].command[1] = "password"
                      /\ sessions[jobs[w].session].name = n]_vars
  BY StepIsAllowed DEF ChangeIsAllowed
<1> QED BY <1>1, SpecIInv, PTL DEF Spec, OnlyAdminsChangeAccounts

-----------------------------------------------------------------------------
(* Clients that wait for each reply. *)

(* A session has one job under way, and still the group it was checked for. *)
Waiting ==
  \A w \in Workers : jobs[w] # NoJob =>
    /\ sessions[jobs[w].session].group = jobs[w].group
    /\ \A v \in Workers :
         jobs[v] # NoJob /\ jobs[v].session = jobs[w].session => v = w

(* A job that ends leaves the sessions of the other jobs alone. *)
LEMMA RunKeepsWaiting ==
  ASSUME IInv, Waiting, NEW w \in Workers, NEW command, Runs(w, command),
         \A s \in Sessions : s # jobs[w].session => sessions'[s] = sessions[s]
  PROVE  Waiting'
<1>1. jobs[w] # NoJob /\ \A v \in Workers : jobs'[v] # NoJob =>
                             v # w /\ jobs[v] = jobs'[v] /\ jobs[v] \in Job
  BY DEF Runs, IInv, TypeOK
<1>2. \A v \in Workers : jobs'[v] # NoJob =>
        jobs[v].session \in Sessions /\ jobs[v].session # jobs[w].session
  BY <1>1 DEF Waiting, Job
<1> QED BY <1>1, <1>2 DEF Waiting

(* Without pipelining every step keeps Waiting. *)
LEMMA StepKeepsWaiting ==
  ASSUME Pipelining = FALSE
  PROVE  IInv /\ Waiting /\ [Next]_vars => Waiting'
<1> SUFFICES ASSUME IInv, Waiting, [Next]_vars PROVE Waiting'
  OBVIOUS
<1>1. ASSUME NEW w \in Workers, NEW s \in Sessions, NEW command \in Commands,
             CheckPermission(w, s, command)
      PROVE  Waiting'
  <2>1. /\ \A v \in Workers : jobs[v] # NoJob => jobs[v].session # s
        /\ UNCHANGED sessions
        /\ jobs'[w] = [session |-> s, command |-> command,
                       group |-> sessions[s].group]
        /\ \A v \in Workers \ {w} : jobs'[v] = jobs[v]
    BY <1>1 DEF CheckPermission, IInv, TypeOK
  <2>2. jobs'[w].session = s /\ jobs'[w].group = sessions[s].group
    BY <2>1
  <2>3. ASSUME NEW v \in Workers, jobs'[v] # NoJob
        PROVE  sessions'[jobs'[v].session].group = jobs'[v].group
    <3>1. CASE v = w
      BY <3>1, <2>1, <2>2
    <3>2. CASE v # w
      BY <3>2, <2>1, <2>3 DEF Waiting
    <3> QED BY <3>1, <3>2
  <2>4. ASSUME NEW v \in Workers, jobs'[v] # NoJob,
               NEW u \in Workers, jobs'[u] # NoJob,
               jobs'[u].session = jobs'[v].session
        PROVE  u = v
    <3>1. CASE u # w /\ v # w
      BY <3>1, <2>1, <2>4 DEF Waiting
    <3>2. CASE u = w \/ v = w
      BY <3>2, <2>1, <2>2, <2>4
    <3> QED BY <3>1, <3>2
  <2> QED BY <2>3, <2>4 DEF Waiting
<1>2. ASSUME NEW w \in Workers, RunJob(w) PROVE Waiting'
  <2>1. ASSUME NEW command, Runs(w, command), UNCHANGED sessions PROVE Waiting'
    BY <2>1, RunKeepsWaiting
  <2>2. ASSUME NEW n \in Names, NEW p \in Passwords, login(w, n, p)
        PROVE  Waiting'
    <3>1. \A s \in Sessions : s # jobs[w].session => sessions'[s] = sessions[s]
      BY <2>2 DEF login, IInv, TypeOK
    <3>2. Runs(w, <<"login", n, p>>)
      BY <2>2 DEF login
    <3> QED BY <3>1, <3>2, RunKeepsWaiting
  <2>3. ASSUME logout(w) PROVE Waiting'
    <3>1. \A s \in Sessions : s # jobs[w].session => sessions'[s] = sessions[s]
      BY <2>3 DEF logout, IInv, TypeOK
    <3>2. Runs(w, <<"logout">>)
      BY <2>3 DEF logout
    <3> QED BY <3>1, <3>2, RunKeepsWaiting
  <2>4. ASSUME NEW n \in Names, NEW p \in Passwords,
               addUser(w, n, p) \/ resetPassword(w, n, p)
        PROVE  Waiting'
    BY <2>1, <2>4 DEF addUser, resetPassword
  <2>5. ASSUME NEW n \in Names,
               \/ removeUser(w, n)
               \/ changeUserGroup(w, n, "promote", "EDITOR", "ADMIN")
               \/ changeUserGroup(w, n, "demote", "ADMIN", "EDITOR")
        PROVE  Waiting'
    BY <2>1, <2>5 DEF removeUser, changeUserGroup
  <2>6. ASSUME NEW old \in Passwords, NEW new \in Passwords,
               changeUserPassword(w, old, new)
        PROVE  Waiting'
    BY <2>1, <2>6 DEF changeUserPassword
  <2>7. ASSUME insertRecord(w) PROVE Waiting'
    BY <2>1, <2>7 DEF insertRecord
  <2> QED BY <1>2, <2>2, <2>3, <2>4, <2>5, <2>6, <2>7 DEF RunJob
<1>3. ASSUME Restart PROVE Waiting'
  BY <1>3 DEF Restart, Waiting, AllIdle
<1>4. CASE UNCHANGED vars
  BY <1>4 DEF vars, Waiting
<1> QED BY <1>1, <1>2, <1>3, <1>4 DEF Next

(* For clients that wait for each reply, a job runs with the permission it  *)
(* was checked for.                                                         *)
THEOREM JobsRunAsChecked ==
  ASSUME Pipelining = FALSE
  PROVE  Spec => []RunsAsChecked
<1>1. Init => Waiting
  BY DEF Init, Waiting, AllIdle
<1>2. IInv /\ Waiting /\ [Next]_vars => Waiting'
  BY StepKeepsWaiting
<1>3. IInv /\ Waiting => RunsAsChecked
  BY DEF IInv, Waiting, JobsWereChecked, RunsAsChecked
<1> QED BY <1>1, <1>2, <1>3, SpecIInv, PTL DEF Spec

-----------------------------------------------------------------------------
(* Accounts that are never removed. *)

(* No id is released, sessions hold the id of their user, and so does the   *)
(* record unless a guest wrote it.                                          *)
Lasting ==
  /\ idGen.pool = <<>>
  /\ SessionIsItsUser
  /\ record # NoRecord =>
       \/ record.author = 0
       \/ record.by \in Known /\ users[record.by].id = record.author

(* What the record and the sessions say stays true if known accounts keep   *)
(* their ids.                                                               *)
LEMMA SameIdsKeepLasting ==
  ASSUME Lasting, idGen'.pool = <<>>, UNCHANGED <<sessions, record>>,
         \A n \in Known : n \in Known' /\ users'[n].id = users[n].id
  PROVE  Lasting'
BY DEF Lasting, SessionIsItsUser

(* Without USER DELETE and restarts every step keeps Lasting. *)
LEMMA StepKeepsLasting ==
  ASSUME Removing = FALSE, Restarting = FALSE
  PROVE  IInv /\ Lasting /\ [Next]_vars => Lasting'
<1> SUFFICES ASSUME IInv, Lasting, [Next]_vars PROVE Lasting'
  OBVIOUS
<1>0. ASSUME UNCHANGED <<users, idGen, sessions, record>> PROVE Lasting'
  BY <1>0 DEF Lasting, SessionIsItsUser, Known
<1>1. ASSUME NEW w \in Workers, NEW s \in Sessions, NEW command \in Commands,
             CheckPermission(w, s, command)
      PROVE  Lasting'
  BY <1>0, <1>1 DEF CheckPermission
<1>2. ASSUME NEW w \in Workers, RunJob(w) PROVE Lasting'
  <2>1. ASSUME NEW n \in Names, NEW p \in Passwords, login(w, n, p)
        PROVE  Lasting'
    <3> DEFINE user == [name |-> n, id |-> users[n].id, group |-> users[n].group]
    <3>1. UNCHANGED <<users, idGen, record>>
      BY <2>1 DEF login
    <3>2. \/ UNCHANGED sessions
          \/ n \in Known /\ sessions' = [sessions EXCEPT ![jobs[w].session] = user]
      BY <2>1 DEF login
    <3>3. user.name = n /\ user.id = users[n].id
      OBVIOUS
    <3> HIDE DEF user
    <3>4. \A s \in Sessions : sessions'[s] # Guest =>
            sessions'[s].name \in Known /\ users[sessions'[s].name].id = sessions'[s].id
      BY <3>2, <3>3 DEF Lasting, SessionIsItsUser, IInv, TypeOK
    <3> QED BY <3>1, <3>4 DEF Lasting, SessionIsItsUser, Known
  <2>2. ASSUME logout(w) PROVE Lasting'
    <3>1. /\ UNCHANGED <<users, idGen, record>>
          /\ sessions' = [sessions EXCEPT ![jobs[w].session] = Guest]
      BY <2>2 DEF logout
    <3>2. \A s \in Sessions : sessions'[s] = Guest \/ sessions'[s] = sessions[s]
      BY <3>1 DEF IInv, TypeOK
    <3> QED BY <3>1, <3>2 DEF Lasting, SessionIsItsUser, Known
  <2>3. ASSUME NEW n \in Names, NEW p \in Passwords, addUser(w, n, p)
        PROVE  Lasting'
    <3> DEFINE account == [id |-> getId(idGen), group |-> "EDITOR", password |-> p]
    <3>1. /\ UNCHANGED <<sessions, record>>
          /\ getId(idGen) <= MaxId
          /\ idGen' = Taken(idGen)
          /\ users' = IF n \in Known THEN users ELSE [users EXCEPT ![n] = account]
      BY <2>3 DEF addUser
    <3>2. idGen'.pool = <<>>
      BY <3>1 DEF Lasting, Taken, IInv, TypeOK
    <3>3. \A m \in Known : users'[m] = users[m]
      BY <3>1 DEF IInv, TypeOK
    <3>4. \A m \in Known : m \in Known'
      BY <3>3 DEF Known
    <3> QED BY <3>1, <3>2, <3>3, <3>4, SameIdsKeepLasting
  <2>4. ASSUME NEW n \in Names, NEW p \in Passwords, resetPassword(w, n, p)
        PROVE  Lasting'
    <3>1. UNCHANGED <<idGen, sessions, record>>
      BY <2>4 DEF resetPassword
    <3>2. \A m \in Known : users'[m].id = users[m].id /\ users'[m] \in Account
      BY <2>4 DEF resetPassword, IInv, TypeOK, Known, Account
    <3>3. \A m \in Known : m \in Known'
      BY <3>2, AccountsAssumption DEF Known
    <3> QED BY <3>1, <3>2, <3>3, SameIdsKeepLasting DEF Lasting
  <2>5. ASSUME NEW n \in Names, NEW command, NEW from,
               NEW to \in {"EDITOR", "ADMIN"},
               changeUserGroup(w, n, command, from, to)
        PROVE  Lasting'
    <3>1. UNCHANGED <<idGen, sessions, record>>
      BY <2>5 DEF changeUserGroup
    <3>2. \A m \in Known : users'[m].id = users[m].id /\ users'[m] \in Account
      BY <2>5 DEF changeUserGroup, IInv, TypeOK, Known, Account
    <3>3. \A m \in Known : m \in Known'
      BY <3>2, AccountsAssumption DEF Known
    <3> QED BY <3>1, <3>2, <3>3, SameIdsKeepLasting DEF Lasting
  <2>6. ASSUME NEW old \in Passwords, NEW new \in Passwords,
               changeUserPassword(w, old, new)
        PROVE  Lasting'
    <3>1. UNCHANGED <<idGen, sessions, record>>
      BY <2>6 DEF changeUserPassword
    <3>2. \A m \in Known : users'[m].id = users[m].id /\ users'[m] \in Account
      <4>1. /\ users \in [Names -> Account \cup {NoAccount}]
            /\ \A m \in Known : users[m] \in Account
        BY DEF IInv, TypeOK, Known
      <4>2. \/ users' = users
            \/ LET s == sessions[jobs[w].session]
               IN s.name \in Known /\ users' = [users EXCEPT ![s.name].password = new]
        BY <2>6 DEF changeUserPassword
      <4> QED BY <4>1, <4>2 DEF Known, Account
    <3>3. \A m \in Known : m \in Known'
      BY <3>2, AccountsAssumption DEF Known
    <3> QED BY <3>1, <3>2, <3>3, SameIdsKeepLasting DEF Lasting
  <2>7. ASSUME NEW n \in Names, removeUser(w, n) PROVE FALSE
    <3>1. jobs[w].command = <<"delete", n>> /\ jobs[w].command \in Commands
      BY <2>7 DEF removeUser, Runs, IInv, TypeOK, Job
    <3> QED BY <3>1 DEF Commands, ViewDB, ModifyDB, LoggedInUser, UserOp
  <2>8. ASSUME insertRecord(w) PROVE Lasting'
    <3> DEFINE s == jobs[w].session
               new == [author |-> sessions[s].id, by |-> sessions[s].name]
    <3>1. UNCHANGED <<users, idGen, sessions>> /\ record' \in {record, new}
      BY <2>8 DEF insertRecord
    <3>2. s \in Sessions
      BY <2>8 DEF insertRecord, Runs, IInv, TypeOK, Job
    <3>3. \/ sessions[s].id = 0
          \/ /\ sessions[s].name \in Known
             /\ users[sessions[s].name].id = sessions[s].id
      BY <3>2 DEF Lasting, SessionIsItsUser, Guest
    <3>4. new.author = sessions[s].id /\ new.by = sessions[s].name
      OBVIOUS
    <3> HIDE DEF new
    <3> QED BY <3>1, <3>3, <3>4 DEF Lasting, SessionIsItsUser, Known
  <2> QED BY <1>2, <2>1, <2>2, <2>3, <2>4, <2>5, <2>6, <2>7, <2>8 DEF RunJob
<1>3. ASSUME Restart PROVE Lasting'
  BY <1>3 DEF Restart
<1>4. CASE UNCHANGED vars
  BY <1>0, <1>4 DEF vars
<1> QED BY <1>1, <1>2, <1>3, <1>4 DEF Next

(* Without USER DELETE and restarts the author shown for a record is the    *)
(* user who inserted it.                                                    *)
THEOREM AuthorsAreTrue ==
  ASSUME Removing = FALSE, Restarting = FALSE
  PROVE  Spec => []AttributionIsTrue
<1>1. Init => Lasting
  BY DEF Init, Lasting, FirstId, AllGuests, SessionIsItsUser
<1>2. IInv /\ Lasting /\ [Next]_vars => Lasting'
  BY StepKeepsLasting
<1>3. IInv /\ Lasting => AttributionIsTrue
  <2> SUFFICES ASSUME IInv, Lasting, record # NoRecord
               PROVE  getUserName(record.author) \in {record.by, NoName}
    BY DEF AttributionIsTrue
  <2>1. \A n \in Known : users[n].id # 0
    BY AccountsAssumption DEF IInv, TypeOK, Known, Account
  <2>2. CASE record.author = 0
    BY <2>1, <2>2 DEF getUserName
  <2>3. CASE record.by \in Known /\ users[record.by].id = record.author
    <3>1. \A n \in Known : users[n].id = record.author => n = record.by
      BY <2>3 DEF IInv, IdsAreUnique
    <3> QED BY <2>3, <3>1 DEF getUserName
  <2> QED BY <2>2, <2>3 DEF Lasting
<1> QED BY <1>1, <1>2, <1>3, SpecIInv, PTL DEF Spec

(* ... and a logged-in session holds the id of its user's account. *)
THEOREM SessionsKeepTheirUser ==
  ASSUME Removing = FALSE, Restarting = FALSE
  PROVE  Spec => []SessionIsItsUser
<1>1. Init => Lasting
  BY DEF Init, Lasting, FirstId, AllGuests, SessionIsItsUser
<1>2. IInv /\ Lasting /\ [Next]_vars => Lasting'
  BY StepKeepsLasting
<1>3. Lasting => SessionIsItsUser
  BY DEF Lasting
<1> QED BY <1>1, <1>2, <1>3, SpecIInv, PTL DEF Spec
================================================================================
