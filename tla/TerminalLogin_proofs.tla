------------------------- MODULE TerminalLogin_proofs -------------------------
(***************************************************************************)
(* Proofs about TerminalLogin, for any number of logins, of unanswered     *)
(* authentications and of interpreters: the types, the mask of the         *)
(* interpreter on top, the history that comes back, and, of a login that   *)
(* nobody disturbs, that its password is hidden and that only it lets      *)
(* commands through.                                                       *)
(***************************************************************************)
EXTENDS TerminalLogin, SequenceTheorems, WellFoundedInduction, TLAPS

(* A nonempty set of natural numbers has a least member. *)
LEMMA LeastNatural ==
  ASSUME NEW S \in SUBSET Nat, S # {}
  PROVE  \E m \in S : \A n \in S : m <= n
<1> DEFINE R == {p \in Nat \X Nat : p[1] < p[2]}
<1>1. IsWellFoundedOn(R, Nat)
  BY NatLessThanWellFounded DEF OpToRel
<1>2. \E m \in S : \A n \in S : <<n, m>> \notin R
  <2> HIDE DEF R
  <2> QED BY <1>1, WFMin
<1>3. \A m, n \in S : <<n, m>> \notin R => m <= n
  OBVIOUS
<1> QED BY <1>2, <1>3

-----------------------------------------------------------------------------
(* States of the terminal.                                                 *)

Interpreters ==
  [role : Roles, login : Nat, mask : {"unset", "on", "off"}, meant : {"on", "off"}]

Terminals ==
  [stack : Seq(Interpreters), mask : {"on", "off"}, in_login : BOOLEAN, history : BOOLEAN,
   token : BOOLEAN, handler : BOOLEAN, logins : Nat, thrown : BOOLEAN]

\* The main interpreter is at the bottom and only there, no interpreter is of a
\* login to come, and all but the one on top have saved their mask.
WellFormed(t) ==
  /\ t \in Terminals
  /\ Len(t.stack) > 0
  /\ \A i \in 1..Len(t.stack) : t.stack[i].role = "main" <=> i = 1
  /\ \A i \in 1..Len(t.stack) : t.stack[i].login <= t.logins
  /\ \A i \in 1..(Len(t.stack) - 1) : t.stack[i].mask # "unset"

\* The mask is the one of the interpreter on top, and what the others have saved
\* is theirs.
Meant(t) ==
  /\ t.mask = t.stack[Len(t.stack)].meant
  /\ \A i \in 1..(Len(t.stack) - 1) : t.stack[i].mask = t.stack[i].meant

Remembers(t) == t.in_login \/ t.history

\* What every method called on t keeps, if it leaves s.
Kept(s, t) ==
  /\ WellFormed(s)
  /\ Meant(t) => Meant(s)
  /\ Remembers(t) => Remembers(s)
  /\ t.logins <= s.logins

\* s is t but for the fields of the stack.
SameLogin(s, t) ==
  /\ s.in_login = t.in_login /\ s.history = t.history /\ s.token = t.token
  /\ s.handler = t.handler /\ s.logins = t.logins /\ s.thrown = t.thrown

\* The interpreters of s are the first m of t.
Prefix(s, t, m) ==
  /\ Len(s.stack) = m
  /\ \A i \in 1..m : s.stack[i] = t.stack[i]

\* s is t with an interpreter pushed: the old top has saved the mask and the new
\* one has it.
Pushed(s, t, role, n) ==
  LET len == Len(t.stack)
  IN /\ Len(s.stack) = len + 1
     /\ s.mask = t.mask
     /\ \A i \in 1..(len - 1) : s.stack[i] = t.stack[i]
     /\ s.stack[len].role = t.stack[len].role /\ s.stack[len].login = t.stack[len].login
     /\ s.stack[len].mask = t.mask /\ s.stack[len].meant = t.stack[len].meant
     /\ s.stack[len + 1].role = role /\ s.stack[len + 1].login = n
     /\ s.stack[len + 1].meant = t.mask

-----------------------------------------------------------------------------
(* The operations of the stack.                                            *)

(* push keeps what is below, lets the old top save the mask and leaves the *)
(* mask to the new one.                                                    *)
LEMMA PushIs ==
  ASSUME NEW t, WellFormed(t), NEW role \in Roles \ {"main"}, NEW n \in Nat, n <= t.logins
  PROVE  LET s == push(t, role, n)
         IN WellFormed(s) /\ SameLogin(s, t) /\ Pushed(s, t, role, n)
<1> DEFINE len == Len(t.stack)
           old == [t.stack[len] EXCEPT !.mask = t.mask]
           stack == [t.stack EXCEPT ![len] = old]
           new == Interpreter(role, n, t.mask)
           s == push(t, role, n)
<1>1. t.stack \in Seq(Interpreters) /\ len \in 1..Len(t.stack) /\ t.mask \in {"on", "off"}
  BY DEF WellFormed, Terminals
<1>2. t.stack[len] \in Interpreters
  BY <1>1
<1>3. old \in Interpreters /\ new \in Interpreters
  BY <1>1, <1>2 DEF Interpreters, Interpreter
<1>4. /\ stack \in Seq(Interpreters) /\ Len(stack) = len
      /\ \A i \in 1..len : stack[i] = IF i = len THEN old ELSE t.stack[i]
  <2> HIDE DEF old
  <2> QED BY <1>1, <1>3, ExceptSeq
<1>5. /\ Append(stack, new) \in Seq(Interpreters) /\ Len(Append(stack, new)) = len + 1
      /\ \A i \in 1..len : Append(stack, new)[i] = stack[i]
      /\ Append(stack, new)[len + 1] = new
  <2> HIDE DEF stack, new
  <2> QED BY <1>3, <1>4, AppendProperties
<1>6. s = [t EXCEPT !.stack = Append(stack, new)]
  BY <1>1 DEF push
<1>7. /\ s \in Terminals /\ s.stack = Append(stack, new) /\ s.mask = t.mask /\ SameLogin(s, t)
  <2> HIDE DEF stack, new
  <2> QED BY <1>5, <1>6 DEF WellFormed, Terminals, SameLogin
<1>8. /\ old.role = t.stack[len].role /\ old.login = t.stack[len].login
      /\ old.mask = t.mask /\ old.meant = t.stack[len].meant
      /\ new.role = role /\ new.login = n /\ new.meant = t.mask
  BY <1>2 DEF Interpreters, Interpreter
<1>9. WellFormed(s)
  <2> HIDE DEF s, stack, new, old
  <2> QED BY <1>1, <1>4, <1>5, <1>7, <1>8 DEF WellFormed, SameLogin
<1> HIDE DEF stack, new, old
<1> QED BY <1>1, <1>4, <1>5, <1>7, <1>8, <1>9 DEF Pushed

(* set_mask gives the mask to the interpreter on top. *)
LEMMA SetMaskIs ==
  ASSUME NEW t, WellFormed(t), NEW mask \in {"on", "off"}
  PROVE  LET s == set_mask(t, mask)
             len == Len(t.stack)
         IN /\ WellFormed(s) /\ SameLogin(s, t) /\ s.mask = mask
            /\ Len(s.stack) = len
            /\ \A i \in 1..(len - 1) : s.stack[i] = t.stack[i]
            /\ s.stack[len].role = t.stack[len].role /\ s.stack[len].login = t.stack[len].login
            /\ s.stack[len].meant = mask
<1> DEFINE len == Len(t.stack)
           new == [t.stack[len] EXCEPT !.meant = mask]
           stack == [t.stack EXCEPT ![len] = new]
           s == set_mask(t, mask)
<1>1. t.stack \in Seq(Interpreters) /\ len \in 1..Len(t.stack)
  BY DEF WellFormed, Terminals
<1>2. t.stack[len] \in Interpreters
  BY <1>1
<1>3. new \in Interpreters
  BY <1>2 DEF Interpreters
<1>4. /\ stack \in Seq(Interpreters) /\ Len(stack) = len
      /\ \A i \in 1..len : stack[i] = IF i = len THEN new ELSE t.stack[i]
  <2> HIDE DEF new
  <2> QED BY <1>1, <1>3, ExceptSeq
<1>5. s = [t EXCEPT !.mask = mask, !.stack = stack]
  BY <1>1 DEF set_mask, WellFormed, Terminals
<1>6. /\ s \in Terminals /\ s.stack = stack /\ s.mask = mask /\ SameLogin(s, t)
  <2> HIDE DEF stack
  <2> QED BY <1>4, <1>5 DEF WellFormed, Terminals, SameLogin
<1>7. /\ new.role = t.stack[len].role /\ new.login = t.stack[len].login
      /\ new.meant = mask /\ new.mask = t.stack[len].mask
  BY <1>2 DEF Interpreters
<1>8. WellFormed(s)
  <2> HIDE DEF s, stack, new
  <2>1. ASSUME NEW i \in 1..len
        PROVE  /\ s.stack[i].role = t.stack[i].role /\ s.stack[i].login = t.stack[i].login
               /\ s.stack[i].mask = t.stack[i].mask
    BY <1>4, <1>6, <1>7
  <2>2. Len(s.stack) = len /\ s.logins = t.logins
    BY <1>4, <1>6 DEF SameLogin
  <2>3. /\ \A i \in 1..len : s.stack[i].role = "main" <=> i = 1
        /\ \A i \in 1..len : s.stack[i].login <= s.logins
    BY <2>1, <2>2 DEF WellFormed
  <2>4. \A i \in 1..(len - 1) : s.stack[i].mask # "unset"
    <3>1. \A i \in 1..(len - 1) : i \in 1..len
      BY <1>1
    <3> QED BY <2>1, <3>1 DEF WellFormed
  <2> QED BY <1>1, <1>6, <2>2, <2>3, <2>4 DEF WellFormed
<1> HIDE DEF stack, new
<1> QED BY <1>1, <1>4, <1>6, <1>7, <1>8

(* pop of a pushed interpreter leaves those below and brings the mask back  *)
(* that the one below has saved.                                           *)
LEMMA PopIs ==
  ASSUME NEW t, WellFormed(t), Len(t.stack) > 1
  PROVE  LET s == pop(t)
             len == Len(t.stack)
         IN /\ WellFormed(s) /\ SameLogin(s, t) /\ Prefix(s, t, len - 1)
            /\ s.mask = t.stack[len - 1].mask
<1> DEFINE len == Len(t.stack)
           left == Front(t.stack)
           s == pop(t)
<1>1. t.stack \in Seq(Interpreters) /\ len \in Nat /\ len > 1
  BY DEF WellFormed, Terminals
<1>2. /\ left \in Seq(Interpreters) /\ Len(left) = len - 1
      /\ \A i \in 1..(len - 1) : left[i] = t.stack[i]
  BY <1>1, SubSeqProperties, ElementOfSeq DEF Front
<1>3. Last(left) = t.stack[len - 1] /\ t.stack[len - 1].mask # "unset"
  BY <1>1, <1>2 DEF Last, WellFormed
<1>4. t.stack[len - 1].mask \in {"on", "off"}
  <2>1. t.stack[len - 1] \in Interpreters
    BY <1>1
  <2> QED BY <1>3, <2>1 DEF Interpreters
<1>5. s = [t EXCEPT !.stack = left, !.mask = t.stack[len - 1].mask]
  <2>1. len # 1
    <3>1. \A k \in Nat : k > 1 => k # 1
      OBVIOUS
    <3> QED BY <1>1, <3>1, Zenon
  <2> QED BY <1>3, <2>1, Zenon DEF pop
<1>6. /\ s \in Terminals /\ s.stack = left /\ s.mask = t.stack[len - 1].mask /\ SameLogin(s, t)
  <2> HIDE DEF left
  <2> QED BY <1>2, <1>4, <1>5 DEF WellFormed, Terminals, SameLogin
<1>7. WellFormed(s)
  <2> HIDE DEF s, left
  <2>1. Len(s.stack) = len - 1 /\ s.logins = t.logins /\ len - 1 > 0
    BY <1>1, <1>2, <1>6 DEF SameLogin
  <2>2. ASSUME NEW i \in 1..(len - 1) PROVE s.stack[i] = t.stack[i] /\ i \in 1..len
    BY <1>1, <1>2, <1>6
  <2>3. /\ \A i \in 1..(len - 1) : s.stack[i].role = "main" <=> i = 1
        /\ \A i \in 1..(len - 1) : s.stack[i].login <= s.logins
    BY <2>1, <2>2 DEF WellFormed
  <2>4. \A i \in 1..(len - 1 - 1) : s.stack[i].mask # "unset"
    <3>1. \A i \in 1..(len - 1 - 1) : i \in 1..(len - 1)
      BY <1>1
    <3> QED BY <2>2, <3>1 DEF WellFormed
  <2> QED BY <1>6, <2>1, <2>3, <2>4 DEF WellFormed
<1> HIDE DEF left
<1> QED BY <1>1, <1>2, <1>6, <1>7 DEF Prefix

(* login of a terminal that is not in one: what it starts is a push. *)
LEMMA LoginIs ==
  ASSUME NEW t, WellFormed(t), ~t.in_login, ~(t.token /\ Len(t.stack) = 1)
  PROVE  LET s == login(t)
         IN /\ WellFormed(s) /\ Pushed(s, t, "user", t.logins + 1)
            /\ s.in_login /\ ~s.history /\ s.handler /\ s.logins = t.logins + 1
            /\ s.token = t.token /\ s.thrown = t.thrown
<1> DEFINE u == [t EXCEPT !.in_login = TRUE, !.history = FALSE, !.logins = @ + 1, !.handler = TRUE]
<1>1. /\ u \in Terminals /\ u.stack = t.stack /\ u.mask = t.mask
      /\ u.in_login = TRUE /\ u.history = FALSE /\ u.handler = TRUE /\ u.logins = t.logins + 1 /\ u.token = t.token /\ u.thrown = t.thrown
      /\ t.logins \in Nat
  <2>1. t \in Terminals
    BY DEF WellFormed
  <2>2. t.logins \in Nat /\ t.logins + 1 \in Nat
    BY <2>1 DEF Terminals
  <2>3. u = [t EXCEPT !.in_login = TRUE, !.history = FALSE, !.logins = t.logins + 1, !.handler = TRUE]
    OBVIOUS
  <2>4. u \in Terminals
    BY <2>1, <2>2 DEF Terminals
  <2>5. u.stack = t.stack /\ u.mask = t.mask /\ u.token = t.token /\ u.thrown = t.thrown
    BY <2>1 DEF Terminals
  <2>6. u.in_login = TRUE /\ u.history = FALSE /\ u.handler = TRUE /\ u.logins = t.logins + 1
    BY <2>1 DEF Terminals
  <2> QED BY <2>2, <2>4, <2>5, <2>6
<1>2. t.stack \in Seq(Interpreters)
  BY DEF WellFormed, Terminals
<1>3. \A i \in 1..Len(t.stack) : t.stack[i].login \in Nat
  <2>1. \A i \in 1..Len(t.stack) : t.stack[i] \in Interpreters
    BY <1>2
  <2> QED BY <2>1 DEF Interpreters
<1>4. WellFormed(u)
  <2> HIDE DEF u
  <2> QED BY <1>1, <1>3 DEF WellFormed
<1>5. login(t) = push(u, "user", t.logins + 1)
  BY DEF login
<1>6. "user" \in Roles \ {"main"} /\ u.logins + 1 - 1 = t.logins + 1
  BY <1>1 DEF Roles, Prompts
<1> HIDE DEF u
<1>7. LET s == push(u, "user", t.logins + 1)
      IN WellFormed(s) /\ SameLogin(s, u) /\ Pushed(s, u, "user", t.logins + 1)
  BY <1>1, <1>4, <1>6, PushIs
<1> QED BY <1>1, <1>5, <1>7 DEF SameLogin, Pushed

(* What LoggedIn pops leaves the main interpreter and its mask. *)
LEMMA PopAllIs ==
  ASSUME NEW t, WellFormed(t)
  PROVE  LET s == popAll(t)
         IN /\ WellFormed(s) /\ SameLogin(s, t) /\ Prefix(s, t, 1)
            /\ s.mask = IF Len(t.stack) = 1 THEN t.mask ELSE t.stack[1].mask
<1> DEFINE len == Len(t.stack)
           first(k) == SubSeq(t.stack, 1, k)
           mask(k) == IF k = len THEN t.mask ELSE t.stack[k].mask
           rest(k) == [t EXCEPT !.stack = first(k), !.mask = mask(k)]
           F(g) == [i \in 1..len |-> IF i = 1 THEN t ELSE pop(g[i - 1])]
           pops == CHOOSE g : g = F(g)
<1>1. t \in Terminals /\ t.stack \in Seq(Interpreters) /\ len \in Nat /\ len >= 1
  BY DEF WellFormed, Terminals
<1>2. \A k \in 1..len : /\ first(k) \in Seq(Interpreters) /\ Len(first(k)) = k
                        /\ \A j \in 1..k : first(k)[j] = t.stack[j]
  BY <1>1, SubSeqProperties, ElementOfSeq
<1>3. \A k \in 1..len : mask(k) \in {"on", "off"}
  <2>1. t.mask \in {"on", "off"}
    BY <1>1 DEF Terminals
  <2>2. \A k \in 1..(len - 1) : t.stack[k] \in Interpreters
    BY <1>1, ElementOfSeq
  <2> QED BY <1>1, <2>1, <2>2 DEF WellFormed, Interpreters
<1>4. ASSUME NEW k \in 1..len
      PROVE  /\ WellFormed(rest(k)) /\ SameLogin(rest(k), t)
             /\ rest(k).stack = first(k) /\ rest(k).mask = mask(k)
  <2>1. /\ rest(k) \in Terminals /\ rest(k).stack = first(k) /\ rest(k).mask = mask(k)
        /\ SameLogin(rest(k), t)
    <3> HIDE DEF first, mask
    <3> QED BY <1>1, <1>2, <1>3 DEF Terminals, SameLogin
  <2>2. WellFormed(rest(k))
    <3> HIDE DEF first, mask, rest
    <3>1. Len(rest(k).stack) = k /\ rest(k).logins = t.logins /\ k > 0
      BY <1>2, <2>1 DEF SameLogin
    <3>2. ASSUME NEW i \in 1..k PROVE rest(k).stack[i] = t.stack[i] /\ i \in 1..len
      BY <1>1, <1>2, <2>1
    <3>3. /\ \A i \in 1..k : rest(k).stack[i].role = "main" <=> i = 1
          /\ \A i \in 1..k : rest(k).stack[i].login <= rest(k).logins
      BY <3>1, <3>2 DEF WellFormed
    <3>4. \A i \in 1..(k - 1) : rest(k).stack[i].mask # "unset"
      <4>1. \A i \in 1..(k - 1) : i \in 1..k /\ i \in 1..(len - 1)
        BY <1>1
      <4> QED BY <3>2, <4>1 DEF WellFormed
    <3> QED BY <2>1, <3>1, <3>3, <3>4 DEF WellFormed
  <2> QED BY <2>1, <2>2
<1>5. ASSUME NEW k \in 2..len PROVE pop(rest(k)) = rest(k - 1)
  <2>1. k \in 1..len /\ k - 1 \in 1..len /\ k - 1 # len /\ k # 1
    BY <1>1
  <2>2. Front(first(k)) = first(k - 1)
    <3>1. /\ Front(first(k)) \in Seq(Interpreters) /\ Len(Front(first(k))) = k - 1
          /\ \A j \in 1..(k - 1) : Front(first(k))[j] = first(k)[j]
      <4>1. Len(first(k)) = k /\ \A j \in 1..(k - 1) : first(k)[j] \in Interpreters
        <5> HIDE DEF first
        <5> QED BY <1>2, <2>1, ElementOfSeq
      <4> HIDE DEF first
      <4> QED BY <2>1, <4>1, SubSeqProperties DEF Front
    <3> HIDE DEF first
    <3> QED BY <1>2, <2>1, <3>1, SeqEqual
  <2>3. Last(first(k - 1)) = t.stack[k - 1] /\ t.stack[k - 1].mask # "unset"
        /\ mask(k - 1) = t.stack[k - 1].mask
    <3>1. t.stack[k - 1].mask # "unset" /\ mask(k - 1) = t.stack[k - 1].mask
      BY <1>1, <2>1 DEF WellFormed
    <3> HIDE DEF first, mask
    <3> QED BY <1>2, <2>1, <3>1 DEF Last
  <2>4. Len(rest(k).stack) # 1 /\ rest(k).stack = first(k)
    <3> HIDE DEF first, rest
    <3> QED BY <1>2, <1>4, <2>1
  <2>5. pop(rest(k)) = [rest(k) EXCEPT !.stack = first(k - 1), !.mask = mask(k - 1)]
    <3> HIDE DEF first, rest, mask
    <3> QED BY <2>2, <2>3, <2>4, Zenon DEF pop
  <2> HIDE DEF first, mask
  <2> QED BY <1>1, <2>5 DEF Terminals
<1>6. rest(len) = t
  <2>1. first(len) = t.stack /\ mask(len) = t.mask
    BY <1>1, SubSeqFull
  <2> HIDE DEF first, mask
  <2> QED BY <1>1, <2>1 DEF Terminals
<1>7. pops = F(pops)
  <2> DEFINE g == [i \in 1..len |-> rest(len - i + 1)]
  <2>1. \A i \in 1..len : g[i] = IF i = 1 THEN t ELSE pop(g[i - 1])
    <3> TAKE i \in 1..len
    <3>1. CASE i = 1
      <4> HIDE DEF rest
      <4> QED BY <1>1, <1>6, <3>1
    <3>2. CASE i # 1
      <4>1. len - (i - 1) + 1 \in 2..len /\ len - (i - 1) + 1 - 1 = len - i + 1 /\ i - 1 \in 1..len
        BY <1>1, <3>2
      <4> HIDE DEF rest
      <4> QED BY <1>5, <3>2, <4>1
    <3> QED BY <3>1, <3>2
  <2>2. g = F(g)
    <3> HIDE DEF rest
    <3> QED BY <2>1
  <2> HIDE DEF g, F
  <2> QED BY <2>2
<1>8. pops[len] = rest(1)
  <2> DEFINE B == {i \in 1..len : pops[i] # rest(len - i + 1)}
  <2> HIDE DEF pops, rest
  <2>1. \A i \in 1..len : pops[i] = IF i = 1 THEN t ELSE pop(pops[i - 1])
    BY <1>7
  <2>2. B = {}
    <3> SUFFICES ASSUME B # {} PROVE FALSE
      OBVIOUS
    <3>1. PICK i \in B : \A j \in B : i <= j
      <4>1. B \in SUBSET Nat
        OBVIOUS
      <4> HIDE DEF B
      <4> QED BY <4>1, LeastNatural
    <3>2. i # 1
      BY <1>1, <1>6, <2>1
    <3>3. i \in 2..len /\ i - 1 \in 1..len /\ i - 1 \notin B
      BY <1>1, <3>1, <3>2
    <3>4. pops[i - 1] = rest(len - (i - 1) + 1)
      BY <3>3
    <3>5. len - (i - 1) + 1 \in 2..len /\ len - (i - 1) + 1 - 1 = len - i + 1
      BY <1>1, <3>3
    <3>6. pops[i] = rest(len - i + 1)
      BY <1>5, <2>1, <3>2, <3>4, <3>5
    <3> QED BY <3>6
  <2> QED BY <1>1, <2>2
<1>9. popAll(t) = pops[len]
  BY DEF popAll
<1>10. popAll(t) = rest(1) /\ 1 \in 1..len /\ (1 = len <=> len = 1)
  <2> HIDE DEF pops, rest
  <2> QED BY <1>1, <1>8, <1>9
<1>11. /\ WellFormed(rest(1)) /\ SameLogin(rest(1), t)
       /\ rest(1).stack = first(1) /\ rest(1).mask = mask(1)
  BY <1>4, <1>10
<1>12. Prefix(rest(1), t, 1)
  <2> HIDE DEF rest, first
  <2> QED BY <1>2, <1>10, <1>11 DEF Prefix
<1> HIDE DEF rest, first
<1> QED BY <1>10, <1>11, <1>12

-----------------------------------------------------------------------------
(* What every method keeps.                                                *)

(* The flags of the terminal do not matter to its interpreters. *)
LEMMA FlagsDoNotMatter ==
  ASSUME NEW t, WellFormed(t), NEW s \in Terminals,
         s.stack = t.stack, s.mask = t.mask, s.logins = t.logins
  PROVE  WellFormed(s) /\ (Meant(t) => Meant(s))
BY DEF WellFormed, Meant

(* A push keeps the masks. *)
LEMMA PushedKeeps ==
  ASSUME NEW t, WellFormed(t), NEW s, NEW role, NEW n, Pushed(s, t, role, n), Meant(t)
  PROVE  Meant(s)
<1>1. Len(t.stack) \in Nat /\ Len(t.stack) > 0
  BY DEF WellFormed, Terminals
<1> QED BY <1>1 DEF Meant, Pushed

LEMMA PushKeeps ==
  ASSUME NEW t, WellFormed(t), NEW role \in Roles \ {"main"}, NEW n \in Nat, n <= t.logins
  PROVE  Kept(push(t, role, n), t)
<1>1. WellFormed(push(t, role, n)) /\ SameLogin(push(t, role, n), t) /\ Pushed(push(t, role, n), t, role, n)
  BY PushIs
<1>2. Meant(t) => Meant(push(t, role, n))
  BY <1>1, PushedKeeps
<1>3. t.logins \in Nat
  BY DEF WellFormed, Terminals
<1> QED BY <1>1, <1>2, <1>3 DEF Kept, SameLogin, Remembers

LEMMA SetMaskKeeps ==
  ASSUME NEW t, WellFormed(t), NEW mask \in {"on", "off"}
  PROVE  Kept(set_mask(t, mask), t)
<1> DEFINE s == set_mask(t, mask)
<1>1. /\ WellFormed(s) /\ SameLogin(s, t) /\ s.mask = mask
      /\ Len(s.stack) = Len(t.stack) /\ s.stack[Len(t.stack)].meant = mask
      /\ \A i \in 1..(Len(t.stack) - 1) : s.stack[i] = t.stack[i]
  BY SetMaskIs
<1>2. t.logins \in Nat
  BY DEF WellFormed, Terminals
<1> QED BY <1>1, <1>2 DEF Kept, SameLogin, Remembers, Meant

LEMMA LoginKeeps ==
  ASSUME NEW t, WellFormed(t)
  PROVE  Kept(login(t), t)
<1> DEFINE s == login(t)
<1>1. t.logins \in Nat /\ t \in Terminals
  BY DEF WellFormed, Terminals
<1>2. CASE t.in_login
  <2>1. s = [t EXCEPT !.thrown = TRUE]
    BY <1>2 DEF login
  <2>2. /\ s \in Terminals /\ s.stack = t.stack /\ s.mask = t.mask /\ s.logins = t.logins
        /\ s.in_login = t.in_login /\ s.history = t.history
    BY <1>1, <2>1 DEF Terminals
  <2> QED BY <1>1, <2>2, FlagsDoNotMatter DEF Kept, Remembers
<1>3. CASE ~t.in_login /\ t.token /\ Len(t.stack) = 1
  BY <1>1, <1>3 DEF login, Kept
<1>4. CASE ~t.in_login /\ ~(t.token /\ Len(t.stack) = 1)
  <2>1. WellFormed(s) /\ Pushed(s, t, "user", t.logins + 1) /\ s.in_login /\ s.logins = t.logins + 1
    BY <1>4, LoginIs
  <2> QED BY <1>1, <2>1, PushedKeeps DEF Kept, Remembers
<1> QED BY <1>2, <1>3, <1>4

LEMMA PopKeeps ==
  ASSUME NEW t, WellFormed(t)
  PROVE  Kept(pop(t), t)
<1> DEFINE s == pop(t)
<1>1. t.logins \in Nat /\ t \in Terminals /\ Len(t.stack) \in Nat /\ Len(t.stack) > 0
  BY DEF WellFormed, Terminals
<1>2. CASE Len(t.stack) = 1 /\ ~hasLogin
  BY <1>1, <1>2 DEF pop, Kept
<1>3. CASE Len(t.stack) = 1 /\ hasLogin
  <2> DEFINE u == clear_loging_storage(t)
  <2>1. /\ u \in Terminals /\ u.stack = t.stack /\ u.mask = t.mask /\ u.logins = t.logins
        /\ u.in_login = t.in_login /\ u.history = t.history
    BY <1>1 DEF Terminals, clear_loging_storage
  <2>2. WellFormed(u) /\ (Meant(t) => Meant(u)) /\ (Remembers(t) => Remembers(u))
    <3> HIDE DEF u
    <3> QED BY <2>1, FlagsDoNotMatter DEF Remembers
  <2>3. s = login(u)
    BY <1>3 DEF pop, global_logout
  <2>4. Kept(login(u), u)
    <3> HIDE DEF u
    <3> QED BY <2>2, LoginKeeps
  <2> HIDE DEF u
  <2> QED BY <2>1, <2>2, <2>3, <2>4 DEF Kept
<1>4. CASE Len(t.stack) > 1
  <2>1. /\ WellFormed(s) /\ SameLogin(s, t) /\ Prefix(s, t, Len(t.stack) - 1)
        /\ s.mask = t.stack[Len(t.stack) - 1].mask
    BY <1>4, PopIs
  <2>2. Meant(t) => Meant(s)
    <3>1. Len(t.stack) - 1 \in 1..(Len(t.stack) - 1)
      BY <1>1, <1>4
    <3>2. s.stack[Len(t.stack) - 1] = t.stack[Len(t.stack) - 1]
      BY <2>1, <3>1 DEF Prefix
    <3>3. Meant(t) => s.mask = s.stack[Len(s.stack)].meant
      BY <2>1, <3>1, <3>2 DEF Meant, Prefix
    <3>4. \A i \in 1..(Len(s.stack) - 1) : s.stack[i] = t.stack[i] /\ i \in 1..(Len(t.stack) - 1)
      BY <1>1, <2>1 DEF Prefix
    <3> QED BY <3>3, <3>4 DEF Meant
  <2> QED BY <1>1, <2>1, <2>2 DEF Kept, SameLogin, Remembers
<1>5. Len(t.stack) = 1 \/ Len(t.stack) > 1
  <2>1. \A k \in Nat : k > 0 => k = 1 \/ k > 1
    OBVIOUS
  <2> QED BY <1>1, <2>1, Zenon
<1> QED BY <1>2, <1>3, <1>4, <1>5, Zenon

(* Kept is transitive. *)
LEMMA KeptThrough ==
  ASSUME NEW t, NEW u, NEW s, WellFormed(t), Kept(u, t), Kept(s, u)
  PROVE  Kept(s, t)
<1>1. t.logins \in Nat /\ u.logins \in Nat /\ s.logins \in Nat
  BY DEF Kept, WellFormed, Terminals
<1> QED BY <1>1 DEF Kept

LEMMA WrongPasswordKeeps ==
  ASSUME NEW t, WellFormed(t)
  PROVE  Kept(WrongPassword(t), t)
<1> DEFINE s == pop(t)
           m == set_mask(s, "off")
<1>1. Kept(s, t) /\ WellFormed(s)
  BY PopKeeps DEF Kept
<1>2. Kept(m, t) /\ WellFormed(m)
  <2> HIDE DEF s
  <2>1. Kept(m, s)
    BY <1>1, SetMaskKeeps
  <2> HIDE DEF m
  <2> QED BY <1>1, <2>1, KeptThrough DEF Kept
<1>3. Kept([s EXCEPT !.thrown = TRUE], t)
  <2> HIDE DEF s
  <2> DEFINE u == [s EXCEPT !.thrown = TRUE]
  <2>1. s \in Terminals
    BY <1>1 DEF WellFormed
  <2>2. /\ u \in Terminals /\ u.stack = s.stack /\ u.mask = s.mask /\ u.logins = s.logins
        /\ u.in_login = s.in_login /\ u.history = s.history
    BY <2>1 DEF Terminals
  <2>3. Kept(u, t)
    <3> HIDE DEF u
    <3> QED BY <1>1, <2>2, FlagsDoNotMatter DEF Kept, Remembers
  <2> QED BY <2>3
<1>4. Kept([m EXCEPT !.handler = FALSE], t)
  <2> HIDE DEF m
  <2> DEFINE u == [m EXCEPT !.handler = FALSE]
  <2>1. m \in Terminals
    BY <1>2 DEF WellFormed
  <2>2. /\ u \in Terminals /\ u.stack = m.stack /\ u.mask = m.mask /\ u.logins = m.logins
        /\ u.in_login = m.in_login /\ u.history = m.history
    BY <2>1 DEF Terminals
  <2>3. Kept(u, t)
    <3> HIDE DEF u
    <3> QED BY <1>2, <2>2, FlagsDoNotMatter DEF Kept, Remembers
  <2> QED BY <2>3
<1> QED BY <1>3, <1>4 DEF WrongPassword

(* What LoggedIn leaves remembers its history, whatever t did. *)
LEMMA LoggedInKeeps ==
  ASSUME NEW t, WellFormed(t)
  PROVE  Kept(LoggedIn(t), t) /\ Remembers(LoggedIn(t))
<1> DEFINE s == popAll(t)
           u == LoggedIn(t)
<1>1. /\ WellFormed(s) /\ SameLogin(s, t) /\ Prefix(s, t, 1)
      /\ s.mask = IF Len(t.stack) = 1 THEN t.mask ELSE t.stack[1].mask
  BY PopAllIs
<1>2. t.logins \in Nat /\ Len(t.stack) \in Nat /\ Len(t.stack) > 0 /\ s \in Terminals
  BY <1>1 DEF WellFormed, Terminals
<1>3. Meant(t) => Meant(s)
  <2>1. s.stack[1] = t.stack[1] /\ Len(s.stack) = 1
    BY <1>1 DEF Prefix
  <2>2. Meant(t) => s.mask = t.stack[1].meant
    <3>1. \A k \in Nat : k > 0 => k = 1 \/ 1 \in 1..(k - 1)
      OBVIOUS
    <3>2. Len(t.stack) = 1 \/ 1 \in 1..(Len(t.stack) - 1)
      BY <1>2, <3>1, Zenon
    <3>3. ASSUME Len(t.stack) = 1, Meant(t) PROVE s.mask = t.stack[1].meant
      <4>1. s.mask = t.mask
        BY <1>1, <3>3, Zenon
      <4> QED BY <3>3, <4>1, Zenon DEF Meant
    <3>4. ASSUME Len(t.stack) # 1, Meant(t) PROVE s.mask = t.stack[1].meant
      <4>1. s.mask = t.stack[1].mask
        BY <1>1, <3>4, Zenon
      <4> QED BY <3>2, <3>4, <4>1, Zenon DEF Meant
    <3> QED BY <3>3, <3>4
  <2> QED BY <2>1, <2>2 DEF Meant
<1>4. /\ u \in Terminals /\ u.stack = s.stack /\ u.mask = s.mask /\ u.logins = s.logins
      /\ u.history = TRUE
  BY <1>2 DEF Terminals, LoggedIn
<1>5. WellFormed(u) /\ (Meant(s) => Meant(u))
  BY <1>1, <1>4, FlagsDoNotMatter
<1> QED BY <1>1, <1>2, <1>3, <1>4, <1>5 DEF Kept, Remembers, SameLogin

\* What the login of a pushed interpreter keeps when it fails: all but the history.
LEMMA NestedFailsKeeps ==
  ASSUME NEW t, WellFormed(t)
  PROVE  LET s == NestedFails(t)
         IN WellFormed(s) /\ (Meant(t) => Meant(s)) /\ t.logins <= s.logins
<1> DEFINE none == [t EXCEPT !.in_login = FALSE]
           one == pop(none)
           two == pop(one)
           three == pop(two)
           Ok(s) == WellFormed(s) /\ (Meant(t) => Meant(s)) /\ t.logins <= s.logins
<1>1. t \in Terminals /\ t.logins \in Nat
  BY DEF WellFormed, Terminals
<1>2. Ok(none)
  <2>1. none \in Terminals /\ none.stack = t.stack /\ none.mask = t.mask /\ none.logins = t.logins
    BY <1>1 DEF Terminals
  <2> HIDE DEF none
  <2> QED BY <1>1, <2>1, FlagsDoNotMatter
<1>3. ASSUME NEW s, Ok(s) PROVE Ok(pop(s))
  <2>1. Kept(pop(s), s)
    BY <1>3, PopKeeps
  <2>2. t.logins \in Nat /\ s.logins \in Nat /\ pop(s).logins \in Nat
    BY <1>1, <1>3, <2>1 DEF Kept, WellFormed, Terminals
  <2> QED BY <1>3, <2>1, <2>2 DEF Kept
<1>4. Ok(one) /\ Ok(two) /\ Ok(three)
  <2>1. Ok(one)
    <3> HIDE DEF none, Ok
    <3> QED BY <1>2, <1>3
  <2>2. Ok(two)
    <3> HIDE DEF one, Ok
    <3> QED BY <1>3, <2>1
  <2>3. Ok(three)
    <3> HIDE DEF two, Ok
    <3> QED BY <1>3, <2>2
  <2> QED BY <2>1, <2>2, <2>3
<1>5. ASSUME NEW s, Ok(s) PROVE Ok([s EXCEPT !.thrown = TRUE]) /\ Ok([s EXCEPT !.handler = FALSE])
  <2>1. s \in Terminals
    BY <1>5 DEF WellFormed
  <2>2. ASSUME NEW u \in Terminals, u.stack = s.stack, u.mask = s.mask, u.logins = s.logins
        PROVE  Ok(u)
    BY <1>5, <2>2, FlagsDoNotMatter
  <2>3. LET u == [s EXCEPT !.thrown = TRUE]
        IN u \in Terminals /\ u.stack = s.stack /\ u.mask = s.mask /\ u.logins = s.logins
    BY <2>1 DEF Terminals
  <2>4. LET u == [s EXCEPT !.handler = FALSE]
        IN u \in Terminals /\ u.stack = s.stack /\ u.mask = s.mask /\ u.logins = s.logins
    BY <2>1 DEF Terminals
  <2> HIDE DEF Ok
  <2> QED BY <2>2, <2>3, <2>4
<1>6. NestedFails(t) = one \/ NestedFails(t) = [one EXCEPT !.thrown = TRUE]
      \/ NestedFails(t) = three \/ NestedFails(t) = [three EXCEPT !.handler = FALSE]
  BY DEF NestedFails
<1>7. Ok(NestedFails(t))
  <2> HIDE DEF one, three, Ok
  <2> QED BY <1>4, <1>5, <1>6
<1> QED BY <1>7

-----------------------------------------------------------------------------
(* What every event keeps.                                                 *)

\* The inductive invariant but for the logins that nobody disturbs.
Basics ==
  /\ WellFormed(term) /\ term.thrown = FALSE /\ term.logins <= MaxLogins
  /\ "stripped" \notin odd => Meant(term)
  /\ "failed" \notin odd => Remembers(term)
  /\ nested \in [Logins -> BOOLEAN]
  /\ \A n \in Logins : term.logins < n => ~nested[n]
  /\ calls \in [Logins -> 0..MaxCalls]
  /\ hasLogin \in BOOLEAN
  /\ odd \subseteq Odd

(* The end of a turn clears what was thrown and nothing else. *)
LEMMA TurnIs ==
  ASSUME NEW t, WellFormed(t), Turn(t)
  PROVE  /\ WellFormed(term') /\ term'.thrown = FALSE /\ t.logins <= MaxLogins
         /\ term'.stack = t.stack /\ term'.mask = t.mask /\ term'.logins = t.logins
         /\ term'.in_login = t.in_login /\ term'.history = t.history
         /\ term'.token = t.token
         /\ Meant(t) => Meant(term')
         /\ Remembers(t) => Remembers(term')
<1>1. t \in Terminals /\ term' = [t EXCEPT !.thrown = FALSE] /\ t.logins <= MaxLogins
  BY DEF WellFormed, Turn
<1>2. /\ term' \in Terminals /\ term'.thrown = FALSE
      /\ term'.stack = t.stack /\ term'.mask = t.mask /\ term'.logins = t.logins
      /\ term'.in_login = t.in_login /\ term'.history = t.history
      /\ term'.token = t.token
  BY <1>1 DEF Terminals
<1>3. WellFormed(term') /\ (Meant(t) => Meant(term'))
  BY <1>2, FlagsDoNotMatter
<1> QED BY <1>1, <1>2, <1>3 DEF Remembers

(* A turn that keeps what methods keep, for the stack and for the history  *)
(* as far as nothing odd happens, keeps Basics.                            *)
LEMMA TurnKeepsBasics ==
  ASSUME Basics, NEW t, WellFormed(t), Turn(t), term.logins <= t.logins,
         odd \subseteq odd', odd' \subseteq Odd,
         "stripped" \notin odd' /\ Meant(term) => Meant(t),
         "failed" \notin odd' /\ Remembers(term) => Remembers(t),
         nested' \in [Logins -> BOOLEAN],
         \A n \in Logins : t.logins < n => (nested'[n] <=> nested[n]),
         calls' \in [Logins -> 0..MaxCalls]
  PROVE  Basics'
<1>1. /\ WellFormed(term)' /\ term'.thrown = FALSE /\ t.logins <= MaxLogins
      /\ term'.logins = t.logins
      /\ Meant(t) => Meant(term)'
      /\ Remembers(t) => Remembers(term)'
  BY TurnIs
<1>2. hasLogin' \in BOOLEAN
  BY DEF Basics, Turn
<1>3. ("stripped" \notin odd => Meant(term))' /\ ("failed" \notin odd => Remembers(term))'
  BY <1>1 DEF Basics
<1>4. \A n \in Logins : term'.logins < n => ~nested'[n]
  <2>1. term.logins \in Nat /\ t.logins \in Nat
    BY DEF Basics, WellFormed, Terminals
  <2> QED BY <1>1, <2>1, LoginAssumption DEF Basics, Logins
<1> QED BY <1>1, <1>2, <1>3, <1>4 DEF Basics

(* A turn that is one method keeps Basics. *)
LEMMA MethodKeepsBasics ==
  ASSUME Basics, NEW t, Kept(t, term), Turn(t), odd \subseteq odd', odd' \subseteq Odd,
         nested' = nested, calls' \in [Logins -> 0..MaxCalls]
  PROVE  Basics'
BY TurnKeepsBasics DEF Kept, Basics

LEMMA TopIs ==
  ASSUME NEW t, WellFormed(t)
  PROVE  /\ top(t) = t.stack[Len(t.stack)] /\ Len(t.stack) \in 1..Len(t.stack)
         /\ top(t).role \in Roles /\ top(t).login \in Nat /\ top(t).login <= t.logins
<1>1. t.stack \in Seq(Interpreters) /\ Len(t.stack) \in 1..Len(t.stack)
  BY DEF WellFormed, Terminals
<1>2. t.stack[Len(t.stack)] \in Interpreters
  BY <1>1
<1> QED BY <1>1, <1>2 DEF top, Last, Interpreters, WellFormed

(* The answer of an authentication, whoever gives it. *)
LEMMA CallbackKeeps ==
  ASSUME NEW t, WellFormed(t), NEW n, NEW ok
  PROVE  LET s == login_callback(t, n, ok)
         IN /\ WellFormed(s) /\ (Meant(t) => Meant(s)) /\ t.logins <= s.logins
            /\ ~(nested[n] /\ ~ok) /\ Remembers(t) => Remembers(s)
<1>1. Kept(LoggedIn(t), t)
  BY LoggedInKeeps
<1>2. Kept(WrongPassword(t), t)
  BY WrongPasswordKeeps
<1>3. LET s == NestedFails(t)
      IN WellFormed(s) /\ (Meant(t) => Meant(s)) /\ t.logins <= s.logins
  BY NestedFailsKeeps
<1> QED BY <1>1, <1>2, <1>3 DEF login_callback, Kept

(* Roles of the interpreters that the events push. *)
LEMMA PushedRoles == {"sub", "read", "user", "password"} \subseteq Roles \ {"main"}
BY DEF Roles, Prompts

(* reset leaves the main interpreter, and its mask if that was its own. *)
LEMMA ResetIs ==
  ASSUME NEW t, WellFormed(t)
  PROVE  LET s == [t EXCEPT !.stack = <<Head(@)>>]
         IN /\ WellFormed(s) /\ SameLogin(s, t) /\ Prefix(s, t, 1) /\ s.mask = t.mask
            /\ t.mask = Head(t.stack).meant => Meant(s)
<1> DEFINE main == t.stack[1]
           s == [t EXCEPT !.stack = <<main>>]
<1>1. t \in Terminals /\ t.stack \in Seq(Interpreters) /\ 1 \in 1..Len(t.stack)
  BY DEF WellFormed, Terminals
<1>2. main \in Interpreters /\ Head(t.stack) = main
  BY <1>1
<1>3. s = [t EXCEPT !.stack = <<Head(@)>>]
  BY <1>2
<1>4. <<main>> \in Seq(Interpreters) /\ Len(<<main>>) = 1 /\ <<main>>[1] = main
  <2> HIDE DEF main
  <2> QED BY <1>2
<1>5. /\ s \in Terminals /\ s.stack = <<main>> /\ s.mask = t.mask /\ SameLogin(s, t)
  <2> HIDE DEF main
  <2> QED BY <1>1, <1>4 DEF Terminals, SameLogin
<1>6. WellFormed(s)
  <2>1. main.role = "main" /\ main.login <= t.logins
    BY <1>1 DEF WellFormed
  <2> HIDE DEF main, s
  <2> QED BY <1>4, <1>5, <2>1 DEF WellFormed, SameLogin
<1>7. Prefix(s, t, 1)
  <2> HIDE DEF s
  <2> QED BY <1>4, <1>5 DEF Prefix
<1>8. t.mask = Head(t.stack).meant => Meant(s)
  <2> HIDE DEF s, main
  <2> QED BY <1>2, <1>4, <1>5 DEF Meant
<1> QED BY <1>3, <1>5, <1>6, <1>7, <1>8

(* The terminal before its login. *)
LEMMA FreshIs ==
  ASSUME hasLogin \in BOOLEAN, NEW stored \in BOOLEAN
  PROVE  LET t == [Fresh EXCEPT !.token = stored /\ hasLogin]
         IN /\ WellFormed(t) /\ Meant(t) /\ Remembers(t)
            /\ Len(t.stack) = 1 /\ t.stack[1].role = "main"
            /\ t.logins = 0 /\ t.in_login = FALSE /\ t.thrown = FALSE
<1> DEFINE main == Interpreter("main", 0, "off")
           t == [Fresh EXCEPT !.token = stored /\ hasLogin]
<1>1. main \in Interpreters /\ main.role = "main" /\ main.login = 0 /\ main.meant = "off"
  BY DEF Interpreter, Interpreters, Roles
<1>2. <<main>> \in Seq(Interpreters) /\ Len(<<main>>) = 1 /\ <<main>>[1] = main
  <2> HIDE DEF main
  <2> QED BY <1>1
<1>3. /\ t \in Terminals /\ t.stack = <<main>> /\ t.mask = "off" /\ t.logins = 0
      /\ t.history = TRUE /\ t.in_login = FALSE /\ t.thrown = FALSE
  <2>1. /\ Fresh \in Terminals /\ Fresh.stack = <<main>> /\ Fresh.mask = "off" /\ Fresh.logins = 0
        /\ Fresh.history = TRUE /\ Fresh.in_login = FALSE /\ Fresh.thrown = FALSE
    BY <1>2 DEF Fresh, Terminals
  <2> DEFINE token == stored /\ hasLogin
  <2>2. token \in BOOLEAN
    OBVIOUS
  <2> HIDE DEF main, token
  <2>3. /\ [Fresh EXCEPT !.token = token] \in Terminals
        /\ [Fresh EXCEPT !.token = token].stack = Fresh.stack
        /\ [Fresh EXCEPT !.token = token].mask = Fresh.mask
        /\ [Fresh EXCEPT !.token = token].logins = Fresh.logins
        /\ [Fresh EXCEPT !.token = token].history = Fresh.history
        /\ [Fresh EXCEPT !.token = token].in_login = Fresh.in_login
        /\ [Fresh EXCEPT !.token = token].thrown = Fresh.thrown
    BY <2>1, <2>2 DEF Terminals
  <2> QED BY <2>1, <2>3 DEF token
<1>4. WellFormed(t) /\ Meant(t) /\ Remembers(t)
  <2> HIDE DEF main, t
  <2> QED BY <1>1, <1>2, <1>3 DEF WellFormed, Meant, Remembers
<1>5. Len(t.stack) = 1 /\ t.stack[1].role = "main"
  <2> HIDE DEF main, t
  <2> QED BY <1>1, <1>2, <1>3
<1> HIDE DEF main
<1> QED BY <1>3, <1>4, <1>5

LEMMA InitBasics == Init => Basics
<1> SUFFICES ASSUME Init PROVE Basics
  OBVIOUS
<1>1. PICK stored \in BOOLEAN :
        LET t == [Fresh EXCEPT !.token = stored /\ hasLogin]
        IN term = IF hasLogin THEN login(t) ELSE t
  BY DEF Init
<1> DEFINE t == [Fresh EXCEPT !.token = stored /\ hasLogin]
<1>2. hasLogin \in BOOLEAN
  BY DEF Init
<1>3. /\ WellFormed(t) /\ Meant(t) /\ Remembers(t)
      /\ t.logins = 0 /\ t.in_login = FALSE /\ t.thrown = FALSE
  BY <1>2, FreshIs
<1>4. /\ WellFormed(term) /\ term.thrown = FALSE /\ term.logins <= MaxLogins
      /\ Meant(term) /\ Remembers(term)
  <2>1. CASE ~hasLogin
    <3>1. term = t
      BY <1>1, <2>1, Zenon
    <3> HIDE DEF t
    <3> QED BY <1>3, <3>1, LoginAssumption
  <2>2. CASE hasLogin
    <3>1. term = login(t)
      BY <1>1, <2>2
    <3>2. Kept(login(t), t)
      <4> HIDE DEF t
      <4> QED BY <1>3, LoginKeeps
    <3>3. login(t).thrown = FALSE /\ login(t).logins <= MaxLogins
      <4> HIDE DEF t
      <4>1. CASE t.token /\ Len(t.stack) = 1
        BY <1>3, <4>1, LoginAssumption DEF login
      <4>2. CASE ~(t.token /\ Len(t.stack) = 1)
        BY <1>3, <4>2, LoginIs, LoginAssumption
      <4> QED BY <4>1, <4>2
    <3> HIDE DEF t
    <3> QED BY <1>3, <3>1, <3>2, <3>3 DEF Kept
  <2> QED BY <2>1, <2>2
<1>5. /\ nested \in [Logins -> BOOLEAN] /\ \A n \in Logins : ~nested[n]
      /\ calls \in [Logins -> 0..MaxCalls] /\ odd = {}
  BY LoginAssumption DEF Init
<1> QED BY <1>2, <1>4, <1>5 DEF Basics, Odd

LEMMA NextBasics == Basics /\ [Next]_vars => Basics'
<1> SUFFICES ASSUME Basics, [Next]_vars PROVE Basics'
  OBVIOUS
<1> USE DEF vars
<1>1. /\ WellFormed(term) /\ odd \subseteq Odd
      /\ nested \in [Logins -> BOOLEAN] /\ calls \in [Logins -> 0..MaxCalls]
  BY DEF Basics
<1>2. /\ top(term).role \in Roles /\ top(term).login \in Nat /\ top(term).login <= term.logins
  BY <1>1, TopIs
<1>3. ASSUME NEW t, Kept(t, term), ByUser(t) PROVE Basics'
  BY <1>1, <1>3, MethodKeepsBasics DEF ByUser
<1>4. ASSUME NEW t, Kept(t, term), ByProgram(t) PROVE Basics'
  BY <1>1, <1>4, MethodKeepsBasics DEF ByProgram, Note, Odd
<1>5. CASE EnterUser
  <2> DEFINE s == set_mask(term, "on")
  <2>1. Kept(s, term) /\ WellFormed(s) /\ SameLogin(s, term)
    BY <1>1, SetMaskKeeps, SetMaskIs DEF Kept
  <2>2. Kept(push(s, "password", top(term).login), s)
    BY <1>2, <2>1, PushedRoles, PushKeeps DEF SameLogin
  <2>3. Kept(push(s, "password", top(term).login), term)
    BY <1>1, <2>1, <2>2, KeptThrough
  <2> QED BY <1>3, <1>5, <2>3 DEF EnterUser
<1>6. CASE EnterPassword
  <2>1. calls' \in [Logins -> 0..MaxCalls]
    <3> DEFINE n == top(term).login
    <3>1. calls[n] < MaxCalls /\ calls' = [calls EXCEPT ![n] = @ + 1]
      BY <1>6 DEF EnterPassword
    <3>2. n \in Logins => calls[n] + 1 \in 0..MaxCalls
      BY <1>1, <3>1, LoginAssumption
    <3> HIDE DEF n
    <3> QED BY <1>1, <3>1, <3>2
  <2>2. UNCHANGED <<term, nested, hasLogin, odd>>
    BY <1>6 DEF EnterPassword
  <2> QED BY <2>1, <2>2 DEF Basics, WellFormed, Meant, Remembers
<1>7. CASE EnterRead \/ Exit \/ CtrlD \/ LoginCommand
  BY <1>1, <1>3, <1>7, PopKeeps DEF EnterRead, Exit, CtrlD, LoginCommand, logout
<1>8. CASE Pop
  BY <1>1, <1>4, <1>8, PopKeeps DEF Pop
<1>9. CASE Push \/ read
  <2>1. 0 \in Nat /\ 0 <= term.logins
    BY <1>1 DEF WellFormed, Terminals
  <2>2. Kept(push(term, "sub", 0), term) /\ Kept(push(term, "read", 0), term)
    BY <1>1, <2>1, PushedRoles, PushKeeps
  <2> QED BY <1>4, <1>9, <2>2 DEF Push, read
<1>10. CASE \E mask \in {"on", "off"} : SetMask(mask)
  BY <1>1, <1>4, <1>10, SetMaskKeeps DEF SetMask
<1>11. CASE PushLogin
  <2> DEFINE p == push(term, "sub", 0)
             t == login(p)
  <2>1. 0 \in Nat /\ 0 <= term.logins
    BY <1>1 DEF WellFormed, Terminals
  <2>2. Kept(p, term) /\ WellFormed(p)
    BY <1>1, <2>1, PushedRoles, PushKeeps DEF Kept
  <2>3. Kept(t, term)
    <3> HIDE DEF p
    <3> QED BY <1>1, <2>2, LoginKeeps, KeptThrough
  <2>4. /\ Turn(t) /\ odd' = Note(odd, "meddled", term.in_login) /\ UNCHANGED calls
        /\ nested' = IF t.thrown THEN nested ELSE [nested EXCEPT ![t.logins] = TRUE]
    BY <1>11 DEF PushLogin
  <2> HIDE DEF t
  <2>5. nested' \in [Logins -> BOOLEAN] /\ \A n \in Logins : t.logins < n => (nested'[n] <=> nested[n])
    <3>1. t.logins \in Nat /\ \A n \in Logins : t.logins < n => n # t.logins
      BY <2>3 DEF Kept, WellFormed, Terminals, Logins
    <3> QED BY <1>1, <2>4, <3>1
  <2>6. odd \subseteq odd' /\ odd' \subseteq Odd
    BY <1>1, <2>4 DEF Note, Odd
  <2> QED BY <1>1, <2>3, <2>4, <2>5, <2>6, TurnKeepsBasics DEF Kept
<1>12. ASSUME NEW n, NEW ok \in BOOLEAN, NEW asked, Turn(login_callback(term, n, ok)),
              odd' = Answered(n, ok, asked), nested' = nested,
              calls' \in [Logins -> 0..MaxCalls]
       PROVE  Basics'
  <2> DEFINE t == login_callback(term, n, ok)
  <2>1. /\ WellFormed(t) /\ (Meant(term) => Meant(t)) /\ term.logins <= t.logins
        /\ ~(nested[n] /\ ~ok) /\ Remembers(term) => Remembers(t)
    BY <1>1, CallbackKeeps
  <2>2. /\ odd \subseteq odd' /\ odd' \subseteq Odd
        /\ "failed" \notin odd' => ~(nested[n] /\ ~ok)
    BY <1>1, <1>12 DEF Answered, Note, Odd
  <2>3. "failed" \notin odd' /\ Remembers(term) => Remembers(t)
    <3> HIDE DEF t
    <3> QED BY <2>1, <2>2, Zenon
  <2>4. "stripped" \notin odd' /\ Meant(term) => Meant(t)
    BY <2>1, Zenon
  <2>5. nested' \in [Logins -> BOOLEAN] /\ \A k \in Logins : t.logins < k => (nested'[k] <=> nested[k])
    BY <1>1, <1>12
  <2> HIDE DEF t
  <2>6. Turn(t)
    BY <1>12 DEF t
  <2> QED BY <1>12, <2>1, <2>2, <2>3, <2>4, <2>5, <2>6, TurnKeepsBasics
<1>13. CASE \E ok \in BOOLEAN : autologin(ok)
  BY <1>1, <1>12, <1>13 DEF autologin
<1>14. CASE \E ok \in BOOLEAN : \E n \in Logins : Answer(n, ok)
  <2> PICK ok \in BOOLEAN, n \in Logins : Answer(n, ok)
    BY <1>14
  <2>1. calls[n] \in 0..MaxCalls /\ calls[n] > 0 /\ calls' = [calls EXCEPT ![n] = @ - 1]
    BY <1>1 DEF Answer
  <2>2. calls' \in [Logins -> 0..MaxCalls]
    BY <1>1, <2>1, LoginAssumption
  <2> QED BY <1>12, <2>2 DEF Answer
<1>15. CASE reset
  <2> DEFINE t == [term EXCEPT !.stack = <<Head(@)>>]
  <2>1. /\ WellFormed(t) /\ SameLogin(t, term)
        /\ term.mask = Head(term.stack).meant => Meant(t)
    BY <1>1, ResetIs
  <2>2. /\ Turn(t) /\ nested' = nested /\ calls' = calls
        /\ odd' = Note(Note(odd, "meddled", term.in_login), "stripped", term.mask # Head(term.stack).meant)
    BY <1>15 DEF reset
  <2>3. /\ odd \subseteq odd' /\ odd' \subseteq Odd
        /\ "stripped" \notin odd' => term.mask = Head(term.stack).meant
    BY <1>1, <2>2 DEF Note, Odd
  <2>4. term.logins <= t.logins
    BY <1>1, <2>1 DEF SameLogin, WellFormed, Terminals
  <2> HIDE DEF t
  <2> QED BY <1>1, <2>1, <2>2, <2>3, <2>4, TurnKeepsBasics DEF SameLogin, Remembers
<1>16. CASE UNCHANGED vars
  BY <1>16 DEF Basics, WellFormed, Meant, Remembers
<1> QED
  BY <1>5, <1>6, <1>7, <1>8, <1>9, <1>10, <1>11, <1>13, <1>14, <1>15, <1>16 DEF Next

-----------------------------------------------------------------------------
(* A login that nobody disturbs.                                           *)

NoPrompt(t, k) == \A i \in 1..k : t.stack[i].role \notin Prompts

\* The prompts of login t.logins are on top of k interpreters: of the main one
\* if it is the terminal's.
AtPrompt(t, k, guards) ==
  /\ t.logins > 0 /\ k > 0 /\ ~t.history
  /\ NoPrompt(t, k)
  /\ guards[t.logins] <=> k > 1
  /\ t.stack[k + 1].role = "user" /\ t.stack[k + 1].login = t.logins
  /\ \/ Len(t.stack) = k + 1
     \/ /\ Len(t.stack) = k + 2
        /\ t.stack[k + 2].role = "password" /\ t.stack[k + 2].login = t.logins
        /\ t.mask = "on"

\* A terminal whose logins nobody disturbs is at their prompts or has none; and
\* if its own login is wanted it has the token or is in that login.
Undisturbed(t, guards, wanted) ==
  /\ t.in_login => \E k \in Nat : AtPrompt(t, k, guards)
  /\ ~t.in_login => NoPrompt(t, Len(t.stack))
  /\ wanted /\ ~t.token => t.in_login /\ ~guards[t.logins]

IInv == Basics /\ (Quiet => Undisturbed(term, nested, hasLogin))

(* The flags of a turn and of the callback do not matter. *)
LEMMA UndisturbedIsSame ==
  ASSUME NEW t, NEW s, NEW guards, NEW wanted, Undisturbed(t, guards, wanted),
         s.stack = t.stack, s.mask = t.mask, s.logins = t.logins, s.in_login = t.in_login,
         s.history = t.history, s.token = t.token
  PROVE  Undisturbed(s, guards, wanted)
BY DEF Undisturbed, AtPrompt, NoPrompt

(* What is on top of a terminal in a login that nobody disturbs. *)
LEMMA PromptOnTop ==
  ASSUME NEW t, WellFormed(t), NEW guards, NEW k \in Nat, AtPrompt(t, k, guards)
  PROVE  /\ Len(t.stack) > 1
         /\ Len(t.stack) = k + 1 => top(t).role = "user"
         /\ Len(t.stack) = k + 2 => top(t).role = "password" /\ t.mask = "on"
         /\ top(t).login = t.logins /\ top(t).role \in Prompts
<1>1. top(t) = t.stack[Len(t.stack)]
  BY TopIs
<1>2. CASE Len(t.stack) = k + 1
  BY <1>1, <1>2 DEF AtPrompt, Prompts
<1>3. CASE Len(t.stack) = k + 2
  BY <1>1, <1>3 DEF AtPrompt, Prompts
<1> QED BY <1>2, <1>3 DEF AtPrompt

(* pop outside a login: of a pushed interpreter, of the last one, or a login. *)
LEMMA UndisturbedPop ==
  ASSUME NEW t, WellFormed(t), ~t.in_login, NEW guards, Undisturbed(t, guards, hasLogin),
         pop(t).logins = t.logins + 1 => ~guards[t.logins + 1]
  PROVE  Undisturbed(pop(t), guards, hasLogin)
<1> DEFINE s == pop(t)
<1>1. /\ t \in Terminals /\ t.logins \in Nat /\ Len(t.stack) \in Nat /\ Len(t.stack) > 0
      /\ t.stack[1].role = "main"
  BY DEF WellFormed, Terminals
<1>2. CASE Len(t.stack) > 1
  <2>1. SameLogin(s, t) /\ Prefix(s, t, Len(t.stack) - 1)
    BY <1>2, PopIs
  <2>2. NoPrompt(s, Len(s.stack))
    BY <1>1, <2>1 DEF Undisturbed, NoPrompt, Prefix
  <2> QED BY <2>1, <2>2 DEF Undisturbed, SameLogin
<1>3. CASE Len(t.stack) = 1 /\ ~hasLogin
  BY <1>3 DEF pop
<1>4. CASE Len(t.stack) = 1 /\ hasLogin
  <2> DEFINE u == clear_loging_storage(t)
  <2>1. /\ u \in Terminals /\ u.stack = t.stack /\ u.mask = t.mask /\ u.logins = t.logins
        /\ u.in_login = t.in_login /\ u.token = FALSE
    BY <1>1 DEF Terminals, clear_loging_storage
  <2>2. WellFormed(u)
    BY <2>1, FlagsDoNotMatter
  <2>3. s = login(u)
    BY <1>4 DEF pop, global_logout
  <2>4. /\ Pushed(s, u, "user", t.logins + 1) /\ s.in_login /\ ~s.history
        /\ s.logins = t.logins + 1
    BY <2>1, <2>2, <2>3, LoginIs
  <2> HIDE DEF u
  <2>5. /\ s.stack[1].role = "main" /\ Len(s.stack) = 2
        /\ s.stack[2].role = "user" /\ s.stack[2].login = s.logins
    BY <1>1, <1>4, <2>1, <2>4 DEF Pushed
  <2>6. AtPrompt(s, 1, guards)
    BY <1>1, <1>4, <2>4, <2>5 DEF AtPrompt, NoPrompt, Prompts
  <2> QED BY <1>4, <2>4, <2>6 DEF Undisturbed
<1>5. Len(t.stack) = 1 \/ Len(t.stack) > 1
  <2>1. \A k \in Nat : k > 0 => k = 1 \/ k > 1
    OBVIOUS
  <2> QED BY <1>1, <2>1, Zenon
<1> QED BY <1>2, <1>3, <1>4, <1>5, Zenon

(* push outside a login. *)
LEMMA UndisturbedPush ==
  ASSUME NEW t, WellFormed(t), ~t.in_login, NEW guards, NEW wanted, Undisturbed(t, guards, wanted),
         NEW role \in {"sub", "read"}
  PROVE  Undisturbed(push(t, role, 0), guards, wanted)
<1> DEFINE s == push(t, role, 0)
<1>1. 0 \in Nat /\ 0 <= t.logins /\ Len(t.stack) \in Nat /\ role \in Roles \ {"main"}
  BY PushedRoles DEF WellFormed, Terminals
<1>2. SameLogin(s, t) /\ Pushed(s, t, role, 0)
  BY <1>1, PushIs
<1>3. NoPrompt(s, Len(s.stack))
  <2> SUFFICES ASSUME NEW i \in 1..(Len(t.stack) + 1) PROVE s.stack[i].role \notin Prompts
    BY <1>2 DEF NoPrompt, Pushed
  <2>1. NoPrompt(t, Len(t.stack))
    BY DEF Undisturbed
  <2>2. CASE i = Len(t.stack) + 1
    BY <1>2, <2>2 DEF Pushed, Prompts
  <2>3. CASE i = Len(t.stack)
    BY <1>1, <1>2, <2>1, <2>3 DEF Pushed, NoPrompt
  <2>4. CASE i < Len(t.stack)
    <3>1. i \in 1..(Len(t.stack) - 1) /\ i \in 1..Len(t.stack)
      BY <1>1, <2>4
    <3> QED BY <1>2, <2>1, <3>1 DEF Pushed, NoPrompt
  <2> QED BY <1>1, <2>2, <2>3, <2>4
<1> QED BY <1>2, <1>3 DEF Undisturbed, SameLogin

(* The login of an interpreter that is pushed outside a login. *)
LEMMA UndisturbedPushLogin ==
  ASSUME NEW t, WellFormed(t), ~t.in_login, NEW guards, NEW wanted, Undisturbed(t, guards, wanted),
         NEW new, new[t.logins + 1] = TRUE
  PROVE  LET s == login(push(t, "sub", 0))
         IN Undisturbed(s, new, wanted) /\ s.thrown = t.thrown /\ s.logins = t.logins + 1
<1> DEFINE p == push(t, "sub", 0)
           s == login(p)
<1>1. 0 \in Nat /\ 0 <= t.logins /\ t.logins \in Nat /\ Len(t.stack) \in Nat /\ Len(t.stack) > 0
  BY DEF WellFormed, Terminals
<1>2. WellFormed(p) /\ SameLogin(p, t) /\ Pushed(p, t, "sub", 0)
  BY <1>1, PushedRoles, PushIs
<1>3. Undisturbed(p, guards, wanted)
  BY UndisturbedPush
<1>4. Len(p.stack) = Len(t.stack) + 1 /\ ~p.in_login /\ p.logins = t.logins
  BY <1>2 DEF SameLogin, Pushed
<1>5. /\ Pushed(s, p, "user", p.logins + 1) /\ s.in_login /\ ~s.history
      /\ s.logins = t.logins + 1 /\ s.token = t.token /\ s.thrown = t.thrown
  <2>1. Len(p.stack) # 1
    <3>1. \A k \in Nat : k > 0 => k + 1 # 1
      OBVIOUS
    <3> QED BY <1>1, <1>4, <3>1, Zenon
  <2>2. SameLogin(p, t)
    BY <1>2
  <2> HIDE DEF p
  <2> QED BY <1>2, <1>4, <2>1, <2>2, LoginIs DEF SameLogin
<1> HIDE DEF p
<1>6. NoPrompt(s, Len(p.stack))
  <2>1. NoPrompt(p, Len(p.stack))
    BY <1>3, <1>4 DEF Undisturbed
  <2>2. ASSUME NEW i \in 1..Len(p.stack) PROVE s.stack[i].role = p.stack[i].role
    <3>1. i = Len(p.stack) \/ i \in 1..(Len(p.stack) - 1)
      BY <1>1, <1>4
    <3> QED BY <1>5, <3>1 DEF Pushed
  <2> QED BY <2>1, <2>2 DEF NoPrompt
<1>7. AtPrompt(s, Len(p.stack), new)
  BY <1>1, <1>4, <1>5, <1>6 DEF AtPrompt, Pushed
<1>8. ~(wanted /\ ~s.token)
  BY <1>5 DEF Undisturbed
<1> QED BY <1>1, <1>4, <1>5, <1>7, <1>8 DEF Undisturbed, p

(* An answer to a login that nobody disturbs: of an authentication whose   *)
(* password prompt is up, or one that succeeds.                            *)
LEMMA UndisturbedAnswer ==
  ASSUME NEW t, WellFormed(t), t.thrown = FALSE,
         NEW guards, guards = nested, Undisturbed(t, guards, hasLogin),
         NEW n, NEW ok \in BOOLEAN,
         ok \/ (top(t).role = "password" /\ n = t.logins)
  PROVE  Undisturbed(login_callback(t, n, ok), guards, hasLogin)
<1>1. t \in Terminals /\ t.logins \in Nat /\ Len(t.stack) \in Nat /\ Len(t.stack) > 0
  BY DEF WellFormed, Terminals
<1>2. CASE ok
  <2> DEFINE s == popAll(t)
             u == LoggedIn(t)
  <2>1. WellFormed(s) /\ Prefix(s, t, 1) /\ s \in Terminals
    BY PopAllIs DEF WellFormed
  <2>2. u.stack = s.stack /\ u.in_login = FALSE /\ u.token = TRUE
    BY <2>1 DEF Terminals, LoggedIn
  <2>3. Len(s.stack) = 1 /\ s.stack[1].role = "main"
    BY <2>1 DEF Prefix, WellFormed
  <2>4. NoPrompt(u, Len(u.stack))
    BY <2>2, <2>3 DEF NoPrompt, Prompts
  <2>5. login_callback(t, n, ok) = u
    BY <1>2 DEF login_callback
  <2> HIDE DEF u
  <2> QED BY <2>2, <2>4, <2>5 DEF Undisturbed
<1>3. CASE ~ok
  <2>1. top(t).role = "password" /\ n = t.logins
    BY <1>3
  <2>2. t.in_login
    <3> SUFFICES ASSUME ~t.in_login PROVE FALSE
      OBVIOUS
    <3>1. top(t).role \notin Prompts
      BY TopIs DEF Undisturbed, NoPrompt
    <3> QED BY <2>1, <3>1 DEF Prompts
  <2>3. PICK k \in Nat : AtPrompt(t, k, guards)
    BY <2>2 DEF Undisturbed
  <2>4. Len(t.stack) = k + 2 /\ k > 0 /\ Len(t.stack) > 1
    <3>1. Len(t.stack) # k + 1
      BY <2>1, <2>3, PromptOnTop
    <3> QED BY <2>3, <3>1, PromptOnTop DEF AtPrompt
  <2>5. CASE ~nested[n]
    <3> DEFINE s == pop(t)
               m == set_mask(s, "off")
               u == [m EXCEPT !.handler = FALSE]
    <3>1. WellFormed(s) /\ SameLogin(s, t) /\ Prefix(s, t, Len(t.stack) - 1)
      BY <2>4, PopIs
    <3>2. /\ WellFormed(m) /\ SameLogin(m, s) /\ Len(m.stack) = Len(s.stack)
          /\ \A i \in 1..(Len(s.stack) - 1) : m.stack[i] = s.stack[i]
          /\ m.stack[Len(s.stack)].role = s.stack[Len(s.stack)].role
          /\ m.stack[Len(s.stack)].login = s.stack[Len(s.stack)].login
      BY <3>1, SetMaskIs
    <3>3. /\ Len(m.stack) = k + 1 /\ \A i \in 1..k : m.stack[i] = t.stack[i]
          /\ m.stack[k + 1].role = t.stack[k + 1].role /\ m.stack[k + 1].login = t.stack[k + 1].login
      BY <2>4, <3>1, <3>2 DEF Prefix
    <3>4. AtPrompt(m, k, guards)
      BY <2>3, <3>1, <3>2, <3>3 DEF AtPrompt, NoPrompt, SameLogin
    <3>5. Undisturbed(m, guards, hasLogin)
      BY <2>2, <3>1, <3>2, <3>4 DEF Undisturbed, SameLogin
    <3>6. /\ u.stack = m.stack /\ u.mask = m.mask /\ u.logins = m.logins
          /\ u.in_login = m.in_login /\ u.history = m.history /\ u.token = m.token
      BY <3>2 DEF WellFormed, Terminals
    <3>7. Undisturbed(u, guards, hasLogin)
      <4> HIDE DEF u, m
      <4> QED BY <3>5, <3>6, UndisturbedIsSame
    <3>8. login_callback(t, n, ok) = u
      <4>1. ~s.thrown /\ PopsTerminal(t)
        BY <2>4, <3>1 DEF SameLogin, PopsTerminal
      <4> QED BY <1>3, <2>5, <4>1 DEF login_callback, WrongPassword
    <3> HIDE DEF u
    <3> QED BY <3>7, <3>8
  <2>6. CASE nested[n]
    <3> DEFINE none == [t EXCEPT !.in_login = FALSE]
               one == pop(none)
               two == pop(one)
               three == pop(two)
               u == [three EXCEPT !.handler = FALSE]
    <3>1. /\ none \in Terminals /\ none.stack = t.stack /\ none.mask = t.mask
          /\ none.logins = t.logins /\ none.in_login = FALSE /\ none.token = t.token
          /\ none.thrown = t.thrown
      BY <1>1 DEF Terminals
    <3>2. WellFormed(none)
      <4> HIDE DEF none
      <4> QED BY <3>1, FlagsDoNotMatter
    <3>3. k > 1
      BY <2>1, <2>3, <2>6 DEF AtPrompt
    <3>4. WellFormed(one) /\ SameLogin(one, none) /\ Prefix(one, none, k + 1)
      <4>1. Len(none.stack) > 1 /\ Len(none.stack) - 1 = k + 1
        BY <2>4, <3>1
      <4> HIDE DEF none
      <4> QED BY <3>2, <4>1, PopIs
    <3>5. WellFormed(two) /\ SameLogin(two, one) /\ Prefix(two, one, k)
      <4>1. Len(one.stack) > 1 /\ Len(one.stack) - 1 = k
        BY <3>3, <3>4 DEF Prefix
      <4> HIDE DEF one
      <4> QED BY <3>4, <4>1, PopIs
    <3>6. WellFormed(three) /\ SameLogin(three, two) /\ Prefix(three, two, k - 1)
      <4>1. Len(two.stack) > 1 /\ Len(two.stack) - 1 = k - 1
        BY <3>3, <3>5 DEF Prefix
      <4> HIDE DEF two
      <4> QED BY <3>5, <4>1, PopIs
    <3>7. /\ three.in_login = FALSE /\ three.token = t.token /\ three.thrown = FALSE
          /\ Len(three.stack) = k - 1 /\ \A i \in 1..(k - 1) : three.stack[i] = t.stack[i]
      <4> HIDE DEF none, one, two, three
      <4> QED BY <3>1, <3>4, <3>5, <3>6 DEF SameLogin, Prefix
    <3>8. u.in_login = FALSE /\ u.token = t.token /\ u.stack = three.stack
      <4>1. three \in Terminals
        BY <3>6 DEF WellFormed
      <4> HIDE DEF three
      <4> QED BY <3>7, <4>1 DEF Terminals
    <3>9. NoPrompt(u, Len(u.stack))
      <4>1. Len(u.stack) = k - 1 /\ \A i \in 1..(k - 1) : u.stack[i] = t.stack[i]
        <5> HIDE DEF three, u
        <5> QED BY <3>7, <3>8
      <4>2. NoPrompt(t, k) /\ \A i \in 1..(k - 1) : i \in 1..k
        BY <2>3 DEF AtPrompt
      <4> HIDE DEF u
      <4> QED BY <4>1, <4>2 DEF NoPrompt
    <3>10. ~(hasLogin /\ ~t.token)
      BY <2>1, <2>6 DEF Undisturbed
    <3>11. Undisturbed(u, guards, hasLogin)
      <4> HIDE DEF u
      <4> QED BY <3>8, <3>9, <3>10 DEF Undisturbed
    <3>12. login_callback(t, n, ok) = u
      <4>1. PopsTerminal(t)
        BY <2>4 DEF PopsTerminal
      <4>2. NestedFails(t) = u
        BY <3>7, <4>1 DEF NestedFails
      <4> QED BY <1>3, <2>6, <4>2 DEF login_callback
    <3> HIDE DEF u
    <3> QED BY <3>11, <3>12
  <2> QED BY <2>5, <2>6
<1> QED BY <1>2, <1>3

(* A turn with what nobody disturbs leaves it so. *)
LEMMA UndisturbedTurn ==
  ASSUME NEW t, WellFormed(t), Turn(t), NEW guards, Undisturbed(t, guards, hasLogin),
         nested' = guards
  PROVE  Undisturbed(term, nested, hasLogin)'
<1>1. /\ term'.stack = t.stack /\ term'.mask = t.mask /\ term'.logins = t.logins
      /\ term'.in_login = t.in_login /\ term'.history = t.history
      /\ term'.token = t.token
  BY TurnIs
<1>2. hasLogin' = hasLogin
  BY DEF Turn
<1> QED BY <1>1, <1>2, UndisturbedIsSame

LEMMA InitUndisturbed == Init => Undisturbed(term, nested, hasLogin)
<1> SUFFICES ASSUME Init PROVE Undisturbed(term, nested, hasLogin)
  OBVIOUS
<1>1. PICK stored \in BOOLEAN :
        LET t == [Fresh EXCEPT !.token = stored /\ hasLogin]
        IN term = IF hasLogin THEN login(t) ELSE t
  BY DEF Init
<1> DEFINE t == [Fresh EXCEPT !.token = stored /\ hasLogin]
<1>2. hasLogin \in BOOLEAN
  BY DEF Init
<1>3. /\ WellFormed(t) /\ Len(t.stack) = 1 /\ t.stack[1].role = "main"
      /\ t.logins = 0 /\ t.in_login = FALSE
  BY <1>2, FreshIs
<1> HIDE DEF t
<1>4. NoPrompt(t, 1)
  BY <1>3 DEF NoPrompt, Prompts
<1>5. CASE ~hasLogin
  <2>1. term = t
    BY <1>1, <1>5, Zenon DEF t
  <2> QED BY <1>3, <1>4, <1>5, <2>1 DEF Undisturbed
<1>6. CASE hasLogin /\ t.token
  <2>1. term = t
    BY <1>1, <1>3, <1>6, Zenon DEF t, login
  <2> QED BY <1>3, <1>4, <1>6, <2>1 DEF Undisturbed
<1>7. CASE hasLogin /\ ~t.token
  <2>1. term = login(t)
    BY <1>1, <1>7, Zenon DEF t
  <2>2. /\ Pushed(term, t, "user", t.logins + 1) /\ term.in_login /\ ~term.history
        /\ term.logins = t.logins + 1
    BY <1>3, <1>7, <2>1, LoginIs
  <2>3. term.logins = 1 /\ ~nested[1]
    BY <1>3, <2>2, LoginAssumption DEF Init, Logins
  <2>4. AtPrompt(term, 1, nested)
    BY <1>3, <1>4, <2>2, <2>3 DEF AtPrompt, NoPrompt, Pushed
  <2> QED BY <2>2, <2>3, <2>4 DEF Undisturbed
<1> QED BY <1>5, <1>6, <1>7

LEMMA NextUndisturbed ==
  ASSUME IInv, [Next]_vars, Quiet'
  PROVE  Undisturbed(term, nested, hasLogin)'
<1> USE DEF vars
<1>1. /\ WellFormed(term) /\ term.thrown = FALSE /\ odd \subseteq Odd
      /\ nested \in [Logins -> BOOLEAN] /\ calls \in [Logins -> 0..MaxCalls]
      /\ term \in Terminals /\ term.logins \in Nat /\ Len(term.stack) \in Nat
      /\ \A n \in Logins : term.logins < n => ~nested[n]
  BY DEF IInv, Basics, WellFormed, Terminals
<1>2. /\ top(term) = term.stack[Len(term.stack)] /\ Len(term.stack) \in 1..Len(term.stack)
      /\ top(term).role \in Roles /\ top(term).login \in Nat /\ top(term).login <= term.logins
  BY <1>1, TopIs
<1>3. ASSUME Quiet PROVE Undisturbed(term, nested, hasLogin)
  BY <1>3 DEF IInv
<1>4. ASSUME NEW t, ByProgram(t) PROVE Quiet /\ ~term.in_login
  BY <1>4 DEF ByProgram, Note, Quiet
<1>5. ASSUME Quiet, top(term).role \notin Prompts PROVE ~term.in_login
  BY <1>1, <1>3, <1>5, PromptOnTop DEF Undisturbed
<1>6. ASSUME Quiet, ~term.in_login, Turn(pop(term)), nested' = nested
      PROVE  Undisturbed(term, nested, hasLogin)'
  <2> DEFINE s == pop(term)
  <2>1. WellFormed(s)
    BY <1>1, PopKeeps DEF Kept
  <2>2. s.logins = term.logins + 1 => ~nested[term.logins + 1]
    BY <1>1, <1>6, LoginAssumption DEF Turn, Logins
  <2>3. Undisturbed(s, nested, hasLogin)
    BY <1>1, <1>3, <1>6, <2>2, UndisturbedPop
  <2> QED BY <1>6, <2>1, <2>3, UndisturbedTurn
<1>7. CASE EnterUser
  <2> DEFINE m == set_mask(term, "on")
             s == push(m, "password", top(term).login)
  <2>1. Quiet /\ top(term).role = "user" /\ Turn(s) /\ nested' = nested
    BY <1>7 DEF EnterUser, ByUser, Quiet
  <2>2. term.in_login
    BY <1>2, <1>3, <2>1 DEF Undisturbed, NoPrompt, Prompts
  <2>3. PICK k \in Nat : AtPrompt(term, k, nested)
    BY <1>3, <2>1, <2>2 DEF Undisturbed
  <2>4. Len(term.stack) = k + 1 /\ k > 0 /\ top(term).login = term.logins
    <3>1. Len(term.stack) # k + 2
      BY <1>1, <2>1, <2>3, PromptOnTop
    <3> QED BY <1>1, <2>3, <3>1, PromptOnTop DEF AtPrompt
  <2>5. /\ WellFormed(m) /\ SameLogin(m, term) /\ m.mask = "on" /\ Len(m.stack) = k + 1
        /\ \A i \in 1..k : m.stack[i] = term.stack[i]
        /\ m.stack[k + 1].role = term.stack[k + 1].role /\ m.stack[k + 1].login = term.stack[k + 1].login
    BY <1>1, <2>4, SetMaskIs
  <2>6. WellFormed(s) /\ SameLogin(s, m) /\ Pushed(s, m, "password", term.logins)
    BY <1>1, <1>2, <2>4, <2>5, PushedRoles, PushIs DEF SameLogin
  <2>7. /\ Len(s.stack) = k + 2 /\ s.mask = "on" /\ \A i \in 1..k : s.stack[i] = term.stack[i]
        /\ s.stack[k + 1].role = term.stack[k + 1].role /\ s.stack[k + 1].login = term.stack[k + 1].login
        /\ s.stack[k + 2].role = "password" /\ s.stack[k + 2].login = term.logins
    BY <2>5, <2>6 DEF Pushed
  <2>8. AtPrompt(s, k, nested)
    BY <2>3, <2>5, <2>6, <2>7 DEF AtPrompt, NoPrompt, SameLogin
  <2>9. Undisturbed(s, nested, hasLogin)
    BY <1>3, <2>1, <2>2, <2>5, <2>6, <2>8 DEF Undisturbed, SameLogin
  <2> QED BY <2>1, <2>6, <2>9, UndisturbedTurn
<1>8. CASE EnterPassword
  BY <1>3, <1>8 DEF EnterPassword, Quiet
<1>9. CASE EnterRead
  <2>1. Quiet /\ top(term).role \notin Prompts /\ Turn(pop(term)) /\ nested' = nested
    BY <1>9 DEF EnterRead, ByUser, Quiet, Prompts
  <2> QED BY <1>5, <1>6, <2>1
<1>10. CASE Exit \/ CtrlD
  BY <1>6, <1>10 DEF Exit, CtrlD, ByUser, Quiet
<1>11. CASE LoginCommand
  <2>1. Quiet /\ Len(term.stack) = 1 /\ Turn(pop(term)) /\ nested' = nested
    BY <1>11 DEF LoginCommand, ByUser, Quiet, logout
  <2>2. top(term).role = "main"
    BY <1>1, <1>2, <2>1 DEF WellFormed
  <2> QED BY <1>5, <1>6, <2>1, <2>2 DEF Prompts
<1>12. CASE Pop
  BY <1>4, <1>6, <1>12 DEF Pop, ByProgram
<1>13. CASE Push \/ read
  <2>1. PICK role \in {"sub", "read"} : ByProgram(push(term, role, 0))
    BY <1>13 DEF Push, read
  <2>2. Quiet /\ ~term.in_login
    BY <1>4, <2>1
  <2>3. WellFormed(push(term, role, 0))
    <3>1. 0 \in Nat /\ 0 <= term.logins
      BY <1>1
    <3> QED BY <1>1, <3>1, PushedRoles, PushKeeps DEF Kept
  <2>4. Undisturbed(push(term, role, 0), nested, hasLogin)
    BY <1>1, <1>3, <2>2, UndisturbedPush
  <2> QED BY <2>1, <2>3, <2>4, UndisturbedTurn DEF ByProgram
<1>14. CASE \E mask \in {"on", "off"} : SetMask(mask)
  <2> PICK mask \in {"on", "off"} : ByProgram(set_mask(term, mask))
    BY <1>14 DEF SetMask
  <2> DEFINE s == set_mask(term, mask)
  <2>1. Quiet /\ ~term.in_login
    BY <1>4
  <2>2. /\ WellFormed(s) /\ SameLogin(s, term) /\ Len(s.stack) = Len(term.stack)
        /\ \A i \in 1..(Len(term.stack) - 1) : s.stack[i] = term.stack[i]
        /\ s.stack[Len(term.stack)].role = term.stack[Len(term.stack)].role
    BY <1>1, SetMaskIs
  <2>3. \A i \in 1..Len(term.stack) : s.stack[i].role = term.stack[i].role
    <3> TAKE i \in 1..Len(term.stack)
    <3>1. i = Len(term.stack) \/ i \in 1..(Len(term.stack) - 1)
      BY <1>1
    <3> QED BY <2>2, <3>1
  <2>4. Undisturbed(s, nested, hasLogin)
    BY <1>3, <2>1, <2>2, <2>3 DEF Undisturbed, NoPrompt, SameLogin
  <2> QED BY <2>2, <2>4, UndisturbedTurn DEF ByProgram
<1>15. CASE reset
  <2> DEFINE s == [term EXCEPT !.stack = <<Head(@)>>]
  <2>1. Quiet /\ ~term.in_login /\ Turn(s) /\ nested' = nested
    BY <1>15 DEF reset, Note, Quiet
  <2>2. WellFormed(s) /\ SameLogin(s, term) /\ Prefix(s, term, 1)
    BY <1>1, ResetIs
  <2> HIDE DEF s
  <2>3. NoPrompt(s, Len(s.stack))
    BY <1>1, <2>2 DEF NoPrompt, Prefix, WellFormed, Prompts
  <2>4. Undisturbed(s, nested, hasLogin)
    BY <1>3, <2>1, <2>2, <2>3 DEF Undisturbed, SameLogin
  <2> QED BY <2>1, <2>2, <2>4, UndisturbedTurn
<1>16. CASE PushLogin
  <2> DEFINE p == push(term, "sub", 0)
             s == login(p)
  <2>1. /\ Quiet /\ ~term.in_login /\ Turn(s)
        /\ nested' = IF s.thrown THEN nested ELSE [nested EXCEPT ![s.logins] = TRUE]
    BY <1>16 DEF PushLogin, Note, Quiet
  <2>2. WellFormed(s)
    <3>1. 0 \in Nat /\ 0 <= term.logins
      BY <1>1
    <3>2. WellFormed(p)
      BY <1>1, <3>1, PushedRoles, PushKeeps DEF Kept
    <3> HIDE DEF p
    <3> QED BY <3>2, LoginKeeps DEF Kept
  <2>3. ASSUME NEW new, new[term.logins + 1] = TRUE
        PROVE  Undisturbed(s, new, hasLogin) /\ s.thrown = term.thrown /\ s.logins = term.logins + 1
    BY <1>1, <1>3, <2>1, <2>3, UndisturbedPushLogin
  <2>4. s.thrown = FALSE /\ s.logins = term.logins + 1
    <3>1. [n \in {term.logins + 1} |-> TRUE][term.logins + 1] = TRUE
      OBVIOUS
    <3> HIDE DEF s
    <3> QED BY <1>1, <2>3, <3>1
  <2>5. nested'[term.logins + 1] = TRUE
    BY <1>1, <2>1, <2>4, LoginAssumption DEF Turn, Logins
  <2> QED BY <2>1, <2>2, <2>3, <2>5, UndisturbedTurn
<1>17. ASSUME NEW n, NEW ok \in BOOLEAN, NEW asked, Turn(login_callback(term, n, ok)),
              odd' = Answered(n, ok, asked), nested' = nested,
              asked => ok \/ (top(term).role = "password" /\ (Quiet => n = term.logins))
       PROVE  Undisturbed(term, nested, hasLogin)'
  <2>1. Quiet /\ asked
    BY <1>17 DEF Answered, Note, Quiet
  <2>2. WellFormed(login_callback(term, n, ok))
    BY <1>1, CallbackKeeps
  <2>3. Undisturbed(login_callback(term, n, ok), nested, hasLogin)
    BY <1>1, <1>3, <1>17, <2>1, UndisturbedAnswer
  <2> QED BY <1>17, <2>2, <2>3, UndisturbedTurn
<1>18. CASE \E ok \in BOOLEAN : autologin(ok)
  BY <1>17, <1>18 DEF autologin
<1>19. CASE \E ok \in BOOLEAN : \E n \in Logins : Answer(n, ok)
  <2> PICK ok \in BOOLEAN, n \in Logins : Answer(n, ok)
    BY <1>19
  <2> DEFINE asked == term.in_login /\ top(term).role = "password" /\ top(term).login = n
  <2>1. asked /\ Quiet => n = term.logins
    BY <1>1, <1>3, PromptOnTop DEF Undisturbed
  <2>2. Turn(login_callback(term, n, ok)) /\ odd' = Answered(n, ok, asked) /\ nested' = nested
    BY DEF Answer
  <2> QED BY <1>17, <2>1, <2>2
<1>20. CASE UNCHANGED vars
  BY <1>3, <1>20 DEF Quiet
<1> QED
  BY <1>7, <1>8, <1>9, <1>10, <1>11, <1>12, <1>13, <1>14, <1>15, <1>16, <1>18, <1>19, <1>20 DEF Next

LEMMA InitInv == Init => IInv
BY InitBasics, InitUndisturbed DEF IInv

LEMMA NextInv == IInv /\ [Next]_vars => IInv'
BY NextBasics, NextUndisturbed DEF IInv

(* The inductive invariant, of which the theorems below are parts. *)
LEMMA Invariance == Spec => []IInv
<1>1. Init => IInv
  BY InitInv
<1>2. IInv /\ [Next]_vars => IInv'
  BY NextInv
<1> QED BY <1>1, <1>2, PTL DEF Spec

-----------------------------------------------------------------------------
(* The theorems.                                                           *)

(* Every variable keeps its type; the main interpreter is at the bottom of *)
(* the stack and only there (push, pop, reset and login_callback of        *)
(* terminal.js).                                                           *)
THEOREM TypeCorrect == Spec => []TypeOK
<1> DEFINE Bounded == [role : Roles, login : 0..MaxLogins,
                       mask : {"unset", "on", "off"}, meant : {"on", "off"}]
<1>1. ASSUME Basics PROVE TypeOK
  <2>1. term \in Terminals /\ WellFormed(term)
    BY <1>1 DEF Basics, WellFormed
  <2>2. term.logins \in 0..MaxLogins /\ term.thrown = FALSE
    BY <1>1, <2>1, LoginAssumption DEF Basics, Terminals
  <2>3. term.stack \in Seq(Interpreters) /\ Len(term.stack) \in Nat
    BY <2>1 DEF Terminals
  <2>4. \A i \in 1..Len(term.stack) : term.stack[i] \in Bounded
    <3> TAKE i \in 1..Len(term.stack)
    <3>1. term.stack[i] \in Interpreters /\ term.stack[i].login <= term.logins
      BY <2>1, <2>3, ElementOfSeq DEF WellFormed
    <3> QED BY <2>2, <3>1, LoginAssumption DEF Interpreters
  <2>5. term.stack \in Seq(Bounded)
    <3> HIDE DEF Bounded
    <3>1. SubSeq(term.stack, 1, Len(term.stack)) \in Seq(Bounded)
      BY <2>3, <2>4, SubSeqProperties
    <3> QED BY <2>3, <3>1, SubSeqFull
  <2>6. term.stack # <<>> /\ \A i \in DOMAIN term.stack : term.stack[i].role = "main" <=> i = 1
    BY <2>1, <2>3, LenProperties DEF WellFormed
  <2>7. term \in [stack : Seq(Bounded), mask : {"on", "off"}, in_login : BOOLEAN, history : BOOLEAN,
                  token : BOOLEAN, handler : BOOLEAN, logins : 0..MaxLogins, thrown : {FALSE}]
    <3> HIDE DEF Bounded
    <3> QED BY <2>1, <2>2, <2>5 DEF Terminals
  <2> QED BY <1>1, <2>6, <2>7 DEF TypeOK, Basics
<1>2. IInv => TypeOK
  BY <1>1 DEF IInv
<1> QED BY <1>2, Invariance, PTL

(* The command line has the mask of the interpreter on top, whatever was   *)
(* pushed on it and popped, unless reset has stripped it                   *)
(* (terminal.js:4642-4644, 4714-4715, 4745-4752).                          *)
THEOREM MasksComeBack == Spec => []MaskIsMeant
<1>1. IInv => MaskIsMeant
  BY TopIs DEF IInv, Basics, Meant, MaskIsMeant
<1> QED BY <1>1, Invariance, PTL

(* The history is on outside a login, unless that of a pushed interpreter  *)
(* has failed (terminal.js:3900-3903, 3925-3927, 3941-3947).               *)
THEOREM HistoryIsEnabled == Spec => []HistoryComesBack
<1>1. IInv => HistoryComesBack
  BY DEF IInv, Basics, Remembers, HistoryComesBack
<1> QED BY <1>1, Invariance, PTL

(* A password is masked and kept out of the history when it is typed       *)
(* (terminal.js:3900-3903, 3958, 4642-4644).                               *)
THEOREM PasswordsAreHidden == Spec => []PasswordIsHidden
<1>1. ASSUME IInv, Quiet, top(term).role = "password" PROVE term.mask = "on" /\ ~term.history
  <2>1. WellFormed(term) /\ Undisturbed(term, nested, hasLogin)
    BY <1>1 DEF IInv, Basics
  <2>2. term.in_login
    BY <1>1, <2>1, TopIs DEF Undisturbed, NoPrompt, Prompts
  <2>3. PICK k \in Nat : AtPrompt(term, k, nested)
    BY <2>1, <2>2 DEF Undisturbed
  <2>4. Len(term.stack) # k + 1
    BY <1>1, <2>1, <2>3, PromptOnTop
  <2> QED BY <2>1, <2>3, <2>4, PromptOnTop DEF AtPrompt
<1>2. IInv => PasswordIsHidden
  BY <1>1 DEF PasswordIsHidden
<1> QED BY <1>2, Invariance, PTL

(* With settings.login commands reach an interpreter only when there is a  *)
(* token (terminal.js:3403-3423, 3910-3948, 4680-4700).                    *)
THEOREM CommandsNeedToken == Spec => []MainIsGuarded
<1>1. ASSUME IInv, Quiet, top(term).role \notin Prompts, hasLogin PROVE term.token
  <2>1. WellFormed(term) /\ Undisturbed(term, nested, hasLogin)
    BY <1>1 DEF IInv, Basics
  <2>2. ~term.in_login
    BY <1>1, <2>1, PromptOnTop DEF Undisturbed
  <2> QED BY <1>1, <2>1, <2>2 DEF Undisturbed
<1>2. IInv => MainIsGuarded
  BY <1>1 DEF MainIsGuarded
<1> QED BY <1>2, Invariance, PTL
================================================================================
